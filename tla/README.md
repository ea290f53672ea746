# Verification of Linux_templates

The repository is a collection of small C++ programs, each showing one Linux
facility: threads and their synchronisation, processes and signals, pipes,
shared memory, sockets, epoll, timers.  What is hard in them is the interplay
with the kernel and with each other: which call blocks, who holds which end of a
pipe, when a signal is pending, what is lost when a process dies.  The modules
here describe the programs as TLA+ state machines, TLC checks small instances,
and TLAPS proves the main results for every value of the constants.

    tlc -config Condition.cfg MCCondition
    tlapm ConditionProofs.tla

## Inventory

| component | state | operations | what is hard | what makes it correct |
|---|---|---|---|---|
| thread_template/condition | thread states, `num_live`, `num_unjoined`, mutex, condition variable | workers: lock, mark, unlock, signal; main: create, wait, scan, join | lost wakeups, join under the mutex, error paths | counters exact, no lost wakeup, main leaves after all workers |
| thread_template/mutex | `num`, mutex | two threads increment; main creates, joins, destroys | lost updates, life of the mutex | printed number = 2 x loop |
| process_template/sigchld | `num_live_children`, signal mask, pending bit | fork, sigsuspend, handler with waitpid | signals merge, handler interrupts main | every dead child is reaped, handler only inside sigsuspend |
| process_comm_template/pipe_sync | who holds the write end | fork, close, read | stray write ends, early and killed children | barrier opens exactly when all have given it up |
| process_comm_template/pipe | pipe contents, ends, buffer | write, read in chunks, end-of-file, wait | SIGPIPE, partial transfers, death of either side | bytes in order, nothing lost, both end |
| process_comm_template/pipe_filter | descriptor tables | pipe, fork, dup2, close, exec, wait | descriptors 0-2 closed at start, stray ends | ls and wc find the pipe, wc sees its end |
| io_template/epoll | interest list, event batch, `num_open_fds` | open, epoll_wait, read, close | events handled late, hang-up with data left | no descriptor closed twice, data drained, main ends |
| socket_template/readline | buffer, `total_read` | read byte by byte | lines longer than the buffer, early end | exactly one line is taken |
| socket_template/internet_socket | listening queue, connection, two streams | connect, accept, request, answer, close | the answer has no newline, one accept only, deaths, resets | answer only to a whole request, nobody hangs |
| process_template/posix_shm | a named object, its size and bytes, mappings | create, write, read, unlink | four programs with nothing to order them, size 0, the object resized while it is mapped, no NUL in the data | no fault, a reader prints all that was written before it opened |
| process_template/process | signal mask, pending bit, exit functions | SIGUSR1 handshake, exit | signal before sigsuspend, parent gone before kill | the child's own signal ends the wait, exit functions once and in reverse |
| process_template/wait | children, `num_dead` | fork, wait until ECHILD | SIGCHLD ignored at the start | leaves after all children, and does leave |
| process_template/child_status, common/wait_status | status not reported yet | waitpid with WUNTRACED and WCONTINUED | a report replaced by the next one, encoding of the status | the report is of what happened last, main leaves after the end |
| timer_template/timerfd | timer, expiration counts | parse, settime, read | widths, rounding, one-shot timers | timer as asked for, counts exact, loop ends |
| thread_template/pthread_cancel | one thread, the lock of stdout | create, cancel, join | cancellation inside printf | join returns, the lock is free |
| thread_template/simple_thread | one thread, `back_code` | create, join | errors are reported and ignored | printed length is the thread's |
| common/current_time, popen, rlimit | none | formatting and printing | | |

The programs share no code but `Readline`, `GetCurrentTime` and
`PrintWaitStatus`; they interact with the kernel, with their own children and
threads, and (the sockets, the shared memory) with each other.

## Modules

`ForkJoin` and `Transfer` are abstract specifications.  `ForkJoin`: a parent goes
on only when all its workers have been started and have finished, or it gives up.
`Transfer`: a stream whose sink gets what the source puts in, in order, and sees
its end only when everything has been taken out and the source has closed.

| module | models | implements |
|---|---|---|
| `Condition` | condition.cpp | `ForkJoin` |
| `Mutex` | mutex.cpp | `ForkJoin` |
| `Sigchld` | sigchld.cpp | `ForkJoin` |
| `PipeSync` | pipe_sync.cpp | `ForkJoin` |
| `Pipe` | pipe.cpp | `Transfer` |
| `PipeFilter` | pipe_filter.cpp | `ForkJoin` |
| `Epoll` | epoll.cpp | |
| `Lines` | what a call of Readline takes and returns, as functions of a stream | |
| `Readline` | readline.cpp, byte by byte, checked against `Lines` | |
| `Session` | internet_socket server and clients; a Readline is one step by `Lines` | |
| `Wait` | wait.cpp | `ForkJoin` |
| `ChildStatus` | child_status.cpp and wait_status.cpp | |
| `Process` | process.cpp | |
| `PosixShm` | posix_shm_create, _write, _read and _unlink, interleaved | |
| `Timerfd` | timerfd.cpp | |
| `Cancel` | pthread_cancel.cpp | `ForkJoin` |
| `SimpleThread` | simple_thread.cpp | `ForkJoin` |
| `Programs` | the last seven, one of which is chosen and run | |

`MCx` holds the values TLC gives to the constants of `x`; `xProofs` its theorems.
`PipeProofs` is about the three programs with a pipe: it extends `PipeFilter` and
instantiates `Pipe` and `PipeSync`.

The seven programs of `Programs` share nothing but the kernel, so running them at the
same time would multiply the states and show nothing more.  `Programs` has their
variables side by side under a prefix (`wait_`, `status_`, `process_`, `shm_`,
`timer_`, `cancel_`, `simple_`); `program`, chosen by `Init`, says which one moves,
and the others stay as they are.  Its properties are those of the seven modules, each
of which holds trivially of a program that does not move, so that one run checks them
all.

Conventions common to all modules:

- The location of a process or thread is named after the system or library call
  it is about to make.  One action is one call with the assignments that follow
  it up to the next call that others could notice; private arithmetic and
  printing are not separate steps.
- `Failing` is the set of calls that may return an error; the error path of the
  code is an action (`MainError`, `WorkerError`, `ChildError`, ...).  `Killable`
  is the set of processes that a signal may kill at any place.  A process that
  ends loses its descriptors, as the kernel sees to.
- When main of a threaded program returns, the process and its threads end: no
  worker moves any more.
- Sleep times are not modelled: a sleep may take any time, so every order of
  events is explored.
- A definition preceded by "Mutant:" is a plausible bug in the definition below
  it.  No specification uses it; it is there to show that a property notices the
  bug: substituted for the definition, TLC finds the property violated.

Correspondences that are not obvious:

- `Condition`: `MainLock` is the lock of line 94 or the one that
  pthread_cond_wait takes back, together with the test of `num_unjoined`, which
  nobody changes while main holds the mutex.  `num_unjoined++` is `Load` and the store
  in `Mark`, `num_unjoined--` the load in `Join` and the store in `Reap`: only the
  mutex keeps them apart, which is what `Counted` is about.  `Signal` wakes main or nobody, since
  only main waits on `cond`.  `SpuriousWakeup` is POSIX's.
- `Mutex`: `num++` is `Load` and `Store`.  `num` is a long long and cannot
  overflow with a loop count that is an int.  A mutex that a thread holds cannot be
  destroyed (EBUSY), so that a thread that fails to unlock makes main fail, and one that
  fails to lock makes it print too small a number.
- `Sigchld`: the pending bit is one bit; sigsuspend lets the signal in
  (`Deliver`) and returns when the handler does (`HandlerReturn`).  waitpid's loop
  is `Reap` repeated until `NoMore`.  sa_flags is 0, so stops and continuations
  raise SIGCHLD too; `jobctl` counts them.
- `PipeSync`: nobody writes, so only who holds the write end matters.
- `Pipe`: a write longer than the room in the pipe goes in piece by piece
  (`PutBytes`), the sizes being the kernel's choice.
- `PipeFilter`: `table[p][d]` is the descriptor table; `Init` starts from every
  subset of 0, 1, 2 being open.  ls and wc are external: what is modelled is that
  one writes to its descriptor 1 and the other reads its descriptor 0 to the end.
  `ignored` is as in `Wait`; then the first wait returns -1 (`NoChild`).
- `Epoll`: `evlist` is a snapshot taken by `EpollWait`; which of the ready
  descriptors come, and in what order, is the kernel's choice.  FIFOs and their
  writers are external.  `reported` is a history variable: how much had been written
  when a hang-up was last reported, which is what a close may rely on.
- `Readline`: `Limit` is `n - 1` in size_t arithmetic (modulo
  `SizeMax` + 1).
- `Session`: closing a socket with bytes not read, or one never accepted, resets
  the connection; what a client finds then is the end of the stream or an error.
- `Wait`: `ignored` says that SIGCHLD was ignored when the program was started, which
  exec inherits: the kernel forgets the dead children and wait blocks until none is
  left, then says ECHILD.
- `ChildStatus`: `status` is the one change of the child's state that waitpid has not
  reported, in the kernel's encoding; the next change replaces it.  `Report` is
  waitpid with the printing; `autoreap` is `ignored` of `Wait`.
- `Process`: the mask of the parent is what matters of SIGUSR1 (`blocked`), with one
  pending bit.  Other processes may send SIGUSR1 (`Stray`), at any time, so also
  before the handler is there.  `GetPpid` and `Kill` are two steps of the child: the
  parent may end between them, and then the signal goes to nobody or to the process
  that has adopted the child.  sigsuspend returns only after the handler, with EINTR.
- `PosixShm`: objects outlive their name (`name` and `obj`), mappings outlive
  descriptors.  A byte of the data is in its place or it is 0; the kernel grants access
  by pages, so a process faults only beyond the last page of its mapping or of
  the object.  memcpy writes in any order, printf reads byte by byte.  A program that
  is killed looks to the others like one that has failed.
- `Timerfd`: the argument is a sequence of tokens, and parsing finds the first ':' and
  the first '/' as strchr does.  The nanoseconds are the real 10^9; ints
  go up to `IntMax` (`AsInt` wraps around).  read stores 8 bytes at `num_loop`, which has 4: on this
  layout the other 4 fall on bytes nothing reads, and are zero as long as the count is
  below 2^32.
- `Cancel`: printf holds the lock of stdout while it writes, and a cancellation may be
  acted on there; the C library unlocks on the way.  A write or sleep that is over when
  the cancellation comes goes on to the next one (`TooLate`).
- `SimpleThread`: after a failed pthread_create the id that is joined was never set;
  `JoinGarbage` allows what may come of it: an error, a crash, or no return ("lost").

## Runs

| run | bounds | what it shows |
|---|---|---|
| Condition | 3 workers, all calls fail | counters exact though updates are a load and a store, no lost wakeup, join needs no mutex, refinement; main ends unless a worker fails |
| Mutex | loop 3, all calls fail | no lost update, printed number right exactly if no thread failed; main ends unless a thread fails |
| Sigchld | 3 children, 2 stops or continuations, all calls but waitpid fail | handler confined, no dead child forgotten, refinement; all dead leads to exit |
| PipeSync | 3 children, all fail, all killable | refinement, termination |
| Pipe | 0, 1, 4, 5 bytes; pipe of 3, buffer of 2; all fail, all killable | order and completeness (by refinement), termination |
| PipeFilter | 3 lines, pipe of 2, any of 0-2 closed, SIGCHLD ignored or not, all fail, all killable | plumbing, wc counts all, refinement, termination |
| Epoll | 3 FIFOs, writers come twice, 2 bytes, reads of 1, 2 events at once, all fail | open descriptors counted, reads do not block on a late event, FIFOs drained of what was there when the hang-up was reported; main ends, also with more ready descriptors than events |
| Readline | n from 0 to 5, streams to 6 bytes, `SizeMax` 7 | one line taken, buffer respected, return after hang-up |
| Readline_doc | n = 2, 4 bytes | **violation**: more than n bytes are read |
| Session | 2 clients, request of 3 bytes, server buffer of 5 (the request, its newline and a zero fit), all fail, all killable | answers only to whole requests, clients and server end |
| Session_comment | 1 client, the real sizes | **violation**: the loop comes round on a closed connection |
| Programs | all calls fail, children and the programs of posix_shm killable; see below | the promises of the seven programs |

Bounds of Programs, by program.  wait: 3 children, SIGCHLD ignored or not.
child_status: arguments -1, 0, 3, 256, 300 and none (what exit keeps of 256 and 300 is
another number), two signals that stop and two that kill, with and without core.
process: any mask at the start, any exit function may fail to be registered.
posix_shm: two creators, one each of the others; data of 2 bytes, creators' size 5, pages
of 4, so that the creator's size reaches into a second page and the data does not.
timerfd: eight arguments (one or two parts, with and without nanoseconds, disarmed,
refused), four readings of the clock, max_loop 0, 1 and 3, ints from -4 to 3, and 6
expirations, so that the int overflows.  pthread_cancel and simple_thread are finite.

Which property of Programs is about what:

| property | of | says |
|---|---|---|
| Implements | wait, pthread_cancel, simple_thread | main goes on only after what it started has ended, or an error |
| Reports | child_status | what is printed is what happened last; main leaves with the report of the end only |
| Handshake | process | past sigsuspend only after the child's signal, which never reaches another process, if nobody interferes |
| ExitHandlers | process | the parent's exit functions run once each, in reverse, after the signal; the child's never |
| NoFault | posix_shm | nobody touches memory that is not there |
| ReadsWhatWasWritten | posix_shm | a reader that opens after a write prints all of it |
| Parsed | timerfd | the timer is the one asked for |
| PrintsRight | timerfd | counts exact up to the overflow, enough expirations before success, time to half a millisecond |
| Results | wait, pthread_cancel, simple_thread | what is said of children or thread in the end is true |
| Terminates | all but posix_shm | the program ends, on the conditions below |

In no run: the type invariants; `InTransit` of `Pipe`, which says where the bytes
are that `Implements` sees from outside; and what is proved for every value of the
constants (below): `Counted` and `SignalsMerge` of `Sigchld`, `MutexAlive` and
`Implements` of `Mutex`, `MutualExclusion` of `Condition` and `WriteEnd` of `PipeSync`.

Why the bounds are enough: the workers and children of a program are alike and
interact with the parent only, so that three give one that is early, one that is
late and one in between; every buffer is exercised below, at and above its size
(message against buffer and pipe, line against buffer, ready descriptors against
events); two clients give one that is served and one that is not.

Deadlock is checked except for Condition and Mutex, where the code does stop for
good after a failed call: a worker of condition.cpp that fails leaves main waiting,
and a thread of mutex.cpp that fails to unlock keeps the mutex.  Their Terminates
is conditional for the same reason, and safety is checked with the failures.  A
handler of sigchld.cpp that fails in waitpid may leave main in sigsuspend with
nothing pending: the run excludes that failure, the proofs include it.  A FIFO
named twice for epoll.cpp may block its reads; `Epoll` describes it
(ReadNeverBlocks excludes it), the run does not name one twice.

Terminates of Programs is conditional where the program may wait for ever: the parent
of process.cpp if its child is killed before it signals; timerfd.cpp if its timer is
disarmed, or expires once and max_loop is more, or the count overflows; main of
simple_thread.cpp if the thread could not be created.  child_status.cpp ends once its
child has.  In these states the modules have an idle step, so that deadlock is
checked for the rest.

The violations are disagreements between the code and what is said of it:

- readline.cpp:20-21 says that without a newline at most n bytes are read; the
  code reads on to the newline and drops what does not fit.
- internet_socket_server.cpp:82 says, at the head of the loop, that the connection
  is established; the first round has closed it and nothing is accepted again.

Seen while modelling, without a line that says otherwise: an elapsed time whose
nanoseconds round up to a second is printed with ".1000" (`Elapsed`; as a number it is
right, which `PrintsRight` shows); a timer with no period and a max_loop above 1
blocks for ever; `num_loop` is half as wide as what read stores in it; the
parent of process.cpp hangs if its child dies early, and its child may signal the
process that has adopted it if the parent has died; simple_thread.cpp joins an id that was
never set if pthread_create fails.

## Fairness

Weak fairness of the steps of each process or thread: the kernel runs whatever can
run.  Failures and kills are actions outside the fair steps: a call that blocks is
never assumed to fail in the end.  `Condition` also assumes that
spurious wakeups do not go on for ever; `Sigchld` assumes nothing of the children
(its liveness starts from all of them being dead); `Epoll` assumes that somebody
opens every FIFO and nobody keeps it for ever, without which the program is not
meant to end; `Session` that TCP delivers.  `Programs` assumes that children of
wait.cpp and process.cpp wake up from their sleep and that the clock of an armed timer
runs; nothing of the child of child_status.cpp, which a user controls.

Strong fairness is assumed of one action, `ActOnCancel`: a thread that has been
cancelled and goes through one cancellation point after another cannot come too late at
every one of them, since the cancellation is pending and is noticed at the latest when the
next call is entered.  Elsewhere none is needed: the mutexes are contended for finitely
often.

## Proofs

Every invariant that a run checks is proved, and every refinement and action property,
for every value of the constants that the named assumptions allow: any number of
workers, children, clients or processes, any sizes of messages, buffers and pipes, any
set of failing calls.  The runs show the same on small instances, with liveness.

Each invariant is proved from an inductive one, by one lemma per group of actions, and
combined with PTL; a refinement is proved from it step by step against the abstract
specification.  TLC has checked the inductive invariants of the larger modules as
invariants of their runs before they were proved.  What they add to the property:

| module | proved | added by the inductive invariant |
|---|---|---|
| `ConditionProofs` | TypeOK, MutualExclusion, Counted, NoLostWakeup, JoinNeedsNoMutex, Implements | who holds the mutex where; a worker's state and its location agree; what was loaded is still current (`Loaded`) |
| `MutexProofs` | TypeOK, NoLostUpdate, MutexAlive, Result, Implements | a loaded value is still current, which is what mutual exclusion is for; a thread that has failed keeps the mutex or has rounds left |
| `SigchldProofs` | TypeOK, Counted, HandlerConfined, SignalsMerge, NoLostChild, Implements | SIGCHLD is blocked from before the first fork on (`Masked`) |
| `PipeProofs`, of `PipeFilter` | TypeOK, Plumbed, CountsAll, Implements | on which descriptors each process has which end, at each of its locations (`ParentHolds`, `ChildHolds`) |
| `PipeProofs`, of `Pipe` | InTransit, Implements (of `Transfer`) | output, buffer and pipe make up what was sent, also between the pieces of a write; who holds the write end (`PipeInv`) |
| `PipeProofs`, of `PipeSync` | TypeOK, WriteEnd, Implements | which children have been forked (`SyncForked`) |
| `EpollProofs` | TypeOK, Counted, ReadNeverBlocks, Drained | the events of one call name different open descriptors; one not yet handled is as true as when it was gathered (`StillReadable`); before a close, all that was reported has been read (`StillDrained`) |
| `SessionProofs` | TypeOK, AckMeansReceived | the few streams there can be on each connection; only one connection is ever accepted |
| `ReadlineProofs` | TypeOK, InBuffer, OneLine | `total_read` is the lesser of what was read and n - 1; no newline among what was read but the last |
| `ProgramsProofs` | Handshake, ExitHandlers, NoFault, ReadsWhatWasWritten, Parsed, PrintsRight, Results, Implements, Reports | one per program, below |

Facts worth having in these proofs:

- The theorem about NoLostChild assumes that waitpid has no other error than ECHILD, as
  the run does; that no FIFO is named twice is a hypothesis within ReadNeverBlocks.
- `Pipe` and `PipeSync` are instances in `PipeProofs`, so that their assumptions
  are hypotheses of the theorems there (`PipeParameters`, `SyncParameters`, the same
  formulas).  Their ASSUMEs are evaluated by their own runs.
- `OneLine` is the link between the two models of Readline: byte by byte, it takes and
  stores what the functions `Line` and `Stored` of `Lines` say, and these are what a step
  of `Session` takes.  It is proved for every n, also n = 1; with n = 0, where n - 1
  wraps around, nothing is claimed, as in the properties themselves.
- `Separation` takes the specification of `Programs` apart into those of its seven
  programs, each of which is then proved about alone.

The invariants of the seven programs:

- `SimpleInv`: main joins a thread that it could not create only after it has said so.
- `CancelInv`: the lock of stdout is the thread's only while it writes, so that a
  thread acted on by a cancellation never keeps it.
- `WaitInv`: `num_dead` counts the children reaped, or nothing if SIGCHLD is ignored.
- `StatusInv`: the status not reported yet is the encoding of the last event.  `Codec`
  shows that decoding it gives that event back, for every exit code and every signal
  from 1 to 126.
- `ProcessInv`: where the signal of the child is, in terms of both locations; what of
  the exit functions has run is the reverse of the end of what was registered.
- `ShmInv`: an object that has been created or written, or of which anything is mapped,
  has a size; objects only grow (`ShmGrows`), so that what was read of one stays true.
  The assumption is what the programs rely on without a check: the data, 11 bytes, is
  no longer than the object and shorter than a page.
- `TimerInv`: `total_loop` is the number of expirations taken as an int.  `Argument` shows
  that parsing undoes formatting, `ElapsedTime` that rounding is right to half a
  millisecond: neither uses a bound on the numbers.

Only model-checked: liveness (`Terminates`, `AllDeadLeadsToExit`, `HangUpLeadsToReturn`,
`ClientsEnd`, `ServerEnds`), which rests on fairness and ENABLED and is out of reach of
the prover.

## Not modelled

- Code under `#if 0` or `#else` of a `#if 1` (mutex.cpp 19-100, the getaddrinfo
  variants of client and server): not compiled, so not part of any program.
- `seq_num` of the server: a local variable, added to without being initialised and only
  printed.
- Printing and formatting where no property is about them.
- `current_time`: formats the time of day into a static buffer and keeps nothing else.
  That it is called from a signal handler is what `HandlerConfined` of `Sigchld` is about.
- `popen`: one process that reads a line of a command's output through stdio and prints
  it, without a look at what popen and fgets return (`buffer` is uninitialised if there
  is no line); everything that could interleave is inside the C library.
- `rlimit`: prints, sets and prints again the limits of the stack, once, in one process.

## Plan

Done: the abstract specifications, every program with behaviour of its own, the proofs
of all safety properties and refinements.

Next:

1. The type invariants of `Pipe`, `ChildStatus` and `Timerfd` as theorems, as they are for
   the others.
2. What `Programs` checks of one program, stated also where it says more than a run can:
   the sizes of `PosixShm` without the assumption that the data is shorter than a page.
3. Shorter proofs: the frames of `ShmInv` and of `PipeInv` repeat each other.
