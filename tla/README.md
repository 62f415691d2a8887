# Verification of c_demo

TLA+ models of the parts of this repository that have state and concurrency of
their own, the TLC runs that check them on small instances, and TLAPS proofs
for every instance. All paths below are relative to the repository's root,
which is the directory `src/` in `PROJECT.json`.

The repository is a collection of C programs behind one `main.c`: two thread
pools, linked lists shared by threads, socket servers (blocking, threaded,
`select`, libevent), signals and other forms of interprocess communication.
Each of them is a small system. They have little to do with each other beyond
the calls named below, so there is one module for each, not one for all.

## Inventory

| component | code | state | operations | modules |
|---|---|---|---|---|
| elastic thread pool | `thread/threadpool.c` | ring of tasks, three counters, two mutexes, two condition variables, slots of threads, `shutdown` | create, add, worker, manager, destroy, free | ThreadPool, TaskPool |
| simple thread pool | `thread/threadpoolsimple.c` | ring indexed by two growing counters, `job_num`, one mutex, two condition variables | create, addtask, thrRun, destroy | SimplePool, TaskPool |
| linked list | `pipe/linkList.c` | nodes on the heap | create, insert, tail insert, delete, pop, free, reverse, merge, add_max | LinkedList, ListSpec |
| producers and consumers | `pipe/lock.c` 79-159 | one list, a mutex, a condition variable | producer, consumer | CondList |
| event-driven web server | `web/webserver.c`, `socket/wrap.c` 154-196 | connections, descriptors, libevent's events, the static read-ahead buffer | accept, read a request, answer | WebServer |
| select server | `socket/socket.c` 272-361 | two `fd_set`s, `maxfd`, `nready`, `cfd` | the loop round `select` | SelectServer |
| child reaper | `pipe/signal.c` 115-176 | children, signal mask, pending signal | fork, handler, `waitpid` | ChildReaper |
| blocking echo servers and their client | `socket/socket.c` 17-245 (`socket/local_socket.c` 16-103 is one of them over AF_UNIX) | descriptors of each process, `cfd`, what a worker has read | connect, send, wait; accept, fork or start a thread, read, write, close | EchoServers |
| producers and consumers with semaphores | `pipe/lock.c` 160-224 | the same list, two semaphores | producer2, consumer2 | SemList |
| counters under a lock | `pipe/lock.c` 17-77, `pipe/thread.c` 157-212 | a number, a reader-writer lock or a mutex | write, read, add, join | Counters |
| signal ping-pong | `pipe/signal.c` 178-227 | `num` and `flag` of two processes | two handlers, two busy loops | PingPong |
| socket wrappers | `socket/wrap.c` 70-152 | what a call has transferred so far | Read, Write, Readn, Writen | Streams |
| line reader | `web/pub.c` 54-98 | the line so far | get_line | Streams |
| URL decoding | `web/pub.c` 100-153 | two pointers into one string | strdecode, strencode | UrlCode |
| log file | `web/log.c` | two files and their options | open, set options, write, close | LogFile |
| libevent echo server | `libevent/libevent.c` | as the web server, without its buffer | conncb, readcb | WebServer |
| bufferevent echo server and client | `libevent/hello-world.c`, `libevent/bufferevent_client.c` | libevent's buffers at both ends | their callbacks, SIGINT | BevEcho |
| UDP echo server and client | `udp/udp.c` | datagrams under way, the address received last | receive, answer; send, wait | UdpEcho |
| timers and daemon, other thread demos, pipe, FIFO, mmap | `pipe/`, rest | kernel's | straight-line calls | not modelled |
| SQL scripts, notes, build, web assets | `sql/`, `docs/`, `web/webpath/` | - | - | not part of the program |

How they interact: the consumers and producers call the list; the web server
calls `Readline` of the wrappers and, from `web/pub.c`, the URL decoding; the
other servers call the wrappers for single system calls. `main.c` calls one of
the programs, the others being commented out. Threads interact through mutexes,
condition variables and, here and there, plain variables; servers with their
clients through the kernel; the reaper with its children through `SIGCHLD`.
Nothing is kept across a restart but the log file, which is appended to.

What is hard: wake-ups that are sent outside a critical section, awaited with
`if` instead of `while`, or answered by a thread that wanted something else; a
manager that acts on a stale snapshot; flags written without a lock; memory
freed under threads that use it; a static buffer shared by all connections;
descriptors closed and handed out again in the middle of a round; signals that
do not queue, or come between the sending of a signal and the note that it was
sent; datagrams that are lost or repeated; reads and writes that transfer a
part; a string decoded into itself; pointers rewritten in place. `PROJECT.json`
lists each of these hazards at its line with the property that is about it.

## Modules

**TaskPool** is what both pools promise: tasks are accepted while there is
room, started in the order of acceptance, each by one thread, and finished.
Tasks are numbered as they are accepted, so that two counters describe the
queue.

**ThreadPool** (`threadpool.c`). Clients, workers, the manager and
`threadpool_destroy` each have a place (`cpc`, `pc`, `apc`, `dpc`). A step is a
piece of code with at most one access others can race with: critical sections
of `pool->lock` are one step except where `shutdown`, which is also written
without the lock, is read in them; there the holder keeps `lock` from one step
to the next. A condition signal moves a waiting thread to "woken", from where
it competes for the lock; `SpuriousWakeup` does the same unasked. The random
choice of which slots the manager fills follows the loop of lines 272-281, in
which `is_thread_alive` may answer yes for a thread that has ended (POSIX
allows the id to be in use again). The model ends an execution at the first
access to freed memory: what happens after that is not defined.

**SimplePool** (`threadpoolsimple.c`). The same, for a pool without manager,
whose ring is indexed by two counters modulo its size and whose `addtask`
signals after it has unlocked.

**ListSpec** describes list operations on sequences of values. A call begins
with the arguments its caller gives (`call`) and has its effect, on that list,
at that position, with that value, in the step in which it returns; it may fail
only for a list that does not exist, a position behind the end, an empty list
or when the memory (`Capacity`, one unit for each head and element, also those
a caller of `list_poo` still holds) is in use. **LinkedList** (`linkList.c`) has
the nodes, their two fields, `malloc` and `free`, and takes a step for each
round of each loop. Between calls its lists are read off the nodes
(`Contents`); during a call `ListSpec` still sees the state before it.
`list_free` reads a node it has freed: the model gives the old pointer, or
crashes. **MCLinkedList** adds the symmetry.

**CondList** (`lock.c`). The list is a sequence here, since LinkedList shows
that it behaves like one under the mutex; `list_show`, which runs without the
mutex, follows pointers one by one and may reach an unlinked or a freed node or
`NULL`, and then the process may die (`crashed`).

**WebServer** (`webserver.c`, `wrap.c`). A step of `readMessageCallback` is one
call of `my_read`, at most one `read()`. Characters carry the connection they
came from, so that a mixture shows. Descriptors are the smallest free ones.
libevent is external: an event that is added for a descriptor libevent has an
event for already does not make the kernel watch it, and a closed descriptor
is no longer watched (the epoll and kqueue back ends). The same loop with the
callbacks of `libevent.c` is the echo server `testLibeventSocket`; `kind` says
which of the two runs. It reads once in a callback, keeps no buffer, and a
`SIGPIPE`, which the web server ignores, ends it (`up`). `ClosedAfterClient` is
about connections on descriptors not used before (`Fresh`): the event of a
closed descriptor stays behind, so that a new connection on the same number may
hang, in the model as in the code. It is also about clients that close between
two callbacks for them; when one closes while its request is being answered,
the answer may close the connection over input that came after the loop of
line 78.

**ChildReaper** (`signal.c`). System calls of the parent and of the handler
are steps; a child may end between any two. One pending flag stands for
`SIGCHLD`. Whether a blocked signal is kept while its action is the default
one, to ignore it, is left open by POSIX and is the constant `KeepsIgnored`.

**SelectServer** (`socket.c`). The variables of `testSelectSocket` under their
own names; the kernel's part is `Readable`. Answers go to `cfd`, the connection
accepted last, as in line 349; if its client has closed, the answer may raise
`SIGPIPE`, which ends the server. Clients take what is sent to them (`write`
never blocks) and close in an orderly way.

**EchoServers** (`socket.c`). Three servers and the client they share; `kind`
says which of the three runs and never changes. All three have the same
worker, written three times in the code: the server itself, a child, or a
thread. They differ in what the worker's descriptor refers to: a child has
copies of its parent's (`own`, `inherited`), threads share one table
(`table`), and a new thread is given the address of `cfd`, which it reads in a
step of its own (`CopyArgument`). `raced` records that `cfd` changed before
that. `fork` may fail, which ends the server, and so may `pthread_create`, which
nobody looks at: the connection is then left without a thread (`stranded`), and
`pthread_detach` gets an id that is none or is that of an earlier thread, which
may end the process (`Dies`, also used for `SIGPIPE`). `AnswerComes` names these
cases (`Abandoned`) and tells them apart from a client whose user ends it
(`cpc` is "killed"). The n-th byte a client sends is the number n, so that lost,
repeated and overtaken bytes show; capitals are left out.

**PingPong** (`signal.c`). `num` and `flag` of each process, and the signals
that are pending. A handler is one step, since the loop it interrupts stands
still meanwhile and nobody else sees its variables; it may come between any two
steps of the loop, also between `kill` and `flag = 1`, where the two processes
can lose each other for ever (`Overwritten`).

**SemList** (`lock.c`). The list is its length. A list operation is an
interval, from "call" to "post"; when two overlap, or `list_show` meets an
empty list, the model stops (`undefined`), since nothing protects the list.

**Counters** (`lock.c`, `thread.c`). Reading the number and writing it back are
two steps. With `Readers` it is the reader-writer demo, without them the two
threads and the `main` that joins them.

**Streams** (`wrap.c`, `pub.c`). One process writes a text with `Write` or
`Writen`, another reads it with `Read`, `Readn` or `get_line`; every call of
the system transfers any part of what is asked. Errors other than an
interrupted call are left out: every function returns -1 then and the stream is
over.

**UrlCode** (`pub.c`). A step is a round of the loop of `strencode` or
`strdecode`, on the codes of the characters; the decoder writes to the string
it reads, as in `webserver.c`. Characters from 128 on are left out: the
arguments of `isalnum` and `isxdigit` would be negative there on most machines.

**LogFile** (`log.c`). Which files are open, the options of each, and how many
files the process holds open (`handles`). Dates and texts are left out. Calls
on a file that is not open, which the code does not prevent, stop the model.

**UdpEcho** (`udp.c`). The network is two sets of datagrams, from which it
loses some and in which it keeps copies of others.

**BevEcho** (`hello-world.c`, `bufferevent_client.c`). For each connection six
counters say how far its bytes have come: typed, arrived, echoed, flushed,
come, shown; that the server answers in capitals is left out. A step is a
callback with libevent's work that leads to it. What `conn_readcb` finds beyond
the size of its array stays in libevent's buffer until more input comes
(`TailLeft`). The client frees its bufferevent twice after the server has gone,
and writes beyond its array when 1024 bytes come at once; there the model of
that client stops (`undefined`).

**MCPrograms** chooses one of the last eight and ChildReaper at the start, as
`main.c` does, and gives them their constants. The programs that are not chosen
are left in a state in which none of their fair actions is enabled, so that
each module's own `Fairness` can be used as it stands.

## Runs

| run | instance | what it shows |
|---|---|---|
| pool_fixed | 2 workers, 2 clients, queue of 2, 3 tasks | no sleeping worker beside a task, no sleeping client beside room, every task run, every call returns |
| pool_elastic | 1 to 2 workers, 2 clients, queue of 1, destroy at any moment | implements TaskPool; live_thr_num bounded and exact; the manager's snapshot consistent; the pool shrinks again |
| pool_stale_exit (violated) | 1 to 2 workers, queue of 2, 4 tasks | a left-over request to retire consumes the wake-up of a task |
| pool_use_after_free (violated) | 1 worker | the pool is freed while its threads use it |
| simple_pool | 2 workers, 3 clients, queue of 2, 4 tasks, destroy | implements TaskPool; no lost wake-up until destruction |
| simple_lost_wakeup (violated) | 1 worker, 1 client | the broadcast of destroy_threadpool misses a worker |
| linked_list | 2 lists, 6 nodes, values 1 and 2, positions -1 to 3 | implements ListSpec: each call has its effect where and with what its caller said, or fails for a reason; no leak, no cycle, no null pointer followed |
| cond_list | 2 producers, 3 consumers, 3 nodes | `NodesOK`: each node has one owner and is freed once; none waits beside sleeping consumers; all are consumed |
| web_server | either server, 2 connections, buffer of 2, lines of 3, 3 characters each | the shared buffer is empty between callbacks; a request is a piece of one client's input; a connection on a fresh descriptor is closed, all its input read, when its client closes between two callbacks |
| programs | one of: 4 children; ping-pong up to 6; 3 producers and 2 consumers with semaphores of 3; 2 writers and 2 readers of 2 rounds, or 2 writers of 3; 2 UDP clients, 2 inputs, 2 repeats; 2 bufferevent clients, 3 bytes, buffers of 2; texts of up to 4 characters, sizes 2 and 3; names of up to 4 of the characters space, %, 0 and 2, buffers of 1, 5, 8, 16; two log files | no zombie is forgotten and all are reaped; numbers in turn and to the last one; a unit for each node; no count lost; each UDP client gets its own text, and an answer; each bufferevent client the answer to all it typed but a tail beyond the callback's buffer; pieces, lines and URLs as they should be; files opened once and closed |
| select_server | 3 connections, 2 messages each | fd_sets match the open descriptors; a round skips nothing; every message is read |
| echo_servers | 2 clients, 3 bytes each, each of three servers | one worker per open connection, bytes arrive once and in order, children have no stray descriptors; a client that waits is answered, unless the server is dead, has no thread for it or serves only the first |

Why the bounds are enough. The hazards need two threads of a kind that compete
and a third that comes in between; queues and buffers smaller than the number
of things put in them, so that they fill and wrap; and one more round than it
takes to reuse a cell, a node or a descriptor. Six nodes give two lists of two
elements each and a merge of both. A line of 3 holds 2 characters and is
therefore cut by a client's third; a buffer of 2 is read twice. Three
connections let one descriptor be reused while another is served. Three bytes
are what it takes to read a stream in two pieces and have more on the way. The
semaphores of SemList start at the number of producers, so that all of them are
in at once, and with 2 consumers nodes are left over. A name of four characters
holds an escape and what follows it, an escape cut short, or a % that encoding
makes another escape of; the buffers have room for none, one or all of it. A
text of four characters holds each kind of line end after and before another
one. Repeating a datagram twice puts the client behind by two.
The counters that stand for history (`MaxTasks`, `MaxItems`, `MaxSend`, `MaxBytes`,
`MaxNum`, `MaxInput`, `Rounds`) bound how long an
execution can go on, not what it can do. The variables of LinkedList are
symmetric in the nodes (no address is compared) and in the lists.

`CHECK_DEADLOCK FALSE` is said where the system stops by itself: a pool that
is destroyed, clients and producers that reach their bound, a parent that only
sleeps, a crash, a server whose clients have all gone.

Fairness. Each thread is weakly fair on its own: the scheduler runs every
thread that can run, and no strong fairness of mutexes is assumed.
`pthread_cond_wait` may return without a signal, but not for ever
(`<>[][~SpuriousWakeup]_vars`). Nobody has to call anything: calls that begin
are fair, calls themselves are not. The servers' loops and the parent of the
children are weakly fair as single processes; clients and children owe nothing.
In EchoServers the server's loop, each worker and a client to which an answer
has come are weakly fair; users need not type anything. In PingPong both
processes run, and the kernel delivers what is pending. In UdpEcho the server
and a client for which an answer has come are fair, the network is not: it may
lose everything, which `Answered` allows for. In BevEcho both event loops are
fair to each connection (libevent goes round all that are ready); users, kills
and SIGINT are not.

Two properties are often one conjunction: `HeapOK` (LinkedList) is type
correctness, no leak and no cycle; `NodesOK` (CondList), `BuffersOK`
(WebServer), `SetsOK` (SelectServer) and `WorkersOK` (EchoServers) are the
type invariant with the safety invariant that their modules define before;
`NothingStuck` of the pools is `TasksFinish` and `CallsReturn`. The parts have
names of their own for the proofs.

Each property has a mutant in `PROJECT.json`, a variant of one definition with
a plausible mistake, that TLC finds to violate it. Variants stand before the
definition they are a variant of and are used by nothing else.

## Proofs

Every invariant that a run checks is also proved, for all values of the
constants that satisfy the assumptions named in the modules: for any number of
threads, clients, nodes or children, queues, buffers and descriptor tables of
any size, names and texts of any length. `PROJECT.json` lists the theorems
under "theorems", each with the property it states.

| module | theorems | what the inductive invariant adds |
|---|---|---|
| ThreadPoolProofs, SimplePoolProofs | `Implements`, `WorkersNotIdle`, `ClientsNotIdle`, `LiveBounded`, `LiveCounted`, `SnapshotsSane`, `TypeCorrect` | Cell `n` modulo the size of the ring holds task `n` for each task between the two ends, hence the task dequeued is the next one. In the elastic pool: the lock has one holder, and what a holder has tested still holds when it acts (`LockInv`, `HoldInv`) |
| LinkedListProofs | `HeapCorrect` | At every step of every loop no two nodes have the same successor and ranks grow along `next` (`Chains`); a chain begins at exactly the heads, the nodes the running call has cut off and the spare nodes (`RootInv`, `ApartInv`); and what each loop knows of its pointers (`LocalInv`) |
| CondListProofs | `NodesCorrect`, `ConsumersNotIdle` | The nodes of the list are different ones; the consumers on their way and the signals, counted |
| WebServerProofs | `BuffersCorrect`, `RequestsIntact` | Line and buffer together continue what has been read of the running connection, without a gap, and the request lies before them (`LineInv`, `RequestInv`, `LimitInv`) |
| SelectServerProofs | `SetsCorrect`, `RoundsComplete` | `nready` is the number of descriptors reported and not served yet, all of which are at `i` or above (`RoundInv`) |
| EchoServersProofs | `OneWorkerEach`, `BytesInOrder`, `ChildrenKeepNoCopies` | Which descriptors main holds at each of its places; workers and open connections match one to one, but for connections whose thread could not be created (`ForkInv`, `ThreadInv`); no more workers have been started than connections accepted (`CountInv`) |
| ProgramsProofs | `NobodyForgotten`, `NoChildForgotten`, `NumbersInTurn`, `ListBacked`, `CountsRight`, `AnswersOwn`, `PiecesComplete`, `CodingsRight`, `LogRight`, `TypeCorrect` | see below |

The argument is the same everywhere: an inductive invariant in layers, a lemma
per layer with a step per action, and one temporal step at the end.

- `WorkersNotIdle`: a signal may wake a worker that another worker has made
  superfluous, so the invariant counts: with a sleeping worker, the queue is no
  longer than the workers on their way to it (plus, in the simple pool, the
  signals not sent yet). `ClientsNotIdle` is its counterpart for room, and
  `ConsumersNotIdle` the same argument for `lock.c`.
- `LiveBounded`, `LiveCounted`, `SnapshotsSane`: the manager is the only one to
  raise `live_thr_num`, and a worker lowers it in the step in which it leaves;
  `busy_thr_num` is read later than `live_thr_num` but no thread leaves while
  it is busy.
- `NobodyForgotten`: while the parent sleeps a zombie means a pending signal or
  a handler that has not seen the last `waitpid` return yet. The strengthening
  says the same of the time before, when the signal is blocked.
- `NumbersInTurn`: the turn is with the player who printed last; the other one
  is in its loop with flag 1, or will be.
- `ListBacked`, `CountsRight`: sums over sets of threads, of which a step
  changes one summand. That a holder of the lock is alone is part of the second.
- `PiecesComplete`: what `Readn` and `get_line` have returned and stored is the
  text, or its lines, up to the place they have reached; after a carriage
  return the reader has looked whether a line feed follows, unless it is about
  to. The lines end as they do because the buffer never holds a line feed.
- `CodingsRight`: decoding in place, the rest of the string is still as it was
  and what is written so far, followed by the meaning of the rest, is the
  meaning of the whole. When it was encoded before, each character of the name
  has a place in the buffer from which it is decoded, and the decoder is at the
  place of the next one. `Means` describes the recursion of `Meaning` by a
  function on the positions of the string.

Recursive functions (`lines`, `m` of `Meaning`, `FlattenSeq`) are taken to be
what their equations say after a proof that such a function exists, by
induction over the set of numbers up to which it does (`AllNumbers`); sums over
finite sets likewise, by induction over subsets (`AllSubsets`).

Assumptions. The constants' bounds are natural numbers, and sets of threads are
disjoint and, where they are counted, finite. `EchoAssumption` says that no
client is the number that stands for "none". `ProgramsAssumption` asks for
buffers of at least one byte, for lines (`get_line`) of at least two, as the
code's callers have, and for characters from 1 to 127.

Only model-checked:

- all liveness properties (the proof system does not reason about fairness and
  ENABLED): `NothingStuck`, `ShrinksToMin`, `Drained`, `ClosedAfterClient`,
  `AllServed`, `AnswerComes`, `AllReaped`, `GoesOn`, `Answered`, `Echoed`;
- `ImplementsLists`: that the loops of LinkedList do to sequences of values
  what ListSpec says. `HeapCorrect` is the half of it that is about nodes.

## Findings

- A request to retire that found all workers busy stays in
  `wait_exit_thr_num`; the next worker woken for a task retires instead of
  taking it (`pool_stale_exit`).
- `threadpool_destroy` frees the pool without joining its threads
  (`pool_use_after_free`).
- `destroy_threadpool` broadcasts without the lock and can miss a worker
  (`simple_lost_wakeup`).

Met while modelling, and seen without a run: the head of
`libevent/hello-world.c` (lines 3-4) says that the server writes a short
message to each connection and closes it once it is flushed, but the message
(line 126) and the closing (line 155) are commented out, so that it echoes what
it gets and keeps the connection until its client closes it, which is what
BevEcho models; the comments of `MSG_INFO` and `MSG_WARN` (`web/log.h` 30-31)
are swapped; the masks `NLO_*` (26-28) are positive, so that `msgLogFormat`
takes them for new options; `threadpool_add` returns 0 where `pthreadpool.h` 22
promises -1; `testPipe` writes the length of "hello wold" (`pipe/pipe.c` 30);
`testRwlock` would join threads it has not created (`pipe/lock.c` 65, 73);
`testLibevent` frees a string as an event base (`libevent/libevent.c` 40);
`myfunc` prints an uninitialised time (`pipe/signal.c` 237).

## Not modelled

The content of the web server's answers (status, type, file, directory) is text
layout; what of it changes state, the closing of a connection whose directory
cannot be listed, is in WebServer. What `write` loses is left out too: it tries
a non-blocking socket once (`webserver.c` 49), and the rest of a block that the
socket does not take is dropped. `get_mime_type` is a table. The timers, the
daemon, and the thread demos but one arm a timer or start a thread and sleep.
The pipe, FIFO and mmap demos hand over one text in an order that `sleep` or
the kernel keeps. `main.c` calls one demo.

## Plan

1. Done: the pools, the list, both lists shared by producers and consumers, the
   web server, all echo servers, the select server, and the small programs of
   MCPrograms; and a theorem for every invariant a run checks.
2. Next: that LinkedList implements ListSpec, as a theorem. `Contents` of a
   state between two calls is a function of the chains `HeapCorrect` is about;
   what each loop adds is which part of it the pointers have passed.

Left to TLC for good: liveness.
