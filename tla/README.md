# A TLA+ model of the stock manager

The program keeps a stock of products: a name and an `int` quantity each. A client process
shows, adds, removes, deposits into and takes from products, through the five `clt_` functions
of `include/client.h`. It is built in one of two shapes:

* **without a server** (`clientNoSrv.c`, `productDBX.c`): every client process opens the files
  of one directory itself and takes an `fcntl` lock around each database function;
* **with a server** (`client.c`, `server.c`, `productDB.c`): a client sends a message to the one
  server process, which owns the directory. The two talk over the six functions of
  `communicator.h`, which six backends implement; the makefile links exactly one (`fifo.c`
  unless changed), and the shared-memory backend also one of two kinds of semaphore.

## 1. Inventory

| part | state | operations | what is hard | what makes it correct |
|---|---|---|---|---|
| `client/clientNoSrv.c` | none between calls | the five `clt_` functions, 1 or 2 `db_` calls each | `clt_add_product` is two critical sections | a call is atomic; a refused quantity changes nothing |
| `db/productDBX.c` | the files, the lock file, `__init` per process | `db_init`, get, save, update, delete | other processes between any two system calls; kills between truncation and write; waiting for the lock | no lost update, no reader sees a file being written, the lock is always released |
| `db/productDB.c` | the same files, one process | the same without locks | SIGINT inside a handler | the same results as one atomic step |
| `client/client.c` | none between calls | one or two request/response rounds per `clt_` call | the add is two rounds | at most one answer per message, to the client that asked |
| `server/server.c` | the request being served | loop of connect, receive, handle, send, disconnect; SIGINT | ignored results of `ipc_recv`; SIGINT anywhere | every received request is served once and answered |
| `ipcs/fifo.c` | two named pipes in one directory | init, connect, send, recv, disconnect, close | pipes are reopened by name for each transfer; clients and server re-create them | mutual exclusion of clients, answers not mixed up, requests not lost |
| `ipcs/shm.c`, `ipcs/semaphores/*` | one message area, three semaphores, `__to_read`/`__read` per process | the same six | one semaphore used for two meanings; SEM_UNDO; a client killed while it holds the connection | the same |
| `ipcs/msgqPosix.c` | one queue of one message per process | the same six | queues unlinked while used; the server blocked by an unread answer | the same |
| `ipcs/msgqSysV.c` | one queue per process, `__conn` | the same six | every look at a queue creates it; key collisions | the same |
| `ipcs/socket.c` | one listening and one open socket in the server | the same six | end of file, connections never closed by the server | the same |
| `ipcs/signals.c` | a file per process, SIGUSR1, `__exit_flag` | the same six | signals lost or too early, one file for all senders | the same |
| `msg/msg.c`, `model/product.c` | none | build and take apart messages and products | -- | both ends agree on the fields |
| `utils/` | none | `verify`/`fail` exit, complete reads and writes, `ftok` keys | -- | -- |
| `main/clientUI.c`, `serverFront.c` | none | read a choice, make the call; start the server | -- | -- |

A client and a server share nothing but the backend; clients without a server share the
directory and the lock. There are no threads. The callbacks are the SIGINT handler of the server
and the SIGUSR1 handler of the signal backend.

## 2. Modules

| module | models | abstract specification it implements |
|---|---|---|
| `Product` | products, requests, wrap-around of a C `int` | |
| `Stock` | what `client.h` promises: a call takes effect in one step | |
| `ProductDBX` | `clientNoSrv.c` over `productDBX.c`, any number of processes | `Stock` (`AtomicStock`) |
| `ClientServer` | messages, responses and the server's handlers | |
| `StockServer` | `client.c` and `server.c` over an ideal channel | |
| `Fifo` | `client.c` and `server.c` over `fifo.c` | `StockServer` (`ServesAtMostOnce`) |
| `Shm` | `client.c` and `server.c` over `shm.c` and its semaphores | `StockServer` (`ServesAtMostOnce`) |
| `Rounds` | what the loops of `client.c` and `server.c` keep and do around a backend | |
| `Msgq` | `Rounds` over `msgqPosix.c` or `msgqSysV.c` | `StockServer` (`ServesAtMostOnce`) |
| `ProductDB` | the server's handlers over `productDB.c`, one file access at a time | |
| `Socket` | `Rounds` and `ProductDB` over `socket.c` | `StockServer` (`ServesAtMostOnce`), under a condition |
| `Signals` | `Rounds` over `signals.c` | `StockServer` (`ServesAtMostOnce`), under a condition |
| `MCProductDBX`, `MCStockServer`, `MCFifo`, `MCShm`, `MCMsgq`, `MCSocket`, `MCSignals` | instances for TLC | |
| `Data_proofs` | lemmas about quantities, the handlers and sequences, which the next six use | |
| `StockServer_proofs` | lemmas: what makes a step one of `StockServer` | |
| `ProductDBX_proofs`, `Fifo_proofs`, `Shm_proofs`, `Msgq_proofs`, `Socket_proofs`, `Signals_proofs` | theorems | |

A definition whose comment begins with "faulty variant" is a change a bug would make to the
definition after it. No specification uses it; it is there to try the properties against it.

### ProductDBX

The directory is `file`: each name has a number, `Absent` (no such file) or `Empty` (emptied by
`fopen(.., "w")`, nothing flushed yet). A step is what a process does between two system calls
that another process can observe:

| action | code |
|---|---|
| `DbInit` | `db_init` |
| `Call`, `Return` | the program around a `clt_` function |
| `Refuse` | the test for a negative quantity |
| `FailInit` | `verify(__init, ..)`, which exits |
| `LockTable` | `__lock_table`: waits in `fcntl(F_SETLKW)` |
| `Open`, `Scan` | `__get_product_by_name`, and the switch of its caller on what it returns |
| `Truncate`, `Flush` | `__write_new_product`: `fopen(.., "w")`, then `fprintf` and `fclose` |
| `Remove` | `remove()` in `__delete_product` |
| `UnlockTable` | `__unlock_table`; `clt_add_product` goes on to `db_save_product` |
| `Crash`, `Restart` | a process killed at any step; its lock is dropped by the kernel |

`Scan` of an empty file yields any int: `fscanf` stores nothing and `rdProduct.quantity` was never
initialized. The comparison `AtomicStock` is with `Stock` under the mapping `StockNow`,
`RequestNow`, `ReplyNow`: a product that is being rewritten still has the quantity its rewriter
read, and the call takes effect at `Flush`, `Remove`, or the `Open` or `Scan` that decides a failure
or a show.

### ClientServer, StockServer

`StockServer` is what every backend owes to `client.c` and `server.c`: a message is served at most
once and in one step, and its answer reaches the process that asked. A client may die, and the
message it had sent is then served (`ServeDead`) or not (`Forget`, or already at `Die`).
`clt_add_product` is two rounds.

### Fifo

`Fifo` adds the two pipes. `c2s` is the pipe linked as `clt->srv`: `fresh` until the server has read
a message from it, `spent` until it is unlinked. `s2c` says that `srv->clt` is linked. `inbox` and `outbox`
are the contents of the pipes in use. The server walks through `connect`, `recv`, `read`, `handle`,
`reply`, `respond`, `disconnect`; a client through `connect`, `send`, (`opening`), `write`, `recv`,
`reading`, `disconnect`. Two steps are joint, because an `open` of a pipe returns when its other end
is opened: `Meet` and `SrvOpensReply`, which ends the server if there is no `srv->clt` to open. `stuck` is a process that waits in `open` or `read` for an end that
cannot come any more. `KillClient`, `KillServer` and `SrvStop` (SIGINT) may happen at any step, and
`SrvStart` again after them: it fails while the directory exists, and removes it when it is empty.

### Shm

`shm` is the message area and `sem` the counts of SEM_SRV, SEM_CLT and SEM_CONN; `live` says that the
semaphores exist, and `undo` is what the kernel adds to the counts when a process exits (SEM_UNDO, only
with `SysV`). A step is one operation on a semaphore or one access to the area:

| action | code |
|---|---|
| `SrvStart`, `SrvInit` | `ipc_init` of the server: makes the semaphores (clients look at SEM_CONN first, which is made last), posts SEM_CONN |
| `SrvConnect` | `ipc_connect` of the server: posts SEM_CLT, "ready" |
| `SrvRecv`, `SrvRead`, `SrvHandle` | the first `ipc_recv` waits for SEM_SRV; it and the second read id and type; the handler reads the body and acts |
| `SrvSend`, `SrvPost` | `ipc_send` of the server: writes, posts SEM_CLT, "answered" |
| `CltConnect` | `ipc_connect` of a client: waits for SEM_CONN |
| `CltReady`, `CltWrite`, `CltPost` | `ipc_send` of a client: waits for SEM_CLT, writes, posts SEM_SRV |
| `CltRecv`, `CltRead`, `CltBody` | the two `ipc_recv` of a client: wait for SEM_CLT, type, rest |
| `CltWipe`, `CltCheck`, `CltRelease` | `ipc_disconnect` of a client: wipes the area, looks at SEM_CONN, posts it |
| `Quit`, `Restart`, `KillClient`, `KillServer`, `SrvStop` | processes leave, are killed, get SIGINT |

The message is read in pieces, with other processes in between. A process that finds bytes that are not one
message of the other side goes to `garbled`, where the model stops following it: what `__to_read` and the
handlers make of such bytes is not a message. `NoneGarbled` says that it never comes to that.

### Rounds

The three modules that follow share `Rounds`: for each client its next step `pc`, its `request`, the message
`rpc` under way and the response `resp` it has read; for the server its next step `srv`, the message it
is `serving` and the `answer` to it. `Begin` and `NextRound` are the beginning and the end of a `clt_` function's
round, `Receive` the response, `Handle` a handler as one step, `Fault` the bound on kills and stops.

### Msgq

One module for both kinds of queue, chosen by `kind` in the initial state, since they differ in three places only:
who makes a queue, what it holds, and what its removal does to a sender. `linked` is the set of processes whose queue
exists, `queue` the contents, `opened` the clients that have looked up the server's queue and not written to it yet.

| action | code |
|---|---|
| `SrvStart`, `SrvConnect` | `ipc_init` of the server: removes the old queue, makes a new one |
| `SrvRecv`, `SrvHandle` | the `ipc_recv` calls of a round, served from one message; the handler |
| `SrvSend`, `SrvLook` | `ipc_send` to the client's queue; the System V `printf` that looks the queue up again |
| `CltConnect` | `ipc_connect`: the POSIX client makes its queue |
| `CltOpen`, `CltPut` | `ipc_send`: look the server's queue up, put the message in |
| `CltRecv`, `CltDisconnect` | `ipc_recv`; `ipc_disconnect` removes the client's queue |
| `KillClient`, `KillServer`, `SrvStop` | kills, SIGINT |

### ProductDB

`stock[n]` is the file: a number, `Absent`, or `Empty` after `fopen(.., "w")`. `DbLook` is `db_get_product_by_name`, with
which every operation begins; then `DbRemove`, or `DbTruncate`, `DbPrint` (into stdio's buffer) and `DbFlush`
(`fclose`). A stop by SIGINT calls `exit`, which flushes the buffer too, so what it damages depends on whether
`fprintf` was reached. A `db_save_product` that follows an update without a product looks again in the same directory,
which nobody else changes: it is part of the same look.

### Socket

`backlog` holds the connections not accepted yet, `conn` the client of the server's `__conn_socket`, `sent` the clients
whose message can be read, `reply` the responses that can be, `link` what each client's end of its connection is
like, `fds` the descriptors the server has accepted and never closes, `last` the variable `type` of `srv_start`.

| action | code |
|---|---|
| `SrvStart` | `ipc_init`: socket, bind, listen |
| `SrvAccept` | `accept` at the first `ipc_recv` of a round; with `MaxFds` open it fails, and the server ends |
| `SrvRecv`, `SrvRecvNothing` | the receives of a round; all of them return 0, and the server goes on with what its variables hold (`Unwritten`), which stay as they are |
| `SrvHandle`, `SrvSend` | the steps of `ProductDB`; `ipc_send` and `ipc_disconnect` |
| `CltConnect`, `CltSend`, `CltDisconnect` | `connect`, `send`, `close` |
| `CltRecv`, `CltRecvFails`, `CltRecvNothing` | the receives of a response: it is there, they fail, or they return 0 and the client goes on with what `resp_type` holds |
| `SrvStop`, `SrvExitFlush`, `SrvExit` | SIGINT; `exit` flushes what `fprintf` has left in its buffer, unless a kill comes first; the process's sockets close |

### Signals

`registered` and `clientFile` say that SERVER_FILE and CLIENT_FILE exist; `inbox` is the server's file and
`file[p]` that of a client: `NoFile`, `Blank`, or the last message written. `armed` are the processes that have
installed the handler, `flag` those whose `__exit_flag` is set, `aimed` the clients that have written to the
running server and are about to signal it.

| action | code |
|---|---|
| `SrvStart`, `SrvInit`, `SrvArm` | `ipc_init` writes SERVER_FILE, then makes the server's own file; the first `ipc_recv` installs the handler |
| `SrvRead`, `SrvClear` | `ipc_recv` reads the file, and then clears `__exit_flag` |
| `SrvHandle`, `SrvWrite`, `SrvSignal` | the handler; `ipc_send` writes the client's file and signals it |
| `CltConnect`, `CltWrite`, `CltSignal`, `CltArm`, `CltRead`, `CltClear`, `CltDisconnect` | the same on the other side |

This backend works only for clients that do not come too close. To say how close is too close, `company` records the
history: `apart` until two clients are connected at the same time, then `together`, and `crowded` from when a message is written
while the server has been told of another, or is about to be, and has not cleared its flag since. The properties say
what holds in each; `crowded` is never left, and what `signals_lost` shows is what is lost then.

## 3. What the runs check

| run | bounds | properties | what it shows |
|---|---|---|---|
| `dbx` | 2 processes, 1 product, quantities -1 and 2, ints -3..2, 2 calls each | `NoTornRead`, `AtomicStock`, `CallsReturn` | calls are atomic; reads find numbers; calls return, and only a process without `db_init` exits |
| `dbx_crash` | 2 processes, 2 products, 1 call each, 2 kills | `DbInv`, `NoLiveTornRead`, `DamageConfined`, `CallsReturn` | a file is left empty only by the kill of the process that is rewriting that very file; the calls of survivors return |
| `dbx_torn` | 1 kill | `ConsistentAtRest` | *violated*: the empty file stays |
| `add_race` | 2 clients | `AddsNewProducts` | *violated*: an add sums into a product made meanwhile |
| `fifo` | 2 clients, 1 product, 2 calls each, 2 kills or stops | `FifoInv`, `OneConnected`, `OnlyFaultsStopServer`, `ServesAtMostOnce`, `FreshAnswered` | no answer goes astray, no message is served twice; who met the server is answered |
| `shm` | 2 clients, 1 product, 2 calls each, 2 kills or stops, POSIX semaphores | `ShmInv`, `OneConnected`, `NoneGarbled`, `ServesAtMostOnce`, `CallsReturn` | one semaphore with two meanings still keeps the turns, whoever is killed; while nothing is, calls return |
| `shm_undo` | 2 clients, 1 call each, no faults, System V semaphores | `NoneGarbled` | *violated*: a client that leaves normally spoils the count of SEM_CLT |
| `fifo_lost` | 1 client, 2 calls, no faults | `CallsAnswered` | *violated*: a second call exits or waits for ever |
| `msgq` | 2 clients, 1 product, 2 calls, 2 kills or stops, both kinds of queue | `MsgqInv`, `NothingStale`, `AnswerHasRoom`, `OnlyFaultsStopServer`, `ServesAtMostOnce`, `CallsReturn` | no message of an earlier round is left anywhere; no client, dead or alive, blocks or ends the server; calls return whoever else is killed |
| `socket` | 2 clients, 1 product, 2 calls, 2 kills or stops, 3 descriptors | `SocketInv`, `OnlyFaultsStopServer`, `DamageConfined`, `ServesAtMostOnce`, `CallsReturn` | answers go out on the right connection; an early end of file does not stop the server; SIGINT inside a handler damages its product only, and only before `fprintf` |
| `signals` | 2 clients, 1 product, 2 calls, 2 kills or stops | `SignalsInv`, `LoneClientLeaves`, `NoStaleFlag`, `OnlyEarlySignalsStopServer`, `ServesAtMostOnce`, `CallsReturn` | while messages do not come too close none is lost, answered twice or read by the wrong process |
| `signals_lost` | 2 clients, 2 calls, no faults | `RequestsKept` | *violated*: a signal between the server's read and its clearing of the flag is forgotten |

Why the bounds are enough: there is one lock and one pair of pipes, so every conflict is between
two processes. Two calls let a process meet what its own previous call left (the spent pipe, the
product it removed). Ints from -3 to 2 make a deposit of 2 wrap. Two kills let the dead leave
something for a process that is killed itself. Two products are needed only to see damage stay
with one, which is why `dbx_crash` has two. `Restart` and `SrvStart` are not bounded. The names of the
bounds are `MaxCalls`, `MaxCrashes`, `MaxFaults` and `MaxFds`. In `msgq`, `socket` and `signals`, `MaxCalls` is what both clients
make together: one each, which may be two rounds, or two of one client. One quantity (2) is enough there: what a product holds
then ranges over 2, its wrapped double and their sums, and `add` has both its rounds. Three descriptors are one less than the four rounds
of two adds, so that a run both succeeds and runs out of them. `dbx`, `dbx_crash` and `dbx_torn` check for deadlock
(`Finished` is the one state where all calls are made); the runs with a server do not, since a client
that lost its server, or `shm.c`'s SEM_CONN to a client that was killed, really waits for ever.

### The five violations

* `dbx_torn`. `__write_new_product` truncates before it writes (`productDBX.c:162`). The report
  (`doc/report.lyx:216`) says the stock is kept consistent at all times. It is, while nobody is killed
  (`NoTornRead`); a kill there leaves a product without a quantity, and the next reader uses an
  uninitialized int.
* `add_race`. Without a server, `db_save_product` looks again under its lock and an add never touches an
  existing product (part of `AtomicStock`). Behind the server the second message is `WRITE_PRODUCT`, which
  updates what it finds (`client.c:42`, `server.c:80`), although the report (`doc/report.lyx:186`)
  speaks of adding *new* products.
* `shm_undo`. `semSysV.c:66` asks the kernel to revert what a process did when it exits ("seems nice to add
  this one"). A client's call takes SEM_CLT twice and lets it never, so its exit adds two. The next client
  gets past its wait for the response at once and reads its own request, against the turns laid down at
  `shm.c:78-82`. The makefile builds with `semPosix.c`, which does not have this.
* `fifo_lost`. When a client has its answer the server has yet to unlink `clt->srv` and to make it again.
  A client that calls again at once finds the old pipe and loses its message in it, or finds none and
  exits. `main/tests/cltServerTest.c:39-42` makes four calls in a row and expects all to return; the comment
  at `server.c:36-38` shows that the problem was met.
* `signals_lost`. `ipc_recv` blocks SIGUSR1 only until it has woken up (`signals.c:155`), reads the file, and clears
  `__exit_flag` after it (`:164`). A second client that writes and signals in between sets a flag that is then cleared: the
  server waits, and so does the client. The report (`doc/report.lyx:877-878`) says that the server has to mask signals as
  soon as it has received one, so as not to lose requests; the mask is lifted too early.

Not runs, but visible when the modules are read side by side: `clt_deposit_product` and
`clt_take_product` of a missing product fail without a server and create the product with one
(`server.c:80`); menu entry 4 of `clientUI.c` ("Retirar stock") calls `clt_remove_product` and entry 5
("Dar de baja") calls `clt_take_product`; nothing in `clientUI.c` calls `db_init`, which
`doc/report.lyx:728` says it does, so a client built with `productDBX.c` exits at its first call;
the report (`doc/report.lyx:892`) has the server close a socket's connection at the end, which `socket.c:96` forgets instead
(the reason for `fds = MaxFds` in `OnlyFaultsStopServer` of `Socket`).

## 4. Fairness

Each process runs: weak fairness of the steps it takes by itself (`Step(p)`, `SrvStep`,
`CltStep(p)`), never of a user making a call, of `db_init`, of starting the server, of a restart or of a kill. Waiting for
the lock needs no more: calls are finite, so from some point on a waiting process is granted the lock and stays able
to take it. Nothing is assumed about the order in which the kernel grants a lock or opens a pipe. A queue gives its messages in
order and a backlog its connections, so no client is passed over for ever; that a client waits for room in the server's
POSIX queue needs no more either while calls are finite.
A client that waits for SEM_CONN needs no more either while calls are finite; with endless calls of
others, `sem_wait` promises no order and it could starve. `FreshAnswered` and `CallsAnswered` allow that the client dies or loses its server, and
`CallsReturn` of `Msgq`, `Socket` and `Signals` that it exits (finding no server is an exit) or that the server is down.
`CallsReturn` of `ProductDBX` allows an exit only to a process that never called `db_init`, or after a kill.

## 5. What is proved

TLAPS checks the following for every set of processes, names and quantities, every `IntMax`, and every
bound on calls, faults and descriptors. Assumptions, named where the constants are declared: quantities are ints
(`QuantitiesAssumption`), the model values differ from ints, requests, messages, responses and files
(`FifoValuesAssumption`, `ShmValuesAssumption`, `RoundsValuesAssumption`, `SignalsAssumption` and others), the server is
not a client, bounds are naturals. Each says only that two things the code tells apart are two values.

### The invariants

* `DbInvariant`: `CrashSpec => []DbInv`. `TypeOK` alone is not inductive: that `NewQuantity` is an int needs
  that `original` is what a rewriter read, which needs that nobody else wrote in between, which needs the
  lock. `DbInv` says this in four parts: a process inside a `db_` function holds the lock of that
  function's kind and a writer is alone (`LockInv`); it is in the function its call leads to (`CallInv`);
  what it read is still in the file when it acts (`ReadInv`); an empty file has a rewriter or a
  kill behind it (`EmptyInv`). The proof has one step per action and one below it per part.
* `ScansFindNumbers` and `LiveRewritesHidden` follow from it, and so does the type invariant (`TypeCorrect`).
* `DamageIsConfined` (`CrashSpec => DamageConfined`) is about steps: one after which a file is empty with nobody to fill it,
  and was not so before, is the kill of a process that was between `fopen(.., "w")` and `fclose` on that file. `Truncate`
  leaves its own process as the file's rewriter; `Flush` fills the file; and a live process leaves the rewrite by `Flush`
  only. `DbInv` gives the types this needs: the file of a `Flush` is that of a product, and what goes into it is an int.
* `ImplementsStock`: `Spec => AtomicStock`. Initial directories map to initial stocks; every action is a
  step of `Stock` or leaves the mapped state alone. The lemma that carries it (`StockSeen`): a process in a
  `db_` function sees in its file what the mapped stock holds, because a rewriter is alone.
* `FifoInvariant`, `OneClientConnected`, `ServerStaysUp`: the pipe `srv->clt` is a lock, whoever dies; the
  server's `mkfifo` never fails, and without faults its answers have a reader. `OneConnected` is inductive once
  types are added; `ServerStaysUp` needs `PipeInv`, that a pipe with an answer in it has a reader. That much is
  `PipesInv`. `ServeInv`, which `ServerStaysUp` needs too for the server to find `srv->clt` when it answers (`ReplyHasPipe`), says whose message is in the pipe or with the server: that of a client that waits for the
  answer, or of one that died and left `srv->clt` linked, which keeps every other client from reading the answer.
* `ShmInvariant`, `OneClientConnected`, `WholeMessages`, with the semaphores of `semPosix.c` (`~SysV`). That one
  client is connected is not inductive: it needs that SEM_CONN is posted once, by whoever took it. That reads
  find whole messages needs to know whose turn it is, because the two meanings of SEM_CLT are told apart only
  by where client and server are. `ShmInv` says it as three situations of a live server: `Quiet` (nobody has
  asked), `Granted` (the client may write) and `Asked` (until the server has answered and is ready again, with
  SEM_CLT at 2 if the client is slow), and which of them each step of a client goes with. After the server's
  death only its posts are left, and they bound what a client can still do. That is `TurnsInv`; `RoundInv` and `AnswerInv`
  add whose message is in the area, and that its sender waits, or died with SEM_CONN taken for ever.
* `MsgqCorrect`, `NothingIsStale`, `AnswersHaveRoom`, `OnlyFaultsStop` (`Msgq_proofs`). `AnswerHasRoom` is not inductive: that
  the queue of the client being served is empty needs that a client has one message under way, in one place. `MsgqInv` has two
  parts. `QueuesInv` says for each client: its message is in the server's queue, or is being served, or its answer is in its
  own queue, never two of these, and meanwhile it waits or is dead, and its POSIX queue is linked. `RoundInv` says that what is
  on the way is the message the client waits on, and that it has a response from its `ipc_recv` to its `ipc_disconnect` only. A lemma about the
  indices of a sequence after `Append` and `Tail` (`Data_proofs`) carries the queue's part.
* `SocketCorrect`, `OnlyFaultsStop`, `DamageIsConfined` (`Socket_proofs`). `ipc_send` ignores the id it is given and answers on
  `__conn_socket`; that this is the sender's connection needs `ConnInv`, and that needs `OneConnection`: a client is in the
  backlog once, or accepted, never both. `DamageIsConfined` needs the type of `found`, which a handler between two file accesses
  relies on. `HandlerInv` says that nobody answers before the handler is through, and that what `DbLook` found is still in the file
  when the handler acts on it.
* `SignalsCorrect`, `LoneClientsLeave`, `NoFlagIsStale`, `OnlyEarlySignalsStop` (`Signals_proofs`). What holds in any case is
  which files exist (`FilesInv`) and that the server reads its file only when there is a message in it (`TurnInv`). While
  messages do not come too close, `FreshInv` follows one message: one client between its write and its signal, the server's flag
  unset; then told, then served, with its sender waiting unsignalled. `RoundInv` and `AnswerInv` add that the message there is the
  one its sender waits on, and that the sender's file is blank until the answer to it is written.

### The backends implement the service

`ImplementsService` is proved for each of the five backends, `Spec => ServesAtMostOnce`. They share the argument. Each step of
a backend is named as what it is in `StockServer`: a handler is `Serve` or, for a client that has died, `ServeDead`; the end
of a client is `Die`; the step after which it has done with its response is `Answer`; the beginning of a `clt_` function is `Call`; everything else moves
a message and changes nothing there, or forgets messages of the dead (`Forget`). `StockServer_proofs` says client by client
what each of these has to do (`QuietStep`, `DieStep`, `ServeStep`, `CallStep`, `AnswerStep`), and a backend's proof
instantiates it with its `RequestNow`, `RpcNow` and `RespNow`. What differs is why the message served and the response read are
the right ones:

| module | what it rests on | what it does not cover |
|---|---|---|
| `Fifo` | `ServeInv`: `srv->clt` stays linked behind a client that dies, so nobody reads its answer | |
| `Shm` | `RoundInv`: SEM_CONN stays taken behind such a client; the request is overwritten only by the answer to it | `SysV`, where messages are garbled already (`shm_undo`) |
| `Msgq` | `QueuesInv`, `RoundInv`: one message per client, in one place | |
| `Socket` | `ConnInv`, `HandlerInv`: all of a handler's file accesses but one are invisible | the `Blind` steps, which act on a `recv` of 0 bytes (`socket.c:98`), and steps while a file has no number |
| `Signals` | `FreshInv`, `AnswerInv`: the sender's file is blank until it is answered | `company = "crowded"`, where messages came too close (`signals_lost`) |

These exceptions are the property's own, the same that TLC checks, and what they except is shown or said elsewhere: a
handler that acts on bytes it never received may save whatever its variables held, and a lost message is `RequestsKept`'s.
The parts of the invariants that these proofs needed were found by trying them, and are part of the invariant each run checks.

Model-checked only: liveness (`CallsReturn` of all modules, `FreshAnswered`), since liveness under fairness is out of the prover's
reach. Every invariant, action property and refinement a passing run checks is a theorem: `Service!ServerSpec` and
`Stock`'s specification are safety properties, so `ServesAtMostOnce` and `AtomicStock` are proved as they are checked.

## 6. Assumptions and what is left out

POSIX is assumed for locks, pipes and files. Transfers are complete: `freadn` and `fwriten` restart after
EINTR. A message is written in one call and fits a pipe's atomic write; the several receives of one message
are one step, since the bytes are all there and reopening the pipe succeeds while the writer lives (when it
dies in between, the server waits for ever, as `KillClient` says).

One server runs at a time, and in `Shm` it is started once: a server started while clients of an earlier one
hold its semaphores is left out. Attaching the area, and the lengths of messages in it (all shorter than it),
are left out too. `semSysV.c:77` gives SETALL a wrong pointer; it is taken to be refused, where new semaphores
are 0. A client that uses a semaphore after `ipc_close` of the server ends; one that waits on it already waits
for ever or fails, and either way does nothing more.

Names are short (a name of 16 characters overflows its array, `product.c:18`) and none is that of the lock
file. Files hold numbers as the program wrote them. Message layout, printing and menus are left out. The
server's handlers are one step in `Fifo`, `Shm`, `Msgq` and `Signals`; `Socket` has them file access by file access and
`ServesAtMostOnce` there says that it makes no difference to anybody, except after a kill or SIGINT during a rewrite and where the code acts on a `recv` of 0 bytes.

In `Rounds` and the modules over it a client that has exited is not started again: a new client has a new pid. That a pid
comes back while files or queues of its dead owner are still there is left out, and in `Msgq` that two pids,
or a pid and the server's id 10, share an `ftok` key (`key.c:7`). Descriptors of POSIX queues and of pipes are never closed
either (`msgqPosix.c:144`, `fifo.c:54`); they are counted for sockets only, whose server fails for it with other clients still there.

`Socket`: a message goes out in one `send` and arrives whole; a backlog of more than 20 and a `bind` that fails because the port was used
a moment ago are left out. Where the code acts on bytes never received, the model allows every value those variables can have
that tells calls apart: any message of the type last served, or one that changes nothing. That a blind client's code is not a
`db_ret_code` at all is left out.

`Signals`: the length of a message is written before the message and read with it, but nothing uses it before `ipc_connect` has
reset it. SERVER_FILE is written at once: a client that reads it between `fopen` and `fclose` would send to an uninitialized pid.
SIGINT between `ipc_init`'s two files cannot happen, the handler of SIGINT being installed after it. What a handler interrupted in
the middle of a `printf` does to stdio is left out in all modules.

Not modelled: `semSysV.c`'s SETALL, whose counts would be bits of an address; the test programs, read for what they expect;
`handle_invalid_call`, which nothing reaches except a server that makes a message up.

## 7. Plan

1. `Shm`: a second start of the server (`semaphore_init` while clients of the first one wait).
2. `Msgq` with keys that collide, and pids that come back.
3. `ProductDB` under the other backends, which needs no new module but larger runs.
