----------------------------- MODULE ProductDBX -----------------------------
(***************************************************************************)
(* The build without a server: client processes that link clientNoSrv.c    *)
(* and productDBX.c and share one directory.  A product is a file of that  *)
(* directory, its quantity the text of the file; an fcntl lock on one lock *)
(* file is held around each db_ function.  A step is what one process does *)
(* between two system calls another process can observe.                   *)
(*                                                                         *)
(* fcntl, fopen, remove and the process table are modelled as POSIX has    *)
(* them: a lock is owned by a process and dies with it, fopen(.., "w")     *)
(* empties a file at once, and what fprintf wrote reaches it at fclose.    *)
(***************************************************************************)
EXTENDS Product

CONSTANTS
  Procs,        \* client processes
  Idle,         \* request[p]: p is between two calls
  Gone,         \* (of the abstract specification) p has exited
  Pending,      \* ret[p]: no return code yet
  Empty,        \* a file fopen(.., "w") emptied and nobody wrote
  MaxCalls,     \* bound: calls a process makes
  MaxCrashes    \* bound: processes killed

ASSUME EmptyAssumption == Empty \notin Int /\ Empty # Absent
ASSUME IdleAssumption == Idle \notin Requests /\ Gone \notin Requests /\ Idle # Gone
ASSUME BoundsAssumption == MaxCalls \in Nat /\ MaxCrashes \in Nat

VARIABLES
  file,         \* contents of the tuple of each name
  lock,         \* the fcntl lock each process holds on the lock file
  init,         \* __init of each process: it has called db_init
  pc,           \* the next step of each process
  request,      \* its clt_ call
  dbop,         \* the db_ function the call is in
  original,     \* the quantity __get_product_by_name read last
  ret,          \* the code the db_ function, then the clt_ function, returns
  calls,        \* calls made
  crashes       \* processes killed

vars == <<file, lock, init, pc, request, dbop, original, ret, calls, crashes>>

Labels == {"idle", "lock", "open", "scan", "truncate", "flush", "remove",
           "unlock", "return", "exited"}

DbOps == {"get", "save", "update", "delete"}

DbCodes == {"OK", "NO_PRODUCT_FOR_NAME", "PRODUCT_EXISTS", "UNEXPECTED_DELETE_ERROR"}

CltCodes == DbCodes \cup {"PRODUCT_ALREADY_INIT", "NEGATIVE_QUANTITY"}

ASSUME PendingAssumption ==
  /\ Pending \notin CltCodes
  /\ Pending \notin [code : CltCodes, shown : Ints \cup {Absent}]

\* The db_ function a clt_ function calls first; clt_add_product goes on to
\* db_save_product.
FirstDbOp(r) ==
  IF r.op \in {"show", "add"} THEN "get"
  ELSE IF r.op = "remove" THEN "delete" ELSE "update"

\* (faulty variant: only a creation or a removal locks for writing)
LockTypeSharedUpdate(op) == IF op \in {"get", "update"} THEN "F_RDLCK" ELSE "F_WRLCK"

LockType(op) == IF op = "get" THEN "F_RDLCK" ELSE "F_WRLCK"

\* (faulty variant: a reader does not wait for a writer)
GrantableToReaders(p, type) ==
  \A q \in Procs \ {p} : lock[q] = "F_UNLCK" \/ type = "F_RDLCK"

\* F_SETLKW returns: no other process holds a lock that conflicts.
Grantable(p, type) ==
  \A q \in Procs \ {p} :
    lock[q] = "F_UNLCK" \/ (lock[q] = "F_RDLCK" /\ type = "F_RDLCK")

Init ==
  /\ file \in [Names -> Quantities \cup {Absent}]
  /\ lock = [p \in Procs |-> "F_UNLCK"]
  /\ init = [p \in Procs |-> FALSE]
  /\ pc = [p \in Procs |-> "idle"]
  /\ request = [p \in Procs |-> Idle]
  /\ dbop = [p \in Procs |-> "get"]
  /\ original = [p \in Procs |-> Absent]
  /\ ret = [p \in Procs |-> Pending]
  /\ calls = [p \in Procs |-> 0]
  /\ crashes = 0

-----------------------------------------------------------------------------
\* db_init: the directories and the lock file exist afterwards, whoever made
\* them; only __init of the caller is new.
DbInit(p) ==
  /\ pc[p] = "idle"
  /\ ~init[p]
  /\ init' = [init EXCEPT ![p] = TRUE]
  /\ UNCHANGED <<file, lock, pc, request, dbop, original, ret, calls, crashes>>

\* The user of process p calls one of the clt_ functions.
Call(p) ==
  /\ pc[p] = "idle"
  /\ calls[p] < MaxCalls
  /\ \E r \in Requests :
       /\ request' = [request EXCEPT ![p] = r]
       /\ dbop' = [dbop EXCEPT ![p] = FirstDbOp(r)]
  /\ pc' = [pc EXCEPT ![p] = "lock"]
  /\ ret' = [ret EXCEPT ![p] = Pending]
  /\ calls' = [calls EXCEPT ![p] = @ + 1]
  /\ UNCHANGED <<file, lock, init, original, crashes>>

\* clt_deposit_product and clt_take_product return before they reach the db.
Refuse(p) ==
  /\ pc[p] = "lock"
  /\ Refused(request[p])
  /\ ret' = [ret EXCEPT ![p] = "NEGATIVE_QUANTITY"]
  /\ pc' = [pc EXCEPT ![p] = "return"]
  /\ UNCHANGED <<file, lock, init, request, dbop, original, calls, crashes>>

\* verify(__init, ..) fails: exit(1).
FailInit(p) ==
  /\ pc[p] = "lock"
  /\ ~Refused(request[p])
  /\ ~init[p]
  /\ pc' = [pc EXCEPT ![p] = "exited"]
  /\ UNCHANGED <<file, lock, init, request, dbop, original, ret, calls, crashes>>

\* __lock_table: blocks until the lock is granted.
LockTable(p) ==
  /\ pc[p] = "lock"
  /\ ~Refused(request[p])
  /\ init[p]
  /\ Grantable(p, LockType(dbop[p]))
  /\ lock' = [lock EXCEPT ![p] = LockType(dbop[p])]
  /\ pc' = [pc EXCEPT ![p] = "open"]
  /\ UNCHANGED <<file, init, request, dbop, original, ret, calls, crashes>>

-----------------------------------------------------------------------------
\* __get_product_by_name opens the tuple for reading.  No such file: only
\* __save_product goes on, to write it.
Open(p) ==
  /\ pc[p] = "open"
  /\ IF file[request[p].name] = Absent
     THEN /\ original' = [original EXCEPT ![p] = Absent]
          /\ ret' = [ret EXCEPT ![p] = IF dbop[p] = "save" THEN @ ELSE "NO_PRODUCT_FOR_NAME"]
          /\ pc' = [pc EXCEPT ![p] = IF dbop[p] = "save" THEN "truncate" ELSE "unlock"]
     ELSE /\ pc' = [pc EXCEPT ![p] = "scan"]
          /\ UNCHANGED <<original, ret>>
  /\ UNCHANGED <<file, lock, init, request, dbop, calls, crashes>>

\* What fscanf leaves in rdProduct.quantity: the last number of the file; in
\* an empty file it stores nothing and the variable was never initialized.
Scanned(content) == IF content = Empty THEN Ints ELSE {content}

\* (faulty variant: db_save_product overwrites what it finds)
AfterScanOverwriting(op) ==
  IF op = "get" THEN "unlock" ELSE IF op = "delete" THEN "remove" ELSE "truncate"

AfterScan(op) ==
  IF op \in {"get", "save"} THEN "unlock"
  ELSE IF op = "update" THEN "truncate" ELSE "remove"

\* The rest of __get_product_by_name, and its caller's switch on OK.
Scan(p) ==
  /\ pc[p] = "scan"
  /\ \E quantity \in Scanned(file[request[p].name]) :
       original' = [original EXCEPT ![p] = quantity]
  /\ ret' = [ret EXCEPT ![p] = IF dbop[p] = "get" THEN "OK"
                               ELSE IF dbop[p] = "save" THEN "PRODUCT_EXISTS" ELSE @]
  /\ pc' = [pc EXCEPT ![p] = AfterScan(dbop[p])]
  /\ UNCHANGED <<file, lock, init, request, dbop, calls, crashes>>

\* __write_new_product: fopen(.., "w") creates or empties the file ..
Truncate(p) ==
  /\ pc[p] = "truncate"
  /\ file' = [file EXCEPT ![request[p].name] = Empty]
  /\ pc' = [pc EXCEPT ![p] = "flush"]
  /\ UNCHANGED <<lock, init, request, dbop, original, ret, calls, crashes>>

\* .. with, for __update_product, the sum of what was read and the delta ..
NewQuantity(p) ==
  IF dbop[p] = "update" THEN Wrap(original[p] + Delta(request[p]))
  ELSE request[p].quantity

\* .. and fprintf's text reaches the file when fclose flushes it.
Flush(p) ==
  /\ pc[p] = "flush"
  /\ file' = [file EXCEPT ![request[p].name] = NewQuantity(p)]
  /\ ret' = [ret EXCEPT ![p] = "OK"]
  /\ pc' = [pc EXCEPT ![p] = "unlock"]
  /\ UNCHANGED <<lock, init, request, dbop, original, calls, crashes>>

\* (faulty variant: a product is removed by emptying its file)
RemoveByTruncating(p) ==
  /\ pc[p] = "remove"
  /\ ret' = [ret EXCEPT ![p] = "OK"]
  /\ file' = [file EXCEPT ![request[p].name] = Empty]
  /\ pc' = [pc EXCEPT ![p] = "unlock"]
  /\ UNCHANGED <<lock, init, request, dbop, original, calls, crashes>>

\* __delete_product's remove().
Remove(p) ==
  /\ pc[p] = "remove"
  /\ ret' = [ret EXCEPT ![p] = IF file[request[p].name] = Absent
                               THEN "UNEXPECTED_DELETE_ERROR" ELSE "OK"]
  /\ file' = [file EXCEPT ![request[p].name] = Absent]
  /\ pc' = [pc EXCEPT ![p] = "unlock"]
  /\ UNCHANGED <<lock, init, request, dbop, original, calls, crashes>>

\* The lookup with which clt_add_product starts.
AddLookup(p) == request[p].op = "add" /\ dbop[p] = "get"

\* (faulty variant: clt_add_product keeps the read lock of its lookup)
UnlockedUnlessAdding(p) ==
  IF AddLookup(p) /\ ret[p] # "OK" THEN lock ELSE [lock EXCEPT ![p] = "F_UNLCK"]

\* __unlock_table: F_UNLCK, then fclose.
Unlocked(p) == [lock EXCEPT ![p] = "F_UNLCK"]

\* __unlock_table, and what the clt_ function does with the db_ code.
UnlockTable(p) ==
  /\ pc[p] = "unlock"
  /\ lock' = Unlocked(p)
  /\ IF AddLookup(p) /\ ret[p] # "OK"
     THEN /\ dbop' = [dbop EXCEPT ![p] = "save"]
          /\ ret' = [ret EXCEPT ![p] = Pending]
          /\ pc' = [pc EXCEPT ![p] = "lock"]
     ELSE /\ ret' = [ret EXCEPT ![p] = IF AddLookup(p) THEN "PRODUCT_ALREADY_INIT" ELSE @]
          /\ pc' = [pc EXCEPT ![p] = "return"]
          /\ UNCHANGED dbop
  /\ UNCHANGED <<file, init, request, original, calls, crashes>>

\* The clt_ function returns to its caller.
Return(p) ==
  /\ pc[p] = "return"
  /\ pc' = [pc EXCEPT ![p] = "idle"]
  /\ request' = [request EXCEPT ![p] = Idle]
  /\ UNCHANGED <<file, lock, init, dbop, original, ret, calls, crashes>>

-----------------------------------------------------------------------------
\* The user starts the program again: a new process, not yet initialised.
Restart(p) ==
  /\ pc[p] = "exited"
  /\ pc' = [pc EXCEPT ![p] = "idle"]
  /\ init' = [init EXCEPT ![p] = FALSE]
  /\ request' = [request EXCEPT ![p] = Idle]
  /\ UNCHANGED <<file, lock, dbop, original, ret, calls, crashes>>

\* A process is killed: the kernel drops its lock, the file keeps what had
\* reached it.
Crash(p) ==
  /\ pc[p] # "exited"
  /\ crashes < MaxCrashes
  /\ crashes' = crashes + 1
  /\ pc' = [pc EXCEPT ![p] = "exited"]
  /\ lock' = [lock EXCEPT ![p] = "F_UNLCK"]
  /\ UNCHANGED <<file, init, request, dbop, original, ret, calls>>

\* Every process has made its MaxCalls calls.
Finished ==
  /\ \A p \in Procs : pc[p] = "idle" /\ calls[p] = MaxCalls
  /\ UNCHANGED vars

\* The steps a process takes by itself, once called.
Step(p) ==
  \/ Refuse(p) \/ FailInit(p) \/ LockTable(p) \/ Open(p) \/ Scan(p) \/ Truncate(p)
  \/ Flush(p) \/ Remove(p) \/ UnlockTable(p) \/ Return(p)

UserStep(p) == DbInit(p) \/ Call(p) \/ Restart(p)

Next == (\E p \in Procs : Step(p) \/ UserStep(p)) \/ Finished

CrashNext == Next \/ \E p \in Procs : Crash(p)

\* A process that can run does; nobody has to make a call.
Fairness == \A p \in Procs : WF_vars(Step(p))

Spec == Init /\ [][Next]_vars /\ Fairness

CrashSpec == Init /\ [][CrashNext]_vars /\ Fairness

-----------------------------------------------------------------------------
TypeOK ==
  /\ file \in [Names -> Ints \cup {Absent, Empty}]
  /\ lock \in [Procs -> {"F_UNLCK", "F_RDLCK", "F_WRLCK"}]
  /\ init \in [Procs -> BOOLEAN]
  /\ pc \in [Procs -> Labels]
  /\ request \in [Procs -> Requests \cup {Idle}]
  /\ dbop \in [Procs -> DbOps]
  /\ original \in [Procs -> Ints \cup {Absent}]
  /\ ret \in [Procs -> CltCodes \cup {Pending}]
  /\ calls \in [Procs -> 0 .. MaxCalls]
  /\ crashes \in 0 .. MaxCrashes

\* Between __lock_table and __unlock_table.
InDb(p) == pc[p] \in {"open", "scan", "truncate", "flush", "remove", "unlock"}

\* The process is between fopen(.., "w") and fclose on the file of n.
Rewriting(p, n) == pc[p] = "flush" /\ request[p].name = n

\* A process that is inside a db_ function holds the lock of that function's
\* kind and no other process holds one; outside it holds none, so a writer
\* is alone in the directory (productDBX.c, the lock around every db_).
LockInv ==
  \A p \in Procs :
    /\ lock[p] = IF InDb(p) THEN LockType(dbop[p]) ELSE "F_UNLCK"
    /\ lock[p] = "F_WRLCK" => \A q \in Procs \ {p} : lock[q] = "F_UNLCK"

\* The call and the db_ function a process is in belong together; between
\* two calls it is in none.
CallInv ==
  \A p \in Procs :
    /\ pc[p] = "idle" => request[p] = Idle
    /\ pc[p] \notin {"idle", "exited"} =>
         /\ request[p] \in Requests
         /\ dbop[p] = FirstDbOp(request[p]) \/ (request[p].op = "add" /\ dbop[p] = "save")
         /\ pc[p] = "remove" => dbop[p] = "delete"
         /\ pc[p] \in {"truncate", "flush"} => dbop[p] \in {"save", "update"}
         /\ InDb(p) => ~Refused(request[p])
         /\ pc[p] \in {"unlock", "return"} => ret[p] # Pending

\* What a process read from the file of its product is still what the file
\* holds when it acts on it: present for remove(), the value just read for
\* the rewrite (or a file a kill left empty), absent for the creation in
\* db_save_product.
ReadInv ==
  \A p \in Procs :
    LET held == file[request[p].name]
    IN /\ pc[p] \in {"scan", "remove"} => held # Absent
       /\ pc[p] = "truncate" => held = original[p] \/ (held = Empty /\ original[p] # Absent)
       /\ pc[p] \in {"truncate", "flush"} => (dbop[p] = "save") = (original[p] = Absent)

\* Until somebody is killed a file is empty only for as long as its writer is
\* between fopen(.., "w") and fclose.
EmptyInv ==
  crashes = 0 => \A n \in Names : file[n] = Empty => \E p \in Procs : Rewriting(p, n)

\* The inductive invariant behind the safety properties, with or without
\* kills: what a process knows about its file stays true until it acts.
DbInv == TypeOK /\ LockInv /\ CallInv /\ ReadInv /\ EmptyInv

\* fscanf always finds the number it is looking for: no db_ function reads a
\* file another process has emptied but not written, or that is gone; so the
\* uninitialised quantity of productDBX.c:115-124 is never used.
NoTornRead == \A p \in Procs : pc[p] = "scan" => file[request[p].name] \in Ints

-----------------------------------------------------------------------------
(***************************************************************************)
(* Each clt_ call takes effect in one step, as client.h promises: a product *)
(* being rewritten still counts with its old quantity, an answer exists    *)
(* from the step that settles it.                                          *)
(***************************************************************************)
StockNow ==
  [n \in Names |-> IF \E p \in Procs : Rewriting(p, n)
                   THEN original[CHOOSE p \in Procs : Rewriting(p, n)]
                   ELSE file[n]]

RequestNow == [p \in Procs |-> IF pc[p] = "exited" THEN Gone ELSE request[p]]

Settled(p) ==
  \/ pc[p] = "return"
  \/ pc[p] = "unlock" /\ ~(AddLookup(p) /\ ret[p] # "OK")

CltCode(p) == IF AddLookup(p) /\ ret[p] = "OK" THEN "PRODUCT_ALREADY_INIT" ELSE ret[p]

ReplyNow ==
  [p \in Procs |->
     IF Settled(p)
     THEN [code |-> CltCode(p),
           shown |-> IF request[p].op = "show" /\ ret[p] = "OK" THEN original[p] ELSE Absent]
     ELSE Pending]

S == INSTANCE Stock WITH stock <- StockNow, request <- RequestNow, reply <- ReplyNow

\* Clients that share the directory see an atomic stock: every clt_ call has
\* the effect and the answer of one indivisible step between its invocation
\* and its return, whatever the other processes do meanwhile.
AtomicStock == S!StockSpec

\* A call that started comes back to its caller: nobody waits for the table
\* lock for ever.  Its process exits in the middle only if it is killed, or
\* never called db_init (productDBX.c:54), whatever other processes called.
CallsReturn ==
  \A p \in Procs :
    pc[p] \notin {"idle", "exited"}
      ~> pc[p] = "idle" \/ (pc[p] = "exited" /\ (init[p] => crashes > 0))

-----------------------------------------------------------------------------
\* Even when processes are killed, a reader never sees the half-done rewrite
\* of a live one: an empty file it scans was left by a process that is gone.
NoLiveTornRead ==
  \A p \in Procs :
    pc[p] = "scan" /\ file[request[p].name] = Empty
      => crashes > 0 /\ ~\E q \in Procs : Rewriting(q, request[p].name)

\* The file of n is empty and nobody is about to write it.
Damaged(n) == file[n] = Empty /\ ~\E p \in Procs : Rewriting(p, n)

\* A file is left empty only by the kill of the process that is between
\* fopen(.., "w") and fclose on that very file (productDBX.c:161-165): no
\* other kill, and no step of a live process, damages a product.
DamageConfined ==
  [][\A n \in Names : Damaged(n)' /\ ~Damaged(n) =>
       \E p \in Procs : Rewriting(p, n) /\ pc'[p] = "exited" /\ crashes' > crashes]_vars

\* The report (doc/report.lyx:216) says the system keeps the data of the
\* stock consistent at all times: with nobody inside a db_ function every
\* product has a quantity.
ConsistentAtRest ==
  (\A p \in Procs : ~InDb(p)) => \A n \in Names : file[n] # Empty

=============================================================================
