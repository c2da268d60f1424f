-------------------------- MODULE ProductDBX_proofs --------------------------
(***************************************************************************)
(* Proofs about ProductDBX for any number of processes, products and calls. *)
(***************************************************************************)
EXTENDS ProductDBX, Data_proofs

\* What a call asks for: its product, its quantity, its first db_ function.
LEMMA RequestTypes ==
  ASSUME NEW r \in Requests
  PROVE  /\ r.name \in Names
         /\ r.op = "add" => r.quantity \in Ints
         /\ Delta(r) \in Int
         /\ FirstDbOp(r) \in {"get", "update", "delete"}
  BY RequestQuantity DEF Requests, FirstDbOp

\* The distinguished values of a file are none of the ints, and differ.
LEMMA Distinct == Absent \notin Ints /\ Empty \notin Ints /\ Empty # Absent
  BY AbsentAssumption, EmptyAssumption, IntMaxAssumption DEF Ints

\* What __write_new_product writes is an int.
LEMMA NewQuantityInt ==
  ASSUME TypeOK, CallInv, ReadInv, NEW p \in Procs, pc[p] = "flush"
  PROVE  NewQuantity(p) \in Ints
<1> USE Distinct, RequestTypes
<1>1. request[p] \in Requests
  BY DEF CallInv
<1>2. CASE dbop[p] = "update"
  <2>1. original[p] \in Ints
    BY <1>2 DEF TypeOK, ReadInv
  <2>2. original[p] + Delta(request[p]) \in Int
    BY <1>1, <2>1, IntMaxAssumption DEF Ints
  <2>3. QED
    BY <1>2, <2>2, WrapInt DEF NewQuantity
<1>3. CASE dbop[p] # "update"
  BY <1>1, <1>3 DEF CallInv, NewQuantity
<1>4. QED
  BY <1>2, <1>3

\* The invariant holds when no process has begun.
LEMMA InitInv == Init => DbInv
<1> SUFFICES ASSUME Init PROVE DbInv
  OBVIOUS
<1>1. TypeOK
  BY QuantitiesAssumption, BoundsAssumption
  DEF Init, TypeOK, Labels, DbOps, CltCodes, DbCodes
<1>2. LockInv
  BY DEF Init, LockInv, InDb
<1>3. CallInv /\ ReadInv
  BY DEF Init, CallInv, ReadInv
<1>4. EmptyInv
  BY Distinct, QuantitiesAssumption DEF Init, EmptyInv
<1>5. QED
  BY <1>1, <1>2, <1>3, <1>4 DEF DbInv

\* Every step of every process, kills and restarts included, keeps it.
LEMMA StepInv == DbInv /\ [CrashNext]_vars => DbInv'
<1> SUFFICES ASSUME TypeOK, LockInv, CallInv, ReadInv, EmptyInv, [CrashNext]_vars
             PROVE  DbInv'
  BY DEF DbInv
<1> USE Distinct, RequestTypes, PendingAssumption
<1>1. ASSUME NEW p \in Procs, DbInit(p) PROVE DbInv'
  <2>1. TypeOK'
    BY <1>1 DEF DbInit, TypeOK, Labels
  <2>2. LockInv'
    BY <1>1 DEF DbInit, TypeOK, LockInv, InDb
  <2>3. CallInv'
    BY <1>1 DEF DbInit, TypeOK, CallInv, InDb
  <2>4. ReadInv'
    BY <1>1 DEF DbInit, TypeOK, ReadInv
  <2>5. EmptyInv'
    BY <1>1 DEF DbInit, TypeOK, EmptyInv, Rewriting
  <2>6. QED
    BY <2>1, <2>2, <2>3, <2>4, <2>5 DEF DbInv
<1>2. ASSUME NEW p \in Procs, Call(p) PROVE DbInv'
  <2>1. TypeOK'
    BY <1>2, BoundsAssumption DEF Call, TypeOK, Labels, DbOps
  <2>2. LockInv'
    BY <1>2 DEF Call, TypeOK, LockInv, InDb
  <2>3. CallInv'
    BY <1>2 DEF Call, TypeOK, CallInv, InDb
  <2>4. ReadInv'
    BY <1>2 DEF Call, TypeOK, ReadInv
  <2>5. EmptyInv'
    BY <1>2 DEF Call, TypeOK, EmptyInv, Rewriting
  <2>6. QED
    BY <2>1, <2>2, <2>3, <2>4, <2>5 DEF DbInv
<1>3. ASSUME NEW p \in Procs, Refuse(p) PROVE DbInv'
  <2>1. TypeOK'
    BY <1>3 DEF Refuse, TypeOK, Labels, CltCodes, DbCodes
  <2>2. LockInv'
    BY <1>3 DEF Refuse, TypeOK, LockInv, InDb
  <2>3. CallInv'
    BY <1>3 DEF Refuse, TypeOK, CallInv, InDb, CltCodes, DbCodes
  <2>4. ReadInv'
    BY <1>3 DEF Refuse, TypeOK, ReadInv
  <2>5. EmptyInv'
    BY <1>3 DEF Refuse, TypeOK, EmptyInv, Rewriting
  <2>6. QED
    BY <2>1, <2>2, <2>3, <2>4, <2>5 DEF DbInv
<1>4. ASSUME NEW p \in Procs, FailInit(p) PROVE DbInv'
  <2>1. TypeOK'
    BY <1>4 DEF FailInit, TypeOK, Labels
  <2>2. LockInv'
    BY <1>4 DEF FailInit, TypeOK, LockInv, InDb
  <2>3. CallInv'
    BY <1>4 DEF FailInit, TypeOK, CallInv, InDb
  <2>4. ReadInv'
    BY <1>4 DEF FailInit, TypeOK, ReadInv
  <2>5. EmptyInv'
    BY <1>4 DEF FailInit, TypeOK, EmptyInv, Rewriting
  <2>6. QED
    BY <2>1, <2>2, <2>3, <2>4, <2>5 DEF DbInv
<1>5. ASSUME NEW p \in Procs, LockTable(p) PROVE DbInv'
  <2>1. TypeOK'
    BY <1>5 DEF LockTable, TypeOK, Labels, LockType
  <2>2. LockInv'
    BY <1>5 DEF LockTable, TypeOK, LockInv, InDb, LockType, Grantable
  <2>3. CallInv'
    BY <1>5 DEF LockTable, TypeOK, CallInv, InDb
  <2>4. ReadInv'
    BY <1>5 DEF LockTable, TypeOK, ReadInv
  <2>5. EmptyInv'
    BY <1>5 DEF LockTable, TypeOK, EmptyInv, Rewriting
  <2>6. QED
    BY <2>1, <2>2, <2>3, <2>4, <2>5 DEF DbInv
<1>6. ASSUME NEW p \in Procs, Open(p) PROVE DbInv'
  <2>1. TypeOK'
    BY <1>6 DEF Open, TypeOK, Labels, CltCodes, DbCodes
  <2>2. LockInv'
    BY <1>6 DEF Open, TypeOK, LockInv, InDb
  <2>3. CallInv'
    BY <1>6 DEF Open, TypeOK, CallInv, InDb, CltCodes, DbCodes
  <2>4. ReadInv'
    BY <1>6 DEF Open, TypeOK, CallInv, ReadInv, InDb
  <2>5. EmptyInv'
    BY <1>6 DEF Open, TypeOK, EmptyInv, Rewriting
  <2>6. QED
    BY <2>1, <2>2, <2>3, <2>4, <2>5 DEF DbInv
<1>7. ASSUME NEW p \in Procs, Scan(p) PROVE DbInv'
  <2>1. TypeOK'
    <3>1. PICK quantity \in Scanned(file[request[p].name]) :
             original' = [original EXCEPT ![p] = quantity]
      BY <1>7 DEF Scan
    <3>2. request[p].name \in Names
      BY <1>7 DEF Scan, CallInv
    <3>3. quantity \in Ints
      BY <1>7, <3>1, <3>2 DEF Scan, TypeOK, ReadInv, Scanned
    <3>4. QED
      BY <1>7, <3>1, <3>3 DEF Scan, TypeOK, Labels, AfterScan, CltCodes, DbCodes
  <2>2. LockInv'
    BY <1>7 DEF Scan, TypeOK, LockInv, InDb, AfterScan
  <2>3. CallInv'
    BY <1>7 DEF Scan, TypeOK, CallInv, InDb, AfterScan, DbOps, CltCodes, DbCodes
  <2>4. ReadInv'
    BY <1>7 DEF Scan, TypeOK, CallInv, ReadInv, AfterScan, Scanned, DbOps
  <2>5. EmptyInv'
    BY <1>7 DEF Scan, TypeOK, EmptyInv, Rewriting
  <2>6. QED
    BY <2>1, <2>2, <2>3, <2>4, <2>5 DEF DbInv
<1>8. ASSUME NEW p \in Procs, Truncate(p) PROVE DbInv'
  <2>1. TypeOK'
    BY <1>8 DEF Truncate, TypeOK, Labels
  <2>2. LockInv'
    BY <1>8 DEF Truncate, TypeOK, LockInv, InDb
  <2>3. CallInv'
    BY <1>8 DEF Truncate, TypeOK, CallInv, InDb
  <2>4. ReadInv'
    BY <1>8 DEF Truncate, TypeOK, LockInv, CallInv, ReadInv, InDb, LockType
  <2>5. EmptyInv'
    BY <1>8 DEF Truncate, TypeOK, LockInv, CallInv, EmptyInv, Rewriting, InDb, LockType
  <2>6. QED
    BY <2>1, <2>2, <2>3, <2>4, <2>5 DEF DbInv
<1>9. ASSUME NEW p \in Procs, Flush(p) PROVE DbInv'
  <2>1. TypeOK'
    BY <1>9, NewQuantityInt DEF Flush, TypeOK, Labels, CallInv, CltCodes, DbCodes
  <2>2. LockInv'
    BY <1>9 DEF Flush, TypeOK, LockInv, InDb
  <2>3. CallInv'
    BY <1>9 DEF Flush, TypeOK, CallInv, InDb, CltCodes, DbCodes
  <2>4. ReadInv'
    BY <1>9 DEF Flush, TypeOK, LockInv, CallInv, ReadInv, InDb, LockType
  <2>5. EmptyInv'
    BY <1>9, NewQuantityInt DEF Flush, TypeOK, CallInv, EmptyInv, Rewriting
  <2>6. QED
    BY <2>1, <2>2, <2>3, <2>4, <2>5 DEF DbInv
<1>10. ASSUME NEW p \in Procs, Remove(p) PROVE DbInv'
  <2>1. TypeOK'
    BY <1>10 DEF Remove, TypeOK, Labels, CltCodes, DbCodes
  <2>2. LockInv'
    BY <1>10 DEF Remove, TypeOK, LockInv, InDb
  <2>3. CallInv'
    BY <1>10 DEF Remove, TypeOK, CallInv, InDb, CltCodes, DbCodes
  <2>4. ReadInv'
    BY <1>10 DEF Remove, TypeOK, LockInv, CallInv, ReadInv, InDb, LockType
  <2>5. EmptyInv'
    BY <1>10 DEF Remove, TypeOK, EmptyInv, Rewriting
  <2>6. QED
    BY <2>1, <2>2, <2>3, <2>4, <2>5 DEF DbInv
<1>11. ASSUME NEW p \in Procs, UnlockTable(p) PROVE DbInv'
  <2>1. TypeOK'
    BY <1>11 DEF UnlockTable, TypeOK, Labels, CltCodes, DbCodes, DbOps, Unlocked
  <2>2. LockInv'
    BY <1>11 DEF UnlockTable, TypeOK, LockInv, InDb, LockType, Unlocked
  <2>3. CallInv'
    BY <1>11 DEF UnlockTable, TypeOK, CallInv, InDb, AddLookup, CltCodes, DbCodes
  <2>4. ReadInv'
    BY <1>11 DEF UnlockTable, TypeOK, ReadInv
  <2>5. EmptyInv'
    BY <1>11 DEF UnlockTable, TypeOK, EmptyInv, Rewriting
  <2>6. QED
    BY <2>1, <2>2, <2>3, <2>4, <2>5 DEF DbInv
<1>12. ASSUME NEW p \in Procs, Return(p) PROVE DbInv'
  <2>1. TypeOK'
    BY <1>12 DEF Return, TypeOK, Labels
  <2>2. LockInv'
    BY <1>12 DEF Return, TypeOK, LockInv, InDb
  <2>3. CallInv'
    BY <1>12 DEF Return, TypeOK, CallInv, InDb
  <2>4. ReadInv'
    BY <1>12 DEF Return, TypeOK, ReadInv
  <2>5. EmptyInv'
    BY <1>12 DEF Return, TypeOK, EmptyInv, Rewriting
  <2>6. QED
    BY <2>1, <2>2, <2>3, <2>4, <2>5 DEF DbInv
<1>13. ASSUME NEW p \in Procs, Restart(p) PROVE DbInv'
  <2>1. TypeOK'
    BY <1>13 DEF Restart, TypeOK, Labels
  <2>2. LockInv'
    BY <1>13 DEF Restart, TypeOK, LockInv, InDb
  <2>3. CallInv'
    BY <1>13 DEF Restart, TypeOK, CallInv, InDb
  <2>4. ReadInv'
    BY <1>13 DEF Restart, TypeOK, ReadInv
  <2>5. EmptyInv'
    BY <1>13 DEF Restart, TypeOK, EmptyInv, Rewriting
  <2>6. QED
    BY <2>1, <2>2, <2>3, <2>4, <2>5 DEF DbInv
<1>14. ASSUME NEW p \in Procs, Crash(p) PROVE DbInv'
  <2>1. TypeOK'
    BY <1>14, BoundsAssumption DEF Crash, TypeOK, Labels
  <2>2. LockInv'
    BY <1>14 DEF Crash, TypeOK, LockInv, InDb
  <2>3. CallInv'
    BY <1>14 DEF Crash, TypeOK, CallInv, InDb
  <2>4. ReadInv'
    BY <1>14 DEF Crash, TypeOK, ReadInv
  <2>5. EmptyInv'
    BY <1>14 DEF Crash, TypeOK, EmptyInv, Rewriting
  <2>6. QED
    BY <2>1, <2>2, <2>3, <2>4, <2>5 DEF DbInv
<1>15. CASE UNCHANGED vars
  BY <1>15 DEF vars, DbInv, TypeOK, LockInv, CallInv, ReadInv, EmptyInv, InDb, Rewriting
<1>16. QED
  BY <1>1, <1>2, <1>3, <1>4, <1>5, <1>6, <1>7, <1>8, <1>9, <1>10, <1>11, <1>12, <1>13, <1>14, <1>15 DEF CrashNext, Next, Step, UserStep, Finished

-----------------------------------------------------------------------------
\* Spec is CrashSpec without its Crash steps.
LEMMA SpecIsCrashSpec == Spec => CrashSpec
<1>1. [Next]_vars => [CrashNext]_vars
  BY DEF CrashNext
<1>2. QED
  BY <1>1, PTL DEF Spec, CrashSpec

\* What every process knows about the file of its product stays true until
\* it acts on it, whoever is killed (productDBX.c's lock around each db_).
THEOREM DbInvariant == CrashSpec => []DbInv
  BY InitInv, StepInv, PTL DEF CrashSpec

\* Every variable of the shared database keeps its type.
THEOREM TypeCorrect == Spec => []TypeOK
<1>1. DbInv => TypeOK
  BY DEF DbInv
<1>2. QED
  BY <1>1, SpecIsCrashSpec, DbInvariant, PTL

\* The rewriter of a file is alone: any other process inside a db_ function
\* is not between fopen(.., "w") and fclose.
LEMMA RewriterAlone ==
  ASSUME DbInv, NEW p \in Procs, NEW q \in Procs \ {p}, InDb(p)
  PROVE  pc[q] # "flush"
<1> SUFFICES ASSUME pc[q] = "flush" PROVE FALSE
  OBVIOUS
<1>1. lock[q] = "F_WRLCK"
  BY DEF DbInv, LockInv, CallInv, InDb, LockType
<1>2. lock[p] # "F_UNLCK"
  BY DEF DbInv, LockInv, LockType
<1>3. QED
  BY <1>1, <1>2 DEF DbInv, LockInv

\* Whoever is killed, an empty file that is scanned has no live writer.
THEOREM LiveRewritesHidden == CrashSpec => []NoLiveTornRead
<1>1. DbInv => NoLiveTornRead
  <2> SUFFICES ASSUME DbInv, NEW p \in Procs, pc[p] = "scan",
                      file[request[p].name] = Empty
               PROVE  crashes > 0 /\ ~\E q \in Procs : Rewriting(q, request[p].name)
    BY DEF NoLiveTornRead
  <2>1. \A q \in Procs : pc[q] # "flush"
    BY RewriterAlone DEF InDb
  <2>2. request[p].name \in Names
    BY RequestTypes DEF DbInv, CallInv
  <2>3. crashes # 0
    BY <2>1, <2>2 DEF DbInv, EmptyInv, Rewriting
  <2>4. QED
    BY <2>1, <2>3, BoundsAssumption DEF Rewriting, DbInv, TypeOK
<1>2. QED
  BY <1>1, DbInvariant, PTL

\* Nobody is killed in a behaviour of Spec.
LEMMA NoCrash == Spec => [](DbInv /\ crashes = 0)
<1>1. Init => crashes = 0
  BY DEF Init
<1>2. crashes = 0 /\ [Next]_vars => (crashes = 0)'
  BY DEF vars, Next, Finished, Step, UserStep, DbInit, Call, Refuse, FailInit, LockTable,
         Open, Scan, Truncate, Flush, Remove, UnlockTable, Return, Restart
<1>3. QED
  BY <1>1, <1>2, SpecIsCrashSpec, DbInvariant, PTL DEF Spec

\* Without kills every scan finds a number.
THEOREM ScansFindNumbers == Spec => []NoTornRead
<1>1. DbInv /\ crashes = 0 => NoTornRead
  <2> SUFFICES ASSUME DbInv, crashes = 0, NEW p \in Procs, pc[p] = "scan"
               PROVE  file[request[p].name] \in Ints
    BY DEF NoTornRead
  <2>1. \A q \in Procs : pc[q] # "flush"
    BY RewriterAlone DEF InDb
  <2>2. request[p].name \in Names
    BY RequestTypes DEF DbInv, CallInv
  <2>3. file[request[p].name] # Empty
    BY <2>1, <2>2 DEF DbInv, EmptyInv, Rewriting
  <2>4. QED
    BY <2>2, <2>3 DEF DbInv, TypeOK, ReadInv
<1>2. QED
  BY <1>1, NoCrash, PTL

-----------------------------------------------------------------------------
\* A step that leaves the files and the rewriters alone damages nothing.
LEMMA NothingDamaged ==
  ASSUME file' = file,
         \A q \in Procs : /\ pc'[q] = "flush" <=> pc[q] = "flush"
                          /\ pc'[q] = "flush" => request'[q] = request[q]
  PROVE  \A n \in Names : Damaged(n)' <=> Damaged(n)
  BY DEF Damaged, Rewriting

\* A kill leaves empty what its process was rewriting, and so does nothing
\* else (productDBX.c, fopen(.., "w") .. fclose).
THEOREM DamageIsConfined == CrashSpec => DamageConfined
<1>1. DbInv /\ [CrashNext]_vars
        => [\A n \in Names : Damaged(n)' /\ ~Damaged(n) =>
              \E p \in Procs : Rewriting(p, n) /\ pc'[p] = "exited" /\ crashes' > crashes]_vars
  <2> SUFFICES ASSUME DbInv, [CrashNext]_vars, NEW n \in Names, Damaged(n)', ~Damaged(n)
               PROVE  \E p \in Procs :
                        Rewriting(p, n) /\ pc'[p] = "exited" /\ crashes' > crashes
    OBVIOUS
  <2> USE Distinct, RequestTypes
  <2>1. ASSUME NEW p \in Procs, Truncate(p) PROVE FALSE
    <3>1. file'[n] # file[n] => Rewriting(p, n)'
      BY <2>1 DEF Truncate, DbInv, TypeOK, Rewriting
    <3>2. \A q \in Procs : Rewriting(q, n) => Rewriting(q, n)'
      BY <2>1 DEF Truncate, DbInv, TypeOK, Rewriting
    <3>3. QED
      BY <3>1, <3>2 DEF Damaged
  <2>2. ASSUME NEW p \in Procs, Flush(p) PROVE FALSE
    <3>1. request[p].name \in Names /\ NewQuantity(p) \in Ints
      BY <2>2, NewQuantityInt DEF Flush, DbInv, CallInv
    <3>2. request[p].name # n /\ file'[n] = file[n]
      BY <2>2, <3>1 DEF Flush, DbInv, TypeOK, Damaged
    <3>3. \A q \in Procs : Rewriting(q, n) => Rewriting(q, n)'
      BY <2>2, <3>2 DEF Flush, DbInv, TypeOK, Rewriting
    <3>4. QED
      BY <3>2, <3>3 DEF Damaged
  <2>3. ASSUME NEW p \in Procs, Remove(p) PROVE FALSE
    <3>1. file'[n] = Empty => file[n] = Empty
      BY <2>3 DEF Remove, DbInv, TypeOK
    <3>2. \A q \in Procs : Rewriting(q, n) => Rewriting(q, n)'
      BY <2>3 DEF Remove, DbInv, TypeOK, Rewriting
    <3>3. QED
      BY <3>1, <3>2 DEF Damaged
  <2>4. ASSUME NEW p \in Procs, Crash(p)
        PROVE  Rewriting(p, n) /\ pc'[p] = "exited" /\ crashes' > crashes
    <3>1. \A q \in Procs \ {p} : Rewriting(q, n) => Rewriting(q, n)'
      BY <2>4 DEF Crash, DbInv, TypeOK, Rewriting
    <3>2. Rewriting(p, n)
      BY <2>4, <3>1 DEF Crash, Damaged
    <3>3. pc'[p] = "exited" /\ crashes' > crashes
      BY <2>4, BoundsAssumption DEF Crash, DbInv, TypeOK
    <3>4. QED
      BY <3>2, <3>3
  <2>5. ASSUME NEW p \in Procs,
               \/ Refuse(p) \/ FailInit(p) \/ LockTable(p) \/ Open(p) \/ Scan(p)
               \/ UnlockTable(p) \/ Return(p) \/ UserStep(p)
        PROVE  FALSE
    <3>1. file' = file
      BY <2>5
         DEF Refuse, FailInit, LockTable, Open, Scan, UnlockTable, Return, UserStep, DbInit,
             Call, Restart
    <3>2. \A q \in Procs : /\ pc'[q] = "flush" <=> pc[q] = "flush"
                           /\ pc'[q] = "flush" => request'[q] = request[q]
      BY <2>5
         DEF Refuse, FailInit, LockTable, Open, Scan, AfterScan, UnlockTable, Return, UserStep,
             DbInit, Call, Restart, DbInv, TypeOK
    <3>3. QED
      BY <3>1, <3>2, NothingDamaged
  <2>6. CASE UNCHANGED vars
    BY <2>6, NothingDamaged DEF vars
  <2>7. QED
    BY <2>1, <2>2, <2>3, <2>4, <2>5, <2>6 DEF CrashNext, Next, Step, Finished
<1>2. QED
  BY <1>1, DbInvariant, PTL DEF CrashSpec, DamageConfined

-----------------------------------------------------------------------------
(***************************************************************************)
(* Processes sharing the directory implement the atomic Stock, for any     *)
(* number of processes, products and calls.                                *)
(***************************************************************************)
\* What the refinement mapping makes of a file: its rewriter's old value
\* while there is a rewriter, its contents otherwise.
LEMMA StockValue ==
  DbInv => \A n \in Names :
             /\ \A p \in Procs : Rewriting(p, n) => StockNow[n] = original[p]
             /\ (\A p \in Procs : ~Rewriting(p, n)) => StockNow[n] = file[n]
<1> SUFFICES ASSUME DbInv, NEW n \in Names
             PROVE  /\ \A p \in Procs : Rewriting(p, n) => StockNow[n] = original[p]
                    /\ (\A p \in Procs : ~Rewriting(p, n)) => StockNow[n] = file[n]
  OBVIOUS
<1>1. ASSUME NEW p \in Procs, Rewriting(p, n) PROVE StockNow[n] = original[p]
  <2>1. \A q \in Procs : Rewriting(q, n) => q = p
    BY <1>1, RewriterAlone DEF Rewriting, InDb
  <2>2. (CHOOSE q \in Procs : Rewriting(q, n)) = p
    BY <1>1, <2>1
  <2>3. QED
    BY <1>1, <2>2 DEF StockNow
<1>2. ASSUME \A p \in Procs : ~Rewriting(p, n) PROVE StockNow[n] = file[n]
  BY <1>2 DEF StockNow
<1>3. QED
  BY <1>1, <1>2

\* The same in the next state.
LEMMA StockValuePrime ==
  DbInv' => (\A n \in Names :
             /\ \A p \in Procs : Rewriting(p, n) => StockNow[n] = original[p]
             /\ (\A p \in Procs : ~Rewriting(p, n)) => StockNow[n] = file[n])'
  BY StockValue, PTL

\* Initial directories are initial stocks.
LEMMA InitRefines == Init => S!StockInit
<1> SUFFICES ASSUME Init PROVE S!StockInit
  OBVIOUS
<1>1. StockNow = file
  BY DEF Init, StockNow, Rewriting
<1>2. RequestNow = [p \in Procs |-> Idle] /\ ReplyNow = [p \in Procs |-> Pending]
  BY DEF Init, RequestNow, ReplyNow, Settled
<1>3. QED
  BY <1>1, <1>2 DEF Init, S!StockInit

\* The mapped stock stands still while files, rewriters and what rewriters
\* read stand still.
LEMMA StockKept ==
  ASSUME DbInv, DbInv', file' = file,
         \A q \in Procs : /\ pc'[q] = "flush" <=> pc[q] = "flush"
                          /\ pc[q] = "flush" => /\ request'[q] = request[q]
                                                /\ original'[q] = original[q]
  PROVE  StockNow' = StockNow
<1>1. \A n \in Names, q \in Procs : Rewriting(q, n)' <=> Rewriting(q, n)
  BY DEF Rewriting
<1>2. ASSUME NEW n \in Names PROVE StockNow'[n] = StockNow[n]
  <2>1. CASE \E q \in Procs : Rewriting(q, n)
    BY <1>1, <2>1, StockValue, StockValuePrime DEF Rewriting
  <2>2. CASE \A q \in Procs : ~Rewriting(q, n)
    BY <1>1, <2>2, StockValue, StockValuePrime
  <2>3. QED
    BY <2>1, <2>2
<1>3. QED
  BY <1>2 DEF StockNow

\* A process inside a db_ function that is not rewriting sees in the file of
\* its product what the mapped stock holds.
LEMMA StockSeen ==
  ASSUME DbInv, NEW p \in Procs, InDb(p), pc[p] # "flush"
  PROVE  /\ request[p] \in Requests
         /\ request[p].name \in Names
         /\ StockNow[request[p].name] = file[request[p].name]
<1>1. request[p] \in Requests /\ request[p].name \in Names
  BY RequestTypes DEF DbInv, CallInv, InDb
<1>2. \A q \in Procs : ~Rewriting(q, request[p].name)
  BY RewriterAlone DEF Rewriting
<1>3. QED
  BY <1>1, <1>2, StockValue

\* What has to be shown of a step that settles the call of p.
LEMMA PerformStep ==
  ASSUME NEW p \in Procs, NEW r \in Requests, NEW code,
         RequestNow[p] = r, RequestNow' = RequestNow, ReplyNow[p] = Pending,
         code \in S!Codes(r, StockNow[r.name]),
         ReplyNow' = [ReplyNow EXCEPT ![p] =
                        [code |-> code, shown |-> S!Shown(r, code, StockNow[r.name])]],
         StockNow' = IF code = "OK"
                     THEN [StockNow EXCEPT ![r.name] = S!After(r, StockNow[r.name])]
                     ELSE StockNow
  PROVE  S!Perform(p)
  BY DEF S!Perform, S!Requests, Requests

\* A step of a process is a step of Stock or leaves the mapped state alone.
LEMMA StepRefines ==
  DbInv /\ crashes = 0 /\ DbInv' /\ [Next]_vars => [S!StockNext]_S!stockVars
<1> SUFFICES ASSUME DbInv, crashes = 0, DbInv', [Next]_vars
             PROVE  [S!StockNext]_S!stockVars
  OBVIOUS
<1> USE Distinct, RequestTypes, PendingAssumption, IdleAssumption
<1>1. ASSUME NEW p \in Procs, DbInit(p) PROVE UNCHANGED S!stockVars
  <2>1. StockNow' = StockNow
    BY <1>1, StockKept DEF DbInit, DbInv, TypeOK
  <2>2. RequestNow' = RequestNow
    BY <1>1 DEF DbInit, DbInv, TypeOK, RequestNow
  <2>3. ReplyNow' = ReplyNow
    BY <1>1 DEF DbInit, DbInv, TypeOK, ReplyNow, Settled, CltCode, AddLookup
  <2>4. QED
    BY <2>1, <2>2, <2>3 DEF S!stockVars
<1>2. ASSUME NEW p \in Procs, LockTable(p) PROVE UNCHANGED S!stockVars
  <2>1. StockNow' = StockNow
    BY <1>2, StockKept DEF LockTable, DbInv, TypeOK
  <2>2. RequestNow' = RequestNow
    BY <1>2 DEF LockTable, DbInv, TypeOK, RequestNow
  <2>3. ReplyNow' = ReplyNow
    BY <1>2 DEF LockTable, DbInv, TypeOK, ReplyNow, Settled, CltCode, AddLookup
  <2>4. QED
    BY <2>1, <2>2, <2>3 DEF S!stockVars
<1>3. ASSUME NEW p \in Procs, Truncate(p) PROVE UNCHANGED S!stockVars
  <2>1. PICK name \in Names : name = request[p].name /\ StockNow[name] = file[name]
    BY <1>3, StockSeen DEF Truncate, InDb
  <2>2. file[name] # Empty
    BY <1>3, <2>1, RewriterAlone DEF Truncate, InDb, DbInv, EmptyInv, Rewriting
  <2>3. file[name] = original[p]
    BY <1>3, <2>1, <2>2 DEF Truncate, DbInv, ReadInv
  <2>4. Rewriting(p, name)' /\ original' = original
    BY <1>3, <2>1 DEF Truncate, Rewriting, DbInv, TypeOK
  <2>5. \A n \in Names \ {name}, q \in Procs : Rewriting(q, n)' <=> Rewriting(q, n)
    BY <1>3, <2>1 DEF Truncate, Rewriting, DbInv, TypeOK
  <2>6. \A n \in Names \ {name} : file'[n] = file[n]
    BY <1>3, <2>1 DEF Truncate, DbInv, TypeOK
  <2>7. ASSUME NEW n \in Names PROVE StockNow'[n] = StockNow[n]
    <3>1. CASE n = name
      BY <2>1, <2>3, <2>4, <3>1, StockValuePrime
    <3>2. CASE n # name
      BY <2>4, <2>5, <2>6, <3>2, StockValue, StockValuePrime
    <3>3. QED
      BY <3>1, <3>2
  <2>8. StockNow' = StockNow
    BY <2>7 DEF StockNow
  <2>9. RequestNow' = RequestNow /\ ReplyNow' = ReplyNow
    BY <1>3 DEF Truncate, DbInv, TypeOK, RequestNow, ReplyNow, Settled, CltCode, AddLookup
  <2>10. QED
    BY <2>8, <2>9 DEF S!stockVars
<1>4. ASSUME NEW p \in Procs, Call(p) PROVE S!Invoke(p)
  <2>1. PICK r \in Requests : request' = [request EXCEPT ![p] = r]
    BY <1>4 DEF Call
  <2>2. StockNow' = StockNow
    BY <1>4, StockKept DEF Call, DbInv, TypeOK
  <2>3. RequestNow[p] = Idle
    BY <1>4 DEF Call, DbInv, TypeOK, CallInv, RequestNow
  <2>4. RequestNow' = [RequestNow EXCEPT ![p] = r]
    BY <1>4, <2>1 DEF Call, DbInv, TypeOK, RequestNow
  <2>5. ReplyNow' = ReplyNow
    BY <1>4 DEF Call, DbInv, TypeOK, ReplyNow, Settled, CltCode, AddLookup
  <2>6. QED
    BY <2>2, <2>3, <2>4, <2>5 DEF S!Invoke, S!Requests, Requests
<1>5. ASSUME NEW p \in Procs, Refuse(p) PROVE S!Perform(p)
  <2>1. PICK r \in Requests : r = request[p]
    BY <1>5 DEF Refuse, DbInv, CallInv
  <2>2. StockNow' = StockNow
    BY <1>5, StockKept DEF Refuse, DbInv, TypeOK
  <2>3. RequestNow[p] = r /\ RequestNow' = RequestNow
    BY <1>5, <2>1 DEF Refuse, DbInv, TypeOK, RequestNow
  <2>4. r.op \in {"deposit", "take"} /\ "NEGATIVE_QUANTITY" \in S!Codes(r, StockNow[r.name])
    BY <1>5, <2>1 DEF Refuse, Refused, S!Codes, S!Refused
  <2>5. /\ ReplyNow[p] = Pending
        /\ ReplyNow' = [ReplyNow EXCEPT ![p] = [code |-> "NEGATIVE_QUANTITY", shown |-> Absent]]
    BY <1>5, <2>1, <2>4 DEF Refuse, DbInv, TypeOK, ReplyNow, Settled, CltCode, AddLookup
  <2>6. QED
    BY <2>1, <2>2, <2>3, <2>4, <2>5, PerformStep DEF S!Shown
<1>6. ASSUME NEW p \in Procs, FailInit(p) PROVE S!Exit(p)
  <2>1. StockNow' = StockNow
    BY <1>6, StockKept DEF FailInit, DbInv, TypeOK
  <2>2. RequestNow[p] \in Requests /\ RequestNow' = [RequestNow EXCEPT ![p] = Gone]
    BY <1>6 DEF FailInit, DbInv, TypeOK, CallInv, RequestNow
  <2>3. ReplyNow[p] = Pending /\ ReplyNow' = ReplyNow
    BY <1>6 DEF FailInit, DbInv, TypeOK, ReplyNow, Settled, CltCode, AddLookup
  <2>4. QED
    BY <2>1, <2>2, <2>3 DEF S!Exit, S!Requests, Requests
<1>7. ASSUME NEW p \in Procs, Open(p) PROVE S!Perform(p) \/ UNCHANGED S!stockVars
  <2>1. PICK r \in Requests : r = request[p] /\ r.name \in Names
                              /\ StockNow[r.name] = file[r.name]
    BY <1>7, StockSeen DEF Open, InDb
  <2>2. StockNow' = StockNow
    BY <1>7, StockKept DEF Open, DbInv, TypeOK
  <2>3. RequestNow[p] = r /\ RequestNow' = RequestNow
    BY <1>7, <2>1 DEF Open, DbInv, TypeOK, RequestNow
  <2>4. CASE file[r.name] = Absent /\ dbop[p] # "save" /\ ~AddLookup(p)
    <3>1. r.op # "add" /\ ~Refused(r)
      BY <1>7, <2>1, <2>4 DEF Open, DbInv, CallInv, AddLookup, FirstDbOp, InDb
    <3>2. "NO_PRODUCT_FOR_NAME" \in S!Codes(r, StockNow[r.name])
      BY <2>1, <2>4, <3>1 DEF Refused, S!Codes, S!Refused
    <3>3. ReplyNow[p] = Pending
      BY <1>7 DEF Open, ReplyNow, Settled
    <3>4. ReplyNow'[p] = [code |-> "NO_PRODUCT_FOR_NAME", shown |-> Absent]
      BY <1>7, <2>1, <2>4, <3>1 DEF Open, DbInv, TypeOK, ReplyNow, Settled, CltCode, AddLookup
    <3>5. \A q \in Procs \ {p} : ReplyNow'[q] = ReplyNow[q]
      BY <1>7 DEF Open, DbInv, TypeOK, ReplyNow, Settled, CltCode, AddLookup
    <3>6. ReplyNow' = [ReplyNow EXCEPT ![p] =
                         [code |-> "NO_PRODUCT_FOR_NAME", shown |-> Absent]]
      BY <3>4, <3>5 DEF ReplyNow
    <3>7. QED
      BY <2>1, <2>2, <2>3, <3>2, <3>3, <3>6, PerformStep DEF S!Shown
  <2>5. CASE ~(file[r.name] = Absent /\ dbop[p] # "save" /\ ~AddLookup(p))
    <3>1. ReplyNow' = ReplyNow
      BY <1>7, <2>1, <2>5 DEF Open, DbInv, TypeOK, ReplyNow, Settled, CltCode, AddLookup
    <3>2. QED
      BY <2>2, <2>3, <3>1 DEF S!stockVars
  <2>6. QED
    BY <2>4, <2>5
<1>8. ASSUME NEW p \in Procs, Return(p) PROVE S!Return(p)
  <2>1. StockNow' = StockNow
    BY <1>8, StockKept DEF Return, DbInv, TypeOK
  <2>2. RequestNow[p] \in Requests /\ RequestNow' = [RequestNow EXCEPT ![p] = Idle]
    BY <1>8 DEF Return, DbInv, TypeOK, CallInv, RequestNow
  <2>3. ReplyNow[p] # Pending
    <3>1. Settled(p) /\ AddLookup(p) \in BOOLEAN
      BY <1>8 DEF Return, Settled, AddLookup
    <3>2. CltCode(p) \in CltCodes
      BY <1>8 DEF Return, CltCode, CltCodes, DbCodes, DbInv, TypeOK, CallInv
    <3>3. QED
      BY <3>1, <3>2 DEF ReplyNow, DbInv, TypeOK
  <2>4. ReplyNow' = [ReplyNow EXCEPT ![p] = Pending]
    BY <1>8 DEF Return, DbInv, TypeOK, ReplyNow, Settled, CltCode, AddLookup
  <2>5. QED
    BY <2>1, <2>2, <2>3, <2>4 DEF S!Return, S!Requests, Requests
<1>9. ASSUME NEW p \in Procs, Restart(p) PROVE S!Restart(p)
  <2>1. StockNow' = StockNow
    BY <1>9, StockKept DEF Restart, DbInv, TypeOK
  <2>2. RequestNow[p] = Gone /\ RequestNow' = [RequestNow EXCEPT ![p] = Idle]
    BY <1>9 DEF Restart, DbInv, TypeOK, RequestNow
  <2>3. ReplyNow' = ReplyNow
    BY <1>9 DEF Restart, DbInv, TypeOK, ReplyNow, Settled, CltCode, AddLookup
  <2>4. QED
    BY <2>1, <2>2, <2>3 DEF S!Restart
<1>10. ASSUME NEW p \in Procs, UnlockTable(p) PROVE UNCHANGED S!stockVars
  <2>1. StockNow' = StockNow
    BY <1>10, StockKept DEF UnlockTable, DbInv, TypeOK
  <2>2. RequestNow' = RequestNow
    BY <1>10 DEF UnlockTable, DbInv, TypeOK, RequestNow
  <2>3. ReplyNow' = ReplyNow
    BY <1>10 DEF UnlockTable, DbInv, TypeOK, ReplyNow, Settled, CltCode, AddLookup
  <2>4. QED
    BY <2>1, <2>2, <2>3 DEF S!stockVars
<1>11. ASSUME NEW p \in Procs, Scan(p) PROVE S!Perform(p) \/ UNCHANGED S!stockVars
  <2>1. PICK r \in Requests : r = request[p] /\ r.name \in Names
                              /\ StockNow[r.name] = file[r.name]
    BY <1>11, StockSeen DEF Scan, InDb
  <2>2. file[r.name] \in Ints
    <3>1. \A q \in Procs : pc[q] # "flush"
      BY <1>11, RewriterAlone DEF Scan, InDb
    <3>2. file[r.name] # Empty
      BY <2>1, <3>1 DEF DbInv, EmptyInv, Rewriting
    <3>3. QED
      BY <1>11, <2>1, <3>2 DEF Scan, DbInv, TypeOK, ReadInv
  <2>3. original' = [original EXCEPT ![p] = file[r.name]]
    BY <1>11, <2>1, <2>2 DEF Scan, Scanned
  <2>4. StockNow' = StockNow
    BY <1>11, <2>3, StockKept DEF Scan, AfterScan, DbInv, TypeOK
  <2>5. RequestNow[p] = r /\ RequestNow' = RequestNow
    BY <1>11, <2>1 DEF Scan, AfterScan, DbInv, TypeOK, RequestNow
  <2>6. ReplyNow[p] = Pending
    BY <1>11 DEF Scan, ReplyNow, Settled
  <2>7. \A q \in Procs \ {p} : ReplyNow'[q] = ReplyNow[q]
    BY <1>11 DEF Scan, DbInv, TypeOK, ReplyNow, Settled, CltCode, AddLookup
  <2>8. CASE dbop[p] = "get" /\ r.op = "show"
    <3>1. "OK" \in S!Codes(r, StockNow[r.name])
      BY <2>1, <2>2, <2>8 DEF S!Codes, S!Refused
    <3>2. ReplyNow'[p] = [code |-> "OK", shown |-> StockNow[r.name]]
      BY <1>11, <2>1, <2>3, <2>8
      DEF Scan, AfterScan, DbInv, TypeOK, ReplyNow, Settled, CltCode, AddLookup
    <3>3. ReplyNow' = [ReplyNow EXCEPT ![p] = [code |-> "OK", shown |-> StockNow[r.name]]]
      BY <2>7, <3>2 DEF ReplyNow
    <3>4. StockNow = [StockNow EXCEPT ![r.name] = S!After(r, StockNow[r.name])]
      BY <2>8 DEF StockNow, S!After
    <3>5. QED
      BY <2>1, <2>4, <2>5, <2>6, <2>8, <3>1, <3>3, <3>4, PerformStep DEF S!Shown
  <2>9. CASE dbop[p] \in {"get", "save"} /\ r.op = "add"
    <3> DEFINE found == IF dbop[p] = "get" THEN "PRODUCT_ALREADY_INIT" ELSE "PRODUCT_EXISTS"
    <3>1. PICK code : code = found
      OBVIOUS
    <3>2. code \in S!Codes(r, StockNow[r.name]) /\ code # "OK"
      BY <2>1, <2>2, <2>9, <3>1 DEF S!Codes, S!Refused
    <3>3. ReplyNow'[p] = [code |-> code, shown |-> Absent]
      BY <1>11, <2>1, <2>9, <3>1
      DEF Scan, AfterScan, DbInv, TypeOK, ReplyNow, Settled, CltCode, AddLookup
    <3>4. ReplyNow' = [ReplyNow EXCEPT ![p] = [code |-> code, shown |-> Absent]]
      BY <2>7, <3>3 DEF ReplyNow
    <3>5. QED
      BY <2>1, <2>4, <2>5, <2>6, <3>2, <3>4, PerformStep DEF S!Shown
  <2>10. CASE dbop[p] \in {"update", "delete"}
    <3>1. ReplyNow'[p] = Pending
      BY <1>11, <2>10 DEF Scan, AfterScan, DbInv, TypeOK, ReplyNow, Settled
    <3>2. ReplyNow' = ReplyNow
      BY <2>6, <2>7, <3>1 DEF ReplyNow
    <3>3. QED
      BY <2>4, <2>5, <3>2 DEF S!stockVars
  <2>11. QED
    BY <1>11, <2>1, <2>8, <2>9, <2>10
    DEF Scan, DbInv, TypeOK, DbOps, CallInv, FirstDbOp
<1>12. ASSUME NEW p \in Procs, Flush(p) PROVE S!Perform(p)
  <2>1. PICK r \in Requests : r = request[p] /\ r.name \in Names
    BY <1>12 DEF Flush, DbInv, CallInv
  <2>2. StockNow[r.name] = original[p]
    BY <1>12, <2>1, StockValue DEF Flush, Rewriting
  <2>3. \A q \in Procs : pc'[q] # "flush"
    BY <1>12, RewriterAlone DEF Flush, InDb, DbInv, TypeOK
  <2>4. \A q \in Procs \ {p} : pc[q] # "flush"
    BY <1>12, RewriterAlone DEF Flush, InDb
  <2>5. \A n \in Names : StockNow'[n] = file'[n]
    BY <2>3, StockValuePrime DEF Rewriting
  <2>6. \A n \in Names \ {r.name} : StockNow[n] = file[n]
    BY <1>12, <2>1, <2>4, StockValue DEF Rewriting
  <2>7. StockNow' = [StockNow EXCEPT ![r.name] = NewQuantity(p)]
    BY <1>12, <2>1, <2>5, <2>6 DEF Flush, StockNow, DbInv, TypeOK
  <2>8. /\ ~Refused(r)
        /\ dbop[p] = "update" => r.op \in {"deposit", "take"} /\ original[p] # Absent
        /\ dbop[p] # "update" => r.op = "add" /\ original[p] = Absent
    BY <1>12, <2>1
    DEF Flush, DbInv, CallInv, ReadInv, FirstDbOp, InDb, Requests
  <2>9. NewQuantity(p) = S!After(r, original[p])
    BY <2>1, <2>8 DEF NewQuantity, S!After, S!Wrap, Wrap, S!Delta, Delta
  <2>10. "OK" \in S!Codes(r, StockNow[r.name])
    BY <2>2, <2>8 DEF S!Codes, S!Refused, Refused
  <2>11. RequestNow[p] = r /\ RequestNow' = RequestNow
    BY <1>12, <2>1 DEF Flush, DbInv, TypeOK, RequestNow
  <2>12. ReplyNow[p] = Pending
    BY <1>12 DEF Flush, ReplyNow, Settled
  <2>13. \A q \in Procs \ {p} : ReplyNow'[q] = ReplyNow[q]
    BY <1>12 DEF Flush, DbInv, TypeOK, ReplyNow, Settled, CltCode, AddLookup
  <2>14. dbop[p] # "get" /\ r.op # "show"
    BY <1>12, <2>8 DEF Flush, DbInv, CallInv
  <2>15. ReplyNow'[p] = [code |-> "OK", shown |-> Absent]
    BY <1>12, <2>1, <2>14
    DEF Flush, DbInv, TypeOK, ReplyNow, Settled, CltCode, AddLookup
  <2>16. ReplyNow' = [ReplyNow EXCEPT ![p] = [code |-> "OK", shown |-> Absent]]
    BY <2>13, <2>15 DEF ReplyNow
  <2>17. QED
    BY <2>1, <2>2, <2>7, <2>9, <2>10, <2>11, <2>12, <2>14, <2>16, PerformStep DEF S!Shown
<1>13. ASSUME NEW p \in Procs, Remove(p) PROVE S!Perform(p)
  <2>1. PICK r \in Requests : r = request[p] /\ r.name \in Names
                              /\ StockNow[r.name] = file[r.name]
    BY <1>13, StockSeen DEF Remove, InDb
  <2>2. file[r.name] # Absent
    BY <1>13, <2>1 DEF Remove, DbInv, ReadInv
  <2>3. \A q \in Procs : pc[q] # "flush" /\ pc'[q] # "flush"
    BY <1>13, RewriterAlone DEF Remove, InDb, DbInv, TypeOK
  <2>4. \A n \in Names : StockNow[n] = file[n] /\ StockNow'[n] = file'[n]
    BY <2>3, StockValue, StockValuePrime DEF Rewriting
  <2>5. StockNow' = [StockNow EXCEPT ![r.name] = Absent]
    BY <1>13, <2>1, <2>4 DEF Remove, StockNow, DbInv, TypeOK
  <2>6. r.op = "remove" /\ dbop[p] = "delete"
    BY <1>13, <2>1 DEF Remove, DbInv, CallInv, FirstDbOp
  <2>7. "OK" \in S!Codes(r, StockNow[r.name]) /\ S!After(r, StockNow[r.name]) = Absent
    BY <2>1, <2>2, <2>6 DEF S!Codes, S!Refused, S!After
  <2>8. RequestNow[p] = r /\ RequestNow' = RequestNow
    BY <1>13, <2>1 DEF Remove, DbInv, TypeOK, RequestNow
  <2>9. ReplyNow[p] = Pending
    BY <1>13 DEF Remove, ReplyNow, Settled
  <2>10. \A q \in Procs \ {p} : ReplyNow'[q] = ReplyNow[q]
    BY <1>13 DEF Remove, DbInv, TypeOK, ReplyNow, Settled, CltCode, AddLookup
  <2>11. ReplyNow'[p] = [code |-> "OK", shown |-> Absent]
    BY <1>13, <2>1, <2>2, <2>6
    DEF Remove, DbInv, TypeOK, ReplyNow, Settled, CltCode, AddLookup
  <2>12. ReplyNow' = [ReplyNow EXCEPT ![p] = [code |-> "OK", shown |-> Absent]]
    BY <2>10, <2>11 DEF ReplyNow
  <2>13. QED
    BY <2>1, <2>5, <2>6, <2>7, <2>8, <2>9, <2>12, PerformStep DEF S!Shown
<1>14. CASE UNCHANGED vars
  <2>1. StockNow' = StockNow
    BY <1>14, StockKept DEF vars
  <2>2. RequestNow' = RequestNow /\ ReplyNow' = ReplyNow
    BY <1>14 DEF vars, RequestNow, ReplyNow, Settled, CltCode, AddLookup
  <2>3. QED
    BY <2>1, <2>2 DEF S!stockVars
<1>15. QED
  BY <1>1, <1>2, <1>3, <1>4, <1>5, <1>6, <1>7, <1>8, <1>9, <1>10, <1>11, <1>12, <1>13, <1>14
  DEF Next, Step, UserStep, Finished, S!StockNext

\* Clients that share the directory see an atomic stock (client.h): every
\* call takes effect at one step between its invocation and its return, and
\* its code and quantity are those of that step.
THEOREM ImplementsStock == Spec => AtomicStock
  BY InitRefines, StepRefines, NoCrash, PTL DEF Spec, AtomicStock, S!StockSpec

=============================================================================
