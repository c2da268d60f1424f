------------------------------ MODULE Shm_proofs ------------------------------
(***************************************************************************)
(* Proofs about the shared-memory backend with the semaphores of           *)
(* semPosix.c (~SysV), for any number of clients, calls and faults.        *)
(***************************************************************************)
EXTENDS Shm, Data_proofs

\* Without SEM_UNDO the exit of a process leaves the semaphores as they are.
LEMMA UndoNothing ==
  ASSUME TypeOK, NoUndo, NEW x \in Procs \cup {Server}, Undo(x)
  PROVE  UNCHANGED <<sem, undo>>
<1>1. undo[x] = Zero
  BY DEF NoUndo
<1>2. undo' = undo
  BY <1>1 DEF Undo, TypeOK
<1>3. ASSUME NEW s \in Sems PROVE sem[s] + undo[x][s] = sem[s] /\ ~(sem[s] + undo[x][s] < 0)
  BY <1>1 DEF TypeOK, Zero
<1>4. sem' = [s \in Sems |-> sem[s]]
  BY <1>3 DEF Undo
<1>5. sem' = sem
  BY <1>4 DEF TypeOK
<1>6. QED
  BY <1>2, <1>5

\* A step on one semaphore keeps every count a natural number.
LEMMA LetSemaphore ==
  ASSUME ~SysV, TypeOK, NEW x, NEW s \in Sems, Let(x, s)
  PROVE  sem' \in [Sems -> Nat] /\ undo' = undo
  BY DEF Let, TypeOK

\* .. and the same for the wait on one.
LEMMA StopSemaphore ==
  ASSUME ~SysV, TypeOK, NEW x, NEW s \in Sems, Stop(x, s)
  PROVE  sem' \in [Sems -> Nat] /\ undo' = undo
  BY DEF Stop, TypeOK

\* The invariant holds before the server is started.
LEMMA TurnsInit == Init => TurnsInv
<1> SUFFICES ASSUME Init PROVE TurnsInv
  OBVIOUS
<1>1. TypeOK
  <2>1. stock \in [Names -> Ints \cup {Absent}]
    BY QuantitiesAssumption DEF Init
  <2>2. 0 \in 0 .. MaxCalls /\ 0 \in 0 .. MaxFaults
    BY ShmBoundsAssumption
  <2>3. Zero \in [Sems -> Nat] /\ Zero \in [Sems -> Int]
    BY DEF Zero
  <2>4. QED
    BY <2>1, <2>2, <2>3 DEF Init, TypeOK, Contents, SrvLabels, CltLabels
<1>2. NoUndo /\ OneConnected /\ NoneGarbled
  BY DEF Init, NoUndo, OneConnected, NoneGarbled, Connected, Zero, Sems
<1>3. ServerTurn /\ \A p \in Procs : ClientTurn(p)
  BY DEF Init, ServerTurn, ClientTurn, Connected, Up, Zero, Sems
<1>4. QED
  BY <1>1, <1>2, <1>3 DEF TurnsInv

\* Every step of the server and of a client keeps it, kills included.
LEMMA TurnsNext == ASSUME ~SysV PROVE TurnsInv /\ [Next]_vars => TurnsInv'
<1> SUFFICES ASSUME TypeOK, NoUndo, OneConnected, NoneGarbled, ServerTurn,
                    \A p \in Procs : ClientTurn(p), [Next]_vars
             PROVE  TurnsInv'
  BY DEF TurnsInv
<1> USE MessageTypes, ShmBoundsAssumption
<1>1. ASSUME SrvStart PROVE TurnsInv'
  <2>1. TypeOK'
    BY <1>1 DEF SrvStart, TypeOK, Contents, SrvLabels, CltLabels, Requested,
       ServerTurn, ClientTurn, Connected, semaphores, serverSide, clientSide
  <2>2. NoUndo'
    BY <1>1 DEF SrvStart, NoUndo, semaphores, serverSide, clientSide
  <2>3. OneConnected'
    BY <1>1 DEF SrvStart, TypeOK, OneConnected, Connected, Sems, ServerTurn, Zero,
       semaphores, serverSide, clientSide
  <2>4. NoneGarbled'
    BY <1>1 DEF SrvStart, TypeOK, NoneGarbled, ServerTurn, ClientTurn, Requested,
       semaphores, serverSide, clientSide
  <2>5. ServerTurn'
    BY <1>1 DEF SrvStart, TypeOK, OneConnected, Connected, Sems, Zero, ServerTurn,
       ClientTurn, Requested, Up, Quiet, Granted, Asked, QuietOrDown, semaphores,
       serverSide, clientSide
  <2>6. ASSUME NEW q \in Procs PROVE ClientTurn(q)'
    BY <1>1 DEF SrvStart, TypeOK, OneConnected, Connected, Sems, Zero, ServerTurn,
       ClientTurn, Requested, Up, Quiet, Granted, Asked, QuietOrDown, semaphores,
       serverSide, clientSide
  <2>7. QED
    BY <2>1, <2>2, <2>3, <2>4, <2>5, <2>6 DEF TurnsInv
<1>2. ASSUME SrvInit PROVE TurnsInv'
  <2>1. TypeOK'
    <3>1. sem' \in [Sems -> Nat] /\ undo' = undo
      BY <1>2, LetSemaphore DEF SrvInit, Sems, TypeOK
    <3>2. QED
      BY <1>2, <3>1 DEF SrvInit, TypeOK, SrvLabels, CltLabels, serverSide, clientSide
  <2>2. NoUndo'
    BY <1>2 DEF SrvInit, Let, NoUndo, semaphores, serverSide, clientSide
  <2>3. OneConnected'
    BY <1>2 DEF SrvInit, Let, TypeOK, OneConnected, Connected, Sems, ServerTurn, Zero,
       semaphores, serverSide, clientSide
  <2>4. NoneGarbled'
    BY <1>2 DEF SrvInit, Let, TypeOK, NoneGarbled, ServerTurn, ClientTurn, Requested,
       semaphores, serverSide, clientSide
  <2>5. ServerTurn'
    BY <1>2 DEF SrvInit, Let, TypeOK, OneConnected, Connected, Sems, Zero, ServerTurn,
       ClientTurn, Requested, Up, Quiet, Granted, Asked, QuietOrDown, semaphores,
       serverSide, clientSide
  <2>6. ASSUME NEW q \in Procs PROVE ClientTurn(q)'
    BY <1>2 DEF SrvInit, Let, TypeOK, OneConnected, Connected, Sems, Zero, ServerTurn,
       ClientTurn, Requested, Up, Quiet, Granted, Asked, QuietOrDown, semaphores,
       serverSide, clientSide
  <2>7. QED
    BY <2>1, <2>2, <2>3, <2>4, <2>5, <2>6 DEF TurnsInv
<1>3. ASSUME SrvConnect PROVE TurnsInv'
  <2>1. TypeOK'
    <3>1. sem' \in [Sems -> Nat] /\ undo' = undo
      BY <1>3, LetSemaphore DEF SrvConnect, Sems, TypeOK
    <3>2. QED
      BY <1>3, <3>1 DEF SrvConnect, TypeOK, SrvLabels, CltLabels, serverSide, clientSide
  <2>2. NoUndo'
    BY <1>3 DEF SrvConnect, Let, NoUndo, semaphores, serverSide, clientSide
  <2>3. OneConnected'
    BY <1>3 DEF SrvConnect, Let, TypeOK, OneConnected, Connected, Sems, ServerTurn,
       Zero, semaphores, serverSide, clientSide
  <2>4. NoneGarbled'
    BY <1>3 DEF SrvConnect, Let, TypeOK, NoneGarbled, ServerTurn, ClientTurn,
       Requested, semaphores, serverSide, clientSide
  <2>5. ServerTurn'
    BY <1>3 DEF SrvConnect, Let, TypeOK, OneConnected, Connected, Sems, Zero,
       ServerTurn, ClientTurn, Requested, Up, Quiet, Granted, Asked, QuietOrDown,
       semaphores, serverSide, clientSide
  <2>6. ASSUME NEW q \in Procs PROVE ClientTurn(q)'
    BY <1>3 DEF SrvConnect, Let, TypeOK, OneConnected, Connected, Sems, Zero,
       ServerTurn, ClientTurn, Requested, Up, Quiet, Granted, Asked, QuietOrDown,
       semaphores, serverSide, clientSide
  <2>7. QED
    BY <2>1, <2>2, <2>3, <2>4, <2>5, <2>6 DEF TurnsInv
<1>4. ASSUME SrvRecv PROVE TurnsInv'
  <2>1. TypeOK'
    <3>1. sem' \in [Sems -> Nat] /\ undo' = undo
      BY <1>4, StopSemaphore DEF SrvRecv, Sems, TypeOK
    <3>2. QED
      BY <1>4, <3>1 DEF SrvRecv, TypeOK, SrvLabels, CltLabels, serverSide, clientSide
  <2>2. NoUndo'
    BY <1>4 DEF SrvRecv, Stop, NoUndo, semaphores, serverSide, clientSide
  <2>3. OneConnected'
    BY <1>4 DEF SrvRecv, Stop, TypeOK, OneConnected, Connected, Sems, ServerTurn,
       Zero, semaphores, serverSide, clientSide
  <2>4. NoneGarbled'
    BY <1>4 DEF SrvRecv, Stop, TypeOK, NoneGarbled, ServerTurn, ClientTurn, Requested,
       semaphores, serverSide, clientSide
  <2>5. ServerTurn'
    BY <1>4 DEF SrvRecv, Stop, TypeOK, OneConnected, Connected, Sems, Zero,
       ServerTurn, ClientTurn, Requested, Up, Quiet, Granted, Asked, QuietOrDown,
       semaphores, serverSide, clientSide
  <2>6. ASSUME NEW q \in Procs PROVE ClientTurn(q)'
    BY <1>4 DEF SrvRecv, Stop, TypeOK, OneConnected, Connected, Sems, Zero,
       ServerTurn, ClientTurn, Requested, Up, Quiet, Granted, Asked, QuietOrDown,
       semaphores, serverSide, clientSide
  <2>7. QED
    BY <2>1, <2>2, <2>3, <2>4, <2>5, <2>6 DEF TurnsInv
<1>5. ASSUME SrvRead PROVE TurnsInv'
  <2>1. TypeOK'
    BY <1>5 DEF SrvRead, TypeOK, Contents, SrvLabels, CltLabels, Requested,
       ServerTurn, ClientTurn, Connected, semaphores, serverSide, clientSide
  <2>2. NoUndo'
    BY <1>5 DEF SrvRead, NoUndo, semaphores, serverSide, clientSide
  <2>3. OneConnected'
    BY <1>5 DEF SrvRead, TypeOK, OneConnected, Connected, Sems, ServerTurn, Zero,
       semaphores, serverSide, clientSide
  <2>4. NoneGarbled'
    BY <1>5 DEF SrvRead, TypeOK, NoneGarbled, ServerTurn, ClientTurn, Requested,
       semaphores, serverSide, clientSide
  <2>5. ServerTurn'
    BY <1>5 DEF SrvRead, TypeOK, OneConnected, Connected, Sems, Zero, ServerTurn,
       ClientTurn, Requested, Up, Quiet, Granted, Asked, QuietOrDown, semaphores,
       serverSide, clientSide
  <2>6. ASSUME NEW q \in Procs PROVE ClientTurn(q)'
    BY <1>5 DEF SrvRead, TypeOK, OneConnected, Connected, Sems, Zero, ServerTurn,
       ClientTurn, Requested, Up, Quiet, Granted, Asked, QuietOrDown, semaphores,
       serverSide, clientSide
  <2>7. QED
    BY <2>1, <2>2, <2>3, <2>4, <2>5, <2>6 DEF TurnsInv
<1>6. ASSUME SrvHandle PROVE TurnsInv'
  <2>1. TypeOK'
    <3> DEFINE m == serving.message
    <3>1. serving \in Requested => m \in Messages /\ m.name \in Names
      BY DEF Requested, Messages
    <3>2. shm = serving => m \in Messages /\ stock[m.name] \in Ints \cup {Absent}
      BY <1>6, <3>1 DEF SrvHandle, ServerTurn, TypeOK
    <3>3. shm = serving => /\ HoldsAfter(m, stock[m.name]) \in Ints \cup {Absent}
                          /\ ResponseTo(m, stock[m.name]) \in Responses
      BY <3>2, HandlerTypes
    <3>4. stock' \in [Names -> Ints \cup {Absent}]
      BY <1>6, <3>3 DEF SrvHandle, TypeOK
    <3>5. answer' \in Responses \cup {Pending}
      BY <1>6, <3>3 DEF SrvHandle, TypeOK
    <3>6. QED
      BY <1>6, <3>4, <3>5 DEF SrvHandle, TypeOK, SrvLabels, semaphores, clientSide
  <2>2. NoUndo'
    BY <1>6 DEF SrvHandle, NoUndo, semaphores, serverSide, clientSide
  <2>3. OneConnected'
    BY <1>6 DEF SrvHandle, TypeOK, OneConnected, Connected, Sems, ServerTurn, Zero,
       semaphores, serverSide, clientSide
  <2>4. NoneGarbled'
    BY <1>6 DEF SrvHandle, TypeOK, NoneGarbled, ServerTurn, ClientTurn, Requested,
       semaphores, serverSide, clientSide
  <2>5. ServerTurn'
    <3>1. srv' = "send" => answer' \in Responses
      BY <1>6, HandlerTypes DEF SrvHandle, ServerTurn, Requested, TypeOK, Messages
    <3>2. QED
      BY <1>6, <3>1 DEF SrvHandle, TypeOK, Sems, Zero, ServerTurn, Requested, Up,
         Quiet, QuietOrDown, semaphores, clientSide
  <2>6. ASSUME NEW q \in Procs PROVE ClientTurn(q)'
    BY <1>6 DEF SrvHandle, TypeOK, OneConnected, Connected, Sems, Zero, ServerTurn,
       ClientTurn, Requested, Up, Quiet, Granted, Asked, QuietOrDown, semaphores,
       serverSide, clientSide
  <2>7. QED
    BY <2>1, <2>2, <2>3, <2>4, <2>5, <2>6 DEF TurnsInv
<1>7. ASSUME SrvSend PROVE TurnsInv'
  <2>1. TypeOK'
    BY <1>7 DEF SrvSend, TypeOK, Contents, SrvLabels, CltLabels, Requested,
       ServerTurn, ClientTurn, Connected, semaphores, serverSide, clientSide
  <2>2. NoUndo'
    BY <1>7 DEF SrvSend, NoUndo, semaphores, serverSide, clientSide
  <2>3. OneConnected'
    BY <1>7 DEF SrvSend, TypeOK, OneConnected, Connected, Sems, ServerTurn, Zero,
       semaphores, serverSide, clientSide
  <2>4. NoneGarbled'
    BY <1>7 DEF SrvSend, TypeOK, NoneGarbled, ServerTurn, ClientTurn, Requested,
       semaphores, serverSide, clientSide
  <2>5. ServerTurn'
    BY <1>7 DEF SrvSend, TypeOK, OneConnected, Connected, Sems, Zero, ServerTurn,
       ClientTurn, Requested, Up, Quiet, Granted, Asked, QuietOrDown, semaphores,
       serverSide, clientSide
  <2>6. ASSUME NEW q \in Procs PROVE ClientTurn(q)'
    BY <1>7 DEF SrvSend, TypeOK, OneConnected, Connected, Sems, Zero, ServerTurn,
       ClientTurn, Requested, Up, Quiet, Granted, Asked, QuietOrDown, semaphores,
       serverSide, clientSide
  <2>7. QED
    BY <2>1, <2>2, <2>3, <2>4, <2>5, <2>6 DEF TurnsInv
<1>8. ASSUME SrvPost PROVE TurnsInv'
  <2>1. TypeOK'
    <3>1. sem' \in [Sems -> Nat] /\ undo' = undo
      BY <1>8, LetSemaphore DEF SrvPost, Sems, TypeOK
    <3>2. QED
      BY <1>8, <3>1 DEF SrvPost, TypeOK, SrvLabels, CltLabels, serverSide, clientSide
  <2>2. NoUndo'
    BY <1>8 DEF SrvPost, Let, NoUndo, semaphores, serverSide, clientSide
  <2>3. OneConnected'
    BY <1>8 DEF SrvPost, Let, TypeOK, OneConnected, Connected, Sems, ServerTurn, Zero,
       semaphores, serverSide, clientSide
  <2>4. NoneGarbled'
    BY <1>8 DEF SrvPost, Let, TypeOK, NoneGarbled, ServerTurn, ClientTurn, Requested,
       semaphores, serverSide, clientSide
  <2>5. ServerTurn'
    BY <1>8 DEF SrvPost, Let, TypeOK, OneConnected, Connected, Sems, Zero, ServerTurn,
       ClientTurn, Requested, Up, Quiet, Granted, Asked, QuietOrDown, semaphores,
       serverSide, clientSide
  <2>6. ASSUME NEW q \in Procs PROVE ClientTurn(q)'
    BY <1>8 DEF SrvPost, Let, TypeOK, OneConnected, Connected, Sems, Zero, ServerTurn,
       ClientTurn, Requested, Up, Quiet, Granted, Asked, QuietOrDown, semaphores,
       serverSide, clientSide
  <2>7. QED
    BY <2>1, <2>2, <2>3, <2>4, <2>5, <2>6 DEF TurnsInv
<1>9. ASSUME SrvStop PROVE TurnsInv'
  <2>1. TypeOK'
    <3>1. faults' \in 0 .. MaxFaults
      BY <1>9 DEF SrvStop, TypeOK
    <3>2. srv' \in SrvLabels /\ live' \in BOOLEAN
      BY <1>9 DEF SrvStop, SrvLabels
    <3>3. QED
      BY <1>9, <3>1, <3>2 DEF SrvStop, TypeOK, SrvLabels, CltLabels, serverSide,
         clientSide, semaphores
  <2>2. NoUndo'
    BY <1>9 DEF SrvStop, NoUndo, semaphores, serverSide, clientSide
  <2>3. OneConnected'
    BY <1>9 DEF SrvStop, TypeOK, OneConnected, Connected, Sems, ServerTurn, Zero,
       semaphores, serverSide, clientSide
  <2>4. NoneGarbled'
    BY <1>9 DEF SrvStop, TypeOK, NoneGarbled, ServerTurn, ClientTurn, Requested,
       semaphores, serverSide, clientSide
  <2>5. ServerTurn'
    BY <1>9 DEF SrvStop, TypeOK, OneConnected, Connected, Sems, Zero, ServerTurn,
       ClientTurn, Requested, Up, Quiet, Granted, Asked, QuietOrDown, semaphores,
       serverSide, clientSide
  <2>6. ASSUME NEW q \in Procs PROVE ClientTurn(q)'
    BY <1>9 DEF SrvStop, TypeOK, OneConnected, Connected, Sems, Zero, ServerTurn,
       ClientTurn, Requested, Up, Quiet, Granted, Asked, QuietOrDown, semaphores,
       serverSide, clientSide
  <2>7. QED
    BY <2>1, <2>2, <2>3, <2>4, <2>5, <2>6 DEF TurnsInv
<1>10. ASSUME KillServer PROVE TurnsInv'
  <2>1. Undo(Server) => UNCHANGED <<sem, undo>>
    BY UndoNothing
  <2>2. TypeOK'
    BY <1>10, <2>1 DEF KillServer, TypeOK, Contents, SrvLabels, CltLabels, Requested,
       ServerTurn, ClientTurn, Connected, semaphores, serverSide, clientSide
  <2>3. NoUndo'
    BY <1>10, <2>1 DEF KillServer, NoUndo, semaphores, serverSide, clientSide
  <2>4. OneConnected'
    BY <1>10, <2>1 DEF KillServer, TypeOK, OneConnected, Connected, Sems, ServerTurn,
       Zero, semaphores, serverSide, clientSide
  <2>5. NoneGarbled'
    BY <1>10, <2>1 DEF KillServer, TypeOK, NoneGarbled, ServerTurn, ClientTurn,
       Requested, semaphores, serverSide, clientSide
  <2>6. ServerTurn'
    BY <1>10, <2>1 DEF KillServer, TypeOK, OneConnected, Connected, Sems, Zero,
       ServerTurn, ClientTurn, Requested, Up, Quiet, Granted, Asked, QuietOrDown,
       semaphores, serverSide, clientSide
  <2>7. ASSUME NEW q \in Procs PROVE ClientTurn(q)'
    BY <1>10, <2>1 DEF KillServer, TypeOK, OneConnected, Connected, Sems, Zero,
       ServerTurn, ClientTurn, Requested, Up, Quiet, Granted, Asked, QuietOrDown,
       semaphores, serverSide, clientSide
  <2>8. QED
    BY <2>2, <2>3, <2>4, <2>5, <2>6, <2>7 DEF TurnsInv
<1>11. ASSUME NEW p \in Procs, Call(p) PROVE TurnsInv'
  <2>1. TypeOK'
    BY <1>11 DEF Call, Goto, TypeOK, Contents, SrvLabels, CltLabels, Requested,
       ServerTurn, ClientTurn, Connected, semaphores, serverSide, clientSide
  <2>2. NoUndo'
    BY <1>11 DEF Call, Goto, NoUndo, semaphores, serverSide, clientSide
  <2>3. OneConnected'
    BY <1>11 DEF Call, Goto, TypeOK, OneConnected, Connected, Sems, ServerTurn, Zero,
       semaphores, serverSide, clientSide
  <2>4. NoneGarbled'
    BY <1>11 DEF Call, Goto, TypeOK, NoneGarbled, ServerTurn, ClientTurn, Requested,
       semaphores, serverSide, clientSide
  <2>5. ServerTurn'
    BY <1>11 DEF Call, Goto, TypeOK, OneConnected, Connected, Sems, Zero, ServerTurn,
       ClientTurn, Requested, Up, Quiet, Granted, Asked, QuietOrDown, semaphores,
       serverSide, clientSide
  <2>6. ASSUME NEW q \in Procs PROVE ClientTurn(q)'
    BY <1>11 DEF Call, Goto, TypeOK, OneConnected, Connected, Sems, Zero, ServerTurn,
       ClientTurn, Requested, Up, Quiet, Granted, Asked, QuietOrDown, semaphores,
       serverSide, clientSide
  <2>7. QED
    BY <2>1, <2>2, <2>3, <2>4, <2>5, <2>6 DEF TurnsInv
<1>12. ASSUME NEW p \in Procs, CltConnect(p) PROVE TurnsInv'
  <2>1. Undo(p) => UNCHANGED <<sem, undo>>
    BY UndoNothing
  <2>2. TypeOK'
    <3>1. sem' \in [Sems -> Nat] /\ undo' = undo
      BY <1>12, <2>1, StopSemaphore DEF CltConnect, WithSem, Sems, TypeOK
    <3>2. QED
      BY <1>12, <2>1, <3>1 DEF CltConnect, WithSem, Goto, TypeOK, SrvLabels,
         CltLabels, serverSide, clientSide
  <2>3. NoUndo'
    BY <1>12, <2>1 DEF CltConnect, WithSem, Stop, Goto, NoUndo, semaphores,
       serverSide, clientSide
  <2>4. OneConnected'
    BY <1>12, <2>1 DEF CltConnect, WithSem, Stop, Goto, TypeOK, OneConnected,
       Connected, Sems, ServerTurn, Zero, semaphores, serverSide, clientSide
  <2>5. NoneGarbled'
    BY <1>12, <2>1 DEF CltConnect, WithSem, Stop, Goto, TypeOK, NoneGarbled,
       ServerTurn, ClientTurn, Requested, semaphores, serverSide, clientSide
  <2>6. ServerTurn'
    BY <1>12, <2>1 DEF CltConnect, WithSem, Stop, Goto, TypeOK, OneConnected,
       Connected, Sems, Zero, ServerTurn, ClientTurn, Requested, Up, Quiet, Granted,
       Asked, QuietOrDown, semaphores, serverSide, clientSide
  <2>7. ASSUME NEW q \in Procs PROVE ClientTurn(q)'
    BY <1>12, <2>1 DEF CltConnect, WithSem, Stop, Goto, TypeOK, OneConnected,
       Connected, Sems, Zero, ServerTurn, ClientTurn, Requested, Up, Quiet, Granted,
       Asked, QuietOrDown, semaphores, serverSide, clientSide
  <2>8. QED
    BY <2>2, <2>3, <2>4, <2>5, <2>6, <2>7 DEF TurnsInv
<1>13. ASSUME NEW p \in Procs, CltReady(p) PROVE TurnsInv'
  <2>1. Undo(p) => UNCHANGED <<sem, undo>>
    BY UndoNothing
  <2>2. TypeOK'
    <3>1. sem' \in [Sems -> Nat] /\ undo' = undo
      BY <1>13, <2>1, StopSemaphore DEF CltReady, WithSem, Sems, TypeOK
    <3>2. QED
      BY <1>13, <2>1, <3>1 DEF CltReady, WithSem, Goto, TypeOK, SrvLabels, CltLabels,
         serverSide, clientSide
  <2>3. NoUndo'
    BY <1>13, <2>1 DEF CltReady, WithSem, Stop, Goto, NoUndo, semaphores, serverSide,
       clientSide
  <2>4. OneConnected'
    BY <1>13, <2>1 DEF CltReady, WithSem, Stop, Goto, TypeOK, OneConnected, Connected,
       Sems, ServerTurn, Zero, semaphores, serverSide, clientSide
  <2>5. NoneGarbled'
    BY <1>13, <2>1 DEF CltReady, WithSem, Stop, Goto, TypeOK, NoneGarbled, ServerTurn,
       ClientTurn, Requested, semaphores, serverSide, clientSide
  <2>6. ServerTurn'
    BY <1>13, <2>1 DEF CltReady, WithSem, Stop, Goto, TypeOK, OneConnected, Connected,
       Sems, Zero, ServerTurn, ClientTurn, Requested, Up, Quiet, Granted, Asked,
       QuietOrDown, semaphores, serverSide, clientSide
  <2>7. ASSUME NEW q \in Procs PROVE ClientTurn(q)'
    BY <1>13, <2>1 DEF CltReady, WithSem, Stop, Goto, TypeOK, OneConnected, Connected,
       Sems, Zero, ServerTurn, ClientTurn, Requested, Up, Quiet, Granted, Asked,
       QuietOrDown, semaphores, serverSide, clientSide
  <2>8. QED
    BY <2>2, <2>3, <2>4, <2>5, <2>6, <2>7 DEF TurnsInv
<1>14. ASSUME NEW p \in Procs, CltWrite(p) PROVE TurnsInv'
  <2>1. TypeOK'
    BY <1>14 DEF CltWrite, Goto, TypeOK, Contents, SrvLabels, CltLabels, Requested,
       ServerTurn, ClientTurn, Connected, semaphores, serverSide, clientSide
  <2>2. NoUndo'
    BY <1>14 DEF CltWrite, Goto, NoUndo, semaphores, serverSide, clientSide
  <2>3. OneConnected'
    BY <1>14 DEF CltWrite, Goto, TypeOK, OneConnected, Connected, Sems, ServerTurn,
       Zero, semaphores, serverSide, clientSide
  <2>4. NoneGarbled'
    BY <1>14 DEF CltWrite, Goto, TypeOK, NoneGarbled, ServerTurn, ClientTurn,
       Requested, semaphores, serverSide, clientSide
  <2>5. ServerTurn'
    BY <1>14 DEF CltWrite, Goto, TypeOK, OneConnected, Connected, Sems, Zero,
       ServerTurn, ClientTurn, Requested, Up, Quiet, Granted, Asked, QuietOrDown,
       semaphores, serverSide, clientSide
  <2>6. ASSUME NEW q \in Procs PROVE ClientTurn(q)'
    BY <1>14 DEF CltWrite, Goto, TypeOK, OneConnected, Connected, Sems, Zero,
       ServerTurn, ClientTurn, Requested, Up, Quiet, Granted, Asked, QuietOrDown,
       semaphores, serverSide, clientSide
  <2>7. QED
    BY <2>1, <2>2, <2>3, <2>4, <2>5, <2>6 DEF TurnsInv
<1>15. ASSUME NEW p \in Procs, CltPost(p) PROVE TurnsInv'
  <2>1. Undo(p) => UNCHANGED <<sem, undo>>
    BY UndoNothing
  <2>2. TypeOK'
    <3>1. sem' \in [Sems -> Nat] /\ undo' = undo
      BY <1>15, <2>1, LetSemaphore DEF CltPost, WithSem, Sems, TypeOK
    <3>2. QED
      BY <1>15, <2>1, <3>1 DEF CltPost, WithSem, Goto, TypeOK, SrvLabels, CltLabels,
         serverSide, clientSide
  <2>3. NoUndo'
    BY <1>15, <2>1 DEF CltPost, WithSem, Let, Goto, NoUndo, semaphores, serverSide,
       clientSide
  <2>4. OneConnected'
    BY <1>15, <2>1 DEF CltPost, WithSem, Let, Goto, TypeOK, OneConnected, Connected,
       Sems, ServerTurn, Zero, semaphores, serverSide, clientSide
  <2>5. NoneGarbled'
    BY <1>15, <2>1 DEF CltPost, WithSem, Let, Goto, TypeOK, NoneGarbled, ServerTurn,
       ClientTurn, Requested, semaphores, serverSide, clientSide
  <2>6. ServerTurn'
    BY <1>15, <2>1 DEF CltPost, WithSem, Let, Goto, TypeOK, OneConnected, Connected,
       Sems, Zero, ServerTurn, ClientTurn, Requested, Up, Quiet, Granted, Asked,
       QuietOrDown, semaphores, serverSide, clientSide
  <2>7. ASSUME NEW q \in Procs PROVE ClientTurn(q)'
    BY <1>15, <2>1 DEF CltPost, WithSem, Let, Goto, TypeOK, OneConnected, Connected,
       Sems, Zero, ServerTurn, ClientTurn, Requested, Up, Quiet, Granted, Asked,
       QuietOrDown, semaphores, serverSide, clientSide
  <2>8. QED
    BY <2>2, <2>3, <2>4, <2>5, <2>6, <2>7 DEF TurnsInv
<1>16. ASSUME NEW p \in Procs, CltRecv(p) PROVE TurnsInv'
  <2>1. Undo(p) => UNCHANGED <<sem, undo>>
    BY UndoNothing
  <2>2. TypeOK'
    <3>1. sem' \in [Sems -> Nat] /\ undo' = undo
      BY <1>16, <2>1, StopSemaphore DEF CltRecv, WithSem, Sems, TypeOK
    <3>2. QED
      BY <1>16, <2>1, <3>1 DEF CltRecv, WithSem, Goto, TypeOK, SrvLabels, CltLabels,
         serverSide, clientSide
  <2>3. NoUndo'
    BY <1>16, <2>1 DEF CltRecv, WithSem, Stop, Goto, NoUndo, semaphores, serverSide,
       clientSide
  <2>4. OneConnected'
    BY <1>16, <2>1 DEF CltRecv, WithSem, Stop, Goto, TypeOK, OneConnected, Connected,
       Sems, ServerTurn, Zero, semaphores, serverSide, clientSide
  <2>5. NoneGarbled'
    BY <1>16, <2>1 DEF CltRecv, WithSem, Stop, Goto, TypeOK, NoneGarbled, ServerTurn,
       ClientTurn, Requested, semaphores, serverSide, clientSide
  <2>6. ServerTurn'
    BY <1>16, <2>1 DEF CltRecv, WithSem, Stop, Goto, TypeOK, OneConnected, Connected,
       Sems, Zero, ServerTurn, ClientTurn, Requested, Up, Quiet, Granted, Asked,
       QuietOrDown, semaphores, serverSide, clientSide
  <2>7. ASSUME NEW q \in Procs PROVE ClientTurn(q)'
    BY <1>16, <2>1 DEF CltRecv, WithSem, Stop, Goto, TypeOK, OneConnected, Connected,
       Sems, Zero, ServerTurn, ClientTurn, Requested, Up, Quiet, Granted, Asked,
       QuietOrDown, semaphores, serverSide, clientSide
  <2>8. QED
    BY <2>2, <2>3, <2>4, <2>5, <2>6, <2>7 DEF TurnsInv
<1>17. ASSUME NEW p \in Procs, CltRead(p) PROVE TurnsInv'
  <2>1. TypeOK'
    <3>1. resp' \in [Procs -> Responses \cup {Pending}]
      BY <1>17 DEF CltRead, TypeOK
    <3>2. QED
      BY <1>17, <3>1 DEF CltRead, Goto, TypeOK, SrvLabels, CltLabels, serverSide,
         clientSide, semaphores
  <2>2. NoUndo'
    BY <1>17 DEF CltRead, Goto, NoUndo, semaphores, serverSide, clientSide
  <2>3. OneConnected'
    BY <1>17 DEF CltRead, Goto, TypeOK, OneConnected, Connected, Sems, ServerTurn,
       Zero, semaphores, serverSide, clientSide
  <2>4. NoneGarbled'
    BY <1>17 DEF CltRead, Goto, TypeOK, NoneGarbled, ServerTurn, ClientTurn,
       Requested, semaphores, serverSide, clientSide
  <2>5. ServerTurn'
    BY <1>17 DEF CltRead, Goto, TypeOK, OneConnected, Connected, Sems, Zero,
       ServerTurn, ClientTurn, Requested, Up, Quiet, Granted, Asked, QuietOrDown,
       semaphores, serverSide, clientSide
  <2>6. ASSUME NEW q \in Procs PROVE ClientTurn(q)'
    BY <1>17 DEF CltRead, Goto, TypeOK, OneConnected, Connected, Sems, Zero,
       ServerTurn, ClientTurn, Requested, Up, Quiet, Granted, Asked, QuietOrDown,
       semaphores, serverSide, clientSide
  <2>7. QED
    BY <2>1, <2>2, <2>3, <2>4, <2>5, <2>6 DEF TurnsInv
<1>18. ASSUME NEW p \in Procs, CltBody(p) PROVE TurnsInv'
  <2>1. TypeOK'
    BY <1>18 DEF CltBody, Goto, TypeOK, Contents, SrvLabels, CltLabels, Requested,
       ServerTurn, ClientTurn, Connected, semaphores, serverSide, clientSide
  <2>2. NoUndo'
    BY <1>18 DEF CltBody, Goto, NoUndo, semaphores, serverSide, clientSide
  <2>3. OneConnected'
    BY <1>18 DEF CltBody, Goto, TypeOK, OneConnected, Connected, Sems, ServerTurn,
       Zero, semaphores, serverSide, clientSide
  <2>4. NoneGarbled'
    BY <1>18 DEF CltBody, Goto, TypeOK, NoneGarbled, ServerTurn, ClientTurn,
       Requested, semaphores, serverSide, clientSide
  <2>5. ServerTurn'
    BY <1>18 DEF CltBody, Goto, TypeOK, OneConnected, Connected, Sems, Zero,
       ServerTurn, ClientTurn, Requested, Up, Quiet, Granted, Asked, QuietOrDown,
       semaphores, serverSide, clientSide
  <2>6. ASSUME NEW q \in Procs PROVE ClientTurn(q)'
    BY <1>18 DEF CltBody, Goto, TypeOK, OneConnected, Connected, Sems, Zero,
       ServerTurn, ClientTurn, Requested, Up, Quiet, Granted, Asked, QuietOrDown,
       semaphores, serverSide, clientSide
  <2>7. QED
    BY <2>1, <2>2, <2>3, <2>4, <2>5, <2>6 DEF TurnsInv
<1>19. ASSUME NEW p \in Procs, CltWipe(p) PROVE TurnsInv'
  <2>1. TypeOK'
    BY <1>19 DEF CltWipe, Goto, TypeOK, Contents, SrvLabels, CltLabels, Requested,
       ServerTurn, ClientTurn, Connected, semaphores, serverSide, clientSide
  <2>2. NoUndo'
    BY <1>19 DEF CltWipe, Goto, NoUndo, semaphores, serverSide, clientSide
  <2>3. OneConnected'
    BY <1>19 DEF CltWipe, Goto, TypeOK, OneConnected, Connected, Sems, ServerTurn,
       Zero, semaphores, serverSide, clientSide
  <2>4. NoneGarbled'
    BY <1>19 DEF CltWipe, Goto, TypeOK, NoneGarbled, ServerTurn, ClientTurn,
       Requested, semaphores, serverSide, clientSide
  <2>5. ServerTurn'
    BY <1>19 DEF CltWipe, Goto, TypeOK, OneConnected, Connected, Sems, Zero,
       ServerTurn, ClientTurn, Requested, Up, Quiet, Granted, Asked, QuietOrDown,
       semaphores, serverSide, clientSide
  <2>6. ASSUME NEW q \in Procs PROVE ClientTurn(q)'
    BY <1>19 DEF CltWipe, Goto, TypeOK, OneConnected, Connected, Sems, Zero,
       ServerTurn, ClientTurn, Requested, Up, Quiet, Granted, Asked, QuietOrDown,
       semaphores, serverSide, clientSide
  <2>7. QED
    BY <2>1, <2>2, <2>3, <2>4, <2>5, <2>6 DEF TurnsInv
<1>20. ASSUME NEW p \in Procs, CltCheck(p) PROVE TurnsInv'
  <2>1. Undo(p) => UNCHANGED <<sem, undo>>
    BY UndoNothing
  <2>2. TypeOK'
    BY <1>20, <2>1 DEF CltCheck, Goto, TypeOK, Contents, SrvLabels, CltLabels, Requested,
       ServerTurn, ClientTurn, Connected, semaphores, serverSide, clientSide
  <2>3. NoUndo'
    BY <1>20, <2>1 DEF CltCheck, Goto, NoUndo, semaphores, serverSide, clientSide
  <2>4. OneConnected'
    BY <1>20, <2>1 DEF CltCheck, Goto, TypeOK, OneConnected, Connected, Sems, ServerTurn,
       Zero, semaphores, serverSide, clientSide
  <2>5. NoneGarbled'
    BY <1>20, <2>1 DEF CltCheck, Goto, TypeOK, NoneGarbled, ServerTurn, ClientTurn,
       Requested, semaphores, serverSide, clientSide
  <2>6. ServerTurn'
    BY <1>20, <2>1 DEF CltCheck, Goto, TypeOK, OneConnected, Connected, Sems, Zero,
       ServerTurn, ClientTurn, Requested, Up, Quiet, Granted, Asked, QuietOrDown,
       semaphores, serverSide, clientSide
  <2>7. ASSUME NEW q \in Procs PROVE ClientTurn(q)'
    BY <1>20, <2>1 DEF CltCheck, Goto, TypeOK, OneConnected, Connected, Sems, Zero,
       ServerTurn, ClientTurn, Requested, Up, Quiet, Granted, Asked, QuietOrDown,
       semaphores, serverSide, clientSide
  <2>8. QED
    BY <2>2, <2>3, <2>4, <2>5, <2>6, <2>7 DEF TurnsInv
<1>21. ASSUME NEW p \in Procs, CltRelease(p) PROVE TurnsInv'
  <2>1. Undo(p) => UNCHANGED <<sem, undo>>
    BY UndoNothing
  <2>2. TypeOK'
    <3>1. sem' \in [Sems -> Nat] /\ undo' = undo
      BY <1>21, <2>1, LetSemaphore DEF CltRelease, Sems, TypeOK
    <3>2. request[p] \in Requests
      BY <1>21 DEF CltRelease, ClientTurn, Connected
    <3>3. GoesOn(request[p], rpc[p], resp[p]) => AddMessage(request[p]) \in Messages
      BY <3>2, MessageTypes DEF GoesOn, Refused
    <3>4. /\ rpc' \in [Procs -> Messages \cup {NoMessage}]
         /\ request' \in [Procs -> Requests \cup {Idle}]
         /\ resp' \in [Procs -> Responses \cup {Pending}]
         /\ pc' \in [Procs -> CltLabels]
      BY <1>21, <3>2, <3>3 DEF CltRelease, NextRound, Goto, TypeOK, CltLabels
    <3>5. QED
      BY <1>21, <3>1, <3>4 DEF CltRelease, TypeOK, serverSide
  <2>3. NoUndo'
    BY <1>21, <2>1 DEF CltRelease, Let, NextRound, Goto, NoUndo, semaphores,
       serverSide, clientSide
  <2>4. OneConnected'
    <3>1. sem["CONN"] \in Nat /\ ~Connected(p)' /\ \A q \in Procs \ {p} : Connected(q)' <=> Connected(q)
      BY <1>21 DEF CltRelease, NextRound, Goto, TypeOK, Connected, Sems
    <3>2. \A q \in Procs : ~Connected(q)'
      BY <1>21, <3>1 DEF CltRelease, OneConnected, Connected
    <3>3. sem'["CONN"] \in {0, 1}
      BY <1>21, <2>1, <3>1 DEF CltRelease, Let, TypeOK, OneConnected, Connected, Sems
    <3>4. QED
      BY <3>2, <3>3 DEF OneConnected
  <2>5. NoneGarbled'
    BY <1>21, <2>1 DEF CltRelease, Let, NextRound, Goto, TypeOK, NoneGarbled,
       ServerTurn, ClientTurn, Requested, semaphores, serverSide, clientSide
  <2>6. ServerTurn'
    BY <1>21, <2>1 DEF CltRelease, Let, NextRound, Goto, TypeOK, OneConnected,
       Connected, Sems, Zero, ServerTurn, ClientTurn, Requested, Up, Quiet, Granted,
       Asked, QuietOrDown, semaphores, serverSide, clientSide
  <2>7. ASSUME NEW q \in Procs PROVE ClientTurn(q)'
    <3>1. ASSUME q # p PROVE pc'[q] = pc[q] /\ ~Connected(q)
      BY <1>21, <3>1 DEF CltRelease, NextRound, Goto, TypeOK, OneConnected, Connected
    <3>2. ASSUME q # p PROVE ClientTurn(q)'
      BY <1>21, <3>1, <3>2 DEF CltRelease, NextRound, TypeOK, ClientTurn, Connected
    <3>3. ASSUME pc'[p] = "connect" PROVE rpc'[p] \in Messages /\ request'[p] \in Requests
      <4>1. request[p] \in Requests
        BY <1>21 DEF CltRelease, ClientTurn, Connected
      <4>2. GoesOn(request[p], rpc[p], resp[p]) => AddMessage(request[p]) \in Messages
        BY <4>1, MessageTypes DEF GoesOn, Refused
      <4>3. QED
        BY <1>21, <3>3, <4>1, <4>2 DEF CltRelease, NextRound, Goto, TypeOK
    <3>4. pc'[p] \in {"connect", "idle", "exited"}
      BY <1>21 DEF CltRelease, NextRound, Goto, TypeOK
    <3>5. ClientTurn(p)'
      BY <3>3, <3>4 DEF ClientTurn, Connected
    <3>6. QED
      BY <3>2, <3>5
  <2>8. QED
    BY <2>2, <2>3, <2>4, <2>5, <2>6, <2>7 DEF TurnsInv
<1>22. ASSUME NEW p \in Procs, Quit(p) PROVE TurnsInv'
  <2>1. Undo(p) => UNCHANGED <<sem, undo>>
    BY UndoNothing
  <2>2. TypeOK'
    BY <1>22, <2>1 DEF Quit, Goto, TypeOK, Contents, SrvLabels, CltLabels, Requested,
       ServerTurn, ClientTurn, Connected, semaphores, serverSide, clientSide
  <2>3. NoUndo'
    BY <1>22, <2>1 DEF Quit, Goto, NoUndo, semaphores, serverSide, clientSide
  <2>4. OneConnected'
    BY <1>22, <2>1 DEF Quit, Goto, TypeOK, OneConnected, Connected, Sems, ServerTurn,
       Zero, semaphores, serverSide, clientSide
  <2>5. NoneGarbled'
    BY <1>22, <2>1 DEF Quit, Goto, TypeOK, NoneGarbled, ServerTurn, ClientTurn,
       Requested, semaphores, serverSide, clientSide
  <2>6. ServerTurn'
    BY <1>22, <2>1 DEF Quit, Goto, TypeOK, OneConnected, Connected, Sems, Zero,
       ServerTurn, ClientTurn, Requested, Up, Quiet, Granted, Asked, QuietOrDown,
       semaphores, serverSide, clientSide
  <2>7. ASSUME NEW q \in Procs PROVE ClientTurn(q)'
    BY <1>22, <2>1 DEF Quit, Goto, TypeOK, OneConnected, Connected, Sems, Zero,
       ServerTurn, ClientTurn, Requested, Up, Quiet, Granted, Asked, QuietOrDown,
       semaphores, serverSide, clientSide
  <2>8. QED
    BY <2>2, <2>3, <2>4, <2>5, <2>6, <2>7 DEF TurnsInv
<1>23. ASSUME NEW p \in Procs, Restart(p) PROVE TurnsInv'
  <2>1. TypeOK'
    BY <1>23 DEF Restart, Goto, TypeOK, Contents, SrvLabels, CltLabels, Requested,
       ServerTurn, ClientTurn, Connected, semaphores, serverSide, clientSide
  <2>2. NoUndo'
    BY <1>23 DEF Restart, Goto, NoUndo, semaphores, serverSide, clientSide
  <2>3. OneConnected'
    BY <1>23 DEF Restart, Goto, TypeOK, OneConnected, Connected, Sems, ServerTurn,
       Zero, semaphores, serverSide, clientSide
  <2>4. NoneGarbled'
    BY <1>23 DEF Restart, Goto, TypeOK, NoneGarbled, ServerTurn, ClientTurn,
       Requested, semaphores, serverSide, clientSide
  <2>5. ServerTurn'
    BY <1>23 DEF Restart, Goto, TypeOK, OneConnected, Connected, Sems, Zero,
       ServerTurn, ClientTurn, Requested, Up, Quiet, Granted, Asked, QuietOrDown,
       semaphores, serverSide, clientSide
  <2>6. ASSUME NEW q \in Procs PROVE ClientTurn(q)'
    BY <1>23 DEF Restart, Goto, TypeOK, OneConnected, Connected, Sems, Zero,
       ServerTurn, ClientTurn, Requested, Up, Quiet, Granted, Asked, QuietOrDown,
       semaphores, serverSide, clientSide
  <2>7. QED
    BY <2>1, <2>2, <2>3, <2>4, <2>5, <2>6 DEF TurnsInv
<1>24. ASSUME NEW p \in Procs, KillClient(p) PROVE TurnsInv'
  <2>1. Undo(p) => UNCHANGED <<sem, undo>>
    BY UndoNothing
  <2>2. TypeOK'
    BY <1>24, <2>1 DEF KillClient, Goto, TypeOK, Contents, SrvLabels, CltLabels,
       Requested, ServerTurn, ClientTurn, Connected, semaphores, serverSide,
       clientSide
  <2>3. NoUndo'
    BY <1>24, <2>1 DEF KillClient, Goto, NoUndo, semaphores, serverSide, clientSide
  <2>4. OneConnected'
    BY <1>24, <2>1 DEF KillClient, Goto, TypeOK, OneConnected, Connected, Sems,
       ServerTurn, Zero, semaphores, serverSide, clientSide
  <2>5. NoneGarbled'
    BY <1>24, <2>1 DEF KillClient, Goto, TypeOK, NoneGarbled, ServerTurn, ClientTurn,
       Requested, semaphores, serverSide, clientSide
  <2>6. ServerTurn'
    BY <1>24, <2>1 DEF KillClient, Goto, TypeOK, OneConnected, Connected, Sems, Zero,
       ServerTurn, ClientTurn, Requested, Up, Quiet, Granted, Asked, QuietOrDown,
       semaphores, serverSide, clientSide
  <2>7. ASSUME NEW q \in Procs PROVE ClientTurn(q)'
    BY <1>24, <2>1 DEF KillClient, Goto, TypeOK, OneConnected, Connected, Sems, Zero,
       ServerTurn, ClientTurn, Requested, Up, Quiet, Granted, Asked, QuietOrDown,
       semaphores, serverSide, clientSide
  <2>8. QED
    BY <2>2, <2>3, <2>4, <2>5, <2>6, <2>7 DEF TurnsInv
<1>25. CASE UNCHANGED vars
  BY <1>25 DEF vars, TurnsInv, TypeOK, NoUndo, OneConnected, NoneGarbled, Connected,
     ServerTurn, ClientTurn, Up, Quiet, Granted, Asked, QuietOrDown, semaphores,
     serverSide, clientSide
<1>26. QED
  BY <1>1, <1>2, <1>3, <1>4, <1>5, <1>6, <1>7, <1>8, <1>9, <1>10, <1>11, <1>12, <1>13,
     <1>14, <1>15, <1>16, <1>17, <1>18, <1>19, <1>20, <1>21, <1>22, <1>23, <1>24, <1>25
  DEF Next, SrvStep, CltStep, UserStep

-----------------------------------------------------------------------------
\* The invariant holds before the server is started.
LEMMA InitInv == Init => ShmInv
  BY TurnsInit DEF ShmInv, Init, AnswerInv, RoundInv, InFlight, Answered

\* No message in the area is a response.
LEMMA MessageOrResponse == \A x \in Requested : x \notin Responses
<1> SUFFICES ASSUME NEW x \in Requested, x \in Responses PROVE FALSE
  OBVIOUS
<1>1. DOMAIN x = {"from", "message"}
  BY DEF Requested
<1>2. DOMAIN x = {"type", "code", "quantity"}
  BY DEF Responses
<1>3. QED
  BY <1>1, <1>2

\* What the server takes from the area and puts there stays the message, and
\* the answer, of the client that waits for it.
LEMMA StepInv == ASSUME ~SysV PROVE ShmInv /\ [Next]_vars => ShmInv'
<1> SUFFICES ASSUME ShmInv, [Next]_vars PROVE ShmInv'
  OBVIOUS
<1>1. TurnsInv'
  BY TurnsNext DEF ShmInv
<1>2. /\ TypeOK /\ NoUndo /\ OneConnected /\ NoneGarbled /\ ServerTurn /\ AnswerInv
      /\ \A q \in Procs : ClientTurn(q) /\ RoundInv(q)
  BY DEF ShmInv, TurnsInv
<1> DEFINE Kept == AnswerInv' /\ \A q \in Procs : RoundInv(q)'
<1>3. ASSUME SrvStart PROVE Kept
  <2>1. AnswerInv'
    BY <1>2, <1>3 DEF SrvStart, AnswerInv, ServerTurn, OneConnected, NoneGarbled, Connected,
       ClientTurn, Up, Quiet, Granted, Asked, QuietOrDown, TypeOK, Requested, Sems, Zero,
       semaphores, serverSide, clientSide
  <2>2. ASSUME NEW q \in Procs PROVE RoundInv(q)'
    BY <1>2, <1>3 DEF SrvStart, RoundInv, InFlight, Answered, Waits, AnswerInv, ServerTurn,
       OneConnected, NoneGarbled, Connected, ClientTurn, Up, Quiet, Granted, Asked,
       QuietOrDown, TypeOK, CltLabels, SrvLabels, Requested, Sems, Zero, semaphores,
       serverSide, clientSide
  <2>3. QED
    BY <2>1, <2>2
<1>4. ASSUME SrvInit PROVE Kept
  <2>1. AnswerInv'
    BY <1>2, <1>4 DEF SrvInit, Let, AnswerInv, ServerTurn, OneConnected, NoneGarbled,
       Connected, ClientTurn, Up, Quiet, Granted, Asked, QuietOrDown, TypeOK, Requested, Sems,
       Zero, semaphores, serverSide, clientSide
  <2>2. ASSUME NEW q \in Procs PROVE RoundInv(q)'
    BY <1>2, <1>4 DEF SrvInit, Let, RoundInv, InFlight, Answered, Waits, AnswerInv,
       ServerTurn, OneConnected, NoneGarbled, Connected, ClientTurn, Up, Quiet, Granted, Asked,
       QuietOrDown, TypeOK, CltLabels, SrvLabels, Requested, Sems, Zero, semaphores,
       serverSide, clientSide
  <2>3. QED
    BY <2>1, <2>2
<1>5. ASSUME SrvConnect PROVE Kept
  <2>1. AnswerInv'
    BY <1>2, <1>5 DEF SrvConnect, Let, AnswerInv, ServerTurn, OneConnected, NoneGarbled,
       Connected, ClientTurn, Up, Quiet, Granted, Asked, QuietOrDown, TypeOK, Requested, Sems,
       Zero, semaphores, serverSide, clientSide
  <2>2. ASSUME NEW q \in Procs PROVE RoundInv(q)'
    BY <1>2, <1>5 DEF SrvConnect, Let, RoundInv, InFlight, Answered, Waits, AnswerInv,
       ServerTurn, OneConnected, NoneGarbled, Connected, ClientTurn, Up, Quiet, Granted, Asked,
       QuietOrDown, TypeOK, CltLabels, SrvLabels, Requested, Sems, Zero, semaphores,
       serverSide, clientSide
  <2>3. QED
    BY <2>1, <2>2
<1>6. ASSUME SrvRecv PROVE Kept
  <2>1. AnswerInv'
    BY <1>2, <1>6 DEF SrvRecv, Stop, AnswerInv, ServerTurn, OneConnected, NoneGarbled,
       Connected, ClientTurn, Up, Quiet, Granted, Asked, QuietOrDown, TypeOK, Requested, Sems,
       Zero, semaphores, serverSide, clientSide
  <2>2. ASSUME NEW q \in Procs PROVE RoundInv(q)'
    BY <1>2, <1>6 DEF SrvRecv, Stop, RoundInv, InFlight, Answered, Waits, AnswerInv,
       ServerTurn, OneConnected, NoneGarbled, Connected, ClientTurn, Up, Quiet, Granted, Asked,
       QuietOrDown, TypeOK, CltLabels, SrvLabels, Requested, Sems, Zero, semaphores,
       serverSide, clientSide
  <2>3. QED
    BY <2>1, <2>2
<1>7. ASSUME SrvRead PROVE Kept
  <2>1. AnswerInv'
    BY <1>2, <1>7 DEF SrvRead, AnswerInv, ServerTurn, OneConnected, NoneGarbled, Connected,
       ClientTurn, Up, Quiet, Granted, Asked, QuietOrDown, TypeOK, Requested, Sems, Zero,
       semaphores, serverSide, clientSide
  <2>2. ASSUME NEW q \in Procs PROVE RoundInv(q)'
    BY <1>2, <1>7 DEF SrvRead, RoundInv, InFlight, Answered, Waits, AnswerInv, ServerTurn,
       OneConnected, NoneGarbled, Connected, ClientTurn, Up, Quiet, Granted, Asked,
       QuietOrDown, TypeOK, CltLabels, SrvLabels, Requested, Sems, Zero, semaphores,
       serverSide, clientSide
  <2>3. QED
    BY <2>1, <2>2
<1>8. ASSUME SrvHandle PROVE Kept
  <2>1. AnswerInv'
    BY <1>2, <1>8 DEF SrvHandle, AnswerInv, ServerTurn, OneConnected, NoneGarbled,
       Connected, ClientTurn, Up, Quiet, Granted, Asked, QuietOrDown, TypeOK, Requested, Sems,
       Zero, semaphores, serverSide, clientSide
  <2>2. ASSUME NEW q \in Procs PROVE RoundInv(q)'
    BY <1>2, <1>8 DEF SrvHandle, RoundInv, InFlight, Answered, Waits, AnswerInv, ServerTurn,
       OneConnected, NoneGarbled, Connected, ClientTurn, Up, Quiet, Granted, Asked,
       QuietOrDown, TypeOK, CltLabels, SrvLabels, Requested, Sems, Zero, semaphores,
       serverSide, clientSide
  <2>3. QED
    BY <2>1, <2>2
<1>9. ASSUME SrvSend PROVE Kept
  <2>1. AnswerInv'
    BY <1>2, <1>9 DEF SrvSend, AnswerInv, ServerTurn, OneConnected, NoneGarbled, Connected,
       ClientTurn, Up, Quiet, Granted, Asked, QuietOrDown, TypeOK, Requested, Sems, Zero,
       semaphores, serverSide, clientSide
  <2>2. ASSUME NEW q \in Procs PROVE RoundInv(q)'
    BY <1>2, <1>9 DEF SrvSend, RoundInv, InFlight, Answered, Waits, AnswerInv, ServerTurn,
       OneConnected, NoneGarbled, Connected, ClientTurn, Up, Quiet, Granted, Asked,
       QuietOrDown, TypeOK, CltLabels, SrvLabels, Requested, Sems, Zero, semaphores,
       serverSide, clientSide
  <2>3. QED
    BY <2>1, <2>2
<1>10. ASSUME SrvPost PROVE Kept
  <2>1. AnswerInv'
    BY <1>2, <1>10 DEF SrvPost, Let, AnswerInv, ServerTurn, OneConnected, NoneGarbled,
       Connected, ClientTurn, Up, Quiet, Granted, Asked, QuietOrDown, TypeOK, Requested, Sems,
       Zero, semaphores, serverSide, clientSide
  <2>2. ASSUME NEW q \in Procs PROVE RoundInv(q)'
    BY <1>2, <1>10 DEF SrvPost, Let, RoundInv, InFlight, Answered, Waits, AnswerInv,
       ServerTurn, OneConnected, NoneGarbled, Connected, ClientTurn, Up, Quiet, Granted, Asked,
       QuietOrDown, TypeOK, CltLabels, SrvLabels, Requested, Sems, Zero, semaphores,
       serverSide, clientSide
  <2>3. QED
    BY <2>1, <2>2
<1>11. ASSUME SrvStop PROVE Kept
  <2>1. AnswerInv'
    BY <1>2, <1>11 DEF SrvStop, AnswerInv, ServerTurn, OneConnected, NoneGarbled, Connected,
       ClientTurn, Up, Quiet, Granted, Asked, QuietOrDown, TypeOK, Requested, Sems, Zero,
       semaphores, serverSide, clientSide
  <2>2. ASSUME NEW q \in Procs PROVE RoundInv(q)'
    BY <1>2, <1>11 DEF SrvStop, RoundInv, InFlight, Answered, Waits, AnswerInv, ServerTurn,
       OneConnected, NoneGarbled, Connected, ClientTurn, Up, Quiet, Granted, Asked,
       QuietOrDown, TypeOK, CltLabels, SrvLabels, Requested, Sems, Zero, semaphores,
       serverSide, clientSide
  <2>3. QED
    BY <2>1, <2>2
<1>12. ASSUME KillServer PROVE Kept
  <2>1. Undo(Server) => UNCHANGED <<sem, undo>>
    BY <1>2, UndoNothing
  <2>2. AnswerInv'
    BY <1>2, <1>12, <2>1 DEF KillServer, AnswerInv, ServerTurn, OneConnected, NoneGarbled,
       Connected, ClientTurn, Up, Quiet, Granted, Asked, QuietOrDown, TypeOK, Requested, Sems,
       Zero, semaphores, serverSide, clientSide
  <2>3. ASSUME NEW q \in Procs PROVE RoundInv(q)'
    BY <1>2, <1>12, <2>1 DEF KillServer, RoundInv, InFlight, Answered, Waits, AnswerInv,
       ServerTurn, OneConnected, NoneGarbled, Connected, ClientTurn, Up, Quiet, Granted, Asked,
       QuietOrDown, TypeOK, CltLabels, SrvLabels, Requested, Sems, Zero, semaphores,
       serverSide, clientSide
  <2>4. QED
    BY <2>2, <2>3
<1>13. ASSUME NEW p \in Procs, Call(p) PROVE Kept
  <2>1. AnswerInv'
    BY <1>2, <1>13 DEF Call, Goto, AnswerInv, ServerTurn, OneConnected, NoneGarbled,
       Connected, ClientTurn, Up, Quiet, Granted, Asked, QuietOrDown, TypeOK, Requested, Sems,
       Zero, semaphores, serverSide, clientSide
  <2>2. ASSUME NEW q \in Procs PROVE RoundInv(q)'
    BY <1>2, <1>13 DEF Call, Goto, RoundInv, InFlight, Answered, Waits, AnswerInv,
       ServerTurn, OneConnected, NoneGarbled, Connected, ClientTurn, Up, Quiet, Granted, Asked,
       QuietOrDown, TypeOK, CltLabels, SrvLabels, Requested, Sems, Zero, semaphores,
       serverSide, clientSide
  <2>3. QED
    BY <2>1, <2>2
<1>14. ASSUME NEW p \in Procs, CltConnect(p) PROVE Kept
  <2>1. Undo(p) => UNCHANGED <<sem, undo>>
    BY <1>2, UndoNothing
  <2>2. AnswerInv'
    BY <1>2, <1>14, <2>1 DEF CltConnect, WithSem, Stop, Goto, AnswerInv, ServerTurn,
       OneConnected, NoneGarbled, Connected, ClientTurn, Up, Quiet, Granted, Asked,
       QuietOrDown, TypeOK, Requested, Sems, Zero, semaphores, serverSide, clientSide
  <2>3. ASSUME NEW q \in Procs PROVE RoundInv(q)'
    BY <1>2, <1>14, <2>1 DEF CltConnect, WithSem, Stop, Goto, RoundInv, InFlight, Answered,
       Waits, AnswerInv, ServerTurn, OneConnected, NoneGarbled, Connected, ClientTurn, Up,
       Quiet, Granted, Asked, QuietOrDown, TypeOK, CltLabels, SrvLabels, Requested, Sems, Zero,
       semaphores, serverSide, clientSide
  <2>4. QED
    BY <2>2, <2>3
<1>15. ASSUME NEW p \in Procs, CltReady(p) PROVE Kept
  <2>1. Undo(p) => UNCHANGED <<sem, undo>>
    BY <1>2, UndoNothing
  <2>2. AnswerInv'
    BY <1>2, <1>15, <2>1 DEF CltReady, WithSem, Stop, Goto, AnswerInv, ServerTurn,
       OneConnected, NoneGarbled, Connected, ClientTurn, Up, Quiet, Granted, Asked,
       QuietOrDown, TypeOK, Requested, Sems, Zero, semaphores, serverSide, clientSide
  <2>3. ASSUME NEW q \in Procs PROVE RoundInv(q)'
    BY <1>2, <1>15, <2>1 DEF CltReady, WithSem, Stop, Goto, RoundInv, InFlight, Answered,
       Waits, AnswerInv, ServerTurn, OneConnected, NoneGarbled, Connected, ClientTurn, Up,
       Quiet, Granted, Asked, QuietOrDown, TypeOK, CltLabels, SrvLabels, Requested, Sems, Zero,
       semaphores, serverSide, clientSide
  <2>4. QED
    BY <2>2, <2>3
<1>16. ASSUME NEW p \in Procs, CltWrite(p) PROVE Kept
  <2>1. AnswerInv'
    BY <1>2, <1>16 DEF CltWrite, Goto, AnswerInv, ServerTurn, OneConnected, NoneGarbled,
       Connected, ClientTurn, Up, Quiet, Granted, Asked, QuietOrDown, TypeOK, Requested, Sems,
       Zero, semaphores, serverSide, clientSide
  <2>2. ASSUME NEW q \in Procs PROVE RoundInv(q)'
    BY <1>2, <1>16 DEF CltWrite, Goto, RoundInv, InFlight, Answered, Waits, AnswerInv,
       ServerTurn, OneConnected, NoneGarbled, Connected, ClientTurn, Up, Quiet, Granted, Asked,
       QuietOrDown, TypeOK, CltLabels, SrvLabels, Requested, Sems, Zero, semaphores,
       serverSide, clientSide
  <2>3. QED
    BY <2>1, <2>2
<1>17. ASSUME NEW p \in Procs, CltPost(p) PROVE Kept
  <2>1. Undo(p) => UNCHANGED <<sem, undo>>
    BY <1>2, UndoNothing
  <2>2. AnswerInv'
    BY <1>2, <1>17, <2>1 DEF CltPost, WithSem, Let, Goto, AnswerInv, ServerTurn,
       OneConnected, NoneGarbled, Connected, ClientTurn, Up, Quiet, Granted, Asked,
       QuietOrDown, TypeOK, Requested, Sems, Zero, semaphores, serverSide, clientSide
  <2>3. ASSUME NEW q \in Procs PROVE RoundInv(q)'
    BY <1>2, <1>17, <2>1 DEF CltPost, WithSem, Let, Goto, RoundInv, InFlight, Answered,
       Waits, AnswerInv, ServerTurn, OneConnected, NoneGarbled, Connected, ClientTurn, Up,
       Quiet, Granted, Asked, QuietOrDown, TypeOK, CltLabels, SrvLabels, Requested, Sems, Zero,
       semaphores, serverSide, clientSide
  <2>4. QED
    BY <2>2, <2>3
<1>18. ASSUME NEW p \in Procs, CltRecv(p) PROVE Kept
  <2>1. Undo(p) => UNCHANGED <<sem, undo>>
    BY <1>2, UndoNothing
  <2>2. AnswerInv'
    BY <1>2, <1>18, <2>1 DEF CltRecv, WithSem, Stop, Goto, AnswerInv, ServerTurn,
       OneConnected, NoneGarbled, Connected, ClientTurn, Up, Quiet, Granted, Asked,
       QuietOrDown, TypeOK, Requested, Sems, Zero, semaphores, serverSide, clientSide
  <2>3. ASSUME NEW q \in Procs PROVE RoundInv(q)'
    BY <1>2, <1>18, <2>1 DEF CltRecv, WithSem, Stop, Goto, RoundInv, InFlight, Answered,
       Waits, AnswerInv, ServerTurn, OneConnected, NoneGarbled, Connected, ClientTurn, Up,
       Quiet, Granted, Asked, QuietOrDown, TypeOK, CltLabels, SrvLabels, Requested, Sems, Zero,
       semaphores, serverSide, clientSide
  <2>4. QED
    BY <2>2, <2>3
<1>19. ASSUME NEW p \in Procs, CltRead(p) PROVE Kept
  <2>1. AnswerInv'
    BY <1>2, <1>19 DEF CltRead, Goto, AnswerInv, ServerTurn, OneConnected, NoneGarbled,
       Connected, ClientTurn, Up, Quiet, Granted, Asked, QuietOrDown, TypeOK, Requested, Sems,
       Zero, semaphores, serverSide, clientSide
  <2>2. ASSUME NEW q \in Procs PROVE RoundInv(q)'
    BY <1>2, <1>19 DEF CltRead, Goto, RoundInv, InFlight, Answered, Waits, AnswerInv,
       ServerTurn, OneConnected, NoneGarbled, Connected, ClientTurn, Up, Quiet, Granted, Asked,
       QuietOrDown, TypeOK, CltLabels, SrvLabels, Requested, Sems, Zero, semaphores,
       serverSide, clientSide
  <2>3. QED
    BY <2>1, <2>2
<1>20. ASSUME NEW p \in Procs, CltBody(p) PROVE Kept
  <2>1. AnswerInv'
    BY <1>2, <1>20 DEF CltBody, Goto, AnswerInv, ServerTurn, OneConnected, NoneGarbled,
       Connected, ClientTurn, Up, Quiet, Granted, Asked, QuietOrDown, TypeOK, Requested, Sems,
       Zero, semaphores, serverSide, clientSide
  <2>2. ASSUME NEW q \in Procs PROVE RoundInv(q)'
    BY <1>2, <1>20 DEF CltBody, Goto, RoundInv, InFlight, Answered, Waits, AnswerInv,
       ServerTurn, OneConnected, NoneGarbled, Connected, ClientTurn, Up, Quiet, Granted, Asked,
       QuietOrDown, TypeOK, CltLabels, SrvLabels, Requested, Sems, Zero, semaphores,
       serverSide, clientSide
  <2>3. QED
    BY <2>1, <2>2
<1>21. ASSUME NEW p \in Procs, CltWipe(p) PROVE Kept
  <2>1. AnswerInv'
    BY <1>2, <1>21 DEF CltWipe, Goto, AnswerInv, ServerTurn, OneConnected, NoneGarbled,
       Connected, ClientTurn, Up, Quiet, Granted, Asked, QuietOrDown, TypeOK, Requested, Sems,
       Zero, semaphores, serverSide, clientSide
  <2>2. ASSUME NEW q \in Procs PROVE RoundInv(q)'
    BY <1>2, <1>21 DEF CltWipe, Goto, RoundInv, InFlight, Answered, Waits, AnswerInv,
       ServerTurn, OneConnected, NoneGarbled, Connected, ClientTurn, Up, Quiet, Granted, Asked,
       QuietOrDown, TypeOK, CltLabels, SrvLabels, Requested, Sems, Zero, semaphores,
       serverSide, clientSide
  <2>3. QED
    BY <2>1, <2>2
<1>22. ASSUME NEW p \in Procs, CltCheck(p) PROVE Kept
  <2>1. Undo(p) => UNCHANGED <<sem, undo>>
    BY <1>2, UndoNothing
  <2>2. AnswerInv'
    BY <1>2, <1>22, <2>1 DEF CltCheck, Goto, AnswerInv, ServerTurn, OneConnected, NoneGarbled,
       Connected, ClientTurn, Up, Quiet, Granted, Asked, QuietOrDown, TypeOK, Requested, Sems,
       Zero, semaphores, serverSide, clientSide
  <2>3. ASSUME NEW q \in Procs PROVE RoundInv(q)'
    BY <1>2, <1>22, <2>1 DEF CltCheck, Goto, RoundInv, InFlight, Answered, Waits, AnswerInv,
       ServerTurn, OneConnected, NoneGarbled, Connected, ClientTurn, Up, Quiet, Granted, Asked,
       QuietOrDown, TypeOK, CltLabels, SrvLabels, Requested, Sems, Zero, semaphores,
       serverSide, clientSide
  <2>4. QED
    BY <2>2, <2>3
<1>23. ASSUME NEW p \in Procs, CltRelease(p) PROVE Kept
  <2>1. Undo(p) => UNCHANGED <<sem, undo>>
    BY <1>2, UndoNothing
  <2>2. AnswerInv'
    BY <1>2, <1>23, <2>1 DEF CltRelease, Let, NextRound, Goto, AnswerInv, ServerTurn,
       OneConnected, NoneGarbled, Connected, ClientTurn, Up, Quiet, Granted, Asked,
       QuietOrDown, TypeOK, Requested, Sems, Zero, semaphores, serverSide, clientSide
  <2>3. ASSUME NEW q \in Procs PROVE RoundInv(q)'
    BY <1>2, <1>23, <2>1 DEF CltRelease, Let, NextRound, Goto, RoundInv, InFlight, Answered,
       Waits, AnswerInv, ServerTurn, OneConnected, NoneGarbled, Connected, ClientTurn, Up,
       Quiet, Granted, Asked, QuietOrDown, TypeOK, CltLabels, SrvLabels, Requested, Sems, Zero,
       semaphores, serverSide, clientSide
  <2>4. QED
    BY <2>2, <2>3
<1>24. ASSUME NEW p \in Procs, Quit(p) PROVE Kept
  <2>1. Undo(p) => UNCHANGED <<sem, undo>>
    BY <1>2, UndoNothing
  <2>2. AnswerInv'
    BY <1>2, <1>24, <2>1 DEF Quit, Goto, AnswerInv, ServerTurn, OneConnected, NoneGarbled,
       Connected, ClientTurn, Up, Quiet, Granted, Asked, QuietOrDown, TypeOK, Requested, Sems,
       Zero, semaphores, serverSide, clientSide
  <2>3. ASSUME NEW q \in Procs PROVE RoundInv(q)'
    BY <1>2, <1>24, <2>1 DEF Quit, Goto, RoundInv, InFlight, Answered, Waits, AnswerInv,
       ServerTurn, OneConnected, NoneGarbled, Connected, ClientTurn, Up, Quiet, Granted, Asked,
       QuietOrDown, TypeOK, CltLabels, SrvLabels, Requested, Sems, Zero, semaphores,
       serverSide, clientSide
  <2>4. QED
    BY <2>2, <2>3
<1>25. ASSUME NEW p \in Procs, Restart(p) PROVE Kept
  <2>1. AnswerInv'
    BY <1>2, <1>25 DEF Restart, Goto, AnswerInv, ServerTurn, OneConnected, NoneGarbled,
       Connected, ClientTurn, Up, Quiet, Granted, Asked, QuietOrDown, TypeOK, Requested, Sems,
       Zero, semaphores, serverSide, clientSide
  <2>2. ASSUME NEW q \in Procs PROVE RoundInv(q)'
    BY <1>2, <1>25 DEF Restart, Goto, RoundInv, InFlight, Answered, Waits, AnswerInv,
       ServerTurn, OneConnected, NoneGarbled, Connected, ClientTurn, Up, Quiet, Granted, Asked,
       QuietOrDown, TypeOK, CltLabels, SrvLabels, Requested, Sems, Zero, semaphores,
       serverSide, clientSide
  <2>3. QED
    BY <2>1, <2>2
<1>26. ASSUME NEW p \in Procs, KillClient(p) PROVE Kept
  <2>1. Undo(p) => UNCHANGED <<sem, undo>>
    BY <1>2, UndoNothing
  <2>2. AnswerInv'
    BY <1>2, <1>26, <2>1 DEF KillClient, Goto, AnswerInv, ServerTurn, OneConnected,
       NoneGarbled, Connected, ClientTurn, Up, Quiet, Granted, Asked, QuietOrDown, TypeOK,
       Requested, Sems, Zero, semaphores, serverSide, clientSide
  <2>3. ASSUME NEW q \in Procs PROVE RoundInv(q)'
    BY <1>2, <1>26, <2>1 DEF KillClient, Goto, RoundInv, InFlight, Answered, Waits,
       AnswerInv, ServerTurn, OneConnected, NoneGarbled, Connected, ClientTurn, Up, Quiet,
       Granted, Asked, QuietOrDown, TypeOK, CltLabels, SrvLabels, Requested, Sems, Zero,
       semaphores, serverSide, clientSide
  <2>4. QED
    BY <2>2, <2>3
<1>27. ASSUME UNCHANGED vars PROVE Kept
  <2> USE <1>27 DEF vars, semaphores, serverSide, clientSide
  <2>1. AnswerInv'
    BY <1>2 DEF AnswerInv
  <2>2. ASSUME NEW q \in Procs PROVE RoundInv(q)'
    BY <1>2 DEF RoundInv, InFlight, Answered, Waits, Connected
  <2>3. QED
    BY <2>1, <2>2
<1>28. QED
  BY <1>1, <1>3, <1>4, <1>5, <1>6, <1>7, <1>8, <1>9, <1>10, <1>11, <1>12, <1>13, <1>14,
     <1>15, <1>16, <1>17, <1>18, <1>19, <1>20, <1>21, <1>22, <1>23, <1>24, <1>25, <1>26, <1>27
  DEF ShmInv, Next, SrvStep, CltStep, UserStep

-----------------------------------------------------------------------------
\* With the semaphores of semPosix.c the server and the client that is
\* connected take turns, and what they read is what the other one wrote,
\* whoever is killed (shm.c:55-204).
THEOREM ShmInvariant == ASSUME ~SysV PROVE Spec => []ShmInv
<1>1. ShmInv /\ [Next]_vars => ShmInv'
  BY StepInv
<1>2. QED
  BY <1>1, InitInv, PTL DEF Spec

\* SEM_CONN of semPosix.c is a lock, and ipc_disconnect finds it at 0.
THEOREM OneClientConnected == ASSUME ~SysV PROVE Spec => []OneConnected
<1>1. ShmInv => OneConnected
  BY DEF ShmInv, TurnsInv
<1>2. QED
  BY <1>1, ShmInvariant, PTL

\* With the semaphores of semPosix.c nobody reads bytes that are not one
\* message of the other side.
THEOREM WholeMessages == ASSUME ~SysV PROVE Spec => []NoneGarbled
<1>1. ShmInv => NoneGarbled
  BY DEF ShmInv, TurnsInv
<1>2. QED
  BY <1>1, ShmInvariant, PTL

-----------------------------------------------------------------------------
\* What StockServer_proofs says of a step, about the clients as seen here.
Facts == INSTANCE StockServer_proofs
           WITH request <- RequestNow, rpc <- RpcNow, resp <- RespNow

\* The views are functions, and the constants are as assumed here.
LEMMA Viewed ==
  /\ Facts!Views /\ Facts!Views'
  /\ IntMax \in Nat /\ Quantities \subseteq Facts!Ints /\ Absent \notin Int
  BY IntMaxAssumption, QuantitiesAssumption, AbsentAssumption
     DEF Facts!Views, RequestNow, RpcNow, RespNow, Facts!Ints, Ints

\* Both instances have the data of this module, and the same steps.
LEMMA SameData ==
  /\ Facts!Requests = Requests
  /\ \A r : /\ Facts!Refused(r) <=> Refused(r)
            /\ Facts!FirstMessage(r) = FirstMessage(r) /\ Facts!AddMessage(r) = AddMessage(r)
            /\ \A m, x : Facts!GoesOn(r, m, x) <=> GoesOn(r, m, x)
  /\ \A m, x : /\ Facts!HoldsAfter(m, x) = HoldsAfter(m, x)
               /\ Facts!ResponseTo(m, x) = ResponseTo(m, x)
  BY DEF Facts!Requests, Requests, Facts!Refused, Refused, Facts!FirstMessage, FirstMessage,
         Facts!AddMessage, AddMessage, Facts!Message, Message, Facts!Delta, Delta,
         Facts!GoesOn, GoesOn, Facts!HoldsAfter, HoldsAfter, Facts!Wrap, Wrap,
         Facts!ResponseTo, ResponseTo

\* A step of the one instance is a step of the other.
LEMMA SameSteps == Facts!ServerNext => Service!ServerNext
  BY DEF Facts!ServerNext, Service!ServerNext, Facts!Forget, Service!Forget, Facts!Call, Service!Call,
         Facts!Serve, Service!Serve, Facts!Answer, Service!Answer, Facts!Die, Service!Die,
         Facts!ServeDead, Service!ServeDead, Facts!Lose, Service!Lose, Facts!Dead, Service!Dead,
         Facts!Requests, Service!Requests, Facts!Refused, Service!Refused,
         Facts!FirstMessage, Service!FirstMessage, Facts!AddMessage, Service!AddMessage,
         Facts!Message, Service!Message, Facts!Delta, Service!Delta, Facts!GoesOn, Service!GoesOn,
         Facts!HoldsAfter, Service!HoldsAfter, Facts!Wrap, Service!Wrap,
         Facts!ResponseTo, Service!ResponseTo

-----------------------------------------------------------------------------
\* The three views, case by case.
LEMMA Seen ==
  ASSUME NEW q \in Procs
  PROVE  /\ RequestNow[q] = IF Lost(q) THEN Gone ELSE request[q]
         /\ RpcNow[q] = IF Lost(q) /\ ~InFlight(q) THEN NoMessage ELSE rpc[q]
         /\ RespNow[q] = IF Lost(q) THEN Pending
                         ELSE IF resp[q] # Pending THEN resp[q]
                         ELSE IF Answered(q) THEN answer
                         ELSE IF pc[q] \in {"recv", "read"} /\ shm \in Responses THEN shm
                         ELSE Pending
  BY DEF RequestNow, RpcNow, RespNow, Answered

\* The same after the step.
LEMMA SeenThen ==
  ASSUME NEW q \in Procs
  PROVE  /\ RequestNow'[q] = IF Lost(q)' THEN Gone ELSE request'[q]
         /\ RpcNow'[q] = IF Lost(q)' /\ ~InFlight(q)' THEN NoMessage ELSE rpc'[q]
         /\ RespNow'[q] = IF Lost(q)' THEN Pending
                          ELSE IF resp'[q] # Pending THEN resp'[q]
                          ELSE IF Answered(q)' THEN answer'
                          ELSE IF pc'[q] \in {"recv", "read"} /\ shm' \in Responses THEN shm'
                          ELSE Pending
  BY DEF RequestNow, RpcNow, RespNow, Answered

\* Before the server is started nobody waits for anything.
LEMMA InitRefines == Init => Service!ServerInit
<1> SUFFICES ASSUME Init PROVE Service!ServerInit
  OBVIOUS
<1>1. ASSUME NEW q \in Procs
      PROVE  RequestNow[q] = Idle /\ RpcNow[q] = NoMessage /\ RespNow[q] = Pending
  BY Seen DEF Init, Lost, Answered
<1>2. QED
  BY <1>1 DEF Init, Service!ServerInit, RequestNow, RpcNow, RespNow

\* Two clients cannot both wait for the server.
LEMMA OneWaits ==
  ASSUME ShmInv, NEW p \in Procs, Connected(p)
  PROVE  \A q \in Procs \ {p} : ~Connected(q) /\ ~Waits(q) /\ ~InFlight(q) /\ ~Answered(q)
<1>1. \A q \in Procs \ {p} : ~Connected(q)
  BY DEF ShmInv, TurnsInv, OneConnected
<1>2. \A q \in Procs \ {p} : ~Waits(q)
  BY <1>1 DEF Waits, Connected
<1>3. QED
  BY <1>1, <1>2 DEF ShmInv, RoundInv

\* Every step of Shm with POSIX semaphores is a step of StockServer.
LEMMA StepRefines ==
  ASSUME ~SysV, ShmInv, Next
  PROVE  Facts!ServerNext
<1> DEFINE Same(q) == /\ RequestNow'[q] = RequestNow[q]
                      /\ RpcNow'[q] = RpcNow[q]
                      /\ RespNow'[q] = RespNow[q]
<1> HIDE DEF Same
<1>1. /\ TypeOK /\ NoUndo /\ OneConnected /\ NoneGarbled /\ ServerTurn /\ AnswerInv
      /\ \A q \in Procs : ClientTurn(q) /\ RoundInv(q)
      /\ \A q \in Procs : ~Lost(q) => RequestNow[q] # Gone
  BY Seen, ShmValuesAssumption DEF ShmInv, TurnsInv, TypeOK
<1>2. ASSUME stock' = stock, \A q \in Procs : Same(q) PROVE Facts!ServerNext
  BY <1>2, Facts!QuietStep, Viewed DEF Same
<1>3. ASSUME SrvStart \/ SrvInit \/ SrvConnect \/ SrvPost PROVE Facts!ServerNext
  <2>1. /\ UNCHANGED <<stock, clientSide, answer>>
        /\ srv \in {"new", "init", "connect", "post"} /\ answer = Pending
        /\ srv' \in {"init", "connect", "recv"}
        /\ shm' = shm \/ srv = "new"
    BY <1>1, <1>3 DEF SrvStart, SrvInit, SrvConnect, SrvPost, AnswerInv
  <2>2. srv' = "recv" => sem'["SRV"] = 0
    <3>1. SrvConnect => sem["SRV"] = 0
      BY <1>1 DEF SrvConnect, ServerTurn, Up, TypeOK, Sems
    <3>2. QED
      BY <1>1, <1>3, <3>1 DEF SrvStart, SrvInit, SrvConnect, SrvPost, Let, TypeOK, Sems
  <2>3. ASSUME NEW q \in Procs PROVE Same(q)
    <3>1. ~InFlight(q) /\ ~InFlight(q)' /\ ~Answered(q) /\ ~Answered(q)'
      BY <2>1, <2>2 DEF InFlight, Answered
    <3>2. shm' = shm \/ pc[q] \notin {"recv", "read"}
      BY <1>1, <2>1 DEF ServerTurn, Connected
    <3>3. QED
      BY <2>1, <3>1, <3>2, Seen, SeenThen DEF clientSide, Same, Lost
  <2>4. QED
    BY <1>2, <2>1, <2>3
<1>4. ASSUME SrvRecv PROVE Facts!ServerNext
  <2>1. /\ UNCHANGED <<stock, clientSide, shm, answer, serving>>
        /\ srv = "recv" /\ srv' = "read" /\ sem["SRV"] > 0
    BY <1>4 DEF SrvRecv, Stop
  <2>2. ASSUME NEW q \in Procs PROVE Same(q)
    <3>1. (InFlight(q)' <=> InFlight(q)) /\ (Answered(q)' <=> Answered(q))
      BY <2>1 DEF InFlight, Answered
    <3>2. QED
      BY <2>1, <3>1, Seen, SeenThen DEF clientSide, Same, Lost
  <2>3. QED
    BY <1>2, <2>1, <2>2
<1>5. ASSUME SrvRead PROVE Facts!ServerNext
  <2>1. /\ UNCHANGED <<stock, clientSide, shm, answer>> /\ shm \in Requested
        /\ srv = "read" /\ srv' = "handle" /\ serving' = shm /\ answer = Pending
    BY <1>1, <1>5 DEF SrvRead, ServerTurn, AnswerInv
  <2>2. ASSUME NEW q \in Procs PROVE Same(q)
    <3>1. (InFlight(q)' <=> InFlight(q)) /\ ~Answered(q)' /\ ~Answered(q)
      BY <2>1 DEF InFlight, Answered, Requested
    <3>2. QED
      BY <2>1, <3>1, Seen, SeenThen DEF clientSide, Same, Lost
  <2>3. QED
    BY <1>2, <2>1, <2>2
<1>6. ASSUME SrvHandle PROVE Facts!ServerNext
  <2>1. shm = serving /\ serving \in Requested
    BY <1>1, <1>6 DEF SrvHandle, ServerTurn
  <2>2. PICK c \in Procs : serving.from = c
    BY <2>1 DEF Requested
  <2>3. PICK m \in Messages : serving.message = m
    BY <2>1 DEF Requested
  <2>4. /\ UNCHANGED <<clientSide, shm, serving>> /\ srv = "handle" /\ srv' = "send"
        /\ answer = Pending
        /\ stock' = [stock EXCEPT ![m.name] = HoldsAfter(m, @)]
        /\ answer' = ResponseTo(m, stock[m.name])
    BY <1>1, <1>6, <2>1, <2>3 DEF SrvHandle, AnswerInv
  <2>5. InFlight(c) /\ \A q \in Procs : (q # c => ~InFlight(q)) /\ ~InFlight(q)'
    BY <2>2, <2>4 DEF InFlight
  <2>6. m # NoMessage /\ rpc[c] = m /\ pc[c] \in {"recv", "exited"}
    <3>1. shm = [from |-> c, message |-> rpc[c]] /\ pc[c] \in {"recv", "exited"}
      BY <1>1, <2>5 DEF RoundInv, Waits
    <3>2. QED
      BY <2>1, <2>3, <3>1, ShmValuesAssumption
  <2>7. RpcNow[c] = m /\ RequestNow'[c] = RequestNow[c]
    BY <2>4, <2>5, <2>6, Seen, SeenThen DEF clientSide, Lost
  <2>8. ASSUME NEW q \in Procs \ {c} PROVE Same(q)
    <3>1. (Lost(q)' <=> Lost(q)) /\ ~InFlight(q) /\ ~InFlight(q)' /\ ~Answered(q) /\ ~Answered(q)'
      BY <2>2, <2>4, <2>5, <2>8 DEF clientSide, Lost, Answered
    <3>2. QED
      BY <2>4, <3>1, Seen, SeenThen DEF clientSide, Same
  <2>9. IF RequestNow[c] = Gone
        THEN RpcNow'[c] = NoMessage /\ RespNow'[c] = RespNow[c]
        ELSE /\ RpcNow'[c] = RpcNow[c]
             /\ RespNow[c] = Pending /\ RespNow'[c] = ResponseTo(m, stock[m.name])
    <3>1. CASE pc[c] = "exited"
      BY <2>4, <2>5, <3>1, Seen, SeenThen DEF clientSide, Lost
    <3>2. CASE pc[c] = "recv"
      <4>1. /\ resp[c] = Pending /\ RequestNow[c] # Gone /\ ~Answered(c) /\ shm \notin Responses
            /\ answer' # Pending => Answered(c)'
        BY <1>1, <2>1, <2>2, <2>4, <3>2, MessageOrResponse DEF RoundInv, Lost, Answered
      <4>2. resp'[c] = Pending /\ pc'[c] = "recv" /\ shm' \notin Responses
        BY <2>4, <3>2, <4>1 DEF clientSide
      <4>3. RespNow[c] = Pending
        BY <3>2, <4>1, Seen
      <4>4. RespNow'[c] = answer'
        BY <3>2, <4>1, <4>2, SeenThen DEF Lost, Answered
      <4>5. RpcNow'[c] = RpcNow[c]
        BY <2>4, <3>2, <4>2, Seen, SeenThen DEF clientSide, Lost
      <4>6. QED
        BY <2>4, <4>1, <4>3, <4>4, <4>5
    <3>3. QED
      BY <2>6, <3>1, <3>2
  <2>10. QED
    BY <2>4, <2>6, <2>7, <2>8, <2>9, Facts!ServeStep, Viewed, SameData DEF Same
<1>7. ASSUME SrvSend PROVE Facts!ServerNext
  <2>1. /\ UNCHANGED <<stock, clientSide, serving>> /\ srv = "send" /\ srv' = "post"
        /\ shm' = answer /\ answer' = Pending /\ answer \in Responses
        /\ answer # Pending /\ serving \in Requested
    BY <1>1, <1>7, ShmValuesAssumption DEF SrvSend, ServerTurn, AnswerInv
  <2>2. PICK c \in Procs : serving.from = c
    BY <2>1 DEF Requested
  <2>3. Answered(c) /\ Waits(c) /\ \A q \in Procs : (q # c => ~Answered(q)) /\ ~Answered(q)'
    BY <1>1, <2>1, <2>2 DEF Answered, RoundInv
  <2>4. \A q \in Procs : ~InFlight(q) /\ ~InFlight(q)'
    BY <2>1 DEF InFlight
  <2>5. Same(c)
    <3>1. CASE pc[c] = "recv"
      <4>1. resp[c] = Pending
        BY <1>1, <3>1 DEF RoundInv
      <4>2. QED
        BY <2>1, <2>3, <2>4, <3>1, <4>1, Seen, SeenThen DEF clientSide, Same, Lost
    <3>2. CASE pc[c] = "exited"
      BY <2>1, <2>4, <3>2, Seen, SeenThen DEF clientSide, Same, Lost
    <3>3. QED
      BY <2>3, <3>1, <3>2 DEF Waits
  <2>6. ASSUME NEW q \in Procs \ {c} PROVE Same(q)
    <3>1. pc[q] \notin {"recv", "read"}
      <4>1. CASE pc[c] = "recv"
        BY <2>6, <4>1, OneWaits DEF Connected
      <4>2. CASE pc[c] # "recv"
        BY <2>3, <2>6, <4>2 DEF Waits, Connected
      <4>3. QED
        BY <4>1, <4>2
    <3>2. QED
      BY <2>1, <2>3, <2>4, <2>6, <3>1, Seen, SeenThen DEF clientSide, Same, Lost
  <2>7. QED
    BY <1>2, <2>1, <2>5, <2>6
<1>8. ASSUME SrvStop \/ KillServer PROVE Facts!ServerNext
  <2>1. UNCHANGED <<stock, clientSide, shm, answer, serving>> /\ srv' = "ended"
    BY <1>8 DEF SrvStop, KillServer
  <2>2. ASSUME NEW q \in Procs
        PROVE  /\ RequestNow'[q] = RequestNow[q] /\ RespNow'[q] = RespNow[q]
               /\ RpcNow'[q] = RpcNow[q] \/ (RequestNow[q] = Gone /\ RpcNow'[q] = NoMessage)
    <3>1. ~InFlight(q)' /\ (Answered(q)' <=> Answered(q)) /\ (Lost(q)' <=> Lost(q))
      BY <2>1 DEF InFlight, Answered, Lost, clientSide
    <3>2. QED
      BY <2>1, <3>1, Seen, SeenThen DEF clientSide
  <2>3. QED
    BY <2>1, <2>2, Facts!QuietStep, Viewed
<1>9. ASSUME NEW p \in Procs, Call(p) PROVE Facts!ServerNext
  <2>1. PICK r \in Requests : /\ ~Refused(r)
                              /\ request' = [request EXCEPT ![p] = r]
                              /\ rpc' = [rpc EXCEPT ![p] = FirstMessage(r)]
    BY <1>9 DEF Call
  <2>2. /\ UNCHANGED <<stock, sem, srv, serving, answer, shm, resp>>
        /\ pc[p] = "idle" /\ request[p] = Idle
        /\ \A q \in Procs : pc'[q] = IF q = p THEN "connect" ELSE pc[q]
        /\ \A q \in Procs : request'[q] = IF q = p THEN r ELSE request[q]
        /\ \A q \in Procs : rpc'[q] = IF q = p THEN FirstMessage(r) ELSE rpc[q]
    BY <1>1, <1>9, <2>1 DEF Call, Goto, TypeOK, RoundInv, serverSide, semaphores
  <2>3. \A q \in Procs : (InFlight(q)' <=> InFlight(q)) /\ (Answered(q)' <=> Answered(q))
    BY <2>2 DEF InFlight, Answered
  <2>4. /\ RequestNow[p] = Idle /\ RequestNow'[p] = r /\ RpcNow'[p] = FirstMessage(r)
        /\ RespNow'[p] = RespNow[p]
    BY <2>2, <2>3, Seen, SeenThen DEF Lost
  <2>5. ASSUME NEW q \in Procs \ {p} PROVE Same(q)
    BY <2>2, <2>3, <2>5, Seen, SeenThen DEF Same, Lost
  <2>6. QED
    BY <2>1, <2>2, <2>4, <2>5, Facts!CallStep, Viewed, SameData DEF Same
<1>10. ASSUME NEW p \in Procs,
              \/ CltConnect(p) \/ CltReady(p) \/ CltPost(p) \/ CltRecv(p) \/ CltBody(p) \/ CltCheck(p)
              \/ Quit(p) \/ Restart(p) \/ KillClient(p)
       PROVE  Facts!ServerNext
  <2>1. /\ UNCHANGED <<stock, srv, serving, answer, shm, request, rpc, resp>>
        /\ \A q \in Procs \ {p} : pc'[q] = pc[q]
        /\ ~Lost(p)
        /\ pc'[p] # "garbled"
    BY <1>1, <1>10 DEF CltConnect, CltReady, CltPost, CltRecv, CltBody, CltCheck, Quit, Restart, KillClient,
                       WithSem, Goto, Lost, TypeOK, ClientTurn, serverSide
  <2>2. sem'["SRV"] = sem["SRV"] \/ (CltPost(p) /\ pc[p] = "post" /\ pc'[p] = "recv" /\ live)
    <3>1. Undo(p) => UNCHANGED <<sem, undo>>
      BY <1>1, UndoNothing
    <3>2. QED
      BY <1>1, <1>10, <3>1 DEF CltConnect, CltReady, CltPost, CltRecv, CltBody, CltCheck, Quit, Restart,
                               KillClient, WithSem, Let, Stop, Goto, TypeOK, Sems, semaphores
  <2>3. \A q \in Procs : Answered(q)' <=> Answered(q)
    BY <2>1 DEF Answered
  <2>4. ASSUME NEW q \in Procs \ {p} PROVE InFlight(q)' <=> InFlight(q)
    <3>1. CASE sem'["SRV"] = sem["SRV"]
      BY <2>1, <3>1 DEF InFlight
    <3>2. CASE CltPost(p) /\ pc[p] = "post"
      <4>1. shm = [from |-> p, message |-> rpc[p]] /\ ~InFlight(q)
        BY <1>1, <2>4, <3>2, OneWaits DEF ClientTurn, Connected
      <4>2. ~InFlight(q)'
        BY <2>1, <2>4, <4>1 DEF InFlight
      <4>3. QED
        BY <4>1, <4>2
    <3>3. QED
      BY <2>2, <3>1, <3>2
  <2>5. ASSUME NEW q \in Procs \ {p} PROVE Same(q)
    BY <2>1, <2>3, <2>4, <2>5, Seen, SeenThen DEF Same, Lost
  <2>6. CASE pc'[p] # "exited"
    <3>1. ~Lost(p)'
      BY <2>1, <2>6 DEF Lost
    <3>2. RequestNow'[p] = RequestNow[p] /\ RpcNow'[p] = RpcNow[p]
      BY <2>1, <3>1, Seen, SeenThen
    <3>3. \/ resp[p] # Pending
          \/ Answered(p)
          \/ pc[p] \in {"recv", "read"} <=> pc'[p] \in {"recv", "read"}
          \/ shm \notin Responses
      <4>1. CltPost(p) => shm \in Requested
        BY <1>1 DEF CltPost, ClientTurn, Connected, Requested
      <4>2. CltBody(p) => resp[p] # Pending
        BY <1>1, ShmValuesAssumption DEF CltBody, ClientTurn
      <4>3. QED
        BY <1>1, <1>10, <2>6, <4>1, <4>2, MessageOrResponse
           DEF CltConnect, CltReady, CltPost, CltRecv, CltCheck, Quit, Restart, KillClient, WithSem, Goto, TypeOK
    <3>4. RespNow'[p] = RespNow[p]
      BY <2>1, <2>3, <3>1, <3>3, Seen, SeenThen
    <3>5. QED
      BY <1>2, <2>1, <2>5, <3>2, <3>4 DEF Same
  <2>7. CASE pc'[p] = "exited"
    <3>1. Lost(p)' /\ RequestNow[p] # Gone /\ RequestNow'[p] = Gone /\ RespNow'[p] = Pending
      BY <1>1, <2>1, <2>7, SeenThen DEF Lost
    <3>2. InFlight(p)' <=> InFlight(p)
      BY <2>1, <2>2, <2>7 DEF InFlight
    <3>3. CASE ~InFlight(p)
      <4>1. RpcNow'[p] = NoMessage
        BY <3>1, <3>2, <3>3, SeenThen
      <4>2. QED
        BY <2>1, <2>5, <3>1, <4>1, Facts!DieStep, Viewed DEF Same
    <3>4. CASE InFlight(p)
      <4>1. RpcNow'[p] = RpcNow[p]
        BY <2>1, <3>2, <3>4, Seen, SeenThen
      <4>2. pc[p] = "recv" /\ shm = [from |-> p, message |-> rpc[p]] /\ resp[p] = Pending
        BY <1>1, <2>1, <3>4 DEF RoundInv, Waits, Lost
      <4>3. answer = Pending /\ shm \notin Responses
        <5>1. rpc[p] \in Messages
          BY <1>1, <4>2 DEF ClientTurn, Connected
        <5>2. QED
          BY <1>1, <3>4, <4>2, <5>1, MessageOrResponse DEF InFlight, AnswerInv, Requested
      <4>4. RespNow[p] = Pending
        BY <2>1, <4>2, <4>3, Seen DEF Answered
      <4>5. QED
        BY <2>1, <2>5, <3>1, <4>1, <4>4, Facts!DieStep, Viewed DEF Same
    <3>5. QED
      BY <3>3, <3>4
  <2>8. QED
    BY <2>6, <2>7
<1>11. ASSUME NEW p \in Procs, CltWrite(p) \/ CltWipe(p) PROVE Facts!ServerNext
  <2>1. /\ UNCHANGED <<stock, sem, srv, serving, answer, request, rpc, resp>>
        /\ pc[p] \in {"write", "wipe"} /\ pc'[p] \in {"post", "check"}
        /\ \A q \in Procs \ {p} : pc'[q] = pc[q]
        /\ pc[p] = "wipe" => pc'[p] = "check" /\ resp[p] # Pending
    BY <1>1, <1>11, ShmValuesAssumption
       DEF CltWrite, CltWipe, Goto, TypeOK, ClientTurn, serverSide, semaphores
  <2>2. srv \notin {"read", "handle"} /\ (srv = "recv" => sem["SRV"] = 0)
    BY <1>1, <2>1 DEF ClientTurn, QuietOrDown, Quiet, Granted, Up
  <2>3. ASSUME NEW q \in Procs PROVE Same(q)
    <3>1. ~InFlight(q) /\ ~InFlight(q)' /\ (Answered(q)' <=> Answered(q)) /\ (Lost(q)' <=> Lost(q))
      BY <2>1, <2>2 DEF InFlight, Answered, Lost
    <3>2. pc[q] \notin {"recv", "read"} /\ pc'[q] \notin {"recv", "read"}
      BY <2>1, OneWaits DEF Connected
    <3>3. QED
      BY <2>1, <3>1, <3>2, Seen, SeenThen DEF Same
  <2>4. QED
    BY <1>2, <2>1, <2>3
<1>12. ASSUME NEW p \in Procs, CltRead(p) PROVE Facts!ServerNext
  <2>1. /\ UNCHANGED <<stock, sem, srv, serving, answer, shm, request, rpc>>
        /\ pc[p] = "read" /\ shm \in Responses /\ resp[p] = Pending /\ ~Answered(p)
        /\ \A q \in Procs : pc'[q] = IF q = p THEN "body" ELSE pc[q]
        /\ \A q \in Procs : resp'[q] = IF q = p THEN shm ELSE resp[q]
    BY <1>1, <1>12 DEF CltRead, Goto, TypeOK, ClientTurn, RoundInv, Waits, serverSide, semaphores
  <2>2. \A q \in Procs : (InFlight(q)' <=> InFlight(q)) /\ (Answered(q)' <=> Answered(q))
    BY <2>1 DEF InFlight, Answered
  <2>3. Same(p)
    <3>1. RespNow[p] = shm /\ RespNow'[p] = shm
      BY <2>1, <2>2, Seen, SeenThen, ShmValuesAssumption DEF Lost
    <3>2. QED
      BY <2>1, <2>2, <3>1, Seen, SeenThen DEF Same, Lost
  <2>4. ASSUME NEW q \in Procs \ {p} PROVE Same(q)
    BY <2>1, <2>2, <2>4, Seen, SeenThen DEF Same, Lost
  <2>5. QED
    BY <1>2, <2>1, <2>3, <2>4
<1>13. ASSUME NEW p \in Procs, CltRelease(p) PROVE Facts!ServerNext
  <2>1. /\ UNCHANGED <<stock, srv, serving, answer, shm>> /\ pc[p] = "release"
        /\ \A q \in Procs \ {p} : pc'[q] = pc[q] /\ request'[q] = request[q]
                                  /\ rpc'[q] = rpc[q] /\ resp'[q] = resp[q]
        /\ sem'["SRV"] = sem["SRV"]
    <3>1. Undo(p) => UNCHANGED <<sem, undo>>
      BY <1>1, UndoNothing
    <3>2. QED
      BY <1>1, <1>13, <3>1 DEF CltRelease, NextRound, Let, Goto, TypeOK, Sems, serverSide
  <2>2. resp[p] # Pending /\ ~Answered(p) /\ ~InFlight(p) /\ ~Lost(p)
    BY <1>1, <2>1, ShmValuesAssumption DEF RoundInv, ClientTurn, Waits, Lost
  <2>3. \A q \in Procs : (InFlight(q)' <=> InFlight(q)) /\ (Answered(q)' <=> Answered(q))
    BY <2>1 DEF InFlight, Answered
  <2>4. ASSUME NEW q \in Procs \ {p} PROVE Same(q)
    BY <2>1, <2>3, <2>4, Seen, SeenThen DEF Same, Lost
  <2>5. RequestNow[p] = request[p] /\ RpcNow[p] = rpc[p] /\ RespNow[p] = resp[p] /\ request[p] # Gone
    BY <1>1, <2>2, Seen
  <2>6. CASE pc'[p] = "exited"
    <3>1. RequestNow'[p] = Gone /\ RpcNow'[p] = NoMessage /\ RespNow'[p] = Pending
      BY <2>2, <2>3, <2>6, SeenThen DEF Lost
    <3>2. QED
      BY <2>1, <2>4, <2>5, <3>1, Facts!DieStep, Viewed DEF Same
  <2>7. CASE pc'[p] # "exited"
    <3>1. /\ resp'[p] = Pending
          /\ IF GoesOn(request[p], rpc[p], resp[p])
             THEN rpc'[p] = AddMessage(request[p]) /\ request'[p] = request[p] /\ pc'[p] = "connect"
             ELSE rpc'[p] = NoMessage /\ request'[p] = Idle /\ pc'[p] = "idle"
      BY <1>1, <1>13, <2>7 DEF CltRelease, NextRound, Goto, TypeOK
    <3>2. RequestNow'[p] = request'[p] /\ RpcNow'[p] = rpc'[p] /\ RespNow'[p] = Pending
      BY <2>2, <2>3, <3>1, SeenThen DEF Lost
    <3>3. QED
      BY <2>1, <2>2, <2>4, <2>5, <3>1, <3>2, Facts!AnswerStep, Viewed, SameData DEF Same
  <2>8. QED
    BY <2>6, <2>7
<1>14. QED
  BY <1>3, <1>4, <1>5, <1>6, <1>7, <1>8, <1>9, <1>10, <1>11, <1>12, <1>13
  DEF Next, SrvStep, CltStep, UserStep

\* With the semaphores of semPosix.c, whoever is killed, no message takes
\* effect twice, and what a client reads from the area is the answer to its
\* own message.
THEOREM ImplementsService == ASSUME ~SysV PROVE Spec => ServesAtMostOnce
<1>1. ShmInv /\ [Next]_vars => [Service!ServerNext]_Service!serverVars
  <2>1. SUFFICES ASSUME ShmInv, [Next]_vars
        PROVE  Service!ServerNext \/ UNCHANGED Service!serverVars
    OBVIOUS
  <2>2. CASE UNCHANGED vars
    BY <2>2
    DEF vars, semaphores, serverSide, clientSide, Service!serverVars, RequestNow, RpcNow, RespNow,
        Lost, InFlight
  <2>3. QED
    BY <2>1, <2>2, StepRefines, SameSteps
<1>2. QED
  BY <1>1, InitRefines, ShmInvariant, PTL DEF Spec, ServesAtMostOnce, Service!ServerSpec

=============================================================================
