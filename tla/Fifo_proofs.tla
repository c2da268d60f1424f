----------------------------- MODULE Fifo_proofs -----------------------------
(***************************************************************************)
(* Proofs about the named-pipe backend, for any number of clients, calls   *)
(* and faults.                                                             *)
(***************************************************************************)
EXTENDS Fifo, Data_proofs

\* The invariant holds before the server is started.
LEMMA PipesInit == Init => PipesInv
<1> SUFFICES ASSUME Init PROVE PipesInv
  OBVIOUS
<1>1. TypeOK
  <2>1. stock \in [Names -> Ints \cup {Absent}]
    BY QuantitiesAssumption DEF Init
  <2>2. 0 \in 0 .. MaxCalls /\ 0 \in 0 .. MaxFaults
    BY FifoBoundsAssumption
  <2>3. QED
    BY <2>1, <2>2 DEF Init, TypeOK, Pipes, SrvLabels, CltLabels
<1>2. OneConnected /\ CallInv
  BY DEF Init, OneConnected, Connected, CallInv, InCall
<1>3. PipeInv
  BY DEF Init, PipeInv
<1>4. QED
  BY <1>1, <1>2, <1>3 DEF PipesInv

\* Every step of the server and of a client keeps it, kills included.
LEMMA PipesNext == PipesInv /\ [Next]_vars => PipesInv'
<1> SUFFICES ASSUME TypeOK, OneConnected, CallInv, PipeInv, [Next]_vars
             PROVE  PipesInv'
  BY DEF PipesInv
<1> USE MessageTypes, FifoBoundsAssumption
<1>1. ASSUME SrvStart PROVE PipesInv'
  <2>1. TypeOK'
    BY <1>1 DEF SrvStart, TypeOK, SrvLabels, CltLabels, Pipes, serverSide, pipes, clientSide
  <2>2. OneConnected'
    BY <1>1 DEF SrvStart, TypeOK, OneConnected, Connected, serverSide, pipes, clientSide
  <2>3. CallInv'
    BY <1>1 DEF SrvStart, TypeOK, CallInv, InCall, serverSide, pipes, clientSide
  <2>4. PipeInv'
    BY <1>1 DEF SrvStart, TypeOK, OneConnected, Connected, PipeInv, serverSide, pipes, clientSide
  <2>5. QED
    BY <2>1, <2>2, <2>3, <2>4 DEF PipesInv
<1>2. ASSUME SrvConnect PROVE PipesInv'
  <2>1. TypeOK'
    BY <1>2 DEF SrvConnect, ClientsLoseServer, Waiting, TypeOK, SrvLabels, CltLabels, Pipes, serverSide, pipes, clientSide
  <2>2. OneConnected'
    BY <1>2 DEF SrvConnect, ClientsLoseServer, Waiting, TypeOK, OneConnected, Connected, serverSide, pipes, clientSide
  <2>3. CallInv'
    BY <1>2 DEF SrvConnect, ClientsLoseServer, Waiting, TypeOK, CallInv, InCall, serverSide, pipes, clientSide
  <2>4. PipeInv'
    BY <1>2 DEF SrvConnect, ClientsLoseServer, Waiting, TypeOK, OneConnected, Connected, PipeInv, serverSide, pipes, clientSide
  <2>5. QED
    BY <2>1, <2>2, <2>3, <2>4 DEF PipesInv
<1>3. ASSUME SrvRead PROVE PipesInv'
  <2>1. TypeOK'
    BY <1>3 DEF SrvRead, TypeOK, SrvLabels, CltLabels, Pipes, serverSide, pipes, clientSide
  <2>2. OneConnected'
    BY <1>3 DEF SrvRead, TypeOK, OneConnected, Connected, serverSide, pipes, clientSide
  <2>3. CallInv'
    BY <1>3 DEF SrvRead, TypeOK, CallInv, InCall, serverSide, pipes, clientSide
  <2>4. PipeInv'
    BY <1>3 DEF SrvRead, TypeOK, OneConnected, Connected, PipeInv, serverSide, pipes, clientSide
  <2>5. QED
    BY <2>1, <2>2, <2>3, <2>4 DEF PipesInv
<1>4. ASSUME SrvHandle PROVE PipesInv'
  <2>1. TypeOK'
    <3> DEFINE m == serving.message
    <3>1. m \in Messages
      BY <1>4 DEF SrvHandle, CallInv, TypeOK, Requested
    <3>2. stock[m.name] \in Ints \cup {Absent}
      BY <3>1, HandlerTypes DEF TypeOK, Messages
    <3>3. HoldsAfter(m, stock[m.name]) \in Ints \cup {Absent} /\ ResponseTo(m, stock[m.name]) \in Responses
      BY <3>1, <3>2, HandlerTypes
    <3>4. stock' \in [Names -> Ints \cup {Absent}] /\ answer' \in Responses
      BY <1>4, <3>3 DEF SrvHandle, TypeOK
    <3>5. QED
      BY <1>4, <3>4 DEF SrvHandle, TypeOK, SrvLabels, pipes, clientSide
  <2>2. OneConnected'
    BY <1>4 DEF SrvHandle, TypeOK, OneConnected, Connected, serverSide, pipes, clientSide
  <2>3. CallInv'
    BY <1>4 DEF SrvHandle, TypeOK, CallInv, InCall, serverSide, pipes, clientSide
  <2>4. PipeInv'
    BY <1>4 DEF SrvHandle, TypeOK, OneConnected, Connected, PipeInv, serverSide, pipes, clientSide
  <2>5. QED
    BY <2>1, <2>2, <2>3, <2>4 DEF PipesInv
<1>5. ASSUME SrvRespond PROVE PipesInv'
  <2>1. TypeOK'
    BY <1>5 DEF SrvRespond, ClientsLoseServer, Waiting, TypeOK, SrvLabels, CltLabels, Pipes, serverSide, pipes, clientSide
  <2>2. OneConnected'
    BY <1>5 DEF SrvRespond, ClientsLoseServer, Waiting, TypeOK, OneConnected, Connected, serverSide, pipes, clientSide
  <2>3. CallInv'
    BY <1>5 DEF SrvRespond, ClientsLoseServer, Waiting, TypeOK, CallInv, InCall, serverSide, pipes, clientSide
  <2>4. PipeInv'
    BY <1>5 DEF SrvRespond, ClientsLoseServer, Waiting, TypeOK, OneConnected, Connected, PipeInv, serverSide, pipes, clientSide
  <2>5. QED
    BY <2>1, <2>2, <2>3, <2>4 DEF PipesInv
<1>6. ASSUME SrvDisconnect PROVE PipesInv'
  <2>1. TypeOK'
    BY <1>6 DEF SrvDisconnect, TypeOK, SrvLabels, CltLabels, Pipes, serverSide, pipes, clientSide
  <2>2. OneConnected'
    BY <1>6 DEF SrvDisconnect, TypeOK, OneConnected, Connected, serverSide, pipes, clientSide
  <2>3. CallInv'
    BY <1>6 DEF SrvDisconnect, TypeOK, CallInv, InCall, serverSide, pipes, clientSide
  <2>4. PipeInv'
    BY <1>6 DEF SrvDisconnect, TypeOK, OneConnected, Connected, PipeInv, serverSide, pipes, clientSide
  <2>5. QED
    BY <2>1, <2>2, <2>3, <2>4 DEF PipesInv
<1>7. ASSUME SrvStop PROVE PipesInv'
  <2>1. TypeOK'
    BY <1>7 DEF SrvStop, ClientsLoseServer, Waiting, TypeOK, SrvLabels, CltLabels, Pipes, serverSide, pipes, clientSide
  <2>2. OneConnected'
    BY <1>7 DEF SrvStop, ClientsLoseServer, Waiting, TypeOK, OneConnected, Connected, serverSide, pipes, clientSide
  <2>3. CallInv'
    BY <1>7 DEF SrvStop, ClientsLoseServer, Waiting, TypeOK, CallInv, InCall, serverSide, pipes, clientSide
  <2>4. PipeInv'
    BY <1>7 DEF SrvStop, ClientsLoseServer, Waiting, TypeOK, OneConnected, Connected, PipeInv, serverSide, pipes, clientSide
  <2>5. QED
    BY <2>1, <2>2, <2>3, <2>4 DEF PipesInv
<1>8. ASSUME KillServer PROVE PipesInv'
  <2>1. TypeOK'
    BY <1>8 DEF KillServer, ClientsLoseServer, Waiting, TypeOK, SrvLabels, CltLabels, Pipes, serverSide, pipes, clientSide
  <2>2. OneConnected'
    BY <1>8 DEF KillServer, ClientsLoseServer, Waiting, TypeOK, OneConnected, Connected, serverSide, pipes, clientSide
  <2>3. CallInv'
    BY <1>8 DEF KillServer, ClientsLoseServer, Waiting, TypeOK, CallInv, InCall, serverSide, pipes, clientSide
  <2>4. PipeInv'
    BY <1>8 DEF KillServer, ClientsLoseServer, Waiting, TypeOK, OneConnected, Connected, PipeInv, serverSide, pipes, clientSide
  <2>5. QED
    BY <2>1, <2>2, <2>3, <2>4 DEF PipesInv
<1>9. ASSUME NEW p \in Procs, SrvOpensReply(p) PROVE PipesInv'
  <2>1. TypeOK'
    BY <1>9 DEF SrvOpensReply, ClientsLoseServer, Waiting, Goto, TypeOK, SrvLabels, CltLabels, Pipes, serverSide, pipes, clientSide
  <2>2. OneConnected'
    BY <1>9 DEF SrvOpensReply, ClientsLoseServer, Waiting, Goto, TypeOK, OneConnected, Connected, serverSide, pipes, clientSide
  <2>3. CallInv'
    BY <1>9 DEF SrvOpensReply, ClientsLoseServer, Waiting, Goto, TypeOK, CallInv, InCall, serverSide, pipes, clientSide
  <2>4. PipeInv'
    BY <1>9 DEF SrvOpensReply, ClientsLoseServer, Waiting, Goto, TypeOK, OneConnected, Connected, PipeInv, serverSide, pipes, clientSide
  <2>5. QED
    BY <2>1, <2>2, <2>3, <2>4 DEF PipesInv
<1>10. ASSUME NEW p \in Procs, Call(p) PROVE PipesInv'
  <2>1. TypeOK'
    BY <1>10 DEF Call, Goto, TypeOK, SrvLabels, CltLabels, Pipes, serverSide, pipes, clientSide
  <2>2. OneConnected'
    BY <1>10 DEF Call, Goto, TypeOK, OneConnected, Connected, serverSide, pipes, clientSide
  <2>3. CallInv'
    BY <1>10 DEF Call, Goto, TypeOK, CallInv, InCall, serverSide, pipes, clientSide
  <2>4. PipeInv'
    BY <1>10 DEF Call, Goto, TypeOK, OneConnected, Connected, PipeInv, serverSide, pipes, clientSide
  <2>5. QED
    BY <2>1, <2>2, <2>3, <2>4 DEF PipesInv
<1>11. ASSUME NEW p \in Procs, CltConnect(p) PROVE PipesInv'
  <2>1. TypeOK'
    BY <1>11 DEF CltConnect, Goto, TypeOK, SrvLabels, CltLabels, Pipes, serverSide, pipes, clientSide
  <2>2. OneConnected'
    BY <1>11 DEF CltConnect, Goto, TypeOK, OneConnected, Connected, serverSide, pipes, clientSide
  <2>3. CallInv'
    BY <1>11 DEF CltConnect, Goto, TypeOK, CallInv, InCall, serverSide, pipes, clientSide
  <2>4. PipeInv'
    BY <1>11 DEF CltConnect, Goto, TypeOK, OneConnected, Connected, PipeInv, serverSide, pipes, clientSide
  <2>5. QED
    BY <2>1, <2>2, <2>3, <2>4 DEF PipesInv
<1>12. ASSUME NEW p \in Procs, CltOpen(p) PROVE PipesInv'
  <2>1. TypeOK'
    BY <1>12 DEF CltOpen, Goto, TypeOK, SrvLabels, CltLabels, Pipes, serverSide, pipes, clientSide
  <2>2. OneConnected'
    BY <1>12 DEF CltOpen, Goto, TypeOK, OneConnected, Connected, serverSide, pipes, clientSide
  <2>3. CallInv'
    BY <1>12 DEF CltOpen, Goto, TypeOK, CallInv, InCall, serverSide, pipes, clientSide
  <2>4. PipeInv'
    BY <1>12 DEF CltOpen, Goto, TypeOK, OneConnected, Connected, PipeInv, serverSide, pipes, clientSide
  <2>5. QED
    BY <2>1, <2>2, <2>3, <2>4 DEF PipesInv
<1>13. ASSUME NEW p \in Procs, Meet(p) PROVE PipesInv'
  <2>1. TypeOK'
    BY <1>13 DEF Meet, Goto, TypeOK, SrvLabels, CltLabels, Pipes, serverSide, pipes, clientSide
  <2>2. OneConnected'
    BY <1>13 DEF Meet, Goto, TypeOK, OneConnected, Connected, serverSide, pipes, clientSide
  <2>3. CallInv'
    BY <1>13 DEF Meet, Goto, TypeOK, CallInv, InCall, serverSide, pipes, clientSide
  <2>4. PipeInv'
    BY <1>13 DEF Meet, Goto, TypeOK, OneConnected, Connected, PipeInv, serverSide, pipes, clientSide
  <2>5. QED
    BY <2>1, <2>2, <2>3, <2>4 DEF PipesInv
<1>14. ASSUME NEW p \in Procs, CltWrite(p) PROVE PipesInv'
  <2>1. TypeOK'
    <3>1. rpc[p] \in Messages
      BY <1>14 DEF CltWrite, CallInv, InCall
    <3>2. QED
      BY <1>14, <3>1 DEF CltWrite, Goto, TypeOK, Requested, CltLabels, serverSide
  <2>2. OneConnected'
    BY <1>14 DEF CltWrite, Goto, TypeOK, OneConnected, Connected, serverSide, pipes, clientSide
  <2>3. CallInv'
    BY <1>14 DEF CltWrite, Goto, TypeOK, CallInv, InCall, serverSide, pipes, clientSide
  <2>4. PipeInv'
    BY <1>14 DEF CltWrite, Goto, TypeOK, OneConnected, Connected, PipeInv, serverSide, pipes, clientSide
  <2>5. QED
    BY <2>1, <2>2, <2>3, <2>4 DEF PipesInv
<1>15. ASSUME NEW p \in Procs, CltRead(p) PROVE PipesInv'
  <2>1. TypeOK'
    BY <1>15 DEF CltRead, Goto, TypeOK, SrvLabels, CltLabels, Pipes, serverSide, pipes, clientSide
  <2>2. OneConnected'
    BY <1>15 DEF CltRead, Goto, TypeOK, OneConnected, Connected, serverSide, pipes, clientSide
  <2>3. CallInv'
    BY <1>15 DEF CltRead, Goto, TypeOK, CallInv, InCall, serverSide, pipes, clientSide
  <2>4. PipeInv'
    BY <1>15 DEF CltRead, Goto, TypeOK, OneConnected, Connected, PipeInv, serverSide, pipes, clientSide
  <2>5. QED
    BY <2>1, <2>2, <2>3, <2>4 DEF PipesInv
<1>16. ASSUME NEW p \in Procs, CltDisconnect(p) PROVE PipesInv'
  <2>1. TypeOK'
    <3>1. InCall(p)
      BY <1>16 DEF CltDisconnect, InCall
    <3>2. AddMessage(request[p]) \in Messages
      BY <3>1 DEF CallInv
    <3>3. QED
      BY <1>16, <3>2 DEF CltDisconnect, Goto, TypeOK, CltLabels, serverSide
  <2>2. OneConnected'
    BY <1>16 DEF CltDisconnect, Goto, TypeOK, OneConnected, Connected, serverSide, pipes, clientSide
  <2>3. CallInv'
    BY <1>16 DEF CltDisconnect, Goto, TypeOK, CallInv, InCall, serverSide, pipes, clientSide
  <2>4. PipeInv'
    BY <1>16 DEF CltDisconnect, Goto, TypeOK, OneConnected, Connected, PipeInv, serverSide, pipes, clientSide
  <2>5. QED
    BY <2>1, <2>2, <2>3, <2>4 DEF PipesInv
<1>17. ASSUME NEW p \in Procs, KillClient(p) PROVE PipesInv'
  <2>1. TypeOK'
    BY <1>17 DEF KillClient, Goto, TypeOK, SrvLabels, CltLabels, Pipes, serverSide, pipes, clientSide
  <2>2. OneConnected'
    BY <1>17 DEF KillClient, Goto, TypeOK, OneConnected, Connected, serverSide, pipes, clientSide
  <2>3. CallInv'
    BY <1>17 DEF KillClient, Goto, TypeOK, CallInv, InCall, serverSide, pipes, clientSide
  <2>4. PipeInv'
    BY <1>17 DEF KillClient, Goto, TypeOK, OneConnected, Connected, PipeInv, serverSide, pipes, clientSide
  <2>5. QED
    BY <2>1, <2>2, <2>3, <2>4 DEF PipesInv
<1>18. CASE UNCHANGED vars
  BY <1>18 DEF vars, serverSide, pipes, clientSide, PipesInv, TypeOK, OneConnected, Connected,
                CallInv, InCall, PipeInv
<1>19. QED
  BY <1>1, <1>2, <1>3, <1>4, <1>5, <1>6, <1>7, <1>8, <1>9, <1>10, <1>11, <1>12, <1>13, <1>14, <1>15, <1>16, <1>17, <1>18
  DEF Next, SrvStep, CltStep

-----------------------------------------------------------------------------
\* The invariant holds before the server is started.
LEMMA InitInv == Init => FifoInv
  BY PipesInit DEF FifoInv, Init, AnswerInv, ServeInv, RoundInv, Served, Written

\* The server's answer finds a pipe linked (fifo.c:54), be it a dead client's.
LEMMA ReplyHasPipe == FifoInv /\ srv = "reply" => s2c
<1> SUFFICES ASSUME FifoInv, srv = "reply" PROVE s2c
  OBVIOUS
<1>1. PICK c \in Procs : serving.from = c
  BY DEF FifoInv, AnswerInv, Requested
<1>2. pc[c] = "recv" \/ (pc[c] = "exited" /\ s2c)
  BY <1>1 DEF FifoInv, ServeInv, Served
<1>3. QED
  BY <1>2 DEF FifoInv, PipesInv, OneConnected, Connected

\* What is in the pipes and at the server stays the message, and the answer,
\* of the client that waits for it.
LEMMA StepInv == FifoInv /\ [Next]_vars => FifoInv'
<1> SUFFICES ASSUME FifoInv, [Next]_vars PROVE FifoInv'
  OBVIOUS
<1>1. PipesInv'
  BY PipesNext DEF FifoInv
<1>2. /\ TypeOK /\ OneConnected /\ CallInv /\ PipeInv /\ AnswerInv
      /\ \A q \in Procs : ServeInv(q) /\ RoundInv(q)
  BY DEF FifoInv, PipesInv
<1> DEFINE Kept == AnswerInv' /\ \A q \in Procs : ServeInv(q)' /\ RoundInv(q)'
<1>3. ASSUME SrvStart PROVE Kept
  <2>1. AnswerInv'
    BY <1>2, <1>3 DEF SrvStart, AnswerInv, TypeOK, serverSide, pipes, clientSide
  <2>2. ASSUME NEW q \in Procs PROVE ServeInv(q)'
    BY <1>2, <1>3 DEF SrvStart, AnswerInv, ServeInv, RoundInv, Served, Written, TypeOK, Requested,
       OneConnected, Connected, PipeInv, CltLabels, SrvLabels, serverSide, pipes, clientSide
  <2>3. ASSUME NEW q \in Procs PROVE RoundInv(q)'
    BY <1>2, <1>3 DEF SrvStart, AnswerInv, RoundInv, TypeOK, CltLabels, serverSide, pipes, clientSide
  <2>4. QED
    BY <2>1, <2>2, <2>3
<1>4. ASSUME SrvConnect PROVE Kept
  <2>1. AnswerInv'
    BY <1>2, <1>4 DEF SrvConnect, ClientsLoseServer, Waiting, AnswerInv, TypeOK, serverSide, pipes, clientSide
  <2>2. ASSUME NEW q \in Procs PROVE ServeInv(q)'
    BY <1>2, <1>4 DEF SrvConnect, ClientsLoseServer, Waiting, AnswerInv, ServeInv, RoundInv, Served, Written, TypeOK, Requested,
       OneConnected, Connected, PipeInv, CltLabels, SrvLabels, serverSide, pipes, clientSide
  <2>3. ASSUME NEW q \in Procs PROVE RoundInv(q)'
    BY <1>2, <1>4 DEF SrvConnect, ClientsLoseServer, Waiting, AnswerInv, RoundInv, TypeOK, CltLabels, serverSide, pipes, clientSide
  <2>4. QED
    BY <2>1, <2>2, <2>3
<1>5. ASSUME SrvRead PROVE Kept
  <2>1. AnswerInv'
    BY <1>2, <1>5 DEF SrvRead, AnswerInv, TypeOK, serverSide, pipes, clientSide
  <2>2. ASSUME NEW q \in Procs PROVE ServeInv(q)'
    BY <1>2, <1>5 DEF SrvRead, AnswerInv, ServeInv, RoundInv, Served, Written, TypeOK, Requested,
       OneConnected, Connected, PipeInv, CltLabels, SrvLabels, serverSide, pipes, clientSide
  <2>3. ASSUME NEW q \in Procs PROVE RoundInv(q)'
    BY <1>2, <1>5 DEF SrvRead, AnswerInv, RoundInv, TypeOK, CltLabels, serverSide, pipes, clientSide
  <2>4. QED
    BY <2>1, <2>2, <2>3
<1>6. ASSUME SrvHandle PROVE Kept
  <2>1. AnswerInv'
    <3> DEFINE m == serving.message
    <3>1. m \in Messages /\ stock[m.name] \in Ints \cup {Absent}
      BY <1>2, <1>6 DEF SrvHandle, AnswerInv, TypeOK, Requested, Messages
    <3>2. answer' \in Responses
      BY <1>6, <3>1, HandlerTypes DEF SrvHandle
    <3>3. QED
      BY <1>2, <1>6, <3>2 DEF SrvHandle, AnswerInv
  <2>2. ASSUME NEW q \in Procs PROVE ServeInv(q)'
    BY <1>2, <1>6 DEF SrvHandle, AnswerInv, ServeInv, RoundInv, Served, Written, TypeOK, Requested,
       OneConnected, Connected, PipeInv, CltLabels, SrvLabels, serverSide, pipes, clientSide
  <2>3. ASSUME NEW q \in Procs PROVE RoundInv(q)'
    BY <1>2, <1>6 DEF SrvHandle, AnswerInv, RoundInv, TypeOK, CltLabels, serverSide, pipes, clientSide
  <2>4. QED
    BY <2>1, <2>2, <2>3
<1>7. ASSUME SrvRespond PROVE Kept
  <2>1. AnswerInv'
    BY <1>2, <1>7 DEF SrvRespond, ClientsLoseServer, Waiting, AnswerInv, TypeOK, serverSide, pipes, clientSide
  <2>2. ASSUME NEW q \in Procs PROVE ServeInv(q)'
    BY <1>2, <1>7 DEF SrvRespond, ClientsLoseServer, Waiting, AnswerInv, ServeInv, RoundInv, Served, Written, TypeOK, Requested,
       OneConnected, Connected, PipeInv, CltLabels, SrvLabels, serverSide, pipes, clientSide
  <2>3. ASSUME NEW q \in Procs PROVE RoundInv(q)'
    BY <1>2, <1>7 DEF SrvRespond, ClientsLoseServer, Waiting, AnswerInv, RoundInv, TypeOK, CltLabels, serverSide, pipes, clientSide
  <2>4. QED
    BY <2>1, <2>2, <2>3
<1>8. ASSUME SrvDisconnect PROVE Kept
  <2>1. AnswerInv'
    BY <1>2, <1>8 DEF SrvDisconnect, AnswerInv, TypeOK, serverSide, pipes, clientSide
  <2>2. ASSUME NEW q \in Procs PROVE ServeInv(q)'
    BY <1>2, <1>8 DEF SrvDisconnect, AnswerInv, ServeInv, RoundInv, Served, Written, TypeOK, Requested,
       OneConnected, Connected, PipeInv, CltLabels, SrvLabels, serverSide, pipes, clientSide
  <2>3. ASSUME NEW q \in Procs PROVE RoundInv(q)'
    BY <1>2, <1>8 DEF SrvDisconnect, AnswerInv, RoundInv, TypeOK, CltLabels, serverSide, pipes, clientSide
  <2>4. QED
    BY <2>1, <2>2, <2>3
<1>9. ASSUME SrvStop PROVE Kept
  <2>1. AnswerInv'
    BY <1>2, <1>9 DEF SrvStop, ClientsLoseServer, Waiting, AnswerInv, TypeOK, serverSide, pipes, clientSide
  <2>2. ASSUME NEW q \in Procs PROVE ServeInv(q)'
    BY <1>2, <1>9 DEF SrvStop, ClientsLoseServer, Waiting, AnswerInv, ServeInv, RoundInv, Served, Written, TypeOK, Requested,
       OneConnected, Connected, PipeInv, CltLabels, SrvLabels, serverSide, pipes, clientSide
  <2>3. ASSUME NEW q \in Procs PROVE RoundInv(q)'
    BY <1>2, <1>9 DEF SrvStop, ClientsLoseServer, Waiting, AnswerInv, RoundInv, TypeOK, CltLabels, serverSide, pipes, clientSide
  <2>4. QED
    BY <2>1, <2>2, <2>3
<1>10. ASSUME KillServer PROVE Kept
  <2>1. AnswerInv'
    BY <1>2, <1>10 DEF KillServer, ClientsLoseServer, Waiting, AnswerInv, TypeOK, serverSide, pipes, clientSide
  <2>2. ASSUME NEW q \in Procs PROVE ServeInv(q)'
    BY <1>2, <1>10 DEF KillServer, ClientsLoseServer, Waiting, AnswerInv, ServeInv, RoundInv, Served, Written, TypeOK, Requested,
       OneConnected, Connected, PipeInv, CltLabels, SrvLabels, serverSide, pipes, clientSide
  <2>3. ASSUME NEW q \in Procs PROVE RoundInv(q)'
    BY <1>2, <1>10 DEF KillServer, ClientsLoseServer, Waiting, AnswerInv, RoundInv, TypeOK, CltLabels, serverSide, pipes, clientSide
  <2>4. QED
    BY <2>1, <2>2, <2>3
<1>11. ASSUME NEW p \in Procs, SrvOpensReply(p) PROVE Kept
  <2>0. s2c
    BY <1>11, ReplyHasPipe DEF SrvOpensReply
  <2>1. AnswerInv'
    BY <1>2, <1>11, <2>0 DEF SrvOpensReply, Goto, AnswerInv, TypeOK, serverSide, pipes, clientSide
  <2>2. ASSUME NEW q \in Procs PROVE ServeInv(q)'
    BY <1>2, <1>11, <2>0 DEF SrvOpensReply, Goto, AnswerInv, ServeInv, RoundInv, Served, Written, TypeOK, Requested,
       OneConnected, Connected, PipeInv, CltLabels, SrvLabels, serverSide, pipes, clientSide
  <2>3. ASSUME NEW q \in Procs PROVE RoundInv(q)'
    BY <1>2, <1>11, <2>0 DEF SrvOpensReply, Goto, AnswerInv, RoundInv, TypeOK, CltLabels, serverSide, pipes, clientSide
  <2>4. QED
    BY <2>1, <2>2, <2>3
<1>12. ASSUME NEW p \in Procs, Call(p) PROVE Kept
  <2>1. AnswerInv'
    BY <1>2, <1>12 DEF Call, Goto, AnswerInv, TypeOK, serverSide, pipes, clientSide
  <2>2. ASSUME NEW q \in Procs PROVE ServeInv(q)'
    BY <1>2, <1>12 DEF Call, Goto, AnswerInv, ServeInv, RoundInv, Served, Written, TypeOK, Requested,
       OneConnected, Connected, PipeInv, CltLabels, SrvLabels, serverSide, pipes, clientSide
  <2>3. ASSUME NEW q \in Procs PROVE RoundInv(q)'
    BY <1>2, <1>12 DEF Call, Goto, AnswerInv, RoundInv, TypeOK, CltLabels, serverSide, pipes, clientSide
  <2>4. QED
    BY <2>1, <2>2, <2>3
<1>13. ASSUME NEW p \in Procs, CltConnect(p) PROVE Kept
  <2>1. AnswerInv'
    BY <1>2, <1>13 DEF CltConnect, Goto, AnswerInv, TypeOK, serverSide, pipes, clientSide
  <2>2. ASSUME NEW q \in Procs PROVE ServeInv(q)'
    BY <1>2, <1>13 DEF CltConnect, Goto, AnswerInv, ServeInv, RoundInv, Served, Written, TypeOK, Requested,
       OneConnected, Connected, PipeInv, CltLabels, SrvLabels, serverSide, pipes, clientSide
  <2>3. ASSUME NEW q \in Procs PROVE RoundInv(q)'
    BY <1>2, <1>13 DEF CltConnect, Goto, AnswerInv, RoundInv, TypeOK, CltLabels, serverSide, pipes, clientSide
  <2>4. QED
    BY <2>1, <2>2, <2>3
<1>14. ASSUME NEW p \in Procs, CltOpen(p) PROVE Kept
  <2>1. AnswerInv'
    BY <1>2, <1>14 DEF CltOpen, Goto, AnswerInv, TypeOK, serverSide, pipes, clientSide
  <2>2. ASSUME NEW q \in Procs PROVE ServeInv(q)'
    BY <1>2, <1>14 DEF CltOpen, Goto, AnswerInv, ServeInv, RoundInv, Served, Written, TypeOK, Requested,
       OneConnected, Connected, PipeInv, CltLabels, SrvLabels, serverSide, pipes, clientSide
  <2>3. ASSUME NEW q \in Procs PROVE RoundInv(q)'
    BY <1>2, <1>14 DEF CltOpen, Goto, AnswerInv, RoundInv, TypeOK, CltLabels, serverSide, pipes, clientSide
  <2>4. QED
    BY <2>1, <2>2, <2>3
<1>15. ASSUME NEW p \in Procs, Meet(p) PROVE Kept
  <2>1. AnswerInv'
    BY <1>2, <1>15 DEF Meet, Goto, AnswerInv, TypeOK, serverSide, pipes, clientSide
  <2>2. ASSUME NEW q \in Procs PROVE ServeInv(q)'
    BY <1>2, <1>15 DEF Meet, Goto, AnswerInv, ServeInv, RoundInv, Served, Written, TypeOK, Requested,
       OneConnected, Connected, PipeInv, CltLabels, SrvLabels, serverSide, pipes, clientSide
  <2>3. ASSUME NEW q \in Procs PROVE RoundInv(q)'
    BY <1>2, <1>15 DEF Meet, Goto, AnswerInv, RoundInv, TypeOK, CltLabels, serverSide, pipes, clientSide
  <2>4. QED
    BY <2>1, <2>2, <2>3
<1>16. ASSUME NEW p \in Procs, CltWrite(p) PROVE Kept
  <2>1. AnswerInv'
    BY <1>2, <1>16 DEF CltWrite, Goto, AnswerInv, TypeOK, serverSide, pipes, clientSide
  <2>2. ASSUME NEW q \in Procs PROVE ServeInv(q)'
    BY <1>2, <1>16 DEF CltWrite, Goto, AnswerInv, ServeInv, RoundInv, Served, Written, TypeOK, Requested,
       OneConnected, Connected, PipeInv, CltLabels, SrvLabels, serverSide, pipes, clientSide
  <2>3. ASSUME NEW q \in Procs PROVE RoundInv(q)'
    BY <1>2, <1>16 DEF CltWrite, Goto, AnswerInv, RoundInv, TypeOK, CltLabels, serverSide, pipes, clientSide
  <2>4. QED
    BY <2>1, <2>2, <2>3
<1>17. ASSUME NEW p \in Procs, CltRead(p) PROVE Kept
  <2>1. AnswerInv'
    BY <1>2, <1>17 DEF CltRead, Goto, AnswerInv, TypeOK, serverSide, pipes, clientSide
  <2>2. ASSUME NEW q \in Procs PROVE ServeInv(q)'
    BY <1>2, <1>17 DEF CltRead, Goto, AnswerInv, ServeInv, RoundInv, Served, Written, TypeOK, Requested,
       OneConnected, Connected, PipeInv, CltLabels, SrvLabels, serverSide, pipes, clientSide
  <2>3. ASSUME NEW q \in Procs PROVE RoundInv(q)'
    BY <1>2, <1>17 DEF CltRead, Goto, AnswerInv, RoundInv, TypeOK, CltLabels, serverSide, pipes, clientSide
  <2>4. QED
    BY <2>1, <2>2, <2>3
<1>18. ASSUME NEW p \in Procs, CltDisconnect(p) PROVE Kept
  <2>1. AnswerInv'
    BY <1>2, <1>18 DEF CltDisconnect, Goto, AnswerInv, TypeOK, serverSide, pipes, clientSide
  <2>2. ASSUME NEW q \in Procs PROVE ServeInv(q)'
    BY <1>2, <1>18 DEF CltDisconnect, Goto, AnswerInv, ServeInv, RoundInv, Served, Written, TypeOK, Requested,
       OneConnected, Connected, PipeInv, CltLabels, SrvLabels, serverSide, pipes, clientSide
  <2>3. ASSUME NEW q \in Procs PROVE RoundInv(q)'
    BY <1>2, <1>18 DEF CltDisconnect, Goto, AnswerInv, RoundInv, TypeOK, CltLabels, serverSide, pipes, clientSide
  <2>4. QED
    BY <2>1, <2>2, <2>3
<1>19. ASSUME NEW p \in Procs, KillClient(p) PROVE Kept
  <2>1. AnswerInv'
    BY <1>2, <1>19 DEF KillClient, Goto, AnswerInv, TypeOK, serverSide, pipes, clientSide
  <2>2. ASSUME NEW q \in Procs PROVE ServeInv(q)'
    BY <1>2, <1>19 DEF KillClient, Goto, AnswerInv, ServeInv, RoundInv, Served, Written, TypeOK, Requested,
       OneConnected, Connected, PipeInv, CltLabels, SrvLabels, serverSide, pipes, clientSide
  <2>3. ASSUME NEW q \in Procs PROVE RoundInv(q)'
    BY <1>2, <1>19 DEF KillClient, Goto, AnswerInv, RoundInv, TypeOK, CltLabels, serverSide, pipes, clientSide
  <2>4. QED
    BY <2>1, <2>2, <2>3
<1>20. ASSUME UNCHANGED vars PROVE Kept
  <2> USE <1>20 DEF vars, serverSide, pipes, clientSide
  <2>1. AnswerInv'
    BY <1>2 DEF AnswerInv
  <2>2. ASSUME NEW q \in Procs PROVE ServeInv(q)'
    BY <1>2 DEF ServeInv, Served, Written, Connected
  <2>3. ASSUME NEW q \in Procs PROVE RoundInv(q)'
    BY <1>2 DEF RoundInv
  <2>4. QED
    BY <2>1, <2>2, <2>3
<1>21. QED
  BY <1>1, <1>3, <1>4, <1>5, <1>6, <1>7, <1>8, <1>9, <1>10, <1>11, <1>12, <1>13, <1>14, <1>15, <1>16, <1>17, <1>18, <1>19, <1>20
  DEF FifoInv, Next, SrvStep, CltStep

-----------------------------------------------------------------------------
\* Whoever is killed and restarted, at most one client holds the pipe
\* "srv->clt", and every message and response is one of msg.h.
THEOREM FifoInvariant == Spec => []FifoInv
  BY InitInv, StepInv, PTL DEF Spec

\* ipc_connect of a client works as a lock (fifo.c:45).
THEOREM OneClientConnected == Spec => []OneConnected
<1>1. FifoInv => OneConnected
  BY DEF FifoInv, PipesInv
<1>2. QED
  BY <1>1, FifoInvariant, PTL

\* The server's ipc_connect never finds its pipe there, and with no kills
\* its answer always has a reader: it stops only when it is stopped.
THEOREM ServerStaysUp == Spec => OnlyFaultsStopServer
<1>1. FifoInv /\ [Next]_vars => [srv # "down" /\ srv' = "down" => faults' > 0]_vars
  <2> SUFFICES ASSUME FifoInv, Next, srv # "down", srv' = "down" PROVE faults' > 0
    OBVIOUS
  <2> USE DEF FifoInv, PipesInv
  <2>1. CASE SrvStep
    <3>1. ~SrvConnect
      BY DEF SrvConnect, PipeInv
    <3>2. CASE SrvRespond
      BY <3>2 DEF SrvRespond, PipeInv, TypeOK
    <3>3. QED
      BY <2>1, <3>1, <3>2 DEF SrvStep, SrvRead, SrvHandle, SrvDisconnect
  <2>2. CASE SrvStop \/ KillServer
    BY <2>2 DEF SrvStop, KillServer, TypeOK
  <2>3. ~SrvStart
    BY DEF SrvStart
  <2>4. ASSUME NEW p \in Procs, Call(p) \/ CltStep(p) \/ KillClient(p) PROVE FALSE
    BY <2>4, ReplyHasPipe
    DEF Call, CltStep, KillClient, CltConnect, CltOpen, Meet, CltWrite, SrvOpensReply, CltRead,
        CltDisconnect, serverSide
  <2>5. QED
    BY <2>1, <2>2, <2>3, <2>4 DEF Next
<1>2. QED
  BY <1>1, FifoInvariant, PTL DEF Spec, OnlyFaultsStopServer

-----------------------------------------------------------------------------
\* What StockServer_proofs says of a step, about the clients as seen here.
Facts == INSTANCE StockServer_proofs
           WITH request <- RequestNow, rpc <- RpcNow, resp <- RespNow

\* The views are functions, and the constants are as assumed here.
LEMMA Viewed ==
  /\ Facts!Views /\ Facts!Views'
  /\ IntMax \in Nat /\ Quantities \subseteq Facts!Ints /\ Absent \notin Int
  BY IntMaxAssumption, QuantitiesAssumption, AbsentAssumption
     DEF Facts!Views, RequestNow, RpcNow, RespNow, Facts!Ints, Ints

\* Both instances have the data of this module, and the same steps.
LEMMA SameData ==
  /\ Facts!Requests = Requests
  /\ \A r : /\ Facts!Refused(r) <=> Refused(r)
            /\ Facts!FirstMessage(r) = FirstMessage(r) /\ Facts!AddMessage(r) = AddMessage(r)
            /\ \A m, x : Facts!GoesOn(r, m, x) <=> GoesOn(r, m, x)
  /\ \A m, x : /\ Facts!HoldsAfter(m, x) = HoldsAfter(m, x)
               /\ Facts!ResponseTo(m, x) = ResponseTo(m, x)
  BY DEF Facts!Requests, Requests, Facts!Refused, Refused, Facts!FirstMessage, FirstMessage,
         Facts!AddMessage, AddMessage, Facts!Message, Message, Facts!Delta, Delta,
         Facts!GoesOn, GoesOn, Facts!HoldsAfter, HoldsAfter, Facts!Wrap, Wrap,
         Facts!ResponseTo, ResponseTo

\* A step of the one instance is a step of the other.
LEMMA SameSteps == Facts!ServerNext => Service!ServerNext
  BY DEF Facts!ServerNext, Service!ServerNext, Facts!Forget, Service!Forget, Facts!Call, Service!Call,
         Facts!Serve, Service!Serve, Facts!Answer, Service!Answer, Facts!Die, Service!Die,
         Facts!ServeDead, Service!ServeDead, Facts!Lose, Service!Lose, Facts!Dead, Service!Dead,
         Facts!Requests, Service!Requests, Facts!Refused, Service!Refused,
         Facts!FirstMessage, Service!FirstMessage, Facts!AddMessage, Service!AddMessage,
         Facts!Message, Service!Message, Facts!Delta, Service!Delta, Facts!GoesOn, Service!GoesOn,
         Facts!HoldsAfter, Service!HoldsAfter, Facts!Wrap, Service!Wrap,
         Facts!ResponseTo, Service!ResponseTo

-----------------------------------------------------------------------------
\* The three views, case by case.
LEMMA Seen ==
  ASSUME NEW q \in Procs
  PROVE  /\ RequestNow[q] = IF Lost(q) THEN Gone ELSE request[q]
         /\ RpcNow[q] = IF Lost(q) /\ ~InService(q) THEN NoMessage ELSE rpc[q]
         /\ RespNow[q] = IF Lost(q) THEN Pending
                         ELSE IF srv \in {"reply", "respond"} /\ serving.from = q THEN answer
                         ELSE IF pc[q] = "reading" /\ outbox # Pending THEN outbox
                         ELSE resp[q]
  BY DEF RequestNow, RpcNow, RespNow

\* The same after the step.
LEMMA SeenThen ==
  ASSUME NEW q \in Procs
  PROVE  /\ RequestNow'[q] = IF Lost(q)' THEN Gone ELSE request'[q]
         /\ RpcNow'[q] = IF Lost(q)' /\ ~InService(q)' THEN NoMessage ELSE rpc'[q]
         /\ RespNow'[q] = IF Lost(q)' THEN Pending
                          ELSE IF srv' \in {"reply", "respond"} /\ serving'.from = q THEN answer'
                          ELSE IF pc'[q] = "reading" /\ outbox' # Pending THEN outbox'
                          ELSE resp'[q]
  BY DEF RequestNow, RpcNow, RespNow

\* Before the server is started nobody waits for anything.
LEMMA InitRefines == Init => Service!ServerInit
<1> SUFFICES ASSUME Init PROVE Service!ServerInit
  OBVIOUS
<1>1. ASSUME NEW q \in Procs
      PROVE  RequestNow[q] = Idle /\ RpcNow[q] = NoMessage /\ RespNow[q] = Pending
  BY Seen DEF Init, Lost
<1>2. QED
  BY <1>1 DEF Init, Service!ServerInit, RequestNow, RpcNow, RespNow

\* Two clients cannot both wait for the server.
LEMMA OneWaits ==
  ASSUME FifoInv, NEW p \in Procs, Connected(p)
  PROVE  \A q \in Procs \ {p} : ~Connected(q) /\ (Served(q) => pc[q] = "exited")
<1>1. \A q \in Procs \ {p} : ~Connected(q)
  BY DEF FifoInv, PipesInv, OneConnected
<1>2. QED
  BY <1>1 DEF FifoInv, ServeInv, Connected

\* When the server ends, or is started again, the client that waits for it is
\* lost, and so is a message it was at work on.
LEMMA ServerEnds ==
  ASSUME FifoInv, srv' = "down" \/ srv = "down", srv' \notin {"handle", "reply", "respond"},
         UNCHANGED <<stock, request, rpc, resp>>, outbox' = Pending \/ outbox' = outbox,
         NEW W \in SUBSET Waiting, srv # "down" => W = Waiting,
         pc' = [p \in Procs |-> IF pc[p] \in W THEN "stuck" ELSE pc[p]],
         outbox' # outbox => W = Waiting
  PROVE  Facts!ServerNext
<1>1. \A q \in Procs : ServeInv(q) /\ RoundInv(q) /\ ~InService(q)'
  BY DEF FifoInv, InService
<1>2. /\ \A q \in Procs : pc'[q] = IF pc[q] \in W THEN "stuck" ELSE pc[q]
      /\ \A q \in Procs : ~Lost(q) => RequestNow[q] # Gone
  BY Seen, FifoValuesAssumption DEF FifoInv, PipesInv, TypeOK
<1>3. ASSUME NEW q \in Procs, pc[q] \notin W
      PROVE  /\ RequestNow'[q] = RequestNow[q]
             /\ RespNow'[q] = RespNow[q]
             /\ RpcNow'[q] = RpcNow[q] \/ (RequestNow[q] = Gone /\ RpcNow'[q] = NoMessage)
  <2>1. Lost(q)' <=> Lost(q)
    BY <1>2, <1>3 DEF Lost
  <2>2. ~Lost(q) => ~Served(q)
    BY <1>1, <1>3 DEF ServeInv, Waiting, Served, Lost
  <2>3. ~Lost(q) => RespNow'[q] = RespNow[q]
    BY <1>2, <1>3, <2>1, <2>2, Seen, SeenThen DEF Served, Waiting
  <2>4. QED
    BY <1>1, <2>1, <2>3, Seen, SeenThen DEF Lost
<1>4. CASE \E p \in Procs : pc[p] \in W
  <2>1. PICK p \in Procs : pc[p] \in W
    BY <1>4
  <2>2. \A q \in Procs \ {p} : pc[q] \notin W
    BY <2>1, OneWaits DEF Waiting, Connected
  <2>3. ~Lost(p) /\ Lost(p)'
    BY <1>2, <2>1 DEF Lost, Waiting
  <2>4. RequestNow[p] # Gone /\ RequestNow'[p] = Gone /\ RespNow'[p] = Pending /\ RpcNow'[p] = NoMessage
    BY <1>1, <1>2, <2>3, SeenThen
  <2>5. QED
    BY <1>3, <2>2, <2>4, Facts!DieStep, Viewed
<1>5. CASE \A p \in Procs : pc[p] \notin W
  BY <1>3, <1>5, Facts!QuietStep, Viewed
<1>6. QED
  BY <1>4, <1>5

\* Every step of Fifo is a step of StockServer.
LEMMA StepRefines ==
  ASSUME FifoInv, Next
  PROVE  Facts!ServerNext
<1> DEFINE Same(q) == /\ RequestNow'[q] = RequestNow[q]
                      /\ RpcNow'[q] = RpcNow[q]
                      /\ RespNow'[q] = RespNow[q]
<1> HIDE DEF Same
<1>1. /\ TypeOK /\ OneConnected /\ CallInv /\ PipeInv /\ AnswerInv
      /\ \A q \in Procs : ServeInv(q) /\ RoundInv(q)
      /\ \A q \in Procs : ~Lost(q) => RequestNow[q] # Gone
  BY Seen, FifoValuesAssumption DEF FifoInv, PipesInv, TypeOK
<1>2. ASSUME stock' = stock, \A q \in Procs : Same(q) PROVE Facts!ServerNext
  BY <1>2, Facts!QuietStep, Viewed DEF Same
<1>3. ASSUME SrvStart PROVE Facts!ServerNext
  <2>1. {"opening"} \in SUBSET Waiting
    BY DEF Waiting
  <2>2. QED
    BY <1>3, <2>1, ServerEnds DEF SrvStart, pipes
<1>4. ASSUME ClientsLoseServer, UNCHANGED <<stock, request, rpc, resp>>, srv # "down"
      PROVE  Facts!ServerNext
  BY <1>4, ServerEnds DEF ClientsLoseServer
<1>5. ASSUME SrvConnect PROVE Facts!ServerNext
  <2>1. UNCHANGED <<stock, clientSide, outbox>> /\ srv = "connect" /\ srv' = "recv"
    BY <1>1, <1>5 DEF SrvConnect, PipeInv, clientSide
  <2>2. ASSUME NEW q \in Procs PROVE Same(q)
    BY <2>1, Seen, SeenThen DEF clientSide, Same, Lost, InService
  <2>3. QED
    BY <1>2, <2>1, <2>2
<1>6. ASSUME SrvRead PROVE Facts!ServerNext
  <2>1. /\ UNCHANGED <<stock, clientSide, outbox>> /\ srv = "read" /\ srv' = "handle"
        /\ serving' = inbox /\ inbox # NoMessage
    BY <1>6 DEF SrvRead
  <2>2. ASSUME NEW q \in Procs PROVE Same(q)
    <3>1. InService(q)' => pc[q] = "recv"
      BY <1>1, <2>1 DEF InService, ServeInv, Written
    <3>2. QED
      BY <2>1, <3>1, Seen, SeenThen DEF clientSide, Same, Lost, InService
  <2>3. QED
    BY <1>2, <2>1, <2>2
<1>7. ASSUME SrvHandle PROVE Facts!ServerNext
  <2>1. PICK c \in Procs : serving.from = c
    BY <1>1, <1>7 DEF SrvHandle, AnswerInv, Requested
  <2>2. PICK m \in Messages : serving.message = m
    BY <1>1, <1>7 DEF SrvHandle, AnswerInv, Requested
  <2>3. /\ UNCHANGED <<clientSide, outbox, serving>> /\ srv = "handle" /\ srv' = "reply"
        /\ stock' = [stock EXCEPT ![m.name] = HoldsAfter(m, @)]
        /\ answer' = ResponseTo(m, stock[m.name])
    BY <1>7, <2>2 DEF SrvHandle, pipes
  <2>4. m # NoMessage /\ rpc[c] = m /\ pc[c] \in {"recv", "exited"}
    BY <1>1, <2>1, <2>2, <2>3, FifoValuesAssumption DEF ServeInv, Served
  <2>5. InService(c) /\ \A q \in Procs : (q # c => ~InService(q)) /\ ~InService(q)'
    BY <2>1, <2>3 DEF InService
  <2>6. RpcNow[c] = m /\ RequestNow'[c] = RequestNow[c]
    BY <2>3, <2>4, <2>5, Seen, SeenThen DEF clientSide, Lost
  <2>7. ASSUME NEW q \in Procs \ {c} PROVE Same(q)
    <3>1. (Lost(q)' <=> Lost(q)) /\ ~InService(q) /\ ~InService(q)' /\ serving'.from # q
      BY <2>1, <2>3, <2>5, <2>7 DEF clientSide, Lost
    <3>2. QED
      BY <2>1, <2>3, <3>1, Seen, SeenThen DEF clientSide, Same
  <2>8. IF RequestNow[c] = Gone
        THEN RpcNow'[c] = NoMessage /\ RespNow'[c] = RespNow[c]
        ELSE /\ RpcNow'[c] = RpcNow[c]
             /\ RespNow[c] = Pending /\ RespNow'[c] = ResponseTo(m, stock[m.name])
    <3>1. CASE pc[c] = "exited"
      BY <2>3, <2>5, <3>1, Seen, SeenThen DEF clientSide, Lost
    <3>2. CASE pc[c] = "recv"
      <4>1. resp[c] = Pending /\ RequestNow[c] # Gone
        BY <1>1, <3>2 DEF RoundInv, Lost
      <4>2. QED
        BY <2>1, <2>3, <2>5, <3>2, <4>1, Seen, SeenThen DEF clientSide, Lost
    <3>3. QED
      BY <2>4, <3>1, <3>2
  <2>9. QED
    BY <2>3, <2>4, <2>6, <2>7, <2>8, Facts!ServeStep, Viewed, SameData DEF Same
<1>8. ASSUME SrvRespond PROVE Facts!ServerNext
  <2>1. CASE ~\E p \in Procs : pc[p] = "reading"
    BY <1>4, <1>8, <2>1 DEF SrvRespond
  <2>2. CASE \E p \in Procs : pc[p] = "reading"
    <3>1. PICK c \in Procs : pc[c] = "reading"
      BY <2>2
    <3>2. /\ UNCHANGED <<stock, clientSide>> /\ srv = "respond" /\ srv' = "disconnect"
          /\ outbox' = answer /\ answer # Pending
      BY <1>1, <1>8, <2>2, FifoValuesAssumption DEF SrvRespond, AnswerInv, clientSide
    <3>3. serving.from = c
      <4>1. PICK s \in Procs : serving.from = s
        BY <1>1, <3>2 DEF AnswerInv, Requested
      <4>2. s # c => pc[s] = "exited" /\ ~Connected(c)
        BY <1>1, <3>1, <3>2, <4>1, OneWaits DEF ServeInv, Served, Connected
      <4>3. QED
        BY <3>1, <4>1, <4>2 DEF Connected
    <3>4. Same(c)
      BY <3>1, <3>2, <3>3, Seen, SeenThen DEF clientSide, Same, Lost, InService
    <3>5. ASSUME NEW q \in Procs \ {c} PROVE Same(q)
      <4>1. pc[q] # "reading"
        BY <3>1, <3>5, OneWaits DEF Connected
      <4>2. QED
        BY <3>2, <3>3, <3>5, <4>1, Seen, SeenThen DEF clientSide, Same, Lost, InService
    <3>6. QED
      BY <1>2, <3>2, <3>4, <3>5
  <2>3. QED
    BY <2>1, <2>2
<1>9. ASSUME SrvDisconnect PROVE Facts!ServerNext
  <2>1. UNCHANGED <<stock, clientSide, outbox>> /\ srv = "disconnect" /\ srv' = "connect"
    BY <1>9 DEF SrvDisconnect, pipes
  <2>2. ASSUME NEW q \in Procs PROVE Same(q)
    BY <2>1, Seen, SeenThen DEF clientSide, Same, Lost, InService
  <2>3. QED
    BY <1>2, <2>1, <2>2
<1>10. ASSUME SrvStop \/ KillServer PROVE Facts!ServerNext
  BY <1>4, <1>10 DEF SrvStop, KillServer
<1>11. ASSUME NEW p \in Procs, SrvOpensReply(p) PROVE Facts!ServerNext
  <2>1. /\ UNCHANGED <<stock, serving, answer, outbox, request, rpc, resp>>
        /\ srv = "reply" /\ srv' = "respond" /\ pc[p] = "recv"
        /\ \A q \in Procs : pc'[q] = IF q = p THEN "reading" ELSE pc[q]
    BY <1>1, <1>11, ReplyHasPipe DEF SrvOpensReply, Goto, TypeOK
  <2>2. outbox = Pending
    BY <1>1, <2>1, OneWaits DEF PipeInv, Connected
  <2>3. ASSUME NEW q \in Procs PROVE Same(q)
    BY <2>1, <2>2, Seen, SeenThen DEF Same, Lost, InService
  <2>4. QED
    BY <1>2, <2>1, <2>3
<1>12. ASSUME NEW p \in Procs, Call(p) PROVE Facts!ServerNext
  <2>1. PICK r \in Requests : /\ ~Refused(r)
                              /\ request' = [request EXCEPT ![p] = r]
                              /\ rpc' = [rpc EXCEPT ![p] = FirstMessage(r)]
    BY <1>12 DEF Call
  <2>2. /\ UNCHANGED <<stock, srv, serving, answer, outbox, resp>>
        /\ pc[p] = "idle" /\ request[p] = Idle
        /\ \A q \in Procs : pc'[q] = IF q = p THEN "connect" ELSE pc[q]
        /\ \A q \in Procs : request'[q] = IF q = p THEN r ELSE request[q]
        /\ \A q \in Procs : rpc'[q] = IF q = p THEN FirstMessage(r) ELSE rpc[q]
    BY <1>1, <1>12, <2>1 DEF Call, Goto, TypeOK, RoundInv, serverSide, pipes
  <2>3. /\ RequestNow[p] = Idle /\ RequestNow'[p] = r /\ RpcNow'[p] = FirstMessage(r)
        /\ RespNow'[p] = RespNow[p]
    BY <2>2, Seen, SeenThen DEF Lost
  <2>4. ASSUME NEW q \in Procs \ {p} PROVE Same(q)
    BY <2>2, <2>4, Seen, SeenThen DEF Same, Lost, InService
  <2>5. QED
    BY <2>1, <2>2, <2>3, <2>4, Facts!CallStep, Viewed, SameData DEF Same
<1>13. ASSUME NEW p \in Procs,
              \/ CltConnect(p) \/ CltOpen(p) \/ Meet(p) \/ CltWrite(p) \/ KillClient(p)
       PROVE  Facts!ServerNext
  <2>1. /\ UNCHANGED <<stock, serving, answer, request, rpc, resp>>
        /\ \A q \in Procs \ {p} : pc'[q] = pc[q]
        /\ srv' = srv \/ (srv \in {"recv", "read"} /\ srv' \in {"read", "stuck"})
        /\ (outbox' = outbox /\ pc[p] # "reading") \/ (pc[p] = "reading" /\ Lost(p)')
        /\ Lost(p) => Lost(p)'
        /\ pc'[p] # "reading"
    BY <1>1, <1>13 DEF CltConnect, CltOpen, Meet, CltWrite, KillClient, Goto, TypeOK, CltLabels,
                       Lost, serverSide, pipes
  <2>2. \A q \in Procs : /\ InService(q)' <=> InService(q)
                         /\ srv' \in {"reply", "respond"} <=> srv \in {"reply", "respond"}
    BY <2>1 DEF InService
  <2>3. ASSUME NEW q \in Procs \ {p} PROVE Same(q)
    <3>1. outbox' = outbox \/ pc[q] # "reading"
      BY <2>1, <2>3, OneWaits DEF Connected
    <3>2. QED
      BY <2>1, <2>2, <2>3, <3>1, Seen, SeenThen DEF Same, Lost
  <2>4. CASE Lost(p) <=> Lost(p)'
    <3>1. Same(p)
      BY <2>1, <2>2, <2>4, Seen, SeenThen DEF Same
    <3>2. QED
      BY <1>2, <2>1, <2>3, <3>1
  <2>5. CASE ~Lost(p) /\ Lost(p)'
    <3>1. RequestNow[p] # Gone /\ RequestNow'[p] = Gone /\ RespNow'[p] = Pending
      BY <1>1, <2>5, SeenThen
    <3>2. CASE ~InService(p)
      <4>1. RpcNow'[p] = NoMessage
        BY <2>2, <2>5, <3>2, SeenThen
      <4>2. QED
        BY <2>1, <2>3, <3>1, <4>1, Facts!DieStep, Viewed DEF Same
    <3>3. CASE InService(p)
      <4>1. RpcNow'[p] = RpcNow[p]
        BY <2>1, <2>2, <3>3, Seen, SeenThen
      <4>2. RespNow[p] = Pending
        <5>1. pc[p] = "recv" /\ srv = "handle"
          BY <1>1, <2>5, <3>3 DEF InService, ServeInv, Served, Lost
        <5>2. QED
          BY <1>1, <5>1, Seen DEF RoundInv, Lost
      <4>3. QED
        BY <2>1, <2>3, <3>1, <4>1, <4>2, Facts!DieStep, Viewed DEF Same
    <3>4. QED
      BY <3>2, <3>3
  <2>6. QED
    BY <2>1, <2>4, <2>5
<1>14. ASSUME NEW p \in Procs, CltRead(p) PROVE Facts!ServerNext
  <2>1. /\ UNCHANGED <<stock, srv, serving, answer, request, rpc>>
        /\ pc[p] = "reading" /\ outbox # Pending /\ outbox' = Pending
        /\ \A q \in Procs : pc'[q] = IF q = p THEN "disconnect" ELSE pc[q]
        /\ \A q \in Procs : resp'[q] = IF q = p THEN outbox ELSE resp[q]
    BY <1>1, <1>14 DEF CltRead, Goto, TypeOK, serverSide
  <2>2. ~Served(p)
    BY <1>1, <2>1 DEF ServeInv, PipeInv, Served
  <2>3. Same(p)
    BY <2>1, <2>2, Seen, SeenThen DEF Same, Served, Lost, InService
  <2>4. ASSUME NEW q \in Procs \ {p} PROVE Same(q)
    <3>1. pc[q] # "reading"
      BY <2>1, <2>4, OneWaits DEF Connected
    <3>2. QED
      BY <2>1, <2>4, <3>1, Seen, SeenThen DEF Same, Lost, InService
  <2>5. QED
    BY <1>2, <2>1, <2>3, <2>4
<1>15. ASSUME NEW p \in Procs, CltDisconnect(p) PROVE Facts!ServerNext
  <2>1. /\ UNCHANGED <<stock, srv, serving, answer, outbox>> /\ pc[p] = "disconnect"
        /\ resp'[p] = Pending
        /\ \A q \in Procs \ {p} :
             pc'[q] = pc[q] /\ request'[q] = request[q] /\ rpc'[q] = rpc[q] /\ resp'[q] = resp[q]
        /\ IF GoesOn(request[p], rpc[p], resp[p])
           THEN rpc'[p] = AddMessage(request[p]) /\ request'[p] = request[p] /\ pc'[p] = "connect"
           ELSE rpc'[p] = NoMessage /\ request'[p] = Idle /\ pc'[p] = "idle"
    BY <1>1, <1>15 DEF CltDisconnect, Goto, TypeOK, serverSide
  <2>2. resp[p] # Pending /\ ~Served(p) /\ ~InService(p) /\ ~Lost(p) /\ ~Lost(p)'
    BY <1>1, <2>1, FifoValuesAssumption DEF RoundInv, ServeInv, Served, InService, Lost
  <2>3. RequestNow[p] = request[p] /\ RpcNow[p] = rpc[p] /\ RespNow[p] = resp[p]
    BY <2>1, <2>2, Seen DEF Served
  <2>4. RequestNow'[p] = request'[p] /\ RpcNow'[p] = rpc'[p] /\ RespNow'[p] = Pending
    BY <2>1, <2>2, SeenThen DEF Served
  <2>5. ASSUME NEW q \in Procs \ {p} PROVE Same(q)
    BY <2>1, <2>5, Seen, SeenThen DEF Same, Lost, InService
  <2>6. RequestNow[p] # Gone
    BY <1>1, <2>2
  <2>7. QED
    BY <2>1, <2>2, <2>3, <2>4, <2>5, <2>6, Facts!AnswerStep, Viewed, SameData DEF Same
<1>16. QED
  BY <1>3, <1>5, <1>6, <1>7, <1>8, <1>9, <1>10, <1>11, <1>12, <1>13, <1>14, <1>15
  DEF Next, SrvStep, CltStep

\* Whoever is killed or started again, no message takes effect twice, and
\* what a client reads from "srv->clt" is the answer to its own message.
THEOREM ImplementsService == Spec => ServesAtMostOnce
<1>1. FifoInv /\ [Next]_vars => [Service!ServerNext]_Service!serverVars
  <2>1. SUFFICES ASSUME FifoInv, [Next]_vars
        PROVE  Service!ServerNext \/ UNCHANGED Service!serverVars
    OBVIOUS
  <2>2. CASE UNCHANGED vars
    BY <2>2
    DEF vars, serverSide, pipes, clientSide, Service!serverVars, RequestNow, RpcNow, RespNow,
        Lost, InService
  <2>3. QED
    BY <2>1, <2>2, StepRefines, SameSteps
<1>2. QED
  BY <1>1, InitRefines, FifoInvariant, PTL DEF Spec, ServesAtMostOnce, Service!ServerSpec

=============================================================================
