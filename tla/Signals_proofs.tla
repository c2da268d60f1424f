--------------------------- MODULE Signals_proofs ---------------------------
(***************************************************************************)
(* Proofs about the signal backend, for any number of clients, calls and   *)
(* faults.                                                                 *)
(***************************************************************************)
EXTENDS Signals, Data_proofs

\* FreshInv is about runs in which no message comes too close to another.
Apart == company # "crowded"

\* A message that is being served has its sender's file to be answered in.
LEMMA AnswerHasFile ==
  ASSUME OrderInv, Apart, srv = "send"
  PROVE  file[serving.from] # NoFile
<1>1. serving.from \in Procs /\ Served(serving.from)
  BY DEF OrderInv, TurnInv, Requested, Served
<1>2. FreshInv(serving.from)
  BY <1>1 DEF OrderInv, Apart
<1>3. QED
  BY <1>1, <1>2 DEF FreshInv

\* What the end of the server leaves behind.
LEMMA OrderEnds ==
  ASSUME OrderInv, EndServer, faults' \in 0 .. MaxFaults,
         UNCHANGED <<file, clientFile>>,
         registered' \in BOOLEAN, inbox' \in {inbox, NoFile},
         inbox' # NoFile => registered'
  PROVE  OrderInv'
<1> USE DEF OrderInv
<1>1. /\ \A q \in Procs : pc'[q] = pc[q] \/ (pc'[q] = "stuck" /\ pc[q] \in {"arm", "wait"})
      /\ pc' \in [Procs -> CltLabels]
      /\ srv' = "down" /\ aimed' = {} /\ Server \notin flag' /\ Server \notin armed'
  BY DEF EndServer, TypeOK, CltLabels
<1>2. \A q \in Procs : (q \in flag' <=> q \in flag) /\ (q \in armed' <=> q \in armed)
  BY SignalsAssumption DEF EndServer
<1>3. TypeOK'
  <2>1. armed' \in SUBSET (Procs \cup {Server}) /\ flag' \in SUBSET (Procs \cup {Server})
    BY DEF EndServer, TypeOK
  <2>2. RoundsType'
    BY DEF EndServer, TypeOK, RoundsType
  <2>3. QED
    BY <1>1, <2>1, <2>2 DEF EndServer, TypeOK, SrvLabels
<1>4. FilesInv'
  BY <1>1 DEF EndServer, FilesInv, InRound
<1>5. TurnInv'
  BY <1>1, <1>2 DEF TurnInv
<1>6. ASSUME NEW q \in Procs PROVE CallInv(q)'
  BY <1>1 DEF EndServer, CallInv
<1>7. AloneInv' /\ LoneClientLeaves'
  BY <1>1 DEF EndServer, AloneInv, LoneClientLeaves, InRound
<1>8. ASSUME company' # "crowded", NEW q \in Procs PROVE FreshInv(q)'
  <2>1. FreshInv(q)
    BY <1>8 DEF EndServer
  <2>2. QED
    BY <1>1, <1>2, <2>1 DEF FreshInv, Told, Served, Lost
<1>9. QED
  BY <1>3, <1>4, <1>5, <1>6, <1>7, <1>8

-----------------------------------------------------------------------------
\* The invariant holds before the server is started.
LEMMA OrderInit == Init => OrderInv
<1>1. SUFFICES ASSUME Init PROVE OrderInv
  OBVIOUS
<1>2. TypeOK
  <2>1. stock \in [Names -> Ints \cup {Absent}]
    BY <1>1, QuantitiesAssumption DEF Init, RoundsInit
  <2>2. calls \in 0 .. MaxCalls /\ faults \in 0 .. MaxFaults
    BY <1>1, RoundsBoundsAssumption DEF Init, RoundsInit
  <2>3. QED
    BY <1>1, <2>1, <2>2 DEF Init, RoundsInit, TypeOK, RoundsType, SrvLabels, CltLabels
<1>3. QED
  BY <1>1, <1>2
     DEF Init, RoundsInit, OrderInv, FilesInv, TurnInv, CallInv, AloneInv, LoneClientLeaves,
         InRound, FreshInv, Told, Served

\* Every step preserves it.
LEMMA OrderNext == OrderInv /\ [Next]_vars => OrderInv'
<1> SUFFICES ASSUME OrderInv, [Next]_vars PROVE OrderInv'
  OBVIOUS
<1> USE DEF OrderInv
<1> Server \notin Procs /\ NoFile \notin Responses \cup Requested \cup {Blank}
  BY SignalsAssumption

<1>1. ASSUME SrvStart PROVE OrderInv'
  <2>1. TypeOK'
    BY <1>1 DEF SrvStart, TypeOK, RoundsType, SrvLabels, CltLabels, files, signals, serverSide, clientSide
  <2>2. FilesInv'
    BY <1>1 DEF SrvStart, FilesInv, InRound, TypeOK, files, signals, serverSide, clientSide
  <2>3. TurnInv'
    BY <1>1 DEF SrvStart, TurnInv, FilesInv, TypeOK, files, signals, serverSide, clientSide
  <2>4. ASSUME NEW q \in Procs PROVE CallInv(q)'
    BY <1>1 DEF SrvStart, CallInv, TypeOK, files, signals, serverSide, clientSide
  <2>5. AloneInv' /\ LoneClientLeaves'
    BY <1>1 DEF SrvStart, AloneInv, LoneClientLeaves, InRound, TypeOK, files, signals, serverSide, clientSide
  <2>6. ASSUME company' # "crowded", NEW q \in Procs PROVE FreshInv(q)'
    <3>1. company # "crowded"
      BY <1>1, <2>6 DEF SrvStart, Busy, files, signals, serverSide, clientSide
    <3>2. FreshInv(q)
      BY <3>1
    <3>3. QED
      BY <1>1, <2>6, <3>2 DEF SrvStart, FreshInv, Told, Served, Lost, TypeOK, files, signals, serverSide, clientSide, TurnInv, FilesInv, Busy
  <2>7. QED
    BY <2>1, <2>2, <2>3, <2>4, <2>5, <2>6
<1>2. ASSUME SrvInit PROVE OrderInv'
  <2>1. TypeOK'
    BY <1>2 DEF SrvInit, TypeOK, RoundsType, SrvLabels, CltLabels, files, signals, serverSide, clientSide
  <2>2. FilesInv'
    BY <1>2 DEF SrvInit, FilesInv, InRound, TypeOK, files, signals, serverSide, clientSide
  <2>3. TurnInv'
    BY <1>2 DEF SrvInit, TurnInv, FilesInv, TypeOK, files, signals, serverSide, clientSide
  <2>4. ASSUME NEW q \in Procs PROVE CallInv(q)'
    BY <1>2 DEF SrvInit, CallInv, TypeOK, files, signals, serverSide, clientSide
  <2>5. AloneInv' /\ LoneClientLeaves'
    BY <1>2 DEF SrvInit, AloneInv, LoneClientLeaves, InRound, TypeOK, files, signals, serverSide, clientSide
  <2>6. ASSUME company' # "crowded", NEW q \in Procs PROVE FreshInv(q)'
    <3>1. company # "crowded"
      BY <1>2, <2>6 DEF SrvInit, Busy, files, signals, serverSide, clientSide
    <3>2. FreshInv(q)
      BY <3>1
    <3>3. QED
      BY <1>2, <2>6, <3>2 DEF SrvInit, FreshInv, Told, Served, Lost, TypeOK, files, signals, serverSide, clientSide, TurnInv, FilesInv, Busy
  <2>7. QED
    BY <2>1, <2>2, <2>3, <2>4, <2>5, <2>6
<1>3. ASSUME SrvArm PROVE OrderInv'
  <2>1. TypeOK'
    BY <1>3 DEF SrvArm, TypeOK, RoundsType, SrvLabels, CltLabels, files, signals, serverSide, clientSide
  <2>2. FilesInv'
    BY <1>3 DEF SrvArm, FilesInv, InRound, TypeOK, files, signals, serverSide, clientSide
  <2>3. TurnInv'
    BY <1>3 DEF SrvArm, TurnInv, FilesInv, TypeOK, files, signals, serverSide, clientSide
  <2>4. ASSUME NEW q \in Procs PROVE CallInv(q)'
    BY <1>3 DEF SrvArm, CallInv, TypeOK, files, signals, serverSide, clientSide
  <2>5. AloneInv' /\ LoneClientLeaves'
    BY <1>3 DEF SrvArm, AloneInv, LoneClientLeaves, InRound, TypeOK, files, signals, serverSide, clientSide
  <2>6. ASSUME company' # "crowded", NEW q \in Procs PROVE FreshInv(q)'
    <3>1. company # "crowded"
      BY <1>3, <2>6 DEF SrvArm, Busy, files, signals, serverSide, clientSide
    <3>2. FreshInv(q)
      BY <3>1
    <3>3. QED
      BY <1>3, <2>6, <3>2 DEF SrvArm, FreshInv, Told, Served, Lost, TypeOK, files, signals, serverSide, clientSide
  <2>7. QED
    BY <2>1, <2>2, <2>3, <2>4, <2>5, <2>6
<1>4. ASSUME SrvRead PROVE OrderInv'
  <2>1. inbox \in Requested
    BY <1>4 DEF SrvRead, TurnInv
  <2>2. TypeOK'
    BY <1>4, <2>1 DEF SrvRead, TypeOK, RoundsType, SrvLabels, CltLabels, files, signals, serverSide, clientSide
  <2>3. FilesInv'
    BY <1>4, <2>1 DEF SrvRead, FilesInv, InRound, TypeOK, files, signals, serverSide, clientSide
  <2>4. TurnInv'
    BY <1>4, <2>1 DEF SrvRead, TurnInv, FilesInv, TypeOK, files, signals, serverSide, clientSide
  <2>5. ASSUME NEW q \in Procs PROVE CallInv(q)'
    BY <1>4, <2>1 DEF SrvRead, CallInv, TypeOK, files, signals, serverSide, clientSide
  <2>6. AloneInv' /\ LoneClientLeaves'
    BY <1>4, <2>1 DEF SrvRead, AloneInv, LoneClientLeaves, InRound, TypeOK, files, signals, serverSide, clientSide
  <2>7. ASSUME company' # "crowded", NEW q \in Procs PROVE FreshInv(q)'
    <3>1. company # "crowded"
      BY <1>4, <2>1, <2>7 DEF SrvRead, Busy, files, signals, serverSide, clientSide
    <3>2. FreshInv(q)
      BY <3>1
    <3>3. QED
      BY <1>4, <2>1, <2>7, <3>2 DEF SrvRead, FreshInv, Told, Served, Lost, TypeOK, files, signals, serverSide, clientSide, TurnInv, FilesInv, Busy
  <2>8. QED
    BY <2>2, <2>3, <2>4, <2>5, <2>6, <2>7
<1>5. ASSUME SrvClear PROVE OrderInv'
  <2>1. TypeOK'
    BY <1>5 DEF SrvClear, TypeOK, RoundsType, SrvLabels, CltLabels, files, signals, serverSide, clientSide
  <2>2. FilesInv'
    BY <1>5 DEF SrvClear, FilesInv, InRound, TypeOK, files, signals, serverSide, clientSide
  <2>3. TurnInv'
    BY <1>5 DEF SrvClear, TurnInv, FilesInv, TypeOK, files, signals, serverSide, clientSide
  <2>4. ASSUME NEW q \in Procs PROVE CallInv(q)'
    BY <1>5 DEF SrvClear, CallInv, TypeOK, files, signals, serverSide, clientSide
  <2>5. AloneInv' /\ LoneClientLeaves'
    BY <1>5 DEF SrvClear, AloneInv, LoneClientLeaves, InRound, TypeOK, files, signals, serverSide, clientSide
  <2>6. ASSUME company' # "crowded", NEW q \in Procs PROVE FreshInv(q)'
    <3>1. company # "crowded"
      BY <1>5, <2>6 DEF SrvClear, Busy, files, signals, serverSide, clientSide
    <3>2. FreshInv(q)
      BY <3>1
    <3>3. QED
      BY <1>5, <2>6, <3>2 DEF SrvClear, FreshInv, Told, Served, Lost, TypeOK, files, signals, serverSide, clientSide
  <2>7. QED
    BY <2>1, <2>2, <2>3, <2>4, <2>5, <2>6
<1>6. ASSUME SrvHandle PROVE OrderInv'
  <2>1. serving \in Requested /\ serving.message \in Messages
    BY <1>6 DEF SrvHandle, Handle, TurnInv, Requested
  <2>2. LET m == serving.message
        IN /\ HoldsAfter(m, stock[m.name]) \in Ints \cup {Absent}
           /\ ResponseTo(m, stock[m.name]) \in Responses
    <3>1. stock[serving.message.name] \in Ints \cup {Absent}
      BY <2>1 DEF TypeOK, Messages
    <3>2. QED
      BY <2>1, <3>1, HandlerTypes
  <2>3. stock' \in [Names -> Ints \cup {Absent}] /\ answer' \in Responses
    BY <1>6, <2>2 DEF SrvHandle, Handle, TypeOK
  <2>4. UNCHANGED <<files, signals, company, serving, clientSide, faults>> /\ srv = "handle" /\ srv' = "send"
    BY <1>6 DEF SrvHandle, Handle
  <2>5. TypeOK'
    BY <2>1, <2>3, <2>4 DEF TypeOK, RoundsType, SrvLabels, CltLabels, files, signals, serverSide, clientSide
  <2>6. FilesInv'
    BY <2>1, <2>3, <2>4 DEF FilesInv, InRound, TypeOK, files, signals, serverSide, clientSide
  <2>7. TurnInv'
    BY <2>1, <2>3, <2>4 DEF TurnInv, FilesInv, TypeOK, files, signals, serverSide, clientSide
  <2>8. ASSUME NEW q \in Procs PROVE CallInv(q)'
    BY <2>1, <2>3, <2>4 DEF CallInv, TypeOK, files, signals, serverSide, clientSide
  <2>9. AloneInv' /\ LoneClientLeaves'
    BY <2>1, <2>3, <2>4 DEF AloneInv, LoneClientLeaves, InRound, TypeOK, files, signals, serverSide, clientSide
  <2>10. ASSUME company' # "crowded", NEW q \in Procs PROVE FreshInv(q)'
    <3>1. company # "crowded"
      BY <2>1, <2>3, <2>4, <2>10 DEF Busy, files, signals, serverSide, clientSide
    <3>2. FreshInv(q)
      BY <3>1
    <3>3. QED
      BY <2>1, <2>3, <2>4, <2>10, <3>2 DEF FreshInv, Told, Served, Lost, TypeOK, files, signals, serverSide, clientSide
  <2>11. QED
    BY <2>5, <2>6, <2>7, <2>8, <2>9, <2>10
<1>7. ASSUME SrvWrite PROVE OrderInv'
  <2>1. CASE file[serving.from] = NoFile
    BY <1>7, <2>1, OrderEnds DEF SrvWrite, FilesInv, TypeOK, RoundsType
  <2>2. CASE file[serving.from] # NoFile
    <3>1. serving.from \in Procs /\ answer \in Responses
      BY <1>7 DEF SrvWrite, TurnInv, Requested
    <3>2. TypeOK'
      BY <1>7, <2>2, <3>1 DEF SrvWrite, TypeOK, RoundsType, SrvLabels, CltLabels, files, signals, serverSide, clientSide
    <3>3. FilesInv'
      BY <1>7, <2>2, <3>1 DEF SrvWrite, FilesInv, InRound, TypeOK, files, signals, serverSide, clientSide
    <3>4. TurnInv'
      BY <1>7, <2>2, <3>1 DEF SrvWrite, TurnInv, FilesInv, TypeOK, files, signals, serverSide, clientSide
    <3>5. ASSUME NEW q \in Procs PROVE CallInv(q)'
      BY <1>7, <2>2, <3>1 DEF SrvWrite, CallInv, TypeOK, files, signals, serverSide, clientSide
    <3>6. AloneInv' /\ LoneClientLeaves'
      BY <1>7, <2>2, <3>1 DEF SrvWrite, AloneInv, LoneClientLeaves, InRound, TypeOK, files, signals, serverSide, clientSide
    <3>7. ASSUME company' # "crowded", NEW q \in Procs PROVE FreshInv(q)'
      <4>1. company # "crowded"
        BY <1>7, <2>2, <3>1, <3>7 DEF SrvWrite, Busy, files, signals, serverSide, clientSide
      <4>2. FreshInv(q)
        BY <4>1
      <4>3. QED
        BY <1>7, <2>2, <3>1, <3>7, <4>2 DEF SrvWrite, FreshInv, Told, Served, Lost, TypeOK, files, signals, serverSide, clientSide
    <3>8. QED
      BY <3>2, <3>3, <3>4, <3>5, <3>6, <3>7
  <2>3. QED
    BY <2>1, <2>2
<1>8. ASSUME SrvSignal PROVE OrderInv'
  <2>1. serving.from \in Procs /\ Served(serving.from)
    BY <1>8 DEF SrvSignal, TurnInv, Requested, Served
  <2>2. pc' \in [Procs -> CltLabels] /\ flag' \in SUBSET (Procs \cup {Server}) /\ aimed' \in SUBSET Procs
    BY <1>8, <2>1 DEF SrvSignal, Advance, Goto, TypeOK, CltLabels, clientSide
  <2>3. TypeOK'
    BY <1>8, <2>1, <2>2 DEF SrvSignal, Advance, Goto, TypeOK, RoundsType, SrvLabels, CltLabels, files, signals, serverSide, clientSide
  <2>4. FilesInv'
    BY <1>8, <2>1, <2>2 DEF SrvSignal, Advance, Goto, FilesInv, InRound, TypeOK, files, signals, serverSide, clientSide
  <2>5. TurnInv'
    BY <1>8, <2>1, <2>2 DEF SrvSignal, Advance, Goto, TurnInv, FilesInv, TypeOK, files, signals, serverSide, clientSide
  <2>6. ASSUME NEW q \in Procs PROVE CallInv(q)'
    BY <1>8, <2>1, <2>2 DEF SrvSignal, Advance, Goto, CallInv, TypeOK, files, signals, serverSide, clientSide
  <2>7. AloneInv' /\ LoneClientLeaves'
    BY <1>8, <2>1, <2>2 DEF SrvSignal, Advance, Goto, AloneInv, LoneClientLeaves, InRound, TypeOK, files, signals, serverSide, clientSide
  <2>8. ASSUME company' # "crowded", NEW q \in Procs PROVE FreshInv(q)'
    <3>1. company # "crowded"
      BY <1>8, <2>1, <2>2, <2>8 DEF SrvSignal, Advance, Goto, Busy, files, signals, serverSide, clientSide
    <3>2. FreshInv(q)
      BY <3>1
    <3>3. FreshInv(serving.from)
      BY <2>1, <3>1
    <3>4. QED
      BY <1>8, <2>1, <2>2, <2>8, <3>2, <3>3 DEF SrvSignal, Advance, Goto, FreshInv, Told, Served, Lost, TypeOK, files, signals, serverSide, clientSide, TurnInv, FilesInv, Busy
  <2>9. QED
    BY <2>3, <2>4, <2>5, <2>6, <2>7, <2>8
<1>9. ASSUME SrvStop PROVE OrderInv'
  <2>1. faults' \in 0 .. MaxFaults
    BY <1>9, RoundsBoundsAssumption DEF SrvStop, Fault, TypeOK, RoundsType
  <2>2. QED
    BY <1>9, <2>1, OrderEnds DEF SrvStop, files, FilesInv, TypeOK
<1>10. ASSUME KillServer PROVE OrderInv'
  <2>1. faults' \in 0 .. MaxFaults
    BY <1>10, RoundsBoundsAssumption DEF KillServer, Fault, TypeOK, RoundsType
  <2>2. QED
    BY <1>10, <2>1, OrderEnds DEF KillServer, files, FilesInv, TypeOK
<1>11. ASSUME NEW p \in Procs, Call(p) PROVE OrderInv'
  <2>1. /\ request' \in [Procs -> Requests \cup {Idle}] /\ rpc' \in [Procs -> Messages \cup {NoMessage}]
        /\ request'[p] \in Requests /\ ~Refused(request'[p]) /\ rpc'[p] \in Messages
        /\ \A q \in Procs \ {p} : request'[q] = request[q] /\ rpc'[q] = rpc[q]
    <3>1. PICK r \in Requests : /\ ~Refused(r)
                               /\ request' = [request EXCEPT ![p] = r]
                               /\ rpc' = [rpc EXCEPT ![p] = FirstMessage(r)]
      BY <1>11 DEF Call, Begin
    <3>2. FirstMessage(r) \in Messages
      BY <3>1, MessageTypes
    <3>3. QED
      BY <3>1, <3>2 DEF TypeOK, RoundsType
  <2>2. calls' \in 0 .. MaxCalls
    BY <1>11, RoundsBoundsAssumption DEF Call, Begin, TypeOK, RoundsType
  <2>3. TypeOK'
    BY <1>11, <2>1, <2>2 DEF Call, Begin, Goto, TypeOK, RoundsType, SrvLabels, CltLabels, files, signals, serverSide, clientSide
  <2>4. FilesInv'
    BY <1>11, <2>1, <2>2 DEF Call, Begin, Goto, FilesInv, InRound, TypeOK, files, signals, serverSide, clientSide
  <2>5. TurnInv'
    BY <1>11, <2>1, <2>2 DEF Call, Begin, Goto, TurnInv, FilesInv, TypeOK, files, signals, serverSide, clientSide
  <2>6. ASSUME NEW q \in Procs PROVE CallInv(q)'
    BY <1>11, <2>1, <2>2 DEF Call, Begin, Goto, CallInv, TypeOK, files, signals, serverSide, clientSide
  <2>7. AloneInv' /\ LoneClientLeaves'
    BY <1>11, <2>1, <2>2 DEF Call, Begin, Goto, AloneInv, LoneClientLeaves, InRound, TypeOK, files, signals, serverSide, clientSide
  <2>8. ASSUME company' # "crowded", NEW q \in Procs PROVE FreshInv(q)'
    <3>1. company # "crowded"
      BY <1>11, <2>1, <2>2, <2>8 DEF Call, Begin, Goto, Busy, files, signals, serverSide, clientSide
    <3>2. FreshInv(q) /\ FreshInv(p)
      BY <3>1
    <3>3. QED
      BY <1>11, <2>1, <2>2, <2>8, <3>2 DEF Call, Begin, Goto, FreshInv, Told, Served, Lost, TypeOK, files, signals, serverSide, clientSide
  <2>9. QED
    BY <2>3, <2>4, <2>5, <2>6, <2>7, <2>8
<1>12. ASSUME NEW p \in Procs, CltConnect(p) PROVE OrderInv'
  <2>1. TypeOK'
    BY <1>12 DEF CltConnect, Advance, Goto, TypeOK, RoundsType, SrvLabels, CltLabels, files, signals, serverSide, clientSide
  <2>2. FilesInv'
    BY <1>12 DEF CltConnect, Advance, Goto, FilesInv, InRound, TypeOK, files, signals, serverSide, clientSide
  <2>3. TurnInv'
    BY <1>12 DEF CltConnect, Advance, Goto, TurnInv, FilesInv, TypeOK, files, signals, serverSide, clientSide
  <2>4. ASSUME NEW q \in Procs PROVE CallInv(q)'
    BY <1>12 DEF CltConnect, Advance, Goto, CallInv, TypeOK, files, signals, serverSide, clientSide
  <2>5. AloneInv' /\ LoneClientLeaves'
    BY <1>12 DEF CltConnect, Advance, Goto, AloneInv, LoneClientLeaves, InRound, TypeOK, files, signals, serverSide, clientSide
  <2>6. ASSUME company' # "crowded", NEW q \in Procs PROVE FreshInv(q)'
    <3>1. company # "crowded"
      BY <1>12, <2>6 DEF CltConnect, Advance, Goto, Busy, files, signals, serverSide, clientSide
    <3>2. FreshInv(q) /\ FreshInv(p)
      BY <3>1
    <3>3. QED
      BY <1>12, <2>6, <3>2 DEF CltConnect, Advance, Goto, FreshInv, Told, Served, Lost, TypeOK, files, signals, serverSide, clientSide, TurnInv, FilesInv, Busy
  <2>7. QED
    BY <2>1, <2>2, <2>3, <2>4, <2>5, <2>6
<1>13. ASSUME NEW p \in Procs, CltWrite(p) PROVE OrderInv'
  <2>1. rpc[p] \in Messages
    BY <1>13 DEF CltWrite, CallInv
  <2>2. inbox' \in Requested \cup {NoFile, Blank} /\ aimed' \in SUBSET Procs
    BY <1>13, <2>1 DEF CltWrite, TypeOK, Requested
  <2>3. inbox # NoFile => inbox' \in Requested /\ inbox'.from = p
    BY <1>13, <2>1 DEF CltWrite, Requested
  <2>4. TypeOK'
    BY <1>13, <2>1, <2>2, <2>3 DEF CltWrite, Advance, Goto, TypeOK, RoundsType, SrvLabels, CltLabels, files, signals, serverSide, clientSide
  <2>5. FilesInv'
    BY <1>13, <2>1, <2>2, <2>3 DEF CltWrite, Advance, Goto, FilesInv, InRound, TypeOK, files, signals, serverSide, clientSide
  <2>6. TurnInv'
    BY <1>13, <2>1, <2>2, <2>3 DEF CltWrite, Advance, Goto, TurnInv, FilesInv, TypeOK, files, signals, serverSide, clientSide
  <2>7. ASSUME NEW q \in Procs PROVE CallInv(q)'
    BY <1>13, <2>1, <2>2, <2>3 DEF CltWrite, Advance, Goto, CallInv, TypeOK, files, signals, serverSide, clientSide
  <2>8. AloneInv' /\ LoneClientLeaves'
    BY <1>13, <2>1, <2>2, <2>3 DEF CltWrite, Advance, Goto, AloneInv, LoneClientLeaves, InRound, TypeOK, files, signals, serverSide, clientSide
  <2>9. ASSUME company' # "crowded", NEW q \in Procs PROVE FreshInv(q)'
    <3>1. company # "crowded"
      BY <1>13, <2>1, <2>2, <2>3, <2>9 DEF CltWrite, Advance, Goto, Busy, files, signals, serverSide, clientSide
    <3>2. FreshInv(q) /\ FreshInv(p)
      BY <3>1
    <3>3. QED
      BY <1>13, <2>1, <2>2, <2>3, <2>9, <3>2 DEF CltWrite, Advance, Goto, FreshInv, Told, Served, Lost, TypeOK, files, signals, serverSide, clientSide, TurnInv, FilesInv, Busy
  <2>10. QED
    BY <2>4, <2>5, <2>6, <2>7, <2>8, <2>9
<1>14. ASSUME NEW p \in Procs, CltSignal(p) PROVE OrderInv'
  <2>1. TypeOK'
    BY <1>14 DEF CltSignal, Goto, TypeOK, RoundsType, SrvLabels, CltLabels, files, signals, serverSide, clientSide
  <2>2. FilesInv'
    BY <1>14 DEF CltSignal, Goto, FilesInv, InRound, TypeOK, files, signals, serverSide, clientSide
  <2>3. TurnInv'
    BY <1>14 DEF CltSignal, Goto, TurnInv, FilesInv, TypeOK, files, signals, serverSide, clientSide
  <2>4. ASSUME NEW q \in Procs PROVE CallInv(q)'
    BY <1>14 DEF CltSignal, Goto, CallInv, TypeOK, files, signals, serverSide, clientSide
  <2>5. AloneInv' /\ LoneClientLeaves'
    BY <1>14 DEF CltSignal, Goto, AloneInv, LoneClientLeaves, InRound, TypeOK, files, signals, serverSide, clientSide
  <2>6. ASSUME company' # "crowded", NEW q \in Procs PROVE FreshInv(q)'
    <3>1. company # "crowded"
      BY <1>14, <2>6 DEF CltSignal, Goto, Busy, files, signals, serverSide, clientSide
    <3>2. FreshInv(q) /\ FreshInv(p)
      BY <3>1
    <3>3. /\ pc[p] = "signal" /\ pc'[p] \in {"arm", "wait"} /\ p \notin flag /\ ~Served(p)
          /\ Server \notin flag /\ srv # "clear" /\ file[p] # NoFile
          /\ \A r \in Procs \ {p} : pc[r] # "signal" /\ pc'[r] = pc[r]
      BY <1>14, <3>2 DEF CltSignal, Goto, FreshInv, FilesInv, InRound, Lost, TypeOK
    <3>4. /\ UNCHANGED <<inbox, file, armed, serving>>
          /\ srv' \in {srv, "down"}
          /\ flag' = flag \/ (flag' = flag \cup {Server} /\ p \in aimed /\ srv' = srv)
          /\ aimed' \subseteq aimed
      BY <1>14 DEF CltSignal, files
    <3>5. Told(q)' => q = p
      BY <3>2, <3>3, <3>4 DEF FreshInv, Told
    <3>6. Served(q)' => Served(q)
      BY <3>4 DEF Served
    <3>7. CASE q = p
      BY <3>2, <3>3, <3>4, <3>6, <3>7 DEF FreshInv, Lost
    <3>8. CASE q # p
      BY <3>2, <3>3, <3>4, <3>5, <3>6, <3>8 DEF FreshInv, Lost
    <3>9. QED
      BY <3>7, <3>8
  <2>7. QED
    BY <2>1, <2>2, <2>3, <2>4, <2>5, <2>6
<1>15. ASSUME NEW p \in Procs, CltArm(p) PROVE OrderInv'
  <2>1. TypeOK'
    BY <1>15 DEF CltArm, Advance, Goto, TypeOK, RoundsType, SrvLabels, CltLabels, files, signals, serverSide, clientSide
  <2>2. FilesInv'
    BY <1>15 DEF CltArm, Advance, Goto, FilesInv, InRound, TypeOK, files, signals, serverSide, clientSide
  <2>3. TurnInv'
    BY <1>15 DEF CltArm, Advance, Goto, TurnInv, FilesInv, TypeOK, files, signals, serverSide, clientSide
  <2>4. ASSUME NEW q \in Procs PROVE CallInv(q)'
    BY <1>15 DEF CltArm, Advance, Goto, CallInv, TypeOK, files, signals, serverSide, clientSide
  <2>5. AloneInv' /\ LoneClientLeaves'
    BY <1>15 DEF CltArm, Advance, Goto, AloneInv, LoneClientLeaves, InRound, TypeOK, files, signals, serverSide, clientSide
  <2>6. ASSUME company' # "crowded", NEW q \in Procs PROVE FreshInv(q)'
    <3>1. company # "crowded"
      BY <1>15, <2>6 DEF CltArm, Advance, Goto, Busy, files, signals, serverSide, clientSide
    <3>2. FreshInv(q) /\ FreshInv(p)
      BY <3>1
    <3>3. QED
      BY <1>15, <2>6, <3>2 DEF CltArm, Advance, Goto, FreshInv, Told, Served, Lost, TypeOK, files, signals, serverSide, clientSide, TurnInv, FilesInv, Busy
  <2>7. QED
    BY <2>1, <2>2, <2>3, <2>4, <2>5, <2>6
<1>16. ASSUME NEW p \in Procs, CltRead(p) PROVE OrderInv'
  <2>1. /\ resp' \in [Procs -> Responses \cup {Pending}]
        /\ pc' = [pc EXCEPT ![p] = "clear"] /\ UNCHANGED <<request, rpc, calls>>
    BY <1>16 DEF CltRead, Receive, Goto, TypeOK, RoundsType, SrvLabels, CltLabels, Responses, FilesInv, InRound
  <2>2. TypeOK'
    BY <1>16, <2>1 DEF CltRead, Receive, Goto, TypeOK, RoundsType, SrvLabels, CltLabels, files, signals, serverSide, clientSide
  <2>3. FilesInv'
    BY <1>16, <2>1 DEF CltRead, Receive, Goto, FilesInv, InRound, TypeOK, files, signals, serverSide, clientSide
  <2>4. TurnInv'
    BY <1>16, <2>1 DEF CltRead, Receive, Goto, TurnInv, FilesInv, TypeOK, files, signals, serverSide, clientSide
  <2>5. ASSUME NEW q \in Procs PROVE CallInv(q)'
    BY <1>16, <2>1 DEF CltRead, Receive, Goto, CallInv, TypeOK, files, signals, serverSide, clientSide
  <2>6. AloneInv' /\ LoneClientLeaves'
    BY <1>16, <2>1 DEF CltRead, Receive, Goto, AloneInv, LoneClientLeaves, InRound, TypeOK, files, signals, serverSide, clientSide
  <2>7. ASSUME company' # "crowded", NEW q \in Procs PROVE FreshInv(q)'
    <3>1. company # "crowded"
      BY <1>16, <2>1, <2>7 DEF CltRead, Receive, Goto, Busy, files, signals, serverSide, clientSide
    <3>2. FreshInv(q) /\ FreshInv(p)
      BY <3>1
    <3>3. QED
      BY <1>16, <2>1, <2>7, <3>2 DEF CltRead, Receive, Goto, FreshInv, Told, Served, Lost, TypeOK, files, signals, serverSide, clientSide
  <2>8. QED
    BY <2>2, <2>3, <2>4, <2>5, <2>6, <2>7
<1>17. ASSUME NEW p \in Procs, CltClear(p) PROVE OrderInv'
  <2>1. TypeOK'
    BY <1>17 DEF CltClear, Advance, Goto, TypeOK, RoundsType, SrvLabels, CltLabels, files, signals, serverSide, clientSide
  <2>2. FilesInv'
    BY <1>17 DEF CltClear, Advance, Goto, FilesInv, InRound, TypeOK, files, signals, serverSide, clientSide
  <2>3. TurnInv'
    BY <1>17 DEF CltClear, Advance, Goto, TurnInv, FilesInv, TypeOK, files, signals, serverSide, clientSide
  <2>4. ASSUME NEW q \in Procs PROVE CallInv(q)'
    BY <1>17 DEF CltClear, Advance, Goto, CallInv, TypeOK, files, signals, serverSide, clientSide
  <2>5. AloneInv' /\ LoneClientLeaves'
    BY <1>17 DEF CltClear, Advance, Goto, AloneInv, LoneClientLeaves, InRound, TypeOK, files, signals, serverSide, clientSide
  <2>6. ASSUME company' # "crowded", NEW q \in Procs PROVE FreshInv(q)'
    <3>1. company # "crowded"
      BY <1>17, <2>6 DEF CltClear, Advance, Goto, Busy, files, signals, serverSide, clientSide
    <3>2. FreshInv(q) /\ FreshInv(p)
      BY <3>1
    <3>3. QED
      BY <1>17, <2>6, <3>2 DEF CltClear, Advance, Goto, FreshInv, Told, Served, Lost, TypeOK, files, signals, serverSide, clientSide
  <2>7. QED
    BY <2>1, <2>2, <2>3, <2>4, <2>5, <2>6
<1>18. ASSUME NEW p \in Procs, CltDisconnect(p) PROVE OrderInv'
  <2>1. request[p] \in Requests /\ ~Refused(request[p])
    BY <1>18 DEF CltDisconnect, CallInv
  <2>2. GoesOn(request[p], rpc[p], resp[p]) => AddMessage(request[p]) \in Messages
    BY <2>1, MessageTypes DEF GoesOn
  <2>3. /\ rpc' \in [Procs -> Messages \cup {NoMessage}]
        /\ request' \in [Procs -> Requests \cup {Idle}]
        /\ resp' \in [Procs -> Responses \cup {Pending}]
        /\ pc' \in [Procs -> CltLabels]
    BY <1>18, <2>1, <2>2 DEF CltDisconnect, NextRound, Advance, Goto, TypeOK, RoundsType, SrvLabels, CltLabels
  <2>4. /\ \/ pc'[p] \in {"idle", "exited"}
           \/ pc'[p] = "connect" /\ request'[p] = request[p] /\ rpc'[p] \in Messages
        /\ \A q \in Procs \ {p} : pc'[q] = pc[q] /\ request'[q] = request[q] /\ rpc'[q] = rpc[q]
        /\ calls' = calls
    BY <1>18, <2>1, <2>2 DEF CltDisconnect, NextRound, Advance, Goto, TypeOK, RoundsType
  <2>5. TypeOK'
    BY <1>18, <2>1, <2>2, <2>3, <2>4 DEF CltDisconnect, TypeOK, RoundsType, SrvLabels, CltLabels, files, signals, serverSide, clientSide
  <2>6. FilesInv'
    BY <1>18, <2>1, <2>2, <2>3, <2>4 DEF CltDisconnect, FilesInv, InRound, TypeOK, files, signals, serverSide, clientSide
  <2>7. TurnInv'
    BY <1>18, <2>1, <2>2, <2>3, <2>4 DEF CltDisconnect, TurnInv, FilesInv, TypeOK, files, signals, serverSide, clientSide
  <2>8. ASSUME NEW q \in Procs PROVE CallInv(q)'
    BY <1>18, <2>1, <2>2, <2>3, <2>4 DEF CltDisconnect, CallInv, TypeOK, files, signals, serverSide, clientSide
  <2>9. AloneInv' /\ LoneClientLeaves'
    BY <1>18, <2>1, <2>2, <2>3, <2>4 DEF CltDisconnect, AloneInv, LoneClientLeaves, InRound, TypeOK, files, signals, serverSide, clientSide
  <2>10. ASSUME company' # "crowded", NEW q \in Procs PROVE FreshInv(q)'
    <3>1. company # "crowded"
      BY <1>18, <2>1, <2>2, <2>3, <2>4, <2>10 DEF CltDisconnect, Busy, files, signals, serverSide, clientSide
    <3>2. FreshInv(q) /\ FreshInv(p)
      BY <3>1
    <3>3. QED
      BY <1>18, <2>1, <2>2, <2>3, <2>4, <2>10, <3>2 DEF CltDisconnect, FreshInv, Told, Served, Lost, TypeOK, files, signals, serverSide, clientSide, TurnInv, FilesInv, Busy
  <2>11. QED
    BY <2>5, <2>6, <2>7, <2>8, <2>9, <2>10
<1>19. ASSUME NEW p \in Procs, KillClient(p) PROVE OrderInv'
  <2>1. faults' \in 0 .. MaxFaults
    BY <1>19, RoundsBoundsAssumption DEF KillClient, Fault, TypeOK, RoundsType
  <2>2. TypeOK'
    BY <1>19, <2>1 DEF KillClient, Advance, Goto, Fault, TypeOK, RoundsType, SrvLabels, CltLabels, files, signals, serverSide, clientSide
  <2>3. FilesInv'
    BY <1>19, <2>1 DEF KillClient, Advance, Goto, Fault, FilesInv, InRound, TypeOK, files, signals, serverSide, clientSide
  <2>4. TurnInv'
    BY <1>19, <2>1 DEF KillClient, Advance, Goto, Fault, TurnInv, FilesInv, TypeOK, files, signals, serverSide, clientSide
  <2>5. ASSUME NEW q \in Procs PROVE CallInv(q)'
    BY <1>19, <2>1 DEF KillClient, Advance, Goto, Fault, CallInv, TypeOK, files, signals, serverSide, clientSide
  <2>6. AloneInv' /\ LoneClientLeaves'
    BY <1>19, <2>1 DEF KillClient, Advance, Goto, Fault, AloneInv, LoneClientLeaves, InRound, TypeOK, files, signals, serverSide, clientSide
  <2>7. ASSUME company' # "crowded", NEW q \in Procs PROVE FreshInv(q)'
    <3>1. company # "crowded"
      BY <1>19, <2>1, <2>7 DEF KillClient, Advance, Goto, Fault, Busy, files, signals, serverSide, clientSide
    <3>2. FreshInv(q) /\ FreshInv(p)
      BY <3>1
    <3>3. QED
      BY <1>19, <2>1, <2>7, <3>2 DEF KillClient, Advance, Goto, Fault, FreshInv, Told, Served, Lost, TypeOK, files, signals, serverSide, clientSide
  <2>8. QED
    BY <2>2, <2>3, <2>4, <2>5, <2>6, <2>7
<1>20. CASE UNCHANGED vars
  <2>1. TypeOK' /\ FilesInv' /\ TurnInv' /\ AloneInv' /\ LoneClientLeaves'
    BY <1>20 DEF vars, files, signals, serverSide, clientSide, FilesInv, TurnInv, AloneInv, LoneClientLeaves, InRound, TypeOK, RoundsType, SrvLabels, CltLabels
  <2>2. ASSUME NEW q \in Procs PROVE CallInv(q)'
    BY <1>20 DEF vars, files, signals, serverSide, clientSide, CallInv
  <2>3. ASSUME company' # "crowded", NEW q \in Procs PROVE FreshInv(q)'
    <3>1. FreshInv(q)
      BY <1>20, <2>3 DEF vars
    <3>2. QED
      BY <1>20, <3>1 DEF vars, files, signals, serverSide, clientSide, FreshInv, Told, Served, Lost
  <2>4. QED
    BY <2>1, <2>2, <2>3
<1>21. QED
  BY <1>1, <1>2, <1>3, <1>4, <1>5, <1>6, <1>7, <1>8, <1>9, <1>10, <1>11, <1>12, <1>13, <1>14, <1>15, <1>16, <1>17, <1>18, <1>19, <1>20
  DEF Next, SrvStep, CltStep

-----------------------------------------------------------------------------
\* The invariant holds before the server is started.
LEMMA SignalsInit == Init => SignalsInv
<1> SUFFICES ASSUME Init PROVE SignalsInv
  OBVIOUS
<1>1. ASSUME NEW q \in Procs PROVE RoundInv(q) /\ AnswerInv(q)
  BY DEF Init, RoundsInit, RoundInv, AnswerInv, Told, Served
<1>2. QED
  BY <1>1, OrderInit DEF SignalsInv

\* Messages cannot come less close again.
LEMMA StillApart ==
  ASSUME [Next]_vars, Apart' PROVE Apart
  BY DEF Apart, Next, SrvStep, CltStep, vars, SrvStart, SrvInit, SrvArm, SrvRead, SrvClear, SrvHandle,
         SrvWrite, SrvSignal, SrvStop, KillServer, EndServer, Call, CltConnect, CltWrite, CltSignal,
         CltArm, CltRead, CltClear, CltDisconnect, KillClient

\* A message stays its sender's, and so does the answer to it, while no
\* message comes too close to another.
LEMMA SignalsNext == SignalsInv /\ [Next]_vars => SignalsInv'
<1> SUFFICES ASSUME SignalsInv, [Next]_vars PROVE SignalsInv'
  OBVIOUS
<1>1. OrderInv' /\ (Apart' => Apart)
  BY OrderNext, StillApart DEF SignalsInv
<1>2. /\ TypeOK /\ FilesInv /\ TurnInv
      /\ \A q \in Procs : CallInv(q) /\ RoundInv(q)
      /\ Apart => \A q \in Procs : FreshInv(q) /\ AnswerInv(q)
      /\ Server \notin Procs /\ NoFile \notin Responses \cup Requested \cup {Blank}
      /\ Blank \notin Responses
  BY SignalsAssumption DEF SignalsInv, OrderInv, Apart
<1> DEFINE Kept == \A q \in Procs : RoundInv(q)' /\ (Apart' => AnswerInv(q)')
<1>3. ASSUME SrvStart PROVE Kept
  <2>1. ASSUME NEW q \in Procs PROVE RoundInv(q)'
    BY <1>2, <1>3 DEF SrvStart, RoundInv, FilesInv, InRound, TypeOK, RoundsType, CltLabels, files, signals, serverSide, clientSide
  <2>2. ASSUME Apart', NEW q \in Procs PROVE AnswerInv(q)'
    <3>1. Apart /\ FreshInv(q) /\ AnswerInv(q)
      BY <1>1, <1>2, <2>2
    <3>2. QED
      BY <1>2, <1>3, <2>2, <3>1 DEF SrvStart, AnswerInv, FreshInv, Told, Served, Lost, TurnInv, FilesInv, Apart, Busy,
         TypeOK, CltLabels, SrvLabels, Requested, files, signals, serverSide, clientSide
  <2>3. QED
    BY <2>1, <2>2
<1>4. ASSUME SrvInit PROVE Kept
  <2>1. ASSUME NEW q \in Procs PROVE RoundInv(q)'
    BY <1>2, <1>4 DEF SrvInit, RoundInv, FilesInv, InRound, TypeOK, RoundsType, CltLabels, files, signals, serverSide, clientSide
  <2>2. ASSUME Apart', NEW q \in Procs PROVE AnswerInv(q)'
    <3>1. Apart /\ FreshInv(q) /\ AnswerInv(q)
      BY <1>1, <1>2, <2>2
    <3>2. QED
      BY <1>2, <1>4, <2>2, <3>1 DEF SrvInit, AnswerInv, FreshInv, Told, Served, Lost, TurnInv, FilesInv, Apart, Busy,
         TypeOK, CltLabels, SrvLabels, Requested, files, signals, serverSide, clientSide
  <2>3. QED
    BY <2>1, <2>2
<1>5. ASSUME SrvArm PROVE Kept
  <2>1. ASSUME NEW q \in Procs PROVE RoundInv(q)'
    BY <1>2, <1>5 DEF SrvArm, RoundInv, FilesInv, InRound, TypeOK, RoundsType, CltLabels, files, signals, serverSide, clientSide
  <2>2. ASSUME Apart', NEW q \in Procs PROVE AnswerInv(q)'
    <3>1. Apart /\ FreshInv(q) /\ AnswerInv(q)
      BY <1>1, <1>2, <2>2
    <3>2. QED
      BY <1>2, <1>5, <2>2, <3>1 DEF SrvArm, AnswerInv, FreshInv, Told, Served, Lost, TurnInv, FilesInv, Apart, Busy,
         TypeOK, CltLabels, SrvLabels, Requested, files, signals, serverSide, clientSide
  <2>3. QED
    BY <2>1, <2>2
<1>6. ASSUME SrvRead PROVE Kept
  <2>1. ASSUME NEW q \in Procs PROVE RoundInv(q)'
    BY <1>2, <1>6 DEF SrvRead, RoundInv, FilesInv, InRound, TypeOK, RoundsType, CltLabels, files, signals, serverSide, clientSide
  <2>2. ASSUME Apart', NEW q \in Procs PROVE AnswerInv(q)'
    <3>1. Apart /\ FreshInv(q) /\ AnswerInv(q)
      BY <1>1, <1>2, <2>2
    <3>2. QED
      BY <1>2, <1>6, <2>2, <3>1 DEF SrvRead, AnswerInv, FreshInv, Told, Served, Lost, TurnInv, FilesInv, Apart, Busy,
         TypeOK, CltLabels, SrvLabels, Requested, files, signals, serverSide, clientSide
  <2>3. QED
    BY <2>1, <2>2
<1>7. ASSUME SrvClear PROVE Kept
  <2>1. ASSUME NEW q \in Procs PROVE RoundInv(q)'
    BY <1>2, <1>7 DEF SrvClear, RoundInv, FilesInv, InRound, TypeOK, RoundsType, CltLabels, files, signals, serverSide, clientSide
  <2>2. ASSUME Apart', NEW q \in Procs PROVE AnswerInv(q)'
    <3>1. Apart /\ FreshInv(q) /\ AnswerInv(q)
      BY <1>1, <1>2, <2>2
    <3>2. QED
      BY <1>2, <1>7, <2>2, <3>1 DEF SrvClear, AnswerInv, FreshInv, Told, Served, Lost, TurnInv, FilesInv, Apart, Busy,
         TypeOK, CltLabels, SrvLabels, Requested, files, signals, serverSide, clientSide
  <2>3. QED
    BY <2>1, <2>2
<1>8. ASSUME SrvHandle PROVE Kept
  <2>1. ASSUME NEW q \in Procs PROVE RoundInv(q)'
    BY <1>2, <1>8 DEF SrvHandle, Handle, RoundInv, FilesInv, InRound, TypeOK, RoundsType, CltLabels, files, signals, serverSide, clientSide
  <2>2. ASSUME Apart', NEW q \in Procs PROVE AnswerInv(q)'
    <3>1. Apart /\ FreshInv(q) /\ AnswerInv(q)
      BY <1>1, <1>2, <2>2
    <3>2. QED
      BY <1>2, <1>8, <2>2, <3>1 DEF SrvHandle, Handle, AnswerInv, FreshInv, Told, Served, Lost, TurnInv, FilesInv, Apart, Busy,
         TypeOK, CltLabels, SrvLabels, Requested, files, signals, serverSide, clientSide
  <2>3. QED
    BY <2>1, <2>2
<1>9. ASSUME SrvWrite PROVE Kept
  <2>1. ASSUME NEW q \in Procs PROVE RoundInv(q)'
    BY <1>2, <1>9 DEF SrvWrite, EndServer, RoundInv, FilesInv, InRound, TypeOK, RoundsType, CltLabels, files, signals, serverSide, clientSide
  <2>2. ASSUME Apart', NEW q \in Procs PROVE AnswerInv(q)'
    <3>1. Apart /\ FreshInv(q) /\ AnswerInv(q)
      BY <1>1, <1>2, <2>2
    <3>2. QED
      BY <1>2, <1>9, <2>2, <3>1 DEF SrvWrite, EndServer, AnswerInv, FreshInv, Told, Served, Lost, TurnInv, FilesInv, Apart, Busy,
         TypeOK, CltLabels, SrvLabels, Requested, files, signals, serverSide, clientSide
  <2>3. QED
    BY <2>1, <2>2
<1>10. ASSUME SrvSignal PROVE Kept
  <2>1. ASSUME NEW q \in Procs PROVE RoundInv(q)'
    BY <1>2, <1>10 DEF SrvSignal, Advance, Goto, RoundInv, FilesInv, InRound, TypeOK, RoundsType, CltLabels, files, signals, serverSide, clientSide
  <2>2. ASSUME Apart', NEW q \in Procs PROVE AnswerInv(q)'
    <3>1. Apart /\ FreshInv(q) /\ AnswerInv(q)
      BY <1>1, <1>2, <2>2
    <3>2. QED
      BY <1>2, <1>10, <2>2, <3>1 DEF SrvSignal, Advance, Goto, AnswerInv, FreshInv, Told, Served, Lost, TurnInv, FilesInv, Apart, Busy,
         TypeOK, CltLabels, SrvLabels, Requested, files, signals, serverSide, clientSide
  <2>3. QED
    BY <2>1, <2>2
<1>11. ASSUME SrvStop PROVE Kept
  <2>1. ASSUME NEW q \in Procs PROVE RoundInv(q)'
    BY <1>2, <1>11 DEF SrvStop, EndServer, RoundInv, FilesInv, InRound, TypeOK, RoundsType, CltLabels, files, signals, serverSide, clientSide
  <2>2. ASSUME Apart', NEW q \in Procs PROVE AnswerInv(q)'
    <3>1. Apart /\ FreshInv(q) /\ AnswerInv(q)
      BY <1>1, <1>2, <2>2
    <3>2. QED
      BY <1>2, <1>11, <2>2, <3>1 DEF SrvStop, EndServer, AnswerInv, FreshInv, Told, Served, Lost, TurnInv, FilesInv, Apart, Busy,
         TypeOK, CltLabels, SrvLabels, Requested, files, signals, serverSide, clientSide
  <2>3. QED
    BY <2>1, <2>2
<1>12. ASSUME KillServer PROVE Kept
  <2>1. ASSUME NEW q \in Procs PROVE RoundInv(q)'
    BY <1>2, <1>12 DEF KillServer, EndServer, RoundInv, FilesInv, InRound, TypeOK, RoundsType, CltLabels, files, signals, serverSide, clientSide
  <2>2. ASSUME Apart', NEW q \in Procs PROVE AnswerInv(q)'
    <3>1. Apart /\ FreshInv(q) /\ AnswerInv(q)
      BY <1>1, <1>2, <2>2
    <3>2. QED
      BY <1>2, <1>12, <2>2, <3>1 DEF KillServer, EndServer, AnswerInv, FreshInv, Told, Served, Lost, TurnInv, FilesInv, Apart, Busy,
         TypeOK, CltLabels, SrvLabels, Requested, files, signals, serverSide, clientSide
  <2>3. QED
    BY <2>1, <2>2
<1>13. ASSUME NEW p \in Procs, Call(p) PROVE Kept
  <2>1. ASSUME NEW q \in Procs PROVE RoundInv(q)'
    BY <1>2, <1>13 DEF Call, Begin, Goto, RoundInv, FilesInv, InRound, TypeOK, RoundsType, CltLabels, files, signals, serverSide, clientSide
  <2>2. ASSUME Apart', NEW q \in Procs PROVE AnswerInv(q)'
    <3>1. Apart /\ FreshInv(q) /\ AnswerInv(q) /\ FreshInv(p) /\ AnswerInv(p)
      BY <1>1, <1>2, <2>2
    <3>2. QED
      BY <1>2, <1>13, <2>2, <3>1 DEF Call, Begin, Goto, AnswerInv, FreshInv, Told, Served, Lost, TurnInv, FilesInv, Apart, Busy,
         TypeOK, CltLabels, SrvLabels, Requested, files, signals, serverSide, clientSide
  <2>3. QED
    BY <2>1, <2>2
<1>14. ASSUME NEW p \in Procs, CltConnect(p) PROVE Kept
  <2>1. ASSUME NEW q \in Procs PROVE RoundInv(q)'
    BY <1>2, <1>14 DEF CltConnect, Advance, Goto, RoundInv, FilesInv, InRound, TypeOK, RoundsType, CltLabels, files, signals, serverSide, clientSide
  <2>2. ASSUME Apart', NEW q \in Procs PROVE AnswerInv(q)'
    <3>1. Apart /\ FreshInv(q) /\ AnswerInv(q) /\ FreshInv(p) /\ AnswerInv(p)
      BY <1>1, <1>2, <2>2
    <3>2. QED
      BY <1>2, <1>14, <2>2, <3>1 DEF CltConnect, Advance, Goto, AnswerInv, FreshInv, Told, Served, Lost, TurnInv, FilesInv, Apart, Busy,
         TypeOK, CltLabels, SrvLabels, Requested, files, signals, serverSide, clientSide
  <2>3. QED
    BY <2>1, <2>2
<1>15. ASSUME NEW p \in Procs, CltWrite(p) PROVE Kept
  <2>1. ASSUME NEW q \in Procs PROVE RoundInv(q)'
    BY <1>2, <1>15 DEF CltWrite, Advance, Goto, RoundInv, FilesInv, InRound, TypeOK, RoundsType, CltLabels, files, signals, serverSide, clientSide
  <2>2. ASSUME Apart', NEW q \in Procs PROVE AnswerInv(q)'
    <3>1. Apart /\ FreshInv(q) /\ AnswerInv(q) /\ FreshInv(p) /\ AnswerInv(p)
      BY <1>1, <1>2, <2>2
    <3>2. QED
      BY <1>2, <1>15, <2>2, <3>1 DEF CltWrite, Advance, Goto, AnswerInv, FreshInv, Told, Served, Lost, TurnInv, FilesInv, Apart, Busy,
         TypeOK, CltLabels, SrvLabels, Requested, files, signals, serverSide, clientSide
  <2>3. QED
    BY <2>1, <2>2
<1>16. ASSUME NEW p \in Procs, CltSignal(p) PROVE Kept
  <2>1. ASSUME NEW q \in Procs PROVE RoundInv(q)'
    BY <1>2, <1>16 DEF CltSignal, Goto, RoundInv, FilesInv, InRound, TypeOK, RoundsType, CltLabels, files, signals, serverSide, clientSide
  <2>2. ASSUME Apart', NEW q \in Procs PROVE AnswerInv(q)'
    <3>1. Apart /\ FreshInv(q) /\ AnswerInv(q) /\ FreshInv(p) /\ AnswerInv(p)
      BY <1>1, <1>2, <2>2
    <3>2. QED
      BY <1>2, <1>16, <2>2, <3>1 DEF CltSignal, Goto, AnswerInv, FreshInv, Told, Served, Lost, TurnInv, FilesInv, Apart, Busy,
         TypeOK, CltLabels, SrvLabels, Requested, files, signals, serverSide, clientSide
  <2>3. QED
    BY <2>1, <2>2
<1>17. ASSUME NEW p \in Procs, CltArm(p) PROVE Kept
  <2>1. ASSUME NEW q \in Procs PROVE RoundInv(q)'
    BY <1>2, <1>17 DEF CltArm, Advance, Goto, RoundInv, FilesInv, InRound, TypeOK, RoundsType, CltLabels, files, signals, serverSide, clientSide
  <2>2. ASSUME Apart', NEW q \in Procs PROVE AnswerInv(q)'
    <3>1. Apart /\ FreshInv(q) /\ AnswerInv(q) /\ FreshInv(p) /\ AnswerInv(p)
      BY <1>1, <1>2, <2>2
    <3>2. QED
      BY <1>2, <1>17, <2>2, <3>1 DEF CltArm, Advance, Goto, AnswerInv, FreshInv, Told, Served, Lost, TurnInv, FilesInv, Apart, Busy,
         TypeOK, CltLabels, SrvLabels, Requested, files, signals, serverSide, clientSide
  <2>3. QED
    BY <2>1, <2>2
<1>18. ASSUME NEW p \in Procs, CltRead(p) PROVE Kept
  <2>1. ASSUME NEW q \in Procs PROVE RoundInv(q)'
    BY <1>2, <1>18 DEF CltRead, Receive, Goto, Responses, RoundInv, FilesInv, InRound, TypeOK, RoundsType, CltLabels, files, signals, serverSide, clientSide
  <2>2. ASSUME Apart', NEW q \in Procs PROVE AnswerInv(q)'
    <3>1. Apart /\ FreshInv(q) /\ AnswerInv(q) /\ FreshInv(p) /\ AnswerInv(p)
      BY <1>1, <1>2, <2>2
    <3>2. QED
      BY <1>2, <1>18, <2>2, <3>1 DEF CltRead, Receive, Goto, Responses, AnswerInv, FreshInv, Told, Served, Lost, TurnInv, FilesInv, Apart, Busy,
         TypeOK, CltLabels, SrvLabels, Requested, files, signals, serverSide, clientSide
  <2>3. QED
    BY <2>1, <2>2
<1>19. ASSUME NEW p \in Procs, CltClear(p) PROVE Kept
  <2>1. ASSUME NEW q \in Procs PROVE RoundInv(q)'
    BY <1>2, <1>19 DEF CltClear, Advance, Goto, RoundInv, FilesInv, InRound, TypeOK, RoundsType, CltLabels, files, signals, serverSide, clientSide
  <2>2. ASSUME Apart', NEW q \in Procs PROVE AnswerInv(q)'
    <3>1. Apart /\ FreshInv(q) /\ AnswerInv(q) /\ FreshInv(p) /\ AnswerInv(p)
      BY <1>1, <1>2, <2>2
    <3>2. QED
      BY <1>2, <1>19, <2>2, <3>1 DEF CltClear, Advance, Goto, AnswerInv, FreshInv, Told, Served, Lost, TurnInv, FilesInv, Apart, Busy,
         TypeOK, CltLabels, SrvLabels, Requested, files, signals, serverSide, clientSide
  <2>3. QED
    BY <2>1, <2>2
<1>20. ASSUME NEW p \in Procs, CltDisconnect(p) PROVE Kept
  <2>1. ASSUME NEW q \in Procs PROVE RoundInv(q)'
    BY <1>2, <1>20 DEF CltDisconnect, NextRound, Advance, Goto, RoundInv, FilesInv, InRound, TypeOK, RoundsType, CltLabels, files, signals, serverSide, clientSide
  <2>2. ASSUME Apart', NEW q \in Procs PROVE AnswerInv(q)'
    <3>1. Apart /\ FreshInv(q) /\ AnswerInv(q) /\ FreshInv(p) /\ AnswerInv(p)
      BY <1>1, <1>2, <2>2
    <3>2. /\ UNCHANGED <<inbox, srv, serving, answer, flag, aimed>>
          /\ pc[p] = "disconnect" /\ pc'[p] \in {"idle", "connect", "exited"}
          /\ \A r \in Procs \ {p} : pc'[r] = pc[r] /\ rpc'[r] = rpc[r] /\ file'[r] = file[r]
      BY <1>2, <1>20 DEF CltDisconnect, NextRound, Advance, Goto, TypeOK, RoundsType, serverSide, signals
    <3>3. ~Told(p) /\ ~Served(p) /\ p \notin aimed
      BY <1>2, <3>1, <3>2 DEF FreshInv, TurnInv, Lost
    <3>4. (Told(q)' <=> Told(q)) /\ (Served(q)' <=> Served(q))
      BY <3>2 DEF Told, Served
    <3>5. QED
      BY <3>1, <3>2, <3>3, <3>4 DEF AnswerInv
  <2>3. QED
    BY <2>1, <2>2
<1>21. ASSUME NEW p \in Procs, KillClient(p) PROVE Kept
  <2>1. ASSUME NEW q \in Procs PROVE RoundInv(q)'
    BY <1>2, <1>21 DEF KillClient, Advance, Goto, RoundInv, FilesInv, InRound, TypeOK, RoundsType, CltLabels, files, signals, serverSide, clientSide
  <2>2. ASSUME Apart', NEW q \in Procs PROVE AnswerInv(q)'
    <3>1. Apart /\ FreshInv(q) /\ AnswerInv(q) /\ FreshInv(p) /\ AnswerInv(p)
      BY <1>1, <1>2, <2>2
    <3>2. QED
      BY <1>2, <1>21, <2>2, <3>1 DEF KillClient, Advance, Goto, AnswerInv, FreshInv, Told, Served, Lost, TurnInv, FilesInv, Apart, Busy,
         TypeOK, CltLabels, SrvLabels, Requested, files, signals, serverSide, clientSide
  <2>3. QED
    BY <2>1, <2>2
<1>22. ASSUME UNCHANGED vars PROVE Kept
  <2> USE <1>22 DEF vars, files, signals, serverSide, clientSide
  <2>1. ASSUME NEW q \in Procs PROVE RoundInv(q)'
    BY <1>2 DEF RoundInv
  <2>2. ASSUME Apart', NEW q \in Procs PROVE AnswerInv(q)'
    <3>1. AnswerInv(q)
      BY <1>1, <1>2, <2>2
    <3>2. QED
      BY <3>1 DEF AnswerInv, Told, Served
  <2>3. QED
    BY <2>1, <2>2
<1>23. QED
  BY <1>1, <1>3, <1>4, <1>5, <1>6, <1>7, <1>8, <1>9, <1>10, <1>11, <1>12, <1>13, <1>14, <1>15, <1>16, <1>17, <1>18, <1>19, <1>20, <1>21, <1>22
  DEF SignalsInv, Next, SrvStep, CltStep, Apart

-----------------------------------------------------------------------------
\* Types, the files there are, and whose turn it is, hold in every state.
THEOREM SignalsCorrect == Spec => []SignalsInv
<1>1. Init => SignalsInv
  BY SignalsInit
<1>2. SignalsInv /\ [Next]_vars => SignalsInv'
  BY SignalsNext
<1>3. QED
  BY <1>1, <1>2, PTL DEF Spec

\* A client that nobody came across finds CLIENT_FILE (signals.c:195).
THEOREM LoneClientsLeave == Spec => []LoneClientLeaves
<1>1. SignalsInv => LoneClientLeaves
  BY DEF SignalsInv, OrderInv
<1>2. QED
  BY <1>1, SignalsCorrect, PTL

\* No flag is left to be taken for an answer (signals.c:164).
THEOREM NoFlagIsStale == Spec => []NoStaleFlag
<1>1. SignalsInv => NoStaleFlag
  BY DEF SignalsInv, OrderInv, NoStaleFlag, FreshInv, Lost
<1>2. QED
  BY <1>1, SignalsCorrect, PTL

\* Only a fault, a signal before the handler is there (signals.c:142), or a
\* message too close to another ends the server.
THEOREM OnlyEarlySignalsStop == Spec => OnlyEarlySignalsStopServer
<1>1. ASSUME SignalsInv, [Next]_vars
      PROVE  [srv # "down" /\ srv' = "down" =>
                faults' > faults \/ company = "crowded" \/ Server \notin armed]_vars
  <2>1. SUFFICES ASSUME Next, srv # "down", srv' = "down"
        PROVE  faults' > faults \/ company = "crowded" \/ Server \notin armed
    BY <1>1
  <2>2. faults \in Nat
    BY <1>1 DEF SignalsInv, OrderInv, TypeOK, RoundsType
  <2>3. CASE SrvStop \/ KillServer
    BY <2>2, <2>3 DEF SrvStop, KillServer, Fault
  <2>4. CASE SrvWrite
    BY <1>1, <2>1, <2>4, AnswerHasFile DEF SignalsInv, SrvWrite, Apart
  <2>5. ASSUME NEW p \in Procs, CltSignal(p) PROVE Server \notin armed
    BY <2>1, <2>5 DEF CltSignal
  <2>6. CASE \/ SrvStart \/ SrvInit \/ SrvArm \/ SrvRead \/ SrvClear \/ SrvHandle \/ SrvSignal
             \/ \E p \in Procs : Call(p) \/ KillClient(p)
             \/ \E p \in Procs : CltConnect(p) \/ CltWrite(p) \/ CltArm(p) \/ CltRead(p)
                                   \/ CltClear(p) \/ CltDisconnect(p)
    BY <2>1, <2>6
       DEF SrvStart, SrvInit, SrvArm, SrvRead, SrvClear, SrvHandle, Handle, SrvSignal, Call,
           KillClient, CltConnect, CltWrite, CltArm, CltRead, CltClear, CltDisconnect, serverSide
  <2>7. QED
    BY <2>1, <2>3, <2>4, <2>5, <2>6 DEF Next, SrvStep, CltStep
<1>2. QED
  BY <1>1, SignalsCorrect, PTL DEF Spec, OnlyEarlySignalsStopServer

-----------------------------------------------------------------------------
\* What StockServer_proofs says of a step, about the clients as seen here.
Facts == INSTANCE StockServer_proofs
           WITH request <- RequestNow, rpc <- RpcNow, resp <- RespNow

\* The views are functions, and the constants are as assumed here.
LEMMA Viewed ==
  /\ Facts!Views /\ Facts!Views'
  /\ IntMax \in Nat /\ Quantities \subseteq Facts!Ints /\ Absent \notin Int
  BY IntMaxAssumption, QuantitiesAssumption, AbsentAssumption
     DEF Facts!Views, RequestNow, RpcNow, RespNow, Facts!Ints, Ints

\* Both instances have the data of this module, and the same steps.
LEMMA SameData ==
  /\ Facts!Requests = Requests
  /\ \A r : /\ Facts!Refused(r) <=> Refused(r)
            /\ Facts!FirstMessage(r) = FirstMessage(r) /\ Facts!AddMessage(r) = AddMessage(r)
            /\ \A m, x : Facts!GoesOn(r, m, x) <=> GoesOn(r, m, x)
  /\ \A m, x : /\ Facts!HoldsAfter(m, x) = HoldsAfter(m, x)
               /\ Facts!ResponseTo(m, x) = ResponseTo(m, x)
  BY DEF Facts!Requests, Requests, Facts!Refused, Refused, Facts!FirstMessage, FirstMessage,
         Facts!AddMessage, AddMessage, Facts!Message, Message, Facts!Delta, Delta,
         Facts!GoesOn, GoesOn, Facts!HoldsAfter, HoldsAfter, Facts!Wrap, Wrap,
         Facts!ResponseTo, ResponseTo

\* A step of the one instance is a step of the other.
LEMMA SameSteps == Facts!ServerNext => Service!ServerNext
  BY DEF Facts!ServerNext, Service!ServerNext, Facts!Forget, Service!Forget, Facts!Call, Service!Call,
         Facts!Serve, Service!Serve, Facts!Answer, Service!Answer, Facts!Die, Service!Die,
         Facts!ServeDead, Service!ServeDead, Facts!Lose, Service!Lose, Facts!Dead, Service!Dead,
         Facts!Requests, Service!Requests, Facts!Refused, Service!Refused,
         Facts!FirstMessage, Service!FirstMessage, Facts!AddMessage, Service!AddMessage,
         Facts!Message, Service!Message, Facts!Delta, Service!Delta, Facts!GoesOn, Service!GoesOn,
         Facts!HoldsAfter, Service!HoldsAfter, Facts!Wrap, Service!Wrap,
         Facts!ResponseTo, Service!ResponseTo

-----------------------------------------------------------------------------
\* The three views, case by case.
LEMMA Seen ==
  ASSUME NEW q \in Procs
  PROVE  /\ RequestNow[q] = IF Lost(q) THEN Gone ELSE request[q]
         /\ RpcNow[q] = IF Lost(q) /\ ~InFlight(q) THEN NoMessage ELSE rpc[q]
         /\ RespNow[q] = IF Lost(q) THEN Pending
                         ELSE IF srv \in {"send", "signal"} /\ serving.from = q THEN answer
                         ELSE IF file[q] \in Responses /\ resp[q] = Pending THEN file[q]
                         ELSE resp[q]
  BY DEF RequestNow, RpcNow, RespNow

\* The same after the step.
LEMMA SeenThen ==
  ASSUME NEW q \in Procs
  PROVE  /\ RequestNow'[q] = IF Lost(q)' THEN Gone ELSE request'[q]
         /\ RpcNow'[q] = IF Lost(q)' /\ ~InFlight(q)' THEN NoMessage ELSE rpc'[q]
         /\ RespNow'[q] = IF Lost(q)' THEN Pending
                          ELSE IF srv' \in {"send", "signal"} /\ serving'.from = q THEN answer'
                          ELSE IF file'[q] \in Responses /\ resp'[q] = Pending THEN file'[q]
                          ELSE resp'[q]
  BY DEF RequestNow, RpcNow, RespNow

\* Before the server is started nobody waits for anything.
LEMMA InitRefines == Init => Service!ServerInit
<1> SUFFICES ASSUME Init PROVE Service!ServerInit
  OBVIOUS
<1>1. ASSUME NEW q \in Procs
      PROVE  RequestNow[q] = Idle /\ RpcNow[q] = NoMessage /\ RespNow[q] = Pending
  BY Seen, SignalsAssumption DEF Init, RoundsInit, Lost
<1>2. QED
  BY <1>1 DEF Init, RoundsInit, Service!ServerInit, RequestNow, RpcNow, RespNow

\* Whose message is on its way is waiting, or lost, and has no response.
LEMMA Awaits ==
  ASSUME SignalsInv, Apart, NEW q \in Procs, InFlight(q) \/ Told(q) \/ Served(q)
  PROVE  /\ pc[q] \in {"arm", "wait"} \/ Lost(q)
         /\ ~Lost(q) => resp[q] = Pending
         /\ ~(Told(q) /\ Served(q))
         /\ InFlight(q) => file[q] = Blank /\ ~(srv \in {"send", "signal"} /\ serving.from = q)
         /\ Served(q) => file[q] = IF srv = "signal" THEN answer ELSE Blank
<1>1. FreshInv(q) /\ AnswerInv(q) /\ RoundInv(q)
  BY DEF SignalsInv, OrderInv, Apart
<1>2. InFlight(q) => Told(q) \/ (Served(q) /\ srv \in {"clear", "handle"})
  BY DEF InFlight, Told, Served
<1>3. QED
  BY <1>1, <1>2 DEF FreshInv, AnswerInv, RoundInv, Lost, Told, Served

\* The server ends: the client it was to write to is lost, and so are
\* messages the dead have sent.
LEMMA EndRefines ==
  ASSUME SignalsInv, Apart, EndServer, UNCHANGED file
  PROVE  Facts!ServerNext
<1>1. /\ UNCHANGED <<stock, request, rpc, resp, file>> /\ srv' = "down" /\ Server \notin flag'
      /\ \A q \in Procs : pc'[q] = IF srv = "send" /\ serving.from = q /\ pc[q] \in {"arm", "wait"}
                                   THEN "stuck" ELSE pc[q]
      /\ \A q \in Procs : ~InFlight(q)'
  BY DEF EndServer, InFlight
<1>2. /\ TypeOK /\ TurnInv /\ \A q \in Procs : RoundInv(q)
      /\ \A q \in Procs : ~Lost(q) => RequestNow[q] # Gone
  BY Seen, RoundsValuesAssumption DEF SignalsInv, OrderInv, TypeOK, RoundsType
<1>3. ASSUME NEW q \in Procs, ~(srv = "send" /\ serving.from = q /\ pc[q] \in {"arm", "wait"})
      PROVE  /\ RequestNow'[q] = RequestNow[q] /\ RespNow'[q] = RespNow[q]
             /\ RpcNow'[q] = RpcNow[q] \/ (RequestNow[q] = Gone /\ RpcNow'[q] = NoMessage)
  <2>1. Lost(q)' <=> Lost(q)
    BY <1>1, <1>3 DEF Lost
  <2>2. CASE Lost(q)
    BY <1>1, <2>1, <2>2, Seen, SeenThen
  <2>3. CASE ~Lost(q)
    <3>1. RespNow'[q] = RespNow[q]
      <4>1. CASE srv \in {"send", "signal"} /\ serving.from = q
        <5>1. srv = "signal" /\ file[q] = answer /\ resp[q] = Pending
          BY <1>3, <2>3, <4>1, Awaits DEF Served
        <5>2. answer \in Responses
          BY <1>2, <5>1 DEF TurnInv
        <5>3. QED
          BY <1>1, <2>1, <2>3, <4>1, <5>1, <5>2, Seen, SeenThen
      <4>2. CASE ~(srv \in {"send", "signal"} /\ serving.from = q)
        BY <1>1, <2>1, <2>3, <4>2, Seen, SeenThen
      <4>3. QED
        BY <4>1, <4>2
    <3>2. QED
      BY <1>1, <2>1, <2>3, <3>1, Seen, SeenThen
  <2>4. QED
    BY <2>2, <2>3
<1>4. CASE \E c \in Procs : srv = "send" /\ serving.from = c /\ pc[c] \in {"arm", "wait"}
  <2>1. PICK c \in Procs : srv = "send" /\ serving.from = c /\ pc[c] \in {"arm", "wait"}
    BY <1>4
  <2>2. ~Lost(c) /\ Lost(c)'
    BY <1>1, <2>1 DEF Lost
  <2>3. /\ RequestNow[c] # Gone /\ RequestNow'[c] = Gone /\ RespNow'[c] = Pending
        /\ RpcNow'[c] = NoMessage
    BY <1>1, <1>2, <2>2, SeenThen
  <2>4. QED
    BY <1>1, <1>3, <2>1, <2>3, Facts!DieStep, Viewed
<1>5. CASE ~\E c \in Procs : srv = "send" /\ serving.from = c /\ pc[c] \in {"arm", "wait"}
  BY <1>1, <1>3, <1>5, Facts!QuietStep, Viewed
<1>6. QED
  BY <1>4, <1>5

\* Every step of Signals is a step of StockServer, as long as no message has
\* come too close to another.
LEMMA StepRefines ==
  ASSUME SignalsInv, Next, Apart'
  PROVE  Facts!ServerNext
<1> DEFINE Same(q) == /\ RequestNow'[q] = RequestNow[q]
                      /\ RpcNow'[q] = RpcNow[q]
                      /\ RespNow'[q] = RespNow[q]
<1> HIDE DEF Same
<1>1. Apart
  BY StillApart
<1>2. /\ TypeOK /\ FilesInv /\ TurnInv
      /\ \A q \in Procs : CallInv(q) /\ RoundInv(q) /\ FreshInv(q) /\ AnswerInv(q)
      /\ \A q \in Procs : ~Lost(q) => RequestNow[q] # Gone
      /\ Server \notin Procs /\ NoFile \notin Responses /\ Blank \notin Responses
  BY <1>1, Seen, RoundsValuesAssumption, SignalsAssumption
     DEF SignalsInv, OrderInv, TypeOK, RoundsType, Apart
<1>3. ASSUME stock' = stock, \A q \in Procs : Same(q) PROVE Facts!ServerNext
  BY <1>3, Facts!QuietStep, Viewed DEF Same
\* Steps that move no message and write no response.
<1>4. ASSUME UNCHANGED <<stock, request, rpc, resp, file>>,
             \A q \in Procs : Lost(q)' <=> Lost(q),
             \A q \in Procs : InFlight(q)' <=> InFlight(q),
             \/ srv \notin {"send", "signal"} /\ srv' \notin {"send", "signal"}
             \/ UNCHANGED <<srv, serving, answer>>
      PROVE  Facts!ServerNext
  <2>1. ASSUME NEW q \in Procs PROVE Same(q)
    BY <1>4, Seen, SeenThen DEF Same
  <2>2. QED
    BY <1>3, <1>4, <2>1
<1>5. CASE SrvStart \/ SrvInit \/ SrvArm
  <2>1. /\ UNCHANGED <<stock, clientSide, file, flag>>
        /\ srv \in {"down", "init", "arm"} /\ srv' \in {"init", "arm", "wait"}
        /\ Server \notin flag
    BY <1>2, <1>5 DEF SrvStart, SrvInit, SrvArm, TurnInv, files, signals
  <2>2. \A q \in Procs : (Lost(q)' <=> Lost(q)) /\ (InFlight(q)' <=> InFlight(q))
    BY <2>1 DEF Lost, InFlight, clientSide
  <2>3. QED
    BY <1>4, <2>1, <2>2 DEF clientSide
<1>6. CASE SrvRead
  <2>1. /\ UNCHANGED <<stock, clientSide, file, flag, inbox>>
        /\ srv = "wait" /\ srv' = "clear" /\ serving' = inbox /\ Server \in flag
        /\ inbox \in Requested
    BY <1>2, <1>6 DEF SrvRead, TurnInv, files, signals
  <2>2. \A q \in Procs : (Lost(q)' <=> Lost(q)) /\ (InFlight(q)' <=> InFlight(q))
    BY <2>1 DEF Lost, InFlight, Requested, clientSide
  <2>3. QED
    BY <1>4, <2>1, <2>2 DEF clientSide
<1>7. CASE SrvClear
  <2>1. /\ UNCHANGED <<stock, clientSide, file, inbox, serving, answer>>
        /\ srv = "clear" /\ srv' = "handle" /\ Server \notin flag'
    BY <1>7 DEF SrvClear, files
  <2>2. \A q \in Procs : (Lost(q)' <=> Lost(q)) /\ (InFlight(q)' <=> InFlight(q))
    BY <2>1 DEF Lost, InFlight, clientSide
  <2>3. QED
    BY <1>4, <2>1, <2>2 DEF clientSide
<1>8. CASE SrvHandle
  <2>1. PICK c \in Procs, m \in Messages : serving.from = c /\ serving.message = m
    BY <1>2, <1>8 DEF SrvHandle, Handle, TurnInv, Requested
  <2>2. /\ UNCHANGED <<clientSide, file, flag, inbox, serving>> /\ srv = "handle" /\ srv' = "send"
        /\ stock' = [stock EXCEPT ![m.name] = HoldsAfter(m, @)]
        /\ answer' = ResponseTo(m, stock[m.name])
    BY <1>8, <2>1 DEF SrvHandle, Handle, files, signals
  <2>3. m # NoMessage /\ rpc[c] = m
    BY <1>2, <2>1, <2>2, RoundsValuesAssumption DEF AnswerInv, Served
  <2>4. /\ InFlight(c) /\ ~InFlight(c)'
        /\ \A q \in Procs \ {c} : InFlight(q)' <=> InFlight(q)
    <3>1. ~Told(c)
      BY <1>1, <2>1, <2>2, Awaits DEF Served
    <3>2. QED
      BY <2>1, <2>2, <3>1 DEF InFlight, Told
  <2>5. RpcNow[c] = m /\ RequestNow'[c] = RequestNow[c]
    BY <2>2, <2>3, <2>4, Seen, SeenThen DEF clientSide, Lost
  <2>6. ASSUME NEW q \in Procs \ {c} PROVE Same(q)
    <3>1. (Lost(q)' <=> Lost(q)) /\ serving.from # q
      BY <2>1, <2>2, <2>6 DEF clientSide, Lost
    <3>2. QED
      BY <2>2, <2>4, <3>1, Seen, SeenThen DEF clientSide, Same
  <2>7. IF RequestNow[c] = Gone
        THEN RpcNow'[c] = NoMessage /\ RespNow'[c] = RespNow[c]
        ELSE /\ RpcNow'[c] = RpcNow[c]
             /\ RespNow[c] = Pending /\ RespNow'[c] = ResponseTo(m, stock[m.name])
    <3>1. CASE Lost(c)
      BY <2>2, <2>4, <3>1, Seen, SeenThen DEF clientSide, Lost
    <3>2. CASE ~Lost(c)
      <4>1. resp[c] = Pending /\ file[c] = Blank /\ RequestNow[c] # Gone
        BY <1>1, <1>2, <2>4, <3>2, Awaits
      <4>2. RespNow[c] = Pending
        BY <1>2, <2>2, <3>2, <4>1, Seen
      <4>3. RespNow'[c] = answer'
        BY <2>1, <2>2, <3>2, SeenThen DEF clientSide, Lost
      <4>4. RpcNow'[c] = RpcNow[c]
        BY <2>2, <3>2, Seen, SeenThen DEF clientSide, Lost
      <4>5. QED
        BY <2>2, <4>1, <4>2, <4>3, <4>4
    <3>3. QED
      BY <3>1, <3>2
  <2>8. QED
    BY <2>2, <2>3, <2>5, <2>6, <2>7, Facts!ServeStep, Viewed, SameData DEF Same
<1>9. CASE SrvWrite
  <2>1. PICK c \in Procs : serving.from = c
    BY <1>2, <1>9 DEF SrvWrite, TurnInv, Requested
  <2>2. file[c] # NoFile
    BY <1>1, <1>9, <2>1, AnswerHasFile DEF SrvWrite, SignalsInv
  <2>3. /\ UNCHANGED <<stock, clientSide, flag, inbox, serving, answer>>
        /\ srv = "send" /\ srv' = "signal"
        /\ \A q \in Procs \ {c} : file'[q] = file[q]
    BY <1>2, <1>9, <2>1, <2>2 DEF SrvWrite, TypeOK, signals
  <2>4. \A q \in Procs : (Lost(q)' <=> Lost(q)) /\ (InFlight(q)' <=> InFlight(q))
    BY <2>3 DEF Lost, InFlight, clientSide
  <2>5. ASSUME NEW q \in Procs PROVE Same(q)
    BY <2>1, <2>3, <2>4, Seen, SeenThen DEF clientSide, Same
  <2>6. QED
    BY <1>3, <2>3, <2>5
<1>10. CASE SrvSignal
  <2>1. PICK c \in Procs : serving.from = c
    BY <1>2, <1>10 DEF SrvSignal, TurnInv, Requested
  <2>2. /\ UNCHANGED <<stock, file, inbox, request, rpc, resp>>
        /\ srv = "signal" /\ srv' = "wait"
        /\ Server \in flag' <=> Server \in flag
        /\ \A q \in Procs \ {c} : pc'[q] = pc[q]
        /\ pc'[c] = pc[c] \/ (pc'[c] = "exited" /\ ~Lost(c))
    BY <1>2, <1>10, <2>1 DEF SrvSignal, Advance, Goto, Lost, TypeOK, files, clientSide
  <2>3. \A q \in Procs : InFlight(q)' <=> InFlight(q)
    BY <2>2 DEF InFlight
  <2>4. ASSUME NEW q \in Procs \ {c} PROVE Same(q)
    BY <2>1, <2>2, <2>3, Seen, SeenThen DEF Same, Lost
  <2>5. answer \in Responses
    BY <1>2, <2>2 DEF TurnInv
  <2>6. CASE pc'[c] = pc[c]
    <3>1. CASE Lost(c)
      BY <1>3, <2>2, <2>3, <2>4, <2>6, <3>1, Seen, SeenThen DEF Same, Lost
    <3>2. CASE ~Lost(c)
      <4>1. file[c] = answer /\ resp[c] = Pending
        BY <1>1, <2>1, <2>2, <3>2, Awaits DEF Served
      <4>2. RespNow[c] = answer /\ RespNow'[c] = answer
        BY <2>1, <2>2, <2>5, <2>6, <3>2, <4>1, Seen, SeenThen DEF Lost
      <4>3. Same(c)
        BY <2>2, <2>3, <2>6, <3>2, <4>2, Seen, SeenThen DEF Same, Lost
      <4>4. QED
        BY <1>3, <2>2, <2>4, <4>3
    <3>3. QED
      BY <3>1, <3>2
  <2>7. CASE pc'[c] = "exited" /\ ~Lost(c)
    <3>1. ~InFlight(c)
      BY <1>1, <2>1, <2>2, Awaits DEF InFlight
    <3>2. /\ RequestNow[c] # Gone /\ RequestNow'[c] = Gone /\ RespNow'[c] = Pending
          /\ RpcNow'[c] = NoMessage
      BY <1>2, <2>3, <2>7, <3>1, SeenThen DEF Lost
    <3>3. QED
      BY <2>2, <2>4, <3>2, Facts!DieStep, Viewed DEF Same
  <2>8. QED
    BY <2>2, <2>6, <2>7
<1>11. CASE SrvStop \/ KillServer
  BY <1>1, <1>11, EndRefines DEF SrvStop, KillServer, files
<1>12. ASSUME NEW p \in Procs, Call(p) PROVE Facts!ServerNext
  <2>1. PICK r \in Requests : /\ ~Refused(r)
                              /\ request' = [request EXCEPT ![p] = r]
                              /\ rpc' = [rpc EXCEPT ![p] = FirstMessage(r)]
    BY <1>12 DEF Call, Begin
  <2>2. /\ UNCHANGED <<stock, srv, serving, answer, resp, file, inbox, flag>>
        /\ pc[p] = "idle" /\ request[p] = Idle
        /\ \A q \in Procs : pc'[q] = IF q = p THEN "connect" ELSE pc[q]
        /\ \A q \in Procs : request'[q] = IF q = p THEN r ELSE request[q]
        /\ \A q \in Procs : rpc'[q] = IF q = p THEN FirstMessage(r) ELSE rpc[q]
    BY <1>2, <1>12, <2>1
       DEF Call, Begin, Goto, TypeOK, RoundsType, RoundInv, serverSide, files, signals
  <2>3. \A q \in Procs : InFlight(q)' <=> InFlight(q)
    BY <2>2 DEF InFlight
  <2>4. /\ RequestNow[p] = Idle /\ RequestNow'[p] = r /\ RpcNow'[p] = FirstMessage(r)
        /\ RespNow'[p] = RespNow[p]
    BY <2>2, Seen, SeenThen DEF Lost
  <2>5. ASSUME NEW q \in Procs \ {p} PROVE Same(q)
    BY <2>2, <2>3, <2>5, Seen, SeenThen DEF Same, Lost
  <2>6. QED
    BY <2>1, <2>2, <2>4, <2>5, Facts!CallStep, Viewed, SameData DEF Same
\* A client that ends where no answer of its own is under way, or is killed.
<1>13. ASSUME NEW p \in Procs, pc'[p] = "exited",
              UNCHANGED <<stock, request, rpc, resp, srv, serving, answer>>,
              \A q \in Procs \ {p} : pc'[q] = pc[q] /\ file'[q] = file[q],
              \A q \in Procs : InFlight(q)' <=> InFlight(q)
       PROVE  Facts!ServerNext
  <2>1. ASSUME NEW q \in Procs \ {p} PROVE Same(q)
    BY <1>13, <2>1, Seen, SeenThen DEF Same, Lost
  <2>2. Lost(p)'
    BY <1>13 DEF Lost
  <2>3. CASE Lost(p)
    BY <1>3, <1>13, <2>1, <2>2, <2>3, Seen, SeenThen DEF Same
  <2>4. CASE ~Lost(p)
    <3>1. RequestNow[p] # Gone /\ RequestNow'[p] = Gone /\ RespNow'[p] = Pending
      BY <1>2, <2>2, <2>4, SeenThen
    <3>2. CASE InFlight(p)
      <4>1. RespNow[p] = Pending
        BY <1>1, <1>2, <2>4, <3>2, Awaits, Seen
      <4>2. RpcNow'[p] = RpcNow[p]
        BY <1>13, <3>2, Seen, SeenThen
      <4>3. QED
        BY <1>13, <2>1, <3>1, <4>1, <4>2, Facts!DieStep, Viewed DEF Same
    <3>3. CASE ~InFlight(p)
      <4>1. RpcNow'[p] = NoMessage
        BY <1>13, <2>2, <3>3, SeenThen
      <4>2. QED
        BY <1>13, <2>1, <3>1, <4>1, Facts!DieStep, Viewed DEF Same
    <3>4. QED
      BY <3>2, <3>3
  <2>5. QED
    BY <2>3, <2>4
<1>14. ASSUME NEW p \in Procs, KillClient(p) PROVE Facts!ServerNext
  <2>1. /\ UNCHANGED <<stock, request, rpc, resp, srv, serving, answer, file, inbox, flag>>
        /\ pc'[p] = "exited" /\ \A q \in Procs \ {p} : pc'[q] = pc[q]
    BY <1>2, <1>14 DEF KillClient, Advance, Goto, TypeOK, serverSide, files
  <2>2. \A q \in Procs : InFlight(q)' <=> InFlight(q)
    BY <2>1 DEF InFlight
  <2>3. QED
    BY <1>13, <2>1, <2>2
<1>15. ASSUME NEW p \in Procs, CltConnect(p) PROVE Facts!ServerNext
  <2>1. /\ UNCHANGED <<stock, request, rpc, resp, srv, serving, answer, inbox, flag>>
        /\ pc[p] = "connect" /\ \A q \in Procs \ {p} : pc'[q] = pc[q] /\ file'[q] = file[q]
        /\ pc'[p] = "exited" \/ (pc'[p] = "write" /\ file'[p] = Blank)
    BY <1>2, <1>15 DEF CltConnect, Advance, Goto, TypeOK, serverSide, signals
  <2>2. \A q \in Procs : InFlight(q)' <=> InFlight(q)
    BY <2>1 DEF InFlight
  <2>3. CASE pc'[p] = "exited"
    BY <1>13, <2>1, <2>2, <2>3
  <2>4. CASE pc'[p] = "write" /\ file'[p] = Blank
    <3>1. file[p] = NoFile
      BY <1>2, <2>1 DEF FilesInv
    <3>2. ASSUME NEW q \in Procs PROVE Same(q)
      BY <1>2, <2>1, <2>2, <2>4, <3>1, Seen, SeenThen DEF Same, Lost
    <3>3. QED
      BY <1>3, <2>1, <3>2
  <2>5. QED
    BY <2>1, <2>3, <2>4
<1>16. ASSUME NEW p \in Procs, CltWrite(p) PROVE Facts!ServerNext
  <2>1. /\ UNCHANGED <<stock, request, rpc, resp, srv, serving, answer, file, flag>>
        /\ pc[p] = "write" /\ \A q \in Procs \ {p} : pc'[q] = pc[q]
        /\ (pc'[p] = "exited" /\ inbox' = inbox) \/ (pc'[p] = "signal" /\ ~Busy)
    BY <1>2, <1>16 DEF CltWrite, Advance, Goto, TypeOK, serverSide, Apart
  <2>2. \A q \in Procs : InFlight(q)' <=> InFlight(q)
    BY <2>1 DEF InFlight, Busy
  <2>3. CASE pc'[p] = "exited"
    BY <1>13, <2>1, <2>2, <2>3
  <2>4. CASE pc'[p] = "signal"
    <3>1. \A q \in Procs : Lost(q)' <=> Lost(q)
      BY <2>1, <2>4 DEF Lost
    <3>2. QED
      BY <1>4, <2>1, <2>2, <3>1
  <2>5. QED
    BY <2>1, <2>3, <2>4
<1>17. ASSUME NEW p \in Procs, CltSignal(p) PROVE Facts!ServerNext
  <2>1. /\ UNCHANGED <<stock, request, rpc, resp, file, inbox, serving, answer>>
        /\ pc[p] = "signal" /\ pc'[p] \in {"arm", "wait"}
        /\ \A q \in Procs \ {p} : pc'[q] = pc[q]
        /\ srv' = srv \/ (srv' = "down" /\ srv \notin {"clear", "handle", "send", "signal"})
    BY <1>2, <1>17 DEF CltSignal, Goto, TypeOK, TurnInv, SrvLabels, files
  <2>2. /\ Server \notin flag /\ srv # "clear"
        /\ Server \in flag' => srv' = srv /\ inbox = [from |-> p, message |-> rpc[p]]
    BY <1>2, <1>17 DEF CltSignal, FreshInv, AnswerInv
  <2>3. ASSUME NEW q \in Procs PROVE Lost(q)' <=> Lost(q)
    BY <2>1 DEF Lost
  <2>4. ASSUME NEW q \in Procs PROVE Same(q)
    <3>1. q # p => (InFlight(q)' <=> InFlight(q))
      BY <2>1, <2>2 DEF InFlight
    <3>2. ~Lost(p)
      BY <2>1 DEF Lost
    <3>3. RpcNow'[q] = RpcNow[q]
      BY <2>1, <2>3, <3>1, <3>2, Seen, SeenThen
    <3>4. RespNow'[q] = RespNow[q] /\ RequestNow'[q] = RequestNow[q]
      BY <2>1, <2>3, Seen, SeenThen
    <3>5. QED
      BY <3>3, <3>4 DEF Same
  <2>5. QED
    BY <1>3, <2>1, <2>4
<1>18. ASSUME NEW p \in Procs, CltArm(p) \/ CltClear(p) PROVE Facts!ServerNext
  <2>1. /\ UNCHANGED <<stock, request, rpc, resp, srv, serving, answer, file, inbox>>
        /\ Server \in flag' <=> Server \in flag
        /\ pc[p] \in {"arm", "clear"} /\ pc'[p] \in {"wait", "disconnect"}
        /\ \A q \in Procs \ {p} : pc'[q] = pc[q]
    BY <1>2, <1>18 DEF CltArm, CltClear, Advance, Goto, TypeOK, serverSide, files
  <2>2. \A q \in Procs : (Lost(q)' <=> Lost(q)) /\ (InFlight(q)' <=> InFlight(q))
    BY <2>1 DEF Lost, InFlight
  <2>3. QED
    BY <1>4, <2>1, <2>2
<1>19. ASSUME NEW p \in Procs, CltRead(p) PROVE Facts!ServerNext
  <2>1. file[p] \in Responses /\ file[p] # Pending /\ resp[p] = Pending /\ ~Served(p)
    BY <1>2, <1>19, RoundsValuesAssumption DEF CltRead, AnswerInv, FreshInv, RoundInv
  <2>2. /\ UNCHANGED <<stock, request, rpc, srv, serving, answer, file, inbox, flag>>
        /\ pc[p] = "wait"
        /\ \A q \in Procs : pc'[q] = IF q = p THEN "clear" ELSE pc[q]
        /\ \A q \in Procs : resp'[q] = IF q = p THEN file[p] ELSE resp[q]
    BY <1>2, <1>19, <2>1 DEF CltRead, Receive, Goto, TypeOK, RoundsType, serverSide, files, signals
  <2>3. \A q \in Procs : (Lost(q)' <=> Lost(q)) /\ (InFlight(q)' <=> InFlight(q))
    BY <2>2 DEF Lost, InFlight
  <2>4. Same(p)
    BY <2>1, <2>2, <2>3, Seen, SeenThen DEF Same, Served
  <2>5. ASSUME NEW q \in Procs \ {p} PROVE Same(q)
    BY <2>2, <2>3, <2>5, Seen, SeenThen DEF Same
  <2>6. QED
    BY <1>3, <2>2, <2>4, <2>5
<1>20. ASSUME NEW p \in Procs, CltDisconnect(p) PROVE Facts!ServerNext
  <2>1. /\ UNCHANGED <<stock, srv, serving, answer, inbox, flag>> /\ pc[p] = "disconnect"
        /\ file'[p] = NoFile
        /\ \A q \in Procs \ {p} :
             /\ pc'[q] = pc[q] /\ request'[q] = request[q] /\ rpc'[q] = rpc[q]
             /\ resp'[q] = resp[q] /\ file'[q] = file[q]
    BY <1>2, <1>20
       DEF CltDisconnect, NextRound, Advance, Goto, TypeOK, RoundsType, serverSide, signals
  <2>2. \A q \in Procs : InFlight(q)' <=> InFlight(q)
    BY <2>1 DEF InFlight
  <2>3. CASE ~clientFile
    <3>1. pc'[p] = "exited" /\ UNCHANGED <<request, rpc, resp>>
      BY <1>2, <1>20, <2>3 DEF CltDisconnect, Advance, Goto, TypeOK
    <3>2. QED
      BY <1>13, <2>1, <2>2, <3>1
  <2>4. CASE clientFile
    <3>1. /\ resp'[p] = Pending
          /\ IF GoesOn(request[p], rpc[p], resp[p])
             THEN rpc'[p] = AddMessage(request[p]) /\ request'[p] = request[p] /\ pc'[p] = "connect"
             ELSE rpc'[p] = NoMessage /\ request'[p] = Idle /\ pc'[p] = "idle"
      BY <1>2, <1>20, <2>4 DEF CltDisconnect, NextRound, Goto, TypeOK, RoundsType
    <3>2. /\ resp[p] # Pending /\ ~Lost(p) /\ ~Lost(p)' /\ ~Served(p)
      BY <1>2, <2>1, <3>1, RoundsValuesAssumption DEF RoundInv, FreshInv, Lost
    <3>3. RequestNow[p] = request[p] /\ RpcNow[p] = rpc[p] /\ RespNow[p] = resp[p]
      BY <3>2, Seen DEF Served
    <3>4. RequestNow'[p] = request'[p] /\ RpcNow'[p] = rpc'[p] /\ RespNow'[p] = Pending
      BY <1>2, <2>1, <3>1, <3>2, SeenThen DEF Served
    <3>5. ASSUME NEW q \in Procs \ {p} PROVE Same(q)
      BY <2>1, <2>2, <3>5, Seen, SeenThen DEF Same, Lost
    <3>6. RequestNow[p] # Gone
      BY <1>2, <3>2
    <3>7. QED
      BY <2>1, <3>1, <3>2, <3>3, <3>4, <3>5, <3>6, Facts!AnswerStep, Viewed, SameData DEF Same
  <2>5. QED
    BY <2>3, <2>4
<1>21. QED
  BY <1>5, <1>6, <1>7, <1>8, <1>9, <1>10, <1>11, <1>12, <1>14, <1>15, <1>16, <1>17, <1>18, <1>19, <1>20
  DEF Next, SrvStep, CltStep

\* Whoever is killed, while no message is written before the server has done
\* with the one before (signals.c:142-176), none takes effect twice and every
\* client reads the answer to its own.
THEOREM ImplementsService == Spec => ServesAtMostOnce
<1>1. SignalsInv /\ [Next]_vars
        => [company' # "crowded" => Service!ServerNext]_Service!serverVars
  <2>1. SUFFICES ASSUME SignalsInv, [Next]_vars, Apart'
        PROVE  Service!ServerNext \/ UNCHANGED Service!serverVars
    BY DEF Apart
  <2>2. CASE UNCHANGED vars
    BY <2>2
    DEF vars, files, signals, serverSide, clientSide, Service!serverVars, RequestNow, RpcNow,
        RespNow, Lost, InFlight
  <2>3. QED
    BY <2>1, <2>2, StepRefines, SameSteps
<1>2. QED
  BY <1>1, InitRefines, SignalsCorrect, PTL DEF Spec, ServesAtMostOnce

=============================================================================
