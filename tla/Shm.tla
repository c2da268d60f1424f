--------------------------------- MODULE Shm ---------------------------------
(***************************************************************************)
(* client.c and server.c over ipcs/shm.c: one message area and three       *)
(* semaphores.  SEM_CONN admits one client; SEM_SRV tells the server of a  *)
(* request; SEM_CLT tells the client both that the server is ready for a   *)
(* request and that the response is there, so the two can be told apart by *)
(* their order only.                                                       *)
(*                                                                         *)
(* The semaphores are those of semPosix.c, or of semSysV.c (SysV), where   *)
(* the kernel reverts what a process did to them when it exits (SEM_UNDO). *)
(* The area is read in pieces, with other processes in between.  A process *)
(* that reads bytes that are not one message is "garbled" and its further  *)
(* steps are not modelled.  The server is started once.                    *)
(***************************************************************************)
EXTENDS ClientServer, FiniteSets

CONSTANTS
  Procs,        \* client processes
  Server,       \* the server process
  Idle,         \* request[p]: p is between two calls
  Gone,         \* (of the abstract specification) p is dead or lost
  NoMessage,    \* no message, no client
  Pending,      \* no response yet
  Wiped,        \* the area after memset(.., '\0', ..)
  SysV,         \* the semaphores are those of semSysV.c
  MaxCalls,     \* bound: calls a client process makes
  MaxFaults     \* bound: processes killed or stopped

ASSUME ShmBoundsAssumption == MaxCalls \in Nat /\ MaxFaults \in Nat

ASSUME ShmValuesAssumption ==
  /\ Idle \notin Requests /\ Gone \notin Requests \cup {Idle}
  /\ NoMessage \notin Messages
  /\ Pending \notin Responses

VARIABLES
  stock,        \* what the server's directory holds
  sem,          \* the count of each semaphore
  live,         \* the semaphores exist
  undo,         \* what the exit of a process adds to each count
  shm,          \* the message area
  srv,          \* the server's next step
  serving,      \* the message it read, and who sent it
  answer,       \* the response it is to send
  pc,           \* each client's next step
  request,      \* its clt_ call
  rpc,          \* the message of that call under way
  resp,         \* the response it is reading, or has read
  calls,        \* calls made
  faults        \* processes killed or stopped

semaphores == <<sem, undo>>
serverSide == <<stock, srv, serving, answer>>
clientSide == <<pc, request, rpc, resp, calls>>
vars == <<semaphores, live, shm, serverSide, clientSide, faults>>

Sems == {"SRV", "CLT", "CONN"}

Zero == [s \in Sems |-> 0]

Requested == [from : Procs, message : Messages]

Contents == {Wiped} \cup Requested \cup Responses

SrvLabels == {"new", "init", "connect", "recv", "read", "handle", "send", "post",
              "garbled", "ended"}

CltLabels == {"idle", "connect", "send", "write", "post", "recv", "read", "body",
              "wipe", "check", "release", "left", "exited", "garbled"}

Init ==
  /\ stock \in [Names -> Quantities \cup {Absent}]
  /\ sem = Zero /\ live = FALSE
  /\ undo = [x \in Procs \cup {Server} |-> Zero]
  /\ shm = Wiped
  /\ srv = "new" /\ serving = NoMessage /\ answer = Pending
  /\ pc = [p \in Procs |-> "idle"]
  /\ request = [p \in Procs |-> Idle]
  /\ rpc = [p \in Procs |-> NoMessage]
  /\ resp = [p \in Procs |-> Pending]
  /\ calls = [p \in Procs |-> 0]
  /\ faults = 0

Goto(p, label) == pc' = [pc EXCEPT ![p] = label]

-----------------------------------------------------------------------------
\* semaphore_let and semaphore_stop by process x.
Let(x, s) ==
  /\ sem' = [sem EXCEPT ![s] = @ + 1]
  /\ undo' = IF SysV THEN [undo EXCEPT ![x][s] = @ - 1] ELSE undo

Stop(x, s) ==
  /\ sem[s] > 0
  /\ sem' = [sem EXCEPT ![s] = @ - 1]
  /\ undo' = IF SysV THEN [undo EXCEPT ![x][s] = @ + 1] ELSE undo

\* The exit of process x; a count does not go below zero.
Undo(x) ==
  /\ sem' = [s \in Sems |-> IF sem[s] + undo[x][s] < 0 THEN 0 ELSE sem[s] + undo[x][s]]
  /\ undo' = [undo EXCEPT ![x] = Zero]

\* A client uses a semaphore and goes on, or ends if there are none.
WithSem(p, use, label) ==
  IF live THEN use /\ Goto(p, label) ELSE Goto(p, "exited") /\ Undo(p)

-----------------------------------------------------------------------------
\* ipc_init: the area is wiped and the semaphores are made anew, at zero, the
\* one a client looks at first (SEM_CONN) last: before it there is none ..
SrvStart ==
  /\ srv = "new"
  /\ srv' = "init"
  /\ live' = TRUE
  /\ shm' = Wiped
  /\ UNCHANGED <<semaphores, stock, serving, answer, clientSide, faults>>

\* (faulty variant: the server says it is ready before its loop says it too)
SrvInitReady ==
  /\ srv = "init"
  /\ srv' = "connect"
  /\ sem' = [sem EXCEPT !["CONN"] = @ + 1, !["CLT"] = @ + 1]
  /\ UNCHANGED <<undo, live, shm, stock, serving, answer, clientSide, faults>>

\* .. and SEM_CONN lets the first client in.
SrvInit ==
  /\ srv = "init"
  /\ srv' = "connect"
  /\ Let(Server, "CONN")
  /\ UNCHANGED <<live, shm, stock, serving, answer, clientSide, faults>>

\* (faulty variant: the server's ipc_connect also admits a client)
SrvConnectAdmitting ==
  /\ srv = "connect"
  /\ srv' = "recv"
  /\ sem' = [sem EXCEPT !["CLT"] = @ + 1, !["CONN"] = 1]
  /\ UNCHANGED <<undo, live, shm, stock, serving, answer, clientSide, faults>>

\* (faulty variant: the server never says that it is ready)
SrvConnectSilently ==
  /\ srv = "connect"
  /\ srv' = "recv"
  /\ UNCHANGED <<semaphores, live, shm, stock, serving, answer, clientSide, faults>>

\* ipc_connect of the server.
SrvConnect ==
  /\ srv = "connect"
  /\ srv' = "recv"
  /\ Let(Server, "CLT")
  /\ UNCHANGED <<live, shm, stock, serving, answer, clientSide, faults>>

\* The first ipc_recv of a request waits for SEM_SRV ..
SrvRecv ==
  /\ srv = "recv"
  /\ srv' = "read"
  /\ Stop(Server, "SRV")
  /\ UNCHANGED <<live, shm, stock, serving, answer, clientSide, faults>>

\* .. and it and the second read the id and the type ..
SrvRead ==
  /\ srv = "read"
  /\ IF shm \in Requested
     THEN srv' = "handle" /\ serving' = shm
     ELSE srv' = "garbled" /\ UNCHANGED serving
  /\ UNCHANGED <<semaphores, live, shm, stock, answer, clientSide, faults>>

\* (faulty variant: the response describes the stock after the handler)
SrvHandleLate ==
  LET m == serving.message
  IN /\ srv = "handle"
     /\ srv' = "send"
     /\ stock' = [stock EXCEPT ![m.name] = HoldsAfter(m, @)]
     /\ answer' = ResponseTo(m, stock'[m.name])
     /\ UNCHANGED <<semaphores, live, shm, serving, clientSide, faults>>

\* .. and the handler of that type the body, before it acts on it.
SrvHandle ==
  LET m == serving.message
  IN /\ srv = "handle"
     /\ IF shm = serving
        THEN /\ srv' = "send"
             /\ stock' = [stock EXCEPT ![m.name] = HoldsAfter(m, @)]
             /\ answer' = ResponseTo(m, stock[m.name])
        ELSE srv' = "garbled" /\ UNCHANGED <<stock, answer>>
     /\ UNCHANGED <<semaphores, live, shm, serving, clientSide, faults>>

\* ipc_send of the server does not wait.
SrvSend ==
  /\ srv = "send"
  /\ srv' = "post"
  /\ shm' = answer
  /\ answer' = Pending
  /\ UNCHANGED <<semaphores, live, stock, serving, clientSide, faults>>

\* The response is there; ipc_disconnect of the server does nothing.
SrvPost ==
  /\ srv = "post"
  /\ srv' = "connect"
  /\ Let(Server, "CLT")
  /\ serving' = NoMessage
  /\ UNCHANGED <<live, shm, stock, answer, clientSide, faults>>

-----------------------------------------------------------------------------
\* The user of p calls a clt_ function (one that refuses its quantity
\* returns at once and changes nothing).
Call(p) ==
  /\ pc[p] = "idle"
  /\ calls[p] < MaxCalls
  /\ \E r \in Requests :
       /\ ~Refused(r)
       /\ request' = [request EXCEPT ![p] = r]
       /\ rpc' = [rpc EXCEPT ![p] = FirstMessage(r)]
  /\ calls' = [calls EXCEPT ![p] = @ + 1]
  /\ Goto(p, "connect")
  /\ UNCHANGED <<semaphores, live, shm, serverSide, resp, faults>>

\* ipc_connect of a client waits for SEM_CONN.
CltConnect(p) ==
  /\ pc[p] = "connect"
  /\ WithSem(p, Stop(p, "CONN"), "send")
  /\ UNCHANGED <<live, shm, serverSide, request, rpc, resp, calls, faults>>

\* (faulty variant: ipc_send of a client does not wait either)
CltReadyAnyway(p) ==
  /\ pc[p] = "send"
  /\ WithSem(p, UNCHANGED semaphores, "write")
  /\ UNCHANGED <<live, shm, serverSide, request, rpc, resp, calls, faults>>

\* ipc_send waits until the server is ready ..
CltReady(p) ==
  /\ pc[p] = "send"
  /\ WithSem(p, Stop(p, "CLT"), "write")
  /\ UNCHANGED <<live, shm, serverSide, request, rpc, resp, calls, faults>>

\* .. writes the message ..
CltWrite(p) ==
  /\ pc[p] = "write"
  /\ shm' = [from |-> p, message |-> rpc[p]]
  /\ Goto(p, "post")
  /\ UNCHANGED <<semaphores, live, serverSide, request, rpc, resp, calls, faults>>

\* .. and tells the server.
CltPost(p) ==
  /\ pc[p] = "post"
  /\ WithSem(p, Let(p, "SRV"), "recv")
  /\ UNCHANGED <<live, shm, serverSide, request, rpc, resp, calls, faults>>

\* The first ipc_recv of a response waits for SEM_CLT ..
CltRecv(p) ==
  /\ pc[p] = "recv"
  /\ WithSem(p, Stop(p, "CLT"), "read")
  /\ UNCHANGED <<live, shm, serverSide, request, rpc, resp, calls, faults>>

\* .. and reads the type ..
CltRead(p) ==
  /\ pc[p] = "read"
  /\ IF shm \in Responses
     THEN Goto(p, "body") /\ resp' = [resp EXCEPT ![p] = shm]
     ELSE Goto(p, "garbled") /\ UNCHANGED resp
  /\ UNCHANGED <<semaphores, live, shm, serverSide, request, rpc, calls, faults>>

\* .. the second the rest.
CltBody(p) ==
  /\ pc[p] = "body"
  /\ Goto(p, IF shm = resp[p] THEN "wipe" ELSE "garbled")
  /\ UNCHANGED <<semaphores, live, shm, serverSide, request, rpc, resp, calls, faults>>

\* The clt_ call returns, or the second half of clt_add_product begins.
NextRound(p) ==
  /\ resp' = [resp EXCEPT ![p] = Pending]
  /\ IF GoesOn(request[p], rpc[p], resp[p])
     THEN /\ rpc' = [rpc EXCEPT ![p] = AddMessage(request[p])]
          /\ Goto(p, "connect")
          /\ UNCHANGED request
     ELSE /\ rpc' = [rpc EXCEPT ![p] = NoMessage]
          /\ request' = [request EXCEPT ![p] = Idle]
          /\ Goto(p, "idle")

\* ipc_disconnect wipes the area ..
CltWipe(p) ==
  /\ pc[p] = "wipe"
  /\ shm' = Wiped
  /\ Goto(p, "check")
  /\ UNCHANGED <<semaphores, live, serverSide, request, rpc, resp, calls, faults>>

\* .. ends the client if somebody else was let in ..
CltCheck(p) ==
  /\ pc[p] = "check"
  /\ IF live /\ sem["CONN"] = 0
     THEN Goto(p, "release") /\ UNCHANGED semaphores
     ELSE Goto(p, "exited") /\ Undo(p)
  /\ UNCHANGED <<live, shm, serverSide, request, rpc, resp, calls, faults>>

\* .. and lets the next one in.
CltRelease(p) ==
  /\ pc[p] = "release"
  /\ IF live
     THEN Let(p, "CONN") /\ NextRound(p)
     ELSE Goto(p, "exited") /\ Undo(p) /\ UNCHANGED <<request, rpc, resp>>
  /\ UNCHANGED <<live, shm, serverSide, calls, faults>>

-----------------------------------------------------------------------------
\* The user leaves the program, and starts it again.
Quit(p) ==
  /\ pc[p] = "idle"
  /\ Goto(p, "left")
  /\ Undo(p)
  /\ UNCHANGED <<live, shm, serverSide, request, rpc, resp, calls, faults>>

Restart(p) ==
  /\ pc[p] = "left"
  /\ Goto(p, "idle")
  /\ UNCHANGED <<semaphores, live, shm, serverSide, request, rpc, resp, calls, faults>>

KillClient(p) ==
  /\ pc[p] \notin {"left", "exited", "garbled"}
  /\ faults < MaxFaults
  /\ faults' = faults + 1
  /\ Goto(p, "exited")
  /\ Undo(p)
  /\ UNCHANGED <<live, shm, serverSide, request, rpc, resp, calls>>

\* SIGINT: __srv_stop destroys the semaphores.  A client that is waiting on
\* one of them already waits for ever or fails, which comes to the same.
SrvStop ==
  /\ srv \notin {"new", "init", "garbled", "ended"}
  /\ faults < MaxFaults
  /\ faults' = faults + 1
  /\ srv' = "ended"
  /\ live' = FALSE
  /\ UNCHANGED <<semaphores, shm, stock, serving, answer, clientSide>>

\* The server is killed: the semaphores stay, if it had made them all.
KillServer ==
  /\ srv \notin {"garbled", "ended"}
  /\ faults < MaxFaults
  /\ faults' = faults + 1
  /\ srv' = "ended"
  /\ Undo(Server)
  /\ UNCHANGED <<live, shm, stock, serving, answer, clientSide>>

SrvStep ==
  SrvInit \/ SrvConnect \/ SrvRecv \/ SrvRead \/ SrvHandle \/ SrvSend \/ SrvPost

CltStep(p) ==
  \/ CltConnect(p) \/ CltReady(p) \/ CltWrite(p) \/ CltPost(p) \/ CltRecv(p)
  \/ CltRead(p) \/ CltBody(p) \/ CltWipe(p) \/ CltCheck(p)
  \/ CltRelease(p)

UserStep(p) == Call(p) \/ Quit(p) \/ Restart(p)

Next ==
  \/ SrvStart \/ SrvStep \/ SrvStop \/ KillServer
  \/ \E p \in Procs : UserStep(p) \/ CltStep(p) \/ KillClient(p)

\* Every process runs; nobody has to start the server or make a call.
Fairness == WF_vars(SrvStep) /\ \A p \in Procs : WF_vars(CltStep(p))

Spec == Init /\ [][Next]_vars /\ Fairness

-----------------------------------------------------------------------------
TypeOK ==
  /\ stock \in [Names -> Ints \cup {Absent}]
  /\ sem \in [Sems -> Nat]
  /\ live \in BOOLEAN
  /\ undo \in [Procs \cup {Server} -> [Sems -> Int]]
  /\ shm \in Contents
  /\ srv \in SrvLabels
  /\ serving \in Requested \cup {NoMessage}
  /\ answer \in Responses \cup {Pending}
  /\ pc \in [Procs -> CltLabels]
  /\ request \in [Procs -> Requests \cup {Idle}]
  /\ rpc \in [Procs -> Messages \cup {NoMessage}]
  /\ resp \in [Procs -> Responses \cup {Pending}]
  /\ calls \in [Procs -> 0 .. MaxCalls]
  /\ faults \in 0 .. MaxFaults

Connected(p) ==
  pc[p] \in {"send", "write", "post", "recv", "read", "body", "wipe", "check",
            "release"}

\* SEM_CONN is a lock: one client at a time is between ipc_connect and
\* ipc_disconnect, and only while nobody else can get in, so that the check
\* in ipc_disconnect (shm.c:192) never fails.
OneConnected ==
  /\ \A p, q \in Procs : Connected(p) /\ Connected(q) => p = q
  /\ sem["CONN"] > 0 => sem["CONN"] = 1 /\ \A p \in Procs : ~Connected(p)

\* The server and the client take turns with the area (the comment at
\* shm.c:78-82): whoever reads finds a whole message of the other one,
\* although one semaphore says two things and the area is read in pieces.
NoneGarbled == srv # "garbled" /\ \A p \in Procs : pc[p] # "garbled"

Up == srv \notin {"new", "init", "garbled", "ended"}

\* Whose turn it is while the server lives: nobody's,
Quiet ==
  /\ sem["SRV"] = 0
  /\ (srv = "connect" /\ sem["CLT"] = 0) \/ (srv = "recv" /\ sem["CLT"] = 1)

\* the client's, that took the server's permission to write,
Granted == srv = "recv" /\ sem["SRV"] = 0 /\ sem["CLT"] = 0

\* or the server's, until it has answered and is ready again.
Asked ==
  \/ srv = "recv" /\ sem["SRV"] = 1 /\ sem["CLT"] = 0
  \/ srv \in {"read", "handle", "send"} /\ sem["SRV"] = 0 /\ sem["CLT"] = 0
  \/ /\ sem["SRV"] = 0 /\ shm \in Responses
     /\ \/ srv = "post" /\ sem["CLT"] = 0
        \/ srv = "connect" /\ sem["CLT"] = 1
        \/ srv = "recv" /\ sem["CLT"] = 2

\* A server that is gone left its posts of SEM_CLT behind.
QuietOrDown == IF Up THEN Quiet ELSE sem["CLT"] <= 1

ClientTurn(p) ==
  /\ pc[p] \in {"send", "read", "body", "wipe", "check", "release"} => QuietOrDown
  /\ pc[p] \in {"write", "post"} => IF Up THEN Granted ELSE sem["CLT"] = 0
  /\ pc[p] = "recv" =>
       IF Up THEN Asked
       ELSE sem["CLT"] <= 2 /\ (sem["CLT"] > 0 => shm \in Responses)
  /\ pc[p] = "post" => shm = [from |-> p, message |-> rpc[p]]
  /\ pc[p] \in {"read", "body"} => shm \in Responses
  /\ pc[p] = "body" => shm = resp[p]
  /\ pc[p] = "connect" \/ Connected(p) => rpc[p] \in Messages /\ request[p] \in Requests
  /\ pc[p] \in {"body", "wipe", "check", "release"} => resp[p] \in Responses

ServerTurn ==
  /\ srv \in {"new", "init"} => sem = Zero /\ \A p \in Procs : ~Connected(p)
  /\ sem["CONN"] > 0 => QuietOrDown
  /\ Up /\ sem["SRV"] > 0 => sem["SRV"] = 1 /\ srv = "recv" /\ shm \in Requested
  /\ srv \in {"read", "handle"} => shm \in Requested
  /\ srv = "handle" => shm = serving
  /\ srv = "send" => answer \in Responses

NoUndo == undo = [x \in Procs \cup {Server} |-> Zero]

\* What makes OneConnected and NoneGarbled hold with the semaphores of
\* semPosix.c, whoever is killed: the turns of the server and of the client
\* that is connected; a process lets a semaphore only in its own turn.
TurnsInv ==
  /\ TypeOK /\ NoUndo /\ OneConnected /\ NoneGarbled
  /\ ServerTurn
  /\ \A p \in Procs : ClientTurn(p)

Lost(p) == pc[p] \in {"exited", "garbled"}

\* The message of p is with the server, or on its way to it.
InFlight(p) ==
  \/ srv = "handle" /\ serving.from = p
  \/ /\ srv = "read" \/ (srv = "recv" /\ sem["SRV"] > 0)
     /\ \E m \in Messages : shm = [from |-> p, message |-> m]

\* The server has the answer for p, but has not written it.
Answered(p) == answer # Pending /\ serving.from = p

\* A client waits for its answer, or died waiting: then SEM_CONN stays at 0
\* and nobody else comes to read that answer.
Waits(p) ==
  \/ pc[p] = "recv"
  \/ pc[p] = "exited" /\ sem["CONN"] = 0 /\ \A q \in Procs : ~Connected(q)

RoundInv(p) ==
  /\ InFlight(p) => Waits(p) /\ shm = [from |-> p, message |-> rpc[p]]
  /\ Answered(p) => Waits(p)
  /\ pc[p] = "recv" => shm \in Responses \/ shm = [from |-> p, message |-> rpc[p]]
  /\ pc[p] \in {"idle", "left"} => request[p] = Idle
  /\ pc[p] \notin {"body", "wipe", "check", "release", "exited"} => resp[p] = Pending

\* While the server has a request nobody is told to read; a server that is
\* gone keeps an answer nobody will get.
AnswerInv ==
  /\ srv \in {"read", "handle", "send"} \/ (srv = "recv" /\ sem["SRV"] > 0) => sem["CLT"] = 0
  /\ answer # Pending =>
       srv \in {"send", "ended"} /\ serving \in Requested /\ sem["CLT"] = 0

\* The inductive invariant: the turns, and who is served in them.
ShmInv ==
  /\ TurnsInv /\ AnswerInv
  /\ \A p \in Procs : RoundInv(p)

RequestNow ==
  [p \in Procs |-> IF Lost(p) THEN Gone ELSE request[p]]

RpcNow == [p \in Procs |-> IF Lost(p) /\ ~InFlight(p) THEN NoMessage ELSE rpc[p]]

RespNow ==
  [p \in Procs |->
     IF Lost(p) THEN Pending
     ELSE IF resp[p] # Pending THEN resp[p]
     ELSE IF answer # Pending /\ serving.from = p THEN answer
     ELSE IF pc[p] \in {"recv", "read"} /\ shm \in Responses THEN shm
     ELSE Pending]

Service == INSTANCE StockServer
             WITH request <- RequestNow, rpc <- RpcNow, resp <- RespNow

\* No message takes effect twice, and what a client reads is the answer to
\* the message it is waiting on, whoever is killed.
ServesAtMostOnce == Service!ServerSpec

\* The three semaphores never leave everybody waiting: with nothing killed,
\* every call returns, or finds no server.
CallsReturn ==
  \A p \in Procs : pc[p] = "connect" ~> pc[p] \in {"idle", "exited"} \/ faults > 0

=============================================================================
