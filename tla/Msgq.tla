-------------------------------- MODULE Msgq --------------------------------
(***************************************************************************)
(* client.c and server.c over the two message-queue backends: POSIX queues *)
(* (ipcs/msgqPosix.c) and those of System V (ipcs/msgqSysV.c).  Every      *)
(* process has a queue of its own, found by its id.  The backends differ   *)
(* in who creates a queue, how much it holds, and what its removal does to *)
(* a sender:                                                               *)
(*                                                                         *)
(*   posix  its owner creates a queue, for one message; to open a missing  *)
(*          one ends the process; a removed queue lives on for those who   *)
(*          have it open;                                                  *)
(*   sysv   whoever looks a queue up creates it (IPC_CREAT); its 16384     *)
(*          bytes (MSGMNB) hold more messages than there are clients; to   *)
(*          send to a removed one ends the process.                        *)
(*                                                                         *)
(* A message is taken from its queue whole, into a buffer from which the   *)
(* following ipc_recv are served, so one receive is one step.  Keys are    *)
(* taken to be distinct (ftok keeps the low eight bits of an id), and the  *)
(* id of a dead client not to be given to a new process.                   *)
(***************************************************************************)
EXTENDS Rounds, Sequences

CONSTANT Server       \* the owner of the server's queue

ASSUME ServerAssumption == Server \notin Procs

VARIABLES
  kind,         \* the backend that is linked in
  linked,       \* the owners whose queue exists
  queue,        \* what is in each owner's queue
  opened        \* the clients whose opened server queue is still linked

queues == <<linked, queue, opened>>
vars == <<kind, queues, serverSide, clientSide, faults>>

Owners == Procs \cup {Server}

SrvLabels == {"down", "connect", "recv", "handle", "send", "look"}

CltLabels == {"idle", "connect", "open", "put", "recv", "disconnect", "stuck", "exited"}

Init ==
  /\ RoundsInit
  /\ kind \in {"posix", "sysv"}
  /\ linked = {}
  /\ queue = [o \in Owners |-> <<>>]
  /\ opened = {}

Put(o, item) == queue' = [queue EXCEPT ![o] = Append(@, item)]

\* A removed queue takes what is in it along.
Remove(o) ==
  /\ linked' = linked \ {o}
  /\ queue' = [queue EXCEPT ![o] = <<>>]

\* A send waits while the queue is full (mq_maxmsg is 1).
Room(o) == kind = "posix" => queue[o] = <<>>

\* What is left of the server: a client whose answer was not sent yet will
\* wait for it for ever.
EndServer ==
  /\ srv' = "down" /\ serving' = NoMessage /\ answer' = Pending
  /\ pc' = [p \in Procs |->
              IF srv = "send" /\ serving.from = p /\ pc[p] = "recv" THEN "stuck" ELSE pc[p]]
  /\ UNCHANGED <<stock, request, rpc, resp, calls>>

-----------------------------------------------------------------------------
\* srv_start and ipc_init: a queue that was left behind is removed ..
SrvStart ==
  /\ srv = "down"
  /\ srv' = "connect"
  /\ Remove(Server)
  /\ opened' = {}
  /\ UNCHANGED <<kind, stock, serving, answer, clientSide, faults>>

\* .. and made anew, by the end of ipc_init or the look of the first ipc_recv.
SrvConnect ==
  /\ srv = "connect"
  /\ srv' = "recv"
  /\ linked' = linked \cup {Server}
  /\ UNCHANGED <<kind, queue, opened, stock, serving, answer, clientSide, faults>>

\* (faulty variant: the message stays in the queue)
SrvRecvPeeking ==
  /\ srv = "recv"
  /\ queue[Server] # <<>>
  /\ srv' = "handle"
  /\ serving' = Head(queue[Server])
  /\ UNCHANGED <<kind, queues, stock, answer, clientSide, faults>>

\* ipc_recv takes the next message, whoever sent it (__conn is 0).
SrvRecv ==
  /\ srv = "recv"
  /\ queue[Server] # <<>>
  /\ srv' = "handle"
  /\ serving' = Head(queue[Server])
  /\ queue' = [queue EXCEPT ![Server] = Tail(@)]
  /\ UNCHANGED <<kind, linked, opened, stock, answer, clientSide, faults>>

SrvHandle == Handle /\ UNCHANGED <<kind, queues, clientSide, faults>>

\* (faulty variant: a response that says OK is not sent)
SrvSendErrorsOnly ==
  LET p == serving.from
  IN /\ srv = "send"
     /\ srv' = "look"
     /\ linked' = linked \cup {p}
     /\ IF answer.type = "OK_RESP" THEN UNCHANGED queue ELSE Put(p, answer)
     /\ answer' = Pending
     /\ UNCHANGED <<kind, opened, stock, serving, clientSide, faults>>

\* ipc_send to the client that asked: a missing posix queue ends the server.
SrvSend ==
  LET p == serving.from
  IN /\ srv = "send"
     /\ IF kind = "posix" /\ p \notin linked
        THEN EndServer /\ UNCHANGED <<linked, queue>>
        ELSE /\ Room(p)
             /\ linked' = linked \cup {p}
             /\ Put(p, answer)
             /\ srv' = IF kind = "sysv" THEN "look" ELSE "connect"
             /\ serving' = IF kind = "sysv" THEN serving ELSE NoMessage
             /\ answer' = Pending
             /\ UNCHANGED <<stock, clientSide>>
     /\ UNCHANGED <<kind, opened, faults>>

\* The printf that reports the send looks the System V queue up again, and
\* creates it again if the client has removed it by then.
SrvLook ==
  /\ srv = "look"
  /\ srv' = "connect"
  /\ linked' = linked \cup {serving.from}
  /\ serving' = NoMessage
  /\ UNCHANGED <<kind, queue, opened, stock, answer, clientSide, faults>>

-----------------------------------------------------------------------------
Call(p) == Begin(p) /\ UNCHANGED <<kind, queues, serverSide, faults>>

\* (faulty variant: ipc_connect creates no queue)
CltConnectQueueless(p) ==
  /\ pc[p] = "connect"
  /\ Advance(p, "open")
  /\ UNCHANGED <<kind, queues, serverSide, faults>>

\* ipc_connect creates the client's own posix queue.
CltConnect(p) ==
  /\ pc[p] = "connect"
  /\ Advance(p, "open")
  /\ linked' = IF kind = "posix" THEN linked \cup {p} ELSE linked
  /\ UNCHANGED <<kind, queue, opened, serverSide, faults>>

\* ipc_send looks the server's queue up ..
CltOpen(p) ==
  /\ pc[p] = "open"
  /\ IF kind = "posix" /\ Server \notin linked
     THEN Advance(p, "exited") /\ UNCHANGED <<linked, opened>>
     ELSE /\ Advance(p, "put")
          /\ linked' = linked \cup {Server}
          /\ opened' = opened \cup {p}
  /\ UNCHANGED <<kind, queue, serverSide, faults>>

\* .. and puts the message into it, unless it was removed meanwhile.  The
\* client's ipc_recv then looks up its own queue, which a posix client has.
CltPut(p) ==
  /\ pc[p] = "put"
  /\ IF p \in opened
     THEN /\ Room(Server)
          /\ Put(Server, [from |-> p, message |-> rpc[p]])
          /\ linked' = IF kind = "sysv" THEN linked \cup {p} ELSE linked
          /\ Advance(p, "recv")
     ELSE /\ Advance(p, IF kind = "posix" THEN "stuck" ELSE "exited")
          /\ UNCHANGED <<linked, queue>>
  /\ opened' = opened \ {p}
  /\ UNCHANGED <<kind, serverSide, faults>>

\* (faulty variant: the response stays in the queue)
CltRecvPeeking(p) ==
  /\ pc[p] = "recv"
  /\ queue[p] # <<>>
  /\ Receive(p, Head(queue[p]), "disconnect")
  /\ UNCHANGED <<kind, queues, serverSide, faults>>

\* ipc_recv takes the response.
CltRecv(p) ==
  /\ pc[p] = "recv"
  /\ queue[p] # <<>>
  /\ Receive(p, Head(queue[p]), "disconnect")
  /\ queue' = [queue EXCEPT ![p] = Tail(@)]
  /\ UNCHANGED <<kind, linked, opened, serverSide, faults>>

\* ipc_disconnect removes the client's queue.
CltDisconnect(p) ==
  /\ pc[p] = "disconnect"
  /\ NextRound(p)
  /\ Remove(p)
  /\ UNCHANGED <<kind, opened, serverSide, faults>>

-----------------------------------------------------------------------------
\* A client is killed; its queue stays.
KillClient(p) ==
  /\ pc[p] # "exited"
  /\ Fault
  /\ Advance(p, "exited")
  /\ opened' = opened \ {p}
  /\ UNCHANGED <<kind, linked, queue, serverSide>>

\* SIGINT: __srv_stop removes the server's queue.
SrvStop ==
  /\ srv # "down"
  /\ Fault
  /\ EndServer
  /\ Remove(Server)
  /\ opened' = {}
  /\ UNCHANGED kind

\* The server is killed: its queue stays, and clients still write to it.
KillServer ==
  /\ srv # "down"
  /\ Fault
  /\ EndServer
  /\ UNCHANGED <<kind, queues>>

SrvStep == SrvConnect \/ SrvRecv \/ SrvHandle \/ SrvSend \/ SrvLook

CltStep(p) == CltConnect(p) \/ CltOpen(p) \/ CltPut(p) \/ CltRecv(p) \/ CltDisconnect(p)

Next ==
  \/ SrvStart \/ SrvStep \/ SrvStop \/ KillServer
  \/ \E p \in Procs : Call(p) \/ CltStep(p) \/ KillClient(p)

\* Every process runs; nobody has to start the server or make a call.
Fairness == WF_vars(SrvStep) /\ \A p \in Procs : WF_vars(CltStep(p))

Spec == Init /\ [][Next]_vars /\ Fairness

-----------------------------------------------------------------------------
TypeOK ==
  /\ RoundsType
  /\ stock \in [Names -> Ints \cup {Absent}]
  /\ serving \in Requested \cup {NoMessage}
  /\ kind \in {"posix", "sysv"}
  /\ linked \in SUBSET Owners
  /\ queue \in [Owners -> Seq(Requested \cup Responses)]
  /\ opened \in SUBSET Procs
  /\ srv \in SrvLabels
  /\ pc \in [Procs -> CltLabels]

Lost(p) == pc[p] \in {"exited", "stuck"}

\* The server's queue holds one message of a client at most,
QueueInv ==
  /\ \A i \in DOMAIN queue[Server] : queue[Server][i] \in Requested
  /\ \A i, j \in DOMAIN queue[Server] :
       queue[Server][i].from = queue[Server][j].from => i = j

InQueue(p) == \E i \in DOMAIN queue[Server] : queue[Server][i].from = p

Served(p) == srv \in {"handle", "send"} /\ serving.from = p

\* which waits for its answer, or has given up; and the posix queue for that
\* answer is there.
WaitInv(p) ==
  /\ InQueue(p) \/ Served(p) \/ queue[p] # <<>> => pc[p] = "recv" \/ Lost(p)
  /\ ~(InQueue(p) /\ Served(p))
  /\ InQueue(p) \/ Served(p) => queue[p] = <<>>
  /\ queue[p] # <<>> => queue[p] \in Seq(Responses) /\ Len(queue[p]) = 1
  /\ kind = "posix" /\ (pc[p] \in {"open", "put", "recv"} \/ InQueue(p) \/ Served(p))
       => p \in linked

CallInv ==
  /\ srv \in {"handle", "send", "look"} => serving \in Requested
  /\ srv = "send" => answer \in Responses
  /\ \A p \in Procs : pc[p] \notin {"idle", "exited", "stuck"} =>
       request[p] \in Requests /\ ~Refused(request[p]) /\ rpc[p] \in Messages

\* Nothing of an earlier round is left: a message of a client is in one
\* place only, and only while the client waits for its answer or is gone.
\* So a queue that the server re-creates behind a client that has left it
\* (msgqSysV.c:58) is empty, and no receive finds an old answer in it.
NothingStale == QueueInv /\ \A p \in Procs : WaitInv(p)

QueuesInv == TypeOK /\ NothingStale /\ CallInv

\* What a client has sent is what it waits on, and it has a response from its
\* ipc_recv to its ipc_disconnect only.
Queued(p) ==
  \A i \in DOMAIN queue[Server] :
    queue[Server][i].from = p => queue[Server][i].message = rpc[p]

RoundInv(p) ==
  /\ Queued(p)
  /\ srv = "handle" /\ serving.from = p => serving.message = rpc[p]
  /\ pc[p] \in {"idle", "connect", "open", "put", "recv"} => resp[p] = Pending
  /\ pc[p] = "disconnect" => resp[p] \in Responses
  /\ pc[p] = "idle" => request[p] = Idle

MsgqInv == QueuesInv /\ \A p \in Procs : RoundInv(p)

\* The server never waits for room in a client's queue, nor finds it gone,
\* dead clients included (msgqPosix.c:62 and :144).
AnswerHasRoom ==
  srv = "send" => /\ queue[serving.from] = <<>>
                  /\ kind = "posix" => serving.from \in linked

\* Every end of the server is a stop or a kill of the server itself: no
\* client, alive or dead, makes its verify fail.
OnlyFaultsStopServer == [][srv # "down" /\ srv' = "down" => faults' > faults]_vars

InFlight(p) == InQueue(p) \/ (srv = "handle" /\ serving.from = p)

RequestNow == [p \in Procs |-> IF Lost(p) THEN Gone ELSE request[p]]

RpcNow == [p \in Procs |-> IF Lost(p) /\ ~InFlight(p) THEN NoMessage ELSE rpc[p]]

RespNow ==
  [p \in Procs |->
     IF Lost(p) THEN Pending
     ELSE IF srv = "send" /\ serving.from = p THEN answer
     ELSE IF queue[p] # <<>> THEN Head(queue[p])
     ELSE resp[p]]

Service == INSTANCE StockServer
             WITH request <- RequestNow, rpc <- RpcNow, resp <- RespNow

\* No message takes effect twice, and what a client reads is the answer to
\* the message it is waiting on, whoever is killed and restarted.
ServesAtMostOnce == Service!ServerSpec

\* Whatever becomes of other clients, a call returns, finds no server, or
\* loses it.
CallsReturn ==
  \A p \in Procs : pc[p] = "connect" ~> pc[p] \in {"idle", "exited"} \/ srv = "down"

=============================================================================
