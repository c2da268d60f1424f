------------------------------- MODULE Signals -------------------------------
(***************************************************************************)
(* client.c and server.c over ipcs/signals.c.  A process reads a file of   *)
(* its own, named by its pid, when SIGUSR1 has told it to: the handler     *)
(* sets __exit_flag, on which ipc_recv waits.  All clients write into the  *)
(* one file of the server, over what is there, and all of them make and    *)
(* unlink CLIENT_FILE.  SIGUSR1 ends a process that has not installed the  *)
(* handler yet, which its first ipc_recv does.                             *)
(*                                                                         *)
(* The length in front of a message is written apart from it, but no       *)
(* decision rests on it: ipc_connect forgets it.  SERVER_FILE is taken to  *)
(* be written at once, and a pid not to be used again.                     *)
(***************************************************************************)
EXTENDS Rounds

CONSTANTS
  Server,       \* the server process
  NoFile,       \* there is no such file
  Blank         \* a file nothing was written to

ASSUME SignalsAssumption ==
  /\ Server \notin Procs
  /\ NoFile \notin Responses \cup Requested \cup {Blank}
  /\ Blank \notin Responses

VARIABLES
  registered,   \* SERVER_FILE exists
  inbox,        \* the file of the process that SERVER_FILE names
  file,         \* the file of each client
  clientFile,   \* CLIENT_FILE exists
  armed,        \* processes that have installed the handler
  flag,         \* processes whose __exit_flag is set
  aimed,        \* clients that hold the pid of the running server
  company       \* (history) how clients have come across each other

files == <<registered, inbox, file, clientFile>>
signals == <<armed, flag, aimed>>
vars == <<files, signals, company, serverSide, clientSide, faults>>

SrvLabels == {"down", "init", "arm", "wait", "clear", "handle", "send", "signal"}

CltLabels == {"idle", "connect", "write", "signal", "arm", "wait", "clear", "disconnect",
              "stuck", "exited"}

Init ==
  /\ RoundsInit
  /\ registered = FALSE /\ inbox = NoFile /\ clientFile = FALSE
  /\ file = [p \in Procs |-> NoFile]
  /\ armed = {} /\ flag = {} /\ aimed = {}
  /\ company = "apart"

\* Between its ipc_connect and its ipc_disconnect.
InRound(p) == pc[p] \in {"write", "signal", "arm", "wait", "clear", "disconnect"}

\* The server has been told of a message, or is about to be, and has not
\* cleared its flag since.
Busy ==
  \/ Server \in flag \/ srv = "clear"
  \/ \E q \in Procs : pc[q] = "signal"

\* The end of the server; a client it had an answer for waits for ever.
EndServer ==
  /\ srv' = "down" /\ serving' = NoMessage /\ answer' = Pending
  /\ armed' = armed \ {Server} /\ flag' = flag \ {Server} /\ aimed' = {}
  /\ pc' = [p \in Procs |->
              IF srv = "send" /\ serving.from = p /\ pc[p] \in {"arm", "wait"}
              THEN "stuck" ELSE pc[p]]
  /\ UNCHANGED <<stock, request, rpc, resp, calls, company>>

-----------------------------------------------------------------------------
\* ipc_init writes SERVER_FILE ..
SrvStart ==
  /\ srv = "down"
  /\ srv' = "init"
  /\ registered' = TRUE
  /\ inbox' = NoFile
  /\ UNCHANGED <<file, clientFile, signals, company, stock, serving, answer, clientSide, faults>>

\* .. and makes the server's own file.
SrvInit ==
  /\ srv = "init"
  /\ srv' = "arm"
  /\ inbox' = Blank
  /\ UNCHANGED <<registered, file, clientFile, signals, company, stock, serving, answer,
                 clientSide, faults>>

\* The first ipc_recv installs the handler.
SrvArm ==
  /\ srv = "arm"
  /\ srv' = "wait"
  /\ armed' = armed \cup {Server}
  /\ UNCHANGED <<files, flag, aimed, company, stock, serving, answer, clientSide, faults>>

\* ipc_recv, once the flag is set, reads what is in the file ..
SrvRead ==
  /\ srv = "wait"
  /\ Server \in flag
  /\ srv' = "clear"
  /\ serving' = inbox
  /\ UNCHANGED <<files, signals, company, stock, answer, clientSide, faults>>

\* (faulty variant: __exit_flag stays set)
SrvClearNothing ==
  /\ srv = "clear"
  /\ srv' = "handle"
  /\ UNCHANGED <<files, signals, company, stock, serving, answer, clientSide, faults>>

\* .. and clears the flag.
SrvClear ==
  /\ srv = "clear"
  /\ srv' = "handle"
  /\ flag' = flag \ {Server}
  /\ UNCHANGED <<files, armed, aimed, company, stock, serving, answer, clientSide, faults>>

SrvHandle == Handle /\ UNCHANGED <<files, signals, company, clientSide, faults>>

\* ipc_send writes into the client's file; the server ends if there is none ..
SrvWrite ==
  LET p == serving.from
  IN /\ srv = "send"
     /\ IF file[p] = NoFile THEN EndServer /\ UNCHANGED file
        ELSE /\ srv' = "signal"
             /\ file' = [file EXCEPT ![p] = answer]
             /\ UNCHANGED <<signals, company, stock, serving, answer, clientSide>>
     /\ UNCHANGED <<registered, inbox, clientFile, faults>>

\* (faulty variant: no signal, or none that counts)
SrvSignalNot ==
  /\ srv = "signal"
  /\ srv' = "wait" /\ serving' = NoMessage /\ answer' = Pending
  /\ UNCHANGED <<files, signals, company, stock, clientSide, faults>>

\* .. and signals the client, which that ends if it has not armed itself.
SrvSignal ==
  LET p == serving.from
  IN /\ srv = "signal"
     /\ srv' = "wait" /\ serving' = NoMessage /\ answer' = Pending
     /\ IF pc[p] \notin {"exited", "stuck"} /\ p \notin armed
        THEN Advance(p, "exited") /\ aimed' = aimed \ {p} /\ UNCHANGED flag
        ELSE flag' = flag \cup {p} /\ UNCHANGED <<aimed, clientSide>>
     /\ UNCHANGED <<files, armed, company, stock, faults>>

-----------------------------------------------------------------------------
Call(p) == Begin(p) /\ UNCHANGED <<files, signals, company, serverSide, faults>>

\* (faulty variant: CLIENT_FILE is not made again)
CltConnectOnce(p) ==
  /\ pc[p] = "connect"
  /\ IF registered
     THEN /\ Advance(p, "write")
          /\ file' = [file EXCEPT ![p] = Blank]
          /\ clientFile' = (clientFile \/ calls = 1)
          /\ company' = IF company = "apart" /\ \E q \in Procs : InRound(q)
                        THEN "together" ELSE company
     ELSE Advance(p, "exited") /\ UNCHANGED <<file, clientFile, company>>
  /\ UNCHANGED <<registered, inbox, signals, serverSide, faults>>

\* ipc_connect makes the client's own file, and CLIENT_FILE.  Without a
\* SERVER_FILE it ends in fscanf(NULL, ..).
CltConnect(p) ==
  /\ pc[p] = "connect"
  /\ IF registered
     THEN /\ Advance(p, "write")
          /\ file' = [file EXCEPT ![p] = Blank]
          /\ clientFile' = TRUE
          /\ company' = IF company = "apart" /\ \E q \in Procs : InRound(q)
                        THEN "together" ELSE company
     ELSE Advance(p, "exited") /\ UNCHANGED <<file, clientFile, company>>
  /\ UNCHANGED <<registered, inbox, signals, serverSide, faults>>

\* ipc_send writes into the server's file, if there is one ..
CltWrite(p) ==
  /\ pc[p] = "write"
  /\ IF inbox = NoFile THEN Advance(p, "exited") /\ UNCHANGED <<inbox, aimed, company>>
     ELSE /\ Advance(p, "signal")
          /\ inbox' = [from |-> p, message |-> rpc[p]]
          /\ aimed' = IF srv = "down" THEN aimed ELSE aimed \cup {p}
          /\ company' = IF Busy THEN "crowded" ELSE company
  /\ UNCHANGED <<registered, file, clientFile, armed, flag, serverSide, faults>>

\* .. and signals the server, which that ends if it has not armed itself.
CltSignal(p) ==
  /\ pc[p] = "signal"
  /\ Goto(p, IF p \in armed THEN "wait" ELSE "arm")
  /\ IF p \in aimed /\ Server \notin armed
     THEN srv' = "down" /\ aimed' = {} /\ UNCHANGED flag
     ELSE /\ flag' = IF p \in aimed THEN flag \cup {Server} ELSE flag
          /\ aimed' = aimed \ {p}
          /\ UNCHANGED srv
  /\ UNCHANGED <<files, armed, company, stock, serving, answer, request, rpc, resp, calls, faults>>

\* The client's first ipc_recv installs the handler.
CltArm(p) ==
  /\ pc[p] = "arm"
  /\ Advance(p, "wait")
  /\ armed' = armed \cup {p}
  /\ UNCHANGED <<files, flag, aimed, company, serverSide, faults>>

\* ipc_recv reads the response.  From a blank file it reads nothing, and what
\* the previous response left in the static buffer is taken for this one.
CltRead(p) ==
  /\ pc[p] = "wait"
  /\ p \in flag
  /\ IF file[p] = Blank
     THEN \E t \in {"OK_RESP", "ERR_RESP"} :
            Receive(p, [type |-> t, code |-> "OK", quantity |-> Absent], "clear")
     ELSE Receive(p, file[p], "clear")
  /\ UNCHANGED <<files, signals, company, serverSide, faults>>

\* (faulty variant: __exit_flag stays set)
CltClearNothing(p) ==
  /\ pc[p] = "clear"
  /\ Advance(p, "disconnect")
  /\ UNCHANGED <<files, signals, company, serverSide, faults>>

\* The client clears its flag.
CltClear(p) ==
  /\ pc[p] = "clear"
  /\ Advance(p, "disconnect")
  /\ flag' = flag \ {p}
  /\ UNCHANGED <<files, armed, aimed, company, serverSide, faults>>

\* ipc_disconnect unlinks both files; the client ends if CLIENT_FILE is gone.
CltDisconnect(p) ==
  /\ pc[p] = "disconnect"
  /\ file' = [file EXCEPT ![p] = NoFile]
  /\ clientFile' = FALSE
  /\ IF clientFile THEN NextRound(p) ELSE Advance(p, "exited")
  /\ UNCHANGED <<registered, inbox, signals, company, serverSide, faults>>

-----------------------------------------------------------------------------
\* A client is killed; its files stay.
KillClient(p) ==
  /\ pc[p] # "exited"
  /\ Fault
  /\ Advance(p, "exited")
  /\ aimed' = aimed \ {p}
  /\ UNCHANGED <<files, armed, flag, company, serverSide>>

\* SIGINT: __srv_stop unlinks the server's files; its rmdir fails if there
\* are others, but it exits in any case.
SrvStop ==
  /\ srv \notin {"down", "init"}
  /\ Fault
  /\ EndServer
  /\ registered' = FALSE
  /\ inbox' = NoFile
  /\ UNCHANGED <<file, clientFile>>

\* The server is killed; its files stay.
KillServer ==
  /\ srv # "down"
  /\ Fault
  /\ EndServer
  /\ UNCHANGED files

SrvStep ==
  SrvInit \/ SrvArm \/ SrvRead \/ SrvClear \/ SrvHandle \/ SrvWrite \/ SrvSignal

CltStep(p) ==
  \/ CltConnect(p) \/ CltWrite(p) \/ CltSignal(p) \/ CltArm(p) \/ CltRead(p) \/ CltClear(p)
  \/ CltDisconnect(p)

Next ==
  \/ SrvStart \/ SrvStep \/ SrvStop \/ KillServer
  \/ \E p \in Procs : Call(p) \/ CltStep(p) \/ KillClient(p)

\* Every process runs; nobody has to start the server or make a call.
Fairness == WF_vars(SrvStep) /\ \A p \in Procs : WF_vars(CltStep(p))

Spec == Init /\ [][Next]_vars /\ Fairness

-----------------------------------------------------------------------------
Lost(p) == pc[p] \in {"exited", "stuck"}

TypeOK ==
  /\ RoundsType
  /\ stock \in [Names -> Ints \cup {Absent}]
  /\ serving \in Requested \cup {NoMessage}
  /\ srv \in SrvLabels
  /\ pc \in [Procs -> CltLabels]
  /\ registered \in BOOLEAN /\ clientFile \in BOOLEAN
  /\ inbox \in Requested \cup {NoFile, Blank}
  /\ file \in [Procs -> Responses \cup {NoFile, Blank}]
  /\ armed \in SUBSET (Procs \cup {Server})
  /\ flag \in SUBSET (Procs \cup {Server})
  /\ aimed \in SUBSET Procs
  /\ company \in {"apart", "together", "crowded"}

\* A client ends in ipc_disconnect, for want of CLIENT_FILE (signals.c:195),
\* only if it was not alone: another one connected while it was connected.
LoneClientLeaves ==
  company = "apart" => \A p \in Procs : InRound(p) => clientFile

\* Nothing is left to be taken for an answer to come: a client that has not
\* been answered has an unset flag, unless messages came too close together.
NoStaleFlag ==
  company # "crowded" =>
    \A p \in Procs : pc[p] \in {"idle", "connect", "write", "signal"} => p \notin flag

\* A process has its file from ipc_connect (ipc_init) to ipc_disconnect
\* (ipc_close), so that a write to it finds it;
FilesInv ==
  /\ inbox # NoFile => registered
  /\ srv = "init" => inbox = NoFile
  /\ srv # "down" => registered
  /\ \A p \in Procs : /\ pc[p] \in {"idle", "connect"} => file[p] = NoFile
                      /\ InRound(p) => file[p] # NoFile

\* the server reads its file when there is a message in it;
TurnInv ==
  /\ aimed # {} \/ Server \in flag => inbox \in Requested
  /\ srv \in {"clear", "handle", "send", "signal"} => serving \in Requested
  /\ srv \in {"send", "signal"} => answer \in Responses
  /\ Server \in armed <=> srv \notin {"down", "init", "arm"}
  /\ Server \in flag => Server \in armed
  /\ srv \in {"down", "init"} => aimed = {}
  /\ \A p \in aimed : pc[p] = "signal"
  /\ \A p \in Procs : pc[p] = "arm" => p \notin armed

\* a client in a round has a message;
CallInv(p) ==
  pc[p] \notin {"idle", "exited", "stuck"} =>
    request[p] \in Requests /\ ~Refused(request[p]) /\ rpc[p] \in Messages

\* and while no message comes too close to another, it is in one place only,
\* its sender waits for the answer and has not been signalled, and the file
\* for that answer is there.
Told(p) == Server \in flag /\ srv # "clear" /\ inbox.from = p

Served(p) == srv \in {"clear", "handle", "send", "signal"} /\ serving.from = p

FreshInv(p) ==
  /\ pc[p] = "signal" =>
       /\ Server \notin flag /\ srv # "clear"
       /\ \A q \in Procs : pc[q] = "signal" => q = p
       /\ p \in aimed => inbox.from = p
  /\ ~(Told(p) /\ Served(p))
  /\ Told(p) \/ Served(p) =>
       /\ pc[p] \in {"arm", "wait"} \/ Lost(p)
       /\ pc[p] \in {"arm", "wait"} => p \notin flag
       /\ file[p] # NoFile
  /\ p \in flag => pc[p] \in {"wait", "clear"} \/ Lost(p)

AloneInv ==
  company = "apart" => \A p, q \in Procs : InRound(p) /\ InRound(q) => p = q

OrderInv ==
  /\ TypeOK /\ FilesInv /\ TurnInv
  /\ \A p \in Procs : CallInv(p)
  /\ AloneInv /\ LoneClientLeaves
  /\ company # "crowded" => \A p \in Procs : FreshInv(p)

\* A client has a response when it has read one;
RoundInv(p) ==
  /\ pc[p] = "idle" => request[p] = Idle
  /\ pc[p] \in {"clear", "disconnect"} => resp[p] \in Responses
  /\ pc[p] \notin {"clear", "disconnect", "exited"} => resp[p] = Pending

\* and the message in that one place is its sender's, whose file is blank
\* until the server has written the answer to that message.
AnswerInv(p) ==
  /\ p \in aimed \/ Told(p) => inbox = [from |-> p, message |-> rpc[p]]
  /\ Served(p) => serving.message = rpc[p]
  /\ pc[p] \in {"write", "signal"} => file[p] = Blank
  /\ Told(p) \/ Served(p) => file[p] = IF Served(p) /\ srv = "signal" THEN answer ELSE Blank
  /\ pc[p] = "wait" /\ p \in flag => file[p] \in Responses

\* The inductive invariant: the order of the steps, and what they carry.
SignalsInv ==
  /\ OrderInv
  /\ \A p \in Procs : RoundInv(p)
  /\ company # "crowded" => \A p \in Procs : AnswerInv(p)

\* The server ends by itself only by a signal that comes before it has
\* installed its handler (signals.c:142), or when messages came too close.
OnlyEarlySignalsStopServer ==
  [][srv # "down" /\ srv' = "down" =>
       faults' > faults \/ company = "crowded" \/ Server \notin armed]_vars

\* The message of p is in the server's file, to be read, or was read.
InFlight(p) ==
  \/ srv \in {"clear", "handle"} /\ serving.from = p
  \/ /\ Server \in flag /\ srv # "clear"
     /\ \E m \in Messages : inbox = [from |-> p, message |-> m]

RequestNow == [p \in Procs |-> IF Lost(p) THEN Gone ELSE request[p]]

RpcNow == [p \in Procs |-> IF Lost(p) /\ ~InFlight(p) THEN NoMessage ELSE rpc[p]]

RespNow ==
  [p \in Procs |->
     IF Lost(p) THEN Pending
     ELSE IF srv \in {"send", "signal"} /\ serving.from = p THEN answer
     ELSE IF file[p] \in Responses /\ resp[p] = Pending THEN file[p]
     ELSE resp[p]]

Service == INSTANCE StockServer
             WITH request <- RequestNow, rpc <- RpcNow, resp <- RespNow

\* As long as no message is written before the server has done with the one
\* before, none takes effect twice and what a client reads is the answer to
\* its own, whoever is killed and however close the calls are otherwise.
ServesAtMostOnce ==
  Service!ServerInit
    /\ [][company' # "crowded" => Service!ServerNext]_Service!serverVars

\* And then every call returns, ends the client, or loses the server.
CallsReturn ==
  \A p \in Procs :
    pc[p] = "connect" ~> pc[p] \in {"idle", "exited"} \/ srv = "down" \/ company = "crowded"

\* The server has taken a message but not cleared its flag yet, and p has
\* written the next one and signalled meanwhile.
ToldMeanwhile(p) ==
  /\ srv = "clear" /\ serving.from # p
  /\ \E m \in Messages : inbox = [from |-> p, message |-> m]
  /\ pc[p] \in {"arm", "wait"}

\* doc/report.lyx:877-878: the server has to mask the signals as soon as one
\* is received so as not to lose requests.  A request the server is told of
\* while it takes another is answered.
RequestsKept ==
  \A p \in Procs : ToldMeanwhile(p) ~> pc[p] \in {"idle", "connect", "exited"} \/ srv = "down"

=============================================================================
