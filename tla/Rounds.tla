------------------------------- MODULE Rounds -------------------------------
(***************************************************************************)
(* What the loops of client.c and server.c keep and do around a backend:   *)
(* the round each client is in, the message the server is serving.  The    *)
(* modules of the message queues, the sockets and the signals extend this  *)
(* one with the backend's state and the steps that move the messages.      *)
(***************************************************************************)
EXTENDS ClientServer

CONSTANTS
  Procs,        \* client processes
  Idle,         \* request[p]: p is between two calls
  Gone,         \* (of the abstract specification) p is dead or lost
  NoMessage,    \* no message, no client
  Pending,      \* no response yet
  MaxCalls,     \* bound: calls all clients make together
  MaxFaults     \* bound: processes killed or stopped

ASSUME RoundsBoundsAssumption == MaxCalls \in Nat /\ MaxFaults \in Nat

ASSUME RoundsValuesAssumption ==
  /\ Idle \notin Requests /\ Gone \notin Requests \cup {Idle}
  /\ NoMessage \notin Messages
  /\ Pending \notin Responses

VARIABLES
  stock,        \* what the server's directory holds
  srv,          \* the server's next step
  serving,      \* the message it has read, and who sent it
  answer,       \* the response it is to send
  pc,           \* each client's next step
  request,      \* its clt_ call
  rpc,          \* the message of that call under way
  resp,         \* the response it has received
  calls,        \* calls made
  faults        \* processes killed or stopped

serverSide == <<stock, srv, serving, answer>>
clientSide == <<pc, request, rpc, resp, calls>>

Requested == [from : Procs, message : Messages]

RoundsInit ==
  /\ stock \in [Names -> Quantities \cup {Absent}]
  /\ srv = "down" /\ serving = NoMessage /\ answer = Pending
  /\ pc = [p \in Procs |-> "idle"]
  /\ request = [p \in Procs |-> Idle]
  /\ rpc = [p \in Procs |-> NoMessage]
  /\ resp = [p \in Procs |-> Pending]
  /\ calls = 0
  /\ faults = 0

Goto(p, label) == pc' = [pc EXCEPT ![p] = label]

\* A step of a client inside a round, or out of the program.
Advance(p, label) == Goto(p, label) /\ UNCHANGED <<request, rpc, resp, calls>>

\* The user of p calls a clt_ function (one that refuses its quantity
\* returns at once and changes nothing).
Begin(p) ==
  /\ pc[p] = "idle"
  /\ calls < MaxCalls
  /\ \E r \in Requests :
       /\ ~Refused(r)
       /\ request' = [request EXCEPT ![p] = r]
       /\ rpc' = [rpc EXCEPT ![p] = FirstMessage(r)]
  /\ calls' = calls + 1
  /\ Goto(p, "connect")
  /\ UNCHANGED resp

\* The response has come in.
Receive(p, response, label) ==
  /\ resp' = [resp EXCEPT ![p] = response]
  /\ Goto(p, label)
  /\ UNCHANGED <<request, rpc, calls>>

\* After the disconnect the clt_ call returns, or the second half of
\* clt_add_product begins.
NextRound(p) ==
  /\ resp' = [resp EXCEPT ![p] = Pending]
  /\ IF GoesOn(request[p], rpc[p], resp[p])
     THEN /\ rpc' = [rpc EXCEPT ![p] = AddMessage(request[p])]
          /\ Goto(p, "connect")
          /\ UNCHANGED request
     ELSE /\ rpc' = [rpc EXCEPT ![p] = NoMessage]
          /\ request' = [request EXCEPT ![p] = Idle]
          /\ Goto(p, "idle")
  /\ UNCHANGED calls

\* (faulty variant: the response describes the stock after the handler)
HandleLate ==
  LET m == serving.message
  IN /\ srv = "handle"
     /\ srv' = "send"
     /\ stock' = [stock EXCEPT ![m.name] = HoldsAfter(m, @)]
     /\ answer' = ResponseTo(m, stock'[m.name])
     /\ UNCHANGED serving

\* The handler of the message's type, up to its response.
Handle ==
  LET m == serving.message
  IN /\ srv = "handle"
     /\ srv' = "send"
     /\ stock' = [stock EXCEPT ![m.name] = HoldsAfter(m, @)]
     /\ answer' = ResponseTo(m, stock[m.name])
     /\ UNCHANGED serving

Fault == faults < MaxFaults /\ faults' = faults + 1

-----------------------------------------------------------------------------
\* The types that are the same for every backend.
RoundsType ==
  /\ answer \in Responses \cup {Pending}
  /\ request \in [Procs -> Requests \cup {Idle}]
  /\ rpc \in [Procs -> Messages \cup {NoMessage}]
  /\ resp \in [Procs -> Responses \cup {Pending}]
  /\ calls \in 0 .. MaxCalls
  /\ faults \in 0 .. MaxFaults

=============================================================================
