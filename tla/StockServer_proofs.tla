-------------------------- MODULE StockServer_proofs --------------------------
(***************************************************************************)
(* What a step has to do to each client to be a step of StockServer.  The  *)
(* proofs that a backend implements StockServer instantiate this module    *)
(* with the backend's view of the clients' requests and responses.         *)
(***************************************************************************)
EXTENDS StockServer, TLAPS

\* The views are functions on the clients, so that a step can be told client
\* by client.
Views ==
  /\ request = [q \in Procs |-> request[q]]
  /\ rpc = [q \in Procs |-> rpc[q]]
  /\ resp = [q \in Procs |-> resp[q]]

\* A step that at most forgets messages of the dead.
LEMMA QuietStep ==
  ASSUME Views, Views', stock' = stock,
         \A q \in Procs :
           /\ request'[q] = request[q] /\ resp'[q] = resp[q]
           /\ rpc'[q] = rpc[q] \/ (request[q] = Gone /\ rpc'[q] = NoMessage)
  PROVE  ServerNext
<1> DEFINE S == {q \in Procs : rpc'[q] # rpc[q]}
<1>1. S \in SUBSET Dead /\ Lose(S)
  BY DEF Dead, Lose, Views
<1>2. request' = request /\ resp' = resp
  BY DEF Views
<1>3. QED
  BY <1>1, <1>2 DEF Forget, ServerNext

\* A client is lost, together with messages of the dead.
LEMMA DieStep ==
  ASSUME Views, Views', stock' = stock, NEW p \in Procs,
         request[p] # Gone, request'[p] = Gone, resp'[p] = Pending,
         rpc'[p] = NoMessage \/ (rpc'[p] = rpc[p] /\ resp[p] = Pending),
         \A q \in Procs \ {p} :
           /\ request'[q] = request[q] /\ resp'[q] = resp[q]
           /\ rpc'[q] = rpc[q] \/ (request[q] = Gone /\ rpc'[q] = NoMessage)
  PROVE  ServerNext
<1> DEFINE S == {q \in Dead \cup {p} : rpc'[q] = NoMessage}
<1>1. S \in SUBSET (Dead \cup {p}) /\ (resp[p] # Pending => p \in S) /\ Lose(S)
  BY DEF Lose, Dead, Views
<1>2. request' = [request EXCEPT ![p] = Gone] /\ resp' = [resp EXCEPT ![p] = Pending]
  BY DEF Views
<1>3. QED
  BY <1>1, <1>2 DEF Die, ServerNext

\* A handler runs for the client that waits for it, or for one that is gone.
LEMMA ServeStep ==
  ASSUME Views, Views', NEW p \in Procs, NEW m, rpc[p] = m, m # NoMessage,
         stock' = [stock EXCEPT ![m.name] = HoldsAfter(m, @)],
         request'[p] = request[p],
         IF request[p] = Gone
         THEN rpc'[p] = NoMessage /\ resp'[p] = resp[p]
         ELSE /\ rpc'[p] = rpc[p]
              /\ resp[p] = Pending /\ resp'[p] = ResponseTo(m, stock[m.name]),
         \A q \in Procs \ {p} :
           request'[q] = request[q] /\ resp'[q] = resp[q] /\ rpc'[q] = rpc[q]
  PROVE  ServerNext
<1>1. request' = request
  BY DEF Views
<1>2. CASE request[p] = Gone
  <2>1. Lose({p}) /\ resp' = resp
    BY <1>2 DEF Lose, Views
  <2>2. QED
    BY <1>1, <1>2, <2>1 DEF ServeDead, ServerNext
<1>3. CASE request[p] # Gone
  <2>1. resp' = [resp EXCEPT ![p] = ResponseTo(m, stock[m.name])] /\ rpc' = rpc
    BY <1>3 DEF Views
  <2>2. QED
    BY <1>1, <1>3, <2>1 DEF Serve, ServerNext
<1>4. QED
  BY <1>2, <1>3

\* A clt_ call begins.
LEMMA CallStep ==
  ASSUME Views, Views', stock' = stock, NEW p \in Procs, NEW r \in Requests, ~Refused(r),
         request[p] = Idle, request'[p] = r, rpc'[p] = FirstMessage(r), resp'[p] = resp[p],
         \A q \in Procs \ {p} :
           request'[q] = request[q] /\ resp'[q] = resp[q] /\ rpc'[q] = rpc[q]
  PROVE  ServerNext
<1>1. /\ request' = [request EXCEPT ![p] = r]
      /\ rpc' = [rpc EXCEPT ![p] = FirstMessage(r)]
      /\ resp' = resp
  BY DEF Views
<1>2. QED
  BY <1>1 DEF Call, ServerNext

\* A call has its answer, and returns or goes on.
LEMMA AnswerStep ==
  ASSUME Views, Views', stock' = stock, NEW p \in Procs,
         request[p] # Gone, resp[p] # Pending, resp'[p] = Pending,
         IF GoesOn(request[p], rpc[p], resp[p])
         THEN rpc'[p] = AddMessage(request[p]) /\ request'[p] = request[p]
         ELSE rpc'[p] = NoMessage /\ request'[p] = Idle,
         \A q \in Procs \ {p} :
           request'[q] = request[q] /\ resp'[q] = resp[q] /\ rpc'[q] = rpc[q]
  PROVE  ServerNext
<1>1. resp' = [resp EXCEPT ![p] = Pending]
  BY DEF Views
<1>2. CASE GoesOn(request[p], rpc[p], resp[p])
  <2>1. rpc' = [rpc EXCEPT ![p] = AddMessage(request[p])] /\ request' = request
    BY <1>2 DEF Views
  <2>2. QED
    BY <1>1, <1>2, <2>1 DEF Answer, ServerNext
<1>3. CASE ~GoesOn(request[p], rpc[p], resp[p])
  <2>1. rpc' = [rpc EXCEPT ![p] = NoMessage] /\ request' = [request EXCEPT ![p] = Idle]
    BY <1>3 DEF Views
  <2>2. QED
    BY <1>1, <1>3, <2>1 DEF Answer, ServerNext
<1>4. QED
  BY <1>2, <1>3

=============================================================================
