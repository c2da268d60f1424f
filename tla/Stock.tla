------------------------------- MODULE Stock -------------------------------
(***************************************************************************)
(* What client.h promises, with no lock, file or message in it: a call     *)
(* takes effect on the stock in one step, somewhere between its invocation *)
(* and its return, and its return code says what that step found.          *)
(***************************************************************************)
EXTENDS Product

CONSTANTS
  Procs,        \* client processes
  Idle,         \* request[p]: p is between two calls
  Gone,         \* request[p]: p has exited
  Pending       \* reply[p]: the current call of p has not taken effect yet

VARIABLES
  stock,        \* the quantity of each product, or Absent
  request,      \* the call each process is in
  reply         \* the answer that call got

stockVars == <<stock, request, reply>>

(***************************************************************************)
(* Which codes a request may get when its product holds `held', and what   *)
(* the product holds after an OK.  Two codes say that a product is there   *)
(* already: one of client.h, one of productDB.h.                           *)
(***************************************************************************)
Codes(r, held) ==
  IF Refused(r) THEN {"NEGATIVE_QUANTITY"}
  ELSE IF r.op = "add"
       THEN IF held = Absent THEN {"OK"} ELSE {"PRODUCT_ALREADY_INIT", "PRODUCT_EXISTS"}
       ELSE IF held = Absent THEN {"NO_PRODUCT_FOR_NAME"} ELSE {"OK"}

After(r, held) ==
  CASE r.op = "show"   -> held
    [] r.op = "add"    -> r.quantity
    [] r.op = "remove" -> Absent
    [] r.op \in {"deposit", "take"} -> Wrap(held + Delta(r))

\* show hands the quantity it found back to the caller.
Shown(r, code, held) == IF r.op = "show" /\ code = "OK" THEN held ELSE Absent

StockInit ==
  /\ stock \in [Names -> Quantities \cup {Absent}]
  /\ request = [p \in Procs |-> Idle]
  /\ reply = [p \in Procs |-> Pending]

Invoke(p) ==
  /\ request[p] = Idle
  /\ \E r \in Requests : request' = [request EXCEPT ![p] = r]
  /\ UNCHANGED <<stock, reply>>

Perform(p) ==
  LET r    == request[p]
      held == stock[r.name]
  IN /\ r \in Requests
     /\ reply[p] = Pending
     /\ \E code \in Codes(r, held) :
          /\ reply' = [reply EXCEPT ![p] = [code |-> code, shown |-> Shown(r, code, held)]]
          /\ stock' = IF code = "OK" THEN [stock EXCEPT ![r.name] = After(r, held)] ELSE stock
     /\ UNCHANGED request

Return(p) ==
  /\ request[p] \in Requests
  /\ reply[p] # Pending
  /\ request' = [request EXCEPT ![p] = Idle]
  /\ reply' = [reply EXCEPT ![p] = Pending]
  /\ UNCHANGED stock

\* A process exits in the middle of a call that has had no effect.
Exit(p) ==
  /\ request[p] \in Requests
  /\ reply[p] = Pending
  /\ request' = [request EXCEPT ![p] = Gone]
  /\ UNCHANGED <<stock, reply>>

Restart(p) ==
  /\ request[p] = Gone
  /\ request' = [request EXCEPT ![p] = Idle]
  /\ UNCHANGED <<stock, reply>>

StockNext ==
  \E p \in Procs : Invoke(p) \/ Perform(p) \/ Return(p) \/ Exit(p) \/ Restart(p)

StockSpec == StockInit /\ [][StockNext]_stockVars

=============================================================================
