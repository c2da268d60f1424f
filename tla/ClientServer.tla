---------------------------- MODULE ClientServer ----------------------------
(***************************************************************************)
(* What client.c and server.c do with a message, whatever carries it: the  *)
(* request a clt_ call sends first, what it does with the response, and    *)
(* the handler of each message over productDB.c.  One server process owns  *)
(* the directory, so a handler's db_ calls are one step.                   *)
(***************************************************************************)
EXTENDS Product

Messages ==
  [type : {"GET_PRODUCT", "REMOVE_PRODUCT"}, name : Names, quantity : {0}]
    \cup [type : {"WRITE_PRODUCT"}, name : Names, quantity : Ints]

Responses ==
  [type : {"OK_RESP", "ERR_RESP"}, code : {"OK", "NO_PRODUCT_FOR_NAME"},
   quantity : Ints \cup {Absent}]

Message(type, name, quantity) == [type |-> type, name |-> name, quantity |-> quantity]

\* The message with which each clt_ function of client.c begins.
FirstMessage(r) ==
  IF r.op \in {"show", "add"} THEN Message("GET_PRODUCT", r.name, 0)
  ELSE IF r.op = "remove" THEN Message("REMOVE_PRODUCT", r.name, 0)
  ELSE Message("WRITE_PRODUCT", r.name, Delta(r))

\* clt_add_product goes on unless the product it asked for is there ..
GoesOn(r, m, resp) ==
  r.op = "add" /\ m.type = "GET_PRODUCT" /\ resp.type # "OK_RESP"

\* .. with the message that writes it.
AddMessage(r) == Message("WRITE_PRODUCT", r.name, r.quantity)

\* What the product holds after the handler, given what it held before.
\* srv_write_product updates, and saves when there is nothing to update.
HoldsAfter(m, held) ==
  IF m.type = "GET_PRODUCT" THEN held
  ELSE IF m.type = "REMOVE_PRODUCT" THEN Absent
  ELSE IF held = Absent THEN m.quantity ELSE Wrap(held + m.quantity)

\* The response: only a WRITE of a missing product is no error.
ResponseTo(m, held) ==
  IF held = Absent /\ m.type # "WRITE_PRODUCT"
  THEN [type |-> "ERR_RESP", code |-> "NO_PRODUCT_FOR_NAME", quantity |-> Absent]
  ELSE [type |-> "OK_RESP", code |-> "OK",
        quantity |-> IF m.type = "GET_PRODUCT" THEN held ELSE Absent]

=============================================================================
