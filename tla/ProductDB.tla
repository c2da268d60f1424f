------------------------------ MODULE ProductDB ------------------------------
(***************************************************************************)
(* The handlers of server.c over productDB.c, file access by file access.  *)
(* Only the server uses the files, but it can be stopped or killed between *)
(* any two accesses.  What fprintf wrote is in a buffer until fclose, or   *)
(* until the exit() of the SIGINT handler, which flushes it too.           *)
(***************************************************************************)
EXTENDS Rounds

CONSTANT Empty        \* stock[n]: a file without a number in it

ASSUME EmptyAssumption == Empty \notin Int /\ Empty # Absent

VARIABLE found        \* the quantity the handler found, for its next steps

DbLabels == {"handle", "truncate", "print", "flush", "remove"}

\* What db_get_product_by_name may find: fscanf stores nothing from an empty
\* file, and the int it should have stored was never initialized.
Readable(name) == IF stock[name] = Empty THEN Ints ELSE {stock[name]}

Respond(held) ==
  /\ srv' = "send"
  /\ answer' = ResponseTo(serving.message, held)
  /\ found' = Absent

\* Every operation begins with db_get_product_by_name; a get, and a removal
\* of what is not there, are done then.
DbLook ==
  LET m == serving.message
  IN /\ srv = "handle"
     /\ \E held \in Readable(m.name) :
          IF m.type = "WRITE_PRODUCT" \/ (m.type = "REMOVE_PRODUCT" /\ held # Absent)
          THEN /\ srv' = IF m.type = "WRITE_PRODUCT" THEN "truncate" ELSE "remove"
               /\ found' = held
               /\ UNCHANGED answer
          ELSE Respond(held)
     /\ UNCHANGED <<stock, serving>>

\* remove() of db_delete_product.
DbRemove ==
  /\ srv = "remove"
  /\ stock' = [stock EXCEPT ![serving.message.name] = Absent]
  /\ Respond(found)
  /\ UNCHANGED serving

\* fopen(.., "w") in __write_new empties or makes the file ..
DbTruncate ==
  /\ srv = "truncate"
  /\ srv' = "print"
  /\ stock' = [stock EXCEPT ![serving.message.name] = Empty]
  /\ UNCHANGED <<serving, answer, found>>

\* .. fprintf leaves the new quantity in the buffer ..
DbPrint ==
  /\ srv = "print"
  /\ srv' = "flush"
  /\ UNCHANGED <<stock, serving, answer, found>>

\* .. and fclose, or exit, writes it.
Written ==
  [stock EXCEPT ![serving.message.name] = HoldsAfter(serving.message, found)]

\* (faulty variant: a product that is there is not added to)
DbFlushReplacing ==
  /\ srv = "flush"
  /\ stock' = [stock EXCEPT ![serving.message.name] = serving.message.quantity]
  /\ Respond(found)
  /\ UNCHANGED serving

DbFlush ==
  /\ srv = "flush"
  /\ stock' = Written
  /\ Respond(found)
  /\ UNCHANGED serving

DbStep == DbLook \/ DbRemove \/ DbTruncate \/ DbPrint \/ DbFlush

-----------------------------------------------------------------------------
\* ("exitflush": the server was stopped with the new quantity in the buffer)
Rewriting(name) ==
  srv \in {"print", "flush", "exitflush"} /\ serving.message.name = name

\* A product that is being rewritten still has the quantity it had.
StockNow == [n \in Names |-> IF Rewriting(n) THEN found ELSE stock[n]]

\* The file of n was left without a number.
Damaged(n) == StockNow[n] = Empty

=============================================================================
