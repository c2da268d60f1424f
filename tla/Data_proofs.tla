------------------------------ MODULE Data_proofs ------------------------------
(***************************************************************************)
(* Lemmas about the data of every build: the range of a C int and of what  *)
(* a request adds, what client.c and server.c put into messages and        *)
(* products, and the sequences messages and clients queue up in.           *)
(***************************************************************************)
EXTENDS ClientServer, Sequences, TLAPS

\* The sum of two ints, wrapped, is an int.
LEMMA WrapInt ==
  ASSUME NEW x \in Int PROVE Wrap(x) \in Ints
<1> DEFINE M == 2 * (IntMax + 1)
           y == x + IntMax + 1
<1>1. M \in Nat /\ M > 0 /\ y \in Int
  BY IntMaxAssumption
<1> HIDE DEF M, y
<1>2. y % M \in 0 .. (M - 1)
  BY <1>1
<1>3. Wrap(x) = (y % M) - (IntMax + 1)
  BY DEF Wrap, M, y
<1>4. QED
  BY <1>2, <1>3, IntMaxAssumption DEF M, Ints

\* A request's quantity is an int, and what it adds is an integer: an int
\* unless the request is one that is refused (-INT_MIN).
LEMMA RequestQuantity ==
  ASSUME NEW r \in Requests
  PROVE  /\ r.name \in Names
         /\ r.quantity \in Ints
         /\ Delta(r) \in Int
         /\ ~Refused(r) => Delta(r) \in Ints
<1>1. r \in [op : {"show", "remove"}, name : Names, quantity : {0}]
      \/ r \in [op : {"add", "deposit", "take"}, name : Names, quantity : Quantities]
  BY DEF Requests
<1>2. 0 \in Ints
  BY IntMaxAssumption DEF Ints
<1>3. r.name \in Names /\ r.quantity \in Ints
  BY <1>1, <1>2, QuantitiesAssumption
<1>4. Delta(r) \in Int
  BY <1>3, IntMaxAssumption DEF Delta, Ints
<1>5. ASSUME ~Refused(r) PROVE Delta(r) \in Ints
  <2>1. CASE r.op = "take"
    BY <1>3, <1>5, <2>1, IntMaxAssumption DEF Refused, Delta, Ints
  <2>2. CASE r.op # "take"
    BY <1>3, <2>2 DEF Delta
  <2>3. QED
    BY <2>1, <2>2
<1>6. QED
  BY <1>3, <1>4, <1>5

-----------------------------------------------------------------------------
\* Every message a clt_ call sends is one the server knows.
LEMMA MessageTypes ==
  ASSUME NEW r \in Requests, ~Refused(r)
  PROVE  FirstMessage(r) \in Messages /\ AddMessage(r) \in Messages
  BY RequestQuantity DEF FirstMessage, AddMessage, Message, Messages

\* The server's products hold ints, and its responses are the two of msg.h.
LEMMA HandlerTypes ==
  ASSUME NEW m \in Messages, NEW held \in Ints \cup {Absent}
  PROVE  /\ m.name \in Names
         /\ HoldsAfter(m, held) \in Ints \cup {Absent}
         /\ ResponseTo(m, held) \in Responses
<1>1. m.name \in Names /\ (m.type = "WRITE_PRODUCT" => m.quantity \in Ints)
      /\ m.type \in {"GET_PRODUCT", "WRITE_PRODUCT", "REMOVE_PRODUCT"}
  BY DEF Messages
<1>2. HoldsAfter(m, held) \in Ints \cup {Absent}
  <2>1. CASE m.type = "WRITE_PRODUCT" /\ held # Absent
    <3>1. held + m.quantity \in Int
      BY <1>1, <2>1, IntMaxAssumption DEF Ints
    <3>2. QED
      BY <2>1, <3>1, WrapInt DEF HoldsAfter
  <2>2. CASE ~(m.type = "WRITE_PRODUCT" /\ held # Absent)
    BY <1>1, <2>2 DEF HoldsAfter
  <2>3. QED
    BY <2>1, <2>2
<1>3. ResponseTo(m, held) \in Responses
  BY <1>1 DEF ResponseTo, Responses
<1>4. QED
  BY <1>1, <1>2, <1>3

\* What a sequence holds after an Append, at each index ..
LEMMA AppendIndices ==
  ASSUME NEW S, NEW s \in Seq(S), NEW x \in S
  PROVE  /\ Append(s, x) \in Seq(S)
         /\ Append(s, x) # <<>>
         /\ Len(Append(s, x)) = Len(s) + 1
         /\ DOMAIN Append(s, x) = 1 .. Len(s) + 1
         /\ Append(s, x)[Len(s) + 1] = x
         /\ \A i \in 1 .. Len(s) : i \in DOMAIN s /\ Append(s, x)[i] = s[i]
  OBVIOUS

\* .. and after its first element was taken.
LEMMA TailIndices ==
  ASSUME NEW S, NEW s \in Seq(S), s # <<>>
  PROVE  /\ Head(s) \in S
         /\ Head(s) = s[1]
         /\ DOMAIN s = 1 .. Len(s)
         /\ Len(s) \in Nat \ {0}
         /\ Tail(s) \in Seq(S)
         /\ Len(Tail(s)) = Len(s) - 1
         /\ DOMAIN Tail(s) = 1 .. Len(s) - 1
         /\ \A i \in 1 .. Len(s) - 1 : Tail(s)[i] = s[i + 1]
  OBVIOUS

=============================================================================
