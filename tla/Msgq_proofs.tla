----------------------------- MODULE Msgq_proofs -----------------------------
(***************************************************************************)
(* Proofs about the two message-queue backends, for any number of clients, *)
(* calls and faults.                                                       *)
(***************************************************************************)
EXTENDS Msgq, Data_proofs

Items == Requested \cup Responses

-----------------------------------------------------------------------------
\* What Remove, Put and taking the first item do to each queue.
LEMMA RemoveQueue ==
  ASSUME TypeOK, NEW o \in Owners, Remove(o)
  PROVE  /\ queue' \in [Owners -> Seq(Items)] /\ linked' \in SUBSET Owners
         /\ queue'[o] = <<>>
         /\ \A q \in Owners \ {o} : queue'[q] = queue[q] /\ (q \in linked' <=> q \in linked)
<1>1. <<>> \in Seq(Items)
  OBVIOUS
<1>2. QED
  BY <1>1 DEF Remove, TypeOK, Items

\* .. an item is added to one of them, and the others stay;
LEMMA PutQueue ==
  ASSUME TypeOK, NEW o \in Owners, NEW item \in Items, Put(o, item)
  PROVE  /\ queue' \in [Owners -> Seq(Items)]
         /\ queue'[o] = Append(queue[o], item)
         /\ \A q \in Owners \ {o} : queue'[q] = queue[q]
<1>1. queue \in [Owners -> Seq(Items)]
  BY DEF TypeOK, Items
<1>2. Append(queue[o], item) \in Seq(Items)
  BY <1>1, AppendIndices
<1>3. QED
  BY <1>1, <1>2 DEF Put

\* .. one of them loses its first item, and the others stay.
LEMMA TakeQueue ==
  ASSUME TypeOK, NEW o \in Owners, queue[o] # <<>>, queue' = [queue EXCEPT ![o] = Tail(@)]
  PROVE  /\ queue' \in [Owners -> Seq(Items)]
         /\ queue'[o] = Tail(queue[o])
         /\ \A q \in Owners \ {o} : queue'[q] = queue[q]
<1>1. queue \in [Owners -> Seq(Items)]
  BY DEF TypeOK, Items
<1>2. Tail(queue[o]) \in Seq(Items)
  BY <1>1, TailIndices
<1>3. QED
  BY <1>1, <1>2

\* A sequence of one response is empty without it.
LEMMA OneTaken ==
  ASSUME NEW s \in Seq(Responses), Len(s) = 1
  PROVE  Tail(s) = <<>> /\ Head(s) \in Responses
<1>1. s # <<>>
  OBVIOUS
<1>2. Head(s) \in Responses /\ Tail(s) \in Seq(Responses) /\ Len(Tail(s)) = 0
  BY <1>1, TailIndices
<1>3. ASSUME NEW t \in Seq(Responses), Len(t) = 0 PROVE t = <<>>
  BY <1>3
<1>4. QED
  BY <1>2, <1>3

-----------------------------------------------------------------------------
\* The server's queue is left alone, emptied, loses its first message, or
\* gets one of a client that has none in it.
LEMMA SameServerQueue ==
  ASSUME QueueInv, queue'[Server] = queue[Server]
  PROVE  QueueInv' /\ \A q : InQueue(q)' <=> InQueue(q)
  BY DEF QueueInv, InQueue

\* An empty queue holds nobody's message.
LEMMA EmptyServerQueue ==
  ASSUME queue'[Server] = <<>>
  PROVE  QueueInv' /\ \A q : ~InQueue(q)'
  BY DEF QueueInv, InQueue

\* The message taken out of the server's queue is no longer in it, and those
\* of the others still are.
LEMMA TakenFromServer ==
  ASSUME TypeOK, QueueInv, queue[Server] # <<>>, queue'[Server] = Tail(queue[Server])
  PROVE  /\ QueueInv'
         /\ Head(queue[Server]) \in Requested
         /\ InQueue(Head(queue[Server]).from)
         /\ \A q : InQueue(q)' <=> InQueue(q) /\ q # Head(queue[Server]).from
<1> DEFINE s == queue[Server]
<1> DEFINE t == queue'[Server]
<1>1. s \in Seq(Items)
  BY DEF TypeOK, Owners, Items
<1>2. /\ Head(s) = s[1] /\ DOMAIN s = 1 .. Len(s) /\ Len(s) \in Nat \ {0}
      /\ DOMAIN t = 1 .. Len(s) - 1
      /\ \A i \in 1 .. Len(s) - 1 : t[i] = s[i + 1]
  BY <1>1, TailIndices
<1>3. /\ \A i \in DOMAIN s : s[i] \in Requested
      /\ \A i, j \in DOMAIN s : s[i].from = s[j].from => i = j
  BY DEF QueueInv
<1> HIDE DEF s, t
<1>4. \A i \in DOMAIN t : i + 1 \in DOMAIN s /\ t[i] = s[i + 1]
  BY <1>2
<1>5. /\ \A i \in DOMAIN t : t[i] \in Requested
      /\ \A i, j \in DOMAIN t : t[i].from = t[j].from => i = j
  <2>1. \A i \in DOMAIN t : t[i] \in Requested
    BY <1>3, <1>4
  <2>2. ASSUME NEW i \in DOMAIN t, NEW j \in DOMAIN t, t[i].from = t[j].from PROVE i = j
    <3>1. i + 1 = j + 1
      BY <1>3, <1>4, <2>2
    <3>2. i \in Int /\ j \in Int
      BY <1>2
    <3>3. QED
      BY <3>1, <3>2
  <2>3. QED
    BY <2>1, <2>2
<1>6. 1 \in DOMAIN s /\ s[1] \in Requested
  BY <1>2, <1>3
<1>7. ~ \E i \in DOMAIN t : t[i].from = s[1].from
  <2>1. ASSUME NEW i \in DOMAIN t, t[i].from = s[1].from PROVE FALSE
    <3>1. i + 1 = 1
      BY <1>3, <1>4, <1>6, <2>1
    <3>2. QED
      BY <1>2, <3>1
  <2>2. QED
    BY <2>1
<1>8. ASSUME NEW q, q # s[1].from
      PROVE  (\E i \in DOMAIN t : t[i].from = q) <=> (\E i \in DOMAIN s : s[i].from = q)
  <2>1. ASSUME NEW i \in DOMAIN s, s[i].from = q PROVE \E j \in DOMAIN t : t[j].from = q
    <3>1. i - 1 \in DOMAIN t /\ t[i - 1] = s[(i - 1) + 1] /\ (i - 1) + 1 = i
      BY <1>2, <1>8, <2>1
    <3>2. QED
      BY <2>1, <3>1
  <2>2. QED
    BY <1>4, <2>1
<1>9. Head(s) = s[1]
  BY <1>2
<1>10. QueueInv'
  BY <1>5 DEF QueueInv, t
<1>11. Head(queue[Server]) = s[1]
  BY <1>9 DEF s
<1>12. InQueue(s[1].from)
  BY <1>6 DEF InQueue, s
<1>13. ASSUME NEW q PROVE InQueue(q)' <=> InQueue(q) /\ q # s[1].from
  <2>1. InQueue(q)' <=> \E i \in DOMAIN t : t[i].from = q
    BY DEF InQueue, t
  <2>2. InQueue(q) <=> \E i \in DOMAIN s : s[i].from = q
    BY DEF InQueue, s
  <2>3. QED
    BY <1>7, <1>8, <2>1, <2>2
<1>14. Head(queue[Server]) \in Requested
  BY <1>6, <1>11
<1>15. \A q : InQueue(q)' <=> InQueue(q) /\ q # Head(queue[Server]).from
  BY <1>11, <1>13
<1>16. QED
  BY <1>10, <1>11, <1>12, <1>14, <1>15

\* A client that has no message in the queue gets one in it.
LEMMA PutAtServer ==
  ASSUME TypeOK, QueueInv, NEW p \in Procs, ~InQueue(p), NEW m \in Messages,
         queue'[Server] = Append(queue[Server], [from |-> p, message |-> m])
  PROVE  QueueInv' /\ InQueue(p)' /\ \A q : q # p => (InQueue(q)' <=> InQueue(q))
<1> DEFINE s == queue[Server]
<1> DEFINE t == queue'[Server]
<1> DEFINE x == [from |-> p, message |-> m]
<1>1. x \in Requested /\ x.from = p
  BY DEF Requested
<1>2. s \in Seq(Items) /\ x \in Items
  BY <1>1 DEF TypeOK, Owners, Items
<1>3. /\ DOMAIN t = 1 .. Len(s) + 1 /\ t[Len(s) + 1] = x
      /\ DOMAIN s = 1 .. Len(s) /\ Len(s) \in Nat
      /\ \A i \in DOMAIN s : t[i] = s[i]
  <2>1. DOMAIN s = 1 .. Len(s) /\ Len(s) \in Nat
    BY <1>2
  <2>2. QED
    BY <1>2, <2>1, AppendIndices
<1>4. /\ \A i \in DOMAIN s : s[i] \in Requested
      /\ \A i, j \in DOMAIN s : s[i].from = s[j].from => i = j
      /\ \A i \in DOMAIN s : s[i].from # p
  BY DEF QueueInv, InQueue
<1> HIDE DEF s, t, x
<1>5. \A i \in DOMAIN t : \/ i \in DOMAIN s /\ t[i] = s[i]
                          \/ i = Len(s) + 1 /\ t[i] = x
  BY <1>3
<1>6. /\ \A i \in DOMAIN t : t[i] \in Requested
      /\ \A i, j \in DOMAIN t : t[i].from = t[j].from => i = j
  BY <1>1, <1>4, <1>5
<1>7. \E i \in DOMAIN t : t[i].from = p
  <2>1. Len(s) + 1 \in DOMAIN t
    BY <1>3
  <2>2. QED
    BY <1>1, <1>3, <2>1
<1>8. DOMAIN s \subseteq DOMAIN t
  BY <1>3
<1>9. ASSUME NEW q, q # p
      PROVE  (\E i \in DOMAIN t : t[i].from = q) <=> (\E i \in DOMAIN s : s[i].from = q)
  BY <1>1, <1>3, <1>5, <1>8, <1>9
<1>10. QED
  BY <1>6, <1>7, <1>9 DEF QueueInv, InQueue, s, t


-----------------------------------------------------------------------------
\* Before the server is started the queues are as they should be.
LEMMA QueuesInit == Init => QueuesInv
<1>1. SUFFICES ASSUME Init PROVE QueuesInv
  OBVIOUS
<1>2. TypeOK
  <2>1. <<>> \in Seq(Items)
    OBVIOUS
  <2>2. Quantities \subseteq Ints
    BY QuantitiesAssumption
  <2>3. stock \in [Names -> Ints \cup {Absent}]
    BY <1>1, <2>2 DEF Init, RoundsInit
  <2>4. calls \in 0 .. MaxCalls /\ faults \in 0 .. MaxFaults
    BY <1>1, RoundsBoundsAssumption DEF Init, RoundsInit
  <2>5. queue \in [Owners -> Seq(Items)]
    BY <1>1, <2>1 DEF Init
  <2>6. QED
    BY <1>1, <2>3, <2>4, <2>5 DEF Init, RoundsInit, TypeOK, RoundsType, SrvLabels, CltLabels, Items
<1>3. queue[Server] = <<>> /\ \A p \in Procs : queue[p] = <<>>
  BY <1>1 DEF Init, Owners
<1>4. QueueInv /\ \A q : ~InQueue(q)
  BY <1>3 DEF QueueInv, InQueue
<1>5. ASSUME NEW p \in Procs PROVE WaitInv(p)
  BY <1>1, <1>3, <1>4 DEF Init, RoundsInit, WaitInv, Served
<1>6. CallInv
  BY <1>1 DEF Init, RoundsInit, CallInv
<1>7. QED
  BY <1>2, <1>4, <1>5, <1>6 DEF QueuesInv, NothingStale

\* Every step leaves them so.
LEMMA QueuesNext == QueuesInv /\ [Next]_vars => QueuesInv'
<1> SUFFICES ASSUME QueuesInv, [Next]_vars PROVE QueuesInv'
  OBVIOUS
<1> USE DEF QueuesInv, NothingStale
<1> Server \in Owners /\ Procs \subseteq Owners /\ Server \notin Procs
  BY ServerAssumption DEF Owners

<1>1. ASSUME SrvStart PROVE QueuesInv'
  <2>1. /\ queue' \in [Owners -> Seq(Items)] /\ linked' \in SUBSET Owners
        /\ queue'[Server] = <<>>
        /\ \A q \in Procs : queue'[q] = queue[q] /\ (q \in linked' <=> q \in linked)
    BY <1>1, RemoveQueue DEF SrvStart
  <2>2. QueueInv' /\ \A q : ~InQueue(q)'
    BY <2>1, EmptyServerQueue
  <2>3. TypeOK'
    BY <1>1, <2>1 DEF SrvStart, TypeOK, RoundsType, SrvLabels, CltLabels, Items, queues, serverSide, clientSide
  <2>4. ASSUME NEW q \in Procs PROVE WaitInv(q)'
    <3>1. WaitInv(q)
      OBVIOUS
    <3>2. QED
      BY <1>1, <2>1, <2>2, <3>1 DEF SrvStart, WaitInv, Served, Lost, Requested, TypeOK, RoundsType, SrvLabels, CltLabels, Items, queues, serverSide, clientSide
  <2>5. CallInv'
    BY <1>1, <2>1, <2>2 DEF SrvStart, CallInv, TypeOK, RoundsType, SrvLabels, CltLabels, Items, queues, serverSide, clientSide
  <2>6. QED
    BY <2>2, <2>3, <2>4, <2>5
<1>2. ASSUME SrvConnect PROVE QueuesInv'
  <2>1. queue' = queue
    BY <1>2 DEF SrvConnect, queues, serverSide, clientSide
  <2>2. QueueInv' /\ \A q : InQueue(q)' <=> InQueue(q)
    BY <2>1, SameServerQueue
  <2>3. TypeOK'
    BY <1>2, <2>1 DEF SrvConnect, TypeOK, RoundsType, SrvLabels, CltLabels, Items, queues, serverSide, clientSide
  <2>4. ASSUME NEW q \in Procs PROVE WaitInv(q)'
    <3>1. WaitInv(q)
      OBVIOUS
    <3>2. QED
      BY <1>2, <2>1, <2>2, <3>1 DEF SrvConnect, WaitInv, Served, Lost, Requested, TypeOK, RoundsType, SrvLabels, CltLabels, Items, queues, serverSide, clientSide
  <2>5. CallInv'
    BY <1>2, <2>1, <2>2 DEF SrvConnect, CallInv, TypeOK, RoundsType, SrvLabels, CltLabels, Items, queues, serverSide, clientSide
  <2>6. QED
    BY <2>2, <2>3, <2>4, <2>5
<1>3. ASSUME SrvRecv PROVE QueuesInv'
  <2>1. /\ queue' \in [Owners -> Seq(Items)]
        /\ queue'[Server] = Tail(queue[Server])
        /\ \A q \in Procs : queue'[q] = queue[q]
    BY <1>3, TakeQueue DEF SrvRecv
  <2>2. /\ QueueInv'
        /\ serving' \in Requested /\ InQueue(serving'.from)
        /\ \A q : InQueue(q)' <=> InQueue(q) /\ q # serving'.from
    BY <1>3, <2>1, TakenFromServer DEF SrvRecv
  <2>3. TypeOK'
    BY <1>3, <2>1, <2>2 DEF SrvRecv, TypeOK, RoundsType, SrvLabels, CltLabels, Items, queues, serverSide, clientSide
  <2>4. ASSUME NEW q \in Procs PROVE WaitInv(q)'
    <3>1. WaitInv(q)
      OBVIOUS
    <3>2. QED
      BY <1>3, <2>1, <2>2, <3>1 DEF SrvRecv, WaitInv, Served, Lost, Requested, TypeOK, RoundsType, SrvLabels, CltLabels, Items, queues, serverSide, clientSide
  <2>5. CallInv'
    BY <1>3, <2>1, <2>2 DEF SrvRecv, CallInv, TypeOK, RoundsType, SrvLabels, CltLabels, Items, queues, serverSide, clientSide
  <2>6. QED
    BY <2>2, <2>3, <2>4, <2>5
<1>4. ASSUME SrvHandle PROVE QueuesInv'
  <2>1. queue' = queue
    BY <1>4 DEF SrvHandle, Handle, queues, serverSide, clientSide
  <2>2. QueueInv' /\ \A q : InQueue(q)' <=> InQueue(q)
    BY <2>1, SameServerQueue
  <2>3. serving \in Requested /\ serving.from \in Procs /\ serving.message \in Messages
    BY <1>4 DEF SrvHandle, Handle, CallInv, Requested
  <2>4. LET m == serving.message
        IN /\ HoldsAfter(m, stock[m.name]) \in Ints \cup {Absent}
           /\ ResponseTo(m, stock[m.name]) \in Responses
    <3>1. serving.message.name \in Names
      BY <2>3 DEF Messages
    <3>2. stock[serving.message.name] \in Ints \cup {Absent}
      BY <3>1 DEF TypeOK
    <3>3. QED
      BY <2>3, <3>2, HandlerTypes
  <2>5. TypeOK'
    BY <1>4, <2>1, <2>3, <2>4 DEF SrvHandle, Handle, TypeOK, RoundsType, SrvLabels, CltLabels, Items, queues, serverSide, clientSide
  <2>6. ASSUME NEW q \in Procs PROVE WaitInv(q)'
    <3>1. WaitInv(q)
      OBVIOUS
    <3>2. QED
      BY <1>4, <2>1, <2>2, <3>1 DEF SrvHandle, Handle, WaitInv, Served, Lost, queues, serverSide, clientSide
  <2>7. CallInv'
    BY <1>4, <2>1, <2>2, <2>3, <2>4 DEF SrvHandle, Handle, CallInv, TypeOK, RoundsType, SrvLabels, CltLabels, Items, queues, serverSide, clientSide
  <2>8. QED
    BY <2>2, <2>5, <2>6, <2>7
<1>5. ASSUME SrvSend PROVE QueuesInv'
  <2> DEFINE c == serving.from
  <2>1. c \in Procs /\ answer \in Responses /\ answer \in Items /\ serving \in Requested
    BY <1>5 DEF SrvSend, CallInv, Requested, Items
  <2>2. Served(c) /\ queue[c] = <<>> /\ ~InQueue(c)
    BY <1>5, <2>1 DEF SrvSend, Served, WaitInv
  <2>3. CASE kind = "posix" /\ c \notin linked
    BY <1>5, <2>1, <2>2, <2>3 DEF SrvSend, WaitInv
  <2>4. CASE ~(kind = "posix" /\ c \notin linked)
    <3>1. /\ queue' \in [Owners -> Seq(Items)]
          /\ queue'[c] = Append(queue[c], answer)
          /\ \A q \in Owners \ {c} : queue'[q] = queue[q]
      BY <1>5, <2>1, <2>4, PutQueue DEF SrvSend
    <3>2. queue'[c] \in Seq(Responses) /\ Len(queue'[c]) = 1
      <4>1. <<>> \in Seq(Responses) /\ Len(<<>>) = 0
        OBVIOUS
      <4>2. QED
        BY <2>1, <2>2, <3>1, <4>1, AppendIndices
    <3>3. QueueInv' /\ \A q : InQueue(q)' <=> InQueue(q)
      BY <2>1, <3>1, SameServerQueue
    <3>4. TypeOK'
      BY <1>5, <2>1, <2>4, <3>1 DEF SrvSend, TypeOK, RoundsType, SrvLabels, CltLabels, Items, clientSide
    <3>5. ASSUME NEW q \in Procs PROVE WaitInv(q)'
      <4>1. WaitInv(q) /\ WaitInv(c)
        BY <2>1
      <4>2. srv = "send" /\ srv' \notin {"handle", "send"} /\ pc' = pc /\ kind' = kind /\ linked' = linked \cup {c}
        BY <1>5, <2>4 DEF SrvSend, clientSide
      <4>3. CASE q = c
        BY <2>1, <2>2, <3>2, <3>3, <4>1, <4>2, <4>3 DEF WaitInv, Served, Lost
      <4>4. CASE q # c
        BY <3>1, <3>3, <4>1, <4>2, <4>4 DEF WaitInv, Served, Lost
      <4>5. QED
        BY <4>3, <4>4
    <3>6. CallInv'
      BY <1>5, <2>1, <2>4 DEF SrvSend, CallInv, TypeOK, RoundsType, SrvLabels, CltLabels, Items, clientSide
    <3>7. QED
      BY <3>3, <3>4, <3>5, <3>6
  <2>5. QED
    BY <2>3, <2>4
<1>6. ASSUME SrvLook PROVE QueuesInv'
  <2>1. queue' = queue
    BY <1>6 DEF SrvLook, queues, serverSide, clientSide
  <2>2. QueueInv' /\ \A q : InQueue(q)' <=> InQueue(q)
    BY <2>1, SameServerQueue
  <2>3. serving.from \in Procs
    BY <1>6 DEF SrvLook, CallInv, Requested
  <2>4. TypeOK'
    BY <1>6, <2>1, <2>3 DEF SrvLook, TypeOK, RoundsType, SrvLabels, CltLabels, Items, queues, serverSide, clientSide
  <2>5. ASSUME NEW q \in Procs PROVE WaitInv(q)'
    <3>1. WaitInv(q)
      OBVIOUS
    <3>2. QED
      BY <1>6, <2>1, <2>2, <2>3, <3>1 DEF SrvLook, WaitInv, Served, Lost, Requested, TypeOK, RoundsType, SrvLabels, CltLabels, Items, queues, serverSide, clientSide
  <2>6. CallInv'
    BY <1>6, <2>1, <2>2, <2>3 DEF SrvLook, CallInv, TypeOK, RoundsType, SrvLabels, CltLabels, Items, queues, serverSide, clientSide
  <2>7. QED
    BY <2>2, <2>4, <2>5, <2>6
<1>7. ASSUME SrvStop PROVE QueuesInv'
  <2>1. /\ queue' \in [Owners -> Seq(Items)] /\ linked' \in SUBSET Owners
        /\ queue'[Server] = <<>>
        /\ \A q \in Procs : queue'[q] = queue[q] /\ (q \in linked' <=> q \in linked)
    BY <1>7, RemoveQueue DEF SrvStop
  <2>2. QueueInv' /\ \A q : ~InQueue(q)'
    BY <2>1, EmptyServerQueue
  <2>3. faults' \in 0 .. MaxFaults
    BY <1>7, RoundsBoundsAssumption DEF SrvStop, Fault, TypeOK, RoundsType
  <2>4. TypeOK'
    BY <1>7, <2>1, <2>3 DEF SrvStop, EndServer, Fault, TypeOK, RoundsType, SrvLabels, CltLabels, Items, queues, serverSide, clientSide
  <2>5. ASSUME NEW q \in Procs PROVE WaitInv(q)'
    <3>1. WaitInv(q)
      OBVIOUS
    <3>2. QED
      BY <1>7, <2>1, <2>2, <2>3, <3>1 DEF SrvStop, EndServer, Fault, WaitInv, Served, Lost, Requested, TypeOK, RoundsType, SrvLabels, CltLabels, Items, queues, serverSide, clientSide
  <2>6. CallInv'
    BY <1>7, <2>1, <2>2, <2>3 DEF SrvStop, EndServer, Fault, CallInv, TypeOK, RoundsType, SrvLabels, CltLabels, Items, queues, serverSide, clientSide
  <2>7. QED
    BY <2>2, <2>4, <2>5, <2>6
<1>8. ASSUME KillServer PROVE QueuesInv'
  <2>1. queue' = queue
    BY <1>8 DEF KillServer, EndServer, Fault, queues, serverSide, clientSide
  <2>2. QueueInv' /\ \A q : InQueue(q)' <=> InQueue(q)
    BY <2>1, SameServerQueue
  <2>3. faults' \in 0 .. MaxFaults
    BY <1>8, RoundsBoundsAssumption DEF KillServer, Fault, TypeOK, RoundsType
  <2>4. TypeOK'
    BY <1>8, <2>1, <2>3 DEF KillServer, EndServer, Fault, TypeOK, RoundsType, SrvLabels, CltLabels, Items, queues, serverSide, clientSide
  <2>5. ASSUME NEW q \in Procs PROVE WaitInv(q)'
    <3>1. WaitInv(q)
      OBVIOUS
    <3>2. QED
      BY <1>8, <2>1, <2>2, <2>3, <3>1 DEF KillServer, EndServer, Fault, WaitInv, Served, Lost, Requested, TypeOK, RoundsType, SrvLabels, CltLabels, Items, queues, serverSide, clientSide
  <2>6. CallInv'
    BY <1>8, <2>1, <2>2, <2>3 DEF KillServer, EndServer, Fault, CallInv, TypeOK, RoundsType, SrvLabels, CltLabels, Items, queues, serverSide, clientSide
  <2>7. QED
    BY <2>2, <2>4, <2>5, <2>6
<1>9. ASSUME NEW p \in Procs, Call(p) PROVE QueuesInv'
  <2>1. queue' = queue
    BY <1>9 DEF Call, Begin, Goto, queues, serverSide, clientSide
  <2>2. QueueInv' /\ \A q : InQueue(q)' <=> InQueue(q)
    BY <2>1, SameServerQueue
  <2>3. request' \in [Procs -> Requests \cup {Idle}] /\ rpc' \in [Procs -> Messages \cup {NoMessage}]
        /\ request'[p] \in Requests /\ ~Refused(request'[p]) /\ rpc'[p] \in Messages
    <3>1. PICK r \in Requests : /\ ~Refused(r)
                               /\ request' = [request EXCEPT ![p] = r]
                               /\ rpc' = [rpc EXCEPT ![p] = FirstMessage(r)]
      BY <1>9 DEF Call, Begin
    <3>2. FirstMessage(r) \in Messages
      BY <3>1, MessageTypes
    <3>3. QED
      BY <3>1, <3>2 DEF TypeOK, RoundsType
  <2>4. calls' \in 0 .. MaxCalls
    BY <1>9, RoundsBoundsAssumption DEF Call, Begin, TypeOK, RoundsType
  <2>5. TypeOK'
    BY <1>9, <2>1, <2>3, <2>4 DEF Call, Begin, Goto, TypeOK, RoundsType, SrvLabels, CltLabels, Items, queues, serverSide, clientSide
  <2>6. ASSUME NEW q \in Procs PROVE WaitInv(q)'
    <3>1. WaitInv(q)
      OBVIOUS
    <3>2. QED
      BY <1>9, <2>1, <2>2, <2>3, <2>4, <3>1 DEF Call, Begin, Goto, WaitInv, Served, Lost, Requested, TypeOK, RoundsType, SrvLabels, CltLabels, Items, queues, serverSide, clientSide
  <2>7. CallInv'
    BY <1>9, <2>1, <2>2, <2>3, <2>4 DEF Call, Begin, Goto, CallInv, TypeOK, RoundsType, SrvLabels, CltLabels, Items, queues, serverSide, clientSide
  <2>8. QED
    BY <2>2, <2>5, <2>6, <2>7
<1>10. ASSUME NEW p \in Procs, CltConnect(p) PROVE QueuesInv'
  <2>1. queue' = queue
    BY <1>10 DEF CltConnect, Advance, Goto, queues, serverSide, clientSide
  <2>2. QueueInv' /\ \A q : InQueue(q)' <=> InQueue(q)
    BY <2>1, SameServerQueue
  <2>3. TypeOK'
    BY <1>10, <2>1 DEF CltConnect, Advance, Goto, TypeOK, RoundsType, SrvLabels, CltLabels, Items, queues, serverSide, clientSide
  <2>4. ASSUME NEW q \in Procs PROVE WaitInv(q)'
    <3>1. WaitInv(q)
      OBVIOUS
    <3>2. QED
      BY <1>10, <2>1, <2>2, <3>1 DEF CltConnect, Advance, Goto, WaitInv, Served, Lost, Requested, TypeOK, RoundsType, SrvLabels, CltLabels, Items, queues, serverSide, clientSide
  <2>5. CallInv'
    BY <1>10, <2>1, <2>2 DEF CltConnect, Advance, Goto, CallInv, TypeOK, RoundsType, SrvLabels, CltLabels, Items, queues, serverSide, clientSide
  <2>6. QED
    BY <2>2, <2>3, <2>4, <2>5
<1>11. ASSUME NEW p \in Procs, CltOpen(p) PROVE QueuesInv'
  <2>1. queue' = queue
    BY <1>11 DEF CltOpen, Advance, Goto, queues, serverSide, clientSide
  <2>2. QueueInv' /\ \A q : InQueue(q)' <=> InQueue(q)
    BY <2>1, SameServerQueue
  <2>3. TypeOK'
    BY <1>11, <2>1 DEF CltOpen, Advance, Goto, TypeOK, RoundsType, SrvLabels, CltLabels, Items, queues, serverSide, clientSide
  <2>4. ASSUME NEW q \in Procs PROVE WaitInv(q)'
    <3>1. WaitInv(q)
      OBVIOUS
    <3>2. QED
      BY <1>11, <2>1, <2>2, <3>1 DEF CltOpen, Advance, Goto, WaitInv, Served, Lost, Requested, TypeOK, RoundsType, SrvLabels, CltLabels, Items, queues, serverSide, clientSide
  <2>5. CallInv'
    BY <1>11, <2>1, <2>2 DEF CltOpen, Advance, Goto, CallInv, TypeOK, RoundsType, SrvLabels, CltLabels, Items, queues, serverSide, clientSide
  <2>6. QED
    BY <2>2, <2>3, <2>4, <2>5
<1>12. ASSUME NEW p \in Procs, CltPut(p) PROVE QueuesInv'
  <2>1. ~InQueue(p) /\ ~Served(p) /\ queue[p] = <<>>
    BY <1>12 DEF CltPut, WaitInv, Lost
  <2>2. rpc[p] \in Messages
    BY <1>12 DEF CltPut, CallInv
  <2>3. CASE p \in opened
    <3>1. [from |-> p, message |-> rpc[p]] \in Items
      BY <2>2 DEF Items, Requested
    <3>2. /\ queue' \in [Owners -> Seq(Items)]
          /\ queue'[Server] = Append(queue[Server], [from |-> p, message |-> rpc[p]])
          /\ \A q \in Procs : queue'[q] = queue[q]
      BY <1>12, <2>3, <3>1, PutQueue DEF CltPut
    <3>3. QueueInv' /\ InQueue(p)' /\ \A q : q # p => (InQueue(q)' <=> InQueue(q))
      BY <2>1, <2>2, <3>2, PutAtServer
    <3>4. TypeOK'
      <4>1. linked' \in SUBSET Owners /\ opened' \in SUBSET Procs
        BY <1>12, <2>3 DEF CltPut, TypeOK
      <4>2. pc' \in [Procs -> CltLabels]
        BY <1>12, <2>3 DEF CltPut, Advance, Goto, TypeOK, CltLabels
      <4>3. QED
        BY <1>12, <2>3, <3>2, <4>1, <4>2 DEF CltPut, Advance, TypeOK, RoundsType, Items, serverSide
    <3>5. ASSUME NEW q \in Procs PROVE WaitInv(q)'
      <4>1. WaitInv(q)
        OBVIOUS
      <4>2. /\ pc' = [pc EXCEPT ![p] = "recv"] /\ pc[p] = "put" /\ UNCHANGED <<kind, serverSide>>
            /\ linked \subseteq linked'
        BY <1>12, <2>3 DEF CltPut, Advance, Goto
      <4>3. CASE q = p
        BY <2>1, <3>2, <3>3, <4>1, <4>2, <4>3 DEF WaitInv, Served, Lost, TypeOK, serverSide
      <4>4. CASE q # p
        BY <3>2, <3>3, <4>1, <4>2, <4>4 DEF WaitInv, Served, Lost, TypeOK, serverSide
      <4>5. QED
        BY <4>3, <4>4
    <3>6. CallInv'
      BY <1>12, <2>2, <2>3 DEF CltPut, Advance, Goto, CallInv, TypeOK, RoundsType, SrvLabels, CltLabels, Items, serverSide
    <3>7. QED
      BY <3>3, <3>4, <3>5, <3>6
  <2>4. CASE p \notin opened
    <3>1. queue' = queue /\ linked' = linked
      BY <1>12, <2>4 DEF CltPut
    <3>2. QueueInv' /\ \A q : InQueue(q)' <=> InQueue(q)
      BY <3>1, SameServerQueue
    <3>3. TypeOK'
      BY <1>12, <2>4 DEF CltPut, Advance, Goto, TypeOK, RoundsType, SrvLabels, CltLabels, Items, serverSide
    <3>4. ASSUME NEW q \in Procs PROVE WaitInv(q)'
      <4>1. WaitInv(q)
        OBVIOUS
      <4>2. QED
        BY <1>12, <2>4, <3>1, <3>2, <4>1 DEF CltPut, Advance, Goto, WaitInv, Served, Lost, TypeOK, serverSide
    <3>5. CallInv'
      BY <1>12, <2>4 DEF CltPut, Advance, Goto, CallInv, TypeOK, RoundsType, SrvLabels, CltLabels, Items, serverSide
    <3>6. QED
      BY <3>2, <3>3, <3>4, <3>5
  <2>5. QED
    BY <2>3, <2>4
<1>13. ASSUME NEW p \in Procs, CltRecv(p) PROVE QueuesInv'
  <2>1. /\ queue' \in [Owners -> Seq(Items)]
        /\ queue'[p] = Tail(queue[p])
        /\ \A q \in Owners \ {p} : queue'[q] = queue[q]
    BY <1>13, TakeQueue DEF CltRecv
  <2>2. QueueInv' /\ \A q : InQueue(q)' <=> InQueue(q)
    BY <2>1, SameServerQueue
  <2>3. queue'[p] = <<>> /\ Head(queue[p]) \in Responses
    BY <1>13, <2>1, OneTaken DEF CltRecv, WaitInv
  <2>4. TypeOK'
    BY <1>13, <2>1, <2>3 DEF CltRecv, Receive, Goto, TypeOK, RoundsType, SrvLabels, CltLabels, Items, queues, serverSide, clientSide
  <2>5. ASSUME NEW q \in Procs PROVE WaitInv(q)'
    <3>1. WaitInv(q)
      OBVIOUS
    <3>2. QED
      BY <1>13, <2>1, <2>2, <2>3, <3>1 DEF CltRecv, Receive, Goto, WaitInv, Served, Lost, Requested, TypeOK, RoundsType, SrvLabels, CltLabels, Items, queues, serverSide, clientSide
  <2>6. CallInv'
    BY <1>13, <2>1, <2>2, <2>3 DEF CltRecv, Receive, Goto, CallInv, TypeOK, RoundsType, SrvLabels, CltLabels, Items, queues, serverSide, clientSide
  <2>7. QED
    BY <2>2, <2>4, <2>5, <2>6
<1>14. ASSUME NEW p \in Procs, CltDisconnect(p) PROVE QueuesInv'
  <2>1. /\ queue' \in [Owners -> Seq(Items)] /\ linked' \in SUBSET Owners
        /\ queue'[p] = <<>>
        /\ \A q \in Owners \ {p} : queue'[q] = queue[q] /\ (q \in linked' <=> q \in linked)
    BY <1>14, RemoveQueue DEF CltDisconnect
  <2>2. QueueInv' /\ \A q : InQueue(q)' <=> InQueue(q)
    BY <2>1, SameServerQueue
  <2>3. request[p] \in Requests
    BY <1>14 DEF CltDisconnect, CallInv
  <2>4. GoesOn(request[p], rpc[p], resp[p]) => AddMessage(request[p]) \in Messages /\ ~Refused(request[p])
    BY <2>3, MessageTypes DEF GoesOn, Refused
  <2>5. /\ rpc' \in [Procs -> Messages \cup {NoMessage}]
        /\ request' \in [Procs -> Requests \cup {Idle}]
        /\ resp' \in [Procs -> Responses \cup {Pending}]
        /\ pc' \in [Procs -> CltLabels] /\ pc'[p] \in {"connect", "idle"}
        /\ \A q \in Procs \ {p} : pc'[q] = pc[q]
    BY <1>14, <2>4 DEF CltDisconnect, NextRound, Goto, TypeOK, RoundsType, SrvLabels, CltLabels, Items
  <2>6. TypeOK'
    BY <1>14, <2>1, <2>3, <2>4, <2>5 DEF CltDisconnect, NextRound, Goto, TypeOK, RoundsType, SrvLabels, CltLabels, Items, queues, serverSide, clientSide
  <2>7. ASSUME NEW q \in Procs PROVE WaitInv(q)'
    <3>1. WaitInv(q)
      OBVIOUS
    <3>2. QED
      BY <1>14, <2>1, <2>2, <2>3, <2>4, <2>5, <3>1 DEF CltDisconnect, NextRound, Goto, WaitInv, Served, Lost, Requested, TypeOK, RoundsType, SrvLabels, CltLabels, Items, queues, serverSide, clientSide
  <2>8. CallInv'
    BY <1>14, <2>1, <2>2, <2>3, <2>4, <2>5 DEF CltDisconnect, NextRound, Goto, CallInv, TypeOK, RoundsType, SrvLabels, CltLabels, Items, queues, serverSide, clientSide
  <2>9. QED
    BY <2>2, <2>6, <2>7, <2>8
<1>15. ASSUME NEW p \in Procs, KillClient(p) PROVE QueuesInv'
  <2>1. queue' = queue
    BY <1>15 DEF KillClient, Advance, Goto, Fault, queues, serverSide, clientSide
  <2>2. QueueInv' /\ \A q : InQueue(q)' <=> InQueue(q)
    BY <2>1, SameServerQueue
  <2>3. faults' \in 0 .. MaxFaults
    BY <1>15, RoundsBoundsAssumption DEF KillClient, Fault, TypeOK, RoundsType
  <2>4. TypeOK'
    BY <1>15, <2>1, <2>3 DEF KillClient, Advance, Goto, Fault, TypeOK, RoundsType, SrvLabels, CltLabels, Items, queues, serverSide, clientSide
  <2>5. ASSUME NEW q \in Procs PROVE WaitInv(q)'
    <3>1. WaitInv(q)
      OBVIOUS
    <3>2. QED
      BY <1>15, <2>1, <2>2, <2>3, <3>1 DEF KillClient, Advance, Goto, Fault, WaitInv, Served, Lost, Requested, TypeOK, RoundsType, SrvLabels, CltLabels, Items, queues, serverSide, clientSide
  <2>6. CallInv'
    BY <1>15, <2>1, <2>2, <2>3 DEF KillClient, Advance, Goto, Fault, CallInv, TypeOK, RoundsType, SrvLabels, CltLabels, Items, queues, serverSide, clientSide
  <2>7. QED
    BY <2>2, <2>4, <2>5, <2>6
<1>16. CASE UNCHANGED vars
  <2>1. QueueInv' /\ \A q : InQueue(q)' <=> InQueue(q)
    BY <1>16, SameServerQueue DEF vars, queues
  <2>2. TypeOK' /\ CallInv'
    BY <1>16 DEF vars, queues, serverSide, clientSide, CallInv, TypeOK, RoundsType, SrvLabels, CltLabels, Items
  <2>3. ASSUME NEW q \in Procs PROVE WaitInv(q)'
    BY <1>16, <2>1 DEF vars, queues, serverSide, clientSide, WaitInv, Served, Lost
  <2>4. QED
    BY <2>1, <2>2, <2>3
<1>17. QED
  BY <1>1, <1>2, <1>3, <1>4, <1>5, <1>6, <1>7, <1>8, <1>9, <1>10, <1>11, <1>12, <1>13, <1>14, <1>15, <1>16
  DEF Next, SrvStep, CltStep

-----------------------------------------------------------------------------
\* A client's messages in the server's queue are still what it waits on if
\* none was put there, and the client asks for what it asked for.
LEMMA StillQueued ==
  ASSUME TypeOK, NEW p \in Procs, Queued(p), queue[Server] \in Seq(Items),
         queue'[Server] = queue[Server]
           \/ queue'[Server] = <<>>
           \/ (queue[Server] # <<>> /\ queue'[Server] = Tail(queue[Server])),
         InQueue(p)' => rpc'[p] = rpc[p]
  PROVE  Queued(p)'
<1>1. ASSUME NEW i \in DOMAIN queue'[Server]
      PROVE  \E j \in DOMAIN queue[Server] : queue'[Server][i] = queue[Server][j]
  <2>1. CASE queue'[Server] = queue[Server]
    BY <2>1
  <2>2. CASE queue'[Server] = <<>>
    BY <2>2
  <2>3. CASE queue[Server] # <<>> /\ queue'[Server] = Tail(queue[Server])
    <3>1. /\ DOMAIN queue'[Server] = 1 .. Len(queue[Server]) - 1
          /\ DOMAIN queue[Server] = 1 .. Len(queue[Server])
          /\ Len(queue[Server]) \in Nat
          /\ \A k \in 1 .. Len(queue[Server]) - 1 : queue'[Server][k] = queue[Server][k + 1]
      BY <2>3, TailIndices
    <3>2. i + 1 \in DOMAIN queue[Server] /\ queue'[Server][i] = queue[Server][i + 1]
      BY <3>1
    <3>3. QED
      BY <3>2
  <2>4. QED
    BY <2>1, <2>2, <2>3
<1>2. QED
  BY <1>1 DEF Queued, InQueue

\* A client that puts its message there has queued what it waits on.
LEMMA NowQueued ==
  ASSUME TypeOK, NEW p \in Procs, NEW q \in Procs, NEW m \in Messages, Queued(p),
         queue'[Server] = Append(queue[Server], [from |-> q, message |-> m]),
         rpc'[p] = rpc[p], p = q => m = rpc[p]
  PROVE  Queued(p)'
<1> DEFINE s == queue[Server]
<1> DEFINE t == queue'[Server]
<1> DEFINE x == [from |-> q, message |-> m]
<1>1. s \in Seq(Items) /\ x \in Items /\ x.from = q /\ x.message = m
  BY DEF TypeOK, Owners, Items, Requested
<1>2. /\ DOMAIN t = 1 .. Len(s) + 1 /\ t[Len(s) + 1] = x
      /\ DOMAIN s = 1 .. Len(s) /\ Len(s) \in Nat
      /\ \A i \in DOMAIN s : t[i] = s[i]
  <2>1. DOMAIN s = 1 .. Len(s) /\ Len(s) \in Nat
    BY <1>1
  <2>2. QED
    BY <1>1, <2>1, AppendIndices
<1>3. \A i \in DOMAIN s : s[i].from = p => s[i].message = rpc[p]
  BY DEF Queued
<1> HIDE DEF s, t, x
<1>4. \A i \in DOMAIN t : \/ i \in DOMAIN s /\ t[i] = s[i]
                          \/ i = Len(s) + 1 /\ t[i] = x
  BY <1>2
<1>5. \A i \in DOMAIN t : t[i].from = p => t[i].message = rpc[p]
  BY <1>1, <1>3, <1>4
<1>6. QED
  BY <1>5 DEF Queued, t

\* Clients without a round have no message and no response.
LEMMA RoundInit == Init => \A p \in Procs : RoundInv(p)
<1>1. SUFFICES ASSUME Init, NEW p \in Procs PROVE RoundInv(p)
  OBVIOUS
<1>2. queue[Server] = <<>>
  BY <1>1 DEF Init, Owners
<1>3. QED
  BY <1>1, <1>2 DEF Init, RoundsInit, RoundInv, Queued

\* Every step keeps messages and responses with their rounds.
LEMMA RoundNext ==
  ASSUME MsgqInv, QueuesInv', [Next]_vars, NEW p \in Procs
  PROVE  RoundInv(p)'
<1> USE DEF MsgqInv, QueuesInv
<1> Server \in Owners /\ Procs \subseteq Owners /\ Server \notin Procs
  BY ServerAssumption DEF Owners
<1>1. RoundInv(p) /\ WaitInv(p) /\ WaitInv(p)' /\ queue[Server] \in Seq(Items)
  BY DEF NothingStale, TypeOK, Items
<1>2. Queued(p) /\ TypeOK
  BY <1>1 DEF RoundInv
<1>3. ASSUME SrvStart \/ SrvStop \/ KillServer PROVE RoundInv(p)'
  <2>1. /\ queue'[Server] = queue[Server] \/ queue'[Server] = <<>>
        /\ rpc' = rpc /\ resp' = resp /\ request' = request
        /\ srv' # "handle"
        /\ pc'[p] = pc[p] \/ pc'[p] = "stuck"
    BY <1>3 DEF SrvStart, SrvStop, KillServer, EndServer, Remove, queues, clientSide, TypeOK
  <2>2. Queued(p)'
    BY <1>1, <1>2, <2>1, StillQueued
  <2>3. QED
    BY <1>1, <2>1, <2>2 DEF RoundInv
<1>4. ASSUME SrvConnect \/ SrvHandle \/ SrvLook PROVE RoundInv(p)'
  <2>1. queue' = queue /\ UNCHANGED clientSide /\ srv' # "handle"
    BY <1>4 DEF SrvConnect, SrvHandle, Handle, SrvLook, queues
  <2>2. Queued(p)'
    BY <1>1, <1>2, <2>1, StillQueued DEF clientSide
  <2>3. QED
    BY <1>1, <2>1, <2>2 DEF RoundInv, clientSide
<1>5. ASSUME SrvRecv PROVE RoundInv(p)'
  <2>1. /\ queue[Server] # <<>> /\ queue'[Server] = Tail(queue[Server])
        /\ serving' = Head(queue[Server]) /\ UNCHANGED clientSide
    BY <1>5 DEF SrvRecv, TypeOK
  <2>2. Queued(p)'
    BY <1>1, <1>2, <2>1, StillQueued DEF clientSide
  <2>3. 1 \in DOMAIN queue[Server] /\ Head(queue[Server]) = queue[Server][1]
    BY <1>1, <2>1, TailIndices
  <2>4. serving'.from = p => serving'.message = rpc[p]
    BY <1>2, <2>1, <2>3 DEF Queued
  <2>5. QED
    BY <1>1, <2>1, <2>2, <2>4 DEF RoundInv, clientSide
<1>6. ASSUME SrvSend PROVE RoundInv(p)'
  <2>1. serving.from \in Procs /\ srv' # "handle"
    BY <1>6 DEF SrvSend, EndServer, CallInv, Requested
  <2>2. /\ queue'[Server] = queue[Server]
        /\ rpc' = rpc /\ resp' = resp /\ request' = request
        /\ pc'[p] = pc[p] \/ pc'[p] = "stuck"
    BY <1>6, <2>1 DEF SrvSend, EndServer, Put, TypeOK, clientSide
  <2>3. Queued(p)'
    BY <1>1, <1>2, <2>2, StillQueued
  <2>4. QED
    BY <1>1, <2>1, <2>2, <2>3 DEF RoundInv
<1>7. ASSUME NEW c \in Procs, Call(c) PROVE RoundInv(p)'
  <2>1. queue' = queue /\ resp' = resp /\ srv' = srv /\ serving' = serving
        /\ pc[c] = "idle" /\ pc' = [pc EXCEPT ![c] = "connect"]
        /\ \A q \in Procs \ {c} : rpc'[q] = rpc[q] /\ request'[q] = request[q]
    BY <1>7 DEF Call, Begin, Goto, queues, serverSide, TypeOK, RoundsType
  <2>2. p = c => ~InQueue(p) /\ ~InQueue(p)' /\ ~Served(p)
    BY <1>1, <2>1 DEF WaitInv, Lost, InQueue
  <2>3. Queued(p)'
    BY <1>1, <1>2, <2>1, <2>2, StillQueued
  <2>4. QED
    BY <1>1, <2>1, <2>2, <2>3 DEF RoundInv, Served, TypeOK
<1>8. ASSUME NEW c \in Procs, CltConnect(c) \/ CltOpen(c) \/ KillClient(c) PROVE RoundInv(p)'
  <2>1. /\ queue' = queue /\ srv' = srv /\ serving' = serving
        /\ rpc' = rpc /\ resp' = resp /\ request' = request
        /\ pc'[p] = pc[p] \/ pc'[p] \in {"open", "put", "exited"}
        /\ pc'[p] \in {"open", "put"} /\ pc'[p] # pc[p] => pc[p] \in {"connect", "open"}
    BY <1>8 DEF CltConnect, CltOpen, KillClient, Advance, Goto, queues, serverSide, TypeOK
  <2>2. Queued(p)'
    BY <1>1, <1>2, <2>1, StillQueued
  <2>3. QED
    BY <1>1, <2>1, <2>2 DEF RoundInv
<1>9. ASSUME NEW c \in Procs, CltPut(c) PROVE RoundInv(p)'
  <2>1. /\ srv' = srv /\ serving' = serving /\ pc[c] = "put"
        /\ rpc' = rpc /\ resp' = resp /\ request' = request
        /\ pc'[p] = pc[p] \/ (p = c /\ pc'[p] \in {"recv", "exited", "stuck"})
    BY <1>9 DEF CltPut, Advance, Goto, serverSide, TypeOK
  <2>2. Queued(p)'
    <3>1. CASE c \in opened
      <4>1. rpc[c] \in Messages
        BY <2>1 DEF CallInv
      <4>2. queue'[Server] = Append(queue[Server], [from |-> c, message |-> rpc[c]])
        BY <1>9, <3>1 DEF CltPut, Put, TypeOK
      <4>3. QED
        BY <1>2, <2>1, <4>1, <4>2, NowQueued
    <3>2. CASE c \notin opened
      BY <1>1, <1>2, <1>9, <2>1, <3>2, StillQueued DEF CltPut
    <3>3. QED
      BY <3>1, <3>2
  <2>3. QED
    BY <1>1, <2>1, <2>2 DEF RoundInv
<1>10. ASSUME NEW c \in Procs, CltRecv(c) PROVE RoundInv(p)'
  <2>1. /\ srv' = srv /\ serving' = serving /\ rpc' = rpc /\ request' = request
        /\ queue'[Server] = queue[Server]
        /\ pc' = [pc EXCEPT ![c] = "disconnect"]
        /\ resp' = [resp EXCEPT ![c] = Head(queue[c])]
    BY <1>10 DEF CltRecv, Receive, Goto, serverSide, TypeOK
  <2>2. Head(queue[c]) \in Responses
    BY <1>10, OneTaken DEF CltRecv, NothingStale, WaitInv
  <2>3. Queued(p)'
    BY <1>1, <1>2, <2>1, StillQueued
  <2>4. QED
    BY <1>1, <2>1, <2>2, <2>3 DEF RoundInv, TypeOK, RoundsType
<1>11. ASSUME NEW c \in Procs, CltDisconnect(c) PROVE RoundInv(p)'
  <2>1. /\ srv' = srv /\ serving' = serving /\ pc[c] = "disconnect"
        /\ queue'[Server] = queue[Server]
        /\ resp' = [resp EXCEPT ![c] = Pending]
        /\ \A q \in Procs \ {c} : rpc'[q] = rpc[q] /\ request'[q] = request[q] /\ pc'[q] = pc[q]
        /\ pc'[c] = "connect" \/ (pc'[c] = "idle" /\ request'[c] = Idle)
    BY <1>11 DEF CltDisconnect, NextRound, Remove, Goto, serverSide, TypeOK, RoundsType
  <2>2. p = c => ~InQueue(p) /\ ~InQueue(p)' /\ ~Served(p)
    BY <1>1, <2>1 DEF WaitInv, Lost, InQueue
  <2>3. Queued(p)'
    BY <1>1, <1>2, <2>1, <2>2, StillQueued
  <2>4. QED
    BY <1>1, <2>1, <2>2, <2>3 DEF RoundInv, Served, TypeOK, RoundsType
<1>12. CASE UNCHANGED vars
  <2>1. Queued(p)'
    BY <1>1, <1>2, <1>12, StillQueued DEF vars, queues, clientSide
  <2>2. QED
    BY <1>1, <1>12, <2>1 DEF vars, queues, serverSide, clientSide, RoundInv
<1>13. QED
  BY <1>3, <1>4, <1>5, <1>6, <1>7, <1>8, <1>9, <1>10, <1>11, <1>12 DEF Next, SrvStep, CltStep

\* The invariant holds before the server is started.
LEMMA MsgqInit == Init => MsgqInv
  BY QueuesInit, RoundInit DEF MsgqInv

\* Every step preserves the invariant.
LEMMA MsgqNext == MsgqInv /\ [Next]_vars => MsgqInv'
<1>1. SUFFICES ASSUME MsgqInv, [Next]_vars PROVE MsgqInv'
  OBVIOUS
<1>2. QueuesInv'
  BY <1>1, QueuesNext DEF MsgqInv
<1>3. \A p \in Procs : RoundInv(p)'
  BY <1>1, <1>2, RoundNext
<1>4. QED
  BY <1>2, <1>3 DEF MsgqInv

-----------------------------------------------------------------------------
\* Types, and the turns of the clients with the queues, hold in every state,
\* for both backends.
THEOREM MsgqCorrect == Spec => []MsgqInv
<1>1. Init => MsgqInv
  BY MsgqInit
<1>2. MsgqInv /\ [Next]_vars => MsgqInv'
  BY MsgqNext
<1>3. QED
  BY <1>1, <1>2, PTL DEF Spec

\* No queue keeps anything of an earlier round (msgqSysV.c:58).
THEOREM NothingIsStale == Spec => []NothingStale
<1>1. MsgqInv => NothingStale
  BY DEF MsgqInv, QueuesInv
<1>2. QED
  BY <1>1, MsgqCorrect, PTL

\* What the server sends has room in a queue that is there.
LEMMA RoomForAnswer == MsgqInv => AnswerHasRoom
<1>1. SUFFICES ASSUME MsgqInv, srv = "send"
      PROVE  queue[serving.from] = <<>> /\ (kind = "posix" => serving.from \in linked)
  BY DEF AnswerHasRoom
<1>2. serving.from \in Procs /\ Served(serving.from)
  BY <1>1 DEF MsgqInv, QueuesInv, CallInv, Requested, Served
<1>3. WaitInv(serving.from)
  BY <1>1, <1>2 DEF MsgqInv, QueuesInv, NothingStale
<1>4. QED
  BY <1>2, <1>3 DEF WaitInv

\* The server's answer never blocks and never ends it (msgqPosix.c:62, :144).
THEOREM AnswersHaveRoom == Spec => []AnswerHasRoom
<1>1. QED
  BY RoomForAnswer, MsgqCorrect, PTL

\* Only a stop or a kill of the server ends it.
THEOREM OnlyFaultsStop == Spec => OnlyFaultsStopServer
<1>1. ASSUME MsgqInv, [Next]_vars
      PROVE  [srv # "down" /\ srv' = "down" => faults' > faults]_vars
  <2>1. SUFFICES ASSUME Next, srv # "down", srv' = "down" PROVE faults' > faults
    BY <1>1
  <2>2. faults \in Nat
    BY <1>1 DEF MsgqInv, QueuesInv, TypeOK, RoundsType
  <2>3. CASE SrvStop \/ KillServer
    BY <2>2, <2>3 DEF SrvStop, KillServer, Fault
  <2>4. CASE SrvSend
    BY <1>1, <2>1, <2>4, RoomForAnswer DEF SrvSend, AnswerHasRoom
  <2>5. CASE \/ SrvStart \/ SrvConnect \/ SrvRecv \/ SrvHandle \/ SrvLook
             \/ \E p \in Procs : Call(p) \/ CltStep(p) \/ KillClient(p)
    BY <2>1, <2>5
       DEF SrvStart, SrvConnect, SrvRecv, SrvHandle, Handle, SrvLook, Call, CltStep, CltConnect,
           CltOpen, CltPut, CltRecv, CltDisconnect, KillClient, serverSide
  <2>6. QED
    BY <2>1, <2>3, <2>4, <2>5 DEF Next, SrvStep
<1>2. QED
  BY <1>1, MsgqCorrect, PTL DEF Spec, OnlyFaultsStopServer

-----------------------------------------------------------------------------
\* What StockServer_proofs says of a step, about the clients as seen here.
Facts == INSTANCE StockServer_proofs
           WITH request <- RequestNow, rpc <- RpcNow, resp <- RespNow

\* The views are functions, and the constants are as assumed here.
LEMMA Viewed ==
  /\ Facts!Views /\ Facts!Views'
  /\ IntMax \in Nat /\ Quantities \subseteq Facts!Ints /\ Absent \notin Int
  BY IntMaxAssumption, QuantitiesAssumption, AbsentAssumption
     DEF Facts!Views, RequestNow, RpcNow, RespNow, Facts!Ints, Ints

\* Both instances have the data of this module, and the same steps.
LEMMA SameData ==
  /\ Facts!Requests = Requests
  /\ \A r : /\ Facts!Refused(r) <=> Refused(r)
            /\ Facts!FirstMessage(r) = FirstMessage(r) /\ Facts!AddMessage(r) = AddMessage(r)
            /\ \A m, x : Facts!GoesOn(r, m, x) <=> GoesOn(r, m, x)
  /\ \A m, x : /\ Facts!HoldsAfter(m, x) = HoldsAfter(m, x)
               /\ Facts!ResponseTo(m, x) = ResponseTo(m, x)
  BY DEF Facts!Requests, Requests, Facts!Refused, Refused, Facts!FirstMessage, FirstMessage,
         Facts!AddMessage, AddMessage, Facts!Message, Message, Facts!Delta, Delta,
         Facts!GoesOn, GoesOn, Facts!HoldsAfter, HoldsAfter, Facts!Wrap, Wrap,
         Facts!ResponseTo, ResponseTo

\* A step of the one instance is a step of the other.
LEMMA SameSteps == Facts!ServerNext => Service!ServerNext
  BY DEF Facts!ServerNext, Service!ServerNext, Facts!Forget, Service!Forget, Facts!Call, Service!Call,
         Facts!Serve, Service!Serve, Facts!Answer, Service!Answer, Facts!Die, Service!Die,
         Facts!ServeDead, Service!ServeDead, Facts!Lose, Service!Lose, Facts!Dead, Service!Dead,
         Facts!Requests, Service!Requests, Facts!Refused, Service!Refused,
         Facts!FirstMessage, Service!FirstMessage, Facts!AddMessage, Service!AddMessage,
         Facts!Message, Service!Message, Facts!Delta, Service!Delta, Facts!GoesOn, Service!GoesOn,
         Facts!HoldsAfter, Service!HoldsAfter, Facts!Wrap, Service!Wrap,
         Facts!ResponseTo, Service!ResponseTo

-----------------------------------------------------------------------------
\* The three views, case by case.
LEMMA Seen ==
  ASSUME NEW q \in Procs
  PROVE  /\ RequestNow[q] = IF Lost(q) THEN Gone ELSE request[q]
         /\ RpcNow[q] = IF Lost(q) /\ ~InFlight(q) THEN NoMessage ELSE rpc[q]
         /\ RespNow[q] = IF Lost(q) THEN Pending
                     ELSE IF srv = "send" /\ serving.from = q THEN answer
                     ELSE IF queue[q] # <<>> THEN Head(queue[q])
                     ELSE resp[q]
  BY DEF RequestNow, RpcNow, RespNow

\* The same after the step.
LEMMA SeenThen ==
  ASSUME NEW q \in Procs
  PROVE  /\ RequestNow'[q] = IF Lost(q)' THEN Gone ELSE request'[q]
         /\ RpcNow'[q] = IF Lost(q)' /\ ~InFlight(q)' THEN NoMessage ELSE rpc'[q]
         /\ RespNow'[q] = IF Lost(q)' THEN Pending
                      ELSE IF srv' = "send" /\ serving'.from = q THEN answer'
                      ELSE IF queue'[q] # <<>> THEN Head(queue'[q])
                      ELSE resp'[q]
  BY DEF RequestNow, RpcNow, RespNow

\* Before the server is started nobody waits for anything.
LEMMA InitRefines == Init => Service!ServerInit
<1>1. SUFFICES ASSUME Init PROVE Service!ServerInit
  OBVIOUS
<1>2. \A q \in Procs : queue[q] = <<>>
  BY <1>1 DEF Init, Owners
<1>3. ASSUME NEW q \in Procs PROVE RequestNow[q] = Idle /\ RpcNow[q] = NoMessage /\ RespNow[q] = Pending
  BY <1>1, <1>2, Seen DEF Init, RoundsInit, Lost
<1>4. QED
  BY <1>1, <1>3 DEF Init, RoundsInit, Service!ServerInit, RequestNow, RpcNow, RespNow

\* A client that waits for the server has no response yet, and nobody but a
\* client in a call has a message.
LEMMA RoundFacts ==
  ASSUME MsgqInv, NEW q \in Procs
  PROVE  /\ RoundInv(q) /\ WaitInv(q) /\ QueueInv /\ TypeOK /\ CallInv
         /\ Procs \subseteq Owners /\ Server \in Owners \ Procs
         /\ ~Lost(q) => RequestNow[q] # Gone
         /\ InFlight(q) => rpc[q] \in Messages
  <1>1. RoundInv(q) /\ WaitInv(q) /\ QueueInv /\ TypeOK /\ CallInv
    BY DEF MsgqInv, QueuesInv, NothingStale
  <1>2. ~Lost(q) => RequestNow[q] # Gone
    BY <1>1, Seen, RoundsValuesAssumption DEF TypeOK, RoundsType
  <1>3. InFlight(q) => rpc[q] \in Messages
    <2>1. CASE InQueue(q)
      <3>1. PICK i \in DOMAIN queue[Server] : queue[Server][i].from = q
        BY <2>1 DEF InQueue
      <3>2. queue[Server][i] \in Requested /\ queue[Server][i].message = rpc[q]
        BY <1>1, <3>1 DEF QueueInv, RoundInv, Queued
      <3>3. QED
        BY <3>2 DEF Requested
    <2>2. CASE srv = "handle" /\ serving.from = q
      BY <1>1, <2>2 DEF RoundInv, CallInv, Requested
    <2>3. QED
      BY <2>1, <2>2 DEF InFlight
  <1>4. QED
    BY <1>1, <1>2, <1>3, ServerAssumption DEF Owners

\* Every step of Msgq is a step of StockServer.
LEMMA StepRefines ==
  ASSUME MsgqInv, MsgqInv', Next
  PROVE  Facts!ServerNext
<1> USE DEF Lost
<1>1. \A q \in Procs : /\ RoundInv(q) /\ WaitInv(q) /\ RoundInv(q)' /\ WaitInv(q)'
                       /\ ~Lost(q) => RequestNow[q] # Gone
  BY RoundFacts DEF MsgqInv, QueuesInv, NothingStale
<1>2. QueueInv /\ TypeOK /\ CallInv /\ Procs \subseteq Owners /\ Server \in Owners \ Procs
  BY ServerAssumption DEF MsgqInv, QueuesInv, NothingStale, Owners
<1>3. ASSUME SrvStart PROVE Facts!ServerNext
  <2>1. UNCHANGED <<stock, clientSide>> /\ srv = "down" /\ srv' = "connect"
    BY <1>3 DEF SrvStart
  <2>2. queue'[Server] = <<>> /\ \A q \in Procs : queue'[q] = queue[q]
    BY <1>2, <1>3 DEF SrvStart, Remove, TypeOK
  <2>3. \A q \in Procs : ~InFlight(q)'
    BY <2>1, <2>2, EmptyServerQueue DEF InFlight
  <2>4. \A q \in Procs : /\ RequestNow'[q] = RequestNow[q] /\ RespNow'[q] = RespNow[q]
                         /\ RpcNow'[q] = RpcNow[q] \/ (RequestNow[q] = Gone /\ RpcNow'[q] = NoMessage)
    BY <2>1, <2>2, <2>3, Seen, SeenThen DEF clientSide
  <2>5. QED
    BY <2>1, <2>4, Facts!QuietStep, Viewed
<1>4. ASSUME SrvConnect \/ SrvLook PROVE Facts!ServerNext
  <2>1. UNCHANGED <<stock, clientSide, queue>> /\ srv' \notin {"handle", "send"} /\ srv \notin {"handle", "send"}
    BY <1>4 DEF SrvConnect, SrvLook
  <2>2. \A q \in Procs : InFlight(q)' <=> InFlight(q)
    BY <1>2, <2>1, SameServerQueue DEF InFlight
  <2>3. \A q \in Procs : RequestNow'[q] = RequestNow[q] /\ RespNow'[q] = RespNow[q] /\ RpcNow'[q] = RpcNow[q]
    BY <2>1, <2>2, Seen, SeenThen DEF clientSide
  <2>4. QED
    BY <2>1, <2>3, Facts!QuietStep, Viewed
<1>5. ASSUME SrvRecv PROVE Facts!ServerNext
  <2>1. /\ UNCHANGED <<stock, clientSide>> /\ srv = "recv" /\ srv' = "handle"
        /\ serving' = Head(queue[Server]) /\ queue[Server] # <<>>
        /\ queue'[Server] = Tail(queue[Server]) /\ \A q \in Procs : queue'[q] = queue[q]
    BY <1>2, <1>5 DEF SrvRecv, TypeOK
  <2>2. \A q \in Procs : InFlight(q)' <=> InFlight(q)
    BY <1>2, <2>1, TakenFromServer DEF InFlight
  <2>3. \A q \in Procs : RequestNow'[q] = RequestNow[q] /\ RespNow'[q] = RespNow[q] /\ RpcNow'[q] = RpcNow[q]
    BY <2>1, <2>2, Seen, SeenThen DEF clientSide
  <2>4. QED
    BY <2>1, <2>3, Facts!QuietStep, Viewed
<1>6. ASSUME SrvHandle PROVE Facts!ServerNext
  <2> DEFINE p == serving.from
  <2> DEFINE m == serving.message
  <2>1. /\ UNCHANGED <<clientSide, queue, serving>> /\ srv = "handle" /\ srv' = "send"
        /\ stock' = [stock EXCEPT ![m.name] = HoldsAfter(m, @)]
        /\ answer' = ResponseTo(m, stock[m.name])
    BY <1>6 DEF SrvHandle, Handle, queues
  <2>2. p \in Procs /\ m \in Messages /\ m = rpc[p] /\ m # NoMessage
    <3>1. p \in Procs /\ m \in Messages
      BY <1>2, <2>1 DEF CallInv, Requested
    <3>2. m = rpc[p]
      BY <1>1, <2>1, <3>1 DEF RoundInv
    <3>3. QED
      BY <3>1, <3>2, RoundsValuesAssumption
  <2>3. ~InQueue(p) /\ queue[p] = <<>> /\ (Lost(p) \/ (pc[p] = "recv" /\ resp[p] = Pending))
    BY <1>1, <2>1, <2>2 DEF WaitInv, RoundInv, Served
  <2>4. InFlight(p) /\ ~InFlight(p)' /\ \A q \in Procs \ {p} : InFlight(q)' <=> InFlight(q)
    BY <1>2, <2>1, <2>3, SameServerQueue DEF InFlight
  <2>5. /\ RpcNow[p] = m
        /\ \A q \in Procs : RequestNow'[q] = RequestNow[q]
        /\ \A q \in Procs \ {p} : RespNow'[q] = RespNow[q] /\ RpcNow'[q] = RpcNow[q]
    BY <2>1, <2>2, <2>4, Seen, SeenThen DEF clientSide
  <2>6. CASE Lost(p)
    <3>1. RequestNow[p] = Gone /\ RpcNow'[p] = NoMessage /\ RespNow'[p] = RespNow[p]
      BY <2>1, <2>2, <2>4, <2>6, Seen, SeenThen DEF clientSide
    <3>2. QED
      BY <2>1, <2>2, <2>5, <3>1, Facts!ServeStep, Viewed, SameData
  <2>7. CASE ~Lost(p)
    <3>1. /\ RequestNow[p] # Gone /\ RespNow[p] = Pending /\ RpcNow'[p] = RpcNow[p]
          /\ RespNow'[p] = ResponseTo(m, stock[m.name])
      BY <1>1, <2>1, <2>2, <2>3, <2>7, Seen, SeenThen DEF clientSide
    <3>2. QED
      BY <2>1, <2>2, <2>5, <3>1, Facts!ServeStep, Viewed, SameData
  <2>8. QED
    BY <2>6, <2>7
<1>7. ASSUME SrvSend PROVE Facts!ServerNext
  <2> DEFINE c == serving.from
  <2>1. /\ srv = "send" /\ c \in Procs /\ queue[c] = <<>>
        /\ answer \in Responses /\ answer \in Items
        /\ ~(kind = "posix" /\ c \notin linked)
    BY <1>1, <1>2, <1>7 DEF SrvSend, CallInv, Requested, Items, WaitInv, Served
  <2>2. /\ UNCHANGED <<stock, clientSide>> /\ srv' \notin {"handle", "send"}
        /\ Put(c, answer)
    BY <1>7, <2>1 DEF SrvSend
  <2>3. queue'[c] = Append(queue[c], answer) /\ \A q \in Owners \ {c} : queue'[q] = queue[q]
    BY <1>2, <2>1, <2>2, PutQueue
  <2>4. queue'[c] # <<>> /\ Head(queue'[c]) = answer
    <3>1. queue'[c] = Append(<<>>, answer)
      BY <2>1, <2>3
    <3>2. QED
      BY <3>1
  <2>5. \A q \in Procs : InFlight(q)' <=> InFlight(q)
    BY <1>2, <2>1, <2>2, <2>3, SameServerQueue DEF InFlight
  <2>6. ASSUME NEW q \in Procs PROVE RequestNow'[q] = RequestNow[q] /\ RespNow'[q] = RespNow[q] /\ RpcNow'[q] = RpcNow[q]
    <3>1. CASE q = c
      BY <2>1, <2>2, <2>4, <2>5, <3>1, Seen, SeenThen DEF clientSide
    <3>2. CASE q # c
      BY <1>2, <2>1, <2>2, <2>3, <2>5, <3>2, Seen, SeenThen DEF clientSide
    <3>3. QED
      BY <3>1, <3>2
  <2>7. QED
    BY <2>2, <2>6, Facts!QuietStep, Viewed
<1>8. ASSUME SrvStop \/ KillServer PROVE Facts!ServerNext
  <2>1. /\ stock' = stock /\ request' = request /\ rpc' = rpc /\ resp' = resp
        /\ srv' = "down"
        /\ pc' = [p \in Procs |-> IF srv = "send" /\ serving.from = p /\ pc[p] = "recv" THEN "stuck" ELSE pc[p]]
        /\ queue'[Server] = queue[Server] \/ queue'[Server] = <<>>
        /\ \A q \in Procs : queue'[q] = queue[q]
    BY <1>2, <1>8 DEF SrvStop, KillServer, EndServer, Remove, queues, TypeOK
  <2>2. \A q \in Procs : InFlight(q)' => InFlight(q)
    BY <1>2, <2>1, SameServerQueue, EmptyServerQueue DEF InFlight
  <2>3. ASSUME NEW c \in Procs, srv = "send", serving.from = c, pc[c] = "recv"
        PROVE  Facts!ServerNext
    <3>1. ~InFlight(c) /\ queue[c] = <<>> /\ pc'[c] = "stuck"
      BY <1>1, <2>1, <2>3 DEF InFlight, WaitInv, Served
    <3>2. RequestNow[c] # Gone /\ RequestNow'[c] = Gone /\ RespNow'[c] = Pending /\ RpcNow'[c] = NoMessage
      <4>1. c \in Procs /\ ~Lost(c) /\ Lost(c)' /\ ~InFlight(c)'
        BY <2>2, <2>3, <3>1
      <4>2. QED
        BY <1>1, <4>1, SeenThen
    <3>3. ASSUME NEW q \in Procs \ {c}
          PROVE  /\ RequestNow'[q] = RequestNow[q] /\ RespNow'[q] = RespNow[q]
                 /\ RpcNow'[q] = RpcNow[q] \/ (RequestNow[q] = Gone /\ RpcNow'[q] = NoMessage)
      BY <2>1, <2>2, <2>3, Seen, SeenThen
    <3>4. QED
      BY <2>1, <2>3, <3>2, <3>3, Facts!DieStep, Viewed
  <2>4. CASE ~(srv = "send" /\ serving.from \in Procs /\ pc[serving.from] = "recv")
    <3>1. \A q \in Procs : pc'[q] = pc[q]
      BY <2>1, <2>4
    <3>2. \A q \in Procs : srv = "send" /\ serving.from = q => Lost(q)
      BY <1>1, <2>4 DEF WaitInv, Served
    <3>3. ASSUME NEW q \in Procs
          PROVE  /\ RequestNow'[q] = RequestNow[q] /\ RespNow'[q] = RespNow[q]
                 /\ RpcNow'[q] = RpcNow[q] \/ (RequestNow[q] = Gone /\ RpcNow'[q] = NoMessage)
      BY <2>1, <2>2, <3>1, <3>2, Seen, SeenThen
    <3>4. QED
      BY <2>1, <3>3, Facts!QuietStep, Viewed
  <2>5. QED
    BY <2>3, <2>4
<1>9. ASSUME NEW p \in Procs, Call(p) PROVE Facts!ServerNext
  <2>1. PICK r \in Requests : /\ ~Refused(r)
                              /\ request' = [request EXCEPT ![p] = r]
                              /\ rpc' = [rpc EXCEPT ![p] = FirstMessage(r)]
    BY <1>9 DEF Call, Begin
  <2>2. /\ UNCHANGED <<queue, serverSide, resp>> /\ pc[p] = "idle" /\ pc' = [pc EXCEPT ![p] = "connect"]
        /\ request[p] = Idle
    BY <1>1, <1>9 DEF Call, Begin, Goto, queues, RoundInv
  <2>3. \A q \in Procs : InFlight(q)' <=> InFlight(q)
    BY <1>2, <2>2, SameServerQueue DEF InFlight, serverSide
  <2>4. /\ \A q \in Procs : pc'[q] = IF q = p THEN "connect" ELSE pc[q]
        /\ \A q \in Procs : request'[q] = IF q = p THEN r ELSE request[q]
        /\ \A q \in Procs : rpc'[q] = IF q = p THEN FirstMessage(r) ELSE rpc[q]
    BY <1>2, <2>1, <2>2 DEF TypeOK, RoundsType
  <2>5. RequestNow[p] = Idle /\ RequestNow'[p] = r /\ RpcNow'[p] = FirstMessage(r) /\ RespNow'[p] = RespNow[p]
    BY <2>2, <2>3, <2>4, Seen, SeenThen DEF serverSide
  <2>6. \A q \in Procs \ {p} : RequestNow'[q] = RequestNow[q] /\ RpcNow'[q] = RpcNow[q] /\ RespNow'[q] = RespNow[q]
    BY <2>2, <2>3, <2>4, Seen, SeenThen DEF serverSide
  <2>7. stock' = stock
    BY <2>2 DEF serverSide
  <2>8. QED
    BY <2>1, <2>5, <2>6, <2>7, Facts!CallStep, Viewed, SameData
<1>10. ASSUME NEW p \in Procs,
              CltConnect(p) \/ CltOpen(p) \/ (CltPut(p) /\ p \notin opened) \/ KillClient(p)
       PROVE  Facts!ServerNext
  <2>1. /\ UNCHANGED <<serverSide, queue, request, rpc, resp>>
        /\ \A q \in Procs \ {p} : pc'[q] = pc[q]
        /\ Lost(p) => Lost(p)'
    BY <1>2, <1>10 DEF CltConnect, CltOpen, CltPut, KillClient, Advance, Goto, queues, TypeOK
  <2>2. \A q \in Procs : InFlight(q)' <=> InFlight(q)
    BY <1>2, <2>1, SameServerQueue DEF InFlight, serverSide
  <2>3. \A q \in Procs \ {p} : RequestNow'[q] = RequestNow[q] /\ RespNow'[q] = RespNow[q] /\ RpcNow'[q] = RpcNow[q]
    BY <2>1, <2>2, Seen, SeenThen DEF serverSide
  <2>4. stock' = stock
    BY <2>1 DEF serverSide
  <2>5. CASE Lost(p) <=> Lost(p)'
    <3>1. RequestNow'[p] = RequestNow[p] /\ RespNow'[p] = RespNow[p] /\ RpcNow'[p] = RpcNow[p]
      BY <2>1, <2>2, <2>5, Seen, SeenThen DEF serverSide
    <3>2. \A q \in Procs : RequestNow'[q] = RequestNow[q] /\ RespNow'[q] = RespNow[q] /\ RpcNow'[q] = RpcNow[q]
      BY <2>3, <3>1
    <3>3. QED
      BY <2>4, <3>2, Facts!QuietStep, Viewed
  <2>6. CASE ~Lost(p) /\ Lost(p)'
    <3>1. RespNow[p] # Pending => ~InFlight(p)
      <4>1. CASE srv = "send" /\ serving.from = p
        BY <1>1, <4>1 DEF InFlight, WaitInv, Served
      <4>2. CASE queue[p] # <<>>
        BY <1>1, <4>2 DEF InFlight, WaitInv, Served
      <4>3. CASE ~(srv = "send" /\ serving.from = p) /\ queue[p] = <<>>
        <5>1. SUFFICES ASSUME resp[p] # Pending PROVE ~InFlight(p)
          BY <2>6, <4>3, Seen
        <5>2. pc[p] = "disconnect"
          BY <1>1, <1>2, <2>6, <5>1 DEF RoundInv, TypeOK, CltLabels
        <5>3. QED
          BY <1>1, <5>2 DEF InFlight, WaitInv, Served
      <4>4. QED
        BY <4>1, <4>2, <4>3
    <3>2. RequestNow[p] # Gone /\ RequestNow'[p] = Gone /\ RespNow'[p] = Pending
      BY <1>1, <2>6, SeenThen
    <3>3. IF InFlight(p) THEN RpcNow'[p] = RpcNow[p] ELSE RpcNow'[p] = NoMessage
      BY <2>1, <2>2, <2>6, Seen, SeenThen
    <3>4. QED
      BY <2>3, <2>4, <3>1, <3>2, <3>3, Facts!DieStep, Viewed
  <2>7. QED
    BY <2>1, <2>5, <2>6
<1>11. ASSUME NEW p \in Procs, CltPut(p), p \in opened PROVE Facts!ServerNext
  <2>1. /\ UNCHANGED <<serverSide, request, rpc, resp>> /\ pc[p] = "put" /\ pc'[p] = "recv"
        /\ \A q \in Procs \ {p} : pc'[q] = pc[q]
        /\ queue'[Server] = Append(queue[Server], [from |-> p, message |-> rpc[p]])
        /\ \A q \in Procs : queue'[q] = queue[q]
    BY <1>2, <1>11 DEF CltPut, Advance, Goto, Put, TypeOK
  <2>2. rpc[p] \in Messages /\ ~InQueue(p)
    BY <1>1, <1>2, <2>1 DEF CallInv, WaitInv
  <2>3. \A q \in Procs \ {p} : InFlight(q)' <=> InFlight(q)
    BY <1>2, <2>1, <2>2, PutAtServer DEF InFlight, serverSide
  <2>4. ASSUME NEW q \in Procs PROVE RequestNow'[q] = RequestNow[q] /\ RespNow'[q] = RespNow[q] /\ RpcNow'[q] = RpcNow[q]
    BY <2>1, <2>3, Seen, SeenThen DEF serverSide
  <2>5. stock' = stock
    BY <2>1 DEF serverSide
  <2>6. QED
    BY <2>4, <2>5, Facts!QuietStep, Viewed
<1>12. ASSUME NEW p \in Procs, CltRecv(p) PROVE Facts!ServerNext
  <2>1. /\ UNCHANGED <<serverSide, request, rpc>> /\ pc[p] = "recv" /\ pc'[p] = "disconnect"
        /\ queue[p] # <<>> /\ queue'[p] = Tail(queue[p]) /\ resp'[p] = Head(queue[p])
        /\ \A q \in Owners \ {p} : queue'[q] = queue[q]
        /\ \A q \in Procs \ {p} : pc'[q] = pc[q] /\ resp'[q] = resp[q]
    BY <1>2, <1>12 DEF CltRecv, Receive, Goto, TypeOK, RoundsType
  <2>2. queue'[p] = <<>> /\ ~Served(p)
    BY <1>1, <2>1, OneTaken DEF WaitInv
  <2>3. \A q \in Procs : InFlight(q)' <=> InFlight(q)
    BY <1>2, <2>1, SameServerQueue DEF InFlight, serverSide
  <2>4. RequestNow'[p] = RequestNow[p] /\ RespNow'[p] = RespNow[p] /\ RpcNow'[p] = RpcNow[p]
    BY <2>1, <2>2, <2>3, Seen, SeenThen DEF serverSide, Served
  <2>5. \A q \in Procs \ {p} : RequestNow'[q] = RequestNow[q] /\ RespNow'[q] = RespNow[q] /\ RpcNow'[q] = RpcNow[q]
    BY <1>2, <2>1, <2>3, Seen, SeenThen DEF serverSide
  <2>6. \A q \in Procs : RequestNow'[q] = RequestNow[q] /\ RespNow'[q] = RespNow[q] /\ RpcNow'[q] = RpcNow[q]
    BY <2>4, <2>5
  <2>7. stock' = stock
    BY <2>1 DEF serverSide
  <2>8. QED
    BY <2>6, <2>7, Facts!QuietStep, Viewed
<1>13. ASSUME NEW p \in Procs, CltDisconnect(p) PROVE Facts!ServerNext
  <2>1. /\ UNCHANGED serverSide /\ pc[p] = "disconnect" /\ resp'[p] = Pending
        /\ queue'[p] = <<>> /\ \A q \in Owners \ {p} : queue'[q] = queue[q]
        /\ \A q \in Procs \ {p} :
             pc'[q] = pc[q] /\ request'[q] = request[q] /\ rpc'[q] = rpc[q] /\ resp'[q] = resp[q]
        /\ IF GoesOn(request[p], rpc[p], resp[p])
           THEN rpc'[p] = AddMessage(request[p]) /\ request'[p] = request[p] /\ pc'[p] = "connect"
           ELSE rpc'[p] = NoMessage /\ request'[p] = Idle /\ pc'[p] = "idle"
    BY <1>2, <1>13 DEF CltDisconnect, NextRound, Goto, Remove, TypeOK, RoundsType
  <2>2. /\ resp[p] \in Responses /\ resp[p] # Pending /\ queue[p] = <<>> /\ ~Served(p)
    BY <1>1, <2>1, RoundsValuesAssumption DEF RoundInv, WaitInv
  <2>3. \A q \in Procs : InFlight(q)' <=> InFlight(q)
    BY <1>2, <2>1, SameServerQueue DEF InFlight, serverSide
  <2>4. RequestNow[p] = request[p] /\ RpcNow[p] = rpc[p] /\ RespNow[p] = resp[p]
    BY <2>1, <2>2, Seen DEF Served
  <2>5. ~Lost(p)' /\ srv' = srv /\ serving' = serving
    BY <2>1 DEF serverSide
  <2>6. RequestNow'[p] = request'[p] /\ RpcNow'[p] = rpc'[p] /\ RespNow'[p] = Pending
    BY <2>1, <2>2, <2>5, SeenThen DEF Served
  <2>7. \A q \in Procs \ {p} : RequestNow'[q] = RequestNow[q] /\ RpcNow'[q] = RpcNow[q] /\ RespNow'[q] = RespNow[q]
    BY <1>2, <2>1, <2>3, Seen, SeenThen DEF serverSide
  <2>8. RequestNow[p] # Gone /\ stock' = stock
    BY <1>1, <2>1 DEF serverSide
  <2>9. QED
    BY <2>1, <2>2, <2>4, <2>6, <2>7, <2>8, Facts!AnswerStep, Viewed, SameData
<1>20. QED
  BY <1>3, <1>4, <1>5, <1>6, <1>7, <1>8, <1>9, <1>10, <1>11, <1>12, <1>13
  DEF Next, SrvStep, CltStep

\* Over either kind of queue, and whoever is killed or started again, no
\* message takes effect twice and every client reads the answer to its own.
THEOREM ImplementsService == Spec => ServesAtMostOnce
<1>1. MsgqInv /\ MsgqInv' /\ [Next]_vars => [Service!ServerNext]_Service!serverVars
  <2>1. SUFFICES ASSUME MsgqInv, MsgqInv', [Next]_vars
        PROVE  Service!ServerNext \/ UNCHANGED Service!serverVars
    OBVIOUS
  <2>2. CASE UNCHANGED vars
    BY <2>2
    DEF vars, queues, serverSide, clientSide, Service!serverVars, RequestNow, RpcNow, RespNow,
        Lost, InFlight, InQueue
  <2>3. QED
    BY <2>1, <2>2, StepRefines, SameSteps
<1>2. QED
  BY <1>1, InitRefines, MsgqCorrect, PTL DEF Spec, ServesAtMostOnce, Service!ServerSpec

=============================================================================
