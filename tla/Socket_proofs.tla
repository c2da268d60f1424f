---------------------------- MODULE Socket_proofs ----------------------------
(***************************************************************************)
(* Proofs about the socket backend, for any number of clients, calls,      *)
(* faults and descriptors.                                                 *)
(***************************************************************************)
EXTENDS Socket, Data_proofs

\* The backlog is left alone, emptied, loses its first client, or gets one
\* that is not in it.
LEMMA SameBacklog ==
  ASSUME BacklogDistinct, backlog' = backlog
  PROVE  BacklogDistinct' /\ \A q : Waits(q)' <=> Waits(q)
  BY DEF BacklogDistinct, Waits

\* .. it is emptied with the death of the server;
LEMMA EmptyBacklog ==
  ASSUME backlog' = <<>>
  PROVE  BacklogDistinct' /\ \A q : ~Waits(q)'
  BY DEF BacklogDistinct, Waits

\* .. its first client is accepted, and waits no longer;
LEMMA TakenFromBacklog ==
  ASSUME TypeOK, BacklogDistinct, backlog # <<>>, backlog' = Tail(backlog)
  PROVE  /\ BacklogDistinct' /\ backlog' \in Seq(Procs)
         /\ Head(backlog) \in Procs /\ Waits(Head(backlog))
         /\ \A q : Waits(q)' <=> Waits(q) /\ q # Head(backlog)
<1> DEFINE s == backlog
<1> DEFINE t == backlog'
<1>1. /\ Head(s) = s[1] /\ Head(s) \in Procs /\ DOMAIN s = 1 .. Len(s) /\ Len(s) \in Nat \ {0}
      /\ t \in Seq(Procs) /\ DOMAIN t = 1 .. Len(s) - 1
      /\ \A i \in 1 .. Len(s) - 1 : t[i] = s[i + 1]
  BY TailIndices DEF TypeOK
<1>2. \A i, j \in DOMAIN s : s[i] = s[j] => i = j
  BY DEF BacklogDistinct
<1> HIDE DEF s, t
<1>3. \A i \in DOMAIN t : i + 1 \in DOMAIN s /\ t[i] = s[i + 1] /\ i + 1 # 1
  BY <1>1
<1>4. \A i, j \in DOMAIN t : t[i] = t[j] => i = j
  <2>1. ASSUME NEW i \in DOMAIN t, NEW j \in DOMAIN t, t[i] = t[j] PROVE i = j
    <3>1. i + 1 = j + 1
      BY <1>2, <1>3, <2>1
    <3>2. i \in Int /\ j \in Int
      BY <1>1
    <3>3. QED
      BY <3>1, <3>2
  <2>2. QED
    BY <2>1
<1>5. 1 \in DOMAIN s
  BY <1>1
<1>6. ~ \E i \in DOMAIN t : t[i] = s[1]
  <2>1. ASSUME NEW i \in DOMAIN t, t[i] = s[1] PROVE FALSE
    <3>1. i + 1 = 1
      BY <1>2, <1>3, <1>5, <2>1
    <3>2. QED
      BY <1>3, <3>1
  <2>2. QED
    BY <2>1
<1>7. ASSUME NEW q, q # s[1]
      PROVE  (\E i \in DOMAIN t : t[i] = q) <=> (\E i \in DOMAIN s : s[i] = q)
  <2>1. ASSUME NEW i \in DOMAIN s, s[i] = q PROVE \E j \in DOMAIN t : t[j] = q
    <3>1. i - 1 \in DOMAIN t /\ t[i - 1] = s[(i - 1) + 1] /\ (i - 1) + 1 = i
      BY <1>1, <1>7, <2>1
    <3>2. QED
      BY <2>1, <3>1
  <2>2. QED
    BY <1>3, <2>1
<1>8. ASSUME NEW q PROVE Waits(q)' <=> Waits(q) /\ q # s[1]
  <2>1. Waits(q)' <=> \E i \in DOMAIN t : t[i] = q
    BY DEF Waits, t
  <2>2. Waits(q) <=> \E i \in DOMAIN s : s[i] = q
    BY DEF Waits, s
  <2>3. QED
    BY <1>6, <1>7, <2>1, <2>2
<1>9. BacklogDistinct' /\ backlog' \in Seq(Procs)
  BY <1>1, <1>4 DEF BacklogDistinct, t
<1>10. Head(backlog) = s[1] /\ Head(backlog) \in Procs
  BY <1>1 DEF s
<1>11. Waits(s[1])
  BY <1>5 DEF Waits, s
<1>12. QED
  BY <1>8, <1>9, <1>10, <1>11

\* .. or a client that does not wait in it comes to its end.
LEMMA PutInBacklog ==
  ASSUME TypeOK, BacklogDistinct, NEW p \in Procs, ~Waits(p), backlog' = Append(backlog, p)
  PROVE  /\ BacklogDistinct' /\ backlog' \in Seq(Procs)
         /\ Waits(p)' /\ \A q : q # p => (Waits(q)' <=> Waits(q))
<1> DEFINE s == backlog
<1> DEFINE t == backlog'
<1>1. s \in Seq(Procs)
  BY DEF TypeOK
<1>2. DOMAIN s = 1 .. Len(s) /\ Len(s) \in Nat
  BY <1>1
<1>3. /\ DOMAIN t = 1 .. Len(s) + 1 /\ t[Len(s) + 1] = p
      /\ \A i \in DOMAIN s : t[i] = s[i]
  BY <1>1, <1>2, AppendIndices
<1>4. /\ \A i, j \in DOMAIN s : s[i] = s[j] => i = j
      /\ \A i \in DOMAIN s : s[i] # p
  BY DEF BacklogDistinct, Waits
<1> HIDE DEF s, t
<1>5. \A i \in DOMAIN t : \/ i \in DOMAIN s /\ t[i] = s[i]
                          \/ i = Len(s) + 1 /\ t[i] = p
  BY <1>2, <1>3
<1>6. \A i, j \in DOMAIN t : t[i] = t[j] => i = j
  BY <1>4, <1>5
<1>7. Len(s) + 1 \in DOMAIN t /\ DOMAIN s \subseteq DOMAIN t
  BY <1>2, <1>3
<1>8. Waits(p)'
  BY <1>3, <1>7 DEF Waits, t
<1>9. ASSUME NEW q, q # p PROVE Waits(q)' <=> Waits(q)
  <2>1. (\E i \in DOMAIN t : t[i] = q) <=> (\E i \in DOMAIN s : s[i] = q)
    BY <1>3, <1>5, <1>7, <1>9
  <2>2. QED
    BY <2>1 DEF Waits, s, t
<1>10. backlog' \in Seq(Procs)
  BY AppendIndices DEF TypeOK
<1>11. BacklogDistinct'
  BY <1>6 DEF BacklogDistinct, t
<1>12. QED
  BY <1>8, <1>9, <1>10, <1>11

-----------------------------------------------------------------------------
\* What the steps of a handler do to the types, the files and the message.
LEMMA HandleStep ==
  ASSUME ConnectionsInv, SrvHandle
  PROVE  /\ srv \in DbLabels /\ srv' \in DbLabels \cup {"send"}
         /\ stock' \in [Names -> Ints \cup {Absent, Empty}]
         /\ found' \in Ints \cup {Absent}
         /\ serving' = serving
         /\ answer' \in Responses \cup {Pending}
         /\ srv' = "send" => answer' \in Responses
         /\ \A n \in Names : Damaged(n)' => Damaged(n)
<1> DEFINE m == serving.message
<1>1. srv \in DbLabels
  BY DEF SrvHandle, DbStep, DbLook, DbRemove, DbTruncate, DbPrint, DbFlush, DbLabels
<1>2. m \in Messages
  BY <1>1 DEF ConnectionsInv, ConnInv, TypeOK, Incoming
<1>3. m.name \in Names
  BY <1>2 DEF Messages
<1>4. /\ stock \in [Names -> Ints \cup {Absent, Empty}]
      /\ found \in Ints \cup {Absent}
      /\ answer \in Responses \cup {Pending}
      /\ Empty \notin Ints \cup {Absent}
  BY EmptyAssumption DEF ConnectionsInv, TypeOK, RoundsType, Ints
<1>5. \A held \in Ints \cup {Absent} : /\ HoldsAfter(m, held) \in Ints \cup {Absent}
                                      /\ ResponseTo(m, held) \in Responses
  BY <1>2, HandlerTypes
<1> HIDE DEF m
<1>6. CASE DbLook
  <2>1. PICK held \in Readable(m.name) :
          IF m.type = "WRITE_PRODUCT" \/ (m.type = "REMOVE_PRODUCT" /\ held # Absent)
          THEN /\ srv' = IF m.type = "WRITE_PRODUCT" THEN "truncate" ELSE "remove"
               /\ found' = held
               /\ UNCHANGED answer
          ELSE Respond(held)
    BY <1>6 DEF DbLook, m
  <2>2. held \in Ints \cup {Absent}
    BY <1>3, <1>4, <2>1 DEF Readable
  <2>3. stock' = stock /\ serving' = serving /\ srv = "handle"
    BY <1>6 DEF DbLook
  <2>4. /\ srv' \in {"truncate", "remove", "send"} /\ found' \in Ints \cup {Absent}
        /\ answer' \in Responses \cup {Pending}
        /\ srv' = "send" => answer' \in Responses
    BY <1>4, <1>5, <2>1, <2>2 DEF Respond, m
  <2>5. ASSUME NEW n \in Names, Damaged(n)' PROVE Damaged(n)
    BY <2>3, <2>4, <2>5 DEF Damaged, StockNow, Rewriting
  <2>6. QED
    BY <1>1, <1>4, <2>3, <2>4, <2>5 DEF DbLabels
<1>7. CASE DbRemove
  <2>1. /\ srv = "remove" /\ srv' = "send" /\ serving' = serving /\ found' = Absent
        /\ answer' = ResponseTo(m, found)
        /\ stock' = [stock EXCEPT ![m.name] = Absent]
    BY <1>7 DEF DbRemove, Respond, m
  <2>2. ASSUME NEW n \in Names, Damaged(n)' PROVE Damaged(n)
    BY <1>3, <1>4, <2>1, <2>2 DEF Damaged, StockNow, Rewriting
  <2>3. QED
    BY <1>1, <1>3, <1>4, <1>5, <2>1, <2>2
<1>8. CASE DbTruncate
  <2>1. /\ srv = "truncate" /\ srv' = "print" /\ UNCHANGED <<serving, answer, found>>
        /\ stock' = [stock EXCEPT ![m.name] = Empty]
    BY <1>8 DEF DbTruncate, m
  <2>2. ASSUME NEW n \in Names, Damaged(n)' PROVE Damaged(n)
    BY <1>3, <1>4, <2>1, <2>2 DEF Damaged, StockNow, Rewriting, m
  <2>3. QED
    BY <1>1, <1>3, <1>4, <2>1, <2>2 DEF DbLabels
<1>9. CASE DbPrint
  <2>1. srv = "print" /\ srv' = "flush" /\ UNCHANGED <<stock, serving, answer, found>>
    BY <1>9 DEF DbPrint
  <2>2. ASSUME NEW n \in Names, Damaged(n)' PROVE Damaged(n)
    BY <2>1, <2>2 DEF Damaged, StockNow, Rewriting
  <2>3. QED
    BY <1>1, <1>4, <2>1, <2>2 DEF DbLabels
<1>10. CASE DbFlush
  <2>1. /\ srv = "flush" /\ srv' = "send" /\ serving' = serving /\ found' = Absent
        /\ answer' = ResponseTo(m, found)
        /\ stock' = [stock EXCEPT ![m.name] = HoldsAfter(m, found)]
    BY <1>10 DEF DbFlush, Written, Respond, m
  <2>2. ASSUME NEW n \in Names, Damaged(n)' PROVE Damaged(n)
    <3>1. n # m.name
      BY <1>3, <1>4, <1>5, <2>1, <2>2 DEF Damaged, StockNow, Rewriting
    <3>2. QED
      BY <1>3, <1>4, <2>1, <2>2, <3>1 DEF Damaged, StockNow, Rewriting, m
  <2>3. QED
    BY <1>1, <1>3, <1>4, <1>5, <2>1, <2>2
<1>11. QED
  BY <1>6, <1>7, <1>8, <1>9, <1>10 DEF SrvHandle, DbStep

\* The end of the server leaves no connection it knows of.
LEMMA ConnectionsEnd ==
  ASSUME ConnectionsInv, EndServer, UNCHANGED stock, faults' \in 0 .. MaxFaults
  PROVE  ConnectionsInv'
<1>1. BacklogDistinct' /\ \A q : ~Waits(q)'
  BY EmptyBacklog DEF EndServer
<1>2. link' \in [Procs -> Links] /\ \A q \in Procs : reply[q] # Pending => link'[q] = link[q]
  BY DEF EndServer, ConnectionsInv, TypeOK, Links
<1>3. TypeOK'
  <2>1. <<>> \in Seq(Procs) /\ 0 \in 0 .. MaxFds
    BY FdsAssumption
  <2>2. QED
    BY <1>2, <2>1 DEF EndServer, ConnectionsInv, TypeOK, RoundsType, SrvLabels, DbLabels, CltLabels, Links, clientSide
<1>4. ASSUME NEW q \in Procs PROVE LinkInv(q)'
  <2>1. pc[q] = "send" => link'[q] # "open"
    BY DEF EndServer, ConnectionsInv, CallInv, TypeOK
  <2>2. QED
    BY <1>1, <2>1, NoMessageAssumption DEF EndServer, LinkInv, clientSide
<1>5. ConnInv'
  BY DEF EndServer, ConnInv, DbLabels, SrvLabels
<1>6. ASSUME NEW q \in Procs PROVE CallInv(q)'
  BY <1>2 DEF EndServer, ConnectionsInv, CallInv, clientSide
<1>7. QED
  BY <1>1, <1>3, <1>4, <1>5, <1>6 DEF ConnectionsInv, OneConnection

-----------------------------------------------------------------------------
\* The invariant holds before the server is started.
LEMMA ConnectionsInit == Init => ConnectionsInv
<1>1. SUFFICES ASSUME Init PROVE ConnectionsInv
  OBVIOUS
<1>2. TypeOK
  <2>1. <<>> \in Seq(Procs)
    OBVIOUS
  <2>2. stock \in [Names -> Ints \cup {Absent, Empty}]
    BY <1>1, QuantitiesAssumption DEF Init, RoundsInit
  <2>3. calls \in 0 .. MaxCalls /\ faults \in 0 .. MaxFaults /\ fds \in 0 .. MaxFds
    BY <1>1, RoundsBoundsAssumption, FdsAssumption DEF Init, RoundsInit
  <2>4. QED
    BY <1>1, <2>1, <2>2, <2>3 DEF Init, RoundsInit, TypeOK, RoundsType, SrvLabels, DbLabels, CltLabels, Links
<1>3. BacklogDistinct /\ \A q : ~Waits(q)
  BY <1>1 DEF Init, BacklogDistinct, Waits
<1>4. ASSUME NEW p \in Procs PROVE LinkInv(p) /\ CallInv(p)
  BY <1>1, <1>3, NoMessageAssumption DEF Init, RoundsInit, LinkInv, CallInv
<1>5. ConnInv
  BY <1>1 DEF Init, RoundsInit, ConnInv, DbLabels, SrvLabels
<1>6. QED
  BY <1>2, <1>3, <1>4, <1>5 DEF ConnectionsInv, OneConnection

\* Every step preserves it.
LEMMA ConnectionsNext == ConnectionsInv /\ [Next]_vars => ConnectionsInv'
<1> SUFFICES ASSUME ConnectionsInv, [Next]_vars PROVE ConnectionsInv'
  OBVIOUS
<1> USE DEF ConnectionsInv, OneConnection
<1> NoMessage \notin Procs /\ NoMessage \notin Incoming
  BY NoMessageAssumption

<1>1. ASSUME SrvStart PROVE ConnectionsInv'
  <2>1. BacklogDistinct' /\ \A q : Waits(q)' <=> Waits(q)
    BY <1>1, SameBacklog DEF SrvStart, network
  <2>2. TypeOK'
    BY <1>1, <2>1 DEF SrvStart, TypeOK, RoundsType, SrvLabels, DbLabels, CltLabels, Links, network, serverSide, clientSide
  <2>3. ASSUME NEW q \in Procs PROVE LinkInv(q)'
    <3>1. LinkInv(q)
      OBVIOUS
    <3>2. QED
      BY <1>1, <2>1, <3>1 DEF SrvStart, LinkInv, TypeOK, network, serverSide, clientSide
  <2>4. ConnInv'
    BY <1>1, <2>1 DEF SrvStart, ConnInv, SrvLabels, DbLabels, TypeOK, network, serverSide, clientSide
  <2>5. ASSUME NEW q \in Procs PROVE CallInv(q)'
    <3>1. CallInv(q)
      OBVIOUS
    <3>2. QED
      BY <1>1, <2>1, <3>1 DEF SrvStart, CallInv, TypeOK, network, serverSide, clientSide
  <2>6. QED
    BY <2>1, <2>2, <2>3, <2>4, <2>5
<1>2. ASSUME SrvAccept PROVE ConnectionsInv'
  <2>1. CASE fds = MaxFds
    BY <1>2, <2>1, ConnectionsEnd DEF SrvAccept, TypeOK, RoundsType
  <2>2. CASE fds # MaxFds
    <3> DEFINE c == Head(backlog)
    <3>1. /\ BacklogDistinct' /\ backlog' \in Seq(Procs) /\ c \in Procs /\ Waits(c)
          /\ \A q : Waits(q)' <=> Waits(q) /\ q # c
      BY <1>2, <2>2, TakenFromBacklog DEF SrvAccept
    <3>2. conn' = c /\ conn = NoMessage
      BY <1>2, <2>2 DEF SrvAccept, ConnInv
    <3>3. fds' \in 0 .. MaxFds
      BY <1>2, <2>2, FdsAssumption DEF SrvAccept, TypeOK
    <3>4. TypeOK'
      BY <1>2, <2>2, <3>1, <3>2, <3>3 DEF SrvAccept, TypeOK, RoundsType, SrvLabels, DbLabels, CltLabels, Links, clientSide
    <3> HIDE DEF c
    <3>5. ASSUME NEW q \in Procs PROVE LinkInv(q)'
      <4>1. LinkInv(q)
        OBVIOUS
      <4>2. QED
        BY <1>2, <2>2, <3>1, <3>2, <4>1 DEF SrvAccept, LinkInv, clientSide
    <3>6. ConnInv'
      BY <1>2, <2>2, <3>1, <3>2 DEF SrvAccept, ConnInv, SrvLabels, DbLabels
    <3>7. ASSUME NEW q \in Procs PROVE CallInv(q)'
      <4>1. CallInv(q)
        OBVIOUS
      <4>2. QED
        BY <1>2, <2>2, <4>1 DEF SrvAccept, CallInv, clientSide
    <3>8. QED
      BY <3>1, <3>4, <3>5, <3>6, <3>7
  <2>3. QED
    BY <2>1, <2>2
<1>3. ASSUME SrvRecv PROVE ConnectionsInv'
  <2>1. BacklogDistinct' /\ \A q : Waits(q)' <=> Waits(q)
    BY <1>3, SameBacklog DEF SrvRecv
  <2>2. conn \in Procs /\ rpc[conn] \in Messages /\ pc[conn] \in {"recv", "exited"}
    BY <1>3 DEF SrvRecv, ConnInv, SrvLabels, LinkInv, CallInv
  <2>3. serving' \in Incoming /\ serving'.from = conn /\ last' \in Types
    BY <1>3, <2>2 DEF SrvRecv, Incoming, Messages, Types
  <2>4. TypeOK'
    BY <1>3, <2>1, <2>2, <2>3 DEF SrvRecv, TypeOK, RoundsType, SrvLabels, DbLabels, CltLabels, Links, network, serverSide, clientSide
  <2>5. ASSUME NEW q \in Procs PROVE LinkInv(q)'
    <3>1. LinkInv(q)
      OBVIOUS
    <3>2. QED
      BY <1>3, <2>1, <2>2, <2>3, <3>1 DEF SrvRecv, LinkInv, TypeOK, network, serverSide, clientSide
  <2>6. ConnInv'
    BY <1>3, <2>1, <2>2, <2>3 DEF SrvRecv, ConnInv, SrvLabels, DbLabels, TypeOK, network, serverSide, clientSide
  <2>7. ASSUME NEW q \in Procs PROVE CallInv(q)'
    <3>1. CallInv(q)
      OBVIOUS
    <3>2. QED
      BY <1>3, <2>1, <2>2, <2>3, <3>1 DEF SrvRecv, CallInv, TypeOK, network, serverSide, clientSide
  <2>8. QED
    BY <2>1, <2>4, <2>5, <2>6, <2>7
<1>4. ASSUME SrvRecvNothing PROVE ConnectionsInv'
  <2>1. BacklogDistinct' /\ \A q : Waits(q)' <=> Waits(q)
    BY <1>4, SameBacklog DEF SrvRecvNothing, network
  <2>2. serving' \in Incoming /\ serving'.from = NoMessage
    BY <1>4 DEF SrvRecvNothing, Unwritten, Incoming
  <2>3. conn \in Procs
    BY <1>4 DEF SrvRecvNothing, ConnInv, SrvLabels
  <2>4. TypeOK'
    BY <1>4, <2>1, <2>2, <2>3 DEF SrvRecvNothing, TypeOK, RoundsType, SrvLabels, DbLabels, CltLabels, Links, network, serverSide, clientSide
  <2>5. ASSUME NEW q \in Procs PROVE LinkInv(q)'
    <3>1. LinkInv(q)
      OBVIOUS
    <3>2. QED
      BY <1>4, <2>1, <2>2, <2>3, <3>1 DEF SrvRecvNothing, LinkInv, TypeOK, network, serverSide, clientSide
  <2>6. ConnInv'
    BY <1>4, <2>1, <2>2, <2>3 DEF SrvRecvNothing, ConnInv, SrvLabels, DbLabels, TypeOK, network, serverSide, clientSide
  <2>7. ASSUME NEW q \in Procs PROVE CallInv(q)'
    <3>1. CallInv(q)
      OBVIOUS
    <3>2. QED
      BY <1>4, <2>1, <2>2, <2>3, <3>1 DEF SrvRecvNothing, CallInv, TypeOK, network, serverSide, clientSide
  <2>8. QED
    BY <2>1, <2>4, <2>5, <2>6, <2>7
<1>5. ASSUME SrvHandle PROVE ConnectionsInv'
  <2>1. BacklogDistinct' /\ \A q : Waits(q)' <=> Waits(q)
    BY <1>5, SameBacklog DEF SrvHandle, network
  <2>2. /\ srv \in DbLabels /\ srv' \in DbLabels \cup {"send"}
        /\ stock' \in [Names -> Ints \cup {Absent, Empty}]
        /\ found' \in Ints \cup {Absent}
        /\ serving' = serving
        /\ answer' \in Responses \cup {Pending}
        /\ srv' = "send" => answer' \in Responses
    BY <1>5, HandleStep
  <2>3. UNCHANGED <<network, fds, last, clientSide, faults>>
    BY <1>5 DEF SrvHandle
  <2>4. TypeOK'
    <3>1. srv' \in SrvLabels
      BY <2>2 DEF SrvLabels, DbLabels
    <3>2. RoundsType'
      BY <2>2, <2>3 DEF TypeOK, RoundsType, clientSide
    <3>3. QED
      BY <2>2, <2>3, <3>1, <3>2 DEF TypeOK, network, clientSide
  <2>5. ASSUME NEW q \in Procs PROVE LinkInv(q)'
    <3>1. LinkInv(q)
      OBVIOUS
    <3>2. QED
      BY <2>1, <2>2, <2>3, <3>1 DEF LinkInv, TypeOK, network, serverSide, clientSide
  <2>6. ConnInv'
    <3>1. /\ srv' \in SrvLabels \ {"down", "accept", "recv", "exit"}
          /\ srv \in SrvLabels \ {"down", "accept", "exit"}
      BY <2>2 DEF SrvLabels, DbLabels
    <3>2. UNCHANGED <<conn, sent, pc>>
      BY <2>3 DEF network, clientSide
    <3>3. QED
      BY <2>2, <3>1, <3>2 DEF ConnInv
  <2>7. ASSUME NEW q \in Procs PROVE CallInv(q)'
    <3>1. CallInv(q)
      OBVIOUS
    <3>2. QED
      BY <2>1, <2>2, <2>3, <3>1 DEF CallInv, TypeOK, network, serverSide, clientSide
  <2>8. QED
    BY <2>1, <2>4, <2>5, <2>6, <2>7
<1>6. ASSUME SrvSend PROVE ConnectionsInv'
  <2>1. BacklogDistinct' /\ \A q : Waits(q)' <=> Waits(q)
    BY <1>6, SameBacklog DEF SrvSend
  <2>2. conn \in Procs /\ answer \in Responses /\ pc[conn] \in {"recv", "exited"} /\ conn \notin sent
    BY <1>6 DEF SrvSend, ConnInv, SrvLabels
  <2>3. TypeOK'
    BY <1>6, <2>1, <2>2 DEF SrvSend, TypeOK, RoundsType, SrvLabels, DbLabels, CltLabels, Links, network, serverSide, clientSide
  <2>4. ASSUME NEW q \in Procs PROVE LinkInv(q)'
    <3>1. LinkInv(q)
      OBVIOUS
    <3>2. QED
      BY <1>6, <2>1, <2>2, <3>1 DEF SrvSend, LinkInv, TypeOK, network, serverSide, clientSide
  <2>5. ConnInv'
    BY <1>6, <2>1, <2>2 DEF SrvSend, ConnInv, SrvLabels, DbLabels, TypeOK, network, serverSide, clientSide
  <2>6. ASSUME NEW q \in Procs PROVE CallInv(q)'
    <3>1. CallInv(q)
      OBVIOUS
    <3>2. QED
      BY <1>6, <2>1, <2>2, <3>1 DEF SrvSend, CallInv, TypeOK, network, serverSide, clientSide, LinkInv
  <2>7. QED
    BY <2>1, <2>3, <2>4, <2>5, <2>6
<1>7. ASSUME SrvStop PROVE ConnectionsInv'
  <2>1. BacklogDistinct' /\ \A q : Waits(q)' <=> Waits(q)
    BY <1>7, SameBacklog DEF SrvStop, network
  <2>2. faults' \in 0 .. MaxFaults
    BY <1>7, RoundsBoundsAssumption DEF SrvStop, Fault, TypeOK, RoundsType
  <2>3. TypeOK'
    BY <1>7, <2>1, <2>2 DEF SrvStop, Fault, TypeOK, RoundsType, SrvLabels, DbLabels, CltLabels, Links, network, serverSide, clientSide
  <2>4. ASSUME NEW q \in Procs PROVE LinkInv(q)'
    <3>1. LinkInv(q)
      OBVIOUS
    <3>2. QED
      BY <1>7, <2>1, <3>1 DEF SrvStop, LinkInv, TypeOK, network, clientSide
  <2>5. ConnInv'
    BY <1>7, <2>1 DEF SrvStop, ConnInv, SrvLabels, DbLabels, TypeOK, network, clientSide
  <2>6. ASSUME NEW q \in Procs PROVE CallInv(q)'
    <3>1. CallInv(q)
      OBVIOUS
    <3>2. QED
      BY <1>7, <3>1 DEF SrvStop, CallInv, TypeOK, network, clientSide
  <2>7. QED
    BY <2>1, <2>3, <2>4, <2>5, <2>6
<1>8. ASSUME SrvExitFlush PROVE ConnectionsInv'
  <2>1. BacklogDistinct' /\ \A q : Waits(q)' <=> Waits(q)
    BY <1>8, SameBacklog DEF SrvExitFlush, network
  <2>2. stock' \in [Names -> Ints \cup {Absent, Empty}] /\ answer' \in Responses
    <3>1. serving.message \in Messages /\ found \in Ints \cup {Absent}
      BY <1>8 DEF SrvExitFlush, ConnInv, TypeOK, Incoming
    <3>2. /\ HoldsAfter(serving.message, found) \in Ints \cup {Absent}
          /\ ResponseTo(serving.message, found) \in Responses
      BY <3>1, HandlerTypes
    <3>3. QED
      BY <1>8, <3>2 DEF SrvExitFlush, Written, TypeOK
  <2>3. TypeOK'
    BY <1>8, <2>1, <2>2 DEF SrvExitFlush, TypeOK, RoundsType, SrvLabels, CltLabels, network, clientSide
  <2>4. ASSUME NEW q \in Procs PROVE LinkInv(q)'
    <3>1. LinkInv(q)
      OBVIOUS
    <3>2. QED
      BY <1>8, <2>1, <3>1 DEF SrvExitFlush, LinkInv, TypeOK, network, clientSide
  <2>5. ConnInv'
    BY <1>8, <2>1 DEF SrvExitFlush, ConnInv, SrvLabels, DbLabels, TypeOK, network, clientSide
  <2>6. ASSUME NEW q \in Procs PROVE CallInv(q)'
    <3>1. CallInv(q)
      OBVIOUS
    <3>2. QED
      BY <1>8, <3>1 DEF SrvExitFlush, CallInv, TypeOK, network, clientSide
  <2>7. QED
    BY <2>1, <2>3, <2>4, <2>5, <2>6
<1>9. ASSUME SrvExit PROVE ConnectionsInv'
  BY <1>9, ConnectionsEnd DEF SrvExit, TypeOK, RoundsType
<1>10. ASSUME KillServer PROVE ConnectionsInv'
  <2>1. faults' \in 0 .. MaxFaults
    BY <1>10, RoundsBoundsAssumption DEF KillServer, Fault, TypeOK, RoundsType
  <2>2. QED
    BY <1>10, <2>1, ConnectionsEnd DEF KillServer
<1>11. ASSUME NEW p \in Procs, Call(p) PROVE ConnectionsInv'
  <2>1. BacklogDistinct' /\ \A q : Waits(q)' <=> Waits(q)
    BY <1>11, SameBacklog DEF Call, network
  <2>2. /\ request' \in [Procs -> Requests \cup {Idle}] /\ rpc' \in [Procs -> Messages \cup {NoMessage}]
        /\ request'[p] \in Requests /\ ~Refused(request'[p]) /\ rpc'[p] \in Messages
        /\ \A q \in Procs \ {p} : request'[q] = request[q] /\ rpc'[q] = rpc[q]
    <3>1. PICK r \in Requests : /\ ~Refused(r)
                               /\ request' = [request EXCEPT ![p] = r]
                               /\ rpc' = [rpc EXCEPT ![p] = FirstMessage(r)]
      BY <1>11 DEF Call, Begin
    <3>2. FirstMessage(r) \in Messages
      BY <3>1, MessageTypes
    <3>3. QED
      BY <3>1, <3>2 DEF TypeOK, RoundsType
  <2>3. calls' \in 0 .. MaxCalls
    BY <1>11, RoundsBoundsAssumption DEF Call, Begin, TypeOK, RoundsType
  <2>4. TypeOK'
    BY <1>11, <2>1, <2>2, <2>3 DEF Call, Begin, Goto, TypeOK, RoundsType, SrvLabels, DbLabels, CltLabels, Links, network, serverSide, clientSide
  <2>5. ASSUME NEW q \in Procs PROVE LinkInv(q)'
    <3>1. LinkInv(q)
      OBVIOUS
    <3>2. QED
      BY <1>11, <2>1, <2>2, <2>3, <3>1 DEF Call, Begin, Goto, LinkInv, TypeOK, network, serverSide, clientSide
  <2>6. ConnInv'
    BY <1>11, <2>1, <2>2, <2>3 DEF Call, Begin, Goto, ConnInv, SrvLabels, DbLabels, TypeOK, network, serverSide, clientSide
  <2>7. ASSUME NEW q \in Procs PROVE CallInv(q)'
    <3>1. CallInv(q)
      OBVIOUS
    <3>2. QED
      BY <1>11, <2>1, <2>2, <2>3, <3>1 DEF Call, Begin, Goto, CallInv, TypeOK, network, serverSide, clientSide
  <2>8. QED
    BY <2>1, <2>4, <2>5, <2>6, <2>7
<1>12. ASSUME NEW p \in Procs, CltConnect(p) PROVE ConnectionsInv'
  <2>1. ~Waits(p) /\ p # conn /\ p \notin sent /\ reply[p] = Pending
    BY <1>12 DEF CltConnect, LinkInv, CallInv
  <2>2. CASE srv = "down"
    <3>1. BacklogDistinct' /\ \A q : Waits(q)' <=> Waits(q)
      BY <1>12, <2>2, SameBacklog DEF CltConnect
    <3>2. TypeOK'
      BY <1>12, <2>2 DEF CltConnect, Advance, Goto, TypeOK, RoundsType, SrvLabels, DbLabels, CltLabels, Links, serverSide
    <3>3. ASSUME NEW q \in Procs PROVE LinkInv(q)' /\ CallInv(q)'
      BY <1>12, <2>1, <2>2, <3>1 DEF CltConnect, Advance, Goto, LinkInv, CallInv, TypeOK
    <3>4. ConnInv'
      BY <1>12, <2>2 DEF CltConnect, Advance, Goto, ConnInv, TypeOK, serverSide
    <3>5. QED
      BY <3>1, <3>2, <3>3, <3>4
  <2>3. CASE srv # "down"
    <3>1. /\ BacklogDistinct' /\ backlog' \in Seq(Procs)
          /\ Waits(p)' /\ \A q : q # p => (Waits(q)' <=> Waits(q))
      BY <1>12, <2>1, <2>3, PutInBacklog DEF CltConnect
    <3>2. TypeOK'
      BY <1>12, <2>3, <3>1 DEF CltConnect, Advance, Goto, TypeOK, RoundsType, SrvLabels, DbLabels, CltLabels, Links, serverSide
    <3>3. ASSUME NEW q \in Procs PROVE LinkInv(q)' /\ CallInv(q)'
      BY <1>12, <2>1, <2>3, <3>1 DEF CltConnect, Advance, Goto, LinkInv, CallInv, TypeOK
    <3>4. ConnInv'
      BY <1>12, <2>1, <2>3 DEF CltConnect, Advance, Goto, ConnInv, TypeOK, serverSide
    <3>5. QED
      BY <3>1, <3>2, <3>3, <3>4
  <2>4. QED
    BY <2>2, <2>3
<1>13. ASSUME NEW p \in Procs, CltSend(p) PROVE ConnectionsInv'
  <2>1. BacklogDistinct' /\ \A q : Waits(q)' <=> Waits(q)
    BY <1>13, SameBacklog DEF CltSend
  <2>2. TypeOK'
    BY <1>13, <2>1 DEF CltSend, Advance, Goto, TypeOK, RoundsType, SrvLabels, DbLabels, CltLabels, Links, network, serverSide, clientSide
  <2>3. ASSUME NEW q \in Procs PROVE LinkInv(q)'
    <3>1. LinkInv(q)
      OBVIOUS
    <3>2. QED
      BY <1>13, <2>1, <3>1 DEF CltSend, Advance, Goto, LinkInv, TypeOK, network, serverSide, clientSide
  <2>4. ConnInv'
    BY <1>13, <2>1 DEF CltSend, Advance, Goto, ConnInv, SrvLabels, DbLabels, TypeOK, network, serverSide, clientSide
  <2>5. ASSUME NEW q \in Procs PROVE CallInv(q)'
    <3>1. CallInv(q)
      OBVIOUS
    <3>2. QED
      BY <1>13, <2>1, <3>1 DEF CltSend, Advance, Goto, CallInv, TypeOK, network, serverSide, clientSide, LinkInv
  <2>6. QED
    BY <2>1, <2>2, <2>3, <2>4, <2>5
<1>14. ASSUME NEW p \in Procs, CltRecv(p) PROVE ConnectionsInv'
  <2>1. BacklogDistinct' /\ \A q : Waits(q)' <=> Waits(q)
    BY <1>14, SameBacklog DEF CltRecv
  <2>2. reply[p] \in Responses /\ ~Waits(p) /\ p # conn
    BY <1>14 DEF CltRecv, LinkInv, TypeOK, RoundsType, SrvLabels, DbLabels, CltLabels, Links
  <2>3. TypeOK'
    BY <1>14, <2>1, <2>2 DEF CltRecv, Receive, Goto, TypeOK, RoundsType, SrvLabels, DbLabels, CltLabels, Links, network, serverSide, clientSide
  <2>4. ASSUME NEW q \in Procs PROVE LinkInv(q)'
    <3>1. LinkInv(q)
      OBVIOUS
    <3>2. QED
      BY <1>14, <2>1, <2>2, <3>1 DEF CltRecv, Receive, Goto, LinkInv, TypeOK, network, serverSide, clientSide
  <2>5. ConnInv'
    BY <1>14, <2>1, <2>2 DEF CltRecv, Receive, Goto, ConnInv, SrvLabels, DbLabels, TypeOK, network, serverSide, clientSide
  <2>6. ASSUME NEW q \in Procs PROVE CallInv(q)'
    <3>1. CallInv(q)
      OBVIOUS
    <3>2. QED
      BY <1>14, <2>1, <2>2, <3>1 DEF CltRecv, Receive, Goto, CallInv, TypeOK, network, serverSide, clientSide
  <2>7. QED
    BY <2>1, <2>3, <2>4, <2>5, <2>6
<1>15. ASSUME NEW p \in Procs, CltRecvFails(p) PROVE ConnectionsInv'
  <2>1. BacklogDistinct' /\ \A q : Waits(q)' <=> Waits(q)
    BY <1>15, SameBacklog DEF CltRecvFails, network
  <2>2. reply[p] = Pending /\ ~Waits(p) /\ p # conn
    BY <1>15 DEF CltRecvFails, LinkInv, CallInv
  <2>3. TypeOK'
    BY <1>15, <2>1, <2>2 DEF CltRecvFails, Advance, Goto, TypeOK, RoundsType, SrvLabels, DbLabels, CltLabels, Links, network, serverSide, clientSide
  <2>4. ASSUME NEW q \in Procs PROVE LinkInv(q)'
    <3>1. LinkInv(q)
      OBVIOUS
    <3>2. QED
      BY <1>15, <2>1, <2>2, <3>1 DEF CltRecvFails, Advance, Goto, LinkInv, TypeOK, network, serverSide, clientSide
  <2>5. ConnInv'
    BY <1>15, <2>1, <2>2 DEF CltRecvFails, Advance, Goto, ConnInv, SrvLabels, DbLabels, TypeOK, network, serverSide, clientSide
  <2>6. ASSUME NEW q \in Procs PROVE CallInv(q)'
    <3>1. CallInv(q)
      OBVIOUS
    <3>2. QED
      BY <1>15, <2>1, <2>2, <3>1 DEF CltRecvFails, Advance, Goto, CallInv, TypeOK, network, serverSide, clientSide
  <2>7. QED
    BY <2>1, <2>3, <2>4, <2>5, <2>6
<1>16. ASSUME NEW p \in Procs, CltRecvNothing(p) PROVE ConnectionsInv'
  <2>1. BacklogDistinct' /\ \A q : Waits(q)' <=> Waits(q)
    BY <1>16, SameBacklog DEF CltRecvNothing, network
  <2>2. reply[p] = Pending /\ ~Waits(p) /\ p # conn
    BY <1>16 DEF CltRecvNothing, LinkInv, CallInv
  <2>3. resp' \in [Procs -> Responses \cup {Pending}]
    BY <1>16 DEF CltRecvNothing, Receive, TypeOK, RoundsType, SrvLabels, DbLabels, CltLabels, Links, Responses
  <2>4. TypeOK'
    BY <1>16, <2>1, <2>2, <2>3 DEF CltRecvNothing, Receive, Goto, TypeOK, RoundsType, SrvLabels, DbLabels, CltLabels, Links, network, serverSide, clientSide
  <2>5. ASSUME NEW q \in Procs PROVE LinkInv(q)'
    <3>1. LinkInv(q)
      OBVIOUS
    <3>2. QED
      BY <1>16, <2>1, <2>2, <2>3, <3>1 DEF CltRecvNothing, Receive, Goto, LinkInv, TypeOK, network, serverSide, clientSide
  <2>6. ConnInv'
    BY <1>16, <2>1, <2>2, <2>3 DEF CltRecvNothing, Receive, Goto, ConnInv, SrvLabels, DbLabels, TypeOK, network, serverSide, clientSide
  <2>7. ASSUME NEW q \in Procs PROVE CallInv(q)'
    <3>1. CallInv(q)
      OBVIOUS
    <3>2. QED
      BY <1>16, <2>1, <2>2, <2>3, <3>1 DEF CltRecvNothing, Receive, Goto, CallInv, TypeOK, network, serverSide, clientSide
  <2>8. QED
    BY <2>1, <2>4, <2>5, <2>6, <2>7
<1>17. ASSUME NEW p \in Procs, CltDisconnect(p) PROVE ConnectionsInv'
  <2>1. BacklogDistinct' /\ \A q : Waits(q)' <=> Waits(q)
    BY <1>17, SameBacklog DEF CltDisconnect
  <2>2. ~Waits(p) /\ p # conn /\ p \notin sent /\ reply[p] = Pending
    BY <1>17 DEF CltDisconnect, LinkInv, CallInv
  <2>3. request[p] \in Requests /\ ~Refused(request[p])
    BY <1>17 DEF CltDisconnect, CallInv
  <2>4. GoesOn(request[p], rpc[p], resp[p]) => AddMessage(request[p]) \in Messages
    BY <2>3, MessageTypes DEF GoesOn
  <2>5. /\ rpc' \in [Procs -> Messages \cup {NoMessage}]
        /\ request' \in [Procs -> Requests \cup {Idle}]
        /\ resp' \in [Procs -> Responses \cup {Pending}]
        /\ pc' \in [Procs -> CltLabels]
    BY <1>17, <2>3, <2>4 DEF CltDisconnect, NextRound, Goto, TypeOK, RoundsType, SrvLabels, DbLabels, CltLabels, Links
  <2>6. /\ pc'[p] = "idle" \/ (pc'[p] = "connect" /\ request'[p] = request[p] /\ rpc'[p] \in Messages)
        /\ \A q \in Procs \ {p} : pc'[q] = pc[q] /\ request'[q] = request[q] /\ rpc'[q] = rpc[q]
    BY <1>17, <2>3, <2>4 DEF CltDisconnect, NextRound, Goto, TypeOK, RoundsType
  <2>7. TypeOK'
    BY <1>17, <2>5 DEF CltDisconnect, NextRound, TypeOK, RoundsType, SrvLabels, DbLabels, CltLabels, Links, serverSide
  <2>8. ASSUME NEW q \in Procs PROVE LinkInv(q)'
    <3>1. LinkInv(q)
      OBVIOUS
    <3>2. QED
      BY <1>17, <2>1, <2>2, <2>3, <2>4, <2>5, <2>6, <3>1 DEF CltDisconnect, LinkInv, TypeOK, network, serverSide, clientSide
  <2>9. ConnInv'
    BY <1>17, <2>1, <2>2, <2>3, <2>4, <2>5, <2>6 DEF CltDisconnect, ConnInv, SrvLabels, DbLabels, TypeOK, network, serverSide, clientSide
  <2>10. ASSUME NEW q \in Procs PROVE CallInv(q)'
    <3>1. CallInv(q)
      OBVIOUS
    <3>2. QED
      BY <1>17, <2>1, <2>2, <2>3, <2>4, <2>5, <2>6, <3>1 DEF CltDisconnect, CallInv, TypeOK, network, serverSide, clientSide
  <2>11. QED
    BY <2>1, <2>7, <2>8, <2>9, <2>10
<1>18. ASSUME NEW p \in Procs, KillClient(p) PROVE ConnectionsInv'
  <2>1. BacklogDistinct' /\ \A q : Waits(q)' <=> Waits(q)
    BY <1>18, SameBacklog DEF KillClient
  <2>2. faults' \in 0 .. MaxFaults
    BY <1>18, RoundsBoundsAssumption DEF KillClient, Fault, TypeOK, RoundsType
  <2>3. TypeOK'
    BY <1>18, <2>1, <2>2 DEF KillClient, Advance, Goto, Fault, TypeOK, RoundsType, SrvLabels, DbLabels, CltLabels, Links, network, serverSide, clientSide
  <2>4. ASSUME NEW q \in Procs PROVE LinkInv(q)'
    <3>1. LinkInv(q)
      OBVIOUS
    <3>2. QED
      BY <1>18, <2>1, <2>2, <3>1 DEF KillClient, Advance, Goto, Fault, LinkInv, TypeOK, network, serverSide, clientSide
  <2>5. ConnInv'
    BY <1>18, <2>1, <2>2 DEF KillClient, Advance, Goto, Fault, ConnInv, SrvLabels, DbLabels, TypeOK, network, serverSide, clientSide
  <2>6. ASSUME NEW q \in Procs PROVE CallInv(q)'
    <3>1. CallInv(q)
      OBVIOUS
    <3>2. QED
      BY <1>18, <2>1, <2>2, <3>1 DEF KillClient, Advance, Goto, Fault, CallInv, TypeOK, network, serverSide, clientSide
  <2>7. QED
    BY <2>1, <2>3, <2>4, <2>5, <2>6
<1>19. CASE UNCHANGED vars
  <2>1. BacklogDistinct' /\ \A q : Waits(q)' <=> Waits(q)
    BY <1>19, SameBacklog DEF vars, network
  <2>2. TypeOK' /\ ConnInv'
    BY <1>19 DEF vars, network, serverSide, clientSide, ConnInv, TypeOK, RoundsType, SrvLabels, DbLabels, CltLabels, Links
  <2>3. ASSUME NEW q \in Procs PROVE LinkInv(q)' /\ CallInv(q)'
    BY <1>19, <2>1 DEF vars, network, serverSide, clientSide, LinkInv, CallInv
  <2>4. QED
    BY <2>1, <2>2, <2>3
<1>20. QED
  BY <1>1, <1>2, <1>3, <1>4, <1>5, <1>6, <1>7, <1>8, <1>9, <1>10, <1>11, <1>12, <1>13, <1>14, <1>15, <1>16, <1>17, <1>18, <1>19
  DEF Next, SrvStep, CltStep

-----------------------------------------------------------------------------
\* The invariant holds before the server is started.
LEMMA SocketInit == Init => SocketInv
<1> SUFFICES ASSUME Init PROVE SocketInv
  OBVIOUS
<1>1. HandlerInv /\ \A q \in Procs : RoundInv(q)
  BY DEF Init, RoundsInit, HandlerInv, RoundInv, DbLabels
<1>2. QED
  BY <1>1, ConnectionsInit DEF SocketInv

\* A handler's steps keep what it knows: db_get_product_by_name tells it, and
\* its own accesses change the file.
LEMMA HandlerKept ==
  ASSUME SocketInv, SrvHandle
  PROVE  HandlerInv'
<1> DEFINE m == serving.message
<1>1. /\ serving # NoMessage /\ serving' = serving /\ m \in Messages /\ m.name \in Names
      /\ stock \in [Names -> Ints \cup {Absent, Empty}]
      /\ srv \in DbLabels /\ answer = Pending
  BY HandleStep DEF SocketInv, ConnectionsInv, HandlerInv, ConnInv, TypeOK, Incoming, Messages
<1> HIDE DEF m
<1>2. CASE DbLook
  <2>1. PICK held \in Readable(m.name) :
          IF m.type = "WRITE_PRODUCT" \/ (m.type = "REMOVE_PRODUCT" /\ held # Absent)
          THEN /\ srv' = IF m.type = "WRITE_PRODUCT" THEN "truncate" ELSE "remove"
               /\ found' = held
               /\ UNCHANGED answer
          ELSE Respond(held)
    BY <1>2 DEF DbLook, m
  <2>2. stock[m.name] \in {held, Empty} /\ stock' = stock
    BY <1>2, <2>1 DEF DbLook, Readable
  <2>3. QED
    BY <1>1, <2>1, <2>2 DEF HandlerInv, Respond, DbLabels, m
<1>3. CASE DbRemove \/ DbTruncate \/ DbPrint \/ DbFlush
  BY <1>1, <1>3 DEF SocketInv, HandlerInv, DbRemove, DbTruncate, DbPrint, DbFlush, Respond, DbLabels, m
<1>4. QED
  BY <1>2, <1>3 DEF SrvHandle, DbStep

\* A message is served for the client that has sent it, and a client has one
\* response, to the message it waits with.
LEMMA SocketNext == SocketInv /\ [Next]_vars => SocketInv'
<1> SUFFICES ASSUME SocketInv, [Next]_vars PROVE SocketInv'
  OBVIOUS
<1>1. ConnectionsInv'
  BY ConnectionsNext DEF SocketInv
<1>2. /\ TypeOK /\ ConnInv /\ HandlerInv
      /\ \A q \in Procs : LinkInv(q) /\ CallInv(q) /\ RoundInv(q)
      /\ NoMessage \notin Procs
  BY NoMessageAssumption DEF SocketInv, ConnectionsInv, OneConnection
<1> DEFINE Kept == HandlerInv' /\ \A q \in Procs : RoundInv(q)'
<1>3. ASSUME SrvStart PROVE Kept
  <2>1. HandlerInv'
    BY <1>2, <1>3 DEF SrvStart, HandlerInv, ConnInv, DbLabels, network, serverSide, clientSide
  <2>2. ASSUME NEW q \in Procs PROVE RoundInv(q)'
    BY <1>2, <1>3 DEF SrvStart, RoundInv, ConnInv, CallInv, TypeOK, RoundsType, CltLabels, network, serverSide, clientSide
  <2>3. QED
    BY <2>1, <2>2
<1>4. ASSUME SrvAccept PROVE Kept
  <2>1. HandlerInv'
    BY <1>2, <1>4 DEF SrvAccept, EndServer, HandlerInv, ConnInv, DbLabels, network, serverSide, clientSide
  <2>2. ASSUME NEW q \in Procs PROVE RoundInv(q)'
    BY <1>2, <1>4 DEF SrvAccept, EndServer, RoundInv, ConnInv, CallInv, TypeOK, RoundsType, CltLabels, network, serverSide, clientSide
  <2>3. QED
    BY <2>1, <2>2
<1>5. ASSUME SrvRecv PROVE Kept
  <2>1. HandlerInv'
    BY <1>2, <1>5 DEF SrvRecv, HandlerInv, ConnInv, DbLabels, network, serverSide, clientSide
  <2>2. ASSUME NEW q \in Procs PROVE RoundInv(q)'
    BY <1>2, <1>5 DEF SrvRecv, RoundInv, ConnInv, CallInv, TypeOK, RoundsType, CltLabels, network, serverSide, clientSide
  <2>3. QED
    BY <2>1, <2>2
<1>6. ASSUME SrvRecvNothing PROVE Kept
  <2>1. HandlerInv'
    BY <1>2, <1>6 DEF SrvRecvNothing, HandlerInv, ConnInv, DbLabels, network, serverSide, clientSide
  <2>2. ASSUME NEW q \in Procs PROVE RoundInv(q)'
    BY <1>2, <1>6 DEF SrvRecvNothing, RoundInv, ConnInv, CallInv, TypeOK, RoundsType, CltLabels, network, serverSide, clientSide
  <2>3. QED
    BY <2>1, <2>2
<1>7. ASSUME SrvHandle PROVE Kept
  <2>1. HandlerInv'
    BY <1>7, HandlerKept
  <2>2. ASSUME NEW q \in Procs PROVE RoundInv(q)'
    <3>1. serving' = serving /\ UNCHANGED clientSide
      BY <1>7, HandleStep DEF SocketInv, SrvHandle
    <3>2. QED
      BY <1>2, <3>1 DEF RoundInv, clientSide
  <2>3. QED
    BY <2>1, <2>2
<1>8. ASSUME SrvSend PROVE Kept
  <2>1. HandlerInv'
    BY <1>2, <1>8 DEF SrvSend, HandlerInv, ConnInv, DbLabels, network, serverSide, clientSide
  <2>2. ASSUME NEW q \in Procs PROVE RoundInv(q)'
    BY <1>2, <1>8 DEF SrvSend, RoundInv, ConnInv, CallInv, TypeOK, RoundsType, CltLabels, network, serverSide, clientSide
  <2>3. QED
    BY <2>1, <2>2
<1>9. ASSUME SrvStop PROVE Kept
  <2>1. HandlerInv'
    BY <1>2, <1>9 DEF SrvStop, HandlerInv, ConnInv, DbLabels, network, serverSide, clientSide
  <2>2. ASSUME NEW q \in Procs PROVE RoundInv(q)'
    BY <1>2, <1>9 DEF SrvStop, RoundInv, ConnInv, CallInv, TypeOK, RoundsType, CltLabels, network, serverSide, clientSide
  <2>3. QED
    BY <2>1, <2>2
<1>10. ASSUME SrvExitFlush PROVE Kept
  <2>1. HandlerInv'
    BY <1>2, <1>10 DEF SrvExitFlush, HandlerInv, ConnInv, DbLabels, network, serverSide, clientSide
  <2>2. ASSUME NEW q \in Procs PROVE RoundInv(q)'
    BY <1>2, <1>10 DEF SrvExitFlush, RoundInv, TypeOK, clientSide
  <2>3. QED
    BY <2>1, <2>2
<1>11. ASSUME SrvExit PROVE Kept
  <2>1. HandlerInv'
    BY <1>2, <1>11 DEF SrvExit, EndServer, HandlerInv, ConnInv, DbLabels, network, serverSide, clientSide
  <2>2. ASSUME NEW q \in Procs PROVE RoundInv(q)'
    BY <1>2, <1>11 DEF SrvExit, EndServer, RoundInv, ConnInv, CallInv, TypeOK, RoundsType, CltLabels, network, serverSide, clientSide
  <2>3. QED
    BY <2>1, <2>2
<1>12. ASSUME KillServer PROVE Kept
  <2>1. HandlerInv'
    BY <1>2, <1>12 DEF KillServer, EndServer, HandlerInv, ConnInv, DbLabels, network, serverSide, clientSide
  <2>2. ASSUME NEW q \in Procs PROVE RoundInv(q)'
    BY <1>2, <1>12 DEF KillServer, EndServer, RoundInv, ConnInv, CallInv, TypeOK, RoundsType, CltLabels, network, serverSide, clientSide
  <2>3. QED
    BY <2>1, <2>2
<1>13. ASSUME NEW p \in Procs, Call(p) PROVE Kept
  <2>1. HandlerInv'
    BY <1>2, <1>13 DEF Call, Begin, Goto, HandlerInv, ConnInv, DbLabels, network, serverSide, clientSide
  <2>2. ASSUME NEW q \in Procs PROVE RoundInv(q)'
    BY <1>2, <1>13 DEF Call, Begin, Goto, RoundInv, ConnInv, CallInv, TypeOK, RoundsType, CltLabels, network, serverSide, clientSide
  <2>3. QED
    BY <2>1, <2>2
<1>14. ASSUME NEW p \in Procs, CltConnect(p) PROVE Kept
  <2>1. HandlerInv'
    BY <1>2, <1>14 DEF CltConnect, Advance, Goto, HandlerInv, ConnInv, DbLabels, network, serverSide, clientSide
  <2>2. ASSUME NEW q \in Procs PROVE RoundInv(q)'
    BY <1>2, <1>14 DEF CltConnect, Advance, Goto, RoundInv, ConnInv, CallInv, TypeOK, RoundsType, CltLabels, network, serverSide, clientSide
  <2>3. QED
    BY <2>1, <2>2
<1>15. ASSUME NEW p \in Procs, CltSend(p) PROVE Kept
  <2>1. HandlerInv'
    BY <1>2, <1>15 DEF CltSend, Advance, Goto, HandlerInv, ConnInv, DbLabels, network, serverSide, clientSide
  <2>2. ASSUME NEW q \in Procs PROVE RoundInv(q)'
    BY <1>2, <1>15 DEF CltSend, Advance, Goto, RoundInv, ConnInv, CallInv, TypeOK, RoundsType, CltLabels, network, serverSide, clientSide
  <2>3. QED
    BY <2>1, <2>2
<1>16. ASSUME NEW p \in Procs, CltRecv(p) PROVE Kept
  <2>1. HandlerInv'
    BY <1>2, <1>16 DEF CltRecv, Receive, Goto, HandlerInv, ConnInv, DbLabels, network, serverSide, clientSide
  <2>2. ASSUME NEW q \in Procs PROVE RoundInv(q)'
    BY <1>2, <1>16 DEF CltRecv, Receive, Goto, RoundInv, ConnInv, CallInv, TypeOK, RoundsType, CltLabels, network, serverSide, clientSide
  <2>3. QED
    BY <2>1, <2>2
<1>17. ASSUME NEW p \in Procs, CltRecvFails(p) PROVE Kept
  <2>1. HandlerInv'
    BY <1>2, <1>17 DEF CltRecvFails, Advance, Goto, HandlerInv, ConnInv, DbLabels, network, serverSide, clientSide
  <2>2. ASSUME NEW q \in Procs PROVE RoundInv(q)'
    BY <1>2, <1>17 DEF CltRecvFails, Advance, Goto, RoundInv, ConnInv, CallInv, TypeOK, RoundsType, CltLabels, network, serverSide, clientSide
  <2>3. QED
    BY <2>1, <2>2
<1>18. ASSUME NEW p \in Procs, CltRecvNothing(p) PROVE Kept
  <2>1. HandlerInv'
    BY <1>2, <1>18 DEF CltRecvNothing, Receive, Goto, Responses, HandlerInv, ConnInv, DbLabels, network, serverSide, clientSide
  <2>2. ASSUME NEW q \in Procs PROVE RoundInv(q)'
    BY <1>2, <1>18 DEF CltRecvNothing, Receive, Goto, Responses, RoundInv, ConnInv, CallInv, TypeOK, RoundsType, CltLabels, network, serverSide, clientSide
  <2>3. QED
    BY <2>1, <2>2
<1>19. ASSUME NEW p \in Procs, CltDisconnect(p) PROVE Kept
  <2>1. HandlerInv'
    BY <1>2, <1>19 DEF CltDisconnect, NextRound, Goto, HandlerInv, ConnInv, DbLabels, network, serverSide, clientSide
  <2>2. ASSUME NEW q \in Procs PROVE RoundInv(q)'
    BY <1>2, <1>19 DEF CltDisconnect, NextRound, Goto, RoundInv, ConnInv, CallInv, TypeOK, RoundsType, CltLabels, network, serverSide, clientSide
  <2>3. QED
    BY <2>1, <2>2
<1>20. ASSUME NEW p \in Procs, KillClient(p) PROVE Kept
  <2>1. HandlerInv'
    BY <1>2, <1>20 DEF KillClient, Advance, Goto, HandlerInv, ConnInv, DbLabels, network, serverSide, clientSide
  <2>2. ASSUME NEW q \in Procs PROVE RoundInv(q)'
    BY <1>2, <1>20 DEF KillClient, Advance, Goto, RoundInv, ConnInv, CallInv, TypeOK, RoundsType, CltLabels, network, serverSide, clientSide
  <2>3. QED
    BY <2>1, <2>2
<1>21. ASSUME UNCHANGED vars PROVE Kept
  <2> USE <1>21 DEF vars, network, serverSide, clientSide
  <2>1. HandlerInv'
    BY <1>2 DEF HandlerInv
  <2>2. ASSUME NEW q \in Procs PROVE RoundInv(q)'
    BY <1>2 DEF RoundInv
  <2>3. QED
    BY <2>1, <2>2
<1>22. QED
  BY <1>1, <1>3, <1>4, <1>5, <1>6, <1>7, <1>8, <1>9, <1>10, <1>11, <1>12, <1>13, <1>14, <1>15, <1>16, <1>17, <1>18, <1>19, <1>20, <1>21
  DEF SocketInv, Next, SrvStep, CltStep

-----------------------------------------------------------------------------
\* Types, and the turns of the clients with the one connection the server
\* has in use, hold in every state.
THEOREM SocketCorrect == Spec => []SocketInv
<1>1. Init => SocketInv
  BY SocketInit
<1>2. SocketInv /\ [Next]_vars => SocketInv'
  BY SocketNext
<1>3. QED
  BY <1>1, <1>2, PTL DEF Spec

\* Only a stop, a kill, or the last descriptor ends the server; no client
\* that goes away does (socket.c:85 and :96).
THEOREM OnlyFaultsStop == Spec => OnlyFaultsStopServer
<1>1. ASSUME SocketInv, [Next]_vars
      PROVE  [srv # "down" /\ srv' = "down" =>
                faults' > faults \/ srv = "exit" \/ (srv = "accept" /\ fds = MaxFds)]_vars
  <2>1. SUFFICES ASSUME Next, srv # "down", srv' = "down"
        PROVE  faults' > faults \/ srv = "exit" \/ (srv = "accept" /\ fds = MaxFds)
    BY <1>1
  <2>2. faults \in Nat
    BY <1>1 DEF SocketInv, ConnectionsInv, TypeOK, RoundsType
  <2>3. CASE KillServer
    BY <2>2, <2>3 DEF KillServer, Fault
  <2>4. CASE SrvHandle
    BY <1>1, <2>1, <2>4, HandleStep DEF SocketInv, DbLabels
  <2>5. CASE SrvAccept \/ SrvExit
    BY <2>1, <2>5 DEF SrvAccept, SrvExit
  <2>6. CASE \/ SrvStart \/ SrvRecv \/ SrvRecvNothing \/ SrvSend \/ SrvStop \/ SrvExitFlush
             \/ \E p \in Procs : Call(p) \/ CltStep(p) \/ KillClient(p)
    BY <2>1, <2>6
       DEF SrvStart, SrvRecv, SrvRecvNothing, SrvSend, SrvStop, SrvExitFlush, Call, CltStep, CltConnect,
           CltSend, CltRecv, CltRecvFails, CltRecvNothing, CltDisconnect, KillClient, serverSide
  <2>7. QED
    BY <2>1, <2>3, <2>4, <2>5, <2>6 DEF Next, SrvStep
<1>2. QED
  BY <1>1, SocketCorrect, PTL DEF Spec, OnlyFaultsStopServer

\* A file loses its number only if the server is killed, or stopped before
\* fprintf, while it rewrites that file (server.c:172, productDB.c:108).
THEOREM DamageIsConfined == Spec => DamageConfined
<1>1. ASSUME SocketInv, [Next]_vars
      PROVE  [\A n \in Names : Damaged(n)' /\ ~Damaged(n) =>
                /\ Rewriting(n)
                /\ faults' > faults
                /\ srv' = "exit" => srv = "print"]_vars
  <2>1. SUFFICES ASSUME Next, NEW n \in Names, Damaged(n)', ~Damaged(n)
        PROVE  /\ Rewriting(n)
               /\ faults' > faults
               /\ srv' = "exit" => srv = "print"
    BY <1>1
  <2>2. faults \in Nat /\ stock \in [Names -> Ints \cup {Absent, Empty}]
    BY <1>1 DEF SocketInv, ConnectionsInv, TypeOK, RoundsType
  <2>3. CASE SrvHandle
    BY <1>1, <2>1, <2>3, HandleStep DEF SocketInv
  <2>4. ASSUME stock' = stock, ~Rewriting(n), ~Rewriting(n)' PROVE FALSE
    BY <2>1, <2>4 DEF Damaged, StockNow
  <2>5. ASSUME UNCHANGED <<stock, srv, serving, found>> PROVE FALSE
    BY <2>1, <2>5 DEF Damaged, StockNow, Rewriting
  <2>6. CASE KillServer
    <3>1. stock' = stock /\ srv' = "down" /\ faults' > faults
      BY <2>2, <2>6 DEF KillServer, EndServer, Fault
    <3>2. ~Rewriting(n)'
      BY <3>1 DEF Rewriting
    <3>3. srv' # "exit"
      BY <3>1
    <3>4. QED
      BY <2>4, <3>1, <3>2, <3>3
  <2>7. CASE SrvStop
    <3>1. stock' = stock /\ UNCHANGED <<serving, found>> /\ faults' > faults
      BY <2>2, <2>7 DEF SrvStop, Fault
    <3>2. Rewriting(n)
      BY <2>4, <2>7, <3>1 DEF SrvStop, Rewriting
    <3>3. srv # "flush"
      BY <2>1, <2>7, <3>1, <3>2 DEF SrvStop, Damaged, StockNow, Rewriting
    <3>4. QED
      BY <2>7, <3>1, <3>2, <3>3 DEF SrvStop, Rewriting
  <2>8. CASE SrvExitFlush
    <3>1. serving.message \in Messages /\ found \in Ints \cup {Absent}
      BY <1>1, <2>8 DEF SrvExitFlush, SocketInv, ConnectionsInv, ConnInv, TypeOK, Incoming
    <3>2. HoldsAfter(serving.message, found) # Empty
      BY <3>1, HandlerTypes, EmptyAssumption DEF Ints
    <3>3. /\ stock' = [stock EXCEPT ![serving.message.name] = HoldsAfter(serving.message, found)]
          /\ ~Rewriting(n)' /\ stock'[n] = Empty
      BY <2>1, <2>8 DEF SrvExitFlush, Written, Damaged, StockNow, Rewriting
    <3>4. stock[n] = Empty /\ serving.message.name # n
      BY <2>2, <3>2, <3>3
    <3>5. QED
      BY <2>1, <3>4 DEF Damaged, StockNow, Rewriting
  <2>9. CASE SrvStart \/ SrvAccept \/ SrvRecv \/ SrvRecvNothing \/ SrvSend \/ SrvExit
    <3>1. stock' = stock
      BY <2>9 DEF SrvStart, SrvAccept, SrvRecv, SrvRecvNothing, SrvSend, SrvExit
    <3>2. srv \notin {"print", "flush", "exitflush"} /\ srv' \notin {"print", "flush", "exitflush"}
      BY <2>9 DEF EndServer, SrvStart, SrvAccept, SrvRecv, SrvRecvNothing, SrvSend, SrvExit
    <3>3. QED
      BY <2>4, <3>1, <3>2 DEF Rewriting
  <2>10. CASE \E p \in Procs : Call(p) \/ CltStep(p) \/ KillClient(p)
    <3>1. UNCHANGED <<stock, srv, serving, found>>
      BY <2>10
         DEF Call, CltStep, CltConnect, CltSend, CltRecv, CltRecvFails, CltRecvNothing,
             CltDisconnect, KillClient, serverSide
    <3>2. QED
      BY <2>5, <3>1
  <2>11. QED
    BY <2>1, <2>3, <2>6, <2>7, <2>8, <2>9, <2>10 DEF Next, SrvStep
<1>2. QED
  BY <1>1, SocketCorrect, PTL DEF Spec, DamageConfined

-----------------------------------------------------------------------------
\* What StockServer_proofs says of a step, about the clients as seen here.
Facts == INSTANCE StockServer_proofs
           WITH stock <- StockNow, request <- RequestNow, rpc <- RpcNow, resp <- RespNow

\* The views are functions, and the constants are as assumed here.
LEMMA Viewed ==
  /\ Facts!Views /\ Facts!Views'
  /\ IntMax \in Nat /\ Quantities \subseteq Facts!Ints /\ Absent \notin Int
  BY IntMaxAssumption, QuantitiesAssumption, AbsentAssumption
     DEF Facts!Views, RequestNow, RpcNow, RespNow, Facts!Ints, Ints

\* Both instances have the data of this module, and the same steps.
LEMMA SameData ==
  /\ Facts!Requests = Requests
  /\ \A r : /\ Facts!Refused(r) <=> Refused(r)
            /\ Facts!FirstMessage(r) = FirstMessage(r) /\ Facts!AddMessage(r) = AddMessage(r)
            /\ \A m, x : Facts!GoesOn(r, m, x) <=> GoesOn(r, m, x)
  /\ \A m, x : /\ Facts!HoldsAfter(m, x) = HoldsAfter(m, x)
               /\ Facts!ResponseTo(m, x) = ResponseTo(m, x)
  BY DEF Facts!Requests, Requests, Facts!Refused, Refused, Facts!FirstMessage, FirstMessage,
         Facts!AddMessage, AddMessage, Facts!Message, Message, Facts!Delta, Delta,
         Facts!GoesOn, GoesOn, Facts!HoldsAfter, HoldsAfter, Facts!Wrap, Wrap,
         Facts!ResponseTo, ResponseTo

\* A step of the one instance is a step of the other.
LEMMA SameSteps == Facts!ServerNext => Service!ServerNext
  BY DEF Facts!ServerNext, Service!ServerNext, Facts!Forget, Service!Forget, Facts!Call, Service!Call,
         Facts!Serve, Service!Serve, Facts!Answer, Service!Answer, Facts!Die, Service!Die,
         Facts!ServeDead, Service!ServeDead, Facts!Lose, Service!Lose, Facts!Dead, Service!Dead,
         Facts!Requests, Service!Requests, Facts!Refused, Service!Refused,
         Facts!FirstMessage, Service!FirstMessage, Facts!AddMessage, Service!AddMessage,
         Facts!Message, Service!Message, Facts!Delta, Service!Delta, Facts!GoesOn, Service!GoesOn,
         Facts!HoldsAfter, Service!HoldsAfter, Facts!Wrap, Service!Wrap,
         Facts!ResponseTo, Service!ResponseTo

-----------------------------------------------------------------------------
\* The three views, case by case.
LEMMA Seen ==
  ASSUME NEW q \in Procs
  PROVE  /\ RequestNow[q] = IF Lost(q) THEN Gone ELSE request[q]
         /\ RpcNow[q] = IF Lost(q) /\ ~InFlight(q) THEN NoMessage ELSE rpc[q]
         /\ RespNow[q] = IF Lost(q) THEN Pending
                         ELSE IF answer # Pending /\ serving.from = q THEN answer
                         ELSE IF reply[q] # Pending THEN reply[q]
                         ELSE resp[q]
  BY DEF RequestNow, RpcNow, RespNow

\* The same after the step.
LEMMA SeenThen ==
  ASSUME NEW q \in Procs
  PROVE  /\ RequestNow'[q] = IF Lost(q)' THEN Gone ELSE request'[q]
         /\ RpcNow'[q] = IF Lost(q)' /\ ~InFlight(q)' THEN NoMessage ELSE rpc'[q]
         /\ RespNow'[q] = IF Lost(q)' THEN Pending
                          ELSE IF answer' # Pending /\ serving'.from = q THEN answer'
                          ELSE IF reply'[q] # Pending THEN reply'[q]
                          ELSE resp'[q]
  BY DEF RequestNow, RpcNow, RespNow

\* Before the server is started nobody waits for anything.
LEMMA InitRefines == Init => Service!ServerInit
<1> SUFFICES ASSUME Init PROVE Service!ServerInit
  OBVIOUS
<1>1. ASSUME NEW q \in Procs
      PROVE  RequestNow[q] = Idle /\ RpcNow[q] = NoMessage /\ RespNow[q] = Pending
  BY Seen DEF Init, RoundsInit, Lost
<1>2. StockNow = stock
  BY DEF Init, RoundsInit, StockNow, Rewriting
<1>3. QED
  BY <1>1, <1>2 DEF Init, RoundsInit, Service!ServerInit, RequestNow, RpcNow, RespNow

\* The files are as they were when no rewriting begins or ends.
LEMMA SameStock ==
  ASSUME stock' = stock,
         \/ srv \notin {"print", "flush", "exitflush"} /\ srv' \notin {"print", "flush", "exitflush"}
         \/ UNCHANGED <<srv, serving, found>>
  PROVE  StockNow' = StockNow
  BY DEF StockNow, Rewriting

\* Whoever is served, or has sent a message, waits and has no response.
LEMMA Waiting ==
  ASSUME SocketInv, NEW q \in Procs, q \in sent \/ (serving # NoMessage /\ serving.from = q)
  PROVE  /\ pc[q] \in {"recv", "exited"}
         /\ reply[q] = Pending
         /\ pc[q] = "recv" => link[q] = "open" /\ resp[q] = Pending
         /\ q \in sent => serving = NoMessage \/ serving.from # q
<1>1. LinkInv(q) /\ ConnInv /\ RoundInv(q) /\ CallInv(q) /\ NoMessage \notin Procs
  BY NoMessageAssumption DEF SocketInv, ConnectionsInv, OneConnection
<1>2. QED
  BY <1>1 DEF LinkInv, ConnInv, RoundInv, CallInv

\* A handler's last access to the files serves the message, and the steps
\* before it show nothing.
LEMMA Serves ==
  ASSUME SocketInv, NEW m \in Messages, serving.message = m, answer = Pending,
         StockNow[m.name] \in Ints \cup {Absent},
         serving # NoMessage, serving' = serving, UNCHANGED <<clientSide, reply, sent, link>>,
         answer' = ResponseTo(m, StockNow[m.name]),
         StockNow' = [StockNow EXCEPT ![m.name] = HoldsAfter(m, @)],
         serving.from = NoMessage => StockNow' = StockNow
  PROVE  Facts!ServerNext
<1> DEFINE Same(q) == /\ RequestNow'[q] = RequestNow[q]
                      /\ RpcNow'[q] = RpcNow[q]
                      /\ RespNow'[q] = RespNow[q]
<1> HIDE DEF Same
<1>1. ASSUME NEW q \in Procs PROVE Lost(q)' <=> Lost(q)
  BY DEF Lost, clientSide
<1>2. ASSUME NEW q \in Procs, serving.from # q PROVE Same(q)
  <2>1. InFlight(q)' <=> InFlight(q)
    BY <1>2 DEF InFlight
  <2>2. QED
    BY <1>1, <1>2, <2>1, Seen, SeenThen DEF Same, clientSide
<1>3. CASE serving.from \notin Procs
  <2>1. serving.from = NoMessage
    BY <1>3 DEF SocketInv, ConnectionsInv, TypeOK, Incoming
  <2>2. QED
    BY <1>2, <1>3, <2>1, Facts!QuietStep, Viewed DEF Same
<1>4. CASE serving.from \in Procs
  <2>1. PICK c \in Procs : serving.from = c
    BY <1>4
  <2>2. m # NoMessage /\ rpc[c] = m
    BY <2>1, RoundsValuesAssumption DEF SocketInv, RoundInv
  <2>3. answer' # Pending
    BY HandlerTypes, RoundsValuesAssumption
  <2>4. InFlight(c) /\ (InFlight(c)' <=> c \in sent) /\ c \notin sent
    BY <2>1, <2>3, Waiting DEF InFlight
  <2>5. RpcNow[c] = m /\ RequestNow'[c] = RequestNow[c]
    BY <1>1, <2>2, <2>4, Seen, SeenThen DEF clientSide
  <2>6. IF RequestNow[c] = Gone
        THEN RpcNow'[c] = NoMessage /\ RespNow'[c] = RespNow[c]
        ELSE /\ RpcNow'[c] = RpcNow[c]
             /\ RespNow[c] = Pending /\ RespNow'[c] = ResponseTo(m, StockNow[m.name])
    <3>1. CASE Lost(c)
      BY <1>1, <2>4, <3>1, Seen, SeenThen
    <3>2. CASE ~Lost(c)
      <4>1. reply[c] = Pending /\ resp[c] = Pending
        BY <2>1, <3>2, Waiting DEF Lost
      <4>2. RequestNow[c] # Gone
        BY <3>2, Seen, RoundsValuesAssumption DEF SocketInv, ConnectionsInv, TypeOK, RoundsType
      <4>3. RpcNow'[c] = RpcNow[c]
        BY <1>1, <3>2, Seen, SeenThen DEF clientSide
      <4>4. RespNow[c] = Pending
        BY <3>2, <4>1, Seen
      <4>5. RespNow'[c] = answer'
        BY <1>1, <2>1, <2>3, <3>2, SeenThen
      <4>6. QED
        BY <4>2, <4>3, <4>4, <4>5
    <3>3. QED
      BY <3>1, <3>2
  <2>7. QED
    BY <1>2, <2>1, <2>2, <2>5, <2>6, Facts!ServeStep, Viewed, SameData DEF Same
<1>5. QED
  BY <1>3, <1>4

\* The handler of a message, over files that all have a number.
LEMMA HandlerRefines ==
  ASSUME SocketInv, SrvHandle, Sound, ~Blind
  PROVE  Facts!ServerNext
<1>1. /\ serving # NoMessage /\ serving' = serving
      /\ serving.message \in Messages /\ serving.message.name \in Names
      /\ stock \in [Names -> Ints \cup {Absent, Empty}] /\ found \in Ints \cup {Absent}
      /\ srv \in DbLabels /\ answer = Pending
      /\ HandlerInv
      /\ serving.from = NoMessage => StockNow' = StockNow
      /\ UNCHANGED <<clientSide, reply, sent, link>>
  BY HandleStep
     DEF SocketInv, ConnectionsInv, HandlerInv, ConnInv, TypeOK, Incoming, Messages, Blind,
         SrvHandle, network
<1>2. PICK m \in Messages : serving.message = m
  BY <1>1
<1>3. m.name \in Names /\ m.type \in {"GET_PRODUCT", "WRITE_PRODUCT", "REMOVE_PRODUCT"}
  BY <1>1, <1>2 DEF Messages
<1>4. ASSUME answer' = answer, StockNow' = StockNow PROVE Facts!ServerNext
  <2>1. ASSUME NEW q \in Procs
        PROVE  /\ RequestNow'[q] = RequestNow[q] /\ RpcNow'[q] = RpcNow[q]
               /\ RespNow'[q] = RespNow[q]
    BY <1>1, <1>4, Seen, SeenThen DEF Lost, InFlight, clientSide
  <2>2. QED
    BY <1>4, <2>1, Facts!QuietStep, Viewed
<1>5. \A n \in Names : /\ Rewriting(n) <=> srv \in {"print", "flush", "exitflush"} /\ m.name = n
                       /\ StockNow[n] = IF Rewriting(n) THEN found ELSE stock[n]
                       /\ StockNow[n] \in Ints \cup {Absent} /\ StockNow[n] # Empty
  BY <1>1, <1>2 DEF Rewriting, StockNow, Sound, Damaged
<1>6. \A n \in Names : /\ Rewriting(n)' <=> srv' \in {"print", "flush", "exitflush"} /\ m.name = n
                       /\ StockNow'[n] = IF Rewriting(n)' THEN found' ELSE stock'[n]
  BY <1>1, <1>2 DEF Rewriting, StockNow
<1>7. /\ StockNow = [n \in Names |-> StockNow[n]]
      /\ StockNow' = [n \in Names |-> StockNow'[n]]
  BY DEF StockNow
<1>8. CASE DbLook
  <2>1. PICK held \in Readable(m.name) :
          IF m.type = "WRITE_PRODUCT" \/ (m.type = "REMOVE_PRODUCT" /\ held # Absent)
          THEN /\ srv' = IF m.type = "WRITE_PRODUCT" THEN "truncate" ELSE "remove"
               /\ found' = held
               /\ UNCHANGED answer
          ELSE Respond(held)
    BY <1>2, <1>8 DEF DbLook
  <2>2. held = StockNow[m.name] /\ srv' \in {"truncate", "remove", "send"} /\ srv = "handle"
    BY <1>3, <1>5, <1>8, <2>1 DEF Readable, DbLook, Respond
  <2>3. StockNow' = StockNow
    BY <1>8, <2>2, SameStock DEF DbLook
  <2>4. CASE m.type = "WRITE_PRODUCT" \/ (m.type = "REMOVE_PRODUCT" /\ held # Absent)
    BY <1>4, <2>1, <2>3, <2>4
  <2>5. CASE ~(m.type = "WRITE_PRODUCT" \/ (m.type = "REMOVE_PRODUCT" /\ held # Absent))
    <3>1. answer' = ResponseTo(m, StockNow[m.name])
      BY <1>2, <2>1, <2>2, <2>5 DEF Respond
    <3>2. HoldsAfter(m, StockNow[m.name]) = StockNow[m.name]
      BY <1>3, <2>2, <2>5 DEF HoldsAfter
    <3>3. StockNow' = [StockNow EXCEPT ![m.name] = HoldsAfter(m, @)]
      BY <1>7, <2>3, <3>2
    <3>4. QED
      BY <1>1, <1>2, <1>3, <1>5, <3>1, <3>3, Serves
  <2>6. QED
    BY <2>4, <2>5
<1>9. CASE DbRemove
  <2>1. /\ srv = "remove" /\ srv' = "send" /\ answer' = ResponseTo(m, found)
        /\ stock' = [stock EXCEPT ![m.name] = Absent]
        /\ m.type = "REMOVE_PRODUCT" /\ stock[m.name] \in {found, Empty}
    BY <1>1, <1>2, <1>9 DEF DbRemove, Respond, HandlerInv
  <2>2. found = StockNow[m.name] /\ HoldsAfter(m, StockNow[m.name]) = Absent
    BY <1>3, <1>5, <2>1 DEF HoldsAfter
  <2>3. \A n \in Names : StockNow'[n] = IF n = m.name THEN Absent ELSE StockNow[n]
    BY <1>1, <1>5, <1>6, <2>1
  <2>4. StockNow' = [StockNow EXCEPT ![m.name] = HoldsAfter(m, @)]
    BY <1>7, <2>2, <2>3
  <2>5. QED
    BY <1>1, <1>2, <1>3, <1>5, <2>1, <2>2, <2>4, Serves
<1>10. CASE DbTruncate
  <2>1. /\ srv = "truncate" /\ srv' = "print" /\ UNCHANGED <<answer, found>>
        /\ stock' = [stock EXCEPT ![m.name] = Empty]
        /\ stock[m.name] \in {found, Empty}
    BY <1>1, <1>2, <1>10 DEF DbTruncate, HandlerInv
  <2>2. \A n \in Names : StockNow'[n] = StockNow[n]
    BY <1>1, <1>3, <1>5, <1>6, <2>1
  <2>3. QED
    BY <1>4, <1>7, <2>1, <2>2
<1>11. CASE DbPrint
  <2>1. srv = "print" /\ srv' = "flush" /\ UNCHANGED <<stock, answer, found>>
    BY <1>11 DEF DbPrint
  <2>2. \A n \in Names : StockNow'[n] = StockNow[n]
    BY <1>5, <1>6, <2>1
  <2>3. QED
    BY <1>4, <1>7, <2>1, <2>2
<1>12. CASE DbFlush
  <2>1. /\ srv = "flush" /\ srv' = "send" /\ answer' = ResponseTo(m, found)
        /\ stock' = [stock EXCEPT ![m.name] = HoldsAfter(m, found)]
    BY <1>2, <1>12 DEF DbFlush, Respond, Written
  <2>2. found = StockNow[m.name]
    BY <1>3, <1>5, <2>1
  <2>3. \A n \in Names : StockNow'[n] = IF n = m.name THEN HoldsAfter(m, found) ELSE StockNow[n]
    BY <1>1, <1>5, <1>6, <2>1
  <2>4. StockNow' = [StockNow EXCEPT ![m.name] = HoldsAfter(m, @)]
    BY <1>7, <2>2, <2>3
  <2>5. QED
    BY <1>1, <1>2, <1>3, <1>5, <2>1, <2>2, <2>4, Serves
<1>13. QED
  BY <1>8, <1>9, <1>10, <1>11, <1>12 DEF SrvHandle, DbStep

\* The server ends: the client of the connection in use is lost, unless its
\* message was still unread, and so are messages the dead have sent.
LEMMA EndRefines ==
  ASSUME SocketInv, EndServer, StockNow' = StockNow
  PROVE  Facts!ServerNext
<1>1. /\ UNCHANGED <<reply, clientSide>> /\ answer' = Pending
      /\ \A q \in Procs : ~InFlight(q)'
      /\ \A q \in Procs :
           link'[q] = IF link[q] # "open" \/ reply[q] # Pending THEN link[q]
                      ELSE IF q = conn /\ q \notin sent THEN "ended" ELSE "reset"
  BY DEF EndServer, InFlight
<1>2. /\ ConnInv /\ HandlerInv /\ NoMessage \notin Procs
      /\ \A q \in Procs : LinkInv(q) /\ CallInv(q) /\ RoundInv(q)
      /\ \A q \in Procs : ~Lost(q) => RequestNow[q] # Gone
  BY Seen, NoMessageAssumption, RoundsValuesAssumption
     DEF SocketInv, ConnectionsInv, OneConnection, TypeOK, RoundsType
<1>3. ASSUME NEW q \in Procs, q # conn \/ q \in sent \/ pc[q] = "exited"
      PROVE  /\ RequestNow'[q] = RequestNow[q] /\ RespNow'[q] = RespNow[q]
             /\ RpcNow'[q] = RpcNow[q] \/ (RequestNow[q] = Gone /\ RpcNow'[q] = NoMessage)
  <2>1. Lost(q)' <=> Lost(q)
    BY <1>1, <1>2, <1>3 DEF Lost, clientSide
  <2>2. CASE Lost(q)
    BY <1>1, <2>1, <2>2, Seen, SeenThen DEF clientSide
  <2>3. CASE ~Lost(q)
    <3>1. ~(answer # Pending /\ serving.from = q)
      BY <1>2, <1>3, <2>3 DEF ConnInv, HandlerInv, Lost
    <3>2. QED
      BY <1>1, <2>1, <2>3, <3>1, Seen, SeenThen DEF clientSide
  <2>4. QED
    BY <2>2, <2>3
<1>4. CASE conn \in Procs \ sent /\ pc[conn] # "exited"
  <2>1. PICK c \in Procs : conn = c
    BY <1>4
  <2>2. pc[c] \in {"send", "recv"} /\ link[c] = "open" /\ reply[c] = Pending
    BY <1>2, <1>4, <2>1 DEF LinkInv
  <2>3. ~Lost(c) /\ Lost(c)'
    BY <1>1, <1>4, <2>1, <2>2 DEF Lost, clientSide
  <2>4. RequestNow[c] # Gone /\ RequestNow'[c] = Gone /\ RespNow'[c] = Pending
        /\ RpcNow'[c] = NoMessage
    BY <1>1, <1>2, <2>3, SeenThen
  <2>5. QED
    BY <1>3, <2>1, <2>4, Facts!DieStep, Viewed
<1>5. CASE ~(conn \in Procs \ sent /\ pc[conn] # "exited")
  BY <1>3, <1>5, Facts!QuietStep, Viewed
<1>6. QED
  BY <1>4, <1>5

\* Every step of Socket between states with sound files is a step of
\* StockServer, but for those that act on a recv of 0 bytes.
LEMMA StepRefines ==
  ASSUME SocketInv, Next, Sound, Sound', ~Blind
  PROVE  Facts!ServerNext
<1> DEFINE Same(q) == /\ RequestNow'[q] = RequestNow[q]
                      /\ RpcNow'[q] = RpcNow[q]
                      /\ RespNow'[q] = RespNow[q]
<1> HIDE DEF Same
<1>1. /\ TypeOK /\ ConnInv /\ HandlerInv /\ NoMessage \notin Procs
      /\ \A q \in Procs : LinkInv(q) /\ CallInv(q) /\ RoundInv(q)
      /\ \A q \in Procs : ~Lost(q) => RequestNow[q] # Gone
  BY Seen, NoMessageAssumption, RoundsValuesAssumption
     DEF SocketInv, ConnectionsInv, OneConnection, TypeOK, RoundsType
<1>2. ASSUME StockNow' = StockNow, \A q \in Procs : Same(q) PROVE Facts!ServerNext
  BY <1>2, Facts!QuietStep, Viewed DEF Same
\* A file that is being rewritten has no number when the rewriting stops.
<1>3. ASSUME stock' = stock, srv' \notin {"print", "flush", "exitflush"} PROVE StockNow' = StockNow
  <2>1. CASE srv \in {"print", "flush", "exitflush"}
    <3>1. PICK n \in Names : serving.message.name = n
      BY <1>1, <2>1 DEF ConnInv, DbLabels, TypeOK, Incoming, Messages
    <3>2. stock[n] = Empty
      BY <1>1, <2>1, <3>1 DEF HandlerInv
    <3>3. StockNow'[n] = Empty
      BY <1>3, <3>2 DEF StockNow, Rewriting
    <3>4. QED
      BY <3>3 DEF Sound, Damaged
  <2>2. CASE srv \notin {"print", "flush", "exitflush"}
    BY <1>3, <2>2, SameStock
  <2>3. QED
    BY <2>1, <2>2
<1>4. CASE SrvStart
  <2>1. StockNow' = StockNow
    BY <1>3, <1>4 DEF SrvStart
  <2>2. ASSUME NEW q \in Procs PROVE Same(q)
    BY <1>4, Seen, SeenThen DEF SrvStart, network, clientSide, Same, Lost, InFlight
  <2>3. QED
    BY <1>2, <2>1, <2>2
<1>5. CASE SrvAccept
  <2>1. CASE fds = MaxFds
    <3>1. StockNow' = StockNow
      BY <1>3, <1>5, <2>1 DEF SrvAccept, EndServer
    <3>2. QED
      BY <1>5, <2>1, <3>1, EndRefines DEF SrvAccept
  <2>2. CASE fds # MaxFds
    <3>1. StockNow' = StockNow
      BY <1>3, <1>5, <2>2 DEF SrvAccept
    <3>2. ASSUME NEW q \in Procs PROVE Same(q)
      BY <1>5, <2>2, Seen, SeenThen DEF SrvAccept, clientSide, Same, Lost, InFlight
    <3>3. QED
      BY <1>2, <3>1, <3>2
  <2>3. QED
    BY <2>1, <2>2
<1>6. CASE SrvRecv
  <2>1. StockNow' = StockNow
    BY <1>3, <1>6 DEF SrvRecv
  <2>2. PICK c \in Procs : conn = c
    BY <1>1, <1>6 DEF SrvRecv, TypeOK
  <2>3. /\ UNCHANGED <<clientSide, reply, link, answer>> /\ answer = Pending
        /\ serving = NoMessage /\ serving' # NoMessage /\ serving'.from = c
        /\ c \in sent /\ sent' = sent \ {c}
    <3>1. serving' \in Incoming
      BY <1>1, <1>6, <2>2 DEF SrvRecv, Incoming, CallInv
    <3>2. QED
      BY <1>1, <1>6, <2>2, <3>1, NoMessageAssumption DEF SrvRecv, ConnInv, HandlerInv
  <2>4. ASSUME NEW q \in Procs PROVE InFlight(q)' <=> InFlight(q)
    BY <2>3 DEF InFlight
  <2>5. ASSUME NEW q \in Procs PROVE Same(q)
    BY <2>3, <2>4, Seen, SeenThen DEF clientSide, Same, Lost
  <2>6. QED
    BY <1>2, <2>1, <2>5
<1>7. CASE SrvRecvNothing
  <2>1. StockNow' = StockNow
    BY <1>3, <1>7 DEF SrvRecvNothing
  <2>2. /\ UNCHANGED <<clientSide, network, answer>> /\ answer = Pending
        /\ serving = NoMessage /\ serving'.from = NoMessage
    BY <1>1, <1>7 DEF SrvRecvNothing, ConnInv, HandlerInv
  <2>3. ASSUME NEW q \in Procs PROVE InFlight(q)' <=> InFlight(q)
    BY <1>1, <2>2 DEF InFlight, network
  <2>4. ASSUME NEW q \in Procs PROVE Same(q)
    BY <2>2, <2>3, Seen, SeenThen DEF clientSide, network, Same, Lost
  <2>5. QED
    BY <1>2, <2>1, <2>4
<1>8. CASE SrvSend
  <2>1. StockNow' = StockNow
    BY <1>3, <1>8 DEF SrvSend
  <2>2. PICK c \in Procs : conn = c
    BY <1>1, <1>8 DEF SrvSend, ConnInv, SrvLabels
  <2>3. /\ UNCHANGED <<clientSide, link, sent>> /\ answer \in Responses /\ answer # Pending
        /\ serving # NoMessage /\ answer' = Pending /\ serving' = NoMessage
        /\ reply' = IF pc[c] = "exited" THEN reply ELSE [reply EXCEPT ![c] = answer]
        /\ reply \in [Procs -> Responses \cup {Pending}]
        /\ serving.from = c \/ (serving.from = NoMessage /\ pc[c] = "exited")
    BY <1>1, <1>8, <2>2, RoundsValuesAssumption DEF SrvSend, ConnInv, TypeOK
  <2>4. ASSUME NEW q \in Procs PROVE (InFlight(q)' <=> InFlight(q)) /\ (Lost(q)' <=> Lost(q))
    BY <2>3 DEF InFlight, Lost, clientSide
  <2>5. ASSUME NEW q \in Procs \ {c} PROVE Same(q)
    <3>1. reply'[q] = reply[q] /\ serving.from # q
      BY <1>1, <2>3, <2>5
    <3>2. QED
      BY <2>3, <2>4, <3>1, Seen, SeenThen DEF clientSide, Same
  <2>6. Same(c)
    <3>1. CASE pc[c] = "exited"
      BY <2>3, <2>4, <3>1, Seen, SeenThen DEF clientSide, Same, Lost
    <3>2. CASE pc[c] # "exited"
      <4>1. reply'[c] = answer
        BY <2>3, <3>2
      <4>2. QED
        BY <2>3, <2>4, <3>2, <4>1, Seen, SeenThen DEF clientSide, Same
    <3>3. QED
      BY <3>1, <3>2
  <2>7. QED
    BY <1>2, <2>1, <2>5, <2>6
<1>9. CASE SrvStop
  <2>1. StockNow' = StockNow
    <3>1. CASE srv = "flush"
      BY <1>9, <3>1 DEF SrvStop, StockNow, Rewriting
    <3>2. CASE srv # "flush"
      BY <1>3, <1>9, <3>2 DEF SrvStop
    <3>3. QED
      BY <3>1, <3>2
  <2>2. ASSUME NEW q \in Procs PROVE Same(q)
    BY <1>9, Seen, SeenThen DEF SrvStop, network, clientSide, Same, Lost, InFlight
  <2>3. QED
    BY <1>2, <2>1, <2>2
<1>10. CASE SrvExitFlush
  <2>1. PICK m \in Messages : serving.message = m
    BY <1>1, <1>10 DEF SrvExitFlush, ConnInv, TypeOK, Incoming
  <2>2. /\ UNCHANGED <<clientSide, reply, sent, link, serving>> /\ serving # NoMessage
        /\ answer = Pending /\ answer' = ResponseTo(m, found) /\ m.name \in Names
        /\ stock' = [stock EXCEPT ![m.name] = HoldsAfter(m, found)]
        /\ stock \in [Names -> Ints \cup {Absent, Empty}] /\ srv' = "exit"
        /\ found \in Ints \cup {Absent}
    BY <1>1, <1>10, <2>1
       DEF SrvExitFlush, Written, network, ConnInv, HandlerInv, TypeOK, Messages
  <2>3. /\ found = StockNow[m.name]
        /\ \A n \in Names : n # m.name => StockNow[n] = stock[n]
        /\ \A n \in Names : StockNow'[n] = stock'[n]
    BY <1>10, <2>1, <2>2 DEF SrvExitFlush, StockNow, Rewriting
  <2>4. \A n \in Names :
          StockNow'[n] = IF n = m.name THEN HoldsAfter(m, found) ELSE StockNow[n]
    BY <2>2, <2>3
  <2>5. StockNow' = [StockNow EXCEPT ![m.name] = HoldsAfter(m, @)]
    <3>1. /\ StockNow = [n \in Names |-> StockNow[n]]
          /\ StockNow' = [n \in Names |-> StockNow'[n]]
      BY DEF StockNow
    <3>2. QED
      BY <2>3, <2>4, <3>1
  <2>6. serving.from = NoMessage => StockNow' = StockNow
    BY <2>2 DEF Blind
  <2>7. QED
    BY <2>1, <2>2, <2>3, <2>5, <2>6, Serves
<1>11. CASE SrvExit \/ KillServer
  <2>1. EndServer /\ StockNow' = StockNow
    BY <1>3, <1>11 DEF SrvExit, KillServer, EndServer
  <2>2. QED
    BY <2>1, EndRefines
\* A client's steps leave the server and the files alone.
<1>12. ASSUME UNCHANGED <<serverSide, found>> PROVE StockNow' = StockNow
  BY <1>12, SameStock DEF serverSide
<1>13. ASSUME NEW p \in Procs, Call(p) PROVE Facts!ServerNext
  <2>1. PICK r \in Requests : /\ ~Refused(r)
                              /\ request' = [request EXCEPT ![p] = r]
                              /\ rpc' = [rpc EXCEPT ![p] = FirstMessage(r)]
    BY <1>13 DEF Call, Begin
  <2>2. /\ UNCHANGED <<network, serving, answer, resp>> /\ pc[p] = "idle" /\ request[p] = Idle
        /\ \A q \in Procs : pc'[q] = IF q = p THEN "connect" ELSE pc[q]
        /\ \A q \in Procs : request'[q] = IF q = p THEN r ELSE request[q]
        /\ \A q \in Procs : rpc'[q] = IF q = p THEN FirstMessage(r) ELSE rpc[q]
    BY <1>1, <1>13, <2>1 DEF Call, Begin, Goto, TypeOK, RoundsType, RoundInv, serverSide
  <2>3. \A q \in Procs : InFlight(q)' <=> InFlight(q)
    BY <2>2 DEF InFlight, network
  <2>4. /\ RequestNow[p] = Idle /\ RequestNow'[p] = r /\ RpcNow'[p] = FirstMessage(r)
        /\ RespNow'[p] = RespNow[p]
    BY <2>2, Seen, SeenThen DEF Lost, network
  <2>5. ASSUME NEW q \in Procs \ {p} PROVE Same(q)
    BY <2>2, <2>3, <2>5, Seen, SeenThen DEF Same, Lost, network
  <2>6. StockNow' = StockNow
    BY <1>12, <1>13 DEF Call
  <2>7. QED
    BY <2>1, <2>2, <2>4, <2>5, <2>6, Facts!CallStep, Viewed, SameData DEF Same
<1>14. ASSUME NEW p \in Procs,
              CltConnect(p) \/ CltSend(p) \/ CltRecvFails(p) \/ KillClient(p)
       PROVE  Facts!ServerNext
  <2>1. /\ UNCHANGED <<serving, answer, request, rpc, resp>>
        /\ \A q \in Procs \ {p} : /\ pc'[q] = pc[q] /\ reply'[q] = reply[q] /\ link'[q] = link[q]
                                  /\ q \in sent' <=> q \in sent
        /\ StockNow' = StockNow
    <3>1. UNCHANGED <<serverSide, found, request, rpc, resp>>
      BY <1>14 DEF CltConnect, CltSend, CltRecvFails, KillClient, Advance
    <3>2. \A q \in Procs \ {p} : /\ pc'[q] = pc[q] /\ reply'[q] = reply[q] /\ link'[q] = link[q]
                                 /\ q \in sent' <=> q \in sent
      BY <1>1, <1>14 DEF CltConnect, CltSend, CltRecvFails, KillClient, Advance, Goto, TypeOK, network
    <3>3. QED
      BY <1>12, <3>1, <3>2 DEF serverSide
  <2>2. ASSUME NEW q \in Procs \ {p} PROVE Same(q)
    <3>1. (Lost(q)' <=> Lost(q)) /\ (InFlight(q)' <=> InFlight(q))
      BY <2>1, <2>2 DEF Lost, InFlight
    <3>2. QED
      BY <2>1, <2>2, <3>1, Seen, SeenThen DEF Same
  <2>3. Lost(p) => Lost(p)' /\ (p \in sent' <=> p \in sent)
    <3>1. pc \in [Procs -> CltLabels] /\ link \in [Procs -> Links]
      BY <1>1 DEF TypeOK
    <3>2. QED
      BY <1>1, <1>14, <3>1
         DEF Lost, CltConnect, CltSend, CltRecvFails, KillClient, Advance, Goto, network
  <2>4. CASE Lost(p)
    <3>1. Lost(p)' /\ (InFlight(p)' <=> InFlight(p))
      BY <2>1, <2>3, <2>4 DEF InFlight
    <3>2. Same(p)
      BY <2>1, <2>4, <3>1, Seen, SeenThen DEF Same
    <3>3. QED
      BY <1>2, <2>1, <2>2, <3>2
  <2>5. CASE ~Lost(p) /\ ~Lost(p)'
    <3>1. reply'[p] = reply[p]
      BY <1>1, <1>14, <2>5 DEF CltConnect, CltSend, CltRecvFails, KillClient, Advance, Goto, Lost, TypeOK, network
    <3>2. Same(p)
      BY <2>1, <2>5, <3>1, Seen, SeenThen DEF Same
    <3>3. QED
      BY <1>2, <2>1, <2>2, <3>2
  <2>6. CASE ~Lost(p) /\ Lost(p)'
    <3>1. RequestNow[p] # Gone /\ RequestNow'[p] = Gone /\ RespNow'[p] = Pending
      BY <1>1, <2>6, SeenThen
    <3>2. p \in sent' <=> p \in sent
      BY <1>1, <1>14, <2>6
         DEF CltConnect, CltSend, CltRecvFails, KillClient, Advance, Goto, Lost, TypeOK, network
    <3>3. InFlight(p)' <=> InFlight(p)
      BY <2>1, <3>2 DEF InFlight
    <3>4. CASE ~InFlight(p)
      <4>1. RpcNow'[p] = NoMessage
        BY <2>6, <3>3, <3>4, SeenThen
      <4>2. QED
        BY <2>1, <2>2, <3>1, <4>1, Facts!DieStep, Viewed DEF Same
    <3>5. CASE InFlight(p)
      <4>1. RpcNow'[p] = RpcNow[p]
        BY <2>1, <3>3, <3>5, Seen, SeenThen
      <4>2. /\ reply[p] = Pending /\ resp[p] = Pending
            /\ ~(answer # Pending /\ serving.from = p)
        BY <1>1, <2>6, <3>5, Waiting DEF InFlight, Lost, HandlerInv
      <4>3. RespNow[p] = Pending
        BY <2>6, <4>2, Seen
      <4>4. QED
        BY <2>1, <2>2, <3>1, <4>1, <4>3, Facts!DieStep, Viewed DEF Same
    <3>6. QED
      BY <3>4, <3>5
  <2>7. QED
    BY <2>3, <2>4, <2>5, <2>6
<1>15. ASSUME NEW p \in Procs, CltRecv(p) PROVE Facts!ServerNext
  <2>1. /\ UNCHANGED <<link, sent, serving, answer, request, rpc>>
        /\ pc[p] = "recv" /\ reply[p] # Pending /\ link[p] = "open"
        /\ \A q \in Procs : pc'[q] = IF q = p THEN "disconnect" ELSE pc[q]
        /\ \A q \in Procs : resp'[q] = IF q = p THEN reply[p] ELSE resp[q]
        /\ \A q \in Procs : reply'[q] = IF q = p THEN Pending ELSE reply[q]
    BY <1>1, <1>15 DEF CltRecv, Receive, Goto, TypeOK, RoundsType, CallInv, serverSide
  <2>2. ~(answer # Pending /\ serving.from = p)
    BY <1>1, <2>1, Waiting DEF HandlerInv
  <2>3. \A q \in Procs : InFlight(q)' <=> InFlight(q)
    BY <2>1 DEF InFlight
  <2>4. Same(p)
    BY <2>1, <2>2, <2>3, Seen, SeenThen DEF Same, Lost
  <2>5. ASSUME NEW q \in Procs \ {p} PROVE Same(q)
    BY <2>1, <2>3, <2>5, Seen, SeenThen DEF Same, Lost
  <2>6. StockNow' = StockNow
    BY <1>12, <1>15 DEF CltRecv
  <2>7. QED
    BY <1>2, <2>4, <2>5, <2>6
<1>16. ASSUME NEW p \in Procs, CltRecvNothing(p) PROVE Facts!ServerNext
  <2>1. pc[p] = "recv" /\ link[p] = "ended" /\ pc'[p] = "disconnect"
    BY <1>1, <1>16 DEF CltRecvNothing, Receive, Goto, TypeOK
  <2>2. QED
    BY <2>1 DEF Blind
<1>17. ASSUME NEW p \in Procs, CltDisconnect(p) PROVE Facts!ServerNext
  <2>1. /\ UNCHANGED <<sent, reply, serving, answer>> /\ pc[p] = "disconnect"
        /\ resp'[p] = Pending
        /\ \A q \in Procs \ {p} :
             /\ pc'[q] = pc[q] /\ request'[q] = request[q] /\ rpc'[q] = rpc[q]
             /\ resp'[q] = resp[q] /\ link'[q] = link[q]
        /\ IF GoesOn(request[p], rpc[p], resp[p])
           THEN rpc'[p] = AddMessage(request[p]) /\ request'[p] = request[p] /\ pc'[p] = "connect"
           ELSE rpc'[p] = NoMessage /\ request'[p] = Idle /\ pc'[p] = "idle"
    BY <1>1, <1>17 DEF CltDisconnect, NextRound, Goto, TypeOK, RoundsType, serverSide
  <2>2. /\ resp[p] # Pending /\ reply[p] = Pending /\ ~Lost(p) /\ ~Lost(p)'
        /\ ~(answer # Pending /\ serving.from = p)
    BY <1>1, <2>1, Waiting, RoundsValuesAssumption DEF RoundInv, CallInv, HandlerInv, Lost
  <2>3. RequestNow[p] = request[p] /\ RpcNow[p] = rpc[p] /\ RespNow[p] = resp[p]
    BY <2>2, Seen
  <2>4. RequestNow'[p] = request'[p] /\ RpcNow'[p] = rpc'[p] /\ RespNow'[p] = Pending
    BY <2>1, <2>2, SeenThen
  <2>5. ASSUME NEW q \in Procs \ {p} PROVE Same(q)
    <3>1. (Lost(q)' <=> Lost(q)) /\ (InFlight(q)' <=> InFlight(q))
      BY <2>1, <2>5 DEF Lost, InFlight
    <3>2. QED
      BY <2>1, <2>5, <3>1, Seen, SeenThen DEF Same
  <2>6. RequestNow[p] # Gone /\ StockNow' = StockNow
    BY <1>1, <1>12, <1>17, <2>2 DEF CltDisconnect
  <2>7. QED
    BY <2>1, <2>2, <2>3, <2>4, <2>5, <2>6, Facts!AnswerStep, Viewed, SameData DEF Same
<1>18. QED
  BY <1>4, <1>5, <1>6, <1>7, <1>8, <1>9, <1>10, <1>11, <1>13, <1>14, <1>15, <1>16, <1>17, HandlerRefines
  DEF Next, SrvStep, CltStep

\* Clients come, go and die, and the server is stopped, killed and started
\* again: no message takes effect twice and no client reads the answer to
\* another's, but where a recv of 0 bytes is acted on (socket.c:98) or a file
\* has lost its number.
THEOREM ImplementsService == Spec => ServesAtMostOnce
<1>1. SocketInv /\ [Next]_vars
        => [Sound /\ Sound' => Service!ServerNext \/ Blind]_Service!serverVars
  <2>1. SUFFICES ASSUME SocketInv, [Next]_vars, Sound, Sound', ~Blind
        PROVE  Service!ServerNext \/ UNCHANGED Service!serverVars
    OBVIOUS
  <2>2. CASE UNCHANGED vars
    BY <2>2
    DEF vars, network, serverSide, clientSide, Service!serverVars, RequestNow, RpcNow, RespNow,
        StockNow, Rewriting, Lost, InFlight
  <2>3. QED
    BY <2>1, <2>2, StepRefines, SameSteps
<1>2. QED
  BY <1>1, InitRefines, SocketCorrect, PTL DEF Spec, ServesAtMostOnce

=============================================================================
