------------------------------ MODULE FtpTurns ------------------------------
(***************************************************************************)
(* Proofs about the conversation of a MYFTP client with its thread, for    *)
(* any number of clients, commands and files: requests and replies stay in *)
(* lock step while the clients are Careful; a client, careful or not, is   *)
(* not refused when it thinks that it is logged in where it is connected.  *)
(***************************************************************************)
EXTENDS FtpPlaces

-----------------------------------------------------------------------------
(* The messages of one connection *)

LEMMA EndOnce ==
  /\ OneEnd(<<>>)
  /\ \A q \in Seq(Message), m \in Message :
        /\ AllBlocks(q) => OneEnd(Append(q, m))
        /\ OneEnd(q) /\ m.type \notin FileData => OneEnd(Append(q, m))
        /\ Append(q, m)[Len(Append(q, m))] = m
  /\ \A q \in Seq(Message) : q # <<>> /\ OneEnd(q) =>
        OneEnd(Tail(q)) /\ (Head(q).type = "END" => NoData(Tail(q)))
  <1>1. ASSUME NEW q \in Seq(Message), NEW m \in Message
        PROVE  /\ AllBlocks(q) => OneEnd(Append(q, m))
               /\ OneEnd(q) /\ m.type \notin FileData => OneEnd(Append(q, m))
               /\ Append(q, m)[Len(Append(q, m))] = m
    <2>1. /\ Len(Append(q, m)) = Len(q) + 1 /\ Append(q, m)[Len(q) + 1] = m /\ Len(q) \in Nat
          /\ \A i \in 1..Len(q) : Append(q, m)[i] = q[i]
      BY <1>1
    <2>2. \A i, j \in 1..Len(Append(q, m)) :
             i < j => i \in 1..Len(q) /\ (j \in 1..Len(q) \/ j = Len(q) + 1)
      BY <2>1
    <2>3. AllBlocks(q) => OneEnd(Append(q, m))
      BY <2>1, <2>2 DEF AllBlocks, OneEnd
    <2>4. OneEnd(q) /\ m.type \notin FileData => OneEnd(Append(q, m))
      BY <2>1, <2>2 DEF OneEnd
    <2> QED BY <2>1, <2>3, <2>4
  <1>2. ASSUME NEW q \in Seq(Message), q # <<>>, OneEnd(q)
        PROVE  OneEnd(Tail(q)) /\ (Head(q).type = "END" => NoData(Tail(q)))
    <2>1. /\ Head(q) = q[1] /\ 1 \in 1..Len(q)
          /\ \A i \in 1..Len(Tail(q)) : i + 1 \in 1..Len(q) /\ Tail(q)[i] = q[i + 1]
      BY <1>2, Received
    <2>2. ASSUME NEW i \in 1..Len(Tail(q)), NEW j \in 1..Len(Tail(q)),
                 Tail(q)[i].type = "END", i < j
          PROVE  Tail(q)[j].type \notin FileData
      <3>1. i + 1 < j + 1
        BY <2>2
      <3> QED BY <1>2, <2>1, <2>2, <3>1 DEF OneEnd
    <2>3. ASSUME NEW i \in 1..Len(Tail(q)), q[1].type = "END"
          PROVE  Tail(q)[i].type \notin FileData
      <3>1. 1 < i + 1
        OBVIOUS
      <3> QED BY <1>2, <2>1, <2>3, <3>1 DEF OneEnd
    <2> QED BY <2>1, <2>2, <2>3 DEF OneEnd, NoData
  <1> QED BY <1>1, <1>2 DEF OneEnd

\* One message: a request that waits, or a reply.
LEMMA OneMessage ==
  ASSUME NEW m \in Message
  PROVE  /\ Append(<<>>, m) \in Seq(Message) /\ Append(<<>>, m) # <<>>
         /\ Head(Append(<<>>, m)) = m /\ Tail(Append(<<>>, m)) = <<>>
  OBVIOUS

LEMMA Requests ==
  \A p \in ReplyTypes :
    /\ RequestOf[p] \in RequestTypes /\ RequestOf[p] \notin FileData
    /\ RequestOf[p] = "OPEN" <=> p = "OPEN_REPLY"
    /\ RequestOf[p] = "AUTH" <=> p = "AUTH_REPLY"
    /\ RequestOf[p] = "LIST" <=> p = "LIST_REPLY"
    /\ RequestOf[p] = "GET" <=> p = "GET_REPLY"
    /\ RequestOf[p] = "PUT" <=> p = "PUT_REPLY"
    /\ RequestOf[p] = "QUIT" <=> p = "QUIT_REPLY"
  BY DEF ReplyTypes, RequestTypes, RequestOf, FileData

\* A thread that reads requests finds the one its client waits for the reply to.
LEMMA RequestTurn ==
  ASSUME NEW t, NEW q \in Seq(Message), NEW r, NEW s, q # <<>>, t.pc = "recv", Turn(t, q, r, s)
  PROVE  /\ s.pc \in ReplyTypes /\ r = <<>> /\ Tail(q) = <<>> /\ Flags(t, s)
         /\ Head(q).type = RequestOf[s.pc] /\ (s.pc = "AUTH_REPLY" => Head(q).ok)
  <1>1. Head(q).type \notin FileData /\ Tail(q) = <<>> /\ Len(q) = 1 /\ Head(q) = q[1]
    <2>1. NoData(q) /\ RequestLast(q)
      BY DEF Turn, Ordered, Takes
    <2>2. Head(q).type \notin FileData /\ Tail(q) = <<>>
      BY <2>1, Received
    <2>3. Head(q) = q[1] /\ 1 \in 1..Len(q)
      BY Received
    <2>4. Len(q) = 1
      BY <2>1, <2>2, <2>3 DEF RequestLast
    <2> QED BY <2>2, <2>3, <2>4
  <1>2. ~OnlyData(q) /\ ~Takes(t)
    BY <1>1, Received DEF Takes
  <1>3. s.pc \in ReplyTypes
    BY <1>2 DEF Turn
  <1>4. Unanswered(t, q, r, s)
    BY <1>3 DEF Turn, Answered
  <1> QED BY <1>1, <1>3, <1>4 DEF Unanswered, Turn

\* The reply to it.
LEMMA ReplyTurn ==
  ASSUME NEW t, NEW s, NEW m \in Message, s.pc \in ReplyTypes, m.type = s.pc, Flags(t, s),
         s.pc = "AUTH_REPLY" => m.ok /\ t.auth,
         t.pc = IF s.pc = "GET_REPLY" /\ m.ok THEN "getdata"
                ELSE IF s.pc = "PUT_REPLY" THEN "putopen"
                ELSE IF s.pc = "QUIT_REPLY" THEN "ended" ELSE "recv"
  PROVE  Turn(t, <<>>, Append(<<>>, m), s)
  <1>1. Ordered(t, <<>>) /\ OnlyData(<<>>) /\ AllBlocks(<<>>) /\ OneEnd(<<>>)
    BY NothingSent, EndOnce DEF Ordered
  <1>2. s.pc = "GET_REPLY" /\ m.ok => Streams(t, <<>>)
    BY <1>1 DEF Streams
  <1>3. Answered(t, <<>>, Append(<<>>, m), s)
    BY <1>2, OneMessage DEF Answered
  <1>4. s.pc \notin {"prompt", "download", "upload", "exited"}
    BY DEF ReplyTypes
  <1> QED BY <1>1, <1>3, <1>4 DEF Turn

-----------------------------------------------------------------------------
(* The steps of a thread *)

LEMMA OneConn == MaxOpens = 1 => Conn = {<<c, 1>> : c \in Clients}
  <1>1. MaxOpens = 1 => 1..MaxOpens = {1}
    OBVIOUS
  <1> QED BY <1>1 DEF Conn

LEMMA OwnConn ==
  ASSUME MaxOpens = 1, NEW c \in Clients
  PROVE  <<c, 1>> \in Conn /\ <<c, 1>>[1] = c /\ \A d \in Clients : d # c => <<d, 1>> # <<c, 1>>
  BY OneConn

\* What a step of one client, or of its thread, has to keep.
LEMMA TurnFrame ==
  ASSUME LockStep, server, NEW c \in Clients, NEW k, k = <<c, 1>>, server' = server,
         \A d \in Clients : d # c =>
             /\ th'[<<d, 1>>] = th[<<d, 1>>] /\ cl'[d] = cl[d] /\ used'[d] = used[d]
             /\ toSrv'[<<d, 1>>] = toSrv[<<d, 1>>] /\ toCli'[<<d, 1>>] = toCli[<<d, 1>>]
             /\ <<d, 1>> \in closed' => <<d, 1>> \in closed,
         used'[c] # 0, cl'[c].sock = k, Turn(th'[k], toSrv'[k], toCli'[k], cl'[c]),
         k \in closed' => cl'[c].pc = "exited"
  PROVE  LockStep'
  <1>1. server'
    BY DEF LockStep
  <1>2. ASSUME NEW d \in Clients, d # c
        PROVE  /\ used'[d] = 0 => Unopened(th'[<<d, 1>>], toSrv'[<<d, 1>>], toCli'[<<d, 1>>], cl'[d])
               /\ used'[d] # 0 => /\ cl'[d].sock = <<d, 1>>
                                  /\ Turn(th'[<<d, 1>>], toSrv'[<<d, 1>>], toCli'[<<d, 1>>], cl'[d])
               /\ <<d, 1>> \in closed' => used'[d] # 0 /\ cl'[d].pc = "exited"
    BY <1>2 DEF LockStep
  <1> QED BY <1>1, <1>2 DEF LockStep

\* A thread at work sees its client's connection open.
LEMMA ThreadSees ==
  ASSUME Careful, IInv, LockStep, server, NEW k \in Conn, th[k].pc \notin {"none", "ended"}
  PROVE  /\ k[1] \in Clients /\ k = <<k[1], 1>> /\ used[k[1]] # 0 /\ k \notin closed /\ server
         /\ cl[k[1]].sock = k /\ Turn(th[k], toSrv[k], toCli[k], cl[k[1]])
         /\ toSrv[k] \in Seq(Message) /\ toCli[k] \in Seq(Message) /\ th[k] \in ThreadType
  <1>1. PICK c \in Clients : k = <<c, 1>>
    BY OneConn DEF Careful
  <1>2. k[1] = c
    BY <1>1
  <1>3. used[c] # 0
    BY <1>1 DEF LockStep, Unopened
  <1>4. cl[c].sock = k /\ Turn(th[k], toSrv[k], toCli[k], cl[c]) /\ server
    BY <1>1, <1>3 DEF LockStep
  <1>5. k \notin closed
    BY <1>1, <1>4 DEF LockStep, Turn
  <1>6. toSrv[k] \in Seq(Message) /\ toCli[k] \in Seq(Message) /\ th[k] \in ThreadType
    BY TypeParts DEF IInv, MailTyped, ThreadsTyped
  <1> QED BY <1>1, <1>2, <1>3, <1>4, <1>5, <1>6

LEMMA ThreadTurns ==
  ASSUME Careful, IInv, LockStep, server, NEW k \in Conn, th[k].pc \notin {"none", "ended"},
         NEW u, NEW q, NEW r, th' = [th EXCEPT ![k] = u],
         toSrv' = [toSrv EXCEPT ![k] = q], toCli' = [toCli EXCEPT ![k] = r],
         server' = server, cl' = cl, used' = used, closed' = closed,
         Turn(u, q, r, cl[k[1]])
  PROVE  LockStep'
  <1> DEFINE c == k[1]
  <1>1. /\ c \in Clients /\ k = <<c, 1>> /\ used[c] # 0 /\ k \notin closed /\ cl[c].sock = k
    BY ThreadSees
  <1>2. /\ th'[k] = u /\ toSrv'[k] = q /\ toCli'[k] = r
        /\ \A j \in Conn : j # k => th'[j] = th[j] /\ toSrv'[j] = toSrv[j] /\ toCli'[j] = toCli[j]
    BY TypeParts DEF IInv, ThreadsTyped, MailTyped
  <1> HIDE DEF c
  <1>3. \A d \in Clients : d # c => <<d, 1>> \in Conn /\ <<d, 1>> # k
    BY <1>1, OwnConn DEF Careful
  <1>4. Turn(th'[k], toSrv'[k], toCli'[k], cl'[c])
    BY <1>2 DEF c
  <1> QED BY <1>1, <1>2, <1>3, <1>4, TurnFrame

\* The request a thread receives is the one its client waits with.
LEMMA Requested ==
  ASSUME Careful, IInv, LockStep, server, NEW k \in Conn, NEW type, Receives(k, type)
  PROVE  /\ th[k].pc = "recv" /\ toSrv[k] # <<>> /\ toSrv' = [toSrv EXCEPT ![k] = <<>>]
         /\ k \notin closed /\ toCli[k] = <<>>
         /\ cl[k[1]].pc \in ReplyTypes /\ RequestOf[cl[k[1]].pc] = type
         /\ Flags(th[k], cl[k[1]]) /\ (type = "AUTH" => Request(k).ok)
         /\ Thread(k) \in ThreadType /\ Thread(k).pc = "recv" /\ Thread(k).auth = th[k].auth
         /\ Request(k) \in Message
  <1>1. th[k].pc = "recv"
    BY DEF Receives
  <1>2. /\ k \notin closed /\ toSrv[k] \in Seq(Message)
        /\ Turn(th[k], toSrv[k], toCli[k], cl[k[1]])
    BY <1>1, ThreadSees
  <1>3. /\ toSrv[k] # <<>> /\ Request(k) = Head(toSrv[k]) /\ Request(k).type = type
        /\ toSrv' = [toSrv EXCEPT ![k] = Tail(@)]
    BY <1>2 DEF Receives, Request
  <1>4. /\ cl[k[1]].pc \in ReplyTypes /\ toCli[k] = <<>> /\ Tail(toSrv[k]) = <<>>
        /\ Flags(th[k], cl[k[1]]) /\ Request(k).type = RequestOf[cl[k[1]].pc]
        /\ cl[k[1]].pc = "AUTH_REPLY" => Request(k).ok
    BY <1>1, <1>2, <1>3, RequestTurn
  <1>5. type = "AUTH" => Request(k).ok
    BY <1>3, <1>4, Requests
  <1>6. toSrv' = [toSrv EXCEPT ![k] = <<>>]
    BY <1>3, <1>4
  <1>7. /\ Thread(k) \in ThreadType /\ Thread(k).pc = "recv" /\ Thread(k).auth = th[k].auth
        /\ Request(k) \in Message
    BY RequestFacts
  <1> QED BY <1>1, <1>2, <1>3, <1>4, <1>5, <1>6, <1>7

\* send, with the client there.
LEMMA AnswerTurns ==
  ASSUME Careful, IInv, LockStep, server, NEW k \in Conn, th[k].pc \notin {"none", "ended"},
         NEW u, NEW m, Answer(k, u, m), NEW q, toSrv' = [toSrv EXCEPT ![k] = q],
         cl' = cl, used' = used,
         Turn(u, q, Append(toCli[k], m), cl[k[1]])
  PROVE  LockStep'
  <1>1. k \notin closed
    BY ThreadSees
  <1>2. /\ toCli' = [toCli EXCEPT ![k] = Append(toCli[k], m)] /\ th' = [th EXCEPT ![k] = u]
        /\ server' = server /\ closed' = closed
    BY <1>1 DEF Answer
  <1> QED BY <1>2, ThreadTurns

\* A thread's answer to a request, as u is when it goes on.
LEMMA RequestTurns ==
  ASSUME Careful, IInv, LockStep, server, NEW k \in Conn, NEW type, Receives(k, type),
         NEW u, NEW m \in Message, Answer(k, u, m), cl' = cl, used' = used,
         m.type \in ReplyTypes, RequestOf[m.type] = type,
         u.auth = IF type = "AUTH" THEN Request(k).ok ELSE th[k].auth,
         type = "AUTH" => m.ok = Request(k).ok,
         u.pc = IF m.type = "GET_REPLY" /\ m.ok THEN "getdata"
                ELSE IF m.type = "PUT_REPLY" THEN "putopen"
                ELSE IF m.type = "QUIT_REPLY" THEN "ended" ELSE "recv"
  PROVE  LockStep'
  <1>1. /\ th[k].pc = "recv" /\ toSrv' = [toSrv EXCEPT ![k] = <<>>] /\ toCli[k] = <<>>
        /\ cl[k[1]].pc \in ReplyTypes /\ RequestOf[cl[k[1]].pc] = type
        /\ Flags(th[k], cl[k[1]]) /\ (type = "AUTH" => Request(k).ok)
    BY Requested
  <1>2. cl[k[1]].pc = m.type
    BY <1>1 DEF ReplyTypes, RequestOf
  <1>3. m.type = "AUTH_REPLY" <=> type = "AUTH"
    BY Requests
  <1>4. Flags(u, cl[k[1]])
    BY <1>1, <1>2, <1>3 DEF Flags
  <1>5. Turn(u, <<>>, Append(<<>>, m), cl[k[1]])
    BY <1>1, <1>2, <1>3, <1>4, ReplyTurn
  <1> QED BY <1>1, <1>5, AnswerTurns

LEMMA HandlersTurn ==
  ASSUME Careful, IInv, LockStep, server, NEW k \in Conn,
         \/ HandleOpen(k) \/ HandleAuth(k) \/ HandleRefused(k) \/ HandleList(k) \/ HandleGet(k)
         \/ HandlePut(k) \/ HandleQuit(k) \/ HandleUnknown(k)
  PROVE  LockStep'
  <1>w. /\ {"OPEN_REPLY", "AUTH_REPLY", "LIST_REPLY", "GET_REPLY", "PUT_REPLY", "QUIT_REPLY"}
              \subseteq ReplyTypes
        /\ RequestOf["OPEN_REPLY"] = "OPEN" /\ RequestOf["AUTH_REPLY"] = "AUTH"
        /\ RequestOf["LIST_REPLY"] = "LIST" /\ RequestOf["GET_REPLY"] = "GET"
        /\ RequestOf["PUT_REPLY"] = "PUT" /\ RequestOf["QUIT_REPLY"] = "QUIT"
    BY DEF ReplyTypes, RequestOf
  <1>1. CASE HandleOpen(k)
    <2>1. /\ Receives(k, "OPEN") /\ Answer(k, Thread(k), Plain("OPEN_REPLY"))
          /\ cl' = cl /\ used' = used
      BY <1>1 DEF HandleOpen, bounds
    <2>2. Plain("OPEN_REPLY") \in Message /\ Plain("OPEN_REPLY").type = "OPEN_REPLY"
      BY <1>w, MessagesTyped
    <2>3. Thread(k).pc = "recv" /\ Thread(k).auth = th[k].auth
      BY <2>1, Requested
    <2> QED BY <1>w, <2>1, <2>2, <2>3, RequestTurns
  <1>2. CASE HandleAuth(k)
    <2> DEFINE u == [Thread(k) EXCEPT !.auth = Request(k).ok]
               m == Status("AUTH_REPLY", Request(k).ok)
    <2>1. Receives(k, "AUTH") /\ Answer(k, u, m) /\ cl' = cl /\ used' = used
      BY <1>2 DEF HandleAuth, bounds
    <2>2. Thread(k) \in ThreadType /\ Thread(k).pc = "recv" /\ Request(k).ok \in BOOLEAN
      BY <2>1, Requested DEF Message
    <2>3. m \in Message /\ m.type = "AUTH_REPLY" /\ m.ok = Request(k).ok
      BY <2>2, MessagesTyped
    <2>4. u.auth = Request(k).ok /\ u.pc = "recv"
      BY <2>2 DEF ThreadType
    <2> HIDE DEF u, m
    <2> QED BY <1>w, <2>1, <2>3, <2>4, RequestTurns
  <1>3. CASE HandleRefused(k)
    <2>1. PICK type \in {"LIST", "GET", "PUT"} : Receives(k, type) /\ ~th[k].auth
      BY <1>3 DEF HandleRefused
    <2>2. /\ cl[k[1]].pc \in ReplyTypes /\ RequestOf[cl[k[1]].pc] = type
          /\ Flags(th[k], cl[k[1]])
      BY <2>1, Requested
    <2>3. cl[k[1]].pc \in {"LIST_REPLY", "GET_REPLY", "PUT_REPLY"}
      BY <2>2, Requests
    <2> QED BY <2>1, <2>2, <2>3 DEF Flags
  <1>4. CASE HandleList(k)
    <2>1. /\ Receives(k, "LIST") /\ Answer(k, Thread(k), Plain("LIST_REPLY"))
          /\ cl' = cl /\ used' = used
      BY <1>4 DEF HandleList, bounds
    <2>2. Plain("LIST_REPLY") \in Message /\ Plain("LIST_REPLY").type = "LIST_REPLY"
      BY <1>w, MessagesTyped
    <2>3. Thread(k).pc = "recv" /\ Thread(k).auth = th[k].auth
      BY <2>1, Requested
    <2> QED BY <1>w, <2>1, <2>2, <2>3, RequestTurns
  <1>5. CASE HandleGet(k)
    <2> DEFINE f == Request(k).name
               found == f \in present \cup {Directory}
               u == IF found THEN [Thread(k) EXCEPT !.pc = "getdata", !.name = f, !.pos = 0]
                             ELSE Thread(k)
               m == Status("GET_REPLY", found)
    <2>1. Receives(k, "GET") /\ Answer(k, u, m) /\ cl' = cl /\ used' = used
      BY <1>5 DEF HandleGet, bounds
    <2>2. Thread(k) \in ThreadType /\ Thread(k).pc = "recv" /\ Thread(k).auth = th[k].auth
      BY <2>1, Requested
    <2>3. m \in Message /\ m.type = "GET_REPLY" /\ m.ok = found
      <3>1. found \in BOOLEAN
        OBVIOUS
      <3> HIDE DEF found
      <3> QED BY <3>1, MessagesTyped
    <2>4. u.auth = th[k].auth /\ u.pc = IF found THEN "getdata" ELSE "recv"
      BY <2>2 DEF ThreadType
    <2> HIDE DEF u, m, found
    <2> QED BY <1>w, <2>1, <2>3, <2>4, RequestTurns
  <1>6. CASE HandlePut(k)
    <2> DEFINE u == [Thread(k) EXCEPT !.pc = "putopen", !.name = Request(k).name]
    <2>1. /\ Receives(k, "PUT") /\ Answer(k, u, Plain("PUT_REPLY")) /\ cl' = cl /\ used' = used
      BY <1>6 DEF HandlePut, bounds
    <2>2. Plain("PUT_REPLY") \in Message /\ Plain("PUT_REPLY").type = "PUT_REPLY"
      BY <1>w, MessagesTyped
    <2>3. u.pc = "putopen" /\ u.auth = th[k].auth
      BY <2>1, Requested DEF ThreadType
    <2> HIDE DEF u
    <2> QED BY <1>w, <2>1, <2>2, <2>3, RequestTurns
  <1>7. CASE HandleQuit(k)
    <2> DEFINE u == [Thread(k) EXCEPT !.pc = "ended"]
    <2>1. Receives(k, "QUIT") /\ Answer(k, u, Plain("QUIT_REPLY")) /\ cl' = cl /\ used' = used
      BY <1>7 DEF HandleQuit, bounds
    <2>2. Plain("QUIT_REPLY") \in Message /\ Plain("QUIT_REPLY").type = "QUIT_REPLY"
      BY <1>w, MessagesTyped
    <2>3. u.pc = "ended" /\ u.auth = th[k].auth
      BY <2>1, Requested DEF ThreadType
    <2> HIDE DEF u
    <2> QED BY <1>w, <2>1, <2>2, <2>3, RequestTurns
  <1>8. CASE HandleUnknown(k)
    <2>1. PICK type \in FileData : Receives(k, type)
      BY <1>8 DEF HandleUnknown, FileData
    <2>2. cl[k[1]].pc \in ReplyTypes /\ RequestOf[cl[k[1]].pc] = type
      BY <2>1, Requested
    <2> QED BY <2>1, <2>2, Requests
  <1> QED BY <1>1, <1>2, <1>3, <1>4, <1>5, <1>6, <1>7, <1>8

\* A message of a file that is being fetched.
LEMMA SendTurn ==
  ASSUME NEW t, NEW u, NEW q, NEW r \in Seq(Message), NEW s, NEW m \in Message,
         Turn(t, q, r, s), t.pc = "getdata", u.auth = t.auth,
         \/ m.type = "DATA" /\ u.pc = "getdata"
         \/ m.type = "END" /\ u.pc = "recv"
  PROVE  Turn(u, q, Append(r, m), s)
  <1>1. ASSUME NEW x \in Seq(Message), Streams(t, x) PROVE Streams(u, Append(x, m))
    <2>1. OnlyData(x) /\ AllBlocks(x)
      BY <1>1 DEF Streams
    <2>2. OnlyData(Append(x, m)) /\ OneEnd(Append(x, m))
      BY <2>1, Sent, EndOnce DEF FileData
    <2>3. m.type = "DATA" => AllBlocks(Append(x, m))
      BY <2>1, Sent
    <2>4. m.type = "END" => HasEnd(Append(x, m))
      BY Sent
    <2> QED BY <2>2, <2>3, <2>4 DEF Streams
  <1>2. s.pc = "download" \/ (s.pc = "GET_REPLY" /\ Answered(t, q, r, s))
    BY DEF Turn, Idle, Takes, Unanswered, Answered
  <1>3. q = <<>> /\ Ordered(u, q)
    BY <1>2, NothingSent, EndOnce DEF Turn, Answered, Ordered
  <1>4. Flags(u, s)
    BY DEF Turn, Flags
  <1>5. CASE s.pc = "download"
    <2>1. Streams(u, Append(r, m))
      BY <1>1, <1>5 DEF Turn
    <2>2. s.pc \notin ReplyTypes
      BY <1>5 DEF ReplyTypes
    <2> QED BY <1>3, <1>4, <1>5, <2>1, <2>2 DEF Turn
  <1>6. CASE s.pc = "GET_REPLY" /\ Answered(t, q, r, s)
    <2>1. r # <<>> /\ Head(r).type = s.pc /\ Head(r).ok /\ Streams(t, Tail(r))
      BY <1>6 DEF Answered
    <2>2. /\ Append(r, m) # <<>> /\ Head(Append(r, m)) = Head(r)
          /\ Tail(Append(r, m)) = Append(Tail(r), m) /\ Tail(r) \in Seq(Message)
      BY <2>1
    <2>3. Streams(u, Append(Tail(r), m))
      BY <1>1, <2>1, <2>2
    <2>4. Answered(u, q, Append(r, m), s)
      BY <1>3, <1>6, <2>1, <2>2, <2>3 DEF Answered
    <2>5. s.pc \in ReplyTypes
      BY <1>6 DEF ReplyTypes
    <2> QED BY <1>3, <1>4, <1>6, <2>4, <2>5 DEF Turn
  <1> QED BY <1>2, <1>5, <1>6

\* A message of a file that is being stored.
LEMMA RecvTurn ==
  ASSUME NEW t, NEW u, NEW q \in Seq(Message), NEW r, NEW s,
         Turn(t, q, r, s), t.pc = "putdata", u.auth = t.auth, q # <<>>,
         \/ Head(q).type = "DATA" /\ u.pc = "putdata"
         \/ Head(q).type = "END" /\ u.pc = "recv"
  PROVE  Turn(u, Tail(q), r, s)
  <1>1. /\ RequestLast(Tail(q)) /\ OneEnd(Tail(q)) /\ Tail(q) \in Seq(Message)
        /\ u.pc = "recv" => NoData(Tail(q))
    BY Received, EndOnce DEF Turn, Ordered
  <1>2. Ordered(u, Tail(q)) /\ Flags(u, s)
    BY <1>1 DEF Ordered, Flags, Takes, Turn
  <1>3. Idle(t, q) => Idle(u, Tail(q))
    BY Received DEF Idle, Takes
  <1>4. s.pc \notin {"download", "exited"}
    BY DEF Turn
  <1>5. s.pc = "prompt" => r = <<>> /\ OnlyData(Tail(q)) /\ Idle(u, Tail(q))
    BY <1>3, Received DEF Turn
  <1>6. s.pc \in ReplyTypes => Unanswered(u, Tail(q), r, s)
    <2> SUFFICES ASSUME s.pc \in ReplyTypes PROVE Unanswered(u, Tail(q), r, s)
      OBVIOUS
    <2>1. Unanswered(t, q, r, s)
      BY DEF Turn, Answered
    <2>2. q[Len(q)].type \notin FileData
      BY <2>1, Requests DEF Unanswered
    <2>3. Head(q) = q[1] /\ q[1].type \in FileData
      BY Received DEF FileData
    <2>4. /\ Len(q) = Len(Tail(q)) + 1 /\ Len(Tail(q)) \in Nat
          /\ \A i \in 1..Len(Tail(q)) : Tail(q)[i] = q[i + 1]
      BY Received
    <2>5. Len(Tail(q)) \in 1..Len(Tail(q)) /\ Tail(q) # <<>>
      <3>1. Len(q) # 1
        <4>1. Len(q) = 1 => q[Len(q)] = q[1]
          OBVIOUS
        <4> QED BY <2>2, <2>3, <4>1, Zenon
      <3>2. Len(Tail(q)) # 0
        BY <2>4, <3>1
      <3>3. Len(<<>>) = 0
        OBVIOUS
      <3>4. Len(Tail(q)) \in 1..Len(Tail(q))
        BY <2>4, <3>2
      <3> QED BY <3>2, <3>3, <3>4, Zenon
    <2>6. Tail(q)[Len(Tail(q))] = q[Len(q)]
      BY <2>4, <2>5
    <2> QED BY <1>3, <2>1, <2>5, <2>6 DEF Unanswered
  <1>7. s.pc = "upload" => r = <<>> /\ Takes(u) /\ AllBlocks(Tail(q))
    BY Received DEF Turn, Takes
  <1> QED BY <1>2, <1>4, <1>5, <1>6, <1>7 DEF Turn

LEMMA OpenTurn ==
  ASSUME NEW t, NEW u, NEW q, NEW r, NEW s, Turn(t, q, r, s),
         t.pc = "putopen", u.pc = "putdata", u.auth = t.auth
  PROVE  Turn(u, q, r, s)
  <1>1. Takes(t) /\ Takes(u)
    BY DEF Takes
  <1>2. Ordered(u, q) /\ Flags(u, s) /\ (Idle(t, q) => Idle(u, q))
    BY <1>1 DEF Turn, Ordered, Flags, Idle
  <1>3. s.pc \in ReplyTypes => Unanswered(u, q, r, s) \/ Answered(u, q, r, s)
    <2>1. Unanswered(t, q, r, s) => Unanswered(u, q, r, s)
      BY <1>2 DEF Unanswered
    <2>2. Answered(t, q, r, s) => Answered(u, q, r, s)
      BY DEF Answered, Streams
    <2> QED BY <2>1, <2>2 DEF Turn
  <1>4. s.pc \notin {"download", "exited"}
    BY DEF Turn, Streams
  <1> QED BY <1>1, <1>2, <1>3, <1>4 DEF Turn

LEMMA FilesTurn ==
  ASSUME Careful, IInv, LockStep, server, NEW k \in Conn,
         \/ SendBlock(k) \/ OpenForPut(k) \/ OpenForPutFails(k) \/ RecvBlock(k) \/ RecvNothing(k)
  PROVE  LockStep'
  <1>0. th[k].pc \in {"getdata", "putopen", "putdata"}
    BY DEF SendBlock, OpenForPut, OpenForPutFails, RecvBlock, RecvNothing
  <1>1. /\ k \notin closed /\ Turn(th[k], toSrv[k], toCli[k], cl[k[1]])
        /\ toSrv[k] \in Seq(Message) /\ toCli[k] \in Seq(Message) /\ th[k] \in ThreadType
    BY <1>0, ThreadSees
  <1>2. th[k].pc \notin {"none", "ended"} /\ ThreadsTyped /\ MailTyped /\ DirTyped
    BY <1>0, TypeParts DEF IInv
  <1>3. CASE SendBlock(k)
    <2>1. th[k].pc = "getdata" /\ toSrv' = toSrv /\ cl' = cl /\ used' = used
      BY <1>3 DEF SendBlock, bounds
    <2>2. PICK u, m :
             /\ Answer(k, u, m) /\ m \in Message /\ u.auth = th[k].auth
             /\ \/ m.type = "DATA" /\ u.pc = "getdata"
                \/ m.type = "END" /\ u.pc = "recv"
      <3> DEFINE contents == IF th[k].name \in Files THEN filedir[th[k].name] ELSE <<>>
                 i == th[k].pos + 1
      <3>1. IF i <= Len(contents)
            THEN Answer(k, [th[k] EXCEPT !.pos = i], Data(contents[i]))
            ELSE Answer(k, [th[k] EXCEPT !.pc = "recv"], Plain("END"))
        BY <1>3 DEF SendBlock
      <3>2. CASE i <= Len(contents)
        <4>1. contents \in Seq(Blocks) /\ i \in Nat /\ i >= 1
          BY <1>1, <1>2 DEF DirTyped, ThreadType
        <4>2. contents[i] \in Blocks
          <5> HIDE DEF contents, i
          <5> QED BY <3>2, <4>1
        <4>3. Data(contents[i]) \in Message /\ Data(contents[i]).type = "DATA"
          BY <4>2, MessagesTyped
        <4> DEFINE u == [th[k] EXCEPT !.pos = i]
        <4>4. u.pc = "getdata" /\ u.auth = th[k].auth
          BY <1>1, <2>1 DEF ThreadType
        <4>5. Answer(k, u, Data(contents[i]))
          BY <3>1, <3>2
        <4> HIDE DEF contents, i, u
        <4> QED BY <4>3, <4>4, <4>5
      <3>3. CASE ~(i <= Len(contents))
        <4>1. Plain("END") \in Message /\ Plain("END").type = "END"
          BY MessagesTyped
        <4> DEFINE u == [th[k] EXCEPT !.pc = "recv"]
        <4>2. u.pc = "recv" /\ u.auth = th[k].auth
          BY <1>1 DEF ThreadType
        <4>3. Answer(k, u, Plain("END"))
          BY <3>1, <3>3
        <4> HIDE DEF contents, i, u
        <4> QED BY <4>1, <4>2, <4>3
      <3> QED BY <3>2, <3>3
    <2>3. Turn(u, toSrv[k], Append(toCli[k], m), cl[k[1]])
      BY <1>1, <2>1, <2>2, SendTurn
    <2>4. toSrv' = [toSrv EXCEPT ![k] = toSrv[k]]
      BY <1>2, <2>1 DEF MailTyped
    <2> QED BY <1>2, <2>1, <2>2, <2>3, <2>4, AnswerTurns
  <1>4. CASE OpenForPut(k)
    <2>1. /\ th[k].pc = "putopen"
          /\ th' = [th EXCEPT ![k].pc = "putdata", ![k].pos = 0, ![k].data = NoMessage]
          /\ UNCHANGED <<server, cl, used, closed, toSrv, toCli>>
      BY <1>4 DEF OpenForPut, wire, bounds
    <2>2. PICK u : th' = [th EXCEPT ![k] = u] /\ u.pc = "putdata" /\ u.auth = th[k].auth
      <3> DEFINE u == [th[k] EXCEPT !.pc = "putdata", !.pos = 0, !.data = NoMessage]
      <3>1. th' = [th EXCEPT ![k] = u] /\ u.pc = "putdata" /\ u.auth = th[k].auth
        BY <1>1, <1>2, <2>1 DEF ThreadsTyped, ThreadType
      <3> HIDE DEF u
      <3> QED BY <3>1
    <2>3. Turn(u, toSrv[k], toCli[k], cl[k[1]])
      BY <1>1, <2>1, <2>2, OpenTurn
    <2>4. toSrv' = [toSrv EXCEPT ![k] = toSrv[k]] /\ toCli' = [toCli EXCEPT ![k] = toCli[k]]
      BY <1>2, <2>1 DEF MailTyped
    <2>5. server' = server /\ cl' = cl /\ used' = used /\ closed' = closed
      BY <2>1
    <2> QED BY <1>2, <2>2, <2>3, <2>4, <2>5, ThreadTurns
  <1>5. CASE OpenForPutFails(k)
    BY <1>5 DEF OpenForPutFails, ServerEnds, LockStep
  <1>6. CASE RecvBlock(k)
    <2>1. /\ th[k].pc = "putdata" /\ toSrv[k] # <<>>
          /\ toSrv' = [toSrv EXCEPT ![k] = Tail(toSrv[k])] /\ UNCHANGED <<cl, used, closed, toCli>>
      BY <1>6 DEF RecvBlock, bounds
    <2>2. PICK u :
             /\ th' = [th EXCEPT ![k] = u] /\ server' = server /\ u.auth = th[k].auth
             /\ \/ Head(toSrv[k]).type = "DATA" /\ u.pc = "putdata"
                \/ Head(toSrv[k]).type = "END" /\ u.pc = "recv"
      <3>1. CASE Head(toSrv[k]).type = "DATA" /\ StoreBlock(k, Head(toSrv[k]))
        <4> DEFINE u == [th[k] EXCEPT !.pos = th[k].pos + 1, !.data = Head(toSrv[k])]
        <4>1. th' = [th EXCEPT ![k].pos = th[k].pos + 1, ![k].data = Head(toSrv[k])] /\ server' = server
          BY <3>1 DEF StoreBlock
        <4>2. th' = [th EXCEPT ![k] = u] /\ u.auth = th[k].auth /\ u.pc = "putdata"
          BY <1>1, <1>2, <2>1, <4>1 DEF ThreadsTyped, ThreadType
        <4> QED BY <3>1, <4>1, <4>2
      <3>2. CASE /\ Head(toSrv[k]).type = "END"
                 /\ th' = [th EXCEPT ![k].pc = "recv"]
                 /\ server' = server
        <4> DEFINE u == [th[k] EXCEPT !.pc = "recv"]
        <4>1. th' = [th EXCEPT ![k] = u] /\ u.auth = th[k].auth /\ u.pc = "recv"
          BY <1>1, <1>2, <3>2 DEF ThreadsTyped, ThreadType
        <4> QED BY <3>2, <4>1
      <3> QED BY <1>6, <3>1, <3>2 DEF RecvBlock
    <2>3. Turn(u, Tail(toSrv[k]), toCli[k], cl[k[1]])
      BY <1>1, <2>1, <2>2, RecvTurn
    <2>4. toCli' = [toCli EXCEPT ![k] = toCli[k]]
      BY <1>2, <2>1 DEF MailTyped
    <2> QED BY <1>2, <2>1, <2>2, <2>3, <2>4, ThreadTurns
  <1>7. CASE RecvNothing(k)
    BY <1>1, <1>7 DEF RecvNothing
  <1> QED BY <1>3, <1>4, <1>5, <1>6, <1>7

-----------------------------------------------------------------------------
(* The steps of a client *)

LEMMA ClientSees ==
  ASSUME Careful, IInv, LockStep, server, NEW c \in Clients, NEW k, k = <<c, 1>>
  PROVE  /\ k \in Conn /\ cl[c] \in ClientType /\ server /\ Sock(c) = cl[c].sock
         /\ toSrv[k] \in Seq(Message) /\ toCli[k] \in Seq(Message)
         /\ used[c] = 0 => /\ Unopened(th[k], toSrv[k], toCli[k], cl[c])
                           /\ OwnConns(c) = {} /\ k \notin closed
         /\ used[c] # 0 => /\ Turn(th[k], toSrv[k], toCli[k], cl[c])
                           /\ Sock(c) = k /\ OwnConns(c) = {k}
         /\ cl[c].pc # "exited" => k \notin closed
         /\ cl[c].connected \/ cl[c].pc \notin {"prompt", "exited"} => used[c] # 0
  <1>1. k \in Conn /\ cl[c] \in ClientType /\ Sock(c) = cl[c].sock
    BY OwnConn, TypeParts DEF IInv, ClientsTyped, ClientType, Sock, Careful
  <1>2. toSrv[k] \in Seq(Message) /\ toCli[k] \in Seq(Message) /\ used[c] \in 0..1
    BY <1>1, TypeParts DEF IInv, MailTyped, ClientsTyped, Careful
  <1>3. (used[c] = 0 => 1..used[c] = {}) /\ (used[c] # 0 => 1..used[c] = {1})
    BY <1>2
  <1>4. (used[c] = 0 => OwnConns(c) = {}) /\ (used[c] # 0 => OwnConns(c) = {k})
    BY <1>3 DEF OwnConns
  <1> QED BY <1>1, <1>2, <1>4 DEF LockStep, Unopened

\* send, with the thread there.
LEMMA AskedTurns ==
  ASSUME Careful, IInv, LockStep, server, NEW c \in Clients, NEW k, k = <<c, 1>>, used[c] # 0,
         cl[c].pc # "exited", th[k].pc # "ended",
         NEW v, NEW m \in Message, Ask(c, v, m), v.sock = k,
         server' = server, th' = th, toCli' = toCli, used' = used,
         Turn(th[k], Append(toSrv[k], m), toCli[k], v)
  PROVE  LockStep'
  <1>1. k \in Conn /\ k \notin closed /\ Sock(c) = k
    BY ClientSees
  <1>2. /\ toSrv' = [toSrv EXCEPT ![k] = Append(toSrv[k], m)] /\ cl' = [cl EXCEPT ![c] = v]
        /\ closed' = closed
    BY <1>1 DEF Ask
  <1>3. /\ cl'[c] = v /\ toSrv'[k] = Append(toSrv[k], m)
        /\ \A d \in Clients : d # c => cl'[d] = cl[d]
        /\ \A j \in Conn : j # k => toSrv'[j] = toSrv[j]
    BY <1>1, <1>2, TypeParts DEF IInv, ClientsTyped, MailTyped
  <1>4. \A d \in Clients : d # c => <<d, 1>> \in Conn /\ <<d, 1>> # k
    BY OwnConn DEF Careful
  <1>5. Turn(th'[k], toSrv'[k], toCli'[k], cl'[c])
    BY <1>3
  <1> QED BY <1>1, <1>2, <1>3, <1>4, <1>5, TurnFrame

\* A request, after whatever is left of a put.
LEMMA AskTurn ==
  ASSUME NEW t, NEW q \in Seq(Message), NEW r, NEW s, NEW v, NEW m \in Message,
         Turn(t, q, r, s), s.pc = "prompt", v.pc \in ReplyTypes, m.type = RequestOf[v.pc],
         v.pc = "AUTH_REPLY" => m.ok, Flags(t, v)
  PROVE  Turn(t, Append(q, m), r, v)
  <1>1. /\ r = <<>> /\ OnlyData(q) /\ OneEnd(q) /\ Idle(t, q) /\ (~Takes(t) => NoData(q))
    BY DEF Turn, Ordered
  <1>2. m.type \notin FileData
    BY Requests
  <1>3. /\ RequestLast(Append(q, m)) /\ OneEnd(Append(q, m)) /\ Append(q, m) # <<>>
        /\ ~Takes(t) => NoData(Append(q, m))
    BY <1>1, <1>2, Sent, EndOnce
  <1>4. Append(q, m)[Len(Append(q, m))] = m
    BY EndOnce
  <1>5. Idle(t, Append(q, m))
    BY <1>1, Sent DEF Idle
  <1>6. Unanswered(t, Append(q, m), r, v)
    BY <1>1, <1>3, <1>4, <1>5 DEF Unanswered
  <1>7. v.pc \notin {"prompt", "download", "upload", "exited"}
    BY DEF ReplyTypes
  <1> QED BY <1>3, <1>6, <1>7 DEF Turn, Ordered

LEMMA AskTurns ==
  ASSUME Careful, IInv, LockStep, server, NEW c \in Clients, cl[c].pc = "prompt", cl[c].connected,
         NEW v, NEW m \in Message, Ask(c, v, m), v.sock = Sock(c),
         server' = server, th' = th, toCli' = toCli, used' = used,
         v.pc \in ReplyTypes, m.type = RequestOf[v.pc], v.pc = "AUTH_REPLY" => m.ok,
         v.connected, v.pc \notin {"AUTH_REPLY", "QUIT_REPLY"} =>
                          v.authenticated /\ cl[c].authenticated /\ v.pc # "OPEN_REPLY"
  PROVE  LockStep'
  <1>1. PICK k : k = <<c, 1>>
    OBVIOUS
  <1>2. /\ k \in Conn /\ used[c] # 0 /\ Sock(c) = k /\ toSrv[k] \in Seq(Message)
        /\ Turn(th[k], toSrv[k], toCli[k], cl[c])
    BY <1>1, ClientSees
  <1>3. th[k].pc # "ended"
    BY <1>2 DEF Turn, Idle
  <1>4. Flags(th[k], v)
    <2>1. cl[c].authenticated => th[k].auth
      BY <1>2 DEF Turn, Flags
    <2> QED BY <2>1 DEF Flags, ReplyTypes
  <1>5. Turn(th[k], Append(toSrv[k], m), toCli[k], v)
    BY <1>2, <1>4, AskTurn
  <1>6. cl[c].pc # "exited" /\ v.sock = k
    BY <1>2
  <1> QED BY <1>1, <1>2, <1>3, <1>5, <1>6, AskedTurns

\* A client that never connected ends.
LEMMA UnopenedEnds ==
  ASSUME Careful, IInv, LockStep, server, NEW c \in Clients, used[c] = 0, cl' = [cl EXCEPT ![c].pc = "exited"],
         UNCHANGED <<server, th, toSrv, toCli, closed, used>>
  PROVE  LockStep'
  <1>1. /\ cl[c] \in ClientType /\ Unopened(th[<<c, 1>>], toSrv[<<c, 1>>], toCli[<<c, 1>>], cl[c])
        /\ <<c, 1>> \notin closed
    BY ClientSees
  <1>2. /\ cl'[c].pc = "exited" /\ cl'[c].connected = cl[c].connected
        /\ cl'[c].authenticated = cl[c].authenticated
        /\ \A d \in Clients : d # c => cl'[d] = cl[d]
    BY <1>1, TypeParts DEF IInv, ClientsTyped, ClientType
  <1>3. Unopened(th[<<c, 1>>], toSrv[<<c, 1>>], toCli[<<c, 1>>], cl'[c])
    BY <1>1, <1>2 DEF Unopened
  <1> QED BY <1>1, <1>2, <1>3 DEF LockStep

LEMMA CommandsTurn ==
  ASSUME Careful, IInv, LockStep, server, NEW c \in Clients,
         \/ AuthCommand(c) \/ Ls(c) \/ Get(c) \/ Put(c) \/ Quit(c)
  PROVE  LockStep'
  <1>w. /\ {"AUTH_REPLY", "LIST_REPLY", "GET_REPLY", "PUT_REPLY", "QUIT_REPLY"} \subseteq ReplyTypes
        /\ RequestOf["AUTH_REPLY"] = "AUTH" /\ RequestOf["LIST_REPLY"] = "LIST"
        /\ RequestOf["GET_REPLY"] = "GET" /\ RequestOf["PUT_REPLY"] = "PUT"
        /\ RequestOf["QUIT_REPLY"] = "QUIT"
    BY DEF ReplyTypes, RequestOf
  <1>0. cl[c] \in ClientType /\ Sock(c) = cl[c].sock
    BY ClientSees
  <1>1. CASE AuthCommand(c)
    <2>1. PICK good \in BOOLEAN :
             /\ Command(c, IF good THEN "auth" ELSE "badauth")
             /\ Ask(c, [cl[c] EXCEPT !.pc = "AUTH_REPLY", !.authenticated = FALSE], Auth(good))
      BY <1>1 DEF AuthCommand
    <2>2. good /\ cl[c].pc = "prompt" /\ cl[c].connected
      BY <2>1 DEF Command, Careful
    <2>3. UNCHANGED <<server, th, toCli, used>>
      BY <1>1 DEF AuthCommand
    <2> DEFINE v == [cl[c] EXCEPT !.pc = "AUTH_REPLY", !.authenticated = FALSE]
    <2>4. v.pc = "AUTH_REPLY" /\ v.sock = Sock(c) /\ v.connected
      BY <1>0, <2>2 DEF ClientType
    <2>5. Auth(good) \in Message /\ Auth(good).type = "AUTH" /\ Auth(good).ok
      BY <2>2, MessagesTyped
    <2> HIDE DEF v
    <2> QED BY <1>w, <2>1, <2>2, <2>3, <2>4, <2>5, AskTurns DEF v
  <1>2. ASSUME NEW word \in {"ls", "get", "put"}, Command(c, word), NEW v, NEW m \in Message,
               Ask(c, v, m), UNCHANGED <<server, th, toCli, used>>,
               v.pc \in {"LIST_REPLY", "GET_REPLY", "PUT_REPLY"}, m.type = RequestOf[v.pc],
               v.sock = cl[c].sock, v.connected = cl[c].connected,
               v.authenticated = cl[c].authenticated
        PROVE  LockStep'
    <2>1. cl[c].pc = "prompt" /\ cl[c].connected /\ cl[c].authenticated
      BY <1>2 DEF Command
    <2>2. v.pc \in ReplyTypes /\ v.pc \notin {"AUTH_REPLY", "QUIT_REPLY", "OPEN_REPLY"}
      BY <1>2 DEF ReplyTypes
    <2>3. server' = server /\ th' = th /\ toCli' = toCli /\ used' = used
      BY <1>2
    <2> QED BY <1>0, <1>2, <2>1, <2>2, <2>3, AskTurns
  <1>3. CASE Ls(c)
    <2>1. PICK v : /\ Ask(c, v, Plain("LIST")) /\ v.pc = "LIST_REPLY" /\ v.sock = cl[c].sock
                   /\ v.connected = cl[c].connected /\ v.authenticated = cl[c].authenticated
      <3> DEFINE v == [cl[c] EXCEPT !.pc = "LIST_REPLY"]
      <3>1. /\ v.pc = "LIST_REPLY" /\ v.sock = cl[c].sock
            /\ v.connected = cl[c].connected /\ v.authenticated = cl[c].authenticated
        BY <1>0 DEF ClientType
      <3>2. Ask(c, v, Plain("LIST"))
        BY <1>3 DEF Ls
      <3> HIDE DEF v
      <3> QED BY <3>1, <3>2
    <2>2. Command(c, "ls") /\ UNCHANGED <<server, th, toCli, used>>
      BY <1>3 DEF Ls
    <2>3. Plain("LIST") \in Message /\ Plain("LIST").type = "LIST"
      BY MessagesTyped DEF RequestTypes
    <2> QED BY <1>w, <1>2, <2>1, <2>2, <2>3
  <1>4. CASE Get(c)
    <2>1. PICK f \in Files : Ask(c, [cl[c] EXCEPT !.pc = "GET_REPLY", !.name = f], Named("GET", f))
      BY <1>4 DEF Get
    <2>2. PICK v : /\ Ask(c, v, Named("GET", f)) /\ v.pc = "GET_REPLY" /\ v.sock = cl[c].sock
                   /\ v.connected = cl[c].connected /\ v.authenticated = cl[c].authenticated
      <3> DEFINE v == [cl[c] EXCEPT !.pc = "GET_REPLY", !.name = f]
      <3>1. /\ v.pc = "GET_REPLY" /\ v.sock = cl[c].sock
            /\ v.connected = cl[c].connected /\ v.authenticated = cl[c].authenticated
        BY <1>0 DEF ClientType
      <3>2. Ask(c, v, Named("GET", f))
        BY <2>1
      <3> HIDE DEF v
      <3> QED BY <3>1, <3>2
    <2>3. Command(c, "get") /\ UNCHANGED <<server, th, toCli, used>>
      BY <1>4 DEF Get
    <2>4. Named("GET", f) \in Message /\ Named("GET", f).type = "GET"
      BY MessagesTyped
    <2> QED BY <1>w, <1>2, <2>2, <2>3, <2>4
  <1>5. CASE Put(c)
    <2>1. PICK f \in Files :
             Ask(c, [cl[c] EXCEPT !.pc = "PUT_REPLY", !.name = f, !.pos = 0], Named("PUT", f))
      BY <1>5 DEF Put
    <2>2. PICK v : /\ Ask(c, v, Named("PUT", f)) /\ v.pc = "PUT_REPLY" /\ v.sock = cl[c].sock
                   /\ v.connected = cl[c].connected /\ v.authenticated = cl[c].authenticated
      <3> DEFINE v == [cl[c] EXCEPT !.pc = "PUT_REPLY", !.name = f, !.pos = 0]
      <3>1. /\ v.pc = "PUT_REPLY" /\ v.sock = cl[c].sock
            /\ v.connected = cl[c].connected /\ v.authenticated = cl[c].authenticated
        BY <1>0 DEF ClientType
      <3>2. Ask(c, v, Named("PUT", f))
        BY <2>1
      <3> HIDE DEF v
      <3> QED BY <3>1, <3>2
    <2>3. Command(c, "put") /\ UNCHANGED <<server, th, toCli, used>>
      BY <1>5 DEF Put
    <2>4. Named("PUT", f) \in Message /\ Named("PUT", f).type = "PUT"
      BY MessagesTyped
    <2> QED BY <1>w, <1>2, <2>2, <2>3, <2>4
  <1>6. CASE Quit(c)
    <2>1. cl[c].pc = "prompt" /\ UNCHANGED <<server, th, toCli, used>>
      BY <1>6 DEF Quit, Command
    <2>2. CASE cl[c].connected
      <3> DEFINE v == [cl[c] EXCEPT !.pc = "QUIT_REPLY"]
      <3>1. Ask(c, v, Plain("QUIT"))
        BY <1>6, <2>2 DEF Quit
      <3>2. v.pc = "QUIT_REPLY" /\ v.sock = Sock(c) /\ v.connected
        BY <1>0, <2>2 DEF ClientType
      <3>3. Plain("QUIT") \in Message /\ Plain("QUIT").type = "QUIT"
        BY MessagesTyped DEF RequestTypes
      <3> HIDE DEF v
      <3> QED BY <1>w, <2>1, <2>2, <3>1, <3>2, <3>3, AskTurns
    <2>3. CASE ~cl[c].connected
      <3>1. ClientEnds(c, "exited") /\ toSrv' = toSrv
        BY <1>6, <2>3 DEF Quit
      <3>2. used[c] = 0 /\ OwnConns(c) = {}
        BY <2>1, <2>3, ClientSees DEF Turn, Flags
      <3>3. cl' = [cl EXCEPT ![c].pc = "exited"] /\ closed' = closed
        BY <3>1, <3>2 DEF ClientEnds
      <3> QED BY <2>1, <3>1, <3>2, <3>3, UnopenedEnds
    <2> QED BY <2>2, <2>3
  <1> QED BY <1>1, <1>3, <1>4, <1>5, <1>6

\* What a careful client does not do, and what does not concern the server.
LEMMA OtherStepsTurn ==
  ASSUME Careful, IInv, LockStep, server, NEW c \in Clients,
         \/ OpenRefused(c) \/ Usage(c) \/ SendForEver(c) \/ BadCommand(c) \/ Kill(c)
         \/ GetReplyMerged(c)
  PROVE  LockStep'
  <1>0. PICK k : k = <<c, 1>>
    OBVIOUS
  <1>1. CASE OpenRefused(c)
    BY <1>1 DEF OpenRefused, Command, Careful
  <1>2. CASE Usage(c)
    BY <1>2 DEF Usage, Command, Careful
  <1>3. CASE SendForEver(c)
    <2>1. cl[c].connected /\ cl[c].pc = "prompt" /\ Sock(c) \in closed
      BY <1>3 DEF SendForEver, Command
    <2> QED BY <1>0, <2>1, ClientSees
  <1>4. CASE BadCommand(c)
    <2>1. UNCHANGED <<server, th, cl, toSrv, toCli, closed, used>>
      BY <1>4 DEF BadCommand, wire
    <2> QED BY <2>1 DEF LockStep
  <1>5. CASE Kill(c)
    BY <1>5 DEF Kill, Careful
  <1>6. CASE GetReplyMerged(c)
    BY <1>6 DEF GetReplyMerged, Careful
  <1> QED BY <1>1, <1>2, <1>3, <1>4, <1>5, <1>6

LEMMA OpenTurns ==
  ASSUME Careful, IInv, LockStep, server, NEW c \in Clients, Open(c)
  PROVE  LockStep'
  <1>1. PICK k : k = <<c, 1>>
    OBVIOUS
  <1>2. used[c] = 0
    BY TypeParts DEF Open, IInv, ClientsTyped, Careful
  <1>3. /\ k \in Conn /\ cl[c] \in ClientType /\ k \notin closed
        /\ Unopened(th[k], toSrv[k], toCli[k], cl[c])
    BY <1>1, <1>2, ClientSees
  <1>4. /\ cl' = [cl EXCEPT ![c].pc = "OPEN_REPLY", ![c].sock = k, ![c].connected = FALSE]
        /\ th' = [th EXCEPT ![k].pc = "recv"]
        /\ toSrv' = [toSrv EXCEPT ![k] = <<Plain("OPEN")>>]
        /\ used' = [used EXCEPT ![c] = 1]
        /\ server' = server /\ toCli' = toCli /\ closed' = closed
    BY <1>1, <1>2 DEF Open
  <1>5. th[k] \in ThreadType /\ \A d \in Clients : d # c => <<d, 1>> \in Conn /\ <<d, 1>> # k
    BY <1>1, <1>3, OwnConn, TypeParts DEF IInv, ThreadsTyped, Careful
  <1>6. /\ cl'[c].pc = "OPEN_REPLY" /\ cl'[c].sock = k /\ ~cl'[c].connected
        /\ cl'[c].authenticated = cl[c].authenticated
        /\ \A d \in Clients : d # c => cl'[d] = cl[d]
    BY <1>3, <1>4, TypeParts DEF IInv, ClientsTyped, ClientType
  <1>7. /\ th'[k].pc = "recv" /\ th'[k].auth = th[k].auth
        /\ \A j \in Conn : j # k => th'[j] = th[j]
    BY <1>3, <1>4, <1>5, TypeParts DEF IInv, ThreadsTyped, ThreadType
  <1>8. /\ toSrv'[k] = <<Plain("OPEN")>> /\ used'[c] = 1
        /\ \A j \in Conn : j # k => toSrv'[j] = toSrv[j]
        /\ \A d \in Clients : d # c => used'[d] = used[d]
    BY <1>3, <1>4, TypeParts DEF IInv, MailTyped, ClientsTyped
  <1>9. Turn(th'[k], toSrv'[k], toCli'[k], cl'[c])
    <2> DEFINE q == <<Plain("OPEN")>>
    <2>1. Plain("OPEN").type = "OPEN"
      BY MessagesTyped DEF RequestTypes
    <2>2. Len(q) = 1 /\ q[1].type = "OPEN" /\ q # <<>>
      BY <2>1
    <2> HIDE DEF q
    <2>3. RequestLast(q) /\ OneEnd(q) /\ NoData(q)
      BY <2>2 DEF RequestLast, OneEnd, NoData, FileData
    <2>4. Flags(th'[k], cl'[c])
      BY <1>3, <1>6, <1>7 DEF Flags, Unopened
    <2>5. toSrv'[k] = q /\ toCli'[k] = <<>>
      BY <1>3, <1>4, <1>8 DEF q, Unopened
    <2>6. Unanswered(th'[k], q, <<>>, cl'[c])
      BY <1>6, <1>7, <2>2 DEF Unanswered, Idle, Takes, RequestOf
    <2> QED BY <1>6, <2>3, <2>4, <2>5, <2>6 DEF Turn, Ordered, ReplyTypes
  <1>10. used'[c] # 0 /\ server' = server
    BY <1>4, <1>8
  <1>11. \A d \in Clients : d # c =>
             /\ th'[<<d, 1>>] = th[<<d, 1>>] /\ cl'[d] = cl[d] /\ used'[d] = used[d]
             /\ toSrv'[<<d, 1>>] = toSrv[<<d, 1>>] /\ toCli'[<<d, 1>>] = toCli[<<d, 1>>]
             /\ <<d, 1>> \in closed' => <<d, 1>> \in closed
    BY <1>4, <1>5, <1>6, <1>7, <1>8
  <1>12. k \notin closed'
    BY <1>3, <1>4
  <1> QED BY <1>1, <1>6, <1>9, <1>10, <1>11, <1>12, TurnFrame

\* A reply a client gets is the one it waits for.
LEMMA Replied ==
  ASSUME Careful, IInv, LockStep, server, NEW c \in Clients, NEW k, k = <<c, 1>>,
         NEW type \in ReplyTypes, Gets(c, type)
  PROVE  /\ used[c] # 0 /\ Sock(c) = k /\ OwnConns(c) = {k} /\ cl[c].pc = type
         /\ Answered(th[k], toSrv[k], toCli[k], cl[c]) /\ Flags(th[k], cl[c])
         /\ toSrv[k] = <<>> /\ toCli[k] \in Seq(Message)
         /\ Reply(c) = Head(toCli[k]) /\ Reply(c).type = type
         /\ toCli' = [toCli EXCEPT ![k] = Tail(toCli[k])]
         /\ Client(c) \in ClientType /\ Client(c).sock = k
         /\ Client(c).connected = cl[c].connected /\ Client(c).authenticated = cl[c].authenticated
  <1>1. /\ Client(c) = [cl[c] EXCEPT !.reply = Reply(c)] /\ Client(c) \in ClientType
        /\ Client(c).sock = Sock(c) /\ cl[c] \in ClientType /\ cl[c].pc = type
    BY ReplyFacts
  <1>2. type \notin {"prompt", "exited"}
    BY DEF ReplyTypes
  <1>3. /\ used[c] # 0 /\ Sock(c) = k /\ OwnConns(c) = {k} /\ toCli[k] \in Seq(Message)
        /\ Turn(th[k], toSrv[k], toCli[k], cl[c])
    BY <1>1, <1>2, ClientSees
  <1>4. toCli[k] # <<>> \/ th[k].pc = "ended"
    BY <1>3 DEF Gets
  <1>5. Answered(th[k], toSrv[k], toCli[k], cl[c]) /\ Flags(th[k], cl[c])
    BY <1>1, <1>3, <1>4 DEF Turn, Unanswered, Idle
  <1>6. toSrv[k] = <<>> /\ toCli[k] # <<>> /\ Head(toCli[k]).type = type
    BY <1>1, <1>5 DEF Answered
  <1>7. Reply(c) = Head(toCli[k]) /\ toCli' = [toCli EXCEPT ![k] = Tail(toCli[k])]
    BY <1>3, <1>6 DEF Reply, Gets
  <1>8. /\ Client(c).connected = cl[c].connected
        /\ Client(c).authenticated = cl[c].authenticated
    BY <1>1 DEF ClientType
  <1> QED BY <1>1, <1>3, <1>5, <1>6, <1>7, <1>8

\* Nothing is on its way to the server, what follows the reply to the client.
LEMMA RepliedTurn ==
  ASSUME NEW t, NEW r, NEW v, Flags(t, v),
         \/ v.pc = "prompt" /\ r = <<>> /\ t.pc = "recv"
         \/ v.pc = "download" /\ Streams(t, r)
         \/ v.pc = "upload" /\ r = <<>> /\ Takes(t)
         \/ v.pc = "exited" /\ t.pc = "ended"
  PROVE  Turn(t, <<>>, r, v)
  <1>1. Ordered(t, <<>>) /\ OnlyData(<<>>) /\ AllBlocks(<<>>)
    BY NothingSent, EndOnce DEF Ordered
  <1>2. t.pc = "recv" => Idle(t, <<>>)
    BY DEF Idle, Takes
  <1>3. v.pc \notin ReplyTypes
    BY DEF ReplyTypes
  <1> QED BY <1>1, <1>2, <1>3 DEF Turn

LEMMA ReplyTurns ==
  ASSUME Careful, IInv, LockStep, server, NEW c \in Clients, NEW k, k = <<c, 1>>, used[c] # 0,
         Sock(c) = k, cl[c].pc # "exited", NEW v, cl' = [cl EXCEPT ![c] = v], v.sock = k,
         NEW r, toCli' = [toCli EXCEPT ![k] = r],
         server' = server, th' = th, used' = used, toSrv' = toSrv,
         closed' = closed \/ (closed' = closed \cup {k} /\ v.pc = "exited"),
         Turn(th[k], toSrv[k], r, v)
  PROVE  LockStep'
  <1>1. k \in Conn /\ k \notin closed
    BY ClientSees
  <1>2. /\ cl'[c] = v /\ toCli'[k] = r
        /\ \A d \in Clients : d # c => cl'[d] = cl[d]
        /\ \A j \in Conn : j # k => toCli'[j] = toCli[j]
    BY <1>1, TypeParts DEF IInv, ClientsTyped, MailTyped
  <1>3. \A d \in Clients : d # c => <<d, 1>> \in Conn /\ <<d, 1>> # k
    BY OwnConn DEF Careful
  <1>4. Turn(th'[k], toSrv'[k], toCli'[k], cl'[c])
    BY <1>2
  <1> QED BY <1>1, <1>2, <1>3, <1>4, TurnFrame

LEMMA RepliesTurn ==
  ASSUME Careful, IInv, LockStep, server, NEW c \in Clients,
         \/ OpenReply(c) \/ AuthReply(c) \/ LsReply(c) \/ GetReply(c) \/ PutReply(c)
         \/ QuitReply(c) \/ WrongHeader(c)
  PROVE  LockStep'
  <1>w. /\ {"OPEN_REPLY", "AUTH_REPLY", "LIST_REPLY", "GET_REPLY", "PUT_REPLY", "QUIT_REPLY"}
              \subseteq ReplyTypes
        /\ "exited" \notin ReplyTypes
    BY DEF ReplyTypes
  <1>0. PICK k : k = <<c, 1>>
    OBVIOUS
  <1>1. ASSUME NEW type \in ReplyTypes, Gets(c, type), NEW v, cl' = [cl EXCEPT ![c] = v],
               v.sock = k, Flags(th[k], v),
               UNCHANGED <<server, th, used, toSrv>>,
               closed' = closed \/ (closed' = closed \cup {k} /\ v.pc = "exited"),
               \/ v.pc = "prompt" /\ Tail(toCli[k]) = <<>> /\ th[k].pc = "recv"
               \/ v.pc = "download" /\ Streams(th[k], Tail(toCli[k]))
               \/ v.pc = "upload" /\ Tail(toCli[k]) = <<>> /\ Takes(th[k])
               \/ v.pc = "exited" /\ th[k].pc = "ended"
        PROVE  LockStep'
    <2>1. /\ used[c] # 0 /\ Sock(c) = k /\ cl[c].pc # "exited" /\ toSrv[k] = <<>>
          /\ toCli' = [toCli EXCEPT ![k] = Tail(toCli[k])]
      BY <1>w, <1>0, <1>1, Replied
    <2>2. PICK r : r = Tail(toCli[k]) /\ toCli' = [toCli EXCEPT ![k] = r]
      BY <2>1
    <2>3. \/ v.pc = "prompt" /\ r = <<>> /\ th[k].pc = "recv"
          \/ v.pc = "download" /\ Streams(th[k], r)
          \/ v.pc = "upload" /\ r = <<>> /\ Takes(th[k])
          \/ v.pc = "exited" /\ th[k].pc = "ended"
      BY <1>1, <2>2
    <2>4. Flags(th[k], v)
      BY <1>1
    <2>5. Turn(th[k], <<>>, r, v)
      BY <2>3, <2>4, RepliedTurn
    <2>6. Turn(th[k], toSrv[k], r, v)
      BY <2>1, <2>5
    <2>7. server' = server /\ th' = th /\ used' = used /\ toSrv' = toSrv
      BY <1>1
    <2>8. cl' = [cl EXCEPT ![c] = v] /\ v.sock = k
      BY <1>1
    <2>9. closed' = closed \/ (closed' = closed \cup {k} /\ v.pc = "exited")
      BY <1>1
    <2> QED BY <1>0, <2>1, <2>2, <2>6, <2>7, <2>8, <2>9, ReplyTurns
  <1>2. CASE OpenReply(c)
    <2>1. /\ Gets(c, "OPEN_REPLY") /\ UNCHANGED <<server, th, used, toSrv, closed>>
          /\ cl' = [cl EXCEPT ![c] = [Client(c) EXCEPT !.pc = "prompt", !.connected = TRUE]]
      BY <1>2 DEF OpenReply, bounds
    <2>2. /\ Answered(th[k], toSrv[k], toCli[k], cl[c]) /\ Flags(th[k], cl[c])
          /\ cl[c].pc = "OPEN_REPLY" /\ Client(c) \in ClientType /\ Client(c).sock = k
          /\ Client(c).authenticated = cl[c].authenticated
      BY <1>w, <1>0, <2>1, Replied
    <2> DEFINE v == [Client(c) EXCEPT !.pc = "prompt", !.connected = TRUE]
    <2>3. /\ v.pc = "prompt" /\ v.sock = k /\ v.connected
          /\ v.authenticated = cl[c].authenticated
      BY <2>2 DEF ClientType
    <2> HIDE DEF v
    <2>4. Flags(th[k], v)
      BY <2>2, <2>3 DEF Flags
    <2>5. Tail(toCli[k]) = <<>> /\ th[k].pc = "recv"
      BY <2>2 DEF Answered
    <2>6. cl' = [cl EXCEPT ![c] = v]
      BY <2>1 DEF v
    <2> QED BY <1>w, <1>1, <2>1, <2>3, <2>4, <2>5, <2>6
  <1>3. CASE AuthReply(c)
    <2>1. /\ Gets(c, "AUTH_REPLY") /\ UNCHANGED <<server, th, used, toSrv>>
          /\ cl' = [cl EXCEPT ![c] = [Client(c) EXCEPT !.pc = "prompt",
                                                       !.authenticated = Reply(c).ok]]
          /\ closed' = IF Reply(c).ok THEN closed ELSE closed \cup {Sock(c)}
      BY <1>3 DEF AuthReply, bounds
    <2>2. /\ Answered(th[k], toSrv[k], toCli[k], cl[c]) /\ Flags(th[k], cl[c])
          /\ cl[c].pc = "AUTH_REPLY" /\ Client(c) \in ClientType /\ Client(c).sock = k
          /\ Client(c).connected = cl[c].connected /\ Reply(c) = Head(toCli[k])
      BY <1>w, <1>0, <2>1, Replied
    <2>3. Reply(c).ok /\ th[k].auth /\ Tail(toCli[k]) = <<>> /\ th[k].pc = "recv"
      BY <2>2 DEF Answered
    <2> DEFINE v == [Client(c) EXCEPT !.pc = "prompt", !.authenticated = Reply(c).ok]
    <2>4. /\ v.pc = "prompt" /\ v.sock = k /\ v.connected = cl[c].connected /\ v.authenticated
      BY <2>2, <2>3 DEF ClientType
    <2> HIDE DEF v
    <2>5. Flags(th[k], v)
      BY <2>2, <2>3, <2>4 DEF Flags
    <2>6. cl' = [cl EXCEPT ![c] = v] /\ closed' = closed
      BY <2>1, <2>3 DEF v
    <2> QED BY <1>w, <1>1, <2>1, <2>3, <2>4, <2>5, <2>6
  <1>4. CASE LsReply(c)
    <2>1. /\ Gets(c, "LIST_REPLY") /\ UNCHANGED <<server, th, used, toSrv, closed>>
          /\ cl' = [cl EXCEPT ![c] = [Client(c) EXCEPT !.pc = "prompt"]]
      BY <1>4 DEF LsReply, bounds
    <2>2. /\ Answered(th[k], toSrv[k], toCli[k], cl[c]) /\ Flags(th[k], cl[c])
          /\ cl[c].pc = "LIST_REPLY" /\ Client(c) \in ClientType /\ Client(c).sock = k
          /\ Client(c).authenticated = cl[c].authenticated
          /\ Client(c).connected = cl[c].connected
      BY <1>w, <1>0, <2>1, Replied
    <2> DEFINE v == [Client(c) EXCEPT !.pc = "prompt"]
    <2>3. /\ v.pc = "prompt" /\ v.sock = k /\ v.connected = cl[c].connected
          /\ v.authenticated = cl[c].authenticated
      BY <2>2 DEF ClientType
    <2> HIDE DEF v
    <2>4. Flags(th[k], v)
      BY <2>2, <2>3 DEF Flags
    <2>5. Tail(toCli[k]) = <<>> /\ th[k].pc = "recv"
      BY <2>2 DEF Answered
    <2>6. cl' = [cl EXCEPT ![c] = v]
      BY <2>1 DEF v
    <2> QED BY <1>w, <1>1, <2>1, <2>3, <2>4, <2>5, <2>6
  <1>5. CASE GetReply(c)
    <2>1. /\ Gets(c, "GET_REPLY") /\ UNCHANGED <<server, th, used, toSrv, closed>>
          /\ cl' = [cl EXCEPT ![c] = IF Reply(c).ok
                       THEN [Client(c) EXCEPT !.pc = "download", !.own[cl[c].name] = <<>>]
                       ELSE [Client(c) EXCEPT !.pc = "prompt"]]
      BY <1>5 DEF GetReply, bounds, Careful
    <2>2. /\ Answered(th[k], toSrv[k], toCli[k], cl[c]) /\ Flags(th[k], cl[c])
          /\ cl[c].pc = "GET_REPLY" /\ Client(c) \in ClientType /\ Client(c).sock = k
          /\ Client(c).authenticated = cl[c].authenticated
          /\ Client(c).connected = cl[c].connected /\ Reply(c) = Head(toCli[k])
      BY <1>w, <1>0, <2>1, Replied
    <2> DEFINE v == IF Reply(c).ok
                    THEN [Client(c) EXCEPT !.pc = "download", !.own[cl[c].name] = <<>>]
                    ELSE [Client(c) EXCEPT !.pc = "prompt"]
    <2>3. /\ v.pc = IF Reply(c).ok THEN "download" ELSE "prompt"
          /\ v.sock = k /\ v.connected = cl[c].connected
          /\ v.authenticated = cl[c].authenticated
      BY <2>2 DEF ClientType
    <2>4. cl' = [cl EXCEPT ![c] = v]
      BY <2>1
    <2> HIDE DEF v
    <2>5. Flags(th[k], v)
      BY <2>2, <2>3 DEF Flags
    <2>6. \/ v.pc = "prompt" /\ Tail(toCli[k]) = <<>> /\ th[k].pc = "recv"
          \/ v.pc = "download" /\ Streams(th[k], Tail(toCli[k]))
      BY <2>2, <2>3 DEF Answered
    <2> QED BY <1>w, <1>1, <2>1, <2>3, <2>4, <2>5, <2>6
  <1>6. CASE PutReply(c)
    <2>1. /\ Gets(c, "PUT_REPLY") /\ UNCHANGED <<server, th, used, toSrv, closed>>
          /\ cl' = [cl EXCEPT ![c] = [Client(c) EXCEPT !.pc = "upload"]]
      BY <1>6 DEF PutReply, bounds
    <2>2. /\ Answered(th[k], toSrv[k], toCli[k], cl[c]) /\ Flags(th[k], cl[c])
          /\ cl[c].pc = "PUT_REPLY" /\ Client(c) \in ClientType /\ Client(c).sock = k
          /\ Client(c).authenticated = cl[c].authenticated
          /\ Client(c).connected = cl[c].connected
      BY <1>w, <1>0, <2>1, Replied
    <2> DEFINE v == [Client(c) EXCEPT !.pc = "upload"]
    <2>3. /\ v.pc = "upload" /\ v.sock = k /\ v.connected = cl[c].connected
          /\ v.authenticated = cl[c].authenticated
      BY <2>2 DEF ClientType
    <2> HIDE DEF v
    <2>4. Flags(th[k], v)
      BY <2>2, <2>3 DEF Flags
    <2>5. Tail(toCli[k]) = <<>> /\ Takes(th[k])
      BY <2>2 DEF Answered, Takes
    <2>6. cl' = [cl EXCEPT ![c] = v]
      BY <2>1 DEF v
    <2> QED BY <1>w, <1>1, <2>1, <2>3, <2>4, <2>5, <2>6
  <1>7. CASE QuitReply(c)
    <2>1. /\ Gets(c, "QUIT_REPLY") /\ UNCHANGED <<server, th, used, toSrv>>
          /\ ClientEnds(c, "exited")
      BY <1>7 DEF QuitReply, bounds
    <2>2. /\ Answered(th[k], toSrv[k], toCli[k], cl[c]) /\ cl[c].pc = "QUIT_REPLY"
          /\ OwnConns(c) = {k} /\ Sock(c) = k /\ cl[c] \in ClientType
      BY <1>w, <1>0, <2>1, Replied, ClientSees
    <2> DEFINE v == [cl[c] EXCEPT !.pc = "exited"]
    <2>3. v.pc = "exited" /\ v.sock = k
      BY <2>2 DEF ClientType, Sock
    <2>4. cl' = [cl EXCEPT ![c] = v] /\ closed' = closed \cup {k}
      BY <2>1, <2>2, TypeParts DEF ClientEnds, IInv, ClientsTyped
    <2> HIDE DEF v
    <2>5. Flags(th[k], v)
      BY <2>3 DEF Flags
    <2>6. th[k].pc = "ended"
      BY <2>2 DEF Answered
    <2> QED BY <1>w, <1>1, <2>1, <2>3, <2>4, <2>5, <2>6
  <1>8. CASE WrongHeader(c)
    <2>1. PICK type \in {"AUTH_REPLY", "LIST_REPLY", "GET_REPLY", "PUT_REPLY"} :
             Gets(c, type) /\ Reply(c).type # type
      BY <1>8 DEF WrongHeader
    <2> QED BY <1>w, <1>0, <2>1, Replied
  <1> QED BY <1>2, <1>3, <1>4, <1>5, <1>6, <1>7, <1>8

\* The next message of a file: a block, or the end.
LEMMA StreamTurn ==
  ASSUME NEW t, NEW r \in Seq(Message), r # <<>>, Streams(t, r)
  PROVE  /\ Head(r).type # "END" => Streams(t, Tail(r))
         /\ Head(r).type = "END" => Tail(r) = <<>> /\ t.pc = "recv"
  <1>1. /\ Tail(r) \in Seq(Message) /\ OnlyData(Tail(r)) /\ OneEnd(Tail(r))
        /\ Head(r).type = "END" => NoData(Tail(r))
        /\ HasEnd(r) <=> Head(r).type = "END" \/ HasEnd(Tail(r))
        /\ AllBlocks(r) <=> Head(r).type = "DATA" /\ AllBlocks(Tail(r))
    BY Received, EndOnce DEF Streams
  <1>2. Tail(r) # <<>> => ~NoData(Tail(r))
    BY <1>1, Received
  <1> QED BY <1>1, <1>2 DEF Streams

LEMMA DownloadTurns ==
  ASSUME Careful, IInv, LockStep, server, NEW c \in Clients, Download(c) \/ DownloadNothing(c)
  PROVE  LockStep'
  <1>0. PICK k : k = <<c, 1>>
    OBVIOUS
  <1>1. cl[c].pc = "download"
    BY DEF Download, DownloadNothing
  <1>2. /\ used[c] # 0 /\ Sock(c) = k /\ cl[c].pc # "exited" /\ cl[c] \in ClientType
        /\ cl[c].sock = k /\ toCli[k] \in Seq(Message)
        /\ Turn(th[k], toSrv[k], toCli[k], cl[c])
    BY <1>0, <1>1, ClientSees
  <1>3. toSrv[k] = <<>> /\ Streams(th[k], toCli[k]) /\ Flags(th[k], cl[c])
    BY <1>1, <1>2 DEF Turn
  <1>4. CASE Download(c)
    <2> DEFINE m == Head(toCli[k])
               v == IF m.type = "END" THEN [cl[c] EXCEPT !.pc = "prompt"]
                    ELSE [cl[c] EXCEPT !.own[cl[c].name] = Append(@, m.block)]
    <2>1. /\ toCli[k] # <<>> /\ cl' = [cl EXCEPT ![c] = v]
          /\ UNCHANGED <<server, th, used, toSrv, closed>>
      BY <1>2, <1>4 DEF Download, bounds
    <2>2. toCli' = [toCli EXCEPT ![k] = Tail(toCli[k])]
      BY <1>2, <1>4 DEF Download
    <2>3. /\ v.pc = IF m.type = "END" THEN "prompt" ELSE "download"
          /\ v.sock = k /\ v.connected = cl[c].connected
          /\ v.authenticated = cl[c].authenticated
      BY <1>1, <1>2 DEF ClientType
    <2>4. /\ m.type # "END" => Streams(th[k], Tail(toCli[k]))
          /\ m.type = "END" => Tail(toCli[k]) = <<>> /\ th[k].pc = "recv"
      BY <1>2, <1>3, <2>1, StreamTurn
    <2> HIDE DEF m, v
    <2>5. PICK r : r = Tail(toCli[k]) /\ toCli' = [toCli EXCEPT ![k] = r]
      BY <2>2
    <2>6. Flags(th[k], v)
      BY <1>1, <1>3, <2>3 DEF Flags
    <2>7. \/ v.pc = "prompt" /\ r = <<>> /\ th[k].pc = "recv"
          \/ v.pc = "download" /\ Streams(th[k], r)
      BY <2>3, <2>4, <2>5
    <2>8. Turn(th[k], <<>>, r, v)
      BY <2>6, <2>7, RepliedTurn
    <2>9. Turn(th[k], toSrv[k], r, v)
      BY <1>3, <2>8
    <2>10. server' = server /\ th' = th /\ used' = used /\ toSrv' = toSrv /\ closed' = closed
      BY <2>1
    <2>11. cl' = [cl EXCEPT ![c] = v] /\ v.sock = k
      BY <2>1, <2>3
    <2> QED BY <1>0, <1>2, <2>5, <2>9, <2>10, <2>11, ReplyTurns
  <1>5. CASE DownloadNothing(c)
    <2>1. toCli[k] = <<>> /\ th[k].pc = "ended"
      BY <1>2, <1>5 DEF DownloadNothing
    <2> QED BY <1>3, <2>1 DEF Streams
  <1> QED BY <1>4, <1>5

LEMMA UploadTurns ==
  ASSUME Careful, IInv, LockStep, server, NEW c \in Clients, Upload(c)
  PROVE  LockStep'
  <1>0. PICK k : k = <<c, 1>>
    OBVIOUS
  <1>1. cl[c].pc = "upload" /\ UNCHANGED <<server, th, toCli, used>>
    BY DEF Upload, bounds
  <1>2. /\ used[c] # 0 /\ Sock(c) = k /\ cl[c].pc # "exited" /\ cl[c] \in ClientType
        /\ cl[c].sock = k /\ toSrv[k] \in Seq(Message)
        /\ Turn(th[k], toSrv[k], toCli[k], cl[c])
    BY <1>0, <1>1, ClientSees
  <1>3. /\ toCli[k] = <<>> /\ Takes(th[k]) /\ AllBlocks(toSrv[k]) /\ Flags(th[k], cl[c])
        /\ th[k].pc # "ended" /\ OnlyData(toSrv[k])
    BY <1>1, <1>2 DEF Turn, Takes, AllBlocks, OnlyData, FileData
  <1>4. PICK m, v :
           /\ m \in Message /\ Ask(c, v, m) /\ v.sock = k /\ v.connected = cl[c].connected
           /\ v.authenticated = cl[c].authenticated
           /\ \/ m.type = "DATA" /\ v.pc = "upload"
              \/ m.type = "END" /\ v.pc = "prompt"
    <2> DEFINE contents == cl[c].own[cl[c].name]
               i == cl[c].pos + 1
    <2>1. cl[c].name \in Files /\ contents \in Seq(Blocks) /\ i \in Nat /\ i >= 1
      BY <1>1, <1>2, TypeParts DEF IInv, SafeInv, Sockets, ClientType
    <2>2. CASE i <= Len(contents)
      <3> DEFINE v == [cl[c] EXCEPT !.pos = i]
      <3>1. Ask(c, v, Data(contents[i]))
        BY <2>2 DEF Upload
      <3>2. contents[i] \in Blocks
        BY <2>1, <2>2
      <3>3. Data(contents[i]) \in Message /\ Data(contents[i]).type = "DATA"
        BY <3>2, MessagesTyped
      <3>4. /\ v.sock = k /\ v.pc = "upload" /\ v.connected = cl[c].connected
            /\ v.authenticated = cl[c].authenticated
        BY <1>1, <1>2 DEF ClientType
      <3> HIDE DEF v, contents, i
      <3> QED BY <3>1, <3>3, <3>4
    <2>3. CASE ~(i <= Len(contents))
      <3> DEFINE v == [cl[c] EXCEPT !.pc = "prompt"]
      <3>1. Ask(c, v, Plain("END"))
        BY <2>3 DEF Upload
      <3>2. Plain("END") \in Message /\ Plain("END").type = "END"
        BY MessagesTyped
      <3>3. /\ v.sock = k /\ v.pc = "prompt" /\ v.connected = cl[c].connected
            /\ v.authenticated = cl[c].authenticated
        BY <1>2 DEF ClientType
      <3> HIDE DEF v
      <3> QED BY <3>1, <3>2, <3>3
    <2> QED BY <2>2, <2>3
  <1>5. Turn(th[k], Append(toSrv[k], m), toCli[k], v)
    <2>1. /\ RequestLast(Append(toSrv[k], m)) /\ OneEnd(Append(toSrv[k], m))
          /\ OnlyData(Append(toSrv[k], m))
          /\ m.type = "DATA" => AllBlocks(Append(toSrv[k], m))
          /\ m.type = "END" => HasEnd(Append(toSrv[k], m))
      BY <1>2, <1>3, <1>4, Sent, EndOnce DEF FileData
    <2>2. Flags(th[k], v)
      BY <1>1, <1>3, <1>4 DEF Flags
    <2>3. m.type = "END" => Idle(th[k], Append(toSrv[k], m))
      BY <1>3, <2>1 DEF Idle, Takes
    <2>4. v.pc \notin ReplyTypes
      BY <1>4 DEF ReplyTypes
    <2> QED BY <1>3, <1>4, <2>1, <2>2, <2>3, <2>4 DEF Turn, Ordered
  <1>6. server' = server /\ th' = th /\ toCli' = toCli /\ used' = used
    BY <1>1
  <1> QED BY <1>0, <1>2, <1>3, <1>4, <1>5, <1>6, AskedTurns

-----------------------------------------------------------------------------
(* All steps *)

LEMMA InitTurns == Init => LockStep
  <1> SUFFICES ASSUME Init PROVE LockStep
    OBVIOUS
  <1>1. \A c \in Clients : <<c, 1>> \in Conn
    BY FtpAssumption DEF Conn
  <1>2. server /\ closed = {} /\ \A c \in Clients : used[c] = 0
    BY DEF Init
  <1>3. \A k \in Conn : th[k].pc = "none" /\ ~th[k].auth /\ toSrv[k] = <<>> /\ toCli[k] = <<>>
    BY DEF Init
  <1>4. \A c \in Clients : cl[c].pc = "prompt" /\ ~cl[c].connected /\ ~cl[c].authenticated
    BY DEF Init
  <1>5. ASSUME NEW c \in Clients
        PROVE  Unopened(th[<<c, 1>>], toSrv[<<c, 1>>], toCli[<<c, 1>>], cl[c])
    BY <1>1, <1>3, <1>4 DEF Unopened
  <1> QED BY <1>2, <1>5 DEF LockStep

\* Without the server there are only clients.
LEMMA ServerGone ==
  ASSUME IInv, ~server, [Next]_vars
  PROVE  ~server' /\ th' = th
  <1>1. \A k \in Conn : th[k].pc = "ended"
    BY DEF IInv, SafeInv, Threads
  <1>2. ASSUME NEW k \in Conn, ThreadStep(k) PROVE FALSE
    BY <1>1, <1>2 DEF ThreadStep, Receives, HandleOpen, HandleAuth, HandleRefused, HandleList,
       HandleGet, SendBlock, HandlePut, OpenForPut, OpenForPutFails, RecvBlock, RecvNothing,
       HandleQuit, HandleUnknown
  <1>3. ASSUME NEW c \in Clients, UserStep(c) \/ ClientStep(c) PROVE server' = server /\ th' = th
    BY <1>3 DEF UserStep, ClientStep, Open, OpenRefused, Usage, AuthCommand, Ls, Get, Put,
       Quit, SendForEver, BadCommand, Kill, OpenReply, AuthReply, LsReply, GetReply,
       GetReplyMerged, Download, DownloadNothing, PutReply, Upload, WrongHeader, QuitReply
  <1>4. CASE UNCHANGED vars
    BY <1>4 DEF vars
  <1> QED BY <1>2, <1>3, <1>4 DEF Next

LEMMA StepTurns == Careful /\ IInv /\ LockStep /\ [Next]_vars => LockStep'
  <1> SUFFICES ASSUME Careful, IInv, LockStep, [Next]_vars PROVE LockStep'
    OBVIOUS
  <1>0. CASE ~server
    BY <1>0, ServerGone DEF LockStep
  <1> SUFFICES ASSUME server PROVE LockStep'
    BY <1>0
  <1>1. CASE UNCHANGED vars
    BY <1>1 DEF LockStep, vars, wire, bounds
  <1>2. ASSUME NEW k \in Conn, ThreadStep(k) PROVE LockStep'
    BY <1>2, HandlersTurn, FilesTurn DEF ThreadStep
  <1>3. ASSUME NEW c \in Clients, UserStep(c) PROVE LockStep'
    BY <1>3, OpenTurns, CommandsTurn, OtherStepsTurn DEF UserStep
  <1>4. ASSUME NEW c \in Clients, ClientStep(c) PROVE LockStep'
    BY <1>4, RepliesTurn, DownloadTurns, UploadTurns, OtherStepsTurn DEF ClientStep
  <1> QED BY <1>1, <1>2, <1>3, <1>4 DEF Next

LEMMA LockStepInvariance == ASSUME Careful PROVE Spec => []LockStep
  <1>1. IInv /\ LockStep /\ [Next]_vars => LockStep'
    BY StepTurns
  <1> QED BY <1>1, InitTurns, Invariance, PTL DEF Spec

\* No reply, and no message of a file, is taken for another: a careful client
\* never ends over a wrong header while the server is there to answer.
THEOREM HeadersRight == ASSUME Careful PROVE Spec => []NoWrongHeader
  <1>1. LockStep => NoWrongHeader
    BY DEF LockStep, NoWrongHeader, Unopened, Turn, ReplyTypes
  <1> QED BY <1>1, LockStepInvariance, PTL

\* Of all that a thread does for a careful client, one thing ends the server.
LEMMA StepServes ==
  ASSUME Careful, IInv, PutsKnown, LockStep, ServerSurvives, [Next]_vars
  PROVE  ServerSurvives'
  <1>1. CASE ~server
    <2>1. FailedPut
      BY <1>1 DEF ServerSurvives
    <2>2. th' = th
      BY <1>1, ServerGone
    <2> QED BY <2>1, <2>2 DEF ServerSurvives, FailedPut
  <1>2. ASSUME server, NEW k \in Conn, ThreadStep(k) PROVE ServerSurvives'
    <2>1. /\ th[k].pc \in {"recv", "getdata", "putopen", "putdata"}
          /\ th[k].pc = "putopen" \/ ~OpenForPutFails(k)
      BY <1>2 DEF ThreadStep, Receives, HandleOpen, HandleAuth, HandleRefused, HandleList,
         HandleGet, SendBlock, HandlePut, OpenForPut, OpenForPutFails, RecvBlock, RecvNothing,
         HandleQuit, HandleUnknown
    <2>2. k \notin closed /\ th[k] \in ThreadType
      BY <1>2, <2>1, ThreadSees
    <2>3. CASE OpenForPutFails(k)
      <3>1. th[k].pc = "putopen" /\ th[k].name \notin Files \ Unwritable /\ ServerEnds
        BY <2>3 DEF OpenForPutFails
      <3>2. Puts(th[k]) /\ th[k].name \in Files
        BY <2>2, <3>1 DEF PutsKnown
      <3>3. th[k].auth /\ th[k].last.type = "PUT" /\ th[k].last.name \in Unwritable
        BY <3>1, <3>2 DEF Puts
      <3>4. th'[k].auth = th[k].auth /\ th'[k].last = th[k].last
        BY <2>2, <3>1 DEF ServerEnds, ThreadType
      <3> QED BY <3>3, <3>4 DEF ServerSurvives, FailedPut
    <2>4. CASE ~OpenForPutFails(k)
      <3>1. server' = server
        BY <1>2, <2>2, <2>4 DEF ThreadStep, Answer, HandleOpen, HandleAuth, HandleRefused,
           HandleList, HandleGet, SendBlock, HandlePut, OpenForPut, RecvBlock, StoreBlock,
           RecvNothing, HandleQuit, HandleUnknown
      <3> QED BY <1>2, <3>1 DEF ServerSurvives
    <2> QED BY <2>3, <2>4
  <1>3. ASSUME server, NEW c \in Clients, UserStep(c) \/ ClientStep(c) PROVE ServerSurvives'
    <2>1. server' = server
      BY <1>3 DEF UserStep, ClientStep, Open, OpenRefused, Usage, AuthCommand, Ls, Get, Put,
         Quit, SendForEver, BadCommand, Kill, OpenReply, AuthReply, LsReply, GetReply,
         GetReplyMerged, Download, DownloadNothing, PutReply, Upload, WrongHeader, QuitReply
    <2> QED BY <1>3, <2>1 DEF ServerSurvives
  <1>4. CASE server /\ UNCHANGED vars
    BY <1>4 DEF ServerSurvives, vars
  <1> QED BY <1>1, <1>2, <1>3, <1>4 DEF Next

\* Neither exit() nor SIGPIPE ends the server while all its clients are careful,
\* however many they are, but for a file put by one of them that the server
\* cannot open.
THEOREM ServerLives == ASSUME Careful PROVE Spec => []ServerSurvives
  <1>1. IInv /\ PutsKnown /\ LockStep /\ ServerSurvives /\ [Next]_vars => ServerSurvives'
    BY StepServes
  <1>2. Init => ServerSurvives
    BY DEF Init, ServerSurvives
  <1> QED BY <1>1, <1>2, LockStepInvariance, Invariance, PutsInvariance, PTL DEF Spec

-----------------------------------------------------------------------------
(* What a client is told of its login *)

\* What is read, and what is said, of the answers to AUTH.
LEMMA AnswersSaid ==
  ASSUME NEW t, NEW u, NEW r \in Seq(Message), Says(t, r)
  PROVE  /\ r # <<>> => /\ Head(r).type = "AUTH_REPLY" => (Head(r).ok <=> t.auth)
                        /\ Says(t, Tail(r))
         /\ \A m \in Message :
               m.type # "AUTH_REPLY" /\ u.auth = t.auth => Says(u, Append(r, m))
         /\ \A m \in Message :
               m.type = "AUTH_REPLY" /\ u.auth = m.ok /\ ~Has(r, "AUTH_REPLY")
               => Says(u, Append(r, m))
  <1>1. ASSUME r # <<>>
        PROVE  /\ Head(r).type = "AUTH_REPLY" => (Head(r).ok <=> t.auth)
               /\ Says(t, Tail(r))
    <2>1. /\ Head(r) = r[1] /\ 1 \in 1..Len(r)
          /\ \A i \in 1..Len(Tail(r)) : i + 1 \in 1..Len(r) /\ Tail(r)[i] = r[i + 1]
      BY <1>1, Received
    <2> QED BY <2>1 DEF Says
  <1>2. ASSUME NEW m \in Message
        PROVE  /\ Len(Append(r, m)) = Len(r) + 1 /\ Append(r, m)[Len(r) + 1] = m /\ Len(r) \in Nat
               /\ \A i \in 1..Len(r) : Append(r, m)[i] = r[i]
    BY <1>2
  <1>3. ASSUME NEW m \in Message, m.type # "AUTH_REPLY", u.auth = t.auth
        PROVE  Says(u, Append(r, m))
    BY <1>2, <1>3 DEF Says
  <1>4. ASSUME NEW m \in Message, m.type = "AUTH_REPLY", u.auth = m.ok, ~Has(r, "AUTH_REPLY")
        PROVE  Says(u, Append(r, m))
    BY <1>2, <1>4 DEF Says, Has
  <1> QED BY <1>1, <1>3, <1>4

\* A thread goes on as u, or the server ends.
LEMMA ThreadTold ==
  ASSUME IInv, LoginTold, NEW k \in Conn, NEW u,
         ~server' \/ (server' = server /\ th' = [th EXCEPT ![k] = u]),
         cl' = cl, used' = used, closed' = closed, login' = login,
         \A j \in Conn : j # k => toCli'[j] = toCli[j],
         \A c \in Clients : server /\ k \notin closed /\ Sock(c) = k =>
             Says(u, toCli'[k]) /\ (Told(c) => Agrees(u, cl[c]))
  PROVE  LoginTold'
  <1>1. CASE ~server'
    BY <1>1 DEF LoginTold
  <1>2. CASE server /\ server' = server /\ th' = [th EXCEPT ![k] = u]
    <2>1. th'[k] = u /\ \A j \in Conn : j # k => th'[j] = th[j]
      BY <1>2, TypeParts DEF IInv, ThreadsTyped
    <2>2. \A c \in Clients : /\ Sock(c)' = Sock(c) /\ (Live(c)' <=> Live(c))
                             /\ (Told(c)' <=> Told(c))
      BY DEF Sock, Live, Told
    <2>3. ASSUME NEW c \in Clients, Live(c)
          PROVE  /\ Says(th'[Sock(c)], toCli'[Sock(c)])
                 /\ Told(c) => Agrees(th'[Sock(c)], cl[c])
      <3>1. CASE Sock(c) = k
        BY <1>2, <2>1, <2>3, <3>1 DEF Live
      <3>2. CASE Sock(c) # k
        <4>1. Says(th[Sock(c)], toCli[Sock(c)]) /\ (Told(c) => Agrees(th[Sock(c)], cl[c]))
          BY <1>2, <2>3 DEF LoginTold
        <4>2. th'[Sock(c)] = th[Sock(c)] /\ toCli'[Sock(c)] = toCli[Sock(c)]
          BY <2>1, <2>3, <3>2 DEF Live
        <4> QED BY <4>1, <4>2
      <3> QED BY <3>1, <3>2
    <2>4. \A c \in Clients :
             /\ used[c] = 0 => ~cl[c].authenticated
             /\ \A i \in 1..MaxOpens : i > used[c] => <<c, i>> \notin login
      BY <1>2 DEF LoginTold
    <2> QED BY <2>2, <2>3, <2>4 DEF LoginTold
  <1> QED BY <1>1, <1>2 DEF LoginTold

LEMMA AnswerTold ==
  ASSUME IInv, LoginTold, NEW k \in Conn,
         NEW u, NEW m \in Message, Answer(k, u, m), cl' = cl, used' = used, login' = login,
         \/ u.auth = th[k].auth /\ m.type # "AUTH_REPLY"
         \/ /\ m.type = "AUTH_REPLY" /\ u.auth = m.ok
            /\ \A c \in Clients : k \notin closed /\ Sock(c) = k =>
                   ~Has(toCli[k], "AUTH_REPLY") /\ cl[c].pc = "AUTH_REPLY"
  PROVE  LoginTold'
  <1>1. /\ ~server' \/ (server' = server /\ th' = [th EXCEPT ![k] = u])
        /\ closed' = closed
        /\ toCli' = toCli \/ toCli' = [toCli EXCEPT ![k] = Append(toCli[k], m)]
        /\ k \notin closed => toCli' = [toCli EXCEPT ![k] = Append(toCli[k], m)]
    BY DEF Answer, ServerEnds
  <1>2. toCli \in [Conn -> Seq(Message)]
    BY TypeParts DEF IInv, MailTyped
  <1>3. \A j \in Conn : j # k => toCli'[j] = toCli[j]
    BY <1>1, <1>2
  <1>4. ASSUME NEW c \in Clients, server, k \notin closed, Sock(c) = k
        PROVE  Says(u, toCli'[k]) /\ (Told(c) => Agrees(u, cl[c]))
    <2>1. Says(th[k], toCli[k]) /\ (Told(c) => Agrees(th[k], cl[c]))
      BY <1>4 DEF LoginTold, Live
    <2>2. toCli[k] \in Seq(Message) /\ toCli'[k] = Append(toCli[k], m)
      BY <1>1, <1>2, <1>4
    <2>3. Says(u, Append(toCli[k], m))
      BY <1>4, <2>1, <2>2, AnswersSaid
    <2>4. Told(c) => Agrees(u, cl[c])
      BY <1>4, <2>1 DEF Agrees, Going
    <2> QED BY <2>2, <2>3, <2>4
  <1> QED BY <1>1, <1>3, <1>4, ThreadTold

LEMMA ThreadsTell ==
  ASSUME IInv, LoginTold, NEW k \in Conn, ThreadStep(k)
  PROVE  LoginTold'
  <1>0. th[k] \in ThreadType /\ ThreadsTyped /\ MailTyped
    BY TypeParts DEF IInv, ThreadsTyped
  <1>1. ASSUME NEW u, NEW m \in Message, Answer(k, u, m), UNCHANGED <<cl, used, login>>,
               u.auth = th[k].auth, m.type # "AUTH_REPLY"
        PROVE  LoginTold'
    BY <1>1, AnswerTold
  <1>2. ASSUME NEW type, Receives(k, type)
        PROVE  /\ Thread(k) \in ThreadType /\ Thread(k).auth = th[k].auth
               /\ th[k].pc = "recv"
    BY <1>2, RequestFacts
  <1>3. ASSUME NEW u, th' = [th EXCEPT ![k] = u],
               UNCHANGED <<server, cl, toCli, closed, used, login>>, u.auth = th[k].auth
        PROVE  LoginTold'
    <2>1. ASSUME NEW c \in Clients, server, k \notin closed, Sock(c) = k
          PROVE  Says(u, toCli'[k]) /\ (Told(c) => Agrees(u, cl[c]))
      <3>1. Says(th[k], toCli[k]) /\ (Told(c) => Agrees(th[k], cl[c]))
        BY <2>1 DEF LoginTold, Live
      <3> QED BY <1>3, <3>1 DEF Says, Agrees
    <2> QED BY <1>3, <2>1, ThreadTold
  <1>4. CASE HandleOpen(k)
    BY <1>1, <1>2, <1>4, MessagesTyped DEF HandleOpen, bounds, ReplyTypes
  <1>5. CASE HandleRefused(k)
    BY <1>1, <1>2, <1>5, MessagesTyped DEF HandleRefused, bounds, ReplyTypes
  <1>6. CASE HandleList(k)
    BY <1>1, <1>2, <1>6, MessagesTyped DEF HandleList, bounds, ReplyTypes
  <1>7. CASE HandleAuth(k)
    <2> DEFINE u == [Thread(k) EXCEPT !.auth = Request(k).ok]
               m == Status("AUTH_REPLY", Request(k).ok)
    <2>1. Receives(k, "AUTH") /\ Answer(k, u, m) /\ UNCHANGED <<cl, used, login>>
      BY <1>7 DEF HandleAuth, bounds
    <2>2. Request(k) \in Message /\ Request(k).ok \in BOOLEAN
      BY <2>1, RequestFacts DEF Message
    <2>3. m \in Message /\ m.type = "AUTH_REPLY" /\ m.ok = Request(k).ok
      BY <2>2, MessagesTyped
    <2>4. u.auth = Request(k).ok
      BY <1>2, <2>1, <2>2 DEF ThreadType
    <2>5. ASSUME NEW c \in Clients, k \notin closed, Sock(c) = k
          PROVE  ~Has(toCli[k], "AUTH_REPLY") /\ cl[c].pc = "AUTH_REPLY"
      <3>1. th[k].pc = "recv" /\ Has(toSrv[k], "AUTH")
        BY <1>0, <2>1, <2>5, RequestFacts, TailHas DEF MailTyped
      <3>2. AuthAsked(c, k)
        BY <2>5, <3>1 DEF IInv, SafeInv, AuthInStep, InStep
      <3> QED BY <3>1, <3>2 DEF AuthAsked
    <2> HIDE DEF u, m
    <2> QED BY <2>1, <2>3, <2>4, <2>5, AnswerTold
  <1>8. CASE HandleGet(k)
    <2> DEFINE f == Request(k).name
               found == f \in present \cup {Directory}
               u == IF found THEN [Thread(k) EXCEPT !.pc = "getdata", !.name = f, !.pos = 0]
                             ELSE Thread(k)
               m == Status("GET_REPLY", found)
    <2>1. Receives(k, "GET") /\ Answer(k, u, m) /\ UNCHANGED <<cl, used, login>>
      BY <1>8 DEF HandleGet, bounds
    <2>2. m \in Message /\ m.type = "GET_REPLY"
      <3>1. found \in BOOLEAN
        OBVIOUS
      <3> HIDE DEF found
      <3> QED BY <3>1, MessagesTyped
    <2>3. u.auth = th[k].auth
      BY <1>2, <2>1 DEF ThreadType
    <2> HIDE DEF u, m
    <2> QED BY <1>1, <2>1, <2>2, <2>3
  <1>9. CASE HandlePut(k)
    <2> DEFINE u == [Thread(k) EXCEPT !.pc = "putopen", !.name = Request(k).name]
    <2>1. /\ Receives(k, "PUT") /\ Answer(k, u, Plain("PUT_REPLY"))
          /\ UNCHANGED <<cl, used, login>>
      BY <1>9 DEF HandlePut, bounds
    <2>2. u.auth = th[k].auth
      BY <1>2, <2>1 DEF ThreadType
    <2>3. Plain("PUT_REPLY") \in Message /\ Plain("PUT_REPLY").type = "PUT_REPLY"
      BY MessagesTyped DEF ReplyTypes
    <2> HIDE DEF u
    <2> QED BY <1>1, <2>1, <2>2, <2>3
  <1>10. CASE HandleQuit(k)
    <2> DEFINE u == [Thread(k) EXCEPT !.pc = "ended"]
    <2>1. /\ Receives(k, "QUIT") /\ Answer(k, u, Plain("QUIT_REPLY"))
          /\ UNCHANGED <<cl, used, login>>
      BY <1>10 DEF HandleQuit, bounds
    <2>2. u.auth = th[k].auth
      BY <1>2, <2>1 DEF ThreadType
    <2>3. Plain("QUIT_REPLY") \in Message /\ Plain("QUIT_REPLY").type = "QUIT_REPLY"
      BY MessagesTyped DEF ReplyTypes
    <2> HIDE DEF u
    <2> QED BY <1>1, <2>1, <2>2, <2>3
  <1>11. CASE HandleUnknown(k)
    <2> DEFINE u == [Thread(k) EXCEPT !.pc = "left"]
    <2>1. PICK type : Receives(k, type)
      BY <1>11 DEF HandleUnknown
    <2>2. /\ th' = [th EXCEPT ![k] = u]
          /\ UNCHANGED <<server, cl, toCli, closed, used, login>>
      BY <1>11 DEF HandleUnknown, bounds
    <2>3. u.auth = th[k].auth
      BY <1>2, <2>1 DEF ThreadType
    <2> HIDE DEF u
    <2> QED BY <1>3, <2>2, <2>3
  <1>12. CASE SendBlock(k)
    <2>1. UNCHANGED <<cl, used, login>>
      BY <1>12 DEF SendBlock, bounds
    <2>2. PICK m, u :
             m \in Message /\ Answer(k, u, m) /\ u.auth = th[k].auth /\ m.type # "AUTH_REPLY"
      <3> DEFINE contents == IF th[k].name \in Files THEN filedir[th[k].name] ELSE <<>>
                 i == th[k].pos + 1
      <3>1. contents \in Seq(Blocks) /\ i \in Nat /\ i >= 1
        BY <1>0, TypeParts DEF IInv, DirTyped, ThreadType
      <3>2. CASE i <= Len(contents)
        <4>1. contents[i] \in Blocks
          <5> HIDE DEF contents, i
          <5> QED BY <3>1, <3>2
        <4>2. Data(contents[i]) \in Message /\ Data(contents[i]).type # "AUTH_REPLY"
          BY <4>1, MessagesTyped
        <4> DEFINE u == [th[k] EXCEPT !.pos = i]
        <4>3. u.auth = th[k].auth
          BY <1>0 DEF ThreadType
        <4>4. Answer(k, u, Data(contents[i]))
          BY <1>12, <3>2 DEF SendBlock
        <4> HIDE DEF contents, i, u
        <4> QED BY <4>2, <4>3, <4>4
      <3>3. CASE ~(i <= Len(contents))
        <4> DEFINE u == [th[k] EXCEPT !.pc = "recv"]
        <4>1. u.auth = th[k].auth
          BY <1>0 DEF ThreadType
        <4>2. Answer(k, u, Plain("END"))
          BY <1>12, <3>3 DEF SendBlock
        <4>3. Plain("END") \in Message /\ Plain("END").type # "AUTH_REPLY"
          BY MessagesTyped
        <4> HIDE DEF contents, i, u
        <4> QED BY <4>1, <4>2, <4>3
      <3> QED BY <3>2, <3>3
    <2> QED BY <1>1, <2>1, <2>2
  <1>13. CASE OpenForPut(k)
    <2> DEFINE u == [th[k] EXCEPT !.pc = "putdata", !.pos = 0, !.data = NoMessage]
    <2>1. /\ th' = [th EXCEPT ![k].pc = "putdata", ![k].pos = 0, ![k].data = NoMessage]
          /\ UNCHANGED <<server, cl, toCli, closed, used, login>>
      BY <1>13 DEF OpenForPut, wire, bounds
    <2>2. th' = [th EXCEPT ![k] = u] /\ u.auth = th[k].auth
      BY <1>0, <2>1 DEF ThreadsTyped, ThreadType
    <2> HIDE DEF u
    <2> QED BY <1>3, <2>1, <2>2
  <1>14. CASE OpenForPutFails(k)
    BY <1>14 DEF OpenForPutFails, ServerEnds, LoginTold
  <1>15. ASSUME NEW m, StoreBlock(k, m), UNCHANGED <<cl, toCli, closed, used, login>>
         PROVE  LoginTold'
    <2> DEFINE u == [th[k] EXCEPT !.pos = th[k].pos + 1, !.data = m]
    <2>1. /\ th' = [th EXCEPT ![k].pos = th[k].pos + 1, ![k].data = m] /\ server' = server
      BY <1>15 DEF StoreBlock
    <2>2. th' = [th EXCEPT ![k] = u] /\ u.auth = th[k].auth
      BY <1>0, <2>1 DEF ThreadsTyped, ThreadType
    <2> HIDE DEF u
    <2> QED BY <1>3, <1>15, <2>1, <2>2
  <1>16. ASSUME th' = [th EXCEPT ![k].pc = "recv"],
                UNCHANGED <<server, cl, toCli, closed, used, login>>
         PROVE  LoginTold'
    <2> DEFINE u == [th[k] EXCEPT !.pc = "recv"]
    <2>1. th' = [th EXCEPT ![k] = u] /\ u.auth = th[k].auth
      BY <1>0, <1>16 DEF ThreadsTyped, ThreadType
    <2> HIDE DEF u
    <2> QED BY <1>3, <1>16, <2>1
  <1>17. CASE RecvBlock(k)
    <2>1. UNCHANGED <<cl, toCli, closed, used, login>>
      BY <1>17 DEF RecvBlock, bounds
    <2> QED BY <1>15, <1>16, <1>17, <2>1 DEF RecvBlock
  <1>18. CASE RecvNothing(k)
    <2>1. UNCHANGED <<cl, toCli, closed, used, login>>
      BY <1>18 DEF RecvNothing, bounds, wire
    <2>2. CASE ServerEnds
      BY <2>2 DEF ServerEnds, LoginTold
    <2> QED BY <1>15, <1>16, <1>18, <2>1, <2>2 DEF RecvNothing
  <1> QED BY <1>4, <1>5, <1>6, <1>7, <1>8, <1>9, <1>10, <1>11, <1>12, <1>13, <1>14, <1>17, <1>18
          DEF ThreadStep

\* What is true of every client while the server runs.
LEMMA ToldFacts ==
  ASSUME IInv, LoginTold, server, NEW c \in Clients
  PROVE  /\ cl[c] \in ClientType /\ Sock(c) = cl[c].sock
         /\ used[c] = 0 => ~cl[c].authenticated
         /\ Sock(c) \in Conn => toCli[Sock(c)] \in Seq(Message)
         /\ Live(c) => /\ Says(th[Sock(c)], toCli[Sock(c)])
                       /\ Told(c) => Agrees(th[Sock(c)], cl[c])
  BY TypeParts DEF LoginTold, IInv, ClientsTyped, ClientType, MailTyped, Sock

\* A client goes on as v with the connection it has.
LEMMA ClientTold ==
  ASSUME IInv, LoginTold, server, NEW c \in Clients, NEW v, cl' = [cl EXCEPT ![c] = v],
         v.sock = Sock(c), server' = server, th' = th, used' = used, closed \subseteq closed',
         \A j \in Conn : j # Sock(c) => toCli'[j] = toCli[j] /\ (j \in login' <=> j \in login),
         v.authenticated => used[c] # 0,
         Sock(c) \in Conn \ closed' =>
             /\ Says(th[Sock(c)], toCli'[Sock(c)])
             /\ used[c] = 1 \/ Sock(c) \in login' => Agrees(th[Sock(c)], v)
  PROVE  LoginTold'
  <1>0. ClientsTyped /\ SafeInv
    BY TypeParts DEF IInv
  <1>1. cl'[c] = v /\ \A d \in Clients : d # c => cl'[d] = cl[d]
    BY <1>0 DEF ClientsTyped
  <1>2. \A d \in Clients : Sock(d)' = Sock(d)
    BY <1>1 DEF Sock
  <1>3. ASSUME NEW d \in Clients, NEW i \in 1..MaxOpens, i > used[d]
        PROVE  <<d, i>> \notin login'
    <2>1. <<d, i>> \in Conn /\ <<d, i>>[1] = d /\ <<d, i>>[2] = i
      BY ConnFacts
    <2>2. Sock(c) \in Conn => Sock(c)[1] = c /\ Sock(c)[2] \in 1..used[c]
      BY <1>0, OwnFacts, ConnFacts DEF SafeInv, Sockets, ClientsTyped
    <2>3. used[d] \in Nat
      BY <1>0, FtpAssumption DEF ClientsTyped
    <2>4. <<d, i>> # Sock(c)
      BY <1>3, <2>1, <2>2, <2>3
    <2> QED BY <1>3, <2>1, <2>4 DEF LoginTold
  <1>4. ASSUME NEW d \in Clients, Sock(d) \in Conn \ closed'
        PROVE  /\ Says(th[Sock(d)], toCli'[Sock(d)])
               /\ used[d] = 1 \/ Sock(d) \in login' => Agrees(th[Sock(d)], cl'[d])
    <2>1. CASE d = c
      BY <1>1, <1>4, <2>1
    <2>2. CASE d # c
      <3>1. Sock(d) # Sock(c)
        BY <1>0, <1>4, <2>2, OtherSocks
      <3>2. Live(d)
        BY <1>4 DEF Live
      <3>3. /\ Says(th[Sock(d)], toCli[Sock(d)])
            /\ used[d] = 1 \/ Sock(d) \in login => Agrees(th[Sock(d)], cl[d])
        BY <3>2 DEF LoginTold, Told
      <3> QED BY <1>1, <1>4, <2>2, <3>1, <3>3
    <2> QED BY <2>1, <2>2
  <1>5. \A d \in Clients : used[d] = 0 => ~cl'[d].authenticated
    BY <1>1 DEF LoginTold
  <1>6. \A d \in Clients : /\ Live(d)' <=> Sock(d) \in Conn \ closed'
                           /\ Told(d)' <=> used[d] = 1 \/ Sock(d) \in login'
    BY <1>2 DEF Live, Told
  <1> QED BY <1>2, <1>3, <1>4, <1>5, <1>6 DEF LoginTold

\* It reads a message, or none, and makes nothing new of it.
LEMMA GoesTold ==
  ASSUME IInv, LoginTold, server, NEW c \in Clients, NEW v, cl' = [cl EXCEPT ![c] = v],
         v.sock = Sock(c), Reads(c), closed \subseteq closed',
         UNCHANGED <<server, th, used, login>>,
         v.authenticated => cl[c].authenticated, cl[c].pc \in Going \/ v.pc \notin Going
  PROVE  LoginTold'
  <1>1. /\ Sock(c) \in Conn => toCli[Sock(c)] \in Seq(Message)
        /\ used[c] = 0 => ~cl[c].authenticated
        /\ Live(c) => /\ Says(th[Sock(c)], toCli[Sock(c)])
                      /\ Told(c) => Agrees(th[Sock(c)], cl[c])
    BY ToldFacts
  <1>2. toCli \in [Conn -> Seq(Message)]
    BY TypeParts DEF IInv, MailTyped
  <1>3. /\ toCli' = toCli \/ (Sock(c) \in Conn /\ toCli[Sock(c)] # <<>> /\
                              toCli' = [toCli EXCEPT ![Sock(c)] = Tail(toCli[Sock(c)])])
    BY DEF Reads
  <1>4. \A j \in Conn : j # Sock(c) => toCli'[j] = toCli[j]
    BY <1>2, <1>3
  <1>5. ASSUME Sock(c) \in Conn \ closed'
        PROVE  /\ Says(th[Sock(c)], toCli'[Sock(c)])
               /\ used[c] = 1 \/ Sock(c) \in login => Agrees(th[Sock(c)], v)
    <2>1. /\ Says(th[Sock(c)], toCli[Sock(c)])
          /\ Told(c) => Agrees(th[Sock(c)], cl[c])
      BY <1>1, <1>5 DEF Live
    <2>2. /\ toCli'[Sock(c)] = toCli[Sock(c)]
             \/ (toCli[Sock(c)] # <<>> /\ toCli'[Sock(c)] = Tail(toCli[Sock(c)]))
      BY <1>2, <1>3, <1>5
    <2>3. Says(th[Sock(c)], toCli'[Sock(c)])
      BY <1>1, <1>5, <2>1, <2>2, AnswersSaid
    <2>4. used[c] = 1 \/ Sock(c) \in login => Agrees(th[Sock(c)], v)
      BY <2>1 DEF Told, Agrees
    <2> QED BY <2>3, <2>4
  <1>6. v.authenticated => used[c] # 0
    BY <1>1
  <1>7. server' = server /\ th' = th /\ used' = used /\ login' = login
    OBVIOUS
  <1> QED BY <1>4, <1>5, <1>6, <1>7, ClientTold

\* It stops.
LEMMA EndTold ==
  ASSUME IInv, LoginTold, server, NEW c \in Clients, NEW pc, ClientEnds(c, pc),
         pc \notin Going, Reads(c), UNCHANGED <<server, th, used, login>>
  PROVE  LoginTold'
  <1> DEFINE v == [cl[c] EXCEPT !.pc = pc]
  <1>1. cl \in [Clients -> ClientType]
    BY TypeParts DEF IInv, ClientsTyped, ClientType
  <1>2. /\ v.pc = pc /\ v.sock = Sock(c) /\ v.authenticated = cl[c].authenticated
        /\ cl' = [cl EXCEPT ![c] = v] /\ closed \subseteq closed'
    BY <1>1 DEF ClientType, Sock, ClientEnds
  <1> HIDE DEF v
  <1> QED BY <1>2, GoesTold

\* It sends a message. Only with AUTH does it expect to be logged in.
LEMMA AskTold ==
  ASSUME IInv, LoginTold, server, NEW c \in Clients, NEW v, NEW m, Ask(c, v, m),
         Sock(c) \in Conn, v.sock = Sock(c), cl[c].pc \in {"prompt", "upload"},
         UNCHANGED <<server, th, toCli, used>>, login' \in {login, login \cup {Sock(c)}},
         v.authenticated => cl[c].authenticated, v.pc = "AUTH_REPLY" \/ login' = login
  PROVE  LoginTold'
  <1>1. /\ cl[c] \in ClientType /\ Sock(c) = cl[c].sock
        /\ used[c] = 0 => ~cl[c].authenticated
        /\ Live(c) => /\ Says(th[Sock(c)], toCli[Sock(c)])
                      /\ Told(c) => Agrees(th[Sock(c)], cl[c])
    BY ToldFacts
  <1>2. server' = server /\ th' = th /\ toCli' = toCli /\ used' = used
    OBVIOUS
  <1>3. \A j \in Conn : j # Sock(c) => toCli'[j] = toCli[j] /\ (j \in login' <=> j \in login)
    OBVIOUS
  <1>4. CASE cl' = [cl EXCEPT ![c] = v] /\ closed' = closed
    <2>1. v.authenticated => used[c] # 0
      BY <1>1
    <2>2. ASSUME Sock(c) \in Conn \ closed'
          PROVE  /\ Says(th[Sock(c)], toCli'[Sock(c)])
                 /\ used[c] = 1 \/ Sock(c) \in login' => Agrees(th[Sock(c)], v)
      <3>1. /\ Says(th[Sock(c)], toCli[Sock(c)])
            /\ used[c] = 1 \/ Sock(c) \in login => Agrees(th[Sock(c)], cl[c])
        BY <1>1, <1>4, <2>2 DEF Live, Told
      <3> QED BY <1>2, <3>1 DEF Agrees, Going
    <2> QED BY <1>2, <1>3, <1>4, <2>1, <2>2, ClientTold
  <1>5. CASE ClientEnds(c, "killed")
    <2> DEFINE w == [cl[c] EXCEPT !.pc = "killed"]
    <2>1. w.sock = Sock(c) /\ w.authenticated = cl[c].authenticated
      BY <1>1 DEF ClientType
    <2>2. cl' = [cl EXCEPT ![c] = w] /\ closed' = closed \cup OwnConns(c)
      BY <1>5, TypeParts DEF ClientEnds, IInv, ClientsTyped, ClientType
    <2> HIDE DEF w
    <2>3. Sock(c) \in closed'
      BY <2>2, ConnFacts DEF IInv, SafeInv, Sockets
    <2>4. w.authenticated => used[c] # 0
      BY <1>1, <2>1
    <2>5. closed \subseteq closed' /\ ~(Sock(c) \in Conn \ closed')
      BY <2>2, <2>3
    <2> QED BY <1>2, <1>3, <2>1, <2>2, <2>4, <2>5, ClientTold
  <1> QED BY <1>4, <1>5 DEF Ask

LEMMA CommandsTell ==
  ASSUME IInv, LoginTold, server, NEW c \in Clients,
         AuthCommand(c) \/ Ls(c) \/ Get(c) \/ Put(c) \/ Quit(c) \/ Upload(c)
  PROVE  LoginTold'
  <1>0. cl[c] \in ClientType /\ Sock(c) = cl[c].sock
    BY ToldFacts
  <1>1. CASE AuthCommand(c)
    <2>1. PICK good \in BOOLEAN :
            /\ Command(c, IF good THEN "auth" ELSE "badauth")
            /\ Ask(c, [cl[c] EXCEPT !.pc = "AUTH_REPLY", !.authenticated = FALSE], Auth(good))
            /\ login' = IF good THEN login \cup {Sock(c)} ELSE login
            /\ UNCHANGED <<server, th, toCli, used>>
      BY <1>1 DEF AuthCommand
    <2> DEFINE v == [cl[c] EXCEPT !.pc = "AUTH_REPLY", !.authenticated = FALSE]
               word == IF good THEN "auth" ELSE "badauth"
    <2>2. word \in {"auth", "badauth"} /\ Command(c, word)
      BY <2>1
    <2>3. /\ v.sock = Sock(c) /\ v.pc = "AUTH_REPLY" /\ v.authenticated = FALSE
          /\ Ask(c, v, Auth(good))
      BY <1>0, <2>1 DEF ClientType
    <2>4. login' \in {login, login \cup {Sock(c)}}
      BY <2>1
    <2> HIDE DEF v, word
    <2>5. Sock(c) \in Conn /\ cl[c].pc = "prompt"
      BY <2>2, CommandFacts
    <2> QED BY <2>1, <2>3, <2>4, <2>5, AskTold
  <1>2. CASE Ls(c)
    <2> DEFINE v == [cl[c] EXCEPT !.pc = "LIST_REPLY"]
    <2>1. /\ Command(c, "ls") /\ Ask(c, v, Plain("LIST"))
          /\ UNCHANGED <<server, th, toCli, used, login>>
      BY <1>2 DEF Ls
    <2>2. v.sock = Sock(c) /\ v.authenticated = cl[c].authenticated
      BY <1>0 DEF ClientType
    <2> HIDE DEF v
    <2>3. Sock(c) \in Conn /\ cl[c].pc = "prompt"
      BY <2>1, CommandFacts
    <2> QED BY <2>1, <2>2, <2>3, AskTold
  <1>3. CASE Get(c)
    <2>1. PICK f \in Files :
             Ask(c, [cl[c] EXCEPT !.pc = "GET_REPLY", !.name = f], Named("GET", f))
      BY <1>3 DEF Get
    <2> DEFINE v == [cl[c] EXCEPT !.pc = "GET_REPLY", !.name = f]
    <2>2. /\ Command(c, "get") /\ Ask(c, v, Named("GET", f))
          /\ UNCHANGED <<server, th, toCli, used, login>>
      BY <1>3, <2>1 DEF Get
    <2>3. v.sock = Sock(c) /\ v.authenticated = cl[c].authenticated
      BY <1>0 DEF ClientType
    <2> HIDE DEF v
    <2>4. Sock(c) \in Conn /\ cl[c].pc = "prompt"
      BY <2>2, CommandFacts
    <2> QED BY <2>2, <2>3, <2>4, AskTold
  <1>4. CASE Put(c)
    <2>1. PICK f \in Files :
             Ask(c, [cl[c] EXCEPT !.pc = "PUT_REPLY", !.name = f, !.pos = 0], Named("PUT", f))
      BY <1>4 DEF Put
    <2> DEFINE v == [cl[c] EXCEPT !.pc = "PUT_REPLY", !.name = f, !.pos = 0]
    <2>2. /\ Command(c, "put") /\ Ask(c, v, Named("PUT", f))
          /\ UNCHANGED <<server, th, toCli, used, login>>
      BY <1>4, <2>1 DEF Put
    <2>3. v.sock = Sock(c) /\ v.authenticated = cl[c].authenticated
      BY <1>0 DEF ClientType
    <2> HIDE DEF v
    <2>4. Sock(c) \in Conn /\ cl[c].pc = "prompt"
      BY <2>2, CommandFacts
    <2> QED BY <2>2, <2>3, <2>4, AskTold
  <1>5. CASE Quit(c)
    <2> DEFINE v == [cl[c] EXCEPT !.pc = "QUIT_REPLY"]
    <2>1. /\ Command(c, "quit") /\ UNCHANGED <<server, th, toCli, used, login>>
          /\ \/ cl[c].connected /\ Ask(c, v, Plain("QUIT"))
             \/ ClientEnds(c, "exited")
      BY <1>5 DEF Quit
    <2>2. v.sock = Sock(c) /\ v.authenticated = cl[c].authenticated
      BY <1>0 DEF ClientType
    <2> HIDE DEF v
    <2>3. (cl[c].connected => Sock(c) \in Conn) /\ cl[c].pc = "prompt"
      BY <2>1, CommandFacts
    <2>4. CASE cl[c].connected /\ Ask(c, v, Plain("QUIT"))
      BY <2>1, <2>2, <2>3, <2>4, AskTold
    <2>5. CASE ClientEnds(c, "exited")
      <3>1. Reads(c) /\ "exited" \notin Going
        BY <2>1 DEF Reads, Going, ReplyTypes
      <3> QED BY <2>1, <2>5, <3>1, EndTold
    <2> QED BY <2>1, <2>4, <2>5
  <1>6. CASE Upload(c)
    <2>1. cl[c].pc = "upload" /\ UNCHANGED <<server, th, toCli, used, login>>
      BY <1>6 DEF Upload, bounds
    <2>2. Sock(c) \in Conn
      BY <2>1, <1>0, ConnFacts DEF IInv, SafeInv, Sockets, ClientType
    <2>3. PICK m, v : /\ Ask(c, v, m) /\ v.sock = Sock(c)
                      /\ v.authenticated = cl[c].authenticated
      <3> DEFINE contents == cl[c].own[cl[c].name]
                 i == cl[c].pos + 1
                 v1 == [cl[c] EXCEPT !.pos = i]
                 v2 == [cl[c] EXCEPT !.pc = "prompt"]
      <3>1. Ask(c, v1, Data(contents[i])) \/ Ask(c, v2, Plain("END"))
        BY <1>6 DEF Upload
      <3>2. /\ v1.sock = Sock(c) /\ v1.authenticated = cl[c].authenticated
            /\ v2.sock = Sock(c) /\ v2.authenticated = cl[c].authenticated
        BY <1>0 DEF ClientType
      <3> HIDE DEF contents, i, v1, v2
      <3> QED BY <3>1, <3>2
    <2> QED BY <2>1, <2>2, <2>3, AskTold
  <1> QED BY <1>1, <1>2, <1>3, <1>4, <1>5, <1>6

LEMMA RepliesTell ==
  ASSUME IInv, LoginTold, server, NEW c \in Clients,
         \/ OpenReply(c) \/ LsReply(c) \/ GetReply(c) \/ GetReplyMerged(c) \/ PutReply(c)
         \/ WrongHeader(c) \/ QuitReply(c)
  PROVE  LoginTold'
  <1>w. /\ {"OPEN_REPLY", "LIST_REPLY", "GET_REPLY", "PUT_REPLY"} \subseteq Going \cap ReplyTypes
        /\ {"AUTH_REPLY", "QUIT_REPLY"} \subseteq ReplyTypes
        /\ "starved" \notin Going /\ "aborted" \notin Going /\ "exited" \notin Going
    BY DEF ReplyTypes, Going
  <1>1. ASSUME NEW type \in {"OPEN_REPLY", "LIST_REPLY", "GET_REPLY", "PUT_REPLY"}, Gets(c, type)
        PROVE  /\ cl[c].pc \in Going /\ Reads(c)
               /\ cl[c] \in ClientType /\ cl[c].sock = Sock(c)
               /\ Client(c) \in ClientType /\ Client(c).sock = Sock(c)
               /\ Client(c).authenticated = cl[c].authenticated
    <2>1. type \in ReplyTypes /\ type \in Going
      BY <1>w, <1>1
    <2>2. /\ cl[c].pc = type /\ Reads(c) /\ Client(c) \in ClientType /\ cl[c] \in ClientType
          /\ Client(c) = [cl[c] EXCEPT !.reply = Reply(c)] /\ Sock(c) = cl[c].sock
      BY <1>1, <2>1, ReplyFacts
    <2>3. Client(c).sock = Sock(c) /\ Client(c).authenticated = cl[c].authenticated
      BY <2>2 DEF ClientType
    <2> QED BY <2>1, <2>2, <2>3
  <1>2. ASSUME NEW v, cl' = [cl EXCEPT ![c] = v], v.sock = Sock(c),
               v.authenticated = cl[c].authenticated, cl[c].pc \in Going, Reads(c),
               closed \subseteq closed', UNCHANGED <<server, th, used, login>>
        PROVE  LoginTold'
    BY <1>2, GoesTold
  <1>3. CASE OpenReply(c)
    <2> DEFINE v == [Client(c) EXCEPT !.pc = "prompt", !.connected = TRUE]
    <2>1. /\ Gets(c, "OPEN_REPLY") /\ cl' = [cl EXCEPT ![c] = v]
          /\ closed' = closed /\ UNCHANGED <<server, th, used, login>>
      BY <1>3 DEF OpenReply, bounds
    <2>2. v.sock = Sock(c) /\ v.authenticated = cl[c].authenticated
      BY <1>1, <2>1 DEF ClientType
    <2>3. cl[c].pc \in Going /\ Reads(c)
      BY <1>1, <2>1
    <2> HIDE DEF v
    <2> QED BY <1>2, <2>1, <2>2, <2>3
  <1>4. CASE LsReply(c)
    <2> DEFINE v == [Client(c) EXCEPT !.pc = "prompt"]
    <2>1. /\ Gets(c, "LIST_REPLY") /\ cl' = [cl EXCEPT ![c] = v]
          /\ closed' = closed /\ UNCHANGED <<server, th, used, login>>
      BY <1>4 DEF LsReply, bounds
    <2>2. v.sock = Sock(c) /\ v.authenticated = cl[c].authenticated
      BY <1>1, <2>1 DEF ClientType
    <2>3. cl[c].pc \in Going /\ Reads(c)
      BY <1>1, <2>1
    <2> HIDE DEF v
    <2> QED BY <1>2, <2>1, <2>2, <2>3
  <1>5. CASE GetReply(c)
    <2> DEFINE v1 == [Client(c) EXCEPT !.pc = "download", !.own[cl[c].name] = <<>>]
               v2 == [Client(c) EXCEPT !.pc = "prompt"]
    <2>1. /\ Gets(c, "GET_REPLY") /\ (cl' = [cl EXCEPT ![c] = v1] \/ cl' = [cl EXCEPT ![c] = v2])
          /\ closed' = closed /\ UNCHANGED <<server, th, used, login>>
      BY <1>5 DEF GetReply, bounds
    <2>2. /\ v1.sock = Sock(c) /\ v1.authenticated = cl[c].authenticated
          /\ v2.sock = Sock(c) /\ v2.authenticated = cl[c].authenticated
      BY <1>1, <2>1 DEF ClientType
    <2>3. cl[c].pc \in Going /\ Reads(c)
      BY <1>1, <2>1
    <2> HIDE DEF v1, v2
    <2> QED BY <1>2, <2>1, <2>2, <2>3
  <1>6. CASE GetReplyMerged(c)
    <2> DEFINE v1 == [cl[c] EXCEPT !.pc = "starved", !.own[cl[c].name] = <<>>]
               v2 == [cl[c] EXCEPT !.pc = "aborted", !.own[cl[c].name] = <<>>]
               v3 == [Client(c) EXCEPT !.pc = "prompt"]
    <2>1. Gets(c, "GET_REPLY") /\ UNCHANGED <<server, th, used, login>>
      BY <1>6 DEF GetReplyMerged, bounds
    <2>2. /\ \/ cl' = [cl EXCEPT ![c] = v1] \/ cl' = [cl EXCEPT ![c] = v2]
             \/ cl' = [cl EXCEPT ![c] = v3]
          /\ closed' \in {closed, closed \cup OwnConns(c)}
      BY <1>6 DEF GetReplyMerged
    <2>3. /\ v1.sock = Sock(c) /\ v1.authenticated = cl[c].authenticated
          /\ v2.sock = Sock(c) /\ v2.authenticated = cl[c].authenticated
          /\ v3.sock = Sock(c) /\ v3.authenticated = cl[c].authenticated
      BY <1>1, <2>1 DEF ClientType
    <2>4. cl[c].pc \in Going /\ Reads(c) /\ closed \subseteq closed'
      BY <1>1, <2>1, <2>2
    <2> HIDE DEF v1, v2, v3
    <2> QED BY <1>2, <2>1, <2>2, <2>3, <2>4
  <1>7. CASE PutReply(c)
    <2> DEFINE v == [Client(c) EXCEPT !.pc = "upload"]
    <2>1. /\ Gets(c, "PUT_REPLY") /\ cl' = [cl EXCEPT ![c] = v]
          /\ closed' = closed /\ UNCHANGED <<server, th, used, login>>
      BY <1>7 DEF PutReply, bounds
    <2>2. v.sock = Sock(c) /\ v.authenticated = cl[c].authenticated
      BY <1>1, <2>1 DEF ClientType
    <2>3. cl[c].pc \in Going /\ Reads(c)
      BY <1>1, <2>1
    <2> HIDE DEF v
    <2> QED BY <1>2, <2>1, <2>2, <2>3
  <1>8. CASE WrongHeader(c)
    <2>1. PICK type \in {"AUTH_REPLY", "LIST_REPLY", "GET_REPLY", "PUT_REPLY"} : Gets(c, type)
      BY <1>8 DEF WrongHeader
    <2>2. type \in ReplyTypes
      BY <1>w, <2>1
    <2>3. Reads(c) /\ ClientEnds(c, "aborted") /\ UNCHANGED <<server, th, used, login>>
      BY <1>8, <2>1, <2>2, ReplyFacts DEF WrongHeader, bounds
    <2> QED BY <1>w, <2>3, EndTold
  <1>9. CASE QuitReply(c)
    <2>1. /\ Gets(c, "QUIT_REPLY") /\ ClientEnds(c, "exited")
          /\ UNCHANGED <<server, th, used, login>>
      BY <1>9 DEF QuitReply, bounds
    <2>2. Reads(c)
      BY <1>w, <2>1, ReplyFacts
    <2> QED BY <1>w, <2>1, <2>2, EndTold
  <1> QED BY <1>3, <1>4, <1>5, <1>6, <1>7, <1>8, <1>9

LEMMA OthersTell ==
  ASSUME IInv, LoginTold, server, NEW c \in Clients,
         \/ OpenRefused(c) \/ Usage(c) \/ SendForEver(c) \/ BadCommand(c) \/ Kill(c)
         \/ Download(c) \/ DownloadNothing(c)
  PROVE  LoginTold'
  <1>0. /\ cl[c] \in ClientType /\ Sock(c) = cl[c].sock /\ cl \in [Clients -> ClientType]
        /\ cl[c].pc \in {"prompt", "download", "upload"} => cl[c].pc \in Going
        /\ {"exited", "aborted", "killed"} \cap Going = {}
    BY TypeParts DEF IInv, ClientsTyped, ClientType, Sock, Going, ReplyTypes
  <1>1. ASSUME NEW v, cl' = [cl EXCEPT ![c] = v], v.sock = Sock(c),
               v.authenticated => cl[c].authenticated, cl[c].pc \in {"prompt", "download"},
               toCli' = toCli, closed' = closed, UNCHANGED <<server, th, used, login>>
        PROVE  LoginTold'
    <2>1. Reads(c) /\ closed \subseteq closed' /\ cl[c].pc \in Going
      BY <1>0, <1>1 DEF Reads
    <2> QED BY <1>1, <2>1, GoesTold
  <1>2. ASSUME NEW pc \in {"exited", "aborted", "killed"}, ClientEnds(c, pc), toCli' = toCli,
               UNCHANGED <<server, th, used, login>>
        PROVE  LoginTold'
    BY <1>0, <1>2, EndTold DEF Reads
  <1>3. CASE OpenRefused(c) \/ Kill(c)
    BY <1>2, <1>3 DEF OpenRefused, Kill, bounds
  <1>4. CASE Usage(c)
    <2> DEFINE v1 == [cl[c] EXCEPT !.connected = FALSE]
               v2 == [cl[c] EXCEPT !.authenticated = FALSE]
    <2>1. /\ cl[c].pc = "prompt" /\ toCli' = toCli /\ closed' = closed
          /\ UNCHANGED <<server, th, used, login>>
          /\ (cl' = [cl EXCEPT ![c] = v1] \/ cl' = [cl EXCEPT ![c] = v2])
      BY <1>0, <1>4 DEF Usage, Command, wire
    <2>2. /\ v1.sock = Sock(c) /\ v1.authenticated = cl[c].authenticated
          /\ v2.sock = Sock(c) /\ v2.authenticated = FALSE
      BY <1>0 DEF ClientType
    <2> HIDE DEF v1, v2
    <2> QED BY <1>1, <2>1, <2>2
  <1>5. CASE SendForEver(c)
    <2> DEFINE v == [cl[c] EXCEPT !.pc = "hung"]
    <2>1. /\ cl[c].pc = "prompt" /\ toCli' = toCli /\ closed' = closed
          /\ UNCHANGED <<server, th, used, login>> /\ cl' = [cl EXCEPT ![c] = v]
      BY <1>0, <1>5 DEF SendForEver, Command, wire
    <2>2. v.sock = Sock(c) /\ v.authenticated = cl[c].authenticated
      BY <1>0 DEF ClientType
    <2> HIDE DEF v
    <2> QED BY <1>1, <2>1, <2>2
  <1>6. CASE BadCommand(c)
    BY <1>6 DEF BadCommand, wire, LoginTold, Sock, Live, Told
  <1>7. CASE Download(c)
    <2> DEFINE m == Head(toCli[Sock(c)])
               v1 == [cl[c] EXCEPT !.pc = "prompt"]
               v2 == [cl[c] EXCEPT !.own[cl[c].name] = Append(@, m.block)]
    <2>1. /\ cl[c].pc = "download" /\ closed' = closed /\ UNCHANGED <<server, th, used, login>>
          /\ (cl' = [cl EXCEPT ![c] = v1] \/ cl' = [cl EXCEPT ![c] = v2])
      BY <1>7 DEF Download, bounds
    <2>2. /\ v1.sock = Sock(c) /\ v1.authenticated = cl[c].authenticated
          /\ v2.sock = Sock(c) /\ v2.authenticated = cl[c].authenticated
      BY <1>0 DEF ClientType
    <2>3. Sock(c) \in Conn
      BY <1>0, <2>1, ConnFacts DEF IInv, SafeInv, Sockets, ClientType
    <2>4. Reads(c) /\ closed \subseteq closed' /\ cl[c].pc \in Going
      BY <1>0, <1>7, <2>1, <2>3 DEF Download, Reads
    <2> HIDE DEF m, v1, v2
    <2> QED BY <2>1, <2>2, <2>4, GoesTold
  <1>8. CASE DownloadNothing(c)
    <2> DEFINE f == cl[c].name
               contents == cl[c].own[f]
               v1 == [cl[c] EXCEPT !.own[f] = Append(contents, contents[Len(contents)])]
               v2 == [cl[c] EXCEPT !.pc = "prompt"]
    <2>1. /\ cl[c].pc = "download" /\ toCli' = toCli /\ UNCHANGED <<server, th, used, login>>
          /\ \/ closed' = closed /\ (cl' = [cl EXCEPT ![c] = v1] \/ cl' = [cl EXCEPT ![c] = v2])
             \/ ClientEnds(c, "aborted")
      BY <1>0, <1>8 DEF DownloadNothing, bounds
    <2>2. /\ v1.sock = Sock(c) /\ v1.authenticated = cl[c].authenticated
          /\ v2.sock = Sock(c) /\ v2.authenticated = cl[c].authenticated
      BY <1>0 DEF ClientType
    <2> HIDE DEF f, contents, v1, v2
    <2> QED BY <1>1, <1>2, <2>1, <2>2
  <1> QED BY <1>3, <1>4, <1>5, <1>6, <1>7, <1>8

\* The answer to AUTH: what the client makes of it is what the thread has said.
LEMMA AuthReplyTells ==
  ASSUME IInv, Leaving, LoginTold, server, NEW c \in Clients, AuthReply(c)
  PROVE  LoginTold'
  <1>1. /\ Gets(c, "AUTH_REPLY") /\ Reply(c).type = "AUTH_REPLY"
        /\ cl' = [cl EXCEPT ![c] = [Client(c) EXCEPT !.pc = "prompt", !.authenticated = Reply(c).ok]]
        /\ closed' = IF Reply(c).ok THEN closed ELSE closed \cup {Sock(c)}
        /\ login' = IF Reply(c).ok THEN login ELSE login \ {Sock(c)}
        /\ server' = server /\ th' = th /\ used' = used
    BY DEF AuthReply, bounds
  <1>2. /\ cl[c].pc = "AUTH_REPLY" /\ Reply(c) \in Message /\ Sock(c) \in Conn
        /\ Client(c) \in ClientType /\ Client(c).sock = Sock(c)
    BY <1>1, ReplyFacts DEF ReplyTypes
  <1>3. Sock(c) \notin closed /\ Sock(c) \in OwnConns(c)
    BY <1>2, ConnFacts DEF IInv, SafeInv, Sockets
  <1>4. used[c] # 0
    <2>1. used[c] = 0 => 1..used[c] = {}
      OBVIOUS
    <2> QED BY <1>3, <2>1 DEF OwnConns
  <1>5. th[Sock(c)].pc # "ended"
    <2>1. Leaves(th[Sock(c)], toSrv[Sock(c)], cl[c])
      BY <1>2 DEF Leaving
    <2> QED BY <1>2, <2>1 DEF Leaves
  <1>6. /\ toCli[Sock(c)] # <<>> /\ Reply(c) = Head(toCli[Sock(c)])
        /\ toCli' = [toCli EXCEPT ![Sock(c)] = Tail(toCli[Sock(c)])]
    BY <1>1, <1>5 DEF Gets, Reply
  <1>7. /\ toCli'[Sock(c)] = Tail(toCli[Sock(c)])
        /\ \A j \in Conn : j # Sock(c) => toCli'[j] = toCli[j]
    BY <1>2, <1>6, TypeParts DEF IInv, MailTyped
  <1>8. (Reply(c).ok <=> th[Sock(c)].auth) /\ Says(th[Sock(c)], toCli'[Sock(c)])
    <2>1. Says(th[Sock(c)], toCli[Sock(c)]) /\ toCli[Sock(c)] \in Seq(Message)
      BY <1>2, <1>3, ToldFacts DEF Live
    <2> QED BY <1>1, <1>6, <1>7, <2>1, AnswersSaid
  <1> DEFINE v == [Client(c) EXCEPT !.pc = "prompt", !.authenticated = Reply(c).ok]
  <1>9. v.sock = Sock(c) /\ v.authenticated = Reply(c).ok /\ cl' = [cl EXCEPT ![c] = v]
    <2>1. Reply(c).ok \in BOOLEAN
      BY <1>2 DEF Message
    <2> QED BY <1>1, <1>2, <2>1 DEF ClientType
  <1> HIDE DEF v
  <1>10. Agrees(th[Sock(c)], v)
    BY <1>8, <1>9 DEF Agrees
  <1>11. /\ \A j \in Conn : j # Sock(c) => toCli'[j] = toCli[j] /\ (j \in login' <=> j \in login)
         /\ closed \subseteq closed'
    BY <1>1, <1>7
  <1>12. server' = server /\ th' = th /\ used' = used
    BY <1>1
  <1> QED BY <1>4, <1>8, <1>9, <1>10, <1>11, <1>12, ClientTold

\* A new connection: its thread knows nothing, and the client only what it knew.
LEMMA OpenTells ==
  ASSUME IInv, LoginTold, server, NEW c \in Clients, Open(c)
  PROVE  LoginTold'
  <1>0. ClientsTyped /\ SafeInv /\ used[c] \in 0..MaxOpens /\ MaxOpens \in Nat
    BY TypeParts, FtpAssumption DEF IInv, ClientsTyped
  <1>1. PICK k : k = <<c, used[c] + 1>>
    OBVIOUS
  <1>2. /\ used[c] < MaxOpens /\ server' = server
        /\ cl' = [cl EXCEPT ![c].pc = "OPEN_REPLY", ![c].sock = k, ![c].connected = FALSE]
        /\ th' = [th EXCEPT ![k].pc = "recv"]
        /\ used' = [used EXCEPT ![c] = @ + 1]
        /\ toCli' = toCli /\ closed' = closed /\ login' = login
    BY <1>1 DEF Open
  <1>3. used[c] + 1 \in 1..MaxOpens /\ used[c] + 1 > used[c]
    BY <1>0, <1>2
  <1>4. k \in Conn /\ k[1] = c /\ k \notin login /\ toCli[k] = <<>>
    BY <1>0, <1>1, <1>3, ConnFacts DEF LoginTold, SafeInv, Sockets
  <1>5. /\ cl'[c].sock = k /\ cl'[c].authenticated = cl[c].authenticated
        /\ \A d \in Clients : d # c => cl'[d] = cl[d]
    BY <1>0, <1>2 DEF ClientsTyped
  <1>6. \A j \in Conn : j # k => th'[j] = th[j]
    BY <1>2, <1>4, TypeParts DEF IInv, ThreadsTyped
  <1>7. used'[c] = used[c] + 1 /\ \A d \in Clients : d # c => used'[d] = used[d]
    BY <1>0, <1>2 DEF ClientsTyped
  <1>8. \A d \in Clients : used'[d] \in Nat /\ used[d] \in Nat
    <2>1. \A d \in Clients : used[d] \in Nat
      BY <1>0 DEF ClientsTyped
    <2> QED BY <1>7, <2>1
  <1>9. ASSUME NEW d \in Clients
        PROVE  /\ used'[d] = 0 => ~cl'[d].authenticated
               /\ \A i \in 1..MaxOpens : i > used'[d] => <<d, i>> \notin login'
    <2>1. used'[d] # 0 \/ d # c
      BY <1>7, <1>8
    <2>2. \A i \in 1..MaxOpens : i > used'[d] => i > used[d]
      BY <1>0, <1>7, <1>8
    <2> QED BY <1>2, <1>5, <1>7, <2>1, <2>2 DEF LoginTold
  <1>10. ASSUME NEW d \in Clients, cl'[d].sock \in Conn \ closed
         PROVE  /\ Says(th'[cl'[d].sock], toCli'[cl'[d].sock])
                /\ used'[d] = 1 \/ cl'[d].sock \in login => Agrees(th'[cl'[d].sock], cl'[d])
    <2>1. CASE d = c
      <3>1. Says(th'[k], toCli[k])
        <4>1. 1..Len(toCli[k]) = {}
          BY <1>4
        <4> QED BY <4>1 DEF Says
      <3>2. used'[c] = 1 => ~cl[c].authenticated
        BY <1>0, <1>7, <1>8 DEF LoginTold
      <3> QED BY <1>2, <1>4, <1>5, <2>1, <3>1, <3>2 DEF Agrees
    <2>2. CASE d # c
      <3>1. cl'[d] = cl[d] /\ cl'[d].sock = Sock(d) /\ Sock(d) \in Conn /\ used'[d] = used[d]
        BY <1>5, <1>7, <1>10, <2>2 DEF Sock
      <3>2. Sock(d)[1] = d
        BY <1>0, <3>1, OwnFacts, ConnFacts DEF SafeInv, Sockets, ClientsTyped
      <3>3. Sock(d) # k
        BY <1>4, <2>2, <3>2
      <3>4. /\ Says(th[Sock(d)], toCli[Sock(d)])
            /\ used[d] = 1 \/ Sock(d) \in login => Agrees(th[Sock(d)], cl[d])
        BY <1>10, <3>1 DEF LoginTold, Live, Told
      <3> QED BY <1>2, <1>6, <3>1, <3>3, <3>4
    <2> QED BY <2>1, <2>2
  <1>11. \A d \in Clients :
            /\ Sock(d)' = cl'[d].sock /\ (Live(d)' <=> cl'[d].sock \in Conn \ closed)
            /\ Told(d)' <=> used'[d] = 1 \/ cl'[d].sock \in login
    BY <1>2 DEF Sock, Live, Told
  <1> QED BY <1>9, <1>10, <1>11 DEF LoginTold

LEMMA InitTold == Init => LoginTold
  <1> SUFFICES ASSUME Init PROVE LoginTold
    OBVIOUS
  <1>1. \A c \in Clients : ~cl[c].authenticated /\ Sock(c) = NoConn
    BY DEF Init, Sock
  <1>2. login = {}
    BY DEF Init
  <1> QED BY <1>1, <1>2, ConnFacts DEF LoginTold, Live

LEMMA StepTold == IInv /\ Leaving /\ LoginTold /\ [Next]_vars => LoginTold'
  <1> SUFFICES ASSUME IInv, Leaving, LoginTold, [Next]_vars PROVE LoginTold'
    OBVIOUS
  <1>0. CASE ~server
    BY <1>0, ServerGone DEF LoginTold
  <1> SUFFICES ASSUME server PROVE LoginTold'
    BY <1>0
  <1>1. CASE UNCHANGED vars
    BY <1>1 DEF LoginTold, Sock, Live, Told, vars, wire, bounds
  <1>2. ASSUME NEW k \in Conn, ThreadStep(k) PROVE LoginTold'
    BY <1>2, ThreadsTell
  <1>3. ASSUME NEW c \in Clients, UserStep(c) PROVE LoginTold'
    BY <1>3, OpenTells, CommandsTell, OthersTell DEF UserStep
  <1>4. ASSUME NEW c \in Clients, ClientStep(c) PROVE LoginTold'
    BY <1>4, CommandsTell, RepliesTell, AuthReplyTells, OthersTell DEF ClientStep
  <1> QED BY <1>1, <1>2, <1>3, <1>4 DEF Next

\* A client that asks for a listing or a file is not refused, however late it is,
\* whatever passwords and wrong commands it gives and whatever becomes of the
\* other clients, unless it opened another connection and sent no right password
\* there: open forgets the login only of the connection.
THEOREM LoginKnown == Spec => []ClientKnowsLogin
  <1>1. IInv /\ PlaceInv /\ LoginTold => ClientKnowsLogin
    <2> SUFFICES ASSUME IInv, PlaceInv, LoginTold, NEW c \in Clients, server,
                        cl[c].pc = "prompt", cl[c].connected, cl[c].authenticated,
                        used[c] = 1 \/ Sock(c) \in login
                 PROVE  th[Sock(c)].auth
      BY DEF ClientKnowsLogin
    <2>1. Sock(c) \in Conn
      BY TypeParts DEF IInv, SafeInv, Sockets, ClientsTyped, Sock
    <2>2. Sock(c) \notin closed
      BY DEF PlaceInv, ClosedSockets
    <2>3. Agrees(th[Sock(c)], cl[c])
      BY <2>1, <2>2 DEF LoginTold, Live, Told
    <2> QED BY <2>3 DEF Agrees, Going
  <1>2. IInv /\ Leaving /\ LoginTold /\ [Next]_vars => LoginTold'
    BY StepTold
  <1> QED BY <1>1, <1>2, InitTold, Invariance, LeavingInvariance, PlaceInvariance, PTL DEF Spec
=============================================================================
