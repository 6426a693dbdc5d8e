----------------------------- MODULE FtpProofs -----------------------------
(***************************************************************************)
(* Proofs about MYFTP, for any number of clients, connections, commands    *)
(* and files, any length of the files, and users who may kill their        *)
(* clients.                                                                *)
(*                                                                         *)
(* A file is only touched for a connection on which a right password was   *)
(* sent.  A refusal takes that back, so the proof must know that when a    *)
(* client reads a refusal, nothing it asked before is still answered:      *)
(* AUTH is the last request on its way, and its reply the last reply.      *)
(***************************************************************************)
EXTENDS Ftp, TLAPS

-----------------------------------------------------------------------------
(* The inductive invariant *)

\* A message of that type is on its way; if so, it is the last.
Has(q, type) == \E i \in 1..Len(q) : q[i].type = type
LastOnly(q, type) == \A i \in 1..Len(q) : q[i].type = type => i = Len(q)
HasGood(q) == \E i \in 1..Len(q) : q[i].type = "AUTH" /\ q[i].ok

\* The thread reads or writes a file.
Busy(k) == th[k].pc \in {"getdata", "putopen", "putdata"}

\* A client that uses a socket has one of its own; on what is not open yet
\* nobody works.
Sockets ==
    /\ \A c \in Clients :
          /\ Sock(c) # NoConn => Sock(c) \in OwnConns(c)
          /\ cl[c].connected \/ cl[c].pc \in ReplyTypes \cup {"download", "upload"} => Sock(c) # NoConn
          /\ cl[c].pc = "AUTH_REPLY" => Sock(c) \notin closed
          /\ cl[c].pc \in {"PUT_REPLY", "upload"} => cl[c].name \in Files
    /\ \A c \in Clients : \A i \in 1..MaxOpens :
          i > used[c] => /\ toCli[<<c, i>>] = <<>>
                         /\ server => th[<<c, i>>].pc = "none"

\* A thread that goes on has not read QUIT; all end with the server.
Threads ==
    /\ \A k \in Conn : th[k].pc # "ended" => th[k].last.type # "QUIT"
    /\ ~server => \A k \in Conn : th[k].pc = "ended"

AuthAsked(c, k) ==
    Has(toSrv[k], "AUTH") =>
        /\ cl[c].pc = "AUTH_REPLY" /\ LastOnly(toSrv[k], "AUTH")
        /\ ~Has(toCli[k], "AUTH_REPLY")

AuthAnswered(c, k) ==
    Has(toCli[k], "AUTH_REPLY") =>
        /\ cl[c].pc = "AUTH_REPLY" /\ LastOnly(toCli[k], "AUTH_REPLY")
        /\ \/ th[k].pc = "ended"
           \/ /\ toSrv[k] = <<>> /\ ~Busy(k)
              /\ (toCli[k][Len(toCli[k])].ok \/ ~th[k].auth)

\* The connection a client uses, while it is open.
InStep(c, k) == (th[k].pc = "ended" \/ AuthAsked(c, k)) /\ AuthAnswered(c, k)

AuthInStep == \A c \in Clients : Sock(c) \in Conn \ closed => InStep(c, Sock(c))

\* A connection that is not logged in, and will not be by what is on its way.
Outside(k) ==
    /\ ~Has(toCli[k], "LIST_REPLY") /\ ~Has(toCli[k], "DATA") /\ ~Has(toCli[k], "END")
    /\ \/ th[k].pc = "ended"
       \/ ~Busy(k) /\ ~th[k].auth /\ ~HasGood(toSrv[k])

LoginFirst == \A k \in Conn : k \in login \/ Outside(k)

SafeInv == Sockets /\ Threads /\ AuthInStep /\ LoginFirst
IInv == TypeOK /\ SafeInv

-----------------------------------------------------------------------------
(* Messages on their way *)

LEMMA TailHas ==
  ASSUME NEW S, NEW q \in Seq(S), q # <<>>, NEW type
  PROVE  /\ Tail(q) \in Seq(S) /\ Head(q) \in S
         /\ Has(Tail(q), type) => Has(q, type)
         /\ HasGood(Tail(q)) => HasGood(q)
         /\ LastOnly(q, type) => LastOnly(Tail(q), type)
         /\ LastOnly(q, type) /\ Head(q).type = type => Tail(q) = <<>>
         /\ Head(q).type = type => Has(q, type)
         /\ Head(q).type = "AUTH" /\ Head(q).ok => HasGood(q)
         /\ Head(q) = q[1] /\ 1 \in 1..Len(q)
         /\ Tail(q) # <<>> => Tail(q)[Len(Tail(q))] = q[Len(q)]
         /\ Tail(q) = <<>> => Head(q) = q[Len(q)]
  <1>1. /\ Len(q) \in Nat /\ 1 \in 1..Len(q) /\ Head(q) = q[1] /\ q[1] \in S
        /\ Tail(q) \in Seq(S) /\ Len(Tail(q)) = Len(q) - 1
        /\ \A i \in 1..Len(Tail(q)) : i + 1 \in 1..Len(q) /\ Tail(q)[i] = q[i + 1]
    OBVIOUS
  <1>e. \A p \in Seq(S) : p = <<>> <=> Len(p) = 0
    OBVIOUS
  <1>2. Tail(q) = <<>> <=> Len(q) = 1
    <2>1. Tail(q) = <<>> <=> Len(Tail(q)) = 0
      BY <1>1, <1>e
    <2> QED BY <2>1, <1>1
  <1>3. Tail(q) # <<>> => Len(Tail(q)) \in 1..Len(Tail(q))
    BY <1>1
  <1>4. Tail(q) # <<>> => Tail(q)[Len(Tail(q))] = q[Len(q)]
    BY <1>1, <1>3
  <1>5. Has(Tail(q), type) => Has(q, type)
    BY <1>1 DEF Has
  <1>6. HasGood(Tail(q)) => HasGood(q)
    BY <1>1 DEF HasGood
  <1>7. LastOnly(q, type) => LastOnly(Tail(q), type)
    <2> SUFFICES ASSUME LastOnly(q, type), NEW i \in 1..Len(Tail(q)), Tail(q)[i].type = type
                 PROVE  i = Len(Tail(q))
      BY DEF LastOnly
    <2>1. i + 1 \in 1..Len(q) /\ q[i + 1].type = type
      BY <1>1
    <2>2. i + 1 = Len(q)
      BY <2>1 DEF LastOnly
    <2> QED BY <2>2, <1>1
  <1>8. LastOnly(q, type) /\ Head(q).type = type => Tail(q) = <<>>
    BY <1>1, <1>2 DEF LastOnly
  <1>9. (Head(q).type = type => Has(q, type)) /\ (Head(q).type = "AUTH" /\ Head(q).ok => HasGood(q))
    BY <1>1 DEF Has, HasGood
  <1> QED BY <1>1, <1>2, <1>4, <1>5, <1>6, <1>7, <1>8, <1>9

LEMMA AppendHas ==
  ASSUME NEW S, NEW q \in Seq(S), NEW m \in S, NEW type
  PROVE  /\ Append(q, m) \in Seq(S) /\ Append(q, m) # <<>>
         /\ Has(Append(q, m), type) <=> Has(q, type) \/ m.type = type
         /\ HasGood(Append(q, m)) <=> HasGood(q) \/ (m.type = "AUTH" /\ m.ok)
         /\ ~Has(q, type) => LastOnly(Append(q, m), type)
         /\ Append(q, m)[Len(Append(q, m))] = m
  <1>1. /\ Append(q, m) \in Seq(S) /\ Len(Append(q, m)) = Len(q) + 1 /\ Len(q) \in Nat
        /\ Append(q, m)[Len(q) + 1] = m
        /\ \A i \in 1..Len(q) : Append(q, m)[i] = q[i]
    OBVIOUS
  <1>2. \A i \in 1..Len(Append(q, m)) : i \in 1..Len(q) \/ i = Len(q) + 1
    BY <1>1
  <1>3. \A i \in 1..Len(q) : i \in 1..Len(Append(q, m))
    BY <1>1
  <1>4. Len(q) + 1 \in 1..Len(Append(q, m)) /\ Append(q, m) # <<>>
    BY <1>1
  <1> QED BY <1>1, <1>2, <1>3, <1>4 DEF Has, HasGood, LastOnly

LEMMA EmptyHas == /\ \A type : ~Has(<<>>, type) /\ LastOnly(<<>>, type)
                  /\ ~HasGood(<<>>)
  BY DEF Has, HasGood, LastOnly

LEMMA ConnFacts ==
  /\ NoConn \notin Conn
  /\ \A c \in Clients : \A i \in 1..MaxOpens :
        <<c, i>> \in Conn /\ <<c, i>>[1] = c /\ <<c, i>>[2] = i
  /\ \A k \in Conn : k[1] \in Clients /\ k[2] \in 1..MaxOpens /\ k = <<k[1], k[2]>>
  BY DEF NoConn, Conn

LEMMA OwnFacts ==
  ASSUME used \in [Clients -> 0..MaxOpens], NEW c \in Clients
  PROVE  /\ OwnConns(c) \subseteq Conn
         /\ \A k \in OwnConns(c) : k[1] = c /\ k[2] \in 1..used[c]
         /\ NoConn \notin OwnConns(c)
  <1>1. used[c] \in 0..MaxOpens /\ MaxOpens \in Nat
    BY FtpAssumption
  <1>2. \A i \in 1..used[c] : i \in 1..MaxOpens
    BY <1>1
  <1> QED BY <1>2, ConnFacts DEF OwnConns

-----------------------------------------------------------------------------
(* The steps of a thread *)

\* What the steps of the processes leave of the invariant's parts.
MailTyped == toSrv \in [Conn -> Seq(Message)] /\ toCli \in [Conn -> Seq(Message)]

\* A thread takes a request, or does not.
Consumes(k) ==
    \/ toSrv' = toSrv
    \/ toSrv[k] # <<>> /\ toSrv' = [toSrv EXCEPT ![k] = Tail(@)]

LEMMA ConsumedHas ==
  ASSUME MailTyped, NEW k \in Conn, Consumes(k)
  PROVE  /\ toSrv' \in [Conn -> Seq(Message)]
         /\ \A j \in Conn : j # k => toSrv'[j] = toSrv[j]
         /\ Has(toSrv'[k], "AUTH") => Has(toSrv[k], "AUTH")
         /\ HasGood(toSrv'[k]) => HasGood(toSrv[k])
         /\ LastOnly(toSrv[k], "AUTH") => LastOnly(toSrv'[k], "AUTH")
  <1>1. CASE toSrv' = toSrv
    BY <1>1 DEF MailTyped
  <1>2. CASE toSrv[k] # <<>> /\ toSrv' = [toSrv EXCEPT ![k] = Tail(@)]
    <2>1. toSrv[k] \in Seq(Message) /\ toSrv'[k] = Tail(toSrv[k])
      BY <1>2 DEF MailTyped
    <2>2. Tail(toSrv[k]) \in Seq(Message)
      BY <2>1, <1>2, TailHas
    <2>3. toSrv' \in [Conn -> Seq(Message)] /\ \A j \in Conn : j # k => toSrv'[j] = toSrv[j]
      BY <2>2, <1>2 DEF MailTyped
    <2> QED BY <2>1, <2>3, <1>2, TailHas
  <1> QED BY <1>1, <1>2 DEF Consumes

\* All threads end together.
LEMMA AllEnd ==
  ASSUME MailTyped, SafeInv, NEW k \in Conn, Consumes(k), ServerEnds,
         th \in [Conn -> [pc : ThreadPc, auth : BOOLEAN, last : Message, name : Name,
                          pos : Nat, data : Message]],
         cl' = cl, toCli' = toCli, login' = login, used' = used, closed' = closed
  PROVE  SafeInv'
  <1>1. server' = FALSE /\ \A j \in Conn : th'[j].pc = "ended"
    BY DEF ServerEnds
  <1>2. Sockets'
    BY <1>1 DEF SafeInv, Sockets, Sock, OwnConns
  <1>3. Threads'
    BY <1>1 DEF Threads
  <1>4. AuthInStep'
    BY <1>1 DEF SafeInv, AuthInStep, InStep, AuthAnswered, Sock
  <1>5. ASSUME NEW j \in Conn, j \notin login PROVE Outside(j)'
    <2>1. Outside(j)
      BY <1>5 DEF SafeInv, LoginFirst
    <2> QED BY <2>1, <1>1 DEF Outside
  <1>6. LoginFirst'
    BY <1>5 DEF LoginFirst
  <1> QED BY <1>2, <1>3, <1>4, <1>6 DEF SafeInv

\* A thread takes a request, or goes on with a file, and says m or nothing.
LEMMA ThreadGoes ==
  ASSUME MailTyped, SafeInv, NEW k \in Conn, NEW t, NEW m \in Message,
         Busy(k) \/ (th[k].pc = "recv" /\ (toSrv[k] # <<>> \/ k \in closed)),
         th \in [Conn -> [pc : ThreadPc, auth : BOOLEAN, last : Message, name : Name,
                          pos : Nat, data : Message]],
         th' = [th EXCEPT ![k] = t], Consumes(k),
         toCli' = toCli \/ toCli' = [toCli EXCEPT ![k] = Append(@, m)],
         server' = server, cl' = cl, login' = login, used' = used, closed' = closed,
         t.pc # "ended" => t.last.type # "QUIT",
         \/ k \in login
         \/ /\ t.pc \notin {"getdata", "putopen", "putdata"} /\ ~t.auth
            /\ m.type \notin {"LIST_REPLY", "DATA", "END"},
         \/ m.type # "AUTH_REPLY" \/ toCli' = toCli
         \/ /\ toSrv[k] # <<>> /\ Head(toSrv[k]).type = "AUTH"
            /\ toSrv' = [toSrv EXCEPT ![k] = Tail(@)]
            /\ t.pc = "recv" /\ t.auth = m.ok
  PROVE  SafeInv'
  <1>1. th[k].pc # "ended" /\ th[k].pc # "none" /\ server
    BY DEF Busy, SafeInv, Threads
  <1>2. th'[k] = t /\ \A j \in Conn : j # k => th'[j] = th[j]
    OBVIOUS
  <1>3. /\ toSrv' \in [Conn -> Seq(Message)]
        /\ \A j \in Conn : j # k => toSrv'[j] = toSrv[j]
        /\ Has(toSrv'[k], "AUTH") => Has(toSrv[k], "AUTH")
        /\ HasGood(toSrv'[k]) => HasGood(toSrv[k])
        /\ LastOnly(toSrv[k], "AUTH") => LastOnly(toSrv'[k], "AUTH")
    BY ConsumedHas
  <1>4. toSrv[k] \in Seq(Message) /\ toCli[k] \in Seq(Message)
    BY DEF MailTyped
  <1>5. /\ \A j \in Conn : j # k => toCli'[j] = toCli[j]
        /\ toCli'[k] = toCli[k] \/ toCli'[k] = Append(toCli[k], m)
    BY DEF MailTyped
  <1>6. ASSUME NEW type PROVE Has(toCli'[k], type) => Has(toCli[k], type) \/ m.type = type
    <2>1. Has(Append(toCli[k], m), type) <=> Has(toCli[k], type) \/ m.type = type
      BY <1>4, AppendHas
    <2> QED BY <2>1, <1>5
  <1>7. Sockets'
    <2>1. ASSUME NEW c \in Clients, NEW i \in 1..MaxOpens, i > used[c]
          PROVE  toCli'[<<c, i>>] = <<>> /\ th'[<<c, i>>].pc = "none"
      <3>1. toCli[<<c, i>>] = <<>> /\ th[<<c, i>>].pc = "none" /\ <<c, i>> \in Conn
        BY <2>1, <1>1, ConnFacts DEF SafeInv, Sockets
      <3>2. <<c, i>> # k
        BY <3>1, <1>1
      <3> QED BY <3>1, <3>2, <1>2, <1>5
    <2> QED BY <2>1 DEF SafeInv, Sockets, Sock, OwnConns
  <1>8. Threads'
    BY <1>1, <1>2 DEF SafeInv, Threads
  <1>9. AuthInStep'
    <2> SUFFICES ASSUME NEW c \in Clients, Sock(c) \in Conn \ closed
                 PROVE  InStep(c, Sock(c))'
      BY DEF AuthInStep, Sock
    <2>0. InStep(c, Sock(c)) /\ Sock(c)' = Sock(c)
      BY DEF SafeInv, AuthInStep, Sock
    <2>1. CASE Sock(c) # k
      BY <2>0, <2>1, <1>2, <1>3, <1>5 DEF InStep, AuthAsked, AuthAnswered, Busy
    <2>2. CASE Sock(c) = k
      <3>1. AuthAsked(c, k) /\ AuthAnswered(c, k) /\ k \notin closed
        BY <2>0, <2>2, <1>1 DEF InStep
      <3>2. ~Has(toCli[k], "AUTH_REPLY")
        BY <3>1, <1>1 DEF AuthAnswered
      <3>3. CASE ~Has(toCli'[k], "AUTH_REPLY")
        <4>1. AuthAsked(c, k)'
          BY <3>1, <3>3, <1>3 DEF AuthAsked
        <4> QED BY <4>1, <3>3, <2>0, <2>2 DEF InStep, AuthAnswered
      <3>4. CASE Has(toCli'[k], "AUTH_REPLY")
        <4>1. m.type = "AUTH_REPLY" /\ toCli'[k] = Append(toCli[k], m) /\ toCli' # toCli
          BY <3>2, <3>4, <1>5, <1>6
        <4>2. /\ toSrv[k] # <<>> /\ Head(toSrv[k]).type = "AUTH"
              /\ toSrv'[k] = Tail(toSrv[k]) /\ t.pc = "recv" /\ t.auth = m.ok
          BY <4>1 DEF MailTyped
        <4>3. Has(toSrv[k], "AUTH")
          BY <4>2, <1>4, TailHas
        <4>4. cl[c].pc = "AUTH_REPLY" /\ LastOnly(toSrv[k], "AUTH")
          BY <4>3, <3>1 DEF AuthAsked
        <4>5. toSrv'[k] = <<>>
          BY <4>2, <4>4, <1>4, TailHas
        <4>6. LastOnly(toCli'[k], "AUTH_REPLY") /\ toCli'[k][Len(toCli'[k])] = m
          BY <4>1, <3>2, <1>4, AppendHas
        <4>7. AuthAsked(c, k)'
          BY <4>5, EmptyHas DEF AuthAsked
        <4>8. AuthAnswered(c, k)'
          BY <4>2, <4>4, <4>5, <4>6, <1>2 DEF AuthAnswered, Busy
        <4> QED BY <4>7, <4>8, <2>0, <2>2 DEF InStep
      <3> QED BY <3>3, <3>4
    <2> QED BY <2>1, <2>2
  <1>10. LoginFirst'
    <2> SUFFICES ASSUME NEW j \in Conn, j \notin login PROVE Outside(j)'
      BY DEF LoginFirst
    <2>0. Outside(j)
      BY DEF SafeInv, LoginFirst
    <2>1. CASE j # k
      BY <2>0, <2>1, <1>2, <1>3, <1>5 DEF Outside, Busy
    <2>2. CASE j = k
      <3>1. ~HasGood(toSrv[k])
        BY <2>0, <2>2, <1>1 DEF Outside
      <3>2. ~HasGood(toSrv'[k])
        BY <3>1, <1>3
      <3>3. ~Has(toCli'[k], "LIST_REPLY") /\ ~Has(toCli'[k], "DATA") /\ ~Has(toCli'[k], "END")
        BY <2>0, <2>2, <1>6 DEF Outside
      <3> QED BY <3>2, <3>3, <2>2, <1>2 DEF Outside, Busy
    <2> QED BY <2>1, <2>2
  <1> QED BY <1>7, <1>8, <1>9, <1>10 DEF SafeInv

-----------------------------------------------------------------------------
(* The steps of a client *)

ClientsTyped ==
    /\ cl \in [Clients -> [pc : ClientPc, sock : Conn \cup {NoConn}, connected : BOOLEAN,
                           authenticated : BOOLEAN, reply : Message, name : Name,
                           pos : Nat, own : [Files -> Seq(Blocks)]]]
    /\ used \in [Clients -> 0..MaxOpens]

\* No client has the connection of another.
LEMMA OtherSocks ==
  ASSUME ClientsTyped, SafeInv, NEW c \in Clients, NEW d \in Clients, d # c, Sock(d) \in Conn
  PROVE  Sock(d) # Sock(c) /\ Sock(d) \notin OwnConns(c)
  <1>1. Sock(d) \in OwnConns(d) /\ Sock(d)[1] = d
    BY ConnFacts, OwnFacts DEF SafeInv, Sockets, ClientsTyped
  <1>2. \A k \in OwnConns(c) : k[1] = c
    BY OwnFacts DEF ClientsTyped
  <1>3. Sock(c) # NoConn => Sock(c) \in OwnConns(c)
    BY DEF SafeInv, Sockets
  <1> QED BY <1>1, <1>2, <1>3, ConnFacts

\* A client changes its own state and the messages of its own connection.
LEMMA ClientGoes ==
  ASSUME ClientsTyped, MailTyped, SafeInv, NEW c \in Clients, NEW s,
         cl' = [cl EXCEPT ![c] = s], s.sock = Sock(c),
         s.connected \/ s.pc \in ReplyTypes \cup {"download", "upload"} => Sock(c) # NoConn,
         s.pc = "AUTH_REPLY" => Sock(c) \notin closed',
         s.pc \in {"PUT_REPLY", "upload"} => s.name \in Files,
         server' = server, th' = th, used' = used,
         closed' = closed \/ closed' = closed \cup {Sock(c)},
         \A j \in Conn : j # Sock(c) => /\ toSrv'[j] = toSrv[j] /\ toCli'[j] = toCli[j]
                                        /\ j \in login => j \in login',
         Sock(c) \in Conn /\ Sock(c) \notin closed' => InStep(c, Sock(c))',
         Sock(c) \in Conn /\ Sock(c) \notin login' => Outside(Sock(c))'
  PROVE  SafeInv'
  <1>1. /\ cl'[c] = s /\ \A d \in Clients : d # c => cl'[d] = cl[d]
        /\ \A d \in Clients : Sock(d)' = Sock(d)
    BY DEF ClientsTyped, Sock
  <1>2. Sockets'
    <2>1. ASSUME NEW d \in Clients
          PROVE  /\ Sock(d) # NoConn => Sock(d) \in OwnConns(d)'
                 /\ cl'[d].connected \/ cl'[d].pc \in ReplyTypes \cup {"download", "upload"}
                       => Sock(d) # NoConn
                 /\ cl'[d].pc = "AUTH_REPLY" => Sock(d) \notin closed'
                 /\ cl'[d].pc \in {"PUT_REPLY", "upload"} => cl'[d].name \in Files
      <3>1. CASE d = c
        BY <3>1, <1>1 DEF SafeInv, Sockets, OwnConns
      <3>2. CASE d # c
        <4>1. cl[d].pc = "AUTH_REPLY" => Sock(d) # NoConn
          BY DEF SafeInv, Sockets, ReplyTypes
        <4>2. cl[d].pc = "AUTH_REPLY" => Sock(d) \in Conn
          BY <4>1 DEF ClientsTyped, Sock
        <4>3. cl[d].pc = "AUTH_REPLY" => Sock(d) \notin closed'
          BY <3>2, <4>2, OtherSocks DEF SafeInv, Sockets
        <4> QED BY <4>3, <3>2, <1>1 DEF SafeInv, Sockets, OwnConns
      <3> QED BY <3>1, <3>2
    <2>2. ASSUME NEW d \in Clients, NEW i \in 1..MaxOpens, i > used[d]
          PROVE  toCli'[<<d, i>>] = <<>> /\ (server => th[<<d, i>>].pc = "none")
      <3>1. <<d, i>> \in Conn /\ <<d, i>>[1] = d /\ <<d, i>>[2] = i
        BY ConnFacts
      <3>2. <<d, i>> # Sock(c)
        <4> SUFFICES ASSUME <<d, i>> = Sock(c) PROVE FALSE
          OBVIOUS
        <4>1. <<d, i>> \in OwnConns(c)
          BY <3>1, ConnFacts DEF SafeInv, Sockets
        <4>2. c = d /\ i \in 1..used[c] /\ used[c] \in Nat
          BY <4>1, <3>1, OwnFacts DEF ClientsTyped
        <4> QED BY <4>2, <2>2
      <3> QED BY <3>1, <3>2, <2>2 DEF SafeInv, Sockets
    <2> QED BY <1>1, <2>1, <2>2 DEF Sockets
  <1>3. Threads'
    BY DEF SafeInv, Threads
  <1>4. AuthInStep'
    <2> SUFFICES ASSUME NEW d \in Clients, Sock(d) \in Conn, Sock(d) \notin closed'
                 PROVE  InStep(d, Sock(d))'
      BY <1>1 DEF AuthInStep
    <2>1. CASE d = c
      BY <2>1, <1>1
    <2>2. CASE d # c
      <3>1. Sock(d) # Sock(c) /\ Sock(d)' = Sock(d)
        BY <2>2, <1>1, OtherSocks
      <3>2. InStep(d, Sock(d)) /\ cl'[d] = cl[d]
        BY <2>2, <1>1 DEF SafeInv, AuthInStep
      <3> QED BY <3>1, <3>2 DEF InStep, AuthAsked, AuthAnswered, Busy
    <2> QED BY <2>1, <2>2
  <1>5. LoginFirst'
    <2> SUFFICES ASSUME NEW j \in Conn, j \notin login' PROVE Outside(j)'
      BY DEF LoginFirst
    <2>1. CASE j = Sock(c)
      <3>1. Sock(c)' = Sock(c)
        BY <1>1
      <3> QED BY <2>1, <3>1
    <2>2. CASE j # Sock(c)
      <3>1. Outside(j)
        BY <2>2 DEF SafeInv, LoginFirst
      <3> QED BY <3>1, <2>2 DEF Outside, Busy
    <2> QED BY <2>1, <2>2
  <1> QED BY <1>2, <1>3, <1>4, <1>5 DEF SafeInv

\* A client ends as s, perhaps over what it has just read.
LEMMA ClientStops ==
  ASSUME ClientsTyped, MailTyped, SafeInv, NEW c \in Clients, NEW s,
         s.pc \notin ReplyTypes \cup {"download", "upload"},
         s.sock = Sock(c), s.connected = cl[c].connected,
         cl' = [cl EXCEPT ![c] = s], closed' = closed \cup OwnConns(c),
         server' = server, th' = th, used' = used, login \subseteq login', toSrv' = toSrv,
         \/ toCli' = toCli
         \/ /\ Sock(c) \in Conn /\ toCli[Sock(c)] # <<>>
            /\ toCli' = [toCli EXCEPT ![Sock(c)] = Tail(@)]
  PROVE  SafeInv'
  <1>1. /\ cl'[c].pc = s.pc /\ cl'[c].connected = cl[c].connected
        /\ \A d \in Clients : d # c => cl'[d] = cl[d]
        /\ \A d \in Clients : Sock(d)' = Sock(d)
    BY DEF ClientsTyped, Sock
  <1>2. \A j \in Conn : j # Sock(c) => toCli'[j] = toCli[j]
    BY DEF MailTyped
  <1>3. ASSUME NEW type, NEW j \in Conn
        PROVE  /\ Has(toCli'[j], type) => Has(toCli[j], type)
               /\ toCli[j] = <<>> => toCli'[j] = <<>>
    <2>1. CASE toCli' = toCli \/ j # Sock(c)
      BY <2>1, <1>2
    <2>2. CASE j = Sock(c) /\ toCli[j] # <<>> /\ toCli' = [toCli EXCEPT ![Sock(c)] = Tail(@)]
      <3>1. toCli[j] \in Seq(Message) /\ toCli'[j] = Tail(toCli[j])
        BY <2>2 DEF MailTyped
      <3> QED BY <3>1, <2>2, TailHas
    <2> QED BY <2>1, <2>2
  <1>4. Sockets'
    <2>1. ASSUME NEW d \in Clients
          PROVE  /\ Sock(d) # NoConn => Sock(d) \in OwnConns(d)'
                 /\ cl'[d].connected \/ cl'[d].pc \in ReplyTypes \cup {"download", "upload"}
                       => Sock(d) # NoConn
                 /\ cl'[d].pc = "AUTH_REPLY" => Sock(d) \notin closed'
                 /\ cl'[d].pc \in {"PUT_REPLY", "upload"} => cl'[d].name \in Files
      <3>1. CASE d = c
        <4>1. s.pc \notin {"AUTH_REPLY", "PUT_REPLY", "upload"}
          BY DEF ReplyTypes
        <4> QED BY <4>1, <3>1, <1>1 DEF SafeInv, Sockets, OwnConns
      <3>2. CASE d # c
        <4>1. cl[d].pc = "AUTH_REPLY" => Sock(d) # NoConn
          BY DEF SafeInv, Sockets, ReplyTypes
        <4>2. cl[d].pc = "AUTH_REPLY" => Sock(d) \in Conn
          BY <4>1 DEF ClientsTyped, Sock
        <4>3. cl[d].pc = "AUTH_REPLY" => Sock(d) \notin closed'
          BY <3>2, <4>2, OtherSocks DEF SafeInv, Sockets
        <4> QED BY <4>3, <3>2, <1>1 DEF SafeInv, Sockets, OwnConns
      <3> QED BY <3>1, <3>2
    <2>2. ASSUME NEW d \in Clients, NEW i \in 1..MaxOpens, i > used[d]
          PROVE  toCli'[<<d, i>>] = <<>> /\ (server => th[<<d, i>>].pc = "none")
      <3>1. <<d, i>> \in Conn
        BY ConnFacts
      <3> QED BY <3>1, <2>2, <1>3 DEF SafeInv, Sockets
    <2> QED BY <1>1, <2>1, <2>2 DEF Sockets
  <1>5. Threads'
    BY DEF SafeInv, Threads
  <1>6. AuthInStep'
    <2> SUFFICES ASSUME NEW d \in Clients, Sock(d) \in Conn, Sock(d) \notin closed'
                 PROVE  InStep(d, Sock(d))'
      BY <1>1 DEF AuthInStep
    <2>1. d # c
      <3>1. Sock(c) \in Conn => Sock(c) \in OwnConns(c)
        BY ConnFacts DEF SafeInv, Sockets
      <3> QED BY <3>1
    <2>2. Sock(d) # Sock(c) /\ Sock(d)' = Sock(d)
      BY <2>1, <1>1, OtherSocks
    <2>3. InStep(d, Sock(d)) /\ cl'[d] = cl[d]
      BY <2>1, <1>1 DEF SafeInv, AuthInStep
    <2> QED BY <2>2, <2>3, <1>2 DEF InStep, AuthAsked, AuthAnswered, Busy
  <1>7. LoginFirst'
    <2> SUFFICES ASSUME NEW j \in Conn, j \notin login' PROVE Outside(j)'
      BY DEF LoginFirst
    <2>1. Outside(j)
      BY DEF SafeInv, LoginFirst
    <2> QED BY <2>1, <1>3 DEF Outside, Busy
  <1> QED BY <1>4, <1>5, <1>6, <1>7 DEF SafeInv

LEMMA NoAuthUnderWay ==
  ASSUME SafeInv, NEW c \in Clients, Sock(c) \in Conn \ closed, cl[c].pc # "AUTH_REPLY"
  PROVE  /\ ~Has(toCli[Sock(c)], "AUTH_REPLY")
         /\ th[Sock(c)].pc = "ended" \/ ~Has(toSrv[Sock(c)], "AUTH")
  BY DEF SafeInv, AuthInStep, InStep, AuthAsked, AuthAnswered

-----------------------------------------------------------------------------
(* Types *)

ThreadType == [pc : ThreadPc, auth : BOOLEAN, last : Message, name : Name,
               pos : Nat, data : Message]

DirTyped == present \subseteq Files /\ filedir \in [Files -> Seq(Blocks)]
ThreadsTyped == th \in [Conn -> ThreadType]
SetsTyped ==
    /\ server \in BOOLEAN
    /\ closed \subseteq Conn /\ reset \subseteq Conn /\ login \subseteq Conn
    /\ given \in [Clients -> 0..MaxCommands]

LEMMA TypeParts ==
  TypeOK <=> DirTyped /\ ThreadsTyped /\ ClientsTyped /\ MailTyped /\ SetsTyped
  BY DEF TypeOK, DirTyped, ThreadsTyped, ThreadType, ClientsTyped, MailTyped, SetsTyped

LEMMA HoleTyped == Hole \in Blocks
  BY FtpAssumption DEF Hole, Block, Blocks

LEMMA MessagesTyped ==
  /\ \A type \in RequestTypes \cup ReplyTypes \cup {"REFUSED", "DATA", "END", "none"} :
        Plain(type) \in Message /\ Plain(type).type = type
  /\ \A ok \in BOOLEAN : Auth(ok) \in Message /\ Auth(ok).type = "AUTH" /\ Auth(ok).ok = ok
  /\ \A type \in {"GET", "PUT"}, f \in Files :
        Named(type, f) \in Message /\ Named(type, f).type = type
  /\ \A type \in {"AUTH_REPLY", "GET_REPLY"}, ok \in BOOLEAN :
        /\ Status(type, ok) \in Message /\ Status(type, ok).type = type
        /\ Status(type, ok).ok = ok
  /\ \A b \in Blocks : Data(b) \in Message /\ Data(b).type = "DATA"
  BY HoleTyped DEF Plain, Auth, Named, Status, Data, Message, Name, RequestTypes, ReplyTypes

LEMMA ClearedTyped ==
  ASSUME NEW m \in Message
  PROVE  Cleared(m) \in Message /\ Cleared(m).type = m.type /\ Cleared(m).ok = FALSE
  BY DEF Cleared, Message, Name

LEMMA RequestFacts ==
  ASSUME IInv, NEW k \in Conn, NEW type, Receives(k, type)
  PROVE  /\ Request(k) \in Message /\ Request(k).type = type /\ Consumes(k)
         /\ th[k].pc = "recv" /\ (toSrv[k] # <<>> \/ k \in closed)
         /\ Thread(k) = [th[k] EXCEPT !.last = Request(k)] /\ Thread(k) \in ThreadType
         /\ Thread(k).pc = "recv" /\ Thread(k).auth = th[k].auth /\ Thread(k).last.type = type
         /\ k \notin login => ~th[k].auth /\ (type = "AUTH" => ~Request(k).ok)
         /\ k \in closed \/ /\ toSrv[k] # <<>> /\ Head(toSrv[k]).type = type
                            /\ toSrv' = [toSrv EXCEPT ![k] = Tail(@)]
  <1>1. th[k] \in ThreadType /\ toSrv[k] \in Seq(Message)
    BY TypeParts DEF IInv, ThreadsTyped, MailTyped
  <1>2. toSrv[k] # <<>> => Head(toSrv[k]) \in Message
    BY <1>1, TailHas
  <1>3. Cleared(th[k].last) \in Message /\ ~Cleared(th[k].last).ok
    BY <1>1, ClearedTyped DEF ThreadType
  <1>4. Request(k) \in Message /\ Request(k).type = type
    BY <1>2, <1>3 DEF Request, Receives
  <1>5. /\ Thread(k) \in ThreadType /\ Thread(k).pc = "recv" /\ Thread(k).auth = th[k].auth
        /\ Thread(k).last = Request(k) /\ th[k].pc = "recv"
    BY <1>1, <1>4 DEF Thread, ThreadType, Receives
  <1>6. Consumes(k) /\ (toSrv[k] # <<>> \/ k \in closed)
    BY DEF Receives, Consumes
  <1>7. ASSUME k \notin login PROVE ~th[k].auth /\ (type = "AUTH" => ~Request(k).ok)
    <2>1. ~th[k].auth /\ ~HasGood(toSrv[k])
      BY <1>7, <1>5 DEF IInv, SafeInv, LoginFirst, Outside
    <2>2. toSrv[k] # <<>> => ~(Head(toSrv[k]).type = "AUTH" /\ Head(toSrv[k]).ok)
      BY <2>1, <1>1, TailHas
    <2> QED BY <2>1, <2>2, <1>3, <1>4 DEF Request
  <1>8. k \in closed \/ /\ toSrv[k] # <<>> /\ Head(toSrv[k]).type = type
                        /\ toSrv' = [toSrv EXCEPT ![k] = Tail(@)]
    BY <1>4 DEF Receives, Request
  <1> QED BY <1>4, <1>5, <1>6, <1>7, <1>8 DEF Thread

LEMMA EndedTyped ==
  ASSUME ThreadsTyped, ServerEnds PROVE ThreadsTyped' /\ server' = FALSE
  BY DEF ThreadsTyped, ThreadType, ThreadPc, ServerEnds

(***************************************************************************)
(* A thread's step that ends with send: what it must keep to.              *)
(***************************************************************************)
LEMMA AnswerStep ==
  ASSUME IInv, NEW k \in Conn, NEW t \in ThreadType, NEW m \in Message, Answer(k, t, m),
         Consumes(k), cl' = cl, login' = login, used' = used, given' = given,
         present' = present, filedir' = filedir,
         Busy(k) \/ (th[k].pc = "recv" /\ (toSrv[k] # <<>> \/ k \in closed)),
         t.pc # "ended" => t.last.type # "QUIT",
         \/ k \in login
         \/ /\ t.pc \notin {"getdata", "putopen", "putdata"} /\ ~t.auth
            /\ m.type \notin {"LIST_REPLY", "DATA", "END"},
         \/ m.type # "AUTH_REPLY" \/ k \in closed
         \/ /\ toSrv[k] # <<>> /\ Head(toSrv[k]).type = "AUTH"
            /\ toSrv' = [toSrv EXCEPT ![k] = Tail(@)]
            /\ t.pc = "recv" /\ t.auth = m.ok
  PROVE  IInv'
  <1>0. DirTyped /\ ThreadsTyped /\ ClientsTyped /\ MailTyped /\ SetsTyped /\ SafeInv
    BY TypeParts DEF IInv
  <1>1. toSrv' \in [Conn -> Seq(Message)]
    BY <1>0, ConsumedHas
  <1>2. DirTyped' /\ ClientsTyped' /\ used' = used
    BY <1>0 DEF DirTyped, ClientsTyped
  <1>3. CASE /\ k \notin closed
             /\ toCli' = [toCli EXCEPT ![k] = Append(@, m)] /\ th' = [th EXCEPT ![k] = t]
             /\ UNCHANGED <<server, closed, reset>>
    <2>1. Append(toCli[k], m) \in Seq(Message)
      BY <1>0, AppendHas DEF MailTyped
    <2>2. MailTyped' /\ ThreadsTyped' /\ SetsTyped'
      BY <1>0, <1>1, <1>3, <2>1 DEF MailTyped, ThreadsTyped, SetsTyped
    <2>3. SafeInv'
      BY <1>0, <1>3, ThreadGoes DEF ThreadsTyped, ThreadType
    <2> QED BY <1>2, <2>2, <2>3, TypeParts DEF IInv, TypeOK, DirTyped, ThreadsTyped, ThreadType,
                                                ClientsTyped, MailTyped, SetsTyped
  <1>4. CASE /\ k \in closed \ reset
             /\ reset' = reset \cup {k} /\ th' = [th EXCEPT ![k] = t]
             /\ UNCHANGED <<server, closed, toCli>>
    <2>1. MailTyped' /\ ThreadsTyped' /\ SetsTyped'
      BY <1>0, <1>1, <1>4 DEF MailTyped, ThreadsTyped, SetsTyped
    <2>2. SafeInv'
      BY <1>0, <1>4, ThreadGoes DEF ThreadsTyped, ThreadType
    <2> QED BY <1>2, <2>1, <2>2, TypeParts DEF IInv, TypeOK, DirTyped, ThreadsTyped, ThreadType,
                                                ClientsTyped, MailTyped, SetsTyped
  <1>5. CASE ServerEnds /\ UNCHANGED <<closed, reset, toCli>>
    <2>1. ThreadsTyped' /\ server' = FALSE
      BY <1>0, <1>5, EndedTyped
    <2>2. MailTyped' /\ SetsTyped'
      BY <1>0, <1>1, <1>5, <2>1 DEF MailTyped, SetsTyped
    <2>3. SafeInv'
      BY <1>0, <1>5, AllEnd DEF ThreadsTyped, ThreadType
    <2> QED BY <1>2, <2>1, <2>2, <2>3, TypeParts DEF IInv, TypeOK, DirTyped, ThreadsTyped,
                                                ThreadType, ClientsTyped, MailTyped, SetsTyped
  <1> QED BY <1>3, <1>4, <1>5 DEF Answer

\* What the typed parts give to a primed state.
LEMMA IInvPrime ==
  ASSUME DirTyped', ThreadsTyped', ClientsTyped', MailTyped', SetsTyped', SafeInv'
  PROVE  IInv'
  BY DEF IInv, TypeOK, DirTyped, ThreadsTyped, ThreadType, ClientsTyped, MailTyped, SetsTyped

\* Requests that are answered in one step.
LEMMA RequestInv ==
  ASSUME IInv, NEW k \in Conn,
         \/ HandleOpen(k) \/ HandleAuth(k) \/ HandleRefused(k) \/ HandleList(k) \/ HandleQuit(k)
  PROVE  IInv'
  <1>1. CASE HandleOpen(k)
    <2>1. Receives(k, "OPEN") /\ Answer(k, Thread(k), Plain("OPEN_REPLY"))
          /\ UNCHANGED <<present, filedir, cl, login, used, given>>
      BY <1>1 DEF HandleOpen, dirVars, bounds
    <2>2. Plain("OPEN_REPLY") \in Message /\ Plain("OPEN_REPLY").type = "OPEN_REPLY"
      BY MessagesTyped DEF ReplyTypes
    <2> QED BY <2>1, <2>2, RequestFacts, AnswerStep
  <1>2. CASE HandleAuth(k)
    <2> DEFINE t == [Thread(k) EXCEPT !.auth = Request(k).ok]
               m == Status("AUTH_REPLY", Request(k).ok)
    <2>1. Receives(k, "AUTH") /\ Answer(k, t, m)
          /\ UNCHANGED <<present, filedir, cl, login, used, given>>
      BY <1>2 DEF HandleAuth, dirVars, bounds
    <2>2. Request(k).ok \in BOOLEAN
      BY <2>1, RequestFacts DEF Message
    <2>3. m \in Message /\ m.type = "AUTH_REPLY" /\ m.ok = Request(k).ok
      BY <2>2, MessagesTyped
    <2>4. Thread(k) \in ThreadType /\ Thread(k).last.type = "AUTH" /\ Thread(k).pc = "recv"
      BY <2>1, RequestFacts
    <2>5. /\ t \in ThreadType /\ t.auth = Request(k).ok /\ t.pc = "recv"
          /\ t.last.type = "AUTH"
      BY <2>2, <2>4 DEF ThreadType
    <2> HIDE DEF t, m
    <2> QED BY <2>1, <2>3, <2>5, RequestFacts, AnswerStep
  <1>3. CASE HandleRefused(k)
    <2>1. PICK type \in {"LIST", "GET", "PUT"}, stale \in {"REFUSED", "PUT_REPLY"} :
            /\ Receives(k, type) /\ ~th[k].auth /\ Answer(k, Thread(k), Plain(stale))
            /\ UNCHANGED <<present, filedir, cl, login, used, given>>
      BY <1>3 DEF HandleRefused, dirVars, bounds
    <2>2. Plain(stale) \in Message /\ Plain(stale).type = stale
      BY MessagesTyped DEF ReplyTypes
    <2> QED BY <2>1, <2>2, RequestFacts, AnswerStep
  <1>4. CASE HandleList(k)
    <2>1. Receives(k, "LIST") /\ th[k].auth /\ Answer(k, Thread(k), Plain("LIST_REPLY"))
          /\ UNCHANGED <<present, filedir, cl, login, used, given>>
      BY <1>4 DEF HandleList, dirVars, bounds
    <2>2. Plain("LIST_REPLY") \in Message /\ Plain("LIST_REPLY").type = "LIST_REPLY"
      BY MessagesTyped DEF ReplyTypes
    <2>3. k \in login
      BY <2>1, RequestFacts
    <2> QED BY <2>1, <2>2, <2>3, RequestFacts, AnswerStep
  <1>5. CASE HandleQuit(k)
    <2> DEFINE t == [Thread(k) EXCEPT !.pc = "ended"]
    <2>1. Receives(k, "QUIT") /\ Answer(k, t, Plain("QUIT_REPLY"))
          /\ UNCHANGED <<present, filedir, cl, login, used, given>>
      BY <1>5 DEF HandleQuit, dirVars, bounds
    <2>2. Plain("QUIT_REPLY") \in Message /\ Plain("QUIT_REPLY").type = "QUIT_REPLY"
      BY MessagesTyped DEF ReplyTypes
    <2>3. Thread(k) \in ThreadType /\ Thread(k).auth = th[k].auth
      BY <2>1, RequestFacts
    <2>4. t \in ThreadType /\ t.pc = "ended" /\ t.auth = th[k].auth
      BY <2>3 DEF ThreadType, ThreadPc
    <2> HIDE DEF t
    <2> QED BY <2>1, <2>2, <2>4, RequestFacts, AnswerStep
  <1> QED BY <1>1, <1>2, <1>3, <1>4, <1>5

\* GET and PUT of a connection that is logged in, and the blocks of a GET.
LEMMA FileRequestInv ==
  ASSUME IInv, NEW k \in Conn, HandleGet(k) \/ HandlePut(k) \/ SendBlock(k)
  PROVE  IInv'
  <1>0. ThreadsTyped /\ DirTyped /\ MailTyped /\ SafeInv
    BY TypeParts DEF IInv
  <1>1. CASE HandleGet(k)
    <2> DEFINE f == Request(k).name
               found == f \in present \cup {Directory}
               t == IF found THEN [Thread(k) EXCEPT !.pc = "getdata", !.name = f, !.pos = 0]
                             ELSE Thread(k)
               m == Status("GET_REPLY", found)
    <2>1. Receives(k, "GET") /\ th[k].auth /\ Answer(k, t, m)
          /\ UNCHANGED <<present, filedir, cl, login, used, given>>
      BY <1>1 DEF HandleGet, dirVars, bounds
    <2>2. m \in Message /\ m.type = "GET_REPLY"
      <3>1. found \in BOOLEAN
        OBVIOUS
      <3> HIDE DEF found
      <3> QED BY <3>1, MessagesTyped
    <2>3. Thread(k) \in ThreadType /\ Thread(k).last.type = "GET" /\ f \in Name
      BY <2>1, RequestFacts DEF Message
    <2>4. t \in ThreadType /\ t.last.type = "GET"
      BY <2>3 DEF ThreadType, ThreadPc
    <2>5. k \in login
      BY <2>1, RequestFacts
    <2> HIDE DEF t, m
    <2> QED BY <2>1, <2>2, <2>4, <2>5, RequestFacts, AnswerStep
  <1>2. CASE HandlePut(k)
    <2> DEFINE t == [Thread(k) EXCEPT !.pc = "putopen", !.name = Request(k).name]
    <2>1. Receives(k, "PUT") /\ th[k].auth /\ Answer(k, t, Plain("PUT_REPLY"))
          /\ UNCHANGED <<present, filedir, cl, login, used, given>>
      BY <1>2 DEF HandlePut, dirVars, bounds
    <2>2. Plain("PUT_REPLY") \in Message /\ Plain("PUT_REPLY").type = "PUT_REPLY"
      BY MessagesTyped DEF ReplyTypes
    <2>3. Thread(k) \in ThreadType /\ Thread(k).last.type = "PUT" /\ Request(k).name \in Name
      BY <2>1, RequestFacts DEF Message
    <2>4. t \in ThreadType /\ t.last.type = "PUT"
      BY <2>3 DEF ThreadType, ThreadPc
    <2>5. k \in login
      BY <2>1, RequestFacts
    <2> HIDE DEF t
    <2> QED BY <2>1, <2>2, <2>4, <2>5, RequestFacts, AnswerStep
  <1>3. CASE SendBlock(k)
    <2> DEFINE contents == IF th[k].name \in Files THEN filedir[th[k].name] ELSE <<>>
               i == th[k].pos + 1
    <2>1. /\ th[k].pc = "getdata" /\ toSrv' = toSrv
          /\ UNCHANGED <<present, filedir, cl, login, used, given>>
      BY <1>3 DEF SendBlock, dirVars, bounds
    <2>2. th[k] \in ThreadType /\ i \in Nat /\ i >= 1 /\ th[k].last.type # "QUIT"
      BY <1>0, <2>1 DEF ThreadsTyped, ThreadType, SafeInv, Threads
    <2>3. Consumes(k) /\ Busy(k) /\ k \in login
      BY <1>0, <2>1 DEF Consumes, Busy, SafeInv, LoginFirst, Outside
    <2>4. contents \in Seq(Blocks)
      BY <1>0 DEF DirTyped
    <2>5. CASE i <= Len(contents)
      <3> DEFINE t == [th[k] EXCEPT !.pos = i]
                 m == Data(contents[i])
      <3>1. Answer(k, t, m)
        BY <1>3, <2>5 DEF SendBlock
      <3>2. contents[i] \in Blocks
        BY <2>2, <2>4, <2>5
      <3>3. m \in Message /\ m.type = "DATA"
        BY <3>2, MessagesTyped
      <3>4. t \in ThreadType /\ t.last = th[k].last
        BY <2>2 DEF ThreadType
      <3> HIDE DEF t, m
      <3> QED BY <2>1, <2>2, <2>3, <3>1, <3>3, <3>4, AnswerStep
    <2>6. CASE ~(i <= Len(contents))
      <3> DEFINE t == [th[k] EXCEPT !.pc = "recv"]
      <3>1. Answer(k, t, Plain("END"))
        BY <1>3, <2>6 DEF SendBlock
      <3>2. Plain("END") \in Message /\ Plain("END").type = "END"
        BY MessagesTyped
      <3>3. t \in ThreadType /\ t.last = th[k].last
        BY <2>2 DEF ThreadType, ThreadPc
      <3> HIDE DEF t
      <3> QED BY <2>1, <2>2, <2>3, <3>1, <3>2, <3>3, AnswerStep
    <2> QED BY <2>5, <2>6
  <1> QED BY <1>1, <1>2, <1>3

\* A thread goes on without a word.
LEMMA SilentStep ==
  ASSUME IInv, NEW k \in Conn, NEW t \in ThreadType, th' = [th EXCEPT ![k] = t],
         Consumes(k), DirTyped', server' = server, toCli' = toCli,
         cl' = cl, closed' = closed, reset' = reset, login' = login, used' = used, given' = given,
         Busy(k) \/ (th[k].pc = "recv" /\ (toSrv[k] # <<>> \/ k \in closed)),
         t.pc # "ended" => t.last.type # "QUIT",
         k \in login \/ (t.pc \notin {"getdata", "putopen", "putdata"} /\ ~t.auth)
  PROVE  IInv'
  <1>0. ThreadsTyped /\ ClientsTyped /\ MailTyped /\ SetsTyped /\ SafeInv
    BY TypeParts DEF IInv
  <1>1. toSrv' \in [Conn -> Seq(Message)]
    BY <1>0, ConsumedHas
  <1>2. ThreadsTyped' /\ ClientsTyped' /\ MailTyped' /\ SetsTyped'
    BY <1>0, <1>1 DEF ThreadsTyped, ClientsTyped, MailTyped, SetsTyped
  <1>3. NoMessage \in Message /\ NoMessage.type = "none"
    BY MessagesTyped DEF NoMessage
  <1>4. SafeInv'
    BY <1>0, <1>3, ThreadGoes DEF ThreadsTyped, ThreadType
  <1> QED BY <1>2, <1>4, IInvPrime

LEMMA ServerEndsStep ==
  ASSUME IInv, NEW k \in Conn, ServerEnds,
         UNCHANGED <<toSrv, toCli, present, filedir, cl, closed, reset, login, used, given>>
  PROVE  IInv'
  <1>0. ThreadsTyped /\ DirTyped /\ ClientsTyped /\ MailTyped /\ SetsTyped /\ SafeInv
    BY TypeParts DEF IInv
  <1>1. ThreadsTyped' /\ server' = FALSE
    BY <1>0, EndedTyped
  <1>2. DirTyped' /\ ClientsTyped' /\ MailTyped' /\ SetsTyped'
    BY <1>0, <1>1 DEF DirTyped, ClientsTyped, MailTyped, SetsTyped
  <1>3. SafeInv'
    BY <1>0, AllEnd DEF ThreadsTyped, ThreadType, Consumes
  <1> QED BY <1>1, <1>2, <1>3, IInvPrime

LEMMA WrittenTyped ==
  ASSUME NEW contents \in Seq(Blocks), NEW i \in Nat \ {0}, NEW b \in Blocks
  PROVE  Written(contents, i, b) \in Seq(Blocks)
  <1> DEFINE n == IF i > Len(contents) THEN i ELSE Len(contents)
  <1>1. n \in Nat
    OBVIOUS
  <1>2. ASSUME NEW j \in 1..n
        PROVE  (IF j = i THEN b ELSE IF j <= Len(contents) THEN contents[j] ELSE Hole) \in Blocks
    BY HoleTyped
  <1> HIDE DEF n
  <1>3. [j \in 1..n |-> IF j = i THEN b ELSE IF j <= Len(contents) THEN contents[j] ELSE Hole]
          \in Seq(Blocks)
    BY <1>1, <1>2
  <1> QED BY <1>3 DEF Written, n

LEMMA StoreTyped ==
  ASSUME IInv, NEW k \in Conn, NEW m \in Message, StoreBlock(k, m)
  PROVE  LET t == [th[k] EXCEPT !.pos = th[k].pos + 1, !.data = m] IN
         /\ DirTyped' /\ t \in ThreadType /\ th' = [th EXCEPT ![k] = t]
         /\ t.last = th[k].last /\ t.pc = th[k].pc /\ server' = server
  <1>0. ThreadsTyped /\ DirTyped
    BY TypeParts DEF IInv
  <1>1. th[k] \in ThreadType /\ th[k].pos + 1 \in Nat \ {0} /\ m.block \in Blocks
    BY <1>0 DEF ThreadsTyped, ThreadType, Message
  <1> DEFINE f == th[k].name
             i == th[k].pos + 1
  <1>2. filedir' = [filedir EXCEPT ![f] = Written(@, i, m.block)] /\ present' = present
        /\ th' = [th EXCEPT ![k].pos = i, ![k].data = m] /\ server' = server
    BY DEF StoreBlock
  <1> HIDE DEF f, i
  <1>3. f \in Files => Written(filedir[f], i, m.block) \in Seq(Blocks)
    BY <1>0, <1>1, WrittenTyped DEF DirTyped, i
  <1>4. filedir' \in [Files -> Seq(Blocks)]
    BY <1>0, <1>2, <1>3 DEF DirTyped
  <1>5. th' = [th EXCEPT ![k] = [th[k] EXCEPT !.pos = i, !.data = m]]
    BY <1>0, <1>1, <1>2 DEF ThreadsTyped, ThreadType
  <1>6. DirTyped'
    BY <1>0, <1>2, <1>4 DEF DirTyped
  <1> QED BY <1>1, <1>2, <1>5, <1>6 DEF ThreadType, i

\* The blocks of a PUT, and a request of no known type.
LEMMA PutInv ==
  ASSUME IInv, NEW k \in Conn,
         \/ OpenForPut(k) \/ OpenForPutFails(k) \/ RecvBlock(k) \/ RecvNothing(k)
         \/ HandleUnknown(k)
  PROVE  IInv'
  <1>0. ThreadsTyped /\ DirTyped /\ MailTyped /\ SafeInv /\ th[k] \in ThreadType
    BY TypeParts DEF IInv, ThreadsTyped
  <1>b. ASSUME Busy(k) PROVE k \in login /\ th[k].last.type # "QUIT" /\ th[k].data \in Message
    BY <1>0, <1>b DEF Busy, SafeInv, LoginFirst, Outside, Threads, ThreadType
  <1>1. CASE OpenForPut(k)
    <2> DEFINE t == [th[k] EXCEPT !.pc = "putdata", !.pos = 0, !.data = NoMessage]
    <2>1. /\ th[k].pc = "putopen" /\ th[k].name \in Files
          /\ present' = present \cup {th[k].name}
          /\ filedir' = [filedir EXCEPT ![th[k].name] = <<>>]
          /\ th' = [th EXCEPT ![k].pc = "putdata", ![k].pos = 0, ![k].data = NoMessage]
          /\ UNCHANGED <<server, cl, toSrv, toCli, closed, reset, login, used, given>>
      BY <1>1 DEF OpenForPut, wire, bounds
    <2>2. DirTyped'
      BY <1>0, <2>1 DEF DirTyped
    <2>3. NoMessage \in Message
      BY MessagesTyped DEF NoMessage
    <2>4. t \in ThreadType /\ t.last = th[k].last /\ th' = [th EXCEPT ![k] = t]
      BY <1>0, <2>1, <2>3 DEF ThreadType, ThreadPc, ThreadsTyped
    <2>5. Busy(k) /\ Consumes(k)
      BY <2>1 DEF Busy, Consumes
    <2> HIDE DEF t
    <2> QED BY <1>b, <2>1, <2>2, <2>4, <2>5, SilentStep
  <1>2. CASE OpenForPutFails(k)
    BY <1>2, ServerEndsStep DEF OpenForPutFails, dirVars, wire, bounds
  <1>3. CASE RecvBlock(k)
    <2> DEFINE m == Head(toSrv[k])
    <2>1. /\ th[k].pc = "putdata" /\ toSrv[k] # <<>>
          /\ toSrv' = [toSrv EXCEPT ![k] = Tail(@)]
          /\ UNCHANGED <<cl, toCli, closed, reset, login, used, given>>
      BY <1>3 DEF RecvBlock, bounds
    <2>2. m \in Message
      BY <1>0, <2>1, TailHas DEF MailTyped
    <2>3. Busy(k) /\ Consumes(k)
      BY <2>1 DEF Busy, Consumes
    <2>4. CASE StoreBlock(k, m)
      <3> DEFINE t == [th[k] EXCEPT !.pos = th[k].pos + 1, !.data = m]
      <3>1. /\ DirTyped' /\ t \in ThreadType /\ th' = [th EXCEPT ![k] = t]
            /\ t.last = th[k].last /\ server' = server
        BY <2>2, <2>4, StoreTyped
      <3> HIDE DEF t
      <3> QED BY <1>b, <2>1, <2>3, <3>1, SilentStep
    <2>5. CASE th' = [th EXCEPT ![k].pc = "recv"] /\ UNCHANGED <<server, present, filedir>>
      <3> DEFINE t == [th[k] EXCEPT !.pc = "recv"]
      <3>1. t \in ThreadType /\ t.last = th[k].last /\ th' = [th EXCEPT ![k] = t]
        BY <1>0, <2>5 DEF ThreadType, ThreadPc, ThreadsTyped
      <3>2. DirTyped' /\ server' = server
        BY <1>0, <2>5 DEF DirTyped
      <3> HIDE DEF t
      <3> QED BY <1>b, <2>1, <2>3, <3>1, <3>2, SilentStep
    <2> QED BY <1>3, <2>4, <2>5 DEF RecvBlock, dirVars
  <1>4. CASE RecvNothing(k)
    <2>1. /\ th[k].pc = "putdata"
          /\ UNCHANGED <<cl, toSrv, toCli, closed, reset, login, used, given>>
      BY <1>4 DEF RecvNothing, wire, bounds
    <2>2. Busy(k) /\ Consumes(k)
      BY <2>1 DEF Busy, Consumes
    <2>3. CASE StoreBlock(k, th[k].data)
      <3> DEFINE t == [th[k] EXCEPT !.pos = th[k].pos + 1, !.data = th[k].data]
      <3>1. /\ DirTyped' /\ t \in ThreadType /\ th' = [th EXCEPT ![k] = t]
            /\ t.last = th[k].last /\ server' = server
        BY <1>b, <2>2, <2>3, StoreTyped
      <3> HIDE DEF t
      <3> QED BY <1>b, <2>1, <2>2, <3>1, SilentStep
    <2>4. CASE ServerEnds /\ UNCHANGED <<present, filedir>>
      BY <2>1, <2>4, ServerEndsStep
    <2>5. CASE th' = [th EXCEPT ![k].pc = "recv"] /\ UNCHANGED <<server, present, filedir>>
      <3> DEFINE t == [th[k] EXCEPT !.pc = "recv"]
      <3>1. t \in ThreadType /\ t.last = th[k].last /\ th' = [th EXCEPT ![k] = t]
        BY <1>0, <2>5 DEF ThreadType, ThreadPc, ThreadsTyped
      <3>2. DirTyped' /\ server' = server
        BY <1>0, <2>5 DEF DirTyped
      <3> HIDE DEF t
      <3> QED BY <1>b, <2>1, <2>2, <3>1, <3>2, SilentStep
    <2> QED BY <1>4, <2>3, <2>4, <2>5 DEF RecvNothing, dirVars
  <1>5. CASE HandleUnknown(k)
    <2> DEFINE t == [Thread(k) EXCEPT !.pc = "left"]
    <2>1. PICK type \in {"DATA", "END"} : Receives(k, type)
      BY <1>5 DEF HandleUnknown
    <2>2. /\ th' = [th EXCEPT ![k] = t]
          /\ UNCHANGED <<server, present, filedir, cl, toCli, closed, reset, login, used, given>>
      BY <1>5 DEF HandleUnknown, dirVars, bounds
    <2>3. Thread(k) \in ThreadType /\ Thread(k).last.type = type /\ Thread(k).auth = th[k].auth
      BY <2>1, RequestFacts
    <2>4. t \in ThreadType /\ t.last.type = type /\ t.pc = "left" /\ t.auth = th[k].auth
      BY <2>3 DEF ThreadType, ThreadPc
    <2>5. DirTyped'
      BY <1>0, <2>2 DEF DirTyped
    <2> HIDE DEF t
    <2> QED BY <2>1, <2>2, <2>4, <2>5, RequestFacts, SilentStep
  <1> QED BY <1>1, <1>2, <1>3, <1>4, <1>5

-----------------------------------------------------------------------------
(* The steps of a client on the whole state *)

ClientType == [pc : ClientPc, sock : Conn \cup {NoConn}, connected : BOOLEAN,
               authenticated : BOOLEAN, reply : Message, name : Name,
               pos : Nat, own : [Files -> Seq(Blocks)]]

\* What the steps of a client leave alone.
ServerKept == /\ server' = server /\ th' = th /\ used' = used
              /\ present' = present /\ filedir' = filedir
              /\ given' \in [Clients -> 0..MaxCommands]

\* The client takes a message, or does not.
Reads(c) ==
    \/ toCli' = toCli
    \/ Sock(c) \in Conn /\ toCli[Sock(c)] # <<>> /\ toCli' = [toCli EXCEPT ![Sock(c)] = Tail(@)]

LEMMA ReadHas ==
  ASSUME MailTyped, NEW c \in Clients, Reads(c)
  PROVE  /\ toCli' \in [Conn -> Seq(Message)]
         /\ \A j \in Conn : j # Sock(c) => toCli'[j] = toCli[j]
         /\ \A j \in Conn : \A type : Has(toCli'[j], type) => Has(toCli[j], type)
  <1>1. CASE toCli' = toCli
    BY <1>1 DEF MailTyped
  <1>2. CASE Sock(c) \in Conn /\ toCli[Sock(c)] # <<>> /\ toCli' = [toCli EXCEPT ![Sock(c)] = Tail(@)]
    <2>1. toCli[Sock(c)] \in Seq(Message) /\ toCli'[Sock(c)] = Tail(toCli[Sock(c)])
      BY <1>2 DEF MailTyped
    <2>2. /\ Tail(toCli[Sock(c)]) \in Seq(Message)
          /\ \A type : Has(Tail(toCli[Sock(c)]), type) => Has(toCli[Sock(c)], type)
      BY <2>1, <1>2, TailHas
    <2>3. toCli' \in [Conn -> Seq(Message)] /\ \A j \in Conn : j # Sock(c) => toCli'[j] = toCli[j]
      BY <2>2, <1>2 DEF MailTyped
    <2> QED BY <2>1, <2>2, <2>3
  <1> QED BY <1>1, <1>2 DEF Reads

\* A client reads a message, or none, outside a login.
LEMMA ClientReads ==
  ASSUME IInv, NEW c \in Clients, NEW s \in ClientType, cl' = [cl EXCEPT ![c] = s],
         s.sock = Sock(c), s.pc # "AUTH_REPLY", cl[c].pc # "AUTH_REPLY",
         s.connected \/ s.pc \in ReplyTypes \cup {"download", "upload"} => Sock(c) # NoConn,
         s.pc \in {"PUT_REPLY", "upload"} => s.name \in Files,
         Reads(c), ServerKept, toSrv' = toSrv, closed' = closed, reset' = reset, login' = login
  PROVE  IInv'
  <1>0. DirTyped /\ ThreadsTyped /\ ClientsTyped /\ MailTyped /\ SetsTyped /\ SafeInv
    BY TypeParts DEF IInv
  <1>1. /\ toCli' \in [Conn -> Seq(Message)]
        /\ \A j \in Conn : j # Sock(c) => toCli'[j] = toCli[j]
        /\ \A j \in Conn : \A type : Has(toCli'[j], type) => Has(toCli[j], type)
    BY <1>0, ReadHas
  <1>2. DirTyped' /\ ThreadsTyped' /\ ClientsTyped' /\ MailTyped' /\ SetsTyped'
    BY <1>0, <1>1 DEF DirTyped, ThreadsTyped, ClientsTyped, ClientType, MailTyped, SetsTyped,
                      ServerKept
  <1>3. Sock(c)' = Sock(c)
    BY <1>0 DEF Sock, ClientsTyped
  <1>4. ASSUME Sock(c) \in Conn, Sock(c) \notin closed PROVE InStep(c, Sock(c))'
    <2>1. /\ ~Has(toCli[Sock(c)], "AUTH_REPLY")
          /\ th[Sock(c)].pc = "ended" \/ ~Has(toSrv[Sock(c)], "AUTH")
      BY <1>0, <1>4, NoAuthUnderWay
    <2>2. ~Has(toCli'[Sock(c)], "AUTH_REPLY")
      BY <2>1, <1>1, <1>4
    <2> QED BY <2>1, <2>2, <1>3 DEF InStep, AuthAsked, AuthAnswered, ServerKept
  <1>5. ASSUME Sock(c) \in Conn, Sock(c) \notin login PROVE Outside(Sock(c))'
    <2>1. Outside(Sock(c))
      BY <1>0, <1>5 DEF SafeInv, LoginFirst
    <2> QED BY <2>1, <1>1, <1>3, <1>5 DEF Outside, Busy, ServerKept
  <1>6. SafeInv'
    BY <1>0, <1>1, <1>4, <1>5, ClientGoes DEF ServerKept
  <1> QED BY <1>2, <1>6, IInvPrime

\* A client ends as s, perhaps over what it has just read.
LEMMA ClientStopsAs ==
  ASSUME IInv, NEW c \in Clients, NEW s \in ClientType,
         s.pc \notin ReplyTypes \cup {"download", "upload"},
         s.sock = Sock(c), s.connected = cl[c].connected,
         cl' = [cl EXCEPT ![c] = s], closed' = closed \cup OwnConns(c),
         Reads(c), ServerKept, toSrv' = toSrv, reset' = reset,
         login \subseteq login', login' \subseteq Conn
  PROVE  IInv'
  <1>0. DirTyped /\ ThreadsTyped /\ ClientsTyped /\ MailTyped /\ SetsTyped /\ SafeInv
    BY TypeParts DEF IInv
  <1>1. toCli' \in [Conn -> Seq(Message)]
    BY <1>0, ReadHas
  <1>2. OwnConns(c) \subseteq Conn
    BY <1>0, OwnFacts DEF ClientsTyped
  <1>4. ClientsTyped'
    BY <1>0 DEF ClientsTyped, ClientType, ServerKept
  <1>5. DirTyped' /\ ThreadsTyped' /\ MailTyped' /\ SetsTyped'
    BY <1>0, <1>1, <1>2 DEF DirTyped, ThreadsTyped, MailTyped, SetsTyped, ServerKept
  <1>6. SafeInv'
    BY <1>0, ClientStops DEF ServerKept, Reads
  <1> QED BY <1>4, <1>5, <1>6, IInvPrime

LEMMA ClientStopsStep ==
  ASSUME IInv, NEW c \in Clients, NEW pc \in ClientPc,
         pc \notin ReplyTypes \cup {"download", "upload"}, ClientEnds(c, pc),
         Reads(c), ServerKept, toSrv' = toSrv, reset' = reset,
         login \subseteq login', login' \subseteq Conn
  PROVE  IInv'
  <1> DEFINE s == [cl[c] EXCEPT !.pc = pc]
  <1>1. cl \in [Clients -> ClientType]
    BY TypeParts DEF IInv, ClientsTyped, ClientType
  <1>2. s \in ClientType /\ s.pc = pc /\ s.sock = Sock(c) /\ s.connected = cl[c].connected
    BY <1>1 DEF ClientType, Sock
  <1>3. cl' = [cl EXCEPT ![c] = s] /\ closed' = closed \cup OwnConns(c)
    BY <1>1 DEF ClientType, ClientEnds
  <1>4. s.pc \notin ReplyTypes \cup {"download", "upload"}
    BY <1>2
  <1> HIDE DEF s
  <1> QED BY <1>2, <1>3, <1>4, ClientStopsAs

\* A client sends.
LEMMA AskStep ==
  ASSUME IInv, NEW c \in Clients, NEW s \in ClientType, NEW m \in Message, Ask(c, s, m),
         Sock(c) \in Conn, s.sock = Sock(c), cl[c].pc # "AUTH_REPLY",
         ServerKept, toCli' = toCli, login' \subseteq Conn, login \subseteq login',
         IF s.pc = "AUTH_REPLY" THEN Sock(c) \notin closed ELSE m.type # "AUTH",
         m.type = "AUTH" /\ m.ok => Sock(c) \in login',
         s.pc \in {"PUT_REPLY", "upload"} => s.name \in Files
  PROVE  IInv'
  <1>0. DirTyped /\ ThreadsTyped /\ ClientsTyped /\ MailTyped /\ SetsTyped /\ SafeInv
    BY TypeParts DEF IInv
  <1>a. Sock(c) # NoConn
    BY ConnFacts
  <1>1. CASE /\ th[Sock(c)].pc = "ended" /\ Sock(c) \in reset
             /\ ClientEnds(c, "killed") /\ UNCHANGED <<reset, toSrv>>
    <2>1. "killed" \in ClientPc /\ "killed" \notin ReplyTypes \cup {"download", "upload"}
      BY DEF ClientPc, ReplyTypes
    <2>2. Reads(c)
      BY DEF Reads
    <2> QED BY <1>1, <2>1, <2>2, ClientStopsStep
  <1>2. ASSUME cl' = [cl EXCEPT ![c] = s], closed' = closed, reset' \subseteq Conn,
               \/ toSrv' = toSrv /\ th[Sock(c)].pc = "ended"
               \/ toSrv' = [toSrv EXCEPT ![Sock(c)] = Append(@, m)]
        PROVE  IInv'
    <2> DEFINE k == Sock(c)
    <2>1. toSrv[k] \in Seq(Message)
      BY <1>0 DEF MailTyped
    <2>2. /\ Append(toSrv[k], m) \in Seq(Message)
          /\ Has(Append(toSrv[k], m), "AUTH") <=> Has(toSrv[k], "AUTH") \/ m.type = "AUTH"
          /\ HasGood(Append(toSrv[k], m)) <=> HasGood(toSrv[k]) \/ (m.type = "AUTH" /\ m.ok)
          /\ ~Has(toSrv[k], "AUTH") => LastOnly(Append(toSrv[k], m), "AUTH")
      <3> HIDE DEF k
      <3>1. ASSUME NEW q \in Seq(Message)
            PROVE  /\ Append(q, m) \in Seq(Message)
                   /\ Has(Append(q, m), "AUTH") <=> Has(q, "AUTH") \/ m.type = "AUTH"
                   /\ HasGood(Append(q, m)) <=> HasGood(q) \/ (m.type = "AUTH" /\ m.ok)
                   /\ ~Has(q, "AUTH") => LastOnly(Append(q, m), "AUTH")
        BY AppendHas
      <3> QED BY <2>1, <3>1
    <2>3. toSrv' \in [Conn -> Seq(Message)] /\ \A j \in Conn : j # k => toSrv'[j] = toSrv[j]
      BY <1>0, <1>2, <2>2 DEF MailTyped
    <2>4. th[k].pc = "ended" \/ toSrv'[k] = Append(toSrv[k], m)
      BY <1>0, <1>2 DEF MailTyped
    <2>5. DirTyped' /\ ThreadsTyped' /\ ClientsTyped' /\ MailTyped' /\ SetsTyped'
      BY <1>0, <1>2, <2>3 DEF DirTyped, ThreadsTyped, ClientsTyped, ClientType, MailTyped,
                              SetsTyped, ServerKept
    <2>6. Sock(c)' = Sock(c) /\ cl'[c] = s
      BY <1>0, <1>2 DEF Sock, ClientsTyped
    <2>7. ASSUME k \notin closed PROVE InStep(c, k)'
      <3>1. /\ ~Has(toCli[k], "AUTH_REPLY")
            /\ th[k].pc = "ended" \/ ~Has(toSrv[k], "AUTH")
        BY <1>0, <2>7, NoAuthUnderWay
      <3>2. AuthAnswered(c, k)'
        BY <3>1, <2>6 DEF AuthAnswered
      <3>3. th[k].pc = "ended" \/ AuthAsked(c, k)'
        BY <3>1, <2>2, <2>4, <2>6 DEF AuthAsked
      <3> QED BY <3>2, <3>3, <2>6 DEF InStep, ServerKept
    <2>8. ASSUME k \notin login' PROVE Outside(k)'
      <3>1. Outside(k)
        BY <1>0, <2>8 DEF SafeInv, LoginFirst
      <3> QED BY <3>1, <2>2, <2>4, <2>6, <2>8 DEF Outside, Busy, ServerKept
    <2>9. SafeInv'
      BY <1>0, <1>2, <1>a, <2>3, <2>7, <2>8, ClientGoes DEF ServerKept
    <2> QED BY <2>5, <2>9, IInvPrime
  <1> QED BY <1>0, <1>1, <1>2 DEF Ask, SetsTyped

\* A command and a reply, as far as the invariant tells.
LEMMA CommandFacts ==
  ASSUME IInv, NEW c \in Clients, NEW word, Command(c, word)
  PROVE  /\ cl[c] \in ClientType /\ cl[c].pc = "prompt" /\ Sock(c) = cl[c].sock
         /\ given' \in [Clients -> 0..MaxCommands]
         /\ cl[c].connected \/ word \in {"auth", "badauth", "ls", "get", "put"}
               => Sock(c) # NoConn /\ Sock(c) \in Conn
  <1>0. ClientsTyped /\ SetsTyped /\ SafeInv
    BY TypeParts DEF IInv
  <1>1. cl[c] \in ClientType /\ Sock(c) \in Conn \cup {NoConn}
    BY <1>0 DEF ClientsTyped, ClientType, Sock
  <1>2. given[c] + 1 \in 0..MaxCommands
    BY <1>0, FtpAssumption DEF SetsTyped, Command
  <1>3. given' \in [Clients -> 0..MaxCommands]
    BY <1>0, <1>2 DEF SetsTyped, Command
  <1> QED BY <1>0, <1>1, <1>3 DEF Command, SafeInv, Sockets, Sock

LEMMA ReplyFacts ==
  ASSUME IInv, NEW c \in Clients, NEW type \in ReplyTypes, Gets(c, type)
  PROVE  /\ cl[c] \in ClientType /\ cl[c].pc = type /\ Sock(c) = cl[c].sock
         /\ Sock(c) # NoConn /\ Sock(c) \in Conn /\ Reads(c) /\ Reply(c) \in Message
         /\ Client(c) = [cl[c] EXCEPT !.reply = Reply(c)] /\ Client(c) \in ClientType
         /\ Client(c).sock = Sock(c) /\ Client(c).name = cl[c].name
         /\ type = "PUT_REPLY" => cl[c].name \in Files
  <1>0. ClientsTyped /\ MailTyped /\ SafeInv
    BY TypeParts DEF IInv
  <1>1. cl[c] \in ClientType /\ Sock(c) \in Conn \cup {NoConn} /\ cl[c].pc = type
    BY <1>0 DEF ClientsTyped, ClientType, Sock, Gets
  <1>2. Sock(c) # NoConn
    BY <1>0, <1>1 DEF SafeInv, Sockets
  <1>3. Reads(c)
    BY <1>1, <1>2 DEF Gets, Reads
  <1>4. toCli[Sock(c)] # <<>> => Head(toCli[Sock(c)]) \in Message
    BY <1>0, <1>1, <1>2, TailHas DEF MailTyped
  <1>5. Reply(c) \in Message
    BY <1>1, <1>4 DEF Reply, ClientType
  <1>6. Client(c) \in ClientType /\ Client(c).sock = Sock(c) /\ Client(c).name = cl[c].name
    BY <1>1, <1>5 DEF Client, ClientType, Sock
  <1>7. type = "PUT_REPLY" => cl[c].name \in Files
    BY <1>0, <1>1 DEF SafeInv, Sockets
  <1> QED BY <1>1, <1>2, <1>3, <1>5, <1>6, <1>7 DEF Client, Sock

\* The commands that send a message.
LEMMA AskInv ==
  ASSUME IInv, NEW c \in Clients, AuthCommand(c) \/ Ls(c) \/ Get(c) \/ Put(c)
  PROVE  IInv'
  <1>0. SetsTyped
    BY TypeParts DEF IInv
  <1>1. CASE AuthCommand(c)
    <2>1. PICK good \in BOOLEAN :
            /\ Command(c, IF good THEN "auth" ELSE "badauth")
            /\ Sock(c) \notin closed
            /\ Ask(c, [cl[c] EXCEPT !.pc = "AUTH_REPLY", !.authenticated = FALSE], Auth(good))
            /\ login' = IF good THEN login \cup {Sock(c)} ELSE login
            /\ UNCHANGED <<server, present, filedir, th, toCli, used>>
      BY <1>1 DEF AuthCommand, dirVars
    <2> DEFINE s == [cl[c] EXCEPT !.pc = "AUTH_REPLY", !.authenticated = FALSE]
               word == IF good THEN "auth" ELSE "badauth"
    <2>2. word \in {"auth", "badauth"} /\ Command(c, word)
      BY <2>1
    <2> HIDE DEF word
    <2>3. /\ cl[c] \in ClientType /\ cl[c].pc = "prompt" /\ Sock(c) = cl[c].sock
          /\ given' \in [Clients -> 0..MaxCommands] /\ Sock(c) \in Conn
      BY <2>2, CommandFacts
    <2>4. s \in ClientType /\ s.sock = Sock(c) /\ s.pc = "AUTH_REPLY"
      BY <2>3 DEF ClientType, ClientPc, ReplyTypes
    <2>5. Auth(good) \in Message /\ Auth(good).type = "AUTH" /\ Auth(good).ok = good
      BY MessagesTyped
    <2>6. ServerKept
      BY <2>1, <2>3 DEF ServerKept
    <2>7. login \subseteq login' /\ login' \subseteq Conn /\ (good => Sock(c) \in login')
      BY <1>0, <2>1, <2>3 DEF SetsTyped
    <2>8. Ask(c, s, Auth(good))
      BY <2>1
    <2> HIDE DEF s
    <2> QED BY <2>1, <2>3, <2>4, <2>5, <2>6, <2>7, <2>8, AskStep
  <1>2. CASE Ls(c)
    <2> DEFINE s == [cl[c] EXCEPT !.pc = "LIST_REPLY"]
    <2>1. /\ Command(c, "ls") /\ Ask(c, s, Plain("LIST"))
          /\ UNCHANGED <<server, present, filedir, th, toCli, login, used>>
      BY <1>2 DEF Ls, dirVars
    <2>2. /\ cl[c] \in ClientType /\ cl[c].pc = "prompt" /\ Sock(c) = cl[c].sock
          /\ given' \in [Clients -> 0..MaxCommands] /\ Sock(c) \in Conn
      BY <2>1, CommandFacts
    <2>3. s \in ClientType /\ s.sock = Sock(c) /\ s.pc = "LIST_REPLY"
      BY <2>2 DEF ClientType, ClientPc, ReplyTypes
    <2>4. Plain("LIST") \in Message /\ Plain("LIST").type = "LIST"
      BY MessagesTyped DEF RequestTypes
    <2>5. ServerKept /\ login' \subseteq Conn
      BY <1>0, <2>1, <2>2 DEF ServerKept, SetsTyped
    <2> HIDE DEF s
    <2> QED BY <2>1, <2>2, <2>3, <2>4, <2>5, AskStep
  <1>3. CASE Get(c)
    <2>1. PICK f \in Files :
            /\ Command(c, "get")
            /\ Ask(c, [cl[c] EXCEPT !.pc = "GET_REPLY", !.name = f], Named("GET", f))
            /\ UNCHANGED <<server, present, filedir, th, toCli, login, used>>
      BY <1>3 DEF Get, dirVars
    <2> DEFINE s == [cl[c] EXCEPT !.pc = "GET_REPLY", !.name = f]
    <2>2. /\ cl[c] \in ClientType /\ cl[c].pc = "prompt" /\ Sock(c) = cl[c].sock
          /\ given' \in [Clients -> 0..MaxCommands] /\ Sock(c) \in Conn
      BY <2>1, CommandFacts
    <2>3. s \in ClientType /\ s.sock = Sock(c) /\ s.pc = "GET_REPLY"
      BY <2>2 DEF ClientType, ClientPc, ReplyTypes, Name
    <2>4. Named("GET", f) \in Message /\ Named("GET", f).type = "GET"
      BY MessagesTyped
    <2>5. ServerKept /\ login' \subseteq Conn /\ Ask(c, s, Named("GET", f))
      BY <1>0, <2>1, <2>2 DEF ServerKept, SetsTyped
    <2> HIDE DEF s
    <2> QED BY <2>1, <2>2, <2>3, <2>4, <2>5, AskStep
  <1>4. CASE Put(c)
    <2>1. PICK f \in Files :
            /\ Command(c, "put")
            /\ Ask(c, [cl[c] EXCEPT !.pc = "PUT_REPLY", !.name = f, !.pos = 0], Named("PUT", f))
            /\ UNCHANGED <<server, present, filedir, th, toCli, login, used>>
      BY <1>4 DEF Put, dirVars
    <2> DEFINE s == [cl[c] EXCEPT !.pc = "PUT_REPLY", !.name = f, !.pos = 0]
    <2>2. /\ cl[c] \in ClientType /\ cl[c].pc = "prompt" /\ Sock(c) = cl[c].sock
          /\ given' \in [Clients -> 0..MaxCommands] /\ Sock(c) \in Conn
      BY <2>1, CommandFacts
    <2>3. s \in ClientType /\ s.sock = Sock(c) /\ s.pc = "PUT_REPLY" /\ s.name = f
      BY <2>2 DEF ClientType, ClientPc, ReplyTypes, Name
    <2>4. Named("PUT", f) \in Message /\ Named("PUT", f).type = "PUT"
      BY MessagesTyped
    <2>5. ServerKept /\ login' \subseteq Conn /\ Ask(c, s, Named("PUT", f))
      BY <1>0, <2>1, <2>2 DEF ServerKept, SetsTyped
    <2> HIDE DEF s
    <2> QED BY <2>1, <2>2, <2>3, <2>4, <2>5, AskStep
  <1> QED BY <1>1, <1>2, <1>3, <1>4

\* The replies that bring the client back to its prompt or to a transfer.
LEMMA ReplyInv ==
  ASSUME IInv, NEW c \in Clients,
         OpenReply(c) \/ LsReply(c) \/ GetReply(c) \/ PutReply(c)
  PROVE  IInv'
  <1>1. CASE OpenReply(c)
    <2> DEFINE s == [Client(c) EXCEPT !.pc = "prompt", !.connected = TRUE]
    <2>1. Gets(c, "OPEN_REPLY") /\ cl' = [cl EXCEPT ![c] = s]
          /\ UNCHANGED <<server, present, filedir, th, toSrv, closed, reset, login, used, given>>
      BY <1>1 DEF OpenReply, dirVars, bounds
    <2>2. /\ cl[c].pc = "OPEN_REPLY" /\ Sock(c) # NoConn /\ Reads(c)
          /\ Client(c) \in ClientType /\ Client(c).sock = Sock(c)
      BY <2>1, ReplyFacts DEF ReplyTypes
    <2>3. s \in ClientType /\ s.sock = Sock(c) /\ s.pc = "prompt"
      BY <2>2 DEF ClientType, ClientPc
    <2>4. ServerKept
      BY <2>1, TypeParts DEF ServerKept, IInv, SetsTyped
    <2> HIDE DEF s
    <2> QED BY <2>1, <2>2, <2>3, <2>4, ClientReads
  <1>2. CASE LsReply(c)
    <2> DEFINE s == [Client(c) EXCEPT !.pc = "prompt"]
    <2>1. Gets(c, "LIST_REPLY") /\ cl' = [cl EXCEPT ![c] = s]
          /\ UNCHANGED <<server, present, filedir, th, toSrv, closed, reset, login, used, given>>
      BY <1>2 DEF LsReply, dirVars, bounds
    <2>2. /\ cl[c].pc = "LIST_REPLY" /\ Sock(c) # NoConn /\ Reads(c)
          /\ Client(c) \in ClientType /\ Client(c).sock = Sock(c)
      BY <2>1, ReplyFacts DEF ReplyTypes
    <2>3. s \in ClientType /\ s.sock = Sock(c) /\ s.pc = "prompt"
      BY <2>2 DEF ClientType, ClientPc
    <2>4. ServerKept
      BY <2>1, TypeParts DEF ServerKept, IInv, SetsTyped
    <2> HIDE DEF s
    <2> QED BY <2>1, <2>2, <2>3, <2>4, ClientReads
  <1>3. CASE GetReply(c)
    <2>1. PICK w \in Writable :
            cl' = [cl EXCEPT ![c] = IF Reply(c).ok /\ w
                      THEN [Client(c) EXCEPT !.pc = "download", !.own[cl[c].name] = <<>>]
                      ELSE [Client(c) EXCEPT !.pc = "prompt"]]
      BY <1>3 DEF GetReply
    <2> DEFINE s == IF Reply(c).ok /\ w
                    THEN [Client(c) EXCEPT !.pc = "download", !.own[cl[c].name] = <<>>]
                    ELSE [Client(c) EXCEPT !.pc = "prompt"]
    <2>2. Gets(c, "GET_REPLY") /\ cl' = [cl EXCEPT ![c] = s]
          /\ UNCHANGED <<server, present, filedir, th, toSrv, closed, reset, login, used, given>>
      BY <1>3, <2>1 DEF GetReply, dirVars, bounds
    <2>3. /\ cl[c].pc = "GET_REPLY" /\ Sock(c) # NoConn /\ Reads(c)
          /\ Client(c) \in ClientType /\ Client(c).sock = Sock(c)
      BY <2>2, ReplyFacts DEF ReplyTypes
    <2>4. s \in ClientType /\ s.sock = Sock(c) /\ s.pc \in {"prompt", "download"}
      <3>0. Client(c).own \in [Files -> Seq(Blocks)] /\ <<>> \in Seq(Blocks)
        BY <2>3 DEF ClientType
      <3>1. [Client(c).own EXCEPT ![cl[c].name] = <<>>] \in [Files -> Seq(Blocks)]
        BY <3>0
      <3>2. [Client(c) EXCEPT !.pc = "download", !.own[cl[c].name] = <<>>]
              = [Client(c) EXCEPT !.pc = "download",
                                  !.own = [Client(c).own EXCEPT ![cl[c].name] = <<>>]]
        BY <2>3 DEF ClientType
      <3>3. /\ [Client(c) EXCEPT !.pc = "download", !.own[cl[c].name] = <<>>] \in ClientType
            /\ [Client(c) EXCEPT !.pc = "download", !.own[cl[c].name] = <<>>].pc = "download"
            /\ [Client(c) EXCEPT !.pc = "download", !.own[cl[c].name] = <<>>].sock = Sock(c)
        BY <3>1, <3>2, <2>3 DEF ClientType, ClientPc
      <3>4. /\ [Client(c) EXCEPT !.pc = "prompt"] \in ClientType
            /\ [Client(c) EXCEPT !.pc = "prompt"].pc = "prompt"
            /\ [Client(c) EXCEPT !.pc = "prompt"].sock = Sock(c)
        BY <2>3 DEF ClientType, ClientPc
      <3> QED BY <3>3, <3>4
    <2>5. ServerKept
      BY <2>2, TypeParts DEF ServerKept, IInv, SetsTyped
    <2> HIDE DEF s
    <2> QED BY <2>2, <2>3, <2>4, <2>5, ClientReads
  <1>4. CASE PutReply(c)
    <2> DEFINE s == [Client(c) EXCEPT !.pc = "upload"]
    <2>1. Gets(c, "PUT_REPLY") /\ cl' = [cl EXCEPT ![c] = s]
          /\ UNCHANGED <<server, present, filedir, th, toSrv, closed, reset, login, used, given>>
      BY <1>4 DEF PutReply, dirVars, bounds
    <2>2. /\ cl[c].pc = "PUT_REPLY" /\ Sock(c) # NoConn /\ Reads(c)
          /\ Client(c) \in ClientType /\ Client(c).sock = Sock(c)
          /\ Client(c).name = cl[c].name /\ cl[c].name \in Files
      BY <2>1, ReplyFacts DEF ReplyTypes
    <2>3. s \in ClientType /\ s.sock = Sock(c) /\ s.pc = "upload" /\ s.name \in Files
      BY <2>2 DEF ClientType, ClientPc
    <2>4. ServerKept
      BY <2>1, TypeParts DEF ServerKept, IInv, SetsTyped
    <2> HIDE DEF s
    <2> QED BY <2>1, <2>2, <2>3, <2>4, ClientReads
  <1> QED BY <1>1, <1>2, <1>3, <1>4

\* The blocks of a GET and of a PUT at the client.
LEMMA TransferInv ==
  ASSUME IInv, NEW c \in Clients,
         Download(c) \/ DownloadNothing(c) \/ Upload(c)
  PROVE  IInv'
  <1>0. ClientsTyped /\ MailTyped /\ SetsTyped /\ SafeInv
    BY TypeParts DEF IInv
  <1>c. cl[c] \in ClientType /\ Sock(c) = cl[c].sock /\ Sock(c) \in Conn \cup {NoConn}
    BY <1>0 DEF ClientsTyped, ClientType, Sock
  <1>s. cl[c].pc \in {"download", "upload"} => Sock(c) # NoConn /\ Sock(c) \in Conn
    BY <1>0, <1>c DEF SafeInv, Sockets
  <1>1. CASE Download(c)
    <2> DEFINE m == Head(toCli[Sock(c)])
               s == IF m.type = "END" THEN [cl[c] EXCEPT !.pc = "prompt"]
                    ELSE [cl[c] EXCEPT !.own[cl[c].name] = Append(@, m.block)]
    <2>1. /\ cl[c].pc = "download" /\ toCli[Sock(c)] # <<>>
          /\ toCli' = [toCli EXCEPT ![Sock(c)] = Tail(@)]
          /\ UNCHANGED <<server, present, filedir, th, toSrv, closed, reset, login, used, given>>
      BY <1>1 DEF Download, dirVars, bounds
    <2>2. cl' = [cl EXCEPT ![c] = s]
      BY <1>1 DEF Download
    <2>3. m \in Message /\ m.block \in Blocks
      <3>1. toCli[Sock(c)] \in Seq(Message)
        BY <1>0, <1>s, <2>1 DEF MailTyped
      <3>2. m \in Message
        BY <3>1, <2>1, TailHas
      <3> QED BY <3>2 DEF Message
    <2>4. s \in ClientType /\ s.sock = Sock(c) /\ s.pc \in {"prompt", "download"}
      <3>1. \A f \in Files : Append(cl[c].own[f], m.block) \in Seq(Blocks)
        BY <1>c, <2>3 DEF ClientType
      <3> HIDE DEF m
      <3>2. [cl[c].own EXCEPT ![cl[c].name] = Append(@, m.block)] \in [Files -> Seq(Blocks)]
        BY <3>1, <1>c DEF ClientType
      <3>3. [cl[c] EXCEPT !.own[cl[c].name] = Append(@, m.block)]
              = [cl[c] EXCEPT !.own = [cl[c].own EXCEPT ![cl[c].name] = Append(@, m.block)]]
        BY <1>c DEF ClientType
      <3>4. /\ [cl[c] EXCEPT !.own[cl[c].name] = Append(@, m.block)] \in ClientType
            /\ [cl[c] EXCEPT !.own[cl[c].name] = Append(@, m.block)].pc = cl[c].pc
            /\ [cl[c] EXCEPT !.own[cl[c].name] = Append(@, m.block)].sock = cl[c].sock
        BY <3>2, <3>3, <1>c DEF ClientType
      <3>5. /\ [cl[c] EXCEPT !.pc = "prompt"] \in ClientType
            /\ [cl[c] EXCEPT !.pc = "prompt"].sock = cl[c].sock
            /\ [cl[c] EXCEPT !.pc = "prompt"].pc = "prompt"
        BY <1>c DEF ClientType, ClientPc
      <3> QED BY <3>4, <3>5, <1>c, <2>1
    <2>5. ServerKept /\ Reads(c)
      BY <1>0, <1>s, <2>1 DEF ServerKept, SetsTyped, Reads
    <2> HIDE DEF s, m
    <2> QED BY <1>s, <2>1, <2>2, <2>4, <2>5, ClientReads
  <1>2. CASE DownloadNothing(c)
    <2>1. /\ cl[c].pc = "download"
          /\ UNCHANGED <<server, present, filedir, th, toSrv, toCli, reset, login, used, given>>
      BY <1>2 DEF DownloadNothing, dirVars, bounds
    <2>2. ServerKept /\ Reads(c) /\ login' \subseteq Conn
      BY <1>0, <2>1 DEF ServerKept, SetsTyped, Reads
    <2> DEFINE f == cl[c].name
               contents == cl[c].own[f]
    <2>3. CASE cl' = [cl EXCEPT ![c].pc = "prompt"] /\ closed' = closed
      <3> DEFINE s == [cl[c] EXCEPT !.pc = "prompt"]
      <3>1. /\ s \in ClientType /\ s.sock = Sock(c) /\ s.pc = "prompt"
            /\ cl' = [cl EXCEPT ![c] = s]
        BY <1>0, <1>c, <2>3 DEF ClientType, ClientPc, ClientsTyped
      <3> HIDE DEF s
      <3> QED BY <1>s, <2>1, <2>2, <2>3, <3>1, ClientReads
    <2>a. CASE /\ contents # <<>> /\ closed' = closed
               /\ cl' = [cl EXCEPT ![c].own[f] = Append(contents, contents[Len(contents)])]
      <3> DEFINE b == contents[Len(contents)]
                 own == [cl[c].own EXCEPT ![f] = Append(contents, b)]
                 s == [cl[c] EXCEPT !.own = own]
      <3>1. cl[c].own \in [Files -> Seq(Blocks)]
        BY <1>c DEF ClientType
      <3>2. own \in [Files -> Seq(Blocks)]
        <4>1. CASE f \in Files
          <5>1. contents \in Seq(Blocks)
            BY <3>1, <4>1
          <5>2. b \in Blocks
            BY <5>1, <2>a
          <5>3. Append(contents, b) \in Seq(Blocks)
            BY <5>1, <5>2
          <5> HIDE DEF contents, b
          <5> QED BY <3>1, <5>3
        <4>2. CASE f \notin Files
          <5> HIDE DEF contents, b
          <5> QED BY <3>1, <4>2
        <4> QED BY <4>1, <4>2
      <3>3. cl' = [cl EXCEPT ![c] = s]
        BY <1>0, <1>c, <2>a DEF ClientsTyped, ClientType
      <3> HIDE DEF own
      <3>4. s \in ClientType /\ s.sock = Sock(c) /\ s.pc = "download"
        BY <1>c, <2>1, <3>2 DEF ClientType
      <3> HIDE DEF s
      <3> QED BY <1>s, <2>1, <2>2, <2>a, <3>3, <3>4, ClientReads
    <2>4. "aborted" \in ClientPc /\ "aborted" \notin ReplyTypes \cup {"download", "upload"}
      BY DEF ClientPc, ReplyTypes
    <2>5. ASSUME ClientEnds(c, "aborted") PROVE IInv'
      BY <2>1, <2>2, <2>4, <2>5, ClientStopsStep
    <2> QED BY <1>2, <2>3, <2>a, <2>5 DEF DownloadNothing
  <1>3. CASE Upload(c)
    <2> DEFINE contents == cl[c].own[cl[c].name]
               i == cl[c].pos + 1
    <2>1. /\ cl[c].pc = "upload"
          /\ UNCHANGED <<server, present, filedir, th, toCli, login, used, given>>
      BY <1>3 DEF Upload, dirVars, bounds
    <2>2. ServerKept /\ login' \subseteq Conn /\ i \in Nat /\ i >= 1
      BY <1>0, <1>c, <2>1 DEF ServerKept, SetsTyped, ClientType
    <2>3. cl[c].name \in Files /\ contents \in Seq(Blocks)
      BY <1>0, <1>c, <2>1 DEF SafeInv, Sockets, ClientType
    <2>4. CASE i <= Len(contents)
      <3> DEFINE s == [cl[c] EXCEPT !.pos = i]
                 m == Data(contents[i])
      <3>1. Ask(c, s, m)
        BY <1>3, <2>4 DEF Upload
      <3>2. contents[i] \in Blocks
        BY <2>2, <2>3, <2>4
      <3>3. m \in Message /\ m.type = "DATA"
        BY <3>2, MessagesTyped
      <3>4. s \in ClientType /\ s.sock = Sock(c) /\ s.pc = "upload" /\ s.name = cl[c].name
        BY <1>c, <2>1, <2>2 DEF ClientType
      <3> HIDE DEF s, m
      <3> QED BY <1>s, <2>1, <2>2, <2>3, <3>1, <3>3, <3>4, AskStep
    <2>5. CASE ~(i <= Len(contents))
      <3> DEFINE s == [cl[c] EXCEPT !.pc = "prompt"]
      <3>1. Ask(c, s, Plain("END"))
        BY <1>3, <2>5 DEF Upload
      <3>2. Plain("END") \in Message /\ Plain("END").type = "END"
        BY MessagesTyped
      <3>3. s \in ClientType /\ s.sock = Sock(c) /\ s.pc = "prompt"
        BY <1>c DEF ClientType, ClientPc
      <3> HIDE DEF s
      <3> QED BY <1>s, <2>1, <2>2, <3>1, <3>2, <3>3, AskStep
    <2> QED BY <2>4, <2>5
  <1> QED BY <1>1, <1>2, <1>3

\* The steps that end a client, or leave it where it is for ever.
LEMMA EndingInv ==
  ASSUME IInv, NEW c \in Clients,
         \/ Quit(c) \/ QuitReply(c) \/ WrongHeader(c) \/ OpenRefused(c) \/ Kill(c)
         \/ GetReplyMerged(c) \/ SendForEver(c)
  PROVE  IInv'
  <1>0. ClientsTyped /\ MailTyped /\ SetsTyped /\ SafeInv
    BY TypeParts DEF IInv
  <1>p. \A pc \in {"exited", "aborted", "killed", "hung", "starved"} :
           /\ pc \in ClientPc /\ pc \notin ReplyTypes \cup {"download", "upload"}
           /\ pc # "AUTH_REPLY"
    BY DEF ClientPc, ReplyTypes
  <1>1. CASE Quit(c)
    <2>1. Command(c, "quit") /\ UNCHANGED <<server, present, filedir, th, toCli, login, used>>
      BY <1>1 DEF Quit, dirVars
    <2>2. /\ cl[c] \in ClientType /\ cl[c].pc = "prompt" /\ Sock(c) = cl[c].sock
          /\ given' \in [Clients -> 0..MaxCommands]
          /\ cl[c].connected => Sock(c) \in Conn
      BY <2>1, CommandFacts
    <2>3. ServerKept /\ login' \subseteq Conn /\ Reads(c)
      BY <1>0, <2>1, <2>2 DEF ServerKept, SetsTyped, Reads
    <2>4. CASE cl[c].connected
      <3> DEFINE s == [cl[c] EXCEPT !.pc = "QUIT_REPLY"]
      <3>1. Ask(c, s, Plain("QUIT"))
        BY <1>1, <2>4 DEF Quit
      <3>2. Plain("QUIT") \in Message /\ Plain("QUIT").type = "QUIT"
        BY MessagesTyped DEF RequestTypes
      <3>3. s \in ClientType /\ s.sock = Sock(c) /\ s.pc = "QUIT_REPLY"
        BY <2>2 DEF ClientType, ClientPc, ReplyTypes
      <3> HIDE DEF s
      <3> QED BY <2>1, <2>2, <2>3, <2>4, <3>1, <3>2, <3>3, AskStep
    <2>5. CASE ~cl[c].connected
      <3>1. ClientEnds(c, "exited") /\ toSrv' = toSrv /\ reset' = reset
        BY <1>1, <2>5 DEF Quit
      <3> QED BY <1>p, <2>1, <2>3, <3>1, ClientStopsStep
    <2> QED BY <2>4, <2>5
  <1>2. ASSUME NEW type \in ReplyTypes, NEW pc \in {"exited", "aborted"}, Gets(c, type),
               ClientEnds(c, pc),
               UNCHANGED <<server, present, filedir, th, toSrv, reset, login, used, given>>
        PROVE  IInv'
    <2>1. Reads(c)
      BY <1>2, ReplyFacts
    <2>2. ServerKept /\ login' \subseteq Conn
      BY <1>0, <1>2 DEF ServerKept, SetsTyped
    <2> QED BY <1>p, <1>2, <2>1, <2>2, ClientStopsStep
  <1>3. CASE QuitReply(c)
    <2>1. "QUIT_REPLY" \in ReplyTypes
      BY DEF ReplyTypes
    <2> QED BY <1>2, <1>3, <2>1 DEF QuitReply, dirVars, bounds
  <1>4. CASE WrongHeader(c)
    <2>1. PICK type \in {"AUTH_REPLY", "LIST_REPLY", "GET_REPLY", "PUT_REPLY"} : Gets(c, type)
      BY <1>4 DEF WrongHeader
    <2>2. type \in ReplyTypes
      BY DEF ReplyTypes
    <2> QED BY <1>2, <1>4, <2>1, <2>2 DEF WrongHeader, dirVars, bounds
  <1>5. CASE OpenRefused(c)
    <2>1. PICK word \in {"open", "badopen"} :
            /\ Command(c, word) /\ ClientEnds(c, "exited")
            /\ UNCHANGED <<server, present, filedir, th, toSrv, toCli, reset, login, used>>
      BY <1>5 DEF OpenRefused, dirVars
    <2>2. given' \in [Clients -> 0..MaxCommands]
      BY <2>1, CommandFacts
    <2>3. ServerKept /\ login' \subseteq Conn /\ Reads(c)
      BY <1>0, <2>1, <2>2 DEF ServerKept, SetsTyped, Reads
    <2> QED BY <1>p, <2>1, <2>3, ClientStopsStep
  <1>6. CASE Kill(c)
    <2>1. /\ ClientEnds(c, "killed")
          /\ UNCHANGED <<server, present, filedir, th, toSrv, toCli, reset, login, used, given>>
      BY <1>6 DEF Kill, dirVars, bounds
    <2>2. ServerKept /\ login' \subseteq Conn /\ Reads(c)
      BY <1>0, <2>1 DEF ServerKept, SetsTyped, Reads
    <2> QED BY <1>p, <2>1, <2>2, ClientStopsStep
  <1>7. CASE GetReplyMerged(c)
    <2>1. /\ Gets(c, "GET_REPLY")
          /\ UNCHANGED <<server, present, filedir, th, toSrv, reset, login, used, given>>
      BY <1>7 DEF GetReplyMerged, dirVars, bounds
    <2>2. "GET_REPLY" \in ReplyTypes /\ "GET_REPLY" # "AUTH_REPLY"
      BY DEF ReplyTypes
    <2>3. /\ cl[c] \in ClientType /\ cl[c].pc = "GET_REPLY" /\ Sock(c) = cl[c].sock
          /\ Sock(c) # NoConn /\ Reads(c)
          /\ Client(c) \in ClientType /\ Client(c).sock = Sock(c)
      BY <2>1, <2>2, ReplyFacts
    <2>4. ServerKept /\ login' \subseteq Conn
      BY <1>0, <2>1 DEF ServerKept, SetsTyped
    <2>5. CASE cl' = [cl EXCEPT ![c] = [Client(c) EXCEPT !.pc = "prompt"]] /\ closed' = closed
      <3> DEFINE s == [Client(c) EXCEPT !.pc = "prompt"]
      <3>1. s \in ClientType /\ s.sock = Sock(c) /\ s.pc = "prompt"
        BY <2>3 DEF ClientType, ClientPc
      <3>2. cl' = [cl EXCEPT ![c] = s]
        BY <2>5
      <3> HIDE DEF s
      <3> QED BY <2>1, <2>3, <2>4, <2>5, <3>1, <3>2, ClientReads
    <2>6. ASSUME NEW pc \in {"starved", "aborted"},
                 cl' = [cl EXCEPT ![c] = [cl[c] EXCEPT !.pc = pc, !.own[cl[c].name] = <<>>]],
                 closed' = IF pc = "aborted" THEN closed \cup OwnConns(c) ELSE closed
          PROVE  IInv'
      <3> DEFINE own == [cl[c].own EXCEPT ![cl[c].name] = <<>>]
                 s == [cl[c] EXCEPT !.pc = pc, !.own = own]
      <3>0. cl[c].own \in [Files -> Seq(Blocks)] /\ <<>> \in Seq(Blocks)
        BY <2>3 DEF ClientType
      <3>1. own \in [Files -> Seq(Blocks)]
        BY <3>0
      <3>2. cl' = [cl EXCEPT ![c] = s]
        BY <1>0, <2>3, <2>6 DEF ClientsTyped, ClientType
      <3> HIDE DEF own
      <3>3. s \in ClientType /\ s.sock = Sock(c) /\ s.pc = pc /\ s.connected = cl[c].connected
        BY <1>p, <2>3, <3>1 DEF ClientType
      <3> HIDE DEF s
      <3>4. CASE pc = "starved"
        BY <2>1, <2>3, <2>4, <2>6, <3>2, <3>3, <3>4, <1>p, ClientReads
      <3>5. CASE pc = "aborted"
        <4>1. closed' = closed \cup OwnConns(c) /\ toSrv' = toSrv /\ reset' = reset
          BY <2>1, <2>6, <3>5
        <4>2. s.pc \notin ReplyTypes \cup {"download", "upload"}
          BY <1>p, <3>3
        <4>3. login \subseteq login'
          BY <2>1
        <4> QED BY <2>3, <2>4, <3>2, <3>3, <4>1, <4>2, <4>3, ClientStopsAs
      <3> QED BY <3>4, <3>5
    <2>7. PICK w \in Writable :
            LET short == toCli[Sock(c)][2].type = "END"
            IN  /\ cl' = [cl EXCEPT ![c] =
                      IF w THEN [@ EXCEPT !.pc = IF short THEN "starved" ELSE "aborted",
                                          !.own[cl[c].name] = <<>>]
                      ELSE [Client(c) EXCEPT !.pc = "prompt"]]
                /\ closed' = IF w /\ ~short THEN closed \cup OwnConns(c) ELSE closed
      BY <1>7 DEF GetReplyMerged
    <2>8. CASE w
      <3>1. PICK pc \in {"starved", "aborted"} :
              /\ cl' = [cl EXCEPT ![c] = [cl[c] EXCEPT !.pc = pc, !.own[cl[c].name] = <<>>]]
              /\ closed' = IF pc = "aborted" THEN closed \cup OwnConns(c) ELSE closed
        <4>1. CASE toCli[Sock(c)][2].type = "END"
          BY <2>7, <2>8, <4>1, <1>0 DEF ClientsTyped
        <4>2. CASE toCli[Sock(c)][2].type # "END"
          BY <2>7, <2>8, <4>2, <1>0 DEF ClientsTyped
        <4> QED BY <4>1, <4>2
      <3> QED BY <2>6, <3>1
    <2>9. CASE ~w
      BY <2>5, <2>7, <2>9, <1>0 DEF ClientsTyped
    <2> QED BY <2>8, <2>9
  <1>8. CASE SendForEver(c)
    <2> DEFINE s == [cl[c] EXCEPT !.pc = "hung"]
    <2>1. PICK word \in {"auth", "badauth", "quit"} : Command(c, word)
      BY <1>8 DEF SendForEver
    <2>2. /\ cl[c].connected /\ cl' = [cl EXCEPT ![c].pc = "hung"]
          /\ UNCHANGED <<server, present, filedir, th, toSrv, toCli, closed, reset, login, used>>
      BY <1>8 DEF SendForEver, dirVars, wire
    <2>3. /\ cl[c] \in ClientType /\ cl[c].pc = "prompt" /\ Sock(c) = cl[c].sock
          /\ given' \in [Clients -> 0..MaxCommands] /\ Sock(c) # NoConn
      BY <2>1, <2>2, CommandFacts
    <2>4. s \in ClientType /\ s.sock = Sock(c) /\ s.pc = "hung" /\ cl' = [cl EXCEPT ![c] = s]
      BY <1>0, <2>2, <2>3 DEF ClientType, ClientPc, ClientsTyped
    <2>5. ServerKept /\ Reads(c)
      BY <1>0, <2>2, <2>3 DEF ServerKept, SetsTyped, Reads
    <2> HIDE DEF s
    <2> QED BY <2>2, <2>3, <2>4, <2>5, ClientReads
  <1> QED BY <1>1, <1>3, <1>4, <1>5, <1>6, <1>7, <1>8

\* Commands that only the client itself knows of.
LEMMA LocalInv ==
  ASSUME IInv, NEW c \in Clients, Usage(c) \/ BadCommand(c)
  PROVE  IInv'
  <1>0. ClientsTyped /\ MailTyped /\ SetsTyped /\ SafeInv
    BY TypeParts DEF IInv
  <1>1. PICK word \in {"usage", "exit"} : Command(c, word)
    BY DEF Usage, BadCommand
  <1>2. UNCHANGED <<server, present, filedir, th, toSrv, toCli, closed, reset, login, used>>
    BY DEF Usage, BadCommand, dirVars, wire
  <1>3. /\ cl[c] \in ClientType /\ cl[c].pc = "prompt" /\ Sock(c) = cl[c].sock
        /\ given' \in [Clients -> 0..MaxCommands]
        /\ cl[c].connected => Sock(c) # NoConn
    BY <1>1, CommandFacts
  <1>4. ServerKept /\ Reads(c)
    BY <1>0, <1>2, <1>3 DEF ServerKept, SetsTyped, Reads
  <1>5. ASSUME NEW s \in {cl[c], [cl[c] EXCEPT !.connected = FALSE],
                          [cl[c] EXCEPT !.authenticated = FALSE]},
               cl' = [cl EXCEPT ![c] = s]
        PROVE  IInv'
    <2>1. /\ s \in ClientType /\ s.sock = Sock(c) /\ s.pc = "prompt"
          /\ s.connected => cl[c].connected
      BY <1>3 DEF ClientType
    <2>2. "prompt" \notin ReplyTypes
      BY DEF ReplyTypes
    <2> QED BY <1>2, <1>3, <1>4, <1>5, <2>1, <2>2, ClientReads
  <1>6. \/ cl' = cl
        \/ cl' = [cl EXCEPT ![c].connected = FALSE]
        \/ cl' = [cl EXCEPT ![c].authenticated = FALSE]
    BY DEF Usage, BadCommand
  <1>7. \/ cl' = [cl EXCEPT ![c] = cl[c]]
        \/ cl' = [cl EXCEPT ![c] = [cl[c] EXCEPT !.connected = FALSE]]
        \/ cl' = [cl EXCEPT ![c] = [cl[c] EXCEPT !.authenticated = FALSE]]
    BY <1>0, <1>6 DEF ClientsTyped
  <1> QED BY <1>5, <1>7

(***************************************************************************)
(* The answer to a login.  It is the last message the thread has sent, and *)
(* the thread has nothing to read: a refusal leaves nothing to be answered.*)
(***************************************************************************)
LEMMA AuthReplyInv ==
  ASSUME IInv, NEW c \in Clients, AuthReply(c)
  PROVE  IInv'
  <1> DEFINE s == [Client(c) EXCEPT !.pc = "prompt", !.authenticated = Reply(c).ok]
             k == Sock(c)
  <1>0. DirTyped /\ ThreadsTyped /\ ClientsTyped /\ MailTyped /\ SetsTyped /\ SafeInv
    BY TypeParts DEF IInv
  <1>1. /\ Gets(c, "AUTH_REPLY") /\ Reply(c).type = "AUTH_REPLY"
        /\ cl' = [cl EXCEPT ![c] = s]
        /\ closed' = IF Reply(c).ok THEN closed ELSE closed \cup {k}
        /\ login' = IF Reply(c).ok THEN login ELSE login \ {k}
        /\ UNCHANGED <<server, present, filedir, th, toSrv, reset, used, given>>
    BY DEF AuthReply, dirVars, bounds
  <1>2. /\ cl[c].pc = "AUTH_REPLY" /\ k # NoConn /\ k \in Conn /\ Reads(c)
        /\ Client(c) \in ClientType /\ Client(c).sock = k /\ Reply(c) \in Message
    BY <1>1, ReplyFacts DEF ReplyTypes
  <1>3. s \in ClientType /\ s.sock = k /\ s.pc = "prompt"
    BY <1>2 DEF ClientType, ClientPc, Message
  <1>4. toCli[k] \in Seq(Message) /\ k \notin closed
    BY <1>0, <1>2 DEF MailTyped, SafeInv, Sockets
  <1>5. AuthAnswered(c, k) /\ (th[k].pc = "ended" \/ AuthAsked(c, k))
    BY <1>0, <1>2, <1>4 DEF SafeInv, AuthInStep, InStep
  <1>6. /\ toCli'[k] = <<>>
        /\ \/ th[k].pc = "ended"
           \/ toSrv[k] = <<>> /\ ~Busy(k) /\ (Reply(c).ok \/ ~th[k].auth)
    <2>1. CASE toCli[k] = <<>>
      BY <2>1, <1>1 DEF Gets
    <2>2. CASE toCli[k] # <<>>
      <3>1. Head(toCli[k]).type = "AUTH_REPLY" /\ Reply(c) = Head(toCli[k])
        BY <2>2, <1>1 DEF Reply
      <3>2. toCli' = [toCli EXCEPT ![k] = Tail(@)]
        BY <2>2, <1>1 DEF Gets
      <3>3. toCli'[k] = Tail(toCli[k])
        BY <3>2, <1>0, <1>2 DEF MailTyped
      <3>4. Has(toCli[k], "AUTH_REPLY")
        <4> HIDE DEF k
        <4> QED BY <3>1, <2>2, <1>4, TailHas
      <3>5. LastOnly(toCli[k], "AUTH_REPLY")
        BY <3>4, <1>5 DEF AuthAnswered
      <3>6. Tail(toCli[k]) = <<>> /\ Head(toCli[k]) = toCli[k][Len(toCli[k])]
        <4> HIDE DEF k
        <4> QED BY <3>1, <3>5, <2>2, <1>4, TailHas
      <3> QED BY <3>1, <3>3, <3>4, <3>6, <1>5 DEF AuthAnswered
    <2> QED BY <2>1, <2>2
  <1>7. /\ toCli' \in [Conn -> Seq(Message)]
        /\ \A j \in Conn : j # k => toCli'[j] = toCli[j]
    BY <1>0, <1>2, ReadHas
  <1>8. DirTyped' /\ ThreadsTyped' /\ ClientsTyped' /\ MailTyped' /\ SetsTyped'
    <2>1. login' \subseteq Conn /\ closed' \subseteq Conn
      BY <1>0, <1>1, <1>2 DEF SetsTyped
    <2> QED BY <2>1, <1>0, <1>1, <1>3, <1>7 DEF DirTyped, ThreadsTyped, ClientsTyped, ClientType,
                                                MailTyped, SetsTyped
  <1>9. Sock(c)' = k
    BY <1>0, <1>1, <1>3 DEF Sock, ClientsTyped
  <1>10. InStep(c, k)'
    <2>1. ~Has(toCli'[k], "AUTH_REPLY")
      BY <1>6, EmptyHas
    <2>2. th[k].pc = "ended" \/ ~Has(toSrv[k], "AUTH")
      BY <1>6, EmptyHas
    <2> QED BY <2>1, <2>2, <1>1, <1>9 DEF InStep, AuthAsked, AuthAnswered
  <1>11. ASSUME k \notin login' PROVE Outside(k)'
    <2>1. ~Has(toCli'[k], "LIST_REPLY") /\ ~Has(toCli'[k], "DATA") /\ ~Has(toCli'[k], "END")
      BY <1>6, EmptyHas
    <2>2. CASE k \notin login
      <3>1. Outside(k)
        BY <2>2, <1>0, <1>2 DEF SafeInv, LoginFirst
      <3> QED BY <3>1, <2>1, <1>1, <1>9 DEF Outside, Busy
    <2>3. CASE ~Reply(c).ok
      <3>1. th[k].pc = "ended" \/ (~HasGood(toSrv[k]) /\ ~Busy(k) /\ ~th[k].auth)
        BY <2>3, <1>6, EmptyHas
      <3> QED BY <3>1, <2>1, <1>1, <1>9 DEF Outside, Busy
    <2> QED BY <2>2, <2>3, <1>1, <1>11
  <1>12. closed' = closed \/ closed' = closed \cup {Sock(c)}
    BY <1>1
  <1>13. \A j \in Conn : j # Sock(c) => /\ toSrv'[j] = toSrv[j] /\ toCli'[j] = toCli[j]
                                        /\ j \in login => j \in login'
    BY <1>1, <1>7
  <1>14. SafeInv'
    <2> HIDE DEF s
    <2> QED BY <1>0, <1>1, <1>2, <1>3, <1>9, <1>10, <1>11, <1>12, <1>13, ClientGoes
  <1> QED BY <1>8, <1>14, IInvPrime

\* A new connection: nobody had it, and nothing is on its way but OPEN.
LEMMA OpenInv ==
  ASSUME IInv, NEW c \in Clients, Open(c)
  PROVE  IInv'
  <1> DEFINE k == <<c, used[c] + 1>>
             s == [cl[c] EXCEPT !.pc = "OPEN_REPLY", !.sock = k, !.connected = FALSE]
             t == [th[k] EXCEPT !.pc = "recv"]
  <1>0. DirTyped /\ ThreadsTyped /\ ClientsTyped /\ MailTyped /\ SetsTyped /\ SafeInv
    BY TypeParts DEF IInv
  <1>1. /\ Command(c, "open") /\ used[c] < MaxOpens /\ server
        /\ cl' = [cl EXCEPT ![c].pc = "OPEN_REPLY", ![c].sock = k, ![c].connected = FALSE]
        /\ th' = [th EXCEPT ![k].pc = "recv"]
        /\ toSrv' = [toSrv EXCEPT ![k] = <<Plain("OPEN")>>]
        /\ used' = [used EXCEPT ![c] = @ + 1]
        /\ UNCHANGED <<server, present, filedir, toCli, closed, reset, login>>
    BY DEF Open, dirVars
  <1>2. /\ cl[c] \in ClientType /\ given' \in [Clients -> 0..MaxCommands]
    BY <1>1, CommandFacts
  <1>3. /\ used[c] + 1 \in 1..MaxOpens /\ used[c] + 1 > used[c] /\ k \in Conn
        /\ k[1] = c /\ k[2] = used[c] + 1
    <2>1. used[c] + 1 \in 1..MaxOpens /\ used[c] + 1 > used[c]
      BY <1>0, <1>1, FtpAssumption DEF ClientsTyped
    <2> QED BY <2>1, ConnFacts
  <1>4. toCli[k] = <<>> /\ th[k].pc = "none"
    BY <1>0, <1>1, <1>3 DEF SafeInv, Sockets
  <1>5. th[k] \in ThreadType /\ th[k].last.type # "QUIT"
    BY <1>0, <1>3, <1>4 DEF ThreadsTyped, SafeInv, Threads
  <1>6. /\ t \in ThreadType /\ t.pc = "recv" /\ t.last = th[k].last /\ t.auth = th[k].auth
        /\ th' = [th EXCEPT ![k] = t]
    BY <1>0, <1>1, <1>5 DEF ThreadType, ThreadPc, ThreadsTyped
  <1>7. s \in ClientType /\ s.sock = k /\ s.pc = "OPEN_REPLY" /\ cl' = [cl EXCEPT ![c] = s]
    BY <1>0, <1>1, <1>2, <1>3 DEF ClientType, ClientPc, ReplyTypes, ClientsTyped
  <1> HIDE DEF s, t
  <1>8. <<Plain("OPEN")>> \in Seq(Message) /\ Plain("OPEN").type = "OPEN"
    <2>1. Plain("OPEN") \in Message /\ Plain("OPEN").type = "OPEN"
      BY MessagesTyped DEF RequestTypes
    <2> HIDE DEF k
    <2> QED BY <2>1
  <1>9. /\ toSrv'[k] = <<Plain("OPEN")>> /\ \A j \in Conn : j # k => toSrv'[j] = toSrv[j]
        /\ toSrv' \in [Conn -> Seq(Message)]
    BY <1>0, <1>1, <1>3, <1>8 DEF MailTyped
  <1>10. /\ th'[k] = t /\ \A j \in Conn : j # k => th'[j] = th[j]
         /\ cl'[c] = s /\ \A d \in Clients : d # c => cl'[d] = cl[d]
         /\ Sock(c)' = k /\ \A d \in Clients : d # c => Sock(d)' = Sock(d)
    BY <1>0, <1>3, <1>6, <1>7 DEF ThreadsTyped, ClientsTyped, Sock
  <1>11. /\ used' \in [Clients -> 0..MaxOpens] /\ used'[c] = used[c] + 1
         /\ \A d \in Clients : d # c => used'[d] = used[d]
         /\ \A d \in Clients : used[d] \in Nat /\ used'[d] \in Nat /\ used'[d] >= used[d]
    BY <1>0, <1>1, <1>3, FtpAssumption DEF ClientsTyped
  <1>12. ~Has(<<Plain("OPEN")>>, "AUTH") /\ ~HasGood(<<Plain("OPEN")>>)
    BY <1>8 DEF Has, HasGood
  <1>13. \A d \in Clients : d # c => Sock(d) # k
    <2> SUFFICES ASSUME NEW d \in Clients, d # c, Sock(d) = k PROVE FALSE
      OBVIOUS
    <2>1. Sock(d) \in OwnConns(d)
      BY <1>0, <1>3, ConnFacts DEF SafeInv, Sockets
    <2>2. Sock(d)[1] = d
      BY <1>0, <2>1, OwnFacts DEF ClientsTyped
    <2> QED BY <2>2, <1>3
  <1>14. DirTyped' /\ ThreadsTyped' /\ ClientsTyped' /\ MailTyped' /\ SetsTyped'
    <2>1. DirTyped' /\ SetsTyped' /\ MailTyped'
      BY <1>0, <1>1, <1>2, <1>9 DEF DirTyped, SetsTyped, MailTyped
    <2>2. ThreadsTyped' /\ ClientsTyped'
      BY <1>0, <1>6, <1>7, <1>11 DEF ThreadsTyped, ClientsTyped, ClientType
    <2> QED BY <2>1, <2>2
  <1>15. Sockets'
    <2>1. ASSUME NEW d \in Clients
          PROVE  /\ Sock(d)' # NoConn => Sock(d)' \in OwnConns(d)'
                 /\ cl'[d].connected \/ cl'[d].pc \in ReplyTypes \cup {"download", "upload"}
                       => Sock(d)' # NoConn
                 /\ cl'[d].pc = "AUTH_REPLY" => Sock(d)' \notin closed'
                 /\ cl'[d].pc \in {"PUT_REPLY", "upload"} => cl'[d].name \in Files
      <3>1. CASE d = c
        <4>1. k \in OwnConns(c)'
          <5>1. used'[c] \in 1..used'[c] /\ k = <<c, used'[c]>>
            BY <1>3, <1>11
          <5> QED BY <5>1 DEF OwnConns
        <4>2. k # NoConn
          BY <1>3, ConnFacts
        <4> QED BY <3>1, <4>1, <4>2, <1>7, <1>10
      <3>2. CASE d # c
        <4>1. OwnConns(d)' = OwnConns(d)
          BY <3>2, <1>11 DEF OwnConns
        <4> QED BY <3>2, <4>1, <1>0, <1>1, <1>10 DEF SafeInv, Sockets
      <3> QED BY <3>1, <3>2
    <2>2. ASSUME NEW d \in Clients, NEW i \in 1..MaxOpens, i > used'[d]
          PROVE  toCli'[<<d, i>>] = <<>> /\ (server' => th'[<<d, i>>].pc = "none")
      <3>1. <<d, i>> \in Conn /\ <<d, i>>[1] = d /\ <<d, i>>[2] = i
        BY ConnFacts
      <3>2. i > used[d] /\ <<d, i>> # k
        BY <2>2, <3>1, <1>3, <1>11
      <3> QED BY <3>1, <3>2, <1>0, <1>1, <1>10 DEF SafeInv, Sockets
    <2> QED BY <2>1, <2>2 DEF Sockets
  <1>16. Threads'
    BY <1>0, <1>1, <1>5, <1>6, <1>10 DEF SafeInv, Threads
  <1>17. AuthInStep'
    <2> SUFFICES ASSUME NEW d \in Clients, Sock(d)' \in Conn, Sock(d)' \notin closed'
                 PROVE  InStep(d, Sock(d))'
      BY DEF AuthInStep
    <2>1. CASE d = c
      <3>1. ~Has(toSrv'[k], "AUTH") /\ ~Has(toCli'[k], "AUTH_REPLY")
        BY <1>1, <1>4, <1>9, <1>12, EmptyHas
      <3> QED BY <2>1, <3>1, <1>10 DEF InStep, AuthAsked, AuthAnswered
    <2>2. CASE d # c
      <3>1. Sock(d)' = Sock(d) /\ Sock(d) # k /\ InStep(d, Sock(d)) /\ cl'[d] = cl[d]
        BY <2>2, <1>0, <1>1, <1>10, <1>13 DEF SafeInv, AuthInStep
      <3> QED BY <3>1, <1>1, <1>9, <1>10 DEF InStep, AuthAsked, AuthAnswered, Busy
    <2> QED BY <2>1, <2>2
  <1>18. LoginFirst'
    <2> SUFFICES ASSUME NEW j \in Conn, j \notin login PROVE Outside(j)'
      BY <1>1 DEF LoginFirst
    <2>0. Outside(j)
      BY <1>0 DEF SafeInv, LoginFirst
    <2>1. CASE j = k
      <3>1. ~th[k].auth
        BY <2>0, <2>1, <1>4 DEF Outside
      <3> QED BY <3>1, <2>0, <2>1, <1>1, <1>6, <1>9, <1>10, <1>12 DEF Outside, Busy
    <2>2. CASE j # k
      BY <2>0, <2>2, <1>1, <1>9, <1>10 DEF Outside, Busy
    <2> QED BY <2>1, <2>2
  <1> QED BY <1>14, <1>15, <1>16, <1>17, <1>18, IInvPrime DEF SafeInv

-----------------------------------------------------------------------------
(* The invariant, and what it gives *)

LEMMA InitInv == Init => IInv
  <1> SUFFICES ASSUME Init PROVE IInv
    OBVIOUS
  <1>1. /\ \A by \in Clients \cup {Owner} : Original(by) \in Seq(Blocks)
        /\ <<>> \in Seq(Blocks) /\ <<>> \in Seq(Message)
    <2>1. ASSUME NEW by \in Clients \cup {Owner} PROVE Original(by) \in Seq(Blocks)
      <3>1. FileBlocks \in Nat /\ FileBlocks <= MaxBlocks /\ MaxBlocks \in Nat
        BY FtpAssumption
      <3>2. \A i \in 1..FileBlocks : Block(by, i) \in Blocks
        BY <3>1 DEF Block, Blocks
      <3> QED BY <3>1, <3>2 DEF Original
    <2> QED BY <2>1
  <1>2. NoMessage \in Message /\ NoMessage.type = "none"
    BY MessagesTyped DEF NoMessage
  <1>3. DirTyped
    BY <1>1, FtpAssumption DEF Init, DirTyped
  <1>4. ThreadsTyped
    BY <1>2 DEF Init, ThreadsTyped, ThreadType, ThreadPc, Name
  <1>5. ClientsTyped
    <2>1. 0 \in 0..MaxOpens
      BY FtpAssumption
    <2>2. \A c \in Clients : [f \in Files |-> Original(c)] \in [Files -> Seq(Blocks)]
      BY <1>1
    <2>3. \A c \in Clients :
            [pc |-> "prompt", sock |-> NoConn, connected |-> FALSE, authenticated |-> FALSE,
             reply |-> NoMessage, name |-> "", pos |-> 0, own |-> [f \in Files |-> Original(c)]]
              \in ClientType
      BY <2>2, <1>2 DEF ClientType, ClientPc, Name
    <2>4. cl \in [Clients -> ClientType]
      BY <2>3 DEF Init
    <2>5. used \in [Clients -> 0..MaxOpens]
      BY <2>1 DEF Init
    <2> QED BY <2>4, <2>5 DEF ClientsTyped, ClientType
  <1>6. MailTyped /\ SetsTyped
    <2>1. 0 \in 0..MaxCommands
      BY FtpAssumption
    <2>2. given \in [Clients -> 0..MaxCommands]
      BY <2>1 DEF Init
    <2> QED BY <1>1, <2>2 DEF Init, MailTyped, SetsTyped
  <1>7. Sockets
    BY ConnFacts DEF Init, Sockets, Sock, ReplyTypes
  <1>8. Threads
    BY <1>2 DEF Init, Threads
  <1>9. AuthInStep
    BY ConnFacts DEF Init, AuthInStep, Sock
  <1>10. LoginFirst
    BY EmptyHas DEF Init, LoginFirst, Outside, Busy
  <1> QED BY <1>3, <1>4, <1>5, <1>6, <1>7, <1>8, <1>9, <1>10, TypeParts DEF IInv, SafeInv

LEMMA StepInv == IInv /\ [Next]_vars => IInv'
  <1> SUFFICES ASSUME IInv, [Next]_vars PROVE IInv'
    OBVIOUS
  <1>1. ASSUME NEW k \in Conn, ThreadStep(k) PROVE IInv'
    BY <1>1, RequestInv, FileRequestInv, PutInv DEF ThreadStep
  <1>2. ASSUME NEW c \in Clients, UserStep(c) PROVE IInv'
    BY <1>2, OpenInv, EndingInv, LocalInv, AskInv DEF UserStep
  <1>3. ASSUME NEW c \in Clients, ClientStep(c) PROVE IInv'
    BY <1>3, ReplyInv, AuthReplyInv, EndingInv, TransferInv DEF ClientStep
  <1>4. CASE UNCHANGED vars
    <2>1. TypeOK'
      BY <1>4 DEF IInv, TypeOK, vars, dirVars, wire, bounds
    <2>2. SafeInv'
      BY <1>4 DEF IInv, SafeInv, Sockets, Threads, AuthInStep, LoginFirst, InStep, AuthAsked,
                  AuthAnswered, Outside, Busy, Sock, OwnConns, vars, dirVars, wire, bounds
    <2> QED BY <2>1, <2>2 DEF IInv
  <1> QED BY <1>1, <1>2, <1>3, <1>4 DEF Next

LEMMA Invariance == Spec => []IInv
  BY InitInv, StepInv, PTL DEF Spec

\* The server, its threads, the clients, the messages on their way and the
\* files keep their types; a file only has blocks that some file had, or a hole.
THEOREM TypeCorrect == Spec => []TypeOK
  <1>1. IInv => TypeOK
    BY DEF IInv
  <1> QED BY <1>1, Invariance, PTL

\* No thread reads or writes filedir, or has a listing or file data under way,
\* for a connection whose user did not log in, or was refused since: the
\* checks of authenticated in the server's thread suffice.
THEOREM LoginNeeded == Spec => []NoFileWithoutLogin
  <1>1. IInv => NoFileWithoutLogin
    <2> SUFFICES ASSUME IInv, NEW k \in Conn, k \notin login,
                        \/ th[k].pc \in {"getdata", "putopen", "putdata"}
                        \/ \E i \in DOMAIN toCli[k] :
                              toCli[k][i].type \in {"LIST_REPLY", "DATA", "END"}
                 PROVE  FALSE
      BY DEF NoFileWithoutLogin
    <2>1. Outside(k)
      BY DEF IInv, SafeInv, LoginFirst
    <2>2. toCli[k] \in Seq(Message)
      BY DEF IInv, TypeOK
    <2>3. DOMAIN toCli[k] = 1..Len(toCli[k])
      BY <2>2
    <2> QED BY <2>1, <2>3 DEF Outside, Busy, Has
  <1> QED BY <1>1, Invariance, PTL

-----------------------------------------------------------------------------
(* What ends the server *)

\* PUT names a file, unless its thread only repeats it for a client that is
\* gone; a server that ended did so over such a client, or over a file it could
\* not open.
NamesFile(m) == m.type = "PUT" => m.name \in Files
Puts(t) == t.auth /\ t.last.type = "PUT" /\ t.last.name = t.name
PutsKnown ==
    /\ \A k \in Conn : \A i \in 1..Len(toSrv[k]) : NamesFile(toSrv[k][i])
    /\ \A k \in Conn :
          th[k].pc = "putopen" => Puts(th[k]) /\ (th[k].name \in Files \/ k \in closed)
    /\ ServerEndsOnlyByLoss

\* A step of thread k keeps that, if it goes on as t or ends the server over a
\* client that is gone or a file it cannot open.
LEMMA ThreadKeepsPuts ==
  ASSUME IInv, PutsKnown, NEW k \in Conn, NEW t, Consumes(k), closed' = closed,
         \/ server' = server /\ th' = [th EXCEPT ![k] = t]
         \/ ServerEnds /\ (k \in closed \/ (Puts(th[k]) /\ th[k].name \in Unwritable)),
         t.pc = "putopen" => Puts(t) /\ (t.name \in Files \/ k \in closed),
         th[k].pc # "ended"
  PROVE  PutsKnown'
  <1>0. MailTyped /\ ThreadsTyped /\ Threads
    BY TypeParts DEF IInv, SafeInv
  <1>1. ASSUME NEW j \in Conn, NEW i \in 1..Len(toSrv'[j]) PROVE NamesFile(toSrv'[j][i])
    <2>1. CASE toSrv'[j] = toSrv[j]
      BY <2>1, <1>1 DEF PutsKnown
    <2>2. CASE toSrv'[j] # toSrv[j]
      <3>1. toSrv[j] # <<>> /\ toSrv'[j] = Tail(toSrv[j]) /\ toSrv[j] \in Seq(Message)
        BY <1>0, <2>2 DEF Consumes, MailTyped
      <3>2. i + 1 \in 1..Len(toSrv[j]) /\ toSrv'[j][i] = toSrv[j][i + 1]
        BY <3>1, <1>1
      <3> QED BY <3>2 DEF PutsKnown
    <2> QED BY <2>1, <2>2
  <1>2. CASE server' = server /\ th' = [th EXCEPT ![k] = t]
    <2>1. server
      BY <1>0 DEF Threads
    <2>2. \A j \in Conn : th'[j] = th[j] \/ (j = k /\ th'[j] = t)
      BY <1>0, <1>2 DEF ThreadsTyped
    <2> QED BY <1>1, <1>2, <2>1, <2>2 DEF PutsKnown, ServerEndsOnlyByLoss
  <1>3. CASE ServerEnds /\ (k \in closed \/ (Puts(th[k]) /\ th[k].name \in Unwritable))
    <2>1. \A j \in Conn : /\ th'[j].pc = "ended"
                            /\ th'[j].last = th[j].last /\ th'[j].auth = th[j].auth
      BY <1>0, <1>3 DEF ServerEnds, ThreadsTyped, ThreadType
    <2>2. th'[k].last.type # "QUIT"
      BY <1>0, <2>1 DEF Threads
    <2>3. k \in closed' \/ FailedPut'
      BY <1>3, <2>1 DEF Puts, FailedPut
    <2> QED BY <1>1, <2>1, <2>2, <2>3 DEF PutsKnown, ServerEndsOnlyByLoss
  <1> QED BY <1>2, <1>3

LEMMA ThreadPuts ==
  ASSUME IInv, PutsKnown, NEW k \in Conn, ThreadStep(k)
  PROVE  PutsKnown'
  <1>0. MailTyped /\ ThreadsTyped /\ th[k] \in ThreadType
    BY TypeParts DEF IInv, ThreadsTyped
  <1>1. ASSUME NEW t, NEW m, Answer(k, t, m), Consumes(k), th[k].pc # "ended",
               t.pc = "putopen" => Puts(t) /\ (t.name \in Files \/ k \in closed)
        PROVE  PutsKnown'
    BY <1>1, ThreadKeepsPuts DEF Answer
  <1>2. ASSUME NEW type, NEW t, NEW m, Receives(k, type), Answer(k, t, m),
               t.pc = "putopen" => Puts(t) /\ (t.name \in Files \/ k \in closed)
        PROVE  PutsKnown'
    <2>1. Consumes(k) /\ th[k].pc = "recv"
      BY <1>2, RequestFacts
    <2> QED BY <1>1, <1>2, <2>1
  <1>t. ASSUME NEW type, Receives(k, type)
        PROVE  Thread(k) \in ThreadType /\ Thread(k).pc = "recv"
    BY <1>t, RequestFacts
  <1>3. CASE HandleOpen(k) \/ HandleRefused(k) \/ HandleList(k)
    BY <1>3, <1>2, <1>t DEF HandleOpen, HandleRefused, HandleList
  <1>4. CASE HandleAuth(k)
    <2> DEFINE t == [Thread(k) EXCEPT !.auth = Request(k).ok]
    <2>1. Receives(k, "AUTH") /\ Answer(k, t, Status("AUTH_REPLY", Request(k).ok))
      BY <1>4 DEF HandleAuth
    <2>2. t.pc = "recv"
      BY <2>1, <1>t DEF ThreadType
    <2> HIDE DEF t
    <2> QED BY <2>1, <2>2, <1>2
  <1>5. CASE HandleQuit(k)
    <2> DEFINE t == [Thread(k) EXCEPT !.pc = "ended"]
    <2>1. Receives(k, "QUIT") /\ Answer(k, t, Plain("QUIT_REPLY"))
      BY <1>5 DEF HandleQuit
    <2>2. t.pc = "ended"
      BY <2>1, <1>t DEF ThreadType
    <2> HIDE DEF t
    <2> QED BY <2>1, <2>2, <1>2
  <1>6. CASE HandleGet(k)
    <2> DEFINE f == Request(k).name
               found == f \in present \cup {Directory}
               t == IF found THEN [Thread(k) EXCEPT !.pc = "getdata", !.name = f, !.pos = 0]
                             ELSE Thread(k)
    <2>1. Receives(k, "GET") /\ Answer(k, t, Status("GET_REPLY", found))
      BY <1>6 DEF HandleGet
    <2>2. t.pc \in {"getdata", "recv"}
      BY <2>1, <1>t DEF ThreadType
    <2> HIDE DEF t
    <2> QED BY <2>1, <2>2, <1>2
  <1>7. CASE HandlePut(k)
    <2> DEFINE t == [Thread(k) EXCEPT !.pc = "putopen", !.name = Request(k).name]
    <2>1. Receives(k, "PUT") /\ Answer(k, t, Plain("PUT_REPLY"))
      BY <1>7 DEF HandlePut
    <2>2. t.name = Request(k).name
      BY <2>1, <1>t DEF ThreadType
    <2>p. Puts(t)
      <3>1. th[k].auth /\ Request(k).type = "PUT"
        BY <1>7, <2>1 DEF HandlePut, Receives
      <3>2. Thread(k).last = Request(k) /\ Thread(k).auth = th[k].auth
        BY <1>0 DEF Thread, ThreadType
      <3>3. t.last = Request(k) /\ t.auth = th[k].auth
        BY <3>2, <2>1, <1>t DEF ThreadType
      <3> QED BY <2>2, <3>1, <3>3 DEF Puts
    <2>3. Request(k).name \in Files \/ k \in closed
      <3>1. CASE toSrv[k] # <<>>
        <4>1. 1 \in 1..Len(toSrv[k]) /\ Request(k) = toSrv[k][1] /\ Request(k).type = "PUT"
          BY <3>1, <1>0, <2>1 DEF Request, MailTyped, Receives
        <4> QED BY <4>1 DEF PutsKnown, NamesFile
      <3>2. CASE toSrv[k] = <<>>
        BY <3>2, <2>1 DEF Receives
      <3> QED BY <3>1, <3>2
    <2> HIDE DEF t
    <2> QED BY <2>1, <2>2, <2>p, <2>3, <1>2
  <1>8. CASE SendBlock(k)
    <2>1. th[k].pc = "getdata" /\ Consumes(k)
      BY <1>8 DEF SendBlock, Consumes
    <2>2. PICK t, m : Answer(k, t, m) /\ t.pc \in {"getdata", "recv"}
      <3> DEFINE contents == IF th[k].name \in Files THEN filedir[th[k].name] ELSE <<>>
                 i == th[k].pos + 1
      <3>1. \/ Answer(k, [th[k] EXCEPT !.pos = i], Data(contents[i]))
            \/ Answer(k, [th[k] EXCEPT !.pc = "recv"], Plain("END"))
        BY <1>8 DEF SendBlock
      <3>2. /\ [th[k] EXCEPT !.pos = i].pc = "getdata"
            /\ [th[k] EXCEPT !.pc = "recv"].pc = "recv"
        BY <1>0, <2>1 DEF ThreadType
      <3> QED BY <3>1, <3>2
    <2> QED BY <2>1, <2>2, <1>1
  <1>9. CASE OpenForPut(k) \/ RecvBlock(k) \/ RecvNothing(k) \/ HandleUnknown(k)
    <2> SUFFICES \E t : /\ Consumes(k) /\ closed' = closed /\ th[k].pc # "ended"
                         /\ \/ server' = server /\ th' = [th EXCEPT ![k] = t]
                            \/ ServerEnds /\ k \in closed
                         /\ t.pc # "putopen"
      BY ThreadKeepsPuts
    <2>1. CASE OpenForPut(k)
      <3> DEFINE t == [th[k] EXCEPT !.pc = "putdata", !.pos = 0, !.data = NoMessage]
      <3>1. th' = [th EXCEPT ![k] = t] /\ t.pc = "putdata"
        BY <2>1, <1>0 DEF OpenForPut, ThreadsTyped, ThreadType
      <3> HIDE DEF t
      <3> QED BY <2>1, <3>1 DEF OpenForPut, wire, Consumes
    <2>b. ASSUME NEW m, th[k].pc = "putdata", StoreBlock(k, m)
          PROVE  LET t == [th[k] EXCEPT !.pos = th[k].pos + 1, !.data = m] IN
                 th' = [th EXCEPT ![k] = t] /\ t.pc = "putdata" /\ server' = server
      BY <2>b, <1>0 DEF StoreBlock, ThreadsTyped, ThreadType
    <2>r. ASSUME th' = [th EXCEPT ![k].pc = "recv"]
          PROVE  LET t == [th[k] EXCEPT !.pc = "recv"] IN
                 th' = [th EXCEPT ![k] = t] /\ t.pc = "recv"
      BY <2>r, <1>0 DEF ThreadsTyped, ThreadType
    <2>2. CASE RecvBlock(k)
      <3>1. th[k].pc = "putdata" /\ closed' = closed /\ Consumes(k)
        BY <2>2 DEF RecvBlock, Consumes
      <3>2. CASE StoreBlock(k, Head(toSrv[k]))
        BY <3>1, <3>2, <2>b
      <3>3. CASE th' = [th EXCEPT ![k].pc = "recv"] /\ server' = server
        BY <3>1, <3>3, <2>r
      <3> QED BY <2>2, <3>2, <3>3 DEF RecvBlock
    <2>3. CASE RecvNothing(k)
      <3>1. th[k].pc = "putdata" /\ closed' = closed /\ Consumes(k) /\ k \in closed
        BY <2>3 DEF RecvNothing, Consumes, wire
      <3>2. CASE StoreBlock(k, th[k].data)
        BY <3>1, <3>2, <2>b
      <3>3. CASE th' = [th EXCEPT ![k].pc = "recv"] /\ server' = server
        BY <3>1, <3>3, <2>r
      <3>4. CASE ServerEnds
        <4> WITNESS [pc |-> "ended"]
        <4> QED BY <3>1, <3>4
      <3> QED BY <2>3, <3>2, <3>3, <3>4 DEF RecvNothing
    <2>4. CASE HandleUnknown(k)
      <3> DEFINE t == [Thread(k) EXCEPT !.pc = "left"]
      <3>1. PICK type : Receives(k, type)
        BY <2>4 DEF HandleUnknown
      <3>2. t.pc = "left" /\ Consumes(k) /\ th[k].pc = "recv"
        BY <3>1, RequestFacts DEF ThreadType
      <3>3. th' = [th EXCEPT ![k] = t] /\ server' = server /\ closed' = closed
        BY <2>4 DEF HandleUnknown
      <3> HIDE DEF t
      <3> QED BY <3>2, <3>3
    <2> QED BY <1>9, <2>1, <2>2, <2>3, <2>4
  <1>10. CASE OpenForPutFails(k)
    <2>1. th[k].pc = "putopen" /\ ServerEnds /\ closed' = closed /\ Consumes(k)
      BY <1>10 DEF OpenForPutFails, wire, Consumes
    <2>2. k \in closed \/ (Puts(th[k]) /\ th[k].name \in Unwritable)
      BY <1>10, <2>1 DEF OpenForPutFails, PutsKnown
    <2> DEFINE t == [pc |-> "ended"]
    <2>3. t.pc # "putopen"
      OBVIOUS
    <2> HIDE DEF t
    <2> QED BY <2>1, <2>2, <2>3, ThreadKeepsPuts
  <1> QED BY <1>3, <1>4, <1>5, <1>6, <1>7, <1>8, <1>9, <1>10 DEF ThreadStep

\* A step of a client keeps it, if it sends nothing but m.
LEMMA ClientKeepsPuts ==
  ASSUME IInv, PutsKnown, NEW c \in Clients, NEW m, NamesFile(m),
         th' = th, server' = server, closed \subseteq closed',
         toSrv' = toSrv \/ toSrv' = [toSrv EXCEPT ![Sock(c)] = Append(@, m)]
  PROVE  PutsKnown'
  <1>1. toSrv \in [Conn -> Seq(Message)]
    BY TypeParts DEF IInv, MailTyped
  <1>2. ASSUME NEW j \in Conn, NEW i \in 1..Len(toSrv'[j]) PROVE NamesFile(toSrv'[j][i])
    <2>1. CASE toSrv'[j] = toSrv[j]
      BY <2>1, <1>2 DEF PutsKnown
    <2>2. CASE toSrv'[j] # toSrv[j]
      <3>1. toSrv'[j] = Append(toSrv[j], m) /\ toSrv[j] \in Seq(Message)
        BY <1>1, <2>2
      <3>2. toSrv'[j][i] = m \/ (i \in 1..Len(toSrv[j]) /\ toSrv'[j][i] = toSrv[j][i])
        BY <3>1, <1>2
      <3> QED BY <3>2 DEF PutsKnown
    <2> QED BY <2>1, <2>2
  <1> QED BY <1>2 DEF PutsKnown, ServerEndsOnlyByLoss, FailedPut

LEMMA ClientPuts ==
  ASSUME IInv, PutsKnown, NEW c \in Clients, UserStep(c) \/ ClientStep(c)
  PROVE  PutsKnown'
  <1>1. ASSUME th' = th, server' = server, toSrv' = toSrv, closed \subseteq closed'
        PROVE  PutsKnown'
    BY <1>1 DEF PutsKnown, ServerEndsOnlyByLoss, FailedPut
  <1>2. ASSUME NEW s, NEW m, Ask(c, s, m), th' = th, server' = server, NamesFile(m)
        PROVE  PutsKnown'
    <2>1. /\ closed \subseteq closed'
          /\ toSrv' = toSrv \/ toSrv' = [toSrv EXCEPT ![Sock(c)] = Append(@, m)]
      BY <1>2 DEF Ask, ClientEnds
    <2> QED BY <1>2, <2>1, ClientKeepsPuts
  <1>m. /\ \A good \in BOOLEAN : NamesFile(Auth(good))
        /\ \A type \in {"LIST", "QUIT", "END", "OPEN"} : NamesFile(Plain(type))
        /\ \A type \in {"GET", "PUT"}, f \in Files : NamesFile(Named(type, f))
        /\ \A b : NamesFile(Data(b))
    BY DEF NamesFile, Auth, Plain, Named, Data
  <1>3. CASE AuthCommand(c)
    BY <1>3, <1>2, <1>m DEF AuthCommand
  <1>4. CASE Ls(c)
    BY <1>4, <1>2, <1>m DEF Ls
  <1>5. CASE Get(c)
    BY <1>5, <1>2, <1>m DEF Get
  <1>6. CASE Put(c)
    BY <1>6, <1>2, <1>m DEF Put
  <1>7. CASE Upload(c)
    <2> DEFINE contents == cl[c].own[cl[c].name]
               i == cl[c].pos + 1
    <2>1. \/ Ask(c, [cl[c] EXCEPT !.pos = i], Data(contents[i]))
          \/ Ask(c, [cl[c] EXCEPT !.pc = "prompt"], Plain("END"))
      BY <1>7 DEF Upload
    <2>2. th' = th /\ server' = server
      BY <1>7 DEF Upload
    <2> QED BY <2>1, <2>2, <1>2, <1>m
  <1>8. CASE Quit(c)
    <2>1. th' = th /\ server' = server
      BY <1>8 DEF Quit
    <2>2. CASE cl[c].connected
      BY <1>8, <2>1, <2>2, <1>2, <1>m DEF Quit
    <2>3. CASE ~cl[c].connected
      BY <1>8, <2>1, <2>3, <1>1 DEF Quit, ClientEnds
    <2> QED BY <2>2, <2>3
  <1>9. CASE Usage(c) \/ SendForEver(c) \/ BadCommand(c) \/ OpenReply(c) \/ LsReply(c)
              \/ GetReply(c) \/ PutReply(c) \/ Download(c) \/ AuthReply(c)
    BY <1>9, <1>1 DEF Usage, SendForEver, BadCommand, OpenReply, LsReply, GetReply, PutReply,
                      Download, AuthReply, wire
  <1>10. CASE OpenRefused(c) \/ Kill(c) \/ QuitReply(c) \/ WrongHeader(c) \/ GetReplyMerged(c)
               \/ DownloadNothing(c)
    BY <1>10, <1>1 DEF OpenRefused, Kill, QuitReply, WrongHeader, GetReplyMerged, DownloadNothing,
                       ClientEnds
  <1>11. CASE Open(c)
    <2> DEFINE k == <<c, used[c] + 1>>
    <2>1. /\ th' = [th EXCEPT ![k].pc = "recv"] /\ toSrv' = [toSrv EXCEPT ![k] = <<Plain("OPEN")>>]
          /\ server' = server /\ closed' = closed /\ server
      BY <1>11 DEF Open
    <2>2. /\ th \in [Conn -> ThreadType] /\ toSrv \in [Conn -> Seq(Message)]
      BY TypeParts DEF IInv, ThreadsTyped, MailTyped
    <2> HIDE DEF k
    <2>3. ASSUME NEW j \in Conn
          PROVE  /\ th'[j] = th[j] \/ th'[j].pc = "recv"
                 /\ toSrv'[j] = toSrv[j] \/ toSrv'[j] = <<Plain("OPEN")>>
      BY <2>1, <2>2 DEF ThreadType
    <2>4. ASSUME NEW j \in Conn, NEW i \in 1..Len(toSrv'[j]) PROVE NamesFile(toSrv'[j][i])
      <3>1. CASE toSrv'[j] = toSrv[j]
        BY <3>1, <2>4 DEF PutsKnown
      <3>2. CASE toSrv'[j] = <<Plain("OPEN")>>
        <4>1. toSrv'[j][i] = Plain("OPEN")
          BY <3>2, <2>4
        <4> QED BY <4>1, <1>m
      <3> QED BY <3>1, <3>2, <2>3
    <2> QED BY <2>1, <2>3, <2>4 DEF PutsKnown, ServerEndsOnlyByLoss
  <1> QED BY <1>3, <1>4, <1>5, <1>6, <1>7, <1>8, <1>9, <1>10, <1>11 DEF UserStep, ClientStep

LEMMA PutsInvariance == Spec => []PutsKnown
  <1>1. Init => PutsKnown
    <2> SUFFICES ASSUME Init PROVE PutsKnown
      OBVIOUS
    <2>1. \A k \in Conn : toSrv[k] = <<>> /\ th[k].pc = "none"
      BY DEF Init
    <2>2. server
      BY DEF Init
    <2>3. \A k \in Conn : \A i \in 1..Len(toSrv[k]) : FALSE
      BY <2>1
    <2> QED BY <2>1, <2>2, <2>3 DEF PutsKnown, ServerEndsOnlyByLoss
  <1>2. IInv /\ PutsKnown /\ [Next]_vars => PutsKnown'
    <2> SUFFICES ASSUME IInv, PutsKnown, [Next]_vars PROVE PutsKnown'
      OBVIOUS
    <2>1. CASE UNCHANGED vars
      BY <2>1 DEF PutsKnown, ServerEndsOnlyByLoss, FailedPut, vars, wire
    <2> QED BY <2>1, ThreadPuts, ClientPuts DEF Next
  <1> QED BY <1>1, <1>2, Invariance, PTL DEF Spec

\* Whatever ends the server for all its clients, the exit() over a message it did
\* not expect or the SIGPIPE of send, needs a client that left without QUIT:
\* clients that live, or say QUIT, can only end it with the put of a file that
\* it cannot open.
THEOREM ServerEndsByLoss == Spec => []ServerEndsOnlyByLoss
  <1>1. PutsKnown => ServerEndsOnlyByLoss
    BY DEF PutsKnown
  <1> QED BY <1>1, PutsInvariance, PTL
=============================================================================
