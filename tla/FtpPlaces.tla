----------------------------- MODULE FtpPlaces -----------------------------
(***************************************************************************)
(* Proofs about the files MYFTP transfers, for any number of clients,      *)
(* connections, commands and files, and any length of the files: every     *)
(* block is stored at its own place in the file; and an only client's      *)
(* transfers over one connection leave whole files.                        *)
(***************************************************************************)
EXTENDS FtpInv, FtpProofs

-----------------------------------------------------------------------------
(* Messages on their way *)

LEMMA NothingSent ==
  /\ OnlyData(<<>>) /\ NoData(<<>>) /\ AllBlocks(<<>>) /\ ~HasEnd(<<>>)
  /\ RequestLast(<<>>) /\ OneReply(<<>>) /\ \A n : Numbered(<<>>, n)
  BY DEF OnlyData, NoData, AllBlocks, HasEnd, RequestLast, OneReply, Numbered

LEMMA Sent ==
  ASSUME NEW q \in Seq(Message), NEW m \in Message
  PROVE  /\ Append(q, m) \in Seq(Message) /\ Append(q, m) # <<>>
         /\ Len(Append(q, m)) = Len(q) + 1 /\ Len(q) \in Nat
         /\ OnlyData(Append(q, m)) <=> OnlyData(q) /\ m.type \in FileData
         /\ NoData(Append(q, m)) <=> NoData(q) /\ m.type \notin FileData
         /\ AllBlocks(Append(q, m)) <=> AllBlocks(q) /\ m.type = "DATA"
         /\ HasEnd(Append(q, m)) <=> HasEnd(q) \/ m.type = "END"
         /\ OnlyData(q) => RequestLast(Append(q, m)) /\ OneReply(Append(q, m))
         /\ OneReply(q) /\ m.type \in FileData => OneReply(Append(q, m))
  <1>1. /\ Append(q, m) \in Seq(Message) /\ Len(Append(q, m)) = Len(q) + 1 /\ Len(q) \in Nat
        /\ Append(q, m)[Len(q) + 1] = m
        /\ \A i \in 1..Len(q) : Append(q, m)[i] = q[i]
    OBVIOUS
  <1>2. \A i \in 1..Len(Append(q, m)) : i \in 1..Len(q) \/ i = Len(q) + 1
    BY <1>1
  <1>3. \A i \in 1..Len(q) : i \in 1..Len(Append(q, m))
    BY <1>1
  <1>4. Len(q) + 1 \in 1..Len(Append(q, m)) /\ Append(q, m) # <<>>
    BY <1>1
  <1>5. OnlyData(q) => RequestLast(Append(q, m)) /\ OneReply(Append(q, m))
    BY <1>1, <1>2 DEF OnlyData, RequestLast, OneReply
  <1>6. OneReply(q) /\ m.type \in FileData => OneReply(Append(q, m))
    BY <1>1, <1>2 DEF OneReply
  <1> QED BY <1>1, <1>2, <1>3, <1>4, <1>5, <1>6 DEF OnlyData, NoData, AllBlocks, HasEnd

LEMMA Received ==
  ASSUME NEW q \in Seq(Message), q # <<>>
  PROVE  /\ Tail(q) \in Seq(Message) /\ Head(q) \in Message /\ Head(q) = q[1]
         /\ Len(q) = Len(Tail(q)) + 1 /\ Len(Tail(q)) \in Nat /\ 1 \in 1..Len(q)
         /\ OnlyData(q) <=> Head(q).type \in FileData /\ OnlyData(Tail(q))
         /\ NoData(q) => Head(q).type \notin FileData /\ NoData(Tail(q))
         /\ AllBlocks(q) <=> Head(q).type = "DATA" /\ AllBlocks(Tail(q))
         /\ HasEnd(q) <=> Head(q).type = "END" \/ HasEnd(Tail(q))
         /\ RequestLast(q) => RequestLast(Tail(q))
         /\ RequestLast(q) /\ Head(q).type \notin FileData => Tail(q) = <<>>
         /\ OneReply(q) => OneReply(Tail(q))
         /\ OneReply(q) /\ Head(q).type \notin FileData => OnlyData(Tail(q))
         /\ \A i \in 1..Len(Tail(q)) : i + 1 \in 1..Len(q) /\ Tail(q)[i] = q[i + 1]
  <1>1. /\ Tail(q) \in Seq(Message) /\ Head(q) \in Message /\ Head(q) = q[1]
        /\ Len(q) = Len(Tail(q)) + 1 /\ Len(Tail(q)) \in Nat /\ 1 \in 1..Len(q)
        /\ \A i \in 1..Len(Tail(q)) : i + 1 \in 1..Len(q) /\ Tail(q)[i] = q[i + 1]
    OBVIOUS
  <1>2. \A i \in 1..Len(q) : i = 1 \/ (i - 1 \in 1..Len(Tail(q)) /\ q[i] = Tail(q)[i - 1])
    BY <1>1
  <1>3. \A p \in Seq(Message) : p = <<>> <=> Len(p) = 0
    OBVIOUS
  <1>4. OnlyData(q) <=> Head(q).type \in FileData /\ OnlyData(Tail(q))
    BY <1>1, <1>2 DEF OnlyData
  <1>5. NoData(q) => Head(q).type \notin FileData /\ NoData(Tail(q))
    BY <1>1 DEF NoData
  <1>6. AllBlocks(q) <=> Head(q).type = "DATA" /\ AllBlocks(Tail(q))
    BY <1>1, <1>2 DEF AllBlocks
  <1>7. HasEnd(q) <=> Head(q).type = "END" \/ HasEnd(Tail(q))
    BY <1>1, <1>2 DEF HasEnd
  <1>8. RequestLast(q) => RequestLast(Tail(q))
    <2> SUFFICES ASSUME RequestLast(q), NEW i \in 1..Len(Tail(q)), Tail(q)[i].type \notin FileData
                 PROVE  i = Len(Tail(q))
      BY DEF RequestLast
    <2>1. i + 1 \in 1..Len(q) /\ q[i + 1].type \notin FileData
      BY <1>1
    <2>2. i + 1 = Len(q)
      BY <2>1 DEF RequestLast
    <2> QED BY <2>2, <1>1
  <1>9. RequestLast(q) /\ Head(q).type \notin FileData => Len(Tail(q)) = 0
    <2>1. RequestLast(q) /\ q[1].type \notin FileData => 1 = Len(q)
      BY <1>1 DEF RequestLast
    <2> QED BY <2>1, <1>1
  <1>10. OneReply(q) => OneReply(Tail(q))
    BY <1>1 DEF OneReply
  <1>11. OneReply(q) /\ Head(q).type \notin FileData => OnlyData(Tail(q))
    <2> SUFFICES ASSUME OneReply(q), q[1].type \notin FileData, NEW i \in 1..Len(Tail(q))
                 PROVE  Tail(q)[i].type \in FileData
      BY <1>1 DEF OnlyData
    <2>1. i + 1 \in 1..Len(q) /\ Tail(q)[i] = q[i + 1] /\ i + 1 # 1
      BY <1>1
    <2> QED BY <2>1, <1>1 DEF OneReply
  <1> QED BY <1>1, <1>3, <1>4, <1>5, <1>6, <1>7, <1>8, <1>9, <1>10, <1>11

LEMMA NumberedSent ==
  ASSUME NEW q \in Seq(Message), NEW m \in Message, NEW n \in Nat, Numbered(q, n),
         AllBlocks(q) /\ m.type = "DATA" => AtPlace(m.block, n + Len(q) + 1)
  PROVE  Numbered(Append(q, m), n)
  <1> SUFFICES ASSUME NEW i \in 1..Len(Append(q, m)),
                      \A j \in 1..i : Append(q, m)[j].type = "DATA"
               PROVE  AtPlace(Append(q, m)[i].block, n + i)
    BY DEF Numbered
  <1>1. /\ Len(Append(q, m)) = Len(q) + 1 /\ Len(q) \in Nat
        /\ Append(q, m)[Len(q) + 1] = m
        /\ \A j \in 1..Len(q) : Append(q, m)[j] = q[j]
    OBVIOUS
  <1>2. CASE i \in 1..Len(q)
    <2>1. \A j \in 1..i : j \in 1..Len(q) /\ q[j].type = "DATA"
      BY <1>1, <1>2
    <2>2. AtPlace(q[i].block, n + i)
      BY <2>1, <1>2 DEF Numbered
    <2> QED BY <2>2, <1>1, <1>2
  <1>3. CASE i = Len(q) + 1
    <2>1. \A j \in 1..Len(q) : j \in 1..i /\ q[j].type = "DATA"
      BY <1>1, <1>3
    <2>2. m.type = "DATA" /\ Append(q, m)[i] = m
      BY <1>1, <1>3
    <2>3. n + Len(q) + 1 = n + i
      BY <1>1, <1>3
    <2> QED BY <2>1, <2>2, <2>3 DEF AllBlocks
  <1> QED BY <1>1, <1>2, <1>3

LEMMA NumberedReceived ==
  ASSUME NEW q \in Seq(Message), q # <<>>, NEW n \in Nat, Numbered(q, n), Head(q).type = "DATA"
  PROVE  AtPlace(Head(q).block, n + 1) /\ Numbered(Tail(q), n + 1)
  <1>1. /\ Head(q) = q[1] /\ 1 \in 1..Len(q)
        /\ \A i \in 1..Len(Tail(q)) : i + 1 \in 1..Len(q) /\ Tail(q)[i] = q[i + 1]
    BY Received
  <1>2. AtPlace(Head(q).block, n + 1)
    BY <1>1 DEF Numbered
  <1>3. ASSUME NEW i \in 1..Len(Tail(q)), \A j \in 1..i : Tail(q)[j].type = "DATA"
        PROVE  AtPlace(Tail(q)[i].block, n + 1 + i)
    <2>1. i + 1 \in 1..Len(q) /\ Tail(q)[i] = q[i + 1] /\ i \in Nat
      BY <1>1, <1>3
    <2>2. ASSUME NEW j \in 1..(i + 1) PROVE q[j].type = "DATA"
      <3>1. CASE j = 1
        BY <3>1, <1>1
      <3>2. CASE j # 1
        <4>1. j - 1 \in 1..i /\ j - 1 \in 1..Len(Tail(q)) /\ (j - 1) + 1 = j
          BY <3>2, <2>1, <2>2, <1>3, Received
        <4> QED BY <4>1, <1>1, <1>3
      <3> QED BY <3>1, <3>2
    <2>3. AtPlace(q[i + 1].block, n + (i + 1))
      BY <2>1, <2>2 DEF Numbered
    <2>4. n + (i + 1) = n + 1 + i
      BY <2>1
    <2> QED BY <2>1, <2>3, <2>4
  <1> QED BY <1>2, <1>3 DEF Numbered

-----------------------------------------------------------------------------
(* What the steps of a thread leave of the conversation *)

\* The thread of a connection nobody speaks on any more.
LEMMA EndedTalks ==
  ASSUME NEW t \in ThreadType, NEW u \in ThreadType, NEW q, NEW p, NEW r, NEW s, NEW S,
         u.pc = "ended", Talks(t, q, r, s, S)
  PROVE  Talks(u, p, r, s, S) /\ Serves(u, p, S) /\ \A up : Finishes(u, p, up)
  <1>1. u.pc # "getdata" /\ ~Takes(u)
    BY DEF Takes
  <1>2. Serves(u, p, S) /\ \A up : Finishes(u, p, up)
    BY <1>1 DEF Serves, Finishes
  <1>3. Downloads(u, r, s, S)
    BY <1>1 DEF Talks, Downloads, Follows
  <1>4. Uploads(u, p, s) /\ Ended(u, p, s) /\ Asked(u, p, s)
    BY <1>1 DEF Talks, Uploads, Ended, Asked
  <1>5. (Quiet(t, q, r) => Quiet(u, p, r)) /\ (Awaits(t, q, r) => Awaits(u, p, r))
        /\ (Opens(t, q, r) => Opens(u, p, r))
    BY DEF Quiet, Awaits, Opens
  <1> QED BY <1>2, <1>3, <1>4, <1>5 DEF Talks

\* A file has nothing to do with the thread before it opens it.
LEMMA NothingServed ==
  ASSUME NEW t \in ThreadType, NEW S, NEW up, t.pc # "putdata"
  PROVE  Serves(t, <<>>, S) /\ Finishes(t, <<>>, up)
  BY NothingSent DEF Serves, Finishes

\* What the thread does with a request.
TakesUp(u, m) ==
    \/ u.pc \in {"recv", "ended"}
    \/ m.type = "GET" /\ u.pc = "getdata" /\ u.name = m.name /\ u.pos = 0
    \/ m.type = "PUT" /\ u.pc = "putopen" /\ u.name = m.name

LEMMA RequestTalks ==
  ASSUME NEW t \in ThreadType, NEW u \in ThreadType, NEW q \in Seq(Message),
         NEW r \in Seq(Message), NEW s \in ClientType, NEW m \in Message, NEW S,
         t.pc = "recv", q # <<>>, Head(q).type \notin FileData, m.type \notin FileData,
         TakesUp(u, Head(q)), Serves(t, q, S), Talks(t, q, r, s, S)
  PROVE  Tail(q) = <<>> /\ Talks(u, <<>>, Append(r, m), s, S)
  <1>1. /\ Tail(q) = <<>> /\ ~OnlyData(q) /\ Head(q) = q[1] /\ 1 \in 1..Len(q)
        /\ t.pc # "ended"
    BY Received DEF Serves
  <1>2. s.pc \notin {"prompt", "download", "upload"}
    BY <1>1 DEF Talks, Quiet
  <1>3. s.pc \in ReplyTypes => OneReply(r) /\ OnlyData(r)
    BY <1>1 DEF Talks, Awaits
  <1>4. /\ Head(q).type = "GET" => s.pc = "GET_REPLY" /\ Head(q).name = s.name
        /\ Head(q).type = "PUT" => s.pc = "PUT_REPLY" /\ Head(q).name = s.name
    BY <1>1 DEF Talks, Asked
  <1>5. s.pc \in ReplyTypes => Awaits(u, <<>>, Append(r, m))
    BY <1>3, Sent, NothingSent DEF Awaits
  <1>6. s.pc = "OPEN_REPLY" => Opens(u, <<>>, Append(r, m))
    BY <1>4, Sent, NothingSent DEF Talks, Opens, TakesUp
  <1>7. Asked(u, <<>>, s)
    BY DEF Asked
  <1>8. Uploads(u, <<>>, s)
    <2>1. s.pc = "PUT_REPLY" => s.pos = 0
      BY DEF Talks, Uploads
    <2>2. Takes(u) => u.pc = "putopen" /\ u.name = s.name /\ s.pc = "PUT_REPLY" /\ Taken(u) = 0
      BY <1>4 DEF Takes, TakesUp, Taken
    <2>3. Len(<<>>) + 0 = 0
      OBVIOUS
    <2> QED BY <2>1, <2>2, <2>3, NothingSent DEF Uploads
  <1>9. Downloads(u, Append(r, m), s, S)
    <2>1. s.pc = "GET_REPLY" => s.name \in Files
      BY DEF Talks, Downloads
    <2>2. ASSUME s.pc = "GET_REPLY", Head(Append(r, m)).type = "GET_REPLY"
          PROVE  Follows(u, Tail(Append(r, m)), s.name, 0, S)
      <3>1. r = <<>>
        <4> SUFFICES ASSUME r # <<>> PROVE FALSE
          OBVIOUS
        <4>1. Head(Append(r, m)) = r[1] /\ 1 \in 1..Len(r)
          OBVIOUS
        <4> QED BY <4>1, <2>2, <1>3 DEF OnlyData, FileData, ReplyTypes
      <3>2. Tail(Append(r, m)) = <<>>
        BY <3>1
      <3>3. u.pc = "getdata" => u.name = s.name /\ u.pos = 0 + Len(<<>>)
        BY <1>4 DEF TakesUp
      <3> QED BY <3>2, <3>3, NothingSent DEF Follows
    <2> QED BY <1>2, <2>1, <2>2 DEF Downloads
  <1>10. Ended(u, <<>>, s)
    BY <1>2, <1>4 DEF Ended, Takes, TakesUp
  <1> QED BY <1>1, <1>2, <1>5, <1>6, <1>7, <1>8, <1>9, <1>10 DEF Talks

\* A thread that sends a file sends its next block, or the end.
LEMMA BlockTalks ==
  ASSUME NEW t \in ThreadType, NEW u \in ThreadType, NEW q \in Seq(Message),
         NEW r \in Seq(Message), NEW s \in ClientType, NEW m \in Message, NEW S,
         t.pc = "getdata", Talks(t, q, r, s, S),
         \/ m.type = "END" /\ u.pc = "recv"
         \/ /\ m.type = "DATA" /\ u.pc = "getdata" /\ u.name = t.name /\ u.pos = t.pos + 1
            /\ t.name \in Files /\ t.name \notin S => AtPlace(m.block, t.pos + 1)
  PROVE  Talks(u, q, Append(r, m), s, S)
  <1>1. m.type \in FileData /\ ~Takes(u) /\ u.pc \notin {"ended", "putdata"} /\ t.pos \in Nat
    BY DEF FileData, Takes, ThreadType
  <1>2. Quiet(t, q, r) => Quiet(u, q, Append(r, m))
    BY <1>1, Sent DEF Quiet
  <1>3. Awaits(t, q, r) => Awaits(u, q, Append(r, m))
    BY <1>1, Sent DEF Awaits
  <1>4. s.pc # "OPEN_REPLY"
    BY DEF Talks, Opens
  <1>5. Asked(u, q, s)
    BY DEF Talks, Asked
  <1>6. Uploads(u, q, s) /\ Ended(u, q, s)
    BY <1>1 DEF Talks, Uploads, Ended
  <1>7. ASSUME NEW n \in Nat, NEW p \in Seq(Message), s.name \in Files,
               Follows(t, p, s.name, n, S)
        PROVE  Follows(u, Append(p, m), s.name, n, S)
    <2> SUFFICES ASSUME s.name \notin S
                 PROVE  /\ Numbered(Append(p, m), n)
                        /\ u.pc = "getdata" => /\ AllBlocks(Append(p, m)) /\ u.name = s.name
                                               /\ u.pos = n + Len(Append(p, m))
      BY DEF Follows
    <2>1. /\ Numbered(p, n) /\ AllBlocks(p) /\ t.name = s.name /\ t.pos = n + Len(p)
          /\ Len(p) \in Nat
      BY <1>7 DEF Follows
    <2>2. CASE m.type = "END" /\ u.pc = "recv"
      BY <2>1, <2>2, NumberedSent
    <2>3. CASE /\ m.type = "DATA" /\ u.pc = "getdata" /\ u.name = t.name /\ u.pos = t.pos + 1
               /\ t.name \in Files /\ t.name \notin S => AtPlace(m.block, t.pos + 1)
      <3>1. t.pos + 1 = n + Len(p) + 1 /\ Len(Append(p, m)) = Len(p) + 1
        BY <2>1
      <3>2. AtPlace(m.block, n + Len(p) + 1)
        BY <2>1, <2>3, <3>1, <1>7
      <3>3. Numbered(Append(p, m), n)
        BY <2>1, <3>2, NumberedSent
      <3>4. AllBlocks(Append(p, m))
        BY <2>1, <2>3, Sent
      <3>5. u.pos = n + Len(Append(p, m))
        BY <2>1, <2>3, <3>1
      <3> QED BY <2>1, <2>3, <3>3, <3>4, <3>5
    <2> QED BY <2>2, <2>3
  <1>8. Downloads(u, Append(r, m), s, S)
    <2>1. s.pc \in {"GET_REPLY", "download"} => s.name \in Files
      BY DEF Talks, Downloads
    <2>2. ASSUME s.pc = "download" PROVE Follows(u, Append(r, m), s.name, Len(s.own[s.name]), S)
      <3>1. s.own[s.name] \in Seq(Blocks)
        BY <2>1, <2>2 DEF ClientType
      <3>2. Len(s.own[s.name]) \in Nat
        BY <3>1
      <3> QED BY <2>1, <2>2, <3>2, <1>7 DEF Talks, Downloads
    <2>3. ASSUME s.pc = "GET_REPLY", Head(Append(r, m)).type = "GET_REPLY"
          PROVE  Follows(u, Tail(Append(r, m)), s.name, 0, S)
      <3>1. r # <<>>
        <4>1. Head(Append(<<>>, m)) = m
          OBVIOUS
        <4> QED BY <4>1, <2>3, <1>1 DEF FileData
      <3>2. Head(Append(r, m)) = Head(r) /\ Tail(Append(r, m)) = Append(Tail(r), m)
            /\ Tail(r) \in Seq(Message)
        BY <3>1
      <3>3. Follows(t, Tail(r), s.name, 0, S)
        BY <2>3, <3>1, <3>2 DEF Talks, Downloads
      <3> QED BY <2>1, <2>3, <3>2, <3>3, <1>7
    <2> QED BY <2>1, <2>2, <2>3 DEF Downloads
  <1> QED BY <1>2, <1>3, <1>4, <1>5, <1>6, <1>8 DEF Talks

\* A thread that opens the file it is sent.
LEMMA OpenTalks ==
  ASSUME NEW t \in ThreadType, NEW u \in ThreadType, NEW q \in Seq(Message),
         NEW r \in Seq(Message), NEW s, NEW S,
         t.pc = "putopen", u.pc = "putdata", u.name = t.name, u.pos = 0
  PROVE  /\ Talks(t, q, r, s, S) => Talks(u, q, r, s, S)
         /\ Serves(t, q, S) /\ t.name \in Files => Serves(u, q, S)
         /\ u.data = NoMessage => \A up : Finishes(t, q, up) => Finishes(u, q, up)
  <1>1. Takes(t) /\ Takes(u) /\ Taken(t) = 0 /\ Taken(u) = 0
    BY DEF Takes, Taken
  <1>2. Talks(t, q, r, s, S) => Talks(u, q, r, s, S)
    <2> SUFFICES ASSUME Talks(t, q, r, s, S) PROVE Talks(u, q, r, s, S)
      OBVIOUS
    <2>1. Downloads(u, r, s, S)
      BY DEF Talks, Downloads, Follows
    <2>2. Uploads(u, q, s)
      BY <1>1 DEF Talks, Uploads
    <2>3. Ended(u, q, s) /\ Asked(u, q, s)
      BY <1>1 DEF Talks, Ended, Asked
    <2>4. s.pc # "OPEN_REPLY"
      BY DEF Talks, Opens
    <2>5. (Quiet(t, q, r) => Quiet(u, q, r)) /\ (Awaits(t, q, r) => Awaits(u, q, r))
      BY DEF Quiet, Awaits
    <2> QED BY <2>1, <2>2, <2>3, <2>4, <2>5 DEF Talks
  <1>3. Serves(t, q, S) /\ t.name \in Files => Serves(u, q, S)
    BY <1>1 DEF Serves
  <1>4. u.data = NoMessage => \A up : Finishes(t, q, up) => Finishes(u, q, up)
    BY <1>1 DEF Finishes
  <1> QED BY <1>2, <1>3, <1>4

\* A thread takes a message that is part of a file.
LEMMA DataTalks ==
  ASSUME NEW t \in ThreadType, NEW u \in ThreadType, NEW q \in Seq(Message),
         NEW r \in Seq(Message), NEW s, NEW S,
         q # <<>>, Head(q).type \in FileData, t.pc \in {"recv", "putdata"},
         \/ u.pc \in {"recv", "left"}
         \/ /\ t.pc = "putdata" /\ Head(q).type = "DATA"
            /\ u.pc = "putdata" /\ u.name = t.name /\ u.pos = t.pos + 1
  PROVE  /\ Talks(t, q, r, s, S) => Talks(u, Tail(q), r, s, S)
         /\ Serves(t, q, S) => Serves(u, Tail(q), S)
         /\ \A up : Finishes(t, q, up) => Finishes(u, Tail(q), up)
  <1>1. /\ Tail(q) \in Seq(Message) /\ t.pc # "ended" /\ u.pc \notin {"ended", "getdata", "putopen"}
        /\ (OnlyData(q) <=> OnlyData(Tail(q))) /\ ~NoData(q)
        /\ Len(q) = Len(Tail(q)) + 1 /\ Len(Tail(q)) \in Nat
        /\ t.pos \in Nat
    BY Received DEF ThreadType
  <1>2. Takes(u) => /\ u.pc = "putdata" /\ Takes(t) /\ Taken(t) = t.pos /\ Taken(u) = t.pos + 1
                    /\ Head(q).type = "DATA" /\ u.name = t.name
    BY <1>1 DEF Takes, Taken
  <1>3. Takes(u) => (HasEnd(q) => HasEnd(Tail(q))) /\ (AllBlocks(q) => AllBlocks(Tail(q)))
    BY <1>2, Received
  <1>4. Talks(t, q, r, s, S) => Talks(u, Tail(q), r, s, S)
    <2> SUFFICES ASSUME Talks(t, q, r, s, S) PROVE Talks(u, Tail(q), r, s, S)
      OBVIOUS
    <2>1. Downloads(u, r, s, S)
      BY <1>1 DEF Talks, Downloads, Follows
    <2>2. Uploads(u, Tail(q), s)
      <3>1. s.pc = "PUT_REPLY" => s.pos = 0
        BY DEF Talks, Uploads
      <3>2. ASSUME Takes(u), s.pc = "upload" \/ (s.pc = "PUT_REPLY" /\ OnlyData(Tail(q)))
            PROVE  AllBlocks(Tail(q)) /\ u.name = s.name /\ s.pos = Len(Tail(q)) + Taken(u)
        <4>1. AllBlocks(q) /\ t.name = s.name /\ s.pos = Len(q) + Taken(t)
          BY <3>2, <1>1, <1>2 DEF Talks, Uploads
        <4>2. s.pos = Len(Tail(q)) + Taken(u)
          BY <4>1, <3>2, <1>1, <1>2
        <4> QED BY <4>1, <4>2, <3>2, <1>2, <1>3
      <3> QED BY <3>1, <3>2 DEF Uploads
    <2>3. Ended(u, Tail(q), s)
      BY <1>2, <1>3 DEF Talks, Ended
    <2>4. Asked(u, Tail(q), s)
      <3>1. \A i \in 1..Len(Tail(q)) : i + 1 \in 1..Len(q) /\ Tail(q)[i] = q[i + 1]
        BY Received
      <3> QED BY <3>1, <1>1 DEF Talks, Asked
    <2>5. s.pc # "OPEN_REPLY"
      BY <1>1 DEF Talks, Opens
    <2>6. (Quiet(t, q, r) => Quiet(u, Tail(q), r)) /\ (Awaits(t, q, r) => Awaits(u, Tail(q), r))
      BY <1>1 DEF Quiet, Awaits
    <2> QED BY <2>1, <2>2, <2>3, <2>4, <2>5, <2>6 DEF Talks
  <1>5. Serves(t, q, S) => Serves(u, Tail(q), S)
    <2> SUFFICES ASSUME Serves(t, q, S) PROVE Serves(u, Tail(q), S)
      OBVIOUS
    <2>1. RequestLast(Tail(q))
      BY <1>1, Received DEF Serves
    <2>2. u.pc = "putdata" => u.name \in Files
      BY <1>1, <1>2 DEF Serves, Takes
    <2>3. ASSUME Takes(u), u.name \notin S PROVE Numbered(Tail(q), Taken(u))
      <3>1. Numbered(q, t.pos)
        BY <2>3, <1>1, <1>2 DEF Serves
      <3> QED BY <3>1, <2>3, <1>1, <1>2, NumberedReceived
    <2> QED BY <2>1, <2>2, <2>3 DEF Serves
  <1>6. \A up : Finishes(t, q, up) => Finishes(u, Tail(q), up)
    BY <1>2, <1>3 DEF Finishes
  <1> QED BY <1>4, <1>5, <1>6

-----------------------------------------------------------------------------
(* The files a lost client may have spoilt *)

\* What is spoilt once may be left out of all that is asked for.
LEMMA MoreSpoilt ==
  ASSUME NEW S, NEW T, S \subseteq T, NEW t, NEW q, NEW r, NEW s
  PROVE  /\ Talks(t, q, r, s, S) => Talks(t, q, r, s, T)
         /\ Serves(t, q, S) => Serves(t, q, T)
  <1>1. Downloads(t, r, s, S) => Downloads(t, r, s, T)
    BY DEF Downloads, Follows
  <1> QED BY <1>1 DEF Talks, Serves

LEMMA SpoiltGrows ==
  ASSUME server' => server, server' => \A k \in Conn : Runaway(k) => Runaway(k)' /\ th'[k].name = th[k].name
  PROVE  Spoilt \subseteq Spoilt'
  BY DEF Spoilt

\* A step of one thread, as the invariant sees it.
LEMMA ThreadFrame ==
  ASSUME IInv, PlaceInv, NEW k \in Conn, NEW u \in ThreadType, NEW p, NEW o,
         th' = [th EXCEPT ![k] = u], toSrv' = [toSrv EXCEPT ![k] = p],
         toCli' = [toCli EXCEPT ![k] = o],
         th[k].pc # "ended", server' = server, cl' = cl, closed' = closed, used' = used,
         Runaway(k) => u.pc = "putdata" /\ p = <<>> /\ u.name = th[k].name /\ u.data # NoMessage,
         \A f \in Files \ Spoilt : InPlace(filedir'[f]),
         Serves(u, p, Spoilt),
         k \notin closed => \A s \in ClientType :
             Talks(th[k], toSrv[k], toCli[k], s, Spoilt) => Talks(u, p, o, s, Spoilt),
         \A up : Finishes(th[k], toSrv[k], up) => Finishes(u, p, up)
  PROVE  PlaceInv'
  <1>0. ThreadsTyped /\ ClientsTyped /\ MailTyped
    BY TypeParts DEF IInv
  <1>1. /\ th'[k] = u /\ toSrv'[k] = p /\ toCli'[k] = o
        /\ \A j \in Conn : j # k => th'[j] = th[j] /\ toSrv'[j] = toSrv[j] /\ toCli'[j] = toCli[j]
    BY <1>0 DEF ThreadsTyped, MailTyped
  <1>2. Spoilt \subseteq Spoilt'
    <2>1. ASSUME NEW j \in Conn, Runaway(j) PROVE Runaway(j)' /\ th'[j].name = th[j].name
      BY <1>1, <2>1 DEF Runaway
    <2> QED BY <2>1, SpoiltGrows
  <1>3. Placed'
    <2>1. server
      BY DEF IInv, SafeInv, Threads
    <2> QED BY <2>1, <1>2 DEF PlaceInv, Placed, CutShort
  <1>4. ClosedSockets'
    BY DEF PlaceInv, ClosedSockets, Sock
  <1>5. Conversations'
    <2> SUFFICES ASSUME NEW c \in Clients, Live(c)
                 PROVE  Talks(th'[Sock(c)], toSrv'[Sock(c)], toCli'[Sock(c)], cl[c], Spoilt')
      BY DEF Conversations, Live, Sock
    <2>1. Talks(th[Sock(c)], toSrv[Sock(c)], toCli[Sock(c)], cl[c], Spoilt)
      BY DEF PlaceInv, Conversations
    <2>2. Sock(c) \in Conn /\ Sock(c) \notin closed /\ cl[c] \in ClientType
      BY <1>0 DEF Live, ClientsTyped, ClientType
    <2>3. Talks(th'[Sock(c)], toSrv'[Sock(c)], toCli'[Sock(c)], cl[c], Spoilt)
      BY <2>1, <2>2, <1>1
    <2> QED BY <2>3, <1>2, MoreSpoilt
  <1>6. Service'
    <2> SUFFICES ASSUME NEW j \in Conn PROVE Serves(th'[j], toSrv'[j], Spoilt')
      BY DEF Service
    <2>1. Serves(th'[j], toSrv'[j], Spoilt)
      BY <1>1 DEF PlaceInv, Service
    <2> QED BY <2>1, <1>2, MoreSpoilt
  <1>7. Finishing'
    <2> SUFFICES ASSUME ~Kills, NEW j \in Conn
                 PROVE  Finishes(th'[j], toSrv'[j], Uploading(j))
      BY DEF Finishing, Uploading
    <2>1. Finishes(th[j], toSrv[j], Uploading(j))
      BY DEF PlaceInv, Finishing
    <2> QED BY <2>1, <1>1
  <1> QED BY <1>3, <1>4, <1>5, <1>6, <1>7 DEF PlaceInv

\* All threads end together.
LEMMA EndFrame ==
  ASSUME IInv, PlaceInv, ServerEnds,
         filedir' = filedir, toCli' = toCli, cl' = cl, closed' = closed, used' = used
  PROVE  PlaceInv'
  <1>0. ThreadsTyped /\ ThreadsTyped' /\ server' = FALSE
    BY TypeParts, EndedTyped DEF IInv
  <1>1. \A j \in Conn : th[j] \in ThreadType /\ th'[j] \in ThreadType /\ th'[j].pc = "ended"
    BY <1>0 DEF ThreadsTyped, ThreadType, ServerEnds
  <1>2. Spoilt \subseteq Spoilt'
    BY <1>0, SpoiltGrows
  <1>3. Placed'
    <2>1. \A c \in Clients, f \in Files : CutShort(c, f) => CutShort(c, f)'
      BY <1>0 DEF CutShort, Sock
    <2> QED BY <2>1, <1>2 DEF PlaceInv, Placed
  <1>c. ClosedSockets'
    BY DEF PlaceInv, ClosedSockets, Sock
  <1>4. ASSUME NEW c \in Clients, Live(c)
        PROVE  Talks(th'[Sock(c)], toSrv'[Sock(c)], toCli'[Sock(c)], cl[c], Spoilt')
    <2>1. Talks(th[Sock(c)], toSrv[Sock(c)], toCli[Sock(c)], cl[c], Spoilt) /\ Sock(c) \in Conn
      BY <1>4 DEF PlaceInv, Conversations, Live
    <2>2. Talks(th'[Sock(c)], toSrv'[Sock(c)], toCli[Sock(c)], cl[c], Spoilt)
      BY <2>1, <1>1, EndedTalks
    <2> QED BY <2>2, <1>2, MoreSpoilt
  <1>5. Conversations'
    BY <1>4 DEF Conversations, Live, Sock
  <1>6. Service' /\ Finishing'
    BY <1>1 DEF Service, Serves, Finishing, Finishes, Takes
  <1> QED BY <1>3, <1>c, <1>5, <1>6 DEF PlaceInv

-----------------------------------------------------------------------------
(* The steps of a thread *)

LEMMA RequestPlaces ==
  ASSUME IInv, PlaceInv, NEW k \in Conn, NEW type, type \notin FileData, Receives(k, type),
         NEW u \in ThreadType, NEW m \in Message, m.type \notin FileData, Answer(k, u, m),
         TakesUp(u, Request(k)), filedir' = filedir, cl' = cl, used' = used
  PROVE  PlaceInv'
  <1>0. ThreadsTyped /\ MailTyped /\ th[k] \in ThreadType /\ toSrv[k] \in Seq(Message)
        /\ toCli[k] \in Seq(Message)
    BY TypeParts DEF IInv, ThreadsTyped, MailTyped
  <1>1. /\ Request(k).type = type /\ th[k].pc = "recv" /\ (toSrv[k] # <<>> \/ k \in closed)
        /\ toSrv[k] # <<>> => Request(k) = Head(toSrv[k])
    BY RequestFacts DEF Request
  <1>2. Serves(th[k], toSrv[k], Spoilt)
    BY DEF PlaceInv, Service
  <1>3. toSrv' = [toSrv EXCEPT ![k] = <<>>]
    <2>1. CASE toSrv[k] # <<>>
      <3>1. Tail(toSrv[k]) = <<>>
        BY <1>0, <1>1, <1>2, <2>1, Received DEF Serves
      <3> QED BY <3>1, <2>1 DEF Receives
    <2>2. CASE toSrv[k] = <<>>
      BY <2>2, <1>0 DEF Receives, MailTyped
    <2> QED BY <2>1, <2>2
  <1>4. u.pc # "putdata" /\ ~Runaway(k)
    BY <1>1 DEF TakesUp, Runaway
  <1>5. Serves(u, <<>>, Spoilt) /\ \A up : Finishes(u, <<>>, up)
    BY <1>4, NothingServed
  <1>6. \A f \in Files \ Spoilt : InPlace(filedir'[f])
    BY DEF PlaceInv, Placed
  <1>7. CASE k \notin closed /\ toCli' = [toCli EXCEPT ![k] = Append(@, m)]
             /\ th' = [th EXCEPT ![k] = u] /\ UNCHANGED <<server, closed, reset>>
    <2>1. ASSUME NEW s \in ClientType, Talks(th[k], toSrv[k], toCli[k], s, Spoilt)
          PROVE  Talks(u, <<>>, Append(toCli[k], m), s, Spoilt)
      <3>1. toSrv[k] # <<>> /\ Head(toSrv[k]).type \notin FileData /\ TakesUp(u, Head(toSrv[k]))
        BY <1>1, <1>7
      <3> QED BY <3>1, <2>1, <1>0, <1>1, <1>2, RequestTalks
    <2>2. toCli' = [toCli EXCEPT ![k] = Append(toCli[k], m)]
      BY <1>7
    <2> QED BY <2>1, <2>2, <1>1, <1>3, <1>4, <1>5, <1>6, <1>7, ThreadFrame
  <1>8. CASE k \in closed /\ toCli' = toCli /\ closed' = closed /\ server' = server
             /\ th' = [th EXCEPT ![k] = u]
    <2>1. toCli' = [toCli EXCEPT ![k] = toCli[k]]
      BY <1>0, <1>8 DEF MailTyped
    <2> QED BY <2>1, <1>1, <1>3, <1>4, <1>5, <1>6, <1>8, ThreadFrame
  <1>9. CASE ServerEnds /\ UNCHANGED <<closed, reset, toCli>>
    BY <1>9, EndFrame
  <1> QED BY <1>7, <1>8, <1>9 DEF Answer

\* Requests that are answered in one step.
LEMMA HandlerPlaces ==
  ASSUME IInv, PlaceInv, NEW k \in Conn,
         \/ HandleOpen(k) \/ HandleAuth(k) \/ HandleRefused(k) \/ HandleList(k)
         \/ HandleGet(k) \/ HandlePut(k) \/ HandleQuit(k)
  PROVE  PlaceInv'
  <1>d. DirTyped
    BY TypeParts DEF IInv
  <1>n. \A type \in RequestTypes \cup ReplyTypes \cup {"REFUSED"} : type \notin FileData
    BY DEF RequestTypes, ReplyTypes, FileData
  <1>t. ASSUME NEW type, Receives(k, type)
        PROVE  /\ Thread(k) \in ThreadType /\ Thread(k).pc = "recv" /\ Request(k) \in Message
               /\ Request(k).type = type
    BY <1>t, RequestFacts
  <1>u. ASSUME Thread(k) \in ThreadType, Thread(k).pc = "recv" PROVE TakesUp(Thread(k), Request(k))
    BY <1>u DEF TakesUp
  <1>1. CASE HandleOpen(k)
    <2>1. /\ Receives(k, "OPEN") /\ Answer(k, Thread(k), Plain("OPEN_REPLY"))
          /\ filedir' = filedir /\ cl' = cl /\ used' = used
      BY <1>1 DEF HandleOpen, dirVars, bounds
    <2>2. Plain("OPEN_REPLY") \in Message /\ Plain("OPEN_REPLY").type = "OPEN_REPLY"
      BY MessagesTyped DEF ReplyTypes
    <2>3. "OPEN" \notin FileData /\ "OPEN_REPLY" \notin FileData
      BY DEF FileData
    <2> QED BY <2>1, <2>2, <2>3, <1>t, <1>u, RequestPlaces
  <1>2. CASE HandleAuth(k)
    <2> DEFINE u == [Thread(k) EXCEPT !.auth = Request(k).ok]
               m == Status("AUTH_REPLY", Request(k).ok)
    <2>1. Receives(k, "AUTH") /\ Answer(k, u, m) /\ filedir' = filedir /\ cl' = cl /\ used' = used
      BY <1>2 DEF HandleAuth, dirVars, bounds
    <2>2. Request(k).ok \in BOOLEAN /\ Thread(k) \in ThreadType /\ Thread(k).pc = "recv"
      BY <2>1, <1>t DEF Message
    <2>3. u \in ThreadType /\ TakesUp(u, Request(k))
      BY <2>2 DEF ThreadType, TakesUp
    <2>4. m \in Message /\ m.type = "AUTH_REPLY"
      BY <2>2, MessagesTyped
    <2>5. "AUTH" \notin FileData /\ m.type \notin FileData
      BY <2>4 DEF FileData
    <2> HIDE DEF u, m
    <2> QED BY <2>1, <2>3, <2>4, <2>5, RequestPlaces
  <1>3. CASE HandleRefused(k)
    <2>1. PICK type \in {"LIST", "GET", "PUT"} : Receives(k, type)
      BY <1>3 DEF HandleRefused
    <2>2. PICK stale \in {"REFUSED", "PUT_REPLY"} : Answer(k, Thread(k), Plain(stale))
      BY <1>3 DEF HandleRefused
    <2>3. filedir' = filedir /\ cl' = cl /\ used' = used
      BY <1>3 DEF HandleRefused, dirVars, bounds
    <2>4. Plain(stale) \in Message /\ Plain(stale).type \notin FileData
      BY MessagesTyped, <1>n DEF ReplyTypes
    <2>5. type \notin FileData
      BY DEF FileData
    <2> QED BY <2>1, <2>2, <2>3, <2>4, <2>5, <1>t, <1>u, RequestPlaces
  <1>4. CASE HandleList(k)
    <2>1. /\ Receives(k, "LIST") /\ Answer(k, Thread(k), Plain("LIST_REPLY"))
          /\ filedir' = filedir /\ cl' = cl /\ used' = used
      BY <1>4 DEF HandleList, dirVars, bounds
    <2>2. Plain("LIST_REPLY") \in Message /\ Plain("LIST_REPLY").type = "LIST_REPLY"
      BY MessagesTyped DEF ReplyTypes
    <2>3. "LIST" \notin FileData /\ "LIST_REPLY" \notin FileData
      BY DEF FileData
    <2> QED BY <2>1, <2>2, <2>3, <1>t, <1>u, RequestPlaces
  <1>5. CASE HandleGet(k)
    <2> DEFINE f == Request(k).name
               found == f \in present \cup {Directory}
               u == IF found THEN [Thread(k) EXCEPT !.pc = "getdata", !.name = f, !.pos = 0]
                             ELSE Thread(k)
               m == Status("GET_REPLY", found)
    <2>1. Receives(k, "GET") /\ Answer(k, u, m) /\ filedir' = filedir /\ cl' = cl /\ used' = used
      BY <1>5 DEF HandleGet, dirVars, bounds
    <2>2. f \in Name /\ Thread(k) \in ThreadType /\ Thread(k).pc = "recv" /\ Request(k).type = "GET"
      BY <2>1, <1>t DEF Message
    <2>3. u \in ThreadType /\ TakesUp(u, Request(k))
      BY <2>2 DEF ThreadType, ThreadPc, TakesUp
    <2>4. m \in Message /\ m.type = "GET_REPLY"
      <3>1. found \in BOOLEAN
        OBVIOUS
      <3> HIDE DEF found
      <3> QED BY <3>1, MessagesTyped
    <2>5. "GET" \notin FileData /\ m.type \notin FileData
      BY <2>4 DEF FileData
    <2> HIDE DEF u, m
    <2> QED BY <2>1, <2>3, <2>4, <2>5, RequestPlaces
  <1>6. CASE HandlePut(k)
    <2> DEFINE u == [Thread(k) EXCEPT !.pc = "putopen", !.name = Request(k).name]
    <2>1. /\ Receives(k, "PUT") /\ Answer(k, u, Plain("PUT_REPLY"))
          /\ filedir' = filedir /\ cl' = cl /\ used' = used
      BY <1>6 DEF HandlePut, dirVars, bounds
    <2>2. /\ Request(k).name \in Name /\ Thread(k) \in ThreadType /\ Request(k).type = "PUT"
      BY <2>1, <1>t DEF Message
    <2>3. u \in ThreadType /\ TakesUp(u, Request(k))
      BY <2>2 DEF ThreadType, ThreadPc, TakesUp
    <2>4. Plain("PUT_REPLY") \in Message /\ Plain("PUT_REPLY").type = "PUT_REPLY"
      BY MessagesTyped DEF ReplyTypes
    <2>5. "PUT" \notin FileData /\ "PUT_REPLY" \notin FileData
      BY DEF FileData
    <2> HIDE DEF u
    <2> QED BY <2>1, <2>3, <2>4, <2>5, RequestPlaces
  <1>7. CASE HandleQuit(k)
    <2> DEFINE u == [Thread(k) EXCEPT !.pc = "ended"]
    <2>1. /\ Receives(k, "QUIT") /\ Answer(k, u, Plain("QUIT_REPLY"))
          /\ filedir' = filedir /\ cl' = cl /\ used' = used
      BY <1>7 DEF HandleQuit, dirVars, bounds
    <2>2. Thread(k) \in ThreadType
      BY <2>1, <1>t
    <2>3. u \in ThreadType /\ TakesUp(u, Request(k))
      BY <2>2 DEF ThreadType, ThreadPc, TakesUp
    <2>4. Plain("QUIT_REPLY") \in Message /\ Plain("QUIT_REPLY").type = "QUIT_REPLY"
      BY MessagesTyped DEF ReplyTypes
    <2>5. "QUIT" \notin FileData /\ "QUIT_REPLY" \notin FileData
      BY DEF FileData
    <2> HIDE DEF u
    <2> QED BY <2>1, <2>3, <2>4, <2>5, RequestPlaces
  <1> QED BY <1>1, <1>2, <1>3, <1>4, <1>5, <1>6, <1>7

\* A block that is written, or appended, at its place.
LEMMA PlacedBlocks ==
  ASSUME NEW contents \in Seq(Blocks), NEW b \in Blocks
  PROVE  /\ InPlace(<<>>)
         /\ InPlace(contents) => \A i \in 1..Len(contents) : AtPlace(contents[i], i)
         /\ InPlace(contents) => \A i \in Nat \ {0} :
               AtPlace(b, i) => InPlace(Written(contents, i, b))
         /\ InPlace(contents) /\ AtPlace(b, Len(contents) + 1) => InPlace(Append(contents, b))
  <1>1. InPlace(<<>>)
    BY DEF InPlace
  <1>2. InPlace(contents) => \A i \in 1..Len(contents) : AtPlace(contents[i], i)
    BY DEF InPlace, AtPlace
  <1>3. ASSUME InPlace(contents), NEW i \in Nat \ {0}, AtPlace(b, i)
        PROVE  InPlace(Written(contents, i, b))
    <2> DEFINE n == IF i > Len(contents) THEN i ELSE Len(contents)
    <2>1. DOMAIN Written(contents, i, b) = 1..n
      BY DEF Written
    <2>2. \A j \in 1..n : Written(contents, i, b)[j] =
              IF j = i THEN b ELSE IF j <= Len(contents) THEN contents[j] ELSE Hole
      BY DEF Written
    <2>3. ASSUME NEW j \in 1..n, j # i, j <= Len(contents) PROVE j \in DOMAIN contents
      BY <2>3
    <2> HIDE DEF n
    <2>4. ASSUME NEW j \in 1..n
          PROVE  Written(contents, i, b)[j] = Hole \/ Written(contents, i, b)[j].at = j
      BY <1>3, <2>2, <2>3 DEF InPlace, AtPlace
    <2> QED BY <2>1, <2>4 DEF InPlace
  <1>4. ASSUME InPlace(contents), AtPlace(b, Len(contents) + 1)
        PROVE  InPlace(Append(contents, b))
    <2>1. /\ DOMAIN Append(contents, b) = 1..(Len(contents) + 1) /\ Len(contents) \in Nat
          /\ DOMAIN contents = 1..Len(contents)
          /\ Append(contents, b)[Len(contents) + 1] = b
          /\ \A i \in 1..Len(contents) : Append(contents, b)[i] = contents[i]
      OBVIOUS
    <2>2. ASSUME NEW i \in 1..(Len(contents) + 1) PROVE i \in 1..Len(contents) \/ i = Len(contents) + 1
      BY <2>1
    <2> QED BY <1>4, <2>1, <2>2 DEF InPlace, AtPlace
  <1> QED BY <1>1, <1>2, <1>3, <1>4

\* A thread sends a block of the file, or the end.
LEMMA SendPlaces ==
  ASSUME IInv, PlaceInv, NEW k \in Conn, SendBlock(k)
  PROVE  PlaceInv'
  <1>0. ThreadsTyped /\ MailTyped /\ DirTyped /\ th[k] \in ThreadType /\ th[k].pos \in Nat
        /\ toSrv[k] \in Seq(Message) /\ toCli[k] \in Seq(Message)
    BY TypeParts DEF IInv, ThreadsTyped, MailTyped, ThreadType
  <1> DEFINE contents == IF th[k].name \in Files THEN filedir[th[k].name] ELSE <<>>
             i == th[k].pos + 1
  <1>1. /\ th[k].pc = "getdata" /\ toSrv' = toSrv /\ filedir' = filedir /\ cl' = cl /\ used' = used
        /\ IF i <= Len(contents)
           THEN Answer(k, [th[k] EXCEPT !.pos = i], Data(contents[i]))
           ELSE Answer(k, [th[k] EXCEPT !.pc = "recv"], Plain("END"))
    BY DEF SendBlock, dirVars, bounds
  <1>2. contents \in Seq(Blocks)
    BY <1>0 DEF DirTyped
  <1>3. ASSUME i <= Len(contents), th[k].name \in Files, th[k].name \notin Spoilt
        PROVE  AtPlace(contents[i], i)
    <2>1. InPlace(contents) /\ i \in 1..Len(contents)
      BY <1>0, <1>2, <1>3 DEF PlaceInv, Placed
    <2>2. \A b \in Blocks, p \in Seq(Blocks) : InPlace(p) => \A j \in 1..Len(p) : AtPlace(p[j], j)
      BY PlacedBlocks
    <2> HIDE DEF contents, i
    <2> QED BY <1>2, <2>1, <2>2, HoleTyped
  <1>4. PICK u \in ThreadType, m \in Message :
           /\ Answer(k, u, m) /\ u.pc \in {"getdata", "recv"}
           /\ \/ m.type = "END" /\ u.pc = "recv"
              \/ /\ m.type = "DATA" /\ u.pc = "getdata" /\ u.name = th[k].name
                 /\ u.pos = th[k].pos + 1
                 /\ th[k].name \in Files /\ th[k].name \notin Spoilt
                      => AtPlace(m.block, th[k].pos + 1)
    <2>1. CASE i <= Len(contents)
      <3> DEFINE u == [th[k] EXCEPT !.pos = i]
                 m == Data(contents[i])
      <3>1. contents[i] \in Blocks
        BY <1>0, <1>2, <2>1
      <3>2. m \in Message /\ m.type = "DATA" /\ m.block = contents[i]
        BY <3>1, MessagesTyped DEF Data, Plain
      <3>3. u \in ThreadType /\ u.pc = "getdata" /\ u.name = th[k].name /\ u.pos = th[k].pos + 1
        BY <1>0, <1>1 DEF ThreadType
      <3>4. Answer(k, u, m)
        BY <1>1, <2>1
      <3> HIDE DEF u, m
      <3> QED BY <3>2, <3>3, <3>4, <1>3, <2>1
    <2>2. CASE ~(i <= Len(contents))
      <3> DEFINE u == [th[k] EXCEPT !.pc = "recv"]
      <3>1. Plain("END") \in Message /\ Plain("END").type = "END"
        BY MessagesTyped
      <3>2. u \in ThreadType /\ u.pc = "recv"
        BY <1>0 DEF ThreadType, ThreadPc
      <3>3. Answer(k, u, Plain("END"))
        BY <1>1, <2>2
      <3> HIDE DEF u
      <3> QED BY <3>1, <3>2, <3>3
    <2> QED BY <2>1, <2>2
  <1> HIDE DEF contents, i
  <1>5. Serves(th[k], toSrv[k], Spoilt)
    BY DEF PlaceInv, Service
  <1>6. Serves(u, toSrv[k], Spoilt) /\ \A up : Finishes(u, toSrv[k], up)
    BY <1>1, <1>4, <1>5 DEF Serves, Finishes, Takes
  <1>7. \A f \in Files \ Spoilt : InPlace(filedir'[f])
    BY <1>1 DEF PlaceInv, Placed
  <1>8. toSrv' = [toSrv EXCEPT ![k] = toSrv[k]] /\ ~Runaway(k)
    BY <1>0, <1>1 DEF MailTyped, Runaway
  <1>9. CASE k \notin closed /\ toCli' = [toCli EXCEPT ![k] = Append(@, m)]
             /\ th' = [th EXCEPT ![k] = u] /\ UNCHANGED <<server, closed, reset>>
    <2>1. ASSUME NEW s \in ClientType, Talks(th[k], toSrv[k], toCli[k], s, Spoilt)
          PROVE  Talks(u, toSrv[k], Append(toCli[k], m), s, Spoilt)
      BY <2>1, <1>0, <1>1, <1>4, BlockTalks
    <2>2. toCli' = [toCli EXCEPT ![k] = Append(toCli[k], m)]
      BY <1>9
    <2> QED BY <2>1, <2>2, <1>1, <1>6, <1>7, <1>8, <1>9, ThreadFrame
  <1>10. CASE k \in closed /\ toCli' = toCli /\ closed' = closed /\ server' = server
              /\ th' = [th EXCEPT ![k] = u]
    <2>1. toCli' = [toCli EXCEPT ![k] = toCli[k]]
      BY <1>0, <1>10 DEF MailTyped
    <2> QED BY <2>1, <1>1, <1>6, <1>7, <1>8, <1>10, ThreadFrame
  <1>11. CASE ServerEnds /\ UNCHANGED <<closed, reset, toCli>>
    BY <1>1, <1>11, EndFrame
  <1> QED BY <1>4, <1>9, <1>10, <1>11 DEF Answer

\* A thread opens the file it is sent, stores a block of it, or leaves it.
LEMMA PutPlaces ==
  ASSUME IInv, PlaceInv, NEW k \in Conn,
         \/ OpenForPut(k) \/ OpenForPutFails(k) \/ RecvBlock(k) \/ RecvNothing(k)
         \/ HandleUnknown(k)
  PROVE  PlaceInv'
  <1>0. ThreadsTyped /\ MailTyped /\ DirTyped /\ th[k] \in ThreadType /\ th[k].pos \in Nat
        /\ toSrv[k] \in Seq(Message) /\ toCli[k] \in Seq(Message)
    BY TypeParts DEF IInv, ThreadsTyped, MailTyped, ThreadType
  <1>s. Serves(th[k], toSrv[k], Spoilt)
    BY DEF PlaceInv, Service
  <1>f. \A f \in Files \ Spoilt : InPlace(filedir[f])
    BY DEF PlaceInv, Placed
  <1>e. InPlace(<<>>)
    BY DEF InPlace
  <1>m. toCli' = toCli => toCli' = [toCli EXCEPT ![k] = toCli[k]]
    BY <1>0 DEF MailTyped
  <1>q. toSrv' = toSrv => toSrv' = [toSrv EXCEPT ![k] = toSrv[k]]
    BY <1>0 DEF MailTyped
  <1>1. CASE OpenForPut(k)
    <2> DEFINE u == [th[k] EXCEPT !.pc = "putdata", !.pos = 0, !.data = NoMessage]
    <2>1. /\ th[k].pc = "putopen" /\ th[k].name \in Files
          /\ filedir' = [filedir EXCEPT ![th[k].name] = <<>>]
          /\ th' = [th EXCEPT ![k].pc = "putdata", ![k].pos = 0, ![k].data = NoMessage]
          /\ UNCHANGED <<server, cl, toSrv, toCli, closed, used>>
      BY <1>1 DEF OpenForPut, wire, bounds
    <2>2. /\ u \in ThreadType /\ u.pc = "putdata" /\ u.pos = 0 /\ u.data = NoMessage
          /\ u.name = th[k].name /\ th' = [th EXCEPT ![k] = u]
      BY <1>0, <2>1, MessagesTyped DEF ThreadType, ThreadPc, ThreadsTyped, NoMessage
    <2>3. \A f \in Files \ Spoilt : InPlace(filedir'[f])
      BY <1>0, <1>f, <1>e, <2>1 DEF DirTyped
    <2> HIDE DEF u
    <2>4. /\ Serves(u, toSrv[k], Spoilt)
          /\ \A up : Finishes(th[k], toSrv[k], up) => Finishes(u, toSrv[k], up)
          /\ \A s \in ClientType : Talks(th[k], toSrv[k], toCli[k], s, Spoilt)
                                      => Talks(u, toSrv[k], toCli[k], s, Spoilt)
      BY <1>0, <1>s, <2>1, <2>2, OpenTalks
    <2>5. ~Runaway(k)
      BY <2>1 DEF Runaway
    <2> QED BY <1>m, <1>q, <2>1, <2>2, <2>3, <2>4, <2>5, ThreadFrame
  <1>2. CASE OpenForPutFails(k)
    BY <1>2, EndFrame DEF OpenForPutFails, dirVars, wire, bounds
  <1>3. ASSUME NEW u \in ThreadType, toSrv[k] # <<>>, Head(toSrv[k]).type \in FileData,
               th[k].pc \in {"recv", "putdata"}, th' = [th EXCEPT ![k] = u],
               toSrv' = [toSrv EXCEPT ![k] = Tail(@)],
               UNCHANGED <<server, cl, toCli, closed, used>>,
               \A f \in Files \ Spoilt : InPlace(filedir'[f]),
               \/ u.pc \in {"recv", "left"}
               \/ /\ th[k].pc = "putdata" /\ Head(toSrv[k]).type = "DATA"
                  /\ u.pc = "putdata" /\ u.name = th[k].name /\ u.pos = th[k].pos + 1
        PROVE  PlaceInv'
    <2>1. /\ Serves(u, Tail(toSrv[k]), Spoilt)
          /\ \A up : Finishes(th[k], toSrv[k], up) => Finishes(u, Tail(toSrv[k]), up)
          /\ \A s \in ClientType : Talks(th[k], toSrv[k], toCli[k], s, Spoilt)
                                      => Talks(u, Tail(toSrv[k]), toCli[k], s, Spoilt)
      BY <1>0, <1>s, <1>3, DataTalks
    <2>2. toSrv' = [toSrv EXCEPT ![k] = Tail(toSrv[k])] /\ ~Runaway(k)
      BY <1>3 DEF Runaway
    <2> QED BY <1>m, <1>3, <2>1, <2>2, ThreadFrame
  <1>4. CASE RecvBlock(k)
    <2> DEFINE m == Head(toSrv[k])
    <2>1. /\ th[k].pc = "putdata" /\ toSrv[k] # <<>>
          /\ toSrv' = [toSrv EXCEPT ![k] = Tail(@)]
          /\ UNCHANGED <<cl, toCli, closed, used>>
      BY <1>4 DEF RecvBlock, bounds
    <2>2. m \in Message
      BY <1>0, <2>1, TailHas
    <2>3. CASE m.type = "DATA" /\ StoreBlock(k, m)
      <3> DEFINE u == [th[k] EXCEPT !.pos = th[k].pos + 1, !.data = m]
      <3>1. /\ u \in ThreadType /\ th' = [th EXCEPT ![k] = u] /\ server' = server
        BY <2>2, <2>3, StoreTyped
      <3>2. u.pc = "putdata" /\ u.name = th[k].name /\ u.pos = th[k].pos + 1
        BY <1>0, <2>1 DEF ThreadType
      <3>3. th[k].name \in Files /\ filedir[th[k].name] \in Seq(Blocks) /\ m.block \in Blocks
        BY <1>0, <1>s, <2>1, <2>2 DEF Serves, DirTyped, Message
      <3>4. filedir' = [filedir EXCEPT ![th[k].name] =
                          Written(filedir[th[k].name], th[k].pos + 1, m.block)]
        BY <2>3 DEF StoreBlock
      <3>5. th[k].name \notin Spoilt => AtPlace(m.block, th[k].pos + 1)
        <4>1. th[k].name \notin Spoilt => Numbered(toSrv[k], th[k].pos)
          BY <1>s, <2>1 DEF Serves, Takes, Taken
        <4> QED BY <4>1, <1>0, <2>1, <2>3, NumberedReceived
      <3>6. th[k].name \notin Spoilt =>
               InPlace(Written(filedir[th[k].name], th[k].pos + 1, m.block))
        <4>1. th[k].pos + 1 \in Nat \ {0}
          BY <1>0
        <4> HIDE DEF m
        <4> QED BY <4>1, <3>3, <3>5, <1>f, PlacedBlocks
      <3>7. \A f \in Files \ Spoilt : InPlace(filedir'[f])
        BY <1>0, <1>f, <3>3, <3>4, <3>6 DEF DirTyped
      <3>8. m.type \in FileData
        BY <2>3 DEF FileData
      <3> HIDE DEF u
      <3> QED BY <1>3, <2>1, <2>3, <3>1, <3>2, <3>7, <3>8
    <2>4. CASE m.type = "END" /\ th' = [th EXCEPT ![k].pc = "recv"] /\ server' = server
               /\ filedir' = filedir
      <3> DEFINE u == [th[k] EXCEPT !.pc = "recv"]
      <3>1. u \in ThreadType /\ u.pc = "recv" /\ th' = [th EXCEPT ![k] = u]
        BY <1>0, <2>4 DEF ThreadType, ThreadPc, ThreadsTyped
      <3>2. m.type \in FileData
        BY <2>4 DEF FileData
      <3> HIDE DEF u
      <3> QED BY <1>3, <1>f, <2>1, <2>4, <3>1, <3>2
    <2> QED BY <1>4, <2>3, <2>4 DEF RecvBlock, dirVars
  <1>5. CASE RecvNothing(k)
    <2>1. /\ th[k].pc = "putdata" /\ toSrv[k] = <<>> /\ k \in closed
          /\ UNCHANGED <<cl, toSrv, toCli, closed, used>>
      BY <1>5 DEF RecvNothing, wire, bounds
    <2>2. CASE th[k].data # NoMessage /\ StoreBlock(k, th[k].data)
      <3> DEFINE u == [th[k] EXCEPT !.pos = th[k].pos + 1, !.data = th[k].data]
      <3>1. th[k].data \in Message
        BY <1>0 DEF ThreadType
      <3>2. /\ u \in ThreadType /\ th' = [th EXCEPT ![k] = u] /\ server' = server
        BY <2>2, <3>1, StoreTyped
      <3>3. u.pc = "putdata" /\ u.name = th[k].name /\ u.data = th[k].data
        BY <1>0, <2>1 DEF ThreadType
      <3>4. th[k].name \in Files /\ Runaway(k)
        BY <1>s, <2>1, <2>2 DEF Serves, Runaway
      <3>5. th[k].name \in Spoilt
        <4>1. Kills
          <5> SUFFICES ASSUME ~Kills PROVE FALSE
            OBVIOUS
          <5>1. Finishes(th[k], toSrv[k], Uploading(k)) /\ ~Uploading(k)
            BY <2>1 DEF PlaceInv, Finishing, Uploading
          <5> QED BY <5>1, <2>1, <2>2, NothingSent DEF Finishes, Takes
        <4> QED BY <4>1, <3>4 DEF Spoilt
      <3>6. \A f \in Files \ Spoilt : InPlace(filedir'[f])
        <4>1. \A f \in Files : f # th[k].name => filedir'[f] = filedir[f]
          BY <1>0, <2>2 DEF StoreBlock, DirTyped
        <4> QED BY <4>1, <1>f, <3>5
      <3>7. Serves(u, toSrv[k], Spoilt)
        BY <2>1, <3>3, <3>4, NothingSent DEF Serves
      <3>8. \A up : Finishes(th[k], toSrv[k], up) => Finishes(u, toSrv[k], up)
        BY <2>1, <2>2, NothingSent DEF Finishes, Takes
      <3> HIDE DEF u
      <3> QED BY <1>m, <1>q, <2>1, <2>2, <3>2, <3>3, <3>6, <3>7, <3>8, ThreadFrame
    <2>3. CASE ServerEnds /\ filedir' = filedir
      BY <2>1, <2>3, EndFrame
    <2>4. CASE th[k].data = NoMessage /\ th' = [th EXCEPT ![k].pc = "recv"] /\ server' = server
               /\ filedir' = filedir
      <3> DEFINE u == [th[k] EXCEPT !.pc = "recv"]
      <3>1. u \in ThreadType /\ u.pc = "recv" /\ th' = [th EXCEPT ![k] = u]
        BY <1>0, <2>4 DEF ThreadType, ThreadPc, ThreadsTyped
      <3>2. Serves(u, toSrv[k], Spoilt) /\ \A up : Finishes(u, toSrv[k], up)
        BY <2>1, <3>1, NothingServed
      <3>3. ~Runaway(k)
        BY <2>4 DEF Runaway
      <3> HIDE DEF u
      <3> QED BY <1>f, <1>m, <1>q, <2>1, <2>4, <3>1, <3>2, <3>3, ThreadFrame
    <2> QED BY <1>5, <2>2, <2>3, <2>4 DEF RecvNothing, dirVars
  <1>6. CASE HandleUnknown(k)
    <2> DEFINE u == [Thread(k) EXCEPT !.pc = "left"]
    <2>1. PICK type \in FileData : Receives(k, type)
      BY <1>6 DEF HandleUnknown, FileData
    <2>2. /\ th' = [th EXCEPT ![k] = u]
          /\ UNCHANGED <<server, filedir, cl, toCli, closed, used>>
      BY <1>6 DEF HandleUnknown, dirVars, bounds
    <2>3. /\ Thread(k) \in ThreadType /\ Request(k).type = type /\ th[k].pc = "recv"
          /\ toSrv[k] # <<>> \/ k \in closed
      BY <2>1, RequestFacts
    <2>4. u \in ThreadType /\ u.pc = "left"
      BY <2>3 DEF ThreadType, ThreadPc
    <2> HIDE DEF u
    <2>5. CASE toSrv[k] # <<>>
      <3>1. Head(toSrv[k]).type \in FileData /\ toSrv' = [toSrv EXCEPT ![k] = Tail(@)]
        BY <2>1, <2>3, <2>5 DEF Receives, Request
      <3> QED BY <1>3, <1>f, <2>2, <2>3, <2>4, <2>5, <3>1
    <2>6. CASE toSrv[k] = <<>>
      <3>1. toSrv' = toSrv /\ k \in closed
        BY <2>1, <2>3, <2>6 DEF Receives
      <3>2. Serves(u, toSrv[k], Spoilt) /\ \A up : Finishes(u, toSrv[k], up)
        BY <2>4, <2>6, NothingServed
      <3>3. ~Runaway(k)
        BY <2>3 DEF Runaway
      <3> QED BY <1>f, <1>m, <1>q, <2>2, <2>3, <2>4, <3>1, <3>2, <3>3, ThreadFrame
    <2> QED BY <2>5, <2>6
  <1> QED BY <1>1, <1>2, <1>4, <1>5, <1>6

LEMMA ThreadPlaces ==
  ASSUME IInv, PlaceInv, NEW k \in Conn, ThreadStep(k)
  PROVE  PlaceInv'
  BY HandlerPlaces, SendPlaces, PutPlaces DEF ThreadStep

-----------------------------------------------------------------------------
(* What the steps of a client leave of the conversation *)

\* A client that waits for nothing.
LEMMA IdleTalks ==
  ASSUME NEW t, NEW q, NEW r, NEW s, NEW S, s.pc \notin ReplyTypes \cup {"download", "upload"},
         Quiet(t, q, r), Takes(t) => HasEnd(q)
  PROVE  Talks(t, q, r, s, S)
  <1>1. Asked(t, q, s)
    BY DEF Quiet, Asked, OnlyData, FileData
  <1>2. Uploads(t, q, s) /\ Downloads(t, r, s, S) /\ Ended(t, q, s)
    BY DEF Uploads, Downloads, Ended, ReplyTypes
  <1>3. s.pc # "OPEN_REPLY"
    BY DEF ReplyTypes
  <1> QED BY <1>1, <1>2, <1>3 DEF Talks

LEMMA DownloadTalks ==
  ASSUME NEW t, NEW q, NEW r, NEW s, NEW S, s.pc = "download", s.name \in Files,
         Quiet(t, q, r), Takes(t) => HasEnd(q), Follows(t, r, s.name, Len(s.own[s.name]), S)
  PROVE  Talks(t, q, r, s, S)
  <1>1. Asked(t, q, s)
    BY DEF Quiet, Asked, OnlyData, FileData
  <1>2. Uploads(t, q, s) /\ Downloads(t, r, s, S) /\ Ended(t, q, s)
    BY DEF Uploads, Downloads, Ended
  <1>3. s.pc \notin ReplyTypes
    BY DEF ReplyTypes
  <1> QED BY <1>1, <1>2, <1>3 DEF Talks

LEMMA UploadTalks ==
  ASSUME NEW t, NEW q, NEW r, NEW s, NEW S, s.pc = "upload", Quiet(t, q, r),
         Takes(t) => AllBlocks(q) /\ t.name = s.name /\ s.pos = Len(q) + Taken(t)
  PROVE  Talks(t, q, r, s, S)
  <1>1. Asked(t, q, s)
    BY DEF Quiet, Asked, OnlyData, FileData
  <1>2. Uploads(t, q, s) /\ Downloads(t, r, s, S) /\ Ended(t, q, s)
    BY DEF Uploads, Downloads, Ended, ReplyTypes
  <1>3. s.pc \notin ReplyTypes
    BY DEF ReplyTypes
  <1> QED BY <1>1, <1>2, <1>3 DEF Talks

\* The client that has read its reply: there is no other, nor a request.
LEMMA ReplyQuiet ==
  ASSUME NEW t, NEW q \in Seq(Message), NEW r \in Seq(Message), NEW p, NEW s, NEW S,
         Talks(t, q, r, s, S), s.pc \in ReplyTypes,
         \/ r # <<>> /\ p = Tail(r) /\ (Head(r).type \notin FileData \/ s.pc = "OPEN_REPLY")
         \/ r = <<>> /\ p = <<>> /\ t.pc = "ended"
  PROVE  Quiet(t, q, p) /\ (s.pc # "PUT_REPLY" /\ Takes(t) => HasEnd(q))
  <1>1. Awaits(t, q, r) /\ (s.pc = "OPEN_REPLY" => NoData(r))
    BY DEF Talks, Opens
  <1>2. Quiet(t, q, p)
    BY <1>1, Received, NothingSent DEF Quiet, Awaits
  <1>3. s.pc # "PUT_REPLY" /\ Takes(t) => HasEnd(q)
    BY DEF Talks, Ended
  <1> QED BY <1>2, <1>3

\* A client that sends a request, and waits for its reply.
Waits(v, m) ==
    /\ v.pc \in ReplyTypes \ {"OPEN_REPLY"}
    /\ m.type = "GET" => v.pc = "GET_REPLY" /\ m.name = v.name
    /\ m.type = "PUT" => v.pc = "PUT_REPLY" /\ m.name = v.name
    /\ v.pc = "PUT_REPLY" => v.pos = 0
    /\ v.pc = "GET_REPLY" => v.name \in Files

LEMMA AskTalks ==
  ASSUME NEW t, NEW q \in Seq(Message), NEW r \in Seq(Message), NEW s, NEW v,
         NEW m \in Message, NEW S, s.pc = "prompt", Talks(t, q, r, s, S), Serves(t, q, S),
         t.pos \in Nat, m.type \notin FileData, Waits(v, m), t.pc # "ended"
  PROVE  /\ Talks(t, Append(q, m), r, v, S) /\ Serves(t, Append(q, m), S)
         /\ \A up : Finishes(t, Append(q, m), up)
  <1>1. OnlyData(r) /\ OnlyData(q) /\ (Takes(t) => HasEnd(q))
    BY DEF Talks, Quiet, Ended
  <1>2. /\ ~OnlyData(Append(q, m)) /\ RequestLast(Append(q, m)) /\ OneReply(r)
        /\ Takes(t) => HasEnd(Append(q, m))
    <2>1. OneReply(r)
      BY <1>1 DEF OnlyData, OneReply
    <2> QED BY <2>1, <1>1, Sent
  <1>3. Awaits(t, Append(q, m), r)
    BY <1>1, <1>2 DEF Awaits
  <1>4. Asked(t, Append(q, m), v)
    <2>1. \A i \in 1..Len(Append(q, m)) :
             Append(q, m)[i] = m \/ (i \in 1..Len(q) /\ Append(q, m)[i] = q[i])
      OBVIOUS
    <2>2. \A i \in 1..Len(q) : q[i].type \notin {"GET", "PUT"}
      BY <1>1 DEF OnlyData, FileData
    <2> QED BY <2>1, <2>2 DEF Asked, Waits
  <1>5. Uploads(t, Append(q, m), v)
    BY <1>2 DEF Uploads, Waits, ReplyTypes
  <1>6. Downloads(t, r, v, S)
    <2>1. v.pc # "download"
      BY DEF Waits, ReplyTypes
    <2>2. r # <<>> => Head(r).type # "GET_REPLY"
      BY <1>1, Received DEF FileData
    <2> QED BY <2>1, <2>2 DEF Downloads, Waits
  <1>7. Ended(t, Append(q, m), v)
    BY <1>2 DEF Ended
  <1>8. Talks(t, Append(q, m), r, v, S)
    <2>1. v.pc \in ReplyTypes /\ v.pc \notin {"prompt", "download", "upload", "OPEN_REPLY"}
      BY DEF Waits, ReplyTypes
    <2> QED BY <2>1, <1>3, <1>4, <1>5, <1>6, <1>7 DEF Talks
  <1>9. Serves(t, Append(q, m), S)
    <2>1. m.type # "DATA" /\ Taken(t) \in Nat
      BY DEF FileData, Taken
    <2>2. Takes(t) /\ t.name \notin S => Numbered(Append(q, m), Taken(t))
      BY <2>1, NumberedSent DEF Serves
    <2> QED BY <1>2, <2>2 DEF Serves
  <1>10. \A up : Finishes(t, Append(q, m), up)
    BY <1>2 DEF Finishes
  <1> QED BY <1>8, <1>9, <1>10

\* The same, to a thread that has ended.
LEMMA AskEnded ==
  ASSUME NEW t, NEW q, NEW r \in Seq(Message), NEW s, NEW v, NEW m, NEW S,
         s.pc = "prompt", Talks(t, q, r, s, S), Waits(v, m), t.pc = "ended"
  PROVE  Talks(t, q, r, v, S)
  <1>1. OnlyData(r) /\ ~Takes(t)
    BY DEF Talks, Quiet, Takes
  <1>2. OneReply(r)
    BY <1>1 DEF OnlyData, OneReply
  <1>3. v.pc \in ReplyTypes /\ v.pc \notin {"prompt", "download", "upload", "OPEN_REPLY"}
    BY DEF Waits, ReplyTypes
  <1>4. r # <<>> => Head(r).type # "GET_REPLY"
    BY <1>1, Received DEF FileData
  <1>5. Downloads(t, r, v, S)
    BY <1>3, <1>4 DEF Downloads, Waits
  <1>6. Uploads(t, q, v) /\ Ended(t, q, v) /\ Asked(t, q, v)
    BY <1>1 DEF Uploads, Waits, Ended, Asked
  <1> QED BY <1>2, <1>3, <1>5, <1>6 DEF Talks, Awaits

-----------------------------------------------------------------------------
(* The steps of a client *)

\* What the steps of a client leave alone, but for open.
ServerSame == server' = server /\ th' = th /\ used' = used /\ filedir' = filedir

\* CutShort, said of a client s to which r is on its way.
LeftShort(s, r, f) == ~server /\ s.pc = "download" /\ s.name = f /\ r = <<>>

\* A step of one client, as the invariant sees it.
LEMMA ClientFrame ==
  ASSUME IInv, PlaceInv, NEW c \in Clients, NEW s \in ClientType, cl' = [cl EXCEPT ![c] = s],
         s.sock = Sock(c), ServerSame, closed \subseteq closed', closed' \subseteq closed \cup OwnConns(c),
         \A j \in Conn : j # Sock(c) => toSrv'[j] = toSrv[j] /\ toCli'[j] = toCli[j],
         Sock(c) \in closed => toSrv'[Sock(c)] = toSrv[Sock(c)],
         \A f \in Files \ Spoilt : InPlace(s.own[f]) \/ LeftShort(s, toCli'[Sock(c)], f),
         Sock(c) \in closed' => /\ s.pc \notin ReplyTypes \cup {"download", "upload"}
                                /\ s.pc = "prompt" => ~s.authenticated,
         Sock(c) \in Conn => /\ Serves(th[Sock(c)], toSrv'[Sock(c)], Spoilt)
                             /\ Kills \/ Finishes(th[Sock(c)], toSrv'[Sock(c)],
                                                  Sock(c) \notin closed' /\ s.pc = "upload"),
         Sock(c) \in Conn \ closed' =>
             Talks(th[Sock(c)], toSrv'[Sock(c)], toCli'[Sock(c)], s, Spoilt)
  PROVE  PlaceInv'
  <1>0. /\ ClientsTyped /\ SafeInv /\ closed \subseteq Conn
        /\ \A k \in OwnConns(c) : k[1] = c /\ k[2] \in 1..used[c]
        /\ OwnConns(c) \subseteq Conn
    BY TypeParts, OwnFacts DEF IInv, SetsTyped, ClientsTyped
  <1>1. /\ cl'[c] = s /\ \A d \in Clients : d # c => cl'[d] = cl[d]
        /\ \A d \in Clients : Sock(d)' = Sock(d)
    BY <1>0 DEF ClientsTyped, Sock
  <1>2. \A d \in Clients \ {c} : Sock(d) \in Conn => Sock(d) # Sock(c) /\ Sock(d) \notin OwnConns(c)
    BY <1>0, OtherSocks
  <1>3. Spoilt \subseteq Spoilt'
    <2>1. ASSUME NEW j \in Conn, Runaway(j) PROVE Runaway(j)' /\ th'[j].name = th[j].name
      <3>1. j \in closed' /\ toSrv'[j] = toSrv[j]
        BY <2>1 DEF Runaway
      <3> QED BY <2>1, <3>1 DEF Runaway, ServerSame
    <2> QED BY <2>1, SpoiltGrows DEF ServerSame
  <1>4. Placed'
    <2>1. ASSUME NEW f \in Files \ Spoilt, NEW d \in Clients
          PROVE  InPlace(cl'[d].own[f]) \/ CutShort(d, f)'
      <3>1. CASE d = c
        BY <3>1, <1>1 DEF LeftShort, CutShort, ServerSame
      <3>2. CASE d # c
        <4>1. InPlace(cl[d].own[f]) \/ CutShort(d, f)
          BY DEF PlaceInv, Placed
        <4>2. cl[d].pc = "download" => Sock(d) \in Conn
          BY <1>0 DEF SafeInv, Sockets, ClientsTyped, Sock
        <4>3. CutShort(d, f) => CutShort(d, f)'
          BY <3>2, <4>2, <1>1, <1>2 DEF CutShort, ServerSame
        <4> QED BY <4>1, <4>3, <3>2, <1>1
      <3> QED BY <3>1, <3>2
    <2>2. \A f \in Files \ Spoilt : InPlace(filedir'[f])
      BY DEF PlaceInv, Placed, ServerSame
    <2> QED BY <2>1, <2>2, <1>3 DEF Placed
  <1>5. ClosedSockets'
    <2>1. ASSUME NEW d \in Clients, Sock(d) \in closed'
          PROVE  /\ cl'[d].pc \notin ReplyTypes \cup {"download", "upload"}
                 /\ cl'[d].pc = "prompt" => ~cl'[d].authenticated
      <3>1. CASE d = c
        BY <3>1, <2>1, <1>1
      <3>2. CASE d # c
        <4>1. Sock(d) \in closed
          BY <3>2, <2>1, <1>0, <1>2
        <4> QED BY <4>1, <3>2, <1>1 DEF PlaceInv, ClosedSockets
      <3> QED BY <3>1, <3>2
    <2>2. ASSUME NEW d \in Clients, NEW i \in 1..MaxOpens, i > used[d] PROVE <<d, i>> \notin closed'
      <3>1. <<d, i>> \notin closed
        BY <2>2 DEF PlaceInv, ClosedSockets
      <3>2. <<d, i>> \notin OwnConns(c)
        <4> SUFFICES ASSUME <<d, i>> \in OwnConns(c) PROVE FALSE
          OBVIOUS
        <4>1. d = c /\ i \in 1..used[c] /\ used[c] \in Nat
          BY <1>0, ConnFacts DEF ClientsTyped
        <4> QED BY <4>1, <2>2
      <3> QED BY <3>1, <3>2
    <2> QED BY <2>1, <2>2, <1>1 DEF ClosedSockets, ServerSame
  <1>6. Conversations'
    <2> SUFFICES ASSUME NEW d \in Clients, Sock(d) \in Conn, Sock(d) \notin closed'
                 PROVE  Talks(th[Sock(d)], toSrv'[Sock(d)], toCli'[Sock(d)], cl'[d], Spoilt')
      BY <1>1 DEF Conversations, Live, ServerSame
    <2>1. Talks(th[Sock(d)], toSrv'[Sock(d)], toCli'[Sock(d)], cl'[d], Spoilt)
      <3>1. CASE d = c
        BY <3>1, <1>1
      <3>2. CASE d # c
        <4>1. Talks(th[Sock(d)], toSrv[Sock(d)], toCli[Sock(d)], cl[d], Spoilt)
          BY DEF PlaceInv, Conversations, Live
        <4> QED BY <4>1, <3>2, <1>1, <1>2
      <3> QED BY <3>1, <3>2
    <2> QED BY <2>1, <1>3, MoreSpoilt
  <1>7. Service'
    <2> SUFFICES ASSUME NEW j \in Conn PROVE Serves(th[j], toSrv'[j], Spoilt')
      BY DEF Service, ServerSame
    <2>1. Serves(th[j], toSrv'[j], Spoilt)
      BY DEF PlaceInv, Service
    <2> QED BY <2>1, <1>3, MoreSpoilt
  <1>8. Finishing'
    <2> SUFFICES ASSUME ~Kills, NEW j \in Conn PROVE Finishes(th[j], toSrv'[j], Uploading(j)')
      BY DEF Finishing, ServerSame
    <2>1. CASE j = Sock(c)
      <3>1. j[1] = c
        BY <2>1, <1>0, ConnFacts DEF SafeInv, Sockets
      <3>2. Uploading(j)' <=> j \notin closed' /\ s.pc = "upload"
        BY <2>1, <3>1, <1>1 DEF Uploading, Sock
      <3>3. Finishes(th[j], toSrv'[j], Sock(c) \notin closed' /\ s.pc = "upload")
        BY <2>1
      <3> QED BY <3>2, <3>3, <2>1 DEF Finishes
    <2>2. CASE j # Sock(c)
      <3>1. Finishes(th[j], toSrv'[j], Uploading(j))
        BY <2>2 DEF PlaceInv, Finishing
      <3>2. Uploading(j) => Uploading(j)'
        <4>1. j[1] \in Clients
          BY ConnFacts
        <4>2. CASE j[1] = c
          BY <4>2, <2>2 DEF Uploading, Sock
        <4>3. CASE j[1] # c
          BY <4>1, <4>3, <1>0, <1>1 DEF Uploading
        <4> QED BY <4>2, <4>3
      <3> QED BY <3>1, <3>2 DEF Finishes
    <2> QED BY <2>1, <2>2
  <1> QED BY <1>4, <1>5, <1>6, <1>7, <1>8 DEF PlaceInv

\* What the invariant says of a client and its socket.
LEMMA ClientFacts ==
  ASSUME IInv, PlaceInv, NEW c \in Clients
  PROVE  /\ cl[c] \in ClientType /\ Sock(c) = cl[c].sock /\ Sock(c) \in Conn \cup {NoConn}
         /\ closed \subseteq Conn
         /\ \A f \in Files \ Spoilt :
               InPlace(cl[c].own[f]) \/ LeftShort(cl[c], toCli[Sock(c)], f)
         /\ Kills \/ server \/ cl[c].pc # "download" \/ toCli[Sock(c)] # <<>>
               => \A f \in Files \ Spoilt : InPlace(cl[c].own[f])
         /\ Sock(c) \in closed => /\ cl[c].pc \notin ReplyTypes \cup {"download", "upload"}
                                  /\ cl[c].pc = "prompt" => ~cl[c].authenticated
         /\ Sock(c) \in Conn =>
               /\ Serves(th[Sock(c)], toSrv[Sock(c)], Spoilt)
               /\ Kills \/ Finishes(th[Sock(c)], toSrv[Sock(c)],
                                    Sock(c) \notin closed /\ cl[c].pc = "upload")
               /\ toSrv[Sock(c)] \in Seq(Message) /\ toCli[Sock(c)] \in Seq(Message)
               /\ th[Sock(c)] \in ThreadType /\ th[Sock(c)].pos \in Nat
               /\ Sock(c) \in OwnConns(c)
         /\ Sock(c) \in Conn \ closed =>
               Talks(th[Sock(c)], toSrv[Sock(c)], toCli[Sock(c)], cl[c], Spoilt)
  <1>0. ClientsTyped /\ MailTyped /\ ThreadsTyped /\ SetsTyped /\ SafeInv
    BY TypeParts DEF IInv
  <1>1. cl[c] \in ClientType /\ Sock(c) = cl[c].sock /\ Sock(c) \in Conn \cup {NoConn}
    BY <1>0 DEF ClientsTyped, ClientType, Sock
  <1>2. ASSUME Sock(c) \in Conn
        PROVE  /\ Serves(th[Sock(c)], toSrv[Sock(c)], Spoilt)
               /\ Kills \/ Finishes(th[Sock(c)], toSrv[Sock(c)],
                                    Sock(c) \notin closed /\ cl[c].pc = "upload")
               /\ toSrv[Sock(c)] \in Seq(Message) /\ toCli[Sock(c)] \in Seq(Message)
               /\ th[Sock(c)] \in ThreadType /\ th[Sock(c)].pos \in Nat
               /\ Sock(c) \in OwnConns(c)
    <2>1. Sock(c) \in OwnConns(c) /\ Sock(c)[1] = c
      BY <1>0, <1>2, ConnFacts, OwnFacts DEF SafeInv, Sockets, ClientsTyped
    <2>2. Uploading(Sock(c)) <=> Sock(c) \notin closed /\ cl[c].pc = "upload"
      BY <2>1 DEF Uploading, Sock
    <2>3. Kills \/ Finishes(th[Sock(c)], toSrv[Sock(c)], Uploading(Sock(c)))
      BY <1>2 DEF PlaceInv, Finishing
    <2>4. Kills \/ Finishes(th[Sock(c)], toSrv[Sock(c)],
                            Sock(c) \notin closed /\ cl[c].pc = "upload")
      BY <2>2, <2>3 DEF Finishes
    <2> QED BY <2>1, <2>4, <1>0, <1>2
            DEF PlaceInv, Service, MailTyped, ThreadsTyped, ThreadType
  <1>3. /\ Sock(c) \in closed => /\ cl[c].pc \notin ReplyTypes \cup {"download", "upload"}
                                 /\ cl[c].pc = "prompt" => ~cl[c].authenticated
        /\ Sock(c) \in Conn \ closed =>
               Talks(th[Sock(c)], toSrv[Sock(c)], toCli[Sock(c)], cl[c], Spoilt)
    BY DEF PlaceInv, ClosedSockets, Conversations, Live
  <1>4. \A f \in Files \ Spoilt : InPlace(cl[c].own[f]) \/ LeftShort(cl[c], toCli[Sock(c)], f)
    BY DEF PlaceInv, Placed, CutShort, LeftShort
  <1>5. Kills /\ ~server => Files \ Spoilt = {}
    BY DEF Spoilt
  <1>6. Kills \/ server \/ cl[c].pc # "download" \/ toCli[Sock(c)] # <<>>
           => \A f \in Files \ Spoilt : InPlace(cl[c].own[f])
    BY <1>4, <1>5 DEF LeftShort
  <1> QED BY <1>0, <1>1, <1>2, <1>3, <1>4, <1>6 DEF SetsTyped

\* A client ends as s, perhaps over what it has just read.
LEMMA EndPlacesAs ==
  ASSUME IInv, PlaceInv, NEW c \in Clients, NEW s \in ClientType,
         s.pc \in {"exited", "aborted", "killed"}, s.sock = Sock(c),
         \A f \in Files \ Spoilt : InPlace(s.own[f]),
         cl' = [cl EXCEPT ![c] = s], closed' = closed \cup OwnConns(c),
         Reads(c), ServerSame, toSrv' = toSrv,
         Kills \/ cl[c].pc # "upload" \/ (Sock(c) \in Conn => th[Sock(c)].pc = "ended")
  PROVE  PlaceInv'
  <1>0. ClientsTyped /\ MailTyped
    BY TypeParts DEF IInv
  <1>1. s.pc \notin ReplyTypes \cup {"prompt", "download", "upload"}
    BY DEF ReplyTypes
  <1>3. \A j \in Conn : j # Sock(c) => toSrv'[j] = toSrv[j] /\ toCli'[j] = toCli[j]
    BY <1>0, ReadHas
  <1>4. Sock(c) \in Conn => Sock(c) \in closed'
    BY ClientFacts
  <1>5. Sock(c) \in Conn => /\ Serves(th[Sock(c)], toSrv'[Sock(c)], Spoilt)
                            /\ Kills \/ Finishes(th[Sock(c)], toSrv'[Sock(c)],
                                                 Sock(c) \notin closed' /\ s.pc = "upload")
    BY <1>4, ClientFacts DEF Finishes, Takes
  <1> QED BY <1>1, <1>3, <1>4, <1>5, ClientFrame

LEMMA EndPlaces ==
  ASSUME IInv, PlaceInv, NEW c \in Clients, NEW pc \in {"exited", "aborted", "killed"},
         ClientEnds(c, pc), Reads(c), ServerSame, toSrv' = toSrv,
         Kills \/ cl[c].pc # "download",
         Kills \/ cl[c].pc # "upload" \/ (Sock(c) \in Conn => th[Sock(c)].pc = "ended")
  PROVE  PlaceInv'
  <1>0. ClientsTyped /\ cl[c] \in ClientType /\ Sock(c) = cl[c].sock
    BY TypeParts, ClientFacts DEF IInv
  <1> DEFINE s == [cl[c] EXCEPT !.pc = pc]
  <1>1. pc \in ClientPc
    BY DEF ClientPc
  <1>2. /\ s \in ClientType /\ s.sock = Sock(c) /\ s.own = cl[c].own /\ s.pc = pc
        /\ cl' = [cl EXCEPT ![c] = s] /\ closed' = closed \cup OwnConns(c)
    BY <1>0, <1>1 DEF ClientEnds, ClientType, ClientsTyped
  <1> HIDE DEF s
  <1>3. \A f \in Files \ Spoilt : InPlace(s.own[f])
    BY <1>2, ClientFacts
  <1> QED BY <1>2, <1>3, EndPlacesAs

\* A client reads its reply, or goes on without one.
LEMMA ReplyPlaces ==
  ASSUME IInv, PlaceInv, NEW c \in Clients, NEW type \in ReplyTypes, Gets(c, type),
         toCli[Sock(c)] # <<>> => Reply(c).type \notin FileData \/ type = "OPEN_REPLY",
         NEW s \in ClientType, cl' = [cl EXCEPT ![c] = s], s.sock = Sock(c),
         ServerSame, toSrv' = toSrv, closed' = closed \/ closed' = closed \cup {Sock(c)},
         s.pc \notin ReplyTypes, s.pc # "upload" => type # "PUT_REPLY",
         Sock(c) \in closed' => s.pc = "prompt" /\ ~s.authenticated,
         s.pc = "upload" => s.name = cl[c].name /\ s.pos = cl[c].pos /\ type = "PUT_REPLY",
         s.pc = "download" => /\ type = "GET_REPLY" /\ s.name = cl[c].name
                              /\ s.own[s.name] = <<>>
                              /\ toCli[Sock(c)] # <<>> => Reply(c).type = "GET_REPLY",
         \A f \in Files : s.own[f] = cl[c].own[f] \/ s.own[f] = <<>>
  PROVE  PlaceInv'
  <1> DEFINE k == Sock(c)
  <1>1. /\ cl[c].pc = type /\ Reads(c) /\ k \in Conn /\ k \notin closed
        /\ toCli[k] # <<>> \/ th[k].pc = "ended"
    BY ReplyFacts, ClientFacts DEF Gets
  <1>2. MailTyped /\ toCli[k] \in Seq(Message) /\ toSrv[k] \in Seq(Message)
        /\ Serves(th[k], toSrv[k], Spoilt) /\ k \in OwnConns(c)
        /\ Talks(th[k], toSrv[k], toCli[k], cl[c], Spoilt)
    BY <1>1, ClientFacts, TypeParts DEF IInv
  <1>3. toCli'[k] = IF toCli[k] # <<>> THEN Tail(toCli[k]) ELSE <<>>
    BY <1>1, <1>2 DEF Gets, MailTyped
  <1>4. \A j \in Conn : j # k => toSrv'[j] = toSrv[j] /\ toCli'[j] = toCli[j]
    BY <1>1, <1>2, ReadHas
  <1>5. /\ Quiet(th[k], toSrv[k], toCli'[k])
        /\ type # "PUT_REPLY" /\ Takes(th[k]) => HasEnd(toSrv[k])
    <2>1. toCli[k] # <<>> => Head(toCli[k]).type \notin FileData \/ cl[c].pc = "OPEN_REPLY"
      BY <1>1 DEF Reply
    <2> HIDE DEF k
    <2> QED BY <2>1, <1>1, <1>2, <1>3, ReplyQuiet
  <1>6. Talks(th[k], toSrv[k], toCli'[k], s, Spoilt)
    <2>1. CASE s.pc = "upload"
      <3>1. Takes(th[k]) => /\ AllBlocks(toSrv[k]) /\ th[k].name = s.name
                            /\ s.pos = Len(toSrv[k]) + Taken(th[k])
        <4> SUFFICES ASSUME Takes(th[k])
                     PROVE  /\ AllBlocks(toSrv[k]) /\ th[k].name = s.name
                            /\ s.pos = Len(toSrv[k]) + Taken(th[k])
          OBVIOUS
        <4>1. OnlyData(toSrv[k])
          BY <1>5 DEF Quiet, Takes
        <4> QED BY <4>1, <2>1, <1>1, <1>2 DEF Talks, Uploads
      <3> HIDE DEF k
      <3> QED BY <2>1, <3>1, <1>5, UploadTalks
    <2>2. CASE s.pc = "download"
      <3>1. s.name \in Files /\ Len(s.own[s.name]) = 0
        BY <2>2, <1>1, <1>2 DEF Talks, Downloads
      <3>2. Follows(th[k], toCli'[k], s.name, 0, Spoilt)
        <4>1. CASE toCli[k] # <<>>
          <5>1. Head(toCli[k]).type = "GET_REPLY"
            BY <4>1, <2>2 DEF Reply
          <5> QED BY <4>1, <5>1, <2>2, <1>1, <1>2, <1>3 DEF Talks, Downloads
        <4>2. CASE toCli[k] = <<>>
          <5>1. toCli'[k] = <<>> /\ th[k].pc = "ended"
            BY <4>2, <1>1, <1>3
          <5> QED BY <5>1, NothingSent DEF Follows
        <4> QED BY <4>1, <4>2
      <3> HIDE DEF k
      <3> QED BY <2>2, <3>1, <3>2, <1>5, DownloadTalks
    <2>3. CASE s.pc \notin {"upload", "download"}
      <3> HIDE DEF k
      <3> QED BY <2>3, <1>5, IdleTalks
    <2> QED BY <2>1, <2>2, <2>3
  <1>7. \A f \in Files \ Spoilt : InPlace(s.own[f])
    <2>1. InPlace(<<>>)
      BY DEF InPlace
    <2>2. cl[c].pc # "download"
      BY <1>1 DEF ReplyTypes
    <2> QED BY <2>1, <2>2, ClientFacts
  <1>8. Kills \/ Finishes(th[k], toSrv[k], k \notin closed' /\ s.pc = "upload")
    <2>1. Kills \/ Finishes(th[k], toSrv[k], k \notin closed /\ cl[c].pc = "upload")
      BY <1>1, ClientFacts
    <2>2. cl[c].pc # "upload"
      BY <1>1 DEF ReplyTypes
    <2> QED BY <2>1, <2>2 DEF Finishes
  <1>9. Sock(c) \in closed' => /\ s.pc \notin ReplyTypes \cup {"download", "upload"}
                               /\ s.pc = "prompt" => ~s.authenticated
    OBVIOUS
  <1>10. closed \subseteq closed' /\ closed' \subseteq closed \cup OwnConns(c)
    BY <1>2
  <1> HIDE DEF k
  <1>11. k = Sock(c)
    BY DEF k
  <1> QED BY <1>1, <1>2, <1>4, <1>6, <1>7, <1>8, <1>9, <1>10, <1>11, ClientFrame

\* A client at its prompt sends a request.
LEMMA AskPlaces ==
  ASSUME IInv, PlaceInv, NEW c \in Clients, NEW s \in ClientType, NEW m \in Message, Ask(c, s, m),
         cl[c].pc = "prompt", Sock(c) \in Conn \ closed, s.sock = Sock(c), s.own = cl[c].own,
         Waits(s, m), m.type \notin FileData, ServerSame, toCli' = toCli
  PROVE  PlaceInv'
  <1> DEFINE k == Sock(c)
  <1>1. /\ MailTyped /\ toCli[k] \in Seq(Message) /\ toSrv[k] \in Seq(Message)
        /\ Serves(th[k], toSrv[k], Spoilt) /\ th[k].pos \in Nat /\ k \in OwnConns(c)
        /\ Talks(th[k], toSrv[k], toCli[k], cl[c], Spoilt)
        /\ Kills \/ Finishes(th[k], toSrv[k], k \notin closed /\ cl[c].pc = "upload")
    BY ClientFacts, TypeParts DEF IInv
  <1>2. ASSUME cl' = [cl EXCEPT ![c] = s], closed' = closed, NEW p,
               toSrv' = [toSrv EXCEPT ![k] = p],
               Serves(th[k], p, Spoilt), Kills \/ Finishes(th[k], p, FALSE),
               Talks(th[k], p, toCli[k], s, Spoilt)
        PROVE  PlaceInv'
    <2>1. toSrv'[k] = p /\ \A j \in Conn : j # k => toSrv'[j] = toSrv[j] /\ toCli'[j] = toCli[j]
      BY <1>1, <1>2 DEF MailTyped
    <2>2. (k \notin closed' /\ s.pc = "upload") = FALSE
      BY DEF Waits, ReplyTypes
    <2>3. Kills \/ Finishes(th[k], toSrv'[k], k \notin closed' /\ s.pc = "upload")
      BY <1>2, <2>1, <2>2
    <2>4. \A f \in Files \ Spoilt : InPlace(s.own[f])
      BY ClientFacts
    <2>5. closed \subseteq closed' /\ closed' \subseteq closed \cup OwnConns(c)
      BY <1>2
    <2>6. /\ Serves(th[k], toSrv'[k], Spoilt)
          /\ Talks(th[k], toSrv'[k], toCli'[k], s, Spoilt)
      BY <1>2, <2>1
    <2> HIDE DEF k
    <2>7. k = Sock(c)
      BY DEF k
    <2> QED BY <1>2, <2>1, <2>3, <2>4, <2>5, <2>6, <2>7, ClientFrame
  <1>3. CASE /\ th[k].pc # "ended" /\ toSrv' = [toSrv EXCEPT ![k] = Append(@, m)]
             /\ cl' = [cl EXCEPT ![c] = s] /\ closed' = closed
    <2>1. toSrv' = [toSrv EXCEPT ![k] = Append(toSrv[k], m)]
      BY <1>3
    <2> HIDE DEF k
    <2>2. /\ Talks(th[k], Append(toSrv[k], m), toCli[k], s, Spoilt)
          /\ Serves(th[k], Append(toSrv[k], m), Spoilt)
          /\ \A up : Finishes(th[k], Append(toSrv[k], m), up)
      BY <1>1, <1>3, AskTalks
    <2> QED BY <2>1, <2>2, <1>2, <1>3
  <1>4. CASE th[k].pc = "ended" /\ toSrv' = toSrv /\ cl' = [cl EXCEPT ![c] = s] /\ closed' = closed
    <2>1. toSrv' = [toSrv EXCEPT ![k] = toSrv[k]]
      BY <1>1, <1>4 DEF MailTyped
    <2> HIDE DEF k
    <2>2. Talks(th[k], toSrv[k], toCli[k], s, Spoilt) /\ Finishes(th[k], toSrv[k], FALSE)
      BY <1>1, <1>4, AskEnded DEF Finishes, Takes
    <2> QED BY <2>1, <2>2, <1>1, <1>2, <1>4
  <1>5. CASE th[k].pc = "ended" /\ ClientEnds(c, "killed") /\ toSrv' = toSrv
    <2>1. Reads(c)
      BY DEF Reads
    <2> QED BY <2>1, <1>5, EndPlaces
  <1> QED BY <1>3, <1>4, <1>5 DEF Ask

LEMMA SamePlaces ==
  ASSUME PlaceInv, UNCHANGED <<server, filedir, th, cl, toSrv, toCli, closed, used>>
  PROVE  PlaceInv'
  <1>1. Spoilt' = Spoilt
    BY DEF Spoilt, Runaway
  <1>2. Placed'
    BY <1>1 DEF PlaceInv, Placed, CutShort, Sock
  <1> QED BY <1>1, <1>2 DEF PlaceInv, ClosedSockets, Conversations, Service, Finishing, Live,
                            Uploading, Sock

\* The commands that ask the server for something.
LEMMA CommandPlaces ==
  ASSUME IInv, PlaceInv, NEW c \in Clients,
         AuthCommand(c) \/ Ls(c) \/ Get(c) \/ Put(c) \/ Quit(c)
  PROVE  PlaceInv'
  <1>0. cl[c] \in ClientType
    BY ClientFacts
  <1>o. ASSUME cl[c].pc = "prompt", cl[c].authenticated, Sock(c) \in Conn PROVE Sock(c) \in Conn \ closed
    BY <1>o, ClientFacts
  <1>w. /\ {"AUTH_REPLY", "LIST_REPLY", "GET_REPLY", "PUT_REPLY", "QUIT_REPLY"} \subseteq ReplyTypes \ {"OPEN_REPLY"}
        /\ ReplyTypes \subseteq ClientPc
        /\ {"AUTH", "LIST", "GET", "PUT", "QUIT"} \cap FileData = {}
    BY DEF ReplyTypes, ClientPc, FileData
  <1>1. CASE AuthCommand(c)
    <2> DEFINE s == [cl[c] EXCEPT !.pc = "AUTH_REPLY", !.authenticated = FALSE]
    <2>1. PICK good \in BOOLEAN :
             /\ Command(c, IF good THEN "auth" ELSE "badauth") /\ Sock(c) \notin closed
             /\ Ask(c, s, Auth(good))
      BY <1>1 DEF AuthCommand
    <2>2. cl[c].pc = "prompt" /\ Sock(c) \in Conn
      BY <2>1, CommandFacts
    <2>3. Auth(good) \in Message /\ Auth(good).type = "AUTH"
      BY MessagesTyped
    <2>4. /\ s \in ClientType /\ s.sock = Sock(c) /\ s.own = cl[c].own /\ s.pc = "AUTH_REPLY"
      BY <1>0, <1>w DEF ClientType, Sock
    <2>5. ServerSame /\ toCli' = toCli
      BY <1>1 DEF AuthCommand, ServerSame, dirVars
    <2> HIDE DEF s
    <2>6. Waits(s, Auth(good)) /\ Auth(good).type \notin FileData
      BY <2>3, <2>4, <1>w DEF Waits
    <2> QED BY <2>1, <2>2, <2>3, <2>4, <2>5, <2>6, AskPlaces
  <1>2. CASE Ls(c)
    <2> DEFINE s == [cl[c] EXCEPT !.pc = "LIST_REPLY"]
    <2>1. Command(c, "ls") /\ Ask(c, s, Plain("LIST"))
      BY <1>2 DEF Ls
    <2>2. cl[c].pc = "prompt" /\ Sock(c) \in Conn \ closed
      BY <2>1, <1>o, CommandFacts DEF Command
    <2>3. Plain("LIST") \in Message /\ Plain("LIST").type = "LIST"
      BY MessagesTyped DEF RequestTypes
    <2>4. /\ s \in ClientType /\ s.sock = Sock(c) /\ s.own = cl[c].own /\ s.pc = "LIST_REPLY"
      BY <1>0, <1>w DEF ClientType, Sock
    <2>5. ServerSame /\ toCli' = toCli
      BY <1>2 DEF Ls, ServerSame, dirVars
    <2> HIDE DEF s
    <2>6. Waits(s, Plain("LIST")) /\ Plain("LIST").type \notin FileData
      BY <2>3, <2>4, <1>w DEF Waits
    <2> QED BY <2>1, <2>2, <2>3, <2>4, <2>5, <2>6, AskPlaces
  <1>3. CASE Get(c)
    <2>1. Command(c, "get") /\ ServerSame /\ toCli' = toCli
      BY <1>3 DEF Get, ServerSame, dirVars
    <2>2. PICK f \in Files : Ask(c, [cl[c] EXCEPT !.pc = "GET_REPLY", !.name = f], Named("GET", f))
      BY <1>3 DEF Get
    <2> DEFINE s == [cl[c] EXCEPT !.pc = "GET_REPLY", !.name = f]
    <2>3. cl[c].pc = "prompt" /\ Sock(c) \in Conn \ closed
      BY <2>1, <1>o, CommandFacts DEF Command
    <2>4. /\ Named("GET", f) \in Message /\ Named("GET", f).type = "GET" /\ Named("GET", f).name = f
      BY MessagesTyped DEF Named, Plain
    <2>5. /\ s \in ClientType /\ s.sock = Sock(c) /\ s.own = cl[c].own /\ s.pc = "GET_REPLY"
          /\ s.name = f
      BY <1>0, <1>w DEF ClientType, Sock, Name
    <2> HIDE DEF s
    <2>6. Waits(s, Named("GET", f)) /\ Named("GET", f).type \notin FileData
      BY <2>4, <2>5, <1>w DEF Waits
    <2>7. Ask(c, s, Named("GET", f))
      BY <2>2 DEF s
    <2> QED BY <2>1, <2>3, <2>4, <2>5, <2>6, <2>7, AskPlaces
  <1>4. CASE Put(c)
    <2>1. Command(c, "put") /\ ServerSame /\ toCli' = toCli
      BY <1>4 DEF Put, ServerSame, dirVars
    <2>2. PICK f \in Files : Ask(c, [cl[c] EXCEPT !.pc = "PUT_REPLY", !.name = f, !.pos = 0],
                                    Named("PUT", f))
      BY <1>4 DEF Put
    <2> DEFINE s == [cl[c] EXCEPT !.pc = "PUT_REPLY", !.name = f, !.pos = 0]
    <2>3. cl[c].pc = "prompt" /\ Sock(c) \in Conn \ closed
      BY <2>1, <1>o, CommandFacts DEF Command
    <2>4. /\ Named("PUT", f) \in Message /\ Named("PUT", f).type = "PUT" /\ Named("PUT", f).name = f
      BY MessagesTyped DEF Named, Plain
    <2>5. /\ s \in ClientType /\ s.sock = Sock(c) /\ s.own = cl[c].own /\ s.pc = "PUT_REPLY"
          /\ s.name = f /\ s.pos = 0
      BY <1>0, <1>w DEF ClientType, Sock, Name
    <2> HIDE DEF s
    <2>6. Waits(s, Named("PUT", f)) /\ Named("PUT", f).type \notin FileData
      BY <2>4, <2>5, <1>w DEF Waits
    <2>7. Ask(c, s, Named("PUT", f))
      BY <2>2 DEF s
    <2> QED BY <2>1, <2>3, <2>4, <2>5, <2>6, <2>7, AskPlaces
  <1>5. CASE Quit(c)
    <2>1. Command(c, "quit") /\ ServerSame /\ toCli' = toCli
      BY <1>5 DEF Quit, ServerSame, dirVars
    <2>2. cl[c].pc = "prompt" /\ (cl[c].connected => Sock(c) \in Conn)
      BY <2>1, CommandFacts
    <2>3. CASE cl[c].connected
      <3> DEFINE s == [cl[c] EXCEPT !.pc = "QUIT_REPLY"]
      <3>1. Sock(c) \in Conn \ closed /\ Ask(c, s, Plain("QUIT"))
        BY <1>5, <2>2, <2>3 DEF Quit
      <3>2. Plain("QUIT") \in Message /\ Plain("QUIT").type = "QUIT"
        BY MessagesTyped DEF RequestTypes
      <3>3. /\ s \in ClientType /\ s.sock = Sock(c) /\ s.own = cl[c].own /\ s.pc = "QUIT_REPLY"
        BY <1>0, <1>w DEF ClientType, Sock
      <3> HIDE DEF s
      <3>4. Waits(s, Plain("QUIT")) /\ Plain("QUIT").type \notin FileData
        BY <3>2, <3>3, <1>w DEF Waits
      <3> QED BY <2>1, <2>2, <3>1, <3>2, <3>3, <3>4, AskPlaces
    <2>4. CASE ~cl[c].connected
      <3>1. ClientEnds(c, "exited") /\ toSrv' = toSrv /\ Reads(c)
        BY <1>5, <2>1, <2>4 DEF Quit, Reads
      <3> QED BY <2>1, <2>2, <3>1, EndPlaces
    <2> QED BY <2>3, <2>4
  <1> QED BY <1>1, <1>2, <1>3, <1>4, <1>5

\* The steps in which a client talks to nobody.
LEMMA LocalPlaces ==
  ASSUME IInv, PlaceInv, NEW c \in Clients,
         \/ Usage(c) \/ SendForEver(c) \/ BadCommand(c) \/ OpenRefused(c) \/ Kill(c)
         \/ WrongHeader(c) \/ QuitReply(c)
  PROVE  PlaceInv'
  <1>0. /\ cl[c] \in ClientType /\ ClientsTyped /\ Sock(c) = cl[c].sock
        /\ cl[c].pc # "download" => \A f \in Files \ Spoilt : InPlace(cl[c].own[f])
    BY ClientFacts, TypeParts DEF IInv
  <1>1. CASE Usage(c) \/ SendForEver(c)
    <2>1. /\ cl[c].pc = "prompt" /\ ServerSame /\ toSrv' = toSrv /\ toCli' = toCli /\ closed' = closed
      BY <1>1 DEF Usage, SendForEver, Command, ServerSame, dirVars, wire
    <2>2. PICK s \in ClientType :
             /\ cl' = [cl EXCEPT ![c] = s] /\ s.sock = Sock(c) /\ s.own = cl[c].own
             /\ \/ s.pc = "prompt" /\ (cl[c].authenticated \/ ~s.authenticated)
                \/ s.pc = "hung" /\ Sock(c) \in closed
      <3>1. CASE cl' = [cl EXCEPT ![c].connected = FALSE]
        <4> DEFINE s == [cl[c] EXCEPT !.connected = FALSE]
        <4>1. /\ s \in ClientType /\ cl' = [cl EXCEPT ![c] = s] /\ s.sock = Sock(c)
              /\ s.own = cl[c].own /\ s.pc = "prompt" /\ s.authenticated = cl[c].authenticated
          BY <1>0, <2>1, <3>1 DEF ClientType, ClientsTyped
        <4> HIDE DEF s
        <4> QED BY <4>1
      <3>2. CASE cl' = [cl EXCEPT ![c].authenticated = FALSE]
        <4> DEFINE s == [cl[c] EXCEPT !.authenticated = FALSE]
        <4>1. /\ s \in ClientType /\ cl' = [cl EXCEPT ![c] = s] /\ s.sock = Sock(c)
              /\ s.own = cl[c].own /\ s.pc = "prompt" /\ s.authenticated = FALSE
          BY <1>0, <2>1, <3>2 DEF ClientType, ClientsTyped
        <4> HIDE DEF s
        <4> QED BY <4>1
      <3>3. CASE cl' = [cl EXCEPT ![c].pc = "hung"] /\ Sock(c) \in closed
        <4> DEFINE s == [cl[c] EXCEPT !.pc = "hung"]
        <4>1. /\ s \in ClientType /\ cl' = [cl EXCEPT ![c] = s] /\ s.sock = Sock(c)
              /\ s.own = cl[c].own /\ s.pc = "hung"
          BY <1>0, <2>1, <3>3 DEF ClientType, ClientPc, ClientsTyped
        <4> HIDE DEF s
        <4> QED BY <4>1, <3>3
      <3> QED BY <1>1, <3>1, <3>2, <3>3 DEF Usage, SendForEver
    <2>3. Sock(c) \in Conn => /\ Serves(th[Sock(c)], toSrv'[Sock(c)], Spoilt)
                              /\ Kills \/ Finishes(th[Sock(c)], toSrv'[Sock(c)],
                                                   Sock(c) \notin closed' /\ s.pc = "upload")
      BY <2>1, <2>2, ClientFacts DEF Finishes
    <2>4. Sock(c) \in closed' => /\ s.pc \notin ReplyTypes \cup {"download", "upload"}
                                 /\ s.pc = "prompt" => ~s.authenticated
      <3>1. s.pc \notin ReplyTypes \cup {"download", "upload"}
        BY <2>2 DEF ReplyTypes
      <3>2. Sock(c) \in closed => ~cl[c].authenticated
        BY <2>1, ClientFacts
      <3> QED BY <3>1, <3>2, <2>1, <2>2
    <2>5. Sock(c) \in Conn \ closed' =>
             Talks(th[Sock(c)], toSrv'[Sock(c)], toCli'[Sock(c)], s, Spoilt)
      <3> SUFFICES ASSUME Sock(c) \in Conn \ closed
                   PROVE  Talks(th[Sock(c)], toSrv[Sock(c)], toCli[Sock(c)], s, Spoilt)
        BY <2>1
      <3>1. Talks(th[Sock(c)], toSrv[Sock(c)], toCli[Sock(c)], cl[c], Spoilt)
        BY ClientFacts
      <3>2. /\ Quiet(th[Sock(c)], toSrv[Sock(c)], toCli[Sock(c)])
            /\ Takes(th[Sock(c)]) => HasEnd(toSrv[Sock(c)])
        BY <3>1, <2>1 DEF Talks, Ended
      <3>3. s.pc \notin ReplyTypes \cup {"download", "upload"}
        BY <2>2 DEF ReplyTypes
      <3> QED BY <3>2, <3>3, IdleTalks
    <2> QED BY <1>0, <2>1, <2>2, <2>3, <2>4, <2>5, ClientFrame
  <1>2. CASE BadCommand(c)
    BY <1>2, SamePlaces DEF BadCommand, dirVars, wire
  <1>3. CASE OpenRefused(c)
    <2>1. cl[c].pc = "prompt" /\ Reads(c)
      BY <1>3 DEF OpenRefused, Command, Reads
    <2>2. ClientEnds(c, "exited") /\ ServerSame /\ toSrv' = toSrv
      BY <1>3 DEF OpenRefused, ServerSame, dirVars
    <2> QED BY <2>1, <2>2, EndPlaces
  <1>4. CASE Kill(c)
    <2>1. Reads(c) /\ ServerSame
      BY <1>4 DEF Kill, Reads, ServerSame, dirVars, bounds
    <2> QED BY <1>4, <2>1, EndPlaces DEF Kill
  <1>5. CASE WrongHeader(c) \/ QuitReply(c)
    <2>1. PICK type \in ReplyTypes : Gets(c, type)
      BY <1>5 DEF WrongHeader, QuitReply, ReplyTypes
    <2>2. Reads(c) /\ cl[c].pc # "upload" /\ cl[c].pc # "download"
      BY <2>1, ReplyFacts DEF ReplyTypes
    <2>3. ServerSame /\ toSrv' = toSrv
      BY <1>5 DEF WrongHeader, QuitReply, ServerSame, dirVars, bounds
    <2> QED BY <1>5, <2>2, <2>3, EndPlaces DEF WrongHeader, QuitReply
  <1> QED BY <1>1, <1>2, <1>3, <1>4, <1>5

\* The replies a client reads.
LEMMA RepliesPlaces ==
  ASSUME IInv, PlaceInv, NEW c \in Clients,
         \/ OpenReply(c) \/ AuthReply(c) \/ LsReply(c) \/ GetReply(c) \/ PutReply(c)
         \/ GetReplyMerged(c)
  PROVE  PlaceInv'
  <1>0. cl[c] \in ClientType /\ ClientsTyped /\ SetsTyped /\ Sock(c) = cl[c].sock
    BY ClientFacts, TypeParts DEF IInv
  <1>w. /\ {"OPEN_REPLY", "AUTH_REPLY", "LIST_REPLY", "GET_REPLY", "PUT_REPLY"} \subseteq ReplyTypes
        /\ ReplyTypes \cap FileData = {}
        /\ {"prompt", "download", "upload", "starved"} \subseteq ClientPc \ ReplyTypes
    BY DEF ReplyTypes, ClientPc, FileData
  <1>r. ASSUME NEW type \in ReplyTypes, Gets(c, type)
        PROVE  /\ Client(c) \in ClientType /\ Client(c).sock = Sock(c) /\ Reply(c) \in Message
               /\ Client(c).name = cl[c].name /\ Client(c).pos = cl[c].pos
               /\ Client(c).own = cl[c].own /\ Sock(c) \in Conn /\ Sock(c) \notin closed
    <2>1. Client(c) = [cl[c] EXCEPT !.reply = Reply(c)] /\ cl[c].pc = type
      BY <1>r, ReplyFacts
    <2>2. Client(c).pos = cl[c].pos /\ Client(c).own = cl[c].own
      BY <2>1, <1>0 DEF ClientType
    <2> QED BY <1>r, <2>1, <2>2, ReplyFacts, ClientFacts
  <1>1. CASE OpenReply(c)
    <2> DEFINE s == [Client(c) EXCEPT !.pc = "prompt", !.connected = TRUE]
    <2>1. /\ Gets(c, "OPEN_REPLY") /\ cl' = [cl EXCEPT ![c] = s] /\ ServerSame
          /\ toSrv' = toSrv /\ closed' = closed
      BY <1>1 DEF OpenReply, ServerSame, dirVars, bounds
    <2>2. /\ s \in ClientType /\ s.sock = Sock(c) /\ s.pc = "prompt" /\ s.own = cl[c].own
          /\ Sock(c) \notin closed
      BY <1>r, <1>w, <2>1 DEF ClientType
    <2> HIDE DEF s
    <2>3. s.pc \notin ReplyTypes /\ "OPEN_REPLY" # "PUT_REPLY" /\ s.pc \notin {"upload", "download"}
      BY <1>w, <2>2
    <2> QED BY <1>w, <2>1, <2>2, <2>3, ReplyPlaces
  <1>2. CASE AuthReply(c)
    <2> DEFINE s == [Client(c) EXCEPT !.pc = "prompt", !.authenticated = Reply(c).ok]
    <2>1. /\ Gets(c, "AUTH_REPLY") /\ Reply(c).type = "AUTH_REPLY" /\ ServerSame
          /\ cl' = [cl EXCEPT ![c] = s] /\ toSrv' = toSrv
          /\ closed' = IF Reply(c).ok THEN closed ELSE closed \cup {Sock(c)}
      BY <1>2 DEF AuthReply, ServerSame, dirVars, bounds
    <2>2. /\ s \in ClientType /\ s.sock = Sock(c) /\ s.pc = "prompt" /\ s.own = cl[c].own
          /\ Sock(c) \notin closed /\ s.authenticated = Reply(c).ok
      BY <1>r, <1>w, <2>1 DEF ClientType, Message
    <2> HIDE DEF s
    <2>3. /\ s.pc \notin ReplyTypes /\ "AUTH_REPLY" # "PUT_REPLY"
          /\ s.pc \notin {"upload", "download"} /\ Reply(c).type \notin FileData
      BY <1>w, <2>1, <2>2
    <2>4. Sock(c) \in closed' => s.pc = "prompt" /\ ~s.authenticated
      BY <2>1, <2>2
    <2> QED BY <1>w, <2>1, <2>2, <2>3, <2>4, ReplyPlaces
  <1>3. CASE LsReply(c)
    <2> DEFINE s == [Client(c) EXCEPT !.pc = "prompt"]
    <2>1. /\ Gets(c, "LIST_REPLY") /\ Reply(c).type = "LIST_REPLY" /\ ServerSame
          /\ cl' = [cl EXCEPT ![c] = s] /\ toSrv' = toSrv /\ closed' = closed
      BY <1>3 DEF LsReply, ServerSame, dirVars, bounds
    <2>2. /\ s \in ClientType /\ s.sock = Sock(c) /\ s.pc = "prompt" /\ s.own = cl[c].own
          /\ Sock(c) \notin closed
      BY <1>r, <1>w, <2>1 DEF ClientType
    <2> HIDE DEF s
    <2>3. /\ s.pc \notin ReplyTypes /\ "LIST_REPLY" # "PUT_REPLY"
          /\ s.pc \notin {"upload", "download"} /\ Reply(c).type \notin FileData
      BY <1>w, <2>1, <2>2
    <2> QED BY <1>w, <2>1, <2>2, <2>3, ReplyPlaces
  <1>4. CASE GetReply(c)
    <2>1. /\ Gets(c, "GET_REPLY") /\ Reply(c).type = "GET_REPLY" /\ ServerSame
          /\ toSrv' = toSrv /\ closed' = closed
      BY <1>4 DEF GetReply, ServerSame, dirVars, bounds
    <2>2. Reply(c).type \notin FileData /\ Sock(c) \notin closed
      BY <1>r, <1>w, <2>1
    <2>3. CASE cl' = [cl EXCEPT ![c] = [Client(c) EXCEPT !.pc = "download", !.own[cl[c].name] = <<>>]]
      <3> DEFINE s == [Client(c) EXCEPT !.pc = "download", !.own[cl[c].name] = <<>>]
                 f == cl[c].name
      <3>1. f \in Files
        <4>1. Sock(c) \in Conn \ closed /\ cl[c].pc = "GET_REPLY"
          BY <2>1, <1>r, <1>w DEF Gets
        <4>2. Talks(th[Sock(c)], toSrv[Sock(c)], toCli[Sock(c)], cl[c], Spoilt)
          BY <4>1, ClientFacts
        <4> QED BY <4>1, <4>2 DEF Talks, Downloads
      <3>2. [cl[c].own EXCEPT ![f] = <<>>] \in [Files -> Seq(Blocks)]
        <4>1. cl[c].own \in [Files -> Seq(Blocks)]
          BY <1>0 DEF ClientType
        <4>2. <<>> \in Seq(Blocks)
          OBVIOUS
        <4> HIDE DEF f
        <4> QED BY <4>1, <4>2
      <3>3. s = [Client(c) EXCEPT !.pc = "download", !.own = [cl[c].own EXCEPT ![f] = <<>>]]
        BY <1>r, <1>w, <2>1 DEF ClientType
      <3>4. /\ s \in ClientType /\ s.sock = Sock(c) /\ s.pc = "download" /\ s.name = f
            /\ s.own = [cl[c].own EXCEPT ![f] = <<>>]
        BY <1>r, <1>w, <2>1, <3>2, <3>3 DEF ClientType
      <3>5. s.own[f] = <<>> /\ \A g \in Files : s.own[g] = cl[c].own[g] \/ s.own[g] = <<>>
        BY <1>0, <3>1, <3>4 DEF ClientType
      <3>6. s.pc \notin ReplyTypes /\ "GET_REPLY" # "PUT_REPLY" /\ s.pc # "upload"
        BY <1>w, <3>4
      <3>7. cl' = [cl EXCEPT ![c] = s]
        BY <2>3
      <3> HIDE DEF s
      <3>8. s.own[s.name] = <<>> /\ s.name = cl[c].name
        BY <3>4, <3>5
      <3> QED BY <1>w, <2>1, <2>2, <3>4, <3>5, <3>6, <3>7, <3>8, ReplyPlaces
    <2>4. CASE cl' = [cl EXCEPT ![c] = [Client(c) EXCEPT !.pc = "prompt"]]
      <3> DEFINE s == [Client(c) EXCEPT !.pc = "prompt"]
      <3>1. /\ s \in ClientType /\ s.sock = Sock(c) /\ s.pc = "prompt" /\ s.own = cl[c].own
        BY <1>r, <1>w, <2>1 DEF ClientType
      <3>2. s.pc \notin ReplyTypes /\ "GET_REPLY" # "PUT_REPLY" /\ s.pc \notin {"upload", "download"}
        BY <1>w, <3>1
      <3>3. cl' = [cl EXCEPT ![c] = s]
        BY <2>4
      <3> HIDE DEF s
      <3> QED BY <1>w, <2>1, <2>2, <3>1, <3>2, <3>3, ReplyPlaces
    <2>5. PICK w \in Writable :
             cl' = [cl EXCEPT ![c] = IF Reply(c).ok /\ w
                       THEN [Client(c) EXCEPT !.pc = "download", !.own[cl[c].name] = <<>>]
                       ELSE [Client(c) EXCEPT !.pc = "prompt"]]
      BY <1>4 DEF GetReply
    <2>6. CASE Reply(c).ok /\ w
      BY <2>3, <2>5, <2>6
    <2>7. CASE ~(Reply(c).ok /\ w)
      BY <2>4, <2>5, <2>7
    <2> QED BY <2>6, <2>7
  <1>5. CASE PutReply(c)
    <2> DEFINE s == [Client(c) EXCEPT !.pc = "upload"]
    <2>1. /\ Gets(c, "PUT_REPLY") /\ Reply(c).type = "PUT_REPLY" /\ ServerSame
          /\ cl' = [cl EXCEPT ![c] = s] /\ toSrv' = toSrv /\ closed' = closed
      BY <1>5 DEF PutReply, ServerSame, dirVars, bounds
    <2>2. /\ s \in ClientType /\ s.sock = Sock(c) /\ s.pc = "upload" /\ s.own = cl[c].own
          /\ Sock(c) \notin closed /\ s.name = cl[c].name /\ s.pos = cl[c].pos
      BY <1>r, <1>w, <2>1 DEF ClientType
    <2> HIDE DEF s
    <2>3. /\ s.pc \notin ReplyTypes /\ s.pc # "download" /\ Reply(c).type \notin FileData
      BY <1>w, <2>1, <2>2
    <2> QED BY <1>w, <2>1, <2>2, <2>3, ReplyPlaces
  <1>6. CASE GetReplyMerged(c)
    <2>1. /\ Gets(c, "GET_REPLY") /\ Reply(c).type = "GET_REPLY" /\ ServerSame /\ toSrv' = toSrv
          /\ cl[c].pc = "GET_REPLY"
      BY <1>6 DEF GetReplyMerged, Gets, ServerSame, dirVars, bounds
    <2>2. Reply(c).type \notin FileData /\ Sock(c) \notin closed
      BY <1>r, <1>w, <2>1
    <2>3. PICK w \in Writable :
             LET short == toCli[Sock(c)][2].type = "END"
             IN  /\ cl' = [cl EXCEPT ![c] =
                       IF w THEN [@ EXCEPT !.pc = IF short THEN "starved" ELSE "aborted",
                                           !.own[cl[c].name] = <<>>]
                       ELSE [Client(c) EXCEPT !.pc = "prompt"]]
                 /\ closed' = IF w /\ ~short THEN closed \cup OwnConns(c) ELSE closed
      BY <1>6 DEF GetReplyMerged
    <2>4. CASE w
      <3> DEFINE pc == IF toCli[Sock(c)][2].type = "END" THEN "starved" ELSE "aborted"
                 s == [cl[c] EXCEPT !.pc = pc, !.own[cl[c].name] = <<>>]
                 f == cl[c].name
      <3>1. f \in Files
        <4>1. Talks(th[Sock(c)], toSrv[Sock(c)], toCli[Sock(c)], cl[c], Spoilt)
          BY <1>r, <1>w, <2>1, ClientFacts
        <4> QED BY <4>1, <2>1 DEF Talks, Downloads
      <3>2. [cl[c].own EXCEPT ![f] = <<>>] \in [Files -> Seq(Blocks)]
        <4>1. cl[c].own \in [Files -> Seq(Blocks)]
          BY <1>0 DEF ClientType
        <4>2. <<>> \in Seq(Blocks)
          OBVIOUS
        <4> HIDE DEF f
        <4> QED BY <4>1, <4>2
      <3>3. s = [cl[c] EXCEPT !.pc = pc, !.own = [cl[c].own EXCEPT ![f] = <<>>]]
        BY <1>0 DEF ClientType
      <3>4. pc \in {"starved", "aborted"} /\ pc \in ClientPc
        BY DEF ClientPc
      <3>5. /\ s \in ClientType /\ s.sock = Sock(c) /\ s.pc = pc
            /\ s.own = [cl[c].own EXCEPT ![f] = <<>>]
        <4> HIDE DEF pc, f
        <4> QED BY <1>0, <3>2, <3>3, <3>4 DEF ClientType
      <3>6. \A g \in Files : s.own[g] = cl[c].own[g] \/ s.own[g] = <<>>
        BY <1>0, <3>1, <3>5 DEF ClientType
      <3>7. cl' = [cl EXCEPT ![c] = s]
        BY <2>3, <2>4, <1>0
      <3>8. closed' = IF pc = "starved" THEN closed ELSE closed \cup OwnConns(c)
        BY <2>3, <2>4
      <3> HIDE DEF s, pc
      <3>9. CASE pc = "starved"
        <4>1. /\ s.pc \notin ReplyTypes /\ "GET_REPLY" # "PUT_REPLY"
              /\ s.pc \notin {"upload", "download"}
          BY <1>w, <3>5, <3>9
        <4>2. closed' = closed
          BY <3>8, <3>9
        <4> QED BY <1>w, <2>1, <2>2, <3>5, <3>6, <3>7, <4>1, <4>2, ReplyPlaces
      <3>10. CASE pc = "aborted"
        <4>1. Reads(c) /\ cl[c].pc # "upload" /\ cl[c].pc # "download"
          BY <1>w, <2>1, ReplyFacts
        <4>2. \A g \in Files \ Spoilt : InPlace(s.own[g])
          <5>1. InPlace(<<>>)
            BY DEF InPlace
          <5> QED BY <4>1, <5>1, <3>6, ClientFacts
        <4>3. closed' = closed \cup OwnConns(c) /\ s.pc \in {"exited", "aborted", "killed"}
          BY <3>5, <3>8, <3>10
        <4> QED BY <2>1, <3>5, <3>7, <4>1, <4>2, <4>3, EndPlacesAs
      <3> QED BY <3>4, <3>9, <3>10
    <2>5. CASE ~w
      <3> DEFINE s == [Client(c) EXCEPT !.pc = "prompt"]
      <3>1. /\ s \in ClientType /\ s.sock = Sock(c) /\ s.pc = "prompt" /\ s.own = cl[c].own
        BY <1>r, <1>w, <2>1 DEF ClientType
      <3>2. s.pc \notin ReplyTypes /\ "GET_REPLY" # "PUT_REPLY" /\ s.pc \notin {"upload", "download"}
        BY <1>w, <3>1
      <3>3. cl' = [cl EXCEPT ![c] = s] /\ closed' = closed
        BY <2>3, <2>5
      <3> HIDE DEF s
      <3> QED BY <1>w, <2>1, <2>2, <3>1, <3>2, <3>3, ReplyPlaces
    <2> QED BY <2>4, <2>5
  <1> QED BY <1>1, <1>2, <1>3, <1>4, <1>5, <1>6

\* A client takes a block it downloads, or sends a block it uploads.
LEMMA TransferPlaces ==
  ASSUME IInv, PlaceInv, NEW c \in Clients,
         Download(c) \/ DownloadNothing(c) \/ Upload(c), Leaving
  PROVE  PlaceInv'
  <1> DEFINE k == Sock(c)
  <1>0. /\ cl[c] \in ClientType /\ ClientsTyped /\ MailTyped /\ SafeInv /\ k = cl[c].sock
        /\ k \in Conn \cup {NoConn} /\ closed \subseteq Conn
    BY ClientFacts, TypeParts DEF IInv
  <1>p. \A f \in Files \ Spoilt : InPlace(cl[c].own[f]) \/ LeftShort(cl[c], toCli[k], f)
    BY ClientFacts
  <1>d. server \/ cl[c].pc # "download" \/ toCli[k] # <<>>
           => \A f \in Files \ Spoilt : InPlace(cl[c].own[f])
    BY ClientFacts
  <1>1. /\ cl[c].pc \in {"download", "upload"} /\ k \in Conn /\ k \notin closed
    <2>1. cl[c].pc \in {"download", "upload"}
      BY DEF Download, DownloadNothing, Upload
    <2>2. k # NoConn
      BY <2>1, <1>0 DEF SafeInv, Sockets
    <2> QED BY <2>1, <2>2, <1>0, ClientFacts
  <1>2. /\ toCli[k] \in Seq(Message) /\ toSrv[k] \in Seq(Message) /\ k \in OwnConns(c)
        /\ Serves(th[k], toSrv[k], Spoilt) /\ th[k] \in ThreadType /\ th[k].pos \in Nat
        /\ Talks(th[k], toSrv[k], toCli[k], cl[c], Spoilt)
        /\ Kills \/ Finishes(th[k], toSrv[k], k \notin closed /\ cl[c].pc = "upload")
    BY <1>1, ClientFacts
  <1>3. /\ Quiet(th[k], toSrv[k], toCli[k])
        /\ cl[c].pc = "download" => (Takes(th[k]) => HasEnd(toSrv[k]))
    BY <1>1, <1>2 DEF Talks, Ended
  <1>w. {"prompt", "download", "upload", "hung"} \subseteq ClientPc \ ReplyTypes
    BY DEF ClientPc, ReplyTypes
  \* What is left to show, when the socket stays open.
  <1>4. ASSUME NEW s \in ClientType, cl' = [cl EXCEPT ![c] = s], s.sock = k, s.pc \notin ReplyTypes,
               ServerSame, closed' = closed,
               \A j \in Conn : j # k => toSrv'[j] = toSrv[j] /\ toCli'[j] = toCli[j],
               \A f \in Files \ Spoilt : InPlace(s.own[f]) \/ LeftShort(s, toCli'[k], f),
               Serves(th[k], toSrv'[k], Spoilt),
               Kills \/ Finishes(th[k], toSrv'[k], s.pc = "upload"),
               Talks(th[k], toSrv'[k], toCli'[k], s, Spoilt)
        PROVE  PlaceInv'
    <2>1. Kills \/ Finishes(th[k], toSrv'[k], k \notin closed' /\ s.pc = "upload")
      BY <1>1, <1>4 DEF Finishes
    <2>2. closed \subseteq closed' /\ closed' \subseteq closed \cup OwnConns(c) /\ k \notin closed'
      BY <1>1, <1>4
    <2>3. k = Sock(c)
      OBVIOUS
    <2> HIDE DEF k
    <2> QED BY <1>4, <2>1, <2>2, <2>3, ClientFrame
  <1>5. CASE Download(c)
    <2> DEFINE m == Head(toCli[k])
               f == cl[c].name
    <2>1. /\ cl[c].pc = "download" /\ toCli[k] # <<>> /\ m.type \in {"DATA", "END"}
          /\ toCli' = [toCli EXCEPT ![k] = Tail(@)] /\ toSrv' = toSrv /\ closed' = closed
          /\ ServerSame
          /\ cl' = [cl EXCEPT ![c] =
                       IF m.type = "END" THEN [cl[c] EXCEPT !.pc = "prompt"]
                       ELSE [cl[c] EXCEPT !.own[f] = Append(@, m.block)]]
      BY <1>5 DEF Download, ServerSame, dirVars, bounds
    <2>p. \A g \in Files \ Spoilt : InPlace(cl[c].own[g])
      BY <1>d, <2>1
    <2>2. /\ toCli'[k] = Tail(toCli[k]) /\ m \in Message /\ m.block \in Blocks
          /\ \A j \in Conn : j # k => toSrv'[j] = toSrv[j] /\ toCli'[j] = toCli[j]
      BY <1>0, <1>1, <1>2, <2>1, Received DEF MailTyped, Message
    <2>3. Quiet(th[k], toSrv[k], Tail(toCli[k]))
      BY <1>2, <1>3, <2>1, Received DEF Quiet
    <2>4. /\ f \in Files /\ cl[c].own[f] \in Seq(Blocks) /\ Len(cl[c].own[f]) \in Nat
          /\ Follows(th[k], toCli[k], f, Len(cl[c].own[f]), Spoilt)
      <3>1. f \in Files
        BY <1>2, <2>1 DEF Talks, Downloads
      <3>2. cl[c].own[f] \in Seq(Blocks)
        BY <1>0, <3>1 DEF ClientType
      <3>3. Len(cl[c].own[f]) \in Nat
        BY <3>2
      <3> QED BY <3>1, <3>2, <3>3, <1>2, <2>1 DEF Talks, Downloads
    <2>5. CASE m.type = "END"
      <3> DEFINE s == [cl[c] EXCEPT !.pc = "prompt"]
      <3>1. /\ s \in ClientType /\ s.sock = k /\ s.own = cl[c].own /\ s.pc = "prompt"
            /\ cl' = [cl EXCEPT ![c] = s]
        BY <1>0, <1>w, <2>1, <2>5 DEF ClientType
      <3> HIDE DEF s, m
      <3>2. s.pc \notin ReplyTypes \cup {"download", "upload"}
        BY <1>w, <3>1
      <3>3. Talks(th[k], toSrv'[k], toCli'[k], s, Spoilt)
        BY <1>3, <2>1, <2>2, <2>3, <3>2, IdleTalks
      <3>4. Kills \/ Finishes(th[k], toSrv'[k], s.pc = "upload")
        BY <1>2, <2>1 DEF Finishes
      <3> QED BY <1>2, <1>4, <2>p, <2>1, <2>2, <3>1, <3>2, <3>3, <3>4
    <2>6. CASE m.type = "DATA"
      <3> DEFINE s == [cl[c] EXCEPT !.own[f] = Append(@, m.block)]
                 n == Len(cl[c].own[f])
      <3>1. [cl[c].own EXCEPT ![f] = Append(@, m.block)] \in [Files -> Seq(Blocks)]
        <4>1. Append(cl[c].own[f], m.block) \in Seq(Blocks)
          BY <2>2, <2>4
        <4> QED BY <4>1, <1>0 DEF ClientType
      <3>2. s = [cl[c] EXCEPT !.own = [cl[c].own EXCEPT ![f] = Append(@, m.block)]]
        BY <1>0 DEF ClientType
      <3>3. /\ s \in ClientType /\ s.sock = k /\ s.pc = "download" /\ s.name = f
            /\ s.own = [cl[c].own EXCEPT ![f] = Append(@, m.block)]
            /\ cl' = [cl EXCEPT ![c] = s]
        BY <1>0, <2>1, <2>6, <3>1, <3>2 DEF ClientType
      <3> HIDE DEF s
      <3>4. /\ s.own[f] = Append(cl[c].own[f], m.block) /\ Len(s.own[f]) = n + 1
            /\ \A g \in Files : g # f => s.own[g] = cl[c].own[g]
        <4>1. cl[c].own \in [Files -> Seq(Blocks)]
          BY <1>0 DEF ClientType
        <4>2. s.own[f] = Append(cl[c].own[f], m.block)
          BY <2>4, <3>3, <4>1
        <4>3. \A g \in Files : g # f => s.own[g] = cl[c].own[g]
          BY <3>3, <4>1
        <4>4. \A x \in Seq(Blocks), b \in Blocks : Len(Append(x, b)) = Len(x) + 1
          OBVIOUS
        <4> HIDE DEF f, k, m
        <4>5. Len(s.own[f]) = n + 1
          BY <2>2, <2>4, <4>2, <4>4
        <4> QED BY <4>2, <4>3, <4>5
      <3>5. f \notin Spoilt => AtPlace(m.block, n + 1) /\ Numbered(Tail(toCli[k]), n + 1)
        <4>1. f \notin Spoilt => Numbered(toCli[k], n)
          BY <2>4 DEF Follows
        <4> HIDE DEF n, k
        <4>2. n \in Nat
          BY <2>4 DEF n
        <4> QED BY <4>1, <4>2, <1>2, <2>1, <2>6, NumberedReceived
      <3>6. Follows(th[k], Tail(toCli[k]), f, n + 1, Spoilt)
        <4>1. /\ Len(toCli[k]) = Len(Tail(toCli[k])) + 1 /\ Len(Tail(toCli[k])) \in Nat
              /\ AllBlocks(toCli[k]) => AllBlocks(Tail(toCli[k]))
          BY <1>2, <2>1, Received
        <4>0. n \in Nat
          BY <2>4
        <4> HIDE DEF n, k, m
        <4>2. n + Len(toCli[k]) = n + 1 + Len(Tail(toCli[k]))
          <5>1. \A x, y, z \in Nat : x = y + 1 => z + x = z + 1 + y
            OBVIOUS
          <5>2. Len(toCli[k]) \in Nat
            BY <1>2
          <5> QED BY <5>1, <5>2, <4>0, <4>1, Zenon
        <4>3. Follows(th[k], toCli[k], f, n, Spoilt)
          BY <2>4 DEF n
        <4> QED BY <4>0, <4>1, <4>2, <4>3, <3>5 DEF Follows
      <3>7. Talks(th[k], toSrv'[k], toCli'[k], s, Spoilt)
        <4>1. Follows(th[k], Tail(toCli[k]), s.name, Len(s.own[s.name]), Spoilt)
          BY <3>3, <3>4, <3>6
        <4>2. toSrv'[k] = toSrv[k] /\ s.name \in Files /\ (Takes(th[k]) => HasEnd(toSrv[k]))
          BY <1>3, <2>1, <2>4, <3>3
        <4> HIDE DEF k, m, f, n
        <4> QED BY <2>2, <2>3, <3>3, <4>1, <4>2, DownloadTalks
      <3>8. \A g \in Files \ Spoilt : InPlace(s.own[g])
        <4>1. f \notin Spoilt => InPlace(s.own[f])
          BY <2>p, <2>2, <2>4, <3>4, <3>5, PlacedBlocks
        <4> QED BY <4>1, <2>p, <3>4
      <3>9. Kills \/ Finishes(th[k], toSrv'[k], s.pc = "upload")
        BY <1>2, <2>1 DEF Finishes
      <3>10. s.pc \notin ReplyTypes
        BY <1>w, <3>3
      <3> QED BY <1>2, <1>4, <2>1, <2>2, <3>3, <3>7, <3>8, <3>9, <3>10
    <2> QED BY <2>1, <2>5, <2>6
  <1>6. CASE DownloadNothing(c)
    <2>1. /\ cl[c].pc = "download" /\ toCli[k] = <<>> /\ th[k].pc = "ended"
          /\ toCli' = toCli /\ toSrv' = toSrv /\ ServerSame
      BY <1>6 DEF DownloadNothing, ServerSame, dirVars, bounds
    <2> DEFINE f == cl[c].name
               contents == cl[c].own[f]
    <2>f. f \in Files /\ contents \in Seq(Blocks) /\ cl[c].own \in [Files -> Seq(Blocks)]
      <3>1. f \in Files
        BY <1>2, <2>1 DEF Talks, Downloads
      <3> QED BY <3>1, <1>0 DEF ClientType
    <2>g. \A g \in Files \ Spoilt : g # f => InPlace(cl[c].own[g])
      BY <1>p DEF LeftShort
    <2>s. ~server
      BY <1>1, <2>1 DEF Leaving, Leaves
    <2>2. CASE /\ contents # <<>> /\ Len(contents) < MaxBlocks /\ closed' = closed
               /\ cl' = [cl EXCEPT ![c].own[f] = Append(contents, contents[Len(contents)])]
      <3> DEFINE longer == Append(contents, contents[Len(contents)])
                 own == [cl[c].own EXCEPT ![f] = longer]
                 s == [cl[c] EXCEPT !.own = own]
      <3>1. longer \in Seq(Blocks)
        BY <2>f, <2>2
      <3>2. cl' = [cl EXCEPT ![c] = s]
        BY <1>0, <2>2 DEF ClientsTyped
      <3> HIDE DEF longer
      <3>3. own \in [Files -> Seq(Blocks)] /\ \A g \in Files : g # f => own[g] = cl[c].own[g]
        BY <2>f, <3>1
      <3> HIDE DEF own
      <3>4. s \in ClientType /\ s.sock = k /\ s.own = own /\ s.pc = "download" /\ s.name = f
        BY <1>0, <2>1, <3>3 DEF ClientType
      <3> HIDE DEF s
      <3>5. toCli'[k] = <<>> /\ toSrv'[k] = toSrv[k] /\ ~Takes(th[k])
        BY <2>1 DEF Takes
      <3>6. Talks(th[k], toSrv'[k], toCli'[k], s, Spoilt)
        <4>1. Follows(th[k], <<>>, s.name, Len(s.own[s.name]), Spoilt)
          BY <2>1, NothingSent DEF Follows
        <4>2. Quiet(th[k], toSrv[k], <<>>) /\ s.name \in Files
          BY <1>3, <2>1, <2>f, <3>4
        <4> HIDE DEF k, f
        <4>3. Talks(th[k], toSrv[k], <<>>, s, Spoilt)
          BY <3>4, <3>5, <4>1, <4>2, DownloadTalks
        <4> QED BY <3>5, <4>3
      <3>7. \A g \in Files \ Spoilt : InPlace(s.own[g]) \/ LeftShort(s, toCli'[k], g)
        BY <2>g, <2>s, <3>3, <3>4, <3>5 DEF LeftShort
      <3>8. Kills \/ Finishes(th[k], toSrv'[k], s.pc = "upload")
        BY <3>5 DEF Finishes
      <3>9. s.pc \notin ReplyTypes /\ closed' = closed
        BY <1>w, <2>2, <3>4
      <3> QED BY <1>2, <1>4, <2>1, <3>2, <3>4, <3>6, <3>7, <3>8, <3>9
    <2>p. contents = <<>> => \A g \in Files \ Spoilt : InPlace(cl[c].own[g])
      <3>1. InPlace(<<>>)
        BY DEF InPlace
      <3> QED BY <3>1, <2>g
    <2>3. CASE contents = <<>> /\ cl' = [cl EXCEPT ![c].pc = "prompt"] /\ closed' = closed
      <3> DEFINE s == [cl[c] EXCEPT !.pc = "prompt"]
      <3>1. /\ s \in ClientType /\ s.sock = k /\ s.own = cl[c].own /\ s.pc = "prompt"
            /\ cl' = [cl EXCEPT ![c] = s]
        BY <1>0, <1>w, <2>3 DEF ClientType, ClientsTyped
      <3> HIDE DEF s
      <3>2. s.pc \notin ReplyTypes \cup {"download", "upload"}
        BY <1>w, <3>1
      <3>3. Talks(th[k], toSrv'[k], toCli'[k], s, Spoilt)
        BY <1>3, <2>1, <3>2, IdleTalks
      <3>4. Kills \/ Finishes(th[k], toSrv'[k], s.pc = "upload")
        BY <1>2, <2>1 DEF Finishes
      <3>5. \A g \in Files \ Spoilt : InPlace(s.own[g])
        BY <2>p, <2>3, <3>1
      <3> QED BY <1>2, <1>4, <2>1, <2>3, <3>1, <3>2, <3>3, <3>4, <3>5
    <2>4. CASE contents = <<>> /\ ClientEnds(c, "aborted")
      <3> DEFINE s == [cl[c] EXCEPT !.pc = "aborted"]
      <3>1. "aborted" \in ClientPc
        BY DEF ClientPc
      <3>2. /\ s \in ClientType /\ s.sock = k /\ s.own = cl[c].own /\ s.pc = "aborted"
            /\ cl' = [cl EXCEPT ![c] = s] /\ closed' = closed \cup OwnConns(c)
        BY <1>0, <2>4, <3>1 DEF ClientEnds, ClientType, ClientsTyped
      <3> HIDE DEF s
      <3>3. Reads(c) /\ cl[c].pc # "upload"
        BY <2>1 DEF Reads
      <3>4. \A g \in Files \ Spoilt : InPlace(s.own[g])
        BY <2>p, <2>4, <3>2
      <3> QED BY <2>1, <3>2, <3>3, <3>4, EndPlacesAs
    <2> QED BY <1>6, <2>2, <2>3, <2>4 DEF DownloadNothing
  <1>7. CASE Upload(c)
    <2> DEFINE f == cl[c].name
               contents == cl[c].own[f]
               i == cl[c].pos + 1
    <2>1. /\ cl[c].pc = "upload" /\ toCli' = toCli /\ ServerSame
          /\ IF i <= Len(contents)
             THEN Ask(c, [cl[c] EXCEPT !.pos = i], Data(contents[i]))
             ELSE Ask(c, [cl[c] EXCEPT !.pc = "prompt"], Plain("END"))
      BY <1>7 DEF Upload, ServerSame, dirVars, bounds
    <2>2. f \in Files /\ contents \in Seq(Blocks) /\ i \in Nat \ {0} /\ i = cl[c].pos + 1
          /\ cl[c].pos \in Nat
      BY <1>0, <2>1 DEF SafeInv, Sockets, ClientType
    <2>3. /\ Uploads(th[k], toSrv[k], cl[c])
      BY <1>2 DEF Talks
    <2>4. PICK s \in ClientType, m \in Message :
             /\ Ask(c, s, m) /\ s.sock = k /\ s.own = cl[c].own
             /\ \/ /\ s.pc = "upload" /\ s.pos = i /\ s.name = f /\ m.type = "DATA"
                   /\ f \notin Spoilt => AtPlace(m.block, i)
                \/ s.pc = "prompt" /\ m.type = "END"
      <3>1. CASE i <= Len(contents)
        <4> DEFINE s == [cl[c] EXCEPT !.pos = i]
                   m == Data(contents[i])
        <4>1. contents[i] \in Blocks /\ i \in 1..Len(contents)
          BY <2>2, <3>1
        <4>2. m \in Message /\ m.type = "DATA" /\ m.block = contents[i]
          BY <4>1, MessagesTyped DEF Data, Plain
        <4>3. /\ s \in ClientType /\ s.sock = k /\ s.pc = "upload" /\ s.pos = i /\ s.name = f
              /\ s.own = cl[c].own
          BY <1>0, <2>1, <2>2 DEF ClientType
        <4>4. f \notin Spoilt => AtPlace(contents[i], i)
          <5>1. f \notin Spoilt => InPlace(contents)
            BY <1>d, <2>1, <2>2
          <5>2. \A b \in Blocks, p \in Seq(Blocks) :
                   InPlace(p) => \A j \in 1..Len(p) : AtPlace(p[j], j)
            BY PlacedBlocks
          <5> HIDE DEF contents, i
          <5> QED BY <5>1, <5>2, <4>1, <2>2
        <4>5. Ask(c, s, m)
          BY <2>1, <3>1
        <4> HIDE DEF s, m
        <4> QED BY <4>2, <4>3, <4>4, <4>5
      <3>2. CASE ~(i <= Len(contents))
        <4> DEFINE s == [cl[c] EXCEPT !.pc = "prompt"]
        <4>1. Plain("END") \in Message /\ Plain("END").type = "END"
          BY MessagesTyped
        <4>2. s \in ClientType /\ s.sock = k /\ s.pc = "prompt" /\ s.own = cl[c].own
          BY <1>0, <1>w DEF ClientType
        <4>3. Ask(c, s, Plain("END"))
          BY <2>1, <3>2
        <4> HIDE DEF s
        <4> QED BY <4>1, <4>2, <4>3
      <3> QED BY <3>1, <3>2
    <2> HIDE DEF contents, i
    <2>5. m.type \in FileData /\ s.pc \in {"upload", "prompt"} /\ s.pc \notin ReplyTypes
      BY <1>w, <2>4 DEF FileData
    <2>6. \A g \in Files \ Spoilt : InPlace(s.own[g])
      BY <1>d, <2>1, <2>4
    <2>7. CASE th[k].pc # "ended" /\ toSrv' = [toSrv EXCEPT ![k] = Append(@, m)]
               /\ cl' = [cl EXCEPT ![c] = s] /\ closed' = closed
      <3> DEFINE p == Append(toSrv[k], m)
      <3>1. toSrv'[k] = p /\ \A j \in Conn : j # k => toSrv'[j] = toSrv[j] /\ toCli'[j] = toCli[j]
        BY <1>0, <1>1, <2>1, <2>7 DEF MailTyped
      <3>2. OnlyData(toSrv[k]) /\ OnlyData(p) /\ RequestLast(p) /\ OnlyData(toCli[k])
        BY <1>2, <1>3, <2>5, <2>7, Sent DEF Quiet
      <3>3. Quiet(th[k], p, toCli[k])
        BY <3>2 DEF Quiet
      <3>4. /\ Len(p) = Len(toSrv[k]) + 1 /\ Len(toSrv[k]) \in Nat /\ Taken(th[k]) \in Nat
            /\ AllBlocks(p) <=> AllBlocks(toSrv[k]) /\ m.type = "DATA"
            /\ HasEnd(p) <=> HasEnd(toSrv[k]) \/ m.type = "END"
        BY <1>2, Sent DEF Taken
      <3>5. Takes(th[k]) => /\ AllBlocks(toSrv[k]) /\ th[k].name = f
                            /\ cl[c].pos = Len(toSrv[k]) + Taken(th[k])
        BY <2>1, <2>3 DEF Uploads
      <3>6. Talks(th[k], p, toCli[k], s, Spoilt)
        <4>1. CASE s.pc = "upload"
          <5>1. m.type = "DATA" /\ s.pos = i /\ s.name = f
            BY <2>4, <4>1
          <5>2. Takes(th[k]) => AllBlocks(p) /\ th[k].name = s.name /\ s.pos = Len(p) + Taken(th[k])
            <6>1. Takes(th[k]) => s.pos = Len(p) + Taken(th[k])
              BY <2>2, <3>4, <3>5, <5>1
            <6> QED BY <6>1, <3>4, <3>5, <5>1
          <5> HIDE DEF p, k
          <5> QED BY <3>3, <4>1, <5>2, UploadTalks
        <4>2. CASE s.pc = "prompt"
          <5>1. s.pc \notin ReplyTypes \cup {"download", "upload"} /\ HasEnd(p)
            BY <2>4, <2>5, <3>4, <4>2
          <5> HIDE DEF p, k
          <5> QED BY <3>3, <5>1, IdleTalks
        <4> QED BY <4>1, <4>2, <2>5
      <3>7. Serves(th[k], p, Spoilt)
        <4>1. ASSUME Takes(th[k]), th[k].name \notin Spoilt PROVE Numbered(p, Taken(th[k]))
          <5>1. Numbered(toSrv[k], Taken(th[k]))
            BY <1>2, <2>7, <4>1 DEF Serves
          <5>2. m.type = "DATA" => AtPlace(m.block, Taken(th[k]) + Len(toSrv[k]) + 1)
            <6>1. i = Taken(th[k]) + Len(toSrv[k]) + 1
              BY <2>2, <3>4, <3>5, <4>1
            <6>2. m.type = "DATA" => AtPlace(m.block, i)
              BY <2>4, <3>5, <4>1
            <6> QED BY <6>1, <6>2
          <5> QED BY <5>1, <5>2, <1>2, <3>4, NumberedSent
        <4> QED BY <4>1, <1>2, <2>7, <3>2 DEF Serves
      <3>8. Kills \/ Finishes(th[k], p, s.pc = "upload")
        BY <2>4, <3>4 DEF Finishes
      <3> HIDE DEF p
      <3> QED BY <1>4, <2>1, <2>4, <2>5, <2>6, <2>7, <3>1, <3>6, <3>7, <3>8
    <2>8. CASE th[k].pc = "ended" /\ toSrv' = toSrv /\ cl' = [cl EXCEPT ![c] = s] /\ closed' = closed
      <3>1. ~Takes(th[k])
        BY <2>8 DEF Takes
      <3>2. Talks(th[k], toSrv[k], toCli[k], s, Spoilt)
        <4>1. CASE s.pc = "upload"
          <5> HIDE DEF k
          <5> QED BY <1>3, <3>1, <4>1, UploadTalks
        <4>2. CASE s.pc = "prompt"
          <5>1. s.pc \notin ReplyTypes \cup {"download", "upload"}
            BY <2>5, <4>2
          <5> HIDE DEF k
          <5> QED BY <1>3, <3>1, <5>1, IdleTalks
        <4> QED BY <4>1, <4>2, <2>5
      <3>3. Finishes(th[k], toSrv[k], s.pc = "upload")
        BY <3>1 DEF Finishes
      <3> QED BY <1>2, <1>4, <2>1, <2>4, <2>5, <2>6, <2>8, <3>2, <3>3
    <2>9. CASE th[k].pc = "ended" /\ ClientEnds(c, "killed") /\ toSrv' = toSrv
      <3>1. Reads(c) /\ cl[c].pc # "download"
        BY <2>1 DEF Reads
      <3> QED BY <2>1, <2>9, <3>1, EndPlaces
    <2> QED BY <2>4, <2>7, <2>8, <2>9 DEF Ask
  <1> QED BY <1>5, <1>6, <1>7

\* A new connection: nothing is on its way but OPEN.
LEMMA OpenPlaces ==
  ASSUME IInv, PlaceInv, NEW c \in Clients, Open(c)
  PROVE  PlaceInv'
  <1> DEFINE k == <<c, used[c] + 1>>
             s == [cl[c] EXCEPT !.pc = "OPEN_REPLY", !.sock = k, !.connected = FALSE]
             t == [th[k] EXCEPT !.pc = "recv"]
             q == <<Plain("OPEN")>>
  <1>0. ThreadsTyped /\ ClientsTyped /\ MailTyped /\ SetsTyped /\ SafeInv
    BY TypeParts DEF IInv
  <1>1. /\ cl[c].pc = "prompt" /\ used[c] < MaxOpens /\ server
        /\ cl' = [cl EXCEPT ![c].pc = "OPEN_REPLY", ![c].sock = k, ![c].connected = FALSE]
        /\ th' = [th EXCEPT ![k].pc = "recv"] /\ toSrv' = [toSrv EXCEPT ![k] = q]
        /\ used' = [used EXCEPT ![c] = @ + 1]
        /\ UNCHANGED <<server, filedir, toCli, closed>>
    BY DEF Open, Command, dirVars
  <1>2. cl[c] \in ClientType
    BY ClientFacts
  <1>3. /\ used[c] \in Nat /\ used[c] + 1 \in 1..MaxOpens /\ used[c] + 1 > used[c] /\ k \in Conn
        /\ k[1] = c /\ k[2] = used[c] + 1
    <2>1. used[c] \in Nat /\ used[c] + 1 \in 1..MaxOpens /\ used[c] + 1 > used[c]
      BY <1>0, <1>1, FtpAssumption DEF ClientsTyped
    <2> QED BY <2>1, ConnFacts
  <1>4. toCli[k] = <<>> /\ th[k].pc = "none" /\ k \notin closed
    <2>1. toCli[k] = <<>> /\ th[k].pc = "none"
      BY <1>0, <1>1, <1>3 DEF SafeInv, Sockets
    <2>2. k \notin closed
      BY <1>3 DEF PlaceInv, ClosedSockets
    <2> QED BY <2>1, <2>2
  <1>5. /\ t.pc = "recv" /\ th' = [th EXCEPT ![k] = t]
        /\ cl' = [cl EXCEPT ![c] = s] /\ s.sock = k /\ s.pc = "OPEN_REPLY" /\ s.own = cl[c].own
    <2>1. th[k] \in ThreadType
      BY <1>0, <1>3 DEF ThreadsTyped
    <2> HIDE DEF k
    <2>2. t.pc = "recv" /\ th' = [th EXCEPT ![k] = t]
      BY <1>0, <1>1, <1>3, <2>1 DEF ThreadType, ThreadsTyped
    <2>3. /\ cl' = [cl EXCEPT ![c] = s] /\ s.sock = k /\ s.pc = "OPEN_REPLY"
          /\ s.own = cl[c].own
      BY <1>0, <1>1, <1>2 DEF ClientType, ClientsTyped
    <2> QED BY <2>2, <2>3
  <1>6. /\ Len(q) = 1 /\ q[1].type = "OPEN"
    BY DEF Plain
  <1>7. ~Takes(t) /\ Serves(t, q, Spoilt') /\ Talks(t, q, <<>>, s, Spoilt')
    <2> HIDE DEF q, s, t, k
    <2>1. ~Takes(t) /\ RequestLast(q) /\ NoData(q) /\ \A i \in 1..Len(q) : q[i].type = "OPEN"
      BY <1>5, <1>6 DEF Takes, RequestLast, NoData, FileData
    <2>2. OnlyData(<<>>) /\ NoData(<<>>) /\ OneReply(<<>>)
      BY DEF OnlyData, NoData, OneReply
    <2>3. Awaits(t, q, <<>>) /\ Opens(t, q, <<>>) /\ Asked(t, q, s)
      BY <1>5, <2>1, <2>2 DEF Awaits, Opens, Asked
    <2>4. Uploads(t, q, s) /\ Downloads(t, <<>>, s, Spoilt') /\ Ended(t, q, s)
      BY <1>5, <2>1 DEF Uploads, Downloads, Ended
    <2> QED BY <1>5, <2>1, <2>3, <2>4 DEF Talks, Serves, Takes
  <1> HIDE DEF s, t, q
  <1>8. /\ toSrv'[k] = q /\ th'[k] = t /\ cl'[c] = s /\ toCli'[k] = <<>> /\ Sock(c)' = k
        /\ \A j \in Conn : j # k => th'[j] = th[j] /\ toSrv'[j] = toSrv[j] /\ toCli'[j] = toCli[j]
        /\ \A d \in Clients : d # c => cl'[d] = cl[d] /\ Sock(d)' = Sock(d) /\ used'[d] = used[d]
        /\ used'[c] = used[c] + 1 /\ closed' = closed /\ filedir' = filedir
    BY <1>0, <1>1, <1>3, <1>4, <1>5 DEF ThreadsTyped, MailTyped, ClientsTyped, Sock
  <1>9. \A d \in Clients : d # c => Sock(d) # k
    <2> SUFFICES ASSUME NEW d \in Clients, d # c, Sock(d) = k PROVE FALSE
      OBVIOUS
    <2>1. Sock(d) \in OwnConns(d)
      BY <1>0, <1>3, ConnFacts DEF SafeInv, Sockets
    <2>2. Sock(d)[1] = d
      BY <1>0, <2>1, OwnFacts DEF ClientsTyped
    <2> QED BY <2>2, <1>3
  <1>10. Spoilt \subseteq Spoilt'
    <2>1. ASSUME NEW j \in Conn, Runaway(j) PROVE Runaway(j)' /\ th'[j].name = th[j].name
      <3>1. j # k
        BY <2>1, <1>4 DEF Runaway
      <3> QED BY <2>1, <3>1, <1>8 DEF Runaway
    <2>2. server' = server
      BY <1>1
    <2> QED BY <2>1, <2>2, SpoiltGrows
  <1>11. Placed'
    <2>1. \A d \in Clients : cl'[d].own = cl[d].own
      BY <1>5, <1>8
    <2> QED BY <2>1, <1>1, <1>8, <1>10 DEF PlaceInv, Placed, CutShort
  <1>12. ClosedSockets'
    <2> HIDE DEF k
    <2>1. ASSUME NEW d \in Clients, Sock(d)' \in closed'
          PROVE  /\ cl'[d].pc \notin ReplyTypes \cup {"download", "upload"}
                 /\ cl'[d].pc = "prompt" => ~cl'[d].authenticated
      <3>1. d # c
        BY <2>1, <1>4, <1>8
      <3> QED BY <2>1, <3>1, <1>8 DEF PlaceInv, ClosedSockets
    <2>2. ASSUME NEW d \in Clients, NEW i \in 1..MaxOpens, i > used'[d]
          PROVE  <<d, i>> \notin closed'
      <3>1. i > used[d]
        BY <2>2, <1>3, <1>8, FtpAssumption
      <3> QED BY <3>1, <1>8 DEF PlaceInv, ClosedSockets
    <2> QED BY <2>1, <2>2 DEF ClosedSockets
  <1>13. Conversations'
    <2> SUFFICES ASSUME NEW d \in Clients, Live(d)'
                 PROVE  Talks(th[Sock(d)], toSrv[Sock(d)], toCli[Sock(d)], cl[d], Spoilt)'
      BY DEF Conversations
    <2>1. CASE d = c
      BY <2>1, <1>7, <1>8
    <2>2. CASE d # c
      <3> HIDE DEF k
      <3>1. Sock(d)' = Sock(d) /\ Sock(d) \in Conn /\ Sock(d) # k /\ Live(d)
        BY <2>2, <1>8, <1>9 DEF Live
      <3>2. Talks(th[Sock(d)], toSrv[Sock(d)], toCli[Sock(d)], cl[d], Spoilt)
        BY <3>1 DEF PlaceInv, Conversations
      <3>3. /\ th'[Sock(d)] = th[Sock(d)] /\ toSrv'[Sock(d)] = toSrv[Sock(d)]
            /\ toCli'[Sock(d)] = toCli[Sock(d)] /\ cl'[d] = cl[d]
        BY <2>2, <3>1, <1>8
      <3>4. Talks(th[Sock(d)], toSrv[Sock(d)], toCli[Sock(d)], cl[d], Spoilt')
        BY <3>2, <1>10, MoreSpoilt
      <3> QED BY <3>1, <3>3, <3>4
    <2> QED BY <2>1, <2>2
  <1>14. Service'
    <2> SUFFICES ASSUME NEW j \in Conn PROVE Serves(th'[j], toSrv'[j], Spoilt')
      BY DEF Service
    <2>1. CASE j = k
      BY <2>1, <1>7, <1>8
    <2>2. CASE j # k
      <3>1. Serves(th[j], toSrv[j], Spoilt)
        BY DEF PlaceInv, Service
      <3>2. Serves(th[j], toSrv[j], Spoilt')
        BY <3>1, <1>10, MoreSpoilt
      <3> QED BY <2>2, <3>2, <1>8
    <2> QED BY <2>1, <2>2
  <1>15. Finishing'
    <2> SUFFICES ASSUME ~Kills, NEW j \in Conn PROVE Finishes(th'[j], toSrv'[j], Uploading(j)')
      BY DEF Finishing
    <2>1. CASE j = k
      BY <2>1, <1>7, <1>8 DEF Finishes
    <2>2. CASE j # k
      <3> HIDE DEF k
      <3>1. Finishes(th[j], toSrv[j], Uploading(j))
        BY DEF PlaceInv, Finishing
      <3>2. j[1] \in Clients
        BY DEF Conn
      <3>3. Uploading(j) => Uploading(j)'
        BY <3>2, <1>1, <1>8 DEF Uploading
      <3> QED BY <2>2, <3>1, <3>3, <1>8 DEF Finishes
    <2> QED BY <2>1, <2>2
  <1> QED BY <1>11, <1>12, <1>13, <1>14, <1>15 DEF PlaceInv

-----------------------------------------------------------------------------
(* Who is leaving *)

LEMMA QuitSaid ==
  /\ ~HasQuit(<<>>)
  /\ \A q \in Seq(Message), m \in Message : HasQuit(Append(q, m)) <=> HasQuit(q) \/ m.type = "QUIT"
  /\ \A q \in Seq(Message) : q # <<>> =>
        /\ HasQuit(Tail(q)) => HasQuit(q)
        /\ Head(q).type = "QUIT" => HasQuit(q)
  <1>1. \A q : HasQuit(q) <=> Has(q, "QUIT")
    BY DEF HasQuit, Has
  <1> HIDE DEF HasQuit
  <1> QED BY <1>1, EmptyHas, AppendHas, TailHas

\* A thread that goes on as u, over a request or not, or the end of the server.
ThreadGoesOn(k, u) ==
    \/ ~server'
    \/ /\ server' = server /\ th' = [th EXCEPT ![k] = u]
       /\ u.pc = "ended" => HasQuit(toSrv[k])

LEMMA AnswerGoesOn ==
  ASSUME NEW k, NEW u, NEW m, Answer(k, u, m), u.pc = "ended" => HasQuit(toSrv[k])
  PROVE  ThreadGoesOn(k, u)
  BY DEF Answer, ServerEnds, ThreadGoesOn

LEMMA ThreadsGoOn ==
  ASSUME IInv, NEW k \in Conn, ThreadStep(k)
  PROVE  cl' = cl /\ Consumes(k) /\ \E u : ThreadGoesOn(k, u)
  <1>0. th[k] \in ThreadType /\ ThreadsTyped /\ MailTyped /\ Threads
    BY TypeParts DEF IInv, ThreadsTyped, SafeInv
  <1>1. ASSUME NEW type, Receives(k, type)
        PROVE  /\ Thread(k) \in ThreadType /\ Thread(k).pc = "recv" /\ Consumes(k)
               /\ th[k].pc = "recv"
    BY <1>1, RequestFacts
  <1>2. CASE HandleOpen(k)
    BY <1>1, <1>2, AnswerGoesOn DEF HandleOpen
  <1>3. CASE HandleAuth(k)
    <2> DEFINE u == [Thread(k) EXCEPT !.auth = Request(k).ok]
    <2>1. Receives(k, "AUTH") /\ Answer(k, u, Status("AUTH_REPLY", Request(k).ok)) /\ cl' = cl
      BY <1>3 DEF HandleAuth
    <2>2. u.pc = "recv"
      BY <1>1, <2>1 DEF ThreadType
    <2> HIDE DEF u
    <2> QED BY <1>1, <2>1, <2>2, AnswerGoesOn
  <1>4. CASE HandleRefused(k)
    BY <1>1, <1>4, AnswerGoesOn DEF HandleRefused
  <1>5. CASE HandleList(k)
    BY <1>1, <1>5, AnswerGoesOn DEF HandleList
  <1>6. CASE HandleGet(k)
    <2> DEFINE f == Request(k).name
               found == f \in present \cup {Directory}
               u == IF found THEN [Thread(k) EXCEPT !.pc = "getdata", !.name = f, !.pos = 0]
                             ELSE Thread(k)
    <2>1. Receives(k, "GET") /\ Answer(k, u, Status("GET_REPLY", found)) /\ cl' = cl
      BY <1>6 DEF HandleGet
    <2>2. u.pc # "ended"
      BY <1>1, <2>1 DEF ThreadType
    <2> HIDE DEF u
    <2> QED BY <1>1, <2>1, <2>2, AnswerGoesOn
  <1>7. CASE HandlePut(k)
    <2> DEFINE u == [Thread(k) EXCEPT !.pc = "putopen", !.name = Request(k).name]
    <2>1. Receives(k, "PUT") /\ Answer(k, u, Plain("PUT_REPLY")) /\ cl' = cl
      BY <1>7 DEF HandlePut
    <2>2. u.pc # "ended"
      BY <1>1, <2>1 DEF ThreadType
    <2> HIDE DEF u
    <2> QED BY <1>1, <2>1, <2>2, AnswerGoesOn
  <1>8. CASE HandleQuit(k)
    <2> DEFINE u == [Thread(k) EXCEPT !.pc = "ended"]
    <2>1. Receives(k, "QUIT") /\ Answer(k, u, Plain("QUIT_REPLY")) /\ cl' = cl
      BY <1>8 DEF HandleQuit
    <2>2. th[k].last.type # "QUIT" /\ th[k].last \in Message
      BY <1>0, <1>1, <2>1 DEF Threads, ThreadType
    <2>3. toSrv[k] # <<>> /\ Head(toSrv[k]).type = "QUIT"
      BY <2>1, <2>2, ClearedTyped DEF Receives, Request
    <2>4. HasQuit(toSrv[k])
      BY <1>0, <2>3, QuitSaid DEF MailTyped
    <2> HIDE DEF u
    <2> QED BY <1>1, <2>1, <2>4, AnswerGoesOn
  <1>9. CASE HandleUnknown(k)
    <2> DEFINE u == [Thread(k) EXCEPT !.pc = "left"]
    <2>1. PICK type : Receives(k, type)
      BY <1>9 DEF HandleUnknown
    <2>2. th' = [th EXCEPT ![k] = u] /\ server' = server /\ cl' = cl
      BY <1>9 DEF HandleUnknown
    <2>3. u.pc = "left"
      BY <1>1, <2>1 DEF ThreadType
    <2> HIDE DEF u
    <2> QED BY <1>1, <2>1, <2>2, <2>3 DEF ThreadGoesOn
  <1>10. CASE SendBlock(k)
    <2>1. /\ Consumes(k) /\ cl' = cl /\ th[k].pc = "getdata"
          /\ \/ \E i, m : Answer(k, [th[k] EXCEPT !.pos = i], m)
             \/ \E m : Answer(k, [th[k] EXCEPT !.pc = "recv"], m)
      BY <1>10 DEF SendBlock, Consumes
    <2>2. \A i : [th[k] EXCEPT !.pos = i].pc # "ended"
      BY <1>0, <2>1 DEF ThreadType
    <2>3. [th[k] EXCEPT !.pc = "recv"].pc # "ended"
      BY <1>0 DEF ThreadType
    <2>4. CASE \E i, m : Answer(k, [th[k] EXCEPT !.pos = i], m)
      <3>1. PICK i, m : Answer(k, [th[k] EXCEPT !.pos = i], m)
        BY <2>4
      <3> DEFINE u == [th[k] EXCEPT !.pos = i]
      <3>2. u.pc # "ended" /\ Answer(k, u, m)
        BY <2>2, <3>1
      <3> HIDE DEF u
      <3> QED BY <2>1, <3>2, AnswerGoesOn
    <2>5. CASE \E m : Answer(k, [th[k] EXCEPT !.pc = "recv"], m)
      <3>1. PICK m : Answer(k, [th[k] EXCEPT !.pc = "recv"], m)
        BY <2>5
      <3> DEFINE u == [th[k] EXCEPT !.pc = "recv"]
      <3>2. u.pc # "ended" /\ Answer(k, u, m)
        BY <2>3, <3>1
      <3> HIDE DEF u
      <3> QED BY <2>1, <3>2, AnswerGoesOn
    <2> QED BY <2>1, <2>4, <2>5
  <1>11. CASE OpenForPut(k)
    <2> DEFINE u == [th[k] EXCEPT !.pc = "putdata", !.pos = 0, !.data = NoMessage]
    <2>1. /\ th' = [th EXCEPT ![k].pc = "putdata", ![k].pos = 0, ![k].data = NoMessage]
          /\ server' = server /\ cl' = cl /\ Consumes(k)
      BY <1>11 DEF OpenForPut, wire, Consumes
    <2>2. th' = [th EXCEPT ![k] = u] /\ u.pc = "putdata"
      BY <1>0, <2>1 DEF ThreadsTyped, ThreadType
    <2> HIDE DEF u
    <2> QED BY <2>1, <2>2 DEF ThreadGoesOn
  <1>12. CASE OpenForPutFails(k)
    <2>1. ~server' /\ cl' = cl /\ Consumes(k)
      BY <1>12 DEF OpenForPutFails, ServerEnds, wire, Consumes
    <2> QED BY <2>1 DEF ThreadGoesOn
  <1>13. ASSUME NEW m, StoreBlock(k, m), th[k].pc = "putdata"
         PROVE  \E u : ThreadGoesOn(k, u)
    <2> DEFINE u == [th[k] EXCEPT !.pos = th[k].pos + 1, !.data = m]
    <2>1. /\ th' = [th EXCEPT ![k].pos = th[k].pos + 1, ![k].data = m] /\ server' = server
      BY <1>13 DEF StoreBlock
    <2>2. th' = [th EXCEPT ![k] = u] /\ u.pc = "putdata"
      BY <1>0, <1>13, <2>1 DEF ThreadsTyped, ThreadType
    <2> HIDE DEF u
    <2> QED BY <2>1, <2>2 DEF ThreadGoesOn
  <1>14. ASSUME th' = [th EXCEPT ![k].pc = "recv"], server' = server
         PROVE  \E u : ThreadGoesOn(k, u)
    <2> DEFINE u == [th[k] EXCEPT !.pc = "recv"]
    <2>1. th' = [th EXCEPT ![k] = u] /\ u.pc = "recv"
      BY <1>0, <1>14 DEF ThreadsTyped, ThreadType
    <2> HIDE DEF u
    <2> QED BY <1>14, <2>1 DEF ThreadGoesOn
  <1>15. CASE RecvBlock(k)
    <2>1. /\ th[k].pc = "putdata" /\ Consumes(k) /\ cl' = cl
      BY <1>15 DEF RecvBlock, Consumes
    <2> QED BY <1>13, <1>14, <1>15, <2>1 DEF RecvBlock
  <1>16. CASE RecvNothing(k)
    <2>1. /\ th[k].pc = "putdata" /\ Consumes(k) /\ cl' = cl
      BY <1>16 DEF RecvNothing, wire, Consumes
    <2>2. CASE ServerEnds
      BY <2>1, <2>2 DEF ServerEnds, ThreadGoesOn
    <2> QED BY <1>13, <1>14, <1>16, <2>1, <2>2 DEF RecvNothing
  <1> QED BY <1>2, <1>3, <1>4, <1>5, <1>6, <1>7, <1>8, <1>9, <1>10, <1>11, <1>12, <1>15, <1>16
          DEF ThreadStep

LEMMA ThreadLeaves ==
  ASSUME IInv, Leaving, NEW k \in Conn, ThreadStep(k)
  PROVE  Leaving'
  <1>1. PICK u : cl' = cl /\ Consumes(k) /\ ThreadGoesOn(k, u)
    BY ThreadsGoOn
  <1>2. CASE ~server'
    BY <1>2 DEF Leaving
  <1>3. CASE server' /\ server /\ th' = [th EXCEPT ![k] = u] /\ (u.pc = "ended" => HasQuit(toSrv[k]))
    <2>1. /\ th'[k] = u /\ \A j \in Conn : j # k => th'[j] = th[j] /\ toSrv'[j] = toSrv[j]
          /\ HasQuit(toSrv'[k]) => HasQuit(toSrv[k])
      BY <1>1, <1>3, TypeParts, QuitSaid DEF IInv, ThreadsTyped, MailTyped, Consumes
    <2>2. \A c \in Clients : Sock(c)' = Sock(c)
      BY <1>1 DEF Sock
    <2>3. ASSUME NEW c \in Clients, Sock(c) \in Conn
          PROVE  Leaves(th'[Sock(c)], toSrv'[Sock(c)], cl'[c])
      <3>1. Leaves(th[Sock(c)], toSrv[Sock(c)], cl[c])
        BY <1>3, <2>3 DEF Leaving
      <3> QED BY <1>1, <1>3, <2>1, <2>3, <3>1 DEF Leaves
    <2> QED BY <2>2, <2>3 DEF Leaving
  <1> QED BY <1>1, <1>2, <1>3 DEF ThreadGoesOn

\* A client goes on as v, and has sent what is new in q.
LEMMA ClientLeavesAs ==
  ASSUME IInv, Leaving, NEW c \in Clients, NEW v, cl' = [cl EXCEPT ![c] = v], v.sock = Sock(c),
         server' = server, th' = th, NEW q, toSrv' = [toSrv EXCEPT ![Sock(c)] = q],
         server /\ Sock(c) \in Conn => Leaves(th[Sock(c)], q, v)
  PROVE  Leaving'
  <1>0. ClientsTyped /\ MailTyped /\ SafeInv
    BY TypeParts DEF IInv
  <1>1. cl'[c] = v /\ \A d \in Clients : d # c => cl'[d] = cl[d]
    BY <1>0 DEF ClientsTyped
  <1>2. \A d \in Clients : Sock(d)' = Sock(d)
    BY <1>1 DEF Sock
  <1>3. ASSUME server, NEW d \in Clients, Sock(d) \in Conn
        PROVE  Leaves(th[Sock(d)], toSrv'[Sock(d)], cl'[d])
    <2>1. CASE d = c
      <3>1. toSrv'[Sock(d)] = q
        BY <1>0, <1>3, <2>1 DEF MailTyped
      <3> QED BY <1>1, <1>3, <2>1, <3>1
    <2>2. CASE d # c
      <3>1. Sock(d) # Sock(c)
        BY <1>0, <1>3, <2>2, OtherSocks
      <3>2. toSrv'[Sock(d)] = toSrv[Sock(d)]
        BY <1>0, <1>3, <3>1 DEF MailTyped
      <3> QED BY <1>1, <1>3, <2>2, <3>2 DEF Leaving
    <2> QED BY <2>1, <2>2
  <1> QED BY <1>2, <1>3 DEF Leaving

\* It sends nothing.
LEMMA ClientLeaves ==
  ASSUME IInv, Leaving, NEW c \in Clients, NEW v, cl' = [cl EXCEPT ![c] = v], v.sock = Sock(c),
         server' = server, th' = th, toSrv' = toSrv,
         cl[c].pc \notin {"QUIT_REPLY", "exited", "killed"} \/ v.pc \in {"exited", "killed"}
  PROVE  Leaving'
  <1>1. toSrv' = [toSrv EXCEPT ![Sock(c)] = toSrv[Sock(c)]]
    BY TypeParts DEF IInv, MailTyped
  <1>2. ASSUME server, Sock(c) \in Conn PROVE Leaves(th[Sock(c)], toSrv[Sock(c)], v)
    <2>1. Leaves(th[Sock(c)], toSrv[Sock(c)], cl[c])
      BY <1>2 DEF Leaving
    <2> QED BY <2>1 DEF Leaves
  <1> QED BY <1>1, <1>2, ClientLeavesAs

LEMMA EndLeaves ==
  ASSUME IInv, Leaving, NEW c \in Clients, NEW pc, ClientEnds(c, pc),
         server' = server, th' = th, toSrv' = toSrv,
         cl[c].pc \notin {"QUIT_REPLY", "exited", "killed"} \/ pc \in {"exited", "killed"}
  PROVE  Leaving'
  <1> DEFINE v == [cl[c] EXCEPT !.pc = pc]
  <1>1. cl \in [Clients -> ClientType]
    BY TypeParts DEF IInv, ClientsTyped, ClientType
  <1>2. v.pc = pc /\ v.sock = Sock(c) /\ cl' = [cl EXCEPT ![c] = v]
    BY <1>1 DEF ClientType, Sock, ClientEnds
  <1> HIDE DEF v
  <1> QED BY <1>2, ClientLeaves

LEMMA AskLeaves ==
  ASSUME IInv, Leaving, NEW c \in Clients, NEW v, NEW m \in Message, Ask(c, v, m),
         Sock(c) \in Conn, v.sock = Sock(c), cl[c].pc \in {"prompt", "upload"},
         server' = server, th' = th, m.type = "QUIT" => v.pc = "QUIT_REPLY"
  PROVE  Leaving'
  <1>0. toSrv[Sock(c)] \in Seq(Message)
    BY TypeParts DEF IInv, MailTyped
  <1>1. CASE /\ th[Sock(c)].pc # "ended" /\ cl' = [cl EXCEPT ![c] = v]
             /\ toSrv' = [toSrv EXCEPT ![Sock(c)] = Append(toSrv[Sock(c)], m)]
    <2> DEFINE q == Append(toSrv[Sock(c)], m)
    <2>1. HasQuit(q) <=> HasQuit(toSrv[Sock(c)]) \/ m.type = "QUIT"
      BY <1>0, QuitSaid
    <2>2. toSrv' = [toSrv EXCEPT ![Sock(c)] = q]
      BY <1>1
    <2> HIDE DEF q
    <2>3. ASSUME server PROVE Leaves(th[Sock(c)], q, v)
      BY <1>1, <2>1, <2>3 DEF Leaving, Leaves
    <2> QED BY <1>1, <2>2, <2>3, ClientLeavesAs
  <1>2. CASE cl' = [cl EXCEPT ![c] = v] /\ toSrv' = toSrv
    BY <1>2, ClientLeaves
  <1>3. CASE ClientEnds(c, "killed") /\ toSrv' = toSrv
    BY <1>3, EndLeaves
  <1> QED BY <1>1, <1>2, <1>3 DEF Ask

LEMMA CommandsLeave ==
  ASSUME IInv, Leaving, NEW c \in Clients,
         AuthCommand(c) \/ Ls(c) \/ Get(c) \/ Put(c) \/ Quit(c) \/ Upload(c)
  PROVE  Leaving'
  <1>0. cl[c] \in ClientType /\ Sock(c) = cl[c].sock
    BY TypeParts DEF IInv, ClientsTyped, ClientType, Sock
  <1>1. CASE AuthCommand(c)
    <2>1. PICK good \in BOOLEAN :
            /\ Command(c, IF good THEN "auth" ELSE "badauth")
            /\ Ask(c, [cl[c] EXCEPT !.pc = "AUTH_REPLY", !.authenticated = FALSE], Auth(good))
            /\ server' = server /\ th' = th
      BY <1>1 DEF AuthCommand
    <2> DEFINE v == [cl[c] EXCEPT !.pc = "AUTH_REPLY", !.authenticated = FALSE]
               word == IF good THEN "auth" ELSE "badauth"
    <2>2. word \in {"auth", "badauth"} /\ Command(c, word)
      BY <2>1
    <2>3. v.sock = Sock(c) /\ Ask(c, v, Auth(good))
      BY <1>0, <2>1 DEF ClientType
    <2>4. Auth(good) \in Message /\ Auth(good).type = "AUTH"
      BY MessagesTyped
    <2> HIDE DEF v, word
    <2>5. Sock(c) \in Conn /\ cl[c].pc = "prompt"
      BY <2>2, CommandFacts
    <2> QED BY <2>1, <2>3, <2>4, <2>5, AskLeaves
  <1>2. CASE Ls(c)
    <2> DEFINE v == [cl[c] EXCEPT !.pc = "LIST_REPLY"]
    <2>1. Command(c, "ls") /\ Ask(c, v, Plain("LIST")) /\ server' = server /\ th' = th
      BY <1>2 DEF Ls
    <2>2. v.sock = Sock(c)
      BY <1>0 DEF ClientType
    <2>3. Plain("LIST") \in Message /\ Plain("LIST").type = "LIST"
      BY MessagesTyped DEF RequestTypes
    <2> HIDE DEF v
    <2>4. Sock(c) \in Conn /\ cl[c].pc = "prompt"
      BY <2>1, CommandFacts
    <2> QED BY <2>1, <2>2, <2>3, <2>4, AskLeaves
  <1>3. CASE Get(c)
    <2>1. PICK f \in Files :
             Ask(c, [cl[c] EXCEPT !.pc = "GET_REPLY", !.name = f], Named("GET", f))
      BY <1>3 DEF Get
    <2> DEFINE v == [cl[c] EXCEPT !.pc = "GET_REPLY", !.name = f]
    <2>2. Command(c, "get") /\ Ask(c, v, Named("GET", f)) /\ server' = server /\ th' = th
      BY <1>3, <2>1 DEF Get
    <2>3. v.sock = Sock(c)
      BY <1>0 DEF ClientType
    <2>4. Named("GET", f) \in Message /\ Named("GET", f).type = "GET"
      BY MessagesTyped
    <2> HIDE DEF v
    <2>5. Sock(c) \in Conn /\ cl[c].pc = "prompt"
      BY <2>2, CommandFacts
    <2> QED BY <2>2, <2>3, <2>4, <2>5, AskLeaves
  <1>4. CASE Put(c)
    <2>1. PICK f \in Files :
             Ask(c, [cl[c] EXCEPT !.pc = "PUT_REPLY", !.name = f, !.pos = 0], Named("PUT", f))
      BY <1>4 DEF Put
    <2> DEFINE v == [cl[c] EXCEPT !.pc = "PUT_REPLY", !.name = f, !.pos = 0]
    <2>2. Command(c, "put") /\ Ask(c, v, Named("PUT", f)) /\ server' = server /\ th' = th
      BY <1>4, <2>1 DEF Put
    <2>3. v.sock = Sock(c)
      BY <1>0 DEF ClientType
    <2>4. Named("PUT", f) \in Message /\ Named("PUT", f).type = "PUT"
      BY MessagesTyped
    <2> HIDE DEF v
    <2>5. Sock(c) \in Conn /\ cl[c].pc = "prompt"
      BY <2>2, CommandFacts
    <2> QED BY <2>2, <2>3, <2>4, <2>5, AskLeaves
  <1>5. CASE Quit(c)
    <2> DEFINE v == [cl[c] EXCEPT !.pc = "QUIT_REPLY"]
    <2>1. /\ Command(c, "quit") /\ server' = server /\ th' = th
          /\ \/ cl[c].connected /\ Ask(c, v, Plain("QUIT"))
             \/ ClientEnds(c, "exited") /\ toSrv' = toSrv
      BY <1>5 DEF Quit
    <2>2. v.sock = Sock(c) /\ v.pc = "QUIT_REPLY"
      BY <1>0 DEF ClientType
    <2>3. Plain("QUIT") \in Message
      BY MessagesTyped DEF RequestTypes
    <2> HIDE DEF v
    <2>4. cl[c].connected => Sock(c) \in Conn
      BY <2>1, CommandFacts
    <2>5. cl[c].pc = "prompt"
      BY <2>1, CommandFacts
    <2> QED BY <2>1, <2>2, <2>3, <2>4, <2>5, AskLeaves, EndLeaves
  <1>6. CASE Upload(c)
    <2>1. cl[c].pc = "upload" /\ cl[c].name \in Files /\ Sock(c) \in Conn
      BY <1>6, TypeParts DEF Upload, IInv, SafeInv, Sockets, ClientsTyped, Sock
    <2>2. cl[c].own[cl[c].name] \in Seq(Blocks) /\ cl[c].pos + 1 \in Nat /\ cl[c].pos + 1 >= 1
      BY <1>0, <2>1 DEF ClientType
    <2>3. CASE cl[c].pos + 1 <= Len(cl[c].own[cl[c].name])
      <3>1. PICK b, v : b \in Blocks /\ v.sock = Sock(c) /\ Ask(c, v, Data(b))
        <4> DEFINE contents == cl[c].own[cl[c].name]
                   i == cl[c].pos + 1
        <4>1. contents[i] \in Blocks
          <5> HIDE DEF contents, i
          <5>1. contents \in Seq(Blocks) /\ i \in Nat /\ i >= 1 /\ i <= Len(contents)
            BY <2>2, <2>3 DEF contents, i
          <5> QED BY <5>1
        <4>2. Ask(c, [cl[c] EXCEPT !.pos = i], Data(contents[i]))
          BY <1>6, <2>3 DEF Upload
        <4>3. [cl[c] EXCEPT !.pos = i].sock = Sock(c)
          BY <1>0 DEF ClientType
        <4> QED BY <4>1, <4>2, <4>3
      <3>2. Data(b) \in Message /\ Data(b).type = "DATA"
        BY <3>1, MessagesTyped
      <3>3. server' = server /\ th' = th
        BY <1>6 DEF Upload
      <3> QED BY <2>1, <3>1, <3>2, <3>3, AskLeaves
    <2>4. CASE ~(cl[c].pos + 1 <= Len(cl[c].own[cl[c].name]))
      <3> DEFINE v == [cl[c] EXCEPT !.pc = "prompt"]
      <3>1. Ask(c, v, Plain("END")) /\ server' = server /\ th' = th
        BY <1>6, <2>4 DEF Upload
      <3>2. v.sock = Sock(c)
        BY <1>0 DEF ClientType
      <3>3. Plain("END") \in Message /\ Plain("END").type = "END"
        BY MessagesTyped
      <3> HIDE DEF v
      <3> QED BY <2>1, <3>1, <3>2, <3>3, AskLeaves
    <2> QED BY <2>3, <2>4
  <1> QED BY <1>1, <1>2, <1>3, <1>4, <1>5, <1>6

\* The other steps send nothing, but for open, which makes a new connection.
LEMMA RepliesLeave ==
  ASSUME IInv, Leaving, NEW c \in Clients,
         \/ OpenReply(c) \/ AuthReply(c) \/ LsReply(c) \/ GetReply(c) \/ GetReplyMerged(c)
         \/ PutReply(c) \/ WrongHeader(c) \/ QuitReply(c)
  PROVE  Leaving'
  <1>0. /\ {"OPEN_REPLY", "AUTH_REPLY", "LIST_REPLY", "GET_REPLY", "PUT_REPLY"} \subseteq ReplyTypes
        /\ "QUIT_REPLY" \in ReplyTypes
        /\ "QUIT_REPLY" \notin {"OPEN_REPLY", "AUTH_REPLY", "LIST_REPLY", "GET_REPLY", "PUT_REPLY"}
    BY DEF ReplyTypes
  <1>1. ASSUME NEW type \in {"OPEN_REPLY", "AUTH_REPLY", "LIST_REPLY", "GET_REPLY", "PUT_REPLY"},
               Gets(c, type)
        PROVE  /\ cl[c].pc \notin {"QUIT_REPLY", "exited", "killed"}
               /\ cl[c] \in ClientType /\ cl[c].sock = Sock(c)
               /\ Client(c) \in ClientType /\ Client(c).sock = Sock(c)
    BY <1>0, <1>1, ReplyFacts
  <1>2. ASSUME NEW v, cl' = [cl EXCEPT ![c] = v], v.sock = Sock(c),
               cl[c].pc \notin {"QUIT_REPLY", "exited", "killed"},
               server' = server, th' = th, toSrv' = toSrv
        PROVE  Leaving'
    BY <1>2, ClientLeaves
  <1>3. CASE OpenReply(c)
    <2> DEFINE v == [Client(c) EXCEPT !.pc = "prompt", !.connected = TRUE]
    <2>1. /\ Gets(c, "OPEN_REPLY") /\ cl' = [cl EXCEPT ![c] = v]
          /\ server' = server /\ th' = th /\ toSrv' = toSrv
      BY <1>3 DEF OpenReply
    <2>2. v.sock = Sock(c)
      BY <1>1, <2>1 DEF ClientType
    <2> HIDE DEF v
    <2> QED BY <1>1, <1>2, <2>1, <2>2
  <1>4. CASE AuthReply(c)
    <2> DEFINE v == [Client(c) EXCEPT !.pc = "prompt", !.authenticated = Reply(c).ok]
    <2>1. /\ Gets(c, "AUTH_REPLY") /\ cl' = [cl EXCEPT ![c] = v]
          /\ server' = server /\ th' = th /\ toSrv' = toSrv
      BY <1>4 DEF AuthReply
    <2>2. v.sock = Sock(c)
      BY <1>1, <2>1 DEF ClientType
    <2> HIDE DEF v
    <2> QED BY <1>1, <1>2, <2>1, <2>2
  <1>5. CASE LsReply(c)
    <2> DEFINE v == [Client(c) EXCEPT !.pc = "prompt"]
    <2>1. /\ Gets(c, "LIST_REPLY") /\ cl' = [cl EXCEPT ![c] = v]
          /\ server' = server /\ th' = th /\ toSrv' = toSrv
      BY <1>5 DEF LsReply
    <2>2. v.sock = Sock(c)
      BY <1>1, <2>1 DEF ClientType
    <2> HIDE DEF v
    <2> QED BY <1>1, <1>2, <2>1, <2>2
  <1>6. CASE GetReply(c)
    <2> DEFINE v1 == [Client(c) EXCEPT !.pc = "download", !.own[cl[c].name] = <<>>]
               v2 == [Client(c) EXCEPT !.pc = "prompt"]
    <2>1. /\ Gets(c, "GET_REPLY") /\ (cl' = [cl EXCEPT ![c] = v1] \/ cl' = [cl EXCEPT ![c] = v2])
          /\ server' = server /\ th' = th /\ toSrv' = toSrv
      BY <1>6 DEF GetReply
    <2>2. v1.sock = Sock(c) /\ v2.sock = Sock(c)
      BY <1>1, <2>1 DEF ClientType
    <2> HIDE DEF v1, v2
    <2> QED BY <1>1, <1>2, <2>1, <2>2
  <1>7. CASE GetReplyMerged(c)
    <2> DEFINE v1 == [cl[c] EXCEPT !.pc = "starved", !.own[cl[c].name] = <<>>]
               v2 == [cl[c] EXCEPT !.pc = "aborted", !.own[cl[c].name] = <<>>]
               v3 == [Client(c) EXCEPT !.pc = "prompt"]
    <2>1. /\ Gets(c, "GET_REPLY")
          /\ server' = server /\ th' = th /\ toSrv' = toSrv
      BY <1>7 DEF GetReplyMerged
    <2>2. \/ cl' = [cl EXCEPT ![c] = v1] \/ cl' = [cl EXCEPT ![c] = v2]
          \/ cl' = [cl EXCEPT ![c] = v3]
      BY <1>7 DEF GetReplyMerged
    <2>3. v1.sock = Sock(c) /\ v2.sock = Sock(c) /\ v3.sock = Sock(c)
      BY <1>1, <2>1 DEF ClientType
    <2> HIDE DEF v1, v2, v3
    <2> QED BY <1>1, <1>2, <2>1, <2>2, <2>3
  <1>8. CASE PutReply(c)
    <2> DEFINE v == [Client(c) EXCEPT !.pc = "upload"]
    <2>1. /\ Gets(c, "PUT_REPLY") /\ cl' = [cl EXCEPT ![c] = v]
          /\ server' = server /\ th' = th /\ toSrv' = toSrv
      BY <1>8 DEF PutReply
    <2>2. v.sock = Sock(c)
      BY <1>1, <2>1 DEF ClientType
    <2> HIDE DEF v
    <2> QED BY <1>1, <1>2, <2>1, <2>2
  <1>9. CASE WrongHeader(c)
    <2>1. PICK type \in {"AUTH_REPLY", "LIST_REPLY", "GET_REPLY", "PUT_REPLY"} : Gets(c, type)
      BY <1>9 DEF WrongHeader
    <2>2. ClientEnds(c, "aborted") /\ server' = server /\ th' = th /\ toSrv' = toSrv
      BY <1>9 DEF WrongHeader
    <2> QED BY <1>1, <2>1, <2>2, EndLeaves
  <1>10. CASE QuitReply(c)
    BY <1>10, EndLeaves DEF QuitReply
  <1> QED BY <1>3, <1>4, <1>5, <1>6, <1>7, <1>8, <1>9, <1>10

LEMMA OthersLeave ==
  ASSUME IInv, Leaving, NEW c \in Clients,
         \/ OpenRefused(c) \/ Usage(c) \/ SendForEver(c) \/ BadCommand(c) \/ Kill(c)
         \/ Download(c) \/ DownloadNothing(c)
  PROVE  Leaving'
  <1>0. /\ cl[c] \in ClientType /\ Sock(c) = cl[c].sock /\ cl \in [Clients -> ClientType]
    BY TypeParts DEF IInv, ClientsTyped, ClientType, Sock
  <1>1. ASSUME NEW v, cl' = [cl EXCEPT ![c] = v], v.sock = Sock(c),
               cl[c].pc \in {"prompt", "download"},
               server' = server, th' = th, toSrv' = toSrv
        PROVE  Leaving'
    BY <1>1, ClientLeaves
  <1>2. CASE OpenRefused(c) \/ Kill(c)
    BY <1>2, EndLeaves DEF OpenRefused, Kill
  <1>3. CASE Usage(c)
    <2> DEFINE v1 == [cl[c] EXCEPT !.connected = FALSE]
               v2 == [cl[c] EXCEPT !.authenticated = FALSE]
    <2>1. /\ cl[c].pc = "prompt" /\ server' = server /\ th' = th /\ toSrv' = toSrv
          /\ (cl' = [cl EXCEPT ![c] = v1] \/ cl' = [cl EXCEPT ![c] = v2])
      BY <1>0, <1>3 DEF Usage, Command, wire
    <2>2. v1.sock = Sock(c) /\ v2.sock = Sock(c)
      BY <1>0 DEF ClientType
    <2> HIDE DEF v1, v2
    <2> QED BY <1>1, <2>1, <2>2
  <1>4. CASE SendForEver(c)
    <2> DEFINE v == [cl[c] EXCEPT !.pc = "hung"]
    <2>1. /\ cl[c].pc = "prompt" /\ server' = server /\ th' = th /\ toSrv' = toSrv
          /\ cl' = [cl EXCEPT ![c] = v]
      BY <1>0, <1>4 DEF SendForEver, Command, wire
    <2>2. v.sock = Sock(c)
      BY <1>0 DEF ClientType
    <2> HIDE DEF v
    <2> QED BY <1>1, <2>1, <2>2
  <1>5. CASE BadCommand(c)
    BY <1>5 DEF BadCommand, wire, Leaving, Sock
  <1>6. CASE Download(c)
    <2> DEFINE m == Head(toCli[Sock(c)])
               v1 == [cl[c] EXCEPT !.pc = "prompt"]
               v2 == [cl[c] EXCEPT !.own[cl[c].name] = Append(@, m.block)]
    <2>1. /\ cl[c].pc = "download" /\ server' = server /\ th' = th /\ toSrv' = toSrv
          /\ (cl' = [cl EXCEPT ![c] = v1] \/ cl' = [cl EXCEPT ![c] = v2])
      BY <1>6 DEF Download
    <2>2. v1.sock = Sock(c) /\ v2.sock = Sock(c)
      BY <1>0 DEF ClientType
    <2> HIDE DEF m, v1, v2
    <2> QED BY <1>1, <2>1, <2>2
  <1>7. CASE DownloadNothing(c)
    <2> DEFINE f == cl[c].name
               contents == cl[c].own[f]
               v1 == [cl[c] EXCEPT !.own[f] = Append(contents, contents[Len(contents)])]
               v2 == [cl[c] EXCEPT !.pc = "prompt"]
    <2>1. /\ cl[c].pc = "download" /\ server' = server /\ th' = th /\ toSrv' = toSrv
          /\ \/ cl' = [cl EXCEPT ![c] = v1] \/ cl' = [cl EXCEPT ![c] = v2]
             \/ ClientEnds(c, "aborted")
      BY <1>0, <1>7 DEF DownloadNothing
    <2>2. v1.sock = Sock(c) /\ v2.sock = Sock(c)
      BY <1>0 DEF ClientType
    <2> HIDE DEF f, contents, v1, v2
    <2> QED BY <1>1, <2>1, <2>2, EndLeaves
  <1> QED BY <1>2, <1>3, <1>4, <1>5, <1>6, <1>7

LEMMA OpenLeaves ==
  ASSUME IInv, Leaving, NEW c \in Clients, Open(c)
  PROVE  Leaving'
  <1>0. ClientsTyped /\ MailTyped /\ ThreadsTyped /\ SafeInv /\ used[c] \in 0..MaxOpens
    BY TypeParts DEF IInv, ClientsTyped
  <1>1. PICK k : k = <<c, used[c] + 1>>
    OBVIOUS
  <1>2. /\ used[c] < MaxOpens /\ server /\ server' = server
        /\ cl' = [cl EXCEPT ![c].pc = "OPEN_REPLY", ![c].sock = k, ![c].connected = FALSE]
        /\ th' = [th EXCEPT ![k].pc = "recv"]
        /\ toSrv' = [toSrv EXCEPT ![k] = <<Plain("OPEN")>>]
    BY <1>1 DEF Open
  <1>3. k \in Conn /\ k[1] = c /\ k[2] = used[c] + 1
    <2>1. used[c] + 1 \in 1..MaxOpens
      BY <1>0, <1>2, FtpAssumption
    <2> QED BY <1>1, <2>1, ConnFacts
  <1>4. /\ cl'[c].sock = k /\ th'[k].pc = "recv" /\ toSrv'[k] = <<Plain("OPEN")>>
        /\ \A d \in Clients : d # c => cl'[d] = cl[d]
        /\ \A j \in Conn : j # k => th'[j] = th[j] /\ toSrv'[j] = toSrv[j]
    BY <1>0, <1>2, <1>3 DEF ClientsTyped, MailTyped, ThreadsTyped, ThreadType
  <1>5. ~HasQuit(<<Plain("OPEN")>>)
    <2> DEFINE q == <<Plain("OPEN")>>
    <2>1. Len(q) = 1 /\ q[1].type = "OPEN"
      BY MessagesTyped DEF RequestTypes
    <2> HIDE DEF q
    <2>2. ~HasQuit(q)
      BY <2>1 DEF HasQuit
    <2> QED BY <2>2 DEF q
  <1>6. Leaves(th'[k], toSrv'[k], cl'[c])
    BY <1>4, <1>5 DEF Leaves
  <1>7. ASSUME NEW d \in Clients, d # c, cl'[d].sock \in Conn
        PROVE  Leaves(th'[cl'[d].sock], toSrv'[cl'[d].sock], cl'[d])
    <2>1. cl'[d] = cl[d] /\ Sock(d) \in Conn /\ cl'[d].sock = Sock(d)
      BY <1>4, <1>7 DEF Sock
    <2>2. Sock(d)[1] = d
      BY <1>0, <2>1, OwnFacts, ConnFacts DEF SafeInv, Sockets, ClientsTyped
    <2>3. Sock(d) # k
      BY <1>3, <1>7, <2>2
    <2> QED BY <1>2, <1>4, <2>1, <2>3 DEF Leaving
  <1>8. \A d \in Clients : Sock(d)' \in Conn =>
            Leaves(th'[Sock(d)'], toSrv'[Sock(d)'], cl'[d])
    BY <1>4, <1>6, <1>7 DEF Sock
  <1> QED BY <1>8 DEF Leaving

LEMMA InitLeaving == Init => Leaving
  <1> SUFFICES ASSUME Init PROVE Leaving
    OBVIOUS
  <1>1. \A c \in Clients : Sock(c) = NoConn
    BY DEF Init, Sock
  <1> QED BY <1>1, ConnFacts DEF Leaving

LEMMA StepLeaving == IInv /\ Leaving /\ [Next]_vars => Leaving'
  <1> SUFFICES ASSUME IInv, Leaving, [Next]_vars PROVE Leaving'
    OBVIOUS
  <1>1. CASE UNCHANGED vars
    BY <1>1 DEF Leaving, Sock, vars, wire
  <1>2. ASSUME NEW k \in Conn, ThreadStep(k) PROVE Leaving'
    BY <1>2, ThreadLeaves
  <1>3. ASSUME NEW c \in Clients, UserStep(c) PROVE Leaving'
    BY <1>3, CommandsLeave, OthersLeave, OpenLeaves DEF UserStep
  <1>4. ASSUME NEW c \in Clients, ClientStep(c) PROVE Leaving'
    BY <1>4, CommandsLeave, OthersLeave, RepliesLeave DEF ClientStep
  <1> QED BY <1>1, <1>2, <1>3, <1>4 DEF Next

LEMMA LeavingInvariance == Spec => []Leaving
  <1>1. Spec => []IInv
    BY Invariance
  <1> QED BY <1>1, InitLeaving, StepLeaving, PTL DEF Spec

-----------------------------------------------------------------------------
(* The theorems *)

LEMMA InitPlaces == Init => PlaceInv
  <1> SUFFICES ASSUME Init PROVE PlaceInv
    OBVIOUS
  <1>1. /\ \A c \in Clients : Sock(c) = NoConn /\ cl[c].pc = "prompt" /\ ~cl[c].authenticated
        /\ \A k \in Conn : th[k].pc = "none" /\ toSrv[k] = <<>>
        /\ closed = {}
    BY DEF Init, Sock
  <1>2. \A by : InPlace(Original(by))
    BY FtpAssumption DEF InPlace, Original, Block
  <1>3. InPlace(<<>>)
    BY DEF InPlace
  <1>4. Placed
    <2>1. \A f \in Files : filedir[f] \in {Original(Owner), <<>>}
      BY DEF Init
    <2>2. \A c \in Clients, f \in Files : cl[c].own[f] = Original(c)
      BY DEF Init
    <2> QED BY <1>2, <1>3, <2>1, <2>2 DEF Placed
  <1>5. ClosedSockets
    BY <1>1 DEF ClosedSockets
  <1>6. Conversations
    BY <1>1, ConnFacts DEF Conversations, Live
  <1>7. Service
    <2>1. ThreadsTyped
      BY InitInv, TypeParts DEF IInv
    <2> QED BY <1>1, <2>1, NothingServed DEF Service, ThreadsTyped
  <1>8. Finishing
    BY <1>1 DEF Finishing, Finishes, Takes
  <1> QED BY <1>4, <1>5, <1>6, <1>7, <1>8 DEF PlaceInv

LEMMA StepPlaces == IInv /\ Leaving /\ PlaceInv /\ [Next]_vars => PlaceInv'
  <1> SUFFICES ASSUME IInv, Leaving, PlaceInv, [Next]_vars PROVE PlaceInv'
    OBVIOUS
  <1>1. CASE UNCHANGED vars
    BY <1>1, SamePlaces DEF vars, dirVars, wire, bounds
  <1>2. ASSUME NEW k \in Conn, ThreadStep(k) PROVE PlaceInv'
    BY <1>2, ThreadPlaces
  <1>3. ASSUME NEW c \in Clients, UserStep(c) PROVE PlaceInv'
    BY <1>3, CommandPlaces, LocalPlaces, OpenPlaces DEF UserStep
  <1>4. ASSUME NEW c \in Clients, ClientStep(c) PROVE PlaceInv'
    BY <1>4, LocalPlaces, RepliesPlaces, TransferPlaces DEF ClientStep
  <1> QED BY <1>1, <1>2, <1>3, <1>4 DEF Next

LEMMA PlaceInvariance == Spec => []PlaceInv
  <1>1. Spec => []IInv
    BY Invariance
  <1>2. Spec => []Leaving
    BY LeavingInvariance
  <1> QED BY <1>1, <1>2, InitPlaces, StepPlaces, PTL DEF Spec

(***************************************************************************)
(* Whatever the clients do, and whoever stores or fetches the same file at *)
(* the same time: a block of filedir is out of its place only where a      *)
(* thread goes on writing the last block it got from a client that was     *)
(* killed in the middle of its put, or where this ended the server.        *)
(***************************************************************************)
THEOREM MisplacedByLoss == Spec => []MisplacedOnlyByLoss
  <1>1. PlaceInv => MisplacedOnlyByLoss
    BY DEF PlaceInv, Placed, MisplacedOnlyByLoss, Spoilt, Runaway
  <1> QED BY <1>1, PlaceInvariance, PTL

(***************************************************************************)
(* While no client is killed, no transfer shifts or repeats a block, in    *)
(* filedir or in a client's files: the data of a put or a get are never    *)
(* taken for those of another, a refused or abandoned one among them.  The *)
(* exception is a file whose download the end of the server cut short:     *)
(* there the client writes its last block again and again.                 *)
(***************************************************************************)
THEOREM EveryBlockInPlace == ASSUME ~Kills PROVE Spec => []BlocksInPlace
  <1>1. PlaceInv => BlocksInPlace
    BY DEF PlaceInv, Placed, BlocksInPlace, Spoilt
  <1> QED BY <1>1, PlaceInvariance, PTL

-----------------------------------------------------------------------------
(* Whole files: a part of one, and the rest on its way *)

LEMMA OriginalIs ==
  ASSUME NEW by
  PROVE  /\ Len(Original(by)) = FileBlocks /\ FileBlocks \in Nat
         /\ \A i \in 1..FileBlocks : Original(by)[i] = Block(by, i)
  <1>1. FileBlocks \in Nat
    BY FtpAssumption
  <1> QED BY <1>1 DEF Original

LEMMA PartFacts ==
  ASSUME NEW contents \in Seq(Blocks), NEW by, NEW n \in Nat, Part(contents, n, by)
  PROVE  /\ n <= FileBlocks
         /\ n = FileBlocks => contents = Original(by)
         /\ n + 1 <= FileBlocks =>
               /\ Part(Append(contents, Block(by, n + 1)), n + 1, by)
               /\ Part(Written(contents, n + 1, Block(by, n + 1)), n + 1, by)
  <1>0. /\ FileBlocks \in Nat /\ Len(contents) = n /\ n <= FileBlocks
        /\ \A i \in 1..n : contents[i] = Block(by, i)
    BY OriginalIs DEF Part
  <1>1. n = FileBlocks => contents = Original(by)
    <2>1. contents = [i \in 1..Len(contents) |-> contents[i]]
      OBVIOUS
    <2> QED BY <2>1, <1>0 DEF Original
  <1>2. ASSUME n + 1 <= FileBlocks, NEW more, Len(more) = n + 1, more[n + 1] = Block(by, n + 1),
               \A i \in 1..n : more[i] = contents[i]
        PROVE  Part(more, n + 1, by)
    <2>1. \A i \in 1..n+1 : i \in 1..n \/ i = n + 1
      OBVIOUS
    <2> QED BY <2>1, <1>0, <1>2 DEF Part
  <1> DEFINE b == Block(by, n + 1)
  <1>3. /\ Len(Append(contents, b)) = n + 1 /\ Append(contents, b)[n + 1] = b
        /\ \A i \in 1..n : Append(contents, b)[i] = contents[i]
    <2> HIDE DEF b
    <2> QED BY <1>0
  <1>4. /\ Len(Written(contents, n + 1, b)) = n + 1 /\ Written(contents, n + 1, b)[n + 1] = b
        /\ \A i \in 1..n : Written(contents, n + 1, b)[i] = contents[i]
    <2> HIDE DEF b
    <2>1. Written(contents, n + 1, b) =
             [j \in 1..n+1 |-> IF j = n + 1 THEN b ELSE IF j <= n THEN contents[j] ELSE Hole]
      BY <1>0 DEF Written
    <2> QED BY <2>1
  <1> QED BY <1>0, <1>1, <1>2, <1>3, <1>4

LEMMA PartOfAll ==
  ASSUME NEW by
  PROVE  Part(<<>>, 0, by) /\ Part(Original(by), FileBlocks, by)
  BY OriginalIs DEF Part

LEMMA CarriesNothing == \A n, by : Carries(<<>>, n, by)
  BY DEF Carries

LEMMA CarriesSent ==
  ASSUME NEW q \in Seq(Message), NEW m \in Message, NEW n \in Nat, NEW by, Carries(q, n, by),
         AllBlocks(q) =>
            /\ m.type = "DATA" => m.block = Block(by, n + Len(q) + 1) /\ n + Len(q) + 1 <= FileBlocks
            /\ m.type = "END" => n + Len(q) = FileBlocks
  PROVE  Carries(Append(q, m), n, by)
  <1> DEFINE p == Append(q, m)
  <1>1. /\ Len(p) = Len(q) + 1 /\ Len(q) \in Nat /\ p[Len(q) + 1] = m
        /\ \A i \in 1..Len(q) : p[i] = q[i]
    OBVIOUS
  <1> HIDE DEF p
  <1> SUFFICES ASSUME NEW i \in 1..Len(p), \A j \in 1..i-1 : p[j].type = "DATA"
               PROVE  /\ p[i].type = "DATA" => p[i].block = Block(by, n + i) /\ n + i <= FileBlocks
                      /\ p[i].type = "END" => n + i = FileBlocks + 1
    BY DEF Carries, p
  <1>2. CASE i \in 1..Len(q)
    <2>1. \A j \in 1..i-1 : j \in 1..Len(q) /\ q[j].type = "DATA"
      BY <1>1, <1>2
    <2> QED BY <2>1, <1>1, <1>2 DEF Carries
  <1>3. CASE i = Len(q) + 1
    <2>1. AllBlocks(q)
      BY <1>1, <1>3 DEF AllBlocks
    <2>2. n + i = n + Len(q) + 1 /\ FileBlocks \in Nat
      BY <1>1, <1>3, OriginalIs
    <2> QED BY <2>1, <2>2, <1>1, <1>3
  <1> QED BY <1>1, <1>2, <1>3

LEMMA CarriesReceived ==
  ASSUME NEW q \in Seq(Message), q # <<>>, NEW n \in Nat, NEW by, Carries(q, n, by)
  PROVE  /\ Head(q).type = "DATA" =>
               /\ Head(q).block = Block(by, n + 1) /\ n + 1 <= FileBlocks
               /\ Carries(Tail(q), n + 1, by)
         /\ Head(q).type = "END" => n = FileBlocks
  <1>1. /\ Head(q) = q[1] /\ 1 \in 1..Len(q) /\ FileBlocks \in Nat
        /\ \A i \in 1..Len(Tail(q)) : i + 1 \in 1..Len(q) /\ Tail(q)[i] = q[i + 1]
        /\ Len(Tail(q)) \in Nat
    BY Received, OriginalIs
  <1>2. /\ Head(q).type = "DATA" => Head(q).block = Block(by, n + 1) /\ n + 1 <= FileBlocks
        /\ Head(q).type = "END" => n + 1 = FileBlocks + 1
    <2>1. \A j \in 1..1-1 : q[j].type = "DATA"
      OBVIOUS
    <2> QED BY <2>1, <1>1 DEF Carries
  <1>3. ASSUME Head(q).type = "DATA", NEW i \in 1..Len(Tail(q)),
               \A j \in 1..i-1 : Tail(q)[j].type = "DATA"
        PROVE  /\ Tail(q)[i].type = "DATA" => /\ Tail(q)[i].block = Block(by, n + 1 + i)
                                              /\ n + 1 + i <= FileBlocks
               /\ Tail(q)[i].type = "END" => n + 1 + i = FileBlocks + 1
    <2>1. ASSUME NEW j \in 1..(i+1)-1 PROVE q[j].type = "DATA"
      <3>1. CASE j = 1
        BY <3>1, <1>1, <1>3
      <3>2. CASE j # 1
        <4>1. PICK h \in 1..i-1 : h + 1 = j
          <5>1. j - 1 \in 1..i-1 /\ j - 1 + 1 = j
            BY <3>2
          <5> QED BY <5>1
        <4>2. h \in 1..Len(Tail(q))
          BY <1>1
        <4> QED BY <4>1, <4>2, <1>1, <1>3
      <3> QED BY <3>1, <3>2
    <2>2. i + 1 \in 1..Len(q) /\ Tail(q)[i] = q[i + 1]
      BY <1>1
    <2>3. n + (i + 1) = n + 1 + i
      BY <1>1
    <2>4. /\ q[i+1].type = "DATA" => q[i+1].block = Block(by, n + (i + 1)) /\ n + (i + 1) <= FileBlocks
          /\ q[i+1].type = "END" => n + (i + 1) = FileBlocks + 1
      BY <2>1, <2>2 DEF Carries
    <2> QED BY <2>2, <2>3, <2>4
  <1>4. Head(q).type = "DATA" => Carries(Tail(q), n + 1, by)
    BY <1>3 DEF Carries
  <1> QED BY <1>1, <1>2, <1>4

\* Blocks on their way are not more than the file has.
LEMMA CarriesUpTo ==
  ASSUME NEW q \in Seq(Message), NEW n \in Nat, NEW by, Carries(q, n, by), AllBlocks(q), n <= FileBlocks
  PROVE  n + Len(q) <= FileBlocks
  <1>1. CASE Len(q) = 0
    BY <1>1
  <1>2. CASE Len(q) # 0
    <2>1. Len(q) \in 1..Len(q) /\ \A j \in 1..Len(q)-1 : j \in 1..Len(q)
      BY <1>2
    <2>2. q[Len(q)].type = "DATA" /\ \A j \in 1..Len(q)-1 : q[j].type = "DATA"
      BY <2>1 DEF AllBlocks
    <2> QED BY <2>1, <2>2 DEF Carries
  <1> QED BY <1>1, <1>2

-----------------------------------------------------------------------------
(* One connection of an only client that is not lost *)

\* What the other invariants say of it; "gone" is that the client closed it.
Meets(t, q, r, s, gone) ==
    /\ t.pc # "ended" => RequestLast(q) /\ t.last.type # "QUIT"
    /\ t.pc = "putdata" => t.name \in Files
    /\ gone => s.pc \in {"prompt", "exited"}
    /\ ~gone => Talks(t, q, r, s, {})

Holds(t, q, r, s, dir, pres, gone) ==
    /\ Leaves(t, q, s)
    /\ gone /\ t.pc # "ended" => NoPut(q)
    /\ Stores(t, q, s, dir, pres) /\ Fetches(t, r, s, dir) /\ Rests(t, s, dir, pres)

One(c) == server /\ used[c] <= 1 /\ cl[c].pc \notin Lost
First(c) == <<c, 1>>

LEMMA ExactParts ==
  ASSUME NEW c, Clients = {c}
  PROVE  /\ ExactInv <=> (One(c) => Exact(c))
         /\ used[c] = 1 => (Exact(c) <=>
               /\ Sock(c) = First(c)
               /\ Holds(th[First(c)], toSrv[First(c)], toCli[First(c)], cl[c], filedir, present,
                        First(c) \in closed))
  <1>1. ExactInv <=> (One(c) => Exact(c))
    BY DEF ExactInv, One
  <1>2. used[c] = 1 => (Exact(c) <=>
               /\ Sock(c) = First(c)
               /\ Holds(th[First(c)], toSrv[First(c)], toCli[First(c)], cl[c], filedir, present,
                        First(c) \in closed))
    BY DEF Exact, Holds, First
  <1> QED BY <1>1, <1>2

LEMMA OneFacts ==
  ASSUME NEW c, Clients = {c}, IInv, PlaceInv, One(c), NEW k, k = First(c)
  PROVE  /\ c \in Clients /\ k \in Conn /\ used[c] \in {0, 1}
         /\ th[k] \in ThreadType /\ th[k].pos \in Nat /\ cl[c] \in ClientType
         /\ toSrv[k] \in Seq(Message) /\ toCli[k] \in Seq(Message) /\ DirTyped
         /\ Sock(c) = cl[c].sock
         /\ \A j \in Conn : th[j].pc # "none" => j = k /\ used[c] = 1
         /\ used[c] = 0 => th[k].pc = "none" /\ toCli[k] = <<>> /\ k \notin closed
         /\ Sock(c) # NoConn <=> used[c] = 1 /\ Sock(c) = k
         /\ cl[c].connected \/ cl[c].pc \in ReplyTypes \cup {"download", "upload"} => Sock(c) = k
         /\ k \in closed /\ Sock(c) = k /\ cl[c].pc = "prompt" => ~cl[c].authenticated
         /\ Sock(c) = k => Meets(th[k], toSrv[k], toCli[k], cl[c], k \in closed)
         /\ cl[c].pc \in {"PUT_REPLY", "upload"} => cl[c].name \in Files
  <1>0. /\ ThreadsTyped /\ MailTyped /\ ClientsTyped /\ DirTyped /\ SafeInv /\ c \in Clients
        /\ server /\ used[c] <= 1 /\ cl[c].pc \notin Lost /\ k = <<c, 1>>
    BY TypeParts DEF IInv, One, First
  <1>1. 1 \in 1..MaxOpens /\ MaxOpens \in Nat
    BY FtpAssumption
  <1>2. k \in Conn /\ used[c] \in {0, 1}
    <2>1. used[c] \in 0..MaxOpens
      BY <1>0 DEF ClientsTyped
    <2> QED BY <2>1, <1>0, <1>1, ConnFacts
  <1>3. /\ th[k] \in ThreadType /\ th[k].pos \in Nat /\ cl[c] \in ClientType
        /\ toSrv[k] \in Seq(Message) /\ toCli[k] \in Seq(Message)
        /\ Sock(c) = cl[c].sock /\ Sock(c) \in Conn \cup {NoConn}
    BY <1>0, <1>2 DEF ThreadsTyped, ThreadType, MailTyped, ClientsTyped, ClientType, Sock
  <1>4. ASSUME NEW j \in Conn, th[j].pc # "none" PROVE j = k /\ used[c] = 1
    <2>1. j[1] = c /\ j[2] \in 1..MaxOpens /\ j = <<j[1], j[2]>>
      BY <1>0, ConnFacts
    <2>2. ~(j[2] > used[c])
      BY <2>1, <1>0, <1>4 DEF SafeInv, Sockets
    <2>3. j[2] = 1 /\ used[c] = 1
      BY <2>1, <2>2, <1>1, <1>2
    <2> QED BY <2>1, <2>3, <1>0
  <1>5. used[c] = 0 => th[k].pc = "none" /\ toCli[k] = <<>> /\ k \notin closed
    BY <1>0, <1>1 DEF SafeInv, Sockets, PlaceInv, ClosedSockets
  <1>6. Sock(c) # NoConn => used[c] = 1 /\ Sock(c) = k
    <2> SUFFICES ASSUME Sock(c) # NoConn PROVE used[c] = 1 /\ Sock(c) = k
      OBVIOUS
    <2>1. Sock(c) \in {<<c, i>> : i \in 1..used[c]}
      BY <1>0 DEF SafeInv, Sockets, OwnConns
    <2>2. PICK i \in 1..used[c] : Sock(c) = <<c, i>>
      BY <2>1
    <2>3. i = 1 /\ used[c] = 1
      BY <1>2
    <2> QED BY <2>2, <2>3, <1>0
  <1>7. k # NoConn
    BY <1>2, ConnFacts
  <1>8. cl[c].connected \/ cl[c].pc \in ReplyTypes \cup {"download", "upload"} => Sock(c) = k
    BY <1>0, <1>6 DEF SafeInv, Sockets
  <1>9. k \in closed /\ Sock(c) = k =>
           /\ cl[c].pc \in {"prompt", "exited"}
           /\ cl[c].pc = "prompt" => ~cl[c].authenticated
    <2>1. cl[c].pc \in ClientPc
      BY <1>3 DEF ClientType
    <2> QED BY <2>1, <1>0 DEF PlaceInv, ClosedSockets, ClientPc, Lost
  <1>10. Sock(c) = k => Meets(th[k], toSrv[k], toCli[k], cl[c], k \in closed)
    <2> SUFFICES ASSUME Sock(c) = k PROVE Meets(th[k], toSrv[k], toCli[k], cl[c], k \in closed)
      OBVIOUS
    <2>1. Serves(th[k], toSrv[k], Spoilt)
      BY <1>2 DEF PlaceInv, Service
    <2>2. th[k].pc # "ended" => RequestLast(toSrv[k]) /\ th[k].last.type # "QUIT"
      BY <2>1, <1>0, <1>2 DEF Serves, SafeInv, Threads
    <2>3. th[k].pc = "putdata" => th[k].name \in Files
      BY <2>1 DEF Serves
    <2>4. ASSUME k \notin closed PROVE Talks(th[k], toSrv[k], toCli[k], cl[c], {})
      <3>1. \A j \in Conn : ~Runaway(j)
        BY <1>4, <2>4 DEF Runaway
      <3>2. Spoilt = {}
        BY <3>1, <1>0 DEF Spoilt
      <3>3. Talks(th[k], toSrv[k], toCli[k], cl[c], Spoilt)
        BY <1>0, <1>2, <2>4 DEF PlaceInv, Conversations, Live
      <3> QED BY <3>2, <3>3
    <2> QED BY <2>2, <2>3, <2>4, <1>9 DEF Meets
  <1>11. cl[c].pc \in {"PUT_REPLY", "upload"} => cl[c].name \in Files
    BY <1>0 DEF SafeInv, Sockets
  <1> QED BY <1>0, <1>2, <1>3, <1>4, <1>5, <1>6, <1>7, <1>8, <1>9, <1>10, <1>11

-----------------------------------------------------------------------------
(* What the steps of a thread leave of the transfers *)

\* Something that was on its way, or was not.
LEMMA RequestsSent ==
  ASSUME NEW q \in Seq(Message)
  PROVE  /\ ~HasQuit(<<>>) /\ NoPut(<<>>)
         /\ OnlyData(q) => NoPut(q) /\ ~HasQuit(q)
         /\ q # <<>> =>
               /\ HasQuit(Tail(q)) => HasQuit(q)
               /\ NoPut(q) => NoPut(Tail(q)) /\ Head(q).type # "PUT"
               /\ Head(q).type = "QUIT" => HasQuit(q)
         /\ \A m \in Message : HasQuit(Append(q, m)) => HasQuit(q) \/ m.type = "QUIT"
  <1>1. ~HasQuit(<<>>) /\ NoPut(<<>>)
    BY DEF HasQuit, NoPut
  <1>2. OnlyData(q) => NoPut(q) /\ ~HasQuit(q)
    BY DEF OnlyData, NoPut, HasQuit, FileData
  <1>3. ASSUME q # <<>>
        PROVE  /\ HasQuit(Tail(q)) => HasQuit(q)
               /\ NoPut(q) => NoPut(Tail(q)) /\ Head(q).type # "PUT"
               /\ Head(q).type = "QUIT" => HasQuit(q)
    <2>1. /\ Head(q) = q[1] /\ 1 \in 1..Len(q)
          /\ \A i \in 1..Len(Tail(q)) : i + 1 \in 1..Len(q) /\ Tail(q)[i] = q[i + 1]
      BY <1>3, Received
    <2> QED BY <2>1 DEF HasQuit, NoPut
  <1>4. ASSUME NEW m \in Message PROVE HasQuit(Append(q, m)) => HasQuit(q) \/ m.type = "QUIT"
    <2>1. \A i \in 1..Len(Append(q, m)) :
             Append(q, m)[i] = m \/ (i \in 1..Len(q) /\ Append(q, m)[i] = q[i])
      OBVIOUS
    <2> QED BY <2>1 DEF HasQuit
  <1> QED BY <1>1, <1>2, <1>3, <1>4

\* A thread that sends nothing of a file, and does not take another one.
LEMMA QuietThread ==
  ASSUME NEW t, NEW u, NEW q, NEW p, NEW r, NEW s, NEW dir, NEW pres, NEW gone,
         Holds(t, q, r, s, dir, pres, gone), t.pc \notin {"ended", "putdata"},
         u.pc \notin {"ended", "getdata", "putdata", "putopen"},
         HasQuit(p) => HasQuit(q), NoPut(q) => NoPut(p)
  PROVE  Holds(u, p, r, s, dir, pres, gone)
  <1>1. Leaves(u, p, s) /\ (gone /\ u.pc # "ended" => NoPut(p))
    BY DEF Holds, Leaves
  <1>2. Stores(u, p, s, dir, pres)
    BY DEF Stores, Takes
  <1>3. Fetches(u, r, s, dir)
    BY DEF Holds, Fetches, FetchedFrom
  <1>4. Rests(u, s, dir, pres)
    BY DEF Holds, Rests
  <1> QED BY <1>1, <1>2, <1>3, <1>4 DEF Holds

\* What the thread does with a request, and what it may be told to do.
Handles(u, m, pres) ==
    \/ u.pc = "recv"
    \/ m.type = "QUIT" /\ u.pc = "ended"
    \/ m.type = "GET" /\ u.pc = "getdata" /\ u.name = m.name /\ m.name \in pres \cup {Directory}
    \/ m.type = "PUT" /\ u.pc = "putopen" /\ u.name = m.name

\* The thread reads the request m, and p is left; or, at the end of the stream,
\* what is left in its memory.
TakesRequest(t, q, p, m, gone) ==
    \/ q # <<>> /\ m = Head(q) /\ p = Tail(q)
    \/ q = <<>> /\ gone /\ m = Cleared(t.last) /\ p = q

\* The answer a reaches the client unless that is gone.
Answers(r, o, a, gone) == o = IF gone THEN r ELSE Append(r, a)

LEMMA ClearedName ==
  ASSUME NEW m \in Message
  PROVE  Cleared(m).type \in {"GET", "PUT"} => Cleared(m).name = Directory
  <1>1. Cleared(m).type = m.type
    BY ClearedTyped
  <1>2. m.type \in {"GET", "PUT"} => Cleared(m).name = Directory
    BY DEF Cleared, Message
  <1> QED BY <1>1, <1>2

LEMMA RequestExact ==
  ASSUME NEW t \in ThreadType, NEW u \in ThreadType, NEW q \in Seq(Message), NEW p,
         NEW r \in Seq(Message), NEW o, NEW s \in ClientType, NEW dir, NEW pres \in SUBSET Files,
         NEW gone \in BOOLEAN, NEW m, NEW a \in Message,
         Meets(t, q, r, s, gone), Holds(t, q, r, s, dir, pres, gone), t.pc = "recv",
         TakesRequest(t, q, p, m, gone), Answers(r, o, a, gone),
         m.type \notin FileData, a.type \notin FileData, Handles(u, m, pres)
  PROVE  Holds(u, p, o, s, dir, pres, gone)
  <1> USE DEF TakesRequest, Answers
  <1>1. t.last \in Message /\ t.last.type # "QUIT" /\ RequestLast(q)
    BY DEF Meets, ThreadType
  <1>2. q = <<>> => m.type # "QUIT" /\ (m.type \in {"GET", "PUT"} => m.name \notin Files)
    <2>1. Cleared(t.last).type = t.last.type
      BY <1>1, ClearedTyped
    <2>2. Cleared(t.last).type \in {"GET", "PUT"} => Cleared(t.last).name = Directory
      BY <1>1, ClearedName
    <2>3. Directory \notin Files
      BY FtpAssumption
    <2>4. q = <<>> => m.type = t.last.type /\ m.name = Cleared(t.last).name
      BY <2>1
    <2> QED BY <1>1, <2>1, <2>2, <2>3, <2>4
  <1>3. p = <<>>
    BY <1>1, Received
  <1>4. Leaves(u, p, s)
    <2>1. u.pc = "ended" => HasQuit(q)
      BY <1>2, RequestsSent DEF Handles
    <2> QED BY <2>1, <1>3, RequestsSent DEF Holds, Leaves
  <1>5. gone /\ u.pc # "ended" => NoPut(p)
    BY <1>3, RequestsSent
  <1>6. ASSUME ~gone
        PROVE  /\ q # <<>> /\ m = Head(q)
               /\ s.pc \notin {"prompt", "download", "upload"}
               /\ s.pc \in ReplyTypes => OnlyData(r)
               /\ m.type = "GET" => s.pc = "GET_REPLY" /\ m.name = s.name
               /\ m.type = "PUT" => s.pc = "PUT_REPLY" /\ m.name = s.name
    <2>1. q # <<>> /\ m = Head(q) /\ Talks(t, q, r, s, {})
      BY <1>6 DEF Meets
    <2>2. ~OnlyData(q) /\ Head(q) = q[1] /\ 1 \in 1..Len(q)
      BY <2>1, Received
    <2>3. s.pc \notin {"prompt", "download", "upload"}
      BY <2>1, <2>2 DEF Talks, Quiet
    <2>4. s.pc \in ReplyTypes => OnlyData(r)
      BY <2>1, <2>2 DEF Talks, Awaits
    <2>5. /\ m.type = "GET" => s.pc = "GET_REPLY" /\ m.name = s.name
          /\ m.type = "PUT" => s.pc = "PUT_REPLY" /\ m.name = s.name
      BY <2>1, <2>2 DEF Talks, Asked
    <2> QED BY <2>1, <2>3, <2>4, <2>5
  <1>7. Stores(u, p, s, dir, pres)
    <2> SUFFICES ASSUME Takes(u), u.name \in Files
                 PROVE  /\ s.pc = "PUT_REPLY" /\ u.pc = "putopen"
      BY <1>3, CarriesNothing DEF Stores, Writers
    <2>1. m.type = "PUT" /\ u.name = m.name /\ u.pc = "putopen"
      BY DEF Takes, Handles
    <2>2. ~gone
      BY <2>1, <1>2, RequestsSent DEF Holds
    <2> QED BY <2>1, <2>2, <1>6
  <1>8. Fetches(u, o, s, dir)
    <2>1. s.pc # "download"
      BY <1>6 DEF Meets
    <2>2. ASSUME s.pc = "GET_REPLY", o # <<>>, Head(o).type = "GET_REPLY"
          PROVE  \E by \in Writers : FetchedFrom(u, Tail(o), 0, by, dir)
      <3>1. ~gone /\ OnlyData(r) /\ o = Append(r, a)
        BY <2>2, <1>6 DEF Meets, ReplyTypes
      <3>2. r = <<>>
        <4> SUFFICES ASSUME r # <<>> PROVE FALSE
          OBVIOUS
        <4>1. Head(Append(r, a)) = r[1] /\ 1 \in 1..Len(r)
          OBVIOUS
        <4> QED BY <4>1, <2>2, <3>1 DEF OnlyData, FileData
      <3>3. Tail(o) = <<>>
        BY <3>1, <3>2
      <3>4. CASE u.pc = "getdata"
        <4>1. m.type = "GET" /\ u.name = m.name /\ m.name \in pres \cup {Directory}
          BY <3>4 DEF Handles
        <4>2. u.name = s.name /\ s.name \in Files
          BY <4>1, <3>1, <2>2, <1>6 DEF Meets, Talks, Downloads
        <4>3. u.name \in pres
          BY <4>1, <4>2, FtpAssumption
        <4>4. WholeFile(dir[u.name])
          BY <4>3 DEF Holds, Rests
        <4> QED BY <4>4, <3>3, CarriesNothing DEF WholeFile, FetchedFrom, Writers
      <3>5. CASE u.pc # "getdata"
        <4>1. Owner \in Writers
          BY DEF Writers
        <4> QED BY <4>1, <3>3, <3>5, CarriesNothing DEF FetchedFrom
      <3> QED BY <3>4, <3>5
    <2> QED BY <2>1, <2>2 DEF Fetches
  <1>9. Rests(u, s, dir, pres)
    BY DEF Holds, Rests
  <1> QED BY <1>4, <1>5, <1>7, <1>8, <1>9 DEF Holds

\* The next block of a file that is being read, or its end, is what the rest
\* of it begins with.
LEMMA NextCarried ==
  ASSUME NEW r \in Seq(Message), NEW n \in Nat, NEW by, NEW m \in Message, NEW pos \in Nat,
         Carries(r, n, by), AllBlocks(r), n <= FileBlocks, pos = n + Len(r),
         \/ m.type = "DATA" /\ pos + 1 <= FileBlocks /\ m.block = Block(by, pos + 1)
         \/ m.type = "END" /\ ~(pos + 1 <= FileBlocks)
  PROVE  Carries(Append(r, m), n, by)
  <1>1. FileBlocks \in Nat /\ n + Len(r) <= FileBlocks /\ Len(r) \in Nat
    <2>1. n + Len(r) <= FileBlocks
      BY CarriesUpTo
    <2> QED BY <2>1, OriginalIs
  <1>2. m.type = "DATA" => m.block = Block(by, n + Len(r) + 1) /\ n + Len(r) + 1 <= FileBlocks
    <2>1. "DATA" # "END"
      OBVIOUS
    <2>2. pos + 1 = n + Len(r) + 1
      OBVIOUS
    <2> QED BY <2>1, <2>2
  <1>3. m.type = "END" => n + Len(r) = FileBlocks
    BY <1>1
  <1> QED BY <1>2, <1>3, CarriesSent

LEMMA SendExact ==
  ASSUME NEW t \in ThreadType, NEW u \in ThreadType, NEW q \in Seq(Message),
         NEW r \in Seq(Message), NEW o, NEW s \in ClientType, NEW dir, NEW pres \in SUBSET Files,
         NEW gone \in BOOLEAN, NEW m \in Message,
         Meets(t, q, r, s, gone), Holds(t, q, r, s, dir, pres, gone), t.pc = "getdata",
         \/ /\ m.type = "DATA" /\ u.pc = "getdata" /\ u.name = t.name
            /\ t.name \in Files => /\ t.pos + 1 <= Len(dir[t.name])
                                   /\ m.block = dir[t.name][t.pos + 1]
         \/ /\ m.type = "END" /\ u.pc = "recv"
            /\ t.name \in Files => ~(t.pos + 1 <= Len(dir[t.name])),
         o = IF gone THEN r ELSE Append(r, m)
  PROVE  Holds(u, q, o, s, dir, pres, gone)
  <1>1. Leaves(u, q, s) /\ (gone /\ u.pc # "ended" => NoPut(q))
    BY DEF Holds, Leaves
  <1>2. Stores(u, q, s, dir, pres) /\ Rests(u, s, dir, pres)
    BY DEF Stores, Takes, Holds, Rests
  <1>3. ASSUME NEW p \in Seq(Message), NEW n \in Nat, NEW by, n <= FileBlocks,
               FetchedFrom(t, p, n, by, dir), Follows(t, p, s.name, n, {}), s.name \in Files
        PROVE  FetchedFrom(u, Append(p, m), n, by, dir)
    <2>1. /\ Carries(p, n, by) /\ dir[t.name] = Original(by) /\ t.name = s.name
          /\ AllBlocks(p) /\ t.pos = n + Len(p) /\ t.pos \in Nat
      BY <1>3 DEF FetchedFrom, Follows, ThreadType
    <2>2. /\ Len(dir[t.name]) = FileBlocks /\ FileBlocks \in Nat
          /\ \A i \in 1..FileBlocks : dir[t.name][i] = Block(by, i)
      BY <2>1, OriginalIs
    <2>3. CASE m.type = "DATA"
      <3>1. u.name = t.name /\ t.pos + 1 <= FileBlocks /\ m.block = dir[t.name][t.pos + 1]
        BY <2>3, <2>1, <2>2, <1>3
      <3>2. m.block = Block(by, t.pos + 1)
        BY <3>1, <2>1, <2>2
      <3>3. Carries(Append(p, m), n, by)
        BY <3>1, <3>2, <2>1, <2>3, <1>3, NextCarried
      <3> QED BY <3>1, <3>3, <2>1 DEF FetchedFrom
    <2>4. CASE m.type = "END"
      <3>1. u.pc = "recv" /\ ~(t.pos + 1 <= FileBlocks)
        BY <2>4, <2>1, <2>2, <1>3
      <3>2. Carries(Append(p, m), n, by)
        BY <3>1, <2>1, <2>4, <1>3, NextCarried
      <3> QED BY <3>1, <3>2 DEF FetchedFrom
    <2> QED BY <2>3, <2>4
  <1>4. Fetches(u, o, s, dir)
    <2>1. CASE gone
      BY <2>1 DEF Meets, Fetches
    <2>2. CASE ~gone
      <3>0. Talks(t, q, r, s, {}) /\ o = Append(r, m) /\ FileBlocks \in Nat
        BY <2>2, OriginalIs DEF Meets
      <3>1. ASSUME s.pc = "download"
            PROVE  \E by \in Writers :
                      /\ Part(s.own[s.name], Len(s.own[s.name]), by)
                      /\ FetchedFrom(u, o, Len(s.own[s.name]), by, dir)
        <4>1. PICK by \in Writers : /\ Part(s.own[s.name], Len(s.own[s.name]), by)
                                    /\ FetchedFrom(t, r, Len(s.own[s.name]), by, dir)
          BY <3>1 DEF Holds, Fetches
        <4>2. s.name \in Files /\ Follows(t, r, s.name, Len(s.own[s.name]), {})
          BY <3>0, <3>1 DEF Talks, Downloads
        <4>3. s.own[s.name] \in Seq(Blocks)
          BY <4>2 DEF ClientType
        <4>4. PICK n \in Nat : n = Len(s.own[s.name])
          BY <4>3
        <4>5. n <= FileBlocks
          BY <4>1, <4>4 DEF Part
        <4>6. FetchedFrom(t, r, n, by, dir) /\ Follows(t, r, s.name, n, {}) /\ s.name \in Files
          BY <4>1, <4>2, <4>4
        <4>7. FetchedFrom(u, Append(r, m), n, by, dir)
          BY <4>5, <4>6, <1>3
        <4> QED BY <4>1, <4>4, <4>7, <3>0
      <3>2. ASSUME s.pc = "GET_REPLY", Head(o).type = "GET_REPLY"
            PROVE  \E by \in Writers : FetchedFrom(u, Tail(o), 0, by, dir)
        <4>1. r # <<>>
          <5>1. Head(Append(<<>>, m)) = m
            OBVIOUS
          <5> QED BY <5>1, <3>0, <3>2
        <4>2. Head(o) = Head(r) /\ Tail(o) = Append(Tail(r), m) /\ Tail(r) \in Seq(Message)
          BY <4>1, <3>0
        <4>3. PICK by \in Writers : FetchedFrom(t, Tail(r), 0, by, dir)
          BY <3>2, <4>1, <4>2 DEF Holds, Fetches
        <4>4. s.name \in Files /\ Follows(t, Tail(r), s.name, 0, {})
          BY <3>0, <3>2, <4>1, <4>2 DEF Talks, Downloads
        <4>5. FetchedFrom(u, Append(Tail(r), m), 0, by, dir)
          <5>1. 0 \in Nat /\ 0 <= FileBlocks
            BY <3>0
          <5> QED BY <5>1, <4>2, <4>3, <4>4, <1>3
        <4> QED BY <4>2, <4>5
      <3> QED BY <3>1, <3>2 DEF Fetches
    <2> QED BY <2>1, <2>2
  <1> QED BY <1>1, <1>2, <1>4 DEF Holds

LEMMA OpenExact ==
  ASSUME NEW t \in ThreadType, NEW u \in ThreadType, NEW q, NEW r, NEW s, NEW pres, NEW more,
         NEW gone, NEW dir, NEW new, Holds(t, q, r, s, dir, pres, gone),
         t.pc = "putopen", t.name \in Files, u.pc = "putdata", u.name = t.name, u.pos = 0,
         more = pres \cup {t.name}, new[t.name] = <<>>,
         \A f \in pres : f # t.name => new[f] = dir[f]
  PROVE  Holds(u, q, r, s, new, more, gone)
  <1>1. Leaves(u, q, s) /\ (gone /\ u.pc # "ended" => NoPut(q))
    BY DEF Holds, Leaves
  <1>2. Fetches(u, r, s, new)
    BY DEF Holds, Fetches, FetchedFrom
  <1>3. Rests(u, s, new, more)
    BY DEF Holds, Rests
  <1>4. Stores(u, q, s, new, more)
    <2>1. Takes(t) /\ Takes(u) /\ Taken(t) = 0 /\ Taken(u) = 0
      BY DEF Takes, Taken
    <2>2. HasEnd(q) \/ s.pc \in {"upload", "PUT_REPLY"}
      BY <2>1 DEF Holds, Stores
    <2>3. PICK by \in Writers :
             /\ Carries(q, 0, by)
             /\ s.pc = "upload" => s.own[s.name] = Original(by)
      BY <2>1 DEF Holds, Stores
    <2>4. Part(new[u.name], u.pos, by) /\ u.name \in more
      <3>1. new[u.name] = <<>> /\ u.pos = 0
        OBVIOUS
      <3>2. Part(<<>>, 0, by)
        BY PartOfAll
      <3> QED BY <3>1, <3>2
    <2>5. Carries(q, Taken(u), by)
      BY <2>1, <2>3
    <2> QED BY <2>2, <2>3, <2>4, <2>5 DEF Stores
  <1> QED BY <1>1, <1>2, <1>3, <1>4 DEF Holds

\* The thread takes a block of the file that is sent, or its end.
LEMMA TakenExact ==
  ASSUME NEW t \in ThreadType, NEW u \in ThreadType, NEW q \in Seq(Message), NEW r,
         NEW s \in ClientType, NEW pres \in SUBSET Files, NEW gone \in BOOLEAN,
         NEW dir \in [Files -> Seq(Blocks)], NEW new,
         Meets(t, q, r, s, gone), Holds(t, q, r, s, dir, pres, gone), t.pc = "putdata", q # <<>>,
         \/ /\ Head(q).type = "DATA" /\ u.pc = "putdata" /\ u.name = t.name /\ u.pos = t.pos + 1
            /\ new[t.name] = Written(dir[t.name], t.pos + 1, Head(q).block)
            /\ \A f \in Files : f # t.name => new[f] = dir[f]
         \/ Head(q).type = "END" /\ u.pc = "recv" /\ new = dir
  PROVE  Holds(u, Tail(q), r, s, new, pres, gone)
  <1>1. t.name \in Files /\ t.pos \in Nat /\ dir[t.name] \in Seq(Blocks) /\ Takes(t) /\ Taken(t) = t.pos
    BY DEF Meets, ThreadType, Takes, Taken
  <1>2. PICK by \in Writers :
           /\ t.name \in pres /\ Part(dir[t.name], t.pos, by) /\ Carries(q, t.pos, by)
           /\ s.pc = "upload" => s.own[s.name] = Original(by)
    BY <1>1 DEF Holds, Stores
  <1>3. /\ Head(q).type = "DATA" =>
              /\ Head(q).block = Block(by, t.pos + 1) /\ t.pos + 1 <= FileBlocks
              /\ Carries(Tail(q), t.pos + 1, by)
        /\ Head(q).type = "END" => t.pos = FileBlocks
    BY <1>1, <1>2, CarriesReceived
  <1>4. Leaves(u, Tail(q), s) /\ (gone /\ u.pc # "ended" => NoPut(Tail(q)))
    BY RequestsSent DEF Holds, Leaves
  <1>5. Fetches(u, r, s, new)
    BY DEF Holds, Fetches, FetchedFrom
  <1>6. CASE Head(q).type = "DATA"
    <2>1. Part(new[u.name], u.pos, by)
      BY <1>1, <1>2, <1>3, <1>6, PartFacts
    <2>2. HasEnd(Tail(q)) \/ s.pc \in {"upload", "PUT_REPLY"}
      <3>1. HasEnd(q) \/ s.pc \in {"upload", "PUT_REPLY"}
        BY <1>1 DEF Holds, Stores
      <3> QED BY <3>1, <1>6, Received
    <2>3. Taken(u) = t.pos + 1 /\ u.name = t.name
      BY <1>6 DEF Taken
    <2>4. Stores(u, Tail(q), s, new, pres)
      BY <2>1, <2>2, <2>3, <1>2, <1>3, <1>6 DEF Stores
    <2>5. Rests(u, s, new, pres)
      BY <1>6 DEF Holds, Rests
    <2> QED BY <2>4, <2>5, <1>4, <1>5 DEF Holds
  <1>7. CASE Head(q).type = "END"
    <2>1. Stores(u, Tail(q), s, new, pres)
      BY <1>7 DEF Stores, Takes
    <2>2. dir[t.name] = Original(by)
      BY <1>1, <1>2, <1>3, <1>7, PartFacts
    <2>3. Rests(u, s, new, pres)
      BY <2>2, <1>7 DEF Holds, Rests, WholeFile, Writers
    <2> QED BY <2>1, <2>3, <1>4, <1>5 DEF Holds
  <1> QED BY <1>6, <1>7

-----------------------------------------------------------------------------
(* What the steps of a client leave of the transfers *)

\* What a client that is not downloading has is whole.
LEMMA OwnWhole ==
  ASSUME NEW t, NEW q, NEW r, NEW s, NEW v, NEW dir, NEW pres, NEW gone,
         Holds(t, q, r, s, dir, pres, gone), s.pc # "download", v.own = s.own
  PROVE  Rests(t, v, dir, pres) /\ \A f \in Files : WholeFile(s.own[f])
  BY DEF Holds, Rests

\* A client that sends a command.
LEMMA AskExact ==
  ASSUME NEW t \in ThreadType, NEW q \in Seq(Message), NEW r \in Seq(Message), NEW s, NEW v,
         NEW m \in Message, NEW dir, NEW pres,
         Meets(t, q, r, s, FALSE), Holds(t, q, r, s, dir, pres, FALSE), s.pc = "prompt",
         m.type \notin FileData, m.type = "QUIT" => v.pc = "QUIT_REPLY",
         v.pc \in ReplyTypes, v.own = s.own
  PROVE  t.pc # "ended" /\ Holds(t, Append(q, m), r, v, dir, pres, FALSE)
  <1>1. t.pc # "ended" /\ ~HasQuit(q)
    BY DEF Holds, Leaves
  <1>2. OnlyData(r) /\ OnlyData(q)
    BY <1>1 DEF Meets, Talks, Quiet
  <1>3. Leaves(t, Append(q, m), v)
    BY <1>1, RequestsSent DEF Leaves
  <1>4. v.pc \notin {"download", "upload"}
    BY DEF ReplyTypes
  <1>5. Rests(t, v, dir, pres)
    BY OwnWhole
  <1>6. Fetches(t, r, v, dir)
    <2>1. r # <<>> => Head(r).type # "GET_REPLY"
      BY <1>2, Received DEF FileData
    <2> QED BY <2>1, <1>4 DEF Fetches
  <1>7. Stores(t, Append(q, m), v, dir, pres)
    <2> SUFFICES ASSUME Takes(t), t.name \in Files
                 PROVE  /\ HasEnd(Append(q, m))
                        /\ \E by \in Writers :
                              /\ t.pc = "putdata" => t.name \in pres /\ Part(dir[t.name], t.pos, by)
                              /\ Carries(Append(q, m), Taken(t), by)
      BY <1>4 DEF Stores
    <2>1. HasEnd(q)
      BY DEF Holds, Stores
    <2>2. PICK by \in Writers :
             /\ t.pc = "putdata" => t.name \in pres /\ Part(dir[t.name], t.pos, by)
             /\ Carries(q, Taken(t), by)
      BY DEF Holds, Stores
    <2>3. m.type # "DATA" /\ m.type # "END" /\ Taken(t) \in Nat
      BY DEF FileData, Taken, ThreadType
    <2>4. Carries(Append(q, m), Taken(t), by)
      BY <2>2, <2>3, CarriesSent
    <2> QED BY <2>1, <2>2, <2>4, Sent
  <1> QED BY <1>1, <1>3, <1>5, <1>6, <1>7 DEF Holds

\* A client that goes on to the prompt, or leaves, without having transferred
\* anything.
LEMMA BackExact ==
  ASSUME NEW t, NEW q \in Seq(Message), NEW r \in Seq(Message), NEW o, NEW s, NEW v, NEW dir,
         NEW pres, NEW gone \in BOOLEAN, NEW now \in BOOLEAN,
         Meets(t, q, r, s, gone), Holds(t, q, r, s, dir, pres, gone),
         s.pc \in {"prompt"} \cup (ReplyTypes \ {"PUT_REPLY"}),
         v.pc = "exited" \/ (v.pc = "prompt" /\ s.pc # "QUIT_REPLY"),
         v.own = s.own
  PROVE  Holds(t, q, o, v, dir, pres, now)
  <1>1. s.pc \notin {"download", "upload", "PUT_REPLY", "exited", "killed"}
    BY DEF ReplyTypes
  <1>2. Leaves(t, q, v)
    BY <1>1 DEF Holds, Leaves
  <1>3. now /\ t.pc # "ended" => NoPut(q)
    <2>1. CASE gone
      BY <2>1 DEF Holds
    <2>2. CASE ~gone
      BY <2>2, <1>1 DEF Meets, Talks, Asked, NoPut
    <2> QED BY <2>1, <2>2
  <1>4. Stores(t, q, v, dir, pres)
    BY <1>1 DEF Holds, Stores
  <1>5. Fetches(t, o, v, dir)
    BY DEF Fetches
  <1>6. Rests(t, v, dir, pres)
    BY <1>1, OwnWhole
  <1> QED BY <1>2, <1>3, <1>4, <1>5, <1>6 DEF Holds

\* PUT_REPLY: the thread has nothing of the file yet.
LEMMA PutReplyExact ==
  ASSUME NEW t \in ThreadType, NEW q \in Seq(Message), NEW r \in Seq(Message),
         NEW s \in ClientType, NEW v, NEW dir \in [Files -> Seq(Blocks)], NEW pres,
         Meets(t, q, r, s, FALSE), Holds(t, q, r, s, dir, pres, FALSE), s.pc = "PUT_REPLY",
         r # <<>>, Head(r).type \notin FileData, s.name \in Files,
         v.pc = "upload", v.own = s.own, v.name = s.name
  PROVE  Holds(t, q, Tail(r), v, dir, pres, FALSE)
  <1>1. Leaves(t, q, v) /\ t.pc # "ended"
    BY DEF Holds, Leaves
  <1>2. Rests(t, v, dir, pres) /\ WholeFile(s.own[s.name])
    BY OwnWhole
  <1>3. Fetches(t, Tail(r), v, dir)
    BY DEF Fetches
  <1>4. Stores(t, q, v, dir, pres)
    <2> SUFFICES ASSUME Takes(t), t.name \in Files
                 PROVE  \E by \in Writers :
                           /\ t.pc = "putdata" => t.name \in pres /\ Part(dir[t.name], t.pos, by)
                           /\ Carries(q, Taken(t), by)
                           /\ v.own[v.name] = Original(by)
      BY DEF Stores
    <2>1. Talks(t, q, r, s, {}) /\ "PUT_REPLY" \in ReplyTypes
      BY DEF Meets, ReplyTypes
    <2>2. OnlyData(q)
      <3>1. Quiet(t, q, Tail(r))
        BY <2>1, ReplyQuiet
      <3> QED BY <3>1, <1>1 DEF Quiet
    <2>3. s.pos = 0 /\ s.pos = Len(q) + Taken(t)
      BY <2>1, <2>2 DEF Talks, Uploads
    <2>4. Len(q) = 0 /\ Taken(t) = 0
      <3>1. Taken(t) \in Nat /\ Len(q) \in Nat
        BY DEF Taken, ThreadType
      <3> QED BY <3>1, <2>3
    <2>5. q = <<>>
      BY <2>4
    <2>6. PICK by \in Writers : s.own[s.name] = Original(by)
      BY <1>2 DEF WholeFile, Writers
    <2>7. t.pc = "putdata" => t.name \in pres /\ Part(dir[t.name], t.pos, by)
      <3> SUFFICES ASSUME t.pc = "putdata" PROVE t.name \in pres /\ Part(dir[t.name], t.pos, by)
        OBVIOUS
      <3>1. t.pos = 0
        BY <2>4 DEF Taken
      <3>2. PICK w \in Writers : t.name \in pres /\ Part(dir[t.name], t.pos, w)
        BY DEF Holds, Stores
      <3>3. Part(dir[t.name], 0, by)
        BY <3>1, <3>2 DEF Part
      <3> QED BY <3>1, <3>2, <3>3
    <2>8. Carries(q, Taken(t), by)
      BY <2>5, CarriesNothing
    <2> QED BY <2>6, <2>7, <2>8
  <1> QED BY <1>1, <1>2, <1>3, <1>4 DEF Holds

\* GET_REPLY: the client has nothing of the file yet.
LEMMA GetReplyExact ==
  ASSUME NEW t, NEW q, NEW r, NEW s \in ClientType, NEW v, NEW dir, NEW pres,
         Meets(t, q, r, s, FALSE), Holds(t, q, r, s, dir, pres, FALSE), s.pc = "GET_REPLY",
         r # <<>>, Head(r).type = "GET_REPLY",
         v.pc = "download", v.name = s.name, v.own = [s.own EXCEPT ![s.name] = <<>>]
  PROVE  Holds(t, q, Tail(r), v, dir, pres, FALSE)
  <1>1. Leaves(t, q, v)
    BY DEF Holds, Leaves
  <1>2. /\ s.name \in Files /\ v.own[v.name] = <<>>
        /\ \A f \in Files : f # s.name => v.own[f] = s.own[f]
    BY DEF Meets, Talks, Downloads, ClientType
  <1>3. Rests(t, v, dir, pres)
    BY <1>2 DEF Holds, Rests
  <1>4. Stores(t, q, v, dir, pres)
    BY DEF Holds, Stores
  <1>5. Fetches(t, Tail(r), v, dir)
    <2>1. PICK by \in Writers : FetchedFrom(t, Tail(r), 0, by, dir)
      BY DEF Holds, Fetches
    <2>2. Len(v.own[v.name]) = 0 /\ Part(v.own[v.name], 0, by)
      BY <1>2, PartOfAll
    <2> QED BY <2>1, <2>2 DEF Fetches
  <1> QED BY <1>1, <1>3, <1>4, <1>5 DEF Holds

\* A client that takes the next block of its file, or the end.
LEMMA DownloadExact ==
  ASSUME NEW t, NEW q, NEW r \in Seq(Message), NEW s \in ClientType, NEW v, NEW dir, NEW pres,
         Meets(t, q, r, s, FALSE), Holds(t, q, r, s, dir, pres, FALSE), s.pc = "download",
         r # <<>>, v.name = s.name,
         \/ Head(r).type = "END" /\ v.pc = "prompt" /\ v.own = s.own
         \/ /\ Head(r).type = "DATA" /\ v.pc = "download"
            /\ v.own = [s.own EXCEPT ![s.name] = Append(s.own[s.name], Head(r).block)]
  PROVE  t.pc # "ended" /\ Holds(t, q, Tail(r), v, dir, pres, FALSE)
  <1>1. Leaves(t, q, v) /\ t.pc # "ended"
    BY DEF Holds, Leaves
  <1>2. Stores(t, q, v, dir, pres)
    BY DEF Holds, Stores
  <1>3. s.name \in Files /\ s.own[s.name] \in Seq(Blocks) /\ s.own \in [Files -> Seq(Blocks)]
    BY DEF Meets, Talks, Downloads, ClientType
  <1>4. PICK n \in Nat : n = Len(s.own[s.name])
    <2>1. \A x \in Seq(Blocks) : Len(x) \in Nat
      OBVIOUS
    <2>2. Len(s.own[s.name]) \in Nat
      BY <2>1, <1>3
    <2> QED BY <2>2
  <1>5. PICK by \in Writers : Part(s.own[s.name], n, by) /\ FetchedFrom(t, r, n, by, dir)
    BY <1>4 DEF Holds, Fetches
  <1>6. Carries(r, n, by)
    BY <1>5 DEF FetchedFrom
  <1>7. /\ Head(r).type = "DATA" =>
              /\ Head(r).block = Block(by, n + 1) /\ n + 1 <= FileBlocks
              /\ Carries(Tail(r), n + 1, by)
        /\ Head(r).type = "END" => n = FileBlocks
    BY <1>6, CarriesReceived
  <1>8. CASE Head(r).type = "END" /\ v.pc = "prompt" /\ v.own = s.own
    <2>1. s.own[s.name] = Original(by)
      BY <1>3, <1>5, <1>7, <1>8, PartFacts
    <2>2. Rests(t, v, dir, pres)
      BY <2>1, <1>8 DEF Holds, Rests, WholeFile, Writers
    <2>3. Fetches(t, Tail(r), v, dir)
      BY <1>8 DEF Fetches
    <2> QED BY <2>2, <2>3, <1>1, <1>2 DEF Holds
  <1>9. CASE /\ Head(r).type = "DATA" /\ v.pc = "download"
             /\ v.own = [s.own EXCEPT ![s.name] = Append(s.own[s.name], Head(r).block)]
    <2>1. /\ v.own[v.name] = Append(s.own[s.name], Block(by, n + 1))
          /\ \A f \in Files : f # s.name => v.own[f] = s.own[f]
      BY <1>3, <1>7, <1>9
    <2>2. Part(v.own[v.name], n + 1, by)
      BY <2>1, <1>3, <1>5, <1>7, <1>9, PartFacts
    <2>3. Len(v.own[v.name]) = n + 1
      BY <2>2 DEF Part
    <2>4. FetchedFrom(t, Tail(r), n + 1, by, dir)
      BY <1>5, <1>7, <1>9 DEF FetchedFrom
    <2>5. Fetches(t, Tail(r), v, dir)
      <3>1. /\ Part(v.own[v.name], Len(v.own[v.name]), by)
            /\ FetchedFrom(t, Tail(r), Len(v.own[v.name]), by, dir)
        BY <2>2, <2>3, <2>4
      <3> QED BY <3>1, <1>9 DEF Fetches
    <2>6. Rests(t, v, dir, pres)
      BY <2>1, <1>9 DEF Holds, Rests
    <2> QED BY <2>5, <2>6, <1>1, <1>2 DEF Holds
  <1> QED BY <1>8, <1>9

\* A client that sends the next block of its file, or the end.
LEMMA UploadExact ==
  ASSUME NEW t \in ThreadType, NEW q \in Seq(Message), NEW r \in Seq(Message),
         NEW s \in ClientType, NEW v, NEW m \in Message, NEW dir, NEW pres,
         Meets(t, q, r, s, FALSE), Holds(t, q, r, s, dir, pres, FALSE), s.pc = "upload",
         s.name \in Files, v.own = s.own, v.name = s.name,
         \/ /\ m.type = "DATA" /\ v.pc = "upload"
            /\ s.pos + 1 <= Len(s.own[s.name]) /\ m.block = s.own[s.name][s.pos + 1]
         \/ m.type = "END" /\ v.pc = "prompt" /\ ~(s.pos + 1 <= Len(s.own[s.name]))
  PROVE  t.pc # "ended" /\ Holds(t, Append(q, m), r, v, dir, pres, FALSE)
  <1>1. t.pc # "ended" /\ ~HasQuit(q)
    BY DEF Holds, Leaves
  <1>2. Leaves(t, Append(q, m), v)
    BY <1>1, RequestsSent DEF Leaves
  <1>3. Rests(t, v, dir, pres) /\ Fetches(t, r, v, dir)
    <2>1. Rests(t, v, dir, pres)
      BY OwnWhole
    <2>2. v.pc \notin {"download", "GET_REPLY"}
      OBVIOUS
    <2> QED BY <2>1, <2>2 DEF Fetches
  <1>4. Stores(t, Append(q, m), v, dir, pres)
    <2> SUFFICES ASSUME Takes(t), t.name \in Files
                 PROVE  /\ HasEnd(Append(q, m)) \/ v.pc = "upload"
                        /\ \E by \in Writers :
                              /\ t.pc = "putdata" => t.name \in pres /\ Part(dir[t.name], t.pos, by)
                              /\ Carries(Append(q, m), Taken(t), by)
                              /\ v.own[v.name] = Original(by)
      BY DEF Stores
    <2>1. HasEnd(Append(q, m)) \/ v.pc = "upload"
      BY Sent
    <2>2. PICK by \in Writers :
             /\ t.pc = "putdata" => t.name \in pres /\ Part(dir[t.name], t.pos, by)
             /\ Carries(q, Taken(t), by) /\ s.own[s.name] = Original(by)
      BY DEF Holds, Stores
    <2>3. AllBlocks(q) /\ s.pos = Len(q) + Taken(t)
      BY DEF Meets, Talks, Uploads
    <2>4. PICK n \in Nat : n = Taken(t)
      BY DEF Taken, ThreadType
    <2>5. n <= FileBlocks
      <3>1. CASE t.pc = "putdata"
        BY <3>1, <2>2, <2>4 DEF Taken, Part
      <3>2. CASE t.pc # "putdata"
        BY <3>2, <2>4, OriginalIs DEF Taken
      <3> QED BY <3>1, <3>2
    <2>6. /\ Len(s.own[s.name]) = FileBlocks /\ FileBlocks \in Nat
          /\ \A i \in 1..FileBlocks : s.own[s.name][i] = Block(by, i)
      BY <2>2, OriginalIs
    <2>7. s.pos \in Nat /\ s.pos = n + Len(q) /\ Carries(q, n, by)
      <3>1. Len(q) \in Nat
        OBVIOUS
      <3>2. s.pos \in Nat
        BY DEF ClientType
      <3> QED BY <3>1, <3>2, <2>2, <2>3, <2>4
    <2>8. \/ m.type = "DATA" /\ s.pos + 1 <= FileBlocks /\ m.block = Block(by, s.pos + 1)
          \/ m.type = "END" /\ ~(s.pos + 1 <= FileBlocks)
      BY <2>6, <2>7
    <2>9. Carries(Append(q, m), n, by)
      BY <2>3, <2>5, <2>7, <2>8, NextCarried
    <2> QED BY <2>1, <2>2, <2>4, <2>9
  <1> QED BY <1>1, <1>2, <1>3, <1>4 DEF Holds

-----------------------------------------------------------------------------
(* The steps on the whole state *)

\* The only client uses its first connection.
Uses(c, k) ==
    /\ Clients = {c} /\ k \in Conn /\ k = First(c) /\ One(c) /\ used[c] = 1 /\ Sock(c) = k
    /\ th[k] \in ThreadType /\ cl[c] \in ClientType /\ DirTyped
    /\ toSrv[k] \in Seq(Message) /\ toCli[k] \in Seq(Message)
    /\ Meets(th[k], toSrv[k], toCli[k], cl[c], k \in closed)
    /\ Holds(th[k], toSrv[k], toCli[k], cl[c], filedir, present, k \in closed)

LEMMA UsesFirst ==
  ASSUME NEW c, Clients = {c}, IInv, PlaceInv, ExactInv, One(c), used[c] = 1
  PROVE  Uses(c, First(c))
  <1>1. Sock(c) = First(c)
        /\ Holds(th[First(c)], toSrv[First(c)], toCli[First(c)], cl[c], filedir, present,
                 First(c) \in closed)
    BY ExactParts
  <1>2. PICK k : k = First(c)
    OBVIOUS
  <1> QED BY <1>1, <1>2, OneFacts DEF Uses

LEMMA ExactNext ==
  ASSUME NEW c, Clients = {c}, NEW k, k = First(c), used'[c] = 1,
         server' /\ cl'[c].pc \notin Lost =>
            /\ cl'[c].sock = k
            /\ Holds(th'[k], toSrv'[k], toCli'[k], cl'[c], filedir', present', k \in closed')
  PROVE  ExactInv'
  <1> SUFFICES ASSUME server', cl'[c].pc \notin Lost PROVE Exact(c)'
    BY DEF ExactInv
  <1> QED BY DEF Exact, Holds, First, Sock

\* A request on which the thread goes on as u, and answers m.
LEMMA RequestOne ==
  ASSUME NEW c, NEW k, Uses(c, k), NEW type, type \notin FileData, Receives(k, type),
         IInv, NEW u \in ThreadType, NEW m \in Message, m.type \notin FileData, Answer(k, u, m),
         Handles(u, Request(k), present), dirVars' = dirVars, cl' = cl, used' = used
  PROVE  ExactInv'
  <1> DEFINE gone == k \in closed
  <1>0. ThreadsTyped /\ MailTyped
    BY TypeParts DEF IInv
  <1>1. /\ Clients = {c} /\ k \in Conn /\ k = First(c) /\ used[c] = 1 /\ cl[c].sock = k
        /\ th[k] \in ThreadType /\ cl[c] \in ClientType /\ present \in SUBSET Files
        /\ toSrv[k] \in Seq(Message) /\ toCli[k] \in Seq(Message)
        /\ Meets(th[k], toSrv[k], toCli[k], cl[c], gone)
        /\ Holds(th[k], toSrv[k], toCli[k], cl[c], filedir, present, gone)
    BY DEF Uses, DirTyped, Sock
  <1>2. th[k].pc = "recv" /\ Request(k).type = type /\ (toSrv[k] # <<>> \/ gone)
    BY DEF Receives
  <1>3. \/ toSrv[k] # <<>> /\ Request(k) = Head(toSrv[k]) /\ toSrv'[k] = Tail(toSrv[k])
        \/ toSrv[k] = <<>> /\ gone /\ Request(k) = Cleared(th[k].last) /\ toSrv'[k] = toSrv[k]
    BY <1>0, <1>1, <1>2 DEF Receives, Request, MailTyped
  <1>4. server' => /\ th'[k] = u /\ closed' = closed
                   /\ toCli'[k] = IF gone THEN toCli[k] ELSE Append(toCli[k], m)
    BY <1>0, <1>1 DEF Answer, ServerEnds, ThreadsTyped, MailTyped
  <1>5. ASSUME server'
        PROVE  Holds(u, toSrv'[k], toCli'[k], cl[c], filedir, present, gone)
    <2>1. PICK o, p, a : o = toCli'[k] /\ p = toSrv'[k] /\ a = Request(k)
      OBVIOUS
    <2>2. PICK t, q, r, s, dir, pres, g :
             /\ t = th[k] /\ q = toSrv[k] /\ r = toCli[k] /\ s = cl[c]
             /\ dir = filedir /\ pres = present /\ g = gone
      OBVIOUS
    <2>3. /\ t \in ThreadType /\ q \in Seq(Message) /\ r \in Seq(Message) /\ s \in ClientType
          /\ pres \in SUBSET Files /\ g \in BOOLEAN /\ t.pc = "recv"
          /\ Meets(t, q, r, s, g) /\ Holds(t, q, r, s, dir, pres, g)
      BY <2>2, <1>1, <1>2
    <2>4. TakesRequest(t, q, p, a, g) /\ Answers(r, o, m, g)
      BY <2>1, <2>2, <1>3, <1>4, <1>5 DEF TakesRequest, Answers
    <2>5. a.type \notin FileData /\ Handles(u, a, pres)
      BY <2>1, <2>2, <1>2
    <2> HIDE DEF gone
    <2>6. Holds(u, p, o, s, dir, pres, g)
      BY <2>3, <2>4, <2>5, RequestExact
    <2> QED BY <2>1, <2>2, <2>6
  <1>6. server' => Holds(th'[k], toSrv'[k], toCli'[k], cl'[c], filedir', present', k \in closed')
    BY <1>4, <1>5 DEF dirVars
  <1> HIDE DEF gone
  <1> QED BY <1>1, <1>6, ExactNext

LEMMA HandlerExact ==
  ASSUME NEW c, NEW k, Uses(c, k), IInv,
         \/ HandleOpen(k) \/ HandleAuth(k) \/ HandleRefused(k) \/ HandleList(k)
         \/ HandleGet(k) \/ HandlePut(k) \/ HandleQuit(k)
  PROVE  ExactInv'
  <1>0. k \in Conn
    BY DEF Uses
  <1>n. \A type \in RequestTypes \cup ReplyTypes \cup {"REFUSED"} : type \notin FileData
    BY DEF RequestTypes, ReplyTypes, FileData
  <1>t. ASSUME NEW type, Receives(k, type)
        PROVE  /\ Thread(k) \in ThreadType /\ Thread(k).pc = "recv" /\ Request(k) \in Message
               /\ Request(k).type = type
    BY <1>0, <1>t, RequestFacts
  <1>u. ASSUME Thread(k).pc = "recv" PROVE Handles(Thread(k), Request(k), present)
    BY <1>u DEF Handles
  <1>1. CASE HandleOpen(k)
    <2>1. /\ Receives(k, "OPEN") /\ Answer(k, Thread(k), Plain("OPEN_REPLY"))
          /\ dirVars' = dirVars /\ cl' = cl /\ used' = used
      BY <1>1 DEF HandleOpen, dirVars, bounds
    <2>2. Plain("OPEN_REPLY") \in Message /\ Plain("OPEN_REPLY").type = "OPEN_REPLY"
      BY MessagesTyped DEF ReplyTypes
    <2>3. "OPEN" \notin FileData /\ "OPEN_REPLY" \notin FileData
      BY DEF FileData
    <2> QED BY <2>1, <2>2, <2>3, <1>t, <1>u, RequestOne
  <1>2. CASE HandleAuth(k)
    <2> DEFINE u == [Thread(k) EXCEPT !.auth = Request(k).ok]
               m == Status("AUTH_REPLY", Request(k).ok)
    <2>1. Receives(k, "AUTH") /\ Answer(k, u, m) /\ dirVars' = dirVars /\ cl' = cl /\ used' = used
      BY <1>2 DEF HandleAuth, dirVars, bounds
    <2>2. Request(k).ok \in BOOLEAN /\ Thread(k) \in ThreadType /\ Thread(k).pc = "recv"
      BY <2>1, <1>t DEF Message
    <2>3. u \in ThreadType /\ Handles(u, Request(k), present)
      BY <2>2 DEF ThreadType, Handles
    <2>4. m \in Message /\ m.type = "AUTH_REPLY"
      BY <2>2, MessagesTyped
    <2>5. "AUTH" \notin FileData /\ m.type \notin FileData
      BY <2>4 DEF FileData
    <2> HIDE DEF u, m
    <2> QED BY <2>1, <2>3, <2>4, <2>5, RequestOne
  <1>3. CASE HandleRefused(k)
    <2>1. PICK type \in {"LIST", "GET", "PUT"} : Receives(k, type)
      BY <1>3 DEF HandleRefused
    <2>2. PICK stale \in {"REFUSED", "PUT_REPLY"} : Answer(k, Thread(k), Plain(stale))
      BY <1>3 DEF HandleRefused
    <2>3. dirVars' = dirVars /\ cl' = cl /\ used' = used
      BY <1>3 DEF HandleRefused, dirVars, bounds
    <2>4. Plain(stale) \in Message /\ Plain(stale).type \notin FileData
      BY MessagesTyped, <1>n DEF ReplyTypes
    <2>5. type \notin FileData
      BY DEF FileData
    <2> QED BY <2>1, <2>2, <2>3, <2>4, <2>5, <1>t, <1>u, RequestOne
  <1>4. CASE HandleList(k)
    <2>1. /\ Receives(k, "LIST") /\ Answer(k, Thread(k), Plain("LIST_REPLY"))
          /\ dirVars' = dirVars /\ cl' = cl /\ used' = used
      BY <1>4 DEF HandleList, dirVars, bounds
    <2>2. Plain("LIST_REPLY") \in Message /\ Plain("LIST_REPLY").type = "LIST_REPLY"
      BY MessagesTyped DEF ReplyTypes
    <2>3. "LIST" \notin FileData /\ "LIST_REPLY" \notin FileData
      BY DEF FileData
    <2> QED BY <2>1, <2>2, <2>3, <1>t, <1>u, RequestOne
  <1>5. CASE HandleGet(k)
    <2> DEFINE f == Request(k).name
               found == f \in present \cup {Directory}
               u == IF found THEN [Thread(k) EXCEPT !.pc = "getdata", !.name = f, !.pos = 0]
                             ELSE Thread(k)
               m == Status("GET_REPLY", found)
    <2>1. Receives(k, "GET") /\ Answer(k, u, m) /\ dirVars' = dirVars /\ cl' = cl /\ used' = used
      BY <1>5 DEF HandleGet, dirVars, bounds
    <2>2. f \in Name /\ Thread(k) \in ThreadType /\ Thread(k).pc = "recv" /\ Request(k).type = "GET"
      BY <2>1, <1>t DEF Message
    <2>3. u \in ThreadType /\ Handles(u, Request(k), present)
      BY <2>2 DEF ThreadType, ThreadPc, Handles
    <2>4. m \in Message /\ m.type = "GET_REPLY"
      <3>1. found \in BOOLEAN
        OBVIOUS
      <3> HIDE DEF found
      <3> QED BY <3>1, MessagesTyped
    <2>5. "GET" \notin FileData /\ m.type \notin FileData
      BY <2>4 DEF FileData
    <2> HIDE DEF u, m
    <2> QED BY <2>1, <2>3, <2>4, <2>5, RequestOne
  <1>6. CASE HandlePut(k)
    <2> DEFINE u == [Thread(k) EXCEPT !.pc = "putopen", !.name = Request(k).name]
    <2>1. /\ Receives(k, "PUT") /\ Answer(k, u, Plain("PUT_REPLY"))
          /\ dirVars' = dirVars /\ cl' = cl /\ used' = used
      BY <1>6 DEF HandlePut, dirVars, bounds
    <2>2. /\ Request(k).name \in Name /\ Thread(k) \in ThreadType /\ Request(k).type = "PUT"
      BY <2>1, <1>t DEF Message
    <2>3. u \in ThreadType /\ Handles(u, Request(k), present)
      BY <2>2 DEF ThreadType, ThreadPc, Handles
    <2>4. Plain("PUT_REPLY") \in Message /\ Plain("PUT_REPLY").type = "PUT_REPLY"
      BY MessagesTyped DEF ReplyTypes
    <2>5. "PUT" \notin FileData /\ "PUT_REPLY" \notin FileData
      BY DEF FileData
    <2> HIDE DEF u
    <2> QED BY <2>1, <2>3, <2>4, <2>5, RequestOne
  <1>7. CASE HandleQuit(k)
    <2> DEFINE u == [Thread(k) EXCEPT !.pc = "ended"]
    <2>1. /\ Receives(k, "QUIT") /\ Answer(k, u, Plain("QUIT_REPLY"))
          /\ dirVars' = dirVars /\ cl' = cl /\ used' = used
      BY <1>7 DEF HandleQuit, dirVars, bounds
    <2>2. Thread(k) \in ThreadType /\ Request(k).type = "QUIT"
      BY <2>1, <1>t
    <2>3. u \in ThreadType /\ Handles(u, Request(k), present)
      BY <2>2 DEF ThreadType, ThreadPc, Handles
    <2>4. Plain("QUIT_REPLY") \in Message /\ Plain("QUIT_REPLY").type = "QUIT_REPLY"
      BY MessagesTyped DEF ReplyTypes
    <2>5. "QUIT" \notin FileData /\ "QUIT_REPLY" \notin FileData
      BY DEF FileData
    <2> HIDE DEF u
    <2> QED BY <2>1, <2>3, <2>4, <2>5, RequestOne
  <1> QED BY <1>1, <1>2, <1>3, <1>4, <1>5, <1>6, <1>7

LEMMA SendingExact ==
  ASSUME NEW c, NEW k, Uses(c, k), IInv, SendBlock(k)
  PROVE  ExactInv'
  <1> DEFINE gone == k \in closed
             contents == IF th[k].name \in Files THEN filedir[th[k].name] ELSE <<>>
             i == th[k].pos + 1
  <1>0. ThreadsTyped /\ MailTyped
    BY TypeParts DEF IInv
  <1>1. /\ Clients = {c} /\ k \in Conn /\ k = First(c) /\ used[c] = 1 /\ cl[c].sock = k
        /\ th[k] \in ThreadType /\ cl[c] \in ClientType /\ present \in SUBSET Files
        /\ toSrv[k] \in Seq(Message) /\ toCli[k] \in Seq(Message)
        /\ filedir \in [Files -> Seq(Blocks)] /\ th[k].pos \in Nat
        /\ Meets(th[k], toSrv[k], toCli[k], cl[c], gone)
        /\ Holds(th[k], toSrv[k], toCli[k], cl[c], filedir, present, gone)
    BY DEF Uses, DirTyped, Sock, ThreadType
  <1>2. /\ th[k].pc = "getdata" /\ toSrv' = toSrv /\ dirVars' = dirVars /\ cl' = cl /\ used' = used
        /\ IF i <= Len(contents)
           THEN Answer(k, [th[k] EXCEPT !.pos = i], Data(contents[i]))
           ELSE Answer(k, [th[k] EXCEPT !.pc = "recv"], Plain("END"))
    BY DEF SendBlock, dirVars, bounds
  <1>3. contents \in Seq(Blocks)
    BY <1>1
  <1>4. PICK u \in ThreadType, m \in Message :
           /\ Answer(k, u, m)
           /\ \/ /\ m.type = "DATA" /\ u.pc = "getdata" /\ u.name = th[k].name
                 /\ th[k].name \in Files => /\ th[k].pos + 1 <= Len(filedir[th[k].name])
                                            /\ m.block = filedir[th[k].name][th[k].pos + 1]
              \/ /\ m.type = "END" /\ u.pc = "recv"
                 /\ th[k].name \in Files => ~(th[k].pos + 1 <= Len(filedir[th[k].name]))
    <2>1. CASE i <= Len(contents)
      <3> DEFINE u == [th[k] EXCEPT !.pos = i]
                 m == Data(contents[i])
      <3>1. contents[i] \in Blocks
        BY <1>1, <1>3, <2>1
      <3>2. m \in Message /\ m.type = "DATA" /\ m.block = contents[i]
        BY <3>1, MessagesTyped DEF Data, Plain
      <3>3. u \in ThreadType /\ u.pc = "getdata" /\ u.name = th[k].name
        <4>1. th[k] \in ThreadType /\ th[k].pos \in Nat /\ th[k].pc = "getdata"
          BY <1>1, <1>2
        <4> HIDE DEF contents, m
        <4> QED BY <4>1 DEF ThreadType
      <3>4. Answer(k, u, m)
        BY <1>2, <2>1
      <3>5. th[k].name \in Files => contents = filedir[th[k].name]
        OBVIOUS
      <3> HIDE DEF u, m, contents
      <3> QED BY <3>2, <3>3, <3>4, <3>5, <2>1
    <2>2. CASE ~(i <= Len(contents))
      <3> DEFINE u == [th[k] EXCEPT !.pc = "recv"]
      <3>1. Plain("END") \in Message /\ Plain("END").type = "END"
        BY MessagesTyped
      <3>2. u \in ThreadType /\ u.pc = "recv"
        BY <1>1 DEF ThreadType, ThreadPc
      <3>3. Answer(k, u, Plain("END"))
        BY <1>2, <2>2
      <3>4. th[k].name \in Files => contents = filedir[th[k].name]
        OBVIOUS
      <3> HIDE DEF u, contents
      <3> QED BY <3>1, <3>2, <3>3, <3>4, <2>2
    <2> QED BY <2>1, <2>2
  <1> HIDE DEF contents, i
  <1>5. server' => /\ th'[k] = u /\ closed' = closed
                   /\ toCli'[k] = IF gone THEN toCli[k] ELSE Append(toCli[k], m)
    BY <1>0, <1>1, <1>4 DEF Answer, ServerEnds, ThreadsTyped, MailTyped
  <1>6. ASSUME server'
        PROVE  Holds(u, toSrv[k], toCli'[k], cl[c], filedir, present, gone)
    <2>1. PICK o : o = toCli'[k]
      OBVIOUS
    <2>2. o = (IF gone THEN toCli[k] ELSE Append(toCli[k], m)) /\ gone \in BOOLEAN
      BY <2>1, <1>5, <1>6
    <2> HIDE DEF gone
    <2>3. Holds(u, toSrv[k], o, cl[c], filedir, present, gone)
      BY <2>2, <1>1, <1>2, <1>4, SendExact
    <2> QED BY <2>1, <2>3
  <1>7. server' => Holds(th'[k], toSrv'[k], toCli'[k], cl'[c], filedir', present', k \in closed')
    BY <1>2, <1>5, <1>6 DEF dirVars
  <1> HIDE DEF gone
  <1> QED BY <1>1, <1>2, <1>7, ExactNext

LEMMA StoringExact ==
  ASSUME NEW c, NEW k, Uses(c, k), IInv,
         \/ OpenForPut(k) \/ OpenForPutFails(k) \/ RecvBlock(k) \/ RecvNothing(k)
         \/ HandleUnknown(k)
  PROVE  ExactInv'
  <1> DEFINE gone == k \in closed
  <1>0. ThreadsTyped /\ MailTyped /\ gone \in BOOLEAN
    BY TypeParts DEF IInv
  <1>1. /\ Clients = {c} /\ k \in Conn /\ k = First(c) /\ used[c] = 1 /\ cl[c].sock = k
        /\ th[k] \in ThreadType /\ cl[c] \in ClientType /\ present \in SUBSET Files
        /\ toSrv[k] \in Seq(Message) /\ toCli[k] \in Seq(Message)
        /\ filedir \in [Files -> Seq(Blocks)] /\ th[k].pos \in Nat
        /\ Meets(th[k], toSrv[k], toCli[k], cl[c], gone)
        /\ Holds(th[k], toSrv[k], toCli[k], cl[c], filedir, present, gone)
    BY DEF Uses, DirTyped, Sock, ThreadType
  <1>e. server' = FALSE /\ used' = used => ExactInv'
    BY DEF ExactInv
  <1>2. CASE OpenForPut(k)
    <2> DEFINE u == [th[k] EXCEPT !.pc = "putdata", !.pos = 0, !.data = NoMessage]
    <2>1. /\ th[k].pc = "putopen" /\ th[k].name \in Files /\ present' = present \cup {th[k].name}
          /\ filedir' = [filedir EXCEPT ![th[k].name] = <<>>]
          /\ th' = [th EXCEPT ![k].pc = "putdata", ![k].pos = 0, ![k].data = NoMessage]
          /\ cl' = cl /\ used' = used /\ toSrv' = toSrv /\ toCli' = toCli /\ closed' = closed
      BY <1>2 DEF OpenForPut, wire, bounds
    <2>2. th' = [th EXCEPT ![k] = u]
      BY <1>0, <1>1, <2>1 DEF ThreadsTyped, ThreadType
    <2>3. NoMessage \in Message
      BY MessagesTyped DEF NoMessage
    <2>4. u \in ThreadType /\ u.pc = "putdata" /\ u.name = th[k].name /\ u.pos = 0 /\ th'[k] = u
      BY <1>0, <1>1, <2>2, <2>3 DEF ThreadsTyped, ThreadType, ThreadPc
    <2>5. PICK new, more : new = filedir' /\ more = present'
      OBVIOUS
    <2>6. new[th[k].name] = <<>> /\ \A f \in present : f # th[k].name => new[f] = filedir[f]
      BY <1>1, <2>1, <2>5
    <2> HIDE DEF u, gone
    <2>7. Holds(u, toSrv[k], toCli[k], cl[c], new, more, gone)
      BY <1>1, <2>1, <2>4, <2>5, <2>6, OpenExact
    <2>8. Holds(th'[k], toSrv'[k], toCli'[k], cl'[c], filedir', present', k \in closed')
      BY <2>1, <2>4, <2>5, <2>7 DEF gone
    <2> QED BY <1>1, <2>1, <2>8, ExactNext
  <1>3. CASE OpenForPutFails(k)
    BY <1>3, <1>e DEF OpenForPutFails, ServerEnds, bounds
  <1>4. CASE RecvBlock(k)
    <2> DEFINE m == Head(toSrv[k])
    <2>1. /\ th[k].pc = "putdata" /\ toSrv[k] # <<>> /\ toSrv' = [toSrv EXCEPT ![k] = Tail(@)]
          /\ \/ m.type = "DATA" /\ StoreBlock(k, m)
             \/ m.type = "END" /\ th' = [th EXCEPT ![k].pc = "recv"] /\ dirVars' = dirVars
          /\ cl' = cl /\ toCli' = toCli /\ closed' = closed /\ used' = used
      BY <1>4 DEF RecvBlock, bounds, dirVars
    <2>2. m \in Message /\ toSrv'[k] = Tail(toSrv[k])
      BY <1>0, <1>1, <2>1, Received DEF MailTyped
    <2>3. PICK u \in ThreadType : /\ th'[k] = u /\ present' = present
             /\ \/ /\ m.type = "DATA" /\ u.pc = "putdata" /\ u.name = th[k].name
                   /\ u.pos = th[k].pos + 1
                   /\ filedir'[th[k].name] = Written(filedir[th[k].name], th[k].pos + 1, m.block)
                   /\ \A f \in Files : f # th[k].name => filedir'[f] = filedir[f]
                \/ m.type = "END" /\ u.pc = "recv" /\ filedir' = filedir
      <3>1. CASE m.type = "DATA" /\ StoreBlock(k, m)
        <4> DEFINE u == [th[k] EXCEPT !.pos = th[k].pos + 1, !.data = m]
        <4> HIDE DEF m
        <4>1. u \in ThreadType /\ th' = [th EXCEPT ![k] = u]
          BY <1>1, <2>2, <3>1, StoreTyped
        <4>2. u.pc = "putdata" /\ u.name = th[k].name /\ u.pos = th[k].pos + 1 /\ th'[k] = u
          BY <4>1, <1>0, <1>1, <2>1 DEF ThreadsTyped, ThreadType
        <4>3. th[k].name \in Files
          BY <1>1, <2>1 DEF Meets
        <4>4. /\ filedir' = [filedir EXCEPT ![th[k].name] =
                               Written(filedir[th[k].name], th[k].pos + 1, m.block)]
              /\ present' = present
          BY <3>1 DEF StoreBlock
        <4>5. /\ filedir'[th[k].name] = Written(filedir[th[k].name], th[k].pos + 1, m.block)
              /\ \A f \in Files : f # th[k].name => filedir'[f] = filedir[f]
          BY <4>3, <4>4, <1>1
        <4> HIDE DEF u
        <4> QED BY <4>1, <4>2, <4>4, <4>5, <3>1
      <3>2. CASE m.type = "END" /\ th' = [th EXCEPT ![k].pc = "recv"] /\ dirVars' = dirVars
        <4> DEFINE u == [th[k] EXCEPT !.pc = "recv"]
        <4>1. u \in ThreadType /\ u.pc = "recv" /\ th'[k] = u
          BY <3>2, <1>0, <1>1 DEF ThreadsTyped, ThreadType, ThreadPc
        <4> HIDE DEF u, m
        <4> QED BY <4>1, <3>2 DEF dirVars
      <3> QED BY <2>1, <3>1, <3>2
    <2>4. PICK new : new = filedir'
      OBVIOUS
    <2> HIDE DEF gone
    <2>5. Holds(u, Tail(toSrv[k]), toCli[k], cl[c], new, present, gone)
      <3>1. \/ /\ m.type = "DATA" /\ u.pc = "putdata" /\ u.name = th[k].name
               /\ u.pos = th[k].pos + 1
               /\ new[th[k].name] = Written(filedir[th[k].name], th[k].pos + 1, m.block)
               /\ \A f \in Files : f # th[k].name => new[f] = filedir[f]
            \/ m.type = "END" /\ u.pc = "recv" /\ new = filedir
        BY <2>3, <2>4
      <3>2. /\ th[k] \in ThreadType /\ cl[c] \in ClientType /\ present \in SUBSET Files
            /\ toSrv[k] \in Seq(Message) /\ filedir \in [Files -> Seq(Blocks)]
            /\ gone \in BOOLEAN /\ th[k].pc = "putdata" /\ toSrv[k] # <<>>
            /\ Meets(th[k], toSrv[k], toCli[k], cl[c], gone)
            /\ Holds(th[k], toSrv[k], toCli[k], cl[c], filedir, present, gone)
        BY <1>0, <1>1, <2>1
      <3> QED BY <3>1, <3>2, TakenExact
    <2>6. Holds(th'[k], toSrv'[k], toCli'[k], cl'[c], filedir', present', k \in closed')
      BY <2>1, <2>2, <2>3, <2>4, <2>5 DEF gone
    <2> HIDE DEF m
    <2> QED BY <1>1, <2>1, <2>6, ExactNext
  <1>5. CASE RecvNothing(k)
    <2>1. th[k].pc = "putdata" /\ toSrv[k] = <<>> /\ gone
      BY <1>5 DEF RecvNothing
    <2>2. th[k].name \in Files /\ cl[c].pc \in {"prompt", "exited"} /\ Takes(th[k])
      BY <1>1, <2>1 DEF Meets, Takes
    <2>3. HasEnd(toSrv[k])
      BY <1>1, <2>2 DEF Holds, Stores
    <2> QED BY <2>1, <2>3, NothingSent
  <1>6. CASE HandleUnknown(k)
    <2> DEFINE u == [Thread(k) EXCEPT !.pc = "left"]
    <2>1. /\ th' = [th EXCEPT ![k] = u] /\ dirVars' = dirVars /\ cl' = cl /\ toCli' = toCli
          /\ closed' = closed /\ used' = used
      BY <1>6 DEF HandleUnknown, bounds, dirVars
    <2>2. PICK type \in {"DATA", "END"} : Receives(k, type)
      BY <1>6 DEF HandleUnknown
    <2>3. Thread(k) \in ThreadType /\ th[k].pc = "recv"
      BY <1>1, <2>2, RequestFacts
    <2>4. u.pc = "left" /\ th'[k] = u
      BY <2>1, <2>3, <1>0, <1>1 DEF ThreadType, ThreadsTyped
    <2>5. toSrv'[k] = toSrv[k] \/ (toSrv[k] # <<>> /\ toSrv'[k] = Tail(toSrv[k]))
      BY <2>2, <1>0, <1>1 DEF Receives, MailTyped
    <2>6. PICK p : p = toSrv'[k]
      OBVIOUS
    <2>7. (HasQuit(p) => HasQuit(toSrv[k])) /\ (NoPut(toSrv[k]) => NoPut(p))
      BY <2>5, <2>6, <1>1, RequestsSent
    <2> HIDE DEF u, gone
    <2>8. Holds(u, p, toCli[k], cl[c], filedir, present, gone)
      BY <1>1, <2>3, <2>4, <2>7, QuietThread
    <2>9. Holds(th'[k], toSrv'[k], toCli'[k], cl'[c], filedir', present', k \in closed')
      BY <2>1, <2>4, <2>6, <2>8 DEF gone, dirVars
    <2> QED BY <1>1, <2>1, <2>9, ExactNext
  <1> QED BY <1>2, <1>3, <1>4, <1>5, <1>6

LEMMA ThreadExact ==
  ASSUME NEW c, Clients = {c}, IInv, PlaceInv, ExactInv, NEW k \in Conn, ThreadStep(k)
  PROVE  ExactInv'
  <1>1. /\ th[k].pc # "none" /\ cl' = cl /\ used' = used /\ (server' => server)
    <2>1. ASSUME NEW t, NEW m, Answer(k, t, m) PROVE server' => server
      BY <2>1 DEF Answer, ServerEnds
    <2>2. ASSUME NEW type, Receives(k, type) PROVE th[k].pc # "none"
      BY <2>2 DEF Receives
    <2>3. CASE \/ HandleOpen(k) \/ HandleAuth(k) \/ HandleRefused(k) \/ HandleList(k)
               \/ HandleGet(k) \/ HandlePut(k) \/ HandleQuit(k)
      BY <2>1, <2>2, <2>3 DEF HandleOpen, HandleAuth, HandleRefused, HandleList,
                              HandleGet, HandlePut, HandleQuit, bounds
    <2>4. CASE SendBlock(k)
      BY <2>1, <2>4 DEF SendBlock, bounds
    <2>5. CASE \/ OpenForPut(k) \/ OpenForPutFails(k) \/ RecvBlock(k) \/ RecvNothing(k)
               \/ HandleUnknown(k)
      BY <2>2, <2>5 DEF OpenForPut, OpenForPutFails, RecvBlock, RecvNothing, HandleUnknown,
                        StoreBlock, ServerEnds, bounds
    <2> QED BY <2>3, <2>4, <2>5 DEF ThreadStep
  <1> SUFFICES ASSUME One(c) PROVE ExactInv'
    BY <1>1 DEF One, ExactInv
  <1>2. k = First(c) /\ used[c] = 1
    <2>1. PICK j : j = First(c)
      OBVIOUS
    <2> QED BY <2>1, <1>1, OneFacts
  <1>3. Uses(c, k)
    BY <1>2, UsesFirst
  <1> QED BY <1>3, HandlerExact, SendingExact, StoringExact DEF ThreadStep

LEMMA UsesSocket ==
  ASSUME NEW c, Clients = {c}, IInv, PlaceInv, ExactInv, One(c), Sock(c) # NoConn
  PROVE  /\ Uses(c, Sock(c))
         /\ Sock(c) \in closed /\ cl[c].pc = "prompt" => ~cl[c].authenticated
         /\ cl[c].pc \in {"PUT_REPLY", "upload"} => cl[c].name \in Files
  <1>1. PICK k : k = First(c)
    OBVIOUS
  <1>2. /\ used[c] = 1 /\ Sock(c) = k
        /\ k \in closed /\ Sock(c) = k /\ cl[c].pc = "prompt" => ~cl[c].authenticated
        /\ cl[c].pc \in {"PUT_REPLY", "upload"} => cl[c].name \in Files
    BY <1>1, OneFacts
  <1>3. Uses(c, k)
    BY <1>1, <1>2, UsesFirst
  <1> QED BY <1>2, <1>3

LEMMA SameExact ==
  ASSUME ExactInv, UNCHANGED <<server, dirVars, th, cl, toSrv, toCli, closed, used>>
  PROVE  ExactInv'
  <1>1. /\ server' = server /\ present' = present /\ filedir' = filedir /\ th' = th /\ cl' = cl
        /\ toSrv' = toSrv /\ toCli' = toCli /\ closed' = closed /\ used' = used
    BY DEF dirVars
  <1> SUFFICES ASSUME server, NEW c \in Clients, used[c] <= 1, cl[c].pc \notin Lost
               PROVE  Exact(c)'
    BY <1>1 DEF ExactInv
  <1>2. Exact(c)
    BY DEF ExactInv
  <1> QED BY <1>1, <1>2 DEF Exact, Sock

\* The only client goes back to the prompt, or leaves.
LEMMA BackOne ==
  ASSUME NEW c, Clients = {c}, IInv, PlaceInv, ExactInv, One(c), NEW v, cl'[c] = v,
         v.sock = Sock(c), v.own = cl[c].own,
         cl[c].pc \in {"prompt"} \cup (ReplyTypes \ {"PUT_REPLY"}),
         v.pc = "exited" \/ (v.pc = "prompt" /\ cl[c].pc # "QUIT_REPLY"),
         th' = th, dirVars' = dirVars, used' = used, toSrv' = toSrv,
         closed' = closed \/ Sock(c) # NoConn
  PROVE  ExactInv'
  <1>1. present' = present /\ filedir' = filedir
    BY DEF dirVars
  <1>2. PICK k : k = First(c)
    OBVIOUS
  <1>3. /\ used[c] \in {0, 1} /\ (Sock(c) # NoConn <=> used[c] = 1 /\ Sock(c) = k)
        /\ used[c] = 0 => th[k].pc = "none" /\ k \notin closed
    BY <1>2, OneFacts
  <1>4. CASE used[c] = 0
    <2>1. Rests(th[k], cl[c], filedir, present)
      BY <1>2, ExactParts DEF Exact, First
    <2>2. Rests(th[k], v, filedir, present)
      BY <2>1, <1>4 DEF Rests, ReplyTypes
    <2>3. Stores(th[k], toSrv[k], v, filedir, present)
      BY <1>3, <1>4 DEF Stores, Takes
    <2>4. \A r : Fetches(th[k], r, v, filedir)
      BY DEF Fetches
    <2>5. k \notin closed'
      BY <1>3, <1>4
    <2>6. Exact(c)'
      BY <1>1, <1>2, <1>4, <2>2, <2>3, <2>4, <2>5 DEF Exact, First
    <2> QED BY <2>6 DEF ExactInv
  <1>5. CASE used[c] = 1
    <2>1. Uses(c, k)
      BY <1>2, <1>5, UsesFirst
    <2>2. PICK gone, now : gone = (k \in closed) /\ now = (k \in closed')
      OBVIOUS
    <2>3. /\ gone \in BOOLEAN /\ now \in BOOLEAN
          /\ toSrv[k] \in Seq(Message) /\ toCli[k] \in Seq(Message)
          /\ Meets(th[k], toSrv[k], toCli[k], cl[c], gone)
          /\ Holds(th[k], toSrv[k], toCli[k], cl[c], filedir, present, gone)
      BY <2>1, <2>2 DEF Uses
    <2>4. PICK o : o = toCli'[k]
      OBVIOUS
    <2>5. Holds(th[k], toSrv[k], o, v, filedir, present, now)
      BY <2>3, BackExact
    <2>6. /\ cl'[c].sock = k
          /\ Holds(th'[k], toSrv'[k], toCli'[k], cl'[c], filedir', present', k \in closed')
      BY <2>1, <2>2, <2>4, <2>5, <1>1 DEF Uses, Sock
    <2> QED BY <2>6, <1>2, <1>5, ExactNext
  <1> QED BY <1>3, <1>4, <1>5

\* The only client sends a command.
LEMMA AskOne ==
  ASSUME NEW c, Clients = {c}, IInv, PlaceInv, ExactInv, One(c), Sock(c) # NoConn,
         Sock(c) \notin closed, cl[c].pc = "prompt", NEW v, NEW m \in Message, Ask(c, v, m),
         m.type \notin FileData, m.type = "QUIT" => v.pc = "QUIT_REPLY",
         v.pc \in ReplyTypes, v.own = cl[c].own, v.sock = Sock(c),
         th' = th, dirVars' = dirVars, used' = used, toCli' = toCli
  PROVE  ExactInv'
  <1>0. PICK k : k = Sock(c)
    OBVIOUS
  <1>1. Uses(c, k) /\ k \notin closed
    BY <1>0, UsesSocket
  <1>2. /\ k = First(c) /\ used[c] = 1 /\ k \in Conn /\ th[k] \in ThreadType
        /\ toSrv[k] \in Seq(Message) /\ toCli[k] \in Seq(Message)
        /\ Meets(th[k], toSrv[k], toCli[k], cl[c], FALSE)
        /\ Holds(th[k], toSrv[k], toCli[k], cl[c], filedir, present, FALSE)
    BY <1>1 DEF Uses, Meets, Holds
  <1>3. /\ th[k].pc # "ended"
        /\ Holds(th[k], Append(toSrv[k], m), toCli[k], v, filedir, present, FALSE)
    BY <1>2, AskExact
  <1>4. MailTyped /\ ClientsTyped /\ c \in Clients
    BY TypeParts DEF IInv
  <1>5. toSrv'[k] = Append(toSrv[k], m) /\ cl'[c] = v /\ closed' = closed
    BY <1>0, <1>2, <1>3, <1>4 DEF Ask, MailTyped, ClientsTyped
  <1>6. Holds(th'[k], toSrv'[k], toCli'[k], cl'[c], filedir', present', FALSE)
    BY <1>3, <1>5 DEF dirVars
  <1>7. Holds(th'[k], toSrv'[k], toCli'[k], cl'[c], filedir', present', k \in closed')
    BY <1>1, <1>5, <1>6 DEF Holds
  <1>8. cl'[c].sock = k
    BY <1>0, <1>5
  <1> QED BY <1>2, <1>7, <1>8, ExactNext

\* The reply the only client waits for is there: the thread goes on.
LEMMA ReplyThere ==
  ASSUME NEW c, Clients = {c}, IInv, PlaceInv, ExactInv, One(c),
         NEW type \in ReplyTypes \ {"QUIT_REPLY"}, Gets(c, type)
  PROVE  /\ Sock(c) # NoConn /\ Uses(c, Sock(c)) /\ Sock(c) \notin closed
         /\ toCli[Sock(c)] # <<>> /\ Reply(c) = Head(toCli[Sock(c)])
         /\ toCli'[Sock(c)] = Tail(toCli[Sock(c)])
         /\ cl[c].pc = type /\ cl[c] \in ClientType
         /\ Client(c) = [cl[c] EXCEPT !.reply = Reply(c)]
         /\ type = "PUT_REPLY" => cl[c].name \in Files
  <1>1. /\ Sock(c) # NoConn /\ cl[c].pc = type /\ Sock(c) \in Conn /\ cl[c] \in ClientType
        /\ Client(c) = [cl[c] EXCEPT !.reply = Reply(c)]
    BY ReplyFacts
  <1>2. Uses(c, Sock(c)) /\ (type = "PUT_REPLY" => cl[c].name \in Files)
    BY <1>1, UsesSocket
  <1>3. type \notin {"prompt", "QUIT_REPLY", "exited", "killed"}
    BY DEF ReplyTypes
  <1>4. Sock(c) \notin closed /\ th[Sock(c)].pc # "ended"
    BY <1>1, <1>2, <1>3 DEF Uses, Meets, Holds, Leaves
  <1>5. toCli[Sock(c)] # <<>> /\ toCli' = [toCli EXCEPT ![Sock(c)] = Tail(@)]
    BY <1>4 DEF Gets
  <1>6. MailTyped
    BY TypeParts DEF IInv
  <1> QED BY <1>1, <1>2, <1>4, <1>5, <1>6 DEF Reply, MailTyped

\* The commands that send a message.
LEMMA CommandExact ==
  ASSUME NEW c, Clients = {c}, IInv, PlaceInv, ExactInv, One(c),
         \/ AuthCommand(c) \/ Ls(c) \/ Get(c) \/ Put(c) \/ (Quit(c) /\ cl[c].connected)
  PROVE  ExactInv'
  <1>0. c \in Clients
    OBVIOUS
  <1>1. ASSUME NEW word, Command(c, word), word \in {"ls", "get", "put"}
        PROVE  /\ cl[c] \in ClientType /\ cl[c].pc = "prompt" /\ Sock(c) = cl[c].sock
               /\ Sock(c) # NoConn /\ Sock(c) \notin closed
    <2>1. /\ cl[c] \in ClientType /\ cl[c].pc = "prompt" /\ Sock(c) = cl[c].sock /\ Sock(c) # NoConn
      BY <1>0, <1>1, CommandFacts
    <2>2. cl[c].authenticated
      BY <1>1 DEF Command
    <2> QED BY <2>1, <2>2, UsesSocket
  <1>n. /\ "AUTH" \notin FileData /\ "LIST" \notin FileData /\ "GET" \notin FileData
        /\ "PUT" \notin FileData /\ "QUIT" \notin FileData
    BY DEF FileData
  <1>2. CASE AuthCommand(c)
    <2>1. PICK good \in BOOLEAN :
             /\ Command(c, IF good THEN "auth" ELSE "badauth") /\ Sock(c) \notin closed
             /\ Ask(c, [cl[c] EXCEPT !.pc = "AUTH_REPLY", !.authenticated = FALSE], Auth(good))
      BY <1>2 DEF AuthCommand
    <2> DEFINE v == [cl[c] EXCEPT !.pc = "AUTH_REPLY", !.authenticated = FALSE]
    <2>2. th' = th /\ dirVars' = dirVars /\ used' = used /\ toCli' = toCli
      BY <1>2 DEF AuthCommand
    <2>3. PICK word : word = (IF good THEN "auth" ELSE "badauth") /\ Command(c, word)
      BY <2>1
    <2>4. /\ cl[c] \in ClientType /\ cl[c].pc = "prompt" /\ Sock(c) = cl[c].sock
          /\ Sock(c) # NoConn
      <3>1. word \in {"auth", "badauth", "ls", "get", "put"}
        BY <2>3
      <3> QED BY <3>1, <2>3, <1>0, CommandFacts
    <2>5. v.pc = "AUTH_REPLY" /\ v.pc \in ReplyTypes /\ v.own = cl[c].own /\ v.sock = Sock(c)
      BY <2>4 DEF ClientType, ReplyTypes
    <2>6. Auth(good) \in Message /\ Auth(good).type = "AUTH"
      BY MessagesTyped
    <2>7. Ask(c, v, Auth(good))
      BY <2>1
    <2> HIDE DEF v
    <2> QED BY <2>1, <2>2, <2>4, <2>5, <2>6, <2>7, <1>n, AskOne
  <1>3. CASE Ls(c)
    <2> DEFINE v == [cl[c] EXCEPT !.pc = "LIST_REPLY"]
    <2>1. /\ Command(c, "ls") /\ Ask(c, v, Plain("LIST"))
          /\ th' = th /\ dirVars' = dirVars /\ used' = used /\ toCli' = toCli
      BY <1>3 DEF Ls
    <2>2. /\ cl[c] \in ClientType /\ cl[c].pc = "prompt" /\ Sock(c) = cl[c].sock
          /\ Sock(c) # NoConn /\ Sock(c) \notin closed
      BY <2>1, <1>1
    <2>3. v.pc \in ReplyTypes /\ v.own = cl[c].own /\ v.sock = Sock(c)
      BY <2>2 DEF ClientType, ReplyTypes
    <2>4. Plain("LIST") \in Message /\ Plain("LIST").type = "LIST"
      BY MessagesTyped DEF RequestTypes
    <2> HIDE DEF v
    <2> QED BY <2>1, <2>2, <2>3, <2>4, <1>n, AskOne
  <1>4. CASE Get(c)
    <2>1. PICK f \in Files : Ask(c, [cl[c] EXCEPT !.pc = "GET_REPLY", !.name = f], Named("GET", f))
      BY <1>4 DEF Get
    <2> DEFINE v == [cl[c] EXCEPT !.pc = "GET_REPLY", !.name = f]
    <2>2. /\ Command(c, "get") /\ Ask(c, v, Named("GET", f))
          /\ th' = th /\ dirVars' = dirVars /\ used' = used /\ toCli' = toCli
      BY <1>4, <2>1 DEF Get
    <2>3. /\ cl[c] \in ClientType /\ cl[c].pc = "prompt" /\ Sock(c) = cl[c].sock
          /\ Sock(c) # NoConn /\ Sock(c) \notin closed
      BY <2>2, <1>1
    <2>4. v.pc \in ReplyTypes /\ v.own = cl[c].own /\ v.sock = Sock(c)
      BY <2>3 DEF ClientType, ReplyTypes
    <2>5. Named("GET", f) \in Message /\ Named("GET", f).type = "GET"
      BY MessagesTyped
    <2> HIDE DEF v
    <2> QED BY <2>2, <2>3, <2>4, <2>5, <1>n, AskOne
  <1>5. CASE Put(c)
    <2>1. PICK f \in Files :
             Ask(c, [cl[c] EXCEPT !.pc = "PUT_REPLY", !.name = f, !.pos = 0], Named("PUT", f))
      BY <1>5 DEF Put
    <2> DEFINE v == [cl[c] EXCEPT !.pc = "PUT_REPLY", !.name = f, !.pos = 0]
    <2>2. /\ Command(c, "put") /\ Ask(c, v, Named("PUT", f))
          /\ th' = th /\ dirVars' = dirVars /\ used' = used /\ toCli' = toCli
      BY <1>5, <2>1 DEF Put
    <2>3. /\ cl[c] \in ClientType /\ cl[c].pc = "prompt" /\ Sock(c) = cl[c].sock
          /\ Sock(c) # NoConn /\ Sock(c) \notin closed
      BY <2>2, <1>1
    <2>4. v.pc \in ReplyTypes /\ v.own = cl[c].own /\ v.sock = Sock(c)
      BY <2>3 DEF ClientType, ReplyTypes
    <2>5. Named("PUT", f) \in Message /\ Named("PUT", f).type = "PUT"
      BY MessagesTyped
    <2> HIDE DEF v
    <2> QED BY <2>2, <2>3, <2>4, <2>5, <1>n, AskOne
  <1>6. CASE Quit(c) /\ cl[c].connected
    <2> DEFINE v == [cl[c] EXCEPT !.pc = "QUIT_REPLY"]
    <2>1. /\ Command(c, "quit") /\ Sock(c) \notin closed /\ Ask(c, v, Plain("QUIT"))
          /\ th' = th /\ dirVars' = dirVars /\ used' = used /\ toCli' = toCli
      BY <1>6 DEF Quit
    <2>2. /\ cl[c] \in ClientType /\ cl[c].pc = "prompt" /\ Sock(c) = cl[c].sock
          /\ Sock(c) # NoConn
      BY <2>1, <1>0, <1>6, CommandFacts
    <2>3. v.pc = "QUIT_REPLY" /\ v.pc \in ReplyTypes /\ v.own = cl[c].own /\ v.sock = Sock(c)
      BY <2>2 DEF ClientType, ReplyTypes
    <2>4. Plain("QUIT") \in Message /\ Plain("QUIT").type = "QUIT"
      BY MessagesTyped DEF RequestTypes
    <2> HIDE DEF v
    <2> QED BY <2>1, <2>2, <2>3, <2>4, <1>n, AskOne
  <1> QED BY <1>2, <1>3, <1>4, <1>5, <1>6

LEMMA OpeningExact ==
  ASSUME NEW c, Clients = {c}, IInv, PlaceInv, ExactInv, One(c), Open(c)
  PROVE  ExactInv'
  <1>1. /\ used[c] < MaxOpens /\ used' = [used EXCEPT ![c] = @ + 1] /\ dirVars' = dirVars
        /\ cl' = [cl EXCEPT ![c].pc = "OPEN_REPLY", ![c].sock = <<c, used[c] + 1>>,
                            ![c].connected = FALSE]
        /\ th' = [th EXCEPT ![<<c, used[c] + 1>>].pc = "recv"]
        /\ toSrv' = [toSrv EXCEPT ![<<c, used[c] + 1>>] = <<Plain("OPEN")>>]
        /\ closed' = closed /\ toCli' = toCli /\ cl[c].pc = "prompt"
    BY DEF Open, Command
  <1>2. PICK k : k = First(c)
    OBVIOUS
  <1>3. /\ c \in Clients /\ k \in Conn /\ used[c] \in {0, 1} /\ th[k] \in ThreadType
        /\ cl[c] \in ClientType /\ (used[c] = 0 => k \notin closed)
        /\ ThreadsTyped /\ ClientsTyped /\ MailTyped
    BY <1>2, OneFacts, TypeParts DEF IInv
  <1>4. used'[c] = used[c] + 1
    BY <1>1, <1>3 DEF ClientsTyped
  <1>5. CASE used[c] = 1
    BY <1>4, <1>5 DEF ExactInv
  <1>6. CASE used[c] = 0
    <2>1. k = <<c, used[c] + 1>> /\ used'[c] = 1 /\ k \notin closed'
      BY <1>1, <1>2, <1>3, <1>4, <1>6 DEF First
    <2>2. /\ cl'[c].pc = "OPEN_REPLY" /\ cl'[c].sock = k /\ cl'[c].own = cl[c].own
          /\ th'[k].pc = "recv" /\ toSrv'[k] = <<Plain("OPEN")>>
      BY <1>1, <1>3, <2>1 DEF ClientsTyped, ClientType, ThreadsTyped, ThreadType, MailTyped
    <2>3. Rests(th[k], cl[c], filedir, present)
      BY <1>2, ExactParts DEF Exact, First
    <2>4. Rests(th'[k], cl'[c], filedir', present')
      <3>1. present' = present /\ filedir' = filedir
        BY <1>1 DEF dirVars
      <3>2. th[k].pc = "none"
        BY <1>2, <1>6, OneFacts
      <3> QED BY <3>1, <3>2, <2>2, <2>3, <1>1 DEF Rests
    <2>5. Leaves(th'[k], toSrv'[k], cl'[c])
      <3>1. Plain("OPEN").type = "OPEN"
        BY MessagesTyped DEF RequestTypes
      <3>2. ~HasQuit(<<Plain("OPEN")>>)
        BY <3>1 DEF HasQuit
      <3> QED BY <3>2, <2>2 DEF Leaves
    <2>6. Stores(th'[k], toSrv'[k], cl'[c], filedir', present')
      BY <2>2 DEF Stores, Takes
    <2>7. Fetches(th'[k], toCli'[k], cl'[c], filedir')
      BY <2>2 DEF Fetches
    <2>8. Holds(th'[k], toSrv'[k], toCli'[k], cl'[c], filedir', present', k \in closed')
      BY <2>1, <2>4, <2>5, <2>6, <2>7 DEF Holds
    <2> QED BY <1>2, <2>1, <2>2, <2>8, ExactNext
  <1> QED BY <1>3, <1>5, <1>6

\* What the only client does on its own.
LEMMA LocalExact ==
  ASSUME NEW c, Clients = {c}, IInv, PlaceInv, ExactInv, One(c),
         \/ OpenRefused(c) \/ Usage(c) \/ (Quit(c) /\ ~cl[c].connected) \/ SendForEver(c)
         \/ BadCommand(c) \/ Kill(c) \/ WrongHeader(c) \/ GetReplyMerged(c)
  PROVE  ExactInv'
  <1>0. ClientsTyped /\ c \in Clients /\ cl[c] \in ClientType /\ Sock(c) = cl[c].sock
    BY TypeParts DEF IInv, ClientsTyped, ClientType, Sock
  <1>l. cl'[c].pc \in Lost => ExactInv'
    BY DEF ExactInv
  <1>e. ASSUME NEW pc, ClientEnds(c, pc) PROVE cl'[c].pc = pc
    BY <1>0, <1>e DEF ClientEnds, ClientsTyped
  <1>x. ASSUME th' = th, dirVars' = dirVars, used' = used, toSrv' = toSrv,
               cl[c].pc = "prompt", ClientEnds(c, "exited")
        PROVE  ExactInv'
    <2>2. PICK v : /\ cl'[c] = v /\ v.pc = "exited" /\ v.sock = Sock(c) /\ v.own = cl[c].own
      <3>1. /\ cl'[c].pc = "exited" /\ cl'[c].sock = cl[c].sock /\ cl'[c].own = cl[c].own
        BY <1>x, <1>0 DEF ClientEnds, ClientsTyped, ClientType
      <3> QED BY <3>1, <1>0
    <2>3. closed' = closed \/ Sock(c) # NoConn
      <3>1. PICK k : k = First(c)
        OBVIOUS
      <3>2. /\ used[c] \in {0, 1}
            /\ Sock(c) = NoConn /\ ExactInv => used[c] # 1
        <4>1. /\ used[c] \in {0, 1} /\ (Sock(c) # NoConn <=> used[c] = 1 /\ Sock(c) = k)
          BY <3>1, OneFacts
        <4>2. used[c] = 1 => Sock(c) = k
          BY <3>1, ExactParts
        <4> QED BY <4>1, <4>2
      <3>3. used[c] = 0 => OwnConns(c) = {}
        BY DEF OwnConns
      <3> QED BY <3>2, <3>3, <1>x DEF ClientEnds
    <2> QED BY <1>x, <2>2, <2>3, BackOne
  <1>1. CASE OpenRefused(c)
    BY <1>1, <1>x DEF OpenRefused, Command
  <1>2. CASE Usage(c)
    <2>1. /\ th' = th /\ dirVars' = dirVars /\ used' = used /\ toSrv' = toSrv /\ closed' = closed
          /\ cl[c].pc = "prompt"
      BY <1>2 DEF Usage, Command, wire
    <2>2. PICK v : /\ cl'[c] = v /\ v.pc = "prompt" /\ v.sock = Sock(c) /\ v.own = cl[c].own
      <3>1. /\ cl'[c].pc = cl[c].pc /\ cl'[c].sock = cl[c].sock /\ cl'[c].own = cl[c].own
        BY <1>2, <1>0 DEF Usage, ClientsTyped, ClientType
      <3> QED BY <3>1, <2>1, <1>0
    <2> QED BY <2>1, <2>2, BackOne DEF ReplyTypes
  <1>3. CASE Quit(c) /\ ~cl[c].connected
    BY <1>3, <1>x DEF Quit, Command
  <1>4. CASE SendForEver(c)
    <2>1. cl'[c].pc = "hung"
      BY <1>4, <1>0 DEF SendForEver, ClientsTyped
    <2> QED BY <2>1, <1>l DEF Lost
  <1>5. CASE BadCommand(c)
    BY <1>5, SameExact DEF BadCommand, wire
  <1>6. CASE Kill(c)
    BY <1>6, <1>e, <1>l DEF Kill, Lost
  <1>7. CASE WrongHeader(c)
    BY <1>7, <1>e, <1>l DEF WrongHeader, Lost
  <1>8. CASE GetReplyMerged(c)
    <2>1. PICK w \in Writable :
             /\ cl' = [cl EXCEPT ![c] =
                  IF w THEN [@ EXCEPT !.pc = IF toCli[Sock(c)][2].type = "END" THEN "starved"
                                             ELSE "aborted",
                                      !.own[cl[c].name] = <<>>]
                  ELSE [Client(c) EXCEPT !.pc = "prompt"]]
             /\ ~w => closed' = closed
      BY <1>8 DEF GetReplyMerged
    <2>2. CASE w
      <3>1. cl'[c].pc \in {"starved", "aborted"}
        BY <2>1, <2>2, <1>0 DEF ClientsTyped
      <3> QED BY <3>1, <1>l DEF Lost
    <2>3. CASE ~w
      <3> DEFINE v == [Client(c) EXCEPT !.pc = "prompt"]
      <3>1. /\ th' = th /\ dirVars' = dirVars /\ used' = used /\ toSrv' = toSrv
            /\ closed' = closed /\ Gets(c, "GET_REPLY")
        BY <1>8, <2>1, <2>3 DEF GetReplyMerged, bounds
      <3>2. "GET_REPLY" \in ReplyTypes \ {"PUT_REPLY"}
        BY DEF ReplyTypes
      <3>3. /\ cl[c].pc = "GET_REPLY" /\ Client(c) \in ClientType /\ Client(c).sock = Sock(c)
            /\ Client(c) = [cl[c] EXCEPT !.reply = Reply(c)]
        BY <1>0, <3>1, <3>2, ReplyFacts
      <3>4. v.pc = "prompt" /\ v.sock = Sock(c) /\ v.own = cl[c].own
        BY <1>0, <3>3 DEF ClientType
      <3>5. cl'[c] = v
        BY <2>1, <2>3, <1>0 DEF ClientsTyped
      <3> HIDE DEF v
      <3> QED BY <3>1, <3>2, <3>3, <3>4, <3>5, BackOne
    <2> QED BY <2>2, <2>3
  <1> QED BY <1>1, <1>2, <1>3, <1>4, <1>5, <1>6, <1>7, <1>8

\* The replies after which the only client goes on at the prompt, or leaves.
LEMMA RepliesExact ==
  ASSUME NEW c, Clients = {c}, IInv, PlaceInv, ExactInv, One(c),
         OpenReply(c) \/ AuthReply(c) \/ LsReply(c) \/ QuitReply(c)
  PROVE  ExactInv'
  <1>0. ClientsTyped /\ c \in Clients
    BY TypeParts DEF IInv
  <1>1. ASSUME NEW type \in ReplyTypes, Gets(c, type)
        PROVE  /\ cl[c] \in ClientType /\ cl[c].pc = type /\ Sock(c) = cl[c].sock
               /\ Sock(c) # NoConn /\ Client(c) \in ClientType /\ Client(c).sock = Sock(c)
               /\ Client(c).own = cl[c].own
    <2>1. /\ cl[c] \in ClientType /\ cl[c].pc = type /\ Sock(c) = cl[c].sock
          /\ Sock(c) # NoConn /\ Client(c) \in ClientType /\ Client(c).sock = Sock(c)
          /\ Client(c) = [cl[c] EXCEPT !.reply = Reply(c)]
      BY <1>0, <1>1, ReplyFacts
    <2>2. Client(c).own = cl[c].own
      BY <2>1 DEF ClientType
    <2> QED BY <2>1, <2>2
  <1>r. {"OPEN_REPLY", "AUTH_REPLY", "LIST_REPLY", "QUIT_REPLY"} \subseteq ReplyTypes \ {"PUT_REPLY"}
    BY DEF ReplyTypes
  <1>2. CASE OpenReply(c)
    <2> DEFINE v == [Client(c) EXCEPT !.pc = "prompt", !.connected = TRUE]
    <2>1. /\ Gets(c, "OPEN_REPLY") /\ cl' = [cl EXCEPT ![c] = v]
          /\ th' = th /\ dirVars' = dirVars /\ used' = used /\ toSrv' = toSrv
      BY <1>2 DEF OpenReply, bounds
    <2>2. /\ cl[c].pc = "OPEN_REPLY" /\ Sock(c) # NoConn /\ v.pc = "prompt" /\ v.sock = Sock(c)
          /\ v.own = cl[c].own
      BY <2>1, <1>1, <1>r DEF ClientType
    <2>3. cl'[c] = v
      BY <2>1, <1>0 DEF ClientsTyped
    <2> HIDE DEF v
    <2> QED BY <2>1, <2>2, <2>3, <1>r, BackOne
  <1>3. CASE AuthReply(c)
    <2> DEFINE v == [Client(c) EXCEPT !.pc = "prompt", !.authenticated = Reply(c).ok]
    <2>1. /\ Gets(c, "AUTH_REPLY") /\ cl' = [cl EXCEPT ![c] = v]
          /\ th' = th /\ dirVars' = dirVars /\ used' = used /\ toSrv' = toSrv
      BY <1>3 DEF AuthReply, bounds
    <2>2. /\ cl[c].pc = "AUTH_REPLY" /\ Sock(c) # NoConn /\ v.pc = "prompt" /\ v.sock = Sock(c)
          /\ v.own = cl[c].own
      BY <2>1, <1>1, <1>r DEF ClientType
    <2>3. cl'[c] = v
      BY <2>1, <1>0 DEF ClientsTyped
    <2> HIDE DEF v
    <2> QED BY <2>1, <2>2, <2>3, <1>r, BackOne
  <1>4. CASE LsReply(c)
    <2> DEFINE v == [Client(c) EXCEPT !.pc = "prompt"]
    <2>1. /\ Gets(c, "LIST_REPLY") /\ cl' = [cl EXCEPT ![c] = v]
          /\ th' = th /\ dirVars' = dirVars /\ used' = used /\ toSrv' = toSrv
      BY <1>4 DEF LsReply, bounds
    <2>2. /\ cl[c].pc = "LIST_REPLY" /\ Sock(c) # NoConn /\ v.pc = "prompt" /\ v.sock = Sock(c)
          /\ v.own = cl[c].own
      BY <2>1, <1>1, <1>r DEF ClientType
    <2>3. cl'[c] = v
      BY <2>1, <1>0 DEF ClientsTyped
    <2> HIDE DEF v
    <2> QED BY <2>1, <2>2, <2>3, <1>r, BackOne
  <1>5. CASE QuitReply(c)
    <2> DEFINE v == [cl[c] EXCEPT !.pc = "exited"]
    <2>1. /\ Gets(c, "QUIT_REPLY") /\ cl' = [cl EXCEPT ![c].pc = "exited"]
          /\ th' = th /\ dirVars' = dirVars /\ used' = used /\ toSrv' = toSrv
      BY <1>5 DEF QuitReply, ClientEnds, bounds
    <2>2. /\ cl[c].pc = "QUIT_REPLY" /\ Sock(c) # NoConn /\ v.pc = "exited" /\ v.sock = Sock(c)
          /\ v.own = cl[c].own
      BY <2>1, <1>1, <1>r DEF ClientType
    <2>3. cl'[c] = v
      BY <2>1, <1>0 DEF ClientsTyped
    <2> HIDE DEF v
    <2> QED BY <2>1, <2>2, <2>3, <1>r, BackOne
  <1> QED BY <1>2, <1>3, <1>4, <1>5

\* The only client goes on as v over its connection.
LEMMA GoesOn ==
  ASSUME NEW c, NEW k, Uses(c, k), k \notin closed, NEW v, cl'[c] = v, v.sock = k,
         NEW p, NEW o, toSrv'[k] = p, toCli'[k] = o,
         th' = th, dirVars' = dirVars, used' = used, closed' = closed,
         Holds(th[k], p, o, v, filedir, present, FALSE)
  PROVE  ExactInv'
  <1>1. Holds(th'[k], toSrv'[k], toCli'[k], cl'[c], filedir', present', FALSE)
    BY DEF dirVars
  <1>2. Holds(th'[k], toSrv'[k], toCli'[k], cl'[c], filedir', present', k \in closed')
    BY <1>1 DEF Holds
  <1> QED BY <1>2, ExactNext DEF Uses

\* The transfers of the only client.
LEMMA TransferExact ==
  ASSUME NEW c, Clients = {c}, IInv, PlaceInv, ExactInv, One(c),
         GetReply(c) \/ PutReply(c) \/ Download(c) \/ DownloadNothing(c) \/ Upload(c)
  PROVE  ExactInv'
  <1>0. ClientsTyped /\ MailTyped /\ c \in Clients /\ SafeInv
    BY TypeParts DEF IInv
  <1>u. ASSUME NEW k, Uses(c, k), k \notin closed
        PROVE  /\ k \in Conn /\ th[k] \in ThreadType /\ cl[c] \in ClientType /\ cl[c].sock = k
               /\ toSrv[k] \in Seq(Message) /\ toCli[k] \in Seq(Message)
               /\ filedir \in [Files -> Seq(Blocks)] /\ k # NoConn
               /\ Meets(th[k], toSrv[k], toCli[k], cl[c], FALSE)
               /\ Holds(th[k], toSrv[k], toCli[k], cl[c], filedir, present, FALSE)
    BY <1>u, ConnFacts DEF Uses, Meets, Holds, DirTyped, Sock
  <1>r. {"GET_REPLY", "PUT_REPLY"} \subseteq ReplyTypes \ {"QUIT_REPLY"}
    BY DEF ReplyTypes
  <1>w. ASSUME cl[c].pc \in {"download", "upload"}
        PROVE  Uses(c, Sock(c)) /\ Sock(c) \notin closed
    <2>1. Sock(c) # NoConn
      BY <1>0, <1>w DEF SafeInv, Sockets
    <2>2. Uses(c, Sock(c))
      BY <2>1, UsesSocket
    <2> QED BY <2>2, <1>w DEF Uses, Meets
  <1>1. CASE GetReply(c)
    <2>1. PICK w \in Writable :
             cl' = [cl EXCEPT ![c] = IF Reply(c).ok /\ w
                      THEN [Client(c) EXCEPT !.pc = "download", !.own[cl[c].name] = <<>>]
                      ELSE [Client(c) EXCEPT !.pc = "prompt"]]
      BY <1>1 DEF GetReply
    <2>2. /\ Gets(c, "GET_REPLY") /\ Reply(c).type = "GET_REPLY"
          /\ th' = th /\ dirVars' = dirVars /\ used' = used /\ toSrv' = toSrv /\ closed' = closed
      BY <1>1 DEF GetReply, bounds
    <2>3. PICK k : k = Sock(c)
      OBVIOUS
    <2>4. /\ Uses(c, k) /\ k \notin closed /\ toCli[k] # <<>> /\ Head(toCli[k]).type = "GET_REPLY"
          /\ toCli'[k] = Tail(toCli[k]) /\ cl[c].pc = "GET_REPLY" /\ cl[c] \in ClientType
          /\ Client(c) = [cl[c] EXCEPT !.reply = Reply(c)]
      BY <2>2, <2>3, <1>r, ReplyThere
    <2>5. CASE Reply(c).ok /\ w
      <3> DEFINE v == [Client(c) EXCEPT !.pc = "download", !.own[cl[c].name] = <<>>]
      <3>1. /\ v.pc = "download" /\ v.name = cl[c].name /\ v.sock = cl[c].sock
            /\ v.own = [cl[c].own EXCEPT ![cl[c].name] = <<>>]
        BY <2>4 DEF ClientType
      <3>2. cl'[c] = v
        BY <2>1, <2>5, <1>0 DEF ClientsTyped
      <3> HIDE DEF v
      <3>3. /\ cl[c] \in ClientType /\ cl[c].sock = k
            /\ Meets(th[k], toSrv[k], toCli[k], cl[c], FALSE)
            /\ Holds(th[k], toSrv[k], toCli[k], cl[c], filedir, present, FALSE)
        BY <2>4, <1>u
      <3>4. Holds(th[k], toSrv[k], Tail(toCli[k]), v, filedir, present, FALSE)
        BY <3>1, <3>3, <2>4, GetReplyExact
      <3> QED BY <3>1, <3>2, <3>3, <3>4, <2>2, <2>4, GoesOn
    <2>6. CASE ~(Reply(c).ok /\ w)
      <3> DEFINE v == [Client(c) EXCEPT !.pc = "prompt"]
      <3>1. v.pc = "prompt" /\ v.own = cl[c].own /\ v.sock = Sock(c)
        BY <2>4 DEF ClientType, Sock
      <3>2. cl'[c] = v
        BY <2>1, <2>6, <1>0 DEF ClientsTyped
      <3>3. "GET_REPLY" \in ReplyTypes \ {"PUT_REPLY"}
        BY DEF ReplyTypes
      <3> HIDE DEF v
      <3> QED BY <3>1, <3>2, <3>3, <2>2, <2>4, BackOne
    <2> QED BY <2>5, <2>6
  <1>2. CASE PutReply(c)
    <2> DEFINE v == [Client(c) EXCEPT !.pc = "upload"]
    <2>1. /\ Gets(c, "PUT_REPLY") /\ Reply(c).type = "PUT_REPLY" /\ cl' = [cl EXCEPT ![c] = v]
          /\ th' = th /\ dirVars' = dirVars /\ used' = used /\ toSrv' = toSrv /\ closed' = closed
      BY <1>2 DEF PutReply, bounds
    <2>2. PICK k : k = Sock(c)
      OBVIOUS
    <2>3. /\ Uses(c, k) /\ k \notin closed /\ toCli[k] # <<>> /\ Head(toCli[k]).type = "PUT_REPLY"
          /\ toCli'[k] = Tail(toCli[k]) /\ cl[c].pc = "PUT_REPLY" /\ cl[c] \in ClientType
          /\ Client(c) = [cl[c] EXCEPT !.reply = Reply(c)] /\ cl[c].name \in Files
      BY <2>1, <2>2, <1>r, ReplyThere
    <2>4. v.pc = "upload" /\ v.name = cl[c].name /\ v.sock = cl[c].sock /\ v.own = cl[c].own
      BY <2>3 DEF ClientType
    <2>5. cl'[c] = v
      BY <2>1, <1>0 DEF ClientsTyped
    <2>6. "PUT_REPLY" \notin FileData
      BY DEF FileData
    <2> HIDE DEF v
    <2>7. Holds(th[k], toSrv[k], Tail(toCli[k]), v, filedir, present, FALSE)
      BY <2>3, <2>4, <2>6, <1>u, PutReplyExact
    <2>8. v.sock = k /\ toSrv'[k] = toSrv[k]
      <3>1. cl[c].sock = k
        BY <2>3, <1>u
      <3> QED BY <2>1, <2>4, <3>1
    <2>9. th' = th /\ dirVars' = dirVars /\ used' = used /\ closed' = closed
      BY <2>1
    <2> QED BY <2>3, <2>5, <2>7, <2>8, <2>9, GoesOn
  <1>3. CASE Download(c)
    <2>1. PICK k : k = Sock(c)
      OBVIOUS
    <2>2. Uses(c, k) /\ k \notin closed /\ cl[c].pc = "download" /\ toCli[k] # <<>>
      BY <2>1, <1>3, <1>w DEF Download
    <2>3. /\ k \in Conn /\ th[k] \in ThreadType /\ cl[c] \in ClientType /\ cl[c].sock = k
          /\ toSrv[k] \in Seq(Message) /\ toCli[k] \in Seq(Message)
          /\ Meets(th[k], toSrv[k], toCli[k], cl[c], FALSE)
          /\ Holds(th[k], toSrv[k], toCli[k], cl[c], filedir, present, FALSE)
      BY <2>2, <1>u
    <2> DEFINE m == Head(toCli[k])
               v == IF m.type = "END" THEN [cl[c] EXCEPT !.pc = "prompt"]
                    ELSE [cl[c] EXCEPT !.own[cl[c].name] = Append(@, m.block)]
    <2>4. /\ m.type \in {"DATA", "END"} /\ cl' = [cl EXCEPT ![c] = v]
          /\ toCli' = [toCli EXCEPT ![k] = Tail(toCli[k])]
          /\ th' = th /\ dirVars' = dirVars /\ used' = used /\ toSrv' = toSrv /\ closed' = closed
      BY <2>1, <1>3 DEF Download, bounds
    <2>5. cl'[c] = v /\ toCli'[k] = Tail(toCli[k])
      BY <2>3, <2>4, <1>0 DEF ClientsTyped, MailTyped
    <2>6. /\ v.name = cl[c].name /\ v.sock = k
          /\ \/ m.type = "END" /\ v.pc = "prompt" /\ v.own = cl[c].own
             \/ /\ m.type = "DATA" /\ v.pc = "download"
                /\ v.own = [cl[c].own EXCEPT ![cl[c].name] = Append(cl[c].own[cl[c].name], m.block)]
      <3> HIDE DEF m
      <3>1. CASE m.type = "END"
        BY <3>1, <2>3 DEF ClientType
      <3>2. CASE m.type = "DATA"
        BY <3>2, <2>2, <2>3 DEF ClientType
      <3> QED BY <3>1, <3>2, <2>4
    <2> HIDE DEF v
    <2>7. Holds(th[k], toSrv[k], Tail(toCli[k]), v, filedir, present, FALSE)
      BY <2>2, <2>3, <2>6, DownloadExact
    <2> HIDE DEF m
    <2> QED BY <2>2, <2>4, <2>5, <2>6, <2>7, GoesOn
  <1>4. CASE DownloadNothing(c)
    <2>1. cl[c].pc = "download" /\ th[Sock(c)].pc = "ended"
      BY <1>4 DEF DownloadNothing
    <2>2. Uses(c, Sock(c))
      BY <2>1, <1>w
    <2> QED BY <2>1, <2>2 DEF Uses, Holds, Leaves
  <1>5. CASE Upload(c)
    <2>1. PICK k : k = Sock(c)
      OBVIOUS
    <2>2. Uses(c, k) /\ k \notin closed /\ cl[c].pc = "upload"
      BY <2>1, <1>5, <1>w DEF Upload
    <2>3. /\ k \in Conn /\ th[k] \in ThreadType /\ cl[c] \in ClientType /\ cl[c].sock = k
          /\ toSrv[k] \in Seq(Message) /\ toCli[k] \in Seq(Message) /\ k # NoConn
          /\ Meets(th[k], toSrv[k], toCli[k], cl[c], FALSE)
          /\ Holds(th[k], toSrv[k], toCli[k], cl[c], filedir, present, FALSE)
      BY <2>2, <1>u
    <2>4. cl[c].name \in Files
      BY <2>1, <2>2, <2>3, UsesSocket
    <2> DEFINE contents == cl[c].own[cl[c].name]
               i == cl[c].pos + 1
    <2>5. /\ IF i <= Len(contents)
             THEN Ask(c, [cl[c] EXCEPT !.pos = i], Data(contents[i]))
             ELSE Ask(c, [cl[c] EXCEPT !.pc = "prompt"], Plain("END"))
          /\ th' = th /\ dirVars' = dirVars /\ used' = used /\ toCli' = toCli
      BY <1>5 DEF Upload, bounds
    <2>6. contents \in Seq(Blocks) /\ cl[c].pos \in Nat
      BY <2>3, <2>4 DEF ClientType
    <2>7. PICK v, m :
             /\ m \in Message /\ Ask(c, v, m) /\ v.name = cl[c].name /\ v.own = cl[c].own /\ v.sock = k
             /\ \/ /\ m.type = "DATA" /\ v.pc = "upload"
                   /\ cl[c].pos + 1 <= Len(cl[c].own[cl[c].name])
                   /\ m.block = cl[c].own[cl[c].name][cl[c].pos + 1]
                \/ /\ m.type = "END" /\ v.pc = "prompt"
                   /\ ~(cl[c].pos + 1 <= Len(cl[c].own[cl[c].name]))
      <3>1. CASE i <= Len(contents)
        <4> DEFINE v == [cl[c] EXCEPT !.pos = i]
                   m == Data(contents[i])
        <4>1. contents[i] \in Blocks
          BY <2>6, <3>1
        <4>2. m \in Message /\ m.type = "DATA" /\ m.block = contents[i]
          BY <4>1, MessagesTyped DEF Data, Plain
        <4>3. v.pc = "upload" /\ v.name = cl[c].name /\ v.own = cl[c].own /\ v.sock = k
          <5>1. cl[c] \in ClientType /\ cl[c].sock = k /\ cl[c].pc = "upload"
            BY <2>2, <2>3
          <5> HIDE DEF contents, i, m
          <5> QED BY <5>1 DEF ClientType
        <4>4. Ask(c, v, m)
          BY <2>5, <3>1
        <4> HIDE DEF v, m
        <4> QED BY <4>2, <4>3, <4>4, <3>1
      <3>2. CASE ~(i <= Len(contents))
        <4> DEFINE v == [cl[c] EXCEPT !.pc = "prompt"]
        <4>1. Plain("END") \in Message /\ Plain("END").type = "END"
          BY MessagesTyped
        <4>2. v.pc = "prompt" /\ v.name = cl[c].name /\ v.own = cl[c].own /\ v.sock = k
          <5>1. cl[c] \in ClientType /\ cl[c].sock = k
            BY <2>3
          <5> HIDE DEF contents, i
          <5> QED BY <5>1 DEF ClientType
        <4>3. Ask(c, v, Plain("END"))
          BY <2>5, <3>2
        <4> HIDE DEF v
        <4> QED BY <4>1, <4>2, <4>3, <3>2
      <3> QED BY <3>1, <3>2
    <2> HIDE DEF contents, i
    <2>8. th[k].pc # "ended" /\ Holds(th[k], Append(toSrv[k], m), toCli[k], v, filedir, present, FALSE)
      BY <2>2, <2>3, <2>4, <2>7, UploadExact
    <2>9. toSrv'[k] = Append(toSrv[k], m) /\ cl'[c] = v /\ closed' = closed /\ toCli'[k] = toCli[k]
      BY <2>1, <2>3, <2>5, <2>7, <2>8, <1>0 DEF Ask, MailTyped, ClientsTyped
    <2> QED BY <2>2, <2>5, <2>7, <2>8, <2>9, GoesOn
  <1> QED BY <1>1, <1>2, <1>3, <1>4, <1>5

\* Only a client that was not lost is not lost, and connections are not given back.
LEMMA WasOne ==
  ASSUME NEW c, Clients = {c}, IInv, UserStep(c) \/ ClientStep(c),
         server', used'[c] <= 1, cl'[c].pc \notin Lost
  PROVE  One(c)
  <1>0. ClientsTyped /\ c \in Clients
    BY TypeParts DEF IInv
  <1>c. ASSUME NEW word, Command(c, word) PROVE cl[c].pc \notin Lost
    BY <1>c DEF Command, Lost
  <1>g. ASSUME NEW type \in ReplyTypes, Gets(c, type) PROVE cl[c].pc \notin Lost
    BY <1>g DEF Gets, ReplyTypes, Lost
  <1>n. /\ "OPEN_REPLY" \in ReplyTypes /\ "AUTH_REPLY" \in ReplyTypes /\ "LIST_REPLY" \in ReplyTypes
        /\ "GET_REPLY" \in ReplyTypes /\ "PUT_REPLY" \in ReplyTypes /\ "QUIT_REPLY" \in ReplyTypes
    BY DEF ReplyTypes
  <1>1. CASE UserStep(c)
    <2>1. CASE Open(c)
      <3>1. /\ Command(c, "open") /\ server' = server /\ used' = [used EXCEPT ![c] = @ + 1]
        BY <2>1 DEF Open
      <3>2. used[c] \in Nat
        BY <1>0, FtpAssumption DEF ClientsTyped
      <3>3. used'[c] = used[c] + 1
        BY <3>1, <1>0 DEF ClientsTyped
      <3> QED BY <3>1, <3>2, <3>3, <1>c DEF One
    <2>2. CASE Kill(c)
      <3>1. cl'[c].pc = "killed"
        BY <2>2, <1>0 DEF Kill, ClientEnds, ClientsTyped
      <3> QED BY <3>1 DEF Lost
    <2>3. CASE OpenRefused(c) \/ Usage(c) \/ AuthCommand(c) \/ Ls(c) \/ Get(c) \/ Put(c)
      BY <2>3, <1>c DEF OpenRefused, Usage, AuthCommand, Ls, Get, Put, One
    <2>4. CASE Quit(c) \/ SendForEver(c) \/ BadCommand(c)
      BY <2>4, <1>c DEF Quit, SendForEver, BadCommand, One
    <2> QED BY <1>1, <2>1, <2>2, <2>3, <2>4 DEF UserStep
  <1>2. CASE ClientStep(c)
    <2>1. CASE OpenReply(c) \/ AuthReply(c) \/ LsReply(c) \/ QuitReply(c)
      BY <2>1, <1>g, <1>n DEF OpenReply, AuthReply, LsReply, QuitReply, bounds, One
    <2>2. CASE GetReply(c) \/ GetReplyMerged(c) \/ PutReply(c)
      BY <2>2, <1>g, <1>n DEF GetReply, GetReplyMerged, PutReply, bounds, One
    <2>3. CASE Download(c) \/ DownloadNothing(c) \/ Upload(c)
      BY <2>3 DEF Download, DownloadNothing, Upload, bounds, One, Lost
    <2>4. CASE WrongHeader(c)
      <3>1. cl'[c].pc = "aborted"
        BY <2>4, <1>0 DEF WrongHeader, ClientEnds, ClientsTyped
      <3> QED BY <3>1 DEF Lost
    <2> QED BY <1>2, <2>1, <2>2, <2>3, <2>4 DEF ClientStep
  <1> QED BY <1>1, <1>2

LEMMA ClientExact ==
  ASSUME NEW c, Clients = {c}, IInv, PlaceInv, ExactInv, UserStep(c) \/ ClientStep(c)
  PROVE  ExactInv'
  <1>1. CASE ~(server' /\ used'[c] <= 1 /\ cl'[c].pc \notin Lost)
    BY <1>1 DEF ExactInv
  <1>2. CASE server' /\ used'[c] <= 1 /\ cl'[c].pc \notin Lost
    <2>1. One(c)
      BY <1>2, WasOne
    <2>2. CASE UserStep(c)
      <3>1. CASE AuthCommand(c) \/ Ls(c) \/ Get(c) \/ Put(c) \/ (Quit(c) /\ cl[c].connected)
        BY <3>1, <2>1, CommandExact
      <3>2. CASE Open(c)
        BY <3>2, <2>1, OpeningExact
      <3>3. CASE \/ OpenRefused(c) \/ Usage(c) \/ (Quit(c) /\ ~cl[c].connected) \/ SendForEver(c)
                 \/ BadCommand(c) \/ Kill(c)
        BY <3>3, <2>1, LocalExact
      <3> QED BY <2>2, <3>1, <3>2, <3>3 DEF UserStep
    <2>3. CASE ClientStep(c)
      <3>1. CASE OpenReply(c) \/ AuthReply(c) \/ LsReply(c) \/ QuitReply(c)
        BY <3>1, <2>1, RepliesExact
      <3>2. CASE GetReply(c) \/ PutReply(c) \/ Download(c) \/ DownloadNothing(c) \/ Upload(c)
        BY <3>2, <2>1, TransferExact
      <3>3. CASE WrongHeader(c) \/ GetReplyMerged(c)
        BY <3>3, <2>1, LocalExact
      <3> QED BY <2>3, <3>1, <3>2, <3>3 DEF ClientStep
    <2> QED BY <2>2, <2>3
  <1> QED BY <1>1, <1>2

LEMMA InitExact == ASSUME OneClient, Init PROVE ExactInv
  <1> SUFFICES ASSUME NEW c \in Clients PROVE Exact(c)
    BY DEF ExactInv
  <1>0. used = [d \in Clients |-> 0] /\ closed = {}
    BY DEF Init
  <1>1. PICK k : k = <<c, 1>>
    OBVIOUS
  <1>2. k \in Conn /\ used[c] = 0 /\ closed = {}
    BY <1>0, <1>1, FtpAssumption DEF Conn
  <1>3. /\ th[k].pc = "none" /\ toSrv[k] = <<>> /\ toCli[k] = <<>>
        /\ cl[c].pc = "prompt" /\ cl[c].own = [f \in Files |-> Original(c)]
        /\ filedir = [f \in Files |-> IF f \in Stored THEN Original(Owner) ELSE <<>>]
        /\ present = Stored
    BY <1>2 DEF Init
  <1>4. Stores(th[k], toSrv[k], cl[c], filedir, present)
    BY <1>3 DEF Stores, Takes
  <1>5. Fetches(th[k], toCli[k], cl[c], filedir)
    BY <1>3 DEF Fetches
  <1>6. Rests(th[k], cl[c], filedir, present)
    <2>1. \A f \in present : WholeFile(filedir[f])
      BY <1>3, FtpAssumption DEF WholeFile
    <2>2. \A f \in Files : WholeFile(cl[c].own[f])
      BY <1>3 DEF WholeFile
    <2> QED BY <2>1, <2>2 DEF Rests
  <1>7. k \notin closed /\ used[c] # 1
    BY <1>2
  <1> QED BY <1>1, <1>7, <1>4, <1>5, <1>6 DEF Exact

LEMMA StepExact ==
  ASSUME OneClient, IInv, PlaceInv, ExactInv, [Next]_vars
  PROVE  ExactInv'
  <1>0. PICK c : Clients = {c}
    BY DEF OneClient
  <1>1. CASE UNCHANGED vars
    BY <1>1, SameExact DEF vars, dirVars, wire, bounds
  <1>2. ASSUME NEW k \in Conn, ThreadStep(k) PROVE ExactInv'
    BY <1>0, <1>2, ThreadExact
  <1>3. ASSUME NEW d \in Clients, UserStep(d) \/ ClientStep(d) PROVE ExactInv'
    <2>1. d = c
      BY <1>0
    <2> QED BY <1>0, <1>3, <2>1, ClientExact
  <1> QED BY <1>1, <1>2, <1>3 DEF Next

LEMMA ExactInvariance == ASSUME OneClient PROVE Spec => []ExactInv
  <1>1. Spec => [](IInv /\ PlaceInv)
    BY Invariance, PlaceInvariance, PTL
  <1>2. Init => ExactInv
    BY InitExact
  <1>3. IInv /\ PlaceInv /\ ExactInv /\ [Next]_vars => ExactInv'
    BY StepExact
  <1> QED BY <1>1, <1>2, <1>3, PTL DEF Spec

(***************************************************************************)
(* The transfers of an only client over its first connection are exact,    *)
(* whatever it asks, is refused or gives up: when nothing is under way and *)
(* the client was not lost, every file in filedir and every file of the    *)
(* client is a whole file, as somebody had it.                             *)
(***************************************************************************)
THEOREM TransfersAreExact == ASSUME OneClient PROVE Spec => []TransfersExact
  <1>1. ASSUME IInv, PlaceInv, ExactInv PROVE TransfersExact
    <2>0. PICK c : c \in Clients /\ Clients = {c}
      BY DEF OneClient
    <2> SUFFICES ASSUME One(c),
                        \A k \in Conn : /\ th[k].pc \in {"none", "recv", "ended"}
                                        /\ toSrv[k] = <<>> /\ toCli[k] = <<>>
                 PROVE  /\ \A f \in present : WholeFile(filedir[f])
                        /\ \A f \in Files : cl[c].pc = "prompt" => WholeFile(cl[c].own[f])
      BY <2>0 DEF TransfersExact, One
    <2>1. PICK k : k = <<c, 1>> /\ k \in Conn
      <3>1. 1 \in 1..MaxOpens
        BY FtpAssumption
      <3>2. c \in Clients
        BY <2>0
      <3>3. <<c, 1>> \in Conn
        BY <3>1, <3>2 DEF Conn
      <3> QED BY <3>3
    <2>2. Rests(th[k], cl[c], filedir, present)
      BY <1>1, <2>0, <2>1 DEF ExactInv, Exact, One
    <2>3. th[k].pc # "putdata"
      BY <2>1
    <2> QED BY <2>2, <2>3 DEF Rests
  <1> QED BY <1>1, Invariance, PlaceInvariance, ExactInvariance, PTL
=============================================================================
