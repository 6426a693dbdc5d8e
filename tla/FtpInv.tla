------------------------------- MODULE FtpInv -------------------------------
(***************************************************************************)
(* What keeps the blocks of a file in their places, stated for one         *)
(* connection: t is its thread, q what is on its way to the server, r what *)
(* is on its way to the client, s the client and S the files in which      *)
(* blocks may be out of place.                                             *)
(***************************************************************************)
EXTENDS Ftp

FileData == {"DATA", "END"}
OnlyData(q) == \A i \in 1..Len(q) : q[i].type \in FileData
NoData(q) == \A i \in 1..Len(q) : q[i].type \notin FileData
AllBlocks(q) == \A i \in 1..Len(q) : q[i].type = "DATA"
HasEnd(q) == \E i \in 1..Len(q) : q[i].type = "END"

\* A request is the last message sent, a reply the only one to be read.
RequestLast(q) == \A i \in 1..Len(q) : q[i].type \notin FileData => i = Len(q)
OneReply(r) ==
    \A i, j \in 1..Len(r) : r[i].type \notin FileData /\ r[j].type \notin FileData => i = j

\* The blocks at the head of q are numbers n + 1, n + 2 .. of a file.
AtPlace(b, i) == b = Hole \/ b.at = i
Numbered(q, n) ==
    \A i \in 1..Len(q) : (\A j \in 1..i : q[j].type = "DATA") => AtPlace(q[i].block, n + i)

\* The thread takes blocks of a file, and the number of those it took.
Takes(t) == t.pc \in {"putopen", "putdata"}
Taken(t) == IF t.pc = "putdata" THEN t.pos ELSE 0

Serves(t, q, S) ==
    t.pc # "ended" =>
        /\ RequestLast(q)
        /\ t.pc = "putdata" => t.name \in Files
        /\ Takes(t) /\ t.name \notin S => Numbered(q, Taken(t))

\* No request and no reply is on its way.
Quiet(t, q, r) == OnlyData(r) /\ (t.pc = "ended" \/ OnlyData(q))

\* A request, or its reply.
Awaits(t, q, r) == OneReply(r) /\ (t.pc = "ended" \/ OnlyData(q) \/ OnlyData(r))

\* A request is of the kind, and for the file, that the client waits for.
Asked(t, q, s) ==
    t.pc = "ended" \/ \A i \in 1..Len(q) :
        /\ q[i].type = "GET" => s.pc = "GET_REPLY" /\ q[i].name = s.name
        /\ q[i].type = "PUT" => s.pc = "PUT_REPLY" /\ q[i].name = s.name

Opens(t, q, r) == NoData(r) /\ (t.pc = "ended" \/ (t.pc = "recv" /\ NoData(q)))

Uploads(t, q, s) ==
    /\ s.pc = "PUT_REPLY" => s.pos = 0
    /\ Takes(t) /\ (s.pc = "upload" \/ (s.pc = "PUT_REPLY" /\ OnlyData(q)))
         => AllBlocks(q) /\ t.name = s.name /\ s.pos = Len(q) + Taken(t)

\* r are blocks of the file after the first n, which the thread goes on to send.
Follows(t, r, f, n, S) ==
    f \notin S => /\ Numbered(r, n)
                  /\ t.pc = "getdata" => AllBlocks(r) /\ t.name = f /\ t.pos = n + Len(r)

Downloads(t, r, s, S) ==
    /\ s.pc \in {"GET_REPLY", "download"} => s.name \in Files
    /\ s.pc = "download" => Follows(t, r, s.name, Len(s.own[s.name]), S)
    /\ s.pc = "GET_REPLY" /\ r # <<>> /\ Head(r).type = "GET_REPLY"
          => Follows(t, Tail(r), s.name, 0, S)

\* Of a file that is not being uploaded any more, the end is on its way.
Ended(t, q, s) ==
    s.pc \in {"prompt", "download"} \cup (ReplyTypes \ {"PUT_REPLY"}) /\ Takes(t) => HasEnd(q)

Talks(t, q, r, s, S) ==
    /\ s.pc \in {"prompt", "download", "upload"} => Quiet(t, q, r)
    /\ s.pc \in ReplyTypes => Awaits(t, q, r)
    /\ s.pc = "OPEN_REPLY" => Opens(t, q, r)
    /\ Asked(t, q, s) /\ Uploads(t, q, s) /\ Downloads(t, r, s, S) /\ Ended(t, q, s)

\* The thread will come to the end of the file, or has nothing to write again.
Finishes(t, q, uploading) ==
    Takes(t) => \/ HasEnd(q) \/ uploading
                \/ q = <<>> /\ (t.pc = "putdata" => t.data = NoMessage)

Live(c) == Sock(c) \in Conn \ closed
Uploading(k) == cl[k[1]].sock = k /\ k \notin closed /\ cl[k[1]].pc = "upload"

\* A thread that writes its last block again and again.
Runaway(k) ==
    k \in closed /\ th[k].pc = "putdata" /\ toSrv[k] = <<>> /\ th[k].data # NoMessage

Spoilt == {f \in Files : Kills /\ (~server \/ \E k \in Conn : Runaway(k) /\ th[k].name = f)}

Placed ==
    \A f \in Files \ Spoilt :
        InPlace(filedir[f]) /\ \A c \in Clients : InPlace(cl[c].own[f]) \/ CutShort(c, f)

\* Nobody uses a socket that is closed, and none is closed before it is open.
ClosedSockets ==
    /\ \A c \in Clients : Sock(c) \in closed =>
          /\ cl[c].pc \notin ReplyTypes \cup {"download", "upload"}
          /\ cl[c].pc = "prompt" => ~cl[c].authenticated
    /\ \A c \in Clients : \A i \in 1..MaxOpens : i > used[c] => <<c, i>> \notin closed

Conversations ==
    \A c \in Clients : Live(c) =>
        Talks(th[Sock(c)], toSrv[Sock(c)], toCli[Sock(c)], cl[c], Spoilt)

Service == \A k \in Conn : Serves(th[k], toSrv[k], Spoilt)

Finishing == Kills \/ \A k \in Conn : Finishes(th[k], toSrv[k], Uploading(k))

PlaceInv == Placed /\ ClosedSockets /\ Conversations /\ Service /\ Finishing

-----------------------------------------------------------------------------
(***************************************************************************)
(* What a client is told of its login on the connection it uses.           *)
(***************************************************************************)
HasQuit(q) == \E i \in 1..Len(q) : q[i].type = "QUIT"

\* Only for a client that is leaving is QUIT on its way, or the thread ended.
Leaves(t, q, s) == t.pc = "ended" \/ HasQuit(q) => s.pc \in {"QUIT_REPLY", "exited", "killed"}

Leaving ==
    server => \A c \in Clients :
        Sock(c) \in Conn => Leaves(th[Sock(c)], toSrv[Sock(c)], cl[c])

\* Where a client is that goes on and has no AUTH to wait for.
Going == {"prompt", "download", "upload"} \cup (ReplyTypes \ {"AUTH_REPLY"})

Says(t, r) == \A i \in 1..Len(r) : r[i].type = "AUTH_REPLY" => (r[i].ok <=> t.auth)
Agrees(t, s) == s.pc \in Going /\ s.authenticated => t.auth

\* authenticated is not that of an earlier connection.
Told(c) == used[c] = 1 \/ Sock(c) \in login

LoginTold ==
    server => \A c \in Clients :
        /\ used[c] = 0 => ~cl[c].authenticated
        /\ \A i \in 1..MaxOpens : i > used[c] => <<c, i>> \notin login
        /\ Live(c) => /\ Says(th[Sock(c)], toCli[Sock(c)])
                      /\ Told(c) => Agrees(th[Sock(c)], cl[c])

-----------------------------------------------------------------------------
(***************************************************************************)
(* Requests and replies in lock step: who has the word, for clients that   *)
(* open one connection each, give right passwords and right arguments, can *)
(* write their files, are in time and not killed, while the server runs:   *)
(* it still ends over a file that it cannot open itself.  Each limit is    *)
(* needed: without it a message is left in a socket, a flag of the client  *)
(* or a thread without its client.                                         *)
(***************************************************************************)
Careful ==
    /\ MaxOpens = 1 /\ Punctual /\ ~Kills /\ Writable \subseteq {TRUE}
    /\ Commands \cap {"badopen", "badauth", "usage"} = {}

RequestOf == [OPEN_REPLY |-> "OPEN", AUTH_REPLY |-> "AUTH", LIST_REPLY |-> "LIST",
              GET_REPLY |-> "GET", PUT_REPLY |-> "PUT", QUIT_REPLY |-> "QUIT"]

\* After the end of a file there are no data.
OneEnd(q) ==
    \A i, j \in 1..Len(q) : q[i].type = "END" /\ i < j => q[j].type \notin FileData

\* Data are on their way to a thread that takes them only.
Ordered(t, q) == RequestLast(q) /\ OneEnd(q) /\ (~Takes(t) => NoData(q))

\* What the client remembers is what the thread does.
Flags(t, s) ==
    /\ s.pc \notin {"OPEN_REPLY", "exited"} => s.connected
    /\ s.pc \notin {"AUTH_REPLY", "QUIT_REPLY", "exited"} => (s.authenticated <=> t.auth)
    /\ s.pc \in {"LIST_REPLY", "GET_REPLY", "PUT_REPLY", "download", "upload"} => t.auth

\* The thread reads requests, or will when it has come to the end of a put.
Idle(t, q) == t.pc \in {"recv", "putopen", "putdata"} /\ (Takes(t) => HasEnd(q))

\* r is the rest of a file, or will be when the thread has come to its end.
Streams(t, r) ==
    /\ OnlyData(r) /\ OneEnd(r)
    /\ \/ t.pc = "getdata" /\ AllBlocks(r)
       \/ t.pc = "recv" /\ HasEnd(r)

Unanswered(t, q, r, s) ==
    /\ r = <<>> /\ Idle(t, q)
    /\ q # <<>> /\ q[Len(q)].type = RequestOf[s.pc] /\ (s.pc = "AUTH_REPLY" => q[Len(q)].ok)

Answered(t, q, r, s) ==
    /\ q = <<>> /\ r # <<>> /\ Head(r).type = s.pc
    /\ s.pc = "AUTH_REPLY" => Head(r).ok /\ t.auth
    /\ IF s.pc = "GET_REPLY" /\ Head(r).ok
       THEN Streams(t, Tail(r))
       ELSE /\ Tail(r) = <<>>
            /\ t.pc \in IF s.pc = "PUT_REPLY" THEN {"putopen", "putdata"}
                        ELSE IF s.pc = "QUIT_REPLY" THEN {"ended"} ELSE {"recv"}

Turn(t, q, r, s) ==
    /\ Ordered(t, q) /\ Flags(t, s)
    /\ s.pc \in {"prompt", "download", "upload", "exited"} \cup ReplyTypes
    /\ s.pc = "prompt" => r = <<>> /\ OnlyData(q) /\ Idle(t, q)
    /\ s.pc \in ReplyTypes => Unanswered(t, q, r, s) \/ Answered(t, q, r, s)
    /\ s.pc = "download" => q = <<>> /\ Streams(t, r)
    /\ s.pc = "upload" => r = <<>> /\ Takes(t) /\ AllBlocks(q)
    /\ s.pc = "exited" => t.pc = "ended"

Unopened(t, q, r, s) ==
    /\ t.pc = "none" /\ ~t.auth /\ q = <<>> /\ r = <<>>
    /\ s.pc \in {"prompt", "exited"} /\ ~s.connected /\ ~s.authenticated

LockStep ==
    server => \A c \in Clients : LET k == <<c, 1>> IN
        /\ used[c] = 0 => Unopened(th[k], toSrv[k], toCli[k], cl[c])
        /\ used[c] # 0 => cl[c].sock = k /\ Turn(th[k], toSrv[k], toCli[k], cl[c])
        /\ k \in closed => used[c] # 0 /\ cl[c].pc = "exited"

-----------------------------------------------------------------------------
(***************************************************************************)
(* The transfers of an only client over its first connection: each file is *)
(* somebody's, or will be when the transfer under way has come to its end. *)
(* dir are the files of the server, pres those that exist.  With a second  *)
(* client two puts may mix in one file.                                    *)
(***************************************************************************)
OneClient == \E c : Clients = {c}
Writers == Clients \cup {Owner}

\* The first n blocks of the file as "by" had it, and nothing more.
Part(contents, n, by) ==
    Len(contents) = n /\ n <= FileBlocks /\ \A i \in 1..n : contents[i] = Block(by, i)

\* q goes on with that file after n blocks, as far as its end.
Carries(q, n, by) ==
    \A i \in 1..Len(q) : (\A j \in 1..i-1 : q[j].type = "DATA") =>
        /\ q[i].type = "DATA" => q[i].block = Block(by, n + i) /\ n + i <= FileBlocks
        /\ q[i].type = "END" => n + i = FileBlocks + 1

\* Of a put the thread has a part, and the rest is on its way or the client's.
Stores(t, q, s, dir, pres) ==
    Takes(t) /\ t.name \in Files =>
        /\ HasEnd(q) \/ s.pc \in {"upload", "PUT_REPLY"}
        /\ \E by \in Writers :
              /\ t.pc = "putdata" => t.name \in pres /\ Part(dir[t.name], t.pos, by)
              /\ Carries(q, Taken(t), by)
              /\ s.pc = "upload" => s.own[s.name] = Original(by)

\* Of a get the client has n blocks, and the rest is on its way or the thread's.
FetchedFrom(t, r, n, by, dir) ==
    Carries(r, n, by) /\ (t.pc = "getdata" => dir[t.name] = Original(by))

Fetches(t, r, s, dir) ==
    /\ s.pc = "download" => \E by \in Writers :
          LET n == Len(s.own[s.name])
          IN  Part(s.own[s.name], n, by) /\ FetchedFrom(t, r, n, by, dir)
    /\ s.pc = "GET_REPLY" /\ r # <<>> /\ Head(r).type = "GET_REPLY" =>
          \E by \in Writers : FetchedFrom(t, Tail(r), 0, by, dir)

\* Every other file is whole.
Rests(t, s, dir, pres) ==
    /\ \A f \in pres : ~(t.pc = "putdata" /\ t.name = f) => WholeFile(dir[f])
    /\ \A f \in Files : ~(s.pc = "download" /\ s.name = f) => WholeFile(s.own[f])

NoPut(q) == \A i \in 1..Len(q) : q[i].type # "PUT"

Exact(c) ==
    LET k == <<c, 1>> IN
    /\ used[c] = 1 => Sock(c) = k /\ Leaves(th[k], toSrv[k], cl[c])
    /\ k \in closed /\ th[k].pc # "ended" => NoPut(toSrv[k])
    /\ Stores(th[k], toSrv[k], cl[c], filedir, present)
    /\ Fetches(th[k], toCli[k], cl[c], filedir)
    /\ Rests(th[k], cl[c], filedir, present)

ExactInv ==
    server => \A c \in Clients : used[c] <= 1 /\ cl[c].pc \notin Lost => Exact(c)
=============================================================================
