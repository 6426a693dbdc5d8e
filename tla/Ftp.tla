-------------------------------- MODULE Ftp --------------------------------
(***************************************************************************)
(* MYFTP, Assignment 1: the interactive client and the server with one     *)
(* thread per connection.  A connection carries messages in order in both  *)
(* directions; the threads share the directory filedir and the process.    *)
(*                                                                         *)
(* A file is a sequence of blocks, a block being what stdio passes on at   *)
(* once (four DATA messages); the short message that ends a transfer is    *)
(* END.  Texts, the listing and the characters of names are left out, and  *)
(* accept only hands the new connection to its thread.                     *)
(***************************************************************************)
EXTENDS Integers, Sequences, FiniteSets

CONSTANTS
    Clients, Files,
    Owner,        \* who wrote the files that are in filedir at first
    MaxOpens,     \* bound on the connections of one client
    MaxCommands,  \* bound on the commands of one user
    MaxBlocks,    \* bound on the length of a file
    Commands,     \* the commands users give
    Stored,       \* the files in filedir at first
    FileBlocks,   \* the blocks of the files every writer has at first
    Writable,     \* the outcomes of the client's fopen(target_filename, "wb")
    Unwritable,   \* names for which the server's fopen(directory, "wb") fails
    Punctual,     \* GET_REPLY is read before the server's sleep(1) is over
    Kills         \* a user may kill the client

Conn == Clients \X (1..MaxOpens)
NoConn == <<>>
Directory == "filedir"   \* what is left of a path when the payload is cleared

ASSUME FtpAssumption ==
    /\ MaxOpens \in Nat \ {0} /\ MaxCommands \in Nat /\ MaxBlocks \in Nat \ {0}
    /\ Commands \subseteq {"open", "badopen", "usage", "auth", "badauth",
                           "ls", "get", "put", "quit", "exit"}
    /\ Stored \subseteq Files /\ Unwritable \subseteq Files /\ FileBlocks \in 0..MaxBlocks
    /\ Writable \subseteq BOOLEAN /\ Punctual \in BOOLEAN /\ Kills \in BOOLEAN
    /\ Owner \notin Clients /\ Directory \notin Files

\* Block number "at" of the file as "by" had it; a hole is read as zeros.
Block(by, at) == [by |-> by, at |-> at]
Hole == Block(Owner, 0)
Blocks == [by : Clients \cup {Owner}, at : 0..MaxBlocks]
Original(by) == [i \in 1..FileBlocks |-> Block(by, i)]

VARIABLES
    server,   \* the server process runs
    present,  \* the files that exist in filedir
    filedir,  \* their contents
    th,       \* th[k]: the thread of connection k
    cl,       \* cl[c]: the client process
    toSrv, toCli,  \* messages on their way on each connection
    closed,   \* the connections whose client end is closed
    reset,    \* the connections on which a message met a closed end
    login,    \* history: connections on which a right password was sent and none refused since
    used,     \* number of connections of each client
    given     \* number of commands of each user

dirVars == <<present, filedir>>
wire == <<toSrv, toCli, closed, reset>>
bounds == <<used, given>>
vars == <<server, dirVars, th, cl, wire, login, bounds>>

-----------------------------------------------------------------------------
(* Messages: an empty name or status is none. *)

Plain(type) == [type |-> type, name |-> "", ok |-> FALSE, block |-> Hole]
Auth(good) == [Plain("AUTH") EXCEPT !.ok = good]
Named(type, f) == [Plain(type) EXCEPT !.name = f]
Status(type, ok) == [Plain(type) EXCEPT !.ok = ok]
Data(b) == [Plain("DATA") EXCEPT !.block = b]

RequestTypes == {"OPEN", "AUTH", "LIST", "GET", "PUT", "QUIT"}
ReplyTypes == {"OPEN_REPLY", "AUTH_REPLY", "LIST_REPLY", "GET_REPLY", "PUT_REPLY", "QUIT_REPLY"}
NoMessage == Plain("none")

\* A message whose recv failed: the type stays, the payload was cleared before.
Cleared(m) == [m EXCEPT !.ok = FALSE, !.name = IF m.type \in {"GET", "PUT"} THEN Directory ELSE ""]

Init ==
    /\ server = TRUE
    /\ present = Stored
    /\ filedir = [f \in Files |-> IF f \in Stored THEN Original(Owner) ELSE <<>>]
    /\ th = [k \in Conn |-> [pc |-> "none", auth |-> FALSE, last |-> NoMessage,
                             name |-> "", pos |-> 0, data |-> NoMessage]]
    /\ cl = [c \in Clients |-> [pc |-> "prompt", sock |-> NoConn, connected |-> FALSE,
                                authenticated |-> FALSE, reply |-> NoMessage, name |-> "",
                                pos |-> 0, own |-> [f \in Files |-> Original(c)]]]
    /\ toSrv = [k \in Conn |-> <<>>] /\ toCli = [k \in Conn |-> <<>>]
    /\ closed = {} /\ reset = {} /\ login = {}
    /\ used = [c \in Clients |-> 0] /\ given = [c \in Clients |-> 0]

-----------------------------------------------------------------------------
(* The server: recv and send of a thread *)

\* exit(), or SIGPIPE, ends the process with all its threads.
ServerEnds ==
    /\ server' = FALSE
    /\ th' = [k \in Conn |-> [th[k] EXCEPT !.pc = "ended"]]

(***************************************************************************)
(* send: the thread goes on as t.  The first message to a closed end is    *)
(* answered by a reset, after which send raises SIGPIPE.                   *)
(***************************************************************************)
Answer(k, t, m) ==
    \/ /\ k \notin closed
       /\ toCli' = [toCli EXCEPT ![k] = Append(@, m)] /\ th' = [th EXCEPT ![k] = t]
       /\ UNCHANGED <<server, closed, reset>>
    \/ /\ k \in closed \ reset
       /\ reset' = reset \cup {k} /\ th' = [th EXCEPT ![k] = t]
       /\ UNCHANGED <<server, closed, toCli>>
    \/ /\ k \in closed \cap reset
       /\ ServerEnds
       /\ UNCHANGED <<closed, reset, toCli>>

\* The result of recv is ignored: at the end of the stream the request before
\* is handled once more.
Request(k) == IF toSrv[k] # <<>> THEN Head(toSrv[k]) ELSE Cleared(th[k].last)

Receives(k, type) ==
    /\ th[k].pc = "recv" /\ (toSrv[k] # <<>> \/ k \in closed)
    /\ Request(k).type = type
    /\ toSrv' = IF toSrv[k] # <<>> THEN [toSrv EXCEPT ![k] = Tail(@)] ELSE toSrv

\* The thread after it received its request.
Thread(k) == [th[k] EXCEPT !.last = Request(k)]

HandleOpen(k) ==
    /\ Receives(k, "OPEN")
    /\ Answer(k, Thread(k), Plain("OPEN_REPLY"))
    /\ UNCHANGED <<dirVars, cl, login, bounds>>

\* Wrong variant: the answer is right, but the thread does not remember it.
HandleAuthForgets(k) ==
    /\ Receives(k, "AUTH")
    /\ Answer(k, Thread(k), Status("AUTH_REPLY", Request(k).ok))
    /\ UNCHANGED <<dirVars, cl, login, bounds>>

HandleAuth(k) ==
    /\ Receives(k, "AUTH")
    /\ Answer(k, [Thread(k) EXCEPT !.auth = Request(k).ok], Status("AUTH_REPLY", Request(k).ok))
    /\ UNCHANGED <<dirVars, cl, login, bounds>>

\* LIST, GET or PUT of a connection that is not logged in: a text whose type is
\* what the stack holds, which may be an earlier thread's PUT_REPLY.
HandleRefused(k) ==
    /\ \E type \in {"LIST", "GET", "PUT"} : Receives(k, type)
    /\ ~th[k].auth
    /\ \E stale \in {"REFUSED", "PUT_REPLY"} : Answer(k, Thread(k), Plain(stale))
    /\ UNCHANGED <<dirVars, cl, login, bounds>>

HandleList(k) ==
    /\ Receives(k, "LIST") /\ th[k].auth
    /\ Answer(k, Thread(k), Plain("LIST_REPLY"))
    /\ UNCHANGED <<dirVars, cl, login, bounds>>

\* Wrong variants: the login is not asked for; the file is read from before its
\* start.
HandleGetUnchecked(k) ==
    /\ Receives(k, "GET")
    /\ LET f == Request(k).name
           found == f \in present \cup {Directory}
       IN  Answer(k, IF found THEN [Thread(k) EXCEPT !.pc = "getdata", !.name = f, !.pos = 0]
                              ELSE Thread(k),
                  Status("GET_REPLY", found))
    /\ UNCHANGED <<dirVars, cl, login, bounds>>

HandleGetFromBefore(k) ==
    /\ Receives(k, "GET") /\ th[k].auth
    /\ LET f == Request(k).name
           found == f \in present \cup {Directory}
       IN  Answer(k, IF found THEN [Thread(k) EXCEPT !.pc = "getdata", !.name = f, !.pos = -1]
                              ELSE Thread(k),
                  Status("GET_REPLY", found))
    /\ UNCHANGED <<dirVars, cl, login, bounds>>

\* fopen(.., "rb"), which also opens the directory itself.
HandleGet(k) ==
    /\ Receives(k, "GET") /\ th[k].auth
    /\ LET f == Request(k).name
           found == f \in present \cup {Directory}
       IN  Answer(k, IF found THEN [Thread(k) EXCEPT !.pc = "getdata", !.name = f, !.pos = 0]
                              ELSE Thread(k),
                  Status("GET_REPLY", found))
    /\ UNCHANGED <<dirVars, cl, login, bounds>>

\* Wrong variant: the message that ends the transfer is left out.
SendBlockNoEnd(k) ==
    /\ th[k].pc = "getdata"
    /\ LET contents == IF th[k].name \in Files THEN filedir[th[k].name] ELSE <<>>
           i == th[k].pos + 1
       IN  IF i <= Len(contents)
           THEN Answer(k, [th[k] EXCEPT !.pos = i], Data(contents[i]))
           ELSE th' = [th EXCEPT ![k].pc = "recv"] /\ UNCHANGED <<server, toCli, closed, reset>>
    /\ UNCHANGED <<toSrv, dirVars, cl, login, bounds>>

\* send_file_data: the next block of the file as it is now, or its end.
SendBlock(k) ==
    /\ th[k].pc = "getdata"
    /\ LET contents == IF th[k].name \in Files THEN filedir[th[k].name] ELSE <<>>
           i == th[k].pos + 1
       IN  IF i <= Len(contents)
           THEN Answer(k, [th[k] EXCEPT !.pos = i], Data(contents[i]))
           ELSE Answer(k, [th[k] EXCEPT !.pc = "recv"], Plain("END"))
    /\ UNCHANGED <<toSrv, dirVars, cl, login, bounds>>

HandlePut(k) ==
    /\ Receives(k, "PUT") /\ th[k].auth
    /\ Answer(k, [Thread(k) EXCEPT !.pc = "putopen", !.name = Request(k).name], Plain("PUT_REPLY"))
    /\ UNCHANGED <<dirVars, cl, login, bounds>>

\* Wrong variant: the file is opened for appending.
OpenForAppend(k) ==
    /\ th[k].pc = "putopen" /\ th[k].name \in Files \ Unwritable
    /\ present' = present \cup {th[k].name}
    /\ th' = [th EXCEPT ![k].pc = "putdata", ![k].pos = Len(filedir[th[k].name]),
                        ![k].data = NoMessage]
    /\ UNCHANGED <<server, filedir, cl, wire, login, bounds>>

\* recv_file_data: fopen(.., "wb") empties the file.
OpenForPut(k) ==
    /\ th[k].pc = "putopen" /\ th[k].name \in Files \ Unwritable
    /\ present' = present \cup {th[k].name}
    /\ filedir' = [filedir EXCEPT ![th[k].name] = <<>>]
    /\ th' = [th EXCEPT ![k].pc = "putdata", ![k].pos = 0, ![k].data = NoMessage]
    /\ UNCHANGED <<server, cl, wire, login, bounds>>

\* It fails on the directory itself, on a name in a directory that does not
\* exist and on a file that may not be written: exit(-1).
OpenForPutFails(k) ==
    /\ th[k].pc = "putopen" /\ th[k].name \notin Files \ Unwritable
    /\ ServerEnds
    /\ UNCHANGED <<dirVars, cl, wire, login, bounds>>

\* Wrong variant: every block goes to the end of the file.
WrittenAtEnd(contents, i, b) == Append(contents, b)

\* The contents after b was written as block i; what was never written is a hole.
Written(contents, i, b) ==
    [j \in 1..(IF i > Len(contents) THEN i ELSE Len(contents)) |->
        IF j = i THEN b ELSE IF j <= Len(contents) THEN contents[j] ELSE Hole]

\* fwrite at the thread's own place in the file.
StoreBlock(k, m) ==
    LET f == th[k].name
        i == th[k].pos + 1
    IN  /\ i <= MaxBlocks
        /\ filedir' = [filedir EXCEPT ![f] = Written(@, i, m.block)]
        /\ th' = [th EXCEPT ![k].pos = i, ![k].data = m]
        /\ UNCHANGED <<server, present>>

RecvBlock(k) ==
    /\ th[k].pc = "putdata" /\ toSrv[k] # <<>>
    /\ toSrv' = [toSrv EXCEPT ![k] = Tail(@)]
    /\ \/ Head(toSrv[k]).type = "DATA" /\ StoreBlock(k, Head(toSrv[k]))
       \/ /\ Head(toSrv[k]).type = "END"
          /\ th' = [th EXCEPT ![k].pc = "recv"]
          /\ UNCHANGED <<server, dirVars>>
    /\ UNCHANGED <<cl, toCli, closed, reset, login, bounds>>

(***************************************************************************)
(* The client is gone: recvn's 0 is taken for success and the message      *)
(* before is written once more.  Without one, data_message holds what the  *)
(* stack does: another type, which ends the process, or an earlier END.    *)
(***************************************************************************)
RecvNothing(k) ==
    /\ th[k].pc = "putdata" /\ toSrv[k] = <<>> /\ k \in closed
    /\ \/ th[k].data # NoMessage /\ StoreBlock(k, th[k].data)
       \/ th[k].data = NoMessage /\ ServerEnds /\ UNCHANGED dirVars
       \/ /\ th[k].data = NoMessage
          /\ th' = [th EXCEPT ![k].pc = "recv"]
          /\ UNCHANGED <<server, dirVars>>
    /\ UNCHANGED <<cl, wire, login, bounds>>

\* Wrong variant: the thread goes on after QUIT.
HandleQuitGoesOn(k) ==
    /\ Receives(k, "QUIT")
    /\ Answer(k, Thread(k), Plain("QUIT_REPLY"))
    /\ UNCHANGED <<dirVars, cl, login, bounds>>

HandleQuit(k) ==
    /\ Receives(k, "QUIT")
    /\ Answer(k, [Thread(k) EXCEPT !.pc = "ended"], Plain("QUIT_REPLY"))
    /\ UNCHANGED <<dirVars, cl, login, bounds>>

\* Any other type ends the thread, which leaves its socket open.
HandleUnknown(k) ==
    /\ Receives(k, "DATA") \/ Receives(k, "END")
    /\ th' = [th EXCEPT ![k] = [Thread(k) EXCEPT !.pc = "left"]]
    /\ UNCHANGED <<server, dirVars, cl, toCli, closed, reset, login, bounds>>

-----------------------------------------------------------------------------
(* The client: pc is "prompt", or the reply it waits for, or where it is.  *)

Sock(c) == cl[c].sock
OwnConns(c) == {<<c, i>> : i \in 1..used[c]}

\* The process ends, by itself or not; its sockets are closed.
ClientEnds(c, pc) ==
    /\ cl' = [cl EXCEPT ![c].pc = pc]
    /\ closed' = closed \cup OwnConns(c)

\* send: the client goes on as s.  See Answer.
Ask(c, s, m) ==
    \/ /\ th[Sock(c)].pc # "ended"
       /\ toSrv' = [toSrv EXCEPT ![Sock(c)] = Append(@, m)] /\ cl' = [cl EXCEPT ![c] = s]
       /\ UNCHANGED <<closed, reset>>
    \/ /\ th[Sock(c)].pc = "ended" /\ Sock(c) \notin reset
       /\ reset' = reset \cup {Sock(c)} /\ cl' = [cl EXCEPT ![c] = s]
       /\ UNCHANGED <<closed, toSrv>>
    \/ /\ th[Sock(c)].pc = "ended" /\ Sock(c) \in reset
       /\ ClientEnds(c, "killed")
       /\ UNCHANGED <<reset, toSrv>>

\* fgets returned a command, and the checks of connected and authenticated let
\* it pass.
Command(c, word) ==
    /\ cl[c].pc = "prompt" /\ word \in Commands /\ given[c] < MaxCommands
    /\ word \in {"auth", "badauth", "ls", "get", "put"} => cl[c].connected
    /\ word \in {"ls", "get", "put"} => cl[c].authenticated
    /\ given' = [given EXCEPT ![c] = @ + 1]

\* recv's result is ignored: without an answer the one before is still there.
Reply(c) == IF toCli[Sock(c)] # <<>> THEN Head(toCli[Sock(c)]) ELSE cl[c].reply

Gets(c, type) ==
    /\ cl[c].pc = type /\ (toCli[Sock(c)] # <<>> \/ th[Sock(c)].pc = "ended")
    /\ toCli' = IF toCli[Sock(c)] # <<>> THEN [toCli EXCEPT ![Sock(c)] = Tail(@)] ELSE toCli

Client(c) == [cl[c] EXCEPT !.reply = Reply(c)]

\* open: connect, with a new thread at the other end, and OPEN.  The old socket
\* stays open, and authenticated stays as it is.
Open(c) ==
    /\ Command(c, "open") /\ used[c] < MaxOpens /\ server
    /\ LET k == <<c, used[c] + 1>>
       IN  /\ cl' = [cl EXCEPT ![c].pc = "OPEN_REPLY", ![c].sock = k, ![c].connected = FALSE]
           /\ th' = [th EXCEPT ![k].pc = "recv"]
           /\ toSrv' = [toSrv EXCEPT ![k] = <<Plain("OPEN")>>]
    /\ used' = [used EXCEPT ![c] = @ + 1]
    /\ UNCHANGED <<server, dirVars, toCli, closed, reset, login>>

\* connect is refused, also at an address or port that is not the server's:
\* the client returns 1.
OpenRefused(c) ==
    /\ (Command(c, "open") /\ ~server) \/ Command(c, "badopen")
    /\ ClientEnds(c, "exited")
    /\ UNCHANGED <<server, dirVars, th, toSrv, toCli, reset, login, used>>

\* recv_message.status is never '0'.
OpenReply(c) ==
    /\ Gets(c, "OPEN_REPLY")
    /\ cl' = [cl EXCEPT ![c] = [Client(c) EXCEPT !.pc = "prompt", !.connected = TRUE]]
    /\ UNCHANGED <<server, dirVars, th, toSrv, closed, reset, login, bounds>>

\* open or auth with the wrong number of arguments.
Usage(c) ==
    /\ Command(c, "usage")
    /\ \/ cl' = [cl EXCEPT ![c].connected = FALSE]
       \/ cl[c].connected /\ cl' = [cl EXCEPT ![c].authenticated = FALSE]
    /\ UNCHANGED <<server, dirVars, th, wire, login, used>>

\* On the socket a failed login closed, send fails for ever.
AuthCommand(c) ==
    /\ \E good \in BOOLEAN :
          /\ Command(c, IF good THEN "auth" ELSE "badauth")
          /\ Sock(c) \notin closed
          /\ Ask(c, [cl[c] EXCEPT !.pc = "AUTH_REPLY", !.authenticated = FALSE], Auth(good))
          /\ login' = IF good THEN login \cup {Sock(c)} ELSE login
    /\ UNCHANGED <<server, dirVars, th, toCli, used>>

AuthReply(c) ==
    /\ Gets(c, "AUTH_REPLY") /\ Reply(c).type = "AUTH_REPLY"
    /\ cl' = [cl EXCEPT ![c] = [Client(c) EXCEPT !.pc = "prompt", !.authenticated = Reply(c).ok]]
    /\ closed' = IF Reply(c).ok THEN closed ELSE closed \cup {Sock(c)}
    /\ login' = IF Reply(c).ok THEN login ELSE login \ {Sock(c)}
    /\ UNCHANGED <<server, dirVars, th, toSrv, reset, bounds>>

Ls(c) ==
    /\ Command(c, "ls")
    /\ Ask(c, [cl[c] EXCEPT !.pc = "LIST_REPLY"], Plain("LIST"))
    /\ UNCHANGED <<server, dirVars, th, toCli, login, used>>

LsReply(c) ==
    /\ Gets(c, "LIST_REPLY") /\ Reply(c).type = "LIST_REPLY"
    /\ cl' = [cl EXCEPT ![c] = [Client(c) EXCEPT !.pc = "prompt"]]
    /\ UNCHANGED <<server, dirVars, th, toSrv, closed, reset, login, bounds>>

Get(c) ==
    /\ Command(c, "get")
    /\ \E f \in Files :
          Ask(c, [cl[c] EXCEPT !.pc = "GET_REPLY", !.name = f], Named("GET", f))
    /\ UNCHANGED <<server, dirVars, th, toCli, login, used>>

\* Wrong variant: the file is opened for appending.
GetReplyAppends(c) ==
    /\ Gets(c, "GET_REPLY") /\ Reply(c).type = "GET_REPLY"
    /\ \E w \in Writable :
          cl' = [cl EXCEPT ![c] = [Client(c) EXCEPT !.pc = IF Reply(c).ok /\ w THEN "download" ELSE "prompt"]]
    /\ UNCHANGED <<server, dirVars, th, toSrv, closed, reset, login, bounds>>

\* Without fopen the file's data stay in the socket.
GetReply(c) ==
    /\ Gets(c, "GET_REPLY") /\ Reply(c).type = "GET_REPLY"
    /\ \E w \in Writable :
          cl' = [cl EXCEPT ![c] = IF Reply(c).ok /\ w
                    THEN [Client(c) EXCEPT !.pc = "download", !.own[cl[c].name] = <<>>]
                    ELSE [Client(c) EXCEPT !.pc = "prompt"]]
    /\ UNCHANGED <<server, dirVars, th, toSrv, closed, reset, login, bounds>>

(***************************************************************************)
(* The client is so late that recv takes most of the first data message    *)
(* together with GET_REPLY.  What follows is read at the wrong place: the  *)
(* header is wrong, or too few bytes are left for one message.  Without    *)
(* fopen these bytes stay in the socket.                                   *)
(***************************************************************************)
GetReplyMerged(c) ==
    /\ ~Punctual /\ Gets(c, "GET_REPLY")
    /\ Reply(c).type = "GET_REPLY" /\ Reply(c).ok /\ Len(toCli[Sock(c)]) > 1
    /\ \E w \in Writable :
          LET short == toCli[Sock(c)][2].type = "END"
          IN  /\ cl' = [cl EXCEPT ![c] =
                    IF w THEN [@ EXCEPT !.pc = IF short THEN "starved" ELSE "aborted",
                                        !.own[cl[c].name] = <<>>]
                    ELSE [Client(c) EXCEPT !.pc = "prompt"]]
              /\ closed' = IF w /\ ~short THEN closed \cup OwnConns(c) ELSE closed
    /\ UNCHANGED <<server, dirVars, th, toSrv, reset, login, bounds>>

\* Wrong variant: the loop ends with the first message.
DownloadOne(c) ==
    /\ cl[c].pc = "download" /\ toCli[Sock(c)] # <<>>
    /\ LET m == Head(toCli[Sock(c)]) IN
       /\ m.type \in {"DATA", "END"}
       /\ cl' = [cl EXCEPT ![c] =
                    IF m.type = "END" THEN [@ EXCEPT !.pc = "prompt"]
                    ELSE [@ EXCEPT !.pc = "prompt", !.own[cl[c].name] = Append(@, m.block)]]
    /\ toCli' = [toCli EXCEPT ![Sock(c)] = Tail(@)]
    /\ UNCHANGED <<server, dirVars, th, toSrv, closed, reset, login, bounds>>

\* download_file
Download(c) ==
    /\ cl[c].pc = "download" /\ toCli[Sock(c)] # <<>>
    /\ LET m == Head(toCli[Sock(c)]) IN
       /\ m.type \in {"DATA", "END"}
       /\ cl' = [cl EXCEPT ![c] =
                    IF m.type = "END" THEN [cl[c] EXCEPT !.pc = "prompt"]
                    ELSE [cl[c] EXCEPT !.own[cl[c].name] = Append(@, m.block)]]
    /\ toCli' = [toCli EXCEPT ![Sock(c)] = Tail(@)]
    /\ UNCHANGED <<server, dirVars, th, toSrv, closed, reset, login, bounds>>

\* The server is gone: as in RecvNothing; the last block is written again and
\* again.
DownloadNothing(c) ==
    /\ cl[c].pc = "download" /\ toCli[Sock(c)] = <<>> /\ th[Sock(c)].pc = "ended"
    /\ LET f == cl[c].name
           contents == cl[c].own[f]
       IN  \/ /\ contents # <<>> /\ Len(contents) < MaxBlocks
              /\ cl' = [cl EXCEPT ![c].own[f] = Append(contents, contents[Len(contents)])]
              /\ UNCHANGED closed
           \/ contents = <<>> /\ ClientEnds(c, "aborted")
           \/ contents = <<>> /\ cl' = [cl EXCEPT ![c].pc = "prompt"] /\ UNCHANGED closed
    /\ UNCHANGED <<server, dirVars, th, toSrv, toCli, reset, login, bounds>>

Put(c) ==
    /\ Command(c, "put")
    /\ \E f \in Files :
          Ask(c, [cl[c] EXCEPT !.pc = "PUT_REPLY", !.name = f, !.pos = 0], Named("PUT", f))
    /\ UNCHANGED <<server, dirVars, th, toCli, login, used>>

PutReply(c) ==
    /\ Gets(c, "PUT_REPLY") /\ Reply(c).type = "PUT_REPLY"
    /\ cl' = [cl EXCEPT ![c] = [Client(c) EXCEPT !.pc = "upload"]]
    /\ UNCHANGED <<server, dirVars, th, toSrv, closed, reset, login, bounds>>

\* upload_file
Upload(c) ==
    /\ cl[c].pc = "upload"
    /\ LET contents == cl[c].own[cl[c].name]
           i == cl[c].pos + 1
       IN  IF i <= Len(contents)
           THEN Ask(c, [cl[c] EXCEPT !.pos = i], Data(contents[i]))
           ELSE Ask(c, [cl[c] EXCEPT !.pc = "prompt"], Plain("END"))
    /\ UNCHANGED <<server, dirVars, th, toCli, login, bounds>>

\* A reply of another type than the one waited for.
WrongHeader(c) ==
    /\ \E type \in {"AUTH_REPLY", "LIST_REPLY", "GET_REPLY", "PUT_REPLY"} :
          Gets(c, type) /\ Reply(c).type # type
    /\ ClientEnds(c, "aborted")
    /\ UNCHANGED <<server, dirVars, th, toSrv, reset, login, bounds>>

Quit(c) ==
    /\ Command(c, "quit")
    /\ IF cl[c].connected
       THEN Sock(c) \notin closed /\ Ask(c, [cl[c] EXCEPT !.pc = "QUIT_REPLY"], Plain("QUIT"))
       ELSE ClientEnds(c, "exited") /\ UNCHANGED <<toSrv, reset>>
    /\ UNCHANGED <<server, dirVars, th, toCli, login, used>>

QuitReply(c) ==
    /\ Gets(c, "QUIT_REPLY")
    /\ ClientEnds(c, "exited")
    /\ UNCHANGED <<server, dirVars, th, toSrv, reset, login, bounds>>

\* auth or quit on the socket a failed login closed: send fails for ever.
SendForEver(c) ==
    /\ cl[c].connected /\ Sock(c) \in closed
    /\ \E word \in {"auth", "badauth", "quit"} : Command(c, word)
    /\ cl' = [cl EXCEPT ![c].pc = "hung"]
    /\ UNCHANGED <<server, dirVars, th, wire, login, used>>

\* The README's "exit" is none of the commands.
BadCommand(c) ==
    /\ Command(c, "exit")
    /\ UNCHANGED <<server, dirVars, th, cl, wire, login, used>>

Kill(c) ==
    /\ Kills /\ cl[c].pc \notin {"exited", "aborted", "killed"}
    /\ ClientEnds(c, "killed")
    /\ UNCHANGED <<server, dirVars, th, toSrv, toCli, reset, login, bounds>>

-----------------------------------------------------------------------------
ThreadStep(k) ==
    \/ HandleOpen(k) \/ HandleAuth(k) \/ HandleRefused(k) \/ HandleList(k)
    \/ HandleGet(k) \/ SendBlock(k)
    \/ HandlePut(k) \/ OpenForPut(k) \/ OpenForPutFails(k) \/ RecvBlock(k) \/ RecvNothing(k)
    \/ HandleQuit(k) \/ HandleUnknown(k)

UserStep(c) ==
    \/ Open(c) \/ OpenRefused(c) \/ Usage(c) \/ AuthCommand(c) \/ Ls(c) \/ Get(c) \/ Put(c)
    \/ Quit(c) \/ SendForEver(c) \/ BadCommand(c) \/ Kill(c)

ClientStep(c) ==
    \/ OpenReply(c) \/ AuthReply(c) \/ LsReply(c)
    \/ GetReply(c) \/ GetReplyMerged(c) \/ Download(c) \/ DownloadNothing(c)
    \/ PutReply(c) \/ Upload(c) \/ WrongHeader(c) \/ QuitReply(c)

Next ==
    \/ \E k \in Conn : ThreadStep(k)
    \/ \E c \in Clients : UserStep(c) \/ ClientStep(c)

Spec == Init /\ [][Next]_vars

\* Threads and clients run; users need not do anything.
Fairness ==
    /\ \A k \in Conn : WF_vars(ThreadStep(k))
    /\ \A c \in Clients : WF_vars(ClientStep(c))

FairSpec == Spec /\ Fairness

-----------------------------------------------------------------------------
Name == Files \cup {"", Directory}
Message ==
    [type : RequestTypes \cup ReplyTypes \cup {"REFUSED", "DATA", "END", "none"},
     name : Name, ok : BOOLEAN, block : Blocks]

ThreadPc == {"none", "recv", "getdata", "putopen", "putdata", "ended", "left"}
ClientPc == {"prompt", "download", "upload", "hung", "starved", "exited", "aborted", "killed"}
            \cup ReplyTypes

\* The client did not come to the end of its command.
Lost == {"aborted", "killed", "hung", "starved"}

TypeOK ==
    /\ server \in BOOLEAN
    /\ present \subseteq Files /\ filedir \in [Files -> Seq(Blocks)]
    /\ th \in [Conn -> [pc : ThreadPc, auth : BOOLEAN, last : Message, name : Name,
                        pos : Nat, data : Message]]
    /\ cl \in [Clients -> [pc : ClientPc, sock : Conn \cup {NoConn}, connected : BOOLEAN,
                           authenticated : BOOLEAN, reply : Message, name : Name,
                           pos : Nat, own : [Files -> Seq(Blocks)]]]
    /\ toSrv \in [Conn -> Seq(Message)] /\ toCli \in [Conn -> Seq(Message)]
    /\ closed \subseteq Conn /\ reset \subseteq Conn /\ login \subseteq Conn
    /\ used \in [Clients -> 0..MaxOpens] /\ given \in [Clients -> 0..MaxCommands]

(***************************************************************************)
(* Nothing of filedir is read, written or on its way for a connection      *)
(* whose user did not send a right password, or has been refused since:    *)
(* not on a second connection either, though the client forgets to reset   *)
(* its own flag and asks.                                                  *)
(***************************************************************************)
NoFileWithoutLogin ==
    \A k \in Conn :
        \/ th[k].pc \in {"getdata", "putopen", "putdata"}
        \/ \E i \in DOMAIN toCli[k] : toCli[k][i].type \in {"LIST_REPLY", "DATA", "END"}
        => k \in login

(***************************************************************************)
(* A client that does not say "You haven't authenticated yet" is not       *)
(* refused: its authenticated is not ahead of its thread's, whatever was   *)
(* refused, forgotten or answered late.  The one exception is a connection *)
(* it opened anew, where authenticated is the old connection's, until a    *)
(* right password is sent there.                                           *)
(***************************************************************************)
ClientKnowsLogin ==
    \A c \in Clients :
        /\ server /\ cl[c].pc = "prompt" /\ cl[c].connected /\ cl[c].authenticated
        /\ used[c] = 1 \/ Sock(c) \in login
        => th[Sock(c)].auth

\* Requests and replies stay in step: while the server runs no client ends over
\* a wrong header.
NoWrongHeader == server => \A c \in Clients : cl[c].pc # "aborted"

\* A user who is logged in put a file the server cannot open.
FailedPut ==
    \E k \in Conn : th[k].auth /\ th[k].last.type = "PUT" /\ th[k].last.name \in Unwritable

\* What one client does never ends the server, which serves the others too,
\* but for a file it cannot open.
ServerSurvives == server \/ FailedPut

\* But for such a file it only ends when a client left without QUIT.
ServerEndsOnlyByLoss == server \/ FailedPut \/ \E k \in closed : th[k].last.type # "QUIT"

(***************************************************************************)
(* Block i of every file, whoever writes it at the same time, is somebody's*)
(* block i (or a hole); no transfer shifts or repeats a block, but for a   *)
(* download that the end of the server cut short.                          *)
(***************************************************************************)
InPlace(contents) == \A i \in DOMAIN contents : contents[i] = Hole \/ contents[i].at = i

\* c goes on to download f from a server that is gone, and nothing is left.
CutShort(c, f) ==
    ~server /\ cl[c].pc = "download" /\ cl[c].name = f /\ toCli[Sock(c)] = <<>>

BlocksInPlace ==
    /\ \A f \in Files : InPlace(filedir[f])
    /\ \A c \in Clients, f \in Files : InPlace(cl[c].own[f]) \/ CutShort(c, f)

\* A block is out of place only where a client was lost in the middle of a PUT.
MisplacedOnlyByLoss ==
    \A f \in Files :
        \/ InPlace(filedir[f]) \/ ~server
        \/ \E k \in closed : th[k].name = f /\ th[k].pc = "putdata"

(***************************************************************************)
(* One client's transfers over one connection are exact: when none is      *)
(* under way, a file of the server and a file of the client is a whole     *)
(* file somebody had, unless the client was lost, or so late that it is    *)
(* stuck, on the way.                                                      *)
(***************************************************************************)
WholeFile(contents) == \E by \in Clients \cup {Owner} : contents = Original(by)

TransfersExact ==
    /\ server /\ \A c \in Clients : used[c] <= 1 /\ cl[c].pc \notin Lost
    /\ \A k \in Conn : th[k].pc \in {"none", "recv", "ended"} /\ toSrv[k] = <<>> /\ toCli[k] = <<>>
    => /\ \A f \in present : WholeFile(filedir[f])
       /\ \A c \in Clients, f \in Files : cl[c].pc = "prompt" => WholeFile(cl[c].own[f])

(***************************************************************************)
(* Every command comes to its end, with the prompt or with the end of the  *)
(* client.  Four ways to be stuck are left: to send on the socket a        *)
(* refused login closed; to download from a server that is gone; to be so  *)
(* late that a message is read in the middle; and to ask a thread that     *)
(* ended over an unknown request but left its socket open.                 *)
(***************************************************************************)
Stuck(c) ==
    \/ cl[c].pc = "hung" /\ Sock(c) \in closed
    \/ cl[c].pc = "download" /\ ~server
    \/ cl[c].pc = "starved" /\ ~Punctual
    \/ Sock(c) # NoConn /\ th[Sock(c)].pc = "left"

CommandsEnd ==
    \A c \in Clients :
        (cl[c].pc # "prompt") ~> \/ cl[c].pc \in {"prompt", "exited", "aborted", "killed"}
                                \/ Stuck(c)
=============================================================================
