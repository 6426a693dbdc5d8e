------------------------------ MODULE DvRouter ------------------------------
(***************************************************************************)
(* The routers and the agent of Assignment 3 as handed in                  *)
(* (AutoTest/Handin/1900094810-WebLab3).  Every message travels on a TCP   *)
(* connection of its own, which waits in the listen queue of its target.   *)
(* A router takes one connection at a time, handles its message and, while *)
(* doing so, connects to its neighbours one after the other.               *)
(*                                                                         *)
(* Left out: dvCount, which is counted and reset but never read; sockets   *)
(* that cannot be created; the printing.  A message is written in the step *)
(* that connects.                                                          *)
(***************************************************************************)
EXTENDS Integers, Sequences, FiniteSets

CONSTANTS
    N,            \* routerCnt
    MaxCost,      \* MAX_COST
    Backlog,      \* connections a listen queue holds; connect waits for a place
    Topology,     \* costTable after ReadFiles: [Router -> [Router -> Int]]
    Updates,      \* the updates the user may ask for
    MaxCommands,  \* bound on the number of commands of the user
    Commands,     \* kinds of command the user gives
    Patient,      \* the user waits for the routers to settle, as test.py does
    Floor         \* for each pair of routers, a cost no route goes below

Router == 0..N-1
Table == [Router -> [Router -> Int]]

\* VALID_DV: everything else is no route
Valid(x) == x > 0 /\ x <= MaxCost

\* The costs of the link from r to s that ever hold, as far as they are a link.
LinkCosts(r, s) == {c \in {Topology[r][s]}
                          \cup {u.cost : u \in {w \in Updates : w.src = r /\ w.dest = s}} : Valid(c)}

ASSUME DvAssumption ==
    /\ N \in Nat \ {0} /\ MaxCost \in Nat /\ Backlog \in Nat \ {0} /\ MaxCommands \in Nat
    /\ Topology \in Table /\ \A r \in Router : Topology[r][r] = 0
    /\ Updates \subseteq {u \in [src : Router, dest : Router, cost : Int] : u.src # u.dest}
    /\ Commands \subseteq {"DV", "UPDATE", "SHOW", "RESET", "QUIT", "END"}
    /\ Patient \in BOOLEAN

\* Floor is consistent with every link: taking a link never beats the floor.
ASSUME FloorAssumption ==
    /\ Floor \in [Router -> [Router -> Nat]]
    /\ \A r \in Router : Floor[r][r] = 0
    /\ \A r, s, t \in Router : \A c \in LinkCosts(r, s) : Floor[r][t] <= c + Floor[s][t]

VARIABLES
    cost,      \* cost[r]: row r of router r's costTable
    nbr,       \* nbr[r]: the routers whose neighbour flag is set at r
    vec,       \* vec[r][s]: routers[s].dv at r; vec[r][r] is myRouter->dv
    nextHop,   \* nextHop[r]
    queue,     \* queue[r]: the messages waiting in r's listen queue
    sending,   \* sending[r]: the neighbours SendDV has still to connect to
    up,        \* the routers that run and listen
    started,   \* the routers that have come to listen
    missed,    \* history: somebody connected to a router that did not listen yet
    agent,     \* "ready", "await" (a reply to SHOW), "ended"
    job,       \* what the agent has still to deliver of its command
    issued,    \* number of commands given
    last       \* the last command that was UPDATE, DV or QUIT

tables == <<cost, nbr, vec, nextHop>>
agentVars == <<agent, job, issued, last>>
startVars == <<started, missed>>
vars == <<tables, queue, sending, up, startVars, agentVars>>

-----------------------------------------------------------------------------
(* Messages *)

Vector(r, v) == [type |-> "IRC", src |-> r, dv |-> v]
Update(dest, c) == [type |-> "UPDATE", dest |-> dest, cost |-> c]
Order(kind) == [type |-> kind]

Message == [type : {"IRC"}, src : Router, dv : [Router -> Int]]
           \cup [type : {"UPDATE"}, dest : Router, cost : Int]
           \cup [type : {"DV", "SHOW", "RESET", "QUIT"}]

-----------------------------------------------------------------------------
(* UpdateDV *)

\* The neighbours that know a way to "to".
Mids(nb, table, to) == {mid \in nb : Valid(table[mid][to])}

\* Wrong variant: the cost of the link to the neighbour is not added.
WaysWithoutLink(row, nb, table, to) ==
    {[d |-> row[to], hop |-> IF Valid(row[to]) THEN to ELSE 0, by |-> -1]}
    \cup {[d |-> table[mid][to], hop |-> mid, by |-> mid] : mid \in Mids(nb, table, to)}

(***************************************************************************)
(* The ways from a router to "to": its own link, or a neighbour that says  *)
(* it has a route.  "by" is the place in the loop that looks at it.        *)
(***************************************************************************)
Ways(row, nb, table, to) ==
    {[d |-> row[to], hop |-> IF Valid(row[to]) THEN to ELSE 0, by |-> -1]}
    \cup {[d |-> table[mid][to] + row[mid], hop |-> mid, by |-> mid] :
            mid \in Mids(nb, table, to)}

\* Wrong variant: of equal ways the last.
LastOfEqualWays(ways) ==
    LET valid == {w \in ways : Valid(w.d)}
    IN  IF valid = {} THEN CHOOSE w \in ways : \A x \in ways : x.by <= w.by
        ELSE CHOOSE w \in valid :
                \A x \in valid : w.d < x.d \/ (w.d = x.d /\ x.by <= w.by)

(***************************************************************************)
(* The way the loop ends with: the cheapest valid one, the first of equals.*)
(* A way that is not valid is replaced by any later one, so when there is  *)
(* no valid way it is the last.                                            *)
(***************************************************************************)
ChosenWay(ways) ==
    LET valid == {w \in ways : Valid(w.d)}
    IN  IF valid = {}
        THEN CHOOSE w \in ways : \A x \in ways : x.by <= w.by
        ELSE CHOOSE w \in valid :
                \A x \in valid : w.d < x.d \/ (w.d = x.d /\ w.by <= x.by)

\* Wrong variant: no route has no next hop, not even a default one.
BestOrNone(r, row, nb, table, to) ==
    IF to = r THEN [d |-> table[r][r], hop |-> r]
              ELSE LET w == ChosenWay(Ways(row, nb, table, to))
                   IN  [d |-> w.d, hop |-> IF Valid(w.d) THEN w.hop ELSE -1]

Best(r, row, nb, table, to) ==
    IF to = r THEN [d |-> table[r][r], hop |-> r]
              ELSE LET w == ChosenWay(Ways(row, nb, table, to)) IN [d |-> w.d, hop |-> w.hop]

\* Two distances that are not both "no route" differ.
Differ(v, w) == \E i \in Router : (Valid(v[i]) \/ Valid(w[i])) /\ v[i] # w[i]

(***************************************************************************)
(* UpdateDV at r, once r's row of costs, its neighbours and the table of   *)
(* vectors are those given.                                                *)
(***************************************************************************)
NewVector(r, row, nb, table) == [to \in Router |-> Best(r, row, nb, table, to).d]

UpdateDV(r, row, nb, table) ==
    /\ vec' = [vec EXCEPT ![r] = [table EXCEPT ![r] = NewVector(r, row, nb, table)]]
    /\ nextHop' = [nextHop EXCEPT ![r] = [to \in Router |-> Best(r, row, nb, table, to).hop]]

-----------------------------------------------------------------------------
(* Connections *)

\* connect() to t and send: t is listening and its queue has a place.
CanConnect(t) == t \in up /\ Len(queue[t]) < Backlog

\* Whether the refusal of a connection to t is one that comes too early.
Refused(t) == missed' = (missed \/ t \notin started) /\ UNCHANGED started

\* r's process ends: its connections are reset, also the one the agent waits on.
EndRouter(r) ==
    /\ up' = up \ {r}
    /\ queue' = [queue EXCEPT ![r] = <<>>]
    /\ sending' = [sending EXCEPT ![r] = {}]
    /\ agent' = IF agent = "await" /\ \E k \in DOMAIN queue[r] : queue[r][k].type = "SHOW"
                THEN "ended" ELSE agent

-----------------------------------------------------------------------------
(* The router's loop.  accept returns the first connection of the queue. *)

\* The row of r and what follows from it before any message.
InitRow(r) ==
    [s \in Router |->
        IF s = r THEN Topology[r]
        ELSE IF Valid(Topology[r][s]) THEN [i \in Router |-> IF i = s THEN 0 ELSE -1]
        ELSE [i \in Router |-> 0]]

Init ==
    /\ cost = Topology
    /\ nbr = [r \in Router |-> {s \in Router : Valid(Topology[r][s])}]
    /\ vec = [r \in Router |-> InitRow(r)]
    /\ nextHop = [r \in Router |-> [i \in Router |->
                    IF i = r \/ Valid(Topology[r][i]) THEN i ELSE 0]]
    /\ queue = [r \in Router |-> <<>>]
    /\ sending = [r \in Router |-> {}]
    /\ up = {} /\ started = {} /\ missed = FALSE
    /\ agent = "ready" /\ job = <<>> /\ issued = 0 /\ last = "none"

\* The files are read, and socket, bind and listen succeed: only now are
\* connections to r taken.
Start(r) ==
    /\ r \notin started
    /\ started' = started \cup {r} /\ up' = up \cup {r}
    /\ UNCHANGED <<tables, queue, sending, missed, agentVars>>

Accepts(r, kind) ==
    /\ r \in up /\ sending[r] = {}
    /\ queue[r] # <<>> /\ Head(queue[r]).type = kind

Dequeue(r) == queue' = [queue EXCEPT ![r] = Tail(@)]

\* A neighbour's vector: store it, recalculate, pass on what changed.
HandleVector(r) ==
    /\ Accepts(r, "IRC")
    /\ LET m == Head(queue[r])
           table == [vec[r] EXCEPT ![m.src] = m.dv]
       IN  /\ UpdateDV(r, cost[r], nbr[r], table)
           /\ sending' = [sending EXCEPT ![r] =
                            IF Differ(table[r], NewVector(r, cost[r], nbr[r], table))
                            THEN nbr[r] ELSE {}]
    /\ Dequeue(r)
    /\ UNCHANGED <<cost, nbr, up, startVars, agentVars>>

HandleDv(r) ==
    /\ Accepts(r, "DV")
    /\ sending' = [sending EXCEPT ![r] = nbr[r]]
    /\ Dequeue(r)
    /\ UNCHANGED <<tables, up, startVars, agentVars>>

\* Wrong variant: a link that goes down stays a neighbour.
HandleUpdateKeepsNeighbour(r) ==
    /\ Accepts(r, "UPDATE")
    /\ LET m == Head(queue[r])
           row == [cost[r] EXCEPT ![m.dest] = m.cost]
       IN  cost' = [cost EXCEPT ![r] = row] /\ UpdateDV(r, row, nbr[r], vec[r])
    /\ Dequeue(r)
    /\ UNCHANGED <<nbr, sending, up, startVars, agentVars>>

\* The agent's UPDATE changes the link and the own vector; nothing is sent.
HandleUpdate(r) ==
    /\ Accepts(r, "UPDATE")
    /\ LET m == Head(queue[r])
           row == [cost[r] EXCEPT ![m.dest] = m.cost]
           nb == IF Valid(m.cost) THEN nbr[r] \cup {m.dest} ELSE nbr[r] \ {m.dest}
       IN  /\ cost' = [cost EXCEPT ![r] = row]
           /\ nbr' = [nbr EXCEPT ![r] = nb]
           /\ UpdateDV(r, row, nb, vec[r])
    /\ Dequeue(r)
    /\ UNCHANGED <<sending, up, startVars, agentVars>>

\* The vector and the next hops go back to the agent, which prints them.
HandleShow(r) ==
    /\ Accepts(r, "SHOW")
    /\ agent' = "ready"
    /\ Dequeue(r)
    /\ UNCHANGED <<tables, sending, up, startVars, job, issued, last>>

HandleReset(r) ==
    /\ Accepts(r, "RESET")
    /\ Dequeue(r)
    /\ UNCHANGED <<tables, sending, up, startVars, agentVars>>

HandleQuit(r) ==
    /\ Accepts(r, "QUIT")
    /\ EndRouter(r)
    /\ UNCHANGED <<tables, startVars, job, issued, last>>

-----------------------------------------------------------------------------
(* SendDV: one neighbour after the other, in index order. *)

NextNeighbour(r) == CHOOSE t \in sending[r] : \A u \in sending[r] : t <= u

\* Wrong variants: the loop ends with the first neighbour; it never gets on to
\* the next.
SendToFirst(r) ==
    /\ sending[r] # {} /\ CanConnect(NextNeighbour(r))
    /\ queue' = [queue EXCEPT ![NextNeighbour(r)] = Append(@, Vector(r, vec[r][r]))]
    /\ sending' = [sending EXCEPT ![r] = {}]
    /\ UNCHANGED <<tables, up, startVars, agentVars>>

SendToNextAgain(r) ==
    /\ sending[r] # {} /\ CanConnect(NextNeighbour(r))
    /\ queue' = [queue EXCEPT ![NextNeighbour(r)] = Append(@, Vector(r, vec[r][r]))]
    /\ UNCHANGED <<tables, sending, up, startVars, agentVars>>

SendToNext(r) ==
    /\ sending[r] # {} /\ CanConnect(NextNeighbour(r))
    /\ LET t == NextNeighbour(r)
       IN  /\ queue' = [queue EXCEPT ![t] = Append(@, Vector(r, vec[r][r]))]
           /\ sending' = [sending EXCEPT ![r] = @ \ {t}]
    /\ UNCHANGED <<tables, up, startVars, agentVars>>

\* Wrong variant: a full queue is taken for a refusal.
SendRefusedWhenFull(r) ==
    /\ sending[r] # {} /\ ~CanConnect(NextNeighbour(r))
    /\ EndRouter(r) /\ Refused(NextNeighbour(r))
    /\ UNCHANGED <<tables, job, issued, last>>

\* connect is refused by a router that ended or does not listen yet; SendDV's -1
\* ends this one too.
SendRefused(r) ==
    /\ sending[r] # {} /\ NextNeighbour(r) \notin up
    /\ EndRouter(r) /\ Refused(NextNeighbour(r))
    /\ UNCHANGED <<tables, job, issued, last>>

-----------------------------------------------------------------------------
(* The agent *)

Settled ==
    /\ job = <<>> /\ agent # "await"
    /\ \A r \in Router : queue[r] = <<>> /\ sending[r] = {}

\* The user may give a command; GetCommand returns.
CanCommand(kind) ==
    /\ agent = "ready" /\ job = <<>>
    /\ kind \in Commands /\ issued < MaxCommands
    /\ Patient => Settled

\* Wrong variant: the last router of the list is not told.
ToAllButLast(m) == [k \in 1..N-1 |-> [to |-> k - 1, msg |-> m]]
ToAll(m) == [k \in 1..N |-> [to |-> k - 1, msg |-> m]]

CommandUpdate ==
    /\ CanCommand("UPDATE")
    /\ \E u \in Updates : job' = << [to |-> u.src, msg |-> Update(u.dest, u.cost)] >>
    /\ issued' = issued + 1 /\ last' = "UPDATE"
    /\ UNCHANGED <<tables, queue, sending, up, startVars, agent>>

CommandAll(kind) ==
    /\ CanCommand(kind)
    /\ job' = ToAll(Order(kind))
    /\ issued' = issued + 1 /\ last' = kind
    /\ UNCHANGED <<tables, queue, sending, up, startVars, agent>>

CommandOne(kind) ==
    /\ CanCommand(kind)
    /\ \E r \in Router : job' = << [to |-> r, msg |-> Order(kind)] >>
    /\ issued' = issued + 1
    /\ UNCHANGED <<tables, queue, sending, up, startVars, agent, last>>

\* The input ends, or is none of the commands: the agent ends, the routers do not.
EndOfInput ==
    /\ CanCommand("END")
    /\ agent' = "ended"
    /\ issued' = issued + 1
    /\ UNCHANGED <<tables, queue, sending, up, startVars, job, last>>

\* The agent connects to the next router; after the last QUIT it ends.
Deliver ==
    /\ agent = "ready" /\ job # <<>> /\ CanConnect(Head(job).to)
    /\ queue' = [queue EXCEPT ![Head(job).to] = Append(@, Head(job).msg)]
    /\ job' = Tail(job)
    /\ agent' = CASE Head(job).msg.type = "SHOW" -> "await"
                  [] Head(job).msg.type = "QUIT" /\ Tail(job) = <<>> -> "ended"
                  [] OTHER -> "ready"
    /\ UNCHANGED <<tables, sending, up, startVars, issued, last>>

\* A router that ended or does not listen yet refuses the connection, and the
\* agent ends.
DeliveryRefused ==
    /\ agent = "ready" /\ job # <<>> /\ Head(job).to \notin up
    /\ agent' = "ended" /\ job' = <<>> /\ Refused(Head(job).to)
    /\ UNCHANGED <<tables, queue, sending, up, issued, last>>

-----------------------------------------------------------------------------
Handle(r) ==
    \/ HandleVector(r) \/ HandleDv(r) \/ HandleUpdate(r)
    \/ HandleShow(r) \/ HandleReset(r) \/ HandleQuit(r)

RouterStep(r) == Handle(r) \/ SendToNext(r) \/ SendRefused(r)

AgentStep == Deliver \/ DeliveryRefused

UserStep ==
    \/ \E r \in Router : Start(r)
    \/ CommandUpdate
    \/ CommandAll("DV") \/ CommandAll("QUIT")
    \/ CommandOne("SHOW") \/ CommandOne("RESET") \/ EndOfInput

Next == UserStep \/ AgentStep \/ \E r \in Router : RouterStep(r)

Spec == Init /\ [][Next]_vars

\* The processes run; the user need not start any, nor give any command.
Fairness == WF_vars(AgentStep) /\ \A r \in Router : WF_vars(RouterStep(r))

FairSpec == Spec /\ Fairness

-----------------------------------------------------------------------------
TypeOK ==
    /\ cost \in Table
    /\ nbr \in [Router -> SUBSET Router]
    /\ vec \in [Router -> [Router -> [Router -> Int]]]
    /\ nextHop \in [Router -> [Router -> Router]]
    /\ queue \in [Router -> Seq(Message)]
    /\ sending \in [Router -> SUBSET Router]
    /\ up \subseteq started /\ started \subseteq Router /\ missed \in BOOLEAN
    /\ agent \in {"ready", "await", "ended"}
    /\ job \in Seq([to : Router, msg : Message])
    /\ issued \in 0..MaxCommands
    /\ last \in {"none", "UPDATE", "DV", "QUIT"}

\* The distance r has for s, and whether it is a route.
HasRoute(r, s) == r # s /\ Valid(vec[r][r][s])

(***************************************************************************)
(* Every route is explained by what its router knows now: it goes over a   *)
(* link that exists to its end, or to a neighbour whose last vector has a  *)
(* route, and costs just that.  Routes over a link that went down, or over *)
(* the old cost of one, would linger here.                                 *)
(***************************************************************************)
RoutesExplained ==
    \A r, s \in Router :
        HasRoute(r, s) =>
            LET hop == nextHop[r][s] IN
            /\ hop \in nbr[r] /\ Valid(cost[r][hop])
            /\ \/ hop = s /\ vec[r][r][s] = cost[r][s]
               \/ Valid(vec[r][hop][s]) /\ vec[r][r][s] = cost[r][hop] + vec[r][hop][s]

(***************************************************************************)
(* No router knows, advertises or is about to hear a route cheaper than    *)
(* the cheapest path over the cheapest costs the links ever had, in        *)
(* whatever order vectors and updates arrive.                              *)
(***************************************************************************)
SoundVector(s, v) == \A t \in Router : Valid(v[t]) => Floor[s][t] <= v[t]

NoPhantomRoute ==
    /\ \A r, s \in Router : SoundVector(s, vec[r][s])
    /\ \A r \in Router : \A k \in DOMAIN queue[r] :
          LET m == queue[r][k] IN m.type = "IRC" => SoundVector(m.src, m.dv)

-----------------------------------------------------------------------------
(* Reference: UpdateDV's inner loop, round by round *)

\* One round, for one destination; mid is the loop's variable.
LoopRound(r, to, way, mid) ==
    IF mid \notin nbr[r] \/ ~Valid(vec[r][mid][to]) THEN way
    ELSE IF ~Valid(way.d) \/ vec[r][mid][to] + cost[r][mid] < way.d
    THEN [d |-> vec[r][mid][to] + cost[r][mid], hop |-> mid]
    ELSE way

LoopResult(r, to) ==
    LET after[k \in 0..N] ==
            IF k = 0 THEN [d |-> cost[r][to], hop |-> IF Valid(cost[r][to]) THEN to ELSE 0]
            ELSE LoopRound(r, to, after[k-1], k - 1)
    IN  after[N]

(***************************************************************************)
(* At any time the vector and the next hops of a router are what the loops *)
(* of UpdateDV compute from its present links and its neighbours' vectors. *)
(***************************************************************************)
VectorsAreCurrent ==
    \A r, to \in Router :
        r # to => [d |-> vec[r][r][to], hop |-> nextHop[r][to]] = LoopResult(r, to)

-----------------------------------------------------------------------------
(* Reference: shortest paths over the present links, by number of links *)

Infinity == MaxCost + 1
Least(S) == CHOOSE x \in S : \A y \in S : x <= y

\* Paths of one link more than those that "within" measures.
OneMoreLink(within) ==
    [r \in Router |-> [s \in Router |->
        Least({within[r][s]} \cup {cost[r][m] + within[m][s] : m \in nbr[r]})]]

Within[k \in 0..N-1] ==
    IF k = 0 THEN [r \in Router |-> [s \in Router |-> IF r = s THEN 0 ELSE Infinity]]
    ELSE OneMoreLink(Within[k-1])

Distance == Within[N-1]

\* Both ends of every link were told of it.
LinksAgree == \A r, s \in Router : s \in nbr[r] <=> r \in nbr[s]

(***************************************************************************)
(* What the answer files of AutoTest/Test/TestCases expect of SHOW: once   *)
(* the routers settle after a DV command, every router has exactly the     *)
(* shortest paths up to MAX_COST and a next hop on one of them, whatever   *)
(* updates came before and in whatever order the vectors were handled.     *)
(***************************************************************************)
ShortestPaths ==
    \A r, s \in Router :
        r # s =>
          LET d == Distance[r][s] IN
          /\ HasRoute(r, s) <=> Valid(d)
          /\ Valid(d) => /\ vec[r][r][s] = d
                         /\ cost[r][nextHop[r][s]] + Distance[nextHop[r][s]][s] = d

SettledIsExact ==
    Settled /\ up = Router /\ ~missed /\ last = "DV" /\ LinksAgree => ShortestPaths

-----------------------------------------------------------------------------
(* Circles: routers each waiting in connect for a place in the listen queue *)
(* of the next, which will not accept before its own connect returns.       *)

WaitsFor(r, t) ==
    sending[r] # {} /\ t = NextNeighbour(r) /\ t \in up /\ Len(queue[t]) >= Backlog

NoConnectCircle ==
    \A S \in SUBSET Router \ {{}} : ~ \A r \in S : \E t \in S : WaitsFor(r, t)

(***************************************************************************)
(* A router's error ends it, and with it every router that connects to it; *)
(* but no router ends before the user says QUIT, unless some router was    *)
(* called before it listened.                                              *)
(***************************************************************************)
NobodyEndsUnasked == up = started \/ last = "QUIT" \/ missed

(***************************************************************************)
(* The exchange of vectors that a command or a lost route starts ends: the *)
(* counting up stops at MAX_COST.                                          *)
(***************************************************************************)
Settles == <>[]Settled

(***************************************************************************)
(* A user who does not wait can fill the queues.  Then the exchange ends   *)
(* too, or routers wait for each other in a circle; no process waits for   *)
(* ever for any other reason.                                              *)
(***************************************************************************)
SettlesOrCircle == <>[](Settled \/ ~NoConnectCircle)

\* QUIT ends every router, if all have listened when they were called.
QuitEndsAll == (last = "QUIT") ~> (up = {} \/ missed)
=============================================================================
