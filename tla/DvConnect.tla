----------------------------- MODULE DvConnect -----------------------------
(***************************************************************************)
(* How the routers and the agent of Assignment 3's earlier attempt         *)
(* (attemp/) start.  A router first waits for the agent's connection, then *)
(* goes through its neighbours: it connects to those with a higher index   *)
(* and waits for those with a lower one.  The first messages of the agent  *)
(* and of a router have the same number (RAC_CONN, IRC_CONN), so what      *)
(* accept returns is taken for whatever the router waits for.              *)
(*                                                                         *)
(* A connection is named by who called.  connect and the message that      *)
(* follows it are one step.  The listen queue (20) holds every caller      *)
(* there is (at most MAX_ROUTER - 1 routers and the agent).  The exchange  *)
(* of vectors and the commands but quit are left out.                      *)
(***************************************************************************)
EXTENDS Integers, Sequences, FiniteSets

CONSTANTS
    N,     \* routerCnt
    Links  \* sets of two routers, each the neighbour of the other

Router == 0..N-1
Agent == N
None == -1
Caller == Router \cup {Agent}

ASSUME ConnectAssumption ==
    /\ N \in Nat \ {0}
    /\ Links \subseteq {{r, s} : r, s \in Router}
    /\ \A r \in Router : {r} \notin Links

\* routers[s].neighbour at r
Nbr(r) == {s \in Router : {r, s} \in Links}

VARIABLES
    orderly,   \* the agent starts last and the routers let it connect to all first
    pc,        \* pc[r]: "off", "agent" and "links" (waits for), "ready", "ended", "refused"
    agentfd,   \* agentfd[r]: who called on the connection taken for the agent's
    routerfd,  \* routerfd[r][s]: who called on the connection taken for s's
    queue,     \* queue[r]: the callers in r's listen queue
    agent,     \* "up", "quit", "refused"
    told       \* the routers the agent has connected to: those below told

vars == <<orderly, pc, agentfd, routerfd, queue, agent, told>>

Init ==
    /\ orderly \in BOOLEAN
    /\ pc = [r \in Router |-> "off"]
    /\ agentfd = [r \in Router |-> None]
    /\ routerfd = [r \in Router |-> [s \in Router |-> None]]
    /\ queue = [r \in Router |-> <<>>]
    /\ agent = "up" /\ told = 0

Listening(r) == pc[r] \in {"agent", "links", "ready"}

\* main up to listen
Start(r) ==
    /\ pc[r] = "off"
    /\ pc' = [pc EXCEPT ![r] = "agent"]
    /\ UNCHANGED <<orderly, agentfd, routerfd, queue, agent, told>>

-----------------------------------------------------------------------------
(* The agent *)

AgentCalls ==
    /\ agent = "up" /\ told < N
    /\ orderly => \A r \in Router : pc[r] # "off"

\* Wrong variant: the list is gone through downwards.
AgentConnectDown ==
    /\ AgentCalls /\ Listening(told)
    /\ queue' = [queue EXCEPT ![told] = Append(@, Agent)]
    /\ told' = told - 1
    /\ UNCHANGED <<orderly, pc, agentfd, routerfd, agent>>

AgentConnect ==
    /\ AgentCalls /\ Listening(told)
    /\ queue' = [queue EXCEPT ![told] = Append(@, Agent)]
    /\ told' = told + 1
    /\ UNCHANGED <<orderly, pc, agentfd, routerfd, agent>>

\* The error of connect is not looked at, but send fails then.
AgentRefused ==
    /\ AgentCalls /\ ~Listening(told)
    /\ agent' = "refused"
    /\ UNCHANGED <<orderly, pc, agentfd, routerfd, queue, told>>

\* The command quit, or one that is not known.
AgentQuits ==
    /\ agent = "up" /\ told = N
    /\ agent' = "quit"
    /\ UNCHANGED <<orderly, pc, agentfd, routerfd, queue, told>>

-----------------------------------------------------------------------------
(* A router *)

\* Wrong variant: the last caller in the queue is accepted, not the first.
AcceptLast(r) ==
    /\ pc[r] = "agent" /\ queue[r] # <<>>
    /\ orderly => told = N
    /\ agentfd' = [agentfd EXCEPT ![r] = queue[r][Len(queue[r])]]
    /\ queue' = [queue EXCEPT ![r] = SubSeq(@, 1, Len(@) - 1)]
    /\ pc' = [pc EXCEPT ![r] = "links"]
    /\ UNCHANGED <<orderly, routerfd, agent, told>>

\* Whoever called first is the agent.
AcceptAgent(r) ==
    /\ pc[r] = "agent" /\ queue[r] # <<>>
    /\ orderly => told = N
    /\ agentfd' = [agentfd EXCEPT ![r] = Head(queue[r])]
    /\ queue' = [queue EXCEPT ![r] = Tail(@)]
    /\ pc' = [pc EXCEPT ![r] = "links"]
    /\ UNCHANGED <<orderly, routerfd, agent, told>>

\* The neighbours EstablishConnection has still to come to.
Missing(r) == {s \in Nbr(r) : routerfd[r][s] = None}

\* ConnectToRouter(i) is under way at r.
Establishes(r, i) ==
    /\ pc[r] = "links"
    /\ i \in Missing(r) /\ \A s \in Missing(r) : i <= s

ConnectLink(r) ==
    /\ \E i \in Router :
          /\ Establishes(r, i) /\ r < i /\ Listening(i)
          /\ queue' = [queue EXCEPT ![i] = Append(@, r)]
          /\ routerfd' = [routerfd EXCEPT ![r][i] = r]
    /\ UNCHANGED <<orderly, pc, agentfd, agent, told>>

\* connect is refused, and the router ends.
LinkRefused(r) ==
    /\ \E i \in Router : Establishes(r, i) /\ r < i /\ ~Listening(i)
    /\ pc' = [pc EXCEPT ![r] = "refused"]
    /\ UNCHANGED <<orderly, agentfd, routerfd, queue, agent, told>>

\* Who a CONN message says it is from: the agent's has 0 where src would be.
Src(caller) == IF caller = Agent THEN 0 ELSE caller

\* Wrong variants: the caller is taken for the neighbour waited for; a neighbour
\* that is not waited for is closed.
AcceptAsAwaited(r) ==
    /\ \E i \in Router :
          /\ Establishes(r, i) /\ i < r /\ queue[r] # <<>>
          /\ routerfd' = [routerfd EXCEPT ![r][i] = Head(queue[r])]
    /\ queue' = [queue EXCEPT ![r] = Tail(@)]
    /\ UNCHANGED <<orderly, pc, agentfd, agent, told>>

AcceptOnlyAwaited(r) ==
    /\ \E i \in Router :
          /\ Establishes(r, i) /\ i < r /\ queue[r] # <<>>
          /\ routerfd' = IF Head(queue[r]) = i THEN [routerfd EXCEPT ![r][i] = i] ELSE routerfd
    /\ queue' = [queue EXCEPT ![r] = Tail(@)]
    /\ UNCHANGED <<orderly, pc, agentfd, agent, told>>

\* A caller that is a neighbour is taken, awaited or not; another is closed.
AcceptLink(r) ==
    /\ \E i \in Router : Establishes(r, i) /\ i < r
    /\ queue[r] # <<>>
    /\ LET caller == Head(queue[r])
       IN  routerfd' = IF Src(caller) \in Nbr(r)
                       THEN [routerfd EXCEPT ![r][Src(caller)] = caller]
                       ELSE routerfd
    /\ queue' = [queue EXCEPT ![r] = Tail(@)]
    /\ UNCHANGED <<orderly, pc, agentfd, agent, told>>

Ready(r) ==
    /\ pc[r] = "links" /\ Missing(r) = {}
    /\ pc' = [pc EXCEPT ![r] = "ready"]
    /\ UNCHANGED <<orderly, agentfd, routerfd, queue, agent, told>>

\* Wrong variant: the agent closes all connections but the last.
AgentGoneButLast(r) == r < N - 1 /\ agentfd[r] = Agent /\ agent # "up"

\* The other end of what is taken for the agent's connection was closed.
AgentGone(r) ==
    IF agentfd[r] = Agent THEN agent # "up" ELSE pc[agentfd[r]] \in {"ended", "refused"}

EndWithAgent(r) ==
    /\ pc[r] = "ready" /\ AgentGone(r)
    /\ pc' = [pc EXCEPT ![r] = "ended"]
    /\ UNCHANGED <<orderly, agentfd, routerfd, queue, agent, told>>

-----------------------------------------------------------------------------
RouterStep(r) ==
    \/ Start(r) \/ AcceptAgent(r) \/ ConnectLink(r) \/ LinkRefused(r)
    \/ AcceptLink(r) \/ Ready(r) \/ EndWithAgent(r)

Next == AgentConnect \/ AgentRefused \/ AgentQuits \/ \E r \in Router : RouterStep(r)

Spec == Init /\ [][Next]_vars

\* Every process is started and runs; the user need not quit.
Fairness ==
    /\ WF_vars(AgentConnect \/ AgentRefused)
    /\ \A r \in Router : WF_vars(RouterStep(r))

FairSpec == Spec /\ Fairness

-----------------------------------------------------------------------------
TypeOK ==
    /\ orderly \in BOOLEAN
    /\ pc \in [Router -> {"off", "agent", "links", "ready", "ended", "refused"}]
    /\ agentfd \in [Router -> Caller \cup {None}]
    /\ routerfd \in [Router -> [Router -> Caller \cup {None}]]
    /\ queue \in [Router -> Seq(Caller)]
    /\ agent \in {"up", "quit", "refused"}
    /\ told \in 0..N

\* A router has taken another one for the agent.
Mistaken == \E r \in Router : agentfd[r] \in Router

Refused == agent = "refused" \/ \E r \in Router : pc[r] = "refused"

(***************************************************************************)
(* When the agent may connect to every router before any of them goes on,  *)
(* all take it for the agent, whoever else is in their queues by then, and *)
(* nobody is refused, not even when the agent quits while links are still  *)
(* being made.                                                             *)
(***************************************************************************)
OrderlyStartIsSafe == orderly => ~Mistaken /\ ~Refused

(***************************************************************************)
(* The two ends of a link hold the same connection, the one the router     *)
(* with the lower index made, when the other knows its agent; however the  *)
(* start went for the rest.                                                *)
(***************************************************************************)
LinkEndsMatch ==
    \A r, s \in Router :
        /\ {r, s} \in Links /\ r < s /\ agentfd[s] = Agent
        /\ pc[r] = "ready" /\ pc[s] = "ready"
        => routerfd[r][s] = r /\ routerfd[s][r] = r

(***************************************************************************)
(* No routers wait for each other for ever: unless one mistook a caller or *)
(* was refused, or the agent quits, all get ready.                         *)
(***************************************************************************)
EveryoneGetsReady ==
    <>(\/ \A r \in Router : pc[r] = "ready"
       \/ Mistaken \/ Refused \/ agent = "quit")

\* quit ends every router, also those that are still making their links.
QuitEndsAll ==
    (agent = "quit") ~> (Mistaken \/ Refused \/ \A r \in Router : pc[r] = "ended")
=============================================================================
