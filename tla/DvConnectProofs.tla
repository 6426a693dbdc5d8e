--------------------------- MODULE DvConnectProofs ---------------------------
(***************************************************************************)
(* Proofs about the start of the earlier attempt's routers, for every      *)
(* number of routers and every set of links.  The invariant says what the  *)
(* queues hold: the agent's one call, and calls of lower routers, which    *)
(* the callers remember.                                                   *)
(***************************************************************************)
EXTENDS DvConnect, TLAPS

\* What r holds of its neighbours before and after it made its links.
Stages ==
    \A r \in Router :
        /\ pc[r] \in {"off", "agent"} <=> agentfd[r] = None
        /\ pc[r] \in {"off", "agent"} => \A s \in Router : routerfd[r][s] = None
        /\ pc[r] \in {"ready", "ended"} => Missing(r) = {}

\* Calls go to higher routers, and the caller remembers them.
Calls ==
    /\ \A r, s \in Router : r < s => routerfd[r][s] \in {None, r}
    /\ \A s \in Router : \A k \in 1..Len(queue[s]) :
          queue[s][k] # Agent =>
              queue[s][k] < s /\ routerfd[queue[s][k]][s] = queue[s][k]

\* The agent calls every router once.
OneCall ==
    \A s \in Router :
        /\ \A k \in 1..Len(queue[s]) :
              queue[s][k] = Agent =>
                  /\ s < told /\ agentfd[s] # Agent
                  /\ \A j \in 1..Len(queue[s]) : queue[s][j] = Agent => j = k
        /\ agentfd[s] = Agent => s < told

\* A router that knows its agent takes only r's call for r.
KnownLinks ==
    \A r, s \in Router :
        r < s /\ agentfd[s] = Agent /\ routerfd[s][r] # None =>
            routerfd[s][r] = r /\ routerfd[r][s] = r

InOrder ==
    orderly =>
        /\ told < N => \A r \in Router : pc[r] \in {"off", "agent"}
        /\ told > 0 => \A r \in Router : pc[r] # "off"
        /\ \A r \in Router :
              /\ r < told /\ pc[r] = "agent" => queue[r] # <<>> /\ Head(queue[r]) = Agent
              /\ r >= told => queue[r] = <<>>
              /\ agentfd[r] \in {None, Agent}
              /\ pc[r] # "refused"
        /\ agent # "refused"

IInv == TypeOK /\ Stages /\ Calls /\ OneCall /\ KnownLinks /\ InOrder

-----------------------------------------------------------------------------
LEMMA Numbers == /\ N \in Nat \ {0} /\ Agent \notin Router /\ None \notin Caller
                 /\ Router \subseteq Nat /\ None # Agent /\ Agent \in Caller
                 /\ \A r \in Router : r \in Caller /\ r < N
  BY ConnectAssumption DEF Router, Agent, None, Caller

LEMMA NbrFacts ==
  \A r, s \in Router : (s \in Nbr(r) <=> {r, s} \in Links) /\ (s \in Nbr(r) <=> r \in Nbr(s))
  <1>1. \A r, s \in Router : {r, s} = {s, r}
    OBVIOUS
  <1> QED BY <1>1 DEF Nbr

\* What a step does to pc[r] alone shows in Stages only at r.
LEMMA StagesStep ==
  ASSUME Stages, NEW r \in Router,
         UNCHANGED <<agentfd, routerfd>>,
         \A s \in Router : s # r => pc'[s] = pc[s],
         pc[r] \notin {"off", "agent"}, pc'[r] \notin {"off", "agent"},
         pc'[r] \in {"ready", "ended"} => Missing(r) = {}
  PROVE  Stages'
  <1>1. \A s \in Router : Missing(s)' = Missing(s)
    BY DEF Missing
  <1>2. ASSUME NEW s \in Router
        PROVE  /\ pc'[s] \in {"off", "agent"} <=> agentfd'[s] = None
               /\ pc'[s] \in {"off", "agent"} => \A t \in Router : routerfd'[s][t] = None
               /\ pc'[s] \in {"ready", "ended"} => Missing(s)' = {}
    <2>1. CASE s = r
      BY <1>1, <2>1 DEF Stages
    <2>2. CASE s # r
      BY <1>1, <2>2 DEF Stages
    <2> QED BY <2>1, <2>2
  <1> QED BY <1>2 DEF Stages

\* What is left of a queue when its first caller is accepted.
LEMMA OneCallStep ==
  ASSUME TypeOK, OneCall, NEW r \in Router, told' = told,
         \A s \in Router : s # r => queue'[s] = queue[s] /\ agentfd'[s] = agentfd[s],
         Len(queue'[r]) \in Nat, Len(queue[r]) \in Nat, 1 \in 1..Len(queue[r]),
         \A k \in 1..Len(queue'[r]) : k + 1 \in 1..Len(queue[r]) /\ queue'[r][k] = queue[r][k+1],
         agentfd'[r] \in {agentfd[r], queue[r][1]}
  PROVE  OneCall'
  <1>1. ASSUME NEW s \in Router, s # r
        PROVE  /\ \A k \in 1..Len(queue'[s]) : queue'[s][k] = Agent =>
                     /\ s < told /\ agentfd'[s] # Agent
                     /\ \A j \in 1..Len(queue'[s]) : queue'[s][j] = Agent => j = k
               /\ agentfd'[s] = Agent => s < told
    BY <1>1 DEF OneCall
  <1>2. ASSUME NEW k \in 1..Len(queue'[r]), queue'[r][k] = Agent
        PROVE  /\ r < told /\ agentfd'[r] # Agent
               /\ \A j \in 1..Len(queue'[r]) : queue'[r][j] = Agent => j = k
    <2>1. k \in Nat /\ k >= 1 /\ k + 1 \in 1..Len(queue[r]) /\ queue[r][k+1] = Agent
      BY <1>2
    <2>2. r < told /\ agentfd[r] # Agent
      BY <2>1 DEF OneCall
    <2>3. \A j \in 1..Len(queue[r]) : queue[r][j] = Agent => j = k + 1
      BY <2>1 DEF OneCall
    <2>4. queue[r][1] # Agent
      BY <2>1, <2>3
    <2>5. \A j \in 1..Len(queue'[r]) : queue'[r][j] = Agent => j = k
      BY <2>1, <2>3
    <2> QED BY <2>2, <2>4, <2>5
  <1>3. agentfd'[r] = Agent => r < told
    BY DEF OneCall
  <1> QED BY <1>1, <1>2, <1>3 DEF OneCall

LEMMA InitInv == Init => IInv
  <1> SUFFICES ASSUME Init PROVE IInv
    OBVIOUS
  <1> USE Numbers DEF Init
  <1>1. TypeOK
    BY DEF TypeOK
  <1>2. Stages
    BY DEF Stages
  <1>3. Calls
    BY DEF Calls
  <1>4. OneCall
    BY DEF OneCall
  <1>5. KnownLinks
    BY DEF KnownLinks
  <1>6. InOrder
    BY DEF InOrder
  <1> QED BY <1>1, <1>2, <1>3, <1>4, <1>5, <1>6 DEF IInv

LEMMA StepInv == IInv /\ [Next]_vars => IInv'
  <1> SUFFICES ASSUME IInv, [Next]_vars PROVE IInv'
    OBVIOUS
  <1> USE Numbers DEF IInv
  <1>1. CASE AgentConnect
    <2> USE <1>1 DEF AgentConnect, AgentCalls, Listening
    <2>0. told \in Router
      BY DEF TypeOK, Router
    <2>q. /\ \A s \in Router : s # told => queue'[s] = queue[s]
          /\ queue'[told] = Append(queue[told], Agent)
          /\ Len(queue'[told]) = Len(queue[told]) + 1
          /\ queue'[told][Len(queue[told]) + 1] = Agent
          /\ \A k \in 1..Len(queue[told]) : queue'[told][k] = queue[told][k]
          /\ queue[told] = <<>> => Head(queue'[told]) = Agent /\ queue'[told] # <<>>
      BY <2>0 DEF TypeOK
    <2>1. TypeOK'
      BY <2>0 DEF TypeOK
    <2>2. Stages'
      BY DEF Stages, Missing
    <2>3. Calls'
      BY <2>q, <2>0 DEF Calls, TypeOK
    <2>4. OneCall'
      BY <2>q, <2>0 DEF OneCall, TypeOK
    <2>5. KnownLinks'
      BY DEF KnownLinks
    <2>6. InOrder'
      BY <2>q, <2>0 DEF InOrder, TypeOK
    <2> QED BY <2>1, <2>2, <2>3, <2>4, <2>5, <2>6
  <1>2. CASE AgentRefused
    <2> USE <1>2 DEF AgentRefused, AgentCalls, Listening
    <2>0. told \in Router
      BY DEF TypeOK, Router
    <2>1. TypeOK' /\ Stages' /\ Calls' /\ OneCall' /\ KnownLinks'
      BY DEF TypeOK, Stages, Missing, Calls, OneCall, KnownLinks
    <2>2. InOrder'
      BY <2>0 DEF InOrder
    <2> QED BY <2>1, <2>2
  <1>3. CASE AgentQuits
    BY <1>3 DEF AgentQuits, TypeOK, Stages, Missing, Calls, OneCall, KnownLinks, InOrder
  <1>4. ASSUME NEW r \in Router, Start(r) PROVE IInv'
    <2> USE <1>4 DEF Start
    <2>1. TypeOK' /\ Calls' /\ OneCall' /\ KnownLinks'
      BY DEF TypeOK, Calls, OneCall, KnownLinks
    <2>2. Stages'
      BY DEF TypeOK, Stages, Missing
    <2>3. InOrder'
      BY DEF TypeOK, InOrder
    <2> QED BY <2>1, <2>2, <2>3
  <1>5. ASSUME NEW r \in Router, AcceptAgent(r) PROVE IInv'
    <2> USE <1>5 DEF AcceptAgent
    <2>q. /\ \A s \in Router : s # r => queue'[s] = queue[s]
          /\ Len(queue'[r]) = Len(queue[r]) - 1 /\ Len(queue[r]) >= 1
          /\ \A k \in 1..Len(queue'[r]) : k + 1 \in 1..Len(queue[r]) /\ queue'[r][k] = queue[r][k+1]
          /\ Head(queue[r]) = queue[r][1] /\ Head(queue[r]) \in Caller
          /\ queue'[r] \in Seq(Caller)
          /\ 1 \in 1..Len(queue[r])
      BY DEF TypeOK
    <2>a. /\ agentfd'[r] = Head(queue[r]) /\ \A s \in Router : s # r => agentfd'[s] = agentfd[s]
          /\ pc'[r] = "links" /\ \A s \in Router : s # r => pc'[s] = pc[s]
      BY DEF TypeOK
    <2>1. TypeOK'
      BY <2>q DEF TypeOK
    <2>2. Stages'
      BY <2>a, <2>q DEF TypeOK, Stages, Missing
    <2>3. Calls'
      <3>1. /\ UNCHANGED routerfd
            /\ \A s \in Router : \A k \in 1..Len(queue'[s]) :
                  \E j \in 1..Len(queue[s]) : queue'[s][k] = queue[s][j]
        <4>1. ASSUME NEW s \in Router, NEW k \in 1..Len(queue'[s])
              PROVE  \E j \in 1..Len(queue[s]) : queue'[s][k] = queue[s][j]
          <5>1. CASE s = r
            BY <2>q, <5>1
          <5>2. CASE s # r
            BY <2>q, <5>2
          <5> QED BY <5>1, <5>2
        <4> QED BY <4>1
      <3> HIDE DEF AcceptAgent
      <3>2. \A s, t \in Router : s < t => routerfd'[s][t] \in {None, s}
        BY <3>1 DEF Calls
      <3>3. ASSUME NEW s \in Router, NEW k \in 1..Len(queue'[s]), queue'[s][k] # Agent
            PROVE  queue'[s][k] < s /\ routerfd'[queue'[s][k]][s] = queue'[s][k]
        <4>1. PICK j \in 1..Len(queue[s]) : queue'[s][k] = queue[s][j]
          BY <3>1
        <4>2. queue[s][j] < s /\ routerfd[queue[s][j]][s] = queue[s][j]
          BY <4>1, <3>3 DEF Calls
        <4> QED BY <4>1, <4>2, <3>1
      <3> QED BY <3>2, <3>3 DEF Calls
    <2>4. OneCall'
      <3>1. Len(queue'[r]) \in Nat /\ Len(queue[r]) \in Nat
        BY <2>q DEF TypeOK
      <3> QED BY <3>1, <2>q, <2>a, OneCallStep
    <2>5. KnownLinks'
      BY <2>a DEF KnownLinks, Stages
    <2>6. InOrder'
      BY <2>q, <2>a DEF InOrder, TypeOK, Stages
    <2> QED BY <2>1, <2>2, <2>3, <2>4, <2>5, <2>6
  <1>6. ASSUME NEW r \in Router, ConnectLink(r) PROVE IInv'
    <2>0. PICK i \in Router :
            /\ Establishes(r, i) /\ r < i /\ Listening(i)
            /\ queue' = [queue EXCEPT ![i] = Append(@, r)]
            /\ routerfd' = [routerfd EXCEPT ![r][i] = r]
      BY <1>6 DEF ConnectLink
    <2>p. UNCHANGED <<orderly, pc, agentfd, agent, told>> /\ pc[r] = "links"
      BY <1>6, <2>0 DEF ConnectLink, Establishes
    <2>q. /\ \A s \in Router : s # i => queue'[s] = queue[s]
          /\ queue'[i] = Append(queue[i], r) /\ queue'[i] \in Seq(Caller)
          /\ Len(queue'[i]) = Len(queue[i]) + 1
          /\ queue'[i][Len(queue[i]) + 1] = r
          /\ \A k \in 1..Len(queue[i]) : queue'[i][k] = queue[i][k]
          /\ queue[i] # <<>> => Head(queue'[i]) = Head(queue[i]) /\ queue'[i] # <<>>
      BY <2>0 DEF TypeOK
    <2>r. /\ routerfd'[r][i] = r
          /\ \A s, t \in Router : s # r \/ t # i => routerfd'[s][t] = routerfd[s][t]
      BY <2>0 DEF TypeOK
    <2>1. TypeOK'
      BY <2>0, <2>p, <2>q DEF TypeOK
    <2>2. Stages'
      <3>1. ASSUME NEW s \in Router
            PROVE  /\ pc[s] \in {"off", "agent"} => \A t \in Router : routerfd'[s][t] = None
                   /\ pc[s] \in {"ready", "ended"} => Missing(s)' = {}
        <4>1. CASE s = r
          BY <2>p, <4>1
        <4>2. CASE s # r
          <5>1. \A t \in Router : routerfd'[s][t] = routerfd[s][t]
            BY <2>r, <4>2
          <5>2. Missing(s)' = Missing(s)
            BY <5>1 DEF Missing, Nbr
          <5> QED BY <5>1, <5>2 DEF Stages
        <4> QED BY <4>1, <4>2
      <3> QED BY <2>p, <3>1 DEF Stages
    <2>3. Calls'
      <3>0. \A s \in Router : Len(queue[s]) \in Nat
        BY DEF TypeOK
      <3>1. ASSUME NEW s \in Router, NEW t \in Router, s < t
            PROVE  routerfd'[s][t] \in {None, s}
        <4>1. routerfd[s][t] \in {None, s}
          BY <3>1 DEF Calls
        <4>2. CASE s = r /\ t = i
          BY <4>2, <2>r
        <4>3. CASE s # r \/ t # i
          BY <4>1, <4>3, <2>r
        <4> QED BY <4>2, <4>3
      <3>2. ASSUME NEW s \in Router, NEW k \in 1..Len(queue[s]), queue[s][k] # Agent
            PROVE  queue[s][k] < s /\ routerfd'[queue[s][k]][s] = queue[s][k]
        <4>1. queue[s][k] < s /\ routerfd[queue[s][k]][s] = queue[s][k]
          BY <3>2 DEF Calls
        <4>2. queue[s][k] \in Router
          BY <3>2 DEF TypeOK, Caller
        <4> QED BY <4>1, <4>2, <2>r
      <3>3. ASSUME NEW s \in Router, NEW k \in 1..Len(queue'[s]), queue'[s][k] # Agent
            PROVE  queue'[s][k] < s /\ routerfd'[queue'[s][k]][s] = queue'[s][k]
        <4>1. CASE s = i /\ k = Len(queue[i]) + 1
          BY <4>1, <2>q, <2>r, <2>0
        <4>2. CASE s # i \/ k # Len(queue[i]) + 1
          <5>1. k \in 1..Len(queue[s]) /\ queue'[s][k] = queue[s][k]
            BY <4>2, <2>q, <3>0
          <5> QED BY <5>1, <3>2, <3>3
        <4> QED BY <4>1, <4>2
      <3> QED BY <3>1, <3>3 DEF Calls
    <2>4. OneCall'
      <3>0. \A s \in Router : Len(queue[s]) \in Nat
        BY DEF TypeOK
      <3>1. \A s \in Router : \A k \in 1..Len(queue'[s]) :
              queue'[s][k] = Agent => k \in 1..Len(queue[s]) /\ queue[s][k] = Agent
        <4> SUFFICES ASSUME NEW s \in Router, NEW k \in 1..Len(queue'[s]), queue'[s][k] = Agent
                     PROVE  k \in 1..Len(queue[s]) /\ queue[s][k] = Agent
          OBVIOUS
        <4>1. CASE s # i
          BY <4>1, <2>q
        <4>2. CASE s = i
          <5>1. k # Len(queue[i]) + 1
            BY <4>2, <2>q
          <5>2. k \in 1..Len(queue[i])
            BY <5>1, <4>2, <2>q, <3>0
          <5> QED BY <5>2, <4>2, <2>q
        <4> QED BY <4>1, <4>2
      <3> QED BY <2>p, <3>1 DEF OneCall
    <2>5. KnownLinks'
      <3> SUFFICES ASSUME NEW t \in Router, NEW s \in Router,
                          t < s, agentfd[s] = Agent, routerfd'[s][t] # None
                   PROVE  routerfd'[s][t] = t /\ routerfd'[t][s] = t
        BY <2>p DEF KnownLinks
      <3>1. routerfd'[s][t] = routerfd[s][t]
        BY <2>r, <2>0
      <3>2. routerfd[s][t] = t /\ routerfd[t][s] = t
        BY <3>1 DEF KnownLinks
      <3> QED BY <3>1, <3>2, <2>r
    <2>6. InOrder'
      BY <2>p, <2>q DEF InOrder, TypeOK
    <2> QED BY <2>1, <2>2, <2>3, <2>4, <2>5, <2>6
  <1>7. ASSUME NEW r \in Router, LinkRefused(r) PROVE IInv'
    <2>0. PICK i \in Router : Establishes(r, i) /\ r < i /\ ~Listening(i)
      BY <1>7 DEF LinkRefused
    <2>p. /\ UNCHANGED <<orderly, agentfd, routerfd, queue, agent, told>>
          /\ pc[r] = "links" /\ pc' = [pc EXCEPT ![r] = "refused"]
          /\ i \in Nbr(r) /\ routerfd[r][i] = None
      BY <1>7, <2>0 DEF LinkRefused, Establishes, Missing
    <2>1. TypeOK' /\ Calls' /\ OneCall' /\ KnownLinks'
      BY <2>p DEF TypeOK, Calls, OneCall, KnownLinks
    <2>2. Stages'
      <3>1. pc'[r] = "refused" /\ \A s \in Router : s # r => pc'[s] = pc[s]
        BY <2>p DEF TypeOK
      <3> QED BY <2>p, <3>1, StagesStep
    <2>3. InOrder'
      <3> SUFFICES ASSUME orderly PROVE FALSE
        BY <2>p DEF InOrder
      <3>1. told = N /\ pc[i] = "ended"
        BY <2>0, <2>p DEF InOrder, TypeOK, Listening
      <3>2. agentfd[i] = Agent
        BY <3>1 DEF InOrder, Stages
      <3>3. routerfd[i][r] # None
        BY <3>1, <2>p, NbrFacts DEF Stages, Missing
      <3> QED BY <3>2, <3>3, <2>0, <2>p DEF KnownLinks
    <2> QED BY <2>1, <2>2, <2>3
  <1>8. ASSUME NEW r \in Router, AcceptLink(r) PROVE IInv'
    <2> DEFINE c == Head(queue[r])
    <2>0. /\ pc[r] = "links" /\ r > 0 /\ queue[r] # <<>>
          /\ queue' = [queue EXCEPT ![r] = Tail(@)]
          /\ routerfd' = IF Src(c) \in Nbr(r) THEN [routerfd EXCEPT ![r][Src(c)] = c] ELSE routerfd
          /\ UNCHANGED <<orderly, pc, agentfd, agent, told>>
      BY <1>8 DEF AcceptLink, Establishes, Router
    <2>q. /\ \A s \in Router : s # r => queue'[s] = queue[s]
          /\ Len(queue'[r]) = Len(queue[r]) - 1 /\ Len(queue[r]) >= 1
          /\ \A k \in 1..Len(queue'[r]) : k + 1 \in 1..Len(queue[r]) /\ queue'[r][k] = queue[r][k+1]
          /\ c = queue[r][1] /\ c \in Caller /\ 1 \in 1..Len(queue[r])
          /\ queue'[r] \in Seq(Caller)
      BY <2>0 DEF TypeOK
    <2>c. /\ c # Agent => c \in Router /\ c < r /\ routerfd[c][r] = c /\ Src(c) = c
          /\ c = Agent => Src(c) = 0 /\ agentfd[r] # Agent
          /\ Src(c) \in Router /\ Src(c) < r
      BY <2>q, <2>0 DEF Calls, OneCall, Src, Caller, Router
    <2> HIDE DEF c
    <2>r. /\ routerfd'[r][Src(c)] \in {routerfd[r][Src(c)], c}
          /\ \A s, t \in Router : s # r \/ t # Src(c) => routerfd'[s][t] = routerfd[s][t]
          /\ routerfd' \in [Router -> [Router -> Caller \cup {None}]]
      BY <2>0, <2>c, <2>q DEF TypeOK
    <2>1. TypeOK'
      BY <2>0, <2>q, <2>r DEF TypeOK
    <2>2. Stages'
      BY <2>0, <2>r, <2>q DEF Stages, Missing
    <2>3. Calls'
      <3>1. ASSUME NEW s \in Router, NEW t \in Router, s < t
            PROVE  routerfd'[s][t] = routerfd[s][t]
        <4>1. s \in Nat /\ t \in Nat /\ r \in Nat /\ Src(c) \in Nat /\ Src(c) < r
          BY <2>c
        <4>2. s # r \/ t # Src(c)
          BY <4>1, <3>1
        <4> QED BY <4>2, <2>r
      <3>2. \A s \in Router : \A k \in 1..Len(queue[s]) :
              queue[s][k] # Agent => queue[s][k] \in Router
        BY DEF TypeOK, Caller
      <3>3. \A s \in Router : \A k \in 1..Len(queue[s]) :
              queue[s][k] # Agent =>
                queue[s][k] < s /\ routerfd'[queue[s][k]][s] = queue[s][k]
        <4> SUFFICES ASSUME NEW s \in Router, NEW k \in 1..Len(queue[s]), queue[s][k] # Agent
                     PROVE  queue[s][k] < s /\ routerfd'[queue[s][k]][s] = queue[s][k]
          OBVIOUS
        <4>1. queue[s][k] < s /\ routerfd[queue[s][k]][s] = queue[s][k]
          BY DEF Calls
        <4> QED BY <4>1, <3>1, <3>2
      <3>4. \A s, t \in Router : s < t => routerfd'[s][t] \in {None, s}
        BY <3>1 DEF Calls
      <3>5. \A s \in Router : \A k \in 1..Len(queue'[s]) :
              queue'[s][k] # Agent =>
                queue'[s][k] < s /\ routerfd'[queue'[s][k]][s] = queue'[s][k]
        <4> SUFFICES ASSUME NEW s \in Router, NEW k \in 1..Len(queue'[s]), queue'[s][k] # Agent
                     PROVE  queue'[s][k] < s /\ routerfd'[queue'[s][k]][s] = queue'[s][k]
          OBVIOUS
        <4>1. PICK j \in 1..Len(queue[s]) : queue'[s][k] = queue[s][j]
          <5>1. CASE s = r
            BY <2>q, <5>1
          <5>2. CASE s # r
            BY <2>q, <5>2
          <5> QED BY <5>1, <5>2
        <4> QED BY <4>1, <3>3
      <3> QED BY <3>4, <3>5 DEF Calls
    <2>4. OneCall'
      <3>1. Len(queue'[r]) \in Nat /\ Len(queue[r]) \in Nat
        BY <2>q DEF TypeOK
      <3> QED BY <3>1, <2>0, <2>q, OneCallStep
    <2>5. KnownLinks'
      BY <2>0, <2>c, <2>r DEF KnownLinks
    <2>6. InOrder'
      BY <2>0, <2>q DEF InOrder, TypeOK
    <2> QED BY <2>1, <2>2, <2>3, <2>4, <2>5, <2>6
  <1>9. ASSUME NEW r \in Router, Ready(r) PROVE IInv'
    <2> USE <1>9 DEF Ready
    <2>1. TypeOK' /\ Calls' /\ OneCall' /\ KnownLinks' /\ InOrder'
      BY DEF TypeOK, Calls, OneCall, KnownLinks, InOrder
    <2>2. Stages'
      <3>1. /\ pc'[r] = "ready" /\ \A s \in Router : s # r => pc'[s] = pc[s]
            /\ pc[r] = "links" /\ Missing(r) = {}
            /\ UNCHANGED <<agentfd, routerfd>>
        BY DEF TypeOK
      <3> HIDE DEF Ready
      <3> QED BY <3>1, StagesStep
    <2> QED BY <2>1, <2>2
  <1>10. ASSUME NEW r \in Router, EndWithAgent(r) PROVE IInv'
    <2> USE <1>10 DEF EndWithAgent
    <2>1. TypeOK' /\ Calls' /\ OneCall' /\ KnownLinks' /\ InOrder'
      BY DEF TypeOK, Calls, OneCall, KnownLinks, InOrder
    <2>2. Stages'
      <3>1. /\ pc'[r] = "ended" /\ \A s \in Router : s # r => pc'[s] = pc[s]
            /\ pc[r] = "ready" /\ UNCHANGED <<agentfd, routerfd>>
        BY DEF TypeOK
      <3>2. Missing(r) = {}
        BY <3>1 DEF Stages
      <3> HIDE DEF EndWithAgent
      <3> QED BY <3>1, <3>2, StagesStep
    <2> QED BY <2>1, <2>2
  <1>11. CASE UNCHANGED vars
    BY <1>11 DEF vars, TypeOK, Stages, Missing, Calls, OneCall, KnownLinks, InOrder
  <1> QED BY <1>1, <1>2, <1>3, <1>4, <1>5, <1>6, <1>7, <1>8, <1>9, <1>10, <1>11
          DEF Next, RouterStep

THEOREM Invariance == Spec => []IInv
  BY InitInv, StepInv, PTL DEF Spec

(***************************************************************************)
(* Every variable keeps its type: no queue, descriptor or state of a       *)
(* router or of the agent is anything main and EstablishConnection do not  *)
(* foresee.                                                                *)
(***************************************************************************)
THEOREM TypeCorrect == Spec => []TypeOK
  <1>1. IInv => TypeOK
    BY DEF IInv
  <1> QED BY <1>1, Invariance, PTL

(***************************************************************************)
(* If the agent connects everywhere before a router goes on, no router is  *)
(* taken for the agent by AcceptAgent, and no connect is refused.          *)
(***************************************************************************)
THEOREM OrderlyStart == Spec => []OrderlyStartIsSafe
  <1>1. IInv => OrderlyStartIsSafe
    <2> SUFFICES ASSUME IInv, orderly PROVE ~Mistaken /\ ~Refused
      BY DEF OrderlyStartIsSafe
    <2> QED BY Numbers DEF IInv, InOrder, Mistaken, Refused
  <1> QED BY <1>1, Invariance, PTL

(***************************************************************************)
(* However the processes start, a link between two ready routers of which  *)
(* the higher knows its agent is one connection, made by the lower one.    *)
(***************************************************************************)
THEOREM LinksMatch == Spec => []LinkEndsMatch
  <1>1. IInv => LinkEndsMatch
    <2> SUFFICES ASSUME IInv, NEW r \in Router, NEW s \in Router, {r, s} \in Links, r < s,
                        agentfd[s] = Agent, pc[r] = "ready", pc[s] = "ready"
                 PROVE  routerfd[r][s] = r /\ routerfd[s][r] = r
      BY DEF LinkEndsMatch
    <2>1. routerfd[r][s] # None /\ routerfd[s][r] # None
      BY NbrFacts DEF IInv, Stages, Missing
    <2> QED BY <2>1 DEF IInv, KnownLinks
  <1> QED BY <1>1, Invariance, PTL
=============================================================================
