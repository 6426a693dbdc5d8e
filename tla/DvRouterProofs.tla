--------------------------- MODULE DvRouterProofs ---------------------------
(***************************************************************************)
(* Proofs about the routers and the agent of DvRouter, for any number of   *)
(* routers, any topology, updates, costs and length of the listen queues.  *)
(*                                                                         *)
(* The first part proves IInv.  A router ends only over a QUIT message or  *)
(* when it connects to one that does not listen, because it ended or was   *)
(* called too early; and there is no QUIT message before the command.  And *)
(* UpdateDV turns vectors that stay above Floor into one that does, over a *)
(* link that exists, whatever the age of what it uses.                     *)
(*                                                                         *)
(* The second part proves DvInv.  UpdateDV's loop ends with the way that   *)
(* ChosenWay names, so a router's vector is always what its tables give    *)
(* (Current).  And after a DV command each neighbour stores, has waiting   *)
(* or is still to be sent the vector a router has now (Told).              *)
(*                                                                         *)
(* The third part proves SettledIsExact from DvInv.  Where nothing is on   *)
(* its way, what a router stores of a neighbour is what the neighbour has; *)
(* the distances then satisfy the equations of shortest paths, and those   *)
(* have one solution.  Inductions are by a least counterexample.           *)
(***************************************************************************)
EXTENDS DvRouterInv, FiniteSetTheorems, WellFoundedInduction, TLAPS

-----------------------------------------------------------------------------
(* Numbers and queues *)

LEMMA LeastNat == \A T \in SUBSET Nat : T # {} => \E x \in T : \A y \in T : x <= y
  <1> SUFFICES ASSUME NEW T \in SUBSET Nat, T # {} PROVE \E x \in T : \A y \in T : x <= y
    OBVIOUS
  <1>1. PICK x \in T : \A y \in T : ~ (<<y, x>> \in OpToRel(<, Nat))
    BY WFMin, NatLessThanWellFounded
  <1>2. \A y \in T : ~ (y < x)
    BY <1>1 DEF OpToRel
  <1> QED BY <1>2

LEMMA LeastRouter ==
  ASSUME NEW S \in SUBSET Router, S # {}
  PROVE  \E t \in S : \A u \in S : t <= u
  BY LeastNat, DvAssumption DEF Router

LEMMA ZeroIsRouter == 0 \in Router /\ Router \subseteq Nat
  BY DvAssumption DEF Router

\* The queue without its first message, and with another one.
LEMMA TailFacts ==
  ASSUME NEW S, NEW q \in Seq(S), q # <<>>
  PROVE  /\ Len(q) \in Nat /\ 1 \in 1..Len(q) /\ Head(q) = q[1] /\ q[1] \in S
         /\ Tail(q) \in Seq(S) /\ Len(Tail(q)) = Len(q) - 1
         /\ \A k \in 1..Len(Tail(q)) : k + 1 \in 1..Len(q) /\ Tail(q)[k] = q[k + 1]
  OBVIOUS

LEMMA AppendFacts ==
  ASSUME NEW S, NEW q \in Seq(S), NEW m \in S
  PROVE  /\ Append(q, m) \in Seq(S)
         /\ \A k \in 1..Len(Append(q, m)) :
               \/ k \in 1..Len(q) /\ Append(q, m)[k] = q[k]
               \/ k = Len(q) + 1 /\ Append(q, m)[k] = m
         /\ Len(Append(q, m)) = Len(q) + 1 /\ Len(q) \in Nat
  OBVIOUS

LEMMA MessageFacts ==
  ASSUME NEW m \in Message
  PROVE  /\ m.type = "IRC" => m.src \in Router /\ m.dv \in [Router -> Int]
         /\ m.type = "UPDATE" => m.dest \in Router /\ m.cost \in Int
  BY DEF Message

LEMMA MadeMessages ==
  /\ \A r \in Router, v \in [Router -> Int] : Vector(r, v) \in Message
  /\ \A d \in Router, c \in Int : Update(d, c) \in Message
  /\ \A kind \in {"DV", "SHOW", "RESET", "QUIT"} : Order(kind) \in Message
  BY DEF Vector, Update, Order, Message

-----------------------------------------------------------------------------
(* UpdateDV *)

\* What ChosenWay is to be: the first of the cheapest valid ways, or the last way.
IsChosen(ways, w) ==
    /\ w \in ways
    /\ (\E x \in ways : Valid(x.d)) =>
          /\ Valid(w.d)
          /\ \A x \in ways : Valid(x.d) => w.d < x.d \/ (w.d = x.d /\ w.by <= x.by)
    /\ (\A x \in ways : ~Valid(x.d)) => \A x \in ways : x.by <= w.by

\* A set of ways that names each place in the loop with a number.
LEMMA ChosenWayIsOne ==
  ASSUME NEW ways, ways # {}, NEW top \in Nat,
         \A w \in ways : w.d \in Int /\ w.by \in -1..top
  PROVE  /\ ChosenWay(ways) \in ways
         /\ Valid(ChosenWay(ways).d) \/ \A w \in ways : ~Valid(w.d)
         /\ IsChosen(ways, ChosenWay(ways))
  <1> DEFINE valid == {w \in ways : Valid(w.d)}
  <1>1. CASE valid = {}
    <2> DEFINE T == {top - w.by : w \in ways}
    <2>1. T \in SUBSET Nat /\ T # {}
      OBVIOUS
    <2>2. PICK x \in T : \A y \in T : x <= y
      BY <2>1, LeastNat
    <2>3. PICK w \in ways : x = top - w.by
      BY <2>2
    <2>4. \A v \in ways : v.by <= w.by
      <3> SUFFICES ASSUME NEW v \in ways PROVE v.by <= w.by
        OBVIOUS
      <3>1. top - v.by \in T
        OBVIOUS
      <3>2. top - w.by <= top - v.by
        BY <3>1, <2>2, <2>3
      <3>3. v.by \in Int /\ w.by \in Int
        OBVIOUS
      <3> QED BY <3>2, <3>3
    <2>5. ChosenWay(ways) = CHOOSE u \in ways : \A v \in ways : v.by <= u.by
      BY <1>1 DEF ChosenWay
    <2>6. ChosenWay(ways) \in ways /\ \A v \in ways : v.by <= ChosenWay(ways).by
      BY <2>4, <2>5
    <2>7. \A v \in ways : ~Valid(v.d)
      BY <1>1
    <2> QED BY <2>6, <2>7 DEF IsChosen
  <1>2. CASE valid # {}
    <2> DEFINE D == {w.d : w \in valid}
    <2>1. D \in SUBSET Nat /\ D # {}
      BY <1>2 DEF Valid
    <2>2. PICK d \in D : \A y \in D : d <= y
      BY <2>1, LeastNat
    <2> DEFINE B == {w.by + 1 : w \in {v \in valid : v.d = d}}
    <2>3. B \in SUBSET Nat /\ B # {}
      BY <2>2
    <2>4. PICK b \in B : \A y \in B : b <= y
      BY <2>3, LeastNat
    <2>5. PICK w \in valid : w.d = d /\ w.by + 1 = b
      BY <2>4
    <2>6. \A x \in valid : w.d < x.d \/ (w.d = x.d /\ w.by <= x.by)
      <3> SUFFICES ASSUME NEW x \in valid PROVE w.d < x.d \/ (w.d = x.d /\ w.by <= x.by)
        OBVIOUS
      <3>1. x.d \in D /\ d <= x.d /\ x.d \in Int /\ d \in Int /\ x.by \in Int /\ w.by \in Int
        BY <2>2, <2>5
      <3>2. CASE x.d = d
        <4>1. x.by + 1 \in B
          BY <3>2
        <4>2. w.by + 1 <= x.by + 1
          BY <4>1, <2>4, <2>5
        <4> QED BY <4>2, <3>1, <3>2, <2>5
      <3> QED BY <3>1, <3>2, <2>5
    <2>7. ChosenWay(ways) =
            CHOOSE u \in valid : \A x \in valid : u.d < x.d \/ (u.d = x.d /\ u.by <= x.by)
      BY <1>2 DEF ChosenWay
    <2>8. /\ ChosenWay(ways) \in valid
          /\ \A x \in valid : \/ ChosenWay(ways).d < x.d
                              \/ ChosenWay(ways).d = x.d /\ ChosenWay(ways).by <= x.by
      BY <2>6, <2>7
    <2>9. ChosenWay(ways) \in ways /\ Valid(ChosenWay(ways).d)
      BY <2>8
    <2> QED BY <2>8, <2>9 DEF IsChosen
  <1> QED BY <1>1, <1>2

LEMMA WaysTyped ==
  ASSUME NEW row \in [Router -> Int], NEW nb \in SUBSET Router,
         NEW table \in [Router -> [Router -> Int]], NEW to \in Router
  PROVE  LET ways == Ways(row, nb, table, to) IN
         /\ ways # {}
         /\ \A w \in ways : w.d \in Int /\ w.by \in -1..N /\ w.hop \in Router
         /\ \A w \in ways : Valid(w.d) =>
               \/ Valid(row[to]) /\ w.d = row[to] /\ w.hop = to
               \/ /\ w.hop \in nb /\ Valid(table[w.hop][to])
                  /\ w.d = table[w.hop][to] + row[w.hop]
  <1> DEFINE own == [d |-> row[to], hop |-> IF Valid(row[to]) THEN to ELSE 0, by |-> -1]
             over(mid) == [d |-> table[mid][to] + row[mid], hop |-> mid, by |-> mid]
             ways == Ways(row, nb, table, to)
  <1>1. own \in ways /\ \A w \in ways : w = own \/ \E mid \in Mids(nb, table, to) : w = over(mid)
    BY DEF Ways
  <1>2. \A mid \in Mids(nb, table, to) : mid \in nb /\ mid \in Router /\ Valid(table[mid][to])
    BY DEF Mids
  <1>3. N \in Nat /\ 0 \in Router /\ \A r \in Router : r \in -1..N
    BY DvAssumption DEF Router
  <1>4. /\ own.d \in Int /\ own.by \in -1..N /\ own.hop \in Router
        /\ Valid(own.d) => Valid(row[to]) /\ own.d = row[to] /\ own.hop = to
    BY <1>3
  <1>5. ASSUME NEW mid \in Mids(nb, table, to)
        PROVE  /\ over(mid).d \in Int /\ over(mid).by \in -1..N /\ over(mid).hop \in Router
               /\ over(mid).hop \in nb /\ Valid(table[over(mid).hop][to])
               /\ over(mid).d = table[over(mid).hop][to] + row[over(mid).hop]
    <2>1. table[mid][to] \in Int /\ row[mid] \in Int
      BY <1>2
    <2> QED BY <1>2, <1>3, <2>1
  <1> HIDE DEF own, over, ways
  <1>6. ASSUME NEW w \in ways
        PROVE  /\ w.d \in Int /\ w.by \in -1..N /\ w.hop \in Router
               /\ Valid(w.d) =>
                     \/ Valid(row[to]) /\ w.d = row[to] /\ w.hop = to
                     \/ /\ w.hop \in nb /\ Valid(table[w.hop][to])
                        /\ w.d = table[w.hop][to] + row[w.hop]
    <2>1. CASE w = own
      BY <2>1, <1>4
    <2>2. ASSUME NEW mid \in Mids(nb, table, to), w = over(mid) PROVE <1>6!2
      BY <2>2, <1>5
    <2> QED BY <2>1, <2>2, <1>1
  <1> QED BY <1>1, <1>6 DEF ways

(***************************************************************************)
(* What UpdateDV finds for a destination is typed, and if it is a route it *)
(* is the own link, or goes over a neighbour that has one.                 *)
(***************************************************************************)
LEMMA BestIsWay ==
  ASSUME NEW r \in Router, NEW row \in [Router -> Int], NEW nb \in SUBSET Router,
         NEW table \in [Router -> [Router -> Int]], NEW to \in Router
  PROVE  LET b == Best(r, row, nb, table, to) IN
         /\ b.d \in Int /\ b.hop \in Router
         /\ to = r => b.d = table[r][r]
         /\ to # r /\ Valid(b.d) =>
               \/ Valid(row[to]) /\ b.d = row[to] /\ b.hop = to
               \/ /\ b.hop \in nb /\ Valid(table[b.hop][to])
                  /\ b.d = table[b.hop][to] + row[b.hop]
  <1>1. CASE to = r
    BY <1>1 DEF Best
  <1>2. CASE to # r
    <2> DEFINE ways == Ways(row, nb, table, to)
               w == ChosenWay(ways)
    <2>1. N \in Nat
      BY DvAssumption
    <2>2. /\ ways # {}
          /\ \A v \in ways : v.d \in Int /\ v.by \in -1..N
      BY WaysTyped
    <2>3. w \in ways
      <3> HIDE DEF ways
      <3> QED BY <2>1, <2>2, ChosenWayIsOne
    <2>4. Best(r, row, nb, table, to) = [d |-> w.d, hop |-> w.hop]
      BY <1>2 DEF Best
    <2>5. /\ w.d \in Int /\ w.hop \in Router
          /\ Valid(w.d) =>
                \/ Valid(row[to]) /\ w.d = row[to] /\ w.hop = to
                \/ /\ w.hop \in nb /\ Valid(table[w.hop][to])
                   /\ w.d = table[w.hop][to] + row[w.hop]
      BY <2>3, WaysTyped
    <2> HIDE DEF w, ways
    <2> QED BY <2>4, <2>5, <1>2
  <1> QED BY <1>1, <1>2

\* What holds of one router's tables, whatever the other routers' are.
Explained(r, row, nb, table, hops) ==
    \A s \in Router :
        r # s /\ Valid(table[r][s]) =>
            /\ hops[s] \in nb /\ Valid(row[hops[s]])
            /\ \/ hops[s] = s /\ table[r][s] = row[s]
               \/ Valid(table[hops[s]][s]) /\ table[r][s] = row[hops[s]] + table[hops[s]][s]

\* What UpdateDV leaves in the vectors and in the next hops of r.
NewTable(r, row, nb, table) == [table EXCEPT ![r] = NewVector(r, row, nb, table)]
NewHops(r, row, nb, table) == [to \in Router |-> Best(r, row, nb, table, to).hop]

LEMMA ExplainedEach ==
  RoutesExplained <=> \A r \in Router : Explained(r, cost[r], nbr[r], vec[r], nextHop[r])
  BY DEF RoutesExplained, Explained, HasRoute

LEMMA LinkFloor ==
  ASSUME NEW r \in Router, NEW s \in Router, NEW t \in Router, NEW c \in LinkCosts(r, s)
  PROVE  /\ Floor[r][t] <= c + Floor[s][t] /\ c \in Int /\ Valid(c)
         /\ Floor[r][t] \in Nat /\ Floor[s][t] \in Nat /\ Floor[t][t] = 0
  <1>1. c \in Int /\ Valid(c)
    BY DvAssumption DEF LinkCosts, Table
  <1> QED BY <1>1, FloorAssumption

(***************************************************************************)
(* UpdateDV over links that exist and vectors above the floor gives a      *)
(* vector above the floor, whose routes the tables explain.                *)
(***************************************************************************)
LEMMA UpdateDvSound ==
  ASSUME NEW r \in Router, NEW row \in [Router -> Int], NEW nb \in SUBSET Router,
         NEW table \in [Router -> [Router -> Int]],
         \A s \in Router : s \in nb <=> s # r /\ Valid(row[s]),
         \A s \in nb : row[s] \in LinkCosts(r, s),
         \A s \in Router : SoundVector(s, table[s])
  PROVE  LET new == NewTable(r, row, nb, table)
             hops == NewHops(r, row, nb, table)
         IN  /\ new \in [Router -> [Router -> Int]]
             /\ hops \in [Router -> Router]
             /\ \A s \in Router : SoundVector(s, new[s])
             /\ Explained(r, row, nb, new, hops)
  <1> DEFINE best(to) == Best(r, row, nb, table, to)
             v == NewVector(r, row, nb, table)
             new == [table EXCEPT ![r] = v]
             hops == [to \in Router |-> best(to).hop]
  <1>1. \A to \in Router :
          /\ best(to).d \in Int /\ best(to).hop \in Router
          /\ to = r => best(to).d = table[r][r]
          /\ to # r /\ Valid(best(to).d) =>
                \/ Valid(row[to]) /\ best(to).d = row[to] /\ best(to).hop = to
                \/ /\ best(to).hop \in nb /\ Valid(table[best(to).hop][to])
                   /\ best(to).d = table[best(to).hop][to] + row[best(to).hop]
    BY BestIsWay
  <1>2. /\ v \in [Router -> Int] /\ \A to \in Router : v[to] = best(to).d
        /\ hops \in [Router -> Router] /\ \A to \in Router : hops[to] = best(to).hop
    BY <1>1 DEF NewVector
  <1>3. /\ new \in [Router -> [Router -> Int]] /\ new[r] = v
        /\ \A s \in Router : s # r => new[s] = table[s]
    BY <1>2
  <1> HIDE DEF best, v, new, hops
  <1>4. SoundVector(r, v)
    <2> SUFFICES ASSUME NEW t \in Router, Valid(v[t]) PROVE Floor[r][t] <= v[t]
      BY DEF SoundVector
    <2>1. CASE t = r
      <3>1. Floor[r][r] = 0 /\ v[t] \in Int
        BY <1>2, FloorAssumption
      <3> QED BY <3>1, <2>1 DEF Valid
    <2>2. CASE t # r /\ Valid(row[t]) /\ v[t] = row[t]
      <3>1. row[t] \in LinkCosts(r, t)
        BY <2>2
      <3> QED BY <3>1, <2>2, LinkFloor
    <2>3. CASE t # r /\ best(t).hop \in nb /\ Valid(table[best(t).hop][t])
               /\ v[t] = table[best(t).hop][t] + row[best(t).hop]
      <3> DEFINE hop == best(t).hop
      <3>1. hop \in Router /\ row[hop] \in LinkCosts(r, hop) /\ table[hop][t] \in Int
        BY <2>3
      <3>2. Floor[hop][t] <= table[hop][t]
        BY <3>1, <2>3 DEF SoundVector
      <3>3. /\ Floor[r][t] <= row[hop] + Floor[hop][t] /\ row[hop] \in Int
            /\ Floor[r][t] \in Nat /\ Floor[hop][t] \in Nat
        BY <3>1, LinkFloor
      <3> HIDE DEF hop
      <3>4. v[t] = table[hop][t] + row[hop]
        BY <2>3 DEF hop
      <3> QED BY <3>1, <3>2, <3>3, <3>4
    <2> QED BY <2>1, <2>2, <2>3, <1>1, <1>2
  <1>5. \A s \in Router : SoundVector(s, new[s])
    BY <1>3, <1>4
  <1>6. Explained(r, row, nb, new, hops)
    <2> SUFFICES ASSUME NEW s \in Router, r # s, Valid(new[r][s])
                 PROVE  /\ hops[s] \in nb /\ Valid(row[hops[s]])
                        /\ \/ hops[s] = s /\ new[r][s] = row[s]
                           \/ Valid(new[hops[s]][s]) /\ new[r][s] = row[hops[s]] + new[hops[s]][s]
      BY DEF Explained
    <2>1. new[r][s] = best(s).d /\ hops[s] = best(s).hop /\ hops[s] \in Router
      BY <1>2, <1>3
    <2>2. CASE Valid(row[s]) /\ best(s).d = row[s] /\ best(s).hop = s
      BY <2>1, <2>2
    <2>3. CASE /\ best(s).hop \in nb /\ Valid(table[best(s).hop][s])
               /\ best(s).d = table[best(s).hop][s] + row[best(s).hop]
      <3>1. hops[s] # r /\ Valid(row[hops[s]])
        BY <2>1, <2>3
      <3>2. new[hops[s]] = table[hops[s]] /\ table[hops[s]][s] \in Int /\ row[hops[s]] \in Int
        BY <3>1, <2>1, <1>3
      <3> QED BY <3>1, <3>2, <2>1, <2>3
    <2> QED BY <2>1, <2>2, <2>3, <1>1
  <1>7. new = NewTable(r, row, nb, table) /\ hops = NewHops(r, row, nb, table)
    BY DEF new, hops, v, best, NewTable, NewHops
  <1> QED BY <1>2, <1>3, <1>5, <1>6, <1>7

-----------------------------------------------------------------------------
(* What the steps do to the tables and to the mail *)

TablesTyped ==
    /\ cost \in Table
    /\ nbr \in [Router -> SUBSET Router]
    /\ vec \in [Router -> [Router -> [Router -> Int]]]
    /\ nextHop \in [Router -> [Router -> Router]]

TablesOK == TablesTyped /\ Neighbours /\ RoutesExplained /\ Sound

LEMMA TablesKept ==
  ASSUME TablesOK, UNCHANGED tables PROVE TablesOK'
  BY DEF TablesOK, TablesTyped, tables, Neighbours, RoutesExplained, HasRoute, Sound

LEMMA TablesUpdated ==
  ASSUME TablesOK, NEW r \in Router, NEW row \in [Router -> Int], NEW nb \in SUBSET Router,
         NEW table \in [Router -> [Router -> Int]],
         cost' = [cost EXCEPT ![r] = row], nbr' = [nbr EXCEPT ![r] = nb],
         UpdateDV(r, row, nb, table),
         \A s \in Router : s \in nb <=> s # r /\ Valid(row[s]),
         \A s \in nb : row[s] \in LinkCosts(r, s),
         \A s \in Router : SoundVector(s, table[s])
  PROVE  TablesOK'
  <1> DEFINE new == NewTable(r, row, nb, table)
             hops == NewHops(r, row, nb, table)
  <1>1. /\ new \in [Router -> [Router -> Int]] /\ hops \in [Router -> Router]
        /\ \A s \in Router : SoundVector(s, new[s])
        /\ Explained(r, row, nb, new, hops)
    BY UpdateDvSound
  <1>2. vec' = [vec EXCEPT ![r] = new] /\ nextHop' = [nextHop EXCEPT ![r] = hops]
    BY DEF UpdateDV, NewTable, NewHops
  <1> HIDE DEF new, hops
  <1>3. /\ cost'[r] = row /\ nbr'[r] = nb /\ vec'[r] = new /\ nextHop'[r] = hops
        /\ \A s \in Router : s # r => /\ cost'[s] = cost[s] /\ nbr'[s] = nbr[s]
                                      /\ vec'[s] = vec[s] /\ nextHop'[s] = nextHop[s]
    BY <1>2 DEF TablesOK, TablesTyped, Table
  <1>4. TablesTyped'
    BY <1>1, <1>2 DEF TablesOK, TablesTyped, Table
  <1>5. Neighbours'
    <2> SUFFICES ASSUME NEW q \in Router, NEW s \in Router
                 PROVE  /\ s \in nbr'[q] <=> s # q /\ Valid(cost'[q][s])
                        /\ s \in nbr'[q] => cost'[q][s] \in LinkCosts(q, s)
      BY DEF Neighbours
    <2>1. CASE q = r
      BY <2>1, <1>3
    <2>2. CASE q # r
      BY <2>2, <1>3 DEF TablesOK, Neighbours
    <2> QED BY <2>1, <2>2
  <1>6. \A q \in Router : Explained(q, cost'[q], nbr'[q], vec'[q], nextHop'[q])
    <2> SUFFICES ASSUME NEW q \in Router
                 PROVE  Explained(q, cost'[q], nbr'[q], vec'[q], nextHop'[q])
      OBVIOUS
    <2>1. CASE q = r
      BY <2>1, <1>1, <1>3
    <2>2. CASE q # r
      BY <2>2, <1>3, ExplainedEach DEF TablesOK
    <2> QED BY <2>1, <2>2
  <1>7. RoutesExplained'
    BY <1>6 DEF RoutesExplained, Explained, HasRoute
  <1>8. Sound'
    BY <1>1, <1>3 DEF TablesOK, Sound
  <1> QED BY <1>4, <1>5, <1>7, <1>8 DEF TablesOK

\* The rest of the invariant: who runs, and what is on its way to whom.
CallsTyped ==
    /\ queue \in [Router -> Seq(Message)]
    /\ sending \in [Router -> SUBSET Router]
    /\ up \subseteq started /\ started \subseteq Router /\ missed \in BOOLEAN
    /\ agent \in {"ready", "await", "ended"}
    /\ job \in Seq([to : Router, msg : Message])
    /\ issued \in 0..MaxCommands
    /\ last \in {"none", "UPDATE", "DV", "QUIT"}

LEMMA IInvParts == IInv <=> TablesOK /\ CallsTyped /\ Mail /\ Jobs /\ NobodyEndsUnasked
  BY DEF IInv, TypeOK, TablesOK, TablesTyped, CallsTyped

LEMMA MailAt ==
  ASSUME Mail, NEW r \in Router, NEW k \in 1..Len(queue[r])
  PROVE  /\ Genuine(r, queue[r][k])
         /\ queue[r][k].type = "QUIT" => last = "QUIT"
         /\ queue[r][k].type = "SHOW" =>
              /\ agent = "await"
              /\ \A s \in Router : \A j \in 1..Len(queue[s]) :
                    queue[s][j].type = "SHOW" => s = r /\ j = k
  BY DEF Mail

LEMMA OneShow ==
  ASSUME Mail, NEW r \in Router, NEW k \in 1..Len(queue[r]), queue[r][k].type = "SHOW",
         NEW s \in Router, NEW j \in 1..Len(queue[s]), queue[s][j].type = "SHOW"
  PROVE  agent = "await" /\ s = r /\ j = k
  BY MailAt

\* A router takes the first message; if that is SHOW, the agent no longer waits.
LEMMA DequeueMail ==
  ASSUME queue \in [Router -> Seq(Message)], Mail, NEW r \in Router, queue[r] # <<>>,
         Dequeue(r), last' = last,
         agent' = agent \/ Head(queue[r]).type = "SHOW"
  PROVE  queue' \in [Router -> Seq(Message)] /\ Mail'
  <1>1. /\ Len(queue[r]) \in Nat /\ 1 \in 1..Len(queue[r]) /\ Head(queue[r]) = queue[r][1]
        /\ Tail(queue[r]) \in Seq(Message) /\ Len(Tail(queue[r])) = Len(queue[r]) - 1
        /\ \A k \in 1..Len(Tail(queue[r])) :
              k + 1 \in 1..Len(queue[r]) /\ Tail(queue[r])[k] = queue[r][k + 1]
    BY TailFacts
  <1>2. /\ queue' \in [Router -> Seq(Message)] /\ queue'[r] = Tail(queue[r])
        /\ \A s \in Router : s # r => queue'[s] = queue[s]
    BY <1>1 DEF Dequeue
  <1> DEFINE place(s, k) == IF s = r THEN k + 1 ELSE k
  <1>3. ASSUME NEW s \in Router, NEW k \in 1..Len(queue'[s])
        PROVE  place(s, k) \in 1..Len(queue[s]) /\ queue'[s][k] = queue[s][place(s, k)]
    <2>1. CASE s = r
      BY <2>1, <1>1, <1>2
    <2>2. CASE s # r
      BY <2>2, <1>2
    <2> QED BY <2>1, <2>2
  <1>4. \A s \in Router : \A k, j \in Nat : place(s, k) = place(s, j) => k = j
    OBVIOUS
  <1>5. \A s \in Router : \A k \in 1..Len(queue'[s]) : s = r => place(s, k) # 1
    OBVIOUS
  <1>6. \A s \in Router : 1..Len(queue'[s]) \subseteq Nat
    OBVIOUS
  <1> HIDE DEF place
  <1>7. ASSUME NEW s \in Router, NEW k \in 1..Len(queue'[s])
        PROVE  /\ Genuine(s, queue'[s][k])
               /\ queue'[s][k].type = "QUIT" => last' = "QUIT"
               /\ queue'[s][k].type = "SHOW" =>
                    /\ agent' = "await"
                    /\ \A q \in Router : \A j \in 1..Len(queue'[q]) :
                          queue'[q][j].type = "SHOW" => q = s /\ j = k
    <2>1. /\ Genuine(s, queue'[s][k])
          /\ queue'[s][k].type = "QUIT" => last = "QUIT"
      <3>1. place(s, k) \in 1..Len(queue[s]) /\ queue'[s][k] = queue[s][place(s, k)]
        BY <1>3
      <3> QED BY <3>1, MailAt
    <2>2. ASSUME queue'[s][k].type = "SHOW"
          PROVE  agent' = "await"
      <3>1. queue[s][place(s, k)].type = "SHOW" /\ place(s, k) \in 1..Len(queue[s])
        BY <2>2, <1>3
      <3>2. agent = "await"
        BY <3>1 DEF Mail
      <3>3. Head(queue[r]).type # "SHOW"
        <4> SUFFICES ASSUME Head(queue[r]).type = "SHOW" PROVE FALSE
          OBVIOUS
        <4>1. s = r /\ place(s, k) = 1
          BY <3>1, <1>1 DEF Mail
        <4> QED BY <4>1, <1>5
      <3> QED BY <3>2, <3>3
    <2>3. ASSUME queue'[s][k].type = "SHOW", NEW q \in Router, NEW j \in 1..Len(queue'[q]),
                 queue'[q][j].type = "SHOW"
          PROVE  q = s /\ j = k
      <3>1. /\ queue[s][place(s, k)].type = "SHOW" /\ place(s, k) \in 1..Len(queue[s])
            /\ queue[q][place(q, j)].type = "SHOW" /\ place(q, j) \in 1..Len(queue[q])
        BY <2>3, <1>3
      <3>2. q = s /\ place(q, j) = place(s, k)
        BY <3>1, OneShow
      <3> QED BY <3>2, <1>4, <1>6
    <2> QED BY <2>1, <2>2, <2>3
  <1>8. Mail'
    BY <1>7 DEF Mail, Genuine, SoundVector
  <1> QED BY <1>2, <1>8

\* A message joins a queue; if it is SHOW, the agent waits.
LEMMA AppendMail ==
  ASSUME queue \in [Router -> Seq(Message)], Mail, NEW t \in Router, NEW m \in Message,
         queue' = [queue EXCEPT ![t] = Append(@, m)], last' = last,
         Genuine(t, m), m.type = "QUIT" => last = "QUIT",
         \/ m.type # "SHOW" /\ agent' = agent
         \/ agent = "ready" /\ (m.type = "SHOW" => agent' = "await")
  PROVE  queue' \in [Router -> Seq(Message)] /\ Mail'
  <1>1. /\ Append(queue[t], m) \in Seq(Message)
        /\ \A k \in 1..Len(Append(queue[t], m)) :
              \/ k \in 1..Len(queue[t]) /\ Append(queue[t], m)[k] = queue[t][k]
              \/ k = Len(queue[t]) + 1 /\ Append(queue[t], m)[k] = m
    BY AppendFacts
  <1>2. /\ queue' \in [Router -> Seq(Message)] /\ queue'[t] = Append(queue[t], m)
        /\ \A s \in Router : s # t => queue'[s] = queue[s]
    BY <1>1
  <1> DEFINE new(s, k) == s = t /\ k = Len(queue[t]) + 1
  <1>3. ASSUME NEW s \in Router, NEW k \in 1..Len(queue'[s])
        PROVE  \/ k \in 1..Len(queue[s]) /\ queue'[s][k] = queue[s][k]
               \/ new(s, k) /\ queue'[s][k] = m
    <2>1. CASE s = t
      BY <2>1, <1>1, <1>2
    <2>2. CASE s # t
      BY <2>2, <1>2
    <2> QED BY <2>1, <2>2
  <1>4. ASSUME NEW s \in Router, NEW k \in 1..Len(queue'[s])
        PROVE  /\ Genuine(s, queue'[s][k])
               /\ queue'[s][k].type = "QUIT" => last' = "QUIT"
               /\ queue'[s][k].type = "SHOW" =>
                    /\ agent' = "await"
                    /\ \A q \in Router : \A j \in 1..Len(queue'[q]) :
                          queue'[q][j].type = "SHOW" => q = s /\ j = k
    <2>1. CASE m.type # "SHOW" /\ agent' = agent
      <3>1. ASSUME NEW q \in Router, NEW j \in 1..Len(queue'[q]), queue'[q][j].type = "SHOW"
            PROVE  j \in 1..Len(queue[q]) /\ queue[q][j].type = "SHOW"
        BY <3>1, <2>1, <1>3
      <3>2. Genuine(s, queue'[s][k]) /\ (queue'[s][k].type = "QUIT" => last' = "QUIT")
        BY <1>3 DEF Mail
      <3> QED BY <3>1, <3>2, <2>1 DEF Mail
    <2>2. CASE agent = "ready" /\ (m.type = "SHOW" => agent' = "await")
      <3>1. ASSUME NEW q \in Router, NEW j \in 1..Len(queue'[q]), queue'[q][j].type = "SHOW"
            PROVE  new(q, j) /\ m.type = "SHOW"
        BY <3>1, <2>2, <1>3 DEF Mail
      <3>2. Genuine(s, queue'[s][k]) /\ (queue'[s][k].type = "QUIT" => last' = "QUIT")
        BY <1>3 DEF Mail
      <3> QED BY <3>1, <3>2, <2>2
    <2> QED BY <2>1, <2>2
  <1>5. Mail'
    BY <1>4 DEF Mail, Genuine, SoundVector
  <1> QED BY <1>2, <1>5

\* A router ends, with its queue.
LEMMA EndRouterMail ==
  ASSUME CallsTyped, Mail, NEW r \in Router, EndRouter(r), last' = last
  PROVE  queue' \in [Router -> Seq(Message)] /\ Mail'
  <1>1. /\ queue' \in [Router -> Seq(Message)] /\ queue'[r] = <<>>
        /\ \A s \in Router : s # r => queue'[s] = queue[s]
    BY DEF EndRouter, CallsTyped
  <1>2. ASSUME NEW s \in Router, NEW k \in 1..Len(queue'[s])
        PROVE  s # r /\ k \in 1..Len(queue[s]) /\ queue'[s][k] = queue[s][k]
    <2>1. s # r
      BY <1>1
    <2> QED BY <2>1, <1>1
  <1>3. ASSUME NEW s \in Router, NEW k \in 1..Len(queue'[s])
        PROVE  /\ Genuine(s, queue'[s][k])
               /\ queue'[s][k].type = "QUIT" => last' = "QUIT"
               /\ queue'[s][k].type = "SHOW" =>
                    /\ agent' = "await"
                    /\ \A q \in Router : \A j \in 1..Len(queue'[q]) :
                          queue'[q][j].type = "SHOW" => q = s /\ j = k
    <2>1. Genuine(s, queue'[s][k]) /\ (queue'[s][k].type = "QUIT" => last' = "QUIT")
      BY <1>2 DEF Mail
    <2>2. ASSUME queue'[s][k].type = "SHOW" PROVE agent' = "await"
      <3>1. k \in 1..Len(queue[s]) /\ queue[s][k].type = "SHOW" /\ s # r
        BY <2>2, <1>2
      <3>2. agent = "await"
        BY <3>1 DEF Mail
      <3>3. \A j \in 1..Len(queue[r]) : queue[r][j].type # "SHOW"
        BY <3>1 DEF Mail
      <3>4. DOMAIN queue[r] = 1..Len(queue[r])
        BY DEF CallsTyped
      <3> QED BY <3>2, <3>3, <3>4 DEF EndRouter
    <2>3. ASSUME queue'[s][k].type = "SHOW", NEW q \in Router, NEW j \in 1..Len(queue'[q]),
                 queue'[q][j].type = "SHOW"
          PROVE  q = s /\ j = k
      <3>1. k \in 1..Len(queue[s]) /\ queue[s][k].type = "SHOW"
        BY <2>3, <1>2
      <3>2. j \in 1..Len(queue[q]) /\ queue[q][j].type = "SHOW"
        BY <2>3, <1>2
      <3> QED BY <3>1, <3>2, OneShow
    <2> QED BY <2>1, <2>2, <2>3
  <1>4. Mail'
    BY <1>3 DEF Mail, Genuine, SoundVector
  <1> QED BY <1>1, <1>4

-----------------------------------------------------------------------------
(* The invariant holds at first and is kept. *)

LEMMA InitInv == Init => IInv
  <1> SUFFICES ASSUME Init PROVE IInv
    OBVIOUS
  <1>0. /\ Topology \in [Router -> [Router -> Int]] /\ \A r \in Router : Topology[r][r] = 0
        /\ ~Valid(0) /\ ~Valid(-1) /\ 0 \in Router
    BY DvAssumption, ZeroIsRouter DEF Table, Valid
  <1>1. \A r, s \in Router :
          /\ vec[r] = InitRow(r) /\ cost[r][s] = Topology[r][s]
          /\ s \in nbr[r] <=> Valid(Topology[r][s])
          /\ nextHop[r][s] = IF s = r \/ Valid(Topology[r][s]) THEN s ELSE 0
    BY DEF Init
  <1>2. \A r \in Router : InitRow(r) \in [Router -> [Router -> Int]] /\ InitRow(r)[r] = Topology[r]
    BY <1>0 DEF InitRow
  <1>3. TablesTyped
    BY <1>0, <1>2 DEF Init, TablesTyped, Table
  <1>4. Neighbours
    BY <1>0, <1>1 DEF Neighbours, LinkCosts
  <1>5. RoutesExplained
    BY <1>0, <1>1, <1>2 DEF RoutesExplained, HasRoute
  <1>6. Sound
    <2> SUFFICES ASSUME NEW r \in Router, NEW s \in Router, NEW t \in Router, Valid(vec[r][s][t])
                 PROVE  Floor[s][t] <= vec[r][s][t]
      BY DEF Sound, SoundVector
    <2>1. s = r
      <3> SUFFICES ASSUME s # r PROVE FALSE
        OBVIOUS
      <3>1. vec[r][s] = InitRow(r)[s]
        BY <1>1
      <3>2. InitRow(r)[s] = IF Valid(Topology[r][s]) THEN [i \in Router |-> IF i = s THEN 0 ELSE -1]
                            ELSE [i \in Router |-> 0]
        BY DEF InitRow
      <3>3. vec[r][s][t] \in {0, -1}
        BY <3>1, <3>2
      <3> QED BY <3>3, <1>0
    <2>2. vec[r][s][t] = Topology[r][t]
      BY <2>1, <1>1, <1>2
    <2>3. Topology[r][t] \in LinkCosts(r, t)
      BY <2>2, <1>0 DEF LinkCosts
    <2> QED BY <2>1, <2>2, <2>3, LinkFloor
  <1>7. CallsTyped
    <2>1. /\ queue \in [Router -> Seq(Message)] /\ sending \in [Router -> SUBSET Router]
          /\ job \in Seq([to : Router, msg : Message])
      BY DEF Init
    <2>2. 0 \in 0..MaxCommands /\ {} \subseteq Router
      BY DvAssumption
    <2> QED BY <2>1, <2>2 DEF Init, CallsTyped
  <1>8. Mail /\ Jobs /\ NobodyEndsUnasked
    BY DEF Init, Mail, Jobs, NobodyEndsUnasked
  <1> QED BY <1>3, <1>4, <1>5, <1>6, <1>7, <1>8, IInvParts DEF TablesOK

\* A router's steps leave the agent's job and the commands alone.
LEMMA JobsKept ==
  ASSUME Jobs, job' = job, last' = last, agent' = agent \/ (agent = "await" /\ last # "QUIT")
  PROVE  Jobs'
  BY DEF Jobs, Genuine, SoundVector

LEMMA Accepted ==
  ASSUME CallsTyped, Mail, NEW r \in Router, NEW kind, Accepts(r, kind)
  PROVE  /\ queue[r] # <<>> /\ Head(queue[r]) \in Message /\ Head(queue[r]).type = kind
         /\ Genuine(r, Head(queue[r]))
         /\ kind = "QUIT" => last = "QUIT"
         /\ kind = "SHOW" => agent = "await"
  <1>1. queue[r] # <<>> /\ queue[r] \in Seq(Message) /\ Head(queue[r]).type = kind
    BY DEF Accepts, CallsTyped
  <1>2. 1 \in 1..Len(queue[r]) /\ Head(queue[r]) = queue[r][1] /\ queue[r][1] \in Message
    BY <1>1, TailFacts
  <1> QED BY <1>1, <1>2, MailAt

\* The end of a router that took QUIT, or that another one refused.
LEMMA EndRouterStep ==
  ASSUME CallsTyped, Mail, Jobs, NEW r \in Router, EndRouter(r), last = "QUIT" \/ missed',
         missed' \in BOOLEAN, UNCHANGED <<started, job, issued, last>>
  PROVE  CallsTyped' /\ Mail' /\ Jobs' /\ NobodyEndsUnasked'
  <1>1. queue' \in [Router -> Seq(Message)] /\ Mail'
    BY EndRouterMail
  <1>2. /\ sending' \in [Router -> SUBSET Router] /\ up' \subseteq started'
        /\ agent' \in {"ready", "await", "ended"}
        /\ agent' = agent \/ agent = "await"
    BY DEF EndRouter, CallsTyped
  <1>3. CallsTyped'
    BY <1>1, <1>2 DEF CallsTyped
  <1>4. agent # "await" \/ last # "QUIT"
    BY DEF Jobs
  <1>5. Jobs'
    BY <1>2, <1>4, JobsKept
  <1> QED BY <1>1, <1>3, <1>5 DEF NobodyEndsUnasked

LEMMA RouterInv ==
  ASSUME IInv, NEW r \in Router, RouterStep(r) PROVE IInv'
  <1>0. TablesOK /\ CallsTyped /\ Mail /\ Jobs /\ NobodyEndsUnasked
    BY IInvParts
  <1>t. /\ cost[r] \in [Router -> Int] /\ nbr[r] \in SUBSET Router
        /\ vec[r] \in [Router -> [Router -> Int]]
        /\ \A s \in Router : s \in nbr[r] <=> s # r /\ Valid(cost[r][s])
        /\ \A s \in nbr[r] : cost[r][s] \in LinkCosts(r, s)
        /\ \A s \in Router : SoundVector(s, vec[r][s])
    BY <1>0 DEF TablesOK, TablesTyped, Table, Neighbours, Sound
  <1> SUFFICES TablesOK' /\ CallsTyped' /\ Mail' /\ Jobs' /\ NobodyEndsUnasked'
    BY IInvParts DEF IInv, TypeOK, TablesOK, TablesTyped, CallsTyped
  <1>1. CASE HandleVector(r)
    <2> DEFINE m == Head(queue[r])
               table == [vec[r] EXCEPT ![m.src] = m.dv]
    <2>0. /\ Accepts(r, "IRC") /\ UpdateDV(r, cost[r], nbr[r], table)
          /\ Dequeue(r) /\ UNCHANGED <<cost, nbr, up, started, missed, agent, job, issued, last>>
          /\ sending' \in [Router -> SUBSET Router]
      <3>1. sending \in [Router -> SUBSET Router]
        BY <1>0 DEF CallsTyped
      <3> QED BY <1>1, <1>t, <3>1 DEF HandleVector, agentVars, startVars
    <2>1. queue[r] # <<>> /\ m \in Message /\ m.type = "IRC" /\ Genuine(r, m)
      BY <1>0, <2>0, Accepted
    <2>2. m.src \in Router /\ m.dv \in [Router -> Int] /\ SoundVector(m.src, m.dv)
      BY <2>1, MessageFacts DEF Genuine
    <2>3. table \in [Router -> [Router -> Int]] /\ \A s \in Router : SoundVector(s, table[s])
      BY <1>t, <2>2
    <2>4. cost' = [cost EXCEPT ![r] = cost[r]] /\ nbr' = [nbr EXCEPT ![r] = nbr[r]]
      BY <2>0, <1>0 DEF TablesOK, TablesTyped, Table
    <2> HIDE DEF m, table
    <2>5. TablesOK'
      BY <1>0, <1>t, <2>0, <2>3, <2>4, TablesUpdated
    <2>6. queue' \in [Router -> Seq(Message)] /\ Mail'
      BY <1>0, <2>0, <2>1, DequeueMail DEF CallsTyped
    <2>7. CallsTyped' /\ NobodyEndsUnasked'
      BY <1>0, <2>0, <2>6 DEF CallsTyped, NobodyEndsUnasked
    <2>j. Jobs'
      BY <1>0, <2>0, JobsKept
    <2> QED BY <2>5, <2>6, <2>7, <2>j
  <1>2. CASE HandleUpdate(r)
    <2> DEFINE m == Head(queue[r])
               row == [cost[r] EXCEPT ![m.dest] = m.cost]
               nb == IF Valid(m.cost) THEN nbr[r] \cup {m.dest} ELSE nbr[r] \ {m.dest}
    <2>0. /\ Accepts(r, "UPDATE") /\ UpdateDV(r, row, nb, vec[r])
          /\ cost' = [cost EXCEPT ![r] = row] /\ nbr' = [nbr EXCEPT ![r] = nb]
          /\ Dequeue(r) /\ UNCHANGED <<sending, up, started, missed, agent, job, issued, last>>
      BY <1>2 DEF HandleUpdate, agentVars, startVars
    <2>1. queue[r] # <<>> /\ m \in Message /\ m.type = "UPDATE" /\ Genuine(r, m)
      BY <1>0, <2>0, Accepted
    <2>2. /\ m.dest \in Router /\ m.cost \in Int
          /\ [src |-> r, dest |-> m.dest, cost |-> m.cost] \in Updates
      BY <2>1, MessageFacts DEF Genuine
    <2>3. m.dest # r
      BY <2>2, DvAssumption
    <2>4. Valid(m.cost) => m.cost \in LinkCosts(r, m.dest)
      BY <2>2 DEF LinkCosts
    <2> HIDE DEF m
    <2>5. row \in [Router -> Int] /\ nb \in SUBSET Router
      BY <1>t, <2>2
    <2>6. \A s \in Router : s \in nb <=> s # r /\ Valid(row[s])
      BY <1>t, <2>2, <2>3
    <2>7. \A s \in nb : row[s] \in LinkCosts(r, s)
      BY <1>t, <2>2, <2>4
    <2> HIDE DEF row, nb
    <2>8. TablesOK'
      BY <1>0, <1>t, <2>0, <2>5, <2>6, <2>7, TablesUpdated
    <2>9. queue' \in [Router -> Seq(Message)] /\ Mail'
      BY <1>0, <2>0, <2>1, DequeueMail DEF CallsTyped
    <2>10. CallsTyped' /\ NobodyEndsUnasked'
      BY <1>0, <2>0, <2>9 DEF CallsTyped, NobodyEndsUnasked
    <2>j. Jobs'
      BY <1>0, <2>0, JobsKept
    <2> QED BY <2>8, <2>9, <2>10, <2>j
  <1>3. CASE HandleDv(r) \/ HandleReset(r)
    <2>0. /\ \E kind \in {"DV", "RESET"} : Accepts(r, kind)
          /\ Dequeue(r) /\ UNCHANGED <<tables, up, started, missed, agent, job, issued, last>>
          /\ sending' \in [Router -> SUBSET Router]
      <3>1. sending \in [Router -> SUBSET Router]
        BY <1>0 DEF CallsTyped
      <3> QED BY <1>3, <1>t, <3>1 DEF HandleDv, HandleReset, agentVars, startVars
    <2>1. queue[r] # <<>>
      BY <2>0 DEF Accepts
    <2>2. TablesOK'
      BY <1>0, <2>0, TablesKept
    <2>3. queue' \in [Router -> Seq(Message)] /\ Mail'
      BY <1>0, <2>0, <2>1, DequeueMail DEF CallsTyped
    <2>4. CallsTyped' /\ NobodyEndsUnasked'
      BY <1>0, <2>0, <2>3 DEF CallsTyped, NobodyEndsUnasked
    <2>j. Jobs'
      BY <1>0, <2>0, JobsKept
    <2> QED BY <2>2, <2>3, <2>4, <2>j
  <1>4. CASE HandleShow(r)
    <2>0. /\ Accepts(r, "SHOW") /\ agent' = "ready"
          /\ Dequeue(r) /\ UNCHANGED <<tables, sending, up, started, missed, job, issued, last>>
      BY <1>4 DEF HandleShow, startVars
    <2>1. queue[r] # <<>> /\ Head(queue[r]).type = "SHOW" /\ agent = "await"
      BY <1>0, <2>0, Accepted
    <2>2. TablesOK'
      BY <1>0, <2>0, TablesKept
    <2>3. queue' \in [Router -> Seq(Message)] /\ Mail'
      BY <1>0, <2>0, <2>1, DequeueMail DEF CallsTyped
    <2>4. last # "QUIT"
      BY <1>0, <2>1 DEF Jobs
    <2>5. CallsTyped' /\ NobodyEndsUnasked'
      BY <1>0, <2>0, <2>3 DEF CallsTyped, NobodyEndsUnasked
    <2>j. Jobs'
      BY <1>0, <2>0, <2>1, <2>4, JobsKept
    <2> QED BY <2>2, <2>3, <2>5, <2>j
  <1>5. CASE HandleQuit(r)
    <2>0. /\ Accepts(r, "QUIT") /\ EndRouter(r)
          /\ UNCHANGED <<tables, started, missed, job, issued, last>>
      BY <1>5 DEF HandleQuit, startVars
    <2>1. last = "QUIT"
      BY <1>0, <2>0, Accepted
    <2>2. missed' \in BOOLEAN
      BY <1>0, <2>0 DEF CallsTyped
    <2> QED BY <1>0, <2>0, <2>1, <2>2, TablesKept, EndRouterStep
  <1>6. CASE SendToNext(r)
    <2> DEFINE t == NextNeighbour(r)
               m == Vector(r, vec[r][r])
    <2>0. /\ sending[r] # {} /\ queue' = [queue EXCEPT ![t] = Append(@, m)]
          /\ sending' = [sending EXCEPT ![r] = @ \ {t}]
          /\ UNCHANGED <<tables, up, started, missed, agent, job, issued, last>>
      BY <1>6 DEF SendToNext, agentVars, startVars
    <2>1. sending[r] \in SUBSET Router
      BY <1>0 DEF CallsTyped
    <2>2. t \in Router
      BY <2>0, <2>1, LeastRouter DEF NextNeighbour
    <2>3. m \in Message /\ m.type = "IRC" /\ Genuine(t, m)
      <3>1. vec[r][r] \in [Router -> Int] /\ SoundVector(r, vec[r][r])
        BY <1>t
      <3> QED BY <3>1, MadeMessages DEF Genuine, Vector
    <2> HIDE DEF t, m
    <2>4. TablesOK'
      BY <1>0, <2>0, TablesKept
    <2>5. queue' \in [Router -> Seq(Message)] /\ Mail'
      BY <1>0, <2>0, <2>2, <2>3, AppendMail DEF CallsTyped
    <2>6. sending' \in [Router -> SUBSET Router]
      BY <1>0, <2>0 DEF CallsTyped
    <2>7. CallsTyped' /\ NobodyEndsUnasked'
      BY <1>0, <2>0, <2>5, <2>6 DEF CallsTyped, NobodyEndsUnasked
    <2>j. Jobs'
      BY <1>0, <2>0, JobsKept
    <2> QED BY <2>4, <2>5, <2>7, <2>j
  <1>7. CASE SendRefused(r)
    <2>0. /\ sending[r] # {} /\ NextNeighbour(r) \notin up /\ EndRouter(r)
          /\ UNCHANGED <<tables, started, job, issued, last>>
          /\ missed' = (missed \/ NextNeighbour(r) \notin started)
      BY <1>7 DEF SendRefused, Refused
    <2>1. sending[r] \in SUBSET Router
      BY <1>0 DEF CallsTyped
    <2>2. NextNeighbour(r) \in Router
      BY <2>0, <2>1, LeastRouter DEF NextNeighbour
    <2>3. last = "QUIT" \/ missed'
      BY <1>0, <2>0, <2>2 DEF NobodyEndsUnasked
    <2>4. missed' \in BOOLEAN
      BY <1>0, <2>0 DEF CallsTyped
    <2> QED BY <1>0, <2>0, <2>3, <2>4, TablesKept, EndRouterStep
  <1> QED BY <1>1, <1>2, <1>3, <1>4, <1>5, <1>6, <1>7 DEF RouterStep, Handle

JobType == [to : Router, msg : Message]

LEMMA ToAllTyped ==
  ASSUME NEW kind \in {"DV", "QUIT"}
  PROVE  /\ ToAll(Order(kind)) \in Seq(JobType) /\ ToAll(Order(kind)) # <<>>
         /\ \A k \in 1..Len(ToAll(Order(kind))) : ToAll(Order(kind))[k].msg = Order(kind)
  <1>1. N \in Nat \ {0} /\ Order(kind) \in Message
    BY DvAssumption, MadeMessages
  <1>2. \A k \in 1..N : k - 1 \in Router
    BY <1>1 DEF Router
  <1> DEFINE seq == [k \in 1..N |-> [to |-> k - 1, msg |-> Order(kind)]]
  <1>3. seq \in [1..N -> JobType]
    BY <1>1, <1>2 DEF JobType
  <1>4. seq \in Seq(JobType) /\ Len(seq) = N
    BY <1>1, <1>3
  <1> QED BY <1>1, <1>4 DEF ToAll

LEMMA OneJobTyped ==
  ASSUME NEW r \in Router, NEW m \in Message
  PROVE  LET one == << [to |-> r, msg |-> m] >> IN
         one \in Seq(JobType) /\ Len(one) = 1 /\ one # <<>> /\ one[1].to = r /\ one[1].msg = m
  BY DEF JobType

\* A router comes to listen.
LEMMA StartInv ==
  ASSUME IInv, NEW r \in Router, Start(r) PROVE IInv'
  <1>1. /\ started' = started \cup {r} /\ up' = up \cup {r}
        /\ UNCHANGED <<tables, queue, sending, missed, agent, job, issued, last>>
    BY DEF Start, agentVars
  <1>2. TablesOK /\ CallsTyped /\ Mail /\ Jobs /\ NobodyEndsUnasked
    BY IInvParts
  <1>3. TablesOK'
    BY <1>1, <1>2, TablesKept
  <1>4. CallsTyped' /\ NobodyEndsUnasked'
    BY <1>1, <1>2 DEF CallsTyped, NobodyEndsUnasked
  <1>5. Mail' /\ Jobs'
    BY <1>1, <1>2 DEF Mail, Jobs, Genuine, SoundVector
  <1> QED BY <1>3, <1>4, <1>5, IInvParts DEF IInv, TypeOK, TablesOK, TablesTyped, CallsTyped

Command ==
    \/ CommandUpdate
    \/ \E kind \in {"DV", "QUIT"} : CommandAll(kind)
    \/ \E kind \in {"SHOW", "RESET"} : CommandOne(kind)
    \/ EndOfInput

LEMMA UserSteps == UserStep <=> Command \/ \E r \in Router : Start(r)
  BY DEF UserStep, Command

LEMMA CommandInv ==
  ASSUME IInv, Command PROVE IInv'
  <1>0. TablesOK /\ CallsTyped /\ Mail /\ Jobs /\ NobodyEndsUnasked
    BY IInvParts
  <1> SUFFICES TablesOK' /\ CallsTyped' /\ Mail' /\ Jobs' /\ NobodyEndsUnasked'
    BY IInvParts DEF IInv, TypeOK, TablesOK, TablesTyped, CallsTyped
  <1>1. PICK kind : CanCommand(kind) /\ UNCHANGED <<tables, queue, sending, up, started, missed>>
                    /\ issued' = issued + 1
    BY DEF Command, CommandUpdate, CommandAll, CommandOne, EndOfInput, startVars
  <1>2. agent = "ready" /\ job = <<>> /\ issued' \in 0..MaxCommands
    BY <1>0, <1>1, DvAssumption DEF CanCommand, CallsTyped
  <1>3. last # "QUIT" /\ (up = started \/ missed)
    BY <1>0, <1>2 DEF Jobs, NobodyEndsUnasked
  <1>4. TablesOK' /\ NobodyEndsUnasked'
    BY <1>0, <1>1, <1>3, TablesKept DEF NobodyEndsUnasked
  <1>5. \A r \in Router : \A k \in 1..Len(queue[r]) :
          Genuine(r, queue[r][k]) /\ queue[r][k].type \notin {"QUIT", "SHOW"}
    BY <1>0, <1>2, <1>3 DEF Mail
  <1>6. Mail'
    BY <1>1, <1>5 DEF Mail, Genuine, SoundVector
  <1> SUFFICES /\ agent' \in {"ready", "ended"} /\ job' \in Seq(JobType)
               /\ last' \in {"none", "UPDATE", "DV", "QUIT"}
               /\ Jobs'
    BY <1>0, <1>1, <1>2, <1>4, <1>6 DEF CallsTyped, JobType
  <1>7. CASE CommandUpdate
    <2>0. PICK u \in Updates : job' = << [to |-> u.src, msg |-> Update(u.dest, u.cost)] >>
      BY <1>7 DEF CommandUpdate
    <2>1. u.src \in Router /\ u.dest \in Router /\ u.cost \in Int
          /\ u = [src |-> u.src, dest |-> u.dest, cost |-> u.cost]
      BY DvAssumption
    <2> DEFINE m == Update(u.dest, u.cost)
    <2>2. m \in Message /\ m.type = "UPDATE" /\ Genuine(u.src, m)
      BY <2>1, MadeMessages DEF Update, Genuine
    <2> HIDE DEF m
    <2>3. /\ job' = << [to |-> u.src, msg |-> m] >> /\ job' \in Seq(JobType)
          /\ Len(job') = 1 /\ job'[1].to = u.src /\ job'[1].msg = m /\ job' # <<>>
      <3>1. job' = << [to |-> u.src, msg |-> m] >>
        BY <2>0 DEF m
      <3> QED BY <3>1, <2>1, <2>2, OneJobTyped
    <2>4. agent' = agent /\ last' = "UPDATE"
      BY <1>7 DEF CommandUpdate
    <2>5. Jobs'
      BY <2>2, <2>3, <2>4, <1>2 DEF Jobs, Genuine, SoundVector
    <2> QED BY <2>3, <2>4, <2>5, <1>2
  <1>8. ASSUME NEW kd \in {"DV", "QUIT"}, CommandAll(kd)
        PROVE  /\ agent' \in {"ready", "ended"} /\ job' \in Seq(JobType)
               /\ last' \in {"none", "UPDATE", "DV", "QUIT"} /\ Jobs'
    <2>0. job' = ToAll(Order(kd)) /\ last' = kd /\ agent' = agent
      BY <1>8 DEF CommandAll
    <2>1. /\ job' \in Seq(JobType) /\ job' # <<>>
          /\ \A k \in 1..Len(job') : job'[k].msg = Order(kd)
      BY <2>0, ToAllTyped
    <2>2. /\ Order(kd).type = kd
          /\ \A r : Genuine(r, Order(kd))
      BY DEF Order, Genuine
    <2>3. Jobs'
      BY <2>0, <2>1, <2>2, <1>2 DEF Jobs, Genuine, SoundVector
    <2> QED BY <2>0, <2>1, <2>3, <1>2
  <1>9. ASSUME NEW kd \in {"SHOW", "RESET"}, CommandOne(kd)
        PROVE  /\ agent' \in {"ready", "ended"} /\ job' \in Seq(JobType)
               /\ last' \in {"none", "UPDATE", "DV", "QUIT"} /\ Jobs'
    <2>0. PICK r \in Router : job' = << [to |-> r, msg |-> Order(kd)] >>
      BY <1>9 DEF CommandOne
    <2>1. last' = last /\ agent' = agent
      BY <1>9 DEF CommandOne
    <2>2. Order(kd) \in Message /\ Order(kd).type = kd /\ Genuine(r, Order(kd))
      BY MadeMessages DEF Order, Genuine
    <2>3. /\ job' \in Seq(JobType)
          /\ Len(job') = 1 /\ job'[1].to = r /\ job'[1].msg = Order(kd) /\ job' # <<>>
      BY <2>0, <2>2, OneJobTyped
    <2>4. Jobs'
      BY <2>1, <2>2, <2>3, <1>2, <1>3 DEF Jobs, Genuine, SoundVector
    <2> QED BY <2>1, <2>3, <2>4, <1>0, <1>2 DEF CallsTyped
  <1>10. CASE EndOfInput
    <2>0. agent' = "ended" /\ job' = job /\ last' = last
      BY <1>10 DEF EndOfInput
    <2>1. Jobs'
      BY <2>0, <1>2, <1>3 DEF Jobs
    <2> QED BY <2>0, <2>1, <1>0 DEF CallsTyped, JobType
  <1> QED BY <1>7, <1>8, <1>9, <1>10 DEF Command

LEMMA AgentInv ==
  ASSUME IInv, AgentStep PROVE IInv'
  <1>0. TablesOK /\ CallsTyped /\ Mail /\ Jobs /\ NobodyEndsUnasked
    BY IInvParts
  <1> SUFFICES TablesOK' /\ CallsTyped' /\ Mail' /\ Jobs' /\ NobodyEndsUnasked'
    BY IInvParts DEF IInv, TypeOK, TablesOK, TablesTyped, CallsTyped
  <1>j. agent = "ready" /\ job # <<>> /\ job \in Seq(JobType)
    BY <1>0 DEF AgentStep, Deliver, DeliveryRefused, CallsTyped, JobType
  <1>k. /\ Len(job) \in Nat /\ 1 \in 1..Len(job) /\ Head(job) = job[1] /\ job[1] \in JobType
        /\ Tail(job) \in Seq(JobType) /\ Len(Tail(job)) = Len(job) - 1
        /\ \A k \in 1..Len(Tail(job)) : k + 1 \in 1..Len(job) /\ Tail(job)[k] = job[k + 1]
    BY <1>j, TailFacts
  <1>1. CASE Deliver
    <2> DEFINE t == Head(job).to
               m == Head(job).msg
    <2>0. /\ queue' = [queue EXCEPT ![t] = Append(@, m)] /\ job' = Tail(job)
          /\ agent' = CASE m.type = "SHOW" -> "await"
                        [] m.type = "QUIT" /\ Tail(job) = <<>> -> "ended"
                        [] OTHER -> "ready"
          /\ UNCHANGED <<tables, sending, up, started, missed, issued, last>>
      BY <1>1 DEF Deliver, startVars
    <2>1. /\ t \in Router /\ m \in Message /\ Genuine(t, m)
          /\ m.type = "QUIT" => last = "QUIT"
          /\ m.type = "SHOW" => Len(job) = 1
          /\ last = "QUIT" => m.type = "QUIT"
      BY <1>0, <1>k DEF Jobs, JobType
    <2> HIDE DEF t, m
    <2>2. /\ m.type = "SHOW" => agent' = "await"
          /\ m.type = "QUIT" /\ Tail(job) = <<>> => agent' = "ended"
          /\ m.type # "SHOW" /\ (m.type # "QUIT" \/ Tail(job) # <<>>) => agent' = "ready"
      BY <2>0
    <2>3. queue' \in [Router -> Seq(Message)] /\ Mail'
      BY <1>0, <1>j, <2>0, <2>1, <2>2, AppendMail DEF CallsTyped
    <2>4. TablesOK' /\ NobodyEndsUnasked'
      BY <1>0, <2>0, TablesKept DEF NobodyEndsUnasked
    <2>5. CallsTyped'
      BY <1>0, <1>k, <2>0, <2>2, <2>3 DEF CallsTyped, JobType
    <2>6. \A k \in 1..Len(Tail(job)) :
             /\ Genuine(Tail(job)[k].to, Tail(job)[k].msg)
             /\ Tail(job)[k].msg.type = "QUIT" => last = "QUIT"
             /\ Tail(job)[k].msg.type = "SHOW" => Len(job) = 1
             /\ last = "QUIT" => Tail(job)[k].msg.type = "QUIT"
      BY <1>0, <1>k DEF Jobs
    <2>7. Len(job) = 1 => Tail(job) = <<>>
      BY <1>k
    <2>8. Jobs'
      <3>1. ASSUME NEW k \in 1..Len(job')
            PROVE  /\ Genuine(job'[k].to, job'[k].msg)
                   /\ job'[k].msg.type = "QUIT" => last' = "QUIT"
                   /\ job'[k].msg.type = "SHOW" => Len(job') = 1
                   /\ last' = "QUIT" => job'[k].msg.type = "QUIT"
        <4>1. k \in 1..Len(Tail(job)) /\ job'[k] = Tail(job)[k] /\ last' = last
          BY <2>0
        <4>2. Len(job) # 1
          BY <4>1, <1>k
        <4> QED BY <4>1, <4>2, <2>6
      <3>2. agent' # "ready" => job' = <<>>
        BY <2>0, <2>1, <2>2, <2>7
      <3>3. last' = "QUIT" => agent' = "ended" \/ (agent' = "ready" /\ job' # <<>>)
        BY <2>0, <2>1, <2>2
      <3> QED BY <3>1, <3>2, <3>3 DEF Jobs, Genuine, SoundVector
    <2> QED BY <2>3, <2>4, <2>5, <2>8
  <1>2. CASE DeliveryRefused
    <2>0. /\ agent' = "ended" /\ job' = <<>>
          /\ UNCHANGED <<tables, queue, sending, up, started, issued, last>>
          /\ missed' = (missed \/ Head(job).to \notin started)
      BY <1>2 DEF DeliveryRefused, Refused
    <2>1. \A r \in Router : \A k \in 1..Len(queue[r]) : queue[r][k].type # "SHOW"
      BY <1>0, <1>j DEF Mail
    <2>2. Mail'
      BY <1>0, <2>0, <2>1 DEF Mail, Genuine, SoundVector
    <2>3. Jobs'
      BY <2>0 DEF Jobs
    <2>4. CallsTyped' /\ NobodyEndsUnasked'
      BY <1>0, <2>0 DEF CallsTyped, NobodyEndsUnasked
    <2> QED BY <1>0, <2>0, <2>2, <2>3, <2>4, TablesKept
  <1> QED BY <1>1, <1>2 DEF AgentStep

LEMMA StepInv == IInv /\ [Next]_vars => IInv'
  <1> SUFFICES ASSUME IInv, [Next]_vars PROVE IInv'
    OBVIOUS
  <1>1. CASE Next
    BY <1>1, RouterInv, StartInv, UserSteps, CommandInv, AgentInv DEF Next
  <1>2. CASE UNCHANGED vars
    <2>1. UNCHANGED <<tables, queue, sending, up, started, missed, agent, job, issued, last>>
      BY <1>2 DEF vars, agentVars, startVars
    <2>2. TablesOK'
      BY <2>1, IInvParts, TablesKept
    <2>3. CallsTyped' /\ Mail' /\ Jobs' /\ NobodyEndsUnasked'
      BY <2>1, IInvParts DEF CallsTyped, Mail, Jobs, NobodyEndsUnasked, Genuine, SoundVector
    <2> QED BY <2>2, <2>3, IInvParts DEF IInv, TypeOK, TablesOK, TablesTyped, CallsTyped
  <1> QED BY <1>1, <1>2

-----------------------------------------------------------------------------
THEOREM Invariance == Spec => []IInv
  BY InitInv, StepInv, PTL DEF Spec

(***************************************************************************)
(* Every variable keeps its type; in particular no next hop UpdateDV finds *)
(* is ever anything but a router, whatever way ends its loop.              *)
(***************************************************************************)
THEOREM TypeCorrect == Spec => []TypeOK
  <1>1. IInv => TypeOK
    BY DEF IInv
  <1> QED BY <1>1, Invariance, PTL

(***************************************************************************)
(* A connection that SendDV is refused ends the router (its return -1 is   *)
(* what ends main), and then those that connect to it.  Before the user    *)
(* says QUIT that happens only after some router or the agent connected to *)
(* a router that had not come to listen yet.                               *)
(***************************************************************************)
THEOREM NobodyEnds == Spec => []NobodyEndsUnasked
  <1>1. IInv => NobodyEndsUnasked
    BY DEF IInv
  <1> QED BY <1>1, Invariance, PTL

(***************************************************************************)
(* Every route UpdateDV leaves in a router's tables goes over a present    *)
(* link and costs what the router's tables say, between any two messages.  *)
(***************************************************************************)
THEOREM RoutesAreExplained == Spec => []RoutesExplained
  <1>1. IInv => RoutesExplained
    BY DEF IInv
  <1> QED BY <1>1, Invariance, PTL

(***************************************************************************)
(* No vector held or on its way has a distance below the cheapest path     *)
(* over the cheapest costs of the links, however stale the vectors were    *)
(* from which UpdateDV made it.                                            *)
(***************************************************************************)
THEOREM NoPhantom == Spec => []NoPhantomRoute
  <1>1. IInv => NoPhantomRoute
    <2> SUFFICES ASSUME IInv PROVE NoPhantomRoute
      OBVIOUS
    <2>1. \A r \in Router : DOMAIN queue[r] = 1..Len(queue[r])
      BY DEF IInv, TypeOK
    <2> QED BY <2>1 DEF IInv, NoPhantomRoute, Sound, Mail, Genuine
  <1> QED BY <1>1, Invariance, PTL

-----------------------------------------------------------------------------
(* Recursive functions, as tables of their values *)

\* What fails for a number up to a bound fails for a least one.
LEMMA LeastBad ==
  ASSUME NEW top \in Int, NEW Bad \in SUBSET (0..top), Bad # {}
  PROVE  \E n \in Bad : n \in Nat /\ n <= top /\ \A m \in Bad : n <= m
  <1>1. Bad \in SUBSET Nat
    OBVIOUS
  <1>2. PICK n \in Bad : \A m \in Bad : n <= m
    BY <1>1, LeastNat
  <1> QED BY <1>1, <1>2

LoopStart(r, to) == [d |-> cost[r][to], hop |-> IF Valid(cost[r][to]) THEN to ELSE 0]
LoopTable(r, to, n, g) ==
    g = [k \in 0..n |-> IF k = 0 THEN LoopStart(r, to) ELSE LoopRound(r, to, g[k-1], k - 1)]

(***************************************************************************)
(* The results of the rounds of UpdateDV's loop, as a table: the way after *)
(* k rounds.                                                               *)
(***************************************************************************)
LEMMA LoopRounds ==
  ASSUME NEW r, NEW to
  PROVE  \E after : /\ LoopResult(r, to) = after[N]
                    /\ after[0] = LoopStart(r, to)
                    /\ \A k \in 0..N-1 : after[k+1] = LoopRound(r, to, after[k], k)
  <1> DEFINE Bad == {n \in 0..N : ~ \E g : LoopTable(r, to, n, g)}
  <1>0. N \in Nat \ {0}
    BY DvAssumption
  <1>1. Bad = {}
    <2> SUFFICES ASSUME Bad # {} PROVE FALSE
      OBVIOUS
    <2>1. PICK n \in Bad : n \in Nat /\ n <= N /\ \A m \in Bad : n <= m
      <3>1. Bad \in SUBSET (0..N) /\ N \in Int
        BY <1>0
      <3> HIDE DEF Bad
      <3> QED BY <3>1, <1>0, LeastBad
    <2>2. n # 0
      <3> SUFFICES ASSUME n = 0 PROVE FALSE
        OBVIOUS
      <3> DEFINE g == [k \in 0..n |-> LoopStart(r, to)]
      <3>0. \A k \in 0..n : k = 0
        OBVIOUS
      <3>1. \A k \in 0..n : g[k] = IF k = 0 THEN LoopStart(r, to)
                                         ELSE LoopRound(r, to, g[k-1], k - 1)
        BY <3>0
      <3>2. LoopTable(r, to, n, g)
        BY <3>1 DEF LoopTable
      <3> QED BY <3>2
    <2>3. n - 1 \in 0..N /\ n - 1 \notin Bad
      BY <2>1, <2>2, <1>0
    <2>4. PICK g : LoopTable(r, to, n - 1, g)
      BY <2>3
    <2> DEFINE h == [k \in 0..n |-> IF k = n THEN LoopRound(r, to, g[n-1], n - 1) ELSE g[k]]
    <2>5. \A k \in 0..n :
             h[k] = IF k = 0 THEN LoopStart(r, to) ELSE LoopRound(r, to, h[k-1], k - 1)
      <3> SUFFICES ASSUME NEW k \in 0..n
                   PROVE h[k] = IF k = 0 THEN LoopStart(r, to) ELSE LoopRound(r, to, h[k-1], k - 1)
        OBVIOUS
      <3>1. CASE k = n
        <4>1. h[n-1] = g[n-1] /\ h[n] = LoopRound(r, to, g[n-1], n - 1)
          BY <2>1, <2>2
        <4> HIDE DEF h
        <4> QED BY <4>1, <3>1, <2>2
      <3>2. CASE k # n
        <4>1. k \in 0..n-1 /\ h[k] = g[k] /\ (k # 0 => h[k-1] = g[k-1])
          BY <2>1, <3>2
        <4>2. g[k] = IF k = 0 THEN LoopStart(r, to) ELSE LoopRound(r, to, g[k-1], k - 1)
          BY <4>1, <2>4 DEF LoopTable
        <4> HIDE DEF h
        <4> QED BY <4>1, <4>2
      <3> QED BY <3>1, <3>2
    <2>6. LoopTable(r, to, n, h)
      BY <2>5 DEF LoopTable
    <2> QED BY <2>1, <2>6
  <1>2. PICK g : LoopTable(r, to, N, g)
    BY <1>0, <1>1
  <1>3. \E after : LoopResult(r, to) = after[N] /\ LoopTable(r, to, N, after)
    BY <1>2 DEF LoopResult, LoopTable, LoopStart
  <1>4. PICK after : LoopResult(r, to) = after[N] /\ LoopTable(r, to, N, after)
    BY <1>3
  <1>5. \A k \in 0..N : after[k] = IF k = 0 THEN LoopStart(r, to) ELSE LoopRound(r, to, after[k-1], k - 1)
    BY <1>4 DEF LoopTable
  <1>6. after[0] = LoopStart(r, to)
    BY <1>0, <1>5
  <1>7. ASSUME NEW k \in 0..N-1 PROVE after[k+1] = LoopRound(r, to, after[k], k)
    <2>1. k + 1 \in 0..N /\ k + 1 # 0 /\ k + 1 - 1 = k
      BY <1>0
    <2>2. after[k+1] = LoopRound(r, to, after[k+1-1], k + 1 - 1)
      BY <2>1, <1>5
    <2> QED BY <2>1, <2>2
  <1> QED BY <1>4, <1>6, <1>7

\* No links at all, and the measure of paths over up to n links.
NoLinks == [r \in Router |-> [s \in Router |-> IF r = s THEN 0 ELSE Infinity]]
PathTable(n, g) == g = [k \in 0..n |-> IF k = 0 THEN NoLinks ELSE OneMoreLink(g[k-1])]

LEMMA WithinRounds ==
  /\ Within[0] = NoLinks
  /\ \A k \in 0..N-2 : Within[k+1] = OneMoreLink(Within[k])
  <1> DEFINE Bad == {n \in 0..N-1 : ~ \E g : PathTable(n, g)}
  <1>0. N \in Nat \ {0}
    BY DvAssumption
  <1>1. Bad = {}
    <2> SUFFICES ASSUME Bad # {} PROVE FALSE
      OBVIOUS
    <2>1. PICK n \in Bad : n \in Nat /\ n <= N - 1 /\ \A m \in Bad : n <= m
      <3>1. Bad \in SUBSET (0..N-1) /\ N - 1 \in Int
        BY <1>0
      <3> HIDE DEF Bad
      <3> QED BY <3>1, LeastBad
    <2>2. n # 0
      <3> SUFFICES ASSUME n = 0 PROVE FALSE
        OBVIOUS
      <3> DEFINE g == [k \in 0..n |-> NoLinks]
      <3>0. \A k \in 0..n : k = 0
        OBVIOUS
      <3>1. PathTable(n, g)
        BY <3>0 DEF PathTable
      <3> QED BY <3>1
    <2>3. n - 1 \in 0..N-1 /\ n - 1 \notin Bad
      BY <2>1, <2>2, <1>0
    <2>4. PICK g : PathTable(n - 1, g)
      BY <2>3
    <2> DEFINE h == [k \in 0..n |-> IF k = n THEN OneMoreLink(g[n-1]) ELSE g[k]]
    <2>5. \A k \in 0..n : h[k] = IF k = 0 THEN NoLinks ELSE OneMoreLink(h[k-1])
      <3> SUFFICES ASSUME NEW k \in 0..n
                   PROVE h[k] = IF k = 0 THEN NoLinks ELSE OneMoreLink(h[k-1])
        OBVIOUS
      <3>1. CASE k = n
        <4>1. h[n-1] = g[n-1] /\ h[n] = OneMoreLink(g[n-1])
          BY <2>1, <2>2
        <4> HIDE DEF h
        <4> QED BY <4>1, <3>1, <2>2
      <3>2. CASE k # n
        <4>1. k \in 0..n-1 /\ h[k] = g[k] /\ (k # 0 => h[k-1] = g[k-1])
          BY <2>1, <3>2
        <4>2. g[k] = IF k = 0 THEN NoLinks ELSE OneMoreLink(g[k-1])
          BY <4>1, <2>4 DEF PathTable
        <4> HIDE DEF h
        <4> QED BY <4>1, <4>2
      <3> QED BY <3>1, <3>2
    <2>6. PathTable(n, h)
      BY <2>5 DEF PathTable
    <2> QED BY <2>1, <2>6
  <1>2. PICK g : PathTable(N - 1, g)
    BY <1>0, <1>1
  <1>3. PathTable(N - 1, Within)
    BY <1>2 DEF Within, PathTable, NoLinks
  <1>5. \A k \in 0..N-1 : Within[k] = IF k = 0 THEN NoLinks ELSE OneMoreLink(Within[k-1])
    BY <1>3 DEF PathTable
  <1>6. Within[0] = NoLinks
    BY <1>0, <1>5
  <1>7. ASSUME NEW k \in 0..N-2 PROVE Within[k+1] = OneMoreLink(Within[k])
    <2>1. k + 1 \in 0..N-1 /\ k + 1 # 0 /\ k + 1 - 1 = k
      BY <1>0
    <2>2. Within[k+1] = OneMoreLink(Within[k+1-1])
      BY <2>1, <1>5
    <2> QED BY <2>1, <2>2
  <1> QED BY <1>6, <1>7

-----------------------------------------------------------------------------
(* UpdateDV's loop ends with the way ChosenWay names. *)

LEMMA NoneCheaper ==
  ASSUME NEW a \in Int, NEW b \in Int, NEW i \in Int, NEW j \in Int, ~(b < a), i < j
  PROVE  a < b \/ (a = b /\ i <= j)
  OBVIOUS

LEMMA SumIsValid ==
  ASSUME NEW a \in Int, NEW b \in Int, NEW c \in Int, Valid(a), Valid(b), Valid(c), a + b < c
  PROVE  Valid(a + b)
  BY DvAssumption DEF Valid

LEMMA ChosenIsUnique ==
  ASSUME NEW ways, \A w \in ways : w.d \in Int /\ w.by \in Int,
         \A w, x \in ways : w.by = x.by => w = x,
         NEW u, NEW v, IsChosen(ways, u), IsChosen(ways, v)
  PROVE  u = v
  <1>1. u \in ways /\ v \in ways /\ u.d \in Int /\ v.d \in Int /\ u.by \in Int /\ v.by \in Int
    BY DEF IsChosen
  <1>2. CASE \E x \in ways : Valid(x.d)
    <2>1. /\ u.d < v.d \/ (u.d = v.d /\ u.by <= v.by)
          /\ v.d < u.d \/ (v.d = u.d /\ v.by <= u.by)
      BY <1>1, <1>2 DEF IsChosen
    <2>2. u.by = v.by
      BY <2>1, <1>1
    <2> QED BY <2>2, <1>1
  <1>3. CASE \A x \in ways : ~Valid(x.d)
    <2>1. u.by <= v.by /\ v.by <= u.by
      BY <1>1, <1>3 DEF IsChosen
    <2>2. u.by = v.by
      BY <2>1, <1>1
    <2> QED BY <2>2, <1>1
  <1> QED BY <1>2, <1>3

\* The two kinds of ways.
OwnWay(row, to) == [d |-> row[to], hop |-> IF Valid(row[to]) THEN to ELSE 0, by |-> -1]
WayOver(row, table, to, mid) == [d |-> table[mid][to] + row[mid], hop |-> mid, by |-> mid]

LEMMA WaysAre ==
  ASSUME NEW row \in [Router -> Int], NEW nb \in SUBSET Router,
         NEW table \in [Router -> [Router -> Int]], NEW to \in Router
  PROVE  LET ways == Ways(row, nb, table, to) IN
         /\ OwnWay(row, to) \in ways
         /\ \A mid \in nb : Valid(table[mid][to]) => WayOver(row, table, to, mid) \in ways
         /\ \A w \in ways :
               \/ w = OwnWay(row, to)
               \/ \E mid \in nb : Valid(table[mid][to]) /\ w = WayOver(row, table, to, mid)
         /\ \A w \in ways : w.d \in Int /\ w.by \in -1..N-1 /\ w.by \in Int
         /\ \A w, x \in ways : w.by = x.by => w = x
         /\ OwnWay(row, to).by = -1
         /\ \A mid \in nb : WayOver(row, table, to, mid).by = mid /\ mid \in 0..N-1
  <1> DEFINE ways == Ways(row, nb, table, to)
  <1>a. ways = {OwnWay(row, to)} \cup {WayOver(row, table, to, mid) : mid \in Mids(nb, table, to)}
    BY DEF Ways, OwnWay, WayOver
  <1>b. \A mid : mid \in Mids(nb, table, to) <=> mid \in nb /\ Valid(table[mid][to])
    BY DEF Mids
  <1>1. /\ OwnWay(row, to) \in ways
        /\ \A mid \in nb : Valid(table[mid][to]) => WayOver(row, table, to, mid) \in ways
        /\ \A w \in ways :
               \/ w = OwnWay(row, to)
               \/ \E mid \in nb : Valid(table[mid][to]) /\ w = WayOver(row, table, to, mid)
    <2> HIDE DEF ways
    <2> QED BY <1>a, <1>b
  <1>2. OwnWay(row, to).d \in Int /\ OwnWay(row, to).by = -1
    BY DEF OwnWay
  <1>3. \A mid \in nb : /\ WayOver(row, table, to, mid).d \in Int
                        /\ WayOver(row, table, to, mid).by = mid /\ mid \in 0..N-1
    <2> SUFFICES ASSUME NEW mid \in nb
                 PROVE  /\ WayOver(row, table, to, mid).d \in Int
                        /\ WayOver(row, table, to, mid).by = mid /\ mid \in 0..N-1
      OBVIOUS
    <2>1. mid \in Router /\ table[mid][to] \in Int /\ row[mid] \in Int
      OBVIOUS
    <2> QED BY <2>1 DEF WayOver, Router
  <1>4. N \in Nat \ {0}
    BY DvAssumption
  <1> HIDE DEF ways
  <1>5. \A w \in ways : w.d \in Int /\ w.by \in -1..N-1 /\ w.by \in Int
    BY <1>1, <1>2, <1>3, <1>4
  <1>6. \A w, x \in ways : w.by = x.by => w = x
    <2> SUFFICES ASSUME NEW w \in ways, NEW x \in ways, w.by = x.by PROVE w = x
      OBVIOUS
    <2>1. CASE w = OwnWay(row, to)
      <3>1. ~ \E mid \in nb : x = WayOver(row, table, to, mid)
        BY <2>1, <1>2, <1>3
      <3> QED BY <2>1, <3>1, <1>1
    <2>2. CASE \E mid \in nb : w = WayOver(row, table, to, mid)
      <3>1. PICK mid \in nb : w = WayOver(row, table, to, mid)
        BY <2>2
      <3>2. x # OwnWay(row, to)
        BY <3>1, <1>2, <1>3
      <3>3. PICK m2 \in nb : x = WayOver(row, table, to, m2)
        BY <3>2, <1>1
      <3>4. mid = m2
        BY <3>1, <3>3, <1>3
      <3> QED BY <3>1, <3>3, <3>4
    <2> QED BY <2>1, <2>2, <1>1
  <1> QED BY <1>1, <1>2, <1>3, <1>5, <1>6 DEF ways

(***************************************************************************)
(* A round of the loop turns the chosen of the ways seen so far into the   *)
(* chosen of those and the one it looks at.                                *)
(***************************************************************************)
WaysSeen(r, to, k) == {w \in Ways(cost[r], nbr[r], vec[r], to) : w.by < k}

RowTyped(r) ==
    /\ cost[r] \in [Router -> Int] /\ nbr[r] \in SUBSET Router
    /\ vec[r] \in [Router -> [Router -> Int]]
    /\ \A s \in nbr[r] : Valid(cost[r][s])

RoundGives(r, to, k, w) ==
    \E v : /\ IsChosen(WaysSeen(r, to, k + 1), v)
           /\ LoopRound(r, to, [d |-> w.d, hop |-> w.hop], k) = [d |-> v.d, hop |-> v.hop]

LEMMA RoundChooses ==
  ASSUME NEW r \in Router, NEW to \in Router, RowTyped(r),
         NEW k \in 0..N-1, NEW w, IsChosen(WaysSeen(r, to, k), w)
  PROVE  RoundGives(r, to, k, w)
  <1> DEFINE ways == Ways(cost[r], nbr[r], vec[r], to)
             old == WaysSeen(r, to, k)
             new == WaysSeen(r, to, k + 1)
             over == WayOver(cost[r], vec[r], to, k)
             round == LoopRound(r, to, [d |-> w.d, hop |-> w.hop], k)
  <1> USE DEF RowTyped
  <1> SUFFICES \E v : IsChosen(new, v) /\ round = [d |-> v.d, hop |-> v.hop]
    BY DEF RoundGives
  <1>0. k \in Int /\ k \in Nat
    BY DvAssumption
  <1>a. /\ OwnWay(cost[r], to) \in ways
        /\ \A mid \in nbr[r] :
              Valid(vec[r][mid][to]) => WayOver(cost[r], vec[r], to, mid) \in ways
        /\ \A x \in ways :
              \/ x = OwnWay(cost[r], to)
              \/ \E mid \in nbr[r] : Valid(vec[r][mid][to])
                                    /\ x = WayOver(cost[r], vec[r], to, mid)
        /\ \A x \in ways : x.d \in Int /\ x.by \in -1..N-1 /\ x.by \in Int
        /\ \A x, y \in ways : x.by = y.by => x = y
        /\ OwnWay(cost[r], to).by = -1
        /\ \A mid \in nbr[r] : WayOver(cost[r], vec[r], to, mid).by = mid /\ mid \in 0..N-1
    BY WaysAre
  <1>s. \A j : WaysSeen(r, to, j) = {x \in ways : x.by < j}
    BY DEF WaysSeen
  <1> HIDE DEF ways
  <1>1. /\ \A x \in ways : x.d \in Int /\ x.by \in Int
        /\ \A x, y \in ways : x.by = y.by => x = y
        /\ \A x \in ways : x.by = -1 \/ \E mid \in nbr[r] : Valid(vec[r][mid][to]) /\ x.by = mid
        /\ \A mid \in nbr[r] :
              Valid(vec[r][mid][to]) => WayOver(cost[r], vec[r], to, mid) \in ways
        /\ \A mid \in nbr[r] : WayOver(cost[r], vec[r], to, mid).by = mid
    BY <1>a
  <1>2. /\ old \subseteq ways /\ old \subseteq new /\ new \subseteq ways
        /\ \A x \in new : x \in old \/ x.by = k
        /\ \A x \in old : x.by < k
    <2>1. \A x \in ways : x.by < k => x.by < k + 1
      BY <1>0, <1>1
    <2>2. \A x \in ways : x.by < k + 1 => x.by < k \/ x.by = k
      <3>1. \A i \in Int : i < k + 1 => i < k \/ i = k
        BY <1>0
      <3> QED BY <3>1, <1>1
    <2> QED BY <2>1, <2>2, <1>s
  <1>3. CASE k \notin nbr[r] \/ ~Valid(vec[r][k][to])
    <2>1. \A x \in new : x \in old
      <3> SUFFICES ASSUME NEW x \in new, x.by = k PROVE FALSE
        BY <1>2
      <3>1. x \in ways /\ x.by # -1
        BY <1>0, <1>2
      <3>2. PICK mid \in nbr[r] : Valid(vec[r][mid][to]) /\ x.by = mid
        BY <3>1, <1>1
      <3> QED BY <3>2, <1>3
    <2>2. new = old
      BY <2>1, <1>2
    <2>3. round = [d |-> w.d, hop |-> w.hop]
      BY <1>3 DEF LoopRound
    <2> QED BY <2>2, <2>3
  <1>4. CASE k \in nbr[r] /\ Valid(vec[r][k][to])
    <2>1. over \in ways /\ over.by = k
      BY <1>1, <1>4
    <2>2. over \in new /\ \A x \in new : x \in old \/ x = over
      <3>1. over \in new
        BY <2>1, <1>0, <1>s
      <3>2. \A x \in new : x.by = k => x = over
        BY <2>1, <1>1, <1>2
      <3> QED BY <3>1, <3>2, <1>2
    <2>3. /\ over.d = vec[r][k][to] + cost[r][k] /\ over.hop = k
          /\ vec[r][k][to] \in Int /\ cost[r][k] \in Int /\ over.d \in Int
      BY <1>4 DEF WayOver
    <2>4. w \in old /\ w.d \in Int /\ w.by \in Int /\ w.by < k
      BY <1>1, <1>2 DEF IsChosen
    <2>5. round = IF ~Valid(w.d) \/ over.d < w.d THEN [d |-> over.d, hop |-> over.hop]
                  ELSE [d |-> w.d, hop |-> w.hop]
      BY <1>4, <2>3 DEF LoopRound
    <2>6. IsChosen(old, w)
      OBVIOUS
    <2>7. \A x \in new : x.d \in Int /\ x.by \in Int
      BY <1>1, <1>2
    <2> HIDE DEF old, new, over, round
    <2>8. CASE ~Valid(w.d)
      <3>1. \A x \in old : ~Valid(x.d)
        BY <2>6, <2>8 DEF IsChosen
      <3>2. \A x \in new : Valid(x.d) => x = over
        BY <3>1, <2>2
      <3>3. \A x \in new : x.by <= over.by
        BY <1>0, <1>2, <2>1, <2>2, <2>7
      <3>4. over.d = over.d /\ over.by <= over.by
        BY <1>0, <2>1
      <3>5. IsChosen(new, over)
        BY <2>2, <3>2, <3>3, <3>4 DEF IsChosen
      <3> QED BY <3>5, <2>5, <2>8 DEF new, round
    <2>9. CASE Valid(w.d) /\ over.d < w.d
      <3>1. \A x \in old : Valid(x.d) => w.d <= x.d
        <4> SUFFICES ASSUME NEW x \in old, Valid(x.d) PROVE w.d <= x.d
          OBVIOUS
        <4>1. x.d \in Int /\ (w.d < x.d \/ w.d = x.d)
          BY <2>6, <2>7, <1>2 DEF IsChosen
        <4> QED BY <4>1, <2>4
      <3>2. \A x \in old : Valid(x.d) => over.d < x.d
        BY <3>1, <2>3, <2>4, <2>7, <2>9, <1>2
      <3>3. CASE Valid(over.d)
        <4>1. IsChosen(new, over)
          BY <2>2, <3>2, <3>3, <1>0, <2>1 DEF IsChosen
        <4> QED BY <4>1, <2>5, <2>9 DEF new, round
      <3>4. Valid(over.d)
        <4>1. Valid(cost[r][k]) /\ Valid(vec[r][k][to])
          BY <1>4
        <4>2. Valid(vec[r][k][to] + cost[r][k])
          BY <4>1, <2>3, <2>4, <2>9, SumIsValid
        <4> QED BY <4>2, <2>3
      <3> QED BY <3>3, <3>4
    <2>10. CASE Valid(w.d) /\ ~(over.d < w.d)
      <3>1. w.d < over.d \/ (w.d = over.d /\ w.by <= over.by)
        <4>1. over.by \in Int /\ w.by < over.by
          BY <1>0, <2>1, <2>4
        <4> QED BY <4>1, <2>3, <2>4, <2>10, NoneCheaper
      <3>2. \A x \in old : Valid(x.d) => w.d < x.d \/ (w.d = x.d /\ w.by <= x.by)
        BY <2>4, <2>6, <2>10 DEF IsChosen
      <3>3. IsChosen(new, w)
        BY <2>2, <2>4, <2>10, <3>1, <3>2, <1>2 DEF IsChosen
      <3> QED BY <3>3, <2>5, <2>10 DEF new, round
    <2> QED BY <2>8, <2>9, <2>10
  <1> QED BY <1>3, <1>4

\* Without the ways over neighbours there is only the own link.
LEMMA FirstWay ==
  ASSUME NEW r \in Router, NEW to \in Router,
         cost[r] \in [Router -> Int], nbr[r] \in SUBSET Router,
         vec[r] \in [Router -> [Router -> Int]]
  PROVE  /\ IsChosen(WaysSeen(r, to, 0), OwnWay(cost[r], to))
         /\ LoopStart(r, to) = [d |-> OwnWay(cost[r], to).d, hop |-> OwnWay(cost[r], to).hop]
         /\ WaysSeen(r, to, N) = Ways(cost[r], nbr[r], vec[r], to)
  <1> DEFINE ways == Ways(cost[r], nbr[r], vec[r], to)
             own == OwnWay(cost[r], to)
  <1>1. /\ own \in ways /\ own.by = -1
        /\ \A x \in ways : x = own \/ \E mid \in nbr[r] : x = WayOver(cost[r], vec[r], to, mid)
        /\ \A x \in ways : x.d \in Int /\ x.by \in -1..N-1 /\ x.by \in Int
        /\ \A mid \in nbr[r] : WayOver(cost[r], vec[r], to, mid).by = mid /\ mid \in 0..N-1
    <2>1. /\ OwnWay(cost[r], to) \in ways
          /\ \A x \in ways :
                \/ x = OwnWay(cost[r], to)
                \/ \E mid \in nbr[r] : Valid(vec[r][mid][to])
                                      /\ x = WayOver(cost[r], vec[r], to, mid)
          /\ \A x \in ways : x.d \in Int /\ x.by \in -1..N-1 /\ x.by \in Int
          /\ OwnWay(cost[r], to).by = -1
          /\ \A mid \in nbr[r] : WayOver(cost[r], vec[r], to, mid).by = mid /\ mid \in 0..N-1
      BY WaysAre
    <2> HIDE DEF ways, own
    <2> QED BY <2>1 DEF own
  <1>2. \A j : WaysSeen(r, to, j) = {x \in ways : x.by < j}
    BY DEF WaysSeen
  <1>3. LoopStart(r, to) = [d |-> own.d, hop |-> own.hop]
    BY DEF LoopStart, OwnWay
  <1>4. N \in Nat
    BY DvAssumption
  <1> HIDE DEF ways, own
  <1>5. \A x \in ways : x.by < 0 => x = own
    <2> SUFFICES ASSUME NEW x \in ways, x.by < 0, x # own PROVE FALSE
      OBVIOUS
    <2>1. PICK mid \in nbr[r] : x = WayOver(cost[r], vec[r], to, mid)
      BY <1>1
    <2>2. x.by = mid /\ mid \in 0..N-1
      BY <2>1, <1>1
    <2> QED BY <2>2, <1>4
  <1>6. WaysSeen(r, to, 0) = {own}
    BY <1>1, <1>2, <1>5
  <1>7. own.d \in Int /\ own.by \in Int /\ own.by <= own.by
    BY <1>1
  <1>8. IsChosen({own}, own)
    BY <1>7 DEF IsChosen
  <1>9. \A x \in ways : x.by < N
    BY <1>1, <1>4
  <1>10. WaysSeen(r, to, N) = ways
    BY <1>2, <1>9
  <1> QED BY <1>3, <1>6, <1>8, <1>10 DEF ways, own

(***************************************************************************)
(* UpdateDV's loop, round by round, comes to the way ChosenWay picks.      *)
(***************************************************************************)
LEMMA LoopIsChosenWay ==
  ASSUME NEW r \in Router, NEW to \in Router,
         RowTyped(r)
  PROVE  LET w == ChosenWay(Ways(cost[r], nbr[r], vec[r], to))
         IN  LoopResult(r, to) = [d |-> w.d, hop |-> w.hop]
  <1> DEFINE seen(k) == WaysSeen(r, to, k)
             ways == Ways(cost[r], nbr[r], vec[r], to)
             chosen == ChosenWay(ways)
  <1>0. N \in Nat \ {0} /\ N \in Int
    BY DvAssumption
  <1>1. PICK after : /\ LoopResult(r, to) = after[N]
                     /\ after[0] = LoopStart(r, to)
                     /\ \A k \in 0..N-1 : after[k+1] = LoopRound(r, to, after[k], k)
    BY LoopRounds
  <1> DEFINE Holds(k) == \E w : IsChosen(seen(k), w) /\ after[k] = [d |-> w.d, hop |-> w.hop]
             Bad == {k \in 0..N : ~Holds(k)}
  <1>2. Holds(0)
    <2>1. /\ IsChosen(WaysSeen(r, to, 0), OwnWay(cost[r], to))
          /\ LoopStart(r, to) = [d |-> OwnWay(cost[r], to).d, hop |-> OwnWay(cost[r], to).hop]
      BY FirstWay DEF RowTyped
    <2> QED BY <2>1, <1>1
  <1>3. ASSUME NEW k \in 0..N-1, Holds(k) PROVE Holds(k + 1)
    <2>1. PICK w : IsChosen(seen(k), w) /\ after[k] = [d |-> w.d, hop |-> w.hop]
      BY <1>3
    <2>2. RoundGives(r, to, k, w)
      BY <2>1, RoundChooses
    <2>3. PICK v : /\ IsChosen(seen(k + 1), v)
                   /\ LoopRound(r, to, after[k], k) = [d |-> v.d, hop |-> v.hop]
      BY <2>1, <2>2 DEF RoundGives
    <2>4. after[k + 1] = [d |-> v.d, hop |-> v.hop]
      BY <2>3, <1>1
    <2> QED BY <2>3, <2>4
  <1> HIDE DEF Holds
  <1>4. Bad = {}
    <2> SUFFICES ASSUME Bad # {} PROVE FALSE
      OBVIOUS
    <2>1. PICK n \in Bad : n \in Nat /\ n <= N /\ \A m \in Bad : n <= m
      <3>1. Bad \in SUBSET (0..N)
        OBVIOUS
      <3> HIDE DEF Bad
      <3> QED BY <3>1, <1>0, LeastBad
    <2>2. n # 0
      BY <1>2
    <2>3. n - 1 \in 0..N-1 /\ n - 1 \in 0..N /\ n - 1 \notin Bad
      BY <2>1, <2>2, <1>0
    <2>4. Holds(n - 1)
      BY <2>3
    <2>5. Holds(n - 1 + 1)
      BY <2>3, <2>4, <1>3
    <2>6. n - 1 + 1 = n
      BY <2>1
    <2> QED BY <2>5, <2>6
  <1>5. Holds(N)
    BY <1>0, <1>4
  <1>6. PICK w : IsChosen(ways, w) /\ after[N] = [d |-> w.d, hop |-> w.hop]
    <2>1. seen(N) = ways
      BY FirstWay DEF RowTyped
    <2> QED BY <1>5, <2>1 DEF Holds
  <1>7. /\ OwnWay(cost[r], to) \in ways
        /\ \A x \in ways : x.d \in Int /\ x.by \in -1..N-1 /\ x.by \in Int
        /\ \A x, y \in ways : x.by = y.by => x = y
    BY WaysAre DEF RowTyped
  <1>8. IsChosen(ways, chosen)
    <2> HIDE DEF ways
    <2>1. ways # {} /\ N - 1 \in Nat /\ \A x \in ways : x.d \in Int /\ x.by \in -1..(N-1)
      BY <1>0, <1>7
    <2> QED BY <2>1, ChosenWayIsOne
  <1>9. w = chosen
    <2> HIDE DEF ways, chosen
    <2> QED BY <1>6, <1>7, <1>8, ChosenIsUnique
  <1> QED BY <1>1, <1>6, <1>9

LEMMA CurrentLoops ==
  ASSUME TablesTyped, Neighbours, Current
  PROVE  VectorsAreCurrent
  <1> SUFFICES ASSUME NEW r \in Router, NEW to \in Router, r # to
               PROVE  [d |-> vec[r][r][to], hop |-> nextHop[r][to]] = LoopResult(r, to)
    BY DEF VectorsAreCurrent
  <1> DEFINE w == ChosenWay(Ways(cost[r], nbr[r], vec[r], to))
  <1>1. vec[r][r][to] = w.d /\ nextHop[r][to] = w.hop
    BY DEF Current
  <1>2. LoopResult(r, to) = [d |-> w.d, hop |-> w.hop]
    <2>1. RowTyped(r)
      BY DEF RowTyped, TablesTyped, Table, Neighbours
    <2> QED BY <2>1, LoopIsChosenWay
  <1> HIDE DEF w
  <1> QED BY <1>1, <1>2

-----------------------------------------------------------------------------
\* What Current says of one router.
CurrentAt(r, row, nb, table, hops) ==
    \A to \in Router :
        r # to => LET w == ChosenWay(Ways(row, nb, table, to))
                  IN  table[r][to] = w.d /\ hops[to] = w.hop

LEMMA CurrentEach ==
  Current <=> \A r \in Router : CurrentAt(r, cost[r], nbr[r], vec[r], nextHop[r])
  BY DEF Current, CurrentAt

\* The own vector does not count among the neighbours'.
LEMMA WaysWithoutOwn ==
  ASSUME NEW row, NEW nb, NEW table, NEW new, NEW to, \A mid \in nb : new[mid] = table[mid]
  PROVE  Ways(row, nb, new, to) = Ways(row, nb, table, to)
  <1>1. Mids(nb, new, to) = Mids(nb, table, to)
    BY DEF Mids
  <1>2. \A mid \in Mids(nb, table, to) : new[mid][to] = table[mid][to]
    BY DEF Mids
  <1> QED BY <1>1, <1>2 DEF Ways

LEMMA UpdateDvCurrent ==
  ASSUME NEW r \in Router, NEW row \in [Router -> Int], NEW nb \in SUBSET Router, r \notin nb,
         NEW table \in [Router -> [Router -> Int]]
  PROVE  /\ CurrentAt(r, row, nb, NewTable(r, row, nb, table), NewHops(r, row, nb, table))
         /\ NewTable(r, row, nb, table)[r] = NewVector(r, row, nb, table)
         /\ NewTable(r, row, nb, table)[r][r] = table[r][r]
  <1> DEFINE v == NewVector(r, row, nb, table)
             new == NewTable(r, row, nb, table)
             hops == NewHops(r, row, nb, table)
  <1>1. \A to \in Router : Best(r, row, nb, table, to).d \in Int
    BY BestIsWay
  <1>2. v \in [Router -> Int] /\ \A to \in Router : v[to] = Best(r, row, nb, table, to).d
    BY <1>1 DEF NewVector
  <1>3. new = [table EXCEPT ![r] = v] /\ new[r] = v
    BY DEF NewTable
  <1>4. \A to \in Router : hops[to] = Best(r, row, nb, table, to).hop
    BY DEF NewHops
  <1>5. Best(r, row, nb, table, r).d = table[r][r]
    BY DEF Best
  <1> HIDE DEF v, new, hops
  <1>6. ASSUME NEW to \in Router, r # to
        PROVE  LET w == ChosenWay(Ways(row, nb, new, to)) IN new[r][to] = w.d /\ hops[to] = w.hop
    <2>1. Ways(row, nb, new, to) = Ways(row, nb, table, to)
      <3>1. \A mid \in nb : new[mid] = table[mid]
        BY <1>3
      <3> QED BY <3>1, WaysWithoutOwn
    <2> DEFINE w == ChosenWay(Ways(row, nb, table, to))
    <2>2. Best(r, row, nb, table, to) = [d |-> w.d, hop |-> w.hop]
      BY <1>6 DEF Best
    <2>3. new[r][to] = Best(r, row, nb, table, to).d /\ hops[to] = Best(r, row, nb, table, to).hop
      BY <1>2, <1>3, <1>4
    <2> HIDE DEF w
    <2>4. new[r][to] = w.d /\ hops[to] = w.hop
      BY <2>2, <2>3
    <2> QED BY <2>1, <2>4 DEF w
  <1>7. CurrentAt(r, row, nb, new, hops)
    BY <1>6 DEF CurrentAt
  <1> QED BY <1>2, <1>3, <1>5, <1>7 DEF v, new, hops

-----------------------------------------------------------------------------
(* The last vector and the last order in a queue *)

LEMMA DifferIsTransitive ==
  ASSUME NEW u, NEW v, NEW w, ~Differ(u, v), ~Differ(v, w) PROVE ~Differ(u, w)
  BY DEF Differ

LEMMA LastHeardAppend ==
  ASSUME NEW q \in Seq(Message), NEW m \in Message, NEW s, NEW stored, NEW v,
         LastHeard(q, s, stored, v), ~From(m, s)
  PROVE  LastHeard(Append(q, m), s, stored, v)
  <1> DEFINE p == Append(q, m)
  <1>1. /\ Len(q) \in Nat /\ Len(p) = Len(q) + 1
        /\ \A k \in 1..Len(q) : p[k] = q[k]
        /\ p[Len(q) + 1] = m
    OBVIOUS
  <1> HIDE DEF p
  <1>2. \A k \in 1..Len(p) : k \in 1..Len(q) \/ k = Len(q) + 1
    BY <1>1
  <1>3. CASE (\A k \in 1..Len(q) : ~From(q[k], s)) /\ ~Differ(stored, v)
    <2>1. \A k \in 1..Len(p) : ~From(p[k], s)
      BY <1>1, <1>2, <1>3
    <2> QED BY <2>1, <1>3 DEF LastHeard, p
  <1>4. CASE \E k \in 1..Len(q) : /\ From(q[k], s) /\ ~Differ(q[k].dv, v)
                                  /\ \A j \in k+1..Len(q) : ~From(q[j], s)
    <2>1. PICK k \in 1..Len(q) : /\ From(q[k], s) /\ ~Differ(q[k].dv, v)
                                 /\ \A j \in k+1..Len(q) : ~From(q[j], s)
      BY <1>4
    <2>2. k \in 1..Len(p) /\ p[k] = q[k]
      BY <1>1
    <2>3. ASSUME NEW j \in k+1..Len(p) PROVE ~From(p[j], s)
      <3>1. j \in k+1..Len(q) \/ j = Len(q) + 1
        BY <1>1
      <3>2. j \in k+1..Len(q) => p[j] = q[j]
        BY <1>1
      <3> QED BY <3>1, <3>2, <2>1, <1>1
    <2> QED BY <2>1, <2>2, <2>3 DEF LastHeard, p
  <1> QED BY <1>3, <1>4 DEF LastHeard

LEMMA LastHeardNew ==
  ASSUME NEW q \in Seq(Message), NEW m \in Message, NEW s, NEW stored, NEW v,
         From(m, s), ~Differ(m.dv, v)
  PROVE  LastHeard(Append(q, m), s, stored, v)
  <1> DEFINE p == Append(q, m)
  <1>1. Len(q) \in Nat /\ Len(p) = Len(q) + 1 /\ p[Len(q) + 1] = m
    OBVIOUS
  <1> HIDE DEF p
  <1>2. Len(p) \in 1..Len(p) /\ p[Len(p)] = m /\ \A j \in Len(p)+1..Len(p) : FALSE
    BY <1>1
  <1> QED BY <1>2 DEF LastHeard, p

LEMMA LastHeardTail ==
  ASSUME NEW q \in Seq(Message), q # <<>>, NEW s, NEW stored, NEW v,
         LastHeard(q, s, stored, v)
  PROVE  /\ ~From(Head(q), s) => LastHeard(Tail(q), s, stored, v)
         /\ From(Head(q), s) => LastHeard(Tail(q), s, Head(q).dv, v)
  <1> DEFINE p == Tail(q)
  <1>1. /\ Len(q) \in Nat /\ 1 \in 1..Len(q) /\ Head(q) = q[1] /\ Len(p) = Len(q) - 1
        /\ \A k \in 1..Len(p) : k + 1 \in 1..Len(q) /\ p[k] = q[k + 1]
    BY TailFacts
  <1> HIDE DEF p
  <1>3. CASE (\A k \in 1..Len(q) : ~From(q[k], s)) /\ ~Differ(stored, v)
    <2>1. \A k \in 1..Len(p) : ~From(p[k], s)
      BY <1>1, <1>3
    <2>2. ~From(Head(q), s)
      BY <1>1, <1>3
    <2> QED BY <2>1, <2>2, <1>3 DEF LastHeard, p
  <1>4. CASE \E k \in 1..Len(q) : /\ From(q[k], s) /\ ~Differ(q[k].dv, v)
                                  /\ \A j \in k+1..Len(q) : ~From(q[j], s)
    <2>1. PICK k \in 1..Len(q) : /\ From(q[k], s) /\ ~Differ(q[k].dv, v)
                                 /\ \A j \in k+1..Len(q) : ~From(q[j], s)
      BY <1>4
    <2>2. CASE k = 1
      <3>1. From(Head(q), s) /\ ~Differ(Head(q).dv, v)
        BY <1>1, <2>1, <2>2
      <3>2. ASSUME NEW j \in 1..Len(p) PROVE ~From(p[j], s)
        <4>1. j + 1 \in k+1..Len(q) /\ p[j] = q[j + 1]
          BY <1>1, <2>2
        <4> QED BY <4>1, <2>1
      <3> QED BY <3>1, <3>2 DEF LastHeard, p
    <2>3. CASE k # 1
      <3>1. k - 1 \in 1..Len(p) /\ k - 1 + 1 = k
        BY <1>1, <2>3
      <3>2. p[k - 1] = q[k]
        BY <3>1, <1>1
      <3>3. ASSUME NEW j \in (k-1)+1..Len(p) PROVE ~From(p[j], s)
        <4>1. j \in 1..Len(p) /\ j + 1 \in k+1..Len(q)
          BY <1>1, <3>1
        <4>2. p[j] = q[j + 1]
          BY <4>1, <1>1
        <4> QED BY <4>1, <4>2, <2>1
      <3>4. \A w : LastHeard(p, s, w, v)
        BY <3>1, <3>2, <3>3, <2>1 DEF LastHeard
      <3> QED BY <3>4 DEF p
    <2> QED BY <2>2, <2>3
  <1> QED BY <1>3, <1>4 DEF LastHeard

LEMMA LastHeardSame ==
  ASSUME NEW q, NEW s, NEW stored, NEW v, NEW w, LastHeard(q, s, stored, v), ~Differ(v, w)
  PROVE  LastHeard(q, s, stored, w)
  <1>1. \A u : ~Differ(u, v) => ~Differ(u, w)
    BY DifferIsTransitive
  <1> QED BY <1>1 DEF LastHeard

\* Orders and updates, as messages join and leave a queue.
LEMMA OrderAppend ==
  ASSUME NEW q \in Seq(Message), NEW m \in Message
  PROVE  /\ HasOrder(q) => HasOrder(Append(q, m))
         /\ m.type = "DV" => HasOrder(Append(q, m)) /\ OrderFollows(Append(q, m))
         /\ OrderFollows(q) /\ m.type # "UPDATE" => OrderFollows(Append(q, m))
  <1> DEFINE p == Append(q, m)
  <1>1. /\ Len(q) \in Nat /\ Len(p) = Len(q) + 1
        /\ \A k \in 1..Len(q) : p[k] = q[k]
        /\ p[Len(q) + 1] = m
    OBVIOUS
  <1> HIDE DEF p
  <1>2. \A k \in 1..Len(p) : k \in 1..Len(q) \/ k = Len(q) + 1
    BY <1>1
  <1>3. Len(q) + 1 \in 1..Len(p) /\ \A k \in 1..Len(q) : k \in 1..Len(p)
    BY <1>1
  <1>4. HasOrder(q) => HasOrder(p)
    BY <1>1, <1>3 DEF HasOrder
  <1>5. m.type = "DV" => HasOrder(p)
    BY <1>1, <1>3 DEF HasOrder
  <1>6. ASSUME m.type = "DV" PROVE OrderFollows(p)
    <2> SUFFICES ASSUME NEW j \in 1..Len(p), p[j].type = "UPDATE"
                 PROVE  \E k \in j+1..Len(p) : p[k].type = "DV"
      BY DEF OrderFollows
    <2>1. j # Len(q) + 1
      BY <1>1, <1>6
    <2>2. Len(q) + 1 \in j+1..Len(p)
      BY <2>1, <1>1
    <2> QED BY <2>2, <1>1, <1>6
  <1>7. ASSUME OrderFollows(q), m.type # "UPDATE" PROVE OrderFollows(p)
    <2> SUFFICES ASSUME NEW j \in 1..Len(p), p[j].type = "UPDATE"
                 PROVE  \E k \in j+1..Len(p) : p[k].type = "DV"
      BY DEF OrderFollows
    <2>1. j \in 1..Len(q) /\ q[j].type = "UPDATE"
      BY <1>1, <1>2, <1>7
    <2>2. PICK k \in j+1..Len(q) : q[k].type = "DV"
      BY <2>1, <1>7 DEF OrderFollows
    <2>3. k \in j+1..Len(p) /\ k \in 1..Len(q)
      BY <1>1, <2>1
    <2> QED BY <2>2, <2>3, <1>1
  <1> QED BY <1>4, <1>5, <1>6, <1>7 DEF p

LEMMA OrderTail ==
  ASSUME NEW q \in Seq(Message), q # <<>>
  PROVE  /\ HasOrder(q) /\ Head(q).type # "DV" => HasOrder(Tail(q))
         /\ OrderFollows(q) => OrderFollows(Tail(q))
         /\ OrderFollows(q) /\ Head(q).type = "UPDATE" => HasOrder(Tail(q))
  <1> DEFINE p == Tail(q)
  <1>1. /\ Len(q) \in Nat /\ 1 \in 1..Len(q) /\ Head(q) = q[1] /\ Len(p) = Len(q) - 1
        /\ \A k \in 1..Len(p) : k + 1 \in 1..Len(q) /\ p[k] = q[k + 1]
    BY TailFacts
  <1> HIDE DEF p
  <1>2. ASSUME NEW k \in 2..Len(q) PROVE k - 1 \in 1..Len(p) /\ p[k - 1] = q[k]
    <2>1. k - 1 \in 1..Len(p) /\ k - 1 + 1 = k
      BY <1>1
    <2> QED BY <2>1, <1>1
  <1>3. HasOrder(q) /\ Head(q).type # "DV" => HasOrder(p)
    <2> SUFFICES ASSUME HasOrder(q), Head(q).type # "DV" PROVE HasOrder(p)
      OBVIOUS
    <2>1. PICK k \in 1..Len(q) : q[k].type = "DV"
      BY DEF HasOrder
    <2>2. k \in 2..Len(q)
      BY <2>1, <1>1
    <2> QED BY <2>1, <2>2, <1>2 DEF HasOrder
  <1>4. ASSUME OrderFollows(q) PROVE OrderFollows(p)
    <2> SUFFICES ASSUME NEW j \in 1..Len(p), p[j].type = "UPDATE"
                 PROVE  \E k \in j+1..Len(p) : p[k].type = "DV"
      BY DEF OrderFollows
    <2>1. PICK k \in (j+1)+1..Len(q) : q[k].type = "DV"
      BY <1>1, <1>4 DEF OrderFollows
    <2>2. k \in 2..Len(q) /\ k - 1 \in j+1..Len(p)
      BY <1>1
    <2> QED BY <2>1, <2>2, <1>2
  <1>5. ASSUME OrderFollows(q), Head(q).type = "UPDATE" PROVE HasOrder(p)
    <2>1. PICK k \in 1+1..Len(q) : q[k].type = "DV"
      BY <1>1, <1>5 DEF OrderFollows
    <2>2. k \in 2..Len(q)
      OBVIOUS
    <2> QED BY <2>1, <2>2, <1>2 DEF HasOrder
  <1> QED BY <1>3, <1>4, <1>5 DEF p

-----------------------------------------------------------------------------
(* The steps keep the vectors current. *)

MailOfOthers == \A r \in Router : \A k \in 1..Len(queue[r]) : ~From(queue[r][k], r)
OwnZero == \A r \in Router : vec[r][r][r] = 0

LEMMA UpdateFrame ==
  ASSUME TablesTyped, NEW r \in Router, NEW row \in [Router -> Int], NEW nb \in SUBSET Router,
         NEW table \in [Router -> [Router -> Int]], UpdateDV(r, row, nb, table)
  PROVE  /\ vec'[r] = NewTable(r, row, nb, table) /\ nextHop'[r] = NewHops(r, row, nb, table)
         /\ vec'[r][r] = NewVector(r, row, nb, table)
         /\ \A s \in Router : s # r => /\ vec'[r][s] = table[s]
                                       /\ vec'[s] = vec[s] /\ nextHop'[s] = nextHop[s]
  <1> DEFINE new == NewTable(r, row, nb, table)
             hops == NewHops(r, row, nb, table)
             v == NewVector(r, row, nb, table)
  <1>1. vec' = [vec EXCEPT ![r] = new] /\ nextHop' = [nextHop EXCEPT ![r] = hops]
    BY DEF UpdateDV, NewTable, NewHops
  <1>2. new[r] = v /\ \A s \in Router : s # r => new[s] = table[s]
    BY DEF NewTable
  <1> HIDE DEF new, hops, v
  <1>3. vec'[r] = new /\ nextHop'[r] = hops
    BY <1>1 DEF TablesTyped
  <1>4. \A s \in Router : s # r => vec'[s] = vec[s] /\ nextHop'[s] = nextHop[s]
    BY <1>1 DEF TablesTyped
  <1> QED BY <1>2, <1>3, <1>4 DEF new, hops, v

LEMMA CurrentUpdated ==
  ASSUME TablesTyped, Current, OwnZero, NEW r \in Router,
         NEW row \in [Router -> Int], NEW nb \in SUBSET Router, r \notin nb,
         NEW table \in [Router -> [Router -> Int]], table[r][r] = 0,
         cost' = [cost EXCEPT ![r] = row], nbr' = [nbr EXCEPT ![r] = nb],
         UpdateDV(r, row, nb, table)
  PROVE  Current' /\ OwnZero'
  <1> DEFINE new == NewTable(r, row, nb, table)
             hops == NewHops(r, row, nb, table)
  <1>1. /\ CurrentAt(r, row, nb, new, hops) /\ new[r][r] = 0
    BY UpdateDvCurrent
  <1>2. /\ vec'[r] = new /\ nextHop'[r] = hops
        /\ \A s \in Router : s # r => vec'[s] = vec[s] /\ nextHop'[s] = nextHop[s]
    BY UpdateFrame
  <1> HIDE DEF new, hops
  <1>3. /\ cost'[r] = row /\ nbr'[r] = nb
        /\ \A s \in Router : s # r => cost'[s] = cost[s] /\ nbr'[s] = nbr[s]
    BY DEF TablesTyped, Table
  <1>4. \A s \in Router : CurrentAt(s, cost'[s], nbr'[s], vec'[s], nextHop'[s])
    <2> SUFFICES ASSUME NEW s \in Router
                 PROVE  CurrentAt(s, cost'[s], nbr'[s], vec'[s], nextHop'[s])
      OBVIOUS
    <2>1. CASE s = r
      BY <2>1, <1>1, <1>2, <1>3
    <2>2. CASE s # r
      BY <2>2, <1>2, <1>3, CurrentEach
    <2> QED BY <2>1, <2>2
  <1>5. Current'
    BY <1>4 DEF Current, CurrentAt
  <1>6. OwnZero'
    <2> SUFFICES ASSUME NEW s \in Router PROVE vec'[s][s][s] = 0
      BY DEF OwnZero
    <2>1. CASE s = r
      BY <2>1, <1>1, <1>2
    <2>2. CASE s # r
      BY <2>2, <1>2 DEF OwnZero
    <2> QED BY <2>1, <2>2
  <1> QED BY <1>5, <1>6

LEMMA CurrentKept ==
  ASSUME Current, OwnZero, UNCHANGED tables PROVE Current' /\ OwnZero'
  BY DEF Current, OwnZero, tables

-----------------------------------------------------------------------------
(* The steps keep what neighbours were told. *)

LEMMA JobSame ==
  ASSUME job' = job
  PROVE  \A s \in Router : InJob(s)' <=> InJob(s)
  BY DEF InJob

LEMMA DequeueKeeps ==
  ASSUME queue \in [Router -> Seq(Message)], MailOfOthers,
         NEW q \in Router, queue[q] # <<>>, Dequeue(q), job' = job
  PROVE  /\ queue'[q] = Tail(queue[q]) /\ \A s \in Router : s # q => queue'[s] = queue[s]
         /\ MailOfOthers'
         /\ UpdatesFirst => UpdatesFirst'
         /\ Head(queue[q]).type # "DV" =>
               \A s \in Router : HasOrder(queue[s]) => HasOrder(queue'[s])
  <1>0. queue'[q] = Tail(queue[q]) /\ \A s \in Router : s # q => queue'[s] = queue[s]
    BY DEF Dequeue
  <1>q. queue[q] \in Seq(Message)
    OBVIOUS
  <1>1. MailOfOthers'
    <2> SUFFICES ASSUME NEW r \in Router, NEW k \in 1..Len(queue'[r]) PROVE ~From(queue'[r][k], r)
      BY DEF MailOfOthers, From
    <2>1. CASE r = q
      <3>1. k + 1 \in 1..Len(queue[q]) /\ queue'[r][k] = queue[q][k + 1]
        <4>1. \A j \in 1..Len(Tail(queue[q])) :
                 j + 1 \in 1..Len(queue[q]) /\ Tail(queue[q])[j] = queue[q][j + 1]
          BY <1>q, TailFacts
        <4>2. queue'[r] = Tail(queue[q])
          BY <1>0, <2>1
        <4> QED BY <4>1, <4>2
      <3>2. ~From(queue[q][k + 1], q)
        BY <3>1 DEF MailOfOthers
      <3> QED BY <3>1, <3>2, <2>1
    <2>2. CASE r # q
      BY <2>2, <1>0 DEF MailOfOthers
    <2> QED BY <2>1, <2>2
  <1>2. ASSUME UpdatesFirst PROVE UpdatesFirst'
    <2>1. ASSUME NEW s \in Router, ~InJob(s) PROVE OrderFollows(queue'[s])
      <3>1. OrderFollows(queue[s])
        BY <1>2, <2>1 DEF UpdatesFirst
      <3>2. CASE s = q
        BY <3>1, <3>2, <1>0, <1>q, OrderTail
      <3>3. CASE s # q
        BY <3>1, <3>3, <1>0
      <3> QED BY <3>2, <3>3
    <2>2. \A s \in Router : InJob(s)' <=> InJob(s)
      BY JobSame
    <2>3. \A s \in Router : InJob(s)' \/ OrderFollows(queue'[s])
      BY <2>1, <2>2
    <2>4. \A k \in 1..Len(job') : job'[k].msg.type # "UPDATE"
      BY <1>2 DEF UpdatesFirst
    <2> QED BY <2>3, <2>4 DEF UpdatesFirst, OrderFollows
  <1>3. ASSUME Head(queue[q]).type # "DV", NEW s \in Router, HasOrder(queue[s])
        PROVE  HasOrder(queue'[s])
    <2>1. CASE s = q
      BY <2>1, <1>0, <1>q, <1>3, OrderTail
    <2>2. CASE s # q
      BY <2>2, <1>0, <1>3
    <2> QED BY <2>1, <2>2
  <1> QED BY <1>0, <1>1, <1>2, <1>3

\* Who has heard what, when q takes a message and a table r may take a vector.
LEMMA HeardDequeue ==
  ASSUME queue \in [Router -> Seq(Message)],
         NEW q \in Router, queue[q] # <<>>, Dequeue(q),
         NEW r \in Router, NEW s, NEW stored, NEW v, LastHeard(queue[r], s, stored, v)
  PROVE  /\ r # q \/ ~From(Head(queue[q]), s) => LastHeard(queue'[r], s, stored, v)
         /\ r = q /\ From(Head(queue[q]), s) => LastHeard(queue'[r], s, Head(queue[q]).dv, v)
  <1>1. CASE r = q
    <2>1. queue'[r] = Tail(queue[r]) /\ queue[r] \in Seq(Message)
      BY <1>1 DEF Dequeue
    <2>2. /\ ~From(Head(queue[r]), s) => LastHeard(Tail(queue[r]), s, stored, v)
          /\ From(Head(queue[r]), s) => LastHeard(Tail(queue[r]), s, Head(queue[r]).dv, v)
      BY <1>1, <2>1, LastHeardTail
    <2> QED BY <1>1, <2>1, <2>2
  <1>2. CASE r # q
    <2>1. queue'[r] = queue[r]
      BY <1>2 DEF Dequeue
    <2> QED BY <1>2, <2>1
  <1> QED BY <1>1, <1>2

LEMMA AppendKeeps ==
  ASSUME queue \in [Router -> Seq(Message)], MailOfOthers,
         NEW t \in Router, NEW m \in Message, ~From(m, t),
         queue' = [queue EXCEPT ![t] = Append(@, m)]
  PROVE  /\ queue'[t] = Append(queue[t], m) /\ \A s \in Router : s # t => queue'[s] = queue[s]
         /\ MailOfOthers'
         /\ \A s \in Router : HasOrder(queue[s]) => HasOrder(queue'[s])
         /\ m.type # "UPDATE" =>
               \A s \in Router : OrderFollows(queue[s]) => OrderFollows(queue'[s])
         /\ m.type = "DV" => HasOrder(queue'[t]) /\ OrderFollows(queue'[t])
         /\ \A r \in Router : \A s, stored, v :
               LastHeard(queue[r], s, stored, v) /\ ~From(m, s) =>
                  LastHeard(queue'[r], s, stored, v)
  <1>0. /\ queue'[t] = Append(queue[t], m) /\ \A s \in Router : s # t => queue'[s] = queue[s]
        /\ queue[t] \in Seq(Message)
    OBVIOUS
  <1>1. MailOfOthers'
    <2> SUFFICES ASSUME NEW r \in Router, NEW k \in 1..Len(queue'[r]) PROVE ~From(queue'[r][k], r)
      BY DEF MailOfOthers, From
    <2>1. CASE r = t
      <3>1. \/ k \in 1..Len(queue[t]) /\ queue'[r][k] = queue[t][k]
            \/ queue'[r][k] = m
        BY <1>0, <2>1, AppendFacts
      <3> QED BY <3>1, <2>1 DEF MailOfOthers
    <2>2. CASE r # t
      BY <2>2, <1>0 DEF MailOfOthers
    <2> QED BY <2>1, <2>2
  <1>2. /\ HasOrder(queue[t]) => HasOrder(queue'[t])
        /\ m.type = "DV" => HasOrder(queue'[t]) /\ OrderFollows(queue'[t])
        /\ OrderFollows(queue[t]) /\ m.type # "UPDATE" => OrderFollows(queue'[t])
    BY <1>0, OrderAppend
  <1>3. ASSUME NEW r \in Router, NEW s, NEW stored, NEW v,
               LastHeard(queue[r], s, stored, v), ~From(m, s)
        PROVE  LastHeard(queue'[r], s, stored, v)
    <2>1. CASE r = t
      BY <2>1, <1>0, <1>3, LastHeardAppend
    <2>2. CASE r # t
      BY <2>2, <1>0, <1>3
    <2> QED BY <2>1, <2>2
  <1>4. \A s \in Router : HasOrder(queue[s]) => HasOrder(queue'[s])
    BY <1>0, <1>2
  <1>5. m.type # "UPDATE" => \A s \in Router : OrderFollows(queue[s]) => OrderFollows(queue'[s])
    BY <1>0, <1>2
  <1> QED BY <1>0, <1>1, <1>2, <1>3, <1>4, <1>5

\* NoOwnVector with its parts named.
LEMMA NoOwnParts ==
  NoOwnVector <=> /\ OwnZero /\ MailOfOthers
                  /\ \A r \in Router : r \notin sending[r]
                  /\ \A k \in 1..Len(job) : job[k].msg.type # "IRC"
  BY DEF NoOwnVector, OwnZero, MailOfOthers

\* What DvInv adds, for the steps.
More == NoOwnVector /\ Current /\ (last = "DV" /\ ~missed => UpdatesFirst /\ Told)

\* Told for one pair, and for all.
HasTold(s, r) ==
    \/ InJob(s) \/ HasOrder(queue[s]) \/ r \in sending[s]
    \/ LastHeard(queue[r], s, vec[r][s], vec[s][s])

LEMMA ToldEach == Told <=> \A s \in Router : \A r \in nbr[s] : HasTold(s, r)
  BY DEF Told, HasTold

\* A router takes a vector.
LEMMA VectorMore ==
  ASSUME IInv, More, NEW q \in Router, HandleVector(q) PROVE More'
  <1> DEFINE m == Head(queue[q])
             table == [vec[q] EXCEPT ![m.src] = m.dv]
             v == NewVector(q, cost[q], nbr[q], table)
  <1>0. /\ TablesTyped /\ queue \in [Router -> Seq(Message)] /\ sending \in [Router -> SUBSET Router]
        /\ CallsTyped /\ Mail /\ Neighbours
    BY IInvParts DEF TablesOK, CallsTyped
  <1>1. /\ Accepts(q, "IRC") /\ UpdateDV(q, cost[q], nbr[q], table) /\ Dequeue(q)
        /\ sending' = [sending EXCEPT ![q] = IF Differ(table[q], v) THEN nbr[q] ELSE {}]
        /\ cost' = cost /\ nbr' = nbr /\ job' = job /\ last' = last /\ missed' = missed
    BY DEF HandleVector, agentVars, startVars
  <1>2. /\ queue[q] # <<>> /\ m \in Message /\ m.type = "IRC"
    BY <1>0, <1>1, Accepted
  <1>3. m.src \in Router /\ m.dv \in [Router -> Int]
    BY <1>2, MessageFacts
  <1>4. OwnZero /\ MailOfOthers /\ Current
        /\ (\A r \in Router : r \notin sending[r])
        /\ \A k \in 1..Len(job) : job[k].msg.type # "IRC"
    BY NoOwnParts DEF More
  <1>5. m.src # q
    <2>1. queue[q] \in Seq(Message)
      BY <1>0
    <2>2. 1 \in 1..Len(queue[q]) /\ m = queue[q][1]
      BY <2>1, <1>2, TailFacts
    <2> QED BY <2>2, <1>2, <1>4 DEF MailOfOthers, From
  <1>6. /\ cost[q] \in [Router -> Int] /\ nbr[q] \in SUBSET Router /\ q \notin nbr[q]
        /\ vec[q] \in [Router -> [Router -> Int]]
    BY <1>0 DEF TablesTyped, Table, Neighbours
  <1>7. /\ table \in [Router -> [Router -> Int]] /\ table[q] = vec[q][q] /\ table[m.src] = m.dv
        /\ \A s \in Router : s # m.src => table[s] = vec[q][s]
    BY <1>3, <1>5, <1>6
  <1>8. table[q][q] = 0
    BY <1>4, <1>7 DEF OwnZero
  <1>9. cost' = [cost EXCEPT ![q] = cost[q]] /\ nbr' = [nbr EXCEPT ![q] = nbr[q]]
    BY <1>0, <1>1 DEF TablesTyped, Table
  <1> HIDE DEF m, table, v
  <1>10. Current' /\ OwnZero'
    BY <1>0, <1>1, <1>4, <1>6, <1>7, <1>8, <1>9, CurrentUpdated
  <1>11. /\ queue'[q] = Tail(queue[q]) /\ \A s \in Router : s # q => queue'[s] = queue[s]
         /\ MailOfOthers'
         /\ UpdatesFirst => UpdatesFirst'
         /\ \A s \in Router : HasOrder(queue[s]) => HasOrder(queue'[s])
    <2>1. Head(queue[q]).type # "DV"
      BY <1>2 DEF m
    <2> QED BY <2>1, <1>0, <1>1, <1>2, <1>4, DequeueKeeps
  <1>12. /\ sending'[q] = IF Differ(table[q], v) THEN nbr[q] ELSE {}
         /\ \A s \in Router : s # q => sending'[s] = sending[s]
    BY <1>0, <1>1
  <1>13. NoOwnVector'
    <2>1. \A r \in Router : r \notin sending'[r]
      BY <1>4, <1>6, <1>12
    <2>2. \A k \in 1..Len(job') : job'[k].msg.type # "IRC"
      BY <1>1, <1>4
    <2> QED BY <2>1, <2>2, <1>10, <1>11 DEF NoOwnVector, OwnZero, MailOfOthers
  <1>14. ASSUME last' = "DV" /\ ~missed' PROVE UpdatesFirst' /\ Told'
    <2>1. UpdatesFirst /\ Told
      BY <1>1, <1>14 DEF More
    <2>2. /\ vec'[q][q] = v
          /\ \A s \in Router : s # q => vec'[q][s] = table[s] /\ vec'[s] = vec[s]
      <3>1. /\ TablesTyped /\ cost[q] \in [Router -> Int] /\ nbr[q] \in SUBSET Router
            /\ table \in [Router -> [Router -> Int]] /\ UpdateDV(q, cost[q], nbr[q], table)
        BY <1>0, <1>1, <1>6, <1>7
      <3> QED BY <3>1, UpdateFrame, Zenon DEF v
    <2>3. \A s \in Router : InJob(s)' <=> InJob(s)
      BY <1>1, JobSame
    <2>4. ASSUME NEW s \in Router, NEW r \in nbr[s]
          PROVE  \/ InJob(s) \/ HasOrder(queue'[s]) \/ r \in sending'[s]
                 \/ LastHeard(queue'[r], s, vec'[r][s], vec'[s][s])
      <3>1. r \in Router /\ r # s
        BY <1>0 DEF TablesTyped, Neighbours
      <3>2. HasTold(s, r)
        BY <2>1, ToldEach
      <3>3. CASE InJob(s) \/ HasOrder(queue[s])
        BY <3>3, <1>11
      <3>4. CASE ~(InJob(s) \/ HasOrder(queue[s])) /\ s = q
        <4>1. sending[q] = {}
          BY <1>1 DEF Accepts
        <4>2. LastHeard(queue[r], s, vec[r][s], vec[s][s])
          BY <3>2, <3>4, <4>1 DEF HasTold
        <4>3. CASE Differ(table[q], v)
          BY <4>3, <3>4, <1>12
        <4>4. CASE ~Differ(table[q], v)
          <5>1. LastHeard(queue[r], s, vec[r][s], v)
            BY <4>2, <4>4, <3>4, <1>7, LastHeardSame
          <5>2. queue'[r] = queue[r] /\ vec'[r] = vec[r] /\ vec'[s][s] = v
            BY <3>1, <3>4, <1>11, <2>2
          <5> QED BY <5>1, <5>2
        <4> QED BY <4>3, <4>4
      <3>5. CASE r \in sending[s] /\ s # q
        BY <3>5, <1>12
      <3>6. CASE LastHeard(queue[r], s, vec[r][s], vec[s][s]) /\ s # q
        <4>1. /\ r # q \/ ~From(m, s) => LastHeard(queue'[r], s, vec[r][s], vec[s][s])
              /\ r = q /\ From(m, s) => LastHeard(queue'[r], s, m.dv, vec[s][s])
          BY <3>1, <3>6, <1>0, <1>1, <1>2, HeardDequeue DEF m
        <4>2. vec'[s] = vec[s]
          BY <3>6, <2>2
        <4>3. CASE r # q
          <5>1. vec'[r] = vec[r]
            BY <4>3, <3>1, <2>2
          <5> QED BY <5>1, <4>1, <4>2, <4>3
        <4>4. CASE r = q /\ m.src = s
          <5>1. vec'[r][s] = m.dv /\ From(m, s)
            BY <4>4, <3>6, <2>2, <1>2, <1>7 DEF From
          <5> QED BY <5>1, <4>1, <4>2, <4>4
        <4>5. CASE r = q /\ m.src # s
          <5>1. vec'[r][s] = vec[r][s] /\ ~From(m, s)
            BY <4>5, <3>6, <2>2, <1>7 DEF From
          <5> QED BY <5>1, <4>1, <4>2, <4>5
        <4> QED BY <4>3, <4>4, <4>5
      <3> QED BY <3>2, <3>3, <3>4, <3>5, <3>6 DEF HasTold
    <2>5. Told'
      <3>1. \A s \in Router : \A r \in nbr'[s] :
              \/ InJob(s)' \/ HasOrder(queue'[s]) \/ r \in sending'[s]
              \/ LastHeard(queue'[r], s, vec'[r][s], vec'[s][s])
        BY <2>3, <2>4, <1>1
      <3> QED BY <3>1 DEF Told, HasOrder, LastHeard, From, Differ
    <2> QED BY <2>1, <2>5, <1>11
  <1> QED BY <1>10, <1>13, <1>14 DEF More

\* An update moves the own vector only, and an order to tell it follows.
LEMMA UpdateMore ==
  ASSUME IInv, More, NEW q \in Router, HandleUpdate(q) PROVE More'
  <1> DEFINE m == Head(queue[q])
             row == [cost[q] EXCEPT ![m.dest] = m.cost]
             nb == IF Valid(m.cost) THEN nbr[q] \cup {m.dest} ELSE nbr[q] \ {m.dest}
  <1>0. /\ TablesTyped /\ queue \in [Router -> Seq(Message)] /\ sending \in [Router -> SUBSET Router]
        /\ CallsTyped /\ Mail /\ Neighbours
    BY IInvParts DEF TablesOK, CallsTyped
  <1>1. /\ Accepts(q, "UPDATE") /\ UpdateDV(q, row, nb, vec[q]) /\ Dequeue(q)
        /\ cost' = [cost EXCEPT ![q] = row] /\ nbr' = [nbr EXCEPT ![q] = nb]
        /\ sending' = sending /\ job' = job /\ last' = last /\ missed' = missed
    BY DEF HandleUpdate, agentVars, startVars
  <1>2. queue[q] # <<>> /\ m \in Message /\ m.type = "UPDATE" /\ Genuine(q, m)
    BY <1>0, <1>1, Accepted
  <1>3. /\ m.dest \in Router /\ m.cost \in Int
        /\ [src |-> q, dest |-> m.dest, cost |-> m.cost] \in Updates
    BY <1>2, MessageFacts DEF Genuine
  <1>4. m.dest # q
    BY <1>3, DvAssumption
  <1>5. OwnZero /\ MailOfOthers /\ Current
        /\ (\A r \in Router : r \notin sending[r])
        /\ \A k \in 1..Len(job) : job[k].msg.type # "IRC"
    BY NoOwnParts DEF More
  <1>6. /\ cost[q] \in [Router -> Int] /\ nbr[q] \in SUBSET Router /\ q \notin nbr[q]
        /\ vec[q] \in [Router -> [Router -> Int]] /\ vec[q][q][q] = 0
    BY <1>0, <1>5 DEF TablesTyped, Table, Neighbours, OwnZero
  <1> HIDE DEF m
  <1>7. row \in [Router -> Int] /\ nb \in SUBSET Router /\ q \notin nb
    BY <1>3, <1>4, <1>6
  <1> HIDE DEF row, nb
  <1>10. Current' /\ OwnZero'
    BY <1>0, <1>1, <1>5, <1>6, <1>7, CurrentUpdated
  <1>11. /\ queue'[q] = Tail(queue[q]) /\ \A s \in Router : s # q => queue'[s] = queue[s]
         /\ MailOfOthers'
         /\ UpdatesFirst => UpdatesFirst'
         /\ \A s \in Router : HasOrder(queue[s]) => HasOrder(queue'[s])
    <2>1. Head(queue[q]).type # "DV"
      BY <1>2 DEF m
    <2> QED BY <2>1, <1>0, <1>1, <1>2, <1>5, DequeueKeeps
  <1>13. NoOwnVector'
    <2>1. \A r \in Router : r \notin sending'[r]
      BY <1>1, <1>5
    <2>2. \A k \in 1..Len(job') : job'[k].msg.type # "IRC"
      BY <1>1, <1>5
    <2> QED BY <2>1, <2>2, <1>10, <1>11 DEF NoOwnVector, OwnZero, MailOfOthers
  <1>14. ASSUME last' = "DV" /\ ~missed' PROVE UpdatesFirst' /\ Told'
    <2>1. UpdatesFirst /\ Told
      BY <1>1, <1>14 DEF More
    <2>2. \A s \in Router : s # q => vec'[q][s] = vec[q][s] /\ vec'[s] = vec[s]
      <3>1. /\ TablesTyped /\ row \in [Router -> Int] /\ nb \in SUBSET Router
            /\ vec[q] \in [Router -> [Router -> Int]] /\ UpdateDV(q, row, nb, vec[q])
        BY <1>0, <1>1, <1>6, <1>7
      <3> QED BY <3>1, UpdateFrame, Zenon
    <2>3. \A s \in Router : InJob(s)' <=> InJob(s)
      BY <1>1, JobSame
    <2>4. InJob(q) \/ HasOrder(queue'[q])
      <3>1. InJob(q) \/ OrderFollows(queue[q])
        BY <2>1 DEF UpdatesFirst
      <3>2. queue[q] \in Seq(Message) /\ queue[q] # <<>> /\ Head(queue[q]).type = "UPDATE"
        BY <1>0, <1>2 DEF m
      <3>3. OrderFollows(queue[q]) => HasOrder(Tail(queue[q]))
        BY <3>2, OrderTail
      <3> QED BY <3>1, <3>3, <1>11
    <2>5. ASSUME NEW s \in Router, s # q, NEW r \in nbr[s]
          PROVE  \/ InJob(s) \/ HasOrder(queue'[s]) \/ r \in sending'[s]
                 \/ LastHeard(queue'[r], s, vec'[r][s], vec'[s][s])
      <3>1. r \in Router /\ r # s
        BY <1>0 DEF TablesTyped, Neighbours
      <3>2. HasTold(s, r)
        BY <2>1, ToldEach
      <3>3. CASE InJob(s) \/ HasOrder(queue[s]) \/ r \in sending[s]
        BY <3>3, <1>1, <1>11
      <3>4. CASE LastHeard(queue[r], s, vec[r][s], vec[s][s])
        <4>1. ~From(Head(queue[q]), s)
          BY <1>2 DEF From, m
        <4>2. LastHeard(queue'[r], s, vec[r][s], vec[s][s])
          BY <3>1, <3>4, <4>1, <1>0, <1>1, <1>2, HeardDequeue
        <4>3. vec'[s] = vec[s]
          BY <2>5, <2>2
        <4>4. vec'[r][s] = vec[r][s]
          BY <2>5, <2>2, <3>1
        <4> QED BY <4>2, <4>3, <4>4
      <3> QED BY <3>2, <3>3, <3>4 DEF HasTold
    <2>6. \A s \in Router : s # q => nbr'[s] = nbr[s]
      BY <1>0, <1>1 DEF TablesTyped
    <2>7. Told'
      <3>1. \A s \in Router : \A r \in nbr'[s] :
              \/ InJob(s)' \/ HasOrder(queue'[s]) \/ r \in sending'[s]
              \/ LastHeard(queue'[r], s, vec'[r][s], vec'[s][s])
        BY <2>3, <2>4, <2>5, <2>6
      <3> QED BY <3>1 DEF Told, HasOrder, LastHeard, From, Differ
    <2> QED BY <2>1, <2>7, <1>11
  <1> QED BY <1>10, <1>13, <1>14 DEF More

\* A router takes an order to tell its vector, or one that changes no table.
LEMMA OrderMore ==
  ASSUME IInv, More, NEW q \in Router, HandleDv(q) \/ HandleShow(q) \/ HandleReset(q) PROVE More'
  <1> DEFINE m == Head(queue[q])
  <1>0. /\ TablesTyped /\ queue \in [Router -> Seq(Message)] /\ sending \in [Router -> SUBSET Router]
        /\ CallsTyped /\ Mail /\ Neighbours
    BY IInvParts DEF TablesOK, CallsTyped
  <1>1. PICK kind \in {"DV", "SHOW", "RESET"} :
          /\ Accepts(q, kind) /\ Dequeue(q) /\ UNCHANGED tables
          /\ job' = job /\ last' = last /\ missed' = missed
          /\ IF kind = "DV" THEN sending' = [sending EXCEPT ![q] = nbr[q]] ELSE sending' = sending
    BY DEF HandleDv, HandleShow, HandleReset, agentVars, startVars
  <1>2. queue[q] # <<>> /\ m \in Message /\ m.type = kind
    BY <1>0, <1>1, Accepted
  <1>5. OwnZero /\ MailOfOthers /\ Current
        /\ (\A r \in Router : r \notin sending[r])
        /\ \A k \in 1..Len(job) : job[k].msg.type # "IRC"
    BY NoOwnParts DEF More
  <1>6. nbr[q] \in SUBSET Router /\ q \notin nbr[q]
    BY <1>0 DEF TablesTyped, Neighbours
  <1> HIDE DEF m
  <1>7. /\ kind = "DV" => sending'[q] = nbr[q]
        /\ \A s \in Router : s # q \/ kind # "DV" => sending'[s] = sending[s]
    BY <1>0, <1>1
  <1>10. Current' /\ OwnZero'
    BY <1>1, <1>5, CurrentKept
  <1>11. /\ queue'[q] = Tail(queue[q]) /\ \A s \in Router : s # q => queue'[s] = queue[s]
         /\ MailOfOthers'
         /\ UpdatesFirst => UpdatesFirst'
         /\ kind # "DV" => \A s \in Router : HasOrder(queue[s]) => HasOrder(queue'[s])
    <2>1. Head(queue[q]).type # "DV" <=> kind # "DV"
      BY <1>2 DEF m
    <2> QED BY <2>1, <1>0, <1>1, <1>2, <1>5, DequeueKeeps
  <1>13. NoOwnVector'
    <2>1. \A r \in Router : r \notin sending'[r]
      BY <1>5, <1>6, <1>7
    <2>2. \A k \in 1..Len(job') : job'[k].msg.type # "IRC"
      BY <1>1, <1>5
    <2> QED BY <2>1, <2>2, <1>10, <1>11 DEF NoOwnVector, OwnZero, MailOfOthers
  <1>14. ASSUME last' = "DV" /\ ~missed' PROVE UpdatesFirst' /\ Told'
    <2>1. UpdatesFirst /\ Told
      BY <1>1, <1>14 DEF More
    <2>3. \A s \in Router : InJob(s)' <=> InJob(s)
      BY <1>1, JobSame
    <2>5. ASSUME NEW s \in Router, NEW r \in nbr[s]
          PROVE  \/ InJob(s) \/ HasOrder(queue'[s]) \/ r \in sending'[s]
                 \/ LastHeard(queue'[r], s, vec[r][s], vec[s][s])
      <3>1. r \in Router
        BY <1>0 DEF TablesTyped
      <3>2. HasTold(s, r)
        BY <2>1, ToldEach
      <3>3. CASE kind = "DV" /\ s = q
        BY <3>3, <1>7
      <3>4. CASE ~(kind = "DV" /\ s = q) /\ (InJob(s) \/ HasOrder(queue[s]) \/ r \in sending[s])
        <4>1. HasOrder(queue[s]) => HasOrder(queue'[s])
          BY <3>4, <1>11
        <4> QED BY <4>1, <3>4, <1>7
      <3>5. CASE LastHeard(queue[r], s, vec[r][s], vec[s][s])
        <4>1. ~From(Head(queue[q]), s)
          BY <1>2 DEF From, m
        <4>2. LastHeard(queue'[r], s, vec[r][s], vec[s][s])
          BY <3>1, <3>5, <4>1, <1>0, <1>1, <1>2, HeardDequeue
        <4> QED BY <4>2
      <3> QED BY <3>2, <3>3, <3>4, <3>5 DEF HasTold
    <2>7. Told'
      <3>1. \A s \in Router : \A r \in nbr'[s] :
              \/ InJob(s)' \/ HasOrder(queue'[s]) \/ r \in sending'[s]
              \/ LastHeard(queue'[r], s, vec'[r][s], vec'[s][s])
        BY <2>3, <2>5, <1>1 DEF tables
      <3> QED BY <3>1 DEF Told, HasOrder, LastHeard, From, Differ
    <2> QED BY <2>1, <2>7, <1>11
  <1> QED BY <1>10, <1>13, <1>14 DEF More

\* A router ends: then QUIT was the last command.
LEMMA EndMore ==
  ASSUME IInv, More, NEW q \in Router, HandleQuit(q) \/ SendRefused(q) PROVE More'
  <1>0. /\ TablesTyped /\ queue \in [Router -> Seq(Message)] /\ sending \in [Router -> SUBSET Router]
        /\ CallsTyped /\ Mail /\ NobodyEndsUnasked
    BY IInvParts DEF TablesOK, CallsTyped
  <1>1. EndRouter(q) /\ UNCHANGED tables /\ job' = job /\ last' = last
    BY DEF HandleQuit, SendRefused
  <1>2. last = "QUIT" \/ missed'
    <2>1. CASE HandleQuit(q)
      <3>1. Accepts(q, "QUIT")
        BY <2>1 DEF HandleQuit
      <3> QED BY <3>1, <1>0, Accepted
    <2>2. CASE SendRefused(q)
      <3>1. /\ sending[q] # {} /\ sending[q] \in SUBSET Router /\ NextNeighbour(q) \notin up
            /\ missed' = (missed \/ NextNeighbour(q) \notin started)
        BY <2>2, <1>0 DEF SendRefused, Refused
      <3>2. NextNeighbour(q) \in Router
        BY <3>1, LeastRouter DEF NextNeighbour
      <3> QED BY <3>1, <3>2, <1>0 DEF NobodyEndsUnasked
    <2> QED BY <2>1, <2>2
  <1>3. OwnZero /\ MailOfOthers /\ Current
        /\ (\A r \in Router : r \notin sending[r])
        /\ \A k \in 1..Len(job) : job[k].msg.type # "IRC"
    BY NoOwnParts DEF More
  <1>4. Current' /\ OwnZero'
    BY <1>1, <1>3, CurrentKept
  <1>5. /\ queue'[q] = <<>> /\ \A s \in Router : s # q => queue'[s] = queue[s]
        /\ sending'[q] = {} /\ \A s \in Router : s # q => sending'[s] = sending[s]
    BY <1>0, <1>1 DEF EndRouter
  <1>6. MailOfOthers'
    <2> SUFFICES ASSUME NEW r \in Router, NEW k \in 1..Len(queue'[r]) PROVE ~From(queue'[r][k], r)
      BY DEF MailOfOthers, From
    <2>1. r # q
      BY <1>5
    <2> QED BY <2>1, <1>3, <1>5 DEF MailOfOthers
  <1>7. NoOwnVector'
    <2>1. \A r \in Router : r \notin sending'[r]
      BY <1>3, <1>5
    <2>2. \A k \in 1..Len(job') : job'[k].msg.type # "IRC"
      BY <1>1, <1>3
    <2> QED BY <2>1, <2>2, <1>4, <1>6 DEF NoOwnVector, OwnZero, MailOfOthers
  <1> QED BY <1>1, <1>2, <1>4, <1>7 DEF More

\* A router tells its vector to the next neighbour.
LEMMA SendMore ==
  ASSUME IInv, More, NEW q \in Router, SendToNext(q) PROVE More'
  <1> DEFINE t == NextNeighbour(q)
             m == Vector(q, vec[q][q])
  <1>0. /\ TablesTyped /\ queue \in [Router -> Seq(Message)] /\ sending \in [Router -> SUBSET Router]
        /\ Neighbours
    BY IInvParts DEF TablesOK, CallsTyped
  <1>1. /\ sending[q] # {} /\ queue' = [queue EXCEPT ![t] = Append(@, m)]
        /\ sending' = [sending EXCEPT ![q] = @ \ {t}]
        /\ UNCHANGED tables /\ job' = job /\ last' = last /\ missed' = missed
    BY DEF SendToNext, agentVars, startVars
  <1>2. sending[q] \in SUBSET Router
    BY <1>0
  <1>3. t \in Router /\ t \in sending[q]
    BY <1>1, <1>2, LeastRouter DEF NextNeighbour
  <1>4. OwnZero /\ MailOfOthers /\ Current
        /\ (\A r \in Router : r \notin sending[r])
        /\ \A k \in 1..Len(job) : job[k].msg.type # "IRC"
    BY NoOwnParts DEF More
  <1>5. vec[q][q] \in [Router -> Int]
    BY <1>0 DEF TablesTyped
  <1>6. m \in Message /\ m.type = "IRC" /\ m.src = q /\ m.dv = vec[q][q]
    BY <1>5, MadeMessages DEF Vector
  <1>7. t # q
    BY <1>3, <1>4
  <1> HIDE DEF t, m
  <1>8. ~From(m, t) /\ m.type # "UPDATE" /\ From(m, q) /\ \A s : s # q => ~From(m, s)
    BY <1>6, <1>7 DEF From
  <1>10. Current' /\ OwnZero'
    BY <1>1, <1>4, CurrentKept
  <1>11. /\ queue'[t] = Append(queue[t], m) /\ \A s \in Router : s # t => queue'[s] = queue[s]
         /\ MailOfOthers'
         /\ \A s \in Router : HasOrder(queue[s]) => HasOrder(queue'[s])
         /\ \A s \in Router : OrderFollows(queue[s]) => OrderFollows(queue'[s])
         /\ \A r \in Router : \A s, stored, v :
               LastHeard(queue[r], s, stored, v) /\ ~From(m, s) =>
                  LastHeard(queue'[r], s, stored, v)
    BY <1>0, <1>1, <1>3, <1>4, <1>6, <1>8, AppendKeeps
  <1>12. /\ sending'[q] = sending[q] \ {t} /\ \A s \in Router : s # q => sending'[s] = sending[s]
    BY <1>0, <1>1
  <1>13. NoOwnVector'
    <2>1. \A r \in Router : r \notin sending'[r]
      BY <1>4, <1>12
    <2>2. \A k \in 1..Len(job') : job'[k].msg.type # "IRC"
      BY <1>1, <1>4
    <2> QED BY <2>1, <2>2, <1>10, <1>11 DEF NoOwnVector, OwnZero, MailOfOthers
  <1>14. ASSUME last' = "DV" /\ ~missed' PROVE UpdatesFirst' /\ Told'
    <2>1. UpdatesFirst /\ Told
      BY <1>1, <1>14 DEF More
    <2>3. \A s \in Router : InJob(s)' <=> InJob(s)
      BY <1>1, JobSame
    <2>4. UpdatesFirst'
      <3>1. \A s \in Router : InJob(s)' \/ OrderFollows(queue'[s])
        BY <2>1, <2>3, <1>11 DEF UpdatesFirst
      <3>2. \A k \in 1..Len(job') : job'[k].msg.type # "UPDATE"
        BY <2>1, <1>1 DEF UpdatesFirst
      <3> QED BY <3>1, <3>2 DEF UpdatesFirst, OrderFollows
    <2>5. ASSUME NEW s \in Router, NEW r \in nbr[s]
          PROVE  \/ InJob(s) \/ HasOrder(queue'[s]) \/ r \in sending'[s]
                 \/ LastHeard(queue'[r], s, vec[r][s], vec[s][s])
      <3>1. r \in Router
        BY <1>0 DEF TablesTyped
      <3>2. HasTold(s, r)
        BY <2>1, ToldEach
      <3>3. CASE InJob(s) \/ HasOrder(queue[s])
        BY <3>3, <1>11
      <3>4. CASE s = q /\ r = t
        <4>1. ~Differ(m.dv, vec[q][q])
          BY <1>6 DEF Differ
        <4>2. queue[t] \in Seq(Message)
          BY <1>0, <1>3
        <4>3. LastHeard(Append(queue[t], m), q, vec[t][q], vec[q][q])
          BY <4>1, <4>2, <1>6, <1>8, LastHeardNew
        <4> QED BY <4>3, <3>4, <1>11
      <3>5. CASE s = q /\ r # t
        <4>1. queue'[r] = queue[r] /\ (r \in sending[s] => r \in sending'[s])
          BY <3>1, <3>5, <1>11, <1>12
        <4> QED BY <4>1, <3>2, <1>11 DEF HasTold
      <3>6. CASE s # q
        <4>1. sending'[s] = sending[s] /\ ~From(m, s)
          BY <3>6, <1>8, <1>12
        <4> QED BY <4>1, <3>1, <3>2, <1>11 DEF HasTold
      <3> QED BY <3>4, <3>5, <3>6
    <2>7. Told'
      <3>1. \A s \in Router : \A r \in nbr'[s] :
              \/ InJob(s)' \/ HasOrder(queue'[s]) \/ r \in sending'[s]
              \/ LastHeard(queue'[r], s, vec'[r][s], vec'[s][s])
        BY <2>3, <2>5, <1>1 DEF tables
      <3> QED BY <3>1 DEF Told, HasOrder, LastHeard, From, Differ
    <2> QED BY <2>4, <2>7
  <1> QED BY <1>10, <1>13, <1>14 DEF More

\* What a step that leaves tables, queues and neighbours alone keeps.
LEMMA ToldKept ==
  ASSUME UNCHANGED <<tables, queue, sending>>,
         \A s \in Router : InJob(s) => InJob(s)'
  PROVE  /\ Told => Told'
         /\ \A s \in Router : (InJob(s) \/ OrderFollows(queue[s])) =>
                                 (InJob(s)' \/ OrderFollows(queue'[s]))
  <1>1. \A s \in Router : OrderFollows(queue'[s]) <=> OrderFollows(queue[s])
    OBVIOUS
  <1>2. ASSUME Told PROVE Told'
    <2>1. \A s \in Router : \A r \in nbr'[s] :
              \/ InJob(s)' \/ HasOrder(queue'[s]) \/ r \in sending'[s]
              \/ LastHeard(queue'[r], s, vec'[r][s], vec'[s][s])
      BY <1>2 DEF Told, tables
    <2> QED BY <2>1 DEF Told, HasOrder, LastHeard, From, Differ
  <1> QED BY <1>1, <1>2

LEMMA NoOwnKept ==
  ASSUME NoOwnVector, UNCHANGED <<tables, queue, sending>>,
         \A k \in 1..Len(job') : job'[k].msg.type # "IRC"
  PROVE  NoOwnVector'
  BY DEF NoOwnVector, From, tables

\* A router comes to listen, or nothing happens.
LEMMA QuietMore ==
  ASSUME IInv, More, UNCHANGED <<tables, queue, sending, missed, job, last>> PROVE More'
  <1>2. NoOwnVector /\ Current /\ OwnZero
    BY NoOwnParts DEF More
  <1>3. \A k \in 1..Len(job') : job'[k].msg.type # "IRC"
    BY <1>2 DEF NoOwnVector
  <1>4. NoOwnVector' /\ Current'
    BY <1>2, <1>3, NoOwnKept, CurrentKept
  <1>5. ASSUME last' = "DV" /\ ~missed' PROVE UpdatesFirst' /\ Told'
    <2>1. UpdatesFirst /\ Told
      BY <1>5 DEF More
    <2>2. \A s \in Router : InJob(s) => InJob(s)'
      BY JobSame
    <2>3. Told' /\ \A s \in Router : InJob(s)' \/ OrderFollows(queue'[s])
      BY <2>1, <2>2, ToldKept DEF UpdatesFirst
    <2>4. \A k \in 1..Len(job') : job'[k].msg.type # "UPDATE"
      BY <2>1 DEF UpdatesFirst
    <2> QED BY <2>3, <2>4 DEF UpdatesFirst, OrderFollows
  <1> QED BY <1>4, <1>5 DEF More

\* The user gives a command.
LEMMA CommandMore ==
  ASSUME IInv, More, Command PROVE More'
  <1>1. PICK kind : CanCommand(kind) /\ UNCHANGED <<tables, queue, sending, missed>>
    BY DEF Command, CommandUpdate, CommandAll, CommandOne, EndOfInput, startVars
  <1>2. job = <<>>
    BY <1>1 DEF CanCommand
  <1>3. \A s \in Router : InJob(s) => InJob(s)'
    BY <1>2 DEF InJob
  <1>4. Current'
    BY <1>1 DEF More, Current, tables
  <1>5. NoOwnVector /\ (last = "DV" /\ ~missed => UpdatesFirst /\ Told)
    BY DEF More
  <1>6. CASE CommandUpdate
    <2>1. PICK u \in Updates : job' = << [to |-> u.src, msg |-> Update(u.dest, u.cost)] >>
      BY <1>6 DEF CommandUpdate
    <2>2. \A k \in 1..Len(job') : job'[k].msg.type # "IRC"
      BY <2>1 DEF Update
    <2>3. last' = "UPDATE"
      BY <1>6 DEF CommandUpdate
    <2> QED BY <2>2, <2>3, <1>1, <1>4, <1>5, NoOwnKept DEF More
  <1>7. ASSUME NEW kd \in {"DV", "QUIT"}, CommandAll(kd) PROVE More'
    <2>1. job' = ToAll(Order(kd)) /\ last' = kd
      BY <1>7 DEF CommandAll
    <2>2. N \in Nat
      BY DvAssumption
    <2>3. /\ Len(job') = N
          /\ \A k \in 1..N : job'[k].to = k - 1 /\ job'[k].msg.type = kd
      BY <2>1, <2>2 DEF ToAll, Order
    <2>4. NoOwnVector'
      BY <2>3, <1>1, <1>5, NoOwnKept
    <2>5. ASSUME kd = "DV" PROVE \A s \in Router : InJob(s)'
      <3> SUFFICES ASSUME NEW s \in Router PROVE InJob(s)'
        OBVIOUS
      <3>1. PICK k \in 1..N : k - 1 = s
        <4>1. s + 1 \in 1..N /\ s + 1 - 1 = s /\ s \in Int
          BY <2>2 DEF Router
        <4> QED BY <4>1
      <3>2. job'[k].to = k - 1 /\ job'[k].msg.type = kd /\ k \in 1..Len(job')
        BY <2>3
      <3>3. job'[k].to = s /\ job'[k].msg.type = "DV"
        BY <3>1, <3>2, <2>5
      <3> QED BY <3>2, <3>3 DEF InJob
    <2>6. ASSUME kd = "DV" PROVE UpdatesFirst' /\ Told'
      BY <2>3, <2>5, <2>6 DEF UpdatesFirst, Told
    <2> QED BY <2>1, <2>4, <2>6, <1>4 DEF More
  <1>8. ASSUME NEW kd \in {"SHOW", "RESET"}, CommandOne(kd) PROVE More'
    <2>1. PICK r \in Router : job' = << [to |-> r, msg |-> Order(kd)] >>
      BY <1>8 DEF CommandOne
    <2>2. \A k \in 1..Len(job') : job'[k].msg.type = kd
      BY <2>1 DEF Order
    <2>3. last' = last
      BY <1>8 DEF CommandOne
    <2>4. NoOwnVector'
      BY <2>2, <1>1, <1>5, NoOwnKept
    <2>5. ASSUME last' = "DV" /\ ~missed' PROVE UpdatesFirst' /\ Told'
      <3>1. UpdatesFirst /\ Told
        BY <2>3, <2>5, <1>1, <1>5
      <3>2. Told' /\ \A s \in Router : InJob(s)' \/ OrderFollows(queue'[s])
        BY <3>1, <1>1, <1>3, ToldKept DEF UpdatesFirst
      <3> QED BY <3>2, <2>2 DEF UpdatesFirst, OrderFollows
    <2> QED BY <2>4, <2>5, <1>4 DEF More
  <1>9. CASE EndOfInput
    <2>1. job' = job /\ last' = last
      BY <1>9 DEF EndOfInput
    <2>2. \A k \in 1..Len(job') : job'[k].msg.type # "IRC" /\ job'[k].msg.type # "UPDATE"
      BY <2>1, <1>2
    <2>4. NoOwnVector'
      BY <2>2, <1>1, <1>5, NoOwnKept
    <2>5. ASSUME last' = "DV" /\ ~missed' PROVE UpdatesFirst' /\ Told'
      <3>1. UpdatesFirst /\ Told
        BY <2>1, <2>5, <1>1, <1>5
      <3>2. Told' /\ \A s \in Router : InJob(s)' \/ OrderFollows(queue'[s])
        BY <3>1, <1>1, <1>3, ToldKept DEF UpdatesFirst
      <3> QED BY <3>2, <2>2 DEF UpdatesFirst, OrderFollows
    <2> QED BY <2>4, <2>5, <1>4 DEF More
  <1> QED BY <1>6, <1>7, <1>8, <1>9 DEF Command

\* The agent delivers an order, or fails to.
LEMMA AgentMore ==
  ASSUME IInv, More, AgentStep PROVE More'
  <1>0. /\ TablesTyped /\ queue \in [Router -> Seq(Message)] /\ job \in Seq(JobType)
        /\ NobodyEndsUnasked /\ Jobs
    BY IInvParts DEF TablesOK, CallsTyped, JobType
  <1>1. /\ job # <<>> /\ last' = last /\ UNCHANGED tables /\ sending' = sending
    BY DEF AgentStep, Deliver, DeliveryRefused
  <1>k. /\ Len(job) \in Nat /\ 1 \in 1..Len(job) /\ Head(job) = job[1] /\ job[1] \in JobType
        /\ Tail(job) \in Seq(JobType) /\ Len(Tail(job)) = Len(job) - 1
        /\ \A k \in 1..Len(Tail(job)) : k + 1 \in 1..Len(job) /\ Tail(job)[k] = job[k + 1]
    BY <1>0, <1>1, TailFacts
  <1>4. OwnZero /\ MailOfOthers /\ Current
        /\ (\A r \in Router : r \notin sending[r])
        /\ \A k \in 1..Len(job) : job[k].msg.type # "IRC"
    BY NoOwnParts DEF More
  <1>5. Current' /\ OwnZero'
    BY <1>1, <1>4, CurrentKept
  <1>6. CASE Deliver
    <2> DEFINE t == Head(job).to
               m == Head(job).msg
    <2>0. queue' = [queue EXCEPT ![t] = Append(@, m)] /\ job' = Tail(job) /\ missed' = missed
      BY <1>6 DEF Deliver, startVars
    <2>1. t \in Router /\ m \in Message /\ m.type # "IRC" /\ t = job[1].to /\ m = job[1].msg
      BY <1>k, <1>4 DEF JobType
    <2> HIDE DEF t, m
    <2>2. ~From(m, t) /\ \A s : ~From(m, s)
      BY <2>1 DEF From
    <2>3. /\ queue'[t] = Append(queue[t], m) /\ \A s \in Router : s # t => queue'[s] = queue[s]
          /\ MailOfOthers'
          /\ \A s \in Router : HasOrder(queue[s]) => HasOrder(queue'[s])
          /\ m.type # "UPDATE" =>
                \A s \in Router : OrderFollows(queue[s]) => OrderFollows(queue'[s])
          /\ m.type = "DV" => HasOrder(queue'[t]) /\ OrderFollows(queue'[t])
          /\ \A r \in Router : \A s, stored, v :
                LastHeard(queue[r], s, stored, v) /\ ~From(m, s) =>
                   LastHeard(queue'[r], s, stored, v)
      BY <2>0, <2>1, <2>2, <1>0, <1>4, AppendKeeps
    <2>4. NoOwnVector'
      <3>1. \A k \in 1..Len(job') : job'[k].msg.type # "IRC"
        BY <2>0, <1>k, <1>4
      <3>2. \A r \in Router : r \notin sending'[r]
        BY <1>1, <1>4
      <3> QED BY <3>1, <3>2, <2>3, <1>5 DEF NoOwnVector, OwnZero, MailOfOthers
    <2>5. ASSUME NEW s \in Router, InJob(s)
          PROVE  InJob(s)' \/ (s = t /\ m.type = "DV")
      <3>1. PICK k \in 1..Len(job) : job[k].to = s /\ job[k].msg.type = "DV"
        BY <2>5 DEF InJob
      <3>2. CASE k = 1
        BY <3>1, <3>2, <2>1
      <3>3. CASE k # 1
        <4>1. k - 1 \in 1..Len(Tail(job)) /\ k - 1 + 1 = k
          BY <3>3, <1>k
        <4>2. Tail(job)[k - 1] = job[k]
          BY <4>1, <1>k
        <4> QED BY <4>1, <4>2, <3>1, <2>0 DEF InJob
      <3> QED BY <3>2, <3>3
    <2>6. ASSUME last' = "DV" /\ ~missed' PROVE UpdatesFirst' /\ Told'
      <3>1. UpdatesFirst /\ Told
        BY <1>1, <2>0, <2>6 DEF More
      <3>2. m.type # "UPDATE"
        BY <3>1, <2>1, <1>k DEF UpdatesFirst
      <3>3. \A k \in 1..Len(job') : job'[k].msg.type # "UPDATE"
        BY <3>1, <2>0, <1>k DEF UpdatesFirst
      <3>4. \A s \in Router : InJob(s)' \/ OrderFollows(queue'[s])
        BY <3>1, <3>2, <2>3, <2>5 DEF UpdatesFirst
      <3>5. \A s \in Router : InJob(s) \/ HasOrder(queue[s]) => InJob(s)' \/ HasOrder(queue'[s])
        BY <2>3, <2>5
      <3>6. \A s \in Router : nbr[s] \in SUBSET Router
        BY <1>0 DEF TablesTyped
      <3>7. \A s \in Router : \A r \in nbr[s] :
              \/ InJob(s)' \/ HasOrder(queue'[s]) \/ r \in sending[s]
              \/ LastHeard(queue'[r], s, vec[r][s], vec[s][s])
        <4> SUFFICES ASSUME NEW s \in Router, NEW r \in nbr[s]
                     PROVE  \/ InJob(s)' \/ HasOrder(queue'[s]) \/ r \in sending[s]
                            \/ LastHeard(queue'[r], s, vec[r][s], vec[s][s])
          OBVIOUS
        <4>1. r \in Router /\ HasTold(s, r)
          BY <3>1, <3>6, ToldEach
        <4> QED BY <4>1, <3>5, <2>2, <2>3 DEF HasTold
      <3>8. Told'
        <4>1. \A s \in Router : \A r \in nbr'[s] :
                \/ InJob(s)' \/ HasOrder(queue'[s]) \/ r \in sending'[s]
                \/ LastHeard(queue'[r], s, vec'[r][s], vec'[s][s])
          BY <3>7, <1>1 DEF tables
        <4> QED BY <4>1 DEF Told, HasOrder, LastHeard, From, Differ
      <3> QED BY <3>3, <3>4, <3>8 DEF UpdatesFirst, OrderFollows
    <2> QED BY <2>4, <2>6, <1>5 DEF More
  <1>7. CASE DeliveryRefused
    <2>1. /\ job' = <<>> /\ UNCHANGED <<tables, queue, sending>> /\ Head(job).to \notin up
          /\ missed' = (missed \/ Head(job).to \notin started)
      BY <1>7 DEF DeliveryRefused, Refused
    <2>3. last = "QUIT" \/ missed'
      BY <2>1, <1>0 DEF NobodyEndsUnasked
    <2>4. NoOwnVector'
      <3>1. \A k \in 1..Len(job') : job'[k].msg.type # "IRC"
        BY <2>1
      <3>2. NoOwnVector
        BY DEF More
      <3> QED BY <3>1, <3>2, <2>1, NoOwnKept
    <2> QED BY <2>3, <2>4, <1>1, <1>5 DEF More
  <1> QED BY <1>6, <1>7 DEF AgentStep

LEMMA InitMore == Init => More
  <1> SUFFICES ASSUME Init PROVE More
    OBVIOUS
  <1>0. /\ Topology \in [Router -> [Router -> Int]] /\ \A r \in Router : Topology[r][r] = 0
        /\ ~Valid(0) /\ ~Valid(-1)
    BY DvAssumption DEF Table, Valid
  <1>1. \A r, s \in Router :
          /\ vec[r] = InitRow(r) /\ cost[r] = Topology[r]
          /\ s \in nbr[r] <=> Valid(Topology[r][s])
          /\ nextHop[r][s] = IF s = r \/ Valid(Topology[r][s]) THEN s ELSE 0
    BY DEF Init
  <1>2. \A r \in Router : InitRow(r)[r] = Topology[r]
    BY DEF InitRow
  <1>3. NoOwnVector
    <2>1. \A r \in Router : vec[r][r][r] = 0
      BY <1>0, <1>1, <1>2
    <2> QED BY <2>1 DEF Init, NoOwnVector
  <1>4. ASSUME NEW r \in Router, NEW to \in Router, r # to
        PROVE  LET w == ChosenWay(Ways(cost[r], nbr[r], vec[r], to))
               IN  vec[r][r][to] = w.d /\ nextHop[r][to] = w.hop
    <2> DEFINE ways == Ways(cost[r], nbr[r], vec[r], to)
               own == OwnWay(cost[r], to)
               w == ChosenWay(ways)
    <2>1. Mids(nbr[r], vec[r], to) = {}
      <3> SUFFICES ASSUME NEW mid \in nbr[r], Valid(vec[r][mid][to]) PROVE FALSE
        BY DEF Mids
      <3>1. mid \in Router /\ Valid(Topology[r][mid])
        BY <1>1 DEF Init
      <3>2. mid # r
        BY <3>1, <1>0
      <3>3. InitRow(r)[mid] = [i \in Router |-> IF i = mid THEN 0 ELSE -1]
        BY <3>1, <3>2 DEF InitRow
      <3>4. vec[r][mid][to] \in {0, -1}
        BY <3>3, <1>1
      <3> QED BY <3>4, <1>0
    <2>2. ways = {own}
      BY <2>1 DEF Ways, OwnWay
    <2>3. own.d \in Int /\ own.by \in -1..0
      BY <1>0, <1>1 DEF OwnWay
    <2>4. w = own
      <3> HIDE DEF own, ways
      <3>1. ways # {} /\ 0 \in Nat /\ \A x \in ways : x.d \in Int /\ x.by \in -1..0
        BY <2>2, <2>3
      <3>2. ChosenWay(ways) \in ways
        BY <3>1, ChosenWayIsOne
      <3> QED BY <3>2, <2>2
    <2>5. vec[r][r][to] = own.d /\ nextHop[r][to] = own.hop
      BY <1>1, <1>2, <1>4 DEF OwnWay
    <2> HIDE DEF w, own
    <2> QED BY <2>4, <2>5 DEF w
  <1>5. Current
    BY <1>4 DEF Current
  <1>6. last # "DV"
    BY DEF Init
  <1> QED BY <1>3, <1>5, <1>6 DEF More

LEMMA StepMore == IInv /\ More /\ [Next]_vars => More'
  <1> SUFFICES ASSUME IInv, More, [Next]_vars PROVE More'
    OBVIOUS
  <1>1. ASSUME NEW r \in Router, RouterStep(r) PROVE More'
    BY <1>1, VectorMore, UpdateMore, OrderMore, EndMore, SendMore DEF RouterStep, Handle
  <1>2. CASE UNCHANGED vars
    BY <1>2, QuietMore DEF vars, agentVars, startVars
  <1>3. ASSUME NEW r \in Router, Start(r) PROVE More'
    BY <1>3, QuietMore DEF Start, agentVars
  <1> QED BY <1>1, <1>2, <1>3, UserSteps, CommandMore, AgentMore DEF Next

(***************************************************************************)
(* The invariant that adds to IInv where the vectors come from and who has *)
(* heard which.                                                            *)
(***************************************************************************)
THEOREM DvInvariance == Spec => []DvInv
  <1>1. Init => DvInv
    BY InitInv, InitMore DEF DvInv, More
  <1>2. DvInv /\ [Next]_vars => DvInv'
    BY StepInv, StepMore DEF DvInv, More
  <1> QED BY <1>1, <1>2, PTL DEF Spec

(***************************************************************************)
(* In every state each router's vector and next hops are what UpdateDV's   *)
(* loops, round by round, make of its links and its neighbours' vectors.   *)
(***************************************************************************)
THEOREM VectorsCurrent == Spec => []VectorsAreCurrent
  <1>1. DvInv => VectorsAreCurrent
    <2> SUFFICES ASSUME DvInv PROVE VectorsAreCurrent
      OBVIOUS
    <2>1. TablesTyped /\ Neighbours /\ Current
      BY IInvParts DEF DvInv, TablesOK
    <2> QED BY <2>1, CurrentLoops
  <1> QED BY <1>1, DvInvariance, PTL

-----------------------------------------------------------------------------
(* Shortest paths, by number of links *)

LinksTyped == \A r \in Router :
    /\ nbr[r] \in SUBSET Router /\ r \notin nbr[r]
    /\ \A m \in nbr[r] : cost[r][m] \in Nat /\ Valid(cost[r][m])

Lengths == [Router -> [Router -> Nat]]

LEMMA LeastOf ==
  ASSUME NEW S \in SUBSET Nat, S # {}
  PROVE  Least(S) \in S /\ \A y \in S : Least(S) <= y
  <1>1. \E x \in S : \A y \in S : x <= y
    BY LeastNat
  <1> QED BY <1>1 DEF Least

LEMMA OneMoreLinkIs ==
  ASSUME LinksTyped, NEW w \in Lengths
  PROVE  /\ OneMoreLink(w) \in Lengths
         /\ \A r, s \in Router :
               /\ OneMoreLink(w)[r][s] <= w[r][s]
               /\ \A m \in nbr[r] : OneMoreLink(w)[r][s] <= cost[r][m] + w[m][s]
               /\ \/ OneMoreLink(w)[r][s] = w[r][s]
                  \/ \E m \in nbr[r] : OneMoreLink(w)[r][s] = cost[r][m] + w[m][s]
  <1> DEFINE over(r, s) == {w[r][s]} \cup {cost[r][m] + w[m][s] : m \in nbr[r]}
  <1>1. ASSUME NEW r \in Router, NEW s \in Router
        PROVE  over(r, s) \in SUBSET Nat /\ over(r, s) # {}
    <2>1. w[r][s] \in Nat
      BY DEF Lengths
    <2>2. \A m \in nbr[r] : cost[r][m] + w[m][s] \in Nat
      BY DEF Lengths, LinksTyped
    <2> QED BY <2>1, <2>2
  <1>2. ASSUME NEW r \in Router, NEW s \in Router
        PROVE  Least(over(r, s)) \in over(r, s) /\ \A y \in over(r, s) : Least(over(r, s)) <= y
    <2> HIDE DEF over
    <2> QED BY <1>1, LeastOf
  <1>3. OneMoreLink(w) = [r \in Router |-> [s \in Router |-> Least(over(r, s))]]
    BY DEF OneMoreLink
  <1>4. \A r, s \in Router : OneMoreLink(w)[r][s] = Least(over(r, s))
    <2> HIDE DEF over
    <2> QED BY <1>3
  <1>5. OneMoreLink(w) \in Lengths
    <2> HIDE DEF over
    <2>1. \A r, s \in Router : Least(over(r, s)) \in Nat
      BY <1>1, <1>2
    <2> QED BY <2>1, <1>3 DEF Lengths
  <1>6. ASSUME NEW r \in Router, NEW s \in Router
        PROVE  /\ OneMoreLink(w)[r][s] <= w[r][s]
               /\ \A m \in nbr[r] : OneMoreLink(w)[r][s] <= cost[r][m] + w[m][s]
               /\ \/ OneMoreLink(w)[r][s] = w[r][s]
                  \/ \E m \in nbr[r] : OneMoreLink(w)[r][s] = cost[r][m] + w[m][s]
    <2>1. OneMoreLink(w)[r][s] \in over(r, s) /\ \A y \in over(r, s) : OneMoreLink(w)[r][s] <= y
      <3> HIDE DEF over
      <3> QED BY <1>2, <1>4
    <2> QED BY <2>1
  <1> QED BY <1>5, <1>6

LEMMA WithinTyped ==
  ASSUME LinksTyped PROVE \A k \in 0..N-1 : Within[k] \in Lengths
  <1> DEFINE Bad == {k \in 0..N-1 : Within[k] \notin Lengths}
  <1>0. N \in Nat \ {0} /\ MaxCost \in Nat
    BY DvAssumption
  <1>1. Bad = {}
    <2> SUFFICES ASSUME Bad # {} PROVE FALSE
      OBVIOUS
    <2>1. PICK n \in Bad : n \in Nat /\ n <= N - 1 /\ \A m \in Bad : n <= m
      <3>1. Bad \in SUBSET (0..N-1) /\ N - 1 \in Int
        BY <1>0
      <3> HIDE DEF Bad
      <3> QED BY <3>1, LeastBad
    <2>2. n # 0
      <3>1. Within[0] \in Lengths
        BY <1>0, WithinRounds DEF NoLinks, Lengths, Infinity
      <3> QED BY <3>1
    <2>3. n - 1 \in 0..N-2 /\ n - 1 \in 0..N-1 /\ n - 1 \notin Bad /\ n - 1 + 1 = n
      BY <2>1, <2>2, <1>0
    <2>4. Within[n - 1] \in Lengths
      BY <2>3
    <2>5. Within[n - 1 + 1] = OneMoreLink(Within[n - 1])
      BY <2>3, WithinRounds
    <2>6. Within[n] \in Lengths
      BY <2>3, <2>4, <2>5, OneMoreLinkIs
    <2> QED BY <2>6
  <1> QED BY <1>1

\* The table of lengths, read as a recursion on the number of links.
LEMMA WithinFacts ==
  ASSUME LinksTyped
  PROVE  /\ \A r, s \in Router : Within[0][r][s] = IF r = s THEN 0 ELSE Infinity
         /\ \A k \in 0..N-1 : \A r, s \in Router : Within[k][r][s] \in Nat
         /\ \A k \in 0..N-2 : \A r, s \in Router :
               /\ Within[k+1][r][s] <= Within[k][r][s]
               /\ \A m \in nbr[r] : Within[k+1][r][s] <= cost[r][m] + Within[k][m][s]
               /\ \/ Within[k+1][r][s] = Within[k][r][s]
                  \/ \E m \in nbr[r] : Within[k+1][r][s] = cost[r][m] + Within[k][m][s]
  <1>1. \A r, s \in Router : Within[0][r][s] = IF r = s THEN 0 ELSE Infinity
    BY WithinRounds DEF NoLinks
  <1>2. \A k \in 0..N-1 : \A r, s \in Router : Within[k][r][s] \in Nat
    BY WithinTyped DEF Lengths
  <1>3. ASSUME NEW k \in 0..N-2, NEW r \in Router, NEW s \in Router
        PROVE  /\ Within[k+1][r][s] <= Within[k][r][s]
               /\ \A m \in nbr[r] : Within[k+1][r][s] <= cost[r][m] + Within[k][m][s]
               /\ \/ Within[k+1][r][s] = Within[k][r][s]
                  \/ \E m \in nbr[r] : Within[k+1][r][s] = cost[r][m] + Within[k][m][s]
    <2>1. Within[k+1] = OneMoreLink(Within[k])
      BY WithinRounds
    <2>2. k \in 0..N-1
      BY DvAssumption
    <2>3. Within[k] \in Lengths
      BY <2>2, WithinTyped
    <2> QED BY <2>1, <2>3, OneMoreLinkIs
  <1> QED BY <1>1, <1>2, <1>3

LEMMA WithinShrinks ==
  ASSUME LinksTyped, NEW r \in Router, NEW s \in Router, NEW j \in 0..N-1
  PROVE  \A k \in j..N-1 : Within[k][r][s] <= Within[j][r][s]
  <1> DEFINE Bad == {k \in 0..N-1 : k >= j /\ ~(Within[k][r][s] <= Within[j][r][s])}
  <1>0. N \in Nat \ {0} /\ j \in Nat
    BY DvAssumption
  <1>1. Bad = {}
    <2> SUFFICES ASSUME Bad # {} PROVE FALSE
      OBVIOUS
    <2>1. PICK n \in Bad : n \in Nat /\ n <= N - 1 /\ \A m \in Bad : n <= m
      <3>1. Bad \in SUBSET (0..N-1) /\ N - 1 \in Int
        BY <1>0
      <3> HIDE DEF Bad
      <3> QED BY <3>1, LeastBad
    <2>2. n # j
      <3>1. Within[j][r][s] \in Nat
        BY WithinFacts
      <3> QED BY <3>1
    <2>3. PICK i \in 0..N-2 : i + 1 = n /\ i >= j /\ i \in 0..N-1 /\ i \notin Bad
      <3>1. n - 1 \in 0..N-2 /\ n - 1 + 1 = n /\ n - 1 >= j /\ n - 1 \in 0..N-1 /\ n - 1 \notin Bad
        BY <2>1, <2>2, <1>0
      <3> QED BY <3>1
    <2>4. Within[i][r][s] <= Within[j][r][s]
      BY <2>3
    <2>5. Within[n][r][s] <= Within[i][r][s]
      BY <2>3, WithinFacts
    <2>6. Within[n][r][s] \in Nat /\ Within[i][r][s] \in Nat /\ Within[j][r][s] \in Nat
      BY <2>1, <2>3, WithinFacts
    <2> QED BY <2>1, <2>4, <2>5, <2>6
  <1> QED BY <1>0, <1>1

-----------------------------------------------------------------------------
(* The routers at rest *)

\* The distance r has for t.
Dist(r, t) == vec[r][r][t]

(***************************************************************************)
(* What the distances of routers at rest satisfy: no link and no neighbour *)
(* offers less, and each route comes from one that does.                   *)
(***************************************************************************)
AtRest ==
    \A r, t \in Router :
        /\ Dist(r, t) \in Int
        /\ t \in nbr[r] => Valid(Dist(r, t)) /\ Dist(r, t) <= cost[r][t]
        /\ \A m \in nbr[r] :
              r # t /\ Valid(Dist(m, t)) /\ cost[r][m] + Dist(m, t) <= MaxCost =>
                  Valid(Dist(r, t)) /\ Dist(r, t) <= cost[r][m] + Dist(m, t)
        /\ r # t /\ Valid(Dist(r, t)) =>
              LET hop == nextHop[r][t] IN
              /\ hop \in nbr[r]
              /\ \/ hop = t /\ Dist(r, t) = cost[r][t]
                 \/ hop # t /\ Valid(Dist(hop, t)) /\ Dist(r, t) = cost[r][hop] + Dist(hop, t)

LEMMA ChosenIsCheapest ==
  ASSUME NEW row \in [Router -> Int], NEW nb \in SUBSET Router,
         NEW table \in [Router -> [Router -> Int]], NEW to \in Router
  PROVE  LET d == ChosenWay(Ways(row, nb, table, to)).d IN
         /\ Valid(row[to]) => Valid(d) /\ d <= row[to]
         /\ \A mid \in nb :
               Valid(table[mid][to]) /\ Valid(table[mid][to] + row[mid]) =>
                   Valid(d) /\ d <= table[mid][to] + row[mid]
  <1> DEFINE ways == Ways(row, nb, table, to)
             w == ChosenWay(ways)
  <1>1. /\ OwnWay(row, to) \in ways
        /\ \A mid \in nb : Valid(table[mid][to]) => WayOver(row, table, to, mid) \in ways
        /\ \A x \in ways : x.d \in Int /\ x.by \in -1..N-1 /\ x.by \in Int
    BY WaysAre
  <1>2. IsChosen(ways, w)
    <2> HIDE DEF ways
    <2>1. N - 1 \in Nat
      BY DvAssumption
    <2>2. ways # {} /\ \A x \in ways : x.d \in Int /\ x.by \in -1..(N-1)
      BY <1>1
    <2> QED BY <2>1, <2>2, ChosenWayIsOne
  <1> HIDE DEF ways, w
  <1>3. ASSUME NEW x \in ways, Valid(x.d) PROVE Valid(w.d) /\ w.d <= x.d
    <2>1. w \in ways /\ w.d \in Int /\ x.d \in Int
      BY <1>1, <1>2 DEF IsChosen
    <2>2. Valid(w.d) /\ (w.d < x.d \/ w.d = x.d)
      BY <1>2, <1>3 DEF IsChosen
    <2> QED BY <2>1, <2>2
  <1>4. Valid(row[to]) => Valid(w.d) /\ w.d <= row[to]
    <2>1. OwnWay(row, to).d = row[to]
      BY DEF OwnWay
    <2> QED BY <2>1, <1>1, <1>3
  <1>5. ASSUME NEW mid \in nb, Valid(table[mid][to]), Valid(table[mid][to] + row[mid])
        PROVE  Valid(w.d) /\ w.d <= table[mid][to] + row[mid]
    <2>1. WayOver(row, table, to, mid).d = table[mid][to] + row[mid]
      BY DEF WayOver
    <2> QED BY <2>1, <1>1, <1>3, <1>5
  <1> QED BY <1>4, <1>5 DEF w, ways

LEMMA RestLinks ==
  ASSUME TablesTyped, Neighbours PROVE LinksTyped
  <1> SUFFICES ASSUME NEW r \in Router
               PROVE  /\ nbr[r] \in SUBSET Router /\ r \notin nbr[r]
                      /\ \A m \in nbr[r] : cost[r][m] \in Nat /\ Valid(cost[r][m])
    BY DEF LinksTyped
  <1>1. nbr[r] \in SUBSET Router /\ cost[r] \in [Router -> Int]
    BY DEF TablesTyped, Table
  <1>2. \A m \in nbr[r] : m # r /\ Valid(cost[r][m])
    BY <1>1 DEF Neighbours
  <1>3. \A m \in nbr[r] : cost[r][m] \in Int
    BY <1>1
  <1> QED BY <1>1, <1>2, <1>3 DEF Valid

\* At rest, what a router stores of a neighbour is what the neighbour has.
LEMMA RestHeard ==
  ASSUME DvInv, Settled, last = "DV", ~missed, LinksAgree
  PROVE  \A r \in Router : \A m \in nbr[r] : ~Differ(vec[r][m], vec[m][m])
  <1> SUFFICES ASSUME NEW r \in Router, NEW m \in nbr[r] PROVE ~Differ(vec[r][m], vec[m][m])
    OBVIOUS
  <1>0. TablesTyped
    BY IInvParts DEF DvInv, TablesOK
  <1>1. m \in Router
    BY <1>0 DEF TablesTyped
  <1>2. r \in nbr[m]
    BY <1>1 DEF LinksAgree
  <1>3. Told
    BY DEF DvInv
  <1>4. HasTold(m, r)
    BY <1>1, <1>2, <1>3, ToldEach
  <1>5. job = <<>> /\ queue[m] = <<>> /\ queue[r] = <<>> /\ sending[m] = {}
    BY <1>1 DEF Settled
  <1>6. ~InJob(m) /\ ~HasOrder(queue[m]) /\ r \notin sending[m]
    BY <1>5 DEF InJob, HasOrder
  <1>7. LastHeard(<<>>, m, vec[r][m], vec[m][m])
    BY <1>4, <1>5, <1>6 DEF HasTold
  <1> QED BY <1>7 DEF LastHeard

LEMMA RestIs ==
  ASSUME DvInv, Settled, last = "DV", ~missed, LinksAgree
  PROVE  AtRest
  <1>0. /\ TablesTyped /\ Neighbours /\ Current /\ RoutesExplained /\ OwnZero /\ LinksTyped
    BY IInvParts, NoOwnParts, RestLinks DEF DvInv, TablesOK
  <1> SUFFICES ASSUME NEW r \in Router, NEW t \in Router
               PROVE  /\ Dist(r, t) \in Int
                      /\ t \in nbr[r] => Valid(Dist(r, t)) /\ Dist(r, t) <= cost[r][t]
                      /\ \A m \in nbr[r] :
                            r # t /\ Valid(Dist(m, t)) /\ cost[r][m] + Dist(m, t) <= MaxCost =>
                                Valid(Dist(r, t)) /\ Dist(r, t) <= cost[r][m] + Dist(m, t)
                      /\ r # t /\ Valid(Dist(r, t)) =>
                            LET hop == nextHop[r][t] IN
                            /\ hop \in nbr[r]
                            /\ \/ hop = t /\ Dist(r, t) = cost[r][t]
                               \/ /\ hop # t /\ Valid(Dist(hop, t))
                                  /\ Dist(r, t) = cost[r][hop] + Dist(hop, t)
    BY DEF AtRest
  <1>1. \A q, s \in Router : Dist(q, s) \in Int
    BY <1>0 DEF TablesTyped, Dist
  <1>2. /\ cost[r] \in [Router -> Int] /\ nbr[r] \in SUBSET Router
        /\ vec[r] \in [Router -> [Router -> Int]]
    BY <1>0 DEF TablesTyped, Table
  <1>3. \A m \in nbr[r] : /\ m \in Router /\ m # r
                          /\ Valid(cost[r][m]) /\ cost[r][m] \in Int
    BY <1>0, <1>2 DEF Neighbours
  \* What r stores of a neighbour is the neighbour's.
  <1>4. \A m \in nbr[r] : (Valid(vec[r][m][t]) \/ Valid(Dist(m, t))) => vec[r][m][t] = Dist(m, t)
    BY RestHeard DEF Differ, Dist
  <1> DEFINE w == ChosenWay(Ways(cost[r], nbr[r], vec[r], t))
  <1>5. /\ Valid(cost[r][t]) => Valid(w.d) /\ w.d <= cost[r][t]
        /\ \A mid \in nbr[r] :
              Valid(vec[r][mid][t]) /\ Valid(vec[r][mid][t] + cost[r][mid]) =>
                  Valid(w.d) /\ w.d <= vec[r][mid][t] + cost[r][mid]
    BY <1>2, ChosenIsCheapest
  <1>6. r # t => Dist(r, t) = w.d
    BY <1>0 DEF Current, Dist
  <1> HIDE DEF w
  <1>7. t \in nbr[r] => Valid(Dist(r, t)) /\ Dist(r, t) <= cost[r][t]
    BY <1>3, <1>5, <1>6
  <1>8. ASSUME NEW m \in nbr[r], r # t, Valid(Dist(m, t)), cost[r][m] + Dist(m, t) <= MaxCost
        PROVE  Valid(Dist(r, t)) /\ Dist(r, t) <= cost[r][m] + Dist(m, t)
    <2>1. vec[r][m][t] = Dist(m, t) /\ Dist(m, t) \in Int /\ cost[r][m] \in Int
      BY <1>1, <1>3, <1>4, <1>8
    <2>2. Valid(Dist(m, t) + cost[r][m])
      BY <2>1, <1>3, <1>8 DEF Valid
    <2>3. Valid(w.d) /\ w.d <= vec[r][m][t] + cost[r][m]
      BY <2>1, <2>2, <1>5, <1>8
    <2>4. Dist(r, t) = w.d /\ Dist(m, t) + cost[r][m] = cost[r][m] + Dist(m, t)
      BY <2>1, <1>6, <1>8
    <2> QED BY <2>1, <2>3, <2>4
  <1>9. ASSUME r # t, Valid(Dist(r, t))
        PROVE  LET hop == nextHop[r][t] IN
               /\ hop \in nbr[r]
               /\ \/ hop = t /\ Dist(r, t) = cost[r][t]
                  \/ /\ hop # t /\ Valid(Dist(hop, t))
                     /\ Dist(r, t) = cost[r][hop] + Dist(hop, t)
    <2> DEFINE hop == nextHop[r][t]
    <2>1. /\ hop \in nbr[r]
          /\ \/ hop = t /\ Dist(r, t) = cost[r][t]
             \/ Valid(vec[r][hop][t]) /\ Dist(r, t) = cost[r][hop] + vec[r][hop][t]
      BY <1>0, <1>9 DEF RoutesExplained, HasRoute, Dist
    <2> HIDE DEF hop
    <2>2. CASE hop = t /\ Dist(r, t) = cost[r][t]
      BY <2>1, <2>2 DEF hop
    <2>3. CASE Valid(vec[r][hop][t]) /\ Dist(r, t) = cost[r][hop] + vec[r][hop][t]
      <3>1. vec[r][hop][t] = Dist(hop, t)
        BY <2>1, <2>3, <1>4
      <3>2. hop # t
        <4>1. Dist(t, t) = 0 /\ ~Valid(0)
          BY <1>0 DEF OwnZero, Dist, Valid
        <4> QED BY <4>1, <3>1, <2>3
      <3> QED BY <3>1, <3>2, <2>1, <2>3 DEF hop
    <2> QED BY <2>1, <2>2, <2>3
  <1> QED BY <1>1, <1>7, <1>8, <1>9

(***************************************************************************)
(* No distance is longer than a path of some number of links, as long as   *)
(* the path is no longer than MAX_COST.                                    *)
(***************************************************************************)
LEMMA RestNotLonger ==
  ASSUME AtRest, LinksTyped, NEW t \in Router
  PROVE  \A k \in 0..N-1 : \A r \in Router :
            r # t /\ Within[k][r][t] <= MaxCost => Valid(Dist(r, t)) /\ Dist(r, t) <= Within[k][r][t]
  <1> DEFINE Holds(k, r) == r # t /\ Within[k][r][t] <= MaxCost =>
                               Valid(Dist(r, t)) /\ Dist(r, t) <= Within[k][r][t]
             Bad == {k \in 0..N-1 : ~ \A r \in Router : Holds(k, r)}
  <1>0. N \in Nat \ {0} /\ MaxCost \in Nat
    BY DvAssumption
  <1>1. /\ \A r, s \in Router : Within[0][r][s] = IF r = s THEN 0 ELSE Infinity
        /\ \A k \in 0..N-1 : \A r, s \in Router : Within[k][r][s] \in Nat
        /\ \A k \in 0..N-2 : \A r, s \in Router :
              \/ Within[k+1][r][s] = Within[k][r][s]
              \/ \E m \in nbr[r] : Within[k+1][r][s] = cost[r][m] + Within[k][m][s]
    BY WithinFacts
  <1>2. Bad = {}
    <2> SUFFICES ASSUME Bad # {} PROVE FALSE
      OBVIOUS
    <2>1. PICK n \in Bad : n \in Nat /\ n <= N - 1 /\ \A m \in Bad : n <= m
      <3>1. Bad \in SUBSET (0..N-1) /\ N - 1 \in Int
        BY <1>0
      <3> HIDE DEF Bad
      <3> QED BY <3>1, LeastBad
    <2>2. n # 0
      <3>1. \A r \in Router : r # t => Within[0][r][t] = MaxCost + 1
        BY <1>1 DEF Infinity
      <3>2. \A r \in Router : Holds(0, r)
        BY <3>1, <1>0
      <3> HIDE DEF Holds
      <3> QED BY <3>2
    <2>3. PICK i \in 0..N-2 : i + 1 = n /\ i \in 0..N-1 /\ i \notin Bad
      <3>1. n - 1 \in 0..N-2 /\ n - 1 + 1 = n /\ n - 1 \in 0..N-1 /\ n - 1 \notin Bad
        BY <2>1, <2>2, <1>0
      <3> QED BY <3>1
    <2>4. \A r \in Router : Holds(i, r)
      BY <2>3
    <2>5. ASSUME NEW r \in Router, r # t, Within[n][r][t] <= MaxCost
          PROVE  Valid(Dist(r, t)) /\ Dist(r, t) <= Within[n][r][t]
      <3>1. CASE Within[n][r][t] = Within[i][r][t]
        BY <3>1, <2>4, <2>5
      <3>2. CASE \E m \in nbr[r] : Within[n][r][t] = cost[r][m] + Within[i][m][t]
        <4>1. PICK m \in nbr[r] : Within[n][r][t] = cost[r][m] + Within[i][m][t]
          BY <3>2
        <4>2. m \in Router /\ cost[r][m] \in Nat /\ Within[i][m][t] \in Nat
          BY <2>3, <1>1 DEF LinksTyped
        <4>3. /\ Dist(r, t) \in Int /\ Dist(m, t) \in Int
              /\ t \in nbr[r] => Valid(Dist(r, t)) /\ Dist(r, t) <= cost[r][t]
              /\ Valid(Dist(m, t)) /\ cost[r][m] + Dist(m, t) <= MaxCost =>
                     Valid(Dist(r, t)) /\ Dist(r, t) <= cost[r][m] + Dist(m, t)
          BY <4>2, <2>5 DEF AtRest
        <4>4. CASE m = t
          <5>1. Dist(r, t) <= cost[r][m] /\ Valid(Dist(r, t))
            BY <4>3, <4>4
          <5> QED BY <5>1, <4>1, <4>2, <4>3
        <4>5. CASE m # t
          <5>1. Within[i][m][t] <= MaxCost
            BY <4>1, <4>2, <2>5, <1>0
          <5>2. Valid(Dist(m, t)) /\ Dist(m, t) <= Within[i][m][t]
            BY <5>1, <4>2, <4>5, <2>4
          <5>3. cost[r][m] + Dist(m, t) <= Within[n][r][t]
            BY <5>2, <4>1, <4>2, <4>3
          <5>4. cost[r][m] + Dist(m, t) <= MaxCost
            BY <5>3, <4>1, <4>2, <4>3, <2>5, <1>0
          <5>5. Valid(Dist(r, t)) /\ Dist(r, t) <= cost[r][m] + Dist(m, t)
            BY <5>2, <5>4, <4>3
          <5> QED BY <5>3, <5>5, <4>1, <4>2, <4>3
        <4> QED BY <4>4, <4>5
      <3>3. Within[i+1][r][t] = Within[i][r][t]
              \/ \E m \in nbr[r] : Within[i+1][r][t] = cost[r][m] + Within[i][m][t]
        BY <1>1
      <3> QED BY <3>1, <3>2, <3>3, <2>3
    <2>6. \A r \in Router : Holds(n, r)
      BY <2>5
    <2> HIDE DEF Holds
    <2> QED BY <2>1, <2>6
  <1> QED BY <1>2

\* The routers that are nearer to t than r is, t aside.
Nearer(r, t) == {x \in Router \ {t} : Valid(Dist(x, t)) /\ Dist(x, t) < Dist(r, t)}

LEMMA FewAreNearer ==
  ASSUME AtRest, NEW t \in Router, NEW r \in Router, r # t
  PROVE  /\ IsFiniteSet(Nearer(r, t)) /\ Cardinality(Nearer(r, t)) \in 0..N-2
         /\ \A m \in Nearer(r, t) : Cardinality(Nearer(m, t)) < Cardinality(Nearer(r, t))
  <1>0. N \in Nat \ {0} /\ \A x \in Router : Dist(x, t) \in Int
    BY DvAssumption DEF AtRest
  <1>1. IsFiniteSet(Router) /\ Cardinality(Router) = N
    <2>1. 0 \in Int /\ N - 1 \in Int /\ ~(0 > N - 1) /\ N - 1 - 0 + 1 = N
      BY <1>0
    <2> QED BY <2>1, FS_Interval DEF Router
  <1>2. IsFiniteSet(Router \ {t}) /\ Cardinality(Router \ {t}) = N - 1
    BY <1>1, FS_RemoveElement
  <1>3. IsFiniteSet((Router \ {t}) \ {r}) /\ Cardinality((Router \ {t}) \ {r}) = N - 2
    <2>1. r \in Router \ {t}
      OBVIOUS
    <2>2. Cardinality((Router \ {t}) \ {r}) = (N - 1) - 1 /\ IsFiniteSet((Router \ {t}) \ {r})
      BY <1>2, <2>1, FS_RemoveElement
    <2> QED BY <2>2, <1>0
  <1>4. Nearer(r, t) \in SUBSET ((Router \ {t}) \ {r})
    BY <1>0 DEF Nearer
  <1>5. IsFiniteSet(Nearer(r, t)) /\ Cardinality(Nearer(r, t)) <= N - 2
    BY <1>3, <1>4, FS_Subset
  <1>6. Cardinality(Nearer(r, t)) \in Nat
    BY <1>5, FS_CardinalityType
  <1>7. ASSUME NEW m \in Nearer(r, t)
        PROVE  Cardinality(Nearer(m, t)) < Cardinality(Nearer(r, t))
    <2>1. m \in Router /\ Dist(m, t) < Dist(r, t)
      BY DEF Nearer
    <2>2. Nearer(m, t) \in SUBSET Nearer(r, t)
      BY <2>1, <1>0 DEF Nearer
    <2>3. m \notin Nearer(m, t)
      BY <2>1, <1>0 DEF Nearer
    <2>4. Nearer(m, t) # Nearer(r, t)
      BY <2>3
    <2>5. /\ IsFiniteSet(Nearer(m, t))
          /\ Cardinality(Nearer(m, t)) <= Cardinality(Nearer(r, t))
          /\ Cardinality(Nearer(r, t)) # Cardinality(Nearer(m, t))
      BY <2>2, <2>4, <1>5, FS_Subset
    <2>6. Cardinality(Nearer(m, t)) \in Nat
      BY <2>5, FS_CardinalityType
    <2> QED BY <2>5, <2>6, <1>6
  <1>8. Cardinality(Nearer(r, t)) \in 0..N-2
    BY <1>0, <1>5, <1>6
  <1> QED BY <1>5, <1>7, <1>8

(***************************************************************************)
(* No distance is shorter than the shortest path: following the next hops  *)
(* leads to ever nearer routers, so along no more links than there are     *)
(* routers.                                                                *)
(***************************************************************************)
LEMMA RestNotShorter ==
  ASSUME AtRest, LinksTyped, NEW t \in Router
  PROVE  \A r \in Router :
            r # t /\ Valid(Dist(r, t)) => Within[N-1][r][t] <= Dist(r, t)
  <1> DEFINE Size(r) == Cardinality(Nearer(r, t))
             Fails(i, r) == /\ r # t /\ Valid(Dist(r, t)) /\ Size(r) = i
                            /\ ~(Within[i+1][r][t] <= Dist(r, t))
             Bad == {i \in 0..N-2 : \E r \in Router : Fails(i, r)}
  <1>0. N \in Nat \ {0} /\ \A r \in Router : Dist(r, t) \in Int
    BY DvAssumption DEF AtRest
  <1>1. /\ \A r, s \in Router : Within[0][r][s] = IF r = s THEN 0 ELSE Infinity
        /\ \A k \in 0..N-1 : \A r, s \in Router : Within[k][r][s] \in Nat
        /\ \A k \in 0..N-2 : \A r, s \in Router : \A m \in nbr[r] :
              Within[k+1][r][s] <= cost[r][m] + Within[k][m][s]
    BY WithinFacts
  <1>2. \A r \in Router : r # t => Size(r) \in 0..N-2
    BY FewAreNearer
  <1>3. Bad = {}
    <2> SUFFICES ASSUME Bad # {} PROVE FALSE
      OBVIOUS
    <2>1. PICK i \in Bad : i \in Nat /\ i <= N - 2 /\ \A j \in Bad : i <= j
      <3>1. Bad \in SUBSET (0..N-2) /\ N - 2 \in Int
        BY <1>0
      <3> HIDE DEF Bad
      <3> QED BY <3>1, LeastBad
    <2>2. PICK r \in Router : Fails(i, r)
      BY <2>1
    <2>3. i \in 0..N-2 /\ i \in 0..N-1 /\ i + 1 \in 0..N-1
      BY <2>1, <1>0
    <2>4. PICK m : /\ m = nextHop[r][t] /\ m \in nbr[r]
                   /\ \/ m = t /\ Dist(r, t) = cost[r][t]
                      \/ m # t /\ Valid(Dist(m, t)) /\ Dist(r, t) = cost[r][m] + Dist(m, t)
      BY <2>2 DEF AtRest
    <2>5. m \in Router /\ cost[r][m] \in Nat /\ cost[r][m] > 0
      BY <2>4 DEF LinksTyped, Valid
    <2>6. /\ Within[i+1][r][t] <= cost[r][m] + Within[i][m][t]
          /\ Within[i+1][r][t] \in Nat /\ Within[i][m][t] \in Nat
      BY <2>3, <2>4, <2>5, <1>1
    <2>7. CASE m = t /\ Dist(r, t) = cost[r][t]
      <3>1. Within[i][t][t] <= Within[0][t][t] /\ Within[0][t][t] = 0
        <4>1. 0 \in 0..N-1 /\ i \in 0..N-1
          BY <2>3, <1>0
        <4> QED BY <4>1, <1>1, WithinShrinks
      <3>2. Within[i+1][r][t] <= Dist(r, t)
        BY <3>1, <2>5, <2>6, <2>7
      <3> QED BY <3>2, <2>2
    <2>8. CASE m # t /\ Valid(Dist(m, t)) /\ Dist(r, t) = cost[r][m] + Dist(m, t)
      <3>1. Dist(m, t) \in Int /\ Dist(m, t) < Dist(r, t)
        BY <2>5, <2>8, <1>0
      <3>2. m \in Nearer(r, t)
        BY <3>1, <2>5, <2>8 DEF Nearer
      <3>3. PICK j \in 0..N-2 : j = Size(m) /\ j < i
        <4>1. Size(m) < Size(r) /\ Size(m) \in 0..N-2
          BY <3>2, <2>2, <2>5, <2>8, <1>2, FewAreNearer
        <4> QED BY <4>1, <2>2
      <3>4. j \notin Bad
        BY <3>3, <2>1
      <3>5. Within[j+1][m][t] <= Dist(m, t)
        BY <3>3, <3>4, <2>5, <2>8
      <3>6. j + 1 \in 0..N-1 /\ i \in j+1..N-1
        BY <3>3, <2>3, <1>0
      <3>7. Within[i][m][t] <= Within[j+1][m][t] /\ Within[j+1][m][t] \in Nat
        <4>1. \A k \in j+1..N-1 : Within[k][m][t] <= Within[j+1][m][t]
          BY <3>6, <2>5, WithinShrinks
        <4> QED BY <4>1, <3>6, <2>5, <1>1
      <3>8. Within[i+1][r][t] <= Dist(r, t)
        BY <3>1, <3>5, <3>7, <2>5, <2>6, <2>8
      <3> QED BY <3>8, <2>2
    <2> QED BY <2>4, <2>7, <2>8
  <1>4. ASSUME NEW r \in Router, r # t, Valid(Dist(r, t))
        PROVE  Within[N-1][r][t] <= Dist(r, t)
    <2>1. PICK i \in 0..N-2 : i = Size(r)
      BY <1>2, <1>4
    <2>2. i \notin Bad
      BY <1>3
    <2>3. Within[i+1][r][t] <= Dist(r, t)
      BY <2>1, <2>2, <1>4
    <2>4. i + 1 \in 0..N-1 /\ N - 1 \in 0..N-1 /\ N - 1 \in i+1..N-1
      BY <1>0
    <2>5. Within[N-1][r][t] <= Within[i+1][r][t]
      BY <2>4, WithinShrinks
    <2>6. Within[N-1][r][t] \in Nat /\ Within[i+1][r][t] \in Nat /\ Dist(r, t) \in Int
      BY <2>4, <1>0, <1>1
    <2> QED BY <2>3, <2>5, <2>6
  <1> QED BY <1>4

\* At rest, the distances are those of the shortest paths.
LEMMA RestIsShortest ==
  ASSUME AtRest, LinksTyped PROVE ShortestPaths
  <1>0. N \in Nat \ {0} /\ MaxCost \in Nat /\ N - 1 \in 0..N-1 /\ 0 \in 0..N-1
    BY DvAssumption
  <1>1. \A r, s \in Router : Distance[r][s] \in Nat
    BY <1>0, WithinFacts DEF Distance
  <1>2. \A s \in Router : Distance[s][s] = 0
    <2> TAKE s \in Router
    <2>1. Within[0][s][s] = 0
      BY WithinFacts
    <2>2. Distance[s][s] <= Within[0][s][s]
      BY <1>0, WithinShrinks DEF Distance
    <2> QED BY <2>1, <2>2, <1>1
  <1>3. ASSUME NEW r \in Router, NEW s \in Router, r # s
        PROVE  /\ Valid(Dist(r, s)) <=> Valid(Distance[r][s])
               /\ Valid(Dist(r, s)) => Dist(r, s) = Distance[r][s]
    <2>1. Distance[r][s] <= MaxCost => Valid(Dist(r, s)) /\ Dist(r, s) <= Distance[r][s]
      BY <1>0, <1>3, RestNotLonger DEF Distance
    <2>2. Valid(Dist(r, s)) => Distance[r][s] <= Dist(r, s)
      BY <1>3, RestNotShorter DEF Distance
    <2>3. Dist(r, s) \in Int /\ Distance[r][s] \in Nat
      BY <1>1 DEF AtRest
    <2> QED BY <2>1, <2>2, <2>3, <1>0 DEF Valid
  <1>4. ASSUME NEW r \in Router, NEW s \in Router, r # s, Valid(Dist(r, s))
        PROVE  cost[r][nextHop[r][s]] + Distance[nextHop[r][s]][s] = Dist(r, s)
    <2>1. PICK m : /\ m = nextHop[r][s] /\ m \in nbr[r]
                   /\ \/ m = s /\ Dist(r, s) = cost[r][s]
                      \/ m # s /\ Valid(Dist(m, s)) /\ Dist(r, s) = cost[r][m] + Dist(m, s)
      BY <1>4 DEF AtRest
    <2>2. m \in Router /\ cost[r][m] \in Nat
      BY <2>1 DEF LinksTyped
    <2>3. CASE m = s /\ Dist(r, s) = cost[r][s]
      <3>1. Distance[m][s] = 0
        BY <2>3, <1>2
      <3>2. cost[r][m] + Distance[m][s] = Dist(r, s)
        BY <3>1, <2>2, <2>3
      <3> QED BY <3>2, <2>1
    <2>4. CASE m # s /\ Valid(Dist(m, s)) /\ Dist(r, s) = cost[r][m] + Dist(m, s)
      <3>1. Distance[m][s] = Dist(m, s)
        BY <2>2, <2>4, <1>3
      <3> QED BY <3>1, <2>1, <2>4
    <2> QED BY <2>1, <2>3, <2>4
  <1> SUFFICES ASSUME NEW r \in Router, NEW s \in Router, r # s
               PROVE  /\ HasRoute(r, s) <=> Valid(Distance[r][s])
                      /\ Valid(Distance[r][s]) =>
                            /\ vec[r][r][s] = Distance[r][s]
                            /\ cost[r][nextHop[r][s]] + Distance[nextHop[r][s]][s] = Distance[r][s]
    BY DEF ShortestPaths
  <1>5. HasRoute(r, s) <=> Valid(Dist(r, s))
    BY DEF HasRoute, Dist
  <1>6. vec[r][r][s] = Dist(r, s)
    BY DEF Dist
  <1> QED BY <1>3, <1>4, <1>5, <1>6

(***************************************************************************)
(* Once the routers settle after a DV command, every router has exactly    *)
(* the shortest paths up to MAX_COST and a next hop on one of them, in any *)
(* network, whatever updates came before and in whatever order the vectors *)
(* were handled, unless somebody was called before it listened.            *)
(***************************************************************************)
THEOREM SettledExact == Spec => []SettledIsExact
  <1>1. DvInv => SettledIsExact
    <2> SUFFICES ASSUME DvInv, Settled, last = "DV", ~missed, LinksAgree PROVE ShortestPaths
      BY DEF SettledIsExact
    <2>1. AtRest
      BY RestIs
    <2>2. LinksTyped
      BY IInvParts, RestLinks DEF DvInv, TablesOK
    <2> QED BY <2>1, <2>2, RestIsShortest
  <1> QED BY <1>1, DvInvariance, PTL
=============================================================================
