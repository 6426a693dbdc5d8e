---------------------------- MODULE DvRouterInv -----------------------------
(***************************************************************************)
(* What keeps the routers of DvRouter from going wrong: the inductive      *)
(* invariants behind the theorems of DvRouterProofs.                       *)
(***************************************************************************)
EXTENDS DvRouter

-----------------------------------------------------------------------------
(* Links, mail and jobs *)

\* The neighbours of r are the ends of its links, whose costs are known.
Neighbours ==
    \A r, s \in Router :
        /\ s \in nbr[r] <=> s # r /\ Valid(cost[r][s])
        /\ s \in nbr[r] => cost[r][s] \in LinkCosts(r, s)

\* What may be in a message to r.
Genuine(r, m) ==
    /\ m.type = "UPDATE" => [src |-> r, dest |-> m.dest, cost |-> m.cost] \in Updates
    /\ m.type = "IRC" => SoundVector(m.src, m.dv)

Mail ==
    \A r \in Router : \A k \in 1..Len(queue[r]) :
        /\ Genuine(r, queue[r][k])
        /\ queue[r][k].type = "QUIT" => last = "QUIT"
        /\ queue[r][k].type = "SHOW" =>
              /\ agent = "await"
              /\ \A s \in Router : \A j \in 1..Len(queue[s]) :
                    queue[s][j].type = "SHOW" => s = r /\ j = k

Jobs ==
    /\ \A k \in 1..Len(job) :
          /\ Genuine(job[k].to, job[k].msg)
          /\ job[k].msg.type = "QUIT" => last = "QUIT"
          /\ job[k].msg.type = "SHOW" => Len(job) = 1
          /\ last = "QUIT" => job[k].msg.type = "QUIT"
    /\ agent # "ready" => job = <<>>
    /\ last = "QUIT" => agent = "ended" \/ (agent = "ready" /\ job # <<>>)

Sound == \A r, s \in Router : SoundVector(s, vec[r][s])

IInv == TypeOK /\ Neighbours /\ Mail /\ Jobs /\ NobodyEndsUnasked /\ RoutesExplained /\ Sound

-----------------------------------------------------------------------------
(* The vectors of a router are what UpdateDV makes of its tables. *)

From(m, s) == m.type = "IRC" /\ m.src = s

\* No router hears of itself, and each is at distance 0 from itself.
NoOwnVector ==
    /\ \A r \in Router :
          /\ vec[r][r][r] = 0
          /\ \A k \in 1..Len(queue[r]) : ~From(queue[r][k], r)
          /\ r \notin sending[r]
    /\ \A k \in 1..Len(job) : job[k].msg.type # "IRC"

Current ==
    \A r, to \in Router :
        r # to => LET w == ChosenWay(Ways(cost[r], nbr[r], vec[r], to))
                  IN  vec[r][r][to] = w.d /\ nextHop[r][to] = w.hop

-----------------------------------------------------------------------------
(* After a DV command, what a neighbour was told last is what still holds. *)

\* An order to tell the neighbours: on its way to s, or waiting in a queue.
InJob(s) == \E k \in 1..Len(job) : job[k].to = s /\ job[k].msg.type = "DV"
HasOrder(q) == \E k \in 1..Len(q) : q[k].type = "DV"

\* Behind every update waits an order.
OrderFollows(q) ==
    \A j \in 1..Len(q) : q[j].type = "UPDATE" => \E k \in j+1..Len(q) : q[k].type = "DV"

\* Updates given before the command come before its orders.
UpdatesFirst ==
    /\ \A k \in 1..Len(job) : job[k].msg.type # "UPDATE"
    /\ \A s \in Router : InJob(s) \/ OrderFollows(queue[s])

\* The last vector from s, of those waiting in q or else the one stored, is v.
LastHeard(q, s, stored, v) ==
    \/ (\A k \in 1..Len(q) : ~From(q[k], s)) /\ ~Differ(stored, v)
    \/ \E k \in 1..Len(q) :
          /\ From(q[k], s) /\ ~Differ(q[k].dv, v)
          /\ \A j \in k+1..Len(q) : ~From(q[j], s)

Told ==
    \A s \in Router : \A r \in nbr[s] :
        \/ InJob(s) \/ HasOrder(queue[s]) \/ r \in sending[s]
        \/ LastHeard(queue[r], s, vec[r][s], vec[s][s])

DvInv ==
    /\ IInv /\ NoOwnVector /\ Current
    /\ last = "DV" /\ ~missed => UpdatesFirst /\ Told
=============================================================================
