----------------------------- MODULE MCDvRouter -----------------------------
(* DvRouter for TLC: topologies and updates. *)
EXTENDS DvRouterInv

\* costTable of a topology file with these lines, each for both directions.
Undirected(edges) ==
    [r \in Router |-> [s \in Router |->
        IF r = s THEN 0
        ELSE LET es == {e \in edges : {e[1], e[2]} = {r, s}}
             IN  IF es = {} THEN -1 ELSE (CHOOSE e \in es : TRUE)[3]]]

Line == Undirected({<<0, 1, 1>>, <<1, 2, 2>>})
Triangle == Undirected({<<0, 1, 1>>, <<1, 2, 1>>, <<0, 2, 5>>})

\* Both directions of one link get one of these costs.
BothWays(r, s, cs) == UNION {{[src |-> r, dest |-> s, cost |-> c],
                              [src |-> s, dest |-> r, cost |-> c]} : c \in cs}

LinkLost == BothWays(0, 1, {-1})
LinkFlaps == BothWays(0, 1, {-1, 4})

\* The cheapest path over the cheapest cost each link ever has.
LineFloor == Undirected({<<0, 1, 1>>, <<1, 2, 2>>, <<0, 2, 3>>})
TriangleFloor == Undirected({<<0, 1, 1>>, <<1, 2, 1>>, <<0, 2, 2>>})

=============================================================================
