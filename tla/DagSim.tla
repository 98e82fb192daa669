-------------------------------- MODULE DagSim --------------------------------
(***************************************************************************)
(* The DAG simulator (simulations/modules/consensus/dag.go): vertices that *)
(* refer to some of the tips, and confirmations by descendants.            *)
(*                                                                         *)
(* Any tips may be drawn as parents; the weights, which only bias the      *)
(* draw, are left out.  Random and weighted selection return as many tips  *)
(* as they are asked for, mcmc may return fewer.                           *)
(***************************************************************************)
EXTENDS Naturals, Sequences, FiniteSets, FiniteSetsExt

CONSTANTS
    N,             \* node_count
    Limits,        \* pairs <<min_parents, max_parents>>
    MaxVertices    \* bound: vertices, genesis included

DagAssumption ==
    /\ {N, MaxVertices} \subseteq Nat \ {0}
    /\ Limits \subseteq (Nat \ {0}) \X (Nat \ {0})

VARIABLES
    limits,        \* s.minParents, s.maxParents
    selection,     \* s.tipSelection
    tick,          \* the tick, modulo 5
    dag,           \* s.globalDAG by the parents of each vertex, s.tips
    confirmed,     \* the vertices with Confirmed
    confirmedCount

vars == <<limits, selection, tick, dag, confirmed, confirmedCount>>

Genesis == 1

Init ==
    /\ limits \in Limits
    /\ selection \in {"weighted", "mcmc"}
    /\ tick = 0
    /\ dag = [parents |-> <<{}>>, tips |-> {Genesis}]
    /\ confirmed = {Genesis}
    /\ confirmedCount = 1

-----------------------------------------------------------------------------
\* The number of parents asked for, cut to the number of tips.
ParentCounts(d) ==
    {Min({k, Cardinality(d.tips)}) : k \in limits[1] .. Max({limits[1], limits[2]})}

\* selectParents.
Selections(d) ==
    UNION {kSubset(k, d.tips) : k \in IF selection = "mcmc" THEN 1 .. Max(ParentCounts(d))
                                      ELSE ParentCounts(d)}

\* The early return of createVertex.
Enough(parents) == Cardinality(parents) >= limits[1]

(* createVertex and updateTips, for every possible draw.                   *)
Created(d) ==
    {[parents |-> Append(d.parents, ps), tips |-> (d.tips \ ps) \cup {Len(d.parents) + 1}] :
        ps \in {s \in Selections(d) : Enough(s)}}

\* isAncestor.
Ancestors(d) ==
    LET above[v \in DOMAIN d.parents] ==
            d.parents[v] \cup UNION {above[p] : p \in d.parents[v]}
    IN  above

Confirmers(d, v) == {w \in DOMAIN d.parents : v \in Ancestors(d)[w]}

(* updateConfirmations.                                                    *)
Confirm(d) ==
    LET news == {v \in DOMAIN d.parents \ confirmed : Cardinality(Confirmers(d, v)) >= N \div 2}
    IN  /\ confirmed' = confirmed \cup news
        /\ confirmedCount' = confirmedCount + Cardinality(news)

(* onTick: some of the nodes create a vertex, one after the other.         *)
Tick ==
    /\ tick' = (tick + 1) % 5
    /\ LET grown[n \in 0 .. N] ==
               IF n = 0 THEN {dag}
               ELSE grown[n - 1] \cup UNION {Created(d) : d \in grown[n - 1]}
       IN  \E d \in grown[N] :
               /\ Len(d.parents) <= MaxVertices
               /\ dag' = d
               /\ IF tick' = 0 THEN Confirm(d) ELSE UNCHANGED <<confirmed, confirmedCount>>
    /\ UNCHANGED <<limits, selection>>

(* create_vertex; it reports success even when no vertex was created.      *)
CreateVertex ==
    /\ \E d \in Created(dag) : Len(d.parents) <= MaxVertices /\ dag' = d
    /\ UNCHANGED <<limits, selection, tick, confirmed, confirmedCount>>

(* update_confirmations.                                                   *)
UpdateConfirmations ==
    /\ Confirm(dag)
    /\ UNCHANGED <<limits, selection, tick, dag>>

Next == Tick \/ CreateVertex \/ UpdateConfirmations

Spec == Init /\ [][Next]_vars

-----------------------------------------------------------------------------
(* Type correctness.                                                       *)
TypeOK ==
    /\ limits \in Limits
    /\ tick \in 0 .. 4
    /\ Len(dag.parents) \in 1 .. MaxVertices
    /\ \A v \in DOMAIN dag.parents : dag.parents[v] \subseteq 1 .. v - 1
    /\ dag.tips \subseteq DOMAIN dag.parents
    /\ confirmed \subseteq DOMAIN dag.parents
    /\ confirmedCount \in Nat

(* A vertex takes the tips it refers to away and adds itself, and genesis  *)
(* is alone at first: however many nodes create vertices in a tick, and    *)
(* however parents are drawn, there is one tip and the graph is a chain.   *)
(* With two parents or more required, the default, nothing is created at   *)
(* all.  What is confirmed has confirmed ancestors and is counted once.    *)
OneTip ==
    /\ dag.tips = {Len(dag.parents)}
    /\ \A v \in 2 .. Len(dag.parents) : dag.parents[v] = {v - 1}
    /\ limits[1] > 1 => Len(dag.parents) = 1
    /\ \A v \in confirmed : Ancestors(dag)[v] \subseteq confirmed
    /\ confirmedCount = Cardinality(confirmed)
=============================================================================
