---------------------------- MODULE RelationGraph ----------------------------
(***************************************************************************)
(* The summary of a relation graph (summarize_graph in core/graph/          *)
(* graph.cpp): a depth-first walk with a stack of its own, a second one     *)
(* against the edges in the opposite order of finishing that gathers the    *)
(* strongly connected components, and a topological order that takes the    *)
(* smallest node that is ready.  Names are compared as numbers.             *)
(***************************************************************************)
EXTENDS Naturals, Sequences, FiniteSets, SequencesExt

CONSTANTS
  Vertices,   (* the nodes, numbers                  *)
  MaxEdges    (* bound on the edges of a graph       *)

ASSUME GraphAssumption == Vertices \subseteq Nat /\ IsFiniteSet(Vertices)

VARIABLES
  edges,   (* the graph            *)
  walk     (* how far the work is  *)

graphVars == <<edges, walk>>

Smallest(S) == CHOOSE n \in S : \A m \in S : n <= m

After(n) == {m \in Vertices : <<n, m>> \in edges}

\* Mutant: both walks follow the edges.
Before_Forward(n) == {m \in Vertices : <<n, m>> \in edges}

Before(n) == {m \in Vertices : <<m, n>> \in edges}

\* cursor: of a node on the stack, the successors that it has yet to look at, and of the
\* node that was gathered last, the predecessors.
StartWalk == [phase |-> "visit", seen |-> {}, stack |-> <<>>, finish |-> <<>>,
              gathering |-> <<>>, cursor |-> {}, component |-> {}, components |-> {},
              incoming |-> [n \in Vertices |-> 0], ready |-> {}, order |-> <<>>]

At(phase)  == walk.phase = phase
Become(w)  == walk' = w /\ UNCHANGED edges

Enter(w, n) == [w EXCEPT !.seen = @ \cup {n},
                         !.stack = Append(@, [node |-> n, cursor |-> After(n)])]

-----------------------------------------------------------------------------
VisitRoot ==
  /\ At("visit") /\ walk.stack = <<>> /\ walk.seen # Vertices
  /\ Become(Enter(walk, Smallest(Vertices \ walk.seen)))

VisitChild ==
  /\ At("visit") /\ walk.stack # <<>> /\ Last(walk.stack).cursor # {}
  /\ LET child == Smallest(Last(walk.stack).cursor)
         moved == [walk EXCEPT !.stack[Len(walk.stack)].cursor = @ \ {child}]
     IN Become(IF child \in walk.seen THEN moved ELSE Enter(moved, child))

Leave ==
  /\ At("visit") /\ walk.stack # <<>> /\ Last(walk.stack).cursor = {}
  /\ Become([walk EXCEPT !.finish = Append(@, Last(walk.stack).node), !.stack = Front(@)])

StartGathering ==
  /\ At("visit") /\ walk.stack = <<>> /\ walk.seen = Vertices
  /\ Become([walk EXCEPT !.phase = "gather", !.seen = {}])

\* Back through the finished nodes, past those that are in a component already.
NextComponent ==
  /\ At("gather") /\ walk.component = {} /\ walk.gathering = <<>> /\ walk.finish # <<>>
  /\ LET n == Last(walk.finish)
     IN Become([walk EXCEPT !.finish = Front(@),
                        !.seen = @ \cup {n},
                        !.gathering = IF n \in walk.seen THEN <<>> ELSE <<n>>])

Gather ==
  /\ At("gather") /\ walk.gathering # <<>> /\ walk.cursor = {}
  /\ LET n == Last(walk.gathering)
     IN Become([walk EXCEPT !.gathering = Front(@),
                        !.cursor = Before(n),
                        !.component = @ \cup {n}])

GatherChild ==
  /\ At("gather") /\ walk.cursor # {}
  /\ LET child == Smallest(walk.cursor)
         moved == [walk EXCEPT !.cursor = @ \ {child}]
     IN Become(IF child \in walk.seen THEN moved
               ELSE [moved EXCEPT !.seen = @ \cup {child}, !.gathering = Append(@, child)])

CloseComponent ==
  /\ At("gather") /\ walk.gathering = <<>> /\ walk.cursor = {} /\ walk.component # {}
  /\ Become([walk EXCEPT !.components = @ \cup {walk.component}, !.component = {}])

StartPeeling ==
  /\ At("gather") /\ walk.component = {} /\ walk.gathering = <<>> /\ walk.finish = <<>>
  /\ Become([walk EXCEPT !.phase = "peel",
                     !.incoming = [n \in Vertices |-> Cardinality(Before(n))],
                     !.ready = {n \in Vertices : Before(n) = {}}])

Peel ==
  /\ At("peel") /\ walk.ready # {}
  /\ LET n    == Smallest(walk.ready)
         left == [m \in Vertices |-> walk.incoming[m] - (IF m \in After(n) THEN 1 ELSE 0)]
     IN Become([walk EXCEPT !.order = Append(@, n),
                        !.incoming = left,
                        !.ready = (@ \ {n}) \cup {m \in After(n) : left[m] = 0}])

\* The order of a graph with a cycle is given up.
EndPeeling ==
  /\ At("peel") /\ walk.ready = {}
  /\ Become([walk EXCEPT !.phase = "done",
                     !.order = IF Len(@) = Cardinality(Vertices) THEN @ ELSE <<>>])

Cyclic(C)  == Cardinality(C) > 1 \/ \E n \in C : n \in After(n)
Cycles     == {C \in walk.components : Cyclic(C)}

GraphInit == edges \in {E \in SUBSET (Vertices \X Vertices) : Cardinality(E) <= MaxEdges} /\ walk = StartWalk

GraphNext ==
  \/ VisitRoot \/ VisitChild \/ Leave \/ StartGathering
  \/ NextComponent \/ Gather \/ GatherChild \/ CloseComponent
  \/ StartPeeling \/ Peel \/ EndPeeling

GraphSpec == GraphInit /\ [][GraphNext]_graphVars

-----------------------------------------------------------------------------
(* Properties *)

Closed(S) == \A n \in S : After(n) \subseteq S

\* The nodes that can be reached from n: they are in every set that has n and is closed.
Reach(n) ==
  {m \in Vertices : \A S \in SUBSET Vertices : n \in S /\ Closed(S) => m \in S}

\* The components are the classes of mutual reachability, and every node is in one; the
\* order is there exactly when no component is cyclic, has every edge forward, and takes
\* the smallest of the nodes that could come next.
GraphIsRight ==
  At("done") =>
    /\ walk.components = {{m \in Reach(n) : n \in Reach(m)} : n \in Vertices}
    /\ Cycles = {} <=> Len(walk.order) = Cardinality(Vertices)
    /\ walk.order # <<>> =>
         /\ Range(walk.order) = Vertices
         /\ \A k \in DOMAIN walk.order :
              LET done == {walk.order[j] : j \in 1..(k - 1)}
              IN walk.order[k] = Smallest({n \in Vertices \ done : Before(n) \subseteq done})
=============================================================================
