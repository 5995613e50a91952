--------------------------- MODULE DependencyGraph ---------------------------
(***************************************************************************)
(* The breadth-first traversal of internal/graph: ImpactPaths records one  *)
(* path from a changed symbol to every node its change can reach, in a     *)
(* graph that may have cycles (a recording rule that reads its own output).*)
(*                                                                         *)
(* Nodes are numbered in the order of their IDs, which is the order        *)
(* sortEdges gives the edges out of one node.                              *)
(***************************************************************************)
EXTENDS Naturals, Sequences, FiniteSets

CONSTANTS Symbol,    \* symbol nodes, numbered in ID order
          Consumer,  \* consumer nodes, likewise
          Edge,      \* the edges a graph may have: symbol -> reader, rule -> output
          NoNode     \* no node is being expanded

Node == Symbol \union Consumer

ASSUME NodeAssumption ==
  /\ Node \subseteq Nat /\ NoNode \notin Node
  /\ Edge \subseteq (Symbol \X Consumer) \union (Consumer \X Symbol)

VARIABLES
  out,      \* Graph.out: the edges as a set of pairs <<from, to>>
  start,    \* the argument of ImpactPaths
  queue,    \* nodes visited and not yet expanded
  visited,
  paths,    \* paths[n]: the path recorded when n was first visited
  current,  \* the node whose edges are being examined, or NoNode
  pending   \* the destinations of its edges still to examine

searchVars == <<out, start, queue, visited, paths, current, pending>>

Successors(n) == {m \in Node : <<n, m>> \in out}

-----------------------------------------------------------------------------
\* What a traversal should find, independently of how it goes about it.
Closed(S) == \A n \in S : Successors(n) \subseteq S

\* Reachable nodes: those in every closed set that holds the start.
Reachable == {n \in Node : \A S \in SUBSET Node : start \in S /\ Closed(S) => n \in S}

\* Nodes within k edges of the start.
WithinEdges[k \in Nat] ==
  IF k = 0 THEN {start}
           ELSE WithinEdges[k - 1] \union {m \in Node : \E n \in WithinEdges[k - 1] : m \in Successors(n)}

-----------------------------------------------------------------------------
SearchInit ==
  /\ out \in SUBSET Edge
  /\ start \in Symbol
  /\ queue = <<start>>
  /\ visited = {start}
  /\ paths = [n \in {start} |-> <<start>>]
  /\ current = NoNode
  /\ pending = {}

Dequeue ==
  /\ current = NoNode
  /\ queue # <<>>
  /\ current' = Head(queue)
  /\ queue' = Tail(queue)
  /\ pending' = Successors(Head(queue))
  /\ UNCHANGED <<out, start, visited, paths>>

\* The next edge in sorted order: its destination is new, or it is skipped.
NextEdge(m) == m \in pending /\ \A k \in pending : m <= k

\* A defect to detect: the discovered node is never expanded.
EnqueuedNowhere(m) == queue
\* A defect to detect: the queue is used as a stack.
EnqueuedFirst(m) == <<m>> \o queue
Enqueued(m) == Append(queue, m)

\* A defect to detect: an examined edge stays the next one.
SameEdges(m) == pending
OtherEdges(m) == pending \ {m}

Unseen(m) == m \notin visited

Visit(m) ==
  /\ current # NoNode
  /\ NextEdge(m)
  /\ Unseen(m)
  /\ visited' = visited \union {m}
  /\ paths' = [n \in visited' |-> IF n = m THEN Append(paths[current], m) ELSE paths[n]]
  /\ queue' = Enqueued(m)
  /\ pending' = OtherEdges(m)
  /\ UNCHANGED <<out, start, current>>

Skip(m) ==
  /\ current # NoNode
  /\ NextEdge(m)
  /\ ~Unseen(m)
  /\ pending' = OtherEdges(m)
  /\ UNCHANGED <<out, start, queue, visited, paths, current>>

EdgesDone ==
  /\ current # NoNode
  /\ pending = {}
  /\ current' = NoNode
  /\ UNCHANGED <<out, start, queue, visited, paths, pending>>

Finished == current = NoNode /\ queue = <<>>

Terminated == Finished /\ UNCHANGED searchVars

SearchNext == Dequeue \/ (\E m \in Node : Visit(m) \/ Skip(m)) \/ EdgesDone \/ Terminated

\* ImpactPaths is a loop without I/O: it takes its next step.
SearchSpec == SearchInit /\ [][SearchNext]_searchVars /\ WF_searchVars(SearchNext)

-----------------------------------------------------------------------------
\* The types: what is queued, expanded or has a path has been visited.
TypeOK ==
  /\ out \in SUBSET Edge
  /\ start \in Symbol
  /\ visited \in SUBSET Node
  /\ queue \in Seq(visited)
  /\ paths \in [visited -> Seq(Node)]
  /\ current \in visited \union {NoNode}
  /\ pending \in SUBSET Node

\* ImpactPaths finds exactly the nodes a change can reach, cycles included: a
\* missed node is a consumer the engine would report as unaffected.
FindsReachable == Finished => visited = Reachable

\* Each recorded path is a shortest walk along edges of the graph from the start
\* to its node.  ImpactedConsumers relies on it: without transitive analysis it
\* drops a consumer whose recorded path has more than one edge, so a direct
\* reader must never be recorded through a longer path.
ShortestPaths ==
  Finished => \A n \in visited :
    LET p == paths[n]
    IN  /\ p[1] = start /\ p[Len(p)] = n
        /\ \A i \in 1 .. Len(p) - 1 : <<p[i], p[i + 1]>> \in out
        /\ Len(p) > 1 => n \notin WithinEdges[Len(p) - 2]

\* The traversal ends although the graph may have cycles.
Terminates == <>Finished

\* The inductive core of FindsReachable: everything visited is reachable, and a
\* visited node is either waiting in the queue, or being expanded with its
\* unseen successors pending, or has all its successors visited.
InQueue(n) == \E i \in 1 .. Len(queue) : queue[i] = n

Frontier ==
  /\ start \in visited
  /\ visited \subseteq Reachable
  /\ current # NoNode => pending \subseteq Successors(current)
  /\ current = NoNode => pending = {}
  /\ \A n \in visited :
       InQueue(n) \/ \A m \in Successors(n) : m \in visited \/ (n = current /\ m \in pending)
=============================================================================
