-------------------------- MODULE ComponentGraph --------------------------
(***************************************************************************)
(* Strongly connected components of a dependency graph:                    *)
(* Source/cmComputeComponentGraph.cxx.                                     *)
(*                                                                         *)
(* A graph is the sequence of its adjacency lists; nodes are numbered from *)
(* 1 where the code numbers them from 0, and so are components.  Of a      *)
(* cmGraphEdge the destination and IsStrong() are kept; backtraces and the *)
(* cross-configuration flag play no part in the computation.  A component, *)
(* which the code sorts, is the set of its members.                        *)
(***************************************************************************)
EXTENDS Integers, Sequences, FiniteSets, Functions

INVALID_COMPONENT == 0

Edge(j, strong) == [to |-> j, strong |-> strong]

Graphs(n) == [1..n -> Seq([to : 1..n, strong : BOOLEAN])]

VARIABLES
  InputGraph,
  TarjanVisited, Root, VisitIndex,  \* Root and VisitIndex: TarjanEntries
  TarjanComponents, TarjanStack, TarjanWalkId, TarjanIndex, Components,
  calls   \* the active calls of TarjanVisit, and the edge each has come to

tarjanVars == <<InputGraph, TarjanVisited, Root, VisitIndex, TarjanComponents,
                TarjanStack, TarjanWalkId, TarjanIndex, Components, calls>>

Nodes == DOMAIN InputGraph

\* Tarjan() up to its loop.
TarjanReset(graph) ==
  /\ InputGraph' = graph
  /\ TarjanVisited' = [i \in DOMAIN graph |-> 0]
  /\ Root' = [i \in DOMAIN graph |-> 0]
  /\ VisitIndex' = [i \in DOMAIN graph |-> 0]
  /\ TarjanComponents' = [i \in DOMAIN graph |-> INVALID_COMPONENT]
  /\ TarjanStack' = <<>>
  /\ TarjanWalkId' = 0
  /\ TarjanIndex' = 0
  /\ Components' = <<>>
  /\ calls' = <<>>

---------------------------------------------------------------------------
(* TarjanVisit                                                             *)

Call(i) == [node |-> i, next |-> 1]

Front(s) == SubSeq(s, 1, Len(s) - 1)

Top(s) == s[Len(s)]

\* The call goes on to its next edge.
Advanced(s) == [s EXCEPT ![Len(s)].next = @ + 1]

\* The call returns to the one that made it, which goes on.
Returned(s) == IF Len(s) = 1 THEN <<>> ELSE Advanced(Front(s))

\* TarjanVisit(i) up to its loop.
Enter(i, walk, index) ==
  /\ TarjanVisited' = [TarjanVisited EXCEPT ![i] = walk]
  /\ Root' = [Root EXCEPT ![i] = i]
  /\ TarjanComponents' = [TarjanComponents EXCEPT ![i] = INVALID_COMPONENT]
  /\ VisitIndex' = [VisitIndex EXCEPT ![i] = index + 1]
  /\ TarjanIndex' = index + 1
  /\ TarjanWalkId' = walk
  /\ TarjanStack' = Append(TarjanStack, i)
  /\ calls' = Append(calls, Call(i))
  /\ UNCHANGED <<InputGraph, Components>>

\* "Start a new DFS from this node if it has never been visited."
Tarjan ==
  /\ calls = <<>>
  /\ \E i \in Nodes :
       /\ TarjanVisited[i] = 0
       /\ \A j \in 1..(i - 1) : TarjanVisited[j] # 0
       /\ Enter(i, TarjanWalkId + 1, 0)

FollowsEdges == calls # <<>> /\ Top(calls).next <= Len(InputGraph[Top(calls).node])

Destination == InputGraph[Top(calls).node][Top(calls).next].to

\* "Visit the destination if it has not yet been visited."
TarjanVisit ==
  /\ FollowsEdges
  /\ TarjanVisited[Destination] = 0
  /\ Enter(Destination, TarjanWalkId, TarjanIndex)

\* "check if it has a better root for the current object."
BetterRoot(i, j) ==
  IF /\ TarjanComponents[j] = INVALID_COMPONENT
     /\ VisitIndex[Root[j]] < VisitIndex[Root[i]]
    THEN [Root EXCEPT ![i] = Root[j]]
    ELSE Root

\* The destination has been visited; "ignore edges to nodes that have been
\* reached by a previous DFS walk."
TarjanFollow ==
  /\ FollowsEdges
  /\ TarjanVisited[Destination] # 0
  /\ Root' = IF TarjanVisited[Destination] < TarjanWalkId THEN Root
             ELSE BetterRoot(Top(calls).node, Destination)
  /\ calls' = Advanced(calls)
  /\ UNCHANGED <<InputGraph, TarjanVisited, VisitIndex, TarjanComponents,
                 TarjanStack, TarjanWalkId, TarjanIndex, Components>>

LeavesNode == calls # <<>> /\ Top(calls).next > Len(InputGraph[Top(calls).node])

\* "Check if we have found a component": its members are what the stack holds
\* from the node upwards.  The caller finds the node in a component.
TarjanComponent ==
  /\ LeavesNode
  /\ LET i == Top(calls).node
     IN  /\ Root[i] = i
         /\ \E from \in DOMAIN TarjanStack :
              LET members == {TarjanStack[k] : k \in from..Len(TarjanStack)}
              IN  /\ TarjanStack[from] = i
                  /\ TarjanStack' = SubSeq(TarjanStack, 1, from - 1)
                  /\ Components' = Append(Components, members)
                  /\ TarjanComponents' =
                       [j \in Nodes |-> IF j \in members
                                          THEN Len(Components) + 1
                                          ELSE TarjanComponents[j]]
                  /\ Root' = [j \in Nodes |-> IF j \in members THEN i
                                                               ELSE Root[j]]
  /\ calls' = Returned(calls)
  /\ UNCHANGED <<InputGraph, TarjanVisited, VisitIndex, TarjanWalkId,
                 TarjanIndex>>

\* The node stays on the stack, and its caller compares the roots.
TarjanReturn ==
  /\ LeavesNode
  /\ LET i == Top(calls).node
     IN  /\ Root[i] # i
         /\ Root' = IF Len(calls) = 1 THEN Root
                    ELSE BetterRoot(Top(Front(calls)).node, i)
  /\ calls' = Returned(calls)
  /\ UNCHANGED <<InputGraph, TarjanVisited, VisitIndex, TarjanComponents,
                 TarjanStack, TarjanWalkId, TarjanIndex, Components>>

TarjanStep == Tarjan \/ TarjanVisit \/ TarjanFollow \/ TarjanComponent
              \/ TarjanReturn

TarjanDone == calls = <<>> /\ \A i \in Nodes : TarjanVisited[i] # 0

\* The edges between different components.
TransferEdges ==
  [c \in DOMAIN Components |->
     {Edge(TarjanComponents[e.to], e.strong) :
        e \in {f \in UNION {Range(InputGraph[i]) : i \in Components[c]} :
                 TarjanComponents[f.to] # c}}]

---------------------------------------------------------------------------
(* Reference definitions, for the properties: the nodes that are reached   *)
(* along one or more edges, and the components a graph has by definition.  *)

Dependees(graph) ==
  [i \in DOMAIN graph |-> {graph[i][k].to : k \in DOMAIN graph[i]}]

ClosedSets(next) ==
  {S \in SUBSET DOMAIN next : \A i \in S : next[i] \subseteq S}

Reached(next, i) ==
  {j \in DOMAIN next : \A S \in ClosedSets(next) : next[i] \subseteq S => j \in S}

SameComponent(next, i, j) ==
  i = j \/ (j \in Reached(next, i) /\ i \in Reached(next, j))
===========================================================================
