--------------------------- MODULE TargetDepends --------------------------
(***************************************************************************)
(* The inter-target dependencies of a generated build system:              *)
(* Source/cmComputeTargetDepends.cxx, and the target order that            *)
(* Source/cmGlobalGenerator.cxx derives from them.                         *)
(*                                                                         *)
(* A project gives, for targets 1..n in the order CollectTargets meets     *)
(* them: the type of each, the libraries of its link implementation and of *)
(* its link interface, the object libraries whose object files it takes    *)
(* through either, its utility dependencies (add_dependencies), which      *)
(* targets have custom commands, which compile a language whose sources    *)
(* have side effects, which set OPTIMIZE_DEPENDENCIES, and the global      *)
(* property GLOBAL_DEPENDS_NO_CYCLES.  One configuration and one language  *)
(* with side effects are modelled; link items that are not targets, cross- *)
(* configuration dependencies and names that do not exist are left out. So *)
(* are imported targets, executables with exports and interface libraries  *)
(* with sources. The libraries a target links and those it only uses to    *)
(* compile are one list here, with the object files of both.               *)
(*                                                                         *)
(* A recursive function is a stack of its active calls, and a step is one  *)
(* iteration of the loop of the call on top.  Sets the code orders by      *)
(* pointer are walked in some order.  The final graph has sets of edges,   *)
(* since GetTargetDirectDepends reads it as sets.                          *)
(***************************************************************************)
EXTENDS ComponentGraph

CONSTANT Families    \* sets of projects

VARIABLES
  project, pc,
  work,                 \* the active calls, but for TarjanVisit
  emitted, visited,     \* the sets of these names in the running function
  depender, utils,      \* CollectTargetDepends: utils are AddUtility's
  InitialGraph, SideEffects, IntermediateGraph, FinalGraph,
  component, head, ComponentHead, ComponentTail,
  index, TargetOrderIndex

collectVars == <<depender, utils, InitialGraph>>
finalVars == <<FinalGraph, component, head, ComponentHead, ComponentTail>>
orderVars == <<index, TargetOrderIndex>>

vars == <<tarjanVars, project, pc, work, emitted, visited, collectVars,
          SideEffects, IntermediateGraph, finalVars, orderVars>>

Targets == DOMAIN project.type

TargetTypes == {"EXECUTABLE", "STATIC_LIBRARY", "SHARED_LIBRARY",
                "OBJECT_LIBRARY", "INTERFACE_LIBRARY", "UTILITY"}

IsProject(p) ==
  /\ p.type \in Seq(TargetTypes)
  /\ LET T == DOMAIN p.type
     IN  /\ {p.link, p.iface} \subseteq [T -> Seq(T)]
         /\ {p.util, p.objects, p.ifaceObjects} \subseteq [T -> SUBSET T]
         /\ {p.commands, p.fortran, p.optimize} \subseteq SUBSET T
         /\ p.noCycles \in BOOLEAN

ASSUME FamiliesAssumption == \A family \in Families : \A p \in family : IsProject(p)

\* A set in the order in which the code walks it.
ListOf(S) == CHOOSE list \in [1..Cardinality(S) -> S] : Range(list) = S

Least(S) == {i \in S : \A j \in S : i <= j}

Greatest(S) == {i \in S : \A j \in S : j <= i}

---------------------------------------------------------------------------
(* CollectDepends: the adjacency list of one target after the other        *)

IsInBuildSystem(t) == project.type[t] # "INTERFACE_LIBRARY"

\* "Skip targets that will not really be linked": executables.
ReallyLinked(t) == project.type[t] # "EXECUTABLE"

\* A loop over libraries, with the object files that follow it, or over
\* utilities.
Libraries(libs, objects) ==
  [todo |-> libs, linking |-> TRUE, objects |-> objects]
Utilities(S) == [todo |-> ListOf(S), linking |-> FALSE, objects |-> {}]

CollectTargetDepends ==
  /\ pc = "collect"
  /\ depender \in Targets
  /\ IF IsInBuildSystem(depender)
       THEN /\ pc' = "libraries"
            /\ work' = <<Libraries(project.link[depender],
                                   project.objects[depender])>>
            /\ UNCHANGED depender
       ELSE depender' = depender + 1 /\ UNCHANGED <<pc, work>>
  /\ emitted' = {depender}
  /\ utils' = {}
  /\ UNCHANGED <<tarjanVars, project, visited, InitialGraph, SideEffects,
                 IntermediateGraph, finalVars, orderVars>>

Collecting == pc \in {"libraries", "utilities"} /\ work # <<>>

Skipped == [work EXCEPT ![Len(work)].todo = Tail(@)]

\* A dependee that is not built is replaced by its utility dependencies.
AddTargetDepend(dependee, linking, rest) ==
  IF IsInBuildSystem(dependee)
    THEN /\ InitialGraph' =
              [InitialGraph EXCEPT ![depender] =
                 Append(@, Edge(dependee, ~linking))]
         /\ work' = rest
    ELSE /\ work' = Append(rest, Utilities(project.util[dependee]))
         /\ UNCHANGED InitialGraph

\* Add a library not seen yet, and go on with its link interface.
AddInterfaceDepends_Direct(lib) == AddTargetDepend(lib, TRUE, Skipped)
AddInterfaceDepends(lib) ==
  AddTargetDepend(lib, TRUE,
    Append(Skipped, Libraries(project.iface[lib], project.ifaceObjects[lib])))

\* The next item of the loop: "Don't emit the same library twice".
AddItem ==
  /\ Collecting
  /\ Top(work).todo # <<>>
  /\ LET item    == Head(Top(work).todo)
         linking == Top(work).linking
     IN  /\ emitted' = emitted \cup {item}
         /\ IF item \in emitted \/ (linking /\ ~ReallyLinked(item))
              THEN work' = Skipped /\ UNCHANGED InitialGraph
              ELSE IF linking THEN AddInterfaceDepends(item)
              ELSE AddTargetDepend(item, FALSE, Skipped)
  /\ UNCHANGED <<tarjanVars, project, pc, visited, depender, utils,
                 SideEffects, IntermediateGraph, finalVars, orderVars>>

\* The loop ends.  Object files of a library not seen yet make it a utility
\* dependency of the depender.
AddObjectDepends ==
  /\ Collecting
  /\ Top(work).todo = <<>>
  /\ work' = Front(work)
  /\ emitted' = emitted \cup Top(work).objects
  /\ utils' = utils \cup (Top(work).objects \ emitted)
  /\ UNCHANGED <<tarjanVars, project, pc, visited, depender, InitialGraph,
                 SideEffects, IntermediateGraph, finalVars, orderVars>>

\* "Loop over all utility dependencies", with a fresh set of emitted items.
CollectUtilities ==
  /\ pc = "libraries"
  /\ work = <<>>
  /\ pc' = "utilities"
  /\ emitted' = {depender}
  /\ work' = <<Utilities(project.util[depender] \cup utils)>>
  /\ UNCHANGED <<tarjanVars, project, visited, collectVars, SideEffects,
                 IntermediateGraph, finalVars, orderVars>>

NextDepender ==
  /\ pc = "utilities"
  /\ work = <<>>
  /\ pc' = "collect"
  /\ depender' = depender + 1
  /\ UNCHANGED <<tarjanVars, project, work, emitted, visited, utils,
                 InitialGraph, SideEffects, IntermediateGraph, finalVars,
                 orderVars>>

InitialComponents ==
  /\ pc = "collect"
  /\ depender \notin Targets
  /\ pc' = "initial"
  /\ TarjanReset(InitialGraph)
  /\ UNCHANGED <<project, work, emitted, visited, collectVars, SideEffects,
                 IntermediateGraph, finalVars, orderVars>>

ComputeComponents ==
  /\ pc \in {"initial", "intermediate"}
  /\ TarjanStep
  /\ UNCHANGED <<project, pc, work, emitted, visited, collectVars, SideEffects,
                 IntermediateGraph, finalVars, orderVars>>

---------------------------------------------------------------------------
(* CheckComponents, CollectSideEffects and ComputeIntermediateGraph        *)

BadComponent_Three(nl) ==
  /\ Cardinality(nl) > 2
  /\ project.noCycles \/ \E t \in nl : project.type[t] # "STATIC_LIBRARY"
BadComponent(nl) ==
  /\ Cardinality(nl) >= 2
  /\ project.noCycles \/ \E t \in nl : project.type[t] # "STATIC_LIBRARY"

CheckComponents == \A c \in DOMAIN Components : ~BadComponent(Components[c])

CheckInitial ==
  /\ pc = "initial"
  /\ TarjanDone
  /\ pc' = IF CheckComponents THEN "effects" ELSE "failed"
  /\ visited' = {}
  /\ UNCHANGED <<tarjanVars, project, work, emitted, collectVars, SideEffects,
                 IntermediateGraph, finalVars, orderVars>>

NoSideEffects == [custom |-> {}, language |-> {}]

\* AppendCustomCommandSideEffects and AppendLanguageSideEffects.
OwnSideEffects(t) ==
  [custom |-> project.commands \cap {t}, language |-> project.fortran \cap {t}]

Absorbed_Own(t, u) == SideEffects[t]
Absorbed(t, u) ==
  [custom   |-> SideEffects[t].custom \cup SideEffects[u].custom,
   language |-> SideEffects[t].language \cup SideEffects[u].language]

EnterSideEffects(t) ==
  /\ visited' = visited \cup {t}
  /\ SideEffects' = [SideEffects EXCEPT ![t] = OwnSideEffects(t)]
  /\ work' = Append(work, Call(t))

CollectSideEffects ==
  /\ pc = "effects"
  /\ work = <<>>
  /\ \E t \in Least(Targets \ visited) : EnterSideEffects(t)
  /\ UNCHANGED <<tarjanVars, project, pc, emitted, collectVars,
                 IntermediateGraph, finalVars, orderVars>>

\* The next edge: its dependee is visited first, then read.
FollowSideEffects ==
  /\ pc = "effects"
  /\ work # <<>>
  /\ LET t == Top(work).node
         k == Top(work).next
     IN  /\ k <= Len(InitialGraph[t])
         /\ LET u == InitialGraph[t][k].to
            IN  IF u \notin visited THEN EnterSideEffects(u)
                ELSE /\ SideEffects' = [SideEffects EXCEPT ![t] = Absorbed(t, u)]
                     /\ work' = Advanced(work)
                     /\ UNCHANGED visited
  /\ UNCHANGED <<tarjanVars, project, pc, emitted, collectVars,
                 IntermediateGraph, finalVars, orderVars>>

\* The caller reads the side effects of the target it has visited.
ReturnSideEffects ==
  /\ pc = "effects"
  /\ work # <<>>
  /\ LET t == Top(work).node
         caller == Top(Front(work)).node
     IN  /\ Top(work).next > Len(InitialGraph[t])
         /\ SideEffects' =
              IF Len(work) = 1 THEN SideEffects
              ELSE [SideEffects EXCEPT ![caller] = Absorbed(caller, t)]
  /\ work' = Returned(work)
  /\ UNCHANGED <<tarjanVars, project, pc, emitted, visited, collectVars,
                 IntermediateGraph, finalVars, orderVars>>

\* Strong edges stay; a weak one gives way to the relevant side effects of
\* its dependee.  The edges are in some order, each of them once: what the
\* components are does not depend on it.
Relevant(t, u) ==
  SideEffects[u].custom \cup
  (IF t \in project.fortran THEN SideEffects[u].language ELSE {})

OptimizeLinkDependencies(t) ==
  LET edges == Range(InitialGraph[t])
  IN  ListOf({e \in edges : e.strong} \cup
             {Edge(u, FALSE) :
                u \in UNION {Relevant(t, e.to) : e \in {f \in edges : ~f.strong}}})

Optimized(t) ==
  /\ project.type[t] \in {"STATIC_LIBRARY", "OBJECT_LIBRARY"}
  /\ t \in project.optimize

ComputeIntermediateGraph ==
  /\ pc = "effects"
  /\ work = <<>>
  /\ visited = Targets
  /\ IntermediateGraph' =
       [t \in Targets |-> IF Optimized(t) THEN OptimizeLinkDependencies(t)
                                          ELSE InitialGraph[t]]
  /\ TarjanReset(IntermediateGraph')
  /\ pc' = "intermediate"
  /\ UNCHANGED <<project, work, emitted, visited, collectVars, SideEffects,
                 finalVars, orderVars>>

---------------------------------------------------------------------------
(* ComputeFinalDepends                                                     *)

CheckIntermediate ==
  /\ pc = "intermediate"
  /\ TarjanDone
  /\ pc' = IF CheckComponents THEN "final" ELSE "failed"
  /\ component' = 1
  /\ head' = INVALID_COMPONENT
  /\ ComponentHead' = [c \in DOMAIN Components |-> INVALID_COMPONENT]
  /\ ComponentTail' = [c \in DOMAIN Components |-> INVALID_COMPONENT]
  /\ emitted' = {}
  /\ UNCHANGED <<tarjanVars, project, work, visited, collectVars, SideEffects,
                 IntermediateGraph, FinalGraph, orderVars>>

Linearizing == pc = "final" /\ component \in DOMAIN Components

\* The members of a component, last first; "visited" is fresh each time.  The
\* calls for members that are emitted already do nothing.
LinearizeComponent ==
  /\ Linearizing
  /\ work = <<>>
  /\ \E i \in Greatest(Components[component] \ emitted) :
       /\ visited' = {i}
       /\ emitted' = emitted \cup {i}
       /\ work' = <<Call(i)>>
  /\ UNCHANGED <<tarjanVars, project, pc, collectVars, SideEffects,
                 IntermediateGraph, finalVars, orderVars>>

\* "Honor strong intra-component edges in the final order."  A target that
\* the walk meets again counts as a cycle.
IntraComponent_Unvisited ==
  /\ Linearizing
  /\ work # <<>>
  /\ LET i == Top(work).node
         e == InitialGraph[i][Top(work).next]
         j == e.to
     IN  /\ Top(work).next <= Len(InitialGraph[i])
         /\ IF ~(TarjanComponents[j] = component /\ e.strong)
              THEN work' = Advanced(work)
                   /\ UNCHANGED <<pc, emitted, visited, FinalGraph>>
              ELSE /\ UNCHANGED pc
                   /\ FinalGraph' = [FinalGraph EXCEPT ![i] = @ \cup {e}]
                   /\ visited' = visited \cup {j}
                   /\ emitted' = emitted \cup {j}
                   /\ work' = IF j \in emitted THEN Advanced(work)
                              ELSE Append(work, Call(j))
  /\ UNCHANGED <<tarjanVars, project, collectVars, SideEffects,
                 IntermediateGraph, component, head, ComponentHead,
                 ComponentTail, orderVars>>
IntraComponent ==
  /\ Linearizing
  /\ work # <<>>
  /\ LET i == Top(work).node
         e == InitialGraph[i][Top(work).next]
         j == e.to
     IN  /\ Top(work).next <= Len(InitialGraph[i])
         /\ IF ~(TarjanComponents[j] = component /\ e.strong)
              THEN work' = Advanced(work)
                   /\ UNCHANGED <<pc, emitted, visited, FinalGraph>>
              ELSE /\ FinalGraph' = [FinalGraph EXCEPT ![i] = @ \cup {e}]
                   /\ visited' = visited \cup {j}
                   /\ emitted' = IF j \in visited THEN emitted
                                                  ELSE emitted \cup {j}
                   /\ pc' = IF j \in visited THEN "failed" ELSE pc
                   /\ work' = IF j \in visited THEN work
                              ELSE IF j \in emitted THEN Advanced(work)
                              ELSE Append(work, Call(j))
  /\ UNCHANGED <<tarjanVars, project, collectVars, SideEffects,
                 IntermediateGraph, component, head, ComponentHead,
                 ComponentTail, orderVars>>

\* "Prepend to a linear linked-list of intra-component edges."
PrependToList ==
  /\ Linearizing
  /\ work # <<>>
  /\ LET i == Top(work).node
     IN  /\ Top(work).next > Len(InitialGraph[i])
         /\ head' = i
         /\ IF head # INVALID_COMPONENT
              THEN /\ FinalGraph' =
                        [FinalGraph EXCEPT ![i] = @ \cup {Edge(head, FALSE)}]
                   /\ UNCHANGED ComponentTail
              ELSE /\ ComponentTail' = [ComponentTail EXCEPT ![component] = i]
                   /\ UNCHANGED FinalGraph
  /\ work' = Returned(work)
  /\ UNCHANGED <<tarjanVars, project, pc, emitted, visited, collectVars,
                 SideEffects, IntermediateGraph, component, ComponentHead,
                 orderVars>>

NextComponent ==
  /\ Linearizing
  /\ work = <<>>
  /\ Components[component] \subseteq emitted
  /\ ComponentHead' = [ComponentHead EXCEPT ![component] = head]
  /\ component' = component + 1
  /\ head' = INVALID_COMPONENT
  /\ emitted' = {}
  /\ UNCHANGED <<tarjanVars, project, pc, work, visited, collectVars,
                 SideEffects, IntermediateGraph, FinalGraph, ComponentTail,
                 orderVars>>

\* "connect component tails to heads."
ConnectComponents_Heads ==
  LET Moved(c) == {Edge(ComponentHead[e.to], e.strong) : e \in TransferEdges[c]}
  IN  [t \in Targets |->
         FinalGraph[t] \cup
         UNION {Moved(c) : c \in {d \in DOMAIN Components : ComponentHead[d] = t}}]
ConnectComponents ==
  LET Moved(c) == {Edge(ComponentHead[e.to], e.strong) : e \in TransferEdges[c]}
  IN  [t \in Targets |->
         FinalGraph[t] \cup
         UNION {Moved(c) : c \in {d \in DOMAIN Components : ComponentTail[d] = t}}]

ComputeFinalDepends ==
  /\ pc = "final"
  /\ component \notin DOMAIN Components
  /\ pc' = "order"
  /\ FinalGraph' = ConnectComponents
  /\ visited' = {}
  /\ UNCHANGED <<tarjanVars, project, work, emitted, collectVars, SideEffects,
                 IntermediateGraph, component, head, ComponentHead,
                 ComponentTail, orderVars>>

---------------------------------------------------------------------------
(* cmGlobalGenerator::ComputeTargetOrder                                   *)

\* The set a generator sees.
GetTargetDirectDepends(t) == {e.to : e \in FinalGraph[t]}

\* The keys of TargetOrderIndex are in "visited".
EnterOrder(t, rest) ==
  /\ visited' = visited \cup {t}
  /\ work' = Append(rest, [node |-> t, todo |-> GetTargetDirectDepends(t)])

ComputeTargetOrder ==
  /\ pc = "order"
  /\ work = <<>>
  /\ \E t \in Least(Targets \ visited) : EnterOrder(t, work)
  /\ UNCHANGED <<tarjanVars, project, pc, emitted, collectVars, SideEffects,
                 IntermediateGraph, finalVars, orderVars>>

\* The next dependency, unless it is in the map.
OrderDependency ==
  /\ pc = "order"
  /\ work # <<>>
  /\ \E d \in Least(Top(work).todo) :
       LET rest == [work EXCEPT ![Len(work)].todo = @ \ {d}]
       IN  IF d \in visited THEN work' = rest /\ UNCHANGED visited
                            ELSE EnterOrder(d, rest)
  /\ UNCHANGED <<tarjanVars, project, pc, emitted, collectVars, SideEffects,
                 IntermediateGraph, finalVars, orderVars>>

\* "entry->second = index++"
OrderTarget ==
  /\ pc = "order"
  /\ work # <<>>
  /\ Top(work).todo = {}
  /\ TargetOrderIndex' = [TargetOrderIndex EXCEPT ![Top(work).node] = index]
  /\ index' = index + 1
  /\ work' = Front(work)
  /\ UNCHANGED <<tarjanVars, project, pc, emitted, visited, collectVars,
                 SideEffects, IntermediateGraph, finalVars>>

TargetsOrdered ==
  /\ pc = "order"
  /\ work = <<>>
  /\ visited = Targets
  /\ pc' = "done"
  /\ UNCHANGED <<tarjanVars, project, work, emitted, visited, collectVars,
                 SideEffects, IntermediateGraph, finalVars, orderVars>>

---------------------------------------------------------------------------

Init ==
  /\ \E family \in Families : project \in family
  /\ pc = "collect"
  /\ work = <<>> /\ emitted = {} /\ visited = {}
  /\ depender = 1 /\ utils = {}
  /\ InitialGraph = [t \in Targets |-> <<>>]
  /\ SideEffects = [t \in Targets |-> NoSideEffects]
  /\ IntermediateGraph = [t \in Targets |-> <<>>]
  /\ FinalGraph = [t \in Targets |-> {}]
  /\ component = 0 /\ head = INVALID_COMPONENT
  /\ ComponentHead = <<>> /\ ComponentTail = <<>>
  /\ index = 0
  /\ TargetOrderIndex = [t \in Targets |-> 0]
  /\ InputGraph = <<>>
  /\ TarjanVisited = <<>> /\ Root = <<>> /\ VisitIndex = <<>>
  /\ TarjanComponents = <<>> /\ TarjanStack = <<>>
  /\ TarjanWalkId = 0 /\ TarjanIndex = 0
  /\ Components = <<>> /\ calls = <<>>

\* Generation goes on, or stops at the error.
Terminated == pc \in {"done", "failed"} /\ UNCHANGED vars

Next ==
  \/ CollectTargetDepends \/ AddItem \/ AddObjectDepends \/ CollectUtilities
  \/ NextDepender \/ InitialComponents \/ ComputeComponents \/ CheckInitial
  \/ CollectSideEffects \/ FollowSideEffects \/ ReturnSideEffects
  \/ ComputeIntermediateGraph \/ CheckIntermediate
  \/ LinearizeComponent \/ IntraComponent \/ PrependToList \/ NextComponent
  \/ ComputeFinalDepends
  \/ ComputeTargetOrder \/ OrderDependency \/ OrderTarget \/ TargetsOrdered
  \/ Terminated

Spec == Init /\ [][Next]_vars

---------------------------------------------------------------------------
(* Properties                                                              *)

DirectDepends == [t \in Targets |-> GetTargetDirectDepends(t)]

\* t is built after u, whatever order the build tool takes.
BuiltAfter(t, u) == u \in Reached(DirectDepends, t)

InOneComponent(t, u) == SameComponent(Dependees(IntermediateGraph), t, u)

\* Breaking the cycles of static libraries loses nothing else: a target is
\* built after everything it depends on, directly or not, that is outside its
\* own cycle, and after every target add_dependencies names, even inside it
\* (the header comment: "we must preserve all other dependencies passing
\* through the corresponding strongly connected component").
BuildOrderSafe ==
  pc = "done" =>
    \A t \in Targets :
      /\ \A u \in Reached(Dependees(IntermediateGraph), t) :
           InOneComponent(t, u) \/ BuiltAfter(t, u)
      /\ \A e \in Range(InitialGraph[t]) : e.strong => BuiltAfter(t, e.to)

\* "no cycles are left": the order cmGlobalGenerator::ComputeTargetOrder
\* gives the targets puts every direct dependency before its depender, which
\* TargetOrderIndexLess relies on.
OrderRespected ==
  pc = "done" =>
    \A t \in Targets, u \in Targets :
      u \in GetTargetDirectDepends(t) =>
        TargetOrderIndex[u] < TargetOrderIndex[t]

StrongDependees ==
  [t \in Targets |-> {e.to : e \in {f \in Range(InitialGraph[t]) : f.strong}}]

StrongCycle == \E t \in Targets : t \in Reached(StrongDependees, t)

\* Two strong edges that end in one target.
StrongEdgesMeet ==
  \E t \in Targets, u \in Targets :
    \E k \in DOMAIN InitialGraph[t], m \in DOMAIN InitialGraph[u] :
      /\ <<t, k>> # <<u, m>>
      /\ InitialGraph[t][k].strong /\ InitialGraph[u][m].strong
      /\ InitialGraph[t][k].to = InitialGraph[u][m].to

ForbiddenCycle ==
  \E t \in Targets, u \in Targets :
    /\ t # u
    /\ SameComponent(Dependees(InitialGraph), t, u)
    /\ project.noCycles \/ project.type[t] # "STATIC_LIBRARY"

\* An error is reported for every cycle that cannot be built (one that is not
\* all STATIC libraries, any cycle under GLOBAL_DEPENDS_NO_CYCLES, a cycle of
\* add_dependencies), and only for those or, because IntraComponent takes a
\* target met twice for a cycle, where two add_dependencies meet.
CyclesReported ==
  /\ pc = "done" => ~ForbiddenCycle /\ ~StrongCycle
  /\ pc = "failed" => ForbiddenCycle \/ StrongCycle \/ StrongEdgesMeet

\* What t links: its libraries and, transitively, their link interfaces.
LinkClosure(t) ==
  LET next == [u \in Targets |-> IF ReallyLinked(u) /\ u # t
                                   THEN Range(project.iface[u]) ELSE {}]
      libs == Range(project.link[t])
  IN  libs \cup UNION {Reached(next, u) : u \in libs}

\* The utility dependencies of interface libraries that t links.
InterfaceUtilities(t) ==
  LET next == [u \in Targets |-> IF IsInBuildSystem(u) THEN {}
                                                       ELSE project.util[u]]
  IN  UNION {Reached(next, u) : u \in LinkClosure(t)}

\* What is marked as emitted without its link interface.
MarkedFirst(t) ==
  InterfaceUtilities(t) \cup UNION {project.ifaceObjects[u] : u \in LinkClosure(t)}

\* A target is built after every library it links, however far down the link
\* interfaces and whatever optimization its libraries ask for themselves, and
\* after every object library whose object files it takes.  The exception: an
\* interface library it links also names one of these libraries, with a link
\* interface of its own, in add_dependencies, or a library passes its object
\* files on; AddTargetDepend or AddObjectDepends may then have marked it as
\* emitted, and AddInterfaceDepends skips it.
LinkedFirst ==
  pc = "done" =>
    \A t \in {v \in Targets : IsInBuildSystem(v) /\ ~Optimized(v)} :
      \/ \E u \in MarkedFirst(t) \cap LinkClosure(t) : project.iface[u] # <<>>
      \/ \A u \in LinkClosure(t) \cup project.objects[t] :
           IsInBuildSystem(u) /\ ReallyLinked(u) =>
             InOneComponent(t, u) \/ BuiltAfter(t, u)

\* u is a library that t links, or lies below one.
LinksDownTo(t, u) ==
  \E e \in Range(InitialGraph[t]) :
    ~e.strong /\ u \in {e.to} \cup Reached(Dependees(InitialGraph), e.to)

HasSideEffectsFor(u, t) ==
  u \in project.commands \/ ({t, u} \subseteq project.fortran /\ LinksDownTo(t, u))

\* OPTIMIZE_DEPENDENCIES drops nothing a library needs: it is still built
\* after every direct or indirect dependency with custom commands, and after
\* every one with side effects in its language that it links, as long as no
\* cycle lies below it (within a cycle CollectSideEffectsForTarget reads side
\* effects not complete yet).  Below a target of add_dependencies the code
\* does not look for the library's language.
SideEffectsKept ==
  pc = "done" =>
    \A t \in {v \in Targets : Optimized(v)} :
      LET next  == Dependees(InitialGraph)
          below == Reached(next, t)
      IN  (\A u \in below : u \notin Reached(next, u)) =>
            \A u \in below : HasSideEffectsFor(u, t) => BuiltAfter(t, u)
===========================================================================
