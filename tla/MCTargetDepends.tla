-------------------------- MODULE MCTargetDepends -------------------------
(* Small projects for TargetDepends *)
EXTENDS TargetDepends

Static(n) == [t \in 1..n |-> "STATIC_LIBRARY"]

\* Lists of distinct targets, in order or with the first two swapped.
Lists == {<<>>, <<1>>, <<2>>, <<3>>, <<4>>, <<1, 2>>, <<1, 3>>, <<1, 4>>,
          <<2, 3>>, <<2, 4>>, <<3, 4>>, <<4, 3>>, <<2, 3, 4>>, <<3, 2, 4>>}

ListsOf(S) == {l \in Lists : Range(l) \subseteq S}

\* Every target links some of the others.
Links(n) ==
  {f \in [1..n -> ListsOf(1..n)] : \A t \in 1..n : t \notin Range(f[t])}

Utils(n) == {f \in [1..n -> SUBSET (1..n)] : \A t \in 1..n : t \notin f[t]}

NoUtil(n) == [t \in 1..n |-> {}]

Project(type, link, iface, util, commands, fortran, optimize, noCycles) ==
  [type |-> type, link |-> link, iface |-> iface, util |-> util,
   objects |-> NoUtil(Len(type)), ifaceObjects |-> NoUtil(Len(type)),
   commands |-> commands, fortran |-> fortran, optimize |-> optimize,
   noCycles |-> noCycles]

\* Three targets with every choice of link dependencies and of up to three
\* utility dependencies.
Cyclic ==
  {Project(Static(3), link, link, util, {}, {}, {}, FALSE) :
     link \in Links(3),
     util \in {f \in Utils(3) : Cardinality({<<t, u>> \in (1..3) \X (1..3) :
                                            u \in f[t]}) <= 3}}

\* One of them is not a static library.
Mixed ==
  {Project([Static(3) EXCEPT ![3] = type], link, link, util, {}, {}, {}, FALSE) :
     type \in {"SHARED_LIBRARY", "UTILITY"}, link \in Links(3),
     util \in {NoUtil(3), [NoUtil(3) EXCEPT ![3] = {1}]}}

NoCycles ==
  {Project(Static(3), link, link, NoUtil(3), {}, {}, {}, TRUE) :
     link \in Links(3)}

\* Three static libraries with side effects and optimization.
Effects ==
  {Project(Static(3), link, link, util, commands, fortran, optimize, FALSE) :
     link \in Links(3), util \in {NoUtil(3), [NoUtil(3) EXCEPT ![1] = {2}],
                                [NoUtil(3) EXCEPT ![2] = {3}]},
     commands \in {{3}, {2, 3}}, fortran \in {{}, {1, 3}, {2, 3}},
     optimize \in {{1}, {1, 2, 3}}}

\* Four static libraries in longer cycles, with a few strong dependencies.
Rings ==
  {Project(Static(4), link, link, util, {4}, {}, optimize, FALSE) :
     link \in {<<a, b, c, d>> : a \in ListsOf({2, 3}), b \in ListsOf({3, 4}),
                              c \in ListsOf({1, 4}), d \in {<<>>, <<1>>, <<1, 2>>}},
     util \in {NoUtil(4), [NoUtil(4) EXCEPT ![1] = {2, 3}, ![2] = {4}],
               [NoUtil(4) EXCEPT ![1] = {2, 3}, ![2] = {4}, ![3] = {4}],
               [NoUtil(4) EXCEPT ![4] = {3}, ![3] = {2}, ![2] = {4}]},
     optimize \in {{}, {1, 2, 3}}}

\* An executable, an interface library and two more libraries.  A shared
\* library keeps what it links out of its link interface.
Linking ==
  {Project(<<"EXECUTABLE", "INTERFACE_LIBRARY", three, "STATIC_LIBRARY">>,
           <<exe, two, lib, <<>>>>,
           <<<<>>, two, IF three = "SHARED_LIBRARY" THEN <<>> ELSE lib, <<>>>>,
           <<{}, util, {}, {}>>, {}, {}, optimize, FALSE) :
     three \in {"STATIC_LIBRARY", "SHARED_LIBRARY", "INTERFACE_LIBRARY"},
     exe \in ListsOf({2, 3, 4}), two \in ListsOf({3, 4}) \cup {<<1, 3>>},
     lib \in ListsOf({2, 4}), util \in SUBSET {3, 4},
     optimize \in {{3, 4}}}

\* An executable, a static and an object library that use object files, and a
\* library that the object library may link.
Objects ==
  {[Project(<<"EXECUTABLE", "STATIC_LIBRARY", "OBJECT_LIBRARY", "STATIC_LIBRARY">>,
            <<exe, lib, obj, <<>>>>, <<<<>>, lib, obj, <<>>>>, <<{}, {}, util, {}>>,
            commands, {}, optimize, FALSE)
    EXCEPT !.objects = <<exeObjects, libObjects, {}, {}>>,
           !.ifaceObjects = <<{}, ifaceObjects, {}, {}>>] :
     exe \in ListsOf({2, 3}), lib \in ListsOf({3}), obj \in ListsOf({4}),
     util \in SUBSET {2},
     commands \in SUBSET {3}, optimize \in {{}, {2, 3}},
     exeObjects \in SUBSET {3}, libObjects \in SUBSET {3},
     ifaceObjects \in SUBSET {3}}

AllFamilies == {Cyclic, Mixed, NoCycles, Effects, Rings, Linking, Objects}
===========================================================================
