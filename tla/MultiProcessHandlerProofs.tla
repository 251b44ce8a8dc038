---------------------- MODULE MultiProcessHandlerProofs ----------------------
(***************************************************************************)
(* The scheduler's bookkeeping is right for every suite of tests, every    *)
(* -j level and every combination of options: types, the -j level, locks   *)
(* and RUN_SERIAL, and what becomes of the tests.                          *)
(*                                                                         *)
(* First the inductive invariant, and what the operators do: the slots     *)
(* tests take, the books LockResources and UnlockResources keep, lists of  *)
(* tests and repeat groups.  Then the steps that start tests, those that   *)
(* move a test, those that end one, and the start of a run.  The outcome   *)
(* of the tests, on top of this, is the second part.                       *)
(***************************************************************************)
EXTENDS MultiProcessHandler, FiniteSetTheorems, TLAPS

\* The provers tried on a step that names none.
USE ZenonT(60), SMTT(30)

\* A test is in one place at a time, and at most once in each list.
Placement ==
  /\ Distinct(ordered) /\ Entries(ordered) \subseteq pending
  /\ Distinct(scan.todo) /\ Entries(scan.todo) \subseteq Entries(ordered)
  /\ Distinct(queued)
  /\ \A t, u \in starting : t = u
  /\ pending \cap InProgress = {}
  /\ running \cap lost = {}
  /\ (running \cup lost) \cap (Entries(queued) \cup starting) = {}
  /\ Entries(queued) \cap starting = {}

-----------------------------------------------------------------------------
(* The invariant, in terms of operators that take the suite as an argument *)
(* so that what is proved about them holds before and after a step.        *)

\* GetProcessorsUsed and SlotsOf.
UsedIn(su, t) ==
  LET p == Min2(su.Properties[t].Processors, su.ParallelLevel)
  IN  IF su.HaveAffinity > 0 /\ su.Properties[t].WantAffinity
      THEN Min2(p, su.HaveAffinity) ELSE p
SlotsIn(su, S) == UNION {{t} \X (1 .. UsedIn(su, t)) : t \in S}

Resources(su, t) == su.Properties[t].ProjectResources
Alone(su, t) == su.Properties[t].RunSerial

\* RunningCount, LockedResources and SerialTestRunning are right for the
\* tests S in progress, no two of which are in each other's way.
Books(su, S, count, serial, locks) ==
  /\ count = Cardinality(SlotsIn(su, S))
  /\ \A t \in S : Resources(su, t) \subseteq locks
  /\ serial <=> \E t \in S : Alone(su, t)
  /\ \A t, u \in S : t # u => Resources(su, t) \cap Resources(su, u) = {}
  /\ \A t, u \in S : Alone(su, t) => t = u

\* No group counts fewer unfinished tests than there are among the tests L
\* that wait or are in progress.
GroupsCount(su, L, gr) ==
  \A g \in su.RepeatGroups : Cardinality(g \cap L) <= gr[g].Unfinished

\* What the loop of StartNextTests may still start fits beside the tests in
\* progress.
Room ==
  /\ runningCount <= ParallelLevel
  /\ pc = "scan" => runningCount + scan.numToStart <= ParallelLevel

IInv ==
  /\ TypeOK
  /\ Placement
  /\ Books(suite, InProgress, runningCount, serialRunning, locked)
  /\ Room
  /\ GroupsCount(suite, pending \cup InProgress, group)

-----------------------------------------------------------------------------
(* Facts about the suite.                                                  *)

\* The members of a suite have their types.
LEMMA SuiteFacts ==
  ASSUME NEW su \in Suites
  PROVE  /\ IsFiniteSet(DOMAIN su.Properties)
         /\ DOMAIN su.Properties \subseteq Nat
         /\ su \in Suite(DOMAIN su.Properties)
         /\ \A g, h \in su.RepeatGroups : g \cap h # {} => g = h
BY HandlerAssumption DEF HandlerAssumption

\* A test takes between one and ParallelLevel process slots.
LEMMA UsedFacts ==
  ASSUME NEW su \in Suites, NEW t \in DOMAIN su.Properties
  PROVE  UsedIn(su, t) \in Nat /\ 1 <= UsedIn(su, t)
         /\ UsedIn(su, t) <= su.ParallelLevel
BY SuiteFacts, SMTT(30) DEF Suite, TestProperties, UsedIn, Min2

\* The operators of the scheduler are those with the current suite.
LEMMA CurrentSuite ==
  /\ \A t : GetProcessorsUsed(t) = UsedIn(suite, t)
  /\ \A S : SlotsOf(S) = SlotsIn(suite, S)
BY DEF GetProcessorsUsed, UsedIn, SlotsOf, SlotsIn, Props, ParallelLevel,
       HaveAffinity

\* One more test adds the slots that it takes.
LEMMA SlotsAdd ==
  ASSUME NEW su \in Suites, NEW S \in SUBSET (DOMAIN su.Properties),
         NEW t \in DOMAIN su.Properties, t \notin S
  PROVE  /\ IsFiniteSet(SlotsIn(su, S))
         /\ Cardinality(SlotsIn(su, S)) \in Nat
         /\ Cardinality(SlotsIn(su, S \cup {t})) =
              Cardinality(SlotsIn(su, S)) + UsedIn(su, t)
<1> DEFINE D == DOMAIN su.Properties
           Col == {t} \X (1 .. UsedIn(su, t))
           Old == SlotsIn(su, S)
<1>1. IsFiniteSet(Col) /\ Cardinality(Col) = UsedIn(su, t)
  <2>1. /\ IsFiniteSet(1 .. UsedIn(su, t))
        /\ Cardinality(1 .. UsedIn(su, t)) = UsedIn(su, t)
    <3>1. 1 \in Int /\ UsedIn(su, t) \in Int /\ UsedIn(su, t) >= 1
      BY UsedFacts, SMTT(30)
    <3> QED BY <3>1, UsedFacts, FS_Interval, SMTT(30)
  <2>2. IsFiniteSet({t}) /\ Cardinality({t}) = 1
    BY FS_Singleton
  <2>3. /\ IsFiniteSet(Col)
        /\ Cardinality(Col) = Cardinality({t}) * Cardinality(1 .. UsedIn(su, t))
    BY <2>1, <2>2, FS_Product
  <2> QED BY <2>1, <2>2, <2>3, UsedFacts, SMTT(30)
<1>2. IsFiniteSet(Old)
  <2>a. su.ParallelLevel \in Int /\ 1 \in Int
    BY SuiteFacts, SMTT(30) DEF Suite
  <2>1. IsFiniteSet(D) /\ IsFiniteSet(1 .. su.ParallelLevel)
    BY <2>a, SuiteFacts, FS_Interval
  <2>2. IsFiniteSet(D \X (1 .. su.ParallelLevel))
    BY <2>1, FS_Product
  <2>3. Old \subseteq D \X (1 .. su.ParallelLevel)
    BY UsedFacts, SuiteFacts, SMTT(30) DEF SlotsIn, Suite
  <2> QED BY <2>2, <2>3, FS_Subset
<1>3. SlotsIn(su, S \cup {t}) = Old \cup Col
  BY DEF SlotsIn
<1>4. Old \cap Col = {}
  BY SMTT(30) DEF SlotsIn
<1> HIDE DEF Old, Col
<1>5. Cardinality(Old \cup Col) =
        Cardinality(Old) + Cardinality(Col) - Cardinality(Old \cap Col)
  BY <1>1, <1>2, FS_Union
<1>6. Cardinality(Old) \in Nat
  BY <1>2, FS_CardinalityType
<1>7. Cardinality(Old \cup Col) = Cardinality(Old) + UsedIn(su, t)
  BY <1>1, <1>4, <1>5, <1>6, FS_EmptySet, UsedFacts, SMTT(30)
<1> QED BY <1>2, <1>3, <1>6, <1>7 DEF Old

\* No slots, no tests.
LEMMA SlotsEmpty ==
  ASSUME NEW su \in Suites, NEW S \in SUBSET (DOMAIN su.Properties),
         IsFiniteSet(SlotsIn(su, S)), Cardinality(SlotsIn(su, S)) = 0
  PROVE  S = {}
<1>1. SlotsIn(su, S) = {}
  BY FS_EmptySet
<1>2. \A t \in S : <<t, 1>> \in SlotsIn(su, S)
  BY UsedFacts, SMTT(30) DEF SlotsIn
<1> QED BY <1>1, <1>2

-----------------------------------------------------------------------------
(* What LockResources and UnlockResources do to the books.                 *)

\* LockResources keeps the books right for a test StartNextTests lets pass.
LEMMA BooksLock ==
  ASSUME NEW su \in Suites, NEW S \in SUBSET (DOMAIN su.Properties),
         NEW t \in DOMAIN su.Properties, t \notin S,
         NEW count, NEW serial, NEW locks, NEW serial2,
         Books(su, S, count, serial, locks),
         ~serial, Resources(su, t) \cap locks = {}, Alone(su, t) => count = 0,
         serial2 <=> Alone(su, t)
  PROVE  Books(su, S \cup {t}, count + UsedIn(su, t), serial2,
               locks \cup Resources(su, t))
<1>1. count + UsedIn(su, t) = Cardinality(SlotsIn(su, S \cup {t}))
  BY SlotsAdd DEF Books
<1>2. Alone(su, t) => S = {}
  <2>1. IsFiniteSet(SlotsIn(su, S))
    BY SlotsAdd
  <2> QED BY <2>1, SlotsEmpty DEF Books
<1>3. \A u \in S \cup {t} : Resources(su, u) \subseteq locks \cup Resources(su, t)
  BY DEF Books
<1>4. \A u \in S : ~Alone(su, u)
  BY DEF Books
<1>5. serial2 <=> \E u \in S \cup {t} : Alone(su, u)
  BY <1>4
<1>6. \A v, u \in S \cup {t} :
        v # u => Resources(su, v) \cap Resources(su, u) = {}
  BY DEF Books
<1>7. \A v, u \in S \cup {t} : Alone(su, v) => v = u
  BY <1>2, <1>4
<1> QED BY <1>1, <1>3, <1>5, <1>6, <1>7 DEF Books

\* UnlockResources keeps them right for a test in progress.
LEMMA BooksUnlock ==
  ASSUME NEW su \in Suites, NEW S \in SUBSET (DOMAIN su.Properties),
         NEW t \in S, NEW count, NEW serial, NEW locks, NEW serial2,
         Books(su, S, count, serial, locks),
         serial2 <=> serial /\ ~Alone(su, t)
  PROVE  /\ Books(su, S \ {t}, count - UsedIn(su, t), serial2,
                  locks \ Resources(su, t))
         /\ count - UsedIn(su, t) \in Nat
         /\ count - UsedIn(su, t) <= count
<1> DEFINE R == S \ {t}
<1>1. R \cup {t} = S /\ t \notin R /\ R \in SUBSET (DOMAIN su.Properties)
  OBVIOUS
<1>2. UsedIn(su, t) \in Nat
  BY UsedFacts
<1> HIDE DEF R
<1>3. /\ Cardinality(SlotsIn(su, R)) \in Nat
      /\ Cardinality(SlotsIn(su, S)) = Cardinality(SlotsIn(su, R)) + UsedIn(su, t)
  BY <1>1, SlotsAdd
<1>4. count - UsedIn(su, t) = Cardinality(SlotsIn(su, R))
  BY <1>2, <1>3, SMTT(30) DEF Books
<1>5. count - UsedIn(su, t) \in Nat /\ count - UsedIn(su, t) <= count
  BY <1>2, <1>3, <1>4, SMTT(30) DEF Books
<1>6. \A u \in R : Resources(su, u) \subseteq locks \ Resources(su, t)
  BY DEF Books, R
<1>7. serial2 <=> \E u \in R : Alone(su, u)
  BY DEF Books, R
<1>8. /\ \A v, u \in R : v # u => Resources(su, v) \cap Resources(su, u) = {}
      /\ \A v, u \in R : Alone(su, v) => v = u
  BY <1>1 DEF Books
<1> QED BY <1>4, <1>5, <1>6, <1>7, <1>8 DEF Books, R

-----------------------------------------------------------------------------
(* Lists of tests.                                                         *)

\* The head of a list without duplicates does not occur in its tail.
LEMMA TailFacts ==
  ASSUME NEW T, NEW s \in Seq(T), s # <<>>, Distinct(s)
  PROVE  /\ Head(s) \in T /\ Tail(s) \in Seq(T) /\ Distinct(Tail(s))
         /\ Head(s) \notin Entries(Tail(s))
         /\ Entries(s) = {Head(s)} \cup Entries(Tail(s))
<1>1. Len(s) \in Nat /\ Len(s) >= 1 /\ Head(s) = s[1] /\ DOMAIN s = 1 .. Len(s)
  BY SMTT(30)
<1>2. /\ Tail(s) \in Seq(T) /\ DOMAIN Tail(s) = 1 .. (Len(s) - 1)
      /\ \A i \in 1 .. (Len(s) - 1) : Tail(s)[i] = s[i + 1]
  BY SMTT(30)
<1>3. \A i \in 2 .. Len(s) : i - 1 \in 1 .. (Len(s) - 1) /\ s[i] = Tail(s)[i - 1]
  BY <1>1, <1>2, SMTT(30)
<1>4. \A i \in 1 .. (Len(s) - 1) : i + 1 \in 2 .. Len(s) /\ i + 1 # 1
  BY <1>1, SMTT(30)
<1>5. Distinct(Tail(s)) /\ Head(s) \notin Entries(Tail(s))
  BY <1>1, <1>2, <1>4, SMTT(30) DEF Distinct, Entries
<1>6. \A x : x \in Entries(s) => x \in {Head(s)} \cup Entries(Tail(s))
  <2> TAKE x
  <2> HAVE x \in Entries(s)
  <2>1. PICK i \in 1 .. Len(s) : x = s[i]
    BY <1>1 DEF Entries
  <2>2. CASE i = 1
    BY <1>1, <2>1, <2>2
  <2>3. CASE i # 1
    <3>1. i \in 2 .. Len(s)
      BY <1>1, <2>3, SMTT(30)
    <3>2. i - 1 \in DOMAIN Tail(s) /\ x = Tail(s)[i - 1]
      BY <1>2, <1>3, <2>1, <3>1
    <3> QED BY <3>2 DEF Entries
  <2> QED BY <2>2, <2>3
<1>7. \A x : x \in {Head(s)} \cup Entries(Tail(s)) => x \in Entries(s)
  BY <1>1, <1>2, <1>4, SMTT(30) DEF Entries
<1> QED BY <1>1, <1>2, <1>5, <1>6, <1>7, SMTT(30)

\* A new entry at the end.
LEMMA AppendFacts ==
  ASSUME NEW T, NEW s \in Seq(T), Distinct(s), NEW t \in T, t \notin Entries(s)
  PROVE  /\ Append(s, t) \in Seq(T) /\ Distinct(Append(s, t))
         /\ Entries(Append(s, t)) = Entries(s) \cup {t}
<1> DEFINE a == Append(s, t)
           n == Len(s)
<1>1. /\ n \in Nat /\ DOMAIN s = 1 .. n
      /\ a \in Seq(T) /\ DOMAIN a = 1 .. (n + 1)
      /\ a[n + 1] = t /\ \A i \in 1 .. n : a[i] = s[i]
  BY SMTT(30)
<1> HIDE DEF a, n
<1>2. \A i \in 1 .. (n + 1) : i = n + 1 \/ i \in 1 .. n
  BY <1>1, SMTT(30)
<1>3. \A i \in 1 .. n : a[i] # t
  BY <1>1 DEF Entries
<1>4. Distinct(a)
  BY <1>1, <1>2, <1>3 DEF Distinct
<1>5. n + 1 \in 1 .. (n + 1) /\ \A i \in 1 .. n : i \in 1 .. (n + 1)
  BY <1>1, SMTT(30)
<1>6. Entries(a) = Entries(s) \cup {t}
  BY <1>1, <1>2, <1>5 DEF Entries
<1> QED BY <1>1, <1>4, <1>6 DEF a

\* Two lists without a common entry, one after the other.
LEMMA ConcatFacts ==
  ASSUME NEW T, NEW r \in Seq(T), NEW s \in Seq(T), Distinct(r), Distinct(s),
         Entries(r) \cap Entries(s) = {}
  PROVE  /\ r \o s \in Seq(T) /\ Distinct(r \o s)
         /\ Entries(r \o s) = Entries(r) \cup Entries(s)
<1> DEFINE c == r \o s
           m == Len(r)
           n == Len(s)
<1>1. /\ m \in Nat /\ DOMAIN r = 1 .. m /\ n \in Nat /\ DOMAIN s = 1 .. n
      /\ c \in Seq(T) /\ DOMAIN c = 1 .. (m + n)
      /\ \A i \in 1 .. m : c[i] = r[i]
      /\ \A i \in (m + 1) .. (m + n) : c[i] = s[i - m]
  BY SMTT(30)
<1> HIDE DEF c, m, n
<1>2. \A i \in 1 .. (m + n) : i \in 1 .. m \/ i \in (m + 1) .. (m + n)
  BY <1>1, SMTT(30)
<1>3. \A i \in (m + 1) .. (m + n) : i - m \in 1 .. n
  BY <1>1, SMTT(30)
<1>4. \A i \in 1 .. m : i \in 1 .. (m + n) /\ c[i] \in Entries(r)
  BY <1>1, SMTT(30) DEF Entries
<1>5. \A i \in (m + 1) .. (m + n) : c[i] \in Entries(s)
  BY <1>1, <1>3 DEF Entries
<1>6. ASSUME NEW i \in 1 .. (m + n), NEW j \in 1 .. (m + n), c[i] = c[j]
      PROVE  i = j
  <2>1. CASE i \in 1 .. m /\ j \in 1 .. m
    BY <1>1, <1>6, <2>1 DEF Distinct
  <2>2. CASE i \in (m + 1) .. (m + n) /\ j \in (m + 1) .. (m + n)
    <3>1. i - m = j - m
      BY <1>1, <1>3, <1>6, <2>2, SMTT(30) DEF Distinct
    <3> QED BY <1>1, <3>1, SMTT(30)
  <2> QED BY <1>2, <1>4, <1>5, <1>6, <2>1, <2>2
<1>7. Distinct(c)
  BY <1>1, <1>6 DEF Distinct
<1>8. \A x \in Entries(c) : x \in Entries(r) \cup Entries(s)
  BY <1>1, <1>2, <1>4, <1>5, SMTT(30) DEF Entries
<1>9. \A x \in Entries(r) : x \in Entries(c)
  BY <1>1, <1>4 DEF Entries
<1>10. ASSUME NEW x \in Entries(s) PROVE x \in Entries(c)
  <2>1. PICK j \in 1 .. n : x = s[j]
    BY <1>1, <1>10 DEF Entries
  <2>2. m + j \in (m + 1) .. (m + n) /\ m + j \in 1 .. (m + n) /\ (m + j) - m = j
    BY <1>1, SMTT(30)
  <2>3. x = c[m + j]
    BY <1>1, <2>1, <2>2
  <2> QED BY <1>1, <2>2, <2>3 DEF Entries
<1> QED BY <1>1, <1>7, <1>8, <1>9, <1>10 DEF c

\* A function on the first n numbers is a sequence.
LEMMA ListIsSeq ==
  ASSUME NEW T, NEW n \in Nat, NEW s \in [1 .. n -> T]
  PROVE  s \in Seq(T)
BY SMTT(30)

\* OrderedTests.erase takes out one entry.
LEMMA WithoutFacts ==
  ASSUME NEW T, NEW s \in Seq(T), Distinct(s), NEW t \in Entries(s)
  PROVE  /\ Without(s, t) \in Seq(T) /\ Distinct(Without(s, t))
         /\ Entries(Without(s, t)) = Entries(s) \ {t}
<1> DEFINE w == Without(s, t)
           n == Len(s)
           k == CHOOSE i \in DOMAIN s : s[i] = t
<1>1. n \in Nat /\ DOMAIN s = 1 .. n /\ \A i \in 1 .. n : s[i] \in T
  BY SMTT(30)
<1>2. k \in 1 .. n /\ s[k] = t
  BY <1>1 DEF Entries
<1>3. w = [j \in 1 .. n - 1 |-> IF j < k THEN s[j] ELSE s[j + 1]]
  BY DEF Without
<1> HIDE DEF w, n, k
<1>4. n - 1 \in Nat /\ DOMAIN w = 1 .. (n - 1)
  BY <1>1, <1>2, <1>3, SMTT(30)
<1>5. \A j \in 1 .. (n - 1) :
        /\ j \in 1 .. n /\ j + 1 \in 1 .. n
        /\ j < k => w[j] = s[j]
        /\ ~(j < k) => w[j] = s[j + 1]
  BY <1>1, <1>3, SMTT(30)
<1>6. w \in Seq(T)
  <2>1. w \in [1 .. (n - 1) -> T]
    BY <1>1, <1>3, <1>5
  <2> QED BY <1>4, <2>1, ListIsSeq
<1>7. Distinct(w)
  <2> SUFFICES ASSUME NEW i \in 1 .. (n - 1), NEW j \in 1 .. (n - 1), w[i] = w[j]
               PROVE  i = j
    BY <1>4 DEF Distinct
  <2>1. \A a, b \in 1 .. n : s[a] = s[b] => a = b
    BY <1>1 DEF Distinct
  <2>2. CASE i < k /\ j < k
    BY <1>5, <2>1, <2>2
  <2>3. CASE i < k /\ ~(j < k)
    <3>1. i = j + 1
      BY <1>5, <2>1, <2>3
    <3> QED BY <1>1, <1>2, <2>3, <3>1, SMTT(30)
  <2>4. CASE ~(i < k) /\ j < k
    <3>1. i + 1 = j
      BY <1>5, <2>1, <2>4, SMTT(30)
    <3> QED BY <1>1, <1>2, <2>4, <3>1, SMTT(30)
  <2>5. CASE ~(i < k) /\ ~(j < k)
    <3>1. i + 1 = j + 1
      BY <1>5, <2>1, <2>5
    <3> QED BY <3>1, SMTT(30)
  <2> QED BY <2>2, <2>3, <2>4, <2>5
<1>8. ASSUME NEW x \in Entries(w) PROVE x \in Entries(s) \ {t}
  <2>1. PICK j \in 1 .. (n - 1) : x = w[j]
    BY <1>4, <1>8 DEF Entries
  <2>2. \A i \in 1 .. n : i # k => s[i] \in Entries(s) \ {t}
    BY <1>1, <1>2 DEF Entries, Distinct
  <2>3. CASE j < k
    BY <1>2, <1>5, <2>1, <2>2, <2>3, SMTT(30)
  <2>4. CASE ~(j < k)
    <3>1. j + 1 # k
      BY <1>2, <2>4, SMTT(30)
    <3> QED BY <1>5, <2>1, <2>2, <2>4, <3>1
  <2> QED BY <2>3, <2>4
<1>9. ASSUME NEW x \in Entries(s) \ {t} PROVE x \in Entries(w)
  <2>1. PICK i \in 1 .. n : x = s[i]
    BY <1>1 DEF Entries
  <2>2. i # k
    BY <1>2, <2>1
  <2>3. CASE i < k
    <3>1. i \in 1 .. (n - 1) /\ w[i] = x
      BY <1>1, <1>2, <1>5, <2>1, <2>3, SMTT(30)
    <3> QED BY <1>4, <3>1 DEF Entries
  <2>4. CASE ~(i < k)
    <3>1. i - 1 \in 1 .. (n - 1) /\ ~(i - 1 < k) /\ (i - 1) + 1 = i
      BY <1>1, <1>2, <2>2, <2>4, SMTT(30)
    <3>2. w[i - 1] = x
      BY <1>5, <2>1, <3>1
    <3> QED BY <1>4, <3>1, <3>2 DEF Entries
  <2> QED BY <2>3, <2>4
<1> QED BY <1>6, <1>7, <1>8, <1>9 DEF w

\* A list of tests taken from a set.
LEMMA ListFacts ==
  ASSUME NEW T, NEW R, R \subseteq T, IsFiniteSet(R),
         NEW s \in [1 .. Cardinality(R) -> R]
  PROVE  s \in Seq(T) /\ Entries(s) \subseteq R
<1>1. Cardinality(R) \in Nat
  BY FS_CardinalityType
<1>2. s \in [1 .. Cardinality(R) -> T]
  OBVIOUS
<1>3. s \in Seq(T)
  BY <1>1, <1>2, ListIsSeq
<1>4. Entries(s) \subseteq R
  BY DEF Entries
<1> QED BY <1>3, <1>4

\* RequeueRepeatGroup lists every test of the group once.
LEMMA ByIndexFacts ==
  ASSUME NEW g \in SUBSET Nat, IsFiniteSet(g), NEW s \in ByIndex(g)
  PROVE  s \in [1 .. Cardinality(g) -> g] /\ Distinct(s)
<1>1. /\ s \in [1 .. Cardinality(g) -> g]
      /\ \A i, j \in DOMAIN s : i < j => s[i] < s[j]
  BY DEF ByIndex
<1>2. Cardinality(g) \in Nat
  BY FS_CardinalityType
<1>3. ASSUME NEW i \in DOMAIN s, NEW j \in DOMAIN s, s[i] = s[j]
      PROVE  i = j
  <2>a. s[i] \in g /\ s[j] \in g /\ DOMAIN s = 1 .. Cardinality(g)
    BY <1>1, <1>3
  <2>b. i \in 1 .. Cardinality(g) /\ j \in 1 .. Cardinality(g)
    BY <1>3, <2>a
  <2>c. i \in Int /\ j \in Int
    BY <1>2, <2>b, SMTT(30)
  <2>d. s[i] \in Nat /\ s[j] \in Nat
    BY <2>a
  <2>1. i \in Int /\ j \in Int /\ s[i] \in Nat /\ s[j] \in Nat
    BY <2>c, <2>d
  <2>2. ~(s[i] < s[j]) /\ ~(s[j] < s[i])
    BY <1>3, <2>1, SMTT(30)
  <2>3. ~(i < j) /\ ~(j < i)
    BY <1>1, <2>2
  <2> QED BY <2>1, <2>3, SMTT(30)
<1> QED BY <1>1, <1>3 DEF Distinct

-----------------------------------------------------------------------------
(* Repeat groups.                                                          *)

\* The tests of a group are finitely many.
LEMMA GroupFinite ==
  ASSUME NEW su \in Suites, NEW g \in su.RepeatGroups, NEW L
  PROVE  /\ g \in SUBSET (DOMAIN su.Properties) /\ IsFiniteSet(g)
         /\ IsFiniteSet(g \cap L)
         /\ Cardinality(g) \in Nat /\ Cardinality(g \cap L) \in Nat
<1>1. g \in SUBSET (DOMAIN su.Properties)
  BY SuiteFacts DEF Suite
<1>2. IsFiniteSet(g)
  BY <1>1, SuiteFacts, FS_Subset
<1>3. IsFiniteSet(g \cap L)
  BY <1>2, FS_Intersection
<1> QED BY <1>1, <1>2, <1>3, FS_CardinalityType

\* Fewer tests left do no harm.
LEMMA GroupsShrink ==
  ASSUME NEW su \in Suites, NEW gr \in [su.RepeatGroups -> GroupState],
         NEW L, NEW M \in SUBSET L, GroupsCount(su, L, gr)
  PROVE  GroupsCount(su, M, gr)
<1> SUFFICES ASSUME NEW g \in su.RepeatGroups
             PROVE  Cardinality(g \cap M) <= gr[g].Unfinished
  BY DEF GroupsCount
<1>1. IsFiniteSet(g \cap L) /\ g \cap M \subseteq g \cap L
  BY GroupFinite
<1>2. Cardinality(g \cap M) <= Cardinality(g \cap L)
  BY <1>1, FS_Subset
<1>3. Cardinality(g \cap L) \in Nat /\ Cardinality(g \cap M) \in Nat
  BY GroupFinite
<1> QED BY <1>2, <1>3, SMTT(30) DEF GroupsCount, GroupState

\* A test that finishes takes one from what its group counts.
LEMMA GroupsFinish ==
  ASSUME NEW su \in Suites, NEW gr \in [su.RepeatGroups -> GroupState],
         NEW gr2 \in [su.RepeatGroups -> GroupState],
         NEW L, NEW g \in su.RepeatGroups, NEW t \in g \cap L,
         GroupsCount(su, L, gr),
         gr2[g].Unfinished = gr[g].Unfinished - 1,
         \A h \in su.RepeatGroups : h # g => gr2[h] = gr[h]
  PROVE  GroupsCount(su, L \ {t}, gr2)
<1>1. GroupsCount(su, L \ {t}, gr)
  BY GroupsShrink
<1>2. IsFiniteSet(g \cap L) /\ Cardinality(g \cap L) \in Nat
  BY GroupFinite
<1> DEFINE G == g \cap L
<1>3. Cardinality((g \cap L) \ {t}) = Cardinality(g \cap L) - 1
  <2>1. t \in G /\ IsFiniteSet(G)
    BY <1>2
  <2> HIDE DEF G
  <2>2. Cardinality(G \ {t}) = Cardinality(G) - 1
    BY <2>1, FS_RemoveElement
  <2> QED BY <2>2 DEF G
<1>4. (g \cap L) \ {t} = g \cap (L \ {t})
  OBVIOUS
<1>a. gr[g].Unfinished \in Int /\ Cardinality(g \cap L) <= gr[g].Unfinished
  BY DEF GroupsCount, GroupState
<1>b. Cardinality(g \cap (L \ {t})) = Cardinality(g \cap L) - 1
  BY <1>3, <1>4
<1>5. Cardinality(g \cap (L \ {t})) <= gr2[g].Unfinished
  BY <1>2, <1>a, <1>b, SMTT(30)
<1> QED BY <1>1, <1>5 DEF GroupsCount

\* A group with one unfinished test has no other test that waits or runs,
\* and may start again with all its tests.
LEMMA GroupsRequeue ==
  ASSUME NEW su \in Suites, NEW gr \in [su.RepeatGroups -> GroupState],
         NEW gr2 \in [su.RepeatGroups -> GroupState],
         NEW L, NEW g \in su.RepeatGroups, NEW t \in g \cap L,
         GroupsCount(su, L, gr), gr[g].Unfinished = 1,
         gr2[g].Unfinished = Cardinality(g),
         \A h \in su.RepeatGroups : h # g => gr2[h] = gr[h]
  PROVE  g \cap L = {t} /\ GroupsCount(su, L \cup g, gr2)
<1>1. /\ IsFiniteSet(g \cap L) /\ Cardinality(g \cap L) \in Nat
      /\ Cardinality(g) \in Nat
  BY GroupFinite
<1>2. Cardinality(g \cap L) <= 1
  BY DEF GroupsCount
<1>3. Cardinality(g \cap L) # 0
  BY <1>1, FS_EmptySet
<1>4. g \cap L = {t}
  <2>1. Cardinality(g \cap L) = 1
    BY <1>1, <1>2, <1>3, SMTT(30)
  <2>2. \E x : g \cap L = {x}
    BY <1>1, <2>1, FS_Singleton
  <2> QED BY <2>2
<1>5. \A h \in su.RepeatGroups : h # g => h \cap (L \cup g) = h \cap L
  BY SuiteFacts
<1>6. g \cap (L \cup g) = g
  OBVIOUS
<1>7. \A h \in su.RepeatGroups :
        Cardinality(h \cap (L \cup g)) <= gr2[h].Unfinished
  <2> TAKE h \in su.RepeatGroups
  <2>1. CASE h = g
    BY <1>1, <1>6, <2>1, SMTT(30)
  <2>2. CASE h # g
    BY <1>5, <2>2 DEF GroupsCount
  <2> QED BY <2>1, <2>2
<1> QED BY <1>4, <1>7 DEF GroupsCount

-----------------------------------------------------------------------------
(* The steps that start tests, and those that move a test.                 *)

\* A step that leaves the lists, the books and the groups alone.
LEMMA QuietStep ==
  ASSUME IInv, TypeOK', UNCHANGED <<suite, pending, depends, ordered, queued,
                                    group, runningCount, serialRunning, locked>>,
         InProgress' = InProgress, running' \cup lost' = running \cup lost,
         running' \cap lost' = {}, starting' = starting,
         Distinct(scan.todo'), Entries(scan.todo') \subseteq Entries(ordered),
         pc' = "scan" => runningCount + scan.numToStart' <= ParallelLevel
  PROVE  IInv'
<1>1. Placement'
  BY DEF IInv, Placement
<1>2. Books(suite, InProgress, runningCount, serialRunning, locked)'
  BY DEF IInv, Books, SlotsIn, UsedIn, Resources, Alone
<1>3. Room'
  BY DEF IInv, Room, ParallelLevel
<1>4. GroupsCount(suite, pending \cup InProgress, group)'
  BY DEF IInv, GroupsCount
<1> QED BY <1>1, <1>2, <1>3, <1>4 DEF IInv

LEMMA InterruptKeeps == IInv /\ Interrupt => IInv'
<1> SUFFICES ASSUME IInv, Interrupt PROVE IInv'
  OBVIOUS
<1>1. TypeOK'
  BY DEF IInv, TypeOK, Interrupt, sched, books, outcome, disk, Tests, Scan
<1> QED BY <1>1, QuietStep
        DEF Interrupt, IInv, Placement, Room, InProgress, sched, books, outcome,
            disk

LEMMA ScanSkipsKeeps == IInv /\ ScanSkips => IInv'
<1> SUFFICES ASSUME IInv, ScanSkips PROVE IInv'
  OBVIOUS
<1> DEFINE t == Head(scan.todo)
<1>a. /\ scan \in Scan /\ scan.todo # <<>> /\ Distinct(scan.todo)
      /\ Entries(scan.todo) \subseteq Entries(ordered)
  BY DEF IInv, TypeOK, Placement, ScanSkips, MoreToScan
<1>1. scan \in Scan /\ scan.todo \in Seq(Tests) /\ scan.todo # <<>>
  BY <1>a DEF Scan
<1>2. /\ Tail(scan.todo) \in Seq(Tests) /\ Distinct(Tail(scan.todo))
      /\ Entries(Tail(scan.todo)) \subseteq Entries(ordered)
  <2> HIDE DEF t
  <2> QED BY <1>a, <1>1, TailFacts, SMTT(30)
<1>3. PICK b \in BOOLEAN :
        scan' = [scan EXCEPT !.todo = Tail(@), !.allTestsFailedTestLoadCheck = b]
  BY <1>1 DEF ScanSkips, Scan
<1>4. /\ scan' \in Scan /\ scan'.todo = Tail(scan.todo)
      /\ scan'.numToStart = scan.numToStart
  BY <1>1, <1>2, <1>3 DEF Scan
<1>5. TypeOK'
  BY <1>4
  DEF IInv, TypeOK, ScanSkips, sched, books, outcome, disk, Tests, Scan
<1> QED BY <1>2, <1>4, <1>5, QuietStep
        DEF ScanSkips, IInv, Placement, Room, InProgress, sched, books, outcome,
            disk

LEMMA ScanEndsKeeps == IInv /\ ScanEnds => IInv'
<1> SUFFICES ASSUME IInv, ScanEnds PROVE IInv'
  OBVIOUS
<1>1. /\ scan' \in Scan /\ scan'.todo = <<>>
      /\ Distinct(<<>>) /\ Entries(<<>>) = {}
  BY SMTT(30) DEF ScanEnds, NoScan, Scan, Distinct, Entries
<1>2. timer' \in BOOLEAN
  BY DEF ScanEnds, TryAgainLater
<1>3. TypeOK'
  BY <1>1, <1>2 DEF IInv, TypeOK, ScanEnds, sched, books, outcome, disk, Tests,
                    Scan
<1> QED BY <1>1, <1>3, QuietStep
        DEF ScanEnds, IInv, Placement, Room, InProgress, sched, books, outcome,
            disk

LEMMA StartNextTestsKeeps == IInv /\ StartNextTests => IInv'
<1> SUFFICES ASSUME IInv, StartNextTests PROVE IInv'
  OBVIOUS
<1>1. stopTimePassed' \in BOOLEAN /\ idle' \in BOOLEAN /\ timer' \in BOOLEAN
  BY DEF StartNextTests, StopTimePassedNow, StopHandles, IInv, TypeOK
<1>2. CASE UNCHANGED <<pc, scan>>
  <2>1. TypeOK'
    BY <1>1, <1>2
    DEF IInv, TypeOK, StartNextTests, sched, books, outcome, disk,
                      Tests, Scan
  <2> QED BY <1>2, <2>1, QuietStep
          DEF StartNextTests, IInv, Placement, Room, InProgress, sched, books,
              outcome, disk
<1>3. CASE pc' = "scan" /\ ~UNCHANGED <<pc, scan>>
  <2>1. PICK spare \in 0 .. TestLoad :
          scan' = [todo |-> ordered,
                   numToStart |-> IF TestLoad > 0 THEN Min2(NumToStart, spare)
                                  ELSE NumToStart,
                   spareLoad |-> spare,
                   allTestsFailedTestLoadCheck |-> TestLoad > 0]
    BY <1>3 DEF StartNextTests
  <2>2. /\ ParallelLevel \in Nat /\ TestLoad \in Nat /\ runningCount \in Nat
        /\ runningCount <= ParallelLevel
    BY SuiteFacts DEF IInv, TypeOK, Room, ParallelLevel, TestLoad, Suite
  <2>3. /\ NumToStart \in Nat /\ NumToStart <= ParallelLevel - runningCount
        /\ spare \in Nat
    BY <2>2, SMTT(30) DEF NumToStart
  <2>4. scan'.numToStart \in Int /\ scan'.numToStart <= NumToStart
    BY <2>1, <2>3, SMTT(30) DEF Min2
  <2>5. scan' \in Scan /\ scan'.todo = ordered
    BY <2>1, <2>3, <2>4, SMTT(30) DEF Scan, IInv, TypeOK
  <2>6. TypeOK'
    BY <1>1, <1>3, <2>5
    DEF IInv, TypeOK, StartNextTests, sched, books, outcome,
                            disk, Tests, Scan
  <2>7. runningCount + scan'.numToStart <= ParallelLevel
    BY <2>2, <2>3, <2>4, SMTT(30)
  <2> QED BY <2>5, <2>6, <2>7, QuietStep
          DEF StartNextTests, IInv, Placement, InProgress, sched, books,
              outcome, disk
<1> QED BY <1>2, <1>3 DEF StartNextTests

\* A test changes its place among those in progress.
LEMMA MovingStep ==
  ASSUME IInv, TypeOK', Placement', InProgress' = InProgress,
         UNCHANGED <<suite, pending, group, runningCount, serialRunning, locked,
                     pc, scan>>
  PROVE  IInv'
<1>1. Books(suite, InProgress, runningCount, serialRunning, locked)'
  BY SMTT(30) DEF IInv, Books, SlotsIn, UsedIn, Resources, Alone
<1>2. Room'
  BY DEF IInv, Room, ParallelLevel
<1>3. GroupsCount(suite, pending \cup InProgress, group)'
  BY DEF IInv, GroupsCount
<1> QED BY <1>1, <1>2, <1>3 DEF IInv

LEMMA TestStartsKeeps == IInv /\ TestStarts => IInv'
<1> SUFFICES ASSUME IInv, TestStarts PROVE IInv'
  OBVIOUS
<1>1. PICK t \in starting : running' = running \cup {t}
  BY DEF TestStarts
<1>2. starting = {t} /\ starting' = {}
  BY DEF TestStarts, IInv, Placement
<1>3. UNCHANGED <<suite, pending, depends, ordered, queued, lost, runNumber,
                  group, books, outcome, disk, idle, timer, stopTimePassed,
                  interrupted, pc, scan>>
  BY DEF TestStarts
<1>4. InProgress' = InProgress
  BY <1>1, <1>2, <1>3 DEF InProgress
<1>5. TypeOK'
  BY <1>1, <1>2, <1>3 DEF IInv, TypeOK, books, outcome, disk, Tests, Scan
<1>6. Placement'
  BY <1>1, <1>2, <1>3, <1>4 DEF IInv, Placement, InProgress
<1> QED BY <1>3, <1>4, <1>5, <1>6, MovingStep DEF books

LEMMA ProcessRunsAgainKeeps ==
  ASSUME IInv, NEW t \in running, NEW st, ProcessRunsAgain(t, st)
  PROVE  IInv'
<1>1. UNCHANGED <<suite, pending, depends, ordered, queued, group, books,
                  outcome, disk, idle, timer, interrupted, pc, starting, scan>>
  BY DEF ProcessRunsAgain
<1>2. \/ running' = running /\ lost' = lost
      \/ running' = running \ {t} /\ lost' = lost \cup {t}
  BY DEF ProcessRunsAgain
<1>3. InProgress' = InProgress
  BY <1>1, <1>2 DEF InProgress
<1>4. stopTimePassed' \in BOOLEAN
  <2>1. StopTimePassedNow(st = "TIMEOUT")
    BY DEF ProcessRunsAgain
  <2> QED BY <2>1 DEF StopTimePassedNow
<1>5. runNumber' \in [Tests -> Nat]
  <2>1. runNumber' = [runNumber EXCEPT ![t] = @ + 1]
    BY DEF ProcessRunsAgain
  <2>2. runNumber \in [Tests -> Nat]
    BY DEF IInv, TypeOK
  <2>3. t \in Tests
    BY DEF IInv, TypeOK
  <2> QED BY <2>1, <2>2, <2>3, SMTT(30)
<1>6. TypeOK'
  BY <1>1, <1>2, <1>4, <1>5
  DEF IInv, TypeOK, books, outcome, disk, Tests, Scan
<1>7. Placement'
  BY <1>1, <1>2, <1>3 DEF IInv, Placement
<1> QED BY <1>1, <1>3, <1>6, <1>7, MovingStep DEF books

LEMMA FinalizeLoopKeeps == IInv /\ FinalizeLoop => IInv'
<1> SUFFICES ASSUME IInv, FinalizeLoop PROVE IInv'
  OBVIOUS
<1>1. TypeOK'
  BY DEF IInv, TypeOK, FinalizeLoop, sched, books, outcome, Tests, Scan
<1> QED BY <1>1, QuietStep
        DEF FinalizeLoop, IInv, Placement, InProgress, sched, books, outcome

\* UnlockResources when test t leaves those in progress.
LEMMA UnlockKeeps ==
  ASSUME IInv, NEW t \in InProgress, UnlockResources(t), suite' = suite,
         InProgress' = InProgress \ {t}
  PROVE  /\ Books(suite, InProgress, runningCount, serialRunning, locked)'
         /\ runningCount' \in Nat /\ runningCount' <= runningCount
         /\ serialRunning' \in BOOLEAN /\ locked' \subseteq Locks
         /\ processors' \in Int
<1>1. suite \in Suites /\ InProgress \in SUBSET (DOMAIN suite.Properties)
  BY SMTT(30) DEF IInv, TypeOK, InProgress, Tests, Entries
<1>2. /\ runningCount' = runningCount - UsedIn(suite, t)
      /\ locked' = locked \ Resources(suite, t)
      /\ serialRunning' = (serialRunning /\ ~Alone(suite, t))
  BY CurrentSuite DEF UnlockResources, Resources, Alone, Props
<1>3. Books(suite, InProgress, runningCount, serialRunning, locked)
  BY DEF IInv
<1>4. /\ Books(suite, InProgress \ {t}, runningCount - UsedIn(suite, t),
               serialRunning', locked \ Resources(suite, t))
      /\ runningCount - UsedIn(suite, t) \in Nat
      /\ runningCount - UsedIn(suite, t) <= runningCount
  BY <1>1, <1>2, <1>3, BooksUnlock
<1>5. Books(suite, InProgress, runningCount, serialRunning, locked)'
  <2>1. Books(suite', InProgress', runningCount', serialRunning', locked')
    BY <1>2, <1>4
  <2> QED BY <2>1 DEF Books, SlotsIn, UsedIn, Resources, Alone
<1>6. serialRunning' \in BOOLEAN
  BY <1>2
<1>7. locked' \subseteq Locks
  BY <1>2 DEF IInv, TypeOK
<1>8. processors' \in Int
  <2>1. processors \in Int
    BY DEF IInv, TypeOK
  <2>2. UsedIn(suite, t) \in Nat
    BY <1>1, UsedFacts
  <2>3. processors' = processors \/ processors' = processors + UsedIn(suite, t)
    BY CurrentSuite DEF UnlockResources
  <2> QED BY <2>1, <2>2, <2>3, SMTT(30)
<1> QED BY <1>2, <1>4, <1>5, <1>6, <1>7, <1>8

LEMMA JobServerReceivedTokenKeeps == IInv /\ JobServerReceivedToken => IInv'
<1> SUFFICES ASSUME IInv, JobServerReceivedToken PROVE IInv'
  OBVIOUS
<1> DEFINE t == Head(queued)
<1>1. /\ queued \in Seq(Tests) /\ queued # <<>> /\ Distinct(queued)
      /\ queued' = Tail(queued) /\ starting = {}
  BY DEF IInv, TypeOK, Placement, JobServerReceivedToken, InLoop
<1>2. /\ t \in Tests /\ Tail(queued) \in Seq(Tests) /\ Distinct(Tail(queued))
      /\ t \notin Entries(Tail(queued))
      /\ Entries(queued) = {t} \cup Entries(Tail(queued))
  BY <1>1, TailFacts
<1>3. UNCHANGED <<suite, pending, depends, ordered, running, lost, runNumber,
                  group, outcome, disk, idle, timer, stopTimePassed,
                  interrupted, pc, scan>>
  BY DEF JobServerReceivedToken
<1>4. t \in InProgress
  BY <1>2 DEF InProgress
<1>5. CASE interrupted
  <2>1. UnlockResources(t) /\ starting' = starting
    BY <1>5 DEF JobServerReceivedToken, CancelLaunch
  <2>2. InProgress' = InProgress \ {t}
    BY <1>1, <1>2, <1>3, <2>1 DEF InProgress, IInv, Placement
  <2>3. /\ Books(suite, InProgress, runningCount, serialRunning, locked)'
        /\ runningCount' \in Nat /\ runningCount' <= runningCount
        /\ serialRunning' \in BOOLEAN /\ locked' \subseteq Locks
        /\ processors' \in Int
    BY <1>3, <1>4, <2>1, <2>2, UnlockKeeps
  <2>4. TypeOK'
    BY <1>1, <1>2, <1>3, <2>1, <2>3
    DEF IInv, TypeOK, outcome, disk, Tests, Scan
  <2>5. Placement'
    BY <1>1, <1>2, <1>3, <2>1, <2>2 DEF IInv, Placement
  <2>6. Room'
    <3>1. pc' # "scan"
      BY <1>3 DEF JobServerReceivedToken, InLoop
    <3>2. runningCount' <= ParallelLevel
      BY <2>3, SuiteFacts, SMTT(30)
      DEF IInv, TypeOK, Room, ParallelLevel, Suite
    <3> QED BY <1>3, <3>1, <3>2 DEF Room, ParallelLevel
  <2>7. GroupsCount(suite, pending \cup InProgress, group)'
    <3>1. GroupsCount(suite, pending \cup InProgress', group)
      BY <2>2, GroupsShrink DEF IInv, TypeOK
    <3> QED BY <1>3, <3>1 DEF GroupsCount
  <2> QED BY <2>3, <2>4, <2>5, <2>6, <2>7 DEF IInv
<1>6. CASE ~interrupted
  <2>1. starting' = {t} /\ UNCHANGED books
    BY <1>6 DEF JobServerReceivedToken
  <2>2. InProgress' = InProgress
    BY <1>1, <1>2, <1>3, <2>1 DEF InProgress
  <2>3. TypeOK'
    BY <1>1, <1>2, <1>3, <2>1
    DEF IInv, TypeOK, books, outcome, disk, Tests, Scan
  <2>4. Placement'
    BY <1>1, <1>2, <1>3, <2>1, <2>2 DEF IInv, Placement
  <2> QED BY <1>3, <2>1, <2>2, <2>3, <2>4, MovingStep DEF books
<1> QED BY <1>5, <1>6

LEMMA ScanStartsKeeps == IInv /\ ScanStarts => IInv'
<1> SUFFICES ASSUME IInv, ScanStarts PROVE IInv'
  OBVIOUS
<1> DEFINE t == Head(scan.todo)
<1>a. /\ MayRun(t) /\ Fits(t) /\ LockResources(t) /\ Erase(t)
      /\ scan' = [scan EXCEPT !.todo = Tail(@),
                              !.numToStart = @ - GetProcessorsUsed(t),
                              !.allTestsFailedTestLoadCheck = FALSE]
      /\ IF suite.JobServer
         THEN queued' = Append(queued, t) /\ UNCHANGED starting
         ELSE starting' = {t} /\ UNCHANGED queued
  BY DEF ScanStarts
<1>1. /\ suite \in Suites /\ InProgress \in SUBSET (DOMAIN suite.Properties)
      /\ ordered \in Seq(Tests) /\ queued \in Seq(Tests)
      /\ scan \in Scan /\ scan.todo \in Seq(Tests) /\ scan.todo # <<>>
      /\ starting = {} /\ pc = "scan" /\ ~serialRunning
  BY SMTT(30)
  DEF IInv, TypeOK, Scan, ScanStarts, InScan, MoreToScan, InProgress, Tests,
         Entries
<1>2. /\ t \in Tests /\ Tail(scan.todo) \in Seq(Tests)
      /\ Distinct(Tail(scan.todo)) /\ t \notin Entries(Tail(scan.todo))
      /\ Entries(scan.todo) = {t} \cup Entries(Tail(scan.todo))
  BY <1>1, TailFacts DEF IInv, Placement
<1> HIDE DEF t
<1>3. t \in Entries(ordered) /\ t \in pending /\ t \notin InProgress
  BY <1>2 DEF IInv, Placement
<1>4. /\ ordered' \in Seq(Tests) /\ Distinct(ordered')
      /\ Entries(ordered') = Entries(ordered) \ {t}
      /\ pending' = pending \ {t}
  BY <1>a, <1>1, <1>3, WithoutFacts DEF Erase, IInv, Placement
<1>5. UNCHANGED <<suite, depends, running, lost, runNumber, group, outcome,
                  disk, idle, timer, stopTimePassed, interrupted, pc>>
  BY DEF ScanStarts
<1>6. /\ queued' \in Seq(Tests) /\ Distinct(queued')
      /\ starting' \subseteq {t} /\ Entries(queued') \cap starting' = {}
      /\ Entries(queued') \cup starting' = Entries(queued) \cup {t}
  <2>1. t \notin Entries(queued) /\ Distinct(queued)
    BY <1>3 DEF InProgress, IInv, Placement
  <2>2. CASE suite.JobServer
    <3>1. queued' = Append(queued, t) /\ starting' = {}
      BY <1>a, <1>1, <2>2
    <3> QED BY <1>1, <1>2, <2>1, <3>1, AppendFacts, SMTT(30)
  <2>3. CASE ~suite.JobServer
    <3>1. queued' = queued /\ starting' = {t}
      BY <1>a, <2>3
    <3> QED BY <1>1, <2>1, <3>1
  <2> QED BY <2>2, <2>3
<1>7. InProgress' = InProgress \cup {t}
  BY <1>1, <1>5, <1>6 DEF InProgress
<1>8. /\ scan' \in Scan /\ scan'.todo = Tail(scan.todo)
      /\ scan'.numToStart = scan.numToStart - UsedIn(suite, t)
      /\ UsedIn(suite, t) \in Nat /\ UsedIn(suite, t) <= scan.numToStart
  <2>1. UsedIn(suite, t) \in Nat
    BY <1>1, <1>2, UsedFacts DEF Tests
  <2>2. scan' = [scan EXCEPT !.todo = Tail(@),
                             !.numToStart = @ - UsedIn(suite, t),
                             !.allTestsFailedTestLoadCheck = FALSE]
    BY <1>a, CurrentSuite
  <2>3. UsedIn(suite, t) <= scan.numToStart
    BY <1>a, CurrentSuite DEF Fits
  <2>4. scan.numToStart \in Int /\ scan.spareLoad \in Nat
    BY <1>1 DEF Scan
  <2>5. scan' = [todo |-> Tail(scan.todo),
                 numToStart |-> scan.numToStart - UsedIn(suite, t),
                 spareLoad |-> scan.spareLoad,
                 allTestsFailedTestLoadCheck |-> FALSE]
    BY <1>1, <2>2 DEF Scan
  <2>6. scan.numToStart - UsedIn(suite, t) \in Int
    BY <2>1, <2>4, SMTT(30)
  <2> QED BY <1>2, <2>1, <2>3, <2>4, <2>5, <2>6 DEF Scan
<1>9. /\ runningCount' = runningCount + UsedIn(suite, t)
      /\ locked' = locked \cup Resources(suite, t)
      /\ serialRunning' <=> Alone(suite, t)
      /\ serialRunning' \in BOOLEAN /\ processors' \in Int
  <2>1. /\ runningCount' = runningCount + UsedIn(suite, t)
        /\ locked' = locked \cup Resources(suite, t)
        /\ serialRunning' = (serialRunning \/ Alone(suite, t))
    BY <1>a, CurrentSuite DEF LockResources, Resources, Alone, Props
  <2>2. processors' \in Int
    BY <1>a, <1>8, CurrentSuite, SMTT(30) DEF LockResources, IInv, TypeOK
  <2> QED BY <1>1, <2>1, <2>2
<1>10. Books(suite, InProgress, runningCount, serialRunning, locked)'
  <2>1. Resources(suite, t) \cap locked = {}
    BY <1>a DEF Fits, ResourceLocksAvailable, Resources, Props
  <2>2. Alone(suite, t) => runningCount = 0
    BY <1>a DEF MayRun, Alone, Props
  <2>3. Books(suite, InProgress \cup {t}, runningCount + UsedIn(suite, t),
              serialRunning', locked \cup Resources(suite, t))
    <3>1. /\ Books(suite, InProgress, runningCount, serialRunning, locked)
          /\ InProgress \in SUBSET (DOMAIN suite.Properties)
          /\ suite \in Suites /\ t \in DOMAIN suite.Properties
          /\ t \notin InProgress /\ ~serialRunning
      BY <1>1, <1>2, <1>3 DEF IInv, Tests
    <3> QED BY <1>9, <2>1, <2>2, <3>1, BooksLock, SMTT(30)
  <2>4. Books(suite', InProgress', runningCount', serialRunning', locked')
    BY <1>5, <1>7, <1>9, <2>3
  <2> QED BY <2>4 DEF Books, SlotsIn, UsedIn, Resources, Alone
<1>11. Room'
  <2>1. /\ runningCount \in Nat /\ ParallelLevel \in Nat
        /\ runningCount + scan.numToStart <= ParallelLevel
        /\ scan.numToStart \in Int
    BY <1>1, SuiteFacts DEF IInv, TypeOK, Room, ParallelLevel, Suite, Scan
  <2>2. /\ runningCount' <= ParallelLevel
        /\ runningCount' + scan'.numToStart <= ParallelLevel
    BY <1>8, <1>9, <2>1, SMTT(30)
  <2> QED BY <1>5, <2>2 DEF Room, ParallelLevel
<1>12. GroupsCount(suite, pending \cup InProgress, group)'
  <2>1. pending' \cup InProgress' = pending \cup InProgress
    BY <1>3, <1>4, <1>7
  <2> QED BY <1>5, <2>1 DEF IInv, GroupsCount
<1>13. TypeOK'
  <2>1. runningCount' \in Nat
    <3>1. runningCount \in Nat
      BY DEF IInv, TypeOK
    <3> QED BY <1>8, <1>9, <3>1, SMTT(30)
  <2>2. locked' \subseteq Locks
    <3>1. Resources(suite, t) \subseteq Locks
      BY <1>1, <1>2, SuiteFacts, SMTT(30)
      DEF Resources, Suite, TestProperties, Tests
    <3> QED BY <1>9, <3>1 DEF IInv, TypeOK
  <2>3. starting' \subseteq Tests
    BY <1>2, <1>6
  <2> QED BY <1>4, <1>5, <1>6, <1>8, <1>9, <2>1, <2>2, <2>3
          DEF IInv, TypeOK, outcome, disk, Tests, Scan
<1>14. Placement'
  <2>1. Distinct(scan'.todo) /\ Entries(scan'.todo) \subseteq Entries(ordered')
    BY <1>2, <1>4, <1>8 DEF IInv, Placement
  <2>2. pending' \cap InProgress' = {}
    BY <1>4, <1>7 DEF IInv, Placement
  <2>3. (running' \cup lost') \cap (Entries(queued') \cup starting') = {}
    BY <1>3, <1>5, <1>6 DEF IInv, Placement, InProgress
  <2> QED BY <1>4, <1>5, <1>6, <2>1, <2>2, <2>3 DEF IInv, Placement
<1> QED BY <1>10, <1>11, <1>12, <1>13, <1>14 DEF IInv

-----------------------------------------------------------------------------
(* The steps that end a test, and the start of a run.                      *)

\* What the end of a test leaves behind, apart from the books.
OutcomeTyped ==
  /\ completed' \in Int
  /\ passed' \subseteq Tests /\ failed' \subseteq Tests
  /\ results' \in [Tests -> Seq(Statuses)]
  /\ checkpoint' \subseteq Tests
  /\ depends' \in [Tests -> SUBSET Tests]
  /\ group' \in [suite.RepeatGroups -> GroupState]

ListsKept ==
  /\ pending' \subseteq Tests /\ ordered' \in Seq(Tests)
  /\ scan' \in Scan /\ scan'.numToStart = scan.numToStart
  /\ Distinct(ordered') /\ Entries(ordered') \subseteq pending'
  /\ Distinct(scan'.todo) /\ Entries(scan'.todo) \subseteq Entries(ordered')

\* The statuses and counters of the handler.
LEMMA NewOutcome ==
  ASSUME IInv, NEW t \in Tests, NEW st \in Statuses
  PROVE  /\ NewPassed(t, st) \subseteq Tests /\ NewFailed(t, st) \subseteq Tests
         /\ NewResults(t, st) \in [Tests -> Seq(Statuses)]
<1>1. NewPassed(t, st) \subseteq Tests /\ NewFailed(t, st) \subseteq Tests
  BY DEF NewPassed, NewFailed, IInv, TypeOK
<1>2. results \in [Tests -> Seq(Statuses)]
  BY DEF IInv, TypeOK
<1>3. Append(results[t], st) \in Seq(Statuses)
  BY <1>2, SMTT(30)
<1>4. NewResults(t, st) \in [Tests -> Seq(Statuses)]
  BY <1>2, <1>3 DEF NewResults
<1> QED BY <1>1, <1>4

LEMMA ReleaseTyped ==
  ASSUME IInv, NEW who, NEW done
  PROVE  Release(who, done) \in [Tests -> SUBSET Tests]
BY DEF Release, IInv, TypeOK

LEMMA FinishAloneKeeps ==
  ASSUME IInv, NEW t \in InProgress \cap Tests, NEW st \in Statuses,
         FinishAlone(t, st), InProgress' = InProgress \ {t}
  PROVE  OutcomeTyped /\ ListsKept
         /\ pending' \cap InProgress' = {}
         /\ GroupsCount(suite, pending' \cup InProgress', group')
<1>1. OutcomeTyped
  <2>1. depends' \in [Tests -> SUBSET Tests]
    BY ReleaseTyped DEF FinishAlone
  <2>2. completed' \in Int
    <3>1. completed' = completed + 1 /\ completed \in Int
      BY DEF FinishAlone, IInv, TypeOK
    <3> QED BY <3>1, SMTT(30)
  <2>3. /\ passed' \subseteq Tests /\ failed' \subseteq Tests
        /\ results' \in [Tests -> Seq(Statuses)]
    BY NewOutcome DEF FinishAlone
  <2>4. checkpoint' \subseteq Tests
    BY DEF FinishAlone, IInv, TypeOK
  <2>5. group' \in [suite.RepeatGroups -> GroupState]
    BY DEF FinishAlone, IInv, TypeOK
  <2> QED BY <2>1, <2>2, <2>3, <2>4, <2>5 DEF OutcomeTyped
<1>2. ListsKept
  BY DEF FinishAlone, ListsKept, IInv, TypeOK, Placement
<1>3. pending' = pending /\ group' = group
  BY DEF FinishAlone
<1>4. GroupsCount(suite, pending \cup InProgress', group)
  BY GroupsShrink DEF IInv, TypeOK
<1>5. pending' \cap InProgress' = {}
  BY <1>3 DEF IInv, Placement
<1> QED BY <1>1, <1>2, <1>3, <1>4, <1>5

LEMMA FinishInGroupKeeps ==
  ASSUME IInv, NEW t \in InProgress \cap Tests, NEW st \in Statuses,
         FinishInGroup(t, st), InProgress' = InProgress \ {t}
  PROVE  OutcomeTyped /\ ListsKept
         /\ pending' \cap InProgress' = {}
         /\ GroupsCount(suite, pending' \cup InProgress', group')
<1>1. PICK g \in GroupOf(t) :
        /\ group' = [group EXCEPT ![g] = GroupAfter(g, st)]
        /\ completed' = completed + 1
        /\ passed' = NewPassed(t, st)
        /\ failed' = NewFailed(t, st)
        /\ results' = NewResults(t, st)
        /\ depends' = IF group[g].Unfinished = 1 THEN Release(Tests, g)
                      ELSE ReleasedBy(g, t)
        /\ checkpoint' = IF group[g].Unfinished = 1 /\ ~interrupted
                         THEN checkpoint \cup g ELSE checkpoint
        /\ UNCHANGED <<pending, ordered, scan>>
  BY DEF FinishInGroup
<1>2. /\ suite \in Suites /\ g \in suite.RepeatGroups /\ t \in g
      /\ group \in [suite.RepeatGroups -> GroupState]
  BY DEF GroupOf, IInv, TypeOK
<1>3. g \subseteq Tests
  BY <1>2, GroupFinite DEF Tests
<1>4. /\ GroupAfter(g, st) \in GroupState
      /\ GroupAfter(g, st).Unfinished = group[g].Unfinished - 1
  <2>1. PICK b, c \in BOOLEAN :
          GroupAfter(g, st) = [group[g] EXCEPT !.AllCompleted = b,
                                               !.AnyTimedOut = c,
                                               !.Unfinished = @ - 1]
    BY DEF GroupAfter
  <2>2. group[g] \in GroupState /\ group[g].Unfinished - 1 \in Int
    BY <1>2, SMTT(30) DEF GroupState
  <2>3. PICK n \in Int : n = group[g].Unfinished - 1
    BY <2>2
  <2>4. GroupAfter(g, st) = [group[g] EXCEPT !.AllCompleted = b,
                                             !.AnyTimedOut = c,
                                             !.Unfinished = n]
    BY <2>1, <2>3
  <2> QED BY <2>2, <2>3, <2>4 DEF GroupState
<1>5. /\ group' \in [suite.RepeatGroups -> GroupState]
      /\ group'[g].Unfinished = group[g].Unfinished - 1
      /\ \A h \in suite.RepeatGroups : h # g => group'[h] = group[h]
  BY <1>1, <1>2, <1>4
<1>6. OutcomeTyped
  <2>1. depends' \in [Tests -> SUBSET Tests]
    BY <1>1, ReleaseTyped DEF ReleasedBy
  <2>2. completed' \in Int
    BY <1>1, SMTT(30) DEF IInv, TypeOK
  <2>3. /\ passed' \subseteq Tests /\ failed' \subseteq Tests
        /\ results' \in [Tests -> Seq(Statuses)]
    BY <1>1, NewOutcome
  <2>4. checkpoint' \subseteq Tests
    BY <1>1, <1>3 DEF IInv, TypeOK
  <2> QED BY <1>5, <2>1, <2>2, <2>3, <2>4 DEF OutcomeTyped
<1>7. ListsKept
  BY <1>1 DEF ListsKept, IInv, TypeOK, Placement
<1>8. pending' \cap InProgress' = {}
  BY <1>1 DEF IInv, Placement
<1>9. GroupsCount(suite, (pending \cup InProgress) \ {t}, group')
  BY <1>2, <1>5, GroupsFinish DEF IInv
<1>10. pending' \cup InProgress' = (pending \cup InProgress) \ {t}
  BY <1>1 DEF IInv, Placement
<1> QED BY <1>6, <1>7, <1>8, <1>9, <1>10

LEMMA RequeueKeeps ==
  ASSUME IInv, NEW t \in InProgress \cap Tests, NEW st \in Statuses,
         Requeue(t, st), InProgress' = InProgress \ {t}
  PROVE  OutcomeTyped /\ ListsKept
         /\ pending' \cap InProgress' = {}
         /\ GroupsCount(suite, pending' \cup InProgress', group')
<1>1. PICK g \in GroupOf(t) :
        /\ group[g].Unfinished = 1
        /\ NextRepetition(g)
        /\ DropRepetition(g)
        /\ pending' = pending \cup g
        /\ depends' = [u \in Tests |-> IF u \in g THEN Props(u).Depends \cap g
                                       ELSE depends[u]]
        /\ \E s \in ByIndex(g) :
             /\ ordered' = ordered \o s
             /\ scan' = [scan EXCEPT !.todo = IF @ = <<>> THEN @ ELSE @ \o s]
        /\ UNCHANGED checkpoint
  BY DEF Requeue
<1>2. PICK s \in ByIndex(g) :
        /\ ordered' = ordered \o s
        /\ scan' = [scan EXCEPT !.todo = IF @ = <<>> THEN @ ELSE @ \o s]
  BY <1>1
<1>3. /\ suite \in Suites /\ g \in suite.RepeatGroups /\ t \in g
      /\ group \in [suite.RepeatGroups -> GroupState]
      /\ ordered \in Seq(Tests) /\ scan \in Scan /\ scan.todo \in Seq(Tests)
  BY DEF GroupOf, IInv, TypeOK, Scan
<1>4. g \subseteq Tests /\ IsFiniteSet(g) /\ Cardinality(g) \in Nat
  BY <1>3, GroupFinite DEF Tests
<1>5. /\ group' \in [suite.RepeatGroups -> GroupState]
      /\ group'[g].Unfinished = Cardinality(g)
      /\ \A h \in suite.RepeatGroups : h # g => group'[h] = group[h]
  <2>1. group' = [group EXCEPT ![g] =
                    [RepetitionsLeft |-> group[g].RepetitionsLeft - 1,
                     Unfinished |-> Cardinality(g),
                     AllCompleted |-> TRUE, AnyTimedOut |-> FALSE]]
    BY <1>1 DEF NextRepetition
  <2>2. group[g].RepetitionsLeft \in Int
    BY <1>3 DEF GroupState
  <2> QED BY <1>3, <1>4, <2>1, <2>2, SMTT(30) DEF GroupState
<1>6. /\ g \cap (pending \cup InProgress) = {t}
      /\ GroupsCount(suite, (pending \cup InProgress) \cup g, group')
  BY <1>1, <1>3, <1>5, GroupsRequeue DEF IInv
<1>7. g \cap pending = {}
  BY <1>6 DEF IInv, Placement
<1>8. pending' \cap InProgress' = {}
  BY <1>1, <1>6 DEF IInv, Placement
<1>9. pending' \cup InProgress' = (pending \cup InProgress) \cup g
  BY <1>1, <1>3
<1>10. /\ s \in Seq(Tests) /\ Entries(s) \subseteq g /\ Distinct(s)
  <2>1. g \in SUBSET Nat
    BY <1>3, <1>4, SuiteFacts DEF Tests
  <2> QED BY <1>4, <2>1, ByIndexFacts, ListFacts
<1>11. ListsKept
  <2>1. /\ Distinct(ordered) /\ Entries(ordered) \subseteq pending
        /\ Distinct(scan.todo) /\ Entries(scan.todo) \subseteq Entries(ordered)
    BY DEF IInv, Placement
  <2>2. /\ ordered' \in Seq(Tests) /\ Distinct(ordered')
        /\ Entries(ordered') = Entries(ordered) \cup Entries(s)
    BY <1>2, <1>3, <1>7, <1>10, <2>1, ConcatFacts, SMTT(30)
  <2>3. PICK todo \in Seq(Tests) :
          /\ scan' = [scan EXCEPT !.todo = todo]
          /\ Distinct(todo) /\ Entries(todo) \subseteq Entries(ordered')
    <3>1. CASE scan.todo = <<>>
      <4>1. scan' = [scan EXCEPT !.todo = scan.todo]
        BY <1>2, <3>1
      <4> QED BY <1>3, <2>1, <2>2, <4>1
    <3>2. CASE scan.todo # <<>>
      <4>1. scan' = [scan EXCEPT !.todo = scan.todo \o s]
        BY <1>2, <3>2
      <4>2. /\ scan.todo \o s \in Seq(Tests) /\ Distinct(scan.todo \o s)
            /\ Entries(scan.todo \o s) = Entries(scan.todo) \cup Entries(s)
        BY <1>3, <1>7, <1>10, <2>1, ConcatFacts, SMTT(30)
      <4> QED BY <2>1, <2>2, <4>1, <4>2
    <3> QED BY <3>1, <3>2
  <2>4. /\ scan' \in Scan /\ scan'.todo = todo
        /\ scan'.numToStart = scan.numToStart
    BY <1>3, <2>3 DEF Scan
  <2>5. pending' \subseteq Tests /\ Entries(ordered') \subseteq pending'
    BY <1>1, <1>4, <1>10, <2>1, <2>2 DEF IInv, TypeOK
  <2> QED BY <2>2, <2>3, <2>4, <2>5 DEF ListsKept
<1>12. OutcomeTyped
  <2>1. depends' \in [Tests -> SUBSET Tests]
    BY <1>1, <1>4 DEF IInv, TypeOK
  <2>2. completed' \in Int /\ passed' \subseteq Tests /\ failed' \subseteq Tests
    BY <1>1, <1>4, SMTT(30) DEF DropRepetition, IInv, TypeOK
  <2>3. results' \in [Tests -> Seq(Statuses)]
    BY <1>1, SMTT(30) DEF DropRepetition, IInv, TypeOK
  <2>4. checkpoint' \subseteq Tests
    BY <1>1 DEF IInv, TypeOK
  <2> QED BY <1>5, <2>1, <2>2, <2>3, <2>4 DEF OutcomeTyped
<1> QED BY <1>6, <1>8, <1>9, <1>11, <1>12

LEMMA FinishKeeps ==
  ASSUME IInv, NEW t \in InProgress, NEW st \in Statuses,
         FinishTestProcess(t, st), starting' \subseteq starting,
         InProgress' = InProgress \ {t}, stopTimePassed' \in BOOLEAN
  PROVE  IInv'
<1>1. t \in InProgress \cap Tests
  BY SMTT(30) DEF IInv, TypeOK, InProgress, Entries
<1>2. /\ OutcomeTyped /\ ListsKept /\ pending' \cap InProgress' = {}
      /\ GroupsCount(suite, pending' \cup InProgress', group')
  BY <1>1, FinishAloneKeeps, FinishInGroupKeeps, RequeueKeeps
  DEF FinishTestProcess
<1>3. /\ UNCHANGED <<suite, queued, lost, runNumber, session, timer,
                     interrupted, pc>>
      /\ running' = running \ {t} /\ idle' = TRUE /\ UnlockResources(t)
  BY DEF FinishTestProcess, StartNextTestsOnIdle
<1>4. /\ Books(suite, InProgress, runningCount, serialRunning, locked)'
      /\ runningCount' \in Nat /\ runningCount' <= runningCount
      /\ serialRunning' \in BOOLEAN /\ locked' \subseteq Locks
      /\ processors' \in Int
  BY <1>3, UnlockKeeps
<1>5. TypeOK'
  BY <1>2, <1>3, <1>4
  DEF IInv, TypeOK, OutcomeTyped, ListsKept, Tests, Scan
<1>6. Placement'
  BY <1>2, <1>3 DEF IInv, Placement, ListsKept
<1>7. Room'
  <2>1. /\ runningCount \in Nat /\ ParallelLevel \in Nat
        /\ scan.numToStart \in Int /\ scan'.numToStart = scan.numToStart
    BY <1>2, SuiteFacts
    DEF IInv, TypeOK, ParallelLevel, Suite, Scan, ListsKept
  <2>2. /\ runningCount' <= ParallelLevel
        /\ pc = "scan" => runningCount' + scan'.numToStart <= ParallelLevel
    BY <1>4, <2>1, SMTT(30) DEF IInv, Room
  <2> QED BY <1>3, <2>2 DEF Room, ParallelLevel
<1>8. GroupsCount(suite, pending \cup InProgress, group)'
  BY <1>2, <1>3 DEF GroupsCount
<1> QED BY <1>4, <1>5, <1>6, <1>7, <1>8 DEF IInv

LEMMA ProcessEndsKeeps ==
  ASSUME IInv, NEW t \in running, NEW st \in Statuses, ProcessEnds(t, st)
  PROVE  IInv'
<1>1. stopTimePassed' \in BOOLEAN
  <2>1. StopTimePassedNow(st = "TIMEOUT")
    BY DEF ProcessEnds
  <2> QED BY <2>1 DEF StopTimePassedNow
<1>2. FinishTestProcess(t, st) /\ starting = {} /\ starting' = {}
  BY DEF ProcessEnds, InLoop
<1>3. InProgress' = InProgress \ {t}
  BY <1>2 DEF FinishTestProcess, InProgress, IInv, Placement
<1> QED BY <1>1, <1>2, <1>3, FinishKeeps DEF InProgress

LEMMA TestNotStartedKeeps == IInv /\ TestNotStarted => IInv'
<1> SUFFICES ASSUME IInv, TestNotStarted PROVE IInv'
  OBVIOUS
<1>1. PICK t \in starting, st \in {"NOT_RUN", "SKIPPED", "BAD_COMMAND"} :
        UNCHANGED stopTimePassed /\ FinishTestProcess(t, st)
  BY DEF TestNotStarted
<1>2. starting = {t} /\ starting' = {} /\ st \in Statuses
  BY DEF TestNotStarted, IInv, Placement, Statuses
<1>3. stopTimePassed' \in BOOLEAN
  BY <1>1 DEF IInv, TypeOK
<1>4. InProgress' = InProgress \ {t}
  BY <1>1, <1>2 DEF FinishTestProcess, InProgress, IInv, Placement
<1> QED BY <1>1, <1>2, <1>3, <1>4, FinishKeeps DEF InProgress

\* Nothing is in progress at the start of a run.
LEMMA NoBooks ==
  ASSUME NEW su \in Suites
  PROVE  Books(su, {}, 0, FALSE, {})
<1>1. SlotsIn(su, {}) = {}
  BY DEF SlotsIn
<1>2. Cardinality({}) = 0
  BY FS_EmptySet
<1> QED BY <1>1, <1>2 DEF Books

LEMMA InitInv == Init => IInv
<1> SUFFICES ASSUME Init PROVE IInv
  OBVIOUS
<1>1. suite \in Suites /\ suite \in Suite(Tests)
  BY SuiteFacts DEF Init, Tests
<1>2. Distinct(<<>>) /\ Entries(<<>>) = {}
  BY SMTT(30) DEF Distinct, Entries
<1>3. InProgress = {}
  BY <1>2 DEF Init, InProgress
<1>4. /\ NoScan \in Scan /\ NoScan.todo = <<>>
      /\ ParallelLevel \in Nat /\ HaveAffinity \in Nat
  BY <1>1, SMTT(30) DEF NoScan, Scan, Suite, ParallelLevel, HaveAffinity
<1>5. TypeOK
  <2>1. group \in [suite.RepeatGroups -> GroupState]
    BY SMTT(30) DEF Init, GroupState
  <2>2. /\ depends \in [Tests -> SUBSET Tests] /\ runNumber \in [Tests -> Nat]
        /\ results \in [Tests -> Seq(Statuses)]
    BY SMTT(30) DEF Init
  <2>3. /\ pending \subseteq Tests /\ ordered \in Seq(Tests)
        /\ queued \in Seq(Tests) /\ running \subseteq Tests
        /\ lost \subseteq Tests /\ locked \subseteq Locks
        /\ passed \subseteq Tests /\ failed \subseteq Tests
        /\ starting \subseteq Tests /\ checkpoint \subseteq Tests
    BY SMTT(30) DEF Init
  <2>4. /\ runningCount \in Nat /\ processors \in Int /\ completed \in Int
        /\ session \in Nat /\ scan \in Scan
    BY <1>4, SMTT(30) DEF Init
  <2>5. /\ serialRunning \in BOOLEAN /\ idle \in BOOLEAN /\ timer \in BOOLEAN
        /\ stopTimePassed \in BOOLEAN /\ interrupted \in BOOLEAN
        /\ pc \in {"off", "loop", "scan", "done"}
    BY DEF Init
  <2> QED BY <1>1, <2>1, <2>2, <2>3, <2>4, <2>5 DEF TypeOK
<1>6. Placement
  BY <1>2, <1>3, <1>4 DEF Init, Placement
<1>7. Books(suite, InProgress, runningCount, serialRunning, locked)
  BY <1>1, <1>3, NoBooks DEF Init
<1>8. Room
  BY <1>4, SMTT(30) DEF Init, Room
<1>9. GroupsCount(suite, pending \cup InProgress, group)
  BY <1>3, FS_EmptySet, SMTT(30) DEF Init, GroupsCount
<1> QED BY <1>5, <1>6, <1>7, <1>8, <1>9 DEF IInv

LEMMA ResumeKeeps == IInv /\ Resume => IInv'
<1> SUFFICES ASSUME IInv, Resume PROVE IInv'
  OBVIOUS
<1> DEFINE R == Tests \ checkpoint'
<1>1. /\ suite' = suite /\ suite \in Suites /\ suite \in Suite(Tests)
      /\ IsFiniteSet(Tests) /\ Begin(checkpoint')
  BY SuiteFacts DEF Resume, IInv, TypeOK, Tests
<1>2. checkpoint' \subseteq Tests /\ session' \in Nat
  BY SMTT(30) DEF Resume, IInv, TypeOK
<1>3. IsFiniteSet(R) /\ IsFiniteSet(checkpoint') /\ R \subseteq Tests
  BY <1>1, <1>2, FS_Subset
<1>4. ordered' \in [1 .. Cardinality(R) -> R] /\ Distinct(ordered')
  BY <1>1 DEF Begin, CostOrders
<1>5. /\ pending' = R /\ completed' = Cardinality(checkpoint')
      /\ depends' = [t \in Tests |-> Props(t).Depends]
      /\ queued' = <<>> /\ running' = {} /\ lost' = {}
      /\ runNumber' = [t \in Tests |-> 1]
      /\ group' = [g \in suite.RepeatGroups |->
                     [RepetitionsLeft |-> RepeatCount - 1,
                      Unfinished |-> Cardinality(g),
                      AllCompleted |-> TRUE, AnyTimedOut |-> FALSE]]
      /\ runningCount' = 0 /\ serialRunning' = FALSE /\ locked' = {}
      /\ processors' = HaveAffinity /\ passed' = {} /\ failed' = {}
      /\ results' = [t \in Tests |-> <<>>]
      /\ idle' = TRUE /\ timer' = FALSE /\ stopTimePassed' = FALSE
      /\ interrupted' = FALSE /\ pc' = "loop" /\ starting' = {}
      /\ scan' = NoScan
  BY <1>1 DEF Begin, RemoveTest
<1> HIDE DEF R
<1>6. ordered' \in Seq(Tests) /\ Entries(ordered') \subseteq R
  BY <1>3, <1>4, ListFacts
<1>7. Distinct(<<>>) /\ Entries(<<>>) = {}
  BY SMTT(30) DEF Distinct, Entries
<1>8. InProgress' = {}
  BY <1>5, <1>7 DEF InProgress
<1>9. /\ NoScan \in Scan /\ NoScan.todo = <<>>
      /\ ParallelLevel \in Nat /\ HaveAffinity \in Nat /\ RepeatCount \in Nat
      /\ \A t \in Tests : Props(t).Depends \subseteq Tests
  BY <1>1, SMTT(30)
  DEF NoScan, Scan, Suite, ParallelLevel, HaveAffinity, RepeatCount,
              TestProperties, Props
<1>10. group' \in [suite.RepeatGroups -> GroupState]
  <2>1. \A g \in suite.RepeatGroups :
          [RepetitionsLeft |-> RepeatCount - 1, Unfinished |-> Cardinality(g),
           AllCompleted |-> TRUE, AnyTimedOut |-> FALSE] \in GroupState
    <3>1. \A g \in suite.RepeatGroups : Cardinality(g) \in Nat
      BY <1>1, GroupFinite
    <3>2. RepeatCount - 1 \in Int
      BY <1>9, SMTT(30)
    <3> QED BY <3>1, <3>2, SMTT(30) DEF GroupState
  <2> QED BY <1>5, <2>1
<1>11. TypeOK'
  <2>1. completed' \in Int
    BY <1>3, <1>5, FS_CardinalityType, SMTT(30)
  <2>2. depends' \in [Tests -> SUBSET Tests]
    BY <1>5, <1>9
  <2>3. /\ runNumber' \in [Tests -> Nat]
        /\ results' \in [Tests -> Seq(Statuses)]
    BY <1>5, SMTT(30)
  <2>4. Tests' = Tests /\ Scan' = Scan
    BY <1>1 DEF Tests, Scan
  <2>5. scan' \in Scan /\ processors' \in Int /\ runningCount' \in Nat
    BY <1>5, <1>9, SMTT(30)
  <2>6. /\ pending' \subseteq Tests /\ queued' \in Seq(Tests)
        /\ running' \subseteq Tests /\ lost' \subseteq Tests
        /\ locked' \subseteq Locks /\ passed' \subseteq Tests
        /\ failed' \subseteq Tests /\ starting' \subseteq Tests
    BY <1>3, <1>5, SMTT(30)
  <2>7. /\ serialRunning' \in BOOLEAN /\ idle' \in BOOLEAN
        /\ timer' \in BOOLEAN /\ stopTimePassed' \in BOOLEAN
        /\ interrupted' \in BOOLEAN /\ pc' \in {"off", "loop", "scan", "done"}
    BY <1>5
  <2> QED BY <1>1, <1>2, <1>6, <1>10, <2>1, <2>2, <2>3, <2>4, <2>5, <2>6,
             <2>7
          DEF TypeOK
<1>12. Placement'
  BY <1>4, <1>5, <1>6, <1>7, <1>8, <1>9 DEF Placement
<1>13. Books(suite, InProgress, runningCount, serialRunning, locked)'
  <2>1. Books(suite', InProgress', runningCount', serialRunning', locked')
    BY <1>1, <1>5, <1>8, NoBooks
  <2> QED BY <2>1 DEF Books, SlotsIn, UsedIn, Resources, Alone
<1>14. Room'
  <2>1. /\ runningCount' = 0 /\ pc' # "scan"
        /\ ParallelLevel' = ParallelLevel
    BY <1>1, <1>5 DEF ParallelLevel
  <2>2. ParallelLevel \in Nat
    BY <1>9
  <2> QED BY <2>1, <2>2, SMTT(30) DEF Room
<1>15. GroupsCount(suite, pending \cup InProgress, group)'
  <2>1. ASSUME NEW g \in suite.RepeatGroups
        PROVE  Cardinality(g \cap (pending' \cup InProgress')) <=
                 group'[g].Unfinished
    <3>1. /\ IsFiniteSet(g) /\ Cardinality(g) \in Nat
          /\ g \cap (pending' \cup InProgress') \subseteq g
      BY <1>1, GroupFinite
    <3>2. Cardinality(g \cap (pending' \cup InProgress')) <= Cardinality(g)
      BY <3>1, FS_Subset
    <3> QED BY <1>5, <3>2
  <2> QED BY <1>1, <2>1 DEF GroupsCount
<1> QED BY <1>11, <1>12, <1>13, <1>14, <1>15 DEF IInv

\* The invariant is inductive.
LEMMA IInvInductive == IInv /\ [Next]_vars => IInv'
<1> SUFFICES ASSUME IInv, [Next]_vars PROVE IInv'
  OBVIOUS
<1>1. ASSUME NEW t \in running, TestEnds(t) PROVE IInv'
  <2>1. PICK st \in {"COMPLETED", "FAILED", "TIMEOUT", "SKIPPED"} :
          ProcessEnds(t, st) \/ ProcessRunsAgain(t, st)
    BY <1>1 DEF TestEnds
  <2>2. st \in Statuses
    BY DEF Statuses
  <2>3. CASE ProcessEnds(t, st)
    BY <2>2, <2>3, ProcessEndsKeeps
  <2>4. CASE ProcessRunsAgain(t, st)
    BY <2>4, ProcessRunsAgainKeeps
  <2> QED BY <2>1, <2>3, <2>4
<1>2. CASE UNCHANGED vars
  <2>1. TypeOK'
    BY <1>2
    DEF vars, sched, books, outcome, control, disk, IInv, TypeOK, Tests,
                Scan
  <2> QED BY <1>2, <2>1, QuietStep
          DEF vars, sched, books, outcome, control, disk, IInv, Placement, Room,
              InProgress
<1>3. CASE Crash \/ RunTests
  BY <1>3, ResumeKeeps DEF Crash, RunTests
<1> QED BY <1>1, <1>2, <1>3, StartNextTestsKeeps, ScanStartsKeeps,
           ScanSkipsKeeps, ScanEndsKeeps, TestStartsKeeps, TestNotStartedKeeps,
           JobServerReceivedTokenKeeps, FinalizeLoopKeeps, InterruptKeeps
        DEF Next, RunTestsReturns

\* The invariant implies the properties.
LEMMA IInvImplies ==
  IInv => TypeOK /\ LevelRespected /\ LocksExclusive /\ SerialAlone
BY CurrentSuite
DEF IInv, Books, Room, LevelRespected, LocksExclusive, SerialAlone, Resources,
    Alone, Props

-----------------------------------------------------------------------------
(* Theorems.                                                               *)

\* Every member of the handler keeps its type, through any sequence of
\* callbacks, interrupts, crashes and resumed runs.
THEOREM TypeCorrect == Spec => []TypeOK
<1>1. IInv /\ [Next]_vars => IInv'
  BY IInvInductive
<1> QED BY <1>1, InitInv, IInvImplies, PTL DEF Spec

\* RunningCount is the number of process slots in use and stays within the
\* -j level, for every level, suite, repetition and load.
THEOREM LevelAlwaysRespected == Spec => []LevelRespected
<1>1. IInv /\ [Next]_vars => IInv'
  BY IInvInductive
<1> QED BY <1>1, InitInv, IInvImplies, PTL DEF Spec

\* Tests that share a RESOURCE_LOCK never run at the same time, and nothing
\* unlocks a resource that a test in progress holds.
THEOREM LocksAlwaysExclusive == Spec => []LocksExclusive
<1>1. IInv /\ [Next]_vars => IInv'
  BY IInvInductive
<1> QED BY <1>1, InitInv, IInvImplies, PTL DEF Spec

\* A RUN_SERIAL test has the machine to itself for all its repetitions.
THEOREM SerialAlwaysAlone == Spec => []SerialAlone
<1>1. IInv /\ [Next]_vars => IInv'
  BY IInvInductive
<1> QED BY <1>1, InitInv, IInvImplies, PTL DEF Spec

-----------------------------------------------------------------------------
(***************************************************************************)
(* What becomes of the tests: dependencies are honoured, results are       *)
(* recorded, the checkpoint is sound, what was locked is given back, and   *)
(* RunTests does not return before every test is over.                     *)
(***************************************************************************)

\* The tests that are not over.
Live == pending \cup InProgress

-----------------------------------------------------------------------------
(* Dependencies.                                                           *)

Needs(su, u) == su.Properties[u].Depends

\* What a test u may have to wait for while the tests L are not over: these,
\* and every test of a repeat group that is not over, unless u is in it.
Hot(su, L, u) ==
  L \cup UNION {h \in su.RepeatGroups : h \cap L # {} /\ u \notin h}

\* The Depends of the tests P that wait name all of that; nothing of it is
\* left for a test in progress, nor, outside its group, for a test whose
\* group may start again.
Waits(su, P, L, dep) ==
  /\ \A u \in P : Needs(su, u) \cap Hot(su, L, u) \subseteq dep[u]
  /\ \A u \in L \ P : Needs(su, u) \cap Hot(su, L, u) = {}
  /\ \A g \in su.RepeatGroups : g \cap L # {} =>
       \A u \in g \ L : Needs(su, u) \cap Hot(su, L, u) \subseteq g

\* Groups are disjoint.
LEMMA GroupsDisjoint ==
  ASSUME NEW su \in Suites, NEW g \in su.RepeatGroups,
         NEW h \in su.RepeatGroups, NEW x, x \in g, x \in h
  PROVE  g = h
BY SuiteFacts

\* With fewer tests left there is less to wait for.
LEMMA HotShrinks ==
  ASSUME NEW su, NEW L, NEW M \in SUBSET L, NEW u
  PROVE  Hot(su, M, u) \subseteq Hot(su, L, u)
BY DEF Hot

\* A test leaves those in progress for good.
LEMMA WaitsLess ==
  ASSUME NEW su, NEW P, NEW L, NEW dep, NEW t \in L \ P, Waits(su, P, L, dep)
  PROVE  Waits(su, P, L \ {t}, dep)
<1> DEFINE M == L \ {t}
<1>1. \A u : Hot(su, M, u) \subseteq Hot(su, L, u)
  BY HotShrinks
<1>2. M \subseteq L /\ M \ P \subseteq L \ P
  OBVIOUS
<1> SUFFICES ASSUME NEW g \in su.RepeatGroups, g \cap M # {}, NEW u \in g \ M
             PROVE  Needs(su, u) \cap Hot(su, M, u) \subseteq g
  BY <1>1, <1>2 DEF Waits
<1>3. CASE u = t
  BY <1>1, <1>3 DEF Waits
<1>4. CASE u # t
  BY <1>1, <1>4 DEF Waits
<1> QED BY <1>3, <1>4

\* A test that waits for nothing starts.
LEMMA WaitsStart ==
  ASSUME NEW su, NEW P, NEW L, NEW dep, P \subseteq L, NEW t \in P,
         dep[t] = {}, Waits(su, P, L, dep)
  PROVE  Waits(su, P \ {t}, L, dep)
BY DEF Waits

\* A test of no group is over.
LEMMA WaitsAlone ==
  ASSUME NEW su, NEW P, NEW L, NEW dep, NEW dep2, NEW t \in L \ P,
         \A h \in su.RepeatGroups : t \notin h,
         \A u \in P : dep2[u] = dep[u] \ {t}, Waits(su, P, L, dep)
  PROVE  Waits(su, P, L \ {t}, dep2)
<1>1. Waits(su, P, L \ {t}, dep)
  BY WaitsLess
<1>2. \A u : t \notin Hot(su, L \ {t}, u)
  BY DEF Hot
<1>3. ASSUME NEW u \in P PROVE Needs(su, u) \cap Hot(su, L \ {t}, u) \subseteq dep2[u]
  <2>1. Needs(su, u) \cap Hot(su, L \ {t}, u) \subseteq dep[u]
    BY <1>1 DEF Waits
  <2> QED BY <1>2, <2>1
<1> QED BY <1>1, <1>3 DEF Waits

\* A test of group g is over, the group is not: g waits no longer for it.
LEMMA WaitsInGroup ==
  ASSUME NEW su \in Suites, NEW P, NEW L, NEW dep, NEW dep2, NEW t \in L \ P,
         NEW g \in su.RepeatGroups, t \in g,
         \A u \in P : dep2[u] = IF u \in g THEN dep[u] \ {t} ELSE dep[u],
         Waits(su, P, L, dep)
  PROVE  Waits(su, P, L \ {t}, dep2)
<1>1. Waits(su, P, L \ {t}, dep)
  BY WaitsLess
<1>2. \A u \in g : t \notin Hot(su, L \ {t}, u)
  BY GroupsDisjoint DEF Hot
<1>3. ASSUME NEW u \in P PROVE Needs(su, u) \cap Hot(su, L \ {t}, u) \subseteq dep2[u]
  <2>1. Needs(su, u) \cap Hot(su, L \ {t}, u) \subseteq dep[u]
    BY <1>1 DEF Waits
  <2> QED BY <1>2, <2>1
<1> QED BY <1>1, <1>3 DEF Waits

\* The last test of group g is over, and so is the group.
LEMMA WaitsOver ==
  ASSUME NEW su \in Suites, NEW P, NEW L, NEW dep, NEW dep2, NEW t \in L \ P,
         NEW g \in su.RepeatGroups, g \cap L = {t},
         \A u \in P : dep2[u] = dep[u] \ g, Waits(su, P, L, dep)
  PROVE  Waits(su, P, L \ {t}, dep2)
<1>1. Waits(su, P, L \ {t}, dep)
  BY WaitsLess
<1>2. \A u : g \cap Hot(su, L \ {t}, u) = {}
  BY GroupsDisjoint, SMTT(30) DEF Hot
<1>3. ASSUME NEW u \in P PROVE Needs(su, u) \cap Hot(su, L \ {t}, u) \subseteq dep2[u]
  <2>1. Needs(su, u) \cap Hot(su, L \ {t}, u) \subseteq dep[u]
    BY <1>1 DEF Waits
  <2> QED BY <1>2, <2>1
<1> QED BY <1>1, <1>3 DEF Waits

\* The last test of group g is over, and the group starts again.
LEMMA WaitsRequeue ==
  ASSUME NEW su \in Suites, NEW P, NEW L, NEW dep, NEW dep2, NEW t \in L \ P,
         NEW g \in su.RepeatGroups, g \cap L = {t}, P \subseteq L,
         \A u \in g : dep2[u] = Needs(su, u) \cap g,
         \A u \in P : dep2[u] = dep[u], Waits(su, P, L, dep)
  PROVE  Waits(su, P \cup g, L \cup g, dep2)
<1> DEFINE M == L \cup g
<1>1. \A u : u \notin g => Hot(su, M, u) \subseteq Hot(su, L, u)
  BY GroupsDisjoint, SMTT(30) DEF Hot
<1>2. \A u \in g : Hot(su, M, u) \subseteq Hot(su, L, u) \cup g
  BY GroupsDisjoint DEF Hot
<1>3. ASSUME NEW u \in P \cup g
      PROVE  Needs(su, u) \cap Hot(su, M, u) \subseteq dep2[u]
  <2>1. CASE u \in g
    <3>1. Needs(su, u) \cap Hot(su, L, u) \subseteq g
      BY <2>1 DEF Waits
    <3> QED BY <1>2, <2>1, <3>1
  <2>2. CASE u \notin g
    BY <1>1, <2>2 DEF Waits
  <2> QED BY <2>1, <2>2
<1>4. \A u \in M \ (P \cup g) : Needs(su, u) \cap Hot(su, M, u) = {}
  BY <1>1 DEF Waits
<1>5. ASSUME NEW h \in su.RepeatGroups, h \cap M # {}, NEW u \in h \ M
      PROVE  Needs(su, u) \cap Hot(su, M, u) \subseteq h
  <2>1. u \notin g /\ h # g
    OBVIOUS
  <2>2. h \cap L # {} /\ u \in h \ L
    BY <1>5, <2>1, GroupsDisjoint
  <2> QED BY <1>1, <2>1, <2>2 DEF Waits
<1> QED BY <1>3, <1>4, <1>5 DEF Waits

\* A run begins: the tests that the checkpoint names are whole groups.
LEMMA WaitsBegin ==
  ASSUME NEW su, NEW L, NEW dep,
         \A g \in su.RepeatGroups : g \cap L = {} \/ g \subseteq L,
         \A u \in L : dep[u] = Needs(su, u)
  PROVE  Waits(su, L, L, dep)
BY DEF Waits

-----------------------------------------------------------------------------
(* What a step does to the tests: the kinds of steps.                      *)

\* A repetition that the code expected may not be made, and then the result
\* of the run before it is withheld.
Withheld ==
  /\ RepeatMode # "Never"
  /\ \/ stopTimePassed \/ interrupted
     \/ RepeatMode = "UntilPass" /\ "spawn failure" \in Events

Kept == UNCHANGED <<suite, depends, group, completed, passed, failed, results,
                    checkpoint>>

\* No test is chosen, and none is over.
Quiet ==
  /\ Kept
  /\ pending' = pending /\ InProgress' = InProgress /\ locked' = locked

\* StartNextTests chooses t.
Starts(t) ==
  /\ Kept
  /\ t \in pending /\ depends[t] = {}
  /\ pending' = pending \ {t} /\ InProgress' = InProgress \cup {t}
  /\ locked' = locked \cup Resources(suite, t)

\* t was interrupted before it was launched.
Cancels(t) ==
  /\ Kept
  /\ interrupted
  /\ t \in InProgress
  /\ pending' = pending /\ InProgress' = InProgress \ {t}
  /\ locked' = locked \ Resources(suite, t)

\* t is over.
Ends(t, st) ==
  /\ UNCHANGED <<suite, runNumber, interrupted>>
  /\ t \in InProgress
  /\ InProgress' = InProgress \ {t}
  /\ locked' = locked \ Resources(suite, t)
  /\ NeedsToRepeat(t, st) => Withheld'
  /\ FinishAlone(t, st) \/ FinishInGroup(t, st) \/ Requeue(t, st)

\* RunTests returns.
Returns ==
  /\ UNCHANGED <<suite, pending, depends, group, completed, passed, failed,
                 results, locked>>
  /\ InProgress' = InProgress
  /\ checkpoint' \in {checkpoint, {}}

\* Within a run what cuts it short is not taken back, and only tests in
\* progress are run again.
Onward ==
  /\ session' = session
  /\ stopTimePassed => stopTimePassed'
  /\ interrupted => interrupted'
  /\ \A t \in Tests \ InProgress : runNumber'[t] = runNumber[t]

RunStep ==
  /\ Onward
  /\ \/ Quiet
     \/ \E t \in Tests : Starts(t)
     \/ \E t \in Tests : Cancels(t)
     \/ \E t \in Tests, st \in Statuses : Ends(t, st)
     \/ Returns

\* The stop time does not go away.
LEMMA StopTimeStays ==
  ASSUME NEW looks, StopTimePassedNow(looks)
  PROVE  stopTimePassed => stopTimePassed'
BY DEF StopTimePassedNow

\* The steps that move no test.
LEMMA QuietSteps ==
  ASSUME IInv,
         StartNextTests \/ ScanSkips \/ ScanEnds \/ Interrupt \/ UNCHANGED vars
  PROVE  Onward /\ Quiet
<1>1. /\ UNCHANGED <<suite, sched, books, outcome, disk, starting>>
      /\ interrupted => interrupted'
  <2>1. CASE StartNextTests
    BY <2>1 DEF StartNextTests
  <2>2. CASE ScanSkips \/ ScanEnds \/ Interrupt
    BY <2>2, SMTT(30) DEF ScanSkips, ScanEnds, Interrupt
  <2>3. CASE UNCHANGED vars
    BY <2>3 DEF vars, control
  <2> QED BY <2>1, <2>2, <2>3
<1>2. stopTimePassed => stopTimePassed'
  <2>1. CASE StartNextTests
    BY <2>1, StopTimeStays DEF StartNextTests
  <2>2. CASE ~StartNextTests
    BY <2>2 DEF ScanSkips, ScanEnds, Interrupt, vars, control
  <2> QED BY <2>1, <2>2
<1>3. InProgress' = InProgress
  BY <1>1 DEF sched, InProgress, Entries
<1>4. /\ Kept /\ pending' = pending /\ session' = session
      /\ runNumber' = runNumber /\ locked' = locked
  BY <1>1 DEF Kept, sched, books, outcome, disk
<1> QED BY <1>1, <1>2, <1>3, <1>4 DEF Onward, Quiet

LEMMA TestStartsQuietly ==
  ASSUME IInv, TestStarts
  PROVE  Onward /\ Quiet
<1>1. PICK t \in starting : running' = running \cup {t}
  BY DEF TestStarts
<1>2. starting = {t} /\ starting' = {}
  BY DEF TestStarts, IInv, Placement
<1>3. UNCHANGED <<suite, pending, depends, queued, lost, runNumber, group,
                  books, outcome, disk, stopTimePassed, interrupted>>
  BY DEF TestStarts
<1>4. InProgress' = InProgress
  BY <1>1, <1>2, <1>3 DEF InProgress
<1> QED BY <1>3, <1>4 DEF Onward, Quiet, Kept, books, outcome, disk

LEMMA RunsAgainQuietly ==
  ASSUME IInv, NEW t \in running, NEW st, ProcessRunsAgain(t, st)
  PROVE  Onward /\ Quiet
<1>1. /\ UNCHANGED <<suite, pending, depends, queued, group, books, outcome,
                     disk, interrupted, starting>>
      /\ runNumber' = [runNumber EXCEPT ![t] = @ + 1]
  BY DEF ProcessRunsAgain
<1>2. \/ running' = running /\ lost' = lost
      \/ running' = running \ {t} /\ lost' = lost \cup {t}
  BY DEF ProcessRunsAgain
<1>3. InProgress' = InProgress
  BY <1>1, <1>2 DEF InProgress
<1>4. stopTimePassed => stopTimePassed'
  BY StopTimeStays DEF ProcessRunsAgain
<1>5. \A u \in Tests \ InProgress : runNumber'[u] = runNumber[u]
  BY <1>1 DEF InProgress, IInv, TypeOK
<1> QED BY <1>1, <1>3, <1>4, <1>5
        DEF Onward, Quiet, Kept, books, outcome, disk

LEMMA ScanStartsOne ==
  ASSUME IInv, ScanStarts
  PROVE  Onward /\ \E t \in Tests : Starts(t)
<1> DEFINE t == Head(scan.todo)
<1>1. scan.todo \in Seq(Tests) /\ scan.todo # <<>> /\ Distinct(scan.todo)
  BY DEF IInv, TypeOK, Scan, Placement, ScanStarts, MoreToScan
<1>2. t \in Tests /\ t \in Entries(scan.todo)
  BY <1>1, TailFacts
<1>3. t \in pending /\ t \notin InProgress
  BY <1>2 DEF IInv, Placement
<1>4. /\ depends[t] = {} /\ pending' = pending \ {t}
      /\ locked' = locked \cup Resources(suite, t)
  BY DEF ScanStarts, MayRun, Erase, LockResources, Resources, Props
<1>5. UNCHANGED <<suite, depends, running, lost, runNumber, group, outcome,
                  disk, stopTimePassed, interrupted>>
  BY DEF ScanStarts
<1>6. InProgress' = InProgress \cup {t}
  <2>1. CASE queued' = Append(queued, t) /\ starting' = starting
    <3>1. queued \in Seq(Tests) /\ Distinct(queued) /\ t \notin Entries(queued)
      BY <1>3 DEF IInv, TypeOK, Placement, InProgress
    <3>2. Entries(queued') = Entries(queued) \cup {t}
      BY <1>2, <2>1, <3>1, AppendFacts, SMTT(30)
    <3> QED BY <1>5, <2>1, <3>2 DEF InProgress
  <2>2. CASE starting' = {t} /\ queued' = queued
    BY <1>5, <2>2 DEF InProgress, ScanStarts, InScan
  <2> QED BY <2>1, <2>2 DEF ScanStarts
<1>7. Starts(t)
  BY <1>3, <1>4, <1>5, <1>6 DEF Starts, Kept, outcome, disk
<1> QED BY <1>2, <1>5, <1>7 DEF Onward, disk

LEMMA TokenCancelsOrNot ==
  ASSUME IInv, JobServerReceivedToken
  PROVE  Onward /\ (Quiet \/ \E t \in Tests : Cancels(t))
<1> DEFINE t == Head(queued)
<1>1. /\ queued \in Seq(Tests) /\ queued # <<>> /\ Distinct(queued)
      /\ queued' = Tail(queued) /\ starting = {}
  BY DEF IInv, TypeOK, Placement, JobServerReceivedToken, InLoop
<1>2. /\ t \in Tests /\ t \notin Entries(Tail(queued))
      /\ Entries(queued) = {t} \cup Entries(Tail(queued))
  BY <1>1, TailFacts
<1>3. UNCHANGED <<suite, pending, depends, running, lost, runNumber, group,
                  outcome, disk, stopTimePassed, interrupted>>
  BY DEF JobServerReceivedToken
<1>4. Kept /\ Onward
  BY <1>3 DEF Kept, Onward, outcome, disk
<1>5. CASE interrupted
  <2>1. starting' = starting /\ locked' = locked \ Resources(suite, t)
    BY <1>5 DEF JobServerReceivedToken, CancelLaunch, UnlockResources,
                Resources, Props
  <2>2. t \notin running \cup lost
    BY <1>2 DEF IInv, Placement
  <2>3. t \in InProgress /\ InProgress' = InProgress \ {t}
    BY <1>1, <1>2, <1>3, <2>1, <2>2 DEF InProgress
  <2> QED BY <1>2, <1>3, <1>4, <1>5, <2>1, <2>3 DEF Cancels
<1>6. CASE ~interrupted
  <2>1. starting' = {t} /\ locked' = locked
    BY <1>6 DEF JobServerReceivedToken, books
  <2>2. InProgress' = InProgress
    BY <1>1, <1>2, <1>3, <2>1 DEF InProgress
  <2> QED BY <1>3, <1>4, <2>1, <2>2 DEF Quiet
<1> QED BY <1>5, <1>6

\* FinishTestProcess moves t as Ends says.
LEMMA FinishEnds ==
  ASSUME IInv, NEW t \in InProgress, NEW st \in Statuses,
         FinishTestProcess(t, st), InProgress' = InProgress \ {t},
         stopTimePassed => stopTimePassed', NeedsToRepeat(t, st) => Withheld'
  PROVE  Onward /\ \E u \in Tests, s \in Statuses : Ends(u, s)
<1>1. /\ UNCHANGED <<suite, runNumber, interrupted, session>>
      /\ FinishAlone(t, st) \/ FinishInGroup(t, st) \/ Requeue(t, st)
      /\ locked' = locked \ Resources(suite, t)
  BY DEF FinishTestProcess, UnlockResources, Resources, Props
<1>2. t \in Tests
  BY SMTT(30) DEF IInv, TypeOK, InProgress, Entries
<1>3. Ends(t, st)
  BY <1>1 DEF Ends
<1> QED BY <1>1, <1>2, <1>3 DEF Onward

LEMMA ProcessEndsOne ==
  ASSUME IInv, NEW t \in running, NEW st \in Statuses, ProcessEnds(t, st)
  PROVE  Onward /\ \E u \in Tests, s \in Statuses : Ends(u, s)
<1>1. FinishTestProcess(t, st) /\ starting = {} /\ starting' = {}
  BY DEF ProcessEnds, InLoop
<1>2. t \in InProgress /\ InProgress' = InProgress \ {t}
  BY <1>1 DEF FinishTestProcess, InProgress, IInv, Placement
<1>3. stopTimePassed => stopTimePassed'
  BY StopTimeStays DEF ProcessEnds
<1>4. NeedsToRepeat(t, st) => Withheld'
  <2>1. suite' = suite /\ interrupted' = interrupted
    BY <1>1 DEF FinishTestProcess
  <2>2. NeedsToRepeat(t, st) => stopTimePassed' \/ interrupted
    BY DEF ProcessEnds
  <2>3. NeedsToRepeat(t, st) => RepeatMode # "Never"
    BY DEF NeedsToRepeat, RepeatsAlone
  <2> QED BY <2>1, <2>2, <2>3 DEF Withheld, RepeatMode
<1> QED BY <1>1, <1>2, <1>3, <1>4, FinishEnds

LEMMA NotStartedEnds ==
  ASSUME IInv, TestNotStarted
  PROVE  Onward /\ \E u \in Tests, s \in Statuses : Ends(u, s)
<1>1. PICK t \in starting, st \in {"NOT_RUN", "SKIPPED", "BAD_COMMAND"} :
        /\ st = "BAD_COMMAND" => "spawn failure" \in Events
        /\ UNCHANGED stopTimePassed /\ FinishTestProcess(t, st)
  BY DEF TestNotStarted
<1>2. starting = {t} /\ starting' = {} /\ st \in Statuses
  BY DEF TestNotStarted, IInv, Placement, Statuses
<1>3. t \in InProgress /\ InProgress' = InProgress \ {t}
  BY <1>1, <1>2 DEF FinishTestProcess, InProgress, IInv, Placement
<1>4. NeedsToRepeat(t, st) => Withheld'
  <2>1. suite' = suite
    BY <1>1 DEF FinishTestProcess
  <2>2. NeedsToRepeat(t, st) =>
          RepeatMode = "UntilPass" /\ "spawn failure" \in Events
    BY <1>1 DEF NeedsToRepeat, RepeatCondition
  <2> QED BY <2>1, <2>2 DEF Withheld, RepeatMode, Events
<1> QED BY <1>1, <1>2, <1>3, <1>4, FinishEnds

LEMMA ReturnsOnce ==
  ASSUME IInv, FinalizeLoop
  PROVE  Onward /\ Returns
<1>1. /\ UNCHANGED <<suite, sched, books, outcome, stopTimePassed, interrupted,
                     starting, session>>
      /\ checkpoint' \in {checkpoint, {}}
  BY DEF FinalizeLoop
<1>2. InProgress' = InProgress
  BY <1>1 DEF InProgress, sched
<1> QED BY <1>1, <1>2 DEF Onward, Returns, sched, books, outcome

\* Every step is of one of these kinds, or begins a run.
LEMMA StepKinds ==
  ASSUME IInv, [Next]_vars
  PROVE  RunStep \/ Resume
<1>1. ASSUME NEW t \in running, TestEnds(t) PROVE RunStep
  <2>1. PICK st \in {"COMPLETED", "FAILED", "TIMEOUT", "SKIPPED"} :
          ProcessEnds(t, st) \/ ProcessRunsAgain(t, st)
    BY <1>1 DEF TestEnds
  <2>2. st \in Statuses
    BY DEF Statuses
  <2> QED BY <2>1, <2>2, ProcessEndsOne, RunsAgainQuietly DEF RunStep
<1>2. CASE StartNextTests \/ ScanSkips \/ ScanEnds \/ Interrupt \/ UNCHANGED vars
  BY <1>2, QuietSteps DEF RunStep
<1>3. CASE TestStarts
  BY <1>3, TestStartsQuietly DEF RunStep
<1>4. CASE ScanStarts
  BY <1>4, ScanStartsOne DEF RunStep
<1>5. CASE JobServerReceivedToken
  BY <1>5, TokenCancelsOrNot DEF RunStep
<1>6. CASE TestNotStarted
  BY <1>6, NotStartedEnds DEF RunStep
<1>7. CASE RunTestsReturns
  BY <1>7, ReturnsOnce DEF RunStep, RunTestsReturns
<1>8. CASE Crash \/ RunTests
  BY <1>8 DEF Crash, RunTests
<1> QED BY <1>1, <1>2, <1>3, <1>4, <1>5, <1>6, <1>7, <1>8 DEF Next

-----------------------------------------------------------------------------
(* The kinds of steps and the dependencies.                                *)

\* The checkpoint names a repeat group as a whole.
Whole(su, C) == \A g \in su.RepeatGroups : g \cap C = {} \/ g \subseteq C

\* The test that ends is not among those that wait.
LEMMA EndsLive ==
  ASSUME IInv, NEW t, NEW st, Ends(t, st)
  PROVE  /\ suite \in Suites /\ pending \subseteq Live /\ t \in Live \ pending
         /\ (pending \cup InProgress') = Live \ {t}
         /\ suite' = suite
BY DEF IInv, TypeOK, Placement, Ends, Live

\* The group of a test that ends, and whether it is over.
LEMMA GroupNearlyOver ==
  ASSUME IInv, NEW t \in InProgress, NEW g \in GroupOf(t)
  PROVE  /\ g \in suite.RepeatGroups /\ t \in g /\ g \subseteq Tests
         /\ group[g].Unfinished = 1 => g \cap Live = {t}
<1>1. /\ suite \in Suites /\ g \in suite.RepeatGroups /\ t \in g
      /\ group \in [suite.RepeatGroups -> GroupState]
      /\ GroupsCount(suite, Live, group)
  BY DEF GroupOf, IInv, TypeOK, Live
<1>2. /\ g \subseteq Tests /\ IsFiniteSet(g \cap Live)
      /\ Cardinality(g \cap Live) \in Nat
  BY <1>1, GroupFinite DEF Tests
<1>3. ASSUME group[g].Unfinished = 1 PROVE g \cap Live = {t}
  <2>1. t \in g \cap Live
    BY <1>1 DEF Live
  <2>2. Cardinality(g \cap Live) # 0
    BY <1>2, <2>1, FS_EmptySet
  <2>3. Cardinality(g \cap Live) = 1
    BY <1>1, <1>2, <1>3, <2>2, SMTT(30) DEF GroupsCount
  <2>4. \E x : g \cap Live = {x}
    BY <1>2, <2>3, FS_Singleton
  <2> QED BY <2>1, <2>4
<1> QED BY <1>1, <1>2, <1>3

LEMMA WaitsEnds ==
  ASSUME IInv, Waits(suite, pending, Live, depends),
         NEW t \in Tests, NEW st \in Statuses, Ends(t, st)
  PROVE  Waits(suite, pending', pending' \cup InProgress', depends')
<1>1. /\ suite \in Suites /\ pending \subseteq Live /\ t \in Live \ pending
      /\ (pending \cup InProgress') = Live \ {t}
  BY EndsLive
<1>2. t \in InProgress
  BY DEF Ends
<1>3. pending \subseteq Tests
  BY DEF IInv, TypeOK
<1>4. CASE FinishAlone(t, st)
  <2>1. \A h \in suite.RepeatGroups : t \notin h
    BY <1>4 DEF FinishAlone, InGroup, GroupOf
  <2>2. pending' = pending /\ \A u \in pending : depends'[u] = depends[u] \ {t}
    BY <1>3, <1>4 DEF FinishAlone, Release
  <2>3. Waits(suite, pending, Live \ {t}, depends')
    BY <1>1, <2>1, <2>2, WaitsAlone
  <2> QED BY <1>1, <2>2, <2>3
<1>5. CASE FinishInGroup(t, st)
  <2>1. PICK g \in GroupOf(t) :
          /\ depends' = IF group[g].Unfinished = 1 THEN Release(Tests, g)
                        ELSE ReleasedBy(g, t)
          /\ pending' = pending
    BY <1>5 DEF FinishInGroup
  <2>2. /\ g \in suite.RepeatGroups /\ t \in g /\ g \subseteq Tests
        /\ group[g].Unfinished = 1 => g \cap Live = {t}
    BY <1>2, GroupNearlyOver
  <2>3. CASE group[g].Unfinished = 1
    <3>1. \A u \in pending : depends'[u] = depends[u] \ g
      BY <1>3, <2>1, <2>3 DEF Release
    <3>2. Waits(suite, pending, Live \ {t}, depends')
      BY <1>1, <2>2, <2>3, <3>1, WaitsOver
    <3> QED BY <1>1, <2>1, <3>2
  <2>4. CASE group[g].Unfinished # 1
    <3>1. \A u \in pending :
            depends'[u] = IF u \in g THEN depends[u] \ {t} ELSE depends[u]
      BY <1>3, <2>1, <2>4 DEF ReleasedBy, Release
    <3>2. Waits(suite, pending, Live \ {t}, depends')
      BY <1>1, <2>2, <3>1, WaitsInGroup
    <3> QED BY <1>1, <2>1, <3>2
  <2> QED BY <2>3, <2>4
<1>6. CASE Requeue(t, st)
  <2>1. PICK g \in GroupOf(t) :
          /\ group[g].Unfinished = 1
          /\ pending' = pending \cup g
          /\ depends' = [u \in Tests |-> IF u \in g THEN Props(u).Depends \cap g
                                         ELSE depends[u]]
    BY <1>6 DEF Requeue
  <2>2. g \in suite.RepeatGroups /\ t \in g /\ g \subseteq Tests /\ g \cap Live = {t}
    BY <1>2, <2>1, GroupNearlyOver
  <2>3. /\ \A u \in g : depends'[u] = Needs(suite, u) \cap g
        /\ \A u \in pending : depends'[u] = depends[u]
    <3>1. \A u \in pending : u \notin g
      BY <1>1, <2>2
    <3> QED BY <1>3, <2>1, <2>2, <3>1 DEF Needs, Props
  <2>4. pending' \cup InProgress' = Live \cup g
    BY <1>1, <2>1, <2>2
  <2> QED BY <1>1, <2>1, <2>2, <2>3, <2>4, WaitsRequeue
<1> QED BY <1>4, <1>5, <1>6 DEF Ends

LEMMA WaitsStep ==
  ASSUME IInv, Waits(suite, pending, Live, depends), RunStep
  PROVE  Waits(suite', pending', Live', depends')
<1> DEFINE L2 == pending' \cup InProgress'
<1>1. Live' = L2 /\ suite \in Suites /\ pending \cap InProgress = {}
  BY DEF Live, IInv, TypeOK, Placement
<1> SUFFICES suite' = suite /\ Waits(suite, pending', L2, depends')
  BY <1>1
<1> HIDE DEF L2
<1>2. CASE Quiet \/ Returns
  <2>1. /\ suite' = suite /\ pending' = pending /\ depends' = depends
        /\ L2 = Live
    BY <1>2 DEF Quiet, Kept, Returns, L2, Live
  <2> QED BY <2>1
<1>3. ASSUME NEW t \in Tests, Starts(t)
      PROVE  suite' = suite /\ Waits(suite, pending', L2, depends')
  <2>1. /\ suite' = suite /\ pending' = pending \ {t} /\ depends' = depends
        /\ L2 = Live /\ t \in pending /\ depends[t] = {} /\ pending \subseteq Live
    BY <1>3 DEF Starts, Kept, L2, Live
  <2> QED BY <2>1, WaitsStart
<1>4. ASSUME NEW t \in Tests, Cancels(t)
      PROVE  suite' = suite /\ Waits(suite, pending', L2, depends')
  <2>1. /\ suite' = suite /\ pending' = pending /\ depends' = depends
        /\ L2 = Live \ {t} /\ t \in Live \ pending
    BY <1>1, <1>4 DEF Cancels, Kept, L2, Live
  <2> QED BY <2>1, WaitsLess
<1>5. ASSUME NEW t \in Tests, NEW st \in Statuses, Ends(t, st)
      PROVE  suite' = suite /\ Waits(suite, pending', L2, depends')
  BY <1>5, WaitsEnds, EndsLive DEF L2
<1> QED BY <1>2, <1>3, <1>4, <1>5 DEF RunStep

-----------------------------------------------------------------------------
(* The checkpoint, and the tests that are reported.                        *)

LEMMA CheckpointEnds ==
  ASSUME IInv, CheckpointSound, Whole(suite, checkpoint),
         NEW t \in Tests, NEW st \in Statuses, Ends(t, st)
  PROVE  /\ checkpoint' \cap (pending' \cup InProgress') = {}
         /\ Whole(suite, checkpoint')
<1>1. /\ suite \in Suites /\ t \in Live \ pending
      /\ (pending \cup InProgress') = Live \ {t}
      /\ checkpoint \cap Live = {} /\ t \in InProgress
  BY EndsLive DEF CheckpointSound, Live, Ends
<1>2. CASE FinishAlone(t, st)
  <2>1. \A h \in suite.RepeatGroups : t \notin h
    BY <1>2 DEF FinishAlone, InGroup, GroupOf
  <2>2. /\ pending' = pending
        /\ checkpoint' = checkpoint \/ checkpoint' = checkpoint \cup {t}
    BY <1>2 DEF FinishAlone
  <2> QED BY <1>1, <2>1, <2>2, SMTT(30) DEF Whole
<1>3. CASE FinishInGroup(t, st)
  <2>1. PICK g \in GroupOf(t) :
          /\ pending' = pending
          /\ \/ checkpoint' = checkpoint
             \/ checkpoint' = checkpoint \cup g /\ group[g].Unfinished = 1
    BY <1>3 DEF FinishInGroup
  <2>2. /\ g \in suite.RepeatGroups /\ t \in g
        /\ group[g].Unfinished = 1 => g \cap Live = {t}
    BY <1>1, GroupNearlyOver
  <2>3. checkpoint' \cap (pending' \cup InProgress') = {}
    BY <1>1, <2>1, <2>2
  <2>4. Whole(suite, checkpoint')
    BY <1>1, <2>1, <2>2, GroupsDisjoint, SMTT(30) DEF Whole
  <2> QED BY <2>3, <2>4
<1>4. CASE Requeue(t, st)
  <2>1. PICK g \in GroupOf(t) : pending' = pending \cup g /\ checkpoint' = checkpoint
    BY <1>4 DEF Requeue
  <2>2. g \in suite.RepeatGroups /\ t \in g
    BY <1>1, GroupNearlyOver
  <2>3. g \cap checkpoint = {}
    BY <1>1, <2>2 DEF Whole
  <2> QED BY <1>1, <2>1, <2>3
<1> QED BY <1>2, <1>3, <1>4 DEF Ends

LEMMA CheckpointStep ==
  ASSUME IInv, CheckpointSound, Whole(suite, checkpoint), RunStep
  PROVE  CheckpointSound' /\ Whole(suite', checkpoint')
<1> SUFFICES /\ suite' = suite
             /\ checkpoint' \cap (pending' \cup InProgress') = {}
             /\ Whole(suite, checkpoint')
  BY DEF CheckpointSound
<1>1. CASE Quiet \/ Returns
  BY <1>1 DEF Quiet, Kept, Returns, CheckpointSound, Whole
<1>2. ASSUME NEW t \in Tests, Starts(t) \/ Cancels(t)
      PROVE  /\ suite' = suite
             /\ checkpoint' \cap (pending' \cup InProgress') = {}
             /\ Whole(suite, checkpoint')
  <2>1. suite' = suite /\ checkpoint' = checkpoint
    BY <1>2 DEF Starts, Cancels, Kept
  <2>2. pending' \cup InProgress' \subseteq pending \cup InProgress
    BY <1>2 DEF Starts, Cancels
  <2> QED BY <2>1, <2>2 DEF CheckpointSound
<1>3. ASSUME NEW t \in Tests, NEW st \in Statuses, Ends(t, st)
      PROVE  /\ suite' = suite
             /\ checkpoint' \cap (pending' \cup InProgress') = {}
             /\ Whole(suite, checkpoint')
  BY <1>3, CheckpointEnds, EndsLive
<1> QED BY <1>1, <1>2, <1>3 DEF RunStep

\* A test that is not over is not reported, and has no result.
Unreported ==
  /\ (passed \cup failed) \cap Live = {}
  /\ \A t \in Live : results[t] = <<>>

\* What the end of a test reports, whether or not it is in a group.
Reports(t, st) ==
  /\ pending' = pending
  /\ passed' = NewPassed(t, st) /\ failed' = NewFailed(t, st)
  /\ results' = NewResults(t, st)

\* ... and what is taken back when its group g starts again.
Forgets(g) ==
  /\ pending' = pending \cup g
  /\ passed' = passed \ g /\ failed' = failed \ g
  /\ results' = [u \in Tests |-> IF u \in g THEN <<>> ELSE results[u]]

LEMMA EndsReports ==
  ASSUME IInv, NEW t \in Tests, NEW st \in Statuses, Ends(t, st)
  PROVE  \/ Reports(t, st)
         \/ \E g \in suite.RepeatGroups : g \cap Live = {t} /\ Forgets(g)
<1>1. t \in InProgress
  BY DEF Ends
<1>2. CASE FinishAlone(t, st) \/ FinishInGroup(t, st)
  BY <1>2 DEF FinishAlone, FinishInGroup, Reports
<1>3. CASE Requeue(t, st)
  <2>1. PICK g \in GroupOf(t) : group[g].Unfinished = 1 /\ Forgets(g)
    BY <1>3 DEF Requeue, DropRepetition, Forgets
  <2> QED BY <1>1, <2>1, GroupNearlyOver
<1> QED BY <1>2, <1>3 DEF Ends

LEMMA UnreportedEnds ==
  ASSUME IInv, Unreported, NEW t \in Tests, NEW st \in Statuses, Ends(t, st)
  PROVE  Unreported'
<1>1. /\ t \in Live \ pending /\ (pending \cup InProgress') = Live \ {t}
      /\ Live' = pending' \cup InProgress' /\ Live \subseteq Tests
  <2>1. t \in Live \ pending /\ (pending \cup InProgress') = Live \ {t}
    BY EndsLive
  <2>2. Live' = pending' \cup InProgress'
    BY DEF Live
  <2>3. /\ queued \in Seq(Tests)
        /\ pending \cup running \cup lost \cup starting \subseteq Tests
    BY DEF IInv, TypeOK
  <2>4. Entries(queued) \subseteq Tests
    BY <2>3, SMTT(30) DEF Entries
  <2> QED BY <2>1, <2>2, <2>3, <2>4 DEF Live, InProgress
<1>2. results \in [Tests -> Seq(Statuses)]
  BY DEF IInv, TypeOK
<1>3. CASE Reports(t, st)
  <2>1. Live' = Live \ {t}
    BY <1>1, <1>3 DEF Reports
  <2>2. passed' \cup failed' \subseteq (passed \cup failed) \cup {t}
    BY <1>3 DEF Reports, NewPassed, NewFailed
  <2>3. ASSUME NEW u \in Live' PROVE results'[u] = results[u]
    <3>1. u # t /\ u \in Tests
      BY <1>1, <2>1
    <3>2. results' = results \/ results' = [results EXCEPT ![t] = Append(@, st)]
      BY <1>3 DEF Reports, NewResults
    <3> QED BY <1>2, <3>1, <3>2
  <2> QED BY <2>1, <2>2, <2>3 DEF Unreported
<1>4. ASSUME NEW g \in suite.RepeatGroups, g \cap Live = {t}, Forgets(g)
      PROVE  Unreported'
  <2>1. Live' \subseteq Live \cup g
    BY <1>1, <1>4 DEF Forgets
  <2>2. (passed' \cup failed') \cap Live' = {}
    BY <1>4, <2>1 DEF Forgets, Unreported
  <2>3. g \subseteq Tests
    BY GroupFinite DEF IInv, TypeOK, Tests
  <2>4. \A u \in Live' : results'[u] = <<>>
    BY <1>1, <1>4, <2>1, <2>3 DEF Forgets, Unreported
  <2> QED BY <2>2, <2>4 DEF Unreported
<1> QED BY <1>3, <1>4, EndsReports

LEMMA UnreportedStep ==
  ASSUME IInv, Unreported, RunStep
  PROVE  Unreported'
<1>1. CASE Quiet \/ Returns \/ \E t \in Tests : Starts(t) \/ Cancels(t)
  <2>1. UNCHANGED <<passed, failed, results>>
    BY <1>1 DEF Quiet, Returns, Starts, Cancels, Kept
  <2>2. Live' \subseteq Live
    BY <1>1 DEF Quiet, Returns, Starts, Cancels, Live
  <2> QED BY <2>1, <2>2 DEF Unreported
<1> QED BY <1>1, UnreportedEnds DEF RunStep

-----------------------------------------------------------------------------
(* Results.                                                                *)

\* Once a result may be withheld, this may always happen.
LEMMA WithheldStays ==
  ASSUME Onward, suite' = suite, Withheld
  PROVE  Withheld'
BY DEF Onward, Withheld, RepeatMode, Events

LEMMA RecordedEnds ==
  ASSUME IInv, Unreported, ~Withheld', ResultsRecorded,
         NEW t \in Tests, NEW st \in Statuses, Ends(t, st)
  PROVE  ResultsRecorded'
<1>1. t \in Live /\ results[t] = <<>> /\ t \notin passed \cup failed
  BY DEF Ends, Live, Unreported
<1>2. /\ results \in [Tests -> Seq(Statuses)]
      /\ passed \subseteq Tests /\ failed \subseteq Tests
  BY DEF IInv, TypeOK
<1> SUFFICES ASSUME NEW u \in passed' \cup failed'
             PROVE  \E s \in Statuses :
                      results'[u] = <<s>> /\ (u \in passed' <=> Passes(s))
  BY DEF ResultsRecorded
<1>3. CASE Reports(t, st)
  <2>1. results' = [results EXCEPT ![t] = Append(results[t], st)]
    BY <1>3 DEF Ends, Reports, NewResults
  <2>2. CASE u = t
    <3>1. results'[t] = <<st>>
      BY <1>1, <1>2, <2>1, SMTT(30)
    <3>2. t \in passed' <=> Passes(st)
      BY <1>1, <1>3 DEF Reports, NewPassed
    <3> QED BY <2>2, <3>1, <3>2
  <2>3. CASE u # t
    <3>1. u \in passed \cup failed /\ (u \in passed' <=> u \in passed)
      BY <1>3, <2>3 DEF Reports, NewPassed, NewFailed
    <3>2. results'[u] = results[u]
      BY <1>2, <2>1, <2>3, <3>1
    <3> QED BY <3>1, <3>2 DEF ResultsRecorded
  <2> QED BY <2>2, <2>3
<1>4. ASSUME NEW g \in suite.RepeatGroups, Forgets(g)
      PROVE  \E s \in Statuses :
               results'[u] = <<s>> /\ (u \in passed' <=> Passes(s))
  <2>1. u \in passed \cup failed /\ u \notin g /\ (u \in passed' <=> u \in passed)
    BY <1>4 DEF Forgets
  <2>2. results'[u] = results[u]
    BY <1>2, <1>4, <2>1 DEF Forgets
  <2> QED BY <2>1, <2>2 DEF ResultsRecorded
<1> QED BY <1>3, <1>4, EndsReports

LEMMA RecordedStep ==
  ASSUME IInv, Unreported, ~Withheld => ResultsRecorded, RunStep
  PROVE  ~Withheld' => ResultsRecorded'
<1> SUFFICES ASSUME ~Withheld' PROVE ResultsRecorded'
  OBVIOUS
<1>1. Onward /\ suite' = suite
  BY DEF RunStep, Quiet, Returns, Starts, Cancels, Ends, Kept
<1>2. ResultsRecorded
  BY <1>1, WithheldStays
<1>3. CASE UNCHANGED <<passed, failed, results>>
  BY <1>2, <1>3 DEF ResultsRecorded
<1>4. ASSUME NEW t \in Tests, NEW st \in Statuses, Ends(t, st)
      PROVE  ResultsRecorded'
  BY <1>2, <1>4, RecordedEnds
<1> QED BY <1>3, <1>4
        DEF RunStep, Quiet, Returns, Starts, Cancels, Kept

-----------------------------------------------------------------------------
(* Repetitions.                                                            *)

\* A group that is not over counts its tests that are not.
GroupsExact(su, L, gr) ==
  \A g \in su.RepeatGroups :
    g \cap L # {} => Cardinality(g \cap L) = gr[g].Unfinished

\* The group of a test that ends counts it.
LEMMA ExactEnds ==
  ASSUME IInv, GroupsExact(suite, Live, group),
         NEW t \in Tests, NEW st \in Statuses, Ends(t, st)
  PROVE  GroupsExact(suite, pending' \cup InProgress', group')
<1>1. /\ suite \in Suites /\ t \in Live \ pending /\ t \in InProgress
      /\ (pending \cup InProgress') = Live \ {t}
      /\ group \in [suite.RepeatGroups -> GroupState]
  BY EndsLive DEF Ends, IInv, TypeOK
<1>2. \A h \in suite.RepeatGroups : t \notin h => h \cap (Live \ {t}) = h \cap Live
  OBVIOUS
<1>3. CASE FinishAlone(t, st)
  <2>1. \A h \in suite.RepeatGroups : t \notin h
    BY <1>3 DEF FinishAlone, InGroup, GroupOf
  <2>2. pending' = pending /\ group' = group
    BY <1>3 DEF FinishAlone
  <2> QED BY <1>1, <1>2, <2>1, <2>2 DEF GroupsExact
<1>4. CASE FinishInGroup(t, st)
  <2>1. PICK g \in GroupOf(t) :
          /\ group' = [group EXCEPT ![g] = GroupAfter(g, st)]
          /\ pending' = pending
    BY <1>4 DEF FinishInGroup
  <2>2. g \in suite.RepeatGroups /\ t \in g
    BY <1>1, GroupNearlyOver
  <2>3. \A h \in suite.RepeatGroups :
          h # g => t \notin h /\ group'[h] = group[h]
    BY <1>1, <2>1, <2>2, GroupsDisjoint
  <2>4. group'[g].Unfinished = group[g].Unfinished - 1
    BY <1>1, <2>1, <2>2 DEF GroupAfter, GroupState
  <2>5. Cardinality(g \cap (Live \ {t})) = group[g].Unfinished - 1
    <3> DEFINE G == g \cap Live
    <3>1. t \in G /\ IsFiniteSet(G) /\ Cardinality(G) = group[g].Unfinished
      BY <1>1, <2>2, GroupFinite DEF GroupsExact
    <3>2. g \cap (Live \ {t}) = G \ {t}
      OBVIOUS
    <3> HIDE DEF G
    <3>3. Cardinality(G \ {t}) = Cardinality(G) - 1
      BY <3>1, FS_RemoveElement
    <3> QED BY <3>1, <3>2, <3>3
  <2>6. ASSUME NEW h \in suite.RepeatGroups, h \cap (Live \ {t}) # {}
        PROVE  Cardinality(h \cap (Live \ {t})) = group'[h].Unfinished
    <3>1. CASE h = g
      BY <2>4, <2>5, <3>1
    <3>2. CASE h # g
      BY <1>2, <2>3, <2>6, <3>2 DEF GroupsExact
    <3> QED BY <3>1, <3>2
  <2> QED BY <1>1, <2>1, <2>6 DEF GroupsExact
<1>5. CASE Requeue(t, st)
  <2>1. PICK g \in GroupOf(t) : NextRepetition(g) /\ pending' = pending \cup g
    BY <1>5 DEF Requeue
  <2>2. g \in suite.RepeatGroups /\ t \in g
    BY <1>1, GroupNearlyOver
  <2>3. /\ group'[g].Unfinished = Cardinality(g)
        /\ \A h \in suite.RepeatGroups : h # g => group'[h] = group[h]
    BY <1>1, <2>1, <2>2 DEF NextRepetition
  <2>4. pending' \cup InProgress' = Live \cup g
    BY <1>1, <2>1, <2>2
  <2>5. \A h \in suite.RepeatGroups : h # g => h \cap (Live \cup g) = h \cap Live
    BY <1>1, <2>2, GroupsDisjoint, SMTT(30)
  <2>6. g \cap (Live \cup g) = g
    OBVIOUS
  <2>7. ASSUME NEW h \in suite.RepeatGroups, h \cap (Live \cup g) # {}
        PROVE  Cardinality(h \cap (Live \cup g)) = group'[h].Unfinished
    <3>1. CASE h = g
      BY <2>3, <2>6, <3>1
    <3>2. CASE h # g
      BY <2>3, <2>5, <2>7, <3>2 DEF GroupsExact
    <3> QED BY <3>1, <3>2
  <2> QED BY <2>4, <2>7 DEF GroupsExact
<1> QED BY <1>3, <1>4, <1>5 DEF Ends

LEMMA ExactStep ==
  ASSUME IInv, ~interrupted => GroupsExact(suite, Live, group), RunStep
  PROVE  ~interrupted' => GroupsExact(suite', Live', group')
<1> SUFFICES ASSUME ~interrupted' PROVE GroupsExact(suite', Live', group')
  OBVIOUS
<1>1. ~interrupted /\ GroupsExact(suite, Live, group)
  BY DEF RunStep, Onward
<1>2. CASE Quiet \/ Returns \/ \E t \in Tests : Starts(t)
  <2>1. suite' = suite /\ group' = group
    BY <1>2 DEF Quiet, Returns, Starts, Kept
  <2>2. Live' = Live
    BY <1>2 DEF Quiet, Returns, Starts, Live
  <2> QED BY <1>1, <2>1, <2>2
<1>3. ASSUME NEW t \in Tests, NEW st \in Statuses, Ends(t, st)
      PROVE  GroupsExact(suite', Live', group')
  <2>1. GroupsExact(suite, pending' \cup InProgress', group')
    BY <1>1, <1>3, ExactEnds
  <2>2. suite' = suite /\ Live' = pending' \cup InProgress'
    BY <1>3 DEF Ends, Live
  <2> QED BY <2>1, <2>2
<1>4. \A t \in Tests : ~Cancels(t)
  BY <1>1 DEF Cancels
<1> QED BY <1>2, <1>3, <1>4 DEF RunStep

\* A run that is cut short stays so.
LEMMA EndingStays ==
  ASSUME RunStep, Ending(stopTimePassed, failed)
  PROVE  Ending(stopTimePassed, failed)'
<1>1. /\ stopTimePassed => stopTimePassed'
      /\ interrupted => interrupted'
  BY DEF RunStep, Onward
<1>2. suite' = suite
  BY DEF RunStep, Quiet, Returns, Starts, Cancels, Ends, Kept
<1>3. CASE failed \subseteq failed'
  BY <1>1, <1>2, <1>3 DEF Ending, StopOnFailure
<1>4. ASSUME NEW t, NEW st, Requeue(t, st)
      PROVE  FALSE
  <2>1. ~Ending(stopTimePassed', NewFailed(t, st))
    BY <1>4 DEF Requeue, GroupRepeats
  <2>2. failed \subseteq NewFailed(t, st)
    BY DEF NewFailed
  <2> QED BY <1>1, <2>1, <2>2 DEF Ending
<1>5. \A t, st : FinishAlone(t, st) \/ FinishInGroup(t, st) => failed \subseteq failed'
  BY DEF FinishAlone, FinishInGroup, NewFailed
<1> QED BY <1>3, <1>4, <1>5
        DEF RunStep, Quiet, Returns, Starts, Cancels, Ends, Kept

\* Test t had all the runs --repeat until-fail asks for.
HadAllRuns(t) ==
  /\ RepeatsAlone(t) => runNumber[t] = RepeatCount
  /\ \A g \in GroupOf(t) :
       g \cap Live = {} /\ group[g].AllCompleted => group[g].RepetitionsLeft = 0

LEMMA HadStays ==
  ASSUME NEW u, suite' = suite, runNumber'[u] = runNumber[u],
         \A g \in GroupOf(u) : group'[g] = group[g] /\ g \cap Live' = g \cap Live,
         HadAllRuns(u)
  PROVE  HadAllRuns(u)'
<1>1. GroupOf(u)' = GroupOf(u) /\ RepeatCount' = RepeatCount
  BY DEF GroupOf, RepeatCount
<1>2. RepeatsAlone(u)' <=> RepeatsAlone(u)
  BY DEF RepeatsAlone, RepeatMode, InGroup, GroupOf
<1>3. RepeatsAlone(u)' => runNumber'[u] = RepeatCount'
  BY <1>1, <1>2 DEF HadAllRuns
<1>4. \A g \in GroupOf(u)' :
        g \cap Live' = {} /\ group'[g].AllCompleted => group'[g].RepetitionsLeft = 0
  BY <1>1 DEF HadAllRuns
<1> QED BY <1>3, <1>4 DEF HadAllRuns

\* With until-fail the group of a test that ends repeats, unless that was its
\* last run, or it failed.
LEMMA GroupHadAll ==
  ASSUME IInv, GroupsExact(suite, Live, group), RepeatMode = "UntilFail",
         NEW t \in Tests, NEW st \in Statuses, Ends(t, st),
         NEW g \in GroupOf(t), g \cap (Live \ {t}) = {},
         FinishInGroup(t, st), group'[g].AllCompleted,
         ~Ending(stopTimePassed, failed)'
  PROVE  group'[g].RepetitionsLeft = 0
<1>1. /\ suite \in Suites /\ t \in Live /\ t \in InProgress /\ suite' = suite
      /\ interrupted' = interrupted
      /\ group \in [suite.RepeatGroups -> GroupState]
  BY EndsLive DEF Ends, IInv, TypeOK
<1>2. g \in suite.RepeatGroups /\ t \in g
  BY <1>1, GroupNearlyOver
<1>3. g \cap Live = {t}
  BY <1>1, <1>2
<1>4. group[g].Unfinished = 1
  <2>1. Cardinality({t}) = 1
    BY FS_Singleton
  <2> QED BY <1>2, <1>3, <2>1 DEF GroupsExact
<1>5. PICK h \in GroupOf(t) :
        /\ ~(group[h].Unfinished = 1
              /\ GroupRepeats(h, st, stopTimePassed', NewFailed(t, st)))
        /\ group' = [group EXCEPT ![h] = GroupAfter(h, st)]
        /\ failed' = NewFailed(t, st)
  BY DEF FinishInGroup
<1>6. h = g
  BY <1>1, <1>2, GroupsDisjoint DEF GroupOf
<1>7. ~GroupRepeats(g, st, stopTimePassed', failed')
  BY <1>4, <1>5, <1>6
<1>8. group'[g] = GroupAfter(g, st)
  BY <1>1, <1>2, <1>5, <1>6
<1>9. ~Ending(stopTimePassed', failed')
  BY <1>1 DEF Ending, StopOnFailure
<1>10. RepeatCondition(group'[g].AllCompleted, group'[g].AnyTimedOut)
  BY DEF RepeatCondition
<1> QED BY <1>7, <1>8, <1>9, <1>10 DEF GroupRepeats

LEMMA HonouredEnds ==
  ASSUME IInv, Unreported, GroupsExact(suite, Live, group),
         RepeatMode = "UntilFail", ~Ending(stopTimePassed, failed)',
         NEW t \in Tests, NEW st \in Statuses, Ends(t, st),
         NEW u \in Tests, results'[u] = <<"COMPLETED">>,
         results[u] = <<"COMPLETED">> => HadAllRuns(u)
  PROVE  HadAllRuns(u)'
<1>1. /\ suite \in Suites /\ t \in Live \ pending /\ t \in InProgress
      /\ (pending \cup InProgress') = Live \ {t}
      /\ suite' = suite /\ runNumber' = runNumber
      /\ group \in [suite.RepeatGroups -> GroupState]
      /\ Live' = pending' \cup InProgress'
  BY EndsLive DEF Ends, IInv, TypeOK, Live
<1>2. results \in [Tests -> Seq(Statuses)] /\ results[t] = <<>>
  BY <1>1 DEF IInv, TypeOK, Unreported
<1>3. GroupOf(u)' = GroupOf(u) /\ GroupOf(t)' = GroupOf(t)
      /\ RepeatCount' = RepeatCount /\ (RepeatsAlone(u)' <=> RepeatsAlone(u))
  BY <1>1 DEF GroupOf, RepeatCount, RepeatsAlone, RepeatMode, InGroup
<1>4. \A g \in GroupOf(u) : t \notin g => g \cap (Live \ {t}) = g \cap Live
  OBVIOUS
<1>5. CASE Requeue(t, st)
  <2>1. PICK g \in GroupOf(t) :
          NextRepetition(g) /\ DropRepetition(g) /\ pending' = pending \cup g
    BY <1>5 DEF Requeue
  <2>2. g \in suite.RepeatGroups /\ t \in g
    BY <1>1, GroupNearlyOver
  <2>3. u \notin g /\ results[u] = <<"COMPLETED">>
    BY <2>1 DEF DropRepetition
  <2>4. \A h \in GroupOf(u) : h # g /\ h \in suite.RepeatGroups /\ h \cap g = {}
    BY <1>1, <2>2, <2>3, GroupsDisjoint DEF GroupOf
  <2>5. \A h \in GroupOf(u) : group'[h] = group[h]
    BY <1>1, <2>1, <2>2, <2>4 DEF NextRepetition
  <2>6. Live' = Live \cup g
    BY <1>1, <2>1, <2>2
  <2>7. \A h \in GroupOf(u) : h \cap Live' = h \cap Live
    BY <2>4, <2>6
  <2> QED BY <1>1, <2>3, <2>5, <2>7, HadStays
<1>6. CASE FinishAlone(t, st) \/ FinishInGroup(t, st)
  <2>1. pending' = pending /\ results' = NewResults(t, st)
    BY <1>6 DEF FinishAlone, FinishInGroup
  <2>2. Live' = Live \ {t}
    BY <1>1, <2>1
  <2>3. \A g \in GroupOf(u) : t \notin g => group'[g] = group[g]
    BY <1>1, <1>6 DEF FinishAlone, FinishInGroup, GroupOf
  <2>4. RepeatsAlone(u) => runNumber[u] = RepeatCount
    <3>1. CASE u # t
      <4>1. results'[u] = results[u]
        BY <1>2, <2>1, <3>1 DEF NewResults
      <4> QED BY <4>1 DEF HadAllRuns
    <3>2. CASE u = t
      <4>1. ~NeedsToRepeat(t, st) /\ st = "COMPLETED"
        BY <1>2, <2>1, <3>2, SMTT(30) DEF NewResults
      <4> QED BY <3>2, <4>1 DEF NeedsToRepeat, RunsLeft, RepeatCondition
    <3> QED BY <3>1, <3>2
  <2>5. ASSUME NEW g \in GroupOf(u), g \cap Live' = {}, group'[g].AllCompleted
        PROVE  group'[g].RepetitionsLeft = 0
    <3>1. CASE t \in g
      <4>1. g \in GroupOf(t) /\ InGroup(t)
        BY <3>1 DEF GroupOf, InGroup
      <4>2. FinishInGroup(t, st)
        BY <1>6, <4>1 DEF FinishAlone
      <4> QED BY <2>2, <2>5, <4>1, <4>2, GroupHadAll
    <3>2. CASE t \notin g
      <4>1. u # t
        BY <3>2 DEF GroupOf
      <4>2. results'[u] = results[u]
        BY <1>2, <2>1, <4>1 DEF NewResults
      <4> QED BY <1>4, <2>2, <2>3, <2>5, <3>2, <4>2 DEF HadAllRuns
    <3> QED BY <3>1, <3>2
  <2> QED BY <1>1, <1>3, <2>4, <2>5 DEF HadAllRuns
<1> QED BY <1>5, <1>6 DEF Ends

LEMMA HonouredStep ==
  ASSUME IInv, Unreported, ~interrupted => GroupsExact(suite, Live, group),
         RepeatHonoured, RunStep
  PROVE  RepeatHonoured'
<1>1. suite' = suite /\ Onward
  BY DEF RunStep, Quiet, Returns, Starts, Cancels, Ends, Kept
<1>2. Tests' = Tests /\ RepeatMode' = RepeatMode
  BY <1>1 DEF Tests, RepeatMode
<1> SUFFICES ASSUME RepeatMode = "UntilFail", ~Ending(stopTimePassed, failed)',
                    NEW u \in Tests, results'[u] = <<"COMPLETED">>
             PROVE  HadAllRuns(u)'
  BY <1>2 DEF RepeatHonoured, HadAllRuns, Live
<1>3. ~Ending(stopTimePassed, failed)
  BY EndingStays
<1>4. results[u] = <<"COMPLETED">> => HadAllRuns(u)
  BY <1>3 DEF RepeatHonoured, HadAllRuns, Live
<1>5. ~interrupted /\ GroupsExact(suite, Live, group)
  BY <1>3 DEF Ending
<1>6. CASE Quiet \/ Returns \/ \E t \in Tests : Starts(t)
  <2>1. results' = results /\ group' = group
    BY <1>6 DEF Quiet, Returns, Starts, Kept
  <2>2. Live' = Live
    BY <1>6 DEF Quiet, Returns, Starts, Live
  <2>3. u \notin InProgress
    BY <2>1, SMTT(30) DEF Unreported, Live
  <2>4. runNumber'[u] = runNumber[u]
    BY <1>1, <2>3 DEF Onward
  <2> QED BY <1>1, <1>4, <2>1, <2>2, <2>4, HadStays
<1>7. ASSUME NEW t \in Tests, NEW st \in Statuses, Ends(t, st)
      PROVE  HadAllRuns(u)'
  BY <1>4, <1>5, <1>7, HonouredEnds
<1>8. \A t \in Tests : ~Cancels(t)
  BY <1>5 DEF Cancels
<1> QED BY <1>6, <1>7, <1>8 DEF RunStep

-----------------------------------------------------------------------------
(* The invariant.                                                          *)

\* Nothing is locked but by a test in progress.
NothingElseLocked(su, Q, locks) ==
  locks \subseteq UNION {Resources(su, t) : t \in Q}

LEMMA LockedStep ==
  ASSUME NothingElseLocked(suite, InProgress, locked), RunStep
  PROVE  NothingElseLocked(suite', InProgress', locked')
<1> SUFFICES suite' = suite /\ NothingElseLocked(suite, InProgress', locked')
  OBVIOUS
<1>1. suite' = suite
  BY DEF RunStep, Quiet, Returns, Starts, Cancels, Ends, Kept
<1>2. CASE Quiet \/ Returns
  <2>1. InProgress' = InProgress /\ locked' = locked
    BY <1>2 DEF Quiet, Returns
  <2> QED BY <1>1, <2>1
<1>3. ASSUME NEW t \in Tests, Starts(t)
      PROVE  NothingElseLocked(suite, InProgress', locked')
  BY <1>3 DEF Starts, NothingElseLocked
<1>4. ASSUME NEW t \in Tests, NEW st, Cancels(t) \/ Ends(t, st)
      PROVE  NothingElseLocked(suite, InProgress', locked')
  BY <1>4 DEF Cancels, Ends, NothingElseLocked
<1> QED BY <1>1, <1>2, <1>3, <1>4 DEF RunStep

\* What is true of the tests throughout a run.
OInv ==
  /\ Waits(suite, pending, Live, depends)
  /\ CheckpointSound
  /\ Whole(suite, checkpoint)
  /\ Unreported
  /\ ~Withheld => ResultsRecorded
  /\ ~interrupted => GroupsExact(suite, Live, group)
  /\ RepeatHonoured
  /\ NothingElseLocked(suite, InProgress, locked)

LEMMA OInvStep ==
  ASSUME IInv, OInv, RunStep
  PROVE  OInv'
<1>1. Waits(suite', pending', Live', depends')
  BY WaitsStep DEF OInv
<1>2. CheckpointSound' /\ Whole(suite', checkpoint')
  BY CheckpointStep DEF OInv
<1>3. Unreported' /\ (~Withheld' => ResultsRecorded')
  BY UnreportedStep, RecordedStep DEF OInv
<1>4. ~interrupted' => GroupsExact(suite', Live', group')
  BY ExactStep DEF OInv
<1>5. RepeatHonoured'
  BY HonouredStep DEF OInv
<1>6. NothingElseLocked(suite', InProgress', locked')
  BY LockedStep DEF OInv
<1> QED BY <1>1, <1>2, <1>3, <1>4, <1>5, <1>6 DEF OInv

\* Before the first run there is nothing to say.
LEMMA OInvInit ==
  ASSUME Init
  PROVE  OInv
<1>1. Entries(<<>>) = {}
  BY SMTT(30) DEF Entries
<1>2. /\ InProgress = {} /\ Live = {} /\ passed = {} /\ failed = {}
      /\ checkpoint = {} /\ pending = {} /\ locked = {}
      /\ \A t \in Tests : results[t] = <<>>
  BY <1>1 DEF Init, InProgress, Live
<1>3. Waits(suite, pending, Live, depends)
  BY <1>2 DEF Waits
<1>4. CheckpointSound /\ Whole(suite, checkpoint)
  BY <1>2 DEF CheckpointSound, Whole
<1>5. Unreported /\ ResultsRecorded
  BY <1>2 DEF Unreported, ResultsRecorded
<1>6. GroupsExact(suite, Live, group)
  BY <1>2 DEF GroupsExact
<1>7. RepeatHonoured
  BY <1>2, SMTT(30) DEF RepeatHonoured
<1>8. NothingElseLocked(suite, InProgress, locked)
  BY <1>2 DEF NothingElseLocked
<1> QED BY <1>3, <1>4, <1>5, <1>6, <1>7, <1>8 DEF OInv

\* A run begins without results, and with the tests that no checkpoint names.
LEMMA OInvResume ==
  ASSUME IInv, OInv, Resume
  PROVE  OInv'
<1>1. /\ suite' = suite /\ suite \in Suites /\ suite \in Suite(Tests)
      /\ checkpoint' = checkpoint \/ checkpoint' = {}
  BY SuiteFacts DEF Resume, IInv, TypeOK, Tests
<1>2. /\ pending' = Tests \ checkpoint'
      /\ depends' = [t \in Tests |-> Props(t).Depends]
      /\ queued' = <<>> /\ running' = {} /\ lost' = {} /\ starting' = {}
      /\ group' = [g \in suite.RepeatGroups |->
                     [RepetitionsLeft |-> RepeatCount - 1,
                      Unfinished |-> Cardinality(g),
                      AllCompleted |-> TRUE, AnyTimedOut |-> FALSE]]
      /\ passed' = {} /\ failed' = {} /\ locked' = {}
      /\ results' = [t \in Tests |-> <<>>]
  BY DEF Resume, Begin, RemoveTest
<1>3. Entries(<<>>) = {}
  BY SMTT(30) DEF Entries
<1>4. InProgress' = {}
  BY <1>2, <1>3 DEF InProgress
<1>5. Live' = Tests \ checkpoint'
  BY <1>2, <1>4 DEF Live
<1>6. Whole(suite, checkpoint')
  BY <1>1 DEF OInv, Whole
<1>7. \A g \in suite.RepeatGroups :
        g \subseteq Tests /\ (g \cap Live' = {} \/ g \subseteq Live')
  <2>1. \A g \in suite.RepeatGroups : g \subseteq Tests
    BY <1>1 DEF Suite
  <2> QED BY <1>5, <1>6, <2>1 DEF Whole
<1>8. Waits(suite', pending', Live', depends')
  <2>1. \A u \in Live' : depends'[u] = Needs(suite, u)
    BY <1>2, <1>5 DEF Needs, Props
  <2>2. Waits(suite, Live', Live', depends')
    BY <1>7, <2>1, WaitsBegin
  <2> QED BY <1>1, <1>2, <1>5, <2>2
<1>9. CheckpointSound' /\ Whole(suite', checkpoint')
  <2>1. CheckpointSound'
    BY <1>2, <1>4 DEF CheckpointSound
  <2> QED BY <1>1, <1>6, <2>1
<1>10. Unreported' /\ ResultsRecorded'
  BY <1>2, <1>5 DEF Unreported, ResultsRecorded
<1>11. GroupsExact(suite', Live', group')
  <2> SUFFICES ASSUME NEW g \in suite.RepeatGroups, g \cap Live' # {}
               PROVE  Cardinality(g \cap Live') = group'[g].Unfinished
    BY <1>1 DEF GroupsExact
  <2>1. g \cap Live' = g
    BY <1>7
  <2>2. group'[g].Unfinished = Cardinality(g)
    BY <1>2
  <2> QED BY <2>1, <2>2
<1>12. RepeatHonoured'
  <2>1. Tests' = Tests
    BY <1>1 DEF Tests
  <2>2. \A t \in Tests : results'[t] # <<"COMPLETED">>
    BY <1>2
  <2> QED BY <2>1, <2>2 DEF RepeatHonoured
<1>13. NothingElseLocked(suite', InProgress', locked')
  BY <1>2 DEF NothingElseLocked
<1> QED BY <1>8, <1>9, <1>10, <1>11, <1>12, <1>13 DEF OInv

\* Nothing runs and nothing is queued outside RunTests.
AtRest ==
  pc \in {"off", "done"} => running = {} /\ queued = <<>> /\ starting = {}

LEMMA AtRestStep ==
  ASSUME AtRest, [Next]_vars
  PROVE  AtRest'
<1>1. CASE UNCHANGED vars
  BY <1>1 DEF vars, sched, control, AtRest
<1>2. CASE Resume
  <2>1. pc' = "loop"
    BY <1>2 DEF Resume, Begin
  <2> QED BY <2>1 DEF AtRest
<1>3. CASE RunTestsReturns
  <2>1. /\ running = {} /\ queued = <<>> /\ starting = {}
        /\ UNCHANGED <<sched, starting>>
    BY <1>3 DEF RunTestsReturns, FinalizeLoop, InLoop
  <2> QED BY <2>1 DEF AtRest, sched
<1>4. CASE TestStarts \/ TestNotStarted
  <2>1. starting # {} /\ pc' = pc
    BY <1>4 DEF TestStarts, TestNotStarted, FinishTestProcess
  <2> QED BY <2>1 DEF AtRest
<1>5. CASE StartNextTests \/ ScanStarts \/ ScanSkips \/ ScanEnds \/ Interrupt
           \/ JobServerReceivedToken
  <2>1. pc' \notin {"off", "done"}
    BY <1>5 DEF StartNextTests, ScanStarts, ScanSkips, ScanEnds, Interrupt,
                JobServerReceivedToken, InLoop, InScan
  <2> QED BY <2>1 DEF AtRest
<1>6. ASSUME NEW t \in running, TestEnds(t) PROVE AtRest'
  <2>1. pc = "loop" /\ pc' = pc
    BY <1>6 DEF TestEnds, ProcessEnds, ProcessRunsAgain,
                            FinishTestProcess, InLoop
  <2> QED BY <2>1 DEF AtRest
<1> QED BY <1>1, <1>2, <1>3, <1>4, <1>5, <1>6
        DEF Next, Crash, RunTests

LEMMA OutcomeInit == Init => IInv /\ OInv /\ AtRest
<1> SUFFICES ASSUME Init PROVE IInv /\ OInv /\ AtRest
  OBVIOUS
<1>1. AtRest
  BY DEF Init, AtRest
<1> QED BY <1>1, InitInv, OInvInit

LEMMA OutcomeInductive ==
  IInv /\ OInv /\ AtRest /\ [Next]_vars => IInv' /\ OInv' /\ AtRest'
<1> SUFFICES ASSUME IInv, OInv, AtRest, [Next]_vars
             PROVE  IInv' /\ OInv' /\ AtRest'
  OBVIOUS
<1>1. OInv'
  BY StepKinds, OInvStep, OInvResume
<1> QED BY <1>1, IInvInductive, AtRestStep

\* The invariant implies the properties.
LEMMA OutcomeImplies ==
  ASSUME IInv, OInv, AtRest
  PROVE  /\ DependenciesFirst
         /\ CheckpointSound
         /\ RepeatHonoured
         /\ ~Withheld => ResultsRecorded
         /\ lost = {} => AllResourcesAvailable
<1>1. DependenciesFirst
  <2> SUFFICES ASSUME NEW t \in InProgress
               PROVE  Props(t).Depends \cap Live = {}
    BY DEF DependenciesFirst, Live
  <2>1. t \in Live \ pending
    BY DEF IInv, Placement, Live
  <2>2. Needs(suite, t) \cap Hot(suite, Live, t) = {}
    BY <2>1 DEF OInv, Waits
  <2>3. Live \subseteq Hot(suite, Live, t)
    BY DEF Hot
  <2> QED BY <2>2, <2>3 DEF Needs, Props
<1>2. ASSUME lost = {}, pc = "done"
      PROVE  runningCount = 0 /\ locked = {} /\ ~serialRunning
  <2>1. Entries(<<>>) = {}
    BY SMTT(30) DEF Entries
  <2>2. InProgress = {}
    BY <1>2, <2>1 DEF AtRest, InProgress
  <2>3. Books(suite, {}, runningCount, serialRunning, locked) /\ suite \in Suites
    BY <2>2 DEF IInv, TypeOK
  <2>4. SlotsIn(suite, {}) = {}
    BY DEF SlotsIn
  <2>5. runningCount = 0
    BY <2>3, <2>4, FS_EmptySet DEF Books
  <2>6. ~serialRunning
    BY <2>3 DEF Books
  <2>7. locked = {}
    BY <2>2 DEF OInv, NothingElseLocked
  <2> QED BY <2>5, <2>6, <2>7
<1> QED BY <1>1, <1>2 DEF OInv, AllResourcesAvailable

-----------------------------------------------------------------------------
(* Theorems.                                                               *)

\* No test starts before all tests it depends on are over, with every
\* repetition of their groups, whatever was interrupted, cancelled, killed or
\* resumed before.
THEOREM DependenciesAlwaysFirst == Spec => []DependenciesFirst
<1>1. IInv /\ OInv /\ AtRest => DependenciesFirst
  BY OutcomeImplies
<1> QED BY <1>1, OutcomeInit, OutcomeInductive, PTL DEF Spec

\* CTestCheckpoint.txt never names a test that still waits or runs, and so -F
\* never skips one that was cut short.
THEOREM CheckpointAlwaysSound == Spec => []CheckpointSound
<1>1. IInv /\ OInv /\ AtRest => CheckpointSound
  BY OutcomeImplies
<1> QED BY <1>1, OutcomeInit, OutcomeInductive, PTL DEF Spec

\* A test that --repeat until-fail reports as passed had all its runs, alone
\* or with its group, unless the run was cut short.
THEOREM RepeatAlwaysHonoured == Spec => []RepeatHonoured
<1>1. IInv /\ OInv /\ AtRest => RepeatHonoured
  BY OutcomeImplies
<1> QED BY <1>1, OutcomeInit, OutcomeInductive, PTL DEF Spec

\* Every test reported as passed or failed has one result, which agrees with
\* the report; but with --repeat a result can be withheld for a repetition
\* that the stop time, an interrupt or a failing spawn prevents.
THEOREM ResultsAlwaysRecorded == Spec => [](~Withheld => ResultsRecorded)
<1>1. IInv /\ OInv /\ AtRest => (~Withheld => ResultsRecorded)
  BY OutcomeImplies
<1> QED BY <1>1, OutcomeInit, OutcomeInductive, PTL DEF Spec

\* RunTests returns with nothing locked and nothing counted, unless a test
\* was lost because its repetition could not be started.
THEOREM ResourcesAllGivenBack == Spec => [](lost = {} => AllResourcesAvailable)
<1>1. IInv /\ OInv /\ AtRest => (lost = {} => AllResourcesAvailable)
  BY OutcomeImplies
<1> QED BY <1>1, OutcomeInit, OutcomeInductive, PTL DEF Spec

\* A test that has been reported does not run again in the same run of ctest,
\* unless the report is taken back because its group repeats.
THEOREM NeverRunsTwice == Spec => NeverTwice
<1>1. OInv' => (\A t \in passed \cup failed :
                  session' = session /\ t \in passed' \cup failed'
                    => t \notin running')
  BY DEF OInv, Unreported, Live, InProgress
<1> QED BY <1>1, OutcomeInit, OutcomeInductive, PTL DEF Spec, NeverTwice

\* After an interrupt no test is chosen or queued, and only the launch that
\* is under way is completed.
THEOREM InterruptAlwaysStops == Spec => InterruptStops
<1>1. ASSUME IInv, [Next]_vars, interrupted, session' = session
      PROVE  /\ pending \subseteq pending'
             /\ running' \subseteq running \cup starting
             /\ starting' \subseteq starting
  <2>1. CASE UNCHANGED vars
    BY <2>1 DEF vars, sched, control
  <2>2. CASE Resume
    <3>1. session' = session + 1 /\ session \in Nat
      BY <1>1, <2>2 DEF Resume, IInv, TypeOK
    <3> QED BY <1>1, <3>1, SMTT(30)
  <2>3. CASE StartNextTests \/ ScanSkips \/ ScanEnds \/ RunTestsReturns
    BY <2>3 DEF StartNextTests, ScanSkips, ScanEnds,
                            RunTestsReturns, FinalizeLoop, sched
  <2>4. CASE TestStarts
    BY <2>4 DEF TestStarts
  <2>5. ~ScanStarts /\ ~Interrupt
    BY <1>1 DEF ScanStarts, MoreToScan, Interrupt
  <2>6. CASE JobServerReceivedToken
    BY <1>1, <2>6 DEF JobServerReceivedToken
  <2>7. ASSUME NEW t, NEW st, FinishTestProcess(t, st), starting' \subseteq starting
        PROVE  pending \subseteq pending' /\ running' \subseteq running
    BY <2>7 DEF FinishTestProcess, FinishAlone, FinishInGroup, Requeue
  <2>8. CASE TestNotStarted
    BY <2>7, <2>8 DEF TestNotStarted
  <2>9. ASSUME NEW t \in running, TestEnds(t)
        PROVE  /\ pending \subseteq pending' /\ running' \subseteq running
               /\ starting' \subseteq starting
    BY <1>1, <2>7, <2>9 DEF TestEnds, ProcessEnds, ProcessRunsAgain
  <2> QED BY <1>1, <2>1, <2>2, <2>3, <2>4, <2>5, <2>6, <2>8, <2>9
          DEF Next, Crash, RunTests
<1> QED BY <1>1, OutcomeInit, OutcomeInductive, PTL DEF Spec, InterruptStops

-----------------------------------------------------------------------------
(* No test is forgotten.                                                   *)

\* Among any tests that are left, one has nothing to wait for: no cycle of
\* dependencies, nor one that leads out of a repeat group and back into it.
Startable(su) ==
  \A S \in SUBSET (DOMAIN su.Properties) :
    S # {} => \E u \in S : Needs(su, u) \cap Hot(su, S, u) = {}

\* A run that skips what the checkpoint names does not take it out of the
\* Depends of the other tests.
Resumed == suite.Failover /\ session > 1
Sensible ==
  /\ Startable(suite)
  /\ Resumed => \A u \in Tests : Needs(suite, u) = {}

\* Nobody waits for what is over.
WaitsForLive(su, P, L, dep) ==
  \A u \in P : dep[u] \subseteq Needs(su, u) \cap Hot(su, L, u)

Due == Sensible /\ ~interrupted => WaitsForLive(suite, pending, Live, depends)

\* Every test that waits is in OrderedTests.
Listed == pending \subseteq Entries(ordered)

\* Every test is counted, or not over.
Tally ==
  ~interrupted /\ session > 0 =>
    completed + Cardinality(Live) = Cardinality(Tests)

\* StartNextTests, when nothing is in progress, will meet a test it can
\* start, or else leave the timer on.
Meets ==
  /\ scan.allTestsFailedTestLoadCheck <=> TestLoad > 0
  /\ scan.numToStart = IF TestLoad > 0 THEN Min2(ParallelLevel, scan.spareLoad)
                       ELSE ParallelLevel
  /\ TestLoad = 0 =>
       \A t \in pending : depends[t] = {} => t \in Entries(scan.todo)

\* Nothing cuts the run short.
Undisturbed == ~interrupted /\ ~stopTimePassed /\ ~StopOnFailure

\* When nothing is in progress something is scheduled to start the rest.
Driven ==
  Undisturbed /\ Sensible /\ InProgress = {} =>
    /\ pc = "loop" /\ ~idle => timer \/ pending = {}
    /\ pc = "scan" /\ ~idle => Meets
    /\ pc = "done" => pending = {}

Unstarted == session = 0 => pc = "off" /\ checkpoint = {}

PInv == Due /\ Listed /\ Tally /\ Driven /\ Unstarted

-----------------------------------------------------------------------------
(* Nobody waits for what is over.                                          *)

\* A test that belongs to no group but g leaves the other groups as they are.
LEMMA HotWithout ==
  ASSUME NEW su, NEW L, NEW t, NEW u, NEW x \in Hot(su, L, u), x # t,
         \A h \in su.RepeatGroups : x \in h /\ u \notin h /\ t \in h =>
           h \cap (L \ {t}) # {}
  PROVE  x \in Hot(su, L \ {t}, u)
<1>1. CASE x \in L
  BY <1>1 DEF Hot
<1>2. CASE \E h \in su.RepeatGroups : x \in h /\ h \cap L # {} /\ u \notin h
  <2>1. PICK h \in su.RepeatGroups : x \in h /\ h \cap L # {} /\ u \notin h
    BY <1>2
  <2>2. h \cap (L \ {t}) # {}
    BY <2>1
  <2> QED BY <2>1, <2>2 DEF Hot
<1> QED BY <1>1, <1>2 DEF Hot

\* A test of no group is over.
LEMMA LiveAlone ==
  ASSUME NEW su, NEW P, NEW L, NEW dep, NEW dep2, NEW t,
         \A h \in su.RepeatGroups : t \notin h,
         \A u \in P : dep2[u] = dep[u] \ {t}, WaitsForLive(su, P, L, dep)
  PROVE  WaitsForLive(su, P, L \ {t}, dep2)
<1> SUFFICES ASSUME NEW u \in P, NEW x \in dep2[u]
             PROVE  x \in Needs(su, u) /\ x \in Hot(su, L \ {t}, u)
  BY DEF WaitsForLive
<1>1. x \in dep[u] /\ x # t
  OBVIOUS
<1>2. x \in Needs(su, u) /\ x \in Hot(su, L, u)
  BY <1>1 DEF WaitsForLive
<1> QED BY <1>1, <1>2, HotWithout

\* A test of group g is over, another is not.
LEMMA LiveInGroup ==
  ASSUME NEW su \in Suites, NEW P, NEW L, NEW dep, NEW dep2, NEW t,
         NEW g \in su.RepeatGroups, t \in g, g \cap (L \ {t}) # {},
         \A u \in P : dep2[u] = IF u \in g THEN dep[u] \ {t} ELSE dep[u],
         WaitsForLive(su, P, L, dep)
  PROVE  WaitsForLive(su, P, L \ {t}, dep2)
<1> SUFFICES ASSUME NEW u \in P, NEW x \in dep2[u]
             PROVE  x \in Needs(su, u) /\ x \in Hot(su, L \ {t}, u)
  BY DEF WaitsForLive
<1>1. x \in dep[u] /\ (u \in g => x # t)
  OBVIOUS
<1>2. x \in Needs(su, u) /\ x \in Hot(su, L, u)
  BY <1>1 DEF WaitsForLive
<1>3. \A h \in su.RepeatGroups : t \in h => h = g
  BY GroupsDisjoint
<1>4. CASE x = t
  <2>1. u \notin g
    BY <1>1, <1>4
  <2> QED BY <1>2, <1>4, <2>1 DEF Hot
<1>5. CASE x # t
  BY <1>2, <1>3, <1>5, HotWithout
<1> QED BY <1>4, <1>5

\* Group g is over with test t.
LEMMA LiveOver ==
  ASSUME NEW su \in Suites, NEW P, NEW L, NEW dep, NEW dep2, NEW t,
         NEW g \in su.RepeatGroups, t \in g,
         \A u \in P : dep2[u] = dep[u] \ g, WaitsForLive(su, P, L, dep)
  PROVE  WaitsForLive(su, P, L \ {t}, dep2)
<1> SUFFICES ASSUME NEW u \in P, NEW x \in dep2[u]
             PROVE  x \in Needs(su, u) /\ x \in Hot(su, L \ {t}, u)
  BY DEF WaitsForLive
<1>1. x \in dep[u] /\ x \notin g /\ x # t
  OBVIOUS
<1>2. x \in Needs(su, u) /\ x \in Hot(su, L, u)
  BY <1>1 DEF WaitsForLive
<1>3. \A h \in su.RepeatGroups : t \in h => h = g
  BY GroupsDisjoint
<1>4. \A h \in su.RepeatGroups : x \in h /\ u \notin h /\ t \in h =>
        h \cap (L \ {t}) # {}
  BY <1>1, <1>3
<1> QED BY <1>1, <1>2, <1>4, HotWithout

\* Group g starts again.
LEMMA LiveRequeue ==
  ASSUME NEW su, NEW P, NEW L, NEW dep, NEW dep2, NEW g,
         \A u \in g : dep2[u] = Needs(su, u) \cap g,
         \A u \in P : dep2[u] = dep[u], WaitsForLive(su, P, L, dep)
  PROVE  WaitsForLive(su, P \cup g, L \cup g, dep2)
<1>1. \A u : Hot(su, L, u) \subseteq Hot(su, L \cup g, u)
  BY DEF Hot
<1>2. \A u : g \subseteq Hot(su, L \cup g, u)
  BY DEF Hot
<1> SUFFICES ASSUME NEW u \in P \cup g, NEW x \in dep2[u]
             PROVE  x \in Needs(su, u) /\ x \in Hot(su, L \cup g, u)
  BY DEF WaitsForLive
<1>3. CASE u \in g
  <2>1. x \in Needs(su, u) /\ x \in g
    BY <1>3
  <2> QED BY <1>2, <2>1
<1>4. CASE u \in P
  <2>1. x \in Needs(su, u) /\ x \in Hot(su, L, u)
    BY <1>4 DEF WaitsForLive
  <2> QED BY <1>1, <2>1
<1> QED BY <1>3, <1>4

\* A group that does not end with test t has another test that is not over.
LEMMA GroupGoesOn ==
  ASSUME IInv, GroupsExact(suite, Live, group), NEW t \in InProgress,
         NEW g \in GroupOf(t), group[g].Unfinished # 1
  PROVE  g \cap (Live \ {t}) # {}
<1>1. g \in suite.RepeatGroups /\ t \in g /\ t \in Live
  BY GroupNearlyOver DEF Live
<1> SUFFICES ASSUME g \cap (Live \ {t}) = {} PROVE FALSE
  OBVIOUS
<1>2. g \cap Live = {t}
  BY <1>1
<1>3. Cardinality({t}) = 1
  BY FS_Singleton
<1>4. Cardinality(g \cap Live) = group[g].Unfinished
  BY <1>1, <1>2 DEF GroupsExact
<1>5. group[g].Unfinished = 1
  BY <1>2, <1>3, <1>4
<1> QED BY <1>5

LEMMA DueEnds ==
  ASSUME IInv, GroupsExact(suite, Live, group),
         WaitsForLive(suite, pending, Live, depends),
         NEW t \in Tests, NEW st \in Statuses, Ends(t, st)
  PROVE  WaitsForLive(suite, pending', pending' \cup InProgress', depends')
<1>1. /\ suite \in Suites /\ t \in Live \ pending /\ t \in InProgress
      /\ (pending \cup InProgress') = Live \ {t} /\ pending \subseteq Tests
  BY EndsLive DEF Ends, IInv, TypeOK
<1>2. CASE FinishAlone(t, st)
  <2>1. \A h \in suite.RepeatGroups : t \notin h
    BY <1>2 DEF FinishAlone, InGroup, GroupOf
  <2>2. pending' = pending /\ \A u \in pending : depends'[u] = depends[u] \ {t}
    BY <1>1, <1>2 DEF FinishAlone, Release
  <2>3. WaitsForLive(suite, pending, Live \ {t}, depends')
    BY <2>1, <2>2, LiveAlone
  <2> QED BY <1>1, <2>2, <2>3
<1>3. CASE FinishInGroup(t, st)
  <2>1. PICK g \in GroupOf(t) :
          /\ depends' = IF group[g].Unfinished = 1 THEN Release(Tests, g)
                        ELSE ReleasedBy(g, t)
          /\ pending' = pending
    BY <1>3 DEF FinishInGroup
  <2>2. g \in suite.RepeatGroups /\ t \in g
    BY <1>1, GroupNearlyOver
  <2>3. WaitsForLive(suite, pending, Live \ {t}, depends')
    <3>1. CASE group[g].Unfinished = 1
      <4>1. \A u \in pending : depends'[u] = depends[u] \ g
        BY <1>1, <2>1, <3>1 DEF Release
      <4> QED BY <1>1, <2>2, <4>1, LiveOver
    <3>2. CASE group[g].Unfinished # 1
      <4>1. \A u \in pending :
              depends'[u] = IF u \in g THEN depends[u] \ {t} ELSE depends[u]
        BY <1>1, <2>1, <3>2 DEF ReleasedBy, Release
      <4>2. g \cap (Live \ {t}) # {}
        BY <1>1, <3>2, GroupGoesOn
      <4> QED BY <1>1, <2>2, <4>1, <4>2, LiveInGroup
    <3> QED BY <3>1, <3>2
  <2> QED BY <1>1, <2>1, <2>3
<1>4. CASE Requeue(t, st)
  <2>1. PICK g \in GroupOf(t) :
          /\ group[g].Unfinished = 1
          /\ pending' = pending \cup g
          /\ depends' = [u \in Tests |-> IF u \in g THEN Props(u).Depends \cap g
                                         ELSE depends[u]]
    BY <1>4 DEF Requeue
  <2>2. t \in g /\ g \subseteq Tests /\ g \cap Live = {t}
    BY <1>1, <2>1, GroupNearlyOver
  <2>3. /\ \A u \in g : depends'[u] = Needs(suite, u) \cap g
        /\ \A u \in pending : depends'[u] = depends[u]
    <3>1. \A u \in pending : u \notin g
      BY <1>1, <2>2 DEF Live
    <3> QED BY <1>1, <2>1, <2>2, <3>1 DEF Needs, Props
  <2>4. pending' \cup InProgress' = Live \cup g
    BY <1>1, <2>1, <2>2
  <2>5. WaitsForLive(suite, pending \cup g, Live \cup g, depends')
    BY <2>3, LiveRequeue
  <2> QED BY <2>1, <2>4, <2>5
<1> QED BY <1>2, <1>3, <1>4 DEF Ends

LEMMA DueStep ==
  ASSUME IInv, OInv, Due, RunStep
  PROVE  Due'
<1> SUFFICES ASSUME Sensible', ~interrupted'
             PROVE  WaitsForLive(suite', pending', Live', depends')
  BY DEF Due
<1>1. suite' = suite /\ session' = session /\ ~interrupted
  BY DEF RunStep, Onward, Quiet, Returns, Starts, Cancels, Ends, Kept
<1>2. Sensible
  BY <1>1 DEF Sensible, Resumed, Tests
<1>3. /\ WaitsForLive(suite, pending, Live, depends)
      /\ GroupsExact(suite, Live, group)
  BY <1>1, <1>2 DEF Due, OInv
<1>4. CASE Quiet \/ Returns \/ \E t \in Tests : Starts(t)
  <2>1. Live' = Live /\ pending' \subseteq pending
    BY <1>4 DEF Quiet, Returns, Starts, Live
  <2>2. depends' = depends
    BY <1>4 DEF Quiet, Returns, Starts, Kept
  <2> QED BY <1>1, <1>3, <2>1, <2>2 DEF WaitsForLive
<1>5. ASSUME NEW t \in Tests, NEW st \in Statuses, Ends(t, st)
      PROVE  WaitsForLive(suite', pending', Live', depends')
  <2>1. WaitsForLive(suite, pending', pending' \cup InProgress', depends')
    BY <1>3, <1>5, DueEnds
  <2> QED BY <1>1, <2>1 DEF Live
<1>6. \A t \in Tests : ~Cancels(t)
  BY <1>1 DEF Cancels
<1> QED BY <1>4, <1>5, <1>6 DEF RunStep

-----------------------------------------------------------------------------
(* Every test is counted.                                                  *)

\* The tests that are not over are finitely many.
LEMMA LiveFinite ==
  ASSUME IInv
  PROVE  /\ suite \in Suites /\ Live \subseteq Tests
         /\ IsFiniteSet(Tests) /\ IsFiniteSet(Live)
         /\ Cardinality(Live) \in Nat /\ Cardinality(Tests) \in Nat
<1>1. suite \in Suites /\ Live \subseteq Tests
  BY SMTT(30) DEF IInv, TypeOK, Live, InProgress, Entries
<1>2. IsFiniteSet(Tests)
  BY <1>1, SuiteFacts DEF Tests
<1>3. IsFiniteSet(Live)
  BY <1>1, <1>2, FS_Subset
<1> QED BY <1>1, <1>2, <1>3, FS_CardinalityType

\* A group that starts again adds all its tests but the one that ended it.
LEMMA CountRequeued ==
  ASSUME NEW L, IsFiniteSet(L), NEW g, IsFiniteSet(g), NEW t, g \cap L = {t}
  PROVE  Cardinality(L \cup g) = Cardinality(L) + Cardinality(g) - 1
<1>1. Cardinality(L \cup g) =
        Cardinality(L) + Cardinality(g) - Cardinality(L \cap g)
  BY FS_Union
<1>2. L \cap g = {t}
  OBVIOUS
<1>3. Cardinality({t}) = 1
  BY FS_Singleton
<1> QED BY <1>1, <1>2, <1>3

LEMMA TallyEnds ==
  ASSUME IInv, completed + Cardinality(Live) = Cardinality(Tests),
         NEW t \in Tests, NEW st \in Statuses, Ends(t, st)
  PROVE  completed' + Cardinality(pending' \cup InProgress') = Cardinality(Tests)
<1>1. /\ suite \in Suites /\ t \in Live \ pending /\ t \in InProgress
      /\ (pending \cup InProgress') = Live \ {t}
  BY EndsLive DEF Ends
<1>2. /\ IsFiniteSet(Live) /\ Cardinality(Live) \in Nat
      /\ Cardinality(Tests) \in Nat /\ completed \in Int
  BY LiveFinite DEF IInv, TypeOK
<1>3. CASE FinishAlone(t, st) \/ FinishInGroup(t, st)
  <2>1. completed' = completed + 1 /\ pending' = pending
    BY <1>3 DEF FinishAlone, FinishInGroup
  <2>2. Cardinality(Live \ {t}) = Cardinality(Live) - 1
    BY <1>1, <1>2, FS_RemoveElement
  <2>3. Cardinality(pending' \cup InProgress') = Cardinality(Live) - 1
    BY <1>1, <2>1, <2>2
  <2> QED BY <1>2, <2>1, <2>3, SMTT(30)
<1>4. CASE Requeue(t, st)
  <2>1. PICK g \in GroupOf(t) :
          /\ group[g].Unfinished = 1 /\ pending' = pending \cup g
          /\ completed' = completed + 1 - Cardinality(g)
    BY <1>4 DEF Requeue, DropRepetition
  <2>2. g \in suite.RepeatGroups /\ g \cap Live = {t}
    BY <1>1, <2>1, GroupNearlyOver
  <2>3. IsFiniteSet(g) /\ Cardinality(g) \in Nat
    BY <1>1, <2>2, GroupFinite
  <2>4. pending' \cup InProgress' = Live \cup g
    BY <1>1, <2>1, <2>2
  <2>5. Cardinality(Live \cup g) = Cardinality(Live) + Cardinality(g) - 1
    BY <1>2, <2>2, <2>3, CountRequeued
  <2>6. Cardinality(pending' \cup InProgress') =
          Cardinality(Live) + Cardinality(g) - 1
    BY <2>4, <2>5
  <2> QED BY <1>2, <2>1, <2>3, <2>6, SMTT(30)
<1> QED BY <1>3, <1>4 DEF Ends

LEMMA TallyStep ==
  ASSUME IInv, Tally, RunStep
  PROVE  Tally'
<1>1. /\ suite' = suite /\ session' = session
      /\ interrupted => interrupted'
  BY DEF RunStep, Onward, Quiet, Returns, Starts, Cancels, Ends, Kept
<1>2. Tests' = Tests
  BY <1>1 DEF Tests
<1> SUFFICES ASSUME ~interrupted, session > 0
             PROVE  completed' + Cardinality(Live') = Cardinality(Tests)
  BY <1>1, <1>2 DEF Tally
<1>3. completed + Cardinality(Live) = Cardinality(Tests)
  BY DEF Tally
<1>4. CASE Quiet \/ Returns \/ \E t \in Tests : Starts(t)
  <2>1. Live' = Live
    BY <1>4 DEF Quiet, Returns, Starts, Live
  <2>2. completed' = completed
    BY <1>4 DEF Quiet, Returns, Starts, Kept
  <2> QED BY <1>3, <2>1, <2>2
<1>5. ASSUME NEW t \in Tests, NEW st \in Statuses, Ends(t, st)
      PROVE  completed' + Cardinality(Live') = Cardinality(Tests)
  BY <1>3, <1>5, TallyEnds DEF Live
<1>6. \A t \in Tests : ~Cancels(t)
  BY DEF Cancels
<1> QED BY <1>4, <1>5, <1>6 DEF RunStep

-----------------------------------------------------------------------------
(* Every test that waits is listed.                                        *)

\* A list of as many different tests as there are has them all.
LEMMA AllListed ==
  ASSUME NEW R, IsFiniteSet(R), NEW s \in [1 .. Cardinality(R) -> R], Distinct(s)
  PROVE  R \subseteq Entries(s)
<1> DEFINE n == Cardinality(R)
<1> SUFFICES ASSUME NEW r \in R, r \notin Entries(s) PROVE FALSE
  OBVIOUS
<1>1. n \in Nat /\ IsFiniteSet(1 .. n) /\ Cardinality(1 .. n) = n
  <2>1. n \in Nat
    BY FS_CardinalityType
  <2>2. 1 \in Int /\ n \in Int
    BY <2>1, SMTT(30)
  <2> QED BY <2>1, <2>2, FS_Interval, SMTT(30)
<1>2. IsFiniteSet(R \ {r}) /\ Cardinality(R \ {r}) = n - 1
  BY FS_RemoveElement
<1>3. s \in [1 .. n -> R \ {r}]
  BY DEF Entries
<1> HIDE DEF n
<1>4. Cardinality(R \ {r}) < Cardinality(1 .. n)
  BY <1>1, <1>2, SMTT(30)
<1>5. \E x, y \in 1 .. n : x # y /\ s[x] = s[y]
  BY <1>1, <1>2, <1>3, <1>4, FS_PigeonHole
<1>6. DOMAIN s = 1 .. n
  BY <1>3
<1> QED BY <1>5, <1>6 DEF Distinct

LEMMA ListedFinish ==
  ASSUME IInv, Listed, NEW t \in InProgress, NEW st,
         FinishAlone(t, st) \/ FinishInGroup(t, st) \/ Requeue(t, st)
  PROVE  Listed'
<1>1. CASE FinishAlone(t, st) \/ FinishInGroup(t, st)
  <2>1. pending' = pending /\ ordered' = ordered
    BY <1>1 DEF FinishAlone, FinishInGroup
  <2> QED BY <2>1 DEF Listed
<1>2. CASE Requeue(t, st)
  <2>1. PICK g \in GroupOf(t) :
          /\ group[g].Unfinished = 1 /\ pending' = pending \cup g
          /\ \E s \in ByIndex(g) : ordered' = ordered \o s
    BY <1>2 DEF Requeue
  <2>2. PICK s \in ByIndex(g) : ordered' = ordered \o s
    BY <2>1
  <2>3. /\ g \in suite.RepeatGroups /\ g \subseteq Tests /\ g \cap Live = {t}
        /\ suite \in Suites
    BY <2>1, GroupNearlyOver DEF IInv, TypeOK
  <2>4. IsFiniteSet(g) /\ g \in SUBSET Nat
    BY <2>3, GroupFinite, SuiteFacts DEF Tests
  <2>5. s \in [1 .. Cardinality(g) -> g] /\ Distinct(s)
    BY <2>4, ByIndexFacts
  <2>6. s \in Seq(Tests) /\ Entries(s) \subseteq g /\ g \subseteq Entries(s)
    BY <2>3, <2>4, <2>5, ListFacts, AllListed
  <2>7. /\ ordered \in Seq(Tests) /\ Distinct(ordered)
        /\ Entries(ordered) \subseteq pending /\ pending \cap InProgress = {}
    BY DEF IInv, TypeOK, Placement
  <2>8. Entries(ordered) \cap Entries(s) = {}
    BY <2>3, <2>6, <2>7 DEF Live
  <2>9. Entries(ordered') = Entries(ordered) \cup Entries(s)
    <3>1. Entries(ordered \o s) = Entries(ordered) \cup Entries(s)
      BY <2>5, <2>6, <2>7, <2>8, ConcatFacts, SMTT(30)
    <3> QED BY <2>2, <3>1
  <2> QED BY <2>1, <2>6, <2>9 DEF Listed
<1> QED BY <1>1, <1>2

LEMMA ListedScan ==
  ASSUME IInv, Listed, ScanStarts
  PROVE  Listed'
<1> DEFINE t == Head(scan.todo)
<1>1. /\ scan.todo \in Seq(Tests) /\ scan.todo # <<>> /\ Distinct(scan.todo)
      /\ Entries(scan.todo) \subseteq Entries(ordered)
      /\ ordered \in Seq(Tests) /\ Distinct(ordered)
  BY DEF IInv, TypeOK, Scan, Placement, ScanStarts, MoreToScan
<1>2. t \in Entries(ordered)
  BY <1>1, TailFacts, SMTT(30)
<1>3. ordered' = Without(ordered, t) /\ pending' = pending \ {t}
  BY DEF ScanStarts, Erase
<1> HIDE DEF t
<1>4. Entries(ordered') = Entries(ordered) \ {t}
  BY <1>1, <1>2, <1>3, WithoutFacts
<1> QED BY <1>3, <1>4 DEF Listed

LEMMA ListedResume ==
  ASSUME IInv, Resume
  PROVE  Listed'
<1> DEFINE R == Tests \ checkpoint'
<1>1. pending' = R /\ ordered' \in CostOrders(R)
  BY DEF Resume, Begin, RemoveTest
<1>2. IsFiniteSet(Tests)
  BY LiveFinite
<1>3. IsFiniteSet(R)
  BY <1>2, FS_Subset
<1> HIDE DEF R
<1>4. ordered' \in [1 .. Cardinality(R) -> R] /\ Distinct(ordered')
  BY <1>1 DEF CostOrders
<1>5. R \subseteq Entries(ordered')
  BY <1>3, <1>4, AllListed
<1> QED BY <1>1, <1>5 DEF Listed

LEMMA ListedStep ==
  ASSUME IInv, Listed, [Next]_vars
  PROVE  Listed'
<1>1. CASE UNCHANGED <<pending, ordered>>
  <2>1. pending' = pending /\ ordered' = ordered
    BY <1>1
  <2> QED BY <2>1 DEF Listed
<1>2. CASE \/ StartNextTests \/ ScanSkips \/ ScanEnds \/ Interrupt \/ TestStarts
           \/ JobServerReceivedToken \/ RunTestsReturns \/ UNCHANGED vars
  <2>1. UNCHANGED <<pending, ordered>>
    BY <1>2
    DEF StartNextTests, ScanSkips, ScanEnds, Interrupt, TestStarts,
        JobServerReceivedToken, RunTestsReturns, FinalizeLoop, vars, sched
  <2> QED BY <1>1, <2>1
<1>3. ASSUME NEW t \in running, TestEnds(t) PROVE Listed'
  <2>1. t \in InProgress
    BY DEF InProgress
  <2>2. CASE UNCHANGED <<pending, ordered>>
    BY <1>1, <2>2
  <2>3. \/ UNCHANGED <<pending, ordered>>
        \/ \E st : FinishAlone(t, st) \/ FinishInGroup(t, st) \/ Requeue(t, st)
    BY <1>3
    DEF TestEnds, ProcessEnds, ProcessRunsAgain, FinishTestProcess
  <2> QED BY <2>1, <2>2, <2>3, ListedFinish
<1>4. CASE TestNotStarted
  <2>1. PICK t \in starting, st \in {"NOT_RUN", "SKIPPED", "BAD_COMMAND"} :
          FinishAlone(t, st) \/ FinishInGroup(t, st) \/ Requeue(t, st)
    BY <1>4 DEF TestNotStarted, FinishTestProcess
  <2>2. t \in InProgress
    BY DEF InProgress
  <2> QED BY <2>1, <2>2, ListedFinish
<1> QED BY <1>2, <1>3, <1>4, ListedScan, ListedResume
        DEF Next, Crash, RunTests

-----------------------------------------------------------------------------
(* Something is scheduled to start the rest.                               *)

\* With nothing in progress nothing is counted and nothing is locked.
LEMMA NothingHeld ==
  ASSUME IInv, OInv, InProgress = {}
  PROVE  runningCount = 0 /\ ~serialRunning /\ locked = {}
<1>1. Books(suite, {}, runningCount, serialRunning, locked)
  BY DEF IInv
<1>2. SlotsIn(suite, {}) = {}
  BY DEF SlotsIn
<1>3. runningCount = 0
  BY <1>1, <1>2, FS_EmptySet DEF Books
<1>4. ~serialRunning
  BY <1>1 DEF Books
<1>5. locked = {}
  BY DEF OInv, NothingElseLocked
<1> QED BY <1>3, <1>4, <1>5

\* A test that has nothing to wait for fits in when nothing is in progress.
LEMMA AnyTestFits ==
  ASSUME IInv, OInv, InProgress = {}, Meets, NEW t \in Tests,
         depends[t] = {}, FitsLoad(t)
  PROVE  MayRun(t) /\ Fits(t)
<1>1. runningCount = 0 /\ locked = {}
  BY NothingHeld
<1>2. MayRun(t) /\ ResourceLocksAvailable(t)
  BY <1>1 DEF MayRun, ResourceLocksAvailable
<1>3. suite \in Suites /\ scan.spareLoad \in Nat
  BY DEF IInv, TypeOK, Scan
<1>4. UsedIn(suite, t) \in Nat /\ UsedIn(suite, t) <= ParallelLevel
  BY <1>3, UsedFacts DEF Tests, ParallelLevel
<1>5. ParallelLevel \in Nat /\ TestLoad \in Nat
  BY <1>3, SuiteFacts DEF Suite, ParallelLevel, TestLoad
<1>6. TestLoad > 0 => UsedIn(suite, t) <= scan.spareLoad
  BY CurrentSuite DEF FitsLoad
<1>7. UsedIn(suite, t) <= scan.numToStart
  BY <1>3, <1>4, <1>5, <1>6 DEF Meets, Min2
<1> QED BY <1>2, <1>7, CurrentSuite DEF Fits

\* Among the tests that wait there is one that waits for nothing.
LEMMA OneWaitsForNothing ==
  ASSUME IInv, Due, Sensible, ~interrupted, InProgress = {}, pending # {}
  PROVE  \E u \in pending : depends[u] = {}
<1>1. Live = pending /\ pending \in SUBSET (DOMAIN suite.Properties)
  BY DEF Live, IInv, TypeOK, Tests
<1>2. PICK u \in pending : Needs(suite, u) \cap Hot(suite, pending, u) = {}
  BY <1>1 DEF Sensible, Startable
<1>3. depends[u] \subseteq Needs(suite, u) \cap Hot(suite, pending, u)
  BY <1>1 DEF Due, WaitsForLive
<1> QED BY <1>2, <1>3

LEMMA DrivenStartNextTests ==
  ASSUME IInv, OInv, Listed, Undisturbed', InProgress = {}, StartNextTests
  PROVE  \/ pc' = "loop" /\ pending' = {}
         \/ pc' = "scan" /\ Meets'
<1>1. /\ UNCHANGED <<suite, sched, books, outcome, disk, interrupted, starting>>
      /\ pc = "loop"
  BY DEF StartNextTests, InLoop
<1>2. runningCount = 0 /\ ~serialRunning
  BY NothingHeld
<1>3. suite \in Suites /\ ParallelLevel \in Nat \ {0} /\ TestLoad \in Nat
  BY SuiteFacts DEF IInv, TypeOK, Suite, ParallelLevel, TestLoad
<1>4. NumToStart = ParallelLevel /\ NumToStart # 0
  BY <1>2, <1>3, SMTT(30) DEF NumToStart
<1>5. ~Ending(stopTimePassed', failed)
  BY <1>1 DEF Ending, Undisturbed, StopOnFailure
<1>6. pending' = pending /\ depends' = depends
  BY <1>1 DEF sched
<1>7. CASE UNCHANGED <<pc, scan>> /\ pending = {}
  BY <1>1, <1>6, <1>7
<1>8. ASSUME NEW spare \in 0 .. TestLoad, pc' = "scan",
             scan' = [todo |-> ordered,
                      numToStart |-> IF TestLoad > 0
                                     THEN Min2(ParallelLevel, spare)
                                     ELSE ParallelLevel,
                      spareLoad |-> spare,
                      allTestsFailedTestLoadCheck |-> TestLoad > 0]
      PROVE  Meets'
  <2>1. /\ scan'.todo = ordered /\ scan'.spareLoad = spare
        /\ scan'.numToStart = IF TestLoad > 0 THEN Min2(ParallelLevel, spare)
                              ELSE ParallelLevel
        /\ scan'.allTestsFailedTestLoadCheck = (TestLoad > 0)
    BY <1>8
  <2>2. TestLoad' = TestLoad /\ ParallelLevel' = ParallelLevel
    BY <1>1 DEF TestLoad, ParallelLevel
  <2>3. \A t \in pending' : t \in Entries(scan'.todo)
    BY <1>6, <2>1 DEF Listed
  <2> QED BY <2>1, <2>2, <2>3 DEF Meets
<1>9. \/ UNCHANGED <<pc, scan>> /\ pending = {}
      \/ /\ pc' = "scan"
         /\ \E spare \in 0 .. TestLoad :
              scan' = [todo |-> ordered,
                       numToStart |-> IF TestLoad > 0
                                      THEN Min2(NumToStart, spare)
                                      ELSE NumToStart,
                       spareLoad |-> spare,
                       allTestsFailedTestLoadCheck |-> TestLoad > 0]
  BY <1>2, <1>4, <1>5 DEF StartNextTests
<1> QED BY <1>4, <1>7, <1>8, <1>9

LEMMA DrivenScanSkips ==
  ASSUME IInv, OInv, InProgress = {}, Meets, ScanSkips
  PROVE  Meets'
<1> DEFINE t == Head(scan.todo)
<1>1. /\ UNCHANGED <<suite, sched>>
      /\ ~(MayRun(t) /\ FitsLoad(t) /\ Fits(t))
      /\ scan' = [scan EXCEPT !.todo = Tail(@),
                              !.allTestsFailedTestLoadCheck =
                                 @ /\ ~(MayRun(t) /\ FitsLoad(t))]
  BY DEF ScanSkips
<1>2. /\ scan \in Scan /\ scan.todo \in Seq(Tests) /\ scan.todo # <<>>
      /\ Distinct(scan.todo)
  BY DEF IInv, TypeOK, Scan, Placement, ScanSkips, MoreToScan
<1>3. t \in Tests /\ Entries(scan.todo) = {t} \cup Entries(Tail(scan.todo))
  BY <1>2, TailFacts
<1>4. /\ scan'.todo = Tail(scan.todo) /\ scan'.spareLoad = scan.spareLoad
      /\ scan'.numToStart = scan.numToStart
      /\ scan'.allTestsFailedTestLoadCheck =
           (scan.allTestsFailedTestLoadCheck /\ ~(MayRun(t) /\ FitsLoad(t)))
  BY <1>1, <1>2 DEF Scan
<1> HIDE DEF t
<1>5. ~(depends[t] = {} /\ FitsLoad(t))
  BY <1>1, <1>3, AnyTestFits
<1>6. scan'.allTestsFailedTestLoadCheck <=> TestLoad > 0
  <2>1. ~(MayRun(t) /\ FitsLoad(t))
    BY <1>5 DEF MayRun
  <2>2. scan'.allTestsFailedTestLoadCheck <=> scan.allTestsFailedTestLoadCheck
    BY <1>4, <2>1
  <2> QED BY <2>2 DEF Meets
<1>7. TestLoad = 0 => \A u \in pending : depends[u] = {} => u \in Entries(scan'.todo)
  <2>1. TestLoad = 0 => depends[t] # {}
    <3>1. TestLoad = 0 => FitsLoad(t)
      BY SMTT(30) DEF FitsLoad
    <3> QED BY <1>5, <3>1
  <2> QED BY <1>3, <1>4, <2>1 DEF Meets
<1>8. /\ TestLoad' = TestLoad /\ ParallelLevel' = ParallelLevel
      /\ pending' = pending /\ depends' = depends
  BY <1>1 DEF sched, TestLoad, ParallelLevel
<1> QED BY <1>4, <1>6, <1>7, <1>8 DEF Meets

LEMMA DrivenScanEnds ==
  ASSUME IInv, OInv, Due, Sensible, ~interrupted, InProgress = {}, Meets, ScanEnds
  PROVE  timer' \/ pending = {}
<1>1. suite \in Suites /\ ParallelLevel \in Nat \ {0} /\ TestLoad \in Nat
  BY SuiteFacts DEF IInv, TypeOK, Suite, ParallelLevel, TestLoad
<1>2. CASE TestLoad > 0
  BY <1>2 DEF ScanEnds, TryAgainLater, Meets
<1>3. CASE ~(TestLoad > 0)
  <2>1. TestLoad = 0 /\ scan.numToStart > 0
    BY <1>1, <1>3, SMTT(30) DEF Meets
  <2>2. ~serialRunning
    BY NothingHeld
  <2>3. scan.todo = <<>>
    BY <2>1, <2>2 DEF ScanEnds, MoreToScan
  <2>4. Entries(scan.todo) = {}
    BY <2>3, SMTT(30) DEF Entries
  <2>5. \A t \in pending : depends[t] # {}
    BY <2>1, <2>4 DEF Meets
  <2> QED BY <2>5, OneWaitsForNothing
<1> QED BY <1>2, <1>3

LEMMA DrivenStep ==
  ASSUME IInv, OInv, AtRest, PInv, [Next]_vars
  PROVE  Driven'
<1> SUFFICES ASSUME Undisturbed', Sensible', InProgress' = {}
             PROVE  /\ pc' = "loop" /\ ~idle' => timer' \/ pending' = {}
                    /\ pc' = "scan" /\ ~idle' => Meets'
                    /\ pc' = "done" => pending' = {}
  BY DEF Driven
<1>1. CASE Resume
  <2>1. idle' = TRUE /\ pc' = "loop"
    BY <1>1 DEF Resume, Begin
  <2> QED BY <2>1
<1>2. ASSUME RunStep
      PROVE  Undisturbed /\ Sensible /\ suite' = suite
  <2>1. /\ suite' = suite /\ session' = session
        /\ interrupted => interrupted'
        /\ stopTimePassed => stopTimePassed'
    BY <1>2
    DEF RunStep, Onward, Quiet, Returns, Starts, Cancels, Ends, Kept
  <2>2. Sensible
    BY <2>1 DEF Sensible, Resumed, Tests
  <2>3. Undisturbed
    BY <2>1 DEF Undisturbed, StopOnFailure
  <2> QED BY <2>1, <2>2, <2>3
<1>3. CASE UNCHANGED vars
  <2>1. Undisturbed /\ Sensible
    BY <1>2, <1>3, QuietSteps DEF RunStep
  <2>2. UNCHANGED <<suite, pending, depends, queued, running, lost, starting,
                    idle, timer, pc, scan>>
    BY <1>3 DEF vars, sched, control
  <2>3. InProgress = {} /\ (Meets => Meets')
    BY <2>2 DEF InProgress, Meets, TestLoad, ParallelLevel, Entries
  <2> QED BY <2>1, <2>2, <2>3 DEF PInv, Driven
<1>4. CASE StartNextTests
  <2>1. InProgress = {}
    BY <1>4, QuietSteps DEF Quiet
  <2>2. \/ pc' = "loop" /\ pending' = {}
        \/ pc' = "scan" /\ Meets'
    BY <1>4, <2>1, DrivenStartNextTests DEF PInv
  <2> QED BY <2>2
<1>5. CASE ScanSkips
  <2>1. InProgress = {} /\ Undisturbed /\ Sensible
    BY <1>2, <1>5, QuietSteps DEF Quiet, RunStep
  <2>2. pc = "scan" /\ pc' = pc /\ idle' = idle
    BY <1>5 DEF ScanSkips, InScan
  <2>3. ~idle => Meets
    BY <2>1, <2>2 DEF PInv, Driven
  <2>4. ~idle => Meets'
    BY <1>5, <2>1, <2>3, DrivenScanSkips
  <2> QED BY <2>2, <2>4
<1>6. CASE ScanEnds
  <2>1. InProgress = {} /\ Undisturbed /\ Sensible
    BY <1>2, <1>6, QuietSteps DEF Quiet, RunStep
  <2>2. pc = "scan" /\ pc' = "loop" /\ idle' = idle /\ pending' = pending
    BY <1>6 DEF ScanEnds, InScan, sched
  <2>3. ~idle => Meets
    BY <2>1, <2>2 DEF PInv, Driven
  <2>4. ~idle => timer' \/ pending = {}
    BY <1>6, <2>1, <2>3, DrivenScanEnds DEF PInv, Undisturbed
  <2> QED BY <2>2, <2>4
<1>7. CASE RunTestsReturns
  <2>1. Onward /\ Returns
    BY <1>7, ReturnsOnce DEF RunTestsReturns
  <2>2. Undisturbed /\ Sensible /\ InProgress = {} /\ pending' = pending
    BY <1>2, <2>1 DEF RunStep, Returns
  <2>3. pc = "loop" /\ pc' = "done" /\ ~idle /\ ~timer
    BY <1>7 DEF RunTestsReturns, FinalizeLoop, InLoop
  <2>4. pending = {}
    BY <2>2, <2>3 DEF PInv, Driven
  <2> QED BY <2>2, <2>3, <2>4
<1>8. CASE Interrupt
  <2>1. interrupted'
    BY <1>8 DEF Interrupt
  <2> QED BY <2>1 DEF Undisturbed
<1>9. CASE ScanStarts
  <2>1. PICK t \in Tests : Starts(t)
    BY <1>9, ScanStartsOne
  <2> QED BY <2>1 DEF Starts
<1>10. CASE TestStarts
  <2>1. InProgress = {}
    BY <1>10, TestStartsQuietly DEF Quiet
  <2> QED BY <1>10, <2>1 DEF TestStarts, InProgress
<1>11. CASE JobServerReceivedToken
  <2>1. ~interrupted /\ InProgress' = InProgress
    BY <1>2, <1>11, TokenCancelsOrNot
    DEF RunStep, Undisturbed, Cancels, Quiet
  <2>2. queued \in Seq(Tests) /\ queued # <<>>
    BY <1>11 DEF JobServerReceivedToken, IInv, TypeOK
  <2>3. Head(queued) \in Entries(queued)
    BY <2>2, SMTT(30) DEF Entries
  <2> QED BY <2>1, <2>3 DEF InProgress
<1>12. CASE TestNotStarted
  <2>1. idle' = TRUE /\ pc' = pc /\ starting # {}
    BY <1>12
    DEF TestNotStarted, FinishTestProcess, StartNextTestsOnIdle
  <2>2. pc # "done"
    BY <2>1 DEF AtRest
  <2> QED BY <2>1, <2>2
<1>13. ASSUME NEW t \in running, TestEnds(t)
       PROVE  pc' = "loop" /\ idle' = TRUE
  <2>1. PICK st \in {"COMPLETED", "FAILED", "TIMEOUT", "SKIPPED"} :
          ProcessEnds(t, st) \/ ProcessRunsAgain(t, st)
    BY <1>13 DEF TestEnds
  <2>2. CASE ProcessEnds(t, st)
    BY <2>2
    DEF ProcessEnds, FinishTestProcess, StartNextTestsOnIdle, InLoop
  <2>3. ~ProcessRunsAgain(t, st)
    <3> SUFFICES ASSUME ProcessRunsAgain(t, st) PROVE FALSE
      OBVIOUS
    <3>1. InProgress' = InProgress
      BY RunsAgainQuietly DEF Quiet
    <3> QED BY <3>1 DEF InProgress
  <2> QED BY <2>1, <2>2, <2>3
<1>14. CASE \E t \in running : TestEnds(t)
  BY <1>13, <1>14
<1> QED BY <1>1, <1>3, <1>4, <1>5, <1>6, <1>7, <1>8, <1>9, <1>10, <1>11, <1>12,
           <1>14
        DEF Next, Crash, RunTests

-----------------------------------------------------------------------------
(* The invariant.                                                          *)

LEMMA UnstartedStep ==
  ASSUME IInv, AtRest, Unstarted, [Next]_vars
  PROVE  Unstarted'
<1> SUFFICES ASSUME session' = 0 PROVE pc' = "off" /\ checkpoint' = {}
  BY DEF Unstarted
<1>1. ~Resume
  BY SMTT(30) DEF Resume, IInv, TypeOK
<1>2. session = 0
  BY <1>1, StepKinds DEF RunStep, Onward
<1>3. pc = "off" /\ checkpoint = {} /\ starting = {}
  BY <1>2 DEF Unstarted, AtRest
<1>4. UNCHANGED vars
  BY <1>1, <1>3
  DEF Next, StartNextTests, ScanStarts, ScanSkips, ScanEnds, TestStarts,
      TestNotStarted, JobServerReceivedToken, TestEnds, ProcessEnds,
      ProcessRunsAgain, RunTestsReturns, Interrupt, Crash, RunTests, InLoop,
      InScan
<1> QED BY <1>3, <1>4 DEF vars, control, disk

\* A run begins: every test that is not skipped waits.
LEMMA PInvResume ==
  ASSUME IInv, Unstarted, Resume
  PROVE  Due' /\ Tally' /\ Unstarted'
<1>1. /\ suite' = suite /\ session' = session + 1 /\ session \in Nat
      /\ suite \in Suite(Tests) /\ suite \in Suites
      /\ checkpoint' = IF suite.Failover THEN checkpoint ELSE {}
      /\ checkpoint' \subseteq Tests /\ IsFiniteSet(Tests)
  BY SuiteFacts DEF Resume, IInv, TypeOK, Tests
<1>2. /\ pending' = Tests \ checkpoint' /\ completed' = Cardinality(checkpoint')
      /\ depends' = [t \in Tests |-> Props(t).Depends]
      /\ queued' = <<>> /\ running' = {} /\ lost' = {} /\ starting' = {}
  BY DEF Resume, Begin, RemoveTest
<1>3. Entries(<<>>) = {}
  BY SMTT(30) DEF Entries
<1>4. Live' = Tests \ checkpoint'
  BY <1>2, <1>3 DEF InProgress, Live
<1>5. Due'
  <2> SUFFICES ASSUME Sensible'
               PROVE  WaitsForLive(suite, pending', Live', depends')
    BY <1>1 DEF Due
  <2>1. \A u \in pending' : depends'[u] = Needs(suite, u)
    BY <1>2 DEF Needs, Props
  <2>2. CASE \A u \in Tests : Needs(suite, u) = {}
    BY <1>2, <2>1, <2>2 DEF WaitsForLive
  <2>3. CASE checkpoint' = {}
    <3>1. \A u \in Tests : Needs(suite, u) \subseteq Live'
      BY <1>1, <1>4, <2>3 DEF Suite, TestProperties, Needs
    <3>2. \A u : Live' \subseteq Hot(suite, Live', u)
      BY DEF Hot
    <3>3. pending' \subseteq Tests
      BY <1>2
    <3> QED BY <2>1, <3>1, <3>2, <3>3 DEF WaitsForLive
  <2>4. CASE Resumed'
    <3>1. \A u \in Tests : Needs(suite, u) = {}
      BY <1>1, <2>4 DEF Sensible, Tests
    <3> QED BY <2>2, <3>1
  <2>5. CASE ~Resumed'
    <3>1. ~suite.Failover \/ session = 0
      BY <1>1, <2>5, SMTT(30) DEF Resumed
    <3>2. checkpoint' = {}
      BY <1>1, <3>1 DEF Unstarted
    <3> QED BY <2>3, <3>2
  <2> QED BY <2>4, <2>5
<1>6. Tally'
  <2>1. /\ IsFiniteSet(checkpoint') /\ Cardinality(checkpoint') \in Nat
        /\ Cardinality(Tests) \in Nat
    BY <1>1, FS_Subset, FS_CardinalityType
  <2>2. Cardinality(Tests \ checkpoint') =
          Cardinality(Tests) - Cardinality(Tests \cap checkpoint')
    BY <1>1, FS_Difference
  <2>3. Tests \cap checkpoint' = checkpoint'
    BY <1>1
  <2>a. Cardinality(Live') = Cardinality(Tests) - Cardinality(checkpoint')
    BY <1>4, <2>2, <2>3
  <2>4. completed' + Cardinality(Live') = Cardinality(Tests)
    BY <1>2, <2>1, <2>a, SMTT(30)
  <2>5. Tests' = Tests
    BY <1>1 DEF Tests
  <2> QED BY <2>4, <2>5 DEF Tally
<1>7. session' # 0
  BY <1>1, SMTT(30)
<1> QED BY <1>5, <1>6, <1>7 DEF Unstarted

LEMMA PInvInit == Init => PInv
<1> SUFFICES ASSUME Init PROVE PInv
  OBVIOUS
<1>1. pending = {} /\ session = 0 /\ pc = "off" /\ checkpoint = {}
  BY DEF Init
<1> QED BY <1>1, SMTT(30)
        DEF PInv, Due, WaitsForLive, Listed, Tally, Driven, Unstarted

LEMMA PInvStep ==
  ASSUME IInv, OInv, AtRest, PInv, [Next]_vars
  PROVE  PInv'
<1>1. Driven'
  BY DrivenStep
<1>2. Listed' /\ Unstarted'
  BY ListedStep, UnstartedStep DEF PInv
<1>3. Due' /\ Tally'
  <2>1. CASE RunStep
    BY <2>1, DueStep, TallyStep DEF PInv
  <2>2. CASE Resume
    BY <2>2, PInvResume DEF PInv
  <2> QED BY <2>1, <2>2, StepKinds
<1> QED BY <1>1, <1>2, <1>3 DEF PInv

LEMMA PInvComplete ==
  ASSUME IInv, OInv, AtRest, PInv, Sensible, lost = {}
  PROVE  CompleteAtEnd
<1> SUFFICES ASSUME pc = "done", ~stopTimePassed, ~StopOnFailure, ~interrupted
             PROVE  completed = Cardinality(Tests) /\ pending = {}
  BY DEF CompleteAtEnd
<1>1. Entries(<<>>) = {}
  BY SMTT(30) DEF Entries
<1>2. InProgress = {}
  BY <1>1 DEF AtRest, InProgress
<1>3. pending = {}
  BY <1>2 DEF PInv, Driven, Undisturbed
<1>4. Live = {}
  BY <1>2, <1>3 DEF Live
<1>5. session > 0
  BY SMTT(30) DEF PInv, Unstarted, IInv, TypeOK
<1>6. completed + Cardinality(Live) = Cardinality(Tests)
  BY <1>5 DEF PInv, Tally
<1>7. Cardinality(Live) = 0 /\ completed \in Int
  BY <1>4, FS_EmptySet DEF IInv, TypeOK
<1> QED BY <1>3, <1>6, <1>7, SMTT(30)

\* RunTests returns only when every test is over and counted, unless the run
\* was cut short: no test is forgotten, whatever the -j level, the load, the
\* job server, the locks or the repetitions hold back.  This needs a suite
\* without cycles, no dependencies when -F skips tests, and no test lost to a
\* repetition that could not be started.
THEOREM AlwaysCompleteAtEnd ==
  Spec => [](Sensible /\ lost = {} => CompleteAtEnd)
<1> DEFINE Inv == IInv /\ OInv /\ AtRest /\ PInv
<1>1. Init => Inv
  BY OutcomeInit, PInvInit
<1>2. Inv /\ [Next]_vars => Inv'
  BY OutcomeInductive, PInvStep
<1>3. Inv => (Sensible /\ lost = {} => CompleteAtEnd)
  BY PInvComplete
<1> QED BY <1>1, <1>2, <1>3, PTL DEF Spec
============================================================================
