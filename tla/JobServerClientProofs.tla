------------------------ MODULE JobServerClientProofs ------------------------
(***************************************************************************)
(* What JobServerClient guarantees for every number of tokens, every       *)
(* number of requests and every interleaving with other clients.           *)
(*                                                                         *)
(* Backed is inductive for both platforms whatever OnToken does.  Exact    *)
(* adds the bookkeeping that needs Orderly: either OnToken never releases  *)
(* its token before it returns, or the platform is Windows, where          *)
(* PollTokens waits for the implicit token to arrive.                      *)
(***************************************************************************)
EXTENDS JobServerClient, TLAPS

\* The provers tried on a step that names none.
USE ZenonT(60), SMTT(30)

\* Reading is on exactly while tokens are needed and the connection lasts.
ReadingMatchesNeed == cl.receiving <=> (cl.open /\ cl.need > 0)

\* The tokens in hand and the implicit one on its way are all paid for.
Paid == cl.held + B2N(cl.implicit) <= Taken + 1

Backed ==
  /\ TypeOK
  /\ pool + others <= Slots
  /\ NeedIsBacked
  /\ ReadingMatchesNeed
  /\ Paid
  /\ waiting >= cl.need + B2N(cl.implicit)
  /\ idleQueued => phase = "idle" /\ cl.implicit

Orderly == Platform = "win32" \/ ~SyncRelease

\* Where the tokens in hand can come from while the implicit one is due.
ImplicitDue ==
  cl.implicit =>
    /\ phase = "poll" => cl.held = fresh
    /\ phase = "idle" /\ ~idleQueued => cl.held = 0
    /\ Platform = "win32" => cl.held = 0

Exact == Backed /\ ImplicitDue /\ NoRequestLost /\ TokensReturned

-----------------------------------------------------------------------------
LEMMA InitBacked == Init => Backed
<1> SUFFICES ASSUME Init PROVE Backed
  OBVIOUS
<1>1. cl \in Client
  BY DEF Init, Client, Connected
<1>2. idleQueued \in BOOLEAN
  BY DEF Init
<1>3. TypeOK
  BY <1>1, <1>2, ClientAssumption, SMTT(30) DEF Init, TypeOK
<1>4. /\ ~cl.implicit /\ ~cl.receiving /\ cl.open
      /\ cl.held = 0 /\ cl.need = 0
      /\ ~idleQueued
  BY DEF Init, Connected
<1>5. Taken = 0 /\ pool + others <= Slots /\ waiting = 0
  BY ClientAssumption, SMTT(30) DEF Init, Taken
<1> QED
  BY <1>3, <1>4, <1>5, SMTT(30)
  DEF Backed, NeedIsBacked, ReadingMatchesNeed, Paid, B2N

USE DEF HoldToken, RequestImplicitToken

\* Assigning one member leaves the others and the type alone.
LEMMA SetMember ==
  ASSUME NEW c \in Client, NEW n \in Nat, NEW b \in BOOLEAN
  PROVE  /\ [c EXCEPT !.need = n] \in Client
         /\ [c EXCEPT !.held = n] \in Client
         /\ [c EXCEPT !.receiving = b] \in Client
         /\ [c EXCEPT !.open = b] \in Client
         /\ [c EXCEPT !.implicit = b] \in Client
BY DEF Client

\* StopReceivingTokens turns reading off, or finds the connection closed.
LEMMA StopFacts ==
  ASSUME NEW c \in Client
  PROVE  LET d == StopReceivingTokens(c)
         IN  /\ d \in Client
             /\ (d.open <=> c.open) /\ (d.implicit <=> c.implicit)
             /\ d.held = c.held /\ d.need = c.need
             /\ (d.receiving <=> ~c.open /\ c.receiving)
<1>1. CASE c.open
  BY <1>1, SetMember DEF StopReceivingTokens, Client
<1>2. CASE ~c.open
  BY <1>2 DEF StopReceivingTokens
<1> QED BY <1>1, <1>2

\* Disconnect closes the connection and stops reading.
LEMMA DisconnectFacts ==
  ASSUME NEW c \in Client, c.receiving => c.open
  PROVE  LET d == Disconnect(c)
         IN  /\ d \in Client
             /\ ~d.open /\ ~d.receiving /\ (d.implicit <=> c.implicit)
             /\ d.held = c.held /\ d.need = c.need
<1>1. CASE c.open
  <2> DEFINE e == StopReceivingTokens(c)
  <2>1. /\ e \in Client /\ ~e.receiving /\ (e.implicit <=> c.implicit)
        /\ e.held = c.held /\ e.need = c.need
    BY <1>1, StopFacts
  <2>2. Disconnect(c) = [e EXCEPT !.open = FALSE]
    BY <1>1 DEF Disconnect
  <2> HIDE DEF e
  <2>3. [e EXCEPT !.open = FALSE] \in Client
    BY <2>1, SetMember
  <2> QED BY <2>1, <2>2, <2>3 DEF Client
<1>2. CASE ~c.open
  BY <1>2 DEF Disconnect
<1> QED BY <1>1, <1>2

\* DecrementNeedTokens turns reading off with the last needed token.
LEMMA DecrementFacts ==
  ASSUME NEW c \in Client, c.need > 0, c.receiving <=> c.open
  PROVE  LET d == DecrementNeedTokens(c)
         IN  /\ d \in Client
             /\ (d.open <=> c.open) /\ (d.implicit <=> c.implicit) /\ d.held = c.held
             /\ d.need = c.need - 1
             /\ d.receiving <=> (d.open /\ d.need > 0)
<1> DEFINE z == [c EXCEPT !.need = c.need - 1]
<1>0. c.need \in Nat /\ c.need - 1 \in Nat
  BY SMTT(30) DEF Client
<1>1. /\ z \in Client /\ (z.open <=> c.open) /\ (z.implicit <=> c.implicit)
      /\ z.held = c.held /\ z.need = c.need - 1
      /\ (z.receiving <=> c.receiving)
  BY <1>0, SetMember DEF Client
<1>2. CASE c.need = 1
  <2>1. DecrementNeedTokens(c) = StopReceivingTokens(z)
    BY <1>2, SMTT(30) DEF DecrementNeedTokens
  <2> HIDE DEF z
  <2> QED BY <1>1, <1>2, <2>1, StopFacts, SMTT(30)
<1>3. CASE c.need # 1
  <2>1. DecrementNeedTokens(c) = z
    BY <1>3 DEF DecrementNeedTokens
  <2> HIDE DEF z
  <2> QED BY <1>0, <1>1, <1>3, <2>1, SMTT(30)
<1> QED BY <1>2, <1>3

\* RequestToken starts the idle handle or counts one more needed token.
LEMMA RequestFacts ==
  ASSUME NEW c \in Client, NEW ok \in BOOLEAN,
         c.receiving <=> (c.open /\ c.need > 0)
  PROVE  LET d == RequestTokenOp(c, ok)
         IN  /\ d \in Client
             /\ d.held = c.held
             /\ d.open => c.open
             /\ d.receiving <=> (d.open /\ d.need > 0)
             /\ \/ /\ c.held = 0 /\ ~c.implicit
                   /\ d.implicit /\ d.need = c.need
                \/ /\ c.held > 0 \/ c.implicit
                   /\ d.implicit <=> c.implicit
                   /\ d.need = c.need + 1
<1>1. CASE c.held = 0 /\ ~c.implicit
  <2>1. RequestTokenOp(c, ok) = [c EXCEPT !.implicit = TRUE]
    BY <1>1 DEF RequestTokenOp
  <2>2. [c EXCEPT !.implicit = TRUE] \in Client
    BY SetMember
  <2> QED BY <1>1, <2>1, <2>2 DEF Client
<1>2. CASE ~(c.held = 0 /\ ~c.implicit)
  <2> DEFINE z == [c EXCEPT !.need = c.need + 1]
  <2>0. c.need \in Nat /\ c.held \in Nat /\ c.need + 1 \in Nat
    BY SMTT(30) DEF Client
  <2>1. /\ z \in Client /\ (z.open <=> c.open) /\ (z.implicit <=> c.implicit)
        /\ z.held = c.held /\ z.need = c.need + 1
        /\ (z.receiving <=> c.receiving)
    BY <2>0, SetMember DEF Client
  <2>2. RequestTokenOp(c, ok) = StartReceivingTokens(z, ok)
    BY <1>2 DEF RequestTokenOp, RequestExplicitToken
  <2> HIDE DEF z
  <2>3. CASE ~z.open \/ z.receiving
    BY <1>2, <2>0, <2>1, <2>2, <2>3, SMTT(30) DEF StartReceivingTokens
  <2>4. CASE z.open /\ ~z.receiving /\ ok
    <3> DEFINE e == [z EXCEPT !.receiving = TRUE]
    <3>1. RequestTokenOp(c, ok) = e
      BY <2>2, <2>4 DEF StartReceivingTokens
    <3>2. e \in Client
      BY <2>1, SetMember
    <3>3. /\ e.receiving /\ (e.open <=> z.open)
          /\ (e.implicit <=> z.implicit)
          /\ e.held = z.held /\ e.need = z.need
      BY <2>1 DEF Client
    <3> HIDE DEF e
    <3>4. e.receiving <=> (e.open /\ e.need > 0)
      BY <2>0, <2>1, <2>4, <3>3, SMTT(30)
    <3>5. /\ e.held = c.held /\ (e.open => c.open)
          /\ e.need = c.need + 1 /\ (e.implicit <=> c.implicit)
      BY <2>0, <2>1, <2>4, <3>3
    <3>6. c.held > 0 \/ c.implicit
      BY <1>2, <2>0, SMTT(30)
    <3> QED BY <3>1, <3>2, <3>4, <3>5, <3>6
  <2>5. CASE z.open /\ ~z.receiving /\ ~ok
    <3>1. RequestTokenOp(c, ok) = Disconnect(z)
      BY <2>2, <2>5 DEF StartReceivingTokens
    <3>2. /\ Disconnect(z) \in Client
          /\ ~Disconnect(z).open /\ ~Disconnect(z).receiving
          /\ (Disconnect(z).implicit <=> z.implicit)
          /\ Disconnect(z).held = z.held /\ Disconnect(z).need = z.need
      BY <2>1, <2>5, DisconnectFacts
    <3> QED BY <1>2, <2>0, <2>1, <3>1, <3>2, SMTT(30)
  <2> QED BY <2>3, <2>4, <2>5
<1> QED BY <1>1, <1>2

\* ReleaseToken sends the token back or reuses it as the implicit one.
LEMMA ReleaseFacts ==
  ASSUME NEW c \in Client, NEW ok \in BOOLEAN, c.held > 0,
         c.receiving <=> (c.open /\ c.need > 0)
  PROVE  LET d == ReleaseTokenOp(c, ok)
         IN  /\ d \in Client
             /\ d.held = c.held - 1
             /\ d.receiving <=> (d.open /\ d.need > 0)
             /\ \/ /\ c.held = 1 /\ c.need > 0 /\ (d.open <=> c.open)
                   /\ d.implicit /\ d.need = c.need - 1
                \/ /\ c.held = 1 /\ c.need = 0 /\ (d.open <=> c.open)
                   /\ (d.implicit <=> c.implicit) /\ d.need = 0
                \/ /\ c.held > 1 /\ (d.implicit <=> c.implicit)
                   /\ d.need = c.need
                   /\ d.open <=> (c.open /\ ok)
<1> DEFINE z == [c EXCEPT !.held = c.held - 1]
<1>0. c.held \in Nat /\ c.held - 1 \in Nat /\ c.need \in Nat
  BY SMTT(30) DEF Client
<1>1. /\ z \in Client /\ (z.open <=> c.open) /\ (z.implicit <=> c.implicit)
      /\ z.held = c.held - 1 /\ z.need = c.need
      /\ (z.receiving <=> c.receiving)
  BY <1>0, SetMember DEF Client
<1>2. ReleaseTokenOp(c, ok) = IF z.held = 0 THEN ReleaseImplicitToken(z)
                              ELSE IF ok THEN z ELSE Disconnect(z)
  BY DEF ReleaseTokenOp
<1> HIDE DEF z
<1>3. CASE c.held = 1 /\ c.need > 0
  <2> DEFINE e == DecrementNeedTokens(z)
  <2>1. /\ e \in Client /\ (e.open <=> c.open) /\ e.held = 0
        /\ e.need = c.need - 1
        /\ e.receiving <=> (e.open /\ e.need > 0)
    BY <1>0, <1>1, <1>3, DecrementFacts, SMTT(30)
  <2>2. ReleaseTokenOp(c, ok) = [e EXCEPT !.implicit = TRUE]
    BY <1>0, <1>1, <1>2, <1>3, SMTT(30) DEF ReleaseImplicitToken
  <2> HIDE DEF e
  <2>3. [e EXCEPT !.implicit = TRUE] \in Client
    BY <2>1, SetMember
  <2>4. /\ [e EXCEPT !.implicit = TRUE].implicit
        /\ ([e EXCEPT !.implicit = TRUE].open <=> e.open)
        /\ ([e EXCEPT !.implicit = TRUE].receiving <=> e.receiving)
        /\ [e EXCEPT !.implicit = TRUE].held = e.held
        /\ [e EXCEPT !.implicit = TRUE].need = e.need
    BY <2>1 DEF Client
  <2> QED BY <1>0, <1>3, <2>1, <2>2, <2>3, <2>4, SMTT(30)
<1>4. CASE c.held = 1 /\ c.need = 0
  <2>1. ReleaseTokenOp(c, ok) = z
    BY <1>1, <1>2, <1>4, SMTT(30) DEF ReleaseImplicitToken
  <2> QED BY <1>1, <1>4, <2>1
<1>5. CASE c.held > 1 /\ ok
  <2>1. ReleaseTokenOp(c, ok) = z
    BY <1>0, <1>1, <1>2, <1>5, SMTT(30)
  <2> QED BY <1>0, <1>1, <1>5, <2>1
<1>6. CASE c.held > 1 /\ ~ok
  <2>1. ReleaseTokenOp(c, ok) = Disconnect(z)
    BY <1>0, <1>1, <1>2, <1>6, SMTT(30)
  <2> QED BY <1>0, <1>1, <1>6, <2>1, DisconnectFacts
<1> QED BY <1>0, <1>3, <1>4, <1>5, <1>6, SMTT(30)

\* ReceivedToken turns one needed token into a held one.
LEMMA ReceiveFacts ==
  ASSUME NEW c \in Client, c.need > 0, c.receiving <=> c.open
  PROVE  LET d == ReceivedToken(c)
         IN  /\ d \in Client
             /\ d.held = c.held + 1 /\ d.need = c.need - 1
             /\ (d.open <=> c.open) /\ (d.implicit <=> c.implicit)
             /\ d.receiving <=> (d.open /\ d.need > 0)
<1> DEFINE e == DecrementNeedTokens(c)
<1>1. /\ e \in Client
      /\ (e.open <=> c.open) /\ (e.implicit <=> c.implicit)
      /\ e.held = c.held /\ e.need = c.need - 1
      /\ e.receiving <=> (e.open /\ e.need > 0)
  BY DecrementFacts
<1>2. ReceivedToken(c) = [e EXCEPT !.held = e.held + 1]
  BY DEF ReceivedToken
<1> HIDE DEF e
<1>3. e.held + 1 \in Nat /\ c.held \in Nat
  BY <1>1, SMTT(30) DEF Client
<1>4. [e EXCEPT !.held = e.held + 1] \in Client
  BY <1>1, <1>3, SetMember
<1>5. /\ ([e EXCEPT !.held = e.held + 1].open <=> e.open)
      /\ ([e EXCEPT !.held = e.held + 1].receiving <=> e.receiving)
      /\ ([e EXCEPT !.held = e.held + 1].implicit <=> e.implicit)
      /\ [e EXCEPT !.held = e.held + 1].held = e.held + 1
      /\ [e EXCEPT !.held = e.held + 1].need = e.need
  BY <1>1 DEF Client
<1> QED BY <1>1, <1>2, <1>3, <1>4, <1>5

\* The idle callback turns the implicit token into a held one.
LEMMA IdleFacts ==
  ASSUME NEW c \in Client
  PROVE  LET d == HoldToken([c EXCEPT !.implicit = FALSE])
         IN  /\ d \in Client
             /\ d.held = c.held + 1 /\ d.need = c.need /\ ~d.implicit
             /\ (d.open <=> c.open) /\ (d.receiving <=> c.receiving)
<1> DEFINE e == [c EXCEPT !.implicit = FALSE]
<1>1. /\ e \in Client /\ ~e.implicit
      /\ (e.open <=> c.open) /\ (e.receiving <=> c.receiving)
      /\ e.held = c.held /\ e.need = c.need
  BY SetMember DEF Client
<1> HIDE DEF e
<1>2. e.held + 1 \in Nat
  BY <1>1, SMTT(30) DEF Client
<1>3. [e EXCEPT !.held = e.held + 1] \in Client
  BY <1>1, <1>2, SetMember
<1>4. /\ ([e EXCEPT !.held = e.held + 1].open <=> e.open)
      /\ ([e EXCEPT !.held = e.held + 1].receiving <=> e.receiving)
      /\ ([e EXCEPT !.held = e.held + 1].implicit <=> e.implicit)
      /\ [e EXCEPT !.held = e.held + 1].held = e.held + 1
      /\ [e EXCEPT !.held = e.held + 1].need = e.need
  BY <1>1 DEF Client
<1> QED BY <1>1, <1>3, <1>4 DEF e

-----------------------------------------------------------------------------
USE ClientAssumption
HIDE DEF HoldToken, RequestImplicitToken

\* OnToken with a client whose token is paid for: the token is kept, or it is
\* released at once.
LEMMA OnTokenBacked ==
  ASSUME TypeOK, NEW c \in Client, NEW p \in 0 .. Slots, OnToken(c, p),
         p + others <= Slots, waiting > 0, waiting > c.need + B2N(c.implicit),
         c.held > 0, c.receiving <=> (c.open /\ c.need > 0),
         c.held + B2N(c.implicit) <= Slots - p - others + 1
  PROVE  /\ cl' \in Client
         /\ pool' \in 0 .. Slots /\ fresh' \in Nat /\ waiting' \in Nat
         /\ pool' + others <= Slots
         /\ cl'.need > 0 => cl'.held > 0 \/ cl'.implicit
         /\ cl'.receiving <=> (cl'.open /\ cl'.need > 0)
         /\ cl'.held + B2N(cl'.implicit) <= Slots - pool' - others + 1
         /\ waiting' >= cl'.need + B2N(cl'.implicit)
<1>0. /\ c.held \in Nat /\ c.need \in Nat /\ others \in Nat
      /\ fresh \in Nat /\ waiting \in Nat /\ p \in Nat
      /\ B2N(c.implicit) \in 0 .. 1
  BY SMTT(30) DEF TypeOK, Client, B2N
<1>1. waiting' = waiting - 1
  BY DEF OnToken
<1>2. CASE cl' = c /\ pool' = p
             /\ fresh' = IF phase = "poll" THEN fresh + 1 ELSE fresh
  BY <1>0, <1>1, <1>2, SMTT(30)
<1>3. ASSUME NEW ok \in BOOLEAN, cl' = ReleaseTokenOp(c, ok),
             pool' = IF SendsToken(c) /\ ok THEN p + 1 ELSE p,
             fresh' = fresh
      PROVE  /\ cl' \in Client
             /\ pool' \in 0 .. Slots /\ fresh' \in Nat /\ waiting' \in Nat
             /\ pool' + others <= Slots
             /\ cl'.need > 0 => cl'.held > 0 \/ cl'.implicit
             /\ cl'.receiving <=> (cl'.open /\ cl'.need > 0)
             /\ cl'.held + B2N(cl'.implicit) <= Slots - pool' - others + 1
             /\ waiting' >= cl'.need + B2N(cl'.implicit)
  <2>1. /\ cl' \in Client
        /\ cl'.held = c.held - 1
        /\ cl'.receiving <=> (cl'.open /\ cl'.need > 0)
        /\ \/ /\ c.held = 1 /\ c.need > 0 /\ (cl'.open <=> c.open)
              /\ cl'.implicit /\ cl'.need = c.need - 1
           \/ /\ c.held = 1 /\ c.need = 0 /\ (cl'.open <=> c.open)
              /\ (cl'.implicit <=> c.implicit) /\ cl'.need = 0
           \/ /\ c.held > 1 /\ (cl'.implicit <=> c.implicit)
              /\ cl'.need = c.need
              /\ cl'.open <=> (c.open /\ ok)
    BY <1>3, ReleaseFacts, SMTT(30)
  <2>2. pool' = (IF c.held # 1 /\ c.open /\ ok THEN p + 1 ELSE p)
    BY <1>3 DEF SendsToken
  <2>3. CASE c.held = 1
    BY <1>0, <1>1, <1>3, <2>1, <2>2, <2>3, SMTT(30) DEF B2N
  <2>4. CASE c.held # 1
    BY <1>0, <1>1, <1>3, <2>1, <2>2, <2>4, SMTT(30) DEF B2N
  <2> QED BY <2>3, <2>4
<1> QED
  BY <1>2, <1>3 DEF OnToken, Outcomes

\* Backed is inductive.
LEMMA NextBacked == Backed /\ [Next]_vars => Backed'
<1> SUFFICES ASSUME Backed, [Next]_vars PROVE Backed'
  OBVIOUS
<1>0. /\ cl \in Client /\ cl.held \in Nat /\ cl.need \in Nat
      /\ pool \in Nat /\ others \in Nat /\ pool <= Slots /\ others <= Slots
      /\ fresh \in Nat /\ requests \in 0 .. MaxRequests /\ waiting \in Nat
      /\ phase \in {"idle", "poll", "timers"}
      /\ B2N(cl.implicit) \in 0 .. 1 /\ Slots \in Nat /\ MaxRequests \in Nat
  BY SMTT(30) DEF Backed, TypeOK, Client, B2N
<1>1. /\ pool + others <= Slots
      /\ cl.need > 0 => cl.held > 0 \/ cl.implicit
      /\ cl.receiving <=> (cl.open /\ cl.need > 0)
      /\ cl.held + B2N(cl.implicit) <= Slots - pool - others + 1
      /\ waiting >= cl.need + B2N(cl.implicit)
      /\ idleQueued => phase = "idle" /\ cl.implicit
  BY DEF Backed, NeedIsBacked, ReadingMatchesNeed, Paid, Taken
<1>2. idleQueued \in BOOLEAN
  BY DEF Backed, TypeOK
<1> DEFINE Parts ==
      /\ cl' \in Client
      /\ pool' \in 0 .. Slots /\ others' \in 0 .. Slots
      /\ fresh' \in Nat /\ waiting' \in Nat
      /\ pool' + others' <= Slots
      /\ cl'.need > 0 => cl'.held > 0 \/ cl'.implicit
      /\ cl'.receiving <=> (cl'.open /\ cl'.need > 0)
      /\ cl'.held + B2N(cl'.implicit) <= Slots - pool' - others' + 1
      /\ waiting' >= cl'.need + B2N(cl'.implicit)
<1> DEFINE LoopParts ==
      /\ phase' \in {"idle", "poll", "timers"}
      /\ idleQueued' \in BOOLEAN
      /\ requests' \in 0 .. MaxRequests
      /\ idleQueued' => phase' = "idle" /\ cl'.implicit
<1>3. ASSUME Parts, LoopParts PROVE Backed'
  BY <1>3
  DEF Backed, TypeOK, NeedIsBacked, ReadingMatchesNeed, Paid, Taken
<1>4. CASE RequestToken
  <2>1. PICK ok \in BOOLEAN : cl' = RequestTokenOp(cl, ok)
    BY <1>4 DEF RequestToken, Outcomes
  <2>2. /\ cl' \in Client /\ cl'.held = cl.held
        /\ cl'.receiving <=> (cl'.open /\ cl'.need > 0)
        /\ \/ /\ cl.held = 0 /\ ~cl.implicit
              /\ cl'.implicit /\ cl'.need = cl.need
           \/ /\ cl.held > 0 \/ cl.implicit
              /\ cl'.implicit <=> cl.implicit
              /\ cl'.need = cl.need + 1
    BY <1>0, <1>1, <2>1, RequestFacts
  <2>3. Parts
    BY <1>0, <1>1, <1>4, <2>2, SMTT(30) DEF RequestToken, B2N
  <2>4. LoopParts
    BY <1>0, <1>1, <1>2, <1>4, <2>2, SMTT(30) DEF RequestToken
  <2> QED BY <1>3, <2>3, <2>4
<1>5. CASE ReleaseToken
  <2>1. PICK ok \in BOOLEAN :
           /\ cl' = ReleaseTokenOp(cl, ok)
           /\ pool' = IF SendsToken(cl) /\ ok THEN pool + 1 ELSE pool
    BY <1>5 DEF ReleaseToken, Outcomes
  <2>2. cl.held > 0
    BY <1>0, <1>5, SMTT(30) DEF ReleaseToken
  <2>3. /\ cl' \in Client
        /\ cl'.held = cl.held - 1
        /\ cl'.receiving <=> (cl'.open /\ cl'.need > 0)
        /\ \/ /\ cl.held = 1 /\ cl.need > 0 /\ (cl'.open <=> cl.open)
              /\ cl'.implicit /\ cl'.need = cl.need - 1
           \/ /\ cl.held = 1 /\ cl.need = 0 /\ (cl'.open <=> cl.open)
              /\ (cl'.implicit <=> cl.implicit) /\ cl'.need = 0
           \/ /\ cl.held > 1 /\ (cl'.implicit <=> cl.implicit)
              /\ cl'.need = cl.need
              /\ cl'.open <=> (cl.open /\ ok)
    <3>1. cl \in Client /\ (cl.receiving <=> (cl.open /\ cl.need > 0))
      BY <1>0, <1>1
    <3> QED BY <2>1, <2>2, <3>1, ReleaseFacts
  <2>4. pool' = (IF cl.held # 1 /\ cl.open /\ ok THEN pool + 1 ELSE pool)
    BY <2>1 DEF SendsToken
  <2>5. others' = others /\ fresh' = fresh /\ waiting' = waiting
    BY <1>5 DEF ReleaseToken
  <2>6. Parts
    <3>1. CASE cl.held = 1
      BY <1>0, <1>1, <2>3, <2>4, <2>5, <3>1, SMTT(30) DEF B2N
    <3>2. CASE cl.held # 1
      BY <1>0, <1>1, <2>2, <2>3, <2>4, <2>5, <3>2, SMTT(30) DEF B2N
    <3> QED BY <3>1, <3>2
  <2>7. LoopParts
    BY <1>0, <1>1, <1>2, <1>5 DEF ReleaseToken
  <2> QED BY <1>3, <2>6, <2>7
<1>6. CASE ImplicitTokenIdle
  <2> DEFINE c == HoldToken([cl EXCEPT !.implicit = FALSE])
  <2>1. /\ c \in Client /\ c.held = cl.held + 1 /\ c.need = cl.need
        /\ ~c.implicit
        /\ (c.open <=> cl.open) /\ (c.receiving <=> cl.receiving)
    BY <1>0, IdleFacts
  <2>2. OnToken(c, pool) /\ cl.implicit /\ idleQueued' = FALSE
    BY <1>1, <1>6 DEF ImplicitTokenIdle
  <2>3. UNCHANGED <<others, phase, requests>>
    BY <1>6 DEF ImplicitTokenIdle
  <2> HIDE DEF c
  <2>4. Parts
    <3>1. /\ waiting > 0 /\ waiting > c.need + B2N(c.implicit) /\ c.held > 0
          /\ c.receiving <=> (c.open /\ c.need > 0)
          /\ c.held + B2N(c.implicit) <= Slots - pool - others + 1
      BY <1>0, <1>1, <2>1, <2>2, SMTT(30) DEF B2N
    <3>2. TypeOK /\ pool \in 0 .. Slots
      BY DEF Backed, TypeOK
    <3> QED BY <1>0, <1>1, <2>1, <2>2, <2>3, <3>1, <3>2, OnTokenBacked,
               SMTT(30)
  <2>5. idleQueued' \in BOOLEAN /\ ~idleQueued'
    BY <2>2
  <2>6. LoopParts
    BY <1>0, <2>3, <2>5
  <2> QED BY <1>3, <2>4, <2>6
<1>7. CASE ReceiveToken
  <2> DEFINE c == ReceivedToken(cl)
  <2>1. cl.open /\ cl.receiving /\ pool > 0 /\ OnToken(c, pool - 1)
    BY <1>7 DEF ReceiveToken, MayReceive
  <2>2. /\ c \in Client /\ c.held = cl.held + 1 /\ c.need = cl.need - 1
        /\ (c.open <=> cl.open) /\ (c.implicit <=> cl.implicit)
        /\ c.receiving <=> (c.open /\ c.need > 0)
    BY <1>0, <1>1, <2>1, ReceiveFacts
  <2>3. UNCHANGED <<others, phase, idleQueued, requests>>
    BY <1>7 DEF ReceiveToken
  <2>4. ~idleQueued
    BY <1>1, <1>7 DEF ReceiveToken
  <2> HIDE DEF c
  <2>5. Parts
    <3>1. /\ waiting > 0 /\ waiting > c.need + B2N(c.implicit) /\ c.held > 0
          /\ pool - 1 \in 0 .. Slots /\ pool - 1 + others <= Slots
          /\ c.held + B2N(c.implicit) <= Slots - (pool - 1) - others + 1
      BY <1>0, <1>1, <2>1, <2>2, SMTT(30) DEF B2N
    <3>2. TypeOK
      BY DEF Backed
    <3> QED BY <1>0, <2>1, <2>2, <2>3, <3>1, <3>2, OnTokenBacked, SMTT(30)
  <2>6. LoopParts
    BY <1>0, <1>2, <2>3, <2>4
  <2> QED BY <1>3, <2>5, <2>6
<1>8. CASE ConnectionBreaks
  <2>1. cl' = Disconnect(cl) /\ UNCHANGED <<pool, others, phase, idleQueued,
                                            fresh, requests, waiting>>
    BY <1>8 DEF ConnectionBreaks
  <2>2. /\ cl' \in Client
        /\ ~cl'.open /\ ~cl'.receiving /\ (cl'.implicit <=> cl.implicit)
        /\ cl'.held = cl.held /\ cl'.need = cl.need
    BY <1>0, <1>1, <2>1, DisconnectFacts
  <2>3. Parts
    BY <1>0, <1>1, <2>1, <2>2, SMTT(30) DEF B2N
  <2>4. LoopParts
    BY <1>0, <1>1, <1>2, <2>1, <2>2
  <2> QED BY <1>3, <2>3, <2>4
<1>9. CASE EnterPhase
  <2>1. UNCHANGED <<cl, pool, others, requests, waiting>> /\ fresh' = 0
    BY <1>9 DEF EnterPhase
  <2>2. Parts
    BY <1>0, <1>1, <2>1, SMTT(30)
  <2>3. LoopParts
    <3>1. phase' \in {"idle", "poll", "timers"}
      BY <1>0, <1>9 DEF EnterPhase
    <3>2. idleQueued' \in BOOLEAN
      BY <1>9 DEF EnterPhase
    <3>3. idleQueued' => phase = "timers" /\ cl.implicit
      BY <1>9 DEF EnterPhase
    <3>4. phase = "timers" => phase' = "idle"
      BY <1>9 DEF EnterPhase
    <3> QED BY <1>0, <2>1, <3>1, <3>2, <3>3, <3>4
  <2> QED BY <1>3, <2>2, <2>3
<1>10. CASE OtherTakes \/ OtherReturns
  <2>1. Parts
    BY <1>0, <1>1, <1>10, SMTT(30) DEF OtherTakes, OtherReturns
  <2>2. LoopParts
    BY <1>0, <1>1, <1>2, <1>10, SMTT(30) DEF OtherTakes, OtherReturns
  <2> QED BY <1>3, <2>1, <2>2
<1>11. CASE UNCHANGED vars
  <2>1. Parts
    BY <1>0, <1>1, <1>11, SMTT(30) DEF vars
  <2>2. LoopParts
    BY <1>0, <1>1, <1>2, <1>11 DEF vars
  <2> QED BY <1>3, <2>1, <2>2
<1> QED
  BY <1>4, <1>5, <1>6, <1>7, <1>8, <1>9, <1>10, <1>11 DEF Next

-----------------------------------------------------------------------------
\* OnToken keeps the books exact when a token that it releases at once is not
\* the only one in hand while the implicit one is still due.
LEMMA OnTokenExact ==
  ASSUME TypeOK, NEW c \in Client, NEW p \in 0 .. Slots, OnToken(c, p),
         waiting - 1 = c.need + B2N(c.implicit), c.held > 0,
         c.receiving <=> (c.open /\ c.need > 0),
         c.open => Slots - p - others = c.held + B2N(c.implicit) - 1,
         SyncRelease /\ c.held = 1 => ~c.implicit
  PROVE  /\ waiting' = cl'.need + B2N(cl'.implicit)
         /\ cl'.open => Slots - pool' - others =
                          IF cl'.held = 0 THEN 0
                          ELSE cl'.held + B2N(cl'.implicit) - 1
         /\ \/ /\ cl' = c
               /\ fresh' = IF phase = "poll" THEN fresh + 1 ELSE fresh
            \/ /\ SyncRelease
               /\ cl'.implicit => c.implicit \/ cl'.held = 0
               /\ cl'.held = c.held - 1
<1>0. /\ c.held \in Nat /\ c.need \in Nat /\ others \in Nat
      /\ waiting \in Nat /\ p \in Nat /\ Slots \in Nat
      /\ B2N(c.implicit) \in 0 .. 1
  BY SMTT(30) DEF TypeOK, Client, B2N
<1>1. waiting' = waiting - 1
  BY DEF OnToken
<1>2. CASE cl' = c /\ pool' = p
             /\ fresh' = IF phase = "poll" THEN fresh + 1 ELSE fresh
  BY <1>0, <1>1, <1>2, SMTT(30)
<1>3. ASSUME NEW ok \in BOOLEAN, cl' = ReleaseTokenOp(c, ok), SyncRelease,
             pool' = IF SendsToken(c) /\ ok THEN p + 1 ELSE p
      PROVE  /\ waiting' = cl'.need + B2N(cl'.implicit)
             /\ cl'.open => Slots - pool' - others =
                              IF cl'.held = 0 THEN 0
                              ELSE cl'.held + B2N(cl'.implicit) - 1
             /\ cl'.implicit => c.implicit \/ cl'.held = 0
             /\ cl'.held = c.held - 1
  <2>1. /\ cl'.held = c.held - 1
        /\ \/ /\ c.held = 1 /\ c.need > 0 /\ (cl'.open <=> c.open)
              /\ cl'.implicit /\ cl'.need = c.need - 1
           \/ /\ c.held = 1 /\ c.need = 0 /\ (cl'.open <=> c.open)
              /\ (cl'.implicit <=> c.implicit) /\ cl'.need = 0
           \/ /\ c.held > 1 /\ (cl'.implicit <=> c.implicit)
              /\ cl'.need = c.need
              /\ cl'.open <=> (c.open /\ ok)
    BY <1>3, ReleaseFacts, SMTT(30)
  <2>2. pool' = (IF c.held # 1 /\ c.open /\ ok THEN p + 1 ELSE p)
    BY <1>3 DEF SendsToken
  <2>3. CASE c.held = 1
    BY <1>0, <1>1, <1>3, <2>1, <2>2, <2>3, SMTT(30) DEF B2N
  <2>4. CASE c.held # 1
    BY <1>0, <1>1, <2>1, <2>2, <2>4, SMTT(30) DEF B2N
  <2> QED BY <2>3, <2>4
<1> QED
  BY <1>2, <1>3 DEF OnToken, Outcomes

\* Exact is inductive where OnToken and the platform get along.
LEMMA NextExact ==
  ASSUME Orderly
  PROVE  Exact /\ [Next]_vars => Exact'
<1> SUFFICES ASSUME Exact, [Next]_vars PROVE Exact'
  OBVIOUS
<1>0. /\ cl \in Client /\ cl.held \in Nat /\ cl.need \in Nat /\ TypeOK
      /\ pool \in Nat /\ others \in Nat /\ pool \in 0 .. Slots
      /\ fresh \in Nat /\ waiting \in Nat /\ Slots \in Nat
      /\ phase \in {"idle", "poll", "timers"}
      /\ B2N(cl.implicit) \in 0 .. 1
  BY SMTT(30) DEF Exact, Backed, TypeOK, Client, B2N
<1>1. /\ cl.need > 0 => cl.held > 0 \/ cl.implicit
      /\ cl.receiving <=> (cl.open /\ cl.need > 0)
      /\ idleQueued => phase = "idle" /\ cl.implicit
      /\ waiting = cl.need + B2N(cl.implicit)
      /\ cl.open => Slots - pool - others =
                      IF cl.held = 0 THEN 0
                      ELSE cl.held + B2N(cl.implicit) - 1
  BY DEF Exact, Backed, NeedIsBacked, ReadingMatchesNeed, NoRequestLost,
         TokensReturned, Taken
<1>2. cl.implicit => /\ phase = "poll" => cl.held = fresh
                     /\ phase = "idle" /\ ~idleQueued => cl.held = 0
                     /\ Platform = "win32" => cl.held = 0
  BY DEF Exact, ImplicitDue
<1>3. Backed'
  BY NextBacked DEF Exact
<1> DEFINE Books ==
      /\ waiting' = cl'.need + B2N(cl'.implicit)
      /\ cl'.open => Slots - pool' - others' =
                       IF cl'.held = 0 THEN 0
                       ELSE cl'.held + B2N(cl'.implicit) - 1
<1> DEFINE Due ==
      cl'.implicit => /\ phase' = "poll" => cl'.held = fresh'
                      /\ phase' = "idle" /\ ~idleQueued' => cl'.held = 0
                      /\ Platform = "win32" => cl'.held = 0
<1>4. ASSUME Books, Due PROVE Exact'
  BY <1>3, <1>4 DEF Exact, ImplicitDue, NoRequestLost, TokensReturned, Taken
<1>5. CASE RequestToken
  <2>1. PICK ok \in BOOLEAN : cl' = RequestTokenOp(cl, ok)
    BY <1>5 DEF RequestToken, Outcomes
  <2>2. /\ cl'.held = cl.held /\ (cl'.open => cl.open)
        /\ \/ /\ cl.held = 0 /\ ~cl.implicit
              /\ cl'.implicit /\ cl'.need = cl.need
           \/ /\ cl.held > 0 \/ cl.implicit
              /\ cl'.implicit <=> cl.implicit
              /\ cl'.need = cl.need + 1
    BY <1>0, <1>1, <2>1, RequestFacts
  <2>3. Books
    BY <1>0, <1>1, <1>5, <2>2, SMTT(30) DEF RequestToken, B2N
  <2>4. Due
    BY <1>0, <1>2, <1>5, <2>2 DEF RequestToken
  <2> QED BY <1>4, <2>3, <2>4
<1>6. CASE ReleaseToken
  <2>1. PICK ok \in BOOLEAN :
           /\ cl' = ReleaseTokenOp(cl, ok)
           /\ pool' = IF SendsToken(cl) /\ ok THEN pool + 1 ELSE pool
    BY <1>6 DEF ReleaseToken, Outcomes
  <2>2. cl.held > fresh /\ cl.held > 0 /\ phase = "poll"
    BY <1>0, <1>6, SMTT(30) DEF ReleaseToken
  <2>3. ~cl.implicit
    BY <1>0, <1>2, <2>2, SMTT(30)
  <2>4. /\ cl'.held = cl.held - 1
        /\ \/ /\ cl.held = 1 /\ cl.need > 0 /\ (cl'.open <=> cl.open)
              /\ cl'.implicit /\ cl'.need = cl.need - 1
           \/ /\ cl.held = 1 /\ cl.need = 0 /\ (cl'.open <=> cl.open)
              /\ (cl'.implicit <=> cl.implicit) /\ cl'.need = 0
           \/ /\ cl.held > 1 /\ (cl'.implicit <=> cl.implicit)
              /\ cl'.need = cl.need
              /\ cl'.open <=> (cl.open /\ ok)
    BY <1>0, <1>1, <2>1, <2>2, ReleaseFacts, SMTT(30)
  <2>5. pool' = (IF cl.held # 1 /\ cl.open /\ ok THEN pool + 1 ELSE pool)
    BY <2>1 DEF SendsToken
  <2>6. UNCHANGED <<others, phase, idleQueued, fresh, waiting>>
    BY <1>6 DEF ReleaseToken
  <2>7. Books
    <3>1. CASE cl.held = 1
      BY <1>0, <1>1, <2>3, <2>4, <2>5, <2>6, <3>1, SMTT(30) DEF B2N
    <3>2. CASE cl.held # 1
      BY <1>0, <1>1, <2>3, <2>4, <2>5, <2>6, <3>2, SMTT(30) DEF B2N
    <3> QED BY <3>1, <3>2
  <2>8. Due
    BY <1>0, <2>2, <2>3, <2>4, <2>6, SMTT(30)
  <2> QED BY <1>4, <2>7, <2>8
<1>7. CASE ImplicitTokenIdle
  <2> DEFINE c == HoldToken([cl EXCEPT !.implicit = FALSE])
  <2>1. /\ c \in Client /\ c.held = cl.held + 1 /\ c.need = cl.need
        /\ ~c.implicit
        /\ (c.open <=> cl.open) /\ (c.receiving <=> cl.receiving)
    BY <1>0, IdleFacts
  <2>2. OnToken(c, pool) /\ cl.implicit /\ phase = "idle"
    BY <1>1, <1>7 DEF ImplicitTokenIdle
  <2>3. UNCHANGED <<others, phase>>
    BY <1>7 DEF ImplicitTokenIdle
  <2> HIDE DEF c
  <2>4. /\ waiting - 1 = c.need + B2N(c.implicit) /\ c.held > 0
        /\ c.receiving <=> (c.open /\ c.need > 0)
        /\ c.open => Slots - pool - others = c.held + B2N(c.implicit) - 1
    BY <1>0, <1>1, <2>1, <2>2, SMTT(30) DEF B2N
  <2>5. /\ Books
        /\ \/ cl' = c
           \/ SyncRelease /\ (cl'.implicit => c.implicit \/ cl'.held = 0)
    BY <1>0, <2>1, <2>2, <2>3, <2>4, OnTokenExact
  <2>6. cl'.implicit => cl'.held = 0
    BY <2>1, <2>5
  <2>7. Due
    BY <2>2, <2>3, <2>6
  <2> QED BY <1>4, <2>5, <2>7
<1>8. CASE ReceiveToken
  <2> DEFINE c == ReceivedToken(cl)
  <2>1. /\ cl.open /\ cl.receiving /\ pool > 0 /\ OnToken(c, pool - 1)
        /\ Platform = "win32" => ~cl.implicit
        /\ phase = IF Platform = "posix" THEN "poll" ELSE "timers"
    BY <1>8 DEF ReceiveToken, MayReceive
  <2>2. /\ c \in Client /\ c.held = cl.held + 1 /\ c.need = cl.need - 1
        /\ (c.open <=> cl.open) /\ (c.implicit <=> cl.implicit)
        /\ c.receiving <=> (c.open /\ c.need > 0)
    BY <1>0, <1>1, <2>1, ReceiveFacts
  <2>3. UNCHANGED <<others, phase, idleQueued>>
    BY <1>8 DEF ReceiveToken
  <2> HIDE DEF c
  <2>4. SyncRelease => Platform = "win32"
    BY DEF Orderly
  <2>5. /\ waiting - 1 = c.need + B2N(c.implicit) /\ c.held > 0
        /\ pool - 1 \in 0 .. Slots
        /\ c.open => Slots - (pool - 1) - others
                       = c.held + B2N(c.implicit) - 1
        /\ SyncRelease /\ c.held = 1 => ~c.implicit
    <3>1. cl.need > 0 /\ c.held \in Nat /\ c.need \in Nat
      BY <1>0, <1>1, <2>1, <2>2 DEF Client
    <3>2. CASE cl.implicit
      <4>1. B2N(cl.implicit) = 1 /\ B2N(c.implicit) = 1
        BY <2>2, <3>2 DEF B2N
      <4>2. Slots - pool - others = cl.held
        BY <1>0, <1>1, <2>1, <4>1, SMTT(30)
      <4>3. Slots - (pool - 1) - others = cl.held + 1
        <5>1. \A s, p, o, h \in Int : s - p - o = h => s - (p - 1) - o = h + 1
          BY SMTT(30)
        <5> QED BY <1>0, <4>2, <5>1, SMTT(30)
      <4>4. SyncRelease => FALSE
        BY <2>1, <2>4, <3>2
      <4> QED BY <1>0, <1>1, <2>1, <2>2, <3>1, <4>1, <4>3, <4>4, SMTT(30)
    <3>3. CASE ~cl.implicit
      BY <1>0, <1>1, <2>1, <2>2, <3>1, <3>3, SMTT(30) DEF B2N
    <3> QED BY <3>2, <3>3
  <2>6. /\ Books
        /\ \/ /\ cl' = c
              /\ fresh' = IF phase = "poll" THEN fresh + 1 ELSE fresh
           \/ /\ SyncRelease
              /\ cl'.implicit => c.implicit \/ cl'.held = 0
    BY <1>0, <2>1, <2>2, <2>3, <2>5, OnTokenExact
  <2>7. Due
    <3>1. CASE Platform = "win32"
      BY <2>1, <2>2, <2>3, <2>6, <3>1
    <3>2. CASE Platform = "posix"
      BY <1>0, <1>2, <2>1, <2>2, <2>3, <2>4, <2>6, <3>2
    <3> QED BY <3>1, <3>2
  <2> QED BY <1>4, <2>6, <2>7
<1>9. CASE ConnectionBreaks
  <2>1. cl' = Disconnect(cl) /\ UNCHANGED <<pool, others, phase, idleQueued,
                                            fresh, waiting>>
    BY <1>9 DEF ConnectionBreaks
  <2>2. /\ ~cl'.open /\ (cl'.implicit <=> cl.implicit)
        /\ cl'.held = cl.held /\ cl'.need = cl.need
    BY <1>0, <1>1, <2>1, DisconnectFacts
  <2>3. Books
    BY <1>0, <1>1, <2>1, <2>2 DEF B2N
  <2>4. Due
    BY <1>2, <2>1, <2>2
  <2> QED BY <1>4, <2>3, <2>4
<1>10. CASE EnterPhase
  <2>1. UNCHANGED <<cl, pool, others, waiting>> /\ fresh' = 0 /\ ~idleQueued
    BY <1>10 DEF EnterPhase
  <2>2. Books
    BY <1>1, <2>1
  <2>3. /\ phase = "idle" => phase' = "poll"
        /\ phase = "poll" => phase' = "timers"
        /\ phase = "timers" => phase' = "idle"
    BY <1>10 DEF EnterPhase
  <2>4. phase = "timers" /\ cl.implicit => idleQueued'
    BY <1>10 DEF EnterPhase
  <2>5. Due
    BY <1>0, <1>2, <2>1, <2>3, <2>4
  <2> QED BY <1>4, <2>2, <2>5
<1>11. CASE OtherTakes \/ OtherReturns
  <2>0. cl' = cl /\ waiting' = waiting
    BY <1>11 DEF OtherTakes, OtherReturns
  <2>1. Books
    <3>1. Slots - pool' - others' = Slots - pool - others
      <4>1. \A s, p, o \in Int : /\ s - (p - 1) - (o + 1) = s - p - o
                                 /\ s - (p + 1) - (o - 1) = s - p - o
        BY SMTT(30)
      <4>2. \/ pool' = pool - 1 /\ others' = others + 1
            \/ pool' = pool + 1 /\ others' = others - 1
        BY <1>11 DEF OtherTakes, OtherReturns
      <4>3. Slots \in Int /\ pool \in Int /\ others \in Int
        BY <1>0, SMTT(30)
      <4> QED BY <4>1, <4>2, <4>3, SMTT(30)
    <3> QED BY <1>1, <2>0, <3>1
  <2>2. Due
    BY <1>2, <1>11 DEF OtherTakes, OtherReturns
  <2> QED BY <1>4, <2>1, <2>2
<1>12. CASE UNCHANGED vars
  <2>1. Books
    BY <1>0, <1>1, <1>12 DEF vars
  <2>2. Due
    BY <1>2, <1>12 DEF vars
  <2> QED BY <1>4, <2>1, <2>2
<1> QED
  BY <1>5, <1>6, <1>7, <1>8, <1>9, <1>10, <1>11, <1>12 DEF Next

-----------------------------------------------------------------------------
\* On both platforms, and whatever OnToken does with its token, the types hold.
THEOREM TypeCorrect == Spec => []TypeOK
<1>1. Backed => TypeOK
  BY DEF Backed
<1> QED BY <1>1, InitBacked, NextBacked, PTL DEF Spec

\* ctest never holds more tokens than it took from the job server, plus the
\* implicit one, whatever the platform and OnToken do.
THEOREM NeverOvercommits == Spec => []NoOvercommit
<1>1. Backed => NoOvercommit
  BY SMTT(30) DEF Backed, TypeOK, Client, Paid, NoOvercommit, Taken, B2N
<1> QED BY <1>1, InitBacked, NextBacked, PTL DEF Spec

\* Needed tokens never wait on the job server alone.
THEOREM NeedAlwaysBacked == Spec => []NeedIsBacked
<1>1. Backed => NeedIsBacked
  BY DEF Backed
<1> QED BY <1>1, InitBacked, NextBacked, PTL DEF Spec

\* The exact books hold in every reachable state.
LEMMA ExactAlways ==
  ASSUME Orderly
  PROVE  Spec => []Exact
<1>1. Init => Exact
  <2> SUFFICES ASSUME Init PROVE Exact
    OBVIOUS
  <2>1. ~cl.implicit /\ cl.held = 0 /\ cl.need = 0
    BY DEF Init, Connected
  <2>2. waiting = 0 /\ Taken = 0
    BY SMTT(30) DEF Init, Taken
  <2> QED
    BY <2>1, <2>2, InitBacked, SMTT(30)
    DEF Exact, ImplicitDue, NoRequestLost, TokensReturned, B2N
<1>2. Exact /\ [Next]_vars => Exact'
  BY NextExact
<1> QED BY <1>1, <1>2, PTL DEF Spec

\* No call of RequestToken is forgotten, for any number of tokens and
\* requests, on Windows or when OnToken keeps its token until it has returned.
THEOREM RequestsNeverLost ==
  ASSUME Orderly
  PROVE  Spec => []NoRequestLost
<1>1. Exact => NoRequestLost
  BY DEF Exact
<1> QED BY <1>1, ExactAlways, PTL

\* Under the same condition every explicit token goes back to the job server.
THEOREM BooksExact ==
  ASSUME Orderly
  PROVE  Spec => []TokensReturned
<1>1. Exact => TokensReturned
  BY DEF Exact
<1> QED BY <1>1, ExactAlways, PTL
=============================================================================
