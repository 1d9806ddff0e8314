------------------------- MODULE UserSessions_proofs --------------------------
(* The sessions of a user stay few, for any number of users, workers,      *)
(* tokens and requests at the same time.  The liveness properties of       *)
(* UserSessions are outside these proofs.                                  *)
EXTENDS UserSessions, FiniteSetTheorems, TLAPS

LogsInAs(r, u) == tasks[r].kind = "logs in" /\ tasks[r].user = u

(* The tokens none of the logins in W is going to revoke.                  *)
Unseen(u, W) == {t \in live[u] : \A r \in W : t \notin tasks[r].seen}

Entries(k) == [value : BOOLEAN, left : 1 .. Ttl(k)] \union {Nil}

StoreOK ==
  /\ store = [w \in Workers |-> [k \in Keys |-> store[w][k]]]
  /\ \A w \in Workers, k \in Keys : store[w][k] \in Entries(k)

(* Whichever of the logins in progress commit first, what they leave of    *)
(* the tokens and the tokens they bring fit together: so a login that saw  *)
(* only a part of the tokens was in progress when the others came.         *)
Room(u) ==
  /\ IsFiniteSet(live[u])
  /\ \A W \in SUBSET Requests :
       (\A r \in W : LogsInAs(r, u)) =>
         Cardinality(Unseen(u, W)) + Cardinality(W) <= Cardinality(Requests)

SessionsInv ==
  /\ truth \in [Keys -> BOOLEAN]
  /\ StoreOK
  /\ live \in [Users -> SUBSET Tokens]
  /\ access \in [Users -> 0 .. AccessTtl]
  /\ tasks \in [Requests -> Tasks]
  /\ \A u \in Users : Room(u)

-----------------------------------------------------------------------------
(* What the kind of a task tells about it.                                 *)
LEMMA TaskShapes ==
  ASSUME NEW t \in Tasks
  PROVE  /\ t.kind = "fills" => t.at \in Workers /\ t.key \in Keys /\ t.value \in BOOLEAN
         /\ t.kind = "clears" => t.at \in Workers /\ t.key \in Keys
         /\ t.kind = "logs in" => t.user \in Users /\ t.seen \in SUBSET Tokens
         /\ t.kind = "refreshes" => t.user \in Users
<1>1. CASE t = Idle
  BY <1>1 DEF Idle
<1>2. CASE \E w \in Workers, k \in Keys, v \in BOOLEAN : t = Fills(w, k, v)
  BY <1>2 DEF Fills
<1>3. CASE \E w \in Workers, k \in Keys : t = Clears(w, k)
  BY <1>3 DEF Clears
<1>4. CASE \E u \in Users, T \in SUBSET Tokens : t = LogsIn(u, T)
  <2>1. PICK u \in Users, T \in SUBSET Tokens : t = LogsIn(u, T)
    BY <1>4
  <2>2. t.kind = "logs in" /\ t.user = u /\ t.seen = T
    BY <2>1 DEF LogsIn
  <2>3. QED
    BY <2>2
<1>5. CASE \E u \in Users : t = Refreshes(u)
  BY <1>5 DEF Refreshes
<1>6. \/ t = Idle
      \/ \E w \in Workers, k \in Keys, v \in BOOLEAN : t = Fills(w, k, v)
      \/ \E w \in Workers, k \in Keys : t = Clears(w, k)
      \/ \E u \in Users, T \in SUBSET Tokens : t = LogsIn(u, T)
      \/ \E u \in Users : t = Refreshes(u)
  BY DEF Tasks
<1>7. QED
  BY <1>1, <1>2, <1>3, <1>4, <1>5, <1>6

LEMMA TaskTypes ==
  /\ Idle \in Tasks
  /\ \A w \in Workers, k \in Keys, v \in BOOLEAN : Fills(w, k, v) \in Tasks
  /\ \A w \in Workers, k \in Keys : Clears(w, k) \in Tasks
  /\ \A u \in Users, T \in SUBSET Tokens : LogsIn(u, T) \in Tasks
  /\ \A u \in Users : Refreshes(u) \in Tasks
BY DEF Tasks

LEMMA TtlPositive == ASSUME NEW k \in Keys PROVE Ttl(k) \in Nat \ {0}
<1>1. CASE k \in Users
  BY <1>1, SessionsAssumption DEF Ttl
<1>2. CASE k \in Reports
  BY <1>2, SessionsAssumption DEF Ttl
<1>3. CASE k \notin Users \union Reports
  BY <1>3, SessionsAssumption DEF Ttl
<1>4. QED
  BY <1>1, <1>2, <1>3

LEMMA RequestCount == IsFiniteSet(Requests) /\ Cardinality(Requests) \in Nat
BY SessionsAssumption, FS_CardinalityType

LEMMA GroupCount ==
  ASSUME NEW W \in SUBSET Requests
  PROVE  IsFiniteSet(W) /\ Cardinality(W) \in Nat /\ Cardinality(W) <= Cardinality(Requests)
BY RequestCount, FS_Subset, FS_CardinalityType

-----------------------------------------------------------------------------
LEMMA SessionsStart == SessionsInit => SessionsInv
<1> SUFFICES ASSUME SessionsInit PROVE SessionsInv
  OBVIOUS
<1>1. StoreOK
  BY DEF SessionsInit, StoreOK, Entries
<1>2. ASSUME NEW u \in Users PROVE Room(u)
  <2>1. live[u] = {} /\ IsFiniteSet({}) /\ Cardinality({}) = 0
    BY FS_EmptySet DEF SessionsInit
  <2>2. ASSUME NEW W \in SUBSET Requests
        PROVE  Cardinality(Unseen(u, W)) + Cardinality(W) <= Cardinality(Requests)
    <3>1. Unseen(u, W) = {}
      BY <2>1 DEF Unseen
    <3>2. QED
      BY <2>1, <3>1, GroupCount, RequestCount
  <2>3. QED
    BY <2>1, <2>2 DEF Room
<1>3. QED
  BY <1>1, <1>2, TaskTypes, SessionsAssumption DEF SessionsInit, SessionsInv

(* Tokens that go, and requests that end or start something other than a   *)
(* login, leave room.                                                      *)
LEMMA RoomStays ==
  ASSUME NEW u \in Users, Room(u), live'[u] \subseteq live[u],
         \A r \in Requests : LogsInAs(r, u)' => LogsInAs(r, u) /\ tasks'[r] = tasks[r]
  PROVE  Room(u)'
<1>1. IsFiniteSet(live'[u])
  BY FS_Subset DEF Room
<1>2. ASSUME NEW W \in SUBSET Requests, \A r \in W : LogsInAs(r, u)'
      PROVE  Cardinality(Unseen(u, W)') + Cardinality(W) <= Cardinality(Requests)
  <2>1. Unseen(u, W)' \subseteq Unseen(u, W)
    BY <1>2 DEF Unseen
  <2>2. IsFiniteSet(Unseen(u, W))
    BY FS_Subset DEF Room, Unseen
  <2>3. /\ Cardinality(Unseen(u, W)') \in Nat /\ Cardinality(Unseen(u, W)) \in Nat
        /\ Cardinality(Unseen(u, W)') <= Cardinality(Unseen(u, W))
    BY <2>1, <2>2, FS_Subset, FS_CardinalityType
  <2>4. Cardinality(Unseen(u, W)) + Cardinality(W) <= Cardinality(Requests)
    BY <1>2 DEF Room
  <2>5. QED
    BY <2>3, <2>4, GroupCount, RequestCount
<1>3. QED
  BY <1>1, <1>2 DEF Room

(* A login that has read every token counts as one that revokes them all.  *)
LEMMA LoginLeavesRoom ==
  ASSUME SessionsInv, NEW r \in Requests, NEW u \in Users, Login(r, u),
         NEW v \in Users
  PROVE  Room(v)'
<1>1. /\ live' = live
      /\ tasks' = [tasks EXCEPT ![r] = LogsIn(u, live[u])]
      /\ Room(v)
  BY DEF Login, Turns, SessionsInv
<1>2. CASE v # u
  BY <1>1, <1>2, RoomStays DEF LogsInAs, LogsIn, SessionsInv
<1>3. CASE v = u
  <2>1. ASSUME NEW W \in SUBSET Requests, \A q \in W : LogsInAs(q, u)'
        PROVE  Cardinality(Unseen(u, W)') + Cardinality(W) <= Cardinality(Requests)
    <3>1. CASE r \in W
      <4>1. tasks'[r].seen = live[u]
        BY <1>1 DEF SessionsInv, LogsIn
      <4>2. Unseen(u, W)' = {}
        BY <1>1, <3>1, <4>1 DEF Unseen
      <4>3. QED
        BY <4>2, FS_EmptySet, GroupCount, RequestCount
    <3>2. CASE r \notin W
      <4>1. \A q \in W : tasks'[q] = tasks[q]
        BY <1>1, <3>2 DEF SessionsInv
      <4>2. Unseen(u, W)' = Unseen(u, W) /\ \A q \in W : LogsInAs(q, u)
        BY <1>1, <2>1, <4>1 DEF Unseen, LogsInAs
      <4>3. QED
        BY <1>1, <1>3, <4>2 DEF Room
    <3>3. QED
      BY <3>1, <3>2
  <2>2. QED
    BY <1>1, <1>3, <2>1 DEF Room
<1>4. QED
  BY <1>2, <1>3

(* The new token takes the place its login had.                            *)
LEMMA CommitLeavesRoom ==
  ASSUME SessionsInv, NEW r \in Requests, NEW t \in Tokens, LoginCommit(r, t),
         NEW v \in Users
  PROVE  Room(v)'
<1> PICK u, seen : u = tasks[r].user /\ seen = tasks[r].seen
  OBVIOUS
<1>1. /\ tasks[r] \in Tasks /\ tasks[r].kind = "logs in" /\ Room(v)
      /\ live' = [live EXCEPT ![u] = (@ \ seen) \union {t}]
      /\ tasks' = [tasks EXCEPT ![r] = Idle]
  BY DEF LoginCommit, Turns, SessionsInv
<1>2. u \in Users /\ LogsInAs(r, u)
  BY <1>1, TaskShapes DEF LogsInAs
<1>3. CASE v # u
  BY <1>1, <1>3, RoomStays DEF LogsInAs, Idle, SessionsInv
<1>4. CASE v = u
  <2>1. live'[u] = (live[u] \ seen) \union {t}
    BY <1>1, <1>2 DEF SessionsInv
  <2>2. IsFiniteSet(live[u]) /\ IsFiniteSet(live'[u])
    <3>1. IsFiniteSet(live[u])
      BY <1>1, <1>4 DEF Room
    <3>2. IsFiniteSet(live[u] \ seen)
      BY <3>1, FS_Subset
    <3>3. QED
      BY <2>1, <3>1, <3>2, FS_AddElement
  <2>3. ASSUME NEW W \in SUBSET Requests, \A q \in W : LogsInAs(q, u)'
        PROVE  Cardinality(Unseen(u, W)') + Cardinality(W) <= Cardinality(Requests)
    <3> DEFINE X == W \union {r}
               A == Unseen(u, X)
               B == Unseen(u, W)'
    <3>1. r \notin W /\ X \in SUBSET Requests
      BY <1>1, <2>3 DEF LogsInAs, Idle, SessionsInv
    <3>2. \A q \in W : tasks'[q] = tasks[q]
      BY <1>1, <3>1 DEF SessionsInv
    <3>3. Cardinality(A) + Cardinality(X) <= Cardinality(Requests)
      <4>1. \A q \in X : LogsInAs(q, u)
        BY <1>2, <2>3, <3>2 DEF LogsInAs
      <4>2. QED
        BY <1>1, <1>4, <3>1, <4>1 DEF Room
    <3>4. Cardinality(X) = Cardinality(W) + 1
      BY <3>1, GroupCount, FS_AddElement
    <3>5. B \subseteq A \union {t}
      BY <2>1, <3>2 DEF Unseen
    <3>6. IsFiniteSet(A)
      BY <2>2, FS_Subset DEF Unseen
    <3>7. /\ IsFiniteSet(A \union {t}) /\ Cardinality(A) \in Nat
          /\ Cardinality(A \union {t}) <= Cardinality(A) + 1
      <4> HIDE DEF A
      <4>1. Cardinality(A) \in Nat
        BY <3>6, FS_CardinalityType
      <4>2. /\ IsFiniteSet(A \union {t})
            /\ Cardinality(A \union {t}) = IF t \in A THEN Cardinality(A) ELSE Cardinality(A) + 1
        BY <3>6, FS_AddElement
      <4>3. QED
        BY <4>1, <4>2
    <3>8. Cardinality(B) \in Nat /\ Cardinality(B) <= Cardinality(A \union {t})
      BY <3>5, <3>7, FS_Subset, FS_CardinalityType
    <3>9. Cardinality(A \union {t}) \in Nat
      BY <3>7, FS_CardinalityType
    <3> HIDE DEF A, B, X
    <3>10. Cardinality(B) + Cardinality(W) <= Cardinality(Requests)
      BY <3>3, <3>4, <3>7, <3>8, <3>9, GroupCount, RequestCount
    <3>11. QED
      BY <3>10 DEF B
  <2>4. QED
    BY <1>4, <2>2, <2>3 DEF Room
<1>5. QED
  BY <1>3, <1>4

-----------------------------------------------------------------------------
(* The entries of the workers.                                             *)

LEMMA EntryWritten ==
  ASSUME StoreOK, NEW w, NEW k, NEW e,
         w \in Workers /\ k \in Keys => e \in Entries(k),
         store' = [store EXCEPT ![w][k] = e]
  PROVE  StoreOK'
<1>1. \A x \in Workers, y \in Keys :
        store'[x][y] = IF x = w /\ y = k THEN e ELSE store[x][y]
  BY DEF StoreOK
<1>2. store' = [x \in Workers |-> [y \in Keys |-> store'[x][y]]]
  BY DEF StoreOK
<1>3. QED
  BY <1>1, <1>2 DEF StoreOK

LEMMA EntryAges ==
  ASSUME NEW k \in Keys, NEW e \in Entries(k)
  PROVE  Aged(e) \in Entries(k)
<1>1. CASE e = Nil \/ e.left = 1
  BY <1>1 DEF Aged, Entries
<1>2. CASE e # Nil /\ e.left # 1
  <2>1. Ttl(k) \in Nat \ {0}
    BY TtlPositive
  <2>2. e \in [value : BOOLEAN, left : 1 .. Ttl(k)] /\ e.left - 1 \in 1 .. Ttl(k)
    BY <1>2, <2>1 DEF Entries
  <2>3. Aged(e) = [e EXCEPT !.left = e.left - 1]
    BY <1>2 DEF Aged
  <2>4. QED
    BY <2>2, <2>3 DEF Entries
<1>3. QED
  BY <1>1, <1>2

LEMMA TickKeepsStore == StoreOK /\ Tick => StoreOK'
<1> SUFFICES ASSUME StoreOK, Tick PROVE StoreOK'
  OBVIOUS
<1>1. \A w \in Workers, k \in Keys : store'[w][k] = Aged(store[w][k])
  BY DEF Tick
<1>2. store' = [w \in Workers |-> [k \in Keys |-> store'[w][k]]]
  BY <1>1 DEF Tick
<1>3. QED
  BY <1>1, <1>2, EntryAges DEF StoreOK

-----------------------------------------------------------------------------
(* The steps.                                                              *)

(* A request turns to a task other than a login, and no token comes.       *)
LEMMA TurnKeepsRoom ==
  ASSUME SessionsInv, NEW r \in Requests, NEW t \in Tasks, t.kind # "logs in", Turns(r, t),
         live' \in [Users -> SUBSET Tokens],
         \A u \in Users : live'[u] \subseteq live[u]
  PROVE  tasks' \in [Requests -> Tasks] /\ \A u \in Users : Room(u)'
<1>1. tasks' \in [Requests -> Tasks]
  BY DEF Turns, SessionsInv
<1>2. ASSUME NEW u \in Users, NEW q \in Requests, LogsInAs(q, u)'
      PROVE  LogsInAs(q, u) /\ tasks'[q] = tasks[q]
  BY <1>2 DEF LogsInAs, Turns, SessionsInv
<1>3. QED
  BY <1>1, <1>2, RoomStays DEF SessionsInv

LEMMA StartKeeps ==
  ASSUME SessionsInv, NEW r \in Requests, Start(r)
  PROVE  SessionsInv'
<1>1. ASSUME NEW u \in Users, Login(r, u) PROVE SessionsInv'
  <2>1. LogsIn(u, live[u]) \in Tasks
    BY TaskTypes DEF SessionsInv
  <2>2. QED
    BY <1>1, <2>1, LoginLeavesRoom DEF Login, Turns, SessionsInv, StoreOK
<1>2. ASSUME NEW u \in Users, Refresh(r, u) PROVE SessionsInv'
  <2>1. Refreshes(u) \in Tasks /\ Refreshes(u).kind # "logs in"
    BY TaskTypes DEF Refreshes
  <2>2. QED
    BY <1>2, <2>1, TurnKeepsRoom DEF Refresh, SessionsInv, StoreOK
<1>3. ASSUME NEW w \in Workers, NEW u \in Users, Logout(r, w, u) PROVE SessionsInv'
  <2>1. Clears(w, u) \in Tasks /\ Clears(w, u).kind # "logs in"
    BY TaskTypes DEF Clears, Keys
  <2>2. live' \in [Users -> SUBSET Tokens] /\ \A v \in Users : live'[v] \subseteq live[v]
    BY <1>3 DEF Logout, SessionsInv
  <2>3. QED
    BY <1>3, <2>1, <2>2, TurnKeepsRoom DEF Logout, SessionsInv, StoreOK
<1>4. ASSUME NEW w \in Workers, NEW k \in Keys, Read(r, w, k) PROVE SessionsInv'
  <2>1. Fills(w, k, truth[k]) \in Tasks /\ Fills(w, k, truth[k]).kind # "logs in"
    BY TaskTypes DEF Fills, SessionsInv
  <2>2. QED
    BY <1>4, <2>1, TurnKeepsRoom DEF Read, SessionsInv, StoreOK
<1>5. ASSUME NEW w \in Workers, NEW p \in Pages, ChangePage(r, w, p) PROVE SessionsInv'
  <2>1. Clears(w, p) \in Tasks /\ Clears(w, p).kind # "logs in" /\ p \in Keys
    BY TaskTypes DEF Clears, Keys
  <2>2. QED
    BY <1>5, <2>1, TurnKeepsRoom DEF ChangePage, SessionsInv, StoreOK
<1>6. QED
  BY <1>1, <1>2, <1>3, <1>4, <1>5
  DEF Start, ReadUser, ReadPage, ReadRules, RefreshScores, Keys

LEMMA ProceedKeeps ==
  ASSUME SessionsInv, NEW r \in Requests, Proceed(r) \/ Drop(r)
  PROVE  SessionsInv'
<1>1. Idle \in Tasks /\ Idle.kind # "logs in" /\ tasks[r] \in Tasks
  BY TaskTypes DEF Idle, SessionsInv
<1>2. ASSUME NEW t \in Tokens, LoginCommit(r, t) PROVE SessionsInv'
  <2>1. tasks[r].user \in Users
    BY <1>1, <1>2, TaskShapes DEF LoginCommit
  <2>2. AccessTtl \in 0 .. AccessTtl
    BY SessionsAssumption
  <2>3. live' \in [Users -> SUBSET Tokens] /\ access' \in [Users -> 0 .. AccessTtl]
    BY <1>2, <2>1, <2>2 DEF LoginCommit, SessionsInv
  <2>4. QED
    BY <1>1, <1>2, <2>3, CommitLeavesRoom DEF LoginCommit, Turns, SessionsInv, StoreOK
<1>3. CASE RefreshAnswer(r)
  <2>1. AccessTtl \in 0 .. AccessTtl
    BY SessionsAssumption
  <2>2. access' \in [Users -> 0 .. AccessTtl]
    BY <1>3, <2>1 DEF RefreshAnswer, SessionsInv
  <2>3. QED
    BY <1>1, <1>3, <2>2, TurnKeepsRoom DEF RefreshAnswer, SessionsInv, StoreOK
<1>4. CASE Fill(r)
  <2> DEFINE t == tasks[r]
  <2>1. t.at \in Workers /\ t.key \in Keys /\ t.value \in BOOLEAN
    BY <1>1, <1>4, TaskShapes DEF Fill
  <2>2. [value |-> t.value, left |-> Ttl(t.key)] \in Entries(t.key)
    BY <2>1, TtlPositive DEF Entries
  <2>3. \/ store' = store
        \/ store' = [store EXCEPT ![t.at][t.key] = [value |-> t.value, left |-> Ttl(t.key)]]
    BY <1>4 DEF Fill
  <2>4. StoreOK'
    <3>1. CASE store' = store
      BY <3>1 DEF StoreOK, SessionsInv
    <3>2. CASE store' # store
      <4> PICK w, k, e : w = t.at /\ k = t.key /\ e = [value |-> t.value, left |-> Ttl(t.key)]
        OBVIOUS
      <4>1. QED
        BY <2>2, <2>3, <3>2, EntryWritten DEF SessionsInv
    <3>3. QED
      BY <3>1, <3>2
  <2>5. QED
    BY <1>1, <1>4, <2>4, TurnKeepsRoom DEF Fill, SessionsInv
<1>5. CASE Clear(r)
  <2>1. StoreOK'
    <3> PICK w, k : w = tasks[r].at /\ k = tasks[r].key
      OBVIOUS
    <3>1. Nil \in Entries(k) /\ store' = [store EXCEPT ![w][k] = Nil]
      BY <1>5 DEF Clear, Entries
    <3>2. QED
      BY <3>1, EntryWritten DEF SessionsInv
  <2>2. QED
    BY <1>1, <1>5, <2>1, TurnKeepsRoom DEF Clear, SessionsInv
<1>6. CASE Drop(r)
  BY <1>1, <1>6, TurnKeepsRoom DEF Drop, SessionsInv, StoreOK
<1>7. QED
  BY <1>2, <1>3, <1>4, <1>5, <1>6 DEF Proceed

LEMMA SessionsStep == SessionsInv /\ [SessionsNext]_svars => SessionsInv'
<1> SUFFICES ASSUME SessionsInv, [SessionsNext]_svars PROVE SessionsInv'
  OBVIOUS
<1>1. CASE \E r \in Requests : Start(r) \/ Proceed(r) \/ Drop(r)
  BY <1>1, StartKeeps, ProceedKeeps
<1>a. ASSUME tasks' = tasks, live' = live PROVE \A u \in Users : Room(u)'
  BY <1>a, RoomStays DEF LogsInAs, SessionsInv
<1>2. ASSUME NEW k \in Keys, truth' = [truth EXCEPT ![k] = ~@],
             UNCHANGED <<store, live, access, tasks>>
      PROVE  SessionsInv'
  BY <1>a, <1>2 DEF SessionsInv, StoreOK
<1>3. CASE \/ \E u \in Users : SetActive(u)
           \/ \E p \in Pages : ChangeQuickLinks(p)
           \/ \E k \in Reports : ChangeRules(k)
  BY <1>2, <1>3 DEF SetActive, ChangeQuickLinks, ChangeRules, Keys
<1>4. ASSUME NEW u \in Users, NEW t \in Tokens, ExpireToken(u, t) PROVE SessionsInv'
  <2>1. live' \in [Users -> SUBSET Tokens] /\ \A v \in Users : live'[v] \subseteq live[v]
    BY <1>4 DEF ExpireToken, SessionsInv
  <2>2. \A v \in Users : Room(v)'
    BY <1>4, <2>1, RoomStays DEF ExpireToken, LogsInAs, SessionsInv
  <2>3. QED
    BY <1>4, <2>1, <2>2 DEF ExpireToken, SessionsInv, StoreOK
<1>5. CASE Tick
  <2>1. access' \in [Users -> 0 .. AccessTtl]
    <3>1. \A u \in Users : access[u] \in 0 .. AccessTtl
      BY DEF SessionsInv
    <3>2. AccessTtl \in Nat
      BY SessionsAssumption
    <3>3. QED
      BY <1>5, <3>1, <3>2 DEF Tick
  <2>2. QED
    BY <1>a, <1>5, <2>1, TickKeepsStore DEF Tick, SessionsInv
<1>6. CASE UNCHANGED svars
  BY <1>a, <1>6 DEF svars, SessionsInv, StoreOK
<1>7. QED
  BY <1>1, <1>3, <1>4, <1>5, <1>6 DEF SessionsNext

LEMMA RoomForAll == SessionsInv => FewSessions
<1> SUFFICES ASSUME SessionsInv PROVE FewSessions
  OBVIOUS
<1>1. ASSUME NEW w \in Workers, NEW k \in Keys PROVE EntryOK(store[w][k], k)
  BY DEF SessionsInv, StoreOK, Entries, EntryOK
<1>2. ASSUME NEW u \in Users PROVE Cardinality(live[u]) <= Cardinality(Requests)
  <2>1. Cardinality(Unseen(u, {})) + Cardinality({}) <= Cardinality(Requests)
    BY DEF SessionsInv, Room
  <2>2. Unseen(u, {}) = live[u]
    BY DEF Unseen
  <2>3. Cardinality(live[u]) \in Nat /\ Cardinality({}) = 0
    BY FS_CardinalityType, FS_EmptySet DEF SessionsInv, Room
  <2>4. QED
    BY <2>1, <2>2, <2>3, RequestCount
<1>3. QED
  BY <1>1, <1>2 DEF FewSessions, SessionsTypeOK, SessionsInv

(* A user never has more sessions than there are requests at the same      *)
(* time, however logins, logouts, refreshes and lost requests interleave;  *)
(* and no entry outlives its time (AuthService.login, set_cache).          *)
THEOREM SessionsStayFew == SessionsSpec => []FewSessions
BY SessionsStart, SessionsStep, RoomForAll, PTL DEF SessionsSpec
=============================================================================
