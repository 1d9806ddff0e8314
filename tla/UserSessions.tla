---------------------------- MODULE UserSessions ----------------------------
(***************************************************************************)
(* User sessions (app/auth/service.py, app/common/security.py) and the     *)
(* answers a worker keeps in its memory (app/common/cache.py).             *)
(*                                                                         *)
(* A login revokes the user's refresh tokens and stores a new one; access  *)
(* tokens are checked by their signature alone and expire.  Who sends one  *)
(* is looked up in the worker's cache, then in the database.  The same     *)
(* cache keeps pages such as the site's settings, which a change clears    *)
(* after its commit - in the worker that serves it - and reports, which no *)
(* change clears: the rules of Kalamela, in a variable of their own        *)
(* (app/kalamela/service.py), its scores, the units offered for            *)
(* registration.  Between a read of the database and what is done with it, *)
(* other requests come first.                                              *)
(*                                                                         *)
(* Time is counted in ticks; a token or an entry carries what it has left. *)
(***************************************************************************)
EXTENDS Integers, FiniteSets

CONSTANTS
  Users, Pages,   (* what is cached: users, answers                        *)
  Reports,        (* and reports; there always are some active rules       *)
  Workers,        (* the processes, each with a cache of its own           *)
  Requests,       (* the requests served at the same time                  *)
  Tokens,         (* refresh tokens                                        *)
  UserTtl,        (* 30 seconds                                            *)
  PageTtl,        (* minutes                                               *)
  ReportTtl,      (* 5 minutes                                             *)
  AccessTtl,      (* 15 minutes                                            *)
  Nil

ASSUME SessionsAssumption ==
  /\ IsFiniteSet(Requests) /\ Requests # {}
  /\ {UserTtl, PageTtl, ReportTtl, AccessTtl} \subseteq Nat \ {0}
  /\ Users \intersect (Pages \union Reports) = {}
  /\ Pages \intersect Reports = {}

VARIABLES
  truth,          (* of a user: is_active; of the others: the version      *)
  store,          (* the entries of each worker, Nil when there is none    *)
  live,           (* the refresh tokens of each user that are not revoked  *)
  access,         (* what the user's newest access token has left          *)
  tasks           (* what each request is about to do                      *)

svars == <<truth, store, live, access, tasks>>

Keys == Users \union Pages \union Reports

(* RULES_CACHE_TTL, TTL_SITE_SETTINGS and its like, and the 30 seconds of  *)
(* the users.                                                              *)
Ttl(k) == CASE k \in Users -> UserTtl
            [] k \in Reports -> ReportTtl
            [] OTHER -> PageTtl

Idle         == [kind |-> "idle"]
Fills(w, k, v) == [kind |-> "fills", at |-> w, key |-> k, value |-> v]
Clears(w, k)   == [kind |-> "clears", at |-> w, key |-> k]
LogsIn(u, T)   == [kind |-> "logs in", user |-> u, seen |-> T]
Refreshes(u)   == [kind |-> "refreshes", user |-> u]

Tasks ==
  {Idle}
    \union {Fills(w, k, v) : w \in Workers, k \in Keys, v \in BOOLEAN}
    \union {Clears(w, k) : w \in Workers, k \in Keys}
    \union {LogsIn(u, T) : u \in Users, T \in SUBSET Tokens}
    \union {Refreshes(u) : u \in Users}

EntryOK(e, k) == e = Nil \/ (e.value \in BOOLEAN /\ e.left \in 1 .. Ttl(k))

SessionsTypeOK ==
  /\ truth \in [Keys -> BOOLEAN]
  /\ \A w \in Workers, k \in Keys : EntryOK(store[w][k], k)
  /\ live \in [Users -> SUBSET Tokens]
  /\ access \in [Users -> 0 .. AccessTtl]
  /\ tasks \in [Requests -> Tasks]

SessionsInit ==
  /\ truth = [k \in Keys |-> TRUE]
  /\ store = [w \in Workers |-> [k \in Keys |-> Nil]]
  /\ live = [u \in Users |-> {}]
  /\ access = [u \in Users |-> 0]
  /\ tasks = [r \in Requests |-> Idle]

Turns(r, t) == tasks' = [tasks EXCEPT ![r] = t]

-----------------------------------------------------------------------------
(* Refresh tokens.                                                         *)

(* AuthService.login: the password is right; the rows the update revokes   *)
(* are those it sees.                                                      *)
Login(r, u) ==
  /\ tasks[r] = Idle
  /\ truth[u]
  /\ Turns(r, LogsIn(u, live[u]))
  /\ UNCHANGED <<truth, store, live, access>>

(* Mutant: the tokens stay.                                                *)
LoginCommitKeeping(r, t) ==
  LET u == tasks[r].user IN
  /\ tasks[r].kind = "logs in"
  /\ t \notin live[u]
  /\ live' = [live EXCEPT ![u] = @ \union {t}]
  /\ access' = [access EXCEPT ![u] = AccessTtl]
  /\ Turns(r, Idle)
  /\ UNCHANGED <<truth, store>>

(* Its commit, with a token of its own.                                    *)
LoginCommit(r, t) ==
  LET u == tasks[r].user IN
  /\ tasks[r].kind = "logs in"
  /\ t \notin live[u]
  /\ \A q \in Requests : tasks[q].kind = "logs in" => t \notin tasks[q].seen
  /\ live' = [live EXCEPT ![u] = (@ \ tasks[r].seen) \union {t}]
  /\ access' = [access EXCEPT ![u] = AccessTtl]
  /\ Turns(r, Idle)
  /\ UNCHANGED <<truth, store>>

(* Mutant: whether the token is revoked is not asked.                      *)
RefreshRevoked(r, u) ==
  /\ tasks[r] = Idle
  /\ truth[u]
  /\ Turns(r, Refreshes(u))
  /\ UNCHANGED <<truth, store, live, access>>

(* refresh_access_token, up to the last read; then the answer.  The token  *)
(* stays as it is.                                                         *)
Refresh(r, u) ==
  /\ tasks[r] = Idle
  /\ live[u] # {}
  /\ truth[u]
  /\ Turns(r, Refreshes(u))
  /\ UNCHANGED <<truth, store, live, access>>

RefreshAnswer(r) ==
  /\ tasks[r].kind = "refreshes"
  /\ access' = [access EXCEPT ![tasks[r].user] = AccessTtl]
  /\ Turns(r, Idle)
  /\ UNCHANGED <<truth, store, live>>

(* Seven days pass for a token.                                            *)
ExpireToken(u, t) ==
  /\ t \in live[u]
  /\ live' = [live EXCEPT ![u] = @ \ {t}]
  /\ UNCHANGED <<truth, store, access, tasks>>

-----------------------------------------------------------------------------
(* The cache.                                                              *)

(* The database is read, to fill an entry from it.                         *)
Read(r, w, k) ==
  /\ tasks[r] = Idle
  /\ Turns(r, Fills(w, k, truth[k]))
  /\ UNCHANGED <<truth, store, live, access>>

(* get_current_user finds no entry.                                        *)
ReadUser(r, w, u) ==
  /\ access[u] > 0
  /\ store[w][u] = Nil
  /\ Read(r, w, u)

ReadPage(r, w, p) ==
  /\ store[w][p] = Nil
  /\ Read(r, w, p)

(* get_kalamela_rules, by way of get_participation_limits and its like: an *)
(* entry past its time is replaced like one that is not there.             *)
ReadRules(r, w, k) ==
  /\ store[w][k] = Nil
  /\ Read(r, w, k)

(* view_individual_scores, asked to refresh: an entry is not looked for.   *)
RefreshScores(r, w, k) == Read(r, w, k)

(* set_cache, of a user only when it is active.                            *)
Fill(r) ==
  LET t == tasks[r] IN
  /\ t.kind = "fills"
  /\ store' = IF t.key \in Users /\ ~t.value THEN store
              ELSE [store EXCEPT ![t.at][t.key] = [value |-> t.value, left |-> Ttl(t.key)]]
  /\ Turns(r, Idle)
  /\ UNCHANGED <<truth, live, access>>

(* clear_cache, the last step of a change or a logout.                     *)
Clear(r) ==
  /\ tasks[r].kind = "clears"
  /\ store' = [store EXCEPT ![tasks[r].at][tasks[r].key] = Nil]
  /\ Turns(r, Idle)
  /\ UNCHANGED <<truth, live, access>>

(* update_site_settings: committed, then cleared.                          *)
ChangePage(r, w, p) ==
  /\ tasks[r] = Idle
  /\ truth' = [truth EXCEPT ![p] = ~@]
  /\ Turns(r, Clears(w, p))
  /\ UNCHANGED <<store, live, access>>

(* create_quick_link and its like: the links are on the page of the site's *)
(* settings, which is not cleared.                                         *)
ChangeQuickLinks(p) ==
  /\ truth' = [truth EXCEPT ![p] = ~@]
  /\ UNCHANGED <<store, live, access, tasks>>

(* update_rule, create_rule, delete_rule: no worker's entry is replaced.   *)
ChangeRules(k) ==
  /\ truth' = [truth EXCEPT ![k] = ~@]
  /\ UNCHANGED <<store, live, access, tasks>>

(* The admin sets is_active; no entry is cleared.                          *)
SetActive(u) ==
  /\ truth' = [truth EXCEPT ![u] = ~@]
  /\ UNCHANGED <<store, live, access, tasks>>

(* logout, by a user the worker lets in: all tokens, committed, then the   *)
(* worker's entry.                                                         *)
Logout(r, w, u) ==
  /\ tasks[r] = Idle
  /\ access[u] > 0
  /\ store[w][u] # Nil \/ truth[u]
  /\ live' = [live EXCEPT ![u] = {}]
  /\ Turns(r, Clears(w, u))
  /\ UNCHANGED <<truth, store, access>>

-----------------------------------------------------------------------------

(* Mutant: the time an entry expires at is not looked at.                  *)
AgedNever(e) == e

Aged(e) == IF e = Nil \/ e.left = 1 THEN Nil ELSE [e EXCEPT !.left = @ - 1]

Tick ==
  /\ \/ \E u \in Users : access[u] > 0
     \/ \E w \in Workers, k \in Keys : store[w][k] # Nil
  /\ access' = [u \in Users |-> IF access[u] = 0 THEN 0 ELSE access[u] - 1]
  /\ store' = [w \in Workers |-> [k \in Keys |-> Aged(store[w][k])]]
  /\ UNCHANGED <<truth, live, tasks>>

(* What a request in progress does next.                                   *)
Proceed(r) ==
  \/ \E t \in Tokens : LoginCommit(r, t)
  \/ RefreshAnswer(r)
  \/ Fill(r)
  \/ Clear(r)

(* Or it ends there: an error of the database, a lost worker.              *)
Drop(r) ==
  /\ tasks[r] # Idle
  /\ Turns(r, Idle)
  /\ UNCHANGED <<truth, store, live, access>>

Start(r) ==
  \/ \E u \in Users : Login(r, u) \/ Refresh(r, u)
  \/ \E w \in Workers, u \in Users : Logout(r, w, u)
  \/ \E w \in Workers, u \in Users : ReadUser(r, w, u)
  \/ \E w \in Workers, p \in Pages : ReadPage(r, w, p)
  \/ \E w \in Workers, k \in Reports : ReadRules(r, w, k) \/ RefreshScores(r, w, k)
  \/ \E w \in Workers, p \in Pages : ChangePage(r, w, p)

SessionsNext ==
  \/ \E r \in Requests : Start(r) \/ Proceed(r) \/ Drop(r)
  \/ \E u \in Users : SetActive(u)
  \/ \E p \in Pages : ChangeQuickLinks(p)
  \/ \E k \in Reports : ChangeRules(k)
  \/ \E u \in Users, t \in Tokens : ExpireToken(u, t)
  \/ Tick

(* Time passes, and a request that is in progress ends: the server bounds  *)
(* its database calls.                                                     *)
SessionsFairness ==
  /\ WF_svars(Tick)
  /\ \A r \in Requests : WF_svars(Proceed(r) \/ Drop(r))

SessionsSpec == SessionsInit /\ [][SessionsNext]_svars /\ SessionsFairness

-----------------------------------------------------------------------------

(* Rows and entries keep their types, no entry outlives its time, and a    *)
(* user has no more sessions than there are requests at the same time:     *)
(* with one login after another exactly the last one, whatever logouts,    *)
(* refreshes and lost requests came between (AuthService.login).           *)
FewSessions ==
  /\ SessionsTypeOK
  /\ \A u \in Users : Cardinality(live[u]) <= Cardinality(Requests)

Stale(w, k) == store[w][k] # Nil /\ store[w][k].value # truth[k]

(* No worker keeps an outdated answer for ever: not after a race of a read *)
(* with a change, nor where the change cleared another worker's cache or   *)
(* none, as with reports and quick links (get_cache, set_cache,            *)
(* get_kalamela_rules).                                                    *)
StaleAnswersEnd ==
  \A w \in Workers, k \in Keys : Stale(w, k) ~> ~Stale(w, k)

LoggingIn(u) == \E r \in Requests : tasks[r].kind = "logs in" /\ tasks[r].user = u

(* A user who stays deactivated is, from some time on, let in by no worker *)
(* (get_current_user).                                                     *)
DeactivationTakesEffect ==
  \A u \in Users : <>[](~truth[u]) => <>[](\A w \in Workers : store[w][u] = Nil)

(* A user who has logged out and does not log in again has, from some time *)
(* on, no access token: one that was being refreshed is the last.          *)
LogoutTakesEffect ==
  \A u \in Users :
    <>[](live[u] = {} /\ ~LoggingIn(u)) => <>[](access[u] = 0)

=============================================================================
