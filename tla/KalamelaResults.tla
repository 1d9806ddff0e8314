-------------------------- MODULE KalamelaResults ---------------------------
(***************************************************************************)
(* Scores, ranks and appeals of the arts festival (app/kalamela/service.py *)
(* and its admin and public routers).  Marks are entered by event, ranks   *)
(* are given within the marks entered together, and an update of marks     *)
(* ranks the events it touched again.  An update reads its cards, commits  *)
(* their marks, and then reads and commits the ranks of one event after    *)
(* the other, while others do the same: nothing is locked.                 *)
(*                                                                         *)
(* The session (app/common/db.py) expires nothing on a commit: a card that *)
(* a request has read before is the request's own object, and reading it   *)
(* again in the list of its event brings it to its place in the list but   *)
(* does not refresh it.  A commit writes the columns that the handler gave *)
(* another value than the session knew, and fails when the row is gone.    *)
(*                                                                         *)
(* Marks have the two decimals of the column.  An individual entry is told *)
(* by its event and member, whose chest number serves for all its entries; *)
(* a team by its chest number, which nothing compares with the event's.    *)
(***************************************************************************)
EXTENDS Integers, Sequences, FiniteSets, FiniteSetsExt, SequencesExt

CONSTANTS
  Members, Teams,   (* chest numbers: of members, of teams                 *)
  Solo, Group,      (* individual_event and group_event                    *)
  Entered,          (* individual_event_participation, <<event, member>>   *)
  Slots,            (* the chest numbers and events appeals are made for   *)
  Marks,            (* some of 0 .. 100                                    *)
  Requests,         (* the requests served at the same time                *)
  MaxCards,         (* bounds the score cards                              *)
  Nil

ASSUME ResultsAssumption ==
  /\ Entered \subseteq Solo \X Members
  /\ Solo \intersect Group = {}
  /\ Marks \subseteq 0 .. 100
  /\ MaxCards \in Nat \ {0}
  /\ IsFiniteSet(Requests) /\ Requests # {}
  /\ IsFiniteSet(Members \union Teams)
  /\ Slots \subseteq (Members \union Teams) \X (Solo \union Group)
  /\ Nil \notin Slots \union Solo \union Group

VARIABLES
  cards,            (* the score cards, by id                              *)
  appeals,          (* <<chest number, event>> -> how many appeals         *)
  calls,            (* the session of each request that scores             *)
  overtaken,        (* the events it is to rank in which others have since *)
                    (* committed what it had read: only looked at          *)
  filing            (* the appeal each request is about to insert, or Nil  *)

rvars == <<cards, appeals, calls, overtaken, filing>>

Ids    == 1 .. MaxCards
Chests == Members \union Teams
Events == Solo \union Group

(* A card; open in the 30 minutes after it was added, whatever is done     *)
(* with it later.                                                          *)
Card == [event : Events, who : Chests, mark : Marks,
         rank : 0 .. 3, points : 0 .. 10, open : BOOLEAN]

IsTable(t) == DOMAIN t \subseteq Ids /\ \A i \in DOMAIN t : t[i] \in Card

(* A session: the cards as it read or last wrote them, the cards as the    *)
(* handler has them now, the events it has yet to rank, the one whose      *)
(* ranks it is about to commit.                                            *)
IsSession(s) ==
  /\ s.step \in {"rest", "marks", "due", "ranks"}
  /\ IsTable(s.read) /\ IsTable(s.now) /\ DOMAIN s.now = DOMAIN s.read
  /\ s.due \subseteq Events /\ s.on \in Events \union {Nil}

Rest == [step |-> "rest", read |-> << >>, now |-> << >>, due |-> {}, on |-> Nil]

ResultsTypeOK ==
  /\ IsTable(cards)
  /\ appeals \in [Slots -> Nat]
  /\ DOMAIN calls = Requests /\ \A r \in Requests : IsSession(calls[r])
  /\ overtaken \in [Requests -> SUBSET Events]
  /\ filing \in [Requests -> Slots \union {Nil}]

ResultsInit ==
  /\ cards = << >>
  /\ appeals = [s \in Slots |-> 0]
  /\ calls = [r \in Requests |-> Rest]
  /\ overtaken = [r \in Requests |-> {}]
  /\ filing = [r \in Requests |-> Nil]

-----------------------------------------------------------------------------
(* Grades, ranks and points.                                               *)

GradePoints(m) ==
  IF m >= 60 THEN 5 ELSE IF m >= 50 THEN 3 ELSE IF m >= 40 THEN 1 ELSE 0

RankPoints(r) ==
  IF r = 1 THEN 5 ELSE IF r = 2 THEN 3 ELSE IF r = 3 THEN 1 ELSE 0

(* Mutant: a team's total stays as an unranked addition enters it.         *)
TotalOfMembers(v, m, r) == IF v \in Solo THEN GradePoints(m) + RankPoints(r) ELSE 0

(* Grades count for members; for teams they are only shown.                *)
Total(v, m, r) == IF v \in Solo THEN GradePoints(m) + RankPoints(r) ELSE RankPoints(r)

(* Mutant: equal marks are told apart by their order.                      *)
PlacesInOrder(order, mark) == [k \in DOMAIN order |-> IF k <= 3 THEN k ELSE 0]

(* The lists of S by descending marks, equal marks in whatever order.      *)
Descending(S, mark) ==
  {order \in [1 .. Cardinality(S) -> S] :
     /\ IsInjective(order)
     /\ \A j, k \in DOMAIN order : j < k => mark[order[j]] >= mark[order[k]]}

(* current_rank of the loops in assign_ranks and recalculate_event_ranks:  *)
(* where the marks of the list, which need not be in order, last fell, up  *)
(* to k.                                                                   *)
CurrentRank(order, mark, k) ==
  Max({1} \union {j \in 2 .. k : mark[order[j]] < mark[order[j - 1]]})

(* The rank of each item of a list, 0 beyond the third.                    *)
Places(order, mark) ==
  [k \in DOMAIN order |->
     IF CurrentRank(order, mark, k) <= 3 THEN CurrentRank(order, mark, k) ELSE 0]

PlaceOf(order, mark, x) == Places(order, mark)[CHOOSE k \in DOMAIN order : order[k] = x]

CardsOf(v) == {i \in DOMAIN cards : cards[i].event = v}

-----------------------------------------------------------------------------
(* Who may be scored: the entries of an individual event; for a group      *)
(* event any chest number at all.                                          *)
Candidates(v) == IF v \in Solo THEN {m \in Members : <<v, m>> \in Entered} ELSE Teams

(* An id is not given again while a session may have its card.             *)
FreeIds == Ids \ (DOMAIN cards \union UNION {DOMAIN calls[r].read : r \in Requests})

(* New cards for the chest numbers of a batch, with these ranks.           *)
WithNewCards(v, batch, rank, points) ==
  LET new == CHOOSE f \in [DOMAIN batch -> FreeIds] :
               \A x, y \in DOMAIN batch : x # y => f[x] # f[y]
      made(w) == [event |-> v, who |-> w, mark |-> batch[w],
                  rank |-> rank[w], points |-> points[w], open |-> TRUE]
      at == {new[w] : w \in DOMAIN batch}
  IN  [i \in DOMAIN cards \union at |->
         IF i \in DOMAIN cards THEN cards[i]
         ELSE made(CHOOSE w \in DOMAIN batch : new[w] = i)]

Batches(v) == UNION {[W -> Marks] : W \in (SUBSET Candidates(v)) \ {{}}}

(* add_individual_scores_for_event, add_group_scores_for_event: ranks      *)
(* among the batch; cards that exist are not looked at.                    *)
AddScores(v, batch) ==
  /\ Cardinality(DOMAIN batch) <= Cardinality(FreeIds)
  /\ \E order \in Descending(DOMAIN batch, batch) :
       LET rank == [w \in DOMAIN batch |-> PlaceOf(order, batch, w)]
       IN  cards' = WithNewCards(v, batch, rank,
                      [w \in DOMAIN batch |-> Total(v, batch[w], rank[w])])
  /\ UNCHANGED <<appeals, calls, filing>>

(* add_individual_scores_bulk, add_group_scores_bulk: no ranks, and no     *)
(* recalculation.                                                          *)
AddUnranked(v, batch) ==
  /\ Cardinality(DOMAIN batch) <= Cardinality(FreeIds)
  /\ cards' = WithNewCards(v, batch, [w \in DOMAIN batch |-> 0],
                [w \in DOMAIN batch |-> Total(v, batch[w], 0)])
  /\ UNCHANGED <<appeals, calls, filing>>

-----------------------------------------------------------------------------
(* Updates: the marks are committed first, then each event is ranked in a  *)
(* transaction of its own.  An update is given for entries, or for teams'  *)
(* chest numbers in whatever event; scalar_one_or_none fails on several    *)
(* cards.                                                                  *)

CardsFor(key) ==
  {i \in DOMAIN cards :
     IF key \in Teams THEN cards[i].event \in Group /\ cards[i].who = key
     ELSE <<cards[i].event, cards[i].who>> = key}

NoMark  == -1
Updates == [Entered -> Marks \union {NoMark}] \union [Teams -> Marks \union {NoMark}]
Given(u) == {k \in DOMAIN u : u[k] # NoMark}
Rescored(u) == UNION {CardsFor(k) : k \in Given(u)}
MarkFor(u, i) == u[CHOOSE k \in Given(u) : i \in CardsFor(k)]

(* Mutant: of the events a batch touches one is ranked again.              *)
TouchedOnce(u) == {CHOOSE v \in Events : \E i \in Rescored(u) : cards[i].event = v}

Touched(u) == {cards[i].event : i \in Rescored(u)}

Busy(r) == calls[r] # Rest \/ filing[r] # Nil

ReadForUpdate(r, u) ==
  /\ ~Busy(r)
  /\ \A k \in Given(u) : Cardinality(CardsFor(k)) <= 1
  /\ Rescored(u) # {}
  /\ calls' = [calls EXCEPT ![r] =
       [step |-> "marks",
        read |-> [i \in Rescored(u) |-> cards[i]],
        now  |-> [i \in Rescored(u) |-> [cards[i] EXCEPT !.mark = MarkFor(u, i)]],
        due  |-> Touched(u), on |-> Nil]]
  /\ UNCHANGED <<cards, appeals, filing>>

(* The columns of old that new gives another value, put over a row.        *)
Over(old, new, row) ==
  [row EXCEPT !.mark   = IF new.mark   # old.mark   THEN new.mark   ELSE @,
              !.rank   = IF new.rank   # old.rank   THEN new.rank   ELSE @,
              !.points = IF new.points # old.points THEN new.points ELSE @]

(* A commit: every card that has a column to write must still be there.    *)
Flush(s) ==
  /\ \A i \in DOMAIN s.now : s.now[i] # s.read[i] => i \in DOMAIN cards
  /\ cards' = [i \in DOMAIN cards |->
                 IF i \in DOMAIN s.now THEN Over(s.read[i], s.now[i], cards[i])
                 ELSE cards[i]]

CommitMarks(r) ==
  /\ calls[r].step = "marks"
  /\ Flush(calls[r])
  /\ calls' = [calls EXCEPT ![r] =
       [step |-> "due", read |-> @.now, now |-> @.now, due |-> @.due, on |-> Nil]]
  /\ UNCHANGED <<appeals, filing>>

MarksOf(v) == [i \in CardsOf(v) |-> cards[i].mark]

(* A card as ranked within its event.                                      *)
Placed(x, place) ==
  [x EXCEPT !.rank = place, !.points = Total(x.event, x.mark, place)]

(* The cards of an event as a session gets them: its own where it has any. *)
SessionCards(s, v) ==
  [i \in CardsOf(v) |-> IF i \in DOMAIN s.now THEN s.now[i] ELSE cards[i]]

But(table, v) == [i \in {j \in DOMAIN table : table[j].event # v} |-> table[i]]

With(part, table) ==
  [i \in DOMAIN part \union DOMAIN table |-> IF i \in DOMAIN part THEN part[i] ELSE table[i]]

(* recalculate_event_ranks up to its commit: the list has the order of the *)
(* table's marks, the loop compares the session's.                         *)
ReadForRanks(r, s, v) ==
  LET own == SessionCards(s, v)
      marks == [i \in CardsOf(v) |-> own[i].mark]
  IN  \E order \in Descending(CardsOf(v), MarksOf(v)) :
        calls' = [calls EXCEPT ![r] =
          [step |-> "ranks",
           read |-> With(own, But(s.read, v)),
           now  |-> With([i \in CardsOf(v) |-> Placed(own[i], PlaceOf(order, marks, i))],
                         But(s.now, v)),
           due  |-> s.due, on |-> v]]

(* With its last event ranked a request ends.                              *)
Ranked(s, v) ==
  IF s.due = {v} THEN Rest
  ELSE [step |-> "due", read |-> But(s.read, v), now |-> But(s.now, v),
        due |-> s.due \ {v}, on |-> Nil]

(* An update's next event; one that has no cards any more has no ranks.    *)
RankDue(r, v) ==
  /\ calls[r].step = "due"
  /\ v \in calls[r].due
  /\ IF CardsOf(v) = {} THEN calls' = [calls EXCEPT ![r] = Ranked(@, v)]
     ELSE ReadForRanks(r, calls[r], v)
  /\ UNCHANGED <<cards, appeals, filing>>

(* The admin's recalculation.                                              *)
Recalculate(r, v) ==
  /\ ~Busy(r)
  /\ CardsOf(v) # {}
  /\ ReadForRanks(r, [Rest EXCEPT !.due = {v}], v)
  /\ UNCHANGED <<cards, appeals, filing>>

CommitRanks(r) ==
  /\ calls[r].step = "ranks"
  /\ Flush(calls[r])
  /\ calls' = [calls EXCEPT ![r] = Ranked(@, @.on)]
  /\ UNCHANGED <<appeals, filing>>

(* A request ends between two steps: an error, a lost worker.              *)
Abandon(r) ==
  /\ Busy(r)
  /\ calls' = [calls EXCEPT ![r] = Rest]
  /\ filing' = [filing EXCEPT ![r] = Nil]
  /\ UNCHANGED <<cards, appeals>>

(* Deleting a member deletes its cards and appeals; nothing is ranked.     *)
Withdraw(m) ==
  /\ \E i \in DOMAIN cards : cards[i].who = m
  /\ cards' = [i \in {j \in DOMAIN cards : cards[j].who # m} |-> cards[i]]
  /\ appeals' = [s \in Slots |-> IF s[1] = m THEN 0 ELSE appeals[s]]
  /\ UNCHANGED <<calls, filing>>

-----------------------------------------------------------------------------
(* Appeals.                                                                *)

ScoresOf(w) == {i \in DOMAIN cards : cards[i].who = w}

(* What check_appeal_eligibility answers for a chest number and an event.  *)
Eligible(w, v) ==
  /\ \E i \in CardsOf(v) : ScoresOf(w) \intersect CardsOf(v) = {i} /\ cards[i].open
  /\ appeals[<<w, v>>] = 0

(* Mutant: a slip in the comparison with the appeals that exist.           *)
MaySubmitAgain(w, v) ==
  /\ \E i \in ScoresOf(w) : ScoresOf(w) = {i} /\ cards[i].open
  /\ appeals[<<w, v>>] <= 1

(* create_appeal: the score is looked for by chest number alone, and one   *)
(* that has several fails; the event's name is only compared with appeals. *)
MaySubmit(w, v) ==
  /\ \E i \in ScoresOf(w) : ScoresOf(w) = {i} /\ cards[i].open
  /\ appeals[<<w, v>>] = 0

CheckAppeal(r, w, v) ==
  /\ ~Busy(r)
  /\ MaySubmit(w, v)
  /\ filing' = [filing EXCEPT ![r] = <<w, v>>]
  /\ UNCHANGED <<cards, appeals, calls>>

FileAppeal(r) ==
  /\ filing[r] # Nil
  /\ appeals' = [appeals EXCEPT ![filing[r]] = @ + 1]
  /\ filing' = [filing EXCEPT ![r] = Nil]
  /\ UNCHANGED <<cards, calls>>

(* Half an hour passes.                                                    *)
CloseWindow(i) ==
  /\ i \in DOMAIN cards
  /\ cards[i].open
  /\ cards' = [cards EXCEPT ![i].open = FALSE]
  /\ UNCHANGED <<appeals, calls, overtaken, filing>>

-----------------------------------------------------------------------------

ScoreStep ==
  \/ \E v \in Events : \E batch \in Batches(v) :
       AddScores(v, batch) \/ AddUnranked(v, batch)
  \/ \E m \in Members : Withdraw(m)

RequestStep(r) ==
  \/ \E u \in Updates : ReadForUpdate(r, u)
  \/ CommitMarks(r)
  \/ \E v \in Events : RankDue(r, v) \/ Recalculate(r, v)
  \/ CommitRanks(r)
  \/ \E s \in Slots : CheckAppeal(r, s[1], s[2])
  \/ FileAppeal(r)
  \/ Abandon(r)

(* A card is written, comes or goes.                                       *)
Touches(i) ==
  IF i \in DOMAIN cards \intersect DOMAIN cards' THEN cards'[i] # cards[i]
  ELSE i \in DOMAIN cards \union DOMAIN cards'

(* Whether the cards a session has of an event are still the table's: its  *)
(* own, and once it has the whole list those that come.                    *)
Disturbs(s, v) ==
  \/ \E i \in DOMAIN s.read : s.read[i].event = v /\ Touches(i)
  \/ s.on = v /\ \E i \in CardsOf(v)' : Touches(i)

Overtaking ==
  overtaken' = [r \in Requests |->
    {v \in calls'[r].due :
       v \in overtaken[r] \/ (calls'[r] = calls[r] /\ Disturbs(calls[r], v))}]

ResultsNext ==
  \/ (ScoreStep \/ \E r \in Requests : RequestStep(r)) /\ Overtaking
  \/ \E i \in Ids : CloseWindow(i)

ResultsSpec == ResultsInit /\ [][ResultsNext]_rvars

-----------------------------------------------------------------------------

(* Competition ranking: the place is one more than the better ones.        *)
PlaceAmong(v, i) == 1 + Cardinality({j \in CardsOf(v) : cards[j].mark > cards[i].mark})

InOrder(v) ==
  \A i \in CardsOf(v) :
    LET place == IF PlaceAmong(v, i) <= 3 THEN PlaceAmong(v, i) ELSE 0
    IN  /\ cards[i].rank = place
        /\ cards[i].points = Total(v, cards[i].mark, place)

(* The marks are committed and the ranks are still to come.                *)
Owes(r, v) == v \in calls[r].due /\ calls[r].step # "marks"

(* The ranks and points of an event stop following its marks only when     *)
(* cards come or go, while an update that has committed marks still owes   *)
(* the event its ranking, or by a ranking that others overtook, whose      *)
(* marks were old: an update ranks every event it touched, and nothing     *)
(* disturbs another's (update_individual_scores_bulk,                      *)
(* update_group_scores_bulk, recalculate_event_ranks).                     *)
DisorderIsOwed ==
  [][\A v \in Events : InOrder(v) /\ ~InOrder(v)' =>
       \/ CardsOf(v)' # CardsOf(v)
       \/ \E r \in Requests : Owes(r, v)'
       \/ \E r \in Requests :
            calls[r].on = v /\ v \in overtaken[r] /\ CommitRanks(r)]_rvars

(* A ranking leaves its event in order, whatever unranked additions,       *)
(* withdrawals, lost requests and overtaken rankings did to the ranks and  *)
(* points before, unless others have committed since: since the request    *)
(* first read the cards of the event that it updates itself, which it will *)
(* not read again, and since it read the list, for the others              *)
(* (recalculate_event_ranks).                                              *)
RankingRestores ==
  [][\A r \in Requests, v \in Events :
       calls[r].on = v /\ v \notin overtaken[r] /\ CommitRanks(r) => InOrder(v)']_rvars

(* The public list of an event: the three with the most points, an         *)
(* arbitrary choice among equals (get_top_results).                        *)
Published(v) ==
  {T \in SUBSET CardsOf(v) :
     /\ Cardinality(T) = IF Cardinality(CardsOf(v)) < 3 THEN Cardinality(CardsOf(v)) ELSE 3
     /\ \A i \in T, j \in CardsOf(v) \ T : cards[i].points >= cards[j].points}

(* Cards keep their types, places and points within their limits.  Points  *)
(* are not marks: but in an event that is in order the list of the public  *)
(* page never leaves out a mark better than one it shows.                  *)
PodiumFollowsMarks ==
  /\ ResultsTypeOK
  /\ \A v \in Events : InOrder(v) =>
       \A T \in Published(v), i \in Ids, j \in Ids :
         i \in T /\ j \in CardsOf(v) \ T => cards[i].mark >= cards[j].mark

(* One appeal per chest number and event, up to requests at the same time. *)
AppealQuota == INSTANCE BoundedAdmission WITH
  Limit  <- 1,
  NoSlot <- Nil,
  count  <- appeals,
  passed <- filing

AppealQuotaKept == AppealQuota!AdmissionSpec

(* "Check if appeal can be submitted" (public.py): who is told yes can     *)
(* submit one.                                                             *)
EligibleMaySubmit ==
  \A s \in Slots : Eligible(s[1], s[2]) => MaySubmit(s[1], s[2])

=============================================================================
