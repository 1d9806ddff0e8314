# Verification of the youth-movement back end

TLA+ models of the CSI youth-movement back end (FastAPI, SQLAlchemy,
PostgreSQL): model-checked with TLC on small instances and, where the prover
reaches, proved with TLAPS for every size.

1. [The system](#1-the-system) - 2. [The modules](#2-the-modules) -
3. [The runs](#3-the-runs) - 4. [The proofs](#4-the-proofs) -
5. [What was seen on the way](#5-what-was-seen-on-the-way) -
6. [Not modelled](#6-not-modelled)

## 1. The system

Units (parish youth groups) register once per season. A unit walks through a
wizard (details, members, officials, councilors, declaration), uploads proofs
of payment, and an admin approves the payments and completes the registration.
Around this core stand the requests that change a roster outside the wizard,
the Kalamela arts festival, the conference, a magazine and the usual services.

| Part | State it keeps | Operations | Hard behaviour | What makes it correct |
|---|---|---|---|---|
| Registration cycles (`app/units/registration_cycle_service.py`, `app/units/routers/user.py`) | one cycle row per unit and year, roster, councilors, details | wizard handlers, declaration, completion, season switch | steps in any order, edits after the declaration, several paths that remove a member, coroutines never awaited | completion is final, renewals rest on a completed season, councilors are members, snapshots are whole and priced |
| Payment proofs (`registration_cycle_service.py`, `user.py`, `app/admin/routers/units.py`) | proof rows with status, total, balance and amount paid | upload, approve, reject, list, supersede, rebalance, adjust, reconcile | the balance is a stored copy; reviews repeat; the fee moves under pending and approved proofs | one pending proof, exact balances, no lost approval, nobody pays too much, the fee follows the roster |
| Scripts (`scripts/*.py`) | the same rows | season closing, repairs, back-fills, removal of a unit | run against live tables, each over all units | closed seasons stay closed |
| Member requests (`app/units/service.py`) | transfer, information, officials, councilor and add requests | file, approve, reject, revert | approvals in any order, reverts of stale values | a request takes effect once; a revert undoes only its own change |
| Concerns (`app/units/service.py`) | concerns about archived members | check, file, answer | filed in two steps; a foreign key without cascade | a concern is about a row that is there |
| Database session (`app/common/db.py`) | pending changes of a request | commit only when something is still unflushed | handlers that flush and do not commit | what was answered is stored |
| Cache (`app/common/cache.py`) | entries with a time to live, one cache per worker | read through, clear by pattern | a slow reader stores an old value after a clear; changes that clear nothing | stale no longer than the time to live |
| Authentication (`app/auth/service.py`, `app/common/security.py`) | refresh tokens, accounts | login, refresh, logout, register | concurrent logins and registrations | one session per user, one account per unit |
| Conference (`app/conference/service.py`) | officials, delegates, payments, food | add, remove, pay | counts checked before inserts; a delegate added after payment | quotas hold up to the requests in flight |
| Kalamela (`app/kalamela/service.py`, `app/kalamela/routers/`) | events, entries, teams, chest numbers, scores, payments, appeals, schedules | enter, score, rank, pay, appeal, schedule | numbers derived from other rows, scores in batches, ranking in a later transaction with a session's old marks, checks apart from inserts | numbers identify, ranks follow marks; a split team, a second payment, two events on one stage or a lost fee only by a named step or race |
| Magazine (`app/yuvalokham/service.py`) | plans, subscriptions, payments, issues, complaints | subscribe, pay, approve | flush without commit | an answered subscription is there |
| Site settings, notices, exports, storage, master data | settings rows | row edits and reads | cached reads | little that interacts |

The parts meet in the database only: there are no messages between them. Each
request runs in its own session; a handler ends with one commit, or with none
when it raises. Nothing in the code takes a lock, so whatever is read before an
insert may have changed by the insert.

## 2. The modules

| Module | Models | Extends |
|---|---|---|
| `RegistrationFees` | councilor tiers, the fee of a roster, the clamped adjustment of count and fee | |
| `RegistrationCycle` | the wizard, councilor edits, season switch, bulk completion, archiving | `RegistrationFees` |
| `PaymentLedger` | the proofs of one cycle as a sequence, and what is computed from it | `RegistrationFees` |
| `RegistrationPayments` | uploads, reviews, lists, fee adjustment, admin removals and additions, completion, the closing script | `RegistrationCycle`, `PaymentLedger` |
| `RegistrationRaces` | the handlers of one registration served at the same time, each split into its reads and its commit | `RegistrationPayments` |
| `RegistrationScripts` | the repairs, back-fills and removals of `scripts/` | `RegistrationPayments` |
| `MemberRequests` | transfer, information, officials, councilor and add requests, and what every deletion of a member does to them | `RegistrationPayments` |
| `MemberConcerns` | the archive's batches, concerns and their answers | `MemberRequests` |
| `BoundedAdmission` | **abstract**: a quota checked before an unlocked insert | |
| `KalamelaEntries` | entries for individual events, chest numbers, quotas, exclusion | |
| `KalamelaTeams` | teams as rows that share a number, renumbering, district payments; requests of officials at the same time | |
| `KalamelaCatalogue` | QR codes, categories, fees, events, schedules; requests of admins at the same time | `KalamelaTeams` |
| `KalamelaResults` | scores, the sessions that update and rank them, withdrawal, recalculation, appeals | |
| `ConferenceDelegates` | officials, their quotas, delegates, payments, food | |
| `Accounts` | the five handlers that make an account, its deletion, passwords, districts and unit names | |
| `UserSessions` | login, refresh, logout, and the cache of each worker | |
| `Magazine` | the session of a request, and everything the magazine writes through it | |
| `MC...` | small instances, symmetry, focused specifications | |
| `..._proofs`, `BoundedAdmission` | theorems | `TLAPS` |

**The registration.** `season` is the pair in `site_settings`; `cycle[u][y]` the
row of `unit_registration_cycle` (`count` and `fee` are `member_count_at_submit`
and `total_fee_at_submit`, `completed` says that `completed_at` is set);
`owner[m]` is `unit_members.registered_user_id`; `archived[m]` the owner of an
archived row; `council[u][s]` the member of a councilor row; `incomplete` the
members without a living location or blood group; `details[u]` the year in
`unit_details`; `payments[u][y]` the proofs of a cycle in the order of
`submitted_at`, where `late` says that a review is later than `completed_at`.
`Nil` is NULL or no row. `MemberRequests` adds `identity[m]` (name with number),
`office[u][o]` (a pair of columns of `unit_officials`) and one table per kind of
request, indexed by id: a row keeps what the `original_` columns keep, and a
deleted row is `Nil`. `MemberConcerns` adds `batch[m]` (`archive_year`),
`concern[i]` and `filing[f]`, the member a filing has checked and not stored.

One action is one handler from its first query to its commit. A handler that
commits twice is two actions (`OpenCycle` is the first commit of every wizard
handler, the reconciliation of `POST /payment` stays when the upload is
refused). `RegistrationRaces` takes the same handlers apart.
Where `MemberRequests` adds to a handler of the registration it names
the whole again (`AddMemberAs`, `DeleteMemberAndOffices`, `ArchiveAndPurge`,
...). A handler that raises changes nothing and is no action. What a handler
calls is inside its action: removing a member clears councilor rows, adjusts
the fee and rewrites the proofs in one step. Two coroutines that are never
awaited are modelled as what runs: `ReopenCouncilors` is the identity, and
`NeedsBulkCompletion` is true.

**Requests at the same time.** In `RegistrationRaces` `calls[r]` is what request `r`
has computed from its reads and not committed: the columns of the cycle and of
the proofs that get another value (the session writes no other, `Changed`), the
proofs it reviews, the total of a new proof, members who come and go. `Commit`
puts them over whatever the rows hold by then (`Onto`). The payment page and the
upload commit a reconciliation first and read again (`ReadAgain`). `alone` records
that nothing was committed since the reads; only properties look at it. What a
request computes is taken from `RegistrationPayments`, so the atomic handlers are
the case of one request. Season switches, archiving, completions in bulk and the
scripts stay out; the season stands still.

**Transfers and the registration.** `RegistrationPayments` has the approval of an
add request and no other request. A transfer or a councilor change does break
its relations: a transfer adjusts no fee and leaves the councilor row, a
councilor change looks at neither the unit the new member is in by then nor at
the other councilors. So `CouncilorsAreOwnMembers` and `FeeFollowsRoster` are
statements about the registration without these requests, and `StrayOnlyByRequest`
says that the two reviews are the only way out of the first.

**Quotas.** `BoundedAdmission` is what every "count, then insert" of the program
promises: `count[s]` rows of a slot, `passed[r]` the slot whose check request
`r` has passed. Seven quotas implement it, each by an instance with its own
mapping: the entries of a member (`PersonQuota`) and of an event, district and
seniority (`DistrictQuota`) in `KalamelaEntries`, the delegates of an official
(`DelegateQuota`), the official of a member (`DelegateOnce`) and the one food row
(`FoodOnce`) in `ConferenceDelegates`, the account of a unit (`UnitAdmission`) in
`Accounts`, and the appeal (`AppealQuota`) in `KalamelaResults`. There a handler
is two actions, the check and the insert, and what was chosen at the check (the
chest number, the rank, the phone number) is carried to the insert in `pending`,
`calls`, `inserts` or `filing`. A unique column is a guard of the insert.

**Kalamela.** Numbers are compared as texts by the code: `KalamelaEntries` orders
chest numbers by their digits, with `Wide` the first number that is longer.
A team is no row: it is the rows of an event with one number, in the order of
creation, because the next number is taken from the last row. A handler that asks
and then writes is several actions: entering a team looks for the unit's team
(`LookForTeam`), settles the number (`JoinTeam`, `NewTeam`) and adds the rows
(`AddParticipants`); a payment asks for one under review and for an approved one
before it is made (`AskPending`, `AskPaid`, `CreateBill`); the deletion of a fee
asks the events of both kinds, loads those that name it by then and empties them
when it is written (`AskFee`, `AskGroups`, `LoadUsers`, `DeleteFee`); a schedule
is checked and then written (`CheckSchedule`, `CreateSchedule`, `CheckUpdate`,
`UpdateSchedule`, which writes only the columns that differ from the row it has
read). What a request has found is in `calls` (officials) and `edits` (admins);
`since` and `changed` are what others have changed meanwhile, and only properties
look at them. Schedules keep times and whether they are cancelled.

A score card keeps what was given at the time (`rank`, `points`). An update is a
session (`calls[r]` of `KalamelaResults`): the cards as it has read them, the same
with what the handler has set, and the events it is still to rank (`due`). The
session expires nothing at a commit (`expire_on_commit=False`, `db.py:109`), so a
ranking gets from the table the list and its order, and from the session the
marks of every card it has read before (`SessionCards`); a commit writes the columns that
differ from what was read (`Over`). So a ranking may work with marks that
another update has replaced. `overtaken[r]` are the events of which others have
since committed a card that the request had read; only properties look at it.

**Sessions and caches.** `tasks[r]` is what a request does next with what it has
read: fill an entry, clear one, or store a token. `store[w][k]` is the cache of a
worker, with the ticks an entry has left; `truth[k]` the row it is a copy of.
Pages are cleared by their changes in one worker, reports by none.

**The magazine.** `work[r]` is what a request has written, and whether something
of it is unflushed; the end of the request commits or rolls back by that, as
`get_async_db` does. A flushed row is locked for the others.

**Left out.** Personal data other than the identity, files, notes, reviewer ids,
detected amounts, and time except for the order of a review and a completion,
the 30 minutes of an appeal, schedules, tokens and cache entries. The two fees
of the season are constants; that an admin changes them in mid-season is not
modelled. E-mail addresses of accounts follow the user names.

## 3. The runs

| Run | Instance | Shows |
|---|---|---|
| `RegistrationCycle` | 1 unit, 3 members, 3 councilor rows, 2 years, bands of 1 | every order of wizard, councilor, admin and season steps keeps `TypeOK`, `CouncilorsAreOwnMembers`, `CompletedIsFinal`, `RequirementLostOnlyByEdits` |
| `Payments` | 1 member, 2 proofs, fee up to 2, an old partial proof; 2 members, 1 proof, fee up to 3 | reviews given twice, in any order, with the fee moving: `OnePending`, `BalanceStaysExact`, `ApprovalStands`, `CreditOnlyFromLowerFee`; bulk and single removals, clamped counts, archiving, with the whole wizard: `SnapshotPriced`, `FeeFollowsRoster` |
| `RegistrationRaces` | 2 requests; 1 member with 1 proof from the wizard on, 2 members with 3 uploads, 2 members with reviews of 1 proof | requests that overtake each other: `FewWait`, `AloneKeepsBooks`, `TakenBackOnlyByOlderStep` |
| `SeasonChange` | 2 years, 1 member, 1 proof, fee up to 2 | switching, closing and reopening seasons with the payments of both and the scripts: `RenewalFollowsCompletion`, `PastSeasonsStand` |
| `MemberRequests` | 2 units, 2 members, 1 councilor row and 1 office per unit, 2 identities, any 2 requests; 3 concerns, 2 filings, 2 batches | requests of every kind in every order with the edits of the roster: `RequestsNamePresentMembers`, `SoleTransferDecides`, `StrayOnlyByRequest`, `OfficialsFollowMembers`, and `ConcernsStand` |
| `DistrictQuotas` | 3 members, 2 units, 2 events, 2 officials, 2 requests | the admissions implement `BoundedAdmission` (`EntryQuotasKept`, `DelegateQuotaKept`, `DelegatedOnce`, `FoodStatedOnce`, `AccountsFollowOwners`, which adds that a district has one official), and `QuotasTypeOK`, `NumbersFollowMembers` |
| `KalamelaTeams` | 2 requests; 3 members, 2 units, 2 districts, 3 rows; 3 payments; 2 fees, 1 category, an event of each kind; 2 schedules on 2 stages by 2 admins | requests that overtake each other between their checks and their writes: `EntriesKeepUnitsTogether`, `SecondPaymentOnlyByReturn`, `FeeLostOnlyByRace`, `OverlapOnlyByRevivalOrRace`, `CatalogueTypeOK` |
| `KalamelaResults` | 3 events, 4 cards, 2 marks, 2 requests | marks in batches, updates that rank with old marks or are lost half-way, withdrawals: `PodiumFollowsMarks`, `DisorderIsOwed`, `RankingRestores`, `AppealQuotaKept` |
| `UserSessions` | 1 user, 1 page, 1 report, 2 workers, 2 requests, 3 tokens | `FewSessions`, and the liveness of `StaleAnswersEnd`, `DeactivationTakesEffect`, `LogoutTakesEffect` |
| `UnpaidCompletion` | one cycle with 2 proofs, from the wizard | `CompletionIsPaid` is violated: a rejected approval leaves the balance of the other |
| `AppealEligibility` | 2 cards | `EligibleMaySubmit` is violated: the page says that an appeal can be made and the handler raises |
| `AnswersPersist` | 2 requests, 3 ids | `AnsweredSubscriptionStays` is violated: an answered subscription is rolled back |

**One run, several small instances.** Where parts share no state a run chooses a
`focus` in its initial state and lets only that part move; the other variables
stand still. This is a sum of the state spaces and not their product, and loses
no behaviour because the parts do not read each other; where they do, the focus is
a second instance with bounds of its own. The foci: requests and
concerns (a concern's steps meet the archive and the roster, not the other
requests); entries, delegates, food and accounts; teams, bills, events and stages;
updates, rankings and appeals; the wizard, uploads and reviews of
`RegistrationRaces`; reviews and roster of `Payments`, which share the state but
not the bounds; tokens, users, pages and reports.

**Bounds.** `Slots` bounds councilor rows, `MaxProofs` the uploads per cycle,
`MaxFee` the fee and the total of a proof (`Bounded`). One unit is enough for
the invariants of a unit because no handler except the scripts reads another
unit's rows; those loop over units independently. Two years are the least for
renewals and season switches. `RosterBand = 1` in `RegistrationCycle` lets
three members need three councilors. Two proofs are the least for an approval
to have an earlier one to disagree with. The reviews of `Payments` and `SeasonChange`
start with declared or completed cycles and keep only those wizard steps a payment
step can observe (`FocusSpec`, `SeasonSpec`); its roster focus keeps the whole wizard.
`MaxRequests` bounds the requests of all kinds together: two are the least for
one to be stale because of the other, and a deleted row frees its id, so long
runs are covered. `WizardSpec` keeps the units in the wizard, where every edit
is open, and seasons and payments still: no request's guard reads them, and a
cycle not declared yet has no fee to adjust. `RequestsView` drops the variables
that stand still and `incomplete`, which nothing there reads and no property
names; ids are symmetric because the code never compares them.

Two requests are the least for a check of one to be stale at its insert, and the
quotas of 1 let two requests exceed them; that more requests exceed them by no
more is what the proofs add. `MaxChest` and `Wide` lie close to the bases so that
chest numbers reach the longer texts. `MaxRows`, `MaxNumber` and `MaxBills` bound
teams and payments: three rows (with the members of the requests in flight) are the least for a
late member of an early team to be the last row when the next team asks for its
number, and three payments for a second one beside one that came back. In the
team focus one member is deleted at most, and members are barred before there
are rows. In the focus on events there is one request in flight (`MaxEdits`) beside the
steps of others, one row and one number: an update of an event is one step and
can come between any two of a deletion. In the focus on stages new schedules are
on, at one of three times (`Spans`: one within another, and one that ends before it
starts), and an update gives a place or a status. The proofs have none of these
bounds. `MaxCards` bounds score cards: four
are the least for two batches of two. The focus on updates has one card per entry
and two of them, and at most `MaxStarted` requests score in a behaviour: two are
enough for one to replace the mark the other ranks with; cards come while nobody
scores and go at any time. The focus on rankings has one admin who ranks and up
to four cards of one event, and the appeal focus two cards, one member in two
events. Times to live of 2 and 3 ticks differ, and a request may outlast an
entry. `MaxTime = 3` has room for two
disjoint schedules and for one within another. Deadlock is checked everywhere but
in `AppealEligibility`, where the bound on the cards may leave nothing to do.

**Fairness.** Only `UserSessions` states any (`SessionsFairness`): time passes, and
a request in progress ends, by its next step or by an error (`Drop`): the server
bounds its database calls. Nothing says that a login, a change or a read is ever
made, nor that a clear succeeds. Nothing else in the code retries or schedules
work; every step is a user's request, so no other module asks for liveness. The
finding about the magazine is a safety property and needs none.

**Properties that name their exceptions.** `RequirementLostOnlyByEdits`,
`BalanceStaysExact`, `CreditOnlyFromLowerFee`, `FeeFollowsRoster`,
`StrayOnlyByRequest`, `OfficialsFollowMembers`, `PastSeasonsStand`,
`EntriesKeepUnitsTogether`, `SecondPaymentOnlyByReturn`, `FeeLostOnlyByRace`,
`OverlapOnlyByRevivalOrRace`, `DisorderIsOwed`, `RankingRestores`,
`AloneKeepsBooks` and `TakenBackOnlyByOlderStep` each name
the steps that are allowed to break a relation; the exceptions are real
behaviour of the code and are described above the property.

## 4. The proofs

All theorems hold for any number of units, members, councilor rows, years,
proofs, requests, events, cards, officials and calls, from the assumptions the
modules name (`FeesAssumption`, `RegistryAssumption`, `LegacyAssumption`,
`RacesAssumption`, `RequestsAssumption`, `ConcernsAssumption`,
`EntriesAssumption`, `TeamsAssumption`, `CatalogueAssumption`,
`ResultsAssumption`, `DelegatesAssumption`, `AccountsAssumption`,
`SessionsAssumption`): `Nil` is none of the values it stands beside, limits are
positive, the sets of requests, members and ids that are counted are finite.
Both fees may be 0; where a member costs nothing the code adjusts no fee, and
`FeeFollowsRoster` is about the other case. The names of the theorems and of the
properties they state are paired in `PROJECT.json`.

| Module | About | Built on |
|---|---|---|
| `Registration_proofs` | the wizard, the payments, the scripts; the fee arithmetic and the ledger | |
| `RegistrationRaces_proofs` | overlapping handlers of one registration | `Registration_proofs` |
| `MemberRequests_proofs` | requests of every kind, concerns | `Registration_proofs` |
| `BoundedAdmission` | the abstract quota | |
| `DistrictQuotas_proofs` | entries, delegates, food, accounts | `BoundedAdmission` |
| `KalamelaCatalogue_proofs` | teams, payments, catalogue, schedules | |
| `KalamelaResults_proofs` | ranks, points, appeals | `BoundedAdmission` |
| `UserSessions_proofs` | sessions and caches | |

**The registration.**

- `TypeCorrect`, `LedgersTypeCorrect`, `ScriptsTypeCorrect`: each action writes a row
  of type `Cycle`; `CompletedRow` and `AdjustedRow` carry the arithmetic.
- `CompletionIsFinal`, `...UnderPayments`: `CycleEvolution` reduces every step to
  three ways a row can change (kept, status set while in progress, completed),
  `RowEvolves`; each keeps a completed row completed. Payments add two more
  (`PaymentRowEvolves`).
- `SnapshotsArePriced`, `SnapshotsStayPriced`: inductive given `TypeOK`, by
  `AdjustmentKeepsPrice`: count and fee are clamped separately, at 0 and at the
  unit fee, and still agree.
- `RenewalsFollowCompletion`, `...UnderPayments`, `...UnderScripts`: inductive
  because completion is final, or, under the scripts, because a removal takes all
  cycles of the unit.
- `CouncilorsAlwaysMembers`, `...UnderPayments`: not inductive alone.
  `RestoreMember` would give an owner to a member who already has one;
  `CouncilInv` adds that an archived member has no owner. It is proved row by row:
  whoever joins or leaves, `CouncilorFrom(u, s, V)` holds of a row when the leavers
  are taken out of the councils in the same commit.
- `RequirementsHold`: a step that changes the roster of a unit or its councilors
  either belongs to that unit's wizard before the declaration, or is one of the
  edits the property names; no step of another unit touches either.
- `OtherSeasonsAreStable`, `PastSeasonsAreStable`: the reconciliation of another
  season's cycle computes a difference of 0, and an adjustment is written to the
  season's cycle only; what is left are the steps the property names.

**The ledger.**

- `OneProofWaits`: `LedgerInv` says that every ledger is a sequence of rows with at
  most one pending. Each operation either makes no proof pending (`NoNewPending`,
  one lemma per operation, composed by transitivity) or appends to a ledger with
  nothing pending (`UploadWaitsAlone`: what `Superseded` spares, `Blocked` catches).
- `ApprovalsStand`, `BalancesStayExact`: `BooksInv` is the types of the ledgers, that
  only a cycle there is has proofs, and that a cycle with a snapshot is declared
  or completed. What a step does to a ledger is one of two: it `Continues` it (no
  row lost, the approvals and amounts as they were) with the `SameBalances`, or it
  computes the last balance anew. The sum the balance is compared with is a loop
  over the proofs with a cap in each round; two runs of it are compared round by
  round: were they ever apart, there would be a first round in which they part
  (`FirstOf` a set of indices), and none of the rounds can. So no induction over
  the data is needed. What is excepted is a rejection and the closing script.
- `CreditComesFromLowerFees`: an approval never pays more than `Outstanding`, which is
  computed with the proof's own amount left out, so an approval given twice replaces
  the amount and does not add it.
- `FeesFollowRosters`: the gap between the members counted in a snapshot and the roster
  is compared before and after: who joins or leaves moves both by one, the clamp
  at 0 moves the count towards the roster, a reconciliation closes the gap and the
  closing of a season counts anew. Archiving and restoring are excepted.

**Overlapping handlers.** `RacesInv` holds types of rows, ledgers and of what the
requests carry (`Fits` says which kind of request carries what), and `Room`.

- `RacesTypeCorrect`: columns computed from older rows, put over newer ones, still
  make a row: `Onto` is looked at column by column (`CycleByColumns`).
- `FewProofsWait` (`FewWait`): that at most `|Requests|` proofs wait is not inductive,
  since an upload in progress brings one more. `Room` counts for every set `W` of
  uploads in progress: what they leave waiting (`Left`) and `W` itself are together
  no more than the requests. An upload that has just read leaves nothing waiting
  at all, so it starts with room; a commit moves its proof from `W` to the rows;
  whoever overtakes it changes only what `W` without it says. With `W = {}` it is
  the property.
- `OlderStepsTakeBack`: only wizard steps and declarations carry a status other than
  completed, and one that nobody overtook still finds the cycle in progress.
- `AloneKeeps` (`AloneKeepsBooks`): `Lands` says of a request what its commit would
  do to the books, were it now. It is true when the request has read: the columns
  it writes, put over the rows they were computed from, give what it has computed
  (`OwnProof`, `OwnCycle`), and each handler computes proofs that keep approvals and
  balances or compute the last balance anew (`Continues`). It stays true while
  nobody commits, and the first commit of another makes the request not alone
  (`CallsGood`). Whoever has become not alone must still write rows of the right
  type, since the next reader starts from them (`LedgersTyped`, `MergedTyped`).

**Requests and concerns.** `RequestsInv` joins `BooksInv` and `LedgerInv` with
`TransferInv` (the member of a transfer request is in some unit, an archived one
in none), with the types of names and offices (`NamesTyped`), with the same about
the members of information and councilor requests (`Present`), and with
`CouncilPresent`: a councilor may have become another unit's member, but is never
gone. Apart from the reviews of transfers and councilors every step of it is a step
of the payments (`RequestsCases`), so that the ledger and the books are carried over.

- `SoleTransferAlwaysDecides`: a member who is added or restored is never the subject of
  an old request. Every step outside the transfers then either moves nobody who
  is in a unit (`StaysPut`) or takes the requests along with those who leave
  (`Leaves`).
- `RequestsAlwaysNamePresent`: whoever leaves by deletion or by the archive takes
  along the requests that name them in any role (`Present` is kept by `Leaves`);
  a councilor request is filed with the former councilor from the row, present by
  `CouncilPresent`.
- `StraysOnlyByRequest`: as for `CouncilorsAlwaysMembers`, but for one row and one step
  at a time, since the whole invariant is lost to the first transfer.
- `OfficialsAlwaysFollow`: an approval and a revert of an information request write
  the same identity into both places, found by the identity the member had.
- `ConcernsAlwaysStand`: `ConcernInv` is `TransferInv` with the foreign key (a
  concern is about a row of the archive) and, for each member, that the pending
  concerns and the filings about to store one are together no more than the
  filings. A check passes only when none is pending; an insert moves one from the
  second set to the first.

**Quotas.**

- `AdmissionBounded`: in `BoundedAdmission` the rows of a slot are at most the limit
  and the other requests in flight. Inductive with the requests that have passed:
  rows and passed together are at most the limit and all requests but one.
- `PersonQuotaImplements`, `DistrictQuotaImplements`, `DelegateQuotaImplements`,
  `DelegateOnceImplements`, `FoodOnceImplements`, `AccountsImplement`,
  `AppealsImplement`: initial states map to initial states, and each step maps to
  a step of the abstract specification or to none, given the types
  (`EntriesTyped`, `DelegatesTyped`, `AccountsTyped`, `QuotasTyped`). The counts are
  cardinalities: adding a row to a finite set that does not have it counts one
  more. `EntryQuotasImplement` joins the first two; the `...Bounded` theorems
  carry `AdmissionBounded` over.
- `ChestNumbersFollowMembers` (`NumbersFollowMembers`): a number in use below the
  longer texts belongs to one member, up to the requests in flight.
- `OfficialsAlone`: two handlers with different checks make a district's official; the
  unique user name, made of the district, keeps a second one out. `AccountsInv` adds
  that a row about to be inserted is of a district or unit name there is. A deletion
  takes one row out and leaves what is counted no larger.

**Kalamela.** `CatalogueInv` joins the types with what the answers that requests
carry are still worth (`AnswersHold` for officials, `EditsHold` for admins). Each
part has the same form: what others have not changed since the question was
asked (`since`, `changed`) is still as the answer said. A step of the request
itself asks (and then nothing has changed), keeps the answer or ends; a step of another
adds what it changes to the set.

- `CatalogueTyped`: fees name codes, events name fees and categories, entries name
  events (`FeesNameCodes`, `EventsNameRows`, `UsedEventsStand`); a deletion empties
  what it has loaded and is refused, by the foreign key, where something names
  its row that it has not loaded.
- `EntriesKeepTeams`: an insert appends rows of one event and one number
  (`EntryAdds`), and by `NumberHeld` it is one of those the unit had when the request
  asked: had the unit the same teams still and the members their unit, it is split no further.
- `SecondPaymentsReturn`: by `NoOtherBills` a request knows of every live payment of
  its district but those that came since; after its first question of those
  under review, after the second of all.
- `FeesLostByRaces`: by `FeeAsked` and `CategoryAsked` what a deletion has loaded are
  events changed since it asked.
- `OverlapsAreRevivalsOrRaces`: the three cases of the conflict check are all the
  ways for two intervals to overlap (`NoConflictNoOverlap`); by `NewChecked` and
  `UpdateChecked` a schedule about to be written is apart from every schedule not
  changed since, and an update that keeps the place is a revival or no change.
- `RankingsRestore`, `DisorderAlwaysOwed`: `ResultsInv` says of each session (`Sound`)
  that its cards of an event nobody disturbed are those of the table, and that the event
  it is about to commit is then ranked whole (`RankedWhole`). The loop remembers where
  the marks last fell; in a list that is in order the rank it gives is one more than
  the number of better marks (`RankIsPlace`), in whatever order equal marks were
  read. A commit of an event that nobody disturbed so leaves it in order; a commit of
  marks still owes the ranking; what is left are the steps that `DisorderIsOwed`
  names.
- `PodiumsFollowMarks`: in an event in order a better mark has more points, or both
  cards are beyond the third place; a card left out with a better mark than one
  shown would then leave three placed cards of which one is left out, too
  (`ThreePlaced`), and that one has more points than the one shown.

**Sessions.** `SessionsStayFew` (`FewSessions`): the argument of `FewProofsWait`
again. A login revokes the tokens it has seen; for every set of logins in
progress the tokens none of them has seen and the logins are together no more
than the requests.

**Only model-checked.** The liveness
of `UserSessions` (`StaleAnswersEnd`, `DeactivationTakesEffect`,
`LogoutTakesEffect`), which with ENABLED is out of the prover's reach. The three
disagreements (`CompletionIsPaid`, `EligibleMaySubmit`,
`AnsweredSubscriptionStays`) are counterexamples, and the magazine, which is in
no other run, has no theorem.

## 5. What was seen on the way

The three findings are runs. The following is behaviour of the code that the
models contain and that a maintainer may want to know; no run is spent on it.

- **Registration.** `bulk_complete_legacy_registrations` tests a coroutine, so every cycle passes
  (`registration_cycle_service.py:519`). The councilors' edits after a declaration
  are meant to reopen it and do not (`user.py:559`). A cycle without a snapshot owes
  0 in one place and its proof's total in another. A revert of an information
  request renames the member and not the official.
- **Registration under races.** Two uploads leave two proofs waiting, each upload at
  the same time one more (`FewWait`). A step of the wizard that was under way when
  the declaration or even the completion was committed takes it back
  (`TakenBackOnlyByOlderStep`); the declaration made again then counts the roster
  anew and leaves the balances of its approved proofs as they were. An approval and
  a roster change at the same time may leave the balance of the older fee, until the
  next payment page (`AloneKeepsBooks`).
- **Requests.** A rejection does not ask whether the request is still pending.
  A member whose archiving was ever questioned can never be restored: the
  concern keeps its foreign key. Two concerns filed together make the next check
  raise. `GET /removed-members/pending` says "not yet acknowledged" (`user.py:646`)
  and does not look at `notified_at`.
- **Scripts.** `repair_payment_balances.py` treats a fee of 0 as not set.
  `backfill_post_registration_member_fees.py --year` of another season charges the
  current one.
- **Conference.** A second payment row makes `add_conference_delegate_member` raise,
  two food rows block every later update, two rows of one member cannot be
  removed. `delete_district_official` deletes any account by its id, whatever its
  kind; one that other rows name cannot be deleted. Any official may remove the
  delegate of another. The status of a conference is never read.
- **Kalamela.** Numbers are texts, so after 999 the same number is given again.
  Scores added in bulk are not ranked, although a comment says that they will be;
  two batches of one event are ranked apart; a withdrawal ranks nothing. An appeal
  is looked up by the chest number alone. A district may exceed "max 2 teams per
  district" (`service.py:853`), and a payment that was declined can come back beside
  a newer one. A cancelled schedule is revived without a look for conflicts. The
  cached rules outlive their change by up to 5 minutes.
- **Kalamela under races.** Of two updates of one card the first to commit may rank
  last, with the mark it had set: the event is out of order, the request has
  succeeded, and nothing ranks it again (`DisorderIsOwed`, `RankingRestores`). Two
  entries of one unit at the same time give it two teams; two payments of one
  district are both made, against "only one active payment" (`service.py:1501`);
  two schedules of one stage both pass the check; an event that is given a fee
  while an admin deletes it ends without one. The properties say that each
  happens by such an overlap only.
- **Accounts.** The unit name is no unique column: two requests make two accounts,
  and later checks for one raise. Numbers the admin enters are stored bare, so
  two accounts may share one; a login by that number then raises. The admin's
  page checks neither the district nor `registration_enabled`, and opens no cycle.
- **Magazine.** Two pending payments can both be approved, and two active
  subscriptions make `get_active_subscription` raise. Files are stored and deleted
  at once while their rows may still roll back.
- **Sessions and caches.** Concurrent logins leave several sessions. Changes of
  quick links do not clear the cached page they are on, and registrations do not
  clear the lists of districts and unit names.

## 6. Not modelled

- **Races between handlers that are one action.** Split at their awaits are the
  handlers of `RegistrationRaces`, of the seven quotas, of concerns, of teams,
  payments, deletions and schedules in `KalamelaTeams` and `KalamelaCatalogue`, of
  `KalamelaResults`, of `UserSessions`, and the sessions of `Magazine`. The rest are one action from the first
  query to the commit, so nothing is said of two of them at the same time: the
  requests about members (an approval and a rejection of one transfer that both
  find it pending leave a member who has moved with a rejected request, which
  `SoleTransferDecides` does not cover), archiving and restoring, officials and
  quotas of the conference, and edits of categories, fees and events, where unique
  columns and foreign keys decide. Queries of one handler that follow
  each other with no write of its own between them are one step where no
  property tells them apart: `LookForTeam` (the unit's teams and the district's
  quota), the questions after it with the number chosen, and the reads of
  `ReadForUpdate`, one for each card.
- **Races of the registration with the rest.** `RegistrationRaces` splits the handlers
  of the unit and the admin that write a cycle, its proofs or its roster. Two first
  requests that both create the season's cycle (`registration_cycle_service.py:190`:
  one fails on the unique constraint), races with archiving and the scripts, and
  reads of one handler that are themselves apart in time are not modelled.
- **Acknowledging a removal** (`notified_at`): nothing reads it. **Notices** and the
  **conference row** are row edits without interaction.
- **Parts of two scripts**: `fix_active_season_units.py` writes states of named units
  by hand; `backfill_season_2025_open_2026.py` moves later cycles, where the fate of
  the proofs of a deleted cycle depends on the mapper's cascades. Copies between
  databases, seeds and read-only audits change nothing modelled here.
- **Kalaprathibha**, analytics, listings, exports and summaries: computed from
  rows, never read back.
- **OCR, gender, residence and phone helpers** (beyond the two forms of a number):
  validation without state. **Storage and notifications**: calls whose outcome no
  state depends on, but for the magazine's files. **Master data**: read-only.
- **Passwords of the magazine and Google sign-in** are not told apart.
