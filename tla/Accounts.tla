------------------------------ MODULE Accounts ------------------------------
(***************************************************************************)
(* The accounts of the units, of the districts' officials and of the blood *)
(* banks (app/auth/service.py, app/admin/routers/users.py,                 *)
(* app/admin/routers/system.py).  They are made by five handlers, each of  *)
(* which looks for what would be in the way and inserts its row later;     *)
(* what two of them may do at the same time is decided by the table's      *)
(* unique columns.                                                         *)
(*                                                                         *)
(* A unit's user name is made from the row's id.  An official's is the     *)
(* district's name, a blood bank's is given.  A phone number is stored     *)
(* with its country code, or bare where nothing normalises it; most checks *)
(* look for either form.                                                   *)
(***************************************************************************)
EXTENDS Integers, Sequences, FiniteSets

CONSTANTS
  UnitNames, ClergyDistricts, BloodBanks,
  ClergyOf,       (* unit_name.clergy_district_id                          *)
  Digits,         (* phone numbers, less their form                        *)
  Secrets,        (* passwords                                             *)
  Handlers,       (* the requests served at the same time                  *)
  MaxAccounts,    (* bounds the accounts                                   *)
  Absent

ASSUME AccountsAssumption ==
  /\ IsFiniteSet(Handlers) /\ Handlers # {}
  /\ ClergyOf \in [UnitNames -> ClergyDistricts]
  /\ MaxAccounts \in Nat
  /\ Absent \notin UnitNames

VARIABLES
  places,         (* the districts and unit names there are                *)
  enabled,        (* site_settings.registration_enabled                    *)
  accounts,       (* custom_user, in the order of the ids                  *)
  inserts         (* the row each handler is about to insert, or Absent    *)

ovars == <<places, enabled, accounts, inserts>>

Phone  == [digits : Digits, bare : BOOLEAN]
Owners == UnitNames \union ClergyDistricts \union BloodBanks

(* of: the unit name, the district, or the user name of a blood bank.      *)
Account ==
  [kind : {"UNIT", "OFFICIAL", "BLOOD"}, of : Owners,
   phone : Phone \union {Absent}, secret : Secrets]

ASSUME NoAccount == Absent \notin Account

Numbers == DOMAIN accounts

AccountsTypeOK ==
  /\ places \subseteq UnitNames \union ClergyDistricts
  /\ enabled \in BOOLEAN
  /\ accounts \in Seq(Account)
  /\ inserts \in [Handlers -> Account \union {Absent}]
  /\ \A i \in Numbers : accounts[i].kind # "BLOOD" => accounts[i].of \in places
  /\ \A i, j \in Numbers : i # j => accounts[i].phone \notin {accounts[j].phone} \ {Absent}

AccountsInit ==
  /\ places = {}
  /\ enabled \in BOOLEAN
  /\ accounts = << >>
  /\ inserts = [h \in Handlers |-> Absent]

-----------------------------------------------------------------------------
(* Districts, unit names and the switch of the site.                       *)

CreateDistrict(d) ==
  /\ d \notin places
  /\ places' = places \union {d}
  /\ UNCHANGED <<enabled, accounts, inserts>>

CreateUnitName(u) ==
  /\ u \notin places
  /\ ClergyOf[u] \in places
  /\ places' = places \union {u}
  /\ UNCHANGED <<enabled, accounts, inserts>>

SwitchRegistration ==
  /\ enabled' = ~enabled
  /\ UNCHANGED <<places, accounts, inserts>>

-----------------------------------------------------------------------------
(* What is looked for before an account is made.                           *)

UnitAccounts(u) == {i \in Numbers : accounts[i].kind = "UNIT" /\ accounts[i].of = u}
DistrictOfficials(d) ==
  {i \in Numbers : accounts[i].kind = "OFFICIAL" /\ accounts[i].of = d}

(* A unit's user name is its own.                                          *)
NameFree(x) == \A i \in Numbers : accounts[i].kind = "UNIT" \/ accounts[i].of # x

(* phone_lookup_variants: in either form.                                  *)
PhoneFree(p) ==
  \A i \in Numbers : accounts[i].phone # Absent => accounts[i].phone.digits # p.digits

Ready(h, a) ==
  /\ inserts[h] = Absent
  /\ inserts' = [inserts EXCEPT ![h] = a]
  /\ UNCHANGED <<places, enabled, accounts>>

New(kind, x, p, s) == [kind |-> kind, of |-> x, phone |-> p, secret |-> s]

(* register_unit, by the unit itself.  The number is normalised.  The rows *)
(* of the registration that come with the account, in one transaction, are *)
(* where RegistrationCycle starts.                                         *)
RegisterUnit(h, u, p, s) ==
  /\ enabled
  /\ u \in places
  /\ UnitAccounts(u) = {}
  /\ ~p.bare /\ PhoneFree(p)
  /\ Ready(h, New("UNIT", u, p, s))

(* Mutant: only the phone is asked.                                        *)
CreateUnitUserByPhone(h, u, p, s) ==
  /\ u \in places
  /\ \A i \in Numbers : accounts[i].phone # p
  /\ Ready(h, New("UNIT", u, p, s))

(* create_registered_user, by the admin: also while registration is        *)
(* closed, with the number as it was written, looked for as it is.         *)
CreateUnitUser(h, u, p, s) ==
  /\ u \in places
  /\ \A i \in Numbers : accounts[i].phone # p
  /\ UnitAccounts(u) = {}
  /\ Ready(h, New("UNIT", u, p, s))

CreateOfficial(h, d, p, s) ==
  /\ d \in places
  /\ DistrictOfficials(d) = {}
  /\ NameFree(d)
  /\ ~p.bare /\ PhoneFree(p)
  /\ Ready(h, New("OFFICIAL", d, p, s))

(* add_conference_delegate_official: the number is a member's, as it is,   *)
(* and nothing looks for it.  Officials of other conferences are not in    *)
(* the way, but for the name.                                              *)
CreateConferenceOfficial(h, d, p, s) ==
  /\ d \in places
  /\ NameFree(d)
  /\ Ready(h, New("OFFICIAL", d, p, s))

CreateBloodBank(h, b, p, s) ==
  /\ NameFree(b)
  /\ p # Absent => ~p.bare /\ PhoneFree(p)
  /\ Ready(h, New("BLOOD", b, p, s))

(* The unique columns of custom_user.                                      *)
Unique(a) ==
  /\ a.kind # "UNIT" => NameFree(a.of)
  /\ \A i \in Numbers : a.phone = Absent \/ accounts[i].phone # a.phone

Insert(h) ==
  /\ inserts[h] # Absent
  /\ Unique(inserts[h])
  /\ Len(accounts) < MaxAccounts
  /\ accounts' = Append(accounts, inserts[h])
  /\ inserts' = [inserts EXCEPT ![h] = Absent]
  /\ UNCHANGED <<places, enabled>>

(* The insert violates a unique column, or the request is lost.            *)
Fail(h) ==
  /\ inserts[h] # Absent
  /\ inserts' = [inserts EXCEPT ![h] = Absent]
  /\ UNCHANGED <<places, enabled, accounts>>

-----------------------------------------------------------------------------
(* Changes of accounts.                                                    *)

WithSecrets(I, s) ==
  /\ accounts' = [i \in Numbers |-> IF i \in I THEN [accounts[i] EXCEPT !.secret = s]
                                    ELSE accounts[i]]
  /\ UNCHANGED <<places, enabled, inserts>>

(* reset_password, of one account; bulk_reset_passwords, of several.       *)
ResetSecret(i, s)   == WithSecrets({i}, s)
ResetSecrets(I, s)  == I # {} /\ WithSecrets(I, s)

(* A unit's district is that of its unit name; a blood bank has none.      *)
ClergyDistrictOf(i) ==
  CASE accounts[i].kind = "UNIT"     -> ClergyOf[accounts[i].of]
    [] accounts[i].kind = "OFFICIAL" -> accounts[i].of
    [] accounts[i].kind = "BLOOD"    -> Absent

(* reset_all_passwords_by_type, of every district or of one.  (With        *)
(* unique_passwords each unit gets one of its own: a reset of each.)       *)
ResetKind(kind, d, s) ==
  ResetSecrets({i \in Numbers : accounts[i].kind = kind /\ d \in {Absent, ClergyDistrictOf(i)}}, s)

(* update_blood_bank_user.  A number in another form is not looked for.    *)
UpdateBloodBank(i, p, s) ==
  /\ accounts[i].kind = "BLOOD"
  /\ p # Absent => /\ ~p.bare
                   /\ \/ accounts[i].phone # Absent /\ accounts[i].phone.digits = p.digits
                      \/ PhoneFree(p)
                   /\ \A j \in Numbers \ {i} : accounts[j].phone # p
  /\ accounts' = [accounts EXCEPT ![i].secret = s, ![i].phone = IF p = Absent THEN @ ELSE p]
  /\ UNCHANGED <<places, enabled, inserts>>

(* delete_district_official, of any account by its id: its kind is not     *)
(* looked at, but a unit's is held by the row of its registration.  Other  *)
(* rows that may hold one, as its delegates and tokens do, are left out.   *)
DeleteAccount(i) ==
  /\ accounts[i].kind # "UNIT"
  /\ accounts' = [j \in 1 .. Len(accounts) - 1 |-> accounts[IF j < i THEN j ELSE j + 1]]
  /\ UNCHANGED <<places, enabled, inserts>>

-----------------------------------------------------------------------------

CreateStep(h) ==
  \/ \E p \in Phone, s \in Secrets :
       \/ \E u \in UnitNames : RegisterUnit(h, u, p, s) \/ CreateUnitUser(h, u, p, s)
       \/ \E d \in ClergyDistricts :
            CreateOfficial(h, d, p, s) \/ CreateConferenceOfficial(h, d, p, s)
  \/ \E b \in BloodBanks, p \in Phone \union {Absent}, s \in Secrets :
       CreateBloodBank(h, b, p, s)
  \/ Insert(h)
  \/ Fail(h)

ChangeStep ==
  \/ \E i \in Numbers, s \in Secrets :
       ResetSecret(i, s) \/ \E p \in Phone \union {Absent} : UpdateBloodBank(i, p, s)
  \/ \E I \in SUBSET Numbers, s \in Secrets : ResetSecrets(I, s)
  \/ \E kind \in {"UNIT", "OFFICIAL", "BLOOD"}, d \in ClergyDistricts \union {Absent} :
       \E s \in Secrets : ResetKind(kind, d, s)

SiteStep ==
  \/ \E d \in ClergyDistricts : CreateDistrict(d)
  \/ \E u \in UnitNames : CreateUnitName(u)
  \/ SwitchRegistration

AccountsNext ==
  \/ SiteStep
  \/ ChangeStep
  \/ \E i \in Numbers : DeleteAccount(i)
  \/ \E h \in Handlers : CreateStep(h)

AccountsSpec == AccountsInit /\ [][AccountsNext]_ovars

-----------------------------------------------------------------------------

UnitAdmission == INSTANCE BoundedAdmission WITH
  Slots    <- UnitNames,
  Requests <- Handlers,
  Limit    <- 1,
  NoSlot   <- Absent,
  count    <- [u \in UnitNames |-> Cardinality(UnitAccounts(u))],
  passed   <- [h \in Handlers |-> IF inserts[h] # Absent /\ inserts[h].kind = "UNIT"
                                  THEN inserts[h].of ELSE Absent]

(* A district has one official at most, although the two handlers that     *)
(* make one look for different things, and may run at the same time: the   *)
(* user name, which is the district's, is unique ("Each district can have  *)
(* only ONE district official account", app/admin/routers/users.py).       *)
OneOfficialEach ==
  \A d \in ClergyDistricts : Cardinality(DistrictOfficials(d)) <= 1

(* Registering a unit, by itself or by the admin, is an admission of one   *)
(* account for each unit name: with one request at a time a unit has one   *)
(* account, and never more than there are requests at the same time (the   *)
(* unit name is not a unique column; register_unit,                        *)
(* create_registered_user).  An official is alone whatever runs at the     *)
(* same time.                                                              *)
AccountsFollowOwners == UnitAdmission!AdmissionSpec /\ []OneOfficialEach

=============================================================================
