---------------------------- MODULE Organisations ----------------------------
(***************************************************************************)
(* How an organisation comes to be and what its settings do to its books:  *)
(* self-service signup (iam/services/signup.py), the seeding of its chart  *)
(* and calendar (seed_chart_of_accounts, english_chart), which a release   *)
(* runs again, its HR defaults, and the settings endpoint (tenancy).       *)
(*                                                                         *)
(* A request is one transaction at READ COMMITTED: what a signup has       *)
(* inserted is in ws[w] until it commits, and an insert of the same unique *)
(* value waits for it.  A PATCH reads the row without a lock and saves     *)
(* every column.                                                           *)
(***************************************************************************)
EXTENDS Integers, Sequences, FiniteSetsExt

CONSTANTS
  Org,         \* organisations that may be founded, all of one name
  Email, Currency, Key, Month,
  Worker,
  Template,    \* the roles of the default accounts by place, one sequence a release
  MaxPlaces,   \* bounds the accounts of a chart
  OneDesk,     \* are settings changed while nobody else works in the organisation?
  None

VARIABLES
  org,      \* the committed rows of each organisation
  entries,  \* the currencies that its posted entries are denominated in
  release,  \* the release that is deployed
  ws

vars == <<org, entries, release, ws>>

Roles(r) == {Template[r][k] : k \in DOMAIN Template[r]} \ {""}
RoleName == {""} \cup UNION {Roles(r) : r \in DOMAIN Template}

(* A slug: name, name-2, name-3, ..., or name and a random token.          *)
Slug == ({"name"} \X Nat) \cup ({"random"} \X Org)

(* An account of a chart: role is its system_key, own whether the          *)
(* organisation has created it.  A month has who closed it.                *)
AccountRow == [role : RoleName, own : BOOLEAN]
MonthRow   == [status : {"open", "closed"}, closedBy : {"accountant", None}]
OrgRow     == [slug : Slug, founder : Email, owner : BOOLEAN, currency : Currency,
               prefs : SUBSET Key, defaults : BOOLEAN,
               chart : Seq(AccountRow), calendar : [Month -> MonthRow \cup {None}]]

(* The roles that services look up by name stay in every release.          *)
OrganisationsConstantsOK ==
  /\ \A S \in {Org, Email, Currency, Key, Month, Worker} : IsFiniteSet(S)
  /\ Template \in Seq(Seq(RoleName)) /\ Template # <<>>
  /\ \A r \in DOMAIN Template : Len(Template[r]) <= MaxPlaces /\ Roles(1) \subseteq Roles(r)
  /\ MaxPlaces \in Nat /\ OneDesk \in BOOLEAN
  /\ None \notin OrgRow /\ None \notin MonthRow

Exists(o) == org[o] # None
Founded   == {o \in Org : Exists(o)}

Idle == [verb |-> "idle", of |-> None, email |-> None, slug |-> <<"name", 0>>, seen |-> None, code |-> None]
Busy(w) == ws[w].verb # "idle"
End(w)  == ws' = [ws EXCEPT ![w] = Idle]
Serves(w, verbs, o) == ws[w].verb \in verbs /\ ws[w].of = o

(* Settings are changed while nobody else works in the organisation.       *)
Undisturbed(o, verbs) == OneDesk => \A w \in Worker : ~Serves(w, verbs, o)

-----------------------------------------------------------------------------
(* The chart and the calendar.                                             *)

Blank == [role |-> "", own |-> FALSE]

(* build_default_chart walks the places and upserts each: the role of a    *)
(* place is refreshed, and no other account may hold it at that moment:    *)
(* not one before it, which is refreshed, nor one after it, which is not.  *)
CanSeed(chart, roles) == \A k \in DOMAIN roles : roles[k] # "" =>
  /\ \A j \in DOMAIN roles : j < k => roles[j] # roles[k]
  /\ \A j \in DOMAIN chart : j > k => chart[j].role # roles[k]

Seeded(chart, roles) ==
  [k \in DOMAIN chart \cup DOMAIN roles |->
     CASE k \in DOMAIN roles /\ k \in DOMAIN chart -> [chart[k] EXCEPT !.role = roles[k]]
       [] k \in DOMAIN roles /\ k \notin DOMAIN chart -> [Blank EXCEPT !.role = roles[k]]
       [] OTHER -> chart[k]]

HasRoles(chart, roles) == roles \subseteq {chart[k].role : k \in DOMAIN chart}

NewMonth == [status |-> "open", closedBy |-> None]

(* Months that are there are left as they are.                             *)
WithCalendar(calendar) == [m \in Month |-> IF calendar[m] = None THEN NewMonth ELSE calendar[m]]

(* seed_chart_of_accounts; it refuses to finish with a role missing.       *)
Reseed(o) ==
  LET chart == Seeded(org[o].chart, Template[release]) IN
  /\ Exists(o) /\ CanSeed(org[o].chart, Template[release])
  /\ HasRoles(chart, Roles(release))
  /\ org' = [org EXCEPT ![o].chart = chart, ![o].calendar = WithCalendar(@)]
  /\ UNCHANGED <<entries, release, ws>>

(* The organisation's own account takes the next free place.               *)
AddAccount(o) ==
  /\ Exists(o) /\ Len(org[o].chart) < MaxPlaces
  /\ org' = [org EXCEPT ![o].chart = Append(@, [role |-> "", own |-> TRUE])]
  /\ UNCHANGED <<entries, release, ws>>

CloseMonth(o, m) ==
  /\ Exists(o) /\ org[o].calendar[m].status = "open"
  /\ org' = [org EXCEPT ![o].calendar[m] = [status |-> "closed", closedBy |-> "accountant"]]
  /\ UNCHANGED <<entries, release, ws>>

Upgrade == release < Len(Template) /\ release' = release + 1 /\ UNCHANGED <<org, entries, ws>>

-----------------------------------------------------------------------------
(* Signup.                                                                 *)
Emails == {org[o].founder : o \in Founded}
Slugs  == {org[o].slug : o \in Founded}

(* base, base-2, ... : the first that is free.                             *)
FirstFree == <<"name", Min({n \in 1..(Cardinality(Org) + 1) : <<"name", n>> \notin Slugs})>>

Begin(w, o, e) ==
  /\ ~Busy(w) /\ ~Exists(o) /\ \A v \in Worker : ws[v].of # o
  /\ e \notin Emails
  /\ ws' = [ws EXCEPT ![w] = [Idle EXCEPT !.verb = "tenant", !.of = o, !.email = e, !.slug = FirstFree]]
  /\ UNCHANGED <<org, entries, release>>

(* An insert waits for the one that has inserted the same value.           *)
SlugWaits(w)  == \E v \in Worker \ {w} : ws[v].verb \in {"user", "provision"} /\ ws[v].slug = ws[w].slug
EmailWaits(w) == \E v \in Worker \ {w} : ws[v].verb = "provision" /\ ws[v].email = ws[w].email

(* _create_tenant: a slug that was taken meanwhile is replaced by a random *)
(* one, behind a savepoint.                                                *)
InsertTenant(w) ==
  /\ ws[w].verb = "tenant" /\ ~SlugWaits(w)
  /\ ws' = [ws EXCEPT ![w] = IF ws[w].slug \in Slugs THEN [ws[w] EXCEPT !.slug = <<"random", ws[w].of>>]
                             ELSE [ws[w] EXCEPT !.verb = "user"]]
  /\ UNCHANGED <<org, entries, release>>

(* An email that was registered meanwhile fails the whole signup.          *)
InsertUser(w) ==
  /\ ws[w].verb = "user" /\ ~EmailWaits(w)
  /\ IF ws[w].email \in Emails THEN End(w) ELSE ws' = [ws EXCEPT ![w].verb = "provision"]
  /\ UNCHANGED <<org, entries, release>>

(* The membership, the owner's role, the chart and the calendar; without   *)
(* the HR defaults an organisation is founded all the same.                *)
NewOrg(w, c, defaults) ==
  [slug |-> ws[w].slug, founder |-> ws[w].email, owner |-> TRUE, currency |-> c, prefs |-> {},
   defaults |-> defaults, chart |-> Seeded(<<>>, Template[release]),
   calendar |-> WithCalendar([m \in Month |-> None])]

Provision(w) ==
  /\ ws[w].verb = "provision" /\ CanSeed(<<>>, Template[release])
  /\ \E c \in Currency, defaults \in BOOLEAN :
       org' = [org EXCEPT ![ws[w].of] = NewOrg(w, c, defaults)]
  /\ End(w) /\ UNCHANGED <<entries, release>>

(* seed_tenant_defaults, later and again: get_or_create.                   *)
SeedDefaults(o) ==
  /\ Exists(o) /\ org' = [org EXCEPT ![o].defaults = TRUE] /\ UNCHANGED <<entries, release, ws>>

(* A refusal, a failed chart or a crash: everything is rolled back.        *)
Abort(w) == Busy(w) /\ End(w) /\ UNCHANGED <<org, entries, release>>

-----------------------------------------------------------------------------
(* Settings and the entries they give a currency.                          *)

\* Mutant: the books are not looked at.
ChangeableAlways(o) == TRUE

(* assert_base_currency_changeable                                         *)
Changeable(o) == entries[o] = {}

(* PATCH /tenancy/current/ validates the row it has read; code is the      *)
(* currency asked for, if any.                                             *)
ReadSettings(w, o, c) ==
  /\ ~Busy(w) /\ Exists(o) /\ Undisturbed(o, {"patch", "post"})
  /\ c \notin {None, org[o].currency} => Changeable(o)
  /\ ws' = [ws EXCEPT ![w] = [Idle EXCEPT !.verb = "patch", !.of = o, !.seen = org[o], !.code = c]]
  /\ UNCHANGED <<org, entries, release>>

(* The preferences that were sent, merged into those of the copy.          *)
Merged(copy, S) == copy.prefs \cup S

(* update: every column of the copy; then the currency, if it is not what  *)
(* the copy says.                                                          *)
SaveSettings(w, S) == LET o == ws[w].of IN
  /\ ws[w].verb = "patch"
  /\ LET copy == ws[w].seen
         asks == ws[w].code \notin {None, copy.currency}
     IN  /\ asks => Changeable(o)
         /\ org' = [org EXCEPT ![o] = [@ EXCEPT !.prefs = Merged(copy, S),
                      !.currency = IF asks THEN ws[w].code ELSE copy.currency]]
  /\ End(w) /\ UNCHANGED <<entries, release>>

(* post_entry converts into the currency it reads (fx.base_currency).      *)
BeginPost(w, o) ==
  /\ ~Busy(w) /\ Exists(o) /\ Undisturbed(o, {"patch"})
  /\ ws' = [ws EXCEPT ![w] = [Idle EXCEPT !.verb = "post", !.of = o, !.code = org[o].currency]]
  /\ UNCHANGED <<org, entries, release>>

CommitPost(w) ==
  /\ ws[w].verb = "post"
  /\ entries' = [entries EXCEPT ![ws[w].of] = @ \cup {ws[w].code}]
  /\ End(w) /\ UNCHANGED <<org, release>>

-----------------------------------------------------------------------------
Init ==
  /\ org = [o \in Org |-> None] /\ entries = [o \in Org |-> {}]
  /\ release = 1 /\ ws = [w \in Worker |-> Idle]

Founding(w) == \/ \E o \in Org, e \in Email : Begin(w, o, e)
               \/ InsertTenant(w) \/ InsertUser(w) \/ Provision(w)

Settling(w) == \/ \E o \in Org, c \in Currency \cup {None} : ReadSettings(w, o, c)
               \/ \E S \in {{k} : k \in Key} \cup {{}} : SaveSettings(w, S)
               \/ \E o \in Org : BeginPost(w, o)
               \/ CommitPost(w)

Keeping(o) == Reseed(o) \/ AddAccount(o) \/ SeedDefaults(o) \/ \E m \in Month : CloseMonth(o, m)

Next == \/ \E w \in Worker : Founding(w) \/ Settling(w) \/ Abort(w)
        \/ \E o \in Org : Keeping(o)
        \/ Upgrade

Spec == Init /\ [][Next]_vars

-----------------------------------------------------------------------------
(* Every variable has the values its columns can hold.                     *)
OrganisationsTypeOK ==
  /\ \A o \in Founded : org[o] \in OrgRow
  /\ entries \in [Org -> SUBSET Currency] /\ release \in DOMAIN Template

(* An organisation that exists works, whoever signed up beside it: nobody  *)
(* else has its slug or its founder's login, its founder owns it, every    *)
(* role that postings ask for is an account of its own and one only, and   *)
(* it has its months.                                                      *)
OrganisationsWork ==
  /\ \A o, q \in Founded : o # q => org[o].slug # org[q].slug /\ org[o].founder # org[q].founder
  /\ \A o \in Founded :
       LET chart == org[o].chart IN
       /\ org[o].owner /\ None \notin {org[o].calendar[m] : m \in Month}
       /\ HasRoles(chart, Roles(1))
       /\ \A j, k \in DOMAIN chart : j # k /\ chart[j].role = chart[k].role => chart[j].role = ""

(* A month that was closed is not opened by seeding the calendar again.    *)
ClosedStays == \A o \in Founded, m \in Month :
  org[o].calendar[m].closedBy # None => org[o].calendar[m].status = "closed"

(* The comment of Tenant.base_currency, tenancy/models.py:61: what is      *)
(* posted is in the currency the ledger is kept in.  It takes an           *)
(* undisturbed desk.                                                       *)
BooksInBase == \A o \in Founded : entries[o] \subseteq {org[o].currency}

(* An organisation begins whole and stays so.                              *)
OrganisationsStand == OrganisationsWork /\ ClosedStays /\ BooksInBase

(* The docstring of build_default_chart, english_chart.py:208: seeding     *)
(* again moves no balance; an own account gets no role by an upgrade.      *)
OwnAccountsStay == \A o \in Founded : \A k \in DOMAIN org[o].chart :
  org[o].chart[k].own => org[o].chart[k].role = ""

(* The comment of validate_settings, tenancy/serializers.py:98: a setting  *)
(* that is not sent is not wiped.                                          *)
SettingsMerge == [][\A o \in Founded : org[o].prefs \subseteq org'[o].prefs]_vars
=============================================================================
