-------------------------- MODULE OrganisationProofs --------------------------
(***************************************************************************)
(* Proofs about the organisations, roles and org chart of MCPeople: what   *)
(* they hold, and what they let somebody see, stays what they were         *)
(* founded, released and given as; and the types of every part.  They hold *)
(* for any number of organisations, roles, departments and workers.        *)
(***************************************************************************)
EXTENDS PeopleProofs

-----------------------------------------------------------------------------
(* Roles.                                                                  *)
(* What a request about a role holds.                                      *)
Errand == [does : {"nothing", "edit", "delete"}, role : Catalogue!Role,
           list : SUBSET Permission, sent : BOOLEAN]

(* Edits are of custom roles; the file that was seeded last is the shipped *)
(* part of the table.                                                      *)
RolesInv ==
  /\ Catalogue!RolesTypeOK /\ seat \in [Seat -> Errand]
  /\ \A w \in Seat : seat[w].does # "nothing" => seat[w].role \in CustomRole
  /\ deployed # 0 => /\ deployed \in DOMAIN File
                     /\ \A r \in DOMAIN File[deployed].roles : roles[r] = Catalogue!Bundle(File[deployed].roles[r])
  /\ \A r \in CustomRole : roles[r].permissions \subseteq asked[r]
  /\ \A g \in grants : roles[g.role].there
  /\ \A r \in Catalogue!Role : /\ roles[r].permissions \subseteq known
                               /\ roles[r].permissions # {} => roles[r].there

LEMMA RoleSizes ==
  /\ SystemRole \cap CustomRole = {} /\ SystemRole # {}
  /\ \A f \in DOMAIN File : /\ File[f].permissions \subseteq Permission
                            /\ DOMAIN File[f].roles \subseteq SystemRole
BY RoleConstants DEF Catalogue!RolesConstantsOK

LEMMA RoleIdle == Catalogue!Idle \in Errand /\ Catalogue!Idle.does = "nothing"
<1>1. PICK k : k = CHOOSE r \in Catalogue!Role : TRUE
  OBVIOUS
<1>2. k \in Catalogue!Role
  BY <1>1, RoleSizes DEF Catalogue!Role
<1> QED BY <1>1, <1>2 DEF Catalogue!Idle, Errand

LEMMA BundleFields == \A S \in SUBSET Permission :
  /\ Catalogue!Bundle(S) \in Catalogue!RoleRow /\ Catalogue!Bundle(S).there /\ Catalogue!Bundle(S).permissions = S
BY DEF Catalogue!Bundle, Catalogue!RoleRow

LEMMA NoRoleFields == /\ Catalogue!NoRole \in Catalogue!RoleRow
                      /\ ~Catalogue!NoRole.there /\ Catalogue!NoRole.permissions = {}
BY DEF Catalogue!NoRole, Catalogue!RoleRow

LEMMA RolesBegin == Catalogue!Init => RolesInv
<1> SUFFICES ASSUME Catalogue!Init PROVE RolesInv
  OBVIOUS
<1>1. seat \in [Seat -> Errand] /\ \A w \in Seat : seat[w].does = "nothing"
  BY RoleIdle DEF Catalogue!Init
<1>2. roles \in [Catalogue!Role -> Catalogue!RoleRow] /\ \A r \in Catalogue!Role : roles[r] = Catalogue!NoRole
  BY NoRoleFields DEF Catalogue!Init
<1>3. /\ asked \in [CustomRole -> SUBSET Permission] /\ grants = {} /\ today = 0 /\ deployed = 0 /\ known = {}
      /\ today \in Catalogue!Day
  BY RoleConstants DEF Catalogue!Init, Catalogue!Day, Catalogue!RolesConstantsOK
<1>4. Catalogue!RolesTypeOK
  BY <1>1, <1>2, <1>3 DEF Catalogue!RolesTypeOK, Errand
<1> QED BY <1>1, <1>2, <1>3, <1>4, NoRoleFields DEF RolesInv, Catalogue!Role

LEMMA DeployStep ==
  ASSUME RolesInv, NEW f \in DOMAIN File, NEW prune \in BOOLEAN, Catalogue!Deploy(f, prune)
  PROVE  RolesInv'
<1> USE DEF RolesInv, Catalogue!RolesTypeOK
<1>1. PICK file : file = File[f]
  OBVIOUS
<1>2. /\ file.permissions \subseteq Permission /\ DOMAIN file.roles \subseteq SystemRole
      /\ \A r \in DOMAIN file.roles : file.roles[r] \subseteq file.permissions
      /\ prune => \A r \in SystemRole \ DOMAIN file.roles : roles[r].there => ~Catalogue!Held(r)
      /\ known' = IF prune THEN file.permissions ELSE known \cup file.permissions
      /\ deployed' = f /\ UNCHANGED <<asked, grants, today, seat>>
  BY <1>1, RoleSizes DEF Catalogue!Deploy, Catalogue!Consistent, Catalogue!MayPrune, Catalogue!Undeclared
<1>3. roles' = [r \in Catalogue!Role |->
         CASE r \in DOMAIN file.roles -> Catalogue!Bundle(file.roles[r])
           [] r \in SystemRole \ DOMAIN file.roles /\ prune -> Catalogue!NoRole
           [] r \in CustomRole /\ prune -> [roles[r] EXCEPT !.permissions = @ \cap file.permissions]
           [] OTHER -> roles[r]]
  BY <1>1 DEF Catalogue!Deploy, Catalogue!Seeded
<1>4. \A r \in DOMAIN file.roles : /\ roles'[r] = Catalogue!Bundle(file.roles[r])
                                   /\ r \in Catalogue!Role /\ r \notin CustomRole
  BY <1>2, <1>3, RoleSizes DEF Catalogue!Role
<1>5. \A r \in SystemRole \ DOMAIN file.roles : prune => roles'[r] = Catalogue!NoRole
  BY <1>2, <1>3, RoleSizes DEF Catalogue!Role
<1>6. \A r \in Catalogue!Role \ DOMAIN file.roles : ~prune => roles'[r] = roles[r]
  BY <1>2, <1>3, RoleSizes DEF Catalogue!Role
<1>7. ASSUME NEW r \in CustomRole, prune
      PROVE  /\ roles'[r] \in Catalogue!RoleRow /\ roles'[r].there = roles[r].there
             /\ roles'[r].permissions = roles[r].permissions \cap file.permissions
  <2>1. roles'[r] = [roles[r] EXCEPT !.permissions = @ \cap file.permissions]
    BY <1>2, <1>3, <1>7, RoleSizes DEF Catalogue!Role
  <2>2. roles[r] \in Catalogue!RoleRow
    BY DEF Catalogue!Role
  <2> QED BY ONLY <2>1, <2>2 DEF Catalogue!RoleRow
<1>8. ASSUME NEW r \in Catalogue!Role
      PROVE  /\ roles'[r] \in Catalogue!RoleRow
             /\ roles'[r].permissions \subseteq known'
             /\ roles'[r].permissions # {} => roles'[r].there
             /\ r \in CustomRole => roles'[r].permissions \subseteq asked[r]
             /\ Catalogue!Held(r) => roles'[r].there
  <2>0. /\ roles[r] \in Catalogue!RoleRow /\ roles[r].permissions \subseteq known
        /\ roles[r].permissions # {} => roles[r].there
        /\ r \in CustomRole => roles[r].permissions \subseteq asked[r]
        /\ Catalogue!Held(r) => roles[r].there
    BY DEF Catalogue!Held
  <2>1. CASE r \in DOMAIN file.roles
    BY <1>2, <1>4, <2>1, BundleFields
  <2>2. CASE r \notin DOMAIN file.roles /\ ~prune
    BY <1>2, <1>6, <2>0, <2>2
  <2>3. CASE r \in SystemRole \ DOMAIN file.roles /\ prune
    BY <1>2, <1>5, <2>0, <2>3, NoRoleFields, RoleSizes
  <2>4. CASE r \in CustomRole /\ prune
    BY <1>2, <1>7, <2>0, <2>4
  <2> QED BY <2>1, <2>2, <2>3, <2>4 DEF Catalogue!Role
<1>9. roles' \in [Catalogue!Role -> Catalogue!RoleRow] /\ known' \subseteq Permission
  BY <1>2, <1>3, <1>8
<1>10. \A g \in grants : g.role \in Catalogue!Role /\ Catalogue!Held(g.role)
  BY DEF Catalogue!Grant, Catalogue!Held
<1> QED BY <1>1, <1>2, <1>4, <1>8, <1>9, <1>10 DEF Catalogue!Role

(* One custom role is written.                                             *)
LEMMA OneRoleWritten ==
  ASSUME RolesInv, NEW r \in CustomRole, NEW row \in Catalogue!RoleRow, NEW list \in SUBSET Permission,
         roles' = [roles EXCEPT ![r] = row], asked' = [asked EXCEPT ![r] = list],
         row.permissions \subseteq list, row.permissions \subseteq known,
         row.permissions # {} => row.there,
         row.there \/ ~Catalogue!Held(r),
         UNCHANGED <<known, grants, today, deployed>>,
         seat' \in [Seat -> Errand],
         \A w \in Seat : seat'[w].does # "nothing" => seat'[w].role \in CustomRole
  PROVE  RolesInv'
<1> USE DEF RolesInv, Catalogue!RolesTypeOK
<1>1. r \in Catalogue!Role /\ r \notin SystemRole
  BY RoleSizes DEF Catalogue!Role
<1>2. \A q \in Catalogue!Role : roles'[q] = IF q = r THEN row ELSE roles[q]
  BY <1>1
<1>3. \A q \in CustomRole : asked'[q] = IF q = r THEN list ELSE asked[q]
  OBVIOUS
<1>4. \A g \in grants : g.role \in Catalogue!Role /\ Catalogue!Held(g.role)
  BY DEF Catalogue!Grant, Catalogue!Held
<1>5. \A q \in CustomRole : roles'[q].permissions \subseteq asked'[q]
  BY <1>2, <1>3 DEF Catalogue!Role
<1>6. \A g \in grants : roles'[g.role].there
  BY <1>2, <1>4
<1>7. roles' \in [Catalogue!Role -> Catalogue!RoleRow] /\ asked' \in [CustomRole -> SUBSET Permission]
  BY <1>1
<1>8. deployed # 0 => \A q \in DOMAIN File[deployed].roles : roles'[q] = roles[q]
  BY <1>1, <1>2, RoleSizes DEF Catalogue!Role
<1>9. \A q \in Catalogue!Role : /\ roles'[q].permissions \subseteq known
                                /\ roles'[q].permissions # {} => roles'[q].there
  BY <1>2
<1>10. \A w \in Seat : seat'[w].does \in {"nothing", "edit", "delete"} /\ seat'[w].role \in Catalogue!Role
  BY DEF Errand
<1> QED BY <1>5, <1>6, <1>7, <1>8, <1>9, <1>10

(* Only a request changes.                                                 *)
LEMMA ErrandStep ==
  ASSUME RolesInv, NEW w \in Seat, NEW e \in Errand, seat' = [seat EXCEPT ![w] = e],
         e.does # "nothing" => e.role \in CustomRole,
         UNCHANGED <<known, roles, asked, grants, today, deployed>>
  PROVE  RolesInv'
<1> USE DEF RolesInv, Catalogue!RolesTypeOK
<1>1. \A v \in Seat : seat'[v] = IF v = w THEN e ELSE seat[v]
  OBVIOUS
<1>2. seat' \in [Seat -> Errand]
  OBVIOUS
<1>3. \A v \in Seat : /\ seat'[v].does \in {"nothing", "edit", "delete"} /\ seat'[v].role \in Catalogue!Role
                      /\ seat'[v].does # "nothing" => seat'[v].role \in CustomRole
  BY <1>1, <1>2 DEF Errand
<1> QED BY <1>2, <1>3

(* The assignments change.                                                 *)
LEMMA GrantsStep ==
  ASSUME RolesInv, grants' \subseteq Catalogue!Grant, \A g \in grants' : roles[g.role].there,
         today' \in Catalogue!Day, UNCHANGED <<known, roles, asked, deployed, seat>>
  PROVE  RolesInv'
BY DEF RolesInv, Catalogue!RolesTypeOK

LEMMA RolesStep ==
  ASSUME RolesInv, [Catalogue!Next]_roleVars
  PROVE  RolesInv'
<1> USE DEF RolesInv, Catalogue!RolesTypeOK
<1>a. \A w \in Seat : seat[w] \in Errand
  OBVIOUS
<1>1. CASE UNCHANGED roleVars
  BY <1>1 DEF roleVars
<1>2. ASSUME NEW f \in DOMAIN File, NEW prune \in BOOLEAN, Catalogue!Deploy(f, prune) PROVE RolesInv'
  BY <1>2, DeployStep
<1>3. ASSUME NEW r \in CustomRole, NEW list \in SUBSET Permission, Catalogue!Create(r, list) PROVE RolesInv'
  <2>1. /\ roles' = [roles EXCEPT ![r] = Catalogue!Bundle(list)] /\ asked' = [asked EXCEPT ![r] = list]
        /\ list \subseteq known /\ UNCHANGED <<known, grants, today, deployed, seat>>
    BY <1>3 DEF Catalogue!Create
  <2>2. /\ Catalogue!Bundle(list) \in Catalogue!RoleRow /\ Catalogue!Bundle(list).there
        /\ Catalogue!Bundle(list).permissions = list
    BY BundleFields
  <2>3. /\ seat' \in [Seat -> Errand]
        /\ \A w \in Seat : seat'[w].does # "nothing" => seat'[w].role \in CustomRole
    BY <2>1
  <2> QED BY <2>1, <2>2, <2>3, OneRoleWritten
<1>4. ASSUME NEW w \in Seat, NEW r \in CustomRole, NEW list \in SUBSET Permission, NEW sent \in BOOLEAN,
             Catalogue!BeginEdit(w, r, list, sent)
      PROVE  RolesInv'
  <2>1. PICK e : e = [does |-> "edit", role |-> r, list |-> list, sent |-> sent]
    OBVIOUS
  <2>2. e \in Errand /\ e.role \in CustomRole
    BY <2>1 DEF Errand, Catalogue!Role
  <2>3. seat' = [seat EXCEPT ![w] = e] /\ UNCHANGED <<known, roles, asked, grants, today, deployed>>
    BY <1>4, <2>1 DEF Catalogue!BeginEdit
  <2> QED BY <2>2, <2>3, ErrandStep
<1>5. ASSUME NEW w \in Seat, Catalogue!Save(w) PROVE RolesInv'
  <2>1. PICK e \in Errand : e = seat[w]
    BY <1>a
  <2>2. /\ e.does = "edit" /\ (e.sent => e.list \subseteq known) /\ e.role \in CustomRole
    BY <1>5, <2>1 DEF Catalogue!Save
  <2>3. PICK r \in CustomRole : r = e.role
    BY <2>2
  <2>4. r \in Catalogue!Role /\ roles[r] \in Catalogue!RoleRow
    BY DEF Catalogue!Role
  <2>5. PICK S : S = IF e.sent THEN Catalogue!Synced(roles[r].permissions, e.list) ELSE roles[r].permissions
    OBVIOUS
  <2>6. PICK list : list = IF e.sent THEN e.list ELSE asked[r]
    OBVIOUS
  <2>7. e.list \subseteq Permission /\ e.sent \in BOOLEAN
    BY DEF Errand
  <2>8. roles[r].permissions \subseteq known /\ roles[r].permissions \subseteq asked[r] /\ known \subseteq Permission
        /\ asked[r] \subseteq Permission
    BY <2>4
  <2>9. S \subseteq known /\ S \subseteq list /\ S \subseteq Permission /\ list \in SUBSET Permission
    BY <2>2, <2>5, <2>6, <2>7, <2>8 DEF Catalogue!Synced
  <2>10. /\ Catalogue!Bundle(S) \in Catalogue!RoleRow /\ Catalogue!Bundle(S).there
         /\ Catalogue!Bundle(S).permissions = S
    BY <2>9, BundleFields
  <2>11. roles' = [roles EXCEPT ![r] = Catalogue!Bundle(S)]
    BY <1>5, <2>1, <2>3, <2>4, <2>5 DEF Catalogue!Save
  <2>12. asked' = [asked EXCEPT ![r] = list]
    BY <1>5, <2>1, <2>3, <2>6 DEF Catalogue!Save
  <2>13. seat' = [seat EXCEPT ![w] = Catalogue!Idle] /\ UNCHANGED <<known, grants, today, deployed>>
    BY <1>5 DEF Catalogue!Save
  <2>14. \A v \in Seat : seat'[v] = IF v = w THEN Catalogue!Idle ELSE seat[v]
    BY <2>13
  <2>15. /\ seat' \in [Seat -> Errand]
         /\ \A v \in Seat : seat'[v].does # "nothing" => seat'[v].role \in CustomRole
    BY <2>13, <2>14, RoleIdle
  <2> QED BY <2>9, <2>10, <2>11, <2>12, <2>13, <2>15, OneRoleWritten
<1>6. ASSUME NEW w \in Seat, Catalogue!Delete(w) PROVE RolesInv'
  <2>1. PICK r \in CustomRole : r = seat[w].role
    BY <1>6 DEF Catalogue!Delete
  <2>2. /\ ~Catalogue!Held(r)
        /\ roles' = [roles EXCEPT ![r] = Catalogue!NoRole] /\ asked' = [asked EXCEPT ![r] = {}]
        /\ seat' = [seat EXCEPT ![w] = Catalogue!Idle] /\ UNCHANGED <<known, grants, today, deployed>>
    BY <1>6, <2>1 DEF Catalogue!Delete
  <2>3. \A v \in Seat : seat'[v] = IF v = w THEN Catalogue!Idle ELSE seat[v]
    BY <2>2
  <2>4. /\ seat' \in [Seat -> Errand]
        /\ \A v \in Seat : seat'[v].does # "nothing" => seat'[v].role \in CustomRole
    BY <2>2, <2>3, RoleIdle
  <2>5. {} \in SUBSET Permission
    OBVIOUS
  <2> QED BY <2>2, <2>4, <2>5, NoRoleFields, OneRoleWritten
<1>7. ASSUME NEW w \in Seat, Catalogue!Refuse(w) PROVE RolesInv'
  <2>1. seat' = [seat EXCEPT ![w] = Catalogue!Idle] /\ UNCHANGED <<known, roles, asked, grants, today, deployed>>
    BY <1>7 DEF Catalogue!Refuse
  <2> QED BY <2>1, RoleIdle, ErrandStep
<1>8. ASSUME NEW w \in Seat, NEW r \in CustomRole, Catalogue!BeginDelete(w, r) PROVE RolesInv'
  <2>1. PICK e : e = [Catalogue!Idle EXCEPT !.does = "delete", !.role = r]
    OBVIOUS
  <2>2. r \in Catalogue!Role
    BY DEF Catalogue!Role
  <2>3. e \in Errand /\ e.role \in CustomRole
    <3>1. PICK i \in Errand : i = Catalogue!Idle
      BY RoleIdle
    <3>2. e = [i EXCEPT !.does = "delete", !.role = r]
      BY <2>1, <3>1
    <3> QED BY ONLY <3>2, <2>2, r \in CustomRole, i \in Errand DEF Errand
  <2>4. seat' = [seat EXCEPT ![w] = e] /\ UNCHANGED <<known, roles, asked, grants, today, deployed>>
    BY <1>8, <2>1 DEF Catalogue!BeginDelete
  <2> QED BY <2>3, <2>4, ErrandStep
<1>9. ASSUME NEW g \in Catalogue!Grant, Catalogue!Assign(g) PROVE RolesInv'
  <2>1. /\ grants' = grants \cup {g} /\ roles[g.role].there
        /\ UNCHANGED <<known, roles, asked, today, deployed, seat>>
    BY <1>9 DEF Catalogue!Assign
  <2>2. grants' \subseteq Catalogue!Grant /\ today' \in Catalogue!Day /\ \A h \in grants' : roles[h.role].there
    BY <2>1
  <2> QED BY <2>1, <2>2, GrantsStep
<1>10. ASSUME NEW g \in grants, Catalogue!Revoke(g) PROVE RolesInv'
  <2>1. grants' = grants \ {g} /\ UNCHANGED <<known, roles, asked, today, deployed, seat>>
    BY <1>10 DEF Catalogue!Revoke
  <2>2. grants' \subseteq Catalogue!Grant /\ today' \in Catalogue!Day /\ \A h \in grants' : roles[h.role].there
    BY <2>1
  <2> QED BY <2>1, <2>2, GrantsStep
<1>11. ASSUME NEW g \in grants, NEW from \in Catalogue!Day, NEW until \in Catalogue!Day \cup {Catalogue!Forever},
              Catalogue!Amend(g, from, until)
       PROVE  RolesInv'
  <2>1. PICK h : h = [g EXCEPT !.from = from, !.until = until]
    OBVIOUS
  <2>2. h \in Catalogue!Grant /\ h.role = g.role
    <3>1. g \in Catalogue!Grant
      OBVIOUS
    <3> QED BY ONLY <2>1, <3>1, from \in Catalogue!Day, until \in Catalogue!Day \cup {Catalogue!Forever}
            DEF Catalogue!Grant
  <2>3. grants' = (grants \ {g}) \cup {h} /\ UNCHANGED <<known, roles, asked, today, deployed, seat>>
    BY <1>11, <2>1 DEF Catalogue!Amend
  <2>4. grants' \subseteq Catalogue!Grant /\ today' \in Catalogue!Day /\ \A q \in grants' : roles[q.role].there
    BY <2>2, <2>3
  <2> QED BY <2>3, <2>4, GrantsStep
<1>12. CASE Catalogue!Tick
  <2>1. today' \in Catalogue!Day
    BY <1>12, RoleConstants DEF Catalogue!Tick, Catalogue!Day, Catalogue!RolesConstantsOK
  <2>2. UNCHANGED <<known, roles, asked, grants, deployed, seat>>
    BY <1>12 DEF Catalogue!Tick
  <2> QED BY <2>1, <2>2, GrantsStep
<1>13. {} \in SUBSET Permission /\ TRUE \in BOOLEAN /\ FALSE \in BOOLEAN
  OBVIOUS
<1> QED BY <1>1, <1>2, <1>3, <1>4, <1>5, <1>6, <1>7, <1>8, <1>9, <1>10, <1>11, <1>12, <1>13
        DEF Catalogue!Next

(* What follows.                                                           *)
LEMMA RolesFollow == RolesInv => Catalogue!RolesStand
<1> SUFFICES ASSUME RolesInv PROVE Catalogue!RolesStand
  OBVIOUS
<1> USE DEF RolesInv, Catalogue!RolesTypeOK
<1>1. Catalogue!SystemRolesAreTheRelease
  BY DEF Catalogue!SystemRolesAreTheRelease
<1>2. Catalogue!CustomRolesAreTheirEdits
  BY DEF Catalogue!CustomRolesAreTheirEdits
<1>3. ASSUME NEW m \in Member PROVE Catalogue!Effective(m) \subseteq known
  BY DEF Catalogue!Effective, Catalogue!Grant
<1> QED BY <1>1, <1>2, <1>3 DEF Catalogue!RolesStand, Catalogue!NothingDangles

-----------------------------------------------------------------------------
(* Organisations.                                                          *)
(* What a request about an organisation holds.                             *)
FoundVerb == {"tenant", "user", "provision"}
OrgTask == [verb : FoundVerb \cup {"idle", "patch", "post"}, of : Org \cup {None}, email : Email \cup {None},
            slug : Firms!Slug, seen : Firms!OrgRow \cup {None}, code : Currency \cup {None}]

OrgTyped ==
  /\ org \in [Org -> Firms!OrgRow \cup {None}] /\ entries \in [Org -> SUBSET Currency]
  /\ release \in DOMAIN Template /\ office \in [Worker -> OrgTask]
  /\ \A w \in Worker :
       /\ office[w].verb # "idle" => office[w].of \in Org
       /\ office[w].verb \in FoundVerb => office[w].email \in Email
       /\ office[w].verb = "patch" => office[w].seen \in Firms!OrgRow
       /\ office[w].verb = "post" => office[w].code \in Currency

(* What every organisation is, from its first day on.                      *)
OneEach(chart) == \A j, k \in DOMAIN chart : j # k /\ chart[j].role = chart[k].role => chart[j].role = ""
Closed(calendar) == \A m \in Month :
  calendar[m] # None /\ (calendar[m].closedBy # None => calendar[m].status = "closed")
Whole(row) == /\ row.owner /\ Closed(row.calendar) /\ OneEach(row.chart)
              /\ Firms!HasRoles(row.chart, Firms!Roles(1))

(* A signup has its organisation to itself, from its insert on its slug,   *)
(* and once the user is in its email; everybody else works in one that is  *)
(* there.                                                                  *)
SignupAlone(w) ==
  /\ office[w].verb \in FoundVerb =>
       /\ org[office[w].of] = None
       /\ \A o \in Org : org[o] # None =>
            /\ office[w].verb # "tenant" => org[o].slug # office[w].slug
            /\ office[w].verb = "provision" => org[o].founder # office[w].email
       /\ \A v \in Worker \ {w} : office[v].verb \in FoundVerb =>
            /\ office[v].of # office[w].of
            /\ "tenant" \notin {office[v].verb, office[w].verb} => office[v].slug # office[w].slug
            /\ office[v].verb = "provision" /\ office[w].verb = "provision" => office[v].email # office[w].email
  /\ office[w].verb \in {"patch", "post"} => org[office[w].of] # None

(* What a request about settings or an entry read of the currency is still *)
(* so while nobody disturbs it.                                            *)
SettingsAlone(w) == office[w].verb \in {"patch", "post"} =>
  /\ office[w].verb = "patch" => office[w].seen.currency = org[office[w].of].currency
  /\ office[w].verb = "post" => office[w].code = org[office[w].of].currency
  /\ \A v \in Worker \ {w} :
       office[v].verb \in {"patch", "post"} /\ "patch" \in {office[v].verb, office[w].verb} =>
         office[v].of # office[w].of

Apart1 == \A o, q \in Org : o # q /\ org[o] # None /\ org[q] # None =>
            org[o].slug # org[q].slug /\ org[o].founder # org[q].founder

BooksOK == \A o \in Org : entries[o] \subseteq (IF org[o] = None THEN {} ELSE {org[o].currency})

OrgInv ==
  /\ OrgTyped /\ Apart1
  /\ \A o \in Org : org[o] # None => Whole(org[o])
  /\ \A w \in Worker : SignupAlone(w)
  /\ OneOfficer = TRUE => BooksOK /\ \A w \in Worker : SettingsAlone(w)

-----------------------------------------------------------------------------

LEMMA OrgSizes ==
  /\ IsFiniteSet(Org) /\ Template \in Seq(Seq(Firms!RoleName)) /\ Template # <<>>
  /\ \A r \in DOMAIN Template : Firms!Roles(1) \subseteq Firms!Roles(r)
  /\ None \notin Firms!OrgRow /\ None \notin Firms!MonthRow
<1>1. /\ Firms!IsFiniteSet(Org) /\ Template \in Seq(Seq(Firms!RoleName)) /\ Template # <<>>
      /\ \A r \in DOMAIN Template : Firms!Roles(1) \subseteq Firms!Roles(r)
      /\ None \notin Firms!OrgRow /\ None \notin Firms!MonthRow
  BY FirmsConstants DEF Firms!OrganisationsConstantsOK
<1>2. IsFiniteSet(Org)
  BY <1>1 DEF Firms!IsFiniteSet, IsFiniteSet
<1> QED BY <1>1, <1>2

(* Sequences.                                                              *)
LEMMA Indices ==
  ASSUME NEW S, NEW s \in Seq(S)
  PROVE  \A k \in DOMAIN s : k \in Nat /\ s[k] \in S
BY LenProperties

LEMMA OneMoreAtTheEnd ==
  ASSUME NEW S, NEW s \in Seq(S), NEW e \in S
  PROVE  /\ Append(s, e) \in Seq(S) /\ DOMAIN Append(s, e) = DOMAIN s \cup {Len(s) + 1}
         /\ \A k \in DOMAIN s : Append(s, e)[k] = s[k]
         /\ Append(s, e)[Len(s) + 1] = e
<1>1. PICK a : a = Append(s, e)
  OBVIOUS
<1>2. /\ a \in Seq(S) /\ Len(a) = Len(s) + 1 /\ \A k \in 1..Len(s) : a[k] = s[k]
      /\ a[Len(s) + 1] = e
  BY <1>1, AppendProperties
<1>3. DOMAIN s = 1..Len(s) /\ DOMAIN a = 1..Len(a) /\ Len(s) \in Nat
  BY <1>2, LenProperties
<1> QED BY <1>1, <1>2, <1>3

LEMMA Releases == \A r \in DOMAIN Template :
  /\ Template[r] \in Seq(Firms!RoleName)
  /\ Firms!Roles(r) = {Template[r][k] : k \in DOMAIN Template[r]} \ {""}
<1>1. Template \in Seq(Seq(Firms!RoleName))
  BY OrgSizes
<1>2. \A r \in DOMAIN Template : Template[r] \in Seq(Firms!RoleName)
  <2>1. PICK N : N = Seq(Firms!RoleName)
    OBVIOUS
  <2>2. Template \in Seq(N)
    BY <1>1, <2>1
  <2> QED BY <2>1, <2>2, Indices
<1> QED BY <1>2 DEF Firms!Roles

LEMMA OrgIdle == Firms!Idle \in OrgTask /\ Firms!Idle.verb = "idle"
BY DEF Firms!Idle, OrgTask, Firms!Slug

LEMMA NoName == /\ "" \in Firms!RoleName
                /\ \A own \in BOOLEAN : [role |-> "", own |-> own] \in Firms!AccountRow
<1>1. "" \in Firms!RoleName
  BY DEF Firms!RoleName
<1> QED BY <1>1 DEF Firms!AccountRow

(* What seeding makes of a chart.                                          *)
LEMMA SeededChart ==
  ASSUME NEW chart \in Seq(Firms!AccountRow), NEW names \in Seq(Firms!RoleName)
  PROVE  /\ Firms!Seeded(chart, names) \in Seq(Firms!AccountRow)
         /\ DOMAIN Firms!Seeded(chart, names) = DOMAIN chart \cup DOMAIN names
         /\ \A k \in DOMAIN names : Firms!Seeded(chart, names)[k].role = names[k]
         /\ \A k \in DOMAIN chart \ DOMAIN names : Firms!Seeded(chart, names)[k] = chart[k]
<1> DEFINE S == Firms!Seeded(chart, names)
           D == DOMAIN chart \cup DOMAIN names
<1>1. PICK n \in Nat : D = 1..n
  <2>1. DOMAIN chart = 1..Len(chart) /\ DOMAIN names = 1..Len(names) /\ Len(chart) \in Nat /\ Len(names) \in Nat
    OBVIOUS
  <2>2. CASE Len(chart) <= Len(names)
    BY <2>1, <2>2
  <2>3. CASE Len(names) <= Len(chart)
    BY <2>1, <2>3
  <2> QED BY <2>1, <2>2, <2>3
<1>2. S = [k \in D |->
     CASE k \in DOMAIN names /\ k \in DOMAIN chart -> [chart[k] EXCEPT !.role = names[k]]
       [] k \in DOMAIN names /\ k \notin DOMAIN chart -> [Firms!Blank EXCEPT !.role = names[k]]
       [] OTHER -> chart[k]]
  BY DEF Firms!Seeded
<1>3. ASSUME NEW k \in DOMAIN names PROVE S[k] \in Firms!AccountRow /\ S[k].role = names[k]
  <2>1. PICK nm \in Firms!RoleName : nm = names[k]
    OBVIOUS
  <2>2. PICK old \in Firms!AccountRow : S[k] = [old EXCEPT !.role = nm]
    <3>1. CASE k \in DOMAIN chart
      <4>1. PICK old \in Firms!AccountRow : old = chart[k]
        BY <3>1, Indices
      <4> QED BY <1>2, <2>1, <3>1, <4>1
    <3>2. CASE k \notin DOMAIN chart
      <4>1. Firms!Blank \in Firms!AccountRow
        BY NoName DEF Firms!Blank
      <4> QED BY <1>2, <2>1, <3>2, <4>1
    <3> QED BY <3>1, <3>2
  <2> HIDE DEF S
  <2> QED BY <2>1, <2>2 DEF Firms!AccountRow
<1>4. \A k \in DOMAIN chart \ DOMAIN names : S[k] = chart[k]
  BY <1>2
<1>5. ASSUME NEW k \in D PROVE S[k] \in Firms!AccountRow
  <2>1. CASE k \in DOMAIN names
    BY <1>3, <2>1
  <2>2. CASE k \in DOMAIN chart \ DOMAIN names
    BY <1>4, <2>2
  <2> QED BY <2>1, <2>2
<1>6. DOMAIN S = D
  BY <1>2
<1>7. S \in Seq(Firms!AccountRow)
  <2>1. S \in [1..n -> Firms!AccountRow]
    <3>1. S = [k \in 1..n |-> S[k]]
      BY <1>1, <1>2
    <3> HIDE DEF S, D
    <3> QED BY <1>1, <1>5, <3>1
  <2> HIDE DEF S
  <2> QED BY <2>1
<1> QED BY <1>3, <1>4, <1>6, <1>7

LEMMA SeededWhole ==
  ASSUME NEW chart \in Seq(Firms!AccountRow), NEW r \in DOMAIN Template,
         Firms!CanSeed(chart, Template[r]), OneEach(chart)
  PROVE  /\ OneEach(Firms!Seeded(chart, Template[r]))
         /\ Firms!HasRoles(Firms!Seeded(chart, Template[r]), Firms!Roles(1))
<1>1. PICK names \in Seq(Firms!RoleName) : names = Template[r]
  BY Releases
<1>2. PICK S \in Seq(Firms!AccountRow) : S = Firms!Seeded(chart, names)
  BY SeededChart
<1>3. /\ DOMAIN S = DOMAIN chart \cup DOMAIN names
      /\ \A k \in DOMAIN names : S[k].role = names[k]
      /\ \A k \in DOMAIN chart \ DOMAIN names : S[k] = chart[k]
  BY <1>2, SeededChart
<1>4. \A k \in DOMAIN names : names[k] # "" =>
        /\ \A j \in DOMAIN names : j < k => names[j] # names[k]
        /\ \A j \in DOMAIN chart : j > k => chart[j].role # names[k]
  BY <1>1 DEF Firms!CanSeed
<1>5. \A j, k \in DOMAIN names : j # k /\ names[j] = names[k] => names[j] = ""
  <2> SUFFICES ASSUME NEW j \in DOMAIN names, NEW k \in DOMAIN names, j # k, names[j] = names[k], names[j] # ""
               PROVE  FALSE
    OBVIOUS
  <2>1. j \in Nat /\ k \in Nat
    BY Indices
  <2>2. j < k \/ k < j
    BY ONLY <2>1, j # k
  <2> QED BY <1>4, <2>2
<1>6. \A j \in DOMAIN chart \ DOMAIN names, k \in DOMAIN names : names[k] = chart[j].role => names[k] = ""
  <2>1. \A j \in DOMAIN chart \ DOMAIN names, k \in DOMAIN names : j > k
    OBVIOUS
  <2> QED BY <1>4, <2>1
<1>7. OneEach(S)
  <2> SUFFICES ASSUME NEW j \in DOMAIN S, NEW k \in DOMAIN S, j # k, S[j].role = S[k].role
               PROVE  S[j].role = ""
    BY DEF OneEach
  <2>1. CASE j \in DOMAIN names /\ k \in DOMAIN names
    BY <1>3, <1>5, <2>1
  <2>2. CASE j \in DOMAIN names /\ k \in DOMAIN chart \ DOMAIN names
    BY <1>3, <1>6, <2>2
  <2>3. CASE k \in DOMAIN names /\ j \in DOMAIN chart \ DOMAIN names
    BY <1>3, <1>6, <2>3
  <2>4. CASE j \in DOMAIN chart \ DOMAIN names /\ k \in DOMAIN chart \ DOMAIN names
    BY <1>3, <2>4 DEF OneEach
  <2> QED BY <1>3, <2>1, <2>2, <2>3, <2>4
<1>8. Firms!HasRoles(S, Firms!Roles(1))
  <2>1. Firms!Roles(1) \subseteq {names[k] : k \in DOMAIN names}
    BY <1>1, OrgSizes, Releases
  <2> QED BY <1>3, <2>1 DEF Firms!HasRoles
<1> QED BY <1>1, <1>2, <1>7, <1>8

(* Months that are missing are opened, the others left.                    *)
LEMMA CalendarOpens ==
  ASSUME NEW c \in [Month -> Firms!MonthRow \cup {None}]
  PROVE  /\ Firms!WithCalendar(c) \in [Month -> Firms!MonthRow \cup {None}]
         /\ (\A m \in Month : c[m] # None => (c[m].closedBy # None => c[m].status = "closed"))
              => Closed(Firms!WithCalendar(c))
<1>1. Firms!NewMonth \in Firms!MonthRow /\ Firms!NewMonth.closedBy = None /\ Firms!NewMonth # None
  BY OrgSizes DEF Firms!NewMonth, Firms!MonthRow
<1>2. Firms!WithCalendar(c) = [m \in Month |-> IF c[m] = None THEN Firms!NewMonth ELSE c[m]]
  BY DEF Firms!WithCalendar
<1> QED BY <1>1, <1>2 DEF Closed

(* A chart of one new account, and a month that is closed.                 *)
LEMMA AccountAdded ==
  ASSUME NEW chart \in Seq(Firms!AccountRow), OneEach(chart), Firms!HasRoles(chart, Firms!Roles(1))
  PROVE  LET new == Append(chart, [role |-> "", own |-> TRUE])
         IN  new \in Seq(Firms!AccountRow) /\ OneEach(new) /\ Firms!HasRoles(new, Firms!Roles(1))
<1>1. PICK a : a = [role |-> "", own |-> TRUE]
  OBVIOUS
<1>2. a \in Firms!AccountRow /\ a.role = ""
  BY <1>1, NoName
<1>3. PICK new : new = Append(chart, a)
  OBVIOUS
<1>4. /\ new \in Seq(Firms!AccountRow) /\ DOMAIN new = DOMAIN chart \cup {Len(chart) + 1}
      /\ \A k \in DOMAIN chart : new[k] = chart[k]
      /\ new[Len(chart) + 1] = a
  <2>1. a \in Firms!AccountRow /\ chart \in Seq(Firms!AccountRow)
    BY <1>2
  <2> QED BY ONLY <1>3, <2>1, OneMoreAtTheEnd
<1>5. OneEach(new)
  BY <1>2, <1>4 DEF OneEach
<1>6. Firms!HasRoles(new, Firms!Roles(1))
  BY <1>4 DEF Firms!HasRoles
<1> QED BY <1>1, <1>3, <1>4, <1>5, <1>6

(* There is a free slug among one more than there are organisations.       *)
LEMMA FirstFreeSlug == OrgTyped => Firms!FirstFree \in Firms!Slug
<1> SUFFICES ASSUME OrgTyped PROVE Firms!FirstFree \in Firms!Slug
  OBVIOUS
<1>1. PICK N \in Nat : N = Cardinality(Org)
  BY OrgSizes, FS_CardinalityType
<1> DEFINE F    == {o \in Org : org[o] # None}
           T    == {org[o].slug[2] : o \in F}
           Spare == {n \in 1..(N + 1) : <<"name", n>> \notin Firms!Slugs}
<1>2. Spare # {}
  <2> SUFFICES ASSUME Spare = {} PROVE FALSE
    OBVIOUS
  <2>1. ASSUME NEW n \in 1..(N + 1) PROVE n \in T
    <3>1. <<"name", n>> \in Firms!Slugs
      OBVIOUS
    <3>2. PICK o \in F : org[o].slug = <<"name", n>>
      BY <3>1 DEF Firms!Slugs, Firms!Founded, Firms!Exists
    <3> QED BY <3>2
  <2>2. IsFiniteSet(F) /\ Cardinality(F) <= N /\ Cardinality(F) \in Nat
    BY <1>1, OrgSizes, FS_Subset, FS_CardinalityType
  <2>3. IsFiniteSet(T) /\ Cardinality(T) <= Cardinality(F) /\ Cardinality(T) \in Nat
    <3> DEFINE f == [o \in F |-> org[o].slug[2]]
    <3>1. f \in Surjection(F, T)
      <4>1. \A t \in T : \E o \in F : f[o] = t
        OBVIOUS
      <4>2. f \in [F -> T]
        OBVIOUS
      <4> HIDE DEF f, F, T
      <4> QED BY <4>1, <4>2 DEF Surjection
    <3> HIDE DEF f, F, T
    <3> QED BY <2>2, <3>1, FS_Surjection, FS_CardinalityType
  <2>4. IsFiniteSet(1..(N+1)) /\ Cardinality(1..(N + 1)) = N + 1
    BY FS_Interval
  <2>5. Cardinality(1..(N + 1)) <= Cardinality(T)
    <3> HIDE DEF T
    <3>1. 1..(N+1) \subseteq T
      BY <2>1
    <3> QED BY <2>3, <2>4, <3>1, FS_Subset
  <2> HIDE DEF T, F
  <2> QED BY <2>2, <2>3, <2>4, <2>5
<1>3. Spare \in SUBSET Nat
  OBVIOUS
<1> HIDE DEF Spare
<1>4. PICK m : m = Firms!Min(Spare)
  OBVIOUS
<1>5. m \in Spare
  <2>1. \E x \in Spare : \A y \in Spare : x <= y
    BY <1>2, <1>3, LeastNumber
  <2> QED BY <1>4, <2>1 DEF Firms!Min
<1>6. Firms!FirstFree = <<"name", m>>
  BY <1>1, <1>4 DEF Firms!FirstFree, Spare, Firms!Cardinality, Cardinality
<1> QED BY <1>3, <1>5, <1>6 DEF Firms!Slug

LEMMA OrgBegins == Firms!Init => OrgInv
<1> SUFFICES ASSUME Firms!Init PROVE OrgInv
  OBVIOUS
<1>1. \A o \in Org : org[o] = None /\ entries[o] = {}
  BY DEF Firms!Init
<1>2. office \in [Worker -> OrgTask] /\ \A w \in Worker : office[w].verb = "idle"
  BY OrgIdle DEF Firms!Init
<1>3. release \in DOMAIN Template
  <2>1. release = 1
    BY DEF Firms!Init
  <2>2. Len(Template) \in Nat /\ Len(Template) # 0 /\ DOMAIN Template = 1..Len(Template)
    <3>1. PICK N : N = Seq(Firms!RoleName)
      OBVIOUS
    <3>2. Template \in Seq(N) /\ Template # <<>>
      BY <3>1, OrgSizes
    <3> QED BY ONLY <3>2, LenProperties, EmptySeq
  <2> QED BY <2>1, <2>2
<1>4. org \in [Org -> Firms!OrgRow \cup {None}] /\ entries \in [Org -> SUBSET Currency]
  BY DEF Firms!Init
<1>5. OrgTyped
  BY <1>2, <1>3, <1>4 DEF OrgTyped, FoundVerb
<1> QED BY <1>1, <1>2, <1>5 DEF OrgInv, Apart1, SignupAlone, SettingsAlone, BooksOK, FoundVerb

(* Only what one request holds changes.                                    *)
TaskOK(t) == /\ t \in OrgTask
             /\ t.verb # "idle" => t.of \in Org
             /\ t.verb \in FoundVerb => t.email \in Email
             /\ t.verb = "patch" => t.seen \in Firms!OrgRow
             /\ t.verb = "post" => t.code \in Currency

LEMMA TaskTyped ==
  ASSUME OrgTyped, NEW w \in Worker, NEW t, TaskOK(t), office' = [office EXCEPT ![w] = t]
  PROVE  /\ office' \in [Worker -> OrgTask]
         /\ \A v \in Worker : office'[v] = IF v = w THEN t ELSE office[v]
         /\ \A v \in Worker : TaskOK(office'[v])
<1>1. \A v \in Worker : TaskOK(office[v])
  BY DEF OrgTyped, TaskOK
<1>2. t \in OrgTask /\ office \in [Worker -> OrgTask]
  BY DEF OrgTyped, TaskOK
<1> QED BY <1>1, <1>2

LEMMA TasksTyped ==
  ASSUME org' \in [Org -> Firms!OrgRow \cup {None}], entries' \in [Org -> SUBSET Currency],
         release' \in DOMAIN Template, office' \in [Worker -> OrgTask], \A v \in Worker : TaskOK(office'[v])
  PROVE  OrgTyped'
BY DEF OrgTyped, TaskOK

LEMMA TaskStep ==
  ASSUME OrgInv, NEW w \in Worker, NEW t, TaskOK(t), office' = [office EXCEPT ![w] = t],
         UNCHANGED <<org, entries, release>>,
         SignupAlone(w)', OneOfficer = TRUE => SettingsAlone(w)'
  PROVE  OrgInv'
<1>1. /\ office' \in [Worker -> OrgTask]
      /\ \A v \in Worker : office'[v] = IF v = w THEN t ELSE office[v]
      /\ \A v \in Worker : TaskOK(office'[v])
  BY TaskTyped DEF OrgInv
<1>2. OrgTyped'
  BY <1>1, TasksTyped DEF OrgInv, OrgTyped
<1>3. ASSUME NEW v \in Worker PROVE SignupAlone(v)'
  <2>1. CASE v = w
    BY <2>1
  <2>2. CASE v # w
    BY <1>1, <2>2 DEF OrgInv, SignupAlone
  <2> QED BY <2>1, <2>2
<1>4. ASSUME NEW v \in Worker, OneOfficer = TRUE PROVE SettingsAlone(v)'
  <2>1. CASE v = w
    BY <1>4, <2>1
  <2>2. CASE v # w
    BY <1>1, <1>4, <2>2 DEF OrgInv, SettingsAlone
  <2> QED BY <2>1, <2>2
<1>5. Apart1' /\ (\A o \in Org : org'[o] # None => Whole(org'[o])) /\ (OneOfficer = TRUE => BooksOK')
  BY DEF OrgInv, Apart1, BooksOK
<1> QED BY <1>2, <1>3, <1>4, <1>5 DEF OrgInv

LEMMA TaskEnds ==
  ASSUME OrgInv, NEW w \in Worker, Firms!End(w), UNCHANGED <<org, entries, release>>
  PROVE  OrgInv'
<1>1. office' = [office EXCEPT ![w] = Firms!Idle] /\ office \in [Worker -> OrgTask]
  BY DEF Firms!End, OrgInv, OrgTyped
<1>2. office'[w] = Firms!Idle /\ Firms!Idle.verb = "idle"
  BY <1>1, OrgIdle
<1>3. TaskOK(Firms!Idle)
  BY OrgIdle DEF TaskOK, FoundVerb
<1>4. SignupAlone(w)' /\ SettingsAlone(w)'
  BY <1>2 DEF SignupAlone, SettingsAlone, FoundVerb
<1> QED BY <1>1, <1>3, <1>4, TaskStep

(* One organisation changes, and keeps its name, founder and currency.     *)
LEMMA RowKept ==
  ASSUME OrgInv, NEW o \in Org, org[o] # None, NEW row \in Firms!OrgRow, Whole(row),
         row.slug = org[o].slug, row.founder = org[o].founder, row.currency = org[o].currency,
         org' = [org EXCEPT ![o] = row], UNCHANGED <<entries, release, office>>
  PROVE  OrgInv'
<1>1. row # None /\ \A q \in Org : org'[q] = IF q = o THEN row ELSE org[q]
  BY OrgSizes DEF OrgInv, OrgTyped
<1>2. \A q \in Org : /\ org'[q] = None <=> org[q] = None
                     /\ org[q] # None => /\ org'[q].slug = org[q].slug /\ org'[q].founder = org[q].founder
                                         /\ org'[q].currency = org[q].currency
  BY <1>1
<1>3. OrgTyped'
  BY <1>1 DEF OrgInv, OrgTyped
<1>4. \A q \in Org : org'[q] # None => Whole(org'[q])
  BY <1>1 DEF OrgInv
<1>5. Apart1'
  BY <1>2 DEF OrgInv, Apart1
<1>6. ASSUME NEW w \in Worker PROVE SignupAlone(w)'
  BY <1>2 DEF OrgInv, OrgTyped, SignupAlone, FoundVerb
<1>7. ASSUME OneOfficer = TRUE PROVE BooksOK'
  BY <1>2, <1>7 DEF OrgInv, BooksOK
<1>8. ASSUME NEW w \in Worker, OneOfficer = TRUE PROVE SettingsAlone(w)'
  BY <1>2, <1>8 DEF OrgInv, OrgTyped, SettingsAlone
<1> QED BY <1>3, <1>4, <1>5, <1>6, <1>7, <1>8 DEF OrgInv

(* The chart and the calendar.                                             *)
LEMMA OrgRows == OrgInv => \A o \in Org : org[o] # None =>
  /\ org[o] \in Firms!OrgRow /\ Whole(org[o])
  /\ org[o].chart \in Seq(Firms!AccountRow) /\ org[o].calendar \in [Month -> Firms!MonthRow \cup {None}]
BY DEF OrgInv, OrgTyped, Firms!OrgRow

LEMMA ReseedStep ==
  ASSUME OrgInv, NEW o \in Org, Firms!Reseed(o)
  PROVE  OrgInv'
<1>1. PICK d \in Firms!OrgRow : d = org[o] /\ org[o] # None
  BY OrgRows DEF Firms!Reseed, Firms!Exists
<1>2. /\ Whole(d) /\ d.chart \in Seq(Firms!AccountRow)
      /\ d.calendar \in [Month -> Firms!MonthRow \cup {None}] /\ release \in DOMAIN Template
  BY <1>1, OrgRows DEF OrgInv, OrgTyped
<1>3. PICK chart : chart = Firms!Seeded(d.chart, Template[release])
  OBVIOUS
<1>4. PICK months : months = Firms!WithCalendar(d.calendar)
  OBVIOUS
<1>5. chart \in Seq(Firms!AccountRow) /\ OneEach(chart) /\ Firms!HasRoles(chart, Firms!Roles(1))
  <2>1. Firms!CanSeed(d.chart, Template[release])
    BY <1>1 DEF Firms!Reseed
  <2> QED BY <1>2, <1>3, <2>1, Releases, SeededChart, SeededWhole DEF Whole
<1>6. months \in [Month -> Firms!MonthRow \cup {None}] /\ Closed(months)
  <2>1. \A m \in Month : d.calendar[m] # None => (d.calendar[m].closedBy # None => d.calendar[m].status = "closed")
    BY <1>2 DEF Whole, Closed
  <2> QED BY <1>2, <1>4, <2>1, CalendarOpens
<1>7. PICK row : row = [d EXCEPT !.chart = chart, !.calendar = months]
  OBVIOUS
<1>8. /\ row \in Firms!OrgRow /\ row.chart = chart /\ row.calendar = months /\ row.owner = d.owner
      /\ row.slug = d.slug /\ row.founder = d.founder /\ row.currency = d.currency
  BY ONLY <1>5, <1>6, <1>7, d \in Firms!OrgRow DEF Firms!OrgRow
<1>9. Whole(row)
  BY <1>2, <1>5, <1>6, <1>8 DEF Whole
<1>10. org' = [org EXCEPT ![o] = row] /\ UNCHANGED <<entries, release, office>>
  BY <1>1, <1>3, <1>4, <1>7 DEF Firms!Reseed
<1> QED BY <1>1, <1>8, <1>9, <1>10, RowKept

LEMMA AddAccountStep ==
  ASSUME OrgInv, NEW o \in Org, Firms!AddAccount(o)
  PROVE  OrgInv'
<1>1. PICK d \in Firms!OrgRow : d = org[o] /\ org[o] # None
  BY OrgRows DEF Firms!AddAccount, Firms!Exists
<1>2. Whole(d) /\ d.chart \in Seq(Firms!AccountRow)
  BY <1>1, OrgRows
<1>3. PICK chart : chart = Append(d.chart, [role |-> "", own |-> TRUE])
  OBVIOUS
<1>4. chart \in Seq(Firms!AccountRow) /\ OneEach(chart) /\ Firms!HasRoles(chart, Firms!Roles(1))
  BY <1>2, <1>3, AccountAdded DEF Whole
<1>5. PICK row : row = [d EXCEPT !.chart = chart]
  OBVIOUS
<1>6. /\ row \in Firms!OrgRow /\ row.chart = chart /\ row.calendar = d.calendar /\ row.owner = d.owner
      /\ row.slug = d.slug /\ row.founder = d.founder /\ row.currency = d.currency
  BY ONLY <1>4, <1>5, d \in Firms!OrgRow DEF Firms!OrgRow
<1>7. Whole(row)
  BY <1>2, <1>4, <1>6 DEF Whole
<1>8. org' = [org EXCEPT ![o] = row] /\ UNCHANGED <<entries, release, office>>
  BY <1>1, <1>3, <1>5 DEF Firms!AddAccount
<1> QED BY <1>1, <1>6, <1>7, <1>8, RowKept

LEMMA CloseMonthStep ==
  ASSUME OrgInv, NEW o \in Org, NEW m \in Month, Firms!CloseMonth(o, m)
  PROVE  OrgInv'
<1>1. PICK d \in Firms!OrgRow : d = org[o] /\ org[o] # None
  BY OrgRows DEF Firms!CloseMonth, Firms!Exists
<1>2. Whole(d) /\ d.calendar \in [Month -> Firms!MonthRow \cup {None}]
  BY <1>1, OrgRows
<1>3. PICK c : c = [status |-> "closed", closedBy |-> "accountant"]
  OBVIOUS
<1>4. c \in Firms!MonthRow /\ c.status = "closed" /\ c # None
  BY <1>3, OrgSizes DEF Firms!MonthRow
<1>5. PICK months : months = [d.calendar EXCEPT ![m] = c]
  OBVIOUS
<1>6. months \in [Month -> Firms!MonthRow \cup {None}] /\ Closed(months)
  BY <1>2, <1>4, <1>5 DEF Whole, Closed
<1>7. PICK row : row = [d EXCEPT !.calendar = months]
  OBVIOUS
<1>8. /\ row \in Firms!OrgRow /\ row.chart = d.chart /\ row.calendar = months /\ row.owner = d.owner
      /\ row.slug = d.slug /\ row.founder = d.founder /\ row.currency = d.currency
  BY ONLY <1>6, <1>7, d \in Firms!OrgRow DEF Firms!OrgRow
<1>9. Whole(row)
  BY <1>2, <1>6, <1>8 DEF Whole
<1>10. org' = [org EXCEPT ![o] = row] /\ UNCHANGED <<entries, release, office>>
  BY <1>1, <1>3, <1>5, <1>7 DEF Firms!CloseMonth
<1> QED BY <1>1, <1>8, <1>9, <1>10, RowKept

LEMMA SeedDefaultsStep ==
  ASSUME OrgInv, NEW o \in Org, Firms!SeedDefaults(o)
  PROVE  OrgInv'
<1>1. PICK d \in Firms!OrgRow : d = org[o] /\ org[o] # None
  BY OrgRows DEF Firms!SeedDefaults, Firms!Exists
<1>2. Whole(d)
  BY <1>1, OrgRows
<1>5. PICK row : row = [d EXCEPT !.defaults = TRUE]
  OBVIOUS
<1>6. /\ row \in Firms!OrgRow /\ row.chart = d.chart /\ row.calendar = d.calendar /\ row.owner = d.owner
      /\ row.slug = d.slug /\ row.founder = d.founder /\ row.currency = d.currency
  BY ONLY <1>5, d \in Firms!OrgRow DEF Firms!OrgRow
<1>7. Whole(row)
  BY <1>2, <1>6 DEF Whole
<1>8. org' = [org EXCEPT ![o] = row] /\ UNCHANGED <<entries, release, office>>
  BY <1>1, <1>5 DEF Firms!SeedDefaults
<1> QED BY <1>1, <1>6, <1>7, <1>8, RowKept

LEMMA UpgradeStep ==
  ASSUME OrgInv, Firms!Upgrade
  PROVE  OrgInv'
<1>1. release' \in DOMAIN Template /\ UNCHANGED <<org, entries, office>>
  <2>1. PICK N : N = Seq(Firms!RoleName)
    OBVIOUS
  <2>2. Template \in Seq(N) /\ release \in DOMAIN Template /\ release < Len(Template) /\ release' = release + 1
    BY <2>1, OrgSizes DEF OrgInv, OrgTyped, Firms!Upgrade
  <2>3. DOMAIN Template = 1..Len(Template) /\ Len(Template) \in Nat
    BY ONLY <2>2, LenProperties
  <2>4. release' \in DOMAIN Template
    BY ONLY <2>2, <2>3
  <2> QED BY <2>4 DEF Firms!Upgrade
<1> QED BY <1>1 DEF OrgInv, OrgTyped, Apart1, SignupAlone, SettingsAlone, BooksOK

(* Signup.                                                                 *)
LEMMA BeginStep ==
  ASSUME OrgInv, NEW w \in Worker, NEW o \in Org, NEW e \in Email, Firms!Begin(w, o, e)
  PROVE  OrgInv'
<1>1. PICK i \in OrgTask : i = Firms!Idle
  BY OrgIdle
<1>2. PICK sl \in Firms!Slug : sl = Firms!FirstFree
  BY FirstFreeSlug DEF OrgInv
<1>3. PICK t : t = [i EXCEPT !.verb = "tenant", !.of = o, !.email = e, !.slug = sl]
  OBVIOUS
<1>4. t \in OrgTask /\ t.verb = "tenant" /\ t.of = o /\ t.email = e
  BY ONLY <1>3, i \in OrgTask, o \in Org, e \in Email, sl \in Firms!Slug DEF OrgTask, FoundVerb
<1>5. TaskOK(t)
  BY <1>4 DEF TaskOK, FoundVerb
<1>6. /\ office' = [office EXCEPT ![w] = t] /\ UNCHANGED <<org, entries, release>>
      /\ org[o] = None /\ \A v \in Worker : office[v].of # o
  BY <1>1, <1>2, <1>3 DEF Firms!Begin, Firms!Exists
<1>7. \A v \in Worker : office'[v] = IF v = w THEN t ELSE office[v]
  BY <1>5, <1>6, TaskTyped DEF OrgInv
<1>8. SignupAlone(w)'
  BY <1>4, <1>6, <1>7 DEF SignupAlone, FoundVerb
<1>9. SettingsAlone(w)'
  BY <1>4, <1>7 DEF SettingsAlone
<1> QED BY <1>5, <1>6, <1>8, <1>9, TaskStep

LEMMA SlugsOf == Firms!Slugs = {org[o].slug : o \in {q \in Org : org[q] # None}}
BY DEF Firms!Slugs, Firms!Founded, Firms!Exists

LEMMA EmailsOf == Firms!Emails = {org[o].founder : o \in {q \in Org : org[q] # None}}
BY DEF Firms!Emails, Firms!Founded, Firms!Exists

LEMMA InsertTenantStep ==
  ASSUME OrgInv, NEW w \in Worker, Firms!InsertTenant(w)
  PROVE  OrgInv'
<1>1. PICK b \in OrgTask : b = office[w]
  BY DEF OrgInv, OrgTyped
<1>2. b.verb = "tenant" /\ b.of \in Org /\ b.email \in Email /\ SignupAlone(w) /\ org[b.of] = None
  BY <1>1 DEF OrgInv, OrgTyped, FoundVerb, Firms!InsertTenant, SignupAlone
<1>3. PICK q \in Org : q = b.of
  BY <1>2
<1>4. CASE b.slug \in Firms!Slugs
  <2>0. PICK sl : sl = <<"random", q>>
    OBVIOUS
  <2>1. sl \in Firms!Slug
    BY <2>0 DEF Firms!Slug
  <2>2. PICK t : t = [b EXCEPT !.slug = sl]
    OBVIOUS
  <2>3. t \in OrgTask /\ t.verb = b.verb /\ t.of = b.of /\ t.email = b.email
    BY ONLY <2>1, <2>2, b \in OrgTask DEF OrgTask
  <2>4. TaskOK(t)
    BY <1>2, <2>3 DEF TaskOK, FoundVerb
  <2>5. office' = [office EXCEPT ![w] = t] /\ UNCHANGED <<org, entries, release>>
    BY <1>1, <1>3, <1>4, <2>0, <2>2 DEF Firms!InsertTenant
  <2>6. \A v \in Worker : office'[v] = IF v = w THEN t ELSE office[v]
    BY <2>4, <2>5, TaskTyped DEF OrgInv
  <2>7. SignupAlone(w)'
    BY <1>1, <1>2, <2>3, <2>5, <2>6 DEF SignupAlone, FoundVerb
  <2>8. SettingsAlone(w)'
    BY <1>2, <2>3, <2>6 DEF SettingsAlone
  <2> QED BY <2>4, <2>5, <2>7, <2>8, TaskStep
<1>5. CASE b.slug \notin Firms!Slugs
  <2>2. PICK t : t = [b EXCEPT !.verb = "user"]
    OBVIOUS
  <2>3. t \in OrgTask /\ t.verb = "user" /\ t.of = b.of /\ t.email = b.email /\ t.slug = b.slug
    BY ONLY <2>2, b \in OrgTask DEF OrgTask, FoundVerb
  <2>4. TaskOK(t)
    BY <1>2, <2>3 DEF TaskOK, FoundVerb
  <2>5. office' = [office EXCEPT ![w] = t] /\ UNCHANGED <<org, entries, release>>
    BY <1>1, <1>5, <2>2 DEF Firms!InsertTenant
  <2>6. \A v \in Worker : office'[v] = IF v = w THEN t ELSE office[v]
    BY <2>4, <2>5, TaskTyped DEF OrgInv
  <2>7. \A v \in Worker \ {w} : office[v].verb \in {"user", "provision"} => office[v].slug # b.slug
    BY <1>1 DEF Firms!InsertTenant, Firms!SlugWaits
  <2>8. \A o \in Org : org[o] # None => org[o].slug # b.slug
    BY <1>5, SlugsOf
  <2>9. SignupAlone(w)'
    BY <1>1, <1>2, <2>3, <2>5, <2>6, <2>7, <2>8 DEF SignupAlone, FoundVerb
  <2>10. SettingsAlone(w)'
    BY <2>3, <2>6 DEF SettingsAlone
  <2> QED BY <2>4, <2>5, <2>9, <2>10, TaskStep
<1> QED BY <1>4, <1>5

LEMMA InsertUserStep ==
  ASSUME OrgInv, NEW w \in Worker, Firms!InsertUser(w)
  PROVE  OrgInv'
<1>1. PICK b \in OrgTask : b = office[w]
  BY DEF OrgInv, OrgTyped
<1>2. b.verb = "user" /\ b.of \in Org /\ b.email \in Email /\ SignupAlone(w)
  BY <1>1 DEF OrgInv, OrgTyped, FoundVerb, Firms!InsertUser
<1>3. CASE b.email \in Firms!Emails
  BY <1>1, <1>3, TaskEnds DEF Firms!InsertUser
<1>4. CASE b.email \notin Firms!Emails
  <2>2. PICK t : t = [b EXCEPT !.verb = "provision"]
    OBVIOUS
  <2>3. t \in OrgTask /\ t.verb = "provision" /\ t.of = b.of /\ t.email = b.email /\ t.slug = b.slug
    BY ONLY <2>2, b \in OrgTask DEF OrgTask, FoundVerb
  <2>4. TaskOK(t)
    BY <1>2, <2>3 DEF TaskOK, FoundVerb
  <2>5. office' = [office EXCEPT ![w] = t] /\ UNCHANGED <<org, entries, release>>
    BY <1>1, <1>4, <2>2 DEF Firms!InsertUser
  <2>6. \A v \in Worker : office'[v] = IF v = w THEN t ELSE office[v]
    BY <2>4, <2>5, TaskTyped DEF OrgInv
  <2>7. \A v \in Worker \ {w} : office[v].verb = "provision" => office[v].email # b.email
    BY <1>1 DEF Firms!InsertUser, Firms!EmailWaits
  <2>8. \A o \in Org : org[o] # None => org[o].founder # b.email
    BY <1>4, EmailsOf
  <2>9. SignupAlone(w)'
    BY <1>1, <1>2, <2>3, <2>5, <2>6, <2>7, <2>8 DEF SignupAlone, FoundVerb
  <2>10. SettingsAlone(w)'
    BY <2>3, <2>6 DEF SettingsAlone
  <2> QED BY <2>4, <2>5, <2>9, <2>10, TaskStep
<1> QED BY <1>3, <1>4

LEMMA ProvisionStep ==
  ASSUME OrgInv, NEW w \in Worker, Firms!Provision(w)
  PROVE  OrgInv'
<1>1. PICK b \in OrgTask : b = office[w]
  BY DEF OrgInv, OrgTyped
<1>2. /\ b.verb = "provision" /\ b.email \in Email /\ b.slug \in Firms!Slug /\ SignupAlone(w)
      /\ org[b.of] = None /\ Firms!CanSeed(<<>>, Template[release]) /\ release \in DOMAIN Template
  BY <1>1 DEF OrgInv, OrgTyped, FoundVerb, Firms!Provision, SignupAlone, OrgTask
<1>3. PICK q \in Org : q = b.of
  BY <1>1, <1>2 DEF OrgInv, OrgTyped, FoundVerb
<1>4. PICK c \in Currency, defaults \in BOOLEAN : org' = [org EXCEPT ![q] = Firms!NewOrg(w, c, defaults)]
  BY <1>1, <1>3 DEF Firms!Provision
<1>5. PICK chart : chart = Firms!Seeded(<<>>, Template[release])
  OBVIOUS
<1>6. PICK months : months = Firms!WithCalendar([m \in Month |-> None])
  OBVIOUS
<1>7. chart \in Seq(Firms!AccountRow) /\ OneEach(chart) /\ Firms!HasRoles(chart, Firms!Roles(1))
  <2>1. <<>> \in Seq(Firms!AccountRow) /\ OneEach(<<>>)
    BY EmptySeq DEF OneEach
  <2> QED BY <1>2, <1>5, <2>1, Releases, SeededChart, SeededWhole
<1>8. months \in [Month -> Firms!MonthRow \cup {None}] /\ Closed(months)
  <2>1. PICK none : none = [m \in Month |-> None]
    OBVIOUS
  <2>2. none \in [Month -> Firms!MonthRow \cup {None}] /\ \A m \in Month : none[m] = None
    BY <2>1
  <2> QED BY <1>6, <2>1, <2>2, CalendarOpens
<1>9. PICK row : row = Firms!NewOrg(w, c, defaults)
  OBVIOUS
<1>10. row = [slug |-> b.slug, founder |-> b.email, owner |-> TRUE, currency |-> c, prefs |-> {},
              defaults |-> defaults, chart |-> chart, calendar |-> months]
  BY <1>1, <1>5, <1>6, <1>9 DEF Firms!NewOrg
<1>11. /\ row \in Firms!OrgRow /\ row.slug = b.slug /\ row.founder = b.email /\ row.owner = TRUE
       /\ row.currency = c /\ row.chart = chart /\ row.calendar = months
  BY ONLY <1>2, <1>7, <1>8, <1>10, c \in Currency, defaults \in BOOLEAN DEF Firms!OrgRow
<1>12. Whole(row)
  BY <1>7, <1>8, <1>11 DEF Whole
<1>13. /\ org' = [org EXCEPT ![q] = row] /\ office' = [office EXCEPT ![w] = Firms!Idle]
       /\ UNCHANGED <<entries, release>>
  BY <1>4, <1>9 DEF Firms!Provision, Firms!End
<1>14. TaskOK(Firms!Idle)
  BY OrgIdle DEF TaskOK, FoundVerb
<1>15. /\ office' \in [Worker -> OrgTask]
       /\ \A v \in Worker : office'[v] = IF v = w THEN Firms!Idle ELSE office[v]
       /\ \A v \in Worker : TaskOK(office'[v])
  BY <1>13, <1>14, TaskTyped DEF OrgInv
<1>16. row # None /\ \A o \in Org : org'[o] = IF o = q THEN row ELSE org[o]
  BY <1>11, <1>13, OrgSizes DEF OrgInv, OrgTyped
<1>17. OrgTyped'
  <2>1. org' \in [Org -> Firms!OrgRow \cup {None}]
    BY <1>11, <1>13 DEF OrgInv, OrgTyped
  <2> QED BY <1>13, <1>15, <2>1, TasksTyped DEF OrgInv, OrgTyped
<1>18. \A o \in Org : org'[o] # None => Whole(org'[o])
  BY <1>12, <1>16 DEF OrgInv
<1>19. Apart1'
  <2>1. \A o \in Org : org[o] # None => org[o].slug # row.slug /\ org[o].founder # row.founder
    BY <1>1, <1>2, <1>11 DEF SignupAlone, FoundVerb
  <2> QED BY <1>16, <2>1 DEF OrgInv, Apart1
<1>20. ASSUME NEW v \in Worker PROVE SignupAlone(v)'
  <2>1. CASE v = w
    BY <1>15, <2>1, OrgIdle DEF SignupAlone, FoundVerb
  <2>2. CASE v # w
    <3>1. office'[v] = office[v] /\ SignupAlone(v)
      BY <1>15, <2>2 DEF OrgInv
    <3>2. office[v].verb \in FoundVerb =>
            /\ office[v].of # q
            /\ office[v].verb # "tenant" => office[v].slug # b.slug
            /\ office[v].verb = "provision" => office[v].email # b.email
      BY <1>1, <1>2, <1>3, <2>2 DEF SignupAlone, FoundVerb
    <3>3. office[v].verb \in FoundVerb => office[v].of \in Org
      BY DEF OrgInv, OrgTyped, FoundVerb
    <3>4. \A u \in Worker \ {v} : office'[u].verb \in FoundVerb => office'[u] = office[u]
      BY <1>15, OrgIdle DEF FoundVerb
    <3>7. office'[v].verb \in {"patch", "post"} => org'[office'[v].of] # None
      BY <1>16, <3>1 DEF OrgInv, OrgTyped, SignupAlone
    <3> SUFFICES ASSUME office'[v].verb \in FoundVerb PROVE SignupAlone(v)'
      BY <3>7 DEF SignupAlone, FoundVerb
    <3>8. /\ office[v].verb \in FoundVerb /\ org[office[v].of] = None
          /\ \A o \in Org : org[o] # None =>
               /\ office[v].verb # "tenant" => org[o].slug # office[v].slug
               /\ office[v].verb = "provision" => org[o].founder # office[v].email
      BY <3>1 DEF SignupAlone
    <3>5. org'[office'[v].of] = None
      <4>1. PICK o \in Org : o = office[v].of /\ o # q /\ org[o] = None /\ o = office'[v].of
        BY <3>1, <3>2, <3>3, <3>8
      <4> QED BY <1>16, <4>1
    <3>6. \A o \in Org : org'[o] # None =>
            /\ office'[v].verb # "tenant" => org'[o].slug # office'[v].slug
            /\ office'[v].verb = "provision" => org'[o].founder # office'[v].email
      <4> TAKE o \in Org
      <4>1. CASE o = q
        BY <1>11, <1>16, <3>1, <3>2, <3>8, <4>1
      <4>2. CASE o # q
        BY <1>16, <3>1, <3>8, <4>2
      <4> QED BY <4>1, <4>2
    <3> QED BY <3>1, <3>4, <3>5, <3>6 DEF SignupAlone
  <2> QED BY <2>1, <2>2
<1>21. ASSUME OneOfficer = TRUE PROVE BooksOK'
  BY <1>2, <1>3, <1>13, <1>16, <1>21 DEF OrgInv, BooksOK
<1>22. ASSUME NEW v \in Worker, OneOfficer = TRUE PROVE SettingsAlone(v)'
  <2>1. CASE v = w
    BY <1>15, <2>1, OrgIdle DEF SettingsAlone
  <2>2. CASE v # w
    <3>1. office'[v] = office[v] /\ SettingsAlone(v)
      BY <1>15, <1>22, <2>2 DEF OrgInv
    <3>2. office[v].verb \in {"patch", "post"} => office[v].of \in Org /\ office[v].of # q
      BY <1>2, <1>3, <3>1 DEF OrgInv, OrgTyped, SignupAlone
    <3>3. \A u \in Worker \ {v} : office'[u].verb \in {"patch", "post"} => office'[u] = office[u]
      BY <1>15, OrgIdle
    <3> QED BY <1>16, <3>1, <3>2, <3>3 DEF SettingsAlone
  <2> QED BY <2>1, <2>2
<1> QED BY <1>17, <1>18, <1>19, <1>20, <1>21, <1>22 DEF OrgInv

(* Settings and entries.                                                   *)
LEMMA ReadSettingsStep ==
  ASSUME OrgInv, NEW w \in Worker, NEW o \in Org, NEW c \in Currency \cup {None}, Firms!ReadSettings(w, o, c)
  PROVE  OrgInv'
<1>1. PICK d \in Firms!OrgRow : d = org[o] /\ org[o] # None
  BY OrgRows DEF Firms!ReadSettings, Firms!Exists
<1>2. PICK i \in OrgTask : i = Firms!Idle
  BY OrgIdle
<1>3. PICK t : t = [i EXCEPT !.verb = "patch", !.of = o, !.seen = d, !.code = c]
  OBVIOUS
<1>4. t \in OrgTask /\ t.verb = "patch" /\ t.of = o /\ t.seen = d
  BY ONLY <1>3, i \in OrgTask, o \in Org, d \in Firms!OrgRow, c \in Currency \cup {None} DEF OrgTask, FoundVerb
<1>5. TaskOK(t)
  BY <1>4 DEF TaskOK, FoundVerb
<1>6. office' = [office EXCEPT ![w] = t] /\ UNCHANGED <<org, entries, release>>
  BY <1>1, <1>2, <1>3 DEF Firms!ReadSettings
<1>7. \A v \in Worker : office'[v] = IF v = w THEN t ELSE office[v]
  BY <1>5, <1>6, TaskTyped DEF OrgInv
<1>8. SignupAlone(w)'
  BY <1>1, <1>4, <1>6, <1>7 DEF SignupAlone, FoundVerb
<1>9. ASSUME OneOfficer = TRUE PROVE SettingsAlone(w)'
  <2>1. \A v \in Worker : office[v].verb \in {"patch", "post"} => office[v].of # o
    BY <1>9 DEF Firms!ReadSettings, Firms!Undisturbed, Firms!Serves
  <2> QED BY <1>1, <1>4, <1>6, <1>7, <2>1 DEF SettingsAlone
<1> QED BY <1>5, <1>6, <1>8, <1>9, TaskStep

LEMMA BeginPostStep ==
  ASSUME OrgInv, NEW w \in Worker, NEW o \in Org, Firms!BeginPost(w, o)
  PROVE  OrgInv'
<1>1. PICK d \in Firms!OrgRow : d = org[o] /\ org[o] # None
  BY OrgRows DEF Firms!BeginPost, Firms!Exists
<1>2. PICK i \in OrgTask : i = Firms!Idle
  BY OrgIdle
<1>3. PICK c \in Currency : c = d.currency
  BY DEF Firms!OrgRow
<1>4. PICK t : t = [i EXCEPT !.verb = "post", !.of = o, !.code = c]
  OBVIOUS
<1>5. t \in OrgTask /\ t.verb = "post" /\ t.of = o /\ t.code = c
  BY ONLY <1>4, i \in OrgTask, o \in Org, c \in Currency DEF OrgTask, FoundVerb
<1>6. TaskOK(t)
  BY <1>5 DEF TaskOK, FoundVerb
<1>7. office' = [office EXCEPT ![w] = t] /\ UNCHANGED <<org, entries, release>>
  BY <1>1, <1>2, <1>3, <1>4 DEF Firms!BeginPost
<1>8. \A v \in Worker : office'[v] = IF v = w THEN t ELSE office[v]
  BY <1>6, <1>7, TaskTyped DEF OrgInv
<1>9. SignupAlone(w)'
  BY <1>1, <1>5, <1>7, <1>8 DEF SignupAlone, FoundVerb
<1>10. ASSUME OneOfficer = TRUE PROVE SettingsAlone(w)'
  <2>1. \A v \in Worker : office[v].verb = "patch" => office[v].of # o
    BY <1>10 DEF Firms!BeginPost, Firms!Undisturbed, Firms!Serves
  <2> QED BY <1>1, <1>3, <1>5, <1>7, <1>8, <2>1 DEF SettingsAlone
<1> QED BY <1>6, <1>7, <1>9, <1>10, TaskStep

LEMMA CommitPostStep ==
  ASSUME OrgInv, NEW w \in Worker, Firms!CommitPost(w)
  PROVE  OrgInv'
<1>1. PICK b \in OrgTask : b = office[w]
  BY DEF OrgInv, OrgTyped
<1>2. b.verb = "post" /\ b.of \in Org /\ b.code \in Currency
  BY <1>1 DEF OrgInv, OrgTyped, Firms!CommitPost
<1>3. PICK q \in Org : q = b.of
  BY <1>2
<1>4. /\ entries' = [entries EXCEPT ![q] = @ \cup {b.code}] /\ office' = [office EXCEPT ![w] = Firms!Idle]
      /\ UNCHANGED <<org, release>>
  BY <1>1, <1>3 DEF Firms!CommitPost, Firms!End
<1>5. TaskOK(Firms!Idle)
  BY OrgIdle DEF TaskOK, FoundVerb
<1>6. /\ office' \in [Worker -> OrgTask]
      /\ \A v \in Worker : office'[v] = IF v = w THEN Firms!Idle ELSE office[v]
      /\ \A v \in Worker : TaskOK(office'[v])
  BY <1>4, <1>5, TaskTyped DEF OrgInv
<1>7. OrgTyped'
  <2>1. entries' \in [Org -> SUBSET Currency]
    BY <1>2, <1>4 DEF OrgInv, OrgTyped
  <2> QED BY <1>4, <1>6, <2>1, TasksTyped DEF OrgInv, OrgTyped
<1>8. \A v \in Worker : office'[v].verb # "idle" => v # w /\ office'[v] = office[v]
  BY <1>6, OrgIdle
<1>9. ASSUME NEW v \in Worker PROVE SignupAlone(v)'
  BY <1>4, <1>8 DEF OrgInv, SignupAlone, FoundVerb
<1>10. ASSUME NEW v \in Worker, OneOfficer = TRUE PROVE SettingsAlone(v)'
  BY <1>4, <1>8, <1>10 DEF OrgInv, SettingsAlone
<1>11. ASSUME OneOfficer = TRUE PROVE BooksOK'
  <2>1. org[q] # None /\ b.code = org[q].currency
    BY <1>1, <1>2, <1>3, <1>11 DEF OrgInv, SettingsAlone, SignupAlone
  <2>2. \A o \in Org : entries'[o] = IF o = q THEN entries[o] \cup {b.code} ELSE entries[o]
    BY <1>4 DEF OrgInv, OrgTyped
  <2> QED BY <1>4, <1>11, <2>1, <2>2 DEF OrgInv, BooksOK
<1>12. Apart1' /\ \A o \in Org : org'[o] # None => Whole(org'[o])
  BY <1>4 DEF OrgInv, Apart1
<1> QED BY <1>7, <1>9, <1>10, <1>11, <1>12 DEF OrgInv

LEMMA SaveSettingsStep ==
  ASSUME OrgInv, NEW w \in Worker, NEW S \in SUBSET Key, Firms!SaveSettings(w, S)
  PROVE  OrgInv'
<1>1. PICK b \in OrgTask : b = office[w]
  BY DEF OrgInv, OrgTyped
<1>2. b.verb = "patch" /\ b.of \in Org /\ b.seen \in Firms!OrgRow
  BY <1>1 DEF OrgInv, OrgTyped, Firms!SaveSettings
<1>3. PICK q \in Org : q = b.of
  BY <1>2
<1>4. PICK old : old = org[q]
  OBVIOUS
<1>5. PICK copy \in Firms!OrgRow : copy = b.seen
  BY <1>2
<1>6. PICK cur \in Currency : cur = IF b.code \notin {None, copy.currency} THEN b.code ELSE copy.currency
  <2>1. b.code \in Currency \cup {None} /\ copy.currency \in Currency
    BY DEF OrgTask, Firms!OrgRow
  <2> QED BY <2>1
<1>7. b.code \notin {None, copy.currency} => entries[q] = {}
  BY <1>1, <1>3, <1>5 DEF Firms!SaveSettings, Firms!Changeable
<1>8. PICK prefs \in SUBSET Key : prefs = copy.prefs \cup S
  BY DEF Firms!OrgRow
<1>9. PICK row : row = [old EXCEPT !.prefs = prefs, !.currency = cur]
  OBVIOUS
<1>10. org' = [org EXCEPT ![q] = row]
  BY <1>1, <1>3, <1>4, <1>5, <1>6, <1>8, <1>9 DEF Firms!SaveSettings, Firms!Merged
<1>11. office' = [office EXCEPT ![w] = Firms!Idle] /\ UNCHANGED <<entries, release>>
  BY DEF Firms!SaveSettings, Firms!End
<1>12. TaskOK(Firms!Idle)
  BY OrgIdle DEF TaskOK, FoundVerb
<1>13. /\ office' \in [Worker -> OrgTask]
       /\ \A v \in Worker : office'[v] = IF v = w THEN Firms!Idle ELSE office[v]
       /\ \A v \in Worker : TaskOK(office'[v])
  BY <1>11, <1>12, TaskTyped DEF OrgInv
<1>14. /\ old \in Firms!OrgRow /\ old # None /\ Whole(old)
  BY <1>1, <1>2, <1>3, <1>4, OrgRows DEF OrgInv, SignupAlone
<1>15. /\ row \in Firms!OrgRow /\ row.chart = old.chart /\ row.calendar = old.calendar /\ row.owner = old.owner
       /\ row.slug = old.slug /\ row.founder = old.founder /\ row.currency = cur
  BY ONLY <1>9, <1>14, cur \in Currency, prefs \in SUBSET Key DEF Firms!OrgRow
<1>16. row # None /\ Whole(row)
  BY <1>14, <1>15, OrgSizes DEF Whole
<1>17. \A o \in Org : org'[o] = IF o = q THEN row ELSE org[o]
  BY <1>10 DEF OrgInv, OrgTyped
<1>18. \A o \in Org : /\ org'[o] = None <=> org[o] = None
                      /\ org[o] # None => org'[o].slug = org[o].slug /\ org'[o].founder = org[o].founder
                      /\ o # q => org'[o] = org[o]
  BY <1>4, <1>14, <1>15, <1>16, <1>17
<1>19. OrgTyped'
  <2>1. org' \in [Org -> Firms!OrgRow \cup {None}]
    BY <1>10, <1>15 DEF OrgInv, OrgTyped
  <2> QED BY <1>11, <1>13, <2>1, TasksTyped DEF OrgInv, OrgTyped
<1>20. \A v \in Worker : office'[v].verb # "idle" => v # w /\ office'[v] = office[v]
  BY <1>13, OrgIdle
<1>21. ASSUME NEW v \in Worker PROVE SignupAlone(v)'
  <2>1. office[v].verb # "idle" => office[v].of \in Org
    BY DEF OrgInv, OrgTyped
  <2> QED BY <1>18, <1>20, <2>1 DEF OrgInv, SignupAlone, FoundVerb
<1>22. Apart1' /\ \A o \in Org : org'[o] # None => Whole(org'[o])
  BY <1>16, <1>17, <1>18 DEF OrgInv, Apart1
<1>23. ASSUME OneOfficer = TRUE PROVE copy.currency = old.currency
  BY <1>1, <1>2, <1>3, <1>4, <1>5, <1>23 DEF OrgInv, SettingsAlone
<1>24. ASSUME OneOfficer = TRUE PROVE BooksOK'
  <2>1. entries[q] \subseteq {old.currency}
    BY <1>4, <1>14, <1>24 DEF OrgInv, BooksOK
  <2>2. entries[q] \subseteq {cur}
    BY <1>6, <1>7, <1>23, <1>24, <2>1
  <2> QED BY <1>11, <1>15, <1>16, <1>17, <1>24, <2>2 DEF OrgInv, BooksOK
<1>25. ASSUME NEW v \in Worker, OneOfficer = TRUE PROVE SettingsAlone(v)'
  <2> SUFFICES ASSUME office'[v].verb \in {"patch", "post"} PROVE SettingsAlone(v)'
    BY DEF SettingsAlone
  <2>1. v # w /\ office'[v] = office[v] /\ SettingsAlone(v) /\ SettingsAlone(w)
    BY <1>20, <1>25 DEF OrgInv
  <2>2. office[v].of \in Org /\ office[v].of # q
    BY <1>1, <1>2, <1>3, <2>1 DEF OrgInv, OrgTyped, SettingsAlone
  <2>3. org'[office[v].of] = org[office[v].of]
    BY <1>18, <2>2
  <2> QED BY <1>20, <2>1, <2>3 DEF SettingsAlone
<1> QED BY <1>19, <1>21, <1>22, <1>24, <1>25 DEF OrgInv

LEMMA OrgStep ==
  ASSUME OrgInv, [Firms!Next]_orgVars
  PROVE  OrgInv'
<1>1. CASE UNCHANGED orgVars
  BY <1>1 DEF orgVars, OrgInv, OrgTyped, Apart1, SignupAlone, SettingsAlone, BooksOK
<1>2. ASSUME NEW w \in Worker, Firms!Founding(w) PROVE OrgInv'
  BY <1>2, BeginStep, InsertTenantStep, InsertUserStep, ProvisionStep DEF Firms!Founding
<1>3. ASSUME NEW w \in Worker, Firms!Settling(w) PROVE OrgInv'
  <2>1. \A S \in {{k} : k \in Key} \cup {{}} : S \in SUBSET Key
    OBVIOUS
  <2> QED BY <1>3, <2>1, ReadSettingsStep, SaveSettingsStep, BeginPostStep, CommitPostStep DEF Firms!Settling
<1>4. ASSUME NEW w \in Worker, Firms!Abort(w) PROVE OrgInv'
  BY <1>4, TaskEnds DEF Firms!Abort
<1>5. ASSUME NEW o \in Org, Firms!Keeping(o) PROVE OrgInv'
  BY <1>5, ReseedStep, AddAccountStep, SeedDefaultsStep, CloseMonthStep DEF Firms!Keeping
<1>6. CASE Firms!Upgrade
  BY <1>6, UpgradeStep
<1> QED BY <1>1, <1>2, <1>3, <1>4, <1>5, <1>6 DEF Firms!Next

LEMMA OrgFollows == OrgInv =>
  /\ Firms!OrganisationsTypeOK /\ Firms!OrganisationsWork /\ Firms!ClosedStays
  /\ OneOfficer = TRUE => Firms!BooksInBase
<1> SUFFICES ASSUME OrgInv
             PROVE  /\ Firms!OrganisationsTypeOK /\ Firms!OrganisationsWork /\ Firms!ClosedStays
                    /\ OneOfficer = TRUE => Firms!BooksInBase
  OBVIOUS
<1>1. \A o \in Org : o \in Firms!Founded <=> org[o] # None
  BY DEF Firms!Founded, Firms!Exists
<1>2. Firms!Founded \subseteq Org
  BY DEF Firms!Founded
<1>3. Firms!OrganisationsTypeOK
  BY <1>1, <1>2 DEF OrgInv, OrgTyped, Firms!OrganisationsTypeOK
<1>4. ASSUME NEW o \in Firms!Founded PROVE Whole(org[o])
  BY <1>1, <1>2, <1>4 DEF OrgInv
<1>5. Firms!OrganisationsWork
  <2>1. \A o, q \in Firms!Founded : o # q => org[o].slug # org[q].slug /\ org[o].founder # org[q].founder
    BY <1>1, <1>2 DEF OrgInv, Apart1
  <2> QED BY <1>4, <2>1 DEF Whole, OneEach, Closed, Firms!OrganisationsWork
<1>6. Firms!ClosedStays
  BY <1>4 DEF Whole, Closed, Firms!ClosedStays
<1>7. OneOfficer = TRUE => Firms!BooksInBase
  BY <1>1, <1>2 DEF OrgInv, BooksOK, Firms!BooksInBase
<1> QED BY <1>3, <1>5, <1>6, <1>7

-----------------------------------------------------------------------------
(* Scopes.                                                                 *)
(* The path of a department, as long as nothing is moved, is its parent's  *)
(* and its own code.                                                       *)
Rooted == \A d \in Department :
  IF parent[d] # d
  THEN /\ parent[d] # None => parent[d] \in Department /\ parent[parent[d]] # parent[d]
       /\ path[d] = (IF parent[d] = None THEN <<>> ELSE path[parent[d]]) \o <<d>>
  ELSE path[d] = <<>>

ScopesInv ==
  /\ Sight!ScopesTypeOK
  /\ \A e \in Employee : place[e] # None => place[e] \in Department /\ parent[place[e]] # place[e]
  /\ Builds = TRUE /\ Moves = FALSE => Rooted

LEMMA ScopeSizes ==
  /\ None \notin Department /\ None \notin Employee /\ Actor \in Employee
  /\ {Builds, Moves} \subseteq BOOLEAN
BY SightConstants DEF Sight!ScopesConstantsOK

LEMMA PlaceableIs == \A d : d \in Sight!Placeable <=> d = None \/ (d \in Department /\ parent[d] # d)
BY DEF Sight!Placeable, Sight!OrNone, Sight!There

LEMMA ScopesBegin == Sight!Init => ScopesInv
<1> SUFFICES ASSUME Sight!Init PROVE ScopesInv
  OBVIOUS
<1>1. \A d \in Department : parent[d] = d /\ path[d] = <<>>
  BY DEF Sight!Init
<1>2. <<>> \in Seq(Department)
  BY EmptySeq
<1>3. Sight!ScopesTypeOK
  BY <1>2 DEF Sight!Init, Sight!ScopesTypeOK, Sight!OrNone
<1>4. \A e \in Employee : place[e] = None
  BY DEF Sight!Init
<1> QED BY <1>1, <1>3, <1>4 DEF ScopesInv, Rooted

LEMMA AddStep ==
  ASSUME ScopesInv, NEW d \in Department, NEW p \in Sight!Placeable, Sight!AddDepartment(d, p)
  PROVE  ScopesInv'
<1> USE DEF ScopesInv, Sight!ScopesTypeOK, Sight!OrNone
<1>1. /\ parent[d] = d /\ p # d /\ parent' = [parent EXCEPT ![d] = p]
      /\ UNCHANGED <<place, team, linked, held>>
  BY DEF Sight!AddDepartment, Sight!There
<1>2. p = None \/ (p \in Department /\ parent[p] # p)
  BY PlaceableIs
<1>3. \A x \in Department : parent'[x] = IF x = d THEN p ELSE parent[x]
  BY <1>1
<1>4. \A x \in Department : parent[x] # x => parent'[x] # x /\ parent'[x] = parent[x]
  BY <1>1, <1>3
<1>5. PICK base \in Seq(Department) : base = IF p = None THEN <<>> ELSE path[p]
  BY <1>2, EmptySeq
<1>6. PICK own \in Seq(Department) : own = base \o <<d>>
  <2>1. <<d>> \in Seq(Department)
    OBVIOUS
  <2> QED BY <2>1, ConcatProperties
<1>7. path' = IF Builds THEN [path EXCEPT ![d] = own] ELSE path
  BY <1>5, <1>6 DEF Sight!AddDepartment, Sight!BuildPath
<1>8. path' \in [Department -> Seq(Department)] /\ parent' \in [Department -> Department \cup {None}]
  BY <1>1, <1>2, <1>7
<1>9. \A e \in Employee : place'[e] # None => place'[e] \in Department /\ parent'[place'[e]] # place'[e]
  BY <1>1, <1>4
<1>10. ASSUME Builds = TRUE, Moves = FALSE PROVE Rooted'
  <2>1. Rooted /\ \A x \in Department : path'[x] = IF x = d THEN own ELSE path[x]
    BY <1>7, <1>10
  <2> SUFFICES ASSUME NEW x \in Department
               PROVE  IF parent'[x] # x
                      THEN /\ parent'[x] # None => parent'[x] \in Department /\ parent'[parent'[x]] # parent'[x]
                           /\ path'[x] = (IF parent'[x] = None THEN <<>> ELSE path'[parent'[x]]) \o <<x>>
                      ELSE path'[x] = <<>>
    BY DEF Rooted
  <2>2. CASE x = d
    <3>1. parent'[x] = p /\ path'[x] = base \o <<x>>
      BY <1>3, <1>6, <2>1, <2>2
    <3>2. p # None => p \in Department /\ parent'[p] # p /\ path'[p] = path[p]
      BY <1>1, <1>2, <1>4, <2>1
    <3> QED BY <1>1, <1>5, <2>2, <3>1, <3>2
  <2>3. CASE x # d
    <3>1. parent'[x] = parent[x] /\ path'[x] = path[x]
      BY <1>3, <2>1, <2>3
    <3>2. CASE parent[x] = x
      BY <2>1, <3>1, <3>2 DEF Rooted
    <3>3. CASE parent[x] # x
      <4>1. PICK q : q = parent[x]
        OBVIOUS
      <4>2. /\ q # None => q \in Department /\ parent[q] # q
            /\ path[x] = (IF q = None THEN <<>> ELSE path[q]) \o <<x>>
        BY <2>1, <3>3, <4>1 DEF Rooted
      <4>3. q # None => parent'[q] # q /\ path'[q] = path[q]
        BY <1>1, <1>4, <2>1, <4>2
      <4> QED BY <3>1, <3>3, <4>1, <4>2, <4>3
    <3> QED BY <3>2, <3>3
  <2> QED BY <2>2, <2>3
<1> QED BY <1>1, <1>8, <1>9, <1>10

LEMMA ScopesStep ==
  ASSUME ScopesInv, [Sight!Next]_scopeVars
  PROVE  ScopesInv'
<1> USE DEF ScopesInv, Sight!ScopesTypeOK, Sight!OrNone
<1>1. CASE UNCHANGED scopeVars
  BY <1>1 DEF scopeVars, Rooted
<1>2. ASSUME NEW d \in Department, NEW p \in Sight!Placeable, Sight!AddDepartment(d, p) PROVE ScopesInv'
  BY <1>2, AddStep
<1>3. ASSUME NEW d \in Department, NEW p \in Sight!Placeable, Sight!Move(d, p) PROVE ScopesInv'
  <2>1. /\ Moves = TRUE /\ parent[d] # d /\ p # d /\ parent' = [parent EXCEPT ![d] = p]
        /\ UNCHANGED <<path, place, team, linked, held>>
    BY <1>3, ScopeSizes DEF Sight!Move, Sight!There
  <2>2. p = None \/ (p \in Department /\ parent[p] # p)
    BY PlaceableIs
  <2>3. \A x \in Department : parent[x] # x => parent'[x] # x
    BY <2>1
  <2>4. parent' \in [Department -> Department \cup {None}]
    BY <2>1, <2>2
  <2> QED BY <2>1, <2>3, <2>4
<1>4. ASSUME NEW e \in Employee, NEW d \in Sight!Placeable, Sight!Transfer(e, d) PROVE ScopesInv'
  <2>1. place' = [place EXCEPT ![e] = d] /\ UNCHANGED <<parent, path, team, linked, held>>
    BY <1>4 DEF Sight!Transfer
  <2>2. d = None \/ (d \in Department /\ parent[d] # d)
    BY PlaceableIs
  <2> QED BY <2>1, <2>2 DEF Rooted
<1>5. ASSUME NEW p \in Project, Sight!Staff(Actor, p) PROVE ScopesInv'
  <2>1. team' \subseteq Employee \X Project /\ UNCHANGED <<parent, path, place, linked, held>>
    BY <1>5, ScopeSizes DEF Sight!Staff
  <2> QED BY <2>1 DEF Rooted
<1>6. CASE Sight!Link
  <2>1. linked' \in BOOLEAN /\ UNCHANGED <<parent, path, place, team, held>>
    BY <1>6 DEF Sight!Link
  <2> QED BY <2>1 DEF Rooted
<1>7. ASSUME NEW r \in Sight!ScopeRole, NEW d \in Sight!Placeable, Sight!Give(r, d) PROVE ScopesInv'
  <2>1. held' = held \cup {[role |-> r, department |-> d]} /\ UNCHANGED <<parent, path, place, team, linked>>
    BY <1>7 DEF Sight!Give
  <2>2. d \in Department \cup {None}
    BY PlaceableIs
  <2> QED BY <2>1, <2>2 DEF Rooted
<1>8. ASSUME NEW h \in held, Sight!Take(h) PROVE ScopesInv'
  <2>1. held' = held \ {h} /\ UNCHANGED <<parent, path, place, team, linked>>
    BY <1>8 DEF Sight!Take
  <2> QED BY <2>1 DEF Rooted
<1> QED BY <1>1, <1>2, <1>3, <1>4, <1>5, <1>6, <1>7, <1>8 DEF Sight!Next

-----------------------------------------------------------------------------
(* Paths.                                                                  *)

(* A prefix of a path with one more code is that path or a prefix of what  *)
(* was there before.                                                       *)
LEMMA Prefixes ==
  ASSUME NEW S, NEW s \in Seq(S), NEW t \in Seq(S), NEW x \in S
  PROVE  /\ Len(t \o <<x>>) = Len(t) + 1 /\ t \o <<x>> \in Seq(S) /\ (t \o <<x>>)[Len(t) + 1] = x
         /\ Sight!IsPrefix(s, t) => Sight!IsPrefix(s, t \o <<x>>)
         /\ Sight!IsPrefix(s, t \o <<x>>) => s = t \o <<x>> \/ Sight!IsPrefix(s, t)
         /\ Sight!IsPrefix(s, s)
<1>1. PICK u : u = t \o <<x>>
  OBVIOUS
<1>2. <<x>> \in Seq(S) /\ Len(<<x>>) = 1 /\ <<x>>[1] = x
  OBVIOUS
<1>3. /\ u \in Seq(S) /\ Len(u) = Len(t) + 1 /\ u[Len(t) + 1] = x
      /\ \A i \in 1..Len(t) : u[i] = t[i]
  <2>1. Len(t) \in Nat /\ Len(s) \in Nat
    BY LenProperties
  <2>2. /\ u \in Seq(S) /\ Len(u) = Len(t) + Len(<<x>>)
        /\ \A i \in 1..(Len(t) + Len(<<x>>)) : u[i] = IF i <= Len(t) THEN t[i] ELSE <<x>>[i - Len(t)]
    BY ONLY <1>1, <1>2, ConcatProperties, s \in Seq(S), t \in Seq(S)
  <2> QED BY ONLY <1>2, <2>1, <2>2
<1>4. \A a, b \in Seq(S) : Sight!IsPrefix(a, b) <=> Len(a) <= Len(b) /\ \A i \in 1..Len(a) : a[i] = b[i]
  <2> SUFFICES ASSUME NEW a \in Seq(S), NEW b \in Seq(S)
               PROVE  Sight!IsPrefix(a, b) <=> Len(a) <= Len(b) /\ \A i \in 1..Len(a) : a[i] = b[i]
    OBVIOUS
  <2>1. Len(a) \in Nat /\ Len(b) \in Nat
    BY LenProperties
  <2>2. ASSUME Len(a) <= Len(b)
        PROVE  SubSeq(a, 1, Len(a)) = SubSeq(b, 1, Len(a)) <=> \A i \in 1..Len(a) : a[i] = b[i]
    <3>1. PICK sa : sa = SubSeq(a, 1, Len(a))
      OBVIOUS
    <3>2. PICK sb : sb = SubSeq(b, 1, Len(a))
      OBVIOUS
    <3>3. sa = [i \in 1..Len(a) |-> a[i]] /\ sb = [i \in 1..Len(a) |-> b[i]]
      BY <2>1, <2>2, <3>1, <3>2
    <3> QED BY ONLY <3>1, <3>2, <3>3
  <2> QED BY <2>2 DEF Sight!IsPrefix
<1>5. Len(s) \in Nat /\ Len(t) \in Nat /\ Len(u) \in Nat
  BY <1>3, LenProperties
<1>6. Sight!IsPrefix(s, t) => Sight!IsPrefix(s, u)
  BY <1>3, <1>4, <1>5
<1>7. ASSUME Sight!IsPrefix(s, u) PROVE s = u \/ Sight!IsPrefix(s, t)
  <2>1. Len(s) <= Len(u) /\ \A i \in 1..Len(s) : s[i] = u[i]
    BY <1>3, <1>4, <1>7
  <2>2. CASE Len(s) = Len(u)
    <3>1. s \in [1..Len(s) -> S] /\ u \in [1..Len(s) -> S]
      BY ONLY <1>3, <2>2, LenProperties, s \in Seq(S)
    <3> QED BY ONLY <2>1, <3>1
  <2>3. CASE Len(s) # Len(u)
    <3>1. Len(s) <= Len(t)
      BY <1>3, <1>5, <2>1, <2>3
    <3>2. \A i \in 1..Len(s) : s[i] = t[i]
      BY <1>3, <1>5, <2>1, <3>1
    <3> QED BY <1>4, <3>1, <3>2
  <2> QED BY <2>2, <2>3
<1>8. Sight!IsPrefix(s, s)
  BY <1>4, <1>5
<1> QED BY <1>1, <1>3, <1>6, <1>7, <1>8

(* The path of a department.                                               *)
LEMMA PathOfOne ==
  ASSUME ScopesInv, Rooted, NEW d \in Department, parent[d] # d
  PROVE  /\ path[d] \in Seq(Department) /\ path[d] # <<>> /\ Len(path[d]) \in Nat \ {0}
         /\ path[d][Len(path[d])] = d
         /\ parent[d] = None \/ (parent[d] \in Department /\ parent[parent[d]] # parent[d])
         /\ parent[d] = None => path[d] = <<>> \o <<d>>
         /\ parent[d] # None => path[d] = path[parent[d]] \o <<d>>
<1>1. /\ path[d] \in Seq(Department)
      /\ parent[d] # None => parent[d] \in Department /\ parent[parent[d]] # parent[d]
      /\ path[d] = (IF parent[d] = None THEN <<>> ELSE path[parent[d]]) \o <<d>>
  BY DEF ScopesInv, Sight!ScopesTypeOK, Rooted
<1>2. PICK t \in Seq(Department) : t = IF parent[d] = None THEN <<>> ELSE path[parent[d]]
  BY <1>1, EmptySeq DEF ScopesInv, Sight!ScopesTypeOK
<1>3. PICK u : u = t \o <<d>> /\ u = path[d]
  BY <1>1, <1>2
<1>4. Len(u) = Len(t) + 1 /\ u[Len(t) + 1] = d /\ Len(t) \in Nat
  BY ONLY <1>3, Prefixes, LenProperties, t \in Seq(Department), d \in Department
<1>5. Len(u) \in Nat \ {0} /\ u[Len(u)] = d /\ u # <<>>
  <2>1. Len(u) \in Nat \ {0} /\ u[Len(u)] = d
    BY ONLY <1>4
  <2>2. Len(<<>>) = 0
    BY EmptySeq
  <2> QED BY <2>1, <2>2
<1>6. parent[d] = None => path[d] = <<>> \o <<d>>
  BY ONLY <1>1
<1>7. parent[d] # None => path[d] = path[parent[d]] \o <<d>>
  BY ONLY <1>1
<1>8. path[d] # <<>> /\ Len(path[d]) \in Nat \ {0} /\ path[d][Len(path[d])] = d
  BY ONLY <1>3, <1>5
<1>9. parent[d] = None \/ (parent[d] \in Department /\ parent[parent[d]] # parent[d])
  BY ONLY <1>1
<1> QED BY ONLY <1>1, <1>6, <1>7, <1>8, <1>9

LEMMA NotBelowNothing ==
  ASSUME NEW S, NEW s \in Seq(S), s # <<>>
  PROVE  ~Sight!IsPrefix(s, <<>>)
<1>1. Len(s) \in Nat \ {0} /\ Len(<<>>) = 0
  BY EmptySeq
<1> QED BY <1>1 DEF Sight!IsPrefix

(* The set that a branch is in.                                            *)
LEMMA BranchIsBelow ==
  ASSUME ScopesInv, Rooted, NEW a \in Department, parent[a] # a, NEW d \in Sight!Branch(a)
  PROVE  d \in Department /\ parent[d] # d /\ Sight!IsPrefix(path[a], path[d])
<1> DEFINE B == {x \in Department : parent[x] # x /\ Sight!IsPrefix(path[a], path[x])}
<1>1. a \in B
  <2>1. path[a] \in Seq(Department)
    BY PathOfOne
  <2>2. Sight!IsPrefix(path[a], path[a])
    BY ONLY <2>1, Prefixes, a \in Department
  <2> QED BY <2>2
<1>2. ASSUME NEW x \in Department, parent[x] \in B PROVE x \in B
  <2>1. CASE parent[x] = x
    BY <1>2, <2>1
  <2>2. CASE parent[x] # x
    <3>1. PICK p \in Department : p = parent[x] /\ parent[p] # p /\ Sight!IsPrefix(path[a], path[p])
      BY <1>2
    <3>2. path[x] = path[p] \o <<x>>
      BY <2>2, <3>1, PathOfOne, ScopeSizes
    <3>3. path[a] \in Seq(Department) /\ path[p] \in Seq(Department)
      BY <3>1, PathOfOne
    <3>4. Sight!IsPrefix(path[a], path[p] \o <<x>>)
      BY ONLY <3>1, <3>3, Prefixes, x \in Department
    <3> QED BY <2>2, <3>2, <3>4
  <2> QED BY <2>1, <2>2
<1>3. B \in SUBSET Department
  OBVIOUS
<1> HIDE DEF B
<1>4. d \in B
  BY <1>1, <1>2, <1>3 DEF Sight!Branch
<1> QED BY <1>4 DEF B

LEMMA BelowIsBranch ==
  ASSUME ScopesInv, Rooted, NEW a \in Department, parent[a] # a,
         NEW d \in Department, parent[d] # d, Sight!IsPrefix(path[a], path[d])
  PROVE  d \in Sight!Branch(a)
<1> SUFFICES ASSUME NEW S \in SUBSET Department, a \in S, \A x \in Department : parent[x] \in S => x \in S,
                    d \notin S
             PROVE  FALSE
  BY DEF Sight!Branch, Sight!There
<1> DEFINE B == {x \in Department : parent[x] # x /\ Sight!IsPrefix(path[a], path[x]) /\ x \notin S}
           L == {Len(path[x]) : x \in B}
<1>1. \A x \in B : path[x] \in Seq(Department) /\ Len(path[x]) \in Nat
  BY PathOfOne
<1>2. L \in SUBSET Nat /\ L # {}
  BY <1>1
<1>3. PICK m \in L : \A n \in L : m <= n
  <2> HIDE DEF L
  <2> QED BY <1>2, LeastNumber
<1>4. PICK x \in B : m = Len(path[x])
  OBVIOUS
<1>5. \A y \in B : Len(path[x]) <= Len(path[y])
  BY <1>3, <1>4
<1>6. path[a] \in Seq(Department) /\ path[a] # <<>> /\ path[a][Len(path[a])] = a
  BY PathOfOne
<1>7. path[x] # path[a]
  <2>1. path[x][Len(path[x])] = x /\ x # a
    BY <1>4, PathOfOne
  <2> QED BY <1>6, <2>1
<1>8. parent[x] = None => FALSE
  <2> SUFFICES ASSUME parent[x] = None PROVE FALSE
    OBVIOUS
  <2>1. path[x] = <<>> \o <<x>> /\ <<>> \in Seq(Department)
    BY PathOfOne, EmptySeq
  <2>3. PICK t \in Seq(Department) : t = <<>>
    BY <2>1
  <2>4. x \in Department /\ Sight!IsPrefix(path[a], t \o <<x>>) /\ path[a] # t \o <<x>>
    BY <1>4, <1>7, <2>1, <2>3
  <2>7. t \in Seq(Department)
    OBVIOUS
  <2>2. Sight!IsPrefix(path[a], t)
    BY ONLY <1>6, <2>4, <2>7, Prefixes
  <2>5. PICK s \in Seq(Department) : s = path[a] /\ s # <<>> /\ Sight!IsPrefix(s, t)
    BY <1>6, <2>2
  <2>6. ~Sight!IsPrefix(s, <<>>)
    BY ONLY <2>5, NotBelowNothing
  <2> QED BY ONLY <2>3, <2>5, <2>6
<1>9. PICK p \in Department : p = parent[x] /\ parent[p] # p /\ path[x] = path[p] \o <<x>>
  BY <1>8, PathOfOne
<1>10. path[p] \in Seq(Department)
  BY <1>9, PathOfOne
<1>11. Sight!IsPrefix(path[a], path[p])
  <2>1. x \in Department /\ Sight!IsPrefix(path[a], path[p] \o <<x>>) /\ path[a] # path[p] \o <<x>>
    BY <1>4, <1>7, <1>9
  <2> QED BY ONLY <1>6, <1>10, <2>1, Prefixes
<1>12. p \notin S
  BY <1>4, <1>9
<1>13. p \in B
  BY <1>9, <1>11, <1>12
<1>14. Len(path[x]) = Len(path[p]) + 1 /\ Len(path[p]) \in Nat
  BY ONLY <1>4, <1>9, <1>10, Prefixes, LenProperties
<1> QED BY <1>5, <1>13, <1>14

-----------------------------------------------------------------------------
(* What somebody sees.                                                     *)

(* The strategies one by one.                                              *)
LEMMA Strategies ==
  ASSUME NEW resource
  PROVE  /\ Sight!By("none", resource) = {}
         /\ Sight!By("all", resource) = Sight!Rows(resource)
         /\ Sight!By("own_record", resource) = {r \in Sight!Rows(resource) :
              IF "employee" \in Sight!Fields(resource) /\ Sight!Self # None THEN r.employee = Sight!Self
              ELSE "owner" \in Sight!Fields(resource) /\ r.owner = Actor}
         /\ "department" \in Sight!Fields(resource) /\ Sight!OwnPlace # None =>
              Sight!By("own_department", resource) = {r \in Sight!Rows(resource) : r.department = Sight!OwnPlace}
         /\ "department" \in Sight!Fields(resource) /\ Sight!PathOf(Sight!OwnPlace) # <<>> =>
              Sight!By("department_subtree", resource) =
                {r \in Sight!Rows(resource) : Sight!Below(r.department, {Sight!PathOf(Sight!OwnPlace)})}
         /\ Sight!By("assigned_projects", resource) \subseteq Sight!Rows(resource)
         /\ Sight!By("department_subtree", resource) \subseteq Sight!Rows(resource)
         /\ Sight!By("own_department", resource) \subseteq Sight!Rows(resource)
<1>1. PICK columns : columns = Sight!Fields(resource)
  OBVIOUS
<1> QED BY <1>1 DEF Sight!By

(* The rows of a resource that has a department: those of departments and  *)
(* those of employees.                                                     *)
LEMMA RowsAre ==
  ASSUME ScopesInv, NEW resource, NEW r \in Sight!Rows(resource)
  PROVE  IF resource = "department" THEN r.department \in Department /\ parent[r.department] # r.department
         ELSE \E e \in Employee : /\ r.employee = e /\ r.department = place[e]
                                  /\ place[e] # None => place[e] \in Department /\ parent[place[e]] # place[e]
<1>1. CASE resource = "department"
  <2>1. PICK d \in Department : parent[d] # d /\ r = [department |-> d]
    BY <1>1 DEF Sight!Rows, Sight!There
  <2>2. r.department = d
    BY <2>1
  <2> QED BY <1>1, <2>1, <2>2
<1>2. CASE resource # "department"
  <2>1. PICK c, e, p : c \in Employee /\ e \in Employee /\ r = Sight!RowOf(c, e, p)
    BY <1>2 DEF Sight!Rows
  <2>2. r.employee = e /\ r.department = place[e]
    BY <2>1 DEF Sight!RowOf
  <2> QED BY <1>2, <2>1, <2>2 DEF ScopesInv
<1> QED BY <1>1, <1>2

(* The prefix test and the branch agree on every place.                    *)
LEMMA BelowIsTheBranch ==
  ASSUME ScopesInv, Rooted, NEW a \in Department, parent[a] # a, NEW d,
         d = None \/ (d \in Department /\ parent[d] # d)
  PROVE  Sight!Below(d, {Sight!PathOf(a)}) <=> d \in Sight!Branch(a)
<1>1. Sight!PathOf(a) = path[a] /\ (d \in Department => Sight!PathOf(d) = path[d])
      /\ (d = None => Sight!PathOf(d) = <<>>)
  BY ScopeSizes DEF Sight!PathOf
<1>2. Sight!Below(d, {Sight!PathOf(a)}) <=> Sight!IsPrefix(path[a], Sight!PathOf(d))
  BY <1>1 DEF Sight!Below
<1>3. CASE d = None
  <2>1. PICK s \in Seq(Department) : s = path[a] /\ s # <<>>
    BY PathOfOne
  <2>2. ~Sight!IsPrefix(s, <<>>)
    BY ONLY <2>1, NotBelowNothing
  <2>3. PICK t : t = Sight!PathOf(d) /\ t = <<>>
    BY <1>1, <1>3
  <2>4. ~Sight!Below(d, {Sight!PathOf(a)})
    BY <1>2, <2>1, <2>2, <2>3
  <2>5. d \notin Sight!Branch(a)
    BY <1>3, ScopeSizes DEF Sight!Branch
  <2> QED BY <2>4, <2>5
<1>4. CASE d # None
  <2>1. d \in Department /\ parent[d] # d
    BY <1>4
  <2>2. Sight!Below(d, {Sight!PathOf(a)}) <=> Sight!IsPrefix(path[a], path[d])
    BY <1>1, <1>2, <2>1
  <2> QED BY <2>1, <2>2, BranchIsBelow, BelowIsBranch
<1> QED BY <1>3, <1>4

LEMMA OwnPlaceIs ==
  ASSUME ScopesInv, Sight!OwnPlace # None
  PROVE  /\ linked /\ Sight!OwnPlace = place[Actor] /\ Sight!Self = Actor /\ Actor # None
         /\ Sight!OwnPlace \in Department /\ parent[Sight!OwnPlace] # Sight!OwnPlace
BY ScopeSizes DEF Sight!OwnPlace, Sight!Self, ScopesInv

LEMMA SubtreeFollows ==
  ASSUME ScopesInv, Rooted
  PROVE  Sight!SubtreeIsTheBranch
<1> SUFFICES ASSUME NEW resource \in Resource, "department" \in Sight!Fields(resource), Sight!OwnPlace # None
             PROVE  Sight!By("department_subtree", resource)
                      = {r \in Sight!Rows(resource) : r.department \in Sight!Branch(Sight!OwnPlace)}
  BY DEF Sight!SubtreeIsTheBranch
<1>1. PICK a \in Department : a = Sight!OwnPlace /\ parent[a] # a
  BY OwnPlaceIs
<1>2. Sight!PathOf(a) # <<>>
  <2>1. Sight!PathOf(a) = path[a]
    BY ScopeSizes DEF Sight!PathOf
  <2>2. path[a] # <<>>
    BY <1>1, PathOfOne
  <2> QED BY <2>1, <2>2
<1>3. Sight!By("department_subtree", resource)
        = {r \in Sight!Rows(resource) : Sight!Below(r.department, {Sight!PathOf(a)})}
  BY <1>1, <1>2, Strategies
<1>4. ASSUME NEW r \in Sight!Rows(resource)
      PROVE  Sight!Below(r.department, {Sight!PathOf(a)}) <=> r.department \in Sight!Branch(a)
  <2>1. PICK d : d = r.department
    OBVIOUS
  <2>2. d = None \/ (d \in Department /\ parent[d] # d)
    BY <2>1, RowsAre
  <2>3. Sight!Below(d, {Sight!PathOf(a)}) <=> d \in Sight!Branch(a)
    BY <1>1, <2>2, BelowIsTheBranch
  <2> QED BY <2>1, <2>3
<1> QED BY <1>1, <1>3, <1>4

-----------------------------------------------------------------------------
(* Of several roles the widest strategy decides.                           *)

Used(resource) == {Rule[r][resource] : r \in {q \in DOMAIN Rule : resource \in DOMAIN Rule[q]}}

LEMMA RulingIsUsed ==
  ASSUME ScopesInv, NEW resource, NEW fewer \in SUBSET Sight!Roles
  PROVE  /\ Sight!Ruling(fewer, resource) \subseteq Sight!Ruling(Sight!Roles, resource)
         /\ Sight!Ruling(Sight!Roles, resource) \subseteq Used(resource)
         /\ Sight!Roles \subseteq DOMAIN Rule
<1>1. Sight!Roles \subseteq DOMAIN Rule
  BY DEF ScopesInv, Sight!ScopesTypeOK, Sight!Roles, Sight!ScopeRole
<1> QED BY <1>1 DEF Sight!Ruling, Used

LEMMA Chained ==
  ASSUME NEW resource \in Resource
  PROVE  /\ \E chain \in Sight!Chains(resource) : Used(resource) \subseteq chain
         /\ Sight!Fields(resource) = {} => Used(resource) = {}
BY SightConstants DEF Sight!ScopesConstantsOK, Used, Sight!ScopeRole

AnyStrategy == {"none", "own_record", "own_department", "assigned_projects", "department_subtree", "all"}

LEMMA ChainsAre ==
  ASSUME NEW resource, NEW chain \in Sight!Chains(resource)
  PROVE  /\ chain \subseteq AnyStrategy
         /\ "own_department" \in chain \/ "department_subtree" \in chain => "department" \in Sight!Fields(resource)
         /\ {"own_record", "department_subtree"} \subseteq chain => "employee" \in Sight!Fields(resource)
         /\ ~("own_record" \in chain /\ "own_department" \in chain)
         /\ "assigned_projects" \in chain => chain = {"none", "assigned_projects", "all"}
BY DEF Sight!Chains, AnyStrategy

LEMMA Breadths ==
  /\ \A s \in AnyStrategy : Sight!Breadth[s] \in 0..6
  /\ Sight!Breadth["none"] = 0 /\ Sight!Breadth["own_record"] = 1 /\ Sight!Breadth["own_department"] = 2
  /\ Sight!Breadth["assigned_projects"] = 3 /\ Sight!Breadth["department_subtree"] = 5 /\ Sight!Breadth["all"] = 6
BY DEF Sight!Breadth, AnyStrategy

LEMMA WidestIs ==
  ASSUME NEW S \in SUBSET AnyStrategy, S # {}
  PROVE  Sight!Widest(S) \in S /\ \A t \in S : Sight!Breadth[t] <= Sight!Breadth[Sight!Widest(S)]
<1> DEFINE L == {6 - Sight!Breadth[s] : s \in S}
<1>1. \A s \in S : Sight!Breadth[s] \in 0..6
  BY Breadths
<1>2. L \in SUBSET Nat /\ L # {}
  BY <1>1
<1>3. PICK m \in L : \A n \in L : m <= n
  <2> HIDE DEF L
  <2> QED BY <1>2, LeastNumber
<1>4. PICK s \in S : m = 6 - Sight!Breadth[s]
  BY <1>3
<1>5. ASSUME NEW t \in S PROVE Sight!Breadth[t] <= Sight!Breadth[s]
  <2>1. 6 - Sight!Breadth[s] <= 6 - Sight!Breadth[t]
    BY <1>3, <1>4
  <2>2. PICK b, c : b = Sight!Breadth[s] /\ c = Sight!Breadth[t] /\ b \in 0..6 /\ c \in 0..6
    BY <1>1
  <2>3. c <= b
    BY ONLY <2>1, <2>2
  <2> QED BY <2>2, <2>3
<1> HIDE DEF L
<1> QED BY <1>5 DEF Sight!Widest

(* A wider strategy of one chain shows what a narrower one does.           *)
LEMMA WiderShowsMore ==
  ASSUME ScopesInv, Rooted, Sight!Placed, NEW resource, NEW chain \in Sight!Chains(resource),
         NEW s \in chain, NEW t \in chain, Sight!Breadth[s] <= Sight!Breadth[t]
  PROVE  Sight!By(s, resource) \subseteq Sight!By(t, resource)
<1>1. /\ s \in AnyStrategy /\ t \in AnyStrategy
      /\ ~(s = "own_record" /\ t = "own_department") /\ ~(s = "own_department" /\ t = "own_record")
      /\ s = "assigned_projects" \/ t = "assigned_projects" => {s, t} \subseteq {"none", "assigned_projects", "all"}
      /\ s \in {"own_department", "department_subtree"} \/ t \in {"own_department", "department_subtree"}
           => "department" \in Sight!Fields(resource)
      /\ s = "own_record" /\ t = "department_subtree" => "employee" \in Sight!Fields(resource)
  BY ChainsAre
<1>2. s = t \/ s = "none" \/ t = "all"
        \/ (s \in {"own_record", "own_department"} /\ t = "department_subtree"
            /\ "department" \in Sight!Fields(resource))
  BY <1>1, Breadths DEF AnyStrategy
<1>3. Sight!By(s, resource) \subseteq Sight!Rows(resource)
  <2>1. s \in AnyStrategy
    BY <1>1
  <2>2. CASE s \in {"none", "all", "own_record"}
    BY <2>2, Strategies
  <2>3. CASE s \in {"own_department", "department_subtree", "assigned_projects"}
    BY <2>3, Strategies
  <2> QED BY <2>1, <2>2, <2>3 DEF AnyStrategy
<1>4. CASE s = t
  BY <1>4
<1>5. CASE s = "none"
  BY <1>5, Strategies
<1>6. CASE t = "all"
  BY <1>3, <1>6, Strategies
<1>7. CASE s \in {"own_record", "own_department"} /\ t = "department_subtree" /\ "department" \in Sight!Fields(resource)
  <2>1. PICK a \in Department : /\ a = Sight!OwnPlace /\ parent[a] # a /\ a = place[Actor] /\ Sight!OwnPlace # None
                                /\ Sight!Self = Actor /\ Actor # None
    BY OwnPlaceIs DEF Sight!Placed, Sight!OwnPlace
  <2>2. PICK q \in Seq(Department) : q = Sight!PathOf(a) /\ q # <<>> /\ q = path[a]
    BY <2>1, PathOfOne, ScopeSizes DEF Sight!PathOf
  <2>3. Sight!By(t, resource) = {r \in Sight!Rows(resource) : Sight!Below(r.department, {q})}
    BY <1>7, <2>1, <2>2, Strategies
  <2>4. Sight!Below(a, {q})
    <3>1. Sight!IsPrefix(q, q)
      BY ONLY q \in Seq(Department), Prefixes, a \in Department
    <3> QED BY <2>2, <3>1 DEF Sight!Below
  <2>5. ASSUME NEW r \in Sight!By(s, resource) PROVE r \in Sight!Rows(resource) /\ r.department = a
    <3>1. r \in Sight!Rows(resource)
      BY <1>3
    <3>2. CASE s = "own_department"
      BY <1>7, <2>1, <3>1, <3>2, Strategies
    <3>3. CASE s = "own_record"
      <4>0. "employee" \in Sight!Fields(resource)
        BY <1>1, <1>7, <3>3
      <4>1. r.employee = Actor
        BY <2>1, <3>3, <4>0, Strategies
      <4>2. resource # "department"
        BY <4>0 DEF Sight!Fields
      <4>3. PICK e \in Employee : r.employee = e /\ r.department = place[e]
        BY <3>1, <4>2, RowsAre
      <4> QED BY <2>1, <3>1, <4>1, <4>3
    <3> QED BY <1>7, <3>2, <3>3
  <2> QED BY <2>3, <2>4, <2>5
<1> QED BY <1>2, <1>4, <1>5, <1>6, <1>7

LEMMA MoreRolesFollow ==
  ASSUME ScopesInv, Rooted
  PROVE  Sight!MoreRolesMoreRows
<1> SUFFICES ASSUME NEW fewer \in SUBSET Sight!Roles, NEW resource \in Resource,
                    Sight!Placed, ~Sight!Leads(Sight!Roles)
             PROVE  Sight!Visible(fewer, resource) \subseteq Sight!Visible(Sight!Roles, resource)
  BY DEF Sight!MoreRolesMoreRows
<1>1. PICK A, B : A = Sight!Ruling(fewer, resource) /\ B = Sight!Ruling(Sight!Roles, resource)
  OBVIOUS
<1>2. A \subseteq B /\ B \subseteq Used(resource)
  BY <1>1, RulingIsUsed
<1>3. ~Sight!Leads(fewer)
  BY DEF Sight!Leads
<1>4. Sight!Visible(fewer, resource) =
        IF A # {} THEN Sight!By(Sight!Widest(A), resource)
        ELSE IF Sight!Fields(resource) = {} THEN Sight!Rows(resource) ELSE {}
  BY <1>1, <1>3 DEF Sight!Visible
<1>5. Sight!Visible(Sight!Roles, resource) =
        IF B # {} THEN Sight!By(Sight!Widest(B), resource)
        ELSE IF Sight!Fields(resource) = {} THEN Sight!Rows(resource) ELSE {}
  BY <1>1 DEF Sight!Visible
<1>6. CASE A = {}
  BY <1>2, <1>4, <1>5, <1>6, Chained
<1>7. CASE A # {}
  <2>1. PICK chain \in Sight!Chains(resource) : Used(resource) \subseteq chain
    BY Chained
  <2>2. A \in SUBSET AnyStrategy /\ B \in SUBSET AnyStrategy /\ B # {}
    BY <1>2, <1>7, <2>1, ChainsAre
  <2>3. PICK s, t : s = Sight!Widest(A) /\ t = Sight!Widest(B)
    OBVIOUS
  <2>4. s \in A /\ t \in B /\ \A u \in B : Sight!Breadth[u] <= Sight!Breadth[t]
    BY <1>7, <2>2, <2>3, WidestIs
  <2>5. s \in chain /\ t \in chain /\ Sight!Breadth[s] <= Sight!Breadth[t]
    BY <1>2, <2>1, <2>4
  <2>6. Sight!By(s, resource) \subseteq Sight!By(t, resource)
    BY <2>5, WiderShowsMore
  <2> QED BY <1>4, <1>5, <1>7, <2>2, <2>3, <2>6
<1> QED BY <1>6, <1>7

LEMMA PayslipsFollow ==
  ASSUME ScopesInv
  PROVE  Sight!PayslipsArePrivate
<1> SUFFICES ASSUME NEW r \in Sight!Seen("payslip"), Sight!Roles \cap {"owner", "hr_manager"} = {}
             PROVE  IF linked THEN r.employee = Actor ELSE r.owner = Actor
  BY DEF Sight!PayslipsArePrivate
<1>1. PICK B : B = Sight!Ruling(Sight!Roles, "payslip")
  OBVIOUS
<1>2. Sight!Roles \subseteq DOMAIN Rule \ {"owner", "hr_manager"}
  BY RulingIsUsed
<1>3. ~Sight!Leads(Sight!Roles) /\ B \subseteq {"none", "own_record"}
  BY <1>1, <1>2, SightConstants DEF Sight!ScopesConstantsOK, Sight!Leads, Sight!Ruling, Sight!ScopeRole
<1>4. {"employee", "owner"} \subseteq Sight!Fields("payslip")
  BY DEF Sight!Fields, Sight!Personal
<1>5. B # {} /\ r \in Sight!By(Sight!Widest(B), "payslip")
  BY <1>1, <1>3, <1>4 DEF Sight!Seen, Sight!Visible
<1>6. Sight!Widest(B) \in {"none", "own_record"}
  <2>1. B \in SUBSET AnyStrategy
    BY <1>3 DEF AnyStrategy
  <2> QED BY <1>3, <1>5, <2>1, WidestIs
<1>7. r \in Sight!By("own_record", "payslip")
  BY <1>5, <1>6, Strategies
<1>8. IF Sight!Self # None THEN r.employee = Sight!Self ELSE r.owner = Actor
  BY <1>4, <1>7, Strategies
<1> QED BY <1>8, ScopeSizes DEF Sight!Self

LEMMA ScopesFollow ==
  ASSUME ScopesInv, Builds = TRUE, Moves = FALSE
  PROVE  Sight!ScopesHold
<1>1. Rooted
  BY DEF ScopesInv
<1> QED BY <1>1, SubtreeFollows, MoreRolesFollow, PayslipsFollow DEF Sight!ScopesHold

-----------------------------------------------------------------------------
(* The parts together.                                                     *)

(* What is done to payroll, leave and personnel leaves the rows of         *)
(* organisations, roles and the chart alone.                               *)
LEMMA TheirRows ==
  [PeopleNext]_allVars =>
    [Firms!Next]_orgVars /\ [Catalogue!Next]_roleVars /\ [Sight!Next]_scopeVars
<1>1. CASE UNCHANGED allVars
  BY <1>1 DEF allVars
<1>2. ASSUME WorkNext PROVE [Firms!Next]_orgVars
  BY <1>2, LookedAt DEF WorkNext, Firms!Next
<1>3. CASE PeopleNext
  BY <1>2, <1>3 DEF PeopleNext
<1> QED BY <1>1, <1>3

PeopleTyped == PayrollTyped /\ LeaveTyped /\ StaffTyped /\ OrgInv /\ RolesInv /\ ScopesInv

LEMMA PeopleTypesFollow == PeopleTyped => PeopleTypeOK
<1> SUFFICES ASSUME PeopleTyped PROVE PeopleTypeOK
  OBVIOUS
<1>1. PayrollTypeOK /\ Holidays!LeaveTypeOK /\ Crew!StaffTypeOK
  BY StaffTypedFollows DEF PeopleTyped, PayrollTyped, LeaveTyped
<1>2. Firms!OrganisationsTypeOK /\ Catalogue!RolesTypeOK /\ Sight!ScopesTypeOK
  BY OrgFollows DEF PeopleTyped, RolesInv, ScopesInv
<1> QED BY <1>1, <1>2 DEF PeopleTypeOK

(* PeopleTypeOK: the columns of payroll, leave, personnel, organisations,  *)
(* roles and the org chart keep their types, however their requests        *)
(* interleave.                                                             *)
THEOREM PeopleTypes == PeopleSpec => []PeopleTypeOK
<1>1. PeopleInit => PeopleTyped
  BY PayrollBegin, LeaveBegins, StaffBegins, OrgBegins, RolesBegin, ScopesBegin
     DEF PeopleInit, PeopleTyped, PayrollInv, LeaveInv, StaffInv
<1>2. PeopleTyped /\ [PeopleNext]_allVars => PeopleTyped'
  BY OwnRows, TheirRows, TypedStep, LeaveTypedStep, StaffTypedStep, OrgStep, RolesStep, ScopesStep
     DEF PeopleTyped
<1>3. PeopleTyped => PeopleTypeOK
  BY PeopleTypesFollow
<1> QED BY <1>1, <1>2, <1>3, PTL DEF PeopleSpec

(* OrganisationsStand (core/services/bootstrap.py, iam/services/abac.py,   *)
(* iam/management): where settings have one editor, the chart is built     *)
(* with its paths and departments stay where they are, an organisation is  *)
(* founded whole and alone, roles are those of the release and of their    *)
(* edits, and what somebody sees is the branch he manages, never less for  *)
(* another role, and of payslips his own, or, without an employee record,  *)
(* those he calculated.                                                    *)
THEOREM OrganisationsStay ==
  OneOfficer = TRUE /\ Builds = TRUE /\ Moves = FALSE => (PeopleSpec => []OrganisationsStand)
<1> SUFFICES ASSUME OneOfficer = TRUE, Builds = TRUE, Moves = FALSE PROVE PeopleSpec => []OrganisationsStand
  OBVIOUS
<1> DEFINE Inv == OrgInv /\ RolesInv /\ ScopesInv
<1>1. PeopleInit => Inv
  BY OrgBegins, RolesBegin, ScopesBegin DEF PeopleInit
<1>2. Inv /\ [PeopleNext]_allVars => Inv'
  BY TheirRows, OrgStep, RolesStep, ScopesStep
<1>3. Inv => OrganisationsStand
  BY OrgFollows, RolesFollow, ScopesFollow DEF OrganisationsStand, Firms!OrganisationsStand
<1> HIDE DEF Inv
<1> QED BY <1>1, <1>2, <1>3, PTL DEF PeopleSpec
===============================================================================
