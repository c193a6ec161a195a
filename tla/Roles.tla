--------------------------------- MODULE Roles ---------------------------------
(***************************************************************************)
(* The permission catalogue, the roles that a release ships, the roles an  *)
(* organisation makes of its own, and who holds which of them for how long *)
(* (iam/management/commands/seed_permissions.py, the role and assignment   *)
(* endpoints of iam/viewsets.py and iam/serializers.py).                   *)
(*                                                                         *)
(* A deploy seeds a file in one transaction: every declared permission and *)
(* role is written, a grant the file dropped is removed, and --prune also  *)
(* deletes what the file no longer names, from custom roles too.  A role   *)
(* that somebody holds protects itself: then the whole run is undone.      *)
(***************************************************************************)
EXTENDS Integers, FiniteSets, Sequences

CONSTANTS
  Permission, SystemRole, CustomRole, Member, Desk,
  File,       \* the permissions.json of each release: its permissions and roles
  OneDesk,    \* are custom roles changed one request at a time?
  LastDay, MaxGrants

Role    == SystemRole \cup CustomRole
Day     == 0 .. LastDay
Forever == LastDay + 1

RolesConstantsOK ==
  /\ SystemRole \cap CustomRole = {} /\ SystemRole # {} /\ LastDay \in Nat /\ MaxGrants \in Nat
  /\ OneDesk \in BOOLEAN /\ IsFiniteSet(Member)
  /\ \A f \in DOMAIN File : /\ File[f].permissions \subseteq Permission
                            /\ DOMAIN File[f].roles \subseteq SystemRole

VARIABLES
  known,     \* the permission rows
  roles,     \* each role row and the permissions it bundles
  asked,     \* history: the list the last edit of a custom role sent
  grants,    \* the role assignments
  today,
  deployed,  \* the file that was seeded last; 0 before the first
  ws         \* the request of each desk

vars == <<known, roles, asked, grants, today, deployed, ws>>

RoleRow == [there : BOOLEAN, permissions : SUBSET Permission]
Grant   == [role : Role, member : Member, from : Day, until : Day \cup {Forever}]

NoRole == [there |-> FALSE, permissions |-> {}]
Bundle(permissions) == [there |-> TRUE, permissions |-> permissions]

(* What a request holds: what it does, the role it read, the list it       *)
(* writes, and whether it sends a list at all.                             *)
Idle == [does |-> "nothing", role |-> CHOOSE r \in Role : TRUE, list |-> {}, sent |-> FALSE]

Held(r)  == \E g \in grants : g.role = r
Alone(w) == OneDesk => \A v \in Desk : ws[v] = Idle

-----------------------------------------------------------------------------
(* Seeding.                                                                *)

(* A role that grants an undeclared permission stops the command.          *)
Consistent(file) == \A r \in DOMAIN file.roles : file.roles[r] \subseteq file.permissions

(* PROTECT on RoleAssignment.role.                                         *)
Undeclared(file) == {r \in SystemRole \ DOMAIN file.roles : roles[r].there}
MayPrune(file)   == \A r \in Undeclared(file) : ~Held(r)

Seeded(file, prune) == [r \in Role |->
  CASE r \in DOMAIN file.roles -> Bundle(file.roles[r])
    [] r \in SystemRole \ DOMAIN file.roles /\ prune -> NoRole
    [] r \in CustomRole /\ prune -> [roles[r] EXCEPT !.permissions = @ \cap file.permissions]
    [] OTHER -> roles[r]]

Deploy(f, prune) ==
  /\ Consistent(File[f]) /\ (prune => MayPrune(File[f]))
  /\ known' = IF prune THEN File[f].permissions ELSE known \cup File[f].permissions
  /\ roles' = Seeded(File[f], prune)
  /\ deployed' = f
  /\ UNCHANGED <<asked, grants, today, ws>>

-----------------------------------------------------------------------------
(* Custom roles.  A request reads the role, decides, and then writes.      *)

Create(r, list) ==
  /\ ~roles[r].there /\ list \subseteq known
  /\ roles' = [roles EXCEPT ![r] = Bundle(list)]
  /\ asked' = [asked EXCEPT ![r] = list]
  /\ UNCHANGED <<known, grants, today, deployed, ws>>

BeginEdit(w, r, list, sent) ==
  /\ ws[w] = Idle /\ Alone(w)
  /\ r \in CustomRole /\ roles[r].there   \* a system role is not edited
  /\ ws' = [ws EXCEPT ![w] = [does |-> "edit", role |-> r, list |-> list, sent |-> sent]]
  /\ UNCHANGED <<known, roles, asked, grants, today, deployed>>

(* _sync_permissions: the rows that are not wanted go, the missing come.   *)
Synced(permissions, wanted) == (permissions \cap wanted) \cup (wanted \ permissions)

(* save() updates the row, which locks it, and inserts it when it is gone; *)
(* an unknown permission refuses the list.                                 *)
Save(w) ==
  LET e == ws[w] IN
  /\ e.does = "edit" /\ (e.sent => e.list \subseteq known)
  /\ roles' = [roles EXCEPT ![e.role] =
                 Bundle(IF e.sent THEN Synced(@.permissions, e.list) ELSE @.permissions)]
  /\ asked' = IF e.sent THEN [asked EXCEPT ![e.role] = e.list] ELSE asked
  /\ ws' = [ws EXCEPT ![w] = Idle]
  /\ UNCHANGED <<known, grants, today, deployed>>

BeginDelete(w, r) ==
  /\ ws[w] = Idle /\ Alone(w)
  /\ r \in CustomRole /\ roles[r].there /\ ~Held(r)
  /\ ws' = [ws EXCEPT ![w] = [Idle EXCEPT !.does = "delete", !.role = r]]
  /\ UNCHANGED <<known, roles, asked, grants, today, deployed>>

Delete(w) ==
  /\ ws[w].does = "delete" /\ ~Held(ws[w].role)
  /\ roles' = [roles EXCEPT ![ws[w].role] = NoRole]
  /\ asked' = [asked EXCEPT ![ws[w].role] = {}]
  /\ ws' = [ws EXCEPT ![w] = Idle]
  /\ UNCHANGED <<known, grants, today, deployed>>

Refuse(w) ==
  /\ ws[w] # Idle
  /\ ws' = [ws EXCEPT ![w] = Idle]
  /\ UNCHANGED <<known, roles, asked, grants, today, deployed>>

-----------------------------------------------------------------------------
(* Role assignments.                                                       *)

InOrder(g) == g.from < g.until   \* ck_assignment_validity_order

Assign(g) ==
  /\ roles[g.role].there /\ InOrder(g) /\ Cardinality(grants) < MaxGrants
  /\ grants' = grants \cup {g}
  /\ UNCHANGED <<known, roles, asked, today, deployed, ws>>

Amend(g, from, until) ==
  /\ g \in grants /\ InOrder([g EXCEPT !.from = from, !.until = until])
  /\ grants' = (grants \ {g}) \cup {[g EXCEPT !.from = from, !.until = until]}
  /\ UNCHANGED <<known, roles, asked, today, deployed, ws>>

Revoke(g) ==
  /\ g \in grants /\ grants' = grants \ {g}
  /\ UNCHANGED <<known, roles, asked, today, deployed, ws>>

Tick == today < LastDay /\ today' = today + 1
        /\ UNCHANGED <<known, roles, asked, grants, deployed, ws>>

Init ==
  /\ known = {} /\ roles = [r \in Role |-> NoRole] /\ asked = [r \in CustomRole |-> {}]
  /\ grants = {} /\ today = 0 /\ deployed = 0 /\ ws = [w \in Desk |-> Idle]

Next ==
  \/ \E f \in DOMAIN File, prune \in BOOLEAN : Deploy(f, prune)
  \/ \E r \in CustomRole, list \in SUBSET Permission :
       \/ Create(r, list)
       \/ \E w \in Desk : BeginEdit(w, r, list, TRUE) \/ BeginEdit(w, r, {}, FALSE)
  \/ \E w \in Desk : \/ Save(w) \/ Delete(w) \/ Refuse(w)
                     \/ \E r \in CustomRole : BeginDelete(w, r)
  \/ \E g \in Grant : Assign(g)
  \/ \E g \in grants : Revoke(g) \/ \E from \in Day, until \in Day \cup {Forever} : Amend(g, from, until)
  \/ Tick

-----------------------------------------------------------------------------
(* _load_effective_permissions: what the roles held today bundle.          *)
InForce(g)   == g.from <= today /\ today < g.until
Effective(m) == UNION {roles[g.role].permissions : g \in {h \in grants : h.member = m /\ InForce(h)}}

(* Every variable has the values its columns can hold.                     *)
RolesTypeOK ==
  /\ known \subseteq Permission /\ roles \in [Role -> RoleRow] /\ grants \subseteq Grant
  /\ asked \in [CustomRole -> SUBSET Permission] /\ today \in Day
  /\ \A w \in Desk : ws[w].does \in {"nothing", "edit", "delete"} /\ ws[w].role \in Role

(* Whatever was deployed before, in whatever order and with or without     *)
(* --prune, a shipped role is what the file seeded last says, and no edit  *)
(* touched it (iam/serializers.py:349-354).                                *)
SystemRolesAreTheRelease == deployed > 0 => \A r \in DOMAIN File[deployed].roles :
  roles[r] = Bundle(File[deployed].roles[r])

(* A release takes permissions from a custom role but gives it none: it    *)
(* holds at most what its last edit asked for (iam/models.py:212-216).     *)
CustomRolesAreTheirEdits == \A r \in CustomRole : roles[r].permissions \subseteq asked[r]

(* No grant outlives its role, no role bundles a permission that is gone,  *)
(* and so everything somebody may do is in the catalogue.                  *)
NothingDangles ==
  /\ \A g \in grants : roles[g.role].there
  /\ \A r \in Role : roles[r].permissions \subseteq known /\ (roles[r].permissions # {} => roles[r].there)
  /\ \A m \in Member : Effective(m) \subseteq known

RolesStand == SystemRolesAreTheRelease /\ CustomRolesAreTheirEdits /\ NothingDangles

(* A custom role that was deleted stays deleted: not when an edit of it    *)
(* was under way, for save() then inserts the row again.                   *)
DeletedStays == [][\A w \in Desk : Save(w) => roles[ws[w].role].there]_vars
===============================================================================
