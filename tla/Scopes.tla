-------------------------------- MODULE Scopes --------------------------------
(***************************************************************************)
(* Which rows somebody's roles let him see (iam/services/abac.py), while   *)
(* the org chart, his own employment, his projects and his roles change.   *)
(*                                                                         *)
(* A role narrows a resource by a strategy: his own record, his            *)
(* department, the branch below it, his projects, his reports.  Of several *)
(* roles the one with the widest strategy decides.  The branch is found by *)
(* the prefix of Department.path, which is stored and built from the       *)
(* parent's path once.                                                     *)
(***************************************************************************)
EXTENDS Integers, SequencesExt

CONSTANTS
  Department, Employee, Project, Resource,
  Actor,    \* the employee whose user is looking
  Rule,     \* [role -> [resource -> strategy]], the scopes of permissions.json
  Rank,     \* [role -> number], 0 for the owner
  Builds,   \* does whoever adds a department build its path?
  Moves,    \* are departments moved?
  Boss,     \* whom each employee reports to
  None

ScopeRole == DOMAIN Rule

VARIABLES
  parent,   \* of each department; itself while it does not exist
  path,     \* the codes from the root down, empty when never built
  place,    \* the department of each employee
  team,     \* who is an active member of which project
  linked,   \* is the actor's membership linked to his employee record?
  held      \* the role assignments in force, with the department they name

vars == <<parent, path, place, team, linked, held>>

There(d)   == parent[d] # d
OrNone(S)  == S \cup {None}
Placeable  == OrNone({d \in Department : There(d)})

(* SCOPE_FIELDS: the columns that a resource can be narrowed by; owner is  *)
(* created_by unless it is named.  For employees and departments it is the *)
(* id of the row itself, which is no user's, so no row has that owner.     *)
Personal == {"employee", "department", "manager"}
Fields(resource) ==
  CASE resource = "employee" -> Personal
    [] resource \in {"payslip", "leave_request", "leave_balance", "attendance", "document"} ->
         Personal \cup {"owner"}
    [] resource \in {"expense", "timesheet_entry"} -> Personal \cup {"owner", "project"}
    [] resource = "department" -> {"department"}
    [] resource \in {"project", "journal_entry"} -> {"owner", "project", "department"}
    [] resource \in {"task", "invoice", "credit_note"} -> {"owner", "project"}
    [] resource \in {"payroll_run", "customer", "payment", "refund", "bill", "vendor",
                     "stock_movement", "adjustment", "item"} -> {"owner"}
    [] OTHER -> {}

(* The row of a resource that the user of c created, about the employee e  *)
(* and for a project p: payslips are those of the officer who calculated   *)
(* them.                                                                   *)
RowOf(c, e, p) ==
  [owner |-> c, employee |-> e, department |-> place[e], manager |-> Boss[e], project |-> p]
Rows(resource) ==
  IF resource = "department" THEN {[department |-> d] : d \in {d \in Department : There(d)}}
  ELSE {RowOf(c, e, p) : c \in Employee, e \in Employee,
                         p \in IF "project" \in Fields(resource) THEN OrNone(Project) ELSE {None}}

-----------------------------------------------------------------------------
(* The facts about the actor.                                              *)

Self       == IF linked THEN Actor ELSE None
OwnPlace   == IF linked THEN place[Actor] ELSE None
PathOf(d)  == IF d = None THEN <<>> ELSE path[d]
OwnProject == IF linked THEN {p \in Project : <<Actor, p>> \in team} ELSE {}
NamedPaths == {PathOf(h.department) : h \in held} \ {<<>>}
Roles      == {h.role : h \in held}
Leads(rs)  == \E r \in rs : Rank[r] = 0   \* rank is the lowest of the roles

Breadth == [none |-> 0, own_record |-> 1, own_department |-> 2, managed_employees |-> 2,
            assigned_projects |-> 3, scoped_department |-> 4, department_subtree |-> 5, all |-> 6]

(* In permissions.json the strategies of one resource form a chain from    *)
(* narrow to wide, a resource that nothing narrows has no rule, there is   *)
(* one owner, and payslips of others are for hr_manager.                   *)
Chains(resource) ==
  {{"none", "own_record", "all"}, {"none", "assigned_projects", "all"}}
  \cup (IF "department" \in Fields(resource)
        THEN {{"none", "own_department", "department_subtree", "all"}} ELSE {})
  \cup (IF {"employee", "department"} \subseteq Fields(resource)
        THEN {{"none", "own_record", "department_subtree", "all"}} ELSE {})
ScopesConstantsOK ==
  /\ None \notin Department /\ None \notin Employee /\ Actor \in Employee /\ {Builds, Moves} \subseteq BOOLEAN
  /\ \A resource \in Resource :
       LET used == {Rule[r][resource] : r \in {q \in ScopeRole : resource \in DOMAIN Rule[q]}} IN
       /\ \E chain \in Chains(resource) : used \subseteq chain
       /\ Fields(resource) = {} => used = {}
  /\ \A r \in ScopeRole \ {"owner", "hr_manager"} :
       Rank[r] # 0 /\ ("payslip" \in DOMAIN Rule[r] => Rule[r]["payslip"] \in {"none", "own_record"})

Ruling(rs, resource) == {Rule[r][resource] : r \in {q \in rs : resource \in DOMAIN Rule[q]}}
Widest(strategies)   == CHOOSE s \in strategies : \A t \in strategies : Breadth[t] <= Breadth[s]

-----------------------------------------------------------------------------
(* build_scope_q.                                                          *)

Below(d, paths) == \E q \in paths : IsPrefix(q, PathOf(d))

By(strategy, resource) == LET columns == Fields(resource) IN
  CASE strategy = "all" -> Rows(resource)
    [] strategy = "own_record" -> {r \in Rows(resource) :
         IF "employee" \in columns /\ Self # None THEN r.employee = Self
         ELSE "owner" \in columns /\ r.owner = Actor}
    [] "department" \in columns /\ strategy = "own_department" /\ OwnPlace # None ->
         {r \in Rows(resource) : r.department = OwnPlace}
    [] "department" \in columns /\ strategy = "department_subtree" /\ PathOf(OwnPlace) # <<>> ->
         {r \in Rows(resource) : Below(r.department, {PathOf(OwnPlace)})}
    [] "department" \in columns /\ strategy = "scoped_department" ->
         {r \in Rows(resource) : Below(r.department, NamedPaths)}
    [] "project" \in columns /\ strategy = "assigned_projects" ->
         {r \in Rows(resource) : r.project \in OwnProject}
    [] "manager" \in columns /\ strategy = "managed_employees" /\ Self # None ->
         {r \in Rows(resource) : r.manager = Self \/ r.employee = Self}
    [] OTHER -> {}

(* Without a rule the owner sees all, and so does everybody of a resource  *)
(* that has nothing to narrow it by.                                       *)
Visible(rs, resource) ==
  IF Ruling(rs, resource) # {} THEN By(Widest(Ruling(rs, resource)), resource)
  ELSE IF Leads(rs) \/ Fields(resource) = {} THEN Rows(resource) ELSE {}

Seen(resource) == Visible(Roles, resource)

-----------------------------------------------------------------------------
(* The chart.                                                              *)

BuildPath(d, p) == (IF p = None THEN <<>> ELSE path[p]) \o <<d>>

AddDepartment(d, p) ==
  /\ ~There(d) /\ p # d
  /\ parent' = [parent EXCEPT ![d] = p]
  /\ path' = IF Builds THEN [path EXCEPT ![d] = BuildPath(d, p)] ELSE path
  /\ UNCHANGED <<place, team, linked, held>>

(* A PATCH of the parent; path is not a field that a client writes.        *)
Move(d, p) ==
  /\ Moves /\ There(d) /\ p # d /\ p # parent[d]
  /\ parent' = [parent EXCEPT ![d] = p]
  /\ UNCHANGED <<path, place, team, linked, held>>

Transfer(e, d) ==
  /\ place[e] # d /\ place' = [place EXCEPT ![e] = d]
  /\ UNCHANGED <<parent, path, team, linked, held>>

(* A membership of a project begins or ends.                               *)
Staff(e, p) ==
  /\ team' = IF <<e, p>> \in team THEN team \ {<<e, p>>} ELSE team \cup {<<e, p>>}
  /\ UNCHANGED <<parent, path, place, linked, held>>

Link == linked' = ~linked /\ UNCHANGED <<parent, path, place, team, held>>

(* A department named on the assignment matters to scoped_department only. *)
Give(r, d) ==
  /\ r \notin Roles
  /\ d # None => \E resource \in DOMAIN Rule[r] : Rule[r][resource] = "scoped_department"
  /\ held' = held \cup {[role |-> r, department |-> d]}
  /\ UNCHANGED <<parent, path, place, team, linked>>

Take(h) == held' = held \ {h} /\ UNCHANGED <<parent, path, place, team, linked>>

Init ==
  /\ parent = [d \in Department |-> d] /\ path = [d \in Department |-> <<>>]
  /\ place = [e \in Employee |-> None]
  /\ team = {} /\ linked = TRUE /\ held = {}

Next ==
  \/ \E d \in Department, p \in Placeable : AddDepartment(d, p) \/ Move(d, p)
  \/ \E e \in Employee, d \in Placeable : Transfer(e, d)
  \/ \E p \in Project : Staff(Actor, p)
  \/ Link
  \/ \E r \in ScopeRole, d \in Placeable : Give(r, d)
  \/ \E h \in held : Take(h)

-----------------------------------------------------------------------------
ScopesTypeOK ==
  /\ parent \in [Department -> OrNone(Department)] /\ path \in [Department -> Seq(Department)]
  /\ place \in [Employee -> OrNone(Department)]
  /\ team \subseteq Employee \X Project /\ linked \in BOOLEAN
  /\ \A h \in held : h.role \in ScopeRole /\ h.department \in OrNone(Department)

(* The chart by its parents alone: the departments of every set that holds *)
(* a and, with a department, those right below it.                         *)
Branch(a) == {d \in Department : There(d) /\ \A S \in SUBSET Department :
                a \in S /\ (\A x \in Department : parent[x] \in S => x \in S) => d \in S}

(* The prefix finds the branch of the chart, neither a department less nor *)
(* one more, for whoever manages it (hr/models.py:42-62).                  *)
SubtreeIsTheBranch == \A resource \in Resource : LET columns == Fields(resource) IN
  "department" \in columns /\ OwnPlace # None =>
    By("department_subtree", resource) = {r \in Rows(resource) : r.department \in Branch(OwnPlace)}

(* A strategy that counts as wider shows what the narrower one does, to    *)
(* somebody who has a place; so another role takes nothing away            *)
(* (iam/permissions.py:163-165).  The owner is the exception: a narrower   *)
(* rule of a second role replaces having no rule.                          *)
Placed == linked /\ place[Actor] # None
MoreRolesMoreRows == \A fewer \in SUBSET Roles, resource \in Resource :
  Placed /\ ~Leads(Roles) =>
    Visible(fewer, resource) \subseteq Visible(Roles, resource)

(* Whoever sees the payslip of somebody else is the owner or in charge of  *)
(* personnel (permissions.json: what the other roles hold is their own),   *)
(* or has no employee record and calculated it: own_record is then what he *)
(* created, though the comment of _load_actor_facts, abac.py:173, says     *)
(* that he is denied.  With an employee record it is his own pay alone.    *)
PayslipsArePrivate == "payslip" \in Resource =>
  \A r \in Seen("payslip") :
    \/ Roles \cap {"owner", "hr_manager"} # {}
    \/ linked /\ r.employee = Actor
    \/ ~linked /\ r.owner = Actor

ScopesHold == SubtreeIsTheBranch /\ MoreRolesMoreRows /\ PayslipsArePrivate

(* A user without an employee record has no own_record identity, and every *)
(* strategy about employees denies him (the comment of _load_actor_facts,  *)
(* iam/services/abac.py:173).                                              *)
UnlinkedSeeNothing == ~linked /\ Roles \cap {"owner", "hr_manager"} = {} => Seen("payslip") = {}

(* An owner is never narrowed (the comment at iam/services/abac.py:257).   *)
OwnerSeesAll == \A resource \in Resource : Leads(Roles) => Seen(resource) = Rows(resource)
===============================================================================
