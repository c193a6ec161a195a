--------------------------------- MODULE Team ---------------------------------
(***************************************************************************)
(* Who belongs to an organisation and with what authority                  *)
(* (iam/services/team.py, and the endpoints of iam/viewsets.py that change *)
(* the same rows), and the cache of effective permissions that every       *)
(* request asks first (iam/permissions.py).                                *)
(*                                                                         *)
(* A request asks the cache; on a miss it reads the database and then      *)
(* stores what it read.  A verb reads the membership and counts the other  *)
(* owners without a lock, writes, drops the cache entry, and commits.  It  *)
(* drops the entry before COMMIT, so a request in between reads and stores *)
(* what is about to change.                                                *)
(***************************************************************************)
EXTENDS Integers, FiniteSets

CONSTANTS
  User, Worker,
  Founder,  \* the owner the organisation was created with
  Doors,    \* which endpoints are used: "team", "memberships", "assignments"
  OneDesk,  \* are changes made one at a time?
  None      \* nothing cached, no user

TeamConstantsOK ==
  /\ IsFiniteSet(User) /\ Founder \in User /\ None \notin User /\ OneDesk \in BOOLEAN
  /\ Doors \subseteq {"team", "memberships", "assignments"}

VARIABLES
  member,  \* the membership row and the role assignments of each user
  cache,   \* the roles cached of each user, and whether the entry expires
  ws       \* the request of each worker

vars == <<member, cache, ws>>

(* The two roles that hold the permissions of the verbs below: owner, of   *)
(* rank 0, and admin, of rank 10.                                          *)
Role      == {"owner", "admin"}
MemberRow == [active : BOOLEAN, is_owner : BOOLEAN, roles : SUBSET Role]
Outsider  == [active |-> FALSE, is_owner |-> FALSE, roles |-> {}]

(* What a request holds: the actor and the roles it was found to have, the *)
(* membership it changes, the row it read and the row it wants, and        *)
(* whether every column is written or only those that change.              *)
Idle     == [at |-> "idle", actor |-> None, held |-> {}, on |-> None,
             old |-> Outsider, new |-> Outsider, whole |-> FALSE]
Uncached == [roles |-> {None}, expires |-> TRUE]

Effective(u)   == IF member[u].active THEN member[u].roles ELSE {}
Owns(row)      == row.is_owner \/ "owner" \in row.roles

\* Mutant: a deactivated owner counts.
OtherOwnersAny(m) == {u \in User \ {m} : Owns(member[u])}
OtherOwners(m)    == {u \in User \ {m} : member[u].active /\ Owns(member[u])}

-----------------------------------------------------------------------------
(* effective_permissions: a hit, or the database.                          *)

Cached(roles) == [roles |-> roles, expires |-> TRUE]

Ask(w, u) ==
  /\ ws[w].at = "idle"
  /\ ws' = [ws EXCEPT ![w] = [ws[w] EXCEPT !.actor = u,
              !.at = IF cache[u] = Uncached THEN "loaded" ELSE "checked",
              !.held = IF cache[u] = Uncached THEN Effective(u) ELSE cache[u].roles]]
  /\ UNCHANGED <<member, cache>>

Store(w) ==
  /\ ws[w].at = "loaded"
  /\ cache' = [cache EXCEPT ![ws[w].actor] = Cached(ws[w].held)]
  /\ ws' = [ws EXCEPT ![w] = [ws[w] EXCEPT !.at = "checked"]]
  /\ UNCHANGED member

(* PERMISSION_CACHE_TTL runs out.                                          *)
Expire(u) ==
  /\ cache[u] # Uncached /\ cache[u].expires
  /\ cache' = [cache EXCEPT ![u] = Uncached]
  /\ UNCHANGED <<member, ws>>

-----------------------------------------------------------------------------
(* The verbs: may the request of w turn the membership m into row?         *)

(* assert_can_grant_role: strictly below the actor's rank; rank 0 may all. *)
MayGrant(held) == "owner" \in held

Grant(w, m, row) == \E r \in Role :
  /\ "team" \in Doors /\ MayGrant(ws[w].held)
  /\ row = [member[m] EXCEPT !.roles = member[m].roles \cup {r},
                            !.is_owner = member[m].is_owner \/ r = "owner"]

Revoke(w, m, row) == \E r \in member[m].roles :
  /\ "team" \in Doors /\ m # ws[w].actor /\ MayGrant(ws[w].held)
  /\ r = "owner" => OtherOwners(m) # {}
  /\ row = [member[m] EXCEPT !.roles = member[m].roles \ {r},
                            !.is_owner = member[m].is_owner /\ r # "owner"]

Deactivate(w, m, row) ==
  /\ "team" \in Doors /\ m # ws[w].actor
  /\ Owns(member[m]) => OtherOwners(m) # {}
  /\ row = [member[m] EXCEPT !.active = FALSE]

Activate(w, m, row) == "team" \in Doors /\ row = [member[m] EXCEPT !.active = TRUE]

(* PATCH of a membership, and its own deactivate verb: a billing owner is  *)
(* not deactivated.                                                        *)
Patch(w, m, row) == \E a, o \in BOOLEAN :
  /\ "memberships" \in Doors /\ (member[m].is_owner => a)
  /\ row = [member[m] EXCEPT !.active = a, !.is_owner = o]

(* POST and DELETE of a role assignment.                                   *)
Assign(w, m, row) == \E r \in Role :
  /\ "assignments" \in Doors /\ MayGrant(ws[w].held)
  /\ row = [member[m] EXCEPT !.roles = member[m].roles \cup {r}]

Unassign(w, m, row) == \E r \in member[m].roles :
  /\ "assignments" \in Doors
  /\ row = [member[m] EXCEPT !.roles = member[m].roles \ {r}]

Verb(w, m, row) ==
  \/ Grant(w, m, row) \/ Revoke(w, m, row) \/ Deactivate(w, m, row) \/ Activate(w, m, row)
  \/ Assign(w, m, row) \/ Unassign(w, m, row)

Changing(w) == ws[w].at \in {"decided", "written"}
Alone(w)    == OneDesk => \A v \in Worker : ~Changing(v)

(* The permission table lets both roles in, then the verb decides on what  *)
(* it reads.                                                               *)
Decide(w) == \E m \in User, row \in MemberRow, whole \in BOOLEAN :
  /\ ws[w].at = "checked" /\ ws[w].held # {} /\ Alone(w)
  /\ IF whole THEN Patch(w, m, row) ELSE Verb(w, m, row)
  /\ ws' = [ws EXCEPT ![w] = [ws[w] EXCEPT !.at = "decided", !.on = m, !.old = member[m],
                                           !.new = row, !.whole = whole]]
  /\ UNCHANGED <<member, cache>>

(* The UPDATE locks the row; the signal drops the cache entry.             *)
Write(w) ==
  /\ ws[w].at = "decided"
  /\ \A v \in Worker : ws[v].at = "written" => ws[v].on # ws[w].on
  /\ cache' = [cache EXCEPT ![ws[w].on] = Uncached]
  /\ ws' = [ws EXCEPT ![w] = [ws[w] EXCEPT !.at = "written"]]
  /\ UNCHANGED member

Written(row, old, new, whole) ==
  [active   |-> IF whole \/ new.active # old.active THEN new.active ELSE row.active,
   is_owner |-> IF whole \/ new.is_owner # old.is_owner THEN new.is_owner ELSE row.is_owner,
   roles    |-> (row.roles \cup (new.roles \ old.roles)) \ (old.roles \ new.roles)]

Commit(w) ==
  /\ ws[w].at = "written"
  /\ member' = [member EXCEPT ![ws[w].on] =
                   Written(member[ws[w].on], ws[w].old, ws[w].new, ws[w].whole)]
  /\ ws' = [ws EXCEPT ![w] = Idle]
  /\ UNCHANGED cache

(* A request that only reads, is refused, or dies.                         *)
Leave(w) ==
  /\ ws[w].at # "idle"
  /\ ws' = [ws EXCEPT ![w] = Idle]
  /\ UNCHANGED <<member, cache>>

Init ==
  /\ member = [u \in User |-> IF u = Founder
                 THEN [active |-> TRUE, is_owner |-> TRUE, roles |-> {"owner"}] ELSE Outsider]
  /\ cache = [u \in User |-> Uncached]
  /\ ws = [w \in Worker |-> Idle]

Next ==
  \/ \E w \in Worker : \/ \E u \in User : Ask(w, u)
                       \/ Store(w) \/ Decide(w) \/ Write(w) \/ Commit(w) \/ Leave(w)
  \/ \E u \in User : Expire(u)

(* Time passes; no request has to be made, or to end.                      *)
Fairness == \A u \in User : WF_vars(Expire(u))

Spec == Init /\ [][Next]_vars /\ Fairness

-----------------------------------------------------------------------------
(* Every variable has the values its columns can hold.                     *)
TeamTypeOK ==
  /\ member \in [User -> MemberRow]
  /\ cache \in [User -> [roles : SUBSET (Role \cup {None}), expires : BOOLEAN]]
  /\ \A w \in Worker : /\ ws[w].at \in {"idle", "loaded", "checked", "decided", "written"}
                       /\ ws[w].on \in User \cup {None}
                       /\ ws[w].old \in MemberRow /\ ws[w].new \in MemberRow

(* The module docstring of team.py, lines 14 to 20: the last active owner  *)
(* can be neither deactivated nor demoted, so somebody can always          *)
(* administer the organisation.                                            *)
AlwaysAnOwner == \E u \in User : member[u].active /\ Owns(member[u])

(* The time to live is the net under a dropped entry that was stored       *)
(* again: a role that is gone for good is, in the end, no longer served.   *)
RevocationTakesHold == \A u \in User, r \in Role :
  <>[](r \notin Effective(u)) => <>[](r \notin cache[u].roles)

(* The docstring of the deactivate verb, iam/viewsets.py:174: the change   *)
(* takes effect on the next request, rather than when the entry expires.   *)
NextRequestIsRefused == \A u \in User : cache[u] # Uncached => cache[u].roles \subseteq Effective(u)
===============================================================================
