--------------------------------- MODULE Tenancy ---------------------------------
(***************************************************************************)
(* The binding of a tenant to work (core/tenancy_context.py,               *)
(* tenancy/middleware.py, core/tenancy_tasks.py and the task hooks of      *)
(* config/celery.py) over pooled database connections.                     *)
(*                                                                         *)
(* Two guards select rows: the policy of core/rls.py reads the settings of *)
(* the database session, and TenantManager the ContextVar of the worker.   *)
(* Settings are local to a transaction: a savepoint that is rolled back    *)
(* restores them, a COMMIT or ROLLBACK clears them, a savepoint that is    *)
(* released keeps them.  A connection returns to the pool with its         *)
(* transaction, and the next one may be another worker's.                  *)
(***************************************************************************)
EXTENDS Naturals, Sequences, FiniteSets, SequencesExt

CONSTANTS
  Tenant, User,
  Worker,      \* threads and task processes
  Connection,  \* sessions of the database, shared by the workers
  MaxDepth,    \* bound: blocks inside one another
  None         \* no tenant, nobody, no connection

ASSUME TenancyConstants ==
  /\ None \notin Tenant \cup User \cup Worker \cup Connection /\ MaxDepth \in Nat

VARIABLES
  member,   \* the active memberships
  session,  \* the settings of each connection and who uses it
  ws        \* the work of each worker

vars == <<member, session, ws>>

(* The work: its kind and step, its user, the tenant it asked for, the     *)
(* tenant it was admitted for, the ContextVar, the open blocks with what   *)
(* they restore, its connection, and the tenants whose rows it touched.    *)
Idle == [kind |-> "none", at |-> "idle", user |-> None, wants |-> None, granted |-> None,
         var |-> None, blocks |-> <<>>, conn |-> None, touched |-> {}]

Unset == [tenant |-> None, bypass |-> FALSE]
Free  == [user |-> None, now |-> Unset]

(* The policy: rows of the bound tenant, or all rows in a bypass.          *)
Visible(s) == IF s.bypass THEN Tenant ELSE {s.tenant} \ {None}

Inside(w)  == ws[w].conn # None
Now(w)     == session[ws[w].conn].now
InLookup(w) == ws[w].blocks # <<>> /\ Last(ws[w].blocks).kind = "lookup"

Acquire(c, w, settings) ==
  /\ session[c].user = None
  /\ session' = [session EXCEPT ![c] = [user |-> w, now |-> settings]]

SetLocal(c, settings) == session' = [session EXCEPT ![c] = [session[c] EXCEPT !.now = settings]]

\* Mutant: plain SET, which outlives the transaction.
ClearedKeeping(s) == [s EXCEPT !.user = None]

(* The end of a transaction clears what it has set.                        *)
Cleared(s) == Free

-----------------------------------------------------------------------------
(* Requests.                                                               *)

(* TenantMiddleware: the claim of the token, or the header, or the host; a *)
(* header that contradicts the claim is refused.                           *)
Arrive(w, u) == \E claim, header, host \in Tenant \cup {None} :
  /\ ws[w].at = "idle"
  /\ claim = None \/ header = None \/ claim = header
  /\ LET wants == IF claim # None THEN claim ELSE IF header # None THEN header ELSE host IN
     /\ wants # None
     /\ ws' = [ws EXCEPT ![w] = [Idle EXCEPT !.kind = "request", !.at = "arrived",
                                             !.user = u, !.wants = wants]]
  /\ UNCHANGED <<member, session>>

(* _active_membership: a transaction of its own in a bypass, and the row   *)
(* of this user and tenant.                                                *)
Admit(w) == LET t == ws[w].wants IN
  /\ ws[w].at = "arrived"
  /\ ws' = [ws EXCEPT ![w] = IF <<ws[w].user, t>> \in member
                             THEN [ws[w] EXCEPT !.at = "admitted", !.granted = t] ELSE Idle]
  /\ UNCHANGED <<member, session>>

(* The ContextVar and the transaction of the request.                      *)
Bind(w) == \E c \in Connection :
  /\ ws[w].at = "admitted"
  /\ Acquire(c, w, [tenant |-> ws[w].granted, bypass |-> FALSE])
  /\ ws' = [ws EXCEPT ![w] = [ws[w] EXCEPT !.at = "open", !.var = ws[w].granted, !.conn = c]]
  /\ UNCHANGED member

(* Login, signup and invitations: paths without a tenant.                  *)
ArriveExempt(w, u) == \E c \in Connection :
  /\ ws[w].at = "idle" /\ session[c].user = None
  /\ session' = [session EXCEPT ![c] = [session[c] EXCEPT !.user = w]]
  /\ ws' = [ws EXCEPT ![w] = [Idle EXCEPT !.kind = "exempt", !.at = "open", !.user = u,
                                          !.var = ws[w].var, !.conn = c]]
  /\ UNCHANGED member

-----------------------------------------------------------------------------
(* Tasks.  The header of a message names the tenant it was sent from.      *)
StartTask(w) == \E t \in Tenant \cup {None} :
  /\ ws[w].at = "idle"
  /\ ws' = [ws EXCEPT ![w] = [Idle EXCEPT !.kind = "task", !.at = "open", !.granted = t,
                                          !.var = IF t = None THEN ws[w].var ELSE t]]
  /\ UNCHANGED <<member, session>>

(* tenant_context: a transaction, or a savepoint in one.  A task works for *)
(* one tenant after another; an exempt path for the tenant it looked up.   *)
EnterTenant(w, t) == \E c \in Connection :
  /\ ws[w].at = "open" /\ ws[w].kind # "request" /\ ~InLookup(w)
  /\ Len(ws[w].blocks) < MaxDepth
  /\ ws[w].kind = "exempt" => ws[w].granted \in {None, t}
  /\ ws[w].kind = "task" => ws[w].blocks = <<>>
  /\ LET mine == IF Inside(w) THEN ws[w].conn ELSE c
         was  == IF Inside(w) THEN Now(w) ELSE Unset IN
     /\ IF Inside(w) THEN SetLocal(mine, [tenant |-> t, bypass |-> FALSE])
        ELSE Acquire(c, w, [tenant |-> t, bypass |-> FALSE])
     /\ ws' = [ws EXCEPT ![w] = [ws[w] EXCEPT !.conn = mine, !.var = t, !.granted = t, !.touched = {},
          !.blocks = Append(ws[w].blocks, [kind |-> "tenant", var |-> ws[w].var, was |-> was,
                                           outer |-> ~Inside(w)])]]
  /\ UNCHANGED member

(* The block ends: the outermost one with its transaction, an inner one by *)
(* RELEASE, which keeps the settings, or by ROLLBACK, which takes them     *)
(* back.  The ContextVar is always restored.                               *)
LeaveTenant(w) == \E fails \in BOOLEAN : LET block == Last(ws[w].blocks)  c == ws[w].conn IN
  /\ ws[w].blocks # <<>> /\ block.kind = "tenant"
  /\ IF block.outer THEN session' = [session EXCEPT ![c] = Cleared(session[c])]
     ELSE SetLocal(c, IF fails THEN block.was ELSE Now(w))
  /\ ws' = [ws EXCEPT ![w] = [ws[w] EXCEPT !.blocks = Front(ws[w].blocks), !.var = block.var,
                                !.conn = IF block.outer THEN None ELSE ws[w].conn]]
  /\ UNCHANGED member

(* cross_tenant_lookup, inside the transaction of the work.  Its reads     *)
(* name the user or the one row they look for.                             *)
EnterLookup(w) ==
  /\ ws[w].at = "open" /\ Inside(w) /\ Len(ws[w].blocks) < MaxDepth
  /\ SetLocal(ws[w].conn, [tenant |-> ws[w].var, bypass |-> TRUE])
  /\ ws' = [ws EXCEPT ![w] = [ws[w] EXCEPT !.blocks = Append(ws[w].blocks,
              [kind |-> "lookup", var |-> None, was |-> Now(w), outer |-> FALSE])]]
  /\ UNCHANGED member

AfterLookup(w) == [tenant |-> ws[w].var, bypass |-> FALSE]

LeaveLookup(w) == \E fails \in BOOLEAN :
  /\ InLookup(w)
  /\ SetLocal(ws[w].conn, IF fails THEN Last(ws[w].blocks).was ELSE AfterLookup(w))
  /\ ws' = [ws EXCEPT ![w] = [ws[w] EXCEPT !.blocks = Front(ws[w].blocks)]]
  /\ UNCHANGED member

-----------------------------------------------------------------------------
(* A statement on tenant rows, as far as the database lets it reach.       *)
Statement(w) ==
  /\ ws[w].at = "open" /\ Inside(w) /\ ~InLookup(w)
  /\ ws' = [ws EXCEPT ![w] = [ws[w] EXCEPT !.touched = ws[w].touched \cup Visible(Now(w))]]
  /\ UNCHANGED <<member, session>>

(* The work ends or raises: middleware and task hooks clear the ContextVar.*)
Finish(w) ==
  /\ ws[w].at # "idle"
  /\ session' = [c \in Connection |-> IF session[c].user = w THEN Cleared(session[c])
                                      ELSE session[c]]
  /\ ws' = [ws EXCEPT ![w] = Idle]
  /\ UNCHANGED member

Join(u, t)  == /\ member' = member \cup {<<u, t>>}
               /\ UNCHANGED <<session, ws>>
Leave(u, t) == /\ member' = member \ {<<u, t>>}
               /\ UNCHANGED <<session, ws>>

Init ==
  /\ member \in SUBSET (User \X Tenant)
  /\ session = [c \in Connection |-> Free] /\ ws = [w \in Worker |-> Idle]

Next ==
  \/ \E w \in Worker :
       \/ Admit(w) \/ Bind(w) \/ StartTask(w) \/ LeaveTenant(w) \/ EnterLookup(w)
       \/ LeaveLookup(w) \/ Statement(w) \/ Finish(w)
       \/ \E u \in User : Arrive(w, u) \/ ArriveExempt(w, u)
       \/ \E t \in Tenant : EnterTenant(w, t)
  \/ \E u \in User, t \in Tenant : Join(u, t) \/ Leave(u, t)

Spec == Init /\ [][Next]_vars

-----------------------------------------------------------------------------
Setting == [tenant : Tenant \cup {None}, bypass : BOOLEAN]

(* Every variable has the values it can hold.                              *)
TenancyTypeOK ==
  /\ member \subseteq User \X Tenant
  /\ session \in [Connection -> [user : Worker \cup {None}, now : Setting]]
  /\ \A w \in Worker : /\ ws[w].conn \in Connection \cup {None} /\ ws[w].touched \subseteq Tenant
                       /\ ws[w].granted \in Tenant \cup {None} /\ ws[w].var \in Tenant \cup {None}
                       /\ Len(ws[w].blocks) <= MaxDepth

(* Work touches rows of the tenant it was admitted for and of no other,    *)
(* whichever connection the pool hands it, however blocks are nested and   *)
(* fail, and whatever ran on the worker before.                            *)
OnlyItsTenant == \A w \in Worker :
  /\ ws[w].touched \subseteq {ws[w].granted}
  /\ Inside(w) => ws[w].var \in {None, ws[w].granted}

(* The docstring of tenant_context, core/tenancy_context.py:75: the        *)
(* previous value is always restored, on both layers.                      *)
GuardsAgree == \A w \in Worker :
  Inside(w) /\ ~InLookup(w) => Now(w).tenant = ws[w].var
=============================================================================
