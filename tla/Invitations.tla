------------------------------ MODULE Invitations ------------------------------
(***************************************************************************)
(* The invitations of one address into one organisation                    *)
(* (iam/services/invitations.py): they are made, sent again, revoked and   *)
(* accepted, and carry the inactive membership and its role along.         *)
(*                                                                         *)
(* No row is locked before it is written: a request is the action that     *)
(* reads and the action that writes and commits, where the unique index,   *)
(* the CHECK, the foreign keys and the row counts of the database refuse   *)
(* what no longer fits.                                                    *)
(***************************************************************************)
EXTENDS Integers, FiniteSets

CONSTANTS
  Offer, Worker,
  MaxSent,  \* how often an invitation is sent
  OneDesk   \* are the requests served one at a time?

InvitationsConstantsOK ==
  IsFiniteSet(Offer) /\ MaxSent \in Nat \ {0} /\ OneDesk \in BOOLEAN

VARIABLES
  offer,    \* [status, secret, late, used] of each invitation
  member,   \* the membership of the address
  granted,  \* does it hold the invited role?
  ws        \* the request of each worker

vars == <<offer, member, granted, ws>>

(* The EXPIRED that accept_invitation writes is rolled back by the refusal *)
(* it raises in the same transaction: no row ever expires.  secret counts  *)
(* the tokens minted, used is the one an invitee came in with.             *)
Status    == {"absent", "pending", "accepted", "revoked"}
OfferRow  == [status : Status, secret : 0..MaxSent, late : BOOLEAN, used : 0..MaxSent]
(* invited and left are inactive; who left has accepted once.              *)
Membership == {"absent", "invited", "active", "left"}

Idle == [verb |-> "idle", on |-> {}, secret |-> 0, member |-> "absent"]

Is(s)    == {i \in Offer : offer[i].status = s}
Alone(w) == OneDesk => \A v \in Worker \ {w} : ws[v].verb = "idle"
Read(w, verb, on, secret) ==
  /\ ws[w].verb = "idle" /\ Alone(w)
  /\ ws' = [ws EXCEPT ![w] = [verb |-> verb, on |-> on, secret |-> secret, member |-> member]]
  /\ UNCHANGED <<offer, member, granted>>
Serves(w, verb) == ws[w].verb = verb /\ ws' = [ws EXCEPT ![w] = Idle]

-----------------------------------------------------------------------------
(* create_invitation: what is pending is superseded, whatever became of it *)
(* meanwhile.  An accepted row fails ck_invitation_accepted_at..., another *)
(* pending one uq_invitation_one_pending_per_email, and the role needs the *)
(* membership it was given to.                                             *)
ReadCreate(w) == member # "active" /\ Read(w, "create", Is("pending"), 0)

Create(w) == LET old == ws[w].on IN \E i \in Is("absent") :
  /\ Serves(w, "create")
  /\ old \cap Is("accepted") = {} /\ Is("pending") \subseteq old
  /\ ws[w].member = "absent" <=> member = "absent"
  /\ offer' = [j \in Offer |->
       IF j = i THEN [status |-> "pending", secret |-> 1, late |-> FALSE, used |-> 0]
       ELSE IF j \in old THEN [offer[j] EXCEPT !.status = "revoked"] ELSE offer[j]]
  /\ member' = IF member = "absent" THEN "invited" ELSE member
  /\ granted' = TRUE

(* resend_invitation: a new secret and a new deadline.                     *)
ReadResend(w) == \E i \in Is("pending") : Read(w, "resend", {i}, 0)

Resend(w) == \E i \in ws[w].on :
  /\ Serves(w, "resend") /\ offer[i].secret < MaxSent
  /\ offer' = [offer EXCEPT ![i] = [offer[i] EXCEPT !.secret = offer[i].secret + 1, !.late = FALSE]]
  /\ UNCHANGED <<member, granted>>

(* revoke_invitation: the offer, and a membership nobody accepted.         *)
ReadRevoke(w) == \E i \in Is("pending") : Read(w, "revoke", {i}, 0)

Unaccepted(m) == m = "invited"

Revoke(w) == \E i \in ws[w].on :
  /\ Serves(w, "revoke") /\ offer[i].status # "accepted"
  /\ offer' = [offer EXCEPT ![i] = [offer[i] EXCEPT !.status = "revoked"]]
  /\ member' = IF Unaccepted(member) THEN "absent" ELSE member
  /\ granted' = (granted /\ ~Unaccepted(member))

(* accept_invitation: signature, secret, status and deadline are those of  *)
(* the row it loaded; the membership is looked up and activated later.     *)
ReadAccept(w) == \E i \in Is("pending") : ~offer[i].late /\ Read(w, "accept", {i}, offer[i].secret)

Accept(w) == \E i \in ws[w].on :
  /\ Serves(w, "accept") /\ member # "absent"
  /\ offer' = [offer EXCEPT ![i] = [offer[i] EXCEPT !.status = "accepted", !.used = ws[w].secret]]
  /\ member' = "active"
  /\ UNCHANGED granted

(* A request that is refused, or dies.                                     *)
GiveUp(w) ==
  /\ ws[w].verb # "idle"
  /\ ws' = [ws EXCEPT ![w] = Idle]
  /\ UNCHANGED <<offer, member, granted>>

(* deactivate_member of team.py, and the deadline.                         *)
Offboard == member = "active" /\ member' = "left" /\ UNCHANGED <<offer, granted, ws>>

Late(i) ==
  /\ offer[i].status = "pending" /\ ~offer[i].late
  /\ offer' = [offer EXCEPT ![i] = [offer[i] EXCEPT !.late = TRUE]]
  /\ UNCHANGED <<member, granted, ws>>

Init ==
  /\ offer = [i \in Offer |-> [status |-> "absent", secret |-> 0, late |-> FALSE, used |-> 0]]
  /\ member = "absent" /\ granted = FALSE /\ ws = [w \in Worker |-> Idle]

Next ==
  \/ \E w \in Worker :
       \/ ReadCreate(w) \/ ReadResend(w) \/ ReadRevoke(w) \/ ReadAccept(w)
       \/ Create(w) \/ Resend(w) \/ Revoke(w) \/ Accept(w) \/ GiveUp(w)
  \/ Offboard \/ \E i \in Offer : Late(i)

Spec == Init /\ [][Next]_vars

-----------------------------------------------------------------------------
(* Every variable has the values its columns can hold.                     *)
InvitationsTypeOK ==
  /\ offer \in [Offer -> OfferRow] /\ member \in Membership /\ granted \in BOOLEAN
  /\ \A w \in Worker : /\ ws[w].verb \in {"idle", "create", "resend", "revoke", "accept"}
                       /\ ws[w].on \subseteq Offer

(* However requests interleave, a membership nobody accepted stands for an *)
(* offer that is still open, whoever came in keeps the row that proves it, *)
(* and a role is held by a membership only.                                *)
TracesAgree ==
  /\ member = "invited" => Is("pending") # {}
  /\ Is("accepted") # {} => member \in {"active", "left"}
  /\ granted <=> member # "absent"

(* The comment on ALLOWED_TRANSITIONS, iam/models.py:427: a pending        *)
(* invitation is the only state anything may move out of.                  *)
EndedStaysEnded == [][\A i \in Offer :
  offer[i].status \in {"accepted", "revoked"} => offer'[i].status = offer[i].status]_offer

(* The docstring of resend_invitation, invitations.py:288: sending again   *)
(* leaves no two live links.                                               *)
OldLinkIsDead == \A i \in Is("accepted") : offer[i].used = offer[i].secret

(* The docstring of Invitation, iam/models.py:399: the membership is there *)
(* from the moment the offer is made.                                      *)
PendingCanBeAccepted == Is("pending") # {} => member # "absent"
================================================================================
