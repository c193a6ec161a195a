------------------------------ MODULE MCPlatform ------------------------------
(***************************************************************************)
(* Tenant binding, scheduled reports, membership and invitations, in small *)
(* instances for TLC.  A behaviour works in one part from its first state  *)
(* on: the modules share no rows.                                          *)
(***************************************************************************)
EXTENDS Tenancy, TLC

CONSTANTS
  Schedule, Cadence, Broken, Sweeper, MaxTime, MaxCrash,   \* the reports
  Person, Founder,  \* who may belong to the organisation
  Asker,            \* the workers that only ask what somebody may do
  OneDesk,          \* are changes of the team made one at a time?
  Offer, MaxSent,   \* the invitations
  s1, s2            \* two schedules

VARIABLES
  part,
  clock, next, sent, failures, lock, sweeps, crashes,
  roles, cache, team,
  offer, invited, granted, desk

scheduleVars == <<clock, next, sent, failures, lock, sweeps, crashes>>
teamVars     == <<roles, cache, team>>
offerVars    == <<offer, invited, granted, desk>>
allVars      == <<vars, part, scheduleVars, teamVars, offerVars>>

(* One schedule is due every tick and the other every second tick.         *)
Periods == s1 :> 1 @@ s2 :> 2

Reports == INSTANCE Schedules WITH
  Worker <- Sweeper, Exempt <- Sweeper, Lateness <- 2, Nobody <- None, ws <- sweeps

(* The endpoints of the team screen, where some workers make changes while *)
(* the others ask; and all endpoints that change memberships.              *)
Screen == INSTANCE Team WITH
  User <- Person, Doors <- {"team"}, member <- roles, ws <- team
AllDoors == INSTANCE Team WITH
  User <- Person, Doors <- {"team", "memberships", "assignments"}, member <- roles, ws <- team

Offers == INSTANCE Invitations WITH OneDesk <- FALSE, member <- invited, ws <- desk

ASSUME ReportsConstants == Reports!SchedulesConstantsOK
ASSUME TeamConstants    == Screen!TeamConstantsOK /\ AllDoors!TeamConstantsOK
ASSUME OffersConstants  == Offers!InvitationsConstantsOK

PlatformInit ==
  /\ part \in {"reports", "tenancy", "team", "doors", "offers"}
  /\ Init /\ Reports!Init /\ Screen!Init /\ Offers!Init
  /\ part # "reports" => next = [s \in Schedule |-> 0]
  /\ part # "tenancy" => member = {}

TeamNext ==
  \/ /\ part = "team" /\ Screen!Next
     /\ \A w \in Asker : ~Screen!Changing(w)'
  \/ /\ part = "doors" /\ AllDoors!Next
     /\ \A w \in Asker : team'[w].at = "idle"

PlatformNext == UNCHANGED part /\
  \/ part = "tenancy" /\ Next /\ UNCHANGED <<scheduleVars, teamVars, offerVars>>
  \/ part = "reports" /\ Reports!Next /\ UNCHANGED <<vars, teamVars, offerVars>>
  \/ TeamNext /\ UNCHANGED <<vars, scheduleVars, offerVars>>
  \/ part = "offers" /\ Offers!Next /\ UNCHANGED <<vars, scheduleVars, teamVars>>

(* What has begun goes on, in the part that is looked at.                  *)
PlatformSpec ==
  /\ PlatformInit /\ [][PlatformNext]_allVars
  /\ part = "reports" => Reports!Fairness
  /\ Screen!Fairness

-----------------------------------------------------------------------------
(* Every variable of the four modules has the values it can hold.          *)
PlatformTypeOK == /\ Reports!SchedulesTypeOK /\ TenancyTypeOK
                  /\ Screen!TeamTypeOK /\ Offers!InvitationsTypeOK

(* A report is delivered at most once for each time it was due.            *)
DeliveredOnce == Reports!DeliveredOnce

(* Somebody can always administer the organisation, through the team       *)
(* screen; and an invitation, its membership and its role stay together.   *)
MembersAgree == (part = "team" => Screen!AlwaysAnOwner) /\ Offers!TracesAgree

(* A report sweep comes to its end and leaves what it could generate moved *)
(* on; a role that is gone for good is, in the end, no longer served from  *)
(* the cache.                                                              *)
PlatformMovesOn == Reports!SweepsMoveOn /\ Screen!RevocationTakesHold
=============================================================================
