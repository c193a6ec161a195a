-------------------------------- MODULE Schedules --------------------------------
(***************************************************************************)
(* Scheduled reports (reporting/tasks.py, run_scheduled_reports): a sweep  *)
(* reads the schedules that are due, and for each of them, in a tenant     *)
(* transaction of its own, moves next_run_at forward and then generates    *)
(* and stores the snapshot.  The move is part of that transaction, so a    *)
(* generation that fails, and a worker that dies, take it back.  The       *)
(* broker delivers a sweep again when its worker dies (acks_late), which   *)
(* is one more Sweep.                                                      *)
(*                                                                         *)
(* The query for due schedules runs with no tenant bound, and row-level    *)
(* security is forced on the table: only a role it does not bind sees a    *)
(* schedule there.  Nothing in the repository starts a sweep (the beat     *)
(* schedule has no entry for it), so that one begins is possible and never *)
(* owed.                                                                   *)
(***************************************************************************)
EXTENDS Integers, FiniteSets, Sequences, SequencesExt

CONSTANTS
  Schedule,  \* active schedules
  Cadence,   \* of each schedule, in ticks of the clock
  Broken,    \* the schedules whose report cannot be generated
  Worker,    \* the processes that run sweeps
  Exempt,    \* those whose database role row-level security does not bind
  Lateness,  \* MAX_SCHEDULE_LATENESS
  MaxTime,   \* bound of the clock
  MaxCrash,  \* bound: how often workers die
  Nobody     \* holder of a free row

SchedulesConstantsOK ==
  /\ IsFiniteSet(Schedule) /\ Broken \subseteq Schedule /\ Nobody \notin Worker
  /\ Exempt \subseteq Worker
  /\ Cadence \in [Schedule -> Nat \ {0}] /\ {Lateness, MaxTime, MaxCrash} \subseteq Nat

VARIABLES
  clock,
  next,      \* next_run_at of each schedule
  sent,      \* the snapshots of each schedule: how many for each due time
  failures,  \* the schedules with a recorded failure
  lock,      \* holder of the row of each schedule
  ws,        \* the sweep of each worker
  crashes    \* how often a worker has died

vars == <<clock, next, sent, failures, lock, ws, crashes>>

Idle == [at |-> "idle", now |-> 0, due |-> <<>>]
Head1(w) == Head(ws[w].due)
Rest(w)  == [ws EXCEPT ![w] = IF Len(ws[w].due) = 1 THEN Idle
                              ELSE [ws[w] EXCEPT !.at = "next", !.due = Tail(ws[w].due)]]

-----------------------------------------------------------------------------
(* The due schedules a sweep sees, with the times they were due at, oldest *)
(* first, and the time of the sweep.  One that sees none ends at once.     *)
Sweep(w) == LET due == {s \in Schedule : w \in Exempt /\ next[s] <= clock} IN
  /\ ws[w].at = "idle" /\ due # {}
  /\ \E q \in SetToSeqs(due) :
       /\ \A i, j \in DOMAIN q : i < j => next[q[i]] <= next[q[j]]
       /\ ws' = [ws EXCEPT ![w] = [at |-> "next", now |-> clock,
                   due |-> [i \in DOMAIN q |-> <<q[i], next[q[i]]>>]]]
  /\ UNCHANGED <<clock, next, sent, failures, lock, crashes>>

\* Mutant: the first time not before the sweep, which may be the due time.
AdvancedInclusive(from, by, now) ==
  LET later == {from + by * k : k \in 0..(MaxTime + 1)}
  IN CHOOSE t \in later : t >= now /\ \A u \in later : u >= now => t <= u

(* _advance_schedule: from the scheduled time, past the time of the sweep. *)
Advanced(from, by, now) ==
  LET later == {from + by * k : k \in 1..(MaxTime + 1)}
  IN CHOOSE t \in later : t > now /\ \A u \in later : u > now => t <= u

Stale(w) == ws[w].now - Head1(w)[2] > Lateness

(* A schedule that is long overdue is moved forward and not delivered.     *)
SkipStale(w) == LET s == Head1(w)[1] IN
  /\ ws[w].at = "next" /\ Stale(w) /\ lock[s] = Nobody
  /\ next' = [next EXCEPT ![s] = Advanced(next[s], Cadence[s], ws[w].now)]
  /\ ws' = Rest(w)
  /\ UNCHANGED <<clock, sent, failures, lock, crashes>>

(* The tenant transaction: the row is locked and moved, uncommitted.       *)
Advance(w) == LET s == Head1(w)[1] IN
  /\ ws[w].at = "next" /\ ~Stale(w) /\ lock[s] = Nobody
  /\ lock' = [lock EXCEPT ![s] = w]
  /\ ws' = [ws EXCEPT ![w] = [ws[w] EXCEPT !.at = "generate"]]
  /\ UNCHANGED <<clock, next, sent, failures, crashes>>

\* Mutant: the row stays locked when its transaction ends.
UnlockedNever(w) == lock

Unlocked(w) == [s \in Schedule |-> IF lock[s] = w THEN Nobody ELSE lock[s]]

(* The snapshot is stored and both become visible.                         *)
Deliver(w) == LET s == Head1(w)[1]  due == Head1(w)[2] IN
  /\ ws[w].at = "generate" /\ s \notin Broken
  /\ next' = [next EXCEPT ![s] = Advanced(next[s], Cadence[s], ws[w].now)]
  /\ sent' = [sent EXCEPT ![s] = [sent[s] EXCEPT ![due] = sent[s][due] + 1]]
  /\ lock' = Unlocked(w) /\ ws' = Rest(w)
  /\ UNCHANGED <<clock, failures, crashes>>

\* Mutant: a failure is not left behind, the sweep tries the schedule again.
FailAgain(w) ==
  /\ ws[w].at = "generate" /\ Head1(w)[1] \in Broken
  /\ failures' = failures \cup {Head1(w)[1]}
  /\ UNCHANGED <<clock, next, sent, lock, ws, crashes>>

(* The generator raises: the transaction is rolled back and the failure    *)
(* written in another one.                                                 *)
Fail(w) == LET s == Head1(w)[1] IN
  /\ ws[w].at = "generate" /\ s \in Broken
  /\ failures' = failures \cup {s}
  /\ lock' = Unlocked(w) /\ ws' = Rest(w)
  /\ UNCHANGED <<clock, next, sent, crashes>>

(* The worker dies.                                                        *)
Crash(w) ==
  /\ ws[w].at # "idle" /\ crashes < MaxCrash /\ crashes' = crashes + 1
  /\ lock' = Unlocked(w) /\ ws' = [ws EXCEPT ![w] = Idle]
  /\ UNCHANGED <<clock, next, sent, failures>>

Tick == clock < MaxTime /\ clock' = clock + 1 /\ UNCHANGED <<next, sent, failures, lock, ws, crashes>>

Init ==
  /\ clock = 0 /\ next \in [Schedule -> 0..1]
  /\ sent = [s \in Schedule |-> [t \in 0..MaxTime |-> 0]] /\ failures = {}
  /\ lock = [s \in Schedule |-> Nobody] /\ ws = [w \in Worker |-> Idle] /\ crashes = 0

Step(w) == SkipStale(w) \/ Advance(w) \/ Deliver(w) \/ Fail(w)

Next == Tick \/ \E w \in Worker : Sweep(w) \/ Step(w) \/ Crash(w)

(* A running sweep goes on, past every row another one lets go of.         *)
Fairness == \A w \in Worker : SF_vars(Step(w))

Spec == Init /\ [][Next]_vars /\ Fairness

-----------------------------------------------------------------------------
(* Every variable has the values its columns can hold, and the only row a  *)
(* sweep has locked is that of the report it is generating.                *)
SchedulesTypeOK ==
  /\ clock \in 0..MaxTime /\ crashes \in 0..MaxCrash
  /\ next \in [Schedule -> Nat] /\ failures \subseteq Schedule
  /\ sent \in [Schedule -> [0..MaxTime -> Nat]] /\ lock \in [Schedule -> Worker \cup {Nobody}]
  /\ \A s \in Schedule, w \in Worker :
       lock[s] = w <=> ws[w].at = "generate" /\ Head1(w)[1] = s

(* A report is delivered at most once for each time it was due, and only   *)
(* for times the schedule has left behind, though its worker may die at    *)
(* any point and the sweep be delivered again.                             *)
DeliveredOnce == \A s \in Schedule, t \in 0..MaxTime :
  /\ sent[s][t] <= 1
  /\ sent[s][t] > 0 => next[s] > t

(* A sweep comes to its end, and every schedule it has taken up is then    *)
(* past the time it was due at, or could not be generated, or a worker has *)
(* died: no failure of one schedule holds up those behind it.              *)
Taken(w, s, t) == <<s, t>> \in ToSet(ws[w].due)

SweepsMoveOn ==
  /\ \A w \in Worker : ws[w].at # "idle" ~> ws[w].at = "idle"
  /\ [][\A w \in Worker, s \in Schedule \ Broken, t \in 0..MaxTime :
          Taken(w, s, t) /\ ~Taken(w, s, t)' => next'[s] > t \/ crashes' > crashes]_vars

(* The docstring of run_scheduled_reports, reporting/tasks.py:103: the     *)
(* schedule must not be picked up again on the next tick when generation   *)
(* fails; next_run_at is advanced before.                                  *)
PickedUpOnce == [][\A s \in Schedule :
  s \in failures' \ failures => next'[s] > clock]_<<failures, next>>
=============================================================================
