----------------------------- MODULE Idempotency -----------------------------
(***************************************************************************)
(* Requests that carry an Idempotency-Key (core/viewsets.py): the answer   *)
(* of a transition is remembered in the cache under its key, and a request *)
(* with a key that is remembered is answered without running anything.     *)
(*                                                                         *)
(* The cache is looked up before the transition and written after it, but  *)
(* before the COMMIT of the request (ATOMIC_REQUESTS).  A client that gets *)
(* no answer sends the request again.                                      *)
(***************************************************************************)
EXTENDS Integers, FiniteSets

CONSTANTS
  Key,
  Guarded,  \* keys whose service finds, under its row lock, what it did before
  Worker,
  MaxSent,  \* how often a client sends one request
  Faults,   \* may keys that are not guarded meet "overlap", a repeat while the
            \* request still runs, and "cache", a cache that takes no entry?
  NoKey     \* the key of an idle worker

IdempotencyConstantsOK ==
  /\ IsFiniteSet(Key) /\ Guarded \subseteq Key /\ NoKey \notin Key
  /\ MaxSent \in Nat /\ Faults \subseteq {"overlap", "cache"}

VARIABLES
  done,   \* how often the transition of each key was committed
  memo,   \* the keys the cache remembers
  sent,   \* how often each request was sent
  told,   \* the keys whose client was told that it is done
  ws      \* the request of each worker

vars == <<done, memo, sent, told, ws>>

Idle == [at |-> "idle", key |-> NoKey, effect |-> 0]
Meets(k, fault) == k \in Guarded \/ fault \in Faults
Runs(k) == {w \in Worker : ws[w].key = k}

(* The client sends a request, or sends it again.                          *)
Send(w, k) ==
  /\ ws[w].at = "idle" /\ k \notin told /\ sent[k] < MaxSent
  /\ Meets(k, "overlap") \/ Runs(k) = {}
  /\ sent' = [sent EXCEPT ![k] = @ + 1]
  /\ ws' = [ws EXCEPT ![w] = [at |-> "received", key |-> k, effect |-> 0]]
  /\ UNCHANGED <<done, memo, told>>

(* _recall_idempotent_result: a hit is replayed.                           *)
Replay(w) ==
  /\ ws[w].at = "received" /\ ws[w].key \in memo
  /\ told' = told \cup {ws[w].key}
  /\ ws' = [ws EXCEPT ![w] = Idle]
  /\ UNCHANGED <<done, memo, sent>>

\* Mutant: a key that is remembered runs all the same.
MissAlways(w) ==
  /\ ws[w].at = "received"
  /\ ws' = [ws EXCEPT ![w] = [ws[w] EXCEPT !.at = "running"]]
  /\ UNCHANGED <<done, memo, sent, told>>

Miss(w) ==
  /\ ws[w].at = "received" /\ ws[w].key \notin memo
  /\ ws' = [ws EXCEPT ![w] = [ws[w] EXCEPT !.at = "running"]]
  /\ UNCHANGED <<done, memo, sent, told>>

(* The service under its row lock.  Every service locks the document, a    *)
(* guarded one finds what an earlier attempt has done.                     *)
Run(w) == LET k == ws[w].key IN
  /\ ws[w].at = "running"
  /\ \A v \in Runs(k) : ws[v].at \notin {"ran", "remembered"}
  /\ ws' = [ws EXCEPT ![w] = [ws[w] EXCEPT
       !.at = "ran", !.effect = IF k \in Guarded /\ done[k] > 0 THEN 0 ELSE 1]]
  /\ UNCHANGED <<done, memo, sent, told>>

(* _remember_idempotent_result; a cache that is down is only logged.       *)
Remember(w) ==
  /\ ws[w].at = "ran"
  /\ \/ memo' = memo \cup {ws[w].key}
     \/ Meets(ws[w].key, "cache") /\ memo' = memo
  /\ ws' = [ws EXCEPT ![w] = [ws[w] EXCEPT !.at = "remembered"]]
  /\ UNCHANGED <<done, sent, told>>

(* COMMIT, then the answer, which may be lost.                             *)
Commit(w) == LET k == ws[w].key IN
  /\ ws[w].at = "remembered"
  /\ done' = [done EXCEPT ![k] = @ + ws[w].effect]
  /\ told' \in {told, told \cup {k}}
  /\ ws' = [ws EXCEPT ![w] = Idle]
  /\ UNCHANGED <<memo, sent>>

(* The service refuses, or the process dies: everything but the cache is   *)
(* rolled back.                                                            *)
Rollback(w) ==
  /\ ws[w].at # "idle"
  /\ ws' = [ws EXCEPT ![w] = Idle]
  /\ UNCHANGED <<done, memo, sent, told>>

Init ==
  /\ done = [k \in Key |-> 0] /\ memo = {} /\ sent = [k \in Key |-> 0] /\ told = {}
  /\ ws = [w \in Worker |-> Idle]

Next == \E w \in Worker :
  \/ \E k \in Key : Send(w, k)
  \/ Replay(w) \/ Miss(w) \/ Run(w) \/ Remember(w) \/ Commit(w) \/ Rollback(w)

Spec == Init /\ [][Next]_vars

-----------------------------------------------------------------------------
(* Every variable has the values it can hold.                              *)
IdempotencyTypeOK ==
  /\ done \in [Key -> Nat] /\ memo \subseteq Key /\ told \subseteq Key
  /\ sent \in [Key -> 0..MaxSent]
  /\ ws \in [Worker -> [at : {"idle", "received", "running", "ran", "remembered"},
                        key : Key \cup {NoKey}, effect : 0..1]]

(* A transition is done once per key, however often its request is sent,   *)
(* and whatever answers are lost, services refuse and processes die.       *)
OncePerKey == \A k \in Key : done[k] <= 1

(* The comment on transition_action, core/viewsets.py:402: a replay        *)
(* returns the same object instead of running the service twice, so who is *)
(* told that it is done finds it done.                                     *)
ToldIsDone == \A k \in told : done[k] > 0
==============================================================================
