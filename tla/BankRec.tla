-------------------------------- MODULE BankRec --------------------------------
(***************************************************************************)
(* Bank reconciliation (banking/services/reconciliation.py and the verbs   *)
(* of banking/viewsets.py): lines of a bank statement are matched to       *)
(* ledger lines, in part or in whole, by reviewers or by the automatic     *)
(* run, and a session of one period is signed off when the statement and   *)
(* the ledger agree.                                                       *)
(*                                                                         *)
(* A match or an unmatch locks the bank line and nothing else, reads what  *)
(* is committed of both sides, and writes at COMMIT: two actions.  The     *)
(* automatic run reads its worklist and its session once, without a lock,  *)
(* then works line by line.  A session has one account, so                 *)
(* one session is modelled, with the lines of its period.                  *)
(***************************************************************************)
EXTENDS Integers, FiniteSets, Functions

CONSTANTS
  Txn,        \* bank lines
  Line,       \* ledger lines of the bank's account
  TxnAmount,  \* what each bank line moved
  LineAmount, \* the debit or credit of each ledger line
  Reviewer,   \* workers that match and unmatch
  Robot,      \* workers that run the automatic reconciliation
  Gap,        \* what statement and ledger may differ by
  Nobody      \* holder of a free lock

Worker == Reviewer \cup Robot

BankRecConstantsOK ==
  /\ IsFiniteSet(Txn) /\ IsFiniteSet(Line) /\ Nobody \notin Worker \cup Txn
  /\ TxnAmount \in [Txn -> Nat \ {0}] /\ LineAmount \in [Line -> Nat \ {0}]
  /\ Gap \subseteq Nat /\ 0 \in Gap

VARIABLES
  status,      \* of each bank line
  match,       \* [Txn -> [Line -> Nat]]: matched amounts, 0 is no match
  ofSession,   \* the matches that belong to the session
  reconciled,  \* the ledger lines with reconciled_at set
  session,     \* status and difference of the session row
  gap,         \* what statement and ledger differ by now
  lock,        \* holder of the row lock of each bank line
  ws           \* the request of each worker

vars == <<status, match, ofSession, reconciled, session, gap, lock, ws>>

(* No code in the repository makes a bank line manual.                     *)
TxnStatus     == {"unmatched", "suggested", "matched", "ignored"}
SessionStatus == {"in_progress", "balanced", "closed"}

Nothing == [t \in Txn |-> [l \in Line |-> 0]]

(* What a request holds until its COMMIT: the matches it adds and drops,   *)
(* the statuses it writes, the ledger lines it stamps and clears; and what *)
(* an automatic run read at its beginning, the bank lines still to examine *)
(* with their statuses, and the status of the session.                     *)
Statuses == UNION {[S -> TxnStatus] : S \in SUBSET Txn}
Request == [at : {"idle", "commit", "read", "auto"}, txn : Txn \cup {Nobody},
            new : [Txn -> [Line -> Nat]], drop : SUBSET (Txn \X Line), moves : Statuses,
            stamp : SUBSET Line, clear : SUBSET Line, todo : Statuses, session : SessionStatus]

None == [t \in {} |-> "unmatched"]
Idle == [at |-> "idle", txn |-> Nobody, new |-> Nothing, drop |-> {}, moves |-> None,
         stamp |-> {}, clear |-> {}, todo |-> None, session |-> "in_progress"]

(* What a transaction sees: the committed matches and its own.             *)
Seen(w, t, l)      == match[t][l] + ws[w].new[t][l]
TxnResidual(w, t)  == TxnAmount[t] - SumFunction([l \in Line |-> Seen(w, t, l)])
Claimed(l)         == SumFunction([t \in Txn |-> match[t][l]])
LineResidual(w, l) == LineAmount[l] - SumFunction([t \in Txn |-> Seen(w, t, l)])

Take(w, t)   == lock[t] \in {Nobody, w} /\ lock' = [lock EXCEPT ![t] = w]
Release(w)   == lock' = [t \in Txn |-> IF lock[t] = w THEN Nobody ELSE lock[t]]
Rollback(w)  == Release(w) /\ ws' = [ws EXCEPT ![w] = Idle]

(* COMMIT writes all of it; the matches may belong to the session.         *)
Commit(w, inSession) ==
  /\ match' = [t \in Txn |-> [l \in Line |->
       IF <<t, l>> \in ws[w].drop THEN 0 ELSE Seen(w, t, l)]]
  /\ ofSession' = (ofSession \ ws[w].drop) \cup
       {p \in Txn \X Line : inSession /\ ws[w].new[p[1]][p[2]] > 0}
  /\ status' = [t \in Txn |-> IF t \in DOMAIN ws[w].moves THEN ws[w].moves[t] ELSE status[t]]
  /\ reconciled' = (reconciled \cup ws[w].stamp) \ ws[w].clear
  /\ Rollback(w)

-----------------------------------------------------------------------------
(* Matching.                                                               *)

(* confirm_match up to COMMIT: the residuals of both sides are read under  *)
(* the lock of the bank line, and the pair must be new.  The status of the *)
(* bank line is not asked.  It is matched when nothing of it is left over, *)
(* the ledger line reconciled when its residual is used up.                *)
Fits(w, t, l, a) ==
  a <= TxnResidual(w, t) /\ a <= LineResidual(w, l) /\ Seen(w, t, l) = 0

Moved(w, t, s) == [x \in DOMAIN ws[w].moves \cup {t} |-> IF x = t THEN s ELSE ws[w].moves[x]]

Confirmed(w, t, l, a) ==
  [ws[w] EXCEPT
     !.new   = [ws[w].new EXCEPT ![t] = [ws[w].new[t] EXCEPT ![l] = a]],
     !.moves = IF a = TxnResidual(w, t) THEN Moved(w, t, "matched") ELSE ws[w].moves,
     !.stamp = IF a = LineResidual(w, l) THEN ws[w].stamp \cup {l} ELSE ws[w].stamp]

\* Mutant: the bank line is not locked.
BeginMatchUnlocked(w, t, l) == \E a \in 1..TxnAmount[t] :
  /\ w \in Reviewer /\ ws[w].at = "idle"
  /\ Fits(w, t, l, a)
  /\ ws' = [ws EXCEPT ![w] = [Confirmed(w, t, l, a) EXCEPT !.at = "commit"]]
  /\ UNCHANGED <<status, match, ofSession, reconciled, session, gap, lock>>

BeginMatch(w, t, l) == \E a \in 1..TxnAmount[t] :
  /\ w \in Reviewer /\ ws[w].at = "idle"
  /\ Take(w, t) /\ Fits(w, t, l, a)
  /\ ws' = [ws EXCEPT ![w] = [Confirmed(w, t, l, a) EXCEPT !.at = "commit"]]
  /\ UNCHANGED <<status, match, ofSession, reconciled, session, gap>>

-----------------------------------------------------------------------------
(* Releasing matches.                                                      *)

(* The view reads which matches to release: one, or all of the bank line.  *)
ReadUnmatch(w, t) == LET all == {p \in {t} \X Line : match[t][p[2]] > 0} IN
  /\ w \in Reviewer /\ ws[w].at = "idle"
  /\ \E S \in {{p} : p \in all} \cup {all} : S # {} /\
       ws' = [ws EXCEPT ![w] = [Idle EXCEPT !.at = "read", !.txn = t, !.drop = S]]
  /\ UNCHANGED <<status, match, ofSession, reconciled, session, gap, lock>>

(* unmatch under the lock of the bank line: a match of a closed session is *)
(* refused; the bank line goes back on the worklist, and a ledger line     *)
(* that no other match claims is cleared.                                  *)
BeginUnmatch(w) == LET t == ws[w].txn IN
  /\ ws[w].at = "read"
  /\ Take(w, t)
  /\ session.status = "closed" => ws[w].drop \cap ofSession = {}
  /\ ws' = [ws EXCEPT ![w] = [ws[w] EXCEPT !.at = "commit", !.moves = Moved(w, t, "unmatched"),
       !.clear = {l \in Line : <<t, l>> \in ws[w].drop /\ Claimed(l) = match[t][l]}]]
  /\ UNCHANGED <<status, match, ofSession, reconciled, session, gap>>

CommitReview(w) ==
  /\ ws[w].at = "commit"
  /\ \E inSession \in BOOLEAN : Commit(w, inSession)
  /\ UNCHANGED <<session, gap>>

Ignore(t) ==
  /\ lock[t] = Nobody /\ status[t] \in {"unmatched", "suggested"}
  /\ status' = [status EXCEPT ![t] = "ignored"]
  /\ UNCHANGED <<match, ofSession, reconciled, session, gap, lock, ws>>

(* A request that is refused, or dies.                                     *)
GiveUp(w) ==
  /\ ws[w].at # "idle"
  /\ Rollback(w)
  /\ UNCHANGED <<status, match, ofSession, reconciled, session, gap>>

-----------------------------------------------------------------------------
(* The automatic run.  Each line has an atomic block of its own, but the   *)
(* request has one around them all (ATOMIC_REQUESTS): the run keeps the    *)
(* rows it wrote locked, and nothing of it is committed before its end.    *)

Pending == {t \in Txn : status[t] \in {"unmatched", "suggested"}}

BeginAuto(w) ==
  /\ w \in Robot /\ ws[w].at = "idle" /\ Pending # {}
  /\ ws' = [ws EXCEPT ![w] = [Idle EXCEPT !.at = "auto", !.session = session.status,
              !.todo = [t \in Pending |-> status[t]]]]
  /\ UNCHANGED <<status, match, ofSession, reconciled, session, gap, lock>>

Candidates(w) == {l \in Line \ (reconciled \cup ws[w].stamp) : LineResidual(w, l) > 0}
(* A candidate is certain only if what is left of it is all of the amount. *)
Certain(w, t) == {l \in Candidates(w) : LineResidual(w, l) = TxnAmount[t]}

Examines(w, t)  == ws[w].at = "auto" /\ t \in DOMAIN ws[w].todo
Examined(k, t)  == [k EXCEPT !.todo = [x \in DOMAIN k.todo \ {t} |-> k.todo[x]]]
Smaller(x, y)   == IF x <= y THEN x ELSE y

(* The best candidate is certain and its rival is not: confirm_match with  *)
(* the smaller of both residuals.                                          *)
AutoMatch(w, t) == Examines(w, t) /\ \E l \in Certain(w, t) :
  LET a == Smaller(TxnResidual(w, t), LineResidual(w, l)) IN
  /\ Take(w, t) /\ a > 0 /\ Fits(w, t, l, a)
  /\ ws' = [ws EXCEPT ![w] = Examined(Confirmed(w, t, l, a), t)]
  /\ UNCHANGED <<status, match, ofSession, reconciled, session, gap>>

(* Otherwise the line becomes a suggestion: its status is decided on the   *)
(* copy in the worklist and written over whatever the row holds.           *)
AutoSuggest(w, t) ==
  /\ Examines(w, t) /\ ws[w].todo[t] = "unmatched" /\ Candidates(w) # {}
  /\ Take(w, t)
  /\ ws' = [ws EXCEPT ![w] = 
       Examined([ws[w] EXCEPT !.moves = Moved(w, t, "suggested")], t)]
  /\ UNCHANGED <<status, match, ofSession, reconciled, session, gap>>

(* No candidate, a line that is a suggestion already, or a refusal.        *)
AutoSkip(w, t) ==
  /\ Examines(w, t)
  /\ Candidates(w) = {} \/ ws[w].todo[t] = "suggested" \/ TxnResidual(w, t) <= 0
  /\ ws' = [ws EXCEPT ![w] = Examined(ws[w], t)]
  /\ UNCHANGED <<status, match, ofSession, reconciled, session, gap, lock>>

(* refresh_session on the session that was read when the run began; a      *)
(* closed session with a difference fails ck_recon_session_closed_balanced *)
(* and with it the whole run.                                              *)
EndAuto(w) == LET opens == gap = 0 /\ ws[w].session = "in_progress" IN
  /\ ws[w].at = "auto" /\ DOMAIN ws[w].todo = {}
  /\ opens \/ session.status # "closed" \/ gap = 0
  /\ session' = [status |-> IF opens THEN "balanced" ELSE session.status, difference |-> gap]
  /\ Commit(w, TRUE)
  /\ UNCHANGED gap

FailAuto(w) ==
  /\ ws[w].at = "auto" /\ DOMAIN ws[w].todo = {} /\ session.status = "closed" /\ gap # 0
  /\ Rollback(w)
  /\ UNCHANGED <<status, match, ofSession, reconciled, session, gap>>

-----------------------------------------------------------------------------
(* The session and the ledger behind it.                                   *)

(* close_session: lock, refresh, refuse a difference, sign off.            *)
CloseSession ==
  /\ session.status # "closed" /\ gap = 0
  /\ session' = [status |-> "closed", difference |-> gap]
  /\ UNCHANGED <<status, match, ofSession, reconciled, gap, lock, ws>>

(* Entries are posted or voided on the bank's account.                     *)
PostLedger == \E g \in Gap :
  /\ gap' = g
  /\ UNCHANGED <<status, match, ofSession, reconciled, session, lock, ws>>

Init ==
  /\ status = [t \in Txn |-> "unmatched"]
  /\ match = [t \in Txn |-> [l \in Line |-> 0]] /\ ofSession = {} /\ reconciled = {}
  /\ session = [status |-> "in_progress", difference |-> 0] /\ gap \in Gap
  /\ lock = [t \in Txn |-> Nobody] /\ ws = [w \in Worker |-> Idle]

AutoStep(w) == EndAuto(w) \/ FailAuto(w)
                 \/ \E t \in Txn : AutoMatch(w, t) \/ AutoSuggest(w, t) \/ AutoSkip(w, t)
Finish(w)   == CommitReview(w) \/ GiveUp(w)

Next ==
  \/ \E w \in Worker, t \in Txn :
       ReadUnmatch(w, t) \/ Ignore(t) \/ \E l \in Line : BeginMatch(w, t, l)
  \/ \E w \in Worker : BeginUnmatch(w) \/ CommitReview(w) \/ GiveUp(w) \/ BeginAuto(w) \/ AutoStep(w)
  \/ CloseSession \/ PostLedger

(* The worker keeps its transactions going: a commit is never blocked, and *)
(* a lock that is free again and again is granted in turn.                 *)
Fairness == (\A w \in Reviewer : WF_vars(Finish(w))) /\ \A w \in Robot : SF_vars(AutoStep(w))

Spec == Init /\ [][Next]_vars /\ Fairness

-----------------------------------------------------------------------------
(* Every variable has the values its columns can hold.                     *)
BankTypeOK ==
  /\ status \in [Txn -> TxnStatus] /\ match \in [Txn -> [Line -> Nat]]
  /\ ofSession \subseteq Txn \X Line /\ reconciled \subseteq Line
  /\ session.status \in SessionStatus /\ session.difference \in Gap /\ gap \in Gap
  /\ lock \in [Txn -> Worker \cup {Nobody}]
  /\ ws \in [Worker -> Request]

(* A bank line is never explained by more than it moved, and it is off the *)
(* worklist as matched only if every unit of it is explained, whichever    *)
(* reviewers and runs work on it.                                          *)
MatchedIsExplained == \A t \in Txn :
  /\ SumFunction(match[t]) <= TxnAmount[t]
  /\ status[t] = "matched" => SumFunction(match[t]) = TxnAmount[t]

(* An automatic run examines every line of its worklist and ends, whatever *)
(* reviewers lock meanwhile.                                               *)
AutoEnds == \A w \in Robot : ws[w].at = "auto" ~> ws[w].at = "idle"

(* The comment of the view, banking/viewsets.py:381: every line is         *)
(* committed in its own transaction, so one bad line cannot roll back the  *)
(* work on the others.                                                     *)
AutoKeepsMatches == [][\A w \in Robot, t \in Txn, l \in Line :
  ws[w].at = "auto" /\ ws[w].new[t][l] > 0 /\ ws'[w].at = "idle" => match'[t][l] > 0]_vars

(* The docstring of confirm_match, reconciliation.py:346: the smaller of   *)
(* the residuals is an allocation that can never over-apply either side.   *)
LedgerLineNotOverclaimed == \A l \in Line : Claimed(l) <= LineAmount[l]

(* The comment of ReconciliationSession, banking/models.py:503: closed is  *)
(* terminal; reopening would let a signed-off period change.               *)
ClosedStaysClosed == [][session.status = "closed" => session'.status = "closed"]_session

(* The comment of unmatch, reconciliation.py:474: the ledger line is       *)
(* unreconciled again if nothing claims it.                                *)
ReconciledIsClaimed == \A l \in reconciled : Claimed(l) > 0

(* The comment of confirm_match, reconciliation.py:417: reconciled_at is   *)
(* stamped so that the report of unreconciled items is an index scan.      *)
ReconciledIsExplained == \A l \in reconciled : Claimed(l) >= LineAmount[l]

(* The refusal of unmatch, reconciliation.py:447: a match of a closed      *)
(* reconciliation stays.                                                   *)
SignedOffMatchesStay ==
  [][session.status = "closed" => ofSession \subseteq ofSession']_<<session, ofSession>>
=============================================================================
