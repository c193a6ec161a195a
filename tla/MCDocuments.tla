----------------------------- MODULE MCDocuments -----------------------------
(***************************************************************************)
(* Bills and claims, bank lines, time entries and repeated requests, in    *)
(* small instances for TLC.  A behaviour works in one part from its first  *)
(* state on: the modules share no rows, so their states are explored       *)
(* beside each other and not multiplied.                                   *)
(***************************************************************************)
EXTENDS Payables, Sequences, TLC

CONSTANTS
  Txn, Line, TxnAmount, LineAmount, Reviewer, Robot, Gap,  \* of bank lines
  Entry, Date, Task, User, Desk, Hours,                    \* of time entries
  Key, Guarded, MaxSent, Faults,                           \* of repeated requests
  t1, t2, e1, e2, Nobody

VARIABLES
  part,
  status, match, ofSession, reconciled, session, gap, bankLock, bankWs,
  entry, line, entryLock, deskWs,
  done, memo, sent, told, keyWs

bankVars == <<status, match, ofSession, reconciled, session, gap, bankLock, bankWs>>
timeVars == <<entry, line, entryLock, deskWs>>
keyVars  == <<done, memo, sent, told, keyWs>>
allVars  == <<vars, part, bankVars, timeVars, keyVars>>

Bank == INSTANCE BankRec WITH lock <- bankLock, ws <- bankWs
Time == INSTANCE Timesheets WITH lock <- entryLock, ws <- deskWs
Retry == INSTANCE Idempotency WITH Worker <- Desk, NoKey <- Nobody, ws <- keyWs

(* A bank line of two units and one of one unit, ledger lines of two       *)
(* units; two time entries of one task.                                    *)
BankAmounts   == t1 :> 2 @@ t2 :> 1
LedgerAmounts == [l \in Line |-> 2]
Dates         == e1 :> 1 @@ e2 :> 2
OneTask       == [e \in Entry |-> 1]

ASSUME BankConstants == Bank!BankRecConstantsOK
ASSUME TimeConstants == Time!TimesheetConstantsOK
ASSUME RetryConstants == Retry!IdempotencyConstantsOK

(* The documents of the first three parts.                                 *)
DocsOf == [bills |-> Bill \ Early, early |-> Early, claims |-> Claim]

DocumentsInit ==
  /\ part \in {"bills", "early", "claims", "bank", "session", "time", "retry"}
  /\ part # "session" => gap = 0
  /\ Init /\ Bank!Init /\ Time!Init /\ Retry!Init

PayablesNext ==
  /\ part \in DOMAIN DocsOf
  /\ Next
  /\ \A d \in Doc \ DocsOf[part] : RowOf(d)'.status = "absent"
  /\ UNCHANGED <<bankVars, timeVars, keyVars>>

(* Reviewers and an automatic run while statement and ledger agree; an     *)
(* automatic run alone while the ledger goes on.                           *)
BankNext ==
  /\ part \in {"bank", "session"}
  /\ Bank!Next
  /\ IF part = "bank" THEN gap' = gap ELSE \A w \in Reviewer : bankWs'[w].at = "idle"
  /\ UNCHANGED <<vars, timeVars, keyVars>>

DocumentsNext == UNCHANGED part /\
  \/ PayablesNext
  \/ BankNext
  \/ part = "time" /\ Time!Next /\ UNCHANGED <<vars, bankVars, keyVars>>
  \/ part = "retry" /\ Retry!Next /\ UNCHANGED <<vars, bankVars, timeVars>>

(* A worker of a part that is not under way is idle and owes nothing.      *)
DocumentsSpec == DocumentsInit /\ [][DocumentsNext]_allVars
                   /\ Bank!Fairness /\ Time!Fairness

-----------------------------------------------------------------------------
(* Every variable of the modules has the values its columns can hold.      *)
DocumentsTypeOK == /\ PayablesTypeOK /\ Bank!BankTypeOK
                   /\ Time!TimesheetTypeOK /\ Retry!IdempotencyTypeOK

(* Bank lines are off the worklist as matched only if every unit of them   *)
(* is explained, and are never explained by more than they moved.          *)
MatchedIsExplained == Bank!MatchedIsExplained

(* Nothing is done twice or forgotten: an hour is on one invoice line,     *)
(* however runs, approvals and rejections interleave, or waits for the     *)
(* next run, and a transition is done once per Idempotency-Key, however    *)
(* often its request is sent again.                                        *)
DoneOnce == Time!BilledOnce /\ Time!FiguresTie /\ Retry!OncePerKey

(* Automatic reconciliations, invoice runs and bulk approvals end,         *)
(* in whatever order they lock their rows.                                 *)
BatchesEnd == Bank!AutoEnds /\ Time!BillingEnds
=============================================================================
