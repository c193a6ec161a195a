------------------------------- MODULE Ledger -------------------------------
(***************************************************************************)
(* The general ledger of ACHR: the posting engine                          *)
(* (accounting/services/posting.py), the fiscal-period state machine       *)
(* (accounting/services/periods.py), manual journal drafts and account     *)
(* archiving (accounting/serializers.py, accounting/viewsets.py) and the   *)
(* database guards below them (accounting/migrations/0004_ledger_guards).  *)
(*                                                                         *)
(* A worker runs one HTTP request or Celery task at a time, and a request  *)
(* is one PostgreSQL transaction (ATOMIC_REQUESTS) at READ COMMITTED.  The *)
(* variables db hold the committed rows; what a worker has read or written *)
(* and not yet committed is in ws[w], and lock holds the row locks.  Each  *)
(* statement that reads without a lock, waits for a lock or commits is one *)
(* action, so a stale read is a read in one action used in a later one.    *)
(***************************************************************************)
EXTENDS Integers, Sequences, FiniteSets, Functions

CONSTANTS
  Worker,      \* request and task workers
  OpsOf,       \* [Worker -> SUBSET Op]: what each worker is asked to do
  Period,      \* fiscal periods
  Scope,       \* sequence rows: (journal, year)
  ScopeOf,     \* [Period -> Scope]: the row that numbers an entry dated there
  Account,     \* postable leaf accounts
  DebitNormal, \* those whose balance increases on debit
  Id,          \* primary keys of journal entries; bounds how many exist
  DocKey,      \* business events other modules post (naturals)
  ClientKey,   \* Idempotency-Key headers sent with the post-draft request
  Template,    \* the sets of lines a request may ask for
  Nobody       \* holder of a free lock

Op == {"post", "post_draft", "reverse", "void", "transition",
       "create_draft", "patch_draft", "archive"}

(* idempotency_key.  NoKey is the empty string, excluded from the index.   *)
NoKey == <<"none", 0>>
Key == ({"doc", "client"} \X (DocKey \cup ClientKey))
         \cup ({"draft", "reversal"} \X Id)

Row == Period \cup Scope \cup Account \cup Key

Line == [account : Account, debit : Nat, credit : Nat]

ASSUME ConstantsOK ==
  /\ Nobody \notin Worker
  /\ OpsOf \in [Worker -> SUBSET Op]
  /\ ScopeOf \in [Period -> Scope]
  /\ DebitNormal \subseteq Account
  /\ IsFiniteSet(Id) /\ Id \subseteq Nat \ {0}
  /\ DocKey \subseteq Nat /\ ClientKey \subseteq Nat
  /\ Template \subseteq Seq(Line)

VARIABLES
  period,   \* status of each fiscal period
  entries,  \* journal entries with their lines
  seq,      \* next_value of each sequence row
  balance,  \* cached_balance of each account
  active,   \* accounts that are not archived
  lock,     \* holder of each row lock
  pc,       \* where each worker's request is
  ws        \* what its transaction has read and written so far

db   == <<period, entries, seq, balance, active>>
vars == <<period, entries, seq, balance, active, lock, pc, ws>>

PeriodStatus == {"open", "soft_closed", "closed"}
Status == {"draft", "posted", "voided", "reversed"}

(* A row; src is the draft it was posted from, mirrorOf its reversal_of.   *)
Entry == [status : Status \cup {"absent"}, period : Period \cup {Nobody},
          num : Nat, key : Key \cup {NoKey}, lines : Seq(Line),
          src : Id \cup {0}, mirrorOf : Id \cup {0}]

NoEntry == [status |-> "absent", period |-> Nobody, num |-> 0, key |-> NoKey,
            lines |-> <<>>, src |-> 0, mirrorOf |-> 0]
EntryRow(s, p, k, ls, d) ==
  [NoEntry EXCEPT !.status = s, !.period = p, !.key = k, !.lines = ls, !.src = d]

(* What a transaction holds: the row it acts on, as it read it (target,    *)
(* seen, at, lines), the row it inserts (new, under key id), the entry     *)
(* post_entry found instead, and the accounts still to be updated.         *)
Work == [op : Op \cup {"none"}, target : Id \cup {0},
         seen : Status \cup {"absent"}, at : Period \cup Account \cup {Nobody},
         id : Id \cup {0}, new : Entry, found : Id \cup {0},
         todo : Seq(Account), lines : Seq(Line),
         to : PeriodStatus \cup {"none"}]

Place == {"idle", "validate", "lock_period", "number", "insert", "balances",
          "posted", "void_lock", "void_update", "transition_write",
          "draft_commit", "patch_commit", "archive_write"}

Blank == [op |-> "none", target |-> 0, seen |-> "absent", at |-> Nobody,
          id |-> 0, new |-> NoEntry, found |-> 0, todo |-> <<>>, lines |-> <<>>,
          to |-> "none"]

Exists(i)   == entries[i].status # "absent"
Numbered(i) == entries[i].num > 0

-----------------------------------------------------------------------------
(* Amounts.                                                                *)

Debits(ls)  == SumFunction([n \in DOMAIN ls |-> ls[n].debit])
Credits(ls) == SumFunction([n \in DOMAIN ls |-> ls[n].credit])

(* What a line adds to the balance of account a, by its normal side.       *)
Signed(l, a) == IF l.account # a THEN 0
                ELSE IF a \in DebitNormal THEN l.debit - l.credit
                ELSE l.credit - l.debit

(* What a set of lines adds to cached_balance.                             *)
Movement(ls) ==
  [a \in Account |-> SumFunction([n \in DOMAIN ls |-> Signed(ls[n], a)])]

Swapped(ls) ==
  [n \in DOMAIN ls |-> [account |-> ls[n].account,
                        debit |-> ls[n].credit, credit |-> ls[n].debit]]

AccountsOf(ls) == {ls[n].account : n \in DOMAIN ls}

(* The order in which the balance updates lock the accounts.               *)
InLineOrder(ls) == [n \in DOMAIN ls |-> ls[n].account]

Balances(ls) == Len(ls) >= 2 /\ Debits(ls) = Credits(ls) /\ Debits(ls) > 0

-----------------------------------------------------------------------------
(* Transactions.                                                           *)

Begin(w, op, at, work) ==
  /\ pc[w] = "idle" /\ op \in OpsOf[w]
  /\ pc' = [pc EXCEPT ![w] = at]
  /\ ws' = [ws EXCEPT ![w] = work]

Goto(w, at) == pc' = [pc EXCEPT ![w] = at]

Free(w, row) == lock[row] \in {Nobody, w}
Take(w, row) == lock' = [lock EXCEPT ![row] = w]

(* COMMIT or ROLLBACK: every lock is released and the request is over.     *)
End(w) ==
  /\ lock' = [r \in Row |-> IF lock[r] = w THEN Nobody ELSE lock[r]]
  /\ pc' = [pc EXCEPT ![w] = "idle"]
  /\ ws' = [ws EXCEPT ![w] = Blank]

Rollback(w) == End(w) /\ UNCHANGED db

(* The primary key of a row is drawn when the row is built, in Python.     *)
(* Bound: a request that inserts starts only while Id has one left.        *)
Unused(i) == ~Exists(i) /\ \A v \in Worker : ws[v].id # i
Room  == \E i \in Id : Unused(i)
NewId == CHOOSE i \in Id : Unused(i)

(* The entry table es with the pending insert of w, if it has one.         *)
WithInsert(w, es) ==
  IF ws[w].id = 0 THEN es ELSE [es EXCEPT ![ws[w].id] = ws[w].new]

(* COMMIT of a posting or voiding transaction whose entry table becomes    *)
(* es: the number it took and the balance deltas become visible with it.   *)
CommitLedger(w, es) ==
  LET new == ws[w].new IN
  /\ entries' = es
  /\ seq' = IF new.num = 0 THEN seq
            ELSE [seq EXCEPT ![ScopeOf[new.period]] = new.num + 1]
  /\ balance' = [a \in Account |->
       balance[a] + Movement(new.lines)[a] - Movement(ws[w].lines)[a]]
  /\ End(w)
  /\ UNCHANGED <<period, active>>

-----------------------------------------------------------------------------
(* Requests: each reads its target without a lock and keeps what it read.  *)

(* A module posts business event k (post_entry called with a keyed draft). *)
Post(w) == \E k \in DocKey, p \in Period, ls \in Template :
  /\ Room
  /\ Begin(w, "post", "validate",
       [Blank EXCEPT !.op = "post", !.id = NewId,
                     !.new = EntryRow("posted", p, <<"doc", k>>, ls, 0)])
  /\ UNCHANGED <<db, lock>>

(* POST /journal-entries/i/post/: rebuild the stored draft.                *)
PostDraft(w) == \E i \in Id, k \in {"draft"} \X Id \cup {"client"} \X ClientKey :
  /\ entries[i].status = "draft" /\ Len(entries[i].lines) >= 2
  /\ k[1] = "draft" => k[2] = i
  /\ Room
  /\ Begin(w, "post_draft", "validate",
       [Blank EXCEPT !.op = "post_draft", !.target = i, !.id = NewId,
          !.new = EntryRow("posted", entries[i].period, k, entries[i].lines, i)])
  /\ UNCHANGED <<db, lock>>

(* POST /journal-entries/i/reverse/ with the reversal dated in p.          *)
ReverseEntry(w) == \E i \in Id, p \in Period :
  /\ entries[i].status = "posted"
  /\ \A m \in Id : entries[m].mirrorOf # i
  /\ Room
  /\ Begin(w, "reverse", "validate",
       [Blank EXCEPT !.op = "reverse", !.target = i, !.id = NewId,
          !.new = EntryRow("posted", p, <<"reversal", i>>,
                           Swapped(entries[i].lines), 0)])
  /\ UNCHANGED <<db, lock>>

(* POST /journal-entries/i/void/: assert_can_transition on the instance.   *)
VoidEntry(w) == \E i \in Id :
  /\ entries[i].status \in {"draft", "posted"}
  /\ Begin(w, "void", "void_lock",
       [Blank EXCEPT !.op = "void", !.target = i,
          !.seen = entries[i].status, !.at = entries[i].period])
  /\ UNCHANGED <<db, lock>>

-----------------------------------------------------------------------------
(* post_entry, from validation to the last balance update.                 *)

(* Accounts and the idempotency key are read without a lock.               *)
Validate(w) ==
  LET new == ws[w].new
      same == {i \in Id : Exists(i) /\ entries[i].key = new.key}
  IN /\ pc[w] = "validate"
     /\ IF ~Balances(new.lines) \/ ~(AccountsOf(new.lines) \subseteq active)
        THEN Rollback(w)
        ELSE /\ IF same = {}
                THEN Goto(w, "lock_period") /\ UNCHANGED ws
                ELSE /\ Goto(w, "posted")
                     /\ ws' = [ws EXCEPT ![w].id = 0, ![w].new = NoEntry,
                                         ![w].found = CHOOSE i \in same : TRUE]
             /\ UNCHANGED <<db, lock>>

(* resolve_period(lock=True) and the status check.  allow_soft_closed is   *)
(* never passed by a caller.                                               *)
LockPeriod(w) ==
  LET p == ws[w].new.period IN
  /\ pc[w] = "lock_period" /\ Free(w, p)
  /\ IF period[p] # "open" THEN Rollback(w)
     ELSE Take(w, p) /\ Goto(w, "number") /\ UNCHANGED <<db, ws>>

\* Mutant: the counter moves in a transaction of its own, as a SEQUENCE does.
AllocateNumberAtOnce(w) ==
  LET s == ScopeOf[ws[w].new.period] IN
  /\ pc[w] = "number"
  /\ seq' = [seq EXCEPT ![s] = @ + 1]
  /\ ws' = [ws EXCEPT ![w].new.num = seq[s]]
  /\ Goto(w, "insert") /\ UNCHANGED <<period, entries, balance, active, lock>>

AllocateNumber(w) ==
  LET s == ScopeOf[ws[w].new.period] IN
  /\ pc[w] = "number" /\ Free(w, s)
  /\ Take(w, s)
  /\ ws' = [ws EXCEPT ![w].new.num = seq[s]]
  /\ Goto(w, "insert") /\ UNCHANGED db

\* Mutant: without uq_entry_idempotency only Validate looks at the key.
InsertEntryNoIndex(w) ==
  /\ pc[w] = "insert"
  /\ ws' = [ws EXCEPT ![w].todo = InLineOrder(ws[w].new.lines)]
  /\ Goto(w, "balances") /\ UNCHANGED <<db, lock>>

\* Mutant: a duplicate key is retried instead of refused.
InsertEntryRetries(w) ==
  LET new == ws[w].new IN
  /\ pc[w] = "insert" /\ Free(w, new.key)
  /\ ~\E i \in Id : Exists(i) /\ entries[i].key = new.key
  /\ Take(w, new.key)
  /\ ws' = [ws EXCEPT ![w].todo = InLineOrder(new.lines)]
  /\ Goto(w, "balances") /\ UNCHANGED db

(* entry.save(): the unique indexes (a concurrent uncommitted insert of    *)
(* the key is waited for) and trg_period_locked.                           *)
InsertEntry(w) ==
  LET new == ws[w].new IN
  /\ pc[w] = "insert" /\ Free(w, new.key)
  /\ IF \/ \E i \in Id : Exists(i) /\ entries[i].key = new.key
        \/ \E i \in Id : /\ entries[i].num = new.num
                          /\ ScopeOf[entries[i].period] = ScopeOf[new.period]
        \/ period[new.period] = "closed"
     THEN Rollback(w)
     ELSE /\ Take(w, new.key)
          /\ ws' = [ws EXCEPT ![w].todo = InLineOrder(new.lines)]
          /\ Goto(w, "balances") /\ UNCHANGED db

(* _apply_to_cached_balances: one UPDATE, hence one row lock, per account. *)
MoveBalance(w) ==
  /\ pc[w] = "balances" /\ Free(w, Head(ws[w].todo))
  /\ Take(w, Head(ws[w].todo))
  /\ ws' = [ws EXCEPT ![w].todo = Tail(@)]
  /\ Goto(w, IF Len(ws[w].todo) > 1 THEN "balances"
             ELSE IF ws[w].op = "void" THEN "void_update" ELSE "posted")
  /\ UNCHANGED db

(* What the caller of post_entry does next.                                *)
CommitPost(w) ==
  /\ pc[w] = "posted" /\ ws[w].op = "post"
  /\ CommitLedger(w, WithInsert(w, entries))

\* Mutant: the stored draft is left as it is.
RetireDraftForgotten(w) ==
  /\ pc[w] = "posted" /\ ws[w].op = "post_draft"
  /\ CommitLedger(w, WithInsert(w, entries))

(* The draft is read again and, if it still is one, retired by void_entry. *)
RetireDraft(w) ==
  LET fresh == entries[ws[w].target] IN
  /\ pc[w] = "posted" /\ ws[w].op = "post_draft"
  /\ IF fresh.status = "draft"
     THEN /\ Goto(w, "void_lock")
          /\ ws' = [ws EXCEPT ![w].seen = "draft", ![w].at = fresh.period]
          /\ UNCHANGED <<db, lock>>
     ELSE CommitLedger(w, WithInsert(w, entries))

\* Mutant: no immutability trigger.
MarkReversedUnguarded(w) ==
  LET m == IF ws[w].id = 0 THEN ws[w].found ELSE ws[w].id IN
  /\ pc[w] = "posted" /\ ws[w].op = "reverse"
  /\ CommitLedger(w, [WithInsert(w, entries) EXCEPT
                        ![ws[w].target].status = "reversed",
                        ![m].mirrorOf = ws[w].target])

(* The original becomes REVERSED and the mirror points at it; the          *)
(* immutability trigger refuses to move a voided original.                 *)
MarkReversed(w) ==
  LET o == ws[w].target
      m == IF ws[w].id = 0 THEN ws[w].found ELSE ws[w].id
      es == [WithInsert(w, entries) EXCEPT ![o].status = "reversed"]
  IN /\ pc[w] = "posted" /\ ws[w].op = "reverse"
     /\ IF entries[o].status = "voided" THEN Rollback(w)
        ELSE CommitLedger(w, [es EXCEPT ![m].mirrorOf = o])

-----------------------------------------------------------------------------
(* void_entry, after its check of the instance it was handed.              *)

\* Mutant: the period of the entry is not looked at.
VoidLockPeriodUnchecked(w) ==
  LET i == ws[w].target IN
  /\ pc[w] = "void_lock" /\ Free(w, ws[w].at)
  /\ Take(w, ws[w].at)
  /\ IF ws[w].seen = "posted"
     THEN /\ ws' = [ws EXCEPT ![w].lines = entries[i].lines,
                              ![w].todo = InLineOrder(entries[i].lines)]
          /\ Goto(w, "balances")
     ELSE Goto(w, "void_update") /\ UNCHANGED ws
  /\ UNCHANGED db

(* resolve_period(lock=True), the status check and the unwinding.          *)
VoidLockPeriod(w) ==
  LET i == ws[w].target IN
  /\ pc[w] = "void_lock" /\ Free(w, ws[w].at)
  /\ IF period[ws[w].at] # "open" THEN Rollback(w)
     ELSE /\ Take(w, ws[w].at)
          /\ IF ws[w].seen = "posted"
             THEN /\ ws' = [ws EXCEPT ![w].lines = entries[i].lines,
                                      ![w].todo = InLineOrder(entries[i].lines)]
                  /\ Goto(w, "balances")
             ELSE Goto(w, "void_update") /\ UNCHANGED ws
          /\ UNCHANGED db

\* Mutant: no immutability trigger.
VoidUpdateUnguarded(w) ==
  /\ pc[w] = "void_update"
  /\ CommitLedger(w, [WithInsert(w, entries) EXCEPT ![ws[w].target].status = "voided"])

(* The UPDATE does not look at the status it overwrites; the trigger lets  *)
(* VOIDED -> VOIDED through.                                               *)
VoidUpdate(w) ==
  LET i == ws[w].target IN
  /\ pc[w] = "void_update"
  /\ IF entries[i].status = "reversed" THEN Rollback(w)
     ELSE CommitLedger(w, [WithInsert(w, entries) EXCEPT ![i].status = "voided"])

-----------------------------------------------------------------------------
(* transition_period: SELECT ... FOR UPDATE, the checks, then the UPDATE.  *)

AllowedTransitions ==
  [open |-> {"soft_closed", "closed"}, soft_closed |-> {"closed", "open"},
   closed |-> {"open"}]

DraftsIn(p) == {i \in Id : entries[i].status = "draft" /\ entries[i].period = p}

TransitionPeriod(w) == \E p \in Period, t \in PeriodStatus :
  /\ Free(w, p)
  /\ t \in AllowedTransitions[period[p]]
  /\ t = "closed" => DraftsIn(p) = {}
  /\ Begin(w, "transition", "transition_write",
       [Blank EXCEPT !.op = "transition", !.at = p, !.to = t])
  /\ Take(w, p) /\ UNCHANGED db

WriteTransition(w) ==
  /\ pc[w] = "transition_write"
  /\ period' = [period EXCEPT ![ws[w].at] = ws[w].to]
  /\ End(w) /\ UNCHANGED <<entries, seq, balance, active>>

-----------------------------------------------------------------------------
(* Manual drafts.  The deferred foreign key takes FOR KEY SHARE on the     *)
(* period at COMMIT, which only FOR UPDATE (a transition) excludes.        *)

KeyShareFree(p) ==
  \A v \in Worker : ws[v].op = "transition" => lock[p] # v

\* Mutant: the draft is saved without its period.
CreateDraftNoPeriod(w) == \E p \in Period, ls \in Template :
  /\ Room
  /\ period[p] # "closed"
  /\ Begin(w, "create_draft", "draft_commit",
       [Blank EXCEPT !.op = "create_draft", !.id = NewId,
                     !.new = EntryRow("draft", Nobody, NoKey, ls, 0)])
  /\ UNCHANGED <<db, lock>>

CreateDraft(w) == \E p \in Period, ls \in Template :
  /\ Room
  /\ period[p] # "closed"
  /\ Begin(w, "create_draft", "draft_commit",
       [Blank EXCEPT !.op = "create_draft", !.id = NewId,
                     !.new = EntryRow("draft", p, NoKey, ls, 0)])
  /\ UNCHANGED <<db, lock>>

CommitDraft(w) ==
  /\ pc[w] = "draft_commit" /\ KeyShareFree(ws[w].new.period)
  /\ entries' = WithInsert(w, entries)
  /\ End(w) /\ UNCHANGED <<period, seq, balance, active>>

(* PATCH /journal-entries/i/: the new date picks the period; the INSERT    *)
(* trigger does not run.                                                   *)
PatchDraft(w) == \E i \in Id, p \in Period, ls \in Template :
  /\ entries[i].status = "draft"
  /\ Begin(w, "patch_draft", "patch_commit",
       [Blank EXCEPT !.op = "patch_draft", !.target = i, !.at = p, !.lines = ls])
  /\ UNCHANGED <<db, lock>>

(* instance.save() writes status = draft back: the trigger refuses it once *)
(* the row has left that state.                                            *)
CommitPatch(w) ==
  LET i == ws[w].target IN
  /\ pc[w] = "patch_commit" /\ KeyShareFree(ws[w].at)
  /\ IF entries[i].status # "draft" THEN Rollback(w)
     ELSE /\ entries' = [entries EXCEPT ![i].period = ws[w].at,
                                        ![i].lines = ws[w].lines]
          /\ End(w) /\ UNCHANGED <<period, seq, balance, active>>

-----------------------------------------------------------------------------
(* POST /accounts/a/archive/                                               *)

Archive(w) == \E a \in active :
  /\ balance[a] = 0
  /\ Begin(w, "archive", "archive_write",
       [Blank EXCEPT !.op = "archive", !.at = a])
  /\ UNCHANGED <<db, lock>>

WriteArchive(w) ==
  /\ pc[w] = "archive_write" /\ Free(w, ws[w].at)
  /\ active' = active \ {ws[w].at}
  /\ End(w) /\ UNCHANGED <<period, entries, seq, balance>>

-----------------------------------------------------------------------------
(* Failures.                                                               *)

(* The connection, the worker or the process dies: PostgreSQL rolls back.  *)
Crash(w) == pc[w] # "idle" /\ Rollback(w)

(* The row w waits for next, if its next statement takes a lock.           *)
Wanted(w) ==
  CASE pc[w] = "lock_period" -> {ws[w].new.period}
    [] pc[w] = "number"      -> {ScopeOf[ws[w].new.period]}
    [] pc[w] = "insert"      -> {ws[w].new.key}
    [] pc[w] = "balances"    -> {Head(ws[w].todo)}
    [] pc[w] = "void_lock"   -> {ws[w].at}
    [] OTHER                 -> {}

WaitsFor(w, v) == \E r \in Wanted(w) : lock[r] = v /\ v # w

(* A cycle of waiting transactions: PostgreSQL aborts one of them.         *)
Deadlocked(w) == \E S \in SUBSET Worker :
  w \in S /\ \A v \in S : \E u \in S : WaitsFor(v, u)

AbortDeadlock(w) == Deadlocked(w) /\ Rollback(w)

-----------------------------------------------------------------------------
Init ==
  /\ period = [p \in Period |-> "open"]
  /\ entries = [i \in Id |-> NoEntry]
  /\ seq = [s \in Scope |-> 1]
  /\ balance = [a \in Account |-> 0]
  /\ active = Account
  /\ lock = [r \in Row |-> Nobody]
  /\ pc = [w \in Worker |-> "idle"]
  /\ ws = [w \in Worker |-> Blank]

Request(w) == \/ Post(w) \/ PostDraft(w) \/ ReverseEntry(w) \/ VoidEntry(w)
              \/ TransitionPeriod(w) \/ CreateDraft(w) \/ PatchDraft(w)
              \/ Archive(w)

(* Everything a running request does by itself.                            *)
Step(w) == \/ Validate(w) \/ LockPeriod(w) \/ AllocateNumber(w)
           \/ InsertEntry(w) \/ MoveBalance(w) \/ CommitPost(w)
           \/ RetireDraft(w) \/ MarkReversed(w)
           \/ VoidLockPeriod(w) \/ VoidUpdate(w)
           \/ WriteTransition(w) \/ CommitDraft(w) \/ CommitPatch(w)
           \/ WriteArchive(w) \/ AbortDeadlock(w)

Next == \E w \in Worker : Request(w) \/ Step(w) \/ Crash(w)

Spec == Init /\ [][Next]_vars

(* A running request keeps running, and PostgreSQL grants row locks in     *)
(* arrival order, so one that waits is not overtaken for ever.             *)
FairSpec == Spec /\ \A w \in Worker : SF_vars(Step(w))

-----------------------------------------------------------------------------
(* Properties.                                                             *)

(* Every variable holds what the columns and the workers' state may hold.  *)
TypeOK ==
  /\ period \in [Period -> PeriodStatus]
  /\ entries \in [Id -> Entry]
  /\ seq \in [Scope -> Nat \ {0}]
  /\ DOMAIN balance = Account
  /\ active \subseteq Account
  /\ lock \in [Row -> Worker \cup {Nobody}]
  /\ pc \in [Worker -> Place]
  /\ ws \in [Worker -> Work]
  /\ \A i \in Id : Exists(i) => entries[i].period \in Period

Contributes(e) == e.status \in {"posted", "reversed"}

(* post_entry and void_entry under the period lock: what a period          *)
(* contributes to the ledger changes only while the period is open, even   *)
(* when a close runs between the check of the status and the commit.       *)
OnlyOpenPeriodsMove ==
  [][\A i \in Id :
       Contributes(entries[i]) # Contributes(entries'[i])
         => period[entries'[i].period] = "open" /\ UNCHANGED period]_vars

(* uq_entry_idempotency and the two look-ups of the key: a business event, *)
(* a draft or a reversal is posted once however its requests interleave.   *)
OneEntryPerKey ==
  \A i, j \in Id : /\ i # j /\ Exists(i) /\ Exists(j)
                   /\ entries[i].key # NoKey
                   => entries[i].key # entries[j].key

NumbersIn(s) ==
  {entries[i].num : i \in {j \in Id : Numbered(j)
                                     /\ ScopeOf[entries[j].period] = s}}

(* allocate_number: the numbers of a journal and year are 1, 2, ... with   *)
(* no gap and no repeat, whatever rolls back and whatever is voided.       *)
GaplessNumbers ==
  /\ \A s \in Scope : NumbersIn(s) = 1..(seq[s] - 1)
  /\ \A i, j \in Id :
       /\ Numbered(i) /\ Numbered(j) /\ entries[i].num = entries[j].num
       /\ ScopeOf[entries[i].period] = ScopeOf[entries[j].period]
       => i = j

(* reverse_entry against void_entry and itself: an entry is REVERSED       *)
(* exactly when one entry mirrors it, never when it was voided instead.    *)
ReversedIffMirrored ==
  \A i \in Id :
    (entries[i].status = "reversed")
      <=> Cardinality({m \in Id : entries[m].mirrorOf = i}) = 1

(* VOIDED and REVERSED are terminal (trg_journal_entry_immutable), also    *)
(* for a request that read the entry before it became so.                  *)
TerminalIsFinal ==
  [][\A i \in Id : entries[i].status \in {"voided", "reversed"}
                     => /\ entries'[i].status = entries[i].status
                        /\ entries'[i].lines = entries[i].lines
                        /\ entries'[i].period = entries[i].period]_vars

(* What a row of the entry table has in the balance of account a.          *)
InBooks(e, a) == IF Contributes(e) THEN Movement(e.lines)[a] ELSE 0

LedgerBalance(a) == SumFunction([i \in Id |-> InBooks(entries[i], a)])

(* _apply_to_cached_balances and its unwind: the denormalised balance of   *)
(* an account is what the entries still in the books add up to.            *)
BalanceTies == \A a \in Account : balance[a] = LedgerBalance(a)

(* JournalEntryViewSet.post derives the key draft:{id}: one draft becomes  *)
(* at most one numbered entry, and is then no longer a draft.              *)
DraftPostedOnce ==
  \A d \in Id : Cardinality({i \in Id : Exists(i) /\ entries[i].src = d}) <= 1
SupersededDraftRetired ==
  \A i \in Id : Exists(i) /\ entries[i].src # 0
                 => entries[entries[i].src].status = "voided"

(* A draft leaves one entry and no draft, whatever is posted, edited and   *)
(* voided beside it (JournalEntryViewSet.post).                            *)
DraftBecomesOneEntry == DraftPostedOnce /\ SupersededDraftRetired

(* No request hangs: one that holds locks others wait for, or waits        *)
(* itself, ends by commit, refusal or deadlock abort.                      *)
RequestsEnd == \A w \in Worker : pc[w] # "idle" ~> pc[w] = "idle"

-----------------------------------------------------------------------------
(* Claims of the documentation that the code does not meet.                *)

PostedBalance(a) ==
  SumFunction([i \in {j \in Id : entries[j].status = "posted"} |->
                 Movement(entries[i].lines)[a]])

(* The account ledger and the trial balance sum POSTED entries; docs and   *)
(* viewset say their closing figure is cached_balance.                     *)
ReportTiesToCache == \A a \in Account : balance[a] = PostedBalance(a)

(* periods.py: a close never strands a draft.                              *)
NoStrandedDraft == \A p \in Period : period[p] = "closed" => DraftsIn(p) = {}

(* AccountViewSet.archive: an archived account carries no balance.         *)
ArchivedAccountsEmpty == \A a \in Account \ active : balance[a] = 0

(* resolve_period: posts into one period proceed in parallel.              *)
PostsDoNotWaitForPosts ==
  \A w, v \in Worker :
    pc[w] = "lock_period" /\ ws[v].op = "post" /\ v # w
      => lock[ws[w].new.period] # v

-----------------------------------------------------------------------------
(* The inductive invariant behind the theorems of LedgerProofs: what is    *)
(* true of a request at each place it can be.                              *)

Inserts(w) == ws[w].id # 0 /\ ws[w].new.status = "posted"
Past(w, places) == Inserts(w) /\ pc[w] \notin places
Unwinds(w) == pc[w] = "balances" /\ ws[w].op = "void"
Voids(w) == pc[w] \in {"void_lock", "void_update"} \/ Unwinds(w)

(* The locals each place relies on.                                        *)
Placed(w) ==
  LET work == ws[w] IN
  /\ pc[w] = "idle" => work = Blank
  /\ pc[w] \in {"validate", "lock_period", "number", "insert"} => Inserts(w)
  /\ Inserts(w) => work.op # "void"
  /\ Past(w, {"validate"}) => Len(work.new.lines) >= 2
  /\ pc[w] = "balances" => work.todo # <<>> /\ (work.op = "void" \/ Inserts(w))
  /\ pc[w] = "posted" /\ ~Inserts(w) => work.found \in Id /\ Exists(work.found)
  /\ Voids(w) => work.at \in Period /\ work.seen \in {"draft", "posted"}
  /\ Voids(w) => (work.seen = "posted" => work.op = "void")
  /\ Unwinds(w) => work.seen = "posted"
  /\ pc[w] = "transition_write" => work.at \in Period /\ work.to # "none"
  /\ pc[w] = "draft_commit" => work.id # 0 /\ ~Inserts(w)
  /\ pc[w] = "patch_commit" => work.at \in Period /\ work.target \in Id
  /\ Voids(w) \/ work.op \in {"post_draft", "reverse", "void"} => work.target \in Id

(* The row it is to insert: nobody else's, and not in the table yet.       *)
PendingRow(w) ==
  LET new == ws[w].new IN
  /\ ws[w].id = 0 => new = NoEntry
  /\ ws[w].id # 0 =>
       /\ ~Exists(ws[w].id)
       /\ new.status \in {"draft", "posted"} /\ new.period \in Period
       /\ new.status = "draft" => /\ new.num = 0 /\ new.key = NoKey
                                  /\ pc[w] = "draft_commit"
       /\ new.status = "posted" => new.key \in Key
       /\ \A v \in Worker \ {w} : ws[v].id # ws[w].id

(* What it read of its target and may still believe of it.                 *)
TargetKnown(w) ==
  LET e == entries[ws[w].target] IN
  /\ Voids(w) /\ ws[w].seen = "posted" =>
       /\ e.status \in {"posted", "voided", "reversed"}
       /\ e.period = ws[w].at /\ Len(e.lines) >= 2
  /\ Voids(w) /\ ws[w].seen = "draft" => e.status \in {"draft", "voided"}
  /\ ws[w].op = "reverse" => e.status \in {"posted", "voided", "reversed"}

(* The period lock, and the status checked under it.                       *)
HoldsPeriod(w) ==
  LET p == ws[w].new.period
      q == ws[w].at
  IN
  /\ Past(w, {"validate", "lock_period"}) => lock[p] = w /\ period[p] = "open"
  /\ pc[w] = "void_update" \/ Unwinds(w) => lock[q] = w /\ period[q] = "open"
  /\ pc[w] = "transition_write" => lock[q] = w

(* The sequence row, and the number read from it.                          *)
HoldsNumber(w) ==
  LET new == ws[w].new
      s == ScopeOf[new.period]
  IN
  /\ Inserts(w) /\ pc[w] \in {"validate", "lock_period", "number"} => new.num = 0
  /\ Past(w, {"validate", "lock_period", "number"}) =>
       lock[s] = w /\ new.num = seq[s]

(* The unique index entry of the key, and that no row has the key.         *)
HoldsKey(w) ==
  LET k == ws[w].new.key IN
  Past(w, {"validate", "lock_period", "number", "insert"}) =>
    lock[k] = w /\ \A i \in Id : Exists(i) => entries[i].key # k

WorkerInv(w) == /\ Placed(w) /\ PendingRow(w) /\ TargetKnown(w)
                /\ HoldsPeriod(w) /\ HoldsNumber(w) /\ HoldsKey(w)

(* The rows themselves: a draft or an absent row has no number, and what   *)
(* was ever posted has lines.                                              *)
EntryInv(i) ==
  /\ entries[i].status \in {"draft", "absent"} => entries[i].num = 0
  /\ Contributes(entries[i]) => Len(entries[i].lines) >= 2

LedgerInv == /\ \A w \in Worker : WorkerInv(w)
             /\ \A i \in Id : EntryInv(i)

(* Where one worker voids: the entry it unwinds is still in the books, or  *)
(* reversed there, until its own commit, and it unwinds what was posted.   *)
OneVoider ==
  \A v, w \in Worker : "void" \in OpsOf[v] /\ "void" \in OpsOf[w] => v = w

Unwound(w) == \/ Unwinds(w)
              \/ pc[w] = "void_update" /\ ws[w].seen = "posted"

UnwindInv(w) == LET work == ws[w] IN
  /\ work.op = "void" => "void" \in OpsOf[w]
  /\ Voids(w) /\ work.seen = "posted" => entries[work.target].status # "voided"
  /\ pc[w] # "patch_commit" =>
       work.lines = IF Unwound(w) THEN entries[work.target].lines ELSE <<>>
=============================================================================
