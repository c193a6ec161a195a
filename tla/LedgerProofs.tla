---------------------------- MODULE LedgerProofs ----------------------------
(* Theorems of the ledger, for any number of workers, periods, entries and *)
(* business events.                                                        *)
EXTENDS Ledger, SequenceTheorems, FiniteSetTheorems, SumTheorems, TLAPS

(* How one entry may change in a step.                                     *)
Life(i) ==
  /\ Exists(i) => Exists(i)' /\ entries'[i].key = entries[i].key
  /\ entries[i].status \in {"posted", "voided", "reversed"} =>
       /\ entries'[i].status \in {"posted", "voided", "reversed"}
       /\ entries'[i].period = entries[i].period
       /\ entries'[i].lines = entries[i].lines
  /\ entries[i].status \in {"draft", "voided"} =>
       entries'[i].status \in {"draft", "voided"}
  /\ entries[i].status = "reversed" => entries'[i].status = "reversed"

(* What a step of w leaves alone: the other requests, their locks, and     *)
(* what these locks protect.                                               *)
Frame(w) ==
  /\ \A v \in Worker \ {w} : pc'[v] = pc[v] /\ ws'[v] = ws[v]
  /\ \A v \in Worker \ {w}, r \in Row : lock[r] = v => lock'[r] = v
  /\ ws'[w].id \in {0, ws[w].id} \/ \A v \in Worker : ws[v].id # ws'[w].id
  /\ \A i \in Id : Life(i)
  /\ \A p \in Period : period'[p] = period[p] \/ lock[p] = w
  /\ \A s \in Scope : seq'[s] = seq[s] \/ lock[s] = w
  /\ \A i \in Id : Exists(i)' /\ ~Exists(i) =>
       /\ i = ws[w].id /\ entries'[i].key = ws[w].new.key
       /\ entries'[i].key \in Key => lock[entries'[i].key] = w

Inv == TypeOK /\ LedgerInv

-----------------------------------------------------------------------------
(* Types of the building blocks.                                           *)

LEMMA BlankTyped == Blank \in Work /\ NoEntry \in Entry
BY DEF Blank, NoEntry, Work, Entry

LEMMA EntryRowTyped ==
  ASSUME NEW s \in Status, NEW p \in Period, NEW k \in Key \cup {NoKey},
         NEW ls \in Seq(Line), NEW d \in Id \cup {0}
  PROVE  /\ EntryRow(s, p, k, ls, d) \in Entry
         /\ EntryRow(s, p, k, ls, d).status = s
         /\ EntryRow(s, p, k, ls, d).period = p
         /\ EntryRow(s, p, k, ls, d).key = k
         /\ EntryRow(s, p, k, ls, d).lines = ls
         /\ EntryRow(s, p, k, ls, d).num = 0
BY DEF EntryRow, NoEntry, Entry

LEMMA OrderTyped ==
  ASSUME NEW ls \in Seq(Line), Len(ls) >= 2
  PROVE  InLineOrder(ls) \in Seq(Account) /\ InLineOrder(ls) # <<>>
<1>1. \A n \in 1..Len(ls) : ls[n].account \in Account
  <2>1. \A n \in 1..Len(ls) : ls[n] \in Line
    BY ElementOfSeq
  <2> QED
    BY <2>1 DEF Line
<1>2. InLineOrder(ls) = [n \in 1..Len(ls) |-> ls[n].account]
  BY DEF InLineOrder
<1>3. InLineOrder(ls) \in Seq(Account) /\ Len(InLineOrder(ls)) = Len(ls)
  BY <1>1, <1>2
<1> QED
  BY <1>3

LEMMA SwappedTyped ==
  ASSUME NEW ls \in Seq(Line)
  PROVE  Swapped(ls) \in Seq(Line) /\ Len(Swapped(ls)) = Len(ls)
<1>1. \A n \in 1..Len(ls) : [account |-> ls[n].account, debit |-> ls[n].credit,
                             credit |-> ls[n].debit] \in Line
  <2>1. \A n \in 1..Len(ls) : ls[n] \in Line
    BY ElementOfSeq
  <2> QED
    BY <2>1 DEF Line
<1>2. Swapped(ls) = [n \in 1..Len(ls) |->
         [account |-> ls[n].account, debit |-> ls[n].credit,
          credit |-> ls[n].debit]]
  BY DEF Swapped
<1> QED
  BY <1>1, <1>2

-----------------------------------------------------------------------------
(* Steps that only end a request, and steps that leave the tables alone.   *)

LEMMA OthersKeep ==
  ASSUME NEW w \in Worker, Inv, Frame(w), NEW v \in Worker \ {w}
  PROVE  WorkerInv(v)'
<1> USE DEF Inv
<1> DEFINE id == ws[v].id
           new == ws[v].new
<1>1. pc'[v] = pc[v] /\ ws'[v] = ws[v]
  BY DEF Frame
<1>2. /\ Inserts(v)' <=> Inserts(v)
      /\ Unwinds(v)' <=> Unwinds(v)
      /\ Voids(v)' <=> Voids(v)
  BY <1>1 DEF Inserts, Unwinds, Voids
<1>3. WorkerInv(v) /\ WorkerInv(w)
  BY DEF LedgerInv
<1>4. ws[v] \in Work /\ ws[w] \in Work
  BY DEF TypeOK
<1>5. \A i \in Id : Life(i)
  BY DEF Frame
<1>6. Placed(v)'
  BY <1>1, <1>2, <1>3, <1>5 DEF WorkerInv, Placed, Past, Life, Inserts, Unwinds, Voids
<1>7. PendingRow(v)'
  <2>1. CASE id = 0
    BY <2>1, <1>1, <1>3 DEF WorkerInv, PendingRow
  <2>2. CASE id # 0
    <3>1. id \in Id /\ ws[w].id # id /\ ~Exists(id)
      BY <2>2, <1>3, <1>4 DEF WorkerInv, PendingRow, Work
    <3>2. ~Exists(id)'
      BY <3>1 DEF Frame
    <3>3. \A u \in Worker \ {v} : ws'[u].id # id
      <4> TAKE u \in Worker \ {v}
      <4>1. CASE u = w
        BY <4>1, <3>1, <2>2 DEF Frame
      <4>2. CASE u # w
        BY <4>2, <2>2, <1>3 DEF WorkerInv, PendingRow, Frame
      <4> QED BY <4>1, <4>2
    <3> QED
      BY <1>1, <1>3, <2>2, <3>2, <3>3 DEF WorkerInv, PendingRow, Exists
  <2> QED BY <2>1, <2>2
<1>8. TargetKnown(v)'
  BY <1>1, <1>2, <1>3, <1>5 DEF WorkerInv, Placed, TargetKnown, Life
<1>9. HoldsPeriod(v)'
  <2>1. \A p \in Period : lock[p] = v => lock'[p] = v /\ period'[p] = period[p]
    BY DEF Frame, Row
  <2>2. Inserts(v) => new.period \in Period
    BY <1>3 DEF WorkerInv, PendingRow, Inserts
  <2>3. /\ pc[v] \in {"void_update", "transition_write"} => ws[v].at \in Period
        /\ Unwinds(v) => ws[v].at \in Period
    BY <1>3 DEF WorkerInv, Placed, Voids
  <2> QED
    BY <1>1, <1>2, <1>3, <2>1, <2>2, <2>3 DEF WorkerInv, HoldsPeriod, Past
<1>10. HoldsNumber(v)'
  <2>1. \A s \in Scope : lock[s] = v => lock'[s] = v /\ seq'[s] = seq[s]
    BY DEF Frame, Row
  <2>2. Inserts(v) => ScopeOf[new.period] \in Scope
    BY <1>3, ConstantsOK DEF WorkerInv, PendingRow, Inserts
  <2> QED
    BY <1>1, <1>2, <1>3, <2>1, <2>2 DEF WorkerInv, HoldsNumber, Past
<1>11. HoldsKey(v)'
  <2>1. SUFFICES ASSUME Past(v, {"validate", "lock_period", "number", "insert"})
                 PROVE  /\ lock'[new.key] = v
                        /\ \A i \in Id : Exists(i)' => entries'[i].key # new.key
    BY <1>1, <1>2 DEF HoldsKey, Past
  <2>2. new.key \in Key /\ lock[new.key] = v
    BY <1>3, <2>1 DEF WorkerInv, PendingRow, HoldsKey, Past, Inserts
  <2>3. lock'[new.key] = v
    BY <2>2 DEF Frame, Row
  <2>4. ASSUME NEW i \in Id, Exists(i)'
        PROVE  entries'[i].key # new.key
    <3>1. CASE Exists(i)
      BY <3>1, <1>3, <1>5, <2>1 DEF WorkerInv, HoldsKey, Life
    <3>2. CASE ~Exists(i)
      BY <3>2, <2>4, <2>2 DEF Frame
    <3> QED BY <3>1, <3>2
  <2> QED BY <2>3, <2>4
<1> QED
  BY <1>6, <1>7, <1>8, <1>9, <1>10, <1>11 DEF WorkerInv

LEMMA StepKeeps ==
  ASSUME NEW w \in Worker, Inv, Frame(w), TypeOK', WorkerInv(w)',
         \A i \in Id : EntryInv(i)'
  PROVE  Inv'
BY OthersKeep DEF Inv, LedgerInv

(* Steps that leave the tables alone and take at most one lock.            *)
LEMMA QuietKeeps ==
  ASSUME NEW w \in Worker, NEW at \in Place, NEW work \in Work, Inv,
         pc' = [pc EXCEPT ![w] = at],
         ws' = [ws EXCEPT ![w] = work],
         UNCHANGED db,
         UNCHANGED lock \/ \E r \in Row : Free(w, r) /\ Take(w, r),
         work.id \in {0, ws[w].id} \/ \A v \in Worker : ws[v].id # work.id
  PROVE  /\ TypeOK' /\ Frame(w)
         /\ pc'[w] = at /\ ws'[w] = work
         /\ WorkerInv(w)' => Inv'
<1> USE DEF Inv
<1>1. pc'[w] = at /\ ws'[w] = work
  BY DEF TypeOK
<1>2. lock' \in [Row -> Worker \cup {Nobody}]
  BY DEF TypeOK, Take
<1>3. \A v \in Worker \ {w}, r \in Row : lock[r] = v => lock'[r] = v
  <2> SUFFICES ASSUME NEW v \in Worker \ {w}, NEW r \in Row, lock[r] = v
               PROVE  lock'[r] = v
    OBVIOUS
  <2>1. CASE UNCHANGED lock
    BY <2>1
  <2>2. CASE \E q \in Row : Free(w, q) /\ Take(w, q)
    <3>1. PICK q \in Row : Free(w, q) /\ Take(w, q)
      BY <2>2
    <3>2. q # r
      BY <3>1, ConstantsOK DEF Free
    <3> QED
      BY <3>1, <3>2 DEF Take, TypeOK
  <2> QED
    BY <2>1, <2>2
<1>4. TypeOK'
  BY <1>2 DEF TypeOK, db, Exists
<1>5. \A i \in Id : Life(i)
  BY DEF Life, db, Exists, TypeOK, Entry, Status
<1>6. Frame(w)
  BY <1>1, <1>3, <1>5 DEF Frame, db, TypeOK, Exists
<1>7. \A i \in Id : EntryInv(i)'
  BY DEF LedgerInv, EntryInv, db, Contributes
<1> QED
  BY <1>1, <1>4, <1>6, <1>7, StepKeeps

(* COMMIT and ROLLBACK leave the worker idle.                              *)
LEMMA EndKeeps ==
  ASSUME NEW w \in Worker, Inv, End(w)
  PROVE  /\ lock' \in [Row -> Worker \cup {Nobody}]
         /\ pc' \in [Worker -> Place] /\ ws' \in [Worker -> Work]
         /\ \A v \in Worker \ {w} : pc'[v] = pc[v] /\ ws'[v] = ws[v]
         /\ \A v \in Worker \ {w}, r \in Row : lock[r] = v => lock'[r] = v
         /\ ws'[w].id = 0
         /\ WorkerInv(w)'
<1> USE DEF Inv
<1>1. pc'[w] = "idle" /\ ws'[w] = Blank
  BY DEF TypeOK, End
<1>2. WorkerInv(w)'
  BY <1>1 DEF WorkerInv, Placed, PendingRow, TargetKnown, HoldsPeriod,
              HoldsNumber, HoldsKey, Inserts, Past, Unwinds, Voids, Blank
<1> QED
  BY <1>1, <1>2, BlankTyped DEF TypeOK, End, Place, Blank

LEMMA RollbackKeeps ==
  ASSUME NEW w \in Worker, Inv, Rollback(w)
  PROVE  Inv'
<1> USE DEF Inv
<1>1. End(w) /\ UNCHANGED db
  BY DEF Rollback
<1>2. TypeOK'
  BY <1>1, EndKeeps DEF TypeOK, db, Exists
<1>3. \A i \in Id : Life(i)
  BY <1>1 DEF Life, db, Exists, TypeOK, Entry, Status
<1>4. Frame(w)
  BY <1>1, <1>3, EndKeeps DEF Frame, db, TypeOK, Exists
<1>5. \A i \in Id : EntryInv(i)'
  BY <1>1 DEF LedgerInv, EntryInv, db, Contributes
<1> QED
  BY <1>1, <1>2, <1>4, <1>5, EndKeeps, StepKeeps

-----------------------------------------------------------------------------
(* The commits.                                                            *)

(* What the statements after the insert may still change of a row.         *)
Kept(e, f) ==
  /\ f.key = e.key /\ f.num = e.num /\ f.period = e.period /\ f.lines = e.lines
  /\ e.status = "absent" <=> f.status = "absent"
  /\ e.status \in {"draft", "voided"} => f.status \in {"draft", "voided"}
  /\ e.status \in {"posted", "voided", "reversed"} =>
       f.status \in {"posted", "voided", "reversed"}
  /\ f.status = "draft" => e.status = "draft"
  /\ e.status = "reversed" => f.status = "reversed"
  /\ Contributes(f) => Contributes(e)

(* The transaction of w is about to write the entry table es.              *)
Commits(w, es) ==
  /\ pc[w] \in {"posted", "void_update"}
  /\ es \in [Id -> Entry]
  /\ \A i \in Id : Kept(WithInsert(w, entries)[i], es[i])
  /\ CommitLedger(w, es)

LEMMA PendingFacts ==
  ASSUME NEW w \in Worker, Inv, pc[w] \in {"posted", "void_update"}
  PROVE  LET new == ws[w].new IN
         /\ ws[w].id = 0 => new = NoEntry /\ new.num = 0
         /\ ws[w].id # 0 =>
              /\ ws[w].id \in Id /\ ~Exists(ws[w].id)
              /\ new.status = "posted" /\ new.period \in Period
              /\ new.key \in Key /\ lock[new.key] = w
              /\ \A i \in Id : Exists(i) => entries[i].key # new.key
              /\ Len(new.lines) >= 2
              /\ lock[new.period] = w /\ period[new.period] = "open"
              /\ lock[ScopeOf[new.period]] = w
              /\ new.num = seq[ScopeOf[new.period]]
<1>1. WorkerInv(w) /\ ws[w] \in Work
  BY DEF Inv, LedgerInv, TypeOK
<1>2. ws[w].id # 0 => ws[w].new.status = "posted"
  BY <1>1
  DEF WorkerInv, PendingRow, Placed, Voids, Unwinds
<1> QED
  BY <1>1, <1>2 DEF WorkerInv, Placed, PendingRow, HoldsPeriod, HoldsNumber,
                    HoldsKey, Past, Inserts, NoEntry, Work

(* Row by row, the new table is the old one but for the insert.            *)
LEMMA CommitRows ==
  ASSUME NEW w \in Worker, Inv, NEW es, Commits(w, es), NEW i \in Id
  PROVE  /\ entries'[i] = es[i]
         /\ i # ws[w].id => Kept(entries[i], entries'[i])
         /\ i = ws[w].id => Kept(ws[w].new, entries'[i])
<1>1. WithInsert(w, entries)[i] = IF i = ws[w].id THEN ws[w].new ELSE entries[i]
  BY ConstantsOK DEF WithInsert, Inv, TypeOK, Work
<1>2. entries' = es /\ Kept(WithInsert(w, entries)[i], es[i])
  BY DEF Commits, CommitLedger
<1> QED
  BY <1>1, <1>2

LEMMA CommitFrame ==
  ASSUME NEW w \in Worker, Inv, NEW es, Commits(w, es)
  PROVE  Frame(w)
<1>1. End(w) /\ UNCHANGED period
  BY DEF Commits, CommitLedger
<1>2. \A i \in Id : Life(i)
  <2> TAKE i \in Id
  <2>1. CASE i = ws[w].id
    <3>1. entries[i].status = "absent"
      BY <2>1, PendingFacts, ConstantsOK DEF Commits, Exists
    <3> QED
      BY <3>1 DEF Life, Exists
  <2>2. CASE i # ws[w].id
    <3>1. Kept(entries[i], entries'[i])
      BY <2>2, CommitRows
    <3> QED
      BY <3>1 DEF Life, Kept, Exists
  <2> QED
    BY <2>1, <2>2
<1>3. \A s \in Scope : seq'[s] = seq[s] \/ lock[s] = w
  <2>1. CASE ws[w].id = 0
    BY <2>1, PendingFacts DEF Commits, CommitLedger
  <2>2. CASE ws[w].id # 0
    <3>1. lock[ScopeOf[ws[w].new.period]] = w
      BY <2>2, PendingFacts DEF Commits
    <3> QED
      BY <3>1 DEF Commits, CommitLedger, Inv, TypeOK
  <2> QED
    BY <2>1, <2>2
<1>4. ASSUME NEW i \in Id, Exists(i)', ~Exists(i)
      PROVE  /\ i = ws[w].id /\ entries'[i].key = ws[w].new.key
             /\ lock[entries'[i].key] = w
  <2>1. i = ws[w].id
    BY <1>4, CommitRows DEF Kept, Exists
  <2>2. entries'[i].key = ws[w].new.key
    BY <2>1, CommitRows DEF Kept
  <2>3. lock[ws[w].new.key] = w
    BY <2>1, PendingFacts, ConstantsOK DEF Commits
  <2> QED
    BY <2>1, <2>2, <2>3
<1> QED
  BY <1>1, <1>2, <1>3, <1>4, EndKeeps DEF Frame

LEMMA CommitTyped ==
  ASSUME NEW w \in Worker, Inv, NEW es, Commits(w, es)
  PROVE  TypeOK'
<1>1. /\ End(w) /\ entries' = es /\ UNCHANGED <<period, active>>
      /\ DOMAIN balance' = Account
  BY DEF Commits, CommitLedger
<1>2. seq' \in [Scope -> Nat \ {0}]
  <2>1. ws[w].new.num \in Nat
    BY DEF Inv, TypeOK, Work, Entry
  <2>2. seq \in [Scope -> Nat \ {0}]
    BY DEF Inv, TypeOK
  <2>3. ws[w].new.num + 1 \in Nat \ {0}
    BY <2>1
  <2>4. \/ seq' = seq
        \/ seq' = [seq EXCEPT ![ScopeOf[ws[w].new.period]] = ws[w].new.num + 1]
    BY DEF Commits, CommitLedger
  <2> QED
    BY <2>2, <2>3, <2>4
<1>3. \A i \in Id : Exists(i)' => entries'[i].period \in Period
  <2> TAKE i \in Id
  <2>1. CASE i = ws[w].id
    BY <2>1, CommitRows, PendingFacts, ConstantsOK DEF Kept, Commits
  <2>2. CASE i # ws[w].id
    BY <2>2, CommitRows DEF Kept, Exists, Inv, TypeOK
  <2> QED
    BY <2>1, <2>2
<1> QED
  BY <1>1, <1>2, <1>3, EndKeeps DEF TypeOK, Inv, Commits

LEMMA CommitKeeps ==
  ASSUME NEW w \in Worker, Inv, NEW es, Commits(w, es)
  PROVE  Inv'
<1>1. \A i \in Id : EntryInv(i)'
  <2> TAKE i \in Id
  <2>1. CASE i = ws[w].id
    BY <2>1, CommitRows, PendingFacts, ConstantsOK
    DEF Kept, Commits, EntryInv, Contributes
  <2>2. CASE i # ws[w].id
    BY <2>2, CommitRows DEF Kept, EntryInv, Inv, LedgerInv
  <2> QED
    BY <2>1, <2>2
<1>2. End(w)
  BY DEF Commits, CommitLedger
<1> QED
  BY <1>1, <1>2, CommitFrame, CommitTyped, EndKeeps, StepKeeps

LEMMA CommitKeys ==
  ASSUME NEW w \in Worker, Inv, OneEntryPerKey, NEW es, Commits(w, es)
  PROVE  OneEntryPerKey'
<1> SUFFICES ASSUME NEW i \in Id, NEW j \in Id, i # j, Exists(i)', Exists(j)',
                    entries'[i].key # NoKey
             PROVE  entries'[i].key # entries'[j].key
  BY DEF OneEntryPerKey, Exists
<1>1. ASSUME NEW k \in Id, k # ws[w].id, Exists(k)'
      PROVE  Exists(k) /\ entries'[k].key = entries[k].key
  BY <1>1, CommitRows DEF Kept, Exists
<1>2. ASSUME NEW k \in Id, k = ws[w].id
      PROVE  /\ entries'[k].key = ws[w].new.key
             /\ \A l \in Id : Exists(l) => entries[l].key # ws[w].new.key
  BY <1>2, CommitRows, PendingFacts, ConstantsOK DEF Kept, Commits
<1> QED
  BY <1>1, <1>2 DEF OneEntryPerKey

LEMMA RangeGrows ==
  ASSUME NEW n \in Nat \ {0}
  PROVE  1..(n - 1) \cup {n} = 1..(n + 1 - 1)
OBVIOUS

(* A number is taken exactly when the row that carries it is committed.    *)
LEMMA CommitNumbers ==
  ASSUME NEW w \in Worker, Inv, GaplessNumbers, NEW es, Commits(w, es)
  PROVE  GaplessNumbers'
<1> DEFINE id == ws[w].id
           t == ScopeOf[ws[w].new.period]
           In(i, s) == Numbered(i) /\ ScopeOf[entries[i].period] = s
<1>1. /\ seq \in [Scope -> Nat \ {0}]
      /\ \A i \in Id : Numbered(i) => entries[i].num \in Nat /\ Exists(i)
  BY DEF Inv, TypeOK, LedgerInv, EntryInv, Entry, Numbered, Exists
<1>2. \A i \in Id \ {id} : /\ entries'[i].num = entries[i].num
                            /\ entries'[i].period = entries[i].period
  BY CommitRows DEF Kept
<1>3. CASE id = 0
  <2>1. \A i \in Id : /\ entries'[i].num = entries[i].num
                      /\ entries'[i].period = entries[i].period
    BY <1>2, <1>3, ConstantsOK
  <2>2. seq' = seq
    BY <1>3, PendingFacts DEF Commits, CommitLedger
  <2> QED
    BY <2>1, <2>2 DEF GaplessNumbers, NumbersIn, Numbered
<1>4. CASE id # 0
  <2>1. /\ id \in Id /\ ~Numbered(id) /\ t \in Scope
        /\ entries'[id].num = seq[t] /\ ScopeOf[entries'[id].period] = t
        /\ ws[w].new.num = seq[t]
    <3>1. /\ id \in Id /\ ~Exists(id) /\ ws[w].new.period \in Period
          /\ ws[w].new.num = seq[t]
      BY <1>4, PendingFacts DEF Commits
    <3>2. Kept(ws[w].new, entries'[id])
      BY <3>1, CommitRows
    <3> QED
      BY <1>1, <3>1, <3>2, ConstantsOK DEF Kept
  <2>2. \A s \in Scope : seq'[s] = IF s = t THEN seq[t] + 1 ELSE seq[s]
    <3>1. ws[w].new.num # 0 /\ ws[w].new.num + 1 = seq[t] + 1
      BY <1>1, <2>1
    <3>2. seq' = [seq EXCEPT ![t] = ws[w].new.num + 1]
      BY <3>1 DEF Commits, CommitLedger
    <3> QED
      BY <1>1, <2>1, <3>2
  <2>3. \A i \in Id, s \in Scope :
          In(i, s)' <=> In(i, s) \/ (i = id /\ s = t)
    BY <1>1, <1>2, <2>1 DEF Numbered
  <2>4. ASSUME NEW s \in Scope
        PROVE  NumbersIn(s)' = 1..(seq'[s] - 1)
    <3>1. NumbersIn(s) = 1..(seq[s] - 1)
      BY DEF GaplessNumbers
    <3>2. CASE s = t
      <4>1. NumbersIn(s)' = NumbersIn(s) \cup {seq[t]}
        BY <1>2, <2>1, <2>3, <3>2 DEF NumbersIn
      <4> QED
        <5>1. seq[t] \in Nat \ {0} /\ seq'[s] = seq[t] + 1
          BY <1>1, <2>1, <2>2, <3>2
        <5>2. 1..(seq[t] - 1) \cup {seq[t]} = 1..(seq[t] + 1 - 1)
          BY <5>1, RangeGrows
        <5>3. NumbersIn(s)' = 1..(seq[t] - 1) \cup {seq[t]}
          BY <3>1, <3>2, <4>1, Zenon
        <5>4. 1..(seq'[s] - 1) = 1..(seq[t] + 1 - 1)
          BY <5>1
        <5> QED
          BY <5>2, <5>3, <5>4
    <3>3. CASE s # t
      <4>1. NumbersIn(s)' = NumbersIn(s)
        BY <1>2, <2>1, <2>3, <3>3 DEF NumbersIn
      <4> QED
        BY <2>2, <3>1, <3>3, <4>1
    <3> QED
      BY <3>2, <3>3
  <2>5. ASSUME NEW i \in Id, In(i, t)
        PROVE  entries[i].num # seq[t]
    <3>1. entries[i].num \in NumbersIn(t)
      BY <2>5 DEF NumbersIn
    <3>2. entries[i].num \in 1..(seq[t] - 1)
      BY <2>1, <3>1 DEF GaplessNumbers
    <3> QED
      BY <1>1, <2>1, <3>2
  <2>6. ASSUME NEW i \in Id, NEW j \in Id, Numbered(i)', Numbered(j)',
               entries'[i].num = entries'[j].num,
               ScopeOf[entries'[i].period] = ScopeOf[entries'[j].period]
        PROVE  i = j
    <3>1. CASE i # id /\ j # id
      BY <3>1, <2>6, <1>2 DEF GaplessNumbers, Numbered
    <3>2. CASE i = id /\ j # id
      BY <3>2, <2>6, <1>2, <2>1, <2>5 DEF Numbered
    <3>3. CASE i # id /\ j = id
      BY <3>3, <2>6, <1>2, <2>1, <2>5 DEF Numbered
    <3> QED
      BY <3>1, <3>2, <3>3
  <2> QED
    BY <2>4, <2>6 DEF GaplessNumbers
<1> QED
  BY <1>3, <1>4

LEMMA CommitMovesOpenPeriod ==
  ASSUME NEW w \in Worker, Inv, NEW es, Commits(w, es),
         \A i \in Id : Contributes(entries[i]) /\ ~Contributes(es[i])
                          => period[entries[i].period] = "open",
         NEW i \in Id, Contributes(entries[i]) # Contributes(entries'[i])
  PROVE  period[entries'[i].period] = "open" /\ UNCHANGED period
<1>1. UNCHANGED period /\ entries'[i] = es[i]
  BY CommitRows DEF Commits, CommitLedger
<1>2. CASE i = ws[w].id
  <2>1. /\ entries'[i].period = ws[w].new.period
        /\ period[ws[w].new.period] = "open"
    BY <1>2, CommitRows, PendingFacts, ConstantsOK DEF Kept, Commits
  <2> QED
    BY <1>1, <2>1
<1>3. CASE i # ws[w].id
  <2>1. Kept(entries[i], entries'[i])
    BY <1>3, CommitRows
  <2>2. Contributes(entries[i]) /\ ~Contributes(es[i])
    BY <1>1, <2>1 DEF Kept, Contributes
  <2> QED
    BY <1>1, <2>1, <2>2 DEF Kept
<1> QED
  BY <1>1, <1>2, <1>3

-----------------------------------------------------------------------------
(* Requests.                                                               *)

LEMMA NewIdUnused == Room => NewId \in Id /\ Unused(NewId)
BY DEF Room, NewId

(* An idle worker begins a request that takes no lock.                     *)
LEMMA BeginKeeps ==
  ASSUME NEW w \in Worker, NEW op \in Op, NEW at \in Place, NEW work \in Work,
         Inv, Begin(w, op, at, work), UNCHANGED <<db, lock>>,
         work.id = 0 \/ Unused(work.id)
  PROVE  /\ TypeOK' /\ Frame(w)
         /\ pc'[w] = at /\ ws'[w] = work
         /\ WorkerInv(w)' => Inv'
BY QuietKeeps DEF Begin, Unused

(* A request that will insert an entry begins.                             *)
LEMMA InsertBegins ==
  ASSUME NEW w \in Worker, NEW op \in {"post", "post_draft", "reverse"},
         NEW id \in Id, NEW new \in Entry, NEW work \in Work,
         Inv, Unused(id), Begin(w, op, "validate", work), UNCHANGED <<db, lock>>,
         new.status = "posted", new.period \in Period, new.key \in Key,
         new.num = 0, work.op = op, work.id = id, work.new = new,
         op # "post" => work.target \in Id,
         op = "reverse" => entries[work.target].status = "posted"
  PROVE  Inv'
<1>1. /\ TypeOK' /\ Frame(w) /\ pc'[w] = "validate" /\ ws'[w] = work
      /\ WorkerInv(w)' => Inv'
  BY BeginKeeps DEF Op, Place
<1>2. id # 0 /\ ~Exists(id)' /\ \A v \in Worker \ {w} : ws'[v].id # id
  BY <1>1, ConstantsOK DEF Unused, Exists, Frame, db
<1>3. Placed(w)'
  BY <1>1, <1>2 DEF Placed, Inserts, Past, Unwinds, Voids
<1>4. PendingRow(w)'
  BY <1>1, <1>2 DEF PendingRow, Exists
<1>5. TargetKnown(w)'
  BY <1>1 DEF TargetKnown, Unwinds, Voids, db
<1>6. HoldsPeriod(w)' /\ HoldsNumber(w)' /\ HoldsKey(w)'
  BY <1>1, <1>2 DEF HoldsPeriod, HoldsNumber, HoldsKey, Inserts, Past, Unwinds
<1> QED
  BY <1>1, <1>3, <1>4, <1>5, <1>6 DEF WorkerInv

LEMMA PostKeeps ==
  ASSUME NEW w \in Worker, Inv, Post(w)
  PROVE  Inv'
<1>1. PICK k \in DocKey, p \in Period, ls \in Template :
        /\ Room
        /\ Begin(w, "post", "validate",
             [Blank EXCEPT !.op = "post", !.id = NewId,
                           !.new = EntryRow("posted", p, <<"doc", k>>, ls, 0)])
        /\ UNCHANGED <<db, lock>>
  BY DEF Post
<1> DEFINE new == EntryRow("posted", p, <<"doc", k>>, ls, 0)
           work == [Blank EXCEPT !.op = "post", !.id = NewId, !.new = new]
<1>2. <<"doc", k>> \in Key /\ ls \in Seq(Line)
  BY ConstantsOK DEF Key
<1>3. /\ new \in Entry /\ new.status = "posted" /\ new.period \in Period
      /\ new.key \in Key /\ new.num = 0
  BY <1>2, EntryRowTyped DEF Status
<1>4. NewId \in Id /\ Unused(NewId)
  BY <1>1, NewIdUnused
<1>5. Begin(w, "post", "validate", work)
  BY <1>1
<1> HIDE DEF new
<1>6. work \in Work /\ work.id = NewId /\ work.new = new /\ work.op = "post"
  BY <1>3, <1>4, BlankTyped DEF Work, Blank, Op
<1> HIDE DEF work
<1> QED
  BY <1>1, <1>3, <1>4, <1>5, <1>6, InsertBegins

LEMMA PostDraftKeeps ==
  ASSUME NEW w \in Worker, Inv, PostDraft(w)
  PROVE  Inv'
<1>1. PICK i \in Id, k \in {"draft"} \X Id \cup {"client"} \X ClientKey :
        /\ entries[i].status = "draft"
        /\ Room
        /\ Begin(w, "post_draft", "validate",
             [Blank EXCEPT !.op = "post_draft", !.target = i, !.id = NewId,
                !.new = EntryRow("posted", entries[i].period, k,
                                 entries[i].lines, i)])
        /\ UNCHANGED <<db, lock>>
  BY DEF PostDraft
<1> DEFINE new == EntryRow("posted", entries[i].period, k, entries[i].lines, i)
           work == [Blank EXCEPT !.op = "post_draft", !.target = i, !.id = NewId,
                                 !.new = new]
<1>2. k \in Key /\ entries[i].lines \in Seq(Line) /\ entries[i].period \in Period
  BY <1>1, ConstantsOK DEF Key, Inv, TypeOK, Entry, Exists
<1>3. /\ new \in Entry /\ new.status = "posted" /\ new.period \in Period
      /\ new.key \in Key /\ new.num = 0
  BY <1>2, EntryRowTyped DEF Status
<1>4. NewId \in Id /\ Unused(NewId)
  BY <1>1, NewIdUnused
<1>5. Begin(w, "post_draft", "validate", work)
  BY <1>1
<1> HIDE DEF new
<1>6. /\ work \in Work /\ work.id = NewId /\ work.new = new
      /\ work.op = "post_draft" /\ work.target \in Id
  BY <1>3, <1>4, BlankTyped DEF Work, Blank, Op
<1> HIDE DEF work
<1> QED
  BY <1>1, <1>3, <1>4, <1>5, <1>6, InsertBegins

LEMMA ReverseEntryKeeps ==
  ASSUME NEW w \in Worker, Inv, ReverseEntry(w)
  PROVE  Inv'
<1>1. PICK i \in Id, p \in Period :
        /\ entries[i].status = "posted"
        /\ Room
        /\ Begin(w, "reverse", "validate",
             [Blank EXCEPT !.op = "reverse", !.target = i, !.id = NewId,
                !.new = EntryRow("posted", p, <<"reversal", i>>,
                                 Swapped(entries[i].lines), 0)])
        /\ UNCHANGED <<db, lock>>
  BY DEF ReverseEntry
<1> DEFINE ls == Swapped(entries[i].lines)
           new == EntryRow("posted", p, <<"reversal", i>>, ls, 0)
           work == [Blank EXCEPT !.op = "reverse", !.target = i, !.id = NewId,
                                 !.new = new]
<1>2. <<"reversal", i>> \in Key /\ ls \in Seq(Line)
  BY SwappedTyped DEF Key, Inv, TypeOK, Entry
<1> HIDE DEF ls
<1>3. /\ new \in Entry /\ new.status = "posted" /\ new.period \in Period
      /\ new.key \in Key /\ new.num = 0
  BY <1>2, EntryRowTyped DEF Status
<1>4. NewId \in Id /\ Unused(NewId)
  BY <1>1, NewIdUnused
<1>5. Begin(w, "reverse", "validate", work)
  BY <1>1 DEF ls
<1> HIDE DEF new
<1>6. /\ work \in Work /\ work.id = NewId /\ work.new = new
      /\ work.op = "reverse" /\ work.target = i
  BY <1>3, <1>4, BlankTyped DEF Work, Blank, Op
<1> HIDE DEF work
<1> QED
  BY <1>1, <1>3, <1>4, <1>5, <1>6, InsertBegins

(* A request that inserts nothing: only what its first place relies on has *)
(* to be shown.                                                            *)
LEMMA OtherBegins ==
  ASSUME NEW w \in Worker, NEW at \in Place, NEW work \in Work,
         Inv, pc' = [pc EXCEPT ![w] = at], ws' = [ws EXCEPT ![w] = work],
         UNCHANGED db,
         UNCHANGED lock \/ \E r \in Row : Free(w, r) /\ Take(w, r),
         work.id = 0, work.new = NoEntry,
         at \in {"void_lock", "transition_write", "patch_commit", "archive_write"},
         work.op \notin {"post_draft", "reverse"},
         work.op = "void" => work.target \in Id,
         at = "void_lock" =>
           /\ work.op = "void"
           /\ work.at \in Period /\ work.target \in Id
           /\ work.seen \in {"draft", "posted"}
           /\ entries[work.target].status = work.seen
           /\ entries[work.target].period = work.at,
         at = "transition_write" =>
           work.at \in Period /\ work.to # "none" /\ lock'[work.at] = w,
         at = "patch_commit" => work.at \in Period /\ work.target \in Id
  PROVE  Inv'
<1>1. /\ TypeOK' /\ Frame(w) /\ pc'[w] = at /\ ws'[w] = work
      /\ WorkerInv(w)' => Inv'
  BY QuietKeeps
<1>2. Placed(w)'
  BY <1>1 DEF Placed, Inserts, Past, Unwinds, Voids
<1>3. PendingRow(w)'
  BY <1>1 DEF PendingRow
<1>4. TargetKnown(w)'
  BY <1>1 DEF TargetKnown, Unwinds, Voids, db, Inv, LedgerInv, EntryInv, Contributes
<1>5. HoldsPeriod(w)' /\ HoldsNumber(w)' /\ HoldsKey(w)'
  BY <1>1 DEF HoldsPeriod, HoldsNumber, HoldsKey, Inserts, Past, Unwinds
<1> QED
  BY <1>1, <1>2, <1>3, <1>4, <1>5 DEF WorkerInv

LEMMA VoidEntryKeeps ==
  ASSUME NEW w \in Worker, Inv, VoidEntry(w)
  PROVE  Inv'
<1>1. PICK i \in Id :
        /\ entries[i].status \in {"draft", "posted"}
        /\ Begin(w, "void", "void_lock",
             [Blank EXCEPT !.op = "void", !.target = i,
                !.seen = entries[i].status, !.at = entries[i].period])
        /\ UNCHANGED <<db, lock>>
  BY DEF VoidEntry
<1> DEFINE work == [Blank EXCEPT !.op = "void", !.target = i,
                      !.seen = entries[i].status, !.at = entries[i].period]
<1>2. entries[i].period \in Period
  BY <1>1 DEF Inv, TypeOK, Exists
<1>3. /\ work \in Work /\ work.id = 0 /\ work.new = NoEntry
      /\ work.op = "void" /\ work.target = i
      /\ work.seen = entries[i].status /\ work.at = entries[i].period
  BY <1>1, <1>2, BlankTyped DEF Work, Blank, Op, Status
<1>4. Begin(w, "void", "void_lock", work)
  BY <1>1
<1> HIDE DEF work
<1> QED
  BY <1>1, <1>2, <1>3, <1>4, OtherBegins DEF Begin, Place

LEMMA TransitionPeriodKeeps ==
  ASSUME NEW w \in Worker, Inv, TransitionPeriod(w)
  PROVE  Inv'
<1>1. PICK p \in Period, t \in PeriodStatus :
        /\ Free(w, p)
        /\ Begin(w, "transition", "transition_write",
             [Blank EXCEPT !.op = "transition", !.at = p, !.to = t])
        /\ Take(w, p) /\ UNCHANGED db
  BY DEF TransitionPeriod
<1> DEFINE work == [Blank EXCEPT !.op = "transition", !.at = p, !.to = t]
<1>2. /\ work \in Work /\ work.id = 0 /\ work.new = NoEntry
      /\ work.op = "transition" /\ work.at = p /\ work.to = t
  BY <1>1, BlankTyped DEF Work, Blank, Op
<1>3. Begin(w, "transition", "transition_write", work)
  BY <1>1
<1>4. p \in Row /\ lock'[p] = w /\ t # "none"
  BY <1>1 DEF Row, Take, Inv, TypeOK, PeriodStatus
<1> HIDE DEF work
<1>5. \E r \in Row : Free(w, r) /\ Take(w, r)
  BY <1>1, <1>4
<1> QED
  BY <1>1, <1>2, <1>3, <1>4, <1>5, OtherBegins DEF Begin, Place

LEMMA CreateDraftKeeps ==
  ASSUME NEW w \in Worker, Inv, CreateDraft(w)
  PROVE  Inv'
<1>1. PICK p \in Period, ls \in Template :
        /\ Room
        /\ Begin(w, "create_draft", "draft_commit",
             [Blank EXCEPT !.op = "create_draft", !.id = NewId,
                           !.new = EntryRow("draft", p, NoKey, ls, 0)])
        /\ UNCHANGED <<db, lock>>
  BY DEF CreateDraft
<1> DEFINE new == EntryRow("draft", p, NoKey, ls, 0)
           work == [Blank EXCEPT !.op = "create_draft", !.id = NewId, !.new = new]
<1>2. /\ new \in Entry /\ new.status = "draft" /\ new.period \in Period
      /\ new.key = NoKey /\ new.num = 0
  <2>1. ls \in Seq(Line) /\ NoKey \in Key \cup {NoKey} /\ 0 \in Id \cup {0}
    BY ConstantsOK
  <2>2. "draft" \in Status
    BY DEF Status
  <2> QED
    BY <2>1, <2>2, EntryRowTyped
<1>3. NewId \in Id /\ Unused(NewId)
  BY <1>1, NewIdUnused
<1>4. Begin(w, "create_draft", "draft_commit", work)
  BY <1>1
<1> HIDE DEF new
<1>5. /\ work \in Work /\ work.id = NewId /\ work.new = new
      /\ work.op = "create_draft"
  BY <1>2, <1>3, BlankTyped DEF Work, Blank, Op
<1> HIDE DEF work
<1>6. PICK id \in Id : id = NewId /\ Unused(id)
  BY <1>3
<1>7. /\ TypeOK' /\ Frame(w) /\ pc'[w] = "draft_commit" /\ ws'[w] = work
      /\ WorkerInv(w)' => Inv'
  BY <1>1, <1>3, <1>4, <1>5, BeginKeeps DEF Op, Place
<1>8. /\ id # 0 /\ ~Exists(id)' /\ \A v \in Worker \ {w} : ws'[v].id # id
      /\ ws'[w].id = id /\ ws'[w].new = new /\ ws'[w].op = "create_draft"
  BY <1>1, <1>5, <1>6, <1>7, ConstantsOK DEF Unused, Exists, Frame, db
<1>9. Placed(w)' /\ PendingRow(w)' /\ TargetKnown(w)'
  BY <1>2, <1>7, <1>8
  DEF Placed, PendingRow, TargetKnown, Inserts, Past, Unwinds, Voids, Exists
<1>10. HoldsPeriod(w)' /\ HoldsNumber(w)' /\ HoldsKey(w)'
  BY <1>2, <1>7, <1>8 DEF HoldsPeriod, HoldsNumber, HoldsKey, Inserts, Past, Unwinds
<1> QED
  BY <1>7, <1>9, <1>10 DEF WorkerInv

LEMMA PatchDraftKeeps ==
  ASSUME NEW w \in Worker, Inv, PatchDraft(w)
  PROVE  Inv'
<1>1. PICK i \in Id, p \in Period, ls \in Template :
        /\ Begin(w, "patch_draft", "patch_commit",
             [Blank EXCEPT !.op = "patch_draft", !.target = i, !.at = p,
                           !.lines = ls])
        /\ UNCHANGED <<db, lock>>
  BY DEF PatchDraft
<1> DEFINE work == [Blank EXCEPT !.op = "patch_draft", !.target = i, !.at = p,
                                 !.lines = ls]
<1>2. /\ work \in Work /\ work.id = 0 /\ work.new = NoEntry
      /\ work.op = "patch_draft" /\ work.at = p /\ work.target = i
  BY <1>1, BlankTyped, ConstantsOK DEF Work, Blank, Op
<1>3. Begin(w, "patch_draft", "patch_commit", work)
  BY <1>1
<1> HIDE DEF work
<1> QED
  BY <1>1, <1>2, <1>3, OtherBegins DEF Begin, Place

LEMMA ArchiveKeeps ==
  ASSUME NEW w \in Worker, Inv, Archive(w)
  PROVE  Inv'
<1>1. PICK a \in active :
        /\ Begin(w, "archive", "archive_write",
             [Blank EXCEPT !.op = "archive", !.at = a])
        /\ UNCHANGED <<db, lock>>
  BY DEF Archive
<1> DEFINE work == [Blank EXCEPT !.op = "archive", !.at = a]
<1>2. /\ work \in Work /\ work.id = 0 /\ work.new = NoEntry
      /\ work.op = "archive"
  BY <1>1, BlankTyped DEF Work, Blank, Op, Inv, TypeOK
<1>3. Begin(w, "archive", "archive_write", work)
  BY <1>1
<1> HIDE DEF work
<1> QED
  BY <1>1, <1>2, <1>3, OtherBegins DEF Begin, Place

-----------------------------------------------------------------------------
(* The steps of post_entry and void_entry that hold no more than locks.    *)

LEMMA WorkerFacts ==
  ASSUME NEW w \in Worker, Inv
  PROVE  WorkerInv(w) /\ ws[w] \in Work /\ pc[w] \in Place /\ ws[w].new \in Entry
BY DEF Inv, LedgerInv, TypeOK, Work

LEMMA ValidateKeeps ==
  ASSUME NEW w \in Worker, Inv, Validate(w)
  PROVE  Inv'
<1> DEFINE new == ws[w].new
           same == {i \in Id : Exists(i) /\ entries[i].key = new.key}
<1>1. CASE Rollback(w)
  BY <1>1, RollbackKeeps
<1>2. CASE ~Rollback(w)
  <2>1. pc[w] = "validate" /\ Balances(new.lines) /\ UNCHANGED <<db, lock>>
    BY <1>2 DEF Validate
  <2>2. Inserts(w) /\ Len(new.lines) >= 2
    BY <2>1, WorkerFacts DEF WorkerInv, Placed, Balances
  <2>3. CASE same = {}
    <3>1. pc' = [pc EXCEPT ![w] = "lock_period"] /\ UNCHANGED ws
      BY <1>2, <2>3 DEF Validate, Goto
    <3>2. ws' = [ws EXCEPT ![w] = ws[w]]
      BY <3>1 DEF Inv, TypeOK
    <3>3. pc'[w] = "lock_period" /\ ws'[w] = ws[w] /\ (WorkerInv(w)' => Inv')
      BY <2>1, <3>1, <3>2, WorkerFacts, QuietKeeps DEF Place
    <3>4. WorkerInv(w)'
      BY <2>1, <2>2, <3>1, <3>3, WorkerFacts
      DEF WorkerInv, Placed, PendingRow, TargetKnown, HoldsPeriod, HoldsNumber,
          HoldsKey, Inserts, Past, Unwinds, Voids, Exists, db
    <3> QED
      BY <3>3, <3>4
  <2>4. CASE same # {}
    <3> DEFINE i == CHOOSE j \in same : TRUE
               work == [ws[w] EXCEPT !.id = 0, !.new = NoEntry, !.found = i]
    <3>1. i \in Id /\ Exists(i)
      BY <2>4
    <3>2. pc' = [pc EXCEPT ![w] = "posted"] /\ ws' = [ws EXCEPT ![w] = work]
      BY <1>2, <2>4 DEF Validate, Goto
    <3> HIDE DEF i, same
    <3>3. /\ work \in Work /\ work.id = 0 /\ work.new = NoEntry /\ work.found = i
          /\ work.target = ws[w].target /\ work.op = ws[w].op
      BY <3>1, WorkerFacts, BlankTyped DEF Work
    <3> HIDE DEF work
    <3>4. pc'[w] = "posted" /\ ws'[w] = work /\ (WorkerInv(w)' => Inv')
      BY <2>1, <3>2, <3>3, QuietKeeps DEF Place
    <3>5. PICK j \in Id : j = i /\ Exists(j)
      BY <3>1
    <3>6. Placed(w)' /\ PendingRow(w)' /\ TargetKnown(w)'
      BY <2>1, <3>3, <3>4, <3>5, WorkerFacts
      DEF WorkerInv, Placed, PendingRow, TargetKnown, Inserts, Past, Unwinds,
          Voids, Exists, db
    <3>7. HoldsPeriod(w)' /\ HoldsNumber(w)' /\ HoldsKey(w)'
      BY <3>3, <3>4
      DEF HoldsPeriod, HoldsNumber, HoldsKey, Inserts, Past, Unwinds
    <3> QED
      BY <3>4, <3>6, <3>7 DEF WorkerInv
  <2> QED
    BY <2>3, <2>4
<1> QED
  BY <1>1, <1>2

LEMMA LockPeriodKeeps ==
  ASSUME NEW w \in Worker, Inv, LockPeriod(w)
  PROVE  Inv'
<1> DEFINE p == ws[w].new.period
<1>1. CASE Rollback(w)
  BY <1>1, RollbackKeeps
<1>2. CASE ~Rollback(w)
  <2>1. /\ pc[w] = "lock_period" /\ Free(w, p) /\ Take(w, p)
        /\ period[p] = "open" /\ UNCHANGED <<db, ws>>
        /\ pc' = [pc EXCEPT ![w] = "number"]
    BY <1>2 DEF LockPeriod, Goto
  <2>2. Inserts(w) /\ p \in Row
    BY <2>1, WorkerFacts DEF WorkerInv, Placed, PendingRow, Inserts, Row
  <2>3. ws' = [ws EXCEPT ![w] = ws[w]]
    BY <2>1 DEF Inv, TypeOK
  <2>4. \E r \in Row : Free(w, r) /\ Take(w, r)
    BY <2>1, <2>2
  <2>5. pc'[w] = "number" /\ ws'[w] = ws[w] /\ (WorkerInv(w)' => Inv')
    BY <2>1, <2>3, <2>4, WorkerFacts, QuietKeeps DEF Place
  <2>6. lock'[p] = w
    BY <2>1, <2>2 DEF Take, Inv, TypeOK
  <2>7. WorkerInv(w)'
    BY <2>1, <2>2, <2>5, <2>6, WorkerFacts
    DEF WorkerInv, Placed, PendingRow, TargetKnown, HoldsPeriod, HoldsNumber,
        HoldsKey, Inserts, Past, Unwinds, Voids, Exists, db
  <2> QED
    BY <2>5, <2>7
<1> QED
  BY <1>1, <1>2

LEMMA AllocateNumberKeeps ==
  ASSUME NEW w \in Worker, Inv, AllocateNumber(w)
  PROVE  Inv'
<1> DEFINE new == ws[w].new
           s == ScopeOf[new.period]
           numbered == [new EXCEPT !.num = seq[s]]
           work == [ws[w] EXCEPT !.new = numbered]
<1>1. /\ pc[w] = "number" /\ Free(w, s) /\ Take(w, s) /\ UNCHANGED db
      /\ pc' = [pc EXCEPT ![w] = "insert"]
      /\ ws' = [ws EXCEPT ![w].new.num = seq[s]]
  BY DEF AllocateNumber, Goto
<1>2. ws' = [ws EXCEPT ![w] = work]
  BY <1>1
<1>3. Inserts(w) /\ s \in Row /\ seq[s] \in Nat
  BY <1>1, WorkerFacts, ConstantsOK
  DEF WorkerInv, Placed, PendingRow, Inserts, Row, Inv, TypeOK
<1>4. /\ work \in Work /\ work.id = ws[w].id /\ work.op = ws[w].op
      /\ work.target = ws[w].target /\ work.new.num = seq[s]
      /\ work.new.status = new.status /\ work.new.period = new.period
      /\ work.new.key = new.key /\ work.new.lines = new.lines
  <2>1. /\ numbered \in Entry /\ numbered.num = seq[s]
        /\ numbered.status = new.status /\ numbered.period = new.period
        /\ numbered.key = new.key /\ numbered.lines = new.lines
    BY <1>3, WorkerFacts DEF Entry
  <2> HIDE DEF numbered
  <2> QED
    BY <2>1, WorkerFacts DEF Work
<1>5. \E r \in Row : Free(w, r) /\ Take(w, r)
  BY <1>1, <1>3
<1> HIDE DEF work
<1>6. /\ Frame(w) /\ pc'[w] = "insert" /\ ws'[w] = work
      /\ WorkerInv(w)' => Inv'
  BY <1>1, <1>2, <1>4, <1>5, QuietKeeps DEF Place
<1>7. lock'[s] = w /\ (\A r \in Row : lock[r] = w => lock'[r] = w)
  BY <1>1, <1>3 DEF Take, Inv, TypeOK
<1>8. Placed(w)' /\ TargetKnown(w)'
  BY <1>1, <1>3, <1>4, <1>6, WorkerFacts
  DEF WorkerInv, Placed, TargetKnown, Inserts, Past, Unwinds, Voids, db
<1>9. PendingRow(w)'
  <2>1. ~Exists(ws[w].id) /\ \A v \in Worker \ {w} : ws[v].id # ws[w].id
    BY <1>3, WorkerFacts DEF WorkerInv, PendingRow, Inserts
  <2>2. entries' = entries
    BY <1>1 DEF db
  <2>3. \A v \in Worker \ {w} : ws'[v] = ws[v]
    BY <1>6 DEF Frame
  <2>4. entries'[work.id].status = "absent"
    BY <1>4, <2>1, <2>2 DEF Exists
  <2>5. \A v \in Worker \ {w} : ws'[v].id # work.id
    BY <1>4, <2>1, <2>3
  <2> QED
    BY <1>3, <1>4, <1>6, <2>4, <2>5, WorkerFacts
    DEF WorkerInv, PendingRow, Inserts, Exists
<1>10. HoldsPeriod(w)'
  <2>1. lock'[new.period] = w /\ period[new.period] = "open"
    BY <1>1, <1>3, <1>7, WorkerFacts
    DEF WorkerInv, PendingRow, HoldsPeriod, Inserts, Past, Row
  <2> QED
    BY <1>1, <1>4, <1>6, <2>1 DEF HoldsPeriod, Inserts, Past, Unwinds, db
<1>11. HoldsNumber(w)' /\ HoldsKey(w)'
  BY <1>1, <1>4, <1>6, <1>7 DEF HoldsNumber, HoldsKey, Inserts, Past, db
<1> QED
  BY <1>6, <1>8, <1>9, <1>10, <1>11 DEF WorkerInv

LEMMA InsertEntryKeeps ==
  ASSUME NEW w \in Worker, Inv, InsertEntry(w)
  PROVE  Inv'
<1> DEFINE new == ws[w].new
           work == [ws[w] EXCEPT !.todo = InLineOrder(new.lines)]
<1>1. CASE Rollback(w)
  BY <1>1, RollbackKeeps
<1>2. CASE ~Rollback(w)
  <2>1. /\ pc[w] = "insert" /\ Free(w, new.key) /\ Take(w, new.key)
        /\ UNCHANGED db
        /\ pc' = [pc EXCEPT ![w] = "balances"]
        /\ ws' = [ws EXCEPT ![w] = work]
        /\ \A i \in Id : Exists(i) => entries[i].key # new.key
    BY <1>2 DEF InsertEntry, Goto
  <2>2. /\ Inserts(w) /\ new.key \in Row /\ Len(new.lines) >= 2
        /\ lock[new.period] = w /\ period[new.period] = "open"
        /\ new.period \in Row
        /\ lock[ScopeOf[new.period]] = w /\ new.num = seq[ScopeOf[new.period]]
        /\ ScopeOf[new.period] \in Row
    BY <2>1, WorkerFacts, ConstantsOK
    DEF WorkerInv, Placed, PendingRow, HoldsPeriod, HoldsNumber, Inserts, Past, Row
  <2>3. InLineOrder(new.lines) \in Seq(Account) /\ InLineOrder(new.lines) # <<>>
    BY <2>2, WorkerFacts, OrderTyped DEF Entry
  <2>4. /\ work \in Work /\ work.id = ws[w].id /\ work.op = ws[w].op
        /\ work.target = ws[w].target /\ work.new = new /\ work.todo # <<>>
    BY <2>3, WorkerFacts DEF Work
  <2>5. \E r \in Row : Free(w, r) /\ Take(w, r)
    BY <2>1, <2>2
  <2> HIDE DEF work
  <2>6. /\ Frame(w) /\ pc'[w] = "balances" /\ ws'[w] = work
        /\ WorkerInv(w)' => Inv'
    BY <2>1, <2>4, <2>5, QuietKeeps DEF Place
  <2>7. lock'[new.key] = w /\ (\A r \in Row : lock[r] = w => lock'[r] = w)
    BY <2>1, <2>2 DEF Take, Inv, TypeOK
  <2>8. ws[w].op # "void"
    BY <2>2, WorkerFacts DEF WorkerInv, Placed
  <2>9. Placed(w)' /\ TargetKnown(w)'
    BY <2>1, <2>2, <2>4, <2>6, <2>8, WorkerFacts
    DEF WorkerInv, Placed, TargetKnown, Inserts, Past, Unwinds, Voids, db
  <2>10. PendingRow(w)'
    <3>1. entries'[work.id].status = "absent" /\ \A v \in Worker \ {w} : ws'[v].id # work.id
      BY <2>1, <2>2, <2>4, <2>6, WorkerFacts
      DEF WorkerInv, PendingRow, Inserts, Frame, Exists, db
    <3> QED
      BY <2>2, <2>4, <2>6, <3>1, WorkerFacts
      DEF WorkerInv, PendingRow, Inserts, Exists
  <2>11. HoldsPeriod(w)' /\ HoldsNumber(w)' /\ HoldsKey(w)'
    BY <2>1, <2>2, <2>4, <2>6, <2>7, <2>8
    DEF HoldsPeriod, HoldsNumber, HoldsKey, Inserts, Past, Unwinds, Exists, db
  <2> QED
    BY <2>6, <2>9, <2>10, <2>11 DEF WorkerInv
<1> QED
  BY <1>1, <1>2

LEMMA MoveBalanceKeeps ==
  ASSUME NEW w \in Worker, Inv, MoveBalance(w)
  PROVE  Inv'
<1> DEFINE a == Head(ws[w].todo)
           at == IF Len(ws[w].todo) > 1 THEN "balances"
                 ELSE IF ws[w].op = "void" THEN "void_update" ELSE "posted"
           work == [ws[w] EXCEPT !.todo = Tail(ws[w].todo)]
<1>1. /\ pc[w] = "balances" /\ Free(w, a) /\ Take(w, a) /\ UNCHANGED db
      /\ pc' = [pc EXCEPT ![w] = at]
      /\ ws' = [ws EXCEPT ![w] = work]
  BY DEF MoveBalance, Goto
<1>2. ws[w].todo \in Seq(Account) /\ ws[w].todo # <<>>
  BY <1>1, WorkerFacts DEF WorkerInv, Placed, Work
<1>3. /\ a \in Account /\ Tail(ws[w].todo) \in Seq(Account)
      /\ Len(ws[w].todo) > 1 => Tail(ws[w].todo) # <<>>
  <2>1. /\ a \in Account /\ Tail(ws[w].todo) \in Seq(Account)
        /\ Len(Tail(ws[w].todo)) = Len(ws[w].todo) - 1
    BY <1>2, HeadTailProperties
  <2>2. Len(ws[w].todo) > 1 => Len(Tail(ws[w].todo)) # 0
    <3>1. Len(ws[w].todo) \in Nat
      BY <1>2, LenProperties
    <3> DEFINE n == Len(ws[w].todo)
               m == Len(Tail(ws[w].todo))
    <3>2. n \in Nat /\ m = n - 1
      BY <2>1, <3>1
    <3> HIDE DEF n, m
    <3>3. n > 1 => m # 0
      BY <3>2
    <3> QED
      BY <3>3 DEF n, m
  <2>3. Len(<<>>) = 0
    OBVIOUS
  <2> HIDE DEF a
  <2> QED
    BY <2>1, <2>2, <2>3, Zenon
<1>4. /\ work \in Work /\ work.id = ws[w].id /\ work.op = ws[w].op
      /\ work.target = ws[w].target /\ work.new = ws[w].new
      /\ work.at = ws[w].at /\ work.seen = ws[w].seen
      /\ at = "balances" => work.todo # <<>>
  BY <1>3, WorkerFacts DEF Work
<1>5. \E r \in Row : Free(w, r) /\ Take(w, r)
  BY <1>1, <1>3 DEF Row
<1>6. at \in {"balances", "void_update", "posted"}
  OBVIOUS
<1>7. /\ at = "void_update" => ws[w].op = "void"
      /\ at = "posted" => ws[w].op # "void"
  OBVIOUS
<1> HIDE DEF work, at
<1>8. /\ Frame(w) /\ pc'[w] = at /\ ws'[w] = work
      /\ WorkerInv(w)' => Inv'
  BY <1>1, <1>4, <1>5, <1>6, QuietKeeps DEF Place
<1>9. \A r \in Row : lock[r] = w => lock'[r] = w
  BY <1>1 DEF Take, Inv, TypeOK
<1>10. ws[w].op = "void" \/ Inserts(w)
  BY <1>1, WorkerFacts DEF WorkerInv, Placed
<1>11. Placed(w)'
  BY <1>1, <1>4, <1>6, <1>7, <1>8, <1>10, WorkerFacts
  DEF WorkerInv, Placed, Inserts, Past, Unwinds, Voids
<1>12. PendingRow(w)'
  <2>1. /\ work.id # 0 => entries'[work.id].status = "absent"
        /\ work.id # 0 => \A v \in Worker \ {w} : ws'[v].id # work.id
        /\ work.id # 0 => work.new.status = "posted"
    BY <1>1, <1>4, <1>8, WorkerFacts DEF WorkerInv, PendingRow, Frame, Exists, db
  <2> QED
    BY <1>4, <1>8, <2>1, WorkerFacts DEF WorkerInv, PendingRow, Exists
<1>13. TargetKnown(w)'
  BY <1>1, <1>4, <1>6, <1>7, <1>8, WorkerFacts
  DEF WorkerInv, TargetKnown, Unwinds, Voids, db
<1>14. HoldsPeriod(w)'
  <2>1. /\ Inserts(w) => ws[w].new.period \in Row
        /\ Unwinds(w) => ws[w].at \in Row
    BY WorkerFacts DEF WorkerInv, PendingRow, Placed, Inserts, Voids, Row
  <2> QED
    BY <1>1, <1>4, <1>6, <1>7, <1>8, <1>9, <2>1, WorkerFacts
    DEF WorkerInv, HoldsPeriod, Inserts, Past, Unwinds, db
<1>15. HoldsNumber(w)' /\ HoldsKey(w)'
  <2>1. Inserts(w) => ws[w].new.key \in Row /\ ScopeOf[ws[w].new.period] \in Row
    BY WorkerFacts, ConstantsOK DEF WorkerInv, PendingRow, Inserts, Row
  <2> QED
    BY <1>1, <1>4, <1>6, <1>8, <1>9, <2>1, WorkerFacts
    DEF WorkerInv, HoldsNumber, HoldsKey, Inserts, Past, Exists, db
<1> QED
  BY <1>8, <1>11, <1>12, <1>13, <1>14, <1>15 DEF WorkerInv

LEMMA VoidLockPeriodKeeps ==
  ASSUME NEW w \in Worker, Inv, VoidLockPeriod(w)
  PROVE  Inv'
<1> DEFINE p == ws[w].at
           ls == entries[ws[w].target].lines
<1>1. CASE Rollback(w)
  BY <1>1, RollbackKeeps
<1>2. CASE ~Rollback(w)
  <2>1. /\ pc[w] = "void_lock" /\ Free(w, p) /\ Take(w, p) /\ UNCHANGED db
        /\ period[p] = "open"
    BY <1>2 DEF VoidLockPeriod
  <2>2. PICK at \in {"balances", "void_update"}, work \in Work :
          /\ pc' = [pc EXCEPT ![w] = at] /\ ws' = [ws EXCEPT ![w] = work]
          /\ at = "balances" => ws[w].seen = "posted" /\ work.todo # <<>>
          /\ work.id = ws[w].id /\ work.op = ws[w].op
          /\ work.target = ws[w].target /\ work.new = ws[w].new
          /\ work.at = ws[w].at /\ work.seen = ws[w].seen
    <3>1. CASE ws[w].seen = "posted"
      <4> DEFINE work == [ws[w] EXCEPT !.lines = ls, !.todo = InLineOrder(ls)]
      <4>1. ls \in Seq(Line) /\ Len(ls) >= 2
        BY <2>1, <3>1, WorkerFacts
        DEF WorkerInv, TargetKnown, Placed, Voids, Inv, TypeOK, Entry
      <4> HIDE DEF ls
      <4>2. InLineOrder(ls) \in Seq(Account) /\ InLineOrder(ls) # <<>>
        BY <4>1, OrderTyped
      <4>3. /\ work \in Work /\ work.id = ws[w].id /\ work.op = ws[w].op
            /\ work.target = ws[w].target /\ work.new = ws[w].new
            /\ work.at = ws[w].at /\ work.seen = ws[w].seen
            /\ work.todo # <<>>
        BY <4>1, <4>2, WorkerFacts DEF Work
      <4>4. /\ pc' = [pc EXCEPT ![w] = "balances"]
            /\ ws' = [ws EXCEPT ![w] = work]
        BY <1>2, <3>1 DEF VoidLockPeriod, Goto, ls
      <4> QED
        BY <3>1, <4>3, <4>4
    <3>2. CASE ws[w].seen # "posted"
      <4>1. pc' = [pc EXCEPT ![w] = "void_update"] /\ UNCHANGED ws
        BY <1>2, <3>2 DEF VoidLockPeriod, Goto
      <4>2. ws' = [ws EXCEPT ![w] = ws[w]]
        BY <4>1 DEF Inv, TypeOK
      <4> QED
        BY <4>1, <4>2, WorkerFacts
    <3> QED
      BY <3>1, <3>2
  <2>3. p \in Row
    BY <2>1, WorkerFacts DEF WorkerInv, Placed, Voids, Row
  <2>4. /\ Frame(w) /\ pc'[w] = at /\ ws'[w] = work
        /\ WorkerInv(w)' => Inv'
    BY <2>1, <2>2, <2>3, QuietKeeps DEF Place
  <2>5. lock'[p] = w /\ (\A r \in Row : lock[r] = w => lock'[r] = w)
    BY <2>1, <2>3 DEF Take, Inv, TypeOK
  <2>6. Placed(w)'
    BY <2>1, <2>2, <2>4, WorkerFacts
    DEF WorkerInv, Placed, Inserts, Past, Unwinds, Voids
  <2>7. PendingRow(w)'
    <3>1. /\ work.id # 0 => entries'[work.id].status = "absent"
          /\ work.id # 0 => \A v \in Worker \ {w} : ws'[v].id # work.id
          /\ work.id # 0 => work.new.status = "posted"
      BY <2>1, <2>2, <2>4, WorkerFacts DEF WorkerInv, PendingRow, Frame, Exists, db
    <3> QED
      BY <2>2, <2>4, <3>1, WorkerFacts DEF WorkerInv, PendingRow, Exists
  <2>8. TargetKnown(w)'
    BY <2>1, <2>2, <2>4, WorkerFacts
    DEF WorkerInv, TargetKnown, Unwinds, Voids, db
  <2>9. HoldsPeriod(w)'
    <3>1. Inserts(w) => ws[w].new.period \in Row
      BY WorkerFacts DEF WorkerInv, PendingRow, Inserts, Row
    <3> QED
      BY <2>1, <2>2, <2>4, <2>5, <3>1, WorkerFacts
      DEF WorkerInv, HoldsPeriod, Inserts, Past, Unwinds, db
  <2>10. HoldsNumber(w)' /\ HoldsKey(w)'
    <3>1. Inserts(w) => ws[w].new.key \in Row /\ ScopeOf[ws[w].new.period] \in Row
      BY WorkerFacts, ConstantsOK DEF WorkerInv, PendingRow, Inserts, Row
    <3> QED
      BY <2>1, <2>2, <2>4, <2>5, <3>1, WorkerFacts
      DEF WorkerInv, HoldsNumber, HoldsKey, Inserts, Past, Exists, db
  <2> QED
    BY <2>4, <2>6, <2>7, <2>8, <2>9, <2>10 DEF WorkerInv
<1> QED
  BY <1>1, <1>2

-----------------------------------------------------------------------------
(* The steps that commit.  Safe(w) is what each owes besides Inv'.         *)

Moves ==
  \A i \in Id : Contributes(entries[i]) # Contributes(entries'[i])
                => period[entries'[i].period] = "open" /\ UNCHANGED period

Safe == /\ OneEntryPerKey => OneEntryPerKey'
        /\ GaplessNumbers => GaplessNumbers'
        /\ Moves
        /\ \A i \in Id : Life(i)

OpenWhenVoided(es) ==
  \A i \in Id : Contributes(entries[i]) /\ ~Contributes(es[i])
                => period[entries[i].period] = "open"

LEMMA CommitSafe ==
  ASSUME NEW w \in Worker, Inv, NEW es, Commits(w, es), OpenWhenVoided(es)
  PROVE  Inv' /\ Safe
<1>1. \A i \in Id : Life(i)
  BY CommitFrame DEF Frame
<1> QED
  BY <1>1, CommitKeeps, CommitKeys, CommitNumbers, CommitMovesOpenPeriod
  DEF Safe, Moves, OpenWhenVoided

LEMMA QuietSafe == ASSUME UNCHANGED db PROVE Safe
<1>1. UNCHANGED <<entries, seq, period>>
  BY DEF db
<1>2. OneEntryPerKey => OneEntryPerKey'
  BY <1>1 DEF OneEntryPerKey, Exists
<1>3. GaplessNumbers => GaplessNumbers'
  BY <1>1 DEF GaplessNumbers, NumbersIn, Numbered
<1>4. Moves
  BY <1>1 DEF Moves
<1>5. \A i \in Id : Life(i)
  BY <1>1 DEF Life, Exists
<1> QED
  BY <1>2, <1>3, <1>4, <1>5 DEF Safe

LEMMA InsertedTable ==
  ASSUME NEW w \in Worker, Inv
  PROVE  /\ WithInsert(w, entries) \in [Id -> Entry]
         /\ \A i \in Id : WithInsert(w, entries)[i] =
                            IF i = ws[w].id THEN ws[w].new ELSE entries[i]
BY WorkerFacts, ConstantsOK DEF WithInsert, Inv, TypeOK, Work

LEMMA PlainCommit ==
  ASSUME NEW w \in Worker, Inv, pc[w] = "posted",
         CommitLedger(w, WithInsert(w, entries))
  PROVE  Inv' /\ Safe
<1> DEFINE es == WithInsert(w, entries)
<1>1. Commits(w, es)
  BY InsertedTable DEF Commits, Kept
<1>2. OpenWhenVoided(es)
  BY InsertedTable, PendingFacts, ConstantsOK
  DEF OpenWhenVoided, Contributes, Exists
<1> QED
  BY <1>1, <1>2, CommitSafe

LEMMA CommitPostKeeps ==
  ASSUME NEW w \in Worker, Inv, CommitPost(w)
  PROVE  Inv' /\ Safe
BY PlainCommit DEF CommitPost

LEMMA RetireDraftKeeps ==
  ASSUME NEW w \in Worker, Inv, RetireDraft(w)
  PROVE  Inv' /\ Safe
<1> DEFINE t == ws[w].target
           fresh == entries[t]
           work == [ws[w] EXCEPT !.seen = "draft", !.at = fresh.period]
<1>1. CASE fresh.status # "draft"
  BY <1>1, PlainCommit DEF RetireDraft
<1>2. CASE fresh.status = "draft"
  <2>1. /\ pc[w] = "posted" /\ ws[w].op = "post_draft" /\ UNCHANGED <<db, lock>>
        /\ pc' = [pc EXCEPT ![w] = "void_lock"]
        /\ ws' = [ws EXCEPT ![w] = work]
    BY <1>2 DEF RetireDraft, Goto
  <2>2. t \in Id /\ fresh.period \in Period
    BY <1>2, <2>1, WorkerFacts DEF WorkerInv, Placed, Inv, TypeOK, Exists
  <2>3. /\ work \in Work /\ work.id = ws[w].id /\ work.op = "post_draft"
        /\ work.target = t /\ work.new = ws[w].new
        /\ work.at = fresh.period /\ work.seen = "draft"
    BY <2>1, <2>2, WorkerFacts DEF Work, Status
  <2> HIDE DEF work
  <2>4. /\ Frame(w) /\ pc'[w] = "void_lock" /\ ws'[w] = work
        /\ WorkerInv(w)' => Inv'
    BY <2>1, <2>3, QuietKeeps DEF Place
  <2>5. Placed(w)'
    BY <2>1, <2>2, <2>3, <2>4, WorkerFacts
    DEF WorkerInv, Placed, Inserts, Past, Unwinds, Voids
  <2>6. PendingRow(w)'
    <3>1. /\ work.id # 0 => entries'[work.id].status = "absent"
          /\ work.id # 0 => \A v \in Worker \ {w} : ws'[v].id # work.id
          /\ work.id # 0 => work.new.status = "posted"
      BY <2>1, <2>3, <2>4, WorkerFacts DEF WorkerInv, PendingRow, Frame, Exists, db
    <3> QED
      BY <2>3, <2>4, <3>1, WorkerFacts DEF WorkerInv, PendingRow, Exists
  <2>7. TargetKnown(w)'
    BY <1>2, <2>1, <2>3, <2>4 DEF TargetKnown, Unwinds, Voids, db
  <2>8. HoldsPeriod(w)' /\ HoldsNumber(w)' /\ HoldsKey(w)'
    BY <2>1, <2>3, <2>4, WorkerFacts
    DEF WorkerInv, HoldsPeriod, HoldsNumber, HoldsKey, Inserts, Past, Unwinds,
        Exists, db
  <2> QED
    BY <2>1, <2>4, <2>5, <2>6, <2>7, <2>8, QuietSafe DEF WorkerInv
<1> QED
  BY <1>1, <1>2

LEMMA MarkReversedKeeps ==
  ASSUME NEW w \in Worker, Inv, MarkReversed(w)
  PROVE  Inv' /\ Safe
<1> DEFINE o == ws[w].target
           m == IF ws[w].id = 0 THEN ws[w].found ELSE ws[w].id
           base == WithInsert(w, entries)
           es == [[base EXCEPT ![o].status = "reversed"] EXCEPT ![m].mirrorOf = o]
<1>1. CASE Rollback(w)
  BY <1>1, RollbackKeeps, QuietSafe DEF Rollback
<1>2. CASE ~Rollback(w)
  <2>1. /\ pc[w] = "posted" /\ ws[w].op = "reverse"
        /\ entries[o].status # "voided" /\ CommitLedger(w, es)
    BY <1>2 DEF MarkReversed
  <2>2. /\ o \in Id /\ m \in Id
        /\ entries[o].status \in {"posted", "reversed"}
    <3>1. o \in Id
      BY <2>1, WorkerFacts DEF WorkerInv, Placed
    <3>2. m \in Id
      <4>1. CASE ws[w].id = 0
        BY <2>1, <4>1, WorkerFacts DEF WorkerInv, Placed, Inserts
      <4>2. CASE ws[w].id # 0
        BY <4>2, WorkerFacts DEF Work
      <4> QED BY <4>1, <4>2
    <3>3. entries[o].status \in {"posted", "reversed"}
      BY <2>1, WorkerFacts DEF WorkerInv, TargetKnown
    <3> QED BY <3>1, <3>2, <3>3
  <2>3. base \in [Id -> Entry] /\ base[o].status \in {"posted", "reversed"}
    <3>1. o # ws[w].id
      BY <2>1, <2>2, PendingFacts, ConstantsOK DEF Exists
    <3> QED
      BY <2>2, <3>1, InsertedTable
  <2> HIDE DEF base, o, m
  <2>4. /\ es \in [Id -> Entry]
        /\ \A i \in Id :
             /\ es[i].status = IF i = o THEN "reversed" ELSE base[i].status
             /\ es[i].key = base[i].key /\ es[i].num = base[i].num
             /\ es[i].period = base[i].period /\ es[i].lines = base[i].lines
    <3> DEFINE first == [base EXCEPT ![o].status = "reversed"]
    <3>1. /\ first \in [Id -> Entry]
          /\ \A i \in Id :
               /\ first[i].status = IF i = o THEN "reversed" ELSE base[i].status
               /\ first[i].key = base[i].key /\ first[i].num = base[i].num
               /\ first[i].period = base[i].period
               /\ first[i].lines = base[i].lines
      BY <2>2, <2>3 DEF Entry, Status
    <3> HIDE DEF first
    <3> QED
      BY <2>2, <3>1 DEF Entry, first
  <2> HIDE DEF es
  <2>5. Commits(w, es)
    BY <2>1, <2>3, <2>4 DEF Commits, Kept, Contributes, base
  <2>6. OpenWhenVoided(es)
    BY <2>1, <2>4, InsertedTable, PendingFacts, ConstantsOK
    DEF OpenWhenVoided, Contributes, Exists, base
  <2> QED
    BY <2>5, <2>6, CommitSafe
<1> QED
  BY <1>1, <1>2

LEMMA VoidUpdateKeeps ==
  ASSUME NEW w \in Worker, Inv, VoidUpdate(w)
  PROVE  Inv' /\ Safe
<1> DEFINE t == ws[w].target
           base == WithInsert(w, entries)
           es == [base EXCEPT ![t].status = "voided"]
<1>1. CASE Rollback(w)
  BY <1>1, RollbackKeeps, QuietSafe DEF Rollback
<1>2. CASE ~Rollback(w)
  <2>1. /\ pc[w] = "void_update" /\ entries[t].status # "reversed"
        /\ CommitLedger(w, es)
    BY <1>2 DEF VoidUpdate
  <2>2. t \in Id /\ Exists(t) /\ ws[w].seen \in {"draft", "posted"}
    BY <2>1, WorkerFacts DEF WorkerInv, Placed, TargetKnown, Voids, Exists
  <2>3. /\ base \in [Id -> Entry] /\ base[t] = entries[t] /\ t # ws[w].id
        /\ base[t].status \in {"draft", "posted", "voided"}
    <3>1. t # ws[w].id
      BY <2>1, <2>2, PendingFacts, ConstantsOK
    <3>2. entries[t].status \in {"draft", "posted", "voided"}
      BY <2>1, <2>2, WorkerFacts DEF WorkerInv, TargetKnown, Voids
    <3> QED
      BY <2>2, <3>1, <3>2, InsertedTable
  <2>4. ws[w].seen = "posted" => period[entries[t].period] = "open"
    BY <2>1, WorkerFacts DEF WorkerInv, TargetKnown, HoldsPeriod, Voids
  <2>5. ws[w].seen = "draft" => ~Contributes(entries[t])
    BY <2>1, WorkerFacts DEF WorkerInv, TargetKnown, Voids, Contributes
  <2> HIDE DEF base, t
  <2>6. /\ es \in [Id -> Entry]
        /\ \A i \in Id :
             /\ es[i].status = IF i = t THEN "voided" ELSE base[i].status
             /\ es[i].key = base[i].key /\ es[i].num = base[i].num
             /\ es[i].period = base[i].period /\ es[i].lines = base[i].lines
    BY <2>2, <2>3 DEF Entry, Status
  <2> HIDE DEF es
  <2>7. Commits(w, es)
    BY <2>1, <2>3, <2>6 DEF Commits, Kept, Contributes, base
  <2>8. OpenWhenVoided(es)
    <3> SUFFICES ASSUME NEW i \in Id, Contributes(entries[i]), ~Contributes(es[i])
                 PROVE  period[entries[i].period] = "open"
      BY DEF OpenWhenVoided
    <3>1. CASE i = t
      BY <3>1, <2>2, <2>4, <2>5
    <3>2. CASE i # t
      <4>1. CASE i = ws[w].id
        BY <4>1, <2>1, PendingFacts, ConstantsOK DEF Contributes, Exists
      <4>2. CASE i # ws[w].id
        BY <3>2, <4>2, <2>6, InsertedTable DEF Contributes, base
      <4> QED
        BY <4>1, <4>2
    <3> QED
      BY <3>1, <3>2
  <2> QED
    BY <2>7, <2>8, CommitSafe
<1> QED
  BY <1>1, <1>2

(* The numbered rows are the same before and after.                        *)
LEMMA SameNumbers ==
  ASSUME UNCHANGED seq,
         \A i \in Id : /\ Numbered(i)' <=> Numbered(i)
                       /\ Numbered(i) => /\ entries'[i].num = entries[i].num
                                         /\ entries'[i].period = entries[i].period
  PROVE  GaplessNumbers => GaplessNumbers'
<1>1. \A s \in Scope : NumbersIn(s)' = NumbersIn(s)
  BY DEF NumbersIn
<1> QED
  BY <1>1 DEF GaplessNumbers

LEMMA CommitDraftKeeps ==
  ASSUME NEW w \in Worker, Inv, CommitDraft(w)
  PROVE  Inv' /\ Safe
<1> DEFINE id == ws[w].id
           new == ws[w].new
<1>1. /\ pc[w] = "draft_commit" /\ entries' = WithInsert(w, entries)
      /\ End(w) /\ UNCHANGED <<period, seq, balance, active>>
  BY DEF CommitDraft
<1>2. /\ id \in Id /\ ~Exists(id) /\ new \in Entry /\ new.period \in Period
      /\ new.status = "draft" /\ new.num = 0 /\ new.key = NoKey
  BY <1>1, WorkerFacts DEF WorkerInv, Placed, PendingRow, Inserts, Work
<1>3. /\ entries' \in [Id -> Entry] /\ entries'[id] = new
      /\ \A i \in Id \ {id} : entries'[i] = entries[i]
  BY <1>1, <1>2, InsertedTable
<1>4. TypeOK'
  BY <1>1, <1>2, <1>3, EndKeeps DEF TypeOK, Exists, Inv
<1>5. NoKey \notin Key
  BY DEF NoKey, Key
<1>6. Frame(w)
  <2>1. \A i \in Id : Life(i)
    BY <1>2, <1>3 DEF Life, Exists
  <2>2. \A i \in Id : Exists(i)' /\ ~Exists(i) =>
          /\ i = id /\ entries'[i].key = new.key
          /\ entries'[i].key \notin Key
    BY <1>2, <1>3, <1>5 DEF Exists
  <2> QED
    BY <1>1, <2>1, <2>2, EndKeeps DEF Frame
<1>7. \A i \in Id : EntryInv(i)'
  BY <1>2, <1>3 DEF EntryInv, Contributes, Inv, LedgerInv
<1>8. Inv'
  BY <1>1, <1>4, <1>6, <1>7, EndKeeps, StepKeeps
<1>9. OneEntryPerKey => OneEntryPerKey'
  BY <1>2, <1>3 DEF OneEntryPerKey, Exists
<1>10. GaplessNumbers => GaplessNumbers'
  <2>1. ~Numbered(id) /\ ~(entries'[id].num > 0)
    BY <1>2, <1>3 DEF Numbered, Exists, Inv, LedgerInv, EntryInv
  <2>2. \A i \in Id : /\ Numbered(i)' <=> Numbered(i)
                      /\ Numbered(i) => /\ entries'[i].num = entries[i].num
                                        /\ entries'[i].period = entries[i].period
    <3> TAKE i \in Id
    <3>1. CASE entries[i].num > 0
      BY <1>2, <1>3, <2>1, <3>1 DEF Numbered
    <3>2. CASE ~(entries[i].num > 0)
      BY <1>2, <1>3, <2>1, <3>2 DEF Numbered
    <3> QED
      BY <3>1, <3>2
  <2> QED
    BY <1>1, <2>2, SameNumbers
<1>11. Moves
  BY <1>2, <1>3 DEF Moves, Contributes, Exists
<1> QED
  BY <1>6, <1>8, <1>9, <1>10, <1>11 DEF Safe, Frame

LEMMA CommitPatchKeeps ==
  ASSUME NEW w \in Worker, Inv, CommitPatch(w)
  PROVE  Inv' /\ Safe
<1> DEFINE t == ws[w].target
           p == ws[w].at
           ls == ws[w].lines
<1>1. CASE Rollback(w)
  BY <1>1, RollbackKeeps, QuietSafe DEF Rollback
<1>2. CASE ~Rollback(w)
  <2>1. /\ pc[w] = "patch_commit" /\ entries[t].status = "draft"
        /\ entries' = [[entries EXCEPT ![t].period = p] EXCEPT ![t].lines = ls]
        /\ End(w) /\ UNCHANGED <<period, seq, balance, active>>
    BY <1>2 DEF CommitPatch
  <2>2. t \in Id /\ p \in Period /\ ls \in Seq(Line)
    BY <2>1, WorkerFacts DEF WorkerInv, Placed, Work
  <2>3. /\ entries' \in [Id -> Entry]
        /\ entries'[t].status = "draft" /\ entries'[t].period = p
        /\ entries'[t].key = entries[t].key /\ entries'[t].num = entries[t].num
        /\ \A i \in Id \ {t} : entries'[i] = entries[i]
    <3> DEFINE first == [entries EXCEPT ![t].period = p]
    <3>1. entries \in [Id -> Entry]
      BY DEF Inv, TypeOK
    <3> HIDE DEF t, p, ls
    <3>2. /\ first \in [Id -> Entry]
          /\ first[t].status = entries[t].status /\ first[t].period = p
          /\ first[t].key = entries[t].key /\ first[t].num = entries[t].num
          /\ \A i \in Id \ {t} : first[i] = entries[i]
      BY <2>2, <3>1 DEF Entry
    <3>3. entries' = [first EXCEPT ![t].lines = ls]
      BY <2>1
    <3>4. entries[t].status = "draft"
      BY <2>1
    <3> HIDE DEF first
    <3> QED
      BY <2>2, <3>2, <3>3, <3>4 DEF Entry
  <2>4. TypeOK'
    BY <2>1, <2>2, <2>3, EndKeeps DEF TypeOK, Exists, Inv
  <2>5. Frame(w)
    <3>1. \A i \in Id : Life(i)
      BY <2>1, <2>3 DEF Life, Exists
    <3>2. \A i \in Id : Exists(i)' => Exists(i)
      BY <2>1, <2>3 DEF Exists
    <3> QED
      BY <2>1, <3>1, <3>2, EndKeeps DEF Frame
  <2>6. entries[t].num = 0
    BY <2>1, <2>2 DEF Inv, LedgerInv, EntryInv
  <2>7. \A i \in Id : EntryInv(i)'
    BY <2>3, <2>6 DEF EntryInv, Contributes, Inv, LedgerInv
  <2>8. Inv'
    BY <2>1, <2>4, <2>5, <2>7, EndKeeps, StepKeeps
  <2>9. OneEntryPerKey => OneEntryPerKey'
    <3>1. \A i \in Id : /\ Exists(i)' => Exists(i)
                        /\ entries'[i].key = entries[i].key
      BY <2>1, <2>2, <2>3 DEF Exists
    <3> QED
      BY <3>1 DEF OneEntryPerKey
  <2>10. GaplessNumbers => GaplessNumbers'
    <3>1. \A i \in Id : /\ Numbered(i)' <=> Numbered(i)
                        /\ Numbered(i) => /\ entries'[i].num = entries[i].num
                                          /\ entries'[i].period = entries[i].period
      <4> TAKE i \in Id
      <4>1. CASE i = t
        BY <2>3, <2>6, <4>1 DEF Numbered
      <4>2. CASE i # t
        BY <2>3, <4>2 DEF Numbered
      <4> QED
        BY <4>1, <4>2
    <3> QED
      BY <2>1, <3>1, SameNumbers
  <2>11. Moves
    BY <2>1, <2>3 DEF Moves, Contributes
  <2> QED
    BY <2>5, <2>8, <2>9, <2>10, <2>11 DEF Safe, Frame
<1> QED
  BY <1>1, <1>2

(* Only the period changes: no posting or void is under way in it, because *)
(* its lock is held by the transition.                                     *)
LEMMA WriteTransitionKeeps ==
  ASSUME NEW w \in Worker, Inv, WriteTransition(w)
  PROVE  Inv' /\ Safe
<1> DEFINE p == ws[w].at
<1>1. /\ pc[w] = "transition_write" /\ period' = [period EXCEPT ![p] = ws[w].to]
      /\ End(w) /\ UNCHANGED <<entries, seq, balance, active>>
  BY DEF WriteTransition
<1>2. p \in Period /\ lock[p] = w /\ ws[w].to \in PeriodStatus
  BY <1>1, WorkerFacts DEF WorkerInv, Placed, HoldsPeriod, Work
<1>3. /\ period' \in [Period -> PeriodStatus]
      /\ \A q \in Period : period'[q] = period[q] \/ lock[q] = w
  BY <1>1, <1>2 DEF Inv, TypeOK
<1>4. TypeOK'
  BY <1>1, <1>3, EndKeeps DEF TypeOK, Exists, Inv
<1>5. \A i \in Id : Life(i)
  BY <1>1 DEF Life, Exists, Inv, TypeOK, Entry, Status
<1>6. Frame(w)
  BY <1>1, <1>3, <1>5, EndKeeps DEF Frame, Exists
<1>7. \A i \in Id : EntryInv(i)'
  BY <1>1 DEF EntryInv, Contributes, Inv, LedgerInv
<1>8. Inv'
  BY <1>1, <1>4, <1>6, <1>7, EndKeeps, StepKeeps
<1>9. Safe
  <2>1. OneEntryPerKey => OneEntryPerKey'
    BY <1>1 DEF OneEntryPerKey, Exists
  <2>2. GaplessNumbers => GaplessNumbers'
    BY <1>1 DEF GaplessNumbers, NumbersIn, Numbered
  <2>3. Moves
    BY <1>1 DEF Moves
  <2> QED
    BY <1>5, <2>1, <2>2, <2>3 DEF Safe
<1> QED
  BY <1>8, <1>9

LEMMA WriteArchiveKeeps ==
  ASSUME NEW w \in Worker, Inv, WriteArchive(w)
  PROVE  Inv' /\ Safe
<1>1. /\ active' \subseteq active
      /\ End(w) /\ UNCHANGED <<period, entries, seq, balance>>
  BY DEF WriteArchive
<1>2. TypeOK'
  BY <1>1, EndKeeps DEF TypeOK, Exists, Inv
<1>3. \A i \in Id : Life(i)
  BY <1>1 DEF Life, Exists, Inv, TypeOK, Entry, Status
<1>4. Frame(w)
  BY <1>1, <1>3, EndKeeps DEF Frame, Exists
<1>5. \A i \in Id : EntryInv(i)'
  BY <1>1 DEF EntryInv, Contributes, Inv, LedgerInv
<1>6. Inv'
  BY <1>1, <1>2, <1>4, <1>5, EndKeeps, StepKeeps
<1>7. Safe
  <2>1. OneEntryPerKey => OneEntryPerKey'
    BY <1>1 DEF OneEntryPerKey, Exists
  <2>2. GaplessNumbers => GaplessNumbers'
    BY <1>1 DEF GaplessNumbers, NumbersIn, Numbered
  <2>3. Moves
    BY <1>1 DEF Moves
  <2> QED
    BY <1>3, <2>1, <2>2, <2>3 DEF Safe
<1> QED
  BY <1>6, <1>7

-----------------------------------------------------------------------------
(* Drafts and mirrors: which entry a posting comes from and which it       *)
(* reverses.                                                               *)

(* A request to post a draft finds a draft, or one that was retired; what  *)
(* it inserts, or the entry it found instead, has the key of its target.   *)
Origin(w) == LET work == ws[w] IN
  /\ work.op = "post_draft" =>
       work.target \in Id /\ entries[work.target].status \in {"draft", "voided"}
  /\ pc[w] = "draft_commit" => work.op # "post_draft"
  /\ work.id # 0 =>
       /\ work.new.mirrorOf = 0
       /\ work.new.src = IF work.op = "post_draft" THEN work.target ELSE 0
       /\ work.op = "post_draft" /\ ClientKey = {} => work.new.key = <<"draft", work.target>>
       /\ work.op = "reverse" => work.new.key = <<"reversal", work.target>>
  /\ work.op = "reverse" /\ pc[w] = "posted" /\ work.id = 0 =>
       entries[work.found].key = <<"reversal", work.target>>

Lineage(i) == LET e == entries[i] IN
  /\ e.src # 0 =>
       /\ Exists(i) /\ entries[e.src].status = "voided"
       /\ ClientKey = {} => e.key = <<"draft", e.src>>
  /\ e.mirrorOf # 0 =>
       /\ Exists(i) /\ entries[e.mirrorOf].status = "reversed"
       /\ e.key = <<"reversal", e.mirrorOf>>
  /\ e.status = "reversed" => \E m \in Id : entries[m].mirrorOf = i

History == (\A w \in Worker : Origin(w)) /\ \A i \in Id : Lineage(i)

LEMMA OthersOrigin ==
  ASSUME NEW w \in Worker, Inv, Origin(w), pc'[w] = pc[w], ws'[w] = ws[w],
         \A i \in Id : Life(i)
  PROVE  Origin(w)'
<1>1. ws[w].op = "reverse" /\ pc[w] = "posted" /\ ws[w].id = 0 =>
        ws[w].found \in Id /\ Exists(ws[w].found)
  BY WorkerFacts DEF WorkerInv, Placed, Inserts
<1>2. ws[w].op = "reverse" /\ pc[w] = "posted" /\ ws[w].id = 0 =>
        entries'[ws[w].found].key = entries[ws[w].found].key
  BY <1>1 DEF Life
<1>3. ws[w].op = "post_draft" => entries'[ws[w].target].status \in {"draft", "voided"}
  BY DEF Origin, Life
<1> QED
  BY <1>2, <1>3 DEF Origin

(* The request of w goes on with the entry it inserts, or ends.            *)
LEMMA GoesOn ==
  ASSUME NEW w \in Worker, Inv, Origin(w), \A i \in Id : Life(i),
         \/ ws'[w].op = "none" /\ ws'[w].id = 0
         \/ /\ ws'[w].op = ws[w].op /\ ws'[w].target = ws[w].target /\ ws'[w].id = ws[w].id
            /\ ws'[w].new.mirrorOf = ws[w].new.mirrorOf /\ ws'[w].new.src = ws[w].new.src
            /\ ws'[w].new.key = ws[w].new.key
            /\ pc'[w] # "posted" \/ ws[w].id # 0
            /\ pc'[w] # "draft_commit"
  PROVE  Origin(w)'
<1>1. ws[w].op = "post_draft" => entries'[ws[w].target].status \in {"draft", "voided"}
  BY DEF Origin, Life
<1> QED
  BY <1>1 DEF Origin

LEMMA Ended ==
  ASSUME NEW w \in Worker, Inv, End(w)
  PROVE  ws'[w].op = "none" /\ ws'[w].id = 0
BY DEF End, Inv, TypeOK, Blank

(* A request begins.                                                       *)
LEMMA OriginBegins ==
  ASSUME NEW w \in Worker, Inv, Request(w)
  PROVE  Origin(w)'
<1>1. entries' = entries /\ ws \in [Worker -> Work]
  BY DEF Request, Post, PostDraft, ReverseEntry, VoidEntry, TransitionPeriod, CreateDraft,
         PatchDraft, Archive, db, Inv, TypeOK
<1>3. CASE Post(w)
  <2>1. PICK k \in DocKey, p \in Period, ls \in Template :
          ws' = [ws EXCEPT ![w] = [Blank EXCEPT !.op = "post", !.id = NewId,
                !.new = EntryRow("posted", p, <<"doc", k>>, ls, 0)]]
    BY <1>3 DEF Post, Begin
  <2>2. ws'[w].op = "post" /\ ws'[w].new = EntryRow("posted", p, <<"doc", k>>, ls, 0)
    BY <1>1, <2>1 DEF Blank
  <2>3. ws'[w].new.mirrorOf = 0 /\ ws'[w].new.src = 0
    BY <2>2 DEF EntryRow, NoEntry
  <2> QED
    BY <2>2, <2>3 DEF Origin
<1>4. CASE PostDraft(w)
  <2>1. PICK i \in Id, k \in {"draft"} \X Id \cup {"client"} \X ClientKey :
          /\ entries[i].status = "draft" /\ (k[1] = "draft" => k[2] = i)
          /\ pc' = [pc EXCEPT ![w] = "validate"]
          /\ ws' = [ws EXCEPT ![w] = [Blank EXCEPT !.op = "post_draft", !.target = i, !.id = NewId,
                !.new = EntryRow("posted", entries[i].period, k, entries[i].lines, i)]]
    BY <1>4 DEF PostDraft, Begin
  <2>2. /\ ws'[w].op = "post_draft" /\ ws'[w].target = i /\ pc'[w] = "validate"
        /\ ws'[w].new = EntryRow("posted", entries[i].period, k, entries[i].lines, i)
    BY <1>1, <2>1 DEF Blank, Inv, TypeOK
  <2>3. ws'[w].new.mirrorOf = 0 /\ ws'[w].new.src = i /\ ws'[w].new.key = k
    BY <2>2 DEF EntryRow, NoEntry
  <2>4. ClientKey = {} => k = <<"draft", i>>
    BY <2>1
  <2> QED
    BY <1>1, <2>1, <2>2, <2>3, <2>4 DEF Origin
<1>5. CASE ReverseEntry(w)
  <2>1. PICK i \in Id, p \in Period :
          /\ pc' = [pc EXCEPT ![w] = "validate"]
          /\ ws' = [ws EXCEPT ![w] = [Blank EXCEPT !.op = "reverse", !.target = i, !.id = NewId,
                !.new = EntryRow("posted", p, <<"reversal", i>>, Swapped(entries[i].lines), 0)]]
    BY <1>5 DEF ReverseEntry, Begin
  <2>2. /\ ws'[w].op = "reverse" /\ ws'[w].target = i /\ pc'[w] = "validate"
        /\ ws'[w].new = EntryRow("posted", p, <<"reversal", i>>, Swapped(entries[i].lines), 0)
    BY <1>1, <2>1 DEF Blank, Inv, TypeOK
  <2>3. ws'[w].new.mirrorOf = 0 /\ ws'[w].new.src = 0 /\ ws'[w].new.key = <<"reversal", i>>
    BY <2>2 DEF EntryRow, NoEntry
  <2> QED
    BY <2>2, <2>3 DEF Origin
<1>6. CASE CreateDraft(w)
  <2>1. PICK p \in Period, ls \in Template :
          ws' = [ws EXCEPT ![w] = [Blank EXCEPT !.op = "create_draft", !.id = NewId,
                !.new = EntryRow("draft", p, NoKey, ls, 0)]]
    BY <1>6 DEF CreateDraft, Begin
  <2>2. ws'[w].op = "create_draft" /\ ws'[w].new = EntryRow("draft", p, NoKey, ls, 0)
    BY <1>1, <2>1 DEF Blank
  <2>3. ws'[w].new.mirrorOf = 0 /\ ws'[w].new.src = 0
    BY <2>2 DEF EntryRow, NoEntry
  <2> QED
    BY <2>2, <2>3 DEF Origin
<1>7. CASE VoidEntry(w) \/ TransitionPeriod(w) \/ PatchDraft(w) \/ Archive(w)
  <2>1. ws'[w].id = 0 /\ ws'[w].op \in {"void", "transition", "patch_draft", "archive"}
    <3>1. CASE VoidEntry(w)
      BY <1>1, <3>1 DEF VoidEntry, Begin, Blank
    <3>2. CASE TransitionPeriod(w)
      BY <1>1, <3>2 DEF TransitionPeriod, Begin, Blank
    <3>3. CASE PatchDraft(w)
      BY <1>1, <3>3 DEF PatchDraft, Begin, Blank
    <3>4. CASE Archive(w)
      BY <1>1, <3>4 DEF Archive, Begin, Blank
    <3> QED
      BY <1>7, <3>1, <3>2, <3>3, <3>4
  <2> QED
    BY <2>1 DEF Origin
<1> QED
  BY <1>3, <1>4, <1>5, <1>6, <1>7 DEF Request

(* A request takes its next step.                                          *)
LEMMA OriginStep ==
  ASSUME NEW w \in Worker, Inv, Origin(w), Step(w) \/ Crash(w), \A i \in Id : Life(i)
  PROVE  Origin(w)'
<1> USE DEF Goto
<1>1. /\ ws \in [Worker -> Work] /\ pc \in [Worker -> Place] /\ ws[w] \in Work
      /\ ws[w].new \in Entry
  BY WorkerFacts DEF Inv, TypeOK
<1>2. CASE End(w)
  BY <1>2, Ended, GoesOn
<1>3. CASE ~End(w) /\ Validate(w)
  <2> DEFINE same == {i \in Id : Exists(i) /\ entries[i].key = ws[w].new.key}
  <2>1. pc[w] = "validate" /\ entries' = entries
    BY <1>3 DEF Validate, Rollback, db
  <2>2. CASE same = {}
    <3>1. pc'[w] = "lock_period" /\ ws' = ws
      BY <1>1, <1>3, <2>2 DEF Validate, Rollback
    <3> QED
      BY <3>1, GoesOn
  <2>3. CASE same # {}
    <3> DEFINE i == CHOOSE j \in same : TRUE
    <3>1. ws' = [ws EXCEPT ![w] = [ws[w] EXCEPT !.id = 0, !.new = NoEntry, !.found = i]]
      BY <1>3, <2>3 DEF Validate, Rollback
    <3>2. entries[i].key = ws[w].new.key
      BY <2>3
    <3> HIDE DEF i, same
    <3>3. /\ ws'[w].id = 0 /\ ws'[w].found = i /\ ws'[w].op = ws[w].op
          /\ ws'[w].target = ws[w].target
      BY <1>1, <3>1 DEF Work
    <3>4. ws[w].id # 0
      BY <2>1, WorkerFacts DEF WorkerInv, Placed, Inserts
    <3>5. pc'[w] = "posted"
      BY <1>1, <1>3, <2>3 DEF Validate, Rollback, same
    <3> QED
      BY <2>1, <3>2, <3>3, <3>4, <3>5 DEF Origin
  <2> QED
    BY <2>2, <2>3
<1>4. CASE ~End(w) /\ (LockPeriod(w) \/ InsertEntry(w) \/ VoidLockPeriod(w) \/ RetireDraft(w))
  <2>1. /\ pc'[w] \notin {"posted", "draft_commit"} /\ ws'[w].op = ws[w].op /\ ws'[w].target = ws[w].target
        /\ ws'[w].id = ws[w].id /\ ws'[w].new = ws[w].new
    <3>1. CASE LockPeriod(w)
      BY <1>1, <1>4, <3>1 DEF LockPeriod, Rollback
    <3>2. CASE InsertEntry(w)
      BY <1>1, <1>4, <3>2 DEF InsertEntry, Rollback, Work
    <3>3. CASE VoidLockPeriod(w)
      BY <1>1, <1>4, <3>3 DEF VoidLockPeriod, Rollback, Work
    <3>4. CASE RetireDraft(w)
      BY <1>1, <1>4, <3>4 DEF RetireDraft, CommitLedger, Work
    <3> QED
      BY <1>4, <3>1, <3>2, <3>3, <3>4
  <2> QED
    BY <2>1, GoesOn
<1>5. CASE AllocateNumber(w)
  <2>1. /\ ws' = [ws EXCEPT ![w] = [ws[w] EXCEPT !.new =
                    [ws[w].new EXCEPT !.num = seq[ScopeOf[ws[w].new.period]]]]]
        /\ pc' = [pc EXCEPT ![w] = "insert"]
    BY <1>5 DEF AllocateNumber
  <2> DEFINE new == [ws[w].new EXCEPT !.num = seq[ScopeOf[ws[w].new.period]]]
  <2>2. new.mirrorOf = ws[w].new.mirrorOf /\ new.src = ws[w].new.src /\ new.key = ws[w].new.key
    BY <1>1 DEF Entry
  <2> HIDE DEF new
  <2>3. /\ pc'[w] = "insert" /\ ws'[w].op = ws[w].op /\ ws'[w].target = ws[w].target
        /\ ws'[w].id = ws[w].id /\ ws'[w].new = new
    BY <1>1, <2>1 DEF Work, new
  <2> QED
    BY <2>2, <2>3, GoesOn
<1>6. CASE MoveBalance(w)
  <2>1. /\ pc[w] = "balances"
        /\ ws' = [ws EXCEPT ![w] = [ws[w] EXCEPT !.todo = Tail(ws[w].todo)]]
        /\ \E at \in {"balances", "void_update", "posted"} :
             pc' = [pc EXCEPT ![w] = at] /\ (at = "posted" => ws[w].op # "void")
    BY <1>6 DEF MoveBalance
  <2>2. ws[w].op # "void" => ws[w].id # 0
    BY <2>1, WorkerFacts DEF WorkerInv, Placed, Inserts
  <2>3. /\ ws'[w].op = ws[w].op /\ ws'[w].target = ws[w].target
        /\ ws'[w].id = ws[w].id /\ ws'[w].new = ws[w].new
        /\ pc'[w] = "posted" => ws[w].op # "void"
        /\ pc'[w] # "draft_commit"
    BY <1>1, <2>1 DEF Work
  <2> QED
    BY <2>2, <2>3, GoesOn
<1> QED
  BY <1>2, <1>3, <1>4, <1>5, <1>6
  DEF Step, Crash, AbortDeadlock, Rollback, CommitPost, MarkReversed, VoidUpdate, CommitLedger,
      WriteTransition, CommitDraft, CommitPatch, WriteArchive

(* What keeps the lineage of every entry: an entry keeps its draft, a new  *)
(* one has a retired draft, and a row becomes REVERSED with its mirror.    *)
Mirrors(i) ==
  /\ entries'[i].status # "absent" /\ entries'[i].mirrorOf # 0
  /\ entries'[entries'[i].mirrorOf].status = "reversed"
  /\ entries'[i].key = <<"reversal", entries'[i].mirrorOf>>

LEMMA LineageStep ==
  ASSUME Inv, Inv', \A i \in Id : Lineage(i), \A i \in Id : Life(i),
         \A i \in Id : \/ Exists(i) /\ entries'[i].src = entries[i].src
                       \/ entries'[i].src = 0
                       \/ /\ Exists(i)' /\ entries'[entries'[i].src].status = "voided"
                          /\ ClientKey = {} => entries'[i].key = <<"draft", entries'[i].src>>,
         \A i \in Id : \/ Exists(i) /\ entries'[i].mirrorOf = entries[i].mirrorOf
                       \/ ~Exists(i) /\ entries'[i].mirrorOf = 0
                       \/ Mirrors(i),
         \A i \in Id : entries'[i].status = "reversed" =>
                         \/ entries[i].status = "reversed"
                         \/ \E m \in Id : entries'[m].mirrorOf = i
  PROVE  \A i \in Id : Lineage(i)'
<1> SUFFICES ASSUME NEW i \in Id PROVE Lineage(i)'
  OBVIOUS
<1>1. Lineage(i) /\ Life(i) /\ entries[i] \in Entry /\ entries'[i] \in Entry
  BY DEF Inv, TypeOK
<1>2. ASSUME entries'[i].src # 0
      PROVE  /\ Exists(i)' /\ entries'[entries'[i].src].status = "voided"
             /\ ClientKey = {} => entries'[i].key = <<"draft", entries'[i].src>>
  <2>1. CASE Exists(i) /\ entries'[i].src = entries[i].src
    <3>1. entries[i].src \in Id
      BY <1>1, <1>2, <2>1 DEF Entry
    <3>2. /\ entries[entries[i].src].status = "voided"
          /\ ClientKey = {} => entries[i].key = <<"draft", entries[i].src>>
      BY <1>1, <1>2, <2>1 DEF Lineage
    <3>3. entries'[entries[i].src].status = "voided"
      BY <3>1, <3>2 DEF Life
    <3>4. Exists(i)' /\ entries'[i].key = entries[i].key
      BY <1>1, <2>1 DEF Life
    <3> QED
      BY <2>1, <3>2, <3>3, <3>4
  <2> QED
    BY <1>2, <2>1
<1>3. ASSUME entries'[i].mirrorOf # 0 PROVE Mirrors(i)
  <2>1. CASE Exists(i) /\ entries'[i].mirrorOf = entries[i].mirrorOf
    <3>1. entries[i].mirrorOf \in Id
      BY <1>1, <1>3, <2>1 DEF Entry
    <3>2. /\ entries[entries[i].mirrorOf].status = "reversed"
          /\ entries[i].key = <<"reversal", entries[i].mirrorOf>>
      BY <1>1, <1>3, <2>1 DEF Lineage
    <3>3. entries'[entries[i].mirrorOf].status = "reversed"
      BY <3>1, <3>2 DEF Life
    <3>4. Exists(i)' /\ entries'[i].key = entries[i].key
      BY <1>1, <2>1 DEF Life
    <3> QED
      BY <1>3, <2>1, <3>2, <3>3, <3>4 DEF Mirrors, Exists
  <2> QED
    BY <1>3, <2>1
<1>4. ASSUME entries'[i].status = "reversed" PROVE \E m \in Id : entries'[m].mirrorOf = i
  <2>1. CASE entries[i].status = "reversed"
    <3>1. PICK m \in Id : entries[m].mirrorOf = i
      BY <1>1, <2>1 DEF Lineage
    <3>2. i # 0
      BY ConstantsOK
    <3>3. Exists(m) /\ entries[m].key = <<"reversal", i>>
      BY <3>1, <3>2 DEF Lineage
    <3>4. entries'[m].key = <<"reversal", i>>
      BY <3>3 DEF Life
    <3>5. CASE Mirrors(m)
      BY <3>4, <3>5 DEF Mirrors
    <3> QED
      BY <3>1, <3>3, <3>5
  <2> QED
    BY <1>4, <2>1
<1> QED
  BY <1>2, <1>3, <1>4 DEF Lineage, Mirrors, Exists

(* Steps that leave key, draft, mirror and status of every entry alone.    *)
LEMMA LineageSame ==
  ASSUME Inv, \A i \in Id : Lineage(i),
         \A i \in Id : /\ entries'[i].status = entries[i].status /\ entries'[i].key = entries[i].key
                       /\ entries'[i].src = entries[i].src
                       /\ entries'[i].mirrorOf = entries[i].mirrorOf
  PROVE  \A i \in Id : Lineage(i)'
<1> SUFFICES ASSUME NEW i \in Id PROVE Lineage(i)'
  OBVIOUS
<1>1. Lineage(i) /\ entries[i].src \in Id \cup {0} /\ entries[i].mirrorOf \in Id \cup {0}
  BY DEF Inv, TypeOK, Entry
<1> QED
  BY <1>1 DEF Lineage, Exists

(* A transaction of w commits its insert; es is the table before its own   *)
(* statements on other rows.                                               *)
LEMMA Arrival ==
  ASSUME NEW w \in Worker, Inv, Origin(w), pc[w] \in {"posted", "void_update"}
  PROVE  LET es == WithInsert(w, entries) IN
         /\ es \in [Id -> Entry]
         /\ \A i \in Id \ {ws[w].id} : es[i] = entries[i]
         /\ ws[w].id # 0 =>
              /\ ws[w].id \in Id /\ ~Exists(ws[w].id) /\ es[ws[w].id] = ws[w].new
              /\ ws[w].new.status = "posted" /\ ws[w].new.mirrorOf = 0
              /\ ws[w].new.src = IF ws[w].op = "post_draft" THEN ws[w].target ELSE 0
BY InsertedTable, PendingFacts DEF Origin

LEMMA ArrivalCommits ==
  ASSUME NEW w \in Worker, Inv, Inv', Origin(w), \A i \in Id : Lineage(i), \A i \in Id : Life(i),
         pc[w] = "posted", ws[w].op # "reverse", entries' = WithInsert(w, entries),
         ws[w].op = "post_draft" => entries[ws[w].target].status # "draft"
  PROVE  \A i \in Id : Lineage(i)'
<1> DEFINE n == ws[w].id
           t == ws[w].target
<1>1. /\ \A i \in Id \ {n} : entries'[i] = entries[i]
      /\ n # 0 => /\ n \in Id /\ ~Exists(n) /\ entries'[n] = ws[w].new
                  /\ ws[w].new.status = "posted" /\ ws[w].new.mirrorOf = 0
                  /\ ws[w].new.src = IF ws[w].op = "post_draft" THEN t ELSE 0
  BY Arrival
<1>2. n # 0 /\ ws[w].op = "post_draft" =>
        /\ t \in Id /\ entries'[t].status = "voided"
        /\ ClientKey = {} => ws[w].new.key = <<"draft", t>>
  <2>1. ASSUME n # 0, ws[w].op = "post_draft"
        PROVE  /\ t \in Id /\ entries[t].status = "voided" /\ t # n
               /\ ClientKey = {} => ws[w].new.key = <<"draft", t>>
    BY <1>1, <2>1 DEF Origin, Exists
  <2> QED
    BY <1>1, <2>1
<1>3. \A i \in Id : Exists(i) => i # n
  BY <1>1, ConstantsOK
<1>4. ASSUME NEW i \in Id
      PROVE  \/ Exists(i) /\ entries'[i].src = entries[i].src
             \/ entries'[i].src = 0
             \/ /\ Exists(i)' /\ entries'[entries'[i].src].status = "voided"
                /\ ClientKey = {} => entries'[i].key = <<"draft", entries'[i].src>>
  <2>1. CASE i # n
    BY <1>1, <2>1 DEF Lineage
  <2>2. CASE i = n
    BY <1>1, <1>2, <2>2, ConstantsOK DEF Exists
  <2> QED
    BY <2>1, <2>2
<1>5. ASSUME NEW i \in Id
      PROVE  \/ Exists(i) /\ entries'[i].mirrorOf = entries[i].mirrorOf
             \/ ~Exists(i) /\ entries'[i].mirrorOf = 0
  <2>1. CASE i # n
    BY <1>1, <2>1 DEF Lineage
  <2>2. CASE i = n
    BY <1>1, <2>2, ConstantsOK
  <2> QED
    BY <2>1, <2>2
<1>6. \A i \in Id : entries'[i].status = "reversed" => entries[i].status = "reversed"
  BY <1>1, ConstantsOK
<1> QED
  BY <1>4, <1>5, <1>6, LineageStep

LEMMA DraftArrives ==
  ASSUME NEW w \in Worker, Inv, Inv', Origin(w), \A i \in Id : Lineage(i), \A i \in Id : Life(i),
         CommitDraft(w)
  PROVE  \A i \in Id : Lineage(i)'
<1> DEFINE n == ws[w].id
<1>1. /\ n \in Id /\ ~Exists(n) /\ ws[w].new.status = "draft" /\ ws[w].op # "post_draft"
      /\ entries' = WithInsert(w, entries)
  <2>1. pc[w] = "draft_commit" /\ entries' = WithInsert(w, entries)
    BY DEF CommitDraft
  <2>2. n \in Id /\ ~Exists(n) /\ ws[w].new.status = "draft"
    BY <2>1, WorkerFacts DEF WorkerInv, Placed, PendingRow, Inserts, Work
  <2> QED
    BY <2>1, <2>2 DEF Origin
<1>2. entries'[n] = ws[w].new /\ \A i \in Id \ {n} : entries'[i] = entries[i]
  BY <1>1, InsertedTable
<1>3. ws[w].new.mirrorOf = 0 /\ ws[w].new.src = 0
  BY <1>1, ConstantsOK DEF Origin
<1>4. \A i \in Id : Exists(i) => i # n
  BY <1>1
<1>5. ASSUME NEW i \in Id
      PROVE  /\ \/ Exists(i) /\ entries'[i].src = entries[i].src
                \/ entries'[i].src = 0
             /\ \/ Exists(i) /\ entries'[i].mirrorOf = entries[i].mirrorOf
                \/ ~Exists(i) /\ entries'[i].mirrorOf = 0
  <2>1. CASE i # n
    BY <1>2, <2>1 DEF Lineage
  <2>2. CASE i = n
    BY <1>1, <1>2, <1>3, <2>2
  <2> QED
    BY <2>1, <2>2
<1>6. \A i \in Id : entries'[i].status = "reversed" => entries[i].status = "reversed"
  BY <1>1, <1>2
<1> QED
  BY <1>5, <1>6, LineageStep

LEMMA VoidsKeep ==
  ASSUME NEW w \in Worker, Inv, Inv', Origin(w), \A i \in Id : Lineage(i), \A i \in Id : Life(i),
         VoidUpdate(w), ~Rollback(w)
  PROVE  \A i \in Id : Lineage(i)'
<1> DEFINE n == ws[w].id
           t == ws[w].target
           base == WithInsert(w, entries)
<1>1. /\ pc[w] = "void_update" /\ entries' = [base EXCEPT ![t] = [base[t] EXCEPT !.status = "voided"]]
  BY DEF VoidUpdate, CommitLedger
<1>2. /\ base \in [Id -> Entry]
      /\ \A i \in Id \ {n} : base[i] = entries[i]
      /\ n # 0 => /\ n \in Id /\ ~Exists(n) /\ base[n] = ws[w].new
                  /\ ws[w].new.status = "posted" /\ ws[w].new.mirrorOf = 0
                  /\ ws[w].new.src = IF ws[w].op = "post_draft" THEN t ELSE 0
  BY <1>1, Arrival
<1>3. t \in Id /\ Exists(t) /\ t # n
  <2>1. t \in Id /\ Exists(t)
    BY <1>1, WorkerFacts DEF WorkerInv, Placed, TargetKnown, Voids, Exists
  <2> QED
    BY <1>2, <2>1, ConstantsOK
<1> HIDE DEF base, t, n
<1>4. \A i \in Id : /\ entries'[i].status = IF i = t THEN "voided" ELSE base[i].status
                    /\ entries'[i].src = base[i].src /\ entries'[i].mirrorOf = base[i].mirrorOf
                    /\ entries'[i].key = base[i].key
  BY <1>1, <1>2, <1>3 DEF Entry
<1>5. \A i \in Id : Exists(i) => i # n
  BY <1>2, ConstantsOK
<1>6. ASSUME NEW i \in Id
      PROVE  \/ Exists(i) /\ entries'[i].src = entries[i].src
             \/ entries'[i].src = 0
             \/ /\ Exists(i)' /\ entries'[entries'[i].src].status = "voided"
                /\ ClientKey = {} => entries'[i].key = <<"draft", entries'[i].src>>
  <2>1. CASE i # n
    BY <1>2, <1>4, <2>1 DEF Lineage
  <2>2. CASE i = n /\ ws[w].op = "post_draft"
    <3>1. entries'[i].src = t /\ entries'[t].status = "voided" /\ Exists(i)'
      BY <1>2, <1>3, <1>4, <2>2, ConstantsOK DEF Exists
    <3>2. ClientKey = {} => entries'[i].key = <<"draft", t>>
      BY <1>2, <1>4, <2>2, ConstantsOK DEF Origin, n, t
    <3> QED
      BY <3>1, <3>2
  <2>3. CASE i = n /\ ws[w].op # "post_draft"
    BY <1>2, <1>4, <2>3, ConstantsOK
  <2> QED
    BY <2>1, <2>2, <2>3
<1>7. ASSUME NEW i \in Id
      PROVE  \/ Exists(i) /\ entries'[i].mirrorOf = entries[i].mirrorOf
             \/ ~Exists(i) /\ entries'[i].mirrorOf = 0
  <2>1. CASE i # n
    BY <1>2, <1>4, <2>1 DEF Lineage
  <2>2. CASE i = n
    BY <1>2, <1>4, <2>2, ConstantsOK
  <2> QED
    BY <2>1, <2>2
<1>8. \A i \in Id : entries'[i].status = "reversed" => entries[i].status = "reversed"
  BY <1>2, <1>4, ConstantsOK
<1> QED
  BY <1>6, <1>7, <1>8, LineageStep

LEMMA ReversalKeeps ==
  ASSUME NEW w \in Worker, Inv, Inv', Origin(w), \A i \in Id : Lineage(i), \A i \in Id : Life(i),
         MarkReversed(w), ~Rollback(w)
  PROVE  \A i \in Id : Lineage(i)'
<1> DEFINE n == ws[w].id
           o == ws[w].target
           m == IF n = 0 THEN ws[w].found ELSE n
           base == WithInsert(w, entries)
           first == [base EXCEPT ![o] = [base[o] EXCEPT !.status = "reversed"]]
<1>1. /\ pc[w] = "posted" /\ ws[w].op = "reverse"
      /\ entries' = [first EXCEPT ![m] = [first[m] EXCEPT !.mirrorOf = o]]
  BY DEF MarkReversed, CommitLedger
<1>2. /\ base \in [Id -> Entry]
      /\ \A i \in Id \ {n} : base[i] = entries[i]
      /\ n # 0 => /\ n \in Id /\ ~Exists(n) /\ base[n] = ws[w].new
                  /\ ws[w].new.status = "posted" /\ ws[w].new.mirrorOf = 0 /\ ws[w].new.src = 0
  BY <1>1, Arrival
<1>3. o \in Id /\ Exists(o) /\ o # n
  <2>1. o \in Id /\ Exists(o)
    BY <1>1, WorkerFacts DEF WorkerInv, Placed, TargetKnown, Exists
  <2> QED
    BY <1>2, <2>1, ConstantsOK
<1>4. m \in Id /\ base[m].key = <<"reversal", o>> /\ base[m].status # "absent"
  <2>1. CASE n = 0
    <3>1. ws[w].found \in Id /\ Exists(ws[w].found)
      BY <1>1, <2>1, WorkerFacts DEF WorkerInv, Placed, Inserts
    <3>2. entries[ws[w].found].key = <<"reversal", o>>
      BY <1>1, <2>1 DEF Origin
    <3> QED
      BY <1>2, <2>1, <3>1, <3>2, ConstantsOK DEF Exists
  <2>2. CASE n # 0
    BY <1>1, <1>2, <2>2 DEF Origin
  <2> QED
    BY <2>1, <2>2
<1> HIDE DEF base, o, n, m
<1>5. /\ first \in [Id -> Entry]
      /\ \A i \in Id : /\ first[i].status = IF i = o THEN "reversed" ELSE base[i].status
                       /\ first[i].src = base[i].src /\ first[i].mirrorOf = base[i].mirrorOf
                       /\ first[i].key = base[i].key
  BY <1>2, <1>3 DEF Entry, Status
<1> HIDE DEF first
<1>6. \A i \in Id : /\ entries'[i].status = IF i = o THEN "reversed" ELSE base[i].status
                    /\ entries'[i].src = base[i].src
                    /\ entries'[i].mirrorOf = IF i = m THEN o ELSE base[i].mirrorOf
                    /\ entries'[i].key = base[i].key
  <2>1. entries' = [first EXCEPT ![m] = [first[m] EXCEPT !.mirrorOf = o]]
    BY <1>1
  <2>2. \A i \in Id : entries'[i] = IF i = m THEN [first[m] EXCEPT !.mirrorOf = o] ELSE first[i]
    BY <1>4, <1>5, <2>1
  <2>3. LET r == [first[m] EXCEPT !.mirrorOf = o]
        IN  r.status = first[m].status /\ r.src = first[m].src /\ r.mirrorOf = o /\ r.key = first[m].key
    BY <1>4, <1>5 DEF Entry
  <2> QED
    BY <1>5, <2>2, <2>3
<1>7. \A i \in Id : Exists(i) => i # n
  BY <1>2, ConstantsOK
<1>8. ASSUME NEW i \in Id
      PROVE  \/ Exists(i) /\ entries'[i].src = entries[i].src
             \/ entries'[i].src = 0
  <2>1. CASE i # n
    BY <1>2, <1>6, <2>1 DEF Lineage
  <2>2. CASE i = n
    BY <1>2, <1>6, <2>2, ConstantsOK
  <2> QED
    BY <2>1, <2>2
<1>9. Mirrors(m)
  <2>1. o # 0 /\ entries'[m].mirrorOf = o /\ entries'[o].status = "reversed"
        /\ entries'[m].key = <<"reversal", o>> /\ entries'[m].status # "absent"
    BY <1>3, <1>4, <1>6, ConstantsOK
  <2> QED
    BY <2>1 DEF Mirrors, Exists
<1>10. ASSUME NEW i \in Id
       PROVE  \/ Exists(i) /\ entries'[i].mirrorOf = entries[i].mirrorOf
              \/ ~Exists(i) /\ entries'[i].mirrorOf = 0
              \/ Mirrors(i)
  <2>1. CASE i = m
    BY <1>9, <2>1
  <2>2. CASE i # m /\ i # n
    BY <1>2, <1>6, <2>2 DEF Lineage
  <2>3. CASE i # m /\ i = n
    BY <1>2, <1>6, <2>3, ConstantsOK
  <2> QED
    BY <2>1, <2>2, <2>3
<1>11. \A i \in Id : entries'[i].status = "reversed" =>
         entries[i].status = "reversed" \/ \E j \in Id : entries'[j].mirrorOf = i
  <2> TAKE i \in Id
  <2>1. CASE i = o
    BY <1>4, <1>6, <2>1
  <2>2. CASE i # o
    BY <1>2, <1>6, <2>2, ConstantsOK
  <2> QED
    BY <2>1, <2>2
<1> QED
  BY <1>8, <1>10, <1>11, LineageStep

LEMMA PatchKeeps ==
  ASSUME NEW w \in Worker, Inv, \A i \in Id : Lineage(i), CommitPatch(w), ~Rollback(w)
  PROVE  \A i \in Id : Lineage(i)'
<1> DEFINE t == ws[w].target
<1>1. entries' = [entries EXCEPT ![t].period = ws[w].at, ![t].lines = ws[w].lines]
  BY DEF CommitPatch
<1>2. \A i \in Id : /\ entries'[i].status = entries[i].status /\ entries'[i].key = entries[i].key
                    /\ entries'[i].src = entries[i].src
                    /\ entries'[i].mirrorOf = entries[i].mirrorOf
  BY <1>1 DEF Inv, TypeOK, Entry
<1> QED
  BY <1>2, LineageSame

(* A step of w is no step of anybody else.                                 *)
LEMMA OneMoves ==
  ASSUME NEW w \in Worker, NEW v \in Worker, v # w, Inv, Request(w) \/ Step(w) \/ Crash(w)
  PROVE  pc'[v] = pc[v] /\ ws'[v] = ws[v]
<1>1. pc \in [Worker -> Place] /\ ws \in [Worker -> Work]
  BY DEF Inv, TypeOK
<1>2. CASE End(w)
  BY <1>1, <1>2 DEF End
<1>3. CASE Request(w)
  <2>1. \E at, work : pc' = [pc EXCEPT ![w] = at] /\ ws' = [ws EXCEPT ![w] = work]
    <3>1. CASE Post(w)
      BY <3>1 DEF Post, Begin
    <3>2. CASE PostDraft(w)
      <4>1. PICK i \in Id, k \in {"draft"} \X Id \cup {"client"} \X ClientKey :
              Begin(w, "post_draft", "validate", [Blank EXCEPT !.op = "post_draft", !.target = i,
                 !.id = NewId,
                 !.new = EntryRow("posted", entries[i].period, k, entries[i].lines, i)])
        BY <3>2 DEF PostDraft
      <4> QED
        BY <4>1 DEF Begin
    <3>3. CASE ReverseEntry(w)
      BY <3>3 DEF ReverseEntry, Begin
    <3>4. CASE VoidEntry(w)
      BY <3>4 DEF VoidEntry, Begin
    <3>5. CASE TransitionPeriod(w) \/ PatchDraft(w)
      BY <3>5 DEF TransitionPeriod, PatchDraft, Begin
    <3>6. CASE CreateDraft(w) \/ Archive(w)
      BY <3>6 DEF CreateDraft, Archive, Begin
    <3> QED
      BY <1>3, <3>1, <3>2, <3>3, <3>4, <3>5, <3>6 DEF Request
  <2> QED
    BY <1>1, <2>1
<1>4. CASE ~End(w) /\ (Step(w) \/ Crash(w))
  <2>1. /\ \E at : pc' = [pc EXCEPT ![w] = at]
        /\ ws' = ws \/ \E work : ws' = [ws EXCEPT ![w] = work]
    <3>1. CASE Validate(w)
      BY <1>4, <3>1 DEF Validate, Rollback, Goto
    <3>2. CASE LockPeriod(w) \/ AllocateNumber(w) \/ InsertEntry(w) \/ MoveBalance(w)
      BY <1>4, <3>2 DEF LockPeriod, AllocateNumber, InsertEntry, MoveBalance, Rollback, Goto
    <3>3. CASE VoidLockPeriod(w) \/ RetireDraft(w)
      BY <1>4, <3>3 DEF VoidLockPeriod, RetireDraft, Rollback, CommitLedger, Goto
    <3> QED
      BY <1>4, <3>1, <3>2, <3>3
      DEF Step, Crash, AbortDeadlock, Rollback, CommitPost, MarkReversed, VoidUpdate, CommitLedger,
          WriteTransition, CommitDraft, CommitPatch, WriteArchive
  <2> QED
    BY <1>1, <2>1
<1> QED
  BY <1>2, <1>3, <1>4

-----------------------------------------------------------------------------
(* Balances.                                                               *)

LEMMA SumIsTotal == \A f : SumFunction(f) = Total(f, DOMAIN f)
BY DEF SumFunction, SumFunctionOnSet, FoldFunctionOnSet, MapThenFoldSet, Total, IsSum,
       Partial, Pick

(* A set of lines moves a balance by an integer, and none by nothing.      *)
LEMMA MovementTyped ==
  /\ \A ls \in Seq(Line), a \in Account : Movement(ls)[a] \in Int
  /\ \A a \in Account : Movement(<<>>)[a] = 0
<1>1. ASSUME NEW ls \in Seq(Line), NEW a \in Account PROVE Movement(ls)[a] \in Int
  <2> DEFINE f == [n \in DOMAIN ls |-> Signed(ls[n], a)]
  <2>1. DOMAIN ls = 1..Len(ls) /\ Len(ls) \in Nat /\ \A n \in DOMAIN ls : ls[n] \in Line
    OBVIOUS
  <2>2. \A n \in DOMAIN ls : f[n] \in Int
    BY <2>1 DEF Signed, Line
  <2>3. IsFiniteSet(DOMAIN ls)
    BY <2>1, FS_Interval
  <2>4. Movement(ls)[a] = Total(f, DOMAIN ls)
    BY SumIsTotal DEF Movement
  <2> HIDE DEF f
  <2> QED
    BY <2>2, <2>3, <2>4, TotalType
<1>2. ASSUME NEW a \in Account PROVE Movement(<<>>)[a] = 0
  <2> DEFINE f == [n \in DOMAIN <<>> |-> Signed(<<>>[n], a)]
  <2>1. Movement(<<>>)[a] = Total(f, {})
    BY SumIsTotal DEF Movement
  <2>2. Total(f, {}) = 0
    BY FS_EmptySet, TotalRecurses
  <2> QED
    BY <2>1, <2>2
<1> QED
  BY <1>1, <1>2

LEMMA InBooksTyped == \A e \in Entry, a \in Account : InBooks(e, a) \in Int
BY MovementTyped DEF InBooks, Entry

(* What an entry table adds up to, for account a.                          *)
Books(es, a) == SumFunction([i \in Id |-> InBooks(es[i], a)])

LEMMA BooksTyped == \A es \in [Id -> Entry], a \in Account : Books(es, a) \in Int
<1> SUFFICES ASSUME NEW es \in [Id -> Entry], NEW a \in Account PROVE Books(es, a) \in Int
  OBVIOUS
<1> DEFINE f == [i \in Id |-> InBooks(es[i], a)]
<1>1. Books(es, a) = Total(f, Id)
  BY SumIsTotal DEF Books
<1>2. IsFiniteSet(Id) /\ \A i \in Id : f[i] \in Int
  BY InBooksTyped, ConstantsOK
<1> HIDE DEF f
<1> QED
  BY <1>1, <1>2, TotalType

(* One row of the table changes.                                           *)
LEMMA OneRowChanges ==
  ASSUME NEW es \in [Id -> Entry], NEW fs \in [Id -> Entry], NEW a \in Account, NEW x \in Id,
         \A i \in Id \ {x} : InBooks(fs[i], a) = InBooks(es[i], a)
  PROVE  /\ Books(es, a) \in Int /\ Books(fs, a) \in Int
         /\ Books(fs, a) = Books(es, a) - InBooks(es[x], a) + InBooks(fs[x], a)
<1> DEFINE f == [i \in Id |-> InBooks(es[i], a)]
           h == [i \in Id |-> InBooks(fs[i], a)]
<1>1. Books(es, a) = Total(f, Id) /\ Books(fs, a) = Total(h, Id)
  BY SumIsTotal DEF Books
<1>2. \A i \in Id : f[i] \in Int /\ h[i] \in Int
  BY InBooksTyped
<1>3. \A i \in Id \ {x} : h[i] = f[i]
  OBVIOUS
<1>4. f[x] = InBooks(es[x], a) /\ h[x] = InBooks(fs[x], a)
  OBVIOUS
<1>5. IsFiniteSet(Id)
  BY ConstantsOK
<1> HIDE DEF f, h
<1>6. /\ Total(f, Id) \in Int /\ Total(h, Id) \in Int
      /\ Total(h, Id) = Total(f, Id) - f[x] + h[x]
  BY ONLY x \in Id, <1>2, <1>3, <1>5, TotalChange
<1> QED
  BY <1>1, <1>4, <1>6

(* No row changes what it has in the books.                                *)
LEMMA SameBooks ==
  ASSUME NEW es \in [Id -> Entry], NEW fs \in [Id -> Entry], NEW a \in Account,
         \A i \in Id : InBooks(fs[i], a) = InBooks(es[i], a)
  PROVE  Books(fs, a) = Books(es, a)
<1>1. [i \in Id |-> InBooks(fs[i], a)] = [i \in Id |-> InBooks(es[i], a)]
  OBVIOUS
<1> QED
  BY <1>1 DEF Books

(* The insert of a committing transaction adds what its lines move.        *)
LEMMA InsertAdds ==
  ASSUME NEW w \in Worker, Inv, pc[w] \in {"posted", "void_update"}, NEW a \in Account
  PROVE  /\ Books(WithInsert(w, entries), a) = Books(entries, a) + Movement(ws[w].new.lines)[a]
         /\ Books(entries, a) \in Int /\ Movement(ws[w].new.lines)[a] \in Int
<1> DEFINE es == WithInsert(w, entries)
<1>1. entries \in [Id -> Entry] /\ es \in [Id -> Entry] /\ ws[w].new \in Entry
  BY InsertedTable, WorkerFacts DEF Inv, TypeOK, Work
<1>2. Movement(ws[w].new.lines)[a] \in Int
  BY <1>1, MovementTyped DEF Entry
<1>3. CASE ws[w].id = 0
  <2>1. es = entries /\ ws[w].new.lines = <<>>
    BY <1>3, PendingFacts DEF WithInsert, NoEntry
  <2>2. Books(entries, a) \in Int
    BY <1>1, BooksTyped
  <2>3. Movement(ws[w].new.lines)[a] = 0
    BY <2>1, MovementTyped
  <2> QED
    BY <2>1, <2>2, <2>3
<1>4. CASE ws[w].id # 0
  <2> DEFINE x == ws[w].id
  <2>1. x \in Id /\ entries[x].status = "absent" /\ ws[w].new.status = "posted"
    BY <1>4, PendingFacts DEF Exists
  <2>2. es[x] = ws[w].new /\ \A i \in Id \ {x} : es[i] = entries[i]
    BY <2>1, InsertedTable
  <2>3. InBooks(entries[x], a) = 0 /\ InBooks(es[x], a) = Movement(ws[w].new.lines)[a]
    BY <2>1, <2>2 DEF InBooks, Contributes
  <2> HIDE DEF es, x
  <2>4. /\ Books(entries, a) \in Int
        /\ Books(es, a) = Books(entries, a) - InBooks(entries[x], a) + InBooks(es[x], a)
    BY <1>1, <2>1, <2>2, OneRowChanges
  <2> QED
    BY <1>2, <2>3, <2>4 DEF es
<1> QED
  BY <1>2, <1>3, <1>4

-----------------------------------------------------------------------------
(* What a request that voids unwinds.                                      *)

Unwindings == \A w \in Worker : UnwindInv(w)

(* Only the UPDATE of void_entry makes a row VOIDED.                       *)
LEMMA OnlyVoidsVoid ==
  ASSUME NEW w \in Worker, Inv, Request(w) \/ Step(w) \/ Crash(w), NEW i \in Id,
         entries[i].status # "voided", entries'[i].status = "voided"
  PROVE  pc[w] = "void_update" /\ i = ws[w].target
<1>1. CASE UNCHANGED entries
  BY <1>1
<1>2. CASE VoidUpdate(w) /\ ~Rollback(w)
  <2> DEFINE t == ws[w].target
  <2>1. pc[w] = "void_update" /\ entries' = [WithInsert(w, entries) EXCEPT ![t].status = "voided"]
    BY <1>2 DEF VoidUpdate, CommitLedger
  <2>2. CASE i = t
    BY <2>1, <2>2
  <2>3. CASE i # t
    <3>1. entries'[i] = WithInsert(w, entries)[i]
      BY <2>1, <2>3, InsertedTable
    <3>2. i = ws[w].id /\ entries'[i] = ws[w].new
      BY <3>1, InsertedTable
    <3>3. ws[w].new.status = "posted"
      BY <2>1, <3>2, PendingFacts, ConstantsOK
    <3> QED
      BY <3>2, <3>3
  <2> QED
    BY <2>2, <2>3
<1>3. CASE CommitPost(w) \/ (RetireDraft(w) /\ entries' # entries)
  <2>1. pc[w] = "posted" /\ entries' = WithInsert(w, entries)
    BY <1>3 DEF CommitPost, RetireDraft, CommitLedger, db
  <2>2. i = ws[w].id /\ entries'[i] = ws[w].new
    BY <2>1, InsertedTable
  <2>3. ws[w].new.status = "posted"
    BY <2>1, <2>2, PendingFacts, ConstantsOK
  <2> QED
    BY <2>2, <2>3
<1>4. CASE MarkReversed(w) /\ ~Rollback(w)
  <2> DEFINE o == ws[w].target
             m == IF ws[w].id = 0 THEN ws[w].found ELSE ws[w].id
             base == WithInsert(w, entries)
             first == [base EXCEPT ![o] = [base[o] EXCEPT !.status = "reversed"]]
  <2>1. pc[w] = "posted" /\ entries' = [first EXCEPT ![m] = [first[m] EXCEPT !.mirrorOf = o]]
    BY <1>4 DEF MarkReversed, CommitLedger
  <2>2. base \in [Id -> Entry]
    BY InsertedTable
  <2>3. \A j \in Id : first[j] \in Entry /\ first[j].status \in {"reversed", base[j].status}
    BY <2>2 DEF Entry, Status
  <2>4. DOMAIN first = Id
    BY <2>2
  <2> HIDE DEF first, base, m
  <2>5. entries'[i].status = first[i].status
    BY <2>1, <2>3, <2>4 DEF Entry
  <2>6. base[i].status = "voided"
    BY <2>3, <2>5
  <2>7. i = ws[w].id /\ ws[w].new.status = "voided"
    BY <2>6, InsertedTable DEF base
  <2>8. ws[w].new.status = "posted"
    BY <2>1, <2>7, PendingFacts, ConstantsOK
  <2> QED
    BY <2>7, <2>8
<1>5. CASE CommitDraft(w)
  <2>1. entries' = WithInsert(w, entries) /\ pc[w] = "draft_commit"
    BY <1>5 DEF CommitDraft
  <2>2. i = ws[w].id /\ entries'[i] = ws[w].new
    BY <2>1, InsertedTable
  <2>3. ws[w].new.status \in {"draft", "posted"}
    BY <2>2, WorkerFacts, ConstantsOK DEF WorkerInv, PendingRow
  <2> QED
    BY <2>2, <2>3
<1>6. CASE CommitPatch(w) /\ ~Rollback(w)
  <2>1. entries' = [entries EXCEPT ![ws[w].target].period = ws[w].at,
                                   ![ws[w].target].lines = ws[w].lines]
    BY <1>6 DEF CommitPatch
  <2> QED
    BY <2>1 DEF Inv, TypeOK, Entry
<1>7. \/ CommitPost(w) \/ RetireDraft(w) \/ CommitDraft(w) \/ VoidUpdate(w)
      \/ MarkReversed(w) \/ CommitPatch(w) \/ UNCHANGED entries
  BY DEF Request, Post, PostDraft, ReverseEntry, VoidEntry, TransitionPeriod, CreateDraft,
         PatchDraft, Archive, Step, Crash, AbortDeadlock, Validate, LockPeriod, AllocateNumber,
         InsertEntry, MoveBalance, VoidLockPeriod, WriteTransition, WriteArchive, Rollback, db
<1>8. Rollback(w) => UNCHANGED entries
  BY DEF Rollback, db
<1> QED
  BY <1>1, <1>2, <1>3, <1>4, <1>5, <1>6, <1>7, <1>8

(* The other requests.                                                     *)
LEMMA OthersUnwind ==
  ASSUME OneVoider, Inv, NEW w \in Worker, NEW v \in Worker, v # w,
         Request(w) \/ Step(w) \/ Crash(w), UnwindInv(w), UnwindInv(v), \A i \in Id : Life(i)
  PROVE  UnwindInv(v)'
<1>1. pc'[v] = pc[v] /\ ws'[v] = ws[v]
  BY OneMoves
<1> DEFINE t == ws[v].target
<1>2. ASSUME Voids(v), ws[v].seen = "posted"
      PROVE  entries'[t].status # "voided" /\ entries'[t].lines = entries[t].lines
  <2>1. t \in Id /\ entries[t].status \in {"posted", "reversed"} /\ ws[v].op = "void"
    BY <1>2, WorkerFacts DEF WorkerInv, Placed, TargetKnown, UnwindInv
  <2>2. entries'[t].lines = entries[t].lines
    BY <2>1 DEF Life
  <2>3. ASSUME entries'[t].status = "voided" PROVE FALSE
    <3>1. pc[w] = "void_update" /\ t = ws[w].target
      BY <2>1, <2>3, OnlyVoidsVoid
    <3>2. ws[w].seen = "posted" /\ ws[w].op = "void"
      BY <2>1, <3>1, WorkerFacts DEF WorkerInv, Placed, TargetKnown, Voids
    <3> QED
      BY <2>1, <3>2 DEF UnwindInv, OneVoider
  <2> QED
    BY <2>2, <2>3
<1>3. Unwound(v) => Voids(v) /\ ws[v].seen = "posted"
  BY WorkerFacts DEF WorkerInv, Placed, Unwound, Voids, Unwinds
<1>4. (Voids(v)' <=> Voids(v)) /\ (Unwound(v)' <=> Unwound(v))
  BY <1>1 DEF Voids, Unwound, Unwinds
<1> HIDE DEF t
<1> QED
  BY <1>1, <1>2, <1>3, <1>4 DEF UnwindInv, t

(* A request begins with nothing to unwind.                                *)
LEMMA UnwindBegins ==
  ASSUME NEW w \in Worker, Inv, Request(w)
  PROVE  UnwindInv(w)'
<1>1. /\ entries' = entries /\ ws \in [Worker -> Work] /\ pc \in [Worker -> Place]
      /\ pc[w] = "idle"
  BY DEF Request, Begin, Post, PostDraft, ReverseEntry, VoidEntry, TransitionPeriod, CreateDraft,
         PatchDraft, Archive, db, Inv, TypeOK
<1>2. CASE VoidEntry(w)
  <2>1. PICK i \in Id :
          /\ pc' = [pc EXCEPT ![w] = "void_lock"] /\ "void" \in OpsOf[w]
          /\ ws' = [ws EXCEPT ![w] = [Blank EXCEPT !.op = "void", !.target = i,
                      !.seen = entries[i].status, !.at = entries[i].period]]
    BY <1>2 DEF VoidEntry, Begin
  <2>2. /\ pc'[w] = "void_lock" /\ ws'[w].op = "void" /\ ws'[w].target = i
        /\ ws'[w].seen = entries[i].status /\ ws'[w].lines = <<>>
    BY <1>1, <2>1 DEF Blank
  <2> QED
    BY <1>1, <2>1, <2>2 DEF UnwindInv, Voids, Unwound, Unwinds
<1>3. CASE ~VoidEntry(w)
  <2>1. /\ pc'[w] \in {"validate", "transition_write", "draft_commit", "patch_commit",
                        "archive_write"}
        /\ ws'[w].op # "void"
        /\ pc'[w] = "patch_commit" \/ ws'[w].lines = <<>>
    <3>1. CASE Post(w)
      BY <1>1, <3>1 DEF Post, Begin, Blank
    <3>2. CASE PostDraft(w)
      <4>1. PICK i \in Id, k \in {"draft"} \X Id \cup {"client"} \X ClientKey :
              Begin(w, "post_draft", "validate", [Blank EXCEPT !.op = "post_draft", !.target = i,
                 !.id = NewId,
                 !.new = EntryRow("posted", entries[i].period, k, entries[i].lines, i)])
        BY <3>2 DEF PostDraft
      <4> QED
        BY <1>1, <4>1 DEF Begin, Blank
    <3>3. CASE ReverseEntry(w)
      BY <1>1, <3>3 DEF ReverseEntry, Begin, Blank
    <3>4. CASE TransitionPeriod(w)
      BY <1>1, <3>4 DEF TransitionPeriod, Begin, Blank
    <3>5. CASE CreateDraft(w)
      BY <1>1, <3>5 DEF CreateDraft, Begin, Blank
    <3>6. CASE PatchDraft(w)
      BY <1>1, <3>6 DEF PatchDraft, Begin, Blank
    <3>7. CASE Archive(w)
      BY <1>1, <3>7 DEF Archive, Begin, Blank
    <3> QED
      BY <1>3, <3>1, <3>2, <3>3, <3>4, <3>5, <3>6, <3>7 DEF Request
  <2> QED
    BY <2>1 DEF UnwindInv, Voids, Unwound, Unwinds
<1> QED
  BY <1>2, <1>3

(* A request takes its next step.                                          *)
LEMMA UnwindStep ==
  ASSUME NEW w \in Worker, Inv, UnwindInv(w), Step(w) \/ Crash(w)
  PROVE  UnwindInv(w)'
<1> USE DEF Goto
<1>1. /\ ws \in [Worker -> Work] /\ pc \in [Worker -> Place] /\ ws[w] \in Work
  BY WorkerFacts DEF Inv, TypeOK
<1>2. CASE End(w)
  <2>1. ws'[w] = Blank /\ pc'[w] = "idle"
    BY <1>1, <1>2 DEF End
  <2> QED
    BY <2>1 DEF UnwindInv, Voids, Unwound, Unwinds, Blank
<1>3. CASE ~End(w) /\ (Validate(w) \/ LockPeriod(w) \/ AllocateNumber(w) \/ InsertEntry(w))
  <2>1. /\ pc[w] \in {"validate", "lock_period", "number", "insert"}
        /\ pc'[w] \in {"lock_period", "posted", "number", "insert", "balances"}
        /\ ws'[w].op = ws[w].op /\ ws'[w].lines = ws[w].lines
    <3>1. CASE Validate(w)
      BY <1>1, <1>3, <3>1 DEF Validate, Rollback, Work
    <3>2. CASE LockPeriod(w)
      BY <1>1, <1>3, <3>2 DEF LockPeriod, Rollback
    <3>3. CASE AllocateNumber(w)
      BY <1>1, <3>3 DEF AllocateNumber, Work
    <3>4. CASE InsertEntry(w)
      BY <1>1, <1>3, <3>4 DEF InsertEntry, Rollback, Work
    <3> QED
      BY <1>3, <3>1, <3>2, <3>3, <3>4
  <2>2. ws[w].op # "void"
    BY <2>1, WorkerFacts DEF WorkerInv, Placed
  <2> QED
    BY <2>1, <2>2 DEF UnwindInv, Voids, Unwound, Unwinds
<1>4. CASE MoveBalance(w)
  <2>1. /\ pc[w] = "balances" /\ entries' = entries
        /\ ws' = [ws EXCEPT ![w] = [ws[w] EXCEPT !.todo = Tail(ws[w].todo)]]
        /\ \E at \in {"balances", "void_update", "posted"} :
             /\ pc' = [pc EXCEPT ![w] = at]
             /\ at = "posted" => ws[w].op # "void"
             /\ at = "void_update" => ws[w].op = "void"
    BY <1>4 DEF MoveBalance, db
  <2>2. /\ ws'[w].op = ws[w].op /\ ws'[w].target = ws[w].target
        /\ ws'[w].seen = ws[w].seen /\ ws'[w].lines = ws[w].lines
        /\ pc'[w] \in {"balances", "void_update", "posted"}
        /\ pc'[w] = "posted" => ws[w].op # "void"
        /\ pc'[w] = "void_update" => ws[w].op = "void"
    BY <1>1, <2>1 DEF Work
  <2>3. ws[w].op = "void" => ws[w].seen = "posted"
    BY <2>1, WorkerFacts DEF WorkerInv, Placed, Unwinds
  <2> QED
    BY <2>1, <2>2, <2>3 DEF UnwindInv, Voids, Unwound, Unwinds
<1>5. CASE ~End(w) /\ RetireDraft(w)
  <2>1. /\ pc[w] = "posted" /\ ws[w].op = "post_draft" /\ entries' = entries
        /\ pc' = [pc EXCEPT ![w] = "void_lock"]
        /\ ws' = [ws EXCEPT ![w] = [ws[w] EXCEPT !.seen = "draft",
                                       !.at = entries[ws[w].target].period]]
    BY <1>5 DEF RetireDraft, CommitLedger, db
  <2>2. /\ ws'[w].op = "post_draft" /\ ws'[w].lines = ws[w].lines
        /\ ws'[w].seen = "draft" /\ pc'[w] = "void_lock"
    BY <1>1, <2>1 DEF Work
  <2> QED
    BY <2>1, <2>2 DEF UnwindInv, Voids, Unwound, Unwinds
<1>6. CASE ~End(w) /\ VoidLockPeriod(w)
  <2> DEFINE ls == entries[ws[w].target].lines
  <2>1. /\ pc[w] = "void_lock" /\ entries' = entries
        /\ \/ /\ ws[w].seen = "posted" /\ pc' = [pc EXCEPT ![w] = "balances"]
              /\ ws' = [ws EXCEPT ![w] = [ws[w] EXCEPT !.lines = ls, !.todo = InLineOrder(ls)]]
           \/ /\ ws[w].seen # "posted" /\ pc' = [pc EXCEPT ![w] = "void_update"] /\ ws' = ws
    BY <1>6 DEF VoidLockPeriod, Rollback, db
  <2> HIDE DEF ls
  <2>2. ws[w].seen = "posted" => ws[w].op = "void"
    BY <2>1, WorkerFacts DEF WorkerInv, Placed, Voids
  <2>3. CASE ws[w].seen = "posted"
    <3>0. /\ pc' = [pc EXCEPT ![w] = "balances"]
          /\ ws' = [ws EXCEPT ![w] = [ws[w] EXCEPT !.lines = ls, !.todo = InLineOrder(ls)]]
      BY <2>1, <2>3
    <3>1. /\ pc'[w] = "balances" /\ ws'[w].op = ws[w].op /\ ws'[w].seen = ws[w].seen
          /\ ws'[w].target = ws[w].target /\ ws'[w].lines = ls
      BY <1>1, <3>0 DEF Work
    <3> QED
      BY <2>1, <2>2, <2>3, <3>1 DEF UnwindInv, Voids, Unwound, Unwinds, ls
  <2>4. CASE ws[w].seen # "posted"
    <3>1. pc'[w] = "void_update" /\ ws' = ws
      BY <1>1, <2>1, <2>4
    <3> QED
      BY <2>1, <2>4, <3>1 DEF UnwindInv, Voids, Unwound, Unwinds
  <2> QED
    BY <2>3, <2>4
<1> QED
  BY <1>2, <1>3, <1>4, <1>5, <1>6
  DEF Step, Crash, AbortDeadlock, Rollback, CommitPost, MarkReversed, VoidUpdate, CommitLedger,
      WriteTransition, CommitDraft, CommitPatch, WriteArchive

-----------------------------------------------------------------------------
(* The cached balances.                                                    *)

(* A committing transaction whose own statements on other rows change no   *)
(* share in the books.                                                     *)
LEMMA PlainBalance ==
  ASSUME NEW w \in Worker, Inv, UnwindInv(w), pc[w] = "posted",
         NEW es \in [Id -> Entry], CommitLedger(w, es), BalanceTies,
         \A i \in Id, a \in Account : InBooks(es[i], a) = InBooks(WithInsert(w, entries)[i], a)
  PROVE  BalanceTies'
<1> SUFFICES ASSUME NEW a \in Account PROVE balance'[a] = Books(es, a)
  BY DEF BalanceTies, LedgerBalance, Books, CommitLedger
<1>1. balance'[a] = balance[a] + Movement(ws[w].new.lines)[a] - Movement(ws[w].lines)[a]
  BY DEF CommitLedger
<1>2. balance[a] = Books(entries, a)
  BY DEF BalanceTies, LedgerBalance, Books
<1>3. Movement(ws[w].lines)[a] = 0
  <2>1. ws[w].lines = <<>>
    BY DEF UnwindInv, Unwound, Unwinds
  <2> QED
    BY <2>1, MovementTyped
<1>4. Books(es, a) = Books(WithInsert(w, entries), a)
  BY InsertedTable, SameBooks
<1>5. /\ Books(WithInsert(w, entries), a) = Books(entries, a) + Movement(ws[w].new.lines)[a]
      /\ Books(entries, a) \in Int /\ Movement(ws[w].new.lines)[a] \in Int
  BY InsertAdds
<1> QED
  BY ONLY <1>1, <1>2, <1>3, <1>4, <1>5

(* reverse_entry: the original stays in the books beside its mirror.       *)
LEMMA ReversalBalances ==
  ASSUME NEW w \in Worker, Inv, UnwindInv(w), BalanceTies, MarkReversed(w), ~Rollback(w)
  PROVE  BalanceTies'
<1> DEFINE o == ws[w].target
           m == IF ws[w].id = 0 THEN ws[w].found ELSE ws[w].id
           base == WithInsert(w, entries)
           first == [base EXCEPT ![o] = [base[o] EXCEPT !.status = "reversed"]]
           es == [first EXCEPT ![m] = [first[m] EXCEPT !.mirrorOf = o]]
<1>1. /\ pc[w] = "posted" /\ ws[w].op = "reverse" /\ entries[o].status # "voided"
      /\ CommitLedger(w, es)
  BY DEF MarkReversed
<1>2. o \in Id /\ entries[o].status \in {"posted", "reversed"}
  BY <1>1, WorkerFacts DEF WorkerInv, Placed, TargetKnown
<1>3. base \in [Id -> Entry] /\ base[o] = entries[o]
  <2>1. o # ws[w].id
    BY <1>1, <1>2, PendingFacts, ConstantsOK DEF Exists
  <2> QED
    BY <1>2, <2>1, InsertedTable
<1> HIDE DEF base, m, o
<1>4. /\ first \in [Id -> Entry]
      /\ \A i \in Id : /\ first[i].lines = base[i].lines
                       /\ Contributes(first[i]) <=> Contributes(base[i])
  BY <1>2, <1>3 DEF Entry, Status, Contributes
<1> HIDE DEF first
<1>5. /\ es \in [Id -> Entry]
      /\ \A i \in Id : es[i].lines = first[i].lines /\ es[i].status = first[i].status
  BY <1>2, <1>4 DEF Entry
<1> HIDE DEF es
<1>6. \A i \in Id, a \in Account : InBooks(es[i], a) = InBooks(base[i], a)
  BY <1>4, <1>5 DEF InBooks, Contributes
<1> QED
  BY <1>1, <1>5, <1>6, PlainBalance DEF base

(* void_entry: what was posted is taken back once.                         *)
LEMMA VoidBalances ==
  ASSUME OneVoider, NEW w \in Worker, Inv, UnwindInv(w), BalanceTies,
         VoidUpdate(w), ~Rollback(w)
  PROVE  BalanceTies'
<1> DEFINE t == ws[w].target
           base == WithInsert(w, entries)
           es == [base EXCEPT ![t] = [base[t] EXCEPT !.status = "voided"]]
<1>1. pc[w] = "void_update" /\ entries[t].status # "reversed" /\ CommitLedger(w, es)
  BY DEF VoidUpdate
<1>2. /\ t \in Id /\ ws[w].seen \in {"draft", "posted"}
      /\ ws[w].seen = "draft" => entries[t].status \in {"draft", "voided"}
      /\ ws[w].seen = "posted" => entries[t].status = "posted"
      /\ Exists(t)
  BY <1>1, WorkerFacts DEF WorkerInv, Placed, TargetKnown, Voids, UnwindInv, Exists
<1>3. /\ base \in [Id -> Entry] /\ base[t] = entries[t]
      /\ ws[w].lines = IF ws[w].seen = "posted" THEN entries[t].lines ELSE <<>>
  <2>1. t # ws[w].id
    BY <1>1, <1>2, PendingFacts, ConstantsOK
  <2> QED
    BY <1>1, <1>2, <2>1, InsertedTable DEF UnwindInv, Unwound, Unwinds
<1> HIDE DEF base, t
<1>4. /\ es \in [Id -> Entry] /\ es[t].status = "voided"
      /\ \A i \in Id \ {t} : es[i] = base[i]
  BY <1>2, <1>3 DEF Entry, Status
<1> HIDE DEF es
<1> SUFFICES ASSUME NEW a \in Account PROVE balance'[a] = Books(es, a)
  BY <1>1 DEF BalanceTies, LedgerBalance, Books, CommitLedger
<1>5. balance'[a] = balance[a] + Movement(ws[w].new.lines)[a] - Movement(ws[w].lines)[a]
  BY <1>1 DEF CommitLedger
<1>6. balance[a] = Books(entries, a)
  BY DEF BalanceTies, LedgerBalance, Books
<1>7. /\ Books(base, a) = Books(entries, a) + Movement(ws[w].new.lines)[a]
      /\ Books(entries, a) \in Int /\ Movement(ws[w].new.lines)[a] \in Int
  BY <1>1, InsertAdds DEF base
<1>8. InBooks(es[t], a) = 0
  BY <1>4 DEF InBooks, Contributes
<1>9. InBooks(base[t], a) = Movement(ws[w].lines)[a] /\ Movement(ws[w].lines)[a] \in Int
  <2>1. ws[w].lines \in Seq(Line)
    BY WorkerFacts DEF Work
  <2>2. CASE ws[w].seen = "posted"
    BY <1>2, <1>3, <2>1, <2>2, MovementTyped DEF InBooks, Contributes
  <2>3. CASE ws[w].seen = "draft"
    BY <1>2, <1>3, <2>1, <2>3, MovementTyped DEF InBooks, Contributes
  <2> QED
    BY <1>2, <2>2, <2>3
<1>10. Books(es, a) = Books(base, a) - InBooks(base[t], a) + InBooks(es[t], a)
  <2>1. \A i \in Id \ {t} : InBooks(es[i], a) = InBooks(base[i], a)
    BY <1>4
  <2> QED
    BY <1>2, <1>3, <1>4, <2>1, OneRowChanges
<1> QED
  BY ONLY <1>5, <1>6, <1>7, <1>8, <1>9, <1>10

(* No other statement moves a balance or a share in the books.             *)
LEMMA DraftsBalance ==
  ASSUME NEW w \in Worker, Inv, Inv', BalanceTies, UNCHANGED balance,
         CommitDraft(w) \/ (CommitPatch(w) /\ ~Rollback(w)) \/ UNCHANGED entries
  PROVE  BalanceTies'
<1>1. entries \in [Id -> Entry] /\ entries' \in [Id -> Entry]
  BY DEF Inv, TypeOK
<1>2. \A i \in Id, a \in Account : InBooks(entries'[i], a) = InBooks(entries[i], a)
  <2>1. CASE CommitDraft(w)
    <3>1. entries' = WithInsert(w, entries) /\ pc[w] = "draft_commit"
      BY <2>1 DEF CommitDraft
    <3>2. \A i \in Id : entries'[i] = IF i = ws[w].id THEN ws[w].new ELSE entries[i]
      BY <3>1, InsertedTable
    <3>3. ws[w].id \in Id => ws[w].new.status = "draft" /\ entries[ws[w].id].status = "absent"
      BY <3>1, WorkerFacts, ConstantsOK
      DEF WorkerInv, PendingRow, Placed, Inserts, Exists
    <3> QED
      BY <3>2, <3>3 DEF InBooks, Contributes
  <2>2. CASE CommitPatch(w) /\ ~Rollback(w)
    <3> DEFINE t == ws[w].target
    <3>1. /\ pc[w] = "patch_commit" /\ entries[t].status = "draft"
          /\ entries' = [entries EXCEPT ![t] = [entries[t] EXCEPT !.period = ws[w].at,
                                                                  !.lines = ws[w].lines]]
      BY <2>2 DEF CommitPatch
    <3>2. t \in Id
      BY <3>1, WorkerFacts DEF WorkerInv, Placed
    <3>3. \A i \in Id \ {t} : entries'[i] = entries[i]
      BY <1>1, <3>1
    <3>4. entries'[t].status = "draft"
      BY <1>1, <3>1, <3>2 DEF Entry
    <3> QED
      BY <3>1, <3>3, <3>4 DEF InBooks, Contributes
  <2> QED
    BY <2>1, <2>2
<1> SUFFICES ASSUME NEW a \in Account PROVE balance[a] = Books(entries', a)
  BY DEF BalanceTies, LedgerBalance, Books
<1>3. Books(entries', a) = Books(entries, a)
  BY <1>1, <1>2, SameBooks
<1> QED
  BY <1>3 DEF BalanceTies, LedgerBalance, Books

-----------------------------------------------------------------------------
(* The theorems.                                                           *)

LEMMA InitInv == Init => Inv /\ OneEntryPerKey /\ GaplessNumbers
<1> SUFFICES ASSUME Init PROVE Inv /\ OneEntryPerKey /\ GaplessNumbers
  OBVIOUS
<1>1. TypeOK
  BY BlankTyped DEF Init, TypeOK, Exists, NoEntry, PeriodStatus, Place
<1>2. \A w \in Worker : WorkerInv(w)
  BY DEF Init, WorkerInv, Placed, PendingRow, TargetKnown, HoldsPeriod,
         HoldsNumber, HoldsKey, Inserts, Past, Unwinds, Voids, Blank
<1>3. \A i \in Id : EntryInv(i)
  BY DEF Init, EntryInv, Contributes, NoEntry
<1>4. OneEntryPerKey
  BY DEF Init, OneEntryPerKey, Exists, NoEntry
<1>5. GaplessNumbers
  <2>1. \A i \in Id : ~Numbered(i)
    BY DEF Init, Numbered, NoEntry
  <2>2. \A s \in Scope : seq[s] = 1
    BY DEF Init
  <2> QED
    BY <2>1, <2>2 DEF GaplessNumbers, NumbersIn
<1> QED
  BY <1>1, <1>2, <1>3, <1>4, <1>5 DEF Inv, LedgerInv

LEMMA NextKeeps == Inv /\ [Next]_vars => Inv' /\ Safe
<1> SUFFICES ASSUME Inv, [Next]_vars PROVE Inv' /\ Safe
  OBVIOUS
<1>1. CASE UNCHANGED vars
  <2>1. Inv'
    BY <1>1
    DEF vars, Inv, TypeOK, Exists, LedgerInv, WorkerInv, Placed, PendingRow,
        TargetKnown, HoldsPeriod, HoldsNumber, HoldsKey, Inserts, Past, Unwinds,
        Voids, EntryInv, Contributes
  <2> QED
    BY <1>1, <2>1, QuietSafe DEF vars, db
<1>2. ASSUME NEW w \in Worker, Request(w)
      PROVE  Inv' /\ Safe
  <2>1. UNCHANGED db
    BY <1>2 DEF Request, Post, PostDraft, ReverseEntry, VoidEntry,
                TransitionPeriod, CreateDraft, PatchDraft, Archive
  <2>2. Inv'
    BY <1>2, PostKeeps, PostDraftKeeps, ReverseEntryKeeps, VoidEntryKeeps,
       TransitionPeriodKeeps, CreateDraftKeeps, PatchDraftKeeps, ArchiveKeeps
    DEF Request
  <2> QED
    BY <2>1, <2>2, QuietSafe
<1>3. ASSUME NEW w \in Worker,
             \/ Validate(w) \/ LockPeriod(w) \/ AllocateNumber(w)
             \/ InsertEntry(w) \/ MoveBalance(w) \/ VoidLockPeriod(w)
             \/ AbortDeadlock(w) \/ Crash(w)
      PROVE  Inv' /\ Safe
  <2>1. UNCHANGED db
    BY <1>3 DEF Validate, LockPeriod, AllocateNumber, InsertEntry, MoveBalance,
                VoidLockPeriod, AbortDeadlock, Crash, Rollback
  <2>2. Inv'
    BY <1>3, ValidateKeeps, LockPeriodKeeps, AllocateNumberKeeps,
       InsertEntryKeeps, MoveBalanceKeeps, VoidLockPeriodKeeps, RollbackKeeps
    DEF AbortDeadlock, Crash
  <2> QED
    BY <2>1, <2>2, QuietSafe
<1>4. ASSUME NEW w \in Worker,
             \/ CommitPost(w) \/ RetireDraft(w) \/ MarkReversed(w)
             \/ VoidUpdate(w) \/ WriteTransition(w) \/ CommitDraft(w)
             \/ CommitPatch(w) \/ WriteArchive(w)
      PROVE  Inv' /\ Safe
  BY <1>4, CommitPostKeeps, RetireDraftKeeps, MarkReversedKeeps, VoidUpdateKeeps,
     WriteTransitionKeeps, CommitDraftKeeps, CommitPatchKeeps, WriteArchiveKeeps
<1> QED
  BY <1>1, <1>2, <1>3, <1>4 DEF Next, Step

LEMMA HistoryInit == Init => History
BY DEF Init, History, Origin, Lineage, Blank, NoEntry

LEMMA HistoryStep == Inv /\ History /\ [Next]_vars => History'
<1> SUFFICES ASSUME Inv, History, [Next]_vars PROVE History'
  OBVIOUS
<1>1. Inv' /\ (\A i \in Id : Life(i)) /\ (\A i \in Id : Lineage(i)) /\ \A w \in Worker : Origin(w)
  BY NextKeeps DEF Safe, History
<1>2. ASSUME UNCHANGED entries PROVE \A i \in Id : Lineage(i)'
  BY <1>1, <1>2, LineageSame
<1>3. CASE UNCHANGED vars
  BY <1>1, <1>2, <1>3, OthersOrigin DEF vars, History
<1>4. ASSUME NEW w \in Worker, Request(w) \/ Step(w) \/ Crash(w)
      PROVE  History'
  <2>1. Origin(w)'
    BY <1>1, <1>4, OriginBegins, OriginStep
  <2>2. ASSUME NEW v \in Worker, v # w PROVE Origin(v)'
    <3>1. pc'[v] = pc[v] /\ ws'[v] = ws[v]
      BY <1>4, <2>2, OneMoves
    <3> QED
      BY <1>1, <3>1, OthersOrigin
  <2>3. \A i \in Id : Lineage(i)'
    <3>1. CASE Rollback(w)
      BY <1>2, <3>1 DEF Rollback, db
    <3>2. CASE Request(w)
      BY <1>2, <3>2 DEF Request, Post, PostDraft, ReverseEntry, VoidEntry,
                        TransitionPeriod, CreateDraft, PatchDraft, Archive, db
    <3>3. CASE ~Rollback(w) /\ (Step(w) \/ Crash(w))
      <4>1. CASE CommitPost(w) \/ (RetireDraft(w) /\ entries' # entries)
        <5>1. /\ pc[w] = "posted" /\ ws[w].op # "reverse" /\ entries' = WithInsert(w, entries)
              /\ ws[w].op = "post_draft" => entries[ws[w].target].status # "draft"
          BY <4>1 DEF CommitPost, RetireDraft, CommitLedger, db
        <5> QED
          BY <1>1, <5>1, ArrivalCommits
      <4>2. CASE CommitDraft(w)
        BY <1>1, <4>2, DraftArrives
      <4>3. CASE VoidUpdate(w)
        BY <1>1, <3>3, <4>3, VoidsKeep
      <4>4. CASE MarkReversed(w)
        BY <1>1, <3>3, <4>4, ReversalKeeps
      <4>5. CASE CommitPatch(w)
        BY <1>1, <3>3, <4>5, PatchKeeps
      <4>6. CASE UNCHANGED entries
        BY <1>2, <4>6
      <4>7. \/ CommitPost(w) \/ RetireDraft(w) \/ CommitDraft(w) \/ VoidUpdate(w)
            \/ MarkReversed(w) \/ CommitPatch(w) \/ UNCHANGED entries
        BY <3>3 DEF Step, Crash, AbortDeadlock, Validate, LockPeriod, AllocateNumber, InsertEntry,
                    MoveBalance, VoidLockPeriod, WriteTransition, WriteArchive, db
      <4> QED
        BY <4>1, <4>2, <4>3, <4>4, <4>5, <4>6, <4>7
    <3> QED
      BY <1>4, <3>1, <3>2, <3>3
  <2> QED
    BY <2>1, <2>2, <2>3 DEF History
<1> QED
  BY <1>3, <1>4 DEF Next

LEMMA BalanceInit == Init => BalanceTies /\ Unwindings
<1> SUFFICES ASSUME Init PROVE BalanceTies /\ Unwindings
  OBVIOUS
<1>1. Unwindings
  BY DEF Init, Unwindings, UnwindInv, Voids, Unwound, Unwinds, Blank
<1>2. ASSUME NEW a \in Account PROVE balance[a] = LedgerBalance(a)
  <2> DEFINE f == [i \in Id |-> InBooks(entries[i], a)]
  <2>1. LedgerBalance(a) = Total(f, Id)
    BY SumIsTotal DEF LedgerBalance
  <2>2. \A i \in Id : f[i] = 0
    BY DEF Init, InBooks, Contributes, NoEntry
  <2>3. IsFiniteSet(Id)
    BY ConstantsOK
  <2> HIDE DEF f
  <2>4. Total(f, Id) = 0
    BY <2>2, <2>3, TotalZero
  <2> QED
    BY <2>1, <2>4 DEF Init
<1> QED
  BY <1>1, <1>2 DEF BalanceTies

LEMMA BalanceStep ==
  OneVoider /\ Inv /\ Unwindings /\ BalanceTies /\ [Next]_vars => Unwindings' /\ BalanceTies'
<1> SUFFICES ASSUME OneVoider, Inv, Unwindings, BalanceTies, [Next]_vars
             PROVE  Unwindings' /\ BalanceTies'
  OBVIOUS
<1>1. Inv' /\ \A i \in Id : Life(i)
  BY NextKeeps DEF Safe
<1>2. CASE UNCHANGED vars
  BY <1>2 DEF vars, Unwindings, UnwindInv, Voids, Unwound, Unwinds, BalanceTies, LedgerBalance
<1>3. ASSUME NEW w \in Worker, Request(w) \/ Step(w) \/ Crash(w)
      PROVE  Unwindings' /\ BalanceTies'
  <2>1. UnwindInv(w)'
    BY <1>3, UnwindBegins, UnwindStep DEF Unwindings
  <2>2. \A v \in Worker \ {w} : UnwindInv(v)'
    BY <1>1, <1>3, OthersUnwind DEF Unwindings
  <2>3. BalanceTies'
    <3>1. CASE UNCHANGED <<entries, balance>>
      BY <3>1 DEF BalanceTies, LedgerBalance
    <3>2. CASE CommitPost(w) \/ (RetireDraft(w) /\ ~UNCHANGED <<entries, balance>>)
      <4>1. /\ pc[w] = "posted"
            /\ CommitLedger(w, WithInsert(w, entries))
        BY <3>2 DEF CommitPost, RetireDraft, db
      <4> QED
        BY <4>1, InsertedTable, PlainBalance DEF Unwindings
    <3>3. CASE MarkReversed(w) /\ ~Rollback(w)
      BY <3>3, ReversalBalances DEF Unwindings
    <3>4. CASE VoidUpdate(w) /\ ~Rollback(w)
      BY <3>4, VoidBalances DEF Unwindings
    <3>5. CASE CommitDraft(w) \/ (CommitPatch(w) /\ ~Rollback(w))
      <4>1. UNCHANGED balance
        BY <3>5 DEF CommitDraft, CommitPatch
      <4> QED
        BY <1>1, <3>5, <4>1, DraftsBalance
    <3>6. Rollback(w) => UNCHANGED <<entries, balance>>
      BY DEF Rollback, db
    <3> QED
      BY <1>3, <3>1, <3>2, <3>3, <3>4, <3>5, <3>6
      DEF Request, Post, PostDraft, ReverseEntry, VoidEntry, TransitionPeriod, CreateDraft,
          PatchDraft, Archive, Step, Crash, AbortDeadlock, Validate, LockPeriod, AllocateNumber,
          InsertEntry, MoveBalance, VoidLockPeriod, WriteTransition, WriteArchive, db
  <2> QED
    BY <2>1, <2>2, <2>3 DEF Unwindings
<1> QED
  BY <1>2, <1>3 DEF Next

(* Every reachable state is well typed, and the locks a request holds      *)
(* protect what it read under them.                                        *)
THEOREM Types == Spec => []TypeOK
<1>1. Inv => TypeOK
  BY DEF Inv
<1> QED
  BY <1>1, InitInv, NextKeeps, PTL DEF Spec

(* A business event, a draft or a reversal never has two entries, for any  *)
(* number of workers and however their requests interleave or fail.        *)
THEOREM EventPostedOnce == Spec => []OneEntryPerKey
<1>1. Inv /\ OneEntryPerKey /\ [Next]_vars => Inv' /\ OneEntryPerKey'
  BY NextKeeps DEF Safe
<1> QED
  BY <1>1, InitInv, PTL DEF Spec

(* The numbers of each sequence row are 1, 2, ... with no gap or repeat,   *)
(* whatever rolls back.                                                    *)
THEOREM NumbersAreGapless == Spec => []GaplessNumbers
<1>1. Inv /\ GaplessNumbers /\ [Next]_vars => Inv' /\ GaplessNumbers'
  BY NextKeeps DEF Safe
<1> QED
  BY <1>1, InitInv, PTL DEF Spec

(* No posting and no void changes what a period contributes once the       *)
(* period has left OPEN.                                                   *)
THEOREM ClosedPeriodsDoNotMove == Spec => OnlyOpenPeriodsMove
<1>1. Inv /\ [Next]_vars =>
        [\A i \in Id : Contributes(entries[i]) # Contributes(entries'[i])
            => period[entries'[i].period] = "open" /\ UNCHANGED period]_vars
  BY NextKeeps DEF Safe, Moves
<1> QED
  BY <1>1, InitInv, NextKeeps, PTL DEF Spec, OnlyOpenPeriodsMove

(* VOIDED and REVERSED are terminal, also for a request that read the      *)
(* entry before it became so.                                              *)
THEOREM TerminalStays == Spec => TerminalIsFinal
<1>1. Inv /\ [Next]_vars =>
        [\A i \in Id : entries[i].status \in {"voided", "reversed"}
                         => /\ entries'[i].status = entries[i].status
                            /\ entries'[i].lines = entries[i].lines
                            /\ entries'[i].period = entries[i].period]_vars
  <2> SUFFICES ASSUME Inv, [Next]_vars, NEW i \in Id, entries[i].status \in {"voided", "reversed"}
               PROVE  /\ entries'[i].status = entries[i].status
                      /\ entries'[i].lines = entries[i].lines
                      /\ entries'[i].period = entries[i].period
    OBVIOUS
  <2>1. Life(i)
    BY NextKeeps DEF Safe
  <2> QED
    BY <2>1 DEF Life
<1> QED
  BY <1>1, InitInv, NextKeeps, PTL DEF Spec, TerminalIsFinal

(* An entry is REVERSED exactly when one entry mirrors it, never when it   *)
(* was voided instead, for any number of requests to reverse and to void.  *)
THEOREM MirrorsMatch == Spec => []ReversedIffMirrored
<1>1. History /\ OneEntryPerKey => ReversedIffMirrored
  <2> SUFFICES ASSUME History, OneEntryPerKey, NEW i \in Id
               PROVE  (entries[i].status = "reversed")
                        <=> Cardinality({m \in Id : entries[m].mirrorOf = i}) = 1
    BY DEF ReversedIffMirrored
  <2> DEFINE S == {m \in Id : entries[m].mirrorOf = i}
  <2>1. i # 0 /\ <<"reversal", i>> # NoKey
    BY ConstantsOK DEF NoKey
  <2>2. \A m \in S : /\ Exists(m) /\ entries[m].key = <<"reversal", i>>
                     /\ entries[i].status = "reversed"
    BY <2>1 DEF History, Lineage
  <2>3. \A m, n \in S : m = n
    BY <2>1, <2>2 DEF OneEntryPerKey
  <2>4. ASSUME entries[i].status = "reversed" PROVE Cardinality(S) = 1
    <3>1. PICK m \in Id : entries[m].mirrorOf = i
      BY <2>4 DEF History, Lineage
    <3>2. S = {m}
      BY <2>3, <3>1
    <3> QED
      BY <3>2, FS_Singleton
  <2>5. ASSUME Cardinality(S) = 1 PROVE entries[i].status = "reversed"
    <3>1. S # {}
      BY <2>5, FS_EmptySet
    <3> QED
      BY <2>2, <3>1
  <2> QED
    BY <2>4, <2>5
<1>2. Inv /\ OneEntryPerKey /\ History /\ [Next]_vars => Inv' /\ OneEntryPerKey' /\ History'
  BY NextKeeps, HistoryStep DEF Safe
<1> QED
  BY <1>1, <1>2, InitInv, HistoryInit, PTL DEF Spec

(* Where posting a draft is keyed by the draft alone (no client sends a    *)
(* key of its own), a draft leaves one entry and no draft behind.          *)
THEOREM DraftsPostOnce == ClientKey = {} => (Spec => []DraftBecomesOneEntry)
<1>1. ClientKey = {} /\ Inv /\ History /\ OneEntryPerKey => DraftBecomesOneEntry
  <2> SUFFICES ASSUME ClientKey = {}, Inv, History, OneEntryPerKey PROVE DraftBecomesOneEntry
    OBVIOUS
  <2>1. SupersededDraftRetired
    BY DEF SupersededDraftRetired, History, Lineage
  <2>2. ASSUME NEW d \in Id
        PROVE  Cardinality({i \in Id : Exists(i) /\ entries[i].src = d}) <= 1
    <3> DEFINE S == {i \in Id : Exists(i) /\ entries[i].src = d}
    <3>1. d # 0 /\ <<"draft", d>> # NoKey
      BY ConstantsOK DEF NoKey
    <3>2. \A i \in S : Exists(i) /\ entries[i].key = <<"draft", d>>
      BY <3>1 DEF History, Lineage
    <3>3. \A i, j \in S : i = j
      BY <3>1, <3>2 DEF OneEntryPerKey
    <3>4. CASE S = {}
      BY <3>4, FS_EmptySet
    <3>5. CASE S # {}
      <4>1. PICK i \in S : TRUE
        BY <3>5
      <4>2. S = {i}
        BY <3>3, <4>1
      <4>3. Cardinality(S) = 1
        BY <4>2, FS_Singleton
      <4> QED
        BY <4>3
    <3> QED
      BY <3>4, <3>5
  <2> QED
    BY <2>1, <2>2 DEF DraftBecomesOneEntry, DraftPostedOnce
<1>2. Inv /\ OneEntryPerKey /\ History /\ [Next]_vars => Inv' /\ OneEntryPerKey' /\ History'
  BY NextKeeps, HistoryStep DEF Safe
<1> SUFFICES ASSUME ClientKey = {} PROVE Spec => []DraftBecomesOneEntry
  OBVIOUS
<1>3. Inv /\ History /\ OneEntryPerKey => DraftBecomesOneEntry
  BY <1>1
<1> QED
  BY <1>2, <1>3, InitInv, HistoryInit, PTL DEF Spec

(* Where one worker voids, cached_balance of every account is what the     *)
(* entries in the books add up to, whatever else posts, reverses, patches  *)
(* and fails at the same time.                                             *)
THEOREM BalancesTie == OneVoider => (Spec => []BalanceTies)
<1> SUFFICES ASSUME OneVoider PROVE Spec => []BalanceTies
  OBVIOUS
<1>1. Inv /\ Unwindings /\ BalanceTies /\ [Next]_vars => Inv' /\ Unwindings' /\ BalanceTies'
  BY NextKeeps, BalanceStep
<1> QED
  BY <1>1, InitInv, BalanceInit, PTL DEF Spec
=============================================================================
