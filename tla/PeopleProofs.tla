----------------------------- MODULE PeopleProofs -----------------------------
(***************************************************************************)
(* Proofs about the payroll, leave and personnel of MCPeople: a payroll    *)
(* run is accrued and paid once, nobody approves what he calculated, an    *)
(* overtime slip is on one payslip; balances, heads, days and hours add up.*)
(* They hold for any number of runs, requests, employees and workers.      *)
(***************************************************************************)
EXTENDS MCPeople, SumTheorems, SequenceTheorems

PayRow == [base : Nat, slips : SUBSET Slip]
Verbs  == RunVerb \cup SlipVerb

(* What a worker holds.                                                    *)
PayRequest == [verb : Verbs \cup {"idle"}, at : {"start", "lines", "entry"}, doc : Doc \cup {None},
            user : User \cup {None}, seen : RunRow \cup SlipRow, pay : PayRow]

PayrollTyped ==
  /\ PayrollTypeOK /\ ws \in [Worker -> PayRequest]
  /\ \A w \in Worker :
       /\ ws[w].verb \in RunVerb => ws[w].doc \in Run
       /\ ws[w].verb \in SlipVerb => ws[w].doc \in Slip
       /\ ws[w].verb \in {"pay", "patch"} => ws[w].seen \in RunRow
       /\ ws[w].verb = "amend" => ws[w].seen \in SlipRow

(* A request that prepares has its document to itself, and a calculation   *)
(* the slips of its period.                                                *)
Apart == \A v, w \in Worker :
  v # w /\ ws[v].verb # "idle" /\ ws[w].verb # "idle"
  /\ {ws[v].verb, ws[w].verb} \cap Prepares # {} =>
    Touches(ws[v].verb, ws[v].doc) \cap Touches(ws[w].verb, ws[w].doc) = {}

(* What the row of a run says of its payslips and its entries.             *)
Signed == {"approved", "posted", "paid"}

RunOK(r) ==
  /\ runs[r].total = Pay(payslips[r])
  /\ runs[r].status \in Signed \cup {"pending_approval"} => runs[r].total > 0
  /\ runs[r].status \in Signed => runs[r].approver # None /\ runs[r].approver # runs[r].by
  /\ runs[r].status \in {"posted", "paid"} \/ runs[r].entry => ledger[r].accrued > 0
  /\ ledger[r].accrued > 0 => runs[r].status \in Signed \cup {"cancelled"}
  /\ ledger[r].accrued \in {0, Pay(payslips[r])} /\ ledger[r].paid \in {0, ledger[r].accrued}
  /\ runs[r].status = "paid" => ledger[r].paid > 0

(* What a request may still rely on of what it read.                       *)
StillTrue(w) == LET r == ws[w].doc IN
  /\ ws[w].verb = "calculate" =>
       /\ runs[r].status \in {"draft", "calculated"}
       /\ ws[w].at = "lines" => \A s \in ws[w].pay.slips : s \in Covers[r] /\ slips[s].run \in {None, r}
  /\ ws[w].verb = "submit" => runs[r].status = "calculated" /\ runs[r].total > 0
  /\ ws[w].verb = "approve" =>
       /\ runs[r].status \in Signed \cup {"pending_approval"}
       /\ ws[w].user \in User /\ runs[r].by # ws[w].user
  /\ ws[w].verb = "post" =>
       runs[r].status \in Signed /\ (ws[w].at = "entry" => ws[w].pay = payslips[r])
  /\ ws[w].verb = "pay" =>
       /\ runs[r].status \in Signed /\ ledger[r].accrued > 0
       /\ ws[w].seen.total = runs[r].total
  /\ ws[w].verb = "patch" => ws[w].seen = runs[r]
  /\ ws[w].verb = "amend" => ws[w].seen = slips[r]

Claims == \A s \in Slip, r \in Run :
  /\ s \in payslips[r].slips <=> slips[s].run = r
  /\ slips[s].run = r => s \in Covers[r]

PayrollInv ==
  /\ PayrollTyped /\ Apart /\ Claims
  /\ \A r \in Run : RunOK(r)
  /\ \A w \in Worker : StillTrue(w)

-----------------------------------------------------------------------------

LEMMA Sizes ==
  /\ IsFiniteSet(Slip) /\ Run \cap Slip = {} /\ Covers \in [Run -> SUBSET Slip]
  /\ None \notin Run /\ None \notin Slip /\ None \notin User /\ None \notin Worker
  /\ Salary \subseteq Nat \ {0}
BY ConstantsOK DEF Doc

LEMMA PayIsNat == \A p \in PayRow : Pay(p) \in Nat
<1> SUFFICES ASSUME NEW p \in PayRow PROVE Pay(p) \in Nat
  OBVIOUS
<1>1. p.base \in Nat /\ p.slips \subseteq Slip
  BY DEF PayRow
<1>2. Cardinality(p.slips) \in Nat
  BY <1>1, Sizes, FS_Subset, FS_CardinalityType
<1> QED BY <1>1, <1>2 DEF Pay

LEMMA NoPayIsNothing == NoPay \in PayRow /\ Pay(NoPay) = 0
<1>1. Cardinality({}) = 0
  BY FS_EmptySet
<1> QED BY <1>1 DEF NoPay, PayRow, Pay

LEMMA RunVerbs == \A s \in RunStatus :
  /\ "calculating" \in RunAllowed[s] => s \in {"draft", "calculated"}
  /\ "pending_approval" \in RunAllowed[s] => s = "calculated"
  /\ "approved" \in RunAllowed[s] => s = "pending_approval"
  /\ "posted" \in RunAllowed[s] => s = "approved"
  /\ "paid" \in RunAllowed[s] => s = "posted"
BY DEF RunStatus, RunAllowed

LEMMA IdleTyped == Idle \in PayRequest /\ Idle.verb = "idle"
BY NoPayIsNothing DEF Idle, PayRequest, NewRun, RunRow, RunStatus

(* The types.                                                              *)
LEMMA TypedStep ==
  ASSUME PayrollTyped, [Next]_vars
  PROVE  PayrollTyped'
<1> USE DEF PayrollTyped, PayrollTypeOK
<1>0. \A w \in Worker : ws[w] \in PayRequest
  OBVIOUS
<1>1. CASE UNCHANGED vars
  BY <1>1 DEF vars, Serves
<1>2. CASE Revise
  BY <1>2 DEF Revise, Serves
(* A request that ends, and leaves locks alone or gives up its own.        *)
<1>3. ASSUME NEW w \in Worker, End(w), UNCHANGED salary,
             runs' \in [Run -> RunRow], slips' \in [Slip -> SlipRow],
             payslips' \in [Run -> PayRow], ledger' \in [Run -> [accrued : Nat, paid : Nat]],
             \/ UNCHANGED lock /\ ~Serves(w, "calculate", "lines")
             \/ lock' = [r \in Run |-> IF lock[r] = w THEN None ELSE lock[r]]
      PROVE  PayrollTyped'
  <2>1. \A v \in Worker : ws'[v] = IF v = w THEN Idle ELSE ws[v]
    BY <1>3 DEF End
  <2>2. /\ lock' \in [Run -> Worker \cup {None}]
        /\ \A r \in Run : lock'[r] # w
        /\ \A r \in Run, v \in Worker \ {w} : lock'[r] = v <=> lock[r] = v
    BY <1>3, Sizes
  <2>3. \A r \in Run, v \in Worker :
          lock'[r] = v <=> ws'[v].verb = "calculate" /\ ws'[v].at = "lines" /\ ws'[v].doc = r
    BY <2>1, <2>2, IdleTyped DEF Serves
  <2>4. ws' \in [Worker -> PayRequest]
    BY <1>3, IdleTyped DEF End
  <2>5. \A v \in Worker : ws'[v].seen \in RunRow \cup SlipRow
    BY <2>4 DEF PayRequest
  <2>6. \A v \in Worker :
       /\ ws'[v].verb \in RunVerb => ws'[v].doc \in Run
       /\ ws'[v].verb \in SlipVerb => ws'[v].doc \in Slip
       /\ ws'[v].verb \in {"pay", "patch"} => ws'[v].seen \in RunRow
       /\ ws'[v].verb = "amend" => ws'[v].seen \in SlipRow
    BY <2>1, IdleTyped DEF RunVerb, SlipVerb
  <2> QED BY <1>3, <2>2, <2>3, <2>4, <2>5, <2>6 DEF Serves, PayRow
<1>4. ASSUME NEW w \in Worker, NEW verb \in Verbs, NEW d \in Doc, NEW u \in User,
             Read(w, verb, d, u)
      PROVE  PayrollTyped'
  <2>1. /\ verb \in RunVerb => d \in Run
        /\ verb \in SlipVerb => d \in Slip
    BY <1>4 DEF Read, RunVerb, SlipVerb, Verbs
  <2>2. RowOf(d) \in RunRow \cup SlipRow /\ (d \in Run => RowOf(d) \in RunRow)
        /\ (d \in Slip => RowOf(d) \in SlipRow)
    BY <2>1, Sizes DEF RowOf, Doc
  <2>3. PICK k : k = [Idle EXCEPT !.verb = verb, !.doc = d,
                !.user = IF verb \in Signs THEN u ELSE None,
                !.seen = IF verb \in Copies THEN RowOf(d) ELSE NewRun]
    OBVIOUS
  <2>4. /\ k \in PayRequest /\ k.verb = verb /\ k.doc = d /\ k.at = "start"
        /\ verb \in Copies => k.seen = RowOf(d)
    BY <2>2, <2>3, IdleTyped DEF PayRequest, Idle
  <2>5. ws' = [ws EXCEPT ![w] = k] /\ UNCHANGED <<salary, runs, payslips, slips, ledger, lock>>
        /\ ws[w].verb = "idle"
    BY <1>4, <2>3 DEF Read
  <2>6. \A v \in Worker : ws'[v] = IF v = w THEN k ELSE ws[v]
    BY <2>5
  <2>7. \A r \in Run, v \in Worker :
          lock'[r] = v <=> ws'[v].verb = "calculate" /\ ws'[v].at = "lines" /\ ws'[v].doc = r
    BY <2>4, <2>5, <2>6 DEF Serves
  <2>8. ws' \in [Worker -> PayRequest] /\ \A v \in Worker : ws'[v].seen \in RunRow \cup SlipRow
    BY <2>4, <2>5 DEF PayRequest
  <2>9. \A v \in Worker :
       /\ ws'[v].verb \in RunVerb => ws'[v].doc \in Run
       /\ ws'[v].verb \in SlipVerb => ws'[v].doc \in Slip
       /\ ws'[v].verb \in {"pay", "patch"} => ws'[v].seen \in RunRow
       /\ ws'[v].verb = "amend" => ws'[v].seen \in SlipRow
    BY <2>1, <2>2, <2>4, <2>6 DEF RunVerb, SlipVerb, Copies
  <2> QED BY <2>5, <2>7, <2>8, <2>9 DEF Serves
(* A request that goes on: its place and what it pays.                     *)
<1>5. ASSUME NEW w \in Worker, NEW at \in {"lines", "entry"}, NEW pay \in PayRow,
             ws' = [ws EXCEPT ![w].at = at, ![w].pay = pay], ~Serves(w, "calculate", "lines"),
             UNCHANGED <<salary, runs, payslips, slips, ledger>>,
             \/ ws[w].verb = "post" /\ UNCHANGED lock
             \/ /\ ws[w].verb = "calculate" /\ at = "lines" /\ lock[ws[w].doc] = None
                /\ lock' = [lock EXCEPT ![ws[w].doc] = w]
      PROVE  PayrollTyped'
  <2>1. PICK k : k = [ws[w] EXCEPT !.at = at, !.pay = pay]
    OBVIOUS
  <2>2. /\ k \in PayRequest /\ k.verb = ws[w].verb /\ k.doc = ws[w].doc /\ k.seen = ws[w].seen
        /\ k.at = at
    <3>1. PICK j \in PayRequest : j = ws[w]
      BY <1>0
    <3>2. k = [j EXCEPT !.at = at, !.pay = pay]
      BY <2>1, <3>1
    <3>3. k \in PayRequest /\ k.verb = j.verb /\ k.doc = j.doc /\ k.seen = j.seen /\ k.at = at
      BY ONLY <3>2, j \in PayRequest, at \in {"lines", "entry"}, pay \in PayRow DEF PayRequest
    <3> QED BY <3>1, <3>3
  <2>3. ws' = [ws EXCEPT ![w] = k]
    BY <1>0, <1>5, <2>1 DEF PayRequest
  <2>4. \A v \in Worker : ws'[v] = IF v = w THEN k ELSE ws[v]
    BY <2>3
  <2>5. ws' \in [Worker -> PayRequest] /\ \A v \in Worker : ws'[v].seen \in RunRow \cup SlipRow
    BY <2>2, <2>3 DEF PayRequest
  <2>6. \A v \in Worker :
       /\ ws'[v].verb \in RunVerb => ws'[v].doc \in Run
       /\ ws'[v].verb \in SlipVerb => ws'[v].doc \in Slip
       /\ ws'[v].verb \in {"pay", "patch"} => ws'[v].seen \in RunRow
       /\ ws'[v].verb = "amend" => ws'[v].seen \in SlipRow
    BY <2>2, <2>4
  <2>7. \A r \in Run : lock[r] # w
    BY <1>5 DEF Serves
  <2>8. /\ lock' \in [Run -> Worker \cup {None}]
        /\ \A r \in Run, v \in Worker :
             lock'[r] = v <=> ws'[v].verb = "calculate" /\ ws'[v].at = "lines" /\ ws'[v].doc = r
    <3>1. CASE ws[w].verb = "post" /\ UNCHANGED lock
      BY <2>2, <2>4, <2>7, <3>1 DEF Serves
    <3>2. CASE /\ ws[w].verb = "calculate" /\ at = "lines" /\ lock[ws[w].doc] = None
               /\ lock' = [lock EXCEPT ![ws[w].doc] = w]
      <4>1. PICK q \in Run : q = ws[w].doc
        BY <3>2 DEF RunVerb
      <4>2. lock' = [lock EXCEPT ![q] = w] /\ lock[q] = None
        BY <3>2, <4>1
      <4>3. /\ lock' \in [Run -> Worker \cup {None}]
            /\ \A r \in Run : lock'[r] = w <=> r = q
            /\ \A r \in Run, v \in Worker \ {w} : lock'[r] = v <=> lock[r] = v
        BY <2>7, <4>2, Sizes
      <4> QED BY <2>2, <2>4, <3>2, <4>1, <4>3 DEF Serves
    <3> QED BY <1>5, <3>1, <3>2
  <2> QED BY <1>5, <2>5, <2>6, <2>8 DEF Serves
<1>6. ASSUME NEW w \in Worker, BeginCalculate(w) PROVE PayrollTyped'
  <2>1. ws[w].doc \in Run
    BY <1>6 DEF BeginCalculate, Serves, RunVerb
  <2>2. [base |-> salary, slips |-> Payable(ws[w].doc)] \in PayRow
    BY <2>1, Sizes DEF Payable, PayRow
  <2> QED BY <1>5, <1>6, <2>2 DEF BeginCalculate, Serves, Free
<1>7. ASSUME NEW w \in Worker, BuildEntry(w) PROVE PayrollTyped'
  <2>1. PICK pay \in PayRow : pay = payslips[ws[w].doc]
    BY <1>7 DEF BuildEntry, Serves, RunVerb, PayRow
  <2>2. /\ ws' = [ws EXCEPT ![w].at = "entry", ![w].pay = pay] /\ ws[w].verb = "post"
        /\ UNCHANGED <<salary, runs, payslips, slips, ledger, lock>>
    BY <1>7, <2>1 DEF BuildEntry, Serves
  <2> QED BY <1>5, <2>2 DEF Serves
<1>8. ASSUME NEW w \in Worker, CommitCalculate(w) PROVE PayrollTyped'
  <2>1. PICK r \in Run : r = ws[w].doc
    BY <1>8 DEF CommitCalculate, Serves, RunVerb
  <2>2. PICK pay \in PayRow : pay = ws[w].pay
    BY <1>0 DEF PayRequest
  <2>3. /\ payslips' = [payslips EXCEPT ![r] = pay]
        /\ slips' = [s \in Slip |-> Stamped(s, r, pay.slips)]
        /\ runs' = [runs EXCEPT ![r].status = "calculated", ![r].total = Pay(pay),
                                ![r].by = ws[w].user]
        /\ lock' = [lock EXCEPT ![r] = None] /\ End(w) /\ UNCHANGED <<salary, ledger>>
    BY <1>8, <2>1, <2>2 DEF CommitCalculate
  <2>4. runs' \in [Run -> RunRow]
    <3>1. Pay(pay) \in Nat /\ ws[w].user \in User \cup {None} /\ runs[r] \in RunRow
      BY <1>0, PayIsNat DEF PayRequest
    <3> QED BY <2>3, <3>1 DEF RunRow, RunStatus
  <2>5. slips' \in [Slip -> SlipRow]
    BY <2>3 DEF Stamped, SlipRow, SlipStatus
  <2>6. payslips' \in [Run -> PayRow]
    BY <2>3 DEF PayRow
  <2>7. lock' = [q \in Run |-> IF lock[q] = w THEN None ELSE lock[q]]
    <3>1. \A q \in Run : lock[q] = w <=> q = r
      BY <1>8, <2>1 DEF CommitCalculate, Serves
    <3> QED BY <2>3, <3>1
  <2> QED BY <1>3, <2>3, <2>4, <2>5, <2>6, <2>7
<1>9. ASSUME NEW w \in Worker,
             \/ Submit(w) \/ Cancel(w) \/ Approve(w) \/ CommitPost(w) \/ MarkPaid(w) \/ Patch(w)
      PROVE  PayrollTyped'
  <2>1. PICK r \in Run : r = ws[w].doc
    BY <1>9 DEF Submit, Cancel, Move, Approve, CommitPost, MarkPaid, Patch, Serves, RunVerb
  <2>2. runs[r] \in RunRow /\ ledger[r] \in [accrued : Nat, paid : Nat]
        /\ ws[w].user \in User \cup {None} /\ Pay(ws[w].pay) \in Nat
    BY <1>0, PayIsNat DEF PayRequest
  <2>3. runs' \in [Run -> RunRow]
    <3>1. CASE Submit(w) \/ Cancel(w)
      <4>1. PICK to \in RunStatus : runs' = [runs EXCEPT ![r].status = to]
        BY <2>1, <3>1 DEF Submit, Cancel, Move, RunStatus
      <4> QED BY <2>2, <4>1 DEF RunRow
    <3>2. CASE Approve(w)
      BY <2>1, <2>2, <3>2 DEF Approve, RunRow, RunStatus
    <3>3. CASE CommitPost(w)
      BY <2>1, <2>2, <3>3 DEF CommitPost, RunRow, RunStatus
    <3>4. CASE MarkPaid(w)
      BY <2>1, <2>2, <3>4 DEF MarkPaid, RunRow, RunStatus
    <3>5. CASE Patch(w)
      BY <2>1, <3>5 DEF Patch, Serves
    <3> QED BY <1>9, <3>1, <3>2, <3>3, <3>4, <3>5
  <2>4. ledger' \in [Run -> [accrued : Nat, paid : Nat]]
    <3>1. CASE CommitPost(w)
      BY <2>1, <2>2, <3>1 DEF CommitPost, Accrued
    <3>2. CASE MarkPaid(w)
      <4>1. ws[w].seen.total \in Nat
        BY <3>2 DEF MarkPaid, Serves, RunRow
      <4> QED BY <2>1, <2>2, <3>2, <4>1 DEF MarkPaid, Paid
    <3>3. CASE UNCHANGED ledger
      BY <3>3
    <3> QED BY <1>9, <3>1, <3>2, <3>3 DEF Submit, Cancel, Move, Approve, Patch
  <2>5. /\ End(w) /\ UNCHANGED <<salary, payslips, slips, lock>> /\ ws[w].verb # "calculate"
    BY <1>9 DEF Submit, Cancel, Move, Approve, CommitPost, MarkPaid, Patch, Serves
  <2> QED BY <1>3, <2>3, <2>4, <2>5 DEF Serves, PayRow
<1>10. ASSUME NEW w \in Worker, Certify(w) \/ Reject(w) \/ Amend(w)
       PROVE  PayrollTyped'
  <2>1. PICK s \in Slip : s = ws[w].doc
    BY <1>10 DEF Certify, Reject, Judge, Amend, Serves, SlipVerb
  <2>2. slips' \in [Slip -> SlipRow]
    <3>1. CASE Certify(w) \/ Reject(w)
      BY <2>1, <3>1 DEF Certify, Reject, Judge, SlipRow, SlipStatus
    <3>2. CASE Amend(w)
      BY <2>1, <3>2 DEF Amend, Serves
    <3> QED BY <1>10, <3>1, <3>2
  <2>3. End(w) /\ UNCHANGED <<salary, runs, payslips, ledger, lock>> /\ ws[w].verb # "calculate"
    BY <1>10 DEF Certify, Reject, Judge, Amend, Serves
  <2> QED BY <1>3, <2>2, <2>3 DEF Serves, PayRow
<1>11. ASSUME NEW w \in Worker, GiveUp(w) PROVE PayrollTyped'
  BY <1>3, <1>11 DEF GiveUp, PayRow
<1> QED
  BY <1>1, <1>2, <1>4, <1>6, <1>7, <1>8, <1>9, <1>10, <1>11 DEF Next, Serve, Verbs

-----------------------------------------------------------------------------
(* The rules.                                                              *)

LEMMA ApartStays ==
  ASSUME Apart,
         \A v \in Worker : \/ ws'[v].verb = "idle"
                           \/ ws'[v].verb = ws[v].verb /\ ws'[v].doc = ws[v].doc
  PROVE  Apart'
<1> SUFFICES ASSUME NEW v \in Worker, NEW w \in Worker, v # w,
                    ws'[v].verb # "idle", ws'[w].verb # "idle",
                    {ws'[v].verb, ws'[w].verb} \cap Prepares # {}
             PROVE  Touches(ws'[v].verb, ws'[v].doc) \cap Touches(ws'[w].verb, ws'[w].doc) = {}
  BY DEF Apart, Touches, Prepares
<1>1. /\ ws'[v].verb = ws[v].verb /\ ws'[v].doc = ws[v].doc
      /\ ws'[w].verb = ws[w].verb /\ ws'[w].doc = ws[w].doc
  OBVIOUS
<1> QED BY <1>1 DEF Apart, Touches

(* Whom a request may meet on a document: where one of the two prepares,   *)
(* nobody; approvals, postings and payments meet each other.               *)
LEMMA OthersKeep ==
  ASSUME PayrollInv, NEW w \in Worker, ws[w].verb # "idle",
         \A v \in Worker \ {w} : ws'[v] = ws[v],
         \A q \in Run : q # ws[w].doc =>
           runs'[q] = runs[q] /\ payslips'[q] = payslips[q] /\ ledger'[q] = ledger[q],
         \A s \in Slip : s \notin Touches(ws[w].verb, ws[w].doc) => slips'[s] = slips[s],
         ws[w].verb \notin Prepares =>
           \A q \in Run : q = ws[w].doc =>
             /\ runs'[q].status \in Signed /\ runs'[q].total = runs[q].total
             /\ runs'[q].by = runs[q].by /\ payslips'[q] = payslips[q]
             /\ ledger[q].accrued > 0 => ledger'[q].accrued > 0
  PROVE  \A v \in Worker \ {w} : StillTrue(v)'
<1> SUFFICES ASSUME NEW v \in Worker \ {w} PROVE StillTrue(v)'
  OBVIOUS
<1>1. PICK d : d = ws[v].doc
  OBVIOUS
<1>2. ws'[v] = ws[v] /\ StillTrue(v)
  BY DEF PayrollInv
<1>3. /\ ws[v] \in PayRequest
      /\ ws[v].verb \in RunVerb => d \in Run
      /\ ws[v].verb \in SlipVerb => d \in Slip
  BY <1>1 DEF PayrollInv, PayrollTyped
<1>4. d \in Touches(ws[v].verb, d) /\ ws[w].doc \in Touches(ws[w].verb, ws[w].doc)
  BY DEF Touches
<1>5. CASE ws[v].verb = "idle"
  BY <1>2, <1>5 DEF StillTrue
<1>6. CASE ws[v].verb # "idle" /\ {ws[v].verb, ws[w].verb} \cap Prepares # {}
  <2>1. Touches(ws[v].verb, d) \cap Touches(ws[w].verb, ws[w].doc) = {}
    BY <1>1, <1>6 DEF PayrollInv, Apart
  <2>2. d # ws[w].doc
    BY <1>4, <2>1
  <2>3. d \in Run => runs'[d] = runs[d] /\ payslips'[d] = payslips[d] /\ ledger'[d] = ledger[d]
    BY <2>2
  <2>4. d \in Slip => slips'[d] = slips[d]
    BY <1>4, <2>1
  <2>5. ws[v].verb = "calculate" => \A s \in Covers[d] : slips'[s] = slips[s]
    <3> SUFFICES ASSUME ws[v].verb = "calculate", NEW s \in Covers[d] PROVE slips'[s] = slips[s]
      OBVIOUS
    <3>1. s \in Slip
      BY <1>3, Sizes DEF RunVerb
    <3>2. s \in Touches(ws[v].verb, d)
      BY DEF Touches
    <3> QED BY <2>1, <3>1, <3>2
  <2>6. CASE d \in Run
    BY <1>1, <1>2, <1>3, <2>3, <2>5, <2>6, Sizes DEF StillTrue, SlipVerb
  <2>7. CASE d \notin Run
    BY <1>1, <1>2, <1>3, <2>4, <2>7 DEF StillTrue, SlipVerb, RunVerb
  <2> QED BY <2>6, <2>7
<1>7. CASE ws[v].verb # "idle" /\ {ws[v].verb, ws[w].verb} \cap Prepares = {}
  <2>1. ws[v].verb \in {"approve", "post", "pay", "certify"} /\ ws[w].verb \notin Prepares
    BY <1>3, <1>7 DEF PayRequest, Verbs, RunVerb, SlipVerb, Prepares
  <2>2. CASE d \in Run /\ d = ws[w].doc
    BY <1>1, <1>2, <2>1, <2>2 DEF StillTrue
  <2>3. CASE d \in Run /\ d # ws[w].doc
    <3>1. runs'[d] = runs[d] /\ payslips'[d] = payslips[d] /\ ledger'[d] = ledger[d]
      BY <2>3
    <3> QED BY <1>1, <1>2, <2>1, <3>1 DEF StillTrue
  <2>4. CASE d \notin Run
    BY <1>1, <1>2, <1>3, <2>1, <2>4 DEF StillTrue, RunVerb
  <2> QED BY <2>2, <2>3, <2>4
<1> QED BY <1>5, <1>6, <1>7

(* A request that changes no row.                                          *)
LEMMA QuietStep ==
  ASSUME PayrollInv, PayrollTyped', NEW w \in Worker, UNCHANGED <<runs, payslips, slips, ledger>>,
         \A v \in Worker \ {w} : ws'[v] = ws[v], Apart', StillTrue(w)'
  PROVE  PayrollInv'
<1>1. ASSUME NEW v \in Worker PROVE StillTrue(v)'
  <2>1. CASE v = w
    BY <2>1
  <2>2. CASE v # w
    <3>1. ws'[v] = ws[v] /\ StillTrue(v)
      BY <2>2 DEF PayrollInv
    <3> QED BY <3>1 DEF StillTrue
  <2> QED BY <2>1, <2>2
<1>2. Claims' /\ \A r \in Run : RunOK(r)'
  BY DEF PayrollInv, Claims, RunOK, Pay
<1> QED BY <1>1, <1>2 DEF PayrollInv

(* A request that writes the row of its document, and ends.                *)
LEMMA EndStep ==
  ASSUME PayrollInv, PayrollTyped', NEW w \in Worker, ws[w].verb # "idle", End(w),
         \A q \in Run : q # ws[w].doc =>
           runs'[q] = runs[q] /\ payslips'[q] = payslips[q] /\ ledger'[q] = ledger[q],
         \A s \in Slip : s \notin Touches(ws[w].verb, ws[w].doc) => slips'[s] = slips[s],
         ws[w].verb \notin Prepares =>
           \A q \in Run : q = ws[w].doc =>
             /\ runs'[q].status \in Signed /\ runs'[q].total = runs[q].total
             /\ runs'[q].by = runs[q].by /\ payslips'[q] = payslips[q]
             /\ ledger[q].accrued > 0 => ledger'[q].accrued > 0,
         Claims', \A q \in Run : q = ws[w].doc => RunOK(q)'
  PROVE  PayrollInv'
<1>1. \A v \in Worker : ws'[v] = IF v = w THEN Idle ELSE ws[v]
  BY DEF End, PayrollInv, PayrollTyped
<1>2. \A v \in Worker \ {w} : StillTrue(v)'
  BY <1>1, OthersKeep
<1>3. ws'[w].verb = "idle"
  BY <1>1, IdleTyped
<1>4. StillTrue(w)'
  BY <1>3 DEF StillTrue
<1>5. Apart'
  BY <1>1, <1>3, ApartStays DEF PayrollInv
<1>6. ASSUME NEW q \in Run PROVE RunOK(q)'
  <2>1. CASE q = ws[w].doc
    BY <2>1
  <2>2. CASE q # ws[w].doc
    <3>1. RunOK(q) /\ runs'[q] = runs[q] /\ payslips'[q] = payslips[q] /\ ledger'[q] = ledger[q]
      BY <2>2 DEF PayrollInv
    <3> QED BY <3>1 DEF RunOK, Pay
  <2> QED BY <2>1, <2>2
<1> QED BY <1>2, <1>4, <1>5, <1>6 DEF PayrollInv

(* A request that begins.                                                  *)
LEMMA ReadStep ==
  ASSUME OneOfficer = TRUE, PayrollInv, PayrollTyped',
         NEW w \in Worker, NEW verb \in Verbs, NEW d \in Doc, NEW u \in User,
         Read(w, verb, d, u)
  PROVE  PayrollInv'
<1>1. PICK k : k = [Idle EXCEPT !.verb = verb, !.doc = d,
                !.user = IF verb \in Signs THEN u ELSE None,
                !.seen = IF verb \in Copies THEN RowOf(d) ELSE NewRun]
  OBVIOUS
<1>2. /\ k.verb = verb /\ k.doc = d /\ k.at = "start"
      /\ verb \in Signs => k.user = u
      /\ verb \in Copies => k.seen = RowOf(d)
  BY <1>1 DEF Idle
<1>3. /\ ws' = [ws EXCEPT ![w] = k] /\ UNCHANGED <<runs, payslips, slips, ledger>>
      /\ MayRead(verb, d, u) /\ Alone(verb, d)
      /\ d \in (IF verb \in RunVerb THEN Run ELSE Slip)
  BY <1>1 DEF Read
<1>4. \A v \in Worker : ws'[v] = IF v = w THEN k ELSE ws[v]
  BY <1>3 DEF PayrollInv, PayrollTyped
<1>5. Apart'
  <2>1. ASSUME NEW v \in Worker, v # w, ws[v].verb # "idle", {verb, ws[v].verb} \cap Prepares # {}
        PROVE  Touches(verb, d) \cap Touches(ws[v].verb, ws[v].doc) = {}
    BY <1>3, <2>1 DEF Alone
  <2> SUFFICES ASSUME NEW v \in Worker, NEW x \in Worker, v # x,
                      ws'[v].verb # "idle", ws'[x].verb # "idle",
                      {ws'[v].verb, ws'[x].verb} \cap Prepares # {}
               PROVE  Touches(ws'[v].verb, ws'[v].doc) \cap Touches(ws'[x].verb, ws'[x].doc) = {}
    BY DEF Apart, Touches, Prepares
  <2>2. CASE v = w
    BY <1>2, <1>4, <2>1, <2>2
  <2>3. CASE x = w
    BY <1>2, <1>4, <2>1, <2>3
  <2>4. CASE v # w /\ x # w
    BY <1>4, <2>4 DEF PayrollInv, Apart
  <2> QED BY <2>2, <2>3, <2>4
<1>6. ws'[w] = k
  BY <1>4
<1>7. StillTrue(w)'
  <2>1. CASE verb \in RunVerb
    <3>1. d \in Run /\ d \notin Slip /\ RowOf(d) = runs[d] /\ RunOK(d)
      BY <1>3, <2>1, Sizes DEF RowOf, PayrollInv
    <3>2. /\ runs[d].status \in RunStatus /\ payslips[d] \in PayRow
          /\ ledger[d].accrued \in Nat
      BY <3>1 DEF PayrollInv, PayrollTyped, PayrollTypeOK, RunRow, PayRow
    <3>3. CASE verb = "calculate"
      BY <1>2, <1>3, <1>6, <3>1, <3>2, <3>3, RunVerbs DEF MayRead, StillTrue
    <3>4. CASE verb = "submit"
      BY <1>2, <1>3, <1>6, <3>1, <3>2, <3>4, RunVerbs DEF MayRead, StillTrue
    <3>5. CASE verb = "approve"
      BY <1>2, <1>3, <1>6, <3>1, <3>2, <3>5, RunVerbs DEF MayRead, MayApprove, StillTrue, Signs
    <3>6. CASE verb = "post"
      BY <1>2, <1>3, <1>6, <3>1, <3>2, <3>6, RunVerbs DEF MayRead, StillTrue, Signed
    <3>7. CASE verb = "pay"
      BY <1>2, <1>3, <1>6, <3>1, <3>2, <3>7, RunVerbs
      DEF MayRead, StillTrue, Signed, Copies, RunOK
    <3>8. CASE verb = "cancel"
      BY <1>2, <1>6, <3>8 DEF StillTrue
    <3>9. CASE verb = "patch"
      BY <1>2, <1>3, <1>6, <3>1, <3>9 DEF StillTrue, Copies
    <3> QED BY <2>1, <3>3, <3>4, <3>5, <3>6, <3>7, <3>8, <3>9 DEF RunVerb
  <2>2. CASE verb \in SlipVerb
    <3>1. d \notin Run /\ RowOf(d) = slips[d]
      BY <1>3, <2>2, Sizes DEF RowOf, SlipVerb, RunVerb
    <3> QED BY <1>2, <1>3, <1>6, <2>2, <3>1 DEF StillTrue, SlipVerb, Copies
  <2> QED BY <2>1, <2>2 DEF Verbs
<1> QED BY <1>3, <1>4, <1>5, <1>7, QuietStep

(* A calculation claims the slips it has picked, and nobody else has.      *)
LEMMA CalculateStep ==
  ASSUME PayrollInv, PayrollTyped', NEW w \in Worker, CommitCalculate(w)
  PROVE  PayrollInv'
<1>1. PICK r \in Run : r = ws[w].doc
  BY DEF CommitCalculate, Serves, PayrollInv, PayrollTyped, RunVerb
<1>2. PICK pay \in PayRow : pay = ws[w].pay
  BY DEF PayrollInv, PayrollTyped, PayRequest
<1>3. /\ payslips' = [payslips EXCEPT ![r] = pay]
      /\ slips' = [s \in Slip |-> Stamped(s, r, pay.slips)]
      /\ runs' = [runs EXCEPT ![r].status = "calculated", ![r].total = Pay(pay),
                              ![r].by = ws[w].user]
      /\ End(w) /\ UNCHANGED ledger /\ ws[w].verb = "calculate" /\ ws[w].at = "lines"
  BY <1>1, <1>2 DEF CommitCalculate, Serves
<1>4. /\ runs[r].status \in {"draft", "calculated"}
      /\ \A s \in pay.slips : s \in Covers[r] /\ slips[s].run \in {None, r}
  BY <1>1, <1>2, <1>3 DEF PayrollInv, StillTrue
<1>5. /\ runs \in [Run -> RunRow] /\ payslips \in [Run -> PayRow]
      /\ ledger \in [Run -> [accrued : Nat, paid : Nat]] /\ slips \in [Slip -> SlipRow]
  BY DEF PayrollInv, PayrollTyped, PayrollTypeOK, PayRow
<1>6. \A q \in Run : q # r =>
        runs'[q] = runs[q] /\ payslips'[q] = payslips[q] /\ ledger'[q] = ledger[q]
  BY <1>3, <1>5
<1>7. pay.slips \subseteq Slip /\ Covers[r] \subseteq Slip
  BY Sizes DEF PayRow
<1>8. \A s \in Slip : slips[s].run = r => s \in Covers[r]
  BY DEF PayrollInv, Claims
<1>9. \A s \in Slip : s \notin Touches(ws[w].verb, ws[w].doc) => slips'[s] = slips[s]
  BY <1>1, <1>3, <1>4, <1>8 DEF Touches, Stamped
<1>10. /\ payslips'[r] = pay /\ runs'[r].status = "calculated" /\ runs'[r].total = Pay(pay)
       /\ runs'[r].entry = runs[r].entry /\ ledger'[r] = ledger[r]
  BY <1>3, <1>5 DEF RunRow
<1>11. RunOK(r)'
  <2>1. RunOK(r) /\ ledger[r].accrued \in Nat /\ ledger[r].paid \in Nat
    BY <1>5 DEF PayrollInv
  <2>2. ledger[r].accrued = 0 /\ ledger[r].paid = 0 /\ ~runs[r].entry
    BY <1>4, <2>1 DEF RunOK, Signed
  <2>3. Pay(payslips'[r]) = Pay(pay)
    BY <1>10
  <2>4. PICK n : n = Pay(pay)
    OBVIOUS
  <2>5. runs'[r].total = n /\ Pay(payslips'[r]) = n
    BY <1>10, <2>3, <2>4
  <2> QED BY <1>10, <2>2, <2>5 DEF RunOK, Signed, Pay
<1>12. Claims'
  <2> SUFFICES ASSUME NEW s \in Slip, NEW q \in Run
               PROVE  /\ s \in payslips'[q].slips <=> slips'[s].run = q
                      /\ slips'[s].run = q => s \in Covers[q]
    BY DEF Claims
  <2>1. slips'[s] = Stamped(s, r, pay.slips) /\ r # None /\ q # None
    BY <1>3, Sizes
  <2>2. /\ s \in payslips[q].slips <=> slips[s].run = q
        /\ slips[s].run = q => s \in Covers[q]
    BY DEF PayrollInv, Claims
  <2>3. CASE s \in pay.slips
    <3>1. slips'[s].run = r /\ slips[s].run \in {None, r} /\ s \in Covers[r]
      BY <1>4, <2>1, <2>3 DEF Stamped
    <3>2. CASE q = r
      BY <1>10, <2>3, <3>1, <3>2
    <3>3. CASE q # r
      BY <1>6, <2>1, <2>2, <3>1, <3>3
    <3> QED BY <3>2, <3>3
  <2>4. CASE s \notin pay.slips
    <3>1. slips'[s].run = IF slips[s].run = r THEN None ELSE slips[s].run
      BY <2>1, <2>4 DEF Stamped
    <3>2. CASE q = r
      BY <1>10, <2>1, <2>4, <3>1, <3>2
    <3>3. CASE q # r
      BY <1>6, <2>1, <2>2, <3>1, <3>3
    <3> QED BY <3>2, <3>3
  <2> QED BY <2>3, <2>4
<1> QED
  BY <1>1, <1>3, <1>6, <1>9, <1>11, <1>12, EndStep DEF Prepares

(* The other verbs of a run write its row and its entries.                 *)
LEMMA RunStep ==
  ASSUME PayrollInv, PayrollTyped', NEW w \in Worker,
         Submit(w) \/ Cancel(w) \/ Approve(w) \/ CommitPost(w) \/ MarkPaid(w) \/ Patch(w)
  PROVE  PayrollInv'
<1>1. PICK r \in Run : r = ws[w].doc
  BY DEF Submit, Cancel, Move, Approve, CommitPost, MarkPaid, Patch, Serves, PayrollInv,
         PayrollTyped, RunVerb
<1>2. /\ runs \in [Run -> RunRow] /\ payslips \in [Run -> PayRow]
      /\ ledger \in [Run -> [accrued : Nat, paid : Nat]]
  BY DEF PayrollInv, PayrollTyped, PayrollTypeOK, PayRow
<1>3. /\ RunOK(r) /\ StillTrue(w) /\ ledger[r].accrued \in Nat /\ ledger[r].paid \in Nat
      /\ runs[r] \in RunRow
  BY <1>2 DEF PayrollInv
<1>4. PICK n \in Nat : n = Pay(payslips[r])
  BY <1>2, PayIsNat
<1>5. runs[r].total = n
  BY <1>3, <1>4 DEF RunOK
<1>6. /\ End(w) /\ UNCHANGED <<payslips, slips>>
  BY DEF Submit, Cancel, Move, Approve, CommitPost, MarkPaid, Patch
<1>7. Claims'
  BY <1>6 DEF PayrollInv, Claims
<1>8. ASSUME ws[w].verb # "idle",
             \A q \in Run : q # r => runs'[q] = runs[q] /\ ledger'[q] = ledger[q],
             ws[w].verb \notin Prepares =>
               /\ runs'[r].status \in Signed /\ runs'[r].total = runs[r].total
               /\ runs'[r].by = runs[r].by
               /\ ledger[r].accrued > 0 => ledger'[r].accrued > 0,
             RunOK(r)'
      PROVE  PayrollInv'
  <2>1. \A q \in Run : q # ws[w].doc =>
          runs'[q] = runs[q] /\ payslips'[q] = payslips[q] /\ ledger'[q] = ledger[q]
    BY <1>1, <1>6, <1>8
  <2>2. \A q \in Run : q = ws[w].doc => RunOK(q)'
    BY <1>1, <1>8
  <2>3. ws[w].verb \notin Prepares =>
          \A q \in Run : q = ws[w].doc =>
             /\ runs'[q].status \in Signed /\ runs'[q].total = runs[q].total
             /\ runs'[q].by = runs[q].by /\ payslips'[q] = payslips[q]
             /\ ledger[q].accrued > 0 => ledger'[q].accrued > 0
    BY <1>1, <1>6, <1>8
  <2>4. \A s \in Slip : s \notin Touches(ws[w].verb, ws[w].doc) => slips'[s] = slips[s]
    BY <1>6
  <2> QED BY <1>6, <1>7, <1>8, <2>1, <2>2, <2>3, <2>4, EndStep
<1>9. Pay(payslips'[r]) = n
  BY <1>4, <1>6
(* The row of the run, as far as the rules look at it.                     *)
<1>10. ASSUME runs'[r].total = n, ledger'[r].accrued \in {0, n}, ledger'[r].paid \in {0, ledger'[r].accrued},
              runs'[r].status \in Signed \cup {"pending_approval"} => n > 0,
              runs'[r].status \in Signed => runs'[r].approver # None /\ runs'[r].approver # runs'[r].by,
              runs'[r].status \in {"posted", "paid"} \/ runs'[r].entry => ledger'[r].accrued > 0,
              ledger'[r].accrued > 0 => runs'[r].status \in Signed \cup {"cancelled"},
              runs'[r].status = "paid" => ledger'[r].paid > 0
       PROVE  RunOK(r)'
  BY <1>9, <1>10 DEF RunOK, Pay, Signed
<1>11. CASE Submit(w)
  <2>1. /\ runs' = [runs EXCEPT ![r].status = "pending_approval"] /\ UNCHANGED ledger
        /\ ws[w].verb = "submit"
    BY <1>1, <1>11 DEF Submit, Move, Serves
  <2>2. /\ runs'[r].total = n /\ runs'[r].status = "pending_approval" /\ runs'[r].entry = runs[r].entry
        /\ \A q \in Run : q # r => runs'[q] = runs[q] /\ ledger'[q] = ledger[q]
    BY <1>2, <1>3, <1>5, <2>1 DEF RunRow
  <2>3. runs[r].status = "calculated" /\ n > 0
    BY <1>1, <1>3, <1>5, <2>1 DEF StillTrue
  <2>4. RunOK(r)'
    <3>1. ledger[r].accrued = 0
      BY <1>3, <2>3 DEF RunOK, Signed
    <3> QED BY <1>3, <1>4, <1>10, <2>1, <2>2, <2>3, <3>1 DEF RunOK, Signed
  <2> QED BY <1>8, <2>1, <2>2, <2>4 DEF Prepares
<1>12. CASE Cancel(w)
  <2>1. /\ runs' = [runs EXCEPT ![r].status = "cancelled"] /\ UNCHANGED ledger
        /\ ws[w].verb = "cancel"
    BY <1>1, <1>12 DEF Cancel, Move, Serves
  <2>2. /\ runs'[r].total = n /\ runs'[r].status = "cancelled" /\ runs'[r].entry = runs[r].entry
        /\ \A q \in Run : q # r => runs'[q] = runs[q] /\ ledger'[q] = ledger[q]
    BY <1>2, <1>3, <1>5, <2>1 DEF RunRow
  <2>3. RunOK(r)'
    BY <1>3, <1>4, <1>10, <2>1, <2>2 DEF RunOK, Signed
  <2> QED BY <1>8, <2>1, <2>2, <2>3 DEF Prepares
<1>13. CASE Approve(w)
  <2>1. /\ runs' = [runs EXCEPT ![r].status = "approved", ![r].approver = ws[w].user]
        /\ UNCHANGED ledger /\ ws[w].verb = "approve"
    BY <1>1, <1>13 DEF Approve, Serves
  <2>2. /\ runs'[r].total = n /\ runs'[r].status = "approved" /\ runs'[r].entry = runs[r].entry
        /\ runs'[r].approver = ws[w].user /\ runs'[r].by = runs[r].by
        /\ \A q \in Run : q # r => runs'[q] = runs[q] /\ ledger'[q] = ledger[q]
    BY <1>2, <1>3, <1>5, <2>1 DEF RunRow
  <2>3. /\ runs[r].status \in Signed \cup {"pending_approval"}
        /\ ws[w].user \in User /\ runs[r].by # ws[w].user
    BY <1>1, <1>3, <2>1 DEF StillTrue
  <2>4. n > 0 /\ ws[w].user # None
    BY <1>3, <1>5, <2>3, Sizes DEF RunOK
  <2>5. RunOK(r)'
    BY <1>3, <1>4, <1>10, <2>1, <2>2, <2>3, <2>4 DEF RunOK, Signed
  <2> QED BY <1>5, <1>8, <2>1, <2>2, <2>5 DEF Signed
<1>14. CASE CommitPost(w)
  <2>1. /\ runs' = [runs EXCEPT ![r].status = "posted", ![r].entry = TRUE]
        /\ ledger' = Accrued(r, Pay(ws[w].pay)) /\ ws[w].verb = "post" /\ ws[w].at = "entry"
    BY <1>1, <1>14 DEF CommitPost, Serves
  <2>2. runs[r].status \in Signed /\ Pay(ws[w].pay) = n
    BY <1>1, <1>3, <1>4, <2>1 DEF StillTrue
  <2>3. /\ runs'[r].total = n /\ runs'[r].status = "posted"
        /\ runs'[r].approver = runs[r].approver /\ runs'[r].by = runs[r].by
        /\ \A q \in Run : q # r => runs'[q] = runs[q]
    BY <1>2, <1>3, <1>5, <2>1 DEF RunRow
  <2>4. ledger' = IF ledger[r].accrued > 0 THEN ledger ELSE [ledger EXCEPT ![r].accrued = n]
    BY <2>1, <2>2 DEF Accrued
  <2>5. /\ ledger'[r].accrued = IF ledger[r].accrued > 0 THEN ledger[r].accrued ELSE n
        /\ ledger'[r].paid = ledger[r].paid
        /\ \A q \in Run : q # r => ledger'[q] = ledger[q]
    BY <1>2, <2>4
  <2>6. n > 0 /\ runs[r].approver # None /\ runs[r].approver # runs[r].by
    BY <1>3, <1>5, <2>2 DEF RunOK
  <2>7. ledger'[r].accrued = n /\ ledger'[r].paid \in {0, n}
    BY <1>3, <1>4, <2>5 DEF RunOK
  <2>8. RunOK(r)'
    BY <1>10, <2>3, <2>6, <2>7 DEF Signed
  <2> QED BY <1>5, <1>8, <2>1, <2>3, <2>5, <2>6, <2>8 DEF Signed
<1>15. CASE MarkPaid(w)
  <2>1. /\ runs' = [runs EXCEPT ![r].status = "paid"]
        /\ ledger' = Paid(r, ws[w].seen.total) /\ ws[w].verb = "pay"
    BY <1>1, <1>15 DEF MarkPaid, Serves
  <2>2. runs[r].status \in Signed /\ ledger[r].accrued > 0 /\ ws[w].seen.total = n
    BY <1>1, <1>3, <1>5, <2>1 DEF StillTrue
  <2>3. /\ runs'[r].total = n /\ runs'[r].status = "paid"
        /\ runs'[r].approver = runs[r].approver /\ runs'[r].by = runs[r].by
        /\ \A q \in Run : q # r => runs'[q] = runs[q]
    BY <1>2, <1>3, <1>5, <2>1 DEF RunRow
  <2>4. ledger' = IF ledger[r].paid > 0 THEN ledger ELSE [ledger EXCEPT ![r].paid = n]
    BY <2>1, <2>2 DEF Paid
  <2>5. /\ ledger'[r].paid = IF ledger[r].paid > 0 THEN ledger[r].paid ELSE n
        /\ ledger'[r].accrued = ledger[r].accrued
        /\ \A q \in Run : q # r => ledger'[q] = ledger[q]
    BY <1>2, <2>4
  <2>6. n > 0 /\ runs[r].approver # None /\ runs[r].approver # runs[r].by
    BY <1>3, <1>5, <2>2 DEF RunOK
  <2>7. ledger'[r].accrued = n /\ ledger'[r].paid = n
    BY <1>3, <1>4, <2>2, <2>5 DEF RunOK
  <2>8. RunOK(r)'
    BY <1>10, <2>3, <2>6, <2>7 DEF Signed
  <2> QED BY <1>5, <1>8, <2>1, <2>2, <2>3, <2>5, <2>8 DEF Signed
<1>16. CASE Patch(w)
  <2>1. /\ runs' = [runs EXCEPT ![r] = ws[w].seen] /\ UNCHANGED ledger /\ ws[w].verb = "patch"
    BY <1>1, <1>16 DEF Patch, Serves
  <2>2. ws[w].seen = runs[r]
    BY <1>1, <1>3, <2>1 DEF StillTrue
  <2>3. runs' = runs
    BY <1>2, <2>1, <2>2
  <2>4. RunOK(r)'
    BY <1>3, <1>6, <2>1, <2>3 DEF RunOK, Pay
  <2> QED BY <1>8, <2>1, <2>3, <2>4 DEF Prepares
<1> QED BY <1>11, <1>12, <1>13, <1>14, <1>15, <1>16

(* The verbs of a slip leave the run that claimed it.                      *)
LEMMA SlipStep ==
  ASSUME PayrollInv, PayrollTyped', NEW w \in Worker, Certify(w) \/ Reject(w) \/ Amend(w)
  PROVE  PayrollInv'
<1>1. PICK s \in Slip : s = ws[w].doc
  BY DEF Certify, Reject, Judge, Amend, Serves, PayrollInv, PayrollTyped, SlipVerb
<1>2. slips \in [Slip -> SlipRow]
  BY DEF PayrollInv, PayrollTyped, PayrollTypeOK
<1>3. /\ End(w) /\ UNCHANGED <<runs, payslips, ledger>> /\ ws[w].verb # "idle"
  BY DEF Certify, Reject, Judge, Amend, Serves
<1>4. /\ \A t \in Slip : t # s => slips'[t] = slips[t]
      /\ slips'[s].run = slips[s].run
  <2>1. CASE Certify(w) \/ Reject(w)
    <3>1. PICK to : slips' = [slips EXCEPT ![s].status = to]
      BY <1>1, <2>1 DEF Certify, Reject, Judge
    <3> QED BY <1>2, <3>1 DEF SlipRow
  <2>2. CASE Amend(w)
    <3>1. slips' = [slips EXCEPT ![s] = ws[w].seen] /\ ws[w].seen = slips[s]
      BY <1>1, <2>2 DEF Amend, Serves, PayrollInv, StillTrue
    <3> QED BY <1>2, <3>1
  <2> QED BY <2>1, <2>2
<1>5. Claims'
  BY <1>3, <1>4 DEF PayrollInv, Claims
<1>6. s \notin Run /\ s \in Touches(ws[w].verb, s)
  BY Sizes DEF Touches
<1>7. \A t \in Slip : t \notin Touches(ws[w].verb, ws[w].doc) => slips'[t] = slips[t]
  BY <1>1, <1>4, <1>6
<1>8. \A q \in Run : q # ws[w].doc /\ runs'[q] = runs[q] /\ payslips'[q] = payslips[q]
                     /\ ledger'[q] = ledger[q]
  BY <1>1, <1>3, <1>6
<1> QED BY <1>3, <1>5, <1>7, <1>8, EndStep

LEMMA PayrollBegin == Init => PayrollInv
<1> SUFFICES ASSUME Init PROVE PayrollInv
  OBVIOUS
<1>1. \A w \in Worker : ws[w] = Idle
  BY DEF Init
<1>2. Idle.seen \in RunRow
  BY DEF Idle, NewRun, RunRow, RunStatus
<1>3. PayrollTypeOK
  BY <1>1, <1>2, IdleTyped, NoPayIsNothing, Sizes
  DEF Init, PayrollTypeOK, NewRun, RunRow, RunStatus, SlipRow, SlipStatus, PayRow, Serves
<1>4. PayrollTyped
  BY <1>1, <1>3, IdleTyped DEF Init, PayrollTyped, RunVerb, SlipVerb
<1>5. Apart /\ \A w \in Worker : StillTrue(w)
  BY <1>1, IdleTyped DEF Apart, StillTrue
<1>6. Claims
  BY Sizes DEF Init, Claims, NoPay
<1>7. \A r \in Run : RunOK(r)
  BY NoPayIsNothing DEF Init, RunOK, NewRun, Signed
<1> QED BY <1>4, <1>5, <1>6, <1>7 DEF PayrollInv

LEMMA PayrollStep ==
  ASSUME OneOfficer = TRUE, PayrollInv, [Next]_vars
  PROVE  PayrollInv'
<1>0. PayrollTyped'
  BY TypedStep DEF PayrollInv
<1>1. CASE UNCHANGED <<runs, payslips, slips, ledger, ws>>
  BY <1>0, <1>1 DEF PayrollInv, Apart, Claims, RunOK, StillTrue, Pay
<1>2. ASSUME NEW w \in Worker, BeginCalculate(w) PROVE PayrollInv'
  <2>1. PICK r \in Run : r = ws[w].doc
    BY <1>2 DEF BeginCalculate, Serves, PayrollInv, PayrollTyped, RunVerb
  <2>2. PICK k : k = [ws[w] EXCEPT !.at = "lines", !.pay = [base |-> salary, slips |-> Payable(r)]]
    OBVIOUS
  <2>3. ws[w] \in PayRequest /\ ws[w].verb = "calculate"
    BY <1>2 DEF BeginCalculate, Serves, PayrollInv, PayrollTyped
  <2>4. /\ k.verb = "calculate" /\ k.doc = r /\ k.at = "lines" /\ k.pay.slips = Payable(r)
    BY <2>1, <2>2, <2>3 DEF PayRequest
  <2>5. ws' = [ws EXCEPT ![w] = k] /\ UNCHANGED <<runs, payslips, slips, ledger>>
    BY <1>2, <2>1, <2>2, <2>3 DEF BeginCalculate, PayRequest
  <2>6. \A v \in Worker : ws'[v] = IF v = w THEN k ELSE ws[v]
    BY <2>5 DEF PayrollInv, PayrollTyped
  <2>7. StillTrue(w)'
    <3>1. runs'[r].status \in {"draft", "calculated"}
      BY <2>1, <2>3, <2>5 DEF PayrollInv, StillTrue
    <3>2. \A s \in Payable(r) : s \in Covers[r] /\ slips'[s].run \in {None, r}
      BY <2>5 DEF Payable
    <3>3. ws'[w].verb = "calculate" /\ ws'[w].doc = r /\ ws'[w].pay.slips = Payable(r)
      BY <2>4, <2>6
    <3> QED BY <3>1, <3>2, <3>3 DEF StillTrue
  <2>8. Apart'
    BY <2>1, <2>3, <2>4, <2>6, ApartStays DEF PayrollInv
  <2> QED BY <1>0, <2>5, <2>6, <2>7, <2>8, QuietStep
<1>3. ASSUME NEW w \in Worker, BuildEntry(w) PROVE PayrollInv'
  <2>1. PICK r \in Run : r = ws[w].doc
    BY <1>3 DEF BuildEntry, Serves, PayrollInv, PayrollTyped, RunVerb
  <2>2. PICK k : k = [ws[w] EXCEPT !.at = "entry", !.pay = payslips[r]]
    OBVIOUS
  <2>3. ws[w] \in PayRequest /\ ws[w].verb = "post"
    BY <1>3 DEF BuildEntry, Serves, PayrollInv, PayrollTyped
  <2>4. /\ k.verb = "post" /\ k.doc = r /\ k.pay = payslips[r]
    BY <2>1, <2>2, <2>3 DEF PayRequest
  <2>5. ws' = [ws EXCEPT ![w] = k] /\ UNCHANGED <<runs, payslips, slips, ledger>>
    BY <1>3, <2>1, <2>2, <2>3 DEF BuildEntry, PayRequest
  <2>6. \A v \in Worker : ws'[v] = IF v = w THEN k ELSE ws[v]
    BY <2>5 DEF PayrollInv, PayrollTyped
  <2>7. StillTrue(w)'
    <3>1. runs'[r].status \in Signed
      BY <2>1, <2>3, <2>5 DEF PayrollInv, StillTrue
    <3>2. ws'[w].verb = "post" /\ ws'[w].doc = r /\ ws'[w].pay = payslips'[r]
      BY <2>4, <2>5, <2>6
    <3> QED BY <3>1, <3>2 DEF StillTrue
  <2>8. Apart'
    BY <2>1, <2>3, <2>4, <2>6, ApartStays DEF PayrollInv
  <2> QED BY <1>0, <2>5, <2>6, <2>7, <2>8, QuietStep
<1>4. ASSUME NEW w \in Worker, GiveUp(w) PROVE PayrollInv'
  <2>1. \A v \in Worker : ws'[v] = IF v = w THEN Idle ELSE ws[v]
    BY <1>4 DEF GiveUp, End, PayrollInv, PayrollTyped
  <2>2. ws'[w].verb = "idle"
    BY <2>1, IdleTyped
  <2>3. StillTrue(w)'
    BY <2>2 DEF StillTrue
  <2>4. Apart'
    BY <2>1, <2>2, ApartStays DEF PayrollInv
  <2> QED BY <1>0, <1>4, <2>1, <2>3, <2>4, QuietStep DEF GiveUp
<1>5. ASSUME NEW w \in Worker, Serve(w) PROVE PayrollInv'
  BY <1>0, <1>2, <1>3, <1>4, <1>5, CalculateStep, RunStep, SlipStep DEF Serve
<1>6. ASSUME NEW w \in Worker, NEW verb \in Verbs, NEW d \in Doc, NEW u \in User,
             Read(w, verb, d, u)
      PROVE  PayrollInv'
  BY <1>0, <1>6, ReadStep
<1> QED BY <1>1, <1>5, <1>6 DEF Next, Revise, vars, Verbs

(* The figures of the reports are sums of equal columns.                   *)
LEMMA PayrollFollows ==
  ASSUME PayrollInv
  PROVE  PaidByTheRules
<1>1. \A r \in Run : /\ RunOK(r) /\ Pay(payslips[r]) \in Nat
                     /\ ledger[r].accrued \in Nat
  BY PayIsNat DEF PayrollInv, PayrollTyped, PayrollTypeOK, PayRow
<1>2. LedgerIsTheRegister
  BY <1>1 DEF LedgerIsTheRegister, RunOK
<1>3. TwoPeople
  BY <1>1 DEF TwoPeople, RunOK, Signed
<1>4. OvertimePaidOnce
  BY DEF PayrollInv, Claims, OvertimePaidOnce
<1>5. ReportsAgree
  <2>1. PICK C : C = Committed /\ C \subseteq Run
    BY DEF Committed
  <2>2. PICK P : P = Posted
    OBVIOUS
  <2>3. P \subseteq Run /\ \A r \in P : ledger[r].accrued > 0
    BY ONLY <2>2 DEF Posted, Committed
  <2>4. [r \in C |-> runs[r].total] = [r \in C |-> Pay(payslips[r])]
    BY <1>1, <2>1 DEF RunOK
  <2>5. \A r \in P : ledger[r].accrued = Pay(payslips[r])
    BY <1>1, <2>3 DEF RunOK
  <2>6. [r \in P |-> ledger[r].accrued] = [r \in P |-> Pay(payslips[r])]
    BY ONLY <2>5
  <2>7. {r \in Run : runs[r].status \in {"posted", "paid"}} \subseteq Posted
    BY <1>1 DEF RunOK, Posted, Committed
  <2> QED BY <2>1, <2>2, <2>4, <2>6, <2>7 DEF ReportsAgree, PayrollCost, Register
<1> QED BY <1>2, <1>3, <1>4, <1>5 DEF PaidByTheRules

-----------------------------------------------------------------------------
(* Leave.                                                                  *)
LeaveVerb == {"submit", "approve", "reject", "cancel", "edit"}

(* What a worker holds, of a request or of a balance.                      *)
LeaveTask == [verb : LeaveVerb \cup {"hold"}, doc : Request, seen : Holidays!LeaveRow]
             \cup [verb : {"adjust"}, doc : Entitlement, seen : Holidays!BalanceRow] \cup {Holidays!Idle}

LeaveTyped == Holidays!LeaveTypeOK /\ desk \in [Worker -> LeaveTask]

(* What a request may still rely on of what it read.                       *)
LeaveTold(w) == LET r == desk[w].doc IN
  /\ desk[w].verb \in LeaveVerb => desk[w].seen = leave[r]
  /\ desk[w].verb = "hold" =>
       /\ leave[r].status = "draft" /\ desk[w].seen.status = "draft"
       /\ desk[w].seen.applied = leave[r].applied
       /\ desk[w].seen.days = Working[desk[w].seen.range]
  /\ desk[w].verb = "adjust" => desk[w].seen = balance[r] /\ balance[r].there

(* A leave request, and the balances, have one request at a time.          *)
LeaveApart == \A v, w \in Worker :
  v # w /\ desk[v].verb # "idle" /\ desk[w].verb # "idle" =>
    desk[v].doc # desk[w].doc /\ desk[v].verb # "adjust"

LeaveRowOK(r) == LET s == leave[r].status  m == steps[r].manager  h == steps[r].hr IN
  /\ leave[r].applied <=> s = "approved"
  /\ s # "submitted" /\ (s = "draft" => m = "none" /\ h = "none")
  /\ s = "pending_manager" => m = "pending" /\ h = "none"
  /\ s = "pending_hr" => m \in {"approved", "skipped"} /\ h \in {"none", "pending"}
  /\ s = "approved" =>
       /\ m # "rejected" /\ h # "rejected"
       /\ h = "approved" \/ (m = "approved" /\ ~NeedsHR[leave[r].of]) \/ leave[r].of \in strayed
  /\ s = "rejected" <=> (m = "rejected" \/ h = "rejected")
  /\ ~(m = "rejected" /\ h = "rejected")

(* A balance adds up, covers what it holds, and was granted a month when   *)
(* it was due, and no more than its rate.                                  *)
BalanceOK(a) ==
  /\ Holidays!AddsUp(a) /\ balance[a].pending <= balance[a].available
  /\ balance[a].accruedIn <= month /\ balance[a].accrued <= Rate[a] * balance[a].accruedIn

LeaveSums == \A a \in Entitlement \ strayed : BalanceOK(a)

LeaveInv ==
  /\ LeaveTyped /\ LeaveApart /\ LeaveSums
  /\ \A r \in Request : LeaveRowOK(r)
  /\ \A w \in Worker : LeaveTold(w)

LEMMA LeaveSizes ==
  /\ IsFiniteSet(Request) /\ None \notin Request \cup Entitlement /\ Request \cap Entitlement = {}
  /\ OneOfficer \in BOOLEAN /\ Working \in [Dates -> Nat] /\ NeedsHR \in [Entitlement -> BOOLEAN]
  /\ Adjustment \subseteq Int /\ Opening \in [Entitlement -> Nat] /\ Rate \in [Entitlement -> Nat]
  /\ Cap \in Nat /\ MaxMonth \in Nat
<1>1. Opening \in [Entitlement -> Nat] /\ Rate \in [Entitlement -> Nat] /\ Cap \in Nat /\ MaxMonth \in Nat
  BY LeaveConstants DEF Holidays!LeaveConstantsOK
<1>2. /\ Working \in [Dates -> Nat] /\ NeedsHR \in [Entitlement -> BOOLEAN] /\ Adjustment \subseteq Int
      /\ Request \cap Entitlement = {}
  BY LeaveConstants DEF Holidays!LeaveConstantsOK
<1>3. IsFiniteSet(Request) /\ None \notin Request \cup Entitlement /\ OneOfficer \in BOOLEAN
  BY LeaveConstants DEF Holidays!LeaveConstantsOK, Holidays!IsFiniteSet, IsFiniteSet
<1> QED BY <1>1, <1>2, <1>3

LEMMA Statuses == DOMAIN Holidays!Allowed =
  {"draft", "submitted", "pending_manager", "pending_hr", "approved", "rejected", "cancelled"}
BY DEF Holidays!Allowed

LEMMA LeaveVerbs == \A s \in DOMAIN Holidays!Allowed :
  /\ "submitted" \in Holidays!Allowed[s] => s = "draft"
  /\ "rejected" \in Holidays!Allowed[s] => s \in {"submitted", "pending_manager", "pending_hr"}
  /\ "cancelled" \in Holidays!Allowed[s] => s \notin {"rejected", "cancelled"}
BY DEF Holidays!Allowed

LEMMA LeaveIdle == Holidays!Idle \in LeaveTask /\ Holidays!Idle.verb = "idle" /\ Holidays!Idle.doc = None
BY DEF Holidays!Idle, LeaveTask

(* A balance, field by field.                                              *)
LEMMA BalanceFields == \A b \in Holidays!BalanceRow :
  /\ b.available \in Int /\ b.pending \in Nat /\ b.taken \in Nat /\ b.accrued \in Nat
  /\ b.adjusted \in Int /\ b.accruedIn \in Nat /\ b.there \in BOOLEAN
BY DEF Holidays!BalanceRow

LEMMA PositiveIsNat == \A n \in Int : Holidays!Positive(n) \in Nat /\ (n >= 0 => Holidays!Positive(n) = n)
BY DEF Holidays!Positive

(* What the services do to a balance.                                      *)
SameGrants(b, c) == c.accrued = b.accrued /\ c.accruedIn = b.accruedIn

LEMMA HeldIs ==
  ASSUME NEW b \in Holidays!BalanceRow, NEW d \in Nat, NEW c, c = Holidays!Held(b, d)
  PROVE  /\ c \in Holidays!BalanceRow /\ SameGrants(b, c)
         /\ c.pending = b.pending + d /\ c.taken = b.taken /\ c.available = b.available
<1>1. PICK n \in Nat : n = b.pending + d
  BY BalanceFields
<1>2. c = [b EXCEPT !.there = TRUE, !.pending = n]
  BY <1>1 DEF Holidays!Held
<1> QED BY ONLY b \in Holidays!BalanceRow, <1>1, <1>2 DEF Holidays!BalanceRow, SameGrants

LEMMA DebitedIs ==
  ASSUME NEW b \in Holidays!BalanceRow, NEW d \in Nat, NEW c, c = Holidays!Debited(b, d)
  PROVE  /\ c \in Holidays!BalanceRow /\ SameGrants(b, c)
         /\ c.pending = Holidays!Positive(b.pending - d) /\ c.taken = b.taken + d
         /\ c.available = b.available - d
<1>1. b.pending - d \in Int /\ b.taken + d \in Nat /\ b.available - d \in Int
  BY BalanceFields
<1>2. PICK m \in Nat : m = Holidays!Positive(b.pending - d)
  BY <1>1, PositiveIsNat
<1>3. PICK n \in Nat, k \in Int : n = b.taken + d /\ k = b.available - d
  BY <1>1
<1>4. c = [b EXCEPT !.there = TRUE, !.pending = m, !.taken = n, !.available = k]
  BY <1>2, <1>3 DEF Holidays!Debited
<1> QED BY ONLY b \in Holidays!BalanceRow, <1>2, <1>3, <1>4 DEF Holidays!BalanceRow, SameGrants

LEMMA ReleasedIs ==
  ASSUME NEW b \in Holidays!BalanceRow, NEW d \in Nat, NEW c, c = Holidays!Released(b, d)
  PROVE  /\ c \in Holidays!BalanceRow /\ SameGrants(b, c)
         /\ c.pending = Holidays!Positive(b.pending - d) /\ c.taken = b.taken
         /\ c.available = b.available
<1>1. b.pending - d \in Int
  BY BalanceFields
<1>2. PICK m \in Nat : m = Holidays!Positive(b.pending - d)
  BY <1>1, PositiveIsNat
<1>3. c = [b EXCEPT !.pending = m]
  BY <1>2 DEF Holidays!Released
<1> QED BY ONLY b \in Holidays!BalanceRow, <1>2, <1>3 DEF Holidays!BalanceRow, SameGrants

LEMMA ReturnedIs ==
  ASSUME NEW b \in Holidays!BalanceRow, NEW row \in Holidays!LeaveRow, row.applied,
         NEW c, c = Holidays!Returned(b, row)
  PROVE  /\ c \in Holidays!BalanceRow /\ SameGrants(b, c)
         /\ c.pending = b.pending /\ c.taken = Holidays!Positive(b.taken - row.days)
         /\ c.available = b.available + row.days
<1>1. row.days \in Nat /\ b.taken - row.days \in Int /\ b.available + row.days \in Int
  BY BalanceFields DEF Holidays!LeaveRow
<1>2. PICK m \in Nat : m = Holidays!Positive(b.taken - row.days)
  BY <1>1, PositiveIsNat
<1>3. PICK k \in Int : k = b.available + row.days
  BY <1>1
<1>4. c = [b EXCEPT !.taken = m, !.available = k]
  BY <1>2, <1>3 DEF Holidays!Returned
<1> QED BY ONLY b \in Holidays!BalanceRow, <1>2, <1>3, <1>4 DEF Holidays!BalanceRow, SameGrants

(* The month's days are no more than the rate.                             *)
LEMMA GrantedIs ==
  ASSUME NEW a \in Entitlement, balance[a] \in Holidays!BalanceRow, month \in Nat,
         NEW c, c = Holidays!Granted(a)
  PROVE  /\ c \in Holidays!BalanceRow /\ c.pending = balance[a].pending /\ c.taken = balance[a].taken
         /\ c.accruedIn = month /\ c.there
         /\ \E g \in Nat : /\ g <= Rate[a] /\ c.accrued = balance[a].accrued + g
                           /\ c.available = balance[a].available + g
<1>1. PICK b : b = balance[a]
  OBVIOUS
<1>2. PICK g : g = Holidays!Grant(a)
  OBVIOUS
<1>3. b \in Holidays!BalanceRow /\ b.available \in Int /\ b.accrued \in Nat
  BY <1>1, BalanceFields
<1>4. Rate[a] \in Nat /\ Cap \in Nat
  BY LeaveSizes
<1>5. g \in Nat /\ g <= Rate[a]
  BY <1>1, <1>2, <1>3, <1>4 DEF Holidays!Grant, Holidays!Positive
<1>6. PICK n \in Nat, k \in Int : n = b.accrued + g /\ k = b.available + g
  BY <1>3, <1>5
<1>7. c = [b EXCEPT !.there = TRUE, !.accrued = n, !.available = k, !.accruedIn = month]
  BY <1>1, <1>2, <1>6 DEF Holidays!Granted
<1>8. /\ c \in Holidays!BalanceRow /\ c.pending = b.pending /\ c.taken = b.taken
      /\ c.accruedIn = month /\ c.there /\ c.accrued = n /\ c.available = k
  BY ONLY <1>3, <1>6, <1>7, month \in Nat DEF Holidays!BalanceRow
<1> QED BY <1>1, <1>5, <1>6, <1>8

(* The task of a worker that serves a verb.                                *)
LEMMA LeaveServes ==
  ASSUME LeaveTyped, NEW w \in Worker
  PROVE  /\ desk[w].verb \in LeaveVerb \cup {"hold"} => desk[w].doc \in Request /\ desk[w].seen \in Holidays!LeaveRow
         /\ desk[w].verb = "adjust" => desk[w].doc \in Entitlement /\ desk[w].seen \in Holidays!BalanceRow
         /\ desk[w].doc \in Request \cup Entitlement \cup {None}
         /\ desk[w].verb \in LeaveVerb \cup {"hold", "adjust", "idle"}
         /\ desk[w].verb = "idle" => desk[w] = Holidays!Idle
<1>1. desk[w] \in LeaveTask
  BY DEF LeaveTyped
<1> QED BY <1>1, LeaveIdle DEF LeaveTask, LeaveVerb

(* A request's row, field by field, and the balance it names.              *)
LEMMA RowFields ==
  ASSUME LeaveTyped, NEW k \in Holidays!LeaveRow
  PROVE  /\ k.of \in Entitlement /\ k.range \in Dates /\ k.days \in Nat /\ k.applied \in BOOLEAN
         /\ k.status \in DOMAIN Holidays!Allowed /\ balance[k.of] \in Holidays!BalanceRow
<1>1. k.of \in Entitlement
  BY DEF Holidays!LeaveRow
<1> QED BY <1>1 DEF Holidays!LeaveRow, LeaveTyped, Holidays!LeaveTypeOK

-----------------------------------------------------------------------------
(* Types.                                                                  *)
LEMMA LeaveTypedStep ==
  ASSUME LeaveTyped, [Holidays!Next]_leaveVars
  PROVE  LeaveTyped'
<1> USE DEF LeaveTyped, Holidays!LeaveTypeOK
<1>0. \A w \in Worker : desk[w] \in LeaveTask
  OBVIOUS
<1>1. CASE UNCHANGED leaveVars
  BY <1>1 DEF leaveVars
(* A request that ends.                                                    *)
<1>2. ASSUME NEW w \in Worker, Holidays!End(w), UNCHANGED <<begun, month>>,
             leave' \in [Request -> Holidays!LeaveRow], balance' \in [Entitlement -> Holidays!BalanceRow],
             steps' \in [Request -> Holidays!StepRow], strayed' \subseteq Entitlement
      PROVE  LeaveTyped'
  <2>1. desk' \in [Worker -> LeaveTask]
    BY <1>2, LeaveIdle DEF Holidays!End
  <2>2. \A v \in Worker : desk'[v].doc \in Request \cup Entitlement \cup {None}
    BY <2>1, LeaveIdle DEF LeaveTask
  <2> QED BY <1>2, <2>1, <2>2
(* A request that goes on.                                                 *)
<1>3. ASSUME NEW w \in Worker, NEW k \in LeaveTask, desk' = [desk EXCEPT ![w] = k],
             UNCHANGED <<leave, steps, balance, strayed, begun, month>>
      PROVE  LeaveTyped'
  <2>1. desk' \in [Worker -> LeaveTask]
    BY <1>3
  <2>2. \A v \in Worker : desk'[v].doc \in Request \cup Entitlement \cup {None}
    BY <2>1, LeaveIdle DEF LeaveTask
  <2> QED BY <1>3, <2>1, <2>2
<1>4. ASSUME NEW w \in Worker, NEW verb \in LeaveVerb, NEW r \in Request, Holidays!Read(w, verb, r)
      PROVE  LeaveTyped'
  <2>1. [verb |-> verb, doc |-> r, seen |-> leave[r]] \in LeaveTask
    BY DEF LeaveTask
  <2> QED BY <1>3, <1>4, <2>1 DEF Holidays!Read
<1>5. ASSUME NEW w \in Worker, Holidays!CheckSubmit(w) PROVE LeaveTyped'
  <2>1. desk[w].doc \in Request /\ desk[w].seen \in Holidays!LeaveRow
    BY <1>5, LeaveServes DEF Holidays!CheckSubmit, Holidays!Serves, LeaveVerb
  <2>2. desk[w] \in [verb : LeaveVerb \cup {"hold"}, doc : Request, seen : Holidays!LeaveRow]
    BY <1>0, <1>5, LeaveIdle DEF Holidays!CheckSubmit, Holidays!Serves, LeaveTask, LeaveVerb
  <2>3. PICK x \in Nat : x = Working[desk[w].seen.range]
    BY <2>1, LeaveSizes DEF Holidays!LeaveRow
  <2>4. PICK d, k : d = desk[w] /\ k = [d EXCEPT !.verb = "hold", !.seen.days = x]
    OBVIOUS
  <2>5. k \in LeaveTask
    BY <2>2, <2>4 DEF LeaveTask, Holidays!LeaveRow
  <2>6. desk' = [desk EXCEPT ![w] = k]
    BY <1>5, <2>3, <2>4 DEF Holidays!CheckSubmit
  <2> QED BY <1>3, <1>5, <2>5, <2>6 DEF Holidays!CheckSubmit
<1>6. ASSUME NEW w \in Worker, Holidays!Submit(w) PROVE LeaveTyped'
  <2>1. PICK r \in Request, k \in Holidays!LeaveRow : r = desk[w].doc /\ k = desk[w].seen
    BY <1>6, LeaveServes DEF Holidays!Submit, Holidays!Serves, LeaveVerb
  <2>2. PICK s \in {"pending_manager", "pending_hr"} :
          /\ leave' = [leave EXCEPT ![r] = [k EXCEPT !.status = s]]
          /\ steps' = [steps EXCEPT ![r].manager = Holidays!FirstStep(s)]
    BY <1>6, <2>1 DEF Holidays!Submit
  <2>3. [k EXCEPT !.status = s] \in Holidays!LeaveRow
    BY Statuses DEF Holidays!LeaveRow
  <2>4. steps' \in [Request -> Holidays!StepRow]
    BY <2>2 DEF Holidays!FirstStep, Holidays!StepRow, Holidays!Decision
  <2>5. Holidays!Held(balance[k.of], k.days) \in Holidays!BalanceRow
    BY RowFields, HeldIs
  <2>6. balance' \in [Entitlement -> Holidays!BalanceRow]
    BY <1>6, <2>1, <2>5 DEF Holidays!Submit
  <2> QED BY <1>2, <1>6, <2>2, <2>3, <2>4, <2>6 DEF Holidays!Submit
<1>7. ASSUME NEW w \in Worker, Holidays!ApproveManager(w) PROVE LeaveTyped'
  <2>1. PICK r \in Request : r = desk[w].doc
    BY <1>7, LeaveServes DEF Holidays!ApproveManager, Holidays!Serves, LeaveVerb
  <2>2. leave' \in [Request -> Holidays!LeaveRow]
    BY <1>7, <2>1, Statuses DEF Holidays!ApproveManager, Holidays!LeaveRow
  <2>3. steps' \in [Request -> Holidays!StepRow]
    BY <1>7, <2>1 DEF Holidays!ApproveManager, Holidays!StepRow, Holidays!Decision
  <2> QED BY <1>2, <1>7, <2>2, <2>3 DEF Holidays!ApproveManager
<1>8. \A r \in Request, b \in BOOLEAN, d \in {"approved", "rejected"} :
        Holidays!Recorded(r, b, d) \in [Request -> Holidays!StepRow]
  BY DEF Holidays!Recorded, Holidays!StepRow, Holidays!Decision
<1>9. ASSUME NEW w \in Worker, Holidays!Finalise(w) PROVE LeaveTyped'
  <2>1. PICK r \in Request, k \in Holidays!LeaveRow : r = desk[w].doc /\ k = desk[w].seen
    BY <1>9, LeaveServes DEF Holidays!Finalise, Holidays!Serves, LeaveVerb
  <2>2. leave' \in [Request -> Holidays!LeaveRow]
    BY <1>9, <2>1, Statuses DEF Holidays!Finalise, Holidays!LeaveRow
  <2>3. Holidays!Debited(balance[k.of], k.days) \in Holidays!BalanceRow
    BY RowFields, DebitedIs
  <2>4. [balance EXCEPT ![k.of].there = TRUE] \in [Entitlement -> Holidays!BalanceRow]
    BY DEF Holidays!BalanceRow
  <2>5. balance' \in [Entitlement -> Holidays!BalanceRow]
    BY <1>9, <2>1, <2>3, <2>4 DEF Holidays!Finalise
  <2> QED BY <1>2, <1>8, <1>9, <2>1, <2>2, <2>5 DEF Holidays!Finalise
<1>10. ASSUME NEW w \in Worker, Holidays!Reject(w) PROVE LeaveTyped'
  <2>1. PICK r \in Request, k \in Holidays!LeaveRow : r = desk[w].doc /\ k = desk[w].seen
    BY <1>10, LeaveServes DEF Holidays!Reject, Holidays!Serves, LeaveVerb
  <2>2. leave' \in [Request -> Holidays!LeaveRow]
    BY <1>10, <2>1, Statuses DEF Holidays!Reject, Holidays!LeaveRow
  <2>3. Holidays!Released(balance[k.of], k.days) \in Holidays!BalanceRow
    BY RowFields, ReleasedIs
  <2>4. balance' \in [Entitlement -> Holidays!BalanceRow]
    BY <1>10, <2>1, <2>3, RowFields DEF Holidays!Reject
  <2> QED BY <1>2, <1>8, <1>10, <2>1, <2>2, <2>4 DEF Holidays!Reject
<1>11. ASSUME NEW w \in Worker, Holidays!Cancel(w) PROVE LeaveTyped'
  <2>1. PICK r \in Request, k \in Holidays!LeaveRow : r = desk[w].doc /\ k = desk[w].seen
    BY <1>11, LeaveServes DEF Holidays!Cancel, Holidays!Serves, LeaveVerb
  <2>2. leave' \in [Request -> Holidays!LeaveRow]
    BY <1>11, <2>1, Statuses DEF Holidays!Cancel, Holidays!LeaveRow
  <2>3. Holidays!Returned(balance[k.of], k) \in Holidays!BalanceRow
    <3>1. CASE k.applied
      BY <3>1, RowFields, ReturnedIs
    <3>2. CASE ~k.applied
      <4>1. Holidays!Released(balance[k.of], k.days) \in Holidays!BalanceRow
        BY RowFields, ReleasedIs
      <4> QED BY <3>2, <4>1, RowFields DEF Holidays!Returned
    <3> QED BY <3>1, <3>2
  <2>4. balance' \in [Entitlement -> Holidays!BalanceRow]
    BY <1>11, <2>1, <2>3 DEF Holidays!Cancel
  <2> QED BY <1>2, <1>11, <2>2, <2>4 DEF Holidays!Cancel
<1>12. ASSUME NEW w \in Worker, Holidays!Edit(w) PROVE LeaveTyped'
  <2>1. PICK r \in Request, k \in Holidays!LeaveRow : r = desk[w].doc /\ k = desk[w].seen
    BY <1>12, LeaveServes DEF Holidays!Edit, Holidays!Serves, LeaveVerb
  <2>2. PICK a \in Entitlement, g \in Dates :
          /\ leave' = [leave EXCEPT ![r] = [k EXCEPT !.of = a, !.range = g]]
          /\ strayed' = strayed \cup Holidays!Parted(leave[r], [k EXCEPT !.of = a, !.range = g])
    BY <1>12, <2>1 DEF Holidays!Edit
  <2>3. PICK row : row = [k EXCEPT !.of = a, !.range = g]
    OBVIOUS
  <2>4. row \in Holidays!LeaveRow /\ row.of \in Entitlement /\ leave[r].of \in Entitlement
    BY <2>3, RowFields DEF Holidays!LeaveRow
  <2>5. leave' \in [Request -> Holidays!LeaveRow]
    BY <2>2, <2>3, <2>4
  <2>6. strayed' \subseteq Entitlement
    BY <2>2, <2>3, <2>4 DEF Holidays!Parted
  <2> QED BY <1>2, <1>12, <2>5, <2>6 DEF Holidays!Edit
<1>13. ASSUME NEW w \in Worker, NEW a \in Entitlement, Holidays!ReadBalance(w, a) PROVE LeaveTyped'
  <2>1. [verb |-> "adjust", doc |-> a, seen |-> balance[a]] \in LeaveTask
    BY DEF LeaveTask
  <2> QED BY <1>3, <1>13, <2>1 DEF Holidays!ReadBalance
<1>14. ASSUME NEW w \in Worker, Holidays!Adjust(w) PROVE LeaveTyped'
  <2>1. PICK a \in Entitlement, k \in Holidays!BalanceRow : a = desk[w].doc /\ k = desk[w].seen
    BY <1>14, LeaveServes DEF Holidays!Adjust, Holidays!Serves
  <2>2. PICK n \in Adjustment, m \in 0..month, b \in Entitlement :
          /\ balance' = [balance EXCEPT ![a] = Holidays!NoBalance,
                                        ![b] = [k EXCEPT !.adjusted = n, !.accruedIn = m]]
          /\ strayed' = strayed \cup (IF b = a THEN {} ELSE {a, b}) \cup Holidays!Dated(b, k, m)
    BY <1>14, <2>1 DEF Holidays!Adjust
  <2>5. n \in Int /\ m \in Nat /\ strayed' \subseteq Entitlement
    BY <2>2, LeaveSizes DEF Holidays!Dated
  <2>3. /\ [k EXCEPT !.adjusted = n, !.accruedIn = m] \in Holidays!BalanceRow
        /\ Holidays!NoBalance \in Holidays!BalanceRow
    <3>1. [k EXCEPT !.adjusted = n, !.accruedIn = m] \in Holidays!BalanceRow
      BY ONLY <2>5, k \in Holidays!BalanceRow DEF Holidays!BalanceRow
    <3>2. Holidays!NoBalance \in Holidays!BalanceRow
      BY DEF Holidays!BalanceRow, Holidays!NoBalance
    <3> QED BY <3>1, <3>2
  <2>4. balance' \in [Entitlement -> Holidays!BalanceRow]
    BY <2>2, <2>3
  <2> QED BY <1>2, <1>14, <2>4, <2>5 DEF Holidays!Adjust
<1>15. ASSUME NEW w \in Worker, Holidays!Serve(w) PROVE LeaveTyped'
  <2>1. CASE Holidays!GiveUp(w)
    BY <1>2, <2>1 DEF Holidays!GiveUp
  <2> QED BY <1>4, <1>5, <1>6, <1>7, <1>9, <1>10, <1>11, <1>12, <1>13, <1>14, <1>15, <2>1
          DEF Holidays!Serve, LeaveVerb
<1>16. CASE Holidays!Accrue
  <2>1. \A a \in Entitlement : Holidays!Granted(a) \in Holidays!BalanceRow
    BY LeaveSizes, GrantedIs
  <2>2. balance' \in [Entitlement -> Holidays!BalanceRow]
    BY <1>16, <2>1 DEF Holidays!Accrue
  <2> QED BY <1>16, <2>2 DEF Holidays!Accrue
<1>17. CASE Holidays!Open
  <2>1. PICK a \in Entitlement, n \in Adjustment, m \in 0..month :
          /\ balance' = [balance EXCEPT ![a].there = TRUE, ![a].adjusted = n, ![a].accruedIn = m]
          /\ strayed' = strayed \cup Holidays!Dated(a, balance[a], m)
    BY <1>17 DEF Holidays!Open
  <2>2. PICK row : row = [balance[a] EXCEPT !.there = TRUE, !.adjusted = n, !.accruedIn = m]
    OBVIOUS
  <2>5. n \in Int /\ m \in Nat /\ balance[a] \in Holidays!BalanceRow /\ strayed' \subseteq Entitlement
    BY <2>1, LeaveSizes DEF Holidays!Dated
  <2>3. row \in Holidays!BalanceRow
    BY ONLY <2>2, <2>5 DEF Holidays!BalanceRow
  <2>4. balance' = [balance EXCEPT ![a] = row]
    BY <2>1, <2>2
  <2> QED BY <1>17, <2>3, <2>4, <2>5 DEF Holidays!Open
<1>18. CASE Holidays!NextMonth
  BY <1>18, LeaveSizes DEF Holidays!NextMonth
<1>19. CASE \E g \in Dates : Holidays!Begins(g)
  BY <1>19 DEF Holidays!Begins
<1> QED BY <1>1, <1>15, <1>16, <1>17, <1>18, <1>19 DEF Holidays!Next

-----------------------------------------------------------------------------
(* What a request in some statuses asks of a balance.                      *)
Asked(row, a, S) == IF row.of = a /\ row.status \in S THEN row.days ELSE 0
DaysIn(l, a, S)  == Total([r \in Request |-> l[r].days],
                          {r \in Request : l[r].of = a /\ l[r].status \in S})

LEMMA DaysAreSums == \A a, S : /\ Holidays!DaysOf(a, S) = DaysIn(leave, a, S)
                              /\ Holidays!DaysOf(a, S)' = DaysIn(leave', a, S)
BY DEF Holidays!DaysOf, DaysIn, Holidays!SumFunctionOnSet, Holidays!FoldFunctionOnSet,
       Holidays!MapThenFoldSet, MapThenFoldSet, Total, IsSum, Partial, Pick

LEMMA DaysTotal ==
  ASSUME NEW l \in [Request -> Holidays!LeaveRow], NEW a, NEW S
  PROVE  /\ DaysIn(l, a, S) = Total([r \in Request |-> Asked(l[r], a, S)], Request)
         /\ DaysIn(l, a, S) \in Nat
         /\ \A r \in Request : Asked(l[r], a, S) <= DaysIn(l, a, S)
<1> DEFINE f == [r \in Request |-> l[r].days]
           h == [r \in Request |-> Asked(l[r], a, S)]
           T == {r \in Request : l[r].of = a /\ l[r].status \in S}
<1>1. /\ T \in SUBSET Request /\ \A x \in Request : h[x] \in Nat
      /\ \A x \in T : h[x] = f[x]
      /\ \A x \in Request \ T : h[x] = 0
  BY DEF Asked, Holidays!LeaveRow
<1>2. IsFiniteSet(Request)
  BY LeaveSizes
<1>3. DaysIn(l, a, S) = Total(f, T)
  BY DEF DaysIn
<1>4. \A x \in Request : h[x] = Asked(l[x], a, S)
  OBVIOUS
<1> HIDE DEF f, h, T
<1>5. \A x \in Request : h[x] \in Int
  BY <1>1
<1>6. Total(h, Request) = Total(f, T)
  BY <1>1, <1>2, <1>5, TotalPart
<1>7. Total(h, Request) \in Nat /\ \A x \in Request : h[x] <= Total(h, Request)
  BY <1>1, <1>2, TotalNat
<1> QED BY <1>3, <1>4, <1>6, <1>7 DEF h

(* One request changes.                                                    *)
LEMMA DaysMove ==
  ASSUME leave \in [Request -> Holidays!LeaveRow], NEW r \in Request, NEW row \in Holidays!LeaveRow,
         leave' = [leave EXCEPT ![r] = row], NEW a, NEW S
  PROVE  DaysIn(leave', a, S) = DaysIn(leave, a, S) - Asked(leave[r], a, S) + Asked(row, a, S)
<1>0. PICK l, k : l \in [Request -> Holidays!LeaveRow] /\ l = leave /\ k = leave' /\ k = [l EXCEPT ![r] = row]
  OBVIOUS
<1> DEFINE f == [q \in Request |-> Asked(l[q], a, S)]
           h == [q \in Request |-> Asked(k[q], a, S)]
<1>1. k \in [Request -> Holidays!LeaveRow] /\ IsFiniteSet(Request)
  BY <1>0, LeaveSizes
<1>2. DaysIn(l, a, S) = Total(f, Request) /\ DaysIn(k, a, S) = Total(h, Request)
  <2>1. \A m \in [Request -> Holidays!LeaveRow] :
          DaysIn(m, a, S) = Total([q \in Request |-> Asked(m[q], a, S)], Request)
    BY DaysTotal
  <2> QED BY ONLY <1>0, <1>1, <2>1
<1>3. \A q \in Request : f[q] \in Int /\ h[q] \in Int
  BY ONLY <1>0, <1>1 DEF Asked, Holidays!LeaveRow
<1>4. \A q \in Request \ {r} : h[q] = f[q]
  BY ONLY <1>0
<1>5. f[r] = Asked(l[r], a, S) /\ h[r] = Asked(row, a, S)
  BY ONLY <1>0, r \in Request
<1>6. f \in [Request -> Int] /\ h \in [Request -> Int] /\ IsFiniteSet(Request)
  BY <1>1, <1>3
<1> HIDE DEF f, h
<1>7. Total(h, Request) = Total(f, Request) - f[r] + h[r]
  BY ONLY r \in Request, <1>4, <1>6, TotalChange
<1> QED BY <1>0, <1>2, <1>5, <1>7

LEMMA DaysHeld ==
  ASSUME LeaveTyped, NEW r \in Request, NEW a, NEW S
  PROVE  /\ Holidays!DaysOf(a, S) \in Nat /\ Asked(leave[r], a, S) <= Holidays!DaysOf(a, S)
         /\ Asked(leave[r], a, S) \in Nat
<1>1. leave \in [Request -> Holidays!LeaveRow]
  BY DEF LeaveTyped, Holidays!LeaveTypeOK
<1>2. Asked(leave[r], a, S) \in Nat
  BY <1>1 DEF Asked, Holidays!LeaveRow
<1> QED BY <1>1, <1>2, DaysTotal, DaysAreSums

(* A request and a balance move by the same days.                          *)
LEMMA OneMoves ==
  ASSUME LeaveTyped, LeaveTyped', NEW r \in Request, NEW row \in Holidays!LeaveRow,
         leave' = [leave EXCEPT ![r] = row], NEW a \in Entitlement, BalanceOK(a),
         balance'[a].pending = balance[a].pending - Asked(leave[r], a, Holidays!Waiting)
                                                  + Asked(row, a, Holidays!Waiting),
         balance'[a].taken = balance[a].taken - Asked(leave[r], a, {"approved"})
                                              + Asked(row, a, {"approved"}),
         balance'[a].available = balance[a].available + balance[a].taken - balance'[a].taken,
         balance'[a].pending <= balance'[a].available,
         row.of = a /\ row.status \in Holidays!Blocking => row.days = Working[row.range],
         SameGrants(balance[a], balance'[a]), month' = month
  PROVE  BalanceOK(a)'
<1>1. /\ leave \in [Request -> Holidays!LeaveRow]
      /\ balance[a] \in Holidays!BalanceRow /\ balance'[a] \in Holidays!BalanceRow
  BY DEF LeaveTyped, Holidays!LeaveTypeOK
<1>2. /\ Holidays!DaysOf(a, Holidays!Waiting)' = Holidays!DaysOf(a, Holidays!Waiting)
           - Asked(leave[r], a, Holidays!Waiting) + Asked(row, a, Holidays!Waiting)
      /\ Holidays!DaysOf(a, {"approved"})' = Holidays!DaysOf(a, {"approved"})
           - Asked(leave[r], a, {"approved"}) + Asked(row, a, {"approved"})
  <2>1. \A S : DaysIn(leave', a, S) = DaysIn(leave, a, S) - Asked(leave[r], a, S) + Asked(row, a, S)
    BY <1>1, DaysMove
  <2>2. Holidays!Waiting' = Holidays!Waiting
    BY DEF Holidays!Waiting
  <2> QED BY <2>1, <2>2, DaysAreSums
<1>3. /\ balance[a].pending = Holidays!DaysOf(a, Holidays!Waiting)
      /\ balance[a].taken = Holidays!DaysOf(a, {"approved"})
      /\ balance[a].available = Opening[a] + balance[a].accrued - balance[a].taken
      /\ \A q \in Request : leave[q].of = a /\ leave[q].status \in Holidays!Blocking =>
           leave[q].days = Working[leave[q].range]
  BY DEF BalanceOK, Holidays!AddsUp
<1>4. /\ balance'[a].pending = Holidays!DaysOf(a, Holidays!Waiting)'
      /\ balance'[a].taken = Holidays!DaysOf(a, {"approved"})'
  BY <1>2, <1>3
<1>5. balance'[a].available = Opening[a] + balance'[a].accrued - balance'[a].taken
  <2>1. Opening[a] \in Nat
    BY LeaveSizes
  <2> QED BY <1>1, <1>3, <2>1, BalanceFields DEF SameGrants
<1>6. \A q \in Request : leave'[q].of = a /\ leave'[q].status \in Holidays!Blocking =>
           leave'[q].days = Working[leave'[q].range]
  BY <1>1, <1>3
<1>7. Holidays!AddsUp(a)'
  BY <1>4, <1>5, <1>6 DEF Holidays!AddsUp, Holidays!Waiting, Holidays!Blocking
<1> QED BY <1>7 DEF BalanceOK, SameGrants

(* A request and the balance it names move by the same days; the others    *)
(* stay.                                                                   *)
LEMMA SumsMove ==
  ASSUME LeaveInv, LeaveTyped', NEW r \in Request, NEW row \in Holidays!LeaveRow,
         leave' = [leave EXCEPT ![r] = row], NEW x \in Entitlement, NEW b \in Holidays!BalanceRow,
         balance' = [balance EXCEPT ![x] = b], row.of = x,
         leave[r].of = x \/ leave[r].status = "draft", strayed' = strayed, month' = month,
         SameGrants(balance[x], b),
         x \notin strayed =>
           /\ b.pending = balance[x].pending - Asked(leave[r], x, Holidays!Waiting)
                                             + Asked(row, x, Holidays!Waiting)
           /\ b.taken = balance[x].taken - Asked(leave[r], x, {"approved"}) + Asked(row, x, {"approved"})
           /\ b.available = balance[x].available + balance[x].taken - b.taken
           /\ b.pending <= b.available
           /\ row.status \in Holidays!Blocking => row.days = Working[row.range]
  PROVE  LeaveSums'
<1> SUFFICES ASSUME NEW a \in Entitlement \ strayed PROVE BalanceOK(a)'
  BY DEF LeaveSums
<1>1. LeaveTyped /\ BalanceOK(a) /\ balance \in [Entitlement -> Holidays!BalanceRow]
  BY DEF LeaveInv, LeaveSums, LeaveTyped, Holidays!LeaveTypeOK
<1>2. CASE a = x
  <2>1. balance'[a] = b
    BY <1>1, <1>2
  <2> QED BY <1>1, <1>2, <2>1, OneMoves
<1>3. CASE a # x
  <2>1. balance'[a] = balance[a]
    BY <1>1, <1>3
  <2>2. /\ Asked(leave[r], a, Holidays!Waiting) = 0 /\ Asked(leave[r], a, {"approved"}) = 0
        /\ Asked(row, a, Holidays!Waiting) = 0 /\ Asked(row, a, {"approved"}) = 0
    BY <1>3 DEF Asked, Holidays!Waiting
  <2>3. /\ balance[a].pending \in Nat /\ balance[a].taken \in Nat /\ balance[a].available \in Int
        /\ balance[a].pending <= balance[a].available
    BY <1>1, BalanceFields DEF BalanceOK
  <2>4. /\ balance'[a].pending = balance[a].pending - Asked(leave[r], a, Holidays!Waiting)
                                                    + Asked(row, a, Holidays!Waiting)
        /\ balance'[a].taken = balance[a].taken - Asked(leave[r], a, {"approved"})
                                                + Asked(row, a, {"approved"})
        /\ balance'[a].available = balance[a].available + balance[a].taken - balance'[a].taken
        /\ balance'[a].pending <= balance'[a].available
    BY ONLY <2>1, <2>2, <2>3
  <2>5. SameGrants(balance[a], balance'[a])
    BY <2>1 DEF SameGrants
  <2>6. ~(row.of = a /\ row.status \in Holidays!Blocking)
    BY <1>3
  <2> QED BY <1>1, <2>4, <2>5, <2>6, OneMoves
<1> QED BY <1>2, <1>3

-----------------------------------------------------------------------------
(* A request ends, having changed its row and its decisions.               *)
LEMMA LeaveEnds ==
  ASSUME LeaveInv, LeaveTyped', NEW w \in Worker, NEW r \in Request, desk[w].doc = r,
         desk[w].verb \in LeaveVerb \cup {"hold"}, Holidays!End(w),
         NEW row, leave' = [leave EXCEPT ![r] = row], \A q \in Request \ {r} : steps'[q] = steps[q],
         strayed \subseteq strayed', LeaveRowOK(r)', LeaveSums'
  PROVE  LeaveInv'
<1>1. \A v \in Worker : desk'[v] = IF v = w THEN Holidays!Idle ELSE desk[v]
  BY DEF LeaveInv, LeaveTyped, Holidays!End
<1>2. \A q \in Request \ {r} : leave'[q] = leave[q]
  BY DEF LeaveInv, LeaveTyped, Holidays!LeaveTypeOK
<1>3. \A q \in Request : LeaveRowOK(q)'
  BY <1>2 DEF LeaveInv, LeaveRowOK
<1>4. LeaveApart'
  BY <1>1, LeaveIdle DEF LeaveInv, LeaveApart
<1>5. ASSUME NEW v \in Worker PROVE LeaveTold(v)'
  <2>1. CASE v = w
    BY <1>1, <2>1, LeaveIdle DEF LeaveTold, LeaveVerb
  <2>2. CASE v # w /\ desk[v].verb = "idle"
    BY <1>1, <2>2 DEF LeaveTold, LeaveVerb
  <2>3. CASE v # w /\ desk[v].verb # "idle"
    <3>1. desk[v].doc # r /\ desk[v].verb # "adjust"
      BY <2>3 DEF LeaveInv, LeaveApart, LeaveVerb
    <3>2. desk[v].verb \in LeaveVerb \cup {"hold"} /\ desk[v].doc \in Request
      BY <2>3, <3>1, LeaveServes DEF LeaveInv
    <3>3. leave'[desk[v].doc] = leave[desk[v].doc] /\ desk'[v] = desk[v]
      BY <1>1, <1>2, <2>3, <3>1, <3>2
    <3> QED BY <3>1, <3>3 DEF LeaveInv, LeaveTold
  <2> QED BY <2>1, <2>2, <2>3
<1> QED BY <1>3, <1>4, <1>5 DEF LeaveInv

(* No request changes: the balances that are not parted from theirs may    *)
(* be granted days, and a worker may begin, go on or end.                  *)
LEMMA BalancesMove ==
  ASSUME LeaveInv, LeaveTyped', UNCHANGED <<leave, steps>>, strayed \subseteq strayed',
         \A a \in Entitlement \ strayed' :
           /\ balance'[a].pending = balance[a].pending /\ balance'[a].taken = balance[a].taken
           /\ balance'[a].available - balance'[a].accrued = balance[a].available - balance[a].accrued
           /\ balance'[a].available >= balance[a].available
           /\ balance'[a].accruedIn <= month'
           /\ balance'[a].accrued <= Rate[a] * balance'[a].accruedIn,
         LeaveApart', \A w \in Worker : LeaveTold(w)'
  PROVE  LeaveInv'
<1>1. \A r \in Request : LeaveRowOK(r)'
  BY DEF LeaveInv, LeaveRowOK
<1>2. ASSUME NEW a \in Entitlement \ strayed' PROVE BalanceOK(a)'
  <2>1. /\ balance[a] \in Holidays!BalanceRow /\ balance'[a] \in Holidays!BalanceRow
        /\ Opening[a] \in Nat
    BY LeaveSizes DEF LeaveInv, LeaveTyped, Holidays!LeaveTypeOK
  <2>2. /\ balance[a].available \in Int /\ balance'[a].available \in Int /\ balance[a].accrued \in Nat
        /\ balance'[a].accrued \in Nat /\ balance[a].taken \in Nat /\ balance[a].pending \in Nat
    BY <2>1, BalanceFields
  <2>3. Holidays!AddsUp(a) /\ balance[a].pending <= balance[a].available
    BY DEF LeaveInv, LeaveSums, BalanceOK
  <2>4. /\ Holidays!DaysOf(a, Holidays!Waiting)' = Holidays!DaysOf(a, Holidays!Waiting)
        /\ Holidays!DaysOf(a, {"approved"})' = Holidays!DaysOf(a, {"approved"})
    BY DaysAreSums DEF Holidays!Waiting
  <2>5. balance'[a].available = Opening[a] + balance'[a].accrued - balance'[a].taken
    <3>1. balance[a].available = Opening[a] + balance[a].accrued - balance[a].taken
      BY <2>3 DEF Holidays!AddsUp
    <3>2. /\ balance'[a].taken = balance[a].taken
          /\ balance'[a].available - balance'[a].accrued = balance[a].available - balance[a].accrued
      BY <1>2
    <3> QED BY ONLY <2>1, <2>2, <3>1, <3>2
  <2>6. Holidays!AddsUp(a)'
    BY <1>2, <2>3, <2>4, <2>5 DEF Holidays!AddsUp, Holidays!Waiting, Holidays!Blocking
  <2>7. balance'[a].pending <= balance'[a].available
    BY <1>2, <2>2, <2>3
  <2> QED BY <1>2, <2>6, <2>7 DEF BalanceOK
<1>3. LeaveSums'
  BY <1>2 DEF LeaveSums
<1> QED BY <1>1, <1>3 DEF LeaveInv

(* Nothing of the rows changes.                                            *)
LEMMA LeaveQuiet ==
  ASSUME LeaveInv, LeaveTyped', UNCHANGED <<leave, steps, balance, strayed>>, month <= month',
         LeaveApart', \A w \in Worker : LeaveTold(w)'
  PROVE  LeaveInv'
<1>1. month \in Nat /\ month' \in Nat
  BY LeaveSizes DEF LeaveInv, LeaveTyped, Holidays!LeaveTypeOK
<1>2. ASSUME NEW a \in Entitlement \ strayed
      PROVE  /\ balance'[a].pending = balance[a].pending /\ balance'[a].taken = balance[a].taken
             /\ balance'[a].available - balance'[a].accrued = balance[a].available - balance[a].accrued
             /\ balance'[a].available >= balance[a].available
             /\ balance'[a].accruedIn <= month'
             /\ balance'[a].accrued <= Rate[a] * balance'[a].accruedIn
  <2>1. balance[a] \in Holidays!BalanceRow
    BY DEF LeaveInv, LeaveTyped, Holidays!LeaveTypeOK
  <2>2. balance[a].accruedIn \in Nat /\ balance[a].available \in Int
    BY <2>1, BalanceFields
  <2>3. balance[a].accruedIn <= month /\ balance[a].accrued <= Rate[a] * balance[a].accruedIn
    BY DEF LeaveInv, LeaveSums, BalanceOK
  <2> QED BY <1>1, <2>2, <2>3
<1> QED BY <1>2, BalancesMove

(* A request of its own document begins or goes on.                        *)
LEMMA LeaveGoesOn ==
  ASSUME LeaveInv, LeaveTyped', NEW w \in Worker, NEW k, desk' = [desk EXCEPT ![w] = k],
         UNCHANGED <<leave, steps, balance, strayed, begun, month>>, LeaveTold(w)',
         \/ k.verb = "idle"
         \/ \A v \in Worker \ {w} : desk[v].verb # "idle" =>
               desk[v].doc # k.doc /\ desk[v].verb # "adjust" /\ k.verb # "adjust"
  PROVE  LeaveInv'
<1>1. \A v \in Worker : desk'[v] = IF v = w THEN k ELSE desk[v]
  BY DEF LeaveInv, LeaveTyped
<1>2. LeaveApart'
  BY <1>1 DEF LeaveInv, LeaveApart
<1>3. \A v \in Worker : LeaveTold(v)'
  BY <1>1 DEF LeaveInv, LeaveTold
<1>4. month <= month'
  BY LeaveSizes DEF LeaveInv, LeaveTyped, Holidays!LeaveTypeOK
<1> QED BY <1>2, <1>3, <1>4, LeaveQuiet

(* The row that a request decides on is the row that is stored.            *)
LEMMA LeaveFacts ==
  ASSUME LeaveInv, NEW w \in Worker, desk[w].verb \in LeaveVerb
  PROVE  /\ desk[w].doc \in Request /\ desk[w].seen = leave[desk[w].doc]
         /\ leave[desk[w].doc] \in Holidays!LeaveRow /\ LeaveRowOK(desk[w].doc)
         /\ steps[desk[w].doc] \in Holidays!StepRow
BY LeaveServes DEF LeaveInv, LeaveTold, LeaveTyped, Holidays!LeaveTypeOK

(* The balance holds the days of a request that waits, and has taken those *)
(* of one that is approved.                                                *)
LEMMA LeaveBalance ==
  ASSUME LeaveInv, NEW r \in Request, NEW x \in Entitlement \ strayed, leave[r].of = x
  PROVE  /\ balance[x].pending <= balance[x].available
         /\ Asked(leave[r], x, Holidays!Waiting) <= balance[x].pending
         /\ Asked(leave[r], x, {"approved"}) <= balance[x].taken
         /\ leave[r].status \in Holidays!Blocking => leave[r].days = Working[leave[r].range]
<1>1. LeaveTyped /\ BalanceOK(x)
  BY DEF LeaveInv, LeaveSums
<1>2. /\ Asked(leave[r], x, Holidays!Waiting) <= Holidays!DaysOf(x, Holidays!Waiting)
      /\ Asked(leave[r], x, {"approved"}) <= Holidays!DaysOf(x, {"approved"})
  BY <1>1, DaysHeld
<1> QED BY <1>1, <1>2 DEF BalanceOK, Holidays!AddsUp

(* The row of a request, and its balance.                                  *)
LEMMA LeaveRows ==
  ASSUME LeaveInv, NEW r \in Request
  PROVE  /\ leave[r] \in Holidays!LeaveRow /\ leave[r].days \in Nat /\ leave[r].of \in Entitlement
         /\ balance[leave[r].of] \in Holidays!BalanceRow
         /\ balance[leave[r].of].pending \in Nat /\ balance[leave[r].of].taken \in Nat
         /\ balance[leave[r].of].available \in Int
<1>1. LeaveTyped /\ leave[r] \in Holidays!LeaveRow
  BY DEF LeaveInv, LeaveTyped, Holidays!LeaveTypeOK
<1> QED BY <1>1, RowFields, BalanceFields

LEMMA LeaveReads ==
  ASSUME LeaveInv, LeaveTyped', OneOfficer = TRUE, NEW w \in Worker,
         \/ \E verb \in LeaveVerb, r \in Request : Holidays!Unread /\ Holidays!Read(w, verb, r)
         \/ \E a \in Entitlement : Holidays!ReadBalance(w, a)
         \/ Holidays!CheckSubmit(w) \/ Holidays!GiveUp(w)
  PROVE  LeaveInv'
<1>1. ASSUME NEW verb \in LeaveVerb, NEW r \in Request, Holidays!Unread, Holidays!Read(w, verb, r)
      PROVE  LeaveInv'
  <2>1. PICK k : k = [verb |-> verb, doc |-> r, seen |-> leave[r]]
    OBVIOUS
  <2>2. desk' = [desk EXCEPT ![w] = k] /\ UNCHANGED <<leave, steps, balance, strayed, begun, month>>
    BY <1>1, <2>1 DEF Holidays!Read
  <2>3. desk'[w] = k
    BY <2>2 DEF LeaveInv, LeaveTyped
  <2>4. LeaveTold(w)'
    BY <2>1, <2>2, <2>3 DEF LeaveTold, LeaveVerb
  <2>5. \A v \in Worker \ {w} : desk[v].doc # k.doc /\ desk[v].verb # "adjust" /\ k.verb # "adjust"
    BY <1>1, <2>1 DEF Holidays!Read, Holidays!Unread, LeaveVerb
  <2> QED BY <2>2, <2>4, <2>5, LeaveGoesOn
<1>2. ASSUME NEW a \in Entitlement, Holidays!ReadBalance(w, a) PROVE LeaveInv'
  <2>1. PICK k : k = [verb |-> "adjust", doc |-> a, seen |-> balance[a]]
    OBVIOUS
  <2>2. /\ desk' = [desk EXCEPT ![w] = k] /\ UNCHANGED <<leave, steps, balance, strayed, begun, month>>
        /\ balance[a].there
    BY <1>2, <2>1 DEF Holidays!ReadBalance
  <2>3. desk'[w] = k
    BY <2>2 DEF LeaveInv, LeaveTyped
  <2>4. LeaveTold(w)'
    BY <2>1, <2>2, <2>3 DEF LeaveTold, LeaveVerb
  <2>5. \A v \in Worker : desk[v].verb = "idle"
    BY <1>2 DEF Holidays!ReadBalance
  <2> QED BY <2>2, <2>4, <2>5, LeaveGoesOn
<1>3. ASSUME Holidays!CheckSubmit(w) PROVE LeaveInv'
  <2>1. desk[w].verb = "submit" /\ "submitted" \in Holidays!Allowed[desk[w].seen.status]
    BY <1>3 DEF Holidays!CheckSubmit, Holidays!Serves
  <2>2. PICK r \in Request : r = desk[w].doc /\ desk[w].seen = leave[r] /\ leave[r] \in Holidays!LeaveRow
    BY <2>1, LeaveFacts DEF LeaveVerb
  <2>3. leave[r].status = "draft"
    BY <2>1, <2>2, LeaveVerbs DEF Holidays!LeaveRow
  <2>4. desk[w] \in [verb : LeaveVerb \cup {"hold"}, doc : Request, seen : Holidays!LeaveRow]
    BY <2>1, LeaveIdle DEF LeaveInv, LeaveTyped, LeaveTask, LeaveVerb
  <2>5. PICK d, x, k : /\ d = desk[w] /\ x = Working[desk[w].seen.range]
                       /\ k = [d EXCEPT !.verb = "hold", !.seen.days = x]
    OBVIOUS
  <2>6. k.verb = "hold" /\ k.doc = r /\ k.seen = [leave[r] EXCEPT !.days = x]
    BY <2>2, <2>4, <2>5
  <2>7. /\ k.seen.status = "draft" /\ k.seen.applied = leave[r].applied
        /\ k.seen.days = Working[k.seen.range]
    BY <2>2, <2>3, <2>5, <2>6 DEF Holidays!LeaveRow
  <2>8. desk' = [desk EXCEPT ![w] = k] /\ UNCHANGED <<leave, steps, balance, strayed, begun, month>>
    BY <1>3, <2>5 DEF Holidays!CheckSubmit
  <2>9. desk'[w] = k
    BY <2>8 DEF LeaveInv, LeaveTyped
  <2>10. LeaveTold(w)'
    BY <2>3, <2>6, <2>7, <2>8, <2>9 DEF LeaveTold, LeaveVerb
  <2>11. \A v \in Worker \ {w} : desk[v].verb # "idle" =>
           desk[v].doc # k.doc /\ desk[v].verb # "adjust" /\ k.verb # "adjust"
    BY <2>1, <2>2, <2>6 DEF LeaveInv, LeaveApart
  <2> QED BY <2>8, <2>10, <2>11, LeaveGoesOn
<1>4. ASSUME Holidays!GiveUp(w) PROVE LeaveInv'
  <2>1. PICK k : k = Holidays!Idle
    OBVIOUS
  <2>2. desk' = [desk EXCEPT ![w] = k] /\ UNCHANGED <<leave, steps, balance, strayed, begun, month>>
    BY <1>4, <2>1 DEF Holidays!GiveUp, Holidays!End
  <2>3. desk'[w] = k /\ k.verb = "idle"
    BY <2>1, <2>2, LeaveIdle DEF LeaveInv, LeaveTyped
  <2>4. LeaveTold(w)'
    BY <2>3 DEF LeaveTold, LeaveVerb
  <2> QED BY <2>2, <2>3, <2>4, LeaveGoesOn
<1> QED BY <1>1, <1>2, <1>3, <1>4

LEMMA SubmitStep ==
  ASSUME LeaveInv, LeaveTyped', NEW w \in Worker, Holidays!Submit(w)
  PROVE  LeaveInv'
<1>1. PICK r \in Request, k \in Holidays!LeaveRow : r = desk[w].doc /\ k = desk[w].seen
  BY LeaveServes DEF Holidays!Submit, Holidays!Serves, LeaveVerb, LeaveInv
<1>2. PICK s \in {"pending_manager", "pending_hr"} :
        /\ leave' = [leave EXCEPT ![r] = [k EXCEPT !.status = s]]
        /\ steps' = [steps EXCEPT ![r].manager = Holidays!FirstStep(s)]
  BY <1>1 DEF Holidays!Submit
<1>3. PICK row : row = [k EXCEPT !.status = s]
  OBVIOUS
<1>4. /\ row \in Holidays!LeaveRow /\ row.status = s /\ row.days = k.days /\ row.applied = k.applied
      /\ row.of = k.of /\ row.range = k.range /\ k.days \in Nat
  BY <1>3, Statuses DEF Holidays!LeaveRow
<1>5. /\ desk[w].verb = "hold" /\ leave[r].status = "draft" /\ k.applied = leave[r].applied
      /\ LeaveRowOK(r) /\ k.days = Working[k.range]
  BY <1>1 DEF Holidays!Submit, Holidays!Serves, LeaveInv, LeaveTold
<1>6. /\ leave'[r] = row /\ steps'[r] = [steps[r] EXCEPT !.manager = Holidays!FirstStep(s)]
      /\ \A q \in Request \ {r} : steps'[q] = steps[q]
      /\ steps[r] \in Holidays!StepRow
  BY <1>2, <1>3 DEF LeaveInv, LeaveTyped, Holidays!LeaveTypeOK
<1>7. steps'[r].manager = Holidays!FirstStep(s) /\ steps'[r].hr = steps[r].hr
  BY <1>6 DEF Holidays!StepRow
<1>8. LeaveRowOK(r)'
  BY <1>4, <1>5, <1>6, <1>7 DEF LeaveRowOK, Holidays!FirstStep
<1>9. PICK x \in Entitlement : x = k.of
  BY DEF Holidays!LeaveRow
<1>10. balance[x] \in Holidays!BalanceRow
  BY DEF LeaveInv, LeaveTyped, Holidays!LeaveTypeOK
<1>11. PICK b : b = Holidays!Held(balance[x], k.days)
  OBVIOUS
<1>12. /\ b \in Holidays!BalanceRow /\ SameGrants(balance[x], b)
       /\ b.pending = balance[x].pending + k.days /\ b.taken = balance[x].taken
       /\ b.available = balance[x].available
  BY <1>4, <1>10, <1>11, HeldIs
<1>13. /\ balance' = [balance EXCEPT ![x] = b] /\ strayed' = strayed /\ month' = month
       /\ k.days <= balance[x].available - balance[x].pending /\ Holidays!End(w)
  BY <1>1, <1>9, <1>11 DEF Holidays!Submit, Holidays!Enough
<1>14. /\ Asked(leave[r], x, Holidays!Waiting) = 0 /\ Asked(leave[r], x, {"approved"}) = 0
       /\ Asked(row, x, Holidays!Waiting) = k.days /\ Asked(row, x, {"approved"}) = 0
  BY <1>4, <1>5, <1>9 DEF Asked, Holidays!Waiting
<1>15. balance[x].pending \in Nat /\ balance[x].taken \in Nat /\ balance[x].available \in Int
  BY <1>10, BalanceFields
<1>16. /\ b.pending = balance[x].pending - Asked(leave[r], x, Holidays!Waiting)
                                         + Asked(row, x, Holidays!Waiting)
       /\ b.taken = balance[x].taken - Asked(leave[r], x, {"approved"}) + Asked(row, x, {"approved"})
       /\ b.available = balance[x].available + balance[x].taken - b.taken
       /\ b.pending <= b.available
  BY ONLY <1>4, <1>12, <1>13, <1>14, <1>15
<1>17. LeaveSums'
  BY <1>2, <1>3, <1>4, <1>5, <1>9, <1>12, <1>13, <1>16, SumsMove
<1> QED BY <1>1, <1>2, <1>3, <1>5, <1>6, <1>8, <1>13, <1>17, LeaveEnds

LEMMA ApproveManagerStep ==
  ASSUME LeaveInv, LeaveTyped', NEW w \in Worker, Holidays!ApproveManager(w)
  PROVE  LeaveInv'
<1>1. desk[w].verb = "approve" /\ desk[w].seen.status = "pending_manager"
  BY DEF Holidays!ApproveManager, Holidays!Serves
<1>2. PICK r \in Request : r = desk[w].doc
  BY <1>1, LeaveFacts DEF LeaveVerb
<1>3. /\ desk[w].seen = leave[r] /\ leave[r] \in Holidays!LeaveRow /\ LeaveRowOK(r)
      /\ steps[r] \in Holidays!StepRow /\ leave[r].status = "pending_manager"
  BY <1>1, <1>2, LeaveFacts DEF LeaveVerb
<1>4. PICK row : row = [leave[r] EXCEPT !.status = "pending_hr"]
  OBVIOUS
<1>5. /\ row \in Holidays!LeaveRow /\ row.status = "pending_hr" /\ row.days = leave[r].days
      /\ row.applied = leave[r].applied /\ row.of = leave[r].of /\ row.range = leave[r].range
  BY <1>3, <1>4, Statuses DEF Holidays!LeaveRow
<1>6. /\ leave' = [leave EXCEPT ![r] = row] /\ leave'[r] = row
      /\ steps'[r] = [manager |-> "approved", hr |-> IF steps[r].hr = "none" THEN "pending" ELSE steps[r].hr]
      /\ \A q \in Request \ {r} : steps'[q] = steps[q]
  BY <1>2, <1>4 DEF Holidays!ApproveManager, LeaveInv, LeaveTyped, Holidays!LeaveTypeOK
<1>7. LeaveRowOK(r)'
  BY <1>1, <1>3, <1>5, <1>6 DEF LeaveRowOK
<1>8. balance' = balance /\ strayed' = strayed /\ month' = month /\ Holidays!End(w)
  BY DEF Holidays!ApproveManager
<1>9. PICK x, b : x \in Entitlement /\ x = leave[r].of /\ b = balance[x]
  BY LeaveRows
<1>10. /\ b \in Holidays!BalanceRow /\ balance' = [balance EXCEPT ![x] = b] /\ SameGrants(balance[x], b)
       /\ b.pending \in Nat /\ b.taken \in Nat /\ b.available \in Int /\ leave[r].days \in Nat
  BY <1>8, <1>9, LeaveRows DEF SameGrants, LeaveInv, LeaveTyped, Holidays!LeaveTypeOK
<1>11. /\ Asked(leave[r], x, Holidays!Waiting) = leave[r].days /\ Asked(leave[r], x, {"approved"}) = 0
       /\ Asked(row, x, Holidays!Waiting) = leave[r].days /\ Asked(row, x, {"approved"}) = 0
  BY <1>3, <1>5, <1>9 DEF Asked, Holidays!Waiting
<1>12. ASSUME x \notin strayed
       PROVE  b.pending <= b.available /\ row.days = Working[row.range]
  BY <1>3, <1>5, <1>9, <1>12, LeaveBalance DEF Holidays!Blocking, Holidays!Waiting
<1>13. /\ b.pending = balance[x].pending - Asked(leave[r], x, Holidays!Waiting)
                                         + Asked(row, x, Holidays!Waiting)
       /\ b.taken = balance[x].taken - Asked(leave[r], x, {"approved"}) + Asked(row, x, {"approved"})
       /\ b.available = balance[x].available + balance[x].taken - b.taken
  BY ONLY <1>9, <1>10, <1>11
<1>14. LeaveSums'
  BY <1>5, <1>6, <1>8, <1>9, <1>10, <1>12, <1>13, SumsMove
<1> QED BY <1>1, <1>2, <1>6, <1>7, <1>8, <1>14, LeaveEnds DEF LeaveVerb

(* _record_decision, of one step of one request.                           *)
LEMMA RecordedSteps ==
  ASSUME LeaveTyped, NEW r \in Request, NEW b \in BOOLEAN, NEW d, steps' = Holidays!Recorded(r, b, d)
  PROVE  /\ \A q \in Request \ {r} : steps'[q] = steps[q]
         /\ steps'[r].manager = IF b THEN d ELSE steps[r].manager
         /\ steps'[r].hr = IF b THEN steps[r].hr ELSE d
<1>1. steps \in [Request -> Holidays!StepRow]
  BY DEF LeaveTyped, Holidays!LeaveTypeOK
<1>2. CASE b
  <2>1. steps' = [steps EXCEPT ![r].manager = d]
    BY <1>2 DEF Holidays!Recorded
  <2>2. steps'[r] = [steps[r] EXCEPT !.manager = d] /\ \A q \in Request \ {r} : steps'[q] = steps[q]
    BY <1>1, <2>1
  <2> QED BY <1>1, <1>2, <2>2 DEF Holidays!StepRow
<1>3. CASE ~b
  <2>1. steps' = [steps EXCEPT ![r].hr = d]
    BY <1>3 DEF Holidays!Recorded
  <2>2. steps'[r] = [steps[r] EXCEPT !.hr = d] /\ \A q \in Request \ {r} : steps'[q] = steps[q]
    BY <1>1, <2>1
  <2> QED BY <1>1, <1>3, <2>2 DEF Holidays!StepRow
<1> QED BY <1>2, <1>3

LEMMA FinaliseStep ==
  ASSUME LeaveInv, LeaveTyped', NEW w \in Worker, Holidays!Finalise(w)
  PROVE  LeaveInv'
<1>1. desk[w].verb = "approve" /\ Holidays!LastStep(desk[w].seen)
  BY DEF Holidays!Finalise, Holidays!Serves
<1>2. PICK r \in Request : r = desk[w].doc
  BY <1>1, LeaveFacts DEF LeaveVerb
<1>3. /\ desk[w].seen = leave[r] /\ leave[r] \in Holidays!LeaveRow /\ LeaveRowOK(r)
      /\ steps[r] \in Holidays!StepRow
  BY <1>1, <1>2, LeaveFacts DEF LeaveVerb
<1>4. PICK f \in BOOLEAN : f = (leave[r].status = "pending_manager")
  OBVIOUS
<1>5. /\ leave[r].status \in {"pending_manager", "pending_hr"} /\ leave[r].applied = FALSE
      /\ leave[r].status = "pending_manager" => ~NeedsHR[leave[r].of]
  <2>1. leave[r].applied \in BOOLEAN
    BY <1>3 DEF Holidays!LeaveRow
  <2> QED BY <1>1, <1>3, <2>1 DEF Holidays!LastStep, LeaveRowOK
<1>6. PICK row : row = [leave[r] EXCEPT !.status = "approved", !.applied = TRUE]
  OBVIOUS
<1>7. /\ row \in Holidays!LeaveRow /\ row.status = "approved" /\ row.days = leave[r].days
      /\ row.applied = TRUE /\ row.of = leave[r].of /\ row.range = leave[r].range
  BY <1>3, <1>6, Statuses DEF Holidays!LeaveRow
<1>8. leave' = [leave EXCEPT ![r] = row] /\ leave'[r] = row
  BY <1>2, <1>6 DEF Holidays!Finalise, LeaveInv, LeaveTyped, Holidays!LeaveTypeOK
<1>9. steps' = Holidays!Recorded(r, f, "approved")
  BY <1>2, <1>3, <1>4 DEF Holidays!Finalise
<1>10. /\ \A q \in Request \ {r} : steps'[q] = steps[q]
       /\ steps'[r].manager = IF f THEN "approved" ELSE steps[r].manager
       /\ steps'[r].hr = IF f THEN steps[r].hr ELSE "approved"
  BY <1>9, RecordedSteps DEF LeaveInv
<1>11. LeaveRowOK(r)'
  BY <1>3, <1>4, <1>5, <1>7, <1>8, <1>10 DEF LeaveRowOK
<1>12. PICK x, b : x \in Entitlement /\ x = leave[r].of /\ b = Holidays!Debited(balance[x], leave[r].days)
  BY LeaveRows
<1>13. /\ balance' = [balance EXCEPT ![x] = b] /\ month' = month /\ strayed' = strayed
       /\ Holidays!End(w) /\ balance[x].available >= leave[r].days
  BY <1>2, <1>3, <1>5, <1>12 DEF Holidays!Finalise
<1>14. /\ leave[r].days \in Nat /\ balance[x].pending \in Nat /\ balance[x].taken \in Nat
       /\ balance[x].available \in Int /\ balance[x] \in Holidays!BalanceRow
  BY <1>12, LeaveRows
<1>15. /\ b \in Holidays!BalanceRow /\ SameGrants(balance[x], b)
       /\ b.pending = Holidays!Positive(balance[x].pending - leave[r].days)
       /\ b.taken = balance[x].taken + leave[r].days
       /\ b.available = balance[x].available - leave[r].days
  <2>1. PICK old, d : old = balance[x] /\ d = leave[r].days
    OBVIOUS
  <2>2. old \in Holidays!BalanceRow /\ d \in Nat /\ b = Holidays!Debited(old, d)
    BY <1>12, <1>14, <2>1
  <2> QED BY <2>1, <2>2, DebitedIs
<1>16. /\ Asked(leave[r], x, Holidays!Waiting) = leave[r].days /\ Asked(leave[r], x, {"approved"}) = 0
       /\ Asked(row, x, Holidays!Waiting) = 0 /\ Asked(row, x, {"approved"}) = leave[r].days
  BY <1>3, <1>5, <1>7, <1>12 DEF Asked, Holidays!Waiting
<1>17. ASSUME x \notin strayed
       PROVE  /\ b.pending = balance[x].pending - Asked(leave[r], x, Holidays!Waiting)
                                                + Asked(row, x, Holidays!Waiting)
              /\ b.taken = balance[x].taken - Asked(leave[r], x, {"approved"}) + Asked(row, x, {"approved"})
              /\ b.available = balance[x].available + balance[x].taken - b.taken
              /\ b.pending <= b.available /\ row.days = Working[row.range]
  <2>1. /\ leave[r].days <= balance[x].pending /\ balance[x].pending <= balance[x].available
        /\ leave[r].days = Working[leave[r].range]
    BY <1>5, <1>12, <1>16, <1>17, LeaveBalance DEF Holidays!Blocking, Holidays!Waiting
  <2>2. Holidays!Positive(balance[x].pending - leave[r].days) = balance[x].pending - leave[r].days
    BY <1>14, <2>1, PositiveIsNat
  <2> QED BY ONLY <1>7, <1>14, <1>15, <1>16, <2>1, <2>2
<1>18. LeaveSums'
  BY <1>7, <1>8, <1>12, <1>13, <1>15, <1>17, SumsMove
<1> QED BY <1>1, <1>2, <1>8, <1>10, <1>11, <1>13, <1>18, LeaveEnds DEF LeaveVerb

LEMMA RejectStep ==
  ASSUME LeaveInv, LeaveTyped', NEW w \in Worker, Holidays!Reject(w)
  PROVE  LeaveInv'
<1>1. desk[w].verb = "reject" /\ "rejected" \in Holidays!Allowed[desk[w].seen.status]
  BY DEF Holidays!Reject, Holidays!Serves
<1>2. PICK r \in Request : r = desk[w].doc
  BY <1>1, LeaveFacts DEF LeaveVerb
<1>3. /\ desk[w].seen = leave[r] /\ leave[r] \in Holidays!LeaveRow /\ LeaveRowOK(r)
      /\ steps[r] \in Holidays!StepRow
  BY <1>1, <1>2, LeaveFacts DEF LeaveVerb
<1>4. PICK f \in BOOLEAN : f = (leave[r].status # "pending_hr")
  OBVIOUS
<1>5. leave[r].status \in {"pending_manager", "pending_hr"} /\ leave[r].applied = FALSE
  <2>1. leave[r].applied \in BOOLEAN /\ leave[r].status \in DOMAIN Holidays!Allowed
    BY <1>3 DEF Holidays!LeaveRow
  <2> QED BY <1>1, <1>3, <2>1, LeaveVerbs DEF LeaveRowOK
<1>6. PICK row : row = [leave[r] EXCEPT !.status = "rejected"]
  OBVIOUS
<1>7. /\ row \in Holidays!LeaveRow /\ row.status = "rejected" /\ row.days = leave[r].days
      /\ row.applied = FALSE /\ row.of = leave[r].of
  BY <1>3, <1>5, <1>6, Statuses DEF Holidays!LeaveRow
<1>8. leave' = [leave EXCEPT ![r] = row] /\ leave'[r] = row
  BY <1>2, <1>6 DEF Holidays!Reject, LeaveInv, LeaveTyped, Holidays!LeaveTypeOK
<1>9. steps' = Holidays!Recorded(r, f, "rejected")
  BY <1>2, <1>3, <1>4 DEF Holidays!Reject
<1>10. /\ \A q \in Request \ {r} : steps'[q] = steps[q]
       /\ steps'[r].manager = IF f THEN "rejected" ELSE steps[r].manager
       /\ steps'[r].hr = IF f THEN steps[r].hr ELSE "rejected"
  BY <1>9, RecordedSteps DEF LeaveInv
<1>11. LeaveRowOK(r)'
  BY <1>3, <1>4, <1>5, <1>7, <1>8, <1>10 DEF LeaveRowOK
<1>12. PICK x, b : x \in Entitlement /\ x = leave[r].of /\ b = Holidays!Released(balance[x], leave[r].days)
  BY LeaveRows
<1>13. /\ balance' = [balance EXCEPT ![x] = b] /\ month' = month /\ strayed' = strayed
       /\ Holidays!End(w)
  BY <1>2, <1>3, <1>5, <1>12 DEF Holidays!Reject
<1>14. /\ leave[r].days \in Nat /\ balance[x].pending \in Nat /\ balance[x].taken \in Nat
       /\ balance[x].available \in Int /\ balance[x] \in Holidays!BalanceRow
  BY <1>12, LeaveRows
<1>15. /\ b \in Holidays!BalanceRow /\ SameGrants(balance[x], b)
       /\ b.pending = Holidays!Positive(balance[x].pending - leave[r].days)
       /\ b.taken = balance[x].taken /\ b.available = balance[x].available
  <2>1. PICK old, d : old = balance[x] /\ d = leave[r].days
    OBVIOUS
  <2>2. old \in Holidays!BalanceRow /\ d \in Nat /\ b = Holidays!Released(old, d)
    BY <1>12, <1>14, <2>1
  <2> QED BY <2>1, <2>2, ReleasedIs
<1>16. /\ Asked(leave[r], x, Holidays!Waiting) = leave[r].days /\ Asked(leave[r], x, {"approved"}) = 0
       /\ Asked(row, x, Holidays!Waiting) = 0 /\ Asked(row, x, {"approved"}) = 0
  BY <1>3, <1>5, <1>7, <1>12 DEF Asked, Holidays!Waiting
<1>17. ASSUME x \notin strayed
       PROVE  /\ b.pending = balance[x].pending - Asked(leave[r], x, Holidays!Waiting)
                                                + Asked(row, x, Holidays!Waiting)
              /\ b.taken = balance[x].taken - Asked(leave[r], x, {"approved"}) + Asked(row, x, {"approved"})
              /\ b.available = balance[x].available + balance[x].taken - b.taken
              /\ b.pending <= b.available
  <2>1. leave[r].days <= balance[x].pending /\ balance[x].pending <= balance[x].available
    BY <1>12, <1>16, <1>17, LeaveBalance
  <2>2. Holidays!Positive(balance[x].pending - leave[r].days) = balance[x].pending - leave[r].days
    BY <1>14, <2>1, PositiveIsNat
  <2> QED BY ONLY <1>14, <1>15, <1>16, <2>1, <2>2
<1>18. LeaveSums'
  <2>1. row.status \notin Holidays!Blocking
    BY <1>7 DEF Holidays!Blocking, Holidays!Waiting
  <2> QED BY <1>7, <1>8, <1>12, <1>13, <1>15, <1>17, <2>1, SumsMove
<1> QED BY <1>1, <1>2, <1>8, <1>10, <1>11, <1>13, <1>18, LeaveEnds DEF LeaveVerb

LEMMA CancelStep ==
  ASSUME LeaveInv, LeaveTyped', NEW w \in Worker, Holidays!Cancel(w)
  PROVE  LeaveInv'
<1>1. desk[w].verb = "cancel" /\ "cancelled" \in Holidays!Allowed[desk[w].seen.status]
  BY DEF Holidays!Cancel, Holidays!Serves
<1>2. PICK r \in Request : r = desk[w].doc
  BY <1>1, LeaveFacts DEF LeaveVerb
<1>3. /\ desk[w].seen = leave[r] /\ leave[r] \in Holidays!LeaveRow /\ LeaveRowOK(r)
  BY <1>1, <1>2, LeaveFacts DEF LeaveVerb
<1>4. PICK s \in DOMAIN Holidays!Allowed : s = leave[r].status
  BY <1>3 DEF Holidays!LeaveRow
<1>5. s \in {"draft", "pending_manager", "pending_hr", "approved"} /\ (leave[r].applied <=> s = "approved")
  BY <1>1, <1>3, <1>4, LeaveVerbs, Statuses DEF LeaveRowOK
<1>6. PICK row : row = [leave[r] EXCEPT !.status = "cancelled", !.applied = FALSE]
  OBVIOUS
<1>7. /\ row \in Holidays!LeaveRow /\ row.status = "cancelled" /\ row.days = leave[r].days
      /\ row.applied = FALSE /\ row.of = leave[r].of
  BY <1>3, <1>6, Statuses DEF Holidays!LeaveRow
<1>8. leave' = [leave EXCEPT ![r] = row] /\ leave'[r] = row /\ steps' = steps
  BY <1>2, <1>3, <1>6 DEF Holidays!Cancel, LeaveInv, LeaveTyped, Holidays!LeaveTypeOK
<1>9. LeaveRowOK(r)'
  BY <1>3, <1>4, <1>5, <1>7, <1>8 DEF LeaveRowOK
<1>10. PICK x, b : x \in Entitlement /\ x = leave[r].of /\ b = Holidays!Returned(balance[x], leave[r])
  BY LeaveRows
<1>11. /\ balance' = [balance EXCEPT ![x] = b] /\ month' = month /\ strayed' = strayed
       /\ Holidays!End(w)
  BY <1>2, <1>3, <1>10 DEF Holidays!Cancel
<1>12. /\ leave[r].days \in Nat /\ balance[x].pending \in Nat /\ balance[x].taken \in Nat
       /\ balance[x].available \in Int /\ balance[x] \in Holidays!BalanceRow
  BY <1>10, LeaveRows
<1>13. /\ Asked(leave[r], x, Holidays!Waiting) =
            (IF s \in {"pending_manager", "pending_hr"} THEN leave[r].days ELSE 0)
       /\ Asked(leave[r], x, {"approved"}) = (IF s = "approved" THEN leave[r].days ELSE 0)
       /\ Asked(row, x, Holidays!Waiting) = 0 /\ Asked(row, x, {"approved"}) = 0
  BY <1>4, <1>5, <1>7, <1>10 DEF Asked, Holidays!Waiting
<1>14. x \notin strayed =>
         /\ balance[x].pending <= balance[x].available
         /\ s \in {"pending_manager", "pending_hr"} => leave[r].days <= balance[x].pending
         /\ s = "approved" => leave[r].days <= balance[x].taken
  BY <1>10, <1>13, LeaveBalance
<1>15. /\ b \in Holidays!BalanceRow /\ SameGrants(balance[x], b)
       /\ x \notin strayed =>
            /\ b.pending = balance[x].pending - Asked(leave[r], x, Holidays!Waiting)
                                              + Asked(row, x, Holidays!Waiting)
            /\ b.taken = balance[x].taken - Asked(leave[r], x, {"approved"}) + Asked(row, x, {"approved"})
            /\ b.available = balance[x].available + balance[x].taken - b.taken
            /\ b.pending <= b.available
  <2>1. CASE s = "approved"
    <3>1. /\ b \in Holidays!BalanceRow /\ SameGrants(balance[x], b)
          /\ b.pending = balance[x].pending
          /\ b.taken = Holidays!Positive(balance[x].taken - leave[r].days)
          /\ b.available = balance[x].available + leave[r].days
      BY <1>3, <1>5, <1>10, <1>12, <2>1, ReturnedIs
    <3>2. x \notin strayed =>
            Holidays!Positive(balance[x].taken - leave[r].days) = balance[x].taken - leave[r].days
      BY <1>12, <1>14, <2>1, PositiveIsNat
    <3> QED BY ONLY <1>12, <1>13, <1>14, <2>1, <3>1, <3>2
  <2>2. CASE s \in {"pending_manager", "pending_hr"}
    <3>1. b = Holidays!Released(balance[x], leave[r].days)
      BY <1>4, <1>5, <1>10, <2>2 DEF Holidays!Returned, Holidays!Owing, Holidays!Blocking, Holidays!Waiting
    <3>2. /\ b \in Holidays!BalanceRow /\ SameGrants(balance[x], b)
          /\ b.pending = Holidays!Positive(balance[x].pending - leave[r].days)
          /\ b.taken = balance[x].taken /\ b.available = balance[x].available
      <4>1. PICK old, d : old = balance[x] /\ d = leave[r].days
        OBVIOUS
      <4>2. old \in Holidays!BalanceRow /\ d \in Nat /\ b = Holidays!Released(old, d)
        BY <1>12, <3>1, <4>1
      <4> QED BY <4>1, <4>2, ReleasedIs
    <3>3. x \notin strayed =>
            Holidays!Positive(balance[x].pending - leave[r].days) = balance[x].pending - leave[r].days
      BY <1>12, <1>14, <2>2, PositiveIsNat
    <3> QED BY ONLY <1>12, <1>13, <1>14, <2>2, <3>2, <3>3
  <2>3. CASE s = "draft"
    <3>1. b = balance[x]
      BY <1>4, <1>5, <1>10, <2>3 DEF Holidays!Returned, Holidays!Owing, Holidays!Blocking, Holidays!Waiting
    <3> QED BY <1>12, <1>13, <1>14, <2>3, <3>1 DEF SameGrants
  <2> QED BY <1>5, <2>1, <2>2, <2>3
<1>16. LeaveSums'
  <2>1. row.status \notin Holidays!Blocking
    BY <1>7 DEF Holidays!Blocking, Holidays!Waiting
  <2> QED BY <1>7, <1>8, <1>10, <1>11, <1>15, <2>1, SumsMove
<1> QED BY <1>1, <1>2, <1>8, <1>9, <1>11, <1>16, LeaveEnds DEF LeaveVerb

(* An edited request: a balance that it leaves, joins or asks other days   *)
(* of is parted from its requests; what it asks of the others is the same. *)
LEMMA EditStep ==
  ASSUME LeaveInv, LeaveTyped', NEW w \in Worker, Holidays!Edit(w)
  PROVE  LeaveInv'
<1>1. desk[w].verb = "edit"
  BY DEF Holidays!Edit, Holidays!Serves
<1>2. PICK r \in Request : r = desk[w].doc
  BY <1>1, LeaveFacts DEF LeaveVerb
<1>3. /\ desk[w].seen = leave[r] /\ leave[r] \in Holidays!LeaveRow /\ LeaveRowOK(r)
  BY <1>1, <1>2, LeaveFacts DEF LeaveVerb
<1>4. PICK x \in Entitlement, g \in Dates :
        /\ leave' = [leave EXCEPT ![r] = [leave[r] EXCEPT !.of = x, !.range = g]]
        /\ strayed' = strayed \cup Holidays!Parted(leave[r], [leave[r] EXCEPT !.of = x, !.range = g])
  BY <1>2, <1>3 DEF Holidays!Edit
<1>5. PICK row : row = [leave[r] EXCEPT !.of = x, !.range = g]
  OBVIOUS
<1>6. /\ row \in Holidays!LeaveRow /\ row.status = leave[r].status /\ row.days = leave[r].days
      /\ row.applied = leave[r].applied /\ row.of = x
  BY <1>3, <1>5 DEF Holidays!LeaveRow
<1>7. leave' = [leave EXCEPT ![r] = row] /\ leave'[r] = row
  BY <1>4, <1>5 DEF LeaveInv, LeaveTyped, Holidays!LeaveTypeOK
<1>8. /\ steps' = steps /\ balance' = balance /\ month' = month /\ Holidays!End(w)
  BY DEF Holidays!Edit
<1>9. strayed' = strayed \cup Holidays!Parted(leave[r], row)
  BY <1>4, <1>5
<1>10. LeaveRowOK(r)'
  <2>1. leave[r].status = "approved" /\ leave[r].of # x => x \in strayed'
    BY <1>6, <1>9 DEF Holidays!Parted, Holidays!Blocking
  <2> QED BY <1>3, <1>6, <1>7, <1>8, <1>9, <2>1 DEF LeaveRowOK
<1>11. ASSUME NEW a \in Entitlement \ strayed' PROVE BalanceOK(a)'
  <2>1. BalanceOK(a) /\ LeaveTyped /\ balance[a] \in Holidays!BalanceRow
    BY <1>9 DEF LeaveInv, LeaveSums, LeaveTyped, Holidays!LeaveTypeOK
  <2>2. leave[r].status \in Holidays!Blocking /\ leave[r].of # x => a # leave[r].of /\ a # x
    BY <1>6, <1>9 DEF Holidays!Parted
  <2>3. Asked(row, a, Holidays!Waiting) = Asked(leave[r], a, Holidays!Waiting)
    BY <1>6, <2>2 DEF Asked, Holidays!Blocking
  <2>4. Asked(row, a, {"approved"}) = Asked(leave[r], a, {"approved"})
    BY <1>6, <2>2 DEF Asked, Holidays!Blocking
  <2>5. row.of = a /\ row.status \in Holidays!Blocking => row.days = Working[row.range]
    BY <1>6, <1>9 DEF Holidays!Parted
  <2>6. Asked(leave[r], a, Holidays!Waiting) \in Nat /\ Asked(leave[r], a, {"approved"}) \in Nat
    BY <2>1, DaysHeld
  <2>7. /\ balance[a].pending \in Nat /\ balance[a].taken \in Nat /\ balance[a].available \in Int
        /\ balance[a].pending <= balance[a].available /\ balance'[a] = balance[a]
    BY <1>8, <2>1, BalanceFields DEF BalanceOK
  <2>8. /\ balance'[a].pending = balance[a].pending - Asked(leave[r], a, Holidays!Waiting)
                                                    + Asked(row, a, Holidays!Waiting)
        /\ balance'[a].taken = balance[a].taken - Asked(leave[r], a, {"approved"})
                                                + Asked(row, a, {"approved"})
        /\ balance'[a].available = balance[a].available + balance[a].taken - balance'[a].taken
        /\ balance'[a].pending <= balance'[a].available
    BY ONLY <2>3, <2>4, <2>6, <2>7
  <2>9. SameGrants(balance[a], balance'[a])
    BY <2>7 DEF SameGrants
  <2> QED BY <1>6, <1>7, <1>8, <2>1, <2>5, <2>8, <2>9, OneMoves
<1>12. LeaveSums' /\ strayed \subseteq strayed'
  BY <1>9, <1>11 DEF LeaveSums
<1> QED BY <1>1, <1>2, <1>7, <1>8, <1>10, <1>12, LeaveEnds DEF LeaveVerb

-----------------------------------------------------------------------------
(* The balances alone.                                                     *)

(* What a balance that adds up keeps when its days stay.                   *)
LEMMA BalanceStays ==
  ASSUME LeaveInv, NEW a \in Entitlement \ strayed, NEW b, b.pending = balance[a].pending,
         b.taken = balance[a].taken, b.available = balance[a].available, SameGrants(balance[a], b)
  PROVE  /\ b.pending = balance[a].pending /\ b.taken = balance[a].taken
         /\ b.available - b.accrued = balance[a].available - balance[a].accrued
         /\ b.available >= balance[a].available /\ b.accruedIn <= month
         /\ b.accrued <= Rate[a] * b.accruedIn
<1>1. balance[a] \in Holidays!BalanceRow
  BY DEF LeaveInv, LeaveTyped, Holidays!LeaveTypeOK
<1>2. balance[a].available \in Int
  BY <1>1, BalanceFields
<1>3. balance[a].accruedIn <= month /\ balance[a].accrued <= Rate[a] * balance[a].accruedIn
  BY DEF LeaveInv, LeaveSums, BalanceOK
<1> QED BY <1>2, <1>3 DEF SameGrants

(* A PATCH of a balance, which is what it read: another account's name     *)
(* parts both from their requests, another month the one from its grants.  *)
LEMMA AdjustStep ==
  ASSUME LeaveInv, LeaveTyped', NEW w \in Worker, Holidays!Adjust(w)
  PROVE  LeaveInv'
<1>1. PICK a \in Entitlement, k \in Holidays!BalanceRow : a = desk[w].doc /\ k = desk[w].seen
  BY LeaveServes DEF Holidays!Adjust, Holidays!Serves, LeaveInv
<1>2. desk[w].verb = "adjust" /\ k = balance[a] /\ Holidays!End(w)
  BY <1>1 DEF Holidays!Adjust, Holidays!Serves, LeaveInv, LeaveTold
<1>3. PICK n \in Adjustment, m \in 0..month, b \in Entitlement :
        /\ balance' = [balance EXCEPT ![a] = Holidays!NoBalance,
                                      ![b] = [k EXCEPT !.adjusted = n, !.accruedIn = m]]
        /\ strayed' = strayed \cup (IF b = a THEN {} ELSE {a, b}) \cup Holidays!Dated(b, k, m)
  BY <1>1 DEF Holidays!Adjust
<1>4. PICK row : row = [k EXCEPT !.adjusted = n, !.accruedIn = m]
  OBVIOUS
<1>5. /\ row.pending = k.pending /\ row.taken = k.taken /\ row.available = k.available
      /\ m = k.accruedIn => SameGrants(k, row)
  BY <1>4 DEF Holidays!BalanceRow, SameGrants
<1>6. UNCHANGED <<leave, steps, month>> /\ balance \in [Entitlement -> Holidays!BalanceRow]
  BY DEF Holidays!Adjust, LeaveInv, LeaveTyped, Holidays!LeaveTypeOK
<1>7. \A v \in Worker : desk'[v] = IF v = w THEN Holidays!Idle ELSE desk[v]
  BY <1>2 DEF LeaveInv, LeaveTyped, Holidays!End
<1>8. LeaveApart'
  BY <1>7, LeaveIdle DEF LeaveInv, LeaveApart
<1>9. \A v \in Worker : desk'[v].verb = "idle"
  BY <1>2, <1>7, LeaveIdle DEF LeaveInv, LeaveApart
<1>10. \A v \in Worker : LeaveTold(v)'
  BY <1>9 DEF LeaveTold, LeaveVerb
<1>11. ASSUME NEW c \in Entitlement \ strayed'
       PROVE  /\ balance'[c].pending = balance[c].pending /\ balance'[c].taken = balance[c].taken
              /\ balance'[c].available = balance[c].available /\ SameGrants(balance[c], balance'[c])
  <2>1. CASE c = b
    <3>1. b = a /\ m = k.accruedIn
      BY <1>3, <2>1 DEF Holidays!Dated
    <3>2. balance'[c] = row
      BY <1>3, <1>4, <1>6, <2>1
    <3> QED BY <1>2, <1>5, <2>1, <3>1, <3>2
  <2>2. CASE c # b
    <3>1. c # a
      BY <1>3, <2>2
    <3>2. balance'[c] = balance[c]
      BY <1>3, <1>6, <2>2, <3>1
    <3> QED BY <3>2 DEF SameGrants
  <2> QED BY <2>1, <2>2
<1>12. strayed \subseteq strayed'
  BY <1>3
<1> QED BY <1>6, <1>8, <1>10, <1>11, <1>12, BalanceStays, BalancesMove

(* A balance that is opened by hand has no days.                           *)
LEMMA OpenStep ==
  ASSUME LeaveInv, LeaveTyped', Holidays!Open
  PROVE  LeaveInv'
<1>1. PICK a \in Entitlement, n \in Adjustment, m \in 0..month :
        /\ ~balance[a].there
        /\ balance' = [balance EXCEPT ![a].there = TRUE, ![a].adjusted = n, ![a].accruedIn = m]
        /\ strayed' = strayed \cup Holidays!Dated(a, balance[a], m)
  BY DEF Holidays!Open
<1>2. UNCHANGED <<leave, steps, month, desk>> /\ balance \in [Entitlement -> Holidays!BalanceRow]
  BY DEF Holidays!Open, LeaveInv, LeaveTyped, Holidays!LeaveTypeOK
<1>3. \A c \in Entitlement : c # a => balance'[c] = balance[c]
  BY <1>1, <1>2
<1>4. balance'[a] = [balance[a] EXCEPT !.there = TRUE, !.adjusted = n, !.accruedIn = m]
  BY <1>1, <1>2
<1>8. strayed \subseteq strayed' /\ (a \notin strayed' => m = balance[a].accruedIn)
  BY <1>1 DEF Holidays!Dated
<1>5. ASSUME NEW c \in Entitlement \ strayed'
      PROVE  /\ balance'[c].pending = balance[c].pending /\ balance'[c].taken = balance[c].taken
             /\ balance'[c].available = balance[c].available /\ SameGrants(balance[c], balance'[c])
  <2>1. PICK k \in Holidays!BalanceRow : k = balance[c]
    BY <1>2
  <2>2. CASE c = a
    <3>1. balance'[c] = [k EXCEPT !.there = TRUE, !.adjusted = n, !.accruedIn = m] /\ m = k.accruedIn
      BY <1>4, <1>8, <2>1, <2>2
    <3> QED BY ONLY <2>1, <3>1 DEF SameGrants, Holidays!BalanceRow
  <2>3. CASE c # a
    BY <1>3, <2>3 DEF SameGrants
  <2> QED BY <2>2, <2>3
<1>6. LeaveApart'
  BY <1>2 DEF LeaveInv, LeaveApart
<1>7. ASSUME NEW v \in Worker PROVE LeaveTold(v)'
  <2>1. CASE desk[v].verb = "adjust"
    <3>1. desk[v].doc \in Entitlement /\ desk[v].seen = balance[desk[v].doc] /\ balance[desk[v].doc].there
      BY <2>1, LeaveServes DEF LeaveInv, LeaveTold
    <3>2. balance'[desk[v].doc] = balance[desk[v].doc]
      BY <1>1, <1>3, <3>1
    <3> QED BY <1>2, <2>1, <3>1, <3>2 DEF LeaveTold, LeaveVerb
  <2>2. CASE desk[v].verb # "adjust"
    BY <1>2, <2>2 DEF LeaveInv, LeaveTold
  <2> QED BY <2>1, <2>2
<1> QED BY <1>2, <1>5, <1>6, <1>7, <1>8, BalanceStays, BalancesMove

(* A month more is no less.                                                *)
LEMMA OneMonthMore ==
  \A rate, k, n, a, g \in Nat : k < n /\ a <= rate * k /\ g <= rate => a + g <= rate * n
<1> SUFFICES ASSUME NEW rate \in Nat, NEW k \in Nat, NEW n \in Nat, NEW a \in Nat, NEW g \in Nat,
                    k < n, a <= rate * k, g <= rate
             PROVE  a + g <= rate * n
  OBVIOUS
<1>1. PICK d \in Nat : n = k + 1 + d
  <2>1. n - k - 1 \in Nat /\ n = k + 1 + (n - k - 1)
    OBVIOUS
  <2> QED BY <2>1
<1>2. rate * d \in Nat /\ rate * k \in Nat
  OBVIOUS
<1>3. rate * n = rate * k + rate + rate * d
  BY <1>1
<1> QED BY <1>2, <1>3

LEMMA AccrueStep ==
  ASSUME LeaveInv, LeaveTyped', OneOfficer = TRUE, Holidays!Unread, Holidays!Accrue
  PROVE  LeaveInv'
<1>1. balance \in [Entitlement -> Holidays!BalanceRow] /\ month \in Nat
  BY LeaveSizes DEF LeaveInv, LeaveTyped, Holidays!LeaveTypeOK
<1>2. /\ UNCHANGED <<leave, steps, strayed, month, desk>>
      /\ \A a \in Entitlement : balance'[a] = IF Holidays!Due(a) THEN Holidays!Granted(a) ELSE balance[a]
  BY DEF Holidays!Accrue
<1>3. ASSUME NEW a \in Entitlement \ strayed'
      PROVE  /\ balance'[a].pending = balance[a].pending /\ balance'[a].taken = balance[a].taken
             /\ balance'[a].available - balance'[a].accrued = balance[a].available - balance[a].accrued
             /\ balance'[a].available >= balance[a].available
             /\ balance'[a].accruedIn <= month'
             /\ balance'[a].accrued <= Rate[a] * balance'[a].accruedIn
  <2>1. CASE ~Holidays!Due(a)
    <3>1. balance'[a] = balance[a]
      BY <1>2, <2>1
    <3>2. SameGrants(balance[a], balance'[a])
      BY <3>1 DEF SameGrants
    <3> QED BY <1>2, <3>1, <3>2, BalanceStays
  <2>2. CASE Holidays!Due(a)
    <3>1. balance[a] \in Holidays!BalanceRow /\ Rate[a] \in Nat
      BY <1>1, LeaveSizes
    <3>2. PICK g \in Nat :
            /\ g <= Rate[a] /\ balance'[a].accrued = balance[a].accrued + g
            /\ balance'[a].available = balance[a].available + g
            /\ balance'[a].pending = balance[a].pending /\ balance'[a].taken = balance[a].taken
            /\ balance'[a].accruedIn = month
      BY <1>1, <1>2, <2>2, <3>1, GrantedIs
    <3>3. balance[a].accruedIn \in Nat /\ balance[a].accrued \in Nat /\ balance[a].available \in Int
      BY <3>1, BalanceFields
    <3>4. balance[a].accruedIn < month /\ balance[a].accrued <= Rate[a] * balance[a].accruedIn
      BY <1>2, <2>2 DEF Holidays!Due, LeaveInv, LeaveSums, BalanceOK
    <3>5. balance[a].accrued + g <= Rate[a] * month
      BY <1>1, <3>1, <3>2, <3>3, <3>4, OneMonthMore
    <3> QED BY <1>1, <1>2, <3>2, <3>3, <3>5
  <2> QED BY <2>1, <2>2
<1>4. LeaveApart'
  BY <1>2 DEF LeaveInv, LeaveApart
<1>5. \A w \in Worker : LeaveTold(w)'
  BY <1>2 DEF LeaveInv, LeaveTold, Holidays!Unread
<1> QED BY <1>2, <1>3, <1>4, <1>5, BalancesMove

-----------------------------------------------------------------------------
LEMMA LeaveBegins == Holidays!Init => LeaveTyped /\ LeaveInv
<1> SUFFICES ASSUME Holidays!Init PROVE LeaveTyped /\ LeaveInv
  OBVIOUS
<1> USE DEF Holidays!Init
<1>1. \A r \in Request : /\ leave[r] \in Holidays!LeaveRow /\ leave[r].status = "draft"
                         /\ leave[r].applied = FALSE
  <2> TAKE r \in Request
  <2>1. PICK p \in InYear : leave[r] = [status |-> "draft", of |-> p[1], range |-> p[2], days |-> 1,
                                      applied |-> FALSE]
    OBVIOUS
  <2>2. PICK a \in Entitlement, g \in Dates : p[1] = a /\ p[2] = g
    BY LeaveConstants DEF Holidays!LeaveConstantsOK
  <2>3. leave[r] = [status |-> "draft", of |-> a, range |-> g, days |-> 1, applied |-> FALSE]
    BY <2>1, <2>2
  <2> QED BY ONLY <2>3, Statuses, a \in Entitlement, g \in Dates DEF Holidays!LeaveRow
<1>2. leave \in [Request -> Holidays!LeaveRow]
  BY <1>1
<1>3. steps \in [Request -> Holidays!StepRow]
      /\ \A r \in Request : steps[r].manager = "none" /\ steps[r].hr = "none"
  BY DEF Holidays!StepRow, Holidays!Decision
<1>4. ASSUME NEW a \in Entitlement
      PROVE  /\ balance[a] \in Holidays!BalanceRow /\ balance[a].pending = 0 /\ balance[a].taken = 0
             /\ balance[a].available = Opening[a] /\ balance[a].accrued = 0 /\ balance[a].accruedIn = 0
  <2>1. PICK n \in Nat : n = Opening[a]
    BY LeaveSizes
  <2>2. PICK t \in BOOLEAN : t = (Opening[a] > 0)
    <3>1. (Opening[a] > 0) \in BOOLEAN
      BY ONLY <2>1
    <3> QED BY ONLY <3>1
  <2>3. balance[a] = [Holidays!NoBalance EXCEPT !.there = t, !.available = n]
    BY <2>1, <2>2
  <2>4. balance[a] = [there |-> t, available |-> n, pending |-> 0, taken |-> 0, accrued |-> 0,
                      adjusted |-> 0, accruedIn |-> 0]
    BY <2>3 DEF Holidays!NoBalance
  <2> QED BY ONLY <2>1, <2>4, t \in BOOLEAN DEF Holidays!BalanceRow
<1>5. /\ desk \in [Worker -> LeaveTask]
      /\ \A w \in Worker : desk[w].verb = "idle" /\ desk[w].doc = None
  BY LeaveIdle
<1>6. balance \in [Entitlement -> Holidays!BalanceRow]
  BY <1>4
<1>7. LeaveTyped
  <2>1. strayed \subseteq Entitlement /\ begun \subseteq Dates /\ month \in 0..MaxMonth
    <3>1. strayed = {} /\ begun = {} /\ month = 0
      OBVIOUS
    <3>2. MaxMonth \in Nat
      BY LeaveSizes
    <3> QED BY ONLY <3>1, <3>2
  <2>2. \A w \in Worker : desk[w].doc \in Request \cup Entitlement \cup {None}
    BY <1>5
  <2> QED BY ONLY <1>2, <1>3, <1>5, <1>6, <2>1, <2>2 DEF LeaveTyped, Holidays!LeaveTypeOK
<1>8. \A a, S : "draft" \notin S => Holidays!DaysOf(a, S) = 0
  <2> SUFFICES ASSUME NEW a, NEW S, "draft" \notin S PROVE Holidays!DaysOf(a, S) = 0
    OBVIOUS
  <2> DEFINE f == [r \in Request |-> Asked(leave[r], a, S)]
  <2>1. \A r \in Request : f[r] = 0
    BY <1>1 DEF Asked
  <2>2. IsFiniteSet(Request)
    BY LeaveSizes
  <2>3. DaysIn(leave, a, S) = Total(f, Request)
    BY <1>2, DaysTotal
  <2> HIDE DEF f
  <2>4. Total(f, Request) = 0
    BY ONLY <2>1, <2>2, TotalZero
  <2> QED BY <2>3, <2>4, DaysAreSums
<1>9. \A a : Holidays!DaysOf(a, Holidays!Waiting) = 0 /\ Holidays!DaysOf(a, {"approved"}) = 0
  BY <1>8 DEF Holidays!Waiting
<1>10. ASSUME NEW a \in Entitlement PROVE BalanceOK(a)
  <2>1. Opening[a] \in Nat /\ Rate[a] \in Nat
    BY LeaveSizes
  <2>2. Holidays!AddsUp(a)
    <3>1. \A r \in Request : leave[r].status \notin Holidays!Blocking
      BY <1>1 DEF Holidays!Blocking, Holidays!Waiting
    <3>2. balance[a].available = Opening[a] + balance[a].accrued - balance[a].taken
      BY ONLY <1>4, <2>1
    <3> QED BY ONLY <1>4, <1>9, <3>1, <3>2 DEF Holidays!AddsUp
  <2>3. Rate[a] * 0 = 0 /\ month = 0
    <3>1. PICK n \in Nat : n = Rate[a]
      BY <2>1
    <3>2. n * 0 = 0
      BY ONLY n \in Nat
    <3>3. month = 0
      OBVIOUS
    <3> QED BY <3>1, <3>2, <3>3
  <2> QED BY ONLY <1>4, <2>1, <2>2, <2>3 DEF BalanceOK
<1>11. \A r \in Request : LeaveRowOK(r)
  BY <1>1, <1>3 DEF LeaveRowOK
<1>12. LeaveApart /\ \A w \in Worker : LeaveTold(w)
  BY <1>5 DEF LeaveApart, LeaveTold, LeaveVerb
<1>13. LeaveSums
  BY <1>10 DEF LeaveSums
<1> QED BY <1>7, <1>11, <1>12, <1>13 DEF LeaveInv

LEMMA LeaveStep ==
  ASSUME OneOfficer = TRUE, LeaveInv, [Holidays!Next]_leaveVars
  PROVE  LeaveInv'
<1>1. LeaveTyped'
  BY LeaveTypedStep DEF LeaveInv
<1>2. ASSUME NEW w \in Worker, Holidays!Serve(w) PROVE LeaveInv'
  <2>1. CASE \/ \E verb \in LeaveVerb, r \in Request : Holidays!Unread /\ Holidays!Read(w, verb, r)
             \/ \E a \in Entitlement : Holidays!ReadBalance(w, a)
             \/ Holidays!CheckSubmit(w) \/ Holidays!GiveUp(w)
    BY <1>1, <2>1, LeaveReads
  <2>2. CASE Holidays!Submit(w)
    BY <1>1, <2>2, SubmitStep
  <2>3. CASE Holidays!ApproveManager(w)
    BY <1>1, <2>3, ApproveManagerStep
  <2>4. CASE Holidays!Finalise(w)
    BY <1>1, <2>4, FinaliseStep
  <2>5. CASE Holidays!Reject(w)
    BY <1>1, <2>5, RejectStep
  <2>6. CASE Holidays!Cancel(w)
    BY <1>1, <2>6, CancelStep
  <2>7. CASE Holidays!Edit(w)
    BY <1>1, <2>7, EditStep
  <2>8. CASE Holidays!Adjust(w)
    BY <1>1, <2>8, AdjustStep
  <2> QED BY <1>2, <2>1, <2>2, <2>3, <2>4, <2>5, <2>6, <2>7, <2>8 DEF Holidays!Serve, LeaveVerb
<1>3. CASE Holidays!Unread /\ Holidays!Accrue
  BY <1>1, <1>3, AccrueStep
<1>4. ASSUME UNCHANGED <<leave, steps, balance, strayed, desk>>, month <= month' PROVE LeaveInv'
  <2>1. LeaveApart'
    BY <1>4 DEF LeaveInv, LeaveApart
  <2>2. \A w \in Worker : LeaveTold(w)'
    BY <1>4 DEF LeaveInv, LeaveTold
  <2> QED BY <1>1, <1>4, <2>1, <2>2, LeaveQuiet
<1>5. month \in Nat
  BY LeaveSizes DEF LeaveInv, LeaveTyped, Holidays!LeaveTypeOK
<1>6. CASE Holidays!NextMonth
  BY <1>4, <1>5, <1>6 DEF Holidays!NextMonth
<1>7. CASE \E g \in Dates : Holidays!Begins(g)
  BY <1>4, <1>5, <1>7 DEF Holidays!Begins
<1>8. CASE UNCHANGED leaveVars
  BY <1>4, <1>5, <1>8 DEF leaveVars
<1>9. CASE Holidays!Open
  BY <1>1, <1>9, OpenStep
<1> QED BY <1>2, <1>3, <1>6, <1>7, <1>8, <1>9 DEF Holidays!Next

LEMMA LeaveFollows ==
  ASSUME LeaveInv
  PROVE  /\ Holidays!BalanceIsItsRequests /\ Holidays!HeldWithinAvailable
         /\ Holidays!GrantedOnceAMonth /\ Holidays!StepsTellTheStatus
<1>1. Holidays!BalanceIsItsRequests /\ Holidays!HeldWithinAvailable
  BY DEF LeaveInv, LeaveSums, BalanceOK, Holidays!Kept, Holidays!BalanceIsItsRequests,
         Holidays!HeldWithinAvailable
<1>2. ASSUME NEW a \in Entitlement \ strayed PROVE balance[a].accrued <= Rate[a] * month
  <2>1. balance[a] \in Holidays!BalanceRow /\ month \in Nat /\ Rate[a] \in Nat
    BY LeaveSizes DEF LeaveInv, LeaveTyped, Holidays!LeaveTypeOK
  <2>2. PICK n \in Nat, k \in Nat, rate \in Nat :
          n = balance[a].accruedIn /\ k = balance[a].accrued /\ rate = Rate[a]
    BY <2>1, BalanceFields
  <2>3. n <= month /\ k <= rate * n
    BY <2>2 DEF LeaveInv, LeaveSums, BalanceOK
  <2>4. PICK d \in Nat : month = n + d
    <3>1. month - n \in Nat /\ month = n + (month - n)
      BY <2>1, <2>3
    <3> QED BY <3>1
  <2>5. rate * d \in Nat /\ rate * n \in Nat /\ rate * month = rate * n + rate * d
    BY <2>4
  <2> QED BY <2>2, <2>3, <2>5
<1>3. Holidays!GrantedOnceAMonth
  BY <1>2 DEF Holidays!GrantedOnceAMonth, Holidays!Kept
<1>4. Holidays!StepsTellTheStatus
  <2>1. ASSUME NEW r \in Request PROVE LeaveRowOK(r) /\ steps[r] \in Holidays!StepRow
    BY DEF LeaveInv, LeaveTyped, Holidays!LeaveTypeOK
  <2> QED BY <2>1 DEF LeaveRowOK, Holidays!StepsTellTheStatus, Holidays!StepRow, Holidays!Decision, Holidays!Kept
<1> QED BY <1>1, <1>3, <1>4

-----------------------------------------------------------------------------
(* Personnel.                                                              *)
(* What a desk holds of the record or the day that it edits.               *)
DeskOK(t) ==
  /\ t.verb \in {"idle", "person", "day"}
  /\ t.verb = "person" => t.who \in Employee /\ t.seen \in Crew!EmployeeRow
  /\ t.verb = "day" => /\ t.who \in Employee /\ t.on \in Crew!Days
                       /\ t.seen \in Crew!DayRow /\ Crew!InOrder(t.seen)

DayOK(row) == row # None => row \in Crew!DayRow /\ Crew!InOrder(row)

StaffTyped ==
  /\ person \in [Employee -> Crew!EmployeeRow]
  /\ revision \in [Employee -> [Crew!Days -> Crew!RevisionRow \cup {None}]]
  /\ day \in [Employee -> [Crew!Days -> Crew!DayRow \cup {None}]]
  /\ \A e \in Employee : \A d \in Crew!Days : DayOK(day[e][d])
  /\ DOMAIN hr = Clerk /\ (\A w \in Clerk : DeskOK(hr[w]))
  /\ now \in Nat

LEMMA StaffSizes ==
  /\ IsFiniteSet(Employee) /\ Salaries \subseteq Nat /\ Outcomes \subseteq Crew!Statuses
  /\ Break \in Nat /\ LastDay \in Nat /\ DayLength \in Nat \ {0}
  /\ None \notin Employee /\ None \notin Nat /\ None \notin Crew!DayRow /\ None \notin Crew!RevisionRow
  /\ Typed \subseteq Nat \cup {None}
BY CrewConstants DEF Crew!StaffConstantsOK, Crew!IsFiniteSet, IsFiniteSet

LEMMA StaffTypedFollows == StaffTyped => Crew!StaffTypeOK
BY StaffSizes DEF StaffTyped, Crew!StaffTypeOK, DayOK

LEMMA Positive == \A n \in Int : Crew!P!AtLeastZero(n) \in Nat
BY DEF Crew!P!AtLeastZero

LEMMA WorkedIsNat ==
  ASSUME NEW row, row.in \in Nat \cup {None}, row.out \in Nat \cup {None}, row.shift \in BOOLEAN
  PROVE  Crew!Worked(row) \in Nat
<1>1. CASE None \in {row.in, row.out}
  BY <1>1 DEF Crew!Worked
<1>2. CASE None \notin {row.in, row.out}
  <2>1. row.out - row.in - (IF row.shift THEN Break ELSE 0) \in Int
    BY <1>2, StaffSizes
  <2> QED BY <1>2, <2>1, Positive DEF Crew!Worked
<1> QED BY <1>1, <1>2

LEMMA NewDays ==
  ASSUME NEW i \in Nat \cup {None}, NEW o \in Nat \cup {None}, NEW s \in Crew!Statuses, NEW b \in BOOLEAN
  PROVE  /\ Crew!NewDay(i, o, s, b) \in Crew!DayRow /\ Crew!NewDay(i, o, s, b).in = i
         /\ Crew!NewDay(i, o, s, b).out = o /\ Crew!NewDay(i, o, s, b).worked = 0
         /\ Crew!NewDay(i, o, s, b).closed = FALSE
BY DEF Crew!DayRow, Crew!NewDay

(* What an action does to the rows of one employee.                        *)
LEMMA PersonWritten ==
  ASSUME StaffTyped, NEW e \in Employee, NEW row \in Crew!EmployeeRow, person' = [person EXCEPT ![e] = row],
         UNCHANGED <<revision, day, now>>, DOMAIN hr' = Clerk, \A w \in Clerk : DeskOK(hr'[w])
  PROVE  StaffTyped'
<1>1. person' \in [Employee -> Crew!EmployeeRow]
  BY DEF StaffTyped
<1> QED BY <1>1 DEF StaffTyped, DayOK

(* What happens to one day.                                                *)
Becomes(e, d, row) ==
  \A x \in Employee, c \in Crew!Days : day'[x][c] = IF x = e /\ c = d THEN row ELSE day[x][c]

LEMMA DayWritten ==
  ASSUME StaffTyped, NEW e \in Employee, NEW d, NEW row \in Crew!DayRow, Crew!InOrder(row),
         day' = [day EXCEPT ![e][d] = row],
         UNCHANGED <<person, revision, now>>, DOMAIN hr' = Clerk, \A w \in Clerk : DeskOK(hr'[w])
  PROVE  StaffTyped' /\ Becomes(e, d, row)
<1>1. day \in [Employee -> [Crew!Days -> Crew!DayRow \cup {None}]]
  BY DEF StaffTyped
<1>2. /\ day' \in [Employee -> [Crew!Days -> Crew!DayRow \cup {None}]]
      /\ \A x \in Employee, c \in Crew!Days : day'[x][c] = IF x = e /\ c = d THEN row ELSE day[x][c]
  BY <1>1
<1>3. \A x \in Employee : \A c \in Crew!Days : DayOK(day'[x][c])
  <2> SUFFICES ASSUME NEW x \in Employee, NEW c \in Crew!Days PROVE DayOK(day'[x][c])
    OBVIOUS
  <2>1. CASE x = e /\ c = d
    <3>1. DayOK(row)
      BY DEF DayOK
    <3>2. day'[x][c] = row
      BY <1>2, <2>1
    <3> QED BY <3>1, <3>2
  <2>2. CASE ~(x = e /\ c = d)
    <3>1. day'[x][c] = day[x][c] /\ DayOK(day[x][c])
      BY <1>2, <2>2 DEF StaffTyped
    <3> QED BY <3>1
  <2> QED BY <2>1, <2>2
<1> QED BY <1>2, <1>3 DEF StaffTyped, Becomes

(* The desks.                                                              *)
LEMMA DeskCleared ==
  ASSUME StaffTyped, NEW w \in Clerk, hr' = [hr EXCEPT ![w] = Crew!Idle]
  PROVE  /\ DOMAIN hr' = Clerk /\ \A v \in Clerk : DeskOK(hr'[v])
         /\ hr'[w].verb = "idle" /\ hr'[w].who = None /\ \A v \in Clerk \ {w} : hr'[v] = hr[v]
<1>1. DeskOK(Crew!Idle) /\ Crew!Idle.verb = "idle" /\ Crew!Idle.who = None
  BY DEF DeskOK, Crew!Idle
<1>2. \A v \in Clerk : DeskOK(hr[v])
  BY DEF StaffTyped
<1>3. DOMAIN hr' = Clerk /\ hr'[w] = Crew!Idle /\ \A v \in Clerk \ {w} : hr'[v] = hr[v]
  BY DEF StaffTyped
<1> QED BY ONLY <1>1, <1>2, <1>3

LEMMA DeskTaken ==
  ASSUME StaffTyped, NEW w \in Clerk, NEW t, DeskOK(t), hr' = [hr EXCEPT ![w] = t]
  PROVE  /\ DOMAIN hr' = Clerk /\ \A v \in Clerk : DeskOK(hr'[v])
         /\ hr'[w] = t /\ \A v \in Clerk \ {w} : hr'[v] = hr[v]
<1>2. \A v \in Clerk : DeskOK(hr[v])
  BY DEF StaffTyped
<1>3. DOMAIN hr' = Clerk /\ hr'[w] = t /\ \A v \in Clerk \ {w} : hr'[v] = hr[v]
  BY DEF StaffTyped
<1> QED BY ONLY <1>2, <1>3, DeskOK(t)

LEMMA DesksStay == StaffTyped => DOMAIN hr = Clerk /\ \A w \in Clerk : DeskOK(hr[w])
BY DEF StaffTyped

(* What each action does.                                                  *)
LEMMA TerminateDoes ==
  ASSUME StaffTyped, NEW e \in Employee, NEW outcome \in Crew!Gone, NEW d \in Crew!Days,
         Crew!Terminate(e, outcome, d)
  PROVE  /\ StaffTyped' /\ Crew!Unedited(e) /\ UNCHANGED <<revision, day, hr, now>>
         /\ \E row \in Crew!EmployeeRow :
              row.status = outcome /\ row.left = d /\ person' = [person EXCEPT ![e] = row]
<1>1. Crew!Unedited(e) /\ UNCHANGED <<revision, day, hr, now>>
      /\ person' = [person EXCEPT ![e].status = outcome, ![e].left = d]
  BY DEF Crew!Terminate
<1>2. person[e] \in Crew!EmployeeRow /\ person \in [Employee -> Crew!EmployeeRow]
  BY DEF StaffTyped
<1>3. PICK old \in Crew!EmployeeRow : old = person[e]
  BY <1>2
<1>4. PICK row : row = [old EXCEPT !.status = outcome, !.left = d]
  OBVIOUS
<1>5. row \in Crew!EmployeeRow /\ row.status = outcome /\ row.left = d
  <2>1. old \in Crew!EmployeeRow /\ outcome \in Crew!Gone /\ d \in Crew!Days
    OBVIOUS
  <2> QED BY ONLY <1>4, <2>1 DEF Crew!EmployeeRow, Crew!Gone, Crew!Allowed
<1>6. person' = [person EXCEPT ![e] = row]
  BY <1>1, <1>2, <1>3, <1>4
<1>7. StaffTyped'
  BY <1>1, <1>5, <1>6, DesksStay, PersonWritten
<1> QED BY <1>1, <1>5, <1>6, <1>7

LEMMA SavePersonDoes ==
  ASSUME StaffTyped, NEW w \in Clerk, NEW wage \in Salaries, Crew!SavePerson(w, wage)
  PROVE  /\ StaffTyped' /\ UNCHANGED <<revision, day, now>> /\ hr[w].verb = "person"
         /\ hr' = [hr EXCEPT ![w] = Crew!Idle] /\ hr[w].who \in Employee
         /\ \E row \in Crew!EmployeeRow :
              row.status = hr[w].seen.status /\ row.left = hr[w].seen.left
              /\ person' = [person EXCEPT ![hr[w].who] = row]
<1>1. /\ hr[w].verb = "person" /\ UNCHANGED <<revision, day, now>> /\ hr' = [hr EXCEPT ![w] = Crew!Idle]
      /\ person' = [person EXCEPT ![hr[w].who] = [hr[w].seen EXCEPT !.salary = wage]]
  BY DEF Crew!SavePerson, Crew!End
<1>2. hr[w].who \in Employee /\ hr[w].seen \in Crew!EmployeeRow
  BY <1>1, DesksStay DEF DeskOK
<1>3. PICK e \in Employee, seen \in Crew!EmployeeRow : e = hr[w].who /\ seen = hr[w].seen
  BY <1>2
<1>4. PICK row : row = [seen EXCEPT !.salary = wage]
  OBVIOUS
<1>5. row \in Crew!EmployeeRow /\ row.status = seen.status /\ row.left = seen.left
  BY <1>4 DEF Crew!EmployeeRow
<1>6. person' = [person EXCEPT ![e] = row]
  BY <1>1, <1>3, <1>4
<1>7. StaffTyped'
  BY <1>1, <1>5, <1>6, DeskCleared, PersonWritten
<1> QED BY <1>1, <1>3, <1>5, <1>6, <1>7

LEMMA ReadPersonDoes ==
  ASSUME StaffTyped, NEW w \in Clerk, NEW e \in Employee, Crew!ReadPerson(w, e)
  PROVE  /\ StaffTyped' /\ UNCHANGED <<person, revision, day, now>> /\ Crew!Unedited(e)
         /\ \A v \in Clerk \ {w} : hr'[v] = hr[v]
         /\ hr'[w].verb = "person" /\ hr'[w].who = e /\ hr'[w].seen = person[e]
<1>1. PICK t : /\ t = [verb |-> "person", who |-> e, on |-> None, seen |-> person[e]]
               /\ hr' = [hr EXCEPT ![w] = t]
  BY DEF Crew!ReadPerson
<1>2. UNCHANGED <<person, revision, day, now>> /\ Crew!Unedited(e)
  BY DEF Crew!ReadPerson
<1>3. t.verb = "person" /\ t.who = e /\ t.seen = person[e] /\ person[e] \in Crew!EmployeeRow
  BY <1>1 DEF StaffTyped
<1>4. DeskOK(t)
  BY <1>3 DEF DeskOK
<1>5. /\ DOMAIN hr' = Clerk /\ \A v \in Clerk : DeskOK(hr'[v])
      /\ hr'[w] = t /\ \A v \in Clerk \ {w} : hr'[v] = hr[v]
  BY <1>1, <1>4, DeskTaken
<1>6. StaffTyped'
  BY <1>2, <1>5 DEF StaffTyped, DayOK
<1> QED BY <1>2, <1>3, <1>5, <1>6

LEMMA GiveUpDoes ==
  ASSUME StaffTyped, NEW w \in Clerk, Crew!GiveUp(w)
  PROVE  /\ StaffTyped' /\ UNCHANGED <<person, revision, day, now>>
         /\ hr' = [hr EXCEPT ![w] = Crew!Idle]
<1>1. UNCHANGED <<person, revision, day, now>> /\ hr' = [hr EXCEPT ![w] = Crew!Idle]
  BY DEF Crew!GiveUp, Crew!End
<1>2. StaffTyped'
  BY <1>1, DeskCleared DEF StaffTyped, DayOK
<1> QED BY <1>1, <1>2

LEMMA SalariesDo ==
  ASSUME StaffTyped, NEW e \in Employee, NEW d \in Crew!Days, NEW wage \in Salaries,
         Crew!Revise(e, d, wage) \/ Crew!Amend(e, d, wage)
  PROVE  StaffTyped' /\ UNCHANGED <<person, day, hr, now>>
<1>1. ASSUME NEW row \in Crew!RevisionRow, revision' = [revision EXCEPT ![e][d] = row],
             UNCHANGED <<person, day, hr, now>>
      PROVE  StaffTyped'
  <2>1. revision' \in [Employee -> [Crew!Days -> Crew!RevisionRow \cup {None}]]
    BY <1>1 DEF StaffTyped
  <2> QED BY <1>1, <2>1 DEF StaffTyped, DayOK
<1>2. CASE Crew!Revise(e, d, wage)
  <2>1. /\ UNCHANGED <<person, day, hr, now>>
        /\ revision' = [revision EXCEPT ![e][d] = [from |-> person[e].salary, to |-> wage]]
    BY <1>2 DEF Crew!Revise
  <2>2. person[e].salary \in Salaries
    BY DEF StaffTyped, Crew!EmployeeRow
  <2>3. [from |-> person[e].salary, to |-> wage] \in Crew!RevisionRow
    BY <2>2 DEF Crew!RevisionRow
  <2> QED BY <1>1, <2>1, <2>3
<1>3. CASE Crew!Amend(e, d, wage)
  <2>1. /\ UNCHANGED <<person, day, hr, now>> /\ revision[e][d] # None
        /\ revision' = [revision EXCEPT ![e][d].to = wage]
    BY <1>3 DEF Crew!Amend
  <2>2. PICK old \in Crew!RevisionRow : old = revision[e][d]
    BY <2>1 DEF StaffTyped
  <2>3. PICK row : row = [old EXCEPT !.to = wage]
    OBVIOUS
  <2>4. row \in Crew!RevisionRow
    BY <2>3 DEF Crew!RevisionRow
  <2>5. revision' = [revision EXCEPT ![e][d] = row]
    BY <2>1, <2>2, <2>3
  <2> QED BY <1>1, <2>1, <2>4, <2>5
<1> QED BY <1>2, <1>3


LEMMA CheckInDoes ==
  ASSUME StaffTyped, NEW e \in Employee, Crew!CheckIn(e)
  PROVE  /\ StaffTyped' /\ UNCHANGED <<person, revision, hr, now>> /\ Crew!Unedited(e)
         /\ \/ UNCHANGED day
            \/ \E d \in Crew!Days, row, old \in Crew!DayRow :
                 /\ Becomes(e, d, row)
                 /\ day[e][d] = old \/ (old.worked = 0 /\ ~old.closed)
                 /\ old.in = None /\ row.in = now /\ row.out = old.out /\ Crew!InOrder(row)
                 /\ row.worked = old.worked /\ row.closed = old.closed
<1>1. PICK old : old = IF Crew!Recorded(e, Crew!Today) THEN day[e][Crew!Today] ELSE Crew!NewDay(None, None, "present", FALSE)
  OBVIOUS
<1>2. PICK row : row = [old EXCEPT !.in = now]
  OBVIOUS
<1>3. /\ Crew!Unedited(e) /\ UNCHANGED <<person, revision, hr, now>> /\ Crew!InOrder(row)
      /\ day' = [day EXCEPT ![e][Crew!Today] = row] /\ Crew!Unarrived(e)
  BY <1>1, <1>2 DEF Crew!CheckIn
<1>4. CASE Crew!Today \in Crew!Days
  <2>1. PICK d \in Crew!Days : d = Crew!Today
    BY <1>4
  <2>4. /\ day[e][d] = old \/ (old.worked = 0 /\ ~old.closed)
        /\ old \in Crew!DayRow /\ old.in = None
    <3>1. CASE Crew!Recorded(e, d)
      BY <1>1, <1>3, <2>1, <3>1 DEF StaffTyped, Crew!Recorded, Crew!Unarrived
    <3>2. CASE ~Crew!Recorded(e, d)
      <4>1. "present" \in Crew!Statuses /\ FALSE \in BOOLEAN /\ None \in Nat \cup {None}
        BY DEF Crew!Statuses, Crew!P!Present
      <4>2. old = Crew!NewDay(None, None, "present", FALSE)
        BY <1>1, <2>1, <3>2
      <4> QED BY ONLY <4>1, <4>2, NewDays
    <3> QED BY <3>1, <3>2
  <2>5. /\ row \in Crew!DayRow /\ row.in = now /\ row.out = old.out
        /\ row.worked = old.worked /\ row.closed = old.closed
    <3>1. now \in Nat \cup {None}
      BY DEF StaffTyped
    <3> QED BY ONLY <1>2, <2>4, <3>1 DEF Crew!DayRow
  <2>6. day' = [day EXCEPT ![e][d] = row]
    BY <1>3, <2>1
  <2>7. StaffTyped' /\ Becomes(e, d, row)
    BY <1>3, <2>5, <2>6, DesksStay, DayWritten
  <2> QED BY <1>3, <2>4, <2>5, <2>7
<1>5. CASE Crew!Today \notin Crew!Days
  <2>1. day' = day
    BY <1>3, <1>5 DEF StaffTyped
  <2> QED BY <1>3, <2>1, DesksStay DEF StaffTyped, DayOK
<1> QED BY <1>4, <1>5

LEMMA CheckOutDoes ==
  ASSUME StaffTyped, NEW e \in Employee, Crew!CheckOut(e)
  PROVE  /\ StaffTyped' /\ UNCHANGED <<person, revision, hr, now>> /\ Crew!Unedited(e)
         /\ \/ UNCHANGED day
            \/ \E d \in Crew!Days, row, old \in Crew!DayRow :
                 /\ Becomes(e, d, row)
                 /\ day[e][d] = old
                 /\ row.in = old.in /\ row.out = now /\ Crew!InOrder(row)
                 /\ row.worked = Crew!Worked(row) /\ row.closed
<1>1. PICK old : old = day[e][Crew!Today]
  OBVIOUS
<1>2. PICK gone : gone = [old EXCEPT !.out = now]
  OBVIOUS
<1>3. PICK row : row = [gone EXCEPT !.worked = Crew!Worked(gone), !.closed = TRUE]
  OBVIOUS
<1>4. /\ Crew!Unedited(e) /\ UNCHANGED <<person, revision, hr, now>> /\ Crew!InOrder(gone)
      /\ Crew!Recorded(e, Crew!Today) /\ day' = [day EXCEPT ![e][Crew!Today] = row]
  BY <1>1, <1>2, <1>3 DEF Crew!CheckOut
<1>5. CASE Crew!Today \in Crew!Days
  <2>1. PICK d \in Crew!Days : d = Crew!Today
    BY <1>5
  <2>2. old = day[e][d] /\ old \in Crew!DayRow
    BY <1>1, <1>4, <2>1 DEF StaffTyped, Crew!Recorded
  <2>3. gone \in Crew!DayRow /\ gone.in = old.in /\ gone.out = now
    <3>1. now \in Nat \cup {None}
      BY DEF StaffTyped
    <3> QED BY ONLY <1>2, <2>2, <3>1 DEF Crew!DayRow
  <2>4. PICK n \in Nat : n = Crew!Worked(gone)
    <3>1. gone.in \in Nat \cup {None} /\ gone.out \in Nat \cup {None} /\ gone.shift \in BOOLEAN
      BY ONLY <2>3 DEF Crew!DayRow
    <3> QED BY <3>1, WorkedIsNat
  <2>5. /\ row \in Crew!DayRow /\ row.worked = n /\ row.in = gone.in
        /\ row.out = gone.out /\ row.shift = gone.shift /\ row.closed
    BY ONLY <1>3, <2>3, <2>4 DEF Crew!DayRow
  <2>6. Crew!Worked(row) = Crew!Worked(gone) /\ Crew!InOrder(row)
    BY <1>4, <2>5 DEF Crew!Worked, Crew!InOrder
  <2>7. day' = [day EXCEPT ![e][d] = row]
    BY <1>4, <2>1
  <2>8. StaffTyped' /\ Becomes(e, d, row)
    BY <1>4, <2>5, <2>6, <2>7, DesksStay, DayWritten
  <2> QED BY <1>4, <2>2, <2>3, <2>4, <2>5, <2>6, <2>8
<1>6. CASE Crew!Today \notin Crew!Days
  <2>1. day' = day
    BY <1>4, <1>6 DEF StaffTyped
  <2> QED BY <1>4, <2>1, DesksStay DEF StaffTyped, DayOK
<1> QED BY <1>5, <1>6

LEMMA EnterDayDoes ==
  ASSUME StaffTyped, NEW e \in Employee, NEW d \in Crew!Days, NEW status \in Outcomes, NEW shift \in BOOLEAN,
         Crew!EnterDay(e, d, status, shift)
  PROVE  /\ StaffTyped' /\ UNCHANGED <<person, revision, hr, now>> /\ Crew!Unedited(e)
         /\ \E row \in Crew!DayRow :
              Becomes(e, d, row) /\ row.worked = 0 /\ ~row.closed
<1>0. PICK i, o, row :
        /\ i \in Nat \cup {None} /\ o \in Nat \cup {None}
        /\ row = Crew!NewDay(i, o, status, shift) /\ Crew!InOrder(row)
        /\ Crew!Unedited(e) /\ UNCHANGED <<person, revision, hr, now>>
        /\ day' = [day EXCEPT ![e][d] = row]
  BY StaffSizes DEF Crew!EnterDay
<1>2. /\ Crew!Unedited(e) /\ UNCHANGED <<person, revision, hr, now>>
      /\ day' = [day EXCEPT ![e][d] = row]
  BY <1>0
<1>3. row \in Crew!DayRow /\ row.worked = 0 /\ row.closed = FALSE
  <2>1. status \in Crew!Statuses /\ shift \in BOOLEAN /\ row = Crew!NewDay(i, o, status, shift)
    BY <1>0, StaffSizes
  <2>2. i \in Nat \cup {None} /\ o \in Nat \cup {None}
    BY <1>0
  <2>3. row = [in |-> i, out |-> o, worked |-> 0, status |-> status, shift |-> shift, closed |-> FALSE]
    BY ONLY <2>1 DEF Crew!NewDay
  <2> QED BY ONLY <2>1, <2>2, <2>3 DEF Crew!DayRow
<1>4. Crew!InOrder(row)
  BY <1>0
<1>5. StaffTyped' /\ Becomes(e, d, row)
  BY <1>2, <1>3, <1>4, DesksStay, DayWritten
<1> QED BY <1>2, <1>3, <1>5

LEMMA ReadDayDoes ==
  ASSUME StaffTyped, NEW w \in Clerk, NEW e \in Employee, NEW d \in Crew!Days, Crew!ReadDay(w, e, d)
  PROVE  /\ StaffTyped' /\ UNCHANGED <<person, revision, day, now>> /\ Crew!Unedited(e)
         /\ \A v \in Clerk \ {w} : hr'[v] = hr[v]
         /\ hr'[w].verb = "day" /\ hr'[w].who = e /\ hr'[w].on = d /\ hr'[w].seen = day[e][d]
<1>1. PICK t : /\ t = [verb |-> "day", who |-> e, on |-> d, seen |-> day[e][d]]
               /\ hr' = [hr EXCEPT ![w] = t]
  BY DEF Crew!ReadDay
<1>2. UNCHANGED <<person, revision, day, now>> /\ Crew!Unedited(e) /\ Crew!Recorded(e, d)
  BY DEF Crew!ReadDay
<1>3. /\ t.verb = "day" /\ t.who = e /\ t.on = d /\ t.seen = day[e][d]
      /\ day[e][d] \in Crew!DayRow /\ Crew!InOrder(day[e][d])
  BY <1>1, <1>2 DEF StaffTyped, DayOK, Crew!Recorded
<1>4. DeskOK(t)
  BY <1>3 DEF DeskOK
<1>5. /\ DOMAIN hr' = Clerk /\ \A v \in Clerk : DeskOK(hr'[v])
      /\ hr'[w] = t /\ \A v \in Clerk \ {w} : hr'[v] = hr[v]
  BY <1>1, <1>4, DeskTaken
<1>6. StaffTyped'
  BY <1>2, <1>5 DEF StaffTyped, DayOK
<1> QED BY <1>2, <1>3, <1>5, <1>6

(* What a correction of the status leaves alone.                           *)
SameHours(row, old) ==
  /\ row.in = old.in /\ row.out = old.out /\ row.shift = old.shift
  /\ row.worked = old.worked /\ row.closed = old.closed

LEMMA CorrectDayDoes ==
  ASSUME StaffTyped, NEW w \in Clerk, Crew!CorrectDay(w)
  PROVE  /\ StaffTyped' /\ UNCHANGED <<person, revision, now>> /\ hr[w].verb = "day"
         /\ hr' = [hr EXCEPT ![w] = Crew!Idle] /\ hr[w].who \in Employee /\ hr[w].on \in Crew!Days
         /\ \E row, seen \in Crew!DayRow :
              /\ Becomes(hr[w].who, hr[w].on, row) /\ seen = hr[w].seen
              /\ Corrects \subseteq {"status"} =>
                   SameHours(row, seen)
<1>1. hr[w].verb = "day" /\ UNCHANGED <<person, revision, now>> /\ hr' = [hr EXCEPT ![w] = Crew!Idle]
  BY DEF Crew!CorrectDay, Crew!End
<1>2. hr[w].who \in Employee /\ hr[w].on \in Crew!Days /\ hr[w].seen \in Crew!DayRow
  BY <1>1, DesksStay DEF DeskOK
<1>3. PICK seen \in Crew!DayRow : seen = hr[w].seen
  BY <1>2
<1>4. PICK e \in Employee : e = hr[w].who
  BY <1>2
<1>5. PICK d \in Crew!Days : d = hr[w].on
  BY <1>2
<1>6. PICK row \in Crew!Corrected(seen) : Crew!InOrder(row) /\ day' = [day EXCEPT ![e][d] = row]
  BY <1>3, <1>4, <1>5 DEF Crew!CorrectDay
<1>7. now \in Nat /\ None \in Nat \cup {None} /\ Outcomes \subseteq Crew!Statuses
  BY StaffSizes DEF StaffTyped
<1>8. \/ "status" \in Corrects /\ \E s \in Outcomes : row = [seen EXCEPT !.status = s]
      \/ /\ "times" \in Corrects
         /\ \/ \E t \in {now, None} : row = [seen EXCEPT !.in = t]
            \/ \E t \in {now, None} : row = [seen EXCEPT !.out = t]
            \/ \E s \in BOOLEAN : row = [seen EXCEPT !.shift = s]
  BY <1>6 DEF Crew!Corrected
<1>9. /\ row \in Crew!DayRow
      /\ Corrects \subseteq {"status"} =>
           SameHours(row, seen)
  <2>1. CASE \E s \in Outcomes : row = [seen EXCEPT !.status = s]
    <3>1. PICK s \in Crew!Statuses : row = [seen EXCEPT !.status = s]
      BY <1>7, <2>1
    <3>2. row \in Crew!DayRow /\ SameHours(row, seen)
      BY ONLY <3>1, seen \in Crew!DayRow DEF Crew!DayRow, SameHours
    <3> QED BY <3>2
  <2>2. CASE /\ "times" \in Corrects
             /\ \/ \E t \in {now, None} : row = [seen EXCEPT !.in = t]
                \/ \E t \in {now, None} : row = [seen EXCEPT !.out = t]
                \/ \E s \in BOOLEAN : row = [seen EXCEPT !.shift = s]
    <3>1. row \in Crew!DayRow
      <4>1. CASE \E t \in {now, None} : row = [seen EXCEPT !.in = t]
        <5>1. PICK t \in Nat \cup {None} : t \in {now, None} /\ row = [seen EXCEPT !.in = t]
          BY <1>7, <4>1
        <5> QED BY ONLY <5>1, seen \in Crew!DayRow DEF Crew!DayRow
      <4>2. CASE \E t \in {now, None} : row = [seen EXCEPT !.out = t]
        <5>1. PICK t \in Nat \cup {None} : t \in {now, None} /\ row = [seen EXCEPT !.out = t]
          BY <1>7, <4>2
        <5> QED BY ONLY <5>1, seen \in Crew!DayRow DEF Crew!DayRow
      <4>3. CASE \E s \in BOOLEAN : row = [seen EXCEPT !.shift = s]
        BY ONLY <4>3, seen \in Crew!DayRow DEF Crew!DayRow
      <4> QED BY <2>2, <4>1, <4>2, <4>3
    <3> QED BY <2>2, <3>1
  <2> QED BY <1>8, <2>1, <2>2
<1>10. StaffTyped' /\ Becomes(e, d, row)
  BY <1>1, <1>6, <1>9, DeskCleared, DayWritten
<1> QED BY <1>1, <1>3, <1>4, <1>5, <1>9, <1>10

LEMMA StaffTypedStep ==
  ASSUME StaffTyped, [Crew!Next]_staffVars
  PROVE  StaffTyped'
<1>1. CASE UNCHANGED staffVars
  BY <1>1 DEF staffVars, StaffTyped, DayOK
<1>2. ASSUME NEW e \in Employee, Crew!Employment(e) PROVE StaffTyped'
  <2>1. CASE \E d \in Crew!Days, outcome \in Crew!Gone : Crew!Terminate(e, outcome, d)
    BY <2>1, TerminateDoes
  <2>2. CASE \E d \in Crew!Days, wage \in Salaries : Crew!Revise(e, d, wage) \/ Crew!Amend(e, d, wage)
    BY <2>2, SalariesDo
  <2>3. CASE \E w \in Clerk : Crew!ReadPerson(w, e)
    BY <2>3, ReadPersonDoes
  <2>4. CASE \E w \in Clerk, wage \in Salaries : Crew!SavePerson(w, wage)
    BY <2>4, SavePersonDoes
  <2> QED BY <1>2, <2>1, <2>2, <2>3, <2>4 DEF Crew!Employment
<1>3. ASSUME NEW e \in Employee, Crew!Attendance(e) PROVE StaffTyped'
  <2>1. CASE Crew!CheckIn(e)
    BY <2>1, CheckInDoes
  <2>2. CASE Crew!CheckOut(e)
    BY <2>2, CheckOutDoes
  <2>3. CASE \E d \in Crew!Days, status \in Outcomes, shift \in BOOLEAN : Crew!EnterDay(e, d, status, shift)
    BY <2>3, EnterDayDoes
  <2>4. CASE \E w \in Clerk, d \in Crew!Days : Crew!ReadDay(w, e, d)
    BY <2>4, ReadDayDoes
  <2>5. CASE \E w \in Clerk : Crew!CorrectDay(w)
    BY <2>5, CorrectDayDoes
  <2> QED BY <1>3, <2>1, <2>2, <2>3, <2>4, <2>5 DEF Crew!Attendance
<1>4. ASSUME NEW w \in Clerk, Crew!GiveUp(w) PROVE StaffTyped'
  BY <1>4, GiveUpDoes
<1>5. CASE Crew!Tick
  <2>1. now' \in Nat /\ UNCHANGED <<person, revision, day, hr>>
    BY <1>5 DEF Crew!Tick, StaffTyped
  <2> QED BY <2>1 DEF StaffTyped, DayOK
<1> QED BY <1>1, <1>2, <1>3, <1>4, <1>5 DEF Crew!Next

-----------------------------------------------------------------------------
(* One request edits a row, and nothing else meanwhile.                    *)
DesksApart == \A v, w \in Clerk : v # w /\ hr[v].verb # "idle" => hr[v].who # hr[w].who

Current == \A w \in Clerk :
  /\ hr[w].verb = "person" => hr[w].seen = person[hr[w].who]
  /\ hr[w].verb = "day" => hr[w].seen = day[hr[w].who][hr[w].on]

(* Who is not employed has left on a day.                                  *)
Employed(row) ==
  \/ row.status = "active" /\ row.left = None
  \/ row.status \in Crew!Gone /\ row.left \in Crew!Days

(* Who has checked out did so in the past, and the hours are those between.*)
Hours(row) == IF row.closed THEN Crew!Worked(row) ELSE 0
Timely(row, t) == Corrects \subseteq {"status"} =>
  /\ row.closed => row.out # None /\ row.out <= t
  /\ row.worked = Hours(row)

StaffInv ==
  /\ StaffTyped /\ DesksApart /\ Current
  /\ \A e \in Employee : Employed(person[e])
  /\ \A e \in Employee, d \in Crew!Days : day[e][d] # None => Timely(day[e][d], now)

LEMMA StaffBegins == Crew!Init => StaffInv
<1> SUFFICES ASSUME Crew!Init PROVE StaffInv
  OBVIOUS
<1>1. /\ \A e \in Employee : \E s \in Salaries : person[e] = [status |-> "active", left |-> None, salary |-> s]
      /\ DOMAIN person = Employee /\ person = [e \in Employee |-> person[e]]
      /\ revision = [e \in Employee |-> [d \in Crew!Days |-> None]]
      /\ day = [e \in Employee |-> [d \in Crew!Days |-> None]]
      /\ hr = [w \in Clerk |-> Crew!Idle] /\ now = 0
  BY DEF Crew!Init
<1>2. \A e \in Employee : person[e] \in Crew!EmployeeRow /\ Employed(person[e])
  BY <1>1 DEF Crew!EmployeeRow, Crew!Allowed, Employed
<1>3. person \in [Employee -> Crew!EmployeeRow]
  BY ONLY <1>1, <1>2
<1>4. \A w \in Clerk : DeskOK(hr[w]) /\ hr[w].verb = "idle"
  BY <1>1 DEF Crew!Idle, DeskOK
<1>5. /\ revision \in [Employee -> [Crew!Days -> Crew!RevisionRow \cup {None}]]
      /\ day \in [Employee -> [Crew!Days -> Crew!DayRow \cup {None}]]
      /\ \A e \in Employee, d \in Crew!Days : day[e][d] = None
  BY ONLY <1>1
<1>6. StaffTyped
  BY <1>1, <1>3, <1>4, <1>5 DEF StaffTyped, DayOK
<1> QED BY <1>2, <1>4, <1>5, <1>6 DEF StaffInv, DesksApart, Current

(* Desks that keep what they hold of other rows, or clear.                 *)
Keeps(e) == \A v \in Clerk : \/ hr'[v].verb = "idle" /\ hr'[v].who = None
                             \/ hr'[v] = hr[v] /\ (hr[v].verb # "idle" => hr[v].who # e)

LEMMA KeptAlone ==
  ASSUME StaffInv, NEW e, Keeps(e)
  PROVE  DesksApart'
<1> SUFFICES ASSUME NEW v \in Clerk, NEW w \in Clerk, v # w, hr'[v].verb # "idle"
             PROVE  hr'[v].who # hr'[w].who
  BY DEF DesksApart
<1>1. hr'[v] = hr[v] /\ hr[v].who \in Employee
  BY DesksStay DEF Keeps, StaffInv, DeskOK
<1>2. CASE hr'[w].who = None
  BY <1>1, <1>2, StaffSizes
<1>3. CASE hr'[w] = hr[w]
  BY <1>1, <1>3 DEF StaffInv, DesksApart
<1> QED BY <1>2, <1>3 DEF Keeps

LEMMA PersonChanges ==
  ASSUME StaffInv, StaffTyped', NEW e \in Employee, NEW row, Employed(row),
         person' = [person EXCEPT ![e] = row], UNCHANGED <<day, now>>, Keeps(e)
  PROVE  StaffInv'
<1>1. \A x \in Employee : person'[x] = IF x = e THEN row ELSE person[x]
  BY DEF StaffInv, StaffTyped
<1>2. \A x \in Employee : Employed(person'[x])
  BY <1>1 DEF StaffInv
<1>3. Current'
  <2> SUFFICES ASSUME NEW w \in Clerk, hr'[w].verb # "idle"
               PROVE  /\ hr'[w].verb = "person" => hr'[w].seen = person'[hr'[w].who]
                      /\ hr'[w].verb = "day" => hr'[w].seen = day'[hr'[w].who][hr'[w].on]
    BY DEF Current
  <2>1. hr'[w] = hr[w] /\ hr[w].who # e /\ hr[w].verb # "idle"
    BY DEF Keeps
  <2>2. hr[w].who \in Employee
    BY <2>1, DesksStay DEF StaffInv, DeskOK
  <2>3. /\ hr[w].verb = "person" => hr[w].seen = person[hr[w].who]
        /\ hr[w].verb = "day" => hr[w].seen = day[hr[w].who][hr[w].on]
    BY DEF StaffInv, Current
  <2> QED BY <1>1, <2>1, <2>2, <2>3
<1> QED BY <1>2, <1>3, KeptAlone DEF StaffInv

LEMMA DayChanges ==
  ASSUME StaffInv, StaffTyped', NEW e \in Employee, NEW d \in Crew!Days, NEW row, Timely(row, now),
         Becomes(e, d, row), UNCHANGED <<person, now>>, Keeps(e)
  PROVE  StaffInv'
<1>1. \A x \in Employee, c \in Crew!Days : day'[x][c] # None => Timely(day'[x][c], now)
  BY DEF StaffInv, Becomes
<1>2. Current'
  <2> SUFFICES ASSUME NEW w \in Clerk, hr'[w].verb # "idle"
               PROVE  /\ hr'[w].verb = "person" => hr'[w].seen = person'[hr'[w].who]
                      /\ hr'[w].verb = "day" => hr'[w].seen = day'[hr'[w].who][hr'[w].on]
    BY DEF Current
  <2>1. hr'[w] = hr[w] /\ hr[w].who # e /\ hr[w].verb # "idle"
    BY DEF Keeps
  <2>2. hr[w].who \in Employee /\ (hr[w].verb = "day" => hr[w].on \in Crew!Days)
    BY <2>1, DesksStay DEF StaffInv, DeskOK
  <2>3. /\ hr[w].verb = "person" => hr[w].seen = person[hr[w].who]
        /\ hr[w].verb = "day" => hr[w].seen = day[hr[w].who][hr[w].on]
    BY DEF StaffInv, Current
  <2> QED BY <2>1, <2>2, <2>3 DEF Becomes
<1> QED BY <1>1, <1>2, KeptAlone DEF StaffInv

LEMMA DeskReads ==
  ASSUME StaffInv, StaffTyped', NEW e \in Employee, NEW w \in Clerk, UNCHANGED <<person, day, now>>,
         \A v \in Clerk \ {w} : hr'[v] = hr[v], \A v \in Clerk : hr[v].who # e, hr'[w].who = e,
         \/ hr'[w].verb = "person" /\ hr'[w].seen = person[e]
         \/ hr'[w].verb = "day" /\ hr'[w].seen = day[e][hr'[w].on]
  PROVE  StaffInv'
<1>1. DesksApart'
  BY DEF StaffInv, DesksApart
<1>2. Current'
  BY DEF StaffInv, Current
<1> QED BY <1>1, <1>2 DEF StaffInv

(* A desk that clears keeps what the others hold.                          *)
LEMMA DeskClears ==
  ASSUME StaffInv, NEW w \in Clerk, hr[w].verb # "idle", hr' = [hr EXCEPT ![w] = Crew!Idle]
  PROVE  Keeps(hr[w].who)
<1>1. hr'[w].verb = "idle" /\ hr'[w].who = None /\ \A v \in Clerk \ {w} : hr'[v] = hr[v]
  BY DeskCleared DEF StaffInv
<1> QED BY <1>1 DEF StaffInv, DesksApart, Keeps

LEMMA UneditedKeeps ==
  ASSUME OneOfficer = TRUE, NEW e, Crew!Unedited(e)
  PROVE  (\A v \in Clerk : hr[v].who # e) /\ (UNCHANGED hr => Keeps(e))
BY DEF Crew!Unedited, Keeps

LEMMA NoHours ==
  ASSUME NEW row, row.in = None \/ row.out = None
  PROVE  Crew!Worked(row) = 0
BY DEF Crew!Worked

(* Arriving in the moment of leaving is no work.                           *)
LEMMA NoTime ==
  ASSUME NEW row, NEW t \in Nat, row.in = t, row.out = t, row.shift \in BOOLEAN
  PROVE  Crew!Worked(row) = 0
<1>1. t # None /\ Break \in Nat
  BY StaffSizes
<1>2. Crew!Worked(row) = Crew!P!AtLeastZero(t - t - (IF row.shift THEN Break ELSE 0))
  BY <1>1 DEF Crew!Worked
<1>3. t - t - (IF row.shift THEN Break ELSE 0) \in {0, 0 - Break}
  <2>1. t - t = 0 /\ 0 - 0 = 0
    BY ONLY t \in Nat
  <2>2. CASE row.shift
    BY <2>1, <2>2
  <2>3. CASE ~row.shift
    BY <2>1, <2>3
  <2> QED BY <2>2, <2>3
<1>4. \A n \in {0, 0 - Break} : Crew!P!AtLeastZero(n) = 0
  BY <1>1 DEF Crew!P!AtLeastZero
<1> QED BY <1>2, <1>3, <1>4

LEMMA StaffStep ==
  ASSUME OneOfficer = TRUE, StaffInv, [Crew!Next]_staffVars
  PROVE  StaffInv'
<1>0. StaffTyped /\ StaffTyped' /\ now \in Nat
  BY StaffTypedStep DEF StaffInv, StaffTyped
<1>1. CASE UNCHANGED staffVars
  BY <1>0, <1>1 DEF staffVars, StaffInv, DesksApart, Current
<1>2. ASSUME NEW e \in Employee, NEW outcome \in Crew!Gone, NEW d \in Crew!Days, Crew!Terminate(e, outcome, d)
      PROVE  StaffInv'
  <2>1. /\ Crew!Unedited(e) /\ UNCHANGED <<revision, day, hr, now>>
        /\ \E row \in Crew!EmployeeRow :
             row.status = outcome /\ row.left = d /\ person' = [person EXCEPT ![e] = row]
    BY <1>0, <1>2, TerminateDoes
  <2>2. PICK row : Employed(row) /\ person' = [person EXCEPT ![e] = row]
    BY <2>1 DEF Employed
  <2>3. Keeps(e)
    BY <2>1, UneditedKeeps
  <2> QED BY <1>0, <2>1, <2>2, <2>3, PersonChanges
<1>3. ASSUME NEW e \in Employee, NEW d \in Crew!Days, NEW wage \in Salaries,
             Crew!Revise(e, d, wage) \/ Crew!Amend(e, d, wage)
      PROVE  StaffInv'
  <2>1. UNCHANGED <<person, day, hr, now>>
    BY <1>0, <1>3, SalariesDo
  <2> QED BY <1>0, <2>1 DEF StaffInv, DesksApart, Current
<1>4. ASSUME NEW w \in Clerk, NEW e \in Employee, Crew!ReadPerson(w, e) PROVE StaffInv'
  <2>1. /\ UNCHANGED <<person, day, now>> /\ Crew!Unedited(e) /\ \A v \in Clerk \ {w} : hr'[v] = hr[v]
        /\ hr'[w].verb = "person" /\ hr'[w].who = e /\ hr'[w].seen = person[e]
    BY <1>0, <1>4, ReadPersonDoes
  <2>2. \A v \in Clerk : hr[v].who # e
    BY <2>1, UneditedKeeps
  <2> QED BY <1>0, <2>1, <2>2, DeskReads
<1>5. ASSUME NEW w \in Clerk, NEW wage \in Salaries, Crew!SavePerson(w, wage) PROVE StaffInv'
  <2>1. /\ UNCHANGED <<day, now>> /\ hr[w].verb = "person"
        /\ hr' = [hr EXCEPT ![w] = Crew!Idle] /\ hr[w].who \in Employee
        /\ \E row \in Crew!EmployeeRow :
             row.status = hr[w].seen.status /\ row.left = hr[w].seen.left
             /\ person' = [person EXCEPT ![hr[w].who] = row]
    BY <1>0, <1>5, SavePersonDoes
  <2>2. Employed(person[hr[w].who]) /\ hr[w].seen = person[hr[w].who]
    BY <2>1 DEF StaffInv, Current
  <2>7. PICK row \in Crew!EmployeeRow :
          /\ row.status = hr[w].seen.status /\ row.left = hr[w].seen.left
          /\ person' = [person EXCEPT ![hr[w].who] = row]
    BY <2>1
  <2>8. Employed(row)
    BY <2>2, <2>7 DEF Employed
  <2>3. Employed(row) /\ person' = [person EXCEPT ![hr[w].who] = row]
    BY <2>7, <2>8
  <2>4. Keeps(hr[w].who)
    BY <2>1, DeskClears
  <2>5. PICK e \in Employee : e = hr[w].who
    BY <2>1
  <2>6. Keeps(e) /\ person' = [person EXCEPT ![e] = row]
    BY <2>3, <2>4, <2>5
  <2> QED BY <1>0, <2>1, <2>3, <2>6, PersonChanges
<1>6. ASSUME NEW e \in Employee, Crew!CheckIn(e) PROVE StaffInv'
  <2>1. /\ UNCHANGED <<person, hr, now>> /\ Crew!Unedited(e)
        /\ \/ UNCHANGED day
           \/ \E d \in Crew!Days, row, old \in Crew!DayRow :
                /\ Becomes(e, d, row)
                /\ day[e][d] = old \/ (old.worked = 0 /\ ~old.closed)
                /\ old.in = None /\ row.in = now /\ row.out = old.out /\ Crew!InOrder(row)
                /\ row.worked = old.worked /\ row.closed = old.closed
    BY <1>0, <1>6, CheckInDoes
  <2>2. CASE UNCHANGED day
    BY <1>0, <2>1, <2>2 DEF StaffInv, DesksApart, Current
  <2>3. CASE ~UNCHANGED day
    <3>1. PICK d \in Crew!Days, row \in Crew!DayRow, old \in Crew!DayRow :
             /\ Becomes(e, d, row)
             /\ day[e][d] = old \/ (old.worked = 0 /\ ~old.closed)
             /\ old.in = None /\ row.in = now /\ row.out = old.out /\ Crew!InOrder(row)
             /\ row.worked = old.worked /\ row.closed = old.closed
      BY <2>1, <2>3
    <3>2. Corrects \subseteq {"status"} =>
            row.worked = 0 /\ (row.closed => row.out # None /\ row.out <= now)
      <4>1. CASE day[e][d] = old
        <5>1. Timely(old, now) /\ Crew!Worked(old) = 0
          BY <3>1, <4>1, NoHours, StaffSizes DEF StaffInv
        <5> QED BY <3>1, <5>1 DEF Timely, Hours
      <4>2. CASE old.worked = 0 /\ ~old.closed
        BY <3>1, <4>2
      <4> QED BY <3>1, <4>1, <4>2
    <3>3. Corrects \subseteq {"status"} => Hours(row) = 0
      <4> SUFFICES ASSUME Corrects \subseteq {"status"}, row.closed PROVE Crew!Worked(row) = 0
        BY DEF Hours
      <4>1. row.out # None /\ row.out <= now
        BY <3>2
      <4>2. row.out \in Nat /\ row.shift \in BOOLEAN /\ now # None
        BY <4>1, StaffSizes, <1>0 DEF Crew!DayRow
      <4>3. row.in <= row.out
        BY <3>1, <4>1, <4>2 DEF Crew!InOrder
      <4>4. row.out = now
        BY <1>0, <3>1, <4>1, <4>2, <4>3
      <4> QED BY <1>0, <3>1, <4>2, <4>4, NoTime
    <3>4. Timely(row, now)
      BY <3>2, <3>3 DEF Timely
    <3>5. Keeps(e)
      BY <2>1, UneditedKeeps
    <3> QED BY <1>0, <2>1, <3>1, <3>4, <3>5, DayChanges
  <2> QED BY <2>2, <2>3
<1>7. ASSUME NEW e \in Employee, Crew!CheckOut(e) PROVE StaffInv'
  <2>1. /\ UNCHANGED <<person, hr, now>> /\ Crew!Unedited(e)
        /\ \/ UNCHANGED day
           \/ \E d \in Crew!Days, row, old \in Crew!DayRow :
                /\ Becomes(e, d, row)
                /\ day[e][d] = old
                /\ row.in = old.in /\ row.out = now /\ Crew!InOrder(row)
                /\ row.worked = Crew!Worked(row) /\ row.closed
    BY <1>0, <1>7, CheckOutDoes
  <2>2. CASE UNCHANGED day
    BY <1>0, <2>1, <2>2 DEF StaffInv, DesksApart, Current
  <2>3. CASE ~UNCHANGED day
    <3>1. PICK d \in Crew!Days, row \in Crew!DayRow, old \in Crew!DayRow :
             /\ Becomes(e, d, row) /\ day[e][d] = old
             /\ row.in = old.in /\ row.out = now
             /\ row.worked = Crew!Worked(row) /\ row.closed
      BY <2>1, <2>3
    <3>3. Timely(row, now)
      BY <1>0, <3>1, StaffSizes DEF Timely, Hours
    <3>4. Keeps(e)
      BY <2>1, UneditedKeeps
    <3> QED BY <1>0, <2>1, <3>1, <3>3, <3>4, DayChanges
  <2> QED BY <2>2, <2>3
<1>8. ASSUME NEW e \in Employee, NEW d \in Crew!Days, NEW status \in Outcomes, NEW shift \in BOOLEAN,
             Crew!EnterDay(e, d, status, shift)
      PROVE  StaffInv'
  <2>1. /\ UNCHANGED <<person, hr, now>> /\ Crew!Unedited(e)
        /\ \E row \in Crew!DayRow :
             Becomes(e, d, row) /\ row.worked = 0 /\ ~row.closed
    BY <1>0, <1>8, EnterDayDoes
  <2>2. PICK row \in Crew!DayRow : Becomes(e, d, row) /\ row.worked = 0 /\ ~row.closed
    BY <2>1
  <2>3. Timely(row, now)
    BY <2>2 DEF Timely, Hours
  <2>4. Keeps(e)
    BY <2>1, UneditedKeeps
  <2> QED BY <1>0, <2>1, <2>2, <2>3, <2>4, DayChanges
<1>9. ASSUME NEW w \in Clerk, NEW e \in Employee, NEW d \in Crew!Days, Crew!ReadDay(w, e, d) PROVE StaffInv'
  <2>1. /\ UNCHANGED <<person, day, now>> /\ Crew!Unedited(e) /\ \A v \in Clerk \ {w} : hr'[v] = hr[v]
        /\ hr'[w].verb = "day" /\ hr'[w].who = e /\ hr'[w].on = d /\ hr'[w].seen = day[e][d]
    BY <1>0, <1>9, ReadDayDoes
  <2>2. \A v \in Clerk : hr[v].who # e
    BY <2>1, UneditedKeeps
  <2>3. hr'[w].seen = day[e][hr'[w].on]
    BY <2>1
  <2> QED BY <1>0, <2>1, <2>2, <2>3, DeskReads
<1>10. ASSUME NEW w \in Clerk, Crew!CorrectDay(w) PROVE StaffInv'
  <2>1. /\ UNCHANGED <<person, now>> /\ hr[w].verb = "day"
        /\ hr' = [hr EXCEPT ![w] = Crew!Idle] /\ hr[w].who \in Employee /\ hr[w].on \in Crew!Days
        /\ \E row, seen \in Crew!DayRow :
             /\ Becomes(hr[w].who, hr[w].on, row) /\ seen = hr[w].seen
             /\ Corrects \subseteq {"status"} =>
                  SameHours(row, seen)
    BY <1>0, <1>10, CorrectDayDoes
  <2>2. PICK e \in Employee : e = hr[w].who
    BY <2>1
  <2>3. PICK d \in Crew!Days : d = hr[w].on
    BY <2>1
  <2>4. PICK row \in Crew!DayRow, seen \in Crew!DayRow :
          /\ Becomes(e, d, row) /\ seen = hr[w].seen
          /\ Corrects \subseteq {"status"} =>
               SameHours(row, seen)
    BY <2>1, <2>2, <2>3
  <2>5. Timely(seen, now)
    <3>1. seen = day[e][d]
      BY <2>1, <2>2, <2>3, <2>4 DEF StaffInv, Current
    <3> QED BY <3>1, StaffSizes DEF StaffInv
  <2>6. Timely(row, now)
    <3>1. Corrects \subseteq {"status"} => Hours(row) = Hours(seen)
      BY <2>4 DEF SameHours, Hours, Crew!Worked
    <3> QED BY <2>4, <2>5, <3>1 DEF SameHours, Timely
  <2>7. Keeps(e)
    BY <2>1, <2>2, DeskClears
  <2> QED BY <1>0, <2>1, <2>4, <2>6, <2>7, DayChanges
<1>11. ASSUME NEW w \in Clerk, Crew!GiveUp(w) PROVE StaffInv'
  <2>1. UNCHANGED <<person, revision, day, now>> /\ hr' = [hr EXCEPT ![w] = Crew!Idle]
    BY <1>0, <1>11, GiveUpDoes
  <2>2. hr[w].verb # "idle"
    BY <1>11 DEF Crew!GiveUp, Crew!Busy
  <2>3. DesksApart'
    BY <2>1, <2>2, DeskClears, KeptAlone
  <2>4. hr'[w].verb = "idle" /\ \A v \in Clerk \ {w} : hr'[v] = hr[v]
    BY <1>0, <2>1, DeskCleared
  <2>5. Current'
    BY <2>1, <2>4 DEF StaffInv, Current
  <2> QED BY <1>0, <2>1, <2>3, <2>5 DEF StaffInv
<1>12. CASE Crew!Tick
  <2>1. now' = now + 1 /\ UNCHANGED <<person, revision, day, hr>>
    BY <1>12 DEF Crew!Tick
  <2>2. ASSUME NEW e \in Employee, NEW d \in Crew!Days, day[e][d] # None
        PROVE  Timely(day[e][d], now + 1)
    <3>1. PICK row \in Crew!DayRow : row = day[e][d]
      BY <1>0, <2>2 DEF StaffTyped
    <3>2. Timely(row, now)
      BY <2>2, <3>1 DEF StaffInv
    <3>3. row.out \in Nat \cup {None}
      BY DEF Crew!DayRow
    <3>4. Timely(row, now + 1)
      BY <1>0, <3>2, <3>3 DEF Timely
    <3> QED BY <3>1, <3>4
  <2> QED BY <1>0, <2>1, <2>2 DEF StaffInv, DesksApart, Current
<1> QED BY <1>1, <1>2, <1>3, <1>4, <1>5, <1>6, <1>7, <1>8, <1>9, <1>10, <1>11, <1>12
        DEF Crew!Next, Crew!Employment, Crew!Attendance

-----------------------------------------------------------------------------
(* What the dashboard counts.                                              *)

LEMMA CountsAre == \A S : Crew!Cardinality(S) = Cardinality(S) /\ Crew!P!Cardinality(S) = Cardinality(S)
BY DEF Crew!Cardinality, Crew!P!Cardinality, Cardinality

LEMMA HeadsFollow ==
  ASSUME StaffInv
  PROVE  Crew!HeadsAreMoves
<1> DEFINE Here    == {e \in Employee : Crew!IsPayable(e)}
           Left(a, b) == {e \in Employee : person[e].left \in a..b}
<1>1. \A e \in Employee : person[e].left \in 0..LastDay <=> ~Crew!IsPayable(e)
  <2> SUFFICES ASSUME NEW e \in Employee PROVE person[e].left \in 0..LastDay <=> ~Crew!IsPayable(e)
    OBVIOUS
  <2>1. CASE person[e].status = "active" /\ person[e].left = None
    BY <2>1, StaffSizes DEF Crew!IsPayable
  <2>2. CASE person[e].status \in Crew!Gone /\ person[e].left \in Crew!Days
    BY <2>2 DEF Crew!IsPayable, Crew!Gone, Crew!Days
  <2> QED BY <2>1, <2>2 DEF StaffInv, Employed
<1>2. Crew!Headcount = Cardinality(Here) /\ \A a, b : Crew!LeftIn(a, b) = Cardinality(Left(a, b))
  BY CountsAre DEF Crew!Headcount, Crew!LeftIn
<1>3. Cardinality(Employee) = Cardinality(Here) + Cardinality(Left(0, LastDay))
  <2>1. PICK L : L = Left(0, LastDay)
    OBVIOUS
  <2>2. Here \in SUBSET Employee
    OBVIOUS
  <2>3. L \in SUBSET Employee
    BY <2>1
  <2>4. Here \cup L = Employee
    BY <1>1, <2>1
  <2>5. Here \cap L = {}
    BY <1>1, <2>1
  <2>6. IsFiniteSet(Employee)
    BY StaffSizes
  <2> HIDE DEF Here, Left
  <2>7. Cardinality(Employee) = Cardinality(Here) + Cardinality(L)
    BY ONLY <2>2, <2>3, <2>4, <2>5, <2>6, Parted
  <2> QED BY <2>1, <2>7
<1>4. ASSUME NEW d \in Crew!Days
      PROVE  Cardinality(Left(0, LastDay)) = Cardinality(Left(0, d)) + Cardinality(Left(d + 1, LastDay))
  <2>1. d \in 0..LastDay /\ LastDay \in Nat
    BY StaffSizes DEF Crew!Days
  <2>2. 0..LastDay = (0..d) \cup ((d + 1)..LastDay) /\ (0..d) \cap ((d + 1)..LastDay) = {}
    BY ONLY <2>1
  <2>3. /\ Left(0, d) \in SUBSET Left(0, LastDay) /\ Left(d + 1, LastDay) \in SUBSET Left(0, LastDay)
        /\ Left(0, d) \cup Left(d + 1, LastDay) = Left(0, LastDay)
        /\ Left(0, d) \cap Left(d + 1, LastDay) = {}
    BY ONLY <2>2
  <2>4. IsFiniteSet(Left(0, LastDay))
    <3>1. Left(0, LastDay) \in SUBSET Employee
      OBVIOUS
    <3> HIDE DEF Left
    <3> QED BY <3>1, StaffSizes, FS_Subset
  <2> HIDE DEF Left
  <2> QED BY <2>3, <2>4, Parted
<1> HIDE DEF Here, Left
<1>5. Crew!Headcount + Crew!LeftIn(0, LastDay) = Cardinality(Employee)
  BY <1>2, <1>3
<1>6. \A d \in Crew!Days : Crew!LeftIn(0, d) + Crew!LeftIn(d + 1, LastDay) = Crew!LeftIn(0, LastDay)
  BY <1>2, <1>4
<1> QED BY <1>5, <1>6, CountsAre DEF Crew!HeadsAreMoves

LEMMA HoursFollow ==
  ASSUME StaffInv, Corrects \subseteq {"status"}
  PROVE  Crew!HoursAreTheTimes
BY DEF StaffInv, Timely, Hours, Crew!HoursAreTheTimes, Crew!Recorded


-----------------------------------------------------------------------------
(* Payroll and the dashboard count the same days.                          *)

Marked(e, d, S) == Crew!Recorded(e, d) /\ day[e][d].status \in S
DaysAs(e, from, to, S)  == {d \in from..to : Marked(e, d, S)}
PairsAs(from, to, S)    == {x \in Employee \X (from..to) : Marked(x[1], x[2], S)}
RowsAs(e, from, to, S)  == {r \in Crew!Records(e, from, to) : r.status \in S}
Heads(from, to, S)      == [e \in Employee |-> Cardinality(DaysAs(e, from, to, S))]

LEMMA Windows ==
  ASSUME NEW from \in Crew!Days, NEW to \in Crew!Days
  PROVE  IsFiniteSet(from..to) /\ \A e, S : IsFiniteSet(DaysAs(e, from, to, S))
<1>1. from \in Int /\ to \in Int
  BY StaffSizes DEF Crew!Days
<1>2. IsFiniteSet(from..to)
  BY <1>1, FS_Interval
<1>3. \A e, S : DaysAs(e, from, to, S) \in SUBSET (from..to)
  BY DEF DaysAs
<1> QED BY <1>2, <1>3, FS_Subset

LEMMA RowsAreDays ==
  ASSUME NEW e, NEW from \in Crew!Days, NEW to \in Crew!Days, NEW S
  PROVE  /\ IsFiniteSet(RowsAs(e, from, to, S))
         /\ Cardinality(RowsAs(e, from, to, S)) = Cardinality(DaysAs(e, from, to, S))
<1> DEFINE row(d) == [day |-> d, status |-> day[e][d].status, approved |-> FALSE, overtime |-> 0]
           D == DaysAs(e, from, to, S)
           R == RowsAs(e, from, to, S)
           f == [d \in D |-> row(d)]
<1>1. \A d : row(d).day = d /\ row(d).status = day[e][d].status
  OBVIOUS
<1>2. R = {row(d) : d \in D}
  <2>1. \A r \in R : \E d \in D : r = row(d)
    BY DEF RowsAs, DaysAs, Marked, Crew!Records
  <2>2. \A d \in D : row(d) \in R
    BY DEF RowsAs, DaysAs, Marked, Crew!Records
  <2> HIDE DEF row, D, R
  <2> QED BY <2>1, <2>2
<1>3. f \in Bijection(D, R)
  <2> HIDE DEF row, D, R
  <2>1. f \in [D -> R] /\ (\A r \in R : \E d \in D : f[d] = r) /\ (\A a, b \in D : f[a] = f[b] => a = b)
    BY <1>1, <1>2
  <2> HIDE DEF f
  <2> QED BY ONLY <2>1 DEF Bijection, Injection, Surjection, IsInjective
<1>4. IsFiniteSet(D)
  BY Windows
<1> HIDE DEF D, R, f
<1>5. ExistsBijection(D, R)
  BY <1>3 DEF ExistsBijection
<1>6. IsFiniteSet(R) /\ Cardinality(R) = Cardinality(D)
  BY <1>4, <1>5, FS_Bijection
<1> QED BY <1>6 DEF D, R

LEMMA CountedIs ==
  ASSUME NEW from \in Crew!Days, NEW to \in Crew!Days, NEW S
  PROVE  /\ Crew!Counted(from, to, S) = Cardinality(PairsAs(from, to, S))
         /\ Cardinality(PairsAs(from, to, S)) = Total(Heads(from, to, S), Employee)
         /\ \A e \in Employee : Heads(from, to, S)[e] \in Nat
<1>1. Crew!Counted(from, to, S) = Cardinality(PairsAs(from, to, S))
  BY CountsAre DEF Crew!Counted, PairsAs, Marked
<1>2. PICK D : D = from..to
  OBVIOUS
<1>3. PICK R \in SUBSET (Employee \X D) : R = PairsAs(from, to, S)
  BY <1>2 DEF PairsAs
<1>4. /\ Cardinality(R) = Total(Fibres(R, Employee, D), Employee)
      /\ \A e \in Employee : Fibres(R, Employee, D)[e] \in Nat
  <2>1. IsFiniteSet(D) /\ IsFiniteSet(Employee)
    BY <1>2, Windows, StaffSizes
  <2> QED BY ONLY <2>1, R \in SUBSET (Employee \X D), PairsAddUp
<1>5. \A e \in Employee : Fibre(R, e, D) = DaysAs(e, from, to, S)
  BY <1>2, <1>3 DEF Fibre, DaysAs, PairsAs
<1>6. Fibres(R, Employee, D) = Heads(from, to, S)
  BY <1>5 DEF Fibres, Heads
<1> QED BY <1>1, <1>3, <1>4, <1>6

(* The statuses of a working day, by what they are paid.                   *)
FullDay  == {"present", "late"}
Half     == {"half_day"}
OnLeave  == {"on_leave"}
WorkDay  == {"present", "late", "half_day", "on_leave", "absent"}

LEMMA StatusesAre ==
  /\ DOMAIN Crew!P!Present = WorkDay /\ Crew!Expected = FullDay \cup Half \cup {"absent"}
  /\ \A s \in WorkDay : Crew!P!Present[s] = IF s \in FullDay \cup OnLeave THEN 2 ELSE IF s \in Half THEN 1 ELSE 0
BY DEF Crew!P!Present, Crew!Expected, FullDay, Half, OnLeave, WorkDay

LEMMA DaysSplit ==
  ASSUME NEW e, NEW from \in Crew!Days, NEW to \in Crew!Days, NEW S, NEW A, NEW B, S = A \cup B, A \cap B = {}
  PROVE  /\ Cardinality(DaysAs(e, from, to, S)) = Cardinality(DaysAs(e, from, to, A)) + Cardinality(DaysAs(e, from, to, B))
         /\ Cardinality(DaysAs(e, from, to, A)) \in Nat /\ Cardinality(DaysAs(e, from, to, B)) \in Nat
<1>1. PICK X, Y, Z : X = DaysAs(e, from, to, S) /\ Y = DaysAs(e, from, to, A) /\ Z = DaysAs(e, from, to, B)
  OBVIOUS
<1>2. Y \in SUBSET X /\ Z \in SUBSET X /\ Y \cup Z = X /\ Y \cap Z = {}
  BY <1>1 DEF DaysAs, Marked
<1>3. IsFiniteSet(X)
  BY <1>1, Windows
<1>4. Cardinality(X) = Cardinality(Y) + Cardinality(Z) /\ Cardinality(Y) \in Nat /\ Cardinality(Z) \in Nat
  <2>1. Y \in SUBSET X
    BY ONLY <1>2
  <2>2. Z \in SUBSET X
    BY ONLY <1>2
  <2>3. Y \cup Z = X
    BY ONLY <1>2
  <2>4. Y \cap Z = {}
    BY ONLY <1>2
  <2>5. Cardinality(X) = Cardinality(Y) + Cardinality(Z)
    BY ONLY <1>3, <2>1, <2>2, <2>3, <2>4, Parted
  <2>6. IsFiniteSet(Y) /\ IsFiniteSet(Z)
    BY ONLY <1>3, <2>1, <2>2, FS_Subset
  <2> QED BY ONLY <2>5, <2>6, FS_CardinalityType
<1> QED BY <1>1, <1>4

(* What the payslip of one employee counts.                                *)
LEMMA AttendedIs ==
  ASSUME NEW e \in Employee, NEW from \in Crew!Days, NEW to \in Crew!Days
  PROVE  LET c(S) == Cardinality(DaysAs(e, from, to, S)) IN
         /\ Crew!P!Attended(Crew!Records(e, from, to))["working"] = 2 * c(WorkDay)
         /\ Crew!P!Attended(Crew!Records(e, from, to))["present"] = 2 * c(FullDay) + c(Half) + 2 * c(OnLeave)
<1>1. PICK T : T = RowsAs(e, from, to, WorkDay)
  OBVIOUS
<1>2. PICK f : f = [r \in T |-> Crew!P!Present[r.status]]
  OBVIOUS
<1>3. T = {r \in Crew!Records(e, from, to) : r.status \in DOMAIN Crew!P!Present}
  BY <1>1, StatusesAre DEF RowsAs
<1>4. Crew!P!Attended(Crew!Records(e, from, to))["working"] = 2 * Cardinality(T)
  BY <1>3, CountsAre DEF Crew!P!Attended
<1>5. Crew!P!Attended(Crew!Records(e, from, to))["present"] = Total(f, T)
  <2>1. Crew!P!Attended(Crew!Records(e, from, to))["present"] = Crew!P!SumFunctionOnSet(f, T)
    BY <1>2, <1>3 DEF Crew!P!Attended
  <2>2. Crew!P!SumFunctionOnSet(f, T) = Total(f, T)
    BY DEF Crew!P!SumFunctionOnSet, Crew!P!FoldFunctionOnSet, Crew!P!MapThenFoldSet, MapThenFoldSet,
           Total, IsSum, Partial, Pick
  <2> QED BY <2>1, <2>2
<1>6. PICK A, B : A = RowsAs(e, from, to, FullDay \cup OnLeave) /\ B = RowsAs(e, from, to, Half)
  OBVIOUS
<1>7. /\ A \in SUBSET T /\ B \in SUBSET T /\ A \cap B = {}
      /\ \A r \in A : r.status \in WorkDay /\ r.status \in FullDay \cup OnLeave
      /\ \A r \in B : r.status \in WorkDay /\ r.status \in Half /\ r.status \notin FullDay \cup OnLeave
      /\ \A r \in T \ (A \cup B) : r.status \in WorkDay /\ r.status \notin Half /\ r.status \notin FullDay \cup OnLeave
  BY <1>1, <1>6 DEF RowsAs, FullDay, Half, OnLeave, WorkDay
<1>8. (\A r \in A : f[r] = 2) /\ (\A r \in B : f[r] = 1) /\ (\A r \in T \ (A \cup B) : f[r] = 0)
  BY <1>2, <1>7, StatusesAre
<1>9. IsFiniteSet(T) /\ Cardinality(T) = Cardinality(DaysAs(e, from, to, WorkDay))
  BY <1>1, RowsAreDays
<1>10. Total(f, T) = 2 * Cardinality(A) + Cardinality(B)
  BY ONLY <1>7, <1>8, <1>9, TwosAndOnes
<1>11. Cardinality(A) = Cardinality(DaysAs(e, from, to, FullDay \cup OnLeave))
       /\ Cardinality(B) = Cardinality(DaysAs(e, from, to, Half))
  BY <1>6, RowsAreDays
<1>12. /\ Cardinality(DaysAs(e, from, to, FullDay \cup OnLeave))
            = Cardinality(DaysAs(e, from, to, FullDay)) + Cardinality(DaysAs(e, from, to, OnLeave))
       /\ Cardinality(DaysAs(e, from, to, FullDay)) \in Nat /\ Cardinality(DaysAs(e, from, to, OnLeave)) \in Nat
  <2>1. FullDay \cap OnLeave = {}
    BY DEF FullDay, OnLeave
  <2> QED BY <2>1, DaysSplit
<1>13. Cardinality(DaysAs(e, from, to, Half)) \in Nat
  BY Windows, FS_CardinalityType
<1>14. PICK a, b, l, x : /\ a = Cardinality(DaysAs(e, from, to, FullDay)) /\ b = Cardinality(DaysAs(e, from, to, Half))
                         /\ l = Cardinality(DaysAs(e, from, to, OnLeave)) /\ x = Cardinality(A)
  OBVIOUS
<1>15. Total(f, T) = 2 * a + b + 2 * l
  <2>1. x = a + l /\ a \in Nat /\ l \in Nat /\ b \in Nat /\ Total(f, T) = 2 * x + b
    BY <1>10, <1>11, <1>12, <1>13, <1>14
  <2> QED BY ONLY <2>1
<1> QED BY <1>4, <1>5, <1>9, <1>14, <1>15

LEMMA OnPayslipsIs ==
  ASSUME NEW from, NEW to, NEW part0, NEW f,
         f = [e \in Employee |-> Crew!P!Attended(Crew!Records(e, from, to))[part0]]
  PROVE  Crew!OnPayslips(from, to, part0) = Total(f, Employee)
BY DEF Crew!OnPayslips, Crew!SumFunctionOnSet, Crew!FoldFunctionOnSet, Crew!MapThenFoldSet, MapThenFoldSet,
       Total, IsSum, Partial, Pick

LEMMA SameDaysFollow == Crew!SameDays
<1> SUFFICES ASSUME NEW from \in Crew!Days, NEW to \in Crew!Days
             PROVE  LET leave0 == 2 * Crew!Counted(from, to, OnLeave) IN
                    /\ Crew!OnPayslips(from, to, "working") = 2 * Crew!ExpectedDays(from, to) + leave0
                    /\ Crew!OnPayslips(from, to, "present") = Crew!Credited(from, to) + leave0
                    /\ Crew!Credited(from, to) <= 2 * Crew!ExpectedDays(from, to)
  BY DEF Crew!SameDays, OnLeave
<1>1. PICK a, b, l, x, y : /\ a = Heads(from, to, FullDay) /\ b = Heads(from, to, Half)
                           /\ l = Heads(from, to, OnLeave) /\ x = Heads(from, to, Crew!Expected)
                           /\ y = Heads(from, to, WorkDay)
  OBVIOUS
<1>2. \A e \in Employee : /\ a[e] \in Int /\ b[e] \in Int /\ l[e] \in Int /\ x[e] \in Int /\ y[e] \in Int
  BY <1>1, CountedIs
<1>3. \A e \in Employee : y[e] = x[e] + l[e]
  <2> SUFFICES ASSUME NEW e \in Employee PROVE y[e] = x[e] + l[e]
    OBVIOUS
  <2>1. WorkDay = Crew!Expected \cup OnLeave /\ Crew!Expected \cap OnLeave = {}
    BY DEF WorkDay, OnLeave, Crew!Expected
  <2>2. Cardinality(DaysAs(e, from, to, WorkDay))
          = Cardinality(DaysAs(e, from, to, Crew!Expected)) + Cardinality(DaysAs(e, from, to, OnLeave))
    BY <2>1, DaysSplit
  <2> QED BY <1>1, <2>2 DEF Heads
<1>4. PICK w, p : /\ w = [e \in Employee |-> Crew!P!Attended(Crew!Records(e, from, to))["working"]]
                  /\ p = [e \in Employee |-> Crew!P!Attended(Crew!Records(e, from, to))["present"]]
  OBVIOUS
<1>5. \A e \in Employee : w[e] = y[e] + y[e] /\ p[e] = 2 * a[e] + b[e] + 2 * l[e]
  <2> SUFFICES ASSUME NEW e \in Employee PROVE w[e] = y[e] + y[e] /\ p[e] = 2 * a[e] + b[e] + 2 * l[e]
    OBVIOUS
  <2>1. w[e] = 2 * Cardinality(DaysAs(e, from, to, WorkDay)) /\ y[e] = Cardinality(DaysAs(e, from, to, WorkDay))
    BY <1>1, <1>4, AttendedIs DEF Heads
  <2>2. w[e] = y[e] + y[e]
    BY <1>2, <2>1
  <2>3. /\ p[e] = 2 * Cardinality(DaysAs(e, from, to, FullDay)) + Cardinality(DaysAs(e, from, to, Half))
                   + 2 * Cardinality(DaysAs(e, from, to, OnLeave))
        /\ a[e] = Cardinality(DaysAs(e, from, to, FullDay)) /\ b[e] = Cardinality(DaysAs(e, from, to, Half))
        /\ l[e] = Cardinality(DaysAs(e, from, to, OnLeave))
    BY <1>1, <1>4, AttendedIs DEF Heads
  <2> QED BY <2>2, <2>3
<1>6. PICK aa, ll, ab : /\ aa = [e \in Employee |-> a[e] + a[e]] /\ ll = [e \in Employee |-> l[e] + l[e]]
                        /\ ab = [e \in Employee |-> aa[e] + b[e]]
  OBVIOUS
<1>7. Adds(aa, a, a, Employee) /\ Adds(ll, l, l, Employee)
  BY <1>2, <1>6 DEF Adds
<1>8. Adds(ab, aa, b, Employee)
  BY <1>2, <1>6, <1>7 DEF Adds
<1>9. Adds(p, ab, ll, Employee)
  BY <1>2, <1>5, <1>6 DEF Adds
<1>10. Adds(y, x, l, Employee)
  BY <1>2, <1>3 DEF Adds
<1>11. Adds(w, y, y, Employee)
  BY <1>2, <1>5 DEF Adds
<1>12. /\ Total(aa, Employee) = Total(a, Employee) + Total(a, Employee)
       /\ Total(ll, Employee) = Total(l, Employee) + Total(l, Employee)
       /\ Total(ab, Employee) = Total(aa, Employee) + Total(b, Employee)
       /\ Total(p, Employee) = Total(ab, Employee) + Total(ll, Employee)
       /\ Total(y, Employee) = Total(x, Employee) + Total(l, Employee)
       /\ Total(w, Employee) = Total(y, Employee) + Total(y, Employee)
  BY ONLY <1>7, <1>8, <1>9, <1>10, <1>11, StaffSizes, TotalPlus
<1>13. PICK A, B, L, X : /\ A = Total(a, Employee) /\ B = Total(b, Employee)
                         /\ L = Total(l, Employee) /\ X = Total(x, Employee)
  OBVIOUS
<1>14. /\ Crew!Counted(from, to, FullDay) = A /\ Crew!Counted(from, to, Half) = B
       /\ Crew!Counted(from, to, OnLeave) = L /\ Crew!Counted(from, to, Crew!Expected) = X
  BY <1>1, <1>13, CountedIs
<1>15. A \in Nat /\ B \in Nat /\ L \in Nat /\ X \in Nat /\ A + B <= X
  <2>1. PICK RA, RB, RX, RL : /\ RA = PairsAs(from, to, FullDay) /\ RB = PairsAs(from, to, Half)
                              /\ RX = PairsAs(from, to, Crew!Expected) /\ RL = PairsAs(from, to, OnLeave)
    OBVIOUS
  <2>2. /\ RA \cup RB \in SUBSET RX /\ RA \cap RB = {} /\ RA \in SUBSET (RA \cup RB) /\ RB \in SUBSET (RA \cup RB)
        /\ RX \in SUBSET (Employee \X (from..to)) /\ RL \in SUBSET (Employee \X (from..to))
    BY <2>1, StatusesAre DEF PairsAs, Marked, FullDay, Half
  <2>3. IsFiniteSet(Employee \X (from..to))
    BY Windows, StaffSizes, FS_Product
  <2>4. IsFiniteSet(RX) /\ IsFiniteSet(RL)
    BY ONLY <2>2, <2>3, FS_Subset
  <2>5. IsFiniteSet(RA \cup RB) /\ Cardinality(RA \cup RB) <= Cardinality(RX)
    BY ONLY <2>2, <2>4, FS_Subset
  <2>6. /\ Cardinality(RA \cup RB) = Cardinality(RA) + Cardinality(RB)
        /\ Cardinality(RA) \in Nat /\ Cardinality(RB) \in Nat
    BY ONLY <2>2, <2>5, Parted
  <2>7. Cardinality(RX) \in Nat /\ Cardinality(RL) \in Nat
    BY ONLY <2>4, FS_CardinalityType
  <2>8. A = Cardinality(RA) /\ B = Cardinality(RB) /\ X = Cardinality(RX) /\ L = Cardinality(RL)
    BY <1>1, <1>13, <2>1, CountedIs
  <2> QED BY ONLY <2>5, <2>6, <2>7, <2>8
<1>16. Crew!OnPayslips(from, to, "working") = Total(w, Employee)
       /\ Crew!OnPayslips(from, to, "present") = Total(p, Employee)
  BY <1>4, OnPayslipsIs
<1>17. Crew!Credited(from, to) = 2 * A + B /\ Crew!ExpectedDays(from, to) = X
  BY <1>14 DEF Crew!Credited, Crew!ExpectedDays, FullDay, Half
<1>18. PICK W, Q : W = Total(w, Employee) /\ Q = Total(p, Employee)
  OBVIOUS
<1>19. W = 2 * X + 2 * L /\ Q = 2 * A + B + 2 * L /\ 2 * A + B <= 2 * X
  BY ONLY <1>12, <1>13, <1>15, <1>18
<1> QED BY <1>14, <1>16, <1>17, <1>18, <1>19

-----------------------------------------------------------------------------
(* The parts together.                                                     *)

(* What is done to organisations, roles and the chart leaves the rows of   *)
(* payroll, leave and personnel alone.                                     *)
LEMMA OwnRows ==
  [PeopleNext]_allVars => [Next]_vars /\ [Holidays!Next]_leaveVars /\ [Crew!Next]_staffVars
<1>1. CASE UNCHANGED allVars
  BY <1>1 DEF allVars, payrollVars
<1>2. ASSUME WorkNext PROVE [Next]_vars /\ [Holidays!Next]_leaveVars /\ [Crew!Next]_staffVars
  BY <1>2, LookedAt DEF WorkNext, payrollVars, Crew!Next
<1>3. CASE PeopleNext
  BY <1>2, <1>3 DEF PeopleNext, payrollVars
<1> QED BY <1>1, <1>3

(* PayrollTypeOK (payroll/models.py, hr/models.py): the columns of runs,   *)
(* payslips and overtime slips keep their types, and the row of a run is   *)
(* locked exactly while a request calculates it, whichever request dies.   *)
THEOREM PayrollTypes == Spec => []PayrollTypeOK
<1>1. Init => PayrollTyped
  BY PayrollBegin DEF PayrollInv
<1>2. PayrollTyped /\ [Next]_vars => PayrollTyped'
  BY TypedStep
<1>3. PayrollTyped => PayrollTypeOK
  BY DEF PayrollTyped
<1> QED BY <1>1, <1>2, <1>3, PTL DEF Spec

(* PaidByTheRules (payroll/services/engine.py, payroll/viewsets.py): where *)
(* requests that prepare a run or a slip do not overlap others on it, a    *)
(* run is accrued once, for what its payslips say, and paid out once, for  *)
(* what was accrued, however approvals, postings and payments interleave;  *)
(* nobody approves what he calculated; an overtime slip is on the payslips *)
(* of the run that claimed it; and register, dashboard and ledger agree.   *)
THEOREM PaidOnceAndAsFiled == OneOfficer = TRUE => (PeopleSpec => []PaidByTheRules)
<1> SUFFICES ASSUME OneOfficer = TRUE PROVE PeopleSpec => []PaidByTheRules
  OBVIOUS
<1>1. PeopleInit => PayrollInv
  BY PayrollBegin DEF PeopleInit
<1>2. PayrollInv /\ [PeopleNext]_allVars => PayrollInv'
  BY OwnRows, PayrollStep
<1>3. PayrollInv => PaidByTheRules
  BY PayrollFollows
<1> QED BY <1>1, <1>2, <1>3, PTL DEF PeopleSpec

(* TimeAddsUp (hr/services/leave.py, hr/viewsets.py, hr/services/          *)
(* metrics.py): where one request at a time edits a row and supervisors    *)
(* correct the status of a day only, a leave balance holds, takes and      *)
(* grants what the requests that name it and the months ask for, and is    *)
(* never promised twice, until a PATCH moves a live request to another     *)
(* balance or gives it dates of another length; the heads of the dashboard *)
(* are its moves; payroll and dashboard count the same days; and the hours *)
(* of a day are those between its times from check_out on, and none before.*)
THEOREM TimesAddUp ==
  OneOfficer = TRUE /\ Corrects \subseteq {"status"} => (PeopleSpec => []TimeAddsUp)
<1> SUFFICES ASSUME OneOfficer = TRUE, Corrects \subseteq {"status"} PROVE PeopleSpec => []TimeAddsUp
  OBVIOUS
<1> DEFINE Inv == LeaveInv /\ StaffInv
<1>1. PeopleInit => Inv
  BY LeaveBegins, StaffBegins DEF PeopleInit
<1>2. Inv /\ [PeopleNext]_allVars => Inv'
  BY OwnRows, LeaveStep, StaffStep
<1>3. Inv => TimeAddsUp
  BY LeaveFollows, HeadsFollow, SameDaysFollow, HoursFollow DEF TimeAddsUp
<1> HIDE DEF Inv
<1> QED BY <1>1, <1>2, <1>3, PTL DEF PeopleSpec
===============================================================================
