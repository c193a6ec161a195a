--------------------------- MODULE DocumentsProofs ---------------------------
(***************************************************************************)
(* Proofs about the parts of MCDocuments, for any number of rows, clerks,  *)
(* workers and amounts: the types of all four; that the obligation in the  *)
(* ledger is the bill and money goes out once, where an author's requests  *)
(* have a document to themselves (OneDesk); that a matched bank line is    *)
(* explained to the last unit, that time is billed once, and that a key    *)
(* has its transition done once.                                           *)
(***************************************************************************)
EXTENDS MCDocuments, SumTheorems

-----------------------------------------------------------------------------
(* Bills, their payments and expense claims.                               *)
(* The statuses in which a document can still be edited, or is not there.  *)
Open == {"absent", "draft", "awaiting", "submitted"}

Copy(d) == IF d \in Bill THEN BillRow ELSE ClaimRow

TypeInv ==
  /\ PayablesTypeOK
  /\ \A w \in Clerk : ws[w].verb # "idle" => ws[w].doc \in Doc /\ ws[w].seen \in Copy(ws[w].doc)

(* A request knows its document: the amount it read is the amount there    *)
(* is, an author holds the very row, and what was past editing is so       *)
(* still.                                                                  *)
Knows(w) == LET k == ws[w]  row == RowOf(ws[w].doc) IN
  /\ row.status # "absent" /\ k.seen.total = row.total
  /\ k.verb = "edit" => k.seen.status \in Open
  /\ k.verb \in Author /\ k.seen.status \in Open /\ k.doc \notin Early => row = k.seen
  /\ k.verb = "post" /\ k.doc \notin Early => row.status \notin Open
  /\ k.doc \in Claim /\ k.seen.entry => row.entry

Exclusive == \A v, w \in Clerk :
  v # w /\ ws[v].doc = ws[w].doc /\ ws[v].doc # NoDoc => ws[v].verb \notin Author

WorkInv == \A w \in Clerk : IF ws[w].verb = "idle" THEN ws[w] = Idle ELSE Knows(w)

(* Only a document past editing is in the ledger, with the amount it has;  *)
(* a bill has no payment with the key of its next one.                     *)
BillInv(b) ==
  /\ owed[b].cost > 0 => bills[b].status \notin Open
  /\ owed[b].cost > 0 => owed[b].cost = bills[b].total /\ owed[b].cost = lines[b]
  /\ bills[b].entry => owed[b].cost > 0
  /\ bills[b].paid = owed[b].settled /\ owed[b].settled <= owed[b].cost
  /\ \A p \in payments[b] : p[1] < bills[b].paid

ClaimInv(c) ==
  /\ claims[c].status # "absent" => claims[c].total > 0
  /\ accrued[c].cost > 0 => claims[c].status \notin Open /\ accrued[c].cost = claims[c].total
  /\ claims[c].entry => accrued[c].cost > 0
  /\ accrued[c].settled \in {0, accrued[c].cost}
  /\ claims[c].status = "reimbursed" => accrued[c].settled > 0

Inv ==
  /\ TypeInv /\ WorkInv /\ Exclusive
  /\ \A b \in Bill \ Early : BillInv(b)
  /\ \A c \in Claim : ClaimInv(c)
-----------------------------------------------------------------------------
(* Types.                                                                  *)
Work == [verb : Verb \cup {"idle"}, doc : Doc \cup {NoDoc}, seen : BillRow \cup ClaimRow]

LEMMA NoRows == NoBill \in BillRow /\ NoClaim \in ClaimRow /\ NoEntries \in Entries
BY DEF NoBill, NoClaim, NoEntries, BillRow, ClaimRow, Entries

(* What the verbs write.                                                   *)
LEMMA Writes ==
  /\ \A r \in BillRow, to \in BillStatus :
       /\ [r EXCEPT !.status = to] \in BillRow /\ [r EXCEPT !.entry = TRUE] \in BillRow
       /\ [r EXCEPT !.status = to, !.entry = TRUE] \in BillRow
  /\ \A r \in BillRow, n, h \in Nat : [r EXCEPT !.total = n, !.withheld = h] \in BillRow
  /\ \A r \in ClaimRow, to \in ClaimStatus :
       /\ [r EXCEPT !.status = to] \in ClaimRow
       /\ [r EXCEPT !.status = to, !.entry = TRUE] \in ClaimRow
       /\ [r EXCEPT !.status = to, !.refund = TRUE] \in ClaimRow
  /\ \A e \in Entries, n \in Nat : /\ [e EXCEPT !.cost = n] \in Entries
                                  /\ [e EXCEPT !.settled = n] \in Entries
BY DEF BillRow, ClaimRow, Entries

LEMMA Statuses ==
  /\ {"awaiting", "approved", "voided"} \subseteq BillStatus
  /\ {"submitted", "approved", "rejected", "reimbursed"} \subseteq ClaimStatus
BY DEF BillStatus, ClaimStatus

LEMMA EndTyped ==
  ASSUME TypeInv, NEW w \in Clerk, End(w)
  PROVE  /\ ws' \in [Clerk -> Work] /\ ws'[w] = Idle
         /\ \A v \in Clerk : ws'[v].verb # "idle" => ws'[v].doc \in Doc /\ ws'[v].seen \in Copy(ws'[v].doc)
<1>1. ws \in [Clerk -> Work] /\ Idle \in Work
  BY NoRows DEF TypeInv, PayablesTypeOK, Work, Idle
<1>2. /\ ws' \in [Clerk -> Work] /\ ws'[w] = Idle
      /\ \A v \in Clerk : v # w => ws'[v] = ws[v]
  BY <1>1 DEF End
<1>3. Idle.verb = "idle"
  BY DEF Idle
<1> QED
  BY <1>2, <1>3 DEF TypeInv

(* What a request holds is a row of its document.                          *)
LEMMA Holding ==
  ASSUME TypeInv, NEW w \in Clerk, ws[w].verb # "idle"
  PROVE  /\ ws[w].doc \in Bill => ws[w].seen \in BillRow /\ bills[ws[w].doc] \in BillRow
                                  /\ owed[ws[w].doc] \in Entries
         /\ ws[w].doc \in Claim => ws[w].seen \in ClaimRow /\ claims[ws[w].doc] \in ClaimRow
                                   /\ accrued[ws[w].doc] \in Entries
BY ConstantsOK DEF TypeInv, Copy, PayablesTypeOK

LEMMA TypeStep == TypeInv /\ [Next]_vars => TypeInv'
<1> SUFFICES ASSUME TypeInv, [Next]_vars PROVE TypeInv'
  OBVIOUS
<1> USE DEF PayablesTypeOK
<1>1. CASE UNCHANGED vars
  BY <1>1 DEF vars, TypeInv
<1>2. ASSUME NEW b \in Bill, CreateBill(b) PROVE TypeInv'
  <2>1. PICK t \in LineTotal, h \in Withheld :
          /\ h <= t
          /\ bills' = [bills EXCEPT ![b] = [NoBill EXCEPT !.status = "draft", !.total = t - h,
                                                          !.withheld = h]]
          /\ lines' = [lines EXCEPT ![b] = t]
    BY <1>2 DEF CreateBill
  <2>2. t \in Nat /\ h \in Nat /\ t - h \in Nat
    BY <2>1, ConstantsOK
  <2>3. [NoBill EXCEPT !.status = "draft", !.total = t - h, !.withheld = h] \in BillRow
    BY <2>2, NoRows DEF BillRow, BillStatus
  <2> QED
    BY <1>2, <2>1, <2>2, <2>3 DEF CreateBill, TypeInv
<1>3. ASSUME NEW b \in Bill, PayBill(b) PROVE TypeInv'
  <2>1. PICK a \in Amount :
          /\ owed' = IF <<bills[b].paid, a>> \in payments[b] THEN owed
                     ELSE [owed EXCEPT ![b] = [owed[b] EXCEPT !.settled = owed[b].settled + a]]
          /\ payments' = [payments EXCEPT ![b] = payments[b] \cup {<<bills[b].paid, a>>}]
          /\ bills' = [bills EXCEPT ![b] = PaidRow(bills[b], a)]
    BY <1>3 DEF PayBill
  <2>2. a \in Nat /\ bills[b] \in BillRow /\ owed[b] \in Entries
    BY ConstantsOK DEF TypeInv
  <2>3. PaidRow(bills[b], a) \in BillRow /\ bills[b].paid \in Nat
        /\ [owed[b] EXCEPT !.settled = owed[b].settled + a] \in Entries
    <3>1. bills[b].paid + a \in Nat /\ bills[b].paid \in Nat /\ owed[b].settled + a \in Nat
      BY <2>2 DEF BillRow, Entries
    <3>2. PICK to \in {"paid", "partially_paid"} :
            PaidRow(bills[b], a) = [bills[b] EXCEPT !.paid = bills[b].paid + a, !.status = to]
      BY DEF PaidRow
    <3>3. PaidRow(bills[b], a) \in BillRow
      BY <2>2, <3>1, <3>2 DEF BillRow, BillStatus
    <3> QED
      BY <2>2, <3>1, <3>3, Writes
  <2>4. bills' \in [Bill -> BillRow] /\ owed' \in [Bill -> Entries]
    BY <2>1, <2>3 DEF TypeInv
  <2>5. payments' \in [Bill -> SUBSET (Nat \X Nat)]
    BY <2>1, <2>2, <2>3 DEF TypeInv
  <2> QED
    BY <1>3, <2>4, <2>5 DEF PayBill, TypeInv
<1>4. ASSUME NEW c \in Claim, CreateClaim(c) PROVE TypeInv'
  <2>1. PICK t \in LineTotal :
          claims' = [claims EXCEPT ![c] = [NoClaim EXCEPT !.status = "draft", !.total = t]]
    BY <1>4 DEF CreateClaim
  <2>2. [NoClaim EXCEPT !.status = "draft", !.total = t] \in ClaimRow
    BY NoRows, ConstantsOK DEF ClaimRow, ClaimStatus
  <2> QED
    BY <1>4, <2>1, <2>2 DEF CreateClaim, TypeInv
<1>5. ASSUME NEW w \in Clerk, NEW verb \in Verb, NEW d \in Doc, Read(w, verb, d) PROVE TypeInv'
  <2> DEFINE k == [verb |-> verb, doc |-> d, seen |-> RowOf(d)]
  <2>1. ws' = [ws EXCEPT ![w] = k] /\ UNCHANGED <<bills, lines, claims, owed, payments, accrued>>
    BY <1>5 DEF Read
  <2>2. RowOf(d) \in Copy(d) /\ RowOf(d) \in BillRow \cup ClaimRow
    BY DEF TypeInv, RowOf, Copy, Doc
  <2>3. k \in Work /\ k.doc = d /\ k.seen = RowOf(d)
    BY <2>2 DEF Work
  <2> HIDE DEF k
  <2>4. ws \in [Clerk -> Work]
    BY DEF TypeInv, Work
  <2>5. ws' \in [Clerk -> Work] /\ ws'[w] = k /\ \A v \in Clerk : v # w => ws'[v] = ws[v]
    BY <2>1, <2>3, <2>4
  <2>6. \A v \in Clerk : ws'[v].verb # "idle" => ws'[v].doc \in Doc /\ ws'[v].seen \in Copy(ws'[v].doc)
    BY <2>2, <2>3, <2>5 DEF TypeInv
  <2> QED
    BY <2>1, <2>5, <2>6 DEF TypeInv, Work, Copy
<1>6. ASSUME NEW w \in Clerk, EditBill(w) PROVE TypeInv'
  <2>1. ws[w].verb # "idle" /\ ws[w].doc \in Bill /\ End(w)
    BY <1>6 DEF EditBill, Serves
  <2>2. PICK t \in LineTotal \cup {lines[ws[w].doc]}, h \in Withheld \cup {ws[w].seen.withheld} :
          /\ t - h >= ws[w].seen.paid
          /\ lines' = [lines EXCEPT ![ws[w].doc] = t]
          /\ bills' = [bills EXCEPT ![ws[w].doc] = [ws[w].seen EXCEPT !.total = t - h, !.withheld = h]]
    BY <1>6 DEF EditBill
  <2>3. ws[w].seen \in BillRow /\ t \in Nat /\ h \in Nat /\ ws[w].seen.paid \in Nat
    BY <2>1, Holding, ConstantsOK DEF TypeInv, BillRow
  <2>4. [ws[w].seen EXCEPT !.total = t - h, !.withheld = h] \in BillRow
    <3>1. t - h \in Nat
      BY <2>2, <2>3
    <3> QED
      BY <2>3, <3>1, Writes
  <2>5. bills' \in [Bill -> BillRow] /\ lines' \in [Bill -> Nat]
    BY <2>2, <2>3, <2>4 DEF TypeInv
  <2> QED
    BY <1>6, <2>1, <2>5, EndTyped DEF EditBill, TypeInv, Work, Copy
<1>7. ASSUME NEW w \in Clerk, ApproveBill(w) \/ PostBill(w) PROVE TypeInv'
  <2>1. /\ ws[w].verb # "idle" /\ ws[w].doc \in Bill /\ End(w) /\ Posts(ws[w].doc, ws[w].seen)
        /\ \/ bills' = [bills EXCEPT ![ws[w].doc] = [bills[ws[w].doc] EXCEPT !.status = "approved", !.entry = TRUE]]
           \/ bills' = [bills EXCEPT ![ws[w].doc] = [bills[ws[w].doc] EXCEPT !.entry = TRUE]]
        /\ UNCHANGED <<lines, claims, payments, accrued>>
    BY <1>7 DEF ApproveBill, PostBill, Serves
  <2>2. ws[w].seen \in BillRow /\ bills[ws[w].doc] \in BillRow /\ owed[ws[w].doc] \in Entries
    BY <2>1, Holding
  <2>3. bills' \in [Bill -> BillRow]
    <3>1. PICK row \in BillRow : bills' = [bills EXCEPT ![ws[w].doc] = row]
      BY <2>1, <2>2, Writes, Statuses
    <3> QED
      BY <3>1 DEF TypeInv
  <2>4. owed' \in [Bill -> Entries]
    <3>1. ws[w].seen.total \in Nat /\ owed[ws[w].doc].cost \in Nat
      BY <2>2 DEF BillRow, Entries
    <3>2. PICK n \in Nat : owed' = [owed EXCEPT ![ws[w].doc] = [owed[ws[w].doc] EXCEPT !.cost = n]]
      BY <2>1, <3>1 DEF Posts
    <3>3. [owed[ws[w].doc] EXCEPT !.cost = n] \in Entries
      BY <2>2, Writes
    <3> QED
      BY <3>2, <3>3 DEF TypeInv
  <2> QED
    BY <2>1, <2>3, <2>4, EndTyped DEF TypeInv, Work, Copy
<1>8. ASSUME NEW w \in Clerk, SubmitBill(w) \/ VoidBill(w) PROVE TypeInv'
  <2>1. /\ ws[w].verb # "idle" /\ ws[w].doc \in Bill /\ End(w)
        /\ UNCHANGED <<lines, claims, owed, payments, accrued>>
        /\ \E to \in BillStatus : bills' = [bills EXCEPT ![ws[w].doc] =
                                              [bills[ws[w].doc] EXCEPT !.status = to]]
    BY <1>8, Statuses DEF SubmitBill, VoidBill, Serves
  <2>2. bills' \in [Bill -> BillRow]
    <3>1. PICK row \in BillRow : bills' = [bills EXCEPT ![ws[w].doc] = row]
      BY <2>1, Holding, Writes
    <3> QED
      BY <3>1 DEF TypeInv
  <2> QED
    BY <2>1, <2>2, EndTyped DEF TypeInv, Work, Copy
<1>9. ASSUME NEW w \in Clerk, EditClaim(w) PROVE TypeInv'
  <2>1. /\ ws[w].verb # "idle" /\ ws[w].doc \in Claim /\ End(w)
        /\ UNCHANGED <<bills, lines, owed, payments, accrued>>
        /\ \E t \in LineTotal : claims' = [claims EXCEPT ![ws[w].doc] = [ws[w].seen EXCEPT !.total = t]]
    BY <1>9 DEF EditClaim, Serves
  <2>2. claims' \in [Claim -> ClaimRow]
    BY <2>1, Holding, ConstantsOK DEF TypeInv, ClaimRow
  <2> QED
    BY <2>1, <2>2, EndTyped DEF TypeInv, Work, Copy
<1>10. ASSUME NEW w \in Clerk, SubmitClaim(w) \/ RejectClaim(w) PROVE TypeInv'
  <2>1. /\ ws[w].verb # "idle" /\ ws[w].doc \in Claim /\ End(w)
        /\ UNCHANGED <<bills, lines, owed, payments, accrued>>
        /\ \E to \in ClaimStatus : claims' = [claims EXCEPT ![ws[w].doc] =
                                                [claims[ws[w].doc] EXCEPT !.status = to]]
    BY <1>10, Statuses DEF SubmitClaim, RejectClaim, MoveClaim, Serves
  <2>2. claims' \in [Claim -> ClaimRow]
    <3>1. PICK row \in ClaimRow : claims' = [claims EXCEPT ![ws[w].doc] = row]
      BY <2>1, Holding, Writes
    <3> QED
      BY <3>1 DEF TypeInv
  <2> QED
    BY <2>1, <2>2, EndTyped DEF TypeInv, Work, Copy
<1>11. ASSUME NEW w \in Clerk, ApproveClaim(w) PROVE TypeInv'
  <2>1. ws[w].verb # "idle" /\ ws[w].doc \in Claim /\ End(w)
    BY <1>11 DEF ApproveClaim, Serves
  <2>2. claims' \in [Claim -> ClaimRow]
    <3>1. PICK row \in ClaimRow : claims' = [claims EXCEPT ![ws[w].doc] = row]
      BY <1>11, <2>1, Holding, Writes, Statuses DEF ApproveClaim
    <3> QED
      BY <3>1 DEF TypeInv
  <2>3. accrued' \in [Claim -> Entries]
    <3>1. ws[w].seen.total \in Nat /\ accrued[ws[w].doc] \in Entries
          /\ accrued[ws[w].doc].cost \in Nat
      BY <2>1, Holding DEF ClaimRow, Entries
    <3>2. PICK n \in Nat : accrued' = [accrued EXCEPT ![ws[w].doc] =
                                       [accrued[ws[w].doc] EXCEPT !.cost = n]]
      BY <1>11, <3>1 DEF ApproveClaim
    <3>3. [accrued[ws[w].doc] EXCEPT !.cost = n] \in Entries
      BY <3>1, Writes
    <3> QED
      BY <3>2, <3>3 DEF TypeInv
  <2> QED
    BY <1>11, <2>1, <2>2, <2>3, EndTyped DEF ApproveClaim, TypeInv, Work, Copy
<1>12. ASSUME NEW w \in Clerk, Reimburse(w) PROVE TypeInv'
  <2>1. ws[w].verb # "idle" /\ ws[w].doc \in Claim /\ End(w)
    BY <1>12 DEF Reimburse, Serves
  <2>2. claims' \in [Claim -> ClaimRow]
    <3>1. PICK row \in ClaimRow : claims' = [claims EXCEPT ![ws[w].doc] = row]
      BY <1>12, <2>1, Holding, Writes, Statuses DEF Reimburse
    <3> QED
      BY <3>1 DEF TypeInv
  <2>3. accrued' \in [Claim -> Entries]
    <3>1. ws[w].seen.total \in Nat /\ accrued[ws[w].doc] \in Entries
          /\ accrued[ws[w].doc].settled \in Nat
      BY <2>1, Holding DEF ClaimRow, Entries
    <3>2. PICK n \in Nat : accrued' = [accrued EXCEPT ![ws[w].doc] =
                                       [accrued[ws[w].doc] EXCEPT !.settled = n]]
      BY <1>12, <3>1 DEF Reimburse
    <3>3. [accrued[ws[w].doc] EXCEPT !.settled = n] \in Entries
      BY <3>1, Writes
    <3> QED
      BY <3>2, <3>3 DEF TypeInv
  <2> QED
    BY <1>12, <2>1, <2>2, <2>3, EndTyped DEF Reimburse, TypeInv, Work, Copy
<1>13. ASSUME NEW w \in Clerk, GiveUp(w) PROVE TypeInv'
  BY <1>13, EndTyped DEF GiveUp, TypeInv, Work, Copy
<1> QED
  BY <1>1, <1>2, <1>3, <1>4, <1>5, <1>6, <1>7, <1>8, <1>9, <1>10, <1>11, <1>12, <1>13
     DEF Next, Serve

LEMMA TypeInit == Init => TypeInv
<1> SUFFICES ASSUME Init PROVE TypeInv
  OBVIOUS
<1>1. Idle \in Work /\ Idle.verb = "idle"
  BY NoRows DEF Idle, Work
<1> QED
  BY <1>1, NoRows DEF Init, TypeInv, PayablesTypeOK, Work

LEMMA TypeAlways == Spec => []TypeInv
<1> QED
  BY TypeInit, TypeStep, PTL DEF Spec

(* Every column keeps its type, also where requests race with an author.   *)
THEOREM Types == Spec => []PayablesTypeOK
<1>1. TypeInv => PayablesTypeOK
  BY DEF TypeInv
<1> QED
  BY <1>1, TypeAlways, PTL

-----------------------------------------------------------------------------
(* What everybody at work on document d relies on in a step.               *)
Steady(d) ==
  /\ RowOf(d)'.status # "absent" /\ RowOf(d)'.total = RowOf(d).total
  /\ RowOf(d).status \notin Open => RowOf(d)'.status \notin Open
  /\ d \in Claim /\ RowOf(d).entry => RowOf(d)'.entry

Elsewhere(d) == \A e \in Doc \ {d} : RowOf(e)' = RowOf(e)

LEMMA StillKnows ==
  ASSUME NEW v \in Clerk, ws[v].doc \in Doc, Knows(v), ws'[v] = ws[v], NEW d \in Doc, Elsewhere(d),
         \/ ws[v].doc # d
         \/ Steady(d) /\ (ws[v].verb \in Author /\ ws[v].seen.status \in Open => d \in Early)
  PROVE  Knows(v)'
<1>1. CASE ws[v].doc # d
  <2>1. RowOf(ws[v].doc)' = RowOf(ws[v].doc)
    BY <1>1 DEF Elsewhere
  <2> QED
    BY <2>1 DEF Knows
<1>2. CASE /\ ws[v].doc = d /\ Steady(d)
           /\ ws[v].verb \in Author /\ ws[v].seen.status \in Open => d \in Early
  BY <1>2 DEF Knows, Steady
<1> QED
  BY <1>1, <1>2

(* A verb ends: its author had the document to itself, or it left what the *)
(* others rely on.                                                         *)
LEMMA VerbEnds ==
  ASSUME Inv, NEW w \in Clerk, ws[w].verb # "idle", End(w), NEW d \in Doc, ws[w].doc = d,
         Elsewhere(d), ws[w].verb \in Author \/ Steady(d)
  PROVE  WorkInv' /\ Exclusive'
<1>1. ws'[w] = Idle /\ \A v \in Clerk : v # w => ws'[v] = ws[v]
  BY DEF Inv, TypeInv, PayablesTypeOK, End
<1>2. Knows(w) /\ d # NoDoc
  BY ConstantsOK DEF Inv, TypeInv, WorkInv
<1>3. Exclusive'
  BY <1>1 DEF Inv, Exclusive, Idle
<1>4. ASSUME NEW v \in Clerk, v # w, ws[v].verb # "idle" PROVE Knows(v)'
  <2>1. Knows(v) /\ ws'[v] = ws[v] /\ ws[v].doc \in Doc
    BY <1>1, <1>4 DEF Inv, TypeInv, WorkInv
  <2>2. ws[v].doc = d => ws[v].verb \notin Author /\ ws[w].verb \notin Author
    BY <1>2, <1>4 DEF Inv, Exclusive
  <2>3. ws[v].doc # d \/ (Steady(d) /\ ws[v].verb \notin Author)
    BY <2>2
  <2> QED
    BY <1>2, <2>1, <2>3, StillKnows
<1>5. WorkInv'
  <2> SUFFICES ASSUME NEW v \in Clerk
               PROVE  (IF ws[v].verb = "idle" THEN ws[v] = Idle ELSE Knows(v))'
    BY DEF WorkInv
  <2>1. CASE v = w
    BY <1>1, <2>1 DEF Idle
  <2>2. CASE v # w
    <3>1. ws'[v] = ws[v]
      BY <1>1, <2>2
    <3>2. ws[v].verb = "idle" => ws[v] = Idle
      BY DEF Inv, WorkInv
    <3> QED
      BY <1>4, <2>2, <3>1, <3>2
  <2> QED
    BY <2>1, <2>2
<1> QED
  BY <1>3, <1>5

-----------------------------------------------------------------------------
(* Steps on one document.                                                  *)
OtherBills(b) == \A e \in Bill \ {b} :
  /\ bills'[e] = bills[e] /\ lines'[e] = lines[e]
  /\ owed'[e] = owed[e] /\ payments'[e] = payments[e]

OtherClaims(c) == \A e \in Claim \ {c} : claims'[e] = claims[e] /\ accrued'[e] = accrued[e]

LEMMA BillStep ==
  ASSUME Inv, NEW b \in Bill, [Next]_vars, OtherBills(b), UNCHANGED <<claims, accrued>>,
         b \notin Early => BillInv(b)', WorkInv', Exclusive'
  PROVE  Inv'
<1>1. TypeInv'
  BY TypeStep DEF Inv
<1>2. \A e \in Bill \ Early : BillInv(e)'
  BY DEF Inv, BillInv, OtherBills
<1>3. \A c \in Claim : ClaimInv(c)'
  BY DEF Inv, ClaimInv
<1> QED
  BY <1>1, <1>2, <1>3 DEF Inv

LEMMA ClaimStep ==
  ASSUME Inv, NEW c \in Claim, [Next]_vars, OtherClaims(c),
         UNCHANGED <<bills, lines, owed, payments>>, ClaimInv(c)', WorkInv', Exclusive'
  PROVE  Inv'
<1>1. TypeInv'
  BY TypeStep DEF Inv
<1>2. \A e \in Bill \ Early : BillInv(e)'
  BY DEF Inv, BillInv
<1>3. \A e \in Claim : ClaimInv(e)'
  BY DEF Inv, ClaimInv, OtherClaims
<1> QED
  BY <1>1, <1>2, <1>3 DEF Inv

LEMMA ElsewhereBill ==
  ASSUME NEW b \in Bill, OtherBills(b), UNCHANGED claims PROVE Elsewhere(b)
BY ConstantsOK DEF OtherBills, Elsewhere, RowOf, Doc

LEMMA ElsewhereClaim ==
  ASSUME NEW c \in Claim, OtherClaims(c), UNCHANGED bills PROVE Elsewhere(c)
BY ConstantsOK DEF OtherClaims, Elsewhere, RowOf, Doc

LEMMA Rows ==
  ASSUME TypeInv
  PROVE  /\ \A b \in Bill : bills[b] \in BillRow /\ owed[b] \in Entries /\ lines[b] \in Nat
                            /\ payments[b] \subseteq Nat \X Nat /\ RowOf(b) = bills[b]
                            /\ b \in Doc /\ b \notin Claim
         /\ \A c \in Claim : claims[c] \in ClaimRow /\ accrued[c] \in Entries /\ RowOf(c) = claims[c]
                             /\ c \in Doc /\ c \notin Bill /\ c \notin Early
BY ConstantsOK DEF TypeInv, PayablesTypeOK, RowOf, Doc

-----------------------------------------------------------------------------
(* One lemma for each action, where authors have their document to         *)
(* themselves.                                                             *)

(* Nobody is at work on a document that is not there.                      *)
LEMMA NotYet ==
  ASSUME Inv, NEW d \in Doc, RowOf(d).status = "absent", Elsewhere(d), UNCHANGED ws
  PROVE  WorkInv' /\ Exclusive'
<1>1. Exclusive'
  BY DEF Inv, Exclusive
<1>2. ASSUME NEW v \in Clerk, ws[v].verb # "idle" PROVE Knows(v)'
  <2>1. Knows(v) /\ ws[v].doc \in Doc /\ ws'[v] = ws[v]
    BY <1>2 DEF Inv, TypeInv, WorkInv
  <2>2. ws[v].doc # d
    BY <2>1 DEF Knows
  <2> QED
    BY <2>1, <2>2, StillKnows
<1> QED
  BY <1>1, <1>2 DEF Inv, WorkInv

LEMMA CreateBillKeeps ==
  ASSUME Inv, NEW b \in Bill, CreateBill(b)
  PROVE  Inv'
<1>1. PICK t \in LineTotal, h \in Withheld :
        /\ bills[b].status = "absent" /\ h <= t
        /\ bills' = [bills EXCEPT ![b] = [NoBill EXCEPT !.status = "draft", !.total = t - h,
                                                        !.withheld = h]]
        /\ lines' = [lines EXCEPT ![b] = t]
        /\ UNCHANGED <<claims, owed, payments, accrued, ws>>
  BY DEF CreateBill
<1>2. TypeInv /\ [Next]_vars
  BY DEF Inv, Next
<1>3. OtherBills(b)
  BY <1>1, <1>2 DEF OtherBills, TypeInv, PayablesTypeOK
<1>4. WorkInv' /\ Exclusive'
  BY <1>1, <1>2, <1>3, ElsewhereBill, Rows, NotYet
<1>5. ASSUME b \notin Early PROVE BillInv(b)'
  <2>1. BillInv(b) /\ owed[b] \in Entries /\ bills[b] \in BillRow
    BY <1>2, <1>5, Rows DEF Inv
  <2>2. owed[b].cost = 0 /\ owed[b].settled = 0
    BY <1>1, <2>1 DEF BillInv, Open, Entries
  <2>3. bills'[b].paid = 0 /\ ~bills'[b].entry
    BY <1>1, <1>2 DEF TypeInv, PayablesTypeOK, NoBill
  <2>4. payments[b] = {}
    BY <1>2, <2>1, <2>2, Rows DEF BillInv
  <2> QED
    BY <1>1, <2>2, <2>3, <2>4 DEF BillInv
<1> QED
  BY <1>1, <1>2, <1>3, <1>4, <1>5, BillStep

LEMMA PayBillKeeps ==
  ASSUME Inv, NEW b \in Bill, PayBill(b)
  PROVE  Inv'
<1>1. PICK a \in Amount :
        /\ bills[b].entry /\ bills[b].status # "voided"
        /\ a <= bills[b].total - bills[b].paid
        /\ owed' = IF <<bills[b].paid, a>> \in payments[b] THEN owed
                   ELSE [owed EXCEPT ![b] = [owed[b] EXCEPT !.settled = owed[b].settled + a]]
        /\ payments' = [payments EXCEPT ![b] = payments[b] \cup {<<bills[b].paid, a>>}]
        /\ bills' = [bills EXCEPT ![b] = PaidRow(bills[b], a)]
        /\ UNCHANGED <<lines, claims, accrued, ws>>
  BY DEF PayBill
<1>2. TypeInv /\ [Next]_vars
  BY DEF Inv, Next
<1>3. OtherBills(b) /\ bills'[b] = PaidRow(bills[b], a)
      /\ payments'[b] = payments[b] \cup {<<bills[b].paid, a>>}
  BY <1>1, <1>2 DEF OtherBills, TypeInv, PayablesTypeOK
<1>4. a \in Nat /\ a > 0 /\ bills[b] \in BillRow /\ owed[b] \in Entries
  BY <1>2, Rows, ConstantsOK
<1>5. /\ bills'[b].status \in {"paid", "partially_paid"} /\ bills'[b].total = bills[b].total
      /\ bills'[b].paid = bills[b].paid + a /\ bills'[b].entry = bills[b].entry
  BY <1>3, <1>4 DEF PaidRow, BillRow
<1>6. Steady(b)
  <2>1. RowOf(b) = bills[b] /\ RowOf(b)' = bills'[b] /\ b \notin Claim
    BY <1>2, Rows DEF RowOf
  <2> QED
    BY <1>5, <2>1 DEF Steady, Open
<1>7. WorkInv'
  <2> SUFFICES ASSUME NEW v \in Clerk
               PROVE  (IF ws[v].verb = "idle" THEN ws[v] = Idle ELSE Knows(v))'
    BY DEF WorkInv
  <2>1. ws'[v] = ws[v] /\ IF ws[v].verb = "idle" THEN ws[v] = Idle ELSE Knows(v)
    BY <1>1 DEF Inv, WorkInv
  <2>2. ASSUME ws[v].verb # "idle" PROVE Knows(v)'
    <3>1. Knows(v) /\ ws[v].doc \in Doc
      BY <2>1, <2>2, <1>2 DEF TypeInv
    <3>2. ASSUME ws[v].doc = b, ws[v].verb \in Author, ws[v].seen.status \in Open, b \notin Early
          PROVE  FALSE
      <4>1. bills[b].status \in Open
        BY <3>1, <3>2, <1>2, Rows DEF Knows
      <4>2. bills[b].status \notin Open
        BY <1>1, <3>2 DEF Inv, BillInv
      <4> QED
        BY <4>1, <4>2
    <3>3. Elsewhere(b) /\ b \in Doc
      BY <1>1, <1>2, <1>3, ElsewhereBill, Rows
    <3> QED
      BY <1>6, <2>1, <3>1, <3>2, <3>3, StillKnows
  <2> QED
    BY <2>1, <2>2
<1>8. Exclusive'
  BY <1>1 DEF Inv, Exclusive
<1>9. ASSUME b \notin Early PROVE BillInv(b)'
  <2>1. BillInv(b)
    BY <1>9 DEF Inv
  <2>2. /\ owed[b].cost > 0 /\ owed[b].cost = bills[b].total /\ owed[b].cost = lines[b]
        /\ \A p \in payments[b] : p[1] < bills[b].paid
        /\ bills[b].paid = owed[b].settled /\ bills[b].status \notin Open
    BY <1>1, <2>1 DEF BillInv
  <2>3. <<bills[b].paid, a>> \notin payments[b]
    <3>1. bills[b].paid \in Nat
      BY <1>4 DEF BillRow
    <3> QED
      BY <2>2, <3>1
  <2>4. owed'[b].cost = owed[b].cost /\ owed'[b].settled = owed[b].settled + a
    BY <1>1, <1>2, <1>4, <2>3 DEF TypeInv, PayablesTypeOK, Entries
  <2>5. owed[b].cost \in Nat /\ owed[b].settled \in Nat /\ bills[b].paid \in Nat
    BY <1>4 DEF BillRow, Entries
  <2>6. \A p \in payments'[b] : p[1] < bills'[b].paid
    <3> SUFFICES ASSUME NEW p \in payments'[b] PROVE p[1] < bills'[b].paid
      OBVIOUS
    <3>1. CASE p \in payments[b]
      <4>1. p[1] \in Nat /\ p[1] < bills[b].paid
        BY <1>2, <2>2, <3>1, Rows
      <4> QED
        BY <1>4, <1>5, <2>5, <4>1
    <3>2. CASE p = <<bills[b].paid, a>>
      BY <1>4, <1>5, <2>5, <3>2
    <3> QED
      BY <1>3, <3>1, <3>2
  <2>7. bills'[b].status \notin Open /\ lines' = lines
    BY <1>1, <1>5 DEF Open
  <2>8. bills'[b].paid = owed'[b].settled /\ owed'[b].settled <= owed'[b].cost
    BY <1>1, <1>4, <1>5, <2>2, <2>4, <2>5
  <2> QED
    BY <1>5, <2>2, <2>4, <2>6, <2>7, <2>8 DEF BillInv
<1> QED
  BY <1>1, <1>2, <1>3, <1>7, <1>8, <1>9, BillStep

LEMMA CreateClaimKeeps ==
  ASSUME Inv, NEW c \in Claim, CreateClaim(c)
  PROVE  Inv'
<1>1. PICK t \in LineTotal :
        /\ claims[c].status = "absent" /\ t > 0
        /\ claims' = [claims EXCEPT ![c] = [NoClaim EXCEPT !.status = "draft", !.total = t]]
        /\ UNCHANGED <<bills, lines, owed, payments, accrued, ws>>
  BY DEF CreateClaim
<1>2. TypeInv /\ [Next]_vars
  BY DEF Inv, Next
<1>3. OtherClaims(c) /\ claims'[c] = [NoClaim EXCEPT !.status = "draft", !.total = t]
  BY <1>1, <1>2 DEF OtherClaims, TypeInv, PayablesTypeOK
<1>4. WorkInv' /\ Exclusive'
  BY <1>1, <1>2, <1>3, ElsewhereClaim, Rows, NotYet
<1>5. ClaimInv(c)'
  <2>1. ClaimInv(c) /\ accrued[c] \in Entries
    BY <1>2, Rows DEF Inv
  <2>2. accrued[c].cost = 0 /\ accrued[c].settled = 0
    BY <1>1, <2>1 DEF ClaimInv, Open, Entries
  <2>3. claims'[c].total = t /\ claims'[c].status = "draft" /\ ~claims'[c].entry
    BY <1>3 DEF NoClaim
  <2> QED
    BY <1>1, <2>2, <2>3 DEF ClaimInv
<1> QED
  BY <1>1, <1>2, <1>3, <1>4, <1>5, ClaimStep

LEMMA ReadKeeps ==
  ASSUME Inv, OneDesk, NEW w \in Clerk, NEW verb \in Verb, NEW d \in Doc, Read(w, verb, d)
  PROVE  Inv'
<1>1. /\ ws[w].verb = "idle" /\ MayRead(verb, d) /\ Alone(verb, d)
      /\ ws' = [ws EXCEPT ![w] = [verb |-> verb, doc |-> d, seen |-> RowOf(d)]]
      /\ UNCHANGED <<bills, lines, claims, owed, payments, accrued>>
  BY DEF Read
<1>2. TypeInv /\ [Next]_vars
  BY DEF Inv, Next, Serve
<1>3. /\ ws'[w].verb = verb /\ ws'[w].doc = d /\ ws'[w].seen = RowOf(d)
      /\ \A v \in Clerk : v # w => ws'[v] = ws[v]
  BY <1>1, <1>2 DEF TypeInv, PayablesTypeOK
<1>4. \A v \in Clerk : ws[v].doc = d => verb \notin Author /\ ws[v].verb \notin Author
  BY <1>1 DEF Alone
<1>5. Exclusive'
  BY <1>3, <1>4 DEF Inv, Exclusive
<1>6. RowOf(d)' = RowOf(d) /\ Elsewhere(d)
  BY <1>1 DEF RowOf, Elsewhere
<1>7. Knows(w)'
  <2>1. RowOf(d).status # "absent"
    <3>1. \/ verb = "edit" /\ RowOf(d).status \in {"draft", "awaiting"}
          \/ d \in Bill /\ bills[d].status # "absent"
          \/ d \in Claim /\ claims[d].status # "absent"
          \/ RowOf(d).status # "absent"
      BY <1>1 DEF MayRead, Verb
    <3> QED
      BY <1>2, <3>1, Rows
  <2>2. verb = "edit" => RowOf(d).status \in Open
    BY <1>1 DEF MayRead, Open
  <2>3. verb = "post" /\ d \notin Early => RowOf(d).status \notin Open
    <3> SUFFICES ASSUME verb = "post", d \notin Early PROVE RowOf(d).status \notin Open
      OBVIOUS
    <3>1. d \in Bill /\ bills[d].status \notin {"absent", "draft", "awaiting"}
      BY <1>1 DEF MayRead
    <3>2. RowOf(d) = bills[d] /\ bills[d].status # "submitted"
      BY <1>2, <3>1, Rows DEF BillRow, BillStatus
    <3> QED
      BY <3>1, <3>2 DEF Open
  <2> QED
    BY <1>1, <1>3, <2>1, <2>2, <2>3 DEF Knows, RowOf
<1>8. ASSUME NEW v \in Clerk, v # w, ws[v].verb # "idle" PROVE Knows(v)'
  <2>1. Knows(v) /\ ws'[v] = ws[v]
    BY <1>3, <1>8 DEF Inv, WorkInv
  <2> QED
    BY <1>1, <2>1 DEF Knows, RowOf
<1>9. WorkInv'
  <2>1. verb # "idle"
    BY DEF Verb
  <2>2. \A v \in Clerk : ws[v].verb = "idle" => ws[v] = Idle
    BY DEF Inv, WorkInv
  <2> QED
    BY <1>3, <1>7, <1>8, <2>1, <2>2 DEF WorkInv
<1>10. TypeInv'
  BY <1>2, TypeStep
<1>11. (\A b \in Bill \ Early : BillInv(b)') /\ \A c \in Claim : ClaimInv(c)'
  BY <1>1 DEF Inv, BillInv, ClaimInv
<1> QED
  BY <1>5, <1>9, <1>10, <1>11 DEF Inv

(* What a request that ends holds, and what ends with it.                  *)
LEMMA Ending ==
  ASSUME Inv, NEW w \in Clerk, ws[w].verb # "idle"
  PROVE  Knows(w) /\ TypeInv /\ ws[w].doc \in Doc
BY DEF Inv, TypeInv, WorkInv

LEMMA EditBillKeeps ==
  ASSUME Inv, NEW w \in Clerk, NEW b \in Bill, ws[w].doc = b, EditBill(w)
  PROVE  Inv'
<1> DEFINE seen == ws[w].seen
<1>1. ws[w].verb = "edit" /\ b \in Doc /\ End(w) /\ UNCHANGED <<claims, owed, payments, accrued>>
  BY DEF EditBill, Serves, Doc
<1>2. PICK t \in LineTotal \cup {lines[b]}, h \in Withheld \cup {seen.withheld} :
        /\ lines' = [lines EXCEPT ![b] = t]
        /\ bills' = [bills EXCEPT ![b] = [seen EXCEPT !.total = t - h, !.withheld = h]]
  BY DEF EditBill
<1>3. Knows(w) /\ TypeInv /\ [Next]_vars
  BY <1>1, Ending DEF Next, Serve
<1>4. OtherBills(b) /\ bills'[b] = [seen EXCEPT !.total = t - h, !.withheld = h]
  BY <1>1, <1>2, <1>3 DEF OtherBills, TypeInv, PayablesTypeOK
<1>5. WorkInv' /\ Exclusive'
  <2>1. Elsewhere(b) /\ ws[w].verb # "idle" /\ ws[w].verb \in Author
    BY <1>1, <1>4, ElsewhereBill DEF Author
  <2> QED
    BY <1>1, <2>1, VerbEnds
<1>6. ASSUME b \notin Early PROVE BillInv(b)'
  <2>1. bills[b] = seen /\ seen.status \in Open /\ seen \in BillRow /\ owed[b] \in Entries
    <3>1. RowOf(b) = bills[b] /\ bills[b] \in BillRow /\ owed[b] \in Entries
      BY <1>1, <1>3, Rows
    <3>2. seen.status \in Open /\ RowOf(b) = seen
      BY <1>1, <1>3, <1>6 DEF Knows, Author
    <3> QED
      BY <3>1, <3>2
  <2>2. BillInv(b)
    BY <1>1, <1>6 DEF Inv
  <2> HIDE DEF seen
  <2>3. owed[b].cost = 0 /\ ~bills[b].entry
    BY <2>1, <2>2 DEF BillInv, Entries
  <2>4. bills'[b].paid = bills[b].paid /\ ~bills'[b].entry
    BY <1>4, <2>1, <2>3 DEF BillRow
  <2> QED
    BY <1>1, <2>2, <2>3, <2>4 DEF BillInv
<1> QED
  BY <1>1, <1>3, <1>4, <1>5, <1>6, BillStep

LEMMA SubmitBillKeeps ==
  ASSUME Inv, NEW w \in Clerk, NEW b \in Bill, ws[w].doc = b, SubmitBill(w)
  PROVE  Inv'
<1> DEFINE seen == ws[w].seen
<1>1. /\ ws[w].verb = "submit" /\ b \in Doc /\ "awaiting" \in BillAllowed[seen.status] /\ End(w)
      /\ bills' = [bills EXCEPT ![b] = [bills[b] EXCEPT !.status = "awaiting"]]
      /\ UNCHANGED <<lines, claims, owed, payments, accrued>>
  BY DEF SubmitBill, Serves, Doc
<1>2. Knows(w) /\ TypeInv /\ [Next]_vars
  BY <1>1, Ending DEF Next, Serve
<1>3. OtherBills(b) /\ bills'[b] = [bills[b] EXCEPT !.status = "awaiting"]
  BY <1>1, <1>2 DEF OtherBills, TypeInv, PayablesTypeOK
<1>4. WorkInv' /\ Exclusive'
  <2>1. Elsewhere(b) /\ ws[w].verb # "idle" /\ ws[w].verb \in Author
    BY <1>1, <1>3, ElsewhereBill DEF Author
  <2> QED
    BY <1>1, <2>1, VerbEnds
<1>5. ASSUME b \notin Early PROVE BillInv(b)'
  <2>1. bills[b] \in BillRow /\ owed[b] \in Entries /\ RowOf(b) = bills[b] /\ seen \in BillRow
    BY <1>1, <1>2, Rows, Holding
  <2>2. seen.status = "draft" \/ seen.status = "absent"
    BY <1>1, <2>1 DEF BillAllowed, BillRow, BillStatus
  <2>3. bills[b].status \in Open
    BY <1>1, <1>2, <1>5, <2>1, <2>2 DEF Knows, Author, Open
  <2>4. BillInv(b)
    BY <1>1, <1>5 DEF Inv
  <2> HIDE DEF seen
  <2>5. owed[b].cost = 0 /\ ~bills[b].entry
    BY <2>1, <2>3, <2>4 DEF BillInv, Entries
  <2>6. bills'[b].paid = bills[b].paid /\ bills'[b].entry = bills[b].entry
    BY <1>3, <2>1 DEF BillRow
  <2> QED
    BY <1>1, <2>4, <2>5, <2>6 DEF BillInv
<1> QED
  BY <1>1, <1>2, <1>3, <1>4, <1>5, BillStep

(* approve and post: the status stays, or becomes, one past editing.       *)
LEMMA PostsKeeps ==
  ASSUME Inv, NEW w \in Clerk, NEW b \in Bill, ws[w].doc = b, ApproveBill(w) \/ PostBill(w)
  PROVE  Inv'
<1> DEFINE seen == ws[w].seen
<1>1. /\ ws[w].verb \in {"approve", "post"} /\ b \in Doc /\ Posts(b, seen) /\ End(w)
      /\ UNCHANGED <<lines, claims, payments, accrued>>
  BY DEF ApproveBill, PostBill, Serves, Doc
<1>2. PICK to \in {"approved", bills[b].status} :
        /\ to = "approved" \/ ws[w].verb = "post"
        /\ bills' = [bills EXCEPT ![b] = [bills[b] EXCEPT !.status = to, !.entry = TRUE]]
  <2>1. CASE ApproveBill(w)
    BY <2>1 DEF ApproveBill
  <2>2. CASE PostBill(w)
    <3>1. bills[b] \in BillRow
      BY <1>1, Ending, Rows
    <3>2. [bills[b] EXCEPT !.entry = TRUE] = [bills[b] EXCEPT !.status = bills[b].status, !.entry = TRUE]
      BY <3>1 DEF BillRow
    <3> QED
      BY <2>2, <3>2 DEF PostBill, Serves
  <2> QED
    BY <2>1, <2>2
<1>3. Knows(w) /\ TypeInv /\ [Next]_vars
  BY <1>1, Ending DEF Next, Serve
<1>4. OtherBills(b) /\ bills'[b] = [bills[b] EXCEPT !.status = to, !.entry = TRUE]
  BY <1>1, <1>2, <1>3 DEF OtherBills, TypeInv, PayablesTypeOK, Posts
<1>5. /\ bills[b] \in BillRow /\ owed[b] \in Entries /\ RowOf(b) = bills[b] /\ b \notin Claim
      /\ seen \in BillRow /\ seen.total = bills[b].total /\ bills[b].status # "absent"
  BY <1>1, <1>3, Rows, Holding DEF Knows
<1>6. /\ bills'[b].status = to /\ bills'[b].total = bills[b].total
      /\ bills'[b].paid = bills[b].paid /\ bills'[b].entry
  BY <1>4, <1>5 DEF BillRow
<1>7. WorkInv' /\ Exclusive'
  <2>1. Elsewhere(b) /\ ws[w].verb # "idle"
    BY <1>1, <1>4, ElsewhereBill
  <2>2. RowOf(b)' = bills'[b]
    BY <1>1 DEF RowOf
  <2>3. Steady(b)
    BY <1>2, <1>5, <1>6, <2>2 DEF Steady, Open
  <2> QED
    BY <1>1, <2>1, <2>3, VerbEnds
<1>8. ASSUME b \notin Early PROVE BillInv(b)'
  <2>1. BillInv(b)
    BY <1>1, <1>8 DEF Inv
  <2>2. to \notin Open
    BY <1>2, <1>3, <1>5, <1>8 DEF Knows, Open
  <2>3. seen.total > 0 /\ seen.total = lines[b] /\ seen.total \in Nat /\ owed[b].cost \in Nat
        /\ owed[b].settled \in Nat
    <3>1. seen.total \in Nat /\ seen.withheld \in Nat /\ owed[b].cost \in Nat /\ owed[b].settled \in Nat
      BY <1>5 DEF BillRow, Entries
    <3>2. seen.total > 0 /\ lines[b] = seen.withheld + (seen.total - seen.withheld)
      BY <1>1 DEF Posts, Balances, Debits, Credits
    <3>3. lines[b] \in Nat
      BY <1>1, <1>3, Rows
    <3> QED
      BY <3>1, <3>2, <3>3
  <2>4. owed'[b].settled = owed[b].settled
        /\ owed'[b].cost = IF owed[b].cost = 0 THEN seen.total ELSE owed[b].cost
    BY <1>1, <1>3, <1>5 DEF Posts, TypeInv, PayablesTypeOK, Entries
  <2> HIDE DEF seen
  <2>5. owed'[b].cost > 0 /\ owed'[b].cost = bills[b].total /\ owed'[b].cost = lines[b]
    BY <1>5, <2>1, <2>3, <2>4 DEF BillInv
  <2>6. owed'[b].settled <= owed'[b].cost /\ bills'[b].paid = owed'[b].settled
    BY <1>6, <2>1, <2>3, <2>4 DEF BillInv
  <2> QED
    BY <1>1, <1>6, <2>1, <2>2, <2>5, <2>6 DEF BillInv
<1> QED
  BY <1>1, <1>3, <1>4, <1>7, <1>8, BillStep

LEMMA VoidBillKeeps ==
  ASSUME Inv, NEW w \in Clerk, NEW b \in Bill, ws[w].doc = b, VoidBill(w)
  PROVE  Inv'
<1>1. /\ ws[w].verb # "idle" /\ b \in Doc /\ End(w)
      /\ bills' = [bills EXCEPT ![b] = [bills[b] EXCEPT !.status = "voided"]]
      /\ UNCHANGED <<lines, claims, owed, payments, accrued>>
  BY DEF VoidBill, Serves, Doc
<1>2. Knows(w) /\ TypeInv /\ [Next]_vars
  BY <1>1, Ending DEF Next, Serve
<1>3. OtherBills(b) /\ bills'[b] = [bills[b] EXCEPT !.status = "voided"]
  BY <1>1, <1>2 DEF OtherBills, TypeInv, PayablesTypeOK
<1>4. bills[b] \in BillRow /\ RowOf(b) = bills[b] /\ b \notin Claim
  BY <1>1, <1>2, Rows
<1>5. /\ bills'[b].status = "voided" /\ bills'[b].total = bills[b].total
      /\ bills'[b].paid = bills[b].paid /\ bills'[b].entry = bills[b].entry
  BY <1>3, <1>4 DEF BillRow
<1>6. WorkInv' /\ Exclusive'
  <2>1. Elsewhere(b) /\ RowOf(b)' = bills'[b]
    BY <1>1, <1>3, ElsewhereBill DEF RowOf
  <2>2. Steady(b)
    BY <1>4, <1>5, <2>1 DEF Steady, Open
  <2> QED
    BY <1>1, <2>1, <2>2, VerbEnds
<1>7. ASSUME b \notin Early PROVE BillInv(b)'
  BY <1>1, <1>5, <1>7 DEF Inv, BillInv, Open
<1> QED
  BY <1>1, <1>2, <1>3, <1>6, <1>7, BillStep

LEMMA EditClaimKeeps ==
  ASSUME Inv, NEW w \in Clerk, NEW c \in Claim, ws[w].doc = c, EditClaim(w)
  PROVE  Inv'
<1> DEFINE seen == ws[w].seen
<1>1. ws[w].verb = "edit" /\ End(w) /\ UNCHANGED <<bills, lines, owed, payments, accrued>>
  BY DEF EditClaim, Serves
<1>2. PICK t \in LineTotal : t > 0 /\ claims' = [claims EXCEPT ![c] = [seen EXCEPT !.total = t]]
  BY DEF EditClaim
<1>3. Knows(w) /\ TypeInv /\ [Next]_vars
  BY <1>1, Ending DEF Next, Serve
<1>4. OtherClaims(c) /\ claims'[c] = [seen EXCEPT !.total = t]
  BY <1>1, <1>2, <1>3 DEF OtherClaims, TypeInv, PayablesTypeOK
<1>5. WorkInv' /\ Exclusive'
  <2>1. Elsewhere(c) /\ ws[w].verb # "idle" /\ ws[w].verb \in Author /\ c \in Doc
    BY <1>1, <1>3, <1>4, ElsewhereClaim, Rows DEF Author
  <2> QED
    BY <1>1, <2>1, VerbEnds
<1>6. ClaimInv(c)'
  <2>1. claims[c] = seen /\ seen.status \in Open /\ seen \in ClaimRow /\ accrued[c] \in Entries
    <3>1. RowOf(c) = claims[c] /\ claims[c] \in ClaimRow /\ accrued[c] \in Entries /\ c \notin Early
      BY <1>3, Rows
    <3>2. seen.status \in Open /\ RowOf(c) = seen
      BY <1>1, <1>3, <3>1 DEF Knows, Author
    <3> QED
      BY <3>1, <3>2
  <2>2. ClaimInv(c)
    BY DEF Inv
  <2> HIDE DEF seen
  <2>3. accrued[c].cost = 0 /\ ~claims[c].entry /\ claims[c].status # "reimbursed"
    BY <2>1, <2>2 DEF ClaimInv, Entries, Open
  <2>4. claims'[c].total = t /\ ~claims'[c].entry /\ claims'[c].status = claims[c].status
    BY <1>4, <2>1, <2>3 DEF ClaimRow
  <2> QED
    BY <1>1, <1>2, <2>2, <2>3, <2>4 DEF ClaimInv
<1> QED
  BY <1>1, <1>3, <1>4, <1>5, <1>6, ClaimStep

LEMMA SubmitClaimKeeps ==
  ASSUME Inv, NEW w \in Clerk, NEW c \in Claim, ws[w].doc = c, SubmitClaim(w)
  PROVE  Inv'
<1> DEFINE seen == ws[w].seen
<1>1. /\ ws[w].verb = "submit" /\ "submitted" \in ClaimAllowed[seen.status] /\ End(w)
      /\ claims' = [claims EXCEPT ![c] = [claims[c] EXCEPT !.status = "submitted"]]
      /\ UNCHANGED <<bills, lines, owed, payments, accrued>>
  BY DEF SubmitClaim, MoveClaim, Serves
<1>2. Knows(w) /\ TypeInv /\ [Next]_vars
  BY <1>1, Ending DEF Next, Serve
<1>3. OtherClaims(c) /\ claims'[c] = [claims[c] EXCEPT !.status = "submitted"]
  BY <1>1, <1>2 DEF OtherClaims, TypeInv, PayablesTypeOK
<1>4. WorkInv' /\ Exclusive'
  <2>1. Elsewhere(c) /\ ws[w].verb # "idle" /\ ws[w].verb \in Author /\ c \in Doc
    BY <1>1, <1>2, <1>3, ElsewhereClaim, Rows DEF Author
  <2> QED
    BY <1>1, <2>1, VerbEnds
<1>5. ClaimInv(c)'
  <2>1. /\ claims[c] \in ClaimRow /\ accrued[c] \in Entries /\ RowOf(c) = claims[c]
        /\ seen \in ClaimRow /\ c \notin Early
    BY <1>1, <1>2, Rows, Holding
  <2>2. seen.status = "draft" \/ seen.status = "absent"
    BY <1>1, <2>1 DEF ClaimAllowed, ClaimRow, ClaimStatus
  <2>3. claims[c].status \in Open /\ claims[c].status # "absent"
    BY <1>1, <1>2, <2>1, <2>2 DEF Knows, Author, Open
  <2>4. ClaimInv(c)
    BY DEF Inv
  <2> HIDE DEF seen
  <2>5. accrued[c].cost = 0 /\ ~claims[c].entry
    BY <2>1, <2>3, <2>4 DEF ClaimInv, Entries
  <2>6. /\ claims'[c].total = claims[c].total /\ claims'[c].entry = claims[c].entry
        /\ claims'[c].status = "submitted"
    BY <1>3, <2>1 DEF ClaimRow
  <2> QED
    BY <1>1, <2>3, <2>4, <2>5, <2>6 DEF ClaimInv
<1> QED
  BY <1>1, <1>2, <1>3, <1>4, <1>5, ClaimStep

(* The verbs of the approvers of a claim leave a row past editing with the *)
(* amount it had.                                                          *)
LEMMA ClaimSteady ==
  ASSUME Inv, NEW w \in Clerk, NEW c \in Claim, ws[w].doc = c, ws[w].verb # "idle", End(w),
         OtherClaims(c), UNCHANGED bills,
         claims'[c].total = claims[c].total, claims'[c].status \notin Open,
         claims[c].entry => claims'[c].entry
  PROVE  WorkInv' /\ Exclusive'
<1>1. Elsewhere(c) /\ c \in Doc /\ RowOf(c) = claims[c]
  BY ElsewhereClaim, Rows DEF Inv
<1>2. RowOf(c)' = claims'[c]
  BY Rows DEF RowOf, Inv
<1>3. Steady(c)
  BY <1>1, <1>2 DEF Steady, Open
<1> QED
  BY <1>1, <1>3, VerbEnds

LEMMA RejectClaimKeeps ==
  ASSUME Inv, NEW w \in Clerk, NEW c \in Claim, ws[w].doc = c, RejectClaim(w)
  PROVE  Inv'
<1>1. /\ ws[w].verb # "idle" /\ End(w)
      /\ claims' = [claims EXCEPT ![c] = [claims[c] EXCEPT !.status = "rejected"]]
      /\ UNCHANGED <<bills, lines, owed, payments, accrued>>
  BY DEF RejectClaim, MoveClaim, Serves
<1>2. Knows(w) /\ TypeInv /\ [Next]_vars
  BY <1>1, Ending DEF Next, Serve
<1>3. OtherClaims(c) /\ claims'[c] = [claims[c] EXCEPT !.status = "rejected"]
  BY <1>1, <1>2 DEF OtherClaims, TypeInv, PayablesTypeOK
<1>4. /\ claims[c] \in ClaimRow /\ RowOf(c) = claims[c] /\ claims[c].status # "absent"
  BY <1>2, Rows DEF Knows
<1>5. /\ claims'[c].status = "rejected" /\ claims'[c].total = claims[c].total
      /\ claims'[c].entry = claims[c].entry
  BY <1>3, <1>4 DEF ClaimRow
<1>6. WorkInv' /\ Exclusive'
  BY <1>1, <1>3, <1>5, ClaimSteady DEF Open
<1>7. ClaimInv(c)'
  BY <1>1, <1>4, <1>5 DEF Inv, ClaimInv, Open
<1> QED
  BY <1>1, <1>2, <1>3, <1>6, <1>7, ClaimStep

LEMMA ApproveClaimKeeps ==
  ASSUME Inv, NEW w \in Clerk, NEW c \in Claim, ws[w].doc = c, ApproveClaim(w)
  PROVE  Inv'
<1> DEFINE seen == ws[w].seen
<1>1. /\ ws[w].verb # "idle" /\ End(w)
      /\ accrued' = [accrued EXCEPT ![c] =
            [accrued[c] EXCEPT !.cost = IF accrued[c].cost = 0 THEN seen.total ELSE accrued[c].cost]]
      /\ claims' = [claims EXCEPT ![c] = [claims[c] EXCEPT !.status = "approved", !.entry = TRUE]]
      /\ UNCHANGED <<bills, lines, owed, payments>>
  BY DEF ApproveClaim, Serves
<1>2. Knows(w) /\ TypeInv /\ [Next]_vars
  BY <1>1, Ending DEF Next, Serve
<1>3. /\ OtherClaims(c)
      /\ claims'[c] = [claims[c] EXCEPT !.status = "approved", !.entry = TRUE]
      /\ accrued'[c] = [accrued[c] EXCEPT !.cost =
                          IF accrued[c].cost = 0 THEN seen.total ELSE accrued[c].cost]
  BY <1>1, <1>2 DEF OtherClaims, TypeInv, PayablesTypeOK
<1>4. /\ claims[c] \in ClaimRow /\ accrued[c] \in Entries /\ seen.total = claims[c].total
      /\ claims[c].status # "absent"
  BY <1>2, Rows DEF Knows
<1> HIDE DEF seen
<1>5. /\ claims'[c].status = "approved" /\ claims'[c].total = claims[c].total /\ claims'[c].entry
      /\ accrued'[c].settled = accrued[c].settled
      /\ accrued'[c].cost = IF accrued[c].cost = 0 THEN seen.total ELSE accrued[c].cost
  BY <1>3, <1>4 DEF ClaimRow, Entries
<1>6. WorkInv' /\ Exclusive'
  BY <1>1, <1>3, <1>5, ClaimSteady DEF Open
<1>7. ClaimInv(c)'
  <2>1. ClaimInv(c)
    BY DEF Inv
  <2>2. claims[c].total > 0 /\ accrued[c].cost \in Nat /\ accrued[c].settled \in Nat
    BY <1>4, <2>1 DEF ClaimInv, Entries
  <2> QED
    BY <1>4, <1>5, <2>1, <2>2 DEF ClaimInv, Open
<1> QED
  BY <1>1, <1>2, <1>3, <1>6, <1>7, ClaimStep

LEMMA ReimburseKeeps ==
  ASSUME Inv, NEW w \in Clerk, NEW c \in Claim, ws[w].doc = c, Reimburse(w)
  PROVE  Inv'
<1> DEFINE seen == ws[w].seen
<1>1. /\ ws[w].verb # "idle" /\ End(w) /\ seen.entry
      /\ accrued' = [accrued EXCEPT ![c] = [accrued[c] EXCEPT
            !.settled = IF accrued[c].settled = 0 THEN seen.total ELSE accrued[c].settled]]
      /\ claims' = [claims EXCEPT ![c] = [claims[c] EXCEPT !.status = "reimbursed", !.refund = TRUE]]
      /\ UNCHANGED <<bills, lines, owed, payments>>
  BY DEF Reimburse, Serves
<1>2. Knows(w) /\ TypeInv /\ [Next]_vars
  BY <1>1, Ending DEF Next, Serve
<1>3. /\ OtherClaims(c)
      /\ claims'[c] = [claims[c] EXCEPT !.status = "reimbursed", !.refund = TRUE]
      /\ accrued'[c] = [accrued[c] EXCEPT
            !.settled = IF accrued[c].settled = 0 THEN seen.total ELSE accrued[c].settled]
  BY <1>1, <1>2 DEF OtherClaims, TypeInv, PayablesTypeOK
<1>4. /\ claims[c] \in ClaimRow /\ accrued[c] \in Entries /\ seen.total = claims[c].total
      /\ claims[c].status # "absent" /\ claims[c].entry
  BY <1>1, <1>2, Rows DEF Knows
<1> HIDE DEF seen
<1>5. /\ claims'[c].status = "reimbursed" /\ claims'[c].total = claims[c].total
      /\ claims'[c].entry = claims[c].entry /\ accrued'[c].cost = accrued[c].cost
      /\ accrued'[c].settled = IF accrued[c].settled = 0 THEN seen.total ELSE accrued[c].settled
  BY <1>3, <1>4 DEF ClaimRow, Entries
<1>6. WorkInv' /\ Exclusive'
  BY <1>1, <1>3, <1>5, ClaimSteady DEF Open
<1>7. ClaimInv(c)'
  <2>1. ClaimInv(c)
    BY DEF Inv
  <2>2. accrued[c].cost > 0 /\ accrued[c].cost = claims[c].total
        /\ accrued[c].cost \in Nat /\ accrued[c].settled \in Nat
    BY <1>4, <2>1 DEF ClaimInv, Entries
  <2> QED
    BY <1>4, <1>5, <2>1, <2>2 DEF ClaimInv, Open
<1> QED
  BY <1>1, <1>2, <1>3, <1>6, <1>7, ClaimStep

LEMMA GiveUpKeeps ==
  ASSUME Inv, NEW w \in Clerk, GiveUp(w)
  PROVE  Inv'
<1>1. ws[w].verb # "idle" /\ End(w) /\ UNCHANGED <<bills, lines, claims, owed, payments, accrued>>
  BY DEF GiveUp
<1>2. PICK d \in Doc : ws[w].doc = d
  BY <1>1, Ending
<1>3. Knows(w) /\ TypeInv /\ [Next]_vars
  BY <1>1, Ending DEF Next, Serve
<1>4. \A e \in Doc : RowOf(e)' = RowOf(e)
  BY <1>1 DEF RowOf
<1>5. Elsewhere(d) /\ Steady(d)
  BY <1>2, <1>3, <1>4 DEF Elsewhere, Steady, Knows
<1>6. WorkInv' /\ Exclusive'
  BY <1>1, <1>2, <1>5, VerbEnds
<1>7. (\A b \in Bill \ Early : BillInv(b)') /\ \A c \in Claim : ClaimInv(c)'
  BY <1>1 DEF Inv, BillInv, ClaimInv
<1>8. TypeInv'
  BY <1>3, TypeStep
<1> QED
  BY <1>6, <1>7, <1>8 DEF Inv

-----------------------------------------------------------------------------
LEMMA InvInit == Init => Inv
<1> SUFFICES ASSUME Init PROVE Inv
  OBVIOUS
<1>1. TypeInv
  BY TypeInit
<1>2. \A w \in Clerk : ws[w] = Idle /\ ws[w].verb = "idle" /\ ws[w].doc = NoDoc
  BY DEF Init, Idle
<1>3. WorkInv /\ Exclusive
  BY <1>2 DEF WorkInv, Exclusive
<1>4. \A b \in Bill : BillInv(b)
  BY DEF Init, BillInv, NoBill, NoEntries
<1>5. \A c \in Claim : ClaimInv(c)
  BY DEF Init, ClaimInv, NoClaim, NoEntries
<1> QED
  BY <1>1, <1>3, <1>4, <1>5 DEF Inv

LEMMA InvStep == OneDesk /\ Inv /\ [Next]_vars => Inv'
<1> SUFFICES ASSUME OneDesk, Inv, [Next]_vars PROVE Inv'
  OBVIOUS
<1>1. CASE UNCHANGED vars
  <2>1. TypeInv'
    BY TypeStep DEF Inv
  <2>2. WorkInv' /\ Exclusive'
    BY <1>1 DEF vars, Inv, WorkInv, Exclusive, Knows, RowOf
  <2>3. (\A b \in Bill \ Early : BillInv(b)') /\ \A c \in Claim : ClaimInv(c)'
    BY <1>1 DEF vars, Inv, BillInv, ClaimInv
  <2> QED
    BY <2>1, <2>2, <2>3 DEF Inv
<1>2. ASSUME NEW b \in Bill, CreateBill(b) \/ PayBill(b) PROVE Inv'
  BY <1>2, CreateBillKeeps, PayBillKeeps
<1>3. ASSUME NEW c \in Claim, CreateClaim(c) PROVE Inv'
  BY <1>3, CreateClaimKeeps
<1>4. ASSUME NEW w \in Clerk, NEW verb \in Verb, NEW d \in Doc, Read(w, verb, d) PROVE Inv'
  BY <1>4, ReadKeeps
<1>5. ASSUME NEW w \in Clerk,
             EditBill(w) \/ SubmitBill(w) \/ ApproveBill(w) \/ PostBill(w) \/ VoidBill(w)
      PROVE  Inv'
  <2>1. PICK b \in Bill : ws[w].doc = b
    BY <1>5 DEF EditBill, SubmitBill, ApproveBill, PostBill, VoidBill, Serves
  <2> QED
    BY <1>5, <2>1, EditBillKeeps, SubmitBillKeeps, PostsKeeps, VoidBillKeeps
<1>6. ASSUME NEW w \in Clerk,
             EditClaim(w) \/ SubmitClaim(w) \/ ApproveClaim(w) \/ RejectClaim(w) \/ Reimburse(w)
      PROVE  Inv'
  <2>1. PICK c \in Claim : ws[w].doc = c
    BY <1>6 DEF EditClaim, SubmitClaim, ApproveClaim, RejectClaim, MoveClaim, Reimburse, Serves
  <2> QED
    BY <1>6, <2>1, EditClaimKeeps, SubmitClaimKeeps, ApproveClaimKeeps, RejectClaimKeeps,
       ReimburseKeeps
<1>7. ASSUME NEW w \in Clerk, GiveUp(w) PROVE Inv'
  BY <1>7, GiveUpKeeps
<1> QED
  BY <1>1, <1>2, <1>3, <1>4, <1>5, <1>6, <1>7 DEF Next, Serve

LEMMA InvAlways == OneDesk => (Spec => []Inv)
<1>1. OneDesk /\ Inv /\ [Next]_vars => Inv'
  BY InvStep
<1> SUFFICES ASSUME OneDesk PROVE Spec => []Inv
  OBVIOUS
<1>2. Inv /\ [Next]_vars => Inv'
  BY <1>1
<1> QED
  BY <1>2, InvInit, PTL DEF Spec

(* Where the requests of an author have a document to themselves, the      *)
(* obligation in the ledger is what the bill says and what its lines add   *)
(* up to, however approval, posting, void and payment interleave.          *)
THEOREM TheBillIsOwed == OneDesk => (Spec => []ObligationIsTheBill)
<1>1. Inv => ObligationIsTheBill
  BY DEF Inv, BillInv, ObligationIsTheBill
<1> SUFFICES ASSUME OneDesk PROVE Spec => []ObligationIsTheBill
  OBVIOUS
<1>2. Spec => []Inv
  BY InvAlways
<1> QED
  BY <1>1, <1>2, PTL

(* There, a vendor is never paid more than is owed, the bill knows each    *)
(* payment, and a claimant is paid back what was accrued, once.            *)
THEOREM MoneyGoesOutOnce == OneDesk => (Spec => []PaidOutOnce)
<1>1. Inv => PaidOutOnce
  BY DEF Inv, BillInv, ClaimInv, PaidOutOnce, VendorNeverOverpaid, ReimbursedOnce
<1> SUFFICES ASSUME OneDesk PROVE Spec => []PaidOutOnce
  OBVIOUS
<1>2. Spec => []Inv
  BY InvAlways
<1> QED
  BY <1>1, <1>2, PTL

-----------------------------------------------------------------------------
(* Bank reconciliation.                                                    *)
LEMMA BankSums == \A f : Bank!SumFunction(f) = Total(f, DOMAIN f)
BY DEF Bank!SumFunction, Bank!SumFunctionOnSet, Bank!FoldFunctionOnSet, Bank!MapThenFoldSet, Total, IsSum,
       Partial, Pick

LEMMA FiniteParts == IsFiniteSet(Txn) /\ IsFiniteSet(Line) /\ IsFiniteSet(Entry)
BY BankConstants, TimeConstants DEF Bank!BankRecConstantsOK, Time!TimesheetConstantsOK, IsFiniteSet,
   Bank!IsFiniteSet, Time!IsFiniteSet

(* What a request explains of a bank line once it is committed.            *)
Explains(w, t) == [l \in Line |-> Bank!Seen(w, t, l)]

Explained(w, t) ==
  /\ Total(Explains(w, t), Line) <= TxnAmount[t]
  /\ t \in DOMAIN bankWs[w].moves /\ bankWs[w].moves[t] = "matched"
       => Total(Explains(w, t), Line) = TxnAmount[t]

(* A request writes bank lines it has locked, and none is explained by     *)
(* more than it moved once the request is committed.  What releases        *)
(* matches adds none, and puts its bank line back on the worklist.         *)
Holds(w) == \A t \in Txn :
  t \in DOMAIN bankWs[w].moves \/ bankWs[w].new[t] # Bank!Nothing[t] => bankLock[t] = w

Releases(w) == bankWs[w].drop # {} =>
  /\ bankWs[w].at \in {"read", "commit"} /\ bankWs[w].new = Bank!Nothing
  /\ bankWs[w].txn \in Txn /\ bankWs[w].drop \subseteq {bankWs[w].txn} \X Line
  /\ bankWs[w].at = "commit" => /\ bankWs[w].txn \in DOMAIN bankWs[w].moves
                                /\ bankWs[w].moves[bankWs[w].txn] = "unmatched"

Fine(w) ==
  /\ bankWs[w].at = "idle" => bankWs[w] = Bank!Idle
  /\ bankWs[w].at = "read" => /\ bankWs[w].txn \in Txn /\ bankWs[w].new = Bank!Nothing
                              /\ DOMAIN bankWs[w].moves = {}
  /\ Holds(w) /\ Releases(w)
  /\ \A t \in Txn : Explained(w, t)

BankInv == Bank!BankTypeOK /\ MatchedIsExplained /\ \A w \in Bank!Worker : Fine(w)

(* Totals over the ledger lines.                                           *)
LEMMA LineTotals ==
  \A f \in [Line -> Nat] : Bank!SumFunction(f) = Total(f, Line) /\ Total(f, Line) \in Nat
<1> SUFFICES ASSUME NEW f \in [Line -> Nat]
             PROVE  Bank!SumFunction(f) = Total(f, Line) /\ Total(f, Line) \in Nat
  OBVIOUS
<1>1. DOMAIN f = Line /\ \A l \in Line : f[l] \in Nat
  OBVIOUS
<1> QED BY <1>1, FiniteParts, BankSums, TotalNat

LEMMA OneMoreMatch ==
  ASSUME NEW f \in [Line -> Nat], NEW l \in Line, f[l] = 0, NEW a \in Nat
  PROVE  Total([f EXCEPT ![l] = a], Line) = Total(f, Line) + a
<1> DEFINE h == [f EXCEPT ![l] = a]
<1>1. \A k \in Line : f[k] \in Int /\ h[k] \in Int
  OBVIOUS
<1>2. \A k \in Line \ {l} : h[k] = f[k]
  OBVIOUS
<1>3. h[l] = a
  OBVIOUS
<1>4. IsFiniteSet(Line)
  BY FiniteParts
<1> HIDE DEF h
<1>5. Total(f, Line) \in Int /\ Total(h, Line) = Total(f, Line) - f[l] + h[l]
  BY <1>1, <1>2, <1>4, TotalChange
<1>6. Total(h, Line) = Total(f, Line) + a
  BY <1>3, <1>5
<1> QED BY <1>6 DEF h

(* Line by line more is more in all.                                       *)
LEMMA TotalsGrow ==
  ASSUME NEW f \in [Line -> Nat], NEW h \in [Line -> Nat], \A l \in Line : f[l] <= h[l]
  PROVE  Total(f, Line) <= Total(h, Line)
<1> DEFINE d == [l \in Line |-> h[l] - f[l]]
<1>1. d \in [Line -> Nat] /\ Adds(h, f, d, Line)
  BY DEF Adds
<1>2. IsFiniteSet(Line)
  BY FiniteParts
<1> HIDE DEF d
<1>3. Total(h, Line) = Total(f, Line) + Total(d, Line)
  BY <1>1, <1>2, TotalPlus
<1>4. Total(h, Line) \in Nat /\ Total(f, Line) \in Nat /\ Total(d, Line) \in Nat
  BY <1>1, LineTotals
<1> QED BY <1>3, <1>4

LEMMA NothingTyped == Bank!Nothing \in [Txn -> [Line -> Nat]] /\ Total([l \in Line |-> 0], Line) = 0
<1>1. \A l \in Line : [k \in Line |-> 0][l] = 0
  OBVIOUS
<1> QED BY <1>1, FiniteParts, TotalZero DEF Bank!Nothing

LEMMA IdleTyped == Bank!Idle \in Bank!Request
<1>1. Bank!None \in [{} -> Bank!TxnStatus]
  BY DEF Bank!None
<1>2. Bank!None \in Bank!Statuses
  BY <1>1 DEF Bank!Statuses
<1> QED BY <1>2, NothingTyped DEF Bank!Idle, Bank!Request, Bank!SessionStatus

LEMMA BankBegins == Bank!Init => BankInv
<1> SUFFICES ASSUME Bank!Init PROVE BankInv
  OBVIOUS
<1>1. Bank!BankTypeOK
  BY IdleTyped, BankConstants, NothingTyped DEF Bank!Init, Bank!BankTypeOK, Bank!BankRecConstantsOK,
    Bank!TxnStatus, Bank!SessionStatus, Bank!Nothing
<1>2. \A t \in Txn : match[t] = [l \in Line |-> 0] /\ TxnAmount[t] \in Nat
  BY BankConstants DEF Bank!Init, Bank!BankRecConstantsOK
<1>3. MatchedIsExplained
  <2> SUFFICES ASSUME NEW t \in Txn
               PROVE Bank!SumFunction(match[t]) = 0 /\ status[t] # "matched" /\ TxnAmount[t] \in Nat
    BY DEF MatchedIsExplained, Bank!MatchedIsExplained
  <2>1. match[t] \in [Line -> Nat]
    BY <1>2
  <2>2. Bank!SumFunction(match[t]) = Total(match[t], Line)
    BY <2>1, LineTotals
  <2> QED BY <1>2, <2>2, NothingTyped DEF Bank!Init
<1>4. ASSUME NEW w \in Bank!Worker PROVE Fine(w)
  <2>1. bankWs[w] = Bank!Idle
    BY DEF Bank!Init
  <2>2. DOMAIN bankWs[w].moves = {} /\ bankWs[w].new = Bank!Nothing /\ bankWs[w].drop = {}
    BY <2>1 DEF Bank!Idle, Bank!None
  <2>3. ASSUME NEW t \in Txn PROVE Explained(w, t)
    <3>1. Explains(w, t) = [l \in Line |-> 0]
      BY <1>2, <2>2 DEF Explains, Bank!Seen, Bank!Nothing
    <3> QED BY <1>2, <2>2, <3>1, NothingTyped DEF Explained
  <2> QED BY <2>1, <2>2, <2>3 DEF Fine, Holds, Releases, Bank!Idle
<1> QED BY <1>1, <1>3, <1>4 DEF BankInv

-----------------------------------------------------------------------------
(* The types of what requests build.                                       *)

LEMMA MovedTyped ==
  ASSUME NEW w \in Bank!Worker, bankWs[w].moves \in Bank!Statuses, NEW t \in Txn,
         NEW s \in Bank!TxnStatus
  PROVE  /\ Bank!Moved(w, t, s) \in Bank!Statuses
         /\ DOMAIN Bank!Moved(w, t, s) = DOMAIN bankWs[w].moves \cup {t}
         /\ Bank!Moved(w, t, s)[t] = s
         /\ \A x \in DOMAIN bankWs[w].moves : x # t => Bank!Moved(w, t, s)[x] = bankWs[w].moves[x]
<1>1. PICK S \in SUBSET Txn : bankWs[w].moves \in [S -> Bank!TxnStatus]
  BY DEF Bank!Statuses
<1>2. Bank!Moved(w, t, s) = [x \in S \cup {t} |-> IF x = t THEN s ELSE bankWs[w].moves[x]]
  BY <1>1 DEF Bank!Moved
<1>3. Bank!Moved(w, t, s) \in [S \cup {t} -> Bank!TxnStatus]
  BY <1>1, <1>2
<1>4. Bank!Moved(w, t, s) \in Bank!Statuses
  <2>1. S \cup {t} \in SUBSET Txn
    OBVIOUS
  <2> QED BY <1>3, <2>1 DEF Bank!Statuses
<1> QED BY <1>1, <1>2, <1>4

LEMMA StatusesFew ==
  ASSUME NEW f \in Bank!Statuses, NEW S, S \subseteq DOMAIN f
  PROVE  [x \in S |-> f[x]] \in Bank!Statuses
<1>1. PICK D \in SUBSET Txn : f \in [D -> Bank!TxnStatus]
  BY DEF Bank!Statuses
<1>2. S \in SUBSET Txn /\ [x \in S |-> f[x]] \in [S -> Bank!TxnStatus]
  BY <1>1
<1> QED BY <1>2 DEF Bank!Statuses

(* What is left of a bank line, and of a ledger line.                      *)
LEMMA SeenTyped ==
  ASSUME BankInv, NEW w \in Bank!Worker, NEW t \in Txn
  PROVE  /\ Explains(w, t) \in [Line -> Nat] /\ Total(Explains(w, t), Line) \in Nat
         /\ Bank!TxnResidual(w, t) = TxnAmount[t] - Total(Explains(w, t), Line)
         /\ TxnAmount[t] \in Nat
         /\ \A l \in Line : Bank!LineResidual(w, l) \in Int
<1> USE DEF BankInv, Bank!BankTypeOK
<1>1. bankWs[w].new \in [Txn -> [Line -> Nat]] /\ match \in [Txn -> [Line -> Nat]]
  BY DEF Bank!Request
<1>2. \A x \in Txn, l \in Line : Bank!Seen(w, x, l) \in Nat
  BY <1>1 DEF Bank!Seen
<1>3. Explains(w, t) \in [Line -> Nat]
  BY <1>2 DEF Explains
<1>4. Bank!SumFunction(Explains(w, t)) = Total(Explains(w, t), Line) /\ Total(Explains(w, t), Line) \in Nat
  BY <1>3, LineTotals
<1>5. Bank!TxnResidual(w, t) = TxnAmount[t] - Bank!SumFunction(Explains(w, t))
  BY DEF Bank!TxnResidual, Explains
<1>6. ASSUME NEW l \in Line PROVE Bank!LineResidual(w, l) \in Int
  <2> DEFINE f == [x \in Txn |-> Bank!Seen(w, x, l)]
  <2>1. \A x \in Txn : f[x] \in Int
    BY <1>2
  <2>2. Bank!LineResidual(w, l) = LineAmount[l] - Bank!SumFunction(f)
    BY DEF Bank!LineResidual
  <2>3. DOMAIN f = Txn
    OBVIOUS
  <2> HIDE DEF f
  <2>4. Bank!SumFunction(f) \in Int
    BY <2>1, <2>3, BankSums, FiniteParts, TotalType
  <2> QED BY <2>2, <2>4, BankConstants DEF Bank!BankRecConstantsOK
<1>7. TxnAmount[t] \in Nat
  BY BankConstants DEF Bank!BankRecConstantsOK
<1> QED BY <1>3, <1>4, <1>5, <1>6, <1>7

LEMMA ConfirmedTyped ==
  ASSUME BankInv, NEW w \in Bank!Worker, NEW t \in Txn, NEW l \in Line, NEW a \in Nat
  PROVE  Bank!Confirmed(w, t, l, a) \in Bank!Request
<1> DEFINE r == bankWs[w]
           new   == [r.new EXCEPT ![t] = [r.new[t] EXCEPT ![l] = a]]
           moves == IF a = Bank!TxnResidual(w, t) THEN Bank!Moved(w, t, "matched") ELSE r.moves
           stamp == IF a = Bank!LineResidual(w, l) THEN r.stamp \cup {l} ELSE r.stamp
<1>1. r \in Bank!Request
  BY DEF BankInv, Bank!BankTypeOK
<1>2. new \in [Txn -> [Line -> Nat]]
  BY <1>1 DEF Bank!Request
<1>3. moves \in Bank!Statuses
  <2>1. bankWs[w].moves \in Bank!Statuses /\ "matched" \in Bank!TxnStatus
    BY <1>1 DEF Bank!Request, Bank!TxnStatus
  <2>2. Bank!Moved(w, t, "matched") \in Bank!Statuses
    BY <2>1, MovedTyped
  <2> QED BY <2>1, <2>2
<1>4. stamp \subseteq Line
  BY <1>1 DEF Bank!Request
<1>5. Bank!Confirmed(w, t, l, a) = [r EXCEPT !.new = new, !.moves = moves, !.stamp = stamp]
  BY DEF Bank!Confirmed
<1> HIDE DEF r, new, moves, stamp
<1> QED BY <1>1, <1>2, <1>3, <1>4, <1>5 DEF Bank!Request

-----------------------------------------------------------------------------
(* Steps of one request that writes nothing yet.                           *)

Quiet(w) ==
  /\ UNCHANGED <<match, status>>
  /\ \A v \in Bank!Worker \ {w} : /\ bankWs'[v] = bankWs[v]
                                  /\ \A t \in Txn : bankLock[t] = v => bankLock'[t] = v

LEMMA QuietStep ==
  ASSUME BankInv, Bank!BankTypeOK', NEW w \in Bank!Worker, Quiet(w), Fine(w)'
  PROVE  BankInv'
<1>1. MatchedIsExplained'
  BY DEF BankInv, MatchedIsExplained, Bank!MatchedIsExplained, Quiet
<1>2. ASSUME NEW v \in Bank!Worker, v # w PROVE Fine(v)'
  <2>1. Fine(v) /\ bankWs'[v] = bankWs[v] /\ match' = match
        /\ \A t \in Txn : bankLock[t] = v => bankLock'[t] = v
    BY <1>2 DEF BankInv, Quiet
  <2>2. Holds(v)'
    BY <2>1 DEF Fine, Holds
  <2>3. Releases(v)'
    BY <2>1 DEF Fine, Releases
  <2>4. \A t \in Txn : Explained(v, t)'
    BY <2>1 DEF Fine, Explained, Explains, Bank!Seen
  <2> QED BY <2>1, <2>2, <2>3, <2>4 DEF Fine
<1> QED BY <1>1, <1>2 DEF BankInv

(* A request that has moved nothing is fine.                               *)
Untouched(w) ==
  /\ bankWs[w].new = Bank!Nothing /\ DOMAIN bankWs[w].moves = {}
  /\ bankWs[w].at \in {"idle", "read", "auto"}
  /\ bankWs[w].at = "idle" => bankWs[w] = Bank!Idle
  /\ bankWs[w].at = "auto" => bankWs[w].drop = {}
  /\ bankWs[w].at = "read" => /\ bankWs[w].txn \in Txn
                              /\ bankWs[w].drop \subseteq {bankWs[w].txn} \X Line

LEMMA UntouchedIsFine ==
  ASSUME Bank!BankTypeOK', MatchedIsExplained', NEW w \in Bank!Worker, Untouched(w)'
  PROVE  Fine(w)'
<1>1. (bankWs[w].new = Bank!Nothing /\ DOMAIN bankWs[w].moves = {})'
  BY DEF Untouched
<1>2. ASSUME NEW t \in Txn PROVE Explained(w, t)'
  <2>1. match'[t] \in [Line -> Nat]
    BY DEF Bank!BankTypeOK
  <2>2. \A l \in Line : Bank!Seen(w, t, l)' = match'[t][l]
    BY <1>1, <2>1 DEF Bank!Seen, Bank!Nothing
  <2>3. Explains(w, t)' = match'[t]
    BY <2>1, <2>2 DEF Explains
  <2>4. Bank!SumFunction(match'[t]) = Total(match'[t], Line)
    BY <2>1, LineTotals
  <2> QED BY <1>1, <2>3, <2>4 DEF MatchedIsExplained, Bank!MatchedIsExplained, Explained
<1>3. Holds(w)'
  BY <1>1 DEF Holds
<1>4. Releases(w)'
  BY DEF Releases, Bank!Idle, Untouched
<1> QED BY <1>1, <1>2, <1>3, <1>4 DEF Fine, Bank!Idle, Untouched

(* Nothing of a request that is given up remains.                          *)
LEMMA RolledBack ==
  ASSUME BankInv, NEW w \in Bank!Worker, Bank!Rollback(w),
         UNCHANGED <<status, match, ofSession, reconciled, session, gap>>
  PROVE  BankInv'
<1>1. bankWs' = [bankWs EXCEPT ![w] = Bank!Idle] /\ bankWs'[w] = Bank!Idle
  BY DEF Bank!Rollback, BankInv, Bank!BankTypeOK
<1>2. bankLock' = [t \in Txn |-> IF bankLock[t] = w THEN Nobody ELSE bankLock[t]]
  BY DEF Bank!Rollback, Bank!Release
<1>3. Bank!BankTypeOK'
  BY <1>1, <1>2, IdleTyped DEF BankInv, Bank!BankTypeOK
<1>4. Quiet(w)
  BY <1>1, <1>2 DEF BankInv, Bank!BankTypeOK, Quiet
<1>5. MatchedIsExplained'
  BY DEF BankInv, MatchedIsExplained, Bank!MatchedIsExplained
<1>6. (Fine(w))'
  <2>1. Untouched(w)'
    BY <1>1 DEF Untouched, Bank!Idle, Bank!None
  <2> QED BY <1>3, <1>5, <2>1, UntouchedIsFine
<1> QED BY <1>3, <1>4, <1>6, QuietStep

-----------------------------------------------------------------------------
(* What a request adds.                                                    *)

LEMMA TakeKeeps ==
  ASSUME BankInv, NEW w \in Bank!Worker, NEW t \in Txn, Bank!Take(w, t)
  PROVE  /\ bankLock' \in [Txn -> Bank!Worker \cup {Nobody}] /\ bankLock'[t] = w
         /\ \A v \in Bank!Worker, x \in Txn : bankLock[x] = v => bankLock'[x] = v
BY BankConstants DEF BankInv, Bank!BankTypeOK, Bank!Take, Bank!BankRecConstantsOK

(* A match that fits is fine.                                              *)
LEMMA ConfirmedIsFine ==
  ASSUME BankInv, NEW w \in Bank!Worker, NEW t \in Txn, NEW l \in Line, NEW a \in Nat \ {0},
         Bank!Take(w, t), Bank!Fits(w, t, l, a), match' = match,
         bankWs[w].drop = {}, bankWs'[w].drop = {}, bankWs'[w].at \in {"auto", "commit"},
         bankWs'[w].new = Bank!Confirmed(w, t, l, a).new,
         bankWs'[w].moves = Bank!Confirmed(w, t, l, a).moves
  PROVE  Fine(w)'
<1>1. bankWs[w] \in Bank!Request /\ Fine(w)
  BY DEF BankInv, Bank!BankTypeOK
<1>2. bankWs'[w].new = [bankWs[w].new EXCEPT ![t] = [bankWs[w].new[t] EXCEPT ![l] = a]]
  BY <1>1 DEF Bank!Confirmed, Bank!Request
<1>3. bankWs'[w].moves = IF a = Bank!TxnResidual(w, t) THEN Bank!Moved(w, t, "matched")
                         ELSE bankWs[w].moves
  BY <1>1 DEF Bank!Confirmed, Bank!Request
<1>4. bankWs[w].moves \in Bank!Statuses /\ bankWs[w].new \in [Txn -> [Line -> Nat]]
      /\ match \in [Txn -> [Line -> Nat]]
  BY <1>1 DEF Bank!Request, BankInv, Bank!BankTypeOK
<1>5. \A x \in Txn \ {t} : /\ x \in DOMAIN bankWs'[w].moves => x \in DOMAIN bankWs[w].moves
                           /\ x \in DOMAIN bankWs'[w].moves => bankWs'[w].moves[x] = bankWs[w].moves[x]
                           /\ bankWs'[w].new[x] = bankWs[w].new[x]
  <2>1. "matched" \in Bank!TxnStatus
    BY DEF Bank!TxnStatus
  <2>2. /\ DOMAIN Bank!Moved(w, t, "matched") = DOMAIN bankWs[w].moves \cup {t}
        /\ \A x \in DOMAIN bankWs[w].moves :
             x # t => Bank!Moved(w, t, "matched")[x] = bankWs[w].moves[x]
    BY ONLY w \in Bank!Worker, t \in Txn, <1>4, <2>1, MovedTyped
  <2>3. \A x \in Txn \ {t} : bankWs'[w].new[x] = bankWs[w].new[x]
    BY <1>2, <1>4
  <2> QED BY <1>3, <2>2, <2>3
<1>6. Holds(w)'
  <2> SUFFICES ASSUME NEW x \in Txn,
                      x \in DOMAIN bankWs'[w].moves \/ bankWs'[w].new[x] # Bank!Nothing[x]
               PROVE  bankLock'[x] = w
    BY DEF Holds, Bank!Nothing
  <2>1. CASE x = t
    BY <2>1, TakeKeeps
  <2>2. CASE x # t
    BY <1>1, <1>5, <2>2, TakeKeeps DEF Fine, Holds
  <2> QED BY <2>1, <2>2
<1>7. Releases(w)'
  BY DEF Releases
<1>8. ASSUME NEW x \in Txn, x # t PROVE Explained(w, x)'
  <2>1. \A k \in Line : Bank!Seen(w, x, k)' = Bank!Seen(w, x, k)
    BY <1>5, <1>8 DEF Bank!Seen
  <2>2. Explains(w, x)' = Explains(w, x)
    BY <2>1 DEF Explains
  <2> QED BY <1>1, <1>5, <1>8, <2>2 DEF Fine, Explained
<1>9. Explained(w, t)'
  <2>1. match[t][l] = 0 /\ bankWs[w].new[t][l] = 0
    BY <1>4 DEF Bank!Fits, Bank!Seen
  <2>2. \A k \in Line : Bank!Seen(w, t, k)' = IF k = l THEN a ELSE Bank!Seen(w, t, k)
    BY <1>2, <1>4, <2>1 DEF Bank!Seen
  <2>3. Explains(w, t)' = [Explains(w, t) EXCEPT ![l] = a] /\ Explains(w, t)[l] = 0
    BY <2>2 DEF Explains, Bank!Fits
  <2>4. /\ Explains(w, t) \in [Line -> Nat] /\ Total(Explains(w, t), Line) \in Nat
        /\ Bank!TxnResidual(w, t) = TxnAmount[t] - Total(Explains(w, t), Line)
        /\ TxnAmount[t] \in Nat
    BY SeenTyped
  <2>5. Total(Explains(w, t)', Line) = Total(Explains(w, t), Line) + a
    <3>1. PICK f : f = Explains(w, t)
      OBVIOUS
    <3>2. Explains(w, t)' = [f EXCEPT ![l] = a] /\ f \in [Line -> Nat] /\ f[l] = 0
      BY <2>3, <2>4, <3>1
    <3>3. Total([f EXCEPT ![l] = a], Line) = Total(f, Line) + a
      BY ONLY l \in Line, a \in Nat \ {0}, <3>2, OneMoreMatch
    <3> QED BY <3>1, <3>2, <3>3
  <2>6. a <= Bank!TxnResidual(w, t)
    BY DEF Bank!Fits
  <2>7. Total(Explains(w, t)', Line) <= TxnAmount[t]
    BY <2>4, <2>5, <2>6
  <2>8. ASSUME t \in DOMAIN bankWs'[w].moves, bankWs'[w].moves[t] = "matched",
               a # Bank!TxnResidual(w, t)
        PROVE  FALSE
    <3>1. t \in DOMAIN bankWs[w].moves /\ bankWs[w].moves[t] = "matched"
      BY <1>3, <2>8
    <3>2. Total(Explains(w, t), Line) = TxnAmount[t]
      BY <1>1, <3>1 DEF Fine, Explained
    <3> QED BY <2>4, <2>6, <3>2
  <2>9. a = Bank!TxnResidual(w, t) => Total(Explains(w, t)', Line) = TxnAmount[t]
    BY <2>4, <2>5
  <2> QED BY <2>7, <2>8, <2>9 DEF Explained
<1> QED BY <1>6, <1>7, <1>8, <1>9 DEF Fine

(* So is a bank line that is put back on the worklist.                     *)
LEMMA MarkedIsFine ==
  ASSUME BankInv, NEW w \in Bank!Worker, NEW t \in Txn, NEW s \in {"unmatched", "suggested"},
         Bank!Take(w, t), match' = match,
         bankWs'[w].new = bankWs[w].new, bankWs'[w].moves = Bank!Moved(w, t, s),
         bankWs'[w].at \in {"auto", "commit"}, Releases(w)'
  PROVE  Fine(w)'
<1>1. bankWs[w] \in Bank!Request /\ Fine(w) /\ bankWs[w].moves \in Bank!Statuses
  BY DEF BankInv, Bank!BankTypeOK, Bank!Request
<1>2. /\ DOMAIN bankWs'[w].moves = DOMAIN bankWs[w].moves \cup {t}
      /\ bankWs'[w].moves[t] = s
      /\ \A x \in DOMAIN bankWs[w].moves : x # t => bankWs'[w].moves[x] = bankWs[w].moves[x]
  <2>1. s \in Bank!TxnStatus
    BY DEF Bank!TxnStatus
  <2>2. /\ DOMAIN Bank!Moved(w, t, s) = DOMAIN bankWs[w].moves \cup {t}
        /\ Bank!Moved(w, t, s)[t] = s
        /\ \A x \in DOMAIN bankWs[w].moves : x # t => Bank!Moved(w, t, s)[x] = bankWs[w].moves[x]
    BY ONLY w \in Bank!Worker, t \in Txn, <1>1, <2>1, MovedTyped
  <2> QED BY <2>2
<1>3. Holds(w)'
  <2> SUFFICES ASSUME NEW x \in Txn,
                      x \in DOMAIN bankWs'[w].moves \/ bankWs'[w].new[x] # Bank!Nothing[x]
               PROVE  bankLock'[x] = w
    BY DEF Holds, Bank!Nothing
  <2>1. CASE x = t
    BY <2>1, TakeKeeps
  <2>2. CASE x # t
    BY <1>1, <1>2, <2>2, TakeKeeps DEF Fine, Holds
  <2> QED BY <2>1, <2>2
<1>4. ASSUME NEW x \in Txn PROVE Explained(w, x)'
  <2>1. Explains(w, x)' = Explains(w, x)
    BY DEF Explains, Bank!Seen
  <2> QED BY <1>1, <1>2, <2>1 DEF Fine, Explained
<1> QED BY <1>3, <1>4 DEF Fine

LEMMA OwnStep ==
  ASSUME BankInv, NEW w \in Bank!Worker, NEW r \in Bank!Request,
         bankWs' = [bankWs EXCEPT ![w] = r],
         \/ bankLock' = bankLock
         \/ \E t \in Txn : Bank!Take(w, t),
         UNCHANGED <<status, match, ofSession, reconciled, session, gap>>
  PROVE  /\ Bank!BankTypeOK' /\ Quiet(w) /\ bankWs'[w] = r /\ MatchedIsExplained'
         /\ Fine(w)' => BankInv'
<1>1. bankWs'[w] = r /\ \A v \in Bank!Worker \ {w} : bankWs'[v] = bankWs[v]
  BY DEF BankInv, Bank!BankTypeOK
<1>2. /\ bankLock' \in [Txn -> Bank!Worker \cup {Nobody}]
      /\ \A v \in Bank!Worker, x \in Txn : bankLock[x] = v => bankLock'[x] = v
  <2>1. CASE bankLock' = bankLock
    BY <2>1 DEF BankInv, Bank!BankTypeOK
  <2>2. CASE \E t \in Txn : Bank!Take(w, t)
    BY <2>2, TakeKeeps
  <2> QED BY <2>1, <2>2
<1>3. Bank!BankTypeOK'
  <2>1. bankWs' \in [Bank!Worker -> Bank!Request]
    BY DEF BankInv, Bank!BankTypeOK
  <2> QED BY <1>2, <2>1 DEF BankInv, Bank!BankTypeOK
<1>4. Quiet(w)
  BY <1>1, <1>2 DEF Quiet
<1>5. MatchedIsExplained'
  BY DEF BankInv, MatchedIsExplained, Bank!MatchedIsExplained
<1>6. Fine(w)' => BankInv'
  BY <1>3, <1>4, QuietStep
<1> QED BY <1>1, <1>3, <1>4, <1>5, <1>6

LEMMA MatchBegins ==
  ASSUME BankInv, NEW w \in Bank!Worker, NEW t \in Txn, NEW l \in Line, Bank!BeginMatch(w, t, l)
  PROVE  BankInv'
<1>1. PICK a \in 1..TxnAmount[t] :
        /\ bankWs[w].at = "idle" /\ Bank!Take(w, t) /\ Bank!Fits(w, t, l, a)
        /\ bankWs' = [bankWs EXCEPT ![w] = [Bank!Confirmed(w, t, l, a) EXCEPT !.at = "commit"]]
        /\ UNCHANGED <<status, match, ofSession, reconciled, session, gap>>
  BY DEF Bank!BeginMatch
<1>2. a \in Nat \ {0}
  BY SeenTyped
<1>3. PICK c : c = Bank!Confirmed(w, t, l, a)
  OBVIOUS
<1>4. c \in Bank!Request
  BY <1>2, <1>3, ConfirmedTyped
<1>5. bankWs[w] = Bank!Idle /\ bankWs[w] \in Bank!Request
  BY <1>1 DEF BankInv, Bank!BankTypeOK, Fine
<1>6. c.drop = {}
  BY <1>3, <1>5 DEF Bank!Confirmed, Bank!Idle, Bank!Request
<1>7. PICK r : r = [c EXCEPT !.at = "commit"]
  OBVIOUS
<1>8. /\ r \in Bank!Request /\ r.drop = {} /\ r.at = "commit" /\ r.new = c.new /\ r.moves = c.moves
      /\ bankWs' = [bankWs EXCEPT ![w] = r]
  BY <1>1, <1>3, <1>4, <1>6, <1>7 DEF Bank!Request
<1>9. bankWs'[w] = r /\ (Fine(w)' => BankInv')
  BY <1>1, <1>8, OwnStep
<1>10. bankWs[w].drop = {}
  BY <1>5 DEF Bank!Idle
<1>11. Fine(w)'
  BY <1>1, <1>2, <1>3, <1>8, <1>9, <1>10, ConfirmedIsFine
<1> QED BY <1>9, <1>11

LEMMA UnmatchIsRead ==
  ASSUME BankInv, NEW w \in Bank!Worker, NEW t \in Txn, Bank!ReadUnmatch(w, t)
  PROVE  BankInv'
<1> DEFINE all == {p \in {t} \X Line : match[t][p[2]] > 0}
<1>1. PICK S \in {{p} : p \in all} \cup {all} :
        bankWs' = [bankWs EXCEPT ![w] = [Bank!Idle EXCEPT !.at = "read", !.txn = t, !.drop = S]]
  BY DEF Bank!ReadUnmatch
<1>2. S \subseteq {t} \X Line
  OBVIOUS
<1>3. PICK r : r = [Bank!Idle EXCEPT !.at = "read", !.txn = t, !.drop = S]
  OBVIOUS
<1>4. /\ r \in Bank!Request /\ r.at = "read" /\ r.txn = t /\ r.drop = S /\ r.new = Bank!Nothing
      /\ r.moves = Bank!None
  BY <1>2, <1>3, IdleTyped DEF Bank!Request, Bank!Idle
<1>5. bankWs' = [bankWs EXCEPT ![w] = r]
  BY <1>1, <1>3
<1>6. UNCHANGED <<status, match, ofSession, reconciled, session, gap, bankLock>>
  BY DEF Bank!ReadUnmatch
<1>7. /\ Bank!BankTypeOK' /\ bankWs'[w] = r /\ MatchedIsExplained'
      /\ Fine(w)' => BankInv'
  BY <1>4, <1>5, <1>6, OwnStep
<1>8. Untouched(w)'
  BY <1>2, <1>4, <1>7 DEF Untouched, Bank!None
<1> QED BY <1>7, <1>8, UntouchedIsFine

LEMMA UnmatchBegins ==
  ASSUME BankInv, NEW w \in Bank!Worker, Bank!BeginUnmatch(w)
  PROVE  BankInv'
<1>1. PICK t, c, m :
        /\ t = bankWs[w].txn /\ m = Bank!Moved(w, t, "unmatched") /\ c \subseteq Line
        /\ bankWs[w].at = "read" /\ Bank!Take(w, t)
        /\ bankWs' = [bankWs EXCEPT ![w] = [bankWs[w] EXCEPT !.at = "commit", !.moves = m, !.clear = c]]
        /\ UNCHANGED <<status, match, ofSession, reconciled, session, gap>>
  <2> DEFINE c == {l \in Line : /\ <<bankWs[w].txn, l>> \in bankWs[w].drop
                                /\ Bank!Claimed(l) = match[bankWs[w].txn][l]}
  <2>1. c \subseteq Line
    OBVIOUS
  <2> QED BY <2>1 DEF Bank!BeginUnmatch
<1>2. t \in Txn /\ bankWs[w].new = Bank!Nothing /\ bankWs[w] \in Bank!Request /\ Releases(w)
  BY <1>1 DEF BankInv, Bank!BankTypeOK, Fine
<1>3. m \in Bank!Statuses /\ t \in DOMAIN m /\ m[t] = "unmatched"
  <2>1. bankWs[w].moves \in Bank!Statuses /\ "unmatched" \in Bank!TxnStatus
    BY <1>2 DEF Bank!Request, Bank!TxnStatus
  <2>2. /\ Bank!Moved(w, t, "unmatched") \in Bank!Statuses
        /\ t \in DOMAIN Bank!Moved(w, t, "unmatched")
        /\ Bank!Moved(w, t, "unmatched")[t] = "unmatched"
    <3>1. PICK s : s = "unmatched"
      OBVIOUS
    <3>2. t \in Txn /\ s \in Bank!TxnStatus
      BY <1>2, <2>1, <3>1
    <3>3. /\ Bank!Moved(w, t, s) \in Bank!Statuses
          /\ DOMAIN Bank!Moved(w, t, s) = DOMAIN bankWs[w].moves \cup {t}
          /\ Bank!Moved(w, t, s)[t] = s
      BY ONLY w \in Bank!Worker, <2>1, <3>2, MovedTyped
    <3> QED BY <3>1, <3>3
  <2> QED BY <1>1, <2>2
<1>4. PICK r : r = [bankWs[w] EXCEPT !.at = "commit", !.moves = m, !.clear = c]
  OBVIOUS
<1>5. /\ r \in Bank!Request /\ r.at = "commit" /\ r.txn = t /\ r.drop = bankWs[w].drop
      /\ r.new = bankWs[w].new /\ r.moves = m
  BY <1>1, <1>2, <1>3, <1>4 DEF Bank!Request
<1>6. bankWs' = [bankWs EXCEPT ![w] = r]
  BY <1>1, <1>4
<1>7. bankWs'[w] = r /\ (Fine(w)' => BankInv')
  <2>1. UNCHANGED <<status, match, ofSession, reconciled, session, gap>>
    BY <1>1
  <2>2. r \in Bank!Request /\ (bankLock' = bankLock \/ \E x \in Txn : Bank!Take(w, x))
    BY <1>1, <1>2, <1>5
  <2> QED BY ONLY BankInv, w \in Bank!Worker, <1>6, <2>1, <2>2, OwnStep
<1>8. Releases(w)'
  <2>1. bankWs[w].drop # {} => bankWs[w].drop \subseteq {t} \X Line
    BY <1>1, <1>2 DEF Releases
  <2>2. r.drop # {} => r.drop \subseteq {r.txn} \X Line
    BY <1>5, <2>1
  <2>3. r.new = Bank!Nothing /\ r.txn \in Txn /\ r.txn \in DOMAIN r.moves
        /\ r.moves[r.txn] = "unmatched"
    BY <1>2, <1>3, <1>5
  <2> QED BY <1>5, <1>7, <2>2, <2>3 DEF Releases, Bank!Nothing
<1>9. Fine(w)'
  <2>1. t \in Txn /\ Bank!Take(w, t) /\ match' = match
    BY <1>1, <1>2
  <2>2. bankWs'[w].new = bankWs[w].new /\ bankWs'[w].at \in {"auto", "commit"}
    BY <1>5, <1>7
  <2>3. bankWs'[w].moves = Bank!Moved(w, t, "unmatched")
    BY <1>1, <1>5, <1>7
  <2>4. "unmatched" \in {"unmatched", "suggested"}
    OBVIOUS
  <2> QED BY ONLY BankInv, w \in Bank!Worker, <1>8, <2>1, <2>2, <2>3, <2>4, MarkedIsFine
<1> QED BY <1>7, <1>9

(* The automatic run.                                                      *)

LEMMA AutoBegins ==
  ASSUME BankInv, NEW w \in Bank!Worker, Bank!BeginAuto(w)
  PROVE  BankInv'
<1>1. PICK todo : todo = [t \in Bank!Pending |-> status[t]]
  OBVIOUS
<1>2. todo \in Bank!Statuses
  <2>1. Bank!Pending \in SUBSET Txn /\ todo \in [Bank!Pending -> Bank!TxnStatus]
    BY <1>1 DEF Bank!Pending, BankInv, Bank!BankTypeOK
  <2> QED BY <2>1 DEF Bank!Statuses
<1>3. PICK r : r = [Bank!Idle EXCEPT !.at = "auto", !.session = session.status, !.todo = todo]
  OBVIOUS
<1>4. /\ r \in Bank!Request /\ r.at = "auto" /\ r.new = Bank!Nothing /\ r.moves = Bank!None
      /\ r.drop = {}
  BY <1>2, <1>3, IdleTyped DEF Bank!Request, Bank!Idle, BankInv, Bank!BankTypeOK
<1>5. bankWs' = [bankWs EXCEPT ![w] = r]
  BY <1>1, <1>3 DEF Bank!BeginAuto
<1>6. UNCHANGED <<status, match, ofSession, reconciled, session, gap, bankLock>>
  BY DEF Bank!BeginAuto
<1>7. /\ Bank!BankTypeOK' /\ bankWs'[w] = r /\ MatchedIsExplained'
      /\ Fine(w)' => BankInv'
  BY <1>4, <1>5, <1>6, OwnStep
<1>8. Untouched(w)'
  BY <1>4, <1>7 DEF Untouched, Bank!None, Bank!Nothing
<1> QED BY <1>7, <1>8, UntouchedIsFine

LEMMA AutoDrops == BankInv => \A w \in Bank!Worker : bankWs[w].at = "auto" => bankWs[w].drop = {}
BY DEF BankInv, Fine, Releases

LEMMA ExaminedTyped ==
  ASSUME NEW r \in Bank!Request, NEW t
  PROVE  /\ Bank!Examined(r, t) \in Bank!Request
         /\ Bank!Examined(r, t).at = r.at /\ Bank!Examined(r, t).drop = r.drop
         /\ Bank!Examined(r, t).new = r.new /\ Bank!Examined(r, t).moves = r.moves
<1> DEFINE todo == [x \in DOMAIN r.todo \ {t} |-> r.todo[x]]
<1>1. todo \in Bank!Statuses
  <2>1. r.todo \in Bank!Statuses /\ DOMAIN r.todo \ {t} \subseteq DOMAIN r.todo
    BY DEF Bank!Request
  <2>2. PICK f : f = r.todo
    OBVIOUS
  <2> QED BY <2>1, <2>2, StatusesFew
<1>2. Bank!Examined(r, t) = [r EXCEPT !.todo = todo]
  BY DEF Bank!Examined
<1> HIDE DEF todo
<1> QED BY <1>1, <1>2 DEF Bank!Request

LEMMA AutoMatches ==
  ASSUME BankInv, NEW w \in Bank!Worker, NEW t \in Txn, Bank!AutoMatch(w, t)
  PROVE  BankInv'
<1>1. PICK l, a :
        /\ l \in Bank!Certain(w, t)
        /\ a = Bank!Smaller(Bank!TxnResidual(w, t), Bank!LineResidual(w, l))
        /\ bankWs[w].at = "auto" /\ Bank!Take(w, t) /\ a > 0 /\ Bank!Fits(w, t, l, a)
        /\ bankWs' = [bankWs EXCEPT ![w] = Bank!Examined(Bank!Confirmed(w, t, l, a), t)]
        /\ UNCHANGED <<status, match, ofSession, reconciled, session, gap>>
  BY DEF Bank!AutoMatch, Bank!Examines
<1>2. l \in Line
  BY <1>1 DEF Bank!Certain, Bank!Candidates
<1>3. a \in Nat \ {0}
  <2>1. Bank!TxnResidual(w, t) \in Int /\ Bank!LineResidual(w, l) \in Int
    BY <1>2, SeenTyped
  <2>2. a \in Int
    BY <1>1, <2>1 DEF Bank!Smaller
  <2> QED BY <1>1, <2>2
<1>4. PICK c, r : c = Bank!Confirmed(w, t, l, a) /\ r = Bank!Examined(c, t)
  OBVIOUS
<1>5. c \in Bank!Request
  BY <1>2, <1>3, <1>4, ConfirmedTyped
<1>6. c.at = bankWs[w].at /\ c.drop = bankWs[w].drop /\ bankWs[w].drop = {}
  BY <1>1, <1>4, AutoDrops DEF Bank!Confirmed, BankInv, Bank!BankTypeOK, Bank!Request
<1>7. /\ r \in Bank!Request /\ r.drop = {} /\ r.at = "auto" /\ r.new = c.new /\ r.moves = c.moves
  BY <1>1, <1>4, <1>5, <1>6, ExaminedTyped
<1>8. bankWs' = [bankWs EXCEPT ![w] = r]
  BY <1>1, <1>4
<1>9. bankWs'[w] = r /\ (Fine(w)' => BankInv')
  <2>1. UNCHANGED <<status, match, ofSession, reconciled, session, gap>>
    BY <1>1
  <2>2. r \in Bank!Request /\ (bankLock' = bankLock \/ \E x \in Txn : Bank!Take(w, x))
    BY <1>1, <1>7
  <2> QED BY ONLY BankInv, w \in Bank!Worker, <1>8, <2>1, <2>2, OwnStep
<1>10. Fine(w)'
  <2>1. Bank!Take(w, t) /\ Bank!Fits(w, t, l, a) /\ match' = match /\ bankWs[w].drop = {}
    BY <1>1, <1>6
  <2>2. bankWs'[w].drop = {} /\ bankWs'[w].at \in {"auto", "commit"}
    BY <1>7, <1>9
  <2>3. /\ bankWs'[w].new = Bank!Confirmed(w, t, l, a).new
        /\ bankWs'[w].moves = Bank!Confirmed(w, t, l, a).moves
    BY <1>4, <1>7, <1>9
  <2> QED BY ONLY BankInv, w \in Bank!Worker, t \in Txn, <1>2, <1>3, <2>1, <2>2, <2>3,
                  ConfirmedIsFine
<1> QED BY <1>9, <1>10

LEMMA AutoSuggests ==
  ASSUME BankInv, NEW w \in Bank!Worker, NEW t \in Txn, Bank!AutoSuggest(w, t)
  PROVE  BankInv'
<1>1. PICK m, c, s : /\ s = "suggested" /\ m = Bank!Moved(w, t, s)
                     /\ c = [bankWs[w] EXCEPT !.moves = m]
  OBVIOUS
<1>2. /\ bankWs[w].at = "auto" /\ Bank!Take(w, t)
      /\ bankWs' = [bankWs EXCEPT ![w] = Bank!Examined(c, t)]
      /\ UNCHANGED <<status, match, ofSession, reconciled, session, gap>>
  BY <1>1 DEF Bank!AutoSuggest, Bank!Examines
<1>3. bankWs[w] \in Bank!Request /\ bankWs[w].drop = {}
  BY <1>2, AutoDrops DEF BankInv, Bank!BankTypeOK
<1>4. m \in Bank!Statuses
  <2>1. bankWs[w].moves \in Bank!Statuses /\ s \in Bank!TxnStatus
    BY <1>1, <1>3 DEF Bank!Request, Bank!TxnStatus
  <2>2. Bank!Moved(w, t, s) \in Bank!Statuses
    BY ONLY w \in Bank!Worker, t \in Txn, <2>1, MovedTyped
  <2> QED BY <1>1, <2>2
<1>5. PICK r : r = Bank!Examined(c, t)
  OBVIOUS
<1>6. c \in Bank!Request /\ c.at = "auto" /\ c.drop = {} /\ c.new = bankWs[w].new /\ c.moves = m
  BY <1>1, <1>2, <1>3, <1>4 DEF Bank!Request
<1>7. /\ r \in Bank!Request /\ r.at = "auto" /\ r.drop = {} /\ r.new = bankWs[w].new
      /\ r.moves = m
  BY <1>5, <1>6, ExaminedTyped
<1>8. bankWs' = [bankWs EXCEPT ![w] = r]
  BY <1>2, <1>5
<1>9. bankWs'[w] = r /\ (Fine(w)' => BankInv')
  <2>1. UNCHANGED <<status, match, ofSession, reconciled, session, gap>>
    BY <1>2
  <2>2. r \in Bank!Request /\ (bankLock' = bankLock \/ \E x \in Txn : Bank!Take(w, x))
    BY <1>2, <1>7
  <2> QED BY ONLY BankInv, w \in Bank!Worker, <1>8, <2>1, <2>2, OwnStep
<1>10. Fine(w)'
  <2>1. Bank!Take(w, t) /\ match' = match /\ Releases(w)'
    BY <1>2, <1>7, <1>9 DEF Releases
  <2>2. bankWs'[w].new = bankWs[w].new /\ bankWs'[w].at \in {"auto", "commit"}
    BY <1>7, <1>9
  <2>3. bankWs'[w].moves = Bank!Moved(w, t, s) /\ s \in {"unmatched", "suggested"}
    BY <1>1, <1>7, <1>9
  <2> QED BY ONLY BankInv, w \in Bank!Worker, t \in Txn, <2>1, <2>2, <2>3, MarkedIsFine
<1> QED BY <1>9, <1>10

LEMMA AutoSkips ==
  ASSUME BankInv, NEW w \in Bank!Worker, NEW t \in Txn, Bank!AutoSkip(w, t)
  PROVE  BankInv'
<1>1. PICK r : r = Bank!Examined(bankWs[w], t)
  OBVIOUS
<1>2. bankWs[w].at = "auto" /\ bankWs' = [bankWs EXCEPT ![w] = r]
  BY <1>1 DEF Bank!AutoSkip, Bank!Examines
<1>3. UNCHANGED <<status, match, ofSession, reconciled, session, gap, bankLock>>
  BY DEF Bank!AutoSkip
<1>4. bankWs[w] \in Bank!Request /\ Fine(w)
  BY DEF BankInv, Bank!BankTypeOK
<1>5. /\ r \in Bank!Request /\ r.at = bankWs[w].at /\ r.drop = bankWs[w].drop
      /\ r.new = bankWs[w].new /\ r.moves = bankWs[w].moves
  <2>1. PICK k : k = bankWs[w]
    OBVIOUS
  <2> QED BY <1>1, <1>4, <2>1, ExaminedTyped
<1>6. bankWs'[w] = r /\ (Fine(w)' => BankInv')
  BY <1>2, <1>3, <1>5, OwnStep
<1>7. Fine(w)'
  <2>1. Holds(w)'
    BY <1>3, <1>4, <1>5, <1>6 DEF Fine, Holds, Bank!Nothing
  <2>2. bankWs[w].drop = {}
    BY <1>2, AutoDrops
  <2>3. Releases(w)'
    BY <1>5, <1>6, <2>2 DEF Releases
  <2>4. \A x \in Txn : Explained(w, x)'
    BY <1>3, <1>4, <1>5, <1>6 DEF Fine, Explained, Explains, Bank!Seen
  <2> QED BY <1>2, <1>5, <1>6, <2>1, <2>3, <2>4 DEF Fine
<1> QED BY <1>6, <1>7

-----------------------------------------------------------------------------
(* COMMIT.                                                                 *)

LEMMA CommitTyped ==
  ASSUME BankInv, NEW w \in Bank!Worker, NEW inSession \in BOOLEAN, Bank!Commit(w, inSession),
         session'.status \in Bank!SessionStatus /\ session'.difference \in Gap, gap' = gap
  PROVE  Bank!BankTypeOK'
<1>1. bankWs[w] \in Bank!Request /\ match \in [Txn -> [Line -> Nat]]
  BY DEF BankInv, Bank!BankTypeOK
<1>2. match' \in [Txn -> [Line -> Nat]]
  <2>1. \A t \in Txn, l \in Line : Bank!Seen(w, t, l) \in Nat
    BY <1>1 DEF Bank!Seen, Bank!Request
  <2> QED BY <2>1 DEF Bank!Commit
<1>3. status' \in [Txn -> Bank!TxnStatus]
  <2>1. PICK D \in SUBSET Txn : bankWs[w].moves \in [D -> Bank!TxnStatus]
    BY <1>1 DEF Bank!Request, Bank!Statuses
  <2>2. status \in [Txn -> Bank!TxnStatus]
    BY DEF BankInv, Bank!BankTypeOK
  <2>3. status' = [t \in Txn |-> IF t \in DOMAIN bankWs[w].moves THEN bankWs[w].moves[t]
                                 ELSE status[t]]
    BY DEF Bank!Commit
  <2>4. \A t \in Txn : (IF t \in DOMAIN bankWs[w].moves THEN bankWs[w].moves[t] ELSE status[t])
                         \in Bank!TxnStatus
    BY <2>1, <2>2
  <2> QED BY <2>3, <2>4
<1>4. ofSession' \subseteq Txn \X Line /\ reconciled' \subseteq Line
  BY <1>1 DEF Bank!Commit, Bank!Request, BankInv, Bank!BankTypeOK
<1>5. bankLock' \in [Txn -> Bank!Worker \cup {Nobody}]
  BY DEF Bank!Commit, Bank!Rollback, Bank!Release, BankInv, Bank!BankTypeOK
<1>6. bankWs' \in [Bank!Worker -> Bank!Request]
  BY IdleTyped DEF Bank!Commit, Bank!Rollback, BankInv, Bank!BankTypeOK
<1>7. gap' \in Gap
  BY DEF BankInv, Bank!BankTypeOK
<1> QED BY <1>2, <1>3, <1>4, <1>5, <1>6, <1>7 DEF Bank!BankTypeOK

Drops(w, t) == \E l \in Line : <<t, l>> \in bankWs[w].drop

LEMMA CommitStep ==
  ASSUME BankInv, NEW w \in Bank!Worker, NEW inSession \in BOOLEAN, Bank!Commit(w, inSession),
         bankWs[w].at \in {"commit", "auto"},
         session'.status \in Bank!SessionStatus /\ session'.difference \in Gap, gap' = gap
  PROVE  BankInv'
<1>1. bankWs[w] \in Bank!Request /\ Fine(w) /\ match \in [Txn -> [Line -> Nat]]
      /\ bankWs[w].new \in [Txn -> [Line -> Nat]] /\ bankWs[w].drop \subseteq Txn \X Line
  BY DEF BankInv, Bank!BankTypeOK, Bank!Request
<1>2. Bank!BankTypeOK'
  BY CommitTyped
<1>3. \A t \in Txn, l \in Line :
        match'[t][l] = IF <<t, l>> \in bankWs[w].drop THEN 0 ELSE Bank!Seen(w, t, l)
  BY DEF Bank!Commit
<1>4. \A t \in Txn : status'[t] = IF t \in DOMAIN bankWs[w].moves THEN bankWs[w].moves[t]
                                  ELSE status[t]
  BY DEF Bank!Commit
<1>5. /\ bankWs'[w] = Bank!Idle
      /\ \A v \in Bank!Worker \ {w} : /\ bankWs'[v] = bankWs[v]
                                      /\ \A t \in Txn : bankLock[t] = v => bankLock'[t] = v
  BY DEF Bank!Commit, Bank!Rollback, Bank!Release, BankInv, Bank!BankTypeOK
<1>6. \A t \in Txn : match[t] \in [Line -> Nat] /\ match'[t] \in [Line -> Nat]
                     /\ Explains(w, t) \in [Line -> Nat] /\ TxnAmount[t] \in Nat
                     /\ Total(Explains(w, t), Line) \in Nat
  BY <1>1, <1>2, SeenTyped DEF Bank!BankTypeOK
<1>7. \A t \in Txn : Drops(w, t) =>
        /\ bankWs[w].new = Bank!Nothing /\ t \in DOMAIN bankWs[w].moves
        /\ bankWs[w].moves[t] = "unmatched"
  BY <1>1 DEF Fine, Releases, Drops
<1>8. \A t \in Txn : ~ Drops(w, t) => match'[t] = Explains(w, t)
  <2> SUFFICES ASSUME NEW t \in Txn, ~ Drops(w, t) PROVE match'[t] = Explains(w, t)
    OBVIOUS
  <2>1. \A l \in Line : match'[t][l] = Explains(w, t)[l]
    BY <1>3 DEF Drops, Explains
  <2> QED BY <1>6, <2>1
<1>9. \A t \in Txn : /\ Bank!SumFunction(match[t]) = Total(match[t], Line)
                     /\ Bank!SumFunction(match'[t]) = Total(match'[t], Line)
                     /\ Total(match[t], Line) \in Nat /\ Total(match'[t], Line) \in Nat
  BY <1>6, LineTotals
<1>10. \A t \in Txn : Total(match'[t], Line) <= TxnAmount[t]
                      /\ (status'[t] = "matched" => Total(match'[t], Line) = TxnAmount[t])
  <2> SUFFICES ASSUME NEW t \in Txn
               PROVE  /\ Total(match'[t], Line) <= TxnAmount[t]
                      /\ status'[t] = "matched" => Total(match'[t], Line) = TxnAmount[t]
    OBVIOUS
  <2>1. /\ Total(match[t], Line) <= TxnAmount[t]
        /\ status[t] = "matched" => Total(match[t], Line) = TxnAmount[t]
    BY <1>9 DEF BankInv, MatchedIsExplained, Bank!MatchedIsExplained
  <2>2. CASE Drops(w, t)
    <3>1. ASSUME NEW l \in Line PROVE match'[t][l] <= match[t][l]
      <4>1. bankWs[w].new = Bank!Nothing
        BY <1>7, <2>2
      <4>2. bankWs[w].new[t][l] = 0 /\ match[t][l] \in Nat
        <5>1. Bank!Nothing[t][l] = 0
          BY DEF Bank!Nothing
        <5> QED BY <1>6, <4>1, <5>1
      <4>3. match'[t][l] = 0 \/ match'[t][l] = match[t][l]
        <5>1. match'[t][l] = 0 \/ match'[t][l] = match[t][l] + bankWs[w].new[t][l]
          BY <1>3 DEF Bank!Seen
        <5> QED BY <4>2, <5>1
      <4> QED BY <4>2, <4>3
    <3>2. PICK f, h : f = match'[t] /\ h = match[t]
      OBVIOUS
    <3>3. f \in [Line -> Nat] /\ h \in [Line -> Nat] /\ \A l \in Line : f[l] <= h[l]
      BY <1>6, <3>1, <3>2
    <3>4. Total(f, Line) <= Total(h, Line)
      BY ONLY <3>3, TotalsGrow
    <3>5. status'[t] # "matched"
      BY <1>4, <1>7, <2>2
    <3> QED BY <1>6, <1>9, <2>1, <3>2, <3>4, <3>5
  <2>3. CASE ~ Drops(w, t)
    <3>1. match'[t] = Explains(w, t)
      BY <1>8, <2>3
    <3>2. /\ Total(match'[t], Line) <= TxnAmount[t]
          /\ t \in DOMAIN bankWs[w].moves /\ bankWs[w].moves[t] = "matched"
               => Total(match'[t], Line) = TxnAmount[t]
      BY <1>1, <3>1 DEF Fine, Explained
    <3>3. \A l \in Line : match[t][l] <= match'[t][l]
      BY <1>1, <3>1 DEF Explains, Bank!Seen
    <3>4. PICK f, h : f = match[t] /\ h = match'[t]
      OBVIOUS
    <3>5. f \in [Line -> Nat] /\ h \in [Line -> Nat] /\ \A l \in Line : f[l] <= h[l]
      BY <1>6, <3>3, <3>4
    <3>6. Total(f, Line) <= Total(h, Line)
      BY ONLY <3>5, TotalsGrow
    <3>7. status[t] = "matched" => Total(match'[t], Line) = TxnAmount[t]
      BY <1>6, <1>9, <2>1, <3>2, <3>4, <3>6
    <3> QED BY <1>4, <3>2, <3>7
  <2> QED BY <2>2, <2>3
<1>11. MatchedIsExplained'
  BY <1>9, <1>10 DEF MatchedIsExplained, Bank!MatchedIsExplained
<1>12. Fine(w)'
  <2>1. Untouched(w)'
    BY <1>5 DEF Untouched, Bank!Idle, Bank!None, Bank!Nothing
  <2> QED BY <1>2, <1>11, <2>1, UntouchedIsFine
<1>13. ASSUME NEW v \in Bank!Worker, v # w PROVE Fine(v)'
  <2>1. /\ Fine(v) /\ bankWs'[v] = bankWs[v] /\ bankWs[v] \in Bank!Request
        /\ \A t \in Txn : bankLock[t] = v => bankLock'[t] = v
    BY <1>5, <1>13 DEF BankInv, Bank!BankTypeOK
  <2>2. Holds(v)'
    BY <2>1 DEF Fine, Holds, Bank!Nothing
  <2>3. Releases(v)'
    BY <2>1 DEF Fine, Releases, Bank!Nothing
  <2>4. ASSUME NEW t \in Txn PROVE Explained(v, t)'
    <3>1. CASE t \in DOMAIN bankWs[v].moves \/ bankWs[v].new[t] # Bank!Nothing[t]
      <4>1. bankLock[t] = v
        BY <2>1, <3>1 DEF Fine, Holds
      <4>2. t \notin DOMAIN bankWs[w].moves /\ bankWs[w].new[t] = Bank!Nothing[t]
        BY <1>1, <1>13, <4>1 DEF Fine, Holds
      <4>3. match'[t] = match[t]
        <5>1. ~ Drops(w, t)
          BY <1>7, <4>2
        <5>2. \A l \in Line : match'[t][l] = match[t][l]
          BY <1>3, <1>6, <4>2, <5>1 DEF Drops, Bank!Seen, Bank!Nothing
        <5> QED BY <1>6, <5>2
      <4>4. Explains(v, t)' = Explains(v, t)
        BY <2>1, <4>3 DEF Explains, Bank!Seen
      <4> QED BY <2>1, <4>4 DEF Fine, Explained
    <3>2. CASE t \notin DOMAIN bankWs[v].moves /\ bankWs[v].new[t] = Bank!Nothing[t]
      <4>1. \A l \in Line : Bank!Seen(v, t, l)' = match'[t][l]
        BY <1>6, <2>1, <3>2 DEF Bank!Seen, Bank!Nothing
      <4>2. Explains(v, t)' = match'[t]
        BY <1>6, <4>1 DEF Explains
      <4> QED BY <1>10, <2>1, <3>2, <4>2 DEF Explained
    <3> QED BY <3>1, <3>2
  <2>5. (bankWs[v].at = "read" => /\ bankWs[v].txn \in Txn /\ bankWs[v].new = Bank!Nothing
                                  /\ DOMAIN bankWs[v].moves = {})'
    BY <2>1 DEF Fine, Bank!Nothing
  <2>6. (bankWs[v].at = "idle" => bankWs[v] = Bank!Idle)'
    BY <2>1 DEF Fine, Bank!Idle, Bank!Nothing, Bank!None
  <2> QED BY <2>2, <2>3, <2>4, <2>5, <2>6 DEF Fine
<1> QED BY <1>2, <1>11, <1>12, <1>13 DEF BankInv

-----------------------------------------------------------------------------
(* Every step of the bank's part keeps the invariant.                      *)

LEMMA IgnoreStep ==
  ASSUME BankInv,
         /\ match' = match /\ bankLock' = bankLock /\ bankWs' = bankWs
         /\ \A t \in Txn : status'[t] = status[t] \/ status'[t] # "matched",
         Bank!BankTypeOK'
  PROVE  BankInv'
<1>1. MatchedIsExplained'
  BY DEF BankInv, MatchedIsExplained, Bank!MatchedIsExplained
<1>2. ASSUME NEW w \in Bank!Worker PROVE Fine(w)'
  <2>1. Fine(w) /\ bankWs'[w] = bankWs[w]
    BY DEF BankInv
  <2>2. Holds(w)' /\ Releases(w)'
    BY <2>1 DEF Fine, Holds, Releases, Bank!Nothing
  <2>3. \A t \in Txn : Explained(w, t)'
    BY <2>1 DEF Fine, Explained, Explains, Bank!Seen
  <2> QED BY <2>1, <2>2, <2>3 DEF Fine, Bank!Nothing, Bank!Idle, Bank!None
<1> QED BY <1>1, <1>2 DEF BankInv

LEMMA BankStep == BankInv /\ Bank!Next => BankInv'
<1> SUFFICES ASSUME BankInv, Bank!Next PROVE BankInv'
  OBVIOUS
<1> USE DEF BankInv, Bank!BankTypeOK
<1>1. CASE \E w \in Bank!Worker, t \in Txn : Bank!ReadUnmatch(w, t)
  BY <1>1, UnmatchIsRead
<1>2. CASE \E t \in Txn : Bank!Ignore(t)
  <2>1. PICK t \in Txn : Bank!Ignore(t)
    BY <1>2
  <2>2. Bank!BankTypeOK'
    BY <2>1 DEF Bank!Ignore, Bank!TxnStatus
  <2>3. \A x \in Txn : status'[x] = status[x] \/ status'[x] # "matched"
    BY <2>1 DEF Bank!Ignore
  <2>4. match' = match /\ bankLock' = bankLock /\ bankWs' = bankWs
    BY <2>1 DEF Bank!Ignore
  <2> HIDE DEF BankInv, Bank!BankTypeOK
  <2> QED BY <2>2, <2>3, <2>4, IgnoreStep
<1>3. CASE \E w \in Bank!Worker, t \in Txn, l \in Line : Bank!BeginMatch(w, t, l)
  BY <1>3, MatchBegins
<1>4. CASE \E w \in Bank!Worker : Bank!BeginUnmatch(w)
  BY <1>4, UnmatchBegins
<1>5. CASE \E w \in Bank!Worker : Bank!CommitReview(w)
  <2>1. PICK w \in Bank!Worker, inSession \in BOOLEAN :
          /\ bankWs[w].at \in {"commit", "auto"} /\ Bank!Commit(w, inSession)
          /\ UNCHANGED <<session, gap>>
    BY <1>5 DEF Bank!CommitReview
  <2>2. session'.status \in Bank!SessionStatus /\ session'.difference \in Gap /\ gap' = gap
    BY <2>1
  <2> HIDE DEF BankInv, Bank!BankTypeOK
  <2> QED BY <2>1, <2>2, CommitStep
<1>6. CASE \E w \in Bank!Worker : Bank!GiveUp(w)
  BY <1>6, RolledBack DEF Bank!GiveUp
<1>7. CASE \E w \in Bank!Worker : Bank!BeginAuto(w)
  BY <1>7, AutoBegins
<1>8. CASE \E w \in Bank!Worker : Bank!EndAuto(w)
  <2>1. PICK w \in Bank!Worker : Bank!EndAuto(w)
    BY <1>8
  <2>2. bankWs[w].at \in {"commit", "auto"} /\ Bank!Commit(w, TRUE) /\ gap' = gap
    BY <2>1 DEF Bank!EndAuto
  <2>3. session'.status \in Bank!SessionStatus /\ session'.difference \in Gap
    BY <2>1 DEF Bank!EndAuto, Bank!SessionStatus
  <2> HIDE DEF BankInv, Bank!BankTypeOK
  <2> QED BY <2>2, <2>3, CommitStep
<1>9. CASE \E w \in Bank!Worker : Bank!FailAuto(w)
  <2>1. PICK w \in Bank!Worker : Bank!FailAuto(w)
    BY <1>9
  <2>2. Bank!Rollback(w) /\ UNCHANGED <<status, match, ofSession, reconciled, session, gap>>
    BY <2>1 DEF Bank!FailAuto
  <2> HIDE DEF BankInv, Bank!BankTypeOK
  <2> QED BY ONLY BankInv, <2>1, <2>2, RolledBack
<1>10. CASE \E w \in Bank!Worker, t \in Txn :
              Bank!AutoMatch(w, t) \/ Bank!AutoSuggest(w, t) \/ Bank!AutoSkip(w, t)
  BY <1>10, AutoMatches, AutoSuggests, AutoSkips
<1>11. CASE Bank!CloseSession \/ Bank!PostLedger
  <2>1. match' = match /\ bankLock' = bankLock /\ bankWs' = bankWs /\ status' = status
    BY <1>11 DEF Bank!CloseSession, Bank!PostLedger
  <2>2. Bank!BankTypeOK'
    BY <1>11 DEF Bank!CloseSession, Bank!PostLedger, Bank!SessionStatus
  <2> HIDE DEF BankInv, Bank!BankTypeOK
  <2> QED BY <2>1, <2>2, IgnoreStep
<1> HIDE DEF BankInv, Bank!BankTypeOK
<1> QED BY <1>1, <1>2, <1>3, <1>4, <1>5, <1>6, <1>7, <1>8, <1>9, <1>10, <1>11
           DEF Bank!Next, Bank!AutoStep

-----------------------------------------------------------------------------
(* Time entries and the invoices made of them.                             *)
LEMMA TimeSums == \A f : Time!SumFunction(f) = Total(f, DOMAIN f)
BY DEF Time!SumFunction, Time!SumFunctionOnSet, Time!FoldFunctionOnSet, Time!MapThenFoldSet, Total, IsSum,
       Partial, Pick

LEMMA TimeCards == \A S : Time!Cardinality(S) = Cardinality(S)
BY DEF Time!Cardinality, Cardinality

LEMMA FiniteEntries == IsFiniteSet(Entry)
BY TimeConstants DEF Time!TimesheetConstantsOK, IsFiniteSet, Time!IsFiniteSet

(* An invoice line for each entry of a run that is let through.            *)
LEMMA OneEntryGroups ==
  ASSUME NEW S \in SUBSET Entry, NEW byTask \in BOOLEAN,
         \A g \in Time!Groups(S, byTask) : Time!Cardinality(g) = 1
  PROVE  \A e \in Entry : {e} \in Time!Groups(S, byTask) <=> e \in S
<1> SUFFICES ASSUME NEW e \in Entry PROVE {e} \in Time!Groups(S, byTask) <=> e \in S
  OBVIOUS
<1>1. CASE byTask = FALSE
  BY <1>1 DEF Time!Groups
<1>2. CASE byTask = TRUE
  <2> DEFINE Of(t) == {x \in S : Task[x] = t}
  <2>1. Time!Groups(S, byTask) = {Of(t) : t \in {Task[x] : x \in S}}
    BY <1>2 DEF Time!Groups
  <2>2. ASSUME {e} \in Time!Groups(S, byTask) PROVE e \in S
    BY <2>1, <2>2
  <2>3. ASSUME e \in S PROVE {e} \in Time!Groups(S, byTask)
    <3>1. Of(Task[e]) \in Time!Groups(S, byTask) /\ e \in Of(Task[e])
      BY <2>1, <2>3
    <3>2. IsFiniteSet(Of(Task[e])) /\ Cardinality(Of(Task[e])) = 1
      <4>1. IsFiniteSet(S)
        BY FiniteEntries, FS_Subset
      <4>2. Of(Task[e]) \subseteq S
        OBVIOUS
      <4> HIDE DEF Of
      <4> QED BY <3>1, <4>1, <4>2, FS_Subset, TimeCards
    <3>3. \E x : Of(Task[e]) = {x}
      <4> HIDE DEF Of
      <4> QED BY <3>2, FS_Singleton
    <3>4. Of(Task[e]) = {e}
      <4> HIDE DEF Of
      <4> QED BY <3>1, <3>3
    <3> HIDE DEF Of
    <3> QED BY <3>1, <3>4
  <2> QED BY <2>2, <2>3
<1> QED BY <1>1, <1>2

(* What a request that bills or approves has locked is still what it was   *)
(* when it was locked; what it edits, if nobody else works on it, is what  *)
(* it has read.                                                            *)
Consistent(row) == row.linked <=> row.status = "invoiced"

Keeping(w) == \A e \in deskWs[w].got :
  /\ entryLock[e] = w /\ deskWs[w].at \in {"run", "bulk"}
  /\ deskWs[w].at = "run" => Time!Billable(e)
  /\ deskWs[w].at = "bulk" => Time!MayApprove(deskWs[w].by, entry[e])

Started(w) ==
  /\ deskWs[w].at = "edit" => deskWs[w].seen.status # "absent"
  /\ \A e \in deskWs[w].todo : entry[e].status # "absent"

EditsAlone(w) == deskWs[w].at = "edit" => \A e \in deskWs[w].todo :
  /\ entry[e] = deskWs[w].seen /\ entryLock[e] = Nobody
  /\ \A v \in Desk \ {w} : e \notin deskWs[v].todo

LocksRows == \A e \in Entry : entryLock[e] # Nobody => entry[e].status # "absent"

OneLineEach == Time!BilledOnce

TimeInv ==
  /\ Time!TimesheetTypeOK
  /\ LocksRows
  /\ \A w \in Desk : Keeping(w) /\ Started(w) /\ Consistent(deskWs[w].seen)
  /\ OneDesk => OneLineEach /\ \A w \in Desk : EditsAlone(w)

LEMMA TimeBegins == Time!Init => TimeInv
<1> SUFFICES ASSUME Time!Init PROVE TimeInv
  OBVIOUS
<1>1. Time!NoEntry \in Time!EntryRow /\ Consistent(Time!NoEntry) /\ Time!NoEntry.status # "invoiced"
  BY DEF Time!NoEntry, Time!EntryRow, Time!Allowed, Consistent
<1>2. Time!Idle \in Time!Work
  BY <1>1 DEF Time!Idle, Time!Work
<1>3. Time!TimesheetTypeOK
  BY <1>1, <1>2 DEF Time!Init, Time!TimesheetTypeOK, Consistent
<1>4. LocksRows /\ \A w \in Desk : /\ Keeping(w) /\ Started(w) /\ EditsAlone(w)
                                 /\ Consistent(deskWs[w].seen)
  BY <1>1 DEF Time!Init, Time!Idle, Keeping, Started, EditsAlone, LocksRows
<1>5. OneLineEach
  BY <1>1 DEF Time!Init, OneLineEach, Time!BilledOnce
<1> QED BY <1>3, <1>4, <1>5 DEF TimeInv

(* A step of one worker, or of none, among requests on other entries.      *)
Beside(w) == \A v \in Desk \ {w} :
  /\ deskWs'[v] = deskWs[v]
  /\ \A e \in Entry : entryLock[e] = v => entryLock'[e] = v /\ entry'[e] = entry[e]

Undisturbed(w) == \A v \in Desk \ {w} : deskWs[v].at = "edit" =>
  \A e \in deskWs[v].todo : /\ entry'[e] = entry[e] /\ entryLock'[e] = Nobody
                            /\ w \in Desk => e \notin deskWs'[w].todo

LEMMA TimeFrame ==
  ASSUME TimeInv, Time!TimesheetTypeOK', NEW w \in Desk \cup {Nobody}, Beside(w),
         \A e \in Entry : entry[e].status # "absent" => entry'[e].status # "absent",
         LocksRows', w \in Desk => Keeping(w)' /\ Started(w)' /\ Consistent(deskWs'[w].seen),
         OneDesk => /\ Undisturbed(w) /\ OneLineEach'
                    /\ w \in Desk => EditsAlone(w)'
  PROVE  TimeInv'
<1>1. ASSUME NEW v \in Desk, v # w PROVE Keeping(v)' /\ Started(v)' /\ Consistent(deskWs'[v].seen)
  <2>1. deskWs'[v] = deskWs[v] /\ Keeping(v) /\ Started(v) /\ Consistent(deskWs[v].seen)
        /\ \A e \in Entry : entryLock[e] = v => entryLock'[e] = v /\ entry'[e] = entry[e]
    BY <1>1 DEF TimeInv, Beside
  <2>2. deskWs[v].got \subseteq Entry /\ deskWs[v].todo \subseteq Entry
    BY DEF TimeInv, Time!TimesheetTypeOK, Time!Work
  <2>3. Keeping(v)'
    BY <2>1, <2>2 DEF Keeping, Time!Billable, Time!MayApprove, Time!NotOwn, Time!Allowed
  <2>4. Started(v)'
    BY <2>1, <2>2 DEF Started
  <2> QED BY <2>1, <2>3, <2>4
<1>2. ASSUME OneDesk, NEW v \in Desk, v # w PROVE EditsAlone(v)'
  <2>1. deskWs'[v] = deskWs[v] /\ EditsAlone(v)
    BY <1>2 DEF TimeInv, Beside
  <2>2. SUFFICES ASSUME deskWs[v].at = "edit"
                 PROVE  \A e \in deskWs[v].todo :
                          /\ entry'[e] = deskWs[v].seen /\ entryLock'[e] = Nobody
                          /\ \A u \in Desk \ {v} : e \notin deskWs'[u].todo
    BY <2>1 DEF EditsAlone
  <2>4. ASSUME NEW e \in deskWs[v].todo
        PROVE  /\ entry'[e] = deskWs[v].seen /\ entryLock'[e] = Nobody
               /\ \A u \in Desk \ {v} : e \notin deskWs'[u].todo
    <3>1. entry[e] = deskWs[v].seen /\ \A u \in Desk \ {v} : e \notin deskWs[u].todo
      BY <2>1, <2>2 DEF EditsAlone
    <3>2. /\ entry'[e] = entry[e] /\ entryLock'[e] = Nobody
          /\ w \in Desk => e \notin deskWs'[w].todo
      BY <1>2, <2>2 DEF Undisturbed
    <3>3. \A u \in Desk \ {v} : e \notin deskWs'[u].todo
      BY <3>1, <3>2 DEF Beside
    <3> QED BY <3>1, <3>2, <3>3
  <2> QED BY <2>4
<1> QED BY <1>1, <1>2 DEF TimeInv

LEMMA NobodyServes == Nobody \notin Desk
BY TimeConstants DEF Time!TimesheetConstantsOK

(* Steps on one entry that nobody has locked.                              *)
LEMMA OneEntry ==
  ASSUME TimeInv, NEW e \in Entry, NEW row \in Time!EntryRow,
         entryLock[e] = Nobody, entry' = [entry EXCEPT ![e] = row],
         Consistent(row), row.status \notin {"absent", "invoiced"}, entry[e].status # "invoiced",
         OneDesk => \A v \in Desk : deskWs[v].at = "edit" => e \notin deskWs[v].todo,
         UNCHANGED <<line, entryLock, deskWs>>
  PROVE  TimeInv'
<1>1. Time!TimesheetTypeOK'
  BY DEF TimeInv, Time!TimesheetTypeOK, Consistent
<1>2. Beside(Nobody)
  BY NobodyServes DEF TimeInv, Time!TimesheetTypeOK, Beside
<1>3. OneDesk => Undisturbed(Nobody)
  BY NobodyServes DEF TimeInv, Time!TimesheetTypeOK, Time!Work, Undisturbed, EditsAlone
<1>4. OneDesk => OneLineEach'
  BY DEF TimeInv, Time!TimesheetTypeOK, OneLineEach, Time!BilledOnce
<1>5. LocksRows' /\ \A x \in Entry : entry[x].status # "absent" => entry'[x].status # "absent"
  BY DEF TimeInv, Time!TimesheetTypeOK, LocksRows
<1> QED BY <1>1, <1>2, <1>3, <1>4, <1>5, NobodyServes, TimeFrame

LEMMA LogStep ==
  ASSUME TimeInv, NEW u \in User, NEW e \in Entry, Time!Log(u, e)
  PROVE  TimeInv'
<1>1. PICK h, row :
        /\ h \in Hours
        /\ entry[e].status = "absent"
        /\ row = [Time!NoEntry EXCEPT !.status = "draft", !.hours = h, !.author = u]
        /\ entry' = [entry EXCEPT ![e] = row]
        /\ UNCHANGED <<line, entryLock, deskWs>>
  BY DEF Time!Log
<1>2. h \in Nat
  BY <1>1, TimeConstants DEF Time!TimesheetConstantsOK
<1>3. row \in Time!EntryRow /\ Consistent(row) /\ row.status = "draft"
  BY <1>1, <1>2 DEF Time!EntryRow, Time!NoEntry, Time!Allowed, Consistent
<1>4. \A v \in Desk : deskWs[v].at = "edit" => e \notin deskWs[v].todo
  BY <1>1 DEF TimeInv, Started
<1>5. entryLock[e] = Nobody
  BY <1>1 DEF TimeInv, LocksRows
<1> QED BY <1>1, <1>3, <1>4, <1>5, OneEntry

LEMMA MoveStep ==
  ASSUME TimeInv, NEW e \in Entry, NEW to \in {"submitted", "rejected", "approved"}, Time!Move(e, to)
  PROVE  TimeInv'
<1>1. PICK row : row = [entry[e] EXCEPT !.status = to]
  OBVIOUS
<1>2. /\ entryLock[e] = Nobody /\ Time!Unedited(e) /\ to \in Time!Allowed[entry[e].status]
      /\ entry' = [entry EXCEPT ![e] = row]
      /\ UNCHANGED <<line, entryLock, deskWs>>
  BY <1>1 DEF Time!Move
<1>3. entry[e] \in Time!EntryRow /\ Consistent(entry[e])
  BY DEF TimeInv, Time!TimesheetTypeOK, Consistent
<1>4. entry[e].status # "invoiced"
  BY <1>2 DEF Time!Allowed
<1>5. row \in Time!EntryRow /\ Consistent(row) /\ row.status \notin {"absent", "invoiced"}
  BY <1>1, <1>3, <1>4 DEF Time!EntryRow, Time!Allowed, Consistent
<1>6. OneDesk => \A v \in Desk : deskWs[v].at = "edit" => e \notin deskWs[v].todo
  BY <1>2 DEF Time!Unedited
<1> QED BY <1>2, <1>4, <1>5, <1>6, OneEntry

(* A request ends, and may write what no other has locked or edits.        *)
LEMMA Ended ==
  ASSUME TimeInv, NEW w \in Desk, Time!End(w),
         entry' \in [Entry -> Time!EntryRow], line' \in [Entry -> Nat],
         \A e \in Entry : /\ Consistent(entry'[e])
                          /\ entry[e].status # "absent" => entry'[e].status # "absent"
                          /\ entryLock[e] \in Desk \ {w} => entry'[e] = entry[e],
         OneDesk => /\ \A e \in Entry, v \in Desk \ {w} :
                         deskWs[v].at = "edit" /\ e \in deskWs[v].todo => entry'[e] = entry[e]
                    /\ OneLineEach'
  PROVE  TimeInv'
<1>1. /\ deskWs' = [deskWs EXCEPT ![w] = Time!Idle]
      /\ entryLock' = [e \in Entry |-> IF entryLock[e] = w THEN Nobody ELSE entryLock[e]]
  BY DEF Time!End, Time!Free
<1>2. Time!NoEntry \in Time!EntryRow /\ Consistent(Time!NoEntry)
  BY DEF Time!NoEntry, Time!EntryRow, Time!Allowed, Consistent
<1>3. Time!Idle \in Time!Work
  BY <1>2 DEF Time!Idle, Time!Work
<1>4. Time!TimesheetTypeOK'
  BY <1>1, <1>3 DEF TimeInv, Time!TimesheetTypeOK, Consistent
<1>5. deskWs'[w] = Time!Idle /\ \A v \in Desk \ {w} : deskWs'[v] = deskWs[v]
  BY <1>1 DEF TimeInv, Time!TimesheetTypeOK
<1>6. Beside(w)
  BY <1>1, <1>5 DEF Beside
<1>7. Keeping(w)' /\ Started(w)' /\ Consistent(deskWs'[w].seen) /\ EditsAlone(w)'
  BY <1>2, <1>5 DEF Keeping, Started, EditsAlone, Time!Idle
<1>8. LocksRows'
  BY <1>1 DEF TimeInv, LocksRows
<1>9. ASSUME OneDesk PROVE Undisturbed(w)
  <2> SUFFICES ASSUME NEW v \in Desk \ {w}, deskWs[v].at = "edit", NEW e \in deskWs[v].todo
               PROVE  entry'[e] = entry[e] /\ entryLock'[e] = Nobody /\ e \notin deskWs'[w].todo
    BY DEF Undisturbed
  <2>1. e \in Entry /\ entryLock[e] = Nobody
    BY <1>9 DEF TimeInv, Time!TimesheetTypeOK, Time!Work, EditsAlone
  <2>2. e \notin deskWs'[w].todo
    BY <1>5 DEF Time!Idle
  <2> QED BY <1>1, <1>9, <2>1, <2>2
<1> QED BY <1>4, <1>6, <1>7, <1>8, <1>9, TimeFrame

(* What a request may begin or lock changes no entry.                      *)
LocksOwn(w) ==
  /\ entryLock' \in [Entry -> Desk \cup {Nobody}]
  /\ \A e \in Entry : \/ entryLock'[e] = entryLock[e]
                      \/ /\ entryLock[e] = Nobody /\ entryLock'[e] = w
                         /\ e \in deskWs[w].todo

Leaves(w, S) == \A v \in Desk \ {w}, e \in Entry :
  deskWs[v].at = "edit" /\ e \in deskWs[v].todo => e \notin S

LEMMA Proceeds ==
  ASSUME TimeInv, NEW w \in Desk, NEW r \in Time!Work, deskWs' = [deskWs EXCEPT ![w] = r],
         LocksOwn(w), UNCHANGED <<entry, line>>,
         Keeping(w)', Started(w)', Consistent(r.seen), OneDesk => EditsAlone(w)' /\ Leaves(w, r.todo)
  PROVE  TimeInv'
<1>1. Time!TimesheetTypeOK'
  BY DEF TimeInv, Time!TimesheetTypeOK, Consistent, LocksOwn
<1>2. deskWs'[w] = r /\ \A v \in Desk \ {w} : deskWs'[v] = deskWs[v]
  BY DEF TimeInv, Time!TimesheetTypeOK
<1>3. Beside(w)
  BY <1>2, NobodyServes DEF Beside, LocksOwn
<1>4. LocksRows'
  BY DEF TimeInv, LocksRows, Started, LocksOwn
<1>5. ASSUME OneDesk PROVE Undisturbed(w)
  <2> SUFFICES ASSUME NEW v \in Desk \ {w}, deskWs[v].at = "edit", NEW e \in deskWs[v].todo
               PROVE  entryLock'[e] = Nobody /\ e \notin deskWs'[w].todo
    BY DEF Undisturbed
  <2>1. e \in Entry /\ entryLock[e] = Nobody /\ e \notin deskWs[w].todo
    BY <1>5 DEF TimeInv, Time!TimesheetTypeOK, Time!Work, EditsAlone
  <2> QED BY <1>2, <1>5, <2>1 DEF LocksOwn, Leaves
<1>6. OneDesk => OneLineEach'
  BY DEF TimeInv, OneLineEach, Time!BilledOnce
<1> QED BY <1>1, <1>2, <1>3, <1>4, <1>5, <1>6, TimeFrame

LEMMA ReadStep ==
  ASSUME TimeInv, NEW w \in Desk, NEW e \in Entry, Time!ReadForEdit(w, e)
  PROVE  TimeInv'
<1>1. PICK r : r = [Time!Idle EXCEPT !.at = "edit", !.todo = {e}, !.seen = entry[e]]
  OBVIOUS
<1>2. /\ entry[e].status # "absent" /\ deskWs' = [deskWs EXCEPT ![w] = r]
      /\ OneDesk => entryLock[e] = Nobody /\ \A v \in Desk : e \notin deskWs[v].todo
      /\ UNCHANGED <<entry, line, entryLock>>
  BY <1>1 DEF Time!ReadForEdit
<1>3. entry[e] \in Time!EntryRow /\ Consistent(entry[e])
  BY DEF TimeInv, Time!TimesheetTypeOK, Consistent
<1>4. /\ r \in Time!Work /\ r.at = "edit" /\ r.todo = {e} /\ r.seen = entry[e] /\ r.got = {}
  BY <1>1, <1>3 DEF Time!Work, Time!Idle
<1>5. deskWs'[w] = r /\ \A v \in Desk \ {w} : deskWs'[v] = deskWs[v]
  BY <1>2 DEF TimeInv, Time!TimesheetTypeOK
<1>6. Keeping(w)' /\ Started(w)'
  BY <1>2, <1>4, <1>5 DEF Keeping, Started
<1>7. OneDesk => EditsAlone(w)'
  BY <1>2, <1>4, <1>5 DEF EditsAlone
<1>8. LocksOwn(w)
  BY <1>2 DEF TimeInv, Time!TimesheetTypeOK, LocksOwn
<1>9. OneDesk => Leaves(w, r.todo)
  BY <1>2, <1>4 DEF Leaves
<1>10. UNCHANGED <<entry, line>> /\ Consistent(r.seen)
  BY <1>2, <1>3, <1>4
<1> QED BY ONLY TimeInv, w \in Desk, <1>2, <1>4, <1>6, <1>7, <1>8, <1>9, <1>10, Proceeds

LEMMA BulkBegins ==
  ASSUME TimeInv, NEW w \in Desk, NEW u \in User, Time!BeginBulk(w, u)
  PROVE  TimeInv'
<1>0. PICK back \in BOOLEAN : \E r :
          /\ r = [Time!Idle EXCEPT !.at = "bulk", !.by = u, !.todo = Entry, !.back = back]
          /\ deskWs' = [deskWs EXCEPT ![w] = r]
          /\ \A e \in Entry : entry[e].status # "absent" /\ Time!Unedited(e)
          /\ UNCHANGED <<entry, line, entryLock>>
  BY DEF Time!BeginBulk
<1>1. PICK r :
        /\ r = [Time!Idle EXCEPT !.at = "bulk", !.by = u, !.todo = Entry, !.back = back]
        /\ deskWs' = [deskWs EXCEPT ![w] = r]
        /\ \A e \in Entry : entry[e].status # "absent" /\ Time!Unedited(e)
        /\ UNCHANGED <<entry, line, entryLock>>
  BY <1>0
<1>2. Time!NoEntry \in Time!EntryRow /\ Consistent(Time!NoEntry)
  BY DEF Time!NoEntry, Time!EntryRow, Time!Allowed, Consistent
<1>3. /\ r \in Time!Work /\ r.at = "bulk" /\ r.todo = Entry /\ r.seen = Time!NoEntry /\ r.got = {}
  BY <1>1, <1>2 DEF Time!Work, Time!Idle
<1>4. deskWs'[w] = r
  BY <1>1 DEF TimeInv, Time!TimesheetTypeOK
<1>5. Keeping(w)' /\ Started(w)' /\ EditsAlone(w)'
  BY <1>1, <1>3, <1>4 DEF Keeping, Started, EditsAlone
<1>6. OneDesk => Leaves(w, r.todo)
  BY <1>1 DEF Time!Unedited, Leaves
<1>7. LocksOwn(w)
  BY <1>1 DEF TimeInv, Time!TimesheetTypeOK, LocksOwn
<1>8. UNCHANGED <<entry, line>> /\ Consistent(r.seen)
  BY <1>1, <1>2, <1>3
<1> QED BY ONLY TimeInv, w \in Desk, <1>1, <1>3, <1>5, <1>6, <1>7, <1>8, Proceeds

LEMMA RunBegins ==
  ASSUME TimeInv, NEW w \in Desk, Time!BeginRun(w)
  PROVE  TimeInv'
<1>1. PICK r :
        /\ r = [Time!Idle EXCEPT !.at = "run", !.todo = {e \in Entry : Time!Billable(e)}]
        /\ deskWs' = [deskWs EXCEPT ![w] = r]
        /\ \A e \in Entry : Time!Unedited(e)
        /\ UNCHANGED <<entry, line, entryLock>>
  BY DEF Time!BeginRun
<1>2. Time!NoEntry \in Time!EntryRow /\ Consistent(Time!NoEntry)
  BY DEF Time!NoEntry, Time!EntryRow, Time!Allowed, Consistent
<1>3. /\ r \in Time!Work /\ r.at = "run" /\ r.seen = Time!NoEntry /\ r.got = {}
      /\ \A e \in r.todo : e \in Entry /\ entry[e].status = "approved"
  BY <1>1, <1>2 DEF Time!Work, Time!Idle, Time!Billable
<1>4. deskWs'[w] = r
  BY <1>1 DEF TimeInv, Time!TimesheetTypeOK
<1>5. Keeping(w)' /\ Started(w)' /\ EditsAlone(w)'
  BY <1>1, <1>3, <1>4 DEF Keeping, Started, EditsAlone
<1>6. OneDesk => Leaves(w, r.todo)
  BY <1>1 DEF Time!Unedited, Leaves
<1>7. LocksOwn(w)
  BY <1>1 DEF TimeInv, Time!TimesheetTypeOK, LocksOwn
<1>8. UNCHANGED <<entry, line>> /\ Consistent(r.seen)
  BY <1>1, <1>2, <1>3
<1> QED BY ONLY TimeInv, w \in Desk, <1>1, <1>3, <1>5, <1>6, <1>7, <1>8, Proceeds

LEMMA LockStep ==
  ASSUME TimeInv, NEW w \in Desk, Time!LockNext(w)
  PROVE  TimeInv'
<1>0. PICK e \in Time!Foremost(w) : \E r :
          /\ deskWs[w].at \in {"bulk", "run"} /\ entryLock[e] = Nobody
          /\ entryLock' = IF deskWs[w].at = "run" \/ Time!Keeps(w, e)
                          THEN [entryLock EXCEPT ![e] = w] ELSE entryLock
          /\ r = [deskWs[w] EXCEPT !.todo = deskWs[w].todo \ {e},
                    !.got = IF Time!Keeps(w, e) THEN deskWs[w].got \cup {e} ELSE deskWs[w].got]
          /\ deskWs' = [deskWs EXCEPT ![w] = r]
          /\ UNCHANGED <<entry, line>>
  BY DEF Time!LockNext
<1>1. PICK r :
        /\ deskWs[w].at \in {"bulk", "run"} /\ entryLock[e] = Nobody
        /\ entryLock' = IF deskWs[w].at = "run" \/ Time!Keeps(w, e)
                        THEN [entryLock EXCEPT ![e] = w] ELSE entryLock
        /\ r = [deskWs[w] EXCEPT !.todo = deskWs[w].todo \ {e},
                  !.got = IF Time!Keeps(w, e) THEN deskWs[w].got \cup {e} ELSE deskWs[w].got]
        /\ deskWs' = [deskWs EXCEPT ![w] = r]
        /\ UNCHANGED <<entry, line>>
  BY <1>0
<1>2. deskWs[w] \in Time!Work /\ e \in deskWs[w].todo /\ e \in Entry
  BY DEF TimeInv, Time!TimesheetTypeOK, Time!Work, Time!Foremost
<1>3. /\ r \in Time!Work /\ r.at = deskWs[w].at /\ r.todo = deskWs[w].todo \ {e}
      /\ r.seen = deskWs[w].seen /\ r.by = deskWs[w].by
      /\ r.got \subseteq deskWs[w].got \cup {e}
      /\ e \in r.got => Time!Keeps(w, e) \/ e \in deskWs[w].got
  BY <1>1, <1>2 DEF Time!Work
<1>4. deskWs'[w] = r
  BY <1>1 DEF TimeInv, Time!TimesheetTypeOK
<1>5. /\ entryLock' \in [Entry -> Desk \cup {Nobody}]
      /\ \A x \in Entry : entryLock'[x] = IF x = e /\ (deskWs[w].at = "run" \/ Time!Keeps(w, e))
                                          THEN w ELSE entryLock[x]
  BY <1>1, <1>2 DEF TimeInv, Time!TimesheetTypeOK
<1>6. Keeping(w) /\ Started(w) /\ Consistent(deskWs[w].seen)
  BY DEF TimeInv
<1>7. e \notin deskWs[w].got
  BY <1>1, <1>6, NobodyServes DEF Keeping
<1>8. Keeping(w)'
  <2> SUFFICES ASSUME NEW x \in r.got
               PROVE  /\ entryLock'[x] = w /\ r.at \in {"run", "bulk"}
                      /\ r.at = "run" => Time!Billable(x)'
                      /\ r.at = "bulk" => Time!MayApprove(r.by, entry[x])'
    BY <1>3, <1>4 DEF Keeping
  <2>1. CASE x = e
    <3>1. Time!Keeps(w, e)
      BY <1>3, <1>7, <2>1
    <3>2. entryLock'[x] = w
      BY <1>2, <1>5, <2>1, <3>1
    <3>3. /\ r.at = "run" => Time!Billable(x)
          /\ r.at = "bulk" => Time!MayApprove(r.by, entry[x])
      BY <1>3, <2>1, <3>1 DEF Time!Keeps
    <3> QED BY <1>1, <1>3, <3>2, <3>3 DEF Time!Billable, Time!MayApprove, Time!NotOwn, Time!Allowed
  <2>2. CASE x # e
    <3>1. x \in deskWs[w].got /\ x \in Entry
      BY <1>2, <1>3, <2>2 DEF Time!Work
    <3>2. /\ entryLock[x] = w
          /\ r.at = "run" => Time!Billable(x)
          /\ r.at = "bulk" => Time!MayApprove(r.by, entry[x])
      BY <1>3, <1>6, <3>1 DEF Keeping
    <3> QED BY <1>1, <1>3, <1>5, <2>2, <3>1, <3>2 DEF Time!Billable, Time!MayApprove, Time!NotOwn, Time!Allowed
  <2> QED BY <2>1, <2>2
<1>9. Started(w)' /\ EditsAlone(w)'
  BY <1>1, <1>3, <1>4, <1>6 DEF Started, EditsAlone
<1>10. OneDesk => Leaves(w, r.todo)
  BY <1>3 DEF TimeInv, EditsAlone, Leaves
<1>11. LocksOwn(w)
  BY <1>1, <1>2, <1>5 DEF LocksOwn
<1>12. UNCHANGED <<entry, line>> /\ Consistent(r.seen)
  BY <1>1, <1>3, <1>6
<1> QED BY ONLY TimeInv, w \in Desk, <1>1, <1>3, <1>8, <1>9, <1>10, <1>11, <1>12, Proceeds

LEMMA EditStep ==
  ASSUME TimeInv, NEW w \in Desk, Time!Edit(w)
  PROVE  TimeInv'
<1>1. PICK e, h, row :
        /\ e \in deskWs[w].todo /\ h \in Hours
        /\ deskWs[w].at = "edit" /\ entryLock[e] = Nobody
        /\ row = [deskWs[w].seen EXCEPT !.hours = h]
        /\ entry' = [entry EXCEPT ![e] = row]
        /\ Time!End(w) /\ line' = line
  BY DEF Time!Edit
<1>2. e \in Entry /\ deskWs[w].seen \in Time!EntryRow /\ Consistent(deskWs[w].seen)
      /\ deskWs[w].seen.status # "absent" /\ h \in Nat
  BY <1>1, TimeConstants DEF TimeInv, Time!TimesheetTypeOK, Time!Work, Started,
     Time!TimesheetConstantsOK
<1>3. /\ row \in Time!EntryRow /\ row.status = deskWs[w].seen.status /\ Consistent(row)
  BY <1>1, <1>2 DEF Time!EntryRow, Consistent
<1>4. entry' \in [Entry -> Time!EntryRow] /\ line' \in [Entry -> Nat]
  BY <1>1, <1>3 DEF TimeInv, Time!TimesheetTypeOK
<1>5. \A x \in Entry : entry'[x] = IF x = e THEN row ELSE entry[x]
  BY <1>1 DEF TimeInv, Time!TimesheetTypeOK
<1>6. \A x \in Entry : /\ Consistent(entry'[x])
                       /\ entry[x].status # "absent" => entry'[x].status # "absent"
                       /\ entryLock[x] \in Desk \ {w} => entry'[x] = entry[x]
  BY <1>1, <1>2, <1>3, <1>5, NobodyServes DEF TimeInv, Time!TimesheetTypeOK, Consistent
<1>7. ASSUME OneDesk
      PROVE  /\ \A x \in Entry, v \in Desk \ {w} :
                  deskWs[v].at = "edit" /\ x \in deskWs[v].todo => entry'[x] = entry[x]
             /\ OneLineEach'
  <2>1. entry[e] = deskWs[w].seen /\ \A v \in Desk \ {w} : e \notin deskWs[v].todo
    BY <1>1, <1>7 DEF TimeInv, EditsAlone
  <2>2. \A x \in Entry : entry'[x].status = entry[x].status
    BY <1>3, <1>5, <2>1
  <2>3. OneLineEach'
    BY <1>1, <1>7, <2>2 DEF TimeInv, OneLineEach, Time!BilledOnce
  <2> QED BY <1>5, <2>1, <2>3
<1>8. Time!End(w)
  BY <1>1
<1> QED BY ONLY TimeInv, w \in Desk, <1>4, <1>6, <1>7, <1>8, Ended

LEMMA GotRows ==
  ASSUME TimeInv, NEW w \in Desk
  PROVE  /\ deskWs[w].got \subseteq Entry
         /\ \A e \in deskWs[w].got : entryLock[e] = w /\ entryLock[e] \notin Desk \ {w}
         /\ OneDesk => \A v \in Desk \ {w} :
              deskWs[v].at = "edit" => \A e \in deskWs[v].todo : e \notin deskWs[w].got
<1>1. deskWs[w].got \subseteq Entry /\ Keeping(w)
  BY DEF TimeInv, Time!TimesheetTypeOK, Time!Work
<1>2. \A e \in deskWs[w].got : entryLock[e] = w
  BY <1>1 DEF Keeping
<1>3. OneDesk => \A v \in Desk \ {w} :
        deskWs[v].at = "edit" => \A e \in deskWs[v].todo : entryLock[e] = Nobody
  BY DEF TimeInv, EditsAlone
<1> QED BY <1>1, <1>2, <1>3, NobodyServes

LEMMA CommitBulkStep ==
  ASSUME TimeInv, NEW w \in Desk, Time!CommitBulk(w)
  PROVE  TimeInv'
<1>1. \A x \in Entry : entry'[x] = IF x \in deskWs[w].got THEN [entry[x] EXCEPT !.status = "approved"]
                                   ELSE entry[x]
  BY DEF Time!CommitBulk
<1>2. deskWs[w].at = "bulk" /\ Time!End(w) /\ line' = line
      /\ entry' = [x \in Entry |-> IF x \in deskWs[w].got THEN [entry[x] EXCEPT !.status = "approved"]
                                   ELSE entry[x]]
  BY DEF Time!CommitBulk
<1>3. \A x \in Entry : entry[x] \in Time!EntryRow /\ Consistent(entry[x])
  BY DEF TimeInv, Time!TimesheetTypeOK, Consistent
<1>4. \A x \in deskWs[w].got : entry[x].status = "submitted"
  <2> SUFFICES ASSUME NEW x \in deskWs[w].got PROVE entry[x].status = "submitted"
    OBVIOUS
  <2>1. Keeping(w) /\ x \in Entry
    BY GotRows DEF TimeInv
  <2>2. Time!MayApprove(deskWs[w].by, entry[x])
    BY <1>2, <2>1 DEF Keeping
  <2> QED BY <1>3, <2>1, <2>2 DEF Time!MayApprove, Time!NotOwn, Time!Allowed, Time!EntryRow
<1>5. \A x \in Entry : entry'[x] \in Time!EntryRow /\ Consistent(entry'[x])
  <2> SUFFICES ASSUME NEW x \in Entry PROVE entry'[x] \in Time!EntryRow /\ Consistent(entry'[x])
    OBVIOUS
  <2>1. CASE x \in deskWs[w].got
    <3>1. entry'[x] = [entry[x] EXCEPT !.status = "approved"]
      BY <1>1, <2>1
    <3>2. entry[x] \in Time!EntryRow /\ entry[x].linked # TRUE
      BY <1>3, <1>4, <2>1 DEF Consistent
    <3> QED BY <3>1, <3>2 DEF Time!EntryRow, Time!Allowed, Consistent
  <2>2. CASE x \notin deskWs[w].got
    BY <1>1, <1>3, <2>2
  <2> QED BY <2>1, <2>2
<1>6. entry' \in [Entry -> Time!EntryRow] /\ line' \in [Entry -> Nat]
  BY <1>2, <1>5 DEF TimeInv, Time!TimesheetTypeOK
<1>7. \A x \in Entry : /\ Consistent(entry'[x])
                       /\ entry[x].status # "absent" => entry'[x].status # "absent"
                       /\ entryLock[x] \in Desk \ {w} => entry'[x] = entry[x]
  <2>1. \A x \in deskWs[w].got : entry'[x].status = "approved"
    <3> SUFFICES ASSUME NEW x \in deskWs[w].got PROVE entry'[x].status = "approved"
      OBVIOUS
    <3>1. x \in Entry
      BY GotRows
    <3>2. entry'[x] = [entry[x] EXCEPT !.status = "approved"] /\ entry[x] \in Time!EntryRow
      BY <1>1, <1>3, <3>1
    <3> QED BY <3>2 DEF Time!EntryRow
  <2> QED BY <1>1, <1>5, <2>1, GotRows
<1>8. ASSUME OneDesk
      PROVE  /\ \A x \in Entry, v \in Desk \ {w} :
                  deskWs[v].at = "edit" /\ x \in deskWs[v].todo => entry'[x] = entry[x]
             /\ OneLineEach'
  <2>1. \A x \in Entry : entry'[x].status = "invoiced" <=> entry[x].status = "invoiced"
    <3> SUFFICES ASSUME NEW x \in Entry
                 PROVE  entry'[x].status = "invoiced" <=> entry[x].status = "invoiced"
      OBVIOUS
    <3>1. CASE x \in deskWs[w].got
      <4>1. entry'[x].status = "approved" /\ entry[x].status = "submitted"
        BY <1>1, <1>3, <1>4, <3>1 DEF Time!EntryRow
      <4> QED BY <4>1
    <3>2. CASE x \notin deskWs[w].got
      BY <1>1, <3>2
    <3> QED BY <3>1, <3>2
  <2>2. OneLineEach'
    BY <1>2, <1>8, <2>1 DEF TimeInv, OneLineEach, Time!BilledOnce
  <2> QED BY <1>1, <1>8, <2>2, GotRows
<1>9. Time!End(w)
  BY <1>2
<1> QED BY ONLY TimeInv, w \in Desk, <1>6, <1>7, <1>8, <1>9, Ended

LEMMA CommitRunStep ==
  ASSUME TimeInv, NEW w \in Desk, Time!CommitRun(w)
  PROVE  TimeInv'
<1>1. PICK byTask \in BOOLEAN :
        /\ deskWs[w].at = "run"
        /\ \A g \in Time!Groups(deskWs[w].got, byTask) : Time!Cardinality(g) = 1
        /\ line' = [x \in Entry |-> IF {x} \in Time!Groups(deskWs[w].got, byTask)
                                    THEN line[x] + 1 ELSE line[x]]
        /\ entry' = [x \in Entry |-> IF x \in deskWs[w].got
                       THEN [entry[x] EXCEPT !.status = "invoiced", !.linked = TRUE] ELSE entry[x]]
        /\ Time!End(w)
  BY DEF Time!CommitRun
<1>2. PICK S : S = deskWs[w].got
  OBVIOUS
<1>3. S \in SUBSET Entry
  BY <1>2, GotRows
<1>4. \A x \in Entry : {x} \in Time!Groups(S, byTask) <=> x \in S
  <2>1. \A g \in Time!Groups(S, byTask) : Time!Cardinality(g) = 1
    BY <1>1, <1>2
  <2> QED BY ONLY byTask \in BOOLEAN, <1>3, <2>1, OneEntryGroups
<1>5. \A x \in Entry : line'[x] = IF x \in S THEN line[x] + 1 ELSE line[x]
  BY <1>1, <1>2, <1>4
<1>6. \A x \in Entry : entry'[x] = IF x \in S THEN [entry[x] EXCEPT !.status = "invoiced", !.linked = TRUE]
                                   ELSE entry[x]
  BY <1>1, <1>2
<1>7. \A x \in Entry : entry[x] \in Time!EntryRow /\ Consistent(entry[x]) /\ line[x] \in Nat
  BY DEF TimeInv, Time!TimesheetTypeOK, Consistent
<1>8. \A x \in S : entry[x].status = "approved"
  BY <1>1, <1>2 DEF TimeInv, Keeping, Time!Billable
<1>9. \A x \in S : entry'[x].status = "invoiced" /\ entry'[x] \in Time!EntryRow /\ Consistent(entry'[x])
  <2> SUFFICES ASSUME NEW x \in S
               PROVE  entry'[x].status = "invoiced" /\ entry'[x] \in Time!EntryRow /\ Consistent(entry'[x])
    OBVIOUS
  <2>1. entry'[x] = [entry[x] EXCEPT !.status = "invoiced", !.linked = TRUE] /\ entry[x] \in Time!EntryRow
    BY <1>3, <1>6, <1>7
  <2> QED BY <2>1 DEF Time!EntryRow, Time!Allowed, Consistent
<1>10. entry' \in [Entry -> Time!EntryRow] /\ line' \in [Entry -> Nat]
  <2>1. \A x \in Entry : entry'[x] \in Time!EntryRow /\ line'[x] \in Nat
    <3> SUFFICES ASSUME NEW x \in Entry PROVE entry'[x] \in Time!EntryRow /\ line'[x] \in Nat
      OBVIOUS
    <3>1. line'[x] \in Nat
      BY <1>5, <1>7
    <3>2. CASE x \in S
      BY <1>9, <3>1, <3>2
    <3>3. CASE x \notin S
      BY <1>6, <1>7, <3>1, <3>3
    <3> QED BY <3>2, <3>3
  <2>2. entry' = [x \in Entry |-> entry'[x]] /\ line' = [x \in Entry |-> line'[x]]
    BY <1>1
  <2> QED BY <2>1, <2>2
<1>11. \A x \in S : entryLock[x] \notin Desk \ {w}
  BY <1>2, GotRows
<1>12. \A x \in Entry : /\ Consistent(entry'[x])
                        /\ entry[x].status # "absent" => entry'[x].status # "absent"
                        /\ entryLock[x] \in Desk \ {w} => entry'[x] = entry[x]
  <2> SUFFICES ASSUME NEW x \in Entry
               PROVE  /\ Consistent(entry'[x])
                      /\ entry[x].status # "absent" => entry'[x].status # "absent"
                      /\ entryLock[x] \in Desk \ {w} => entry'[x] = entry[x]
    OBVIOUS
  <2>1. CASE x \in S
    BY <1>9, <1>11, <2>1
  <2>2. CASE x \notin S
    BY <1>6, <1>7, <2>2
  <2> QED BY <2>1, <2>2
<1>13. ASSUME OneDesk
       PROVE  /\ \A x \in Entry, v \in Desk \ {w} :
                   deskWs[v].at = "edit" /\ x \in deskWs[v].todo => entry'[x] = entry[x]
              /\ OneLineEach'
  <2>1. \A x \in Entry : line[x] = IF entry[x].status = "invoiced" THEN 1 ELSE 0
    BY <1>13 DEF TimeInv, OneLineEach, Time!BilledOnce
  <2>2. \A x \in Entry : line'[x] = IF entry'[x].status = "invoiced" THEN 1 ELSE 0
    <3> SUFFICES ASSUME NEW x \in Entry
                 PROVE  line'[x] = IF entry'[x].status = "invoiced" THEN 1 ELSE 0
      OBVIOUS
    <3>1. CASE x \in S
      <4>1. line[x] = 0 /\ line'[x] = line[x] + 1
        BY <1>5, <1>8, <2>1, <3>1
      <4> QED BY <1>9, <3>1, <4>1
    <3>2. CASE x \notin S
      BY <1>5, <1>6, <2>1, <3>2
    <3> QED BY <3>1, <3>2
  <2>3. \A v \in Desk \ {w} : deskWs[v].at = "edit" => \A x \in deskWs[v].todo : x \notin S
    BY <1>2, <1>13, GotRows
  <2> QED BY <1>6, <2>2, <2>3 DEF OneLineEach, Time!BilledOnce
<1>14. Time!End(w)
  BY <1>1
<1> QED BY ONLY TimeInv, w \in Desk, <1>10, <1>12, <1>13, <1>14, Ended

LEMMA NothingWritten ==
  ASSUME TimeInv, NEW w \in Desk, Time!End(w), UNCHANGED <<entry, line>>
  PROVE  TimeInv'
<1>1. entry' \in [Entry -> Time!EntryRow] /\ line' \in [Entry -> Nat]
  BY DEF TimeInv, Time!TimesheetTypeOK
<1>2. \A x \in Entry : /\ Consistent(entry'[x])
                       /\ entry[x].status # "absent" => entry'[x].status # "absent"
                       /\ entryLock[x] \in Desk \ {w} => entry'[x] = entry[x]
  BY DEF TimeInv, Time!TimesheetTypeOK, Consistent
<1>3. OneDesk => /\ \A x \in Entry, v \in Desk \ {w} :
                      deskWs[v].at = "edit" /\ x \in deskWs[v].todo => entry'[x] = entry[x]
                 /\ OneLineEach'
  BY DEF TimeInv, OneLineEach, Time!BilledOnce
<1> QED BY <1>1, <1>2, <1>3, Ended

LEMMA TimeStep == TimeInv /\ Time!Next => TimeInv'
<1> SUFFICES ASSUME TimeInv, Time!Next PROVE TimeInv'
  OBVIOUS
<1>1. CASE \E u \in User, e \in Entry : Time!Log(u, e)
  BY <1>1, LogStep
<1>2. CASE \E u \in User, e \in Entry : Time!Approve(u, e)
  BY <1>2, MoveStep DEF Time!Approve
<1>3. CASE \E e \in Entry : Time!Submit(e) \/ Time!Reject(e)
  BY <1>3, MoveStep DEF Time!Submit, Time!Reject
<1>4. CASE \E w \in Desk : Time!BeginRun(w)
  BY <1>4, RunBegins
<1>5. CASE \E w \in Desk : Time!Step(w)
  <2>1. PICK w \in Desk : Time!Step(w)
    BY <1>5
  <2>2. CASE Time!LockNext(w)
    BY <2>2, LockStep
  <2>3. CASE Time!CommitBulk(w)
    BY <2>3, CommitBulkStep
  <2>4. CASE Time!CommitRun(w)
    BY <2>4, CommitRunStep
  <2>5. CASE Time!RefuseRun(w)
    <3>1. Time!End(w) /\ UNCHANGED <<entry, line>>
      BY <2>5 DEF Time!RefuseRun
    <3> QED BY <3>1, NothingWritten
  <2>6. CASE Time!Edit(w)
    BY <2>6, EditStep
  <2> QED BY <2>1, <2>2, <2>3, <2>4, <2>5, <2>6 DEF Time!Step
<1>6. CASE \E w \in Desk : Time!AbortDeadlock(w) \/ Time!Crash(w)
  <2>1. PICK w \in Desk : Time!End(w) /\ UNCHANGED <<entry, line>>
    BY <1>6 DEF Time!AbortDeadlock, Time!Crash, Time!Abort
  <2> QED BY <2>1, NothingWritten
<1>7. CASE \E w \in Desk, u \in User : Time!BeginBulk(w, u)
  BY <1>7, BulkBegins
<1>8. CASE \E w \in Desk, e \in Entry : Time!ReadForEdit(w, e)
  BY <1>8, ReadStep
<1> QED BY <1>1, <1>2, <1>3, <1>4, <1>5, <1>6, <1>7, <1>8 DEF Time!Next

(* What is approved is unbilled or on an invoice line: the figures tie.    *)
LEMMA FiguresFollow == TimeInv /\ OneDesk => Time!FiguresTie
<1> SUFFICES ASSUME TimeInv, OneDesk PROVE Time!FiguresTie
  OBVIOUS
<1> DEFINE f == [e \in Entry |-> IF e \in {x \in Entry : Time!Billable(x)} THEN entry[e].hours ELSE 0]
           g == [e \in Entry |-> line[e] * entry[e].hours]
           h == [e \in Entry |-> IF e \in {x \in Entry : entry[x].status \in {"approved", "invoiced"}}
                                 THEN entry[e].hours ELSE 0]
<1>1. /\ Time!UnbilledTime = Time!SumFunction(f)
      /\ Time!HoursOnLines = Time!SumFunction(g)
      /\ Time!BillableValue = Time!SumFunction(h)
  BY DEF Time!UnbilledTime, Time!HoursOnLines, Time!BillableValue, Time!HoursOf
<1>2. DOMAIN f = Entry /\ DOMAIN g = Entry /\ DOMAIN h = Entry
  OBVIOUS
<1>3. \A e \in Entry : f[e] \in Int /\ g[e] \in Int /\ h[e] = f[e] + g[e]
  <2> SUFFICES ASSUME NEW e \in Entry PROVE f[e] \in Int /\ g[e] \in Int /\ h[e] = f[e] + g[e]
    OBVIOUS
  <2>1. /\ entry[e].hours \in Nat /\ (entry[e].linked <=> entry[e].status = "invoiced")
        /\ line[e] = IF entry[e].status = "invoiced" THEN 1 ELSE 0
    BY DEF TimeInv, Time!TimesheetTypeOK, Time!EntryRow, OneLineEach, Time!BilledOnce
  <2>2. CASE entry[e].status = "invoiced"
    <3>1. line[e] = 1 /\ f[e] = 0 /\ h[e] = entry[e].hours
      BY <2>1, <2>2 DEF Time!Billable
    <3>2. g[e] = entry[e].hours
      BY <2>1, <3>1
    <3> QED BY <2>1, <3>1, <3>2
  <2>3. CASE entry[e].status = "approved"
    <3>1. line[e] = 0 /\ f[e] = entry[e].hours /\ h[e] = entry[e].hours
      BY <2>1, <2>3 DEF Time!Billable
    <3>2. g[e] = 0
      BY <2>1, <3>1
    <3> QED BY <2>1, <3>1, <3>2
  <2>4. CASE entry[e].status \notin {"approved", "invoiced"}
    <3>1. line[e] = 0 /\ f[e] = 0 /\ h[e] = 0
      BY <2>1, <2>4 DEF Time!Billable
    <3>2. g[e] = 0
      BY <2>1, <3>1
    <3> QED BY <2>1, <3>1, <3>2
  <2> QED BY <2>2, <2>3, <2>4
<1> HIDE DEF f, g, h
<1>4. Adds(h, f, g, Entry)
  BY <1>3 DEF Adds
<1>5. Total(h, Entry) = Total(f, Entry) + Total(g, Entry)
  BY <1>4, FiniteEntries, TotalPlus
<1> QED BY <1>1, <1>2, <1>5, TimeSums DEF Time!FiguresTie

-----------------------------------------------------------------------------
(* Repeated requests.                                                      *)
(* The requests of one key.  An unguarded key has one request at a time,   *)
(* and what was done is remembered; a guarded one has one request between  *)
(* its service and its COMMIT, and that one has found what was done.       *)
OneRequest(k) == \A v, w \in Desk : keyWs[v].key = k /\ keyWs[w].key = k => v = w
InService(w, k) == keyWs[w].key = k /\ keyWs[w].at \in {"ran", "remembered"}
Plain(k) ==
  /\ OneRequest(k)
  /\ done[k] # 0 => k \in memo
  /\ \A w \in Desk : keyWs[w].key = k =>
       /\ keyWs[w].at \in {"running", "ran"} => k \notin memo
       /\ keyWs[w].at = "remembered" => done[k] = 0 /\ k \in memo
Secured(k) ==
  /\ \A v, w \in Desk : InService(v, k) /\ InService(w, k) => v = w
  /\ \A w \in Desk : InService(w, k) => keyWs[w].effect = 0 \/ done[k] = 0

RetryTypes ==
  /\ Retry!IdempotencyTypeOK
  /\ \A w \in Desk : keyWs[w].at = "idle" <=> keyWs[w].key = Nobody

RetryInv ==
  /\ RetryTypes
  /\ \A k \in Key : done[k] <= 1
  /\ \A k \in Key \ Guarded : Plain(k)
  /\ \A k \in Guarded : Secured(k)

LEMMA RetryBegins == Retry!Init => RetryInv
BY RetryConstants, SMTT(30) DEF Retry!Init, RetryInv, RetryTypes, Retry!IdempotencyTypeOK, Retry!Idle, Plain, Secured,
     OneRequest, InService, Retry!IdempotencyConstantsOK

(* One request moves from one state to the next, and done, memo with it.   *)
LEMMA RetryTyped ==
  RetryTypes /\ Retry!Next => RetryTypes'
<1> SUFFICES ASSUME RetryTypes, NEW w \in Desk,
      \/ \E k \in Key : Retry!Send(w, k)
      \/ Retry!Replay(w) \/ Retry!Miss(w) \/ Retry!Run(w) \/ Retry!Remember(w)
      \/ Retry!Commit(w) \/ Retry!Rollback(w)
    PROVE RetryTypes'
  BY DEF Retry!Next
<1> USE RetryConstants DEF RetryTypes, Retry!IdempotencyTypeOK, Retry!IdempotencyConstantsOK
<1>1. CASE \E k \in Key : Retry!Send(w, k)
  BY <1>1 DEF Retry!Send
<1>2. CASE Retry!Replay(w)
  BY <1>2 DEF Retry!Replay, Retry!Idle
<1>3. CASE Retry!Miss(w)
  BY <1>3 DEF Retry!Miss
<1>4. CASE Retry!Run(w)
  <2>1. keyWs'[w].effect \in 0..1
    BY <1>4 DEF Retry!Run
  <2>2. keyWs'[w] = [keyWs[w] EXCEPT !.at = "ran", !.effect = keyWs'[w].effect]
    BY <1>4 DEF Retry!Run
  <2>3. keyWs' = [keyWs EXCEPT ![w] = keyWs'[w]]
    BY <1>4 DEF Retry!Run
  <2>4. UNCHANGED <<done, memo, sent, told>>
    BY <1>4 DEF Retry!Run
  <2> DEFINE R == [at : {"idle", "received", "running", "ran", "remembered"},
                   key : Key \cup {Nobody}, effect : 0..1]
  <2>5. keyWs'[w] \in R
    BY <2>1, <2>2
  <2>6. keyWs' \in [Desk -> R]
    BY <2>3, <2>5
  <2>7. \A v \in Desk : keyWs'[v].at = "idle" <=> keyWs'[v].key = Nobody
    <3>1. keyWs[w].at = "running"
      BY <1>4 DEF Retry!Run
    <3>2. keyWs[w] \in R
      OBVIOUS
    <3>3. keyWs'[w].at = "ran" /\ keyWs'[w].key = keyWs[w].key
      BY <2>2, <3>2
    <3>4. \A v \in Desk \ {w} : keyWs'[v] = keyWs[v]
      BY <2>3
    <3> QED BY <3>1, <3>3, <3>4
  <2> QED BY <2>4, <2>6, <2>7
<1>5. CASE Retry!Remember(w)
  BY <1>5 DEF Retry!Remember
<1>6. CASE Retry!Commit(w)
  <2>1. keyWs[w].key \in Key /\ keyWs[w].effect \in Nat /\ keyWs' = [keyWs EXCEPT ![w] = Retry!Idle]
    BY <1>6 DEF Retry!Commit
  <2>2. done' \in [Key -> Nat] /\ told' \subseteq Key /\ UNCHANGED <<memo, sent>>
    BY <1>6, <2>1 DEF Retry!Commit
  <2> QED BY <2>1, <2>2 DEF Retry!Idle
<1>7. CASE Retry!Rollback(w)
  BY <1>7 DEF Retry!Rollback, Retry!Idle
<1> QED BY <1>1, <1>2, <1>3, <1>4, <1>5, <1>6, <1>7

LEMMA RetryStep == Faults = {} /\ RetryInv /\ Retry!Next => RetryInv'
<1> SUFFICES ASSUME Faults = {}, RetryInv, Retry!Next PROVE RetryInv'
  OBVIOUS
<1>0. RetryTypes' /\ RetryTypes
  BY RetryTyped DEF RetryInv
<1>1. PICK w \in Desk :
      \/ \E k \in Key : Retry!Send(w, k)
      \/ Retry!Replay(w) \/ Retry!Miss(w) \/ Retry!Run(w) \/ Retry!Remember(w)
      \/ Retry!Commit(w) \/ Retry!Rollback(w)
  BY DEF Retry!Next
<1> USE RetryConstants DEF RetryInv, RetryTypes, Retry!IdempotencyTypeOK, Retry!IdempotencyConstantsOK,
      OneRequest, InService, Plain, Secured
<1>2. CASE \E k \in Key : Retry!Send(w, k)
  BY <1>0, <1>2 DEF Retry!Send, Retry!Meets, Retry!Runs
<1>3. CASE Retry!Replay(w)
  BY <1>0, <1>3 DEF Retry!Replay, Retry!Idle
<1>4. CASE Retry!Miss(w)
  BY <1>0, <1>4 DEF Retry!Miss
<1>5. CASE Retry!Run(w)
  BY <1>0, <1>5 DEF Retry!Run, Retry!Runs
<1>6. CASE Retry!Remember(w)
  BY <1>0, <1>6 DEF Retry!Remember, Retry!Meets
<1>7. CASE Retry!Commit(w)
  <2> DEFINE k == keyWs[w].key
  <2>1. k \in Key /\ keyWs[w].effect \in 0..1 /\ keyWs[w].at = "remembered"
    BY <1>7 DEF Retry!Commit
  <2>2. /\ keyWs' = [keyWs EXCEPT ![w] = Retry!Idle] /\ memo' = memo
        /\ \A x \in Key : done'[x] = IF x = k THEN done[k] + keyWs[w].effect ELSE done[x]
    BY <1>7, <2>1 DEF Retry!Commit
  <2>3. done'[k] <= 1
    BY <1>0, <2>1, <2>2
  <2> HIDE DEF k
  <2>4. \A x \in Key : done'[x] <= 1
    BY <2>2, <2>3
  <2>5. \A v \in Desk : keyWs'[v] = IF v = w THEN Retry!Idle ELSE keyWs[v]
    BY <2>2
  <2>6. \A v \in Desk : keyWs'[v].at = "idle" <=> keyWs'[v].key = Nobody
    BY <2>5 DEF Retry!Idle
  <2>7. \A x \in Key : \A v \in Desk : keyWs'[v].key = x => v # w /\ keyWs[v] = keyWs'[v]
    BY <2>5 DEF Retry!Idle
  <2>8. \A x \in Key \ Guarded : Plain(x)'
    <3> SUFFICES ASSUME NEW x \in Key \ Guarded PROVE Plain(x)'
      OBVIOUS
    <3>1. CASE x = k
      <4>1. k \in memo
        BY <2>1, <3>1 DEF k
      <4>2. \A v \in Desk : keyWs'[v].key # x
        <5> SUFFICES ASSUME NEW v \in Desk, keyWs'[v].key = x PROVE FALSE
          OBVIOUS
        <5>1. v # w /\ keyWs[v].key = keyWs[w].key
          BY <2>7, <3>1 DEF k
        <5> QED BY <2>1, <3>1, <5>1 DEF k
      <4> QED BY <2>2, <3>1, <4>1, <4>2
    <3>2. CASE x # k
      BY <2>2, <2>7, <3>2
    <3> QED BY <3>1, <3>2
  <2>9. \A x \in Guarded : Secured(x)'
    <3> SUFFICES ASSUME NEW x \in Guarded PROVE Secured(x)'
      OBVIOUS
    <3>1. CASE x = k
      BY <2>1, <2>2, <2>7, <3>1 DEF k
    <3>2. CASE x # k
      BY <2>2, <2>7, <3>2
    <3> QED BY <3>1, <3>2
  <2> QED BY <1>0, <2>4, <2>6, <2>8, <2>9
<1>8. CASE Retry!Rollback(w)
  BY <1>0, <1>8 DEF Retry!Rollback, Retry!Idle
<1> QED BY <1>1, <1>2, <1>3, <1>4, <1>5, <1>6, <1>7, <1>8

-----------------------------------------------------------------------------
(* The parts beside each other.  A step of one part leaves the rows of the *)
(* others alone, so each part's invariant holds through every step.        *)
LEMMA OnePartMoves ==
  ASSUME DocumentsNext
  PROVE  /\ [Next]_vars
         /\ Bank!Next \/ UNCHANGED bankVars
         /\ Time!Next \/ UNCHANGED timeVars
         /\ Retry!Next \/ UNCHANGED keyVars
BY DEF DocumentsNext, PayablesNext, BankNext

LEMMA BankStands ==
  ASSUME BankInv, UNCHANGED bankVars PROVE BankInv'
<1> USE DEF bankVars
<1>1. Bank!BankTypeOK' /\ MatchedIsExplained'
  BY DEF BankInv, Bank!BankTypeOK, MatchedIsExplained, Bank!MatchedIsExplained
<1>2. ASSUME NEW w \in Bank!Worker PROVE Fine(w)'
  <2>1. Fine(w) /\ bankWs' = bankWs /\ match' = match /\ bankLock' = bankLock
    BY DEF BankInv
  <2>2. Holds(w)'
    BY <2>1 DEF Fine, Holds
  <2>3. Releases(w)'
    BY <2>1 DEF Fine, Releases
  <2>4. \A t \in Txn : Explained(w, t)'
    BY <2>1 DEF Fine, Explained, Explains, Bank!Seen
  <2> QED BY <2>1, <2>2, <2>3, <2>4 DEF Fine
<1> QED BY <1>1, <1>2 DEF BankInv

LEMMA TimeStands ==
  ASSUME TimeInv, UNCHANGED timeVars PROVE TimeInv'
BY DEF timeVars, TimeInv, Time!TimesheetTypeOK, LocksRows, Keeping, Started, Consistent, EditsAlone,
       OneLineEach, Time!BilledOnce, Time!Billable, Time!MayApprove, Time!NotOwn, Time!Allowed

LEMMA RetryStands ==
  ASSUME UNCHANGED keyVars
  PROVE  (RetryTypes => RetryTypes') /\ (RetryInv => RetryInv')
BY DEF keyVars, RetryInv, RetryTypes, Retry!IdempotencyTypeOK, OneRequest, InService, Plain, Secured

(* Reachable states of the bank part and of the time part satisfy their    *)
(* invariants, whatever else is going on.                                  *)
LEMMA BankAlways == DocumentsSpec => []BankInv
<1>1. DocumentsInit => BankInv
  BY BankBegins DEF DocumentsInit
<1>2. BankInv /\ [DocumentsNext]_allVars => BankInv'
  <2> SUFFICES ASSUME BankInv, [DocumentsNext]_allVars PROVE BankInv'
    OBVIOUS
  <2>1. CASE DocumentsNext
    BY <2>1, OnePartMoves, BankStep, BankStands
  <2>2. CASE UNCHANGED allVars
    BY <2>2, BankStands DEF allVars
  <2> QED BY <2>1, <2>2
<1> QED BY <1>1, <1>2, PTL DEF DocumentsSpec

LEMMA TimeAlways == DocumentsSpec => []TimeInv
<1>1. DocumentsInit => TimeInv
  BY TimeBegins DEF DocumentsInit
<1>2. TimeInv /\ [DocumentsNext]_allVars => TimeInv'
  <2> SUFFICES ASSUME TimeInv, [DocumentsNext]_allVars PROVE TimeInv'
    OBVIOUS
  <2>1. CASE DocumentsNext
    BY <2>1, OnePartMoves, TimeStep, TimeStands
  <2>2. CASE UNCHANGED allVars
    BY <2>2, TimeStands DEF allVars
  <2> QED BY <2>1, <2>2
<1> QED BY <1>1, <1>2, PTL DEF DocumentsSpec

(* Without faults, every key is plain or secured in every reachable state. *)
LEMMA RetryAlways == Faults = {} => (DocumentsSpec => []RetryInv)
<1> SUFFICES ASSUME Faults = {} PROVE DocumentsSpec => []RetryInv
  OBVIOUS
<1>1. DocumentsInit => RetryInv
  BY RetryBegins DEF DocumentsInit
<1>2. RetryInv /\ [DocumentsNext]_allVars => RetryInv'
  <2> SUFFICES ASSUME RetryInv, [DocumentsNext]_allVars PROVE RetryInv'
    OBVIOUS
  <2>1. CASE DocumentsNext
    BY <2>1, OnePartMoves, RetryStep, RetryStands
  <2>2. CASE UNCHANGED allVars
    BY <2>2, RetryStands DEF allVars
  <2> QED BY <2>1, <2>2
<1> QED BY <1>1, <1>2, PTL DEF DocumentsSpec

(* The columns of all four parts keep their types, faults and races        *)
(* included: no request writes a status, an amount or a lock of another    *)
(* kind, and a request that serves no key is idle.                         *)
THEOREM DocumentsTypes == DocumentsSpec => []DocumentsTypeOK
<1> DEFINE T == TypeInv /\ RetryTypes
<1>1. DocumentsInit => T
  BY TypeInit, RetryBegins DEF DocumentsInit, RetryInv
<1>2. T /\ [DocumentsNext]_allVars => T'
  <2> SUFFICES ASSUME T, [DocumentsNext]_allVars PROVE T'
    OBVIOUS
  <2>1. CASE DocumentsNext
    BY <2>1, OnePartMoves, TypeStep, RetryTyped, RetryStands
  <2>2. CASE UNCHANGED allVars
    BY <2>2, TypeStep, RetryStands DEF allVars
  <2> QED BY <2>1, <2>2
<1>3. T /\ BankInv /\ TimeInv => DocumentsTypeOK
  BY DEF DocumentsTypeOK, TypeInv, RetryTypes, BankInv, TimeInv
<1> QED BY <1>1, <1>2, <1>3, BankAlways, TimeAlways, PTL DEF DocumentsSpec

(* Whatever reviewers, the automatic run and closing sessions do to a bank *)
(* line between each other's reads and commits, it is never explained by   *)
(* more than it moved, and it leaves the worklist as matched only when     *)
(* every unit of it is explained.                                          *)
THEOREM EveryMatchIsExplained == DocumentsSpec => []MatchedIsExplained
<1>1. BankInv => MatchedIsExplained
  BY DEF BankInv
<1> QED BY <1>1, BankAlways, PTL

(* Where an entry is edited from one desk at a time and nothing fails      *)
(* between a commit and the memory of its key: an hour is on one invoice   *)
(* line however runs, bulk approvals and rejections interleave, what the   *)
(* screen calls billable is what is billed or waits for the next run, and  *)
(* a key has its transition done once however often it is sent.            *)
THEOREM DoneOnlyOnce == OneDesk /\ Faults = {} => (DocumentsSpec => []DoneOnce)
<1> SUFFICES ASSUME OneDesk, Faults = {} PROVE DocumentsSpec => []DoneOnce
  OBVIOUS
<1>1. TimeInv /\ RetryInv => DoneOnce
  BY FiguresFollow DEF DoneOnce, TimeInv, OneLineEach, RetryInv, Retry!OncePerKey
<1> QED BY <1>1, TimeAlways, RetryAlways, PTL
=============================================================================
