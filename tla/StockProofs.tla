------------------------------ MODULE StockProofs ------------------------------
(***************************************************************************)
(* Proofs about Stock, for any number of bins, documents, lines and        *)
(* workers: types and the ownership of locks, the level as the sum of its  *)
(* movements, what is promised to orders, documents that move all of their *)
(* lines or none, alerts, prices and values; and that the warehouse, seen  *)
(* from its committed rows, is the atomic one of Shelf.                    *)
(***************************************************************************)
EXTENDS MCStock, SumTheorems, SequenceTheorems, TLAPS

(* How often each line of some document has been moved.                    *)
Counts == {<<>>} \cup UNION {[DOMAIN Lines[d] -> Nat] : d \in Doc}

Work == [at : {"idle", "lines", "edit"}, doc : Doc \cup {Nobody}, next : Nat \ {0},
         view : [Bin -> LevelRow], delta : [Bin -> Int], count : Counts,
         raise : SUBSET Bin, seen : Status]

Typed ==
  /\ level \in [Bin -> LevelRow] /\ log \in [Bin -> Int]
  /\ moved \in [Doc -> Counts] /\ \A d \in Doc : moved[d] \in [DOMAIN Lines[d] -> Nat]
  /\ status \in [Doc -> Status] /\ alert \in [Bin -> Alert]
  /\ lock \in [Bin \cup Doc -> Clerk \cup {Nobody}]
  /\ DOMAIN sums \subseteq Bin /\ \A b \in DOMAIN sums : sums[b] \in Int
  /\ ws \in [Clerk -> Work]

(* A worker on the lines of a document holds its row, and only such a      *)
(* worker holds rows; an edit has an adjustment.                           *)
OwnsRows == \A w \in Clerk :
  /\ ws[w].at # "lines" => \A r \in Bin \cup Doc : lock[r] # w
  /\ ws[w].at = "lines" => /\ ws[w].doc \in Doc /\ lock[ws[w].doc] = w
                           /\ ws[w].count \in [DOMAIN Lines[ws[w].doc] -> Nat]
  /\ ws[w].at = "edit" => ws[w].doc \in Adjustment
  /\ ws[w].at = "idle" => ws[w].doc = Nobody

Inv == Typed /\ OwnsRows

-----------------------------------------------------------------------------
(* The constants, and the pieces every action is made of.                  *)

LEMMA Constants ==
  /\ Invoice \cap Adjustment = {} /\ Bin \cap Doc = {} /\ Nobody \notin Clerk \cup Bin \cup Doc
  /\ Lines \in [Doc -> Seq([bin : Bin, delta : Int])]
  /\ \A d \in Invoice : \A i \in DOMAIN Lines[d] : Lines[d][i].delta < 0
  /\ Amount \subseteq Nat \ {0} /\ Opening \in [Bin -> Nat]
BY ConstantsOK

LEMMA LineTyped ==
  ASSUME NEW d \in Doc, NEW i \in DOMAIN Lines[d]
  PROVE  /\ Lines[d][i].bin \in Bin /\ Lines[d][i].delta \in Int
         /\ i \in Nat \ {0} /\ DOMAIN Lines[d] = 1..Len(Lines[d]) /\ Len(Lines[d]) \in Nat
<1>1. Lines[d] \in Seq([bin : Bin, delta : Int]) BY Constants
<1>2. DOMAIN Lines[d] = 1..Len(Lines[d]) /\ Len(Lines[d]) \in Nat BY <1>1
<1>3. Lines[d][i] \in [bin : Bin, delta : Int] BY <1>1, <1>2, ElementOfSeq
<1>4. Lines[d][i].bin \in Bin /\ Lines[d][i].delta \in Int BY <1>3
<1>5. i \in Nat \ {0} BY <1>2
<1> QED BY <1>2, <1>4, <1>5

LEMMA IdleTyped == Idle \in Work /\ Idle.at = "idle" /\ Idle.doc = Nobody
<1>1. [on |-> 0, reserved |-> 0] \in LevelRow BY DEF LevelRow
<1>2. [b \in Bin |-> [on |-> 0, reserved |-> 0]] \in [Bin -> LevelRow] BY <1>1
<1>3. [b \in Bin |-> 0] \in [Bin -> Int] OBVIOUS
<1>4. <<>> \in Counts BY DEF Counts
<1> QED BY <1>2, <1>3, <1>4 DEF Idle, Work, Status

LEMMA ShiftTyped ==
  ASSUME NEW row \in LevelRow, NEW delta \in Int, NEW consume
  PROVE  Shifted(row, delta, consume) \in LevelRow
BY DEF LevelRow, Shifted, Positive

(* The work of one worker becomes k.                                       *)
LEMMA SetWork ==
  ASSUME ws \in [Clerk -> Work], NEW w \in Clerk, NEW k \in Work,
         ws' = [ws EXCEPT ![w] = k]
  PROVE  /\ ws' \in [Clerk -> Work]
         /\ ws'[w] = k /\ \A v \in Clerk : v # w => ws'[v] = ws[v]
OBVIOUS

-----------------------------------------------------------------------------
(* Types and locks, one lemma per action.                                  *)

LEMMA InitInv == Init => Inv
<1> SUFFICES ASSUME Init PROVE Inv OBVIOUS
<1>1. level \in [Bin -> LevelRow] BY Constants DEF Init, LevelRow
<1>2. moved \in [Doc -> Counts] /\ \A d \in Doc : moved[d] \in [DOMAIN Lines[d] -> Nat]
  BY DEF Init, Counts
<1>3. alert \in [Bin -> Alert] BY DEF Init, Alert
<1>4. ws \in [Clerk -> Work] BY IdleTyped DEF Init
<1>5. \A w \in Clerk : ws[w].at = "idle" /\ ws[w].doc = Nobody BY IdleTyped DEF Init
<1>6. \A w \in Clerk : \A r \in Bin \cup Doc : lock[r] # w BY Constants DEF Init
<1>7. DOMAIN sums \subseteq Bin /\ \A b \in DOMAIN sums : sums[b] \in Int
  BY DEF Init
<1>8. Typed BY <1>1, <1>2, <1>3, <1>4, <1>7 DEF Typed, Init, Status
<1>9. OwnsRows BY <1>5, <1>6 DEF OwnsRows
<1> QED BY <1>8, <1>9 DEF Inv

LEMMA BeginInv ==
  ASSUME Inv, NEW w \in Clerk, NEW d \in Doc, Begin(w, d) PROVE Inv'
<1> DEFINE k == [Idle EXCEPT !.at = "lines", !.doc = d, !.count = moved[d]]
<1>1. k \in Work /\ k.at = "lines" /\ k.doc = d /\ k.count = moved[d]
  BY IdleTyped DEF Inv, Typed, Work
<1>2. ws' = [ws EXCEPT ![w] = k] BY DEF Begin
<1> HIDE DEF k
<1>3. /\ ws' \in [Clerk -> Work]
      /\ ws'[w] = k /\ \A v \in Clerk : v # w => ws'[v] = ws[v]
  BY <1>1, <1>2, SetWork DEF Inv, Typed
<1>4. /\ lock' \in [Bin \cup Doc -> Clerk \cup {Nobody}]
      /\ lock'[d] = w /\ \A r \in Bin \cup Doc : r # d => lock'[r] = lock[r]
  BY DEF Begin, Inv, Typed
<1>5. Typed' BY <1>3, <1>4 DEF Begin, Inv, Typed
<1>6. ASSUME NEW v \in Clerk, v # w
      PROVE  /\ ws'[v].at # "lines" => \A r \in Bin \cup Doc : lock'[r] # v
             /\ ws'[v].at = "lines" => /\ ws'[v].doc \in Doc /\ lock'[ws'[v].doc] = v
                                       /\ ws'[v].count \in [DOMAIN Lines[ws'[v].doc] -> Nat]
             /\ ws'[v].at = "edit" => ws'[v].doc \in Adjustment
             /\ ws'[v].at = "idle" => ws'[v].doc = Nobody
  BY <1>3, <1>4, <1>6, Constants DEF Begin, Inv, OwnsRows
<1>7. moved[d] \in [DOMAIN Lines[d] -> Nat] BY DEF Inv, Typed
<1>8. OwnsRows' BY <1>1, <1>3, <1>4, <1>6, <1>7 DEF OwnsRows
<1> QED BY <1>5, <1>8 DEF Inv

LEMMA ReadHeaderInv ==
  ASSUME Inv, NEW w \in Clerk, NEW a \in Adjustment, ReadHeader(w, a) PROVE Inv'
<1> DEFINE k == [Idle EXCEPT !.at = "edit", !.doc = a, !.seen = status[a]]
<1>1. k \in Work /\ k.at = "edit" /\ k.doc = a
  BY IdleTyped DEF Inv, Typed, Work, Doc
<1>2. ws' = [ws EXCEPT ![w] = k] BY DEF ReadHeader
<1> HIDE DEF k
<1>3. /\ ws' \in [Clerk -> Work]
      /\ ws'[w] = k /\ \A v \in Clerk : v # w => ws'[v] = ws[v]
  BY <1>1, <1>2, SetWork DEF Inv, Typed
<1>4. Typed' BY <1>3 DEF ReadHeader, Inv, Typed
<1>5. \A r \in Bin \cup Doc : lock'[r] # w BY DEF ReadHeader, Still, Inv, OwnsRows
<1>6. OwnsRows' BY <1>1, <1>3, <1>5 DEF ReadHeader, Inv, OwnsRows
<1> QED BY <1>4, <1>6 DEF Inv

LEMMA SkipLineInv ==
  ASSUME Inv, NEW w \in Clerk, SkipLine(w) PROVE Inv'
<1> DEFINE k == [ws[w] EXCEPT !.next = @ + 1]
<1>1. ws[w] \in Work BY DEF Inv, Typed
<1>2. k \in Work /\ k.at = ws[w].at /\ k.doc = ws[w].doc /\ k.count = ws[w].count
  BY <1>1 DEF Work
<1>3. ws' = [ws EXCEPT ![w] = k] BY DEF SkipLine
<1> HIDE DEF k
<1>4. /\ ws' \in [Clerk -> Work]
      /\ ws'[w] = k /\ \A v \in Clerk : v # w => ws'[v] = ws[v]
  BY <1>2, <1>3, SetWork DEF Inv, Typed
<1>5. Typed' BY <1>4 DEF SkipLine, Inv, Typed
<1>6. OwnsRows' BY <1>2, <1>4 DEF SkipLine, Inv, OwnsRows
<1> QED BY <1>5, <1>6 DEF Inv

(* The bin of the line w is at, and what its row becomes.                  *)
LEMMA LineOfWork ==
  ASSUME Inv, NEW w \in Clerk, Lacks(w)
  PROVE  /\ ws[w].doc \in Doc /\ ws[w].next \in DOMAIN Lines[ws[w].doc]
         /\ Line(w).bin \in Bin /\ Line(w).delta \in Int
<1>1. ws[w].doc \in Doc /\ ws[w].next \in DOMAIN Lines[ws[w].doc] BY DEF Inv, OwnsRows, Lacks
<1> QED BY <1>1, LineTyped DEF Line

LEMMA ShiftLineInv ==
  ASSUME Inv, NEW w \in Clerk, ShiftLine(w) PROVE Inv'
<1> DEFINE b   == Line(w).bin
           row == IF Holds(w, b) THEN ws[w].view[b] ELSE level[b]
           new == Shifted(row, Line(w).delta, ws[w].doc \in Invoice)
           k   == [ws[w] EXCEPT !.next = @ + 1, !.view[b] = new, !.delta[b] = @ + Line(w).delta,
                     !.count[ws[w].next] = @ + 1,
                     !.raise = IF Low(new) /\ alert[b] # "open" THEN @ \cup {b} ELSE @]
<1>1. /\ ws[w].doc \in Doc /\ ws[w].next \in DOMAIN Lines[ws[w].doc]
      /\ b \in Bin /\ Line(w).delta \in Int
  BY LineOfWork DEF ShiftLine
<1>2. ws[w] \in Work /\ ws[w].at = "lines" /\ ws[w].count \in [DOMAIN Lines[ws[w].doc] -> Nat]
  BY DEF Inv, Typed, OwnsRows, ShiftLine, Lacks
<1>3. new \in LevelRow
  <2>1. row \in LevelRow BY <1>1, <1>2 DEF Inv, Typed, Work
  <2> QED BY <1>1, <2>1, ShiftTyped
<1>4. ws' = [ws EXCEPT ![w] = k] BY <1>2 DEF ShiftLine, Inv, Typed
<1>5. [ws[w].count EXCEPT ![ws[w].next] = @ + 1] \in [DOMAIN Lines[ws[w].doc] -> Nat]
  BY <1>1, <1>2
<1>6. k \in Work /\ k.at = "lines" /\ k.doc = ws[w].doc
      /\ k.count \in [DOMAIN Lines[ws[w].doc] -> Nat]
  <2> HIDE DEF b, new
  <2>1. [ws[w].view EXCEPT ![b] = new] \in [Bin -> LevelRow] BY <1>2, <1>3 DEF Work
  <2>2. [ws[w].delta EXCEPT ![b] = @ + Line(w).delta] \in [Bin -> Int] BY <1>1, <1>2 DEF Work
  <2>3. [ws[w].count EXCEPT ![ws[w].next] = @ + 1] \in Counts BY <1>1, <1>5 DEF Counts
  <2>4. (IF Low(new) /\ alert[b] # "open" THEN ws[w].raise \cup {b} ELSE ws[w].raise) \in SUBSET Bin
    BY <1>1, <1>2 DEF Work
  <2>5. ws[w].next + 1 \in Nat \ {0} BY <1>2 DEF Work
  <2> QED BY <1>2, <1>5, <2>1, <2>2, <2>3, <2>4, <2>5 DEF Work
<1> HIDE DEF k
<1>7. /\ ws' \in [Clerk -> Work]
      /\ ws'[w] = k /\ \A v \in Clerk : v # w => ws'[v] = ws[v]
  BY <1>4, <1>6, SetWork DEF Inv, Typed
<1>8. /\ lock' \in [Bin \cup Doc -> Clerk \cup {Nobody}]
      /\ lock[b] \in {Nobody, w} /\ lock'[b] = w
      /\ \A r \in Bin \cup Doc : r # b => lock'[r] = lock[r]
  BY <1>1 DEF ShiftLine, Inv, Typed
<1>9. Typed' BY <1>7, <1>8 DEF ShiftLine, Inv, Typed
<1>10. OwnsRows'
  <2> HIDE DEF b
  <2>1. b \notin Doc BY <1>1, Constants
  <2>2. ASSUME NEW v \in Clerk, v # w
        PROVE  /\ ws'[v].at # "lines" => \A r \in Bin \cup Doc : lock'[r] # v
               /\ ws'[v].at = "lines" => /\ ws'[v].doc \in Doc /\ lock'[ws'[v].doc] = v
                                         /\ ws'[v].count \in [DOMAIN Lines[ws'[v].doc] -> Nat]
               /\ ws'[v].at = "edit" => ws'[v].doc \in Adjustment
               /\ ws'[v].at = "idle" => ws'[v].doc = Nobody
    BY <1>7, <1>8, <2>1, <2>2 DEF Inv, OwnsRows
  <2>3. lock[ws[w].doc] = w BY <1>2 DEF Inv, OwnsRows
  <2> QED BY <1>1, <1>6, <1>7, <1>8, <2>1, <2>2, <2>3 DEF OwnsRows
<1> QED BY <1>9, <1>10 DEF Inv

(* A transaction ends: its rows are free and its worker is idle.           *)
LEMMA FreeRows ==
  ASSUME Inv, NEW w \in Clerk, Free(w), ws' = [ws EXCEPT ![w] = Idle]
  PROVE  /\ ws' \in [Clerk -> Work]
         /\ lock' \in [Bin \cup Doc -> Clerk \cup {Nobody}]
         /\ OwnsRows'
<1>1. /\ ws' \in [Clerk -> Work]
      /\ ws'[w] = Idle /\ \A v \in Clerk : v # w => ws'[v] = ws[v]
  BY IdleTyped, SetWork DEF Inv, Typed
<1>2. /\ lock' \in [Bin \cup Doc -> Clerk \cup {Nobody}]
      /\ \A r \in Bin \cup Doc : lock'[r] = IF lock[r] = w THEN Nobody ELSE lock[r]
  BY DEF Free, Inv, Typed
<1>3. \A r \in Bin \cup Doc : lock'[r] # w BY <1>2, Constants
<1>4. ASSUME NEW v \in Clerk, v # w
      PROVE  /\ ws'[v].at # "lines" => \A r \in Bin \cup Doc : lock'[r] # v
             /\ ws'[v].at = "lines" => /\ ws'[v].doc \in Doc /\ lock'[ws'[v].doc] = v
                                       /\ ws'[v].count \in [DOMAIN Lines[ws'[v].doc] -> Nat]
             /\ ws'[v].at = "edit" => ws'[v].doc \in Adjustment
             /\ ws'[v].at = "idle" => ws'[v].doc = Nobody
  <2>1. ws'[v] = ws[v] BY <1>1, <1>4
  <2>2. \A r \in Bin \cup Doc : lock'[r] = v => lock[r] = v BY <1>2, Constants
  <2>3. ASSUME ws[v].at = "lines" PROVE lock'[ws[v].doc] = v
    <3>1. ws[v].doc \in Bin \cup Doc /\ lock[ws[v].doc] = v BY <2>3 DEF Inv, OwnsRows
    <3> QED BY <1>2, <1>4, <3>1
  <2> QED BY <2>1, <2>2, <2>3 DEF Inv, OwnsRows
<1>5. ws'[w].at = "idle" /\ ws'[w].doc = Nobody BY <1>1, IdleTyped
<1>6. OwnsRows' BY <1>3, <1>4, <1>5 DEF OwnsRows
<1> QED BY <1>1, <1>2, <1>6

LEMMA AbortInv ==
  ASSUME Inv, NEW w \in Clerk, Abort(w) PROVE Inv'
<1>1. /\ ws' \in [Clerk -> Work] /\ lock' \in [Bin \cup Doc -> Clerk \cup {Nobody}] /\ OwnsRows'
  BY FreeRows DEF Abort
<1> QED BY <1>1 DEF Abort, Inv, Typed

LEMMA CommitInv ==
  ASSUME Inv, NEW w \in Clerk, Commit(w) PROVE Inv'
<1> DEFINE d == ws[w].doc
<1>1. d \in Doc /\ ws[w].count \in [DOMAIN Lines[d] -> Nat] BY DEF Commit, Inv, OwnsRows
<1>2. ws[w] \in Work BY DEF Inv, Typed
<1>3. /\ ws' \in [Clerk -> Work] /\ lock' \in [Bin \cup Doc -> Clerk \cup {Nobody}] /\ OwnsRows'
  BY FreeRows DEF Commit
<1>4. level' \in [Bin -> LevelRow] /\ log' \in [Bin -> Int]
  BY <1>2 DEF Commit, Inv, Typed, Work
<1>5. moved' = [moved EXCEPT ![d] = ws[w].count] BY DEF Commit
<1>6. ws[w].count \in Counts BY <1>2 DEF Work
<1>7. moved' \in [Doc -> Counts] /\ \A e \in Doc : moved'[e] \in [DOMAIN Lines[e] -> Nat]
  <2> HIDE DEF d
  <2> QED BY <1>1, <1>5, <1>6 DEF Inv, Typed
<1>8. status' \in [Doc -> Status] /\ alert' \in [Bin -> Alert]
  BY <1>1 DEF Commit, Inv, Typed, Status, Alert
<1>9. DOMAIN sums' \subseteq Bin /\ \A b \in DOMAIN sums' : sums'[b] \in Int
  BY DEF Commit, Inv, Typed
<1> QED BY <1>3, <1>4, <1>7, <1>8, <1>9 DEF Inv, Typed

LEMMA SaveHeaderInv ==
  ASSUME Inv, NEW w \in Clerk, SaveHeader(w) PROVE Inv'
<1>1. ws' = [ws EXCEPT ![w] = Idle] BY DEF SaveHeader
<1>2. /\ ws' \in [Clerk -> Work]
      /\ ws'[w] = Idle /\ \A v \in Clerk : v # w => ws'[v] = ws[v]
  BY <1>1, IdleTyped, SetWork DEF Inv, Typed
<1>3. ws[w] \in Work BY DEF Inv, Typed
<1>4. status' \in [Doc -> Status] BY <1>3 DEF SaveHeader, Inv, Typed, Work
<1>5. Typed' BY <1>2, <1>4 DEF SaveHeader, Inv, Typed
<1>6. \A r \in Bin \cup Doc : lock'[r] # w BY DEF SaveHeader, Inv, OwnsRows
<1>7. OwnsRows' BY <1>2, <1>6, IdleTyped DEF SaveHeader, Inv, OwnsRows
<1> QED BY <1>5, <1>7 DEF Inv

LEMMA ApproveInv ==
  ASSUME Inv, NEW a \in Adjustment, Approve(a) PROVE Inv'
BY DEF Approve, Inv, Typed, OwnsRows, Status, Doc

(* The requests of one step change one row.                                *)
LEMMA SingleInv ==
  ASSUME Inv, NEW b \in Bin,
         Reserve(b) \/ Release(b) \/ Acknowledge(b) \/ Compare(b) \/ BeginCheck
  PROVE  Inv'
<1>1. ws' = ws /\ lock' = lock
  BY DEF Reserve, Release, Acknowledge, Compare, BeginCheck
<1>2. OwnsRows' BY <1>1 DEF Inv, OwnsRows
<1>4. CASE Reserve(b)
  <2>1. PICK n \in Amount : /\ level' = [level EXCEPT ![b] = [level[b] EXCEPT !.reserved = @ + n]]
                            /\ alert' \in [Bin -> Alert]
    BY <1>4 DEF Reserve, Inv, Typed, Alert
  <2>2. level[b] \in LevelRow /\ n \in Nat BY <2>1, Constants DEF Inv, Typed
  <2>3. [level[b] EXCEPT !.reserved = @ + n] \in LevelRow BY <2>2 DEF LevelRow
  <2>4. level' \in [Bin -> LevelRow] BY <2>1, <2>3 DEF Inv, Typed
  <2> QED BY <1>1, <1>2, <1>4, <2>1, <2>4 DEF Reserve, Inv, Typed
<1>5. CASE Release(b)
  <2>1. PICK n \in Amount : level' = [level EXCEPT ![b].reserved = Positive(@ - n)]
    BY <1>5 DEF Release
  <2>2. level[b] \in LevelRow /\ n \in Nat BY <2>1, Constants DEF Inv, Typed
  <2>3. [level[b] EXCEPT !.reserved = Positive(@ - n)] \in LevelRow BY <2>2 DEF LevelRow, Positive
  <2>4. level' \in [Bin -> LevelRow] BY <2>1, <2>3 DEF Inv, Typed
  <2> QED BY <1>1, <1>2, <1>5, <2>4 DEF Release, Inv, Typed
<1>6. CASE Acknowledge(b) BY <1>1, <1>2, <1>6 DEF Acknowledge, Inv, Typed, Alert
<1>7. CASE Compare(b)
  <2> b \in DOMAIN sums BY <1>7 DEF Compare
  <2>1. sums[b] \in Int /\ Opening[b] \in Nat BY Constants DEF Inv, Typed
  <2>2. level[b] \in LevelRow BY DEF Inv, Typed
  <2>3. [level[b] EXCEPT !.on = IF Repair THEN Opening[b] + sums[b] ELSE @] \in LevelRow
    BY <2>1, <2>2 DEF LevelRow
  <2>4. level' \in [Bin -> LevelRow] BY <1>7, <2>3 DEF Compare, Inv, Typed
  <2>5. DOMAIN sums' \subseteq Bin /\ \A x \in DOMAIN sums' : sums'[x] \in Int
    BY <1>7 DEF Compare, Inv, Typed
  <2> QED BY <1>1, <1>2, <1>7, <2>4, <2>5 DEF Compare, Inv, Typed
<1>8. CASE BeginCheck BY <1>1, <1>2, <1>8 DEF BeginCheck, Inv, Typed
<1> QED BY <1>4, <1>5, <1>6, <1>7, <1>8

(* Every way to give up is Abort.                                          *)
LEMMA NextCases ==
  ASSUME Next
  PROVE  \/ \E w \in Clerk, d \in Doc : Begin(w, d)
         \/ \E w \in Clerk, a \in Adjustment : ReadHeader(w, a)
         \/ \E w \in Clerk : SkipLine(w) \/ ShiftLine(w) \/ Abort(w) \/ Commit(w) \/ SaveHeader(w)
         \/ \E a \in Adjustment : Approve(a)
         \/ \E b \in Bin : Reserve(b) \/ Release(b) \/ Acknowledge(b) \/ Compare(b)
         \/ BeginCheck
BY DEF Next, Step, Refuse, AbortDeadlock, Crash

LEMMA StepInv == Inv /\ [Next]_vars => Inv'
<1> SUFFICES ASSUME Inv, [Next]_vars PROVE Inv' OBVIOUS
<1>1. CASE UNCHANGED vars BY <1>1 DEF vars, Inv, Typed, OwnsRows
<1>2. CASE Next
  <2>1. ASSUME NEW w \in Clerk, NEW d \in Doc, Begin(w, d) PROVE Inv' BY <2>1, BeginInv
  <2>2. ASSUME NEW w \in Clerk, NEW a \in Adjustment, ReadHeader(w, a) PROVE Inv'
    BY <2>2, ReadHeaderInv
  <2>3. ASSUME NEW w \in Clerk,
               SkipLine(w) \/ ShiftLine(w) \/ Abort(w) \/ Commit(w) \/ SaveHeader(w)
        PROVE Inv'
    BY <2>3, SkipLineInv, ShiftLineInv, AbortInv, CommitInv, SaveHeaderInv
  <2>4. ASSUME NEW a \in Adjustment, Approve(a) PROVE Inv' BY <2>4, ApproveInv
  <2>5. ASSUME NEW b \in Bin, Reserve(b) \/ Release(b) \/ Acknowledge(b) \/ Compare(b)
        PROVE Inv'
    BY <2>5, SingleInv
  <2>6. CASE BeginCheck
    <3>1. Bin # {} BY <2>6 DEF BeginCheck
    <3> QED BY <2>6, <3>1, SingleInv
  <2> QED BY <1>2, <2>1, <2>2, <2>3, <2>4, <2>5, <2>6, NextCases
<1> QED BY <1>1, <1>2

(* Types and the ownership of rows hold in every reachable state.          *)
LEMMA InvAlways == Spec => []Inv
<1> QED BY InitInv, StepInv, PTL DEF Spec

(* Every column keeps its type, and nobody but a document under way holds  *)
(* a row: a crash, a refusal and a deadlock leave none locked.             *)
THEOREM Types == Spec => []StockTypeOK
<1>1. Inv => StockTypeOK
  <2> SUFFICES ASSUME Inv PROVE StockTypeOK OBVIOUS
  <2>1. ASSUME NEW d \in Doc PROVE moved[d] \in Seq(Nat)
    <3>1. Lines[d] \in Seq([bin : Bin, delta : Int]) BY Constants
    <3>2. DOMAIN Lines[d] = 1..Len(Lines[d]) /\ Len(Lines[d]) \in Nat BY <3>1
    <3>3. moved[d] \in [1..Len(Lines[d]) -> Nat] BY <3>2 DEF Inv, Typed
    <3> QED BY <3>2, <3>3, SeqDef
  <2>2. moved \in [Doc -> Seq(Nat)] BY <2>1 DEF Inv, Typed
  <2> QED BY <2>2 DEF Inv, Typed, OwnsRows, StockTypeOK
<1> QED BY <1>1, InvAlways, PTL

-----------------------------------------------------------------------------
(* What a step leaves to the other workers: their work, their rows, and    *)
(* the levels of the bins they hold.                                       *)
Acts(w) == \/ \E d \in Doc : Begin(w, d)
           \/ \E a \in Adjustment : ReadHeader(w, a)
           \/ SkipLine(w) \/ ShiftLine(w) \/ Abort(w) \/ Commit(w) \/ SaveHeader(w)

Undisturbed(v) ==
  /\ ws'[v] = ws[v]
  /\ \A r \in Bin \cup Doc : lock'[r] = v <=> lock[r] = v
  /\ \A b \in Bin : lock[b] = v => level'[b] = level[b]

LEMMA Others ==
  ASSUME Inv, NEW w \in Clerk, Acts(w), NEW v \in Clerk, v # w
  PROVE  Undisturbed(v)
<1>1. v # Nobody BY Constants
<1>2. lock \in [Bin \cup Doc -> Clerk \cup {Nobody}] /\ ws \in [Clerk -> Work]
      /\ level \in [Bin -> LevelRow]
  BY DEF Inv, Typed
<1>3. ASSUME NEW d \in Doc, Begin(w, d) PROVE Undisturbed(v)
  BY <1>1, <1>2, <1>3 DEF Begin, Undisturbed
<1>4. ASSUME NEW a \in Adjustment, ReadHeader(w, a) PROVE Undisturbed(v)
  BY <1>2, <1>4 DEF ReadHeader, Undisturbed
<1>5. CASE SkipLine(w) BY <1>2, <1>5 DEF SkipLine, Undisturbed
<1>6. CASE ShiftLine(w)
  <2>1. Line(w).bin \in Bin BY <1>6, LineOfWork DEF ShiftLine
  <2>2. lock' = [lock EXCEPT ![Line(w).bin] = w] /\ lock[Line(w).bin] \in {Nobody, w}
        /\ level' = level
    BY <1>6 DEF ShiftLine
  <2>3. ws'[v] = ws[v] BY <1>2, <1>6 DEF ShiftLine
  <2> QED BY <1>1, <1>2, <2>1, <2>2, <2>3 DEF Undisturbed
<1>7. CASE Abort(w) BY <1>1, <1>2, <1>7 DEF Abort, Free, Undisturbed
<1>8. CASE Commit(w) BY <1>1, <1>2, <1>8 DEF Commit, Free, Holds, Undisturbed
<1>9. CASE SaveHeader(w) BY <1>2, <1>9 DEF SaveHeader, Undisturbed
<1> QED BY <1>3, <1>4, <1>5, <1>6, <1>7, <1>8, <1>9 DEF Acts

-----------------------------------------------------------------------------
(* Levels.  What a worker has moved of a bin it holds is in its view of    *)
(* the level, and its view keeps the promises; of a bin it does not hold   *)
(* it has moved nothing.                                                   *)
Promising(b, row) == b \notin Negative => row.reserved <= row.on

Shifting(w) == \A b \in Bin :
  IF lock[b] = w
  THEN ws[w].view[b].on = level[b].on + ws[w].delta[b] /\ Promising(b, ws[w].view[b])
  ELSE ws[w].delta[b] = 0

LevelInv ==
  /\ LevelIsTheLog
  /\ \A b \in Bin : Promising(b, level[b])
  /\ \A w \in Clerk : ws[w].at = "lines" => Shifting(w)

LEMMA ShiftingKept ==
  ASSUME LevelInv, NEW v \in Clerk, Undisturbed(v)
  PROVE  ws'[v].at = "lines" => Shifting(v)'
BY DEF LevelInv, Undisturbed, Shifting

(* A covered movement keeps the promises.                                  *)
LEMMA CoveredKeeps ==
  ASSUME NEW b \in Bin, NEW row \in LevelRow, NEW delta \in Int, NEW consume \in BOOLEAN,
         consume => delta < 0, Covered(b, row, delta, consume), Promising(b, row)
  PROVE  Promising(b, Shifted(row, delta, consume)) /\ Shifted(row, delta, consume).on = row.on + delta
BY DEF LevelRow, Covered, Available, Promising, Shifted, Positive

LEMMA ShiftLineLevels ==
  ASSUME Inv, LevelInv, NEW w \in Clerk, ShiftLine(w)
  PROVE  LevelInv'
<1> DEFINE b   == Line(w).bin
           row == IF Holds(w, b) THEN ws[w].view[b] ELSE level[b]
           new == Shifted(row, Line(w).delta, ws[w].doc \in Invoice)
<1>1. ws[w].doc \in Doc /\ ws[w].next \in DOMAIN Lines[ws[w].doc] /\ b \in Bin /\ Line(w).delta \in Int
  BY LineOfWork DEF ShiftLine
<1>2. ws[w] \in Work /\ level \in [Bin -> LevelRow] /\ lock \in [Bin \cup Doc -> Clerk \cup {Nobody}]
      /\ ws \in [Clerk -> Work]
  BY DEF Inv, Typed
<1>3. Shifting(w) BY DEF ShiftLine, Lacks, LevelInv
<1>4. row \in LevelRow /\ Promising(b, row)
      /\ row.on = level[b].on + ws[w].delta[b]
  <2>1. CASE Holds(w, b)
    <3>1. row = ws[w].view[b] /\ lock[b] = w BY <2>1 DEF Holds
    <3>2. row \in LevelRow BY <1>1, <1>2, <3>1 DEF Work
    <3> QED BY <1>1, <1>3, <3>1, <3>2 DEF Shifting
  <2>2. CASE ~Holds(w, b)
    <3>1. row = level[b] /\ lock[b] # w BY <2>2 DEF Holds
    <3>2. row \in LevelRow /\ Promising(b, row) BY <1>1, <1>2, <3>1 DEF LevelInv
    <3>3. ws[w].delta[b] = 0 BY <1>1, <1>3, <3>1 DEF Shifting
    <3> QED BY <3>1, <3>2, <3>3 DEF LevelRow
  <2> QED BY <2>1, <2>2
<1>5. ws[w].doc \in Invoice => Line(w).delta < 0 BY <1>1, Constants DEF Line
<1>6. Covered(b, row, Line(w).delta, ws[w].doc \in Invoice) BY DEF ShiftLine
<1>7. Promising(b, new) /\ new.on = row.on + Line(w).delta
  <2> HIDE DEF b, row
  <2> (ws[w].doc \in Invoice) \in BOOLEAN OBVIOUS
  <2> QED BY <1>1, <1>4, <1>5, <1>6, CoveredKeeps
<1>8. /\ ws'[w].view = [ws[w].view EXCEPT ![b] = new]
      /\ ws'[w].delta = [ws[w].delta EXCEPT ![b] = @ + Line(w).delta]
  BY <1>2 DEF ShiftLine, Work
<1>9. lock' = [lock EXCEPT ![b] = w] /\ level' = level /\ log' = log BY DEF ShiftLine
<1>10. Shifting(w)'
  <2> HIDE DEF b, new, row
  <2>1. ASSUME NEW c \in Bin, c # b
        PROVE  ws'[w].view[c] = ws[w].view[c] /\ ws'[w].delta[c] = ws[w].delta[c] /\ lock'[c] = lock[c]
    BY <1>1, <1>2, <1>8, <1>9, <2>1 DEF Work
  <2>2. ws'[w].view[b] = new /\ ws'[w].delta[b] = ws[w].delta[b] + Line(w).delta /\ lock'[b] = w
    BY <1>1, <1>2, <1>8, <1>9 DEF Work
  <2>3. new.on = level[b].on + (ws[w].delta[b] + Line(w).delta)
    <3> level[b].on \in Int /\ ws[w].delta[b] \in Int BY <1>1, <1>2 DEF Work, LevelRow
    <3> QED BY <1>1, <1>4, <1>7
  <2> QED BY <1>3, <1>7, <1>9, <2>1, <2>2, <2>3 DEF Shifting
<1>11. ASSUME NEW v \in Clerk, v # w PROVE ws'[v].at = "lines" => Shifting(v)'
  BY <1>11, Others, ShiftingKept DEF Acts
<1> QED BY <1>9, <1>10, <1>11 DEF LevelInv, LevelIsTheLog

LEMMA CommitLevels ==
  ASSUME Inv, LevelInv, NEW w \in Clerk, Commit(w)
  PROVE  LevelInv'
<1>1. Shifting(w) /\ ws[w] \in Work BY DEF Commit, LevelInv, Inv, Typed
<1>2. level \in [Bin -> LevelRow] /\ log \in [Bin -> Int] /\ Opening \in [Bin -> Nat]
      /\ ws \in [Clerk -> Work]
  BY Constants DEF Inv, Typed
<1>3. ASSUME NEW b \in Bin
      PROVE  level'[b].on = Opening[b] + log'[b] /\ Promising(b, level'[b])
  <2>1. level[b].on = Opening[b] + log[b] /\ Promising(b, level[b])
    BY DEF LevelInv, LevelIsTheLog
  <2>2. log'[b] = log[b] + ws[w].delta[b] BY DEF Commit
  <2>3. level'[b] = IF lock[b] = w THEN ws[w].view[b] ELSE level[b] BY DEF Commit, Holds
  <2>4. log[b] \in Int /\ ws[w].delta[b] \in Int /\ Opening[b] \in Int BY <1>1, <1>2 DEF Work
  <2> QED BY <1>1, <2>1, <2>2, <2>3, <2>4 DEF Shifting
<1>4. ws'[w].at = "idle" BY <1>2, IdleTyped DEF Commit
<1>5. ASSUME NEW v \in Clerk, v # w PROVE ws'[v].at = "lines" => Shifting(v)'
  BY <1>5, Others, ShiftingKept DEF Acts
<1> QED BY <1>3, <1>4, <1>5 DEF LevelInv, LevelIsTheLog

(* The other steps of a worker leave levels and movements alone.           *)
LEMMA ActLevels ==
  ASSUME Inv, LevelInv, NEW w \in Clerk, Acts(w)
  PROVE  LevelInv'
<1>1. CASE ShiftLine(w) BY <1>1, ShiftLineLevels
<1>2. CASE Commit(w) BY <1>2, CommitLevels
<1>3. CASE ~ShiftLine(w) /\ ~Commit(w)
  <2>1. level' = level /\ log' = log
    BY <1>3 DEF Acts, Begin, ReadHeader, SkipLine, Abort, SaveHeader
  <2>2. ws \in [Clerk -> Work] /\ lock \in [Bin \cup Doc -> Clerk \cup {Nobody}]
        /\ Bin \cap Doc = {}
    BY Constants DEF Inv, Typed
  <2>3. ws'[w].at = "lines" => Shifting(w)'
    <3>1. ASSUME NEW d \in Doc, Begin(w, d) PROVE Shifting(w)'
      <4>1. \A b \in Bin : ws'[w].delta[b] = 0 BY <2>2, <3>1 DEF Begin, Idle
      <4>2. \A b \in Bin : lock'[b] # w BY <2>2, <3>1 DEF Begin, Still, Inv, OwnsRows
      <4> QED BY <4>1, <4>2 DEF Shifting
    <3>2. CASE SkipLine(w)
      <4>1. Shifting(w) BY <3>2 DEF SkipLine, Lacks, LevelInv
      <4>2. ws'[w].view = ws[w].view /\ ws'[w].delta = ws[w].delta /\ lock' = lock
        BY <2>2, <3>2 DEF SkipLine, Work
      <4> QED BY <2>1, <4>1, <4>2 DEF Shifting
    <3>3. ASSUME NEW a \in Adjustment, ReadHeader(w, a) PROVE ws'[w].at = "edit"
      BY <2>2, <3>3 DEF ReadHeader, Idle
    <3>4. CASE Abort(w) \/ SaveHeader(w)
      <4>1. ws'[w].at = "idle" BY <2>2, <3>4, IdleTyped DEF Abort, SaveHeader
      <4> QED BY <4>1
    <3> QED BY <1>3, <3>1, <3>2, <3>3, <3>4 DEF Acts
  <2>4. ASSUME NEW v \in Clerk, v # w PROVE ws'[v].at = "lines" => Shifting(v)'
    BY <2>4, Others, ShiftingKept
  <2> QED BY <2>1, <2>3, <2>4 DEF LevelInv, LevelIsTheLog
<1> QED BY <1>1, <1>2, <1>3

(* A request of one step leaves the rows that are held alone.              *)
LEMMA SingleUndisturbed ==
  ASSUME Inv, ~Repair, NEW b \in Bin, NEW v \in Clerk,
         Reserve(b) \/ Release(b) \/ Acknowledge(b) \/ Compare(b) \/ BeginCheck
  PROVE  Undisturbed(v)
<1>1. ws' = ws /\ lock' = lock
  BY DEF Reserve, Release, Acknowledge, Compare, BeginCheck
<1>2. level \in [Bin -> LevelRow] /\ v # Nobody BY Constants DEF Inv, Typed
<1>3. ASSUME NEW c \in Bin, lock[c] = v PROVE level'[c] = level[c]
  <2>1. CASE Reserve(b) BY <1>2, <1>3, <2>1 DEF Reserve
  <2>2. CASE Release(b) BY <1>2, <1>3, <2>2 DEF Release
  <2>3. CASE Acknowledge(b) \/ BeginCheck BY <2>3 DEF Acknowledge, BeginCheck
  <2>4. CASE Compare(b) BY <1>2, <2>4 DEF Compare, LevelRow
  <2> QED BY <2>1, <2>2, <2>3, <2>4
<1> QED BY <1>1, <1>3 DEF Undisturbed

LEMMA SingleLevels ==
  ASSUME Inv, LevelInv, ~Repair, NEW b \in Bin,
         Reserve(b) \/ Release(b) \/ Acknowledge(b) \/ Compare(b) \/ BeginCheck
  PROVE  LevelInv'
<1>1. level \in [Bin -> LevelRow] /\ Amount \subseteq Nat \ {0} BY Constants DEF Inv, Typed
<1>2. log' = log BY DEF Reserve, Release, Acknowledge, Compare, BeginCheck
<1>3. ASSUME NEW c \in Bin
      PROVE  level'[c].on = level[c].on /\ Promising(c, level'[c])
  <2>1. Promising(c, level[c]) BY DEF LevelInv
  <2>2. CASE Reserve(b)
    <3>1. PICK n \in Amount : /\ b \notin Negative => n <= Available(level[b])
                              /\ level' = [level EXCEPT ![b] = [level[b] EXCEPT !.reserved = @ + n]]
      BY <2>2 DEF Reserve
    <3> QED BY <1>1, <2>1, <3>1 DEF Promising, Available, LevelRow
  <2>3. CASE Release(b)
    <3>1. PICK n \in Amount : level' = [level EXCEPT ![b].reserved = Positive(@ - n)]
      BY <2>3 DEF Release
    <3> QED BY <1>1, <2>1, <3>1 DEF Promising, Positive, LevelRow
  <2>4. CASE Acknowledge(b) \/ BeginCheck BY <2>1, <2>4 DEF Acknowledge, BeginCheck
  <2>5. CASE Compare(b) BY <1>1, <2>1, <2>5 DEF Compare, LevelRow
  <2> QED BY <2>2, <2>3, <2>4, <2>5
<1>4. \A v \in Clerk : ws'[v].at = "lines" => Shifting(v)'
  BY SingleUndisturbed, ShiftingKept
<1> QED BY <1>2, <1>3, <1>4 DEF LevelInv, LevelIsTheLog

LEMMA LevelStep ==
  ASSUME Inv, LevelInv, ~Repair, [Next]_vars
  PROVE  LevelInv'
<1>1. CASE UNCHANGED vars
  BY <1>1 DEF vars, LevelInv, LevelIsTheLog, Promising, Shifting
<1>2. CASE Next
  <2>1. ASSUME NEW w \in Clerk, Acts(w) PROVE LevelInv' BY <2>1, ActLevels
  <2>2. ASSUME NEW a \in Adjustment, Approve(a) PROVE LevelInv'
    BY <2>2 DEF Approve, LevelInv, LevelIsTheLog, Promising, Shifting
  <2>3. ASSUME NEW b \in Bin, Reserve(b) \/ Release(b) \/ Acknowledge(b) \/ Compare(b)
        PROVE LevelInv'
    BY <2>3, SingleLevels
  <2>4. CASE BeginCheck BY <2>4 DEF BeginCheck, LevelInv, LevelIsTheLog, Promising, Shifting
  <2> QED BY <1>2, <2>1, <2>2, <2>3, <2>4, NextCases DEF Acts
<1> QED BY <1>1, <1>2

LEMMA LevelInit == Init => LevelInv
<1> SUFFICES ASSUME Init PROVE LevelInv OBVIOUS
<1>1. \A w \in Clerk : ws[w].at = "idle" BY IdleTyped DEF Init
<1>2. \A b \in Bin : level[b].on = Opening[b] + log[b] /\ Promising(b, level[b])
  BY Constants DEF Init, Promising
<1> QED BY <1>1, <1>2 DEF LevelInv, LevelIsTheLog

LEMMA LevelInvAlways == ~Repair => (Spec => []LevelInv)
<1> SUFFICES ASSUME ~Repair PROVE Spec => []LevelInv OBVIOUS
<1>1. Inv /\ Inv' /\ LevelInv /\ [Next]_vars => LevelInv' BY LevelStep
<1> QED BY <1>1, LevelInit, InvAlways, PTL DEF Spec

(* As long as the nightly comparison only reports, the quantity on hand of *)
(* every bin is what it opened with and the sum of its movements: no order *)
(* of shipments, corrections, crashes and deadlocks makes them differ.     *)
THEOREM LevelsAreTheLog == ~Repair => (Spec => []LevelIsTheLog)
<1>1. LevelInv => LevelIsTheLog BY DEF LevelInv
<1> QED BY <1>1, LevelInvAlways, PTL

(* No oversell: what is reserved for orders is on the shelf, in every bin  *)
(* that must not go negative.                                              *)
THEOREM PromisesStayOnShelf == ~Repair => (Spec => []PromisesOnShelf)
<1>1. Inv /\ LevelInv => PromisesOnShelf
  BY DEF Inv, Typed, LevelRow, LevelInv, Promising, PromisesOnShelf
<1> QED BY <1>1, InvAlways, LevelInvAlways, PTL

-----------------------------------------------------------------------------
(* Documents.  A worker that has reached a line has moved the lines before *)
(* it, each once; what a form shows is the status of its document, and     *)
(* nobody else is at that document.                                        *)
Processing(w) ==
  /\ Ready(ws[w].doc)
  /\ \A i \in DOMAIN Lines[ws[w].doc] :
       ws[w].count[i] = IF i < ws[w].next /\ Lines[ws[w].doc][i].delta # 0 THEN 1 ELSE 0

Editing(w) ==
  /\ ws[w].seen = status[ws[w].doc]
  /\ \A v \in Clerk : v # w => ws[v].doc # ws[w].doc

DocInv ==
  /\ WholeDocument
  /\ \A w \in Clerk : /\ ws[w].at = "lines" => Processing(w)
                      /\ ws[w].at = "edit" => Editing(w)

(* The documents of two workers on lines differ.                           *)
LEMMA DocsDiffer ==
  ASSUME Inv, NEW w \in Clerk, NEW v \in Clerk, v # w, ws[w].at = "lines", ws[v].at = "lines"
  PROVE  ws[v].doc # ws[w].doc
BY DEF Inv, OwnsRows

(* A worker keeps what it knows when its document and its work are the     *)
(* same and no document gets a new editor or worker but that of step w.    *)
LEMMA DocOthers ==
  ASSUME Inv, DocInv, NEW w \in Clerk, NEW v \in Clerk, v # w,
         \A u \in Clerk : u # w => ws'[u] = ws[u],
         ws[v].at \in {"lines", "edit"} => status'[ws[v].doc] = status[ws[v].doc],
         ws[v].at = "edit" => ws'[w].doc # ws[v].doc
  PROVE  /\ ws'[v].at = "lines" => Processing(v)'
         /\ ws'[v].at = "edit" => Editing(v)'
<1>1. ws'[v] = ws[v] OBVIOUS
<1>2. ASSUME ws[v].at = "lines" PROVE Processing(v)'
  <2>1. Processing(v) BY <1>2 DEF DocInv
  <2>2. status'[ws[v].doc] = status[ws[v].doc] BY <1>2
  <2> QED BY <1>1, <2>1, <2>2 DEF Processing, Ready
<1>3. ASSUME ws[v].at = "edit" PROVE Editing(v)'
  <2>1. Editing(v) BY <1>3 DEF DocInv
  <2>2. status'[ws[v].doc] = status[ws[v].doc] BY <1>3
  <2>3. ASSUME NEW u \in Clerk, u # v PROVE ws'[u].doc # ws'[v].doc
    <3>1. CASE u = w BY <1>1, <1>3, <3>1
    <3>2. CASE u # w BY <1>1, <2>1, <2>3, <3>2 DEF Editing
    <3> QED BY <3>1, <3>2
  <2> QED BY <1>1, <2>1, <2>2, <2>3 DEF Editing
<1> QED BY <1>1, <1>2, <1>3

LEMMA BeginDocs ==
  ASSUME OneDesk, Inv, DocInv, NEW w \in Clerk, NEW d \in Doc, Begin(w, d)
  PROVE  DocInv'
<1>1. /\ ws'[w].at = "lines" /\ ws'[w].doc = d /\ ws'[w].count = moved[d] /\ ws'[w].next = 1
      /\ \A u \in Clerk : u # w => ws'[u] = ws[u]
      /\ status' = status /\ moved' = moved
  BY DEF Begin, Idle, Inv, Typed
<1>2. Processing(w)'
  <2>1. status[d] # "done" BY DEF Begin, Ready
  <2>2. \A i \in DOMAIN Lines[d] : moved[d][i] = 0 BY <2>1 DEF DocInv, WholeDocument
  <2>3. \A i \in DOMAIN Lines[d] : ~(i < 1) BY LineTyped
  <2>4. Ready(d)' BY <1>1 DEF Begin, Ready
  <2> QED BY <1>1, <2>2, <2>3, <2>4 DEF Processing
<1>3. ASSUME NEW v \in Clerk, v # w
      PROVE  /\ ws'[v].at = "lines" => Processing(v)'
             /\ ws'[v].at = "edit" => Editing(v)'
  <2>1. ws[v].at = "edit" => ws[v].doc # d BY DEF Begin, Unedited
  <2> QED BY <1>1, <1>3, <2>1, DocOthers
<1>4. WholeDocument' BY <1>1 DEF DocInv, WholeDocument
<1>5. \A v \in Clerk : /\ ws'[v].at = "lines" => Processing(v)'
                       /\ ws'[v].at = "edit" => Editing(v)'
  BY <1>1, <1>2, <1>3
<1> QED BY <1>4, <1>5 DEF DocInv

LEMMA ReadHeaderDocs ==
  ASSUME OneDesk, Inv, DocInv, NEW w \in Clerk, NEW a \in Adjustment, ReadHeader(w, a)
  PROVE  DocInv'
<1>1. /\ ws'[w].at = "edit" /\ ws'[w].doc = a /\ ws'[w].seen = status[a]
      /\ \A u \in Clerk : u # w => ws'[u] = ws[u]
      /\ status' = status /\ moved' = moved
  BY DEF ReadHeader, Idle, Inv, Typed
<1>2. \A u \in Clerk : ws[u].doc # a BY DEF ReadHeader, Alone
<1>3. Editing(w)' BY <1>1, <1>2 DEF Editing
<1>4. ASSUME NEW v \in Clerk, v # w
      PROVE  /\ ws'[v].at = "lines" => Processing(v)'
             /\ ws'[v].at = "edit" => Editing(v)'
  BY <1>1, <1>2, <1>4, DocOthers
<1>5. WholeDocument' BY <1>1 DEF DocInv, WholeDocument
<1>6. \A v \in Clerk : /\ ws'[v].at = "lines" => Processing(v)'
                       /\ ws'[v].at = "edit" => Editing(v)'
  BY <1>1, <1>3, <1>4
<1> QED BY <1>5, <1>6 DEF DocInv

(* A line is done with: moved once, or counted as expected.                *)
LEMMA LineDocs ==
  ASSUME Inv, DocInv, NEW w \in Clerk, SkipLine(w) \/ ShiftLine(w)
  PROVE  DocInv'
<1> DEFINE d == ws[w].doc
           n == ws[w].next
<1>1. /\ ws[w] \in Work /\ ws \in [Clerk -> Work] /\ ws[w].at = "lines"
      /\ d \in Doc /\ n \in DOMAIN Lines[d] /\ ws[w].count \in [DOMAIN Lines[d] -> Nat]
  BY LineOfWork DEF SkipLine, ShiftLine, Lacks, Inv, Typed, OwnsRows
<1>2. Processing(w) BY <1>1 DEF DocInv
<1>3. /\ ws'[w].at = "lines" /\ ws'[w].doc = d /\ ws'[w].next = n + 1
      /\ \A u \in Clerk : u # w => ws'[u] = ws[u]
      /\ status' = status /\ moved' = moved
  <2>1. CASE SkipLine(w) BY <1>1, <2>1 DEF SkipLine, Work
  <2>2. CASE ShiftLine(w) BY <1>1, <2>2 DEF ShiftLine, Work
  <2> QED BY <2>1, <2>2
<1>4. n \in Nat /\ ws[w].count[n] = 0
  <2>1. n \in Nat BY <1>1, LineTyped
  <2> QED BY <1>1, <1>2, <2>1 DEF Processing
<1>5. \A i \in DOMAIN Lines[d] :
        ws'[w].count[i] = IF i < n + 1 /\ Lines[d][i].delta # 0 THEN 1 ELSE 0
  <2>1. \A i \in DOMAIN Lines[d] : i \in Nat /\ (i < n + 1 <=> i < n \/ i = n)
    BY <1>1, <1>4, LineTyped
  <2>2. \A i \in DOMAIN Lines[d] :
          ws[w].count[i] = IF i < n /\ Lines[d][i].delta # 0 THEN 1 ELSE 0
    BY <1>2 DEF Processing
  <2>3. CASE SkipLine(w)
    <3>1. ws'[w].count = ws[w].count BY <1>1, <2>3 DEF SkipLine, Work
    <3>2. Lines[d][n].delta = 0 BY <1>4, <2>3 DEF SkipLine, Settled, Line
    <3> HIDE DEF d, n
    <3> QED BY <2>1, <2>2, <3>1, <3>2
  <2>4. CASE ShiftLine(w)
    <3>1. ws'[w].count = [ws[w].count EXCEPT ![n] = @ + 1] BY <1>1, <2>4 DEF ShiftLine, Work
    <3>2. Lines[d][n].delta # 0 BY <2>4 DEF ShiftLine, Settled, Line
    <3> HIDE DEF d, n
    <3> QED BY <1>1, <1>4, <2>1, <2>2, <3>1, <3>2
  <2> QED BY <2>3, <2>4
<1>6. Processing(w)' BY <1>2, <1>3, <1>5 DEF Processing, Ready
<1>7. ASSUME NEW v \in Clerk, v # w
      PROVE  /\ ws'[v].at = "lines" => Processing(v)'
             /\ ws'[v].at = "edit" => Editing(v)'
  <2>1. ws[v].at = "edit" => ws[v].doc # d BY <1>7 DEF DocInv, Editing
  <2> QED BY <1>3, <1>7, <2>1, DocOthers
<1>8. WholeDocument' BY <1>3 DEF DocInv, WholeDocument
<1>9. \A v \in Clerk : /\ ws'[v].at = "lines" => Processing(v)'
                       /\ ws'[v].at = "edit" => Editing(v)'
  BY <1>3, <1>6, <1>7
<1> QED BY <1>8, <1>9 DEF DocInv

LEMMA CommitDocs ==
  ASSUME Inv, DocInv, NEW w \in Clerk, Commit(w)
  PROVE  DocInv'
<1> DEFINE d == ws[w].doc
<1>1. /\ ws[w] \in Work /\ ws[w].at = "lines" /\ d \in Doc /\ ws \in [Clerk -> Work]
      /\ moved \in [Doc -> Counts] /\ status \in [Doc -> Status]
  BY DEF Commit, Inv, Typed, OwnsRows
<1>2. Processing(w) BY <1>1 DEF DocInv
<1>3. /\ ws'[w].at = "idle" /\ ws'[w].doc = Nobody
      /\ \A u \in Clerk : u # w => ws'[u] = ws[u]
      /\ status' = [status EXCEPT ![d] = "done"] /\ moved' = [moved EXCEPT ![d] = ws[w].count]
  BY <1>1, IdleTyped DEF Commit
<1>4. \A i \in DOMAIN Lines[d] : ws[w].count[i] = IF Lines[d][i].delta # 0 THEN 1 ELSE 0
  <2>1. ws[w].next > Len(Lines[d]) /\ ws[w].next \in Nat BY <1>1 DEF Commit, Work
  <2>2. \A i \in DOMAIN Lines[d] : i < ws[w].next BY <1>1, <2>1, LineTyped
  <2> QED BY <1>2, <2>2 DEF Processing
<1>5. WholeDocument'
  <2> HIDE DEF d
  <2>1. \A i \in DOMAIN Lines[d] :
          moved'[d][i] = IF status'[d] = "done" /\ Lines[d][i].delta # 0 THEN 1 ELSE 0
    BY <1>1, <1>3, <1>4
  <2>2. \A e \in Doc : e # d => moved'[e] = moved[e] /\ status'[e] = status[e]
    BY <1>1, <1>3
  <2> QED BY <2>1, <2>2 DEF DocInv, WholeDocument
<1>6. ASSUME NEW v \in Clerk, v # w
      PROVE  /\ ws'[v].at = "lines" => Processing(v)'
             /\ ws'[v].at = "edit" => Editing(v)'
  <2>1. ws[v].at = "edit" => ws[v].doc # d BY <1>6 DEF DocInv, Editing
  <2>2. ws[v].at = "lines" => ws[v].doc # d BY <1>1, <1>6, DocsDiffer
  <2>3. ws[v].at \in {"lines", "edit"} => ws[v].doc \in Doc BY DEF Inv, OwnsRows, Doc
  <2>4. ws[v].at = "edit" => ws'[w].doc # ws[v].doc BY <1>3, <2>3, Constants
  <2>5. ws[v].at \in {"lines", "edit"} => status'[ws[v].doc] = status[ws[v].doc]
    BY <1>1, <1>3, <2>1, <2>2, <2>3
  <2> HIDE DEF d
  <2> QED BY <1>3, <1>6, <2>4, <2>5, DocOthers
<1>7. \A v \in Clerk : /\ ws'[v].at = "lines" => Processing(v)'
                       /\ ws'[v].at = "edit" => Editing(v)'
  BY <1>3, <1>6
<1> QED BY <1>5, <1>7 DEF DocInv

(* Giving up, and saving a form that nobody else has touched.              *)
LEMMA LeaveDocs ==
  ASSUME Inv, DocInv, NEW w \in Clerk, Abort(w) \/ SaveHeader(w)
  PROVE  DocInv'
<1>1. ws \in [Clerk -> Work] /\ status \in [Doc -> Status] BY DEF Inv, Typed
<1>2. /\ ws'[w].at = "idle" /\ ws'[w].doc = Nobody
      /\ \A u \in Clerk : u # w => ws'[u] = ws[u]
      /\ moved' = moved
  BY <1>1, IdleTyped DEF Abort, SaveHeader
<1>3. status' = status
  <2>1. CASE Abort(w) BY <2>1 DEF Abort
  <2>2. CASE SaveHeader(w)
    <3>1. Editing(w) BY <2>2 DEF SaveHeader, DocInv
    <3> QED BY <1>1, <2>2, <3>1 DEF SaveHeader, Editing
  <2> QED BY <2>1, <2>2
<1>4. ASSUME NEW v \in Clerk, v # w
      PROVE  /\ ws'[v].at = "lines" => Processing(v)'
             /\ ws'[v].at = "edit" => Editing(v)'
  <2>1. ws[v].at = "edit" => ws[v].doc \in Doc BY DEF Inv, OwnsRows, Doc
  <2> QED BY <1>2, <1>3, <1>4, <2>1, Constants, DocOthers
<1>5. WholeDocument' BY <1>2, <1>3 DEF DocInv, WholeDocument
<1>6. \A v \in Clerk : /\ ws'[v].at = "lines" => Processing(v)'
                       /\ ws'[v].at = "edit" => Editing(v)'
  BY <1>2, <1>4
<1> QED BY <1>5, <1>6 DEF DocInv

LEMMA ApproveDocs ==
  ASSUME OneDesk, Inv, DocInv, NEW a \in Adjustment, Approve(a)
  PROVE  DocInv'
<1>1. /\ ws' = ws /\ moved' = moved /\ status' = [status EXCEPT ![a] = "approved"]
      /\ status[a] = "draft" /\ status \in [Doc -> Status] /\ lock[a] = Nobody /\ a \in Doc
  BY DEF Approve, Inv, Typed, Doc
<1>2. WholeDocument' BY <1>1 DEF DocInv, WholeDocument
<1>3. ASSUME NEW v \in Clerk, ws[v].at \in {"lines", "edit"} PROVE ws[v].doc # a
  BY <1>1, <1>3, Constants DEF Approve, Unedited, Inv, OwnsRows
<1>4. \A v \in Clerk : /\ ws'[v].at = "lines" => Processing(v)'
                       /\ ws'[v].at = "edit" => Editing(v)'
  BY <1>1, <1>3 DEF DocInv, Processing, Ready, Editing
<1> QED BY <1>2, <1>4 DEF DocInv

LEMMA DocStep ==
  ASSUME OneDesk, Inv, DocInv, [Next]_vars
  PROVE  DocInv'
<1>1. ASSUME ws' = ws, status' = status, moved' = moved PROVE DocInv'
  BY <1>1 DEF DocInv, WholeDocument, Processing, Ready, Editing
<1>2. CASE UNCHANGED vars BY <1>1, <1>2 DEF vars
<1>3. CASE Next
  <2>1. ASSUME NEW w \in Clerk, NEW d \in Doc, Begin(w, d) PROVE DocInv' BY <2>1, BeginDocs
  <2>2. ASSUME NEW w \in Clerk, NEW a \in Adjustment, ReadHeader(w, a) PROVE DocInv'
    BY <2>2, ReadHeaderDocs
  <2>3. ASSUME NEW w \in Clerk,
               SkipLine(w) \/ ShiftLine(w) \/ Abort(w) \/ Commit(w) \/ SaveHeader(w)
        PROVE DocInv'
    BY <2>3, LineDocs, CommitDocs, LeaveDocs
  <2>4. ASSUME NEW a \in Adjustment, Approve(a) PROVE DocInv' BY <2>4, ApproveDocs
  <2>5. ASSUME NEW b \in Bin, Reserve(b) \/ Release(b) \/ Acknowledge(b) \/ Compare(b)
        PROVE DocInv'
    BY <1>1, <2>5 DEF Reserve, Release, Acknowledge, Compare
  <2>6. CASE BeginCheck BY <1>1, <2>6 DEF BeginCheck
  <2> QED BY <1>3, <2>1, <2>2, <2>3, <2>4, <2>5, <2>6, NextCases
<1> QED BY <1>2, <1>3

LEMMA DocInit == Init => DocInv
<1> SUFFICES ASSUME Init PROVE DocInv OBVIOUS
<1>1. \A w \in Clerk : ws[w].at = "idle" BY IdleTyped DEF Init
<1>2. WholeDocument BY DEF Init, WholeDocument
<1> QED BY <1>1, <1>2 DEF DocInv

(* If nobody edits an adjustment others are working on, a document that is *)
(* done has moved each of its lines once and any other has moved none,     *)
(* whatever is shipped twice, refused, deadlocked or crashed.              *)
THEOREM DocumentsAreWhole == OneDesk => (Spec => []WholeDocument)
<1> SUFFICES ASSUME OneDesk PROVE Spec => []WholeDocument OBVIOUS
<1>1. Inv /\ DocInv /\ [Next]_vars => DocInv' BY DocStep
<1>2. DocInv => WholeDocument BY DEF DocInv
<1> QED BY <1>1, <1>2, DocInit, InvAlways, PTL DEF Spec

-----------------------------------------------------------------------------
(* Alerts.  A worker whose view of a bin is low has noted an alert to      *)
(* raise, or found one; an alert there has been is never forgotten.        *)
Noting(w) == \A b \in Bin :
  lock[b] = w /\ Low(ws[w].view[b]) => b \in ws[w].raise \/ alert[b] # "none"

KnownInv == LowIsKnown /\ \A w \in Clerk : ws[w].at = "lines" => Noting(w)

Remembered == \A b \in Bin : alert[b] # "none" => alert'[b] # "none"

LEMMA NotingKept ==
  ASSUME KnownInv, NEW v \in Clerk, Undisturbed(v), Remembered
  PROVE  ws'[v].at = "lines" => Noting(v)'
BY DEF KnownInv, Undisturbed, Remembered, Noting, Low, Available

LEMMA ActRemembers ==
  ASSUME Inv, NEW w \in Clerk, Acts(w)
  PROVE  Remembered
BY DEF Acts, Begin, ReadHeader, SkipLine, ShiftLine, Abort, Commit, SaveHeader, Remembered, Inv, Typed

LEMMA ShiftLineKnows ==
  ASSUME Inv, KnownInv, NEW w \in Clerk, ShiftLine(w)
  PROVE  KnownInv'
<1> DEFINE b   == Line(w).bin
           row == IF Holds(w, b) THEN ws[w].view[b] ELSE level[b]
           new == Shifted(row, Line(w).delta, ws[w].doc \in Invoice)
<1>1. b \in Bin
  BY LineOfWork DEF ShiftLine
<1>2. ws[w] \in Work /\ ws \in [Clerk -> Work] /\ lock \in [Bin \cup Doc -> Clerk \cup {Nobody}]
  BY DEF Inv, Typed
<1>3. Noting(w)
  BY DEF ShiftLine, Lacks, KnownInv
<1>4. /\ ws'[w].view = [ws[w].view EXCEPT ![b] = new]
      /\ ws'[w].raise = IF Low(new) /\ alert[b] # "open" THEN ws[w].raise \cup {b} ELSE ws[w].raise
  BY <1>2 DEF ShiftLine, Work
<1>5. lock' = [lock EXCEPT ![b] = w] /\ level' = level /\ alert' = alert
  BY DEF ShiftLine
<1>6. Noting(w)'
  <2> HIDE DEF b, new, row
  <2>1. ASSUME NEW c \in Bin, c # b
        PROVE  /\ ws'[w].view[c] = ws[w].view[c] /\ lock'[c] = lock[c]
               /\ c \in ws[w].raise => c \in ws'[w].raise
    BY <1>1, <1>2, <1>4, <1>5, <2>1 DEF Work
  <2>2. ws'[w].view[b] = new
    BY <1>1, <1>2, <1>4 DEF Work
  <2>3. Low(new) => b \in ws'[w].raise \/ alert'[b] # "none"
    BY <1>4, <1>5
  <2>4. ASSUME NEW c \in Bin, lock'[c] = w, Low(ws'[w].view[c])
        PROVE  c \in ws'[w].raise \/ alert'[c] # "none"
    <3>1. CASE c = b
      BY <2>2, <2>3, <2>4, <3>1
    <3>2. CASE c # b
      BY <1>3, <1>5, <2>1, <2>4, <3>2 DEF Noting
    <3> QED BY <3>1, <3>2
  <2> QED BY <2>4 DEF Noting, Low, Available
<1>7. ASSUME NEW v \in Clerk, v # w PROVE ws'[v].at = "lines" => Noting(v)'
  <2>1. Undisturbed(v) /\ Remembered
    BY <1>7, Others, ActRemembers DEF Acts
  <2> QED BY <2>1, NotingKept
<1>8. LowIsKnown'
  BY <1>5 DEF KnownInv, LowIsKnown, Low, Available
<1> QED BY <1>6, <1>7, <1>8 DEF KnownInv

LEMMA ActKnows ==
  ASSUME Inv, KnownInv, NEW w \in Clerk, Acts(w)
  PROVE  KnownInv'
<1>1. CASE ShiftLine(w)
  BY <1>1, ShiftLineKnows
<1>2. ASSUME ~ShiftLine(w) PROVE ws'[w].at = "lines" => Noting(w)'
  <2>1. ws \in [Clerk -> Work] /\ lock \in [Bin \cup Doc -> Clerk \cup {Nobody}] /\ Bin \cap Doc = {}
    BY Constants DEF Inv, Typed
  <2>2. ASSUME NEW d \in Doc, Begin(w, d) PROVE Noting(w)'
    <3>1. \A b \in Bin : lock'[b] # w
      BY <2>1, <2>2 DEF Begin, Still, Inv, OwnsRows
    <3> QED BY <3>1 DEF Noting
  <2>3. CASE SkipLine(w)
    <3>1. Noting(w)
      BY <2>3 DEF SkipLine, Lacks, KnownInv
    <3>2. ws'[w].view = ws[w].view /\ ws'[w].raise = ws[w].raise /\ lock' = lock /\ alert' = alert
      BY <2>1, <2>3 DEF SkipLine, Work
    <3> QED BY <3>1, <3>2 DEF Noting, Low, Available
  <2>4. ASSUME NEW a \in Adjustment, ReadHeader(w, a) PROVE ws'[w].at = "edit"
    BY <2>1, <2>4 DEF ReadHeader, Idle
  <2>5. CASE Abort(w) \/ SaveHeader(w) \/ Commit(w)
    <3>1. ws'[w].at = "idle"
      BY <2>1, <2>5, IdleTyped DEF Abort, SaveHeader, Commit
    <3> QED BY <3>1
  <2> QED BY <1>2, <2>2, <2>3, <2>4, <2>5 DEF Acts
<1>3. ASSUME NEW v \in Clerk, v # w PROVE ws'[v].at = "lines" => Noting(v)'
  <2>1. Undisturbed(v) /\ Remembered
    BY <1>3, Others, ActRemembers
  <2> QED BY <2>1, NotingKept
<1>4. CASE Commit(w)
  <2>1. ASSUME NEW b \in Bin, Low(level'[b]) PROVE alert'[b] # "none"
    <3>1. level'[b] = (IF lock[b] = w THEN ws[w].view[b] ELSE level[b])
          /\ alert'[b] = (IF b \in ws[w].raise THEN "open" ELSE alert[b])
      BY <1>4 DEF Commit, Holds, Raised
    <3>2. Noting(w) /\ LowIsKnown
      BY <1>4 DEF Commit, KnownInv
    <3> QED BY <2>1, <3>1, <3>2 DEF Noting, LowIsKnown
  <2>2. LowIsKnown'
    BY <2>1 DEF LowIsKnown, Low, Available
  <2>3. ~ShiftLine(w)
    BY <1>4, LineTyped DEF Commit, ShiftLine, Lacks, Inv, Typed, OwnsRows, Work
  <2> QED BY <1>2, <1>3, <2>2, <2>3 DEF KnownInv
<1>5. CASE ~ShiftLine(w) /\ ~Commit(w)
  <2>1. level' = level /\ alert' = alert
    BY <1>5 DEF Acts, Begin, ReadHeader, SkipLine, Abort, SaveHeader
  <2>2. LowIsKnown'
    BY <2>1 DEF KnownInv, LowIsKnown, Low, Available
  <2> QED BY <1>2, <1>3, <1>5, <2>2 DEF KnownInv
<1> QED BY <1>1, <1>4, <1>5

(* A reservation looks at the reorder point itself, a release moves the    *)
(* bin away from it.                                                       *)
LEMMA SingleKnows ==
  ASSUME Inv, KnownInv, ~Repair, NEW b \in Bin,
         Reserve(b) \/ Release(b) \/ Acknowledge(b) \/ Compare(b) \/ BeginCheck
  PROVE  KnownInv'
<1>1. level \in [Bin -> LevelRow] /\ alert \in [Bin -> Alert]
      /\ Amount \subseteq Nat \ {0} /\ Reorder \in Nat
  BY Constants, ConstantsOK DEF Inv, Typed
<1>2. Remembered
  BY <1>1 DEF Reserve, Release, Acknowledge, Compare, BeginCheck, Remembered
<1>3. ASSUME NEW c \in Bin, Low(level'[c]) PROVE alert'[c] # "none"
  <2>1. Low(level[c]) => alert[c] # "none"
    BY DEF KnownInv, LowIsKnown
  <2>2. CASE Reserve(b)
    <3>1. PICK n \in Amount :
            /\ level' = [level EXCEPT ![b] = [level[b] EXCEPT !.reserved = @ + n]]
            /\ alert' = [alert EXCEPT ![b] = IF Low([level[b] EXCEPT !.reserved = @ + n]) THEN "open" ELSE @]
      BY <2>2 DEF Reserve
    <3>2. CASE c = b
      BY <1>1, <1>3, <3>1, <3>2
    <3>3. CASE c # b
      BY <1>1, <1>3, <2>1, <3>1, <3>3
    <3> QED BY <3>2, <3>3
  <2>3. CASE Release(b)
    <3>1. PICK n \in Amount : level' = [level EXCEPT ![b].reserved = Positive(@ - n)] /\ alert' = alert
      BY <2>3 DEF Release
    <3>2. CASE c = b
      <4>1. level'[b].on = level[b].on /\ level'[b].reserved = Positive(level[b].reserved - n)
        BY <1>1, <3>1 DEF LevelRow
      <4>2. level[b].on \in Int /\ level[b].reserved \in Nat /\ n \in Nat
        BY <1>1 DEF LevelRow
      <4>3. Low(level'[b]) => Low(level[b])
        BY <1>1, <4>1, <4>2 DEF Low, Available, Positive
      <4> QED BY <1>3, <2>1, <3>1, <3>2, <4>3
    <3>3. CASE c # b
      BY <1>1, <1>3, <2>1, <3>1, <3>3
    <3> QED BY <3>2, <3>3
  <2>4. CASE Acknowledge(b) \/ BeginCheck
    <3>1. level' = level
      BY <2>4 DEF Acknowledge, BeginCheck
    <3>2. alert[c] # "none"
      BY <1>3, <2>1, <3>1
    <3> QED BY <1>2, <3>2 DEF Remembered
  <2>5. CASE Compare(b)
    <3>1. level' = level /\ alert' = alert
      <4>1. level' = [level EXCEPT ![b].on = @] /\ alert' = alert
        BY <2>5 DEF Compare
      <4> QED BY <1>1, <4>1 DEF LevelRow
    <3> QED BY <1>3, <2>1, <3>1
  <2> QED BY <2>2, <2>3, <2>4, <2>5
<1>4. LowIsKnown'
  BY <1>3 DEF LowIsKnown, Low, Available
<1>5. \A v \in Clerk : ws'[v].at = "lines" => Noting(v)'
  BY <1>2, SingleUndisturbed, NotingKept
<1> QED BY <1>4, <1>5 DEF KnownInv

LEMMA KnownStep ==
  ASSUME Inv, KnownInv, ~Repair, [Next]_vars
  PROVE  KnownInv'
<1>1. ASSUME ws' = ws, level' = level, alert' = alert, lock' = lock PROVE KnownInv'
  BY <1>1 DEF KnownInv, LowIsKnown, Noting, Low, Available
<1>2. CASE UNCHANGED vars
  BY <1>1, <1>2 DEF vars
<1>3. CASE Next
  <2>1. ASSUME NEW w \in Clerk, Acts(w) PROVE KnownInv'
    BY <2>1, ActKnows
  <2>2. ASSUME NEW a \in Adjustment, Approve(a) PROVE KnownInv'
    BY <1>1, <2>2 DEF Approve
  <2>3. ASSUME NEW b \in Bin, Reserve(b) \/ Release(b) \/ Acknowledge(b) \/ Compare(b)
        PROVE KnownInv'
    BY <2>3, SingleKnows
  <2>4. CASE BeginCheck
    BY <1>1, <2>4 DEF BeginCheck
  <2> QED BY <1>3, <2>1, <2>2, <2>3, <2>4, NextCases DEF Acts
<1> QED BY <1>2, <1>3

LEMMA KnownBegins == Init => KnownInv
<1> SUFFICES ASSUME Init PROVE KnownInv
  OBVIOUS
<1>1. \A w \in Clerk : ws[w].at = "idle"
  BY IdleTyped DEF Init
<1>2. LowIsKnown
  BY DEF Init, LowIsKnown
<1> QED BY <1>1, <1>2 DEF KnownInv

-----------------------------------------------------------------------------
(* Prices.  A day is covered by one row; a row's id names the first day it *)
(* was split from and a change that is made, so a change that is not made  *)
(* yet inserts a new one.                                                  *)
OneRowADay == \A day \in 1..Days : \E id \in DOMAIN rows :
  Lists!Covers(id, day) /\ \A j \in DOMAIN rows : Lists!Covers(j, day) => j = id

PricesInv ==
  /\ \A id \in DOMAIN rows : /\ rows[id] \in Lists!Row
                             /\ id = Lists!First \/ \E c \in made, n \in Nat \ {0} : id = <<c, n>>
  /\ OneRowADay
  /\ DOMAIN asked \subseteq Change \ made
  /\ \A c \in DOMAIN asked : asked[c] \subseteq DOMAIN rows

LEMMA PriceConstants ==
  /\ Days \in Nat \ {0} /\ Start \in Nat /\ MaxPrice \in Nat
  /\ \A c \in Change : c.from \in 1..Days /\ c.by \in Int
BY ListsConstants DEF Lists!PricesConstantsOK

LEMMA PricesFollow == PricesInv => Lists!PricesTypeOK /\ Lists!OnePriceADay
<1> SUFFICES ASSUME PricesInv PROVE Lists!PricesTypeOK /\ Lists!OnePriceADay
  OBVIOUS
<1>1. Lists!PricesTypeOK
  BY DEF PricesInv, Lists!PricesTypeOK
<1>2. ASSUME NEW day \in 1..Days PROVE Cardinality(Lists!On(day)) = 1
  <2>1. PICK id \in DOMAIN rows :
          Lists!Covers(id, day) /\ \A j \in DOMAIN rows : Lists!Covers(j, day) => j = id
    BY DEF PricesInv, OneRowADay
  <2>2. Lists!On(day) = {id}
    BY <2>1 DEF Lists!On
  <2> QED BY <2>2, FS_Singleton
<1>3. Lists!OnePriceADay
  BY <1>2 DEF Lists!OnePriceADay, Lists!Cardinality, Cardinality
<1> QED BY <1>1, <1>3

LEMMA PricesBegin == Lists!Init => PricesInv
<1> SUFFICES ASSUME Lists!Init PROVE PricesInv
  OBVIOUS
<1>1. DOMAIN rows = {Lists!First} /\ rows[Lists!First] = [from |-> 1, to |-> Days + 1, price |-> Start]
  BY DEF Lists!Init, Lists!Forever
<1>2. rows[Lists!First] \in Lists!Row
  BY <1>1, PriceConstants DEF Lists!Row, Lists!Forever
<1>3. OneRowADay
  BY <1>1, PriceConstants DEF OneRowADay, Lists!Covers
<1>4. DOMAIN asked = {}
  BY DEF Lists!Init
<1> QED BY <1>1, <1>2, <1>3, <1>4 DEF PricesInv

LEMMA AskKeeps ==
  ASSUME PricesInv, NEW c \in Change, Lists!Begin(c) \/ Lists!Forget(c)
  PROVE  PricesInv'
<1>1. rows' = rows /\ made' = made
  BY DEF Lists!Begin, Lists!Forget
<1>2. /\ DOMAIN asked' \subseteq Change \ made
      /\ \A x \in DOMAIN asked' : asked'[x] \subseteq DOMAIN rows
  <2>1. CASE Lists!Begin(c)
    <3>1. c \notin made
      BY <2>1 DEF Lists!Begin
    <3>2. asked' = [x \in DOMAIN asked \cup {c} |->
                      IF x = c THEN {id \in DOMAIN rows : Lists!Current(id, c)} ELSE asked[x]]
      BY <2>1 DEF Lists!Begin
    <3> QED BY <3>1, <3>2 DEF PricesInv
  <2>2. CASE Lists!Forget(c)
    <3>1. asked' = [x \in DOMAIN asked \ {c} |-> asked[x]]
      BY <2>2 DEF Lists!Forget
    <3> QED BY <3>1 DEF PricesInv
  <2> QED BY <2>1, <2>2
<1>3. OneRowADay'
  BY <1>1 DEF PricesInv, OneRowADay, Lists!Covers
<1> QED BY <1>1, <1>2, <1>3 DEF PricesInv

PastKept(c) == \A day \in 1..(c.from - 1) : Lists!PriceOn(rows', day) = Lists!PriceOn(rows, day)

(* A row in force on the day of the change is split in two, which cover    *)
(* what it covered; it is the only one.  Rows that are changed or inserted *)
(* cover no day before.                                                    *)
LEMMA ApplyKeeps ==
  ASSUME PricesInv, NEW c \in Change, Lists!Apply(c)
  PROVE  PricesInv' /\ made' = made \cup {c} /\ PastKept(c)
<1> DEFINE picked == {id \in asked[c] : Lists!Current(id, c)}
           ended  == {id \in picked : Lists!Ends(id, c)}
<1> HIDE DEF picked, ended
<1>1. picked = {id \in asked[c] : Lists!Current(id, c)}
  BY DEF picked
<1>2. ended = {id \in picked : Lists!Ends(id, c)}
  BY DEF ended
<1>3. PICK start : start = c.from
  OBVIOUS
<1>4. /\ c \in DOMAIN asked /\ c \notin made /\ picked \subseteq DOMAIN rows /\ ended \subseteq picked
      /\ start \in 1..Days /\ c.by \in Int
  BY <1>1, <1>2, <1>3, PriceConstants DEF Lists!Apply, PricesInv
<1>5. /\ \A id \in picked : Lists!Repriced(id, c).price \in 0..MaxPrice
      /\ rows' = [id \in DOMAIN rows \cup {Lists!Inserted(c, e) : e \in ended} |->
                   IF id \in ended THEN Lists!Ended(id, c)
                   ELSE IF id \in picked THEN Lists!Repriced(id, c)
                   ELSE IF id \in DOMAIN rows THEN rows[id]
                   ELSE Lists!Successor(CHOOSE e \in ended : id = Lists!Inserted(c, e), c)]
      /\ asked' = [x \in DOMAIN asked \ {c} |-> asked[x]] /\ made' = made \cup {c}
  BY DEF Lists!Apply, picked, ended
<1>6. \A id \in DOMAIN rows :
        /\ rows[id] = [from |-> rows[id].from, to |-> rows[id].to, price |-> rows[id].price]
        /\ rows[id].from \in 1..Days /\ rows[id].to \in 0..(Days + 1) /\ rows[id].price \in Nat
  BY DEF PricesInv, Lists!Row, Lists!Forever
<1>7. \A id \in picked :
        /\ Lists!Repriced(id, c) = [from |-> rows[id].from, to |-> rows[id].to, price |-> rows[id].price + c.by]
        /\ rows[id].price + c.by \in Nat
  <2> SUFFICES ASSUME NEW id \in picked
               PROVE  /\ Lists!Repriced(id, c) = [from |-> rows[id].from, to |-> rows[id].to, price |-> rows[id].price + c.by]
                      /\ rows[id].price + c.by \in Nat
    OBVIOUS
  <2>1. Lists!Repriced(id, c) = [from |-> rows[id].from, to |-> rows[id].to, price |-> rows[id].price + c.by]
    BY <1>4, <1>6 DEF Lists!Repriced
  <2>2. Lists!Repriced(id, c).price \in 0..MaxPrice
    BY <1>5
  <2> QED BY <1>4, <1>6, <2>1, <2>2, PriceConstants
<1>8. \A e \in ended : /\ rows[e].from < start /\ start <= rows[e].to
                       /\ Lists!Covers(e, start)
  BY <1>1, <1>2, <1>3, <1>4, <1>6 DEF Lists!Ends, Lists!Current, Lists!Covers
<1>9. \A e, f \in ended : e = f
  BY <1>4, <1>8 DEF PricesInv, OneRowADay
<1>10. \A e \in ended : Lists!Inserted(c, e) = <<c, rows[e].from>> /\ Lists!Inserted(c, e) \notin DOMAIN rows
  <2> SUFFICES ASSUME NEW e \in ended, <<c, rows[e].from>> \in DOMAIN rows PROVE FALSE
    BY DEF Lists!Inserted
  <2>1. rows[e].from # 0
    BY <1>4, <1>6
  <2>2. <<c, rows[e].from>> # Lists!First
    BY <2>1 DEF Lists!First
  <2>3. PICK x \in made : \E n \in Nat \ {0} : <<c, rows[e].from>> = <<x, n>>
    BY <2>2 DEF PricesInv
  <2> QED BY <1>4, <2>3
<1>11. DOMAIN asked' \subseteq Change \ made' /\ \A x \in DOMAIN asked' : asked'[x] \subseteq DOMAIN rows'
  BY <1>5 DEF PricesInv
<1>12. ASSUME ended = {} PROVE PricesInv'
  <2>1. DOMAIN rows' = DOMAIN rows
    BY <1>5, <1>12
  <2>2. \A id \in DOMAIN rows : rows'[id] = IF id \in picked THEN Lists!Repriced(id, c) ELSE rows[id]
    BY <1>5, <1>12
  <2>3. \A id \in DOMAIN rows :
          rows'[id].from = rows[id].from /\ rows'[id].to = rows[id].to /\ rows'[id] \in Lists!Row
    BY <1>6, <1>7, <2>2 DEF Lists!Row, Lists!Forever
  <2>4. OneRowADay'
    BY <2>1, <2>3 DEF PricesInv, OneRowADay, Lists!Covers
  <2> QED BY <1>5, <1>11, <2>1, <2>3, <2>4 DEF PricesInv
<1>13. ASSUME NEW e \in ended PROVE PricesInv'
  <2>1. PICK new : new = <<c, rows[e].from>>
    OBVIOUS
  <2>2. ended = {e} /\ {Lists!Inserted(c, f) : f \in ended} = {new} /\ new \notin DOMAIN rows
    <3>1. ended = {e}
      BY <1>9
    <3> QED BY <1>10, <2>1, <3>1
  <2>3. DOMAIN rows' = DOMAIN rows \cup {new}
    BY <1>5, <2>2
  <2>4. (CHOOSE f \in ended : new = Lists!Inserted(c, f)) = e
    BY <1>10, <2>1, <2>2
  <2>5. /\ rows'[e] = Lists!Ended(e, c) /\ rows'[new] = Lists!Successor(e, c)
        /\ \A id \in DOMAIN rows : id # e =>
             rows'[id] = IF id \in picked THEN Lists!Repriced(id, c) ELSE rows[id]
    <3>1. e \in DOMAIN rows
      BY <1>4
    <3>2. rows'[e] = Lists!Ended(e, c)
      BY <1>5, <3>1
    <3>3. rows'[new] = Lists!Successor(e, c)
      <4>1. new \notin ended /\ new \notin picked
        BY <1>4, <2>2
      <4>2. rows'[new] = Lists!Successor(CHOOSE f \in ended : new = Lists!Inserted(c, f), c)
        BY <1>5, <2>2, <4>1
      <4> QED BY <2>4, <4>2
    <3> QED BY <1>5, <2>2, <3>2, <3>3
  <2>6. /\ rows'[e] = [from |-> rows[e].from, to |-> start - 1, price |-> rows[e].price]
        /\ rows'[new] = [from |-> start, to |-> rows[e].to, price |-> rows[e].price + c.by]
    <3>1. e \in picked
      BY <1>4
    <3> QED BY <1>3, <1>4, <1>6, <1>7, <2>5, <3>1 DEF Lists!Ended, Lists!Successor
  <2>7. \A id \in DOMAIN rows : id # e => /\ rows'[id].from = rows[id].from /\ rows'[id].to = rows[id].to
                                          /\ rows'[id] \in Lists!Row
    BY <1>6, <1>7, <2>5 DEF Lists!Row, Lists!Forever
  <2>8. rows'[e] \in Lists!Row /\ rows'[new] \in Lists!Row
    BY <1>4, <1>6, <1>7, <2>6, PriceConstants DEF Lists!Row, Lists!Forever
  <2>9. \A id \in DOMAIN rows' :
          /\ rows'[id] \in Lists!Row
          /\ id = Lists!First \/ \E x \in made', n \in Nat \ {0} : id = <<x, n>>
    <3>1. rows[e].from \in Nat \ {0}
      BY <1>4, <1>6
    <3> QED BY <1>5, <2>1, <2>3, <2>7, <2>8, <3>1 DEF PricesInv
  <2>10. ASSUME NEW day \in 1..Days
         PROVE  \E id \in DOMAIN rows' :
                  Lists!Covers(id, day)' /\ \A j \in DOMAIN rows' : Lists!Covers(j, day)' => j = id
    <3>1. PICK id \in DOMAIN rows :
            Lists!Covers(id, day) /\ \A j \in DOMAIN rows : Lists!Covers(j, day) => j = id
      BY DEF PricesInv, OneRowADay
    <3>2. \A j \in DOMAIN rows : j # e => (Lists!Covers(j, day)' <=> Lists!Covers(j, day))
      BY <2>7 DEF Lists!Covers
    <3>3. Lists!Covers(e, day) <=> (Lists!Covers(e, day)' \/ Lists!Covers(new, day)')
      BY <1>4, <1>6, <1>8, <2>6 DEF Lists!Covers
    <3>4. ~ (Lists!Covers(e, day)' /\ Lists!Covers(new, day)')
      BY <1>4, <1>6, <1>8, <2>6 DEF Lists!Covers
    <3>5. e \in DOMAIN rows /\ new # e
      BY <1>4, <2>2
    <3>6. CASE id = e
      <4>1. \A j \in DOMAIN rows : j # e => ~ Lists!Covers(j, day)'
        BY <3>1, <3>2, <3>6
      <4>2. CASE Lists!Covers(e, day)'
        BY <2>3, <3>4, <3>5, <4>1, <4>2
      <4>3. CASE Lists!Covers(new, day)'
        BY <2>3, <3>4, <3>5, <4>1, <4>3
      <4> QED BY <3>1, <3>3, <3>6, <4>2, <4>3
    <3>7. CASE id # e
      <4>1. ~ Lists!Covers(e, day)' /\ ~ Lists!Covers(new, day)'
        BY <3>1, <3>3, <3>5, <3>7
      <4> QED BY <2>3, <3>1, <3>2, <3>7, <4>1
    <3> QED BY <3>6, <3>7
  <2>11. OneRowADay'
    BY <2>10 DEF OneRowADay
  <2> QED BY <1>11, <2>9, <2>11 DEF PricesInv
<1>14. ASSUME NEW id \in DOMAIN rows, NEW day \in 1..(start - 1)
       PROVE  /\ Lists!Covers(id, day)' <=> Lists!Covers(id, day)
              /\ Lists!Covers(id, day) => rows'[id].price = rows[id].price
  <2>1. day \in Int /\ day <= start - 1
    BY <1>4
  <2>2. CASE id \in ended
    <3>1. rows'[id] = [from |-> rows[id].from, to |-> start - 1, price |-> rows[id].price]
      BY <1>3, <1>5, <1>6, <2>2 DEF Lists!Ended
    <3> QED BY <1>4, <1>6, <1>8, <2>1, <2>2, <3>1 DEF Lists!Covers
  <2>3. CASE id \in picked \ ended
    <3>1. ~ (rows[id].from < start)
      BY <1>2, <1>3, <2>3 DEF Lists!Ends
    <3>2. rows'[id].from = rows[id].from
      BY <1>5, <1>7, <2>3
    <3> QED BY <1>4, <1>6, <2>1, <3>1, <3>2 DEF Lists!Covers
  <2>4. CASE id \notin picked
    <3>1. rows'[id] = rows[id]
      BY <1>4, <1>5, <2>4
    <3> QED BY <3>1 DEF Lists!Covers
  <2> QED BY <2>2, <2>3, <2>4
<1>15. ASSUME NEW id \in DOMAIN rows', id \notin DOMAIN rows, NEW day \in 1..(start - 1)
       PROVE  ~ Lists!Covers(id, day)'
  <2>1. PICK e \in ended : e = CHOOSE f \in ended : id = Lists!Inserted(c, f)
    <3>1. \E f \in ended : id = Lists!Inserted(c, f)
      BY <1>5, <1>15
    <3> QED BY <3>1
  <2>2. rows'[id] = Lists!Successor(e, c)
    BY <1>4, <1>5, <1>15, <2>1
  <2>3. rows'[id].from = start
    BY <1>3, <1>4, <1>7, <2>2 DEF Lists!Successor
  <2> QED BY <1>4, <2>3 DEF Lists!Covers
<1>16. PastKept(c)
  <2> SUFFICES ASSUME NEW day \in 1..(start - 1)
               PROVE  Lists!PriceOn(rows', day) = Lists!PriceOn(rows, day)
    BY <1>3 DEF PastKept
  <2> DEFINE Old(id) == rows[id].from <= day /\ day <= rows[id].to
             New(id) == rows'[id].from <= day /\ day <= rows'[id].to
  <2>1. DOMAIN rows \subseteq DOMAIN rows'
    BY <1>5
  <2>2. \A id \in DOMAIN rows' : New(id) => id \in DOMAIN rows
    BY <1>15 DEF Lists!Covers
  <2>3. \A id \in DOMAIN rows : (New(id) <=> Old(id)) /\ (Old(id) => rows'[id].price = rows[id].price)
    BY <1>14 DEF Lists!Covers
  <2>4. /\ Lists!PriceOn(rows', day) = {rows'[id].price : id \in {i \in DOMAIN rows' : New(i)}}
        /\ Lists!PriceOn(rows, day) = {rows[id].price : id \in {i \in DOMAIN rows : Old(i)}}
    BY DEF Lists!PriceOn
  <2> HIDE DEF Old, New
  <2> QED BY ONLY <2>1, <2>2, <2>3, <2>4
<1>17. PricesInv'
  BY <1>12, <1>13
<1> QED BY <1>5, <1>16, <1>17

LEMMA HistoryStep ==
  ASSUME PricesInv, [Lists!Next]_priceVars, NEW c \in made' \ made
  PROVE  PastKept(c)
<1>1. CASE UNCHANGED priceVars
  BY <1>1 DEF priceVars
<1>2. ASSUME NEW x \in Change, Lists!Begin(x) \/ Lists!Forget(x) PROVE FALSE
  BY <1>2 DEF Lists!Begin, Lists!Forget
<1>3. ASSUME NEW x \in Change, Lists!Apply(x) PROVE PastKept(c)
  BY <1>3, ApplyKeeps
<1> QED BY <1>1, <1>2, <1>3 DEF Lists!Next

LEMMA PricesStep == PricesInv /\ [Lists!Next]_priceVars => PricesInv'
<1> SUFFICES ASSUME PricesInv, [Lists!Next]_priceVars PROVE PricesInv'
  OBVIOUS
<1>1. CASE UNCHANGED priceVars
  BY <1>1 DEF priceVars, PricesInv, OneRowADay, Lists!Covers
<1>2. CASE Lists!Next
  BY <1>2, AskKeeps, ApplyKeeps DEF Lists!Next
<1> QED BY <1>1, <1>2

-----------------------------------------------------------------------------
(* Values and costs.  A quotient rounded to the nearest integer is off by  *)
(* half a unit at most, so a rounded average is off by half a unit for     *)
(* each unit on hand.                                                      *)
LEMMA RoundedIsNear ==
  ASSUME NEW n \in Nat, NEW d \in Nat \ {0}
  PROVE  LET a == Costs!M!RoundHalfEven(n, d) IN
         a \in Nat /\ 2 * (a * d - n) <= d /\ 2 * (n - a * d) <= d
<1>1. PICK q : q = n \div d
  OBVIOUS
<1>2. PICK r : r = n % d
  OBVIOUS
<1>3. q \in Nat /\ r \in Nat /\ r < d /\ n = q * d + r
  <2>1. n = d * (n \div d) + (n % d) /\ n \div d \in Int /\ n % d \in 0..(d - 1)
    BY SMT
  <2>2. n \div d >= 0
    BY SMT
  <2> QED BY <1>1, <1>2, <2>1, <2>2
<1>4. Costs!M!RoundHalfEven(n, d) = IF 2 * r < d \/ (2 * r = d /\ q % 2 = 0) THEN q ELSE q + 1
  BY <1>1, <1>2 DEF Costs!M!RoundHalfEven
<1>5. CASE 2 * r < d \/ (2 * r = d /\ q % 2 = 0)
  <2>1. 2 * (q * d - n) <= d /\ 2 * (n - q * d) <= d
    BY ONLY <1>3, <1>5, d \in Nat \ {0}, n \in Nat
  <2> QED BY ONLY <1>3, <1>4, <1>5, <2>1
<1>6. CASE ~ (2 * r < d \/ (2 * r = d /\ q % 2 = 0))
  <2>1. 2 * r >= d
    BY ONLY <1>3, <1>6, d \in Nat \ {0}
  <2>2. (q + 1) * d = q * d + d
    BY ONLY <1>3, d \in Nat \ {0}
  <2>3. 2 * ((q + 1) * d - n) <= d /\ 2 * (n - (q + 1) * d) <= d
    BY ONLY <1>3, <2>1, <2>2, d \in Nat \ {0}, n \in Nat
  <2> QED BY ONLY <1>3, <1>4, <1>6, <2>3
<1> QED BY <1>5, <1>6

(* |m - n| <= b, in two parts.                                             *)
Near(m, n, b) == m - n <= b /\ n - m <= b

CostsInv ==
  /\ qty \in Nat /\ average \in Nat /\ (qty = 0 => value = 0)
  /\ Method = "average" =>
       /\ value \in Int /\ account \in Int /\ rounded \in Nat /\ lost \in Nat
       /\ Near(2 * value, 2 * (qty * average), rounded)
       /\ Near(2 * value, 2 * account, lost)

LEMMA CostsFollow == CostsInv => Costs!ValuationTypeOK /\ Costs!DriftIsRounding /\ Costs!DriftIsWrittenOff
<1> SUFFICES ASSUME CostsInv PROVE Costs!ValuationTypeOK /\ Costs!DriftIsRounding /\ Costs!DriftIsWrittenOff
  OBVIOUS
<1>1. Costs!ValuationTypeOK
  BY DEF CostsInv, Costs!ValuationTypeOK
<1>2. ASSUME Method = "average" PROVE Costs!DriftIsRounding /\ Costs!DriftIsWrittenOff
  <2>1. PICK worth : worth = qty * average
    OBVIOUS
  <2>2. worth \in Nat
    BY <2>1 DEF CostsInv
  <2>3. /\ value \in Int /\ account \in Int /\ rounded \in Nat /\ lost \in Nat
        /\ Near(2 * value, 2 * worth, rounded) /\ Near(2 * value, 2 * account, lost)
    BY <1>2, <2>1 DEF CostsInv
  <2>4. 2 * Costs!M!Magnitude(value - worth) <= rounded
    BY ONLY <2>2, <2>3 DEF Near, Costs!M!Magnitude
  <2>5. 2 * Costs!M!Magnitude(value - account) <= lost
    BY ONLY <2>2, <2>3 DEF Near, Costs!M!Magnitude
  <2> QED BY <2>1, <2>4, <2>5 DEF Costs!DriftIsRounding, Costs!DriftIsWrittenOff, Costs!Drift
<1>3. ASSUME Method # "average" PROVE Costs!DriftIsRounding /\ Costs!DriftIsWrittenOff
  BY <1>3 DEF Costs!DriftIsRounding, Costs!DriftIsWrittenOff
<1> QED BY <1>1, <1>2, <1>3

LEMMA CostsBegin == Costs!Init => CostsInv
BY DEF Costs!Init, CostsInv, Near

LEMMA MovementConstants ==
  Quantity \subseteq Nat \ {0} /\ Cost \subseteq Nat /\ Standard \in Nat
BY CostsConstants DEF Costs!ValuationConstantsOK

(* A receipt moves the worth of the bin by its cost, and the average by    *)
(* what rounding it moves.                                                 *)
LEMMA ReceiveKeeps ==
  ASSUME CostsInv, NEW q \in Quantity, NEW c \in Cost, Costs!Receive(q, c) PROVE CostsInv'
<1>1. q \in Nat \ {0} /\ c \in Nat /\ Standard \in Nat
  BY MovementConstants
<1>2. qty \in Nat /\ average \in Nat
  BY DEF CostsInv
<1>3. PICK n : n = qty + q
  OBVIOUS
<1>4. PICK worth : worth = qty * average
  OBVIOUS
<1>5. PICK cost : cost = q * c
  OBVIOUS
<1>6. n \in Nat \ {0} /\ worth \in Nat /\ cost \in Nat
  BY <1>1, <1>2, <1>3, <1>4, <1>5
<1>7. /\ qty' = n /\ average' = Costs!NewAverage(q, c) /\ value' = value + cost
      /\ account' = account + cost /\ rounded' = (rounded + qty) + q /\ lost' = lost
  <2>1. Costs!ValueAfter(n, cost) = value + cost
    BY <1>6 DEF Costs!ValueAfter
  <2>2. /\ qty' = qty + q /\ average' = Costs!NewAverage(q, c) /\ value' = Costs!ValueAfter(qty + q, q * c)
        /\ account' = Costs!Posted(q * c, TRUE) /\ rounded' = rounded + qty + q /\ lost' = lost
    BY Zenon DEF Costs!Receive
  <2>3. account' = account + cost
    BY <1>5, <2>2, Zenon DEF Costs!Posted
  <2>4. value' = value + cost /\ qty' = n
    BY <1>3, <1>5, <2>1, <2>2, Zenon
  <2> QED BY <1>1, <1>2, <1>3, <2>2, <2>3, <2>4
<1>8. average' \in Nat /\ (Method = "average" => Near(2 * (worth + cost), 2 * (n * average'), n))
  <2>1. CASE Method = "standard"
    BY <1>1, <1>7, <2>1 DEF Costs!NewAverage
  <2>2. CASE Method # "standard"
    <3>1. average' = Costs!M!RoundHalfEven(worth + cost, n)
      BY <1>1, <1>2, <1>3, <1>4, <1>5, <1>6, <1>7, <2>2 DEF Costs!NewAverage
    <3>2. /\ average' \in Nat /\ 2 * (average' * n - (worth + cost)) <= n
          /\ 2 * ((worth + cost) - average' * n) <= n
      <4>1. worth + cost \in Nat
        BY <1>6
      <4> QED BY <1>6, <3>1, <4>1, RoundedIsNear
    <3>3. PICK mean : mean = average'
      OBVIOUS
    <3>4. mean \in Nat /\ 2 * (mean * n - (worth + cost)) <= n /\ 2 * ((worth + cost) - mean * n) <= n
      BY <3>2, <3>3
    <3>5. PICK w : w = n * mean
      OBVIOUS
    <3>6. w \in Nat /\ mean * n = w
      <4>1. w = n * mean /\ mean \in Nat /\ n \in Nat
        BY <1>6, <3>4, <3>5
      <4> QED BY ONLY <4>1
    <3>7. Near(2 * (worth + cost), 2 * w, n)
      BY ONLY <1>6, <3>4, <3>6 DEF Near
    <3> QED BY <3>2, <3>3, <3>5, <3>7
  <2> QED BY <2>1, <2>2
<1>9. ASSUME Method = "average"
      PROVE  /\ value' \in Int /\ account' \in Int /\ rounded' \in Nat /\ lost' \in Nat
             /\ Near(2 * value', 2 * (qty' * average'), rounded')
             /\ Near(2 * value', 2 * account', lost')
  <2>1. /\ value \in Int /\ account \in Int /\ rounded \in Nat /\ lost \in Nat
        /\ Near(2 * value, 2 * worth, rounded) /\ Near(2 * value, 2 * account, lost)
    BY <1>4, <1>9 DEF CostsInv
  <2>2. PICK w : w = n * average'
    OBVIOUS
  <2>3. w \in Nat /\ Near(2 * (worth + cost), 2 * w, n)
    <3>1. PICK mean : mean = average'
      OBVIOUS
    <3>2. mean \in Nat /\ w = n * mean /\ Near(2 * (worth + cost), 2 * (n * mean), n)
      BY <1>8, <1>9, <2>2, <3>1
    <3> QED BY ONLY <1>6, <3>2
  <2>4. Near(2 * (value + cost), 2 * w, rounded + n) /\ Near(2 * (value + cost), 2 * (account + cost), lost)
    BY ONLY <1>6, <2>1, <2>3 DEF Near
  <2>5. /\ value + cost \in Int /\ account + cost \in Int /\ rounded + n \in Nat
    BY ONLY <1>6, <2>1
  <2>6. rounded' = rounded + n
    BY <1>1, <1>2, <1>3, <1>7, <2>1
  <2> QED BY <1>7, <2>1, <2>2, <2>4, <2>5, <2>6
<1> QED BY <1>6, <1>7, <1>8, <1>9 DEF CostsInv

(* An issue takes its quantity at the average; what rounding moved is lost *)
(* when it empties the bin.                                                *)
LEMMA IssueKeeps ==
  ASSUME CostsInv, NEW q \in Quantity, Costs!Issue(q) PROVE CostsInv'
<1>1. q \in Nat \ {0} /\ qty \in Nat /\ average \in Nat /\ q <= qty
  BY MovementConstants DEF CostsInv, Costs!Issue
<1>2. PICK n : n = qty - q
  OBVIOUS
<1>3. n \in Nat /\ qty' = n /\ average' = average
  BY <1>1, <1>2 DEF Costs!Issue
<1>4. PICK cost : cost = Costs!OutCost(q)
  OBVIOUS
<1>5. /\ value' = IF n = 0 THEN 0 ELSE value + (-cost)
      /\ account' = account - cost
  BY <1>2, <1>4 DEF Costs!Issue, Costs!ValueAfter, Costs!Posted
<1>6. /\ n = 0 => rounded' = 0 /\ lost' = lost + rounded
      /\ n # 0 => rounded' = rounded /\ lost' = lost
  <2>1. n = 0 <=> qty = q
    BY <1>1, <1>2
  <2> QED BY <2>1 DEF Costs!Issue
<1>7. ASSUME Method = "average"
      PROVE  /\ value' \in Int /\ account' \in Int /\ rounded' \in Nat /\ lost' \in Nat
             /\ Near(2 * value', 2 * (qty' * average'), rounded')
             /\ Near(2 * value', 2 * account', lost')
  <2>1. PICK worth : worth = qty * average
    OBVIOUS
  <2>2. /\ value \in Int /\ account \in Int /\ rounded \in Nat /\ lost \in Nat
        /\ Near(2 * value, 2 * worth, rounded) /\ Near(2 * value, 2 * account, lost)
    BY <1>7, <2>1 DEF CostsInv
  <2>3. cost = q * average
    BY <1>4, <1>7 DEF Costs!OutCost
  <2>4. cost \in Nat /\ worth \in Nat /\ n * average = worth - cost
    BY <1>1, <1>2, <2>1, <2>3
  <2>5. PICK w : w = n * average
    OBVIOUS
  <2>6. w \in Int /\ w = worth - cost
    BY <2>4, <2>5
  <2>7. CASE n = 0
    <3>1. w = 0
      BY <1>1, <2>5, <2>7
    <3>2. value' = 0 /\ account' = account - cost /\ rounded' = 0 /\ lost' = lost + rounded
      BY <1>5, <1>6, <2>7
    <3>3. Near(0, 2 * w, 0) /\ Near(0, 2 * (account - cost), lost + rounded)
      BY ONLY <2>2, <2>4, <2>6, <3>1 DEF Near
    <3>4. account - cost \in Int /\ lost + rounded \in Nat
      BY ONLY <2>2, <2>4
    <3> QED BY <1>3, <2>5, <3>2, <3>3, <3>4
  <2>8. CASE n # 0
    <3>1. value' = value - cost /\ account' = account - cost /\ rounded' = rounded /\ lost' = lost
      BY <1>5, <1>6, <2>2, <2>4, <2>8
    <3>2. Near(2 * (value - cost), 2 * w, rounded) /\ Near(2 * (value - cost), 2 * (account - cost), lost)
      BY ONLY <2>2, <2>4, <2>6 DEF Near
    <3>3. value - cost \in Int /\ account - cost \in Int
      BY ONLY <2>2, <2>4
    <3> QED BY <1>3, <2>2, <2>5, <3>1, <3>2, <3>3
  <2> QED BY <2>7, <2>8
<1>8. qty' = 0 => value' = 0
  BY <1>3, <1>5
<1> QED BY <1>1, <1>3, <1>7, <1>8 DEF CostsInv

LEMMA CostsStep == CostsInv /\ [Costs!Next]_costVars => CostsInv'
<1> SUFFICES ASSUME CostsInv, [Costs!Next]_costVars PROVE CostsInv'
  OBVIOUS
<1>1. CASE UNCHANGED costVars
  BY <1>1 DEF costVars, CostsInv
<1>2. CASE \E q \in Quantity : Costs!Issue(q)
  BY <1>2, IssueKeeps
<1>3. CASE \E q \in Quantity, c \in Cost : Costs!Receive(q, c)
  BY <1>3, ReceiveKeeps
<1> QED BY <1>1, <1>2, <1>3 DEF Costs!Next

-----------------------------------------------------------------------------
(* Atomicity.  What a worker has moved of a bin is what the lines before   *)
(* the one it has reached say; an invoice has taken it from what was       *)
(* reserved first.                                                         *)
Before(d, n) == {i \in DOMAIN Lines[d] : i < n}

Drawing(w) ==
  /\ ws[w].next <= Len(Lines[ws[w].doc]) + 1
  /\ \A b \in Bin :
       /\ ws[w].delta[b] = Total(Promised!Moves(ws[w].doc, b), Before(ws[w].doc, ws[w].next))
       /\ lock[b] = w =>
            ws[w].view[b].reserved =
              IF ws[w].doc \in Invoice THEN Positive(level[b].reserved + ws[w].delta[b])
              ELSE level[b].reserved
       /\ ws[w].doc \in Invoice => ws[w].delta[b] <= 0
       /\ ws[w].doc \in Invoice /\ lock[b] # w => ws[w].delta[b] = 0

DrawnInv == \A w \in Clerk : ws[w].at = "lines" => Drawing(w)

LEMMA ChangeIsTotal ==
  ASSUME NEW d \in Doc, NEW b
  PROVE  Promised!Effect(d, b) = Total(Promised!Moves(d, b), DOMAIN Lines[d])
<1>1. DOMAIN Promised!Moves(d, b) = DOMAIN Lines[d]
  BY DEF Promised!Moves
<1> QED BY <1>1 DEF Promised!Effect, Promised!SumFunction, Promised!SumFunctionOnSet, Promised!FoldFunctionOnSet,
                   Promised!MapThenFoldSet, Total, IsSum, Partial, Pick

LEMMA MovesTyped ==
  ASSUME NEW d \in Doc, NEW b \in Bin
  PROVE  /\ \A i \in DOMAIN Lines[d] : Promised!Moves(d, b)[i] \in Int
         /\ \A i \in DOMAIN Lines[d] :
              Promised!Moves(d, b)[i] = IF Lines[d][i].bin = b THEN Lines[d][i].delta ELSE 0
         /\ IsFiniteSet(DOMAIN Lines[d])
<1>1. \A i \in DOMAIN Lines[d] : Lines[d][i].delta \in Int
  BY LineTyped
<1>2. DOMAIN Lines[d] = 1..Len(Lines[d]) /\ Len(Lines[d]) \in Nat
  <2>1. Lines[d] \in Seq([bin : Bin, delta : Int])
    BY Constants
  <2> QED BY <2>1
<1>3. IsFiniteSet(1..Len(Lines[d]))
  BY <1>2, FS_Interval
<1> QED BY <1>1, <1>2, <1>3 DEF Promised!Moves

(* One line more.                                                          *)
LEMMA NextLine ==
  ASSUME NEW d \in Doc, NEW b \in Bin, NEW n \in DOMAIN Lines[d]
  PROVE  Total(Promised!Moves(d, b), Before(d, n + 1))
           = Total(Promised!Moves(d, b), Before(d, n)) + (IF Lines[d][n].bin = b THEN Lines[d][n].delta ELSE 0)
<1>1. /\ \A i \in DOMAIN Lines[d] : i \in Nat
      /\ n \in Nat
  BY LineTyped
<1>2. PICK f : f = Promised!Moves(d, b)
  OBVIOUS
<1>3. /\ \A i \in DOMAIN Lines[d] : f[i] \in Int
      /\ f[n] = IF Lines[d][n].bin = b THEN Lines[d][n].delta ELSE 0
      /\ IsFiniteSet(DOMAIN Lines[d])
  BY <1>2, MovesTyped
<1>4. PICK S : S = Before(d, n)
  OBVIOUS
<1>5. Before(d, n + 1) = S \cup {n} /\ n \notin S /\ S \subseteq DOMAIN Lines[d]
  BY <1>1, <1>4 DEF Before
<1>6. IsFiniteSet(S) /\ \A i \in S \cup {n} : f[i] \in Int
  BY <1>3, <1>5, FS_Subset
<1>7. Total(f, S \cup {n}) = Total(f, S) + f[n]
  BY <1>5, <1>6, TotalAdd
<1> QED BY <1>2, <1>3, <1>4, <1>5, <1>7

LEMMA DrawingKept ==
  ASSUME DrawnInv, NEW v \in Clerk, Undisturbed(v)
  PROVE  ws'[v].at = "lines" => Drawing(v)'
BY DEF DrawnInv, Undisturbed, Drawing

LEMMA BeginDraws ==
  ASSUME Inv, NEW w \in Clerk, NEW d \in Doc, Begin(w, d)
  PROVE  Drawing(w)'
<1>1. ws \in [Clerk -> Work] /\ lock \in [Bin \cup Doc -> Clerk \cup {Nobody}] /\ Bin \cap Doc = {}
  BY Constants DEF Inv, Typed
<1>2. /\ ws'[w].doc = d /\ ws'[w].next = 1 /\ \A b \in Bin : ws'[w].delta[b] = 0
  BY <1>1 DEF Begin, Idle
<1>3. \A b \in Bin : lock'[b] # w
  BY <1>1 DEF Begin, Still, Inv, OwnsRows
<1>4. Before(d, 1) = {} /\ 1 <= Len(Lines[d]) + 1
  <2>1. Lines[d] \in Seq([bin : Bin, delta : Int])
    BY Constants
  <2> QED BY <2>1 DEF Before
<1>5. ASSUME NEW b \in Bin PROVE Total(Promised!Moves(d, b), {}) = 0
  <2>1. PICK f : f = Promised!Moves(d, b)
    OBVIOUS
  <2>2. Total(f, {}) = 0
    BY FS_EmptySet, TotalRecurses
  <2> QED BY <2>1, <2>2
<1>6. \A b \in Bin : ws'[w].delta[b] = Total(Promised!Moves(d, b), Before(d, 1))
  BY <1>2, <1>4, <1>5
<1> QED BY <1>2, <1>3, <1>4, <1>6 DEF Drawing

LEMMA SkipDraws ==
  ASSUME Inv, DocInv, DrawnInv, NEW w \in Clerk, SkipLine(w)
  PROVE  Drawing(w)'
<1> DEFINE d == ws[w].doc
           n == ws[w].next
<1>1. /\ ws[w] \in Work /\ ws \in [Clerk -> Work] /\ ws[w].at = "lines"
      /\ d \in Doc /\ n \in DOMAIN Lines[d]
  BY LineOfWork DEF SkipLine, Lacks, Inv, Typed
<1>2. /\ ws'[w].doc = d /\ ws'[w].next = n + 1 /\ ws'[w].delta = ws[w].delta /\ ws'[w].view = ws[w].view
      /\ level' = level /\ lock' = lock
  BY <1>1 DEF SkipLine, Work
<1>3. Drawing(w) /\ Processing(w)
  BY <1>1 DEF DrawnInv, DocInv
<1>4. n \in Nat /\ n <= Len(Lines[d])
  BY <1>1, LineTyped
<1>5. Lines[d][n].delta = 0
  BY <1>1, <1>3, <1>4 DEF SkipLine, Settled, Line, Processing
<1>6. ASSUME NEW b \in Bin
      PROVE  ws[w].delta[b] = Total(Promised!Moves(d, b), Before(d, n + 1))
  <2>1. ws[w].delta[b] = Total(Promised!Moves(d, b), Before(d, n)) /\ ws[w].delta[b] \in Int
    BY <1>1, <1>3 DEF Drawing, Work
  <2>2. Total(Promised!Moves(d, b), Before(d, n + 1)) = Total(Promised!Moves(d, b), Before(d, n)) + 0
    BY <1>1, <1>5, NextLine
  <2> QED BY <2>1, <2>2
<1>7. n + 1 <= Len(Lines[d]) + 1
  BY <1>1, <1>4, LineTyped
<1> HIDE DEF d, n
<1>8. Drawing(w)' <=> /\ n + 1 <= Len(Lines[d]) + 1
                      /\ \A b \in Bin :
                           /\ ws[w].delta[b] = Total(Promised!Moves(d, b), Before(d, n + 1))
                           /\ lock[b] = w =>
                                ws[w].view[b].reserved =
                                  IF d \in Invoice THEN Positive(level[b].reserved + ws[w].delta[b])
                                  ELSE level[b].reserved
                           /\ d \in Invoice => ws[w].delta[b] <= 0
                           /\ d \in Invoice /\ lock[b] # w => ws[w].delta[b] = 0
  BY <1>2 DEF Drawing
<1> QED BY <1>3, <1>6, <1>7, <1>8 DEF Drawing, d, n

LEMMA ShiftDraws ==
  ASSUME Inv, DrawnInv, NEW w \in Clerk, ShiftLine(w)
  PROVE  Drawing(w)'
<1>1. PICK d : d = ws[w].doc
  OBVIOUS
<1>2. PICK n : n = ws[w].next
  OBVIOUS
<1>3. PICK l : l = Lines[d][n]
  OBVIOUS
<1>4. /\ ws[w] \in Work /\ ws \in [Clerk -> Work] /\ ws[w].at = "lines" /\ level \in [Bin -> LevelRow]
      /\ d \in Doc /\ n \in DOMAIN Lines[d] /\ l.bin \in Bin /\ l.delta \in Int /\ Line(w) = l
      /\ lock \in [Bin \cup Doc -> Clerk \cup {Nobody}]
  BY <1>1, <1>2, <1>3, LineOfWork DEF ShiftLine, Lacks, Inv, Typed, Line
<1>5. PICK b : b = l.bin
  OBVIOUS
<1>6. PICK row : row = IF Holds(w, b) THEN ws[w].view[b] ELSE level[b]
  OBVIOUS
<1>7. PICK new : new = Shifted(row, l.delta, d \in Invoice)
  OBVIOUS
<1>8. /\ ws'[w].doc = d /\ ws'[w].next = n + 1
      /\ ws'[w].delta = [ws[w].delta EXCEPT ![b] = @ + l.delta]
      /\ ws'[w].view = [ws[w].view EXCEPT ![b] = new]
      /\ level' = level /\ lock' = [lock EXCEPT ![b] = w]
  BY <1>1, <1>2, <1>4, <1>5, <1>6, <1>7 DEF ShiftLine, Work
<1>9. Drawing(w)
  BY <1>4 DEF DrawnInv
<1>10. n \in Nat /\ n + 1 <= Len(Lines[d]) + 1
  BY <1>4, LineTyped
<1>11. ASSUME NEW c \in Bin
       PROVE  /\ ws[w].delta[c] \in Int /\ ws[w].view[c] \in LevelRow /\ level[c] \in LevelRow
              /\ ws[w].delta[c] = Total(Promised!Moves(d, c), Before(d, n))
              /\ lock[c] = w =>
                   ws[w].view[c].reserved =
                     IF d \in Invoice THEN Positive(level[c].reserved + ws[w].delta[c])
                     ELSE level[c].reserved
              /\ d \in Invoice => ws[w].delta[c] <= 0
              /\ d \in Invoice /\ lock[c] # w => ws[w].delta[c] = 0
  BY <1>1, <1>2, <1>4, <1>9 DEF Drawing, Work
<1>12. d \in Invoice => l.delta < 0
  BY <1>3, <1>4, Constants
<1>13. ASSUME NEW c \in Bin
       PROVE  /\ ws'[w].delta[c] = Total(Promised!Moves(d, c), Before(d, n + 1))
              /\ lock'[c] = w =>
                   ws'[w].view[c].reserved =
                     IF d \in Invoice THEN Positive(level[c].reserved + ws'[w].delta[c])
                     ELSE level[c].reserved
              /\ d \in Invoice => ws'[w].delta[c] <= 0
              /\ d \in Invoice /\ lock'[c] # w => ws'[w].delta[c] = 0
  <2>1. Total(Promised!Moves(d, c), Before(d, n + 1))
          = Total(Promised!Moves(d, c), Before(d, n)) + (IF l.bin = c THEN l.delta ELSE 0)
    BY <1>3, <1>4, NextLine
  <2>2. CASE c = b
    <3>1. ws'[w].delta[c] = ws[w].delta[c] + l.delta /\ ws'[w].view[c] = new /\ lock'[c] = w
      BY <1>4, <1>5, <1>8, <2>2 DEF Work
    <3>2. ws'[w].delta[c] = Total(Promised!Moves(d, c), Before(d, n + 1))
      BY <1>5, <1>11, <2>1, <2>2, <3>1
    <3>3. row.reserved = IF d \in Invoice THEN Positive(level[c].reserved + ws[w].delta[c])
                         ELSE level[c].reserved
      <4>1. CASE lock[b] = w
        BY <1>6, <1>11, <2>2, <4>1 DEF Holds
      <4>2. CASE lock[b] # w
        <5>1. row = level[c]
          BY <1>6, <2>2, <4>2 DEF Holds
        <5>2. d \in Invoice => ws[w].delta[c] = 0
          BY <1>11, <2>2, <4>2
        <5> QED BY <1>11, <5>1, <5>2 DEF LevelRow, Positive
      <4> QED BY <4>1, <4>2
    <3>4. new.reserved = IF d \in Invoice THEN Positive(row.reserved + l.delta) ELSE row.reserved
      BY <1>7, <1>12 DEF Shifted
    <3>5. level[c].reserved \in Nat /\ ws[w].delta[c] \in Int /\ l.delta \in Int
      BY <1>4, <1>11 DEF LevelRow
    <3>6. d \in Invoice => /\ new.reserved = Positive(level[c].reserved + (ws[w].delta[c] + l.delta))
                           /\ ws[w].delta[c] + l.delta <= 0
      <4>1. d \in Invoice => ws[w].delta[c] <= 0
        BY <1>11
      <4> QED BY <1>12, <3>3, <3>4, <3>5, <4>1 DEF Positive
    <3> QED BY <3>1, <3>2, <3>3, <3>4, <3>6
  <2>3. CASE c # b
    <3>1. ws'[w].delta[c] = ws[w].delta[c] /\ ws'[w].view[c] = ws[w].view[c] /\ lock'[c] = lock[c]
      BY <1>4, <1>5, <1>8, <2>3 DEF Work
    <3>2. Total(Promised!Moves(d, c), Before(d, n + 1)) = ws[w].delta[c] + 0
      BY <1>5, <1>11, <2>1, <2>3
    <3>3. Total(Promised!Moves(d, c), Before(d, n + 1)) = ws[w].delta[c]
      BY <1>11, <3>2
    <3> QED BY <1>11, <3>1, <3>3
  <2> QED BY <2>2, <2>3
<1>14. level'= level
  BY <1>8
<1> QED BY <1>8, <1>10, <1>13, <1>14 DEF Drawing

LEMMA ActDraws ==
  ASSUME Inv, DocInv, DrawnInv, NEW w \in Clerk, Acts(w)
  PROVE  DrawnInv'
<1>1. ws'[w].at = "lines" => Drawing(w)'
  <2>1. ws \in [Clerk -> Work]
    BY DEF Inv, Typed
  <2>2. ASSUME NEW d \in Doc, Begin(w, d) PROVE Drawing(w)'
    BY <2>2, BeginDraws
  <2>3. CASE SkipLine(w) \/ ShiftLine(w)
    BY <2>3, SkipDraws, ShiftDraws
  <2>4. ASSUME NEW a \in Adjustment, ReadHeader(w, a) PROVE ws'[w].at = "edit"
    BY <2>1, <2>4 DEF ReadHeader, Idle
  <2>5. CASE Abort(w) \/ SaveHeader(w) \/ Commit(w)
    <3>1. ws'[w].at = "idle"
      BY <2>1, <2>5, IdleTyped DEF Abort, SaveHeader, Commit
    <3> QED BY <3>1
  <2> QED BY <2>2, <2>3, <2>4, <2>5 DEF Acts
<1>2. ASSUME NEW v \in Clerk, v # w PROVE ws'[v].at = "lines" => Drawing(v)'
  BY <1>2, Others, DrawingKept
<1> QED BY <1>1, <1>2 DEF DrawnInv

LEMMA DrawnStep ==
  ASSUME Inv, DocInv, DrawnInv, ~Repair, [Next]_vars
  PROVE  DrawnInv'
<1>1. ASSUME ws' = ws, level' = level, lock' = lock PROVE DrawnInv'
  BY <1>1 DEF DrawnInv, Drawing
<1>2. CASE UNCHANGED vars
  BY <1>1, <1>2 DEF vars
<1>3. CASE Next
  <2>1. ASSUME NEW w \in Clerk, Acts(w) PROVE DrawnInv'
    BY <2>1, ActDraws
  <2>2. ASSUME NEW a \in Adjustment, Approve(a) PROVE DrawnInv'
    BY <1>1, <2>2 DEF Approve
  <2>3. ASSUME NEW b \in Bin, Reserve(b) \/ Release(b) \/ Acknowledge(b) \/ Compare(b)
        PROVE DrawnInv'
    <3>1. \A v \in Clerk : Undisturbed(v)
      BY <2>3, SingleUndisturbed
    <3> QED BY <3>1, DrawingKept DEF DrawnInv
  <2>4. CASE BeginCheck
    BY <1>1, <2>4 DEF BeginCheck
  <2> QED BY <1>3, <2>1, <2>2, <2>3, <2>4, NextCases DEF Acts
<1> QED BY <1>2, <1>3

LEMMA DrawnBegins == Init => DrawnInv
BY IdleTyped DEF Init, DrawnInv

(* What the promise of Shelf is about, before and after a step.            *)
OnHand   == [b \in Bin |-> level[b].on]
Reserved == [b \in Bin |-> level[b].reserved]
Done     == {d \in Doc : status[d] = "done"}

(* At COMMIT a document has moved all of its lines.                        *)
LEMMA CommitCompletes ==
  ASSUME Inv, LevelInv, DocInv, DrawnInv, NEW w \in Clerk, Commit(w)
  PROVE  \E d \in Invoice \cup Adjustment : Promised!Complete(d)
<1>1. PICK d : d = ws[w].doc
  OBVIOUS
<1>2. /\ ws[w] \in Work /\ ws[w].at = "lines" /\ d \in Doc /\ level \in [Bin -> LevelRow]
      /\ status \in [Doc -> Status]
  BY <1>1 DEF Commit, Inv, Typed, OwnsRows
<1>3. Drawing(w) /\ Processing(w) /\ Shifting(w)
  BY <1>2 DEF DrawnInv, DocInv, LevelInv
<1>4. Before(d, ws[w].next) = DOMAIN Lines[d]
  <2>1. ws[w].next > Len(Lines[d]) /\ ws[w].next \in Nat
    BY <1>1, <1>2 DEF Commit, Work
  <2>2. \A i \in DOMAIN Lines[d] : i < ws[w].next
    BY <1>2, <2>1, LineTyped
  <2> QED BY <2>2 DEF Before
<1>5. ASSUME NEW b \in Bin
      PROVE  /\ Promised!Effect(d, b) = ws[w].delta[b] /\ ws[w].delta[b] \in Int
             /\ level'[b].on = level[b].on + ws[w].delta[b]
             /\ level'[b].reserved =
                  IF d \in Invoice /\ ws[w].delta[b] < 0 THEN Positive(level[b].reserved + ws[w].delta[b])
                  ELSE level[b].reserved
  <2>1. ws[w].delta[b] \in Int /\ level[b].reserved \in Nat /\ level[b].on \in Int
    BY <1>2 DEF Work, LevelRow
  <2>2. ws[w].delta[b] = Total(Promised!Moves(d, b), DOMAIN Lines[d])
    BY <1>1, <1>3, <1>4 DEF Drawing
  <2>3. level'[b] = IF lock[b] = w THEN ws[w].view[b] ELSE level[b]
    BY DEF Commit, Holds
  <2>4. CASE lock[b] = w
    <3>1. level'[b].on = level[b].on + ws[w].delta[b]
      BY <1>3, <2>3, <2>4 DEF Shifting
    <3>2. /\ level'[b].reserved = IF d \in Invoice THEN Positive(level[b].reserved + ws[w].delta[b])
                                  ELSE level[b].reserved
          /\ d \in Invoice => ws[w].delta[b] <= 0
      BY <1>1, <1>3, <2>3, <2>4 DEF Drawing
    <3>3. ws[w].delta[b] = 0 => Positive(level[b].reserved + ws[w].delta[b]) = level[b].reserved
      BY <2>1 DEF Positive
    <3> QED BY <1>2, <2>1, <2>2, <3>1, <3>2, <3>3, ChangeIsTotal
  <2>5. CASE lock[b] # w
    <3>1. ws[w].delta[b] = 0 /\ level'[b] = level[b]
      BY <1>3, <2>3, <2>5 DEF Shifting
    <3> QED BY <1>2, <2>1, <2>2, <3>1, ChangeIsTotal
  <2> QED BY <2>4, <2>5
<1>6. /\ d \notin {e \in Doc : status[e] = "done"}
      /\ {e \in Doc : status'[e] = "done"} = {e \in Doc : status[e] = "done"} \cup {d}
  <2>1. status[d] # "done"
    BY <1>1, <1>3 DEF Processing, Ready
  <2>2. status' = [status EXCEPT ![d] = "done"]
    BY <1>1 DEF Commit
  <2> QED BY <1>2, <2>1, <2>2
<1>7. [b \in Bin |-> level'[b].on] = [b \in Bin |-> [x \in Bin |-> level[x].on][b] + Promised!Effect(d, b)]
  BY <1>5
<1>8. [b \in Bin |-> level'[b].reserved] =
        [b \in Bin |-> IF d \in Invoice /\ Promised!Effect(d, b) < 0
                       THEN Promised!NotNegative([x \in Bin |-> level[x].reserved][b] + Promised!Effect(d, b))
                       ELSE [x \in Bin |-> level[x].reserved][b]]
  BY <1>5 DEF Promised!NotNegative, Positive
<1>9. Promised!Complete(d)
  BY <1>6, <1>7, <1>8 DEF Promised!Complete
<1> QED BY <1>2, <1>9 DEF Doc

LEMMA PromisesFit ==
  LevelInv => \A b \in Bin \ Negative : Reserved[b] <= OnHand[b]
BY DEF LevelInv, Promising, Reserved, OnHand

(* Every other step of a worker shows nothing outside; what orders reserve *)
(* and release is one step there and here.                                 *)
LEMMA AtomStep ==
  ASSUME OneDesk, ~Repair, Inv, LevelInv, LevelInv', DocInv, DrawnInv, [Next]_vars
  PROVE  [Promised!Next]_<<OnHand, Reserved, Done>>
<1>1. level \in [Bin -> LevelRow] /\ status \in [Doc -> Status]
  BY DEF Inv, Typed
<1>2. ASSUME level' = level, Done' = Done PROVE UNCHANGED <<OnHand, Reserved, Done>>
  BY <1>2 DEF OnHand, Reserved
<1>3. \A b \in Bin \ Negative : Reserved'[b] <= OnHand'[b]
  BY DEF LevelInv, Promising, Reserved, OnHand
<1>4. CASE UNCHANGED vars
  <2>1. level' = level /\ Done' = Done
    BY <1>4 DEF vars, Done
  <2> QED BY <1>2, <2>1
<1>5. ASSUME NEW w \in Clerk, Acts(w) PROVE [Promised!Next]_<<OnHand, Reserved, Done>>
  <2>1. CASE Commit(w)
    <3>1. \E d \in Invoice \cup Adjustment : Promised!Complete(d)
      BY <2>1, CommitCompletes
    <3> QED BY <1>3, <3>1 DEF Promised!Next, OnHand, Reserved
  <2>2. CASE ~ Commit(w)
    <3>1. CASE SaveHeader(w)
      <4>1. ws[w].seen = status[ws[w].doc]
        BY <3>1 DEF SaveHeader, DocInv, Editing
      <4>2. status' = status /\ level' = level
        BY <1>1, <3>1, <4>1 DEF SaveHeader
      <4> QED BY <1>2, <4>2 DEF Done
    <3>2. CASE ~ SaveHeader(w)
      <4>1. status' = status /\ level' = level
        BY <1>5, <2>2, <3>2 DEF Acts, Begin, ReadHeader, SkipLine, ShiftLine, Abort
      <4> QED BY <1>2, <4>1 DEF Done
    <3> QED BY <3>1, <3>2
  <2> QED BY <2>1, <2>2
<1>6. ASSUME NEW a \in Adjustment, Approve(a) PROVE [Promised!Next]_<<OnHand, Reserved, Done>>
  <2>1. level' = level /\ status' = [status EXCEPT ![a] = "approved"] /\ status[a] = "draft"
    BY <1>6 DEF Approve
  <2>2. Done' = Done
    BY <1>1, <2>1 DEF Done
  <2> QED BY <1>2, <2>1, <2>2
<1>7. ASSUME NEW b \in Bin, Reserve(b) PROVE [Promised!Next]_<<OnHand, Reserved, Done>>
  <2>1. PICK n \in Amount : level' = [level EXCEPT ![b] = [level[b] EXCEPT !.reserved = @ + n]]
    BY <1>7 DEF Reserve
  <2>2. /\ [c \in Bin |-> level'[c].on] = [c \in Bin |-> level[c].on]
        /\ [c \in Bin |-> level'[c].reserved]
             = [[c \in Bin |-> level[c].reserved] EXCEPT ![b] = @ + n]
    BY <1>1, <2>1 DEF LevelRow
  <2>3. {d \in Doc : status'[d] = "done"} = {d \in Doc : status[d] = "done"}
    BY <1>7 DEF Reserve
  <2>4. Promised!Promise(b)
    BY <2>2, <2>3 DEF Promised!Promise
  <2> QED BY <1>3, <2>4 DEF Promised!Next, OnHand, Reserved
<1>8. ASSUME NEW b \in Bin, Release(b) PROVE [Promised!Next]_<<OnHand, Reserved, Done>>
  <2>1. PICK n \in Amount : level' = [level EXCEPT ![b].reserved = Positive(@ - n)]
    BY <1>8 DEF Release
  <2>2. /\ [c \in Bin |-> level'[c].on] = [c \in Bin |-> level[c].on]
        /\ [c \in Bin |-> level'[c].reserved]
             = [[c \in Bin |-> level[c].reserved] EXCEPT ![b] = Promised!NotNegative(@ - n)]
    BY <1>1, <2>1 DEF LevelRow, Promised!NotNegative, Positive
  <2>3. {d \in Doc : status'[d] = "done"} = {d \in Doc : status[d] = "done"}
    BY <1>8 DEF Release
  <2>4. Promised!Relieve(b)
    BY <2>2, <2>3 DEF Promised!Relieve
  <2> QED BY <1>3, <2>4 DEF Promised!Next, OnHand, Reserved
<1>9. ASSUME NEW b \in Bin, Acknowledge(b) \/ Compare(b) PROVE [Promised!Next]_<<OnHand, Reserved, Done>>
  <2>1. level' = level /\ status' = status
    BY <1>1, <1>9 DEF Acknowledge, Compare, LevelRow
  <2> QED BY <1>2, <2>1 DEF Done
<1>10. CASE BeginCheck
  BY <1>2, <1>10 DEF BeginCheck, Done
<1> QED BY <1>4, <1>5, <1>6, <1>7, <1>8, <1>9, <1>10, NextCases DEF Acts

LEMMA AtomBegins == Init => Promised!Init
<1> SUFFICES ASSUME Init PROVE Promised!Init
  OBVIOUS
<1>1. [b \in Bin |-> level[b].on] = Opening /\ [b \in Bin |-> level[b].reserved] = [b \in Bin |-> 0]
  BY Constants DEF Init
<1>2. {d \in Doc : status[d] = "done"} = {}
  BY DEF Init
<1> QED BY <1>1, <1>2 DEF Promised!Init

(* DocumentsAreAtomic (inventory/services/stock.py): where nobody edits an *)
(* adjustment others work on and the comparison only reports, the stock    *)
(* service implements Shelf: each document takes effect at once, once and  *)
(* with all its lines, and what is promised to orders stays on the shelf.  *)
THEOREM StockIsAtomic == OneDesk /\ ~Repair => (WarehouseSpec => DocumentsAreAtomic)
<1> SUFFICES ASSUME OneDesk, ~Repair PROVE WarehouseSpec => DocumentsAreAtomic
  OBVIOUS
<1> DEFINE Whole == Inv /\ LevelInv /\ DocInv /\ DrawnInv
<1>1. [WarehouseNext]_allVars => [Next]_vars
  BY DEF WarehouseNext, allVars, vars
<1>2. WarehouseInit => Whole /\ Promised!Init
  BY InitInv, LevelInit, DocInit, DrawnBegins, AtomBegins DEF WarehouseInit
<1>3. Whole /\ [WarehouseNext]_allVars => Whole'
  BY <1>1, StepInv, LevelStep, DocStep, DrawnStep
<1>4. Whole /\ Whole' /\ [WarehouseNext]_allVars => [Promised!Next]_<<OnHand, Reserved, Done>>
  BY <1>1, AtomStep
<1>5. [Promised!Next]_<<OnHand, Reserved, Done>>
        => [Promised!Next]_<<[b \in Bin |-> level[b].on], [b \in Bin |-> level[b].reserved],
                              {d \in Doc : status[d] = "done"}>>
  BY DEF OnHand, Reserved, Done
<1> HIDE DEF Whole
<1> QED BY <1>2, <1>3, <1>4, <1>5, PTL DEF WarehouseSpec, DocumentsAreAtomic, Promised!Spec

(* KnownAndPriced (inventory/services/stock.py): a bin at its reorder      *)
(* point has been reported, a day has one price, and the value of a bin    *)
(* drifts by rounding only, whatever documents, price changes and          *)
(* movements interleave, where the comparison of levels only reports.      *)
THEOREM StockIsKnownAndPriced == ~Repair => (WarehouseSpec => []KnownAndPriced)
<1> SUFFICES ASSUME ~Repair PROVE WarehouseSpec => []KnownAndPriced
  OBVIOUS
<1> DEFINE Known == Inv /\ KnownInv /\ PricesInv /\ CostsInv
<1>1. [WarehouseNext]_allVars => [Next]_vars /\ [Lists!Next]_priceVars /\ [Costs!Next]_costVars
  BY DEF WarehouseNext, allVars
<1>2. WarehouseInit => Known
  BY InitInv, KnownBegins, PricesBegin, CostsBegin DEF WarehouseInit
<1>3. Known /\ [WarehouseNext]_allVars => Known'
  BY <1>1, StepInv, KnownStep, PricesStep, CostsStep
<1>4. Known => KnownAndPriced
  BY PricesFollow, CostsFollow DEF KnownAndPriced, KnownInv
<1> HIDE DEF Known
<1> QED BY <1>2, <1>3, <1>4, PTL DEF WarehouseSpec

(* HistoryKept (bulk_adjust_prices): a bulk change of prices leaves the    *)
(* price of every day before it takes effect as it was.                    *)
THEOREM PricesOfThePastStand == WarehouseSpec => Lists!HistoryKept
<1> DEFINE Kept == \A c \in made' \ made : \A day \in 1..(c.from - 1) :
                     Lists!PriceOn(rows', day) = Lists!PriceOn(rows, day)
<1>1. WarehouseInit => PricesInv
  BY PricesBegin DEF WarehouseInit
<1>2. [WarehouseNext]_allVars => [Lists!Next]_priceVars
  BY DEF WarehouseNext, allVars
<1>3. PricesInv /\ [WarehouseNext]_allVars => PricesInv'
  BY <1>2, PricesStep
<1>4. PricesInv /\ [WarehouseNext]_allVars => [Kept]_<<rows, asked, made>>
  BY <1>2, HistoryStep DEF PastKept
<1> HIDE DEF Kept
<1>5. WarehouseSpec => [][Kept]_<<rows, asked, made>>
  BY <1>1, <1>3, <1>4, PTL DEF WarehouseSpec
<1> QED BY <1>5 DEF Lists!HistoryKept, Kept, Lists!vars
=============================================================================
