----------------------------- MODULE AccountCoding -----------------------------
(***************************************************************************)
(* Account numbers (accounting/services/coding.py): an account is created  *)
(* under a parent by naming it, and its segment, its level and its packed  *)
(* full code come from its place in the tree.                              *)
(*                                                                         *)
(* allocate_account locks the row of the parent, takes the next segment    *)
(* and inserts at COMMIT: two actions.  Roots have no parent to lock; only *)
(* the unique index on full codes is there.                                *)
(***************************************************************************)
EXTENDS Integers, Sequences, FiniteSets

LOCAL INSTANCE FiniteSetsExt

CONSTANTS
  Worker,   \* workers that create accounts
  Slot,     \* 10 ^ LEVEL_CODE_WIDTHS: how many codes each level has room for
  MaxRows,  \* bound: the accounts of the chart
  Root      \* the parent of the roots

Depth == Len(Slot)

AccountCodingConstantsOK ==
  /\ Slot \in Seq(Nat \ {0}) /\ Slot # <<>> /\ MaxRows \in Nat
  /\ IsFiniteSet(Worker) /\ Root \notin 1..MaxRows

VARIABLES
  rows,   \* the accounts, in the order of creation: [parent, level, segment, code]
  ws      \* the transaction of each worker: [parent, segment] or idle

vars == <<rows, ws>>

Account == DOMAIN rows
Idle    == [parent |-> 0, segment |-> 0]

LevelUnder(p) == IF p = Root THEN 1 ELSE rows[p].level + 1

(* compute_full_code and format_full_code: segments packed into one        *)
(* number, and read back from it.                                          *)
FullCode(p, segment) == IF p = Root THEN segment
                        ELSE rows[p].code * Slot[LevelUnder(p)] + segment

Segments(code, level) ==
  LET left[n \in 0..level] == IF n = level THEN code ELSE left[n + 1] \div Slot[n + 1]
  IN [n \in 1..level |-> left[n] % Slot[n]]

Siblings(p) == {a \in Account : rows[a].parent = p}

(* next_sibling_code counts every sibling, in use or not.                  *)
NextSegment(p) == Max({0} \cup {rows[a].segment : a \in Siblings(p)}) + 1

(* max_sibling_code.                                                       *)
Fits(p) == NextSegment(p) <= Slot[LevelUnder(p)] - 1

(* validate_account_hierarchy: five levels and no more.                    *)
MayHaveChildren(p) == LevelUnder(p) <= Depth

Locked(p) == p # Root /\ \E w \in Worker : ws[w] # Idle /\ ws[w].parent = p

Begin(w, p) ==
  /\ ws[w] = Idle /\ ~Locked(p) /\ MayHaveChildren(p) /\ Fits(p)
  /\ ws' = [ws EXCEPT ![w] = [parent |-> p, segment |-> NextSegment(p)]]
  /\ UNCHANGED rows

(* uq_account_full_code.                                                   *)
Taken(code) == \E a \in Account : rows[a].code = code

Insert(w) == LET p == ws[w].parent  code == FullCode(p, ws[w].segment) IN
  /\ ws[w] # Idle /\ Len(rows) < MaxRows
  /\ ~Taken(code)
  /\ rows' = Append(rows, [parent |-> p, level |-> LevelUnder(p),
                           segment |-> ws[w].segment, code |-> code])
  /\ ws' = [ws EXCEPT ![w] = Idle]

(* The unique index refused the insert, or the process died.               *)
GiveUp(w) ==
  /\ ws[w] # Idle
  /\ ws' = [ws EXCEPT ![w] = Idle]
  /\ UNCHANGED rows

Init == rows = <<>> /\ ws = [w \in Worker |-> Idle]

Next == \E w \in Worker : \/ Insert(w) \/ GiveUp(w)
                          \/ \E p \in Account \cup {Root} : Begin(w, p)

Spec == Init /\ [][Next]_vars

-----------------------------------------------------------------------------
Path(a) == Segments(rows[a].code, rows[a].level)

(* Two accounts never share a code, and a code reads back as the place of  *)
(* the account in the tree: the parent's segments and its own.  A segment  *)
(* that was taken under a locked parent is still free at COMMIT, so that   *)
(* two accountants who add accounts at once are both served.               *)
CodeIsThePlace ==
  /\ \A w \in Worker : ws[w] # Idle /\ ws[w].parent # Root =>
       ~Taken(FullCode(ws[w].parent, ws[w].segment))
  /\ \A a, b \in Account : Path(a) = Path(b) => a = b
  /\ \A a \in Account :
       /\ rows[a].level \in 1..Depth
       /\ rows[a].parent # Root =>
            Path(a) = Append(Path(rows[a].parent), rows[a].segment)
=============================================================================
