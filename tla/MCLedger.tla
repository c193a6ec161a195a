------------------------------ MODULE MCLedger ------------------------------
(* Small instances of the ledger for TLC.                                  *)
EXTENDS Ledger, TLC

CONSTANTS p1, p2, y1, y2, a1, a2, w1, w2

(* Debit a1, credit a2; the opposite, which locks the accounts in the      *)
(* other order; and a draft in progress, which does not balance.           *)
Sale   == << [account |-> a1, debit |-> 1, credit |-> 0],
             [account |-> a2, debit |-> 0, credit |-> 1] >>
Refund == << [account |-> a2, debit |-> 1, credit |-> 0],
             [account |-> a1, debit |-> 0, credit |-> 1] >>
Uneven == << [account |-> a1, debit |-> 2, credit |-> 0],
             [account |-> a2, debit |-> 0, credit |-> 1] >>

SaleOnly == {Sale}
TwoWays  == {Sale, Refund}
WithUneven == {Sale, Uneven}

OneP     == p1 :> y1
OneYear  == p1 :> y1 @@ p2 :> y1
TwoYears == p1 :> y1 @@ p2 :> y2

(* Posting against closing, on both sides.                                 *)
PostAndClose == w1 :> {"post", "transition"} @@ w2 :> {"post", "transition"}

(* Corrections: only w1 voids.                                             *)
Corrections == w1 :> {"post", "void", "reverse"} @@ w2 :> {"post", "reverse"}
VoidAndVoid == w1 :> {"post", "void"} @@ w2 :> {"void"}

(* Manual drafts from creation to posting.                                 *)
Drafts == w1 :> {"create_draft", "post_draft", "void"}
            @@ w2 :> {"post_draft", "patch_draft", "transition"}

(* Archiving against posting.                                              *)
Everyday  == w1 :> {"post", "transition"} @@ w2 :> {"post", "archive"}
Archiving == w1 :> {"post"} @@ w2 :> {"post", "archive"}

(* docs/04-state-machines: p1 is before p2 in the calendar, and a period   *)
(* is closed only when every earlier one is (transition_period).           *)
PeriodsCloseInOrder == period[p2] = "closed" => period[p1] = "closed"
=============================================================================
