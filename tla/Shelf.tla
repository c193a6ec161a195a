--------------------------------- MODULE Shelf ---------------------------------
(***************************************************************************)
(* What the stock service promises: documents take effect one after the    *)
(* other, each of them once and with all its lines, and nothing that is    *)
(* promised to an order leaves the shelf.  There are no locks, no lines in *)
(* progress and no movements here; Stock implements this.                  *)
(***************************************************************************)
EXTENDS Integers, Sequences, Functions

CONSTANTS Bin, Invoice, Adjustment, Lines, Amount, Opening, Negative

VARIABLES onHand, reserved, done

(* What the lines of a document take from or bring to a bin.               *)
Moves(d, b) == [i \in DOMAIN Lines[d] |-> IF Lines[d][i].bin = b THEN Lines[d][i].delta ELSE 0]
Effect(d, b) == SumFunction(Moves(d, b))

NotNegative(n) == IF n > 0 THEN n ELSE 0

(* An invoice takes what was reserved first, an adjustment reserves nothing. *)
Complete(d) ==
  /\ d \notin done /\ done' = done \cup {d}
  /\ onHand' = [b \in Bin |-> onHand[b] + Effect(d, b)]
  /\ reserved' = [b \in Bin |->
       IF d \in Invoice /\ Effect(d, b) < 0
       THEN NotNegative(reserved[b] + Effect(d, b)) ELSE reserved[b]]

Promise(b) == \E n \in Amount :
  /\ reserved' = [reserved EXCEPT ![b] = @ + n]
  /\ UNCHANGED <<onHand, done>>

Relieve(b) == \E n \in Amount :
  /\ reserved' = [reserved EXCEPT ![b] = NotNegative(@ - n)]
  /\ UNCHANGED <<onHand, done>>

Init == onHand = Opening /\ reserved = [b \in Bin |-> 0] /\ done = {}

Next == /\ \/ \E d \in Invoice \cup Adjustment : Complete(d)
           \/ \E b \in Bin : Promise(b) \/ Relieve(b)
        /\ \A b \in Bin \ Negative : reserved'[b] <= onHand'[b]

Spec == Init /\ [][Next]_<<onHand, reserved, done>>
=============================================================================
