--------------------------- MODULE RotatingFifo ---------------------------
(***************************************************************************)
(* What BytesQueue promises of the order of its entries.  It is a queue:   *)
(* Push adds at the back and Pop takes from the front.  But a Push that    *)
(* reallocates may first rotate it, with one empty entry where the front   *)
(* and the back used to meet, so that after it entries leave in an order   *)
(* that is not the order they came in.  Nothing is lost or doubled.        *)
(***************************************************************************)
EXTENDS Naturals, Sequences

CONSTANTS
  Items,   \* what is pushed
  Filler   \* an empty entry

VARIABLE items

Init == items = <<>>

Push(d) == items' = Append(items, d)

\* The last entries overtake the first k.
PushRotated(d) ==
  \E k \in 1 .. Len(items), gap \in {<<>>, <<Filler>>} :
    items' = SubSeq(items, k + 1, Len(items)) \o gap \o SubSeq(items, 1, k) \o <<d>>

Pop == items # <<>> /\ items' = Tail(items)

Reset == items' = <<>>

Next ==
  \/ \E d \in Items : Push(d) \/ PushRotated(d)
  \/ Pop
  \/ Reset

Spec == Init /\ [][Next]_items
=============================================================================
