----------------------------- MODULE AcceptQueue -----------------------------
(***************************************************************************)
(* What a listener promises the caller of Accept, whatever it does inside: *)
(* a connection is offered once, waits its turn, and is returned by one    *)
(* call of Accept, in the order of the offers.                             *)
(***************************************************************************)
EXTENDS Sequences

VARIABLES
  offered,   \* the connections offered so far
  queue,     \* those that Accept has not returned, oldest first
  taken      \* those that Accept has returned

vars == <<offered, queue, taken>>

Init == offered = {} /\ queue = <<>> /\ taken = {}

Offer ==
  /\ \E c \in offered' \ offered :
       /\ offered' = offered \cup {c}
       /\ queue' = Append(queue, c)
  /\ UNCHANGED taken

Take ==
  /\ queue # <<>>
  /\ taken' = taken \cup {Head(queue)}
  /\ queue' = Tail(queue)
  /\ UNCHANGED offered

Next == Offer \/ Take

Spec == Init /\ [][Next]_vars
=============================================================================
