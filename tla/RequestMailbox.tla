---------------------------- MODULE RequestMailbox ----------------------------
(***************************************************************************)
(* What a channel of shutdown requests promises its receiver: a request is *)
(* received at most once, only after it was sent, and never after a newer  *)
(* one.  A request may be superseded before it is received.                *)
(***************************************************************************)
EXTENDS Naturals

VARIABLES
  sent,   \* requests are numbered in the order they are sent: 1..sent
  taken   \* the requests received

vars == <<sent, taken>>

Init == sent = 0 /\ taken = {}

Send == sent' = sent + 1 /\ UNCHANGED taken

Take(n) ==
  /\ \A k \in taken : k < n
  /\ taken' = taken \cup {n}
  /\ UNCHANGED sent

Next == Send \/ \E n \in 1..sent : Take(n)

Spec == Init /\ [][Next]_vars

===============================================================================
