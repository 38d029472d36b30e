------------------------------ MODULE FillLedger ------------------------------
(***************************************************************************)
(* What the books of one order intent, or of one position, promise of the  *)
(* lots that trade on the venue: they never run ahead of the venue, take   *)
(* back nothing, and are closed only when they say all that traded; then   *)
(* nothing more trades and nothing more is recorded.                       *)
(***************************************************************************)
EXTENDS Naturals

CONSTANTS
  Target,   \* lots that may trade
  Short     \* the books may be closed before all of them have traded

VARIABLES
  traded,     \* lots traded on the venue
  recorded,   \* lots the books know of
  closed      \* the books are closed

vars == <<traded, recorded, closed>>

Init == traded = 0 /\ recorded = 0 /\ closed = FALSE

Trade ==
  /\ ~closed
  /\ traded' \in (traded + 1)..Target
  /\ UNCHANGED <<recorded, closed>>

Record ==
  /\ ~closed
  /\ recorded' \in (recorded + 1)..traded
  /\ UNCHANGED <<traded, closed>>

Close ==
  /\ ~closed
  /\ Short \/ traded = Target
  /\ recorded' = traded
  /\ closed' = TRUE
  /\ UNCHANGED traded

Next == Trade \/ Record \/ Close

Spec == Init /\ [][Next]_vars

===============================================================================
