------------------------------ MODULE CloseMutex ------------------------------
(***************************************************************************)
(* What close_lock promises of one coin of one wallet: whoever closes the  *)
(* position closes it alone (core/symbol_locks.py).                        *)
(***************************************************************************)
CONSTANT Threads

VARIABLE closing    \* the threads inside the lock

Init == closing = {}

Enter(t) == closing = {} /\ closing' = {t}
Leave == closing' = {}

Next == Leave \/ \E t \in Threads : Enter(t)

Spec == Init /\ [][Next]_closing

==============================================================================
