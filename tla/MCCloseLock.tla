----------------------------- MODULE MCCloseLock -----------------------------
(***************************************************************************)
(* A small instance of CloseLock: three threads of one bot, two of them    *)
(* with the same key of the coin.                                          *)
(***************************************************************************)
EXTENDS CloseLock

CONSTANTS scan, monitor, reconcile, futures

McOneBot == [t \in Threads |-> futures]

McKeys == [t \in Threads |-> IF t = scan THEN "base" ELSE "symbol"]

==============================================================================
