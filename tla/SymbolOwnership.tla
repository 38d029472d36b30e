--------------------------- MODULE SymbolOwnership ---------------------------
(***************************************************************************)
(* What the shared claim registry of core/database.py promises the bots.   *)
(*                                                                         *)
(* Several bots trade on one exchange account.  A futures position nets    *)
(* per symbol and account, so a coin of one wallet class belongs to at     *)
(* most one bot; the other class has its own wallet and its own owner.     *)
(* A cell <<account, base>> changes hands only through Nobody: a bot       *)
(* acquires a free cell and some transaction frees owned cells again.      *)
(* EntryRegistry implements this specification.                            *)
(***************************************************************************)

CONSTANTS
  Bots,      \* the bots that share the exchange account
  Accounts,  \* the wallet classes, "spot" and "futures"
  Bases,     \* base coins
  Nobody     \* the owner of a free cell, not a bot

VARIABLE owner   \* owner[a][s]: the bot that owns base s of wallet class a

TypeOK == owner \in [Accounts -> [Bases -> Bots \cup {Nobody}]]

Init == owner = [a \in Accounts |-> [s \in Bases |-> Nobody]]

\* A bot takes a free cell.
Acquire(b, a, s) ==
  /\ owner[a][s] = Nobody
  /\ owner' = [owner EXCEPT ![a][s] = b]

\* A transaction frees cells; the start-up purge frees several at once.
Release(cells) ==
  owner' = [a \in Accounts |-> [s \in Bases |->
              IF <<a, s>> \in cells THEN Nobody ELSE owner[a][s]]]

Next ==
  \/ \E cells \in SUBSET (Accounts \X Bases) : Release(cells)
  \/ \E b \in Bots, a \in Accounts, s \in Bases : Acquire(b, a, s)

Spec == Init /\ [][Next]_owner

==============================================================================
