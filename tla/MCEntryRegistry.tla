--------------------------- MODULE MCEntryRegistry ---------------------------
(***************************************************************************)
(* Small instances of EntryRegistry for TLC: two futures bots contend for  *)
(* one base, which one of them may enter twice, and a spot bot enters two. *)
(***************************************************************************)
EXTENDS EntryRegistry

CONSTANTS trend, fut, cross, i1, i2, i3, i4, i5, BTC, ETH

WalletOf == [b \in Bots |-> IF b = trend THEN "spot" ELSE "futures"]
BotOfEntry ==
  [i \in Intents |-> CASE i \in {i1, i2} -> fut
                       [] i = i3 -> cross
                       [] OTHER -> trend]
BaseOfEntry == [i \in Intents |-> IF i = i5 THEN ETH ELSE BTC]
UnitNotional == [i \in Intents |-> 1]
AllOrphans == Bots \X {BTC}

-----------------------------------------------------------------------------
(* The bound of the joint run: what has no rule in common runs apart.      *)

Used(i) == stage[i] # "idle"

Adopting(b, s) ==
  \/ adoption[b][s] # NoAdoption
  \/ claim[b][s].state = "ADOPTING"
  \/ Held(b, s) /\ claim[b][s].entry = NoEntry
  \/ row[b][s].kind # "none" /\ row[b][s].entry = NoEntry

Adopted(a) == \E b \in Bots, s \in Bases : Account[b] = a /\ Adopting(b, s)
Busy(a) == Adopted(a) \/ \E i \in IntentsOf(a) : Used(i)

\* The wallets share no base and no ceiling, so one is in use at a time.  The
\* first entry of a wallet meets one of these at a time: adoption, a second
\* entry of its bot, an entry of the other bot.
Apart ==
  /\ ~(Busy("spot") /\ Busy("futures"))
  /\ ~(Used(i2) /\ Used(i3))
  /\ Adopted("futures") => ~Used(i2) /\ ~Used(i3)
  /\ Adopted("spot") => ~Used(i5)

=============================================================================
