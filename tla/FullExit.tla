------------------------------- MODULE FullExit -------------------------------
(***************************************************************************)
(* The full exit of one futures position and its booking:                  *)
(* _execute_full_close and the monitor's recovery (futures_bot_exits.py),  *)
(* reconciliation with the venue and the booking of what others closed     *)
(* (futures_bot_reconcile.py).                                             *)
(*                                                                         *)
(* The position is counted in lots.  Its row exists twice, in memory and   *)
(* in the state file; every write of the file writes the row in memory.    *)
(* close_lock (CloseLock) serializes the operations, so there is one pc;   *)
(* the venue moves, the process dies and writes fail at any time.  A lot   *)
(* stands for more than the five percent reconciliation overlooks.         *)
(***************************************************************************)
EXTENDS Integers, FiniteSets

CONSTANTS
  Lots,        \* of the position as it was opened
  MaxOrders    \* full-close orders the bot may send

ASSUME ExitAssumption == Lots \in Nat \ {0} /\ MaxOrders \in Nat \ {0}

Orders == 1..MaxOrders

VARIABLES
  pos,         \* lots open on the venue
  order,       \* the full-close orders
  missed,      \* orders a complete lookup did not find
  mem, disk,   \* the row
  blocked,     \* _close_fragment_recovery_blocked
  ledger,      \* the trades booked, by their identity
  margin,      \* the lots whose margin the trade of the whole close states
  pc, seen     \* the operation under way, and what it has read

vars == <<pos, order, missed, mem, disk, blocked, ledger, margin, pc, seen>>
venue == <<pos, order>>

Unsent == [st |-> "unsent", asked |-> 0, filled |-> 0]
Live(i) == order[i].st \in {"flying", "open"}

\* Identities of a booking: the order of the last fill, none at all, or the
\* amounts before and after a partial close by others.
Receipt == <<0, 1>>
NoReceipt == <<0, 0>>
Partials == {k \in (1..Lots) \X (1..Lots) : k[1] > k[2]}
Trade(key, lots) == [key |-> key, lots |-> lots]
NotDue == Trade(NoReceipt, 0)

\* amount: what the row accounts for; fragment: verified fills of full closes
\* (pending_close_filled_amount); intent, base, want: the durable intent, the
\* fragment before it and its amount; flat: verified_flat_pending_accounting;
\* due: accounting_pending; parts: accounting_pending_partials.
NoRow == [amount |-> 0, fragment |-> 0, intent |-> 0, base |-> 0, want |-> 0,
          flat |-> FALSE, due |-> NotDue, parts |-> {}, unpriced |-> 0,
          booked |-> FALSE]
Opened == [NoRow EXCEPT !.amount = Lots]

Controls == {"idle", "parts", "saveparts", "clearparts", "check", "rewrite",
             "replay", "offline", "intent", "send", "answer", "flat", "lookup",
             "cover", "write", "save", "cleanup", "shrink", "savepart",
             "clearpart"}

Trades == [key : Nat \X Nat, lots : Nat]
Rows ==
  [amount : 0..Lots, fragment : 0..Lots, intent : 0..MaxOrders, base : 0..Lots,
   want : 0..Lots, flat : BOOLEAN, due : Trades, parts : SUBSET Partials,
   unpriced : Nat, booked : BOOLEAN]
OrderStates ==
  [st : {"unsent", "flying", "open", "done", "refused"}, asked : 0..Lots,
   filled : 0..Lots]
Looks ==
  [filled : 0..Lots, terminal : BOOLEAN, left : 0..Lots, margin : Nat,
   saved : SUBSET Partials]

TypeOK ==
  /\ pos \in 0..Lots /\ missed \subseteq Orders
  /\ order \in [Orders -> OrderStates]
  /\ mem \in Rows /\ disk \in Rows
  /\ blocked \in BOOLEAN /\ pc \in Controls
  /\ ledger \subseteq Trades /\ margin \in Nat /\ seen \in Looks

Gone == mem = NoRow
Open == ~Gone
Residual(row) == IF row.fragment < row.amount THEN row.amount - row.fragment ELSE 0
Cleared(row) == [row EXCEPT !.intent = 0, !.base = 0, !.want = 0]
Flat(row) == Cleared([row EXCEPT !.flat = TRUE])
Covered(row) == row.fragment = row.amount /\ row.unpriced = 0

-----------------------------------------------------------------------------
(* Writes.                                                                 *)

\* update_many_if_current: memory first, then the whole file.
Persist(row) == mem' = row /\ disk' = row

\* The write raises, before or after the file was replaced; memory keeps it.
PersistFails(row) == mem' = row /\ disk' \in {disk, row}

Go(c) == pc' = c

Nothing == [filled |-> 0, terminal |-> FALSE, left |-> 0, margin |-> 0,
            saved |-> {}]
Forget == seen' = Nothing

\* save_trade_db of the whole close: a trade of that identity that is there
\* already has to state the same, its margin included.
Matches(trade) ==
  \A t \in ledger : t.key = trade.key => t = trade /\ margin = seen.margin

Book(trade) ==
  /\ Matches(trade)
  /\ ledger' = ledger \cup {trade} /\ margin' = seen.margin

\* The lots the trades account for, one by one.
LotsOf(trades) == UNION {{t} \X (1..t.lots) : t \in trades}
Booked == Cardinality(LotsOf(ledger))

-----------------------------------------------------------------------------
(* The venue.  Orders are reduce-only.                                     *)

Arrive(i) ==
  /\ order[i].st = "flying"
  /\ order' = [order EXCEPT ![i].st = IF pos = 0 THEN "refused" ELSE "open"]
  /\ UNCHANGED <<pos, missed, mem, disk, blocked, ledger, margin, pc, seen>>

Fill(i) ==
  /\ order[i].st = "open" /\ pos > 0 /\ order[i].filled < order[i].asked
  /\ pos' = pos - 1
  /\ order' = [order EXCEPT ![i].filled = @ + 1]
  /\ UNCHANGED <<missed, mem, disk, blocked, ledger, margin, pc, seen>>

\* Filled, or canceled with the rest.
Finish(i) ==
  /\ order[i].st = "open"
  /\ order' = [order EXCEPT ![i].st = "done"]
  /\ UNCHANGED <<pos, missed, mem, disk, blocked, ledger, margin, pc, seen>>

\* The user, or a liquidation, closes some of the position.
OthersClose ==
  /\ pos > 0
  /\ pos' \in 0..(pos - 1)
  /\ UNCHANGED <<order, missed, mem, disk, blocked, ledger, margin, pc, seen>>

-----------------------------------------------------------------------------
(* A pass of the monitor.                                                  *)

Starts(c) ==
  /\ pc = "idle" /\ Open
  /\ Go(c)
  /\ UNCHANGED <<venue, missed, mem, disk, blocked, ledger, margin, seen>>

\* Pending partials come first, but a flat row is left to reconciliation.
MonitorStarts ==
  LET closing == mem.due # NotDue \/ mem.booked
  IN Starts(IF mem.parts # {} /\ (closing \/ ~mem.flat) THEN "parts" ELSE "check")

\* _retry_pending_partial_accounting.
RewriteParts ==
  /\ pc = "parts" /\ Persist(mem)
  /\ Go("saveparts")
  /\ UNCHANGED <<venue, missed, blocked, ledger, margin, seen>>

PartTrade(k) == Trade(k, k[1] - k[2])

\* Those that cannot be saved stay pending.
SaveParts ==
  /\ pc = "saveparts"
  /\ ledger' = ledger \cup {PartTrade(k) : k \in mem.parts}
  /\ seen' = [seen EXCEPT !.saved = mem.parts]
  /\ Go("clearparts")
  /\ UNCHANGED <<venue, missed, mem, disk, blocked, margin>>

\* Faulty variant: the booked ones stay on the list.
PartsKept == mem

PartsLeft == [mem EXCEPT !.parts = @ \ seen.saved]

ClearParts ==
  /\ pc = "clearparts" /\ Persist(PartsLeft)
  /\ Go("check")
  /\ Forget
  /\ UNCHANGED <<venue, missed, blocked, ledger, margin>>

Check(c) ==
  /\ pc = "check"
  /\ Go(c)
  /\ UNCHANGED <<venue, missed, mem, disk, blocked, ledger, margin, seen>>

CheckBooked == mem.booked /\ Check("cleanup")
CheckDue == ~mem.booked /\ mem.due # NotDue /\ Check("rewrite")
InPosition == ~mem.booked /\ mem.due = NotDue

\* Verified flat, no reason to exit, or no close possible.
CheckNothing ==
  /\ InPosition
  /\ mem.flat \/ mem.fragment = 0 \/ blocked \/ Residual(mem) = 0
  /\ Check("idle")

CanExit == InPosition /\ ~mem.flat /\ ~blocked /\ Residual(mem) > 0
Guarded == mem.parts # {} /\ mem.intent = 0

CheckExit == CanExit /\ ~Guarded /\ Check("intent")

\* While partials are pending they are written once more, and a new order needs
\* a fresh look at the venue.
CheckGuarded ==
  /\ pc = "check" /\ CanExit /\ Guarded
  /\ Persist(mem)
  /\ Go(IF pos = Residual(mem) THEN "intent" ELSE "idle")
  /\ UNCHANGED <<venue, missed, blocked, ledger, margin, seen>>

-----------------------------------------------------------------------------
(* The full close.                                                         *)

NextId == CHOOSE i \in Orders : order[i] = Unsent /\ disk.intent # i
Spare == \E i \in Orders : order[i] = Unsent /\ disk.intent # i

\* _ensure_futures_full_exit_intent.
Intended ==
  IF mem.intent # 0 THEN mem
  ELSE [mem EXCEPT !.intent = NextId, !.base = mem.fragment,
                   !.want = Residual(mem)]

EnsureIntent ==
  /\ pc = "intent" /\ (mem.intent = 0 => Spare)
  /\ Persist(Intended)
  /\ Go(IF mem.intent = 0 THEN "send" ELSE "lookup")
  /\ UNCHANGED <<venue, missed, blocked, ledger, margin, seen>>

\* The bound on orders is reached.
NoOrderLeft ==
  /\ pc = "intent" /\ mem.intent = 0 /\ ~Spare
  /\ Go("idle")
  /\ UNCHANGED <<venue, missed, mem, disk, blocked, ledger, margin, seen>>

Send ==
  /\ pc = "send"
  /\ order' = [order EXCEPT ![mem.intent].st = "flying",
                            ![mem.intent].asked = mem.want]
  /\ Go("answer")
  /\ UNCHANGED <<pos, missed, mem, disk, blocked, ledger, margin, seen>>

Sent == order[mem.intent]
Observe == seen' = [seen EXCEPT !.filled = Sent.filled, !.terminal = Sent.st = "done"]

Answered ==
  /\ pc = "answer" /\ Sent.st \in {"open", "done"}
  /\ Observe /\ Go("cover")
  /\ UNCHANGED <<venue, missed, mem, disk, blocked, ledger, margin>>

\* The venue knows no position, and fills of earlier orders leave a rest.
AnsweredFlat ==
  /\ pc = "answer" /\ Sent.st = "refused"
  /\ Go("flat")
  /\ UNCHANGED <<venue, missed, mem, disk, blocked, ledger, margin, seen>>

\* _defer_verified_flat_close.
DeferFlat ==
  /\ pc = "flat" /\ Persist(Flat(mem))
  /\ Go("idle")
  /\ UNCHANGED <<venue, missed, blocked, ledger, margin, seen>>

\* _recover_or_submit_futures_full_exit with an intent of an earlier pass.
Found ==
  /\ pc = "lookup"
  /\ Sent.st = "open" \/ (Sent.st = "done" /\ Sent.filled > 0)
  /\ Observe /\ Go("cover")
  /\ UNCHANGED <<venue, missed, mem, disk, blocked, ledger, margin>>

\* A complete negative lookup, or an order that ended without a fill and left
\* none in the row.
Void ==
  /\ pc = "lookup"
  /\ \/ Sent.st \in {"unsent", "flying", "refused"}
     \/ Sent.st = "done" /\ Sent.filled = 0 /\ mem.fragment = mem.base

Misses == missed' = IF Sent.st = "flying" THEN missed \cup {mem.intent} ELSE missed

ClearIntent ==
  /\ Void /\ Persist(Cleared(mem))
  /\ Misses
  /\ Go("idle")
  /\ UNCHANGED <<venue, blocked, ledger, margin, seen>>

\* Faulty variant: the fill of an order is added to what is there of it.
FragmentAgain == mem.fragment + seen.filled

\* _full_exit_cumulative_fragment.
Fragment == mem.base + seen.filled
Conflict ==
  /\ seen.filled > 0
  /\ \/ seen.filled > mem.want \/ Fragment > mem.amount
     \/ Fragment < mem.fragment

\* Faulty variant: an order that may still trade is forgotten as well.
EvidenceEager ==
  IF seen.filled = 0 THEN mem ELSE Cleared([mem EXCEPT !.fragment = Fragment])

\* _verify_full_exit_coverage: the row with the evidence of the order.
Evidence ==
  IF seen.filled = 0 THEN mem
  ELSE LET row == [mem EXCEPT !.fragment = Fragment]
       IN IF seen.terminal THEN Cleared(row) ELSE row

CoverConflict ==
  /\ pc = "cover" /\ Conflict
  /\ blocked' = TRUE
  /\ Go("idle")
  /\ Forget
  /\ UNCHANGED <<venue, missed, mem, disk, ledger, margin>>

Kept(row, closed) == IF closed /\ ~Covered(row) THEN Flat(row) ELSE row

Cover(row, closed) ==
  /\ pc = "cover"
  /\ LET kept == Kept(row, closed)
     IN IF kept = mem THEN UNCHANGED <<mem, disk, blocked>>
                      ELSE Persist(kept) /\ blocked' = FALSE
  /\ Go(IF closed /\ Covered(row) THEN "write" ELSE "idle")
  /\ Forget
  /\ UNCHANGED <<venue, missed, ledger, margin>>

CoverVerified == ~Conflict /\ Cover(Evidence, pos = 0)

-----------------------------------------------------------------------------
(* Booking the rest.                                                       *)

Due(key, lots) == [mem EXCEPT !.due = Trade(key, lots)]

\* The margin the trade states is of the row that is booked, not of the booking
\* that was written ahead.
Stating(lots) == seen' = [Nothing EXCEPT !.margin = lots]

\* Write ahead: the identity of the booking is durable before the booking.
Write ==
  /\ pc = "write" /\ Persist(Cleared(Due(Receipt, mem.amount)))
  /\ Stating(mem.amount)
  /\ Go("save")
  /\ UNCHANGED <<venue, missed, blocked, ledger, margin>>

Save ==
  /\ pc = "save"
  /\ Book(mem.due)
  /\ Go("cleanup")
  /\ Forget
  /\ UNCHANGED <<venue, missed, mem, disk, blocked>>

\* The trade that is there was booked from a row with, or without, the partials
\* that have no price: this booking is refused, and the pass ends.
SaveRefused ==
  /\ pc = "save" /\ ~Matches(mem.due)
  /\ Go("idle")
  /\ Forget
  /\ UNCHANGED <<venue, missed, mem, disk, blocked, ledger, margin>>

\* Faulty variant: pending partials do not keep the row.
CleanupAll ==
  /\ pc = "cleanup"
  /\ Persist(NoRow)
  /\ Go("idle")
  /\ UNCHANGED <<venue, missed, blocked, ledger, margin, seen>>

\* _cleanup_accounted_close_state and remove_with_restore_fields; how the row
\* is removed is PositionState's.
Cleanup ==
  /\ pc = "cleanup"
  /\ Persist(IF mem.parts = {} THEN NoRow ELSE [mem EXCEPT !.booked = TRUE])
  /\ Go("idle")
  /\ UNCHANGED <<venue, missed, blocked, ledger, margin, seen>>

\* A booking left pending is taken up again, first as a write.
Rewrite ==
  /\ pc = "rewrite" /\ Persist(mem)
  /\ Go("replay")
  /\ UNCHANGED <<venue, missed, blocked, ledger, margin, seen>>

\* _record_offline_close of the row, with the partials without a price when
\* reconciliation asks.  A verified flat close needs fills for all of it.
Total == mem.amount + IF pc = "offline" THEN mem.unpriced ELSE 0
Receipted == mem.flat /\ mem.fragment > 0

OfflineRow ==
  IF mem.due # NotDue THEN mem
  ELSE Due(IF Receipted THEN Receipt ELSE NoReceipt, Total)

RecordOffline ==
  /\ pc \in {"replay", "offline"} /\ (Receipted => mem.fragment = Total)
  /\ Persist(OfflineRow)
  /\ Stating(Total)
  /\ Go("save")
  /\ UNCHANGED <<venue, missed, blocked, ledger, margin>>

OfflineRefused ==
  /\ pc \in {"replay", "offline"} /\ Receipted /\ mem.fragment # Total
  /\ Go("idle")
  /\ UNCHANGED <<venue, missed, mem, disk, blocked, ledger, margin, seen>>

-----------------------------------------------------------------------------
(* Reconciliation.                                                         *)

\* The venue has no position; pending partials keep the row.
ReconcileGone ==
  /\ pos = 0 /\ (mem.parts = {} \/ mem.booked)
  /\ Starts(IF mem.booked THEN "cleanup" ELSE "offline")

\* The venue has less than the row.
ReconcileLess ==
  /\ pc = "idle" /\ 0 < pos /\ pos < mem.amount
  /\ seen' = [seen EXCEPT !.left = pos]
  /\ Go("shrink")
  /\ UNCHANGED <<venue, missed, mem, disk, blocked, ledger, margin>>

\* _record_futures_external_partial.
Part == <<mem.amount, seen.left>>
Shrunk == [mem EXCEPT !.amount = seen.left, !.parts = @ \cup {Part}]

\* No price is found: the lots wait for the end of the position.
Unpriced == [mem EXCEPT !.amount = seen.left,
                        !.unpriced = @ + (mem.amount - seen.left)]

ShrinkPriced ==
  /\ pc = "shrink" /\ Persist(Shrunk)
  /\ seen' = [Nothing EXCEPT !.saved = {Part}]
  /\ Go("savepart")
  /\ UNCHANGED <<venue, missed, blocked, ledger, margin>>

ShrinkUnpriced ==
  /\ pc = "shrink" /\ Persist(Unpriced)
  /\ Go("idle")
  /\ Forget
  /\ UNCHANGED <<venue, missed, blocked, ledger, margin>>

SavePart ==
  /\ pc = "savepart"
  /\ ledger' = ledger \cup {PartTrade(k) : k \in seen.saved}
  /\ Go("clearpart")
  /\ UNCHANGED <<venue, missed, mem, disk, blocked, margin, seen>>

ClearPart ==
  /\ pc = "clearpart" /\ Persist(PartsLeft)
  /\ Go("idle")
  /\ Forget
  /\ UNCHANGED <<venue, missed, blocked, ledger, margin>>

-----------------------------------------------------------------------------
(* Failures.                                                               *)

Ends(c) == Go(c) /\ Forget /\ UNCHANGED <<venue, missed, ledger, margin>>

\* A write fails: memory has it, the pass ends.
WriteFails ==
  /\ UNCHANGED blocked
  /\ \/ pc = "parts" /\ PersistFails(mem) /\ Ends("check")
     \/ pc = "clearparts" /\ PersistFails(PartsLeft) /\ Ends("check")
     \/ pc = "check" /\ CanExit /\ Guarded /\ PersistFails(mem) /\ Ends("idle")
     \/ pc = "intent" /\ (mem.intent = 0 => Spare) /\ PersistFails(Intended) /\ Ends("idle")
     \/ pc = "write" /\ PersistFails(Cleared(Due(Receipt, mem.amount))) /\ Ends("idle")
     \/ pc = "rewrite" /\ PersistFails(mem) /\ Ends("idle")
     \/ /\ pc \in {"replay", "offline"} /\ (Receipted => mem.fragment = Total)
        /\ PersistFails(OfflineRow) /\ Ends("idle")
     \/ /\ pc = "shrink" /\ \E row \in {Shrunk, Unpriced} : PersistFails(row)
        /\ Ends("idle")
     \/ pc = "clearpart" /\ PersistFails(PartsLeft) /\ Ends("idle")
     \/ pc = "cleanup" /\ PersistFails([mem EXCEPT !.booked = TRUE]) /\ Ends("idle")

\* _block_close_fragment_recovery: no close is tried again before a restart.
EvidenceNotDurable ==
  /\ blocked' = TRUE
  /\ \/ pc = "flat" /\ PersistFails(Flat(mem)) /\ Ends("idle")
     \/ \E row \in {mem, Evidence} :
          /\ pc = "cover" /\ ~Conflict /\ Kept(row, pos = 0) # mem
          /\ PersistFails(Kept(row, pos = 0)) /\ Ends("idle")

\* The intent is restored in memory; either write may have reached the file.
ClearFails ==
  /\ Void /\ mem' = mem /\ disk' \in {disk, mem, Cleared(mem)}
  /\ Misses
  /\ Go("idle")
  /\ UNCHANGED <<venue, blocked, ledger, margin, seen>>

\* The fill of an order has no price yet.
CoverUnpriced == seen.filled > 0 /\ Cover(mem, pos = 0)

\* Whether the position is closed is not known.
CoverUnverified == ~Conflict /\ Cover(Evidence, FALSE)

\* A call to the venue or the database has no answer, or no funding or price.
CallFails ==
  /\ pc \in {"send", "answer", "lookup", "save", "cleanup", "replay",
            "offline", "savepart"}
  /\ UNCHANGED <<mem, disk, blocked>>
  /\ Ends("idle")

\* Some of the pending partials cannot be booked.
SaveSomeParts ==
  /\ pc = "saveparts"
  /\ \E saved \in SUBSET mem.parts :
       /\ saved # mem.parts
       /\ ledger' = ledger \cup {PartTrade(k) : k \in saved}
       /\ seen' = [seen EXCEPT !.saved = saved]
  /\ Go("clearparts")
  /\ UNCHANGED <<venue, missed, mem, disk, blocked, margin>>

Failure ==
  \/ WriteFails \/ EvidenceNotDurable \/ ClearFails \/ CoverUnpriced
  \/ CoverUnverified \/ CallFails \/ SaveSomeParts

\* A write of another row, or of the retry thread, takes this row along.
SaveRetry ==
  /\ disk # mem
  /\ disk' = mem
  /\ UNCHANGED <<venue, missed, mem, blocked, ledger, margin, pc, seen>>

Crash ==
  /\ mem' = disk /\ blocked' = FALSE /\ Forget
  /\ Go("idle")
  /\ UNCHANGED <<venue, missed, disk, ledger, margin>>

-----------------------------------------------------------------------------

Init ==
  /\ pos = Lots /\ order = [i \in Orders |-> Unsent] /\ missed = {}
  /\ mem = Opened /\ disk = Opened /\ blocked = FALSE
  /\ ledger = {} /\ margin = 0 /\ pc = "idle" /\ seen = Nothing

Step ==
  \/ RewriteParts \/ SaveParts \/ ClearParts
  \/ CheckBooked \/ CheckDue \/ CheckNothing \/ CheckExit \/ CheckGuarded
  \/ EnsureIntent \/ NoOrderLeft \/ Send \/ Answered \/ AnsweredFlat \/ DeferFlat
  \/ Found \/ ClearIntent \/ CoverConflict \/ CoverVerified
  \/ Write \/ Save \/ SaveRefused \/ Cleanup
  \/ Rewrite \/ RecordOffline \/ OfflineRefused
  \/ ShrinkPriced \/ ShrinkUnpriced \/ SavePart \/ ClearPart

Next ==
  \/ \E i \in Orders : Arrive(i) \/ Fill(i) \/ Finish(i)
  \/ OthersClose
  \/ MonitorStarts \/ ReconcileGone \/ ReconcileLess \/ Step
  \/ Failure \/ SaveRetry \/ Crash

Spec == Init /\ [][Next]_vars

\* Both threads run on, an operation goes on until it ends, and an order that
\* was sent arrives.
Fairness ==
  /\ SF_vars(MonitorStarts) /\ SF_vars(ReconcileGone) /\ WF_vars(Step)
  /\ \A i \in Orders : WF_vars(Arrive(i))

FairSpec == Spec /\ Fairness

-----------------------------------------------------------------------------
(* Properties.                                                             *)

\* The lots that orders of the bot filled, one by one.
Fills(orders) == UNION {{i} \X (1..order[i].filled) : i \in orders}
FilledBy(orders) == Cardinality(Fills(orders))

\* "one terminal, source-fenced cumulative fill": fills count for the full
\* close only if an order of the bot made them, and only once, however often a
\* partly filled order is looked up, the monitor restarts or a write fails.
FragmentsReal ==
  \A row \in {mem, disk} : row.fragment <= FilledBy(Orders)

\* Whoever closed, in how many pieces, with crashes between a booking and the
\* write that notes it: no lot is booked twice or before it is closed, and
\* none is left out when the row goes.
BookedRight ==
  /\ Booked <= Lots - pos
  /\ Gone => Booked = Lots

\* The trades are the books of the position: they never run ahead of what the
\* bot, the user and liquidations closed, take back nothing, and are complete
\* when the row goes; it goes for good, and not while a lot is open.
Ledger ==
  INSTANCE FillLedger WITH Target <- Lots, Short <- FALSE, traded <- Lots - pos,
                           recorded <- Booked, closed <- Gone
ExitLedgerSpec == Ledger!Spec

\* A full-close order that may still trade is found again after a crash, by
\* the intent in the file, unless a complete lookup has missed it.
OrderTraceable ==
  \A i \in Orders : pos > 0 /\ Live(i) => i = disk.intent \/ i \in missed

\* What reconciliation leaves to the user: a verified flat position whose fills
\* do not add up to it.
Unresolved ==
  /\ Receipted /\ mem.fragment # mem.amount + mem.unpriced
  /\ mem.due # NotDue => mem.fragment # mem.amount

\* A verified flat position with partial bookings pending: the monitor leaves
\* it to reconciliation, and reconciliation keeps it for the monitor's retry.
Stranded == mem.flat /\ mem.parts # {} /\ mem.due = NotDue /\ ~mem.booked

FailsForever == []<><<(Failure \/ Crash) /\ ~Step>>_vars

\* A position that is closed on the venue is booked and given up in the end,
\* unless its fills do not add up to it, it is stranded, or operations keep
\* failing (by a step that is nothing else).
Settles == FailsForever \/ (pos = 0 ~> Gone \/ Unresolved \/ Stranded)

\* "partial accounting is pending", "state kept for retry" (reconciliation): the
\* partial bookings of a position that is gone are made in the end, unless its
\* fills do not add up to it or operations keep failing.
KeptForRetry ==
  \/ FailsForever
  \/ pos = 0 /\ mem.parts # {} ~> mem.parts = {} \/ Unresolved

\* "A verified fragment from a previous full-close attempt commits the
\* position to flattening" (_evaluate_futures_exit): once its orders have ended,
\* lots that are open beside a fragment are left to close.
CommittedToFlatten ==
  mem.fragment > 0 /\ pos > 0 /\ ~mem.flat /\ (\A i \in Orders : ~Live(i))
    => Residual(mem) > 0

=============================================================================
