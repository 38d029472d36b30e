---------------------------- MODULE FullExitProofs ----------------------------
(***************************************************************************)
(* Why a full exit never loses its order, counts only fills its orders     *)
(* made, and books every lot once, for positions of any size and any       *)
(* number of orders, with failures and crashes at every step.  The trades  *)
(* are a FillLedger of the position.                                       *)
(***************************************************************************)
EXTENDS FullExit, FiniteSetTheorems, TLAPS

\* Where the position is known to be gone.
Ending == {"flat", "write", "save", "cleanup", "rewrite", "replay", "offline"}

\* Where a full close is under way.
Closing == {"intent", "send", "answer", "flat", "lookup", "cover", "write"}

\* Bookings of the close itself, not of a part others closed.
Whole(t) == t.key \in {Receipt, NoReceipt}

\* The venue refuses, and the bot books, only after the position is gone.
Flattened ==
  /\ \A i \in Orders : order[i].st = "refused" => pos = 0
  /\ pc \in Ending => pos = 0
  /\ \A row \in {mem, disk} : row.due # NotDue \/ row.booked => pos = 0

\* What the operation under way knows.
Working ==
  /\ pc \in {"send", "answer", "lookup", "cover"} => mem.intent \in Orders
  /\ pc = "send" => disk.intent = mem.intent
  /\ pc = "cover" /\ seen.terminal => Sent.st = "done"
  /\ pc = "shrink" => 0 < seen.left /\ seen.left < mem.amount

\* An order that may still trade is the one both copies of the row name.
Tracked ==
  \A i \in Orders \ missed :
    Live(i) /\ pos > 0 => mem.intent = i /\ disk.intent = i

\* The row goes from both places at once, and altogether.
Together ==
  /\ \A row \in {mem, disk} : row.amount = 0 => row = NoRow
  /\ mem.amount = 0 <=> disk.amount = 0
  /\ pc # "idle" => mem.amount > 0

\* The identity of the booking is in both copies before the booking.
WrittenAhead ==
  /\ pc \in Closing => mem.due = NotDue
  /\ pc = "save" => mem.due = disk.due /\ mem.due.lots > 0
  /\ \A row \in {mem, disk} : row.due # NotDue => row.due.lots > 0 /\ Whole(row.due)
  /\ \A t \in ledger : Whole(t) =>
       /\ t.lots > 0
       /\ \A row \in {mem, disk} : row.amount = 0 \/ row.due = t

\* Of the bookings of the whole close there is at most one.
CloseBookedOnce ==
  \A t, u \in ledger : Whole(t) /\ Whole(u) => t = u

Inv ==
  /\ TypeOK /\ Flattened /\ Working /\ Tracked /\ Together /\ WrittenAhead
  /\ CloseBookedOnce

\* What has to hold where an operation has got to.
AtPlace ==
  /\ pc \in Ending => pos = 0
  /\ Working
  /\ pc # "idle" => mem.amount > 0
  /\ pc \in Closing => mem.due = NotDue
  /\ pc = "save" => mem.due = disk.due /\ mem.due.lots > 0

\* What a step makes of a copy of the row: the bookings change only when the
\* position is gone, and the intent of an order that may trade is not dropped.
KeepsTrack(row) ==
  \A i \in Orders \ missed' :
    Live(i) /\ pos > 0 /\ mem.intent = i => row.intent = i

Follows(row) ==
  \/ row = disk
  \/ /\ row \in Rows /\ KeepsTrack(row)
     /\ row.amount > 0 /\ mem.amount > 0
     /\ row.due = mem.due
        \/ (mem.due = NotDue /\ pos = 0 /\ row.due.lots > 0 /\ Whole(row.due))
     /\ row.booked = mem.booked \/ pos = 0

RowsFollow ==
  \/ UNCHANGED <<mem, disk>>
  \/ disk' = mem /\ mem' = mem
  \/ Follows(mem') /\ Follows(disk')
  \/ pos = 0 /\ mem' = NoRow /\ disk' = NoRow

-----------------------------------------------------------------------------
(* The rows the operations write.                                          *)

\* The bookings of the row are as before.
Alike(r, s) ==
  /\ r \in Rows /\ r.due = s.due /\ r.booked = s.booked
  /\ r.amount = 0 <=> s.amount = 0

LEMMA ClearedRow ==
  ASSUME NEW row \in Rows
  PROVE Alike(Cleared(row), row) /\ Cleared(row).intent = 0
                                 /\ Cleared(row).amount = row.amount
<1>1. Cleared(row) \in Rows
  <2>1. 0 \in 0..Lots /\ 0 \in 0..MaxOrders
    BY ExitAssumption
  <2> QED BY <2>1 DEF Rows, Cleared
<1>2. /\ Cleared(row).due = row.due /\ Cleared(row).booked = row.booked
      /\ Cleared(row).intent = 0 /\ Cleared(row).amount = row.amount
  BY DEF Rows, Cleared
<1> QED BY <1>1, <1>2 DEF Alike

LEMMA FlatRow ==
  ASSUME NEW row \in Rows
  PROVE Alike(Flat(row), row) /\ Flat(row).intent = 0
<1> DEFINE flat == [row EXCEPT !.flat = TRUE]
<1>1. flat \in Rows /\ flat.due = row.due /\ flat.booked = row.booked
      /\ flat.amount = row.amount
  BY DEF Rows
<1>2. Flat(row) = Cleared(flat)
  BY DEF Flat
<1> QED BY <1>1, <1>2, ClearedRow DEF Alike

LEMMA KeptRow ==
  ASSUME NEW row \in Rows, NEW closed \in BOOLEAN
  PROVE /\ Alike(Kept(row, closed), row)
        /\ Kept(row, closed).intent = row.intent
           \/ (closed /\ Kept(row, closed).intent = 0)
BY FlatRow DEF Kept, Alike

LEMMA EvidenceRow ==
  ASSUME TypeOK, ~Conflict
  PROVE /\ Alike(Evidence, mem)
        /\ Evidence.intent = mem.intent \/ (seen.terminal /\ Evidence.intent = 0)
<1> DEFINE row == [mem EXCEPT !.fragment = Fragment]
<1>1. CASE seen.filled = 0
  BY <1>1 DEF Evidence, Alike, TypeOK
<1>2. CASE seen.filled # 0
  <2>1. Fragment \in 0..Lots
    BY <1>2, ExitAssumption DEF Conflict, Fragment, TypeOK, Rows, Looks
  <2>2. row \in Rows /\ row.due = mem.due /\ row.booked = mem.booked
        /\ row.amount = mem.amount /\ row.intent = mem.intent
    BY <2>1 DEF TypeOK, Rows, Looks
  <2>3. Evidence = IF seen.terminal THEN Cleared(row) ELSE row
    BY <1>2 DEF Evidence
  <2> QED BY <2>2, <2>3, ClearedRow DEF Alike
<1> QED BY <1>1, <1>2

LEMMA NextOrder ==
  ASSUME Spare
  PROVE NextId \in Orders /\ order[NextId] = Unsent /\ disk.intent # NextId
BY DEF Spare, NextId

LEMMA IntendedRow ==
  ASSUME TypeOK, mem.intent = 0 => Spare
  PROVE /\ Alike(Intended, mem) /\ Intended.intent \in Orders
        /\ mem.intent # 0 => Intended = mem
<1>1. CASE mem.intent = 0
  <2>1. NextId \in Orders
    BY <1>1, NextOrder
  <2>2. Residual(mem) \in 0..Lots
    BY ExitAssumption DEF Residual, TypeOK, Rows, Looks
  <2>3. Intended = [mem EXCEPT !.intent = NextId, !.base = mem.fragment,
                               !.want = Residual(mem)]
    BY <1>1 DEF Intended
  <2>4. Intended \in Rows
    <3>1. NextId \in 0..MaxOrders
      BY <2>1, ExitAssumption DEF Orders
    <3> QED BY <2>2, <2>3, <3>1 DEF TypeOK, Rows, Looks
  <2>5. /\ Intended.due = mem.due /\ Intended.booked = mem.booked
        /\ Intended.amount = mem.amount /\ Intended.intent = NextId
    BY <2>3 DEF TypeOK, Rows, Looks
  <2> QED BY <1>1, <2>1, <2>4, <2>5 DEF Alike
<1>2. CASE mem.intent # 0
  <2>1. Intended = mem
    BY <1>2 DEF Intended
  <2>2. mem.intent \in 0..MaxOrders /\ mem \in Rows
    BY DEF TypeOK, Rows, Looks
  <2>3. mem.intent \in Orders
    BY <1>2, <2>2, ExitAssumption DEF Orders
  <2> QED BY <1>2, <2>1, <2>2, <2>3 DEF Alike
<1> QED BY <1>1, <1>2

LEMMA DueRow ==
  ASSUME TypeOK, NEW key \in {Receipt, NoReceipt}, NEW lots \in Nat
  PROVE /\ Due(key, lots) \in Rows
        /\ Due(key, lots).due = Trade(key, lots) /\ Due(key, lots).booked = mem.booked
        /\ Due(key, lots).amount = mem.amount /\ Due(key, lots).intent = mem.intent
        /\ Whole(Trade(key, lots)) /\ Trade(key, lots).lots = lots
BY DEF Due, Trade, Trades, TypeOK, Rows, Whole, Receipt, NoReceipt

LEMMA OfflineRowFacts ==
  ASSUME TypeOK, mem.amount > 0
  PROVE /\ OfflineRow \in Rows /\ OfflineRow.booked = mem.booked
        /\ OfflineRow.amount = mem.amount /\ OfflineRow.intent = mem.intent
        /\ mem.due # NotDue => OfflineRow.due = mem.due
        /\ mem.due = NotDue => OfflineRow.due.lots > 0 /\ Whole(OfflineRow.due)
<1>1. Total \in Nat /\ Total > 0
  BY ExitAssumption DEF Total, TypeOK, Rows, Looks
<1>2. CASE mem.due # NotDue
  BY <1>2 DEF OfflineRow, TypeOK
<1>3. CASE mem.due = NotDue
  BY <1>1, <1>3, DueRow DEF OfflineRow
<1> QED BY <1>2, <1>3

LEMMA PartRows ==
  ASSUME TypeOK
  PROVE /\ Alike(PartsLeft, mem) /\ PartsLeft.intent = mem.intent
        /\ PartsLeft.amount = mem.amount
        /\ 0 < seen.left /\ seen.left < mem.amount =>
             /\ Part \in Partials
             /\ Alike(Shrunk, mem) /\ Shrunk.intent = mem.intent
             /\ Alike(Unpriced, mem) /\ Unpriced.intent = mem.intent
<1>1. Alike(PartsLeft, mem) /\ PartsLeft.intent = mem.intent
      /\ PartsLeft.amount = mem.amount
  BY DEF PartsLeft, TypeOK, Rows, Looks, Alike
<1>2. ASSUME 0 < seen.left, seen.left < mem.amount
      PROVE /\ Part \in Partials
            /\ Alike(Shrunk, mem) /\ Shrunk.intent = mem.intent
  <2>1. Part \in Partials
    BY <1>2, ExitAssumption DEF Part, Partials, TypeOK, Rows, Looks
  <2>2. Shrunk \in Rows
    BY <2>1 DEF Shrunk, TypeOK, Rows, Looks
  <2>3. /\ Shrunk.due = mem.due /\ Shrunk.booked = mem.booked
        /\ Shrunk.amount = seen.left /\ Shrunk.intent = mem.intent
    BY DEF Shrunk, TypeOK, Rows, Looks
  <2>4. mem.amount # 0 /\ seen.left # 0
    BY <1>2, ExitAssumption DEF TypeOK, Rows, Looks
  <2> QED BY <2>1, <2>2, <2>3, <2>4 DEF Alike
<1>3. ASSUME 0 < seen.left, seen.left < mem.amount
      PROVE Alike(Unpriced, mem) /\ Unpriced.intent = mem.intent
  <2>1. mem.amount - seen.left \in Nat /\ mem.amount # 0 /\ seen.left # 0
    BY <1>3, ExitAssumption DEF TypeOK, Rows, Looks
  <2>2. Unpriced \in Rows
    <3>1. mem.unpriced + (mem.amount - seen.left) \in Nat
      BY <2>1 DEF TypeOK, Rows, Looks
    <3>2. seen.left \in 0..Lots
      BY DEF TypeOK, Looks
    <3> QED BY <3>1, <3>2 DEF Unpriced, TypeOK, Rows, Looks
  <2>3. /\ Unpriced.due = mem.due /\ Unpriced.booked = mem.booked
        /\ Unpriced.amount = seen.left /\ Unpriced.intent = mem.intent
    BY DEF Unpriced, TypeOK, Rows, Looks
  <2> QED BY <2>1, <2>2, <2>3 DEF Alike
<1> QED BY <1>1, <1>2, <1>3


LEMMA AlikeFollows ==
  ASSUME TypeOK, mem.amount > 0, NEW row, Alike(row, mem), KeepsTrack(row)
  PROVE Follows(row)
BY ExitAssumption DEF Alike, Follows, TypeOK, Rows

LEMMA SameTrack ==
  ASSUME NEW row, row.intent = mem.intent \/ mem.intent = 0 \/ pos = 0
  PROVE KeepsTrack(row)
BY DEF KeepsTrack, Orders

\* A write of a row that only bears fresh evidence.
LEMMA QuietWrite ==
  ASSUME TypeOK, mem.amount > 0, NEW row, Alike(row, mem), KeepsTrack(row),
         Persist(row) \/ PersistFails(row)
  PROVE RowsFollow
<1>1. Follows(row) /\ Follows(disk)
  BY AlikeFollows DEF Follows
<1> QED BY <1>1 DEF RowsFollow, Persist, PersistFails

LEMMA SameRow == ASSUME TypeOK PROVE Alike(mem, mem) /\ KeepsTrack(mem)
BY DEF Alike, KeepsTrack, TypeOK

LEMMA KeptEvidence ==
  ASSUME Inv, pc = "cover", NEW row, NEW closed \in BOOLEAN, closed => pos = 0,
         row = mem \/ (row = Evidence /\ ~Conflict)
  PROVE Alike(Kept(row, closed), mem) /\ KeepsTrack(Kept(row, closed))
<1> USE DEF Inv
<1>1. Alike(row, mem) /\ (row.intent = mem.intent \/ (seen.terminal /\ row.intent = 0))
  BY EvidenceRow, SameRow
<1>2. /\ Alike(Kept(row, closed), row)
      /\ Kept(row, closed).intent = row.intent \/ pos = 0
  BY <1>1, KeptRow DEF Alike
<1>3. seen.terminal => ~Live(mem.intent)
  BY DEF Working, Sent, Live
<1>4. KeepsTrack(Kept(row, closed))
  BY <1>1, <1>2, <1>3, SameTrack DEF KeepsTrack
<1> QED BY <1>1, <1>2, <1>4 DEF Alike

LEMMA WriteFollows ==
  ASSUME Inv, pc = "write"
  PROVE Follows(Cleared(Due(Receipt, mem.amount)))
<1> DEFINE row == Due(Receipt, mem.amount)
<1>1. mem.amount \in Nat /\ mem.amount > 0 /\ pos = 0 /\ mem.due = NotDue
  BY ExitAssumption DEF Inv, TypeOK, Rows, Together, Flattened, Ending,
                        WrittenAhead, Closing
<1>2. /\ row \in Rows /\ row.due.lots > 0 /\ Whole(row.due)
      /\ row.amount = mem.amount /\ row.booked = mem.booked
  BY <1>1, DueRow DEF Inv
<1>3. Alike(Cleared(row), row) /\ Cleared(row).amount = row.amount
  BY <1>2, ClearedRow
<1>4. KeepsTrack(Cleared(row))
  BY <1>1, SameTrack
<1> QED BY <1>1, <1>2, <1>3, <1>4 DEF Follows, Alike

LEMMA OfflineFollows ==
  ASSUME Inv, pc \in {"replay", "offline"}
  PROVE Follows(OfflineRow)
<1>1. mem.amount > 0 /\ pos = 0
  BY DEF Inv, Together, Flattened, Ending
<1>2. KeepsTrack(OfflineRow)
  BY <1>1, SameTrack
<1> QED BY <1>1, <1>2, OfflineRowFacts DEF Inv, Follows

LEMMA BookedFollows ==
  ASSUME Inv, pc = "cleanup"
  PROVE Follows([mem EXCEPT !.booked = TRUE])
<1> DEFINE row == [mem EXCEPT !.booked = TRUE]
<1>1. mem.amount > 0 /\ pos = 0
  BY DEF Inv, Together, Flattened, Ending
<1>2. row \in Rows /\ row.amount = mem.amount /\ row.due = mem.due
  BY DEF Inv, TypeOK, Rows
<1>3. KeepsTrack(row)
  BY <1>1, SameTrack
<1> QED BY <1>1, <1>2, <1>3 DEF Follows

LEMMA FailedWrite ==
  ASSUME NEW row, Follows(row), PersistFails(row)
  PROVE RowsFollow
BY DEF Follows, PersistFails, RowsFollow

LEMMA RowStep ==
  ASSUME Inv, [Next]_vars
  PROVE RowsFollow
<1> USE DEF Inv
<1>1. ASSUME RewriteParts PROVE RowsFollow
  <2>1. pc # "idle" /\ (Persist(mem) \/ PersistFails(mem))
    BY <1>1 DEF RewriteParts, Persist, PersistFails, Go
  <2>2. Alike(mem, mem) /\ KeepsTrack(mem)
    BY SameRow
  <2> QED BY <2>1, <2>2, QuietWrite DEF Together
<1>2. ASSUME CheckGuarded PROVE RowsFollow
  <2>1. pc # "idle" /\ (Persist(mem) \/ PersistFails(mem))
    BY <1>2 DEF CheckGuarded, Persist, PersistFails, Go
  <2>2. Alike(mem, mem) /\ KeepsTrack(mem)
    BY SameRow
  <2> QED BY <2>1, <2>2, QuietWrite DEF Together
<1>3. ASSUME Rewrite PROVE RowsFollow
  <2>1. pc # "idle" /\ (Persist(mem) \/ PersistFails(mem))
    BY <1>3 DEF Rewrite, Persist, PersistFails, Go
  <2>2. Alike(mem, mem) /\ KeepsTrack(mem)
    BY SameRow
  <2> QED BY <2>1, <2>2, QuietWrite DEF Together
<1>4. ASSUME ClearParts PROVE RowsFollow
  <2>1. pc # "idle" /\ (Persist(PartsLeft) \/ PersistFails(PartsLeft))
    BY <1>4 DEF ClearParts, Persist, PersistFails, Go
  <2>2. Alike(PartsLeft, mem) /\ KeepsTrack(PartsLeft)
    BY PartRows, SameTrack
  <2> QED BY <2>1, <2>2, QuietWrite DEF Together
<1>5. ASSUME ClearPart PROVE RowsFollow
  <2>1. pc # "idle" /\ (Persist(PartsLeft) \/ PersistFails(PartsLeft))
    BY <1>5 DEF ClearPart, Persist, PersistFails, Go
  <2>2. Alike(PartsLeft, mem) /\ KeepsTrack(PartsLeft)
    BY PartRows, SameTrack
  <2> QED BY <2>1, <2>2, QuietWrite DEF Together
<1>6. ASSUME EnsureIntent PROVE RowsFollow
  <2>1. pc # "idle" /\ (Persist(Intended) \/ PersistFails(Intended))
    BY <1>6 DEF EnsureIntent, Persist, PersistFails, Go
  <2>2. Alike(Intended, mem) /\ KeepsTrack(Intended)
    BY <1>6, IntendedRow, SameTrack DEF EnsureIntent
  <2> QED BY <2>1, <2>2, QuietWrite DEF Together
<1>7. ASSUME DeferFlat PROVE RowsFollow
  <2>1. pc # "idle" /\ (Persist(Flat(mem)) \/ PersistFails(Flat(mem)))
    BY <1>7 DEF DeferFlat, Persist, PersistFails, Go
  <2>2. Alike(Flat(mem), mem) /\ KeepsTrack(Flat(mem))
    BY <1>7, FlatRow, SameTrack DEF DeferFlat, TypeOK, Flattened, Ending
  <2> QED BY <2>1, <2>2, QuietWrite DEF Together
<1>8. ASSUME ClearIntent PROVE RowsFollow
  <2>1. pc # "idle" /\ (Persist(Cleared(mem)) \/ PersistFails(Cleared(mem)))
    BY <1>8 DEF ClearIntent, Void, Persist, PersistFails, Go
  <2>2. Alike(Cleared(mem), mem) /\ KeepsTrack(Cleared(mem))
    BY <1>8, ClearedRow DEF ClearIntent, Void, Misses, KeepsTrack, Live, Sent,
                            TypeOK
  <2> QED BY <2>1, <2>2, QuietWrite DEF Together
<1>9. ASSUME ShrinkPriced PROVE RowsFollow
  <2>1. pc # "idle" /\ (Persist(Shrunk) \/ PersistFails(Shrunk))
    BY <1>9 DEF ShrinkPriced, Persist, PersistFails, Go
  <2>2. Alike(Shrunk, mem) /\ KeepsTrack(Shrunk)
    BY <1>9, PartRows, SameTrack DEF ShrinkPriced, Working
  <2> QED BY <2>1, <2>2, QuietWrite DEF Together
<1>10. ASSUME ShrinkUnpriced PROVE RowsFollow
  <2>1. pc = "shrink" /\ Persist(Unpriced)
    BY <1>10 DEF ShrinkUnpriced
  <2>2. Alike(Unpriced, mem) /\ KeepsTrack(Unpriced)
    BY <2>1, PartRows, SameTrack DEF Working
  <2> QED BY <2>1, <2>2, QuietWrite DEF Together
<1>11. ASSUME CoverVerified PROVE RowsFollow
  <2>1. pc = "cover" /\ ~Conflict
        /\ (Persist(Kept(Evidence, pos = 0)) \/ UNCHANGED <<mem, disk>>)
    BY <1>11 DEF CoverVerified, Cover
  <2>2. Alike(Kept(Evidence, pos = 0), mem) /\ KeepsTrack(Kept(Evidence, pos = 0))
    BY <2>1, KeptEvidence
  <2>3. CASE UNCHANGED <<mem, disk>>
    BY <2>3 DEF RowsFollow
  <2> QED BY <2>1, <2>2, <2>3, QuietWrite DEF Together
<1>12. ASSUME CoverUnverified PROVE RowsFollow
  <2>1. pc = "cover" /\ ~Conflict
        /\ (Persist(Kept(Evidence, FALSE)) \/ UNCHANGED <<mem, disk>>)
    BY <1>12 DEF CoverUnverified, Cover
  <2>2. Alike(Kept(Evidence, FALSE), mem) /\ KeepsTrack(Kept(Evidence, FALSE))
    BY <2>1, KeptEvidence
  <2>3. CASE UNCHANGED <<mem, disk>>
    BY <2>3 DEF RowsFollow
  <2> QED BY <2>1, <2>2, <2>3, QuietWrite DEF Together
<1>13. ASSUME CoverUnpriced PROVE RowsFollow
  <2>1. pc = "cover"
        /\ (Persist(Kept(mem, pos = 0)) \/ UNCHANGED <<mem, disk>>)
    BY <1>13 DEF CoverUnpriced, Cover
  <2>2. Alike(Kept(mem, pos = 0), mem) /\ KeepsTrack(Kept(mem, pos = 0))
    BY <2>1, KeptEvidence
  <2>3. CASE UNCHANGED <<mem, disk>>
    BY <2>3 DEF RowsFollow
  <2> QED BY <2>1, <2>2, <2>3, QuietWrite DEF Together
<1>14. ASSUME Write PROVE RowsFollow
  <2> DEFINE row == Cleared(Due(Receipt, mem.amount))
  <2>1. pc = "write" /\ Persist(row)
    BY <1>14 DEF Write
  <2>2. Follows(row)
    BY <2>1, WriteFollows
  <2> QED BY <2>1, <2>2 DEF RowsFollow, Persist
<1>15. ASSUME RecordOffline PROVE RowsFollow
  <2>1. pc \in {"replay", "offline"} /\ Persist(OfflineRow)
    BY <1>15 DEF RecordOffline
  <2>2. Follows(OfflineRow)
    BY <2>1, OfflineFollows
  <2> QED BY <2>1, <2>2 DEF RowsFollow, Persist
<1>16. ASSUME Cleanup PROVE RowsFollow
  <2> DEFINE row == [mem EXCEPT !.booked = TRUE]
  <2>1. pc = "cleanup" /\ (Persist(NoRow) \/ Persist(row))
    BY <1>16 DEF Cleanup
  <2>2. pos = 0 /\ Follows(row)
    BY <2>1, BookedFollows DEF Flattened, Ending
  <2> QED BY <2>1, <2>2 DEF RowsFollow, Persist
<1>17. ASSUME WriteFails PROVE RowsFollow
  <2>1. ASSUME pc = "parts", PersistFails(mem) PROVE RowsFollow
    <3>1. Alike(mem, mem) /\ KeepsTrack(mem)
      BY SameRow
    <3> QED BY <2>1, <3>1, QuietWrite DEF Together
  <2>2. ASSUME pc = "clearparts", PersistFails(PartsLeft) PROVE RowsFollow
    <3>1. Alike(PartsLeft, mem) /\ KeepsTrack(PartsLeft)
      BY PartRows, SameTrack
    <3> QED BY <2>2, <3>1, QuietWrite DEF Together
  <2>3. ASSUME pc = "check", PersistFails(mem) PROVE RowsFollow
    <3>1. Alike(mem, mem) /\ KeepsTrack(mem)
      BY SameRow
    <3> QED BY <2>3, <3>1, QuietWrite DEF Together
  <2>4. ASSUME pc = "intent", mem.intent = 0 => Spare, PersistFails(Intended)
        PROVE RowsFollow
    <3>1. Alike(Intended, mem) /\ KeepsTrack(Intended)
      BY <2>4, IntendedRow, SameTrack
    <3> QED BY <2>4, <3>1, QuietWrite DEF Together
  <2>5. ASSUME pc = "write", PersistFails(Cleared(Due(Receipt, mem.amount)))
        PROVE RowsFollow
    BY <2>5, FailedWrite, WriteFollows
  <2>6. ASSUME pc = "rewrite", PersistFails(mem) PROVE RowsFollow
    <3>1. Alike(mem, mem) /\ KeepsTrack(mem)
      BY SameRow
    <3> QED BY <2>6, <3>1, QuietWrite DEF Together
  <2>7. ASSUME pc \in {"replay", "offline"}, PersistFails(OfflineRow) PROVE RowsFollow
    BY <2>7, FailedWrite, OfflineFollows
  <2>8. ASSUME pc = "shrink", NEW row \in {Shrunk, Unpriced}, PersistFails(row)
        PROVE RowsFollow
    <3>1. Alike(row, mem) /\ KeepsTrack(row)
      BY <2>8, PartRows, SameTrack DEF Working
    <3> QED BY <2>8, <3>1, QuietWrite DEF Together
  <2>9. ASSUME pc = "clearpart", PersistFails(PartsLeft) PROVE RowsFollow
    <3>1. Alike(PartsLeft, mem) /\ KeepsTrack(PartsLeft)
      BY PartRows, SameTrack
    <3> QED BY <2>9, <3>1, QuietWrite DEF Together
  <2>10. ASSUME pc = "cleanup", PersistFails([mem EXCEPT !.booked = TRUE])
         PROVE RowsFollow
    BY <2>10, FailedWrite, BookedFollows
  <2> QED BY <1>17, <2>1, <2>2, <2>3, <2>4, <2>5, <2>6, <2>7, <2>8, <2>9,
             <2>10
             DEF WriteFails
<1>18. ASSUME EvidenceNotDurable PROVE RowsFollow
  <2>1. ASSUME pc = "flat", PersistFails(Flat(mem)) PROVE RowsFollow
    <3>1. Alike(Flat(mem), mem) /\ KeepsTrack(Flat(mem))
      BY <2>1, FlatRow, SameTrack DEF TypeOK, Flattened, Ending
    <3> QED BY <2>1, <3>1, QuietWrite DEF Together
  <2>2. ASSUME NEW row \in {mem, Evidence}, pc = "cover", ~Conflict,
               PersistFails(Kept(row, pos = 0))
        PROVE RowsFollow
    <3>1. Alike(Kept(row, pos = 0), mem) /\ KeepsTrack(Kept(row, pos = 0))
      BY <2>2, KeptEvidence
    <3> QED BY <2>2, <3>1, QuietWrite DEF Together
  <2> QED BY <1>18, <2>1, <2>2 DEF EvidenceNotDurable
<1>19. ASSUME ClearFails PROVE RowsFollow
  <2>1. pc = "lookup" /\ mem' = mem /\ disk' \in {disk, mem, Cleared(mem)}
    BY <1>19 DEF ClearFails, Void
  <2>2. Alike(Cleared(mem), mem) /\ KeepsTrack(Cleared(mem))
    BY <1>19, ClearedRow DEF ClearFails, Void, Misses, KeepsTrack, Live, Sent,
                             TypeOK
  <2>3. Follows(mem) /\ Follows(Cleared(mem)) /\ Follows(disk)
    BY <2>1, <2>2, SameRow, AlikeFollows DEF Together, Follows
  <2> QED BY <2>1, <2>3 DEF RowsFollow
<1>20. ASSUME SaveRetry PROVE RowsFollow
  BY <1>20 DEF SaveRetry, RowsFollow
<1>21. ASSUME Crash PROVE RowsFollow
  BY <1>21 DEF Crash, RowsFollow, Follows
<1>22. ASSUME (\E i \in Orders : Arrive(i) \/ Fill(i) \/ Finish(i))
              \/ OthersClose \/ MonitorStarts \/ ReconcileGone
              \/ ReconcileLess \/ SaveParts \/ CheckBooked \/ CheckDue
              \/ CheckNothing \/ CheckExit \/ NoOrderLeft \/ Send \/ Answered
              \/ AnsweredFlat \/ Found \/ CoverConflict \/ Save
              \/ OfflineRefused \/ SaveRefused \/ SavePart \/ CallFails \/ SaveSomeParts
              \/ UNCHANGED vars
       PROVE RowsFollow
  BY <1>22 DEF RowsFollow, venue, Arrive, Fill, Finish, OthersClose,
               MonitorStarts, Starts, Open, Gone, ReconcileGone,
               ReconcileLess, SaveParts, CheckBooked, Check, CheckDue,
               CheckNothing, CheckExit, CanExit, InPosition, NoOrderLeft,
               Send, Answered, AnsweredFlat, Found, CoverConflict, Save,
               OfflineRefused, SaveRefused, SavePart, CallFails, Ends, SaveSomeParts, vars
<1> QED BY <1>1, <1>2, <1>3, <1>4, <1>5, <1>6, <1>7, <1>8, <1>9, <1>10, <1>11,
           <1>12, <1>13, <1>14, <1>15, <1>16, <1>17, <1>18, <1>19, <1>20,
           <1>21, <1>22
           DEF Next, Step, Failure


LEMMA VenueStep ==
  ASSUME Inv, [Next]_vars
  PROVE /\ pos' \in 0..Lots /\ pos' <= pos
        /\ order' \in [Orders -> OrderStates]
        /\ missed' \subseteq Orders /\ missed \subseteq missed'
        /\ \A i \in Orders :
             /\ Live(i)' => Live(i) \/ (Send /\ i = mem.intent)
             /\ order'[i].st = "refused" => pos' = 0
             /\ order[i].st = "done" /\ ~Send => order'[i].st = "done"
<1> DEFINE Goal == /\ pos' \in 0..Lots /\ pos' <= pos
                   /\ order' \in [Orders -> OrderStates]
                   /\ missed' \subseteq Orders /\ missed \subseteq missed'
                   /\ \A i \in Orders :
                        /\ Live(i)' => Live(i) \/ (Send /\ i = mem.intent)
                        /\ order'[i].st = "refused" => pos' = 0
                        /\ order[i].st = "done" /\ ~Send => order'[i].st = "done"
<1> USE ExitAssumption DEF Inv
<1>1. ASSUME NEW i \in Orders, Arrive(i) PROVE Goal
  BY <1>1 DEF Arrive, TypeOK, OrderStates, Flattened, Live
<1>2. ASSUME NEW i \in Orders, Fill(i) PROVE Goal
  <2>1. order[i].filled + 1 \in 0..Lots
    BY <1>2 DEF Fill, TypeOK, OrderStates
  <2> QED BY <1>2, <2>1 DEF Fill, TypeOK, OrderStates, Flattened, Live
<1>3. ASSUME NEW i \in Orders, Finish(i) PROVE Goal
  BY <1>3 DEF Finish, TypeOK, OrderStates, Flattened, Live
<1>4. ASSUME OthersClose PROVE Goal
  BY <1>4 DEF OthersClose, TypeOK, Flattened, Live
<1>5. ASSUME Send PROVE Goal
  <2>1. mem.want \in 0..Lots /\ mem.intent \in Orders
    BY <1>5 DEF Send, TypeOK, Rows, Working
  <2> QED BY <1>5, <2>1 DEF Send, TypeOK, OrderStates, Flattened, Live
<1>6. ASSUME ClearIntent \/ ClearFails PROVE Goal
  <2>1. mem.intent \in Orders
    BY <1>6 DEF ClearIntent, ClearFails, Void, Working
  <2> QED BY <1>6, <2>1 DEF ClearIntent, ClearFails, Misses, venue, TypeOK,
                            Flattened, Live
<1>7. ASSUME UNCHANGED <<pos, order, missed>> PROVE Goal
  BY <1>7 DEF TypeOK, Flattened, Live
<1>8. ASSUME Step, ~Send, ~ClearIntent PROVE UNCHANGED <<pos, order, missed>>
  BY <1>8 DEF Step, venue, RewriteParts, SaveParts, ClearParts, CheckBooked,
              CheckDue, CheckNothing, CheckExit, Check, CheckGuarded,
              EnsureIntent, NoOrderLeft, Answered, AnsweredFlat, DeferFlat,
              Found, CoverConflict, CoverVerified, Cover, Write, Save,
              Cleanup, Rewrite, RecordOffline, OfflineRefused, SaveRefused, ShrinkPriced,
              ShrinkUnpriced, SavePart, ClearPart
<1>9. ASSUME Failure, ~ClearFails PROVE UNCHANGED <<pos, order, missed>>
  BY <1>9 DEF Failure, venue, WriteFails, EvidenceNotDurable, CoverUnpriced,
              Cover, CoverUnverified, CallFails, SaveSomeParts, Ends
<1>10. ASSUME MonitorStarts \/ ReconcileGone \/ ReconcileLess \/ SaveRetry \/ Crash
              \/ UNCHANGED vars
       PROVE UNCHANGED <<pos, order, missed>>
  BY <1>10 DEF MonitorStarts, ReconcileGone, ReconcileLess, Starts, SaveRetry,
               Crash, vars, venue
<1> QED
  BY <1>1, <1>2, <1>3, <1>4, <1>5, <1>6, <1>7, <1>8, <1>9, <1>10 DEF Next

LEMMA PartBooked ==
  ASSUME NEW k \in Partials
  PROVE PartTrade(k) \in Trades /\ ~Whole(PartTrade(k))
BY ExitAssumption DEF PartTrade, Trade, Trades, Whole, Receipt, NoReceipt,
                      Partials

\* Besides parts, only what the row says is due gets booked.
LEMMA LedgerStep ==
  ASSUME Inv, [Next]_vars
  PROVE /\ ledger' \subseteq Trades
        /\ \A t \in ledger' : Whole(t) => t \in ledger \/ (Save /\ t = mem.due)
<1> DEFINE Goal == /\ ledger' \subseteq Trades
                   /\ \A t \in ledger' :
                        Whole(t) => t \in ledger \/ (Save /\ t = mem.due)
<1> USE DEF Inv
<1>1. ASSUME NEW parts \in SUBSET Partials,
             ledger' = ledger \cup {PartTrade(k) : k \in parts}
      PROVE Goal
  BY <1>1, PartBooked DEF TypeOK
<1>2. mem.parts \in SUBSET Partials /\ seen.saved \in SUBSET Partials
  BY DEF TypeOK, Rows, Looks
<1>3. ASSUME SaveParts \/ SavePart PROVE Goal
  BY <1>1, <1>2, <1>3 DEF SaveParts, SavePart
<1>4. ASSUME SaveSomeParts PROVE Goal
  <2>1. PICK saved \in SUBSET mem.parts :
          ledger' = ledger \cup {PartTrade(k) : k \in saved}
    BY <1>4 DEF SaveSomeParts
  <2> QED BY <1>1, <1>2, <2>1
<1>5. ASSUME Save PROVE Goal
  BY <1>5 DEF Save, Book, TypeOK, Rows
<1>6. ASSUME ledger' = ledger PROVE Goal
  BY <1>6 DEF TypeOK
<1>7. ASSUME Step, ~SaveParts, ~SavePart, ~Save PROVE ledger' = ledger
  BY <1>7 DEF Step, RewriteParts, ClearParts, CheckBooked, CheckDue,
              CheckNothing, CheckExit, Check, CheckGuarded, EnsureIntent,
              NoOrderLeft, Send, Answered, AnsweredFlat, DeferFlat, Found,
              ClearIntent, CoverConflict, CoverVerified, Cover, Write,
              Cleanup, Rewrite, RecordOffline, OfflineRefused, SaveRefused, ShrinkPriced,
              ShrinkUnpriced, ClearPart
<1>8. ASSUME Failure, ~SaveSomeParts PROVE ledger' = ledger
  BY <1>8 DEF Failure, WriteFails, EvidenceNotDurable, ClearFails,
              CoverUnpriced, Cover, CoverUnverified, CallFails, Ends
<1>9. ASSUME (\E i \in Orders : Arrive(i) \/ Fill(i) \/ Finish(i)) \/ OthersClose
             \/ MonitorStarts \/ ReconcileGone \/ ReconcileLess \/ SaveRetry \/ Crash
             \/ UNCHANGED vars
      PROVE ledger' = ledger
  BY <1>9 DEF Arrive, Fill, Finish, OthersClose, MonitorStarts, ReconcileGone,
              ReconcileLess, Starts, SaveRetry, Crash, vars
<1> QED
  BY <1>3, <1>4, <1>5, <1>6, <1>7, <1>8, <1>9 DEF Next

\* The margin a booking states is the one the operation has read.
LEMMA MarginStep ==
  ASSUME Inv, [Next]_vars
  PROVE margin' \in Nat
<1> USE DEF Inv
<1>1. margin \in Nat /\ seen.margin \in Nat
  BY DEF TypeOK, Looks
<1>2. ASSUME Save PROVE margin' = seen.margin
  BY <1>2 DEF Save, Book
<1>3. ASSUME Step, ~Save PROVE margin' = margin
  BY <1>3 DEF Step, RewriteParts, SaveParts, ClearParts, CheckBooked, CheckDue,
              CheckNothing, CheckExit, Check, CheckGuarded, EnsureIntent,
              NoOrderLeft, Send, Answered, AnsweredFlat, DeferFlat, Found,
              ClearIntent, CoverConflict, CoverVerified, Cover, Write,
              Cleanup, Rewrite, RecordOffline, OfflineRefused, SaveRefused,
              ShrinkPriced, ShrinkUnpriced, SavePart, ClearPart
<1>4. ASSUME Failure PROVE margin' = margin
  BY <1>4 DEF Failure, WriteFails, EvidenceNotDurable, ClearFails,
              CoverUnpriced, Cover, CoverUnverified, CallFails, SaveSomeParts,
              Ends
<1>5. ASSUME (\E i \in Orders : Arrive(i) \/ Fill(i) \/ Finish(i)) \/ OthersClose
             \/ MonitorStarts \/ ReconcileGone \/ ReconcileLess \/ SaveRetry \/ Crash
             \/ UNCHANGED vars
      PROVE margin' = margin
  BY <1>5 DEF Arrive, Fill, Finish, OthersClose, MonitorStarts, ReconcileGone,
              ReconcileLess, Starts, SaveRetry, Crash, vars
<1> QED BY <1>1, <1>2, <1>3, <1>4, <1>5 DEF Next

LEMMA SeenTyped ==
  ASSUME Inv
  PROVE /\ Nothing \in Looks
        /\ mem.intent \in Orders =>
             [seen EXCEPT !.filled = Sent.filled, !.terminal = Sent.st = "done"] \in Looks
        /\ pos < mem.amount => [seen EXCEPT !.left = pos] \in Looks
        /\ \A saved \in SUBSET Partials :
             /\ [seen EXCEPT !.saved = saved] \in Looks
             /\ [Nothing EXCEPT !.saved = saved] \in Looks
        /\ \A lots \in Nat : [Nothing EXCEPT !.margin = lots] \in Looks
<1>1. Nothing \in Looks
  BY ExitAssumption DEF Nothing, Looks
<1>2. mem.intent \in Orders => Sent.filled \in 0..Lots
  BY DEF Inv, TypeOK, OrderStates, Sent
<1> QED BY <1>1, <1>2 DEF Inv, TypeOK, Looks, Nothing

LEMMA SeenStep ==
  ASSUME Inv, [Next]_vars
  PROVE seen' \in Looks
<1> USE DEF Inv
<1>1. seen \in Looks
  BY DEF TypeOK
<1>2. ASSUME SaveParts \/ SaveSomeParts PROVE seen' \in Looks
  <2>1. PICK saved \in SUBSET mem.parts : seen' = [seen EXCEPT !.saved = saved]
    BY <1>2 DEF SaveParts, SaveSomeParts
  <2>2. saved \in SUBSET Partials
    BY <2>1 DEF TypeOK, Rows
  <2> QED BY <2>1, <2>2, SeenTyped
<1>3. ASSUME Answered \/ Found PROVE seen' \in Looks
  BY <1>3, SeenTyped DEF Answered, Found, Observe, Working
<1>4. ASSUME ReconcileLess PROVE seen' \in Looks
  BY <1>4, SeenTyped DEF ReconcileLess
<1>5. ASSUME ShrinkPriced PROVE seen' \in Looks
  BY <1>5, SeenTyped, PartRows DEF ShrinkPriced, Working
<1>9. ASSUME Write \/ RecordOffline PROVE seen' \in Looks
  <2>1. mem.amount \in Nat /\ Total \in Nat
    BY ExitAssumption DEF Total, TypeOK, Rows
  <2> QED BY <1>9, <2>1, SeenTyped DEF Write, RecordOffline, Stating
<1>6. ASSUME Step, ~SaveParts, ~Answered, ~Found, ~ShrinkPriced, ~Write,
             ~RecordOffline
      PROVE seen' \in {seen, Nothing}
  BY <1>6 DEF Step, Forget, RewriteParts, ClearParts, CheckBooked, CheckDue,
              CheckNothing, CheckExit, Check, CheckGuarded, EnsureIntent,
              NoOrderLeft, Send, AnsweredFlat, DeferFlat, ClearIntent,
              CoverConflict, CoverVerified, Cover, Write, Save, Cleanup,
              Rewrite, RecordOffline, OfflineRefused, SaveRefused, ShrinkUnpriced,
              SavePart, ClearPart
<1>7. ASSUME Failure, ~SaveSomeParts PROVE seen' \in {seen, Nothing}
  BY <1>7 DEF Failure, Forget, WriteFails, EvidenceNotDurable, ClearFails,
              CoverUnpriced, Cover, CoverUnverified, CallFails, Ends
<1>8. ASSUME (\E i \in Orders : Arrive(i) \/ Fill(i) \/ Finish(i)) \/ OthersClose
             \/ MonitorStarts \/ ReconcileGone \/ SaveRetry \/ Crash \/ UNCHANGED vars
      PROVE seen' \in {seen, Nothing}
  BY <1>8 DEF Arrive, Fill, Finish, OthersClose, MonitorStarts, ReconcileGone,
              Starts, SaveRetry, Crash, Forget, vars
<1> QED
  BY <1>1, <1>2, <1>3, <1>4, <1>5, <1>6, <1>7, <1>8, <1>9, SeenTyped DEF Next


LEMMA ControlTyped ==
  ASSUME Inv, [Next]_vars
  PROVE pc' \in Controls /\ blocked' \in BOOLEAN
<1> USE DEF Inv
<1>1. CASE Step
  BY <1>1 DEF Step, TypeOK, Controls, Go, Check, RewriteParts, SaveParts,
              ClearParts, CheckBooked, CheckDue, CheckNothing, CheckExit,
              CheckGuarded, EnsureIntent, NoOrderLeft, Send, Answered,
              AnsweredFlat, DeferFlat, Found, ClearIntent, CoverConflict,
              CoverVerified, Cover, Write, Save, Cleanup, Rewrite,
              RecordOffline, OfflineRefused, SaveRefused, ShrinkPriced, ShrinkUnpriced,
              SavePart, ClearPart
<1>2. CASE Failure
  BY <1>2 DEF Failure, TypeOK, Controls, Go, WriteFails, EvidenceNotDurable,
              ClearFails, CoverUnpriced, Cover, CoverUnverified, CallFails,
              Ends, SaveSomeParts
<1>3. ASSUME (\E i \in Orders : Arrive(i) \/ Fill(i) \/ Finish(i)) \/ OthersClose
             \/ MonitorStarts \/ ReconcileGone \/ ReconcileLess \/ SaveRetry \/ Crash
             \/ UNCHANGED vars
      PROVE pc' \in Controls /\ blocked' \in BOOLEAN
  BY <1>3 DEF Arrive, Fill, Finish, OthersClose, MonitorStarts, ReconcileGone,
              ReconcileLess, Starts, SaveRetry, Crash, vars, TypeOK, Controls,
              Go
<1> QED BY <1>1, <1>2, <1>3 DEF Next

LEMMA OpenRow ==
  ASSUME Inv, mem # NoRow
  PROVE mem.amount > 0
BY ExitAssumption DEF Inv, Together, TypeOK, Rows

LEMMA IdlePlace ==
  ASSUME pc' = "idle"
  PROVE AtPlace'
BY DEF AtPlace, Working, Ending, Closing

LEMMA PlaceStep ==
  ASSUME Inv, [Next]_vars
  PROVE AtPlace'
<1> USE DEF Inv
<1>1. AtPlace /\ pos \in Nat /\ pos' \in Nat /\ pos' <= pos
  BY VenueStep, ExitAssumption
     DEF AtPlace, Flattened, Together, WrittenAhead, TypeOK
<1>2. ASSUME (\E i \in Orders : Arrive(i) \/ Fill(i) \/ Finish(i)) \/ OthersClose
             \/ SaveRetry \/ UNCHANGED vars
      PROVE AtPlace'
  <2>1. UNCHANGED <<mem, seen, pc>> /\ disk' \in {disk, mem} /\ ~Send
    BY <1>2 DEF Arrive, Fill, Finish, OthersClose, SaveRetry, vars, Send, Go,
                TypeOK
  <2> QED BY <1>1, <2>1, VenueStep DEF AtPlace, Working, Sent, Ending
<1>3. ASSUME MonitorStarts PROVE AtPlace'
  BY <1>3, <1>1, OpenRow DEF MonitorStarts, Starts, Open, Gone, AtPlace,
                             Working, Ending, Closing, Go, venue
<1>4. ASSUME ReconcileGone PROVE AtPlace'
  BY <1>4, <1>1, OpenRow DEF ReconcileGone, Starts, Open, Gone, AtPlace,
                             Working, Ending, Closing, Go, venue
<1>5. ASSUME ReconcileLess PROVE AtPlace'
  <2>1. pc' = "shrink" /\ mem' = mem /\ 0 < pos /\ pos < mem.amount /\ seen'.left = pos
    BY <1>5 DEF ReconcileLess, Go, TypeOK, Looks
  <2>2. mem.amount > 0
    BY <1>1, <2>1, ExitAssumption DEF TypeOK, Rows
  <2> QED BY <2>1, <2>2 DEF AtPlace, Working, Ending, Closing
<1>6. ASSUME RewriteParts PROVE AtPlace'
  BY <1>6, <1>1 DEF RewriteParts, Persist, AtPlace, Working, Ending, Closing,
                    Go, venue
<1>7. ASSUME SaveParts PROVE AtPlace'
  BY <1>7, <1>1 DEF SaveParts, AtPlace, Working, Ending, Closing, Go, venue
<1>8. ASSUME CheckBooked PROVE AtPlace'
  BY <1>8, <1>1 DEF CheckBooked, Check, Flattened, AtPlace, Working, Ending,
                    Closing, Go, venue
<1>9. ASSUME CheckDue PROVE AtPlace'
  BY <1>9, <1>1 DEF CheckDue, Check, Flattened, AtPlace, Working, Ending,
                    Closing, Go, venue
<1>10. ASSUME CheckNothing PROVE AtPlace'
  BY <1>10, <1>1 DEF CheckNothing, Check, AtPlace, Working, Ending, Closing,
                     Go, venue
<1>11. ASSUME CheckExit PROVE AtPlace'
  BY <1>11, <1>1 DEF CheckExit, CanExit, InPosition, Check, AtPlace, Working,
                     Ending, Closing, Go, venue
<1>12. ASSUME CheckGuarded PROVE AtPlace'
  BY <1>12, <1>1 DEF CheckGuarded, CanExit, InPosition, Persist, AtPlace,
                     Working, Ending, Closing, Go, venue
<1>13. ASSUME Send PROVE AtPlace'
  BY <1>13, <1>1 DEF Send, AtPlace, Working, Ending, Closing, Go, venue
<1>14. ASSUME Answered PROVE AtPlace'
  BY <1>14, <1>1 DEF Answered, Observe, Sent, TypeOK, Looks, AtPlace, Working,
                     Ending, Closing, Go, venue
<1>15. ASSUME AnsweredFlat PROVE AtPlace'
  BY <1>15, <1>1 DEF AnsweredFlat, Sent, Flattened, AtPlace, Working, Ending,
                     Closing, Go, venue
<1>16. ASSUME Found PROVE AtPlace'
  BY <1>16, <1>1 DEF Found, Observe, Sent, TypeOK, Looks, AtPlace, Working,
                     Ending, Closing, Go, venue
<1>17. ASSUME Save PROVE AtPlace'
  BY <1>17, <1>1 DEF Save, Book, AtPlace, Working, Ending, Closing, Go, venue
<1>18. ASSUME Rewrite PROVE AtPlace'
  BY <1>18, <1>1 DEF Rewrite, Persist, AtPlace, Working, Ending, Closing, Go,
                     venue
<1>19. ASSUME SavePart PROVE AtPlace'
  BY <1>19, <1>1 DEF SavePart, AtPlace, Working, Ending, Closing, Go, venue
<1>20. ASSUME SaveSomeParts PROVE AtPlace'
  BY <1>20, <1>1 DEF SaveSomeParts, AtPlace, Working, Ending, Closing, Go,
                     venue
<1>21. ASSUME NoOrderLeft \/ DeferFlat \/ ClearIntent \/ CoverConflict
              \/ Cleanup \/ OfflineRefused \/ SaveRefused \/ ShrinkUnpriced \/ ClearPart
              \/ EvidenceNotDurable \/ ClearFails \/ CallFails \/ Crash
       PROVE AtPlace'
  BY <1>21, IdlePlace DEF NoOrderLeft, DeferFlat, ClearIntent, CoverConflict,
                          Cleanup, OfflineRefused, SaveRefused, ShrinkUnpriced, ClearPart,
                          EvidenceNotDurable, ClearFails, CallFails, Crash,
                          Ends, Go
<1>22. ASSUME ClearParts PROVE AtPlace'
  BY <1>22, <1>1, PartRows DEF ClearParts, Persist, Alike, AtPlace, Working,
                               Ending, Closing, Go, venue
<1>23. ASSUME EnsureIntent PROVE AtPlace'
  <2>1. /\ pc = "intent" /\ mem' = Intended /\ disk' = Intended
        /\ pc' \in {"send", "lookup"}
        /\ mem.intent = 0 => Spare
    BY <1>23 DEF EnsureIntent, Persist, Go
  <2>2. Alike(Intended, mem) /\ Intended.intent \in Orders
    BY <2>1, IntendedRow
  <2>3. Intended.amount > 0 /\ mem.due = NotDue
    BY <1>1, <2>1, <2>2, ExitAssumption DEF AtPlace, Closing, Alike, Rows
  <2> QED BY <2>1, <2>2, <2>3 DEF AtPlace, Working, Ending, Closing, Alike
<1>24. ASSUME CoverVerified PROVE AtPlace'
  <2>1. CASE pc' = "idle"
    BY <2>1, IdlePlace
  <2>2. CASE pc' # "idle"
    <3>1. pc = "cover" /\ pos = 0 /\ pc' = "write"
          /\ mem' \in {mem, Kept(Evidence, pos = 0)}
          /\ ~Conflict
      BY <1>24, <2>2 DEF CoverVerified, Cover, Go, Persist
    <3>2. Alike(mem', mem)
      BY <3>1, KeptEvidence, SameRow
    <3>3. mem'.due = mem.due /\ mem'.amount > 0
      BY <1>1, <3>1, <3>2, ExitAssumption DEF AtPlace, Alike, Rows
    <3> QED BY <1>1, <3>1, <3>3 DEF AtPlace, Working, Ending, Closing
  <2> QED BY <2>1, <2>2
<1>25. ASSUME CoverUnverified PROVE AtPlace'
  <2>1. CASE pc' = "idle"
    BY <2>1, IdlePlace
  <2>2. CASE pc' # "idle"
    <3>1. pc = "cover" /\ pos = 0 /\ pc' = "write"
          /\ mem' \in {mem, Kept(Evidence, FALSE)}
          /\ ~Conflict
      BY <1>25, <2>2 DEF CoverUnverified, Cover, Go, Persist
    <3>2. Alike(mem', mem)
      BY <3>1, KeptEvidence, SameRow
    <3>3. mem'.due = mem.due /\ mem'.amount > 0
      BY <1>1, <3>1, <3>2, ExitAssumption DEF AtPlace, Alike, Rows
    <3> QED BY <1>1, <3>1, <3>3 DEF AtPlace, Working, Ending, Closing
  <2> QED BY <2>1, <2>2
<1>26. ASSUME CoverUnpriced PROVE AtPlace'
  <2>1. CASE pc' = "idle"
    BY <2>1, IdlePlace
  <2>2. CASE pc' # "idle"
    <3>1. pc = "cover" /\ pos = 0 /\ pc' = "write"
          /\ mem' \in {mem, Kept(mem, pos = 0)}
      BY <1>26, <2>2 DEF CoverUnpriced, Cover, Go, Persist
    <3>2. Alike(mem', mem)
      BY <3>1, KeptEvidence, SameRow
    <3>3. mem'.due = mem.due /\ mem'.amount > 0
      BY <1>1, <3>1, <3>2, ExitAssumption DEF AtPlace, Alike, Rows
    <3> QED BY <1>1, <3>1, <3>3 DEF AtPlace, Working, Ending, Closing
  <2> QED BY <2>1, <2>2
<1>27. ASSUME Write PROVE AtPlace'
  <2> DEFINE row == Due(Receipt, mem.amount)
  <2>1. pc = "write" /\ Persist(Cleared(row)) /\ pc' = "save" /\ mem.amount \in Nat
    BY <1>27, ExitAssumption DEF Write, Go, TypeOK, Rows
  <2>2. /\ row \in Rows /\ row.amount = mem.amount /\ row.due.lots = mem.amount
    BY <2>1, DueRow
  <2>3. Cleared(row).amount = mem.amount /\ Cleared(row).due.lots = mem.amount
    BY <2>2, ClearedRow DEF Alike
  <2> QED BY <1>1, <2>1, <2>3 DEF AtPlace, Working, Ending, Closing, Persist
<1>28. ASSUME RecordOffline PROVE AtPlace'
  <2>1. pc \in {"replay", "offline"} /\ Persist(OfflineRow) /\ pc' = "save"
    BY <1>28 DEF RecordOffline, Go
  <2>2. OfflineRow.due.lots > 0 /\ OfflineRow.amount = mem.amount
    BY <1>1, <2>1, OfflineRowFacts DEF AtPlace, WrittenAhead
  <2> QED BY <1>1, <2>1, <2>2 DEF AtPlace, Working, Ending, Closing, Persist
<1>29. ASSUME ShrinkPriced PROVE AtPlace'
  <2>1. pc = "shrink" /\ mem' = Shrunk /\ pc' = "savepart"
    BY <1>29 DEF ShrinkPriced, Persist, Go
  <2>2. Shrunk.amount > 0
    BY <1>1, <2>1, PartRows, ExitAssumption DEF AtPlace, Working, Alike, Rows
  <2> QED BY <1>1, <2>1, <2>2 DEF AtPlace, Working, Ending, Closing
<1>30. ASSUME WriteFails PROVE AtPlace'
  <2>1. CASE pc' = "idle"
    BY <2>1, IdlePlace
  <2>2. CASE pc' # "idle"
    <3>1. pc' = "check" /\ mem' \in {mem, PartsLeft} /\ pc # "idle"
      BY <1>30, <2>2 DEF WriteFails, PersistFails, Ends, Go
    <3>2. mem'.amount = mem.amount
      BY <3>1, PartRows
    <3> QED BY <1>1, <3>1, <3>2 DEF AtPlace, Working, Ending, Closing
  <2> QED BY <2>1, <2>2
<1> QED
  BY <1>1, <1>2, <1>3, <1>4, <1>5, <1>6, <1>7, <1>8, <1>9, <1>10, <1>11,
     <1>12, <1>13, <1>14, <1>15, <1>16, <1>17, <1>18, <1>19, <1>20, <1>21,
     <1>22, <1>23, <1>24, <1>25, <1>26, <1>27, <1>28, <1>29, <1>30
     DEF Next, Step, Failure

-----------------------------------------------------------------------------
(* The invariant.                                                          *)

LEMMA NoRowTyped == NoRow \in Rows /\ Opened \in Rows
<1>1. NotDue \in Trades
  BY DEF NotDue, Trade, Trades, NoReceipt
<1>2. {} \in SUBSET Partials
  OBVIOUS
<1>3. NoRow \in Rows
  BY <1>1, <1>2, ExitAssumption DEF NoRow, Rows
<1>4. Lots \in 0..Lots
  BY ExitAssumption
<1> QED BY <1>3, <1>4 DEF Opened, Rows

LEMMA RowsTyped ==
  ASSUME Inv, [Next]_vars
  PROVE mem' \in Rows /\ disk' \in Rows
BY RowStep, NoRowTyped DEF Inv, TypeOK, RowsFollow, Follows

LEMMA BookingsStep ==
  ASSUME Inv, [Next]_vars
  PROVE \A row \in {mem, disk}' :
          /\ row.due # NotDue \/ row.booked => pos' = 0
          /\ row.due # NotDue => row.due.lots > 0 /\ Whole(row.due)
          /\ \A t \in ledger : Whole(t) => row.amount = 0 \/ row.due = t
<1> DEFINE Fine(row) ==
      /\ row.due # NotDue \/ row.booked => pos = 0
      /\ row.due # NotDue => row.due.lots > 0 /\ Whole(row.due)
      /\ \A t \in ledger : Whole(t) => row.amount = 0 \/ row.due = t
<1>1. Fine(mem) /\ Fine(disk)
  BY DEF Inv, Flattened, WrittenAhead
<1>2. \A t \in ledger : Whole(t) => t # NotDue
  <2>1. NotDue.lots = 0
    BY DEF NotDue, Trade
  <2>2. \A t \in ledger : Whole(t) => t.lots > 0
    BY DEF Inv, WrittenAhead
  <2> QED BY <2>1, <2>2
<1>3. ASSUME NEW row, Follows(row) PROVE Fine(row)
  <2>1. CASE row = disk
    BY <1>1, <2>1
  <2>2. CASE row # disk
    <3>1. mem.amount > 0 /\ mem.amount # 0
      BY <1>3, <2>2 DEF Follows, Inv, TypeOK, Rows
    <3> QED BY <1>1, <1>2, <1>3, <2>2, <3>1 DEF Follows
  <2> QED BY <2>1, <2>2
<1>4. pos = 0 => Fine(NoRow)
  BY DEF NoRow
<1>5. Fine(mem') /\ Fine(disk')
  BY <1>1, <1>3, <1>4, RowStep DEF RowsFollow
<1>6. pos = 0 => pos' = 0
  BY VenueStep, ExitAssumption DEF Inv, TypeOK
<1> QED BY <1>5, <1>6

LEMMA InvStep ==
  ASSUME Inv, [Next]_vars
  PROVE Inv'
<1>1. TypeOK'
  BY VenueStep, RowsTyped, LedgerStep, MarginStep, SeenStep, ControlTyped
     DEF TypeOK
<1>2. Flattened'
  BY VenueStep, PlaceStep, BookingsStep DEF Flattened, AtPlace
<1>3. Working'
  BY PlaceStep DEF AtPlace
<1>4. Tracked'
  <2> SUFFICES ASSUME NEW i \in Orders \ missed', Live(i)', pos' > 0
               PROVE mem'.intent = i /\ disk'.intent = i
    BY DEF Tracked
  <2>1. pos > 0 /\ i \in Orders \ missed
    BY VenueStep, ExitAssumption DEF Inv, TypeOK
  <2>2. CASE Send /\ i = mem.intent
    BY <2>2 DEF Send, Inv, Working
  <2>3. CASE Live(i)
    <3>1. mem.intent = i /\ disk.intent = i
      BY <2>1, <2>3 DEF Inv, Tracked
    <3> QED BY <2>1, <2>3, <3>1, RowStep, ExitAssumption
               DEF RowsFollow, Follows, KeepsTrack, Inv, TypeOK
  <2> QED BY <2>2, <2>3, VenueStep
<1>5. Together'
  <2>1. \A row \in {mem, disk}' : row.amount = 0 => row = NoRow
    BY RowStep, ExitAssumption
       DEF RowsFollow, Follows, Inv, TypeOK, Together, Rows
  <2>2. mem'.amount = 0 <=> disk'.amount = 0
    BY RowStep, ExitAssumption
       DEF RowsFollow, Follows, Inv, TypeOK, Together, Rows
  <2> QED BY <2>1, <2>2, PlaceStep DEF Together, AtPlace
<1>6. WrittenAhead'
  <2>1. ASSUME NEW t \in ledger', Whole(t)
        PROVE t.lots > 0 /\ \A row \in {mem, disk}' : row.amount = 0 \/ row.due = t
    <3>1. CASE t \in ledger
      BY <2>1, <3>1, BookingsStep DEF Inv, WrittenAhead
    <3>2. CASE Save /\ t = mem.due
      BY <3>2 DEF Save, Inv, WrittenAhead
    <3> QED BY <2>1, <3>1, <3>2, LedgerStep
  <2>2. \A t : Whole(t)' <=> Whole(t)
    BY DEF Whole
  <2>3. \A row \in {mem, disk}' : row.due # NotDue => row.due.lots > 0 /\ Whole(row.due)
    BY BookingsStep
  <2> QED BY <2>1, <2>2, <2>3, PlaceStep DEF WrittenAhead, AtPlace
<1>7. CloseBookedOnce'
  <2> SUFFICES ASSUME NEW t \in ledger', NEW u \in ledger', Whole(t), Whole(u)
               PROVE t = u
    BY DEF CloseBookedOnce, Whole
  <2>1. CASE Save
    <3>1. mem.amount # 0
      BY <2>1 DEF Save, Inv, Together
    <3>2. \A v \in ledger : Whole(v) => v = mem.due
      BY <3>1 DEF Inv, WrittenAhead
    <3> QED BY <3>2, LedgerStep
  <2>2. CASE ~Save
    BY <2>2, LedgerStep DEF Inv, CloseBookedOnce
  <2> QED BY <2>1, <2>2
<1> QED BY <1>1, <1>2, <1>3, <1>4, <1>5, <1>6, <1>7 DEF Inv

LEMMA InvInit == Init => Inv
<1> SUFFICES ASSUME Init PROVE Inv
  OBVIOUS
<1> USE ExitAssumption DEF Init
<1>1. Opened.due = NotDue /\ Opened.booked = FALSE /\ Opened.amount = Lots
  BY DEF Opened, NoRow
<1>2. TypeOK
  <2>1. Unsent \in OrderStates
    BY DEF Unsent, OrderStates
  <2>2. Nothing \in Looks
    BY DEF Nothing, Looks
  <2>3. order \in [Orders -> OrderStates]
    BY <2>1
  <2>4. pos \in 0..Lots
    BY NoRowTyped
  <2>5. pc \in Controls /\ blocked \in BOOLEAN
    BY DEF Controls
  <2> QED BY <2>2, <2>3, <2>4, <2>5, NoRowTyped DEF TypeOK
<1>3. \A i \in Orders : order[i].st = "unsent"
  BY DEF Unsent
<1>4. Flattened /\ Working /\ Tracked
  BY <1>1, <1>3 DEF Flattened, Working, Tracked, Live, Ending
<1>5. Together /\ WrittenAhead
  BY <1>1 DEF Together, WrittenAhead, Closing
<1> QED BY <1>2, <1>4, <1>5 DEF Inv, CloseBookedOnce

LEMMA Invariance == Spec => []Inv
<1>1. Inv /\ [Next]_vars => Inv'
  BY InvStep
<1> QED BY InvInit, <1>1, PTL DEF Spec

-----------------------------------------------------------------------------
(* Lots, one by one.                                                       *)

\* The lots of some trades, and what some orders filled together.
Count(trades) == Cardinality(LotsOf(trades))
FillsOf(o, orders) == UNION {{i} \X (1..o[i].filled) : i \in orders}
Filled(o, orders) == Cardinality(FillsOf(o, orders))

LEMMA ManyLots ==
  ASSUME NEW x, NEW n \in Nat
  PROVE IsFiniteSet({x} \X (1..n)) /\ Cardinality({x} \X (1..n)) = n
<1>1. IsFiniteSet(1..n) /\ Cardinality(1..n) = n
  BY FS_Interval
<1>2. IsFiniteSet({x}) /\ Cardinality({x}) = 1
  BY FS_Singleton
<1> QED BY <1>1, <1>2, FS_Product

\* A trade that is not among the others adds its lots.
LEMMA CountAdd ==
  ASSUME NEW trades, IsFiniteSet(LotsOf(trades)),
         NEW t, t \notin trades, t.lots \in Nat
  PROVE /\ IsFiniteSet(LotsOf(trades \cup {t}))
        /\ Count(trades \cup {t}) = Count(trades) + t.lots
<1> DEFINE new == {t} \X (1..t.lots)
<1>1. LotsOf(trades \cup {t}) = LotsOf(trades) \cup new
  BY DEF LotsOf
<1>2. LotsOf(trades) \cap new = {}
  <2> SUFFICES ASSUME NEW x \in LotsOf(trades), x \in new PROVE FALSE
    OBVIOUS
  <2>1. PICK u \in trades : x \in {u} \X (1..u.lots)
    BY DEF LotsOf
  <2>2. x[1] = u /\ x[1] = t
    BY <2>1
  <2> QED BY <2>2
<1>3. IsFiniteSet(new) /\ Cardinality(new) = t.lots
  BY ManyLots
<1>4. /\ IsFiniteSet(LotsOf(trades) \cup new)
      /\ Cardinality(LotsOf(trades) \cup new)
           = Cardinality(LotsOf(trades)) + Cardinality(new)
             - Cardinality(LotsOf(trades) \cap new)
  BY <1>3, FS_Union
<1>5. Cardinality(LotsOf(trades) \cap new) = 0
  BY <1>2, FS_EmptySet
<1>6. Cardinality(LotsOf(trades)) \in Nat
  BY FS_CardinalityType
<1>7. IsFiniteSet(LotsOf(trades \cup {t}))
      /\ Count(trades \cup {t}) = Cardinality(LotsOf(trades) \cup new)
  BY <1>1, <1>4 DEF Count
<1>8. Count(trades) = Cardinality(LotsOf(trades))
  BY DEF Count
<1> HIDE DEF new
<1> QED BY <1>3, <1>4, <1>5, <1>6, <1>7, <1>8

LEMMA CountSome ==
  ASSUME NEW trades, IsFiniteSet(LotsOf(trades)), NEW some \in SUBSET trades
  PROVE /\ IsFiniteSet(LotsOf(some))
        /\ Count(some) \in Nat /\ Count(trades) \in Nat
        /\ Count(some) <= Count(trades)
<1>1. LotsOf(some) \subseteq LotsOf(trades)
  BY DEF LotsOf
<1> QED BY <1>1, FS_Subset, FS_CardinalityType DEF Count

LEMMA CountNone == IsFiniteSet(LotsOf({})) /\ Count({}) = 0
<1>1. LotsOf({}) = {}
  BY DEF LotsOf
<1> QED BY <1>1, FS_EmptySet DEF Count

\* Of orders: what they filled together.
LEMMA FillsFinite ==
  ASSUME NEW o \in [Orders -> OrderStates], NEW orders \in SUBSET Orders
  PROVE IsFiniteSet(FillsOf(o, orders)) /\ Filled(o, orders) \in Nat
<1> USE ExitAssumption
<1>1. FillsOf(o, orders) \subseteq Orders \X (1..Lots)
  BY DEF FillsOf, OrderStates
<1>2. IsFiniteSet(Orders) /\ IsFiniteSet(1..Lots)
  BY FS_Interval DEF Orders
<1>3. IsFiniteSet(Orders \X (1..Lots))
  BY <1>2, FS_Product
<1> QED BY <1>1, <1>3, FS_Subset, FS_CardinalityType DEF Filled

LEMMA FilledSplit ==
  ASSUME NEW o \in [Orders -> OrderStates], NEW i \in Orders
  PROVE Filled(o, Orders) = Filled(o, Orders \ {i}) + o[i].filled
<1> DEFINE rest == FillsOf(o, Orders \ {i})
           new  == {i} \X (1..o[i].filled)
<1>1. FillsOf(o, Orders) = rest \cup new
  BY DEF FillsOf
<1>2. rest \cap new = {}
  <2> SUFFICES ASSUME NEW x \in rest, x \in new PROVE FALSE
    OBVIOUS
  <2>1. PICK j \in Orders \ {i} : x \in {j} \X (1..o[j].filled)
    BY DEF FillsOf
  <2>2. x[1] = j /\ x[1] = i
    BY <2>1
  <2> QED BY <2>2
<1>3. o[i].filled \in Nat
  BY ExitAssumption DEF OrderStates
<1>4. IsFiniteSet(new) /\ Cardinality(new) = o[i].filled
  BY <1>3, ManyLots
<1>5. IsFiniteSet(rest) /\ Cardinality(rest) \in Nat
  BY FillsFinite DEF Filled
<1>6. Cardinality(rest \cup new)
        = Cardinality(rest) + Cardinality(new) - Cardinality(rest \cap new)
  BY <1>4, <1>5, FS_Union
<1>7. Cardinality(rest \cap new) = 0
  BY <1>2, FS_EmptySet
<1>8. Filled(o, Orders) = Cardinality(rest \cup new)
      /\ Filled(o, Orders \ {i}) = Cardinality(rest)
  BY <1>1 DEF Filled
<1> HIDE DEF rest, new
<1> QED BY <1>3, <1>4, <1>5, <1>6, <1>7, <1>8

\* Orders only fill further.
LEMMA FilledMore ==
  ASSUME NEW o \in [Orders -> OrderStates], NEW p \in [Orders -> OrderStates],
         \A i \in Orders : o[i].filled <= p[i].filled,
         NEW orders \in SUBSET Orders
  PROVE Filled(o, orders) <= Filled(p, orders)
<1>1. FillsOf(o, orders) \subseteq FillsOf(p, orders)
  <2> SUFFICES ASSUME NEW i \in orders, NEW x \in {i} \X (1..o[i].filled)
               PROVE x \in {i} \X (1..p[i].filled)
    BY DEF FillsOf
  <2>1. /\ o[i].filled \in 0..Lots /\ p[i].filled \in 0..Lots
        /\ o[i].filled <= p[i].filled
    BY DEF OrderStates
  <2>2. 1..o[i].filled \subseteq 1..p[i].filled
    BY <2>1, ExitAssumption
  <2> QED BY <2>2
<1> QED BY <1>1, FillsFinite, FS_Subset DEF Filled

-----------------------------------------------------------------------------
(* What the operations write.                                              *)

\* The rows the operation under way may make of the one in memory.
Makes(row) ==
  \/ row = mem
  \/ pc \in {"clearparts", "clearpart"} /\ row = PartsLeft
  \/ pc = "intent" /\ (mem.intent = 0 => Spare) /\ row = Intended
  \/ pc = "flat" /\ row = Flat(mem)
  \/ pc = "lookup" /\ row = Cleared(mem)
  \/ pc = "shrink" /\ row \in {Shrunk, Unpriced}
  \/ pc = "cover" /\ row \in {Flat(mem), Evidence, Flat(Evidence)} /\ ~Conflict
  \/ pc = "cover" /\ row = Flat(mem)
  \/ pc = "write" /\ row = Cleared(Due(Receipt, mem.amount))
  \/ pc \in {"replay", "offline"} /\ row = OfflineRow
  \/ pc = "cleanup" /\ row = [mem EXCEPT !.booked = TRUE]

RowsMade ==
  \/ UNCHANGED <<mem, disk>>
  \/ /\ Makes(mem') /\ (disk' = disk \/ Makes(disk'))
     /\ UNCHANGED ledger
  \/ mem' = disk /\ disk' = disk /\ UNCHANGED ledger
  \/ /\ pc = "cleanup" /\ mem.parts = {}
     /\ mem' = NoRow /\ disk' = NoRow /\ UNCHANGED ledger

LEMMA RowsMadeStep ==
  ASSUME [Next]_vars
  PROVE RowsMade
<1>1. ASSUME NEW row, Makes(row), Persist(row) \/ PersistFails(row),
             UNCHANGED ledger
      PROVE RowsMade
  BY <1>1 DEF RowsMade, Persist, PersistFails
<1>2. ASSUME RewriteParts \/ CheckGuarded \/ Rewrite PROVE RowsMade
  <2>1. Persist(mem) /\ UNCHANGED ledger
    BY <1>2 DEF RewriteParts, CheckGuarded, Rewrite
  <2> QED BY <1>1, <2>1 DEF Makes
<1>3. ASSUME ClearParts \/ ClearPart PROVE RowsMade
  <2>1. /\ pc \in {"clearparts", "clearpart"}
        /\ Persist(PartsLeft) /\ UNCHANGED ledger
    BY <1>3 DEF ClearParts, ClearPart
  <2> QED BY <1>1, <2>1 DEF Makes
<1>4. ASSUME EnsureIntent PROVE RowsMade
  <2>1. /\ pc = "intent" /\ (mem.intent = 0 => Spare)
        /\ Persist(Intended) /\ UNCHANGED ledger
    BY <1>4 DEF EnsureIntent
  <2> QED BY <1>1, <2>1 DEF Makes
<1>5. ASSUME DeferFlat PROVE RowsMade
  <2>1. pc = "flat" /\ Persist(Flat(mem)) /\ UNCHANGED ledger
    BY <1>5 DEF DeferFlat
  <2> QED BY <1>1, <2>1 DEF Makes
<1>6. ASSUME ClearIntent PROVE RowsMade
  <2>1. pc = "lookup" /\ Persist(Cleared(mem)) /\ UNCHANGED ledger
    BY <1>6 DEF ClearIntent, Void
  <2> QED BY <1>1, <2>1 DEF Makes
<1>7. ASSUME ClearFails PROVE RowsMade
  BY <1>7 DEF ClearFails, Void, RowsMade, Makes
<1>8. ASSUME ShrinkPriced \/ ShrinkUnpriced PROVE RowsMade
  <2>1. pc = "shrink" /\ UNCHANGED ledger /\ (Persist(Shrunk) \/ Persist(Unpriced))
    BY <1>8 DEF ShrinkPriced, ShrinkUnpriced
  <2>2. pc = "shrink" => Makes(Shrunk) /\ Makes(Unpriced)
    BY DEF Makes
  <2> QED BY <1>1, <2>1, <2>2
<1>9. ASSUME NEW row, NEW closed, pc = "cover", row = mem \/ (row = Evidence /\ ~Conflict)
      PROVE Makes(Kept(row, closed))
  BY <1>9 DEF Kept, Makes
<1>10. ASSUME NEW row, NEW closed, row = mem \/ (row = Evidence /\ ~Conflict),
              Cover(row, closed)
       PROVE RowsMade
  <2>1. /\ pc = "cover" /\ UNCHANGED ledger
        /\ Persist(Kept(row, closed)) \/ UNCHANGED <<mem, disk>>
    BY <1>10 DEF Cover
  <2>2. Makes(Kept(row, closed))
    BY <1>9, <1>10, <2>1
  <2>3. CASE UNCHANGED <<mem, disk>>
    BY <2>3 DEF RowsMade
  <2> QED BY <1>1, <2>1, <2>2, <2>3
<1>11. ASSUME CoverVerified PROVE RowsMade
  BY <1>10, <1>11 DEF CoverVerified
<1>12. ASSUME CoverUnverified PROVE RowsMade
  BY <1>10, <1>12 DEF CoverUnverified
<1>13. ASSUME CoverUnpriced PROVE RowsMade
  BY <1>10, <1>13 DEF CoverUnpriced
<1>14. ASSUME Write PROVE RowsMade
  <2>1. /\ pc = "write" /\ UNCHANGED ledger
        /\ Persist(Cleared(Due(Receipt, mem.amount)))
    BY <1>14 DEF Write
  <2> QED BY <1>1, <2>1 DEF Makes
<1>15. ASSUME RecordOffline PROVE RowsMade
  <2>1. pc \in {"replay", "offline"} /\ Persist(OfflineRow) /\ UNCHANGED ledger
    BY <1>15 DEF RecordOffline
  <2> QED BY <1>1, <2>1 DEF Makes
<1>16. ASSUME Cleanup PROVE RowsMade
  <2> DEFINE row == [mem EXCEPT !.booked = TRUE]
  <2>1. /\ pc = "cleanup" /\ UNCHANGED ledger
        /\ Persist(IF mem.parts = {} THEN NoRow ELSE row)
    BY <1>16 DEF Cleanup
  <2>2. Makes(row)
    BY <2>1 DEF Makes
  <2>3. CASE mem.parts = {}
    BY <2>1, <2>3 DEF RowsMade, Persist
  <2>4. CASE mem.parts # {}
    BY <1>1, <2>1, <2>2, <2>4
  <2> QED BY <2>3, <2>4
<1>17. ASSUME WriteFails PROVE RowsMade
  <2> DEFINE booked == [mem EXCEPT !.booked = TRUE]
             due == Cleared(Due(Receipt, mem.amount))
  <2>1. /\ UNCHANGED ledger
        /\ \/ PersistFails(mem)
           \/ pc \in {"clearparts", "clearpart"} /\ PersistFails(PartsLeft)
           \/ pc = "intent" /\ (mem.intent = 0 => Spare) /\ PersistFails(Intended)
           \/ pc = "write" /\ PersistFails(due)
           \/ pc \in {"replay", "offline"} /\ PersistFails(OfflineRow)
           \/ pc = "shrink" /\ \E row \in {Shrunk, Unpriced} : PersistFails(row)
           \/ pc = "cleanup" /\ PersistFails(booked)
    BY <1>17 DEF WriteFails, Ends
  <2>2. \E row : Makes(row) /\ PersistFails(row)
    BY <2>1 DEF Makes
  <2> QED BY <1>1, <2>1, <2>2
<1>18. ASSUME EvidenceNotDurable PROVE RowsMade
  <2>1. UNCHANGED ledger
    BY <1>18 DEF EvidenceNotDurable, Ends
  <2>2. CASE pc = "flat" /\ PersistFails(Flat(mem))
    <3>1. Makes(Flat(mem))
      BY <2>2 DEF Makes
    <3> QED BY <1>1, <2>1, <2>2, <3>1
  <2>3. CASE \E row \in {mem, Evidence} :
               pc = "cover" /\ ~Conflict /\ PersistFails(Kept(row, pos = 0))
    BY <1>1, <1>9, <2>1, <2>3
  <2> QED BY <1>18, <2>2, <2>3 DEF EvidenceNotDurable
<1>19. ASSUME SaveRetry PROVE RowsMade
  BY <1>19 DEF SaveRetry, RowsMade, Makes
<1>20. ASSUME Crash PROVE RowsMade
  BY <1>20 DEF Crash, RowsMade
<1>21. ASSUME (\E i \in Orders : Arrive(i) \/ Fill(i) \/ Finish(i))
              \/ OthersClose \/ MonitorStarts \/ ReconcileGone
              \/ ReconcileLess \/ SaveParts \/ CheckBooked \/ CheckDue
              \/ CheckNothing \/ CheckExit \/ NoOrderLeft \/ Send \/ Answered
              \/ AnsweredFlat \/ Found \/ CoverConflict \/ Save
              \/ OfflineRefused \/ SaveRefused \/ SavePart \/ CallFails \/ SaveSomeParts
              \/ UNCHANGED vars
       PROVE RowsMade
  BY <1>21 DEF RowsMade, venue, Arrive, Fill, Finish, OthersClose,
               MonitorStarts, Starts, Open, Gone, ReconcileGone,
               ReconcileLess, SaveParts, CheckBooked, Check, CheckDue,
               CheckNothing, CheckExit, CanExit, InPosition, NoOrderLeft,
               Send, Answered, AnsweredFlat, Found, CoverConflict, Save,
               OfflineRefused, SaveRefused, SavePart, CallFails, Ends, SaveSomeParts, vars
<1> QED BY <1>2, <1>3, <1>4, <1>5, <1>6, <1>7, <1>8, <1>11,
           <1>12, <1>13, <1>14, <1>15, <1>16, <1>17, <1>18, <1>19, <1>20,
           <1>21
           DEF Next, Step, Failure

-----------------------------------------------------------------------------
(* Fills.                                                                  *)

LEMMA FillStep ==
  ASSUME Inv, [Next]_vars
  PROVE \A i \in Orders : order[i].filled <= order'[i].filled
<1> DEFINE Goal == \A i \in Orders : order[i].filled <= order'[i].filled
<1> USE ExitAssumption DEF Inv
<1>1. \A i \in Orders : order[i].filled \in 0..Lots
  BY DEF TypeOK, OrderStates
<1>2. ASSUME NEW i \in Orders, Arrive(i) \/ Fill(i) \/ Finish(i) PROVE Goal
  BY <1>1, <1>2 DEF Arrive, Fill, Finish, TypeOK, OrderStates
<1>3. ASSUME Send PROVE Goal
  BY <1>1, <1>3 DEF Send, TypeOK, OrderStates
<1>4. ASSUME UNCHANGED order PROVE Goal
  BY <1>1, <1>4
<1>5. ASSUME Step, ~Send PROVE UNCHANGED order
  BY <1>5 DEF Step, venue, RewriteParts, SaveParts, ClearParts, CheckBooked,
              CheckDue, CheckNothing, CheckExit, Check, CheckGuarded,
              EnsureIntent, NoOrderLeft, Answered, AnsweredFlat, DeferFlat,
              Found, ClearIntent, CoverConflict, CoverVerified, Cover, Write,
              Save, Cleanup, Rewrite, RecordOffline, OfflineRefused, SaveRefused,
              ShrinkPriced, ShrinkUnpriced, SavePart, ClearPart
<1>6. ASSUME Failure PROVE UNCHANGED order
  BY <1>6 DEF Failure, venue, WriteFails, EvidenceNotDurable, CoverUnpriced,
              Cover, CoverUnverified, CallFails, SaveSomeParts, Ends, ClearFails
<1>7. ASSUME OthersClose \/ MonitorStarts \/ ReconcileGone \/ ReconcileLess
             \/ SaveRetry \/ Crash \/ UNCHANGED vars
      PROVE UNCHANGED order
  BY <1>7 DEF OthersClose, MonitorStarts, ReconcileGone, ReconcileLess,
              Starts, SaveRetry, Crash, vars, venue
<1> QED BY <1>2, <1>3, <1>4, <1>5, <1>6, <1>7 DEF Next

\* A row is backed when orders of the bot filled what it says of full closes,
\* those before its intent what it says of them.
RowBacked(row, o) ==
  /\ row.fragment <= Filled(o, Orders)
  /\ row.intent # 0 => row.base <= Filled(o, Orders \ {row.intent})

Backed ==
  /\ \A row \in {mem, disk} : RowBacked(row, order)
  /\ pc = "cover" => seen.filled <= Sent.filled

\* The row of an intent starts from the fills of earlier orders.
LEMMA IntendedBacked ==
  ASSUME Inv, RowBacked(mem, order), mem.intent = 0 => Spare
  PROVE RowBacked(Intended, order)
<1>1. CASE mem.intent # 0
  BY <1>1 DEF Intended
<1>2. CASE mem.intent = 0
  <2>1. NextId \in Orders /\ order[NextId].filled = 0
    BY <1>2, NextOrder DEF Unsent
  <2>2. Filled(order, Orders) = Filled(order, Orders \ {NextId}) + 0
    BY <2>1, FilledSplit DEF Inv, TypeOK
  <2>3. Filled(order, Orders \ {NextId}) \in Nat
    BY FillsFinite DEF Inv, TypeOK
  <2>4. Filled(order, Orders) = Filled(order, Orders \ {NextId})
    BY <2>2, <2>3
  <2>5. /\ Intended.fragment = mem.fragment /\ Intended.base = mem.fragment
        /\ Intended.intent = NextId
    BY <1>2 DEF Intended, Inv, TypeOK, Rows
  <2> QED BY <2>4, <2>5 DEF RowBacked
<1> QED BY <1>1, <1>2

\* The fill of the order at hand comes on top of the base.
LEMMA EvidenceBacked ==
  ASSUME Inv, Backed, pc = "cover", ~Conflict
  PROVE RowBacked(Evidence, order)
<1> DEFINE row == [mem EXCEPT !.fragment = Fragment]
<1> USE DEF Inv
<1>1. CASE seen.filled = 0
  BY <1>1 DEF Evidence, Backed
<1>2. CASE seen.filled # 0
  <2>1. mem.intent \in Orders /\ mem.intent # 0
    BY DEF Working, Orders
  <2>2. /\ mem.base \in 0..Lots /\ seen.filled \in 0..Lots
        /\ order[mem.intent].filled \in 0..Lots
    BY <2>1 DEF TypeOK, Rows, Looks, OrderStates
  <2>3. /\ mem.base <= Filled(order, Orders \ {mem.intent})
        /\ seen.filled <= order[mem.intent].filled
    BY <2>1 DEF Backed, RowBacked, Sent
  <2>4. /\ Filled(order, Orders)
             = Filled(order, Orders \ {mem.intent}) + order[mem.intent].filled
        /\ Filled(order, Orders \ {mem.intent}) \in Nat
    BY <2>1, FilledSplit, FillsFinite DEF TypeOK
  <2>5. Fragment <= Filled(order, Orders)
    BY <2>2, <2>3, <2>4, ExitAssumption DEF Fragment
  <2>6. row.fragment = Fragment /\ row.intent = mem.intent /\ row.base = mem.base
    BY DEF TypeOK, Rows
  <2>7. RowBacked(row, order)
    BY <2>3, <2>5, <2>6 DEF RowBacked
  <2>8. Cleared(row).fragment = row.fragment /\ Cleared(row).intent = 0
    BY DEF Cleared, TypeOK, Rows
  <2>9. RowBacked(Cleared(row), order)
    BY <2>7, <2>8 DEF RowBacked
  <2> QED BY <1>2, <2>7, <2>9 DEF Evidence
<1> QED BY <1>1, <1>2

LEMMA MadeBacked ==
  ASSUME Inv, Backed, NEW row, Makes(row)
  PROVE RowBacked(row, order)
<1> USE DEF Inv
<1>1. RowBacked(mem, order)
  BY DEF Backed
<1>2. ASSUME NEW r, r.fragment = mem.fragment,
             r.intent = 0 \/ (r.intent = mem.intent /\ r.base = mem.base)
      PROVE RowBacked(r, order)
  BY <1>1, <1>2 DEF RowBacked
<1>3. ASSUME row \in {PartsLeft, Shrunk, Unpriced, [mem EXCEPT !.booked = TRUE]}
      PROVE RowBacked(row, order)
  <2>1. row.fragment = mem.fragment /\ row.intent = mem.intent /\ row.base = mem.base
    BY <1>3 DEF PartsLeft, Shrunk, Unpriced, TypeOK, Rows
  <2> QED BY <1>2, <2>1
<1>4. ASSUME row = Cleared(mem) \/ row = Flat(mem)
      PROVE RowBacked(row, order)
  <2>1. row.fragment = mem.fragment /\ row.intent = 0
    BY <1>4 DEF Cleared, Flat, TypeOK, Rows
  <2> QED BY <1>2, <2>1
<1>5. ASSUME pc = "cover", ~Conflict, row = Flat(Evidence)
      PROVE RowBacked(row, order)
  <2>1. Evidence \in Rows
    BY <1>5, EvidenceRow DEF Alike
  <2>2. row.fragment = Evidence.fragment /\ row.intent = 0
    BY <1>5, <2>1 DEF Flat, Cleared, Rows
  <2> QED BY <1>5, <2>2, EvidenceBacked DEF RowBacked
<1>6. ASSUME row = Cleared(Due(Receipt, mem.amount)) PROVE RowBacked(row, order)
  <2>1. row.fragment = mem.fragment /\ row.intent = 0
    BY <1>6 DEF Cleared, Due, TypeOK, Rows
  <2> QED BY <1>2, <2>1
<1>7. ASSUME row = OfflineRow PROVE RowBacked(row, order)
  <2>1. row.fragment = mem.fragment /\ row.intent = mem.intent /\ row.base = mem.base
    BY <1>7 DEF OfflineRow, Due, TypeOK, Rows
  <2> QED BY <1>2, <2>1
<1> QED BY <1>1, <1>3, <1>4, <1>5, <1>6, <1>7, IntendedBacked, EvidenceBacked
           DEF Makes

\* What an operation reads of an order holds until it has used it.
LEMMA LookStep ==
  ASSUME Inv, [Next]_vars, pc' = "cover"
  PROVE /\ mem' = mem /\ mem.intent \in Orders
        /\ \/ pc = "cover" /\ seen' = seen
           \/ seen'.filled = order[mem.intent].filled /\ order' = order
<1> DEFINE Goal == /\ mem' = mem /\ mem.intent \in Orders
                   /\ \/ pc = "cover" /\ seen' = seen
                      \/ seen'.filled = order[mem.intent].filled /\ order' = order
<1> USE DEF Inv
<1>1. ASSUME Answered \/ Found PROVE Goal
  <2>1. mem' = mem /\ order' = order /\ mem.intent \in Orders
        /\ seen' = [seen EXCEPT !.filled = Sent.filled, !.terminal = Sent.st = "done"]
    BY <1>1 DEF Answered, Found, Observe, venue, Working
  <2> QED BY <2>1 DEF Sent, TypeOK, Looks
<1>2. ASSUME pc = "cover", UNCHANGED <<mem, seen>> PROVE Goal
  BY <1>2 DEF Working
<1>3. ASSUME (\E i \in Orders : Arrive(i) \/ Fill(i) \/ Finish(i))
             \/ OthersClose \/ SaveRetry \/ UNCHANGED vars
      PROVE pc = "cover" /\ UNCHANGED <<mem, seen>>
  BY <1>3 DEF Arrive, Fill, Finish, OthersClose, SaveRetry, vars
<1>4. ASSUME Step PROVE Answered \/ Found
  BY <1>4 DEF Step, Go, RewriteParts, SaveParts, ClearParts, CheckBooked,
              CheckDue, CheckNothing, CheckExit, Check, CheckGuarded,
              EnsureIntent, NoOrderLeft, Send, AnsweredFlat, DeferFlat,
              ClearIntent, CoverConflict, CoverVerified, Cover, Write,
              Save, Cleanup, Rewrite, RecordOffline, OfflineRefused, SaveRefused,
              ShrinkPriced, ShrinkUnpriced, SavePart, ClearPart
<1>5. ASSUME Failure \/ MonitorStarts \/ ReconcileGone \/ ReconcileLess \/ Crash
      PROVE FALSE
  BY <1>5 DEF Failure, WriteFails, EvidenceNotDurable, CoverUnpriced,
              Cover, CoverUnverified, CallFails, SaveSomeParts, Ends,
              ClearFails, Go, MonitorStarts, ReconcileGone, ReconcileLess,
              Starts, Crash
<1> QED BY <1>1, <1>2, <1>3, <1>4, <1>5 DEF Next

LEMMA BackedStep ==
  ASSUME Inv, Backed, [Next]_vars
  PROVE Backed'
<1> USE DEF Inv
<1>1. order \in [Orders -> OrderStates] /\ order' \in [Orders -> OrderStates]
  BY VenueStep DEF TypeOK
<1>2. ASSUME NEW row, row \in Rows, RowBacked(row, order)
      PROVE RowBacked(row, order')
  <2>1. \A orders \in SUBSET Orders : Filled(order, orders) <= Filled(order', orders)
    BY <1>1, FillStep, FilledMore
  <2>2. \A orders \in SUBSET Orders :
          Filled(order, orders) \in Nat /\ Filled(order', orders) \in Nat
    BY <1>1, FillsFinite
  <2>3. row.fragment \in Nat /\ row.base \in Nat
    BY <1>2, ExitAssumption DEF Rows
  <2>4. Orders \in SUBSET Orders /\ Orders \ {row.intent} \in SUBSET Orders
    OBVIOUS
  <2>5. row.fragment <= Filled(order', Orders)
    BY <1>2, <2>1, <2>2, <2>3, <2>4 DEF RowBacked
  <2>6. row.intent # 0 => row.base <= Filled(order', Orders \ {row.intent})
    BY <1>2, <2>1, <2>2, <2>3, <2>4 DEF RowBacked
  <2> QED BY <2>5, <2>6 DEF RowBacked
<1>3. RowBacked(NoRow, order)
  <2>1. NoRow.fragment = 0 /\ NoRow.intent = 0
    BY DEF NoRow
  <2>2. Filled(order, Orders) \in Nat
    BY <1>1, FillsFinite
  <2> QED BY <2>1, <2>2 DEF RowBacked
<1>4. RowBacked(mem', order) /\ RowBacked(disk', order)
  <2>1. RowBacked(mem, order) /\ RowBacked(disk, order)
    BY DEF Backed
  <2>2. Makes(mem') => RowBacked(mem', order)
    BY MadeBacked
  <2>3. Makes(disk') => RowBacked(disk', order)
    BY MadeBacked
  <2> QED BY <1>3, <2>1, <2>2, <2>3, RowsMadeStep DEF RowsMade
<1>5. RowBacked(mem', order') /\ RowBacked(disk', order')
  BY <1>2, <1>4, RowsTyped
<1>6. ASSUME pc' = "cover" PROVE seen'.filled <= order'[mem'.intent].filled
  <2>1. /\ mem' = mem /\ mem.intent \in Orders
        /\ \/ pc = "cover" /\ seen' = seen
           \/ seen'.filled = order[mem.intent].filled /\ order' = order
    BY <1>6, LookStep
  <2>2. /\ order[mem.intent].filled \in Nat /\ order'[mem.intent].filled \in Nat
        /\ seen.filled \in Nat /\ order[mem.intent].filled <= order'[mem.intent].filled
    BY <1>1, <2>1, FillStep, ExitAssumption DEF TypeOK, Looks, OrderStates
  <2>3. pc = "cover" => seen.filled <= order[mem.intent].filled
    BY DEF Backed, Sent
  <2> QED BY <2>1, <2>2, <2>3
<1> QED BY <1>5, <1>6 DEF Backed, Sent

-----------------------------------------------------------------------------
(* Bookings.                                                               *)

\* The partial closes by others: those a row still has to book, and those
\* that are booked.
Owed(row, books) ==
  {PartTrade(k) : k \in row.parts} \cup {t \in books : ~Whole(t)}

\* A row accounts for the lots that are open, and together with the partial
\* closes for the position as it was opened; each partial close ended at or
\* above what the row still has.
Sound(row, open, books) ==
  /\ open <= row.amount
  /\ \A t \in Owed(row, books) : t.key[2] >= row.amount
  /\ IsFiniteSet(LotsOf(Owed(row, books)))
  /\ Count(Owed(row, books)) + row.unpriced + row.amount = Lots
  /\ row.due # NotDue => row.due.lots = row.amount + row.unpriced
  /\ row.booked => row.due \in books /\ row.due # NotDue

Accounted ==
  /\ \A row \in {mem, disk} : row.amount > 0 => Sound(row, pos, ledger)
  /\ mem.amount = 0 => pos = 0 /\ Booked = Lots

\* What the operation under way knows of the bookings.
Booking ==
  /\ pc \in {"saveparts", "savepart"} => disk = mem
  /\ pc = "savepart" => seen.saved \subseteq mem.parts
  /\ pc \in {"clearparts", "clearpart"} =>
       \A k \in seen.saved : PartTrade(k) \in ledger
  /\ pc = "shrink" => pos <= seen.left /\ mem.due = NotDue /\ ~mem.booked
  /\ pc = "write" => mem.unpriced = 0
  /\ pc \in {"rewrite", "replay"} => mem.due # NotDue
  /\ pc = "cleanup" => mem.due \in ledger /\ mem.due # NotDue

BInv == Inv /\ Accounted /\ Booking

\* Every booking is of the close itself or of a part others closed.
Books ==
  \/ UNCHANGED ledger
  \/ /\ UNCHANGED <<mem, disk>> /\ Whole(mem.due)
     /\ ledger' \in {ledger, ledger \cup {mem.due}}
  \/ /\ UNCHANGED <<mem, disk>> /\ disk = mem
     /\ \E saved \in SUBSET mem.parts :
          ledger' = ledger \cup {PartTrade(k) : k \in saved}

LEMMA BooksStep ==
  ASSUME BInv, [Next]_vars
  PROVE Books
<1> USE DEF BInv
<1>1. ASSUME SaveParts \/ SavePart \/ SaveSomeParts PROVE Books
  <2>1. /\ UNCHANGED <<mem, disk>> /\ disk = mem
        /\ \E saved \in SUBSET mem.parts :
             ledger' = ledger \cup {PartTrade(k) : k \in saved}
    BY <1>1 DEF SaveParts, SavePart, SaveSomeParts, Booking
  <2> QED BY <2>1 DEF Books
<1>2. ASSUME Save PROVE Books
  <2>1. UNCHANGED <<mem, disk>> /\ ledger' \in {ledger, ledger \cup {mem.due}}
    BY <1>2 DEF Save, Book
  <2>2. mem.due # NotDue
    <3>1. mem.due.lots > 0
      BY <1>2 DEF Save, Inv, WrittenAhead
    <3>2. NotDue.lots = 0
      BY DEF NotDue, Trade
    <3> QED BY <3>1, <3>2
  <2>3. Whole(mem.due)
    BY <2>2 DEF Inv, WrittenAhead
  <2> QED BY <2>1, <2>3 DEF Books
<1>3. ASSUME Step, ~SaveParts, ~SavePart, ~Save PROVE Books
  BY <1>3 DEF Books, Step, RewriteParts, ClearParts, CheckBooked, CheckDue,
              CheckNothing, CheckExit, Check, CheckGuarded, EnsureIntent,
              NoOrderLeft, Send, Answered, AnsweredFlat, DeferFlat, Found,
              ClearIntent, CoverConflict, CoverVerified, Cover, Write,
              Cleanup, Rewrite, RecordOffline, OfflineRefused, SaveRefused, ShrinkPriced,
              ShrinkUnpriced, ClearPart
<1>4. ASSUME Failure, ~SaveSomeParts PROVE Books
  BY <1>4 DEF Books, Failure, WriteFails, EvidenceNotDurable, ClearFails,
              CoverUnpriced, Cover, CoverUnverified, CallFails, Ends
<1>5. ASSUME (\E i \in Orders : Arrive(i) \/ Fill(i) \/ Finish(i)) \/ OthersClose
             \/ MonitorStarts \/ ReconcileGone \/ ReconcileLess \/ SaveRetry \/ Crash
             \/ UNCHANGED vars
      PROVE Books
  BY <1>5 DEF Books, Arrive, Fill, Finish, OthersClose, MonitorStarts,
              ReconcileGone, ReconcileLess, Starts, SaveRetry, Crash, vars
<1> QED BY <1>1, <1>2, <1>3, <1>4, <1>5 DEF Next

LEMMA TradeFields ==
  ASSUME NEW k
  PROVE PartTrade(k).key = k /\ PartTrade(k).lots = k[1] - k[2]
BY DEF PartTrade, Trade

\* More bookings, fewer open lots: a row stays sound if it owes the same.
LEMMA SoundLater ==
  ASSUME NEW row, NEW open, NEW books, Sound(row, open, books),
         NEW less \in Nat, open \in Nat, row.amount \in Nat, less <= open,
         NEW more, books \subseteq more, Owed(row, more) = Owed(row, books)
  PROVE Sound(row, less, more)
BY DEF Sound

\* A row that differs in what its bookings do not tell apart.
LEMMA SoundAlike ==
  ASSUME NEW row, NEW open, NEW books, Sound(row, open, books),
         NEW other, Owed(other, books) = Owed(row, books),
         other.amount = row.amount, other.unpriced = row.unpriced,
         other.due = row.due, other.booked = row.booked
  PROVE Sound(other, open, books)
BY DEF Sound

LEMMA PartsLeftSound ==
  ASSUME BInv, pc \in {"clearparts", "clearpart"}, Sound(mem, pos, ledger)
  PROVE Sound(PartsLeft, pos, ledger)
<1> USE DEF BInv, Inv
<1>1. /\ PartsLeft.parts = mem.parts \ seen.saved
      /\ PartsLeft.amount = mem.amount /\ PartsLeft.unpriced = mem.unpriced
      /\ PartsLeft.due = mem.due /\ PartsLeft.booked = mem.booked
  BY DEF PartsLeft, TypeOK, Rows
<1>2. \A k \in seen.saved : PartTrade(k) \in ledger /\ ~Whole(PartTrade(k))
  <2>1. seen.saved \subseteq Partials
    BY DEF TypeOK, Looks
  <2> QED BY <2>1, PartBooked DEF Booking
<1>3. Owed(PartsLeft, ledger) = Owed(mem, ledger)
  BY <1>1, <1>2 DEF Owed
<1> QED BY <1>1, <1>3, SoundAlike

LEMMA ShrunkSound ==
  ASSUME BInv, pc = "shrink", Sound(mem, pos, ledger)
  PROVE Sound(Shrunk, pos, ledger) /\ Sound(Unpriced, pos, ledger)
<1> USE ExitAssumption DEF BInv, Inv
<1> DEFINE owed == Owed(mem, ledger)
           t == PartTrade(Part)
<1>1. /\ mem.amount \in Nat /\ seen.left \in Nat /\ pos \in Nat
      /\ mem.unpriced \in Nat
      /\ seen.left < mem.amount /\ pos <= seen.left
      /\ mem.due = NotDue /\ ~mem.booked
  BY DEF TypeOK, Rows, Looks, Working, Booking
<1>2. /\ Shrunk.amount = seen.left /\ Shrunk.unpriced = mem.unpriced
      /\ Shrunk.parts = mem.parts \cup {Part}
      /\ Shrunk.due = mem.due /\ Shrunk.booked = mem.booked
  BY DEF Shrunk, TypeOK, Rows
<1>3. /\ Unpriced.amount = seen.left
      /\ Unpriced.unpriced = mem.unpriced + (mem.amount - seen.left)
      /\ Unpriced.parts = mem.parts
      /\ Unpriced.due = mem.due /\ Unpriced.booked = mem.booked
  BY DEF Unpriced, TypeOK, Rows
<1>4. t.key[2] = seen.left /\ t.lots = mem.amount - seen.left
  BY TradeFields DEF Part
<1>5. /\ \A u \in owed : u.key[2] >= mem.amount
      /\ IsFiniteSet(LotsOf(owed))
      /\ Count(owed) + mem.unpriced + mem.amount = Lots
  BY DEF Sound
<1>6. Count(owed) \in Nat
  BY <1>5, FS_CardinalityType DEF Count
<1>7. Owed(Shrunk, ledger) = owed \cup {t} /\ Owed(Unpriced, ledger) = owed
  BY <1>2, <1>3 DEF Owed
<1>8. \A u \in owed : u.key[2] \in Nat
  <2>1. mem.parts \subseteq Partials
    BY DEF TypeOK, Rows
  <2>2. owed \subseteq Trades
    BY <2>1, PartBooked DEF Owed, TypeOK
  <2> QED BY <2>2 DEF Trades
<1> HIDE DEF owed, t
<1>9. Sound(Shrunk, pos, ledger)
  <2>1. t \notin owed /\ t.lots \in Nat
    BY <1>1, <1>4, <1>5
  <2>2. /\ IsFiniteSet(LotsOf(owed \cup {t}))
        /\ Count(owed \cup {t}) = Count(owed) + t.lots
    BY <1>5, <2>1, CountAdd
  <2>3. Count(owed \cup {t}) + mem.unpriced + seen.left = Lots
    BY <1>1, <1>4, <1>5, <1>6, <2>2
  <2>4. ASSUME NEW u \in owed \cup {t} PROVE u.key[2] >= seen.left
    BY <1>1, <1>4, <1>5, <1>8
  <2> QED BY <1>1, <1>2, <1>7, <2>2, <2>3, <2>4 DEF Sound
<1>10. Sound(Unpriced, pos, ledger)
  <2>1. Count(owed) + (mem.unpriced + (mem.amount - seen.left)) + seen.left = Lots
    BY <1>1, <1>5, <1>6
  <2>2. \A u \in owed : u.key[2] >= seen.left
    BY <1>1, <1>5, <1>8
  <2> QED BY <1>1, <1>3, <1>5, <1>7, <2>1, <2>2 DEF Sound
<1> QED BY <1>9, <1>10

\* The booking that is due is of all that is left.
LEMMA DueSound ==
  ASSUME BInv, Sound(mem, pos, ledger), mem.due = NotDue,
         NEW key \in {Receipt, NoReceipt}
  PROVE Sound(Due(key, mem.amount + mem.unpriced), pos, ledger)
<1> DEFINE row == Due(key, mem.amount + mem.unpriced)
<1> USE DEF BInv, Inv
<1>1. mem.amount + mem.unpriced \in Nat
  BY ExitAssumption DEF TypeOK, Rows
<1>2. /\ row.amount = mem.amount /\ row.unpriced = mem.unpriced
      /\ row.parts = mem.parts /\ row.booked = mem.booked
      /\ row.due.lots = mem.amount + mem.unpriced
  BY DEF Due, Trade, TypeOK, Rows
<1>3. Owed(row, ledger) = Owed(mem, ledger)
  BY <1>2 DEF Owed
<1>4. ~row.booked
  BY <1>2 DEF Sound
<1> HIDE DEF row
<1>5. Sound(row, pos, ledger)
  BY <1>2, <1>3, <1>4 DEF Sound
<1> QED BY <1>5 DEF row

LEMMA MadeSound ==
  ASSUME BInv, mem.amount > 0, NEW row, Makes(row)
  PROVE Sound(row, pos, ledger)
<1> USE DEF BInv, Inv
<1>1. Sound(mem, pos, ledger)
  BY DEF Accounted
<1>2. ASSUME NEW r, r.amount = mem.amount, r.unpriced = mem.unpriced,
             r.due = mem.due, r.booked = mem.booked, r.parts = mem.parts
      PROVE Sound(r, pos, ledger)
  <2>1. Owed(r, ledger) = Owed(mem, ledger)
    BY <1>2 DEF Owed
  <2> QED BY <1>1, <1>2, <2>1, SoundAlike
<1>3. ASSUME row = Cleared(mem) \/ row = Flat(mem)
      PROVE Sound(row, pos, ledger)
  <2>1. /\ row.amount = mem.amount /\ row.unpriced = mem.unpriced
        /\ row.due = mem.due /\ row.booked = mem.booked /\ row.parts = mem.parts
    BY <1>3 DEF Cleared, Flat, TypeOK, Rows
  <2> QED BY <1>2, <2>1
<1>4. ASSUME pc = "cover", ~Conflict, row = Evidence \/ row = Flat(Evidence)
      PROVE Sound(row, pos, ledger)
  <2> DEFINE e == Evidence
  <2>1. /\ e \in Rows
        /\ e.amount = mem.amount /\ e.unpriced = mem.unpriced
        /\ e.due = mem.due /\ e.booked = mem.booked /\ e.parts = mem.parts
    <3>1. e \in Rows
      BY <1>4, EvidenceRow DEF Alike
    <3>2. e = mem \/ e = [mem EXCEPT !.fragment = Fragment]
          \/ e = Cleared([mem EXCEPT !.fragment = Fragment])
      BY DEF Evidence
    <3> QED BY <3>1, <3>2 DEF Cleared, TypeOK, Rows
  <2> HIDE DEF e
  <2>2. /\ Flat(e).amount = e.amount /\ Flat(e).unpriced = e.unpriced
        /\ Flat(e).due = e.due /\ Flat(e).booked = e.booked
        /\ Flat(e).parts = e.parts
    BY <2>1 DEF Flat, Cleared, Rows
  <2>3. Sound(e, pos, ledger) /\ Sound(Flat(e), pos, ledger)
    BY <1>2, <2>1, <2>2
  <2> QED BY <1>4, <2>3 DEF e
<1>5. ASSUME pc = "intent", row = Intended PROVE Sound(row, pos, ledger)
  <2>1. /\ row.amount = mem.amount /\ row.unpriced = mem.unpriced
        /\ row.due = mem.due /\ row.booked = mem.booked /\ row.parts = mem.parts
    BY <1>5 DEF Intended, TypeOK, Rows
  <2> QED BY <1>2, <2>1
<1>6. ASSUME pc = "write", row = Cleared(Due(Receipt, mem.amount))
      PROVE Sound(row, pos, ledger)
  <2> DEFINE due == Due(Receipt, mem.amount)
  <2>1. /\ mem.due = NotDue /\ mem.unpriced = 0
        /\ mem.amount \in Nat /\ mem.amount + mem.unpriced = mem.amount
    BY <1>6, ExitAssumption DEF WrittenAhead, Closing, Booking, TypeOK, Rows
  <2>2. Sound(due, pos, ledger)
    BY <1>1, <2>1, DueSound
  <2>3. due \in Rows
    BY <2>1, DueRow
  <2> HIDE DEF due
  <2>4. /\ Cleared(due).amount = due.amount /\ Cleared(due).unpriced = due.unpriced
        /\ Cleared(due).due = due.due /\ Cleared(due).booked = due.booked
        /\ Cleared(due).parts = due.parts
    BY <2>3 DEF Cleared, Rows
  <2>5. Owed(Cleared(due), ledger) = Owed(due, ledger)
    BY <2>4 DEF Owed
  <2>6. Sound(Cleared(due), pos, ledger)
    BY <2>2, <2>4, <2>5, SoundAlike
  <2> QED BY <1>6, <2>6 DEF due
<1>7. ASSUME pc \in {"replay", "offline"}, row = OfflineRow
      PROVE Sound(row, pos, ledger)
  <2>1. CASE mem.due # NotDue
    BY <1>1, <1>7, <2>1 DEF OfflineRow
  <2>2. CASE mem.due = NotDue
    <3>1. Total = mem.amount + mem.unpriced
      BY <1>7, <2>2 DEF Total, Booking
    <3> QED BY <1>1, <1>7, <2>2, <3>1, DueSound DEF OfflineRow
  <2> QED BY <2>1, <2>2
<1>8. ASSUME pc = "cleanup", row = [mem EXCEPT !.booked = TRUE]
      PROVE Sound(row, pos, ledger)
  <2>1. /\ row.amount = mem.amount /\ row.unpriced = mem.unpriced
        /\ row.due = mem.due /\ row.parts = mem.parts
    BY <1>8 DEF TypeOK, Rows
  <2>2. Owed(row, ledger) = Owed(mem, ledger)
    BY <2>1 DEF Owed
  <2>3. mem.due \in ledger /\ mem.due # NotDue
    BY <1>8 DEF Booking
  <2> QED BY <1>1, <2>1, <2>2, <2>3 DEF Sound
<1> QED BY <1>1, <1>3, <1>4, <1>5, <1>6, <1>7, <1>8, PartsLeftSound, ShrunkSound
           DEF Makes

LEMMA MadeAmount ==
  ASSUME Inv, mem.amount # 0, NEW row, Makes(row)
  PROVE row.amount # 0
<1> USE DEF Inv
<1>1. mem \in Rows /\ mem.amount > 0
  BY ExitAssumption DEF TypeOK, Rows
<1>2. ASSUME pc = "cover", ~Conflict, row = Evidence \/ row = Flat(Evidence)
      PROVE row.amount # 0
  BY <1>1, <1>2, EvidenceRow, FlatRow DEF Alike
<1>3. ASSUME row = Flat(mem) \/ row = Cleared(mem) PROVE row.amount # 0
  BY <1>1, <1>3, FlatRow, ClearedRow DEF Alike
<1>4. ASSUME row = PartsLeft \/ (row = Intended /\ (mem.intent = 0 => Spare))
      PROVE row.amount # 0
  BY <1>1, <1>4, PartRows, IntendedRow DEF Alike
<1>5. ASSUME pc = "shrink", row \in {Shrunk, Unpriced} PROVE row.amount # 0
  <2>1. row.amount = seen.left
    BY <1>1, <1>5 DEF Shrunk, Unpriced, Rows
  <2> QED BY <1>5, <2>1, ExitAssumption DEF Working, TypeOK, Looks
<1>6. ASSUME row = Cleared(Due(Receipt, mem.amount)) PROVE row.amount # 0
  <2>1. mem.amount \in Nat
    BY <1>1, ExitAssumption DEF Rows
  <2>2. Due(Receipt, mem.amount) \in Rows /\ Due(Receipt, mem.amount).amount = mem.amount
    BY <2>1, DueRow
  <2> QED BY <1>1, <1>6, <2>2, ClearedRow
<1>7. ASSUME row = OfflineRow PROVE row.amount # 0
  BY <1>1, <1>7, OfflineRowFacts
<1>8. ASSUME row = [mem EXCEPT !.booked = TRUE] PROVE row.amount # 0
  BY <1>1, <1>8 DEF Rows
<1> QED BY <1>1, <1>2, <1>3, <1>4, <1>5, <1>6, <1>7, <1>8 DEF Makes

\* Between operations nothing is booked.
LEMMA IdleLedger ==
  ASSUME [Next]_vars, pc = "idle"
  PROVE UNCHANGED ledger
<1>1. ASSUME Step PROVE FALSE
  BY <1>1 DEF Step, RewriteParts, SaveParts, ClearParts, CheckBooked,
              CheckDue, CheckNothing, CheckExit, Check, CheckGuarded,
              EnsureIntent, NoOrderLeft, Send, Answered, AnsweredFlat,
              DeferFlat, Found, ClearIntent, Void, CoverConflict,
              CoverVerified, Cover, Write, Save, Cleanup, Rewrite,
              RecordOffline, OfflineRefused, SaveRefused, ShrinkPriced, ShrinkUnpriced,
              SavePart, ClearPart
<1>2. ASSUME Failure PROVE UNCHANGED ledger
  BY <1>2 DEF Failure, WriteFails, EvidenceNotDurable, ClearFails,
              CoverUnpriced, Cover, CoverUnverified, CallFails,
              SaveSomeParts, Ends
<1>3. ASSUME (\E i \in Orders : Arrive(i) \/ Fill(i) \/ Finish(i)) \/ OthersClose
             \/ MonitorStarts \/ ReconcileGone \/ ReconcileLess \/ SaveRetry \/ Crash
             \/ UNCHANGED vars
      PROVE UNCHANGED ledger
  BY <1>3 DEF Arrive, Fill, Finish, OthersClose, MonitorStarts,
              ReconcileGone, ReconcileLess, Starts, SaveRetry, Crash, vars
<1> QED BY <1>1, <1>2, <1>3 DEF Next

\* With the row in memory the ledger books no more than is closed.
LEMMA BookedSome ==
  ASSUME BInv, mem.amount > 0
  PROVE /\ Booked \in Nat /\ IsFiniteSet(LotsOf(ledger))
        /\ Booked <= Lots - pos
        /\ mem.due \in ledger /\ mem.due # NotDue /\ mem.parts = {} => Booked = Lots
<1> DEFINE owed == Owed(mem, ledger)
           parts == {t \in ledger : ~Whole(t)}
<1> USE ExitAssumption DEF BInv, Inv
<1>1. /\ IsFiniteSet(LotsOf(owed))
      /\ Count(owed) + mem.unpriced + mem.amount = Lots
      /\ pos <= mem.amount
      /\ mem.due # NotDue => mem.due.lots = mem.amount + mem.unpriced
  BY DEF Accounted, Sound
<1>2. /\ mem.amount \in Nat /\ mem.unpriced \in Nat /\ pos \in Nat
      /\ mem.amount # 0
  BY DEF TypeOK, Rows
<1>3. parts \subseteq owed /\ (mem.parts = {} => parts = owed)
  BY DEF Owed
<1> HIDE DEF owed
<1>4. /\ IsFiniteSet(LotsOf(parts)) /\ Count(parts) \in Nat
      /\ Count(owed) \in Nat /\ Count(parts) <= Count(owed)
  BY <1>1, <1>3, CountSome
<1>5. CASE mem.due \in ledger /\ mem.due # NotDue
  <2>1. Whole(mem.due) /\ pos = 0
    BY <1>5 DEF WrittenAhead, Flattened
  <2>2. \A t \in ledger : Whole(t) => t = mem.due
    BY <1>2 DEF WrittenAhead
  <2>3. ledger = parts \cup {mem.due} /\ mem.due \notin parts
    BY <1>5, <2>1, <2>2
  <2> HIDE DEF parts
  <2>4. mem.due.lots = mem.amount + mem.unpriced /\ mem.due.lots \in Nat
    BY <1>1, <1>2, <1>5
  <2>5. /\ IsFiniteSet(LotsOf(parts \cup {mem.due}))
        /\ Count(parts \cup {mem.due}) = Count(parts) + mem.due.lots
    BY <1>4, <2>3, <2>4, CountAdd
  <2>6. Booked = Count(parts) + mem.due.lots /\ IsFiniteSet(LotsOf(ledger))
    BY <2>3, <2>5 DEF Booked, Count
  <2>7. Booked <= Lots /\ (mem.parts = {} => Booked = Lots) /\ Booked \in Nat
    BY <1>1, <1>2, <1>3, <1>4, <2>4, <2>6
  <2> QED BY <2>1, <2>6, <2>7
<1>6. CASE ~(mem.due \in ledger /\ mem.due # NotDue)
  <2>1. \A t \in ledger : ~Whole(t)
    <3> SUFFICES ASSUME NEW t \in ledger, Whole(t) PROVE FALSE
      OBVIOUS
    <3>1. t.lots > 0 /\ mem.due = t
      BY <1>2 DEF WrittenAhead
    <3>2. NotDue.lots = 0
      BY DEF NotDue, Trade
    <3> QED BY <1>6, <3>1, <3>2
  <2>2. ledger = parts
    BY <2>1
  <2> HIDE DEF parts
  <2>3. Booked = Count(parts) /\ IsFiniteSet(LotsOf(ledger))
    BY <1>4, <2>2 DEF Booked, Count
  <2>4. Booked <= Lots - pos
    BY <1>1, <1>2, <1>4, <2>3
  <2> QED BY <1>4, <1>6, <2>3, <2>4
<1> QED BY <1>5, <1>6

\* The rows and the ledger of the next state.
LEMMA AccountedStep ==
  ASSUME BInv, [Next]_vars
  PROVE Accounted'
<1> USE DEF BInv
<1>1. /\ pos \in Nat /\ pos' \in Nat /\ pos' <= pos
      /\ mem.amount \in Nat /\ disk.amount \in Nat
      /\ mem'.amount \in Nat /\ disk'.amount \in Nat
  BY VenueStep, RowsTyped, ExitAssumption DEF Inv, TypeOK, Rows
<1>2. mem.amount = 0 <=> disk.amount = 0
  BY DEF Inv, Together
<1>3. NoRow.amount = 0
  BY DEF NoRow
<1>4. ASSUME UNCHANGED ledger, NEW row, row.amount \in Nat, Sound(row, pos, ledger)
      PROVE Sound(row, pos', ledger')
  BY <1>1, <1>4, SoundLater
<1>5. ASSUME UNCHANGED ledger, mem.amount > 0, mem'.amount > 0
      PROVE Sound(mem', pos', ledger')
  <2>1. Sound(mem, pos, ledger) /\ Sound(disk, pos, ledger)
    BY <1>1, <1>2, <1>5 DEF Accounted
  <2>2. Makes(mem') => Sound(mem', pos, ledger)
    BY <1>5, MadeSound
  <2>3. Sound(mem', pos, ledger)
    BY <1>3, <1>5, <2>1, <2>2, RowsMadeStep DEF RowsMade
  <2> QED BY <1>1, <1>4, <1>5, <2>3
<1>6. ASSUME UNCHANGED ledger, mem.amount > 0, disk'.amount > 0
      PROVE Sound(disk', pos', ledger')
  <2>1. Sound(mem, pos, ledger) /\ Sound(disk, pos, ledger)
    BY <1>1, <1>2, <1>6 DEF Accounted
  <2>2. Makes(disk') => Sound(disk', pos, ledger)
    BY <1>6, MadeSound
  <2>3. Sound(disk', pos, ledger)
    BY <1>3, <1>6, <2>1, <2>2, RowsMadeStep DEF RowsMade
  <2> QED BY <1>1, <1>4, <1>6, <2>3
<1>7. ASSUME UNCHANGED <<mem, disk>>, NEW row \in {mem, disk}, row.amount > 0
      PROVE Sound(row, pos', ledger')
  <2>1. Sound(row, pos, ledger)
    BY <1>7 DEF Accounted
  <2>2. ledger \subseteq ledger' /\ Owed(row, ledger') = Owed(row, ledger)
    <3>1. CASE UNCHANGED ledger
      BY <3>1
    <3>2. CASE Whole(mem.due) /\ ledger' \in {ledger, ledger \cup {mem.due}}
      BY <3>2 DEF Owed
    <3>3. ASSUME disk = mem, NEW saved \in SUBSET mem.parts,
                 ledger' = ledger \cup {PartTrade(k) : k \in saved}
          PROVE ledger \subseteq ledger' /\ Owed(row, ledger') = Owed(row, ledger)
      <4>1. row.parts = mem.parts /\ saved \subseteq row.parts
        BY <1>7, <3>3
      <4>2. mem.parts \subseteq Partials
        BY DEF Inv, TypeOK, Rows
      <4>3. \A k \in saved : ~Whole(PartTrade(k))
        BY <3>3, <4>2, PartBooked
      <4> QED BY <3>3, <4>1, <4>3 DEF Owed
    <3> QED BY <3>1, <3>2, <3>3, BooksStep DEF Books
  <2> QED BY <1>1, <1>7, <2>1, <2>2, SoundLater
<1>8. \A row \in {mem', disk'} : row.amount > 0 => Sound(row, pos', ledger')
  <2>1. CASE UNCHANGED <<mem, disk>>
    BY <1>7, <2>1
  <2>2. CASE UNCHANGED ledger /\ ~UNCHANGED <<mem, disk>>
    <3>1. CASE mem.amount > 0
      BY <1>5, <1>6, <2>2, <3>1
    <3>2. CASE mem.amount = 0
      <4>1. mem = NoRow /\ disk = NoRow
        BY <1>2, <3>2 DEF Inv, Together
      <4>2. pc = "idle"
        BY <1>1, <3>2 DEF Inv, Together
      <4>3. UNCHANGED <<mem, disk>>
        BY <4>1, <4>2, RowsMadeStep DEF RowsMade, Makes
      <4> QED BY <2>2, <4>3
    <3> QED BY <1>1, <3>1, <3>2
  <2> QED BY <2>1, <2>2, BooksStep DEF Books
<1>9. ASSUME mem'.amount = 0 PROVE pos' = 0 /\ Booked' = Lots
  <2>1. CASE mem.amount = 0
    <3>1. pos = 0 /\ Booked = Lots /\ pc = "idle"
      BY <1>1, <2>1 DEF Accounted, Inv, Together
    <3>2. UNCHANGED ledger
      BY <3>1, IdleLedger
    <3> QED BY <1>1, <3>1, <3>2 DEF Booked
  <2>2. CASE mem.amount > 0
    <3>1. ~(UNCHANGED mem) /\ mem' # disk
      BY <1>1, <1>2, <1>9, <2>2
    <3>2. Makes(mem') => mem'.amount # 0
      BY <1>1, <2>2, MadeAmount DEF Inv
    <3>3. pc = "cleanup" /\ mem.parts = {} /\ UNCHANGED ledger
      BY <1>1, <1>9, <3>1, <3>2, RowsMadeStep DEF RowsMade
    <3>4. mem.due \in ledger /\ mem.due # NotDue /\ pos = 0
      BY <3>3 DEF Booking, Inv, Flattened, Ending
    <3>5. Booked = Lots
      BY <2>2, <3>3, <3>4, BookedSome
    <3> QED BY <1>1, <3>3, <3>4, <3>5 DEF Booked
  <2> QED BY <1>1, <2>1, <2>2
<1> QED BY <1>8, <1>9 DEF Accounted

\* The steps of which Booking says what it knows.
Noted == {"saveparts", "savepart", "clearparts", "clearpart", "shrink",
          "write", "rewrite", "replay", "cleanup"}

LEMMA NotNoted == ASSUME pc' \notin Noted PROVE Booking'
BY DEF Booking, Noted

LEMMA BookingStep ==
  ASSUME BInv, [Next]_vars
  PROVE Booking'
<1> USE DEF BInv
<1>1. pos \in Nat /\ pos' \in Nat /\ pos' <= pos
  BY VenueStep, ExitAssumption DEF Inv, TypeOK
<1>2. pc # "idle" => mem.amount > 0 /\ Sound(mem, pos, ledger)
  BY DEF Inv, Together, Accounted
<1>3. ASSUME UNCHANGED <<mem, disk, ledger, pc, seen>> PROVE Booking'
  <2>1. seen.left \in Nat
    BY ExitAssumption DEF Inv, TypeOK, Looks
  <2> QED BY <1>1, <1>3, <2>1 DEF Booking
<1>4. ASSUME (\E i \in Orders : Arrive(i) \/ Fill(i) \/ Finish(i)) \/ OthersClose
             \/ UNCHANGED vars
      PROVE Booking'
  BY <1>3, <1>4 DEF Arrive, Fill, Finish, OthersClose, vars
<1>5. ASSUME SaveRetry PROVE Booking'
  <2>1. UNCHANGED <<pos, mem, ledger, pc, seen>> /\ disk' = mem
    BY <1>5 DEF SaveRetry, venue
  <2> QED BY <2>1 DEF Booking
<1>6. ASSUME MonitorStarts \/ CheckNothing \/ CheckExit \/ CheckGuarded
             \/ EnsureIntent \/ NoOrderLeft \/ Send \/ Answered \/ AnsweredFlat
             \/ DeferFlat \/ Found \/ ClearIntent \/ CoverConflict \/ Write
             \/ Cleanup \/ RecordOffline \/ OfflineRefused \/ SaveRefused \/ ShrinkUnpriced
             \/ ClearPart \/ ClearParts \/ WriteFails \/ EvidenceNotDurable
             \/ ClearFails \/ CallFails \/ Crash
      PROVE Booking'
  <2>1. pc' \notin Noted
    BY <1>6 DEF Noted, Go, MonitorStarts, Starts, CheckNothing, CheckExit,
                Check, CheckGuarded, EnsureIntent, NoOrderLeft, Send,
                Answered, AnsweredFlat, DeferFlat, Found, ClearIntent,
                CoverConflict, Write, Cleanup, RecordOffline, OfflineRefused, SaveRefused,
                ShrinkUnpriced, ClearPart, ClearParts, WriteFails,
                EvidenceNotDurable, ClearFails, CallFails, Ends, Crash
  <2> QED BY <2>1, NotNoted
<1>7. ASSUME RewriteParts PROVE Booking'
  <2>1. pc' = "saveparts" /\ mem' = mem /\ disk' = mem
    BY <1>7 DEF RewriteParts, Persist, Go
  <2> QED BY <2>1 DEF Booking
<1>8. ASSUME ShrinkPriced PROVE Booking'
  <2>1. /\ pc = "shrink" /\ pc' = "savepart" /\ mem' = Shrunk /\ disk' = Shrunk
        /\ seen' = [Nothing EXCEPT !.saved = {Part}]
    BY <1>8 DEF ShrinkPriced, Persist, Go
  <2>2. seen'.saved = {Part} /\ Shrunk.parts = mem.parts \cup {Part}
    BY <2>1 DEF Nothing, Shrunk, Inv, TypeOK, Rows
  <2> QED BY <2>1, <2>2 DEF Booking
<1>9. ASSUME SaveParts \/ SaveSomeParts \/ SavePart PROVE Booking'
  <2>1. /\ pc' \in {"clearparts", "clearpart"}
        /\ \A k \in seen'.saved : PartTrade(k) \in ledger'
    <3>1. CASE SaveParts
      BY <3>1 DEF SaveParts, Go, Inv, TypeOK, Looks
    <3>2. CASE SaveSomeParts
      BY <3>2 DEF SaveSomeParts, Go, Inv, TypeOK, Looks
    <3>3. CASE SavePart
      BY <3>3 DEF SavePart, Go
    <3> QED BY <1>9, <3>1, <3>2, <3>3
  <2> QED BY <2>1 DEF Booking
<1>10. ASSUME CheckBooked PROVE Booking'
  <2>1. pc' = "cleanup" /\ mem.booked /\ UNCHANGED <<mem, ledger>> /\ pc # "idle"
    BY <1>10 DEF CheckBooked, Check, Go
  <2>2. mem.due \in ledger /\ mem.due # NotDue
    BY <1>2, <2>1 DEF Sound
  <2> QED BY <2>1, <2>2 DEF Booking
<1>11. ASSUME CheckDue \/ Rewrite PROVE Booking'
  <2>1. pc' \in {"rewrite", "replay"} /\ mem' = mem /\ mem.due # NotDue
    BY <1>11 DEF CheckDue, Rewrite, Check, Go, Persist, Booking
  <2> QED BY <2>1 DEF Booking
<1>12. ASSUME ReconcileGone PROVE Booking'
  <2>1. /\ UNCHANGED <<mem, ledger>> /\ mem # NoRow
        /\ pc' = IF mem.booked THEN "cleanup" ELSE "offline"
    BY <1>12 DEF ReconcileGone, Starts, Go, Open, Gone
  <2>2. mem.amount > 0
    BY <2>1, ExitAssumption DEF Inv, Together, TypeOK, Rows
  <2>3. mem.booked => mem.due \in ledger /\ mem.due # NotDue
    BY <2>2 DEF Accounted, Sound
  <2> QED BY <2>1, <2>3 DEF Booking
<1>13. ASSUME ReconcileLess PROVE Booking'
  <2>1. /\ pc' = "shrink" /\ mem' = mem /\ 0 < pos /\ pos' = pos
        /\ seen'.left = pos
    BY <1>13 DEF ReconcileLess, Go, Inv, TypeOK, Looks, venue
  <2>2. mem.due = NotDue /\ ~mem.booked
    BY <1>1, <2>1 DEF Inv, Flattened
  <2> QED BY <1>1, <2>1, <2>2 DEF Booking
<1>14. ASSUME NEW row, NEW closed \in BOOLEAN, Cover(row, closed) PROVE Booking'
  <2>1. CASE closed /\ Covered(row)
    <3>1. mem' = row /\ pc' = "write"
      BY <1>14, <2>1 DEF Cover, Kept, Persist, Go
    <3> QED BY <2>1, <3>1 DEF Booking, Covered
  <2>2. CASE ~(closed /\ Covered(row))
    <3>1. pc' = "idle"
      BY <1>14, <2>2 DEF Cover, Go
    <3> QED BY <3>1, NotNoted DEF Noted
  <2> QED BY <2>1, <2>2
<1>15. ASSUME CoverVerified \/ CoverUnpriced \/ CoverUnverified PROVE Booking'
  BY <1>14, <1>15 DEF CoverVerified, CoverUnpriced, CoverUnverified
<1>16. ASSUME Save PROVE Booking'
  <2>1. /\ pc = "save" /\ pc' = "cleanup" /\ mem' = mem
        /\ ledger' = ledger \cup {mem.due}
    BY <1>16 DEF Save, Book, Go
  <2>2. mem.due.lots > 0 /\ mem.amount > 0 /\ mem.amount # 0
    BY <2>1 DEF Inv, WrittenAhead, Together
  <2>3. mem.due # NotDue /\ Whole(mem.due)
    <3>1. NotDue.lots = 0
      BY DEF NotDue, Trade
    <3> QED BY <2>2, <3>1 DEF Inv, WrittenAhead
  <2>4. mem.due \in ledger'
    BY <2>1
  <2> QED BY <2>1, <2>3, <2>4 DEF Booking
<1> QED BY <1>4, <1>5, <1>6, <1>7, <1>8, <1>9, <1>10, <1>11, <1>12, <1>13,
           <1>15, <1>16 DEF Next, Step, Failure

LEMMA BookingInvariance == Spec => []BInv
<1>1. Init => Accounted /\ Booking
  <2> SUFFICES ASSUME Init PROVE Accounted /\ Booking
    OBVIOUS
  <2>1. /\ mem = Opened /\ disk = Opened /\ ledger = {} /\ pc = "idle" /\ pos = Lots
    BY DEF Init
  <2>2. /\ Opened.amount = Lots /\ Opened.parts = {} /\ Opened.unpriced = 0
        /\ Opened.due = NotDue /\ Opened.booked = FALSE
    BY DEF Opened, NoRow
  <2>3. Owed(Opened, {}) = {}
    BY <2>2 DEF Owed
  <2>4. Lots \in Nat /\ Lots > 0
    BY ExitAssumption
  <2>5. Sound(Opened, Lots, {})
    BY <2>2, <2>3, <2>4, CountNone DEF Sound
  <2>6. Accounted
    BY <2>1, <2>2, <2>4, <2>5 DEF Accounted
  <2> QED BY <2>1, <2>6 DEF Booking
<1>2. Init => BInv
  BY <1>1, InvInit DEF BInv
<1>3. BInv /\ [Next]_vars => BInv'
  <2>1. ASSUME BInv, [Next]_vars PROVE BInv'
    BY <2>1, InvStep, AccountedStep, BookingStep DEF BInv
  <2> QED BY <2>1
<1> QED BY <1>2, <1>3, PTL DEF Spec

-----------------------------------------------------------------------------
(* What follows.                                                           *)

\* Rows, orders, bookings and the operation under way keep their shape: no
\* fragment or intended amount exceeds the position, and every partial booking
\* is of a part.
THEOREM TypeCorrect == Spec => []TypeOK
<1>1. Inv => TypeOK
  BY DEF Inv
<1> QED BY Invariance, <1>1, PTL

\* A full-close order that may still trade is named by the intent in the file
\* (_ensure_futures_full_exit_intent, _clear_futures_full_exit_intent), unless
\* a complete lookup missed it.
THEOREM Traceability == Spec => []OrderTraceable
<1>1. Inv => OrderTraceable
  BY DEF Inv, Tracked, OrderTraceable
<1> QED BY Invariance, <1>1, PTL

\* The close is booked at most once, under one identity, however often the
\* booking is replayed and whoever replays it (_record_offline_close).
THEOREM CloseOnce == Spec => []CloseBookedOnce
<1>1. Inv => CloseBookedOnce
  BY DEF Inv
<1> QED BY Invariance, <1>1, PTL

\* "One terminal, source-fenced cumulative fill": what a row counts for full
\* closes, orders of the bot filled, however often a partly filled order is
\* looked up, the monitor restarts or a write fails
\* (_full_exit_cumulative_fragment).
THEOREM FragmentsBacked == Spec => []FragmentsReal
<1>1. Init => Backed
  <2> SUFFICES ASSUME Init PROVE Backed
    OBVIOUS
  <2>1. mem.fragment = 0 /\ mem.intent = 0 /\ disk = mem /\ pc # "cover"
    BY DEF Init, Opened, NoRow
  <2>2. Filled(order, Orders) \in Nat
    BY InvInit, FillsFinite DEF Inv, TypeOK
  <2> QED BY <2>1, <2>2 DEF Backed, RowBacked
<1>2. Inv /\ Backed /\ [Next]_vars => Backed'
  BY BackedStep
<1>3. Backed => FragmentsReal
  BY DEF Backed, RowBacked, FragmentsReal, FilledBy, Fills, Filled, FillsOf
<1> QED BY Invariance, <1>1, <1>2, <1>3, PTL DEF Spec

\* Whoever closed, in how many pieces, with failed writes and crashes between
\* a booking and the write that notes it: no lot is booked twice or before it
\* is closed, and none is left out when the row goes (_record_offline_close,
\* _record_futures_external_partial, _cleanup_accounted_close_state).
THEOREM BooksRight == Spec => []BookedRight
<1>1. BInv => BookedRight
  <2> SUFFICES ASSUME BInv PROVE BookedRight
    OBVIOUS
  <2>1. Lots \in Nat /\ mem.amount \in Nat
    BY ExitAssumption DEF BInv, Inv, TypeOK, Rows
  <2>2. CASE mem.amount = 0
    BY <2>1, <2>2 DEF BInv, Accounted, BookedRight
  <2>3. CASE mem.amount > 0
    <3>1. ~Gone
      BY <2>3 DEF Gone, NoRow
    <3> QED BY <2>3, <3>1, BookedSome DEF BookedRight
  <2> QED BY <2>1, <2>2, <2>3
<1> QED BY BookingInvariance, <1>1, PTL

-----------------------------------------------------------------------------
(* The trades are the books of the position.                               *)

\* The venue closes lots, or the database gets trades, never both; a trade
\* is added while the row is there, and none is ever taken back.
Venue == pos' <= pos /\ UNCHANGED <<mem, disk, ledger>>
Adding == UNCHANGED <<pos, mem>> /\ ledger \subseteq ledger' /\ mem.amount > 0

LEMMA VenueOrBooks ==
  ASSUME BInv, [Next]_vars
  PROVE  Venue \/ Adding \/ UNCHANGED <<pos, ledger>>
<1> DEFINE Goal == Venue \/ Adding \/ UNCHANGED <<pos, ledger>>
<1>1. pos \in Nat /\ pos' <= pos
  BY VenueStep, ExitAssumption DEF BInv, Inv, TypeOK
<1>2. ASSUME SaveParts \/ SavePart \/ SaveSomeParts \/ Save PROVE Goal
  <2>1. UNCHANGED <<pos, mem>> /\ pc # "idle" /\ ledger \subseteq ledger'
    BY <1>2 DEF SaveParts, SavePart, SaveSomeParts, Save, Book, venue
  <2>2. mem.amount > 0
    BY <2>1 DEF BInv, Inv, Together
  <2> QED BY <2>1, <2>2 DEF Adding
<1>3. ASSUME NEW i \in Orders, Arrive(i) \/ Fill(i) \/ Finish(i) PROVE Goal
  BY <1>1, <1>3 DEF Arrive, Fill, Finish, Venue
<1>4. CASE OthersClose
  BY <1>1, <1>4 DEF OthersClose, Venue
<1>5. ASSUME Step, ~SaveParts, ~SavePart, ~Save PROVE UNCHANGED <<pos, ledger>>
  BY <1>5 DEF Step, RewriteParts, ClearParts, CheckBooked, CheckDue,
              CheckNothing, CheckExit, Check, CheckGuarded, EnsureIntent,
              NoOrderLeft, Send, Answered, AnsweredFlat, DeferFlat, Found,
              ClearIntent, CoverConflict, CoverVerified, Cover, Write,
              Cleanup, Rewrite, RecordOffline, OfflineRefused, SaveRefused, ShrinkPriced,
              ShrinkUnpriced, ClearPart, venue
<1>6. ASSUME Failure, ~SaveSomeParts PROVE UNCHANGED <<pos, ledger>>
  BY <1>6 DEF Failure, WriteFails, EvidenceNotDurable, ClearFails,
              CoverUnpriced, Cover, CoverUnverified, CallFails, Ends, venue
<1>7. ASSUME MonitorStarts \/ ReconcileGone \/ ReconcileLess \/ SaveRetry \/ Crash
             \/ UNCHANGED vars
      PROVE UNCHANGED <<pos, ledger>>
  BY <1>7 DEF MonitorStarts, ReconcileGone, ReconcileLess, Starts, SaveRetry,
              Crash, vars, venue
<1> QED BY <1>2, <1>3, <1>4, <1>5, <1>6, <1>7 DEF Next

\* A row that went stays away, whatever is replayed or restarted.
LEMMA GoneForGood ==
  ASSUME Inv, [Next]_vars, Gone
  PROVE  Gone'
<1>1. mem = NoRow /\ disk = NoRow /\ mem.amount = 0
  BY DEF Gone, Inv, Together, NoRow
<1> QED BY <1>1, RowStep DEF RowsFollow, Follows, Gone

\* The books in numbers, whether the row is there or not.
LEMMA BooksInNumbers ==
  ASSUME BInv
  PROVE  /\ Booked \in Nat /\ Booked <= Lots - pos /\ pos \in 0..Lots /\ Lots \in Nat
         /\ Gone => Booked = Lots /\ pos = 0
         /\ ~Gone => IsFiniteSet(LotsOf(ledger))
<1>1. pos \in 0..Lots /\ Lots \in Nat /\ mem.amount \in Nat
  BY ExitAssumption DEF BInv, Inv, TypeOK, Rows
<1>2. CASE mem.amount = 0
  <2>1. mem = NoRow /\ pos = 0 /\ Booked = Lots
    BY <1>2 DEF BInv, Inv, Together, Accounted
  <2> QED BY <1>1, <2>1 DEF Gone
<1>3. CASE mem.amount > 0
  <2>1. ~Gone
    BY <1>3 DEF Gone, NoRow
  <2> QED BY <1>1, <1>3, <2>1, BookedSome
<1> QED BY <1>1, <1>2, <1>3

\* A step of the exit is one of its books, or leaves them as they are.
LEMMA ExitBooksStep ==
  ASSUME BInv, BInv', [Next]_vars
  PROVE  [Ledger!Next]_(Ledger!vars)
<1> USE DEF Ledger!vars
<1>1. /\ Booked \in Nat /\ Booked <= Lots - pos /\ pos \in 0..Lots /\ Lots \in Nat
      /\ Gone => Booked = Lots /\ pos = 0
      /\ ~Gone => IsFiniteSet(LotsOf(ledger))
  BY BooksInNumbers
<1>2. /\ Booked' \in Nat /\ Booked' <= Lots - pos' /\ pos' \in 0..Lots
      /\ Gone' => Booked' = Lots /\ pos' = 0
      /\ ~Gone' => IsFiniteSet(LotsOf(ledger'))
  <2>1. (BInv => /\ Booked \in Nat /\ Booked <= Lots - pos /\ pos \in 0..Lots
                 /\ Gone => Booked = Lots /\ pos = 0
                 /\ ~Gone => IsFiniteSet(LotsOf(ledger)))'
    BY BooksInNumbers, PTL
  <2>2. LotsOf(ledger)' = LotsOf(ledger')
    BY DEF LotsOf
  <2> QED BY <2>1, <2>2
<1>3. CASE Gone
  <2>1. Gone' /\ Gone' = Gone
    BY <1>3, GoneForGood DEF BInv, Gone
  <2>2. Booked' = Booked /\ pos' = pos
    BY <1>1, <1>2, <1>3, <2>1
  <2> QED BY <2>1, <2>2
<1>4. CASE ~Gone /\ Gone'
  <2>1. mem' # mem
    BY <1>4 DEF Gone
  <2>2. pos' = pos /\ Booked' = Booked
    BY <2>1, VenueOrBooks DEF Venue, Adding, Booked, LotsOf
  <2>3. Lots - pos = Lots /\ Booked' = Lots - pos /\ (Lots - pos)' = Lots - pos
    BY <1>1, <1>2, <1>4, <2>2
  <2>4. Gone' = TRUE
    BY <1>4 DEF Gone
  <2> QED BY <1>4, <2>3, <2>4 DEF Ledger!Next, Ledger!Close
<1>5. CASE ~Gone /\ ~Gone'
  <2>1. Gone' = Gone
    BY <1>5 DEF Gone
  <2>2. CASE Venue
    <3>1. Booked' = Booked
      BY <2>2 DEF Venue, Booked, LotsOf
    <3>2. (Lots - pos)' \in (Lots - pos + 1)..Lots \/ (Lots - pos)' = Lots - pos
      <4>1. pos' \in 0..Lots /\ pos \in 0..Lots /\ Lots \in Nat /\ pos' <= pos
        BY <1>1, <1>2, <2>2 DEF Venue
      <4>2. CASE pos' = pos
        BY <4>2
      <4>3. CASE pos' # pos
        <5>1. \A l \in Nat : \A p, q \in 0..l :
                 q <= p /\ q # p => l - q \in (l - p + 1)..l
          OBVIOUS
        <5>2. Lots - pos' \in (Lots - pos + 1)..Lots
          BY <4>1, <4>3, <5>1
        <5> QED BY <5>2
      <4> QED BY <4>2, <4>3
    <3> QED BY <1>5, <2>1, <3>1, <3>2 DEF Ledger!Next, Ledger!Trade
  <2>3. CASE Adding
    <3>1. LotsOf(ledger) \subseteq LotsOf(ledger')
      BY <2>3 DEF Adding, LotsOf
    <3>2. Cardinality(LotsOf(ledger)) <= Cardinality(LotsOf(ledger'))
      BY <1>2, <1>5, <3>1, FS_Subset
    <3>3. Booked = Cardinality(LotsOf(ledger)) /\ Booked' = Cardinality(LotsOf(ledger'))
      BY DEF Booked, LotsOf
    <3>4. (Lots - pos)' = Lots - pos
      BY <2>3 DEF Adding
    <3>5. Booked' \in (Booked + 1)..(Lots - pos) \/ Booked' = Booked
      BY <1>1, <1>2, <2>3, <3>2, <3>3 DEF Adding
    <3> QED BY <1>5, <2>1, <3>4, <3>5 DEF Ledger!Next, Ledger!Record
  <2>4. CASE UNCHANGED <<pos, ledger>>
    BY <2>1, <2>4 DEF Booked, LotsOf
  <2> QED BY <2>2, <2>3, <2>4, VenueOrBooks
<1> QED BY <1>3, <1>4, <1>5

\* The trades are the books of a position of any size: they never run ahead of
\* the venue, take nothing back, and are complete when the row goes for good
\* (_record_offline_close, _record_futures_external_partial).
THEOREM TradesKeepTheBooks == Spec => ExitLedgerSpec
<1>1. Init => Ledger!Init
  <2> SUFFICES ASSUME Init PROVE Ledger!Init
    OBVIOUS
  <2>1. ledger = {} /\ pos = Lots /\ mem.amount = Lots /\ Lots \in Nat /\ Lots # 0
    BY ExitAssumption DEF Init, Opened, NoRow
  <2>2. Booked = 0
    BY <2>1, CountNone DEF Booked, Count
  <2>3. ~Gone
    BY <2>1 DEF Gone, NoRow
  <2> QED BY <2>1, <2>2, <2>3 DEF Ledger!Init, Gone
<1>2. BInv /\ BInv' /\ [Next]_vars => [Ledger!Next]_(Ledger!vars)
  BY ExitBooksStep
<1> QED BY <1>1, <1>2, BookingInvariance, PTL
           DEF Spec, ExitLedgerSpec, Ledger!Spec

=============================================================================
