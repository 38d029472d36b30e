---------------------------- MODULE PositionProofs ----------------------------
(***************************************************************************)
(* Why the position state keeps its promises, for any number of threads,   *)
(* generations, operations, failures, restarts and foreign claims.         *)
(***************************************************************************)
EXTENDS PositionState, TLAPS

\* The places of a thread that holds _registry_lock.
Holding == {"mirror", "mark", "saveMark", "settle", "saveClear", "saveStaged",
            "stage", "saveGone", "restore", "release", "saveRestored", "absent",
            "retry", "commit", "saveCommit"}

\* Revisions: those acknowledged, saved and on disk come in this order, and no
\* row or snapshot is from the future.
Past(r, n) == r.id <= n /\ r.val <= n
Numbered ==
  /\ acked <= persisted /\ persisted <= fileRev /\ fileRev <= rev
  /\ Past(trades, rev) /\ Past(file, rev) /\ confirmed <= rev
  /\ \A t \in Threads :
       op[t].rev <= rev /\ Past(op[t].row, rev) /\ Past(op[t].snap, rev)

\* The lock is held where the code holds it, and by nobody when the bot is down.
Locked ==
  /\ \A t \in Threads : op[t].at \in Holding <=> rlock = t
  /\ ~up => ~Present(trades) /\ \A t \in Threads : op[t] = Idle

\* The fields the claim repeats never change in place.
Same(r, s) == r.gen = s.gen /\ r.amount = s.amount /\ r.release = s.release
Twins ==
  Present(trades) =>
    \A t \in Threads :
      /\ op[t].row.id = trades.id /\ Present(op[t].row) => Same(op[t].row, trades)
      /\ op[t].snap.id = trades.id /\ Present(op[t].snap) => Same(op[t].snap, trades)

\* What the holder of the lock knows of the row it mirrors: nobody confirms
\* another row, and the generation stays.
Mirroring ==
  \A t \in Threads :
    /\ op[t].at \in {"mirror", "retry", "commit"}
         => /\ Present(trades) /\ Present(op[t].row)
            /\ trades.id = op[t].row.id \/ trades.id # confirmed
    /\ op[t].at \in {"settle", "commit"} /\ op[t].got = "mirrored"
         => claim = Mirrored(op[t].row)
    /\ op[t].at \in {"save", "publish", "mirror", "mark"} => op[t].got = "none"
    /\ op[t].at = "saveMark" => op[t].got = "failed"
    /\ op[t].at = "saveMark" \/ (op[t].at = "settle" /\ op[t].got = "marked")
         => (Mine(t) => trades.pending)

\* A snapshot that may still be written.
Live(v) == op[v].at \in Saving /\ op[v].rev >= persisted

\* Since a write took its snapshot the symbol has had no other generation.
Since(t, g) ==
  /\ \A v \in Threads : op[v].at \in Saving /\ op[v].rev >= op[t].rev
                          => op[v].snap.gen = g
  /\ fileRev >= op[t].rev => file.gen = g
Writing ==
  \A t \in Threads :
    /\ op[t].at \in {"save", "publish"}
         => /\ Present(op[t].snap)
            /\ Present(trades) /\ trades.id = op[t].snap.id
                 => Since(t, op[t].snap.gen)
    /\ op[t].at \in {"publish", "stage"} => op[t].rev <= persisted
    /\ op[t].at \in {"mirror", "mark", "saveMark", "settle"}
         => /\ Present(op[t].row) /\ trades.gen = op[t].row.gen
            /\ file.gen = op[t].row.gen
            /\ \A v \in Threads : Live(v) => op[v].snap.gen = op[t].row.gen

\* No row that a restart would bring back unmarked.
Off(r) == ~Present(r) \/ r.release
Leaving ==
  /\ \A t \in Threads :
       /\ op[t].at \in {"saveStaged", "stage"} => Present(op[t].snap) /\ op[t].snap.release
       /\ op[t].at \in {"saveStaged", "stage"} /\ trades = op[t].snap
            => /\ \A v \in Threads : op[v].at \in Saving /\ op[v].rev >= op[t].rev
                                       => Off(op[v].snap)
               /\ fileRev >= op[t].rev => Off(file)
  /\ up /\ ~Present(trades)
       => /\ Off(file)
          /\ \A v \in Threads : Live(v) => Off(op[v].snap)

\* A popped row that may come back brings no conflict under an order.
Popped ==
  \A u \in Threads : op[u].at \in {"saveGone", "release", "restore"}
    => /\ Present(op[u].row)
       /\ ~Present(trades) =>
            \A t \in Threads : At(t, "order") /\ op[t].row.gen = op[u].row.gen
              /\ ~op[t].row.conflict => ~op[u].row.conflict

Inv == /\ TypeOK /\ Numbered /\ Locked /\ Twins /\ Mirroring /\ Writing /\ Leaving
       /\ Popped /\ MirrorHonest /\ OrderUndisturbed

-----------------------------------------------------------------------------
(* Types.                                                                  *)

LEMMA Blanks == NoRow \in Rows /\ NoClaim \in Claims /\ Idle \in Ops
BY DEF NoRow, Rows, NoClaim, Claims, Idle, Ops, Places, Answers

LEMMA RowsTyped ==
  ASSUME NEW r \in Rows, NEW n \in Nat
  PROVE  /\ [r EXCEPT !.val = n] \in Rows
         /\ [r EXCEPT !.id = n, !.val = n] \in Rows
         /\ [r EXCEPT !.id = n, !.amount = n, !.val = n] \in Rows
         /\ [r EXCEPT !.id = n, !.val = n, !.release = TRUE] \in Rows
         /\ [r EXCEPT !.pending = TRUE] \in Rows /\ [r EXCEPT !.conflict = TRUE] \in Rows
         /\ [r EXCEPT !.pending = TRUE, !.val = n] \in Rows
         /\ [r EXCEPT !.conflict = TRUE, !.pending = FALSE, !.val = n] \in Rows
         /\ Unmarked(r) \in Rows /\ [Unmarked(r) EXCEPT !.val = n] \in Rows
         /\ Mirrored(r) \in Claims
BY DEF Rows, Unmarked, Mirrored, Claims

LEMMA OpsTyped ==
  ASSUME NEW o \in Ops, NEW place \in Places, NEW got \in Answers
  PROVE  /\ [o EXCEPT !.at = place] \in Ops
         /\ [o EXCEPT !.at = place, !.got = got] \in Ops
         /\ [o EXCEPT !.got = got] \in Ops
         /\ \A r \in Rows : [o EXCEPT !.at = place, !.row = r] \in Ops
         /\ \A r \in Rows : [o EXCEPT !.row = r] \in Ops
         /\ \A n \in Nat, r \in Rows :
              [o EXCEPT !.at = place, !.rev = n, !.snap = r] \in Ops
BY DEF Ops

LEMMA IdleTyped ==
  ASSUME NEW place \in Places, NEW r \in Rows, NEW g \in Gens \cup {None}, NEW n \in Nat
  PROVE  /\ [Idle EXCEPT !.at = place, !.gen = g] \in Ops
         /\ [Idle EXCEPT !.gen = g] \in Ops
         /\ [Idle EXCEPT !.seen = n] \in Ops
         /\ [Idle EXCEPT !.at = place, !.row = r] \in Ops
         /\ [Idle EXCEPT !.at = place, !.row = r, !.guard = TRUE] \in Ops
         /\ [Idle EXCEPT !.at = place, !.guard = TRUE] \in Ops
         /\ [Idle EXCEPT !.at = place, !.rev = n, !.snap = r] \in Ops
BY Blanks DEF Idle, Ops

LEMMA SetTyped ==
  ASSUME TypeOK, NEW t \in Threads, NEW o \in Ops, Set(t, o)
  PROVE  op' \in [Threads -> Ops]
BY DEF TypeOK, Set

LEMMA SnapshotTyped ==
  ASSUME TypeOK, NEW t \in Threads, NEW r \in Rows, NEW o \in Ops, NEW place \in Places,
         Snapshot(t, r, place, o)
  PROVE  /\ trades' \in Rows /\ rev' \in Nat /\ persisted' \in Nat
         /\ op' \in [Threads -> Ops]
<1>1. rev + 1 \in Nat
  BY DEF TypeOK
<1>2. [o EXCEPT !.at = place, !.rev = rev + 1, !.snap = r] \in Ops
  BY <1>1, OpsTyped DEF Answers
<1> QED
  BY <1>1, <1>2, SetTyped DEF Snapshot, TypeOK

LEMMA LeaveTyped ==
  ASSUME TypeOK, NEW t \in Threads, NEW place \in Places, NEW got \in Answers,
         Leave(t, place, got)
  PROVE  rlock' \in Threads \cup {None} /\ op' \in [Threads -> Ops]
<1>1. op[t] \in Ops
  BY DEF TypeOK
<1>2. (IF place = "idle" THEN Idle ELSE [op[t] EXCEPT !.at = place, !.got = got]) \in Ops
  BY <1>1, OpsTyped, Blanks
<1>3. op' \in [Threads -> Ops]
  BY <1>2, SetTyped DEF Leave
<1> QED
  BY <1>3 DEF Leave, TypeOK

LEMMA ForgetTyped ==
  ASSUME ForgetRetry
  PROVE  retry' \in BOOLEAN /\ retryGen' \in Nat /\ deferred' \in BOOLEAN
<1>1. retry' \in BOOLEAN /\ deferred' \in BOOLEAN
  BY Zenon DEF ForgetRetry
<1> QED
  BY <1>1 DEF ForgetRetry

LEMMA ExpectedTyped ==
  ASSUME TypeOK, NEW g, RemoveExpected(g)
  PROVE  claim' \in Claims
BY Blanks DEF RemoveExpected, TypeOK

LEMMA StepTyped ==
  ASSUME TypeOK, NEW t \in Threads, Steps(t)
  PROVE  TypeOK'
<1>o. op[t] \in Ops /\ rev + 1 \in Nat
  BY DEF TypeOK
<1>r. /\ op[t].snap \in Rows /\ op[t].row \in Rows /\ op[t].rev \in Nat
      /\ op[t].gen \in Gens \cup {None} /\ op[t].got \in Answers
  BY <1>o DEF Ops
<1>1. CASE SaveDone(t)
  <2>1. Onward(t) \in Places /\ (IF At(t, "saveMark") THEN "marked" ELSE op[t].got) \in Answers
    BY <1>r DEF Places, Answers, Onward
  <2>2. rlock' \in Threads \cup {None} /\ op' \in [Threads -> Ops]
    BY <1>1, <2>1, LeaveTyped DEF SaveDone
  <2> QED
    BY <1>1, <1>r, <2>2 DEF SaveDone, Save, TypeOK, disk, pendings, budgets
<1>2. CASE SaveFailed(t)
  <2>1. Failing(t) \in Places
    BY DEF Places, Failing
  <2>2. rlock' \in Threads \cup {None} /\ op' \in [Threads -> Ops]
    BY <1>2, <1>r, <2>1, LeaveTyped DEF SaveFailed
  <2> QED
    BY <1>2, <1>r, <2>2 DEF SaveFailed, Save, Fault, TypeOK, disk, memory, pendings, ghosts
<1>3. CASE Publish(t)
  <2>1. [op[t] EXCEPT !.at = "mirror", !.row = trades] \in Ops
    BY <1>o, OpsTyped DEF TypeOK, Places, Answers
  <2>2. op' \in [Threads -> Ops]
    BY <1>3, <2>1, SetTyped, Blanks DEF Publish, End
  <2> QED
    BY <1>3, <2>2 DEF Publish, TypeOK, disk, memory, pendings, ghosts, budgets
<1>4. CASE Mirror(t)
  <2>1. [op[t] EXCEPT !.at = "settle", !.got = "mirrored"] \in Ops
    BY <1>o, OpsTyped DEF Places, Answers
  <2>2. op' \in [Threads -> Ops] /\ claim' \in Claims
    BY <1>4, <1>r, <2>1, SetTyped, RowsTyped DEF Mirror, Upsert
  <2> QED
    BY <1>4, <2>2 DEF Mirror, TypeOK, disk, memory, pendings, ghosts, budgets
<1>5. CASE MirrorFails(t)
  <2>1. [op[t] EXCEPT !.at = "mark"] \in Ops
    BY <1>o, OpsTyped DEF Places, Answers
  <2>2. op' \in [Threads -> Ops]
    BY <1>5, <2>1, SetTyped DEF MirrorFails, Goto
  <2> QED
    BY <1>5, <2>2 DEF MirrorFails, Fault, TypeOK, disk, memory, pendings, ghosts
<1>6. CASE MarkPending(t)
  <2>1. "saveMark" \in Places /\ "settle" \in Places /\ "failed" \in Answers
    BY DEF Places, Answers
  <2>2. /\ [op[t] EXCEPT !.got = "failed"] \in Ops
        /\ [op[t] EXCEPT !.at = "settle", !.got = "failed"] \in Ops
        /\ [trades EXCEPT !.pending = TRUE, !.val = rev + 1] \in Rows
    BY <1>o, <2>1, OpsTyped, RowsTyped DEF TypeOK
  <2>3. CASE Mine(t)
    <3>1. /\ trades' \in Rows /\ rev' \in Nat /\ persisted' \in Nat
          /\ op' \in [Threads -> Ops]
      BY <1>6, <2>1, <2>2, <2>3, SnapshotTyped DEF MarkPending
    <3> QED
      BY <1>6, <2>3, <3>1 DEF MarkPending, TypeOK, disk, ghosts, budgets
  <2>4. CASE ~Mine(t)
    <3>1. op' \in [Threads -> Ops]
      BY <1>6, <2>2, <2>4, SetTyped DEF MarkPending
    <3> QED
      BY <1>6, <2>4, <3>1 DEF MarkPending, TypeOK, memory, pendings, disk, ghosts, budgets
  <2> QED
    BY <2>3, <2>4
<1>7. CASE Settle(t)
  <2>1. "idle" \in Places /\ "saveClear" \in Places /\ "none" \in Answers
    BY DEF Places, Answers
  <2>2. [Unmarked(trades) EXCEPT !.val = rev + 1] \in Rows
    BY <1>o, RowsTyped DEF TypeOK
  <2>3. retry' \in BOOLEAN /\ retryGen' \in Nat /\ deferred' \in BOOLEAN
    <3>1. CASE ForgetRetry
      BY <3>1, ForgetTyped
    <3>2. CASE UNCHANGED pendings
      BY <3>2 DEF TypeOK, pendings
    <3> QED
      BY <1>7, <3>1, <3>2 DEF Settle
  <2>4. confirmed' \in Nat
    BY <1>7, <1>o DEF Settle, Confirm, TypeOK, Rows
  <2>5. /\ trades' \in Rows /\ rev' \in Nat /\ persisted' \in Nat
        /\ rlock' \in Threads \cup {None} /\ op' \in [Threads -> Ops]
    <3>1. CASE Leave(t, "idle", "none") /\ UNCHANGED memory
      BY <2>1, <3>1, LeaveTyped DEF TypeOK, memory
    <3>2. CASE Snapshot(t, [Unmarked(trades) EXCEPT !.val = rev + 1], "saveClear", op[t])
               /\ UNCHANGED rlock
      BY <1>o, <2>1, <2>2, <3>2, SnapshotTyped DEF TypeOK
    <3> QED
      BY <1>7, <3>1, <3>2 DEF Settle
  <2> QED
    BY <1>7, <2>3, <2>4, <2>5 DEF Settle, TypeOK, disk, budgets
<1>8. CASE RemoveAbsent(t)
  <2>1. rlock' \in Threads \cup {None} /\ op' \in [Threads -> Ops]
    BY <1>8, LeaveTyped DEF RemoveAbsent, Places, Answers
  <2>2. CASE UNCHANGED <<pendings, claim>>
    BY <1>8, <2>1, <2>2 DEF RemoveAbsent, Fault, TypeOK, memory, pendings, disk, ghosts
  <2>3. CASE RemoveExpected(op[t].gen) /\ ForgetRetry
    BY <1>8, <2>1, <2>3, ForgetTyped, ExpectedTyped DEF RemoveAbsent, Fault, TypeOK, memory,
       disk, ghosts
  <2> QED
    BY <1>8, <2>2, <2>3 DEF RemoveAbsent
<1>9. CASE DropRow(t)
  <2>1. "saveGone" \in Places /\ [op[t] EXCEPT !.row = op[t].snap] \in Ops
    BY <1>o, <1>r, OpsTyped DEF Places, Answers
  <2>2. /\ trades' \in Rows /\ rev' \in Nat /\ persisted' \in Nat
        /\ op' \in [Threads -> Ops]
    BY <1>9, <2>1, SnapshotTyped, Blanks DEF DropRow
  <2>3. claim' \in Claims
    BY <1>9, <1>r, <1>o, RowsTyped DEF DropRow, Upsert
  <2> QED
    BY <1>9, <2>2, <2>3 DEF DropRow, TypeOK, pendings, disk, ghosts, budgets
<1>10. CASE PutOff(t)
  <2>1. rlock' \in Threads \cup {None} /\ op' \in [Threads -> Ops]
    BY <1>10, LeaveTyped DEF PutOff, Places, Answers
  <2> QED
    BY <1>10, <2>1 DEF PutOff, Fault, TypeOK, memory, pendings, disk, ghosts
<1>11. CASE Release(t)
  <2>1. rlock' \in Threads \cup {None} /\ op' \in [Threads -> Ops]
    BY <1>11, LeaveTyped DEF Release, Places, Answers
  <2>2. CASE UNCHANGED <<pendings, claim>>
    BY <1>11, <2>1, <2>2 DEF Release, TypeOK, memory, pendings, disk, ghosts, budgets
  <2>3. CASE RemoveExpected(op[t].row.gen) /\ ForgetRetry
    BY <1>11, <2>1, <2>3, ForgetTyped, ExpectedTyped DEF Release, TypeOK, memory, disk,
       ghosts, budgets
  <2> QED
    BY <1>11, <2>2, <2>3 DEF Release
<1>12. CASE ReleaseFails(t)
  <2>1. [op[t] EXCEPT !.at = "restore"] \in Ops
    BY <1>o, OpsTyped DEF Places, Answers
  <2>2. op' \in [Threads -> Ops]
    BY <1>12, <2>1, SetTyped DEF ReleaseFails, Goto
  <2> QED
    BY <1>12, <2>2 DEF ReleaseFails, Fault, TypeOK, disk, memory, pendings, ghosts
<1>13. CASE Restore(t)
  <2>1. "idle" \in Places /\ "saveRestored" \in Places /\ "none" \in Answers
    BY DEF Places, Answers
  <2>2. [op[t].row EXCEPT !.id = rev + 1, !.val = rev + 1] \in Rows
    BY <1>o, <1>r, RowsTyped
  <2>3. /\ trades' \in Rows /\ rev' \in Nat /\ persisted' \in Nat
        /\ rlock' \in Threads \cup {None} /\ op' \in [Threads -> Ops]
    <3>1. CASE Leave(t, "idle", "none") /\ UNCHANGED memory
      BY <2>1, <3>1, LeaveTyped DEF TypeOK, memory
    <3>2. CASE Snapshot(t, [op[t].row EXCEPT !.id = rev + 1, !.val = rev + 1],
                        "saveRestored", op[t]) /\ UNCHANGED rlock
      BY <1>o, <2>1, <2>2, <3>2, SnapshotTyped DEF TypeOK
    <3> QED
      BY <1>13, <3>1, <3>2 DEF Restore
  <2> QED
    BY <1>13, <2>3 DEF Restore, TypeOK, pendings, disk, ghosts, budgets
<1>14. CASE RetryMirrors(t)
  <2>1. [op[t] EXCEPT !.at = "commit", !.got = "mirrored"] \in Ops
    BY <1>o, OpsTyped DEF Places, Answers
  <2>2. op' \in [Threads -> Ops] /\ claim' \in Claims
    BY <1>14, <1>r, <2>1, SetTyped, RowsTyped DEF RetryMirrors, Upsert
  <2> QED
    BY <1>14, <2>2 DEF RetryMirrors, TypeOK, disk, memory, pendings, ghosts, budgets
<1>15. CASE RetryConflicts(t)
  <2>1. [op[t] EXCEPT !.at = "commit", !.got = "conflict"] \in Ops
    BY <1>o, OpsTyped DEF Places, Answers
  <2>2. op' \in [Threads -> Ops]
    BY <1>15, <2>1, SetTyped DEF RetryConflicts
  <2> QED
    BY <1>15, <2>2 DEF RetryConflicts, TypeOK, disk, memory, pendings, ghosts, budgets
<1>16. CASE RetryUnknown(t)
  <2>1. (IF op[t].guard THEN "reserve" ELSE "idle") \in Places /\ "none" \in Answers
    BY DEF Places, Answers
  <2>2. rlock' \in Threads \cup {None} /\ op' \in [Threads -> Ops]
    BY <1>16, <2>1, LeaveTyped DEF RetryUnknown
  <2> QED
    BY <1>16, <2>2 DEF RetryUnknown, Fault, TypeOK, memory, pendings, disk, ghosts
<1>17. CASE CommitRepair(t) \/ CommitDeferred(t) \/ CommitConflict(t)
  <2>1. "saveCommit" \in Places
    BY DEF Places
  <2>2. /\ trades \in Rows
        /\ [Unmarked(trades) EXCEPT !.val = rev + 1] \in Rows
        /\ [trades EXCEPT !.conflict = TRUE, !.pending = FALSE, !.val = rev + 1] \in Rows
    <3>1. trades \in Rows
      BY DEF TypeOK
    <3> QED
      BY <1>o, <3>1, RowsTyped
  <2>3. /\ trades' \in Rows /\ rev' \in Nat /\ persisted' \in Nat
        /\ op' \in [Threads -> Ops]
    BY <1>17, <1>o, <2>1, <2>2, SnapshotTyped DEF CommitRepair, CommitDeferred, CommitConflict
  <2>4. retry' \in BOOLEAN /\ retryGen' \in Nat /\ deferred' \in BOOLEAN
    <3>1. CASE CommitDeferred(t)
      <4>1. deferred' \in BOOLEAN
        BY <3>1, Zenon DEF CommitDeferred
      <4> QED
        BY <3>1, <4>1 DEF CommitDeferred, TypeOK
    <3> QED
      BY <1>17, <3>1, ForgetTyped DEF CommitRepair, CommitConflict
  <2> QED
    BY <1>17, <2>3, <2>4 DEF CommitRepair, CommitDeferred, CommitConflict, TypeOK,
         disk, ghosts, budgets
<1>18. CASE Reserve(t) \/ EndOrder(t)
  <2>1. [op[t] EXCEPT !.at = "order", !.row = trades] \in Ops
    BY <1>o, OpsTyped DEF TypeOK, Places, Answers
  <2>2. op' \in [Threads -> Ops]
    <3>1. CASE End(t)
      BY <3>1, SetTyped, Blanks DEF End
    <3> QED
      BY <1>18, <2>1, <3>1, SetTyped DEF Reserve, EndOrder
  <2> QED
    BY <1>18, <2>2 DEF Reserve, EndOrder, TypeOK, disk, memory, pendings, ghosts, budgets
<1> QED
  BY <1>1, <1>2, <1>3, <1>4, <1>5, <1>6, <1>7, <1>8, <1>9, <1>10, <1>11, <1>12, <1>13,
     <1>14, <1>15, <1>16, <1>17, <1>18 DEF Steps

LEMMA CallTyped ==
  ASSUME TypeOK, NEW t \in Threads, Calls(t)
  PROVE  TypeOK'
<1>1. rev + 1 \in Nat /\ [Idle EXCEPT !.seen = retryGen] \in Ops /\ trades \in Rows
  <2>1. retryGen \in Nat /\ rev + 1 \in Nat /\ trades \in Rows
    BY DEF TypeOK
  <2>2. "idle" \in Places /\ None \in Gens \cup {None}
    BY DEF Places
  <2>3. [Idle EXCEPT !.seen = retryGen] \in Ops
    BY ONLY <2>1, <2>2, IdleTyped, Blanks
  <2> QED
    BY <2>1, <2>3
<1>p. /\ "save" \in Places /\ "saveOnly" \in Places /\ "saveStaged" \in Places
      /\ "absent" \in Places /\ "retry" \in Places /\ "reserve" \in Places
  BY DEF Places
<1>b. ops' \in Nat /\ UNCHANGED <<faults, crashes, others>>
  <2>1. Begin(t) \/ UNCHANGED budgets
    BY DEF Calls, Update, Touch, Flush, Retry, Guard, Add, Remove, ReleaseIfAbsent, BeginGuard
  <2> QED
    BY <2>1 DEF Begin, budgets, TypeOK
<1>2. CASE \E g \in Gens : Add(t, g)
  <2>1. PICK g \in Gens : Add(t, g)
    BY <1>2
  <2>2. [NoRow EXCEPT !.gen = g, !.id = rev + 1, !.amount = rev + 1, !.val = rev + 1] \in Rows
    BY <1>1 DEF NoRow, Rows
  <2>3. /\ trades' \in Rows /\ rev' \in Nat /\ persisted' \in Nat
        /\ op' \in [Threads -> Ops]
    BY <1>1, <1>p, <2>1, <2>2, SnapshotTyped DEF Add
  <2> QED
    BY <1>b, <2>1, <2>3 DEF Add, TypeOK, pendings, disk, ghosts
<1>3. CASE Update(t) \/ Touch(t)
  <2>1. /\ [trades EXCEPT !.id = rev + 1, !.amount = rev + 1, !.val = rev + 1] \in Rows
        /\ [trades EXCEPT !.val = rev + 1] \in Rows
    BY <1>1, RowsTyped
  <2>2. /\ trades' \in Rows /\ rev' \in Nat /\ persisted' \in Nat
        /\ op' \in [Threads -> Ops]
    BY <1>1, <1>3, <1>p, <2>1, SnapshotTyped, Blanks DEF Update, Touch
  <2> QED
    BY <1>b, <1>3, <2>2 DEF Update, Touch, TypeOK, pendings, disk, ghosts
<1>4. CASE Flush(t)
  <2>1. [Idle EXCEPT !.at = "saveOnly", !.rev = rev, !.snap = trades] \in Ops
    BY <1>p, IdleTyped DEF TypeOK
  <2>2. op' \in [Threads -> Ops]
    BY <1>4, <2>1, SetTyped DEF Flush
  <2> QED
    BY <1>b, <1>4, <2>2 DEF Flush, TypeOK, memory, pendings, disk, ghosts
<1>5. CASE Retry(t) \/ Guard(t)
  <2>1. /\ [Idle EXCEPT !.at = "retry", !.row = trades] \in Ops
        /\ [Idle EXCEPT !.at = "retry", !.row = trades, !.guard = TRUE] \in Ops
        /\ [Idle EXCEPT !.at = "reserve", !.guard = TRUE] \in Ops
    BY <1>p, IdleTyped DEF TypeOK
  <2>2. op' \in [Threads -> Ops]
    BY <1>5, <2>1, SetTyped DEF Retry, Guard
  <2> QED
    BY <1>b, <1>5, <2>2 DEF Retry, Guard, TypeOK, memory, pendings, disk, ghosts
<1>6. CASE \E g \in Gens \cup {None} : Remove(t, g)
  <2>1. PICK g \in Gens \cup {None} : Remove(t, g)
    BY <1>6
  <2>2. /\ [trades EXCEPT !.id = rev + 1, !.val = rev + 1, !.release = TRUE] \in Rows
        /\ [Idle EXCEPT !.gen = g] \in Ops /\ [Idle EXCEPT !.at = "absent", !.gen = g] \in Ops
    BY <1>1, <1>p, RowsTyped, IdleTyped
  <2>3. CASE Present(trades)
    <3>1. /\ trades' \in Rows /\ rev' \in Nat /\ persisted' \in Nat
          /\ op' \in [Threads -> Ops]
      BY <1>p, <2>1, <2>2, <2>3, SnapshotTyped DEF Remove
    <3> QED
      BY <1>b, <2>1, <2>3, <3>1 DEF Remove, TypeOK, pendings, disk, ghosts
  <2>4. CASE ~Present(trades)
    <3>1. op' \in [Threads -> Ops]
      BY <2>1, <2>2, <2>4, SetTyped DEF Remove
    <3> QED
      BY <1>b, <2>1, <2>4, <3>1 DEF Remove, TypeOK, memory, pendings, disk, ghosts
  <2> QED
    BY <2>3, <2>4
<1>7. CASE \E g \in Gens \cup {None} : ReleaseIfAbsent(t, g)
  BY <1>b, <1>7, ForgetTyped, ExpectedTyped DEF ReleaseIfAbsent, TypeOK, memory, disk, ghosts
<1> QED
  BY <1>2, <1>3, <1>4, <1>5, <1>6, <1>7 DEF Calls

LEMMA OtherTyped ==
  ASSUME TypeOK,
         Crash \/ Starts \/ (\E g \in Gens : ClaimForEntry(g)) \/ OtherClaims \/ OtherReleases
  PROVE  TypeOK'
<1>1. CASE Crash
  <2>1. up' \in BOOLEAN
    BY <1>1, Zenon DEF Crash
  <2> QED
    BY <1>1, <2>1, Blanks, ForgetTyped DEF Crash, TypeOK, ghosts
<1>2. CASE StartEmpty
  BY <1>2, Blanks DEF StartEmpty, Fault, TypeOK, memory, pendings, disk, ghosts
<1>3. CASE StartClean
  <2>1. claim' \in Claims /\ file.id \in Nat
    BY <1>3, RowsTyped DEF StartClean, Upsert, TypeOK, Rows
  <2> QED
    BY <1>3, <2>1 DEF StartClean, TypeOK, pendings, disk, budgets
<1>4. ASSUME NEW t \in Threads, StartHealed(t) \/ StartConflict(t) \/ StartPending(t)
      PROVE  TypeOK'
  <2>1. PICK row \in {Unmarked(file), [file EXCEPT !.conflict = TRUE],
                      [file EXCEPT !.pending = TRUE]} : Boot(t, row)
    BY <1>4 DEF StartHealed, StartConflict, StartPending
  <2>2. row \in Rows /\ rev + 1 \in Nat /\ Mirrored(file) \in Claims
    <3>1. file \in Rows /\ rev + 1 \in Nat
      BY DEF TypeOK
    <3> QED
      BY <2>1, <3>1, RowsTyped
  <2>3. [row EXCEPT !.id = rev + 1, !.val = rev + 1] \in Rows /\ "boot" \in Places
    BY <2>2, RowsTyped DEF Places
  <2>4. /\ trades' \in Rows /\ rev' \in Nat /\ persisted' \in Nat
        /\ op' \in [Threads -> Ops]
    BY <2>1, <2>3, SnapshotTyped, Blanks DEF Boot
  <2>5. up' \in BOOLEAN /\ UNCHANGED <<rlock, disk, acked, ops, crashes, others>>
    BY <2>1 DEF Boot
  <2>6. retry' \in BOOLEAN /\ retryGen' \in Nat /\ deferred' \in BOOLEAN
    <3>1. CASE StartPending(t)
      <4>1. retry' \in BOOLEAN
        BY <3>1, Zenon DEF StartPending
      <4> QED
        BY <3>1, <4>1 DEF StartPending, TypeOK
    <3> QED
      BY <1>4, <3>1 DEF StartHealed, StartConflict, TypeOK, pendings
  <2>7. claim' \in Claims /\ confirmed' \in Nat /\ faults' \in Nat
    BY <1>4, <2>2 DEF StartHealed, StartConflict, StartPending, Upsert, Fault, TypeOK
  <2> QED
    BY <2>4, <2>5, <2>6, <2>7 DEF TypeOK, disk
<1>5. CASE (\E g \in Gens : ClaimForEntry(g)) \/ OtherClaims \/ OtherReleases
  <2>1. claim' \in Claims
    BY <1>5, Blanks DEF ClaimForEntry, OtherClaims, OtherReleases, NoClaim, Claims
  <2>2. others' \in Nat
    <3>1. others \in Nat
      BY DEF TypeOK
    <3>2. OtherClaims \/ UNCHANGED budgets
      BY <1>5 DEF ClaimForEntry, OtherReleases
    <3> QED
      BY <3>1, <3>2 DEF OtherClaims, budgets
  <2> QED
    BY <1>5, <2>1, <2>2 DEF ClaimForEntry, OtherClaims, OtherReleases, TypeOK, memory, pendings,
         disk, ghosts, budgets
<1> QED
  BY <1>1, <1>2, <1>3, <1>4, <1>5 DEF Starts

LEMMA TypeStep == TypeOK /\ [Next]_vars => TypeOK'
<1>1. CASE UNCHANGED vars
  BY <1>1 DEF TypeOK, vars, memory, pendings, disk, ghosts, budgets
<1> QED
  BY <1>1, StepTyped, CallTyped, OtherTyped DEF Next

LEMMA TypeInit == Init => TypeOK
<1> SUFFICES ASSUME Init PROVE TypeOK
  OBVIOUS
<1>1. retry \in BOOLEAN /\ deferred \in BOOLEAN /\ up \in BOOLEAN
  BY Zenon DEF Init
<1> QED
  BY <1>1, Blanks DEF Init, TypeOK

\* The position state keeps its types (bot_utils/trade_state.py, TradeState).
THEOREM TypeCorrect == Spec => []TypeOK
BY TypeInit, TypeStep, PTL DEF Spec

-----------------------------------------------------------------------------
(* What a step changes.                                                    *)

LEMMA SetChanges ==
  ASSUME TypeOK, NEW t \in Threads, NEW o, Set(t, o)
  PROVE  op'[t] = o /\ \A u \in Threads \ {t} : op'[u] = op[u]
BY DEF Set, TypeOK

LEMMA SnapshotChanges ==
  ASSUME TypeOK, NEW t \in Threads, NEW r, NEW o \in Ops, NEW place,
         Snapshot(t, r, place, o)
  PROVE  /\ trades' = r /\ rev' = rev + 1 /\ persisted' = persisted
         /\ op'[t].at = place /\ op'[t].rev = rev + 1 /\ op'[t].snap = r
         /\ op'[t].row = o.row /\ op'[t].got = o.got /\ op'[t].guard = o.guard
         /\ \A u \in Threads \ {t} : op'[u] = op[u]
<1>1. /\ op'[t] = [o EXCEPT !.at = place, !.rev = rev + 1, !.snap = r]
      /\ \A u \in Threads \ {t} : op'[u] = op[u]
  BY SetChanges DEF Snapshot
<1>2. /\ op'[t].at = place /\ op'[t].rev = rev + 1 /\ op'[t].snap = r
      /\ op'[t].row = o.row /\ op'[t].got = o.got /\ op'[t].guard = o.guard
  BY <1>1 DEF Ops
<1> QED
  BY <1>1, <1>2 DEF Snapshot

LEMMA LeaveChanges ==
  ASSUME TypeOK, NEW t \in Threads, NEW place, NEW got, Leave(t, place, got)
  PROVE  /\ \A u \in Threads \ {t} : op'[u] = op[u]
         /\ place = "idle" => op'[t] = Idle
         /\ place # "idle" =>
              /\ op'[t].at = place /\ op'[t].got = got /\ op'[t].rev = op[t].rev
              /\ op'[t].snap = op[t].snap /\ op'[t].row = op[t].row
              /\ op'[t].guard = op[t].guard
         /\ rlock' = IF rlock = t /\ place \in {"idle", "reserve"} THEN None ELSE rlock
<1>1. op[t] \in Ops
  BY DEF TypeOK
<1>2. /\ op'[t] = IF place = "idle" THEN Idle ELSE [op[t] EXCEPT !.at = place, !.got = got]
      /\ \A u \in Threads \ {t} : op'[u] = op[u]
  BY SetChanges DEF Leave
<1>3. place # "idle" =>
        /\ op'[t].at = place /\ op'[t].got = got /\ op'[t].rev = op[t].rev
        /\ op'[t].snap = op[t].snap /\ op'[t].row = op[t].row
        /\ op'[t].guard = op[t].guard
  BY <1>1, <1>2 DEF Ops
<1> QED
  BY <1>2, <1>3 DEF Leave

-----------------------------------------------------------------------------
(* The invariant is kept.                                                  *)

LEMMA Alone ==
  ASSUME Inv, NEW t \in Threads, op[t].at \in Holding
  PROVE  /\ rlock = t /\ up /\ op[t] \in Ops
         /\ \A u \in Threads \ {t} : op[u].at \notin Holding
BY DEF Inv, Locked, Idle, Holding, TypeOK

LEMMA Unheld ==
  ASSUME Inv, rlock = None
  PROVE  \A u \in Threads : op[u].at \notin Holding
BY NoneAssumption DEF Inv, Locked

LEMMA Awake ==
  ASSUME Inv, NEW t \in Threads, op[t].at # "idle"
  PROVE  up /\ op[t] \in Ops
BY DEF Inv, Locked, Idle, TypeOK

\* A thread ends its operation, or goes on to reserve an order; the claim it may
\* have released has no row.
LEMMA QuietKeeps ==
  ASSUME Inv, TypeOK', NEW t \in Threads, up,
         UNCHANGED <<trades, rev, persisted, up, file, fileRev, acked, confirmed>>,
         \A u \in Threads \ {t} : op'[u] = op[u],
         op'[t].at \in {"idle", "reserve"}, op'[t].rev <= rev,
         op'[t].row \in {op[t].row, NoRow}, op'[t].snap \in {op[t].snap, NoRow},
         rlock' = IF rlock = t THEN None ELSE rlock,
         claim' = claim \/ (~Present(trades) /\ rlock \in {t, None})
  PROVE  Inv'
<1>n. ~Present(NoRow) /\ NoRow.id = 0 /\ NoRow.val = 0
  BY DEF Present, NoRow
<1>1. Numbered'
  BY <1>n DEF Inv, Numbered, Past, TypeOK
<1>2. Locked'
  BY <1>n, NoneAssumption DEF Inv, Locked, Holding, TypeOK
<1>3. Twins'
  BY <1>n DEF Inv, Twins, Same, Present
<1>4. Mirroring'
  BY <1>n, NoneAssumption DEF Inv, Mirroring, Mirrored, Mine, Present, Holding, Locked
<1>5. Writing'
  BY <1>n DEF Inv, Writing, Since, Live, Saving, Present, Holding
<1>6. Leaving'
  BY <1>n DEF Inv, Leaving, Off, Live, Saving, Present, Holding
<1>7. Popped'
  BY <1>n DEF Inv, Popped, At, Present, Holding
<1>8. MirrorHonest'
  BY <1>n DEF Inv, MirrorHonest, Present, Marked, Mirrored
<1>9. OrderUndisturbed'
  BY <1>n DEF Inv, OrderUndisturbed, At, Present
<1> QED
  BY <1>1, <1>2, <1>3, <1>4, <1>5, <1>6, <1>7, <1>8, <1>9 DEF Inv

\* A row that was saved is about to be mirrored: it is current, so the file has
\* its generation.
LEMMA PublishKeeps ==
  ASSUME Inv, TypeOK', NEW t \in Threads, Publish(t), Present(trades) /\ trades.id =
    op[t].snap.id
  PROVE  Inv'
<1>a. op[t].at = "publish" /\ rlock = None
  BY DEF Publish, At
<1>h. /\ up /\ op[t] \in Ops
      /\ \A u \in Threads : op[u].at \notin Holding
  BY <1>a, Awake, Unheld
<1>d. /\ rlock' = t
      /\ UNCHANGED <<trades, rev, persisted, up, file, fileRev, acked, confirmed, claim>>
      /\ \A u \in Threads \ {t} : op'[u] = op[u]
  BY SetChanges DEF Publish, memory, disk, ghosts, Inv
<1>s. op'[t] = [op[t] EXCEPT !.at = "mirror", !.row = trades]
  BY SetChanges DEF Publish, Inv
<1>e. /\ op'[t].at = "mirror" /\ op'[t].row = trades /\ op'[t].rev = op[t].rev
      /\ op'[t].snap = op[t].snap /\ op'[t].got = op[t].got
  BY <1>h, <1>s DEF Ops
<1>1. Numbered'
  BY <1>a, <1>h, <1>d, <1>e DEF Inv, Numbered, Past, TypeOK
<1>2. Locked'
  BY <1>a, <1>h, <1>d, <1>e DEF Inv, Locked, Holding, TypeOK
<1>3. Twins'
  BY <1>a, <1>h, <1>d, <1>e DEF Inv, Twins, Same, Present
<1>4. Mirroring'
  BY <1>a, <1>h, <1>d, <1>e DEF Inv, Mirroring, Mirrored, Mine, Present, Holding
<1>5. Writing'
  <2>1. /\ Present(op[t].snap) /\ Since(t, op[t].snap.gen) /\ op[t].rev <= persisted
        /\ trades.gen = op[t].snap.gen
    BY <1>a DEF Inv, Writing, Twins, Same, Publish
  <2>2. /\ file.gen = trades.gen
        /\ \A v \in Threads : Live(v) => op[v].snap.gen = trades.gen
    BY <2>1 DEF Inv, Since, Live, Numbered, TypeOK, Ops
  <2> QED
    BY <1>a, <1>d, <1>e, <1>h, <2>1, <2>2 DEF Inv, Writing, Since, Live, Saving, Present,
       Holding
<1>6. Leaving'
  BY <1>a, <1>h, <1>d, <1>e DEF Inv, Leaving, Off, Live, Saving, Present, Holding
<1>7. Popped'
  BY <1>a, <1>h, <1>d, <1>e DEF Inv, Popped, At, Present, Holding
<1>8. MirrorHonest'
  BY <1>a, <1>h, <1>d, <1>e DEF Inv, MirrorHonest, Present, Marked, Mirrored
<1>9. OrderUndisturbed'
  BY <1>a, <1>h, <1>d, <1>e DEF Inv, OrderUndisturbed, At, Present
<1> QED
  BY <1>1, <1>2, <1>3, <1>4, <1>5, <1>6, <1>7, <1>8, <1>9 DEF Inv

\* The claim now repeats the row.
LEMMA MirrorKeeps ==
  ASSUME Inv, TypeOK', NEW t \in Threads, Mirror(t)
  PROVE  Inv'
<1>a. op[t].at = "mirror"
  BY DEF Mirror, At
<1>h. /\ rlock = t /\ up /\ op[t] \in Ops
      /\ \A u \in Threads \ {t} : op[u].at \notin Holding
  BY <1>a, Alone DEF Holding
<1>d. /\ UNCHANGED <<trades, rev, persisted, up, file, fileRev, acked, confirmed, rlock>>
      /\ claim' = Mirrored(op[t].row)
      /\ \A u \in Threads \ {t} : op'[u] = op[u]
  BY SetChanges DEF Mirror, memory, disk, ghosts, Inv, Upsert
<1>s. op'[t] = [op[t] EXCEPT !.at = "settle", !.got = "mirrored"]
  BY SetChanges DEF Mirror, Inv, Upsert
<1>e. /\ op'[t].at = "settle" /\ op'[t].rev = op[t].rev /\ op'[t].snap = op[t].snap
      /\ op'[t].row = op[t].row /\ op'[t].got = "mirrored"
  BY <1>h, <1>s DEF Ops
<1>1. Numbered'
  BY <1>a, <1>h, <1>d, <1>e DEF Inv, Numbered, Past, TypeOK
<1>2. Locked'
  BY <1>a, <1>h, <1>d, <1>e DEF Inv, Locked, Holding, TypeOK
<1>3. Twins'
  BY <1>a, <1>h, <1>d, <1>e DEF Inv, Twins, Same, Present
<1>4. Mirroring'
  <2>1. claim' = Mirrored(op'[t].row)
    BY <1>d, <1>e DEF Mirrored
  <2> QED
    BY <1>a, <1>h, <1>d, <1>e, <2>1 DEF Inv, Mirroring, Mine, Present, Holding
<1>5. Writing'
  BY <1>a, <1>h, <1>d, <1>e DEF Inv, Writing, Since, Live, Saving, Present, Holding
<1>6. Leaving'
  BY <1>a, <1>h, <1>d, <1>e DEF Inv, Leaving, Off, Live, Saving, Present, Holding
<1>7. Popped'
  BY <1>a, <1>h, <1>d, <1>e DEF Inv, Popped, At, Present, Holding
<1>8. MirrorHonest'
  BY <1>a, <1>h, <1>d, <1>e DEF Inv, MirrorHonest, Present, Marked, Mirrored, Mirroring,
    Twins, Same
<1>9. OrderUndisturbed'
  BY <1>a, <1>h, <1>d, <1>e DEF Inv, OrderUndisturbed, At, Present
<1> QED
  BY <1>1, <1>2, <1>3, <1>4, <1>5, <1>6, <1>7, <1>8, <1>9 DEF Inv

\* The claim could not be written.
LEMMA MirrorFailsKeeps ==
  ASSUME Inv, TypeOK', NEW t \in Threads, MirrorFails(t)
  PROVE  Inv'
<1>a. op[t].at = "mirror"
  BY DEF MirrorFails, At
<1>h. /\ rlock = t /\ up /\ op[t] \in Ops
      /\ \A u \in Threads \ {t} : op[u].at \notin Holding
  BY <1>a, Alone DEF Holding
<1>d. /\ UNCHANGED <<trades, rev, persisted, up, file, fileRev, acked, confirmed, claim, rlock>>
      /\ \A u \in Threads \ {t} : op'[u] = op[u]
  BY SetChanges DEF MirrorFails, memory, disk, ghosts, Inv, Goto
<1>s. op'[t] = [op[t] EXCEPT !.at = "mark"]
  BY SetChanges DEF MirrorFails, Inv, Goto
<1>e. /\ op'[t].at = "mark" /\ op'[t].rev = op[t].rev /\ op'[t].snap = op[t].snap
      /\ op'[t].row = op[t].row /\ op'[t].got = op[t].got
  BY <1>h, <1>s DEF Ops
<1>1. Numbered'
  BY <1>a, <1>h, <1>d, <1>e DEF Inv, Numbered, Past, TypeOK
<1>2. Locked'
  BY <1>a, <1>h, <1>d, <1>e DEF Inv, Locked, Holding, TypeOK
<1>3. Twins'
  BY <1>a, <1>h, <1>d, <1>e DEF Inv, Twins, Same, Present
<1>4. Mirroring'
  BY <1>a, <1>h, <1>d, <1>e DEF Inv, Mirroring, Mirrored, Mine, Present, Holding
<1>5. Writing'
  BY <1>a, <1>h, <1>d, <1>e DEF Inv, Writing, Since, Live, Saving, Present, Holding
<1>6. Leaving'
  BY <1>a, <1>h, <1>d, <1>e DEF Inv, Leaving, Off, Live, Saving, Present, Holding
<1>7. Popped'
  BY <1>a, <1>h, <1>d, <1>e DEF Inv, Popped, At, Present, Holding
<1>8. MirrorHonest'
  BY <1>a, <1>h, <1>d, <1>e DEF Inv, MirrorHonest, Present, Marked, Mirrored
<1>9. OrderUndisturbed'
  BY <1>a, <1>h, <1>d, <1>e DEF Inv, OrderUndisturbed, At, Present
<1> QED
  BY <1>1, <1>2, <1>3, <1>4, <1>5, <1>6, <1>7, <1>8, <1>9 DEF Inv

\* The row was replaced before it was marked.
LEMMA UnmarkedKeeps ==
  ASSUME Inv, TypeOK', NEW t \in Threads, MarkPending(t), ~Mine(t)
  PROVE  Inv'
<1>a. op[t].at = "mark"
  BY DEF MarkPending, At
<1>h. /\ rlock = t /\ up /\ op[t] \in Ops
      /\ \A u \in Threads \ {t} : op[u].at \notin Holding
  BY <1>a, Alone DEF Holding
<1>d. /\ UNCHANGED <<trades, rev, persisted, up, file, fileRev, acked, confirmed, claim, rlock>>
      /\ \A u \in Threads \ {t} : op'[u] = op[u]
  BY SetChanges DEF MarkPending, memory, disk, ghosts, Inv
<1>s. op'[t] = [op[t] EXCEPT !.at = "settle", !.got = "failed"]
  BY SetChanges DEF MarkPending, Inv
<1>e. /\ op'[t].at = "settle" /\ op'[t].rev = op[t].rev /\ op'[t].snap = op[t].snap
      /\ op'[t].row = op[t].row /\ op'[t].got = "failed"
  BY <1>h, <1>s DEF Ops
<1>1. Numbered'
  BY <1>a, <1>h, <1>d, <1>e DEF Inv, Numbered, Past, TypeOK
<1>2. Locked'
  BY <1>a, <1>h, <1>d, <1>e DEF Inv, Locked, Holding, TypeOK
<1>3. Twins'
  BY <1>a, <1>h, <1>d, <1>e DEF Inv, Twins, Same, Present
<1>4. Mirroring'
  BY <1>a, <1>h, <1>d, <1>e DEF Inv, Mirroring, Mirrored, Mine, Present, Holding
<1>5. Writing'
  BY <1>a, <1>h, <1>d, <1>e DEF Inv, Writing, Since, Live, Saving, Present, Holding
<1>6. Leaving'
  BY <1>a, <1>h, <1>d, <1>e DEF Inv, Leaving, Off, Live, Saving, Present, Holding
<1>7. Popped'
  BY <1>a, <1>h, <1>d, <1>e DEF Inv, Popped, At, Present, Holding
<1>8. MirrorHonest'
  BY <1>a, <1>h, <1>d, <1>e DEF Inv, MirrorHonest, Present, Marked, Mirrored
<1>9. OrderUndisturbed'
  BY <1>a, <1>h, <1>d, <1>e DEF Inv, OrderUndisturbed, At, Present
<1> QED
  BY <1>1, <1>2, <1>3, <1>4, <1>5, <1>6, <1>7, <1>8, <1>9 DEF Inv

\* The claim of the popped row could not be released.
LEMMA ReleaseFailsKeeps ==
  ASSUME Inv, TypeOK', NEW t \in Threads, ReleaseFails(t)
  PROVE  Inv'
<1>a. op[t].at = "release"
  BY DEF ReleaseFails, At
<1>h. /\ rlock = t /\ up /\ op[t] \in Ops
      /\ \A u \in Threads \ {t} : op[u].at \notin Holding
  BY <1>a, Alone DEF Holding
<1>d. /\ UNCHANGED <<trades, rev, persisted, up, file, fileRev, acked, confirmed, claim, rlock>>
      /\ \A u \in Threads \ {t} : op'[u] = op[u]
  BY SetChanges DEF ReleaseFails, memory, disk, ghosts, Inv, Goto
<1>s. op'[t] = [op[t] EXCEPT !.at = "restore"]
  BY SetChanges DEF ReleaseFails, Inv, Goto
<1>e. /\ op'[t].at = "restore" /\ op'[t].rev = op[t].rev /\ op'[t].snap = op[t].snap
      /\ op'[t].row = op[t].row /\ op'[t].got = op[t].got
  BY <1>h, <1>s DEF Ops
<1>1. Numbered'
  BY <1>a, <1>h, <1>d, <1>e DEF Inv, Numbered, Past, TypeOK
<1>2. Locked'
  BY <1>a, <1>h, <1>d, <1>e DEF Inv, Locked, Holding, TypeOK
<1>3. Twins'
  BY <1>a, <1>h, <1>d, <1>e DEF Inv, Twins, Same, Present
<1>4. Mirroring'
  BY <1>a, <1>h, <1>d, <1>e DEF Inv, Mirroring, Mirrored, Mine, Present, Holding
<1>5. Writing'
  BY <1>a, <1>h, <1>d, <1>e DEF Inv, Writing, Since, Live, Saving, Present, Holding
<1>6. Leaving'
  BY <1>a, <1>h, <1>d, <1>e DEF Inv, Leaving, Off, Live, Saving, Present, Holding
<1>7. Popped'
  BY <1>a, <1>h, <1>d, <1>e DEF Inv, Popped, At, Present, Holding
<1>8. MirrorHonest'
  BY <1>a, <1>h, <1>d, <1>e DEF Inv, MirrorHonest, Present, Marked, Mirrored
<1>9. OrderUndisturbed'
  BY <1>a, <1>h, <1>d, <1>e DEF Inv, OrderUndisturbed, At, Present
<1> QED
  BY <1>1, <1>2, <1>3, <1>4, <1>5, <1>6, <1>7, <1>8, <1>9 DEF Inv

\* A retry mirrors the row it saw.
LEMMA RetryMirrorsKeeps ==
  ASSUME Inv, TypeOK', NEW t \in Threads, RetryMirrors(t)
  PROVE  Inv'
<1>a. op[t].at = "retry"
  BY DEF RetryMirrors, At
<1>h. /\ rlock = t /\ up /\ op[t] \in Ops
      /\ \A u \in Threads \ {t} : op[u].at \notin Holding
  BY <1>a, Alone DEF Holding
<1>d. /\ UNCHANGED <<trades, rev, persisted, up, file, fileRev, acked, confirmed, rlock>>
      /\ claim' = Mirrored(op[t].row)
      /\ \A u \in Threads \ {t} : op'[u] = op[u]
  BY SetChanges DEF RetryMirrors, memory, disk, ghosts, Inv, Upsert
<1>s. op'[t] = [op[t] EXCEPT !.at = "commit", !.got = "mirrored"]
  BY SetChanges DEF RetryMirrors, Inv, Upsert
<1>e. /\ op'[t].at = "commit" /\ op'[t].rev = op[t].rev /\ op'[t].snap = op[t].snap
      /\ op'[t].row = op[t].row /\ op'[t].got = "mirrored"
  BY <1>h, <1>s DEF Ops
<1>1. Numbered'
  BY <1>a, <1>h, <1>d, <1>e DEF Inv, Numbered, Past, TypeOK
<1>2. Locked'
  BY <1>a, <1>h, <1>d, <1>e DEF Inv, Locked, Holding, TypeOK
<1>3. Twins'
  BY <1>a, <1>h, <1>d, <1>e DEF Inv, Twins, Same, Present
<1>4. Mirroring'
  <2>1. claim' = Mirrored(op'[t].row)
    BY <1>d, <1>e DEF Mirrored
  <2> QED
    BY <1>a, <1>h, <1>d, <1>e, <2>1 DEF Inv, Mirroring, Mine, Present, Holding
<1>5. Writing'
  BY <1>a, <1>h, <1>d, <1>e DEF Inv, Writing, Since, Live, Saving, Present, Holding
<1>6. Leaving'
  BY <1>a, <1>h, <1>d, <1>e DEF Inv, Leaving, Off, Live, Saving, Present, Holding
<1>7. Popped'
  BY <1>a, <1>h, <1>d, <1>e DEF Inv, Popped, At, Present, Holding
<1>8. MirrorHonest'
  BY <1>a, <1>h, <1>d, <1>e DEF Inv, MirrorHonest, Present, Marked, Mirrored, Mirroring,
    Twins, Same
<1>9. OrderUndisturbed'
  BY <1>a, <1>h, <1>d, <1>e DEF Inv, OrderUndisturbed, At, Present
<1> QED
  BY <1>1, <1>2, <1>3, <1>4, <1>5, <1>6, <1>7, <1>8, <1>9 DEF Inv

\* A retry finds the claim of another.
LEMMA RetryConflictsKeeps ==
  ASSUME Inv, TypeOK', NEW t \in Threads, RetryConflicts(t)
  PROVE  Inv'
<1>a. op[t].at = "retry"
  BY DEF RetryConflicts, At
<1>h. /\ rlock = t /\ up /\ op[t] \in Ops
      /\ \A u \in Threads \ {t} : op[u].at \notin Holding
  BY <1>a, Alone DEF Holding
<1>d. /\ UNCHANGED <<trades, rev, persisted, up, file, fileRev, acked, confirmed, claim, rlock>>
      /\ \A u \in Threads \ {t} : op'[u] = op[u]
  BY SetChanges DEF RetryConflicts, memory, disk, ghosts, Inv
<1>s. op'[t] = [op[t] EXCEPT !.at = "commit", !.got = "conflict"]
  BY SetChanges DEF RetryConflicts, Inv
<1>e. /\ op'[t].at = "commit" /\ op'[t].rev = op[t].rev /\ op'[t].snap = op[t].snap
      /\ op'[t].row = op[t].row /\ op'[t].got = "conflict"
  BY <1>h, <1>s DEF Ops
<1>1. Numbered'
  BY <1>a, <1>h, <1>d, <1>e DEF Inv, Numbered, Past, TypeOK
<1>2. Locked'
  BY <1>a, <1>h, <1>d, <1>e DEF Inv, Locked, Holding, TypeOK
<1>3. Twins'
  BY <1>a, <1>h, <1>d, <1>e DEF Inv, Twins, Same, Present
<1>4. Mirroring'
  BY <1>a, <1>h, <1>d, <1>e DEF Inv, Mirroring, Mirrored, Mine, Present, Holding
<1>5. Writing'
  BY <1>a, <1>h, <1>d, <1>e DEF Inv, Writing, Since, Live, Saving, Present, Holding
<1>6. Leaving'
  BY <1>a, <1>h, <1>d, <1>e DEF Inv, Leaving, Off, Live, Saving, Present, Holding
<1>7. Popped'
  BY <1>a, <1>h, <1>d, <1>e DEF Inv, Popped, At, Present, Holding
<1>8. MirrorHonest'
  BY <1>a, <1>h, <1>d, <1>e DEF Inv, MirrorHonest, Present, Marked, Mirrored
<1>9. OrderUndisturbed'
  BY <1>a, <1>h, <1>d, <1>e DEF Inv, OrderUndisturbed, At, Present
<1> QED
  BY <1>1, <1>2, <1>3, <1>4, <1>5, <1>6, <1>7, <1>8, <1>9 DEF Inv

\* A retry takes the row as it is.
LEMMA RetryKeeps ==
  ASSUME Inv, TypeOK', NEW t \in Threads, Retry(t)
  PROVE  Inv'
<1>a. op[t].at = "idle" /\ rlock = None
  BY DEF Retry, At, Free
<1>n. \A u \in Threads : op[u].at \notin Holding
  BY <1>a, Unheld
<1>d. /\ UNCHANGED <<trades, rev, persisted, up, file, fileRev, acked, confirmed, claim>>
      /\ rlock' = t /\ Present(trades)
      /\ \A u \in Threads \ {t} : op'[u] = op[u]
  BY SetChanges DEF Retry, memory, disk, ghosts, Inv, Free
<1>s. op'[t] = [Idle EXCEPT !.at = "retry", !.row = trades]
  BY SetChanges DEF Retry, Inv, Free
<1>e. /\ op'[t].at = "retry" /\ op'[t].rev = 0 /\ op'[t].snap = NoRow
      /\ op'[t].row = trades
  BY <1>s DEF Idle, Ops
<1>r. ~Present(NoRow) /\ NoRow.id = 0 /\ NoRow.val = 0 /\ up
  BY DEF Present, NoRow, Retry, Free
<1>1. Numbered'
  BY <1>a, <1>d, <1>e, <1>n, <1>r DEF Inv, Numbered, Past, TypeOK
<1>2. Locked'
  BY <1>a, <1>d, <1>e, <1>n, <1>r DEF Inv, Locked, Holding, TypeOK
<1>3. Twins'
  BY <1>a, <1>d, <1>e, <1>n, <1>r DEF Inv, Twins, Same, Present
<1>4. Mirroring'
  BY <1>a, <1>d, <1>e, <1>n, <1>r DEF Inv, Mirroring, Mirrored, Mine, Present, Holding
<1>5. Writing'
  BY <1>a, <1>d, <1>e, <1>n, <1>r DEF Inv, Writing, Since, Live, Saving, Present, Holding
<1>6. Leaving'
  BY <1>a, <1>d, <1>e, <1>n, <1>r DEF Inv, Leaving, Off, Live, Saving, Present, Holding
<1>7. Popped'
  BY <1>a, <1>d, <1>e, <1>n, <1>r DEF Inv, Popped, At, Present, Holding
<1>8. MirrorHonest'
  BY <1>a, <1>d, <1>e, <1>n, <1>r DEF Inv, MirrorHonest, Present, Marked, Mirrored
<1>9. OrderUndisturbed'
  BY <1>a, <1>d, <1>e, <1>n, <1>r DEF Inv, OrderUndisturbed, At, Present
<1> QED
  BY <1>1, <1>2, <1>3, <1>4, <1>5, <1>6, <1>7, <1>8, <1>9 DEF Inv

\* A guard that retries first.
LEMMA GuardKeeps ==
  ASSUME Inv, TypeOK', NEW t \in Threads, Guard(t), retry /\ Present(trades)
  PROVE  Inv'
<1>a. op[t].at = "idle" /\ rlock = None
  BY DEF Guard, At, BeginGuard, Begin, Free
<1>n. \A u \in Threads : op[u].at \notin Holding
  BY <1>a, Unheld
<1>d. /\ UNCHANGED <<trades, rev, persisted, up, file, fileRev, acked, confirmed, claim>>
      /\ rlock' = t /\ Present(trades)
      /\ \A u \in Threads \ {t} : op'[u] = op[u]
  BY SetChanges DEF Guard, memory, disk, ghosts, Inv, BeginGuard, Begin, Free
<1>s. op'[t] = [Idle EXCEPT !.at = "retry", !.row = trades, !.guard = TRUE]
  BY SetChanges DEF Guard, Inv, BeginGuard, Begin, Free
<1>e. /\ op'[t].at = "retry" /\ op'[t].rev = 0 /\ op'[t].snap = NoRow
      /\ op'[t].row = trades
  BY <1>s DEF Idle, Ops
<1>r. ~Present(NoRow) /\ NoRow.id = 0 /\ NoRow.val = 0 /\ up
  BY DEF Present, NoRow, Guard, BeginGuard, Begin, Free
<1>1. Numbered'
  BY <1>a, <1>d, <1>e, <1>n, <1>r DEF Inv, Numbered, Past, TypeOK
<1>2. Locked'
  BY <1>a, <1>d, <1>e, <1>n, <1>r DEF Inv, Locked, Holding, TypeOK
<1>3. Twins'
  BY <1>a, <1>d, <1>e, <1>n, <1>r DEF Inv, Twins, Same, Present
<1>4. Mirroring'
  BY <1>a, <1>d, <1>e, <1>n, <1>r DEF Inv, Mirroring, Mirrored, Mine, Present, Holding
<1>5. Writing'
  BY <1>a, <1>d, <1>e, <1>n, <1>r DEF Inv, Writing, Since, Live, Saving, Present, Holding
<1>6. Leaving'
  BY <1>a, <1>d, <1>e, <1>n, <1>r DEF Inv, Leaving, Off, Live, Saving, Present, Holding
<1>7. Popped'
  BY <1>a, <1>d, <1>e, <1>n, <1>r DEF Inv, Popped, At, Present, Holding
<1>8. MirrorHonest'
  BY <1>a, <1>d, <1>e, <1>n, <1>r DEF Inv, MirrorHonest, Present, Marked, Mirrored
<1>9. OrderUndisturbed'
  BY <1>a, <1>d, <1>e, <1>n, <1>r DEF Inv, OrderUndisturbed, At, Present
<1> QED
  BY <1>1, <1>2, <1>3, <1>4, <1>5, <1>6, <1>7, <1>8, <1>9 DEF Inv

\* Nothing was there to remove.
LEMMA AbsentKeeps ==
  ASSUME Inv, TypeOK', NEW t \in Threads, NEW g \in Gens \cup {None}, Remove(t, g),
    ~Present(trades)
  PROVE  Inv'
<1>a. op[t].at = "idle" /\ rlock = None
  BY DEF Remove, At, Begin, Free
<1>n. \A u \in Threads : op[u].at \notin Holding
  BY <1>a, Unheld
<1>d. /\ UNCHANGED <<trades, rev, persisted, up, file, fileRev, acked, confirmed, claim>>
      /\ rlock' = t
      /\ \A u \in Threads \ {t} : op'[u] = op[u]
  BY SetChanges DEF Remove, memory, disk, ghosts, Inv, Begin, Free
<1>s. op'[t] = [Idle EXCEPT !.at = "absent", !.gen = g]
  BY SetChanges DEF Remove, Inv, Begin, Free
<1>e. /\ op'[t].at = "absent" /\ op'[t].rev = 0 /\ op'[t].snap = NoRow
      /\ op'[t].row = NoRow
  BY <1>s DEF Idle, Ops
<1>r. ~Present(NoRow) /\ NoRow.id = 0 /\ NoRow.val = 0 /\ up
  BY DEF Present, NoRow, Remove, Begin, Free
<1>1. Numbered'
  BY <1>a, <1>d, <1>e, <1>n, <1>r DEF Inv, Numbered, Past, TypeOK
<1>2. Locked'
  BY <1>a, <1>d, <1>e, <1>n, <1>r DEF Inv, Locked, Holding, TypeOK
<1>3. Twins'
  BY <1>a, <1>d, <1>e, <1>n, <1>r DEF Inv, Twins, Same, Present
<1>4. Mirroring'
  BY <1>a, <1>d, <1>e, <1>n, <1>r DEF Inv, Mirroring, Mirrored, Mine, Present, Holding
<1>5. Writing'
  BY <1>a, <1>d, <1>e, <1>n, <1>r DEF Inv, Writing, Since, Live, Saving, Present, Holding
<1>6. Leaving'
  BY <1>a, <1>d, <1>e, <1>n, <1>r DEF Inv, Leaving, Off, Live, Saving, Present, Holding
<1>7. Popped'
  BY <1>a, <1>d, <1>e, <1>n, <1>r DEF Inv, Popped, At, Present, Holding
<1>8. MirrorHonest'
  BY <1>a, <1>d, <1>e, <1>n, <1>r DEF Inv, MirrorHonest, Present, Marked, Mirrored
<1>9. OrderUndisturbed'
  BY <1>a, <1>d, <1>e, <1>n, <1>r DEF Inv, OrderUndisturbed, At, Present
<1> QED
  BY <1>1, <1>2, <1>3, <1>4, <1>5, <1>6, <1>7, <1>8, <1>9 DEF Inv

\* The newest snapshot is saved again.
LEMMA FlushKeeps ==
  ASSUME Inv, TypeOK', NEW t \in Threads, Flush(t)
  PROVE  Inv'
<1>a. op[t].at = "idle"
  BY DEF Flush, At, Begin, Free
<1>d. /\ UNCHANGED <<trades, rev, persisted, up, file, fileRev, acked, confirmed, claim, rlock>>
      /\ \A u \in Threads \ {t} : op'[u] = op[u]
  BY SetChanges DEF Flush, memory, disk, ghosts, Inv, Begin, Free
<1>s. op'[t] = [Idle EXCEPT !.at = "saveOnly", !.rev = rev, !.snap = trades]
  BY SetChanges DEF Flush, Inv, Begin, Free
<1>e. /\ op'[t].at = "saveOnly" /\ op'[t].rev = rev /\ op'[t].snap = trades
      /\ op'[t].row = NoRow
  BY <1>s DEF Idle, Ops
<1>r. ~Present(NoRow) /\ NoRow.id = 0 /\ NoRow.val = 0 /\ up
  BY DEF Present, NoRow, Flush, Begin, Free
<1>1. Numbered'
  BY <1>a, <1>d, <1>e, <1>r DEF Inv, Numbered, Past, TypeOK
<1>2. Locked'
  BY <1>a, <1>d, <1>e, <1>r DEF Inv, Locked, Holding, TypeOK
<1>3. Twins'
  BY <1>a, <1>d, <1>e, <1>r DEF Inv, Twins, Same, Present
<1>4. Mirroring'
  BY <1>a, <1>d, <1>e, <1>r DEF Inv, Mirroring, Mirrored, Mine, Present, Holding
<1>5. Writing'
  BY <1>a, <1>d, <1>e, <1>r DEF Inv, Writing, Since, Live, Saving, Present, Holding,
    Twins, Same
<1>6. Leaving'
  BY <1>a, <1>d, <1>e, <1>r DEF Inv, Leaving, Off, Live, Saving, Present, Holding
<1>7. Popped'
  BY <1>a, <1>d, <1>e, <1>r DEF Inv, Popped, At, Present, Holding
<1>8. MirrorHonest'
  BY <1>a, <1>d, <1>e, <1>r DEF Inv, MirrorHonest, Present, Marked, Mirrored
<1>9. OrderUndisturbed'
  BY <1>a, <1>d, <1>e, <1>r DEF Inv, OrderUndisturbed, At, Present
<1> QED
  BY <1>1, <1>2, <1>3, <1>4, <1>5, <1>6, <1>7, <1>8, <1>9 DEF Inv

\* An order is reserved on the row as it is.
LEMMA ReserveKeeps ==
  ASSUME Inv, TypeOK', NEW t \in Threads, Reserve(t), ~deferred
  PROVE  Inv'
<1>a. op[t].at = "reserve"
  BY DEF Reserve, At
<1>d. /\ UNCHANGED <<trades, rev, persisted, up, file, fileRev, acked, confirmed, claim, rlock>>
      /\ \A u \in Threads \ {t} : op'[u] = op[u]
  BY SetChanges DEF Reserve, memory, disk, ghosts, Inv
<1>s. op'[t] = [op[t] EXCEPT !.at = "order", !.row = trades]
  BY SetChanges DEF Reserve, Inv
<1>e. /\ op'[t].at = "order" /\ op'[t].rev = op[t].rev /\ op'[t].snap = op[t].snap
      /\ op'[t].row = trades
  BY <1>s DEF Idle, Ops
<1>h. up
  BY <1>a, Awake
<1>1. Numbered'
  BY <1>a, <1>d, <1>e, <1>h DEF Inv, Numbered, Past, TypeOK
<1>2. Locked'
  BY <1>a, <1>d, <1>e, <1>h DEF Inv, Locked, Holding, TypeOK
<1>3. Twins'
  BY <1>a, <1>d, <1>e, <1>h DEF Inv, Twins, Same, Present
<1>4. Mirroring'
  BY <1>a, <1>d, <1>e, <1>h DEF Inv, Mirroring, Mirrored, Mine, Present, Holding
<1>5. Writing'
  BY <1>a, <1>d, <1>e, <1>h DEF Inv, Writing, Since, Live, Saving, Present, Holding
<1>6. Leaving'
  BY <1>a, <1>d, <1>e, <1>h DEF Inv, Leaving, Off, Live, Saving, Present, Holding
<1>7. Popped'
  BY <1>a, <1>d, <1>e, <1>h DEF Inv, Popped, At, Present, Holding
<1>8. MirrorHonest'
  BY <1>a, <1>d, <1>e, <1>h DEF Inv, MirrorHonest, Present, Marked, Mirrored
<1>9. OrderUndisturbed'
  BY <1>a, <1>d, <1>e, <1>h DEF Inv, OrderUndisturbed, At, Present
<1> QED
  BY <1>1, <1>2, <1>3, <1>4, <1>5, <1>6, <1>7, <1>8, <1>9 DEF Inv

\* The steps that end an operation and change nothing else, a claim of no row
\* excepted.
Ends(t) ==
  \/ Publish(t) /\ ~(Present(trades) /\ trades.id = op[t].snap.id)
  \/ Settle(t) /\ ~Mine(t)
  \/ RemoveAbsent(t) \/ PutOff(t) \/ Release(t)
  \/ Restore(t) /\ Present(trades)
  \/ RetryUnknown(t)
  \/ Reserve(t) /\ deferred
  \/ EndOrder(t)

LEMMA EndsKeeps ==
  ASSUME Inv, TypeOK', NEW t \in Threads, Ends(t)
  PROVE  Inv'
<1>a. op[t].at # "idle"
  BY DEF Ends, Publish, Settle, RemoveAbsent, PutOff, Release, Restore, RetryUnknown, Reserve,
         EndOrder, At
<1>h. up /\ op[t] \in Ops
  BY <1>a, Awake
<1>b. /\ Idle.at = "idle" /\ Idle.rev = 0 /\ Idle.row = NoRow /\ Idle.snap = NoRow
      /\ op[t].rev <= rev /\ 0 <= rev
  BY DEF Idle, Inv, Numbered, TypeOK
<1>c. /\ UNCHANGED <<trades, rev, persisted, up, file, fileRev, acked, confirmed>>
      /\ claim' = claim \/ (~Present(trades) /\ op[t].at \in Holding)
  BY <1>a DEF Ends, Publish, Settle, RemoveAbsent, PutOff, Release, Restore, RetryUnknown,
              Reserve, EndOrder, At, memory, disk, ghosts, Holding, Mine
<1>d. CASE End(t) /\ UNCHANGED rlock /\ op[t].at \notin Holding
  <2>1. rlock # t
    BY <1>d DEF Inv, Locked
  <2>2. op'[t] = Idle /\ \A u \in Threads \ {t} : op'[u] = op[u]
    BY <1>d, SetChanges DEF End, Inv
  <2> QED
    BY <1>b, <1>c, <1>d, <1>h, <2>1, <2>2, QuietKeeps
<1>e. CASE \E place \in {"idle", "reserve"} : Leave(t, place, "none")
  <2>1. PICK place \in {"idle", "reserve"} : Leave(t, place, "none")
    BY <1>e
  <2>2. /\ op'[t].at \in {"idle", "reserve"} /\ op'[t].rev <= rev
        /\ op'[t].row \in {op[t].row, NoRow} /\ op'[t].snap \in {op[t].snap, NoRow}
        /\ rlock' = IF rlock = t THEN None ELSE rlock
        /\ \A u \in Threads \ {t} : op'[u] = op[u]
    BY <1>b, <2>1, LeaveChanges DEF Inv
  <2>3. claim' = claim \/ (~Present(trades) /\ rlock \in {t, None})
    BY <1>c DEF Inv, Locked
  <2> QED
    BY <1>c, <1>h, <2>2, <2>3, QuietKeeps
<1> QED
  BY <1>d, <1>e DEF Ends, Publish, Settle, RemoveAbsent, PutOff, Release, Restore,
     RetryUnknown, Reserve, EndOrder, At, Holding, Mine

LEMMA ReleasedKeeps ==
  ASSUME Inv, TypeOK', NEW t \in Threads, NEW g \in Gens \cup {None}, ReleaseIfAbsent(t, g)
  PROVE  Inv'
<1>1. /\ up /\ rlock = None /\ ~Present(trades) /\ op[t].at = "idle"
      /\ op[t].rev <= rev
  BY DEF ReleaseIfAbsent, Begin, Free, At, Inv, Numbered
<1>2. /\ UNCHANGED <<trades, rev, persisted, up, file, fileRev, acked, confirmed>>
      /\ op' = op /\ rlock' = rlock
  BY DEF ReleaseIfAbsent, memory, disk, ghosts
<1> QED
  BY <1>1, <1>2, NoneAssumption, QuietKeeps

\* A save ended: the file holds the snapshot, unless a newer one was there or the
\* save failed.
LEMMA SavingKeeps ==
  ASSUME Inv, TypeOK', NEW t \in Threads, op[t].at \in Saving,
         UNCHANGED disk \/ (op[t].rev >= persisted /\ Save(t)),
         persisted <= persisted', persisted' <= fileRev', acked' <= persisted',
         UNCHANGED <<trades, rev, up, confirmed, claim>>,
         \A u \in Threads \ {t} : op'[u] = op[u],
         op'[t].at = "idle" => op'[t] = Idle,
         op'[t].at # "idle" => op'[t].rev = op[t].rev /\ op'[t].snap = op[t].snap
                               /\ op'[t].row = op[t].row,
         \/ op'[t].at \in {"idle", "reserve"}
         \/ op'[t].at = "publish" /\ At(t, "save") /\ op[t].rev <= persisted'
            /\ op'[t].got = op[t].got
         \/ op'[t].at = "settle" /\ At(t, "saveMark") /\ op'[t].got \in {"failed", "marked"}
         \/ op'[t].at = "stage" /\ At(t, "saveStaged") /\ op[t].rev <= persisted'
         \/ op'[t].at \in {"release", "restore"} /\ At(t, "saveGone"),
         rlock' = IF rlock = t /\ op'[t].at \in {"idle", "reserve"} THEN None ELSE rlock
  PROVE  Inv'
<1>b. /\ Idle.at = "idle" /\ Idle.rev = 0 /\ Idle.row = NoRow /\ Idle.snap = NoRow
      /\ ~Present(NoRow) /\ NoRow.id = 0 /\ NoRow.val = 0
  BY DEF Idle, NoRow, Present
<1>h. up
  BY Awake DEF Saving
<1>n. op[t].rev <= rev /\ Past(op[t].snap, rev) /\ fileRev \in Nat /\ persisted \in Nat
      /\ op[t].rev \in Nat
  BY DEF Inv, Numbered, TypeOK, Ops
<1>d. \/ file' = file /\ fileRev' = fileRev
      \/ op[t].rev >= persisted /\ file' = op[t].snap /\ fileRev' = op[t].rev
  BY DEF disk, Save
<1>v. \A v \in Threads : op'[v].at \in Saving => v # t /\ op'[v] = op[v]
  BY DEF Saving
<1>l. \A v \in Threads : Live(v)' => Live(v)
  BY <1>v DEF Live, Inv, TypeOK, Ops
<1>s. \A u \in Threads : \A g : Since(u, g) /\ op'[u].rev = op[u].rev => Since(u, g)'
  BY <1>v, <1>d, <1>n DEF Since, Inv, TypeOK, Ops
<1>1. Numbered'
  BY <1>b, <1>h, <1>n, <1>d DEF Inv, Numbered, Past, TypeOK, Ops
<1>2. Locked'
  BY <1>b, <1>h, <1>n, <1>d, NoneAssumption DEF Inv, Locked, Holding, TypeOK, At, Saving
<1>3. Twins'
  BY <1>b, <1>h, <1>n, <1>d DEF Inv, Twins, Same, Present
<1>4. Mirroring'
  BY <1>b, <1>h, <1>n, <1>d DEF Inv, Mirroring, Mirrored, Mine, Present, Holding, At
<1>5. Writing'
  <2>1. ASSUME NEW u \in Threads, op'[u].at \in {"save", "publish"}
        PROVE  /\ Present(op[u].snap)'
               /\ (Present(trades) /\ trades.id = op[u].snap.id)'
                    => Since(u, op[u].snap.gen)'
    BY <2>1, <1>s DEF Inv, Writing, Present, At
  <2>2. ASSUME NEW u \in Threads, op'[u].at \in {"publish", "stage"}
        PROVE  op'[u].rev <= persisted'
    BY <1>n, <2>2 DEF Inv, Writing, At, TypeOK, Ops
  <2>3. ASSUME NEW u \in Threads, op'[u].at \in {"mirror", "mark", "saveMark", "settle"}
        PROVE  /\ op[u].at \in {"mirror", "mark", "saveMark", "settle"}
               /\ op'[u].row = op[u].row
    BY <2>3 DEF At
  <2>4. ASSUME NEW u \in Threads, op'[u].at \in {"mirror", "mark", "saveMark", "settle"}
        PROVE  /\ Present(op'[u].row) /\ trades'.gen = op'[u].row.gen
               /\ file'.gen = op'[u].row.gen
    <3>1. Live(t) => op[t].snap.gen = op[u].row.gen
      BY <2>3, <2>4 DEF Inv, Writing
    <3> QED
      BY <1>d, <2>3, <2>4, <3>1 DEF Inv, Writing, Present, Live
  <2>5. ASSUME NEW u \in Threads, op'[u].at \in {"mirror", "mark", "saveMark", "settle"},
               NEW v \in Threads, Live(v)'
        PROVE  op'[v].snap.gen = op'[u].row.gen
    BY <1>l, <1>v, <2>3, <2>5 DEF Inv, Writing, Live
  <2> QED
    BY <2>1, <2>2, <2>4, <2>5 DEF Writing, Present, Since, Live
<1>6. Leaving'
  BY <1>b, <1>h, <1>n, <1>d, <1>l DEF Inv, Leaving, Off, Live, Saving, Present, Holding,
    At
<1>7. Popped'
  BY <1>b, <1>h, <1>n, <1>d DEF Inv, Popped, At, Present, Holding, At
<1>8. MirrorHonest'
  BY <1>b, <1>h, <1>n, <1>d DEF Inv, MirrorHonest, Present, Marked, Mirrored
<1>9. OrderUndisturbed'
  BY <1>b, <1>h, <1>n, <1>d DEF Inv, OrderUndisturbed, At, Present
<1> QED
  BY <1>1, <1>2, <1>3, <1>4, <1>5, <1>6, <1>7, <1>8, <1>9 DEF Inv

LEMMA SaveKeeps ==
  ASSUME Inv, TypeOK', NEW t \in Threads, SaveDone(t) \/ SaveFailed(t)
  PROVE  Inv'
<1>a. op[t].at \in Saving /\ op[t] \in Ops
  BY DEF SaveDone, SaveFailed, Inv, TypeOK
<1>n. /\ op[t].rev \in Nat /\ op[t].rev <= rev /\ acked <= persisted /\ persisted <= fileRev
      /\ acked \in Nat /\ persisted \in Nat /\ fileRev \in Nat
  BY <1>a DEF Inv, Numbered, TypeOK, Ops
<1>g. op[t].at = "saveMark" => op[t].got = "failed"
  BY DEF Inv, Mirroring
<1>u. UNCHANGED <<trades, rev, up, confirmed, claim>>
  BY DEF SaveDone, SaveFailed, memory, ghosts
<1>1. CASE SaveDone(t)
  <2> DEFINE got == IF At(t, "saveMark") THEN "marked" ELSE op[t].got
  <2>1. Leave(t, Onward(t), got)
    BY <1>1 DEF SaveDone
  <2>2. /\ UNCHANGED disk \/ (op[t].rev >= persisted /\ Save(t))
        /\ persisted <= persisted' /\ persisted' <= fileRev' /\ acked' <= persisted'
        /\ op[t].rev <= persisted'
    BY <1>1, <1>n DEF SaveDone, Stale, Save, disk
  <2>3. /\ \A u \in Threads \ {t} : op'[u] = op[u]
        /\ Onward(t) = "idle" => op'[t] = Idle
        /\ Onward(t) # "idle" =>
             /\ op'[t].at = Onward(t) /\ op'[t].got = got /\ op'[t].rev = op[t].rev
             /\ op'[t].snap = op[t].snap /\ op'[t].row = op[t].row
        /\ rlock' = IF rlock = t /\ Onward(t) \in {"idle", "reserve"} THEN None ELSE rlock
    BY <2>1, LeaveChanges DEF Inv
  <2>4. \/ Onward(t) \in {"idle", "reserve"}
        \/ Onward(t) = "publish" /\ At(t, "save") /\ got = op[t].got
        \/ Onward(t) = "settle" /\ At(t, "saveMark") /\ got \in {"failed", "marked"}
        \/ Onward(t) = "stage" /\ At(t, "saveStaged")
        \/ Onward(t) = "release" /\ At(t, "saveGone")
    BY DEF Onward, At
  <2>5. op'[t].at = Onward(t)
    BY <2>3 DEF Idle
  <2> HIDE DEF got
  <2> QED
    BY <1>a, <1>u, <2>2, <2>3, <2>4, <2>5, SavingKeeps
<1>2. CASE SaveFailed(t)
  <2>1. Leave(t, Failing(t), op[t].got)
    BY <1>2 DEF SaveFailed
  <2>2. /\ UNCHANGED disk \/ (op[t].rev >= persisted /\ Save(t))
        /\ persisted <= persisted' /\ persisted' <= fileRev' /\ acked' <= persisted'
    BY <1>2, <1>n DEF SaveFailed, Stale, Save, disk, memory, ghosts
  <2>3. /\ \A u \in Threads \ {t} : op'[u] = op[u]
        /\ Failing(t) = "idle" => op'[t] = Idle
        /\ Failing(t) # "idle" =>
             /\ op'[t].at = Failing(t) /\ op'[t].got = op[t].got /\ op'[t].rev = op[t].rev
             /\ op'[t].snap = op[t].snap /\ op'[t].row = op[t].row
        /\ rlock' = IF rlock = t /\ Failing(t) \in {"idle", "reserve"} THEN None ELSE rlock
    BY <2>1, LeaveChanges DEF Inv
  <2>4. \/ Failing(t) \in {"idle", "reserve"}
        \/ Failing(t) = "settle" /\ At(t, "saveMark") /\ op[t].got = "failed"
        \/ Failing(t) = "restore" /\ At(t, "saveGone")
    BY <1>g DEF Failing, At
  <2>5. op'[t].at = Failing(t)
    BY <2>3 DEF Idle
  <2> QED
    BY <1>a, <1>u, <2>2, <2>3, <2>4, <2>5, SavingKeeps
<1> QED
  BY <1>1, <1>2

\* What is of the past stays so.
LEMMA PastGrows ==
  ASSUME Inv, rev' = rev + 1
  PROVE  /\ Past(trades, rev') /\ Past(file, rev') /\ confirmed <= rev'
         /\ acked <= persisted /\ persisted <= fileRev /\ fileRev <= rev'
         /\ \A u \in Threads :
              op[u].rev <= rev' /\ Past(op[u].row, rev') /\ Past(op[u].snap, rev')
<1>1. \A r \in Rows : Past(r, rev) => Past(r, rev + 1)
  BY DEF Inv, TypeOK, Rows, Past
<1>2. \A n \in Nat : n <= rev => n <= rev + 1
  BY DEF Inv, TypeOK
<1>3. \A u \in Threads : op[u].rev \in Nat /\ op[u].row \in Rows /\ op[u].snap \in Rows
  BY DEF Inv, TypeOK, Ops
<1> QED
  BY <1>1, <1>2, <1>3 DEF Inv, Numbered, TypeOK

\* A row is written in place: its identity and the fields of its claim stay.
LEMMA RewriteKeeps ==
  ASSUME Inv, TypeOK', NEW t \in Threads, up, Present(trades),
         Same(trades', trades), trades'.id = trades.id, trades'.val <= rev + 1,
         rev' = rev + 1,
         UNCHANGED <<persisted, up, file, fileRev, acked, claim, rlock>>,
         confirmed' <= rev,
         trades.id = confirmed' /\ ~Marked(trades') => claim = Mirrored(trades),
         trades'.conflict => trades.conflict \/ ~Ordering,
         op'[t].rev = rev + 1, op'[t].snap = trades',
         op'[t].row \in {op[t].row, NoRow},
         \A u \in Threads \ {t} : op'[u] = op[u],
         \/ /\ op[t].at = "idle" /\ op'[t].at = "saveOnly" /\ confirmed' = confirmed
            /\ trades'.val = rev + 1 /\ trades'.pending = trades.pending
         \/ op[t].at \in Holding /\ op'[t].at \in {"saveClear", "saveCommit"}
         \/ op[t].at = "mark" /\ op'[t].at = "saveMark" /\ op'[t].row = op[t].row
            /\ op'[t].got = "failed" /\ trades'.pending
  PROVE  Inv'
<1>b. ~Present(NoRow) /\ NoRow.id = 0 /\ NoRow.val = 0
  BY DEF NoRow, Present
<1>h. op[t].at \in Holding => \A u \in Threads \ {t} : op[u].at \notin Holding
  BY DEF Inv, Locked
<1>t. /\ rev \in Nat /\ trades.id \in Nat /\ confirmed \in Nat
      /\ \A u \in Threads : op[u].rev \in Nat
  BY DEF Inv, TypeOK, Rows, Ops
<1>1. Numbered'
  <2>1. rev' \in Nat /\ Past(NoRow, rev') /\ Past(trades', rev') /\ confirmed' <= rev'
    BY <1>b, <1>t, PastGrows DEF Past, TypeOK
  <2> QED
    BY <1>t, <2>1, PastGrows DEF Numbered, Past
<1>2. Locked'
  BY <1>b, <1>h, <1>t DEF Inv, Locked, Holding, TypeOK
<1>3. Twins'
  BY <1>b, <1>h, <1>t DEF Inv, Twins, Same, Present
<1>4. Mirroring'
  BY <1>b, <1>h, <1>t DEF Inv, Mirroring, Mirrored, Mine, Present, Holding, Same
<1>5. Writing'
  <2>1. /\ Present(trades') /\ trades'.gen = trades.gen
        /\ op'[t].at \in {"saveOnly", "saveMark", "saveClear", "saveCommit"}
        /\ op[t].at \in Holding \cup {"idle"}
    BY DEF Present, Same, Holding
  <2>2. ASSUME NEW u \in Threads, op'[u].at \in {"save", "publish"},
               trades'.id = op'[u].snap.id
        PROVE  Since(u, op[u].snap.gen)'
    <3>1. op'[u] = op[u] /\ u # t
      BY <2>1, <2>2
    <3>2. Since(u, op[u].snap.gen) /\ op[u].snap.gen = trades.gen
      BY <2>2, <3>1 DEF Inv, Writing, Twins, Same
    <3> QED
      BY <1>t, <2>1, <3>1, <3>2 DEF Since
  <2>3. ASSUME NEW u \in Threads, op'[u].at \in {"mirror", "mark", "saveMark", "settle"}
        PROVE  /\ op[u].at \in {"mirror", "mark", "saveMark", "settle"}
               /\ op'[u].row = op[u].row
    BY <2>1, <2>3
  <2>4. ASSUME NEW u \in Threads, op'[u].at \in {"mirror", "mark", "saveMark", "settle"},
               NEW v \in Threads, Live(v)'
        PROVE  op'[v].snap.gen = op'[u].row.gen
    <3>1. trades.gen = op[u].row.gen /\ (Live(v) => op[v].snap.gen = op[u].row.gen)
      BY <2>3, <2>4 DEF Inv, Writing
    <3> QED
      BY <2>1, <2>3, <2>4, <3>1 DEF Live
  <2>5. ASSUME NEW u \in Threads, op'[u].at \in {"mirror", "mark", "saveMark", "settle"}
        PROVE  /\ Present(op'[u].row) /\ trades'.gen = op'[u].row.gen
               /\ file'.gen = op'[u].row.gen
    BY <2>1, <2>3, <2>5 DEF Inv, Writing
  <2>6. ASSUME NEW u \in Threads, op'[u].at \in {"save", "publish", "stage"}
        PROVE  op'[u] = op[u]
    BY <2>1, <2>6
  <2> QED
    BY <2>2, <2>4, <2>5, <2>6 DEF Inv, Writing, Present, Since, Live
<1>6. Leaving'
  BY <1>b, <1>h, <1>t DEF Inv, Leaving, Present, Holding, Same, Numbered, Past
<1>7. Popped'
  BY <1>b, <1>h, <1>t DEF Inv, Popped, At, Present, Holding, Same
<1>8. MirrorHonest'
  BY <1>b, <1>h, <1>t DEF Inv, MirrorHonest, Present, Marked, Mirrored, Same
<1>9. OrderUndisturbed'
  BY <1>b, <1>h, <1>t DEF Inv, OrderUndisturbed, At, Present, Same, Ordering
<1> QED
  BY <1>1, <1>2, <1>3, <1>4, <1>5, <1>6, <1>7, <1>8, <1>9 DEF Inv

\* A new row is written, with a new identity.
LEMMA RenewKeeps ==
  ASSUME Inv, TypeOK', NEW t \in Threads, op[t].at \notin Holding \/ op'[t].at = "saveRestored",
         Present(trades'), trades'.id = rev + 1, trades'.val = rev + 1, rev' = rev + 1,
         Present(trades) => trades'.gen = trades.gen,
         OrderUndisturbed',
         up', UNCHANGED <<persisted, file, fileRev, acked>>,
         \/ up /\ UNCHANGED <<claim, confirmed>>
         \/ ~up /\ confirmed' <= rev + 1
            /\ (confirmed' = rev + 1 /\ ~Marked(trades') => claim' = Mirrored(trades')),
         op'[t].rev = rev + 1, op'[t].snap = trades', op'[t].row \in {op[t].row, NoRow},
         \A u \in Threads \ {t} : op'[u] = op[u],
         \/ op'[t].at = "save" /\ up /\ op'[t].got = "none" /\ rlock' = rlock
         \/ op'[t].at = "boot" /\ ~up /\ rlock' = rlock
         \/ op'[t].at = "saveStaged" /\ trades'.release /\ rlock = None /\ rlock' = t
         \/ op'[t].at = "saveRestored" /\ op[t].at = "restore" /\ rlock' = rlock
  PROVE  Inv'
<1>b. ~Present(NoRow) /\ NoRow.id = 0 /\ NoRow.val = 0 /\ Idle.at = "idle"
  BY DEF NoRow, Present, Idle
<1>t. /\ rev \in Nat /\ trades.id \in Nat /\ confirmed \in Nat /\ fileRev \in Nat
      /\ \A u \in Threads : /\ op[u].rev \in Nat /\ op[u].row.id \in Nat
                            /\ op[u].snap.id \in Nat
  BY DEF Inv, TypeOK, Rows, Ops
<1>p. /\ fileRev <= rev /\ confirmed <= rev
      /\ \A u \in Threads : /\ op[u].rev <= rev /\ op[u].row.id <= rev
                            /\ op[u].snap.id <= rev
  BY DEF Inv, Numbered, Past
<1>d. ~up => \A u \in Threads : op[u] = Idle
  BY DEF Inv, Locked
<1>h. \/ \A u \in Threads \ {t} : op[u].at \notin Holding
      \/ op'[t].at = "save" /\ up /\ UNCHANGED <<claim, confirmed>>
  <2>1. op'[t].at = "boot" => \A u \in Threads : op[u].at \notin Holding
    BY <1>b, <1>d DEF Holding
  <2>2. rlock = None \/ op[t].at = "restore" => \A u \in Threads \ {t} : op[u].at \notin Holding
    BY NoneAssumption DEF Inv, Locked, Holding
  <2> QED
    BY <2>1, <2>2
<1>1. Numbered'
  <2>1. rev' \in Nat /\ Past(NoRow, rev') /\ Past(trades', rev') /\ confirmed' <= rev'
    BY <1>b, <1>t, <1>p DEF Past
  <2> QED
    BY <1>t, <2>1, PastGrows DEF Numbered, Past
<1>2. Locked'
  BY <1>b, <1>t, <1>p, <1>h, <1>d, NoneAssumption DEF Inv, Locked, Holding, TypeOK
<1>3. Twins'
  BY <1>b, <1>t, <1>p, <1>h, <1>d DEF Inv, Twins, Same, Present
<1>4. Mirroring'
  BY <1>b, <1>t, <1>p, <1>h, <1>d DEF Inv, Mirroring, Mirrored, Mine, Present, Holding
<1>5. Writing'
  BY <1>b, <1>t, <1>p, <1>h, <1>d DEF Inv, Writing, Since, Live, Saving, Present, Holding
<1>6. Leaving'
  BY <1>b, <1>t, <1>p, <1>h, <1>d DEF Inv, Leaving, Off, Live, Saving, Present, Holding
<1>7. Popped'
  BY <1>b, <1>t, <1>p, <1>h, <1>d DEF Inv, Popped, At, Present, Holding
<1>8. MirrorHonest'
  BY <1>b, <1>t, <1>p, <1>h, <1>d DEF Inv, MirrorHonest, Present, Marked, Mirrored
<1>9. OrderUndisturbed'
  OBVIOUS
<1> QED
  BY <1>1, <1>2, <1>3, <1>4, <1>5, <1>6, <1>7, <1>8, <1>9 DEF Inv

LEMMA TouchKeeps ==
  ASSUME Inv, TypeOK', NEW t \in Threads, Touch(t)
  PROVE  Inv'
<1>1. /\ Present(trades) /\ op[t].at = "idle" /\ up
      /\ Snapshot(t, [trades EXCEPT !.val = rev + 1], "saveOnly", Idle)
      /\ UNCHANGED <<persisted, up, file, fileRev, acked, claim, rlock, confirmed>>
  BY DEF Touch, Begin, Free, At, Snapshot, disk, ghosts
<1>2. trades \in Rows /\ confirmed <= rev /\ rev \in Nat
  BY DEF Inv, TypeOK, Numbered
<1>3. /\ trades' = [trades EXCEPT !.val = rev + 1] /\ rev' = rev + 1
      /\ op'[t].at = "saveOnly" /\ op'[t].rev = rev + 1 /\ op'[t].snap = trades'
      /\ op'[t].row = NoRow /\ \A u \in Threads \ {t} : op'[u] = op[u]
  <2> DEFINE row == [trades EXCEPT !.val = rev + 1]
  <2>1. Snapshot(t, row, "saveOnly", Idle) /\ TypeOK /\ Idle \in Ops
    BY <1>1, Blanks DEF Inv
  <2>2. Idle.row = NoRow
    BY DEF Idle
  <2> HIDE DEF row
  <2>3. /\ trades' = row /\ rev' = rev + 1
        /\ op'[t].at = "saveOnly" /\ op'[t].rev = rev + 1 /\ op'[t].snap = row
        /\ op'[t].row = NoRow /\ \A u \in Threads \ {t} : op'[u] = op[u]
    BY <2>1, <2>2, SnapshotChanges
  <2> QED
    BY <2>3 DEF row
<1>4. /\ Same(trades', trades) /\ trades'.id = trades.id /\ trades'.val = rev + 1
      /\ trades'.pending = trades.pending /\ trades'.conflict = trades.conflict
  BY <1>2, <1>3 DEF Rows, Same
<1>5. trades.id = confirmed /\ ~Marked(trades') => claim = Mirrored(trades)
  BY <1>1, <1>4 DEF Inv, MirrorHonest, Marked
<1>6. rev + 1 <= rev + 1
  BY <1>2
<1> QED
  BY <1>1, <1>2, <1>3, <1>4, <1>5, <1>6, RewriteKeeps

LEMMA MarkKeeps ==
  ASSUME Inv, TypeOK', NEW t \in Threads, MarkPending(t), Mine(t)
  PROVE  Inv'
<1>1. /\ Present(trades) /\ op[t].at = "mark"
      /\ Snapshot(t, [trades EXCEPT !.pending = TRUE, !.val = rev + 1], "saveMark",
                  [op[t] EXCEPT !.got = "failed"])
      /\ UNCHANGED <<persisted, up, file, fileRev, acked, claim, rlock, confirmed>>
  BY DEF MarkPending, At, Mine, Snapshot, disk, ghosts
<1>2. /\ trades \in Rows /\ confirmed <= rev /\ rev \in Nat /\ op[t] \in Ops /\ up
      /\ rev + 1 <= rev + 1
  BY <1>1, Awake DEF Inv, TypeOK, Numbered
<1>3. /\ [op[t] EXCEPT !.got = "failed"] \in Ops
      /\ [op[t] EXCEPT !.got = "failed"].got = "failed"
      /\ [op[t] EXCEPT !.got = "failed"].row = op[t].row
  BY <1>2 DEF Ops, Answers
<1>4. /\ trades' = [trades EXCEPT !.pending = TRUE, !.val = rev + 1] /\ rev' = rev + 1
      /\ op'[t].at = "saveMark" /\ op'[t].rev = rev + 1 /\ op'[t].snap = trades'
      /\ op'[t].row = op[t].row /\ op'[t].got = "failed"
      /\ \A u \in Threads \ {t} : op'[u] = op[u]
  <2> DEFINE row == [trades EXCEPT !.pending = TRUE, !.val = rev + 1]
             rest == [op[t] EXCEPT !.got = "failed"]
  <2>1. /\ Snapshot(t, row, "saveMark", rest) /\ TypeOK
        /\ rest \in Ops /\ rest.got = "failed" /\ rest.row = op[t].row
    BY <1>1, <1>3 DEF Inv
  <2> HIDE DEF row, rest
  <2>2. /\ trades' = row /\ rev' = rev + 1
        /\ op'[t].at = "saveMark" /\ op'[t].rev = rev + 1 /\ op'[t].snap = row
        /\ op'[t].row = op[t].row /\ op'[t].got = "failed"
        /\ \A u \in Threads \ {t} : op'[u] = op[u]
    BY <2>1, SnapshotChanges
  <2> QED
    BY <2>2 DEF row
<1>5. /\ Same(trades', trades) /\ trades'.id = trades.id /\ trades'.val = rev + 1
      /\ trades'.pending /\ trades'.conflict = trades.conflict
  BY <1>2, <1>4 DEF Rows, Same
<1>6. Marked(trades')
  BY <1>5 DEF Marked
<1> QED
  BY <1>1, <1>2, <1>4, <1>5, <1>6, RewriteKeeps

\* What the settled thread knows makes the confirmed row honest.
LEMMA SettledHonest ==
  ASSUME Inv, NEW t \in Threads, At(t, "settle"), Mine(t), Confirm(t)
  PROVE  /\ confirmed' <= rev /\ confirmed' \in Nat
         /\ trades.id = confirmed' /\ ~Marked(trades) => claim = Mirrored(trades)
         /\ op[t].got = "mirrored" => claim = Mirrored(trades)
<1>1. op[t].at = "settle" /\ Present(trades) /\ trades.id = op[t].row.id
  BY DEF At, Mine
<1>2. Same(op[t].row, trades)
  BY <1>1 DEF Inv, Twins, Writing
<1>3. op[t].got = "mirrored" => claim = Mirrored(trades)
  BY <1>1, <1>2 DEF Inv, Mirroring, Mirrored, Same
<1>4. op[t].got = "marked" => Marked(trades)
  BY <1>1 DEF Inv, Mirroring, Mine, Marked
<1>5. op[t].got \notin {"mirrored", "marked"} => confirmed' = confirmed
  BY DEF Confirm
<1>6. trades.id <= rev /\ confirmed <= rev /\ trades.id \in Nat /\ confirmed \in Nat
  BY DEF Inv, Numbered, Past, TypeOK, Rows
<1>7. confirmed' <= rev /\ confirmed' \in Nat
  BY <1>6 DEF Confirm
<1> QED
  BY <1>1, <1>3, <1>4, <1>5, <1>7 DEF Inv, MirrorHonest


\* A write is settled, and its caller told.
LEMMA SettledKeeps ==
  ASSUME Inv, TypeOK', NEW t \in Threads, Settle(t), Mine(t), UNCHANGED memory
  PROVE  Inv'
<1>a. op[t].at = "settle" /\ Present(trades) /\ Confirm(t)
  BY DEF Settle, At, Mine
<1>h. /\ rlock = t /\ up /\ op[t] \in Ops
      /\ \A u \in Threads \ {t} : op[u].at \notin Holding
  BY <1>a, Alone DEF Holding
<1>r. rev \in Nat /\ persisted \in Nat
  BY DEF Inv, TypeOK
<1>l. Leave(t, "idle", "none")
  BY <1>r DEF Settle, Snapshot, memory
<1>d. /\ UNCHANGED <<trades, rev, persisted, up, file, fileRev, acked, claim>>
      /\ rlock' = None /\ op'[t] = Idle /\ \A u \in Threads \ {t} : op'[u] = op[u]
  BY <1>h, <1>l, LeaveChanges DEF Settle, memory, disk, Inv
<1>b. /\ Idle.at = "idle" /\ Idle.rev = 0 /\ Idle.row = NoRow /\ Idle.snap = NoRow
      /\ ~Present(NoRow) /\ NoRow.id = 0 /\ NoRow.val = 0
  BY DEF Idle, NoRow, Present
<1>c. /\ confirmed' <= rev /\ confirmed' \in Nat
      /\ trades.id = confirmed' /\ ~Marked(trades) => claim = Mirrored(trades)
  BY <1>a, SettledHonest DEF At, Settle
<1>1. Numbered'
  BY <1>a, <1>h, <1>d, <1>b, <1>c DEF Inv, Numbered, Past, TypeOK
<1>2. Locked'
  BY <1>a, <1>h, <1>d, <1>b, <1>c, NoneAssumption DEF Inv, Locked, Holding, TypeOK
<1>3. Twins'
  BY <1>a, <1>h, <1>d, <1>b, <1>c DEF Inv, Twins, Same, Present
<1>4. Mirroring'
  BY <1>a, <1>h, <1>d, <1>b, <1>c DEF Inv, Mirroring, Mirrored, Mine, Present, Holding
<1>5. Writing'
  BY <1>a, <1>h, <1>d, <1>b, <1>c DEF Inv, Writing, Since, Live, Saving, Present, Holding
<1>6. Leaving'
  BY <1>a, <1>h, <1>d, <1>b, <1>c DEF Inv, Leaving, Off, Live, Saving, Present, Holding
<1>7. Popped'
  BY <1>a, <1>h, <1>d, <1>b, <1>c DEF Inv, Popped, At, Present, Holding
<1>8. MirrorHonest'
  BY <1>a, <1>h, <1>d, <1>b, <1>c DEF Inv, MirrorHonest, Present, Marked, Mirrored
<1>9. OrderUndisturbed'
  BY <1>a, <1>h, <1>d, <1>b, <1>c DEF Inv, OrderUndisturbed, At, Present
<1> QED
  BY <1>1, <1>2, <1>3, <1>4, <1>5, <1>6, <1>7, <1>8, <1>9 DEF Inv

LEMMA ClearKeeps ==
  ASSUME Inv, TypeOK', NEW t \in Threads,
         \/ Settle(t) /\ Mine(t) /\ ~UNCHANGED memory
         \/ CommitRepair(t) \/ CommitDeferred(t) \/ CommitConflict(t)
  PROVE  Inv'
<1> DEFINE clear == [Unmarked(trades) EXCEPT !.val = rev + 1]
           shown == [trades EXCEPT !.conflict = TRUE, !.pending = FALSE, !.val = rev + 1]
<1>1. \/ op[t].at = "settle" /\ Mine(t) /\ Confirm(t) /\ op[t].got = "mirrored"
         /\ Snapshot(t, clear, "saveClear", op[t])
      \/ op[t].at = "commit" /\ UNCHANGED confirmed
         /\ \/ Snapshot(t, clear, "saveCommit", op[t]) /\ op[t].got = "mirrored"
            \/ Snapshot(t, trades, "saveCommit", op[t])
            \/ Snapshot(t, shown, "saveCommit", op[t]) /\ ~Ordering
  BY DEF Settle, CommitRepair, CommitDeferred, CommitConflict, At, ghosts
<1>2. UNCHANGED <<persisted, up, file, fileRev, acked, claim, rlock>>
  BY <1>1 DEF Settle, CommitRepair, CommitDeferred, CommitConflict, Snapshot, disk, ghosts
<1>3. /\ op[t].at \in Holding /\ up /\ op[t] \in Ops /\ trades \in Rows /\ rev \in Nat
      /\ Present(trades)
  <2>1. op[t].at \in Holding
    BY <1>1 DEF Holding
  <2>2. Present(trades)
    BY <1>1 DEF Mine, Inv, Mirroring
  <2> QED
    BY <2>1, <2>2, Alone DEF Inv, TypeOK
<1>4. PICK row \in {clear, trades, shown}, place \in {"saveClear", "saveCommit"} :
        Snapshot(t, row, place, op[t])
  BY <1>1
<1>5. /\ trades' = row /\ rev' = rev + 1
      /\ op'[t].at = place /\ op'[t].rev = rev + 1 /\ op'[t].snap = trades'
      /\ op'[t].row = op[t].row /\ \A u \in Threads \ {t} : op'[u] = op[u]
  <2> HIDE DEF clear, shown
  <2>1. /\ op'[t] = [op[t] EXCEPT !.at = place, !.rev = rev + 1, !.snap = row]
        /\ \A u \in Threads \ {t} : op'[u] = op[u]
    BY <1>4, SetChanges DEF Snapshot, Inv
  <2>2. /\ op'[t].at = place /\ op'[t].rev = rev + 1 /\ op'[t].snap = row
        /\ op'[t].row = op[t].row
    BY <1>3, <2>1 DEF Ops
  <2> QED
    BY <1>4, <2>1, <2>2 DEF Snapshot
<1>6. /\ Same(trades', trades) /\ trades'.id = trades.id /\ trades'.val <= rev + 1
  <2>1. trades.val <= rev /\ trades.val \in Nat
    BY DEF Inv, Numbered, Past, TypeOK, Rows
  <2>2. CASE trades' = trades
    BY <1>3, <2>1, <2>2 DEF Same
  <2>3. CASE trades' \in {clear, shown}
    <3>1. trades'.val = rev + 1 /\ Same(trades', trades) /\ trades'.id = trades.id
      BY <1>3, <2>3 DEF Rows, Same, Unmarked
    <3> QED
      BY <1>3, <3>1
  <2> QED
    BY <1>4, <1>5, <2>2, <2>3
<1>7. trades'.conflict => trades.conflict \/ ~Ordering
  <2>1. trades' = clear \/ trades' = trades \/ ~Ordering
    BY <1>1 DEF Snapshot
  <2>2. trades' = clear => ~trades'.conflict
    BY <1>3 DEF Rows, Unmarked
  <2> HIDE DEF clear, shown
  <2> QED
    BY <2>1, <2>2
<1>8. /\ confirmed' <= rev
      /\ trades.id = confirmed' /\ ~Marked(trades') => claim = Mirrored(trades)
  <2>1. CASE op[t].at = "settle" /\ Mine(t) /\ Confirm(t) /\ op[t].got = "mirrored"
    BY <2>1, SettledHonest DEF At
  <2>2. CASE op[t].at = "commit" /\ UNCHANGED confirmed /\ op[t].got = "mirrored"
    BY <1>3, <2>2 DEF Inv, Mirroring, Mirrored, Twins, Same, Numbered
  <2>3. CASE UNCHANGED confirmed /\ trades' \in {trades, shown}
    <3>1. shown.conflict
      BY <1>3 DEF Rows
    <3> QED
      BY <1>3, <2>3, <3>1 DEF Inv, MirrorHonest, Marked, Numbered
  <2> QED
    BY <1>1, <2>1, <2>2, <2>3 DEF Snapshot
<1> HIDE DEF clear, shown
<1> QED
  BY <1>2, <1>3, <1>4, <1>5, <1>6, <1>7, <1>8, RewriteKeeps

LEMMA AddKeeps ==
  ASSUME Inv, TypeOK', NEW t \in Threads, NEW g \in Gens, Add(t, g)
  PROVE  Inv'
<1> DEFINE row == [NoRow EXCEPT !.gen = g, !.id = rev + 1, !.amount = rev + 1, !.val = rev + 1]
           rest == [Idle EXCEPT !.seen = retryGen]
<1>1. /\ ~Present(trades) /\ op[t].at = "idle" /\ up /\ up'
      /\ Snapshot(t, row, "save", rest)
      /\ UNCHANGED <<persisted, file, fileRev, acked, claim, rlock, confirmed>>
  BY DEF Add, Begin, Free, At, Snapshot, disk, ghosts
<1>2. /\ rest \in Ops /\ rest.row = NoRow /\ rest.got = "none"
  <2>1. retryGen \in Nat /\ "idle" \in Places /\ None \in Gens \cup {None}
    BY DEF Inv, TypeOK, Places
  <2>2. rest \in Ops
    BY ONLY <2>1, IdleTyped, Blanks
  <2> QED
    BY <2>2 DEF Idle
<1>3. /\ row.gen = g /\ row.id = rev + 1 /\ row.val = rev + 1 /\ ~row.conflict
      /\ g # None
  BY NoneAssumption DEF NoRow
<1>4. /\ trades' = row /\ rev' = rev + 1
      /\ op'[t].at = "save" /\ op'[t].rev = rev + 1 /\ op'[t].snap = row
      /\ op'[t].row = NoRow /\ op'[t].got = rest.got
      /\ \A u \in Threads \ {t} : op'[u] = op[u]
  <2> HIDE DEF row, rest
  <2> QED
    BY <1>1, <1>2, SnapshotChanges DEF Inv
<1>5. Present(trades') /\ ~trades'.conflict
  BY <1>3, <1>4 DEF Present
<1>6. OrderUndisturbed'
  BY <1>5 DEF OrderUndisturbed
<1>7. op[t].at \notin Holding
  BY <1>1 DEF Holding
<1> HIDE DEF row, rest
<1> QED
  BY <1>1, <1>2, <1>3, <1>4, <1>5, <1>6, <1>7, RenewKeeps

LEMMA UpdateKeeps ==
  ASSUME Inv, TypeOK', NEW t \in Threads, Update(t)
  PROVE  Inv'
<1> DEFINE row == [trades EXCEPT !.id = rev + 1, !.amount = rev + 1, !.val = rev + 1]
           rest == [Idle EXCEPT !.seen = retryGen]
<1>1. /\ Present(trades) /\ op[t].at = "idle" /\ up /\ up'
      /\ Snapshot(t, row, "save", rest)
      /\ UNCHANGED <<persisted, file, fileRev, acked, claim, rlock, confirmed>>
  BY DEF Update, Begin, Free, At, Snapshot, disk, ghosts
<1>2. /\ rest \in Ops /\ rest.row = NoRow /\ rest.got = "none"
  <2>1. retryGen \in Nat /\ "idle" \in Places /\ None \in Gens \cup {None}
    BY DEF Inv, TypeOK, Places
  <2>2. rest \in Ops
    BY ONLY <2>1, IdleTyped, Blanks
  <2> QED
    BY <2>2 DEF Idle
<1>3. /\ row.gen = trades.gen /\ row.id = rev + 1 /\ row.val = rev + 1
      /\ row.conflict = trades.conflict
  BY DEF Inv, TypeOK, Rows
<1>4. /\ trades' = row /\ rev' = rev + 1
      /\ op'[t].at = "save" /\ op'[t].rev = rev + 1 /\ op'[t].snap = row
      /\ op'[t].row = NoRow /\ op'[t].got = rest.got
      /\ \A u \in Threads \ {t} : op'[u] = op[u]
  <2> HIDE DEF row, rest
  <2> QED
    BY <1>1, <1>2, SnapshotChanges DEF Inv
<1>5. Present(trades') /\ trades'.gen = trades.gen /\ trades'.conflict = trades.conflict
  BY <1>1, <1>3, <1>4 DEF Present
<1>6. OrderUndisturbed'
  BY <1>1, <1>4, <1>5 DEF Inv, OrderUndisturbed, At
<1>7. op[t].at \notin Holding
  BY <1>1 DEF Holding
<1> HIDE DEF row, rest
<1> QED
  BY <1>1, <1>2, <1>3, <1>4, <1>5, <1>6, <1>7, RenewKeeps

LEMMA RemoveKeeps ==
  ASSUME Inv, TypeOK', NEW t \in Threads, NEW g \in Gens \cup {None}, Remove(t, g),
         Present(trades)
  PROVE  Inv'
<1> DEFINE row == [trades EXCEPT !.id = rev + 1, !.val = rev + 1, !.release = TRUE]
           rest == [Idle EXCEPT !.gen = g]
<1>1. /\ op[t].at = "idle" /\ up /\ up' /\ rlock = None /\ rlock' = t
      /\ Snapshot(t, row, "saveStaged", rest)
      /\ UNCHANGED <<persisted, file, fileRev, acked, claim, confirmed>>
  BY DEF Remove, Begin, Free, At, Snapshot, disk, ghosts
<1>2. /\ rest \in Ops /\ rest.row = NoRow /\ rest.got = "none"
  <2>1. 0 \in Nat /\ "idle" \in Places
    BY DEF Places
  <2>2. rest \in Ops
    BY ONLY <2>1, IdleTyped, Blanks
  <2> QED
    BY <2>2 DEF Idle
<1>3. /\ row.gen = trades.gen /\ row.id = rev + 1 /\ row.val = rev + 1
      /\ row.conflict = trades.conflict /\ row.release
  BY DEF Inv, TypeOK, Rows
<1>4. /\ trades' = row /\ rev' = rev + 1
      /\ op'[t].at = "saveStaged" /\ op'[t].rev = rev + 1 /\ op'[t].snap = row
      /\ op'[t].row = NoRow /\ op'[t].got = rest.got
      /\ \A u \in Threads \ {t} : op'[u] = op[u]
  <2> HIDE DEF row, rest
  <2> QED
    BY <1>1, <1>2, SnapshotChanges DEF Inv
<1>5. /\ Present(trades') /\ trades'.gen = trades.gen /\ trades'.conflict = trades.conflict
      /\ trades'.release
  BY <1>1, <1>3, <1>4 DEF Present
<1>6. OrderUndisturbed'
  BY <1>1, <1>4, <1>5 DEF Inv, OrderUndisturbed, At
<1>7. op[t].at \notin Holding
  BY <1>1 DEF Holding
<1> HIDE DEF row, rest
<1> QED
  BY <1>1, <1>2, <1>3, <1>4, <1>5, <1>6, <1>7, RenewKeeps

LEMMA RestoreKeeps ==
  ASSUME Inv, TypeOK', NEW t \in Threads, Restore(t), ~Present(trades)
  PROVE  Inv'
<1> DEFINE row == [op[t].row EXCEPT !.id = rev + 1, !.val = rev + 1]
<1>1. /\ op[t].at = "restore" /\ up'
      /\ Snapshot(t, row, "saveRestored", op[t])
      /\ UNCHANGED <<persisted, file, fileRev, acked, claim, confirmed, rlock>>
  <2>1. op[t].at = "restore"
    BY DEF Restore, At
  <2> QED
    BY <2>1, Awake DEF Restore, Snapshot, disk, ghosts
<1>2. /\ op[t] \in Ops /\ up
  BY <1>1, Awake
<1>3. /\ row.gen = op[t].row.gen /\ row.id = rev + 1 /\ row.val = rev + 1
      /\ row.conflict = op[t].row.conflict /\ Present(op[t].row)
  BY <1>1, <1>2 DEF Inv, Popped, Ops, Rows
<1>4. /\ trades' = row /\ rev' = rev + 1
      /\ op'[t].at = "saveRestored" /\ op'[t].rev = rev + 1 /\ op'[t].snap = row
      /\ op'[t].row = op[t].row
      /\ \A u \in Threads \ {t} : op'[u] = op[u]
  <2> HIDE DEF row
  <2>1. /\ op'[t] = [op[t] EXCEPT !.at = "saveRestored", !.rev = rev + 1, !.snap = row]
        /\ \A u \in Threads \ {t} : op'[u] = op[u]
    BY <1>1, SetChanges DEF Snapshot, Inv
  <2>2. /\ op'[t].at = "saveRestored" /\ op'[t].rev = rev + 1 /\ op'[t].snap = row
        /\ op'[t].row = op[t].row
    BY <1>2, <2>1 DEF Ops
  <2> QED
    BY <1>1, <2>1, <2>2 DEF Snapshot
<1>5. /\ Present(trades') /\ trades'.gen = op[t].row.gen
      /\ trades'.conflict = op[t].row.conflict
  BY <1>1, <1>3, <1>4 DEF Present
<1>6. OrderUndisturbed'
  BY <1>1, <1>4, <1>5 DEF Inv, OrderUndisturbed, At, Popped
<1> HIDE DEF row
<1> QED
  BY <1>1, <1>2, <1>3, <1>4, <1>5, <1>6, RenewKeeps

LEMMA BootKeeps ==
  ASSUME Inv, TypeOK', NEW t \in Threads,
         StartHealed(t) \/ StartConflict(t) \/ StartPending(t)
  PROVE  Inv'
<1>1. PICK old \in {Unmarked(file), [file EXCEPT !.conflict = TRUE],
                    [file EXCEPT !.pending = TRUE]} : Boot(t, old)
  BY DEF StartHealed, StartConflict, StartPending
<1>2. old \in Rows /\ old.gen = file.gen
  BY <1>1 DEF Unmarked, Rows, Inv, TypeOK
<1> DEFINE row == [old EXCEPT !.id = rev + 1, !.val = rev + 1]
<1>3. /\ ~up /\ up' /\ Present(file) /\ Snapshot(t, row, "boot", Idle)
      /\ UNCHANGED <<persisted, file, fileRev, acked, rlock>>
  BY <1>1 DEF Boot, Snapshot, disk
<1>4. /\ row.gen = file.gen /\ row.id = rev + 1 /\ row.val = rev + 1
  BY <1>2 DEF Rows
<1>5. /\ trades' = row /\ rev' = rev + 1
      /\ op'[t].at = "boot" /\ op'[t].rev = rev + 1 /\ op'[t].snap = row
      /\ op'[t].row = NoRow
      /\ \A u \in Threads \ {t} : op'[u] = op[u]
  <2>1. Idle.row = NoRow
    BY DEF Idle
  <2> HIDE DEF row
  <2> QED
    BY <1>3, <2>1, Blanks, SnapshotChanges DEF Inv
<1>6. \A u \in Threads : op[u].at = "idle"
  BY <1>3 DEF Inv, Locked, Idle
<1>7. OrderUndisturbed'
  BY <1>5, <1>6 DEF OrderUndisturbed, At
<1>8. Present(trades') /\ op[t].at \notin Holding /\ ~Present(trades)
  BY <1>3, <1>4, <1>5, <1>6 DEF Present, Holding, Inv, Locked
<1>9. /\ confirmed' <= rev + 1
      /\ confirmed' = rev + 1 /\ ~Marked(trades') => claim' = Mirrored(trades')
  <2>1. confirmed <= rev /\ rev \in Nat /\ confirmed \in Nat
    BY DEF Inv, Numbered, TypeOK
  <2>2. CASE StartHealed(t)
    <3>1. claim' = Mirrored(file) /\ confirmed' = rev + 1
      BY <2>2 DEF StartHealed, Upsert
    <3>2. trades' = [Unmarked(file) EXCEPT !.id = rev + 1, !.val = rev + 1]
      BY <2>2 DEF StartHealed, Boot, Snapshot
    <3>3. Mirrored(trades') = Mirrored(file)
      BY <3>2 DEF Mirrored, Unmarked, Rows, Inv, TypeOK
    <3> QED
      BY <2>1, <3>1, <3>3
  <2>3. CASE confirmed' = confirmed
    BY <2>1, <2>3
  <2> QED
    BY <2>2, <2>3 DEF StartConflict, StartPending
<1> HIDE DEF row
<1> QED
  BY <1>3, <1>4, <1>5, <1>7, <1>8, <1>9, RenewKeeps

\* The row is popped: no restart would bring it back unmarked.
LEMMA DropKeeps ==
  ASSUME Inv, TypeOK', NEW t \in Threads, DropRow(t)
  PROVE  Inv'
<1> DEFINE marked == op[t].snap
           rest == [op[t] EXCEPT !.row = marked]
<1>a. /\ op[t].at = "stage" /\ trades = marked /\ claim' = Mirrored(marked)
      /\ Snapshot(t, NoRow, "saveGone", rest)
  BY DEF DropRow, At, Upsert
<1>h. /\ rlock = t /\ up /\ op[t] \in Ops
      /\ \A u \in Threads \ {t} : op[u].at \notin Holding
  BY <1>a, Alone DEF Holding
<1>o. rest \in Ops /\ rest.row = op[t].snap
  BY <1>h DEF Ops
<1>d. UNCHANGED <<persisted, up, file, fileRev, acked, confirmed, rlock>>
  BY DEF DropRow, Snapshot, disk, ghosts
<1>e. /\ trades' = NoRow /\ rev' = rev + 1
      /\ op'[t].at = "saveGone" /\ op'[t].rev = rev + 1 /\ op'[t].snap = NoRow
      /\ op'[t].row = op[t].snap
      /\ \A u \in Threads \ {t} : op'[u] = op[u]
  <2> HIDE DEF rest
  <2> QED
    BY <1>a, <1>o, SnapshotChanges DEF Inv
<1>b. ~Present(NoRow) /\ NoRow.id = 0 /\ NoRow.val = 0 /\ Present(op[t].snap)
  BY <1>a DEF NoRow, Present, Inv, Leaving
<1>t. /\ rev \in Nat /\ fileRev \in Nat /\ persisted \in Nat
      /\ op[t].rev <= persisted /\ persisted <= fileRev
      /\ \A u \in Threads : op[u].rev \in Nat
  BY <1>a DEF Inv, TypeOK, Ops, Writing, Numbered
<1>f. Off(file) /\ \A v \in Threads : Live(v) => Off(op[v].snap)
  BY <1>a, <1>t DEF Inv, Leaving, Live
<1> HIDE DEF rest, marked
<1>1. Numbered'
  <2>1. rev' \in Nat /\ Past(NoRow, rev')
    BY <1>b, <1>t, <1>e DEF Past
  <2> QED
    BY <1>d, <1>e, <1>t, <2>1, PastGrows DEF Numbered, Past
<1>2. Locked'
  BY <1>h, <1>d, <1>e, <1>b, <1>t DEF Inv, Locked, Holding, TypeOK
<1>3. Twins'
  BY <1>h, <1>d, <1>e, <1>b, <1>t DEF Inv, Twins, Same, Present
<1>4. Mirroring'
  BY <1>h, <1>d, <1>e, <1>b, <1>t DEF Inv, Mirroring, Mirrored, Mine, Present, Holding
<1>5. Writing'
  BY <1>h, <1>d, <1>e, <1>b, <1>t DEF Inv, Writing, Since, Live, Saving, Present, Holding
<1>6. Leaving'
  <2>1. \A v \in Threads : Live(v)' => Off(op'[v].snap)
    BY <1>b, <1>d, <1>e, <1>f DEF Live, Off
  <2>2. \A v \in Threads : op'[v].at \notin {"saveStaged", "stage"}
    BY <1>e, <1>h DEF Holding
  <2> QED
    BY <1>d, <1>f, <2>1, <2>2 DEF Leaving, Off, Live, Present
<1>7. Popped'
  <2>1. \A u \in Threads : op'[u].at \in {"saveGone", "release", "restore"} => u = t
    BY <1>e, <1>h DEF Holding
  <2>2. \A u \in Threads : At(u, "order")' => op'[u] = op[u]
    BY <1>e DEF At
  <2> QED
    BY <1>a, <1>b, <1>e, <2>1, <2>2 DEF Inv, OrderUndisturbed, Popped, At, Present, marked
<1>8. MirrorHonest'
  BY <1>h, <1>d, <1>e, <1>b, <1>t DEF Inv, MirrorHonest, Present, Marked, Mirrored
<1>9. OrderUndisturbed'
  BY <1>h, <1>d, <1>e, <1>b, <1>t DEF Inv, OrderUndisturbed, At, Present
<1> QED
  BY <1>1, <1>2, <1>3, <1>4, <1>5, <1>6, <1>7, <1>8, <1>9 DEF Inv

\* Nobody works on a state that is not up.
LEMMA Asleep ==
  ASSUME TypeOK, Numbered, Locked, TypeOK', rev' = rev,
         op' = [t \in Threads |-> Idle], rlock' = None,
         acked' <= persisted', persisted' <= fileRev', fileRev' <= rev,
         Past(trades', rev) /\ Past(file', rev) /\ confirmed' <= rev,
         ~up' => ~Present(trades'),
         up' /\ ~Present(trades') => Off(file'),
         MirrorHonest'
  PROVE  Inv'
<1>1. \A t \in Threads : op'[t] = Idle
  OBVIOUS
<1>b. /\ Idle.at = "idle" /\ Idle.rev = 0 /\ Idle.row = NoRow /\ Idle.snap = NoRow
      /\ ~Present(NoRow) /\ NoRow.id = 0 /\ NoRow.val = 0 /\ rev \in Nat
  BY DEF Idle, NoRow, Present, TypeOK
<1>2. Numbered'
  BY <1>1, <1>b DEF Numbered, Past
<1>3. Locked'
  BY <1>1, <1>b, NoneAssumption DEF Locked, Holding
<1>4. Twins' /\ Mirroring'
  BY <1>1, <1>b DEF Twins, Mirroring, Present
<1>5. Writing' /\ Leaving' /\ Popped' /\ OrderUndisturbed'
  BY <1>1, <1>b DEF Writing, Leaving, Popped, OrderUndisturbed, At, Live, Saving, Off, Present
<1> QED
  BY <1>2, <1>3, <1>4, <1>5 DEF Inv

\* The process dies, or finds no row to change when it starts.
LEMMA RestartKeeps ==
  ASSUME Inv, TypeOK', Crash \/ StartEmpty \/ StartClean
  PROVE  Inv'
<1>b. ~Present(NoRow) /\ NoRow.id = 0 /\ NoRow.val = 0 /\ rev \in Nat
  BY DEF NoRow, Present, Inv, TypeOK
<1>n. /\ acked <= persisted /\ persisted <= fileRev /\ fileRev <= rev
      /\ Past(trades, rev) /\ Past(file, rev) /\ confirmed <= rev
      /\ TypeOK /\ Numbered /\ Locked
  BY DEF Inv, Numbered
<1>i. acked <= rev /\ rev <= rev
  BY <1>n DEF TypeOK
<1>1. CASE Crash
  <2>1. MirrorHonest'
    BY <1>1, <1>b DEF Crash, MirrorHonest, Present
  <2>2. Past(trades', rev) /\ ~Present(trades') /\ ~up'
    BY <1>1, <1>b DEF Crash, Past
  <2>3. /\ rev' = rev /\ op' = [t \in Threads |-> Idle] /\ rlock' = None
        /\ acked' = acked /\ persisted' = rev /\ fileRev' = rev /\ file' = file
        /\ confirmed' = confirmed
    BY <1>1 DEF Crash, ghosts
  <2> QED
    BY <1>i, <1>n, <2>1, <2>2, <2>3, Asleep
<1>2. CASE StartEmpty \/ StartClean
  <2>1. ~up /\ op' = op /\ rlock' = rlock
    BY <1>2 DEF StartEmpty, StartClean
  <2>2. op' = [t \in Threads |-> Idle] /\ rlock' = None /\ ~Present(trades)
    <3>1. \A t \in Threads : op[t] = Idle
      BY <1>n, <2>1 DEF Locked
    <3>2. \A t \in Threads : rlock # t
      BY <1>n, <3>1 DEF Locked, Idle, Holding
    <3> QED
      BY <1>n, <2>1, <3>1, <3>2 DEF Locked, TypeOK
  <2>3. CASE StartEmpty
    <3>1. /\ UNCHANGED <<trades, rev, persisted, file, fileRev, acked, confirmed>>
          /\ up' /\ ~Present(file)
      BY <2>3 DEF StartEmpty, memory, disk, ghosts
    <3>2. MirrorHonest' /\ Off(file')
      BY <2>2, <3>1 DEF MirrorHonest, Present, Off
    <3> QED
      BY <1>n, <2>2, <3>1, <3>2, Asleep
  <2>4. CASE StartClean
    <3>1. /\ UNCHANGED <<rev, persisted, file, fileRev, acked>> /\ up'
          /\ trades' = file /\ confirmed' = file.id /\ claim' = Mirrored(file)
          /\ Present(file)
      BY <2>4 DEF StartClean, disk, Upsert
    <3>2. MirrorHonest'
      BY <3>1 DEF MirrorHonest, Mirrored
    <3>3. Past(trades', rev) /\ confirmed' <= rev /\ Past(file', rev) /\ Present(trades')
      BY <1>n, <3>1 DEF Past, Present
    <3> QED
      BY <1>n, <2>2, <3>1, <3>2, <3>3, Asleep
  <2> QED
    BY <1>2, <2>3, <2>4
<1> QED
  BY <1>1, <1>2

\* The claims of others, and of an entry, come where the row has none.
LEMMA ClaimKeeps ==
  ASSUME Inv, TypeOK', (\E g \in Gens : ClaimForEntry(g)) \/ OtherClaims \/ OtherReleases
  PROVE  Inv'
<1>1. UNCHANGED <<trades, rev, persisted, rlock, op, up, file, fileRev, acked, confirmed>>
  BY DEF ClaimForEntry, OtherClaims, OtherReleases, memory, disk, ghosts
<1>2. claim = NoClaim \/ claim.owner = "other"
  BY DEF ClaimForEntry, OtherClaims, OtherReleases
<1>3. \A r : Mirrored(r) # claim
  BY <1>2 DEF Mirrored, NoClaim
<1>4. Numbered' /\ Locked'
  BY <1>1 DEF Inv, Numbered, Locked
<1>5. Twins' /\ Popped'
  BY <1>1 DEF Inv, Twins, Popped, At, Present
<1>6. Mirroring' /\ MirrorHonest'
  BY <1>1, <1>3 DEF Inv, Mirroring, MirrorHonest, Mine, Present, Marked
<1>7. Writing' /\ Leaving' /\ OrderUndisturbed'
  BY <1>1 DEF Inv, Writing, Since, Live, Leaving, OrderUndisturbed, At, Present, Off
<1> QED
  BY <1>4, <1>5, <1>6, <1>7 DEF Inv

LEMMA ReadyKeeps ==
  ASSUME Inv, TypeOK', NEW t \in Threads, Guard(t), ~(retry /\ Present(trades))
  PROVE  Inv'
<1>1. /\ up /\ rlock = None /\ op[t].at = "idle"
      /\ UNCHANGED <<trades, rev, persisted, up, file, fileRev, acked, confirmed, claim, rlock>>
  BY DEF Guard, BeginGuard, Begin, Free, At, memory, disk, ghosts
<1>2. /\ op'[t] = [Idle EXCEPT !.at = "reserve", !.guard = TRUE]
      /\ \A u \in Threads \ {t} : op'[u] = op[u]
  BY SetChanges DEF Guard, Inv
<1>3. /\ op'[t].at = "reserve" /\ op'[t].rev = 0 /\ op'[t].row = NoRow /\ op'[t].snap = NoRow
  BY <1>2 DEF Idle
<1>4. 0 <= rev
  BY DEF Inv, TypeOK
<1> QED
  BY <1>1, <1>2, <1>3, <1>4, NoneAssumption, QuietKeeps

LEMMA StepKeeps ==
  ASSUME Inv, TypeOK', NEW t \in Threads, Steps(t)
  PROVE  Inv'
<1>1. CASE SaveDone(t) \/ SaveFailed(t)
  BY <1>1, SaveKeeps
<1>2. CASE Ends(t)
  BY <1>2, EndsKeeps
<1>3. CASE Publish(t) \/ Restore(t) \/ Reserve(t)
  BY <1>2, <1>3, PublishKeeps, RestoreKeeps, ReserveKeeps DEF Ends
<1>4. CASE Mirror(t) \/ MirrorFails(t) \/ MarkPending(t)
  BY <1>4, MirrorKeeps, MirrorFailsKeeps, UnmarkedKeeps, MarkKeeps
<1>5. CASE Settle(t)
  BY <1>2, <1>5, SettledKeeps, ClearKeeps DEF Ends
<1>6. CASE DropRow(t) \/ ReleaseFails(t)
  BY <1>6, DropKeeps, ReleaseFailsKeeps
<1>7. CASE RetryMirrors(t) \/ RetryConflicts(t)
  BY <1>7, RetryMirrorsKeeps, RetryConflictsKeeps
<1>8. CASE CommitRepair(t) \/ CommitDeferred(t) \/ CommitConflict(t)
  BY <1>8, ClearKeeps
<1>9. CASE RemoveAbsent(t) \/ PutOff(t) \/ Release(t) \/ RetryUnknown(t) \/ EndOrder(t)
  <2>1. Ends(t)
    BY <1>9 DEF Ends
  <2> QED
    BY <1>2, <2>1
<1> QED
  BY <1>1, <1>3, <1>4, <1>5, <1>6, <1>7, <1>8, <1>9 DEF Steps

LEMMA CallKeeps ==
  ASSUME Inv, TypeOK', NEW t \in Threads, Calls(t)
  PROVE  Inv'
<1>1. CASE Update(t) \/ Touch(t) \/ Flush(t) \/ Retry(t)
  BY <1>1, UpdateKeeps, TouchKeeps, FlushKeeps, RetryKeeps
<1>2. CASE Guard(t)
  BY <1>2, GuardKeeps, ReadyKeeps
<1>3. CASE \E g \in Gens : Add(t, g)
  BY <1>3, AddKeeps
<1>4. CASE \E g \in Gens \cup {None} : Remove(t, g) \/ ReleaseIfAbsent(t, g)
  BY <1>4, RemoveKeeps, AbsentKeeps, ReleasedKeeps
<1> QED
  BY <1>1, <1>2, <1>3, <1>4 DEF Calls

LEMMA NextKeeps == Inv /\ [Next]_vars => Inv'
<1> SUFFICES ASSUME Inv, [Next]_vars PROVE Inv'
  OBVIOUS
<1>t. TypeOK'
  BY TypeStep DEF Inv
<1>1. CASE UNCHANGED vars
  <2>1. UNCHANGED <<trades, rev, persisted, rlock, op, up, file, fileRev, claim, acked, confirmed>>
    BY <1>1 DEF vars, memory, disk, ghosts
  <2>2. Numbered' /\ Locked' /\ Twins' /\ Popped'
    BY <2>1 DEF Inv, Numbered, Locked, Twins, Popped, At, Present
  <2>3. Mirroring' /\ MirrorHonest' /\ OrderUndisturbed'
    BY <2>1 DEF Inv, Mirroring, MirrorHonest, Mine, Present, Marked, OrderUndisturbed, At,
         Mirrored
  <2>4. Writing' /\ Leaving'
    BY <2>1 DEF Inv, Writing, Since, Live, Leaving, Present, Off
  <2> QED
    BY <1>t, <2>2, <2>3, <2>4 DEF Inv
<1>2. CASE \E t \in Threads : Calls(t) \/ Steps(t)
  BY <1>t, <1>2, CallKeeps, StepKeeps
<1>3. CASE Crash \/ Starts
  BY <1>t, <1>3, RestartKeeps, BootKeeps DEF Starts
<1>4. CASE (\E g \in Gens : ClaimForEntry(g)) \/ OtherClaims \/ OtherReleases
  BY <1>t, <1>4, ClaimKeeps
<1> QED
  BY <1>1, <1>2, <1>3, <1>4 DEF Next

LEMMA InvInit == Init => Inv
<1> SUFFICES ASSUME Init PROVE Inv
  OBVIOUS
<1>1. TypeOK
  BY TypeInit
<1>2. /\ trades = NoRow /\ file = NoRow /\ ~Present(NoRow) /\ NoRow.id = 0 /\ NoRow.val = 0
      /\ rev = 0 /\ acked = 0 /\ persisted = 0 /\ fileRev = 0 /\ confirmed = 0
      /\ rlock = None /\ up
      /\ \A t \in Threads : /\ op[t] = Idle /\ op[t].at = "idle" /\ op[t].rev = 0
                            /\ op[t].row = NoRow /\ op[t].snap = NoRow
  BY DEF Init, NoRow, Present, Idle
<1>3. Numbered /\ Twins /\ Mirroring /\ Popped /\ MirrorHonest /\ OrderUndisturbed
  BY <1>2 DEF Numbered, Past, Twins, Mirroring, Popped, MirrorHonest, OrderUndisturbed, At
<1>4. Locked
  BY <1>2, NoneAssumption DEF Locked, Holding
<1>5. Writing /\ Leaving
  BY <1>2 DEF Writing, Leaving, Off, Live, Saving
<1> QED
  BY <1>1, <1>3, <1>4, <1>5 DEF Inv

-----------------------------------------------------------------------------
(* The properties.                                                         *)

\* What a caller was told is saved is never overtaken by an older snapshot,
\* whatever the order of the saves (_persist_snapshot).
THEOREM NewestIsKept == Spec => []NewestKept
<1>1. Inv => NewestKept
  BY DEF Inv, NewestKept, Numbered, TypeOK
<1> QED
  BY <1>1, InvInit, NextKeeps, PTL DEF Spec

\* A write publishes a generation that a restart would find (_publish_registry).
THEOREM RestartIsTrue == Spec => []RestartTruth
<1>1. Inv => RestartTruth
  BY DEF Inv, RestartTruth, Writing, Mirroring, Mirrored, Present, At
<1> QED
  BY <1>1, InvInit, NextKeeps, PTL DEF Spec

\* A confirmed row without marker is the claim of the registry, however adds,
\* updates, removals and retries of several threads interleave.
THEOREM MirrorIsHonest == Spec => []MirrorHonest
<1>1. Inv => MirrorHonest
  BY DEF Inv
<1> QED
  BY <1>1, InvInit, NextKeeps, PTL DEF Spec

\* No conflict is written under an order in flight (registry_order_guard).
THEOREM OrderIsUndisturbed == Spec => []OrderUndisturbed
<1>1. Inv => OrderUndisturbed
  BY DEF Inv
<1> QED
  BY <1>1, InvInit, NextKeeps, PTL DEF Spec

\* Only these steps change the claim to one of another or to none.
LEMMA KeepsClaim ==
  ASSUME Inv, [Next]_vars, claim.owner = "self", claim.open, claim'.owner # "self"
  PROVE  ~Present(file') \/ file'.release
<1>m. \A r : Mirrored(r).owner = "self"
  BY DEF Mirrored
<1>n. claim # NoClaim /\ claim.owner # "other" /\ claim' # claim
  BY DEF NoClaim
<1>1. \/ StartEmpty
      \/ \E t \in Threads :
           \/ (RemoveAbsent(t) \/ Release(t)) /\ ~Present(trades)
           \/ \E g \in Gens \cup {None} : ReleaseIfAbsent(t, g)
  <2>1. ASSUME NEW t \in Threads, Steps(t)
        PROVE  (RemoveAbsent(t) \/ Release(t)) /\ ~Present(trades)
    BY <1>m, <1>n, <2>1 DEF Steps, SaveDone, SaveFailed, Publish, Mirror, MirrorFails,
         MarkPending, Settle, RemoveAbsent, DropRow, PutOff, Release, ReleaseFails, Restore,
         RetryMirrors, RetryConflicts, RetryUnknown, CommitRepair, CommitDeferred,
         CommitConflict, Reserve, EndOrder, Upsert
  <2>2. ASSUME NEW t \in Threads, Calls(t)
        PROVE  \E g \in Gens \cup {None} : ReleaseIfAbsent(t, g)
    BY <1>n, <2>2 DEF Calls, Update, Touch, Flush, Retry, Guard, Add, Remove
  <2>3. ~Crash /\ ~(\E g \in Gens : ClaimForEntry(g)) /\ ~OtherClaims /\ ~OtherReleases
        /\ ~UNCHANGED vars
    BY <1>n DEF Crash, ClaimForEntry, OtherClaims, OtherReleases, vars
  <2>4. Starts => StartEmpty
    BY <1>m, <1>n DEF Starts, StartClean, StartHealed, StartConflict, StartPending, Upsert
  <2> QED
    BY <2>1, <2>2, <2>3, <2>4 DEF Next
<1>2. CASE StartEmpty
  BY <1>2 DEF StartEmpty, disk, Present
<1>3. ASSUME NEW t \in Threads, op[t].at # "idle" \/ up, ~Present(trades), UNCHANGED disk
      PROVE  ~Present(file') \/ file'.release
  BY <1>3, Awake DEF Inv, Leaving, Off, Present, disk
<1> QED
  BY <1>1, <1>2, <1>3 DEF RemoveAbsent, Release, ReleaseIfAbsent, Begin, Free, At

\* A claim is given up only when no restart would bring its row back unmarked
\* (remove, release_claim_if_absent and the constructor).
THEOREM ClaimIsKept == Spec => ClaimKept
<1>1. Inv /\ [Next]_vars =>
        [claim.owner = "self" /\ claim.open /\ claim'.owner # "self"
           => ~Present(file') \/ file'.release]_vars
  BY KeepsClaim
<1> QED
  BY <1>1, InvInit, NextKeeps, PTL DEF Spec, ClaimKept
=============================================================================
