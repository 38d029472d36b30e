----------------------------- MODULE PositionState -----------------------------
(***************************************************************************)
(* TradeState of bot_utils/trade_state.py for one symbol of one bot: the   *)
(* rows in memory, their snapshots in the state file, from which the bot   *)
(* restarts, and their mirror, the claim in the shared registry.           *)
(*                                                                         *)
(* Threads add, update, remove and retry at once.  A section under _lock,  *)
(* a save under _persist_lock and a registry transaction are one step      *)
(* each; _registry_lock is a variable, held across several of them.  A     *)
(* save or a transaction may fail and the process may die between any two  *)
(* steps.  Of the data of a row, amount stands for the fields the claim    *)
(* repeats and val for the others, each the revision that last wrote it.   *)
(***************************************************************************)
EXTENDS Integers

CONSTANTS
  MaxThreads,  \* threads that work on the state at once
  Gens,        \* entry ids: the generations of the position
  None,        \* the generation of no row, the holder of a free lock
  MaxOps,      \* bound on the operations begun
  MaxFaults,   \* bound on failing saves and transactions
  MaxCrashes,  \* bound on the restarts
  MaxOthers    \* bound on the claims made by other bots

\* Idle threads do not differ: the first of them begins the next operation.
Threads == 1..MaxThreads

ASSUME NoneAssumption == None \notin Gens \cup Threads
ASSUME BoundAssumption ==
  /\ MaxThreads \in Nat /\ MaxOps \in Nat /\ MaxFaults \in Nat
  /\ MaxCrashes \in Nat /\ MaxOthers \in Nat

\* id is the identity of the dict, compared with `is`.
Rows == [gen : Gens \cup {None}, id : Nat, amount : Nat, val : Nat,
         pending : BOOLEAN, conflict : BOOLEAN, release : BOOLEAN]
NoRow == [gen |-> None, id |-> 0, amount |-> 0, val |-> 0,
          pending |-> FALSE, conflict |-> FALSE, release |-> FALSE]
Present(r) == r.gen # None

\* open: the row is mirrored; otherwise it is the placeholder of an entry.
Claims == [owner : {"none", "self", "other"}, gen : Gens \cup {None},
           amount : Nat, release : BOOLEAN, open : BOOLEAN]
NoClaim == [owner |-> "none", gen |-> None, amount |-> 0, release |-> FALSE,
            open |-> FALSE]

Places == {"idle", "boot", "save", "publish", "mirror", "mark", "saveMark",
           "settle", "saveClear", "saveStaged", "stage", "saveGone", "restore",
           "release", "saveRestored", "absent", "retry", "commit", "saveCommit",
           "reserve", "order", "saveOnly"}
\* row: what the thread holds of the state, expected_row or removed;
\* seen: the retry generation at the mutation; got: what the registry answered.
Answers == {"none", "mirrored", "marked", "failed", "conflict"}
Ops == [at : Places, gen : Gens \cup {None}, rev : Nat, snap : Rows, row : Rows,
        seen : Nat, got : Answers, guard : BOOLEAN]
Idle == [at |-> "idle", gen |-> None, rev |-> 0, snap |-> NoRow, row |-> NoRow,
         seen |-> 0, got |-> "none", guard |-> FALSE]

VARIABLES
  trades,      \* _trades[sym]
  rev,         \* _rev, which keeps counting across restarts
  persisted,   \* _persisted_rev
  retry,       \* sym is in _registry_retry_pending
  retryGen,    \* _registry_retry_generation[sym]
  deferred,    \* sym is in _registry_conflict_deferred
  rlock,       \* holder of _registry_lock
  op,          \* op[t]: the operation of a thread and its locals
  up,          \* the process lives
  file,        \* the row in trades.json
  fileRev,     \* the revision of the snapshot in trades.json
  claim,       \* the claim on the base in bot_open_positions
  acked,       \* the newest revision a caller was told is saved
  confirmed,   \* id of the row whose write was answered with True
  ops, faults, crashes, others

memory == <<trades, rev, persisted>>
pendings == <<retry, retryGen, deferred>>
disk == <<file, fileRev>>
ghosts == <<acked, confirmed>>
budgets == <<ops, faults, crashes, others>>
vars == <<memory, pendings, rlock, op, up, disk, claim, ghosts, budgets>>

TypeOK ==
  /\ trades \in Rows /\ rev \in Nat /\ persisted \in Nat
  /\ retry \in BOOLEAN /\ retryGen \in Nat /\ deferred \in BOOLEAN
  /\ rlock \in Threads \cup {None} /\ op \in [Threads -> Ops] /\ up \in BOOLEAN
  /\ file \in Rows /\ fileRev \in Nat /\ claim \in Claims
  /\ acked \in Nat /\ confirmed \in Nat
  /\ ops \in Nat /\ faults \in Nat /\ crashes \in Nat /\ others \in Nat

-----------------------------------------------------------------------------
(* What the steps are made of.                                             *)

At(t, place) == op[t].at = place
Set(t, o) == op' = [op EXCEPT ![t] = o]
Goto(t, place) == Set(t, [op[t] EXCEPT !.at = place])
End(t) == Set(t, Idle)

Booting == \E t \in Threads : At(t, "boot")
Ordering == \E t \in Threads : At(t, "order")

Free(t) ==
  /\ up /\ ~Booting
  /\ At(t, "idle") /\ \A u \in Threads : At(u, "idle") => t <= u

Begin(t) ==
  /\ Free(t)
  /\ ops < MaxOps /\ ops' = ops + 1
  /\ UNCHANGED <<faults, crashes, others>>

\* The caller of an order holds the close lock of the symbol.
BeginGuard(t) ==
  /\ Begin(t)
  /\ \A u \in Threads : ~op[u].guard

Fault == faults < MaxFaults /\ faults' = faults + 1

\* _snapshot_locked: the thread leaves with revision and copy of the row.
Snapshot(t, row, place, more) ==
  /\ trades' = row /\ rev' = rev + 1
  /\ Set(t, [more EXCEPT !.at = place, !.rev = rev + 1, !.snap = row])
  /\ UNCHANGED persisted

\* The markers of the registry on a row.
Unmarked(row) == [row EXCEPT !.pending = FALSE, !.conflict = FALSE]
Marked(row) == row.pending \/ row.conflict

ForgetRetry == retry' = FALSE /\ retryGen' = 0 /\ deferred' = FALSE

\* upsert_open_position, preserving the generation of an own claim.
Refused(row) ==
  \/ claim.owner = "other"
  \/ claim.owner = "self" /\ claim.gen # row.gen
Mirrored(row) == [owner |-> "self", gen |-> row.gen, amount |-> row.amount,
                  release |-> row.release, open |-> TRUE]
Upsert(row) == ~Refused(row) /\ claim' = Mirrored(row)

\* remove_open_position of an expected entry id, or base-wide for None.
RemoveExpected(g) ==
  claim' = IF claim.owner = "self" /\ g \in {None, claim.gen} THEN NoClaim ELSE claim

-----------------------------------------------------------------------------
(* _persist_snapshot: atomic_save_json under _persist_lock.                *)

Saving == {"boot", "save", "saveMark", "saveClear", "saveStaged", "saveGone",
           "saveRestored", "saveCommit", "saveOnly"}

\* Where a thread goes on after a save that is persisted or stale, and after
\* one that failed, which ends an add, an update and a removal only staged.
Onward(t) ==
  CASE At(t, "save") -> "publish"
    [] At(t, "saveMark") -> "settle"
    [] At(t, "saveStaged") -> "stage"
    [] At(t, "saveGone") -> "release"
    [] At(t, "saveCommit") /\ op[t].guard -> "reserve"
    [] OTHER -> "idle"
Failing(t) ==
  CASE At(t, "saveMark") -> "settle"
    [] At(t, "saveGone") -> "restore"
    [] At(t, "saveCommit") /\ op[t].guard -> "reserve"
    [] OTHER -> "idle"

\* The registry lock is left with the operation, or with the retry of a guard.
Leave(t, place, got) ==
  /\ rlock' = IF rlock = t /\ place \in {"idle", "reserve"} THEN None ELSE rlock
  /\ Set(t, IF place = "idle" THEN Idle ELSE [op[t] EXCEPT !.at = place, !.got = got])

\* Faulty variant: an older snapshot is written over a newer one.
StaleNever(t) == FALSE

Stale(t) == op[t].rev < persisted

Save(t) == file' = op[t].snap /\ fileRev' = op[t].rev

SaveDone(t) ==
  /\ op[t].at \in Saving
  /\ IF Stale(t) THEN UNCHANGED <<disk, persisted>>
     ELSE Save(t) /\ persisted' = op[t].rev
  /\ acked' = IF op[t].rev > acked THEN op[t].rev ELSE acked
  /\ Leave(t, Onward(t), IF At(t, "saveMark") THEN "marked" ELSE op[t].got)
  /\ UNCHANGED <<trades, rev, pendings, up, claim, confirmed, budgets>>

\* The save failed, before or after the file was replaced.
SaveFailed(t) ==
  /\ op[t].at \in Saving /\ ~Stale(t)
  /\ Fault
  /\ UNCHANGED disk \/ Save(t)
  /\ Leave(t, Failing(t), op[t].got)
  /\ UNCHANGED <<memory, pendings, up, claim, ghosts, ops, crashes, others>>

-----------------------------------------------------------------------------
(* add, update and update_many.                                            *)

\* Only an absent symbol is added; the caller of an occupied one is told.
Add(t, g) ==
  /\ Begin(t) /\ ~Present(trades)
  /\ Snapshot(t, [NoRow EXCEPT !.gen = g, !.id = rev + 1, !.amount = rev + 1,
                               !.val = rev + 1],
              "save", [Idle EXCEPT !.seen = retryGen])
  /\ UNCHANGED <<pendings, rlock, up, disk, claim, ghosts>>

\* A field of the claim changes: the row is normalized into a new dict.
Update(t) ==
  /\ Begin(t) /\ Present(trades)
  /\ Snapshot(t, [trades EXCEPT !.id = rev + 1, !.amount = rev + 1, !.val = rev + 1],
              "save", [Idle EXCEPT !.seen = retryGen])
  /\ UNCHANGED <<pendings, rlock, up, disk, claim, ghosts>>

\* Any other field changes in place; save_now takes the same way.
Touch(t) ==
  /\ Begin(t) /\ Present(trades)
  /\ Snapshot(t, [trades EXCEPT !.val = rev + 1], "saveOnly", Idle)
  /\ UNCHANGED <<pendings, rlock, up, disk, claim, ghosts>>

\* flush_pending: the newest snapshot again, after a save that failed.
Flush(t) ==
  /\ Begin(t) /\ persisted < rev
  /\ Set(t, [Idle EXCEPT !.at = "saveOnly", !.rev = rev, !.snap = trades])
  /\ UNCHANGED <<memory, pendings, rlock, up, disk, claim, ghosts>>

\* The row the thread wrote is still the one in the state.
Mine(t) == Present(trades) /\ trades.id = op[t].row.id

\* Faulty variant: no look at the row again once the lock is taken.
PublishBlind(t) ==
  /\ At(t, "publish") /\ rlock = None
  /\ rlock' = t
  /\ Set(t, [op[t] EXCEPT !.at = "mirror", !.row = op[t].snap])
  /\ UNCHANGED <<memory, pendings, up, disk, claim, ghosts, budgets>>

\* Only a row that is durable and still current is published.
Publish(t) ==
  /\ At(t, "publish") /\ rlock = None
  /\ IF Present(trades) /\ trades.id = op[t].snap.id
       THEN rlock' = t /\ Set(t, [op[t] EXCEPT !.at = "mirror", !.row = trades])
       ELSE End(t) /\ UNCHANGED rlock
  /\ UNCHANGED <<memory, pendings, up, disk, claim, ghosts, budgets>>

Mirror(t) ==
  /\ At(t, "mirror")
  /\ Upsert(op[t].row)
  /\ Set(t, [op[t] EXCEPT !.at = "settle", !.got = "mirrored"])
  /\ UNCHANGED <<memory, pendings, rlock, up, disk, ghosts, budgets>>

MirrorFails(t) ==
  /\ At(t, "mirror")
  /\ (Refused(op[t].row) /\ UNCHANGED faults) \/ Fault
  /\ Goto(t, "mark")
  /\ UNCHANGED <<memory, pendings, rlock, up, disk, claim, ghosts, ops, crashes, others>>

\* Faulty variant: the retry is planned, but the row not marked.
MarkPendingUnseen(t) ==
  /\ At(t, "mark")
  /\ IF Mine(t)
       THEN /\ Snapshot(t, trades, "saveMark", [op[t] EXCEPT !.got = "failed"])
            /\ retry' = TRUE /\ retryGen' = retryGen + 1
            /\ UNCHANGED deferred
       ELSE /\ Set(t, [op[t] EXCEPT !.at = "settle", !.got = "failed"])
            /\ UNCHANGED <<memory, pendings>>
  /\ UNCHANGED <<rlock, up, disk, claim, ghosts, budgets>>

\* _mark_registry_pending: a retry will mirror the row.
MarkPending(t) ==
  /\ At(t, "mark")
  /\ IF Mine(t)
       THEN /\ Snapshot(t, [trades EXCEPT !.pending = TRUE, !.val = rev + 1],
                        "saveMark", [op[t] EXCEPT !.got = "failed"])
            /\ retry' = TRUE /\ retryGen' = retryGen + 1
            /\ UNCHANGED deferred
       ELSE /\ Set(t, [op[t] EXCEPT !.at = "settle", !.got = "failed"])
            /\ UNCHANGED <<memory, pendings>>
  /\ UNCHANGED <<rlock, up, disk, claim, ghosts, budgets>>

\* A retry older than the mirrored write is settled with it.
Superseded(t) == retry /\ retryGen # op[t].seen

Confirm(t) ==
  confirmed' = IF op[t].got \in {"mirrored", "marked"} THEN trades.id ELSE confirmed

Settle(t) ==
  /\ At(t, "settle")
  /\ \/ /\ ~Mine(t)
        /\ Leave(t, "idle", "none")
        /\ UNCHANGED <<memory, pendings, confirmed>>
     \/ /\ Mine(t)
        /\ op[t].got # "mirrored" \/ Superseded(t)
        /\ Confirm(t)
        /\ Leave(t, "idle", "none")
        /\ UNCHANGED <<memory, pendings>>
     \/ /\ Mine(t)
        /\ op[t].got = "mirrored" /\ ~Superseded(t)
        /\ Confirm(t)
        /\ ForgetRetry
        /\ IF Marked(trades)
             THEN /\ Snapshot(t, [Unmarked(trades) EXCEPT !.val = rev + 1],
                              "saveClear", op[t])
                  /\ UNCHANGED rlock
             ELSE Leave(t, "idle", "none") /\ UNCHANGED memory
  /\ UNCHANGED <<up, disk, claim, acked, budgets>>

-----------------------------------------------------------------------------
(* remove and release_claim_if_absent, of the row of an expected          *)
(* generation, or of any, for None.                                        *)

\* A newer generation counts as removed, and the operation ends at once.
Remove(t, g) ==
  /\ Begin(t) /\ rlock = None
  /\ rlock' = t
  /\ IF Present(trades)
       THEN /\ g \in {None, trades.gen}
            /\ Snapshot(t, [trades EXCEPT !.id = rev + 1, !.val = rev + 1,
                                          !.release = TRUE],
                        "saveStaged", [Idle EXCEPT !.gen = g])
       ELSE /\ Set(t, [Idle EXCEPT !.at = "absent", !.gen = g])
            /\ UNCHANGED memory
  /\ UNCHANGED <<pendings, up, disk, claim, ghosts>>

\* Nothing to remove: a stale claim is healed, unless a row was added since.
RemoveAbsent(t) ==
  /\ At(t, "absent")
  /\ \/ Present(trades) /\ UNCHANGED <<pendings, claim, faults>>
     \/ ~Present(trades) /\ Fault /\ UNCHANGED <<pendings, claim>>
     \/ ~Present(trades) /\ RemoveExpected(op[t].gen) /\ ForgetRetry /\ UNCHANGED faults
  /\ Leave(t, "idle", "none")
  /\ UNCHANGED <<memory, up, disk, ghosts, ops, crashes, others>>

\* The marker is mirrored and the row popped, unless it was written meanwhile.
DropRow(t) ==
  LET marked == op[t].snap
  IN /\ At(t, "stage")
     /\ trades = marked /\ Upsert(marked)
     /\ Snapshot(t, NoRow, "saveGone", [op[t] EXCEPT !.row = marked])
     /\ UNCHANGED <<pendings, rlock, up, disk, ghosts, budgets>>

PutOff(t) ==
  LET marked == op[t].snap
  IN /\ At(t, "stage")
     /\ \/ (trades # marked \/ Refused(marked)) /\ UNCHANGED faults
        \/ trades = marked /\ Fault
     /\ Leave(t, "idle", "none")
     /\ UNCHANGED <<memory, pendings, up, disk, claim, ghosts, ops, crashes, others>>

\* Faulty variant: the claim is released before the look for a newer row.
ReleaseBlind(t) ==
  /\ At(t, "release")
  /\ RemoveExpected(op[t].row.gen) /\ ForgetRetry
  /\ Leave(t, "idle", "none")
  /\ UNCHANGED <<memory, up, disk, ghosts, budgets>>

\* The look for a newer row and the release of the claim, under _lock.
Release(t) ==
  /\ At(t, "release")
  /\ IF Present(trades) THEN UNCHANGED <<pendings, claim>>
     ELSE RemoveExpected(op[t].row.gen) /\ ForgetRetry
  /\ Leave(t, "idle", "none")
  /\ UNCHANGED <<memory, up, disk, ghosts, budgets>>

ReleaseFails(t) ==
  /\ At(t, "release") /\ ~Present(trades)
  /\ Fault
  /\ Goto(t, "restore")
  /\ UNCHANGED <<memory, pendings, rlock, up, disk, claim, ghosts, ops, crashes, others>>

\* The removed row comes back, still marked for its release.
Restore(t) ==
  /\ At(t, "restore")
  /\ IF Present(trades) THEN Leave(t, "idle", "none") /\ UNCHANGED memory
     ELSE /\ Snapshot(t, [op[t].row EXCEPT !.id = rev + 1, !.val = rev + 1],
                      "saveRestored", op[t])
          /\ UNCHANGED rlock
  /\ UNCHANGED <<pendings, up, disk, claim, ghosts, budgets>>

ReleaseIfAbsent(t, g) ==
  /\ Begin(t) /\ rlock = None /\ ~Present(trades)
  /\ RemoveExpected(g) /\ ForgetRetry
  /\ UNCHANGED <<memory, rlock, op, up, disk, ghosts>>

-----------------------------------------------------------------------------
(* retry_registry_pending and registry_order_guard.                        *)

\* Faulty variant: what is deferred is not retried.
RetryNotDeferred(t) ==
  /\ Free(t) /\ rlock = None
  /\ IF Ordering THEN Begin(t) ELSE UNCHANGED budgets
  /\ retry /\ ~deferred /\ Present(trades)
  /\ rlock' = t
  /\ Set(t, [Idle EXCEPT !.at = "retry", !.row = trades])
  /\ UNCHANGED <<memory, pendings, up, disk, claim, ghosts>>

\* The reads of the state retry as well; the bound counts the retries that an
\* order in flight may defer again and again.
Retry(t) ==
  /\ Free(t) /\ rlock = None
  /\ IF Ordering THEN Begin(t) ELSE UNCHANGED budgets
  /\ retry /\ Present(trades)
  /\ rlock' = t
  /\ Set(t, [Idle EXCEPT !.at = "retry", !.row = trades])
  /\ UNCHANGED <<memory, pendings, up, disk, claim, ghosts>>

\* A guard retries first.
Guard(t) ==
  /\ BeginGuard(t) /\ rlock = None
  /\ IF retry /\ Present(trades)
       THEN rlock' = t /\ Set(t, [Idle EXCEPT !.at = "retry", !.row = trades,
                                              !.guard = TRUE])
       ELSE Set(t, [Idle EXCEPT !.at = "reserve", !.guard = TRUE]) /\ UNCHANGED rlock
  /\ UNCHANGED <<memory, pendings, up, disk, claim, ghosts>>

RetryMirrors(t) ==
  /\ At(t, "retry")
  /\ Upsert(op[t].row)
  /\ Set(t, [op[t] EXCEPT !.at = "commit", !.got = "mirrored"])
  /\ UNCHANGED <<memory, pendings, rlock, up, disk, ghosts, budgets>>

\* The claims are read again and show a conflict.
RetryConflicts(t) ==
  /\ At(t, "retry") /\ Refused(op[t].row)
  /\ Set(t, [op[t] EXCEPT !.at = "commit", !.got = "conflict"])
  /\ UNCHANGED <<memory, pendings, rlock, up, disk, claim, ghosts, budgets>>

\* Neither is known: the retry is tried again later.
RetryUnknown(t) ==
  /\ At(t, "retry")
  /\ Fault
  /\ Leave(t, IF op[t].guard THEN "reserve" ELSE "idle", "none")
  /\ UNCHANGED <<memory, pendings, up, disk, claim, ghosts, ops, crashes, others>>

CommitRepair(t) ==
  /\ At(t, "commit") /\ op[t].got = "mirrored"
  /\ ForgetRetry
  /\ Snapshot(t, [Unmarked(trades) EXCEPT !.val = rev + 1], "saveCommit", op[t])
  /\ UNCHANGED <<rlock, up, disk, claim, ghosts, budgets>>

\* An order in flight goes before the conflict, which waits for its end.
CommitDeferred(t) ==
  /\ At(t, "commit") /\ op[t].got = "conflict" /\ Present(trades) /\ Ordering
  /\ deferred' = TRUE
  /\ Snapshot(t, trades, "saveCommit", op[t])
  /\ UNCHANGED <<retry, retryGen, rlock, up, disk, claim, ghosts, budgets>>

\* Faulty variant: an order in flight is not asked for.
CommitRegardless(t) ==
  /\ At(t, "commit") /\ op[t].got = "conflict" /\ Present(trades)
  /\ ForgetRetry
  /\ Snapshot(t, [trades EXCEPT !.conflict = TRUE, !.pending = FALSE, !.val = rev + 1],
              "saveCommit", op[t])
  /\ UNCHANGED <<rlock, up, disk, claim, ghosts, budgets>>

CommitConflict(t) ==
  /\ At(t, "commit") /\ op[t].got = "conflict" /\ Present(trades) /\ ~Ordering
  /\ ForgetRetry
  /\ Snapshot(t, [trades EXCEPT !.conflict = TRUE, !.pending = FALSE, !.val = rev + 1],
              "saveCommit", op[t])
  /\ UNCHANGED <<rlock, up, disk, claim, ghosts, budgets>>

\* The reservation of an order; a deferred conflict refuses it, and so does,
\* in the caller, a row that is gone or marked.
Reserve(t) ==
  /\ At(t, "reserve")
  /\ IF deferred THEN End(t)
     ELSE Set(t, [op[t] EXCEPT !.at = "order", !.row = trades])
  /\ UNCHANGED <<memory, pendings, rlock, up, disk, claim, ghosts, budgets>>

EndOrder(t) ==
  /\ At(t, "order")
  /\ End(t)
  /\ UNCHANGED <<memory, pendings, rlock, up, disk, claim, ghosts, budgets>>

-----------------------------------------------------------------------------
(* The process dies, and starts again.  Revisions keep counting, and what  *)
(* the file holds is then the newest; the code counts from 0 again.        *)

Crash ==
  /\ up /\ crashes < MaxCrashes
  /\ crashes' = crashes + 1
  /\ up' = FALSE
  /\ trades' = NoRow /\ persisted' = rev /\ fileRev' = rev /\ rlock' = None
  /\ op' = [t \in Threads |-> Idle]
  /\ ForgetRetry
  /\ UNCHANGED <<rev, file, claim, ghosts, ops, faults, others>>

\* The constructor finds no row: a claim staged for release is released.
StartEmpty ==
  /\ ~up /\ ~Present(file)
  /\ up' = TRUE
  /\ \/ /\ claim' = IF claim.owner = "self" /\ claim.release THEN NoClaim ELSE claim
        /\ UNCHANGED faults
     \/ claim.release /\ Fault /\ UNCHANGED claim
  /\ UNCHANGED <<memory, pendings, rlock, op, disk, ghosts, ops, crashes, others>>

\* _resync_registry mirrors the loaded row again ...
StartClean ==
  /\ ~up /\ Present(file) /\ ~Marked(file)
  /\ up' = TRUE
  /\ Upsert(file)
  /\ trades' = file /\ confirmed' = file.id
  /\ UNCHANGED <<rev, persisted, pendings, rlock, op, disk, acked, budgets>>

\* ... and saves it when its markers change.
Boot(t, row) ==
  /\ ~up /\ Present(file) /\ \A u \in Threads : t <= u
  /\ up' = TRUE
  /\ Snapshot(t, [row EXCEPT !.id = rev + 1, !.val = rev + 1], "boot", Idle)
  /\ UNCHANGED <<rlock, disk, acked, ops, crashes, others>>

StartHealed(t) ==
  /\ Marked(file) /\ Upsert(file)
  /\ Boot(t, Unmarked(file))
  /\ confirmed' = rev + 1
  /\ UNCHANGED <<pendings, faults>>

StartConflict(t) ==
  /\ Refused(file)
  /\ Boot(t, [file EXCEPT !.conflict = TRUE])
  /\ UNCHANGED <<pendings, claim, confirmed, faults>>

StartPending(t) ==
  /\ Fault
  /\ Boot(t, [file EXCEPT !.pending = TRUE])
  /\ retry' = TRUE /\ retryGen' = retryGen + 1
  /\ UNCHANGED <<deferred, claim, confirmed>>

-----------------------------------------------------------------------------
(* The claims that are made elsewhere.                                     *)

\* An entry or an adoption claims the symbol before its row is added.
ClaimForEntry(g) ==
  /\ up /\ claim = NoClaim /\ ~Present(trades)
  /\ claim' = [NoClaim EXCEPT !.owner = "self", !.gen = g]
  /\ UNCHANGED <<memory, pendings, rlock, op, up, disk, ghosts, budgets>>

OtherClaims ==
  /\ others < MaxOthers /\ others' = others + 1
  /\ claim = NoClaim
  /\ claim' = [NoClaim EXCEPT !.owner = "other", !.open = TRUE]
  /\ UNCHANGED <<memory, pendings, rlock, op, up, disk, ghosts, ops, faults, crashes>>

OtherReleases ==
  /\ claim.owner = "other"
  /\ claim' = NoClaim
  /\ UNCHANGED <<memory, pendings, rlock, op, up, disk, ghosts, budgets>>

-----------------------------------------------------------------------------
Init ==
  /\ trades = NoRow /\ rev = 0 /\ persisted = 0
  /\ retry = FALSE /\ retryGen = 0 /\ deferred = FALSE
  /\ rlock = None /\ op = [t \in Threads |-> Idle] /\ up = TRUE
  /\ file = NoRow /\ fileRev = 0 /\ claim = NoClaim
  /\ acked = 0 /\ confirmed = 0
  /\ ops = 0 /\ faults = 0 /\ crashes = 0 /\ others = 0

Calls(t) ==
  \/ Update(t) \/ Touch(t) \/ Flush(t) \/ Retry(t) \/ Guard(t)
  \/ \E g \in Gens : Add(t, g)
  \/ \E g \in Gens \cup {None} : Remove(t, g) \/ ReleaseIfAbsent(t, g)

Steps(t) ==
  \/ SaveDone(t) \/ SaveFailed(t)
  \/ Publish(t) \/ Mirror(t) \/ MirrorFails(t) \/ MarkPending(t) \/ Settle(t)
  \/ RemoveAbsent(t) \/ DropRow(t) \/ PutOff(t) \/ Release(t) \/ ReleaseFails(t)
  \/ Restore(t)
  \/ RetryMirrors(t) \/ RetryConflicts(t) \/ RetryUnknown(t)
  \/ CommitRepair(t) \/ CommitDeferred(t) \/ CommitConflict(t)
  \/ Reserve(t) \/ EndOrder(t)

Starts ==
  \/ StartEmpty \/ StartClean
  \/ \E t \in Threads : StartHealed(t) \/ StartConflict(t) \/ StartPending(t)

Next ==
  \/ \E t \in Threads : Calls(t) \/ Steps(t)
  \/ Crash \/ Starts
  \/ \E g \in Gens : ClaimForEntry(g)
  \/ OtherClaims \/ OtherReleases

\* A thread goes on, and one reads, and so retries, again and again.
Fairness ==
  /\ \A t \in Threads : WF_vars(Steps(t))
  /\ WF_vars(\E t \in Threads : Retry(t))

Spec == Init /\ [][Next]_vars
FairSpec == Spec /\ Fairness

-----------------------------------------------------------------------------
(* Properties.                                                             *)

\* The state file never falls behind a revision a caller was told is saved,
\* however the saves of several threads are ordered (_persist_snapshot).
NewestKept == acked <= fileRev

\* A write publishes what a restart finds: when its row is mirrored, the state
\* file holds that generation, and keeps it until the write is settled.  A retry,
\* which mirrors the row in memory, makes no such promise.
RestartTruth ==
  \A t \in Threads :
    At(t, "settle") /\ op[t].got = "mirrored"
      => Present(file) /\ file.gen = claim.gen

\* A row whose write was answered with True is mirrored as it is, or bears the
\* marker of a retry or a conflict.
MirrorHonest ==
  Present(trades) /\ trades.id = confirmed /\ ~Marked(trades)
    => claim = Mirrored(trades)

\* A claim is given up only when no restart would bring its row back unmarked.
ClaimKept ==
  [][claim.owner = "self" /\ claim.open /\ claim'.owner # "self"
       => ~Present(file') \/ file'.release]_vars

\* A conflict is not written under an order in flight: the row its guard
\* yielded does not turn into a conflict before the order ends.
OrderUndisturbed ==
  \A t \in Threads :
    At(t, "order") /\ Present(trades) /\ trades.gen = op[t].row.gen
      /\ ~op[t].row.conflict => ~trades.conflict

\* A mirror that failed is repaired, or its conflict shown on the row, an order
\* in flight only putting that off.
PendingSettles == retry ~> ~retry
=============================================================================
