------------------------------- MODULE CloseLock -------------------------------
(***************************************************************************)
(* close_lock of core/symbol_locks.py for one coin of one wallet.  A       *)
(* closer passes four barriers:                                            *)
(*                                                                         *)
(*   inproc    the lock object of its key in its process; the callers of   *)
(*             one coin use two keys, "BTC" and "BTC/USDT"                 *)
(*   published the renewal generation of its process: none may be left     *)
(*             from an earlier closer                                      *)
(*   osHolder  the kernel lock on the file of the coin (external)          *)
(*   lease     the row of advisory_locks (core/database.py), whose holder  *)
(*             is a process, not a thread                                  *)
(*                                                                         *)
(* A daemon thread renews the lease while the closer is inside.  The       *)
(* closer waits for it at most a few seconds, so it may still have a       *)
(* transaction under way when the closer and its successors have gone on.  *)
(***************************************************************************)
EXTENDS Naturals, FiniteSets

CONSTANTS
  Threads, Processes,
  ProcessOf, KeyOf,   \* of each thread
  FailOpen,           \* threads that close without a lease if need be
  MayFail,            \* database, file system and thread starts may fail
  None, Dead          \* no holder; a process incarnation that has died

ASSUME ThreadAssumption ==
  ProcessOf \in [Threads -> Processes] /\ DOMAIN KeyOf = Threads
ASSUME HolderAssumption ==
  {None, Dead} \cap (Processes \cup Threads) = {} /\ None # Dead
ASSUME FailAssumption == FailOpen \subseteq Threads /\ MayFail \in BOOLEAN

VARIABLES
  pc,
  inproc,      \* threads that hold the lock object of their key
  stale,       \* threads whose lock object is not the registered one any more
  osHolder,
  lease,
  gen,         \* the renewal generation each thread started last
  stopped,     \* threads whose generation is told to stop
  published    \* the unresolved generation of each process

vars == <<pc, inproc, stale, osHolder, lease, gen, stopped, published>>
renewalVars == <<gen, stopped, published>>

Controls == {"idle", "resolved", "admit", "os", "handoff", "lease", "publish",
             "start", "inside", "join", "unlease", "drop", "unlock", "refused"}
Generations == {"none", "waiting", "renewing", "lapsed", "acquiring",
                "holding", "late"}
Leases == [holder : Processes \cup {None, Dead}, expired : BOOLEAN]
NoLease == [holder |-> None, expired |-> FALSE]

TypeOK ==
  /\ pc \in [Threads -> Controls]
  /\ inproc \subseteq Threads /\ stale \subseteq Threads
  /\ osHolder \in Threads \cup {None}
  /\ lease \in Leases
  /\ gen \in [Threads -> Generations]
  /\ stopped \subseteq Threads
  /\ published \in [Processes -> Threads \cup {None}]

-----------------------------------------------------------------------------
(* The database.                                                           *)

Free == lease.holder = None \/ lease.expired
Taken(p) == [holder |-> p, expired |-> FALSE]

\* Faulty variant: expired rows are not swept before contesting.
AcquireUnswept(p) == lease.holder = None /\ lease' = Taken(p)

\* _try_advisory_lock: the process that holds the row is refused, too.
Acquire(p) == Free /\ lease' = Taken(p)
ReleaseRow(p) == lease' = IF lease.holder = p THEN NoLease ELSE lease

-----------------------------------------------------------------------------
(* The in-process lock.                                                    *)

Go(t, c) == pc' = [pc EXCEPT ![t] = c]

\* Threads that contend for the same lock object.
SameKey(t, u) == ProcessOf[t] = ProcessOf[u] /\ KeyOf[t] = KeyOf[u]
SameObject(t, u) == SameKey(t, u) /\ (t \in stale <=> u \in stale)
LockHeld(t) == \E u \in inproc : SameObject(t, u)

\* _acquire_or_create counts a reference until the context is left.
Referenced(p, k) == \E t \in Threads :
  ProcessOf[t] = p /\ KeyOf[t] = k /\ pc[t] # "idle"

Request(t) ==
  /\ pc[t] = "idle"
  /\ Go(t, "resolved")
  /\ UNCHANGED <<inproc, stale, osHolder, lease, renewalVars>>

LockAcquired(t) ==
  /\ pc[t] = "resolved" /\ ~LockHeld(t)
  /\ inproc' = inproc \cup {t}
  /\ Go(t, "admit")
  /\ UNCHANGED <<stale, osHolder, lease, renewalVars>>

LockTimeout(t) ==
  /\ pc[t] = "resolved" /\ LockHeld(t)
  /\ Go(t, "idle") /\ stale' = stale \ {t}
  /\ UNCHANGED <<inproc, osHolder, lease, renewalVars>>

Forget(p, k) ==
  stale' = stale \cup {t \in Threads : /\ ProcessOf[t] = p /\ KeyOf[t] = k
                                       /\ pc[t] # "idle"}

\* gc_idle_locks drops the lock object of one key (here: that of t).
Collect(t) ==
  /\ ~Referenced(ProcessOf[t], KeyOf[t])
  /\ ~\E u \in inproc : SameKey(t, u)
  /\ Forget(ProcessOf[t], KeyOf[t])
  /\ UNCHANGED <<pc, inproc, osHolder, lease, renewalVars>>

-----------------------------------------------------------------------------
(* Entering.                                                               *)

\* Faulty variant: a generation that was told to stop counts as resolved.
UnresolvedRunning(p) == published[p] # None /\ published[p] \notin stopped

Unresolved(p) == published[p] # None

\* _renewal_admission_blocked: a generation of the process is still at work.
Admit(t) ==
  /\ pc[t] = "admit"
  /\ Go(t, IF Unresolved(ProcessOf[t]) THEN "refused" ELSE "os")
  /\ UNCHANGED <<inproc, stale, osHolder, lease, renewalVars>>

AcquireOs(t) ==
  /\ pc[t] = "os" /\ osHolder = None
  /\ osHolder' = t
  /\ Go(t, "handoff")
  /\ UNCHANGED <<inproc, stale, lease, renewalVars>>

\* Faulty variant: without the kernel lock the closer goes on if it may close
\* without a lease.
OsRefusedOpen(t) ==
  /\ pc[t] = "os" /\ osHolder # None
  /\ Go(t, IF t \in FailOpen THEN "lease" ELSE "refused")
  /\ UNCHANGED <<inproc, stale, osHolder, lease, renewalVars>>

\* Contended for two seconds.
OsRefused(t) ==
  /\ pc[t] = "os" /\ osHolder # None
  /\ Go(t, "refused")
  /\ UNCHANGED <<inproc, stale, osHolder, lease, renewalVars>>

\* Faulty variant: the generations are not looked at again under the lock.
HandoffUnchecked(t) ==
  /\ pc[t] = "handoff"
  /\ Go(t, "lease")
  /\ UNCHANGED <<inproc, stale, osHolder, lease, renewalVars>>

\* The second look, because the first was before the wait for the lock.
Handoff(t) ==
  /\ pc[t] = "handoff"
  /\ IF Unresolved(ProcessOf[t])
     THEN osHolder' = None /\ Go(t, "refused")
     ELSE Go(t, "lease") /\ UNCHANGED osHolder
  /\ UNCHANGED <<inproc, stale, lease, renewalVars>>

LeaseAcquired(t) ==
  /\ pc[t] = "lease" /\ Acquire(ProcessOf[t])
  /\ Go(t, "publish")
  /\ UNCHANGED <<inproc, stale, osHolder, renewalVars>>

WithoutLease(t) == IF t \in FailOpen THEN "inside" ELSE "refused"

\* Held by another incarnation for two seconds.
LeaseRefused(t) ==
  /\ pc[t] = "lease" /\ ~Free
  /\ Go(t, WithoutLease(t))
  /\ UNCHANGED <<inproc, stale, osHolder, lease, renewalVars>>

Publish(t) ==
  LET p == ProcessOf[t]
  IN /\ pc[t] = "publish"
     /\ IF Unresolved(p)
        THEN ReleaseRow(p) /\ Go(t, WithoutLease(t)) /\ UNCHANGED published
        ELSE /\ published' = [published EXCEPT ![p] = t]
             /\ Go(t, "start") /\ UNCHANGED lease
     /\ stopped' = stopped \ {t}
     /\ UNCHANGED <<inproc, stale, osHolder, gen>>

Start(t) ==
  /\ pc[t] = "start"
  /\ gen' = [gen EXCEPT ![t] = "waiting"]
  /\ Go(t, "inside")
  /\ UNCHANGED <<inproc, stale, osHolder, lease, stopped, published>>

-----------------------------------------------------------------------------
(* Leaving.                                                                *)

Leave(t) ==
  /\ pc[t] = "inside"
  /\ IF gen[t] = "none"
     THEN Go(t, "drop") /\ UNCHANGED stopped
     ELSE Go(t, "join") /\ stopped' = stopped \cup {t}
  /\ UNCHANGED <<inproc, stale, osHolder, lease, gen, published>>

\* The renewal thread has ended, or is not waited for any longer.
Join(t) ==
  /\ pc[t] = "join"
  /\ Go(t, "unlease")
  /\ UNCHANGED <<inproc, stale, osHolder, lease, renewalVars>>

ReleaseLease(t) ==
  /\ pc[t] = "unlease"
  /\ ReleaseRow(ProcessOf[t])
  /\ Go(t, "drop")
  /\ UNCHANGED <<inproc, stale, osHolder, renewalVars>>

DropOs(t) ==
  /\ pc[t] = "drop"
  /\ osHolder' = None
  /\ Go(t, IF t \in inproc THEN "unlock" ELSE "idle")
  /\ stale' = IF t \in inproc THEN stale ELSE stale \ {t}
  /\ UNCHANGED <<inproc, lease, renewalVars>>

Unlock(t) ==
  /\ pc[t] = "unlock"
  /\ inproc' = inproc \ {t} /\ stale' = stale \ {t}
  /\ Go(t, "idle")
  /\ UNCHANGED <<osHolder, lease, renewalVars>>

\* A refused closer lets the in-process lock go before the kernel lock.
Refuse(t) ==
  /\ pc[t] = "refused"
  /\ inproc' = inproc \ {t}
  /\ Go(t, IF osHolder = t THEN "drop" ELSE "idle")
  /\ stale' = IF osHolder = t THEN stale ELSE stale \ {t}
  /\ UNCHANGED <<osHolder, lease, renewalVars>>

-----------------------------------------------------------------------------
(* The renewal thread of t.                                                *)

Turn(t, g) ==
  /\ gen' = [gen EXCEPT ![t] = g]
  /\ UNCHANGED <<pc, inproc, stale, osHolder, stopped, published>>

End(t) ==
  /\ gen' = [gen EXCEPT ![t] = "none"]
  /\ published' = [published EXCEPT ![ProcessOf[t]] = None]
  /\ UNCHANGED <<pc, inproc, stale, osHolder, stopped>>

\* The interval is over, or the thread is told to stop.
Wake(t) ==
  /\ gen[t] = "waiting"
  /\ IF t \in stopped THEN End(t) ELSE Turn(t, "renewing")
  /\ UNCHANGED lease

Own(t) == lease.holder = ProcessOf[t]

\* renew_advisory_lock: only a row that has not expired is renewed.
Renew(t) ==
  /\ gen[t] = "renewing"
  /\ \/ Own(t) /\ ~lease.expired /\ Turn(t, "holding")
     \/ (~Own(t) \/ lease.expired) /\ Turn(t, "lapsed")
  /\ UNCHANGED lease

\* An expired or lost row is acquired again, unless the closer is leaving.
Lapse(t) ==
  /\ gen[t] = "lapsed"
  /\ Turn(t, IF t \in stopped THEN "waiting" ELSE "acquiring")
  /\ UNCHANGED lease

Reacquire(t) ==
  /\ gen[t] = "acquiring"
  /\ \/ Acquire(ProcessOf[t]) /\ Turn(t, "holding")
     \/ ~Free /\ UNCHANGED lease /\ Turn(t, "waiting")

\* Faulty variant: whether the closer has left meanwhile is not asked.
HoldUnchecked(t) ==
  /\ gen[t] = "holding"
  /\ Turn(t, "waiting")
  /\ UNCHANGED lease

\* The transaction may have committed after the closer released the row.
Hold(t) ==
  /\ gen[t] = "holding"
  /\ Turn(t, IF t \in stopped THEN "late" ELSE "waiting")
  /\ UNCHANGED lease

\* _release_late_lease, by holder id: any row of the process.
LateRelease(t) ==
  /\ gen[t] = "late"
  /\ ReleaseRow(ProcessOf[t])
  /\ End(t)

-----------------------------------------------------------------------------
(* Failing operations.                                                     *)

\* The lock file is unavailable.
OsFails(t) ==
  /\ pc[t] = "os" /\ osHolder = None
  /\ Go(t, "refused")
  /\ UNCHANGED <<inproc, stale, osHolder, lease, renewalVars>>

LeaseFails(t) ==
  /\ pc[t] = "lease" /\ Free
  /\ Go(t, WithoutLease(t))
  /\ UNCHANGED <<inproc, stale, osHolder, lease, renewalVars>>

\* The thread never started: the exception leaves through the same clean-up.
StartFails(t) ==
  /\ pc[t] = "start"
  /\ published' = [published EXCEPT ![ProcessOf[t]] = None]
  /\ Go(t, "unlease")
  /\ UNCHANGED <<inproc, stale, osHolder, lease, gen, stopped>>

\* The row stays.
ReleaseFails(t) ==
  /\ pc[t] = "unlease" /\ Own(t)
  /\ Go(t, "drop")
  /\ UNCHANGED <<inproc, stale, osHolder, lease, renewalVars>>

RenewFails(t) ==
  /\ gen[t] = "renewing" /\ Own(t) /\ ~lease.expired
  /\ Turn(t, "lapsed")
  /\ UNCHANGED lease

ReacquireFails(t) ==
  /\ gen[t] = "acquiring" /\ Free
  /\ Turn(t, "waiting")
  /\ UNCHANGED lease

LateReleaseFails(t) ==
  /\ gen[t] = "late" /\ Own(t)
  /\ End(t)
  /\ UNCHANGED lease

Fails(t) ==
  \/ OsFails(t) \/ LeaseFails(t) \/ StartFails(t) \/ ReleaseFails(t)
  \/ RenewFails(t) \/ ReacquireFails(t) \/ LateReleaseFails(t)

Failure == MayFail /\ \E t \in Threads : Fails(t)

-----------------------------------------------------------------------------
(* Time, clean-up by others, crashes.                                      *)

\* The closer stalls, or the database is away, for the time to live.
Expire ==
  /\ lease.holder # None /\ ~lease.expired
  /\ lease' = [lease EXCEPT !.expired = TRUE]
  /\ UNCHANGED <<pc, inproc, stale, osHolder, renewalVars>>

\* A granted lock, of whatever name, sweeps all expired rows.
Sweep ==
  /\ lease.expired
  /\ lease' = NoLease
  /\ UNCHANGED <<pc, inproc, stale, osHolder, renewalVars>>

\* The launcher releases the rows of a process it has proven dead.
ReleaseDead ==
  /\ lease.holder = Dead
  /\ lease' = NoLease
  /\ UNCHANGED <<pc, inproc, stale, osHolder, renewalVars>>

\* The kernel frees the lock of a dead process; its row stays.  The process
\* that is started in its place has a run id of its own.
Crash(p) ==
  LET mine == {t \in Threads : ProcessOf[t] = p}
  IN /\ pc' = [t \in Threads |-> IF t \in mine THEN "idle" ELSE pc[t]]
     /\ inproc' = inproc \ mine /\ stale' = stale \ mine
     /\ osHolder' = IF osHolder \in mine THEN None ELSE osHolder
     /\ lease' = IF lease.holder = p THEN [lease EXCEPT !.holder = Dead]
                                     ELSE lease
     /\ gen' = [t \in Threads |-> IF t \in mine THEN "none" ELSE gen[t]]
     /\ stopped' = stopped \ mine
     /\ published' = [published EXCEPT ![p] = None]

-----------------------------------------------------------------------------

Init ==
  /\ pc = [t \in Threads |-> "idle"]
  /\ inproc = {} /\ stale = {} /\ osHolder = None /\ lease = NoLease
  /\ gen = [t \in Threads |-> "none"] /\ stopped = {}
  /\ published = [p \in Processes |-> None]

Enter(t) ==
  \/ Request(t) \/ LockAcquired(t) \/ LockTimeout(t) \/ Admit(t)
  \/ AcquireOs(t) \/ OsRefused(t) \/ Handoff(t)
  \/ LeaseAcquired(t) \/ LeaseRefused(t) \/ Publish(t) \/ Start(t)

Exit(t) ==
  \/ Leave(t) \/ Join(t) \/ ReleaseLease(t) \/ DropOs(t) \/ Unlock(t)
  \/ Refuse(t)

Renewal(t) ==
  \/ Wake(t) \/ Renew(t) \/ Lapse(t) \/ Reacquire(t) \/ Hold(t)
  \/ LateRelease(t)

Next ==
  \/ \E t \in Threads : Enter(t) \/ Exit(t) \/ Renewal(t) \/ Collect(t)
  \/ Expire \/ Sweep \/ ReleaseDead
  \/ Failure
  \/ \E p \in Processes : Crash(p)

Spec == Init /\ [][Next]_vars

\* A bot asks again until its position is closed, the body of a close ends,
\* renewal threads run, and a lease is not extended for ever without a renewal.
Fairness ==
  /\ \A t \in Threads : WF_vars(Enter(t) \/ Exit(t)) /\ WF_vars(Renewal(t))
  /\ WF_vars(Expire)

FairSpec == Spec /\ Fairness

-----------------------------------------------------------------------------
(* Properties.                                                             *)

Closing == {t \in Threads : pc[t] = "inside"}

Mutex == INSTANCE CloseMutex WITH closing <- Closing

\* "The OS lock owns mutual exclusion for the whole context even if the
\* renewable DB lease expires temporarily" (close_lock): closers enter one
\* after the other, across threads, processes and both keys of the coin, also
\* where a lease is not asked for.
MutexSpec == Mutex!Spec

\* The in-process lock serializes the callers of one key, although idle lock
\* objects are dropped while others resolve them.
KeyExclusive ==
  \A t, u \in inproc : SameKey(t, u) => t = u

\* No renewal of an earlier closer is at work once a closer of the process has
\* passed the two looks at the generations: the third, when the generation is
\* published, never refuses.
HandoffSuffices ==
  \A t \in Threads :
    pc[t] \in {"lease", "publish"} => ~Unresolved(ProcessOf[t])

\* The lease of a closer is not taken away by the late clean-up of an earlier
\* one, although they share the holder id: it ends by expiring, or with it.
LateReleaseHarmless ==
  [][\A t \in Threads :
       /\ pc[t] = "inside" /\ gen[t] # "none" /\ pc'[t] = "inside"
       /\ Own(t) /\ ~lease.expired
       => lease'.holder = ProcessOf[t]]_vars

\* "No stale reacquired lock is left after the close context exits"
\* (CHANGELOG.md): while no operation fails, no step of anyone leaves a row of
\* a live process that neither a closer nor a renewal will release.
Accounts(t) ==
  \/ pc[t] \in {"publish", "start", "join", "unlease"}
  \/ pc[t] = "inside" /\ gen[t] # "none"
  \/ gen[t] \in {"holding", "late"}

Accounted ==
  \A p \in Processes :
    lease.holder = p => \E t \in Threads : ProcessOf[t] = p /\ Accounts(t)

LeaseAccounted == [][Accounted => Accounted' \/ Failure]_vars

\* Steps that are neither a failure nor a crash.
Regular == \E t \in Threads : Enter(t) \/ Exit(t) \/ Renewal(t)

\* Closing never wedges: whatever died, expired, leaked or comes late, some
\* closer gets in again and again, unless processes keep dying or operations
\* keep failing (by steps that are nothing else).
AlwaysCloses ==
  \/ []<>(Closing # {})
  \/ []<><<Failure /\ ~Regular>>_vars
  \/ []<><<(\E p \in Processes : Crash(p)) /\ ~Regular>>_vars

==============================================================================
