---------------------------- MODULE CloseLockProofs ----------------------------
(***************************************************************************)
(* Theorems about CloseLock, for every set of threads, processes and keys: *)
(* the state is well typed, closers are alone (CloseLock implements        *)
(* CloseMutex), the in-process lock serializes its key, the looks at the   *)
(* renewal generations suffice, a late clean-up harms no later closer, and *)
(* while no operation fails no lease is left behind.                       *)
(*                                                                         *)
(* All but the first rest on Inv.  Its two pillars: whoever has passed the *)
(* kernel lock still holds it, and a process has one generation at a time, *)
(* the published one.                                                      *)
(***************************************************************************)
EXTENDS CloseLock, TLAPS

-----------------------------------------------------------------------------
(* The inductive invariant.                                                *)

\* The kernel lock is held from its acquisition to the end of the exit.
PastOs == {"handoff", "lease", "publish", "start", "inside", "join",
           "unlease", "drop"}

OsOwned == \A t \in Threads : pc[t] \in PastOs => osHolder = t

NothingStale == stale = {}

HoldersInside == \A t \in inproc : pc[t] \notin {"idle", "resolved"}

GenPublished ==
  \A t \in Threads : gen[t] # "none" => published[ProcessOf[t]] = t

StartPublished ==
  \A t \in Threads :
    pc[t] = "start" => /\ published[ProcessOf[t]] = t
                       /\ gen[t] = "none" /\ t \notin stopped

LateIsStopped == \A t \in Threads : gen[t] = "late" => t \in stopped

InsideNotStopped ==
  \A t \in Threads : pc[t] = "inside" /\ gen[t] # "none" => t \notin stopped

Inv ==
  /\ OsOwned /\ HandoffSuffices
  /\ GenPublished /\ StartPublished /\ LateIsStopped /\ InsideNotStopped

LockInv == NothingStale /\ HoldersInside /\ KeyExclusive

-----------------------------------------------------------------------------
(* Type correctness.                                                       *)

\* The database leaves a well-typed row.
LEMMA LeaseWrites ==
  ASSUME TypeOK
  PROVE  /\ NoLease \in Leases
         /\ \A e \in BOOLEAN : [lease EXCEPT !.expired = e] \in Leases
         /\ [lease EXCEPT !.holder = Dead] \in Leases
         /\ \A p \in Processes : /\ Acquire(p) => lease' \in Leases
                                 /\ ReleaseRow(p) => lease' \in Leases
<1>1. /\ lease \in Leases
      /\ lease.holder \in Processes \cup {None, Dead}
      /\ lease.expired \in BOOLEAN
  BY DEF TypeOK, Leases
<1>2. NoLease \in Leases
  BY DEF Leases, NoLease
<1>3. \A e \in BOOLEAN : [lease EXCEPT !.expired = e] \in Leases
  <2>1. \A e \in BOOLEAN :
          [lease EXCEPT !.expired = e]
            = [holder |-> lease.holder, expired |-> e]
    BY <1>1 DEF Leases
  <2> QED BY <1>1, <2>1 DEF Leases
<1>4. [lease EXCEPT !.holder = Dead] \in Leases
  <2>1. [lease EXCEPT !.holder = Dead]
          = [holder |-> Dead, expired |-> lease.expired]
    BY <1>1 DEF Leases
  <2> QED BY <1>1, <2>1 DEF Leases
<1>5. \A p \in Processes : Acquire(p) => lease' \in Leases
  BY DEF Acquire, Taken, Leases
<1>6. \A p \in Processes : ReleaseRow(p) => lease' \in Leases
  BY <1>1, <1>2 DEF ReleaseRow
<1> QED BY <1>2, <1>3, <1>4, <1>5, <1>6

\* A closer that enters keeps the state well typed.
LEMMA EnterType ==
  ASSUME TypeOK, NEW t \in Threads, Enter(t)
  PROVE  TypeOK'
<1> USE ThreadAssumption DEF TypeOK, Controls, Generations, Go, Turn, End,
       renewalVars
<1>1. CASE Request(t)
  BY <1>1 DEF Request
<1>2. CASE LockAcquired(t)
  BY <1>2 DEF LockAcquired
<1>3. CASE LockTimeout(t)
  BY <1>3 DEF LockTimeout
<1>4. CASE Admit(t)
  BY <1>4 DEF Admit
<1>5. CASE AcquireOs(t)
  BY <1>5 DEF AcquireOs
<1>6. CASE OsRefused(t)
  BY <1>6 DEF OsRefused
<1>7. CASE Handoff(t)
  BY <1>7 DEF Handoff
<1>8. CASE LeaseAcquired(t)
  BY <1>8, LeaseWrites DEF LeaseAcquired
<1>9. CASE LeaseRefused(t)
  BY <1>9 DEF LeaseRefused, WithoutLease
<1>10. CASE Publish(t)
  BY <1>10, LeaseWrites DEF Publish, WithoutLease
<1>11. CASE Start(t)
  BY <1>11 DEF Start
<1> QED BY <1>1, <1>2, <1>3, <1>4, <1>5, <1>6, <1>7, <1>8, <1>9, <1>10,
   <1>11 DEF Enter

\* A closer that leaves keeps the state well typed.
LEMMA ExitType ==
  ASSUME TypeOK, NEW t \in Threads, Exit(t)
  PROVE  TypeOK'
<1> USE ThreadAssumption DEF TypeOK, Controls, Generations, Go, Turn, End,
       renewalVars
<1>1. CASE Leave(t)
  BY <1>1 DEF Leave
<1>2. CASE Join(t)
  BY <1>2 DEF Join
<1>3. CASE ReleaseLease(t)
  BY <1>3, LeaseWrites DEF ReleaseLease
<1>4. CASE DropOs(t)
  BY <1>4 DEF DropOs
<1>5. CASE Unlock(t)
  BY <1>5 DEF Unlock
<1>6. CASE Refuse(t)
  BY <1>6 DEF Refuse
<1> QED BY <1>1, <1>2, <1>3, <1>4, <1>5, <1>6 DEF Exit

\* A renewal thread keeps the state well typed.
LEMMA RenewalType ==
  ASSUME TypeOK, NEW t \in Threads, Renewal(t)
  PROVE  TypeOK'
<1> USE ThreadAssumption DEF TypeOK, Controls, Generations, Go, Turn, End,
       renewalVars
<1>1. CASE Wake(t)
  BY <1>1 DEF Wake
<1>2. CASE Renew(t)
  BY <1>2 DEF Renew
<1>3. CASE Lapse(t)
  BY <1>3 DEF Lapse
<1>4. CASE Reacquire(t)
  BY <1>4, LeaseWrites DEF Reacquire
<1>5. CASE Hold(t)
  BY <1>5 DEF Hold
<1>6. CASE LateRelease(t)
  BY <1>6, LeaseWrites DEF LateRelease
<1> QED BY <1>1, <1>2, <1>3, <1>4, <1>5, <1>6 DEF Renewal

\* A failing operation keeps the state well typed.
LEMMA FailsType ==
  ASSUME TypeOK, NEW t \in Threads, Fails(t)
  PROVE  TypeOK'
<1> USE ThreadAssumption DEF TypeOK, Controls, Generations, Go, Turn, End,
       renewalVars
<1>1. CASE OsFails(t) \/ LeaseFails(t) \/ ReleaseFails(t)
  BY <1>1 DEF OsFails, LeaseFails, ReleaseFails, WithoutLease
<1>2. CASE StartFails(t)
  BY <1>2 DEF StartFails
<1>3. CASE RenewFails(t) \/ ReacquireFails(t) \/ LateReleaseFails(t)
  BY <1>3 DEF RenewFails, ReacquireFails, LateReleaseFails
<1> QED BY <1>1, <1>2, <1>3 DEF Fails

\* Everything else keeps it well typed.
LEMMA OtherType ==
  ASSUME TypeOK,
         \/ \E t \in Threads : Collect(t)
         \/ Expire \/ Sweep \/ ReleaseDead
         \/ \E p \in Processes : Crash(p)
         \/ UNCHANGED vars
  PROVE  TypeOK'
<1>1. ASSUME NEW t \in Threads, Collect(t)
      PROVE  TypeOK'
  BY <1>1 DEF Collect, Forget, TypeOK, renewalVars
<1>2. CASE Expire \/ Sweep \/ ReleaseDead
  BY <1>2, LeaseWrites DEF Expire, Sweep, ReleaseDead, TypeOK,
     renewalVars
<1>3. ASSUME NEW p \in Processes, Crash(p)
      PROVE  TypeOK'
  BY <1>3, LeaseWrites DEF Crash, TypeOK, Controls, Generations
<1>4. CASE UNCHANGED vars
  BY <1>4 DEF TypeOK, vars, renewalVars
<1> QED BY <1>1, <1>2, <1>3, <1>4

\* Every step keeps the state well typed.
LEMMA NextType == TypeOK /\ [Next]_vars => TypeOK'
BY EnterType, ExitType, RenewalType, FailsType, OtherType DEF Next, Failure

\* The state is well typed: the lease is held by processes, the kernel lock
\* by threads, and a process publishes one generation or none.
THEOREM Typed == Spec => []TypeOK
<1>1. Init => TypeOK
  BY FailAssumption DEF Init, TypeOK, Controls, Generations, NoLease, Leases
<1> QED BY <1>1, NextType, PTL DEF Spec

-----------------------------------------------------------------------------
(* The invariant.                                                          *)

\* A closer that enters keeps Inv.
LEMMA EnterInv ==
  ASSUME TypeOK, Inv, NEW t \in Threads, Enter(t)
  PROVE  Inv'
<1> USE ThreadAssumption, HolderAssumption DEF TypeOK, Inv, PastOs, OsOwned,
       HandoffSuffices, GenPublished, StartPublished, LateIsStopped,
       InsideNotStopped, Unresolved, Go, Turn, End, renewalVars
<1>1. CASE Request(t)
  BY <1>1 DEF Request
<1>2. CASE LockAcquired(t)
  BY <1>2 DEF LockAcquired
<1>3. CASE LockTimeout(t)
  BY <1>3 DEF LockTimeout
<1>4. CASE Admit(t)
  BY <1>4 DEF Admit
<1>5. CASE AcquireOs(t)
  BY <1>5 DEF AcquireOs
<1>6. CASE OsRefused(t)
  BY <1>6 DEF OsRefused
<1>7. CASE Handoff(t)
  BY <1>7 DEF Handoff
<1>8. CASE LeaseAcquired(t)
  BY <1>8 DEF LeaseAcquired
<1>9. CASE LeaseRefused(t)
  BY <1>9 DEF LeaseRefused, WithoutLease
<1>10. CASE Publish(t)
  BY <1>10 DEF Publish, WithoutLease
<1>11. CASE Start(t)
  BY <1>11 DEF Start
<1> QED BY <1>1, <1>2, <1>3, <1>4, <1>5, <1>6, <1>7, <1>8, <1>9, <1>10,
   <1>11 DEF Enter

\* A closer that leaves keeps Inv.
LEMMA ExitInv ==
  ASSUME TypeOK, Inv, NEW t \in Threads, Exit(t)
  PROVE  Inv'
<1> USE ThreadAssumption, HolderAssumption DEF TypeOK, Inv, PastOs, OsOwned,
       HandoffSuffices, GenPublished, StartPublished, LateIsStopped,
       InsideNotStopped, Unresolved, Go, Turn, End, renewalVars
<1>1. CASE Leave(t)
  BY <1>1 DEF Leave
<1>2. CASE Join(t)
  BY <1>2 DEF Join
<1>3. CASE ReleaseLease(t)
  BY <1>3 DEF ReleaseLease
<1>4. CASE DropOs(t)
  BY <1>4 DEF DropOs
<1>5. CASE Unlock(t)
  BY <1>5 DEF Unlock
<1>6. CASE Refuse(t)
  BY <1>6 DEF Refuse
<1> QED BY <1>1, <1>2, <1>3, <1>4, <1>5, <1>6 DEF Exit

\* A renewal thread keeps Inv.
LEMMA RenewalInv ==
  ASSUME TypeOK, Inv, NEW t \in Threads, Renewal(t)
  PROVE  Inv'
<1> USE ThreadAssumption, HolderAssumption DEF TypeOK, Inv, PastOs, OsOwned,
       HandoffSuffices, GenPublished, StartPublished, LateIsStopped,
       InsideNotStopped, Unresolved, Go, Turn, End, renewalVars
<1>1. CASE Wake(t)
  BY <1>1 DEF Wake
<1>2. CASE Renew(t)
  BY <1>2 DEF Renew
<1>3. CASE Lapse(t)
  BY <1>3 DEF Lapse
<1>4. CASE Reacquire(t)
  BY <1>4 DEF Reacquire
<1>5. CASE Hold(t)
  BY <1>5 DEF Hold
<1>6. CASE LateRelease(t)
  BY <1>6 DEF LateRelease
<1> QED BY <1>1, <1>2, <1>3, <1>4, <1>5, <1>6 DEF Renewal

\* A failing operation keeps Inv.
LEMMA FailsInv ==
  ASSUME TypeOK, Inv, NEW t \in Threads, Fails(t)
  PROVE  Inv'
<1> USE ThreadAssumption, HolderAssumption DEF TypeOK, Inv, PastOs, OsOwned,
       HandoffSuffices, GenPublished, StartPublished, LateIsStopped,
       InsideNotStopped, Unresolved, Go, Turn, End, renewalVars
<1>1. CASE OsFails(t) \/ LeaseFails(t) \/ ReleaseFails(t)
  BY <1>1 DEF OsFails, LeaseFails, ReleaseFails, WithoutLease
<1>2. CASE StartFails(t)
  BY <1>2 DEF StartFails
<1>3. CASE RenewFails(t) \/ ReacquireFails(t) \/ LateReleaseFails(t)
  BY <1>3 DEF RenewFails, ReacquireFails, LateReleaseFails
<1> QED BY <1>1, <1>2, <1>3 DEF Fails

\* Everything else keeps Inv.
LEMMA OtherInv ==
  ASSUME TypeOK, Inv,
         \/ \E t \in Threads : Collect(t)
         \/ Expire \/ Sweep \/ ReleaseDead
         \/ \E p \in Processes : Crash(p)
         \/ UNCHANGED vars
  PROVE  Inv'
<1> USE ThreadAssumption, HolderAssumption
        DEF TypeOK, Inv, PastOs, OsOwned, HandoffSuffices, GenPublished,
            StartPublished, LateIsStopped, InsideNotStopped, Unresolved,
            renewalVars
<1>1. ASSUME NEW t \in Threads, Collect(t)
      PROVE  Inv'
  BY <1>1 DEF Collect
<1>2. CASE Expire \/ Sweep \/ ReleaseDead
  BY <1>2 DEF Expire, Sweep, ReleaseDead
<1>3. ASSUME NEW p \in Processes, Crash(p)
      PROVE  Inv'
  BY <1>3 DEF Crash
<1>4. CASE UNCHANGED vars
  BY <1>4 DEF vars
<1> QED BY <1>1, <1>2, <1>3, <1>4

\* Every step keeps Inv.
LEMMA NextInv == TypeOK /\ Inv /\ [Next]_vars => Inv'
BY EnterInv, ExitInv, RenewalInv, FailsInv, OtherInv DEF Next, Failure

\* Whoever has passed the kernel lock holds it, and the generations of a
\* process follow one another.
THEOREM Invariance == Spec => [](TypeOK /\ Inv)
<1>1. Init => TypeOK
  BY FailAssumption DEF Init, TypeOK, Controls, Generations, NoLease, Leases
<1>2. Init => Inv
  BY DEF Init, Inv, PastOs, OsOwned, HandoffSuffices, GenPublished,
     StartPublished, LateIsStopped, InsideNotStopped
<1> QED BY <1>1, <1>2, NextType, NextInv, PTL DEF Spec

\* No renewal of an earlier closer is at work when a closer publishes its own,
\* so the third look at the generations never refuses.
THEOREM HandoffSufficient == Spec => []HandoffSuffices
<1>1. Inv => HandoffSuffices
  BY DEF Inv
<1> QED BY <1>1, Invariance, PTL

-----------------------------------------------------------------------------
(* The in-process lock.                                                    *)

\* Only an acquisition of the lock object adds a holder, only its release
\* leads back to a state without it, and no lock object becomes stale.
LocksKept ==
  /\ stale' = {}
  /\ \A t \in Threads : (t \in inproc' => t \in inproc) \/ LockAcquired(t)
  /\ \A t \in inproc' : pc'[t] \notin {"idle", "resolved"}

\* Every step keeps the lock objects that way.
LEMMA LockStep ==
  ASSUME TypeOK, LockInv, [Next]_vars
  PROVE  LocksKept
<1> USE DEF TypeOK, LockInv, NothingStale, HoldersInside, Go, renewalVars,
            LocksKept
<1>1. ASSUME NEW t \in Threads, Enter(t)
      PROVE  LocksKept
  <2>1. CASE Request(t) \/ LockAcquired(t) \/ LockTimeout(t)
    BY <2>1 DEF Request, LockAcquired, LockTimeout, LockHeld
  <2>2. CASE \/ Admit(t) \/ AcquireOs(t) \/ OsRefused(t) \/ Handoff(t)
             \/ LeaseAcquired(t) \/ LeaseRefused(t)
    BY <2>2 DEF Admit, AcquireOs, OsRefused, Handoff, LeaseAcquired,
       LeaseRefused, WithoutLease
  <2>3. CASE Publish(t) \/ Start(t)
    BY <2>3 DEF Publish, Start, WithoutLease
  <2> QED BY <1>1, <2>1, <2>2, <2>3 DEF Enter
<1>2. ASSUME NEW t \in Threads, Exit(t)
      PROVE  LocksKept
  <2>1. CASE Leave(t) \/ Join(t) \/ ReleaseLease(t)
    BY <2>1 DEF Leave, Join, ReleaseLease
  <2>2. CASE DropOs(t) \/ Unlock(t) \/ Refuse(t)
    BY <2>2 DEF DropOs, Unlock, Refuse
  <2> QED BY <1>2, <2>1, <2>2 DEF Exit
<1>3. ASSUME NEW t \in Threads, Renewal(t)
      PROVE  LocksKept
  BY <1>3 DEF Renewal, Wake, Renew, Lapse, Reacquire, Hold, LateRelease,
     Turn, End
<1>4. ASSUME NEW t \in Threads, Collect(t)
      PROVE  LocksKept
  BY <1>4 DEF Collect, Referenced, Forget
<1>5. CASE Expire \/ Sweep \/ ReleaseDead \/ UNCHANGED vars
  BY <1>5 DEF Expire, Sweep, ReleaseDead, vars
<1>6. ASSUME NEW p \in Processes, Crash(p)
      PROVE  LocksKept
  BY <1>6 DEF Crash
<1>7. ASSUME NEW t \in Threads, Fails(t)
      PROVE  LocksKept
  BY <1>7 DEF Fails, OsFails, LeaseFails, StartFails, ReleaseFails,
     RenewFails, ReacquireFails, LateReleaseFails,
     Turn, End, WithoutLease
<1> HIDE DEF TypeOK, LockInv, NothingStale, HoldersInside, Go, renewalVars,
             LocksKept
<1> QED BY <1>1, <1>2, <1>3, <1>4, <1>5, <1>6, <1>7 DEF Next, Failure

\* Every step keeps LockInv: a lock object is acquired only when no thread of
\* its key holds it.
LEMMA NextLockInv ==
  ASSUME TypeOK, LockInv, [Next]_vars
  PROVE  LockInv'
<1>1. NothingStale' /\ HoldersInside'
  BY LockStep DEF LocksKept, NothingStale, HoldersInside
<1>2. KeyExclusive'
  <2> SUFFICES ASSUME NEW t \in inproc', NEW u \in inproc', SameKey(t, u)
               PROVE  t = u
    BY DEF KeyExclusive, SameKey
  <2>1. t \in Threads /\ u \in Threads
    BY NextType DEF TypeOK
  <2>2. CASE t \in inproc /\ u \in inproc
    BY <2>2 DEF LockInv, KeyExclusive
  <2>3. ASSUME NEW v \in Threads, LockAcquired(v)
        PROVE  inproc' = inproc \cup {v} /\ \A w \in inproc : ~SameKey(v, w)
    BY <2>3 DEF LockAcquired, LockHeld, SameObject, SameKey, LockInv,
       NothingStale
  <2>4. CASE LockAcquired(t)
    BY <2>1, <2>3, <2>4
  <2>5. CASE LockAcquired(u)
    BY <2>1, <2>3, <2>5 DEF SameKey
  <2> QED BY <2>1, <2>2, <2>4, <2>5, LockStep DEF LocksKept
<1> QED BY <1>1, <1>2 DEF LockInv

\* The in-process lock serializes the callers of one key, although idle lock
\* objects are dropped.
THEOREM KeysExclusive == Spec => []KeyExclusive
<1>1. Init => LockInv /\ TypeOK
  BY FailAssumption DEF Init, LockInv, NothingStale, HoldersInside,
     KeyExclusive, TypeOK, Controls, Generations, NoLease, Leases
<1>2. TypeOK /\ LockInv /\ [Next]_vars => LockInv'
  BY NextLockInv
<1>3. LockInv => KeyExclusive
  BY DEF LockInv
<1> QED BY <1>1, <1>2, <1>3, NextType, PTL DEF Spec

-----------------------------------------------------------------------------
(* Closers are alone.                                                      *)

\* The kernel lock passes from one holder to the next only by being free.
LEMMA OsStep ==
  ASSUME TypeOK, Inv, [Next]_vars
  PROVE  osHolder' = osHolder \/ osHolder = None \/ osHolder' = None
<1>1. ASSUME NEW t \in Threads, Enter(t)
      PROVE  osHolder' = osHolder \/ osHolder = None \/ osHolder' = None
  BY <1>1 DEF Enter, Request, LockAcquired, LockTimeout, Admit, AcquireOs,
     OsRefused, Handoff, LeaseAcquired, LeaseRefused, Publish, Start
<1>2. ASSUME NEW t \in Threads, Exit(t)
      PROVE  osHolder' = osHolder \/ osHolder' = None
  BY <1>2 DEF Exit, Leave, Join, ReleaseLease, DropOs, Unlock, Refuse
<1>3. ASSUME NEW t \in Threads, Renewal(t)
      PROVE  osHolder' = osHolder
  BY <1>3 DEF Renewal, Wake, Renew, Lapse, Reacquire, Hold, LateRelease,
     Turn, End
<1>4. ASSUME NEW t \in Threads, Collect(t)
      PROVE  osHolder' = osHolder
  BY <1>4 DEF Collect
<1>5. CASE Expire \/ Sweep \/ ReleaseDead \/ UNCHANGED vars
  BY <1>5 DEF Expire, Sweep, ReleaseDead, vars
<1>6. ASSUME NEW p \in Processes, Crash(p)
      PROVE  osHolder' = osHolder \/ osHolder' = None
  BY <1>6 DEF Crash
<1>7. ASSUME NEW t \in Threads, Fails(t)
      PROVE  osHolder' = osHolder
  BY <1>7 DEF Fails, OsFails, LeaseFails, StartFails, ReleaseFails,
     RenewFails, ReacquireFails, LateReleaseFails,
     Turn, End
<1> QED BY <1>1, <1>2, <1>3, <1>4, <1>5, <1>6, <1>7 DEF Next, Failure

\* CloseLock implements CloseMutex: closers enter one after the other, whatever
\* becomes of the lease.
THEOREM Exclusion == Spec => MutexSpec
<1>1. Init => Mutex!Init
  BY DEF Init, Mutex!Init, Closing
<1>2. ASSUME TypeOK, Inv, [Next]_vars
      PROVE  [Mutex!Next]_Closing
  <2>1. TypeOK' /\ Inv'
    BY <1>2, NextType, NextInv
  <2>2. Closing \subseteq {osHolder} /\ Closing' \subseteq {osHolder'}
    BY <1>2, <2>1 DEF Inv, OsOwned, PastOs, Closing
  <2>3. None \notin Closing /\ None \notin Closing'
    BY HolderAssumption DEF Closing
  <2>4. CASE Closing' = Closing \/ Closing' = {}
    BY <2>4 DEF Mutex!Next, Mutex!Leave
  <2>5. CASE Closing' # Closing /\ Closing' # {}
    <3>1. Closing' = {osHolder'} /\ osHolder' \in Threads
      BY <2>2, <2>5 DEF Closing
    <3>2. osHolder' = osHolder \/ osHolder = None
      BY <1>2, <2>3, <3>1, OsStep
    <3>3. Closing = {}
      BY <2>2, <2>3, <2>5, <3>1, <3>2
    <3> QED BY <3>1, <3>3 DEF Mutex!Next, Mutex!Enter
  <2> QED BY <2>4, <2>5
<1> QED BY <1>1, <1>2, Invariance, PTL DEF Spec, MutexSpec, Mutex!Spec

-----------------------------------------------------------------------------
(* The late clean-up.                                                      *)

\* The lease of t is its own, has not expired, and is being renewed.
Leased(t) == pc[t] = "inside" /\ gen[t] # "none" /\ Own(t) /\ ~lease.expired

\* A leased row can be neither contested nor swept, and is not of the dead.
LEMMA LeasedRow ==
  ASSUME NEW t \in Threads, Leased(t)
  PROVE  /\ lease.holder = ProcessOf[t] /\ ~Free
         /\ lease.holder # Dead /\ ~lease.expired
BY ThreadAssumption, HolderAssumption DEF Leased, Own, Free

\* Only the closer itself, inside the kernel lock, or a generation of its own
\* process could release the row; the closer is inside, and its generation is
\* the only one of its process and not stopped.
LEMMA LeasedStep ==
  ASSUME TypeOK, Inv, [Next]_vars, NEW t \in Threads, Leased(t),
         pc'[t] = "inside"
  PROVE  lease'.holder = ProcessOf[t]
<1> USE LeasedRow
<1>1. osHolder = t /\ published[ProcessOf[t]] = t /\ t \notin stopped
  BY DEF Leased, Inv, OsOwned, PastOs, GenPublished, InsideNotStopped
<1>2. ASSUME NEW u \in Threads, Enter(u)
      PROVE  lease' = lease
  <2>1. ~Publish(u)
    BY <1>1 DEF Publish, Inv, OsOwned, PastOs, Leased
  <2> QED BY <1>2, <2>1 DEF Enter, Request, LockAcquired, LockTimeout, Admit,
             AcquireOs, OsRefused, Handoff, LeaseAcquired, LeaseRefused,
             Acquire, Start
<1>3. ASSUME NEW u \in Threads, Exit(u)
      PROVE  lease' = lease
  <2>1. ~ReleaseLease(u)
    BY <1>1 DEF ReleaseLease, Inv, OsOwned, PastOs, Leased
  <2> QED BY <1>3, <2>1 DEF Exit, Leave, Join, DropOs, Unlock, Refuse
<1>4. ASSUME NEW u \in Threads, Renewal(u)
      PROVE  lease' = lease
  <2>1. CASE LateRelease(u)
    <3>1. u \in stopped /\ published[ProcessOf[u]] = u
      BY <2>1 DEF LateRelease, Inv, LateIsStopped, GenPublished
    <3>2. ProcessOf[u] # ProcessOf[t]
      BY <1>1, <3>1
    <3> QED BY <2>1, <3>2 DEF LateRelease, ReleaseRow
  <2> QED BY <1>4, <2>1 DEF Renewal, Wake, Renew, Lapse, Reacquire, Acquire,
             Hold
<1>5. ASSUME NEW u \in Threads, Collect(u)
      PROVE  lease' = lease
  BY <1>5 DEF Collect
<1>6. CASE Expire
  <2>1. lease \in Leases
    BY DEF TypeOK
  <2>2. lease'.holder = lease.holder
    BY <1>6, <2>1 DEF Expire, Leases
  <2> QED BY <2>2
<1>7. CASE Sweep \/ ReleaseDead \/ UNCHANGED vars
  BY <1>7 DEF Sweep, ReleaseDead, vars
<1>8. ASSUME NEW p \in Processes, Crash(p)
      PROVE  lease' = lease
  <2>1. p # ProcessOf[t]
    BY <1>8 DEF Crash
  <2> QED BY <1>8, <2>1 DEF Crash
<1>9. ASSUME NEW u \in Threads, Fails(u)
      PROVE  lease' = lease
  BY <1>9 DEF Fails, OsFails, LeaseFails, StartFails, ReleaseFails,
     RenewFails, ReacquireFails, LateReleaseFails
<1> QED BY <1>2, <1>3, <1>4, <1>5, <1>6, <1>7, <1>8, <1>9 DEF Next, Failure

\* The lease of a closer that is inside is not taken away by the late clean-up
\* of an earlier one, although both release by the same holder id.
THEOREM LateReleaseIsHarmless == Spec => LateReleaseHarmless
<1>1. TypeOK /\ Inv /\ [Next]_vars =>
        [\A t \in Threads :
           /\ pc[t] = "inside" /\ gen[t] # "none" /\ pc'[t] = "inside"
           /\ Own(t) /\ ~lease.expired
           => lease'.holder = ProcessOf[t]]_vars
  BY LeasedStep DEF Leased
<1> QED BY <1>1, Invariance, PTL DEF Spec, LateReleaseHarmless

-----------------------------------------------------------------------------
(* No lease is left behind.                                                *)

\* A renewal generation that is not told to stop has its closer inside.
RunningInside ==
  \A t \in Threads : gen[t] # "none" /\ t \notin stopped => pc[t] = "inside"

\* Every step keeps RunningInside: a closer that leaves stops its generation.
LEMMA NextRunning ==
  ASSUME TypeOK, Inv, RunningInside, [Next]_vars
  PROVE  RunningInside'
<1> USE DEF TypeOK, RunningInside, Go, renewalVars
<1>1. ASSUME NEW t \in Threads, Enter(t)
      PROVE  RunningInside'
  <2>1. CASE \/ Request(t) \/ LockAcquired(t) \/ LockTimeout(t) \/ Admit(t)
             \/ AcquireOs(t) \/ OsRefused(t) \/ Handoff(t)
             \/ LeaseAcquired(t) \/ LeaseRefused(t)
    BY <2>1 DEF Request, LockAcquired, LockTimeout, Admit, AcquireOs,
       OsRefused, Handoff, LeaseAcquired, LeaseRefused, WithoutLease
  <2>2. CASE Publish(t)
    <3>1. gen[t] = "none"
      BY <2>2, HolderAssumption
      DEF Publish, Inv, GenPublished, HandoffSuffices, Unresolved
    <3> QED BY <2>2, <3>1 DEF Publish, WithoutLease
  <2>3. CASE Start(t)
    BY <2>3 DEF Start
  <2> QED BY <1>1, <2>1, <2>2, <2>3 DEF Enter
<1>2. ASSUME NEW t \in Threads, Exit(t)
      PROVE  RunningInside'
  BY <1>2 DEF Exit, Leave, Join, ReleaseLease, DropOs, Unlock, Refuse
<1>3. ASSUME NEW t \in Threads, Renewal(t)
      PROVE  RunningInside'
  BY <1>3 DEF Renewal, Wake, Renew, Lapse, Reacquire, Hold, LateRelease,
     Turn, End
<1>4. ASSUME NEW t \in Threads, Collect(t)
      PROVE  RunningInside'
  BY <1>4 DEF Collect
<1>5. CASE Expire \/ Sweep \/ ReleaseDead \/ UNCHANGED vars
  BY <1>5 DEF Expire, Sweep, ReleaseDead, vars
<1>6. ASSUME NEW p \in Processes, Crash(p)
      PROVE  RunningInside'
  BY <1>6 DEF Crash
<1>7. ASSUME NEW t \in Threads, Fails(t)
      PROVE  RunningInside'
  <2>1. CASE StartFails(t)
    BY <2>1 DEF StartFails
  <2>2. CASE \/ OsFails(t) \/ LeaseFails(t) \/ ReleaseFails(t)
             \/ RenewFails(t) \/ ReacquireFails(t) \/ LateReleaseFails(t)
    BY <2>2 DEF OsFails, LeaseFails, ReleaseFails, RenewFails,
       ReacquireFails, LateReleaseFails, Turn, End, WithoutLease
  <2> QED BY <1>7, <2>1, <2>2 DEF Fails
<1> HIDE DEF TypeOK, RunningInside, Go, renewalVars
<1> QED BY <1>1, <1>2, <1>3, <1>4, <1>5, <1>6, <1>7 DEF Next, Failure

\* Whoever accounts for a row of its process goes on to do so as long as the
\* row is there.
LEMMA AccountKept ==
  ASSUME TypeOK, Inv, RunningInside, [Next]_vars, ~Failure,
         NEW t \in Threads, Accounts(t), lease'.holder = ProcessOf[t]
  PROVE  Accounts(t)'
<1> USE ThreadAssumption, HolderAssumption DEF TypeOK, Accounts, Go, renewalVars
<1>0. ~ReleaseRow(ProcessOf[t])
  BY DEF ReleaseRow, NoLease, Leases
<1>1. ASSUME NEW u \in Threads, Enter(u)
      PROVE  Accounts(t)'
  <2>1. CASE \/ Request(u) \/ LockAcquired(u) \/ LockTimeout(u) \/ Admit(u)
             \/ AcquireOs(u) \/ OsRefused(u) \/ Handoff(u)
             \/ LeaseAcquired(u) \/ LeaseRefused(u)
    BY <2>1 DEF Request, LockAcquired, LockTimeout, Admit, AcquireOs,
       OsRefused, Handoff, LeaseAcquired, LeaseRefused, WithoutLease
  <2>2. CASE Publish(u)
    BY <2>2, <1>0 DEF Publish, WithoutLease
  <2>3. CASE Start(u)
    BY <2>3 DEF Start
  <2> QED BY <1>1, <2>1, <2>2, <2>3 DEF Enter
<1>2. ASSUME NEW u \in Threads, Exit(u)
      PROVE  Accounts(t)'
  <2>1. CASE ReleaseLease(u)
    BY <2>1, <1>0 DEF ReleaseLease
  <2>2. CASE Leave(u) \/ Join(u) \/ DropOs(u) \/ Unlock(u) \/ Refuse(u)
    BY <2>2 DEF Leave, Join, DropOs, Unlock, Refuse
  <2> QED BY <1>2, <2>1, <2>2 DEF Exit
<1>3. ASSUME NEW u \in Threads, Renewal(u)
      PROVE  Accounts(t)'
  <2>1. CASE Wake(u) \/ Renew(u) \/ Lapse(u) \/ Reacquire(u)
    BY <2>1 DEF Wake, Renew, Lapse, Reacquire, Turn, End, Inv,
       InsideNotStopped
  <2>2. CASE Hold(u)
    BY <2>2 DEF Hold, Turn, RunningInside
  <2>3. CASE LateRelease(u)
    <3>1. t # u
      BY <2>3, <1>0 DEF LateRelease
    <3> QED BY <2>3, <3>1 DEF LateRelease, End
  <2> QED BY <1>3, <2>1, <2>2, <2>3 DEF Renewal
<1>4. ASSUME NEW u \in Threads, Collect(u)
      PROVE  Accounts(t)'
  BY <1>4 DEF Collect
<1>5. CASE Expire \/ Sweep \/ ReleaseDead \/ UNCHANGED vars
  BY <1>5 DEF Expire, Sweep, ReleaseDead, vars
<1>6. ASSUME NEW p \in Processes, Crash(p)
      PROVE  Accounts(t)'
  <2>1. p # ProcessOf[t]
    <3>1. CASE lease.holder = p
      BY <3>1, <1>6 DEF Crash, Leases
    <3>2. CASE lease.holder # p
      BY <3>2, <1>6 DEF Crash
    <3> QED BY <3>1, <3>2
  <2> QED BY <1>6, <2>1 DEF Crash
<1> HIDE DEF TypeOK, Accounts, Go, renewalVars
<1> QED BY <1>1, <1>2, <1>3, <1>4, <1>5, <1>6 DEF Next

\* A row that was not there before is of a closer or a renewal that took it.
LEMMA NewRowAccounted ==
  ASSUME TypeOK, [Next]_vars, ~Failure, NEW p \in Processes,
         lease'.holder = p, lease.holder # p
  PROVE  \E t \in Threads : ProcessOf[t] = p /\ Accounts(t)'
<1> USE ThreadAssumption, HolderAssumption DEF TypeOK, Accounts, Go, renewalVars
<1>0. \A q \in Processes : ~ReleaseRow(q)
  BY DEF ReleaseRow, NoLease, Leases
<1>1. ASSUME NEW u \in Threads, Enter(u)
      PROVE  ProcessOf[u] = p /\ Accounts(u)'
  <2>1. CASE LeaseAcquired(u)
    BY <2>1 DEF LeaseAcquired, Acquire, Taken
  <2>2. ~LeaseAcquired(u) => lease' = lease
    BY <1>0, <1>1 DEF Enter, Request, LockAcquired, LockTimeout, Admit,
       AcquireOs, OsRefused, Handoff, LeaseRefused, Publish, Start
  <2> QED BY <2>1, <2>2
<1>2. ASSUME NEW u \in Threads, Exit(u)
      PROVE  FALSE
  BY <1>0, <1>2 DEF Exit, Leave, Join, ReleaseLease, DropOs, Unlock, Refuse
<1>3. ASSUME NEW u \in Threads, Renewal(u)
      PROVE  ProcessOf[u] = p /\ Accounts(u)'
  <2>1. CASE Reacquire(u)
    BY <2>1 DEF Reacquire, Acquire, Taken, Turn
  <2>2. ~Reacquire(u) => lease' = lease
    BY <1>0, <1>3 DEF Renewal, Wake, Renew, Lapse, Hold, LateRelease
  <2> QED BY <2>1, <2>2
<1>4. ASSUME NEW u \in Threads, Collect(u)
      PROVE  FALSE
  BY <1>4 DEF Collect
<1>5. ~Expire /\ ~Sweep /\ ~ReleaseDead /\ ~UNCHANGED vars
  BY DEF Expire, Sweep, ReleaseDead, vars, NoLease, Leases
<1>6. ASSUME NEW q \in Processes, Crash(q)
      PROVE  FALSE
  BY <1>6 DEF Crash, Leases
<1> HIDE DEF TypeOK, Accounts, Go, renewalVars
<1> QED BY <1>1, <1>2, <1>3, <1>4, <1>5, <1>6 DEF Next

\* While no operation fails, no row is left that nobody will release.
THEOREM LeasesAccounted == Spec => LeaseAccounted
<1>1. Init => RunningInside
  BY DEF Init, RunningInside
<1>2. TypeOK /\ Inv /\ RunningInside /\ [Next]_vars
        => [Accounted => Accounted' \/ Failure]_vars
  <2> SUFFICES ASSUME TypeOK, Inv, RunningInside, [Next]_vars, ~Failure,
                      Accounted, NEW p \in Processes, lease'.holder = p
               PROVE  \E t \in Threads : ProcessOf[t] = p /\ Accounts(t)'
    BY DEF Accounted
  <2>1. CASE lease.holder # p
    BY <2>1, NewRowAccounted
  <2>2. CASE lease.holder = p
    BY <2>2, AccountKept DEF Accounted
  <2> QED BY <2>1, <2>2
<1> QED BY <1>1, <1>2, NextRunning, Invariance, PTL DEF Spec, LeaseAccounted

==============================================================================
