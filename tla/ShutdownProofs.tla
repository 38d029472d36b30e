---------------------------- MODULE ShutdownProofs ----------------------------
(***************************************************************************)
(* Theorems about ShutdownControl, for every set of consuming threads, any *)
(* number of requests and renames that may fail after taking effect.       *)
(***************************************************************************)
EXTENDS ShutdownControl, TLAPS

Holding(c) == pc[c] \in {"held", "restore"}

\* Every request somewhere has been published, and what was returned is valid.
Published ==
  /\ target <= sent /\ pending <= sent
  /\ taken \subseteq 1..sent /\ taken \cap Invalid = {}
  /\ \A c \in Consumers : Holding(c) => hand[c] \in 1..sent

\* A request is at one place.
Apart ==
  \A c \in Consumers : Holding(c) =>
    /\ hand[c] \notin taken
    /\ \A d \in Consumers \ {c} : Holding(d) => hand[d] # hand[c]

\* n is newer than what was returned and than what the others hold.
Newer(n, others) ==
  /\ \A k \in taken : k < n
  /\ \A d \in others : Holding(d) => hand[d] < n

\* What can be acquired or restored is newer than everything acquired before;
\* that is what the claim epochs are for.
Ordered ==
  /\ target # 0 => Newer(target, Consumers)
  /\ pending # 0 => Newer(pending, Consumers)
  /\ target # 0 /\ pending # 0 => pending < target
  /\ \A c \in fresh : Holding(c) => Newer(hand[c], Consumers \ {c})
  /\ \A c \in fresh : Holding(c) => pending = 0

\* Only acquisitions make a claim stale: a lone thread's never is, nor is the
\* claim of the newest request.
StillFresh ==
  \A c \in Consumers :
    Holding(c) /\ (Consumers = {c} \/ hand[c] = sent) => c \in fresh

Inv == TypeOK /\ Published /\ Apart /\ Ordered /\ StillFresh

LEMMA InitInv == Init => Inv
<1> USE RequestAssumption
<1> SUFFICES ASSUME Init PROVE Inv
  OBVIOUS
<1>1. \A c \in Consumers : ~Holding(c)
  BY DEF Init, Holding
<1> QED
  BY <1>1 DEF Init, Inv, TypeOK, Published, Apart, Ordered, StillFresh, Requests

LEMMA StepInv == ASSUME Inv, [Next]_vars PROVE Inv'
<1> USE RequestAssumption
        DEF Inv, TypeOK, Published, Apart, Ordered, StillFresh, Newer, Holding,
            Requests
<1>1. CASE Publish
  BY <1>1 DEF Publish, consumeVars
<1>2. CASE TroubleEnds
  BY <1>2 DEF TroubleEnds, consumeVars
<1>3. ASSUME NEW c \in Consumers, Acquire(c) PROVE Inv'
  <2>1. CASE Look(c)
    BY <2>1 DEF Look
  <2>2. CASE Claim(c)
    BY <2>2 DEF Claim
  <2>3. CASE ClaimParked(c)
    BY <2>3 DEF ClaimParked
  <2>4. CASE ClaimNothing(c)
    BY <2>4 DEF ClaimNothing
  <2> QED
    BY <1>3, <2>1, <2>2, <2>3, <2>4 DEF Acquire
<1>4. ASSUME NEW c \in Consumers, Finish(c) PROVE Inv'
  <2>1. CASE Deliver(c)
    <3>1. /\ hand[c] \in 1..sent /\ hand[c] \notin Invalid /\ hand[c] \in 1..MaxRequests
          /\ taken' = taken \cup {hand[c]}
          /\ pc' = [pc EXCEPT ![c] = "idle"] /\ hand' = [hand EXCEPT ![c] = 0]
          /\ UNCHANGED <<sent, target, pending, seen, fresh, stranded, trouble>>
      BY <2>1 DEF Deliver, LetGo
    <3>2. pc[c] = "held" /\ ~Holding(c)'
          /\ \A d \in Consumers \ {c} : /\ Holding(d)' <=> Holding(d)
                                       /\ hand'[d] = hand[d]
      BY <2>1, <3>1 DEF Deliver
    <3>3. TypeOK' /\ Published'
      <4>1. taken' \subseteq 1..sent /\ taken' \cap Invalid = {}
            /\ taken' \subseteq 1..MaxRequests
        BY <3>1
      <4> QED
        BY <3>1, <3>2, <4>1
    <3>4. Apart' /\ StillFresh'
      BY <3>1, <3>2
    <3>5. Ordered'
      <4>1. target # 0 => Newer(target, Consumers)'
        BY <3>1, <3>2
      <4>2. pending # 0 => Newer(pending, Consumers)'
        BY <3>1, <3>2
      <4>3. \A d \in fresh : Holding(d)' => Newer(hand[d], Consumers \ {d})'
        BY <3>1, <3>2
      <4> QED
        BY <3>1, <3>2, <4>1, <4>2, <4>3
    <3> QED
      BY <3>3, <3>4, <3>5
  <2>2. CASE Discard(c)
    BY <2>2 DEF Discard, LetGo
  <2>3. CASE RestoreSuperseded(c)
    BY <2>3 DEF RestoreSuperseded, LetGo
  <2>4. CASE RestoreLinked(c)
    BY <2>4 DEF RestoreLinked, LetGo
  <2>5. CASE RestoreParked(c)
    BY <2>5 DEF RestoreParked, LetGo
  <2> QED
    BY <1>4, <2>1, <2>2, <2>3, <2>4, <2>5 DEF Finish
<1>5. ASSUME NEW c \in Consumers, Interrupt(c) PROVE Inv'
  <2>1. CASE ClaimRefused(c)
    BY <2>1 DEF ClaimRefused
  <2>2. CASE ClaimInterrupted(c)
    <3>1. /\ target \in 1..sent /\ target \in 1..MaxRequests /\ target' = 0
          /\ UNCHANGED <<sent, seen, hand, taken, trouble>>
          /\ \A d \in Consumers : Holding(d)' <=> Holding(d)
      BY <2>2 DEF ClaimInterrupted
    <3>2. /\ stranded' \subseteq 1..MaxRequests
          /\ pc' \in [Consumers -> {"idle", "seen", "held", "restore"}]
      <4>1. stranded' \in {stranded, stranded \cup {target}}
        BY <2>2 DEF ClaimInterrupted
      <4>2. pc' = [pc EXCEPT ![c] = "idle"]
        BY <2>2 DEF ClaimInterrupted
      <4> QED
        BY <3>1, <4>1, <4>2
    <3>3. CASE pending' = target /\ fresh' = {} /\ seen[c] = target
      <4>1. TypeOK' /\ Published' /\ Apart'
        BY <3>1, <3>2, <3>3
      <4>2. Ordered'
        BY <3>1, <3>3
      <4>3. ~Holding(c) /\ \A d \in Consumers : Holding(d) => hand[d] < sent
        BY <2>2, <3>1 DEF ClaimInterrupted
      <4>4. StillFresh'
        BY <3>1, <3>3, <4>3
      <4> QED
        BY <4>1, <4>2, <4>4
    <3>4. CASE UNCHANGED <<pending, fresh>>
      BY <3>1, <3>2, <3>4
    <3> QED
      BY <2>2, <3>3, <3>4 DEF ClaimInterrupted
  <2>3. CASE ReadInterrupted(c)
    BY <2>3 DEF ReadInterrupted
  <2> QED
    BY <1>5, <2>1, <2>2, <2>3 DEF Interrupt
<1>6. CASE UNCHANGED vars
  BY <1>6 DEF vars
<1> QED
  BY <1>1, <1>2, <1>3, <1>4, <1>5, <1>6 DEF Next

LEMMA Invariance == Spec => []Inv
BY InitInv, StepInv, PTL DEF Spec

\* Every reachable state is well typed, for any threads and any number of
\* requests (publish_shutdown_request, consume_shutdown_request).
THEOREM TypeCorrect == Spec => []TypeOK
BY Invariance, PTL DEF Inv

\* No call of consume_shutdown_request returns a request of another process, or
\* one that was returned before, whichever thread is interrupted where.
THEOREM OnceAndMine == Spec => []OnceAndOnlyMine
<1>1. Inv => OnceAndOnlyMine
  BY DEF Inv, TypeOK, Published, Apart, Ordered, Newer, Holding, OnceAndOnlyMine,
         InHand, Requests
<1> QED
  BY <1>1, Invariance, PTL

\* The newest valid request is not lost and not overwritten by a restoration;
\* at worst its claim is stranded by a rename that took effect and raised.
THEOREM NewestIsKept == Spec => []NewestKept
<1> USE RequestAssumption
<1>1. Init => NewestKept
  BY DEF Init, NewestKept
<1>2. ASSUME Inv, NewestKept, [Next]_vars PROVE NewestKept'
  <2> USE <1>2 DEF Inv, TypeOK, Published, Ordered, StillFresh, Newer, Holding,
               Requests, NewestKept, InHand
  <2>1. CASE Publish
    BY <2>1 DEF Publish
  <2>2. CASE TroubleEnds \/ UNCHANGED vars
    BY <2>2 DEF TroubleEnds, consumeVars, vars
  <2>3. ASSUME NEW c \in Consumers, Acquire(c) PROVE NewestKept'
    BY <2>3 DEF Acquire, Look, Claim, ClaimParked, ClaimNothing
  <2>4. ASSUME NEW c \in Consumers, Finish(c) PROVE NewestKept'
    BY <2>4 DEF Finish, Deliver, Discard, RestoreSuperseded, RestoreLinked,
                RestoreParked, LetGo
  <2>5. ASSUME NEW c \in Consumers, Interrupt(c) PROVE NewestKept'
    BY <2>5 DEF Interrupt, ClaimRefused, ClaimInterrupted, ReadInterrupted
  <2> QED
    BY <1>2, <2>1, <2>2, <2>3, <2>4, <2>5 DEF Next
<1> QED
  BY <1>1, <1>2, Invariance, PTL DEF Spec

\* A thread never acquires a request that is not newer than all that any thread
\* holds or has returned: the claim epochs and the order of file and parked
\* claim suffice.
THEOREM AcquiringForward == Spec => AcquiresForward
<1>1. Inv /\ [Next]_vars =>
        [\A c \in Consumers :
           pc[c] = "seen" /\ pc'[c] = "held" =>
             \A n \in taken \cup {hand[d] : d \in {e \in Consumers :
                                                 pc[e] \in {"held", "restore"}}} :
               n < hand'[c]]_vars
  <2> SUFFICES ASSUME Inv, Next, NEW c \in Consumers, pc[c] = "seen",
                      pc'[c] = "held"
               PROVE \A n \in taken \cup {hand[d] : d \in {e \in Consumers :
                                                 pc[e] \in {"held", "restore"}}} :
                       n < hand'[c]
    OBVIOUS
  <2>1. Claim(c) \/ ClaimParked(c)
    BY DEF Inv, TypeOK, Next, Publish, TroubleEnds, consumeVars, Acquire, Finish,
           Interrupt, Look, Claim, ClaimParked, ClaimNothing, ClaimRefused,
           ClaimInterrupted, ReadInterrupted, Deliver, Discard,
           RestoreSuperseded, RestoreLinked, RestoreParked, LetGo
  <2> QED
    BY <2>1 DEF Claim, ClaimParked, Inv, TypeOK, Ordered, Newer, Holding, Requests
<1> QED
  BY <1>1, Invariance, PTL DEF Spec, AcquiresForward

\* The steps of a lone thread are those of a mailbox.
LEMMA MailboxStep ==
  ASSUME Inv, [Next]_vars, \E c \in Consumers : Consumers = {c}
  PROVE [Mailbox!Next]_(Mailbox!vars)
<1> USE RequestAssumption DEF Mailbox!Next, Mailbox!vars, Mailbox!Send, Mailbox!Take
<1>1. CASE Publish
  BY <1>1 DEF Publish, Inv, TypeOK, Requests
<1>2. ASSUME NEW c \in Consumers, Deliver(c) PROVE Mailbox!Next
  <2>1. c \in fresh
    BY <1>2 DEF Deliver, Inv, StillFresh, Holding
  <2>2. hand[c] \in 1..sent /\ \A k \in taken : k < hand[c]
    BY <1>2, <2>1 DEF Deliver, Inv, Published, Ordered, Newer, Holding
  <2> QED
    BY <1>2, <2>2 DEF Deliver
<1>3. CASE UNCHANGED <<sent, taken>>
  BY <1>3
<1>4. ASSUME NEW c \in Consumers, Acquire(c) \/ Interrupt(c)
      PROVE UNCHANGED <<sent, taken>>
  BY <1>4 DEF Acquire, Interrupt, Look, Claim, ClaimParked, ClaimNothing,
              ClaimRefused, ClaimInterrupted, ReadInterrupted
<1>5. ASSUME NEW c \in Consumers, Finish(c), ~Deliver(c)
      PROVE UNCHANGED <<sent, taken>>
  BY <1>5 DEF Finish, Discard, RestoreSuperseded, RestoreLinked, RestoreParked
<1>6. CASE TroubleEnds \/ UNCHANGED vars
  BY <1>6, <1>3 DEF TroubleEnds, vars
<1> QED
  BY <1>1, <1>2, <1>3, <1>4, <1>5, <1>6 DEF Next

\* For a bot with one polling thread the control file implements RequestMailbox:
\* each request reaches it at most once and never after a newer one.
THEOREM ImplementsMailbox ==
  ASSUME \E c \in Consumers : Consumers = {c}
  PROVE Spec => MailboxSpec
<1>1. Init => Mailbox!Init
  BY DEF Init, Mailbox!Init
<1>2. Inv /\ [Next]_vars => [Mailbox!Next]_(Mailbox!vars)
  BY MailboxStep
<1> QED
  BY <1>1, <1>2, Invariance, PTL DEF Spec, MailboxSpec, Mailbox!Spec

===============================================================================
