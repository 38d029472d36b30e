---------------------------- MODULE ShutdownControl ----------------------------
(***************************************************************************)
(* The control file by which the launcher asks one run of a bot to shut    *)
(* down (bot_utils/shutdown_control.py).  publish_shutdown_request replaces *)
(* the file; consume_shutdown_request renames it to a claim of its own,    *)
(* reads the claim and returns the request once.  A claim that could not   *)
(* be read goes back to the file, create-only, or is parked in memory.     *)
(*                                                                         *)
(* Requests are numbered in the order they are published; 0 is no request. *)
(* The path belongs to one run, so one instance of this module is one run. *)
(* consume_shutdown_request may be called by several threads of the bot    *)
(* (it has a lock and claim epochs for that); the bots call it from one.   *)
(***************************************************************************)
EXTENDS Naturals

CONSTANTS
  Consumers,     \* the threads of the bot that consume
  MaxRequests,   \* bound on the requests published
  Invalid        \* requests that name another process or are malformed

ASSUME RequestAssumption == MaxRequests \in Nat /\ Invalid \subseteq (1..MaxRequests)

VARIABLES
  sent,      \* requests published so far
  target,    \* the request in the control file
  pending,   \* _PENDING_CLAIMS: the request of the parked claim
  pc,        \* where each consumer is
  seen,      \* target_identity: what the consumer saw in the control file
  hand,      \* the request whose claim file the consumer owns
  fresh,     \* consumers whose claim epoch is still the newest
  taken,     \* requests returned to the bot
  stranded,  \* requests whose claim file nobody knows of
  trouble    \* may file operations still fail?

consumeVars == <<pc, seen, hand, fresh>>
vars == <<sent, target, pending, pc, seen, hand, fresh, taken, stranded, trouble>>

Requests == 0..MaxRequests

TypeOK ==
  /\ sent \in Requests /\ target \in Requests /\ pending \in Requests
  /\ pc \in [Consumers -> {"idle", "seen", "held", "restore"}]
  /\ seen \in [Consumers -> Requests] /\ hand \in [Consumers -> Requests]
  /\ fresh \subseteq Consumers
  /\ taken \subseteq 1..MaxRequests /\ stranded \subseteq 1..MaxRequests
  /\ trouble \in BOOLEAN

-----------------------------------------------------------------------------
(* The launcher.                                                           *)

\* os.replace puts the new request in place of an unread one.
Publish ==
  /\ sent < MaxRequests
  /\ sent' = sent + 1
  /\ target' = sent + 1
  /\ UNCHANGED <<pending, consumeVars, taken, stranded, trouble>>

-----------------------------------------------------------------------------
(* consume_shutdown_request: the section under _PENDING_CLAIMS_LOCK.  Only *)
(* the launcher can step between the look at the file and the rename.      *)

Unlocked == \A c \in Consumers : pc[c] # "seen"

Look(c) ==
  /\ pc[c] = "idle" /\ Unlocked
  /\ pc' = [pc EXCEPT ![c] = "seen"]
  /\ seen' = [seen EXCEPT ![c] = target]
  /\ UNCHANGED <<sent, target, pending, hand, fresh, taken, stranded, trouble>>

ClaimKeepingPending(c) ==  \* faulty variant: a parked claim survives
  /\ pc[c] = "seen" /\ target # 0
  /\ pc' = [pc EXCEPT ![c] = "held"]
  /\ hand' = [hand EXCEPT ![c] = target]
  /\ target' = 0 /\ UNCHANGED pending /\ fresh' = {c}
  /\ UNCHANGED <<sent, seen, taken, stranded, trouble>>

\* The acquisition: a new epoch, and a parked claim is obsolete.
Claim(c) ==
  /\ pc[c] = "seen" /\ target # 0
  /\ pc' = [pc EXCEPT ![c] = "held"]
  /\ hand' = [hand EXCEPT ![c] = target]
  /\ target' = 0 /\ pending' = 0 /\ fresh' = {c}
  /\ UNCHANGED <<sent, seen, taken, stranded, trouble>>

ClaimParkedForgotten(c) ==  \* faulty variant: the parked claim is forgotten
  /\ pc[c] = "seen" /\ target = 0 /\ pending # 0
  /\ pc' = [pc EXCEPT ![c] = "idle"]
  /\ UNCHANGED <<sent, target, pending, seen, hand, fresh, taken, stranded, trouble>>

\* No file: the parked claim is taken up again.
ClaimParked(c) ==
  /\ pc[c] = "seen" /\ target = 0 /\ pending # 0
  /\ pc' = [pc EXCEPT ![c] = "held"]
  /\ hand' = [hand EXCEPT ![c] = pending]
  /\ pending' = 0 /\ fresh' = fresh \cup {c}
  /\ UNCHANGED <<sent, target, seen, taken, stranded, trouble>>

ClaimNothing(c) ==
  /\ pc[c] = "seen" /\ target = 0 /\ pending = 0
  /\ pc' = [pc EXCEPT ![c] = "idle"]
  /\ UNCHANGED <<sent, target, pending, seen, hand, fresh, taken, stranded, trouble>>

\* The rename fails and the file is where it was.
ClaimRefused(c) ==
  /\ trouble /\ pc[c] = "seen" /\ target # 0
  /\ pc' = [pc EXCEPT ![c] = "idle"]
  /\ UNCHANGED <<sent, target, pending, seen, hand, fresh, taken, stranded, trouble>>

\* The rename took effect and raised.  The claim is parked when it is the file
\* that was looked at before; the claim of a file published since then is not
\* recognized, and nobody will read it.
ClaimInterrupted(c) ==
  /\ trouble /\ pc[c] = "seen" /\ target # 0
  /\ pc' = [pc EXCEPT ![c] = "idle"]
  /\ target' = 0
  /\ IF seen[c] = target
     THEN pending' = target /\ fresh' = {} /\ UNCHANGED stranded
     ELSE stranded' = stranded \cup {target} /\ UNCHANGED <<pending, fresh>>
  /\ UNCHANGED <<sent, seen, hand, taken, trouble>>

-----------------------------------------------------------------------------
(* consume_shutdown_request: reading the claim, and its ways out.          *)

LetGo(c) ==
  /\ pc' = [pc EXCEPT ![c] = "idle"]
  /\ hand' = [hand EXCEPT ![c] = 0]

Deliver(c) ==
  /\ pc[c] = "held" /\ hand[c] \notin Invalid
  /\ taken' = taken \cup {hand[c]}
  /\ LetGo(c)
  /\ UNCHANGED <<sent, target, pending, seen, fresh, stranded, trouble>>

\* A request of another process, or no request at all, is consumed as well.
Discard(c) ==
  /\ pc[c] = "held" /\ hand[c] \in Invalid
  /\ LetGo(c)
  /\ UNCHANGED <<sent, target, pending, seen, fresh, taken, stranded, trouble>>

\* The request was judged and the interruption comes afterwards.
ReadInterrupted(c) ==
  /\ trouble /\ pc[c] = "held"
  /\ pc' = [pc EXCEPT ![c] = "restore"]
  /\ UNCHANGED <<sent, target, pending, seen, hand, fresh, taken, stranded, trouble>>

-----------------------------------------------------------------------------
(* _restore_claim_for_retry, under the same lock.                          *)

\* A newer claim was acquired, or a newer request is in the file: create-only
\* linking fails, and the claim is dropped.
RestoreSuperseded(c) ==
  /\ pc[c] = "restore" /\ Unlocked
  /\ c \notin fresh \/ target # 0
  /\ LetGo(c)
  /\ UNCHANGED <<sent, target, pending, seen, fresh, taken, stranded, trouble>>

RestoreLinked(c) ==
  /\ pc[c] = "restore" /\ Unlocked
  /\ c \in fresh /\ target = 0
  /\ target' = hand[c]
  /\ LetGo(c)
  /\ UNCHANGED <<sent, pending, seen, fresh, taken, stranded, trouble>>

\* Neither of two attempts could link: the claim is parked in memory.
RestoreParked(c) ==
  /\ trouble /\ pc[c] = "restore" /\ Unlocked
  /\ c \in fresh
  /\ pending' = hand[c]
  /\ LetGo(c)
  /\ UNCHANGED <<sent, target, seen, fresh, taken, stranded, trouble>>

TroubleEnds ==
  /\ trouble /\ trouble' = FALSE
  /\ UNCHANGED <<sent, target, pending, consumeVars, taken, stranded>>

-----------------------------------------------------------------------------

Init ==
  /\ sent = 0 /\ target = 0 /\ pending = 0
  /\ pc = [c \in Consumers |-> "idle"]
  /\ seen = [c \in Consumers |-> 0] /\ hand = [c \in Consumers |-> 0]
  /\ fresh = {} /\ taken = {} /\ stranded = {} /\ trouble = TRUE

Acquire(c) ==
  Look(c) \/ Claim(c) \/ ClaimParked(c) \/ ClaimNothing(c)

Finish(c) ==
  \/ Deliver(c) \/ Discard(c)
  \/ RestoreSuperseded(c) \/ RestoreLinked(c) \/ RestoreParked(c)

Interrupt(c) == ClaimRefused(c) \/ ClaimInterrupted(c) \/ ReadInterrupted(c)

Next ==
  \/ Publish \/ TroubleEnds
  \/ \E c \in Consumers : Acquire(c) \/ Finish(c) \/ Interrupt(c)

Spec == Init /\ [][Next]_vars

\* The main loop of a bot polls again and again, and trouble ends.  Polls are
\* seconds apart, so they do not keep the lock from a thread that restores.
FairSpec ==
  /\ Spec /\ WF_vars(TroubleEnds)
  /\ \A c \in Consumers : WF_vars(Acquire(c)) /\ SF_vars(Finish(c))

-----------------------------------------------------------------------------
(* Properties.                                                             *)

\* Claim files in existence: requests in hand.
InHand == {hand[c] : c \in {d \in Consumers : pc[d] \in {"held", "restore"}}}

Mailbox == INSTANCE RequestMailbox

\* With one consuming thread, as in the bots, the file is a mailbox: whatever
\* is interrupted, no request reaches the bot twice, or after a newer one.
MailboxSpec == Mailbox!Spec

\* "Oversized, malformed, or identity-invalid requests ... must be consumed
\* exactly once": a request that does not name this process is not obeyed, and
\* no request is returned by two calls, also with several threads.
OnceAndOnlyMine ==
  /\ taken \cap Invalid = {}
  /\ taken \cap (InHand \cup {target, pending}) = {}

\* "An older restore cannot be registered after this generation has been
\* consumed": no thread acquires a request older than one that any thread
\* holds or has returned.
AcquiresForward ==
  [][\A c \in Consumers :
       pc[c] = "seen" /\ pc'[c] = "held" =>
         \A n \in taken \cup {hand[d] : d \in {e \in Consumers :
                                                 pc[e] \in {"held", "restore"}}} :
           n < hand'[c]]_vars

\* "A read/runtime interruption is not evidence that the exact request is
\* invalid. Restore it": the newest request is in the file, parked, in a
\* thread's hands or returned, and was not replaced by an older one.  Only a
\* rename that took effect and raised, on a file published behind the look,
\* strands it.
NewestKept ==
  sent > 0 /\ sent \notin Invalid =>
    sent \in taken \cup InHand \cup {target, pending} \cup stranded

\* The last request of the launcher is obeyed in the end, unless it is stranded.
LatestObeyed ==
  \A n \in (1..MaxRequests) \ Invalid :
    []((sent = n) => <>(n \in taken \cup stranded \/ sent > n))

===============================================================================
