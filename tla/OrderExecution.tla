---------------------------- MODULE OrderExecution ----------------------------
(***************************************************************************)
(* One live entry intent from its PREPARED journal row to FINALIZED:       *)
(*                                                                         *)
(*   journal   the order_intents row (core/database.py)                    *)
(*   pc        execute_entry_order in the scan thread, as market order or  *)
(*             as maker order with an optional market fallback             *)
(*   snapshot  recover_nonterminal_order_intents in the reconcile thread   *)
(*             (trading/entry_executor.py), which works on the row it read *)
(*   order     the two orders on the venue (external)                      *)
(*                                                                         *)
(* A journal transition is one SQLite transaction.  What a thread has      *)
(* decided to write is its todo list; between two transactions the other   *)
(* thread, the venue, a crash or a failing transaction may intervene.      *)
(* Fills are counted in lots; notional and fee always come with a fill.    *)
(* Malformed venue responses and time-outs are an exception (CallFails).   *)
(***************************************************************************)
EXTENDS Integers, Sequences, FiniteSetsExt

CONSTANT Target    \* lots the intent asks for

ASSUME TargetAssumption == Target \in Nat \ {0}

Legs == {"primary", "fallback"}
Actors == {"executor", "recovery"}
Statuses == {"PREPARED", "SUBMITTING", "OPEN", "PARTIAL", "CANCELING",
             "CANCELED", "FALLBACK_SUBMITTING", "FILLED",
             "RECOVERY_REQUIRED", "FINALIZED"}
Ids == Legs \cup {"none"}
Keep == -1      \* the transition does not state a filled amount
Lots == 0..Target

Journals == [status : Statuses, filled : Lots, fbFilled : Lots,
             fbId : BOOLEAN, id : Ids]
Orders == [state : {"none", "inflight", "live", "filled", "canceled", "lost"},
           size : Lots, filled : Lots]
Writes == [to : Statuses \cup {"EVIDENCE"}, filled : Lots \cup {Keep}, id : Ids]
Plans == [steps : Seq(Writes), mark : BOOLEAN]
Controls == {"start", "submit", "sent", "refresh", "cancel", "verify",
             "fallback", "fallback_sent", "done", "crashed"}
Evidence == {"none", "negative", "other"}

VARIABLES
  journal, pc, todo,
  seen,       \* maker fill the executor knows
  snapshot,   \* the row a recovery pass works on, <<>> outside a pass
  evidence,   \* what a lookup of the pass showed, until it is recorded
  quorum,     \* complete negative lookups recorded in a row
  order,
  ripe,       \* the intent is at least 60 s old
  outage      \* transactions may raise and lookups may be incomplete

vars == <<journal, pc, todo, seen, snapshot, evidence, quorum, order, ripe,
          outage>>
venueVars == <<order, ripe, outage>>
recoveryVars == <<snapshot, evidence, quorum>>

TypeOK ==
  /\ journal \in Journals
  /\ pc \in Controls
  /\ seen \in Lots
  /\ todo \in [Actors -> Plans]
  /\ snapshot \in Journals \cup {<<>>}
  /\ evidence \in Evidence
  /\ quorum \in 0..2
  /\ ripe \in BOOLEAN /\ outage \in BOOLEAN
  /\ order \in [Legs -> Orders]

-----------------------------------------------------------------------------
(* The journal.                                                            *)

Allowed(from) ==
  CASE from = "PREPARED" -> {"SUBMITTING", "RECOVERY_REQUIRED"}
    [] from = "SUBMITTING" -> {"OPEN", "PARTIAL", "FILLED", "RECOVERY_REQUIRED"}
    [] from \in {"OPEN", "PARTIAL"} ->
         {"CANCELING", "PARTIAL", "FILLED", "RECOVERY_REQUIRED"}
    [] from = "CANCELING" -> {"CANCELED", "RECOVERY_REQUIRED"}
    [] from = "CANCELED" ->
         {"FALLBACK_SUBMITTING", "FINALIZED", "RECOVERY_REQUIRED"}
    [] from = "FALLBACK_SUBMITTING" -> {"FILLED", "RECOVERY_REQUIRED"}
    [] from = "FILLED" -> {"FINALIZED", "RECOVERY_REQUIRED"}
    [] from = "RECOVERY_REQUIRED" -> {"PARTIAL", "CANCELED", "FILLED"}
    [] OTHER -> {}

Write(to) == [to |-> to, filled |-> Keep, id |-> "none"]
WriteFill(to, f) == [to |-> to, filled |-> f, id |-> "none"]
WriteOrder(to, f, leg) == [to |-> to, filled |-> f, id |-> leg]
Recover == Write("RECOVERY_REQUIRED")
Finish == Write("FINALIZED")
Nothing == [steps |-> <<>>, mark |-> FALSE]

Effective(w) == IF w.filled = Keep THEN journal.filled ELSE w.filled
LargerOf(x, y) == IF x > y THEN x ELSE y

\* Faulty variant: a smaller cumulative fill overwrites the recorded one.
AdmissibleDecreasing(w) ==
  IF w.to = "EVIDENCE"
  THEN /\ journal.status \in {"FALLBACK_SUBMITTING", "RECOVERY_REQUIRED"}
       /\ journal.fbId
  ELSE w.to \in Allowed(journal.status)

\* The checks of transition_order_intent, and of the fallback evidence.
Admissible(w) ==
  IF w.to = "EVIDENCE"
  THEN /\ journal.status \in {"FALLBACK_SUBMITTING", "RECOVERY_REQUIRED"}
       /\ journal.fbId
  ELSE LET f == Effective(w)
       IN /\ w.to \in Allowed(journal.status)
          /\ f >= journal.filled
          /\ w.id \notin {"none", journal.id} /\ journal.id # "none"
               => w.to = "FILLED" /\ journal.fbId
          /\ w.to = "PARTIAL" => f > 0 /\ f < Target
          /\ w.to = "FILLED" => f = Target /\ {w.id, journal.id} # {"none"}
          /\ w.to = "FINALIZED" /\ journal.status = "FILLED" => f = Target

Transition(w) ==
  [journal EXCEPT
     !.status = w.to,
     !.filled = Effective(w),
     !.id = IF w.id = "none" THEN journal.id ELSE w.id,
     !.fbId = journal.fbId \/ w.to = "FALLBACK_SUBMITTING"]

\* Faulty variant: the evidence is added again each time it is recorded.
MergedTwice(w) ==
  [journal EXCEPT
     !.status = "RECOVERY_REQUIRED",
     !.fbFilled = LargerOf(journal.fbFilled, w.filled),
     !.filled = journal.filled + w.filled]

\* record_order_intent_fallback_evidence: cumulative, and part of the total.
Merged(w) ==
  LET fallback == LargerOf(journal.fbFilled, w.filled)
  IN [journal EXCEPT !.status = "RECOVERY_REQUIRED",
                     !.fbFilled = fallback,
                     !.filled = journal.filled - journal.fbFilled + fallback]

-----------------------------------------------------------------------------
(* A thread applies the next write it decided on.                          *)

Ready(a) == todo[a].steps = <<>>
Decide(a, steps, mark) ==
  todo' = [todo EXCEPT ![a] = [steps |-> steps, mark |-> mark]]

\* After an error the rest of the plan is dropped; RECOVERY_REQUIRED is tried
\* once, and the executor has left its procedure.
Abandon(a, mark) ==
  /\ Decide(a, IF mark THEN <<Recover>> ELSE <<>>, FALSE)
  /\ pc' = IF a = "executor" THEN "done" ELSE pc

Apply(a) ==
  LET plan == todo[a]
      w == Head(plan.steps)
  IN /\ ~Ready(a) /\ w.to # "EVIDENCE"
     /\ Admissible(w)
     /\ journal' = Transition(w)
     /\ Decide(a, Tail(plan.steps), plan.mark)
     /\ UNCHANGED <<pc, seen, recoveryVars, venueVars>>

\* The aggregate may be finalized once the fallback covers the residual.
RecordFallback(a) ==
  LET w == Head(todo[a].steps)
  IN /\ ~Ready(a) /\ w.to = "EVIDENCE"
     /\ Admissible(w)
     /\ journal' = Merged(w)
     /\ Decide(a, IF Merged(w).filled = Target
                  THEN <<WriteOrder("FILLED", Target, "fallback"), Finish>>
                  ELSE <<>>, TRUE)
     /\ UNCHANGED <<pc, seen, recoveryVars, venueVars>>

Refused(a) ==
  /\ ~Ready(a) /\ ~Admissible(Head(todo[a].steps))
  /\ Abandon(a, todo[a].mark)
  /\ UNCHANGED <<journal, seen, recoveryVars, venueVars>>

\* Recovery catches only the journal's refusals: any other error ends its pass.
TransactionFails(a) ==
  /\ outage /\ ~Ready(a)
  /\ Abandon(a, todo[a].mark /\ a = "executor")
  /\ UNCHANGED <<journal, seen, recoveryVars, venueVars>>

-----------------------------------------------------------------------------
(* execute_entry_order.                                                    *)

At(c) == pc = c /\ Ready("executor")

\* A proven non-submission resolves the intent with the fill known before it.
NotSubmitted(f) ==
  <<Recover, WriteFill("CANCELED", f),
    WriteFill("FINALIZED", IF f = 0 THEN 0 ELSE Keep)>>

Submit(leg, size) ==
  order' = [order EXCEPT ![leg] = [state |-> "inflight", size |-> size,
                                   filled |-> 0]]

\* The pre-submit guard, the API budget or the order book refuses the order.
Blocked ==
  /\ \E c \in {"start", "submit", "fallback"} : At(c)
  /\ Decide("executor", NotSubmitted(seen), FALSE)
  /\ pc' = "done"
  /\ UNCHANGED <<journal, seen, recoveryVars, venueVars>>

Begin ==
  /\ At("start")
  /\ Decide("executor", <<Write("SUBMITTING")>>, FALSE)
  /\ pc' = "submit"
  /\ UNCHANGED <<journal, seen, recoveryVars, venueVars>>

SubmitPrimary ==
  /\ At("submit")
  /\ Submit("primary", Target)
  /\ pc' = "sent"
  /\ UNCHANGED <<journal, seen, todo, recoveryVars, ripe, outage>>

\* Venue calls raise, before or after they took effect.
CallFails ==
  /\ \E c \in {"submit", "sent", "refresh", "cancel", "verify", "fallback_sent"} : At(c)
  /\ Decide("executor", <<Recover>>, FALSE)
  /\ pc' = "done"
  /\ UNCHANGED <<journal, seen, recoveryVars, venueVars>>

Answered(leg) == order[leg].state \in {"live", "filled", "canceled"}
Terminal(o) == o.state \in {"filled", "canceled"}

\* What a response or a refresh of the primary order is recorded as.
Observed(o) ==
  IF o.filled = Target
  THEN <<WriteOrder("FILLED", Target, "primary"), Finish>>
  ELSE IF o.filled > 0
       THEN <<WriteOrder("PARTIAL", o.filled, "primary")>>
            \o (IF Terminal(o) THEN <<Recover>> ELSE <<>>)
       ELSE <<>>

\* The mode of the entry, maker first or a plain market order, is an input that
\* first matters here.
MarketAnswer ==
  LET o == order["primary"]
  IN /\ At("sent") /\ Answered("primary")
     /\ Decide("executor",
               IF o.filled > 0 THEN Observed(o)
               ELSE <<WriteOrder("OPEN", 0, "primary")>>
                    \o (IF Terminal(o)
                        THEN <<Write("CANCELING"),
                               WriteOrder("CANCELED", 0, "primary"),
                               WriteFill("FINALIZED", 0)>>
                        ELSE <<>>),
               TRUE)
     /\ pc' = "done"
     /\ UNCHANGED <<journal, seen, recoveryVars, venueVars>>

MakerAnswer ==
  LET o == order["primary"]
  IN /\ At("sent") /\ Answered("primary")
     /\ Decide("executor",
               IF o.filled > 0 THEN Observed(o)
                               ELSE <<WriteOrder("OPEN", 0, "primary")>>,
               TRUE)
     /\ pc' = IF o.filled > 0 /\ Terminal(o) THEN "done" ELSE "refresh"
     /\ seen' = o.filled
     /\ UNCHANGED <<journal, recoveryVars, venueVars>>

\* After the time to live: the remainder is to be canceled.
Refresh ==
  LET o == order["primary"]
      over == o.filled > 0 /\ Terminal(o)
  IN /\ At("refresh")
     /\ Decide("executor",
               Observed(o) \o (IF over THEN <<>> ELSE <<Write("CANCELING")>>),
               TRUE)
     /\ pc' = IF over THEN "done" ELSE "cancel"
     /\ seen' = o.filled
     /\ UNCHANGED <<journal, recoveryVars, venueVars>>

\* The venue has canceled the order when the call returns, or not yet.
CancelMaker ==
  /\ At("cancel")
  /\ \/ /\ order["primary"].state = "live"
        /\ order' = [order EXCEPT !["primary"].state = "canceled"]
     \/ UNCHANGED order
  /\ pc' = "verify"
  /\ UNCHANGED <<journal, seen, todo, recoveryVars, ripe, outage>>

\* Faulty variants: the state of the canceled order is not verified, or the
\* fallback is not journaled before it is submitted.
VerifyCancelUnverified(MarketFallback) ==
  LET f == order["primary"].filled
  IN /\ At("verify")
     /\ Decide("executor",
               <<WriteFill("CANCELED", f),
                 IF f = Target \/ ~MarketFallback
                 THEN WriteFill("FINALIZED", IF f = 0 THEN 0 ELSE Keep)
                 ELSE Write("FALLBACK_SUBMITTING")>>, TRUE)
     /\ pc' = IF f = Target \/ ~MarketFallback THEN "done" ELSE "fallback"
     /\ seen' = f
     /\ UNCHANGED <<journal, recoveryVars, venueVars>>

VerifyCancelUnjournaled(MarketFallback) ==
  LET f == order["primary"].filled
  IN /\ At("verify")
     /\ order["primary"].state = "canceled"
     /\ Decide("executor", <<WriteFill("CANCELED", f)>>, TRUE)
     /\ pc' = IF f = Target \/ ~MarketFallback THEN "done" ELSE "fallback"
     /\ seen' = f
     /\ UNCHANGED <<journal, recoveryVars, venueVars>>

\* Only a cancellation the venue shows lets the entry go on: at its end, or, by
\* the mode of the entry, with a market order for the remainder.
VerifyCancel(MarketFallback) ==
  LET f == order["primary"].filled
  IN /\ At("verify")
     /\ order["primary"].state = "canceled"
     /\ Decide("executor",
               <<WriteFill("CANCELED", f),
                 IF f = Target \/ ~MarketFallback
                 THEN WriteFill("FINALIZED", IF f = 0 THEN 0 ELSE Keep)
                 ELSE Write("FALLBACK_SUBMITTING")>>, TRUE)
     /\ pc' = IF f = Target \/ ~MarketFallback THEN "done" ELSE "fallback"
     /\ seen' = f
     /\ UNCHANGED <<journal, recoveryVars, venueVars>>

SubmitFallback ==
  /\ At("fallback")
  /\ Submit("fallback", Target - seen)
  /\ pc' = "fallback_sent"
  /\ UNCHANGED <<journal, seen, todo, recoveryVars, ripe, outage>>

\* Anything but the whole residual raises: CallFails.
FallbackAnswer ==
  LET o == order["fallback"]
  IN /\ At("fallback_sent") /\ o.state = "filled"
     /\ Decide("executor", <<WriteFill("EVIDENCE", o.filled)>>, TRUE)
     /\ pc' = "done"
     /\ UNCHANGED <<journal, seen, recoveryVars, venueVars>>

-----------------------------------------------------------------------------
(* recover_nonterminal_order_intents, one pass over this intent.           *)

\* claim_due_order_intent_recoveries leases the row whatever its age.
StartPass ==
  /\ snapshot = <<>> /\ Ready("recovery") /\ evidence = "none"
  /\ journal.status # "FINALIZED"
  /\ snapshot' = journal
  /\ UNCHANGED <<journal, pc, seen, todo, evidence, quorum, venueVars>>

SoughtLeg(row) == IF row.fbId THEN "fallback" ELSE "primary"

\* Faulty variant: a row that was never submitted is left as it is.
LookupEmptySubmitting ==
  /\ snapshot # <<>>
  /\ \/ outage /\ evidence' = "other"
     \/ ~Answered(SoughtLeg(snapshot)) /\ evidence' = "negative"
  /\ Decide("recovery",
            IF snapshot.status = "SUBMITTING" THEN <<Recover>> ELSE <<>>, FALSE)
  /\ snapshot' = <<>>
  /\ UNCHANGED <<journal, pc, seen, quorum, venueVars>>

\* No order was found.  Complete sources that show none are negative evidence.
LookupEmpty ==
  /\ snapshot # <<>>
  /\ \/ outage /\ evidence' = "other"
     \/ ~Answered(SoughtLeg(snapshot)) /\ evidence' = "negative"
  /\ Decide("recovery",
            IF snapshot.status \in {"PREPARED", "SUBMITTING"}
            THEN <<Recover>> ELSE <<>>, FALSE)
  /\ snapshot' = <<>>
  /\ UNCHANGED <<journal, pc, seen, quorum, venueVars>>

\* A canceled order without a fill, where the row has no fill either.
ZeroFillPlan(row, leg) ==
  IF row.status = "CANCELED" THEN <<WriteOrder("FINALIZED", 0, leg)>>
  ELSE (IF row.status = "RECOVERY_REQUIRED" THEN <<>>
        ELSE <<WriteOrder("RECOVERY_REQUIRED", 0, leg)>>)
       \o <<WriteOrder("CANCELED", 0, leg), WriteFill("FINALIZED", 0)>>

FallbackPlan(row, o) ==
  IF row.status = "FILLED" THEN <<Finish>>
  ELSE IF LargerOf(row.fbFilled, o.filled) > 0
  THEN <<WriteFill("EVIDENCE", o.filled)>>
  ELSE IF Terminal(o) /\ row.status # "RECOVERY_REQUIRED"
       THEN <<Recover>> ELSE <<>>

FullPlan(row) ==
  (IF row.status = "PREPARED" THEN <<Write("SUBMITTING")>> ELSE <<>>)
  \o (IF row.status = "FILLED" THEN <<>>
      ELSE <<WriteOrder("FILLED", Target, "primary")>>)
  \o <<Finish>>

PartialPlan(row, o) ==
  CASE row.status \in {"PREPARED", "SUBMITTING", "OPEN", "RECOVERY_REQUIRED",
                       "PARTIAL"} ->
         (IF row.status = "PREPARED" THEN <<Write("SUBMITTING")>> ELSE <<>>)
         \o <<WriteOrder("PARTIAL",
                IF row.status = "PARTIAL" THEN LargerOf(row.filled, o.filled)
                                          ELSE o.filled, "primary")>>
         \o (IF Terminal(o) THEN <<Recover>> ELSE <<>>)
    [] row.status = "CANCELING" ->
         <<WriteOrder("RECOVERY_REQUIRED", o.filled, "primary")>>
    [] OTHER -> <<>>

LookupFound ==
  /\ snapshot # <<>>
  /\ LET leg == SoughtLeg(snapshot)
         o == order[leg]
         zero == o.state = "canceled" /\ o.filled = 0 /\ snapshot.filled = 0
         full == ~snapshot.fbId /\ o.filled = Target
         partial == ~snapshot.fbId /\ o.filled > 0 /\ o.filled < Target
     IN /\ Answered(leg)
        /\ Decide("recovery",
             CASE zero -> ZeroFillPlan(snapshot, leg)
               [] ~zero /\ snapshot.fbId -> FallbackPlan(snapshot, o)
               [] full -> FullPlan(snapshot)
               [] partial -> PartialPlan(snapshot, o)
               [] OTHER -> <<>>,
             zero \/ full \/ snapshot.status # "RECOVERY_REQUIRED")
  /\ evidence' = "other"
  /\ snapshot' = <<>>
  /\ UNCHANGED <<journal, pc, seen, quorum, venueVars>>

\* Faulty variant: the minimum age is not asked.
EligibleYoung ==
  /\ journal.status = "RECOVERY_REQUIRED"
  /\ ~journal.fbId /\ journal.id = "none"
  /\ journal.filled = 0 /\ journal.fbFilled = 0

Eligible ==
  /\ journal.status = "RECOVERY_REQUIRED" /\ ripe
  /\ ~journal.fbId /\ journal.id = "none"
  /\ journal.filled = 0 /\ journal.fbFilled = 0

\* record_order_intent_recovery_evidence closes the pass.
RecordEvidence ==
  /\ evidence # "none" /\ Ready("recovery")
  /\ quorum' = IF evidence # "negative" \/ ~Eligible THEN 0
               ELSE IF quorum = 2 THEN 2 ELSE quorum + 1
  /\ evidence' = "none"
  /\ UNCHANGED <<journal, pc, seen, todo, snapshot, venueVars>>

\* finalize_qualified_zero_fill_order_intent.  That the position snapshot of
\* the reconciliation shows the base flat is not asked here.
FinalizeAbsent ==
  /\ quorum = 2 /\ Eligible
  /\ journal' = [journal EXCEPT !.status = "FINALIZED"]
  /\ UNCHANGED <<pc, seen, todo, recoveryVars, venueVars>>

\* The process dies, with both threads.
Crash ==
  /\ pc # "crashed"
  /\ pc' = "crashed"
  /\ todo' = [a \in Actors |-> Nothing]
  /\ snapshot' = <<>> /\ evidence' = "none"
  /\ UNCHANGED <<journal, seen, quorum, venueVars>>

-----------------------------------------------------------------------------
(* The venue, and time.                                                    *)

Move(leg, o) ==
  /\ order' = [order EXCEPT ![leg] = o]
  /\ UNCHANGED <<journal, pc, seen, todo, recoveryVars, ripe, outage>>

Arrive(leg) ==
  /\ order[leg].state = "inflight"
  /\ \E state \in {"live", "canceled", "lost"} :
       Move(leg, [order[leg] EXCEPT !.state = state])

Fill(leg) ==
  LET o == order[leg]
  IN /\ o.state = "live"
     /\ Move(leg, [o EXCEPT !.filled = o.filled + 1,
                            !.state = IF o.filled + 1 = o.size THEN "filled"
                                                               ELSE "live"])

VenueCancels(leg) ==
  /\ order[leg].state = "live"
  /\ Move(leg, [order[leg] EXCEPT !.state = "canceled"])

\* Assumption: 60 s after the intent was created its order is no longer about
\* to be sent or on the way, and the venue's history shows it.
Ripen ==
  /\ ~ripe
  /\ pc \notin {"start", "submit"} /\ order["primary"].state # "inflight"
  /\ ripe' = TRUE
  /\ UNCHANGED <<journal, pc, seen, todo, recoveryVars, order, outage>>

OutageEnds ==
  /\ outage /\ outage' = FALSE
  /\ UNCHANGED <<journal, pc, seen, todo, recoveryVars, order, ripe>>

-----------------------------------------------------------------------------

Init ==
  /\ journal = [status |-> "PREPARED", filled |-> 0, fbFilled |-> 0,
                fbId |-> FALSE, id |-> "none"]
  /\ pc = "start" /\ seen = 0
  /\ todo = [a \in Actors |-> Nothing]
  /\ snapshot = <<>> /\ evidence = "none" /\ quorum = 0
  /\ ripe = FALSE /\ outage = TRUE
  /\ order = [leg \in Legs |-> [state |-> "none", size |-> 0, filled |-> 0]]

WriteNext(a) == Apply(a) \/ RecordFallback(a) \/ Refused(a)

Execute ==
  \/ Blocked \/ Begin \/ SubmitPrimary \/ CallFails
  \/ MarketAnswer \/ MakerAnswer \/ Refresh \/ CancelMaker
  \/ \E MarketFallback \in BOOLEAN : VerifyCancel(MarketFallback)
  \/ SubmitFallback \/ FallbackAnswer

Recovery ==
  \/ StartPass \/ LookupEmpty \/ LookupFound
  \/ RecordEvidence \/ FinalizeAbsent

Next ==
  \/ \E a \in Actors : WriteNext(a) \/ TransactionFails(a)
  \/ Execute \/ Recovery \/ Crash
  \/ \E leg \in Legs : Arrive(leg) \/ Fill(leg) \/ VenueCancels(leg)
  \/ Ripen \/ OutageEnds

Spec == Init /\ [][Next]_vars

\* The reconcile thread keeps running its passes (a crashed bot is started
\* again), the intent gets older, and outages of the venue's read interface
\* and of the database end.
Fairness ==
  /\ \A a \in Actors : WF_vars(WriteNext(a))
  /\ WF_vars(StartPass) /\ WF_vars(LookupEmpty \/ LookupFound)
  /\ WF_vars(RecordEvidence) /\ WF_vars(FinalizeAbsent)
  /\ WF_vars(Ripen) /\ WF_vars(OutageEnds)

FairSpec == Spec /\ Fairness

-----------------------------------------------------------------------------
(* Properties.                                                             *)

Pending(leg) == order[leg].state \in {"inflight", "live"}
Exposed(leg) == IF Pending(leg) THEN order[leg].size ELSE order[leg].filled
Bought == order["primary"].filled + order["fallback"].filled

\* Whatever is still to fill, the two orders of one entry can never buy more
\* than the entry asked for: a market fallback is sent for the residual of a
\* maker order whose cancellation the venue has shown.
NoDoubleExposure == Exposed("primary") + Exposed("fallback") <= Target

\* A decided intent is a finalized one, but for a zero fill where a fallback was
\* journaled: see ZeroFillProven.
Decision == journal.status = "FINALIZED" /\ (journal.fbId => journal.filled > 0)

\* A decided intent says exactly what the venue filled, and no order of it is
\* left on the venue or still to be sent.
FinalizedTruth ==
  Decision =>
    /\ \A leg \in Legs : ~Pending(leg)
    /\ pc \notin {"submit", "fallback"} \/ ~Ready("executor")
    /\ journal.filled = Bought

\* The journal's own condition for giving up a claim, "claim release requires
\* canceled terminal zero-fill intent", put to the venue: an intent finalized
\* without a fill has bought nothing and can buy nothing any more.
ZeroFillProven ==
  journal.status = "FINALIZED" /\ journal.filled = 0 =>
    Bought = 0 /\ \A leg \in Legs : ~Pending(leg)

\* The journal never counts a fill twice, nor one the venue does not have.
EvidenceSound ==
  /\ journal.filled <= Bought
  /\ journal.fbFilled <= order["fallback"].filled
  /\ journal.fbFilled <= journal.filled

\* The journal keeps the books of the entry: it never runs ahead of the venue,
\* whichever thread writes with stale data, takes back no fill, and what is
\* decided is complete and stays so.  An entry may buy less than its target.
Ledger ==
  INSTANCE FillLedger WITH Short <- TRUE, traded <- Bought,
                           recorded <- journal.filled, closed <- Decision
EntryLedgerSpec == Ledger!Spec

\* Recorded fills never shrink, the client id of a fallback is never lost and
\* a decided intent is never reopened, whichever thread writes with stale data.
EvidenceMonotone ==
  [][/\ journal'.filled >= journal.filled
     /\ journal'.fbFilled >= journal.fbFilled
     /\ journal.fbId => journal'.fbId
     /\ journal.status = "FINALIZED" => journal' = journal]_vars

\* After a crash at any point every order that can exist on the venue is
\* found through the journal row of its intent.
Traceable ==
  /\ order["primary"].state # "none" => journal.status # "PREPARED"
  /\ order["fallback"].state # "none" => journal.fbId

\* An intent whose order was never sent, was lost, is completely filled or was
\* canceled without a fill is finalized in the end once its executor is gone,
\* so the entries of the bot do not stay blocked.  Not promised: a fallback
\* leg, an order that stopped at a partial fill, and an intent without an order
\* whose cleanup stopped at CANCELED.
Resolvable ==
  /\ pc \in {"done", "crashed"} /\ Ready("executor")
  /\ order["fallback"].state = "none" /\ ~journal.fbId
  /\ LET o == order["primary"]
     IN \/ o.state \in {"none", "lost"} /\ journal.status # "CANCELED"
        \/ o.state = "filled"
        \/ o.state = "canceled" /\ o.filled = 0

ResolvableFinalizes == Resolvable ~> journal.status = "FINALIZED"

==============================================================================
