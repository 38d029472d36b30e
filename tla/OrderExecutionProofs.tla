------------------------- MODULE OrderExecutionProofs -------------------------
(***************************************************************************)
(* Theorems about OrderExecution, for every target and every mode: types,  *)
(* that two orders of one entry never buy more than it asked for, that     *)
(* every order is found through the journal, that the journal's fill       *)
(* evidence is sound and never shrinks, that what is decided is true, and  *)
(* that the journal is a FillLedger of the entry.                          *)
(*                                                                         *)
(* None of these is inductive.  Inv adds what makes them so: every write a *)
(* thread has decided on, and every row a recovery pass works on, states   *)
(* fills the venue has (they only grow), and the executor only reaches a   *)
(* submission after its write-ahead record.  Decided adds, for the truth   *)
(* of decisions, with which fill each thread may conclude an intent.       *)
(***************************************************************************)
EXTENDS OrderExecution, SequenceTheorems, TLAPS

-----------------------------------------------------------------------------
(* The inductive invariant.                                                *)

\* What the venue promises of one order.
OrderSound(o) ==
  /\ o.state = "none" => o.size = 0 /\ o.filled = 0
  /\ o.state \in {"inflight", "lost"} => o.filled = 0
  /\ o.state \in {"inflight", "live"} => o.filled < o.size
  /\ o.filled <= o.size

\* The total consists of the fills of the maker order and of the fallback.
Balanced ==
  /\ journal.fbFilled <= order["fallback"].filled
  /\ journal.fbFilled <= journal.filled
  /\ journal.filled <= order["primary"].filled + journal.fbFilled
  /\ ~journal.fbId => journal.fbFilled = 0

\* The writes whose stated fill the venue has, or the journal already states.
SoundWrites ==
  {w \in Writes :
     \/ w.to = "EVIDENCE" /\ 0 <= w.filled /\ w.filled <= order["fallback"].filled
     \/ /\ w.to # "EVIDENCE"
        /\ \/ w.filled <= order["primary"].filled
           \/ w.filled = Target /\ journal.filled = Target}

PlansSound == \A a \in Actors : todo[a].steps \in Seq(SoundWrites)

SnapshotSound ==
  snapshot # <<>> /\ ~snapshot.fbId => snapshot.filled <= order["primary"].filled

\* How far the executor is, what it has sent and what it is about to write.
Procedure ==
  /\ seen <= order["primary"].filled
  /\ pc \in {"start", "submit"} => order["primary"].state = "none"
  /\ pc \notin {"fallback_sent", "done", "crashed"} =>
       order["fallback"].state = "none"
  /\ pc = "submit" =>
       \/ todo["executor"].steps = <<Write("SUBMITTING")>>
       \/ Ready("executor") /\ journal.status # "PREPARED"
  /\ pc = "fallback" =>
       /\ order["primary"].state = "canceled"
       /\ seen = order["primary"].filled /\ seen < Target
       /\ \/ todo["executor"].steps
               = <<WriteFill("CANCELED", seen), Write("FALLBACK_SUBMITTING")>>
          \/ todo["executor"].steps = <<Write("FALLBACK_SUBMITTING")>>
          \/ Ready("executor") /\ journal.fbId

Inv ==
  /\ TypeOK
  /\ \A leg \in Legs : OrderSound(order[leg])
  /\ NoDoubleExposure /\ Traceable
  /\ Balanced /\ PlansSound /\ SnapshotSound /\ Procedure

-----------------------------------------------------------------------------
(* Writes and plans.                                                       *)

\* Every state shows two orders, a journal row and plans of the right type.
LEMMA StateTypes ==
  ASSUME TypeOK
  PROVE  /\ journal \in Journals /\ seen \in Lots /\ Target \in Nat \ {0}
         /\ journal.filled \in 0..Target /\ journal.fbFilled \in 0..Target
         /\ journal.status \in Statuses /\ journal.fbId \in BOOLEAN
         /\ \A leg \in Legs : /\ order[leg] \in Orders
                              /\ order[leg].filled \in 0..Target
                              /\ order[leg].size \in 0..Target
         /\ \A a \in Actors : /\ todo[a] \in Plans
                              /\ todo[a].steps \in Seq(Writes)
                              /\ todo[a].mark \in BOOLEAN
BY TargetAssumption DEF TypeOK, Journals, Orders, Plans, Lots

\* A decided write that states no fill is sound, and so is one that states a
\* fill of the order it is about.
LEMMA WriteSound ==
  ASSUME TypeOK
  PROVE  /\ \A to \in Statuses : Write(to) \in SoundWrites
         /\ \A to \in Statuses, f \in Lots \cup {Keep} :
              f <= order["primary"].filled => WriteFill(to, f) \in SoundWrites
         /\ \A to \in Statuses, f \in Lots, leg \in Legs :
              f <= order["primary"].filled => WriteOrder(to, f, leg) \in SoundWrites
         /\ \A f \in Lots :
              f <= order["fallback"].filled =>
                WriteFill("EVIDENCE", f) \in SoundWrites
<1> USE DEF SoundWrites, Writes, Ids, Lots, Keep, Legs
<1>0. order["primary"].filled \in Nat /\ "EVIDENCE" \notin Statuses
  BY StateTypes DEF Statuses
<1>1. ASSUME NEW to \in Statuses PROVE Write(to) \in SoundWrites
  BY <1>0, <1>1 DEF Write
<1>2. ASSUME NEW to \in Statuses, NEW f \in Lots \cup {Keep},
             f <= order["primary"].filled
      PROVE  WriteFill(to, f) \in SoundWrites
  BY <1>0, <1>2 DEF WriteFill
<1>3. ASSUME NEW to \in Statuses, NEW f \in Lots, NEW leg \in Legs,
             f <= order["primary"].filled
      PROVE  WriteOrder(to, f, leg) \in SoundWrites
  BY <1>0, <1>3 DEF WriteOrder
<1>4. ASSUME NEW f \in Lots, f <= order["fallback"].filled
      PROVE  WriteFill("EVIDENCE", f) \in SoundWrites
  BY <1>0, <1>4 DEF WriteFill
<1> QED BY <1>1, <1>2, <1>3, <1>4

\* Short plans of sound writes.
LEMMA ShortPlans ==
  ASSUME NEW S
  PROVE  /\ <<>> \in Seq(S)
         /\ \A x \in S : <<x>> \in Seq(S)
         /\ \A x, y \in S : <<x, y>> \in Seq(S)
         /\ \A x, y, z \in S : <<x, y, z>> \in Seq(S)
OBVIOUS

\* While fills grow, sound writes stay sound.
LEMMA SoundWritesStay ==
  ASSUME TypeOK, TypeOK',
         \A leg \in Legs : order[leg].filled <= order[leg].filled',
         journal.filled <= journal.filled'
  PROVE  SoundWrites \subseteq SoundWrites'
<1>1. SUFFICES ASSUME NEW w \in SoundWrites PROVE w \in SoundWrites'
  OBVIOUS
<1>2. w \in Writes /\ w.filled \in Int
  BY DEF SoundWrites, Writes, Lots, Keep
<1>3. /\ order["primary"].filled \in Int /\ order["fallback"].filled \in Int
      /\ order["primary"].filled' \in Int /\ order["fallback"].filled' \in Int
      /\ order["primary"].filled <= order["primary"].filled'
      /\ order["fallback"].filled <= order["fallback"].filled'
      /\ journal.filled \in 0..Target /\ journal.filled' \in 0..Target
  BY DEF TypeOK, Journals, Orders, Lots, Legs
<1>4. Target \in Nat
  BY TargetAssumption
<1> QED BY <1>1, <1>2, <1>3, <1>4 DEF SoundWrites

\* Sound plans are well typed.
LEMMA SoundPlansTyped ==
  ASSUME NEW s \in Seq(SoundWrites)
  PROVE  s \in Seq(Writes)
BY SeqMonotonic DEF SoundWrites

-----------------------------------------------------------------------------
(* The kinds of steps.                                                     *)

\* A thread decides what to write next: nothing but its plan, its control
\* state and the recovery pass changes.
LEMMA DecisionKeepsInv ==
  ASSUME Inv, NEW a \in Actors, NEW steps \in Seq(SoundWrites),
         NEW mark \in BOOLEAN, Decide(a, steps, mark),
         UNCHANGED <<journal, order, quorum, ripe, outage>>,
         pc' \in Controls, seen' \in Lots,
         snapshot' \in {snapshot, <<>>}, evidence' \in Evidence,
         Procedure'
  PROVE  Inv'
<1>1. [steps |-> steps, mark |-> mark] \in Plans
  BY SoundPlansTyped DEF Plans
<1>2. TypeOK'
  BY <1>1 DEF Inv, TypeOK, Decide
<1>3. PlansSound'
  <2>1. SoundWrites' = SoundWrites
    BY DEF SoundWrites
  <2>2. \A c \in Actors : todo[c].steps \in Seq(SoundWrites)
    BY DEF Inv, PlansSound
  <2>3. \A c \in Actors : todo'[c].steps
                            = IF c = a THEN steps ELSE todo[c].steps
    BY DEF Decide, Inv, TypeOK
  <2> QED BY <2>1, <2>2, <2>3 DEF PlansSound
<1>4. /\ (\A leg \in Legs : OrderSound(order[leg]))'
      /\ NoDoubleExposure' /\ Traceable' /\ Balanced'
  BY DEF Inv, OrderSound, NoDoubleExposure, Exposed, Pending, Traceable, Balanced
<1>5. SnapshotSound'
  BY DEF Inv, SnapshotSound
<1> QED BY <1>2, <1>3, <1>4, <1>5 DEF Inv

\* The venue, or a call to it, moves one order on.
LEMMA OrderKeepsInv ==
  ASSUME Inv, NEW leg \in Legs, NEW o \in Orders,
         order' = [order EXCEPT ![leg] = o],
         OrderSound(o), order[leg].filled <= o.filled,
         UNCHANGED <<journal, seen, todo, recoveryVars, ripe, outage>>,
         pc' \in Controls, NoDoubleExposure', Traceable', Procedure'
  PROVE  Inv'
<1>1. TypeOK'
  BY DEF Inv, TypeOK, recoveryVars
<1>2. \A l \in Legs : order'[l] = IF l = leg THEN o ELSE order[l]
  BY DEF Inv, TypeOK
<1>3. \A l \in Legs : order[l].filled \in Nat /\ order'[l].filled \in Nat
  BY <1>1, TargetAssumption DEF Inv, TypeOK, Orders, Lots
<1>4. \A l \in Legs : order[l].filled <= order'[l].filled
  BY <1>2, <1>3
<1>5. (\A l \in Legs : OrderSound(order[l]))'
  BY <1>2 DEF Inv, OrderSound
<1>6. journal.filled \in 0..Target /\ journal.fbFilled \in 0..Target
  BY StateTypes DEF Inv
<1>7. Balanced'
  BY <1>3, <1>4, <1>6 DEF Inv, Balanced, Legs
<1>8. PlansSound'
  <2>1. SoundWrites \subseteq SoundWrites'
    BY <1>1, <1>4, <1>6, SoundWritesStay DEF Inv
  <2> QED BY <2>1, SeqMonotonic DEF Inv, PlansSound
<1>9. SnapshotSound'
  <2>1. snapshot # <<>> => snapshot.filled \in Nat
    BY DEF Inv, TypeOK, Journals, Lots
  <2> QED BY <1>3, <1>4, <2>1 DEF Inv, SnapshotSound, recoveryVars, Legs
<1> QED BY <1>1, <1>5, <1>7, <1>8, <1>9 DEF Inv

\* A transaction changes the journal row, and its thread goes on in its plan.
LEMMA JournalKeepsInv ==
  ASSUME Inv, journal' \in Journals,
         journal.filled <= journal'.filled,
         journal'.status # "PREPARED", journal.fbId => journal'.fbId,
         Balanced', PlansSound', Procedure',
         todo' \in [Actors -> Plans],
         UNCHANGED <<pc, seen, recoveryVars, venueVars>>
  PROVE  Inv'
<1>1. TypeOK'
  BY DEF Inv, TypeOK, recoveryVars, venueVars
<1>2. /\ (\A leg \in Legs : OrderSound(order[leg]))'
      /\ NoDoubleExposure' /\ SnapshotSound'
  BY DEF Inv, OrderSound, NoDoubleExposure, Exposed, Pending, SnapshotSound,
         venueVars, recoveryVars
<1>3. Traceable'
  BY DEF Inv, Traceable, venueVars
<1> QED BY <1>1, <1>2, <1>3 DEF Inv

-----------------------------------------------------------------------------
(* The executor.                                                           *)

\* The plans of the executor state what it has seen of its order.
LEMMA ExecutorPlans ==
  ASSUME Inv
  PROVE  /\ NotSubmitted(seen) \in Seq(SoundWrites)
         /\ Observed(order["primary"]) \in Seq(SoundWrites)
<1> DEFINE o == order["primary"]
<1>t. TypeOK /\ seen <= o.filled
  BY DEF Inv, Procedure
<1>0. /\ seen \in Lots /\ o.filled \in Lots /\ Target \in Lots
      /\ 0 \in Lots /\ 0 <= o.filled /\ o.filled <= o.filled
      /\ Keep <= o.filled /\ Target <= Target
  BY <1>t, StateTypes DEF Lots, Legs, Keep
<1>1. /\ Recover \in SoundWrites /\ Finish \in SoundWrites
  BY <1>t, WriteSound DEF Recover, Finish, Statuses
<1>2. NotSubmitted(seen) \in Seq(SoundWrites)
  <2>1. WriteFill("CANCELED", seen) \in SoundWrites
    BY <1>t, <1>0, WriteSound DEF Statuses
  <2>2. /\ WriteFill("FINALIZED", 0) \in SoundWrites
        /\ WriteFill("FINALIZED", Keep) \in SoundWrites
    BY <1>t, <1>0, WriteSound DEF Statuses
  <2> QED BY <1>1, <2>1, <2>2, ShortPlans DEF NotSubmitted
<1>3. Observed(o) \in Seq(SoundWrites)
  <2>1. CASE o.filled = Target
    <3>1. WriteOrder("FILLED", Target, "primary") \in SoundWrites
      BY <1>t, <1>0, <2>1, WriteSound DEF Statuses, Legs
    <3> QED BY <1>1, <2>1, <3>1, ShortPlans DEF Observed
  <2>2. CASE o.filled # Target
    <3>1. WriteOrder("PARTIAL", o.filled, "primary") \in SoundWrites
      BY <1>t, <1>0, WriteSound DEF Statuses, Legs
    <3>2. /\ <<WriteOrder("PARTIAL", o.filled, "primary")>> \in Seq(SoundWrites)
          /\ <<Recover>> \in Seq(SoundWrites) /\ <<>> \in Seq(SoundWrites)
      BY <1>1, <3>1, ShortPlans
    <3>3. <<WriteOrder("PARTIAL", o.filled, "primary")>>
            \o (IF Terminal(o) THEN <<Recover>> ELSE <<>>) \in Seq(SoundWrites)
      BY <3>2, ConcatProperties
    <3> QED BY <2>2, <3>2, <3>3 DEF Observed
  <2> QED BY <2>1, <2>2
<1> QED BY <1>2, <1>3

\* The steps that end the procedure: a refusal before the submission, an
\* exception, the answer to a market order or to the fallback.
LEMMA EndingKeepsInv ==
  ASSUME Inv, Blocked \/ CallFails \/ MarketAnswer \/ FallbackAnswer
  PROVE  Inv'
<1> DEFINE o == order["primary"]
<1>t. TypeOK
  BY DEF Inv
<1>0. /\ "executor" \in Actors /\ "done" \in Controls
      /\ seen \in Lots /\ evidence \in Evidence
  BY <1>t DEF TypeOK, Actors, Controls
<1>f. o.filled \in Lots /\ 0 \in Lots /\ 0 <= o.filled
  BY <1>t, StateTypes DEF Lots, Legs
<1>1. pc' = "done" /\ UNCHANGED <<seen, journal, recoveryVars, venueVars>>
  BY DEF Blocked, CallFails, MarketAnswer, FallbackAnswer
<1>2. Procedure'
  BY <1>1 DEF Inv, Procedure, venueVars
<1>3. ASSUME NEW steps \in Seq(SoundWrites), NEW mark \in BOOLEAN,
             Decide("executor", steps, mark)
      PROVE  Inv'
  BY <1>0, <1>1, <1>2, <1>3, DecisionKeepsInv DEF recoveryVars, venueVars
<1>4. CASE Blocked
  BY <1>3, <1>4, ExecutorPlans DEF Blocked
<1>5. CASE CallFails
  <2>1. <<Recover>> \in Seq(SoundWrites)
    BY <1>t, <1>f, WriteSound, ShortPlans DEF Recover, Statuses
  <2> QED BY <1>3, <1>5, <2>1 DEF CallFails
<1>6. CASE MarketAnswer
  <2> DEFINE canceled ==
               <<Write("CANCELING"), WriteOrder("CANCELED", 0, "primary"),
                 WriteFill("FINALIZED", 0)>>
             answered == <<WriteOrder("OPEN", 0, "primary")>>
                         \o (IF Terminal(o) THEN canceled ELSE <<>>)
  <2>1. canceled \in Seq(SoundWrites)
    BY <1>t, <1>f, WriteSound, ShortPlans DEF Statuses, Legs
  <2>2. <<WriteOrder("OPEN", 0, "primary")>> \in Seq(SoundWrites)
    BY <1>t, <1>f, WriteSound, ShortPlans DEF Statuses, Legs
  <2>3. answered \in Seq(SoundWrites)
    <3> HIDE DEF canceled
    <3> QED BY <2>1, <2>2, ShortPlans, ConcatProperties
  <2>4. Decide("executor", IF o.filled > 0 THEN Observed(o) ELSE answered, TRUE)
    BY <1>6 DEF MarketAnswer
  <2> HIDE DEF answered
  <2> QED BY <1>3, <2>3, <2>4, ExecutorPlans
<1>7. CASE FallbackAnswer
  <2>1. order["fallback"].filled \in Lots
    BY <1>t, StateTypes DEF Lots, Legs
  <2>2. <<WriteFill("EVIDENCE", order["fallback"].filled)>> \in Seq(SoundWrites)
    BY <1>t, <2>1, WriteSound, ShortPlans DEF Lots
  <2> QED BY <1>3, <1>7, <2>2 DEF FallbackAnswer
<1> QED BY <1>4, <1>5, <1>6, <1>7

\* The steps of the maker order that lead on: it is answered, refreshed, and
\* its cancellation verified.
LEMMA MakerKeepsInv ==
  ASSUME Inv, NEW MarketFallback \in BOOLEAN,
         MakerAnswer \/ Refresh \/ VerifyCancel(MarketFallback)
  PROVE  Inv'
<1> DEFINE o == order["primary"]
<1>t. TypeOK
  BY DEF Inv
<1>0. "executor" \in Actors /\ evidence \in Evidence
  BY <1>t DEF TypeOK, Actors
<1>f. /\ o.filled \in Lots /\ 0 \in Lots
      /\ o.filled \in Nat /\ Target \in Nat /\ o.filled <= Target
  BY <1>t, StateTypes DEF Lots, Legs
<1>1. seen' = o.filled /\ UNCHANGED <<journal, recoveryVars, venueVars>>
  BY DEF MakerAnswer, Refresh, VerifyCancel
<1>n. pc \in {"sent", "refresh"} => order["fallback"].state = "none"
  BY DEF Inv, Procedure
<1>2. ASSUME NEW steps \in Seq(SoundWrites), Decide("executor", steps, TRUE),
             pc' \in Controls, Procedure'
      PROVE  Inv'
  BY <1>0, <1>f, <1>1, <1>2, DecisionKeepsInv DEF recoveryVars, venueVars
<1>3. CASE MakerAnswer
  <2>1. <<WriteOrder("OPEN", 0, "primary")>> \in Seq(SoundWrites)
    BY <1>t, <1>f, WriteSound, ShortPlans DEF Statuses, Legs
  <2>2. pc = "sent" /\ pc' \in {"done", "refresh"}
    BY <1>3 DEF MakerAnswer, At
  <2>3. Procedure'
    <3>1. seen' <= order'["primary"].filled
      BY <1>f, <1>1 DEF venueVars
    <3>2. /\ pc' \notin {"start", "submit", "fallback"}
          /\ order'["fallback"].state = "none"
      BY <1>1, <1>n, <2>2 DEF venueVars
    <3> QED BY <3>1, <3>2 DEF Procedure
  <2>4. Decide("executor",
               IF o.filled > 0 THEN Observed(o)
                               ELSE <<WriteOrder("OPEN", 0, "primary")>>, TRUE)
    BY <1>3 DEF MakerAnswer
  <2> QED BY <1>2, <2>1, <2>2, <2>3, <2>4, ExecutorPlans DEF Controls
<1>4. CASE Refresh
  <2> DEFINE rest == IF o.filled > 0 /\ Terminal(o) THEN <<>>
                                                    ELSE <<Write("CANCELING")>>
  <2>1. rest \in Seq(SoundWrites)
    BY <1>t, <1>f, WriteSound, ShortPlans DEF Statuses
  <2>2. pc = "refresh" /\ pc' \in {"done", "cancel"}
    BY <1>4 DEF Refresh, At
  <2>3. Procedure'
    <3>1. seen' <= order'["primary"].filled
      BY <1>f, <1>1 DEF venueVars
    <3>2. /\ pc' \notin {"start", "submit", "fallback"}
          /\ order'["fallback"].state = "none"
      BY <1>1, <1>n, <2>2 DEF venueVars
    <3> QED BY <3>1, <3>2 DEF Procedure
  <2>4. Decide("executor", Observed(o) \o rest, TRUE)
    BY <1>4 DEF Refresh
  <2>5. Observed(o) \o rest \in Seq(SoundWrites)
    <3> HIDE DEF rest
    <3> QED BY <2>1, ExecutorPlans, ConcatProperties
  <2> QED BY <1>2, <2>2, <2>3, <2>4, <2>5 DEF Controls
<1>5. CASE VerifyCancel(MarketFallback)
  <2> DEFINE last == IF o.filled = Target \/ ~MarketFallback
                     THEN WriteFill("FINALIZED", IF o.filled = 0 THEN 0 ELSE Keep)
                     ELSE Write("FALLBACK_SUBMITTING")
  <2>1. WriteFill("CANCELED", o.filled) \in SoundWrites /\ last \in SoundWrites
    BY <1>t, <1>f, WriteSound DEF Statuses, Keep
  <2>2. <<WriteFill("CANCELED", o.filled), last>> \in Seq(SoundWrites)
    BY <2>1, ShortPlans
  <2>3. /\ pc = "verify" /\ o.state = "canceled"
        /\ pc' = IF o.filled = Target \/ ~MarketFallback THEN "done" ELSE "fallback"
        /\ Decide("executor", <<WriteFill("CANCELED", o.filled), last>>, TRUE)
    BY <1>5 DEF VerifyCancel, At
  <2>4. todo'["executor"].steps = <<WriteFill("CANCELED", o.filled), last>>
    BY <1>t, <1>0, <2>3 DEF Decide, TypeOK
  <2>5. Procedure'
    BY <1>f, <1>1, <2>3, <2>4 DEF Inv, Procedure, venueVars, Lots
  <2> QED BY <1>2, <2>2, <2>3, <2>5 DEF Controls
<1> QED BY <1>3, <1>4, <1>5

\* The write-ahead record precedes the submission, and each order is sent once.
LEMMA SubmissionKeepsInv ==
  ASSUME Inv, Begin \/ SubmitPrimary \/ CancelMaker \/ SubmitFallback
  PROVE  Inv'
<1> DEFINE p == order["primary"]
           f == order["fallback"]
<1>t. TypeOK /\ Procedure /\ Traceable /\ NoDoubleExposure
      /\ OrderSound(p) /\ OrderSound(f)
  BY DEF Inv, Legs
<1>0. /\ "executor" \in Actors /\ "primary" \in Legs /\ "fallback" \in Legs
      /\ evidence \in Evidence /\ seen \in Lots
  BY <1>t DEF TypeOK, Actors, Legs
<1>1. /\ p \in Orders /\ f \in Orders /\ Target \in Nat \ {0} /\ seen \in Nat
      /\ p.filled \in Nat /\ f.filled \in Nat /\ p.size \in Nat /\ f.size \in Nat
  BY <1>t, <1>0, StateTypes DEF Lots
<1>2. DOMAIN order = Legs
  BY <1>t DEF TypeOK
<1>3. CASE Begin
  <2>1. <<Write("SUBMITTING")>> \in Seq(SoundWrites)
    BY <1>t, WriteSound, ShortPlans DEF Statuses
  <2>2. /\ pc = "start" /\ pc' = "submit" /\ UNCHANGED <<seen, order, journal>>
        /\ Decide("executor", <<Write("SUBMITTING")>>, FALSE)
    BY <1>3 DEF Begin, At, venueVars
  <2>3. todo'["executor"].steps = <<Write("SUBMITTING")>>
    BY <1>t, <1>0, <2>2 DEF Decide, TypeOK
  <2>4. Procedure'
    BY <1>t, <2>2, <2>3 DEF Procedure
  <2> QED BY <1>0, <1>3, <2>1, <2>2, <2>4, DecisionKeepsInv
          DEF Begin, recoveryVars, venueVars, Controls
<1>4. CASE SubmitPrimary
  <2> DEFINE o == [state |-> "inflight", size |-> Target, filled |-> 0]
  <2>1. /\ pc = "submit" /\ Ready("executor") /\ pc' = "sent"
        /\ UNCHANGED <<journal, seen, todo, recoveryVars, ripe, outage>>
        /\ order' = [order EXCEPT !["primary"] = o]
    BY <1>4 DEF SubmitPrimary, At, Submit
  <2>2. /\ p.state = "none" /\ f.state = "none" /\ journal.status # "PREPARED"
        /\ p.filled = 0 /\ f.filled = 0 /\ seen <= 0
    BY <1>t, <2>1 DEF Procedure, OrderSound, Ready
  <2>3. o \in Orders /\ OrderSound(o)
    BY <1>1 DEF Orders, Lots, OrderSound
  <2>4. order'["primary"] = o /\ order'["fallback"] = f
    BY <1>0, <1>2, <2>1
  <2>5. NoDoubleExposure' /\ Traceable'
    BY <1>1, <2>1, <2>2, <2>4 DEF NoDoubleExposure, Exposed, Pending, Traceable
  <2>6. Procedure'
    BY <2>1, <2>2, <2>4 DEF Procedure
  <2>7. p.filled <= o.filled /\ pc' \in Controls
    BY <2>1, <2>2 DEF Controls
  <2> HIDE DEF o
  <2> QED BY <1>0, <2>1, <2>3, <2>5, <2>6, <2>7, OrderKeepsInv
<1>5. CASE CancelMaker
  <2>1. /\ pc = "cancel" /\ pc' = "verify"
        /\ UNCHANGED <<journal, seen, todo, recoveryVars, ripe, outage>>
    BY <1>5 DEF CancelMaker, At
  <2>2. f.state = "none" /\ seen <= p.filled
    BY <1>t, <2>1 DEF Procedure
  <2>3. PICK o \in {p, [p EXCEPT !.state = "canceled"]} :
          /\ order' = [order EXCEPT !["primary"] = o]
          /\ o # p => p.state = "live"
    BY <1>t, <1>5 DEF CancelMaker, TypeOK
  <2>4. /\ o \in Orders /\ o.filled = p.filled /\ o.size = p.size
        /\ o = p \/ (p.state = "live" /\ o.state = "canceled")
    <3>1. CASE o = p
      BY <1>1, <3>1
    <3>2. CASE o = [p EXCEPT !.state = "canceled"] /\ p.state = "live"
      BY <1>1, <3>2 DEF Orders
    <3> QED BY <2>3, <3>1, <3>2
  <2>5. OrderSound(o)
    BY <1>t, <2>4 DEF OrderSound
  <2>6. order'["primary"] = o /\ order'["fallback"] = f
    BY <1>0, <1>2, <2>3
  <2>7. NoDoubleExposure' /\ Traceable'
    BY <1>t, <1>1, <2>1, <2>4, <2>6
       DEF NoDoubleExposure, Exposed, Pending, Traceable, OrderSound
  <2>8. Procedure'
    BY <2>1, <2>2, <2>4, <2>6 DEF Procedure
  <2>9. p.filled <= o.filled /\ pc' \in Controls
    BY <1>1, <2>1, <2>4 DEF Controls
  <2> QED BY <1>0, <2>1, <2>3, <2>4, <2>5, <2>7, <2>8, <2>9, OrderKeepsInv
<1>6. CASE SubmitFallback
  <2> DEFINE o == [state |-> "inflight", size |-> Target - seen, filled |-> 0]
  <2>1. /\ pc = "fallback" /\ Ready("executor") /\ pc' = "fallback_sent"
        /\ UNCHANGED <<journal, seen, todo, recoveryVars, ripe, outage>>
        /\ order' = [order EXCEPT !["fallback"] = o]
    BY <1>6 DEF SubmitFallback, At, Submit
  <2>2. p.state = "canceled" /\ seen = p.filled /\ seen < Target
    BY <1>t, <2>1 DEF Procedure
  <2>3. journal.fbId
    BY <1>t, <2>1 DEF Procedure, Ready
  <2>4. f.filled = 0
    BY <1>t, <2>1 DEF Procedure, OrderSound
  <2>5. /\ o \in Orders /\ OrderSound(o) /\ o.state = "inflight"
        /\ o.size = Target - p.filled /\ o.filled = 0
    BY <1>1, <2>2 DEF Orders, Lots, OrderSound
  <2> HIDE DEF o
  <2>6. order'["primary"] = p /\ order'["fallback"] = o
    BY <1>0, <1>2, <2>1
  <2>7. NoDoubleExposure'
    BY <1>1, <2>2, <2>5, <2>6 DEF NoDoubleExposure, Exposed, Pending
  <2>8. Traceable'
    BY <1>t, <2>1, <2>3, <2>6 DEF Traceable
  <2>9. Procedure'
    <3>1. seen' <= order'["primary"].filled
      BY <1>1, <2>1, <2>2, <2>6
    <3> QED BY <2>1, <3>1 DEF Procedure
  <2>10. f.filled <= o.filled /\ pc' \in Controls
    BY <2>1, <2>4, <2>5 DEF Controls
  <2> QED BY <1>0, <2>1, <2>5, <2>7, <2>8, <2>9, <2>10, OrderKeepsInv
<1> QED BY <1>3, <1>4, <1>5, <1>6

-----------------------------------------------------------------------------
(* Transactions.                                                           *)

\* Steps beside the executor leave its procedure where it is.
LEMMA ProcedureStays ==
  ASSUME Procedure, UNCHANGED <<pc, seen, order>>,
         todo'["executor"] = todo["executor"],
         journal.status # "PREPARED" => journal'.status # "PREPARED",
         journal.fbId => journal'.fbId
  PROVE  Procedure'
BY DEF Procedure, Ready

\* The next write of a thread, and what is left of its plan.
LEMMA NextWrite ==
  ASSUME Inv, NEW a \in Actors, ~Ready(a)
  PROVE  /\ Head(todo[a].steps) \in SoundWrites
         /\ Tail(todo[a].steps) \in Seq(SoundWrites)
<1>1. todo[a].steps \in Seq(SoundWrites) /\ todo[a].steps # <<>>
  BY DEF Inv, PlansSound, Ready
<1> QED BY <1>1, HeadTailProperties

\* What a transition does to the row.
LEMMA ApplyRow ==
  ASSUME Inv, NEW a \in Actors, Apply(a)
  PROVE  /\ journal' \in Journals
         /\ journal.filled <= journal'.filled
         /\ journal'.fbFilled = journal.fbFilled
         /\ journal.fbId => journal'.fbId
         /\ journal'.status = Head(todo[a].steps).to
         /\ journal'.status # "PREPARED" /\ journal.status # "FINALIZED"
         /\ journal'.fbId <=> journal.fbId \/ journal'.status = "FALLBACK_SUBMITTING"
         /\ Balanced'
<1> DEFINE w == Head(todo[a].steps)
<1>t. TypeOK /\ Balanced
  BY DEF Inv
<1>1. /\ w.to # "EVIDENCE" /\ Admissible(w) /\ journal' = Transition(w)
      /\ UNCHANGED order /\ w \in SoundWrites
  BY NextWrite DEF Apply, venueVars
<1>2. /\ w \in Writes /\ UNCHANGED order
      /\ \/ w.filled <= order["primary"].filled
         \/ w.filled = Target /\ journal.filled = Target
  <2> HIDE DEF w
  <2> QED BY <1>1 DEF SoundWrites
<1> HIDE DEF w
<1>3. /\ journal \in Journals /\ Target \in Nat
      /\ order["primary"].filled \in Nat /\ order["fallback"].filled \in Nat
      /\ journal.filled \in Nat /\ journal.fbFilled \in Nat
  BY <1>t, StateTypes DEF Legs
<1>4. /\ w.to \in Statuses /\ w.filled \in Lots \cup {Keep} /\ w.id \in Ids
  BY <1>1, <1>2 DEF Writes
<1>5. /\ Effective(w) \in Lots /\ journal.filled <= Effective(w)
      /\ w.to \in Allowed(journal.status)
  BY <1>1, <1>3, <1>4 DEF Admissible, Effective, Journals
<1>6. w.to # "PREPARED" /\ journal.status # "FINALIZED"
  BY <1>5 DEF Allowed
<1>7. /\ journal'.status = w.to /\ journal'.filled = Effective(w)
      /\ journal'.fbFilled = journal.fbFilled
      /\ journal'.fbId = (journal.fbId \/ w.to = "FALLBACK_SUBMITTING")
      /\ journal' \in Journals
  <2> DEFINE id == IF w.id = "none" THEN journal.id ELSE w.id
             fbId == journal.fbId \/ w.to = "FALLBACK_SUBMITTING"
  <2>1. id \in Ids /\ fbId \in BOOLEAN
    BY <1>3, <1>4 DEF Journals
  <2>2. journal' = [journal EXCEPT !.status = w.to, !.filled = Effective(w),
                                   !.id = id, !.fbId = fbId]
    BY <1>1 DEF Transition
  <2> HIDE DEF id, fbId
  <2>3. journal' = [status |-> w.to, filled |-> Effective(w),
                    fbFilled |-> journal.fbFilled, fbId |-> fbId, id |-> id]
    BY <1>3, <2>2 DEF Journals
  <2>4. journal' \in Journals
    BY <1>3, <1>4, <1>5, <2>1, <2>3 DEF Journals
  <2> QED BY <2>3, <2>4 DEF fbId
<1>8. Effective(w) <= order["primary"].filled + journal.fbFilled
  BY <1>2, <1>3, <1>4, <1>t DEF Effective, Balanced, Lots, Keep
<1>9. Balanced'
  <2>1. ~journal'.fbId => journal'.fbFilled = 0
    BY <1>7, <1>t DEF Balanced
  <2>2. /\ journal'.fbFilled <= order'["fallback"].filled
        /\ journal'.fbFilled <= journal'.filled
        /\ journal'.filled <= order'["primary"].filled + journal'.fbFilled
    <3>1. journal'.filled = Effective(w) /\ journal'.fbFilled = journal.fbFilled
      BY <1>7
    <3> QED BY <1>2, <1>3, <1>5, <1>8, <1>t, <3>1 DEF Balanced, Lots
  <2> QED BY <2>1, <2>2 DEF Balanced
<1> QED BY <1>5, <1>6, <1>7, <1>9 DEF w

\* An applied transition keeps the invariant.
LEMMA ApplyKeepsInv ==
  ASSUME Inv, NEW a \in Actors, Apply(a)
  PROVE  Inv'
<1> DEFINE rest == Tail(todo[a].steps)
<1>t. TypeOK /\ Procedure
  BY DEF Inv
<1>1. /\ ~Ready(a) /\ UNCHANGED <<pc, seen, recoveryVars, venueVars>>
      /\ Decide(a, rest, todo[a].mark)
  BY DEF Apply
<1>2. rest \in Seq(SoundWrites) /\ todo[a].mark \in BOOLEAN
  BY <1>1, <1>t, NextWrite, StateTypes
<1>3. /\ todo' \in [Actors -> Plans]
      /\ \A c \in Actors : todo'[c].steps = IF c = a THEN rest ELSE todo[c].steps
      /\ \A c \in Actors : c # a => todo'[c] = todo[c]
  <2>1. [steps |-> rest, mark |-> todo[a].mark] \in Plans
    BY <1>2, SoundPlansTyped DEF Plans
  <2> QED BY <1>1, <1>t, <2>1 DEF Decide, TypeOK
<1>4. TypeOK'
  BY <1>1, <1>3, <1>t, ApplyRow DEF TypeOK, recoveryVars, venueVars
<1>5. SoundWrites \subseteq SoundWrites'
  <2>1. \A leg \in Legs : order[leg].filled <= order[leg].filled'
    BY <1>1, <1>t, StateTypes DEF venueVars
  <2> QED BY <1>4, <1>t, <2>1, ApplyRow, SoundWritesStay
<1>6. PlansSound'
  BY <1>2, <1>3, <1>5, SeqMonotonic DEF PlansSound, Inv
<1>7. Procedure'
  <2>1. CASE a = "executor"
    <3>1. ASSUME NEW x, todo[a].steps = <<x>>
          PROVE  Head(todo[a].steps) = x /\ rest = <<>>
      BY <3>1
    <3>2. ASSUME NEW x, NEW y, todo[a].steps = <<x, y>>
          PROVE  rest = <<y>>
      BY <3>2
    <3>3. todo'["executor"].steps = rest
      BY <1>3, <2>1
    <3> HIDE DEF rest
    <3>4. pc = "submit" => Ready("executor")' /\ journal'.status # "PREPARED"
      BY <1>1, <1>t, <2>1, <3>1, <3>3, ApplyRow DEF Procedure, Ready
    <3>5. pc = "fallback" =>
            \/ todo'["executor"].steps = <<Write("FALLBACK_SUBMITTING")>>
            \/ Ready("executor")' /\ journal'.fbId
      <4>1. CASE todo[a].steps
                   = <<WriteFill("CANCELED", seen), Write("FALLBACK_SUBMITTING")>>
        BY <3>2, <3>3, <4>1
      <4>2. CASE todo[a].steps = <<Write("FALLBACK_SUBMITTING")>>
        BY <3>1, <3>3, <4>2, ApplyRow DEF Write, Ready
      <4> QED BY <1>1, <1>t, <2>1, <4>1, <4>2 DEF Procedure
    <3> QED BY <1>1, <1>t, <3>4, <3>5 DEF Procedure, venueVars
  <2>2. CASE a # "executor"
    BY <1>1, <1>3, <1>t, <2>2, ApplyRow, ProcedureStays DEF Actors, venueVars
  <2> QED BY <2>1, <2>2
<1> QED BY <1>1, <1>3, <1>6, <1>7, ApplyRow, JournalKeepsInv

\* What the two orders have filled together fits into the entry.
LEMMA FillsFit ==
  ASSUME Inv
  PROVE  order["primary"].filled + order["fallback"].filled <= Target
<1>1. /\ OrderSound(order["primary"]) /\ OrderSound(order["fallback"])
      /\ NoDoubleExposure /\ TypeOK
  BY DEF Inv, Legs
<1>2. /\ order["primary"].filled \in Nat /\ order["fallback"].filled \in Nat
      /\ order["primary"].size \in Nat /\ order["fallback"].size \in Nat
      /\ Target \in Nat
  BY <1>1, StateTypes DEF Legs
<1>3. ASSUME NEW leg \in Legs PROVE order[leg].filled <= Exposed(leg)
  BY <1>1, <1>2, <1>3 DEF Exposed, Pending, OrderSound, Legs
<1>4. /\ order["primary"].filled <= Exposed("primary") /\ Exposed("primary") \in Nat
      /\ order["fallback"].filled <= Exposed("fallback") /\ Exposed("fallback") \in Nat
  BY <1>2, <1>3 DEF Exposed, Legs
<1> QED BY <1>1, <1>2, <1>4 DEF NoDoubleExposure

\* What recording fallback evidence does to the row: the larger evidence counts
\* once, beside the fill of the maker order.
LEMMA FallbackRow ==
  ASSUME Inv, NEW a \in Actors, RecordFallback(a)
  PROVE  /\ journal' \in Journals
         /\ journal.filled <= journal'.filled
         /\ journal.fbFilled <= journal'.fbFilled
         /\ journal.fbId /\ journal'.fbId
         /\ journal'.status = "RECOVERY_REQUIRED" /\ journal.status # "FINALIZED"
         /\ Balanced'
<1> DEFINE w == Head(todo[a].steps)
           fallback == LargerOf(journal.fbFilled, w.filled)
           total == journal.filled - journal.fbFilled + fallback
<1>t. TypeOK /\ Balanced
  BY DEF Inv
<1>1. /\ w.to = "EVIDENCE" /\ Admissible(w) /\ UNCHANGED order
      /\ journal' = Merged(w) /\ w \in SoundWrites
  BY NextWrite DEF RecordFallback, venueVars
<1>2. journal' = [journal EXCEPT !.status = "RECOVERY_REQUIRED",
                                 !.fbFilled = fallback, !.filled = total]
  BY <1>1 DEF Merged
<1> HIDE DEF w
<1>3. /\ journal \in Journals /\ Target \in Nat
      /\ order["primary"].filled \in Nat /\ order["fallback"].filled \in Nat
      /\ journal.filled \in Nat /\ journal.fbFilled \in Nat
  BY <1>t, StateTypes DEF Legs
<1>4. /\ w.filled \in Int /\ w.filled <= order["fallback"].filled
      /\ journal.fbId /\ journal.status # "FINALIZED"
  BY <1>1 DEF Admissible, SoundWrites, Writes, Lots, Keep
<1>5. /\ fallback \in Nat /\ journal.fbFilled <= fallback
      /\ fallback <= order["fallback"].filled
  BY <1>3, <1>4, <1>t DEF LargerOf, Balanced
<1> HIDE DEF fallback
<1>6. /\ total \in Nat /\ journal.filled <= total /\ fallback <= total
      /\ total <= order["primary"].filled + fallback
  BY <1>3, <1>5, <1>t DEF Balanced
<1>7. total \in Lots /\ fallback \in Lots
  BY <1>3, <1>5, <1>6, FillsFit DEF Lots
<1> HIDE DEF total
<1>8. journal' = [status |-> "RECOVERY_REQUIRED", filled |-> total,
                  fbFilled |-> fallback, fbId |-> journal.fbId,
                  id |-> journal.id]
  BY <1>2, <1>3 DEF Journals
<1>9. journal' \in Journals
  BY <1>3, <1>7, <1>8 DEF Journals, Statuses
<1>10. /\ journal'.status = "RECOVERY_REQUIRED" /\ journal'.filled = total
       /\ journal'.fbFilled = fallback /\ journal'.fbId
  BY <1>4, <1>8
<1>11. order' = order
  BY <1>1
<1>12. Balanced'
  BY <1>5, <1>6, <1>10, <1>11 DEF Balanced
<1> QED BY <1>4, <1>5, <1>6, <1>9, <1>10, <1>12

\* Recording fallback evidence keeps the invariant.
LEMMA RecordFallbackKeepsInv ==
  ASSUME Inv, NEW a \in Actors, RecordFallback(a)
  PROVE  Inv'
<1> DEFINE rest == IF journal'.filled = Target
                   THEN <<WriteOrder("FILLED", Target, "fallback"), Finish>>
                   ELSE <<>>
<1>t. TypeOK /\ Procedure
  BY DEF Inv
<1>1. /\ ~Ready(a) /\ UNCHANGED <<pc, seen, recoveryVars, venueVars>>
      /\ Head(todo[a].steps).to = "EVIDENCE" /\ Decide(a, rest, TRUE)
  <2>1. journal' = Merged(Head(todo[a].steps))
    BY DEF RecordFallback
  <2> QED BY <2>1 DEF RecordFallback, Merged
<1>2. rest \in Seq(SoundWrites')
  <2>1. /\ Target \in Lots /\ journal'.filled \in Nat /\ Target \in Nat
        /\ order'["primary"].filled \in Nat
    <3>1. order'["primary"].filled \in Nat
      BY <1>1, <1>t, StateTypes DEF venueVars, Legs
    <3>2. journal'.filled \in Nat
      BY FallbackRow, TargetAssumption DEF Journals, Lots
    <3> QED BY <3>1, <3>2, TargetAssumption DEF Lots
  <2>2. CASE journal'.filled = Target
    <3>1. WriteOrder("FILLED", Target, "fallback") \in SoundWrites'
      BY <2>1, <2>2 DEF SoundWrites, WriteOrder, Writes, Statuses, Ids, Legs
    <3>2. Finish \in SoundWrites'
      BY <2>1 DEF SoundWrites, Finish, Write, Writes, Statuses, Ids, Keep
    <3> QED BY <2>2, <3>1, <3>2, ShortPlans
  <2>3. CASE journal'.filled # Target
    BY <2>3, ShortPlans
  <2> QED BY <2>2, <2>3
<1> HIDE DEF rest
<1>3. /\ todo' \in [Actors -> Plans]
      /\ \A c \in Actors : todo'[c].steps = IF c = a THEN rest ELSE todo[c].steps
      /\ \A c \in Actors : c # a => todo'[c] = todo[c]
  <2>1. rest \in Seq(Writes)
    <3>1. SoundWrites' \subseteq Writes
      BY DEF SoundWrites
    <3> QED BY <1>2, <3>1, SeqMonotonic
  <2>2. [steps |-> rest, mark |-> TRUE] \in Plans
    BY <2>1 DEF Plans
  <2> QED BY <1>1, <1>t, <2>2 DEF Decide, TypeOK
<1>4. TypeOK'
  BY <1>1, <1>3, <1>t, FallbackRow DEF TypeOK, recoveryVars, venueVars
<1>5. SoundWrites \subseteq SoundWrites'
  <2>1. \A leg \in Legs : order[leg].filled <= order[leg].filled'
    BY <1>1, <1>t, StateTypes DEF venueVars
  <2> QED BY <1>4, <1>t, <2>1, FallbackRow, SoundWritesStay
<1>6. PlansSound'
  BY <1>2, <1>3, <1>5, SeqMonotonic DEF PlansSound, Inv
<1>7. Procedure'
  <2>1. CASE a = "executor"
    <3>1. ASSUME NEW x, NEW rests, todo[a].steps = <<x>> \/ todo[a].steps = <<x, rests>>,
                 x.to # "EVIDENCE"
          PROVE  FALSE
      BY <1>1, <3>1
    <3>2. pc # "submit"
      BY <1>1, <1>t, <2>1, <3>1 DEF Procedure, Write
    <3>3. pc # "fallback"
      BY <1>1, <1>t, <2>1, <3>1 DEF Procedure, Write, WriteFill
    <3> QED BY <1>1, <1>t, <3>2, <3>3 DEF Procedure, venueVars
  <2>2. CASE a # "executor"
    BY <1>1, <1>3, <1>t, <2>2, FallbackRow, ProcedureStays DEF Actors, venueVars
  <2> QED BY <2>1, <2>2
<1> QED BY <1>1, <1>3, <1>6, <1>7, FallbackRow, JournalKeepsInv

\* A refused or failed transaction: at most RECOVERY_REQUIRED is left to write.
LEMMA AbandonKeepsInv ==
  ASSUME Inv, NEW a \in Actors, Refused(a) \/ TransactionFails(a)
  PROVE  Inv'
<1>t. TypeOK /\ Procedure
  BY DEF Inv
<1>1. PICK mark \in BOOLEAN : Abandon(a, mark)
  BY <1>t, StateTypes DEF Refused, TransactionFails
<1>2. UNCHANGED <<journal, seen, recoveryVars, venueVars>>
  BY DEF Refused, TransactionFails
<1> DEFINE rest == IF mark THEN <<Recover>> ELSE <<>>
<1>3. Decide(a, rest, FALSE) /\ pc' = IF a = "executor" THEN "done" ELSE pc
  BY <1>1 DEF Abandon
<1>4. rest \in Seq(SoundWrites)
  BY <1>t, WriteSound, ShortPlans DEF Recover, Statuses
<1> HIDE DEF rest
<1>5. pc' \in Controls /\ seen' \in Lots /\ evidence' \in Evidence
  BY <1>t, <1>2, <1>3 DEF TypeOK, Controls, recoveryVars
<1>6. Procedure'
  <2>1. CASE a = "executor"
    BY <1>2, <1>3, <1>t, <2>1 DEF Procedure, venueVars
  <2>2. CASE a # "executor"
    <3>1. todo'["executor"] = todo["executor"]
      BY <1>3, <1>t, <2>2 DEF Decide, TypeOK, Actors
    <3> QED BY <1>2, <1>3, <1>t, <2>2, <3>1, ProcedureStays DEF venueVars
  <2> QED BY <2>1, <2>2
<1> QED BY <1>2, <1>3, <1>4, <1>5, <1>6, DecisionKeepsInv
        DEF recoveryVars, venueVars

-----------------------------------------------------------------------------
(* Recovery.                                                               *)

\* The plans of recovery state what the order it found, or its row, shows.
LEMMA RecoveryPlans ==
  ASSUME Inv, snapshot # <<>>
  PROVE  /\ \A leg \in Legs : ZeroFillPlan(snapshot, leg) \in Seq(SoundWrites)
         /\ FallbackPlan(snapshot, order["fallback"]) \in Seq(SoundWrites)
         /\ order["primary"].filled = Target
              => FullPlan(snapshot) \in Seq(SoundWrites)
         /\ ~snapshot.fbId
              => PartialPlan(snapshot, order["primary"]) \in Seq(SoundWrites)
<1> DEFINE p == order["primary"]
           f == order["fallback"]
<1>t. TypeOK /\ (~snapshot.fbId => snapshot.filled <= p.filled)
  BY DEF Inv, SnapshotSound
<1>0. /\ p.filled \in Lots /\ f.filled \in Lots /\ Target \in Lots
      /\ 0 \in Lots /\ 0 <= p.filled /\ p.filled <= p.filled
      /\ f.filled <= f.filled /\ Target <= Target
  BY <1>t, StateTypes DEF Lots, Legs
<1>1. snapshot \in Journals /\ snapshot.filled \in Lots
  BY <1>t DEF TypeOK, Journals
<1>2. /\ Recover \in SoundWrites /\ Finish \in SoundWrites
      /\ Write("SUBMITTING") \in SoundWrites
  BY <1>t, WriteSound DEF Recover, Finish, Statuses
<1>3. /\ <<Recover>> \in Seq(SoundWrites) /\ <<Finish>> \in Seq(SoundWrites)
      /\ <<Write("SUBMITTING")>> \in Seq(SoundWrites)
      /\ <<>> \in Seq(SoundWrites)
  BY <1>2, ShortPlans
<1>4. ASSUME NEW leg \in Legs
      PROVE  ZeroFillPlan(snapshot, leg) \in Seq(SoundWrites)
  <2> DEFINE first == IF snapshot.status = "RECOVERY_REQUIRED" THEN <<>>
                      ELSE <<WriteOrder("RECOVERY_REQUIRED", 0, leg)>>
             rest == <<WriteOrder("CANCELED", 0, leg), WriteFill("FINALIZED", 0)>>
  <2>1. /\ WriteOrder("FINALIZED", 0, leg) \in SoundWrites
        /\ WriteOrder("RECOVERY_REQUIRED", 0, leg) \in SoundWrites
        /\ WriteOrder("CANCELED", 0, leg) \in SoundWrites
        /\ WriteFill("FINALIZED", 0) \in SoundWrites
    BY <1>t, <1>0, <1>4, WriteSound DEF Statuses
  <2>2. /\ <<WriteOrder("FINALIZED", 0, leg)>> \in Seq(SoundWrites)
        /\ first \in Seq(SoundWrites) /\ rest \in Seq(SoundWrites)
    BY <2>1, ShortPlans
  <2>3. ZeroFillPlan(snapshot, leg)
          = IF snapshot.status = "CANCELED" THEN <<WriteOrder("FINALIZED", 0, leg)>>
                                            ELSE first \o rest
    BY DEF ZeroFillPlan
  <2> HIDE DEF first, rest
  <2>4. first \o rest \in Seq(SoundWrites)
    BY <2>2, ConcatProperties
  <2> QED BY <2>2, <2>3, <2>4
<1>5. FallbackPlan(snapshot, f) \in Seq(SoundWrites)
  <2>1. <<WriteFill("EVIDENCE", f.filled)>> \in Seq(SoundWrites)
    BY <1>t, <1>0, WriteSound, ShortPlans
  <2> QED BY <1>3, <2>1 DEF FallbackPlan
<1>6. ASSUME p.filled = Target
      PROVE  FullPlan(snapshot) \in Seq(SoundWrites)
  <2> DEFINE first == IF snapshot.status = "PREPARED" THEN <<Write("SUBMITTING")>>
                                                      ELSE <<>>
             filled == IF snapshot.status = "FILLED" THEN <<>>
                       ELSE <<WriteOrder("FILLED", Target, "primary")>>
  <2>1. <<WriteOrder("FILLED", Target, "primary")>> \in Seq(SoundWrites)
    BY <1>t, <1>0, <1>6, WriteSound, ShortPlans DEF Statuses, Legs
  <2>2. first \in Seq(SoundWrites) /\ filled \in Seq(SoundWrites)
    BY <1>3, <2>1
  <2>3. FullPlan(snapshot) = (first \o filled) \o <<Finish>>
    BY DEF FullPlan
  <2> HIDE DEF first, filled
  <2>4. first \o filled \in Seq(SoundWrites)
    BY <2>2, ConcatProperties
  <2> QED BY <1>3, <2>3, <2>4, ConcatProperties
<1>7. ASSUME ~snapshot.fbId
      PROVE  PartialPlan(snapshot, p) \in Seq(SoundWrites)
  <2> DEFINE first == IF snapshot.status = "PREPARED" THEN <<Write("SUBMITTING")>>
                                                      ELSE <<>>
             fill == IF snapshot.status = "PARTIAL"
                     THEN LargerOf(snapshot.filled, p.filled) ELSE p.filled
             last == IF Terminal(p) THEN <<Recover>> ELSE <<>>
  <2>1. fill \in Lots /\ fill <= p.filled
    BY <1>t, <1>0, <1>1, <1>7 DEF LargerOf
  <2>2. /\ first \in Seq(SoundWrites) /\ last \in Seq(SoundWrites)
    BY <1>3
  <2> HIDE DEF fill, first, last
  <2>3. <<WriteOrder("PARTIAL", fill, "primary")>> \in Seq(SoundWrites)
    BY <1>t, <2>1, WriteSound, ShortPlans DEF Statuses, Legs
  <2>4. <<WriteOrder("RECOVERY_REQUIRED", p.filled, "primary")>> \in Seq(SoundWrites)
    BY <1>t, <1>0, WriteSound, ShortPlans DEF Statuses, Legs
  <2>5. (first \o <<WriteOrder("PARTIAL", fill, "primary")>>) \o last
          \in Seq(SoundWrites)
    <3>1. first \o <<WriteOrder("PARTIAL", fill, "primary")>> \in Seq(SoundWrites)
      BY <2>2, <2>3, ConcatProperties
    <3> QED BY <2>2, <3>1, ConcatProperties
  <2> QED BY <1>3, <2>4, <2>5 DEF PartialPlan, fill, first, last
<1> QED BY <1>4, <1>5, <1>6, <1>7

\* The lookup of a pass decides what recovery writes.
LEMMA LookupKeepsInv ==
  ASSUME Inv, LookupEmpty \/ LookupFound
  PROVE  Inv'
<1>t. TypeOK /\ Procedure
  BY DEF Inv
<1>0. "recovery" \in Actors /\ "recovery" # "executor" /\ "executor" \in Actors
  BY DEF Actors
<1>1. /\ snapshot # <<>> /\ snapshot' = <<>> /\ evidence' \in Evidence
      /\ UNCHANGED <<journal, pc, seen, quorum, venueVars>>
  BY DEF LookupEmpty, LookupFound, Evidence
<1>2. ASSUME NEW steps \in Seq(SoundWrites), NEW mark \in BOOLEAN,
             Decide("recovery", steps, mark)
      PROVE  Inv'
  <2>1. todo'["executor"] = todo["executor"]
    BY <1>0, <1>t, <1>2 DEF Decide, TypeOK
  <2>2. Procedure'
    BY <1>1, <1>t, <2>1, ProcedureStays DEF venueVars
  <2>3. pc' \in Controls /\ seen' \in Lots
    BY <1>1, <1>t DEF TypeOK
  <2> QED BY <1>0, <1>1, <1>2, <2>2, <2>3, DecisionKeepsInv DEF venueVars
<1>3. CASE LookupEmpty
  <2> DEFINE rest == IF snapshot.status \in {"PREPARED", "SUBMITTING"}
                     THEN <<Recover>> ELSE <<>>
  <2>1. rest \in Seq(SoundWrites)
    BY <1>t, WriteSound, ShortPlans DEF Recover, Statuses
  <2>2. Decide("recovery", rest, FALSE)
    BY <1>3 DEF LookupEmpty
  <2> HIDE DEF rest
  <2> QED BY <1>2, <2>1, <2>2
<1>4. CASE LookupFound
  <2> DEFINE leg == SoughtLeg(snapshot)
             o == order[leg]
             zero == o.state = "canceled" /\ o.filled = 0 /\ snapshot.filled = 0
             full == ~snapshot.fbId /\ o.filled = Target
             partial == ~snapshot.fbId /\ o.filled > 0 /\ o.filled < Target
             plan == CASE zero -> ZeroFillPlan(snapshot, leg)
                       [] ~zero /\ snapshot.fbId -> FallbackPlan(snapshot, o)
                       [] full -> FullPlan(snapshot)
                       [] partial -> PartialPlan(snapshot, o)
                       [] OTHER -> <<>>
             mark == zero \/ full \/ snapshot.status # "RECOVERY_REQUIRED"
  <2>1. Decide("recovery", plan, mark)
    BY <1>4 DEF LookupFound
  <2>2. /\ leg \in Legs
        /\ snapshot.fbId => leg = "fallback"
        /\ ~snapshot.fbId => leg = "primary"
    BY DEF SoughtLeg, Legs
  <2>3. mark \in BOOLEAN
    OBVIOUS
  <2> HIDE DEF leg, mark
  <2>4. /\ ZeroFillPlan(snapshot, leg) \in Seq(SoundWrites)
        /\ snapshot.fbId => FallbackPlan(snapshot, o) \in Seq(SoundWrites)
        /\ full => FullPlan(snapshot) \in Seq(SoundWrites)
        /\ partial => PartialPlan(snapshot, o) \in Seq(SoundWrites)
        /\ <<>> \in Seq(SoundWrites)
    BY <1>1, <2>2, RecoveryPlans, ShortPlans
  <2> HIDE DEF o, zero, full, partial
  <2>5. plan \in Seq(SoundWrites)
    BY <2>4
  <2> HIDE DEF plan
  <2> QED BY <1>2, <2>1, <2>3, <2>5
<1> QED BY <1>3, <1>4

\* The other steps of a pass, and a crash.
LEMMA PassKeepsInv ==
  ASSUME Inv, StartPass \/ RecordEvidence \/ FinalizeAbsent \/ Crash
  PROVE  Inv'
<1>t. /\ TypeOK /\ Procedure /\ Balanced /\ PlansSound
      /\ \A leg \in Legs : OrderSound(order[leg])
      /\ NoDoubleExposure /\ Traceable /\ SnapshotSound
  BY DEF Inv
<1>0. UNCHANGED <<seen, venueVars>>
  BY DEF StartPass, RecordEvidence, FinalizeAbsent, Crash
<1>1. CASE StartPass \/ RecordEvidence
  <2>1. /\ UNCHANGED <<journal, pc, todo>>
        /\ evidence' \in Evidence /\ quorum' \in 0..2
        /\ snapshot' \in {snapshot, journal}
    BY <1>1, <1>t DEF StartPass, RecordEvidence, TypeOK, Evidence
  <2>2. TypeOK'
    BY <1>0, <1>t, <2>1 DEF TypeOK, venueVars
  <2>3. SoundWrites' = SoundWrites
    BY <1>0, <2>1 DEF SoundWrites, venueVars
  <2>4. PlansSound'
    BY <1>t, <2>1, <2>3 DEF PlansSound
  <2>5. /\ (\A leg \in Legs : OrderSound(order[leg]))'
        /\ NoDoubleExposure' /\ Traceable' /\ Balanced'
    BY <1>0, <1>t, <2>1 DEF OrderSound, NoDoubleExposure, Exposed, Pending,
                            Traceable, Balanced, venueVars
  <2>6. Procedure'
    BY <1>0, <1>t, <2>1, ProcedureStays DEF venueVars
  <2>7. SnapshotSound'
    <3>1. ~journal.fbId => journal.filled <= order["primary"].filled
      BY <1>t, StateTypes DEF Balanced, Legs
    <3> QED BY <1>0, <1>t, <2>1, <3>1 DEF SnapshotSound, venueVars
  <2> QED BY <2>2, <2>4, <2>5, <2>6, <2>7 DEF Inv
<1>2. CASE FinalizeAbsent
  <2>1. /\ UNCHANGED <<pc, todo, recoveryVars>>
        /\ journal' = [journal EXCEPT !.status = "FINALIZED"]
    BY <1>2 DEF FinalizeAbsent
  <2>2. journal \in Journals
    BY <1>t DEF TypeOK
  <2>3. /\ journal' \in Journals /\ journal'.status = "FINALIZED"
        /\ journal'.filled = journal.filled /\ journal'.fbId = journal.fbId
        /\ journal'.fbFilled = journal.fbFilled
    BY <2>1, <2>2 DEF Journals, Statuses
  <2>4. SoundWrites' = SoundWrites
    BY <1>0, <2>3 DEF SoundWrites, venueVars
  <2>5. PlansSound' /\ todo' \in [Actors -> Plans]
    BY <1>t, <2>1, <2>4 DEF PlansSound, TypeOK
  <2>6. Balanced'
    BY <1>0, <1>t, <2>3 DEF Balanced, venueVars
  <2>7. Procedure'
    BY <1>0, <1>t, <2>1, <2>3, ProcedureStays DEF venueVars
  <2>8. journal.filled <= journal'.filled
    BY <1>t, <2>3, StateTypes
  <2> QED BY <1>0, <2>1, <2>3, <2>5, <2>6, <2>7, <2>8, JournalKeepsInv
<1>3. CASE Crash
  <2>1. /\ pc' = "crashed" /\ snapshot' = <<>> /\ evidence' = "none"
        /\ todo' = [a \in Actors |-> Nothing]
        /\ UNCHANGED <<journal, quorum>>
    BY <1>3 DEF Crash
  <2>2. Nothing \in Plans /\ Nothing.steps = <<>>
    BY DEF Nothing, Plans
  <2>3. TypeOK'
    BY <1>0, <1>t, <2>1, <2>2 DEF TypeOK, Controls, Evidence, venueVars
  <2>4. PlansSound'
    <3>1. <<>> \in Seq(SoundWrites')
      BY ShortPlans
    <3>2. \A a \in Actors : todo'[a].steps = <<>>
      BY <2>1, <2>2
    <3> QED BY <3>1, <3>2 DEF PlansSound
  <2>5. /\ (\A leg \in Legs : OrderSound(order[leg]))'
        /\ NoDoubleExposure' /\ Traceable' /\ Balanced'
    BY <1>0, <1>t, <2>1 DEF OrderSound, NoDoubleExposure, Exposed, Pending,
                            Traceable, Balanced, venueVars
  <2>6. Procedure'
    BY <1>0, <1>t, <2>1 DEF Procedure, venueVars
  <2>7. SnapshotSound'
    BY <2>1 DEF SnapshotSound
  <2> QED BY <2>3, <2>4, <2>5, <2>6, <2>7 DEF Inv
<1> QED BY <1>1, <1>2, <1>3

-----------------------------------------------------------------------------
(* The venue, and time.                                                    *)

\* The venue only adds fills to a live order, up to its size.
LEMMA VenueKeepsInv ==
  ASSUME Inv, NEW leg \in Legs,
         Arrive(leg) \/ Fill(leg) \/ VenueCancels(leg)
  PROVE  Inv'
<1> DEFINE o == order[leg]
<1>t. TypeOK /\ Procedure /\ Traceable /\ NoDoubleExposure /\ OrderSound(o)
  BY DEF Inv
<1>0. /\ o \in Orders /\ o.filled \in Nat /\ o.size \in Nat /\ o.size <= Target
      /\ Target \in Nat /\ DOMAIN order = Legs
  BY <1>t, StateTypes DEF TypeOK
<1>1. PICK new \in Orders :
        /\ Move(leg, new) /\ o.state \in {"inflight", "live"}
        /\ OrderSound(new) /\ o.filled <= new.filled /\ new.filled <= new.size
        /\ new.size = o.size /\ new.state # "none"
        /\ new.filled = o.filled \/ o.state = "live"
  <2>1. CASE Arrive(leg)
    <3>1. PICK state \in {"live", "canceled", "lost"} :
            Move(leg, [o EXCEPT !.state = state])
      BY <2>1 DEF Arrive
    <3> DEFINE new == [o EXCEPT !.state = state]
    <3>2. /\ new \in Orders /\ new.state = state
          /\ new.filled = o.filled /\ new.size = o.size
      BY <1>0 DEF Orders
    <3>3. o.state = "inflight"
      BY <2>1 DEF Arrive
    <3> HIDE DEF new
    <3>4. OrderSound(new)
      BY <1>0, <1>t, <3>2, <3>3 DEF OrderSound
    <3>5. Move(leg, new)
      BY <3>1 DEF new
    <3>6. new.filled <= new.size /\ o.filled <= new.filled
      BY <1>0, <1>t, <3>2 DEF OrderSound
    <3> QED BY <3>2, <3>3, <3>4, <3>5, <3>6
  <2>2. CASE Fill(leg)
    <3> DEFINE state == IF o.filled + 1 = o.size THEN "filled" ELSE "live"
               new == [o EXCEPT !.filled = o.filled + 1, !.state = state]
    <3>1. o.state = "live" /\ Move(leg, new)
      BY <2>2 DEF Fill
    <3>2. o.filled + 1 <= o.size
      BY <1>0, <1>t, <3>1 DEF OrderSound
    <3>3. /\ new \in Orders /\ new.state = state
          /\ new.filled = o.filled + 1 /\ new.size = o.size
      <4>1. state \in {"filled", "live"} /\ o.filled + 1 \in Lots
        BY <1>0, <3>2 DEF Lots
      <4> HIDE DEF state
      <4> QED BY <1>0, <4>1 DEF Orders
    <3> HIDE DEF new
    <3>4. OrderSound(new)
      BY <1>0, <3>2, <3>3 DEF OrderSound
    <3>5. new.filled <= new.size /\ o.filled <= new.filled /\ new.state # "none"
      BY <1>0, <3>2, <3>3
    <3> QED BY <3>1, <3>3, <3>4, <3>5
  <2>3. CASE VenueCancels(leg)
    <3> DEFINE new == [o EXCEPT !.state = "canceled"]
    <3>1. o.state = "live" /\ Move(leg, new)
      BY <2>3 DEF VenueCancels
    <3>2. /\ new \in Orders /\ new.state = "canceled"
          /\ new.filled = o.filled /\ new.size = o.size
      BY <1>0 DEF Orders
    <3> HIDE DEF new
    <3>3. OrderSound(new) /\ new.filled <= new.size /\ o.filled <= new.filled
      BY <1>0, <1>t, <3>2 DEF OrderSound
    <3> QED BY <3>1, <3>2, <3>3
  <2> QED BY <2>1, <2>2, <2>3
<1>2. /\ order' = [order EXCEPT ![leg] = new]
      /\ UNCHANGED <<journal, pc, seen, todo, recoveryVars, ripe, outage>>
  BY <1>1 DEF Move
<1>3. \A l \in Legs : order'[l] = IF l = leg THEN new ELSE order[l]
  BY <1>0, <1>2
<1>4. NoDoubleExposure'
  <2>1. \A l \in Legs : order[l].filled \in Nat /\ order[l].size \in Nat
    BY <1>t, StateTypes
  <2>2. new.filled \in Nat
    BY <1>1 DEF Orders, Lots
  <2>3. \A l \in Legs : /\ Exposed(l) \in Nat /\ Exposed(l)' \in Nat
                        /\ Exposed(l)' <= Exposed(l)
    <3>1. TAKE l \in Legs
    <3>2. CASE l = leg
      BY <1>0, <1>1, <1>3, <2>1, <2>2, <3>2 DEF Exposed, Pending
    <3>3. CASE l # leg
      BY <1>3, <2>1, <3>3 DEF Exposed, Pending
    <3> QED BY <3>2, <3>3
  <2> QED BY <1>0, <1>t, <2>3 DEF NoDoubleExposure, Legs
<1>5. Traceable'
  BY <1>1, <1>2, <1>3, <1>t DEF Traceable, Legs
<1>6. Procedure'
  <2>1. \A l \in Legs : order[l].state = "none" => order'[l].state = "none"
    BY <1>1, <1>3
  <2>2. order["primary"].state = "canceled" => order'["primary"] = order["primary"]
    BY <1>1, <1>3 DEF Legs
  <2>3. seen <= order'["primary"].filled
    <3>1. order["primary"].filled <= order'["primary"].filled
      BY <1>1, <1>3, <1>t, StateTypes DEF Legs
    <3>2. /\ seen \in Nat /\ order["primary"].filled \in Nat
          /\ order'["primary"].filled \in Nat
      BY <1>1, <1>3, <1>t, StateTypes DEF Legs, Lots, Orders
    <3> QED BY <1>t, <3>1, <3>2 DEF Procedure
  <2> QED BY <1>2, <1>t, <2>1, <2>2, <2>3 DEF Procedure, Ready, Legs
<1>7. pc' \in Controls
  BY <1>2, <1>t DEF TypeOK
<1> QED BY <1>1, <1>2, <1>4, <1>5, <1>6, <1>7, OrderKeepsInv

\* The intent gets older, the outage ends, or nothing happens.
LEMMA TimeKeepsInv ==
  ASSUME Inv, Ripen \/ OutageEnds \/ UNCHANGED vars
  PROVE  Inv'
<1>1. /\ UNCHANGED <<journal, pc, seen, todo, recoveryVars, order>>
      /\ ripe' \in BOOLEAN /\ outage' \in BOOLEAN
  BY DEF Ripen, OutageEnds, vars, recoveryVars, Inv, TypeOK
<1>2. TypeOK'
  BY <1>1 DEF Inv, TypeOK, recoveryVars
<1>3. SoundWrites' = SoundWrites
  BY <1>1 DEF SoundWrites
<1>4. PlansSound'
  BY <1>1, <1>3 DEF Inv, PlansSound
<1>5. /\ (\A leg \in Legs : OrderSound(order[leg]))'
      /\ NoDoubleExposure' /\ Traceable' /\ Balanced' /\ SnapshotSound'
  BY <1>1 DEF Inv, OrderSound, NoDoubleExposure, Exposed, Pending, Traceable,
              Balanced, SnapshotSound, recoveryVars
<1>6. Procedure'
  BY <1>1, ProcedureStays DEF Inv
<1> QED BY <1>2, <1>4, <1>5, <1>6 DEF Inv

-----------------------------------------------------------------------------
(* The invariant holds of every state the system can reach.                *)

\* An intent starts with an empty row, idle threads and no order.
LEMMA InitInv == Init => Inv
<1> SUFFICES ASSUME Init PROVE Inv
  OBVIOUS
<1>1. 0 \in Lots /\ Target \in Nat
  BY TargetAssumption DEF Lots
<1>2. Nothing \in Plans /\ Nothing.steps = <<>>
  BY DEF Nothing, Plans
<1>3. /\ \A leg \in Legs : order[leg] = [state |-> "none", size |-> 0, filled |-> 0]
      /\ \A a \in Actors : todo[a].steps = <<>>
      /\ journal.filled = 0 /\ journal.fbFilled = 0
  BY <1>2 DEF Init
<1>4. TypeOK
  <2>1. [state |-> "none", size |-> 0, filled |-> 0] \in Orders
    BY <1>1 DEF Orders
  <2>2. order \in [Legs -> Orders] /\ todo \in [Actors -> Plans]
    BY <1>2, <2>1 DEF Init
  <2>3. journal \in Journals
    BY <1>1 DEF Init, Journals, Statuses, Ids
  <2>4. /\ pc = "start" /\ seen = 0 /\ snapshot = <<>> /\ evidence = "none"
        /\ quorum = 0 /\ ripe = FALSE /\ outage = TRUE
    BY DEF Init
  <2>5. snapshot \in Journals \cup {<<>>} /\ ripe \in BOOLEAN /\ outage \in BOOLEAN
    BY <2>4
  <2>6. pc \in Controls /\ seen \in Lots /\ evidence \in Evidence /\ quorum \in 0..2
    BY <1>1, <2>4 DEF Controls, Evidence
  <2> QED BY <2>2, <2>3, <2>4, <2>5, <2>6 DEF TypeOK
<1>5. \A leg \in Legs : OrderSound(order[leg])
  BY <1>3 DEF OrderSound
<1>6. NoDoubleExposure /\ Traceable /\ Balanced
  BY <1>1, <1>3 DEF NoDoubleExposure, Exposed, Pending, Traceable, Balanced, Legs
<1>7. PlansSound
  BY <1>3, ShortPlans DEF PlansSound
<1>8. SnapshotSound
  BY DEF Init, SnapshotSound
<1>9. Procedure
  BY <1>3 DEF Init, Procedure, Legs
<1> QED BY <1>4, <1>5, <1>6, <1>7, <1>8, <1>9 DEF Inv

\* Every step of the two threads, of the venue and of the clock keeps it.
LEMMA NextInv == Inv /\ [Next]_vars => Inv'
<1> SUFFICES ASSUME Inv, [Next]_vars PROVE Inv'
  OBVIOUS
<1>1. ASSUME NEW a \in Actors, WriteNext(a) \/ TransactionFails(a)
      PROVE  Inv'
  BY <1>1, ApplyKeepsInv, RecordFallbackKeepsInv, AbandonKeepsInv DEF WriteNext
<1>2. CASE Execute
  BY <1>2, EndingKeepsInv, MakerKeepsInv, SubmissionKeepsInv DEF Execute
<1>3. CASE Recovery
  BY <1>3, LookupKeepsInv, PassKeepsInv DEF Recovery
<1>4. CASE Crash
  BY <1>4, PassKeepsInv
<1>5. ASSUME NEW leg \in Legs, Arrive(leg) \/ Fill(leg) \/ VenueCancels(leg)
      PROVE  Inv'
  BY <1>5, VenueKeepsInv
<1>6. CASE Ripen \/ OutageEnds \/ UNCHANGED vars
  BY <1>6, TimeKeepsInv
<1> QED BY <1>1, <1>2, <1>3, <1>4, <1>5, <1>6 DEF Next

\* The invariant.
LEMMA SpecInv == Spec => []Inv
BY InitInv, NextInv, PTL DEF Spec

-----------------------------------------------------------------------------
(* What a decided intent says.                                             *)

\* Nothing of the intent is on the venue, or about to be sent, and the journal
\* says what it bought.
Closed ==
  /\ \A leg \in Legs : ~Pending(leg)
  /\ pc \in {"submit", "fallback"} => ~Ready("executor")
  /\ journal.filled = Bought

ClosedTruth ==
  /\ journal.status \in {"CANCELED", "FINALIZED"}
       /\ (journal.fbId => journal.filled > 0) => Closed
  /\ journal.status = "FILLED" => journal.filled = Target

\* The fills with which a thread may cancel the intent: the executor with that
\* of a maker order that has ended, before there is a fallback; recovery only
\* without any.
Ends(a) ==
  IF a = "executor"
  THEN IF /\ pc \in {"done", "fallback"} /\ order["fallback"].state = "none"
          /\ order["primary"].state \in {"none", "canceled", "filled"}
       THEN {order["primary"].filled} ELSE {}
  ELSE IF \/ journal.fbId
          \/ order["primary"].state = "canceled" /\ order["primary"].filled = 0
       THEN {0} ELSE {}

Conclusions(ends) ==
  {w \in Writes : /\ w.to = "FINALIZED" => w.filled \in {0, Keep}
                  /\ w.to = "CANCELED" => w.filled \in ends}

PlansConclusive == \A a \in Actors : todo[a].steps \in Seq(Conclusions(Ends(a)))

\* What two negative lookups in a row show once the intent is old enough.
NeverThere == journal.fbId \/ order["primary"].state \in {"none", "lost"}

Absent ==
  /\ ripe => pc \notin {"start", "submit"} /\ order["primary"].state # "inflight"
  /\ quorum > 0 => ripe
  /\ quorum > 0 /\ evidence = "negative" => NeverThere
  /\ quorum = 2 => NeverThere
  /\ snapshot # <<>> => (snapshot.fbId => journal.fbId)

Decided == ClosedTruth /\ PlansConclusive /\ Absent

LEMMA ConclusiveWrites ==
  ASSUME NEW ends
  PROVE  /\ \A to \in Statuses \ {"CANCELED"} : Write(to) \in Conclusions(ends)
         /\ \A to \in Statuses \ {"CANCELED", "FINALIZED"}, f \in Lots, leg \in Legs :
              WriteOrder(to, f, leg) \in Conclusions(ends)
         /\ \A leg \in Legs : WriteOrder("FINALIZED", 0, leg) \in Conclusions(ends)
         /\ \A f \in {0, Keep} : WriteFill("FINALIZED", f) \in Conclusions(ends)
         /\ \A f \in ends \cap Lots : WriteFill("CANCELED", f) \in Conclusions(ends)
         /\ \A f \in ends \cap Lots, leg \in Legs :
              WriteOrder("CANCELED", f, leg) \in Conclusions(ends)
         /\ \A f \in Lots : WriteFill("EVIDENCE", f) \in Conclusions(ends)
<1> USE DEF Conclusions, Writes, Ids, Lots, Keep, Legs, Statuses
<1>0. 0 \in Lots
  BY TargetAssumption
<1>1. \A to \in Statuses \ {"CANCELED"} : Write(to) \in Conclusions(ends)
  BY DEF Write
<1>2. /\ \A to \in Statuses \ {"CANCELED", "FINALIZED"}, f \in Lots, leg \in Legs :
           WriteOrder(to, f, leg) \in Conclusions(ends)
      /\ \A leg \in Legs : WriteOrder("FINALIZED", 0, leg) \in Conclusions(ends)
      /\ \A f \in ends \cap Lots, leg \in Legs :
           WriteOrder("CANCELED", f, leg) \in Conclusions(ends)
  BY <1>0 DEF WriteOrder
<1>3. /\ \A f \in {0, Keep} : WriteFill("FINALIZED", f) \in Conclusions(ends)
      /\ \A f \in ends \cap Lots : WriteFill("CANCELED", f) \in Conclusions(ends)
      /\ \A f \in Lots : WriteFill("EVIDENCE", f) \in Conclusions(ends)
  BY <1>0 DEF WriteFill
<1> QED BY <1>1, <1>2, <1>3

\* Plans stay conclusive as long as the endings do.
LEMMA ConclusiveStay ==
  ASSUME NEW ends, NEW more, ends \subseteq more,
         NEW steps \in Seq(Conclusions(ends))
  PROVE  steps \in Seq(Conclusions(more))
<1>1. Conclusions(ends) \subseteq Conclusions(more)
  BY DEF Conclusions
<1> QED BY <1>1, SeqMonotonic

LEMMA ExecutorEnds ==
  ASSUME pc \in {"done", "fallback"} => pc' \in {"done", "fallback"},
         order["fallback"].state = "none" => order'["fallback"].state = "none",
         order["primary"].state \in {"none", "canceled", "filled"} =>
           order'["primary"] = order["primary"]
  PROVE  Ends("executor") \subseteq Ends("executor")'
BY DEF Ends

LEMMA RecoveryEnds ==
  ASSUME journal.fbId => journal'.fbId,
         order["primary"].state = "canceled" => order'["primary"] = order["primary"]
  PROVE  Ends("recovery") \subseteq Ends("recovery")'
BY DEF Ends

\* An intent that is filled leaves nothing to buy.
LEMMA FullIsClosed ==
  ASSUME Inv, journal.filled = Target
  PROVE  Closed
<1> DEFINE p == order["primary"]
           f == order["fallback"]
<1>1. /\ TypeOK /\ Balanced /\ NoDoubleExposure /\ Procedure
      /\ OrderSound(p) /\ OrderSound(f)
  BY DEF Inv, Legs
<1>2. /\ p.filled \in Nat /\ f.filled \in Nat /\ p.size \in Nat /\ f.size \in Nat
      /\ Target \in Nat \ {0} /\ journal.fbFilled \in Nat /\ seen \in Nat
  BY <1>1, StateTypes DEF Legs, Lots
<1>3. Target <= p.filled + f.filled
  BY <1>1, <1>2 DEF Balanced
<1>4. p.filled + f.filled <= Target
  BY FillsFit
<1>5. p.filled + f.filled = Target
  BY <1>2, <1>3, <1>4
<1>6. ~Pending("primary") /\ ~Pending("fallback")
  <2>1. /\ Exposed("primary") = IF Pending("primary") THEN p.size ELSE p.filled
        /\ Exposed("fallback") = IF Pending("fallback") THEN f.size ELSE f.filled
        /\ Exposed("primary") + Exposed("fallback") <= Target
    BY <1>1 DEF Exposed, NoDoubleExposure
  <2>2. /\ Pending("primary") => p.filled < p.size
        /\ Pending("fallback") => f.filled < f.size
        /\ p.filled <= p.size /\ f.filled <= f.size
    BY <1>1 DEF Pending, OrderSound
  <2> HIDE DEF p, f
  <2> QED BY <1>2, <1>5, <2>1, <2>2
<1>7. pc \in {"submit", "fallback"} => ~Ready("executor")
  <2>1. CASE pc = "submit"
    <3>1. p.filled = 0 /\ f.filled = 0
      BY <1>1, <2>1 DEF Procedure, OrderSound
    <3> QED BY <1>2, <1>5, <3>1
  <2>2. CASE pc = "fallback"
    <3>1. p.filled < Target /\ f.filled = 0
      BY <1>1, <2>2 DEF Procedure, OrderSound
    <3> QED BY <1>2, <1>5, <3>1
  <2> QED BY <2>1, <2>2
<1> QED BY <1>5, <1>6, <1>7 DEF Closed, Bought, Legs

\* Before the second order has been named, the executor still has to name it.
LEMMA FallbackUnnamed ==
  ASSUME Procedure, pc = "fallback", ~journal.fbId
  PROVE  ~Ready("executor")
<1>1. \A x, y : <<x>> # <<>> /\ <<x, y>> # <<>>
  OBVIOUS
<1>2. CASE todo["executor"].steps
             = <<WriteFill("CANCELED", seen), Write("FALLBACK_SUBMITTING")>>
  BY <1>1, <1>2 DEF Ready
<1>3. CASE todo["executor"].steps = <<Write("FALLBACK_SUBMITTING")>>
  BY <1>1, <1>3 DEF Ready
<1> QED BY <1>2, <1>3 DEF Procedure

-----------------------------------------------------------------------------
(* Writes that decide.                                                     *)

LEMMA ApplyDecides ==
  ASSUME Inv, Decided, NEW a \in Actors, Apply(a)
  PROVE  Decided'
<1> DEFINE w == Head(todo[a].steps)
           rest == Tail(todo[a].steps)
           p == order["primary"]
           f == order["fallback"]
<1>t. TypeOK /\ Procedure /\ Traceable /\ OrderSound(p) /\ OrderSound(f)
  BY DEF Inv, Legs
<1>1. /\ todo[a].steps # <<>> /\ Admissible(w) /\ w.to # "EVIDENCE"
      /\ journal' = Transition(w) /\ Decide(a, rest, todo[a].mark)
      /\ UNCHANGED <<pc, seen, recoveryVars, venueVars>>
  BY DEF Apply, Ready
<1>2. todo[a].steps \in Seq(Conclusions(Ends(a)))
  BY DEF Decided, PlansConclusive
<1>3. w \in Conclusions(Ends(a)) /\ rest \in Seq(Conclusions(Ends(a)))
  BY <1>1, <1>2, HeadTailProperties
<1>4. \A c \in Actors : todo'[c].steps = IF c = a THEN rest ELSE todo[c].steps
  BY <1>1, <1>t DEF Decide, TypeOK
<1>5. /\ journal'.status = w.to /\ journal'.filled = Effective(w)
      /\ journal.fbId => journal'.fbId
      /\ journal'.fbId <=> journal.fbId \/ w.to = "FALLBACK_SUBMITTING"
  <2>1. journal \in Journals
    BY <1>t DEF TypeOK
  <2> HIDE DEF w
  <2> QED BY <1>1, <2>1 DEF Transition, Journals
<1>6. PlansConclusive'
  <2>1. /\ Ends("executor") \subseteq Ends("executor")'
        /\ Ends("recovery") \subseteq Ends("recovery")'
    BY <1>1, <1>5, ExecutorEnds, RecoveryEnds DEF venueVars
  <2>2. \A c \in Actors : Ends(c) \subseteq Ends(c)'
    BY <2>1 DEF Actors
  <2>3. \A c \in Actors : todo'[c].steps \in Seq(Conclusions(Ends(c)))
    BY <1>3, <1>4 DEF Decided, PlansConclusive
  <2> QED BY <2>2, <2>3, ConclusiveStay DEF PlansConclusive
<1>7. Absent'
  BY <1>1, <1>5 DEF Decided, Absent, NeverThere, recoveryVars, venueVars
<1>8. ClosedTruth'
  <2>1. /\ journal.filled \in Nat /\ Target \in Nat /\ p.filled \in Nat
        /\ w.filled \in Int /\ f.filled \in Nat
    <3>1. w \in Writes
      BY <1>3 DEF Conclusions
    <3> HIDE DEF w
    <3> QED BY <1>t, <3>1, StateTypes DEF Legs, Writes, Lots, Keep
  <2> HIDE DEF w, rest
  <2>2. /\ journal.filled <= Effective(w)
        /\ w.to \in Allowed(journal.status)
        /\ w.to = "FILLED" => Effective(w) = Target
    BY <1>1 DEF Admissible
  <2>3. CASE w.to = "FILLED"
    BY <1>5, <2>2, <2>3 DEF ClosedTruth
  <2>4. ASSUME a = "executor", w.to \in {"CANCELED", "FINALIZED"}
        PROVE  pc \in {"submit", "fallback"} => rest # <<>>
    <3>1. ASSUME NEW x, todo[a].steps = <<x>>
          PROVE  w = x
      BY <3>1 DEF w
    <3>2. ASSUME NEW x, NEW y, todo[a].steps = <<x, y>>
          PROVE  rest # <<>>
      BY <3>2 DEF rest
    <3> QED BY <1>1, <1>t, <2>4, <3>1, <3>2 DEF Procedure, Ready, Write
  <2>5. ASSUME w.to \in {"CANCELED", "FINALIZED"},
               pc \in {"submit", "fallback"}, Ready("executor")'
        PROVE  a = "recovery" /\ Ready("executor")
    <3>1. a # "executor"
      BY <1>4, <2>4, <2>5 DEF Ready
    <3> QED BY <1>4, <2>5, <3>1 DEF Ready, Actors
  <2>6. CASE w.to = "FINALIZED"
    <3>1. w.filled \in {0, Keep}
      BY <1>3, <2>6 DEF Conclusions
    <3>2. journal'.filled = journal.filled
      BY <1>5, <2>1, <2>2, <3>1 DEF Effective
    <3>3. journal.status \in {"CANCELED", "FILLED"}
      BY <2>2, <2>6 DEF Allowed
    <3>4. journal'.fbId <=> journal.fbId
      BY <1>5, <2>6
    <3>5. ASSUME journal'.fbId => journal'.filled > 0 PROVE Closed
      <4>1. CASE journal.status = "FILLED"
        BY <4>1, FullIsClosed DEF Decided, ClosedTruth
      <4>2. CASE journal.status = "CANCELED"
        BY <3>2, <3>4, <3>5, <4>2 DEF Decided, ClosedTruth
      <4> QED BY <3>3, <4>1, <4>2
    <3>6. Closed => Closed'
      BY <1>1, <2>5, <2>6, <3>2 DEF Closed, Pending, Bought, venueVars
    <3> QED BY <1>5, <2>6, <3>5, <3>6 DEF ClosedTruth
  <2>7. CASE w.to = "CANCELED"
    <3>1. w.filled \in Ends(a)
      BY <1>3, <2>7 DEF Conclusions
    <3>2. journal'.filled = w.filled
      <4>1. w.filled \in Nat
        BY <2>1, <3>1 DEF Ends
      <4> QED BY <1>5, <4>1 DEF Effective, Keep
    <3>3. CASE a = "executor"
      <4>1. /\ f.state = "none" /\ p.state \in {"none", "canceled", "filled"}
            /\ w.filled = p.filled
        BY <3>1, <3>3 DEF Ends
      <4>2. f.filled = 0
        BY <1>t, <4>1 DEF OrderSound
      <4>3. Closed'
        <5>1. \A leg \in Legs : ~Pending(leg)'
          BY <1>1, <4>1 DEF Pending, Legs, venueVars
        <5>2. journal'.filled = Bought'
          BY <1>1, <2>1, <3>2, <4>1, <4>2 DEF Bought, venueVars
        <5>3. pc' \in {"submit", "fallback"} => ~Ready("executor")'
          BY <1>1, <2>5, <2>7, <3>3
        <5> QED BY <5>1, <5>2, <5>3 DEF Closed
      <4> QED BY <1>5, <2>7, <4>3 DEF ClosedTruth
    <3>4. CASE a = "recovery"
      <4>1. w.filled = 0 /\ (journal.fbId \/ (p.state = "canceled" /\ p.filled = 0))
        BY <3>1, <3>4 DEF Ends
      <4>2. CASE journal.fbId
        BY <1>5, <2>7, <3>2, <4>1, <4>2 DEF ClosedTruth
      <4>3. CASE ~journal.fbId
        <5>1. p.state = "canceled" /\ p.filled = 0 /\ f.state = "none" /\ f.filled = 0
          BY <1>t, <4>1, <4>3 DEF Traceable, OrderSound
        <5>2. \A leg \in Legs : ~Pending(leg)'
          BY <1>1, <5>1 DEF Pending, Legs, venueVars
        <5>3. journal'.filled = Bought'
          BY <1>1, <3>2, <4>1, <5>1 DEF Bought, venueVars
        <5>4. pc \in {"submit", "fallback"} => ~Ready("executor")
          BY <1>t, <4>3, <5>1, FallbackUnnamed DEF Procedure
        <5>5. pc' \in {"submit", "fallback"} => ~Ready("executor")'
          BY <1>1, <2>5, <2>7, <5>4
        <5> QED BY <1>5, <2>7, <5>2, <5>3, <5>5 DEF ClosedTruth, Closed
      <4> QED BY <4>2, <4>3
    <3> QED BY <3>3, <3>4 DEF Actors
  <2> QED BY <1>5, <2>3, <2>6, <2>7 DEF ClosedTruth
<1> QED BY <1>6, <1>7, <1>8 DEF Decided

LEMMA RecordFallbackDecides ==
  ASSUME Inv, Decided, NEW a \in Actors, RecordFallback(a)
  PROVE  Decided'
<1> DEFINE rest == IF journal'.filled = Target
                   THEN <<WriteOrder("FILLED", Target, "fallback"), Finish>>
                   ELSE <<>>
<1>t. TypeOK
  BY DEF Inv
<1>1. /\ Decide(a, rest, TRUE)
      /\ UNCHANGED <<pc, seen, recoveryVars, venueVars>>
  <2>1. journal' = Merged(Head(todo[a].steps))
    BY DEF RecordFallback
  <2> QED BY <2>1 DEF RecordFallback
<1>2. ASSUME NEW ends PROVE rest \in Seq(Conclusions(ends))
  <2>1. Target \in Lots
    BY TargetAssumption DEF Lots
  <2>2. /\ WriteOrder("FILLED", Target, "fallback") \in Conclusions(ends)
        /\ Finish \in Conclusions(ends)
    BY <2>1, ConclusiveWrites DEF Statuses, Legs, Finish
  <2> QED BY <2>2, ShortPlans
<1> HIDE DEF rest
<1>3. \A c \in Actors : todo'[c].steps = IF c = a THEN rest ELSE todo[c].steps
  BY <1>1, <1>t DEF Decide, TypeOK
<1>4. \A c \in Actors : Ends(c) \subseteq Ends(c)'
  <2>1. /\ Ends("executor") \subseteq Ends("executor")'
        /\ Ends("recovery") \subseteq Ends("recovery")'
    BY <1>1, FallbackRow, ExecutorEnds, RecoveryEnds DEF venueVars
  <2> QED BY <2>1 DEF Actors
<1>5. PlansConclusive'
  <2>1. \A c \in Actors : todo'[c].steps \in Seq(Conclusions(Ends(c)))
    BY <1>2, <1>3 DEF Decided, PlansConclusive
  <2> QED BY <1>4, <2>1, ConclusiveStay DEF PlansConclusive
<1>6. ClosedTruth'
  BY FallbackRow DEF ClosedTruth
<1>7. Absent'
  BY <1>1, FallbackRow DEF Decided, Absent, NeverThere, recoveryVars, venueVars
<1> QED BY <1>5, <1>6, <1>7 DEF Decided

\* The row is not written: what is closed stays closed if it is left alone.
LEMMA ClosedStays ==
  ASSUME ClosedTruth, UNCHANGED journal, Closed => Closed'
  PROVE  ClosedTruth'
BY DEF ClosedTruth

LEMMA AbandonDecides ==
  ASSUME Inv, Decided, NEW a \in Actors, Refused(a) \/ TransactionFails(a)
  PROVE  Decided'
<1>t. TypeOK /\ Procedure
  BY DEF Inv
<1>1. PICK mark \in BOOLEAN : Abandon(a, mark)
  BY <1>t, StateTypes DEF Refused, TransactionFails
<1>2. UNCHANGED <<journal, seen, recoveryVars, venueVars>>
  BY DEF Refused, TransactionFails
<1> DEFINE rest == IF mark THEN <<Recover>> ELSE <<>>
<1>3. Decide(a, rest, FALSE) /\ pc' = IF a = "executor" THEN "done" ELSE pc
  BY <1>1 DEF Abandon
<1>4. ASSUME NEW ends PROVE rest \in Seq(Conclusions(ends))
  <2>1. Recover \in Conclusions(ends)
    BY ConclusiveWrites DEF Recover, Statuses
  <2> QED BY <2>1, ShortPlans
<1> HIDE DEF rest
<1>5. \A c \in Actors : todo'[c].steps = IF c = a THEN rest ELSE todo[c].steps
  BY <1>3, <1>t DEF Decide, TypeOK
<1>6. \A c \in Actors : Ends(c) \subseteq Ends(c)'
  <2>1. /\ Ends("executor") \subseteq Ends("executor")'
        /\ Ends("recovery") \subseteq Ends("recovery")'
    BY <1>2, <1>3, ExecutorEnds, RecoveryEnds DEF venueVars
  <2> QED BY <2>1 DEF Actors
<1>7. PlansConclusive'
  <2>1. \A c \in Actors : todo'[c].steps \in Seq(Conclusions(Ends(c)))
    BY <1>4, <1>5 DEF Decided, PlansConclusive
  <2> QED BY <1>6, <2>1, ConclusiveStay DEF PlansConclusive
<1>8. ClosedTruth'
  <2>1. Closed => Closed'
    <3>1. a # "executor" => (Ready("executor")' <=> Ready("executor"))
      BY <1>5 DEF Ready, Actors
    <3> QED BY <1>2, <1>3, <3>1 DEF Closed, Pending, Bought, venueVars
  <2> QED BY <1>2, <2>1, ClosedStays DEF Decided
<1>9. Absent'
  BY <1>2, <1>3 DEF Decided, Absent, NeverThere, recoveryVars, venueVars
<1> QED BY <1>7, <1>8, <1>9 DEF Decided

-----------------------------------------------------------------------------
(* The executor.                                                           *)

\* The executor decides what to write, and goes on or ends.
LEMMA DecisionDecides ==
  ASSUME Inv, Decided, NEW steps, NEW mark, Decide("executor", steps, mark),
         UNCHANGED <<journal, recoveryVars, venueVars>>,
         steps \in Seq(Conclusions(Ends("executor")')),
         pc' \in {"submit", "fallback"} => steps # <<>>,
         ripe => pc' \notin {"start", "submit"}
  PROVE  Decided'
<1>t. TypeOK
  BY DEF Inv
<1>1. /\ todo'["executor"].steps = steps
      /\ todo'["recovery"].steps = todo["recovery"].steps
  BY <1>t DEF Decide, TypeOK, Actors
<1>2. PlansConclusive'
  <2>1. Ends("recovery")' = Ends("recovery")
    BY DEF Ends, venueVars
  <2>2. todo["recovery"].steps \in Seq(Conclusions(Ends("recovery")))
    BY DEF Decided, PlansConclusive, Actors
  <2> QED BY <1>1, <2>1, <2>2 DEF PlansConclusive, Actors
<1>3. Closed => Closed'
  BY <1>1 DEF Closed, Pending, Bought, Ready, venueVars
<1>4. ClosedTruth'
  BY <1>3, ClosedStays DEF Decided
<1>5. Absent'
  BY DEF Decided, Absent, NeverThere, recoveryVars, venueVars
<1> QED BY <1>2, <1>4, <1>5 DEF Decided

LEMMA ObservedConclusive ==
  ASSUME NEW ends, NEW o, o.filled \in Lots
  PROVE  Observed(o) \in Seq(Conclusions(ends))
<1> DEFINE partial == WriteOrder("PARTIAL", o.filled, "primary")
           full == WriteOrder("FILLED", Target, "primary")
           last == IF Terminal(o) THEN <<Recover>> ELSE <<>>
<1>1. Target \in Lots
  BY TargetAssumption DEF Lots
<1>2. /\ partial \in Conclusions(ends) /\ full \in Conclusions(ends)
      /\ Recover \in Conclusions(ends) /\ Finish \in Conclusions(ends)
  BY <1>1, ConclusiveWrites DEF Statuses, Legs, Recover, Finish
<1>3. Observed(o) = IF o.filled = Target THEN <<full, Finish>>
                    ELSE IF o.filled > 0 THEN <<partial>> \o last ELSE <<>>
  BY DEF Observed
<1>4. /\ <<partial>> \in Seq(Conclusions(ends)) /\ last \in Seq(Conclusions(ends))
      /\ <<full, Finish>> \in Seq(Conclusions(ends))
      /\ <<>> \in Seq(Conclusions(ends))
  BY <1>2, ShortPlans
<1> HIDE DEF partial, full, last
<1>5. <<partial>> \o last \in Seq(Conclusions(ends))
  BY <1>4, ConcatProperties
<1> QED BY <1>3, <1>4, <1>5

LEMMA EndingDecides ==
  ASSUME Inv, Decided, Blocked \/ CallFails \/ MarketAnswer \/ FallbackAnswer
  PROVE  Decided'
<1> DEFINE o == order["primary"]
           ends == Ends("executor")'
<1>t. TypeOK /\ Procedure /\ OrderSound(o)
  BY DEF Inv, Legs
<1>f. /\ o.filled \in Lots /\ 0 \in Lots /\ seen \in Lots
      /\ order["fallback"].filled \in Lots /\ o.filled \in Nat /\ seen \in Nat
  BY <1>t, StateTypes DEF Lots, Legs
<1>1. pc' = "done" /\ UNCHANGED <<seen, journal, recoveryVars, venueVars>>
  BY DEF Blocked, CallFails, MarketAnswer, FallbackAnswer
<1>2. ASSUME NEW steps \in Seq(Conclusions(ends)), NEW mark,
             Decide("executor", steps, mark)
      PROVE  Decided'
  BY <1>1, <1>2, DecisionDecides
<1>e. order["fallback"].state = "none" /\ o.state \in {"none", "canceled", "filled"}
        => o.filled \in ends
  BY <1>1 DEF Ends, venueVars
<1> HIDE DEF ends
<1>3. CASE Blocked
  <2>1. /\ pc \in {"start", "submit", "fallback"}
        /\ Decide("executor", NotSubmitted(seen), FALSE)
    BY <1>3 DEF Blocked, At
  <2>2. order["fallback"].state = "none" /\ o.state \in {"none", "canceled"}
    BY <1>t, <2>1 DEF Procedure
  <2>3. seen = o.filled
    BY <1>f, <1>t, <2>1 DEF Procedure, OrderSound
  <2>4. /\ WriteFill("CANCELED", seen) \in Conclusions(ends)
        /\ Recover \in Conclusions(ends)
        /\ WriteFill("FINALIZED", IF seen = 0 THEN 0 ELSE Keep) \in Conclusions(ends)
    BY <1>e, <1>f, <2>2, <2>3, ConclusiveWrites DEF Recover, Statuses
  <2>5. NotSubmitted(seen) \in Seq(Conclusions(ends))
    BY <2>4, ShortPlans DEF NotSubmitted
  <2> QED BY <1>2, <2>1, <2>5
<1>4. CASE CallFails
  <2>1. <<Recover>> \in Seq(Conclusions(ends))
    BY ConclusiveWrites, ShortPlans DEF Recover, Statuses
  <2> QED BY <1>2, <1>4, <2>1 DEF CallFails
<1>5. CASE MarketAnswer
  <2> DEFINE canceled ==
               <<Write("CANCELING"), WriteOrder("CANCELED", 0, "primary"),
                 WriteFill("FINALIZED", 0)>>
             last == IF Terminal(o) THEN canceled ELSE <<>>
             answered == <<WriteOrder("OPEN", 0, "primary")>> \o last
  <2>1. /\ Decide("executor", IF o.filled > 0 THEN Observed(o) ELSE answered, TRUE)
        /\ order["fallback"].state = "none"
    BY <1>5, <1>t DEF MarketAnswer, At, Procedure
  <2>2. ASSUME ~(o.filled > 0) PROVE answered \in Seq(Conclusions(ends))
    <3>1. o.filled = 0
      BY <1>f, <2>2
    <3>2. Terminal(o) => 0 \in ends
      BY <1>e, <2>1, <3>1 DEF Terminal
    <3>3. Terminal(o) => canceled \in Seq(Conclusions(ends))
      BY <1>f, <3>2, ConclusiveWrites, ShortPlans DEF Statuses, Legs
    <3>4. <<WriteOrder("OPEN", 0, "primary")>> \in Seq(Conclusions(ends))
      BY <1>f, ConclusiveWrites, ShortPlans DEF Statuses, Legs
    <3> HIDE DEF canceled
    <3>5. last \in Seq(Conclusions(ends))
      BY <3>3, ShortPlans
    <3> HIDE DEF last
    <3> QED BY <3>4, <3>5, ConcatProperties
  <2>3. Observed(o) \in Seq(Conclusions(ends))
    BY <1>f, ObservedConclusive
  <2> HIDE DEF answered
  <2> QED BY <1>2, <2>1, <2>2, <2>3
<1>6. CASE FallbackAnswer
  <2>1. <<WriteFill("EVIDENCE", order["fallback"].filled)>> \in Seq(Conclusions(ends))
    BY <1>f, ConclusiveWrites, ShortPlans
  <2> QED BY <1>2, <1>6, <2>1 DEF FallbackAnswer
<1> QED BY <1>3, <1>4, <1>5, <1>6

LEMMA MakerDecides ==
  ASSUME Inv, Decided, NEW MarketFallback \in BOOLEAN,
         MakerAnswer \/ Refresh \/ VerifyCancel(MarketFallback) \/ Begin
  PROVE  Decided'
<1> DEFINE o == order["primary"]
           ends == Ends("executor")'
<1>t. TypeOK /\ Procedure
  BY DEF Inv
<1>f. o.filled \in Lots /\ 0 \in Lots
  BY <1>t, StateTypes DEF Lots, Legs
<1>1. UNCHANGED <<journal, recoveryVars, venueVars>>
  BY DEF MakerAnswer, Refresh, VerifyCancel, Begin
<1>2. ASSUME NEW steps \in Seq(Conclusions(ends)), NEW mark,
             Decide("executor", steps, mark),
             pc' \in {"submit", "fallback"} => steps # <<>>,
             ripe => pc' \notin {"start", "submit"}
      PROVE  Decided'
  BY <1>1, <1>2, DecisionDecides
<1>e. order["fallback"].state = "none" /\ o.state = "canceled"
      /\ pc' \in {"done", "fallback"} => o.filled \in ends
  BY <1>1 DEF Ends, venueVars
<1> HIDE DEF ends
<1>3. CASE MakerAnswer
  <2>1. /\ pc' \notin {"start", "submit", "fallback"}
        /\ Decide("executor", IF o.filled > 0 THEN Observed(o)
                              ELSE <<WriteOrder("OPEN", 0, "primary")>>, TRUE)
    BY <1>3 DEF MakerAnswer
  <2>2. /\ <<WriteOrder("OPEN", 0, "primary")>> \in Seq(Conclusions(ends))
        /\ Observed(o) \in Seq(Conclusions(ends))
    BY <1>f, ConclusiveWrites, ShortPlans, ObservedConclusive DEF Statuses, Legs
  <2> QED BY <1>2, <2>1, <2>2
<1>4. CASE Refresh
  <2> DEFINE rest == IF o.filled > 0 /\ Terminal(o) THEN <<>>
                                                    ELSE <<Write("CANCELING")>>
  <2>1. /\ pc' \notin {"start", "submit", "fallback"}
        /\ Decide("executor", Observed(o) \o rest, TRUE)
    BY <1>4 DEF Refresh
  <2>2. rest \in Seq(Conclusions(ends)) /\ Observed(o) \in Seq(Conclusions(ends))
    BY <1>f, ConclusiveWrites, ShortPlans, ObservedConclusive DEF Statuses
  <2> HIDE DEF rest
  <2>3. Observed(o) \o rest \in Seq(Conclusions(ends))
    BY <2>2, ConcatProperties
  <2> QED BY <1>2, <2>1, <2>3
<1>5. CASE VerifyCancel(MarketFallback)
  <2> DEFINE last == IF o.filled = Target \/ ~MarketFallback
                     THEN WriteFill("FINALIZED", IF o.filled = 0 THEN 0 ELSE Keep)
                     ELSE Write("FALLBACK_SUBMITTING")
             plan == <<WriteFill("CANCELED", o.filled), last>>
  <2>1. /\ pc = "verify" /\ o.state = "canceled"
        /\ pc' \in {"done", "fallback"} /\ Decide("executor", plan, TRUE)
    BY <1>5 DEF VerifyCancel, At
  <2>2. order["fallback"].state = "none"
    BY <1>t, <2>1 DEF Procedure
  <2>3. /\ WriteFill("CANCELED", o.filled) \in Conclusions(ends)
        /\ last \in Conclusions(ends)
    BY <1>e, <1>f, <2>1, <2>2, ConclusiveWrites DEF Statuses
  <2>4. plan \in Seq(Conclusions(ends)) /\ plan # <<>>
    <3> HIDE DEF last
    <3> QED BY <2>3, ShortPlans
  <2> HIDE DEF plan
  <2> QED BY <1>2, <2>1, <2>4
<1>6. CASE Begin
  <2>1. pc = "start" /\ Decide("executor", <<Write("SUBMITTING")>>, FALSE)
    BY <1>6 DEF Begin, At
  <2>2. <<Write("SUBMITTING")>> \in Seq(Conclusions(ends))
    BY ConclusiveWrites, ShortPlans DEF Statuses
  <2>3. ~ripe
    BY <2>1 DEF Decided, Absent
  <2> QED BY <1>2, <2>1, <2>2, <2>3
<1> QED BY <1>3, <1>4, <1>5, <1>6

\* An order moves: neither the end of one nor the absence of one is undone.
LEMMA MoveDecides ==
  ASSUME Inv, Decided, UNCHANGED <<journal, todo, recoveryVars, ripe>>,
         Closed => Closed',
         ~Ready("executor") =>
           /\ pc' = pc
           /\ order["fallback"].state = "none" => order'["fallback"].state = "none"
           /\ order["primary"].state = "none" => order'["primary"] = order["primary"],
         order["primary"].state \in {"canceled", "filled"} =>
           order'["primary"] = order["primary"],
         ripe => /\ pc' \notin {"start", "submit"}
                 /\ order'["primary"].state # "inflight"
                 /\ order["primary"].state \in {"none", "lost"} =>
                      order'["primary"] = order["primary"]
  PROVE  Decided'
<1>1. PlansConclusive'
  <2>1. todo["recovery"].steps \in Seq(Conclusions(Ends("recovery")'))
    <3>1. todo["recovery"].steps \in Seq(Conclusions(Ends("recovery")))
      BY DEF Decided, PlansConclusive, Actors
    <3>2. Ends("recovery") \subseteq Ends("recovery")'
      BY RecoveryEnds
    <3> QED BY <3>1, <3>2, ConclusiveStay
  <2>2. todo["executor"].steps \in Seq(Conclusions(Ends("executor")'))
    <3>1. todo["executor"].steps \in Seq(Conclusions(Ends("executor")))
      BY DEF Decided, PlansConclusive, Actors
    <3>2. CASE ~Ready("executor")
      <4>1. Ends("executor") \subseteq Ends("executor")'
        BY <3>2, ExecutorEnds
      <4> QED BY <3>1, <4>1, ConclusiveStay
    <3>3. CASE Ready("executor")
      BY <3>3, ShortPlans DEF Ready
    <3> QED BY <3>2, <3>3
  <2> QED BY <2>1, <2>2 DEF PlansConclusive, Actors
<1>2. ClosedTruth'
  BY ClosedStays DEF Decided
<1>3. Absent'
  BY DEF Decided, Absent, NeverThere, recoveryVars
<1> QED BY <1>1, <1>2, <1>3 DEF Decided

LEMMA SubmissionDecides ==
  ASSUME Inv, Decided, SubmitPrimary \/ CancelMaker \/ SubmitFallback
  PROVE  Decided'
<1>t. TypeOK /\ Procedure
  BY DEF Inv
<1>0. DOMAIN order = Legs
  BY <1>t DEF TypeOK
<1>1. CASE SubmitPrimary
  <2>1. /\ pc = "submit" /\ Ready("executor") /\ pc' = "sent"
        /\ UNCHANGED <<journal, todo, recoveryVars, ripe>>
    BY <1>1 DEF SubmitPrimary, At
  <2>2. order["primary"].state = "none" /\ ~ripe /\ ~Closed
    BY <1>t, <2>1 DEF Procedure, Decided, Absent, Closed
  <2> QED BY <2>1, <2>2, MoveDecides
<1>2. CASE SubmitFallback
  <2>1. /\ pc = "fallback" /\ Ready("executor") /\ pc' = "fallback_sent"
        /\ UNCHANGED <<journal, todo, recoveryVars, ripe>>
        /\ order'["primary"] = order["primary"]
    BY <1>0, <1>2 DEF SubmitFallback, At, Submit, Legs
  <2>2. ~Closed
    BY <2>1 DEF Closed
  <2> QED BY <2>1, <2>2, MoveDecides DEF Decided, Absent
<1>3. CASE CancelMaker
  <2>1. /\ pc = "cancel" /\ Ready("executor") /\ pc' = "verify"
        /\ UNCHANGED <<journal, todo, recoveryVars, ripe>>
    BY <1>3 DEF CancelMaker, At
  <2>2. \/ /\ order["primary"].state = "live"
           /\ order'["primary"].state = "canceled"
        \/ order' = order
    <3>1. CASE order' = order
      BY <3>1
    <3>2. CASE /\ order["primary"].state = "live"
               /\ order' = [order EXCEPT !["primary"].state = "canceled"]
      <4>1. order["primary"] \in Orders
        BY <1>t DEF TypeOK, Legs
      <4> QED BY <1>0, <3>2, <4>1 DEF Legs, Orders
    <3> QED BY <1>3, <3>1, <3>2 DEF CancelMaker
  <2>3. Closed => order' = order
    BY <2>2 DEF Closed, Pending, Legs
  <2>4. Closed => Closed'
    BY <2>1, <2>3 DEF Closed, Pending, Bought
  <2> QED BY <2>1, <2>2, <2>4, MoveDecides DEF Decided, Absent
<1> QED BY <1>1, <1>2, <1>3

LEMMA VenueDecides ==
  ASSUME Inv, Decided, NEW leg \in Legs,
         Arrive(leg) \/ Fill(leg) \/ VenueCancels(leg)
  PROVE  Decided'
<1>t. TypeOK
  BY DEF Inv
<1>0. DOMAIN order = Legs
  BY <1>t DEF TypeOK
<1>1. PICK new :
        /\ order' = [order EXCEPT ![leg] = new]
        /\ order[leg].state \in {"inflight", "live"}
        /\ new.state # "inflight"
        /\ UNCHANGED <<journal, pc, seen, todo, recoveryVars, ripe, outage>>
  <2>1. order[leg] \in Orders
    BY <1>t DEF TypeOK
  <2>2. ASSUME NEW new, Move(leg, new), new.state # "inflight",
               order[leg].state \in {"inflight", "live"}
        PROVE  \E n : /\ order' = [order EXCEPT ![leg] = n]
                      /\ order[leg].state \in {"inflight", "live"}
                      /\ n.state # "inflight"
                      /\ UNCHANGED <<journal, pc, seen, todo, recoveryVars, ripe,
                                     outage>>
    BY <2>2 DEF Move
  <2>3. CASE Arrive(leg)
    <3>1. PICK state \in {"live", "canceled", "lost"} :
                 Move(leg, [order[leg] EXCEPT !.state = state])
      BY <2>3 DEF Arrive
    <3> QED BY <2>1, <2>2, <2>3, <3>1 DEF Arrive, Orders
  <2>4. CASE Fill(leg)
    <3> DEFINE n == [order[leg] EXCEPT
                       !.filled = order[leg].filled + 1,
                       !.state = IF order[leg].filled + 1 = order[leg].size
                                 THEN "filled" ELSE "live"]
    <3>1. Move(leg, n) /\ order[leg].state = "live"
      BY <2>4 DEF Fill
    <3>2. n.state # "inflight"
      BY <2>1 DEF Orders
    <3> QED BY <2>2, <3>1, <3>2
  <2>5. CASE VenueCancels(leg)
    BY <2>1, <2>2, <2>5 DEF VenueCancels, Orders
  <2> QED BY <2>3, <2>4, <2>5
<1>2. \A l \in Legs : order'[l] = IF l = leg THEN new ELSE order[l]
  BY <1>0, <1>1
<1>3. ~Closed
  BY <1>1 DEF Closed, Pending
<1>4. \A l \in Legs : order[l].state \in {"none", "canceled", "filled", "lost"} =>
                        order'[l] = order[l]
  BY <1>1, <1>2
<1>5. order["primary"].state # "inflight" => order'["primary"].state # "inflight"
  BY <1>1, <1>2 DEF Legs
<1> QED BY <1>1, <1>3, <1>4, <1>5, MoveDecides DEF Decided, Absent, Legs

-----------------------------------------------------------------------------
(* Recovery, and time.                                                     *)

\* Recovery gives up an intent only on the evidence of its maker order.
LEMMA RecoveryConclusive ==
  ASSUME Inv, Decided, snapshot # <<>>
  PROVE  /\ LET o == order[SoughtLeg(snapshot)]
            IN o.state = "canceled" /\ o.filled = 0 =>
                 ZeroFillPlan(snapshot, SoughtLeg(snapshot))
                   \in Seq(Conclusions(Ends("recovery")))
         /\ FallbackPlan(snapshot, order["fallback"])
              \in Seq(Conclusions(Ends("recovery")))
         /\ FullPlan(snapshot) \in Seq(Conclusions(Ends("recovery")))
         /\ ~snapshot.fbId => PartialPlan(snapshot, order["primary"])
                                \in Seq(Conclusions(Ends("recovery")))
<1> DEFINE p == order["primary"]
           f == order["fallback"]
           leg == SoughtLeg(snapshot)
           ends == Ends("recovery")
           C == Conclusions(ends)
<1>t. TypeOK
  BY DEF Inv
<1>0. p.filled \in Lots /\ f.filled \in Lots /\ Target \in Lots /\ 0 \in Lots
  BY <1>t, StateTypes DEF Lots, Legs
<1>1. snapshot \in Journals /\ snapshot.filled \in Lots
  BY <1>t DEF TypeOK, Journals
<1>2. leg \in Legs /\ (snapshot.fbId => leg = "fallback")
      /\ (~snapshot.fbId => leg = "primary")
  BY DEF SoughtLeg, Legs
<1>3. order[leg].state = "canceled" /\ order[leg].filled = 0 => 0 \in ends
  BY <1>2 DEF Ends, Decided, Absent
<1> HIDE DEF leg, ends
<1>4. /\ <<Recover>> \in Seq(C) /\ <<Finish>> \in Seq(C)
      /\ <<Write("SUBMITTING")>> \in Seq(C) /\ <<>> \in Seq(C)
  BY ConclusiveWrites, ShortPlans DEF Recover, Finish, Statuses
<1>5. ASSUME 0 \in ends PROVE ZeroFillPlan(snapshot, leg) \in Seq(C)
  <2> DEFINE first == IF snapshot.status = "RECOVERY_REQUIRED" THEN <<>>
                      ELSE <<WriteOrder("RECOVERY_REQUIRED", 0, leg)>>
             rest == <<WriteOrder("CANCELED", 0, leg), WriteFill("FINALIZED", 0)>>
  <2>1. /\ WriteOrder("FINALIZED", 0, leg) \in C
        /\ WriteOrder("RECOVERY_REQUIRED", 0, leg) \in C
        /\ WriteOrder("CANCELED", 0, leg) \in C
        /\ WriteFill("FINALIZED", 0) \in C
    BY <1>0, <1>2, <1>5, ConclusiveWrites DEF Statuses
  <2>2. /\ <<WriteOrder("FINALIZED", 0, leg)>> \in Seq(C)
        /\ first \in Seq(C) /\ rest \in Seq(C)
    BY <2>1, ShortPlans
  <2>3. ZeroFillPlan(snapshot, leg)
          = IF snapshot.status = "CANCELED" THEN <<WriteOrder("FINALIZED", 0, leg)>>
                                            ELSE first \o rest
    BY DEF ZeroFillPlan
  <2> HIDE DEF first, rest
  <2>4. first \o rest \in Seq(C)
    BY <2>2, ConcatProperties
  <2> QED BY <2>2, <2>3, <2>4
<1>6. FallbackPlan(snapshot, f) \in Seq(C)
  <2>1. <<WriteFill("EVIDENCE", f.filled)>> \in Seq(C)
    BY <1>0, ConclusiveWrites, ShortPlans
  <2> QED BY <1>4, <2>1 DEF FallbackPlan
<1>7. FullPlan(snapshot) \in Seq(C)
  <2> DEFINE first == IF snapshot.status = "PREPARED" THEN <<Write("SUBMITTING")>>
                                                      ELSE <<>>
             filled == IF snapshot.status = "FILLED" THEN <<>>
                       ELSE <<WriteOrder("FILLED", Target, "primary")>>
  <2>1. <<WriteOrder("FILLED", Target, "primary")>> \in Seq(C)
    BY <1>0, ConclusiveWrites, ShortPlans DEF Statuses, Legs
  <2>2. first \in Seq(C) /\ filled \in Seq(C)
    BY <1>4, <2>1
  <2>3. FullPlan(snapshot) = (first \o filled) \o <<Finish>>
    BY DEF FullPlan
  <2> HIDE DEF first, filled
  <2>4. first \o filled \in Seq(C)
    BY <2>2, ConcatProperties
  <2> QED BY <1>4, <2>3, <2>4, ConcatProperties
<1>8. PartialPlan(snapshot, p) \in Seq(C)
  <2> DEFINE first == IF snapshot.status = "PREPARED" THEN <<Write("SUBMITTING")>>
                                                      ELSE <<>>
             fill == IF snapshot.status = "PARTIAL"
                     THEN LargerOf(snapshot.filled, p.filled) ELSE p.filled
             last == IF Terminal(p) THEN <<Recover>> ELSE <<>>
  <2>1. fill \in Lots
    BY <1>0, <1>1 DEF LargerOf
  <2>2. first \in Seq(C) /\ last \in Seq(C)
    BY <1>4
  <2> HIDE DEF fill, first, last
  <2>3. /\ <<WriteOrder("PARTIAL", fill, "primary")>> \in Seq(C)
        /\ <<WriteOrder("RECOVERY_REQUIRED", p.filled, "primary")>> \in Seq(C)
    BY <1>0, <2>1, ConclusiveWrites, ShortPlans DEF Statuses, Legs
  <2>4. first \o <<WriteOrder("PARTIAL", fill, "primary")>> \in Seq(C)
    BY <2>2, <2>3, ConcatProperties
  <2>5. (first \o <<WriteOrder("PARTIAL", fill, "primary")>>) \o last \in Seq(C)
    BY <2>2, <2>4, ConcatProperties
  <2> QED BY <1>4, <2>3, <2>5 DEF PartialPlan, fill, first, last
<1> QED BY <1>3, <1>5, <1>6, <1>7, <1>8 DEF leg, ends

LEMMA LookupDecides ==
  ASSUME Inv, Decided, LookupEmpty \/ LookupFound
  PROVE  Decided'
<1>t. TypeOK
  BY DEF Inv
<1>1. /\ snapshot # <<>> /\ snapshot' = <<>>
      /\ UNCHANGED <<journal, pc, seen, quorum, venueVars>>
  BY DEF LookupEmpty, LookupFound
<1>2. Absent'
  <2>1. ASSUME evidence' = "negative", quorum > 0 PROVE NeverThere
    <3>1. LookupEmpty /\ ~Answered(SoughtLeg(snapshot)) /\ ripe
      BY <2>1 DEF LookupEmpty, LookupFound, Decided, Absent
    <3>2. CASE snapshot.fbId
      BY <1>1, <3>2 DEF Decided, Absent, NeverThere
    <3>3. CASE ~snapshot.fbId
      <4>1. ~Answered("primary") /\ order["primary"].state # "inflight"
        BY <3>1, <3>3 DEF SoughtLeg, Decided, Absent
      <4>2. order["primary"] \in Orders
        BY <1>t DEF TypeOK, Legs
      <4> QED BY <4>1, <4>2 DEF Answered, Orders, NeverThere
    <3> QED BY <3>2, <3>3
  <2> QED BY <1>1, <2>1 DEF Decided, Absent, NeverThere, venueVars
<1>3. ASSUME NEW steps \in Seq(Conclusions(Ends("recovery"))), NEW mark,
             Decide("recovery", steps, mark)
      PROVE  Decided'
  <2>1. /\ todo'["recovery"].steps = steps
        /\ todo'["executor"].steps = todo["executor"].steps
    BY <1>3, <1>t DEF Decide, TypeOK, Actors
  <2>2. Ends("executor")' = Ends("executor") /\ Ends("recovery")' = Ends("recovery")
    BY <1>1 DEF Ends, venueVars
  <2>3. todo["executor"].steps \in Seq(Conclusions(Ends("executor")))
    BY DEF Decided, PlansConclusive, Actors
  <2>4. PlansConclusive'
    BY <2>1, <2>2, <2>3 DEF PlansConclusive, Actors
  <2>5. Closed => Closed'
    BY <1>1, <2>1 DEF Closed, Pending, Bought, Ready, venueVars
  <2>6. ClosedTruth'
    BY <1>1, <2>5, ClosedStays DEF Decided
  <2> QED BY <1>2, <2>4, <2>6 DEF Decided
<1>4. CASE LookupEmpty
  <2> DEFINE rest == IF snapshot.status \in {"PREPARED", "SUBMITTING"}
                     THEN <<Recover>> ELSE <<>>
  <2>1. rest \in Seq(Conclusions(Ends("recovery")))
    BY ConclusiveWrites, ShortPlans DEF Recover, Statuses
  <2>2. Decide("recovery", rest, FALSE)
    BY <1>4 DEF LookupEmpty
  <2> HIDE DEF rest
  <2> QED BY <1>3, <2>1, <2>2
<1>5. CASE LookupFound
  <2> DEFINE leg == SoughtLeg(snapshot)
             o == order[leg]
             S == Seq(Conclusions(Ends("recovery")))
             zero == o.state = "canceled" /\ o.filled = 0 /\ snapshot.filled = 0
             full == ~snapshot.fbId /\ o.filled = Target
             partial == ~snapshot.fbId /\ o.filled > 0 /\ o.filled < Target
             plan == CASE zero -> ZeroFillPlan(snapshot, leg)
                       [] ~zero /\ snapshot.fbId -> FallbackPlan(snapshot, o)
                       [] full -> FullPlan(snapshot)
                       [] partial -> PartialPlan(snapshot, o)
                       [] OTHER -> <<>>
             mark == zero \/ full \/ snapshot.status # "RECOVERY_REQUIRED"
  <2>1. Decide("recovery", plan, mark)
    BY <1>5 DEF LookupFound
  <2>2. /\ snapshot.fbId => leg = "fallback"
        /\ ~snapshot.fbId => leg = "primary"
    BY DEF SoughtLeg
  <2>3. /\ zero => ZeroFillPlan(snapshot, leg) \in S
        /\ snapshot.fbId => FallbackPlan(snapshot, order["fallback"]) \in S
        /\ FullPlan(snapshot) \in S
        /\ ~snapshot.fbId => PartialPlan(snapshot, order["primary"]) \in S
        /\ <<>> \in S
    BY <1>1, RecoveryConclusive, ShortPlans
  <2> HIDE DEF leg, S, mark
  <2>4. /\ snapshot.fbId => FallbackPlan(snapshot, o) \in S
        /\ partial => PartialPlan(snapshot, o) \in S
    BY <2>2, <2>3
  <2> HIDE DEF o, zero, full, partial
  <2>5. plan \in S
    BY <2>3, <2>4
  <2> HIDE DEF plan
  <2> QED BY <1>3, <2>1, <2>5 DEF S
<1> QED BY <1>4, <1>5

LEMMA PassDecides ==
  ASSUME Inv, Decided,
         StartPass \/ RecordEvidence \/ FinalizeAbsent \/ Crash
         \/ Ripen \/ OutageEnds \/ UNCHANGED vars
  PROVE  Decided'
<1>t. TypeOK /\ Procedure /\ Traceable
      /\ OrderSound(order["primary"]) /\ OrderSound(order["fallback"])
  BY DEF Inv, Legs
<1>1. CASE StartPass \/ RecordEvidence \/ Ripen \/ OutageEnds \/ UNCHANGED vars
  <2>1. UNCHANGED <<journal, pc, todo, order>>
    BY <1>1 DEF StartPass, RecordEvidence, Ripen, OutageEnds, vars, venueVars
  <2>2. PlansConclusive' /\ ClosedTruth'
    BY <2>1 DEF Decided, PlansConclusive, Ends, ClosedTruth, Closed, Pending,
                Bought, Ready
  <2>3. Absent'
    <3>1. CASE StartPass
      BY <3>1 DEF StartPass, Decided, Absent, NeverThere, venueVars
    <3>2. CASE RecordEvidence
      <4>1. /\ UNCHANGED <<journal, pc, order, ripe, snapshot>>
            /\ evidence' = "none"
            /\ quorum' = IF evidence # "negative" \/ ~Eligible THEN 0
                         ELSE IF quorum = 2 THEN 2 ELSE quorum + 1
        BY <3>2 DEF RecordEvidence, venueVars
      <4>2. quorum \in 0..2
        BY <1>t DEF TypeOK
      <4>3. quorum' > 0 => ripe
        BY <4>1 DEF Eligible
      <4>4. quorum' = 2 => NeverThere
        BY <4>1, <4>2 DEF Decided, Absent
      <4> QED BY <4>1, <4>3, <4>4 DEF Decided, Absent, NeverThere
    <3>3. CASE Ripen
      BY <3>3 DEF Ripen, Decided, Absent, NeverThere, recoveryVars
    <3>4. CASE OutageEnds \/ UNCHANGED vars
      BY <3>4 DEF OutageEnds, Decided, Absent, NeverThere, recoveryVars, vars
    <3> QED BY <1>1, <3>1, <3>2, <3>3, <3>4
  <2> QED BY <2>2, <2>3 DEF Decided
<1>2. CASE FinalizeAbsent
  <2>1. /\ UNCHANGED <<pc, seen, todo, recoveryVars, venueVars>>
        /\ journal' = [journal EXCEPT !.status = "FINALIZED"]
        /\ quorum = 2 /\ ripe /\ ~journal.fbId /\ journal.filled = 0
    BY <1>2 DEF FinalizeAbsent, Eligible
  <2>2. /\ journal'.status = "FINALIZED" /\ journal'.filled = 0
        /\ journal'.fbId = journal.fbId
    BY <1>t, <2>1 DEF TypeOK, Journals
  <2>3. order["primary"].state \in {"none", "lost"} /\ pc \notin {"start", "submit"}
    BY <2>1 DEF Decided, Absent, NeverThere
  <2>4. order["primary"].filled = 0 /\ order["fallback"].state = "none"
        /\ order["fallback"].filled = 0
    BY <1>t, <2>1, <2>3 DEF OrderSound, Traceable
  <2>5. ClosedTruth'
    <3>1. \A leg \in Legs : ~Pending(leg)'
      BY <2>1, <2>3, <2>4 DEF Pending, Legs, venueVars
    <3>2. Bought' = 0
      BY <2>1, <2>4 DEF Bought, venueVars
    <3>3. pc = "fallback" => ~Ready("executor")
      BY <1>t, <2>1, FallbackUnnamed
    <3>4. Closed'
      BY <2>1, <2>2, <2>3, <3>1, <3>2, <3>3 DEF Closed, Ready
    <3> QED BY <2>2, <3>4 DEF ClosedTruth
  <2>6. PlansConclusive' /\ Absent'
    BY <2>1, <2>2 DEF Decided, PlansConclusive, Ends, Absent, NeverThere,
                      recoveryVars, venueVars
  <2> QED BY <2>5, <2>6 DEF Decided
<1>3. CASE Crash
  <2>1. /\ pc' = "crashed" /\ snapshot' = <<>> /\ evidence' = "none"
        /\ todo' = [a \in Actors |-> Nothing]
        /\ UNCHANGED <<journal, quorum, order, ripe>>
    BY <1>3 DEF Crash, venueVars
  <2>2. PlansConclusive'
    BY <2>1, ShortPlans DEF PlansConclusive, Nothing
  <2>3. Closed => Closed'
    BY <2>1 DEF Closed, Pending, Bought
  <2>4. ClosedTruth'
    BY <2>1, <2>3, ClosedStays DEF Decided
  <2>5. Absent'
    BY <2>1 DEF Decided, Absent, NeverThere
  <2> QED BY <2>2, <2>4, <2>5 DEF Decided
<1> QED BY <1>1, <1>2, <1>3

LEMMA DecidedAlways == Spec => [](Inv /\ Decided)
<1>1. Init => Decided
  <2> SUFFICES ASSUME Init PROVE Decided
    OBVIOUS
  <2>1. \A a \in Actors : todo[a].steps = <<>>
    BY DEF Init, Nothing
  <2>2. PlansConclusive
    BY <2>1, ShortPlans DEF PlansConclusive
  <2>3. ClosedTruth /\ Absent
    BY DEF Init, ClosedTruth, Absent
  <2> QED BY <2>2, <2>3 DEF Decided
<1>2. Inv /\ Decided /\ [Next]_vars => Decided'
  <2> SUFFICES ASSUME Inv, Decided, [Next]_vars PROVE Decided'
    OBVIOUS
  <2>1. ASSUME NEW a \in Actors, WriteNext(a) \/ TransactionFails(a)
        PROVE  Decided'
    BY <2>1, ApplyDecides, RecordFallbackDecides, AbandonDecides DEF WriteNext
  <2>2. CASE Execute
    BY <2>2, EndingDecides, MakerDecides, SubmissionDecides DEF Execute
  <2>3. CASE Recovery
    BY <2>3, LookupDecides, PassDecides DEF Recovery
  <2>4. ASSUME NEW leg \in Legs, Arrive(leg) \/ Fill(leg) \/ VenueCancels(leg)
        PROVE  Decided'
    BY <2>4, VenueDecides
  <2>5. CASE Crash \/ Ripen \/ OutageEnds \/ UNCHANGED vars
    BY <2>5, PassDecides
  <2> QED BY <2>1, <2>2, <2>3, <2>4, <2>5 DEF Next
<1> QED BY SpecInv, <1>1, <1>2, PTL DEF Spec

-----------------------------------------------------------------------------
(* The theorems.                                                           *)

\* Journal, plans, orders and counters keep their types: in particular the
\* total of maker and fallback fills stays within the target.
THEOREM TypeCorrect == Spec => []TypeOK
<1>1. Inv => TypeOK
  BY DEF Inv
<1> QED BY <1>1, SpecInv, PTL

\* The maker order and its market fallback together never buy more than the
\* entry asked for, whatever the venue, the journal and crashes do.
THEOREM NeverDoubleExposed == Spec => []NoDoubleExposure
<1>1. Inv => NoDoubleExposure
  BY DEF Inv
<1> QED BY <1>1, SpecInv, PTL

\* The write-ahead rule: an order that exists on the venue has a journal row
\* that left PREPARED, and a fallback order a row with its client id.
THEOREM AlwaysTraceable == Spec => []Traceable
<1>1. Inv => Traceable
  BY DEF Inv
<1> QED BY <1>1, SpecInv, PTL

\* Two threads that write cumulative fills from stale rows and stale answers
\* never make the journal claim more than the venue has filled.
THEOREM EvidenceAlwaysSound == Spec => []EvidenceSound
<1>1. Inv => EvidenceSound
  <2>1. SUFFICES ASSUME Inv PROVE EvidenceSound
    OBVIOUS
  <2>2. TypeOK /\ Balanced
    BY <2>1 DEF Inv
  <2>3. /\ order["primary"].filled \in Nat /\ order["fallback"].filled \in Nat
        /\ journal.filled \in Nat /\ journal.fbFilled \in Nat
    BY <2>2, StateTypes DEF Legs
  <2> QED BY <2>2, <2>3 DEF Balanced, EvidenceSound, Bought
<1> QED BY <1>1, SpecInv, PTL

\* What no step takes back: recorded fills, the fallback's client id, a decision.
JournalKept ==
  /\ journal'.filled >= journal.filled
  /\ journal'.fbFilled >= journal.fbFilled
  /\ journal.fbId => journal'.fbId
  /\ journal.status = "FINALIZED" => journal' = journal

LEMMA StepKeepsJournal ==
  ASSUME Inv, [Next]_vars
  PROVE  JournalKept
<1> USE DEF JournalKept
<1>1. /\ journal \in Journals /\ journal.filled \in Nat
      /\ journal.fbFilled \in Nat
  BY StateTypes DEF Inv
<1>2. ASSUME NEW a \in Actors, Apply(a) PROVE JournalKept
  <2>1. journal'.filled \in Nat
    BY <1>2, ApplyRow, TargetAssumption DEF Journals, Lots
  <2> QED BY <1>1, <1>2, <2>1, ApplyRow
<1>3. ASSUME NEW a \in Actors, RecordFallback(a) PROVE JournalKept
  <2>1. journal'.filled \in Nat /\ journal'.fbFilled \in Nat
    BY <1>3, FallbackRow, TargetAssumption DEF Journals, Lots
  <2> QED BY <1>1, <1>3, <2>1, FallbackRow
<1>4. CASE FinalizeAbsent
  <2>1. /\ journal' = [journal EXCEPT !.status = "FINALIZED"]
        /\ journal.status = "RECOVERY_REQUIRED"
    BY <1>4 DEF FinalizeAbsent, Eligible
  <2> QED BY <1>1, <2>1 DEF Journals
<1>5. CASE UNCHANGED journal
  BY <1>1, <1>5
<1>6. \/ \E a \in Actors : Apply(a) \/ RecordFallback(a)
      \/ FinalizeAbsent \/ UNCHANGED journal
  <2>1. ASSUME NEW a \in Actors, Refused(a) \/ TransactionFails(a)
        PROVE  UNCHANGED journal
    BY <2>1 DEF Refused, TransactionFails
  <2>2. CASE Execute
    BY <2>2 DEF Execute, Blocked, Begin, SubmitPrimary, CallFails,
       MarketAnswer, MakerAnswer, Refresh, CancelMaker, VerifyCancel,
       SubmitFallback, FallbackAnswer
  <2>3. CASE Recovery
    BY <2>3 DEF Recovery, StartPass, LookupEmpty, LookupFound, RecordEvidence
  <2>4. CASE Crash \/ Ripen \/ OutageEnds \/ UNCHANGED vars
    BY <2>4 DEF Crash, Ripen, OutageEnds, vars
  <2>5. ASSUME NEW leg \in Legs, Arrive(leg) \/ Fill(leg) \/ VenueCancels(leg)
        PROVE  UNCHANGED journal
    BY <2>5 DEF Arrive, Fill, VenueCancels, Move
  <2> QED BY <2>1, <2>2, <2>3, <2>4, <2>5 DEF Next, WriteNext
<1> QED BY <1>2, <1>3, <1>4, <1>5, <1>6

\* Recorded fills never shrink, the fallback's client id is never lost and a
\* decided intent is never reopened, whichever thread writes next.
THEOREM EvidenceNeverShrinks == Spec => EvidenceMonotone
<1>1. Inv /\ [Next]_vars
        => [/\ journal'.filled >= journal.filled
            /\ journal'.fbFilled >= journal.fbFilled
            /\ journal.fbId => journal'.fbId
            /\ journal.status = "FINALIZED" => journal' = journal]_vars
  BY StepKeepsJournal DEF JournalKept
<1> QED BY <1>1, SpecInv, PTL DEF Spec, EvidenceMonotone

\* A finalized intent says exactly what the venue filled; no order of it is
\* left there or about to be sent (transition_order_intent,
\* finalize_qualified_zero_fill_order_intent).  Excepted is the zero fill of a
\* row in which a fallback was journaled.
THEOREM FinalizedIsTrue == Spec => []FinalizedTruth
<1>1. Decided => FinalizedTruth
  BY DEF Decided, ClosedTruth, Closed, Decision, FinalizedTruth
<1> QED BY <1>1, DecidedAlways, PTL

-----------------------------------------------------------------------------
(* The journal keeps the books of the entry.                               *)

\* The types of the state, and the fit of the fills, after a step.
LEMMA StateTypesNext ==
  ASSUME TypeOK'
  PROVE  /\ journal'.filled \in Nat /\ journal'.fbFilled \in Nat
         /\ \A leg \in Legs : order'[leg].filled \in Nat /\ order'[leg] \in Orders
BY TargetAssumption DEF TypeOK, Journals, Orders, Lots

LEMMA FillsFitNext ==
  ASSUME Inv'
  PROVE  order'["primary"].filled + order'["fallback"].filled <= Target
<1>1. (Inv => order["primary"].filled + order["fallback"].filled <= Target)'
  BY FillsFit, PTL
<1> QED BY <1>1

\* Either the journal moves, or the venue, which takes no fill back.
LEMMA VenueOrJournal ==
  ASSUME Inv, [Next]_vars
  PROVE  UNCHANGED order \/ (UNCHANGED journal /\ Bought <= Bought')
<1>t. TypeOK /\ DOMAIN order = Legs /\ \A leg \in Legs : OrderSound(order[leg])
  BY DEF Inv, TypeOK
<1>1. /\ order["primary"].filled \in Nat /\ order["fallback"].filled \in Nat
  BY <1>t, StateTypes DEF Legs
<1>2. ASSUME NEW leg \in Legs, \A l \in Legs \ {leg} : order'[l] = order[l],
             order'[leg].filled \in Nat, order[leg].filled <= order'[leg].filled
      PROVE  Bought <= Bought'
  <2>1. /\ order'["primary"].filled \in Nat /\ order'["fallback"].filled \in Nat
        /\ order["primary"].filled <= order'["primary"].filled
        /\ order["fallback"].filled <= order'["fallback"].filled
    BY <1>1, <1>2 DEF Legs
  <2> QED BY <1>1, <2>1 DEF Bought
<1>3. ASSUME NEW leg \in Legs, order[leg].state = "none", NEW size, Submit(leg, size)
      PROVE  Bought <= Bought'
  <2>1. order[leg].filled = 0
    BY <1>t, <1>3 DEF OrderSound
  <2>2. order'[leg].filled = 0 /\ \A l \in Legs \ {leg} : order'[l] = order[l]
    BY <1>t, <1>3 DEF Submit
  <2> QED BY <1>2, <2>1, <2>2
<1>4. ASSUME NEW leg \in Legs, NEW state,
             order' = [order EXCEPT ![leg] = [order[leg] EXCEPT !.state = state]]
      PROVE  Bought <= Bought'
  <2>1. order[leg] \in Orders /\ order[leg].filled \in Nat
    BY <1>t, StateTypes
  <2>2. [order[leg] EXCEPT !.state = state].filled = order[leg].filled
    BY <2>1 DEF Orders
  <2>3. /\ order'[leg] = [order[leg] EXCEPT !.state = state]
        /\ \A l \in Legs \ {leg} : order'[l] = order[l]
    BY <1>t, <1>4
  <2>4. order'[leg].filled = order[leg].filled
    BY <2>2, <2>3
  <2>5. order'[leg].filled \in Nat /\ order[leg].filled <= order'[leg].filled
    BY <2>1, <2>4
  <2> QED BY <1>2, <2>3, <2>5
<1>5. CASE Execute
  <2>1. CASE SubmitPrimary
    <3>1. order["primary"].state = "none"
      BY <2>1 DEF SubmitPrimary, At, Inv, Procedure
    <3> QED BY <1>3, <2>1, <3>1 DEF SubmitPrimary, Legs
  <2>2. CASE SubmitFallback
    <3>1. order["fallback"].state = "none"
      BY <2>2 DEF SubmitFallback, At, Inv, Procedure
    <3> QED BY <1>3, <2>2, <3>1 DEF SubmitFallback, Legs
  <2>3. CASE CancelMaker
    <3>1. order' = [order EXCEPT !["primary"].state = "canceled"] \/ UNCHANGED order
      BY <2>3 DEF CancelMaker
    <3> QED BY <1>4, <2>3, <3>1 DEF CancelMaker, Legs
  <2>4. CASE ~SubmitPrimary /\ ~SubmitFallback /\ ~CancelMaker
    BY <1>5, <2>4 DEF Execute, Blocked, Begin, CallFails, MarketAnswer,
       MakerAnswer, Refresh, VerifyCancel, FallbackAnswer, venueVars
  <2> QED BY <2>1, <2>2, <2>3, <2>4
<1>6. ASSUME NEW leg \in Legs, Arrive(leg) \/ Fill(leg) \/ VenueCancels(leg)
      PROVE  UNCHANGED journal /\ Bought <= Bought'
  <2>1. UNCHANGED journal
    BY <1>6 DEF Arrive, Fill, VenueCancels, Move
  <2>2. CASE Arrive(leg) \/ VenueCancels(leg)
    BY <1>4, <2>2 DEF Arrive, VenueCancels, Move
  <2>3. CASE Fill(leg)
    <3> DEFINE new == [order[leg] EXCEPT
                         !.filled = order[leg].filled + 1,
                         !.state = IF order[leg].filled + 1 = order[leg].size
                                   THEN "filled" ELSE "live"]
    <3>1. order' = [order EXCEPT ![leg] = new]
      BY <2>3 DEF Fill, Move
    <3>2. order[leg] \in Orders /\ order[leg].filled \in Nat
      BY <1>t, StateTypes
    <3>3. new.filled = order[leg].filled + 1
      BY <3>2 DEF Orders
    <3> HIDE DEF new
    <3>4. order'[leg] = new /\ \A l \in Legs \ {leg} : order'[l] = order[l]
      BY <1>t, <3>1
    <3>5. order'[leg].filled = order[leg].filled + 1
      BY <3>3, <3>4
    <3>6. order'[leg].filled \in Nat /\ order[leg].filled <= order'[leg].filled
      BY <3>2, <3>5
    <3> QED BY <1>2, <2>1, <3>4, <3>6
  <2> QED BY <1>6, <2>1, <2>2, <2>3
<1>7. CASE Recovery \/ Crash \/ Ripen \/ OutageEnds \/ UNCHANGED vars
  BY <1>7 DEF Recovery, StartPass, LookupEmpty, LookupFound, RecordEvidence,
     FinalizeAbsent, Crash, Ripen, OutageEnds, vars, venueVars
<1>8. ASSUME NEW a \in Actors, WriteNext(a) \/ TransactionFails(a)
      PROVE  UNCHANGED order
  BY <1>8 DEF WriteNext, Apply, RecordFallback, Refused, TransactionFails, venueVars
<1> QED BY <1>5, <1>6, <1>7, <1>8 DEF Next

\* A step of the entry is one of its books, or leaves them as they are.
LEMMA LedgerStep ==
  ASSUME Inv, Inv', FinalizedTruth, FinalizedTruth', [Next]_vars
  PROVE  [Ledger!Next]_(Ledger!vars)
<1> USE DEF Ledger!vars
<1>1. /\ Bought \in Nat /\ journal.filled \in Nat /\ Target \in Nat
      /\ journal.filled <= Bought
  <2>1. TypeOK /\ Balanced
    BY DEF Inv
  <2>2. /\ order["primary"].filled \in Nat /\ order["fallback"].filled \in Nat
        /\ journal.filled \in Nat /\ journal.fbFilled \in Nat /\ Target \in Nat
    BY <2>1, StateTypes DEF Legs
  <2> QED BY <2>1, <2>2 DEF Balanced, Bought
<1>2. /\ Bought' \in Nat /\ journal'.filled \in Nat
      /\ journal'.filled <= Bought' /\ Bought' <= Target
  <2>1. TypeOK' /\ Balanced'
    BY DEF Inv
  <2>2. /\ order'["primary"].filled \in Nat /\ order'["fallback"].filled \in Nat
        /\ journal'.filled \in Nat /\ journal'.fbFilled \in Nat
    BY <2>1, StateTypesNext DEF Legs
  <2>3. order'["primary"].filled + order'["fallback"].filled <= Target
    BY FillsFitNext
  <2> QED BY <2>1, <2>2, <2>3 DEF Balanced, Bought
<1>3. JournalKept
  BY StepKeepsJournal
<1>4. CASE Decision
  <2>1. journal' = journal
    BY <1>3, <1>4 DEF JournalKept, Decision
  <2>2. Bought' = Bought /\ Decision' = Decision
    BY <1>4, <2>1 DEF FinalizedTruth, Decision
  <2> QED BY <2>1, <2>2
<1>5. CASE ~Decision /\ Decision'
  <2>1. journal' # journal
    BY <1>5 DEF Decision
  <2>2. Bought' = Bought /\ journal'.filled = Bought
    BY <1>5, <2>1, VenueOrJournal DEF Bought, FinalizedTruth
  <2>3. Decision' = TRUE
    BY <1>5 DEF Decision
  <2> QED BY <1>5, <2>2, <2>3 DEF Ledger!Next, Ledger!Close
<1>6. CASE ~Decision /\ ~Decision'
  <2>1. Decision' = Decision
    BY <1>6 DEF Decision
  <2>2. CASE UNCHANGED order
    <3>1. Bought' = Bought
      BY <2>2 DEF Bought
    <3>2. journal'.filled \in (journal.filled + 1)..Bought \/ UNCHANGED journal.filled
      BY <1>1, <1>2, <1>3, <3>1 DEF JournalKept
    <3> QED BY <1>6, <2>1, <3>1, <3>2 DEF Ledger!Next, Ledger!Record
  <2>3. CASE UNCHANGED journal /\ Bought <= Bought'
    <3>1. Bought' \in (Bought + 1)..Target \/ Bought' = Bought
      BY <1>1, <1>2, <2>3
    <3> QED BY <1>6, <2>1, <2>3, <3>1 DEF Ledger!Next, Ledger!Trade
  <2> QED BY <2>2, <2>3, VenueOrJournal
<1> QED BY <1>4, <1>5, <1>6

\* The journal keeps the books of an entry of any size: it never runs ahead of
\* the venue, takes nothing back, and is closed complete and for good
\* (transition_order_intent, record_order_intent_fallback_evidence).
THEOREM JournalKeepsTheBooks == Spec => EntryLedgerSpec
<1>1. Init => Ledger!Init
  BY DEF Init, Ledger!Init, Bought, Decision, Legs
<1>2. Inv /\ Inv' /\ FinalizedTruth /\ FinalizedTruth' /\ [Next]_vars
        => [Ledger!Next]_(Ledger!vars)
  BY LedgerStep
<1> QED BY <1>1, <1>2, SpecInv, FinalizedIsTrue, PTL
           DEF Spec, EntryLedgerSpec, Ledger!Spec

==============================================================================
