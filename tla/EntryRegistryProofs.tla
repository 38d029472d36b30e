------------------------- MODULE EntryRegistryProofs -------------------------
(***************************************************************************)
(* Theorems about EntryRegistry, for every set of bots, bases and intents: *)
(* the state is well typed, a base of one wallet class has one owner,      *)
(* reservations agree with finalized intents, admissions respect the       *)
(* ceiling, and the registry implements SymbolOwnership.                   *)
(*                                                                         *)
(* Ownership rests on one fact about a step, StepClaims: either no claim   *)
(* appears, or one does, on a base no other bot of the wallet class holds. *)
(* The ceiling rests on another, StepNotRaised: only an admission makes a  *)
(* reservation count that did not.                                         *)
(***************************************************************************)
EXTENDS EntryRegistry, FiniteSetTheorems, TLAPS

USE DEF Accounts

-----------------------------------------------------------------------------
(* Type correctness.                                                       *)

\* The empty claim and the empty row are well typed.
LEMMA NoClaimType == NoClaim \in Claims /\ NoRow \in Rows
BY DEF NoClaim, NoRow, Claims, Rows, Entries, RowKinds

\* Writing one cell of a table of tables keeps its type.
LEMMA NestedExcept ==
  ASSUME NEW S, NEW T, NEW X, NEW f \in [S -> [T -> X]],
         NEW a \in S, NEW t \in T, NEW x \in X
  PROVE  [f EXCEPT ![a][t] = x] \in [S -> [T -> X]]
<1>1. [f[a] EXCEPT ![t] = x] \in [T -> X]
  OBVIOUS
<1> QED BY <1>1

\* The helpers that write one cell keep the type of what they write.
LEMMA CellWrites ==
  ASSUME TypeOK, NEW b \in Bots, NEW s \in Bases
  PROVE  /\ \A c \in Claims : SetClaim(b, s, c) =>
                claim' \in [Bots -> [Bases -> Claims]]
         /\ \A r \in Rows : SetRow(b, s, r) =>
                row' \in [Bots -> [Bases -> Rows]]
         /\ \A a \in Adoptions : SetAdoption(b, s, a) =>
                adoption' \in [Bots -> [Bases -> Adoptions]]
<1>1. ASSUME NEW c \in Claims, SetClaim(b, s, c)
      PROVE  claim' \in [Bots -> [Bases -> Claims]]
  <2>1. claim \in [Bots -> [Bases -> Claims]]
    BY DEF TypeOK
  <2>2. [claim EXCEPT ![b][s] = c] \in [Bots -> [Bases -> Claims]]
    BY <2>1, NestedExcept
  <2> QED BY <1>1, <2>2 DEF SetClaim
<1>2. ASSUME NEW r \in Rows, SetRow(b, s, r)
      PROVE  row' \in [Bots -> [Bases -> Rows]]
  <2>1. row \in [Bots -> [Bases -> Rows]]
    BY DEF TypeOK
  <2>2. [row EXCEPT ![b][s] = r] \in [Bots -> [Bases -> Rows]]
    BY <2>1, NestedExcept
  <2> QED BY <1>2, <2>2 DEF SetRow
<1>3. ASSUME NEW a \in Adoptions, SetAdoption(b, s, a)
      PROVE  adoption' \in [Bots -> [Bases -> Adoptions]]
  <2>1. adoption \in [Bots -> [Bases -> Adoptions]]
    BY DEF TypeOK
  <2>2. [adoption EXCEPT ![b][s] = a] \in [Bots -> [Bases -> Adoptions]]
    BY <2>1, NestedExcept
  <2> QED BY <1>3, <2>2 DEF SetAdoption
<1> QED BY <1>1, <1>2, <1>3

\* The helpers that write the state of one intent keep its type.
LEMMA IntentWrites ==
  ASSUME TypeOK, NEW i \in Intents
  PROVE  /\ \A st \in Stages : SetStage(i, st) =>
                stage' \in [Intents -> Stages]
         /\ \A st \in Reservations : SetReservation(i, st) =>
                reservation' \in [Intents -> Reservations]
         /\ \A st \in Journal : SetJournal(i, st) =>
                journal' \in [Intents -> Journal]
<1>1. \A st \in Stages : SetStage(i, st) => stage' \in [Intents -> Stages]
  BY DEF TypeOK, SetStage
<1>2. \A st \in Reservations : SetReservation(i, st) =>
         reservation' \in [Intents -> Reservations]
  BY DEF TypeOK, SetReservation
<1>3. \A st \in Journal : SetJournal(i, st) => journal' \in [Intents -> Journal]
  BY DEF TypeOK, SetJournal
<1> QED BY <1>1, <1>2, <1>3

\* Every cell holds a claim and a row.
LEMMA CellTypes ==
  ASSUME TypeOK, NEW b \in Bots, NEW s \in Bases
  PROVE  claim[b][s] \in Claims /\ row[b][s] \in Rows
BY DEF TypeOK

\* The two forms of remove_open_position keep the types they write.
LEMMA RemovalTypes ==
  ASSUME TypeOK, NEW b \in Bots, NEW s \in Bases
  PROVE  /\ \A i \in Intents : RemoveGeneration(b, s, i) =>
                /\ claim' \in [Bots -> [Bases -> Claims]]
                /\ reservation' \in [Intents -> Reservations]
         /\ RemoveBase(b, s) =>
                /\ claim' \in [Bots -> [Bases -> Claims]]
                /\ reservation' \in [Intents -> Reservations]
<1>1. ASSUME NEW i \in Intents, RemoveGeneration(b, s, i)
      PROVE  /\ claim' \in [Bots -> [Bases -> Claims]]
             /\ reservation' \in [Intents -> Reservations]
  <2>1. (IF claim[b][s].entry = i THEN NoClaim ELSE claim[b][s]) \in Claims
    BY CellTypes, NoClaimType
  <2>2. (IF reservation[i] = "ACTIVE" THEN "RELEASED" ELSE reservation[i])
           \in Reservations
    BY DEF TypeOK, Reservations
  <2> QED BY <1>1, <2>1, <2>2, CellWrites, IntentWrites DEF RemoveGeneration
<1>2. ASSUME RemoveBase(b, s)
      PROVE  /\ claim' \in [Bots -> [Bases -> Claims]]
             /\ reservation' \in [Intents -> Reservations]
  BY <1>2, NoClaimType, CellWrites DEF RemoveBase, TypeOK
<1> QED BY <1>1, <1>2

\* An entry step, a journal step and a mirror step preserve the types.
LEMMA EntryType ==
  ASSUME TypeOK, NEW i \in Intents, Entry(i)
  PROVE  TypeOK'
<1> DEFINE b == BotOf[i]
           s == BaseOf[i]
<1> b \in Bots /\ s \in Bases
  BY IntentAssumption
<1> HIDE DEF b, s
<1>0. {"claimed", "released", "checkpointed", "submitted", "over"} \subseteq Stages
  BY DEF Stages
<1>1. CASE ClaimForEntry(i)
  <2>1. [NoClaim EXCEPT !.state = "CLAIMING", !.entry = i] \in Claims
    BY DEF NoClaim, Claims, Entries
  <2>2. claim' \in [Bots -> [Bases -> Claims]]
    BY <1>1, <2>1, CellWrites DEF ClaimForEntry, b, s
  <2>3. /\ reservation' \in [Intents -> Reservations]
        /\ stage' \in [Intents -> Stages]
    BY <1>0, <1>1, IntentWrites DEF ClaimForEntry, Reservations
  <2> QED BY <1>1, <2>2, <2>3 DEF ClaimForEntry, TypeOK
<1>2. CASE AbortEntry(i)
  <2>1. /\ claim' \in [Bots -> [Bases -> Claims]]
        /\ reservation' \in [Intents -> Reservations]
    BY <1>2, RemovalTypes DEF AbortEntry, TypeOK, b, s
  <2>2. (IF stage[i] = "submitted" THEN "over" ELSE "released") \in Stages
    BY <1>0
  <2>3. stage' \in [Intents -> Stages]
    BY <1>2, <2>2, IntentWrites DEF AbortEntry
  <2> QED BY <1>2, <2>1, <2>3 DEF AbortEntry, TypeOK
<1>3. CASE ReleaseReservation(i)
  <2>1. (IF reservation[i] = "ACTIVE" THEN "RELEASED" ELSE reservation[i])
           \in Reservations
    BY DEF TypeOK, Reservations
  <2>2. /\ reservation' \in [Intents -> Reservations]
        /\ stage' \in [Intents -> Stages]
    BY <1>0, <1>3, <2>1, IntentWrites DEF ReleaseReservation
  <2> QED BY <1>3, <2>2 DEF ReleaseReservation, TypeOK
<1>4. CASE Checkpoint(i)
  <2>1. [kind |-> "held", entry |-> i] \in Rows
    BY DEF Rows, RowKinds, Entries
  <2>2. row' \in [Bots -> [Bases -> Rows]]
    BY <1>4, <2>1, CellWrites DEF Checkpoint, b, s
  <2>3. stage' \in [Intents -> Stages]
    BY <1>0, <1>4, IntentWrites DEF Checkpoint
  <2> QED BY <1>4, <2>2, <2>3 DEF Checkpoint, TypeOK
<1>5. CASE JournalIntent(i)
  <2>1. /\ journal' \in [Intents -> Journal]
        /\ stage' \in [Intents -> Stages]
    BY <1>0, <1>5, IntentWrites DEF JournalIntent, Journal
  <2> QED BY <1>5, <2>1 DEF JournalIntent, TypeOK
<1>6. CASE EndEntry(i)
  <2>1. stage' \in [Intents -> Stages]
    BY <1>0, <1>6, IntentWrites DEF EndEntry
  <2> QED BY <1>6, <2>1 DEF EndEntry, TypeOK
<1>7. CASE PromoteRow(i)
  <2>1. [kind |-> "held", entry |-> i] \in Rows
    BY DEF Rows, RowKinds, Entries
  <2>2. row' \in [Bots -> [Bases -> Rows]]
    BY <1>7, <2>1, CellWrites DEF PromoteRow, b, s
  <2>3. stage' \in [Intents -> Stages]
    BY <1>0, <1>7, IntentWrites DEF PromoteRow
  <2> QED BY <1>7, <2>2, <2>3 DEF PromoteRow, TypeOK
<1>8. CASE SettleConsumed(i)
  <2>1. /\ reservation' \in [Intents -> Reservations]
        /\ stage' \in [Intents -> Stages]
    BY <1>0, <1>8, IntentWrites DEF SettleConsumed, Reservations
  <2> QED BY <1>8, <2>1 DEF SettleConsumed, TypeOK
<1> QED
  BY <1>1, <1>2, <1>3, <1>4, <1>5, <1>6, <1>7, <1>8 DEF Entry

\* Every move of the order journal preserves the types.
LEMMA JournalType ==
  ASSUME TypeOK, NEW i \in Intents, JournalStep(i)
  PROVE  TypeOK'
<1> DEFINE b == BotOf[i]
           s == BaseOf[i]
<1> b \in Bots /\ s \in Bases
  BY IntentAssumption
<1> HIDE DEF b, s
<1>0. /\ {"held", "filled", "zero"} \subseteq Journal
      /\ {"RELEASED", "CONSUMED"} \subseteq Reservations
  BY DEF Journal, Reservations
<1>1. CASE RecordFill(i)
  <2>1. journal' \in [Intents -> Journal]
    BY <1>0, <1>1, IntentWrites DEF RecordFill
  <2> QED BY <1>1, <2>1 DEF RecordFill, TypeOK
<1>2. CASE FinalizeFilled(i)
  <2>1. /\ journal' \in [Intents -> Journal]
        /\ reservation' \in [Intents -> Reservations]
    BY <1>0, <1>2, IntentWrites DEF FinalizeFilled
  <2> QED BY <1>2, <2>1 DEF FinalizeFilled, TypeOK
<1>3. CASE FinalizeZero(i)
  <2>1. (IF claim[b][s].state = "CLAIMING" THEN NoClaim ELSE claim[b][s])
           \in Claims
    BY CellTypes, NoClaimType
  <2>2. claim' \in [Bots -> [Bases -> Claims]]
    BY <1>3, <2>1, CellWrites DEF FinalizeZero, b, s
  <2>3. /\ journal' \in [Intents -> Journal]
        /\ reservation' \in [Intents -> Reservations]
    BY <1>0, <1>3, IntentWrites DEF FinalizeZero
  <2> QED BY <1>3, <2>2, <2>3 DEF FinalizeZero, TypeOK
<1>4. CASE FinalizeQualified(i)
  <2>1. claim' \in [Bots -> [Bases -> Claims]]
    BY <1>4, NoClaimType, CellWrites DEF FinalizeQualified, b, s
  <2>2. /\ journal' \in [Intents -> Journal]
        /\ reservation' \in [Intents -> Reservations]
    BY <1>0, <1>4, IntentWrites DEF FinalizeQualified
  <2> QED BY <1>4, <2>1, <2>2 DEF FinalizeQualified, TypeOK
<1> QED BY <1>1, <1>2, <1>3, <1>4 DEF JournalStep

\* Every step of the position rows and their mirror preserves the types.
LEMMA MirrorType ==
  ASSUME TypeOK, NEW b \in Bots, NEW s \in Bases, Mirror(b, s)
  PROVE  TypeOK'
<1>0. /\ claim[b][s] \in Claims
      /\ row[b][s] \in Rows
      /\ claim[b][s].entry \in Entries
      /\ row[b][s].entry \in Entries
  BY CellTypes DEF Claims, Rows
<1>1. CASE MirrorRow(b, s)
  <2>1. [state |-> "OPEN", entry |-> row[b][s].entry,
         release |-> row[b][s].kind = "leaving", aged |-> FALSE] \in Claims
    BY <1>0 DEF Claims
  <2>2. claim' \in [Bots -> [Bases -> Claims]]
    BY <1>1, <2>1, CellWrites DEF MirrorRow, Upsert
  <2> QED BY <1>1, <2>2 DEF MirrorRow, TypeOK
<1>2. CASE StageRemoval(b, s)
  <2>1. [row[b][s] EXCEPT !.kind = "leaving"] \in Rows
    BY <1>0 DEF Rows, RowKinds
  <2>2. row' \in [Bots -> [Bases -> Rows]]
    BY <1>2, <2>1, CellWrites DEF StageRemoval
  <2> QED BY <1>2, <2>2 DEF StageRemoval, TypeOK
<1>3. CASE DropRow(b, s)
  <2>1. [row[b][s] EXCEPT !.kind = "gone"] \in Rows
    BY <1>0 DEF Rows, RowKinds
  <2>2. row' \in [Bots -> [Bases -> Rows]]
    BY <1>3, <2>1, CellWrites DEF DropRow
  <2>3. [state |-> "OPEN", entry |-> row[b][s].entry, release |-> TRUE,
         aged |-> FALSE] \in Claims
    BY <1>0 DEF Claims
  <2>4. claim' \in [Bots -> [Bases -> Claims]]
    BY <1>3, <2>3, CellWrites DEF DropRow, Upsert
  <2> QED BY <1>3, <2>2, <2>4 DEF DropRow, TypeOK
<1>4. CASE RemoveDropped(b, s)
  <2>1. /\ claim' \in [Bots -> [Bases -> Claims]]
        /\ reservation' \in [Intents -> Reservations]
    BY <1>0, <1>4, RemovalTypes DEF RemoveDropped, Entries
  <2>2. row' \in [Bots -> [Bases -> Rows]]
    BY <1>4, NoClaimType, CellWrites DEF RemoveDropped
  <2> QED BY <1>4, <2>1, <2>2 DEF RemoveDropped, TypeOK
<1>5. CASE RemovePending(b, s)
  <2>1. /\ claim' \in [Bots -> [Bases -> Claims]]
        /\ reservation' \in [Intents -> Reservations]
    BY <1>0, <1>5, RemovalTypes DEF RemovePending, Entries
  <2> QED BY <1>5, <2>1 DEF RemovePending, TypeOK
<1>6. CASE RestoreDropped(b, s)
  <2>1. [row[b][s] EXCEPT !.kind = "leaving"] \in Rows
    BY <1>0 DEF Rows, RowKinds
  <2>2. row' \in [Bots -> [Bases -> Rows]]
    BY <1>6, <2>1, CellWrites DEF RestoreDropped
  <2> QED BY <1>6, <2>2 DEF RestoreDropped, TypeOK
<1> QED BY <1>1, <1>2, <1>3, <1>4, <1>5, <1>6 DEF Mirror

\* The orphans are cells of the registry.
LEMMA OrphanCell ==
  ASSUME NEW o \in Orphans
  PROVE  o[1] \in Bots /\ o[2] \in Bases
BY OrphanAssumption

\* Every step of an adoption preserves the types.
LEMMA AdoptionType ==
  ASSUME TypeOK, NEW b \in Bots, NEW s \in Bases, Adoption(b, s)
  PROVE  TypeOK'
<1>0. /\ claim[b][s] \in Claims
      /\ claim[b][s].entry \in Entries
      /\ adoption[b][s].entry \in Entries
  BY CellTypes DEF Claims, TypeOK, Adoptions
<1>1. /\ NoAdoption \in Adoptions
      /\ \A e \in Entries, ph \in {"found", "failing"} :
            [phase |-> ph, entry |-> e] \in Adoptions
      /\ NoEntry \in Entries
      /\ \A e \in Entries : [kind |-> "held", entry |-> e] \in Rows
  BY DEF NoAdoption, Adoptions, Entries, Rows, RowKinds
<1>2. CASE FindOrphan(b, s)
  <2>1. adoption' \in [Bots -> [Bases -> Adoptions]]
    BY <1>0, <1>1, <1>2, CellWrites DEF FindOrphan
  <2> QED BY <1>2, <2>1 DEF FindOrphan, TypeOK
<1>3. CASE ClaimOrphan(b, s)
  <2>1. /\ [NoClaim EXCEPT !.state = "ADOPTING"] \in Claims
        /\ [claim[b][s] EXCEPT !.state = "ADOPTING", !.aged = FALSE] \in Claims
    BY <1>0 DEF Claims, NoClaim, Entries
  <2>2. claim' \in [Bots -> [Bases -> Claims]]
    BY <1>3, <2>1, CellWrites DEF ClaimOrphan
  <2> QED BY <1>3, <2>2 DEF ClaimOrphan, TypeOK
<1>4. CASE AdoptRow(b, s)
  <2>1. row' \in [Bots -> [Bases -> Rows]]
    BY <1>0, <1>1, <1>4, CellWrites DEF AdoptRow
  <2>2. adoption' \in [Bots -> [Bases -> Adoptions]]
    BY <1>1, <1>4, CellWrites DEF AdoptRow
  <2> QED BY <1>4, <2>1, <2>2 DEF AdoptRow, TypeOK
<1>5. CASE LeaveOrphan(b, s)
  <2>1. adoption' \in [Bots -> [Bases -> Adoptions]]
    BY <1>1, <1>5, CellWrites DEF LeaveOrphan
  <2> QED BY <1>5, <2>1 DEF LeaveOrphan, TypeOK
<1>6. CASE FailAdoption(b, s)
  <2>1. adoption' \in [Bots -> [Bases -> Adoptions]]
    BY <1>1, <1>6, CellWrites DEF FailAdoption
  <2>2. row' \in [Bots -> [Bases -> Rows]]
    <3>1. CASE UNCHANGED row
      BY <3>1 DEF TypeOK
    <3>2. CASE SetRow(b, s, [kind |-> "held", entry |-> NoEntry])
      BY <1>1, <3>2, CellWrites
    <3> QED BY <1>6, <3>1, <3>2 DEF FailAdoption
  <2> QED BY <1>6, <2>1, <2>2 DEF FailAdoption, TypeOK
<1>7. CASE ReleaseOrphan(b, s)
  <2>1. adoption' \in [Bots -> [Bases -> Adoptions]]
    BY <1>1, <1>7, CellWrites DEF ReleaseOrphan
  <2>2. /\ claim' \in [Bots -> [Bases -> Claims]]
        /\ reservation' \in [Intents -> Reservations]
    BY <1>7, RemovalTypes DEF ReleaseOrphan, TypeOK
  <2> QED BY <1>7, <2>1, <2>2 DEF ReleaseOrphan, TypeOK
<1> QED BY <1>2, <1>3, <1>4, <1>5, <1>6, <1>7 DEF Adoption

\* Crashes, start-up maintenance and the passing of time preserve the types.
LEMMA OtherType ==
  ASSUME TypeOK
  PROVE  /\ \A i \in Intents : ReservationLapses(i) => TypeOK'
         /\ \A b \in Bots, s \in Bases : ClaimAges(b, s) => TypeOK'
         /\ \A b \in Bots : Crash(b) => TypeOK'
         /\ Maintenance => TypeOK'
<1>1. ASSUME NEW i \in Intents, ReservationLapses(i)
      PROVE  TypeOK'
  BY <1>1 DEF ReservationLapses, TypeOK
<1>2. ASSUME NEW b \in Bots, NEW s \in Bases, ClaimAges(b, s)
      PROVE  TypeOK'
  <2>1. [claim[b][s] EXCEPT !.aged = TRUE] \in Claims
    BY CellTypes DEF Claims
  <2>2. claim' \in [Bots -> [Bases -> Claims]]
    BY <1>2, <2>1, CellWrites DEF ClaimAges
  <2> QED BY <1>2, <2>2 DEF ClaimAges, TypeOK
<1>3. ASSUME NEW b \in Bots, Crash(b)
      PROVE  TypeOK'
  <2>1. stage' \in [Intents -> Stages]
    BY <1>3 DEF Crash, TypeOK, Stages
  <2>2. [s \in Bases |-> IF row[b][s].kind = "gone" THEN NoRow ELSE row[b][s]]
           \in [Bases -> Rows]
    BY CellTypes, NoClaimType
  <2>3. row' \in [Bots -> [Bases -> Rows]]
    BY <1>3, <2>2 DEF Crash, TypeOK
  <2>4. adoption' \in [Bots -> [Bases -> Adoptions]]
    <3>1. [s \in Bases |-> NoAdoption] \in [Bases -> Adoptions]
      BY DEF NoAdoption, Adoptions, Entries
    <3> QED BY <1>3, <3>1 DEF Crash, TypeOK
  <2> QED BY <1>3, <2>1, <2>3, <2>4 DEF Crash, TypeOK
<1>4. ASSUME Maintenance
      PROVE  TypeOK'
  <2>1. CASE PurgeJunk
    <3>1. \A b \in Bots, s \in Bases :
             (IF Junk(b, s) THEN NoClaim ELSE claim[b][s]) \in Claims
      BY CellTypes, NoClaimType
    <3>2. claim' \in [Bots -> [Bases -> Claims]]
      BY <2>1, <3>1 DEF PurgeJunk
    <3> QED BY <2>1, <3>2 DEF PurgeJunk, TypeOK
  <2>2. CASE ReconcileReservations
    <3>1. \A i \in Intents : TerminalStatus(i) \in Reservations
      BY DEF TerminalStatus, TypeOK, Reservations
    <3>2. reservation' \in [Intents -> Reservations]
      BY <2>2, <3>1 DEF ReconcileReservations, Reservations
    <3> QED BY <2>2, <3>2 DEF ReconcileReservations, TypeOK
  <2> QED BY <1>4, <2>1, <2>2 DEF Maintenance
<1> QED BY <1>1, <1>2, <1>3, <1>4

\* The state of the registry is always well typed.
THEOREM TypeCorrect == Spec => []TypeOK
<1>1. Init => TypeOK
  <2> SUFFICES ASSUME Init PROVE TypeOK
    OBVIOUS
  <2>1. /\ claim \in [Bots -> [Bases -> Claims]]
        /\ row \in [Bots -> [Bases -> Rows]]
    BY NoClaimType DEF Init
  <2>2. lapsed \in [Intents -> BOOLEAN] /\ stage \in [Intents -> Stages]
    BY DEF Init, Stages
  <2>3. journal \in [Intents -> Journal] /\ reservation \in [Intents -> Reservations]
    BY DEF Init, Journal, Reservations
  <2>4. adoption \in [Bots -> [Bases -> Adoptions]]
    BY DEF Init, NoAdoption, Adoptions, Entries
  <2> QED BY <2>1, <2>2, <2>3, <2>4 DEF TypeOK
<1>2. TypeOK /\ [Next]_vars => TypeOK'
  <2> SUFFICES ASSUME TypeOK, [Next]_vars PROVE TypeOK'
    OBVIOUS
  <2>1. CASE UNCHANGED vars
    BY <2>1 DEF vars, TypeOK
  <2>2. CASE \E o \in Orphans : Adoption(o[1], o[2])
    BY <2>2, OrphanCell, AdoptionType
  <2> QED BY <2>1, <2>2, EntryType, JournalType, MirrorType, OtherType DEF Next
<1> QED BY <1>1, <1>2, PTL DEF Spec

-----------------------------------------------------------------------------
(* Exclusive ownership.                                                    *)

\* No step but the grant of one free base makes a claim appear.
NoNewClaim == \A c \in Bots, t \in Bases : Held(c, t)' => Held(c, t)

Granted(b, s) ==
  /\ ~ClaimedByOther(b, s)
  /\ \A c \in Bots, t \in Bases : c # b \/ t # s => (Held(c, t)' <=> Held(c, t))

\* A write that clears a cell, or rewrites a held one, adds no claim.
LEMMA ClearedCell ==
  ASSUME TypeOK, NEW b \in Bots, NEW s \in Bases, NEW c,
         SetClaim(b, s, c), Held(b, s) \/ c.state = "NONE"
  PROVE  NoNewClaim
BY DEF TypeOK, SetClaim, Held, NoNewClaim

\* A write behind the conflict check grants a base nobody else claims.
LEMMA WrittenCell ==
  ASSUME TypeOK, NEW b \in Bots, NEW s \in Bases, NEW c,
         SetClaim(b, s, c), ~ClaimedByOther(b, s)
  PROVE  Granted(b, s)
BY DEF TypeOK, SetClaim, Held, Granted

\* Neither form of remove_open_position adds a claim.
LEMMA RemovedCell ==
  ASSUME TypeOK, NEW b \in Bots, NEW s \in Bases
  PROVE  /\ RemoveBase(b, s) => NoNewClaim
         /\ \A i \in Intents : RemoveGeneration(b, s, i) => NoNewClaim
<1>1. RemoveBase(b, s) => NoNewClaim
  BY ClearedCell DEF RemoveBase, NoClaim
<1>2. ASSUME NEW i \in Intents, RemoveGeneration(b, s, i)
      PROVE  NoNewClaim
  <2>1. CASE claim[b][s].entry = i
    BY <1>2, <2>1, ClearedCell DEF RemoveGeneration, NoClaim
  <2>2. CASE claim[b][s].entry # i /\ Held(b, s)
    BY <1>2, <2>2, ClearedCell DEF RemoveGeneration
  <2>3. CASE claim[b][s].entry # i /\ ~Held(b, s)
    BY <1>2, <2>3, ClearedCell DEF RemoveGeneration, Held
  <2> QED BY <2>1, <2>2, <2>3
<1> QED BY <1>1, <1>2

\* What every step does to the claims.
LEMMA StepClaims ==
  ASSUME TypeOK, [Next]_vars
  PROVE  NoNewClaim \/ \E b \in Bots, s \in Bases : Granted(b, s)
<1>0. claim' = claim => NoNewClaim
  BY DEF NoNewClaim, Held
<1>1. ASSUME NEW i \in Intents, Entry(i)
      PROVE  NoNewClaim \/ Granted(BotOf[i], BaseOf[i])
  <2> BotOf[i] \in Bots /\ BaseOf[i] \in Bases
    BY IntentAssumption
  <2>1. CASE ClaimForEntry(i)
    BY <2>1, WrittenCell DEF ClaimForEntry
  <2>2. CASE AbortEntry(i)
    BY <1>0, <2>2, RemovedCell DEF AbortEntry
  <2>3. CASE \/ ReleaseReservation(i) \/ Checkpoint(i) \/ JournalIntent(i)
             \/ PromoteRow(i) \/ SettleConsumed(i) \/ EndEntry(i)
    BY <1>0, <2>3 DEF ReleaseReservation, Checkpoint, JournalIntent, PromoteRow,
                      SettleConsumed, EndEntry
  <2> QED BY <1>1, <2>1, <2>2, <2>3 DEF Entry
<1>2. ASSUME NEW i \in Intents, JournalStep(i)
      PROVE  NoNewClaim
  <2> BotOf[i] \in Bots /\ BaseOf[i] \in Bases
    BY IntentAssumption
  <2>1. CASE FinalizeZero(i)
    <3>1. CASE claim[BotOf[i]][BaseOf[i]].state = "CLAIMING"
      BY <2>1, <3>1, ClearedCell DEF FinalizeZero, NoClaim
    <3>2. CASE claim[BotOf[i]][BaseOf[i]].state # "CLAIMING"
      <4>1. SetClaim(BotOf[i], BaseOf[i], claim[BotOf[i]][BaseOf[i]])
        BY <2>1, <3>2 DEF FinalizeZero
      <4> QED BY <4>1, ClearedCell DEF Held
    <3> QED BY <3>1, <3>2
  <2>2. CASE FinalizeQualified(i)
    BY <2>2, ClearedCell DEF FinalizeQualified, NoClaim
  <2>3. CASE RecordFill(i) \/ FinalizeFilled(i)
    BY <1>0, <2>3 DEF RecordFill, FinalizeFilled
  <2> QED BY <1>2, <2>1, <2>2, <2>3 DEF JournalStep
<1>3. ASSUME NEW b \in Bots, NEW s \in Bases, Mirror(b, s)
      PROVE  NoNewClaim \/ Granted(b, s)
  <2>0. claim[b][s].entry \in Entries /\ row[b][s].entry \in Entries
    BY CellTypes DEF Claims, Rows
  <2>1. CASE MirrorRow(b, s) \/ DropRow(b, s)
    BY <2>1, WrittenCell DEF MirrorRow, DropRow, Upsert
  <2>2. CASE RemoveDropped(b, s) \/ RemovePending(b, s)
    BY <2>0, <2>2, RemovedCell DEF RemoveDropped, RemovePending, Entries
  <2>3. CASE StageRemoval(b, s) \/ RestoreDropped(b, s)
    BY <1>0, <2>3 DEF StageRemoval, RestoreDropped
  <2> QED BY <1>3, <2>1, <2>2, <2>3 DEF Mirror
<1>10. ASSUME NEW b \in Bots, NEW s \in Bases, Adoption(b, s)
       PROVE  NoNewClaim \/ Granted(b, s)
  <2>1. CASE ClaimOrphan(b, s)
    BY <2>1, WrittenCell DEF ClaimOrphan
  <2>2. CASE ReleaseOrphan(b, s)
    BY <1>0, <2>2, RemovedCell DEF ReleaseOrphan
  <2>3. CASE \/ FindOrphan(b, s) \/ AdoptRow(b, s) \/ LeaveOrphan(b, s)
             \/ FailAdoption(b, s)
    BY <1>0, <2>3 DEF FindOrphan, AdoptRow, LeaveOrphan, FailAdoption
  <2> QED BY <1>10, <2>1, <2>2, <2>3 DEF Adoption
<1>11. CASE \E o \in Orphans : Adoption(o[1], o[2])
  BY <1>10, <1>11, OrphanCell
<1>4. ASSUME NEW b \in Bots, NEW s \in Bases, ClaimAges(b, s)
      PROVE  NoNewClaim
  BY <1>4, ClearedCell DEF ClaimAges, Placeholder, Held
<1>5. CASE Maintenance
  <2>1. CASE PurgeJunk
    BY <2>1 DEF PurgeJunk, NoNewClaim, Held, NoClaim
  <2>2. CASE ReconcileReservations
    BY <1>0, <2>2 DEF ReconcileReservations
  <2> QED BY <1>5, <2>1, <2>2 DEF Maintenance
<1>6. ASSUME NEW i \in Intents, ReservationLapses(i)
      PROVE  NoNewClaim
  BY <1>0, <1>6 DEF ReservationLapses
<1>7. ASSUME NEW b \in Bots, Crash(b)
      PROVE  NoNewClaim
  BY <1>0, <1>7 DEF Crash
<1>8. CASE UNCHANGED vars
  BY <1>0, <1>8 DEF vars
<1>9. ASSUME NEW i \in Intents, Entry(i)
      PROVE  NoNewClaim \/ \E b \in Bots, s \in Bases : Granted(b, s)
  BY <1>1, <1>9, IntentAssumption
<1> QED
  BY <1>2, <1>3, <1>4, <1>5, <1>6, <1>7, <1>8, <1>9, <1>11 DEF Next

\* One base of one wallet class never has two owners.
THEOREM OwnershipExclusive == Spec => []ExclusiveOwnership
<1>1. Init => ExclusiveOwnership
  BY DEF Init, ExclusiveOwnership, Held, NoClaim
<1>2. TypeOK /\ ExclusiveOwnership /\ [Next]_vars => ExclusiveOwnership'
  <2> SUFFICES ASSUME TypeOK, ExclusiveOwnership, [Next]_vars
               PROVE  ExclusiveOwnership'
    OBVIOUS
  <2>1. CASE NoNewClaim
    BY <2>1 DEF NoNewClaim, ExclusiveOwnership
  <2>2. ASSUME NEW b \in Bots, NEW s \in Bases, Granted(b, s)
        PROVE  ExclusiveOwnership'
    BY <2>2 DEF Granted, ClaimedByOther, ExclusiveOwnership
  <2> QED BY <2>1, <2>2, StepClaims
<1> QED BY <1>1, <1>2, TypeCorrect, PTL DEF Spec

-----------------------------------------------------------------------------
(* Reservations and finalized intents.                                     *)

Settled(i) ==
  /\ journal[i] = "filled" => reservation[i] = "CONSUMED"
  /\ journal[i] = "zero" => reservation[i] = "RELEASED"
  /\ reservation[i] = "EXPIRED" => journal[i] = "none"

\* Releasing an ACTIVE reservation cannot contradict a settled intent.
LEMMA ReleaseSettled ==
  ASSUME TypeOK, NEW i \in Intents, Settled(i), UNCHANGED journal,
         SetReservation(i, IF reservation[i] = "ACTIVE" THEN "RELEASED"
                                                        ELSE reservation[i])
  PROVE  Settled(i)'
BY DEF TypeOK, Settled, SetReservation

\* Releasing the reservation of one intent keeps every intent settled.
LEMMA ReleaseElsewhere ==
  ASSUME TypeOK, NEW i \in Intents, NEW k \in Intents, Settled(k), UNCHANGED journal,
         SetReservation(i, IF reservation[i] = "ACTIVE" THEN "RELEASED"
                                                        ELSE reservation[i])
  PROVE  Settled(k)'
<1>1. CASE k = i
  BY <1>1, ReleaseSettled
<1>2. CASE k # i
  BY <1>2 DEF TypeOK, Settled, SetReservation
<1> QED BY <1>1, <1>2

\* Adoption touches neither reservations nor the journal.
LEMMA AdoptionSilent ==
  ASSUME NEW b, NEW s, Adoption(b, s)
  PROVE  UNCHANGED <<reservation, journal>>
BY DEF Adoption, FindOrphan, ClaimOrphan, AdoptRow, LeaveOrphan, FailAdoption,
       ReleaseOrphan, RemoveBase

\* Every step keeps every settled intent settled.
LEMMA StepSettled ==
  ASSUME TypeOK, NEW k \in Intents, Settled(k), [Next]_vars
  PROVE  Settled(k)'
<1>0. UNCHANGED <<reservation, journal>> => Settled(k)'
  BY DEF Settled
<1>1. ASSUME NEW i \in Intents, Entry(i)
      PROVE  Settled(k)'
  <2>1. CASE ClaimForEntry(i)
    BY <2>1 DEF ClaimForEntry, SetReservation, Settled, TypeOK
  <2>2. CASE AbortEntry(i)
    <3>1. CASE UNCHANGED reservation
      BY <1>0, <2>2, <3>1 DEF AbortEntry
    <3>2. CASE RemoveGeneration(BotOf[i], BaseOf[i], i)
      BY <2>2, <3>2, ReleaseElsewhere DEF AbortEntry, RemoveGeneration
    <3> QED BY <2>2, <3>1, <3>2 DEF AbortEntry
  <2>3. CASE ReleaseReservation(i)
    BY <2>3, ReleaseElsewhere DEF ReleaseReservation
  <2>4. CASE JournalIntent(i)
    BY <2>4 DEF JournalIntent, SetJournal, Settled, TypeOK
  <2>5. CASE Checkpoint(i) \/ PromoteRow(i) \/ EndEntry(i)
    BY <1>0, <2>5 DEF Checkpoint, PromoteRow, EndEntry
  <2>6. CASE SettleConsumed(i)
    BY <2>6 DEF SettleConsumed, SetReservation, Settled, TypeOK
  <2> QED BY <1>1, <2>1, <2>2, <2>3, <2>4, <2>5, <2>6 DEF Entry
<1>2. ASSUME NEW i \in Intents, JournalStep(i)
      PROVE  Settled(k)'
  <2>1. CASE RecordFill(i)
    BY <2>1 DEF RecordFill, SetJournal, Settled, TypeOK
  <2>2. CASE FinalizeFilled(i)
    BY <2>2 DEF FinalizeFilled, SetJournal, SetReservation, Settled, TypeOK
  <2>3. CASE FinalizeZero(i)
    BY <2>3 DEF FinalizeZero, SetJournal, SetReservation, Settled, TypeOK
  <2>4. CASE FinalizeQualified(i)
    BY <2>4 DEF FinalizeQualified, SetJournal, SetReservation, Settled, TypeOK
  <2> QED BY <1>2, <2>1, <2>2, <2>3, <2>4 DEF JournalStep
<1>3. ASSUME NEW b \in Bots, NEW s \in Bases, Mirror(b, s)
      PROVE  Settled(k)'
  <2>0. claim[b][s].entry \in Entries /\ row[b][s].entry \in Entries
    BY CellTypes DEF Claims, Rows
  <2>1. ASSUME NEW e \in Intents, RemoveGeneration(b, s, e), UNCHANGED journal
        PROVE  Settled(k)'
    BY <2>1, ReleaseElsewhere DEF RemoveGeneration
  <2>2. CASE RemoveDropped(b, s)
    BY <1>0, <2>0, <2>1, <2>2 DEF RemoveDropped, RemoveBase, Entries
  <2>3. CASE RemovePending(b, s)
    BY <1>0, <2>0, <2>1, <2>3 DEF RemovePending, RemoveBase, Entries
  <2>4. CASE \/ MirrorRow(b, s) \/ StageRemoval(b, s) \/ DropRow(b, s)
             \/ RestoreDropped(b, s)
    BY <1>0, <2>4 DEF MirrorRow, StageRemoval, DropRow, RestoreDropped
  <2> QED BY <1>3, <2>2, <2>3, <2>4 DEF Mirror
<1>10. CASE \E o \in Orphans : Adoption(o[1], o[2])
  BY <1>0, <1>10, AdoptionSilent
<1>4. CASE ReconcileReservations
  BY <1>4 DEF ReconcileReservations, TerminalStatus, Expirable, Settled, TypeOK
<1>5. CASE PurgeJunk
  BY <1>0, <1>5 DEF PurgeJunk
<1>6. ASSUME NEW i \in Intents, ReservationLapses(i)
      PROVE  Settled(k)'
  BY <1>0, <1>6 DEF ReservationLapses
<1>7. ASSUME NEW b \in Bots, NEW s \in Bases, ClaimAges(b, s)
      PROVE  Settled(k)'
  BY <1>0, <1>7 DEF ClaimAges
<1>8. ASSUME NEW b \in Bots, Crash(b)
      PROVE  Settled(k)'
  BY <1>0, <1>8 DEF Crash
<1>9. CASE UNCHANGED vars
  BY <1>0, <1>9 DEF vars
<1> QED
  BY <1>1, <1>2, <1>3, <1>4, <1>5, <1>6, <1>7, <1>8, <1>9, <1>10
     DEF Next, Maintenance

\* The reservation of a finalized intent always carries its decision, and no
\* order is ever journaled on a reservation that start-up expired.
THEOREM ReservationsSettled == Spec => []ReservationSettled
<1>1. Init => ReservationSettled
  BY DEF Init, ReservationSettled
<1>2. TypeOK /\ ReservationSettled /\ [Next]_vars => ReservationSettled'
  BY StepSettled, IntentAssumption DEF ReservationSettled, Settled
<1> QED BY <1>1, <1>2, TypeCorrect, PTL DEF Spec

-----------------------------------------------------------------------------
(* The registry implements exclusive ownership.                            *)

HeldIn(a, s) == {b \in Bots : Account[b] = a /\ Held(b, s)}

\* A held claim names the owner of its cell.
LEMMA OwnerOfHeld ==
  ASSUME ExclusiveOwnership, NEW b \in Bots, NEW s \in Bases, Held(b, s)
  PROVE  owner[Account[b]][s] = b
<1> Account[b] \in Accounts
  BY IntentAssumption
<1>1. \A c \in Bots : Account[c] = Account[b] /\ Held(c, s) => c = b
  BY DEF ExclusiveOwnership
<1> QED BY <1>1 DEF owner

\* A cell without a claim has no owner.
LEMMA OwnerOfFree ==
  ASSUME NEW a \in Accounts, NEW s \in Bases, HeldIn(a, s) = {}
  PROVE  owner[a][s] = NoEntry
BY DEF owner, HeldIn

\* When no claim appears, the freed cells are released.
LEMMA ReleaseStep ==
  ASSUME ExclusiveOwnership, ExclusiveOwnership', NoNewClaim
  PROVE  Ownership!Next
<1> DEFINE free == {c \in Accounts \X Bases : HeldIn(c[1], c[2])' = {}}
<1>1. ASSUME NEW a \in Accounts, NEW s \in Bases
      PROVE  owner'[a][s] = IF <<a, s>> \in free THEN NoEntry ELSE owner[a][s]
  <2>1. CASE HeldIn(a, s)' = {}
    BY <2>1 DEF owner, HeldIn
  <2>2. CASE HeldIn(a, s)' # {}
    <3>1. PICK b \in Bots : Account[b] = a /\ Held(b, s)'
      BY <2>2 DEF HeldIn
    <3>2. owner[a][s] = b
      BY <3>1, OwnerOfHeld DEF NoNewClaim
    <3>3. \A c \in Bots : Account[c] = a /\ Held(c, s)' => c = b
      BY <3>1 DEF ExclusiveOwnership
    <3>4. owner'[a][s] = b
      BY <3>1, <3>3 DEF owner
    <3> QED BY <2>2, <3>2, <3>4
  <2> QED BY <2>1, <2>2
<1>2. owner' = [a \in Accounts |-> [s \in Bases |->
                  IF <<a, s>> \in free THEN NoEntry ELSE owner[a][s]]]
  BY <1>1 DEF owner
<1>3. Ownership!Release(free)
  BY <1>2 DEF Ownership!Release
<1>4. free \in SUBSET (Accounts \X Bases)
  OBVIOUS
<1> QED BY <1>3, <1>4 DEF Ownership!Next

\* When a claim appears, its bot acquires a cell that nobody owned.
LEMMA AcquireStep ==
  ASSUME ExclusiveOwnership, ExclusiveOwnership',
         NEW b \in Bots, NEW s \in Bases, Granted(b, s), ~NoNewClaim
  PROVE  Ownership!Next
<1> DEFINE a == Account[b]
<1>0. a \in Accounts
  BY IntentAssumption
<1> HIDE DEF a
<1>1. Held(b, s)' /\ ~Held(b, s)
  BY DEF Granted, NoNewClaim
<1>2. HeldIn(a, s) = {}
  BY <1>1 DEF Granted, ClaimedByOther, HeldIn, a
<1>3. owner[a][s] = NoEntry
  BY <1>0, <1>2, OwnerOfFree
<1>4. \A c \in Bots : Account[c] = a /\ Held(c, s)' => c = b
  BY <1>1 DEF ExclusiveOwnership, a
<1>5. owner'[a][s] = b
  BY <1>0, <1>1, <1>4 DEF owner, a
<1>6. ASSUME NEW x \in Accounts, NEW t \in Bases, x # a \/ t # s
      PROVE  owner'[x][t] = owner[x][t]
  <2>1. \A c \in Bots : (Account[c] = x /\ Held(c, t)') <=> (Account[c] = x /\ Held(c, t))
    BY <1>6 DEF Granted, a
  <2>2. (\E c \in Bots : Account[c] = x /\ Held(c, t)')
          <=> (\E c \in Bots : Account[c] = x /\ Held(c, t))
    BY <2>1
  <2>3. (CHOOSE c \in Bots : Account[c] = x /\ Held(c, t)')
          = (CHOOSE c \in Bots : Account[c] = x /\ Held(c, t))
    BY <2>1
  <2> QED BY <2>2, <2>3 DEF owner
<1>7. owner' = [owner EXCEPT ![a][s] = b]
  <2>1. /\ owner = [x \in Accounts |-> [t \in Bases |-> owner[x][t]]]
        /\ owner' = [x \in Accounts |-> [t \in Bases |-> owner'[x][t]]]
    BY DEF owner
  <2> DEFINE o == owner
             n == owner'
  <2> HIDE DEF o, n
  <2>2. \A x \in Accounts, t \in Bases :
           n[x][t] = IF x = a /\ t = s THEN b ELSE o[x][t]
    BY <1>5, <1>6 DEF o, n
  <2>3. n = [o EXCEPT ![a][s] = b]
    BY <1>0, <2>1, <2>2 DEF o, n
  <2> QED BY <2>3 DEF o, n
<1> QED BY <1>0, <1>3, <1>7 DEF Ownership!Next, Ownership!Acquire

\* Every behaviour of the registry is one of SymbolOwnership: a base changes
\* its owner only by being released and then acquired.
THEOREM RegistryImplementsOwnership == Spec => OwnershipSpec
<1>1. Init => Ownership!Init
  BY DEF Init, Ownership!Init, owner, Held, NoClaim
<1>2. TypeOK /\ ExclusiveOwnership /\ ExclusiveOwnership' /\ [Next]_vars
        => [Ownership!Next]_owner
  BY StepClaims, ReleaseStep, AcquireStep
<1> QED
  BY <1>1, <1>2, TypeCorrect, OwnershipExclusive, PTL
     DEF Spec, OwnershipSpec, Ownership!Spec

-----------------------------------------------------------------------------
(* A managed position keeps its claim; a late clean-up is harmless.        *)

\* The generation that claims a base, or its absence, seen over one step.
Kept(b, s) == Held(b, s)' /\ claim'[b][s].entry = claim[b][s].entry

\* A step that leaves the claims alone keeps every generation.
LEMMA UntouchedClaims ==
  ASSUME UNCHANGED claim, NEW b \in Bots, NEW s \in Bases, Held(b, s)
  PROVE  Kept(b, s)
BY DEF Kept, Held

\* Writing one cell keeps the other cells, and its own generation if the new
\* claim carries it.
LEMMA WriteKeeps ==
  ASSUME TypeOK, NEW b \in Bots, NEW s \in Bases, NEW d \in Bots, NEW t \in Bases,
         NEW c, SetClaim(d, t, c), Held(b, s),
         <<d, t>> # <<b, s>>
           \/ (c.state # "NONE" /\ c.entry = claim[b][s].entry)
  PROVE  Kept(b, s)
BY DEF TypeOK, SetClaim, Held, Kept

\* Removing the claim of another base, or of another generation, keeps it.
LEMMA RemovalKeeps ==
  ASSUME TypeOK, NEW b \in Bots, NEW s \in Bases, NEW d \in Bots, NEW t \in Bases,
         Held(b, s)
  PROVE  /\ <<d, t>> # <<b, s>> /\ RemoveBase(d, t) => Kept(b, s)
         /\ \A i \in Intents :
              /\ <<d, t>> # <<b, s>> \/ claim[b][s].entry # i
              /\ RemoveGeneration(d, t, i)
              => Kept(b, s)
<1>1. <<d, t>> # <<b, s>> /\ RemoveBase(d, t) => Kept(b, s)
  BY WriteKeeps DEF RemoveBase
<1>2. ASSUME NEW i \in Intents, RemoveGeneration(d, t, i),
             <<d, t>> # <<b, s>> \/ claim[b][s].entry # i
      PROVE  Kept(b, s)
  <2>1. CASE <<d, t>> # <<b, s>>
    BY <1>2, <2>1, WriteKeeps DEF RemoveGeneration
  <2>2. CASE d = b /\ t = s /\ claim[b][s].entry # i
    <3>1. SetClaim(b, s, claim[b][s])
      BY <1>2, <2>2 DEF RemoveGeneration
    <3> QED BY <3>1, WriteKeeps DEF Held
  <2> QED BY <1>2, <2>1, <2>2
<1> QED BY <1>1, <1>2

\* What a step may do to the claim of a managed position.
Spared(b, s) ==
  \/ Kept(b, s)
  \/ claim[b][s].entry \in Intents /\ ProvenZero(claim[b][s].entry)
  \/ ReleaseOrphan(b, s)

\* An entry thread never takes the claim of a managed position away.
LEMMA EntrySpares ==
  ASSUME TypeOK, NEW b \in Bots, NEW s \in Bases, Managed(b, s),
         NEW i \in Intents, Entry(i)
  PROVE  Spared(b, s)
<1> Held(b, s) /\ ~Absent(b, s) /\ row[b][s].entry = claim[b][s].entry
  BY DEF Managed
<1> BotOf[i] \in Bots /\ BaseOf[i] \in Bases
  BY IntentAssumption
<1>0. UNCHANGED claim => Kept(b, s)
  BY UntouchedClaims
<1>1. CASE ClaimForEntry(i)
  <2>1. <<BotOf[i], BaseOf[i]>> # <<b, s>>
    BY <1>1 DEF ClaimForEntry
  <2> QED BY <1>1, <2>1, WriteKeeps DEF ClaimForEntry, Spared
<1>2. CASE AbortEntry(i)
  <2>1. CASE UNCHANGED claim
    BY <1>0, <2>1 DEF Spared
  <2>2. CASE /\ Absent(BotOf[i], BaseOf[i])
             /\ RemoveGeneration(BotOf[i], BaseOf[i], i)
    <3>1. <<BotOf[i], BaseOf[i]>> # <<b, s>>
      BY <2>2
    <3> QED BY <2>2, <3>1, RemovalKeeps DEF Spared
  <2> QED BY <1>2, <2>1, <2>2 DEF AbortEntry
<1>3. CASE \/ ReleaseReservation(i) \/ Checkpoint(i) \/ JournalIntent(i)
           \/ PromoteRow(i) \/ SettleConsumed(i) \/ EndEntry(i)
  BY <1>0, <1>3 DEF ReleaseReservation, Checkpoint, JournalIntent, PromoteRow,
                    SettleConsumed, EndEntry, Spared
<1> QED BY <1>1, <1>2, <1>3 DEF Entry

\* The journal takes it away only with the proof that nothing was filled.
LEMMA JournalSpares ==
  ASSUME TypeOK, NEW b \in Bots, NEW s \in Bases, Managed(b, s),
         NEW i \in Intents, JournalStep(i)
  PROVE  Spared(b, s)
<1> Held(b, s) /\ ~Absent(b, s)
  BY DEF Managed
<1> BotOf[i] \in Bots /\ BaseOf[i] \in Bases
  BY IntentAssumption
<1>0. UNCHANGED claim => Kept(b, s)
  BY UntouchedClaims
<1>1. CASE FinalizeZero(i)
  <2>1. CASE <<BotOf[i], BaseOf[i]>> # <<b, s>>
    BY <1>1, <2>1, WriteKeeps DEF FinalizeZero, Spared
  <2>2. CASE BotOf[i] = b /\ BaseOf[i] = s
    <3>1. claim[b][s].entry = i
      BY <1>1, <2>2 DEF FinalizeZero
    <3>2. ProvenZero(i)
      BY <1>1 DEF FinalizeZero, ProvenZero, SetJournal, TypeOK
    <3> QED BY <3>1, <3>2 DEF Spared
  <2> QED BY <2>1, <2>2
<1>2. CASE FinalizeQualified(i)
  <2>1. <<BotOf[i], BaseOf[i]>> # <<b, s>>
    BY <1>2 DEF FinalizeQualified
  <2> QED BY <1>2, <2>1, WriteKeeps DEF FinalizeQualified, Spared
<1>3. CASE RecordFill(i) \/ FinalizeFilled(i)
  BY <1>0, <1>3 DEF RecordFill, FinalizeFilled, Spared
<1> QED BY <1>1, <1>2, <1>3 DEF JournalStep

\* Nor do the mirror and the removal of any row.
LEMMA MirrorSpares ==
  ASSUME TypeOK, NEW b \in Bots, NEW s \in Bases, Managed(b, s),
         NEW d \in Bots, NEW t \in Bases, Mirror(d, t)
  PROVE  Spared(b, s)
<1> Held(b, s) /\ ~Absent(b, s) /\ row[b][s].entry = claim[b][s].entry
  BY DEF Managed
<1>0. UNCHANGED claim => Kept(b, s)
  BY UntouchedClaims
<1>t. claim[d][t] \in Claims /\ row[d][t] \in Rows
  BY CellTypes
<1>1. CASE MirrorRow(d, t) \/ DropRow(d, t)
  BY <1>1, WriteKeeps DEF MirrorRow, DropRow, Upsert, Spared
<1>2. CASE RemoveDropped(d, t) \/ RemovePending(d, t)
  <2>1. <<d, t>> # <<b, s>>
    BY <1>2 DEF RemoveDropped, RemovePending, Absent
  <2>2. claim[d][t].entry \in Entries /\ row[d][t].entry \in Entries
    BY <1>t DEF Claims, Rows
  <2> QED BY <1>2, <2>1, <2>2, RemovalKeeps
          DEF RemoveDropped, RemovePending, Entries, Spared
<1>3. CASE StageRemoval(d, t) \/ RestoreDropped(d, t)
  BY <1>0, <1>3 DEF StageRemoval, RestoreDropped, Spared
<1> QED BY <1>1, <1>2, <1>3 DEF Mirror

\* Of all the steps of an adoption only its own release can.
LEMMA AdoptionSpares ==
  ASSUME TypeOK, NEW b \in Bots, NEW s \in Bases, Managed(b, s),
         NEW d \in Bots, NEW t \in Bases, Adoption(d, t)
  PROVE  Spared(b, s)
<1> Held(b, s)
  BY DEF Managed
<1>0. UNCHANGED claim => Kept(b, s)
  BY UntouchedClaims
<1>1. CASE ClaimOrphan(d, t)
  <2>1. CASE ~Held(d, t)
    <3>1. <<d, t>> # <<b, s>>
      BY <2>1
    <3> QED BY <1>1, <2>1, <3>1, WriteKeeps DEF ClaimOrphan, Placeholder, Held, Spared
  <2>2. CASE Placeholder(d, t) /\ Held(d, t)
    <3> DEFINE c == [claim[d][t] EXCEPT !.state = "ADOPTING", !.aged = FALSE]
    <3>1. SetClaim(d, t, c)
      BY <1>1, <2>2 DEF ClaimOrphan
    <3>2. c.state # "NONE" /\ c.entry = claim[d][t].entry
      BY CellTypes DEF Claims
    <3> HIDE DEF c
    <3> QED BY <3>1, <3>2, WriteKeeps DEF Spared
  <2> QED BY <1>1, <2>1, <2>2 DEF ClaimOrphan, Placeholder, Held
<1>2. CASE ReleaseOrphan(d, t)
  <2>1. CASE <<d, t>> = <<b, s>>
    BY <1>2, <2>1 DEF Spared
  <2>2. CASE <<d, t>> # <<b, s>>
    BY <1>0, <1>2, <2>2, RemovalKeeps DEF ReleaseOrphan, Spared
  <2> QED BY <2>1, <2>2
<1>3. CASE \/ FindOrphan(d, t) \/ AdoptRow(d, t) \/ LeaveOrphan(d, t)
           \/ FailAdoption(d, t)
  BY <1>0, <1>3 DEF FindOrphan, AdoptRow, LeaveOrphan, FailAdoption, Spared
<1> QED BY <1>1, <1>2, <1>3 DEF Adoption

\* A position that its bot manages loses its claim only to the proof that its
\* order bought nothing, and to the release of an adoption of its own bot that
\* failed before the position was there, which OrphanReleaseGeneric is about.
THEOREM ManagedClaimsKept == Spec => ManagedClaimKept
<1>1. ASSUME TypeOK, [Next]_vars, NEW b \in Bots, NEW s \in Bases, Managed(b, s)
      PROVE  Spared(b, s)
  <2> Held(b, s)
    BY <1>1 DEF Managed
  <2>0. UNCHANGED claim => Spared(b, s)
    BY UntouchedClaims DEF Spared
  <2>1. ASSUME NEW i \in Intents, Entry(i) \/ JournalStep(i) \/ ReservationLapses(i)
        PROVE  Spared(b, s)
    BY <1>1, <2>0, <2>1, EntrySpares, JournalSpares DEF ReservationLapses
  <2>2. ASSUME NEW d \in Bots, NEW t \in Bases, Mirror(d, t)
        PROVE  Spared(b, s)
    BY <1>1, <2>2, MirrorSpares
  <2>3. ASSUME NEW d \in Bots, NEW t \in Bases, ClaimAges(d, t)
        PROVE  Spared(b, s)
    <3> DEFINE c == [claim[d][t] EXCEPT !.aged = TRUE]
    <3>1. SetClaim(d, t, c) /\ Placeholder(d, t)
      BY <2>3 DEF ClaimAges
    <3>2. c.state # "NONE" /\ c.entry = claim[d][t].entry
      BY <1>1, <3>1, CellTypes DEF Claims, Placeholder
    <3> HIDE DEF c
    <3> QED BY <1>1, <3>1, <3>2, WriteKeeps DEF Spared
  <2>4. CASE PurgeJunk
    <3>1. ~Junk(b, s)
      BY <1>1 DEF Managed, Junk, Placeholder
    <3>2. claim'[b][s] = claim[b][s]
      BY <2>4, <3>1 DEF PurgeJunk
    <3> QED BY <3>2 DEF Spared, Kept, Held
  <2>5. CASE ReconcileReservations \/ \E d \in Bots : Crash(d)
    BY <2>0, <2>5 DEF ReconcileReservations, Crash
  <2>6. CASE UNCHANGED vars
    BY <2>0, <2>6 DEF vars
  <2>7. CASE \E o \in Orphans : Adoption(o[1], o[2])
    BY <1>1, <2>7, OrphanCell, AdoptionSpares
  <2> QED BY <1>1, <2>1, <2>2, <2>3, <2>4, <2>5, <2>6, <2>7 DEF Next, Maintenance
<1>2. TypeOK /\ [Next]_vars =>
        [\A b \in Bots, s \in Bases : Managed(b, s) =>
           \/ Held(b, s)' /\ claim'[b][s].entry = claim[b][s].entry
           \/ claim[b][s].entry \in Intents /\ ProvenZero(claim[b][s].entry)
           \/ ReleaseOrphan(b, s)]_vars
  BY <1>1 DEF Spared, Kept
<1> QED BY <1>2, TypeCorrect, PTL DEF Spec, ManagedClaimKept

\* The release of one reservation spares the claim of every other generation.
LEMMA ReleaseSpares ==
  ASSUME TypeOK, [Next]_vars, NEW i \in Intents, NEW k \in Intents, i # k,
         reservation[i] = "ACTIVE", reservation'[i] = "RELEASED", ClaimMatches(k)
  PROVE  ClaimMatches(k)'
<1> DEFINE b == BotOf[k]
           s == BaseOf[k]
<1>1. b \in Bots /\ s \in Bases /\ Held(b, s) /\ claim[b][s].entry = k
  BY IntentAssumption DEF ClaimMatches
<1>2. Kept(b, s) => ClaimMatches(k)'
  BY <1>1 DEF Kept, ClaimMatches
<1>3. UNCHANGED claim => Kept(b, s)
  BY <1>1, UntouchedClaims
<1>4. reservation' # reservation
  OBVIOUS
<1> HIDE DEF b, s
<1>5. ASSUME NEW j \in Intents, NEW d \in Bots, NEW t \in Bases,
             RemoveGeneration(d, t, j)
      PROVE  Kept(b, s)
  <2>1. j = i
    BY <1>5 DEF RemoveGeneration, SetReservation, TypeOK
  <2> QED BY <1>1, <1>5, <2>1, RemovalKeeps
<1>6. ASSUME NEW j \in Intents, Entry(j)
      PROVE  Kept(b, s)
  <2> BotOf[j] \in Bots /\ BaseOf[j] \in Bases
    BY IntentAssumption
  <2>1. CASE ClaimForEntry(j)
    BY <2>1 DEF ClaimForEntry, SetReservation, TypeOK
  <2>2. CASE AbortEntry(j)
    BY <1>4, <1>5, <2>2 DEF AbortEntry
  <2>3. CASE ReleaseReservation(j) \/ SettleConsumed(j)
    BY <1>3, <2>3 DEF ReleaseReservation, SettleConsumed
  <2>4. CASE Checkpoint(j) \/ JournalIntent(j) \/ PromoteRow(j) \/ EndEntry(j)
    BY <1>4, <2>4 DEF Checkpoint, JournalIntent, PromoteRow, EndEntry
  <2> QED BY <1>6, <2>1, <2>2, <2>3, <2>4 DEF Entry
<1>7. ASSUME NEW j \in Intents, JournalStep(j)
      PROVE  Kept(b, s)
  <2> BotOf[j] \in Bots /\ BaseOf[j] \in Bases
    BY IntentAssumption
  <2>1. CASE FinalizeZero(j)
    <3>1. j = i
      BY <2>1 DEF FinalizeZero, SetReservation, TypeOK
    <3>2. <<BotOf[j], BaseOf[j]>> # <<b, s>>
      BY <1>1, <2>1, <3>1 DEF FinalizeZero
    <3> QED BY <1>1, <2>1, <3>2, WriteKeeps DEF FinalizeZero
  <2>2. CASE FinalizeQualified(j)
    <3>1. j = i
      BY <2>2 DEF FinalizeQualified, SetReservation, TypeOK
    <3>2. <<BotOf[j], BaseOf[j]>> # <<b, s>>
      BY <1>1, <2>2, <3>1 DEF FinalizeQualified
    <3> QED BY <1>1, <2>2, <3>2, WriteKeeps DEF FinalizeQualified
  <2>3. CASE RecordFill(j) \/ FinalizeFilled(j)
    BY <1>3, <2>3 DEF RecordFill, FinalizeFilled
  <2> QED BY <1>7, <2>1, <2>2, <2>3 DEF JournalStep
<1>8. ASSUME NEW d \in Bots, NEW t \in Bases, Mirror(d, t)
      PROVE  Kept(b, s)
  <2>1. claim[d][t].entry \in Entries /\ row[d][t].entry \in Entries
    BY CellTypes DEF Claims, Rows
  <2>2. CASE RemoveDropped(d, t) \/ RemovePending(d, t)
    BY <1>4, <1>5, <2>1, <2>2
       DEF RemoveDropped, RemovePending, RemoveBase, Entries
  <2>3. CASE \/ MirrorRow(d, t) \/ StageRemoval(d, t) \/ DropRow(d, t)
             \/ RestoreDropped(d, t)
    BY <1>4, <2>3 DEF MirrorRow, StageRemoval, DropRow, RestoreDropped
  <2> QED BY <1>8, <2>2, <2>3 DEF Mirror
<1>9. CASE ReconcileReservations
  BY <1>2, <1>3, <1>9 DEF ReconcileReservations
<1>10. CASE \/ PurgeJunk \/ (\E d \in Bots : Crash(d))
            \/ (\E j \in Intents : ReservationLapses(j))
            \/ (\E d \in Bots, t \in Bases : ClaimAges(d, t))
            \/ (\E o \in Orphans : Adoption(o[1], o[2]))
            \/ UNCHANGED vars
  BY <1>4, <1>10, AdoptionSilent DEF PurgeJunk, Crash, ReservationLapses, ClaimAges, vars
<1> QED BY <1>2, <1>6, <1>7, <1>8, <1>9, <1>10 DEF Next, Maintenance

\* A late clean-up of one entry never removes the claim of a newer entry.
THEOREM StaleRemovalsHarmless == Spec => StaleRemovalHarmless
<1>1. TypeOK /\ [Next]_vars =>
        [\A i, k \in Intents :
           (i # k /\ reservation[i] = "ACTIVE" /\ reservation'[i] = "RELEASED"
             /\ ClaimMatches(k)) => ClaimMatches(k)']_vars
  BY ReleaseSpares
<1> QED BY <1>1, TypeCorrect, PTL DEF Spec, StaleRemovalHarmless

-----------------------------------------------------------------------------
(* The ceiling.                                                            *)

\* The units of a set of intents are counted set by set.
LEMMA UnitsOfSome ==
  ASSUME NEW T \in SUBSET Intents, IsFiniteSet(Units(T)), NEW S \in SUBSET T
  PROVE  /\ IsFiniteSet(Units(S))
         /\ Total(S) \in Nat /\ Total(T) \in Nat /\ Total(S) <= Total(T)
<1>1. Units(S) \subseteq Units(T)
  BY DEF Units
<1> QED BY <1>1, FS_Subset, FS_CardinalityType DEF Total

LEMMA UnitsOfOne ==
  ASSUME NEW i \in Intents
  PROVE  /\ IsFiniteSet({i} \X (1..Notional[i]))
         /\ Cardinality({i} \X (1..Notional[i])) = Notional[i]
<1>1. ASSUME NEW n \in Nat
      PROVE  IsFiniteSet({i} \X (1..n)) /\ Cardinality({i} \X (1..n)) = n
  <2>1. IsFiniteSet(1..n) /\ Cardinality(1..n) = n
    BY FS_Interval
  <2>2. IsFiniteSet({i}) /\ Cardinality({i}) = 1
    BY FS_Singleton
  <2> QED BY <2>1, <2>2, FS_Product
<1>2. Notional[i] \in Nat
  BY IntentAssumption
<1> QED BY <1>1, <1>2

\* One more intent adds at most its own notional.
LEMMA UnitsWithOne ==
  ASSUME NEW S \in SUBSET Intents, IsFiniteSet(Units(S)), NEW i \in Intents
  PROVE  /\ IsFiniteSet(Units(S \cup {i}))
         /\ Total(S \cup {i}) <= Total(S) + Notional[i]
<1> DEFINE own == {i} \X (1..Notional[i])
<1>1. Units(S \cup {i}) = Units(S) \cup own
  BY DEF Units
<1>2. IsFiniteSet(own) /\ Cardinality(own) = Notional[i]
  BY UnitsOfOne
<1> HIDE DEF own
<1>3. /\ IsFiniteSet(Units(S) \cup own)
      /\ Cardinality(Units(S) \cup own)
           = Cardinality(Units(S)) + Cardinality(own)
             - Cardinality(Units(S) \cap own)
  BY <1>2, FS_Union
<1>4. IsFiniteSet(Units(S) \cap own)
  BY <1>2, FS_Subset
<1>5. /\ Cardinality(Units(S) \cap own) \in Nat
      /\ Cardinality(Units(S)) \in Nat /\ Cardinality(own) \in Nat
  BY <1>2, <1>4, FS_CardinalityType
<1>6. Total(S \cup {i}) = Cardinality(Units(S) \cup own)
      /\ Total(S) = Cardinality(Units(S))
  BY <1>1 DEF Total
<1>7. Notional[i] \in Nat
  BY IntentAssumption
<1>8. IsFiniteSet(Units(S \cup {i}))
  BY <1>1, <1>3
<1>9. Total(S \cup {i}) = Total(S) + Notional[i] - Cardinality(Units(S) \cap own)
  BY <1>2, <1>3, <1>6
<1>10. Total(S) \in Nat
  BY <1>5, <1>6
<1> QED BY <1>5, <1>7, <1>8, <1>9, <1>10

\* Finitely many intents have finitely many units.
LEMMA UnitsFinite ==
  ASSUME NEW S \in SUBSET Intents, IsFiniteSet(S)
  PROVE  IsFiniteSet(Units(S))
<1> DEFINE f == [i \in S |-> {i} \X (1..Notional[i])]
           T == {{i} \X (1..Notional[i]) : i \in S}
<1>1. f \in Surjection(S, T)
  BY DEF Surjection, Range
<1>2. IsFiniteSet(T)
  BY <1>1, FS_Surjection
<1>3. \A U \in T : IsFiniteSet(U)
  BY UnitsOfOne
<1> QED BY <1>2, <1>3, FS_UNION DEF Units

\* No step but its admission makes a reservation ACTIVE, and none but the
\* settlement of an ACTIVE one makes it CONSUMED.
NotRaised(k) ==
  /\ reservation'[k] = "ACTIVE" => reservation[k] = "ACTIVE"
  /\ reservation'[k] = "CONSUMED" => reservation[k] \in {"ACTIVE", "CONSUMED"}
  /\ reservation[k] = "NONE" => reservation'[k] = "NONE"

LEMMA StepNotRaised ==
  ASSUME TypeOK, NEW k \in Intents, [Next]_vars
  PROVE  NotRaised(k) \/ ClaimForEntry(k)
<1>0. UNCHANGED reservation => NotRaised(k)
  BY DEF NotRaised
<1>1. ASSUME NEW i \in Intents,
             SetReservation(i, IF reservation[i] = "ACTIVE" THEN "RELEASED"
                                                            ELSE reservation[i])
      PROVE  NotRaised(k)
  BY <1>1 DEF TypeOK, SetReservation, NotRaised
<1>2. ASSUME NEW i \in Intents, Entry(i)
      PROVE  NotRaised(k) \/ ClaimForEntry(k)
  <2>1. CASE ClaimForEntry(i)
    BY <2>1 DEF ClaimForEntry, SetReservation, NotRaised, TypeOK
  <2>2. CASE AbortEntry(i)
    BY <1>0, <1>1, <2>2 DEF AbortEntry, RemoveGeneration
  <2>3. CASE ReleaseReservation(i)
    BY <1>1, <2>3 DEF ReleaseReservation
  <2>4. CASE SettleConsumed(i)
    BY <2>4 DEF SettleConsumed, SetReservation, NotRaised, TypeOK
  <2>5. CASE JournalIntent(i) \/ Checkpoint(i) \/ PromoteRow(i) \/ EndEntry(i)
    BY <1>0, <2>5 DEF JournalIntent, Checkpoint, PromoteRow, EndEntry
  <2> QED BY <1>2, <2>1, <2>2, <2>3, <2>4, <2>5 DEF Entry
<1>3. ASSUME NEW i \in Intents, JournalStep(i)
      PROVE  NotRaised(k)
  <2>1. CASE RecordFill(i)
    BY <1>0, <2>1 DEF RecordFill
  <2>2. CASE FinalizeFilled(i)
    BY <2>2 DEF FinalizeFilled, SetReservation, NotRaised, TypeOK
  <2>3. CASE FinalizeZero(i)
    BY <2>3 DEF FinalizeZero, SetReservation, NotRaised, TypeOK
  <2>4. CASE FinalizeQualified(i)
    BY <2>4 DEF FinalizeQualified, SetReservation, NotRaised, TypeOK
  <2> QED BY <1>3, <2>1, <2>2, <2>3, <2>4 DEF JournalStep
<1>4. ASSUME NEW b \in Bots, NEW s \in Bases, Mirror(b, s)
      PROVE  NotRaised(k)
  <2>0. claim[b][s].entry \in Entries /\ row[b][s].entry \in Entries
    BY CellTypes DEF Claims, Rows
  <2>1. ASSUME NEW e \in Intents, RemoveGeneration(b, s, e)
        PROVE  NotRaised(k)
    BY <1>1, <2>1 DEF RemoveGeneration
  <2>2. CASE RemoveDropped(b, s)
    BY <1>0, <2>0, <2>1, <2>2 DEF RemoveDropped, RemoveBase, Entries
  <2>3. CASE RemovePending(b, s)
    BY <1>0, <2>0, <2>1, <2>3 DEF RemovePending, RemoveBase, Entries
  <2>4. CASE \/ MirrorRow(b, s) \/ StageRemoval(b, s) \/ DropRow(b, s)
             \/ RestoreDropped(b, s)
    BY <1>0, <2>4 DEF MirrorRow, StageRemoval, DropRow, RestoreDropped
  <2> QED BY <1>4, <2>2, <2>3, <2>4 DEF Mirror
<1>11. CASE \E o \in Orphans : Adoption(o[1], o[2])
  BY <1>0, <1>11, AdoptionSilent
<1>5. CASE ReconcileReservations
  BY <1>5 DEF ReconcileReservations, TerminalStatus, Expirable, NotRaised, TypeOK
<1>6. CASE PurgeJunk
  BY <1>0, <1>6 DEF PurgeJunk
<1>7. ASSUME NEW i \in Intents, ReservationLapses(i)
      PROVE  NotRaised(k)
  BY <1>0, <1>7 DEF ReservationLapses
<1>8. ASSUME NEW b \in Bots, NEW s \in Bases, ClaimAges(b, s)
      PROVE  NotRaised(k)
  BY <1>0, <1>8 DEF ClaimAges
<1>9. ASSUME NEW b \in Bots, Crash(b)
      PROVE  NotRaised(k)
  BY <1>0, <1>9 DEF Crash
<1>10. CASE UNCHANGED vars
  BY <1>0, <1>10 DEF vars
<1> QED
  BY <1>2, <1>3, <1>4, <1>5, <1>6, <1>7, <1>8, <1>9, <1>10, <1>11
     DEF Next, Maintenance

\* However many entries there may be, only finitely many were ever admitted.
Reserved == {i \in Intents : reservation[i] # "NONE"}

LEMMA ReservedFinite == Spec => []IsFiniteSet(Reserved)
<1>1. Init => IsFiniteSet(Reserved)
  <2> SUFFICES ASSUME Init PROVE IsFiniteSet(Reserved)
    OBVIOUS
  <2>1. Reserved \subseteq Unsettled
    BY DEF Init, Reserved
  <2> QED BY <2>1, IntentAssumption, FS_Subset
<1>2. TypeOK /\ IsFiniteSet(Reserved) /\ [Next]_vars => IsFiniteSet(Reserved)'
  <2> SUFFICES ASSUME TypeOK, IsFiniteSet(Reserved), [Next]_vars
               PROVE  IsFiniteSet(Reserved')
    OBVIOUS
  <2>1. CASE \E i \in Intents : ClaimForEntry(i)
    <3>1. PICK i \in Intents : ClaimForEntry(i)
      BY <2>1
    <3>2. \A k \in Intents \ {i} : reservation'[k] = reservation[k]
      BY <3>1 DEF ClaimForEntry, SetReservation, TypeOK
    <3>3. Reserved' \subseteq Reserved \cup {i}
      BY <3>2 DEF Reserved
    <3>4. IsFiniteSet(Reserved \cup {i})
      BY FS_AddElement
    <3> QED BY <3>3, <3>4, FS_Subset
  <2>2. CASE ~\E i \in Intents : ClaimForEntry(i)
    <3>1. \A k \in Intents : NotRaised(k)
      BY <2>2, StepNotRaised
    <3>2. Reserved' \subseteq Reserved
      BY <3>1 DEF Reserved, NotRaised
    <3> QED BY <3>2, FS_Subset
  <2> QED BY <2>1, <2>2
<1> QED BY <1>1, <1>2, TypeCorrect, PTL DEF Spec

\* The intents that count, and what they add up to.
CountedOf(a) == {i \in IntentsOf(a) : Counted(i)}

LEMMA CountedFinite ==
  ASSUME IsFiniteSet(Reserved), NEW a
  PROVE  /\ CountedOf(a) \subseteq Intents /\ IsFiniteSet(Units(CountedOf(a)))
         /\ Total(CountedOf(a)) \in Nat
<1>1. CountedOf(a) \subseteq Reserved /\ CountedOf(a) \subseteq Intents
  BY DEF CountedOf, Counted, Reserved, IntentsOf
<1>2. IsFiniteSet(CountedOf(a))
  BY <1>1, FS_Subset
<1> QED BY <1>1, <1>2, UnitsFinite, UnitsOfSome

\* An intent that comes to count was admitted, or its lost claim came back.
LEMMA CountedLater ==
  ASSUME TypeOK, NEW k \in Intents, [Next]_vars, ~ClaimForEntry(k), Counted(k)'
  PROVE  Counted(k) \/ ClaimReturns(k)
BY StepNotRaised DEF NotRaised, Counted, ClaimReturns

\* The admission of an entry changes the claim of no other.
LEMMA AdmissionAlone ==
  ASSUME TypeOK, NEW i \in Intents, ClaimForEntry(i), NEW k \in Intents, k # i,
         Counted(k)'
  PROVE  Counted(k)
<1> DEFINE b == BotOf[i]
           s == BaseOf[i]
<1>1. b \in Bots /\ s \in Bases /\ BotOf[k] \in Bots /\ BaseOf[k] \in Bases
  BY IntentAssumption
<1>2. reservation'[k] = reservation[k]
  BY DEF ClaimForEntry, SetReservation, TypeOK
<1>3. /\ claim'[b][s].entry = i
      /\ \A c \in Bots, t \in Bases :
           (c # b \/ t # s) => claim'[c][t] = claim[c][t]
  <2>1. SetClaim(b, s, [NoClaim EXCEPT !.state = "CLAIMING", !.entry = i])
    BY DEF ClaimForEntry
  <2> QED BY <1>1, <2>1 DEF SetClaim, TypeOK, NoClaim
<1>4. ClaimMatches(k)' => ClaimMatches(k)
  <2>1. CASE BotOf[k] = b /\ BaseOf[k] = s
    BY <1>3, <2>1 DEF ClaimMatches
  <2>2. CASE BotOf[k] # b \/ BaseOf[k] # s
    <3>1. claim'[BotOf[k]][BaseOf[k]] = claim[BotOf[k]][BaseOf[k]]
      BY <1>1, <1>3, <2>2
    <3> QED BY <3>1 DEF ClaimMatches, Held
  <2> QED BY <2>1, <2>2
<1> QED BY <1>2, <1>4 DEF Counted

\* Where all bots enforce, no step raises the notional that a wallet's live entries
\* hold above the ceiling, unless a lost claim of a bought position comes back.
THEOREM CeilingKept == Spec => AdmissionCeiling
<1> DEFINE UnderCeiling(a) ==
             \/ Exposure(a)' <= Exposure(a) \/ Exposure(a)' <= Ceiling
             \/ \E i \in IntentsOf(a) : ClaimReturns(i)
<1>1. ASSUME TypeOK, IsFiniteSet(Reserved), [Next]_vars, NEW a \in Accounts,
             \A b \in Bots : Account[b] = a => b \in Enforcing
      PROVE  UnderCeiling(a)
  <2> SUFFICES ASSUME ~\E i \in IntentsOf(a) : ClaimReturns(i)
               PROVE  Exposure(a)' <= Exposure(a) \/ Exposure(a)' <= Ceiling
    OBVIOUS
  <2>1. Exposure(a) = Total(CountedOf(a)) /\ Exposure(a)' = Total(CountedOf(a)')
    BY DEF Exposure, CountedOf, Total, Units
  <2>2. /\ CountedOf(a) \subseteq Intents /\ IsFiniteSet(Units(CountedOf(a)))
        /\ Total(CountedOf(a)) \in Nat
    BY <1>1, CountedFinite
  <2>3. \A k \in Intents : k \in CountedOf(a)' =>
           k \in IntentsOf(a) /\ Counted(k)'
    BY DEF CountedOf, IntentsOf
  <2>4. CountedOf(a)' \subseteq IntentsOf(a) /\ IntentsOf(a) \subseteq Intents
    BY DEF CountedOf, IntentsOf
  <2>5. CASE \E i \in IntentsOf(a) : ClaimForEntry(i)
    <3>1. PICK i \in IntentsOf(a) : ClaimForEntry(i)
      BY <2>5
    <3>2. i \in Intents /\ Account[BotOf[i]] = a
      BY DEF IntentsOf
    <3>3. CountedOf(a)' \subseteq CountedOf(a) \cup {i}
      BY <1>1, <2>3, <2>4, <3>1, AdmissionAlone DEF CountedOf
    <3>4. Total(CountedOf(a)) + Notional[i] <= Ceiling
      <4>1. BotOf[i] \in Enforcing
        BY <1>1, <3>2, IntentAssumption
      <4> QED BY <3>1, <3>2, <4>1
              DEF ClaimForEntry, Admissible, LiveReservations, CountedOf
    <3>5. /\ IsFiniteSet(Units(CountedOf(a) \cup {i}))
          /\ Total(CountedOf(a) \cup {i}) <= Total(CountedOf(a)) + Notional[i]
      BY <2>2, <3>2, UnitsWithOne
    <3>6. /\ Total(CountedOf(a)') <= Total(CountedOf(a) \cup {i})
          /\ Total(CountedOf(a)') \in Nat /\ Total(CountedOf(a) \cup {i}) \in Nat
      BY <2>2, <3>2, <3>3, <3>5, UnitsOfSome
    <3>7. Notional[i] \in Nat /\ Ceiling \in Nat
      BY <3>2, IntentAssumption, GuardAssumption
    <3> QED BY <2>1, <2>2, <3>4, <3>5, <3>6, <3>7
  <2>6. CASE ~\E i \in IntentsOf(a) : ClaimForEntry(i)
    <3>1. CountedOf(a)' \subseteq CountedOf(a)
      BY <1>1, <2>3, <2>4, <2>6, CountedLater DEF CountedOf
    <3> QED BY <2>1, <2>2, <3>1, UnitsOfSome
  <2> QED BY <2>5, <2>6
<1>2. TypeOK /\ IsFiniteSet(Reserved) /\ [Next]_vars
        => [\A a \in Accounts :
              \/ \E b \in Bots : Account[b] = a /\ b \notin Enforcing
              \/ UnderCeiling(a)]_vars
  BY <1>1
<1>3. TypeOK /\ IsFiniteSet(Reserved) /\ [Next]_vars
        => [\A a \in Accounts :
              \/ \E b \in Bots : Account[b] = a /\ b \notin Enforcing
              \/ Exposure(a)' <= Exposure(a) \/ Exposure(a)' <= Ceiling
              \/ \E i \in IntentsOf(a) : ClaimReturns(i)]_vars
  BY <1>2
<1> HIDE DEF UnderCeiling
<1> QED BY <1>3, TypeCorrect, ReservedFinite, PTL DEF Spec, AdmissionCeiling

==============================================================================
