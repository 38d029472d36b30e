---------------------------- MODULE EntryRegistry ----------------------------
(***************************************************************************)
(* The shared SQLite registry through which the bots of one exchange       *)
(* account agree on who may enter which coin (core/database.py):           *)
(*                                                                         *)
(*   claim        bot_open_positions, one row per bot and base coin        *)
(*   reservation  portfolio_reservations, one row per entry intent         *)
(*   journal      order_intents, reduced to what the registry asks of it   *)
(*   row          the bot's own position row (bot_utils/trade_state.py)    *)
(*   stage        the scan thread that drives one entry                    *)
(*   adoption     reconciliation on its way to adopt an orphaned position  *)
(*                                                                         *)
(* Every action that changes claim, reservation or journal is one          *)
(* BEGIN IMMEDIATE transaction, so it is atomic; everything between two    *)
(* transactions, a crash included, may interleave.  An intent stands for   *)
(* one entry id: its bot, its symbol and its direction.  An OPEN claim of  *)
(* an intent without fill evidence is the provisional checkpoint row.      *)
(* Only the futures bots journal their orders; a spot entry is known by    *)
(* its checkpointed row alone.                                             *)
(* A blacklisted coin refuses a claim: the action is then not taken.       *)
(***************************************************************************)
EXTENDS Integers, FiniteSets

CONSTANTS
  Bots,       \* the bots that share the account
  Bases,      \* base coins
  Intents,    \* entry ids
  NoEntry,    \* the generation of a claim or row without an entry id
  Account,    \* Account[b]: the wallet class of bot b
  BotOf,      \* BotOf[i], BaseOf[i], Notional[i]: what intent i enters
  BaseOf,
  Notional,
  Enforcing,  \* the bots whose portfolio guard is in enforce mode
  Ceiling,    \* reservation ceiling of a wallet class, for those bots
  Orphans,    \* <<bot, base>> of the positions that reconciliation may meet
  Unsettled   \* intents an older database may hold FINALIZED but not settled

Accounts == {"spot", "futures"}

ASSUME NoEntryAssumption == NoEntry \notin Intents \cup Bots
ASSUME IntentAssumption ==
  /\ Account \in [Bots -> Accounts]
  /\ BotOf \in [Intents -> Bots]
  /\ BaseOf \in [Intents -> Bases]
  /\ Notional \in [Intents -> Nat]
  /\ Unsettled \subseteq Intents /\ IsFiniteSet(Unsettled)
  /\ \A i \in Unsettled : Account[BotOf[i]] = "futures"
ASSUME GuardAssumption == Enforcing \subseteq Bots /\ Ceiling \in Nat
ASSUME OrphanAssumption == Orphans \subseteq Bots \X Bases

Entries == Intents \cup {NoEntry}
Reservations == {"NONE", "ACTIVE", "RELEASED", "CONSUMED", "EXPIRED"}
\* none: no journal row; open: not final, no fill evidence; held: not final
\* with fill evidence; filled, zero: FINALIZED with and without a fill.
Journal == {"none", "open", "held", "filled", "zero"}
\* gone: popped from the position state, its claim not yet removed.
RowKinds == {"none", "held", "leaving", "gone"}
Stages == {"idle", "claimed", "released", "checkpointed", "submitted", "over"}
Claims == [state : {"NONE", "CLAIMING", "ADOPTING", "OPEN"}, entry : Entries,
           release : BOOLEAN, aged : BOOLEAN]
Rows == [kind : RowKinds, entry : Entries]
\* found: an orphan, with the entry id its claim showed; failing: given up, its
\* claim still to be released.
Adoptions == [phase : {"none", "found", "failing"}, entry : Entries]

NoClaim == [state |-> "NONE", entry |-> NoEntry, release |-> FALSE,
            aged |-> FALSE]
NoRow == [kind |-> "none", entry |-> NoEntry]
NoAdoption == [phase |-> "none", entry |-> NoEntry]

VARIABLES
  claim,        \* claim[b][s]
  reservation,  \* reservation[i]
  lapsed,       \* lapsed[i]: expires_at of the reservation has passed
  journal,      \* journal[i]
  row,          \* row[b][s]
  stage,        \* stage[i]
  adoption      \* adoption[b][s]

vars == <<claim, reservation, lapsed, journal, row, stage, adoption>>

TypeOK ==
  /\ claim \in [Bots -> [Bases -> Claims]]
  /\ reservation \in [Intents -> Reservations]
  /\ lapsed \in [Intents -> BOOLEAN]
  /\ journal \in [Intents -> Journal]
  /\ row \in [Bots -> [Bases -> Rows]]
  /\ stage \in [Intents -> Stages]
  /\ adoption \in [Bots -> [Bases -> Adoptions]]

-----------------------------------------------------------------------------
(* Reading the registry.                                                   *)

Held(b, s) == claim[b][s].state # "NONE"
Placeholder(b, s) == claim[b][s].state \in {"CLAIMING", "ADOPTING"}
ClaimMatches(i) == /\ Held(BotOf[i], BaseOf[i])
                   /\ claim[BotOf[i]][BaseOf[i]].entry = i
Absent(b, s) == row[b][s].kind \in {"none", "gone"}

\* Another bot holds an active claim on the base in the same wallet class.
ClaimedByOther(b, s) ==
  \E c \in Bots \ {b} : Account[c] = Account[b] /\ Held(c, s)

\* An incoming mirror conflicts with the generation the bot already claims.
GenerationConflict(b, s, e) ==
  Held(b, s) /\ claim[b][s].entry \notin {NoEntry, e}

IntentsOf(a) == {i \in Intents : Account[BotOf[i]] = a}

\* The risk reader raises, and the admission is refused, unless every live
\* reservation can be attributed to the claim of its own generation.
Attributable(i) ==
  LET b == BotOf[i]
      s == BaseOf[i]
  IN CASE reservation[i] = "ACTIVE" -> ClaimMatches(i)
       [] reservation[i] = "CONSUMED" -> Held(b, s) => claim[b][s].entry # NoEntry
       [] OTHER -> TRUE

Counted(i) ==
  \/ reservation[i] = "ACTIVE"
  \/ reservation[i] = "CONSUMED" /\ ClaimMatches(i)

\* Faulty variant: the notional of consumed reservations is forgotten.
LiveReservationsActive(a) == {i \in IntentsOf(a) : reservation[i] = "ACTIVE"}

\* The reservations the reader hands to the admission.
LiveReservations(a) == {i \in IntentsOf(a) : Counted(i)}

\* Their notional, counted in single units of money.
Units(set) == UNION {{i} \X (1..Notional[i]) : i \in set}
Total(set) == Cardinality(Units(set))

Admissible(i) ==
  LET a == Account[BotOf[i]]
  IN BotOf[i] \in Enforcing =>
       /\ \A k \in IntentsOf(a) : Attributable(k)
       /\ Total(LiveReservations(a)) + Notional[i] <= Ceiling

-----------------------------------------------------------------------------
(* Writing it.                                                             *)

SetClaim(b, s, c) == claim' = [claim EXCEPT ![b][s] = c]
SetRow(b, s, r) == row' = [row EXCEPT ![b][s] = r]
SetAdoption(b, s, a) == adoption' = [adoption EXCEPT ![b][s] = a]
SetStage(i, st) == stage' = [stage EXCEPT ![i] = st]
SetReservation(i, st) == reservation' = [reservation EXCEPT ![i] = st]
SetJournal(i, st) == journal' = [journal EXCEPT ![i] = st]

\* Faulty variant: the whole base is deleted.
RemoveGenerationAny(b, s, i) ==
  /\ reservation[i] # "EXPIRED"
  /\ SetReservation(i, IF reservation[i] = "ACTIVE" THEN "RELEASED"
                                                    ELSE reservation[i])
  /\ SetClaim(b, s, NoClaim)

\* remove_open_position with an expected entry id: an ACTIVE reservation of
\* the generation is released, its claim deleted, a newer claim left alone;
\* an EXPIRED reservation fails the whole transaction.
RemoveGeneration(b, s, i) ==
  /\ reservation[i] # "EXPIRED"
  /\ SetReservation(i, IF reservation[i] = "ACTIVE" THEN "RELEASED"
                                                    ELSE reservation[i])
  /\ SetClaim(b, s, IF claim[b][s].entry = i THEN NoClaim ELSE claim[b][s])

\* remove_open_position without one: base-wide, the reservation is not touched.
RemoveBase(b, s) ==
  /\ SetClaim(b, s, NoClaim)
  /\ UNCHANGED reservation

-----------------------------------------------------------------------------
(* One entry, as the scan thread drives it.                                *)

ClaimForEntry(i) ==
  LET b == BotOf[i]
      s == BaseOf[i]
  IN /\ stage[i] = "idle" /\ reservation[i] = "NONE"
     /\ Absent(b, s)
     /\ ~Held(b, s) /\ ~ClaimedByOther(b, s)
     /\ Admissible(i)
     /\ SetClaim(b, s, [NoClaim EXCEPT !.state = "CLAIMING", !.entry = i])
     /\ SetReservation(i, "ACTIVE")
     /\ SetStage(i, "claimed")
     /\ UNCHANGED <<lapsed, journal, row, adoption>>

\* The entry failed: release_claim_if_absent for the generation.  A row of
\* another generation counts as released, the claim is left alone.  Before the
\* submission the caller releases the reservation as well.
AbortEntry(i) ==
  LET b == BotOf[i]
      s == BaseOf[i]
  IN /\ stage[i] \in {"claimed", "checkpointed", "submitted"}
     /\ \/ Absent(b, s) /\ RemoveGeneration(b, s, i)
        \/ ~Absent(b, s) /\ row[b][s].entry # i /\ UNCHANGED <<claim, reservation>>
     /\ SetStage(i, IF stage[i] = "submitted" THEN "over" ELSE "released")
     /\ UNCHANGED <<lapsed, journal, row, adoption>>

\* release_portfolio_reservation after the claim release; it raises, and the
\* caller logs, when the reservation was consumed or expired meanwhile.
ReleaseReservation(i) ==
  /\ stage[i] = "released"
  /\ SetReservation(i, IF reservation[i] = "ACTIVE" THEN "RELEASED"
                                                    ELSE reservation[i])
  /\ SetStage(i, "over")
  /\ UNCHANGED <<claim, lapsed, journal, row, adoption>>

\* The provisional row is durable before the order is journaled or sent.
Checkpoint(i) ==
  LET b == BotOf[i]
      s == BaseOf[i]
  IN /\ stage[i] = "claimed"
     /\ Absent(b, s) \/ row[b][s].entry = i
     /\ SetRow(b, s, [kind |-> "held", entry |-> i])
     /\ SetStage(i, "checkpointed")
     /\ UNCHANGED <<claim, reservation, lapsed, journal, adoption>>

\* create_order_intent: PREPARED, the write-ahead record of the submission.
JournalIntent(i) ==
  /\ stage[i] = "checkpointed" /\ Account[BotOf[i]] = "futures"
  /\ journal[i] = "none"
  /\ reservation[i] = "ACTIVE" /\ ClaimMatches(i)
  /\ SetJournal(i, "open")
  /\ SetStage(i, "submitted")
  /\ UNCHANGED <<claim, reservation, lapsed, row, adoption>>

\* After the order the position is promoted, and its row created again when
\* another thread has removed it meanwhile.
PromoteRow(i) ==
  LET b == BotOf[i]
      s == BaseOf[i]
  IN /\ stage[i] = "submitted" /\ Absent(b, s)
     /\ SetRow(b, s, [kind |-> "held", entry |-> i])
     /\ SetStage(i, "over")
     /\ UNCHANGED <<claim, reservation, lapsed, journal, adoption>>

\* An exception, or a refused transaction, ends the entry thread.
EndEntry(i) ==
  /\ stage[i] \in {"claimed", "released", "checkpointed", "submitted"}
  /\ SetStage(i, "over")
  /\ UNCHANGED <<claim, reservation, lapsed, journal, row, adoption>>

-----------------------------------------------------------------------------
(* The journal, moved by the executor and by order recovery.               *)

RecordFill(i) ==
  /\ journal[i] = "open"
  /\ SetJournal(i, "held")
  /\ UNCHANGED <<claim, reservation, lapsed, row, stage, adoption>>

\* Faulty variant: the reservation is not asked, a released one stays so.
FinalizeFilledUnreserved(i) ==
  /\ journal[i] = "held"
  /\ SetJournal(i, "filled")
  /\ SetReservation(i, IF reservation[i] = "ACTIVE" THEN "CONSUMED"
                                                    ELSE reservation[i])
  /\ UNCHANGED <<claim, lapsed, row, stage, adoption>>

FinalizeFilled(i) ==
  /\ journal[i] = "held"
  /\ reservation[i] \in {"ACTIVE", "CONSUMED"} /\ ClaimMatches(i)
  /\ SetJournal(i, "filled")
  /\ SetReservation(i, "CONSUMED")
  /\ UNCHANGED <<claim, lapsed, row, stage, adoption>>

\* A canceled order without a fill.  The empty placeholder of the generation
\* is deleted with it, a provisional OPEN row is kept for the caller's
\* cleanup, and any other claim on the base fails the transaction.
FinalizeZero(i) ==
  LET b == BotOf[i]
      s == BaseOf[i]
  IN /\ journal[i] = "open"
     /\ reservation[i] \in {"ACTIVE", "RELEASED"}
     /\ Held(b, s) => /\ claim[b][s].entry = i
                      /\ claim[b][s].state \in {"CLAIMING", "OPEN"}
     /\ SetClaim(b, s, IF claim[b][s].state = "CLAIMING" THEN NoClaim
                                                         ELSE claim[b][s])
     /\ SetJournal(i, "zero")
     /\ SetReservation(i, "RELEASED")
     /\ UNCHANGED <<lapsed, row, stage, adoption>>

\* Two complete negative quorums of the futures venue prove a zero fill.  The
\* caller holds the close lock and has removed the local row by then.
FinalizeQualified(i) ==
  LET b == BotOf[i]
      s == BaseOf[i]
  IN /\ journal[i] = "open"
     /\ Account[b] = "futures" /\ Absent(b, s)
     /\ \/ /\ claim[b][s].state = "CLAIMING" /\ claim[b][s].entry = i
           /\ reservation[i] = "ACTIVE"
        \/ ~Held(b, s) /\ reservation[i] = "RELEASED"
     /\ SetClaim(b, s, NoClaim)
     /\ SetJournal(i, "zero")
     /\ SetReservation(i, "RELEASED")
     /\ UNCHANGED <<lapsed, row, stage, adoption>>

\* A spot bot consumes the reservation once the bought position is promoted.
SettleConsumed(i) ==
  /\ stage[i] = "checkpointed" /\ Account[BotOf[i]] = "spot"
  /\ reservation[i] = "ACTIVE"
  /\ SetReservation(i, "CONSUMED")
  /\ SetStage(i, "over")
  /\ UNCHANGED <<claim, lapsed, journal, row, adoption>>

-----------------------------------------------------------------------------
(* The position rows and their mirror in the registry.                     *)

\* upsert_open_position: the row is mirrored as OPEN, and never over the claim
\* of another bot or of another generation of its own.
Upsert(b, s, release) ==
  LET e == row[b][s].entry
  IN /\ ~ClaimedByOther(b, s)
     /\ ~GenerationConflict(b, s, e)
     /\ SetClaim(b, s, [state |-> "OPEN", entry |-> e, release |-> release,
                        aged |-> FALSE])

\* TradeState mirrors the current row, after a write or in a retry.
MirrorRow(b, s) ==
  /\ ~Absent(b, s)
  /\ Upsert(b, s, row[b][s].kind = "leaving")
  /\ UNCHANGED <<reservation, lapsed, journal, row, stage, adoption>>

\* TradeState.remove: first the claim_release_pending marker is persisted ...
StageRemoval(b, s) ==
  /\ row[b][s].kind = "held"
  /\ SetRow(b, s, [row[b][s] EXCEPT !.kind = "leaving"])
  /\ UNCHANGED <<claim, reservation, lapsed, journal, stage, adoption>>

\* ... then the marker is mirrored, without which the removal is put off, and
\* the row popped and the state saved without it ...
DropRow(b, s) ==
  /\ row[b][s].kind = "leaving"
  /\ Upsert(b, s, TRUE)
  /\ SetRow(b, s, [row[b][s] EXCEPT !.kind = "gone"])
  /\ UNCHANGED <<reservation, lapsed, journal, stage, adoption>>

\* ... and last the claim of the removed generation, if no row came back.
RemoveDropped(b, s) ==
  LET e == row[b][s].entry
  IN /\ row[b][s].kind = "gone"
     /\ \/ e = NoEntry /\ RemoveBase(b, s)
        \/ e # NoEntry /\ RemoveGeneration(b, s, e)
     /\ SetRow(b, s, NoRow)
     /\ UNCHANGED <<lapsed, journal, stage, adoption>>

\* The save, or the release of the claim, failed: the row is put back.
RestoreDropped(b, s) ==
  /\ row[b][s].kind = "gone"
  /\ SetRow(b, s, [row[b][s] EXCEPT !.kind = "leaving"])
  /\ UNCHANGED <<claim, reservation, lapsed, journal, stage, adoption>>

\* Start-up: a claim that carries the marker and has no row left is removed.
RemovePending(b, s) ==
  LET e == claim[b][s].entry
  IN /\ row[b][s].kind = "none"
     /\ Held(b, s) /\ claim[b][s].release
     /\ \/ e = NoEntry /\ RemoveBase(b, s)
        \/ e # NoEntry /\ RemoveGeneration(b, s, e)
     /\ UNCHANGED <<lapsed, journal, row, stage, adoption>>

\* Faulty variant: the stale placeholder of another bot is taken over.
ClaimOrphanStale(b, s) ==
  /\ adoption[b][s].phase = "found"
  /\ \E c \in Bots \ {b} :
       /\ claim[c][s].aged
       /\ claim' = [claim EXCEPT ![c][s] = NoClaim,
                                 ![b][s] = [NoClaim EXCEPT !.state = "ADOPTING"]]
  /\ UNCHANGED <<reservation, lapsed, journal, row, stage, adoption>>

\* Reconciliation meets an exchange position without a row.  It reads the
\* metadata of the bot's claims once, before it goes through the bases; a spot
\* bot reads none.
FindOrphan(b, s) ==
  /\ adoption[b][s].phase = "none" /\ Absent(b, s)
  /\ \/ Account[b] = "futures" /\ ~claim[b][s].release
        /\ SetAdoption(b, s, [phase |-> "found", entry |-> claim[b][s].entry])
     \/ Account[b] = "spot"
        /\ SetAdoption(b, s, [phase |-> "found", entry |-> NoEntry])
  /\ UNCHANGED <<claim, reservation, lapsed, journal, row, stage>>

\* try_claim_orphan: a free base is claimed, an own placeholder is taken over.
ClaimOrphan(b, s) ==
  /\ adoption[b][s].phase = "found"
  /\ ~ClaimedByOther(b, s)
  /\ \/ ~Held(b, s) /\ SetClaim(b, s, [NoClaim EXCEPT !.state = "ADOPTING"])
     \/ /\ Placeholder(b, s)
        /\ SetClaim(b, s, [claim[b][s] EXCEPT !.state = "ADOPTING",
                                              !.aged = FALSE])
  /\ UNCHANGED <<reservation, lapsed, journal, row, stage, adoption>>

\* The adopted row takes the generation that the metadata showed.
AdoptRow(b, s) ==
  /\ adoption[b][s].phase = "found"
  /\ claim[b][s].state \in {"ADOPTING", "OPEN"}
  /\ Absent(b, s)
  /\ SetRow(b, s, [kind |-> "held", entry |-> adoption[b][s].entry])
  /\ SetAdoption(b, s, NoAdoption)
  /\ UNCHANGED <<claim, reservation, lapsed, journal, stage>>

\* The pass goes on without the base: its claim or its row belongs to somebody
\* else by now, or the claim of a known generation is retained.
LeaveOrphan(b, s) ==
  /\ adoption[b][s].phase = "found"
  /\ SetAdoption(b, s, NoAdoption)
  /\ UNCHANGED <<claim, reservation, lapsed, journal, row, stage>>

\* The row of a generic orphan cannot be written.  A futures bot asks whether
\* the base has a row and goes on to release the claim when it has none; a spot
\* bot may hold the row it failed to save in memory, and goes on all the same.
FailAdoption(b, s) ==
  /\ adoption[b][s].phase = "found" /\ adoption[b][s].entry = NoEntry
  /\ claim[b][s].state \in {"ADOPTING", "OPEN"}
  /\ Absent(b, s)
  /\ \/ UNCHANGED row
     \/ /\ Account[b] = "spot"
        /\ SetRow(b, s, [kind |-> "held", entry |-> NoEntry])
  /\ SetAdoption(b, s, [phase |-> "failing", entry |-> NoEntry])
  /\ UNCHANGED <<claim, reservation, lapsed, journal, stage>>

\* The claim is given back base-wide, whatever it has become meanwhile; a
\* release that raises is logged.
ReleaseOrphan(b, s) ==
  /\ adoption[b][s].phase = "failing"
  /\ RemoveBase(b, s) \/ UNCHANGED <<claim, reservation>>
  /\ SetAdoption(b, s, NoAdoption)
  /\ UNCHANGED <<lapsed, journal, row, stage>>

\* A bot process dies: its entry threads, half-done removals and adoptions are
\* lost.
Crash(b) ==
  /\ stage' = [i \in Intents |-> IF BotOf[i] = b /\ stage[i] # "idle"
                                 THEN "over" ELSE stage[i]]
  /\ row' = [row EXCEPT ![b] = [s \in Bases |->
               IF row[b][s].kind = "gone" THEN NoRow ELSE row[b][s]]]
  /\ adoption' = [adoption EXCEPT ![b] = [s \in Bases |-> NoAdoption]]
  /\ UNCHANGED <<claim, reservation, lapsed, journal>>

-----------------------------------------------------------------------------
(* Start-up maintenance of the database, and time.                         *)

\* Faulty variants: the journal is not asked, or entry claims are spared.
JunkUnjournaled(b, s) == Placeholder(b, s) /\ claim[b][s].aged

JunkAnonymous(b, s) ==
  Placeholder(b, s) /\ claim[b][s].aged /\ claim[b][s].entry = NoEntry

Junk(b, s) ==
  /\ Placeholder(b, s) /\ claim[b][s].aged
  /\ claim[b][s].entry \in Intents => journal[claim[b][s].entry] = "none"

PurgeJunk ==
  /\ \E b \in Bots, s \in Bases : Junk(b, s)
  /\ claim' = [b \in Bots |-> [s \in Bases |->
                 IF Junk(b, s) THEN NoClaim ELSE claim[b][s]]]
  /\ UNCHANGED <<reservation, lapsed, journal, row, stage, adoption>>

\* Faulty variant: a filled intent is settled only beside its claim.
TerminalStatusClaimed(i) ==
  CASE journal[i] = "filled" /\ reservation[i] = "ACTIVE"
         /\ ClaimMatches(i) -> "CONSUMED"
    [] journal[i] = "zero" /\ reservation[i] \in {"ACTIVE", "CONSUMED"}
         -> "RELEASED"
    [] OTHER -> reservation[i]

TerminalStatus(i) ==
  LET claimed == Held(BotOf[i], BaseOf[i])
  IN CASE journal[i] = "filled" /\ reservation[i] = "ACTIVE"
            /\ (claimed => ClaimMatches(i)) -> "CONSUMED"
       [] journal[i] = "zero" /\ reservation[i] \in {"ACTIVE", "CONSUMED"}
            -> "RELEASED"
       [] OTHER -> reservation[i]

\* Faulty variant: the journal is not asked before a reservation expires.
ExpirableUnjournaled(i) ==
  /\ reservation[i] = "ACTIVE" /\ lapsed[i]
  /\ ~Held(BotOf[i], BaseOf[i])

Expirable(i) ==
  /\ reservation[i] = "ACTIVE" /\ lapsed[i]
  /\ journal[i] = "none"
  /\ ~Held(BotOf[i], BaseOf[i])

ReconcileReservations ==
  /\ reservation' = [i \in Intents |->
                       IF Expirable(i) THEN "EXPIRED" ELSE TerminalStatus(i)]
  /\ reservation' # reservation
  /\ UNCHANGED <<claim, lapsed, journal, row, stage, adoption>>

\* expires_at is 120 s after the claim, a placeholder is stale after 30 min.
ReservationLapses(i) ==
  /\ reservation[i] # "NONE" /\ ~lapsed[i]
  /\ lapsed' = [lapsed EXCEPT ![i] = TRUE]
  /\ UNCHANGED <<claim, reservation, journal, row, stage, adoption>>

ClaimAges(b, s) ==
  /\ Placeholder(b, s) /\ ~claim[b][s].aged
  /\ claim[b][s].entry \in Intents => lapsed[claim[b][s].entry]
  /\ SetClaim(b, s, [claim[b][s] EXCEPT !.aged = TRUE])
  /\ UNCHANGED <<reservation, lapsed, journal, row, stage, adoption>>

-----------------------------------------------------------------------------

Init ==
  /\ claim = [b \in Bots |-> [s \in Bases |-> NoClaim]]
  /\ row = [b \in Bots |-> [s \in Bases |-> NoRow]]
  /\ adoption = [b \in Bots |-> [s \in Bases |-> NoAdoption]]
  /\ \E legacy \in SUBSET Unsettled :
       /\ lapsed = [i \in Intents |-> i \in legacy]
       /\ stage = [i \in Intents |-> IF i \in legacy THEN "over" ELSE "idle"]
       /\ journal \in {f \in [Intents -> {"none", "filled", "zero"}] :
                         \A i \in Intents : f[i] = "none" <=> i \notin legacy}
       /\ reservation \in {f \in [Intents -> {"NONE", "ACTIVE", "CONSUMED"}] :
            \A i \in Intents :
              /\ f[i] = "NONE" <=> i \notin legacy
              /\ f[i] = "CONSUMED" => journal[i] = "zero"}

Entry(i) ==
  \/ ClaimForEntry(i) \/ AbortEntry(i) \/ ReleaseReservation(i)
  \/ Checkpoint(i) \/ JournalIntent(i) \/ PromoteRow(i)
  \/ SettleConsumed(i) \/ EndEntry(i)

JournalStep(i) ==
  \/ RecordFill(i) \/ FinalizeFilled(i) \/ FinalizeZero(i)
  \/ FinalizeQualified(i)

Mirror(b, s) ==
  \/ MirrorRow(b, s) \/ StageRemoval(b, s) \/ DropRow(b, s)
  \/ RemoveDropped(b, s) \/ RestoreDropped(b, s) \/ RemovePending(b, s)

Adoption(b, s) ==
  \/ FindOrphan(b, s) \/ ClaimOrphan(b, s) \/ AdoptRow(b, s)
  \/ LeaveOrphan(b, s) \/ FailAdoption(b, s) \/ ReleaseOrphan(b, s)

Maintenance == PurgeJunk \/ ReconcileReservations

Next ==
  \/ \E i \in Intents : Entry(i) \/ JournalStep(i) \/ ReservationLapses(i)
  \/ \E b \in Bots, s \in Bases : Mirror(b, s) \/ ClaimAges(b, s)
  \/ \E o \in Orphans : Adoption(o[1], o[2])
  \/ \E b \in Bots : Crash(b)
  \/ Maintenance

Spec == Init /\ [][Next]_vars

\* Processes keep being started, each runs the maintenance, and time passes.
Fairness ==
  /\ WF_vars(PurgeJunk) /\ WF_vars(ReconcileReservations)
  /\ WF_vars(\E i \in Intents : ReservationLapses(i))
  /\ \A b \in Bots, s \in Bases : WF_vars(ClaimAges(b, s))

FairSpec == Spec /\ Fairness

-----------------------------------------------------------------------------
(* Properties.                                                             *)

\* At most one bot of a wallet class holds an active claim on a base, so one
\* position of the shared account is never managed, or closed, twice.
ExclusiveOwnership ==
  \A b, c \in Bots, s \in Bases :
    b # c /\ Account[b] = Account[c] => ~(Held(b, s) /\ Held(c, s))

\* The decision of a finalized intent and its reservation agree, and an order
\* was never journaled on a reservation that start-up had expired.
ReservationSettled ==
  \A i \in Intents \ Unsettled :
    /\ journal[i] = "filled" => reservation[i] = "CONSUMED"
    /\ journal[i] = "zero" => reservation[i] = "RELEASED"
    /\ reservation[i] = "EXPIRED" => journal[i] = "none"

Exposure(a) == Total({i \in IntentsOf(a) : Counted(i)})

\* The claim of a bought position comes back: its row was not mirrored when
\* the claim got lost, or was created again after it had been removed.
ClaimReturns(i) ==
  reservation[i] = "CONSUMED" /\ ~ClaimMatches(i) /\ ClaimMatches(i)'

\* Where all bots enforce, the notional of a wallet's admitted entries, unresolved or
\* bought and still claimed, is raised above the ceiling by no admission,
\* settlement, recovery or maintenance, whatever order they come in; only a
\* lost claim that comes back can do that.
AdmissionCeiling ==
  [][\A a \in Accounts :
       \/ \E b \in Bots : Account[b] = a /\ b \notin Enforcing
       \/ Exposure(a)' <= Exposure(a) \/ Exposure(a)' <= Ceiling
       \/ \E i \in IntentsOf(a) : ClaimReturns(i)]_vars

\* A position in the bot's state whose claim is mirrored, or whose order is
\* journaled and unresolved, keeps the claim of its generation whatever the other
\* bots, adoption, recovery and start-up maintenance do meanwhile.  Only the
\* proof that nothing was filled takes the empty placeholder away, and only the
\* release that ends a failed adoption takes the claim of a row that appeared
\* after it had looked for one: OrphanReleaseGeneric is about that.
Managed(b, s) ==
  LET e == claim[b][s].entry
  IN /\ Held(b, s) /\ ~Absent(b, s) /\ row[b][s].entry = e
     /\ \/ claim[b][s].state = "OPEN"
        \/ e \in Intents /\ journal[e] \in {"open", "held"}

ProvenZero(i) == journal[i] = "open" /\ journal'[i] = "zero"

ManagedClaimKept ==
  [][\A b \in Bots, s \in Bases : Managed(b, s) =>
       \/ Held(b, s)' /\ claim'[b][s].entry = claim[b][s].entry
       \/ claim[b][s].entry \in Intents /\ ProvenZero(claim[b][s].entry)
       \/ ReleaseOrphan(b, s)]_vars

\* core/futures_bot_reconcile.py says at the release of a failed adoption:
\* "Release only an unproven generic orphan claim."  So the claim it takes is
\* never that of a managed position with an entry id.
OrphanReleaseGeneric ==
  [][\A b \in Bots, s \in Bases :
       (ReleaseOrphan(b, s) /\ Managed(b, s) /\ ~Held(b, s)')
         => claim[b][s].entry = NoEntry]_vars

\* A late clean-up of one generation, which releases its reservation, never
\* takes the claim of a newer generation on the same base with it.
StaleRemovalHarmless ==
  [][\A i, k \in Intents :
       (i # k /\ reservation[i] = "ACTIVE" /\ reservation'[i] = "RELEASED"
         /\ ClaimMatches(k)) => ClaimMatches(k)']_vars

\* An admission whose entry thread ended before it journaled an order does
\* not hold its reservation for ever, unless the base is in use again.
AbandonedAdmissionSettles ==
  \A i \in Intents :
    (stage[i] = "over" /\ journal[i] = "none" /\ reservation[i] = "ACTIVE")
      ~> \/ reservation[i] # "ACTIVE"
         \/ ~Absent(BotOf[i], BaseOf[i])
         \/ Held(BotOf[i], BaseOf[i]) /\ ~ClaimMatches(i)
         \/ claim[BotOf[i]][BaseOf[i]].state \in {"ADOPTING", "OPEN"}

\* A reservation that an older database left ACTIVE beside a finalized intent
\* is settled by start-up maintenance, unless its base is in use again.
LegacyReservationSettles ==
  \A i \in Intents :
    (journal[i] \in {"filled", "zero"} /\ reservation[i] = "ACTIVE")
      ~> reservation[i] # "ACTIVE" \/ Held(BotOf[i], BaseOf[i])

\* The registry implements exclusive ownership of the cells of the account.
owner ==
  [a \in Accounts |-> [s \in Bases |->
     IF \E b \in Bots : Account[b] = a /\ Held(b, s)
     THEN CHOOSE b \in Bots : Account[b] = a /\ Held(b, s)
     ELSE NoEntry]]

Ownership == INSTANCE SymbolOwnership WITH Nobody <- NoEntry
OwnershipSpec == Ownership!Spec

==============================================================================
