--------------------------- MODULE BotProcessProofs ---------------------------
(***************************************************************************)
(* Theorems about BotProcess, for any number of runs and any combination   *)
(* of failures.                                                            *)
(***************************************************************************)
EXTENDS BotProcess, TLAPS

\* Runs that were not started have left no trace.
Unspawned ==
  /\ \A r \in Runs : r > runs =>
       child[r] = "none" /\ mail[r] = "none" /\ reader[r] = "none"
  /\ run <= runs /\ proc <= runs /\ op.run <= runs /\ readerState <= runs

\* The living child belongs to the current run, and to the reader at work.
Current ==
  /\ \A r \in Runs : Alive(r) => run = r
  /\ readerState # 0 /\ reader[readerState] \notin {"done", "failed"} =>
       \A r \in Runs : Alive(r) => r = readerState

\* A close request that may still be read is on record.
CloseRecorded ==
  \A r \in Runs :
    Alive(r) /\ mail[r] = "close" => stop = [run |-> r, mode |-> "close"]

\* What a stop operation knows about its child and its own request.
OpSound ==
  /\ op.pc # "idle" => op.mode \in Modes
  /\ op.pc \notin {"idle", "asked", "verify", "cleanup"} => op.run \in Runs
  /\ op.pc \in {"request", "signal"} /\ stop.run = op.run => stop.mode = op.mode
  /\ op.pc = "finish" => ~Alive(op.run)
  /\ op.pc = "kill" => child[op.run] \in {"preserving", "closed", "none", "dead"}
  /\ op.pc = "terminate" => ~op.ok
  /\ op.pc \in Killing => op.mode = "close"

Inv == TypeOK /\ Unspawned /\ Owned /\ Current /\ CloseRecorded /\ OpSound
       /\ CleanupAlone

LEMMA Blank ==
  /\ NoStop \in [run : RunOrNone, mode : Modes \cup {"none"}]
  /\ NoStop.run = 0
BY RunAssumption DEF NoStop, RunOrNone

LEMMA InitInv == Init => Inv
BY RunAssumption
   DEF Init, Inv, TypeOK, Unspawned, Owned, Current, CloseRecorded, OpSound,
       CleanupAlone, Alive, Runs, RunOrNone, Modes, NoStop, NoOp, Killing

LEMMA StartInv ==
  ASSUME Inv, Start \/ StartRefused \/ StartFails PROVE Inv'
<1> USE RunAssumption
        DEF Inv, TypeOK, Unspawned, Owned, Current, CloseRecorded, OpSound,
            CleanupAlone, Alive, Running, StopPending, MayStart, Runs, RunOrNone,
            Modes, NoStop, Killing
<1>1. CASE Start
  BY <1>1 DEF Start
<1>2. CASE StartRefused
  BY <1>2 DEF StartRefused
<1>3. CASE StartFails
  <2>6. /\ runs' \in Runs /\ runs' = runs + 1 /\ runs' > runs
        /\ stop' = NoStop /\ readerState' = 0 /\ UNCHANGED <<mail, reader, op>>
        /\ \A r \in Runs : ~Alive(r)
    BY <1>3 DEF StartFails
  <2>7. \/ /\ child' = [child EXCEPT ![runs'] = "dead"]
           /\ run' = 0 /\ proc' = 0 /\ failedProc' = 0
        \/ /\ child' = [child EXCEPT ![runs'] = "running"]
           /\ run' = runs' /\ proc' = runs' /\ failedProc' = runs'
    BY <1>3 DEF StartFails, Retained
  <2>1. TypeOK'
    <3>1. child' \in [Runs -> {"none", "running", "preserving", "closing",
                               "closed", "dead"}]
      <4>1. CASE child' = [child EXCEPT ![runs'] = "dead"]
        BY <2>6, <4>1
      <4>2. CASE child' = [child EXCEPT ![runs'] = "running"]
        BY <2>6, <4>2
      <4> QED
        BY <2>7, <4>1, <4>2
    <3>2. stop' \in [run : RunOrNone, mode : Modes \cup {"none"}]
      BY <2>6, Blank
    <3>3. /\ run' \in RunOrNone /\ proc' \in RunOrNone
          /\ failedProc' \in RunOrNone /\ runs' \in RunOrNone
      BY <2>6, <2>7
    <3> QED
      BY <2>6, <3>1, <3>2, <3>3
  <2>2. (Unspawned /\ Owned /\ Current)'
    <3>1. CASE child' = [child EXCEPT ![runs'] = "dead"] /\ run' = 0 /\ proc' = 0
      BY <2>6, <3>1
    <3>2. CASE /\ child' = [child EXCEPT ![runs'] = "running"]
               /\ run' = runs' /\ proc' = runs'
      BY <2>6, <3>2
    <3> QED
      BY <2>7, <3>1, <3>2
  <2>3. CloseRecorded'
    BY <1>3 DEF StartFails, Retained
  <2>4. OpSound'
    BY <1>3 DEF StartFails, Retained
  <2>5. CleanupAlone'
    BY <1>3 DEF StartFails, Retained
  <2> QED
    BY <2>1, <2>2, <2>3, <2>4, <2>5 DEF Inv
<1> QED
  BY <1>1, <1>2, <1>3

LEMMA ChildInv ==
  ASSUME Inv, NEW r \in Runs, ChildStep(r) PROVE Inv'
<1> USE RunAssumption
        DEF Inv, TypeOK, Unspawned, Owned, Current, CloseRecorded, OpSound,
            CleanupAlone, Alive, Runs, RunOrNone, Modes, Killing, ownVars
<1>1. CASE ChildTakes(r)
  BY <1>1 DEF ChildTakes
<1>2. CASE ChildCloses(r)
  BY <1>2 DEF ChildCloses
<1>3. CASE ChildExits(r)
  BY <1>3 DEF ChildExits
<1> QED
  BY <1>1, <1>2, <1>3 DEF ChildStep

LEMMA ReaderInv ==
  ASSUME Inv, NEW r \in Runs, ReaderStep(r) \/ ReaderNeverStarts(r) PROVE Inv'
<1> USE RunAssumption
        DEF Inv, TypeOK, Unspawned, Owned, Current, CloseRecorded, OpSound,
            CleanupAlone, Alive, Runs, RunOrNone, Modes, NoStop, Killing, ownVars
<1>1. CASE ReaderEnters(r)
  BY <1>1 DEF ReaderEnters
<1>2. CASE ReaderEnds(r)
  BY <1>2 DEF ReaderEnds
<1>3. CASE ReaderClears(r)
  BY <1>3 DEF ReaderClears, ReaderDone
<1>4. CASE ReaderGivesUp(r)
  BY <1>4 DEF ReaderGivesUp, ReaderDone
<1>5. CASE ReaderNeverStarts(r)
  <2>1. TypeOK'
    BY <1>5 DEF ReaderNeverStarts, RolledBack, Retained
  <2>2. (Unspawned /\ Owned /\ Current)'
    BY <1>5 DEF ReaderNeverStarts, RolledBack, Retained
  <2>3. CloseRecorded'
    BY <1>5 DEF ReaderNeverStarts, RolledBack, Retained
  <2>4. OpSound'
    BY <1>5 DEF ReaderNeverStarts, RolledBack, Retained
  <2>5. CleanupAlone'
    BY <1>5 DEF ReaderNeverStarts, RolledBack, Retained
  <2> QED
    BY <2>1, <2>2, <2>3, <2>4, <2>5 DEF Inv
<1> QED
  BY <1>1, <1>2, <1>3, <1>4, <1>5 DEF ReaderStep

LEMMA StopInv ==
  ASSUME Inv, StopStep \/ \E mode \in Modes : AskStop(mode) PROVE Inv'
<1> USE RunAssumption
        DEF Inv, TypeOK, Unspawned, Owned, Current, CloseRecorded, OpSound,
            CleanupAlone, Alive, Running, Runs, RunOrNone, Modes, NoStop, NoOp,
            Killing, ownVars
<1>1. CASE \E mode \in Modes : AskStop(mode)
  <2>1. TypeOK'
    <3>1. PICK mode \in Modes : AskStop(mode)
      BY <1>1
    <3>2. op' = [pc |-> "asked", run |-> 0, mode |-> mode, prev |-> "none",
                 ok |-> FALSE]
      BY <3>1 DEF AskStop
    <3>3. op' \in [pc : {"idle", "asked", "request", "signal", "wait", "terminate",
                        "kill", "finish", "verify", "cleanup"},
                  run : RunOrNone, mode : Modes \cup {"none"},
                  prev : Modes \cup {"none"}, ok : BOOLEAN]
      <4> HIDE DEF Inv, Owned, Unspawned, Current, CloseRecorded, OpSound, CleanupAlone
      <4> QED
        BY <3>2
    <3>4. UNCHANGED <<runs, run, proc, failedProc, stop, child, mail, reader, readerState>>
      BY <3>1 DEF AskStop
    <3> QED
      BY <3>3, <3>4
  <2>2. (Unspawned /\ Owned /\ Current)'
    BY <1>1 DEF AskStop
  <2>3. CloseRecorded'
    BY <1>1 DEF AskStop
  <2>4. OpSound'
    BY <1>1 DEF AskStop
  <2>5. CleanupAlone'
    BY <1>1 DEF AskStop
  <2> QED
    BY <2>1, <2>2, <2>3, <2>4, <2>5 DEF Inv
<1>2. CASE StopFindsNone
  <2>1. TypeOK'
    <3> HIDE DEF NoStop
    <3> QED
      BY <1>2, Blank DEF StopFindsNone
  <2>2. (Unspawned /\ Owned /\ Current)'
    BY <1>2 DEF StopFindsNone
  <2>3. CloseRecorded'
    BY <1>2 DEF StopFindsNone
  <2>4. OpSound'
    BY <1>2 DEF StopFindsNone
  <2>5. CleanupAlone'
    BY <1>2 DEF StopFindsNone
  <2> QED
    BY <2>1, <2>2, <2>3, <2>4, <2>5 DEF Inv
<1>3. CASE StopRejected
  BY <1>3 DEF StopRejected
<1>4. CASE StopBegins
  <2>1. TypeOK'
    BY <1>4 DEF StopBegins
  <2>2. (Unspawned /\ Owned /\ Current)'
    BY <1>4 DEF StopBegins
  <2>3. CloseRecorded'
    <3>1. ASSUME NEW r \in Runs, Alive(r), mail[r] = "close"
          PROVE stop' = [run |-> r, mode |-> "close"]
      <4>1. run = r /\ stop = [run |-> run, mode |-> "close"]
        BY <3>1
      <4>2. op.mode = "close"
        BY <1>4, <4>1 DEF StopBegins
      <4> QED
        BY <1>4, <4>1, <4>2 DEF StopBegins
    <3> QED
      BY <1>4, <3>1 DEF StopBegins
  <2>4. OpSound'
    BY <1>4 DEF StopBegins
  <2>5. CleanupAlone'
    BY <1>4 DEF StopBegins
  <2> QED
    BY <2>1, <2>2, <2>3, <2>4, <2>5 DEF Inv
<1>5. CASE Request
  <2>1. TypeOK'
    BY <1>5 DEF Request
  <2>2. (Unspawned /\ Owned /\ Current)'
    BY <1>5 DEF Request
  <2>3. CloseRecorded'
    BY <1>5 DEF Request
  <2>4. OpSound'
    BY <1>5 DEF Request
  <2>5. CleanupAlone'
    BY <1>5 DEF Request
  <2> QED
    BY <2>1, <2>2, <2>3, <2>4, <2>5 DEF Inv
<1>6. CASE RequestMoot
  BY <1>6 DEF RequestMoot
<1>7. CASE RequestFails
  <2>1. TypeOK'
    BY <1>7 DEF RequestFails
  <2>2. (Unspawned /\ Owned /\ Current)'
    BY <1>7 DEF RequestFails
  <2>3. CloseRecorded'
    BY <1>7 DEF RequestFails
  <2>4. OpSound'
    BY <1>7 DEF RequestFails
  <2>5. CleanupAlone'
    BY <1>7 DEF RequestFails
  <2> QED
    BY <2>1, <2>2, <2>3, <2>4, <2>5 DEF Inv
<1>8. CASE Signal
  <2>1. TypeOK'
    BY <1>8 DEF Signal
  <2>2. (Unspawned /\ Owned /\ Current)'
    BY <1>8 DEF Signal
  <2>3. CloseRecorded'
    BY <1>8 DEF Signal
  <2>4. OpSound'
    BY <1>8 DEF Signal
  <2>5. CleanupAlone'
    BY <1>8 DEF Signal
  <2> QED
    BY <2>1, <2>2, <2>3, <2>4, <2>5 DEF Inv
<1>9. CASE SignalFails
  BY <1>9 DEF SignalFails, Signalled
<1>10. CASE NoSignal
  BY <1>10 DEF NoSignal
<1>11. CASE PreserveUnavailable
  <2>1. TypeOK'
    <3> HIDE DEF NoStop
    <3>1. op' \in [pc : {"idle", "asked", "request", "signal", "wait", "terminate",
                        "kill", "finish", "verify", "cleanup"},
                  run : RunOrNone, mode : Modes \cup {"none"},
                  prev : Modes \cup {"none"}, ok : BOOLEAN]
      BY <1>11 DEF PreserveUnavailable
    <3>2. stop' \in [run : RunOrNone, mode : Modes \cup {"none"}]
      BY <1>11, Blank DEF PreserveUnavailable
    <3> QED
      BY <1>11, <3>1, <3>2 DEF PreserveUnavailable
  <2>2. (Unspawned /\ Owned /\ Current)'
    BY <1>11 DEF PreserveUnavailable
  <2>3. CloseRecorded'
    BY <1>11 DEF PreserveUnavailable
  <2>4. OpSound'
    BY <1>11 DEF PreserveUnavailable
  <2>5. CleanupAlone'
    BY <1>11 DEF PreserveUnavailable
  <2> QED
    BY <2>1, <2>2, <2>3, <2>4, <2>5 DEF Inv
<1>12. CASE WaitEnds
  BY <1>12 DEF WaitEnds
<1>13. CASE WaitExpires
  BY <1>13 DEF WaitExpires
<1>14. CASE Escalate
  BY <1>14 DEF Escalate
<1>15. CASE Terminate
  <2>1. TypeOK'
    BY <1>15 DEF Terminate
  <2>2. (Unspawned /\ Owned /\ Current)'
    BY <1>15 DEF Terminate
  <2>3. CloseRecorded'
    BY <1>15 DEF Terminate
  <2>4. OpSound'
    BY <1>15 DEF Terminate
  <2>5. CleanupAlone'
    BY <1>15 DEF Terminate
  <2> QED
    BY <2>1, <2>2, <2>3, <2>4, <2>5 DEF Inv
<1>16. CASE TerminateFails
  BY <1>16 DEF TerminateFails
<1>17. CASE Finish
  <2>1. TypeOK'
    <3> HIDE DEF NoStop
    <3>1. op' \in [pc : {"idle", "asked", "request", "signal", "wait", "terminate",
                        "kill", "finish", "verify", "cleanup"},
                  run : RunOrNone, mode : Modes \cup {"none"},
                  prev : Modes \cup {"none"}, ok : BOOLEAN]
      BY <1>17 DEF Finish
    <3>2. stop' \in [run : RunOrNone, mode : Modes \cup {"none"}]
      BY <1>17, Blank DEF Finish
    <3>3. proc' \in RunOrNone /\ failedProc' \in RunOrNone
      BY <1>17 DEF Finish
    <3> QED
      BY <1>17, <3>1, <3>2, <3>3 DEF Finish
  <2>2. (Unspawned /\ Owned /\ Current)'
    BY <1>17 DEF Finish
  <2>3. CloseRecorded'
    BY <1>17 DEF Finish
  <2>4. OpSound'
    BY <1>17 DEF Finish
  <2>5. CleanupAlone'
    BY <1>17 DEF Finish
  <2> QED
    BY <2>1, <2>2, <2>3, <2>4, <2>5 DEF Inv
<1>18. CASE Verify
  BY <1>18 DEF Verify
<1>19. CASE CleanupEnds
  BY <1>19 DEF CleanupEnds
<1> QED
  BY <1>1, <1>2, <1>3, <1>4, <1>5, <1>6, <1>7, <1>8, <1>9, <1>10, <1>11, <1>12,
     <1>13, <1>14, <1>15, <1>16, <1>17, <1>18, <1>19 DEF StopStep

LEMMA Invariance == Spec => []Inv
<1>1. Inv /\ UNCHANGED vars => Inv'
  BY DEF vars, Inv, TypeOK, Unspawned, Owned, Current, CloseRecorded, OpSound,
         CleanupAlone, Alive
<1>2. Inv /\ [Next]_vars => Inv'
  BY <1>1, StartInv, StopInv, ReaderInv, ChildInv DEF Next
<1> QED
  BY <1>2, InitInv, PTL DEF Spec

\* Every reachable state is well typed.
THEOREM TypeCorrect == Spec => []TypeOK
BY Invariance, PTL DEF Inv

\* The launcher owns every living child of a bot, so there is at most one
\* (start, stop, _reader and _settle_failed_start clear and set the owner).
THEOREM ChildOwned == Spec => []Owned
BY Invariance, PTL DEF Inv

\* While the launcher closes positions itself, no child of the bot lives.
THEOREM CleaningUpAlone == Spec => []CleanupAlone
BY Invariance, PTL DEF Inv

\* A preserve stop kills nothing, and a close stop kills no child that is closing
\* positions, unless neither its request nor its signal could be sent (stop).
THEOREM KillsJustified == Spec => []KillJustified
<1>1. Inv => KillJustified
  BY DEF Inv, OpSound, KillJustified, Killing, Alive
<1> QED
  BY <1>1, Invariance, PTL

\* A close request is not taken back while its child lives.
THEOREM CloseStays == Spec => CloseNotDowngraded
<1>1. ASSUME Inv, Next, NEW r \in Runs, Alive(r), child'[r] # "dead"
      PROVE /\ stop = [run |-> r, mode |-> "close"] => stop' = stop
            /\ mail[r] = "close" => mail'[r] # "preserve"
  <2> USE <1>1, RunAssumption
      DEF Inv, TypeOK, Unspawned, Owned, Current, CloseRecorded, OpSound, Alive,
          Running, MayStart, Runs, RunOrNone, NoStop, NoOp, ownVars
  <2>1. CASE Start \/ StartRefused \/ StartFails
    BY <2>1 DEF Start, StartRefused, StartFails
  <2>2. CASE \E mode \in Modes : AskStop(mode)
    BY <2>2 DEF AskStop
  <2>3. CASE StopFindsNone \/ StopRejected
    BY <2>3 DEF StopFindsNone, StopRejected
  <2>11. CASE StopBegins
    <3>1. run = r
      OBVIOUS
    <3>2. ASSUME stop = [run |-> r, mode |-> "close"] PROVE op.mode = "close"
      BY <2>11, <3>1, <3>2 DEF StopBegins, Modes
    <3> QED
      BY <2>11, <3>1, <3>2 DEF StopBegins
  <2>4. CASE Request \/ RequestMoot \/ RequestFails
    BY <2>4 DEF Request, RequestMoot, RequestFails
  <2>5. CASE Signal \/ SignalFails \/ NoSignal \/ PreserveUnavailable
    BY <2>5 DEF Signal, SignalFails, NoSignal, PreserveUnavailable
  <2>6. CASE WaitEnds \/ WaitExpires \/ Escalate \/ Terminate \/ TerminateFails
             \/ Verify \/ CleanupEnds
    BY <2>6 DEF WaitEnds, WaitExpires, Escalate, Terminate, TerminateFails,
                Verify, CleanupEnds
  <2>7. CASE Finish
    BY <2>7 DEF Finish
  <2>8. ASSUME NEW q \in Runs, ReaderStep(q) \/ ReaderNeverStarts(q)
        PROVE stop = [run |-> r, mode |-> "close"] => stop' = stop
    BY <2>8 DEF ReaderStep, ReaderNeverStarts, ReaderEnters, ReaderEnds,
                ReaderClears, ReaderGivesUp, ReaderDone
  <2>9. ASSUME NEW q \in Runs, ReaderStep(q) \/ ReaderNeverStarts(q)
        PROVE mail' = mail
    BY <2>9 DEF ReaderStep, ReaderNeverStarts, ReaderEnters, ReaderEnds,
                ReaderClears, ReaderGivesUp, ReaderDone
  <2>10. ASSUME NEW q \in Runs, ChildStep(q)
         PROVE stop' = stop /\ (mail[r] = "close" => mail'[r] # "preserve")
    BY <2>10 DEF ChildStep, ChildTakes, ChildCloses, ChildExits
  <2> QED
    BY <2>1, <2>2, <2>3, <2>4, <2>5, <2>6, <2>7, <2>8, <2>9, <2>10, <2>11
       DEF Next, StopStep
<1>2. Inv /\ [Next]_vars =>
        [\A r \in Runs :
           Alive(r) /\ child'[r] # "dead" =>
             /\ stop = [run |-> r, mode |-> "close"] => stop' = stop
             /\ mail[r] = "close" => mail'[r] # "preserve"]_vars
  BY <1>1
<1> QED
  BY <1>2, Invariance, PTL DEF Spec, CloseNotDowngraded

===============================================================================
