--------------------------- MODULE EmergencyProofs ---------------------------
(***************************************************************************)
(* Theorems about EmergencyClose, for any number of signals, requests,     *)
(* faults, positions and passes.                                           *)
(***************************************************************************)
EXTENDS EmergencyClose, TLAPS

GateSteps == {"take", "look", "once", "count", "flat", "spawn", "join", "defer",
              "judge", "release", "latch", "ungate", "finalize"}
Closing(g) == pc[g] \in {"closing", "ok", "failed"}

\* Who may be where, and who holds what.
Places ==
  /\ \A a \in Actors : pc[a] \in MainSteps => a = Main
  /\ \A l \in Levels : pc[l] \notin CloseSteps
  /\ \A l \in Levels : l > 1 + signals => pc[l] = "none"
  /\ \A g \in Runners : req[g] = 0 => pc[g] = "none" /\ ~done[g]

Holders ==
  /\ \A a \in Actors : pc[a] \in GateSteps <=> gate = a
  /\ \A a \in Actors : pc[a] = "checked" <=> slock = a
  /\ requested => reqGen > 0
  /\ \A a \in Actors : pc[a] \in DrainSteps \ {"try"} => reqGen > 0

\* An attempt and its runner are in progress, and alone.
Attempts ==
  /\ \A g \in Runners :
       Closing(g) => /\ cur = g /\ ~done[g] /\ inProgress /\ ~preserved
                     /\ pc[g] = "closing" => legs[g] <= open
  /\ \A a \in Actors :
       pc[a] \in {"count", "flat", "spawn"} =>
         inProgress /\ ~preserved /\ \A g \in Runners : ~Closing(g)
  /\ preserved => ~inProgress

\* What the finalizer found when it let the main thread end stays so.
Ends ==
  /\ next = "ended" =>
       /\ ~entering /\ ~inProgress /\ (closed \/ preserved)
       /\ preserved \/ open = 0
       /\ pc[Main] \notin {"loop", "consume", "gate", "latch", "final", "finalize"}
  /\ pc[Main] = "ended" => next = "ended"

Inv == TypeOK /\ Places /\ Holders /\ Attempts /\ Ends

LEMMA Numbers ==
  /\ Main \in Levels /\ Main \in Actors /\ Levels \subseteq Actors
  /\ Runners \subseteq Actors /\ Levels \cap Runners = {}
  /\ Nobody \notin Actors /\ Actors \subseteq Int
  /\ \A s \in 1..MaxSignals : Main + s \in Levels /\ Main + s # Main
BY BoundAssumption DEF Main, Levels, Runners, Actors, Nobody

Locals == [attempt : 0..MaxRequests, before : BOOLEAN, same : BOOLEAN,
           current : 0..MaxRequests]

\* A record of locals stays one, whichever field is assigned.
LEMMA LocalsTyped ==
  ASSUME NEW v \in Locals, NEW n \in 0..MaxRequests, NEW b \in BOOLEAN
  PROVE /\ Blank \in Locals
        /\ [v EXCEPT !.attempt = n] \in Locals /\ [v EXCEPT !.current = n] \in Locals
        /\ [v EXCEPT !.before = b] \in Locals /\ [v EXCEPT !.same = b] \in Locals
BY BoundAssumption DEF Locals, Blank

LEMMA InitInv == Init => Inv
<1> SUFFICES ASSUME Init PROVE Inv
  OBVIOUS
<1> USE BoundAssumption, Numbers DEF Init
<1>1. TypeOK
  <2>1. Blank \in Locals
    BY DEF Blank, Locals
  <2>2. local \in [Actors -> Locals]
    BY <2>1
  <2>3. pc \in [Actors -> Steps]
    BY DEF Steps, MainSteps
  <2>4. /\ req \in [Runners -> 0..MaxRequests] /\ done \in [Runners -> BOOLEAN]
        /\ legs \in [Runners -> 0..MaxOpen] /\ pass \in [Runners -> 0..MaxPasses]
    OBVIOUS
  <2>5. reqGen \in 0..MaxRequests /\ signals \in 0..MaxSignals /\ faults \in 0..MaxFaults
    OBVIOUS
  <2> QED
    BY <2>2, <2>3, <2>4, <2>5 DEF TypeOK, Locals
<1>2. Places
  BY DEF Places, MainSteps, CloseSteps, Levels
<1>3. Holders
  BY DEF Holders, GateSteps, DrainSteps
<1>4. Attempts /\ Ends
  BY DEF Attempts, Ends, Closing
<1> QED
  BY <1>1, <1>2, <1>3, <1>4 DEF Inv

LEMMA MainInv ==
  ASSUME Inv, MainStep PROVE Inv'
<1> USE BoundAssumption, Numbers
    DEF Inv, TypeOK, Places, Holders, Attempts, Ends, Closing, GateSteps,
        DrainSteps, MainSteps, CloseSteps, Steps, Blank, At, Goto, Return, Publish,
        Active, request, latches, runner, world
<1>1. CASE LoopTurns
  <2>1. TypeOK'
    BY <1>1 DEF LoopTurns
  <2>2. Places'
    BY <1>1 DEF LoopTurns
  <2>3. Holders'
    BY <1>1 DEF LoopTurns
  <2>4. Attempts'
    BY <1>1 DEF LoopTurns
  <2>5. Ends'
    BY <1>1 DEF LoopTurns
  <2> QED
    BY <2>1, <2>2, <2>3, <2>4, <2>5
<1>2. CASE ConsumesNothing
  <2>1. TypeOK'
    BY <1>2 DEF ConsumesNothing
  <2>2. Places'
    BY <1>2 DEF ConsumesNothing
  <2>3. Holders'
    BY <1>2 DEF ConsumesNothing
  <2>4. Attempts'
    BY <1>2 DEF ConsumesNothing
  <2>5. Ends'
    BY <1>2 DEF ConsumesNothing
  <2> QED
    BY <2>1, <2>2, <2>3, <2>4, <2>5
<1>3. CASE ConsumesClose
  <2>1. TypeOK'
    BY <1>3 DEF ConsumesClose
  <2>2. Places'
    BY <1>3 DEF ConsumesClose
  <2>3. Holders'
    <3>1. pc' = [pc EXCEPT ![Main] = "try"] /\ pc[Main] = "consume"
      BY <1>3 DEF ConsumesClose
    <3>2. UNCHANGED <<gate, slock>> /\ reqGen' > 0
      BY <1>3 DEF ConsumesClose
    <3> QED
      BY <3>1, <3>2
  <2>4. Attempts'
    BY <1>3 DEF ConsumesClose
  <2>5. Ends'
    BY <1>3 DEF ConsumesClose
  <2> QED
    BY <2>1, <2>2, <2>3, <2>4, <2>5
<1>4. CASE ConsumesPreserve
  <2>1. TypeOK'
    BY <1>4 DEF ConsumesPreserve
  <2>2. Places'
    BY <1>4 DEF ConsumesPreserve
  <2>3. Holders'
    BY <1>4 DEF ConsumesPreserve
  <2>4. Attempts'
    BY <1>4 DEF ConsumesPreserve
  <2>5. Ends'
    BY <1>4 DEF ConsumesPreserve
  <2> QED
    BY <2>1, <2>2, <2>3, <2>4, <2>5
<1>5. CASE GateForPreserve
  <2>1. TypeOK'
    BY <1>5 DEF GateForPreserve
  <2>2. Places'
    BY <1>5 DEF GateForPreserve
  <2>3. Holders'
    BY <1>5 DEF GateForPreserve
  <2>4. Attempts'
    BY <1>5 DEF GateForPreserve
  <2>5. Ends'
    BY <1>5 DEF GateForPreserve
  <2> QED
    BY <2>1, <2>2, <2>3, <2>4, <2>5
<1>6. CASE LatchPreserve
  <2>1. TypeOK'
    BY <1>6 DEF LatchPreserve
  <2>2. Places'
    BY <1>6 DEF LatchPreserve
  <2>3. Holders'
    BY <1>6 DEF LatchPreserve
  <2>4. Attempts'
    BY <1>6 DEF LatchPreserve
  <2>5. Ends'
    BY <1>6 DEF LatchPreserve
  <2> QED
    BY <2>1, <2>2, <2>3, <2>4, <2>5
<1>7. CASE PreserveRefused
  <2>1. TypeOK'
    BY <1>7 DEF PreserveRefused
  <2>2. Places'
    BY <1>7 DEF PreserveRefused
  <2>3. Holders'
    BY <1>7 DEF PreserveRefused
  <2>4. Attempts'
    BY <1>7 DEF PreserveRefused
  <2>5. Ends'
    BY <1>7 DEF PreserveRefused
  <2> QED
    BY <2>1, <2>2, <2>3, <2>4, <2>5
<1>8. CASE Ungate
  <2>1. TypeOK'
    BY <1>8 DEF Ungate
  <2>2. Places'
    BY <1>8 DEF Ungate
  <2>3. Holders'
    BY <1>8 DEF Ungate
  <2>4. Attempts'
    BY <1>8 DEF Ungate
  <2>5. Ends'
    BY <1>8 DEF Ungate
  <2> QED
    BY <2>1, <2>2, <2>3, <2>4, <2>5
<1>9. CASE GateForFinal
  <2>1. TypeOK'
    BY <1>9 DEF GateForFinal
  <2>2. Places'
    BY <1>9 DEF GateForFinal
  <2>3. Holders'
    BY <1>9 DEF GateForFinal
  <2>4. Attempts'
    BY <1>9 DEF GateForFinal
  <2>5. Ends'
    BY <1>9 DEF GateForFinal
  <2> QED
    BY <2>1, <2>2, <2>3, <2>4, <2>5
<1>10. CASE Finalize
  <2>1. TypeOK'
    BY <1>10 DEF Finalize
  <2>2. Places'
    BY <1>10 DEF Finalize
  <2>3. Holders'
    BY <1>10 DEF Finalize
  <2>4. Attempts'
    BY <1>10 DEF Finalize
  <2>5. Ends'
    <3>1. pc'[Main] = "ungate" /\ UNCHANGED <<entering, inProgress, preserved, open>>
      BY <1>10 DEF Finalize
    <3>2. ASSUME next' = "ended"
          PROVE TeardownAllowed /\ closed' # preserved
      BY <1>10, <3>2 DEF Finalize
    <3>3. closed' => closed /\ ~(TeardownAllowed /\ ~preserved /\ open > 0)
      BY <1>10 DEF Finalize
    <3>4. closed' \in BOOLEAN
      BY <1>10 DEF Finalize
    <3>5. ASSUME next' = "ended"
          PROVE /\ ~entering /\ ~inProgress /\ (closed' \/ preserved)
                /\ preserved \/ open = 0
      <4>1. TeardownAllowed /\ (closed' \/ preserved)
        BY <3>2, <3>4, <3>5
      <4>2. preserved \/ ~(open > 0)
        BY <3>3, <4>1
      <4> QED
        BY <4>1, <4>2 DEF TeardownAllowed
    <3> QED
      BY <3>1, <3>5
  <2> QED
    BY <2>1, <2>2, <2>3, <2>4, <2>5
<1> QED
  BY <1>1, <1>2, <1>3, <1>4, <1>5, <1>6, <1>7, <1>8, <1>9, <1>10 DEF MainStep

LEMMA DrainInv ==
  ASSUME Inv, NEW a \in Actors, DrainStep(a) PROVE Inv'
<1> USE BoundAssumption, Numbers
    DEF Inv, TypeOK, Places, Holders, Attempts, Ends, Closing, GateSteps,
        DrainSteps, MainSteps, CloseSteps, Steps, Blank, At, Goto, Return, Publish,
        Active, request, latches, runner, world
<1>1. CASE NothingRequested(a)
  <2>1. TypeOK'
    BY <1>1 DEF NothingRequested
  <2>2. Places'
    BY <1>1 DEF NothingRequested
  <2>3. Holders'
    BY <1>1 DEF NothingRequested
  <2>4. Attempts'
    BY <1>1 DEF NothingRequested
  <2>5. Ends'
    BY <1>1 DEF NothingRequested
  <2> QED
    BY <2>1, <2>2, <2>3, <2>4, <2>5
<1>2. CASE GateBusy(a)
  <2>1. TypeOK'
    BY <1>2 DEF GateBusy
  <2>2. Places'
    BY <1>2 DEF GateBusy
  <2>3. Holders'
    BY <1>2 DEF GateBusy
  <2>4. Attempts'
    BY <1>2 DEF GateBusy
  <2>5. Ends'
    BY <1>2 DEF GateBusy
  <2> QED
    BY <2>1, <2>2, <2>3, <2>4, <2>5
<1>3. CASE TakeGate(a)
  <2>1. TypeOK'
    BY <1>3 DEF TakeGate
  <2>2. Places'
    BY <1>3 DEF TakeGate
  <2>3. Holders'
    BY <1>3 DEF TakeGate
  <2>4. Attempts'
    BY <1>3 DEF TakeGate
  <2>5. Ends'
    BY <1>3 DEF TakeGate
  <2> QED
    BY <2>1, <2>2, <2>3, <2>4, <2>5
<1>4. CASE TakeRequest(a)
  <2>1. TypeOK'
    <3>1. [local[a] EXCEPT !.attempt = reqGen] \in Locals
      <4>1. local[a] \in Locals /\ reqGen \in 0..MaxRequests
        BY DEF Locals
      <4> QED
        BY <4>1, LocalsTyped
    <3>2. local' \in [Actors -> Locals]
      <4>1. local' = [local EXCEPT ![a] = [local[a] EXCEPT !.attempt = reqGen]]
        BY <1>4 DEF TakeRequest
      <4>2. local \in [Actors -> Locals]
        BY DEF Locals
      <4> QED
        BY <3>1, <4>1, <4>2
    <3> HIDE DEF Places, Holders, Attempts, Ends
    <3> QED
      BY <1>4, <3>2 DEF TakeRequest, Locals
  <2>2. Places'
    BY <1>4 DEF TakeRequest
  <2>3. Holders'
    BY <1>4 DEF TakeRequest
  <2>4. Attempts'
    BY <1>4 DEF TakeRequest
  <2>5. Ends'
    BY <1>4 DEF TakeRequest
  <2> QED
    BY <2>1, <2>2, <2>3, <2>4, <2>5
<1>5. CASE NoneLeft(a)
  <2>1. TypeOK'
    BY <1>5 DEF NoneLeft
  <2>2. Places'
    BY <1>5 DEF NoneLeft
  <2>3. Holders'
    BY <1>5 DEF NoneLeft
  <2>4. Attempts'
    BY <1>5 DEF NoneLeft
  <2>5. Ends'
    BY <1>5 DEF NoneLeft
  <2> QED
    BY <2>1, <2>2, <2>3, <2>4, <2>5
<1>6. CASE Look(a)
  <2>1. TypeOK'
    <3>1. [local[a] EXCEPT !.before = Active] \in Locals
      <4>1. local[a] \in Locals /\ Active \in BOOLEAN
        BY DEF Locals
      <4> QED
        BY <4>1, LocalsTyped
    <3>2. local' \in [Actors -> Locals]
      <4>1. local' = [local EXCEPT ![a] = [local[a] EXCEPT !.before = Active]]
        BY <1>6 DEF Look
      <4>2. local \in [Actors -> Locals]
        BY DEF Locals
      <4> QED
        BY <3>1, <4>1, <4>2
    <3> HIDE DEF Places, Holders, Attempts, Ends
    <3> QED
      BY <1>6, <3>2 DEF Look, Locals
  <2>2. Places'
    BY <1>6 DEF Look
  <2>3. Holders'
    BY <1>6 DEF Look
  <2>4. Attempts'
    BY <1>6 DEF Look
  <2>5. Ends'
    BY <1>6 DEF Look
  <2> QED
    BY <2>1, <2>2, <2>3, <2>4, <2>5
<1>7. CASE AlreadyDecided(a)
  <2>1. TypeOK'
    BY <1>7 DEF AlreadyDecided
  <2>2. Places'
    BY <1>7 DEF AlreadyDecided
  <2>3. Holders'
    BY <1>7 DEF AlreadyDecided
  <2>4. Attempts'
    BY <1>7 DEF AlreadyDecided
  <2>5. Ends'
    BY <1>7 DEF AlreadyDecided
  <2> QED
    BY <2>1, <2>2, <2>3, <2>4, <2>5
<1>8. CASE AttemptAtWork(a)
  <2>1. TypeOK'
    BY <1>8 DEF AttemptAtWork
  <2>2. Places'
    BY <1>8 DEF AttemptAtWork
  <2>3. Holders'
    BY <1>8 DEF AttemptAtWork
  <2>4. Attempts'
    BY <1>8 DEF AttemptAtWork
  <2>5. Ends'
    BY <1>8 DEF AttemptAtWork
  <2> QED
    BY <2>1, <2>2, <2>3, <2>4, <2>5
<1>9. CASE BeginAttempt(a)
  <2>1. TypeOK'
    BY <1>9 DEF BeginAttempt
  <2>2. Places'
    BY <1>9 DEF BeginAttempt
  <2>3. Holders'
    BY <1>9 DEF BeginAttempt
  <2>4. Attempts'
    BY <1>9 DEF BeginAttempt
  <2>5. Ends'
    BY <1>9 DEF BeginAttempt
  <2> QED
    BY <2>1, <2>2, <2>3, <2>4, <2>5
<1>10. CASE NothingOpen(a)
  <2>1. TypeOK'
    BY <1>10 DEF NothingOpen
  <2>2. Places'
    BY <1>10 DEF NothingOpen
  <2>3. Holders'
    BY <1>10 DEF NothingOpen
  <2>4. Attempts'
    BY <1>10 DEF NothingOpen
  <2>5. Ends'
    BY <1>10 DEF NothingOpen
  <2> QED
    BY <2>1, <2>2, <2>3, <2>4, <2>5
<1>11. CASE Flat(a)
  <2>1. TypeOK'
    BY <1>11 DEF Flat
  <2>2. Places'
    BY <1>11 DEF Flat
  <2>3. Holders'
    BY <1>11 DEF Flat
  <2>4. Attempts'
    BY <1>11 DEF Flat
  <2>5. Ends'
    BY <1>11 DEF Flat
  <2> QED
    BY <2>1, <2>2, <2>3, <2>4, <2>5
<1>12. CASE SomethingOpen(a)
  <2>1. TypeOK'
    BY <1>12 DEF SomethingOpen
  <2>2. Places'
    BY <1>12 DEF SomethingOpen
  <2>3. Holders'
    BY <1>12 DEF SomethingOpen
  <2>4. Attempts'
    BY <1>12 DEF SomethingOpen
  <2>5. Ends'
    BY <1>12 DEF SomethingOpen
  <2> QED
    BY <2>1, <2>2, <2>3, <2>4, <2>5
<1>13. CASE SpawnFails(a)
  <2>1. TypeOK'
    <3> HIDE DEF Places, Holders, Attempts, Ends
    <3>1. pc' \in [Actors -> Steps] /\ cur' \in Runners \cup {Nobody}
      BY <1>13 DEF SpawnFails
    <3>2. faults' \in 0..MaxFaults
      BY <1>13 DEF SpawnFails
    <3> QED
      BY <1>13, <3>1, <3>2 DEF SpawnFails
  <2>2. Places'
    BY <1>13 DEF SpawnFails
  <2>3. Holders'
    BY <1>13 DEF SpawnFails
  <2>4. Attempts'
    BY <1>13 DEF SpawnFails
  <2>5. Ends'
    BY <1>13 DEF SpawnFails
  <2> QED
    BY <2>1, <2>2, <2>3, <2>4, <2>5
<1>14. CASE Join(a)
  <2>1. TypeOK'
    BY <1>14 DEF Join
  <2>2. Places'
    BY <1>14 DEF Join
  <2>3. Holders'
    BY <1>14 DEF Join
  <2>4. Attempts'
    BY <1>14 DEF Join
  <2>5. Ends'
    BY <1>14 DEF Join
  <2> QED
    BY <2>1, <2>2, <2>3, <2>4, <2>5
<1>15. CASE JoinFails(a)
  <2>1. TypeOK'
    BY <1>15 DEF JoinFails
  <2>2. Places'
    BY <1>15 DEF JoinFails
  <2>3. Holders'
    BY <1>15 DEF JoinFails
  <2>4. Attempts'
    BY <1>15 DEF JoinFails
  <2>5. Ends'
    BY <1>15 DEF JoinFails
  <2> QED
    BY <2>1, <2>2, <2>3, <2>4, <2>5
<1>16. CASE Defer(a)
  <2>1. TypeOK'
    BY <1>16 DEF Defer
  <2>2. Places'
    BY <1>16 DEF Defer
  <2>3. Holders'
    BY <1>16 DEF Defer
  <2>4. Attempts'
    BY <1>16 DEF Defer
  <2>5. Ends'
    BY <1>16 DEF Defer
  <2> QED
    BY <2>1, <2>2, <2>3, <2>4, <2>5
<1>17. CASE Judge(a)
  <2>1. TypeOK'
    <3> DEFINE b == \/ cur # Nobody /\ req[cur] = local[a].attempt
                    \/ ~Active /\ ~local[a].before
    <3>1. [local[a] EXCEPT !.same = b] \in Locals
      <4>1. local[a] \in Locals /\ b \in BOOLEAN
        BY DEF Locals
      <4> HIDE DEF b
      <4> QED
        BY <4>1, LocalsTyped
    <3>2. local' \in [Actors -> Locals]
      <4>1. local' = [local EXCEPT ![a] = [local[a] EXCEPT !.same = b]]
        BY <1>17 DEF Judge
      <4>2. local \in [Actors -> Locals]
        BY DEF Locals
      <4> HIDE DEF b
      <4> QED
        BY <3>1, <4>1, <4>2
    <3> HIDE DEF Places, Holders, Attempts, Ends
    <3> QED
      BY <1>17, <3>2 DEF Judge, Locals
  <2>2. Places'
    BY <1>17 DEF Judge
  <2>3. Holders'
    BY <1>17 DEF Judge
  <2>4. Attempts'
    BY <1>17 DEF Judge
  <2>5. Ends'
    BY <1>17 DEF Judge
  <2> QED
    BY <2>1, <2>2, <2>3, <2>4, <2>5
<1>18. CASE Release(a)
  <2>1. TypeOK'
    BY <1>18 DEF Release
  <2>2. Places'
    BY <1>18 DEF Release
  <2>3. Holders'
    BY <1>18 DEF Release
  <2>4. Attempts'
    BY <1>18 DEF Release
  <2>5. Ends'
    BY <1>18 DEF Release
  <2> QED
    BY <2>1, <2>2, <2>3, <2>4, <2>5
<1>19. CASE Recheck(a)
  <2>1. TypeOK'
    <3>1. local \in [Actors -> Locals] /\ local[a] \in Locals
      BY DEF Locals
    <3>2. [local[a] EXCEPT !.current = reqGen] \in Locals /\ Blank \in Locals
      BY <3>1, LocalsTyped
    <3>3. \/ local' = [local EXCEPT ![a] = [local[a] EXCEPT !.current = reqGen]]
          \/ local' = [local EXCEPT ![a] = Blank]
      BY <1>19 DEF Recheck
    <3>4. local' \in [Actors -> Locals]
      <4> HIDE DEF Inv
      <4> QED
        BY <3>1, <3>2, <3>3
    <3>5. pc' \in [Actors -> Steps]
      BY <1>19 DEF Recheck
    <3> HIDE DEF Places, Holders, Attempts, Ends
    <3> QED
      BY <1>19, <3>4, <3>5 DEF Recheck, Locals
  <2>2. Places'
    BY <1>19 DEF Recheck
  <2>3. Holders'
    BY <1>19 DEF Recheck
  <2>4. Attempts'
    BY <1>19 DEF Recheck
  <2>5. Ends'
    BY <1>19 DEF Recheck
  <2> QED
    BY <2>1, <2>2, <2>3, <2>4, <2>5
<1>20. CASE LockForCheck(a)
  <2>1. TypeOK'
    BY <1>20 DEF LockForCheck
  <2>2. Places'
    BY <1>20 DEF LockForCheck
  <2>3. Holders'
    BY <1>20 DEF LockForCheck
  <2>4. Attempts'
    BY <1>20 DEF LockForCheck
  <2>5. Ends'
    BY <1>20 DEF LockForCheck
  <2> QED
    BY <2>1, <2>2, <2>3, <2>4, <2>5
<1>21. CASE DrainAgain(a)
  <2>1. TypeOK'
    <3>1. local \in [Actors -> Locals] /\ local[a] \in Locals
      BY DEF Locals
    <3>2. Blank \in Locals
      BY <3>1, LocalsTyped
    <3>3. local' = [local EXCEPT ![a] = Blank]
      BY <1>21 DEF DrainAgain
    <3>4. local' \in [Actors -> Locals]
      <4> HIDE DEF Inv
      <4> QED
        BY <3>1, <3>2, <3>3
    <3>5. pc' \in [Actors -> Steps]
      BY <1>21 DEF DrainAgain
    <3> HIDE DEF Places, Holders, Attempts, Ends
    <3> QED
      BY <1>21, <3>4, <3>5 DEF DrainAgain, Locals
  <2>2. Places'
    BY <1>21 DEF DrainAgain
  <2>3. Holders'
    BY <1>21 DEF DrainAgain
  <2>4. Attempts'
    BY <1>21 DEF DrainAgain
  <2>5. Ends'
    BY <1>21 DEF DrainAgain
  <2> QED
    BY <2>1, <2>2, <2>3, <2>4, <2>5
<1>22. ASSUME NEW g \in Runners, SpawnRunner(a, g) PROVE Inv'
  <2>1. TypeOK'
    BY <1>22 DEF SpawnRunner
  <2>2. Places'
    BY <1>22 DEF SpawnRunner
  <2>3. Holders'
    BY <1>22 DEF SpawnRunner
  <2>4. Attempts'
    BY <1>22 DEF SpawnRunner
  <2>5. Ends'
    BY <1>22 DEF SpawnRunner
  <2> QED
    BY <2>1, <2>2, <2>3, <2>4, <2>5
<1> QED
  BY <1>1, <1>2, <1>3, <1>4, <1>5, <1>6, <1>7, <1>8, <1>9, <1>10, <1>11, <1>12, <1>13, <1>14, <1>15, <1>16, <1>17, <1>18, <1>19, <1>20, <1>21, <1>22 DEF DrainStep, OnceStep

LEMMA RunnerInv ==
  ASSUME Inv, NEW g \in Runners, RunnerStep(g) PROVE Inv'
<1> USE BoundAssumption, Numbers
    DEF Inv, TypeOK, Places, Holders, Attempts, Ends, Closing, GateSteps,
        DrainSteps, MainSteps, CloseSteps, Steps, Blank, At, Goto, Return, Publish,
        Active, request, latches, runner, world
<1>1. CASE PassSucceeds(g)
  <2>1. TypeOK'
    BY <1>1 DEF PassSucceeds
  <2>2. Places'
    BY <1>1 DEF PassSucceeds
  <2>3. Holders'
    BY <1>1 DEF PassSucceeds
  <2>4. Attempts'
    BY <1>1 DEF PassSucceeds
  <2>5. Ends'
    BY <1>1 DEF PassSucceeds
  <2> QED
    BY <2>1, <2>2, <2>3, <2>4, <2>5
<1>2. CASE PassFails(g)
  <2>1. TypeOK'
    BY <1>2 DEF PassFails
  <2>2. Places'
    BY <1>2 DEF PassFails
  <2>3. Holders'
    BY <1>2 DEF PassFails
  <2>4. Attempts'
    BY <1>2 DEF PassFails
  <2>5. Ends'
    BY <1>2 DEF PassFails
  <2> QED
    BY <2>1, <2>2, <2>3, <2>4, <2>5
<1>3. CASE FinishRunner(g)
  <2>1. TypeOK'
    <3> HIDE DEF Places, Holders, Attempts, Ends
    <3>1. pc' \in [Actors -> Steps]
      BY <1>3 DEF FinishRunner
    <3>2. /\ done' \in [Runners -> BOOLEAN] /\ legs' \in [Runners -> 0..MaxOpen]
          /\ pass' \in [Runners -> 0..MaxPasses]
      BY <1>3 DEF FinishRunner
    <3> QED
      BY <1>3, <3>1, <3>2 DEF FinishRunner
  <2>2. Places'
    BY <1>3 DEF FinishRunner
  <2>3. Holders'
    BY <1>3 DEF FinishRunner
  <2>4. Attempts'
    BY <1>3 DEF FinishRunner
  <2>5. Ends'
    BY <1>3 DEF FinishRunner
  <2> QED
    BY <2>1, <2>2, <2>3, <2>4, <2>5
<1>4. CASE AfterFailure(g)
  <2>1. TypeOK'
    BY <1>4 DEF AfterFailure
  <2>2. Places'
    BY <1>4 DEF AfterFailure
  <2>3. Holders'
    BY <1>4 DEF AfterFailure
  <2>4. Attempts'
    BY <1>4 DEF AfterFailure
  <2>5. Ends'
    BY <1>4 DEF AfterFailure
  <2> QED
    BY <2>1, <2>2, <2>3, <2>4, <2>5
<1> QED
  BY <1>1, <1>2, <1>3, <1>4 DEF RunnerStep

LEMMA OtherInv ==
  ASSUME Inv, Signal \/ EntryLands \/ WorkersEnd PROVE Inv'
<1> USE BoundAssumption, Numbers
    DEF Inv, TypeOK, Places, Holders, Attempts, Ends, Closing, GateSteps,
        DrainSteps, MainSteps, CloseSteps, Steps, Blank, At, Goto, Return, Publish,
        Active, request, latches, runner, world
<1>1. CASE Signal
  <2>1. TypeOK'
    BY <1>1 DEF Signal
  <2>6. PICK l \in Levels : l = 2 + signals
    BY <1>1 DEF Signal, Levels
  <2>8. l # Main /\ l > 1 + signals
    BY <2>6 DEF Main
  <2>9. Main + (signals + 1) = l
    BY <2>6 DEF Main
  <2>10. /\ signals' = signals + 1 /\ UNCHANGED <<req, done, gate, slock>>
         /\ pc' = [pc EXCEPT ![Main + signals'] = "try"]
    BY <1>1 DEF Signal
  <2>7. /\ l # Main /\ pc[l] = "none" /\ pc' = [pc EXCEPT ![l] = "try"]
        /\ signals' = signals + 1 /\ UNCHANGED <<req, done, gate, slock>>
    BY <2>8, <2>9, <2>10
  <2>2. Places'
    BY <2>6, <2>7
  <2>3. Holders'
    <3>1. requested' /\ reqGen' > 0 /\ UNCHANGED <<gate, slock>>
      BY <1>1 DEF Signal
    <3> QED
      BY <2>6, <2>7, <3>1
  <2>4. Attempts'
    BY <1>1 DEF Signal
  <2>5. Ends'
    BY <1>1 DEF Signal
  <2> QED
    BY <2>1, <2>2, <2>3, <2>4, <2>5
<1>2. CASE EntryLands
  <2>1. TypeOK'
    BY <1>2 DEF EntryLands
  <2>2. Places'
    BY <1>2 DEF EntryLands
  <2>3. Holders'
    BY <1>2 DEF EntryLands
  <2>4. Attempts'
    BY <1>2 DEF EntryLands
  <2>5. Ends'
    BY <1>2 DEF EntryLands
  <2> QED
    BY <2>1, <2>2, <2>3, <2>4, <2>5
<1>3. CASE WorkersEnd
  <2>1. TypeOK'
    BY <1>3 DEF WorkersEnd
  <2>2. Places'
    BY <1>3 DEF WorkersEnd
  <2>3. Holders'
    BY <1>3 DEF WorkersEnd
  <2>4. Attempts'
    BY <1>3 DEF WorkersEnd
  <2>5. Ends'
    BY <1>3 DEF WorkersEnd
  <2> QED
    BY <2>1, <2>2, <2>3, <2>4, <2>5
<1> QED
  BY <1>1, <1>2, <1>3

LEMMA Invariance == Spec => []Inv
<1>1. Inv /\ UNCHANGED vars => Inv'
  BY DEF vars, request, latches, runner, world, Inv, TypeOK, Places, Holders,
         Attempts, Ends, Closing
<1>2. Inv /\ [Next]_vars => Inv'
  BY <1>1, MainInv, DrainInv, RunnerInv, OtherInv DEF Next
<1> QED
  BY <1>2, InitInv, PTL DEF Spec

\* Every reachable state is well typed.
THEOREM TypeCorrect == Spec => []TypeOK
BY Invariance, PTL DEF Inv

\* At most one runner closes positions, whatever requests, timeouts and failed
\* threads lead to (_shutdown_handler_once, _close_runner).
THEOREM ClosesAlone == Spec => []SoloCloser
<1>1. Inv => SoloCloser
  BY DEF Inv, TypeOK, Places, Attempts, Closing, SoloCloser, CloseSteps
<1> QED
  BY <1>1, Invariance, PTL

\* A bot that has promised to keep its positions closes none
\* (_consume_launcher_shutdown_request against _shutdown_handler_once).
THEOREM PreserveKept == Spec => []PreservedSpared
<1>1. Inv => PreservedSpared
  BY DEF Inv, Attempts, Closing, PreservedSpared
<1> QED
  BY <1>1, Invariance, PTL

\* A bot ends only settled: flat or preserving, with no worker and no runner
\* (finalize_runtime_shutdown).
THEOREM SettledEnd == Spec => []EndsSettled
<1>1. Inv => EndsSettled
  BY DEF Inv, Attempts, Ends, Closing, EndsSettled
<1> QED
  BY <1>1, Invariance, PTL

===============================================================================
