---------------------------- MODULE EmergencyClose ----------------------------
(***************************************************************************)
(* How a bot shuts down: core/futures_bot.py, the drain of close requests  *)
(* and the emergency close, with the finalizer of                          *)
(* bot_utils/runtime_threads.py.  The same protocol is in core/spot_bot.py. *)
(*                                                                         *)
(* Close requests come from the launcher's control file, read by the main  *)
(* thread, and from signals, whose handler runs on the main thread between *)
(* any two of its steps, nested in whatever it does.  Each attempt to close *)
(* has a generation and a runner thread, which outlives the 45 s its        *)
(* requester waits.  A worker may still land an entry.                     *)
(***************************************************************************)
EXTENDS Integers

CONSTANTS
  MaxSignals,   \* bound on the signals received
  MaxRequests,  \* bound on the close requests published
  MaxFaults,    \* bound on the threads that fail to start or to join
  MaxOpen,      \* bound on the positions open
  MaxPasses     \* SHUTDOWN_CLOSE_MAX_PASSES

ASSUME BoundAssumption ==
  /\ MaxSignals \in Nat /\ MaxRequests \in Nat /\ MaxFaults \in Nat
  /\ MaxOpen \in Nat /\ MaxPasses \in Nat \ {0}

\* Level 1 is the program of the main thread, the levels above it are signal
\* handlers, in the order of the signals.  A runner names its generation.
Main == 1
Levels == 1..(1 + MaxSignals)
Runners == (2 + MaxSignals)..(1 + MaxSignals + MaxRequests + MaxFaults)
Actors == Levels \cup Runners
Nobody == 0

VARIABLES
  pc, next,     \* where each actor is, and where the main program goes on after a drain
  local,        \* locals of _drain_shutdown_close_requests
  requested,    \* _shutdown_close_requested
  reqGen,       \* _shutdown_close_request_generation, numbered from 1
  gate,         \* holder of _shutdown_handler_lock
  slock,        \* holder of _shutdown_lock, where a signal may find it taken
  event,        \* _shutdown_event
  inProgress,   \* _emergency_in_progress
  closed,       \* _emergency_closed
  preserved,    \* _shutdown_positions_preserved
  cur,          \* _emergency_close_generation
  req, done,    \* request_generation and done of each generation
  legs, pass,   \* the positions a runner is closing, and its close_pass
  open,         \* positions in the bot's state
  entering,     \* a worker that may still open positions lives
  signals, faults

request == <<requested, reqGen>>
latches == <<inProgress, closed, preserved>>
runner == <<cur, req, done, legs, pass>>
world == <<open, entering>>
vars == <<pc, next, local, request, gate, slock, event, latches, runner, world,
          signals, faults>>

DrainSteps == {"try", "take", "look", "once", "count", "flat", "spawn", "join",
               "defer", "judge", "release", "recheck", "check", "checked"}
MainSteps == {"loop", "consume", "gate", "latch", "ungate", "final", "finalize",
              "ended"}
CloseSteps == {"closing", "ok", "failed", "after"}
Steps == DrainSteps \cup MainSteps \cup CloseSteps \cup {"none"}
Blank == [attempt |-> 0, before |-> FALSE, same |-> FALSE, current |-> 0]

TypeOK ==
  /\ pc \in [Actors -> Steps] /\ next \in {"loop", "final", "ended"}
  /\ local \in [Actors -> [attempt : 0..MaxRequests, before : BOOLEAN,
                           same : BOOLEAN, current : 0..MaxRequests]]
  /\ requested \in BOOLEAN /\ reqGen \in 0..MaxRequests
  /\ gate \in Actors \cup {Nobody} /\ slock \in Actors \cup {Nobody}
  /\ event \in BOOLEAN /\ inProgress \in BOOLEAN
  /\ closed \in BOOLEAN /\ preserved \in BOOLEAN
  /\ cur \in Runners \cup {Nobody}
  /\ req \in [Runners -> 0..MaxRequests] /\ done \in [Runners -> BOOLEAN]
  /\ legs \in [Runners -> 0..MaxOpen] /\ pass \in [Runners -> 0..MaxPasses]
  /\ open \in 0..MaxOpen /\ entering \in BOOLEAN
  /\ signals \in 0..MaxSignals /\ faults \in 0..MaxFaults

\* A handler interrupts every level below it until it returns.
At(a, step) ==
  /\ pc[a] = step
  /\ a \in Levels => \A l \in Levels : l > a => pc[l] = "none"

Goto(a, step) == pc' = [pc EXCEPT ![a] = step]

\* The end of a drain.
Return(a) ==
  /\ Goto(a, IF a = Main THEN next ELSE "none")
  /\ local' = [local EXCEPT ![a] = Blank]

\* A generation is at work: in progress, or not known to be done.
Active == inProgress \/ (cur # Nobody /\ ~done[cur])

Publish == requested' = TRUE /\ reqGen' = reqGen + 1

-----------------------------------------------------------------------------
(* _shutdown_handler and _drain_shutdown_close_requests.                   *)

\* A signal: the handler publishes a request and drains.
Signal ==
  /\ signals < MaxSignals /\ reqGen < MaxRequests /\ pc[Main] # "ended"
  /\ signals' = signals + 1
  /\ Goto(Main + signals', "try") /\ Publish
  /\ UNCHANGED <<next, local, gate, slock, event, latches, runner, world, faults>>

NothingRequested(a) ==
  /\ At(a, "try") /\ ~requested
  /\ Return(a)
  /\ UNCHANGED <<next, request, gate, slock, event, latches, runner, world,
                 signals, faults>>

\* The owner of the gate will see the request.
GateBusy(a) ==
  /\ At(a, "try") /\ requested /\ gate # Nobody
  /\ event' = TRUE
  /\ Return(a)
  /\ UNCHANGED <<next, request, gate, slock, latches, runner, world, signals, faults>>

TakeGate(a) ==
  /\ At(a, "try") /\ requested /\ gate = Nobody
  /\ gate' = a
  /\ Goto(a, "take")
  /\ UNCHANGED <<next, local, request, slock, event, latches, runner, world,
                 signals, faults>>

\* The loop: a request is taken, or there is none left.
TakeRequest(a) ==
  /\ At(a, "take") /\ requested
  /\ requested' = FALSE
  /\ local' = [local EXCEPT ![a].attempt = reqGen]
  /\ Goto(a, "look")
  /\ UNCHANGED <<next, reqGen, gate, slock, event, latches, runner, world,
                 signals, faults>>

NoneLeft(a) ==
  /\ At(a, "take") /\ ~requested
  /\ Goto(a, "release")
  /\ UNCHANGED <<next, local, request, gate, slock, event, latches, runner, world,
                 signals, faults>>

\* active_before_attempt
Look(a) ==
  /\ At(a, "look") /\ slock = Nobody
  /\ local' = [local EXCEPT ![a].before = Active]
  /\ Goto(a, "once")
  /\ UNCHANGED <<next, request, gate, slock, event, latches, runner, world,
                 signals, faults>>

-----------------------------------------------------------------------------
(* _shutdown_handler_once.                                                 *)

\* Nothing is left to do ...
AlreadyDecided(a) ==
  /\ At(a, "once") /\ slock = Nobody
  /\ preserved \/ closed
  /\ Goto(a, "take")
  /\ UNCHANGED <<next, local, request, gate, slock, event, latches, runner, world,
                 signals, faults>>

\* ... or an earlier attempt is still at work ...
AttemptAtWork(a) ==
  /\ At(a, "once") /\ slock = Nobody
  /\ ~preserved /\ ~closed /\ Active
  /\ event' = TRUE /\ inProgress' = TRUE
  /\ Goto(a, "defer")
  /\ UNCHANGED <<next, local, request, gate, slock, closed, preserved, runner,
                 world, signals, faults>>

BeginAttemptAnyway(a) ==  \* faulty variant: an attempt that works is overlooked
  /\ At(a, "once") /\ slock = Nobody
  /\ ~preserved /\ ~closed
  /\ event' = TRUE /\ inProgress' = TRUE
  /\ Goto(a, "count")
  /\ UNCHANGED <<next, local, request, gate, slock, closed, preserved, runner,
                 world, signals, faults>>

\* ... or this one begins.
BeginAttempt(a) ==
  /\ At(a, "once") /\ slock = Nobody
  /\ ~preserved /\ ~closed /\ ~Active
  /\ event' = TRUE /\ inProgress' = TRUE
  /\ Goto(a, "count")
  /\ UNCHANGED <<next, local, request, gate, slock, closed, preserved, runner,
                 world, signals, faults>>

\* The fast path: two assignments without the lock.
NothingOpen(a) ==
  /\ At(a, "count") /\ open = 0
  /\ closed' = TRUE
  /\ Goto(a, "flat")
  /\ UNCHANGED <<next, local, request, gate, slock, event, inProgress, preserved,
                 runner, world, signals, faults>>

Flat(a) ==
  /\ At(a, "flat")
  /\ inProgress' = FALSE
  /\ Goto(a, "take")
  /\ UNCHANGED <<next, local, request, gate, slock, event, closed, preserved,
                 runner, world, signals, faults>>

SomethingOpen(a) ==
  /\ At(a, "count") /\ open > 0
  /\ Goto(a, "spawn")
  /\ UNCHANGED <<next, local, request, gate, slock, event, latches, runner, world,
                 signals, faults>>

\* The runner of a new generation g is started, for the request of this moment.
\* Its first pass works on the positions it finds.
SpawnRunner(a, g) ==
  /\ At(a, "spawn") /\ req[g] = 0 /\ \A h \in Runners : h < g => req[h] # 0
  /\ cur' = g /\ req' = [req EXCEPT ![g] = reqGen]
  /\ legs' = [legs EXCEPT ![g] = open] /\ pass' = [pass EXCEPT ![g] = 1]
  /\ pc' = [pc EXCEPT ![a] = "join", ![g] = "closing"]
  /\ UNCHANGED <<next, local, request, gate, slock, event, latches, done, world,
                 signals, faults>>

\* The thread cannot be made, or provably did not start.
SpawnFails(a) ==
  /\ At(a, "spawn") /\ faults < MaxFaults
  /\ faults' = faults + 1
  /\ inProgress' = FALSE
  /\ cur' \in {cur, Nobody}
  /\ Goto(a, "defer")
  /\ UNCHANGED <<next, local, request, gate, slock, event, closed, preserved, req,
                 done, legs, pass, world, signals>>

\* The runner is joined, or the 45 s are over.
Join(a) ==
  /\ At(a, "join")
  /\ Goto(a, "take")
  /\ UNCHANGED <<next, local, request, gate, slock, event, latches, runner, world,
                 signals, faults>>

\* The start or the join raises although the runner is at work.
JoinFails(a) ==
  /\ At(a, "join") /\ faults < MaxFaults
  /\ faults' = faults + 1
  /\ Goto(a, "defer")
  /\ UNCHANGED <<next, local, request, gate, slock, event, latches, runner, world,
                 signals>>

-----------------------------------------------------------------------------
(* The rest of the drain.                                                  *)

\* An attempt that was not handled is asked for again.
Defer(a) ==
  /\ At(a, "defer")
  /\ requested' = TRUE
  /\ Goto(a, "judge")
  /\ UNCHANGED <<next, local, reqGen, gate, slock, event, latches, runner, world,
                 signals, faults>>

\* defer_same_attempt
Judge(a) ==
  /\ At(a, "judge") /\ slock = Nobody
  /\ local' = [local EXCEPT ![a].same =
       \/ cur # Nobody /\ req[cur] = local[a].attempt
       \/ ~Active /\ ~local[a].before]
  /\ Goto(a, "release")
  /\ UNCHANGED <<next, request, gate, slock, event, latches, runner, world,
                 signals, faults>>

Release(a) ==
  /\ At(a, "release")
  /\ gate' = Nobody
  /\ Goto(a, "recheck")
  /\ UNCHANGED <<next, local, request, slock, event, latches, runner, world,
                 signals, faults>>

\* "Close the release/check race": is a request there, and of which generation?
Recheck(a) ==
  /\ At(a, "recheck")
  /\ IF requested
     THEN local' = [local EXCEPT ![a].current = reqGen] /\ Goto(a, "check")
     ELSE Return(a)
  /\ UNCHANGED <<next, request, gate, slock, event, latches, runner, world,
                 signals, faults>>

\* _shutdown_lock is taken; the gate is free, so that a signal may run a drain
\* before it is given back.
LockForCheck(a) ==
  /\ At(a, "check") /\ slock = Nobody
  /\ slock' = a
  /\ Goto(a, "checked")
  /\ UNCHANGED <<next, local, request, gate, event, latches, runner, world,
                 signals, faults>>

SameFailedAttempt(a) ==
  local[a].same /\ local[a].current = local[a].attempt /\ ~closed

DrainAgain(a) ==
  /\ At(a, "checked")
  /\ slock' = Nobody
  /\ IF ~Active /\ ~SameFailedAttempt(a)
     THEN Goto(a, "try") /\ local' = [local EXCEPT ![a] = Blank]
     ELSE Return(a)
  /\ UNCHANGED <<next, request, gate, event, latches, runner, world, signals, faults>>

-----------------------------------------------------------------------------
(* _close_runner of generation g.                                          *)

PassSucceeds(g) ==
  /\ pc[g] = "closing"
  /\ open' = open - legs[g]
  /\ Goto(g, "ok")
  /\ UNCHANGED <<next, local, request, gate, slock, event, latches, runner,
                 entering, signals, faults>>

\* Any of the legs may be closed.  Within the deadline another pass follows, on
\* the positions that are open then.
PassFails(g) ==
  /\ pc[g] = "closing"
  /\ open' \in (open - legs[g])..open
  /\ \/ /\ pass[g] < MaxPasses
        /\ legs' = [legs EXCEPT ![g] = open'] /\ pass' = [pass EXCEPT ![g] = @ + 1]
        /\ UNCHANGED pc
     \/ Goto(g, "failed") /\ UNCHANGED <<legs, pass>>
  /\ UNCHANGED <<next, local, request, gate, slock, event, latches, cur, req, done,
                 entering, signals, faults>>

\* The latches and done, in one section of _shutdown_lock.
FinishRunner(g) ==
  /\ pc[g] \in {"ok", "failed"} /\ slock = Nobody
  /\ closed' = (closed \/ pc[g] = "ok")
  /\ inProgress' = FALSE
  /\ done' = [done EXCEPT ![g] = TRUE]
  /\ legs' = [legs EXCEPT ![g] = 0] /\ pass' = [pass EXCEPT ![g] = 0]
  /\ IF pc[g] = "ok" THEN Goto(g, "try") ELSE Goto(g, "after")
  /\ UNCHANGED <<next, local, request, gate, slock, event, preserved, cur, req,
                 world, signals, faults>>

\* A runner that failed drains only for a newer request.
AfterFailure(g) ==
  /\ pc[g] = "after"
  /\ Goto(g, IF requested /\ reqGen # req[g] THEN "try" ELSE "none")
  /\ UNCHANGED <<next, local, request, gate, slock, event, latches, runner, world,
                 signals, faults>>

-----------------------------------------------------------------------------
(* The main thread: its loop, the launcher's requests, and the finalizer.  *)

LoopTurns ==
  /\ At(Main, "loop")
  /\ Goto(Main, IF event THEN "final" ELSE "consume")
  /\ UNCHANGED <<next, local, request, gate, slock, event, latches, runner, world,
                 signals, faults>>

ConsumesNothing ==
  /\ At(Main, "consume")
  /\ Goto(Main, "loop")
  /\ UNCHANGED <<next, local, request, gate, slock, event, latches, runner, world,
                 signals, faults>>

ConsumesClose ==
  /\ At(Main, "consume") /\ reqGen < MaxRequests
  /\ Publish /\ next' = "final"
  /\ Goto(Main, "try")
  /\ UNCHANGED <<local, gate, slock, event, latches, runner, world, signals, faults>>

ConsumesPreserve ==
  /\ At(Main, "consume")
  /\ Goto(Main, "gate")
  /\ UNCHANGED <<next, local, request, gate, slock, event, latches, runner, world,
                 signals, faults>>

GateForPreserve ==
  /\ At(Main, "gate") /\ gate = Nobody
  /\ gate' = Main
  /\ Goto(Main, "latch")
  /\ UNCHANGED <<next, local, request, slock, event, latches, runner, world,
                 signals, faults>>

LatchPreserveAnyway ==  \* faulty variant: a close in progress is not looked at
  /\ At(Main, "latch") /\ slock = Nobody
  /\ preserved' = TRUE /\ event' = TRUE /\ next' = "final"
  /\ Goto(Main, "ungate")
  /\ UNCHANGED <<local, request, gate, slock, inProgress, closed, runner, world,
                 signals, faults>>

LatchPreserve ==
  /\ At(Main, "latch") /\ slock = Nobody
  /\ ~inProgress
  /\ preserved' = TRUE /\ event' = TRUE /\ next' = "final"
  /\ Goto(Main, "ungate")
  /\ UNCHANGED <<local, request, gate, slock, inProgress, closed, runner, world,
                 signals, faults>>

PreserveRefused ==
  /\ At(Main, "latch") /\ slock = Nobody
  /\ inProgress
  /\ next' = "loop"
  /\ Goto(Main, "ungate")
  /\ UNCHANGED <<local, request, gate, slock, event, latches, runner, world,
                 signals, faults>>

UngateUndrained ==  \* faulty variant: requests that met the busy gate are left
  /\ At(Main, "ungate")
  /\ gate' = Nobody
  /\ Goto(Main, next)
  /\ UNCHANGED <<next, local, request, slock, event, latches, runner, world,
                 signals, faults>>

\* The gate is released and requests that met it busy are drained.
Ungate ==
  /\ At(Main, "ungate")
  /\ gate' = Nobody
  /\ Goto(Main, "try")
  /\ UNCHANGED <<next, local, request, slock, event, latches, runner, world,
                 signals, faults>>

\* One pass of finalize_runtime_shutdown within _shutdown_transition_gate.
GateForFinal ==
  /\ At(Main, "final") /\ gate = Nobody
  /\ gate' = Main
  /\ Goto(Main, "finalize")
  /\ UNCHANGED <<next, local, request, slock, event, latches, runner, world,
                 signals, faults>>

TeardownAllowed == ~entering /\ ~inProgress

FinalizeTrusting ==  \* faulty variant: the latch is believed
  /\ At(Main, "finalize") /\ slock = Nobody
  /\ event' = TRUE
  /\ next' = IF TeardownAllowed /\ closed # preserved THEN "ended" ELSE "final"
  /\ Goto(Main, "ungate")
  /\ UNCHANGED <<local, request, gate, slock, latches, runner, world, signals, faults>>

FinalizeClosed ==  \* faulty variant: kept positions are not terminal
  /\ At(Main, "finalize") /\ slock = Nobody
  /\ event' = TRUE
  /\ closed' = (closed /\ ~(TeardownAllowed /\ ~preserved /\ open > 0))
  /\ next' = IF TeardownAllowed /\ closed' THEN "ended" ELSE "final"
  /\ Goto(Main, "ungate")
  /\ UNCHANGED <<local, request, gate, slock, inProgress, preserved, runner, world,
                 signals, faults>>

\* A latch that is wrong, as an entry landed after the snapshot, is opened again;
\* the bot ends when the position action is terminal, and waits if not.
Finalize ==
  /\ At(Main, "finalize") /\ slock = Nobody
  /\ event' = TRUE
  /\ closed' = (closed /\ ~(TeardownAllowed /\ ~preserved /\ open > 0))
  /\ next' = IF TeardownAllowed /\ closed' # preserved THEN "ended" ELSE "final"
  /\ Goto(Main, "ungate")
  /\ UNCHANGED <<local, request, gate, slock, inProgress, preserved, runner, world,
                 signals, faults>>

-----------------------------------------------------------------------------
(* The workers.                                                            *)

EntryLands ==
  /\ entering /\ open < MaxOpen
  /\ open' = open + 1
  /\ UNCHANGED <<pc, next, local, request, gate, slock, event, latches, runner,
                 entering, signals, faults>>

WorkersEnd ==
  /\ entering /\ event
  /\ entering' = FALSE
  /\ UNCHANGED <<pc, next, local, request, gate, slock, event, latches, runner,
                 open, signals, faults>>

-----------------------------------------------------------------------------

Init ==
  /\ pc = [a \in Actors |-> IF a = Main THEN "loop" ELSE "none"] /\ next = "loop"
  /\ local = [a \in Actors |-> Blank]
  /\ requested = FALSE /\ reqGen = 0 /\ gate = Nobody /\ slock = Nobody
  /\ event = FALSE /\ inProgress = FALSE /\ closed = FALSE /\ preserved = FALSE
  /\ cur = Nobody /\ req = [g \in Runners |-> 0] /\ done = [g \in Runners |-> FALSE]
  /\ legs = [g \in Runners |-> 0] /\ pass = [g \in Runners |-> 0]
  /\ open \in 0..MaxOpen /\ entering = TRUE
  /\ signals = 0 /\ faults = 0

OnceStep(a) ==
  \/ AlreadyDecided(a) \/ AttemptAtWork(a) \/ BeginAttempt(a) \/ NothingOpen(a)
  \/ Flat(a) \/ SomethingOpen(a) \/ (\E g \in Runners : SpawnRunner(a, g))
  \/ SpawnFails(a) \/ Join(a) \/ JoinFails(a)

DrainStep(a) ==
  \/ NothingRequested(a) \/ GateBusy(a) \/ TakeGate(a) \/ TakeRequest(a)
  \/ NoneLeft(a) \/ Look(a) \/ OnceStep(a) \/ Defer(a) \/ Judge(a) \/ Release(a)
  \/ Recheck(a) \/ LockForCheck(a) \/ DrainAgain(a)

RunnerStep(g) ==
  \/ PassSucceeds(g) \/ PassFails(g) \/ FinishRunner(g)
  \/ AfterFailure(g)

MainStep ==
  \/ LoopTurns \/ ConsumesNothing \/ ConsumesClose \/ ConsumesPreserve
  \/ GateForPreserve \/ LatchPreserve \/ PreserveRefused \/ Ungate
  \/ GateForFinal \/ Finalize

Next ==
  \/ Signal \/ MainStep \/ EntryLands \/ WorkersEnd
  \/ \E a \in Actors : DrainStep(a)
  \/ \E g \in Runners : RunnerStep(g)

Spec == Init /\ [][Next]_vars

\* Every thread of the bot runs: waits have deadlines, a pass ends, and workers
\* see the shutdown event.  The finalizer sleeps between its passes, so that a
\* runner gets the lock the main thread takes again and again.
FairSpec ==
  /\ Spec /\ WF_vars(WorkersEnd)
  /\ WF_vars(MainStep \/ \E l \in Levels : DrainStep(l))
  /\ SF_vars(\E g \in Runners : RunnerStep(g) \/ DrainStep(g))

-----------------------------------------------------------------------------
(* Properties.                                                             *)

\* "_emergency_in_progress prevents a concurrent second run": however requests
\* and timeouts fall, at most one runner closes positions.
SoloCloser ==
  \A g, h \in Runners :
    {pc[g], pc[h]} \subseteq CloseSteps \ {"after"} => g = h

\* Once the bot has promised to keep its positions no runner closes any.
PreservedSpared == preserved => \A g \in Runners : pc[g] # "closing"

\* A bot ends only flat, or having promised to keep its positions, and never
\* under a runner or a worker: an entry that landed after the latch counts.
EndsSettled ==
  pc[Main] = "ended" =>
    /\ preserved \/ open = 0
    /\ ~entering /\ \A g \in Runners : pc[g] # "closing"

\* A signal that arrives between the release of the gate and the end of the drain
\* "can become the next owner": its handler never waits for a lock that is held
\* by the code it interrupted, which would hang the main thread for good.
NeverStuck == ~(slock \in Levels /\ \E l \in Levels : l > slock /\ At(l, "look"))

\* A close request is acted on: a close that covers the newest request comes to
\* an end, or it is settled that nothing is open, or that positions are kept.
RequestObeyed ==
  requested ~> \/ closed \/ preserved \/ ~NeverStuck
               \/ \E g \in Runners : done[g] /\ req[g] = reqGen

\* A bot that was told to keep its positions ends, unless a close had already
\* been completed by then.
PreserveEnds == preserved ~> (pc[Main] = "ended" \/ closed \/ ~NeverStuck)

=============================================================================
