------------------------------ MODULE BotProcess ------------------------------
(***************************************************************************)
(* How the launcher owns one bot: launcher/core/process_manager.py, called *)
(* by launcher/core/bot_controller.py.  Four threads meet: the user         *)
(* interface starts, a worker stops (one at a time, exclusive_stop_         *)
(* operation), a reader per run watches the child's output, and the child   *)
(* itself takes a shutdown request, exits or crashes.                       *)
(*                                                                         *)
(* Runs are numbered in the order they are started; 0 is none.  A child,   *)
(* its reader, its control file and its stop request are named by the run. *)
(***************************************************************************)
EXTENDS Naturals

CONSTANTS
  MaxRuns,   \* bound on the children spawned
  Faults     \* kinds of failure that may happen, see FaultAssumption

ASSUME RunAssumption == MaxRuns \in Nat
\* "spawn": a start fails after its child was created; "rollback": such a child
\* survives its rollback, and a kill; "reader": the output of a living child
\* ends; "channel": neither request file nor console signal can be relied on.
ASSUME FaultAssumption == Faults \subseteq {"spawn", "rollback", "reader", "channel"}

VARIABLES
  runs,         \* children spawned so far
  run,          \* run_id
  proc,         \* the run whose child self.proc is
  failedProc,   \* _failed_start_owned_proc
  stop,         \* _stop_requested_run_id and _stop_requested_mode
  child,        \* what each child is doing
  mail,         \* the unread request in the control file of each run
  reader,       \* the stdout reader of each run
  readerState,  \* _reader_state: the run of the current reader
  op            \* the stop operation of the worker, with the locals of stop()

vars == <<runs, run, proc, failedProc, stop, child, mail, reader, readerState, op>>
ownVars == <<runs, run, proc, failedProc, stop>>

Runs == 1..MaxRuns
RunOrNone == 0..MaxRuns
Modes == {"preserve", "close"}
NoStop == [run |-> 0, mode |-> "none"]
NoOp == [pc |-> "idle", run |-> 0, mode |-> "none", prev |-> "none", ok |-> FALSE]
Killing == {"terminate", "kill"}

TypeOK ==
  /\ runs \in RunOrNone /\ run \in RunOrNone /\ proc \in RunOrNone
  /\ failedProc \in RunOrNone /\ readerState \in RunOrNone
  /\ stop \in [run : RunOrNone, mode : Modes \cup {"none"}]
  /\ child \in [Runs -> {"none", "running", "preserving", "closing", "closed", "dead"}]
  /\ mail \in [Runs -> Modes \cup {"none"}]
  /\ reader \in [Runs -> {"none", "launched", "reading", "watch", "wait",
                          "done", "failed"}]
  /\ op \in [pc : {"idle", "asked", "request", "signal", "wait", "terminate",
                   "kill", "finish", "verify", "cleanup"},
             run : RunOrNone, mode : Modes \cup {"none"},
             prev : Modes \cup {"none"}, ok : BOOLEAN]

Alive(r) == child[r] \notin {"none", "dead"}

\* is_running
Running == proc # 0 /\ Alive(proc)

\* _stop_requested_run_id is that of the current run.
StopPending == run # 0 /\ stop.run = run

-----------------------------------------------------------------------------
(* start, under the lifecycle lock.                                        *)

MayStartUnwatched ==  \* faulty variant: only self.proc is looked at
  /\ runs < MaxRuns
  /\ ~StopPending /\ ~Running
  /\ readerState # 0 => reader[readerState] \in {"done", "failed"}

\* Nothing holds the start back: no stop operation, no pending stop of this
\* run, no child, and the reader of the previous child is through.
MayStart ==
  /\ runs < MaxRuns
  /\ op.pc = "idle" /\ ~StopPending /\ ~Running
  /\ readerState # 0 => reader[readerState] \in {"done", "failed"}

\* The child is spawned and a reader thread is about to be started.
Start ==
  /\ MayStart
  /\ runs' = runs + 1 /\ run' = runs' /\ proc' = runs' /\ failedProc' = 0
  /\ stop' = NoStop
  /\ child' = [child EXCEPT ![runs'] = "running"]
  /\ reader' = [reader EXCEPT ![runs'] = "launched"]
  /\ readerState' = runs'
  /\ UNCHANGED <<mail, op>>

\* The start guard of an update, or the control file, refuses: no child.
StartRefused ==
  /\ MayStart
  /\ run' = 0 /\ failedProc' = 0 /\ stop' = NoStop /\ readerState' = 0
  /\ proc' = IF failedProc = proc THEN 0 ELSE proc
  /\ UNCHANGED <<runs, child, mail, reader, op>>

\* _settle_failed_start with the child reaped.
RolledBack(r) ==
  /\ child' = [child EXCEPT ![r] = "dead"]
  /\ proc' = IF proc = r THEN 0 ELSE proc
  /\ failedProc' = IF failedProc = r THEN 0 ELSE failedProc
  /\ run' = 0

RetainedNot(r) == proc' = 0 /\ failedProc' = 0  \* faulty variant: forgotten

\* ... and with a child that survived: its ownership is retained.
Retained(r) == proc' = r /\ failedProc' = r

\* The start fails after the child was created.
StartFails ==
  /\ "spawn" \in Faults /\ MayStart
  /\ runs' = runs + 1
  /\ stop' = NoStop /\ readerState' = 0
  /\ \/ /\ child' = [child EXCEPT ![runs'] = "dead"]
        /\ run' = 0 /\ proc' = 0 /\ failedProc' = 0
     \/ /\ "rollback" \in Faults
        /\ child' = [child EXCEPT ![runs'] = "running"]
        /\ run' = runs' /\ Retained(runs')
  /\ UNCHANGED <<mail, reader, op>>

\* The reader thread of run r starts ...
ReaderEnters(r) ==
  /\ reader[r] = "launched"
  /\ reader' = [reader EXCEPT ![r] = "reading"]
  /\ UNCHANGED <<ownVars, child, mail, readerState, op>>

\* ... or provably never will, and the start is rolled back.  The lifecycle lock
\* was free in between.
ReaderNeverStarts(r) ==
  /\ "spawn" \in Faults
  /\ reader[r] = "launched" /\ readerState = r
  /\ reader' = [reader EXCEPT ![r] = "none"]
  /\ readerState' = 0
  /\ \/ RolledBack(r)
     \/ /\ "rollback" \in Faults /\ Alive(r)
        /\ Retained(r) /\ UNCHANGED <<run, child>>
  /\ UNCHANGED <<runs, stop, mail, op>>

-----------------------------------------------------------------------------
(* stop, by a worker within exclusive_stop_operation.                      *)

\* The worker is started for a bot that runs.
AskStop(mode) ==
  /\ op.pc = "idle" /\ Running
  /\ op' = [NoOp EXCEPT !.pc = "asked", !.mode = mode]
  /\ UNCHANGED <<ownVars, child, mail, reader, readerState>>

\* The snapshot under the lock: there is nothing to stop, or the child is dead.
StopFindsNone ==
  /\ op.pc = "asked" /\ ~Running
  /\ proc' = 0
  /\ failedProc' = IF failedProc = proc THEN 0 ELSE failedProc
  /\ stop' = IF proc # 0 /\ stop.run = run THEN NoStop ELSE stop
  /\ op' = [op EXCEPT !.pc = "verify"]
  /\ UNCHANGED <<runs, run, child, mail, reader, readerState>>

\* A preserve request would downgrade the close request of this run.
StopRejected ==
  /\ op.pc = "asked" /\ Running
  /\ stop = [run |-> run, mode |-> "close"] /\ op.mode = "preserve"
  /\ op' = [op EXCEPT !.pc = "verify"]
  /\ UNCHANGED <<ownVars, child, mail, reader, readerState>>

StopBeginsAlways ==  \* faulty variant: nothing is rejected
  /\ op.pc = "asked" /\ Running
  /\ stop' = [run |-> run, mode |-> op.mode]
  /\ op' = [op EXCEPT !.pc = "request", !.run = proc,
                      !.prev = IF stop.run = run THEN stop.mode ELSE "none"]
  /\ UNCHANGED <<runs, run, proc, failedProc, child, mail, reader, readerState>>

StopBegins ==
  /\ op.pc = "asked" /\ Running
  /\ ~(stop = [run |-> run, mode |-> "close"] /\ op.mode = "preserve")
  /\ stop' = [run |-> run, mode |-> op.mode]
  /\ op' = [op EXCEPT !.pc = "request", !.run = proc,
                      !.prev = IF stop.run = run THEN stop.mode ELSE "none"]
  /\ UNCHANGED <<runs, run, proc, failedProc, child, mail, reader, readerState>>

\* _request_shutdown_control
Request ==
  /\ op.pc = "request" /\ proc = op.run /\ stop.run = op.run
  /\ mail' = [mail EXCEPT ![op.run] = stop.mode]
  /\ op' = [op EXCEPT !.pc = "signal", !.ok = TRUE]
  /\ UNCHANGED <<ownVars, child, reader, readerState>>

\* The reader was faster: there is no request to make any more.
RequestMoot ==
  /\ op.pc = "request" /\ ~(proc = op.run /\ stop.run = op.run)
  /\ op' = [op EXCEPT !.pc = "signal", !.ok = FALSE]
  /\ UNCHANGED <<ownVars, child, mail, reader, readerState>>

\* The publication raises, before or after the request is in the file.
RequestFails ==
  /\ "channel" \in Faults
  /\ op.pc = "request" /\ proc = op.run /\ stop.run = op.run
  /\ \/ UNCHANGED mail
     \/ mail' = [mail EXCEPT ![op.run] = stop.mode]
  /\ op' = [op EXCEPT !.pc = "signal", !.ok = FALSE]
  /\ UNCHANGED <<ownVars, child, reader, readerState>>

\* The console signal, a fallback for a close request only.  It may be accepted
\* and never arrive.  A preserve stop without its request gives up.
Signalled == op.mode = "close" /\ (~op.ok \/ op.prev = "preserve")

Signal ==
  /\ op.pc = "signal" /\ Signalled
  /\ op' = [op EXCEPT !.pc = "wait", !.ok = TRUE]
  /\ \/ UNCHANGED child
     \/ /\ child[op.run] = "running"
        /\ child' = [child EXCEPT ![op.run] = "closing"]
  /\ UNCHANGED <<ownVars, mail, reader, readerState>>

SignalFails ==
  /\ op.pc = "signal" /\ Signalled
  /\ "channel" \in Faults \/ ~Alive(op.run)
  /\ op' = [op EXCEPT !.pc = IF op.ok THEN "wait" ELSE "terminate"]
  /\ UNCHANGED <<ownVars, child, mail, reader, readerState>>

NoSignal ==
  /\ op.pc = "signal" /\ ~Signalled /\ op.ok
  /\ op' = [op EXCEPT !.pc = "wait"]
  /\ UNCHANGED <<ownVars, child, mail, reader, readerState>>

PreserveUnavailable ==
  /\ op.pc = "signal" /\ op.mode = "preserve" /\ ~op.ok
  /\ stop' = IF stop.run = op.run THEN NoStop ELSE stop
  /\ op' = [op EXCEPT !.pc = "verify"]
  /\ UNCHANGED <<runs, run, proc, failedProc, child, mail, reader, readerState>>

\* The wait for the child ends with its death ...
WaitEnds ==
  /\ op.pc = "wait" /\ ~Alive(op.run)
  /\ op' = [op EXCEPT !.pc = "finish"]
  /\ UNCHANGED <<ownVars, child, mail, reader, readerState>>

WaitExpiresUnread ==  \* faulty variant: the runtime status is not consulted
  /\ op.pc = "wait" /\ Alive(op.run)
  /\ op' = [op EXCEPT !.pc = IF op.mode = "close" THEN "kill" ELSE "verify"]
  /\ UNCHANGED <<ownVars, child, mail, reader, readerState>>

\* ... or after 75 s: the child is left running, and the request pending, unless
\* its runtime status proves that it has nothing left to do.
WaitExpires ==
  /\ op.pc = "wait" /\ Alive(op.run)
  /\ op' = [op EXCEPT !.pc = "verify"]
  /\ UNCHANGED <<ownVars, child, mail, reader, readerState>>

Escalate ==
  /\ op.pc = "wait" /\ op.mode = "close"
  /\ child[op.run] \in {"preserving", "closed"}
  /\ op' = [op EXCEPT !.pc = "kill"]
  /\ UNCHANGED <<ownVars, child, mail, reader, readerState>>

\* terminate() and kill() on the child; a kill that does not help is an error.
Terminate ==
  /\ op.pc \in Killing
  /\ child' = [child EXCEPT ![op.run] = "dead"]
  /\ op' = [op EXCEPT !.pc = "finish"]
  /\ UNCHANGED <<ownVars, mail, reader, readerState>>

TerminateFails ==
  /\ "rollback" \in Faults
  /\ op.pc \in Killing /\ Alive(op.run)
  /\ op' = [op EXCEPT !.pc = "verify"]
  /\ UNCHANGED <<ownVars, child, mail, reader, readerState>>

\* The child is dead; what still names it is cleared.
Finish ==
  /\ op.pc = "finish"
  /\ proc' = IF proc = op.run THEN 0 ELSE proc
  /\ failedProc' = IF failedProc = op.run THEN 0 ELSE failedProc
  /\ stop' = IF stop.run = op.run THEN NoStop ELSE stop
  /\ op' = [op EXCEPT !.pc = "verify"]
  /\ UNCHANGED <<runs, run, child, mail, reader, readerState>>

\* _stop_bot_process_verified: whatever stop() said, the launcher goes on, to
\* close what is left itself, when the child no longer runs.
Verify ==
  /\ op.pc = "verify"
  /\ op' = IF Running THEN NoOp ELSE [op EXCEPT !.pc = "cleanup"]
  /\ UNCHANGED <<ownVars, child, mail, reader, readerState>>

\* The launcher's own clean-up ends: it closes positions that are still open,
\* books them, and releases the close locks of the dead process.
CleanupEnds ==
  /\ op.pc = "cleanup"
  /\ op' = NoOp
  /\ UNCHANGED <<ownVars, child, mail, reader, readerState>>

-----------------------------------------------------------------------------
(* _reader and reader_target of run r.                                     *)

\* Lines end: the child is dead, its output failed, or another run is current.
\* An exit that a stop request is waiting for is watched without a limit.
ReaderEnds(r) ==
  /\ reader[r] = "reading"
  /\ ~Alive(r) \/ run # r \/ "reader" \in Faults
  /\ reader' = [reader EXCEPT ![r] =
                  IF proc = r /\ run = r /\ stop.run = r THEN "watch" ELSE "wait"]
  /\ UNCHANGED <<ownVars, child, mail, readerState, op>>

ReaderDone(r) ==
  /\ reader' = [reader EXCEPT ![r] = "done"]
  /\ readerState' = IF readerState = r THEN 0 ELSE readerState

ReaderClearsUnstopped(r) ==  \* faulty variant: the stop request stays
  /\ reader[r] \in {"watch", "wait"} /\ ~Alive(r)
  /\ IF proc = r /\ run = r
     THEN /\ proc' = 0 /\ UNCHANGED stop
          /\ failedProc' = IF failedProc = r THEN 0 ELSE failedProc
     ELSE UNCHANGED <<proc, stop, failedProc>>
  /\ ReaderDone(r)
  /\ UNCHANGED <<runs, run, child, mail, op>>

\* The child is dead: what still names it is cleared.
ReaderClears(r) ==
  /\ reader[r] \in {"watch", "wait"} /\ ~Alive(r)
  /\ IF proc = r /\ run = r
     THEN /\ proc' = 0
          /\ stop' = IF stop.run = r THEN NoStop ELSE stop
          /\ failedProc' = IF failedProc = r THEN 0 ELSE failedProc
     ELSE UNCHANGED <<proc, stop, failedProc>>
  /\ ReaderDone(r)
  /\ UNCHANGED <<runs, run, child, mail, op>>

\* The watch ends when the child is no longer the current one; without a watch
\* the child gets a second, and one that still lives makes the reader fail.
ReaderGivesUp(r) ==
  /\ \/ reader[r] = "watch" /\ ~(proc = r /\ run = r)
     \/ reader[r] = "wait" /\ Alive(r)
  /\ IF proc = r /\ run = r
     THEN reader' = [reader EXCEPT ![r] = "failed"] /\ UNCHANGED readerState
     ELSE ReaderDone(r)
  /\ UNCHANGED <<ownVars, child, mail, op>>

-----------------------------------------------------------------------------
(* The child.                                                              *)

ChildTakes(r) ==
  /\ Alive(r) /\ mail[r] # "none"
  /\ mail' = [mail EXCEPT ![r] = "none"]
  /\ child' = [child EXCEPT ![r] =
       IF @ # "running" THEN @
       ELSE IF mail[r] = "close" THEN "closing" ELSE "preserving"]
  /\ UNCHANGED <<ownVars, reader, readerState, op>>

ChildCloses(r) ==
  /\ child[r] = "closing"
  /\ child' = [child EXCEPT ![r] = "closed"]
  /\ UNCHANGED <<ownVars, mail, reader, readerState, op>>

\* It exits when it is through, or crashes at any time.
ChildExits(r) ==
  /\ Alive(r)
  /\ child' = [child EXCEPT ![r] = "dead"]
  /\ UNCHANGED <<ownVars, mail, reader, readerState, op>>

-----------------------------------------------------------------------------

Init ==
  /\ runs = 0 /\ run = 0 /\ proc = 0 /\ failedProc = 0 /\ stop = NoStop
  /\ child = [r \in Runs |-> "none"] /\ mail = [r \in Runs |-> "none"]
  /\ reader = [r \in Runs |-> "none"] /\ readerState = 0 /\ op = NoOp

StopStep ==
  \/ StopFindsNone \/ StopRejected \/ StopBegins
  \/ Request \/ RequestMoot \/ RequestFails
  \/ Signal \/ SignalFails \/ NoSignal \/ PreserveUnavailable
  \/ WaitEnds \/ WaitExpires \/ Escalate \/ Terminate \/ TerminateFails
  \/ Finish \/ Verify \/ CleanupEnds

ReaderStep(r) ==
  ReaderEnters(r) \/ ReaderEnds(r) \/ ReaderClears(r) \/ ReaderGivesUp(r)

ChildStep(r) == ChildTakes(r) \/ ChildCloses(r) \/ ChildExits(r)

Next ==
  \/ Start \/ StartRefused \/ StartFails
  \/ \E mode \in Modes : AskStop(mode)
  \/ StopStep
  \/ \E r \in Runs : ReaderNeverStarts(r) \/ ReaderStep(r) \/ ChildStep(r)

Spec == Init /\ [][Next]_vars

\* The threads of the launcher run: a stop operation and a reader take their
\* steps.  Nothing is assumed of the child or of the user.
FairSpec ==
  Spec /\ WF_vars(StopStep) /\ \A r \in Runs : WF_vars(ReaderStep(r))

-----------------------------------------------------------------------------
(* Properties.                                                             *)

\* A living child is the one the launcher owns, so that there is at most one:
\* a bot never trades twice, or unowned, through failed starts, late readers
\* and restarts.
Owned == \A r \in Runs : Alive(r) => proc = r

\* exclusive_stop_operation: "Block concurrent restart until launcher
\* cleanup/fallback is done".  When the launcher closes positions itself, no
\* child of the bot does.
CleanupAlone == op.pc = "cleanup" => \A r \in Runs : ~Alive(r)

\* "Escalation ... is withheld while a fresh PID-/run-ID-bound status proves
\* that the position action remains incomplete" (stop): a preserve stop kills
\* nothing, and a close stop kills, after its wait, no child that is closing its
\* positions; before, only a child that neither request nor signal can reach.
KillJustified ==
  /\ op.pc \in Killing => op.mode = "close"
  /\ op.pc = "kill" => child[op.run] # "closing"
  /\ op.pc = "terminate" => ~op.ok

\* "A delayed preserve publisher must never overwrite a concurrently upgraded
\* close request": neither the request on record nor the one in the file of a
\* living child goes back from close to preserve or nothing.
CloseNotDowngraded ==
  [][\A r \in Runs :
       Alive(r) /\ child'[r] # "dead" =>
         /\ stop = [run |-> r, mode |-> "close"] => stop' = stop
         /\ mail[r] = "close" => mail'[r] # "preserve"]_vars

\* The request of a run whose reader is there to see the exit is settled; only
\* one without a reader, or whose reader gave up on it, is left to the next stop.
WatchedStopSettles ==
  \A r \in Runs :
    (StopPending /\ run = r /\ ~Alive(r))
      ~> ~(StopPending /\ run = r /\ reader[r] \notin {"none", "failed"})

===============================================================================
