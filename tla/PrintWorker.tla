---------------------------- MODULE PrintWorker ----------------------------
(***************************************************************************)
(* The running print agent around its job table: the queue worker          *)
(* (worker_loop in src-tauri/src/state.rs), the WebSocket and window       *)
(* commands that touch the queue (State::dispatch, State::enqueue), the    *)
(* loopback listener's start (server::run), graceful stop (stop in         *)
(* main.rs), process crash and restart (Storage::open).                    *)
(*                                                                         *)
(* The transport is abstract here: it may put the job's bytes on paper     *)
(* and it returns a verdict.  What a verdict promises about the bytes is   *)
(* the operator Contract; Delivery.tla checks the transports of this       *)
(* repository against it.                                                  *)
(***************************************************************************)
EXTENDS PrintQueue

CONSTANTS
  Faults,         \* which of FaultKinds this instance may suffer
  DEGRADED_AFTER, \* 3 in the code
  Horizon         \* bound: seconds the clock advances with no job waiting

FaultKinds == {"panic", "db", "crash", "clock", "port"}

ASSUME PrintWorkerConstants ==
  /\ Faults \subseteq FaultKinds
  /\ DEGRADED_AFTER \in Nat \ {0}
  /\ Horizon \in Nat

None == "none"

VARIABLES
  agent,        \* "running", "stopping" (the stopping flag), "down"
  pc,           \* where the worker is: see WorkerStates
  cur,          \* the claimed job, or None
  max,          \* max_attempts, as read together with the claim
  wire,         \* "written" once this attempt's bytes reached the device
  result,       \* what deliver() returned: an element of Errors
  loose,        \* jobs whose abandoned transport thread may still write
  active,       \* State.active: the printer shown as busy, or None
  failures,     \* consecutive internal failures, saturating at DEGRADED_AFTER
  listener,     \* "starting", "listening", "failed"
  server_error, \* State.server_error: None, "listener" or "degraded"
  max_attempts  \* Config.max_attempts

workerVars == <<pc, cur, max, wire, result, loose, active, failures>>
vars == <<tableVars, agent, workerVars, listener, server_error, max_attempts>>

\* "loop": at the test of `stopping`; "claiming": past it; "sending": a job is
\* claimed and being encoded and delivered; "finishing": delivered, verdict not
\* yet stored; "done": worker_done.
WorkerStates == {"loop", "claiming", "sending", "finishing", "done"}

TypeOK ==
  /\ jobs \in [JobIds -> Row \cup {NoJob}]
  /\ clock \in Int
  /\ submissions \in 0..MaxSubmissions
  /\ submitted \in [JobIds -> 0..MaxSubmissions]
  /\ paper \in [JobIds -> Nat]
  /\ agent \in {"running", "stopping", "down"}
  /\ pc \in WorkerStates
  /\ cur \in JobIds \cup {None}
  /\ max \in 1..MaxAttemptsLimit
  /\ wire \in {"blank", "written"}
  /\ result \in Errors
  /\ loose \subseteq JobIds
  /\ active \in Printers \cup {None}
  /\ failures \in 0..DEGRADED_AFTER
  /\ listener \in {"starting", "listening", "failed"}
  /\ server_error \in {None, "listener", "degraded"}
  /\ max_attempts \in 1..MaxAttemptsLimit

-----------------------------------------------------------------------------
WorkerInit ==
  /\ pc = "loop"
  /\ cur = None
  /\ max = 1
  /\ wire = "blank"
  /\ result = "none"
  /\ loose = {}
  /\ active = None
  /\ failures = 0

Init ==
  /\ TableInit
  /\ agent = "running"
  /\ WorkerInit
  /\ listener = "starting"
  /\ server_error = None
  /\ max_attempts \in 1..MaxAttemptsLimit

-----------------------------------------------------------------------------
(* Commands.  dispatch() tests `stopping` and enqueue() tests worker_done   *)
(* before they take the store's lock, so a handler that passed the tests    *)
(* completes whatever happened meanwhile: only the end of the process       *)
(* stops it.                                                                *)

Enqueue(id, p, d) ==
  /\ agent # "down"
  /\ enqueue(id, p, d)
  /\ UNCHANGED <<agent, workerVars, listener, server_error, max_attempts>>

Cancel(id) ==
  /\ agent # "down"
  /\ cancel(id)
  /\ UNCHANGED <<agent, workerVars, listener, server_error, max_attempts>>

Clear ==
  /\ agent # "down"
  /\ clear
  /\ loose' = {id \in loose : jobs'[id] # NoJob}
  /\ UNCHANGED <<agent, pc, cur, max, wire, result, active, failures,
                 listener, server_error, max_attempts>>

\* save_config() from the settings window, as far as the queue is concerned.
SaveConfig(m) ==
  /\ agent # "down"
  /\ max_attempts' = m
  /\ UNCHANGED <<tableVars, agent, workerVars, listener, server_error>>

-----------------------------------------------------------------------------
(* The worker.                                                              *)

\* The end of an iteration: count the failure or start over, and maintain the
\* QUEUE_DEGRADED marker in server_error.
EndIteration(failed) ==
  LET f == IF ~failed THEN 0
           ELSE IF failures < DEGRADED_AFTER THEN failures + 1 ELSE failures
  IN  /\ pc' = "loop"
      /\ cur' = None
      /\ wire' = "blank"
      /\ result' = "none"
      /\ failures' = f
      /\ server_error' = IF f >= DEGRADED_AFTER THEN "degraded"
                         ELSE IF server_error = "degraded" THEN None
                         ELSE server_error

\* while !stopping
StartIteration ==
  /\ pc = "loop"
  /\ agent = "running"
  /\ pc' = "claiming"
  /\ UNCHANGED <<tableVars, agent, cur, max, wire, result, loose, active,
                 failures, listener, server_error, max_attempts>>

\* Mutant: stop does not wait for the transfer in hand.
LeaveLoop_at_once ==
  /\ pc # "done"
  /\ agent = "stopping"
  /\ pc' = "done"
  /\ UNCHANGED <<tableVars, agent, cur, max, wire, result, loose, active,
                 failures, listener, server_error, max_attempts>>

LeaveLoop ==
  /\ pc = "loop"
  /\ agent = "stopping"
  /\ pc' = "done"
  /\ UNCHANGED <<tableVars, agent, cur, max, wire, result, loose, active,
                 failures, listener, server_error, max_attempts>>

Claim(id) ==
  /\ pc = "claiming"
  /\ claim(id)
  /\ pc' = "sending"
  /\ cur' = id
  /\ max' = max_attempts
  /\ active' = jobs[id].printer
  /\ UNCHANGED <<agent, wire, result, loose, failures, listener, server_error,
                 max_attempts>>

ClaimNothing ==
  /\ pc = "claiming"
  /\ Claimable(clock) = {}
  /\ EndIteration(FALSE)
  /\ UNCHANGED <<tableVars, agent, max, loose, active, listener, max_attempts>>

\* config() or claim() failed: the transaction rolled back.
ClaimFails ==
  /\ "db" \in Faults
  /\ pc = "claiming"
  /\ EndIteration(TRUE)
  /\ UNCHANGED <<tableVars, agent, max, loose, active, listener, max_attempts>>

\* The transport hands the job's bytes to the device.
Emit ==
  /\ pc = "sending"
  /\ wire = "blank"
  /\ wire' = "written"
  /\ paper' = [paper EXCEPT ![cur] = @ + 1]
  /\ UNCHANGED <<jobs, clock, submissions, submitted, agent, pc, cur, max,
                 result, loose, active, failures, listener, server_error,
                 max_attempts>>

\* What the queue relies on: success means the bytes went out, an error not
\* marked uncertain means that none did.  An encoding error is a permanent one.
Contract(error) ==
  /\ error = "none" => wire = "written"
  /\ error \in {"retryable", "permanent"} => wire = "blank"

\* encode() and deliver() returned.  A USB call that ran into its deadline
\* leaves a thread behind that may still write.
Deliver(error) ==
  /\ pc = "sending"
  /\ Contract(error)
  /\ pc' = "finishing"
  /\ result' = error
  /\ active' = None
  /\ loose' = IF error = "uncertain" /\ wire = "blank" THEN loose \cup {cur} ELSE loose
  /\ UNCHANGED <<tableVars, agent, cur, max, wire, failures, listener,
                 server_error, max_attempts>>

LateEmit(id) ==
  /\ id \in loose
  /\ loose' = loose \ {id}
  /\ paper' = [paper EXCEPT ![id] = @ + 1]
  /\ UNCHANGED <<jobs, clock, submissions, submitted, agent, pc, cur, max, wire,
                 result, active, failures, listener, server_error, max_attempts>>

\* finish() succeeded; `continue` skips the server_error block.
Finish ==
  /\ pc = "finishing"
  /\ finish(cur, result, max)
  /\ pc' = "loop"
  /\ cur' = None
  /\ wire' = "blank"
  /\ result' = "none"
  /\ failures' = 0
  /\ UNCHANGED <<agent, max, loose, active, listener, server_error,
                 max_attempts>>

\* finish() failed: the row keeps its status `printing`.
FinishFails ==
  /\ "db" \in Faults
  /\ pc = "finishing"
  /\ EndIteration(TRUE)
  /\ UNCHANGED <<tableVars, agent, max, loose, active, listener, max_attempts>>

\* encode() or deliver() panicked: spawn_blocking returns a JoinError, the row
\* keeps its status `printing` and `active` keeps the printer.
Panic ==
  /\ "panic" \in Faults
  /\ pc = "sending"
  /\ EndIteration(TRUE)
  /\ UNCHANGED <<tableVars, agent, max, loose, active, listener, max_attempts>>

-----------------------------------------------------------------------------
(* Listener, clock and process.                                             *)

Listen ==
  /\ listener = "starting"
  /\ agent = "running"
  /\ \/ listener' = "listening" /\ UNCHANGED server_error
     \/ "port" \in Faults /\ listener' = "failed" /\ server_error' = "listener"
  /\ UNCHANGED <<tableVars, agent, workerVars, max_attempts>>

\* Seconds pass.  Beyond Horizon only while some job waits for its next_at:
\* nothing else in the model depends on how late it is.
Tick ==
  /\ \/ clock < Horizon
     \/ \E id \in JobIds : jobs[id].status = "queued" /\ jobs[id].next_at > clock
  /\ clock' = clock + 1
  /\ UNCHANGED <<jobs, submissions, submitted, paper, agent, workerVars,
                 listener, server_error, max_attempts>>

\* now() is the wall clock, which the system may set back (bound: not from
\* beyond Horizon).
ClockStepsBack ==
  /\ "clock" \in Faults
  /\ clock \in 1..Horizon
  /\ clock' = clock - 1
  /\ UNCHANGED <<jobs, submissions, submitted, paper, agent, workerVars,
                 listener, server_error, max_attempts>>

\* stop(): raise the flag; the process ends once the worker is done.
Stop ==
  /\ agent = "running"
  /\ agent' = "stopping"
  /\ UNCHANGED <<tableVars, workerVars, listener, server_error, max_attempts>>

\* The process is gone and its memory with it.
ProcessEnds ==
  /\ agent' = "down"
  /\ pc' = "loop" /\ cur' = None /\ max' = 1 /\ wire' = "blank"
  /\ result' = "none" /\ loose' = {} /\ active' = None /\ failures' = 0
  /\ listener' = "starting"
  /\ server_error' = None
  /\ UNCHANGED <<tableVars, max_attempts>>

Exit ==
  /\ agent = "stopping"
  /\ pc = "done"
  /\ ProcessEnds

Crash ==
  /\ "crash" \in Faults
  /\ agent # "down"
  /\ ProcessEnds

Restart ==
  /\ agent = "down"
  /\ agent' = "running"
  /\ open
  /\ UNCHANGED <<workerVars, listener, server_error, max_attempts>>

-----------------------------------------------------------------------------
Command ==
  \/ \E id \in JobIds, p \in Printers, d \in Documents : Enqueue(id, p, d)
  \/ \E id \in JobIds : Cancel(id)
  \/ Clear
  \/ \E m \in 1..MaxAttemptsLimit : SaveConfig(m)

Worker ==
  \/ StartIteration
  \/ LeaveLoop
  \/ \E id \in JobIds : Claim(id)
  \/ ClaimNothing
  \/ \E error \in Errors : Deliver(error)
  \/ Finish

Fault == ClaimFails \/ FinishFails \/ Panic \/ ClockStepsBack \/ Crash

Next ==
  \/ Command
  \/ Worker
  \/ Fault
  \/ Emit
  \/ \E id \in JobIds : LateEmit(id)
  \/ Listen
  \/ Tick
  \/ Stop
  \/ Exit
  \/ Restart

Spec == Init /\ [][Next]_vars

\* The worker's thread is always scheduled again: every wait in it (the
\* transport's timeouts, the idle poll, the failure pause) is bounded.  Time
\* passes.  Nobody is obliged to send a command, or to restart the agent.
FairSpec ==
  /\ Spec
  /\ WF_vars(Worker)
  /\ WF_vars(Tick)

-----------------------------------------------------------------------------
(* Properties.                                                              *)

\* However often it is retried, re-sent by its client, interrupted by a crash
\* or a panic, or left to an abandoned USB thread: the bytes of one accepted
\* submission reach the printer at most once (finish() retries no uncertain
\* error, open() never re-queues, clear() never touches a printing row).
NoReplay == \A id \in JobIds : Exists(id) => paper[id] <= 1

\* What a row tells the operator is true of the paper: `completed` means it was
\* handed over, `cancelled` and a failure not marked uncertain mean that nothing
\* was, so that a new job for the same receipt is no duplicate.
HonestVerdict ==
  \A id \in JobIds :
    /\ jobs[id].status = "completed" => paper[id] = 1
    /\ jobs[id].status \in {"queued", "cancelled"} => paper[id] = 0
    /\ /\ jobs[id].status = "failed"
       /\ jobs[id].error # "uncertain"
       => paper[id] = 0

\* Per-printer FIFO: as long as an earlier submission to a printer is queued
\* (backing off included) or printing, no later one to it was ever attempted.
PrinterFifo ==
  \A a, b \in JobIds :
    /\ IsActive(a) /\ Exists(b)
    /\ jobs[a].printer = jobs[b].printer
    /\ submitted[a] < submitted[b]
    => jobs[b].attempts = 0

\* The agent keeps the promise of PrintService: how the table's rows read as
\* that specification's answers.
Answer(row) ==
  CASE row.status = "absent" -> "none"
    [] row.status = "queued" -> "waiting"
    [] row.status = "printing" -> "printing"
    [] row.status = "completed" -> "done"
    [] row.status = "cancelled" -> "withdrawn"
    [] OTHER -> IF row.error = "uncertain" THEN "unknown" ELSE "failed"

RequestOf(row) ==
  IF row.status = "absent" THEN <<>> ELSE <<row.printer, row.document>>

Service == INSTANCE PrintService WITH
  Requests <- Printers \X Documents,
  NoRequest <- <<>>,
  request <- [id \in JobIds |-> RequestOf(jobs[id])],
  phase <- [id \in JobIds |-> Answer(jobs[id])]

\* Every behaviour of the table, the worker, the transports and the process is
\* one of PrintService: ids stay bound to their request, a job is re-queued only
\* with blank paper, nothing leaves a final answer except by clear().
Implements == Service!Spec

\* An attempt is only made while the row's attempts are below the configured
\* maximum of some moment: none has more than the limit Config::validate sets,
\* even if the operator lowers max_attempts between claim and retry.
AttemptsBounded ==
  \A id \in JobIds : Exists(id) => jobs[id].attempts <= MaxAttemptsLimit

\* The queue never holds more live rows than enqueue()'s limit.
QueueBounded == Cardinality(ActiveJobs) <= MaxActive

\* "a print job panicked; only that job is lost, the queue and the WebSocket
\* survive" (worker_loop): the jobs behind it still leave the queue.
OnlyThatJobIsLost ==
  \A id \in JobIds :
    (jobs[id].status = "queued") ~> (jobs[id].status # "queued" \/ agent # "running")

\* A live job ends: it is attempted, retried while it may be, and gets its
\* verdict; only a stop of the agent may leave it waiting in the queue.
JobsSettle ==
  \A id \in JobIds :
    IsActive(id) ~> (~IsActive(id) \/ (jobs[id].status = "queued" /\ agent # "running"))

\* A stop is answered, and drains: the worker finishes the transfer in hand and
\* ends with no row left printing.
StopCompletes ==
  (agent = "stopping") ~>
    (agent = "down" \/ (pc = "done" /\ \A id \in JobIds : jobs[id].status # "printing"))
=============================================================================
