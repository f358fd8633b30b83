------------------------- MODULE PrintWorkerProofs -------------------------
(***************************************************************************)
(* Machine-checked proofs about PrintWorker, for every set of job ids,     *)
(* printers and documents and every value of the limits.                   *)
(***************************************************************************)
EXTENDS PrintWorker, FiniteSetTheorems, TLAPS

\* The provers tried in turn at a leaf that names none.
USE SMT, Zenon, SMTT(20)

\* The pause before a retry is a number of seconds, at most a minute.
LEMMA BackoffType ==
  ASSUME NEW n \in Nat
  PROVE  backoff(n) \in Int
<1>1. CASE n >= 6
  BY <1>1 DEF backoff
<1>2. CASE ~(n >= 6)
  <2>1. n \in {0, 1, 2, 3, 4, 5}
    BY <1>2
  <2> QED
    BY <2>1, <1>2 DEF backoff
<1> QED
  BY <1>1, <1>2

\* TypeOK, with what the worker's program counter says about its other
\* variables: it holds a job, printing, exactly from the claim to the verdict.
TypeInv ==
  /\ TypeOK
  /\ pc \in {"sending", "finishing"} =>
       cur \in JobIds /\ jobs[cur].status = "printing"
  /\ pc \notin {"sending", "finishing"} => wire = "blank"
  /\ agent = "down" => pc = "loop" /\ loose = {}

USE PrintQueueConstants, PrintWorkerConstants DEF None, WorkerStates

\* A fresh installation has an empty, well-typed table and an idle worker.
LEMMA TypeInvInit == Init => TypeInv
BY DEF Init, TableInit, WorkerInit, TypeInv, TypeOK, NoJob, Errors

\* Every action keeps the rows in the schema and the worker's registers in step.
LEMMA TypeInvStep == TypeInv /\ [Next]_vars => TypeInv'
<1> SUFFICES ASSUME TypeInv, [Next]_vars
             PROVE  TypeInv'
  OBVIOUS
<1>1. ASSUME NEW id \in JobIds, NEW p \in Printers, NEW d \in Documents,
             Enqueue(id, p, d)
      PROVE  TypeInv'
  BY <1>1 DEF Enqueue, enqueue, TypeInv, TypeOK, Row, NoJob, Statuses, Errors,
              workerVars, Exists
<1>2. ASSUME NEW id \in JobIds, Cancel(id)
      PROVE  TypeInv'
  BY <1>2 DEF Cancel, cancel, TypeInv, TypeOK, Row, NoJob, Statuses, Errors,
              workerVars
<1>3. CASE Clear
  BY <1>3 DEF Clear, clear, TypeInv, TypeOK, Row, NoJob
<1>4. ASSUME NEW m \in 1..MaxAttemptsLimit, SaveConfig(m)
      PROVE  TypeInv'
  BY <1>4 DEF SaveConfig, TypeInv, TypeOK, tableVars, workerVars
<1>5. CASE StartIteration
  BY <1>5 DEF StartIteration, TypeInv, TypeOK, tableVars
<1>6. CASE LeaveLoop
  BY <1>6 DEF LeaveLoop, TypeInv, TypeOK, tableVars
<1>7. ASSUME NEW id \in JobIds, Claim(id)
      PROVE  TypeInv'
  BY <1>7 DEF Claim, claim, NextClaim, Claimable, TypeInv, TypeOK, Row, NoJob,
              Statuses, Errors
<1>8. CASE ClaimNothing \/ ClaimFails \/ FinishFails \/ Panic
  BY <1>8 DEF ClaimNothing, ClaimFails, FinishFails, Panic, EndIteration,
              TypeInv, TypeOK, tableVars, Errors
<1>9. ASSUME NEW error \in Errors, Deliver(error)
      PROVE  TypeInv'
  BY <1>9 DEF Deliver, TypeInv, TypeOK, tableVars
<1>10. CASE Finish
  <2>1. cur \in JobIds /\ jobs[cur] \in Row /\ jobs[cur].attempts \in Nat
    BY <1>10 DEF Finish, TypeInv, TypeOK, Row, NoJob
  <2>2. backoff(jobs[cur].attempts) \in Int
    BY <2>1, BackoffType
  <2> DEFINE st == CASE result = "none" -> "completed"
                     [] MayRetry(cur, result, max) -> "queued"
                     [] OTHER -> "failed"
             nx == IF result = "none" THEN clock
                   ELSE clock + backoff(jobs[cur].attempts)
  <2>3. st \in Statuses /\ nx \in Int /\ result \in Errors
    BY <2>2 DEF Statuses, TypeInv, TypeOK
  <2>4. jobs' = [jobs EXCEPT ![cur].status = st, ![cur].error = result,
                            ![cur].next_at = nx]
    BY <1>10 DEF Finish, finish
  <2> HIDE DEF st, nx
  <2>5. jobs' \in [JobIds -> Row \cup {NoJob}]
    BY <2>1, <2>3, <2>4, Zenon DEF TypeInv, TypeOK, Row
  <2> QED
    BY <1>10, <2>5 DEF Finish, finish, TypeInv, TypeOK, Errors
<1>11. CASE Emit
  BY <1>11 DEF Emit, TypeInv, TypeOK
<1>12. ASSUME NEW id \in JobIds, LateEmit(id)
       PROVE  TypeInv'
  BY <1>12 DEF LateEmit, TypeInv, TypeOK
<1>13. CASE Listen
  BY <1>13 DEF Listen, TypeInv, TypeOK, tableVars, workerVars
<1>14. CASE Tick \/ ClockStepsBack
  BY <1>14 DEF Tick, ClockStepsBack, TypeInv, TypeOK, workerVars
<1>15. CASE Stop
  BY <1>15 DEF Stop, TypeInv, TypeOK, tableVars, workerVars
<1>16. CASE Exit \/ Crash
  BY <1>16 DEF Exit, Crash, ProcessEnds, TypeInv, TypeOK, tableVars, Errors
<1>17. CASE Restart
  <2>1. ASSUME NEW id \in JobIds
        PROVE  jobs'[id] \in Row \cup {NoJob}
    <3>1. CASE jobs[id].status = "printing"
      <4>1. jobs[id] \in Row
        BY <3>1 DEF TypeInv, TypeOK, NoJob
      <4>2. jobs'[id] = [jobs[id] EXCEPT !.status = "failed", !.error = "uncertain"]
        BY <1>17, <3>1, Zenon DEF Restart, open
      <4> QED
        BY <4>1, <4>2, Zenon DEF Row, Statuses, Errors
    <3>2. CASE jobs[id].status # "printing"
      BY <1>17, <3>2, Zenon DEF Restart, open, TypeInv, TypeOK
    <3> QED
      BY <3>1, <3>2
  <2>2. jobs' \in [JobIds -> Row \cup {NoJob}]
    BY <1>17, <2>1, Zenon DEF Restart, open
  <2> QED
    BY <1>17, <2>2, Zenon DEF Restart, open, TypeInv, TypeOK, workerVars
<1>18. CASE UNCHANGED vars
  BY <1>18 DEF vars, tableVars, workerVars, TypeInv, TypeOK
<1> QED
  BY <1>1, <1>2, <1>3, <1>4, <1>5, <1>6, <1>7, <1>8, <1>9, <1>10, <1>11, <1>12,
     <1>13, <1>14, <1>15, <1>16, <1>17, <1>18
     DEF Next, Command, Worker, Fault

\* Type correctness of the agent: the table holds rows of the schema, attempts
\* are counted, and the worker holds a printing job from claim to verdict.
THEOREM TypeCorrect == Spec => []TypeOK
<1>1. TypeInv => TypeOK
  BY DEF TypeInv
<1> QED
  BY <1>1, TypeInvInit, TypeInvStep, PTL DEF Spec

-----------------------------------------------------------------------------
(* Rows.                                                                    *)

\* What the two operations with the longest updates do to one row.
LEMMA OpenRow ==
  ASSUME TypeInv, open, NEW id \in JobIds
  PROVE  /\ jobs[id].status # "printing" => jobs'[id] = jobs[id]
         /\ jobs[id].status = "printing" =>
              /\ jobs'[id].status = "failed"
              /\ jobs'[id].error = "uncertain"
              /\ jobs'[id].printer = jobs[id].printer
              /\ jobs'[id].document = jobs[id].document
              /\ jobs'[id].attempts = jobs[id].attempts
              /\ jobs'[id].created_at = jobs[id].created_at
              /\ jobs'[id].rowid = jobs[id].rowid
<1>1. CASE jobs[id].status # "printing"
  BY <1>1, Zenon DEF open
<1>2. CASE jobs[id].status = "printing"
  <2>1. jobs[id] \in Row
    BY <1>2 DEF TypeInv, TypeOK, NoJob
  <2>2. jobs'[id] = [jobs[id] EXCEPT !.status = "failed", !.error = "uncertain"]
    BY <1>2, Zenon DEF open
  <2> QED
    BY <1>2, <2>1, <2>2 DEF Row
<1> QED
  BY <1>1, <1>2

\* What claim does to the rows: it takes the first waiting one of its printer.
LEMMA ClaimRow ==
  ASSUME TypeInv, NEW id \in JobIds, Claim(id)
  PROVE  /\ jobs[id].status = "queued" /\ jobs'[id].status = "printing"
         /\ \A prior \in JobIds : IsActive(prior) /\ jobs[prior].printer = jobs[id].printer => ~Before(prior, id)
         /\ jobs'[id].created_at = jobs[id].created_at /\ jobs'[id].rowid = jobs[id].rowid
         /\ jobs'[id].printer = jobs[id].printer
         /\ \A x \in JobIds \ {id} : jobs'[x] = jobs[x]
         /\ UNCHANGED <<clock, submissions, submitted, paper, loose, wire>>
         /\ pc' = "sending" /\ cur' = id
<1>1. /\ jobs[id].status = "queued"
      /\ \A prior \in JobIds : IsActive(prior) /\ jobs[prior].printer = jobs[id].printer => ~Before(prior, id)
      /\ UNCHANGED <<clock, submissions, submitted, paper, loose, wire>>
      /\ pc' = "sending" /\ cur' = id
  BY DEF Claim, claim, NextClaim, Claimable
<1>2. DOMAIN jobs = JobIds /\ jobs[id] \in Row \cup {NoJob}
  BY DEF TypeInv, TypeOK
<1>3. /\ jobs'[id].status = "printing" /\ jobs'[id].created_at = jobs[id].created_at
      /\ jobs'[id].rowid = jobs[id].rowid /\ jobs'[id].printer = jobs[id].printer
      /\ \A x \in JobIds \ {id} : jobs'[x] = jobs[x]
  BY <1>2 DEF Claim, claim, Row, NoJob
<1> QED
  BY <1>1, <1>3

\* What finish does to one row: the job's own row settles or waits for a retry,
\* the others stay.
LEMMA FinishRow ==
  ASSUME TypeInv, Finish
  PROVE  /\ cur \in JobIds /\ jobs[cur].status = "printing"
         /\ \A id \in JobIds \ {cur} : jobs'[id] = jobs[id]
         /\ jobs'[cur].status \in {"completed", "queued", "failed"}
         /\ jobs'[cur].status = "completed" <=> result = "none"
         /\ jobs'[cur].status = "queued" =>
              result = "retryable" /\ jobs[cur].attempts < max
         /\ jobs'[cur].error = result
         /\ jobs'[cur].printer = jobs[cur].printer
         /\ jobs'[cur].document = jobs[cur].document
         /\ jobs'[cur].attempts = jobs[cur].attempts
         /\ jobs'[cur].created_at = jobs[cur].created_at
         /\ jobs'[cur].rowid = jobs[cur].rowid
BY DEF Finish, finish, MayRetry, TypeInv, TypeOK, Row, NoJob, Errors

-----------------------------------------------------------------------------
(* The paper.                                                               *)

\* A row in one of these states promises that nothing was printed.
Blank(id) ==
  \/ jobs[id].status \in {"absent", "queued", "cancelled"}
  \/ jobs[id].status = "failed" /\ jobs[id].error # "uncertain"

\* NoReplay and HonestVerdict made inductive: what the worker knows about the
\* paper of the job in its hands, and where an abandoned thread may still write.
PaperInv ==
  /\ \A id \in JobIds :
       /\ paper[id] \in {0, 1}
       /\ Blank(id) => paper[id] = 0
       /\ jobs[id].status = "completed" => paper[id] = 1
  /\ \A id \in loose :
       /\ paper[id] = 0
       /\ ~Blank(id)
       /\ jobs[id].status # "completed"
  /\ pc = "sending" =>
       /\ paper[cur] = (IF wire = "written" THEN 1 ELSE 0)
       /\ cur \notin loose
  /\ pc = "finishing" =>
       /\ result = "none" => paper[cur] = 1
       /\ result \in {"retryable", "permanent"} => paper[cur] = 0
       /\ cur \in loose => result = "uncertain"

\* At first nothing is on paper and no row claims otherwise.
LEMMA PaperInvInit == Init => PaperInv
BY DEF Init, TableInit, WorkerInit, PaperInv, Blank, NoJob

\* Only the row being printed can have bytes out that its status does not show;
\* claim, delivery, verdict, panic and restart all keep it that way.
LEMMA PaperInvStep == TypeInv /\ PaperInv /\ [Next]_vars => PaperInv'
<1> SUFFICES ASSUME TypeInv, PaperInv, [Next]_vars
             PROVE  PaperInv'
  OBVIOUS
<1>1. ASSUME NEW id \in JobIds, NEW p \in Printers, NEW d \in Documents,
             Enqueue(id, p, d)
      PROVE  PaperInv'
  BY <1>1 DEF Enqueue, enqueue, TypeInv, TypeOK, PaperInv, Blank, Exists, workerVars
<1>2. ASSUME NEW id \in JobIds, Cancel(id)
      PROVE  PaperInv'
  BY <1>2 DEF Cancel, cancel, TypeInv, TypeOK, PaperInv, Blank, Row, NoJob, workerVars
<1>3. CASE Clear
  BY <1>3 DEF Clear, clear, TypeInv, TypeOK, PaperInv, Blank, NoJob
<1>4. ASSUME NEW m \in 1..MaxAttemptsLimit, SaveConfig(m)
      PROVE  PaperInv'
  BY <1>4 DEF SaveConfig, PaperInv, Blank, tableVars, workerVars
<1>5. CASE StartIteration \/ LeaveLoop
  BY <1>5 DEF StartIteration, LeaveLoop, PaperInv, Blank, tableVars
<1>6. ASSUME NEW id \in JobIds, Claim(id)
      PROVE  PaperInv'
  <2>1. Blank(id) /\ pc = "claiming"
    BY <1>6, ClaimRow DEF Blank, Claim
  <2>2. paper[id] = 0 /\ id \notin loose /\ wire = "blank"
    BY <2>1 DEF PaperInv, TypeInv
  <2> QED
    BY <1>6, <2>2, ClaimRow DEF PaperInv, Blank, TypeInv, TypeOK
<1>7. CASE ClaimNothing \/ ClaimFails \/ FinishFails \/ Panic
  BY <1>7 DEF ClaimNothing, ClaimFails, FinishFails, Panic, EndIteration,
              PaperInv, Blank, tableVars
<1>8. ASSUME NEW error \in Errors, Deliver(error)
      PROVE  PaperInv'
  BY <1>8 DEF Deliver, Contract, TypeInv, TypeOK, PaperInv, Blank, tableVars, Errors
<1>9. CASE Finish
  <2>1. /\ paper' = paper /\ loose' = loose /\ pc = "finishing" /\ pc' = "loop"
        /\ result \in {"none", "retryable", "permanent", "uncertain"}
    BY <1>9 DEF Finish, finish, TypeInv, TypeOK, Errors
  <2>2. loose \subseteq JobIds
    BY DEF TypeInv, TypeOK
  <2> QED
    BY <1>9, <2>1, <2>2, FinishRow DEF PaperInv, Blank
<1>10. CASE Emit
  BY <1>10 DEF Emit, TypeInv, TypeOK, PaperInv, Blank
<1>11. ASSUME NEW id \in JobIds, LateEmit(id)
       PROVE  PaperInv'
  BY <1>11 DEF LateEmit, TypeInv, TypeOK, PaperInv, Blank
<1>12. CASE Listen \/ Tick \/ ClockStepsBack \/ Stop
  BY <1>12 DEF Listen, Tick, ClockStepsBack, Stop, PaperInv, Blank, tableVars,
               workerVars
<1>13. CASE Exit \/ Crash
  BY <1>13 DEF Exit, Crash, ProcessEnds, PaperInv, Blank, tableVars
<1>14. CASE Restart
  <2>1. ASSUME NEW id \in JobIds, jobs[id].status = "printing"
        PROVE  jobs'[id].status = "failed" /\ jobs'[id].error = "uncertain"
    <3>1. jobs[id] \in Row
      BY <2>1 DEF TypeInv, TypeOK, NoJob
    <3>2. jobs'[id] = [jobs[id] EXCEPT !.status = "failed", !.error = "uncertain"]
      BY <1>14, <2>1, Zenon DEF Restart, open
    <3> QED
      BY <3>1, <3>2 DEF Row
  <2>2. ASSUME NEW id \in JobIds, jobs[id].status # "printing"
        PROVE  jobs'[id] = jobs[id]
    BY <1>14, <2>2, Zenon DEF Restart, open
  <2>3. UNCHANGED <<paper, loose, pc>> /\ pc = "loop" /\ loose = {}
    BY <1>14, Zenon DEF Restart, open, TypeInv, workerVars
  <2> QED
    BY <2>1, <2>2, <2>3 DEF PaperInv, Blank
<1>15. CASE UNCHANGED vars
  BY <1>15 DEF vars, tableVars, workerVars, PaperInv, Blank
<1> QED
  BY <1>1, <1>2, <1>3, <1>4, <1>5, <1>6, <1>7, <1>8, <1>9, <1>10, <1>11, <1>12,
     <1>13, <1>14, <1>15
     DEF Next, Command, Worker, Fault

\* No retry, resubmission, crash, panic or abandoned USB thread makes the agent
\* print one submission twice.
THEOREM NeverReplays == Spec => []NoReplay
<1>1. PaperInv => NoReplay
  BY DEF PaperInv, NoReplay
<1> QED
  BY <1>1, TypeInvInit, TypeInvStep, PaperInvInit, PaperInvStep, PTL DEF Spec

\* What a row reports about its job is true of the paper.
THEOREM VerdictsAreHonest == Spec => []HonestVerdict
<1>1. PaperInv => HonestVerdict
  BY DEF PaperInv, HonestVerdict, Blank
<1> QED
  BY <1>1, TypeInvInit, TypeInvStep, PaperInvInit, PaperInvStep, PTL DEF Spec

-----------------------------------------------------------------------------
(* Attempts and order.                                                      *)

\* AttemptsBounded made inductive: a row waiting for its next attempt has one
\* left.
AttemptsInv ==
  \A id \in JobIds : Exists(id) =>
    /\ jobs[id].attempts <= MaxAttemptsLimit
    /\ jobs[id].status = "queued" => jobs[id].attempts < MaxAttemptsLimit

\* A queued row always has an attempt left, also after max_attempts is lowered.
LEMMA AttemptsInvStep == TypeInv /\ AttemptsInv /\ [Next]_vars => AttemptsInv'
<1> SUFFICES ASSUME TypeInv, AttemptsInv, [Next]_vars
             PROVE  AttemptsInv'
  OBVIOUS
<1>1. ASSUME NEW id \in JobIds, NEW p \in Printers, NEW d \in Documents,
             Enqueue(id, p, d)
      PROVE  AttemptsInv'
  BY <1>1 DEF Enqueue, enqueue, TypeInv, TypeOK, AttemptsInv, Exists
<1>2. ASSUME NEW id \in JobIds, Cancel(id)
      PROVE  AttemptsInv'
  BY <1>2 DEF Cancel, cancel, TypeInv, TypeOK, AttemptsInv, Exists, Row, NoJob
<1>3. CASE Clear
  BY <1>3 DEF Clear, clear, AttemptsInv, Exists, NoJob
<1>4. ASSUME NEW id \in JobIds, Claim(id)
      PROVE  AttemptsInv'
  BY <1>4 DEF Claim, claim, NextClaim, Claimable, TypeInv, TypeOK, AttemptsInv,
              Exists, Row, NoJob
<1>5. CASE Finish
  <2>1. max <= MaxAttemptsLimit /\ max \in Int /\ jobs[cur].attempts \in Int
    BY <1>5, FinishRow DEF TypeInv, TypeOK, Row, NoJob
  <2> QED
    BY <1>5, <2>1, FinishRow DEF AttemptsInv, Exists
<1>6. CASE Restart
  BY <1>6, OpenRow DEF Restart, AttemptsInv, Exists
<1>7. CASE UNCHANGED jobs
  BY <1>7 DEF AttemptsInv, Exists
<1> QED
  BY Zenon, <1>1, <1>2, <1>3, <1>4, <1>5, <1>6, <1>7
     DEF Next, Command, Worker, Fault, SaveConfig, StartIteration, LeaveLoop,
         ClaimNothing, ClaimFails, FinishFails, Panic, Deliver, Emit, LateEmit,
         Listen, Tick, ClockStepsBack, Stop, Exit, Crash, ProcessEnds,
         vars, tableVars

\* No row is attempted more often than Config::validate allows, whatever the
\* operator does to max_attempts meanwhile.
THEOREM AttemptsAreBounded == Spec => []AttemptsBounded
<1>1. Init => AttemptsInv
  BY DEF Init, TableInit, AttemptsInv, Exists, NoJob
<1>2. AttemptsInv => AttemptsBounded
  BY DEF AttemptsInv, AttemptsBounded
<1> QED
  BY <1>1, <1>2, TypeInvInit, TypeInvStep, AttemptsInvStep, PTL DEF Spec

\* PrinterFifo made inductive: (created_at, rowid), by which claim() sorts, is
\* the order of submission, because no row is from the future.
FifoInv ==
  /\ \A id \in JobIds : Exists(id) =>
       /\ jobs[id].created_at <= clock
       /\ submitted[id] <= submissions
  /\ \A a, b \in JobIds :
       Exists(a) /\ Exists(b) /\ submitted[a] < submitted[b] => Before(a, b)
  /\ PrinterFifo

\* A step that only takes jobs out of the queue.
LEMMA FifoKept ==
  ASSUME FifoInv, UNCHANGED <<clock, submissions, submitted>>,
         \A id \in JobIds : /\ jobs'[id].printer = jobs[id].printer
                            /\ jobs'[id].attempts = jobs[id].attempts
                            /\ jobs'[id].created_at = jobs[id].created_at
                            /\ jobs'[id].rowid = jobs[id].rowid
                            /\ Exists(id)' => Exists(id)
                            /\ IsActive(id)' => IsActive(id)
  PROVE  FifoInv'
<1>1. \A a, b \in JobIds : Before(a, b)' <=> Before(a, b)
  BY DEF Before
<1>2. PrinterFifo'
  <2> SUFFICES ASSUME NEW a \in JobIds, NEW b \in JobIds, IsActive(a)', Exists(b)',
                      jobs'[a].printer = jobs'[b].printer, submitted'[a] < submitted'[b]
               PROVE  jobs'[b].attempts = 0
    BY DEF PrinterFifo
  <2>1. IsActive(a) /\ Exists(b) /\ jobs[a].printer = jobs[b].printer /\ submitted[a] < submitted[b]
    OBVIOUS
  <2>2. jobs[b].attempts = 0
    BY <2>1 DEF FifoInv, PrinterFifo
  <2> QED
    BY <2>2
<1> QED
  BY <1>1, <1>2 DEF FifoInv

\* Without the clock set back, submission order and claim order agree in every
\* step.
LEMMA FifoInvStep ==
  ASSUME "clock" \notin Faults
  PROVE  TypeInv /\ FifoInv /\ [Next]_vars => FifoInv'
<1> SUFFICES ASSUME TypeInv, FifoInv, [Next]_vars
             PROVE  FifoInv'
  OBVIOUS
<1>1. ASSUME NEW id \in JobIds, NEW p \in Printers, NEW d \in Documents,
             Enqueue(id, p, d)
      PROVE  FifoInv'
  <2>1. PICK r \in 1..MaxSubmissions :
          /\ FreshRowid(r)
          /\ jobs' = [jobs EXCEPT ![id] =
                        [printer |-> p, document |-> d, status |-> "queued",
                         attempts |-> 0, created_at |-> clock, next_at |-> clock,
                         rowid |-> r, error |-> "none"]]
    BY <1>1, Zenon DEF Enqueue, enqueue
  <2>2. /\ ~Exists(id)
        /\ clock' = clock
        /\ submissions' = submissions + 1
        /\ submitted' = [submitted EXCEPT ![id] = submissions + 1]
    BY <1>1 DEF Enqueue, enqueue
  <2>3. /\ jobs'[id].created_at = clock
        /\ jobs'[id].rowid = r
        /\ jobs'[id].attempts = 0
        /\ submitted'[id] = submissions + 1
        /\ \A x \in JobIds \ {id} : jobs'[x] = jobs[x] /\ submitted'[x] = submitted[x]
    BY <2>1, <2>2 DEF TypeInv, TypeOK
  <2>4. /\ clock \in Int
        /\ submissions \in Int
        /\ \A x \in JobIds : submitted[x] \in Int
        /\ \A x \in JobIds : Exists(x) =>
             jobs[x].created_at \in Int /\ jobs[x].rowid \in Int
    BY DEF TypeInv, TypeOK, Row, Exists, NoJob
  <2>5. \A x \in JobIds : Exists(x) => x # id /\ jobs[x].rowid < r
    BY <2>1, <2>2 DEF FreshRowid
  <2>6. \A x \in JobIds : Exists(x)' => x = id \/ Exists(x)
    BY <2>3 DEF Exists
  <2>7. ASSUME NEW x \in JobIds, Exists(x)'
        PROVE  jobs'[x].created_at <= clock' /\ submitted'[x] <= submissions'
    BY <2>2, <2>3, <2>4, <2>6, <2>7 DEF FifoInv
  <2>8. ASSUME NEW a \in JobIds, NEW b \in JobIds, Exists(a)', Exists(b)',
               submitted'[a] < submitted'[b]
        PROVE  a # id /\ Exists(a) /\ Before(a, b)'
    <3>1. a # id /\ Exists(a)
      <4>1. CASE b = id
        BY <2>3, <2>4, <2>6, <2>8, <4>1
      <4>2. CASE b # id
        <5>1. Exists(b) /\ submitted'[b] = submitted[b] /\ submitted[b] <= submissions
          BY <2>3, <2>6, <2>8, <4>2 DEF FifoInv
        <5> QED
          BY <2>3, <2>4, <2>6, <2>8, <5>1
      <4> QED
        BY <4>1, <4>2
    <3>2. CASE b = id
      <4>1. jobs[a].created_at <= clock /\ jobs[a].rowid < r
        BY <2>5, <3>1 DEF FifoInv
      <4> QED
        BY <2>3, <2>4, <3>1, <3>2, <4>1 DEF Before
    <3>3. CASE b # id
      <4>1. Exists(b) /\ submitted[a] < submitted[b]
        BY <2>3, <2>6, <2>8, <3>1, <3>3
      <4>2. Before(a, b)
        BY <3>1, <4>1 DEF FifoInv
      <4> QED
        BY <2>3, <3>1, <3>3, <4>2 DEF Before
    <3> QED
      BY <3>1, <3>2, <3>3
  <2>9. PrinterFifo'
    <3> SUFFICES ASSUME NEW a \in JobIds, NEW b \in JobIds, IsActive(a)', Exists(b)',
                        jobs'[a].printer = jobs'[b].printer, submitted'[a] < submitted'[b]
                 PROVE  jobs'[b].attempts = 0
      BY DEF PrinterFifo
    <3>1. a # id /\ Exists(a)
      BY <2>8 DEF IsActive, Exists
    <3>2. CASE b = id
      BY <2>3, <3>2
    <3>3. CASE b # id
      <4>1. jobs'[a] = jobs[a] /\ jobs'[b] = jobs[b] /\ submitted[a] < submitted[b] /\ Exists(b)
        BY <2>3, <2>6, <3>1, <3>3
      <4> QED
        BY <4>1 DEF FifoInv, PrinterFifo, IsActive
    <3> QED
      BY <3>2, <3>3
  <2> QED
    BY <2>7, <2>8, <2>9 DEF FifoInv
<1>2. ASSUME NEW id \in JobIds, Cancel(id)
      PROVE  FifoInv'
  BY <1>2 DEF Cancel, cancel, TypeInv, TypeOK, FifoInv, PrinterFifo, Before,
              IsActive, Exists, Row, NoJob
<1>3. CASE Clear
  BY SMTT(20), SMTT(30), <1>3 DEF Clear, clear, FifoInv, PrinterFifo, Before, IsActive, Exists, NoJob
<1>4. ASSUME NEW id \in JobIds, Claim(id)
      PROVE  FifoInv'
  <2>1. /\ jobs[id].status = "queued"
        /\ \A prior \in JobIds : IsActive(prior) /\ jobs[prior].printer = jobs[id].printer => ~Before(prior, id)
        /\ UNCHANGED <<clock, submissions, submitted>>
    BY <1>4, ClaimRow
  <2>3. \A x \in JobIds : /\ jobs'[x].created_at = jobs[x].created_at /\ jobs'[x].rowid = jobs[x].rowid
                          /\ jobs'[x].printer = jobs[x].printer
                          /\ jobs'[x].status = IF x = id THEN "printing" ELSE jobs[x].status
                          /\ x # id => jobs'[x].attempts = jobs[x].attempts
    BY <1>4, ClaimRow
  <2>4. \A a, b \in JobIds : Before(a, b)' <=> Before(a, b)
    BY <2>3 DEF Before
  <2>5. \A a \in JobIds : (Exists(a)' <=> Exists(a)) /\ (IsActive(a)' <=> IsActive(a))
    BY <2>1, <2>3 DEF Exists, IsActive
  <2>6. ASSUME NEW a \in JobIds, NEW b \in JobIds, IsActive(a), Exists(b),
               jobs[a].printer = jobs[b].printer, submitted[a] < submitted[b]
        PROVE  jobs'[b].attempts = 0
    <3>1. Before(a, b) /\ jobs[b].attempts = 0
      BY <2>6 DEF FifoInv, PrinterFifo, Exists, IsActive
    <3>2. b # id
      BY <2>1, <2>6, <3>1
    <3> QED
      BY <2>3, <3>1, <3>2
  <2>7. PrinterFifo'
    BY <2>1, <2>3, <2>5, <2>6 DEF PrinterFifo
  <2> QED
    BY SMTT(20), SMTT(30), <2>1, <2>3, <2>4, <2>5, <2>7 DEF FifoInv
<1>5. CASE Finish
  <2>1. UNCHANGED <<clock, submissions, submitted>>
    BY <1>5 DEF Finish, finish
  <2> QED
    BY <1>5, <2>1, FinishRow, FifoKept DEF IsActive, Exists
<1>6. CASE Restart
  <2>1. UNCHANGED <<clock, submissions, submitted>>
    BY <1>6, Zenon DEF Restart, open
  <2> QED
    BY <1>6, <2>1, OpenRow, FifoKept DEF Restart, IsActive, Exists
<1>7. CASE Tick
  <2>1. jobs' = jobs /\ clock' = clock + 1 /\ UNCHANGED <<submissions, submitted>>
    BY <1>7 DEF Tick
  <2>2. clock \in Int /\ \A id \in JobIds : Exists(id) => jobs[id].created_at \in Int
    BY DEF TypeInv, TypeOK, Row, Exists, NoJob
  <2>3. \A id \in JobIds : Exists(id) => jobs[id].created_at <= clock'
    BY <2>1, <2>2 DEF FifoInv
  <2> QED
    BY <2>1, <2>3 DEF FifoInv, PrinterFifo, Before, IsActive, Exists
<1>8. CASE UNCHANGED <<jobs, clock, submissions, submitted>>
  BY <1>8 DEF FifoInv, PrinterFifo, Before, IsActive, Exists
<1> QED
  BY ZenonT(30), <1>1, <1>2, <1>3, <1>4, <1>5, <1>6, <1>7, <1>8
     DEF Next, Command, Worker, Fault, SaveConfig, StartIteration, LeaveLoop,
         ClaimNothing, ClaimFails, FinishFails, Panic, Deliver, Emit, LateEmit,
         Listen, ClockStepsBack, Stop, Exit, Crash, ProcessEnds, vars, tableVars

\* As long as the wall clock is never set back, every printer is served in the
\* order of submission, retries included.
THEOREM PrintersAreFifo ==
  ASSUME "clock" \notin Faults
  PROVE  Spec => []PrinterFifo
<1>1. Init => FifoInv
  BY DEF Init, TableInit, FifoInv, PrinterFifo, IsActive, Exists, NoJob
<1>2. FifoInv => PrinterFifo
  BY DEF FifoInv
<1>3. TypeInv /\ FifoInv /\ [Next]_vars => FifoInv'
  BY FifoInvStep
<1> QED
  BY <1>1, <1>2, <1>3, TypeInvInit, TypeInvStep, PTL DEF Spec

-----------------------------------------------------------------------------
(* The limit on the queue.                                                  *)

\* QueueBounded made inductive: Cardinality means something of a finite set
\* only, and JobIds need not be finite.
LimitInv == IsFiniteSet(ActiveJobs) /\ QueueBounded

\* No step but enqueue() makes a row live: a retry and a restart keep or close it.
LEMMA OnlyEnqueueAdds ==
  ASSUME TypeInv, [Next]_vars,
         ~\E id \in JobIds, p \in Printers, d \in Documents : Enqueue(id, p, d)
  PROVE  ActiveJobs' \subseteq ActiveJobs
<1>1. ASSUME NEW id \in JobIds, Cancel(id)
      PROVE  ActiveJobs' \subseteq ActiveJobs
  BY <1>1 DEF Cancel, cancel, TypeInv, TypeOK, ActiveJobs, IsActive, Row, NoJob
<1>2. CASE Clear
  BY <1>2, Zenon DEF Clear, clear, ActiveJobs, IsActive, NoJob
<1>3. ASSUME NEW id \in JobIds, Claim(id)
      PROVE  ActiveJobs' \subseteq ActiveJobs
  BY <1>3 DEF Claim, claim, NextClaim, Claimable, TypeInv, TypeOK, ActiveJobs,
              IsActive, Row, NoJob
<1>4. CASE Finish
  BY <1>4, FinishRow DEF TypeInv, Finish, ActiveJobs, IsActive
<1>5. CASE Restart
  BY <1>5, OpenRow DEF Restart, ActiveJobs, IsActive
<1>6. CASE UNCHANGED jobs
  BY <1>6 DEF ActiveJobs, IsActive
<1> QED
  BY ZenonT(30), <1>1, <1>2, <1>3, <1>4, <1>5, <1>6
     DEF Next, Command, Worker, Fault, SaveConfig, StartIteration, LeaveLoop,
         ClaimNothing, ClaimFails, FinishFails, Panic, Deliver, Emit, LateEmit,
         Listen, Tick, ClockStepsBack, Stop, Exit, Crash, ProcessEnds,
         vars, tableVars

\* The queue never holds more live rows than enqueue()'s limit: nothing that
\* re-queues a row or reopens the table adds to it.
THEOREM QueueIsBounded == Spec => []QueueBounded
<1>1. Init => LimitInv
  <2> SUFFICES ASSUME Init PROVE LimitInv
    OBVIOUS
  <2>1. ActiveJobs = {}
    BY DEF Init, TableInit, ActiveJobs, IsActive, NoJob
  <2> QED
    BY <2>1, FS_EmptySet DEF LimitInv, QueueBounded
<1>2. TypeInv /\ LimitInv /\ [Next]_vars => LimitInv'
  <2> SUFFICES ASSUME TypeInv, LimitInv, [Next]_vars PROVE LimitInv'
    OBVIOUS
  <2>1. Cardinality(ActiveJobs) \in Nat
    BY FS_CardinalityType DEF LimitInv
  <2>2. ASSUME NEW id \in JobIds, NEW p \in Printers, NEW d \in Documents,
               Enqueue(id, p, d)
        PROVE  LimitInv'
    <3>1. ActiveJobs' \subseteq ActiveJobs \cup {id} /\ Cardinality(ActiveJobs) < MaxActive
      BY <2>2 DEF Enqueue, enqueue, TypeInv, TypeOK, ActiveJobs, IsActive
    <3>2. /\ IsFiniteSet(ActiveJobs \cup {id})
          /\ Cardinality(ActiveJobs \cup {id}) <= Cardinality(ActiveJobs) + 1
      <4> DEFINE A == ActiveJobs
      <4>1. IsFiniteSet(A) /\ Cardinality(A) \in Nat
        BY <2>1 DEF LimitInv
      <4> HIDE DEF A
      <4>2. /\ IsFiniteSet(A \cup {id})
            /\ Cardinality(A \cup {id}) = IF id \in A THEN Cardinality(A) ELSE Cardinality(A) + 1
        BY <4>1, FS_AddElement
      <4>3. Cardinality(A \cup {id}) <= Cardinality(A) + 1
        BY <4>1, <4>2
      <4> QED
        BY <4>2, <4>3 DEF A
    <3>3. IsFiniteSet(ActiveJobs') /\ Cardinality(ActiveJobs') <= Cardinality(ActiveJobs \cup {id})
      BY <3>1, <3>2, FS_Subset
    <3>4. Cardinality(ActiveJobs') \in Nat /\ Cardinality(ActiveJobs \cup {id}) \in Nat
      BY <3>2, <3>3, FS_CardinalityType
    <3> QED
      BY <2>1, <3>1, <3>2, <3>3, <3>4 DEF LimitInv, QueueBounded
  <2>3. ASSUME ~\E id \in JobIds, p \in Printers, d \in Documents : Enqueue(id, p, d)
        PROVE  LimitInv'
    <3>1. ActiveJobs' \subseteq ActiveJobs
      BY <2>3, OnlyEnqueueAdds
    <3>2. IsFiniteSet(ActiveJobs') /\ Cardinality(ActiveJobs') <= Cardinality(ActiveJobs)
      BY <3>1, FS_Subset DEF LimitInv
    <3>3. Cardinality(ActiveJobs') \in Nat
      BY <3>2, FS_CardinalityType
    <3> QED
      BY <2>1, <3>2, <3>3 DEF LimitInv, QueueBounded
  <2> QED
    BY <2>2, <2>3
<1>3. LimitInv => QueueBounded
  BY DEF LimitInv
<1> QED
  BY <1>1, <1>2, <1>3, TypeInvInit, TypeInvStep, PTL DEF Spec

----------------------------------------------------------------------------
(* The print agent implements PrintService: a step of the table, the       *)
(* worker, a transport or the process is a step of that specification or   *)
(* leaves its variables alone.                                             *)

\* The agent's answers and requests, as PrintService sees them.
phases == [id \in JobIds |-> Answer(jobs[id])]
requests == [id \in JobIds |-> RequestOf(jobs[id])]

\* A step that changes one row changes one answer and one request.
LEMMA OneRow ==
  ASSUME NEW id \in JobIds, \A x \in JobIds \ {id} : jobs'[x] = jobs[x]
  PROVE  /\ phases' = [phases EXCEPT ![id] = Answer(jobs'[id])]
         /\ requests' = [requests EXCEPT ![id] = RequestOf(jobs'[id])]
BY Zenon DEF phases, requests

\* A row keeps its request as long as it keeps printer and document.
LEMMA SameRequest ==
  ASSUME NEW id \in JobIds,
         \A x \in JobIds \ {id} : jobs'[x] = jobs[x],
         jobs[id].status # "absent", jobs'[id].status # "absent",
         jobs'[id].printer = jobs[id].printer,
         jobs'[id].document = jobs[id].document
  PROVE  requests' = requests
<1>1. RequestOf(jobs'[id]) = RequestOf(jobs[id])
  BY DEF RequestOf
<1>2. \A x \in JobIds : RequestOf(jobs'[x]) = RequestOf(jobs[x])
  BY <1>1
<1> QED
  BY <1>2 DEF requests

\* The empty table maps to a service that has no requests.
LEMMA ServiceInit == Init => Service!Init
BY DEF Init, TableInit, Service!Init, Answer, RequestOf, NoJob

\* Every step of the agent is a step of the service or leaves it unchanged.
LEMMA ServiceStep ==
  TypeInv /\ PaperInv /\ [Next]_vars => [Service!Next]_(Service!vars)
<1> SUFFICES ASSUME TypeInv, PaperInv, [Next]_vars
             PROVE  [Service!Next]_(Service!vars)
  OBVIOUS
<1> USE DEF phases, requests
<1>1. ASSUME NEW id \in JobIds, NEW p \in Printers, NEW d \in Documents,
             Enqueue(id, p, d)
      PROVE  Service!Submit(id, <<p, d>>)
  <2>1. /\ jobs[id].status = "absent"
        /\ \A x \in JobIds \ {id} : jobs'[x] = jobs[x]
        /\ jobs'[id].status = "queued"
        /\ jobs'[id].printer = p
        /\ jobs'[id].document = d
        /\ paper' = paper
    BY <1>1 DEF Enqueue, enqueue, Exists, TypeInv, TypeOK
  <2> QED
    BY Zenon, <2>1, OneRow DEF Service!Submit, Answer, RequestOf
<1>2. ASSUME NEW id \in JobIds, Cancel(id)
      PROVE  Service!Withdraw(id)
  <2>1. /\ jobs[id].status = "queued"
        /\ \A x \in JobIds \ {id} : jobs'[x] = jobs[x]
        /\ jobs'[id].status = "cancelled"
        /\ jobs'[id].printer = jobs[id].printer
        /\ jobs'[id].document = jobs[id].document
        /\ paper' = paper
    BY <1>2 DEF Cancel, cancel, TypeInv, TypeOK, Row, NoJob
  <2> QED
    BY Zenon, <2>1, OneRow, SameRequest DEF Service!Withdraw, Service!Move, Answer
<1>3. CASE Clear
  <2>1. Service!Forget
    BY <1>3 DEF Clear, clear, NoJob, Service!Forget, Answer, RequestOf
  <2> QED
    BY <2>1 DEF Service!Next
<1>4. ASSUME NEW id \in JobIds, Claim(id)
      PROVE  Service!Begin(id)
  <2>1. /\ jobs[id].status = "queued"
        /\ \A x \in JobIds \ {id} : jobs'[x] = jobs[x]
        /\ jobs'[id].status = "printing"
        /\ jobs'[id].printer = jobs[id].printer
        /\ jobs'[id].document = jobs[id].document
        /\ paper' = paper
    BY <1>4 DEF Claim, claim, NextClaim, Claimable, TypeInv, TypeOK, Row, NoJob
  <2> QED
    BY Zenon, <2>1, OneRow, SameRequest DEF Service!Begin, Service!Move, Answer
<1>5. CASE Finish
  <2>1. pc = "finishing" /\ paper' = paper /\ result \in Errors
    BY <1>5 DEF Finish, finish, TypeInv, TypeOK
  <2>2. requests' = requests
    BY <1>5, FinishRow, SameRequest
  <2>3. phases' = [phases EXCEPT ![cur] = Answer(jobs'[cur])]
    BY Zenon, <1>5, FinishRow, OneRow
  <2>4. phases[cur] = "printing"
    BY <1>5, FinishRow DEF Answer
  <2>5. CASE result = "none"
    <3>1. Service!Succeed(cur)
      BY ZenonT(30), <1>5, <2>1, <2>2, <2>3, <2>4, <2>5, FinishRow
         DEF Service!Succeed, Service!Move, Answer, PaperInv
    <3> QED
      BY <1>5, <3>1, FinishRow DEF Service!Next
  <2>6. CASE result \in {"retryable", "permanent"}
    <3>1. Service!PutBack(cur) \/ Service!GiveUp(cur)
      BY ZenonT(30), <1>5, <2>1, <2>2, <2>3, <2>4, <2>6, FinishRow
         DEF Service!PutBack, Service!GiveUp, Service!Move, Answer, PaperInv
    <3> QED
      BY <1>5, <3>1, FinishRow DEF Service!Next
  <2>7. CASE result = "uncertain"
    <3>1. Answer(jobs'[cur]) = "unknown"
      BY SMTT(20), SMTT(30), <1>5, <2>7, FinishRow DEF Answer
    <3>2. Service!LoseTrack({cur})
      BY <1>5, <2>1, <2>2, <2>3, <2>4, <3>1, FinishRow DEF Service!LoseTrack
    <3> QED
      BY <1>5, <3>2, FinishRow DEF Service!Next
  <2> QED
    BY <2>1, <2>5, <2>6, <2>7 DEF Errors
<1>6. CASE Emit
  <2>1. cur \in JobIds /\ Service!PutOnPaper(cur)
    BY <1>6 DEF Emit, TypeInv, TypeOK, PaperInv, Service!PutOnPaper, Answer
  <2> QED
    BY <2>1 DEF Service!Next
<1>7. ASSUME NEW id \in JobIds, LateEmit(id)
      PROVE  Service!PutOnPaper(id)
  <2>1. paper[id] = 0 /\ ~Blank(id) /\ jobs[id].status # "completed"
    BY <1>7 DEF LateEmit, PaperInv
  <2>2. jobs[id].status \in Statuses \cup {"absent"}
    BY DEF TypeInv, TypeOK, Row, NoJob
  <2>3. Answer(jobs[id]) \in {"printing", "unknown"}
    BY <2>1, <2>2 DEF Blank, Statuses, Answer
  <2>4. jobs' = jobs /\ paper' = [paper EXCEPT ![id] = 1]
    BY <1>7, <2>1 DEF LateEmit, TypeInv, TypeOK
  <2> QED
    BY <2>1, <2>3, <2>4 DEF Service!PutOnPaper
<1>8. CASE Restart
  <2> DEFINE S == {id \in JobIds : jobs[id].status = "printing"}
  <2>1. open /\ paper' = paper
    BY Zenon, <1>8 DEF Restart, open
  <2>2. ASSUME NEW id \in JobIds
        PROVE  /\ Answer(jobs'[id]) = IF id \in S THEN "unknown" ELSE Answer(jobs[id])
               /\ RequestOf(jobs'[id]) = RequestOf(jobs[id])
    BY <2>1, OpenRow DEF Answer, RequestOf
  <2>3. Service!LoseTrack(S)
    BY <2>1, <2>2 DEF Service!LoseTrack, Answer
  <2> QED
    BY SMTT(20), SMTT(30), <2>3 DEF Service!Next
<1>9. CASE UNCHANGED <<jobs, paper>>
  BY <1>9 DEF Service!vars
<1>10. CASE \E id \in JobIds, p \in Printers, d \in Documents : Enqueue(id, p, d)
  BY Zenon, <1>1, <1>10 DEF Service!Next
<1>11. CASE \E id \in JobIds : Cancel(id) \/ Claim(id) \/ LateEmit(id)
  BY <1>2, <1>4, <1>7, <1>11 DEF Service!Next
<1> QED
  BY ZenonT(30), <1>3, <1>5, <1>6, <1>8, <1>9, <1>10, <1>11
     DEF Next, Command, Worker, Fault, SaveConfig, StartIteration, LeaveLoop,
         ClaimNothing, ClaimFails, FinishFails, Panic, Deliver, Listen, Tick,
         ClockStepsBack, Stop, Exit, Crash, ProcessEnds, vars, tableVars

\* The agent's table, worker, transports and process together keep the promise
\* of PrintService.
THEOREM AgentImplementsService == Spec => Implements
<1>1. Spec => Service!Init /\ [][Service!Next]_(Service!vars)
  BY ServiceInit, ServiceStep, TypeInvInit, TypeInvStep, PaperInvInit,
     PaperInvStep, PTL DEF Spec
<1> QED
  BY <1>1 DEF Implements, Service!Spec
=============================================================================
