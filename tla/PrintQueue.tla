----------------------------- MODULE PrintQueue -----------------------------
(***************************************************************************)
(* The print agent's job table and the operations of Storage on it         *)
(* (src-tauri/src/print/queue.rs, src-tauri/src/config/storage.rs).        *)
(*                                                                         *)
(* The table lives in SQLite behind one mutex and every operation is one   *)
(* transaction, so each is one action here.  The module holds the table    *)
(* and its operations only; PrintWorker.tla adds the threads that call     *)
(* them.  A refused request (unknown id, id conflict, full queue, job not  *)
(* cancellable) changes nothing and is therefore no action at all.         *)
(***************************************************************************)
EXTENDS Integers, FiniteSets

CONSTANTS
  JobIds,            \* the ids clients may choose
  Printers,          \* printer ids
  Documents,         \* what a client wants printed
  MaxActive,         \* 256 in the code: queued and printing rows
  MaxAttemptsLimit,  \* 5 in the code: Config::validate caps max_attempts
  MaxSubmissions     \* bound: rows inserted in one behaviour

ASSUME PrintQueueConstants ==
  /\ MaxActive \in Nat
  /\ MaxAttemptsLimit \in Nat \ {0}
  /\ MaxSubmissions \in Nat

VARIABLES
  jobs,         \* the SQLite table, one row or NoJob for each id
  clock,        \* now(): wall-clock seconds
  submissions,  \* history: how many rows were ever inserted
  submitted,    \* history: for each row, which insertion created it
  paper         \* history: for each row, how often its bytes may have printed

tableVars == <<jobs, clock, submissions, submitted, paper>>

-----------------------------------------------------------------------------
Statuses == {"queued", "printing", "completed", "failed", "cancelled"}

\* AgentError, reduced to its two flags: `retryable` (nothing was sent, try
\* again), neither flag (nothing was sent, give up), and `uncertain`.
Errors == {"none", "retryable", "permanent", "uncertain"}

NoJob == [status |-> "absent"]

Row == [printer : Printers, document : Documents, status : Statuses,
        attempts : Nat, created_at : Int, next_at : Int,
        rowid : Nat, error : Errors]

Exists(id) == jobs[id].status # "absent"
IsActive(id) == jobs[id].status \in {"queued", "printing"}
ActiveJobs == {id \in JobIds : IsActive(id)}

\* 1 << min(attempt, 6), at most a minute.
backoff(attempt) == IF attempt >= 6 THEN 60 ELSE 2 ^ attempt

\* ORDER BY created_at, rowid
Before(a, b) ==
  \/ jobs[a].created_at < jobs[b].created_at
  \/ /\ jobs[a].created_at = jobs[b].created_at
     /\ jobs[a].rowid < jobs[b].rowid

\* SQLite gives a new row of a table without AUTOINCREMENT the largest rowid
\* plus one.
FreshRowid(r) ==
  /\ \A id \in JobIds : Exists(id) => jobs[id].rowid < r
  /\ r = 1 \/ \E id \in JobIds : Exists(id) /\ jobs[id].rowid = r - 1

\* Mutant: a job that backs off no longer holds back the later ones.
Claimable_skips_backoff(t) ==
  {id \in JobIds :
     /\ jobs[id].status = "queued"
     /\ jobs[id].next_at <= t
     /\ \A prior \in JobIds :
          /\ IsActive(prior) /\ jobs[prior].next_at <= t
          /\ jobs[prior].printer = jobs[id].printer
          => ~Before(prior, id)}

\* Mutant: a failed job holds back the later ones for good.
Claimable_behind_failed(t) ==
  {id \in JobIds :
     /\ jobs[id].status = "queued"
     /\ jobs[id].next_at <= t
     /\ \A prior \in JobIds :
          /\ IsActive(prior) \/ jobs[prior].status = "failed"
          /\ jobs[prior].printer = jobs[id].printer
          => ~Before(prior, id)}

\* The rows the SELECT of claim() may return at time t, before its LIMIT 1.
Claimable(t) ==
  {id \in JobIds :
     /\ jobs[id].status = "queued"
     /\ jobs[id].next_at <= t
     /\ \A prior \in JobIds :
          /\ IsActive(prior)
          /\ jobs[prior].printer = jobs[id].printer
          => ~Before(prior, id)}

NextClaim(id, t) ==
  /\ id \in Claimable(t)
  /\ \A other \in Claimable(t) : ~Before(other, id)

\* Mutant: an uncertain transfer is retried like any other.
MayRetry_uncertain(id, error, max) ==
  /\ error \in {"retryable", "uncertain"}
  /\ jobs[id].attempts < max

\* finish(): back to the queue only if nothing was sent and attempts remain.
MayRetry(id, error, max) ==
  /\ error = "retryable"
  /\ jobs[id].attempts < max

-----------------------------------------------------------------------------
TableInit ==
  /\ jobs = [id \in JobIds |-> NoJob]
  /\ clock = 0
  /\ submissions = 0
  /\ submitted = [id \in JobIds |-> 0]
  /\ paper = [id \in JobIds |-> 0]

\* enqueue(): an id that already has a row keeps it (the same request gets the
\* row back, a different one JOB_ID_CONFLICT), a full queue refuses.
enqueue(id, p, d) ==
  /\ ~Exists(id)
  /\ Cardinality(ActiveJobs) < MaxActive
  /\ submissions < MaxSubmissions
  /\ \E r \in 1..MaxSubmissions :
       /\ FreshRowid(r)
       /\ jobs' = [jobs EXCEPT ![id] =
                     [printer |-> p, document |-> d, status |-> "queued",
                      attempts |-> 0, created_at |-> clock, next_at |-> clock,
                      rowid |-> r, error |-> "none"]]
  /\ submissions' = submissions + 1
  /\ submitted' = [submitted EXCEPT ![id] = submissions + 1]
  /\ UNCHANGED <<clock, paper>>

claim(id) ==
  /\ NextClaim(id, clock)
  /\ jobs' = [jobs EXCEPT ![id].status = "printing",
                          ![id].attempts = @ + 1,
                          ![id].error = "none"]
  /\ UNCHANGED <<clock, submissions, submitted, paper>>

finish(id, error, max) ==
  /\ jobs[id].status = "printing"
  /\ jobs' = [jobs EXCEPT
       ![id].status = CASE error = "none" -> "completed"
                        [] MayRetry(id, error, max) -> "queued"
                        [] OTHER -> "failed",
       ![id].error = error,
       ![id].next_at = IF error = "none" THEN clock
                       ELSE clock + backoff(jobs[id].attempts)]
  /\ UNCHANGED <<clock, submissions, submitted, paper>>

cancel(id) ==
  /\ jobs[id].status = "queued"
  /\ jobs' = [jobs EXCEPT ![id].status = "cancelled"]
  /\ UNCHANGED <<clock, submissions, submitted, paper>>

\* Mutant: the row being printed is deleted with the others.
clear_everything ==
  /\ jobs' = [id \in JobIds |-> NoJob]
  /\ submitted' = [id \in JobIds |-> 0]
  /\ paper' = [id \in JobIds |-> 0]
  /\ UNCHANGED <<clock, submissions>>

\* clear(): the queued rows are cancelled and every row but a printing one is
\* deleted, in one transaction.
clear ==
  /\ jobs' = [id \in JobIds |->
                IF jobs[id].status = "printing" THEN jobs[id] ELSE NoJob]
  /\ submitted' = [id \in JobIds |->
                     IF jobs[id].status = "printing" THEN submitted[id] ELSE 0]
  /\ paper' = [id \in JobIds |->
                 IF jobs[id].status = "printing" THEN paper[id] ELSE 0]
  /\ UNCHANGED <<clock, submissions>>

\* Mutant: recovery forgets to mark the outcome as uncertain.
open_unmarked ==
  /\ jobs' = [id \in JobIds |->
                IF jobs[id].status = "printing"
                THEN [jobs[id] EXCEPT !.status = "failed", !.error = "permanent"]
                ELSE jobs[id]]
  /\ UNCHANGED <<clock, submissions, submitted, paper>>

\* Storage::open(): whatever a dead process left printing is ambiguous.
open ==
  /\ jobs' = [id \in JobIds |->
                IF jobs[id].status = "printing"
                THEN [jobs[id] EXCEPT !.status = "failed", !.error = "uncertain"]
                ELSE jobs[id]]
  /\ UNCHANGED <<clock, submissions, submitted, paper>>
=============================================================================
