---------------------------- MODULE PrintService ----------------------------
(***************************************************************************)
(* What the print agent promises a client, with no queue, worker, clock or *)
(* process in sight: a submission is printed at most once, it goes back to *)
(* waiting only while its paper is blank, and every final answer is true.  *)
(* PrintWorker implements this specification (Implements in that module).  *)
(***************************************************************************)
EXTENDS Naturals

CONSTANTS JobIds, Requests, NoRequest

VARIABLES
  request,  \* what was asked for under each id, or NoRequest
  phase,    \* what the agent answers about the id
  paper     \* how often the submission was put on paper

vars == <<request, phase, paper>>

Phases == {"none", "waiting", "printing", "done", "withdrawn", "failed", "unknown"}

Init ==
  /\ request = [id \in JobIds |-> NoRequest]
  /\ phase = [id \in JobIds |-> "none"]
  /\ paper = [id \in JobIds |-> 0]

Move(id, from, to) ==
  /\ phase[id] = from
  /\ phase' = [phase EXCEPT ![id] = to]
  /\ UNCHANGED <<request, paper>>

\* An id is bound to one request until its history is forgotten.
Submit(id, r) ==
  /\ phase[id] = "none"
  /\ phase' = [phase EXCEPT ![id] = "waiting"]
  /\ request' = [request EXCEPT ![id] = r]
  /\ UNCHANGED paper

Begin(id) == Move(id, "waiting", "printing")
Withdraw(id) == Move(id, "waiting", "withdrawn")

\* The one time the job prints: while it is being delivered, or late, when the
\* agent has already given it up as unknown.
PutOnPaper(id) ==
  /\ phase[id] \in {"printing", "unknown"}
  /\ paper[id] = 0
  /\ paper' = [paper EXCEPT ![id] = 1]
  /\ UNCHANGED <<request, phase>>

Succeed(id) == paper[id] = 1 /\ Move(id, "printing", "done")
PutBack(id) == paper[id] = 0 /\ Move(id, "printing", "waiting")
GiveUp(id) == paper[id] = 0 /\ Move(id, "printing", "failed")

\* The outcome of some deliveries is not known: one transfer failed midway, or
\* the process died during all of them.
LoseTrack(S) ==
  /\ \A id \in S : phase[id] = "printing"
  /\ phase' = [id \in JobIds |-> IF id \in S THEN "unknown" ELSE phase[id]]
  /\ UNCHANGED <<request, paper>>

\* The operator empties the queue; what is being delivered stays.
Forget ==
  LET Kept(id) == phase[id] = "printing"
  IN  /\ phase' = [id \in JobIds |-> IF Kept(id) THEN phase[id] ELSE "none"]
      /\ request' = [id \in JobIds |-> IF Kept(id) THEN request[id] ELSE NoRequest]
      /\ paper' = [id \in JobIds |-> IF Kept(id) THEN paper[id] ELSE 0]

Next ==
  \/ \E id \in JobIds, r \in Requests : Submit(id, r)
  \/ \E id \in JobIds :
       \/ Begin(id)
       \/ Withdraw(id)
       \/ PutOnPaper(id)
       \/ Succeed(id)
       \/ PutBack(id)
       \/ GiveUp(id)
  \/ \E S \in SUBSET JobIds : LoseTrack(S)
  \/ Forget

Spec == Init /\ [][Next]_vars
=============================================================================
