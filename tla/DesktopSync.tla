---------------------------- MODULE DesktopSync -----------------------------
(***************************************************************************)
(* Synchronisation of the desktop application with the server:             *)
(* offline-menuvex/internal/syncclient/client.go (Refresh), and the sync   *)
(* part of the store: outbox.go, ApplyPage and Bootstrap of store.go.      *)
(*                                                                         *)
(* A store transaction is one step (StoreFile.tla is about that).  A       *)
(* request is two: the server handles it, the device receives the answer;  *)
(* either may fail to happen, and a push that the device has given up on   *)
(* may still be handled later.  The process may die at any moment.         *)
(*                                                                         *)
(* The server is external; it is modelled by what the client relies on: a  *)
(* change log with versions, pages from a cursor, and one recorded final   *)
(* answer per operation ID.                                                *)
(***************************************************************************)
EXTENDS Integers, Sequences, FiniteSets

CONSTANTS
  Catalog,     \* records of the kinds the server owns
  LocalOnly,   \* records of kinds the server does not send (tables, tasks...)
  MaxBatch,    \* handshake limit max_batch_size
  PageSize,    \* changes per pull page
  MaxOps,      \* bound: operations queued
  MaxLog,      \* bound: changes on the server
  MaxPushes,   \* bound: push requests
  MaxSaves     \* bound: local saves

ASSUME DesktopSyncConstants ==
  /\ Catalog \cap LocalOnly = {}
  /\ MaxBatch \in Nat \ {0}
  /\ PageSize \in Nat \ {0}
  /\ {MaxOps, MaxLog, MaxPushes, MaxSaves} \subseteq Nat

Records == Catalog \cup LocalOnly

VARIABLES
  \* the server
  log,       \* its changes, in order: record, version, tombstone
  floor,     \* oldest cursor it can still continue from
  answers,   \* final answer recorded for each operation
  acked,     \* cursor of the last acknowledgement handled
  \* the network
  pushes,    \* push requests: operations, and the answers so far
  \* the device: its database
  entities,  \* version and tombstone of each record; version 0 = absent
  cursor,    \* Meta["cursor"], NoCursor at first
  outbox,    \* operations; the position is the ID and the sequence
  \* the device: the running Refresh
  pc,
  at,        \* its local copy of the cursor
  page,      \* the answer it has received: next cursor and has_more
  recovered,
  \* history
  saved,     \* records saved by SaveLocalRecord
  applied    \* operations the server has applied, in order

server == <<log, floor, answers, acked, applied>>
database == <<entities, cursor, outbox, saved>>
refresh == <<pc, at, page, recovered>>
vars == <<server, pushes, database, refresh>>

NoCursor == -1
NoPage == [next |-> NoCursor, more |-> FALSE]
Pending == {"queued", "retry", "not_processed"}
Final == {"applied", "conflict", "rejected", "skipped"}
OpIds == 1..MaxOps

Absent == [version |-> 0, deleted |-> FALSE]

\* The server's current version of r after the first n changes.
At(r, n) ==
  LET about == {i \in 1..n : log[i].record = r}
  IN  IF about = {} THEN Absent
      ELSE LET i == CHOOSE i \in about : \A k \in about : k <= i
           IN  [version |-> log[i].version, deleted |-> log[i].deleted]

Current(r) == At(r, Len(log))

Init ==
  /\ log = <<>>
  /\ floor = 0
  /\ answers = [o \in OpIds |-> "none"]
  /\ acked = NoCursor
  /\ applied = <<>>
  /\ pushes = <<>>
  /\ entities = [r \in Records |-> Absent]
  /\ cursor = NoCursor
  /\ outbox = <<>>
  /\ saved = {}
  /\ pc = "idle"
  /\ at = NoCursor
  /\ page = NoPage
  /\ recovered = FALSE

-----------------------------------------------------------------------------
(* The server.                                                              *)

Change(r, deleted) ==
  Append(log, [record |-> r, version |-> Current(r).version + 1, deleted |-> deleted])

\* Another device or the web application edits or deletes a record.
ServerEdit(r) ==
  /\ Len(log) < MaxLog
  /\ \/ log' = Change(r, FALSE)
     \/ Current(r).version > 0 /\ ~Current(r).deleted /\ log' = Change(r, TRUE)
  /\ UNCHANGED <<floor, answers, acked, applied, pushes, database, refresh>>

\* Old changes are dropped: devices behind them need a snapshot.
Compact ==
  /\ floor < Len(log)
  /\ floor' = Len(log)
  /\ UNCHANGED <<log, answers, acked, applied, pushes, database, refresh>>

\* Whether the server can apply operation o now.
Fits(o) ==
  LET op == outbox[o]
  IN  IF op.action = "create" THEN Current(op.record).version = 0
      ELSE /\ Current(op.record).version = op.base
           /\ ~Current(op.record).deleted

\* The server handles the next operation of push n.
HandlePush(n) ==
  LET o == pushes[n].ops[Len(pushes[n].answers) + 1]
      Answer(s) == pushes' = [pushes EXCEPT ![n].answers = Append(@, s)]
      Record(s) == answers' = [answers EXCEPT ![o] = s] /\ Answer(s)
  IN  /\ Len(pushes[n].answers) < Len(pushes[n].ops)
      /\ \/ /\ answers[o] # "none"
            /\ Answer(answers[o])
            /\ UNCHANGED <<log, answers, applied>>
         \/ /\ answers[o] = "none"
            /\ Fits(o)
            /\ Len(log) < MaxLog
            /\ log' = Change(outbox[o].record, outbox[o].action = "delete")
            /\ applied' = Append(applied, o)
            /\ Record("applied")
         \/ /\ answers[o] = "none"
            /\ \/ ~Fits(o) /\ Record("conflict")
               \/ Record("rejected")
            /\ UNCHANGED <<log, applied>>
         \/ /\ answers[o] = "none"
            /\ \E s \in {"retry", "not_processed"} : Answer(s)
            /\ UNCHANGED <<log, answers, applied>>
      /\ UNCHANGED <<floor, acked, database, refresh>>

-----------------------------------------------------------------------------
(* The application's own transactions.                                      *)

\* Mutant: a second edit of a record may be queued while one is unresolved.
QueueCatalog_unchecked(action, r) ==
  /\ Len(outbox) < MaxOps
  /\ action # "create"
  /\ entities[r].version >= 1 /\ ~entities[r].deleted
  /\ outbox' = Append(outbox, [record |-> r, action |-> action,
                               base |-> entities[r].version, state |-> "queued"])
  /\ UNCHANGED <<server, pushes, entities, cursor, saved, refresh>>

\* Another unresolved operation of the record refuses the edit; an edit needs
\* the version the editor was opened with; a new record gets a new ID.
QueueCatalog(action, r) ==
  /\ Len(outbox) < MaxOps
  /\ \A o \in DOMAIN outbox :
       outbox[o].record = r => outbox[o].state \in {"applied", "discarded"}
  /\ IF action = "create"
     THEN /\ entities[r] = Absent
          /\ Current(r) = Absent
          /\ \A o \in DOMAIN outbox : outbox[o].record # r
     ELSE entities[r].version >= 1 /\ ~entities[r].deleted
  /\ outbox' = Append(outbox, [record |-> r, action |-> action,
                               base |-> entities[r].version, state |-> "queued"])
  /\ UNCHANGED <<server, pushes, entities, cursor, saved, refresh>>

\* SaveLocalRecord and DeleteLocalRecord: the version is counted on locally.
SaveLocal(r) ==
  /\ Cardinality(saved) < MaxSaves
  /\ saved' = saved \cup {r}
  /\ \E deleted \in BOOLEAN :
       /\ deleted => entities[r].version > 0 /\ ~entities[r].deleted
       /\ entities' = [entities EXCEPT ![r] =
                         [version |-> @.version + 1, deleted |-> deleted]]
  /\ UNCHANGED <<server, pushes, cursor, outbox, refresh>>

\* Mutant: an operation whose outcome is unknown can be discarded.
Discard_uncertain(o) ==
  /\ o \in DOMAIN outbox
  /\ outbox[o].state \in {"conflict", "rejected", "retry"}
  /\ outbox' = [outbox EXCEPT ![o].state = "discarded"]
  /\ UNCHANGED <<server, pushes, entities, cursor, saved, refresh>>

Discard(o) ==
  /\ o \in DOMAIN outbox
  /\ outbox[o].state \in {"conflict", "rejected", "skipped"}
  /\ outbox' = [outbox EXCEPT ![o].state = "discarded"]
  /\ UNCHANGED <<server, pushes, entities, cursor, saved, refresh>>

-----------------------------------------------------------------------------
(* Refresh.                                                                 *)

\* Bind, then Cursor.
StartRefresh ==
  /\ pc = "idle"
  /\ pc' = "handshake"
  /\ at' = cursor
  /\ UNCHANGED <<server, pushes, database, page, recovered>>

\* Refresh returns: its local variables are gone.
Returns == pc' = "idle" /\ at' = NoCursor /\ page' = NoPage /\ recovered' = FALSE

Handshake ==
  /\ pc = "handshake"
  /\ pc' = IF at = NoCursor \/ at < floor THEN "bootstrap" ELSE "push"
  /\ UNCHANGED <<server, pushes, database, at, page, recovered>>

\* The server takes its snapshot.
Snapshot ==
  /\ pc = "bootstrap"
  /\ page' = [next |-> Len(log), more |-> FALSE]
  /\ pc' = "replace"
  /\ UNCHANGED <<server, pushes, database, at, recovered>>

\* Mutant: the snapshot is merged into the old records, which keep the ones
\* deleted meanwhile.
Bootstrap_merges ==
  /\ pc = "replace"
  /\ entities' = [r \in Records |->
                    IF At(r, page.next).version > 0 /\ ~At(r, page.next).deleted
                    THEN At(r, page.next) ELSE entities[r]]
  /\ cursor' = page.next
  /\ at' = page.next
  /\ pc' = IF recovered THEN "pull" ELSE "push"
  /\ page' = NoPage
  /\ UNCHANGED <<server, pushes, outbox, saved, recovered>>

\* Store.Bootstrap: all records go, those of the snapshot come in; then Cursor.
Bootstrap ==
  /\ pc = "replace"
  /\ entities' = [r \in Records |->
                    IF At(r, page.next).deleted THEN Absent ELSE At(r, page.next)]
  /\ cursor' = page.next
  /\ at' = page.next
  /\ pc' = IF recovered THEN "pull" ELSE "push"
  /\ page' = NoPage
  /\ UNCHANGED <<server, pushes, outbox, saved, recovered>>

\* Outbox(pending): the pending operations in sequence order, one batch.
Batch ==
  LET pending == {o \in DOMAIN outbox : outbox[o].state \in Pending}
      first == {o \in pending : Cardinality({k \in pending : k < o}) < MaxBatch}
  IN  [i \in 1..Cardinality(first) |->
         CHOOSE o \in first : Cardinality({k \in first : k < o}) = i - 1]

Push ==
  /\ pc = "push"
  /\ IF Batch = <<>>
     THEN pc' = "pull" /\ UNCHANGED pushes
     ELSE /\ Len(pushes) < MaxPushes
          /\ pc' = "results"
          /\ pushes' = Append(pushes, [ops |-> Batch, answers |-> <<>>])
  /\ UNCHANGED <<server, database, at, page, recovered>>

\* Mutant: operations the answer leaves open are taken for applied.
SaveResults_optimistic ==
  /\ pc = "results"
  /\ LET p == pushes[Len(pushes)]
     IN  /\ Len(p.answers) = Len(p.ops)
         /\ outbox' = [o \in DOMAIN outbox |->
              IF \E i \in DOMAIN p.ops : p.ops[i] = o
              THEN [outbox[o] EXCEPT !.state = "applied"]
              ELSE outbox[o]]
  /\ pc' = "pull"
  /\ UNCHANGED <<server, pushes, entities, cursor, saved, at, page, recovered>>

\* The answers cover the batch, and all of it is still pending.
SaveResults ==
  /\ pc = "results"
  /\ LET p == pushes[Len(pushes)]
     IN  /\ Len(p.answers) = Len(p.ops)
         /\ \A i \in DOMAIN p.ops : outbox[p.ops[i]].state \in Pending
         /\ outbox' = [o \in DOMAIN outbox |->
              IF \E i \in DOMAIN p.ops : p.ops[i] = o
              THEN [outbox[o] EXCEPT !.state =
                      p.answers[CHOOSE i \in DOMAIN p.ops : p.ops[i] = o]]
              ELSE outbox[o]]
  /\ pc' = "pull"
  /\ UNCHANGED <<server, pushes, entities, cursor, saved, at, page, recovered>>

\* The server answers with a page, or asks for a bootstrap (once).
Pull ==
  /\ pc = "pull"
  /\ IF at < floor
     THEN /\ ~recovered
          /\ recovered' = TRUE
          /\ pc' = "bootstrap"
          /\ UNCHANGED page
     ELSE /\ page' = IF at + PageSize < Len(log)
                     THEN [next |-> at + PageSize, more |-> TRUE]
                     ELSE [next |-> Len(log), more |-> FALSE]
          /\ pc' = "apply"
          /\ UNCHANGED recovered
  /\ UNCHANGED <<server, pushes, database, at>>

\* applyChange, over the changes of the page about r: newer versions win.
Applied(r) ==
  LET newer == {i \in (at + 1)..page.next :
                  log[i].record = r /\ log[i].version > entities[r].version}
  IN  IF newer = {} THEN entities[r]
      ELSE LET i == CHOOSE i \in newer : \A k \in newer : log[k].version <= log[i].version
           IN  [version |-> log[i].version, deleted |-> log[i].deleted]

\* Mutant: the cursor is only kept in memory until the end of the refresh.
ApplyPage_late_cursor ==
  /\ pc = "apply"
  /\ entities' = [r \in Records |-> Applied(r)]
  /\ cursor' = IF page.more THEN cursor ELSE page.next
  /\ at' = page.next
  /\ pc' = "ack"
  /\ UNCHANGED <<server, pushes, outbox, saved, page, recovered>>

\* One transaction for the changes and the cursor.
ApplyPage ==
  /\ pc = "apply"
  /\ entities' = [r \in Records |-> Applied(r)]
  /\ cursor' = page.next
  /\ at' = page.next
  /\ pc' = "ack"
  /\ UNCHANGED <<server, pushes, outbox, saved, page, recovered>>

\* The server handles the acknowledgement; its answer may be lost.
Ack ==
  /\ pc = "ack"
  /\ acked' = at
  /\ \/ page.more /\ pc' = "pull" /\ page' = NoPage /\ UNCHANGED <<at, recovered>>
     \/ Returns
  /\ UNCHANGED <<log, floor, answers, applied, pushes, database>>

\* A request or its answer is lost, an answer is malformed, the context's two
\* minutes are over, or the process dies: what is not committed is gone.
GiveUp ==
  /\ pc # "idle"
  /\ Returns
  /\ UNCHANGED <<server, pushes, database>>

Refresh == StartRefresh \/ Handshake \/ Snapshot \/ Bootstrap \/ Push \/ SaveResults
           \/ Pull \/ ApplyPage \/ Ack \/ GiveUp

Next ==
  \/ Refresh
  \/ \E r \in Catalog : ServerEdit(r)
  \/ Compact
  \/ \E n \in DOMAIN pushes : HandlePush(n)
  \/ \E a \in {"create", "update", "delete"}, r \in Catalog : QueueCatalog(a, r)
  \/ \E r \in Records : SaveLocal(r)
  \/ \E o \in OpIds : Discard(o)

Spec == Init /\ [][Next]_vars

-----------------------------------------------------------------------------
\* The cursor in the database tells the truth about the records beside it:
\* after any interruption they are exactly the server's records at that cursor.
\* Records edited by SaveLocalRecord are left out: their versions run ahead.
CursorHonest ==
  cursor # NoCursor =>
    \A r \in Catalog \ saved :
      \/ entities[r] = At(r, cursor)
      \/ entities[r] = Absent /\ At(r, cursor).deleted

\* "Commit data and cursor BEFORE acknowledging": the server never believes the
\* device has more than its disk holds.
AckedIsDurable == acked <= cursor

\* "Only terminal, known-not-applied intent can be discarded": the server never
\* applies an operation the user discarded, also when a push that the device
\* gave up on is handled long after.
DiscardedNeverApplied ==
  \A i \in DOMAIN applied : outbox[applied[i]].state # "discarded"

\* An outcome shown to the user is the server's: what the outbox calls applied,
\* in conflict or rejected is what the server recorded for that ID.
OutcomesAreTrue ==
  \A o \in DOMAIN outbox : outbox[o].state \in Final => outbox[o].state = answers[o]

\* The edits of one record take effect in the order they were made and none is
\* passed over: when the server applies one, the device has seen every earlier
\* edit of the record applied, or has discarded it.
RecordOrder ==
  \A k \in DOMAIN applied : \A o \in 1..(applied[k] - 1) :
    outbox[o].record = outbox[applied[k]].record
      => outbox[o].state \in {"applied", "discarded"}

\* "Bootstrap replaces server-owned entities only" (store.go): no step of the
\* synchronisation takes away a record of a kind the server does not send.
LocalRecordsSurvive ==
  [][\A r \in LocalOnly : entities'[r].version >= entities[r].version]_vars
=============================================================================
