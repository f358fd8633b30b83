---------------------------- MODULE LocalRecords ----------------------------
(***************************************************************************)
(* The records the desktop till keeps on its own, as its form handlers see *)
(* them: SaveLocalRecord, DeleteLocalRecord, Entity and Entities of        *)
(* offline-menuvex/internal/store.  Each store call is one transaction or  *)
(* one locked read; a handler makes several, and the HTTP server runs      *)
(* handlers side by side.                                                  *)
(*                                                                         *)
(* A handler is therefore modelled as one step that reads and decides, and *)
(* leaves behind the sequence of store calls it goes on to make, each a    *)
(* step of its own.  The reads a handler makes before its first write are  *)
(* taken together.  A handler that refuses leaves nothing behind and is    *)
(* not a step.  Record versions and time stamps are left to DesktopSync.   *)
(*                                                                         *)
(* A record is Missing, or live with its fields, or deleted.  Ids are      *)
(* numbers: a new record takes any unused one (the code draws a UUID), and *)
(* a listing shows the ListLimit smallest of a kind (500 in the code).     *)
(***************************************************************************)
EXTENDS Integers, Sequences, FiniteSets

CONSTANTS Workers,       \* requests served side by side
          Ids,           \* record ids
          ListLimit,     \* records a listing shows
          MaxRequests    \* bound on the requests that come

\* 0 stands for no record, as the empty id does in the code.
ASSUME IdsAreNumbers == IsFiniteSet(Ids) /\ Ids \subseteq Nat \ {0}

VARIABLES records,       \* [kind -> [id -> record]]
          work,          \* store calls each worker has still to make
          served,        \* requests so far
          clean,         \* history: "yes" while no two requests overlapped and
                         \* every listing was complete
          cut            \* history: "yes" once a store call has failed

recordVars == <<records, work, served, clean, cut>>

NoFields == << >>
Missing == [live |-> "no", f |-> NoFields]
Gone == [live |-> "gone", f |-> NoFields]
Stored(fields) == [live |-> "yes", f |-> fields]

IsLive(kind, id) == records[kind][id].live = "yes"

Field(kind, id, k) ==
  IF k \in DOMAIN records[kind][id].f THEN records[kind][id].f[k] ELSE ""

Has(kind, id, k, value) == k \in DOMAIN records[kind][id].f /\ records[kind][id].f[k] = value

Live(kind) == {i \in Ids : IsLive(kind, i)}

\* What an old page may still show.
Known(kind) == {i \in Ids : records[kind][i] # Missing}

Entities(kind) == {i \in Live(kind) : Cardinality({j \in Live(kind) : j < i}) < ListLimit}

----------------------------------------------------------------------------
(* Store calls.                                                            *)

\* The form's fields over those there were.
Merged(form, old) ==
  [k \in DOMAIN form \cup DOMAIN old |-> IF k \in DOMAIN form THEN form[k] ELSE old[k]]

\* Merges into a live record; a missing or deleted one becomes a fresh record
\* with just these fields.
SaveLocalRecord(kind, id, fields) ==
  records' = [records EXCEPT ![kind][id] =
                Stored(IF IsLive(kind, id) THEN Merged(fields, records[kind][id].f) ELSE fields)]

DeleteLocalRecord(kind, id) ==
  records' = [records EXCEPT ![kind][id] = Gone]

\* must = "yes": the handler stops when the call fails; "no": it ignores that.
Save(kind, id, fields, must) ==
  [op |-> "save", kind |-> kind, id |-> id, fields |-> fields, must |-> must]

Delete(kind, id) ==
  [op |-> "delete", kind |-> kind, id |-> id, fields |-> NoFields, must |-> "yes"]

Calls(w) == {work[w][i] : i \in DOMAIN work[w]}

\* Ids for a new record: unused, and not drawn by a request under way.
Fresh(kind) ==
  {i \in Ids : /\ records[kind][i] = Missing
               /\ \A w \in Workers : \A c \in Calls(w) : c.kind # kind \/ c.id # i}

Idle(w) == work[w] = << >>

\* A handler has decided on its calls, having read the listings of some kinds.
Begin(w, calls, kinds) ==
  /\ Idle(w)
  /\ served < MaxRequests
  /\ calls # << >>
  /\ work' = [work EXCEPT ![w] = calls]
  /\ served' = served + 1
  /\ clean' = IF (\A v \in Workers : Idle(v)) /\ (\A k \in kinds : Entities(k) = Live(k)) THEN clean ELSE "no"
  /\ UNCHANGED <<records, cut>>

\* The next call of a request.  Deleting what is not there is an error.
StoreCall(w) ==
  /\ ~Idle(w)
  /\ LET c == Head(work[w]) IN
     \/ /\ c.op = "save"
        /\ SaveLocalRecord(c.kind, c.id, c.fields)
        /\ work' = [work EXCEPT ![w] = Tail(@)]
     \/ /\ c.op = "delete"
        /\ IF IsLive(c.kind, c.id) THEN DeleteLocalRecord(c.kind, c.id) ELSE UNCHANGED records
        /\ work' = [work EXCEPT ![w] = IF IsLive(c.kind, c.id) THEN Tail(@) ELSE << >>]
  /\ UNCHANGED <<served, clean, cut>>

\* The disk refuses the transaction, or the browser has dropped the request and
\* with it the context.
StoreCallFails(w) ==
  /\ ~Idle(w)
  /\ work' = [work EXCEPT ![w] = IF Head(@).must = "yes" THEN << >> ELSE Tail(@)]
  /\ cut' = "yes"
  /\ UNCHANGED <<records, served, clean>>

\* The program stops: what was saved stays.
Stop ==
  /\ \E w \in Workers : ~Idle(w)
  /\ work' = [w \in Workers |-> << >>]
  /\ cut' = "yes"
  /\ UNCHANGED <<records, served, clean>>

RecordsInit(initial) ==
  /\ records = initial
  /\ work = [w \in Workers |-> << >>]
  /\ served = 0
  /\ clean = "yes"
  /\ cut = "no"

RecordsStep == (\E w \in Workers : StoreCall(w) \/ StoreCallFails(w)) \/ Stop
=============================================================================
