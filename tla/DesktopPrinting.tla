-------------------------- MODULE DesktopPrinting ---------------------------
(***************************************************************************)
(* The print jobs of one order in the desktop till: requests that create   *)
(* them (createPrintJobs), send them (dispatchPrintJob) and record the     *)
(* outcome.  The HTTP server runs its handlers concurrently and automatic  *)
(* printing sends from a goroutine, so requests interleave; the store's    *)
(* lock covers one read or one transaction, never a whole request.         *)
(*                                                                         *)
(* A request goes through                                                  *)
(*   routing   the loop over the order's categories (any order: it ranges  *)
(*             over a Go map), see PrintRouting                            *)
(*   look      read the jobs the order already has                         *)
(*   create    one job per ticket, unless the list had it                  *)
(*   dispatch  mark the next job that is to be sent "printing"             *)
(*   send      one copy to the printer                                     *)
(*   verdict   record "printed" or "failed"                                *)
(* handlePrintRetry and handlePrintTest enter at dispatch.                 *)
(*                                                                         *)
(* jobs is the sequence of the jobs in the order they are created.  A      *)
(* listing shows the 500 smallest ids, random UUIDs, of the print jobs of  *)
(* ALL orders, so in a store with that many a job may be pushed out of the *)
(* listing at any time by the jobs of other orders.  A listing that shows  *)
(* two jobs with one key lets either win: the winner is decided by         *)
(* creation times of one-second resolution.                                *)
(***************************************************************************)
EXTENDS PrintRouting

CONSTANTS Requests,      \* requests that may come, each once
          Profiles,      \* print settings an operator may have saved
          Configs        \* printers, routes and categories of the order; whether the
                         \* store holds more jobs than a listing shows; a bound on
                         \* the requests that come

\* Copies are numbers: settings and routes without one count as one copy.
ASSUME RoutesTyped ==
  \A k \in Configs : k.routes \in Seq([cat : Categories, printer : Printers, copies : Int, active : {"yes", "no"}])

ASSUME ProfilesTyped ==
  \A s \in Profiles : \A event \in DOMAIN s : s[event].copies \in Int

VARIABLES cfg, jobs, req, cut

vars == <<cfg, jobs, req, cut>>

\* What a request works on while it is not running.
Blank == [pc |-> "idle", kind |-> "none", doc |-> "none", want |-> NoDocs, todo |-> {},
          left |-> {}, tickets |-> NoTickets, wants |-> {}, list |-> {}, out |-> << >>,
          copy |-> 0, res |-> "none", known |-> {}]

Ticket(doc, printer, copies, full, cats) ==
  [doc |-> doc, printer |-> printer, copies |-> copies, full |-> full, cats |-> cats]

\* A job.  The last four fields are history: the most copies that came out in
\* one attempt, the jobs its creator was shown, whether the creator passed it
\* over, and whether it was printed and then put back (Again).
Job(key, status, known, aside) ==
  [key |-> key, status |-> status, attempts |-> 0, listed |-> "yes",
   paper |-> 0, known |-> known, aside |-> aside, reprint |-> "no"]

\* The listing all reads of several print jobs go through.
PrintJobs == {j \in DOMAIN jobs : jobs[j].listed = "yes" /\ jobs[j].key.doc # "test"}

View(j) == [id |-> j, key |-> jobs[j].key, status |-> jobs[j].status, attempts |-> jobs[j].attempts]

printerEnabled == CASE cfg.enabled = "true"  -> TRUE
                    [] cfg.enabled = "false" -> FALSE
                    [] OTHER                 -> cfg.printers # {}

\* A request arrives: bounded by the configuration's load, and gated.
Arrives(r) ==
  /\ req[r].pc = "idle"
  /\ Cardinality({q \in Requests : req[q].pc # "idle"}) < cfg.load
  /\ printerEnabled

\* The jobs that are printed when a request begins; a history kept for
\* NoSecondPaper.
PrintedJobs == {j \in DOMAIN jobs : jobs[j].status = "printed"}

\* History: request r takes the status "printed" from job j, on the operator's
\* wish (the row menu) or because it began before the job was printed.
Again(r, j) ==
  IF jobs[j].status = "printed" /\ (req[r].kind = "doc" \/ j \notin req[r].known) THEN "yes" ELSE jobs[j].reprint

Init ==
  /\ cfg \in Configs
  /\ jobs = << >>
  /\ req = [r \in Requests |-> Blank]
  /\ cut = "no"

----------------------------------------------------------------------------
(* Requests that ask for the tickets of the order.                         *)

Begin(r, kind, doc, want) ==
  /\ Arrives(r)
  /\ want # NoDocs
  /\ req' = [req EXCEPT ![r] = [Blank EXCEPT !.pc = "routing", !.kind = kind, !.doc = doc,
               !.want = want, !.known = PrintedJobs,
               !.todo = IF want.kitchen > 0 /\ cfg.active # << >> THEN cfg.cats ELSE {}]]
  /\ UNCHANGED <<cfg, jobs, cut>>

autoPrintAsync(r) ==
  \E profile \in Profiles, event \in {"create", "notable", "checkout", "complete"} :
    Begin(r, "auto", "none", docs(printPolicy(profile, event), event))

\* "Print" from the receipt page, and from the row menu for one document.
handlePrintOrder(r) ==
  \/ Begin(r, "all", "none", Docs(1, 1))
  \/ \E doc \in {"customer", "kitchen"} : Begin(r, "doc", doc, Docs(1, 1))

\* The loop over orderCats: one category, routed or left over.
RouteCategory(r) ==
  /\ req[r].pc = "routing"
  /\ \E c \in req[r].todo :
       LET i == routeByCat(cfg.routes, cfg.active, c) IN
       req' = [req EXCEPT ![r].todo = @ \ {c},
                 ![r].left = IF i = 0 THEN @ \cup {c} ELSE @,
                 ![r].tickets = IF i = 0 THEN @
                                ELSE addKitchen(@, Destination(cfg.routes[i], cfg.active), "no", {c},
                                                req[r].want.kitchen * Clamp(cfg.routes[i].copies))]
  /\ UNCHANGED <<cfg, jobs, cut>>

\* The rest of EnqueueOrderPrintJobsDocs.  Without an active printer there is
\* one job that only says so.
customerWants(want) ==
  IF want.customer > 0 THEN {Ticket("customer", cashier(cfg.active), want.customer, "yes", {})} ELSE {}

kitchenWants(t) ==
  {Ticket("kitchen", p, t[p].copies, t[p].full, t[p].cats) : p \in {q \in Printers : t[q].on = "yes"}}

noPrinterWants(want) ==
  {IF want.customer > 0 THEN Ticket("customer", NoPrinter, want.customer, "yes", {})
                        ELSE Ticket("kitchen", NoPrinter, want.kitchen, "yes", {})}

EnqueueOrderPrintJobsDocs(r) ==
  /\ req[r].pc = "routing"
  /\ req[r].todo = {}
  /\ LET want == req[r].want
         t    == IF want.kitchen > 0 /\ cfg.active # << >>
                 THEN addDefault(req[r].tickets, cfg.routes, cfg.active, req[r].left, want.kitchen)
                 ELSE req[r].tickets IN
     req' = [req EXCEPT ![r].pc = "look", ![r].tickets = t,
               ![r].wants = IF cfg.active = << >> THEN noPrinterWants(want)
                            ELSE customerWants(want) \cup kitchenWants(t)]
  /\ UNCHANGED <<cfg, jobs, cut>>

\* createPrintJobs: the existing jobs are read once, outside any transaction.
ReadExisting(r) ==
  /\ req[r].pc = "look"
  /\ req' = [req EXCEPT ![r].pc = "create", ![r].want = NoDocs, ![r].tickets = NoTickets, ![r].left = {},
               ![r].list = {View(j) : j \in PrintJobs}]
  /\ UNCHANGED <<cfg, jobs, cut>>

\* Mutant: automatic printing sends whatever it gets back.
SkipsLess(kind, doc, v) ==
  CASE kind = "all"  -> v.status = "printed"
    [] kind = "doc"  -> v.key.doc # doc
    [] OTHER         -> FALSE

\* What each caller of dispatchPrintJob leaves alone, judged by the status the
\* listing gave.
Skips(kind, doc, v) ==
  CASE kind = "auto" -> v.status = "printed"
    [] kind = "all"  -> v.status = "printed"
                        \/ (v.status = "failed" /\ v.attempts > 0 /\ v.key.printer = NoPrinter)
    [] kind = "doc"  -> v.key.doc # doc \/ (v.status = "failed" /\ v.key.printer = NoPrinter)
    [] OTHER         -> FALSE

\* A request with its next job at the head of out; one with none is over.
Proceed(q) ==
  IF q.pc = "create" /\ q.wants # {} THEN q
  ELSE IF q.out = << >> THEN [Blank EXCEPT !.pc = "done"]
  ELSE [q EXCEPT !.pc = "dispatch", !.list = {}, !.copy = 0, !.res = "none"]

\* createPrintJobs has dealt with ticket w: v is in the list it returns, which
\* its caller goes through.
Returned(q, w, v) ==
  Proceed([q EXCEPT !.wants = @ \ {w}, !.out = IF Skips(q.kind, q.doc, v) THEN @ ELSE Append(@, v)])

\* The customer's ticket comes first in the list of payloads.
NextWant(r) ==
  {w \in req[r].wants : w.doc = "customer" \/ \A x \in req[r].wants : x.doc # "customer"}

KeepOld(r) ==
  /\ req[r].pc = "create"
  /\ \E w \in NextWant(r) : \E old \in req[r].list :
       /\ old.key = w
       /\ req' = [req EXCEPT ![r] = Returned(@, w, old)]
  /\ UNCHANGED <<cfg, jobs, cut>>

savePrintJob(key, known, aside) ==
  jobs' = Append(jobs, Job(key, IF key.printer = NoPrinter THEN "failed" ELSE "pending", known, aside))

\* Mutant: a failed job is not kept for the retry.
CreateNewAfterFailure(r) ==
  /\ req[r].pc = "create"
  /\ \E w \in NextWant(r) :
       /\ ~ \E old \in req[r].list : old.key = w /\ old.status # "failed"
       /\ savePrintJob(w, {v.id : v \in req[r].list},
                       IF req[r].kind = "doc" /\ w.doc # req[r].doc THEN "yes" ELSE "no")
       /\ req' = [req EXCEPT ![r] = Returned(@, w, View(Len(jobs))')]
  /\ UNCHANGED <<cfg, cut>>

CreateNew(r) ==
  /\ req[r].pc = "create"
  /\ \E w \in NextWant(r) :
       /\ ~ \E old \in req[r].list : old.key = w
       /\ savePrintJob(w, {v.id : v \in req[r].list},
                       IF req[r].kind = "doc" /\ w.doc # req[r].doc THEN "yes" ELSE "no")
       /\ req' = [req EXCEPT ![r] = Returned(@, w, View(Len(jobs))')]
  /\ UNCHANGED <<cfg, cut>>

----------------------------------------------------------------------------
(* Requests for one job.                                                   *)

handlePrintRetry(r) ==
  /\ Arrives(r)
  /\ \E j \in DOMAIN jobs :
       /\ jobs[j].status # "printed"
       /\ req' = [req EXCEPT ![r] = [Blank EXCEPT !.pc = "dispatch", !.kind = "retry",
                    !.out = <<View(j)>>, !.known = PrintedJobs]]
  /\ UNCHANGED <<cfg, jobs, cut>>

\* A test job has a key of its own (test|id), so it is never another's.
EnqueueTestPrintJob(p) == savePrintJob(Ticket("test", p, 1, "yes", {}), {}, "no")

handlePrintTest(r) ==
  /\ Arrives(r)
  /\ \E p \in cfg.printers : EnqueueTestPrintJob(p)
  /\ req' = [req EXCEPT ![r] = [Blank EXCEPT !.pc = "dispatch", !.kind = "test", !.out = <<View(Len(jobs))'>>]]
  /\ UNCHANGED <<cfg, cut>>

----------------------------------------------------------------------------
(* Sending: the loop over the jobs a request got back.                     *)

NextJob(r) == Proceed([req[r] EXCEPT !.out = Tail(@)])

\* The row menu prints a printed document again: back to pending first.
MayReprint(r) ==
  /\ req[r].pc = "dispatch"
  /\ req[r].kind = "doc"
  /\ Head(req[r].out).status = "printed"

Reprint(r) ==
  /\ MayReprint(r)
  /\ LET j == Head(req[r].out).id IN
     jobs' = [jobs EXCEPT ![j] = [@ EXCEPT !.status = "pending", !.reprint = Again(r, j)]]
  /\ req' = [req EXCEPT ![r].out[1].status = "pending"]
  /\ UNCHANGED <<cfg, cut>>

\* dispatchPrintJob, up to the first copy.
MayDispatch(r) ==
  /\ req[r].pc = "dispatch"
  /\ ~MayReprint(r)

MarkPrinting(r) ==
  /\ MayDispatch(r)
  /\ LET j == Head(req[r].out).id IN
     jobs' = [jobs EXCEPT ![j] = [@ EXCEPT !.status = "printing", !.attempts = jobs[j].attempts + 1,
                                           !.reprint = Again(r, j)]]
  /\ req' = [req EXCEPT ![r].pc = "send"]
  /\ UNCHANGED <<cfg, cut>>

\* Mutant: only the last copy decides.
SendCopyLast(r) ==
  /\ req[r].pc = "send"
  /\ LET j == Head(req[r].out).id
         last == req[r].copy + 1 >= Clamp(jobs[j].key.copies) IN
     \E out \in {0, 1} :
       /\ jobs' = [jobs EXCEPT ![j].paper = @ + out]
       /\ req' = [req EXCEPT ![r].copy = @ + 1, ![r].pc = IF last THEN "verdict" ELSE "send",
                    ![r].res = IF out = 1 THEN "printed" ELSE "failed"]
  /\ UNCHANGED <<cfg, cut>>

\* One copy.  A copy may come out although sending it reports an error.
SendCopy(r) ==
  /\ req[r].pc = "send"
  /\ LET j == Head(req[r].out).id
         last == req[r].copy + 1 = Clamp(jobs[j].key.copies) IN
     \E ok \in {"yes", "no"}, out \in {0, 1} :
       /\ ok = "yes" => out = 1
       /\ jobs' = [jobs EXCEPT ![j].paper = IF req[r].copy + out > @ THEN req[r].copy + out ELSE @]
       /\ req' = [req EXCEPT ![r].copy = @ + 1,
                    ![r].pc = IF ok = "no" \/ last THEN "verdict" ELSE "send",
                    ![r].res = IF ok = "no" THEN "failed" ELSE IF last THEN "printed" ELSE @]
  /\ UNCHANGED <<cfg, cut>>

SaveOutcome(r) ==
  LET j == Head(req[r].out).id IN
  jobs' = [jobs EXCEPT ![j] = [@ EXCEPT !.status = req[r].res,
                                        !.reprint = IF req[r].res = "printed" THEN jobs[j].reprint ELSE Again(r, j)]]

\* Mutant: a job that fails ends the request.
VerdictStops(r) ==
  /\ req[r].pc = "verdict"
  /\ SaveOutcome(r)
  /\ req' = [req EXCEPT ![r] = IF req[r].res = "failed" THEN [Blank EXCEPT !.pc = "done"] ELSE NextJob(r)]
  /\ UNCHANGED <<cfg, cut>>

Verdict(r) ==
  /\ req[r].pc = "verdict"
  /\ SaveOutcome(r)
  /\ req' = [req EXCEPT ![r] = NextJob(r)]
  /\ UNCHANGED <<cfg, cut>>

----------------------------------------------------------------------------
(* Faults.                                                                 *)

\* A transaction of the store fails, on the disk or because the browser has
\* dropped the request and with it the context.  While creating, the jobs created so far
\* stay and nobody sends them; a job that cannot be marked is passed over; an
\* outcome that cannot be recorded is lost.
StoreFails(r) ==
  /\ \/ /\ req[r].pc = "create"
        /\ \E w \in NextWant(r) : ~ \E old \in req[r].list : old.key = w
        /\ req' = [req EXCEPT ![r] = [Blank EXCEPT !.pc = "done"]]
     \/ /\ MayReprint(r)
        /\ req' = [req EXCEPT ![r].out[1].status = "pending"]
     \/ /\ MayDispatch(r)
        /\ req' = [req EXCEPT ![r] = NextJob(r)]
     \/ /\ req[r].pc = "verdict"
        /\ req' = [req EXCEPT ![r] = NextJob(r)]
  /\ cut' = "yes"
  /\ UNCHANGED <<cfg, jobs>>

\* The program stops: the jobs are on disk, the requests are gone, and nothing
\* looks at unfinished jobs when it starts again.
Crash ==
  /\ \E r \in Requests : req[r].pc \notin {"idle", "done"}
  /\ req' = [r \in Requests |-> IF req[r].pc = "idle" THEN req[r] ELSE [Blank EXCEPT !.pc = "done"]]
  /\ cut' = "yes"
  /\ UNCHANGED <<cfg, jobs>>

\* Jobs of other orders push this one out of the listing.
PushedOut(j) ==
  /\ cfg.crowded = "yes"
  /\ jobs[j].listed = "yes"
  /\ jobs' = [jobs EXCEPT ![j].listed = "no"]
  /\ UNCHANGED <<cfg, req, cut>>

----------------------------------------------------------------------------
Work(r) ==
  \/ RouteCategory(r) \/ EnqueueOrderPrintJobsDocs(r) \/ ReadExisting(r)
  \/ KeepOld(r) \/ CreateNew(r)
  \/ Reprint(r) \/ MarkPrinting(r) \/ SendCopy(r) \/ Verdict(r)

Next ==
  \/ \E r \in Requests :
       \/ autoPrintAsync(r) \/ handlePrintOrder(r) \/ handlePrintRetry(r) \/ handlePrintTest(r)
       \/ Work(r)
       \/ StoreFails(r)
  \/ \E j \in DOMAIN jobs : PushedOut(j)
  \/ Crash

Spec == Init /\ [][Next]_vars

----------------------------------------------------------------------------
(* Properties.                                                             *)

SameKey(j, k) == j # k /\ jobs[j].key = jobs[k].key /\ jobs[j].key.doc # "test"

\* The printer of a category as the routing rules of configuration k state it,
\* and the copies it asks for when want copies are wanted.
Home(k, c) ==
  LET i == routeByCat(k.routes, k.active, c) IN
  IF i = 0 THEN kitchenStation(k.active) ELSE Destination(k.routes[i], k.active)

Share(k, c, want) ==
  LET i == routeByCat(k.routes, k.active, c) IN
  IF i = 0 THEN Clamp(want) ELSE Clamp(want * Clamp(k.routes[i].copies))

\* A ticket for exactly the categories in S, with the most copies any asks for.
TicketFor(k, t, S, want) ==
  /\ t.full = "no"
  /\ t.cats = S
  /\ t.on = IF S = {} THEN "no" ELSE "yes"
  /\ \A c \in S : Share(k, c, want) <= t.copies
  /\ S # {} => \E c \in S : Share(k, c, want) = t.copies

AsRouted(k, t, want) ==
  \A p \in Printers :
    IF InForce(k.routes, k.active) # {}
    THEN TicketFor(k, t[p], {c \in k.cats : Home(k, c) = p}, want)
    ELSE t[p] = IF p = kitchenStation(k.active) /\ p # cashier(k.active)
                THEN [on |-> "yes", full |-> "yes", cats |-> {}, copies |-> Clamp(want)]
                ELSE NoTicket

\* The kitchen tickets the routing loop of EnqueueOrderPrintJobsDocs ends with,
\* whatever order the categories came in: once a route is in force every printer
\* gets exactly the categories routed to it (the unrouted ones at the kitchen
\* station), on one ticket with the largest number of copies any of them asks
\* for; with none in force there is one full ticket, unless the till's own
\* printer is the kitchen station.
RoutingSound ==
  \A r \in Requests :
    req[r].pc = "look" /\ req[r].want.kitchen > 0 /\ cfg.active # << >> =>
      AsRouted(cfg, req[r].tickets, req[r].want.kitchen)

\* "printed" is never said of a ticket unless one attempt brought out all its
\* copies, however many requests send it and however their attempts end.
PrintedIsTrue ==
  \A j \in DOMAIN jobs : jobs[j].status = "printed" => jobs[j].paper >= Clamp(jobs[j].key.copies)

\* Two jobs for one ticket appear only when the creator of the later one could
\* not see the earlier: they were created side by side, or the earlier one is
\* past the end of the listing.  createPrintJobs keeps a failed job for the
\* retry as well as a pending or printed one.
DuplicatesWereUnseen ==
  \A j, k \in DOMAIN jobs : SameKey(j, k) => j \notin jobs[k].known /\ k \notin jobs[j].known

\* A request that begins after a job was printed does not send it again: neither
\* automatic printing, nor "print all", nor a retry.  Only the row menu does (it
\* is meant to), and a request from before, which knows the job as pending; a
\* later request that meets the job in the hands of one of these may send it too.
NoSecondPaper ==
  \A r \in Requests :
    req[r].pc \in {"send", "verdict"} /\ req[r].kind \in {"auto", "all", "retry"} =>
      LET j == Head(req[r].out).id IN j \in req[r].known => jobs[j].reprint = "yes"

\* No job is left behind: once no request is running every job is "printed" or
\* "failed", unless a write of the store failed or the program stopped on the
\* way (nothing resumes unfinished jobs).  One ticket that fails does not keep
\* the next from being sent, and no two requests leave a job to each other.
\* The row menu is the exception: asked for one document it creates the jobs of
\* both and sends one, and the other stays pending until something asks for it.
NoJobLeftBehind ==
  cut = "no" /\ (\A r \in Requests : req[r].pc \in {"idle", "done"}) =>
    \A j \in DOMAIN jobs :
      \/ jobs[j].status \in {"printed", "failed"}
      \/ jobs[j].status = "pending" /\ jobs[j].attempts = 0 /\ jobs[j].aside = "yes"
=============================================================================
