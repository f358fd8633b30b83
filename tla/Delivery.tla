------------------------------ MODULE Delivery ------------------------------
(***************************************************************************)
(* How the bytes of a print job leave the agent: HardwareTransport with    *)
(* its copies loop and USB fallback (src-tauri/src/printers/mod.rs,        *)
(* usb_policy.rs), the libusb sender on its own bounded thread (usb.rs),   *)
(* the network sender (network.rs), the Windows RAW spooler pipeline       *)
(* (raw_printer.rs) and CUPS (spooler.rs).                                 *)
(*                                                                         *)
(* The queue worker delivers the jobs 1, 2, ... of one printer in turn.    *)
(* Each copy on USB runs on a thread of its own, which the caller abandons *)
(* at its deadline; an abandoned thread goes on, also while later jobs are *)
(* delivered.  A document is a few chunks; `out` is what each destination  *)
(* received, in order.                                                     *)
(***************************************************************************)
EXTENDS Integers, Sequences

CONSTANTS
  Jobs,      \* bound: number of jobs delivered in turn
  Copies,    \* copies per job (Printer.copies)
  Chunks,    \* transfers per document
  Profiles   \* the printer profiles of this instance

None == "none"
Direct == {"network", "winspool", "cups"}

ASSUME DeliveryConstants ==
  /\ Jobs \in Nat \ {0}
  /\ Copies \in Nat \ {0}
  /\ Chunks \in Nat \ {0}
  /\ Profiles \subseteq [connection : Direct \cup {"usb"},
                         fallback : Direct \cup {None},
                         libusb : BOOLEAN]

Threads == (1..Jobs) \X (0..(Copies - 1))

VARIABLES
  profile,  \* connection, usb_fallback_target, and whether libusb is built in
  job,      \* the job being delivered
  copy,     \* copies of it delivered so far
  at,       \* the caller's place
  route,    \* selected_route
  error,    \* the result the current send is about to return
  chunk,    \* chunks the current network send has handed over
  opened,   \* Windows spooler objects that await their closing call
  usb,      \* the USB threads: place, chunks written, outcome
  holder,   \* the thread that has the interface claimed, or NoThread
  out,      \* what each destination has received
  verdict   \* what send_copies returned for each job

caller == <<job, copy, at, route, error, chunk, opened, verdict>>
vars == <<profile, caller, usb, holder, out>>

-----------------------------------------------------------------------------
(* Results and the failover policy (usb_policy.rs).  An AgentError is the   *)
(* set of the flags it carries.                                             *)

Ok == {"ok"}
Retry == {"retryable"}
Uncertain == {"uncertain"}
Permanent == {}
AgentErrors == {Retry, Uncertain, Permanent}

LibusbErrors == {"Access", "NoDevice", "Busy", "Timeout", "Other"}

\* map(): libusb error to AgentError.
map(e) == IF e \in {"NoDevice", "Busy"} THEN Retry ELSE Permanent

allows_fallback(stage) == stage \in {"PreOpen", "PostOpenPreWrite"}

\* bytes_written_before_failure = None
Unknown == -1

\* UsbFailure::new: only a confirmed zero keeps the pre-write label, and every
\* other stage makes the error uncertain.
UsbFailure(stage, cause, bytes) ==
  LET s == IF allows_fallback(stage) /\ bytes # 0 THEN "Unknown" ELSE stage
  IN  [stage |-> s, bytes |-> bytes,
       cause |-> IF allows_fallback(s) THEN cause ELSE Uncertain]

failure_from_libusb(stage, e, bytes) ==
  UsbFailure(IF e = "Timeout" THEN "Timeout" ELSE stage, map(e), bytes)

\* Mutant: a timeout before the first confirmed byte may fail over.
fallback_decision_timeout(stage, has_target, bytes) ==
  IF ~(allows_fallback(stage) \/ stage = "Timeout") \/ bytes \notin {0, Unknown}
  THEN "Forbid"
  ELSE IF has_target THEN "Auto" ELSE "Ask"

fallback_decision(stage, has_target, bytes) ==
  IF ~allows_fallback(stage) \/ bytes # 0 THEN "Forbid"
  ELSE IF has_target THEN "Auto" ELSE "Ask"

\* into_agent_error
AgentErrorOf(failure, decision) ==
  IF decision = "Forbid" THEN Uncertain ELSE failure.cause

feature_disabled == UsbFailure("PreOpen", Permanent, 0)

-----------------------------------------------------------------------------

\* What a USB thread has put on its channel.
NoOutcome == [stage |-> "pending", bytes |-> 0, cause |-> Ok]
Success == [stage |-> "ok", bytes |-> Chunks, cause |-> Ok]
Unborn == [place |-> "unborn", written |-> 0, outcome |-> NoOutcome]

NoThread == <<0, 0>>
Me == <<job, copy>>

Init ==
  /\ profile \in Profiles
  /\ job = 1
  /\ copy = 0
  /\ at = "copy"
  /\ route = None
  /\ error = Ok
  /\ chunk = 0
  /\ opened = {}
  /\ usb = [t \in Threads |-> Unborn]
  /\ holder = NoThread
  /\ out = [d \in {"usb", "other"} |-> <<>>]
  /\ verdict = [j \in 1..Jobs |-> {None}]

\* Chunk k of thread or copy t reaches the destination d.
Arrives(d, t, k) == out' = [out EXCEPT ![d] = Append(@, <<t, k>>)]

\* The current send goes on at place p, or ends with result r.
Goes(p) == at' = p /\ error' = error
Ends(r) == at' = "sent" /\ error' = r

-----------------------------------------------------------------------------
(* The USB thread (send_bounded, write_all).                                *)

\* Mutant: an early return leaves the interface claimed.
Dies_keeps_claim(t, outcome) ==
  /\ usb' = [usb EXCEPT ![t].place = "gone", ![t].outcome = outcome]
  /\ UNCHANGED holder

\* The thread returns: Claim::drop releases the interface, then the outcome
\* goes into the channel.
Dies(t, outcome) ==
  /\ usb' = [usb EXCEPT ![t].place = "gone", ![t].outcome = outcome]
  /\ holder' = IF holder = t THEN NoThread ELSE holder

\* A failed transfer: the chunk may or may not have reached the printer.
MayArrive(t) ==
  \/ Arrives("usb", t, usb[t].written + 1)
  \/ UNCHANGED out

\* Everything up to and including dev.open().
UsbSelect(t) ==
  /\ usb[t].place = "select"
  /\ \/ usb' = [usb EXCEPT ![t].place = "claim"] /\ UNCHANGED holder
     \/ \E e \in LibusbErrors : Dies(t, failure_from_libusb("PreOpen", e, 0))
     \/ \E cause \in {Retry, Permanent} : Dies(t, UsbFailure("PreOpen", cause, 0))
  /\ UNCHANGED <<profile, caller, out>>

\* Mutant: the interface is used without an exclusive claim.
UsbClaim_shared(t) ==
  /\ usb[t].place = "claim"
  /\ usb' = [usb EXCEPT ![t].place = "alternate"]
  /\ UNCHANGED <<profile, caller, out, holder>>

\* Auto-detach and claim_interface; a claim by another handle is Busy.
UsbClaim(t) ==
  /\ usb[t].place = "claim"
  /\ \/ /\ holder = NoThread
        /\ holder' = t
        /\ usb' = [usb EXCEPT ![t].place = "alternate"]
     \/ \E e \in LibusbErrors :
          Dies(t, failure_from_libusb("PostOpenPreWrite", e, 0))
  /\ UNCHANGED <<profile, caller, out>>

UsbAlternate(t) ==
  /\ usb[t].place = "alternate"
  /\ \/ usb' = [usb EXCEPT ![t].place = "write"] /\ UNCHANGED holder
     \/ \E e \in LibusbErrors :
          Dies(t, failure_from_libusb("PostOpenPreWrite", e, 0))
  /\ UNCHANGED <<profile, caller, out>>

\* One turn of the loop of write_all: the inner deadline, a full transfer, a
\* short one or a failed one; after the last, drop(claim) and Ok.
UsbWrite(t) ==
  /\ usb[t].place = "write"
  /\ LET n == usb[t].written
     IN  \/ /\ n < Chunks
            /\ Arrives("usb", t, n + 1)
            /\ usb' = [usb EXCEPT ![t].written = n + 1]
            /\ UNCHANGED holder
         \/ /\ n < Chunks
            /\ UNCHANGED out
            /\ Dies(t, UsbFailure("Timeout", Permanent, n))
         \/ /\ n < Chunks
            /\ MayArrive(t)
            /\ \/ Dies(t, UsbFailure("MidWrite", Uncertain, n))
               \/ \E e \in LibusbErrors :
                    Dies(t, failure_from_libusb("MidWrite", e, n))
         \/ n = Chunks /\ UNCHANGED out /\ Dies(t, Success)
  /\ UNCHANGED <<profile, caller>>

\* The thread panics: Claim is dropped, the channel disconnects.
UsbPanic(t) ==
  /\ usb[t].place \in {"select", "claim", "alternate", "write"}
  /\ Dies(t, UsbFailure("Unknown", Permanent, Unknown))
  /\ UNCHANGED <<profile, caller, out>>

UsbThread(t) ==
  UsbSelect(t) \/ UsbClaim(t) \/ UsbAlternate(t) \/ UsbWrite(t) \/ UsbPanic(t)

-----------------------------------------------------------------------------
(* The caller: send_once, send_selected_route and the USB failure path.     *)

Entry(r) == CASE r = "network" -> "connect"
              [] r = "winspool" -> "open"
              [] r = "cups" -> "spawn"

send_usb_failure(failure) ==
  LET decision == IF copy > 0 THEN "Forbid"
                  ELSE fallback_decision(failure.stage, profile.fallback # None,
                                         failure.bytes)
  IN  IF decision = "Auto"
      THEN Goes(Entry(profile.fallback)) /\ route' = profile.fallback
      ELSE Ends(AgentErrorOf(failure, decision)) /\ route' = route

OnUsb == IF copy = 0 THEN profile.connection = "usb" ELSE route = "usb"

StartDirect ==
  /\ at = "copy"
  /\ ~OnUsb
  /\ route' = IF copy = 0 THEN profile.connection ELSE route
  /\ Goes(Entry(route'))
  /\ UNCHANGED <<profile, job, copy, chunk, opened, verdict, usb, holder, out>>

\* LibusbTransport::send spawns the bounded worker; the spawn itself may fail.
StartUsb ==
  /\ at = "copy"
  /\ OnUsb
  /\ \/ /\ profile.libusb
        /\ usb' = [usb EXCEPT ![Me].place = "select"]
        /\ route' = "usb"
        /\ Goes("usb_wait")
     \/ /\ profile.libusb
        /\ send_usb_failure(UsbFailure("Unknown", Permanent, Unknown))
        /\ UNCHANGED usb
     \/ /\ ~profile.libusb
        /\ send_usb_failure(feature_disabled)
        /\ UNCHANGED usb
  /\ UNCHANGED <<profile, job, copy, chunk, opened, verdict, holder, out>>

\* recv_timeout returns what the thread sent.
UsbResult ==
  /\ at = "usb_wait"
  /\ usb[Me].place = "gone"
  /\ IF usb[Me].outcome = Success
     THEN Ends(Ok) /\ route' = route
     ELSE send_usb_failure(usb[Me].outcome)
  /\ UNCHANGED <<profile, job, copy, chunk, opened, verdict, usb, holder, out>>

\* Mutant: the caller waits for the thread however long it takes.
UsbDeadline_joins ==
  /\ at = "usb_wait"
  /\ usb[Me].place = "gone"
  /\ send_usb_failure(UsbFailure("Timeout", Permanent, Unknown))
  /\ UNCHANGED <<profile, job, copy, chunk, opened, verdict, usb, holder, out>>

\* SEND_TIMEOUT passes: the thread is abandoned and goes on by itself.
UsbDeadline ==
  /\ at = "usb_wait"
  /\ usb[Me].place # "gone"
  /\ send_usb_failure(UsbFailure("Timeout", Permanent, Unknown))
  /\ UNCHANGED <<profile, job, copy, chunk, opened, verdict, usb, holder, out>>

-----------------------------------------------------------------------------
(* network::send                                                            *)

NetConnect ==
  /\ at = "connect"
  /\ chunk' = 0
  /\ Goes("net_write") \/ \E r \in {Retry, Permanent} : Ends(r)
  /\ UNCHANGED <<profile, job, copy, route, opened, verdict, usb, holder, out>>

\* One turn of the chunk loop, then flush.
NetWrite ==
  /\ at = "net_write"
  /\ \/ /\ chunk < Chunks
        /\ Arrives("other", Me, chunk + 1)
        /\ chunk' = chunk + 1
        /\ Goes("net_write")
     \/ /\ chunk < Chunks
        /\ Arrives("other", Me, chunk + 1) \/ UNCHANGED out
        /\ Ends(Uncertain)
        /\ UNCHANGED chunk
     \/ /\ chunk = Chunks
        /\ Ends(Ok) \/ Ends(Uncertain)
        /\ UNCHANGED <<chunk, out>>
  /\ UNCHANGED <<profile, job, copy, route, opened, verdict, usb, holder>>

-----------------------------------------------------------------------------
(* print_raw_with_api over Win32Spooler.  `opened` holds the handle and the *)
(* flags document_started and page_started; after a failure the same        *)
(* closing calls run as cleanup and the first error is kept.                *)

Win(from) ==
  /\ at = from
  /\ UNCHANGED <<profile, job, copy, route, chunk, verdict, usb, holder>>

WinOpen ==
  /\ Win("open")
  /\ \/ Goes("start_doc") /\ opened' = {"printer"}
     \/ Ends(Retry) /\ UNCHANGED opened
  /\ UNCHANGED out

WinStartDoc ==
  /\ Win("start_doc")
  /\ \/ Goes("start_page") /\ opened' = opened \cup {"doc"}
     \/ at' = "close" /\ error' = Retry /\ UNCHANGED opened
  /\ UNCHANGED out

WinStartPage ==
  /\ Win("start_page")
  /\ \/ Goes("write") /\ opened' = opened \cup {"page"}
     \/ at' = "end_doc" /\ error' = Uncertain /\ UNCHANGED opened
  /\ UNCHANGED out

\* WritePrinter takes everything, a part, or fails having taken a part.
WinWrite ==
  /\ Win("write")
  /\ at' = "end_page"
  /\ \/ /\ out' = [out EXCEPT !["other"] = @ \o [k \in 1..Chunks |-> <<Me, k>>]]
        /\ error' = Ok
     \/ /\ Arrives("other", Me, 1) \/ UNCHANGED out
        /\ error' = Uncertain
  /\ UNCHANGED opened

WinEndPage ==
  /\ Win("end_page")
  /\ at' = "end_doc"
  /\ opened' = opened \ {"page"}
  /\ error' \in IF error = Ok THEN {Ok, Uncertain} ELSE {error}
  /\ UNCHANGED out

WinEndDoc ==
  /\ Win("end_doc")
  /\ at' = "close"
  /\ opened' = opened \ {"doc"}
  /\ error' \in IF error = Ok THEN {Ok, Uncertain} ELSE {error}
  /\ UNCHANGED out

\* Mutant: a failing ClosePrinter after EndDoc is retried like a failing open.
WinClose_retries ==
  /\ Win("close")
  /\ \E r \in IF error = Ok THEN {Ok, Retry} ELSE {error} : Ends(r)
  /\ opened' = opened \ {"printer"}
  /\ UNCHANGED out

WinClose ==
  /\ Win("close")
  /\ \E r \in IF error = Ok THEN {Ok, Uncertain} ELSE {error} : Ends(r)
  /\ opened' = opened \ {"printer"}
  /\ UNCHANGED out

-----------------------------------------------------------------------------
(* CUPS: spawn lp, feed its standard input, wait.  lp hands the job to the  *)
(* queue, and exits with success, only when it has read all of its input.   *)

CupsSpawn ==
  /\ at = "spawn"
  /\ Goes("stdin") \/ Ends(Permanent)
  /\ UNCHANGED <<profile, job, copy, route, chunk, opened, verdict, usb, holder, out>>

\* write_all into the pipe; its error is kept until lp has been waited for.
CupsStdin ==
  /\ at = "stdin"
  /\ at' = "wait"
  /\ error' \in {Ok, Retry}
  /\ UNCHANGED <<profile, job, copy, route, chunk, opened, verdict, usb, holder, out>>

CupsWait ==
  /\ at = "wait"
  /\ LET Accepted == out' = [out EXCEPT !["other"] =
                               @ \o [k \in 1..Chunks |-> <<Me, k>>]]
     IN  \/ error = Ok /\ Accepted /\ Ends(Ok)
         \/ UNCHANGED out /\ Ends(Retry)
         \/ error = Ok /\ Accepted /\ Ends(Uncertain)
         \/ UNCHANGED out /\ Ends(Uncertain)
  /\ UNCHANGED <<profile, job, copy, route, chunk, opened, verdict, usb, holder>>

-----------------------------------------------------------------------------
(* The copies loop.                                                         *)

Sent ==
  /\ at = "sent"
  /\ IF error = Ok /\ copy + 1 < Copies
     THEN copy' = copy + 1 /\ at' = "copy" /\ UNCHANGED verdict
     ELSE /\ verdict' = [verdict EXCEPT ![job] =
                           IF error # Ok /\ copy > 0 THEN Uncertain ELSE error]
          /\ copy' = copy
          /\ at' = "done"
  /\ error' = Ok
  /\ UNCHANGED <<profile, job, route, chunk, opened, usb, holder, out>>

\* The worker claims the printer's next job.
NextJob ==
  /\ at = "done"
  /\ job < Jobs
  /\ job' = job + 1
  /\ copy' = 0
  /\ at' = "copy"
  /\ route' = None
  /\ UNCHANGED <<profile, error, chunk, opened, verdict, usb, holder, out>>

Spool == WinOpen \/ WinStartDoc \/ WinStartPage \/ WinWrite \/ WinEndPage
         \/ WinEndDoc \/ WinClose \/ CupsSpawn \/ CupsStdin

Caller == StartDirect \/ StartUsb \/ UsbResult \/ UsbDeadline \/ NetConnect
          \/ NetWrite \/ Sent \/ NextJob

Next == Caller \/ Spool \/ CupsWait \/ \E t \in Threads : UsbThread(t)

Spec == Init /\ [][Next]_vars

\* The USB wait and every network call have a deadline, and a call into the
\* spooler returns; but nothing makes a USB thread or the program lp end.
FairSpec == Spec /\ WF_vars(Caller) /\ WF_vars(Spool)

-----------------------------------------------------------------------------
Received(d) == {out[d][i] : i \in DOMAIN out[d]}
\* The chunks of job j that destination d has received.
Of(j, d) == {c \in Received(d) : c[1][1] = j}
Document(j) == {<<<<j, n>>, k>> : n \in 0..(Copies - 1), k \in 1..Chunks}

\* What the queue relies on when it decides about a retry: a job reported as
\* delivered has had every chunk of every copy handed to one destination, and a
\* job that failed without the uncertain mark has not put a byte anywhere and
\* never will, not even by a USB thread that was abandoned.
VerdictsAreTrue ==
  \A j \in 1..Jobs :
    /\ verdict[j] = Ok => \E d \in DOMAIN out : Document(j) \subseteq Of(j, d)
    /\ verdict[j] \in {Retry, Permanent} => \A d \in DOMAIN out : Of(j, d) = {}

\* No job is ever split or repeated over the USB printer and its fallback, at
\* whatever moment the abandoned USB thread wakes up.
OneRoute ==
  \A j \in 1..Jobs : Of(j, "usb") = {} \/ Of(j, "other") = {}

\* No destination receives a chunk twice, the chunks of one copy arrive in their
\* order, and the receipts of two jobs are never mixed on the USB printer: between
\* two chunks of one copy there is no chunk of another.
ReceiptsIntact ==
  \A d \in DOMAIN out : \A i, k \in DOMAIN out[d] :
    i < k /\ out[d][i][1] = out[d][k][1] =>
      /\ out[d][i][2] < out[d][k][2]
      /\ d = "usb" => \A m \in i..k : out[d][m][1] = out[d][i][1]

\* What was opened is closed on every path: when a send has ended there is no
\* open page, document or printer handle of the spooler, and once a USB thread is
\* gone it holds no claim on the interface.
NothingLeftOpen ==
  /\ at \in {"copy", "usb_wait", "connect", "net_write", "open", "spawn", "stdin",
             "wait", "sent", "done"} => opened = {}
  /\ holder # NoThread => usb[holder].place \in {"alternate", "write"}

\* A device that does not answer cannot stop the queue: every job of the printer
\* gets its verdict ("a slow send can delay other printers for its bounded
\* timeout", docs/architecture.md).
EveryJobReturns == <>(\A j \in 1..Jobs : verdict[j] # {None})

\* The same for the profiles that do not use CUPS: a USB thread that hangs, a
\* silent network printer and a busy spooler all let the caller go on.
HangsAreBounded ==
  "cups" \notin {profile.connection, profile.fallback} => EveryJobReturns
=============================================================================
