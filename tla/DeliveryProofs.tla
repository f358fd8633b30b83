--------------------------- MODULE DeliveryProofs ---------------------------
(***************************************************************************)
(* Machine-checked proofs about the delivery of print jobs, for any number *)
(* of jobs, copies and chunks and any printer profiles.                    *)
(***************************************************************************)
EXTENDS Delivery, TLAPS

\* The provers tried in turn at a leaf that names none.
USE SMT, Zenon, SMTT(20)

----------------------------------------------------------------------------
(* Lists of anything.                                                      *)

IsSeq(s) == \E S : s \in Seq(S)

LEMMA SeqFacts ==
  ASSUME NEW s, IsSeq(s)
  PROVE  Len(s) \in Nat /\ DOMAIN s = 1..Len(s)
BY DEF IsSeq

LEMMA SeqAppend ==
  ASSUME NEW s, IsSeq(s), NEW x
  PROVE  /\ IsSeq(Append(s, x))
         /\ Len(Append(s, x)) = Len(s) + 1
         /\ DOMAIN Append(s, x) = DOMAIN s \cup {Len(s) + 1}
         /\ Len(s) + 1 \notin DOMAIN s
         /\ Append(s, x)[Len(s) + 1] = x
         /\ \A i \in DOMAIN s : Append(s, x)[i] = s[i]
<1>1. PICK S : s \in Seq(S)
  BY DEF IsSeq
<1>2. s \in Seq(S \cup {x})
  BY <1>1
<1>3. Append(s, x) \in Seq(S \cup {x})
  BY <1>2
<1> QED
  BY <1>2, <1>3 DEF IsSeq

----------------------------------------------------------------------------
(* The inductive invariant.                                                *)

UsbOut == Received("usb")
OtherOut == Received("other")

\* The set S holds no chunk of copy t, or all of them.
Silent(S, t) == \A c \in S : c[1] # t
Full(S, t) == \A k \in 1..Chunks : <<t, k>> \in S

\* A failure after which send_usb_failure may use the fallback.
Mild(o) == allows_fallback(o.stage) /\ o.bytes = 0

\* What a USB thread has done is what its place and its outcome say.
ThreadOK(u, t, S) ==
  /\ DOMAIN u = {"place", "written", "outcome"}
  /\ u.place \in {"unborn", "select", "claim", "alternate", "write", "gone"}
  /\ u.written \in 0..Chunks
  /\ u.place \in {"unborn", "select", "claim", "alternate"} => Silent(S, t) /\ u.written = 0
  /\ u.place = "write" => \A k \in 1..u.written : <<t, k>> \in S
  /\ u.place = "gone" =>
       /\ u.outcome = Success => Full(S, t)
       /\ u.outcome # Success => u.outcome.cause \in AgentErrors
       /\ Mild(u.outcome) => Silent(S, t)

\* The thread has put nothing out, and never will.
Dead(us, S, t) == us[t].place \in {"unborn", "gone"} /\ Silent(S, t)

DeadJob(us, S, j) == \A n \in 0..(Copies - 1) : Dead(us, S, <<j, n>>)

\* The caller, at copy n of job j, has not come to copy t yet.
Ahead(t, j, n) == t[1] > j \/ (t[1] = j /\ t[2] > n)

TypeInv ==
  /\ profile \in Profiles
  /\ job \in 1..Jobs /\ copy \in 0..(Copies - 1)
  /\ route \in Direct \cup {None, "usb"}
  /\ error \in AgentErrors \cup {Ok}
  /\ chunk \in 0..Chunks
  /\ DOMAIN usb = Threads
  /\ DOMAIN verdict = 1..Jobs
  /\ DOMAIN out = {"usb", "other"} /\ IsSeq(out["usb"]) /\ IsSeq(out["other"])
  /\ \A c \in UsbOut \cup OtherOut : c[1] \in Threads /\ ~Ahead(c[1], job, copy)

ThreadsInv ==
  \A t \in Threads :
    /\ ThreadOK(usb[t], t, UsbOut)
    /\ Ahead(t, job, copy) \/ (t = Me /\ at = "copy") => usb[t].place = "unborn"

\* The job in hand: it is on one route, and what is on the other destination
\* comes from no USB thread.
RouteInv ==
  /\ at \notin {"copy", "usb_wait", "sent", "done"} => route \in Direct
  /\ at = "usb_wait" => route = "usb"
  /\ copy > 0 => route # None
  /\ route \in Direct => DeadJob(usb, UsbOut, job)
  /\ \A c \in OtherOut : c[1][1] = job => route \in Direct
  /\ \A n \in 0..(copy - 1) :
       Full(IF route = "usb" THEN UsbOut ELSE OtherOut, <<job, n>>)

\* The copy in hand, place by place.
CopyInv ==
  /\ at \in {"copy", "usb_wait", "connect", "net_write", "open", "start_doc", "start_page", "write",
             "end_page", "end_doc", "close", "spawn", "stdin", "wait", "sent", "done"}
  /\ at \notin {"sent", "end_page", "end_doc", "close", "wait"} => error = Ok
  /\ at \in {"copy", "usb_wait", "connect", "open", "start_doc", "start_page", "write", "spawn", "stdin", "wait"}
       => Silent(OtherOut, Me)
  /\ at = "net_write" => \A k \in 1..chunk : <<Me, k>> \in OtherOut
  /\ at \in {"end_page", "end_doc", "close"} =>
       /\ error = Ok => Full(OtherOut, Me)
       /\ error \in {Retry, Permanent} => Silent(OtherOut, Me)
  /\ at = "sent" =>
       /\ error = Ok => route # None /\ Full(IF route = "usb" THEN UsbOut ELSE OtherOut, Me)
       /\ error \in {Retry, Permanent} /\ copy = 0 => Silent(OtherOut, Me) /\ Dead(usb, UsbOut, Me)

\* The jobs that have their verdict.
VerdictInv ==
  \A j \in 1..Jobs :
    /\ verdict[j] # {None} => j < job \/ (j = job /\ at = "done")
    /\ verdict[j] = Ok => \E S \in {UsbOut, OtherOut} : \A n \in 0..(Copies - 1) : Full(S, <<j, n>>)
    /\ verdict[j] \in {Retry, Permanent} =>
         DeadJob(usb, UsbOut, j) /\ \A c \in OtherOut : c[1][1] # j
    /\ j < job /\ (\E c \in OtherOut : c[1][1] = j) => DeadJob(usb, UsbOut, j)

DeliveryInv == TypeInv /\ ThreadsInv /\ RouteInv /\ CopyInv /\ VerdictInv

----------------------------------------------------------------------------
(* Facts about the operators.                                              *)

LEMMA Flags ==
  /\ Ok # Retry /\ Ok # Uncertain /\ Ok # Permanent
  /\ Retry # Uncertain /\ Permanent # Uncertain
  /\ {None} \notin {Ok, Retry, Uncertain, Permanent}
<1>1. "ok" \in Ok /\ "retryable" \in Retry /\ "uncertain" \in Uncertain /\ None \in {None}
  BY DEF Ok, Retry, Uncertain
<1>2. "ok" \notin Retry \cup Uncertain \cup Permanent \cup {None}
  BY DEF Retry, Uncertain, Permanent, None
<1>3. "uncertain" \notin Retry \cup Permanent \cup {None} /\ "retryable" \notin {None} /\ None \notin Permanent
  BY DEF Retry, Permanent, None
<1> QED
  BY <1>1, <1>2, <1>3

\* What the invariant says of one job's verdict.
LEMMA VerdictAt ==
  ASSUME DeliveryInv, NEW j \in 1..Jobs
  PROVE  /\ verdict[j] # {None} => j < job \/ (j = job /\ at = "done")
         /\ verdict[j] = Ok => \E S \in {UsbOut, OtherOut} : \A n \in 0..(Copies - 1) : Full(S, <<j, n>>)
         /\ verdict[j] \in {Retry, Permanent} =>
              DeadJob(usb, UsbOut, j) /\ \A c \in OtherOut : c[1][1] # j
         /\ j < job /\ (\E c \in OtherOut : c[1][1] = j) => DeadJob(usb, UsbOut, j)
BY Zenon DEF DeliveryInv, VerdictInv

\* UsbFailure keeps a pre-write label only for a confirmed zero.
LEMMA FailureFacts ==
  ASSUME NEW stage, stage # "ok", NEW cause \in AgentErrors, NEW bytes
  PROVE  /\ UsbFailure(stage, cause, bytes) # Success
         /\ UsbFailure(stage, cause, bytes).cause \in AgentErrors
         /\ Mild(UsbFailure(stage, cause, bytes)) => allows_fallback(stage) /\ bytes = 0
<1> DEFINE s == IF allows_fallback(stage) /\ bytes # 0 THEN "Unknown" ELSE stage
           f == UsbFailure(stage, cause, bytes)
<1>1. /\ f.stage = s /\ f.bytes = bytes
      /\ f.cause = IF allows_fallback(s) THEN cause ELSE Uncertain
  BY DEF UsbFailure
<1>2. s # "ok" /\ Success.stage = "ok"
  BY DEF Success
<1>3. Uncertain \in AgentErrors
  BY DEF AgentErrors
<1> HIDE DEF f
<1>4. f # Success
  BY <1>1, <1>2
<1>5. Mild(f) => allows_fallback(stage) /\ bytes = 0
  BY <1>1 DEF Mild, allows_fallback
<1> QED
  BY <1>1, <1>3, <1>4, <1>5 DEF f

LEMMA LibusbFacts ==
  ASSUME NEW stage, stage # "ok", NEW e, NEW bytes
  PROVE  /\ failure_from_libusb(stage, e, bytes) # Success
         /\ failure_from_libusb(stage, e, bytes).cause \in AgentErrors
         /\ Mild(failure_from_libusb(stage, e, bytes)) => allows_fallback(stage) /\ bytes = 0
<1> DEFINE s == IF e = "Timeout" THEN "Timeout" ELSE stage
<1>1. map(e) \in AgentErrors
  BY DEF map, AgentErrors
<1>2. s # "ok" /\ (allows_fallback(s) => allows_fallback(stage))
  BY DEF allows_fallback
<1>3. failure_from_libusb(stage, e, bytes) = UsbFailure(s, map(e), bytes)
  BY DEF failure_from_libusb
<1> HIDE DEF s
<1> QED
  BY <1>1, <1>2, <1>3, FailureFacts

Elems(s) == {s[i] : i \in DOMAIN s}

LEMMA ElemsAppend ==
  ASSUME NEW s, IsSeq(s), NEW x
  PROVE  IsSeq(Append(s, x)) /\ Elems(Append(s, x)) = Elems(s) \cup {x}
<1>1. /\ IsSeq(Append(s, x))
      /\ DOMAIN Append(s, x) = DOMAIN s \cup {Len(s) + 1}
      /\ Append(s, x)[Len(s) + 1] = x
      /\ \A i \in DOMAIN s : Append(s, x)[i] = s[i]
  BY SeqAppend
<1> QED
  BY <1>1 DEF Elems

\* A whole document, and its chunks.
DocumentOf(t) == [k \in 1..Chunks |-> <<t, k>>]
Whole(t) == {<<t, k>> : k \in 1..Chunks}

\* It arrives at once.
LEMMA ElemsConcat ==
  ASSUME NEW s, IsSeq(s), NEW t
  PROVE  IsSeq(s \o DocumentOf(t)) /\ Elems(s \o DocumentOf(t)) = Elems(s) \cup Whole(t)
<1> DEFINE n == Chunks
           doc == [k \in 1..n |-> <<t, k>>]
           chunks == {<<t, k>> : k \in 1..n}
<1>0. n \in Nat /\ DocumentOf(t) = doc /\ Whole(t) = chunks
  BY DeliveryConstants DEF DocumentOf, Whole
<1> HIDE DEF n
<1>1. doc \in Seq(chunks) /\ Len(doc) = n
  BY <1>0
<1>2. PICK S : s \in Seq(S)
  BY DEF IsSeq
<1>3. s \in Seq(S \cup chunks) /\ doc \in Seq(S \cup chunks)
  BY <1>1, <1>2
<1>4. s \o doc \in Seq(S \cup chunks)
  BY <1>3
<1>5. /\ DOMAIN (s \o doc) = 1..(Len(s) + n) /\ Len(s) \in Nat /\ DOMAIN s = 1..Len(s)
      /\ \A i \in 1..Len(s) : (s \o doc)[i] = s[i]
      /\ \A i \in (Len(s) + 1)..(Len(s) + n) : (s \o doc)[i] = doc[i - Len(s)]
  BY <1>0, <1>1, <1>3
<1>6. Elems(s \o doc) \subseteq Elems(s) \cup chunks
  <2> SUFFICES ASSUME NEW i \in 1..(Len(s) + n)
               PROVE  (s \o doc)[i] \in Elems(s) \cup chunks
    BY <1>5, Zenon DEF Elems
  <2>1. CASE i \in 1..Len(s)
    BY <1>5, <2>1 DEF Elems
  <2>2. CASE i \in (Len(s) + 1)..(Len(s) + n)
    <3>1. i - Len(s) \in 1..n /\ (s \o doc)[i] = doc[i - Len(s)]
      BY <1>0, <1>5, <2>2
    <3> QED
      BY <3>1, Zenon
  <2>3. i \in 1..Len(s) \/ i \in (Len(s) + 1)..(Len(s) + n)
    BY <1>0, <1>5
  <2> QED
    BY <2>1, <2>2, <2>3, Zenon
<1>7. Elems(s) \subseteq Elems(s \o doc)
  BY <1>0, <1>5 DEF Elems
<1>8. ASSUME NEW k \in 1..n PROVE <<t, k>> \in Elems(s \o doc)
  <2>1. Len(s) + k \in DOMAIN (s \o doc) /\ (s \o doc)[Len(s) + k] = <<t, k>>
    BY <1>0, <1>5
  <2> QED
    BY <2>1, Zenon DEF Elems
<1>9. IsSeq(s \o doc)
  BY <1>4, Zenon DEF IsSeq
<1> QED
  BY <1>0, <1>6, <1>7, <1>8, <1>9

----------------------------------------------------------------------------
(* A step of a USB thread.                                                 *)

LEMMA DiesFacts ==
  ASSUME ThreadsInv, DOMAIN usb = Threads, NEW t \in Threads, NEW o, Dies(t, o)
  PROVE  /\ DOMAIN usb' = Threads /\ \A q \in Threads : q # t => usb'[q] = usb[q]
         /\ DOMAIN usb'[t] = {"place", "written", "outcome"}
         /\ usb'[t].place = "gone" /\ usb'[t].written = usb[t].written /\ usb'[t].outcome = o
<1>1. DOMAIN usb[t] = {"place", "written", "outcome"}
  BY DEF ThreadsInv, ThreadOK
<1> QED
  BY <1>1 DEF Dies

LEMMA UsbArrives ==
  ASSUME TypeInv, NEW t, NEW k, Arrives("usb", t, k)
  PROVE  /\ DOMAIN out' = {"usb", "other"} /\ IsSeq(out'["usb"]) /\ out'["other"] = out["other"]
         /\ UsbOut' = UsbOut \cup {<<t, k>>}
<1>1. out' = [out EXCEPT !["usb"] = Append(out["usb"], <<t, k>>)]
  BY DEF Arrives
<1>2. /\ DOMAIN out' = {"usb", "other"} /\ out'["other"] = out["other"]
      /\ out'["usb"] = Append(out["usb"], <<t, k>>)
  BY <1>1 DEF TypeInv
<1>3. UsbOut = Elems(out["usb"]) /\ UsbOut' = Elems(out'["usb"])
  BY DEF UsbOut, Received, Elems
<1> QED
  BY <1>2, <1>3, ElemsAppend DEF TypeInv

\* What a thread may do: it is alive, it changes its own state and keeps to what
\* this says, and it adds at most one chunk of its own.
LEMMA ThreadStep ==
  ASSUME TypeInv, ThreadsInv, NEW t \in Threads, UsbThread(t)
  PROVE  /\ UNCHANGED <<profile, caller>>
         /\ usb[t].place \notin {"unborn", "gone"} /\ usb'[t].place # "unborn"
         /\ DOMAIN usb' = Threads /\ \A q \in Threads : q # t => usb'[q] = usb[q]
         /\ DOMAIN out' = {"usb", "other"} /\ IsSeq(out'["usb"]) /\ out'["other"] = out["other"]
         /\ UsbOut' = UsbOut \/ \E k : UsbOut' = UsbOut \cup {<<t, k>>}
         /\ ThreadOK(usb'[t], t, UsbOut')
<1> DEFINE Result ==
      /\ usb'[t].place # "unborn"
      /\ DOMAIN usb' = Threads /\ \A q \in Threads : q # t => usb'[q] = usb[q]
      /\ DOMAIN out' = {"usb", "other"} /\ IsSeq(out'["usb"]) /\ out'["other"] = out["other"]
      /\ UsbOut' = UsbOut \/ \E k : UsbOut' = UsbOut \cup {<<t, k>>}
      /\ ThreadOK(usb'[t], t, UsbOut')
<1>1. UNCHANGED <<profile, caller>> /\ usb[t].place \notin {"unborn", "gone"}
  BY DEF UsbThread, UsbSelect, UsbClaim, UsbAlternate, UsbWrite, UsbPanic
<1> SUFFICES Result
  BY Zenon, <1>1
<1>2. /\ ThreadOK(usb[t], t, UsbOut) /\ DOMAIN usb = Threads
      /\ DOMAIN usb[t] = {"place", "written", "outcome"} /\ usb[t].written \in 0..Chunks
  BY DEF TypeInv, ThreadsInv, ThreadOK
<1>3. ASSUME UNCHANGED out
      PROVE  /\ DOMAIN out' = {"usb", "other"} /\ IsSeq(out'["usb"]) /\ out'["other"] = out["other"]
             /\ UsbOut' = UsbOut
  BY Zenon, <1>3 DEF TypeInv, UsbOut, Received
\* The thread goes on to the next place before the writing.
<1>4. ASSUME NEW p \in {"claim", "alternate", "write"}, usb' = [usb EXCEPT ![t].place = p], UNCHANGED out,
             usb[t].place \in {"select", "claim", "alternate"}
      PROVE  Result
  <2>1. /\ DOMAIN usb' = Threads /\ \A q \in Threads : q # t => usb'[q] = usb[q]
        /\ DOMAIN usb'[t] = {"place", "written", "outcome"}
        /\ usb'[t].place = p /\ usb'[t].written = usb[t].written
    BY <1>2, <1>4
  <2>2. ThreadOK(usb'[t], t, UsbOut)
    BY <1>2, <1>4, <2>1 DEF ThreadOK
  <2> QED
    BY <1>3, <1>4, <2>1, <2>2
\* It ends without a byte of its own, before the writing.
<1>5. ASSUME NEW o, Dies(t, o), UNCHANGED out, o # Success, o.cause \in AgentErrors,
             Mild(o) => Silent(UsbOut, t)
      PROVE  Result
  <2>1. /\ DOMAIN usb' = Threads /\ \A q \in Threads : q # t => usb'[q] = usb[q]
        /\ DOMAIN usb'[t] = {"place", "written", "outcome"}
        /\ usb'[t].place = "gone" /\ usb'[t].written = usb[t].written /\ usb'[t].outcome = o
    BY Zenon, <1>2, <1>5, DiesFacts
  <2>2. ThreadOK(usb'[t], t, UsbOut)
    BY Zenon, <1>2, <1>5, <2>1 DEF ThreadOK
  <2> QED
    BY Zenon, <1>3, <1>5, <2>1, <2>2
<1>6. usb[t].place \in {"select", "claim", "alternate"} => Silent(UsbOut, t)
  BY Zenon, <1>2 DEF ThreadOK
<1>7. Retry \in AgentErrors /\ Permanent \in AgentErrors /\ Uncertain \in AgentErrors
  BY DEF AgentErrors
<1> HIDE DEF Result
<1>8. CASE UsbSelect(t)
  BY <1>4, <1>5, <1>6, <1>7, <1>8, FailureFacts, LibusbFacts, Zenon DEF UsbSelect
<1>9. CASE UsbClaim(t)
  BY <1>4, <1>5, <1>6, <1>9, LibusbFacts, Zenon DEF UsbClaim
<1>10. CASE UsbAlternate(t)
  BY <1>4, <1>5, <1>6, <1>10, LibusbFacts, Zenon DEF UsbAlternate
<1>11. CASE UsbPanic(t)
  <2>1. ~allows_fallback("Unknown")
    BY DEF allows_fallback
  <2>2. Dies(t, UsbFailure("Unknown", Permanent, Unknown)) /\ UNCHANGED out
    BY Zenon, <1>11 DEF UsbPanic
  <2> DEFINE o == UsbFailure("Unknown", Permanent, Unknown)
  <2>3. o # Success /\ o.cause \in AgentErrors /\ ~Mild(o)
    BY <1>7, <2>1, FailureFacts
  <2> HIDE DEF o
  <2> QED
    BY <1>5, <2>2, <2>3 DEF o
\* It ends in the middle of the writing; the chunk may have arrived.
<1>12. ASSUME NEW o, Dies(t, o), o # Success, o.cause \in AgentErrors, ~Mild(o),
              UNCHANGED out \/ \E k : Arrives("usb", t, k)
       PROVE  Result
  <2>1. CASE UNCHANGED out
    BY <1>5, <1>12, <2>1
  <2>2. ASSUME NEW k, Arrives("usb", t, k) PROVE Result
    <3>1. /\ DOMAIN usb' = Threads /\ \A q \in Threads : q # t => usb'[q] = usb[q]
          /\ DOMAIN usb'[t] = {"place", "written", "outcome"}
          /\ usb'[t].place = "gone" /\ usb'[t].written = usb[t].written /\ usb'[t].outcome = o
      BY Zenon, <1>2, <1>12, DiesFacts
    <3>2. /\ DOMAIN out' = {"usb", "other"} /\ IsSeq(out'["usb"]) /\ out'["other"] = out["other"]
          /\ UsbOut' = UsbOut \cup {<<t, k>>}
      BY <2>2, UsbArrives
    <3>3. ThreadOK(usb'[t], t, UsbOut')
      BY Zenon, <1>2, <1>12, <3>1 DEF ThreadOK
    <3> QED
      BY <3>1, <3>2, <3>3 DEF Result
  <2> QED
    BY <1>12, <2>1, <2>2
<1>13. CASE UsbWrite(t)
  <2> DEFINE n == usb[t].written
  <2>0. usb[t].place = "write" /\ n \in 0..Chunks /\ \A k \in 1..n : <<t, k>> \in UsbOut
    BY <1>2, <1>13 DEF UsbWrite, ThreadOK
  <2>1. CASE n < Chunks /\ Arrives("usb", t, n + 1) /\ usb' = [usb EXCEPT ![t].written = n + 1]
    <3>1. /\ DOMAIN usb' = Threads /\ \A q \in Threads : q # t => usb'[q] = usb[q]
          /\ DOMAIN usb'[t] = {"place", "written", "outcome"}
          /\ usb'[t].place = "write" /\ usb'[t].written = n + 1
      BY <1>2, <2>0, <2>1
    <3>2. /\ DOMAIN out' = {"usb", "other"} /\ IsSeq(out'["usb"]) /\ out'["other"] = out["other"]
          /\ UsbOut' = UsbOut \cup {<<t, n + 1>>}
      BY <2>1, UsbArrives
    <3>3. n + 1 \in 0..Chunks /\ \A k \in 1..(n + 1) : <<t, k>> \in UsbOut'
      <4>1. \A k \in 1..(n + 1) : k \in 1..n \/ k = n + 1
        BY <2>0
      <4>2. n + 1 \in 0..Chunks
        BY <2>0, <2>1, DeliveryConstants
      <4> HIDE DEF n
      <4> QED
        BY <2>0, <3>2, <4>1, <4>2
    <3>4. ThreadOK(usb'[t], t, UsbOut')
      BY <3>1, <3>3 DEF ThreadOK
    <3> HIDE DEF n
    <3> QED
      BY Zenon, <3>1, <3>2, <3>4 DEF Result
  <2>2. ASSUME NEW stage \in {"Timeout", "MidWrite"}, NEW cause \in AgentErrors
        PROVE  LET o == UsbFailure(stage, cause, n) IN o # Success /\ o.cause \in AgentErrors /\ ~Mild(o)
    BY FailureFacts DEF allows_fallback
  <2>3. ASSUME NEW e
        PROVE  LET o == failure_from_libusb("MidWrite", e, n) IN o # Success /\ o.cause \in AgentErrors /\ ~Mild(o)
    BY LibusbFacts DEF allows_fallback
  <2>4. CASE UNCHANGED out /\ Dies(t, UsbFailure("Timeout", Permanent, n))
    BY Zenon, <1>7, <1>12, <2>2, <2>4
  <2>5. CASE MayArrive(t) /\ Dies(t, UsbFailure("MidWrite", Uncertain, n))
    BY <1>7, <1>12, <2>2, <2>5 DEF MayArrive
  <2>6. ASSUME NEW e, MayArrive(t), Dies(t, failure_from_libusb("MidWrite", e, n)) PROVE Result
    BY <1>12, <2>3, <2>6 DEF MayArrive
  <2>7. CASE n = Chunks /\ UNCHANGED out /\ Dies(t, Success)
    <3>1. /\ DOMAIN usb' = Threads /\ \A q \in Threads : q # t => usb'[q] = usb[q]
          /\ DOMAIN usb'[t] = {"place", "written", "outcome"}
          /\ usb'[t].place = "gone" /\ usb'[t].written = usb[t].written /\ usb'[t].outcome = Success
      BY Zenon, <1>2, <2>7, DiesFacts
    <3>2. ~Mild(Success)
      BY DEF Mild, Success, allows_fallback
    <3>3. ThreadOK(usb'[t], t, UsbOut)
      BY Zenon, <1>2, <2>0, <2>7, <3>1, <3>2 DEF ThreadOK, Full
    <3> QED
      BY Zenon, <1>3, <2>7, <3>1, <3>3 DEF Result
  <2> QED
    BY <1>13, <2>1, <2>4, <2>5, <2>6, <2>7 DEF UsbWrite
<1> QED
  BY <1>8, <1>9, <1>10, <1>11, <1>13 DEF UsbThread

LEMMA ThreadKeeps ==
  ASSUME DeliveryInv, NEW t \in Threads, UsbThread(t)
  PROVE  DeliveryInv'
<1>1. /\ UNCHANGED <<profile, job, copy, at, route, error, chunk, opened, verdict>>
      /\ usb[t].place \notin {"unborn", "gone"} /\ usb'[t].place # "unborn"
      /\ DOMAIN usb' = Threads /\ \A q \in Threads : q # t => usb'[q] = usb[q]
      /\ DOMAIN out' = {"usb", "other"} /\ IsSeq(out'["usb"]) /\ out'["other"] = out["other"]
      /\ UsbOut' = UsbOut \/ \E k : UsbOut' = UsbOut \cup {<<t, k>>}
      /\ ThreadOK(usb'[t], t, UsbOut')
  BY ThreadStep, Zenon DEF DeliveryInv, caller
<1>2. OtherOut' = OtherOut
  BY <1>1 DEF OtherOut, Received
<1>3. UsbOut \subseteq UsbOut' /\ \A c \in UsbOut' : c \in UsbOut \/ c[1] = t
  BY <1>1
<1>4. ~Ahead(t, job, copy) /\ ~(t = Me /\ at = "copy")
  BY <1>1 DEF DeliveryInv, ThreadsInv
<1>5. \A q : q # t /\ Silent(UsbOut, q) => Silent(UsbOut', q)
  BY <1>3 DEF Silent
<1>6. \A q : Full(UsbOut, q) => Full(UsbOut', q)
  BY <1>3 DEF Full
<1>7. \A q \in Threads : Dead(usb, UsbOut, q) => Dead(usb', UsbOut', q)
  BY Zenon, <1>1, <1>5 DEF Dead
<1>8. \A j \in 1..Jobs : DeadJob(usb, UsbOut, j) => DeadJob(usb', UsbOut', j)
  BY <1>7 DEF DeadJob, Threads
<1>9. job \in 1..Jobs /\ Me \in Threads /\ Me' = Me
  BY <1>1 DEF DeliveryInv, TypeInv, Me, Threads
<1>10. TypeInv'
  BY <1>1, <1>2, <1>3, <1>4 DEF DeliveryInv, TypeInv
<1>11. ThreadsInv'
  <2> SUFFICES ASSUME NEW q \in Threads
               PROVE  /\ ThreadOK(usb'[q], q, UsbOut')
                      /\ Ahead(q, job, copy) \/ (q = Me /\ at = "copy") => usb'[q].place = "unborn"
    BY <1>1, <1>9 DEF ThreadsInv
  <2>1. CASE q = t
    BY Zenon, <1>1, <1>4, <2>1
  <2>2. CASE q # t
    <3>1. usb'[q] = usb[q] /\ ThreadOK(usb[q], q, UsbOut)
      BY <1>1, <2>2 DEF DeliveryInv, ThreadsInv
    <3>2. ThreadOK(usb[q], q, UsbOut')
      BY Zenon, <1>3, <1>5, <1>6, <2>2, <3>1 DEF ThreadOK
    <3> QED
      BY Zenon, <3>1, <3>2 DEF DeliveryInv, ThreadsInv
  <2> QED
    BY Zenon, <2>1, <2>2
<1>12. RouteInv'
  BY Zenon, <1>1, <1>2, <1>6, <1>8, <1>9 DEF DeliveryInv, RouteInv
<1>13. CopyInv'
  BY Zenon, <1>1, <1>2, <1>6, <1>7, <1>9 DEF DeliveryInv, CopyInv
<1>14. VerdictInv'
  BY <1>1, <1>2, <1>6, <1>8 DEF DeliveryInv, VerdictInv
<1> QED
  BY <1>10, <1>11, <1>12, <1>13, <1>14 DEF DeliveryInv

----------------------------------------------------------------------------
(* A step of the caller on the network, the Windows spooler or CUPS.       *)

\* The step adds the chunks S, and no others, to what the destination that is
\* not the USB printer has received.
Adds(S) ==
  /\ DOMAIN out' = {"usb", "other"} /\ IsSeq(out'["other"]) /\ out'["usb"] = out["usb"]
  /\ OtherOut' = OtherOut \cup S

LEMMA NothingAdded ==
  ASSUME TypeInv, UNCHANGED out
  PROVE  Adds({})
BY DEF TypeInv, Adds, OtherOut, Received

LEMMA ChunkAdded ==
  ASSUME TypeInv, NEW t, NEW k, Arrives("other", t, k)
  PROVE  Adds({<<t, k>>})
<1>1. out' = [out EXCEPT !["other"] = Append(out["other"], <<t, k>>)]
  BY DEF Arrives
<1>2. /\ DOMAIN out' = {"usb", "other"} /\ out'["usb"] = out["usb"]
      /\ out'["other"] = Append(out["other"], <<t, k>>)
  BY <1>1 DEF TypeInv
<1>3. OtherOut = Elems(out["other"]) /\ OtherOut' = Elems(out'["other"])
  BY DEF OtherOut, Received, Elems
<1> QED
  BY <1>2, <1>3, ElemsAppend DEF TypeInv, Adds

LEMMA DocumentAdded ==
  ASSUME TypeInv, out' = [out EXCEPT !["other"] = @ \o [k \in 1..Chunks |-> <<Me, k>>]]
  PROVE  Adds(Whole(Me))
<1>1. /\ DOMAIN out' = {"usb", "other"} /\ out'["usb"] = out["usb"]
      /\ out'["other"] = out["other"] \o DocumentOf(Me)
  BY Zenon DEF TypeInv, DocumentOf
<1>2. OtherOut = Elems(out["other"]) /\ OtherOut' = Elems(out'["other"])
  BY DEF OtherOut, Received, Elems
<1> QED
  BY <1>1, <1>2, ElemsConcat, Zenon DEF TypeInv, Adds

\* The places of a send on a direct route.
Sending == {"connect", "net_write", "open", "start_doc", "start_page", "write", "end_page", "end_doc", "close",
            "spawn", "stdin", "wait"}

\* Such a step keeps the invariant if it keeps what the place says of the copy.
LEMMA SendingKeeps ==
  ASSUME DeliveryInv, at \in Sending, at' \in Sending \cup {"sent"},
         UNCHANGED <<profile, job, copy, route, verdict, usb>>,
         chunk' \in 0..Chunks, error' \in AgentErrors \cup {Ok},
         NEW S, Adds(S), \A c \in S : c[1] = Me, CopyInv'
  PROVE  DeliveryInv'
<1>1. UsbOut' = UsbOut
  BY DEF Adds, UsbOut, Received
<1>2. OtherOut \subseteq OtherOut' /\ \A c \in OtherOut' : c \in OtherOut \/ c[1] = Me
  BY DEF Adds
<1>3. route \in Direct /\ at \notin {"copy", "usb_wait", "sent", "done"} /\ at' \notin {"copy", "usb_wait", "done"}
  BY DEF DeliveryInv, RouteInv, Sending
<1>4. Me' = Me /\ Me \in Threads /\ Me[1] = job /\ Me[2] = copy /\ ~Ahead(Me, job, copy)
  BY DEF DeliveryInv, TypeInv, Me, Threads, Ahead
<1>5. TypeInv'
  BY Zenon, <1>1, <1>2, <1>4 DEF DeliveryInv, TypeInv, Adds
<1>6. ThreadsInv'
  BY Zenon, <1>1, <1>3, <1>4 DEF DeliveryInv, ThreadsInv
<1>7. RouteInv'
  BY <1>1, <1>2, <1>3, <1>4 DEF DeliveryInv, RouteInv, Full
<1>8. VerdictInv'
  <2> SUFFICES ASSUME NEW j \in 1..Jobs
               PROVE  /\ verdict[j] # {None} => j < job
                      /\ verdict[j] = Ok =>
                           \E T \in {UsbOut, OtherOut'} : \A n \in 0..(Copies - 1) : Full(T, <<j, n>>)
                      /\ verdict[j] \in {Retry, Permanent} =>
                           DeadJob(usb, UsbOut, j) /\ \A c \in OtherOut' : c[1][1] # j
                      /\ j < job /\ (\E c \in OtherOut' : c[1][1] = j) => DeadJob(usb, UsbOut, j)
    BY <1>1 DEF VerdictInv
  <2>1. verdict[j] # {None} => j < job
    BY Zenon, <1>3, VerdictAt
  <2>2. verdict[j] = Ok => \E T \in {UsbOut, OtherOut'} : \A n \in 0..(Copies - 1) : Full(T, <<j, n>>)
    <3>1. \A t : Full(OtherOut, t) => Full(OtherOut', t)
      BY <1>2, Zenon DEF Full
    <3> SUFFICES ASSUME verdict[j] = Ok
                 PROVE  \E T \in {UsbOut, OtherOut'} : \A n \in 0..(Copies - 1) : Full(T, <<j, n>>)
      OBVIOUS
    <3>2. PICK U \in {UsbOut, OtherOut} : \A n \in 0..(Copies - 1) : Full(U, <<j, n>>)
      BY VerdictAt, Zenon
    <3>3. CASE U = UsbOut
      BY <3>2, <3>3, Zenon
    <3>4. CASE U = OtherOut
      BY <3>1, <3>2, <3>4, Zenon
    <3> QED
      BY <3>3, <3>4, Zenon
  <2>3. j < job => j # Me[1]
    <3>1. job \in Int
      BY DEF DeliveryInv, TypeInv
    <3> QED
      BY <1>4, <3>1
  <2>4. verdict[j] \in {Retry, Permanent} => DeadJob(usb, UsbOut, j) /\ \A c \in OtherOut' : c[1][1] # j
    <3>1. verdict[j] \in {Retry, Permanent} => verdict[j] # {None}
      BY Zenon, Flags
    <3> QED
      BY Zenon, <1>2, <2>1, <2>3, <3>1, VerdictAt
  <2>5. j < job /\ (\E c \in OtherOut' : c[1][1] = j) => DeadJob(usb, UsbOut, j)
    BY <1>2, <2>3, VerdictAt
  <2> QED
    BY Zenon, <2>1, <2>2, <2>4, <2>5
<1> QED
  BY <1>5, <1>6, <1>7, <1>8 DEF DeliveryInv

LEMMA SendingFacts ==
  ASSUME DeliveryInv, at \in Sending
  PROVE  route \in Direct /\ route # "usb" /\ route # None /\ Dead(usb, UsbOut, Me)
<1>1. route \in Direct /\ DeadJob(usb, UsbOut, job) /\ copy \in 0..(Copies - 1)
  BY Zenon DEF DeliveryInv, TypeInv, RouteInv, Sending
<1> QED
  BY <1>1 DEF DeadJob, Me, Direct, None

\* A send ends with result r.
LEMMA EndsKeeps ==
  ASSUME DeliveryInv, at \in Sending, NEW r \in AgentErrors \cup {Ok}, Ends(r),
         UNCHANGED <<profile, job, copy, route, verdict, usb>>, chunk' \in 0..Chunks,
         NEW S, Adds(S), \A c \in S : c[1] = Me,
         r = Ok => Full(OtherOut \cup S, Me),
         r \in {Retry, Permanent} => Silent(OtherOut \cup S, Me)
  PROVE  DeliveryInv'
<1>1. at' = "sent" /\ error' = r
  BY DEF Ends
<1>2. OtherOut' = OtherOut \cup S /\ UsbOut' = UsbOut /\ Me' = Me
  BY Zenon DEF Adds, UsbOut, Received, Me
<1>3. CopyInv'
  BY <1>1, <1>2, SendingFacts DEF CopyInv
<1> QED
  BY <1>1, <1>3, SendingKeeps

\* A send goes on at place p, with error e in hand, not having put out anything
\* that the place does not speak of.
LEMMA GoesKeeps ==
  ASSUME DeliveryInv, at \in Sending, at' \in Sending, UNCHANGED <<profile, job, copy, route, verdict, usb>>,
         chunk' \in 0..Chunks, error' \in AgentErrors \cup {Ok},
         NEW S, Adds(S), \A c \in S : c[1] = Me,
         at' \notin {"end_page", "end_doc", "close", "wait"} => error' = Ok,
         at' \in {"connect", "open", "start_doc", "start_page", "write", "spawn", "stdin", "wait"}
           => Silent(OtherOut \cup S, Me),
         at' = "net_write" => \A k \in 1..chunk' : <<Me, k>> \in OtherOut \cup S,
         at' \in {"end_page", "end_doc", "close"} =>
           /\ error' = Ok => Full(OtherOut \cup S, Me)
           /\ error' \in {Retry, Permanent} => Silent(OtherOut \cup S, Me)
  PROVE  DeliveryInv'
<1>1. OtherOut' = OtherOut \cup S /\ Me' = Me
  BY Zenon DEF Adds, Me
<1>2. CopyInv'
  BY <1>1 DEF CopyInv, Sending
<1> QED
  BY <1>2, SendingKeeps

LEMMA NetworkKeeps ==
  ASSUME DeliveryInv, NetConnect \/ NetWrite
  PROVE  DeliveryInv'
<1>1. /\ at \in Sending /\ UNCHANGED <<profile, job, copy, route, verdict, usb>> /\ TypeInv
      /\ error = Ok /\ chunk \in 0..Chunks /\ Chunks \in Nat
      /\ {Ok, Retry, Permanent, Uncertain} \subseteq AgentErrors \cup {Ok}
  BY Zenon, DeliveryConstants DEF NetConnect, NetWrite, Sending, DeliveryInv, TypeInv, CopyInv, AgentErrors
<1>2. CASE NetConnect
  <2>1. Adds({}) /\ Silent(OtherOut \cup {}, Me) /\ chunk' = 0
    BY <1>1, <1>2, NothingAdded DEF NetConnect, DeliveryInv, CopyInv
  <2>2. CASE Goes("net_write")
    BY <1>1, <2>1, <2>2, GoesKeeps DEF Goes, Sending
  <2>3. ASSUME NEW r \in {Retry, Permanent}, Ends(r) PROVE DeliveryInv'
    BY <1>1, <2>1, <2>3, EndsKeeps, Flags
  <2> QED
    BY <1>2, <2>2, <2>3 DEF NetConnect
<1>3. CASE NetWrite
  <2>0. \A k \in 1..chunk : <<Me, k>> \in OtherOut
    BY <1>3 DEF NetWrite, DeliveryInv, CopyInv
  <2>1. CASE chunk < Chunks /\ Arrives("other", Me, chunk + 1) /\ chunk' = chunk + 1 /\ Goes("net_write")
    <3>1. Adds({<<Me, chunk + 1>>})
      BY <1>1, <2>1, ChunkAdded
    <3>2. chunk' \in 0..Chunks /\ \A k \in 1..chunk' : k \in 1..chunk \/ k = chunk + 1
      BY <1>1, <2>1
    <3>3. \A k \in 1..chunk' : <<Me, k>> \in OtherOut \cup {<<Me, chunk + 1>>}
      BY <2>0, <3>2
    <3>4. at' = "net_write" /\ error' = Ok /\ \A c \in {<<Me, chunk + 1>>} : c[1] = Me
      BY <1>1, <2>1 DEF Goes
    <3> DEFINE S == {<<Me, chunk + 1>>}
    <3> HIDE DEF S
    <3> QED
      BY <1>1, <3>1, <3>2, <3>3, <3>4, GoesKeeps DEF Sending, S
  <2>2. CASE (Arrives("other", Me, chunk + 1) \/ UNCHANGED out) /\ Ends(Uncertain) /\ UNCHANGED chunk
    <3>1. ASSUME NEW S, Adds(S), \A c \in S : c[1] = Me PROVE DeliveryInv'
      BY <1>1, <2>2, <3>1, EndsKeeps, Flags, Zenon
    <3>2. CASE UNCHANGED out
      BY <1>1, <3>1, <3>2, NothingAdded
    <3>3. CASE Arrives("other", Me, chunk + 1)
      <4>1. Adds({<<Me, chunk + 1>>}) /\ \A c \in {<<Me, chunk + 1>>} : c[1] = Me
        BY <1>1, <3>3, ChunkAdded
      <4> QED
        BY <3>1, <4>1
    <3> QED
      BY <2>2, <3>2, <3>3
  <2>3. CASE chunk = Chunks /\ (Ends(Ok) \/ Ends(Uncertain)) /\ UNCHANGED <<chunk, out>>
    <3>1. Adds({}) /\ Full(OtherOut \cup {}, Me)
      BY <1>1, <2>0, <2>3, NothingAdded DEF Full
    <3> QED
      BY <1>1, <2>3, <3>1, EndsKeeps, Flags
  <2> QED
    BY <1>3, <2>1, <2>2, <2>3 DEF NetWrite
<1> QED
  BY <1>2, <1>3

LEMMA SpoolerKeeps ==
  ASSUME DeliveryInv,
         WinOpen \/ WinStartDoc \/ WinStartPage \/ WinWrite \/ WinEndPage \/ WinEndDoc \/ WinClose
  PROVE  DeliveryInv'
<1>1. /\ at \in Sending /\ UNCHANGED <<profile, job, copy, route, chunk, verdict, usb>> /\ TypeInv
      /\ error \in AgentErrors \cup {Ok} /\ chunk' \in 0..Chunks
      /\ {Ok, Retry, Permanent, Uncertain} \subseteq AgentErrors \cup {Ok}
  BY Zenon DEF WinOpen, WinStartDoc, WinStartPage, WinWrite, WinEndPage, WinEndDoc, WinClose, Win, Sending,
         DeliveryInv, TypeInv, AgentErrors
<1>2. at \in {"open", "start_doc", "start_page", "write"} => error = Ok /\ Silent(OtherOut, Me)
  BY DEF DeliveryInv, CopyInv
<1>3. at \in {"end_page", "end_doc", "close"} =>
        /\ error = Ok => Full(OtherOut, Me)
        /\ error \in {Retry, Permanent} => Silent(OtherOut, Me)
  BY DEF DeliveryInv, CopyInv
<1>4. UNCHANGED out => Adds({})
  BY <1>1, NothingAdded
<1>5. CASE WinOpen
  <2>1. Adds({}) /\ Silent(OtherOut \cup {}, Me) /\ error = Ok
    BY <1>2, <1>4, <1>5 DEF WinOpen, Win
  <2>2. CASE Goes("start_doc")
    BY <1>1, <2>1, <2>2, GoesKeeps DEF Goes, Sending
  <2>3. CASE Ends(Retry)
    BY Zenon, <1>1, <2>1, <2>3, EndsKeeps, Flags
  <2> QED
    BY <1>5, <2>2, <2>3 DEF WinOpen
<1>6. CASE WinStartDoc
  <2>1. Adds({}) /\ Silent(OtherOut \cup {}, Me) /\ error = Ok
    BY <1>2, <1>4, <1>6 DEF WinStartDoc, Win
  <2>2. CASE Goes("start_page")
    BY <1>1, <2>1, <2>2, GoesKeeps DEF Goes, Sending
  <2>3. CASE at' = "close" /\ error' = Retry
    BY <1>1, <2>1, <2>3, GoesKeeps, Flags DEF Sending
  <2> QED
    BY <1>6, <2>2, <2>3 DEF WinStartDoc
<1>7. CASE WinStartPage
  <2>1. Adds({}) /\ Silent(OtherOut \cup {}, Me) /\ error = Ok
    BY <1>2, <1>4, <1>7 DEF WinStartPage, Win
  <2>2. CASE Goes("write")
    BY <1>1, <2>1, <2>2, GoesKeeps DEF Goes, Sending
  <2>3. CASE at' = "end_doc" /\ error' = Uncertain
    BY <1>1, <2>1, <2>3, GoesKeeps, Flags DEF Sending
  <2> QED
    BY <1>7, <2>2, <2>3 DEF WinStartPage
<1>8. CASE WinWrite
  <2>1. at' = "end_page"
    BY <1>8 DEF WinWrite
  <2>2. CASE out' = [out EXCEPT !["other"] = @ \o [k \in 1..Chunks |-> <<Me, k>>]] /\ error' = Ok
    <3>1. Adds(Whole(Me))
      BY <1>1, <2>2, DocumentAdded
    <3>2. (\A c \in Whole(Me) : c[1] = Me) /\ Full(OtherOut \cup Whole(Me), Me)
      BY DEF Whole, Full
    <3> QED
      BY <1>1, <2>1, <2>2, <3>1, <3>2, GoesKeeps, Flags DEF Sending
  <2>3. CASE (Arrives("other", Me, 1) \/ UNCHANGED out) /\ error' = Uncertain
    <3>1. ASSUME NEW S, Adds(S), \A c \in S : c[1] = Me PROVE DeliveryInv'
      BY <1>1, <2>1, <2>3, <3>1, GoesKeeps, Flags, Zenon DEF Sending
    <3>2. CASE UNCHANGED out
      BY <1>4, <3>1, <3>2
    <3>3. CASE Arrives("other", Me, 1)
      <4>1. Adds({<<Me, 1>>}) /\ \A c \in {<<Me, 1>>} : c[1] = Me
        BY <1>1, <3>3, ChunkAdded
      <4> QED
        BY <3>1, <4>1
    <3> QED
      BY <2>3, <3>2, <3>3
  <2> QED
    BY <1>8, <2>2, <2>3, Zenon DEF WinWrite
<1>9. CASE WinEndPage \/ WinEndDoc
  <2>1. /\ at' \in {"end_doc", "close"} /\ Adds({})
        /\ error' \in IF error = Ok THEN {Ok, Uncertain} ELSE {error}
        /\ at \in {"end_page", "end_doc", "close"}
    BY <1>4, <1>9 DEF WinEndPage, WinEndDoc, Win
  <2>2. /\ error' = Ok => Full(OtherOut \cup {}, Me)
        /\ error' \in {Retry, Permanent} => Silent(OtherOut \cup {}, Me)
        /\ error' \in AgentErrors \cup {Ok}
    BY Zenon, <1>1, <1>3, <2>1, Flags
  <2> QED
    BY <1>1, <2>1, <2>2, GoesKeeps DEF Sending
<1>10. CASE WinClose
  <2>1. PICK r \in IF error = Ok THEN {Ok, Uncertain} ELSE {error} : Ends(r)
    BY <1>10 DEF WinClose
  <2>2. Adds({}) /\ at \in {"end_page", "end_doc", "close"}
    BY <1>4, <1>10 DEF WinClose, Win
  <2>3. /\ r = Ok => Full(OtherOut \cup {}, Me)
        /\ r \in {Retry, Permanent} => Silent(OtherOut \cup {}, Me)
        /\ r \in AgentErrors \cup {Ok}
    BY Zenon, <1>1, <1>3, <2>1, <2>2, Flags
  <2> QED
    BY <1>1, <2>1, <2>2, <2>3, EndsKeeps
<1> QED
  BY <1>5, <1>6, <1>7, <1>8, <1>9, <1>10

LEMMA CupsKeeps ==
  ASSUME DeliveryInv, CupsSpawn \/ CupsStdin \/ CupsWait
  PROVE  DeliveryInv'
<1>1. /\ at \in Sending /\ UNCHANGED <<profile, job, copy, route, chunk, verdict, usb>> /\ TypeInv
      /\ error \in AgentErrors \cup {Ok} /\ chunk' \in 0..Chunks
      /\ {Ok, Retry, Permanent, Uncertain} \subseteq AgentErrors \cup {Ok}
  BY Zenon DEF CupsSpawn, CupsStdin, CupsWait, Sending, DeliveryInv, TypeInv, AgentErrors
<1>2. Silent(OtherOut \cup {}, Me) /\ (at # "wait" => error = Ok)
  BY DEF CupsSpawn, CupsStdin, CupsWait, DeliveryInv, CopyInv
<1>3. UNCHANGED out => Adds({})
  BY <1>1, NothingAdded
<1>4. CASE CupsSpawn
  <2>1. Adds({}) /\ error = Ok
    BY <1>2, <1>3, <1>4 DEF CupsSpawn
  <2>2. CASE Goes("stdin")
    BY <1>1, <1>2, <2>1, <2>2, GoesKeeps DEF Goes, Sending
  <2>3. CASE Ends(Permanent)
    BY Zenon, <1>1, <1>2, <2>1, <2>3, EndsKeeps, Flags
  <2> QED
    BY <1>4, <2>2, <2>3 DEF CupsSpawn
<1>5. CASE CupsStdin
  <2>1. Adds({}) /\ at' = "wait" /\ error' \in {Ok, Retry}
    BY <1>3, <1>5 DEF CupsStdin
  <2> QED
    BY <1>1, <1>2, <2>1, GoesKeeps DEF Sending
<1>6. CASE CupsWait
  <2>1. CASE out' = [out EXCEPT !["other"] = @ \o [k \in 1..Chunks |-> <<Me, k>>]] /\ (Ends(Ok) \/ Ends(Uncertain))
    <3>1. Adds(Whole(Me))
      BY <1>1, <2>1, DocumentAdded
    <3>2. (\A c \in Whole(Me) : c[1] = Me) /\ Full(OtherOut \cup Whole(Me), Me)
      BY DEF Whole, Full
    <3> QED
      BY <1>1, <2>1, <3>1, <3>2, EndsKeeps, Flags, Zenon
  <2>2. CASE UNCHANGED out /\ (Ends(Retry) \/ Ends(Uncertain))
    BY <1>1, <1>2, <1>3, <2>2, EndsKeeps, Flags
  <2> QED
    BY <1>6, <2>1, <2>2, Zenon DEF CupsWait
<1> QED
  BY <1>4, <1>5, <1>6

----------------------------------------------------------------------------
(* The caller between the sends.                                           *)

\* At the start of the first copy nothing of the job is out or under way, except
\* by the thread of that copy.
LEMMA FirstCopy ==
  ASSUME DeliveryInv, copy = 0
  PROVE  /\ \A n \in 0..(Copies - 1) : <<job, n>> # Me => Dead(usb, UsbOut, <<job, n>>)
         /\ Dead(usb, UsbOut, Me) => DeadJob(usb, UsbOut, job)
         /\ \A c \in OtherOut : c[1][1] = job => c[1] = Me
<1>1. ASSUME NEW n \in 0..(Copies - 1), <<job, n>> # Me
      PROVE  Dead(usb, UsbOut, <<job, n>>)
  <2>1. <<job, n>> \in Threads /\ Ahead(<<job, n>>, job, copy)
    <3>1. job \in 1..Jobs
      BY DEF DeliveryInv, TypeInv
    <3>2. n > copy
      BY <1>1 DEF Me
    <3> QED
      BY <3>1, <3>2 DEF Threads, Ahead
  <2>2. usb[<<job, n>>].place = "unborn" /\ ThreadOK(usb[<<job, n>>], <<job, n>>, UsbOut)
    BY <2>1 DEF DeliveryInv, ThreadsInv
  <2> QED
    BY <2>2 DEF ThreadOK, Dead
<1>2. ASSUME NEW c \in OtherOut, c[1][1] = job
      PROVE  c[1] = Me
  <2>1. c[1] \in Threads /\ ~Ahead(c[1], job, copy)
    BY DEF DeliveryInv, TypeInv
  <2>2. PICK j \in 1..Jobs, n \in 0..(Copies - 1) : c[1] = <<j, n>>
    BY <2>1 DEF Threads
  <2> QED
    BY <1>2, <2>1, <2>2 DEF Ahead, Me
<1>3. Dead(usb, UsbOut, Me) => DeadJob(usb, UsbOut, job)
  BY <1>1 DEF DeadJob
<1> QED
  BY Zenon, <1>1, <1>2, <1>3

LEMMA MeFacts ==
  ASSUME DeliveryInv
  PROVE  /\ Me \in Threads /\ Me = <<job, copy>> /\ job \in 1..Jobs /\ copy \in 0..(Copies - 1) /\ copy \in Nat
         /\ ~Ahead(Me, job, copy) /\ Chunks \in Nat
BY DeliveryConstants DEF DeliveryInv, TypeInv, Threads, Me, Ahead

LEMMA SameOut ==
  ASSUME UNCHANGED out
  PROVE  UsbOut' = UsbOut /\ OtherOut' = OtherOut
BY DEF UsbOut, OtherOut, Received

LEMMA EntryIsSending ==
  ASSUME NEW r \in Direct
  PROVE  Entry(r) \in {"connect", "open", "spawn"}
BY DEF Entry, Direct

\* A step that starts or ends a send keeps the invariant if it keeps what the
\* route and the place say.
LEMMA BetweenKeeps ==
  ASSUME DeliveryInv, at \in {"copy", "usb_wait"}, at' \notin {"copy", "done"},
         UNCHANGED <<profile, job, copy, chunk, verdict, usb, out>>,
         route' \in Direct \cup {None, "usb"}, error' \in AgentErrors \cup {Ok}, RouteInv', CopyInv'
  PROVE  DeliveryInv'
<1>1. UsbOut' = UsbOut /\ OtherOut' = OtherOut /\ Me' = Me
  BY SameOut DEF Me
<1>2. TypeInv'
  BY Zenon, <1>1 DEF DeliveryInv, TypeInv
<1>3. ThreadsInv'
  BY Zenon, <1>1 DEF DeliveryInv, ThreadsInv
<1>4. VerdictInv'
  BY Zenon, <1>1 DEF DeliveryInv, VerdictInv
<1> QED
  BY <1>2, <1>3, <1>4 DEF DeliveryInv

\* A send starts on a direct route: nothing is, or will be, on USB.
LEMMA EntryKeeps ==
  ASSUME DeliveryInv, at \in {"copy", "usb_wait"}, UNCHANGED <<profile, job, copy, chunk, verdict, usb, out>>,
         route' \in Direct, at' = Entry(route'), error' = error, DeadJob(usb, UsbOut, job),
         copy > 0 => route' = route
  PROVE  DeliveryInv'
<1>1. UsbOut' = UsbOut /\ OtherOut' = OtherOut /\ Me' = Me
  BY SameOut DEF Me
<1>2. error = Ok /\ Silent(OtherOut, Me)
  BY DEF DeliveryInv, CopyInv
<1>3. at' \in {"connect", "open", "spawn"} /\ route' # None
  BY EntryIsSending DEF Direct, None
<1>4. CopyInv'
  BY <1>1, <1>2, <1>3 DEF CopyInv
<1>5. \A n \in 0..(copy - 1) : Full(IF route' = "usb" THEN UsbOut ELSE OtherOut, <<job, n>>)
  <2>1. CASE copy > 0
    BY <2>1 DEF DeliveryInv, RouteInv
  <2>2. CASE copy = 0
    BY <2>2
  <2> QED
    BY <2>1, <2>2, MeFacts
<1>6. RouteInv'
  BY Zenon, <1>1, <1>3, <1>5 DEF RouteInv
<1> QED
  BY <1>2, <1>3, <1>4, <1>6, BetweenKeeps

\* send_usb_failure: the fallback is used, or the failure reported as harmless,
\* only when the thread of the first copy has put nothing out and never will.
LEMMA FailureKeeps ==
  ASSUME DeliveryInv, at \in {"copy", "usb_wait"}, UNCHANGED <<profile, job, copy, chunk, verdict, usb, out>>,
         NEW f, send_usb_failure(f), f.cause \in AgentErrors, Mild(f) => Dead(usb, UsbOut, Me)
  PROVE  DeliveryInv'
<1> DEFINE decision == IF copy > 0 THEN "Forbid"
                       ELSE fallback_decision(f.stage, profile.fallback # None, f.bytes)
<1>1. UsbOut' = UsbOut /\ OtherOut' = OtherOut /\ Me' = Me
  BY SameOut DEF Me
<1>2. Silent(OtherOut, Me)
  BY DEF DeliveryInv, CopyInv
<1>3. decision # "Forbid" => copy = 0 /\ Dead(usb, UsbOut, Me)
  BY MeFacts DEF fallback_decision, Mild
<1>4. decision = "Auto" => profile.fallback \in Direct
  BY Zenon, DeliveryConstants DEF DeliveryInv, TypeInv, fallback_decision
<1>5. IF decision = "Auto" THEN Goes(Entry(profile.fallback)) /\ route' = profile.fallback
      ELSE Ends(AgentErrorOf(f, decision)) /\ route' = route
  BY DEF send_usb_failure
<1> HIDE DEF decision
<1>6. CASE decision = "Auto"
  <2>1. copy = 0 /\ Dead(usb, UsbOut, Me) /\ ~(copy > 0)
    BY <1>3, <1>6
  <2>2. DeadJob(usb, UsbOut, job)
    BY <2>1, FirstCopy
  <2>3. route' \in Direct /\ at' = Entry(route') /\ error' = error
    BY <1>4, <1>5, <1>6 DEF Goes
  <2> QED
    BY <2>1, <2>2, <2>3, EntryKeeps, Zenon
<1>7. CASE decision # "Auto"
  <2>1. /\ at' = "sent" /\ route' = route /\ error' \in AgentErrors
        /\ error' \in {Retry, Permanent} => decision # "Forbid"
    BY Zenon, <1>5, <1>7, Flags DEF Ends, AgentErrorOf, AgentErrors
  <2>2. error' # Ok
    BY <2>1, Flags DEF AgentErrors
  <2>3. CopyInv'
    BY <1>1, <1>2, <1>3, <2>1, <2>2 DEF CopyInv
  <2>4. RouteInv'
    BY Zenon, <1>1, <2>1 DEF DeliveryInv, RouteInv
  <2>5. route' \in Direct \cup {None, "usb"}
    BY Zenon, <2>1 DEF DeliveryInv, TypeInv
  <2> QED
    BY <2>1, <2>3, <2>4, <2>5, BetweenKeeps
<1> QED
  BY <1>6, <1>7

LEMMA StartDirectKeeps ==
  ASSUME DeliveryInv, StartDirect
  PROVE  DeliveryInv'
<1>1. /\ at = "copy" /\ at' = Entry(route') /\ error' = error
      /\ UNCHANGED <<profile, job, copy, chunk, verdict, usb, out>>
      /\ route' = IF copy = 0 THEN profile.connection ELSE route
  BY DEF StartDirect, Goes
<1>2. CASE copy = 0
  <2>1. route' \in Direct
    BY Zenon, <1>1, <1>2, DeliveryConstants DEF StartDirect, OnUsb, DeliveryInv, TypeInv
  <2>2. Dead(usb, UsbOut, Me)
    BY Zenon, <1>1, MeFacts DEF DeliveryInv, ThreadsInv, ThreadOK, Dead
  <2>3. DeadJob(usb, UsbOut, job) /\ ~(copy > 0)
    BY <1>2, <2>2, FirstCopy
  <2> QED
    BY <1>1, <2>1, <2>3, EntryKeeps, Zenon
<1>3. CASE copy # 0
  <2>1. route' = route /\ route \in Direct
    <3>1. copy > 0
      BY <1>3, MeFacts
    <3>2. route # None /\ route \in Direct \cup {None, "usb"}
      BY Zenon, <3>1 DEF DeliveryInv, TypeInv, RouteInv
    <3>3. route # "usb"
      BY <1>3 DEF StartDirect, OnUsb
    <3> QED
      BY <1>1, <1>3, <3>2, <3>3
  <2>2. DeadJob(usb, UsbOut, job)
    BY Zenon, <2>1 DEF DeliveryInv, RouteInv
  <2> QED
    BY <1>1, <2>1, <2>2, EntryKeeps
<1> QED
  BY <1>2, <1>3

LEMMA UsbWaitKeeps ==
  ASSUME DeliveryInv, UsbResult \/ UsbDeadline
  PROVE  DeliveryInv'
<1>1. at = "usb_wait" /\ UNCHANGED <<profile, job, copy, chunk, verdict, usb, out>>
  BY DEF UsbResult, UsbDeadline
<1>2. ThreadOK(usb[Me], Me, UsbOut) /\ route = "usb"
  BY Zenon, <1>1, MeFacts DEF DeliveryInv, ThreadsInv, RouteInv
<1>3. CASE UsbResult /\ usb[Me].outcome = Success
  <2>1. at' = "sent" /\ error' = Ok /\ route' = route /\ Full(UsbOut, Me)
    BY Zenon, <1>2, <1>3 DEF UsbResult, Ends, ThreadOK
  <2>2. UsbOut' = UsbOut /\ OtherOut' = OtherOut /\ Me' = Me
    BY <1>1, SameOut DEF Me
  <2>3. CopyInv'
    BY Zenon, <1>2, <2>1, <2>2, Flags DEF CopyInv, None
  <2>4. RouteInv'
    BY Zenon, <1>1, <2>1, <2>2 DEF DeliveryInv, RouteInv
  <2> QED
    BY <1>1, <1>2, <2>1, <2>3, <2>4, BetweenKeeps
<1>4. CASE UsbResult /\ usb[Me].outcome # Success
  <2> DEFINE f == usb[Me].outcome
  <2>1. usb[Me].place = "gone" /\ send_usb_failure(f)
    BY <1>4 DEF UsbResult
  <2>2. f.cause \in AgentErrors /\ (Mild(f) => Dead(usb, UsbOut, Me))
    BY Zenon, <1>2, <1>4, <2>1 DEF ThreadOK, Dead
  <2> HIDE DEF f
  <2> QED
    BY Zenon, <1>1, <2>1, <2>2, FailureKeeps
<1>5. CASE UsbDeadline
  <2> DEFINE f == UsbFailure("Timeout", Permanent, Unknown)
  <2>1. send_usb_failure(f)
    BY Zenon, <1>5 DEF UsbDeadline
  <2>2. f.cause \in AgentErrors /\ ~Mild(f)
    <3>1. Permanent \in AgentErrors
      BY DEF AgentErrors
    <3> QED
      BY <3>1, FailureFacts DEF allows_fallback
  <2> HIDE DEF f
  <2> QED
    BY <1>1, <2>1, <2>2, FailureKeeps
<1> QED
  BY <1>3, <1>4, <1>5

LEMMA StartUsbKeeps ==
  ASSUME DeliveryInv, StartUsb
  PROVE  DeliveryInv'
<1>1. at = "copy" /\ OnUsb /\ UNCHANGED <<profile, job, copy, chunk, verdict, out>>
  BY DEF StartUsb
<1>2. /\ usb[Me].place = "unborn" /\ ThreadOK(usb[Me], Me, UsbOut) /\ Dead(usb, UsbOut, Me)
      /\ Silent(OtherOut, Me) /\ error = Ok
  BY <1>1, MeFacts, Zenon DEF DeliveryInv, ThreadsInv, ThreadOK, Dead, CopyInv
<1>3. ASSUME NEW stage, stage # "ok", NEW bytes, UNCHANGED usb, send_usb_failure(UsbFailure(stage, Permanent, bytes))
      PROVE  DeliveryInv'
  <2> DEFINE f == UsbFailure(stage, Permanent, bytes)
  <2>1. Permanent \in AgentErrors
    BY DEF AgentErrors
  <2>2. f.cause \in AgentErrors
    BY Zenon, <1>3, <2>1, FailureFacts
  <2> HIDE DEF f
  <2> QED
    BY <1>1, <1>2, <1>3, <2>2, FailureKeeps, Zenon DEF f
<1>4. CASE usb' = [usb EXCEPT ![Me].place = "select"] /\ route' = "usb" /\ Goes("usb_wait")
  <2>1. UsbOut' = UsbOut /\ OtherOut' = OtherOut /\ Me' = Me /\ at' = "usb_wait" /\ error' = Ok
    BY <1>1, <1>2, <1>4, SameOut DEF Me, Goes
  <2>2. /\ DOMAIN usb' = Threads /\ \A q \in Threads : q # Me => usb'[q] = usb[q]
        /\ DOMAIN usb'[Me] = {"place", "written", "outcome"} /\ usb'[Me].place = "select"
        /\ usb'[Me].written = usb[Me].written
    BY <1>2, <1>4, MeFacts DEF DeliveryInv, TypeInv, ThreadOK
  <2>3. ThreadOK(usb'[Me], Me, UsbOut)
    BY Zenon, <1>2, <2>2 DEF ThreadOK
  <2>4. TypeInv'
    BY <1>1, <1>4, <2>1, <2>2 DEF DeliveryInv, TypeInv
  <2>5. ThreadsInv'
    BY <1>1, <2>1, <2>2, <2>3, MeFacts, Zenon DEF DeliveryInv, ThreadsInv
  <2>6. copy > 0 => route = "usb"
    BY <1>1 DEF OnUsb
  <2>7. \A c \in OtherOut : c[1][1] # job
    <3>1. CASE copy = 0
      BY Zenon, <1>2, <3>1, FirstCopy DEF Silent
    <3>2. CASE copy > 0
      BY Zenon, <2>6, <3>2 DEF DeliveryInv, RouteInv, Direct
    <3> QED
      BY <3>1, <3>2, MeFacts
  <2>8. \A n \in 0..(copy - 1) : Full(UsbOut, <<job, n>>)
    <3>1. CASE copy = 0
      BY <3>1
    <3>2. CASE copy > 0
      BY Zenon, <2>6, <3>2 DEF DeliveryInv, RouteInv
    <3> QED
      BY <3>1, <3>2, MeFacts
  <2>9. RouteInv'
    BY <1>1, <1>4, <2>1, <2>7, <2>8 DEF RouteInv, Direct, None
  <2>10. CopyInv'
    BY Zenon, <1>2, <2>1 DEF CopyInv
  <2>11. ASSUME NEW j \in 1..Jobs, j < job, DeadJob(usb, UsbOut, j) PROVE DeadJob(usb', UsbOut, j)
    <3>1. \A n \in 0..(Copies - 1) : <<j, n>> \in Threads /\ <<j, n>> # Me
      BY <2>11, MeFacts DEF Threads
    <3> QED
      BY <2>2, <2>11, <3>1 DEF DeadJob, Dead
  <2>12. VerdictInv'
    <3>1. \A j \in 1..Jobs : verdict[j] # {None} => j < job
      BY Zenon, <1>1 DEF DeliveryInv, VerdictInv
    <3> QED
      BY Zenon, <1>1, <2>1, <2>11, <3>1, Flags DEF DeliveryInv, VerdictInv
  <2> QED
    BY <2>4, <2>5, <2>9, <2>10, <2>12 DEF DeliveryInv
<1> QED
  BY <1>3, <1>4 DEF StartUsb, feature_disabled

LEMMA NextJobKeeps ==
  ASSUME DeliveryInv, NextJob
  PROVE  DeliveryInv'
<1>1. /\ at = "done" /\ at' = "copy" /\ job' = job + 1 /\ copy' = 0 /\ route' = None /\ job < Jobs
      /\ UNCHANGED <<profile, error, chunk, opened, verdict, usb, out>>
  BY DEF NextJob
<1>2. UsbOut' = UsbOut /\ OtherOut' = OtherOut /\ error = Ok
  BY <1>1, SameOut DEF DeliveryInv, CopyInv
<1>3. job \in 1..Jobs /\ Jobs \in Nat /\ Copies \in Nat /\ Copies > 0
  BY DeliveryConstants DEF DeliveryInv, TypeInv
<1>4. Me' = <<job + 1, 0>> /\ Me' \in Threads /\ Ahead(Me', job, copy)
  BY <1>1, <1>3 DEF Me, Threads, Ahead
<1>5. ASSUME NEW t \in Threads, Ahead(t, job', copy') PROVE Ahead(t, job, copy)
  <2>1. PICK j \in 1..Jobs, n \in 0..(Copies - 1) : t = <<j, n>>
    BY DEF Threads
  <2> QED
    BY <1>1, <1>3, <1>5, <2>1 DEF Ahead
<1>6. TypeInv'
  <2>1. job' \in 1..Jobs /\ copy' \in 0..(Copies - 1)
    BY <1>1, <1>3
  <2>2. \A c \in UsbOut \cup OtherOut : c[1] \in Threads /\ ~Ahead(c[1], job', copy')
    BY Zenon, <1>5 DEF DeliveryInv, TypeInv
  <2> QED
    BY Zenon, <1>1, <1>2, <2>1, <2>2 DEF DeliveryInv, TypeInv
<1>7. ThreadsInv'
  BY <1>1, <1>2, <1>4, <1>5 DEF DeliveryInv, ThreadsInv
<1>8. \A c \in UsbOut \cup OtherOut : c[1][1] # job + 1
  <2> SUFFICES ASSUME NEW c \in UsbOut \cup OtherOut PROVE c[1][1] # job + 1
    OBVIOUS
  <2>1. c[1] \in Threads /\ ~Ahead(c[1], job, copy)
    BY DEF DeliveryInv, TypeInv
  <2> QED
    BY <1>3, <2>1 DEF Ahead
<1>9. RouteInv'
  <2>1. None \notin Direct /\ 0..(0 - 1) = {}
    BY DEF Direct, None
  <2> QED
    BY <1>1, <1>2, <1>8, <2>1 DEF RouteInv
<1>10. CopyInv'
  <2>1. Silent(OtherOut, Me')
    BY <1>4, <1>8 DEF Silent
  <2> QED
    BY <1>1, <1>2, <2>1 DEF CopyInv
<1>11. VerdictInv'
  <2> SUFFICES ASSUME NEW j \in 1..Jobs
               PROVE  /\ verdict[j] # {None} => j < job + 1
                      /\ j < job + 1 /\ (\E c \in OtherOut : c[1][1] = j) => DeadJob(usb, UsbOut, j)
    BY Zenon, <1>1, <1>2 DEF DeliveryInv, VerdictInv
  <2>1. verdict[j] # {None} => j < job + 1
    <3>1. verdict[j] # {None} => j < job \/ j = job
      BY VerdictAt, Zenon
    <3> QED
      BY <1>3, <3>1
  <2>2. j < job + 1 => j < job \/ j = job
    BY <1>3
  <2>3. (\E c \in OtherOut : c[1][1] = job) => DeadJob(usb, UsbOut, job)
    BY Zenon DEF DeliveryInv, RouteInv
  <2>4. j < job /\ (\E c \in OtherOut : c[1][1] = j) => DeadJob(usb, UsbOut, j)
    BY Zenon, VerdictAt
  <2> QED
    BY Zenon, <2>1, <2>2, <2>3, <2>4
<1> QED
  BY <1>6, <1>7, <1>9, <1>10, <1>11 DEF DeliveryInv

\* The copies loop takes the next copy.
LEMMA NextCopyKeeps ==
  ASSUME DeliveryInv, Sent, error = Ok, copy + 1 < Copies
  PROVE  DeliveryInv'
<1>1. /\ at = "sent" /\ at' = "copy" /\ copy' = copy + 1 /\ error' = Ok
      /\ UNCHANGED <<profile, job, route, chunk, verdict, usb, out>>
  BY DEF Sent
<1>2. UsbOut' = UsbOut /\ OtherOut' = OtherOut
  BY <1>1, SameOut
<1>3. job \in 1..Jobs /\ copy \in 0..(Copies - 1) /\ copy \in Nat /\ Copies \in Nat
  BY MeFacts, DeliveryConstants
<1>4. Me' = <<job, copy + 1>> /\ Me' \in Threads /\ Ahead(Me', job, copy)
  BY <1>1, <1>3 DEF Me, Threads, Ahead
<1>5. ASSUME NEW t \in Threads, Ahead(t, job, copy + 1) PROVE Ahead(t, job, copy)
  <2>1. PICK j \in 1..Jobs, n \in 0..(Copies - 1) : t = <<j, n>>
    BY DEF Threads
  <2> QED
    BY <1>3, <1>5, <2>1 DEF Ahead
<1>6. TypeInv'
  <2>1. copy' \in 0..(Copies - 1)
    BY <1>1, <1>3
  <2>2. \A c \in UsbOut \cup OtherOut : c[1] \in Threads /\ ~Ahead(c[1], job, copy + 1)
    BY <1>5 DEF DeliveryInv, TypeInv
  <2> QED
    BY Zenon, <1>1, <1>2, <2>1, <2>2 DEF DeliveryInv, TypeInv, AgentErrors
<1>7. ThreadsInv'
  BY Zenon, <1>1, <1>2, <1>4, <1>5 DEF DeliveryInv, ThreadsInv
<1>8. \A n \in 0..copy : Full(IF route = "usb" THEN UsbOut ELSE OtherOut, <<job, n>>)
  <2>1. \A n \in 0..copy : n \in 0..(copy - 1) \/ n = copy
    BY <1>3
  <2>2. Full(IF route = "usb" THEN UsbOut ELSE OtherOut, <<job, copy>>)
    BY <1>1 DEF DeliveryInv, CopyInv, Me
  <2>3. \A n \in 0..(copy - 1) : Full(IF route = "usb" THEN UsbOut ELSE OtherOut, <<job, n>>)
    BY Zenon DEF DeliveryInv, RouteInv
  <2> QED
    BY <2>1, <2>2, <2>3
<1>9. RouteInv'
  <2>1. route # None /\ copy' - 1 = copy
    BY <1>1, <1>3 DEF DeliveryInv, CopyInv
  <2> QED
    BY Zenon, <1>1, <1>2, <1>8, <2>1 DEF DeliveryInv, RouteInv
<1>10. CopyInv'
  <2>1. Silent(OtherOut, Me')
    BY Zenon, <1>4 DEF Silent, DeliveryInv, TypeInv
  <2> QED
    BY <1>1, <1>2, <2>1 DEF CopyInv
<1>11. VerdictInv'
  BY Zenon, <1>1, <1>2 DEF DeliveryInv, VerdictInv
<1> QED
  BY <1>6, <1>7, <1>9, <1>10, <1>11 DEF DeliveryInv

\* The job gets its verdict.
LEMMA LastCopyKeeps ==
  ASSUME DeliveryInv, Sent, ~(error = Ok /\ copy + 1 < Copies)
  PROVE  DeliveryInv'
<1> DEFINE v == IF error # Ok /\ copy > 0 THEN Uncertain ELSE error
<1>1. /\ at = "sent" /\ at' = "done" /\ copy' = copy /\ error' = Ok /\ verdict' = [verdict EXCEPT ![job] = v]
      /\ UNCHANGED <<profile, job, route, chunk, usb, out>>
  BY DEF Sent
<1>2. UsbOut' = UsbOut /\ OtherOut' = OtherOut /\ Me' = Me
  BY <1>1, SameOut DEF Me
<1>3. job \in 1..Jobs /\ copy \in 0..(Copies - 1) /\ copy \in Nat /\ Copies \in Nat /\ DOMAIN verdict = 1..Jobs
  BY MeFacts, DeliveryConstants DEF DeliveryInv, TypeInv
<1>4. DOMAIN verdict' = 1..Jobs /\ verdict'[job] = v /\ \A j \in 1..Jobs : j # job => verdict'[j] = verdict[j]
  BY <1>1, <1>3
<1>5. TypeInv'
  BY <1>1, <1>2, <1>4 DEF DeliveryInv, TypeInv
<1>6. ThreadsInv'
  BY <1>1, <1>2, ZenonT(30) DEF DeliveryInv, ThreadsInv
<1>7. RouteInv'
  BY <1>1, <1>2 DEF DeliveryInv, RouteInv
<1>8. CopyInv'
  BY <1>1 DEF CopyInv
<1>9. ASSUME v = Ok
      PROVE  \E S \in {UsbOut, OtherOut} : \A n \in 0..(Copies - 1) : Full(S, <<job, n>>)
  <2>1. error = Ok /\ copy = Copies - 1
    BY <1>3, <1>9, Flags
  <2>2. \A n \in 0..(Copies - 1) : n \in 0..(copy - 1) \/ n = copy
    BY <1>3, <2>1
  <2>3. Full(IF route = "usb" THEN UsbOut ELSE OtherOut, <<job, copy>>)
    BY <1>1, <2>1 DEF DeliveryInv, CopyInv, Me
  <2>4. \A n \in 0..(copy - 1) : Full(IF route = "usb" THEN UsbOut ELSE OtherOut, <<job, n>>)
    BY DEF DeliveryInv, RouteInv
  <2>5. \A n \in 0..(Copies - 1) : Full(IF route = "usb" THEN UsbOut ELSE OtherOut, <<job, n>>)
    BY <2>2, <2>3, <2>4
  <2> QED
    BY <2>5
<1>10. ASSUME v \in {Retry, Permanent}
       PROVE  DeadJob(usb, UsbOut, job) /\ \A c \in OtherOut : c[1][1] # job
  <2>1. error \in {Retry, Permanent} /\ copy = 0
    BY <1>3, <1>10, Flags
  <2>2. Silent(OtherOut, Me) /\ Dead(usb, UsbOut, Me)
    BY <1>1, <2>1 DEF DeliveryInv, CopyInv
  <2> QED
    BY <2>1, <2>2, FirstCopy DEF Silent
<1> HIDE DEF v
<1>11. VerdictInv'
  <2> SUFFICES ASSUME NEW j \in 1..Jobs
               PROVE  /\ verdict'[j] # {None} => j < job \/ j = job
                      /\ verdict'[j] = Ok => \E S \in {UsbOut, OtherOut} : \A n \in 0..(Copies - 1) : Full(S, <<j, n>>)
                      /\ verdict'[j] \in {Retry, Permanent} =>
                           DeadJob(usb, UsbOut, j) /\ \A c \in OtherOut : c[1][1] # j
                      /\ j < job /\ (\E c \in OtherOut : c[1][1] = j) => DeadJob(usb, UsbOut, j)
    BY <1>1, <1>2 DEF VerdictInv
  <2>1. CASE j = job
    <3>1. verdict'[j] = v /\ ~(j < job)
      BY <1>3, <1>4, <2>1
    <3> QED
      BY <1>9, <1>10, <2>1, <3>1, Zenon
  <2>2. CASE j # job
    <3>1. verdict'[j] = verdict[j]
      BY <1>4, <2>2
    <3> QED
      BY <3>1, VerdictAt, Zenon
  <2> QED
    BY ZenonT(30), <2>1, <2>2
<1> QED
  BY <1>5, <1>6, <1>7, <1>8, <1>11 DEF DeliveryInv

----------------------------------------------------------------------------
(* The theorems.                                                           *)

LEMMA DeliveryStep == DeliveryInv /\ [Next]_vars => DeliveryInv'
<1> SUFFICES ASSUME DeliveryInv, [Next]_vars PROVE DeliveryInv'
  OBVIOUS
<1>1. CASE Caller
  BY <1>1, StartDirectKeeps, StartUsbKeeps, UsbWaitKeeps, NetworkKeeps, NextCopyKeeps, LastCopyKeeps, NextJobKeeps
  DEF Caller
<1>2. CASE Spool \/ CupsWait
  BY <1>2, SpoolerKeeps, CupsKeeps DEF Spool
<1>3. ASSUME NEW t \in Threads, UsbThread(t) PROVE DeliveryInv'
  BY <1>3, ThreadKeeps
<1>4. CASE UNCHANGED vars
  <2>1. /\ UNCHANGED <<profile, job, copy, at, route, error, chunk, verdict, usb, out>>
        /\ UsbOut' = UsbOut /\ OtherOut' = OtherOut /\ Me' = Me
    BY <1>4, SameOut DEF vars, caller, Me
  <2>2. TypeInv' /\ ThreadsInv'
    BY <2>1, Zenon DEF DeliveryInv, TypeInv, ThreadsInv
  <2>3. RouteInv'
    BY <2>1, Zenon DEF DeliveryInv, RouteInv
  <2>4. CopyInv'
    BY <2>1, Zenon DEF DeliveryInv, CopyInv
  <2>5. VerdictInv'
    BY <2>1, Zenon DEF DeliveryInv, VerdictInv
  <2> QED
    BY <2>2, <2>3, <2>4, <2>5 DEF DeliveryInv
<1> QED
  BY <1>1, <1>2, <1>3, <1>4 DEF Next

LEMMA DeliveryAlways == Spec => []DeliveryInv
<1>1. Init => DeliveryInv
  <2> SUFFICES ASSUME Init PROVE DeliveryInv
    OBVIOUS
  <2>1. UsbOut = {} /\ OtherOut = {} /\ IsSeq(out["usb"]) /\ IsSeq(out["other"])
    BY DEF Init, UsbOut, OtherOut, Received, IsSeq
  <2>2. 1 \in 1..Jobs /\ 0 \in 0..(Copies - 1) /\ 0 \in 0..Chunks
    BY DeliveryConstants
  <2>3. TypeInv
    BY ZenonT(30), <2>1, <2>2 DEF Init, TypeInv
  <2>5. ThreadsInv
    BY <2>1, <2>2 DEF Init, ThreadsInv, ThreadOK, Unborn, Silent
  <2>6. RouteInv
    BY <2>1 DEF Init, RouteInv, Direct, None
  <2>7. CopyInv
    BY ZenonT(30), <2>1 DEF Init, CopyInv, Silent
  <2>8. VerdictInv
    BY <2>1, Flags DEF Init, VerdictInv
  <2> QED
    BY <2>3, <2>5, <2>6, <2>7, <2>8 DEF DeliveryInv
<1> QED
  BY <1>1, DeliveryStep, PTL DEF Spec

\* The chunks of a dead job are not on the USB printer.
LEMMA DeadJobIsSilent ==
  ASSUME DeliveryInv, NEW j \in 1..Jobs, DeadJob(usb, UsbOut, j)
  PROVE  \A c \in UsbOut : c[1][1] # j
<1> SUFFICES ASSUME NEW c \in UsbOut, c[1][1] = j PROVE FALSE
  OBVIOUS
<1>1. c[1] \in Threads
  BY DEF DeliveryInv, TypeInv
<1>2. PICK i \in 1..Jobs, n \in 0..(Copies - 1) : c[1] = <<i, n>>
  BY <1>1 DEF Threads
<1>3. i = j /\ Silent(UsbOut, c[1])
  BY <1>2 DEF DeadJob, Dead
<1> QED
  BY <1>3 DEF Silent

\* send_copies: a job reported as delivered has had every chunk of every copy
\* handed to one destination; one that failed without the uncertain mark has not
\* put a byte anywhere, and no abandoned USB thread ever will.
THEOREM VerdictsHold == Spec => []VerdictsAreTrue
<1>1. DeliveryInv => VerdictsAreTrue
  <2> SUFFICES ASSUME DeliveryInv, NEW j \in 1..Jobs
               PROVE  /\ verdict[j] = Ok => \E d \in DOMAIN out : Document(j) \subseteq Of(j, d)
                      /\ verdict[j] \in {Retry, Permanent} => \A d \in DOMAIN out : Of(j, d) = {}
    BY DEF VerdictsAreTrue
  <2>1. DOMAIN out = {"usb", "other"}
    BY DEF DeliveryInv, TypeInv
  <2>2. ASSUME NEW d, \A n \in 0..(Copies - 1) : Full(Received(d), <<j, n>>)
        PROVE  Document(j) \subseteq Of(j, d)
    BY <2>2 DEF Document, Of, Full
  <2>3. ASSUME verdict[j] = Ok PROVE \E d \in DOMAIN out : Document(j) \subseteq Of(j, d)
    BY <2>1, <2>2, <2>3 DEF DeliveryInv, VerdictInv, UsbOut, OtherOut
  <2>4. ASSUME verdict[j] \in {Retry, Permanent} PROVE \A d \in DOMAIN out : Of(j, d) = {}
    <3>1. (\A c \in UsbOut : c[1][1] # j) /\ \A c \in OtherOut : c[1][1] # j
      BY <2>4, DeadJobIsSilent DEF DeliveryInv, VerdictInv
    <3> QED
      BY <2>1, <3>1 DEF Of, UsbOut, OtherOut
  <2> QED
    BY <2>3, <2>4
<1> QED
  BY <1>1, DeliveryAlways, PTL

\* send_usb_failure: no job is split or repeated over the USB printer and its
\* fallback, whenever an abandoned USB thread wakes up.
THEOREM JobsTakeOneRoute == Spec => []OneRoute
<1>1. DeliveryInv => OneRoute
  <2> SUFFICES ASSUME DeliveryInv, NEW j \in 1..Jobs, NEW x \in OtherOut, x[1][1] = j
               PROVE  Of(j, "usb") = {}
    BY DEF OneRoute, Of, OtherOut
  <2>1. DeadJob(usb, UsbOut, j)
    <3>1. CASE j = job
      BY <3>1 DEF DeliveryInv, RouteInv
    <3>2. CASE j < job
      BY <3>2 DEF DeliveryInv, VerdictInv
    <3>3. j = job \/ j < job
      <4>1. ~Ahead(x[1], job, copy) /\ job \in 1..Jobs
        BY DEF DeliveryInv, TypeInv
      <4> QED
        BY <4>1 DEF Ahead
    <3> QED
      BY <3>1, <3>2, <3>3
  <2> QED
    BY <2>1, DeadJobIsSilent DEF Of, UsbOut
<1> QED
  BY <1>1, DeliveryAlways, PTL

----------------------------------------------------------------------------
(* What is open.                                                           *)

\* The spooler objects that the caller's place has open.
OpenAt(p) ==
  CASE p \in {"start_doc", "close"} -> {"printer"}
    [] p \in {"start_page", "end_doc"} -> {"printer", "doc"}
    [] p \in {"write", "end_page"} -> {"printer", "doc", "page"}
    [] OTHER -> {}

ClosingInv ==
  /\ opened = OpenAt(at)
  /\ holder # NoThread => holder \in Threads /\ usb[holder].place \in {"alternate", "write"}

\* The closing calls of print_raw_with_api undo what its opening calls did.
LEMMA SpoolerCloses ==
  ASSUME opened = OpenAt(at), [Next]_vars, profile \in Profiles, route \in Direct \cup {None, "usb"},
         copy # 0 => route # None
  PROVE  opened' = OpenAt(at')
<1>1. ASSUME NEW r \in Direct PROVE OpenAt(Entry(r)) = {}
  BY <1>1 DEF Direct, Entry, OpenAt
<1>2. CASE WinOpen \/ WinStartDoc \/ WinStartPage \/ WinWrite
  BY <1>2 DEF WinOpen, WinStartDoc, WinStartPage, WinWrite, Win, Goes, Ends, OpenAt
<1>3. CASE WinEndPage \/ WinEndDoc \/ WinClose
  BY <1>3 DEF WinEndPage, WinEndDoc, WinClose, Win, Ends, OpenAt
<1>4. CASE CupsSpawn \/ CupsStdin \/ CupsWait \/ NetConnect \/ NetWrite
  BY <1>4 DEF CupsSpawn, CupsStdin, CupsWait, NetConnect, NetWrite, Goes, Ends, OpenAt
<1>5. CASE Sent \/ NextJob
  BY <1>5 DEF Sent, NextJob, OpenAt
<1>6. ASSUME NEW f, send_usb_failure(f), UNCHANGED opened, at \in {"copy", "usb_wait"}
      PROVE  opened' = OpenAt(at')
  <2>1. CASE Ends(AgentErrorOf(f, "Forbid")) \/ Ends(AgentErrorOf(f, "Ask")) \/ at' = "sent"
    BY <1>6, <2>1 DEF Ends, OpenAt
  <2>2. CASE Goes(Entry(profile.fallback)) /\ profile.fallback # None
    <3>1. profile.fallback \in Direct
      BY <2>2, DeliveryConstants
    <3> QED
      BY <1>1, <1>6, <2>2, <3>1 DEF Goes, OpenAt
  <2> QED
    BY <1>6, <2>1, <2>2 DEF send_usb_failure, Ends, fallback_decision
<1>7. CASE StartDirect
  <2>1. route' \in Direct
    BY <1>7, DeliveryConstants DEF StartDirect, OnUsb
  <2> QED
    BY <1>1, <1>7, <2>1 DEF StartDirect, Goes, OpenAt
<1>8. CASE StartUsb
  <2>1. CASE Goes("usb_wait")
    BY <1>8, <2>1 DEF StartUsb, Goes, OpenAt
  <2> QED
    BY <1>6, <1>8, <2>1 DEF StartUsb
<1>9. CASE UsbResult \/ UsbDeadline
  <2>1. CASE Ends(Ok)
    BY <1>9, <2>1 DEF UsbResult, UsbDeadline, Ends, OpenAt
  <2> QED
    BY <1>6, <1>9, <2>1 DEF UsbResult, UsbDeadline
<1>10. CASE UNCHANGED caller
  BY <1>10 DEF caller
<1> QED
  BY <1>2, <1>3, <1>4, <1>5, <1>7, <1>8, <1>9, <1>10, Zenon
  DEF Next, Caller, Spool, UsbThread, UsbSelect, UsbClaim, UsbAlternate, UsbWrite, UsbPanic, vars

\* Claim::drop: whichever way a USB thread ends, its claim ends with it.
LEMMA ClaimsEnd ==
  ASSUME DeliveryInv, ClosingInv, [Next]_vars
  PROVE  holder' # NoThread => holder' \in Threads /\ usb'[holder'].place \in {"alternate", "write"}
<1>1. DOMAIN usb = Threads /\ NoThread \notin Threads
  <2>1. DOMAIN usb = Threads
    BY DEF DeliveryInv, TypeInv
  <2>2. NoThread \notin Threads
    BY SMTT(20), SMTT(30) DEF NoThread, Threads
  <2> QED
    BY <2>1, <2>2
<1>2. \A t \in Threads : DOMAIN usb[t] = {"place", "written", "outcome"}
  BY DEF DeliveryInv, ThreadsInv, ThreadOK
<1>3. CASE UNCHANGED <<usb, holder>>
  BY <1>3 DEF ClosingInv
<1>4. CASE StartUsb
  <2>1. usb[Me].place = "unborn" /\ Me \in Threads
    BY ZenonT(30), <1>4, MeFacts DEF StartUsb, DeliveryInv, ThreadsInv
  <2> QED
    BY <1>1, <1>4, <2>1 DEF StartUsb, ClosingInv
<1>5. ASSUME NEW t \in Threads, UsbThread(t)
      PROVE  holder' # NoThread => holder' \in Threads /\ usb'[holder'].place \in {"alternate", "write"}
  <2>1. ASSUME NEW o, Dies(t, o)
        PROVE  holder' # NoThread => holder' \in Threads /\ usb'[holder'].place \in {"alternate", "write"}
    BY <1>1, <2>1 DEF Dies, ClosingInv
  <2>2. CASE UsbSelect(t)
    <3>1. CASE usb' = [usb EXCEPT ![t].place = "claim"] /\ UNCHANGED holder
      BY <1>1, <2>2, <3>1 DEF UsbSelect, ClosingInv
    <3> QED
      BY <2>1, <2>2, <3>1 DEF UsbSelect
  <2>3. CASE UsbClaim(t)
    <3>1. CASE holder' = t /\ usb' = [usb EXCEPT ![t].place = "alternate"]
      BY <1>1, <1>2, <3>1
    <3> QED
      BY <2>1, <2>3, <3>1 DEF UsbClaim
  <2>4. CASE UsbAlternate(t)
    <3>1. CASE usb' = [usb EXCEPT ![t].place = "write"] /\ UNCHANGED holder
      BY <1>1, <1>2, <3>1 DEF ClosingInv
    <3> QED
      BY <2>1, <2>4, <3>1 DEF UsbAlternate
  <2>5. CASE UsbWrite(t)
    <3>1. CASE usb' = [usb EXCEPT ![t].written = usb[t].written + 1] /\ UNCHANGED holder
      BY <1>1, <1>2, <3>1 DEF ClosingInv
    <3> QED
      BY <2>1, <2>5, <3>1 DEF UsbWrite
  <2>6. CASE UsbPanic(t)
    BY <2>1, <2>6 DEF UsbPanic
  <2> QED
    BY <1>5, <2>2, <2>3, <2>4, <2>5, <2>6 DEF UsbThread
<1> QED
  BY Zenon, <1>3, <1>4, <1>5
  DEF Next, Caller, Spool, StartDirect, UsbResult, UsbDeadline, NetConnect, NetWrite, Sent, NextJob, WinOpen,
      WinStartDoc, WinStartPage, WinWrite, WinEndPage, WinEndDoc, WinClose, Win, CupsSpawn, CupsStdin, CupsWait,
      vars

\* print_raw_with_api and Claim::drop: what was opened is closed on every path,
\* the failing ones and the abandoned thread's included.
THEOREM EverythingIsClosed == Spec => []NothingLeftOpen
<1>1. Init => ClosingInv
  BY DEF Init, ClosingInv, OpenAt
<1>2. DeliveryInv /\ ClosingInv /\ [Next]_vars => ClosingInv'
  <2> SUFFICES ASSUME DeliveryInv, ClosingInv, [Next]_vars PROVE ClosingInv'
    OBVIOUS
  <2>1. profile \in Profiles /\ route \in Direct \cup {None, "usb"} /\ (copy # 0 => route # None)
    <3>1. copy \in Nat
      BY MeFacts
    <3>2. profile \in Profiles /\ route \in Direct \cup {None, "usb"}
      BY DEF DeliveryInv, TypeInv
    <3>3. copy > 0 => route # None
      BY DEF DeliveryInv, RouteInv
    <3> QED
      BY <3>1, <3>2, <3>3
  <2>2. opened' = OpenAt(at')
    BY <2>1, SpoolerCloses DEF ClosingInv
  <2> QED
    BY <2>2, ClaimsEnd DEF ClosingInv
<1>3. ClosingInv => NothingLeftOpen
  BY DEF ClosingInv, NothingLeftOpen, OpenAt
<1> QED
  BY <1>1, <1>2, <1>3, DeliveryAlways, PTL DEF Spec

----------------------------------------------------------------------------
(* The order in which the chunks arrive.                                   *)

\* The chunks of one copy are in their order; nothing is between them.
Ordered(s) == \A i, k \in DOMAIN s : i < k /\ s[i][1] = s[k][1] => s[i][2] < s[k][2]
Unmixed(s) == \A i, k \in DOMAIN s : i < k /\ s[i][1] = s[k][1] => \A m \in i..k : s[m][1] = s[i][1]

\* Copy t is at its chunk n, and no other has come since its first.
UpTo(s, t, n) == \A i \in DOMAIN s : s[i][1] = t => s[i][2] \in 0..n
Last(s, t) == \A i, m \in DOMAIN s : s[i][1] = t /\ i <= m => s[m][1] = t

\* Only the thread that has claimed the interface writes, and it goes on where
\* it stopped; so does the network sender.
OrderInv ==
  /\ Ordered(out["usb"]) /\ Unmixed(out["usb"]) /\ Ordered(out["other"])
  /\ \A t \in Threads :
       /\ usb[t].place \in {"alternate", "write"} => holder = t
       /\ usb[t].place = "write" => UpTo(out["usb"], t, usb[t].written) /\ Last(out["usb"], t)
  /\ at = "net_write" => UpTo(out["other"], Me, chunk)

LEMMA OrderedAppend ==
  ASSUME NEW s, IsSeq(s), Ordered(s), NEW t, NEW n \in Nat, UpTo(s, t, n)
  PROVE  Ordered(Append(s, <<t, n + 1>>)) /\ UpTo(Append(s, <<t, n + 1>>), t, n + 1)
<1> DEFINE x == <<t, n + 1>>
           z == Append(s, x)
           l == Len(s) + 1
<1>1. x[1] = t /\ x[2] = n + 1
  OBVIOUS
<1> HIDE DEF x
<1>2. DOMAIN z = DOMAIN s \cup {l} /\ z[l] = x /\ \A i \in DOMAIN s : z[i] = s[i]
  BY SeqAppend
<1>3. l \in Nat /\ DOMAIN s = 1..(l - 1)
  BY SeqFacts
<1> HIDE DEF z, l
<1>4. UpTo(z, t, n + 1)
  BY <1>1, <1>2 DEF UpTo
<1>5. ASSUME NEW i \in DOMAIN z, NEW k \in DOMAIN z, i < k, z[i][1] = z[k][1]
      PROVE  z[i][2] < z[k][2]
  <2>1. CASE k \in DOMAIN s
    <3>1. i \in DOMAIN s
      BY <1>2, <1>3, <1>5, <2>1
    <3> QED
      BY <1>2, <1>5, <2>1, <3>1 DEF Ordered
  <2>2. CASE k = l
    <3>1. i \in DOMAIN s
      BY <1>2, <1>3, <1>5, <2>2
    <3>2. s[i][1] = t
      BY <1>1, <1>2, <1>5, <2>2, <3>1
    <3>3. s[i][2] \in 0..n
      BY <3>1, <3>2 DEF UpTo
    <3> QED
      BY <1>1, <1>2, <2>2, <3>1, <3>3
  <2> QED
    BY <1>2, <1>5, <2>1, <2>2
<1> QED
  BY <1>4, <1>5 DEF Ordered, z, x

LEMMA UnmixedAppend ==
  ASSUME NEW s, IsSeq(s), Unmixed(s), NEW t, Last(s, t), NEW n
  PROVE  Unmixed(Append(s, <<t, n>>)) /\ Last(Append(s, <<t, n>>), t)
<1> DEFINE x == <<t, n>>
           z == Append(s, x)
           l == Len(s) + 1
<1>1. x[1] = t
  OBVIOUS
<1> HIDE DEF x
<1>2. DOMAIN z = DOMAIN s \cup {l} /\ z[l] = x /\ \A i \in DOMAIN s : z[i] = s[i]
  BY SeqAppend
<1>3. l \in Nat /\ DOMAIN s = 1..(l - 1)
  BY SeqFacts
<1> HIDE DEF z, l
<1>4. ASSUME NEW i \in DOMAIN z, NEW m \in DOMAIN z, z[i][1] = t, i <= m
      PROVE  z[m][1] = t
  <2>1. CASE m = l
    BY <1>1, <1>2, <2>1
  <2>2. CASE m \in DOMAIN s
    <3>1. i \in DOMAIN s
      BY <1>2, <1>3, <1>4, <2>2
    <3> QED
      BY <1>2, <1>4, <2>2, <3>1 DEF Last
  <2> QED
    BY <1>2, <2>1, <2>2
<1>5. ASSUME NEW i \in DOMAIN z, NEW k \in DOMAIN z, i < k, z[i][1] = z[k][1], NEW m \in i..k
      PROVE  z[m][1] = z[i][1]
  <2>1. m \in DOMAIN z /\ i <= m
    BY <1>2, <1>3, <1>5
  <2>2. CASE k = l
    <3>1. z[i][1] = t
      BY <1>1, <1>2, <1>5, <2>2
    <3> QED
      BY <1>4, <2>1, <3>1
  <2>3. CASE k \in DOMAIN s
    <3>1. i \in DOMAIN s /\ m \in DOMAIN s
      BY <1>2, <1>3, <1>5, <2>3
    <3>2. s[i][1] = s[k][1]
      BY <1>2, <1>5, <2>3, <3>1
    <3>3. s[m][1] = s[i][1]
      BY <1>5, <2>3, <3>1, <3>2 DEF Unmixed
    <3> QED
      BY <1>2, <3>1, <3>3
  <2> QED
    BY <1>2, <1>5, <2>2, <2>3
<1>6. Last(z, t)
  BY <1>4 DEF Last
<1>7. Unmixed(z)
  BY <1>5 DEF Unmixed
<1> QED
  BY <1>6, <1>7 DEF z, x

\* A whole document of a copy that has not begun.
LEMMA OrderedDocument ==
  ASSUME NEW s, IsSeq(s), Ordered(s), NEW t, Silent(Elems(s), t)
  PROVE  Ordered(s \o DocumentOf(t))
<1> DEFINE n == Chunks
           doc == [k \in 1..n |-> <<t, k>>]
           z == s \o doc
           l == Len(s)
<1>0. n \in Nat /\ DocumentOf(t) = doc
  BY DeliveryConstants DEF DocumentOf
<1> HIDE DEF n
<1>1. doc \in Seq({<<t, k>> : k \in 1..n}) /\ Len(doc) = n
  BY <1>0
<1>2. PICK S : s \in Seq(S)
  BY DEF IsSeq
<1>3. s \in Seq(S \cup {<<t, k>> : k \in 1..n}) /\ doc \in Seq(S \cup {<<t, k>> : k \in 1..n})
  BY <1>1, <1>2
<1>4. /\ DOMAIN z = 1..(l + n) /\ l \in Nat /\ DOMAIN s = 1..l
      /\ \A i \in 1..l : z[i] = s[i]
      /\ \A i \in (l + 1)..(l + n) : z[i] = doc[i - l]
  BY <1>0, <1>1, <1>3
<1>5. \A i \in (l + 1)..(l + n) : z[i] = <<t, i - l>>
  BY <1>0, <1>4
<1> HIDE DEF z, l, doc
<1>6. \A i \in (l + 1)..(l + n) : z[i][1] = t /\ z[i][2] = i - l
  BY <1>5
<1>7. \A i \in 1..l : z[i] = s[i] /\ s[i][1] # t
  BY <1>4 DEF Silent, Elems
<1>8. ASSUME NEW i \in DOMAIN z, NEW k \in DOMAIN z, i < k, z[i][1] = z[k][1]
      PROVE  z[i][2] < z[k][2]
  <2>1. CASE k \in 1..l
    <3>1. i \in 1..l
      BY ONLY SMTT(20), SMTT(30), <1>0, <1>4, <1>8, <2>1
    <3> QED
      BY ZenonT(30), <1>4, <1>7, <1>8, <2>1, <3>1 DEF Ordered
  <2>2. CASE k \in (l + 1)..(l + n)
    <3>1. z[k][1] = t /\ z[k][2] = k - l
      BY <1>6, <2>2
    <3>2. i \notin 1..l
      BY <1>7, <1>8, <3>1
    <3>3. i \in (l + 1)..(l + n)
      BY <1>0, <1>4, <3>2
    <3>4. z[i][2] = i - l
      BY <1>6, <3>3
    <3> QED
      BY <1>0, <1>4, <1>8, <3>1, <3>4
  <2> QED
    BY <1>0, <1>4, <2>1, <2>2
<1>9. Ordered(z)
  BY <1>8 DEF Ordered
<1> QED
  BY <1>0, <1>9 DEF z

\* A thread that goes on or ends without writing.
LEMMA QuietThreadOrder ==
  ASSUME OrderInv, NEW t \in Threads, \A q \in Threads : q # t => usb'[q] = usb[q],
         UNCHANGED <<caller, out>>,
         \A q \in Threads : q # t /\ holder = q => holder' = q,
         usb'[t].place \in {"alternate", "write"} => holder' = t,
         usb'[t].place = "write" => UpTo(out["usb"], t, usb'[t].written) /\ Last(out["usb"], t)
  PROVE  OrderInv'
<1>1. Ordered(out'["usb"]) /\ Unmixed(out'["usb"]) /\ Ordered(out'["other"])
  BY ZenonT(30) DEF OrderInv
<1>2. ASSUME NEW q \in Threads
      PROVE  /\ usb'[q].place \in {"alternate", "write"} => holder' = q
             /\ usb'[q].place = "write" => UpTo(out'["usb"], q, usb'[q].written) /\ Last(out'["usb"], q)
  <2>1. CASE q = t
    BY ZenonT(30), <2>1
  <2>2. CASE q # t
    BY ZenonT(30), <2>2 DEF OrderInv
  <2> QED
    BY <2>1, <2>2
<1>3. at' = "net_write" => UpTo(out'["other"], Me', chunk')
  BY DEF OrderInv, caller, Me
<1> QED
  BY <1>1, <1>2, <1>3, Zenon DEF OrderInv, Ordered, Unmixed, UpTo, Last

\* A thread that writes its next chunk has the interface claimed.
LEMMA WritingThreadOrder ==
  ASSUME TypeInv, OrderInv, NEW t \in Threads, \A q \in Threads : q # t => usb'[q] = usb[q],
         usb[t].place = "write", usb[t].written \in 0..Chunks, Chunks \in Nat,
         Arrives("usb", t, usb[t].written + 1), UNCHANGED caller,
         \/ usb'[t].place = "gone"
         \/ usb'[t].place = "write" /\ usb'[t].written = usb[t].written + 1 /\ holder' = holder
  PROVE  OrderInv'
<1> DEFINE n == usb[t].written
           s == out["usb"]
           z == Append(s, <<t, n + 1>>)
<1>1. n \in Nat /\ IsSeq(s) /\ holder = t
  <2>1. n \in Nat
    OBVIOUS
  <2>2. IsSeq(s)
    BY Zenon DEF TypeInv
  <2>3. holder = t
    BY Zenon DEF OrderInv
  <2> QED
    BY Zenon, <2>1, <2>2, <2>3
<1>2. out'["usb"] = z /\ out'["other"] = out["other"]
  BY SMTT(20), SMTT(30) DEF Arrives, TypeInv
<1>3. Ordered(s) /\ Unmixed(s) /\ UpTo(s, t, n) /\ Last(s, t)
  BY Zenon DEF OrderInv
<1> HIDE DEF n, s
<1>4. Ordered(z) /\ UpTo(z, t, n + 1)
  BY ONLY SMTT(20), SMTT(30), <1>1, <1>3, OrderedAppend
<1>5. Unmixed(z) /\ Last(z, t)
  BY ZenonT(30), <1>1, <1>3, UnmixedAppend
<1> HIDE DEF z
<1>6. \A q \in Threads : q # t => usb'[q].place \notin {"alternate", "write"}
  BY ZenonT(30), <1>1 DEF OrderInv
<1>7. Ordered(out'["usb"]) /\ Unmixed(out'["usb"]) /\ Ordered(out'["other"])
  BY ZenonT(30), <1>2, <1>4, <1>5 DEF OrderInv
<1>8. ASSUME NEW q \in Threads
      PROVE  /\ usb'[q].place \in {"alternate", "write"} => holder' = q
             /\ usb'[q].place = "write" => UpTo(out'["usb"], q, usb'[q].written) /\ Last(out'["usb"], q)
  <2>1. CASE q = t
    BY <1>1, <1>2, <1>4, <1>5, <2>1 DEF n
  <2>2. CASE q # t
    BY <1>6, <2>2
  <2> QED
    BY ZenonT(30), <2>1, <2>2
<1>9. at' = "net_write" => UpTo(out'["other"], Me', chunk')
  BY Zenon, <1>2 DEF OrderInv, caller, Me
<1> QED
  BY <1>7, <1>8, <1>9, Zenon DEF OrderInv, Ordered, Unmixed, UpTo, Last

LEMMA ThreadOrder ==
  ASSUME DeliveryInv, OrderInv, NEW t \in Threads, UsbThread(t)
  PROVE  OrderInv'
<1>1. /\ TypeInv /\ DOMAIN usb = Threads /\ DOMAIN usb[t] = {"place", "written", "outcome"}
      /\ usb[t].written \in 0..Chunks /\ Chunks \in Nat
      /\ usb[t].place = "alternate" => Silent(UsbOut, t)
  BY MeFacts DEF DeliveryInv, TypeInv, ThreadsInv, ThreadOK
<1>2. UNCHANGED caller
  BY DEF UsbThread, UsbSelect, UsbClaim, UsbAlternate, UsbWrite, UsbPanic
<1>3. ASSUME NEW o, Dies(t, o)
      PROVE  /\ usb'[t].place = "gone" /\ \A q \in Threads : q # t => usb'[q] = usb[q]
             /\ \A q \in Threads : q # t /\ holder = q => holder' = q
  BY <1>1, <1>3 DEF Dies
<1>4. ASSUME NEW o, Dies(t, o), UNCHANGED out
      PROVE  OrderInv'
  BY Zenon, <1>2, <1>3, <1>4, QuietThreadOrder
<1>5. CASE UsbSelect(t)
  <2>1. CASE usb' = [usb EXCEPT ![t].place = "claim"] /\ UNCHANGED holder
    <3>1. usb'[t].place = "claim" /\ \A q \in Threads : q # t => usb'[q] = usb[q]
      BY <1>1, <2>1
    <3>2. UNCHANGED out
      BY <1>5 DEF UsbSelect
    <3> QED
      BY <1>2, <2>1, <3>1, <3>2, QuietThreadOrder
  <2> QED
    BY <1>4, <1>5, <2>1 DEF UsbSelect
<1>6. CASE UsbClaim(t)
  <2>1. CASE holder = NoThread /\ holder' = t /\ usb' = [usb EXCEPT ![t].place = "alternate"]
    <3>1. usb'[t].place = "alternate" /\ \A q \in Threads : q # t => usb'[q] = usb[q]
      BY <1>1, <2>1
    <3>2. UNCHANGED out
      BY <1>6 DEF UsbClaim
    <3>3. NoThread \notin Threads
      BY DEF NoThread, Threads
    <3>4. \A q \in Threads : q # t /\ holder = q => holder' = q
      BY <2>1, <3>3
    <3> QED
      BY <1>2, <2>1, <3>1, <3>2, <3>4, QuietThreadOrder
  <2> QED
    BY <1>4, <1>6, <2>1 DEF UsbClaim
<1>7. CASE UsbAlternate(t)
  <2>1. CASE usb' = [usb EXCEPT ![t].place = "write"] /\ UNCHANGED holder
    <3>1. usb'[t].place = "write" /\ \A q \in Threads : q # t => usb'[q] = usb[q]
      BY <1>1, <2>1
    <3>2. UNCHANGED out /\ usb[t].place = "alternate"
      BY <1>7 DEF UsbAlternate
    <3>3. holder' = t
      BY <2>1, <3>2 DEF OrderInv
    <3>4. UpTo(out["usb"], t, usb'[t].written) /\ Last(out["usb"], t)
      BY Zenon, <1>1, <3>2 DEF UpTo, Last, Silent, UsbOut, Received
    <3> QED
      BY <1>2, <2>1, <3>1, <3>2, <3>3, <3>4, QuietThreadOrder
  <2> QED
    BY <1>4, <1>7, <2>1 DEF UsbAlternate
<1>8. CASE UsbWrite(t)
  <2>1. usb[t].place = "write"
    BY <1>8 DEF UsbWrite
  <2>2. CASE /\ Arrives("usb", t, usb[t].written + 1)
             /\ usb' = [usb EXCEPT ![t].written = usb[t].written + 1] /\ UNCHANGED holder
    <3>1. /\ usb'[t].place = "write" /\ usb'[t].written = usb[t].written + 1
          /\ \A q \in Threads : q # t => usb'[q] = usb[q]
      BY <1>1, <2>1, <2>2
    <3> QED
      BY <1>1, <1>2, <2>1, <2>2, <3>1, WritingThreadOrder
  <2>3. ASSUME NEW o, Dies(t, o), MayArrive(t)
        PROVE  OrderInv'
    <3>1. CASE Arrives("usb", t, usb[t].written + 1)
      BY Zenon, <1>1, <1>2, <1>3, <2>1, <2>3, <3>1, WritingThreadOrder
    <3> QED
      BY Zenon, <1>4, <2>3, <3>1 DEF MayArrive
  <2> QED
    BY <1>4, <1>8, <2>2, <2>3 DEF UsbWrite
<1>9. CASE UsbPanic(t)
  BY <1>4, <1>9 DEF UsbPanic
<1> QED
  BY ZenonT(30), <1>5, <1>6, <1>7, <1>8, <1>9 DEF UsbThread

\* A step of the caller leaves the threads that are running, and the USB printer,
\* alone.
LEMMA CallerOrder ==
  ASSUME TypeInv, OrderInv, holder' = holder, out'["usb"] = out["usb"],
         \A t \in Threads : usb'[t] = usb[t] \/ usb'[t].place = "select",
         Ordered(out'["other"]), at' = "net_write" => UpTo(out'["other"], Me', chunk')
  PROVE  OrderInv'
<1>1. ASSUME NEW t \in Threads
      PROVE  /\ usb'[t].place \in {"alternate", "write"} => holder' = t
             /\ usb'[t].place = "write" => UpTo(out'["usb"], t, usb'[t].written) /\ Last(out'["usb"], t)
  BY ZenonT(30) DEF OrderInv
<1>2. Ordered(out'["usb"]) /\ Unmixed(out'["usb"])
  BY DEF OrderInv
<1> QED
  BY <1>1, <1>2, ZenonT(30) DEF OrderInv, Ordered, Unmixed, UpTo, Last

\* What of the copy in hand has come to the other destination.
LEMMA OtherElems ==
  Elems(out["other"]) = OtherOut
BY DEF Elems, OtherOut, Received

LEMMA NetworkOrder ==
  ASSUME DeliveryInv, OrderInv, NetConnect \/ NetWrite
  PROVE  OrderInv'
<1> DEFINE s == out["other"]
<1>1. /\ TypeInv /\ IsSeq(s) /\ Ordered(s) /\ chunk \in Nat
      /\ UNCHANGED <<usb, holder, job, copy>> /\ Me' = Me
      /\ DOMAIN out = {"usb", "other"}
  <2>1. TypeInv /\ IsSeq(s) /\ DOMAIN out = {"usb", "other"}
    BY Zenon DEF DeliveryInv, TypeInv
  <2>2. Ordered(s)
    BY Zenon DEF OrderInv
  <2>3. chunk \in Nat
    BY MeFacts, <2>1 DEF TypeInv
  <2>4. UNCHANGED <<usb, holder, job, copy>>
    BY Zenon DEF NetConnect, NetWrite
  <2>5. Me' = Me
    BY Zenon, <2>4 DEF Me
  <2> QED
    BY Zenon, <2>1, <2>2, <2>3, <2>4, <2>5
<1>2. CASE NetConnect
  <2>1. UNCHANGED out /\ Silent(OtherOut, Me)
    BY <1>2 DEF NetConnect, DeliveryInv, CopyInv
  <2>2. UpTo(s, Me, chunk')
    BY <2>1, OtherElems DEF UpTo, Silent, Elems
  <2> HIDE DEF s
  <2>3. Ordered(out'["other"]) /\ UpTo(out'["other"], Me', chunk')
    BY <1>1, <2>1, <2>2 DEF s
  <2> QED
    BY <1>1, <2>1, <2>3, CallerOrder
<1>3. CASE NetWrite
  <2>1. UpTo(s, Me, chunk)
    BY <1>3 DEF NetWrite, OrderInv
  <2>2. CASE Arrives("other", Me, chunk + 1)
    <3> DEFINE z == Append(s, <<Me, chunk + 1>>)
    <3>1. out'["other"] = z /\ out'["usb"] = out["usb"]
      BY <1>1, <2>2 DEF Arrives
    <3>2. Ordered(z) /\ UpTo(z, Me, chunk + 1)
      BY <1>1, <2>1, OrderedAppend
    <3>3. at' = "net_write" => chunk' = chunk + 1
      BY <1>3, <2>2 DEF NetWrite, Goes, Ends
    <3> HIDE DEF z
    <3> QED
      BY <1>1, <3>1, <3>2, <3>3, CallerOrder
  <2>3. CASE UNCHANGED out /\ at' = "sent"
    BY <1>1, <2>3, CallerOrder
  <2> QED
    BY ONLY ZenonT(30), <1>3, <2>2, <2>3 DEF NetWrite, Ends
<1> QED
  BY <1>2, <1>3

LEMMA SpoolOrder ==
  ASSUME DeliveryInv, OrderInv, Spool \/ CupsWait
  PROVE  OrderInv'
<1> DEFINE s == out["other"]
<1>1. TypeInv /\ IsSeq(s) /\ Ordered(s) /\ DOMAIN out = {"usb", "other"}
  BY ZenonT(30) DEF DeliveryInv, TypeInv, OrderInv
<1>2. UNCHANGED <<usb, holder>> /\ at' # "net_write"
  <2>1. CASE WinOpen \/ WinStartDoc \/ WinStartPage
    BY ONLY SMTT(20), SMTT(30), <2>1 DEF WinOpen, WinStartDoc, WinStartPage, Win, Goes, Ends
  <2>2. CASE WinWrite \/ WinEndPage
    BY ONLY SMTT(20), SMTT(30), <2>2 DEF WinWrite, WinEndPage, Win, Goes, Ends
  <2>3. CASE WinEndDoc \/ WinClose
    BY ONLY SMTT(20), SMTT(30), <2>3 DEF WinEndDoc, WinClose, Win, Goes, Ends
  <2>4. CASE CupsSpawn \/ CupsStdin \/ CupsWait
    BY ONLY SMTT(20), SMTT(30), <2>4 DEF CupsSpawn, CupsStdin, CupsWait, Goes, Ends
  <2> QED
    BY ZenonT(30), <2>1, <2>2, <2>3, <2>4 DEF Spool
<1>3. CASE UNCHANGED out
  BY <1>1, <1>2, <1>3, CallerOrder
<1>4. CASE WinWrite \/ CupsWait
  <2>1. Silent(OtherOut, Me)
    BY <1>4 DEF WinWrite, Win, CupsWait, DeliveryInv, CopyInv
  <2>2. CASE out' = [out EXCEPT !["other"] = @ \o [k \in 1..Chunks |-> <<Me, k>>]]
    <3>1. out'["usb"] = out["usb"] /\ out'["other"] = s \o DocumentOf(Me)
      BY <1>1, <2>2, Zenon DEF DocumentOf
    <3>2. Ordered(s \o DocumentOf(Me))
      BY ONLY SMTT(20), SMTT(30), <1>1, <2>1, OtherElems, OrderedDocument
    <3> HIDE DEF s
    <3>3. Ordered(out'["other"])
      BY ZenonT(30), <3>1, <3>2
    <3> QED
      BY Zenon, <1>1, <1>2, <3>1, <3>3, CallerOrder
  <2>3. CASE Arrives("other", Me, 1)
    <3>1. out'["usb"] = out["usb"] /\ out'["other"] = Append(s, <<Me, 0 + 1>>)
      BY <1>1, <2>3 DEF Arrives
    <3>2. UpTo(s, Me, 0)
      BY <2>1, OtherElems DEF UpTo, Silent, Elems
    <3>3. Ordered(Append(s, <<Me, 0 + 1>>))
      BY <1>1, <3>2, OrderedAppend
    <3> HIDE DEF s
    <3>4. Ordered(out'["other"])
      BY ONLY SMTT(20), SMTT(30), <3>1, <3>3
    <3> QED
      BY <1>1, <1>2, <3>1, <3>4, CallerOrder
  <2> QED
    BY <1>3, <1>4, <2>2, <2>3, ZenonT(30) DEF WinWrite, CupsWait
<1> QED
  BY <1>3, <1>4, Zenon
  DEF Spool, WinOpen, WinStartDoc, WinStartPage, WinEndPage, WinEndDoc, WinClose, CupsSpawn, CupsStdin

\* The other steps of the caller send nothing, and no network send begins.
LEMMA StartOrder ==
  ASSUME DeliveryInv, OrderInv, StartDirect \/ StartUsb \/ UsbResult \/ UsbDeadline \/ Sent \/ NextJob
  PROVE  OrderInv'
<1>1. TypeInv /\ Ordered(out["other"]) /\ DOMAIN usb = Threads /\ Me \in Threads
  BY Zenon, MeFacts DEF DeliveryInv, TypeInv, OrderInv
<1>2. UNCHANGED <<holder, out>>
  BY DEF StartDirect, StartUsb, UsbResult, UsbDeadline, Sent, NextJob
<1>3. \A t \in Threads : usb'[t] = usb[t] \/ usb'[t].place = "select"
  <2>1. CASE UNCHANGED usb
    BY <2>1
  <2>2. CASE usb' = [usb EXCEPT ![Me].place = "select"]
    <3>1. DOMAIN usb[Me] = {"place", "written", "outcome"}
      BY <1>1 DEF DeliveryInv, ThreadsInv, ThreadOK
    <3> QED
      BY ZenonT(30), <1>1, <2>2, <3>1
  <2> QED
    BY <2>1, <2>2 DEF StartDirect, StartUsb, UsbResult, UsbDeadline, Sent, NextJob
<1>4. at' # "net_write"
  <2>1. ASSUME NEW f, send_usb_failure(f)
        PROVE  at' # "net_write"
    <3>1. CASE Goes(Entry(profile.fallback)) /\ profile.fallback # None
      <4>1. profile.fallback \in Direct
        BY <1>1, <3>1, DeliveryConstants DEF TypeInv
      <4> QED
        BY <3>1, <4>1, EntryIsSending DEF Goes
    <3> QED
      BY <2>1, <3>1 DEF send_usb_failure, Ends, fallback_decision
  <2>2. CASE StartDirect
    <3>1. route' \in Direct
      <4>1. copy > 0 => route # None
        BY ZenonT(30) DEF DeliveryInv, RouteInv
      <4>2. copy \in Nat /\ profile \in Profiles /\ route \in Direct \cup {None, "usb"}
        BY MeFacts DEF DeliveryInv, TypeInv
      <4> QED
        BY <2>2, <4>1, <4>2, DeliveryConstants DEF StartDirect, OnUsb
    <3> QED
      BY <2>2, <3>1, EntryIsSending DEF StartDirect, Goes
  <2>3. CASE StartUsb
    BY ZenonT(30), <2>1, <2>3 DEF StartUsb, Goes
  <2>4. CASE UsbResult \/ UsbDeadline
    BY ZenonT(30), <2>1, <2>4 DEF UsbResult, UsbDeadline, Ends
  <2>5. CASE Sent \/ NextJob
    BY <2>5 DEF Sent, NextJob
  <2> QED
    BY <2>2, <2>3, <2>4, <2>5
<1> QED
  BY <1>1, <1>2, <1>3, <1>4, CallerOrder

LEMMA OrderStep == DeliveryInv /\ OrderInv /\ [Next]_vars => OrderInv'
<1> SUFFICES ASSUME DeliveryInv, OrderInv, [Next]_vars
             PROVE  OrderInv'
  OBVIOUS
<1>1. CASE Caller
  BY <1>1, StartOrder, NetworkOrder DEF Caller
<1>2. CASE Spool \/ CupsWait
  BY <1>2, SpoolOrder
<1>3. ASSUME NEW t \in Threads, UsbThread(t)
      PROVE  OrderInv'
  BY ZenonT(30), <1>3, ThreadOrder
<1>4. CASE UNCHANGED vars
  BY <1>4 DEF vars, caller, OrderInv, Me
<1> QED
  BY <1>1, <1>2, <1>3, <1>4 DEF Next

\* For any number of jobs, copies and chunks: no destination receives a chunk
\* twice or out of its order, and on the USB printer nothing comes between two
\* chunks of one copy, the threads the caller has abandoned included: a thread
\* writes only while it holds the claim on the interface.
THEOREM ReceiptsStayIntact == Spec => []ReceiptsIntact
<1>1. Init => OrderInv
  <2> SUFFICES ASSUME Init PROVE OrderInv
    OBVIOUS
  <2>1. DOMAIN << >> = {}
    OBVIOUS
  <2>2. out["usb"] = << >> /\ out["other"] = << >> /\ at # "net_write"
    BY DEF Init
  <2>3. \A t \in Threads : usb[t].place = "unborn"
    BY DEF Init, Unborn
  <2>4. Ordered(<< >>) /\ Unmixed(<< >>)
    BY <2>1, Zenon DEF Ordered, Unmixed
  <2>5. "unborn" \notin {"alternate", "write"} /\ "unborn" # "write"
    OBVIOUS
  <2> QED
    BY <2>2, <2>3, <2>4, <2>5, Zenon DEF OrderInv
<1>2. DeliveryInv /\ OrderInv => ReceiptsIntact
  <2> SUFFICES ASSUME DeliveryInv, OrderInv, NEW d \in DOMAIN out, NEW i \in DOMAIN out[d], NEW k \in DOMAIN out[d],
                      i < k /\ out[d][i][1] = out[d][k][1]
               PROVE  /\ out[d][i][2] < out[d][k][2]
                      /\ d = "usb" => \A m \in i..k : out[d][m][1] = out[d][i][1]
    BY Zenon DEF ReceiptsIntact
  <2>1. d = "usb" \/ d = "other"
    BY DEF DeliveryInv, TypeInv
  <2>2. Ordered(out[d])
    BY Zenon, <2>1 DEF OrderInv
  <2>3. out[d][i][2] < out[d][k][2]
    BY Zenon, <2>2 DEF Ordered
  <2>4. CASE d = "usb"
    BY Zenon, <2>3, <2>4 DEF OrderInv, Unmixed
  <2> QED
    BY Zenon, <2>3, <2>4
<1> QED
  BY <1>1, <1>2, DeliveryAlways, OrderStep, PTL DEF Spec
=============================================================================
