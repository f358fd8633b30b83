------------------------ MODULE DesktopHandlersProofs -----------------------
(***************************************************************************)
(* Machine-checked proofs about the till's licence and sessions and about  *)
(* the form handlers of the club, the print settings and the catalogue,    *)
(* for any number of concurrent requests, activations, secrets and tokens, *)
(* and any records and ids.                                                *)
(***************************************************************************)
EXTENDS DesktopHandlers, FiniteSetTheorems, TLAPS

\* The provers tried in turn at a leaf that names none.
USE SMT, Zenon, SMTT(20)

----------------------------------------------------------------------------
(* The licence.                                                            *)

\* Unspoilt, a secret is written only while there is none, by one caller at a
\* time; whoever is about to sign holds the secret of the file; and a licence is
\* signed with it.  LicenseStaysValid alone is not inductive: a second writer, or
\* a caller with an old secret, would break it one step later.
SecretInv ==
  /\ caller \in [Callers -> [pc : {"idle", "secret", "write", "signed"}, goal : {"none", "check", "sign"},
                             key : Secrets \cup {NoSecret}]]
  /\ spoilt = "no" =>
       /\ \A c \in Callers : caller[c].pc = "write" => secret = NoSecret /\ caller[c].key # NoSecret
       /\ \A c, d \in Callers : caller[c].pc = "write" /\ caller[d].pc = "write" => c = d
       /\ \A c \in Callers : caller[c].pc = "signed" => caller[c].key = secret /\ secret # NoSecret
       /\ license # NoSecret => license = secret

LEMMA SecretInvStep ==
  ASSUME SecretInv, secret \in Secrets \cup {NoSecret}, AuthNext
  PROVE  SecretInv' /\ secret' \in Secrets \cup {NoSecret}
<1> USE NoSecretIsNone DEF SecretInv, Resting, Checking
<1>1. ASSUME NEW c \in Callers, ActivateLicense(c)
      PROVE  SecretInv' /\ secret' \in Secrets \cup {NoSecret}
  BY ZenonT(30), <1>1 DEF ActivateLicense
<1>2. ASSUME NEW c \in Callers, enforceAuth(c)
      PROVE  SecretInv' /\ secret' \in Secrets \cup {NoSecret}
  BY Zenon, <1>2 DEF enforceAuth
<1>3. ASSUME NEW c \in Callers, ReadSecret(c)
      PROVE  SecretInv' /\ secret' \in Secrets \cup {NoSecret}
  BY <1>3 DEF ReadSecret
<1>4. ASSUME NEW c \in Callers, WriteSecret(c)
      PROVE  SecretInv' /\ secret' \in Secrets \cup {NoSecret}
  BY <1>4 DEF WriteSecret
<1>5. ASSUME NEW c \in Callers, Signed(c)
      PROVE  SecretInv' /\ secret' \in Secrets \cup {NoSecret}
  <2>1. UNCHANGED <<secret, spoilt>> /\ caller[c].pc = "signed"
    BY <1>5 DEF Signed
  <2>2. CASE license' = license /\ caller' = [caller EXCEPT ![c] = Resting]
    BY <2>1, <2>2
  <2>3. CASE license' = caller[c].key /\ caller' = [caller EXCEPT ![c] = Checking]
    BY Zenon, <2>1, <2>3
  <2> QED
    BY <1>5, <2>2, <2>3 DEF Signed
<1>6. ASSUME NEW t \in Tokens, newSession(t) \/ dropSession(t)
      PROVE  SecretInv' /\ secret' \in Secrets \cup {NoSecret}
  BY <1>6 DEF newSession, dropSession, Persist
<1>7. CASE Restart
  BY <1>7 DEF Restart
<1> QED
  BY <1>1, <1>2, <1>3, <1>4, <1>5, <1>6, <1>7 DEF AuthNext

\* A licence stays valid through restarts and any concurrent activations and
\* checks, unless licenseSecret once failed to read the secret or two callers
\* made one at the same time.
THEOREM LicenceIsNeverLost == HandlersSpec => []LicenseStaysValid
<1> DEFINE I == SecretInv /\ secret \in Secrets \cup {NoSecret}
<1>1. HandlersInit => I
  BY DEF HandlersInit, AuthInit, SecretInv, Resting
<1>2. I /\ [HandlersNext]_vars => I'
  <2> SUFFICES ASSUME I, [HandlersNext]_vars
               PROVE  I'
    OBVIOUS
  <2>1. CASE AuthNext
    BY <2>1, SecretInvStep
  <2>2. CASE UNCHANGED authVars
    BY <2>2 DEF authVars, SecretInv
  <2> QED
    BY <2>1, <2>2 DEF HandlersNext, vars
<1>3. I => LicenseStaysValid
  BY DEF SecretInv, LicenseStaysValid
<1> QED
  BY <1>1, <1>2, <1>3, PTL DEF HandlersSpec

----------------------------------------------------------------------------
(* The sessions.                                                           *)

\* As long as no change was lost, no session that logged out is in memory, nor on
\* the disk unless the last write failed (a restart then counts as a loss).
SessionInv ==
  lost = "no" => /\ sessions \cap left = {}
                 /\ unsaved = "no" => disk \cap left = {}

LEMMA SessionInvStep ==
  ASSUME SessionInv, lost \in {"yes", "no"}, unsaved \in {"yes", "no"}, AuthNext
  PROVE  SessionInv' /\ lost' \in {"yes", "no"} /\ unsaved' \in {"yes", "no"}
<1>1. ASSUME NEW c \in Callers, ActivateLicense(c) \/ enforceAuth(c) \/ ReadSecret(c) \/ WriteSecret(c) \/ Signed(c)
      PROVE  UNCHANGED <<sessions, left, disk, unsaved, lost>>
  BY <1>1 DEF ActivateLicense, enforceAuth, ReadSecret, WriteSecret, Signed
<1>2. ASSUME NEW t \in Tokens, newSession(t)
      PROVE  SessionInv' /\ lost' \in {"yes", "no"} /\ unsaved' \in {"yes", "no"}
  BY <1>2 DEF newSession, Persist, SessionInv
<1>3. ASSUME NEW t \in Tokens, dropSession(t)
      PROVE  SessionInv' /\ lost' \in {"yes", "no"} /\ unsaved' \in {"yes", "no"}
  BY <1>3 DEF dropSession, Persist, SessionInv
<1>4. CASE Restart
  BY <1>4 DEF Restart, SessionInv
<1> QED
  BY <1>1, <1>2, <1>3, <1>4 DEF AuthNext, SessionInv

\* A session that logged out is not accepted again, also after restarts, unless
\* the program stopped while persistSessionsLocked could not write the file.
THEOREM LogoutIsFinal == HandlersSpec => []LoggedOutStaysOut
<1> DEFINE I == SessionInv /\ lost \in {"yes", "no"} /\ unsaved \in {"yes", "no"}
<1>1. HandlersInit => I
  BY DEF HandlersInit, AuthInit, SessionInv
<1>2. I /\ [HandlersNext]_vars => I'
  <2> SUFFICES ASSUME I, [HandlersNext]_vars
               PROVE  I'
    OBVIOUS
  <2>1. CASE AuthNext
    BY <2>1, SessionInvStep
  <2>2. CASE UNCHANGED authVars
    BY <2>2 DEF authVars, SessionInv
  <2> QED
    BY <2>1, <2>2 DEF HandlersNext, vars
<1>3. I => LoggedOutStaysOut
  BY DEF SessionInv, LoggedOutStaysOut
<1> QED
  BY <1>1, <1>2, <1>3, PTL DEF HandlersSpec

----------------------------------------------------------------------------
(* The records and the calls under way, whatever the handlers are.         *)

IsSeq(s) == \E S : s \in Seq(S)

LEMMA SeqFacts ==
  ASSUME NEW s, IsSeq(s)
  PROVE  Len(s) \in Nat /\ DOMAIN s = 1..Len(s)
BY DEF IsSeq

Shaped(r, K) == \E T : r \in [K -> [Ids -> T]]

Queues(wk) == \E T : wk \in [Workers -> Seq(T)]

\* At most this record changes.
OnlyThis(r, q, K, kind, id) ==
  \A k \in K : \A j \in Ids : k # kind \/ j # id => q[k][j] = r[k][j]

LEMMA RecordChange ==
  ASSUME NEW K, Shaped(records, K), NEW kind \in K, NEW id \in Ids, NEW v,
         records' = [records EXCEPT ![kind][id] = v]
  PROVE  /\ Shaped(records', K)
         /\ records'[kind][id] = v
         /\ OnlyThis(records, records', K, kind, id)
<1>1. PICK T : records \in [K -> [Ids -> T]]
  BY Zenon DEF Shaped
<1>2. records \in [K -> [Ids -> T \cup {v}]]
  BY <1>1
<1>3. records' \in [K -> [Ids -> T \cup {v}]]
  BY <1>2
<1>4. Shaped(records', K)
  BY Zenon, <1>3 DEF Shaped
<1>5. records'[kind][id] = v
  BY <1>1
<1>6. OnlyThis(records, records', K, kind, id)
  BY <1>1 DEF OnlyThis
<1> QED
  BY <1>4, <1>5, <1>6

LEMMA QueueFactsOf ==
  ASSUME NEW wk, Queues(wk), NEW w \in Workers
  PROVE  IsSeq(wk[w]) /\ \A i \in DOMAIN wk[w] : i \in Nat
<1>1. PICK T : wk \in [Workers -> Seq(T)]
  BY DEF Queues
<1>2. wk[w] \in Seq(T)
  BY <1>1
<1>3. IsSeq(wk[w])
  BY <1>2 DEF IsSeq
<1> QED
  BY <1>2, <1>3

LEMMA QueueFacts ==
  ASSUME Queues(work), NEW w \in Workers
  PROVE  /\ IsSeq(work[w]) /\ Len(work[w]) \in Nat /\ DOMAIN work[w] = 1..Len(work[w])
         /\ ~Idle(w) <=> 1 \in DOMAIN work[w]
         /\ ~Idle(w) => Head(work[w]) = work[w][1]
<1>1. PICK T : work \in [Workers -> Seq(T)]
  BY DEF Queues
<1>2. work[w] \in Seq(T)
  BY <1>1
<1>3. IsSeq(work[w])
  BY <1>2 DEF IsSeq
<1> QED
  BY <1>2, <1>3 DEF Idle

LEMMA QueueChange ==
  ASSUME Queues(work), NEW w \in Workers, NEW s, IsSeq(s), work' = [work EXCEPT ![w] = s]
  PROVE  /\ Queues(work') /\ work'[w] = s
         /\ \A v \in Workers : v # w => work'[v] = work[v]
<1>1. PICK T : work \in [Workers -> Seq(T)]
  BY DEF Queues
<1>2. PICK U : s \in Seq(U)
  BY DEF IsSeq
<1>3. s \in Seq(T \cup U) /\ \A v \in Workers : work[v] \in Seq(T \cup U)
  BY <1>1, <1>2
<1>4. work' \in [Workers -> Seq(T \cup U)]
  BY <1>1, <1>3
<1>5. Queues(work')
  BY <1>4 DEF Queues
<1> QED
  BY <1>1, <1>5

\* The rest of a request's calls, one place further on.
LEMMA RestOf ==
  ASSUME Queues(work), NEW w \in Workers, ~Idle(w)
  PROVE  /\ IsSeq(Tail(work[w])) /\ Len(Tail(work[w])) = Len(work[w]) - 1
         /\ \A i \in DOMAIN Tail(work[w]) : i + 1 \in DOMAIN work[w] /\ Tail(work[w])[i] = work[w][i + 1]
         /\ \A i \in DOMAIN work[w] : i # 1 => i - 1 \in DOMAIN Tail(work[w]) /\ Tail(work[w])[i - 1] = work[w][i]
<1>1. PICK T : work \in [Workers -> Seq(T)]
  BY DEF Queues
<1>2. work[w] \in Seq(T) /\ work[w] # << >>
  BY <1>1 DEF Idle
<1>3. Tail(work[w]) \in Seq(T)
  BY <1>2
<1>4. IsSeq(Tail(work[w]))
  BY <1>3 DEF IsSeq
<1> QED
  BY <1>2, <1>4

LEMMA OneCall ==
  ASSUME NEW c
  PROVE  IsSeq(<<c>>) /\ Len(<<c>>) = 1 /\ DOMAIN <<c>> = {1} /\ <<c>>[1] = c /\ <<c>> # << >>
<1>1. <<c>> \in Seq({c})
  OBVIOUS
<1>2. Len(<<c>>) = 1 /\ DOMAIN <<c>> = 1..1 /\ <<c>>[1] = c /\ <<c>> # << >>
  OBVIOUS
<1>3. 1..1 = {1}
  OBVIOUS
<1> QED
  BY Zenon, <1>1, <1>2, <1>3 DEF IsSeq

LEMMA TwoCalls ==
  ASSUME NEW c, NEW d
  PROVE  IsSeq(<<c, d>>) /\ Len(<<c, d>>) = 2 /\ DOMAIN <<c, d>> = {1, 2} /\ <<c, d>>[1] = c /\ <<c, d>>[2] = d
<1>1. <<c, d>> \in Seq({c, d})
  OBVIOUS
<1>2. Len(<<c, d>>) = 2 /\ DOMAIN <<c, d>> = 1..2 /\ <<c, d>>[1] = c /\ <<c, d>>[2] = d
  OBVIOUS
<1>3. 1..2 = {1, 2}
  OBVIOUS
<1> QED
  BY Zenon, <1>1, <1>2, <1>3 DEF IsSeq

LEMMA NoCalls == IsSeq(<< >>) /\ Len(<< >>) = 0 /\ DOMAIN << >> = {}
<1>1. IsSeq(<< >>)
  <2>1. << >> \in Seq({})
    OBVIOUS
  <2> QED
    BY <2>1 DEF IsSeq
<1>2. Len(<< >>) = 0 /\ DOMAIN << >> = {}
  OBVIOUS
<1> QED
  BY <1>1, <1>2

\* SaveLocalRecord, field by field.
Written(old, new, fields) ==
  /\ new.live = "yes"
  /\ old.live # "yes" => new.f = fields
  /\ old.live = "yes" => /\ DOMAIN new.f = DOMAIN fields \cup DOMAIN old.f
                         /\ \A k \in DOMAIN old.f : k \notin DOMAIN fields => new.f[k] = old.f[k]
  /\ \A k \in DOMAIN fields : k \in DOMAIN new.f /\ new.f[k] = fields[k]

LEMMA SaveWrites ==
  ASSUME NEW K, Shaped(records, K), NEW kind \in K, NEW id \in Ids, NEW fields, SaveLocalRecord(kind, id, fields)
  PROVE  Shaped(records', K) /\ Written(records[kind][id], records'[kind][id], fields) /\ OnlyThis(records, records', K, kind, id)
<1> DEFINE old == records[kind][id].f
           new == IF IsLive(kind, id) THEN Merged(fields, old) ELSE fields
<1>1. records' = [records EXCEPT ![kind][id] = Stored(new)]
  BY DEF SaveLocalRecord
<1> HIDE DEF new
<1>2. Shaped(records', K) /\ records'[kind][id] = Stored(new) /\ OnlyThis(records, records', K, kind, id)
  BY ZenonT(30), <1>1, RecordChange
<1>3. records'[kind][id].live = "yes" /\ records'[kind][id].f = new
  BY <1>2 DEF Stored
<1>4. CASE IsLive(kind, id)
  <2>1. new = Merged(fields, old)
    BY <1>4 DEF new
  <2>2. /\ DOMAIN new = DOMAIN fields \cup DOMAIN old
        /\ \A k \in DOMAIN fields : new[k] = fields[k]
        /\ \A k \in DOMAIN old : k \notin DOMAIN fields => new[k] = old[k]
    BY <2>1 DEF Merged
  <2>3. records[kind][id].live = "yes"
    BY <1>4 DEF IsLive
  <2>4. Written(records[kind][id], records'[kind][id], fields)
    BY <1>3, <2>2, <2>3 DEF Written
  <2> QED
    BY <1>2, <2>4
<1>5. CASE ~IsLive(kind, id)
  <2>1. new = fields
    BY <1>5 DEF new
  <2> QED
    BY <1>2, <1>3, <1>5, <2>1 DEF Written, IsLive
<1> QED
  BY <1>4, <1>5

LEMMA DeleteWrites ==
  ASSUME NEW K, Shaped(records, K), NEW kind \in K, NEW id \in Ids, DeleteLocalRecord(kind, id)
  PROVE  Shaped(records', K) /\ records'[kind][id] = Gone /\ OnlyThis(records, records', K, kind, id)
BY ZenonT(30), RecordChange DEF DeleteLocalRecord

\* A new id is drawn by one save of one request.
DrawnOnce(r, wk) ==
  \A v, w \in Workers : \A i \in DOMAIN wk[v], j \in DOMAIN wk[w] :
    /\ wk[v][i].op = "save" /\ wk[w][j].op = "save"
    /\ wk[v][i].kind = wk[w][j].kind /\ wk[v][i].id = wk[w][j].id
    /\ r[wk[v][i].kind][wk[v][i].id] = Missing
    => v = w /\ i = j

CallTyped(c, K) == c.kind \in K /\ c.id \in Ids /\ c.op \in {"save", "delete", "recipe"}

RecordsInv(r, wk, K) ==
  /\ Shaped(r, K) /\ Queues(wk)
  /\ \A w \in Workers : \A i \in DOMAIN wk[w] : CallTyped(wk[w][i], K)
  /\ DrawnOnce(r, wk)

\* The calls of a request that begins.
NewCalls(s, K) ==
  /\ IsSeq(s)
  /\ \A i \in DOMAIN s : CallTyped(s[i], K)
  /\ \A i \in DOMAIN s : s[i].op = "save" /\ records[s[i].kind][s[i].id] = Missing => s[i].id \in Fresh(s[i].kind)
  /\ \A i, j \in DOMAIN s : s[i].op = "save" /\ s[j].op = "save" /\ s[i].kind = s[j].kind /\ s[i].id = s[j].id => i = j

LEMMA CallsReplaced ==
  ASSUME NEW K, RecordsInv(records, work, K), NEW w \in Workers, NEW s, NewCalls(s, K),
         records' = records, work' = [work EXCEPT ![w] = s]
  PROVE  /\ RecordsInv(records', work', K)
         /\ work'[w] = s
         /\ \A v \in Workers : v # w => work'[v] = work[v]
<1>1. records' = records /\ work' = [work EXCEPT ![w] = s]
  OBVIOUS
<1>2. IsSeq(s) /\ Queues(work)
  BY DEF NewCalls, RecordsInv
<1>3. Queues(work') /\ work'[w] = s /\ \A v \in Workers : v # w => work'[v] = work[v]
  BY Zenon, <1>1, <1>2, QueueChange
<1>4. \A v \in Workers : \A i \in DOMAIN work'[v] : CallTyped(work'[v][i], K)
  BY <1>3 DEF NewCalls, RecordsInv
<1>5. DrawnOnce(records', work')
  <2> SUFFICES ASSUME NEW u \in Workers, NEW v \in Workers, NEW i \in DOMAIN work'[u], NEW j \in DOMAIN work'[v],
                      work'[u][i].op = "save", work'[v][j].op = "save",
                      work'[u][i].kind = work'[v][j].kind, work'[u][i].id = work'[v][j].id,
                      records[work'[u][i].kind][work'[u][i].id] = Missing
               PROVE  u = v /\ i = j
    BY <1>1 DEF DrawnOnce
  <2>1. CASE u # w /\ v # w
    BY <1>3, <2>1 DEF RecordsInv, DrawnOnce
  <2>2. CASE u = w /\ v = w
    BY <1>3, <2>2 DEF NewCalls
  <2>3. ASSUME NEW x \in Workers, x # w, NEW a \in DOMAIN s, NEW b \in DOMAIN work[x],
               s[a].op = "save", s[a].kind = work[x][b].kind, s[a].id = work[x][b].id,
               records[s[a].kind][s[a].id] = Missing
        PROVE  FALSE
    <3>1. s[a].id \in Fresh(s[a].kind)
      BY <2>3 DEF NewCalls
    <3>2. work[x][b] \in Calls(x)
      BY DEF Calls
    <3> QED
      BY ZenonT(30), <2>3, <3>1, <3>2 DEF Fresh
  <2>4. CASE u = w /\ v # w
    BY ZenonT(30), <1>3, <2>3, <2>4
  <2>5. CASE u # w /\ v = w
    <3>1. j \in DOMAIN s /\ work'[v][j] = s[j] /\ i \in DOMAIN work[u] /\ work'[u][i] = work[u][i]
      BY <1>3, <2>5
    <3>2. s[j].op = "save" /\ s[j].kind = work[u][i].kind /\ s[j].id = work[u][i].id
      BY <3>1
    <3>3. records[s[j].kind][s[j].id] = Missing
      BY <3>1, <3>2
    <3> QED
      BY <2>3, <2>5, <3>1, <3>2, <3>3
  <2> QED
    BY <2>1, <2>2, <2>4, <2>5
<1>6. Shaped(records', K)
  BY <1>1 DEF RecordsInv
<1> QED
  BY <1>1, <1>3, <1>4, <1>5, <1>6 DEF RecordsInv

LEMMA BeginKeeps ==
  ASSUME NEW K, RecordsInv(records, work, K), NEW w \in Workers, NEW s, NEW kinds,
         Begin(w, s, kinds), NewCalls(s, K)
  PROVE  /\ RecordsInv(records', work', K)
         /\ records' = records /\ cut' = cut /\ Idle(w) /\ work'[w] = s
         /\ \A v \in Workers : v # w => work'[v] = work[v]
<1>1. records' = records /\ cut' = cut /\ Idle(w) /\ work' = [work EXCEPT ![w] = s]
  BY DEF Begin
<1> QED
  BY Zenon, <1>1, CallsReplaced

\* What the next call of a request does.
Outcome(r, q, s, t, K) ==
  \/ /\ s[1].op = "save" /\ t = Tail(s)
     /\ Written(r[s[1].kind][s[1].id], q[s[1].kind][s[1].id], s[1].fields)
     /\ OnlyThis(r, q, K, s[1].kind, s[1].id)
  \/ /\ s[1].op = "delete" /\ t = Tail(s)
     /\ r[s[1].kind][s[1].id].live = "yes" /\ q[s[1].kind][s[1].id] = Gone
     /\ OnlyThis(r, q, K, s[1].kind, s[1].id)
  \/ s[1].op = "delete" /\ t = << >> /\ q = r

LEMMA StoreCallDoes ==
  ASSUME NEW K, RecordsInv(records, work, K), NEW w \in Workers, StoreCall(w)
  PROVE  /\ RecordsInv(records', work', K)
         /\ cut' = cut /\ clean' = clean /\ 1 \in DOMAIN work[w]
         /\ Outcome(records, records', work[w], work'[w], K)
         /\ \A v \in Workers : v # w => work'[v] = work[v]
         /\ \A i \in DOMAIN work'[w] : i + 1 \in DOMAIN work[w] /\ work'[w][i] = work[w][i + 1]
         /\ \A k \in K : \A i \in Ids : records'[k][i] = Missing => records[k][i] = Missing
<1> DEFINE c == work[w][1]
<1>1. Shaped(records, K) /\ Queues(work) /\ ~Idle(w) /\ cut' = cut /\ clean' = clean
  BY DEF RecordsInv, StoreCall
<1>2. 1 \in DOMAIN work[w] /\ Head(work[w]) = c
  BY <1>1, QueueFacts
<1>3. CallTyped(c, K)
  BY <1>2 DEF RecordsInv
<1>4. c.kind \in K /\ c.id \in Ids
  BY <1>3 DEF CallTyped
<1>5. /\ IsSeq(Tail(work[w]))
      /\ \A i \in DOMAIN Tail(work[w]) : i + 1 \in DOMAIN work[w] /\ Tail(work[w])[i] = work[w][i + 1]
  BY ZenonT(30), <1>1, RestOf
<1>6. /\ Shaped(records', K)
      /\ Outcome(records, records', work[w], work'[w], K)
      /\ Queues(work')
      /\ \A v \in Workers : v # w => work'[v] = work[v]
      /\ \A i \in DOMAIN work'[w] : i + 1 \in DOMAIN work[w] /\ work'[w][i] = work[w][i + 1]
  <2>1. CASE c.op = "save"
    <3>1. SaveLocalRecord(c.kind, c.id, c.fields) /\ work' = [work EXCEPT ![w] = Tail(work[w])]
      BY ZenonT(30), <1>2, <2>1 DEF StoreCall
    <3>2. /\ Shaped(records', K) /\ Written(records[c.kind][c.id], records'[c.kind][c.id], c.fields)
          /\ OnlyThis(records, records', K, c.kind, c.id)
      BY <1>1, <1>4, <3>1, SaveWrites
    <3>3. Queues(work') /\ work'[w] = Tail(work[w]) /\ \A v \in Workers : v # w => work'[v] = work[v]
      BY ZenonT(30), <1>1, <1>5, <3>1, QueueChange
    <3> QED
      BY ONLY ZenonT(30), <1>5, <2>1, <3>2, <3>3 DEF Outcome
  <2>2. CASE c.op = "delete" /\ IsLive(c.kind, c.id)
    <3>1. DeleteLocalRecord(c.kind, c.id) /\ work' = [work EXCEPT ![w] = Tail(work[w])]
      BY <1>2, <2>2 DEF StoreCall
    <3>2. Shaped(records', K) /\ records'[c.kind][c.id] = Gone /\ OnlyThis(records, records', K, c.kind, c.id)
      BY <1>1, <1>4, <3>1, DeleteWrites
    <3>3. Queues(work') /\ work'[w] = Tail(work[w]) /\ \A v \in Workers : v # w => work'[v] = work[v]
      BY Zenon, <1>1, <1>5, <3>1, QueueChange
    <3> QED
      BY ONLY ZenonT(30), <1>5, <2>2, <3>2, <3>3 DEF Outcome, IsLive
  <2>3. CASE c.op = "delete" /\ ~IsLive(c.kind, c.id)
    <3>1. records' = records /\ work' = [work EXCEPT ![w] = << >>]
      BY <1>2, <2>3 DEF StoreCall
    <3>2. Queues(work') /\ work'[w] = << >> /\ \A v \in Workers : v # w => work'[v] = work[v]
      BY Zenon, <1>1, <3>1, NoCalls, QueueChange
    <3> QED
      BY ZenonT(30), <1>1, <2>3, <3>1, <3>2, NoCalls DEF Outcome
  <2> QED
    BY ZenonT(30), <1>2, <2>1, <2>2, <2>3 DEF StoreCall
<1>7. \A k \in K : \A i \in Ids : records'[k][i] = Missing => records[k][i] = Missing
  <2>1. Missing.live = "no" /\ Gone.live = "gone"
    BY DEF Missing, Gone
  <2>2. \/ /\ records'[c.kind][c.id].live # "no"
           /\ OnlyThis(records, records', K, c.kind, c.id)
        \/ records' = records
    BY Zenon, <1>6, <2>1 DEF Outcome, Written
  <2> QED
    BY <2>1, <2>2 DEF OnlyThis
<1>8. \A v \in Workers : \A i \in DOMAIN work'[v] : CallTyped(work'[v][i], K)
  BY <1>6 DEF RecordsInv
<1>9. DrawnOnce(records', work')
  <2> SUFFICES ASSUME NEW u \in Workers, NEW v \in Workers, NEW i \in DOMAIN work'[u], NEW j \in DOMAIN work'[v],
                      work'[u][i].op = "save", work'[v][j].op = "save",
                      work'[u][i].kind = work'[v][j].kind, work'[u][i].id = work'[v][j].id,
                      records'[work'[u][i].kind][work'[u][i].id] = Missing
               PROVE  u = v /\ i = j
    BY DEF DrawnOnce
  <2>1. records[work'[u][i].kind][work'[u][i].id] = Missing
    BY <1>7, <1>8 DEF CallTyped
  <2> DEFINE a == IF u = w THEN i + 1 ELSE i
             b == IF v = w THEN j + 1 ELSE j
  <2>2. a \in DOMAIN work[u] /\ work'[u][i] = work[u][a] /\ b \in DOMAIN work[v] /\ work'[v][j] = work[v][b]
    BY ONLY SMTT(20), SMTT(30), <1>6
  <2>3. i \in Nat /\ j \in Nat
    BY ONLY ZenonT(30), <1>6, QueueFactsOf
  <2>4. u = v /\ a = b
    <3> HIDE DEF a, b
    <3> QED
      BY <2>1, <2>2 DEF RecordsInv, DrawnOnce
  <2> QED
    BY <2>3, <2>4
<1> QED
  BY <1>1, <1>2, <1>6, <1>7, <1>8, <1>9 DEF RecordsInv

LEMMA SaveIs ==
  ASSUME NEW kind, NEW id, NEW fields, NEW must
  PROVE  /\ Save(kind, id, fields, must).op = "save" /\ Save(kind, id, fields, must).kind = kind
         /\ Save(kind, id, fields, must).id = id /\ Save(kind, id, fields, must).fields = fields
BY DEF Save

LEMMA DeleteIs ==
  ASSUME NEW kind, NEW id
  PROVE  Delete(kind, id).op = "delete" /\ Delete(kind, id).kind = kind /\ Delete(kind, id).id = id
BY DEF Delete

LEMMA OneSave ==
  ASSUME NEW K, NEW kind \in K, NEW id \in Ids, NEW fields, NEW must,
         records[kind][id] # Missing \/ id \in Fresh(kind)
  PROVE  NewCalls(<<Save(kind, id, fields, must)>>, K)
<1> DEFINE c == Save(kind, id, fields, must)
<1>1. c.op = "save" /\ c.kind = kind /\ c.id = id
  BY ONLY SaveIs
<1> HIDE DEF c
<1>2. IsSeq(<<c>>) /\ DOMAIN <<c>> = {1} /\ <<c>>[1] = c
  BY OneCall
<1>3. CallTyped(c, K)
  BY <1>1 DEF CallTyped
<1>4. NewCalls(<<c>>, K)
  BY <1>1, <1>2, <1>3 DEF NewCalls
<1> QED
  BY <1>4 DEF c

LEMMA OneDelete ==
  ASSUME NEW K, NEW kind \in K, NEW id \in Ids
  PROVE  NewCalls(<<Delete(kind, id)>>, K)
<1> DEFINE c == Delete(kind, id)
<1>1. c.op = "delete" /\ c.kind = kind /\ c.id = id
  BY ONLY DeleteIs
<1> HIDE DEF c
<1>2. IsSeq(<<c>>) /\ DOMAIN <<c>> = {1} /\ <<c>>[1] = c
  BY OneCall
<1>3. CallTyped(c, K)
  BY <1>1 DEF CallTyped
<1>4. NewCalls(<<c>>, K)
  BY <1>1, <1>2, <1>3 DEF NewCalls
<1> QED
  BY <1>4 DEF c

LEMMA LiveIsKnown ==
  ASSUME NEW kind, NEW id \in Live(kind)
  PROVE  id \in Ids /\ records[kind][id].live = "yes" /\ records[kind][id] # Missing
BY DEF Live, IsLive, Missing

----------------------------------------------------------------------------
(* The customer club.                                                      *)

ClubKinds == {"customer", "customer_group", "membership_payment"}

MemberCall(x) == Save("customer", x, [member |-> "true"], "no")

\* A call of a club request.  A customer who is there can be made a member, not be
\* unmade one; a payment is saved for a customer who is there; and the save that
\* marks one as paid is followed by the save of its customer's membership.
ClubCall(r, s, i) ==
  /\ s[i].op \in {"save", "delete"}
  /\ s[i].op = "delete" => s[i].kind = "customer_group" /\ i = Len(s)
  /\ s[i].kind = "customer" =>
       \/ r["customer"][s[i].id] = Missing
       \/ /\ r["customer"][s[i].id].live = "yes"
          /\ "member" \in DOMAIN s[i].fields => s[i].fields["member"] = "true"
  /\ s[i].kind = "membership_payment" =>
       \/ /\ r["membership_payment"][s[i].id] = Missing
          /\ DOMAIN s[i].fields = {"customer", "status"}
          /\ s[i].fields["status"] = "pending"
          /\ s[i].fields["customer"] \in Ids /\ r["customer"][s[i].fields["customer"]].live = "yes"
       \/ /\ r["membership_payment"][s[i].id].live = "yes"
          /\ "customer" \notin DOMAIN s[i].fields
          /\ i + 1 \in DOMAIN s
          /\ s[i + 1] = MemberCall(r["membership_payment"][s[i].id].f["customer"])

\* A payment names a customer who is there.
PayersLive(r) ==
  \A p \in Ids : r["membership_payment"][p].live = "yes" =>
    LET f == r["membership_payment"][p].f
    IN "customer" \in DOMAIN f /\ f["customer"] \in Ids /\ r["customer"][f["customer"]].live = "yes"

ClubCalls(r, wk) == \A w \in Workers : \A i \in DOMAIN wk[w] : ClubCall(r, wk[w], i)

\* Who has paid is a member or about to become one.
PaidAreMembers(r, wk) ==
  \A p \in Ids :
    LET f == r["membership_payment"][p].f IN
    r["membership_payment"][p].live = "yes" /\ "status" \in DOMAIN f /\ f["status"] = "paid" =>
      \/ "member" \in DOMAIN r["customer"][f["customer"]].f /\ r["customer"][f["customer"]].f["member"] = "true"
      \/ \E w \in Workers : \E i \in DOMAIN wk[w] : wk[w][i] = MemberCall(f["customer"])

ClubInv(r, wk) ==
  RecordsInv(r, wk, ClubKinds) /\ ClubCalls(r, wk) /\ PayersLive(r) /\ PaidAreMembers(r, wk)

\* A request that saves one record, not a payment.
LEMMA OneClubSave ==
  ASSUME NEW kind \in {"customer", "customer_group"}, NEW id \in Ids, NEW fields, NEW must,
         records[kind][id] # Missing \/ id \in Fresh(kind),
         kind = "customer" => \/ id \in Fresh(kind)
                              \/ records[kind][id].live = "yes" /\ "member" \notin DOMAIN fields
  PROVE  LET s == <<Save(kind, id, fields, must)>>
         IN NewCalls(s, ClubKinds) /\ \A i \in DOMAIN s : ClubCall(records, s, i)
<1> DEFINE c == Save(kind, id, fields, must)
<1>1. c.op = "save" /\ c.kind = kind /\ c.id = id /\ c.fields = fields
  BY ONLY SaveIs
<1>2. NewCalls(<<c>>, ClubKinds)
  BY OneSave DEF ClubKinds
<1> HIDE DEF c
<1>3. DOMAIN <<c>> = {1} /\ <<c>>[1] = c
  BY OneCall
<1>4. id \in Fresh(kind) => records[kind][id] = Missing
  BY DEF Fresh
<1>5. ClubCall(records, <<c>>, 1)
  BY <1>1, <1>3, <1>4 DEF ClubCall
<1> QED
  BY <1>2, <1>3, <1>5 DEF c

\* The calls handleClubGroupDelete makes.
GroupMembers(g) == {c \in Entities("customer") : Field("customer", c, "group") = g}

DeletionCalls(ms, g) ==
  [i \in DOMAIN ms |-> Save("customer", ms[i], [group |-> NoGroup], "no")] \o <<Delete("customer_group", g)>>

LEMMA GroupDeleteCalls ==
  ASSUME NEW g \in Ids, NEW members \in InOrder(GroupMembers(g)), NEW n, n = Cardinality(GroupMembers(g)),
         NEW s, s = DeletionCalls(members, g)
  PROVE  /\ n \in Nat /\ IsSeq(s) /\ Len(s) = n + 1 /\ DOMAIN s = 1..(n + 1) /\ s # << >>
         /\ \A i \in 1..n : /\ members[i] \in GroupMembers(g)
                           /\ s[i] = Save("customer", members[i], [group |-> NoGroup], "no")
         /\ s[n + 1] = Delete("customer_group", g)
         /\ \A i, j \in 1..n : members[i] = members[j] => i = j
         /\ \A x \in GroupMembers(g) : \E i \in 1..n : members[i] = x
<1> DEFINE M == GroupMembers(g)
           d == Delete("customer_group", g)
           a == [i \in DOMAIN members |-> Save("customer", members[i], [group |-> NoGroup], "no")]
<1>0. s = a \o <<d>>
  BY DEF DeletionCalls
<1>1. M \subseteq Ids
  BY DEF GroupMembers, Entities, Live
<1>2. IsFiniteSet(M) /\ n \in Nat
  BY <1>1, IdsAreNumbers, FS_Subset, FS_CardinalityType
<1>3. members \in [1..n -> M] /\ \A i, j \in 1..n : i < j => members[i] < members[j]
  BY DEF InOrder
<1> HIDE DEF M
<1>4. \A i, j \in 1..n : members[i] = members[j] => i = j
  <2> SUFFICES ASSUME NEW i \in 1..n, NEW j \in 1..n, members[i] = members[j] PROVE i = j
    OBVIOUS
  <2>1. members[i] \in Nat /\ members[j] \in Nat
    BY Zenon, <1>1, <1>3, IdsAreNumbers
  <2>2. ~(i < j) /\ ~(j < i)
    BY <1>3, <2>1
  <2> QED
    BY <1>2, <2>2
<1>5. \A x \in M : \E i \in 1..n : members[i] = x
  <2>1. members \in Injection(1..n, M)
    BY <1>3, <1>4 DEF Injection, IsInjective
  <2>2. Cardinality(1..n) = n
    BY <1>2, FS_Interval
  <2>3. members \in Surjection(1..n, M)
    BY <1>2, <2>1, <2>2, FS_Injection DEF M
  <2> QED
    BY <2>3 DEF Surjection
<1>6. DOMAIN members = 1..n
  BY <1>3
<1>8. a = [i \in 1..n |-> a[i]] /\ \A i \in 1..n : a[i] = Save("customer", members[i], [group |-> NoGroup], "no")
  BY <1>6
<1> DEFINE A == {a[i] : i \in 1..n}
<1> HIDE DEF a, d
<1>7. a \in Seq(A) /\ Len(a) = n /\ DOMAIN a = 1..n
  <2>1. \A i \in 1..n : a[i] \in A
    OBVIOUS
  <2> HIDE DEF A
  <2>2. a \in [1..n -> A]
    BY <1>8, <2>1
  <2> QED
    BY <1>2, <2>2
<1> DEFINE T == A \cup {d}
<1>9. a \in Seq(T) /\ <<d>> \in Seq(T) /\ Len(<<d>>) = 1 /\ <<d>>[1] = d
  BY <1>7
<1> HIDE DEF T
<1>10. s \in Seq(T) /\ Len(s) = n + 1 /\ DOMAIN s = 1..(n + 1)
  BY <1>0, <1>2, <1>7, <1>9
<1>11. \A i \in 1..n : s[i] = a[i]
  BY <1>0, <1>2, <1>7, <1>9
<1>12. s[n + 1] = d
  BY <1>0, <1>2, <1>7, <1>9
<1>13. IsSeq(s) /\ s # << >>
  BY <1>2, <1>10 DEF IsSeq
<1>14. /\ n \in Nat /\ IsSeq(s) /\ Len(s) = n + 1 /\ DOMAIN s = 1..(n + 1) /\ s # << >>
       /\ \A i \in 1..n : members[i] \in M /\ s[i] = Save("customer", members[i], [group |-> NoGroup], "no")
       /\ s[n + 1] = d
       /\ \A i, j \in 1..n : members[i] = members[j] => i = j
       /\ \A x \in M : \E i \in 1..n : members[i] = x
  BY ZenonT(30), <1>2, <1>3, <1>4, <1>5, <1>8, <1>10, <1>11, <1>12, <1>13
<1> QED
  BY <1>14 DEF M, d

\* What a request of the club may begin with.
ClubBegin(s) == NewCalls(s, ClubKinds) /\ \A i \in DOMAIN s : ClubCall(records, s, i)

LEMMA FreshIs ==
  ASSUME NEW kind, NEW id \in Fresh(kind)
  PROVE  id \in Ids /\ records[kind][id] = Missing
BY DEF Fresh

LEMMA ClubRequestBegins ==
  ASSUME PayersLive(records), NEW w \in Workers, ClubRequest(w)
  PROVE  \E s, kinds : Begin(w, s, kinds) /\ ClubBegin(s)
<1>1. CASE handleClubCustomer(w)
  <2>1. CASE NewCustomer(w)
    <3>1. PICK p \in Phones, g \in KnownGroups \cup {NoGroup}, m \in {"true", "false"}, id \in Fresh("customer") :
            Begin(w, <<Save("customer", id, [phone |-> p, group |-> g, credit |-> "false", member |-> m], "yes")>>,
                  {"customer"})
      BY ZenonT(30), <2>1 DEF NewCustomer
    <3> QED
      BY <3>1, FreshIs, OneClubSave DEF ClubBegin
  <2>2. CASE EditCustomer(w)
    <3>1. PICK c \in Customers, g \in KnownGroups \cup {NoGroup}, credit \in {"true", "false"} :
            Begin(w, <<Save("customer", c, [group |-> g, credit |-> credit], "yes")>>, {})
      BY <2>2 DEF EditCustomer
    <3>2. "member" \notin DOMAIN [group |-> g, credit |-> credit]
      BY ZenonT(30)
    <3> QED
      BY <3>1, <3>2, LiveIsKnown, OneClubSave DEF ClubBegin, Customers
  <2> QED
    BY ONLY ZenonT(30), <1>1, <2>1, <2>2 DEF handleClubCustomer
<1>2. CASE handleClubCreditToggle(w)
  <2>1. PICK c \in Customers :
          Begin(w, <<Save("customer", c, [credit |-> Opposite(Field("customer", c, "credit"))], "yes")>>, {})
    BY <1>2 DEF handleClubCreditToggle
  <2>2. "member" \notin DOMAIN [credit |-> Opposite(Field("customer", c, "credit"))]
    OBVIOUS
  <2> QED
    BY <2>1, <2>2, LiveIsKnown, OneClubSave DEF ClubBegin, Customers
<1>3. CASE handleClubPayment(w)
  <2>1. PICK c \in Customers, id \in Fresh("membership_payment") :
          Begin(w, <<Save("membership_payment", id, [customer |-> c, status |-> "pending"], "yes")>>, {})
    BY <1>3 DEF handleClubPayment
  <2> DEFINE f == [customer |-> c, status |-> "pending"]
             d == Save("membership_payment", id, f, "yes")
  <2>2. DOMAIN f = {"customer", "status"} /\ f["status"] = "pending" /\ f["customer"] = c
    OBVIOUS
  <2> HIDE DEF f
  <2>3. d.op = "save" /\ d.kind = "membership_payment" /\ d.id = id /\ d.fields = f
    BY ONLY SaveIs
  <2>4. c \in Ids /\ records["customer"][c].live = "yes" /\ records["membership_payment"][id] = Missing /\ id \in Ids
    BY ZenonT(30), LiveIsKnown, FreshIs DEF Customers
  <2>5. NewCalls(<<d>>, ClubKinds)
    BY <2>4, OneSave DEF ClubKinds
  <2> HIDE DEF d
  <2>6. DOMAIN <<d>> = {1} /\ <<d>>[1] = d
    BY OneCall
  <2>7. ClubCall(records, <<d>>, 1)
    BY <2>2, <2>3, <2>4, <2>6 DEF ClubCall
  <2>8. ClubBegin(<<d>>)
    BY <2>5, <2>6, <2>7 DEF ClubBegin
  <2> QED
    BY <2>1, <2>8 DEF d, f
<1>4. CASE handleClubPaymentConfirm(w)
  <2>1. PICK p \in Live("membership_payment"), ref \in References :
          Begin(w, << Save("membership_payment", p, [status |-> "paid", ref |-> ref], "yes"),
                      Save("customer", Field("membership_payment", p, "customer"), [member |-> "true"], "no") >>, {})
    BY <1>4 DEF handleClubPaymentConfirm
  <2> DEFINE x == records["membership_payment"][p].f["customer"]
             f == [status |-> "paid", ref |-> ref]
             d == Save("membership_payment", p, f, "yes")
             e == MemberCall(x)
  <2>2. p \in Ids /\ records["membership_payment"][p].live = "yes" /\ records["membership_payment"][p] # Missing
    BY ZenonT(30), LiveIsKnown
  <2>3. /\ "customer" \in DOMAIN records["membership_payment"][p].f
        /\ x \in Ids /\ records["customer"][x].live = "yes"
    BY <2>2 DEF PayersLive
  <2>4. Field("membership_payment", p, "customer") = x
    BY ZenonT(30), <2>3 DEF Field
  <2>5. Begin(w, <<d, e>>, {})
    BY <2>1, <2>4 DEF MemberCall
  <2>6. "customer" \notin DOMAIN f
    OBVIOUS
  <2> HIDE DEF f, x
  <2>7. d.op = "save" /\ d.kind = "membership_payment" /\ d.id = p /\ d.fields = f
    BY ONLY SaveIs
  <2>8. e.op = "save" /\ e.kind = "customer" /\ e.id = x /\ e.fields = [member |-> "true"]
    BY SaveIs DEF MemberCall
  <2>9. records["customer"][x] # Missing
    BY <2>3 DEF Missing
  <2>10. [member |-> "true"]["member"] = "true"
    OBVIOUS
  <2>11. e = MemberCall(records["membership_payment"][d.id].f["customer"])
    BY <2>7 DEF x
  <2> HIDE DEF d, e
  <2>12. IsSeq(<<d, e>>) /\ DOMAIN <<d, e>> = {1, 2} /\ <<d, e>>[1] = d /\ <<d, e>>[2] = e
    BY TwoCalls
  <2>13. CallTyped(d, ClubKinds) /\ CallTyped(e, ClubKinds)
    BY ONLY ZenonT(30), <2>2, <2>3, <2>7, <2>8 DEF CallTyped, ClubKinds
  <2>14. NewCalls(<<d, e>>, ClubKinds)
    BY ONLY SMTT(20), SMTT(30), <2>2, <2>7, <2>8, <2>9, <2>12, <2>13 DEF NewCalls
  <2>15. ClubCall(records, <<d, e>>, 1)
    <3>1. 1 + 1 = 2
      OBVIOUS
    <3>2. 1 + 1 \in DOMAIN <<d, e>> /\ <<d, e>>[1 + 1] = e
      BY ZenonT(30), <2>12, <3>1
    <3> QED
      BY <2>2, <2>6, <2>7, <2>11, <2>12, <3>2 DEF ClubCall
  <2>16. ClubCall(records, <<d, e>>, 2)
    BY <2>3, <2>8, <2>10, <2>12 DEF ClubCall
  <2>17. ClubBegin(<<d, e>>)
    BY ZenonT(30), <2>12, <2>14, <2>15, <2>16 DEF ClubBegin
  <2> QED
    BY ZenonT(30), <2>5, <2>17
<1>5. CASE handleClubGroup(w)
  <2>1. CASE \E id \in Fresh("customer_group"), credit \in {"true", "false"} :
               Begin(w, <<Save("customer_group", id, [active |-> "true", credit |-> credit], "yes")>>, {})
    BY ONLY ZenonT(30), <2>1, FreshIs, OneClubSave DEF ClubBegin
  <2>2. CASE \E g \in KnownGroups, credit \in {"true", "false"} :
               Begin(w, <<Save("customer_group", g, [credit |-> credit], "yes")>>, {})
    BY ONLY ZenonT(30), <2>2, OneClubSave DEF ClubBegin, KnownGroups, Known
  <2> QED
    BY ONLY ZenonT(30), <1>5, <2>1, <2>2 DEF handleClubGroup
<1>6. CASE handleClubGroupToggle(w)
  BY ONLY ZenonT(30), <1>6, LiveIsKnown, OneClubSave DEF handleClubGroupToggle, ClubBegin
<1>7. CASE handleClubGroupCredit(w)
  BY <1>7, LiveIsKnown, OneClubSave DEF handleClubGroupCredit, ClubBegin
<1>8. CASE handleClubGroupDelete(w)
  <2>1. PICK g \in KnownGroups :
          \E ms \in InOrder(GroupMembers(g)) : Begin(w, DeletionCalls(ms, g), {"customer"})
    BY Zenon, <1>8 DEF handleClubGroupDelete, GroupMembers, DeletionCalls
  <2>2. PICK ms \in InOrder(GroupMembers(g)) : Begin(w, DeletionCalls(ms, g), {"customer"})
    BY <2>1
  <2> DEFINE M == GroupMembers(g)
             n == Cardinality(M)
             s == DeletionCalls(ms, g)
  <2>3. g \in Ids
    BY DEF KnownGroups, Known
  <2>4. /\ n \in Nat /\ IsSeq(s) /\ Len(s) = n + 1 /\ DOMAIN s = 1..(n + 1)
        /\ \A i \in 1..n : ms[i] \in M /\ s[i] = Save("customer", ms[i], [group |-> NoGroup], "no")
        /\ s[n + 1] = Delete("customer_group", g)
        /\ \A i, j \in 1..n : ms[i] = ms[j] => i = j
    BY <2>3, GroupDeleteCalls
  <2>5. \A c \in M : c \in Live("customer")
    BY DEF GroupMembers, Entities
  <2> HIDE DEF s, M, n
  <2>6. \A i \in DOMAIN s : i = n + 1 \/ i \in 1..n
    BY <2>4
  <2>7. ASSUME NEW i \in 1..n
        PROVE  /\ s[i].op = "save" /\ s[i].kind = "customer" /\ s[i].id = ms[i] /\ s[i].id \in Ids
               /\ records["customer"][s[i].id].live = "yes" /\ records["customer"][s[i].id] # Missing
               /\ "member" \notin DOMAIN s[i].fields
    <3>1. s[i].op = "save" /\ s[i].kind = "customer" /\ s[i].id = ms[i] /\ s[i].fields = [group |-> NoGroup]
      BY <2>4, SaveIs
    <3>2. ms[i] \in Live("customer")
      BY ZenonT(30), <2>4, <2>5
    <3>3. ms[i] \in Ids /\ records["customer"][ms[i]].live = "yes" /\ records["customer"][ms[i]] # Missing
      BY <3>2, LiveIsKnown
    <3>4. "member" \notin DOMAIN [group |-> NoGroup]
      BY ZenonT(30)
    <3> QED
      BY ZenonT(30), <3>1, <3>3, <3>4
  <2>8. s[n + 1].op = "delete" /\ s[n + 1].kind = "customer_group" /\ s[n + 1].id = g
    BY ONLY SMTT(20), SMTT(30), <2>4, DeleteIs
  <2>9. \A i \in DOMAIN s : CallTyped(s[i], ClubKinds)
    BY <2>3, <2>6, <2>7, <2>8 DEF CallTyped, ClubKinds
  <2>10. NewCalls(s, ClubKinds)
    <3>1. \A i \in DOMAIN s : s[i].op = "save" => i \in 1..n
      BY <2>6, <2>8
    <3>2. \A i, j \in 1..n : s[i].id = s[j].id => i = j
      <4>1. \A i \in 1..n : s[i].id = ms[i]
        BY Zenon, <2>7
      <4>2. \A i, j \in 1..n : ms[i] = ms[j] => i = j
        BY <2>4
      <4> QED
        BY Zenon, <4>1, <4>2
    <3> QED
      BY ZenonT(30), <2>4, <2>7, <2>9, <3>1, <3>2 DEF NewCalls
  <2>11. \A i \in DOMAIN s : ClubCall(records, s, i)
    BY Zenon, <2>4, <2>6, <2>7, <2>8 DEF ClubCall
  <2> QED
    BY <2>2, <2>10, <2>11 DEF ClubBegin, s
<1>9. CASE handleClubGroupMember(w)
  <2>1. PICK g \in KnownGroups, p \in Phones :
          \/ \E c \in WithPhone(p) : Begin(w, <<Save("customer", c, [group |-> g], "yes")>>, {"customer"})
          \/ \E id \in Fresh("customer") :
               Begin(w, <<Save("customer", id, [phone |-> p, group |-> g, member |-> "true"], "yes")>>, {"customer"})
    BY Zenon, <1>9 DEF handleClubGroupMember
  <2>2. CASE \E c \in WithPhone(p) : Begin(w, <<Save("customer", c, [group |-> g], "yes")>>, {"customer"})
    <3>1. "member" \notin DOMAIN [group |-> g]
      OBVIOUS
    <3>2. WithPhone(p) \subseteq Live("customer")
      BY DEF WithPhone, Entities
    <3> QED
      BY Zenon, <2>2, <3>1, <3>2, LiveIsKnown, OneClubSave DEF ClubBegin
  <2>3. CASE \E id \in Fresh("customer") :
               Begin(w, <<Save("customer", id, [phone |-> p, group |-> g, member |-> "true"], "yes")>>, {"customer"})
    BY Zenon, <2>3, FreshIs, OneClubSave DEF ClubBegin
  <2> QED
    BY Zenon, <2>1, <2>2, <2>3
<1>10. CASE handleClubGroupMemberRemove(w)
  <2>1. "member" \notin DOMAIN [group |-> NoGroup]
    OBVIOUS
  <2> QED
    BY Zenon, <1>10, <2>1, LiveIsKnown, OneClubSave DEF handleClubGroupMemberRemove, ClubBegin, Customers
<1> QED
  BY ZenonT(30), <1>1, <1>2, <1>3, <1>4, <1>5, <1>6, <1>7, <1>8, <1>9, <1>10 DEF ClubRequest

IsMember(r, x) == "member" \in DOMAIN r["customer"][x].f /\ r["customer"][x].f["member"] = "true"

LEMMA ClubBeginKeeps ==
  ASSUME ClubInv(records, work), NEW w \in Workers, ClubRequest(w)
  PROVE  ClubInv(records', work')
<1>1. PICK s, kinds : Begin(w, s, kinds) /\ ClubBegin(s)
  BY ClubRequestBegins DEF ClubInv
<1>2. /\ RecordsInv(records', work', ClubKinds)
      /\ records' = records /\ Idle(w) /\ work'[w] = s
      /\ \A v \in Workers : v # w => work'[v] = work[v]
  BY <1>1, BeginKeeps DEF ClubInv, ClubBegin
<1>3. ClubCalls(records', work')
  BY <1>1, <1>2 DEF ClubInv, ClubBegin, ClubCalls
<1>4. PayersLive(records')
  BY ZenonT(30), <1>2 DEF ClubInv
<1>5. PaidAreMembers(records', work')
  <2>1. DOMAIN work[w] = {}
    BY <1>2, NoCalls DEF Idle
  <2>2. \A v \in Workers : \A i \in DOMAIN work[v] : i \in DOMAIN work'[v] /\ work'[v][i] = work[v][i]
    BY <1>2, <2>1
  <2>3. \A d : (\E v \in Workers : \E i \in DOMAIN work[v] : work[v][i] = d)
               => \E v \in Workers : \E i \in DOMAIN work'[v] : work'[v][i] = d
    BY <2>2
  <2>4. PaidAreMembers(records, work)
    BY DEF ClubInv
  <2>5. PaidAreMembers(records, work')
    BY Zenon, <2>3, <2>4 DEF PaidAreMembers
  <2> QED
    BY <1>2, <2>5
<1> QED
  BY <1>2, <1>3, <1>4, <1>5 DEF ClubInv

\* What no store call of the club takes back: a customer stays, and stays a member
\* once one; a payment stays, with its customer.
ClubGrows(r, q) ==
  /\ \A x \in Ids : r["customer"][x].live = "yes" =>
       q["customer"][x].live = "yes" /\ (IsMember(r, x) => IsMember(q, x))
  /\ \A p \in Ids : r["membership_payment"][p].live = "yes" =>
       /\ q["membership_payment"][p].live = "yes"
       /\ "customer" \in DOMAIN q["membership_payment"][p].f
       /\ q["membership_payment"][p].f["customer"] = r["membership_payment"][p].f["customer"]

LEMMA ClubOnlyGrows ==
  ASSUME ClubInv(records, work), NEW w \in Workers, StoreCall(w)
  PROVE  ClubGrows(records, records')
<1> DEFINE c == work[w][1]
<1>1. /\ 1 \in DOMAIN work[w]
      /\ Outcome(records, records', work[w], work'[w], ClubKinds)
  BY StoreCallDoes DEF ClubInv
<1>2. ClubCall(records, work[w], 1) /\ PayersLive(records) /\ CallTyped(c, ClubKinds)
  BY ZenonT(30), <1>1 DEF ClubInv, ClubCalls, RecordsInv
<1>3. c.kind \in ClubKinds /\ c.id \in Ids
  BY <1>2 DEF CallTyped
<1>4. CASE records' = records
  BY Zenon, <1>2, <1>4 DEF ClubGrows, PayersLive
<1>5. CASE c.op = "delete" /\ OnlyThis(records, records', ClubKinds, c.kind, c.id)
  <2>1. c.kind = "customer_group"
    BY ZenonT(30), <1>2, <1>5 DEF ClubCall
  <2>2. \A x \in Ids : /\ records'["customer"][x] = records["customer"][x]
                      /\ records'["membership_payment"][x] = records["membership_payment"][x]
    BY ZenonT(30), <1>5, <2>1 DEF OnlyThis, ClubKinds
  <2> QED
    BY Zenon, <1>2, <2>2 DEF ClubGrows, PayersLive, IsMember
<1>6. CASE /\ c.op = "save" /\ Written(records[c.kind][c.id], records'[c.kind][c.id], c.fields)
           /\ OnlyThis(records, records', ClubKinds, c.kind, c.id)
  <2>1. ASSUME NEW x \in Ids, records["customer"][x].live = "yes"
        PROVE  records'["customer"][x].live = "yes" /\ (IsMember(records, x) => IsMember(records', x))
    <3>1. CASE c.kind = "customer" /\ c.id = x
      <4>1. records["customer"][x] # Missing
        BY <2>1 DEF Missing
      <4>2. "member" \in DOMAIN c.fields => c.fields["member"] = "true"
        BY Zenon, <1>2, <3>1, <4>1 DEF ClubCall
      <4>3. /\ records'["customer"][x].live = "yes"
            /\ "member" \in DOMAIN c.fields =>
                 "member" \in DOMAIN records'["customer"][x].f /\ records'["customer"][x].f["member"] = c.fields["member"]
            /\ "member" \in DOMAIN records["customer"][x].f /\ "member" \notin DOMAIN c.fields =>
                 /\ "member" \in DOMAIN records'["customer"][x].f
                 /\ records'["customer"][x].f["member"] = records["customer"][x].f["member"]
        BY Zenon, <1>6, <2>1, <3>1 DEF Written
      <4> QED
        BY ONLY ZenonT(30), <4>2, <4>3 DEF IsMember
    <3>2. CASE ~(c.kind = "customer" /\ c.id = x)
      <4>1. records'["customer"][x] = records["customer"][x]
        BY Zenon, <1>6, <3>2 DEF OnlyThis, ClubKinds
      <4> QED
        BY Zenon, <2>1, <4>1 DEF IsMember
    <3> QED
      BY ONLY ZenonT(30), <3>1, <3>2
  <2>2. ASSUME NEW p \in Ids, records["membership_payment"][p].live = "yes"
        PROVE  /\ records'["membership_payment"][p].live = "yes"
               /\ "customer" \in DOMAIN records'["membership_payment"][p].f
               /\ records'["membership_payment"][p].f["customer"] = records["membership_payment"][p].f["customer"]
    <3>0. "customer" \in DOMAIN records["membership_payment"][p].f
      BY Zenon, <1>2, <2>2 DEF PayersLive
    <3>1. CASE c.kind = "membership_payment" /\ c.id = p
      <4>1. records["membership_payment"][p] # Missing
        BY <2>2 DEF Missing
      <4>2. "customer" \notin DOMAIN c.fields
        BY ZenonT(30), <1>2, <3>1, <4>1 DEF ClubCall
      <4> QED
        BY ZenonT(30), <1>6, <2>2, <3>0, <3>1, <4>2 DEF Written
    <3>2. CASE ~(c.kind = "membership_payment" /\ c.id = p)
      <4>1. records'["membership_payment"][p] = records["membership_payment"][p]
        BY Zenon, <1>6, <3>2 DEF OnlyThis, ClubKinds
      <4> QED
        BY <2>2, <3>0, <4>1
    <3> QED
      BY <3>1, <3>2
  <2> QED
    BY <2>1, <2>2 DEF ClubGrows
<1> QED
  BY ZenonT(30), <1>1, <1>4, <1>5, <1>6 DEF Outcome

\* A record that a call under way will make is not made by the call of another.
LEMMA StaysMissing ==
  ASSUME NEW K, RecordsInv(records, work, K), NEW w \in Workers, StoreCall(w),
         NEW v \in Workers, NEW a \in DOMAIN work[v], ~(v = w /\ a = 1), work[v][a].op = "save",
         records[work[v][a].kind][work[v][a].id] = Missing
  PROVE  records'[work[v][a].kind][work[v][a].id] = Missing
<1> DEFINE c == work[w][1]
           d == work[v][a]
<1>1. 1 \in DOMAIN work[w] /\ Outcome(records, records', work[w], work'[w], K)
  BY ZenonT(30), StoreCallDoes
<1>2. DrawnOnce(records, work) /\ CallTyped(d, K)
  BY ZenonT(30) DEF RecordsInv
<1>3. CASE records' = records
  BY <1>3
<1>4. CASE c.op = "delete" /\ records[c.kind][c.id].live = "yes" /\ OnlyThis(records, records', K, c.kind, c.id)
  <2>0. records[d.kind][d.id] = Missing
    BY Zenon
  <2>00. Missing.live # "yes"
    BY ONLY TRUE DEF Missing
  <2>1. ~(c.kind = d.kind /\ c.id = d.id)
    BY Zenon, <1>4, <2>0, <2>00
  <2> QED
    BY ZenonT(30), <1>2, <1>4, <2>1 DEF OnlyThis, CallTyped
<1>5. CASE c.op = "save" /\ OnlyThis(records, records', K, c.kind, c.id)
  <2>1. ~(c.kind = d.kind /\ c.id = d.id)
    BY ZenonT(30), <1>1, <1>2, <1>5 DEF DrawnOnce
  <2> QED
    BY Zenon, <1>2, <1>5, <2>1 DEF OnlyThis, CallTyped
<1> QED
  BY Zenon, <1>1, <1>3, <1>4, <1>5 DEF Outcome

LEMMA ClubStoreKeeps ==
  ASSUME ClubInv(records, work), NEW w \in Workers, StoreCall(w)
  PROVE  ClubInv(records', work')
<1> DEFINE c == work[w][1]
<1>1. /\ RecordsInv(records', work', ClubKinds)
      /\ 1 \in DOMAIN work[w]
      /\ Outcome(records, records', work[w], work'[w], ClubKinds)
      /\ \A v \in Workers : v # w => work'[v] = work[v]
      /\ \A i \in DOMAIN work'[w] : i + 1 \in DOMAIN work[w] /\ work'[w][i] = work[w][i + 1]
  BY Zenon, StoreCallDoes DEF ClubInv
<1>2. /\ ClubCalls(records, work) /\ PayersLive(records) /\ PaidAreMembers(records, work)
      /\ RecordsInv(records, work, ClubKinds) /\ Queues(work)
  BY DEF ClubInv, RecordsInv
<1>3. ClubCall(records, work[w], 1) /\ CallTyped(c, ClubKinds)
  BY Zenon, <1>1, <1>2 DEF ClubCalls, RecordsInv
<1>4. c.kind \in ClubKinds /\ c.id \in Ids
  BY <1>3 DEF CallTyped
<1>5. ClubGrows(records, records')
  BY ClubOnlyGrows
<1>6. /\ ~Idle(w) /\ Len(work[w]) \in Nat /\ Len(Tail(work[w])) = Len(work[w]) - 1
      /\ \A i \in DOMAIN work[w] : i # 1 => i - 1 \in DOMAIN Tail(work[w]) /\ Tail(work[w])[i - 1] = work[w][i]
      /\ DOMAIN work[w] = 1..Len(work[w])
  BY Zenon, <1>1, <1>2, QueueFacts, RestOf
\* The calls that remain are those there were, or there are none because the
\* last of them was a delete.
<1>7. work'[w] = Tail(work[w]) \/ (work'[w] = << >> /\ c.op = "delete" /\ Len(work[w]) = 1)
  BY Zenon, <1>1, <1>3 DEF Outcome, ClubCall
<1>8. ASSUME NEW v \in Workers, NEW i \in DOMAIN work'[v]
      PROVE  ClubCall(records', work'[v], i)
  <2> DEFINE a == IF v = w THEN i + 1 ELSE i
  <2>1. a \in DOMAIN work[v] /\ work'[v][i] = work[v][a]
    BY Zenon, <1>1
  <2>2. i \in Nat
    BY Zenon, <1>1, QueueFactsOf DEF RecordsInv
  <2>3. ~(v = w /\ a = 1)
    <3>1. v = w => i \in DOMAIN work'[w]
      OBVIOUS
    <3>2. v = w => work'[w] = Tail(work[w])
      BY ONLY ZenonT(30), <1>7, <3>1, NoCalls
    <3>3. v = w => i # 0
      BY <1>2, <1>6, <3>1, <3>2, RestOf, SeqFacts
    <3> QED
      BY <2>2, <3>3
  <2>4. a = Len(work[v]) => i = Len(work'[v])
    <3>1. CASE v # w
      BY <1>1, <3>1
    <3>2. CASE v = w
      <4>1. work'[w] = Tail(work[w])
        BY <1>7, <3>2, NoCalls
      <4> QED
        BY <1>6, <2>2, <3>2, <4>1
    <3> QED
      BY ONLY ZenonT(30), <3>1, <3>2
  <2>5. a + 1 \in DOMAIN work[v] => i + 1 \in DOMAIN work'[v] /\ work'[v][i + 1] = work[v][a + 1]
    <3>1. CASE v # w
      BY ZenonT(30), <1>1, <3>1
    <3>2. CASE v = w
      <4>1. work'[w] = Tail(work[w])
        BY <1>7, <3>2, NoCalls
      <4>2. a + 1 # 1 /\ (a + 1) - 1 = i + 1
        BY <2>2, <2>3, <3>2
      <4> QED
        BY ZenonT(30), <1>6, <3>2, <4>1, <4>2
    <3> QED
      BY ONLY ZenonT(30), <3>1, <3>2
  <2> DEFINE d == work[v][a]
  <2> HIDE DEF a
  <2>6. ClubCall(records, work[v], a) /\ CallTyped(d, ClubKinds)
    BY Zenon, <1>2, <2>1 DEF ClubCalls, RecordsInv
  <2>7. d.op = "save" /\ records[d.kind][d.id] = Missing => records'[d.kind][d.id] = Missing
    BY Zenon, <1>2, <2>1, <2>3, StaysMissing
  <2>8. /\ d.op \in {"save", "delete"}
        /\ d.op = "delete" => d.kind = "customer_group" /\ a = Len(work[v])
        /\ d.kind = "customer" => d.op = "save"
        /\ d.kind = "membership_payment" => d.op = "save"
    BY Zenon, <2>6 DEF ClubCall
  <2>9. d.kind = "customer" =>
          \/ records'["customer"][d.id] = Missing
          \/ /\ records'["customer"][d.id].live = "yes"
             /\ "member" \in DOMAIN d.fields => d.fields["member"] = "true"
    <3> SUFFICES ASSUME d.kind = "customer"
                 PROVE  \/ records'["customer"][d.id] = Missing
                        \/ /\ records'["customer"][d.id].live = "yes"
                           /\ "member" \in DOMAIN d.fields => d.fields["member"] = "true"
      BY Zenon
    <3>1. \/ records["customer"][d.id] = Missing
          \/ /\ records["customer"][d.id].live = "yes"
             /\ "member" \in DOMAIN d.fields => d.fields["member"] = "true"
      BY Zenon, <2>6 DEF ClubCall
    <3>2. d.id \in Ids
      BY <2>6 DEF CallTyped
    <3> QED
      BY Zenon, <1>5, <2>7, <2>8, <3>1, <3>2 DEF ClubGrows
  <2>10. d.kind = "membership_payment" =>
          \/ /\ records'["membership_payment"][d.id] = Missing
             /\ DOMAIN d.fields = {"customer", "status"}
             /\ d.fields["status"] = "pending"
             /\ d.fields["customer"] \in Ids /\ records'["customer"][d.fields["customer"]].live = "yes"
          \/ /\ records'["membership_payment"][d.id].live = "yes"
             /\ "customer" \notin DOMAIN d.fields
             /\ a + 1 \in DOMAIN work[v]
             /\ work[v][a + 1] = MemberCall(records'["membership_payment"][d.id].f["customer"])
    <3> SUFFICES ASSUME d.kind = "membership_payment"
                 PROVE  \/ /\ records'["membership_payment"][d.id] = Missing
                           /\ DOMAIN d.fields = {"customer", "status"}
                           /\ d.fields["status"] = "pending"
                           /\ d.fields["customer"] \in Ids /\ records'["customer"][d.fields["customer"]].live = "yes"
                        \/ /\ records'["membership_payment"][d.id].live = "yes"
                           /\ "customer" \notin DOMAIN d.fields
                           /\ a + 1 \in DOMAIN work[v]
                           /\ work[v][a + 1] = MemberCall(records'["membership_payment"][d.id].f["customer"])
      BY Zenon
    <3>0. d.id \in Ids
      BY <2>6 DEF CallTyped
    <3>1. CASE /\ records["membership_payment"][d.id] = Missing
               /\ DOMAIN d.fields = {"customer", "status"}
               /\ d.fields["status"] = "pending"
               /\ d.fields["customer"] \in Ids /\ records["customer"][d.fields["customer"]].live = "yes"
      BY Zenon, <1>5, <2>7, <2>8, <3>0, <3>1 DEF ClubGrows
    <3>2. CASE /\ records["membership_payment"][d.id].live = "yes"
               /\ "customer" \notin DOMAIN d.fields
               /\ a + 1 \in DOMAIN work[v]
               /\ work[v][a + 1] = MemberCall(records["membership_payment"][d.id].f["customer"])
      BY Zenon, <1>5, <3>0, <3>2 DEF ClubGrows
    <3> QED
      BY Zenon, <2>6, <3>1, <3>2 DEF ClubCall
  <2> HIDE DEF d
  <2>11. work'[v][i] = d
    BY <2>1 DEF d
  <2> QED
    BY Zenon, <2>4, <2>5, <2>8, <2>9, <2>10, <2>11 DEF ClubCall
<1>9. ClubCalls(records', work')
  BY ONLY SMTT(20), SMTT(30), <1>8 DEF ClubCalls
<1>10. PayersLive(records')
  <2> SUFFICES ASSUME NEW p \in Ids, records'["membership_payment"][p].live = "yes"
               PROVE  LET f == records'["membership_payment"][p].f
                      IN "customer" \in DOMAIN f /\ f["customer"] \in Ids /\ records'["customer"][f["customer"]].live = "yes"
    BY ZenonT(30) DEF PayersLive
  <2>1. CASE records["membership_payment"][p].live = "yes"
    <3>1. LET f == records["membership_payment"][p].f
          IN f["customer"] \in Ids /\ records["customer"][f["customer"]].live = "yes"
      BY <1>2, <2>1 DEF PayersLive
    <3> QED
      BY ONLY ZenonT(30), <1>5, <2>1, <3>1 DEF ClubGrows
  <2>2. CASE records["membership_payment"][p].live # "yes"
    <3>1. c.op = "save" /\ c.kind = "membership_payment" /\ c.id = p /\ records'["membership_payment"][p].f = c.fields
      BY Zenon, <1>1, <2>2 DEF Outcome, OnlyThis, Written, Gone, ClubKinds
    <3>2. /\ DOMAIN c.fields = {"customer", "status"}
          /\ c.fields["customer"] \in Ids /\ records["customer"][c.fields["customer"]].live = "yes"
      BY Zenon, <1>3, <2>2, <3>1 DEF ClubCall
    <3> QED
      BY ZenonT(30), <1>5, <3>1, <3>2 DEF ClubGrows
  <2> QED
    BY ZenonT(30), <2>1, <2>2
<1>11. ASSUME NEW p \in Ids, records'["membership_payment"][p].live = "yes",
              "status" \in DOMAIN records'["membership_payment"][p].f,
              records'["membership_payment"][p].f["status"] = "paid"
       PROVE  \/ IsMember(records', records'["membership_payment"][p].f["customer"])
              \/ \E v \in Workers : \E i \in DOMAIN work'[v] :
                   work'[v][i] = MemberCall(records'["membership_payment"][p].f["customer"])
  <2>1. CASE c.op = "save" /\ c.kind = "membership_payment" /\ c.id = p
    <3>1. Written(records["membership_payment"][p], records'["membership_payment"][p], c.fields)
      BY Zenon, <1>1, <2>1 DEF Outcome
    <3>2. records["membership_payment"][p].live = "yes"
      <4> SUFFICES ASSUME records["membership_payment"][p].live # "yes" PROVE FALSE
        OBVIOUS
      <4>1. c.fields["status"] = "pending" /\ DOMAIN c.fields = {"customer", "status"}
        BY ZenonT(30), <1>3, <2>1 DEF ClubCall
      <4>2. records'["membership_payment"][p].f = c.fields
        BY ZenonT(30), <3>1 DEF Written
      <4> QED
        BY <1>11, <4>1, <4>2
    <3>3. records["membership_payment"][p] # Missing
      BY <3>2 DEF Missing
    <3>4. /\ 1 + 1 \in DOMAIN work[w]
          /\ work[w][1 + 1] = MemberCall(records["membership_payment"][p].f["customer"])
      BY Zenon, <1>3, <2>1, <3>3 DEF ClubCall
    <3>5. work'[w] = Tail(work[w])
      BY <1>7, <2>1
    <3>6. 1 \in DOMAIN work'[w] /\ work'[w][1] = work[w][1 + 1]
      <4>1. 1 + 1 # 1 /\ (1 + 1) - 1 = 1
        OBVIOUS
      <4> QED
        BY <1>6, <3>4, <3>5, <4>1
    <3>7. records'["membership_payment"][p].f["customer"] = records["membership_payment"][p].f["customer"]
      BY ZenonT(30), <1>5, <3>2 DEF ClubGrows
    <3> QED
      BY <3>4, <3>6, <3>7
  <2>2. CASE ~(c.op = "save" /\ c.kind = "membership_payment" /\ c.id = p)
    <3>1. records'["membership_payment"][p] = records["membership_payment"][p]
      BY Zenon, <1>1, <1>3, <2>2 DEF Outcome, OnlyThis, ClubKinds, ClubCall
    <3> DEFINE x == records["membership_payment"][p].f["customer"]
    <3>2. x \in Ids /\ records["customer"][x].live = "yes"
      BY Zenon, <1>2, <1>11, <3>1 DEF PayersLive
    <3>3. \/ IsMember(records, x)
          \/ \E v \in Workers : \E i \in DOMAIN work[v] : work[v][i] = MemberCall(x)
      BY ZenonT(30), <1>2, <1>11, <3>1 DEF PaidAreMembers, IsMember
    <3> HIDE DEF x
    <3>4. CASE IsMember(records, x)
      <4>1. IsMember(records', x)
        BY <1>5, <3>2, <3>4 DEF ClubGrows
      <4> QED
        BY <3>1, <4>1 DEF x
    <3>5. ASSUME NEW v \in Workers, NEW i \in DOMAIN work[v], work[v][i] = MemberCall(x)
          PROVE  \/ IsMember(records', x)
                 \/ \E u \in Workers : \E j \in DOMAIN work'[u] : work'[u][j] = MemberCall(x)
      <4>0. /\ MemberCall(x).op = "save" /\ MemberCall(x).kind = "customer" /\ MemberCall(x).id = x
            /\ MemberCall(x).fields = [member |-> "true"]
        BY SaveIs DEF MemberCall
      <4>1. CASE v # w
        BY Zenon, <1>1, <3>5, <4>1
      <4>2. CASE v = w /\ i # 1
        <5>1. work'[w] = Tail(work[w])
          BY <1>6, <1>7, <4>2
        <5> QED
          BY ZenonT(30), <1>6, <3>5, <4>2, <5>1
      <4>3. CASE v = w /\ i = 1
        <5>1. c = MemberCall(x)
          BY <3>5, <4>3
        <5>2. Written(records["customer"][x], records'["customer"][x], [member |-> "true"])
          BY Zenon, <1>1, <4>0, <5>1 DEF Outcome
        <5>3. "member" \in DOMAIN [member |-> "true"] /\ [member |-> "true"]["member"] = "true"
          OBVIOUS
        <5> QED
          BY Zenon, <5>2, <5>3 DEF Written, IsMember
      <4> QED
        BY <4>1, <4>2, <4>3
    <3>6. \/ IsMember(records', x)
          \/ \E u \in Workers : \E j \in DOMAIN work'[u] : work'[u][j] = MemberCall(x)
      BY ZenonT(30), <3>1, <3>3, <3>4, <3>5 DEF x
    <3>7. x = records'["membership_payment"][p].f["customer"]
      BY <3>1 DEF x
    <3> QED
      BY <3>6, <3>7
  <2> QED
    BY Zenon, <2>1, <2>2
<1>12. PaidAreMembers(records', work')
  BY Zenon, <1>11 DEF PaidAreMembers, IsMember
<1> QED
  BY <1>1, <1>9, <1>10, <1>12 DEF ClubInv

LEMMA ClubStarts ==
  ASSUME HandlersInit, part = "club"
  PROVE  ClubInv(records, work)
<1>1. records = ClubRecords /\ work = [w \in Workers |-> << >>]
  BY ZenonT(30) DEF HandlersInit, RecordsInit
<1> DEFINE A == [phone |-> CHOOSE p \in Phones : TRUE, group |-> 1, credit |-> "false", member |-> "false"]
           B == [active |-> "true", credit |-> "false"]
           P == [customer |-> 1, status |-> "pending"]
           T == {Stored(A), Stored(B), Stored(P), Missing}
<1>2. records = [customer |-> [i \in Ids |-> IF i = 1 THEN Stored(A) ELSE Missing],
                 customer_group |-> [i \in Ids |-> IF i = 1 THEN Stored(B) ELSE Missing],
                 membership_payment |-> [i \in Ids |-> IF i = 1 THEN Stored(P) ELSE Missing]]
  BY <1>1 DEF ClubRecords
<1>3. DOMAIN P = {"customer", "status"} /\ P["customer"] = 1 /\ P["status"] = "pending"
  BY ZenonT(30)
<1> HIDE DEF A, B, P
<1>4. records \in [ClubKinds -> [Ids -> T]]
  BY <1>2 DEF ClubKinds
<1>5. Shaped(records, ClubKinds)
  BY Zenon, <1>4 DEF Shaped
<1>6. Queues(work) /\ \A w \in Workers : DOMAIN work[w] = {}
  <2>1. work \in [Workers -> Seq({})]
    BY <1>1
  <2>2. \A w \in Workers : work[w] = << >>
    BY <1>1
  <2> QED
    BY <2>1, <2>2, NoCalls DEF Queues
<1>7. RecordsInv(records, work, ClubKinds) /\ ClubCalls(records, work)
  BY Zenon, <1>5, <1>6 DEF RecordsInv, DrawnOnce, ClubCalls
<1>8. ASSUME NEW p \in Ids, records["membership_payment"][p].live = "yes"
      PROVE  p = 1 /\ records["membership_payment"][p].f = P /\ records["customer"][1].live = "yes"
  BY <1>2, <1>8 DEF Missing, Stored
<1>9. PayersLive(records) /\ PaidAreMembers(records, work)
  BY Zenon, <1>3, <1>8 DEF PayersLive, PaidAreMembers
<1> QED
  BY <1>7, <1>9 DEF ClubInv

\* PaidIsMember holds in every reachable state, for any number of requests side by
\* side: handleClubPaymentConfirm has both of its calls before it, and no other
\* handler takes a membership back or deletes a customer.
THEOREM PayingMakesAMember == HandlersSpec => []PaidIsMember
<1> DEFINE I == part = "club" /\ cut = "no" => ClubInv(records, work)
<1>1. HandlersInit => I
  BY ClubStarts
<1>2. I /\ [HandlersNext]_vars => I'
  <2> SUFFICES ASSUME I, [HandlersNext]_vars, part' = "club", cut' = "no" PROVE ClubInv(records', work')
    OBVIOUS
  <2>1. CASE UNCHANGED <<part, cut, records, work>>
    BY <2>1
  <2>2. CASE \E w \in Workers : part = "club" /\ ClubRequest(w)
    <3>1. PICK w \in Workers : part = "club" /\ ClubRequest(w)
      BY <2>2
    <3>2. cut' = cut
      <4>1. \E s, kinds : Begin(w, s, kinds)
        BY Zenon, <3>1 DEF ClubRequest, handleClubCustomer, NewCustomer, EditCustomer, handleClubCreditToggle,
             handleClubPayment, handleClubPaymentConfirm, handleClubGroup, handleClubGroupToggle,
             handleClubGroupCredit, handleClubGroupDelete, handleClubGroupMember, handleClubGroupMemberRemove
      <4> QED
        BY <4>1 DEF Begin
    <3> QED
      BY <3>1, <3>2, ClubBeginKeeps
  <2>3. CASE RecordsStep /\ part' = part
    <3>1. CASE \E w \in Workers : StoreCall(w)
      BY <2>3, <3>1, ClubStoreKeeps DEF StoreCall
    <3>2. CASE (\E w \in Workers : StoreCallFails(w)) \/ Stop
      <4>1. cut' = "yes"
        BY <3>2 DEF StoreCallFails, Stop
      <4> QED
        BY <4>1
    <3> QED
      BY ONLY ZenonT(30), <2>3, <3>1, <3>2 DEF RecordsStep
  <2> QED
    BY <2>1, <2>2, <2>3 DEF HandlersNext, vars, recordVars
<1>3. I => PaidIsMember
  <2> SUFFICES ASSUME I, part = "club", cut = "no", NEW p \in Live("membership_payment"),
                      Field("membership_payment", p, "status") = "paid"
               PROVE  LET c == Field("membership_payment", p, "customer") IN
                      \/ Field("customer", c, "member") = "true"
                      \/ \E w \in Workers : Save("customer", c, [member |-> "true"], "no") \in Calls(w)
    BY ZenonT(30) DEF PaidIsMember
  <2> DEFINE f == records["membership_payment"][p].f
             x == f["customer"]
  <2>1. p \in Ids /\ records["membership_payment"][p].live = "yes" /\ "status" \in DOMAIN f /\ f["status"] = "paid"
    BY ZenonT(30), LiveIsKnown DEF Field
  <2>2. "customer" \in DOMAIN f
    BY <2>1 DEF ClubInv, PayersLive
  <2>3. \/ "member" \in DOMAIN records["customer"][x].f /\ records["customer"][x].f["member"] = "true"
        \/ \E w \in Workers : \E i \in DOMAIN work[w] : work[w][i] = MemberCall(x)
    BY Zenon, <2>1 DEF ClubInv, PaidAreMembers
  <2>4. Field("membership_payment", p, "customer") = x
    BY <2>2 DEF Field
  <2> HIDE DEF x
  <2> QED
    BY Zenon, <2>3, <2>4 DEF Field, Calls, MemberCall
<1> QED
  BY <1>1, <1>2, <1>3, PTL DEF HandlersSpec

----------------------------------------------------------------------------
(* Products and their recipes.                                             *)

CatalogKinds == {"product", "recipe", "ingredient", "ingredient_category", "task"}

\* A call of a request of the catalogue, while no recipe was deleted or given to
\* another product: a recipe is saved for the product it is for already, or is new;
\* and a save that empties a product's stock is followed by the look for its recipe.
CatalogCall(r, s, i) ==
  /\ s[i].op \in {"delete", "recipe"} => i = Len(s)
  /\ s[i].op = "recipe" => s[i] = RecipeOfProduct(s[i].id)
  /\ s[i].kind = "recipe" =>
       /\ s[i].op = "save" /\ s[i].fields = [product |-> s[i].fields["product"]]
       /\ \/ r["recipe"][s[i].id] = Missing
          \/ /\ r["recipe"][s[i].id].live = "yes"
             /\ "product" \in DOMAIN r["recipe"][s[i].id].f
             /\ r["recipe"][s[i].id].f["product"] = s[i].fields["product"]
  /\ /\ s[i].op = "save" /\ s[i].kind = "product"
     /\ "stock" \in DOMAIN s[i].fields /\ s[i].fields["stock"] = "none"
     => i + 1 \in DOMAIN s /\ s[i + 1] = RecipeOfProduct(s[i].id)

CatalogCalls(r, wk) == \A w \in Workers : \A i \in DOMAIN wk[w] : CatalogCall(r, wk[w], i)

NoRecipeGone(r) == \A i \in Ids : r["recipe"][i] = Missing \/ r["recipe"][i].live = "yes"

\* The product has a recipe.
HasRecipe(r, p) ==
  \E i \in Ids : /\ r["recipe"][i].live = "yes"
                /\ "product" \in DOMAIN r["recipe"][i].f /\ r["recipe"][i].f["product"] = p

\* It is about to get one.
RecipeUnderWay(c, p) ==
  c = RecipeOfProduct(p) \/ (c.op = "save" /\ c.kind = "recipe" /\ c.fields = [product |-> p])

Emptied(r, p) ==
  /\ r["product"][p].live = "yes"
  /\ "stock" \in DOMAIN r["product"][p].f /\ r["product"][p].f["stock"] = "none"

EmptiedHaveRecipes(r, wk) ==
  \A p \in Ids : Emptied(r, p) =>
    HasRecipe(r, p) \/ \E w \in Workers : \E i \in DOMAIN wk[w] : RecipeUnderWay(wk[w][i], p)

CatalogInv(r, wk) ==
  RecordsInv(r, wk, CatalogKinds) /\ CatalogCalls(r, wk) /\ NoRecipeGone(r) /\ EmptiedHaveRecipes(r, wk)

CatalogBegin(s) == NewCalls(s, CatalogKinds) /\ \A i \in DOMAIN s : CatalogCall(records, s, i)

LEMMA RecipeOfIs ==
  ASSUME NEW p
  PROVE  RecipeOfProduct(p).op = "recipe" /\ RecipeOfProduct(p).kind = "product" /\ RecipeOfProduct(p).id = p
BY DEF RecipeOfProduct

\* A request that saves one record, not a recipe, and empties no stock.
LEMMA OneCatalogSave ==
  ASSUME NEW kind \in CatalogKinds, kind # "recipe", NEW id \in Ids, NEW fields, NEW must,
         records[kind][id] # Missing \/ id \in Fresh(kind),
         "stock" \in DOMAIN fields => fields["stock"] # "none"
  PROVE  CatalogBegin(<<Save(kind, id, fields, must)>>)
<1> DEFINE c == Save(kind, id, fields, must)
<1>1. c.op = "save" /\ c.kind = kind /\ c.id = id /\ c.fields = fields
  BY ONLY SaveIs
<1>2. NewCalls(<<c>>, CatalogKinds)
  BY OneSave
<1> HIDE DEF c
<1>3. DOMAIN <<c>> = {1} /\ <<c>>[1] = c
  BY ZenonT(30), OneCall
<1>4. CatalogCall(records, <<c>>, 1)
  BY SMTT(20), SMTT(30), <1>1, <1>3 DEF CatalogCall
<1> QED
  BY <1>2, <1>3, <1>4 DEF c, CatalogBegin

LEMMA OneRecipeSave ==
  ASSUME NEW id \in Ids, NEW p, NEW must,
         \/ id \in Fresh("recipe")
         \/ records["recipe"][id].live = "yes" /\ Has("recipe", id, "product", p)
  PROVE  CatalogBegin(<<Save("recipe", id, [product |-> p], must)>>)
<1> DEFINE f == [product |-> p]
           c == Save("recipe", id, f, must)
<1>1. c.op = "save" /\ c.kind = "recipe" /\ c.id = id /\ c.fields = f
  BY ONLY SaveIs
<1>2. f["product"] = p /\ f = [product |-> f["product"]]
  OBVIOUS
<1>3. records["recipe"][id].live = "yes" => records["recipe"][id] # Missing
  BY DEF Missing
<1>4. NewCalls(<<c>>, CatalogKinds)
  BY ZenonT(30), <1>3, OneSave DEF CatalogKinds
<1> HIDE DEF c, f
<1>5. DOMAIN <<c>> = {1} /\ <<c>>[1] = c
  BY OneCall
<1>6. id \in Fresh("recipe") => records["recipe"][id] = Missing
  BY ZenonT(30), FreshIs
<1>7. CatalogCall(records, <<c>>, 1)
  BY <1>1, <1>2, <1>5, <1>6 DEF CatalogCall, Has
<1> QED
  BY ONLY ZenonT(30), <1>4, <1>5, <1>7 DEF c, f, CatalogBegin

LEMMA OneCatalogDelete ==
  ASSUME NEW kind \in CatalogKinds, kind # "recipe", NEW id \in Ids
  PROVE  CatalogBegin(<<Delete(kind, id)>>)
<1> DEFINE c == Delete(kind, id)
<1>1. c.op = "delete" /\ c.kind = kind /\ c.id = id
  BY ONLY DeleteIs
<1>2. NewCalls(<<c>>, CatalogKinds)
  BY OneDelete
<1> HIDE DEF c
<1>3. DOMAIN <<c>> = {1} /\ <<c>>[1] = c /\ Len(<<c>>) = 1
  BY ZenonT(30), OneCall
<1>4. CatalogCall(records, <<c>>, 1)
  BY <1>1, <1>3 DEF CatalogCall
<1> QED
  BY <1>2, <1>3, <1>4 DEF c, CatalogBegin

\* Call i of what is left of a request was its call a, and the call after it too is
\* the one it was.
Remains(old, new, i, a) ==
  /\ a \in DOMAIN old /\ new[i] = old[a]
  /\ a = Len(old) => i = Len(new)
  /\ a + 1 \in DOMAIN old => i + 1 \in DOMAIN new /\ new[i + 1] = old[a + 1]

\* After a store call: a call that remains stood one place further on in its own
\* request, and kept the call after it.
LEMMA CallsThatRemain ==
  ASSUME NEW K, RecordsInv(records, work, K), NEW w \in Workers, StoreCall(w),
         work[w][1].op = "delete" => Len(work[w]) = 1,
         NEW v \in Workers, NEW i \in DOMAIN work'[v], NEW a, v = w => a = i + 1, v # w => a = i
  PROVE  Remains(work[v], work'[v], i, a) /\ ~(v = w /\ a = 1)
<1> SUFFICES /\ a \in DOMAIN work[v] /\ work'[v][i] = work[v][a] /\ ~(v = w /\ a = 1)
             /\ a = Len(work[v]) => i = Len(work'[v])
             /\ a + 1 \in DOMAIN work[v] => i + 1 \in DOMAIN work'[v] /\ work'[v][i + 1] = work[v][a + 1]
  BY ZenonT(30) DEF Remains
<1>1. /\ RecordsInv(records', work', K) /\ 1 \in DOMAIN work[w]
      /\ Outcome(records, records', work[w], work'[w], K)
      /\ \A u \in Workers : u # w => work'[u] = work[u]
      /\ \A j \in DOMAIN work'[w] : j + 1 \in DOMAIN work[w] /\ work'[w][j] = work[w][j + 1]
  BY Zenon, StoreCallDoes
<1>2. Queues(work) /\ Queues(work') /\ ~Idle(w)
  BY <1>1 DEF RecordsInv, StoreCall
<1>3. /\ Len(work[w]) \in Nat /\ Len(Tail(work[w])) = Len(work[w]) - 1
      /\ \A j \in DOMAIN work[w] : j # 1 => j - 1 \in DOMAIN Tail(work[w]) /\ Tail(work[w])[j - 1] = work[w][j]
  BY Zenon, <1>2, QueueFacts, RestOf
<1>4. i \in Nat
  BY Zenon, <1>2, QueueFactsOf
<1>5. CASE v # w
  BY Zenon, <1>1, <1>5
<1>6. CASE v = w
  <2>1. work'[w] = Tail(work[w])
    BY Zenon, <1>1, <1>6, NoCalls DEF Outcome
  <2>2. IsSeq(Tail(work[w])) /\ i \in DOMAIN Tail(work[w])
    BY Zenon, <1>2, <1>6, <2>1, RestOf
  <2>3. i # 0
    <3>1. Len(Tail(work[w])) \in Nat /\ i \in 1..Len(Tail(work[w]))
      BY ZenonT(30), <2>2, SeqFacts
    <3> QED
      BY <3>1
  <2>4. a = i + 1 /\ a # 1 /\ a + 1 # 1 /\ (a + 1) - 1 = i + 1
    BY <1>4, <1>6, <2>3
  <2>5. a \in DOMAIN work[v] /\ work'[v][i] = work[v][a]
    BY Zenon, <1>1, <1>6, <2>4
  <2>6. a = Len(work[v]) => i = Len(work'[v])
    <3> DEFINE n == Len(work[v])
               m == Len(work'[v])
    <3>1. n \in Nat /\ m = n - 1
      BY ZenonT(30), <1>3, <1>6, <2>1
    <3> HIDE DEF n, m
    <3>2. a = n => i = m
      BY ONLY SMTT(20), SMTT(30), <1>4, <2>4, <3>1
    <3> QED
      BY <3>2 DEF n, m
  <2>7. a + 1 \in DOMAIN work[v] => i + 1 \in DOMAIN work'[v] /\ work'[v][i + 1] = work[v][a + 1]
    BY ZenonT(30), <1>3, <1>6, <2>1, <2>4
  <2> QED
    BY Zenon, <1>6, <2>4, <2>5, <2>6, <2>7
<1> QED
  BY Zenon, <1>5, <1>6

\* And every call but the one made remains.
LEMMA CallsAreKept ==
  ASSUME NEW K, RecordsInv(records, work, K), NEW w \in Workers, StoreCall(w),
         work[w][1].op = "delete" => Len(work[w]) = 1,
         NEW v \in Workers, NEW a \in DOMAIN work[v], ~(v = w /\ a = 1)
  PROVE  \E i \in DOMAIN work'[v] : work'[v][i] = work[v][a]
<1>1. /\ 1 \in DOMAIN work[w]
      /\ Outcome(records, records', work[w], work'[w], K)
      /\ \A u \in Workers : u # w => work'[u] = work[u]
  BY Zenon, StoreCallDoes
<1>2. Queues(work) /\ ~Idle(w)
  BY DEF RecordsInv, StoreCall
<1>3. /\ Len(work[w]) \in Nat /\ DOMAIN work[w] = 1..Len(work[w])
      /\ \A j \in DOMAIN work[w] : j # 1 => j - 1 \in DOMAIN Tail(work[w]) /\ Tail(work[w])[j - 1] = work[w][j]
  BY ZenonT(30), <1>2, QueueFacts, RestOf
<1>4. CASE v # w
  BY <1>1, <1>4
<1>5. CASE v = w
  <2>1. a # 1 /\ Len(work[w]) # 1
    BY <1>3, <1>5
  <2>2. work'[w] = Tail(work[w])
    BY Zenon, <1>1, <2>1 DEF Outcome
  <2> QED
    BY ZenonT(30), <1>3, <1>5, <2>1, <2>2
<1> QED
  BY Zenon, <1>4, <1>5

LEMMA CatalogRequestBegins ==
  ASSUME NoRecipeGone(records), NEW w \in Workers, CatalogRequest(w), loose' = "no"
  PROVE  loose = "no" /\ \E s, kinds : Begin(w, s, kinds) /\ CatalogBegin(s)
<1>1. CASE PlainSave(w) /\ UNCHANGED loose
  <2>1. PICK id \in Fresh("ingredient") \cup Known("ingredient"), l \in Labels :
          Begin(w, <<Save("ingredient", id, [category |-> l], "yes")>>, {})
    BY Zenon, <1>1 DEF PlainSave
  <2>2. "stock" \notin DOMAIN [category |-> l]
    OBVIOUS
  <2>3. id \in Ids /\ (records["ingredient"][id] # Missing \/ id \in Fresh("ingredient"))
    BY ZenonT(30), FreshIs DEF Known
  <2>4. CatalogBegin(<<Save("ingredient", id, [category |-> l], "yes")>>)
    BY <2>2, <2>3, OneCatalogSave DEF CatalogKinds
  <2> QED
    BY <1>1, <2>1, <2>4
<1>2. CASE ProductForm(w) /\ UNCHANGED loose
  <2>1. PICK p \in Fresh("product") \cup Known("product") :
    \/ \E fields \in {[stock |-> "typed"], NoFields} : Begin(w, <<Save("product", p, fields, "yes")>>, {})
    \/ Begin(w, <<Save("product", p, [stock |-> "none"], "yes"), RecipeOfProduct(p)>>, {})
    BY <1>2 DEF ProductForm
  <2>2. p \in Ids /\ (records["product"][p] # Missing \/ p \in Fresh("product"))
    BY FreshIs DEF Known
  <2>3. CASE \E fields \in {[stock |-> "typed"], NoFields} : Begin(w, <<Save("product", p, fields, "yes")>>, {})
    <3>1. PICK fields \in {[stock |-> "typed"], NoFields} : Begin(w, <<Save("product", p, fields, "yes")>>, {})
      BY <2>3
    <3>2. "stock" \in DOMAIN fields => fields["stock"] # "none"
      BY SMTT(20), SMTT(30), NoCalls DEF NoFields
    <3>3. CatalogBegin(<<Save("product", p, fields, "yes")>>)
      BY <2>2, <3>2, OneCatalogSave DEF CatalogKinds
    <3> QED
      BY <1>2, <3>1, <3>3
  <2>4. CASE Begin(w, <<Save("product", p, [stock |-> "none"], "yes"), RecipeOfProduct(p)>>, {})
    <3> DEFINE d == Save("product", p, [stock |-> "none"], "yes")
               e == RecipeOfProduct(p)
    <3>1. d.op = "save" /\ d.kind = "product" /\ d.id = p
      BY ONLY SaveIs
    <3>2. e.op = "recipe" /\ e.kind = "product" /\ e.id = p /\ e = RecipeOfProduct(p)
      BY RecipeOfIs
    <3> HIDE DEF d, e
    <3>3. /\ IsSeq(<<d, e>>) /\ Len(<<d, e>>) = 2 /\ DOMAIN <<d, e>> = {1, 2} /\ <<d, e>>[1] = d /\ <<d, e>>[2] = e
      BY TwoCalls
    <3>4. CallTyped(d, CatalogKinds) /\ CallTyped(e, CatalogKinds)
      BY ONLY ZenonT(30), <2>2, <3>1, <3>2 DEF CallTyped, CatalogKinds
    <3>5. NewCalls(<<d, e>>, CatalogKinds)
      BY <2>2, <3>1, <3>2, <3>3, <3>4 DEF NewCalls
    <3>6. CatalogCall(records, <<d, e>>, 1)
      <4>1. 1 + 1 = 2
        OBVIOUS
      <4>2. 1 + 1 \in DOMAIN <<d, e>> /\ <<d, e>>[1 + 1] = e
        BY <3>3, <4>1
      <4> QED
        BY Zenon, <3>1, <3>2, <3>3, <4>2 DEF CatalogCall
    <3>7. CatalogCall(records, <<d, e>>, 2)
      BY Zenon, <3>2, <3>3 DEF CatalogCall
    <3>8. CatalogBegin(<<d, e>>)
      BY ZenonT(30), <3>3, <3>5, <3>6, <3>7 DEF CatalogBegin
    <3> QED
      BY ZenonT(30), <1>2, <2>4, <3>8 DEF d, e
  <2> QED
    BY <2>1, <2>3, <2>4
<1>3. CASE handleSaveRecipe(w)
  <2>1. PICK p \in Live("product"), r \in Fresh("recipe") \cup Known("recipe") :
          /\ loose' = IF r \in Live("recipe") /\ ~Has("recipe", r, "product", p) THEN "yes" ELSE loose
          /\ Begin(w, <<Save("recipe", r, [product |-> p], "yes")>>, {})
    BY <1>3 DEF handleSaveRecipe
  <2>2. loose = "no" /\ ~(r \in Live("recipe") /\ ~Has("recipe", r, "product", p))
    BY <2>1
  <2>3. r \in Ids
    BY ZenonT(30), FreshIs DEF Known
  <2>4. r \in Fresh("recipe") \/ (records["recipe"][r].live = "yes" /\ Has("recipe", r, "product", p))
    BY <2>2 DEF Known, NoRecipeGone, Live, IsLive
  <2>5. CatalogBegin(<<Save("recipe", r, [product |-> p], "yes")>>)
    BY Zenon, <2>3, <2>4, OneRecipeSave
  <2> QED
    BY ZenonT(30), <2>1, <2>2, <2>5
<1>4. CASE handleProductsImport(w)
  <2>1. PICK a \in Fresh("product"), b \in Fresh("product") :
          /\ a # b /\ UNCHANGED loose
          /\ Begin(w, << Save("product", a, [stock |-> "typed"], "no"), Save("product", b, [stock |-> "typed"], "no") >>, {})
    BY <1>4 DEF handleProductsImport
  <2> DEFINE f == [stock |-> "typed"]
             d == Save("product", a, f, "no")
             e == Save("product", b, f, "no")
  <2>2. f["stock"] # "none"
    OBVIOUS
  <2> HIDE DEF f
  <2>3. d.op = "save" /\ d.kind = "product" /\ d.id = a /\ d.fields = f
    BY ONLY SaveIs
  <2>4. e.op = "save" /\ e.kind = "product" /\ e.id = b /\ e.fields = f
    BY ONLY SaveIs
  <2> HIDE DEF d, e
  <2>5. IsSeq(<<d, e>>) /\ DOMAIN <<d, e>> = {1, 2} /\ <<d, e>>[1] = d /\ <<d, e>>[2] = e
    BY ZenonT(30), TwoCalls
  <2>6. CallTyped(d, CatalogKinds) /\ CallTyped(e, CatalogKinds)
    BY <2>3, <2>4, FreshIs DEF CallTyped, CatalogKinds
  <2>7. NewCalls(<<d, e>>, CatalogKinds)
    BY ZenonT(30), <2>1, <2>3, <2>4, <2>5, <2>6 DEF NewCalls
  <2>8. CatalogCall(records, <<d, e>>, 1) /\ CatalogCall(records, <<d, e>>, 2)
    BY Zenon, <2>2, <2>3, <2>4, <2>5 DEF CatalogCall
  <2>9. CatalogBegin(<<d, e>>)
    BY <2>5, <2>7, <2>8 DEF CatalogBegin
  <2> QED
    BY <2>1, <2>9 DEF d, e, f
<1>5. CASE PlainDelete(w)
  <2>1. PICK kind \in {"product", "recipe", "ingredient"} : \E id \in Live(kind) :
          /\ loose' = IF kind = "recipe" THEN "yes" ELSE loose
          /\ Begin(w, <<Delete(kind, id)>>, {})
    BY <1>5 DEF PlainDelete
  <2>2. PICK id \in Live(kind) :
          /\ loose' = IF kind = "recipe" THEN "yes" ELSE loose
          /\ Begin(w, <<Delete(kind, id)>>, {})
    BY <2>1
  <2>3. kind # "recipe" /\ loose = "no" /\ kind \in CatalogKinds /\ id \in Ids
    BY <2>2 DEF CatalogKinds, Live
  <2> QED
    BY <2>2, <2>3, OneCatalogDelete
<1>6. CASE DeleteCategory(w) /\ UNCHANGED loose
  <2>1. PICK id \in Live("ingredient_category") : Begin(w, <<Delete("ingredient_category", id)>>, {"ingredient"})
    BY <1>6 DEF DeleteCategory
  <2>2. id \in Ids
    BY DEF Live
  <2>3. CatalogBegin(<<Delete("ingredient_category", id)>>)
    BY <2>2, OneCatalogDelete DEF CatalogKinds
  <2> QED
    BY <1>6, <2>1, <2>3
<1>7. CASE handleTaskToggle(w)
  <2>1. PICK t \in Live("task") :
          Begin(w, <<Save("task", t, [done |-> IF Field("task", t, "done") = "true" THEN "false" ELSE "true"], "no")>>, {})
    BY <1>7 DEF handleTaskToggle
  <2> DEFINE f == [done |-> IF Field("task", t, "done") = "true" THEN "false" ELSE "true"]
  <2>2. "stock" \notin DOMAIN f
    OBVIOUS
  <2> HIDE DEF f
  <2>3. t \in Ids /\ records["task"][t] # Missing
    BY LiveIsKnown
  <2>4. CatalogBegin(<<Save("task", t, f, "no")>>)
    BY <2>2, <2>3, OneCatalogSave DEF CatalogKinds
  <2> QED
    BY <1>7, <2>1, <2>4 DEF f, handleTaskToggle
<1> QED
  BY ZenonT(30), <1>1, <1>2, <1>3, <1>4, <1>5, <1>6, <1>7 DEF CatalogRequest, handleLocalSave, handleLocalDelete

\* A worker's calls are replaced by others that lead to the same recipes.
LEMMA CatalogReplaced ==
  ASSUME CatalogInv(records, work), NEW w \in Workers, NEW s, CatalogBegin(s),
         records' = records, work' = [work EXCEPT ![w] = s],
         \A p \in Ids : \A i \in DOMAIN work[w] :
           Emptied(records, p) /\ RecipeUnderWay(work[w][i], p) => \E j \in DOMAIN s : RecipeUnderWay(s[j], p)
  PROVE  CatalogInv(records', work')
<1>1. /\ RecordsInv(records', work', CatalogKinds) /\ work'[w] = s
      /\ \A v \in Workers : v # w => work'[v] = work[v]
  BY Zenon, CallsReplaced DEF CatalogInv, CatalogBegin
<1>2. CatalogCalls(records', work')
  BY <1>1 DEF CatalogInv, CatalogBegin, CatalogCalls
<1>3. NoRecipeGone(records')
  BY DEF CatalogInv
<1>4. ASSUME NEW p \in Ids, Emptied(records, p)
      PROVE  HasRecipe(records, p)
             \/ \E v \in Workers : \E i \in DOMAIN work'[v] : RecipeUnderWay(work'[v][i], p)
  <2>1. HasRecipe(records, p) \/ \E v \in Workers : \E i \in DOMAIN work[v] : RecipeUnderWay(work[v][i], p)
    BY <1>4 DEF CatalogInv, EmptiedHaveRecipes
  <2>2. ASSUME NEW v \in Workers, NEW i \in DOMAIN work[v], RecipeUnderWay(work[v][i], p)
        PROVE  \E u \in Workers : \E j \in DOMAIN work'[u] : RecipeUnderWay(work'[u][j], p)
    <3>1. CASE v = w
      BY <1>1, <1>4, <2>2, <3>1
    <3>2. CASE v # w
      BY <1>1, <2>2, <3>2
    <3> QED
      BY <3>1, <3>2
  <2> QED
    BY <2>1, <2>2
<1>5. EmptiedHaveRecipes(records', work')
  BY <1>4 DEF EmptiedHaveRecipes
<1> QED
  BY <1>1, <1>2, <1>3, <1>5 DEF CatalogInv

LEMMA CatalogBeginKeeps ==
  ASSUME CatalogInv(records, work), NEW w \in Workers, CatalogRequest(w), loose' = "no"
  PROVE  CatalogInv(records', work') /\ cut' = cut
<1>1. PICK s, kinds : Begin(w, s, kinds) /\ CatalogBegin(s)
  BY CatalogRequestBegins DEF CatalogInv
<1>2. records' = records /\ Idle(w) /\ work' = [work EXCEPT ![w] = s] /\ cut' = cut
  BY <1>1 DEF Begin
<1>3. DOMAIN work[w] = {}
  BY ZenonT(30), <1>2, NoCalls DEF Idle
<1> QED
  BY Zenon, <1>1, <1>2, <1>3, CatalogReplaced

LEMMA LookupKeeps ==
  ASSUME CatalogInv(records, work), NEW w \in Workers, RecipeLookup(w)
  PROVE  CatalogInv(records', work')
<1> DEFINE p == work[w][1].id
           mine == {r \in Entities("recipe") : Has("recipe", r, "product", p)}
<1>1. ~Idle(w) /\ Queues(work) /\ records' = records
  BY DEF RecipeLookup, CatalogInv, RecordsInv
<1>2. /\ 1 \in DOMAIN work[w] /\ Head(work[w]) = work[w][1] /\ Len(work[w]) \in Nat /\ DOMAIN work[w] = 1..Len(work[w])
  BY ONLY ZenonT(30), <1>1, QueueFacts
<1>3. work[w][1].op = "recipe"
  BY <1>2 DEF RecipeLookup
<1>4. CatalogCall(records, work[w], 1) /\ CallTyped(work[w][1], CatalogKinds)
  BY Zenon, <1>2 DEF CatalogInv, CatalogCalls, RecordsInv
<1>5. Len(work[w]) = 1 /\ work[w][1] = RecipeOfProduct(p) /\ p \in Ids
  BY ZenonT(30), <1>3, <1>4 DEF CatalogCall, CallTyped
<1>6. \A i \in DOMAIN work[w] : i = 1
  BY ONLY SMTT(20), SMTT(30), <1>2, <1>5
<1>7. \A q : RecipeUnderWay(work[w][1], q) => q = p
  BY <1>3, RecipeOfIs DEF RecipeUnderWay
<1>8. CASE ~IsLive("product", p)
  <2>1. work' = [work EXCEPT ![w] = << >>]
    BY Zenon, <1>2, <1>8 DEF RecipeLookup
  <2>2. CatalogBegin(<< >>)
    BY ZenonT(30), NoCalls DEF CatalogBegin, NewCalls
  <2>3. \A q \in Ids : \A i \in DOMAIN work[w] : ~(Emptied(records, q) /\ RecipeUnderWay(work[w][i], q))
    BY <1>6, <1>7, <1>8 DEF Emptied, IsLive
  <2> QED
    BY Zenon, <1>1, <2>1, <2>2, <2>3, CatalogReplaced
<1>9. CASE IsLive("product", p)
  <2>1. PICK r \in IF mine = {} THEN Fresh("recipe") ELSE mine :
          work' = [work EXCEPT ![w] = <<Save("recipe", r, [product |-> p], "no")>>]
    BY Zenon, <1>2, <1>9 DEF RecipeLookup
  <2>2. /\ r \in Ids
        /\ \/ r \in Fresh("recipe")
           \/ records["recipe"][r].live = "yes" /\ Has("recipe", r, "product", p)
    BY Zenon, <2>1, FreshIs DEF Entities, Live, IsLive
  <2> DEFINE c == Save("recipe", r, [product |-> p], "no")
  <2>3. CatalogBegin(<<c>>)
    BY ZenonT(30), <2>2, OneRecipeSave
  <2>4. c.op = "save" /\ c.kind = "recipe" /\ c.fields = [product |-> p]
    BY ONLY SaveIs
  <2>5. work' = [work EXCEPT ![w] = <<c>>]
    BY ONLY SMTT(20), SMTT(30), <2>1
  <2> HIDE DEF c
  <2>6. DOMAIN <<c>> = {1} /\ <<c>>[1] = c
    BY Zenon, OneCall
  <2>7. \A q \in Ids : \A i \in DOMAIN work[w] :
           Emptied(records, q) /\ RecipeUnderWay(work[w][i], q) => \E j \in DOMAIN <<c>> : RecipeUnderWay(<<c>>[j], q)
    <3> SUFFICES ASSUME NEW q \in Ids, NEW i \in DOMAIN work[w], RecipeUnderWay(work[w][i], q)
                 PROVE  \E j \in DOMAIN <<c>> : RecipeUnderWay(<<c>>[j], q)
      BY ZenonT(30)
    <3>1. q = p
      BY <1>6, <1>7
    <3>2. RecipeUnderWay(c, q)
      BY Zenon, <2>4, <3>1 DEF RecipeUnderWay
    <3> QED
      BY Zenon, <2>6, <3>2
  <2> QED
    BY Zenon, <1>1, <2>3, <2>5, <2>7, CatalogReplaced
<1> QED
  BY ZenonT(30), <1>8, <1>9

\* While none is deleted or given away, a recipe stays with its product.
RecipesStay(r, q) ==
  \A i \in Ids : r["recipe"][i].live = "yes" =>
    /\ q["recipe"][i].live = "yes"
    /\ \A p : "product" \in DOMAIN r["recipe"][i].f /\ r["recipe"][i].f["product"] = p =>
              "product" \in DOMAIN q["recipe"][i].f /\ q["recipe"][i].f["product"] = p

LEMMA CatalogOnlyGrows ==
  ASSUME CatalogInv(records, work), NEW w \in Workers, StoreCall(w)
  PROVE  RecipesStay(records, records') /\ NoRecipeGone(records')
<1> DEFINE c == work[w][1]
<1>1. /\ 1 \in DOMAIN work[w] /\ Outcome(records, records', work[w], work'[w], CatalogKinds)
  BY Zenon, StoreCallDoes DEF CatalogInv
<1>2. CatalogCall(records, work[w], 1) /\ NoRecipeGone(records)
  BY ZenonT(30), <1>1 DEF CatalogInv, CatalogCalls
<1>3. CASE records' = records
  BY ZenonT(30), <1>2, <1>3 DEF RecipesStay
<1>4. CASE c.kind # "recipe" /\ OnlyThis(records, records', CatalogKinds, c.kind, c.id)
  <2>1. \A i \in Ids : records'["recipe"][i] = records["recipe"][i]
    BY <1>4 DEF OnlyThis, CatalogKinds
  <2> QED
    BY ZenonT(30), <1>2, <2>1 DEF RecipesStay, NoRecipeGone
<1>5. CASE /\ c.kind = "recipe" /\ Written(records["recipe"][c.id], records'["recipe"][c.id], c.fields)
           /\ OnlyThis(records, records', CatalogKinds, c.kind, c.id)
  <2>1. \A i \in Ids : i # c.id => records'["recipe"][i] = records["recipe"][i]
    BY <1>5 DEF OnlyThis, CatalogKinds
  <2>2. records'["recipe"][c.id].live = "yes"
    BY Zenon, <1>5 DEF Written
  <2>3. c.fields = [product |-> c.fields["product"]]
    BY ZenonT(30), <1>2, <1>5 DEF CatalogCall
  <2>4. "product" \in DOMAIN c.fields
    BY <2>3
  <2>5. "product" \in DOMAIN records'["recipe"][c.id].f /\ records'["recipe"][c.id].f["product"] = c.fields["product"]
    BY Zenon, <1>5, <2>4 DEF Written
  <2>6. records["recipe"][c.id].live = "yes" => records["recipe"][c.id].f["product"] = c.fields["product"]
    <3>1. records["recipe"][c.id].live = "yes" => records["recipe"][c.id] # Missing
      BY DEF Missing
    <3> QED
      BY ZenonT(30), <1>2, <1>5, <3>1 DEF CatalogCall
  <2> QED
    BY ZenonT(30), <1>2, <2>1, <2>2, <2>5, <2>6 DEF RecipesStay, NoRecipeGone
<1>6. c.kind = "recipe" => c.op = "save"
  BY Zenon, <1>2 DEF CatalogCall
<1> QED
  BY Zenon, <1>1, <1>3, <1>4, <1>5, <1>6 DEF Outcome

LEMMA CatalogStoreKeeps ==
  ASSUME CatalogInv(records, work), NEW w \in Workers, StoreCall(w)
  PROVE  CatalogInv(records', work')
<1> DEFINE c == work[w][1]
<1>1. /\ RecordsInv(records', work', CatalogKinds) /\ 1 \in DOMAIN work[w]
      /\ Outcome(records, records', work[w], work'[w], CatalogKinds)
  BY Zenon, StoreCallDoes DEF CatalogInv
<1>2. CatalogCalls(records, work) /\ EmptiedHaveRecipes(records, work) /\ RecordsInv(records, work, CatalogKinds)
  BY DEF CatalogInv
<1>3. CatalogCall(records, work[w], 1) /\ CallTyped(c, CatalogKinds)
  BY Zenon, <1>1, <1>2 DEF CatalogCalls, RecordsInv
<1>4. c.kind \in CatalogKinds /\ c.id \in Ids
  BY <1>3 DEF CallTyped
<1>5. RecipesStay(records, records') /\ NoRecipeGone(records')
  BY CatalogOnlyGrows
<1>6. c.op = "delete" => Len(work[w]) = 1
  BY Zenon, <1>3 DEF CatalogCall
<1>7. ASSUME NEW v \in Workers, NEW i \in DOMAIN work'[v]
      PROVE  CatalogCall(records', work'[v], i)
  <2> DEFINE a == IF v = w THEN i + 1 ELSE i
             d == work[v][a]
  <2>0. (v = w => a = i + 1) /\ (v # w => a = i)
    BY Zenon
  <2>00. /\ RecordsInv(records, work, CatalogKinds) /\ StoreCall(w) /\ w \in Workers /\ v \in Workers
         /\ i \in DOMAIN work'[v] /\ (work[w][1].op = "delete" => Len(work[w]) = 1)
    BY ZenonT(30), <1>2, <1>6
  <2> HIDE DEF a, d, c
  <2>01. Remains(work[v], work'[v], i, a) /\ ~(v = w /\ a = 1)
    BY ONLY ZenonT(30), <2>0, <2>00, CallsThatRemain
  <2>1. /\ a \in DOMAIN work[v] /\ work'[v][i] = d /\ ~(v = w /\ a = 1)
        /\ a = Len(work[v]) => i = Len(work'[v])
        /\ a + 1 \in DOMAIN work[v] => i + 1 \in DOMAIN work'[v] /\ work'[v][i + 1] = work[v][a + 1]
    BY ONLY ZenonT(30), <2>01 DEF Remains, d
  <2> USE DEF d, c
  <2>2. CatalogCall(records, work[v], a) /\ CallTyped(d, CatalogKinds)
    BY Zenon, <1>2, <2>1 DEF CatalogCalls, RecordsInv
  <2>3. d.op = "save" /\ records[d.kind][d.id] = Missing => records'[d.kind][d.id] = Missing
    BY ZenonT(30), <1>2, <2>1, StaysMissing
  <2>4. d.id \in Ids
    BY <2>2 DEF CallTyped
  <2>5. d.kind = "recipe" =>
          /\ d.op = "save" /\ d.fields = [product |-> d.fields["product"]]
          /\ \/ records'["recipe"][d.id] = Missing
             \/ /\ records'["recipe"][d.id].live = "yes"
                /\ "product" \in DOMAIN records'["recipe"][d.id].f
                /\ records'["recipe"][d.id].f["product"] = d.fields["product"]
    <3> SUFFICES ASSUME d.kind = "recipe"
                 PROVE  /\ d.op = "save" /\ d.fields = [product |-> d.fields["product"]]
                        /\ \/ records'["recipe"][d.id] = Missing
                           \/ /\ records'["recipe"][d.id].live = "yes"
                              /\ "product" \in DOMAIN records'["recipe"][d.id].f
                              /\ records'["recipe"][d.id].f["product"] = d.fields["product"]
      BY Zenon
    <3>1. d.op = "save" /\ d.fields = [product |-> d.fields["product"]]
      BY Zenon, <2>2 DEF CatalogCall
    <3>2. CASE records["recipe"][d.id] = Missing
      BY Zenon, <2>3, <3>1, <3>2
    <3>3. CASE /\ records["recipe"][d.id].live = "yes"
               /\ "product" \in DOMAIN records["recipe"][d.id].f
               /\ records["recipe"][d.id].f["product"] = d.fields["product"]
      BY Zenon, <1>5, <2>4, <3>1, <3>3 DEF RecipesStay
    <3> QED
      BY Zenon, <2>2, <3>2, <3>3 DEF CatalogCall
  <2>6. /\ d.op \in {"delete", "recipe"} => a = Len(work[v])
        /\ d.op = "recipe" => d = RecipeOfProduct(d.id)
        /\ /\ d.op = "save" /\ d.kind = "product"
           /\ "stock" \in DOMAIN d.fields /\ d.fields["stock"] = "none"
           => a + 1 \in DOMAIN work[v] /\ work[v][a + 1] = RecipeOfProduct(d.id)
    BY Zenon, <2>2 DEF CatalogCall
  <2> HIDE DEF d
  <2> QED
    BY Zenon, <2>1, <2>5, <2>6 DEF CatalogCall
<1>8. CatalogCalls(records', work')
  BY <1>7 DEF CatalogCalls
\* The recipe of a product that was there before, or under way, is so after the call.
<1>9. ASSUME NEW p \in Ids, HasRecipe(records, p) \/ \E v \in Workers : \E i \in DOMAIN work[v] : RecipeUnderWay(work[v][i], p)
      PROVE  HasRecipe(records', p) \/ \E v \in Workers : \E i \in DOMAIN work'[v] : RecipeUnderWay(work'[v][i], p)
  <2>1. CASE HasRecipe(records, p)
    BY Zenon, <1>5, <2>1 DEF HasRecipe, RecipesStay
  <2>2. ASSUME NEW v \in Workers, NEW i \in DOMAIN work[v], RecipeUnderWay(work[v][i], p)
        PROVE  HasRecipe(records', p) \/ \E u \in Workers : \E j \in DOMAIN work'[u] : RecipeUnderWay(work'[u][j], p)
    <3>1. CASE ~(v = w /\ i = 1)
      <4>1. \E j \in DOMAIN work'[v] : work'[v][j] = work[v][i]
        BY <1>2, <1>6, <3>1, CallsAreKept
      <4> QED
        BY ONLY ZenonT(30), <2>2, <4>1
    <3>2. CASE v = w /\ i = 1
      <4>1. c.op \in {"save", "delete"}
        BY ZenonT(30), <1>1 DEF Outcome
      <4>2. c.op = "save" /\ c.kind = "recipe" /\ c.fields = [product |-> p]
        BY <2>2, <3>2, <4>1, RecipeOfIs DEF RecipeUnderWay
      <4>3. Written(records["recipe"][c.id], records'["recipe"][c.id], c.fields)
        BY ZenonT(30), <1>1, <4>2 DEF Outcome
      <4>4. "product" \in DOMAIN c.fields /\ c.fields["product"] = p
        BY <4>2
      <4>5. /\ records'["recipe"][c.id].live = "yes"
            /\ "product" \in DOMAIN records'["recipe"][c.id].f /\ records'["recipe"][c.id].f["product"] = p
        BY Zenon, <4>3, <4>4 DEF Written
      <4> QED
        BY Zenon, <1>4, <4>5 DEF HasRecipe
    <3> QED
      BY ZenonT(30), <3>1, <3>2
  <2> QED
    BY Zenon, <1>9, <2>1, <2>2
<1>10. ASSUME NEW p \in Ids, Emptied(records', p)
       PROVE  HasRecipe(records', p) \/ \E v \in Workers : \E i \in DOMAIN work'[v] : RecipeUnderWay(work'[v][i], p)
  <2>1. CASE Emptied(records, p)
    BY ZenonT(30), <1>2, <1>9, <2>1 DEF EmptiedHaveRecipes
  <2>2. CASE ~Emptied(records, p)
    <3>1. c.op = "save" /\ c.kind = "product" /\ c.id = p /\ Written(records["product"][p], records'["product"][p], c.fields)
      <4>1. records'["product"][p] # records["product"][p]
        BY ZenonT(30), <1>10, <2>2 DEF Emptied
      <4>2. records'["product"][p] # Gone
        BY <1>10 DEF Emptied, Gone
      <4>3. records' # records
        BY <4>1
      <4>4. OnlyThis(records, records', CatalogKinds, c.kind, c.id)
        BY ZenonT(30), <1>1, <4>3 DEF Outcome
      <4>5. c.kind = "product" /\ c.id = p
        BY <4>1, <4>4 DEF OnlyThis, CatalogKinds
      <4> QED
        BY Zenon, <1>1, <4>2, <4>3, <4>5 DEF Outcome
    <3>2. "stock" \in DOMAIN c.fields /\ c.fields["stock"] = "none"
      BY Zenon, <1>10, <2>2, <3>1 DEF Written, Emptied
    <3>3. 1 + 1 \in DOMAIN work[w] /\ work[w][1 + 1] = RecipeOfProduct(p)
      BY Zenon, <1>3, <3>1, <3>2 DEF CatalogCall
    <3>4. ~(w = w /\ 1 + 1 = 1)
      OBVIOUS
    <3>5. \E j \in DOMAIN work'[w] : work'[w][j] = RecipeOfProduct(p)
      BY ZenonT(30), <1>2, <1>6, <3>3, <3>4, CallsAreKept
    <3> QED
      BY <3>5 DEF RecipeUnderWay
  <2> QED
    BY <2>1, <2>2
<1>11. EmptiedHaveRecipes(records', work')
  BY <1>10 DEF EmptiedHaveRecipes
<1> QED
  BY Zenon, <1>1, <1>5, <1>8, <1>11 DEF CatalogInv

LEMMA CatalogStarts ==
  ASSUME HandlersInit, part = "catalog"
  PROVE  CatalogInv(records, work)
<1> DEFINE one(fields) == [i \in Ids |-> IF i = 1 THEN Stored(fields) ELSE Missing]
           l == CHOOSE x \in Labels : TRUE
           A == [stock |-> "typed"]
           B == [category |-> l]
           C == [title |-> l]
           D == [done |-> "false"]
           T == {Stored(A), Stored(B), Stored(C), Stored(D), Missing}
<1>1. records = CatalogRecords /\ work = [w \in Workers |-> << >>]
  BY DEF HandlersInit, RecordsInit
<1>2. records = [product |-> one(A), recipe |-> [i \in Ids |-> Missing], ingredient |-> one(B),
                 ingredient_category |-> one(C), task |-> one(D)]
  BY ZenonT(30), <1>1 DEF CatalogRecords
<1>3. A["stock"] = "typed"
  BY ZenonT(30)
<1> HIDE DEF A, B, C, D
<1>4. records \in [CatalogKinds -> [Ids -> T]]
  BY <1>2 DEF CatalogKinds
<1>5. Shaped(records, CatalogKinds)
  BY Zenon, <1>4 DEF Shaped
<1>6. Queues(work) /\ \A w \in Workers : DOMAIN work[w] = {}
  <2>1. work \in [Workers -> Seq({})]
    BY <1>1
  <2>2. \A w \in Workers : work[w] = << >>
    BY <1>1
  <2> QED
    BY <2>1, <2>2, NoCalls DEF Queues
<1>7. RecordsInv(records, work, CatalogKinds) /\ CatalogCalls(records, work)
  BY ZenonT(30), <1>5, <1>6 DEF RecordsInv, DrawnOnce, CatalogCalls
<1>8. NoRecipeGone(records)
  BY ZenonT(30), <1>2 DEF NoRecipeGone
<1>9. \A p \in Ids : records["product"][p] = Stored(A) \/ records["product"][p] = Missing
  BY ZenonT(30), <1>2
<1>10. \A p \in Ids : ~Emptied(records, p)
  BY <1>3, <1>9 DEF Emptied, Missing, Stored
<1> QED
  BY <1>7, <1>8, <1>10 DEF CatalogInv, EmptiedHaveRecipes

\* RecipeInsteadOfStock holds in every reachable state, for any number of requests
\* side by side: the product form has its look for the recipe before it when it
\* empties the stock, the recipe it finds or makes is the product's own, and no
\* other handler takes a recipe away unless loose says so.
THEOREM EmptiedProductsHaveRecipes == HandlersSpec => []RecipeInsteadOfStock
<1> DEFINE I == part = "catalog" /\ cut = "no" /\ loose = "no" => CatalogInv(records, work)
<1>1. HandlersInit => I
  BY ZenonT(30), CatalogStarts
<1>2. I /\ [HandlersNext]_vars => I'
  <2> SUFFICES ASSUME I, [HandlersNext]_vars, part' = "catalog", cut' = "no", loose' = "no"
               PROVE  CatalogInv(records', work')
    OBVIOUS
  <2>1. CASE UNCHANGED <<part, cut, loose, records, work>>
    BY <2>1
  <2>2. CASE \E w \in Workers : part = "catalog" /\ CatalogRequest(w)
    <3>1. PICK w \in Workers : part = "catalog" /\ CatalogRequest(w)
      BY <2>2
    <3>2. cut' = cut
      <4>1. \E s, kinds : Begin(w, s, kinds)
        BY Zenon, <3>1 DEF CatalogRequest, handleLocalSave, PlainSave, ProductForm, handleSaveRecipe, handleProductsImport,
             handleLocalDelete, PlainDelete, DeleteCategory, handleTaskToggle
      <4> QED
        BY <4>1 DEF Begin
    <3>3. loose = "no"
      BY Zenon, <3>1 DEF CatalogRequest, handleLocalSave, handleSaveRecipe, handleProductsImport,
           handleLocalDelete, PlainDelete, handleTaskToggle
    <3> QED
      BY ZenonT(30), <3>1, <3>2, <3>3, CatalogBeginKeeps
  <2>3. CASE \E w \in Workers : part = "catalog" /\ RecipeLookup(w)
    <3>1. PICK w \in Workers : part = "catalog" /\ RecipeLookup(w)
      BY <2>3
    <3>2. cut' = cut /\ loose' = loose
      BY Zenon, <3>1 DEF RecipeLookup
    <3> QED
      BY <3>1, <3>2, LookupKeeps
  <2>4. CASE RecordsStep /\ part' = part /\ loose' = loose
    <3>1. CASE \E w \in Workers : StoreCall(w)
      BY Zenon, <2>4, <3>1, CatalogStoreKeeps DEF StoreCall
    <3>2. CASE (\E w \in Workers : StoreCallFails(w)) \/ Stop
      <4>1. cut' = "yes"
        BY <3>2 DEF StoreCallFails, Stop
      <4> QED
        BY <4>1
    <3> QED
      BY <2>4, <3>1, <3>2 DEF RecordsStep
  <2> QED
    BY ZenonT(30), <2>1, <2>2, <2>3, <2>4 DEF HandlersNext, vars, recordVars
<1>3. I => RecipeInsteadOfStock
  <2> SUFFICES ASSUME I, part = "catalog", cut = "no", loose = "no", NEW p \in Live("product"),
                      Field("product", p, "stock") = "none"
               PROVE  \/ \E r \in Live("recipe") : Field("recipe", r, "product") = p
                      \/ \E w \in Workers : \E c \in Calls(w) :
                           c = RecipeOfProduct(p) \/ (c.kind = "recipe" /\ c.fields = [product |-> p])
    BY ZenonT(30) DEF RecipeInsteadOfStock
  <2>1. p \in Ids /\ Emptied(records, p)
    BY LiveIsKnown DEF Field, Emptied
  <2>2. HasRecipe(records, p) \/ \E w \in Workers : \E i \in DOMAIN work[w] : RecipeUnderWay(work[w][i], p)
    BY <2>1 DEF CatalogInv, EmptiedHaveRecipes
  <2>3. CASE HasRecipe(records, p)
    BY ZenonT(30), <2>3 DEF HasRecipe, Live, IsLive, Field
  <2>4. CASE \E w \in Workers : \E i \in DOMAIN work[w] : RecipeUnderWay(work[w][i], p)
    BY <2>4 DEF RecipeUnderWay, Calls
  <2> QED
    BY Zenon, <2>2, <2>3, <2>4
<1> QED
  BY <1>1, <1>2, <1>3, PTL DEF HandlersSpec

=============================================================================
