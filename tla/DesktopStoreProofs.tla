------------------------- MODULE DesktopStoreProofs -------------------------
(***************************************************************************)
(* Machine-checked proofs about the desktop's store: its file, for any     *)
(* number of transactions and every set of faults, and its synchronisation *)
(* with the server, for any records, any batch and page size, and any      *)
(* number of operations, pushes and changes.                               *)
(***************************************************************************)
EXTENDS DesktopSync, StoreFile, FiniteSetTheorems, WellFoundedInduction, TLAPS

\* The provers tried in turn at a leaf that names none.
USE SMT, Zenon, SMTT(20)

----------------------------------------------------------------------------
(* Positions in a list.                                                    *)

\* A set of positions that is not empty has a last one.
LEMMA LastPosition ==
  ASSUME NEW n \in Nat, NEW T \in SUBSET (1..n), T # {}
  PROVE  \E i \in T : \A j \in T : j <= i
<1> DEFINE D == {k \in Nat : n - k \in T}
<1>1. D \subseteq Nat /\ D # {}
  <2>1. PICK i \in T : TRUE
    BY Zenon
  <2>2. n - i \in Nat /\ n - (n - i) = i
    OBVIOUS
  <2> QED
    BY Zenon, <2>1, <2>2
<1>2. PICK d \in D : \A e \in D : ~(<<e, d>> \in OpToRel(<, Nat))
  BY Zenon, <1>1, NatLessThanWellFounded, WFMin
<1>3. \A e \in D : ~(e < d)
  BY Zenon, <1>1, <1>2 DEF OpToRel
<1>4. \A j \in T : j <= n - d
  <2> SUFFICES ASSUME NEW j \in T PROVE j <= n - d
    OBVIOUS
  <2>1. n - j \in Nat /\ n - (n - j) = j
    OBVIOUS
  <2>2. ~(n - j < d)
    BY <1>3, <2>1
  <2> QED
    BY <2>2
<1> QED
  BY <1>4

\* A set of positions that is not empty has a first one.
LEMMA FirstPosition ==
  ASSUME NEW n \in Nat, NEW T \in SUBSET (1..n), T # {}
  PROVE  \E i \in T : \A j \in T : i <= j
<1>1. T \subseteq Nat
  OBVIOUS
<1>2. PICK i \in T : \A e \in T : ~(<<e, i>> \in OpToRel(<, Nat))
  BY Zenon, <1>1, NatLessThanWellFounded, WFMin
<1>3. \A e \in T : ~(e < i)
  BY Zenon, <1>1, <1>2 DEF OpToRel
<1> QED
  BY <1>3

\* Counting on: the positions of T up to and with its member b.
LEMMA UpToIsOneMore ==
  ASSUME NEW n \in Nat, NEW T \in SUBSET (1..n), NEW b \in T
  PROVE  /\ IsFiniteSet({k \in T : k < b})
         /\ Cardinality({k \in T : k < b}) \in Nat
         /\ Cardinality({k \in T : k <= b}) = Cardinality({k \in T : k < b}) + 1
<1>1. IsFiniteSet(1..n)
  BY FS_Interval
<1>2. IsFiniteSet({k \in T : k < b})
  BY Zenon, <1>1, FS_Subset
<1>3. {k \in T : k <= b} = {k \in T : k < b} \cup {b}
  <2>1. \A k \in T : k <= b <=> k < b \/ k = b
    OBVIOUS
  <2> QED
    BY <2>1, Zenon
<1>4. b \notin {k \in T : k < b}
  OBVIOUS
<1> QED
  BY Zenon, <1>2, <1>3, <1>4, FS_AddElement, FS_CardinalityType

\* The members of a set of positions can be numbered in their order: for every
\* number below its size, one member has that many before it.
LEMMA RankExists ==
  ASSUME NEW n \in Nat, NEW T \in SUBSET (1..n), NEW j \in Nat, j < Cardinality(T)
  PROVE  \E o \in T : Cardinality({k \in T : k < o}) = j
<1> DEFINE Rank(o) == Cardinality({k \in T : k < o})
           A == {o \in T : Rank(o) > j}
<1> SUFFICES ASSUME \A o \in T : Rank(o) # j PROVE FALSE
  OBVIOUS
<1>1. \A o \in T : Rank(o) \in Nat
  BY Zenon, UpToIsOneMore
<1>2. ASSUME NEW U \in SUBSET T, U # {}, \A o \in U : Rank(o) < j,
             \A o \in U, k \in T : k <= o => k \in U
      PROVE  Cardinality(U) <= j
  <2>1. PICK b \in U : \A k \in U : k <= b
    BY Zenon, <1>2, LastPosition
  <2>2. U = {k \in T : k <= b}
    BY Zenon, <1>2, <2>1
  <2>3. Cardinality(U) = Rank(b) + 1
    BY Zenon, <2>2, UpToIsOneMore
  <2> HIDE DEF Rank
  <2> QED
    BY <1>1, <1>2, <2>3
<1>3. CASE A = {}
  <2>1. T # {}
    BY FS_EmptySet
  <2>2. \A o \in T : Rank(o) < j
    <3> HIDE DEF Rank
    <3> QED
      BY <1>1, <1>3
  <2>3. Cardinality(T) <= j
    BY <1>2, <2>1, <2>2
  <2>4. Cardinality(T) \in Nat
    <3>1. IsFiniteSet(1..n)
      BY FS_Interval
    <3>2. IsFiniteSet(T)
      BY Zenon, <3>1, FS_Subset
    <3> QED
      BY <3>2, FS_CardinalityType
  <2> QED
    BY <2>3, <2>4
<1>4. CASE A # {}
  <2>1. PICK a \in A : \A k \in A : a <= k
    BY Zenon, <1>4, FirstPosition
  <2> DEFINE U == {k \in T : k < a}
  <2>2. Cardinality(U) > j
    BY <2>1
  <2>3. U # {}
    BY <2>2, FS_EmptySet
  <2>4. \A o \in U : Rank(o) < j
    <3> HIDE DEF Rank
    <3> QED
      BY <1>1, <2>1
  <2>5. \A o \in U, k \in T : k <= o => k \in U
    BY <2>1
  <2>6. Cardinality(U) <= j
    BY <1>2, <2>3, <2>4, <2>5
  <2>7. Cardinality(U) \in Nat
    BY <1>1, <2>1
  <2> HIDE DEF U
  <2> QED
    BY <2>2, <2>6, <2>7
<1> QED
  BY Zenon, <1>3, <1>4

----------------------------------------------------------------------------
(* Lists of anything.                                                      *)

IsSeq(s) == \E S : s \in Seq(S)

LEMMA SeqFacts ==
  ASSUME NEW s, IsSeq(s)
  PROVE  Len(s) \in Nat /\ DOMAIN s = 1..Len(s)
BY DEF IsSeq

LEMMA SeqAppend ==
  ASSUME NEW s, IsSeq(s), NEW x
  PROVE  /\ IsSeq(Append(s, x))
         /\ Len(Append(s, x)) = Len(s) + 1
         /\ DOMAIN Append(s, x) = DOMAIN s \cup {Len(s) + 1}
         /\ Len(s) + 1 \notin DOMAIN s
         /\ Append(s, x)[Len(s) + 1] = x
         /\ \A i \in DOMAIN s : Append(s, x)[i] = s[i]
<1>1. PICK S : s \in Seq(S)
  BY DEF IsSeq
<1>2. s \in Seq(S \cup {x})
  BY <1>1
<1>3. Append(s, x) \in Seq(S \cup {x})
  BY <1>2
<1> QED
  BY <1>2, <1>3 DEF IsSeq

LEMMA SeqExcept ==
  ASSUME NEW s, IsSeq(s), NEW i \in DOMAIN s, NEW x
  PROVE  IsSeq([s EXCEPT ![i] = x]) /\ Len([s EXCEPT ![i] = x]) = Len(s)
<1>1. PICK S : s \in Seq(S)
  BY DEF IsSeq
<1>2. [s EXCEPT ![i] = x] \in Seq(S \cup {x})
  BY <1>1
<1> QED
  BY <1>1, <1>2 DEF IsSeq

----------------------------------------------------------------------------
(* Crash safety of the file.                                               *)

\* The inductive invariant.  While no overwrite in place is behind it, the file is
\* whole or still the empty one of the first start; the temporary file is complete
\* before it is renamed; the file already holds the new database between the rename
\* and the return, and the committed one everywhere else.
CrashInv ==
  /\ state \in Int /\ tx \in Nat /\ committed \in Nat
  /\ file.form \in {"empty", "whole", "part"} /\ file.db \in Nat
  /\ step # "idle" => state # Down
  /\ step = "rename" => tmp = Whole(tx)
  /\ step = "publish" => Open(file) = tx
  /\ step \in {"overwrite", "overwrite_rest"} => inPlace = "yes"
  /\ state # Down => committed = state
  /\ inPlace = "no" =>
       /\ file.form # "part"
       /\ step # "publish" /\ state # Down => Open(file) = state
       /\ state = Down => Open(file) \in {committed, tx}

\* The program starts with an empty file and an empty database.
LEMMA CrashInvInit == FileInit => CrashInv
  BY DEF FileInit, CrashInv, Empty, Open, Down

\* No step of withTx, no crash and no restart breaks the invariant.
LEMMA CrashInvStep ==
  ASSUME CrashInv, [FileNext]_fileVars
  PROVE  CrashInv'
<1> USE DEF CrashInv, Down, Corrupt, Open, Empty, Whole, Part
<1>1. CASE Begin
  BY <1>1 DEF Begin
<1>2. CASE WriteTmp
  BY <1>2 DEF WriteTmp, Fails
<1>3. CASE SyncTmp
  BY <1>3 DEF SyncTmp, Fails
<1>4. CASE Rename
  BY <1>4 DEF Rename, Fails
<1>5. CASE Overwrite \/ OverwriteRest
  BY <1>5 DEF Overwrite, OverwriteRest
<1>6. CASE Publish
  BY <1>6 DEF Publish
<1>7. CASE Crash
  BY <1>7 DEF Crash
<1>8. CASE Restart
  BY <1>8 DEF Restart
<1>9. CASE UNCHANGED fileVars
  BY <1>9 DEF fileVars
<1> QED
  BY <1>1, <1>2, <1>3, <1>4, <1>5, <1>6, <1>7, <1>8, <1>9 DEF FileNext

\* PartialOnlyInPlace, the package comment of store.go as far as it holds: whenever
\* the process dies, the file is the last committed database or the one whose
\* commit was under way, unless a failed rename made withTx overwrite it.
THEOREM NeverPartialOnDisk == FileSpec => []PartialOnlyInPlace
<1>1. CrashInv => PartialOnlyInPlace
  BY DEF CrashInv, PartialOnlyInPlace, NeverPartial
<1> QED
  BY <1>1, CrashInvInit, CrashInvStep, PTL DEF FileSpec

\* RolledBackUnlessInPlace: a transaction that failed is rolled back in memory and
\* on disk alike, and one that succeeded is in both.
THEOREM TransactionsAreAtomic == FileSpec => []RolledBackUnlessInPlace
<1>1. CrashInv => RolledBackUnlessInPlace
  BY DEF CrashInv, RolledBackUnlessInPlace, DiskMatchesMemory
<1> QED
  BY <1>1, CrashInvInit, CrashInvStep, PTL DEF FileSpec

\* Whatever fails, the fallback included, the file is whole when withTx is about
\* to report success.
LEMMA WholeBeforePublish ==
  FileSpec => [](step = "publish" => Open(file) = tx)
<1> DEFINE Inv == /\ step = "publish" => Open(file) = tx
                  /\ step = "rename" => tmp = Whole(tx)
<1>1. FileInit => Inv
  BY DEF FileInit
<1>2. Inv /\ [FileNext]_fileVars => Inv'
  <2> SUFFICES ASSUME Inv, [FileNext]_fileVars PROVE Inv'
    OBVIOUS
  <2>1. CASE Begin \/ WriteTmp \/ SyncTmp
    BY <2>1 DEF Begin, WriteTmp, SyncTmp, Fails
  <2>2. CASE Rename
    BY <2>2 DEF Rename, Fails, Open, Whole
  <2>3. CASE Overwrite \/ OverwriteRest
    BY <2>3 DEF Overwrite, OverwriteRest, Open, Whole
  <2>4. CASE Publish \/ Crash
    BY <2>4 DEF Publish, Crash
  <2>5. CASE Restart
    BY <2>5 DEF Restart
  <2>6. CASE UNCHANGED fileVars
    BY <2>6 DEF fileVars
  <2> QED
    BY <2>1, <2>2, <2>3, <2>4, <2>5, <2>6 DEF FileNext
<1> QED
  BY <1>1, <1>2, PTL DEF FileSpec

\* AckedIsOnDisk for every number of transactions and every set of faults.
THEOREM AckedTransactionsAreOnDisk == FileSpec => AckedIsOnDisk
<1>1. (step = "publish" => Open(file) = tx) /\ [FileNext]_fileVars
        => [(step = "publish" /\ state' # Down) => Open(file') = committed']_fileVars
  BY Zenon DEF FileNext, fileVars, Begin, WriteTmp, SyncTmp, Rename, Overwrite, OverwriteRest,
         Publish, Crash, Restart, Open, Down
<1> QED
  BY <1>1, WholeBeforePublish, PTL DEF FileSpec, AckedIsOnDisk

----------------------------------------------------------------------------
(* The outbox and the server's answers.                                    *)

States == Pending \cup Final \cup {"discarded"}

\* What the outbox, the pushes under way and the server's record say of an
\* operation fits together: an answer on its way is the recorded one if it is
\* final, an operation is discarded only after a recorded refusal, and an
\* operation is queued only when all earlier ones of its record are settled.
OutboxInv ==
  /\ IsSeq(outbox)
  /\ Len(outbox) <= MaxOps
  /\ \A o \in DOMAIN outbox : /\ DOMAIN outbox[o] = {"record", "action", "base", "state"}
                             /\ outbox[o].record \in Catalog
                             /\ outbox[o].state \in States
  /\ answers \in [OpIds -> {"none", "applied", "conflict", "rejected"}]
  /\ \A o \in DOMAIN outbox :
       /\ outbox[o].state \in Final => outbox[o].state = answers[o]
       /\ outbox[o].state = "discarded" => answers[o] \in {"conflict", "rejected"}
  /\ \A o, q \in DOMAIN outbox :
       o < q /\ outbox[o].record = outbox[q].record => outbox[o].state \in {"applied", "discarded"}
  /\ IsSeq(applied)
  /\ \A i \in DOMAIN applied : applied[i] \in DOMAIN outbox /\ answers[applied[i]] = "applied"

\* A push holds operations of the outbox and answers to the first of them.
PushOK(p) ==
  /\ DOMAIN p = {"ops", "answers"}
  /\ IsSeq(p.ops) /\ IsSeq(p.answers)
  /\ Len(p.answers) <= Len(p.ops)
  /\ \A i \in DOMAIN p.ops : p.ops[i] \in DOMAIN outbox
  /\ \A i \in DOMAIN p.answers :
       \/ p.answers[i] \in Pending
       \/ p.answers[i] \in Final /\ p.answers[i] = answers[p.ops[i]]

PushInv ==
  /\ IsSeq(pushes)
  /\ pc = "results" => pushes # <<>>
  /\ \A n \in DOMAIN pushes : PushOK(pushes[n])

\* A batch holds operations of the outbox.
LEMMA BatchOfOutbox ==
  ASSUME IsSeq(outbox)
  PROVE  /\ IsSeq(Batch)
         /\ \A i \in DOMAIN Batch : Batch[i] \in DOMAIN outbox
<1> DEFINE pending == {o \in DOMAIN outbox : outbox[o].state \in Pending}
           first == {o \in pending : Cardinality({k \in pending : k < o}) < MaxBatch}
<1>1. DOMAIN outbox = 1..Len(outbox) /\ Len(outbox) \in Nat
  BY SeqFacts
<1>2. first \in SUBSET (1..Len(outbox))
  BY <1>1
<1>3. Cardinality(first) \in Nat
  <2>1. IsFiniteSet(1..Len(outbox))
    BY <1>1, FS_Interval
  <2>2. IsFiniteSet(first)
    BY Zenon, <1>2, <2>1, FS_Subset
  <2> QED
    BY <2>2, FS_CardinalityType
<1> DEFINE nth(i) == CHOOSE o \in first : Cardinality({k \in first : k < o}) = i - 1
           size == Cardinality(first)
<1>4. Batch = [i \in 1..size |-> nth(i)]
  BY DEF Batch
<1> HIDE DEF first
<1>5. \A i \in 1..size : \E o \in first : Cardinality({k \in first : k < o}) = i - 1
  <2> SUFFICES ASSUME NEW i \in 1..size
               PROVE  \E o \in first : Cardinality({k \in first : k < o}) = i - 1
    OBVIOUS
  <2>1. i - 1 \in Nat /\ i - 1 < size
    BY <1>3
  <2> QED
    BY Zenon, <1>1, <1>2, <2>1, RankExists
<1>6. \A i \in 1..size : nth(i) \in first
  BY <1>5
<1> HIDE DEF nth, size
<1>7. Batch \in [1..size -> first]
  BY <1>4, <1>6
<1>8. size \in Nat
  BY <1>3 DEF size
<1>9. Batch \in Seq(first)
  BY <1>7, <1>8
<1> QED
  BY <1>1, <1>2, <1>7, <1>9, Zenon DEF IsSeq

\* An answer, once recorded, stays; so the pushes of a longer outbox stay in order.
LEMMA PushKept ==
  ASSUME OutboxInv, NEW p, PushOK(p), DOMAIN outbox \subseteq DOMAIN outbox',
         \A o \in OpIds : answers[o] # "none" => answers'[o] = answers[o]
  PROVE  /\ \A i \in DOMAIN p.ops : p.ops[i] \in DOMAIN outbox'
         /\ \A i \in DOMAIN p.answers :
              \/ p.answers[i] \in Pending
              \/ p.answers[i] \in Final /\ p.answers[i] = answers'[p.ops[i]]
<1>1. DOMAIN outbox \subseteq OpIds
  BY SeqFacts, DesktopSyncConstants DEF OutboxInv, OpIds
<1>2. \A i \in DOMAIN p.answers : i \in DOMAIN p.ops
  BY SeqFacts DEF PushOK
<1> QED
  BY <1>1, <1>2 DEF PushOK, Final

LEMMA HandlePushKeeps ==
  ASSUME OutboxInv, PushInv, NEW n \in DOMAIN pushes, HandlePush(n)
  PROVE  OutboxInv' /\ PushInv'
<1> DEFINE p == pushes[n]
           o == p.ops[Len(p.answers) + 1]
<1>1. UNCHANGED <<outbox, pc>>
  BY DEF HandlePush, database, refresh
<1>2. PushOK(p)
  BY ZenonT(30) DEF PushInv
<1>3. Len(p.answers) \in Nat /\ Len(p.ops) \in Nat /\ DOMAIN p.ops = 1..Len(p.ops) /\ Len(p.answers) < Len(p.ops)
  BY <1>2, SeqFacts DEF HandlePush, PushOK
<1>4. o \in DOMAIN outbox
  BY <1>2, <1>3 DEF PushOK
<1>5. o \in OpIds
  BY <1>4, SeqFacts, DesktopSyncConstants DEF OutboxInv, OpIds
<1>6. PICK s : /\ pushes' = [pushes EXCEPT ![n].answers = Append(@, s)]
               /\ \/ answers' = answers /\ applied' = applied /\ (s \in Pending \/ (s = answers[o] /\ s # "none"))
                  \/ /\ answers[o] = "none" /\ answers' = [answers EXCEPT ![o] = s]
                     /\ \/ s = "applied" /\ applied' = Append(applied, o)
                        \/ s \in {"conflict", "rejected"} /\ applied' = applied
  BY Zenon DEF HandlePush, Pending
<1>7. answers' \in [OpIds -> {"none", "applied", "conflict", "rejected"}]
  BY <1>5, <1>6 DEF OutboxInv
<1>8. \A q \in OpIds : answers[q] # "none" => answers'[q] = answers[q]
  BY <1>5, <1>6 DEF OutboxInv
<1>9. s \in Pending \/ (s \in Final /\ s = answers'[o])
  BY <1>5, <1>6 DEF OutboxInv, Final
<1>10. DOMAIN outbox \subseteq OpIds
  BY SeqFacts, DesktopSyncConstants DEF OutboxInv, OpIds
<1>11. OutboxInv'
  <2>1. IsSeq(applied') /\ \A i \in DOMAIN applied' : applied'[i] \in DOMAIN outbox' /\ answers'[applied'[i]] = "applied"
    <3>1. \A i \in DOMAIN applied : applied[i] \in DOMAIN outbox' /\ answers'[applied[i]] = "applied"
      BY <1>1, <1>8, <1>10 DEF OutboxInv
    <3>2. CASE applied' = applied
      BY <3>1, <3>2 DEF OutboxInv
    <3>3. CASE s = "applied" /\ applied' = Append(applied, o) /\ answers' = [answers EXCEPT ![o] = s]
      <4>1. answers'[o] = "applied"
        BY <1>5, <3>3 DEF OutboxInv
      <4> HIDE DEF o
      <4> QED
        BY <1>1, <1>4, <3>1, <3>3, <4>1, SeqAppend DEF OutboxInv
    <3> QED
      BY <1>6, <3>2, <3>3
  <2>2. \A q \in DOMAIN outbox :
          /\ outbox[q].state \in Final => outbox[q].state = answers'[q]
          /\ outbox[q].state = "discarded" => answers'[q] \in {"conflict", "rejected"}
    BY <1>8, <1>10 DEF OutboxInv, Final
  <2> QED
    BY <1>1, <1>7, <2>1, <2>2 DEF OutboxInv
<1>12. PushInv'
  <2> DEFINE new == [p EXCEPT !.answers = Append(p.answers, s)]
  <2>1. pushes' = [pushes EXCEPT ![n] = new]
    BY <1>6
  <2>2. IsSeq(pushes') /\ Len(pushes') = Len(pushes) /\ DOMAIN pushes' = DOMAIN pushes
    <3> HIDE DEF new
    <3> QED
      BY <2>1, SeqExcept, SeqFacts, Zenon DEF PushInv
  <2>3. DOMAIN new = {"ops", "answers"} /\ new.ops = p.ops /\ new.answers = Append(p.answers, s)
    BY <1>2 DEF PushOK
  <2>4. \A m \in DOMAIN pushes : m # n => PushOK(pushes[m])'
    <3> SUFFICES ASSUME NEW m \in DOMAIN pushes, m # n PROVE PushOK(pushes[m])'
      OBVIOUS
    <3>1. pushes'[m] = pushes[m] /\ PushOK(pushes[m])
      BY <2>1 DEF PushInv
    <3>2. /\ \A i \in DOMAIN pushes[m].ops : pushes[m].ops[i] \in DOMAIN outbox'
          /\ \A i \in DOMAIN pushes[m].answers :
               \/ pushes[m].answers[i] \in Pending
               \/ pushes[m].answers[i] \in Final /\ pushes[m].answers[i] = answers'[pushes[m].ops[i]]
      BY <1>1, <1>8, <3>1, PushKept
    <3> QED
      BY <3>1, <3>2 DEF PushOK
  <2>5. PushOK(pushes[n])'
    <3>1. pushes'[n] = new
      BY <2>1 DEF PushInv
    <3>2. /\ \A i \in DOMAIN p.ops : p.ops[i] \in DOMAIN outbox'
          /\ \A i \in DOMAIN p.answers :
               \/ p.answers[i] \in Pending
               \/ p.answers[i] \in Final /\ p.answers[i] = answers'[p.ops[i]]
      BY <1>1, <1>2, <1>8, PushKept
    <3>3. /\ IsSeq(new.answers) /\ Len(new.answers) = Len(p.answers) + 1
          /\ \A i \in DOMAIN new.answers :
               \/ i \in DOMAIN p.answers /\ new.answers[i] = p.answers[i]
               \/ i = Len(p.answers) + 1 /\ new.answers[i] = s
      BY <1>2, <2>3, SeqAppend DEF PushOK
    <3>4. Len(new.answers) <= Len(new.ops)
      BY <1>3, <2>3, <3>3
    <3> HIDE DEF new, p
    <3> QED
      BY <1>2, <1>9, <2>3, <3>1, <3>2, <3>3, <3>4, Zenon DEF PushOK
  <2> QED
    BY <1>1, <2>1, <2>2, <2>4, <2>5 DEF PushInv
<1> QED
  BY ZenonT(30), <1>11, <1>12

\* The pushes stay in order while the outbox only changes its states or grows.
LEMMA PushesStay ==
  ASSUME OutboxInv, PushInv, UNCHANGED <<pushes, answers>>, pc' = "results" => pc = "results",
         DOMAIN outbox \subseteq DOMAIN outbox'
  PROVE  PushInv'
<1>1. ASSUME NEW n \in DOMAIN pushes PROVE PushOK(pushes[n])'
  <2>1. PushOK(pushes[n]) /\ pushes'[n] = pushes[n]
    BY DEF PushInv
  <2> QED
    BY <2>1 DEF PushOK
<1> QED
  BY <1>1 DEF PushInv

LEMMA PushKeeps ==
  ASSUME OutboxInv, PushInv, Push
  PROVE  OutboxInv' /\ PushInv'
<1>1. UNCHANGED <<outbox, answers, applied>>
  BY DEF Push, database, server
<1>2. OutboxInv'
  BY <1>1 DEF OutboxInv
<1>3. CASE UNCHANGED pushes /\ pc' # "results"
  BY <1>1, <1>2, <1>3, PushesStay
<1>4. CASE pushes' = Append(pushes, [ops |-> Batch, answers |-> <<>>])
  <2> DEFINE new == [ops |-> Batch, answers |-> <<>>]
  <2>1. /\ IsSeq(pushes') /\ pushes' # <<>>
        /\ DOMAIN pushes' = DOMAIN pushes \cup {Len(pushes) + 1}
        /\ pushes'[Len(pushes) + 1] = new
        /\ \A n \in DOMAIN pushes : pushes'[n] = pushes[n]
    <3> HIDE DEF new
    <3>1. pushes' = Append(pushes, new)
      BY <1>4 DEF new
    <3>2. Append(pushes, new) # <<>>
      BY SeqAppend, SeqFacts DEF PushInv
    <3> QED
      BY <3>1, <3>2, SeqAppend DEF PushInv
  <2>2. PushOK(new)
    <3>1. DOMAIN new = {"ops", "answers"} /\ new.ops = Batch /\ new.answers = <<>>
      OBVIOUS
    <3>2. IsSeq(Batch) /\ \A i \in DOMAIN Batch : Batch[i] \in DOMAIN outbox
      BY BatchOfOutbox DEF OutboxInv
    <3>3. IsSeq(<<>>) /\ Len(<<>>) = 0 /\ DOMAIN <<>> = {}
      BY DEF IsSeq
    <3>4. Len(Batch) \in Nat
      BY <3>2, SeqFacts
    <3> HIDE DEF new
    <3> QED
      BY <3>1, <3>2, <3>3, <3>4 DEF PushOK
  <2> HIDE DEF new
  <2>3. \A n \in DOMAIN pushes' : PushOK(pushes[n])'
    BY <1>1, <2>1, <2>2 DEF PushInv, PushOK
  <2> QED
    BY <1>2, <2>1, <2>3 DEF PushInv
<1> QED
  BY <1>3, <1>4 DEF Push

LEMMA SaveResultsKeeps ==
  ASSUME OutboxInv, PushInv, SaveResults
  PROVE  OutboxInv' /\ PushInv'
<1> DEFINE p == pushes[Len(pushes)]
           of(o) == CHOOSE i \in DOMAIN p.ops : p.ops[i] = o
<1>1. UNCHANGED <<answers, applied, pushes>> /\ pc' # "results"
  BY DEF SaveResults, server
<1>2. PushOK(p)
  <2>1. pushes # <<>>
    BY DEF SaveResults, PushInv
  <2>2. Len(pushes) \in DOMAIN pushes
    <3>1. IsSeq(pushes)
      BY DEF PushInv
    <3> QED
      BY <2>1, <3>1 DEF IsSeq
  <2> QED
    BY <2>2 DEF PushInv
<1>3. /\ Len(p.answers) = Len(p.ops)
      /\ \A i \in DOMAIN p.ops : outbox[p.ops[i]].state \in Pending
      /\ outbox' = [o \in DOMAIN outbox |->
                     IF \E i \in DOMAIN p.ops : p.ops[i] = o
                     THEN [outbox[o] EXCEPT !.state = p.answers[of(o)]]
                     ELSE outbox[o]]
  BY DEF SaveResults
<1>4. DOMAIN p.answers = DOMAIN p.ops
  BY <1>2, <1>3, SeqFacts DEF PushOK
<1>5. DOMAIN outbox' = DOMAIN outbox /\ IsSeq(outbox') /\ Len(outbox') = Len(outbox)
  <2>1. DOMAIN outbox' = DOMAIN outbox
    BY <1>3
  <2>2. Len(outbox) \in Nat /\ DOMAIN outbox = 1..Len(outbox)
    BY SeqFacts DEF OutboxInv
  <2> DEFINE val(o) == IF \E i \in DOMAIN p.ops : p.ops[i] = o
                       THEN [outbox[o] EXCEPT !.state = p.answers[of(o)]]
                       ELSE outbox[o]
             vals == {val(o) : o \in DOMAIN outbox}
  <2>3. outbox' = [o \in DOMAIN outbox |-> val(o)]
    BY <1>3
  <2> HIDE DEF val
  <2>4. outbox' \in [1..Len(outbox) -> vals]
    BY <2>2, <2>3
  <2> HIDE DEF vals
  <2>5. outbox' \in Seq(vals) /\ Len(outbox') = Len(outbox)
    BY <2>2, <2>4
  <2>6. IsSeq(outbox')
    BY <2>5, Zenon DEF IsSeq
  <2> QED
    BY <2>1, <2>5, <2>6
<1>6. \A o \in DOMAIN outbox :
        \/ outbox'[o] = outbox[o]
        \/ /\ outbox[o].state \in Pending
           /\ DOMAIN outbox'[o] = DOMAIN outbox[o] /\ outbox'[o].record = outbox[o].record
           /\ outbox'[o].state \in Pending \/ (outbox'[o].state \in Final /\ outbox'[o].state = answers[o])
  <2> SUFFICES ASSUME NEW o \in DOMAIN outbox, NEW j \in DOMAIN p.ops, p.ops[j] = o
               PROVE  /\ outbox[o].state \in Pending
                      /\ DOMAIN outbox'[o] = DOMAIN outbox[o] /\ outbox'[o].record = outbox[o].record
                      /\ outbox'[o].state \in Pending \/ (outbox'[o].state \in Final /\ outbox'[o].state = answers[o])
    BY Zenon, <1>3
  <2>1. of(o) \in DOMAIN p.ops /\ p.ops[of(o)] = o
    OBVIOUS
  <2>2. outbox'[o] = [outbox[o] EXCEPT !.state = p.answers[of(o)]]
    BY <1>3
  <2> HIDE DEF of, p
  <2>3. p.answers[of(o)] \in Pending \/ (p.answers[of(o)] \in Final /\ p.answers[of(o)] = answers[o])
    BY <1>2, <1>4, <2>1 DEF PushOK
  <2>4. DOMAIN outbox[o] = {"record", "action", "base", "state"}
    BY DEF OutboxInv
  <2>5. /\ DOMAIN outbox'[o] = DOMAIN outbox[o] /\ outbox'[o].record = outbox[o].record
        /\ outbox'[o].state = p.answers[of(o)]
    BY <2>2, <2>4
  <2> QED
    BY <1>3, <2>3, <2>5
<1> HIDE DEF p, of
<1>7. OutboxInv'
  BY <1>1, <1>5, <1>6 DEF OutboxInv, States, Pending, Final
<1>8. PushInv'
  BY <1>1, <1>5, PushesStay
<1> QED
  BY <1>7, <1>8

LEMMA DiscardKeeps ==
  ASSUME OutboxInv, PushInv, NEW o \in OpIds, Discard(o)
  PROVE  OutboxInv' /\ PushInv'
<1>1. UNCHANGED <<answers, applied, pushes, pc>>
  BY DEF Discard, server, refresh
<1>2. o \in DOMAIN outbox /\ outbox[o].state \in {"conflict", "rejected", "skipped"}
  BY DEF Discard
<1> DEFINE new == [outbox[o] EXCEPT !.state = "discarded"]
<1>3. outbox' = [outbox EXCEPT ![o] = new]
  BY DEF Discard
<1>4. DOMAIN new = DOMAIN outbox[o] /\ new.record = outbox[o].record /\ new.state = "discarded"
  BY <1>2 DEF OutboxInv
<1> HIDE DEF new
<1>5. IsSeq(outbox') /\ Len(outbox') = Len(outbox) /\ DOMAIN outbox' = DOMAIN outbox
  <2>1. IsSeq(outbox) /\ DOMAIN outbox' = DOMAIN outbox
    BY <1>3 DEF OutboxInv
  <2>2. IsSeq([outbox EXCEPT ![o] = new]) /\ Len([outbox EXCEPT ![o] = new]) = Len(outbox)
    BY <1>2, <2>1, SeqExcept
  <2> QED
    BY <1>3, <2>1, <2>2
<1>6. \A q \in DOMAIN outbox : outbox'[q] = IF q = o THEN new ELSE outbox[q]
  BY <1>3
<1>7. answers[o] \in {"conflict", "rejected"}
  <2>1. outbox[o].state = answers[o]
    BY <1>2 DEF OutboxInv, Final
  <2>2. answers[o] \in {"none", "applied", "conflict", "rejected"}
    BY DEF OutboxInv
  <2> QED
    BY <1>2, <2>1, <2>2
<1>8. OutboxInv'
  BY <1>1, <1>2, <1>4, <1>5, <1>6, <1>7 DEF OutboxInv, States, Final
<1> QED
  BY <1>1, <1>5, <1>8, PushesStay

LEMMA QueueCatalogKeeps ==
  ASSUME OutboxInv, PushInv, NEW a, NEW r \in Catalog, QueueCatalog(a, r)
  PROVE  OutboxInv' /\ PushInv'
<1>1. UNCHANGED <<answers, applied, pushes, pc>>
  BY DEF QueueCatalog, server, refresh
<1> DEFINE new == [record |-> r, action |-> a, base |-> entities[r].version, state |-> "queued"]
<1>2. outbox' = Append(outbox, new)
  BY DEF QueueCatalog
<1>3. DOMAIN new = {"record", "action", "base", "state"} /\ new.record = r /\ new.state = "queued"
  OBVIOUS
<1> HIDE DEF new
<1>4. /\ IsSeq(outbox') /\ Len(outbox') = Len(outbox) + 1
      /\ DOMAIN outbox' = DOMAIN outbox \cup {Len(outbox) + 1}
      /\ Len(outbox) + 1 \notin DOMAIN outbox
      /\ outbox'[Len(outbox) + 1] = new
      /\ \A o \in DOMAIN outbox : outbox'[o] = outbox[o]
  BY <1>2, SeqAppend DEF OutboxInv
<1>5. Len(outbox) \in Nat /\ DOMAIN outbox = 1..Len(outbox) /\ Len(outbox) < MaxOps /\ MaxOps \in Nat
  BY SeqFacts, DesktopSyncConstants DEF OutboxInv, QueueCatalog
<1>6. \A o \in DOMAIN outbox : outbox[o].record = r => outbox[o].state \in {"applied", "discarded"}
  BY DEF QueueCatalog
<1>7. \A o, q \in DOMAIN outbox' :
        o < q /\ outbox'[o].record = outbox'[q].record => outbox'[o].state \in {"applied", "discarded"}
  BY <1>3, <1>4, <1>5, <1>6 DEF OutboxInv
<1>8. \A i \in DOMAIN applied : applied[i] \in DOMAIN outbox' /\ answers[applied[i]] = "applied"
  BY <1>4 DEF OutboxInv
<1>9. \A o \in DOMAIN outbox' :
        /\ DOMAIN outbox'[o] = {"record", "action", "base", "state"}
        /\ outbox'[o].record \in Catalog
        /\ outbox'[o].state \in States
        /\ outbox'[o].state \in Final => outbox'[o].state = answers[o]
        /\ outbox'[o].state = "discarded" => answers[o] \in {"conflict", "rejected"}
  BY <1>3, <1>4 DEF OutboxInv, States, Final, Pending
<1>10. OutboxInv'
  BY <1>1, <1>4, <1>5, <1>7, <1>8, <1>9 DEF OutboxInv
<1> QED
  BY ZenonT(30), <1>1, <1>4, <1>10, PushesStay

LEMMA OutboxStep ==
  ASSUME OutboxInv, PushInv, [Next]_vars
  PROVE  OutboxInv' /\ PushInv'
<1>1. CASE UNCHANGED <<outbox, answers, applied, pushes>> /\ (pc' = "results" => pc = "results")
  <2>1. OutboxInv'
    BY <1>1 DEF OutboxInv
  <2> QED
    BY <1>1, <2>1, PushesStay
<1>2. CASE Refresh
  <2>1. CASE Push
    BY <2>1, PushKeeps
  <2>2. CASE SaveResults
    BY ZenonT(30), <2>2, SaveResultsKeeps
  <2>3. CASE StartRefresh \/ Handshake \/ Snapshot \/ Bootstrap \/ Pull \/ ApplyPage \/ Ack \/ GiveUp
    BY <1>1, <2>3 DEF StartRefresh, Handshake, Snapshot, Bootstrap, Pull, ApplyPage, Ack, GiveUp, Returns,
                      server, database
  <2> QED
    BY <1>2, <2>1, <2>2, <2>3 DEF Refresh
<1>3. ASSUME NEW r, ServerEdit(r) \/ SaveLocal(r)
      PROVE  OutboxInv' /\ PushInv'
  BY <1>1, <1>3, Zenon DEF ServerEdit, SaveLocal, server, database, refresh
<1>4. CASE Compact
  BY <1>1, <1>4 DEF Compact, database, refresh
<1>5. CASE UNCHANGED vars
  BY <1>1, <1>5 DEF vars, server, database, refresh
<1> QED
  BY <1>2, <1>3, <1>4, <1>5, HandlePushKeeps, QueueCatalogKeeps, DiscardKeeps DEF Next

LEMMA OutboxAlways == Spec => [](OutboxInv /\ PushInv)
<1>1. Init => OutboxInv /\ PushInv
  <2>1. IsSeq(<<>>) /\ Len(<<>>) = 0 /\ DOMAIN <<>> = {}
    BY DEF IsSeq
  <2> QED
    BY <2>1, DesktopSyncConstants DEF Init, OutboxInv, PushInv
<1> QED
  BY <1>1, OutboxStep, PTL DEF Spec

\* Discard and the late handling of a push: the server never applies an operation
\* the user discarded.
THEOREM DiscardIsFinal == Spec => []DiscardedNeverApplied
<1>1. OutboxInv => DiscardedNeverApplied
  BY DEF OutboxInv, DiscardedNeverApplied
<1> QED
  BY <1>1, OutboxAlways, PTL

\* SaveResults: an outcome shown in the outbox is the one the server recorded.
THEOREM OutcomesMatchTheServer == Spec => []OutcomesAreTrue
<1>1. OutboxInv => OutcomesAreTrue
  BY DEF OutboxInv, OutcomesAreTrue
<1> QED
  BY <1>1, OutboxAlways, PTL

\* QueueCatalog: the edits of one record take effect in the order they were made.
THEOREM EditsKeepTheirOrder == Spec => []RecordOrder
<1>1. OutboxInv => RecordOrder
  BY SeqFacts DEF OutboxInv, RecordOrder
<1> QED
  BY <1>1, OutboxAlways, PTL

----------------------------------------------------------------------------
(* The server's log: what a record is after n changes.                     *)

\* At, for any log; Applied, for any log, record, cursor and page.
AtIn(lg, r, n) ==
  LET about == {i \in 1..n : lg[i].record = r}
  IN  IF about = {} THEN Absent
      ELSE LET i == CHOOSE i \in about : \A k \in about : k <= i
           IN  [version |-> lg[i].version, deleted |-> lg[i].deleted]

AppliedIn(lg, e, r, a, n) ==
  LET newer == {i \in (a + 1)..n : lg[i].record = r /\ lg[i].version > e.version}
  IN  IF newer = {} THEN e
      ELSE LET i == CHOOSE i \in newer : \A k \in newer : lg[k].version <= lg[i].version
           IN  [version |-> lg[i].version, deleted |-> lg[i].deleted]

\* The versions of a record grow along the log.
GoodLog(lg) ==
  /\ IsSeq(lg)
  /\ \A i \in DOMAIN lg : lg[i].version \in Nat /\ lg[i].version > 0
  /\ \A i, k \in DOMAIN lg : i < k /\ lg[i].record = lg[k].record => lg[i].version < lg[k].version

\* A record e of the device is the server's record r at cursor c, or gone when
\* that is deleted.
Honest(e, lg, r, c) ==
  \/ e = AtIn(lg, r, c)
  \/ e = Absent /\ AtIn(lg, r, c).deleted

LEMMA AtLast ==
  ASSUME NEW lg, GoodLog(lg), NEW r, NEW n \in Nat, n <= Len(lg)
  PROVE  \/ (\A i \in 1..n : lg[i].record # r) /\ AtIn(lg, r, n) = Absent
         \/ \E i \in 1..n :
              /\ lg[i].record = r
              /\ \A k \in 1..n : lg[k].record = r => k <= i
              /\ AtIn(lg, r, n) = [version |-> lg[i].version, deleted |-> lg[i].deleted]
<1> DEFINE about == {i \in 1..n : lg[i].record = r}
           last == CHOOSE i \in about : \A k \in about : k <= i
<1>1. CASE about = {}
  BY <1>1 DEF AtIn
<1>2. CASE about # {}
  <2>1. \E i \in about : \A k \in about : k <= i
    BY Zenon, <1>2, LastPosition
  <2>2. last \in about /\ \A k \in about : k <= last
    BY ZenonT(30), <2>1
  <2>3. AtIn(lg, r, n) = [version |-> lg[last].version, deleted |-> lg[last].deleted]
    BY <1>2 DEF AtIn
  <2> HIDE DEF last
  <2> QED
    BY <2>2, <2>3
<1> QED
  BY <1>1, <1>2

\* What a record was after n changes does not depend on the later ones.
LEMMA AtKept ==
  ASSUME NEW lg, IsSeq(lg), NEW x, NEW r, NEW n \in Nat, n <= Len(lg)
  PROVE  AtIn(Append(lg, x), r, n) = AtIn(lg, r, n)
<1> DEFINE about == {i \in 1..n : lg[i].record = r}
<1>1. \A i \in 1..n : Append(lg, x)[i] = lg[i]
  BY SeqAppend, SeqFacts
<1>2. {i \in 1..n : Append(lg, x)[i].record = r} = about
  BY <1>1
<1>3. CASE about = {}
  BY <1>2, <1>3 DEF AtIn
<1>4. CASE about # {}
  <2> DEFINE last == CHOOSE i \in about : \A k \in about : k <= i
  <2>1. last \in about
    BY Zenon, <1>4, LastPosition
  <2>2. AtIn(lg, r, n) = [version |-> lg[last].version, deleted |-> lg[last].deleted]
    BY <1>4 DEF AtIn
  <2>3. AtIn(Append(lg, x), r, n) = [version |-> Append(lg, x)[last].version, deleted |-> Append(lg, x)[last].deleted]
    BY <1>2, <1>4, Zenon DEF AtIn
  <2> HIDE DEF last
  <2> QED
    BY <1>1, <2>1, <2>2, <2>3
<1> QED
  BY <1>3, <1>4

\* applyChange over a page takes the record to the page's end.
LEMMA PageIsHonest ==
  ASSUME NEW lg, GoodLog(lg), NEW r, NEW e, NEW a \in Nat, NEW n \in Nat, a <= n, n <= Len(lg), Honest(e, lg, r, a)
  PROVE  Honest(AppliedIn(lg, e, r, a, n), lg, r, n)
<1> DEFINE newer == {i \in (a + 1)..n : lg[i].record = r /\ lg[i].version > e.version}
           best == CHOOSE i \in newer : \A k \in newer : lg[k].version <= lg[i].version
<1>1. Len(lg) \in Nat /\ DOMAIN lg = 1..Len(lg)
  BY SeqFacts DEF GoodLog
<1>2. CASE \A i \in (a + 1)..n : lg[i].record # r
  <2>1. newer = {}
    BY <1>2
  <2>2. AppliedIn(lg, e, r, a, n) = e
    BY <2>1 DEF AppliedIn
  <2>3. {i \in 1..n : lg[i].record = r} = {i \in 1..a : lg[i].record = r}
    BY <1>2
  <2>4. AtIn(lg, r, n) = AtIn(lg, r, a)
    BY <2>3, Zenon DEF AtIn
  <2> QED
    BY <2>2, <2>4 DEF Honest
<1>3. CASE \E i \in (a + 1)..n : lg[i].record = r
  <2>1. PICK i \in 1..n : /\ lg[i].record = r
                          /\ \A k \in 1..n : lg[k].record = r => k <= i
                          /\ AtIn(lg, r, n) = [version |-> lg[i].version, deleted |-> lg[i].deleted]
    BY <1>3, AtLast
  <2>2. i \in (a + 1)..n
    BY <1>3, <2>1
  <2>3. lg[i].version > e.version /\ e.version \in Nat
    <3>1. CASE e = Absent
      BY <1>1, <3>1 DEF Absent, GoodLog
    <3>2. CASE e = AtIn(lg, r, a)
      <4>1. CASE e # Absent
        <5>1. PICK k \in 1..a : lg[k].record = r /\ e = [version |-> lg[k].version, deleted |-> lg[k].deleted]
          BY <3>2, <4>1, AtLast
        <5>2. k \in DOMAIN lg /\ i \in DOMAIN lg /\ k < i
          BY <1>1, <2>2
        <5> QED
          BY <2>1, <5>1, <5>2 DEF GoodLog
      <4> QED
        BY ZenonT(30), <3>1, <4>1
    <3> QED
      BY <3>1, <3>2 DEF Honest
  <2>4. i \in newer
    BY ZenonT(30), <2>1, <2>2, <2>3
  <2>5. \A k \in newer : k = i \/ lg[k].version < lg[i].version
    BY <1>1, <2>1 DEF GoodLog
  <2>6. \A k \in newer : lg[k].version \in Nat
    BY <1>1 DEF GoodLog
  <2>7. \A k \in newer : lg[k].version <= lg[i].version
    BY SMTT(20), SMTT(30), <2>4, <2>5, <2>6
  <2>8. best \in newer /\ lg[i].version <= lg[best].version
    BY Zenon, <2>4, <2>7
  <2>9. AppliedIn(lg, e, r, a, n) = [version |-> lg[best].version, deleted |-> lg[best].deleted]
    BY Zenon, <2>4 DEF AppliedIn
  <2> HIDE DEF best, newer
  <2>10. best = i
    BY <2>4, <2>5, <2>6, <2>8
  <2> QED
    BY <2>1, <2>9, <2>10 DEF Honest
<1> QED
  BY <1>2, <1>3

----------------------------------------------------------------------------
(* The cursor.                                                             *)

\* Refresh works with the committed cursor, and the page or snapshot in hand ends
\* at or after it.
CursorInv ==
  /\ GoodLog(log)
  /\ floor \in Nat
  /\ cursor \in Int /\ cursor >= NoCursor /\ cursor <= Len(log)
  /\ acked \in Int /\ acked <= cursor
  /\ pc # "idle" => at = cursor
  /\ pc \in {"replace", "apply"} => page.next \in Nat /\ cursor <= page.next /\ page.next <= Len(log)
  /\ pc = "apply" => at \in Nat

HonestInv ==
  /\ DOMAIN entities = Records
  /\ cursor # NoCursor => \A r \in Catalog \ saved : Honest(entities[r], log, r, cursor)

LEMMA SameAt ==
  /\ \A r, n : At(r, n) = AtIn(log, r, n)
  /\ \A r : Applied(r) = AppliedIn(log, entities[r], r, at, page.next)
BY DEF At, AtIn, Applied, AppliedIn

\* A change takes the next version of its record.
LEMMA ChangeIsGood ==
  ASSUME GoodLog(log), NEW r, NEW d
  PROVE  GoodLog(Change(r, d)) /\ \E x : Change(r, d) = Append(log, x)
<1> DEFINE new == [record |-> r, version |-> Current(r).version + 1, deleted |-> d]
<1>1. Change(r, d) = Append(log, new)
  BY DEF Change
<1>2. IsSeq(log) /\ Len(log) \in Nat /\ DOMAIN log = 1..Len(log)
  BY SeqFacts DEF GoodLog
<1>3. Current(r) = AtIn(log, r, Len(log))
  BY SameAt DEF Current
<1>4. /\ Current(r).version \in Nat
      /\ \A i \in DOMAIN log : log[i].record = r => log[i].version <= Current(r).version
  <2>1. CASE (\A i \in 1..Len(log) : log[i].record # r) /\ Current(r) = Absent
    BY <1>2, <2>1 DEF Absent
  <2>2. CASE \E i \in 1..Len(log) :
               /\ log[i].record = r
               /\ \A k \in 1..Len(log) : log[k].record = r => k <= i
               /\ Current(r) = [version |-> log[i].version, deleted |-> log[i].deleted]
    <3>1. PICK i \in 1..Len(log) : /\ log[i].record = r
                                   /\ \A k \in 1..Len(log) : log[k].record = r => k <= i
                                   /\ Current(r) = [version |-> log[i].version, deleted |-> log[i].deleted]
      BY <2>2
    <3>2. Current(r).version = log[i].version
      BY <3>1
    <3>3. \A k \in DOMAIN log : log[k].record = r => k = i \/ log[k].version < log[i].version
      BY <1>2, <3>1 DEF GoodLog
    <3>4. \A k \in DOMAIN log : log[k].version \in Nat
      BY DEF GoodLog
    <3> QED
      BY <1>2, <3>2, <3>3, <3>4
  <2> QED
    BY <1>2, <1>3, <2>1, <2>2, AtLast
<1>5. new.record = r /\ new.version = Current(r).version + 1
  OBVIOUS
<1> HIDE DEF new
<1>6. /\ IsSeq(Change(r, d))
      /\ DOMAIN Change(r, d) = DOMAIN log \cup {Len(log) + 1}
      /\ Change(r, d)[Len(log) + 1] = new
      /\ \A i \in DOMAIN log : Change(r, d)[i] = log[i]
  BY ONLY SMTT(20), SMTT(30), <1>1, <1>2, SeqAppend
<1>7. GoodLog(Change(r, d))
  <2> DEFINE lg == Change(r, d)
  <2>1. \A i \in DOMAIN lg : lg[i].version \in Nat /\ lg[i].version > 0
    BY SMTT(20), SMTT(30), <1>4, <1>5, <1>6 DEF GoodLog
  <2>2. ASSUME NEW i \in DOMAIN lg, NEW k \in DOMAIN lg, i < k, lg[i].record = lg[k].record
        PROVE  lg[i].version < lg[k].version
    <3>1. i \in DOMAIN log
      BY <1>2, <1>6, <2>2
    <3>2. CASE k \in DOMAIN log
      BY ZenonT(30), <1>6, <2>2, <3>1, <3>2 DEF GoodLog
    <3>3. CASE k = Len(log) + 1
      <4>1. lg[i] = log[i] /\ lg[k] = new
        BY ZenonT(30), <1>6, <3>1, <3>3
      <4>2. log[i].version <= Current(r).version /\ log[i].version \in Nat
        BY <1>4, <1>5, <2>2, <3>1, <4>1 DEF GoodLog
      <4> QED
        BY ONLY SMTT(20), SMTT(30), <1>4, <1>5, <4>1, <4>2
    <3> QED
      BY <1>6, <3>2, <3>3
  <2> QED
    BY ZenonT(30), <1>6, <2>1, <2>2 DEF GoodLog
<1> QED
  BY <1>1, <1>7

\* The log is only added to, by the changes of the server.
LEMMA LogStep ==
  ASSUME GoodLog(log), [Next]_vars
  PROVE  GoodLog(log') /\ (log' = log \/ \E x : log' = Append(log, x))
<1>1. ASSUME NEW r, ServerEdit(r)
      PROVE  \E d : log' = Change(r, d)
  BY <1>1, Zenon DEF ServerEdit
<1>2. ASSUME NEW n, HandlePush(n)
      PROVE  log' = log \/ \E r, d : log' = Change(r, d)
  BY <1>2, Zenon DEF HandlePush
<1>3. ASSUME NEW r, SaveLocal(r) PROVE log' = log
  BY <1>3 DEF SaveLocal, server
<1>4. ASSUME NEW a, NEW r, QueueCatalog(a, r) PROVE log' = log
  BY <1>4 DEF QueueCatalog, server
<1>5. ASSUME NEW o, Discard(o) PROVE log' = log
  BY <1>5 DEF Discard, server
<1>6. ASSUME Refresh \/ Compact \/ UNCHANGED vars PROVE log' = log
  BY <1>6 DEF Refresh, StartRefresh, Handshake, Snapshot, Bootstrap, Push, SaveResults, Pull, ApplyPage,
              Ack, GiveUp, Compact, vars, server
<1>7. log' = log \/ \E r, d : log' = Change(r, d)
  BY <1>1, <1>2, <1>3, <1>4, <1>5, <1>6 DEF Next
<1> QED
  BY <1>7, ChangeIsGood

LEMMA CursorStep ==
  ASSUME CursorInv, [Next]_vars
  PROVE  CursorInv'
<1>1. GoodLog(log')
  BY LogStep DEF CursorInv
<1>2. Len(log) \in Nat /\ Len(log') \in Nat /\ Len(log) <= Len(log')
  <2>1. IsSeq(log) /\ IsSeq(log')
    BY <1>1 DEF CursorInv, GoodLog
  <2>2. Len(log') = Len(log) \/ Len(log') = Len(log) + 1
    BY <2>1, LogStep, SeqAppend DEF CursorInv
  <2> QED
    BY <2>1, <2>2, SeqFacts
<1>3. CASE UNCHANGED <<cursor, acked, at, page>> /\ floor' \in Nat /\ pc' = pc
  BY <1>1, <1>2, <1>3 DEF CursorInv, NoCursor
<1>4. CASE Refresh
  <2>1. floor' = floor /\ log' = log
    BY <1>4 DEF Refresh, StartRefresh, Handshake, Snapshot, Bootstrap, Push, SaveResults, Pull, ApplyPage,
                Ack, GiveUp, server
  <2>2. CASE StartRefresh
    BY <2>1, <2>2 DEF StartRefresh, CursorInv, server, database
  <2>3. CASE Handshake \/ Push \/ SaveResults
    BY <2>1, <2>3 DEF Handshake, Push, SaveResults, CursorInv, server, database
  <2>4. CASE Snapshot
    <3>1. page'.next = Len(log)
      BY <2>4 DEF Snapshot
    <3> QED
      BY <1>2, <2>1, <2>4, <3>1 DEF Snapshot, CursorInv, server, database
  <2>5. CASE Bootstrap
    BY <2>1, <2>5 DEF Bootstrap, CursorInv, server, NoCursor
  <2>6. CASE Pull
    <3>1. UNCHANGED <<cursor, acked, at>>
      BY <2>6 DEF Pull, server, database
    <3>2. CASE pc' = "bootstrap"
      BY <2>1, <2>6, <3>1, <3>2 DEF Pull, CursorInv
    <3>3. CASE pc' # "bootstrap"
      <4>1. pc' = "apply" /\ at >= floor
        BY <2>6, <3>3 DEF Pull, CursorInv
      <4>2. at \in Nat /\ at = cursor
        BY <2>6, <4>1 DEF Pull, CursorInv
      <4>3. page'.next = IF at + PageSize < Len(log) THEN at + PageSize ELSE Len(log)
        BY <2>6, <4>1 DEF Pull
      <4>4. page'.next \in Nat /\ cursor <= page'.next /\ page'.next <= Len(log)
        BY <1>2, <4>2, <4>3, DesktopSyncConstants DEF CursorInv
      <4> QED
        BY <2>1, <3>1, <4>1, <4>2, <4>4 DEF CursorInv
    <3> QED
      BY <3>2, <3>3
  <2>7. CASE ApplyPage
    BY <2>1, <2>7 DEF ApplyPage, CursorInv, server, NoCursor
  <2>8. CASE Ack
    BY <2>1, <2>8 DEF Ack, Returns, CursorInv, database
  <2>9. CASE GiveUp
    BY <2>1, <2>9 DEF GiveUp, Returns, CursorInv, server, database
  <2> QED
    BY ZenonT(30), <1>4, <2>2, <2>3, <2>4, <2>5, <2>6, <2>7, <2>8, <2>9 DEF Refresh
<1>5. ASSUME NEW r, ServerEdit(r) PROVE CursorInv'
  BY <1>3, <1>5 DEF ServerEdit, CursorInv, database, refresh
<1>6. CASE Compact
  BY <1>2, <1>3, <1>6 DEF Compact, database, refresh
<1>7. ASSUME NEW n, HandlePush(n) PROVE CursorInv'
  BY <1>3, <1>7, ZenonT(30) DEF HandlePush, CursorInv, database, refresh
<1>8. ASSUME NEW a, NEW r, QueueCatalog(a, r) PROVE CursorInv'
  BY ZenonT(30), <1>3, <1>8 DEF QueueCatalog, CursorInv, server, refresh
<1>9. ASSUME NEW r, SaveLocal(r) PROVE CursorInv'
  BY <1>3, <1>9 DEF SaveLocal, CursorInv, server, refresh
<1>10. ASSUME NEW o, Discard(o) PROVE CursorInv'
  BY <1>3, <1>10 DEF Discard, CursorInv, server, refresh
<1>11. CASE UNCHANGED vars
  BY <1>3, <1>11 DEF vars, CursorInv, server, database, refresh
<1> QED
  BY <1>4, <1>5, <1>6, <1>7, <1>8, <1>9, <1>10, <1>11 DEF Next

LEMMA CursorAlways == Spec => []CursorInv
<1>1. Init => CursorInv
  <2>1. IsSeq(<<>>) /\ Len(<<>>) = 0 /\ DOMAIN <<>> = {}
    BY DEF IsSeq
  <2>2. GoodLog(<<>>)
    BY <2>1 DEF GoodLog
  <2> QED
    BY <2>1, <2>2 DEF Init, CursorInv, NoCursor
<1> QED
  BY <1>1, CursorStep, PTL DEF Spec

\* Ack follows ApplyPage: the server never believes the device holds more than
\* its database does.
THEOREM AckFollowsCommit == Spec => []AckedIsDurable
<1>1. CursorInv => AckedIsDurable
  BY ZenonT(30) DEF CursorInv, AckedIsDurable
<1> QED
  BY <1>1, CursorAlways, PTL

\* An unchanged record stays honest while the log grows.
LEMMA StaysHonest ==
  ASSUME CursorInv, HonestInv, [Next]_vars, UNCHANGED cursor, DOMAIN entities' = Records, saved \subseteq saved',
         \A r \in Catalog \ saved' : entities'[r] = entities[r]
  PROVE  HonestInv'
<1> SUFFICES ASSUME cursor # NoCursor, NEW r \in Catalog, r \notin saved'
             PROVE  Honest(entities'[r], log', r, cursor)
  BY DEF HonestInv
<1>1. Honest(entities[r], log, r, cursor)
  BY DEF HonestInv
<1>2. AtIn(log', r, cursor) = AtIn(log, r, cursor)
  <2>1. IsSeq(log) /\ cursor \in Nat /\ cursor <= Len(log)
    BY DEF CursorInv, GoodLog, NoCursor
  <2>2. log' = log \/ \E x : log' = Append(log, x)
    BY LogStep DEF CursorInv
  <2>3. ASSUME NEW x, log' = Append(log, x)
        PROVE  AtIn(log', r, cursor) = AtIn(log, r, cursor)
    <3>1. AtIn(Append(log, x), r, cursor) = AtIn(log, r, cursor)
      BY <2>1, AtKept
    <3> QED
      BY <2>3, <3>1
  <2> QED
    BY <2>2, <2>3
<1> QED
  BY <1>1, <1>2 DEF Honest

LEMMA HonestStep ==
  ASSUME CursorInv, HonestInv, [Next]_vars
  PROVE  HonestInv'
<1>1. CASE UNCHANGED <<entities, cursor, saved>>
  BY <1>1, StaysHonest DEF HonestInv
<1>2. CASE Bootstrap
  <2>1. log' = log /\ saved' = saved /\ cursor' = page.next
    BY <1>2 DEF Bootstrap, server
  <2>2. entities' = [r \in Records |-> IF AtIn(log, r, page.next).deleted THEN Absent ELSE AtIn(log, r, page.next)]
    BY <1>2, SameAt DEF Bootstrap
  <2>3. \A r \in Catalog : Honest(entities'[r], log, r, page.next)
    BY <2>2 DEF Honest, Records
  <2> QED
    BY <2>1, <2>2, <2>3 DEF HonestInv
<1>3. CASE ApplyPage
  <2>1. log' = log /\ saved' = saved /\ cursor' = page.next
    BY <1>3 DEF ApplyPage, server
  <2>2. /\ at \in Nat /\ at = cursor /\ page.next \in Nat /\ at <= page.next /\ page.next <= Len(log)
        /\ GoodLog(log)
    BY <1>3 DEF ApplyPage, CursorInv
  <2>3. entities' = [r \in Records |-> AppliedIn(log, entities[r], r, at, page.next)]
    BY <1>3, SameAt DEF ApplyPage
  <2>4. ASSUME NEW r \in Catalog \ saved
        PROVE  Honest(entities'[r], log, r, page.next)
    <3>1. Honest(entities[r], log, r, at)
      BY <2>2 DEF HonestInv, NoCursor
    <3>2. entities'[r] = AppliedIn(log, entities[r], r, at, page.next)
      BY ZenonT(30), <2>3 DEF Records
    <3> QED
      BY <2>2, <3>1, <3>2, PageIsHonest
  <2> QED
    BY <2>1, <2>3, <2>4 DEF HonestInv
<1>4. ASSUME NEW r \in Records, SaveLocal(r) PROVE HonestInv'
  <2>1. UNCHANGED cursor /\ saved' = saved \cup {r} /\ DOMAIN entities' = DOMAIN entities
    BY <1>4 DEF SaveLocal
  <2>2. \A q \in Catalog \ saved' : entities'[q] = entities[q]
    BY ZenonT(30), <1>4, <2>1 DEF SaveLocal, HonestInv, Records
  <2> QED
    BY <2>1, <2>2, StaysHonest DEF HonestInv
<1>5. CASE Refresh
  BY <1>1, <1>2, <1>3, <1>5 DEF Refresh, StartRefresh, Handshake, Snapshot, Push, SaveResults, Pull, Ack, GiveUp,
                                database
<1>6. ASSUME NEW r, ServerEdit(r) PROVE HonestInv'
  BY <1>1, <1>6 DEF ServerEdit, database
<1>7. CASE Compact
  BY <1>1, <1>7 DEF Compact, database
<1>8. ASSUME NEW n, HandlePush(n) PROVE HonestInv'
  BY <1>1, <1>8, Zenon DEF HandlePush, database
<1>9. ASSUME NEW a, NEW r, QueueCatalog(a, r) PROVE HonestInv'
  BY <1>1, <1>9 DEF QueueCatalog
<1>10. ASSUME NEW o, Discard(o) PROVE HonestInv'
  BY <1>1, <1>10 DEF Discard
<1>11. CASE UNCHANGED vars
  BY <1>1, <1>11 DEF vars, database
<1> QED
  BY <1>4, <1>5, <1>6, <1>7, <1>8, <1>9, <1>10, <1>11 DEF Next

\* ApplyPage and Bootstrap commit the records with the cursor: after any
\* interruption they are the server's records at that cursor.
THEOREM CursorTellsTheTruth == Spec => []CursorHonest
<1>1. Init => HonestInv
  BY DEF Init, HonestInv
<1>2. CursorInv /\ HonestInv /\ [Next]_vars => HonestInv'
  BY HonestStep
<1>3. HonestInv => CursorHonest
  BY SameAt DEF HonestInv, CursorHonest, Honest
<1> QED
  BY <1>1, <1>2, <1>3, CursorAlways, PTL DEF Spec
=============================================================================
