----------------------------- MODULE StoreFile ------------------------------
(***************************************************************************)
(* The desktop store's file: Store.withTx and Open in                      *)
(* offline-menuvex/internal/store/store.go.  One transaction runs at a     *)
(* time (Store.mu); the process may die between any two of its system      *)
(* calls.  A database is the number of the transaction that produced it.   *)
(***************************************************************************)
EXTENDS Integers

CONSTANTS
  MaxTx,    \* bound: number of transactions
  Faults    \* which of "crash", "disk" (a write fails), "rename" may happen

ASSUME StoreFileConstants ==
  /\ MaxTx \in Nat \ {0}
  /\ Faults \subseteq {"crash", "disk", "rename"}

VARIABLES
  state,      \* Store.state, or Down
  file,       \* what path holds
  tmp,        \* what path.tmp holds
  step,       \* place of the running transaction
  tx,         \* the database it wants to commit
  committed,  \* history: the last database withTx returned nil for
  inPlace     \* history: "yes" once a fallback overwrites the file in place, "no"
              \* again when a later rename replaces it

fileVars == <<state, file, tmp, step, tx, committed, inPlace>>

Down == -1

\* Contents of a file: nothing, the JSON of a database, or a prefix of it.
Empty == [form |-> "empty", db |-> 0]
Whole(d) == [form |-> "whole", db |-> d]
Part(d) == [form |-> "part", db |-> d]
Content == [form : {"empty", "whole", "part"}, db : 0..MaxTx]

Corrupt == -2

\* Open: an empty file is a new database, a prefix does not parse.
Open(f) == CASE f.form = "empty" -> 0
             [] f.form = "whole" -> f.db
             [] f.form = "part" -> Corrupt

FileInit ==
  /\ state = 0
  /\ file = Empty
  /\ tmp = Empty
  /\ step = "idle"
  /\ tx = 0
  /\ committed = 0
  /\ inPlace = "no"

\* cloneDB and the transaction's function; when that fails nothing happens.
Begin ==
  /\ step = "idle" /\ state # Down
  /\ tx < MaxTx
  /\ tx' = tx + 1
  /\ step' = "write_tmp"
  /\ tmp' = Empty
  /\ UNCHANGED <<state, file, committed, inPlace>>

\* The error returns: the temporary file goes, Store.state stays.
Fails == step' = "idle" /\ tmp' = Empty /\ UNCHANGED <<state, file, tx, committed, inPlace>>

\* Mutant: memory is replaced before the file is known to be written.
WriteTmp_publishes_early ==
  /\ step = "write_tmp"
  /\ \/ /\ tmp' = Part(tx) /\ step' = "sync_tmp" /\ state' = tx
        /\ UNCHANGED <<file, tx, committed, inPlace>>
     \/ "disk" \in Faults /\ Fails

\* Write, Sync and Close of the temporary file.
WriteTmp ==
  /\ step = "write_tmp"
  /\ \/ tmp' = Part(tx) /\ step' = "sync_tmp" /\ UNCHANGED <<state, file, tx, committed, inPlace>>
     \/ "disk" \in Faults /\ Fails

SyncTmp ==
  /\ step = "sync_tmp"
  /\ \/ tmp' = Whole(tx) /\ step' = "rename" /\ UNCHANGED <<state, file, tx, committed, inPlace>>
     \/ "disk" \in Faults /\ Fails

\* Mutant: the file is written in place, without the temporary one.
Rename_in_place ==
  /\ step = "rename"
  /\ file' = Empty
  /\ step' = "overwrite"
  /\ UNCHANGED <<state, tmp, tx, committed, inPlace>>

Rename ==
  /\ step = "rename"
  /\ \/ /\ file' = tmp /\ tmp' = Empty /\ step' = "publish" /\ inPlace' = "no"
        /\ UNCHANGED <<state, tx, committed>>
     \/ /\ "rename" \in Faults
        /\ file' = Empty /\ step' = "overwrite" /\ inPlace' = "yes"
        /\ UNCHANGED <<state, tmp, tx, committed>>
     \/ {"rename", "disk"} \subseteq Faults /\ Fails

\* os.WriteFile(s.path): truncated by Rename above, now written in pieces.
Overwrite ==
  /\ step = "overwrite"
  /\ file' = Part(tx)
  /\ step' = "overwrite_rest"
  /\ UNCHANGED <<state, tmp, tx, committed, inPlace>>

\* Mutant: an error of the fallback write goes unnoticed.
OverwriteRest_unchecked ==
  /\ step = "overwrite_rest"
  /\ tmp' = Empty
  /\ \/ file' = Whole(tx)
     \/ "disk" \in Faults /\ UNCHANGED file
  /\ step' = "publish"
  /\ UNCHANGED <<state, tx, committed, inPlace>>

OverwriteRest ==
  /\ step = "overwrite_rest"
  /\ tmp' = Empty
  /\ \/ file' = Whole(tx) /\ step' = "publish"
     \/ "disk" \in Faults /\ UNCHANGED file /\ step' = "idle"
  /\ UNCHANGED <<state, tx, committed, inPlace>>

\* s.state = tx; return nil.
Publish ==
  /\ step = "publish"
  /\ state' = tx
  /\ committed' = tx
  /\ step' = "idle"
  /\ UNCHANGED <<file, tmp, tx, inPlace>>

Crash ==
  /\ "crash" \in Faults
  /\ state # Down
  /\ state' = Down
  /\ step' = "idle"
  /\ UNCHANGED <<file, tmp, tx, committed, inPlace>>

\* Open; a file that does not parse keeps the program from starting.
Restart ==
  /\ state = Down
  /\ Open(file) # Corrupt
  /\ state' = Open(file)
  /\ committed' = Open(file)
  /\ UNCHANGED <<file, tmp, step, tx, inPlace>>

FileNext == Begin \/ WriteTmp \/ SyncTmp \/ Rename \/ Overwrite \/ OverwriteRest
        \/ Publish \/ Crash \/ Restart

FileSpec == FileInit /\ [][FileNext]_fileVars

-----------------------------------------------------------------------------
\* "crashes or validation errors never leave partial state on disk" (package
\* comment of store.go): at every moment the file is what a restart needs, the
\* last committed database or the one whose commit is under way.
NeverPartial == Open(file) \in {committed, tx}

\* The same with the code's rename fallback taken into account: only an overwrite
\* in place can leave a partial file, and the next renamed one repairs it.
PartialOnlyInPlace == inPlace = "no" => NeverPartial

\* A transaction that reports success is on disk, also when the fallback wrote
\* it: a caller told "saved" finds it after a crash of the process.
AckedIsOnDisk ==
  [][(step = "publish" /\ state' # Down) => Open(file') = committed']_fileVars

\* "on any error the whole transaction is rolled back" (ARCHITECTURE.md, local
\* ACID transactions): between transactions memory and disk hold the same database,
\* so a failed transaction has been rolled back in both.
DiskMatchesMemory == (step = "idle" /\ state # Down) => Open(file) = state

\* A failed transaction is rolled back in memory and on disk alike, unless its
\* rename fell back to overwriting the file.
RolledBackUnlessInPlace == inPlace = "no" => DiskMatchesMemory
=============================================================================
