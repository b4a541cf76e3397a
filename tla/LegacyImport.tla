---------------------------- MODULE LegacyImport ----------------------------
(***************************************************************************)
(* The one-time import of a legacy SQLite database (cmd/jobcron-import):   *)
(* snapshot the source, print a plan, and with --apply copy every table to *)
(* an empty PostgreSQL owner in one SERIALIZABLE transaction, record the   *)
(* fingerprint, and read the committed rows back.  Two operators may run   *)
(* it at once; the process, its connection or a statement may fail         *)
(* anywhere; the legacy application may still write, and the operator may  *)
(* delete the owner.  As deploy/local/README.md asks, the server is down   *)
(* while an importer runs, and is used between two imports.                *)
(*                                                                         *)
(* A row is its table, its key and where its contents come from: the       *)
(* legacy database of one fingerprint, the key file, or the server.        *)
(***************************************************************************)
EXTENDS Integers, FiniteSets, FiniteSetsExt

CONSTANTS
  Importers,     \* importer processes
  LastSource,    \* bound: contents the legacy database takes, one after the other
  SourceKeys,    \* SourceKeys[s][c]: the keys of table c in source s
  DuplicateOf,   \* DuplicateOf[s]: posting ids to the id they duplicate
  MaxId,         \* bound: posting ids
  MaxRuns,       \* bound: importer runs
  MaxUses        \* bound: changes made by the server and the operator

Sources   == 1 .. LastSource
OfPosting == {"scores", "bookmarks", "not_interested", "ai_extractions", "ai_scores"}
Tables    == OfPosting \cup {"postings", "profile", "ai_usage", "ai_providers"}
Shared    == {"postings", "ai_extractions"}       \* tables without an owner column

ASSUME ImportAssumption ==
  /\ LastSource \in Nat \ {0} /\ MaxId \in Nat \ {0} /\ MaxRuns \in Nat /\ MaxUses \in Nat
  /\ \A s \in Sources :
       /\ \A c \in Tables \ {"ai_providers"} : SourceKeys[s][c] \subseteq 1 .. MaxId
       /\ \A c \in OfPosting : SourceKeys[s][c] \subseteq SourceKeys[s]["postings"]
       /\ \A k \in DOMAIN DuplicateOf[s] : DuplicateOf[s][k] \in SourceKeys[s]["postings"]

VARIABLES
  legacy,   \* [content, writing]: the SQLite file, and a writer in it
  target,   \* the committed target: [rows, ledger, seq, owner]
  server,   \* the server runs
  pc,       \* what each importer does next
  src,      \* the fingerprint of its snapshot
  keyed,    \* --ai-keys was given
  who,      \* ownerID: the account it has looked up
  base,     \* the target its transaction sees
  tx,       \* the target as its transaction has changed it
  lock,     \* the holders of pg_advisory_xact_lock: none or one
  result,   \* what the last run of each importer reported
  count     \* [runs, uses], for the bounds

importVars == <<legacy, target, server, pc, src, keyed, who, base, tx, lock, result, count>>

Server  == 0      \* contents the server wrote
KeyFile == -1     \* a key from the key file, sealed for the owner

ImportRow(c, k, f, d) == [table |-> c, key |-> k, from |-> f, dup |-> d]
NoTarget == [rows |-> {}, ledger |-> {}, seq |-> 1, owner |-> 0]
RowsIn(t, c) == {r \in t.rows : r.table = c}
RowIds(t) == {r.key : r \in RowsIn(t, "postings")}
Link(s, k) == IF k \in DOMAIN DuplicateOf[s] THEN DuplicateOf[s][k] ELSE 0

\* The keys of a table in the snapshot and the key file of an importer.
KeysOf(i, c) ==
  CASE c # "ai_providers" -> SourceKeys[src[i]][c]
    [] c = "ai_providers" /\ keyed[i] -> {1}
    [] OTHER -> {}
SourceCounts(i) == [c \in Tables |-> Cardinality(KeysOf(i, c))]
TargetCounts(t) == [c \in Tables |-> Cardinality(RowsIn(t, c))]
Collisions(i, t) ==
  [c \in Tables |-> Cardinality({k \in KeysOf(i, c) : \E r \in RowsIn(t, c) : r.key = k})]

None     == [c \in Tables |-> 0]
\* The target as the statements see it that ask for the rows of ownerID.
Visible(i, t) ==
  [t EXCEPT !.rows = {r \in @ : r.table \in Shared \/ t.owner = who[i]},
            !.ledger = IF t.owner = who[i] THEN @ ELSE {}]
Empty(t) == TargetCounts(t) = None
Clean(i) == Empty(tx[i]) /\ Collisions(i, tx[i]) = None

ImportInit ==
  /\ legacy = [content |-> 1, writing |-> FALSE]
  /\ target = [NoTarget EXCEPT !.owner = 1] /\ server = FALSE
  /\ pc = [i \in Importers |-> "idle"] /\ src = [i \in Importers |-> 1]
  /\ keyed = [i \in Importers |-> FALSE] /\ who = [i \in Importers |-> 0]
  /\ base = [i \in Importers |-> NoTarget] /\ tx = [i \in Importers |-> NoTarget]
  /\ lock = {} /\ result = [i \in Importers |-> "none"] /\ count = [runs |-> 0, uses |-> 0]

-----------------------------------------------------------------------------
(* How a run ends, and how it goes on.                                     *)

\* The process ends with a report: an open transaction rolls back.
End(i, r) ==
  /\ pc' = [pc EXCEPT ![i] = "idle"] /\ result' = [result EXCEPT ![i] = r]
  /\ lock' = lock \ {i} /\ who' = [who EXCEPT ![i] = 0]
  /\ tx' = [tx EXCEPT ![i] = NoTarget] /\ base' = [base EXCEPT ![i] = NoTarget]

GoTo(i, l) == pc' = [pc EXCEPT ![i] = l] /\ UNCHANGED <<who, base, lock, result>>

\* defer tx.Rollback: a failing statement, a lost connection or a killed
\* process; after the commit the report is postCommitVerificationError.
AfterCommit == {"verifyCounts", "verifyRows"}
Fail(i) ==
  /\ pc[i] # "idle"
  /\ End(i, IF pc[i] \in AfterCommit THEN "unverified" ELSE "failed")
  /\ UNCHANGED <<legacy, target, server, src, keyed, count>>

-----------------------------------------------------------------------------
(* Until the transaction.                                                  *)

\* loadLegacyKeys: no file, or one with the single supported provider.
LegacyKeys == BOOLEAN
\* lookupSoleOwner: exactly one account, of the expected address.
OwnerFound == target.owner # 0

\* sqlitesnapshot.Create takes a no-wait writer lock: a writer means refusal.
Snapshot(i, k) ==
  /\ pc[i] = "idle" /\ ~server /\ count.runs < MaxRuns
  /\ count' = [count EXCEPT !.runs = @ + 1]
  /\ IF legacy.writing
       THEN End(i, "refused") /\ UNCHANGED <<src, keyed>>
       ELSE /\ src' = [src EXCEPT ![i] = legacy.content]
            /\ keyed' = [keyed EXCEPT ![i] = k]
            /\ pc' = [pc EXCEPT ![i] = "plan"] /\ result' = [result EXCEPT ![i] = "none"]
            /\ UNCHANGED <<who, base, tx, lock>>
  /\ UNCHANGED <<legacy, target, server>>

\* lookupSoleOwner, the counts, printPlan; without --apply the run is over.
Plan(i) ==
  /\ pc[i] = "plan"
  /\ \/ ~OwnerFound /\ End(i, "refused")
     \/ OwnerFound /\ End(i, "planned")
     \/ /\ OwnerFound /\ who' = [who EXCEPT ![i] = target.owner]
        /\ pc' = [pc EXCEPT ![i] = "begin"] /\ UNCHANGED <<base, tx, lock, result>>
  /\ UNCHANGED <<legacy, target, server, src, keyed, count>>

\* BeginTx, and the first statement, which fixes what the transaction sees
\* before it waits for the advisory lock.
BeginTx(i) ==
  /\ pc[i] = "begin"
  /\ pc' = [pc EXCEPT ![i] = "lock"]
  /\ base' = [base EXCEPT ![i] = target] /\ tx' = [tx EXCEPT ![i] = target]
  /\ UNCHANGED <<legacy, target, server, src, keyed, who, lock, result, count>>

\* lockImportDecision: one importer at a time; a row of ownerID that is not
\* there, or went since, is an error.
LockImportDecision(i) ==
  /\ pc[i] = "lock" /\ lock = {}
  /\ IF base[i].owner = who[i] /\ target.owner = who[i]
       THEN /\ lock' = {i} /\ pc' = [pc EXCEPT ![i] = "inspect"]
            /\ UNCHANGED <<who, tx, base, result>>
       ELSE End(i, "failed")
  /\ UNCHANGED <<legacy, target, server, src, keyed, count>>

\* inspectImportLedger: another fingerprint is refused; the same one rolls back
\* and only verifies.
InspectLedger(i) ==
  /\ pc[i] = "inspect"
  /\ CASE base[i].ledger = {} -> GoTo(i, "clean") /\ UNCHANGED tx
       [] base[i].ledger = {src[i]} ->
            /\ pc' = [pc EXCEPT ![i] = "verifyCounts"] /\ lock' = {}
            /\ tx' = [tx EXCEPT ![i] = NoTarget] /\ base' = [base EXCEPT ![i] = NoTarget]
            /\ result' = [result EXCEPT ![i] = "repeated"] /\ UNCHANGED who
       [] OTHER -> End(i, "refused")
  /\ UNCHANGED <<legacy, target, server, src, keyed, count>>

\* A bug for comparison with CheckClean: only the tables of the owner are looked at.
CheckClean_OwnerOnly(i) ==
  /\ pc[i] = "clean"
  /\ IF \A c \in Tables \ Shared : RowsIn(tx[i], c) = {}
       THEN GoTo(i, "postings") /\ UNCHANGED tx ELSE End(i, "refused")
  /\ UNCHANGED <<legacy, target, server, src, keyed, count>>
\* The counts and collisions once more, now under the lock.
CheckClean(i) ==
  /\ pc[i] = "clean"
  /\ IF Clean(i) THEN GoTo(i, "postings") /\ UNCHANGED tx ELSE End(i, "refused")
  /\ UNCHANGED <<legacy, target, server, src, keyed, count>>

-----------------------------------------------------------------------------
(* The copies, in the order of runImport.                                  *)

Same(r, q) == r.table = q.table /\ r.key = q.key

\* INSERT ... ON CONFLICT DO UPDATE of rows.  A row that was committed after
\* the transaction's snapshot is a serialization failure, a reference to a
\* posting that is not there a foreign-key failure.
Upsert(i, rows, next) ==
  IF \E r \in rows : \E q \in target.rows \ base[i].rows : Same(r, q)
    THEN End(i, "failed")
  ELSE IF \E r \in rows : r.table \in OfPosting /\ r.key \notin RowIds(tx[i])
    THEN End(i, "dangling")
  ELSE /\ GoTo(i, next)
       /\ tx' = [tx EXCEPT ![i].rows = {q \in @ : ~\E r \in rows : Same(q, r)} \cup rows]

CopyTable(i, c, next) ==
  /\ pc[i] = c
  /\ Upsert(i, {ImportRow(c, k, src[i], 0) : k \in SourceKeys[src[i]][c]}, next)
  /\ UNCHANGED <<legacy, target, server, src, keyed, count>>

\* All postings first, with duplicate_of NULL, then the links: a link may point
\* to a later id.
CopyPostings(i) ==
  /\ pc[i] = "postings"
  /\ Upsert(i, {ImportRow("postings", k, src[i], Link(src[i], k))
                  : k \in SourceKeys[src[i]]["postings"]}, "profile")
  /\ UNCHANGED <<legacy, target, server, src, keyed, count>>

CopyProfile(i)       == CopyTable(i, "profile", "scores")
CopyScores(i)        == CopyTable(i, "scores", "bookmarks")
CopyBookmarks(i)     == CopyTable(i, "bookmarks", "not_interested")
CopyNotInterested(i) == CopyTable(i, "not_interested", "ai_extractions")
CopyAIExtractions(i) == CopyTable(i, "ai_extractions", "ai_scores")
CopyAIScores(i)      == CopyTable(i, "ai_scores", "ai_usage")
CopyAIUsage(i)       == CopyTable(i, "ai_usage", "ai_providers")

\* The keys are sealed for the owner; without a key file nothing is written.
CopyEncryptedCredentials(i) ==
  /\ pc[i] = "ai_providers"
  /\ Upsert(i, IF keyed[i] THEN {ImportRow("ai_providers", 1, KeyFile, 0)} ELSE {}, "sequence")
  /\ UNCHANGED <<legacy, target, server, src, keyed, count>>

\* resetPostgresSequences: ALTER SEQUENCE, which rolls back with the rest.
ResetSequence(i) ==
  /\ pc[i] = "sequence" /\ GoTo(i, "verifyCopy")
  /\ tx' = [tx EXCEPT ![i].seq = Max(RowIds(tx[i]) \cup {0}) + 1]
  /\ UNCHANGED <<legacy, target, server, src, keyed, count>>

\* The first row of a table in the source is found, unchanged, in the target.
Representative(i, t, c) ==
  LET keys == SourceKeys[src[i]][c]
  IN  keys # {} => \E r \in RowsIn(t, c) : r.key = Min(keys) /\ r.from = src[i]

RepresentativeData(i, t) ==
  \A c \in {"profile", "postings", "scores"} : Representative(i, t, c)
VerifyCopy(i) ==
  /\ pc[i] = "verifyCopy"
  /\ IF /\ TargetCounts(tx[i]) = SourceCounts(i)
        /\ RepresentativeData(i, tx[i])
       THEN GoTo(i, "ledger") /\ UNCHANGED tx ELSE End(i, "failed")
  /\ UNCHANGED <<legacy, target, server, src, keyed, count>>

\* The primary key refuses a fingerprint somebody recorded since.
InsertLedger(i) ==
  /\ pc[i] = "ledger"
  /\ IF src[i] \in target.ledger THEN End(i, "failed")
     ELSE GoTo(i, "commit") /\ tx' = [tx EXCEPT ![i].ledger = @ \cup {src[i]}]
  /\ UNCHANGED <<legacy, target, server, src, keyed, count>>

\* A bug for comparison with Commit: the transaction runs at READ COMMITTED: what others
\* committed in the meantime stays, and nothing is refused.
Commit_ReadCommitted(i) ==
  /\ pc[i] = "commit"
  /\ target' = [tx[i] EXCEPT !.rows = @ \cup target.rows, !.ledger = @ \cup target.ledger]
  /\ pc' = [pc EXCEPT ![i] = "verifyCounts"] /\ lock' = lock \ {i}
  /\ base' = [base EXCEPT ![i] = NoTarget] /\ tx' = [tx EXCEPT ![i] = NoTarget]
  /\ UNCHANGED <<legacy, server, src, keyed, who, result, count>>
\* SERIALIZABLE: both read a ledger without the other's entry, so the second
\* of two importers is refused.  The answer to COMMIT may be lost.
Commit(i) ==
  /\ pc[i] = "commit"
  /\ \/ /\ target.ledger # base[i].ledger
        /\ End(i, "failed") /\ UNCHANGED target
     \/ /\ target.ledger = base[i].ledger
        /\ target' = tx[i]
        /\ \/ End(i, "failed")
           \/ /\ pc' = [pc EXCEPT ![i] = "verifyCounts"] /\ lock' = lock \ {i}
              /\ base' = [base EXCEPT ![i] = NoTarget] /\ tx' = [tx EXCEPT ![i] = NoTarget]
              /\ UNCHANGED <<who, result>>
  /\ UNCHANGED <<legacy, server, src, keyed, count>>

-----------------------------------------------------------------------------
(* verifyPostCommitImport, on a new connection and outside any transaction. *)

VerifyCounts(i) ==
  /\ pc[i] = "verifyCounts"
  /\ IF TargetCounts(Visible(i, target)) = SourceCounts(i) THEN GoTo(i, "verifyRows") /\ UNCHANGED tx
     ELSE End(i, "unverified")
  /\ UNCHANGED <<legacy, target, server, src, keyed, count>>

RepresentativeChoices(i, t) ==
  \A c \in {"bookmarks", "not_interested"} : Representative(i, t, c)
RepresentativeReadings(i, t) ==
  \A c \in {"ai_extractions", "ai_scores"} : Representative(i, t, c)
AllUsage(i, t) ==
  \A k \in SourceKeys[src[i]]["ai_usage"] : ImportRow("ai_usage", k, src[i], 0) \in t.rows
AllCredentials(i, t) == keyed[i] => ImportRow("ai_providers", 1, KeyFile, 0) \in t.rows
LedgerEntry(i, t) == src[i] \in t.ledger

\* Representatives of seven tables, every day of usage, every key, and last the
\* ledger.
VerifyRows(i) ==
  /\ pc[i] = "verifyRows"
  /\ LET seen == Visible(i, target)
     IN  IF /\ RepresentativeData(i, seen) /\ RepresentativeChoices(i, seen)
            /\ RepresentativeReadings(i, seen) /\ AllUsage(i, seen) /\ AllCredentials(i, seen)
            /\ LedgerEntry(i, seen)
           THEN End(i, IF result[i] = "repeated" THEN "already" ELSE "complete")
           ELSE End(i, "unverified")
  /\ UNCHANGED <<legacy, target, server, src, keyed, count>>

-----------------------------------------------------------------------------
(* The world around the importers.                                         *)

\* The legacy application opens a write, and ends it with new contents.
LegacyWrite ==
  /\ legacy' = IF legacy.writing THEN [content |-> legacy.content + 1, writing |-> FALSE]
               ELSE [legacy EXCEPT !.writing = TRUE]
  /\ legacy'.content \in Sources /\ legacy.content + 1 \in Sources
  /\ UNCHANGED <<target, server, pc, src, keyed, who, base, tx, lock, result, count>>

Use(t) == /\ count.uses < MaxUses /\ count' = [count EXCEPT !.uses = @ + 1] /\ target' = t
          /\ UNCHANGED <<legacy, server, pc, src, keyed, who, base, tx, lock, result>>

StartServer == /\ \A i \in Importers : pc[i] = "idle"
               /\ server' = ~server
               /\ UNCHANGED <<legacy, target, pc, src, keyed, who, base, tx, lock, result, count>>

\* A scrape takes the next number of the sequence.
ServerInserts ==
  /\ server /\ target.seq <= MaxId
  /\ Use([target EXCEPT !.seq = @ + 1,
            !.rows = @ \cup {ImportRow("postings", target.seq, Server, 0)}])

\* The stale sweep deletes a posting: its rows cascade, links to it are nulled.
ServerDeletes ==
  /\ server
  /\ \E k \in RowIds(target) :
       Use([target EXCEPT !.rows =
              {IF r.dup = k THEN [r EXCEPT !.dup = 0] ELSE r
                 : r \in {q \in @ : ~(q.key = k /\ q.table \in OfPosting \cup {"postings"})}}])

\* The owner saves a profile.
ServerSaves ==
  /\ server /\ target.owner # 0
  /\ Use([target EXCEPT !.rows = (@ \ RowsIn(target, "profile"))
                                   \cup {ImportRow("profile", 1, Server, 0)}])

\* jobcron-user: the owner goes, with rows and ledger; an importer that locked the
\* row makes the command wait.
DeleteOwner ==
  /\ lock = {} /\ target.owner > 0
  /\ Use([target EXCEPT !.owner = 0, !.ledger = {}, !.rows = {r \in @ : r.table \in Shared}])

\* The next owner has a number of its own.
CreateOwner == lock = {} /\ target.owner = 0 /\ Use([target EXCEPT !.owner = count.uses + 1])

-----------------------------------------------------------------------------
Copy(i) ==
  \/ CopyPostings(i) \/ CopyProfile(i) \/ CopyScores(i) \/ CopyBookmarks(i)
  \/ CopyNotInterested(i) \/ CopyAIExtractions(i) \/ CopyAIScores(i) \/ CopyAIUsage(i)
  \/ CopyEncryptedCredentials(i)

Importer(i) ==
  \/ \E k \in LegacyKeys : Snapshot(i, k)
  \/ Plan(i) \/ BeginTx(i) \/ LockImportDecision(i) \/ InspectLedger(i) \/ CheckClean(i)
  \/ Copy(i) \/ ResetSequence(i) \/ VerifyCopy(i) \/ InsertLedger(i) \/ Commit(i)
  \/ VerifyCounts(i) \/ VerifyRows(i) \/ Fail(i)

ImportNext ==
  \/ \E i \in Importers : Importer(i)
  \/ LegacyWrite \/ StartServer \/ ServerInserts \/ ServerDeletes \/ ServerSaves
  \/ DeleteOwner \/ CreateOwner

ImportSpec == ImportInit /\ [][ImportNext]_importVars

-----------------------------------------------------------------------------
(* Properties.                                                             *)

ImportTypeOK ==
  /\ legacy \in [content : Sources, writing : BOOLEAN] /\ server \in BOOLEAN
  /\ \A r \in target.rows : r.table \in Tables /\ r.key \in 1 .. MaxId /\ r.dup \in 0 .. MaxId
  /\ target.ledger \subseteq Sources /\ target.seq \in 1 .. MaxId + 1
  /\ src \in [Importers -> Sources] /\ keyed \in [Importers -> BOOLEAN]
  /\ lock \subseteq Importers

\* The owner's data never comes from two legacy databases, and what is the
\* owner's own comes from the one in the ledger.
OneSource ==
  /\ Cardinality(target.ledger) <= 1
  /\ \A r, q \in target.rows : {r.from, q.from} \subseteq Sources => r.from = q.from
  /\ \A r \in target.rows : r.table \notin Shared /\ r.from \in Sources => r.from \in target.ledger

\* The sequence is past every posting, so the server's next insert finds its
\* number free (main.go resetPostgresSequences).
SequenceAhead == \A k \in RowIds(target) : k < target.seq

\* References are whole: no copy met a missing posting, however links run.
ReferencesWhole ==
  /\ \A i \in Importers : result[i] # "dangling"
  /\ \A r \in target.rows : /\ r.table \in OfPosting => r.key \in RowIds(target)
                            /\ r.dup # 0 => r.dup \in RowIds(target)

\* The target is sound whatever two importers, failures, the server between
\* two imports and an owner deleted and created again made of it.
TargetSound == ImportTypeOK /\ OneSource /\ SequenceAhead /\ ReferencesWhole

ImportedRows(s, withKey) ==
  (UNION {{ImportRow(c, k, s, IF c = "postings" THEN Link(s, k) ELSE 0) : k \in SourceKeys[s][c]}
            : c \in Tables \ {"ai_providers"}})
  \cup (IF withKey THEN {ImportRow("ai_providers", 1, KeyFile, 0)} ELSE {})

\* Legacy rows and the ledger entry arrive in one step, in a target that was
\* clean, and are then the whole source.
ArrivesWhole ==
  \A s \in Sources :
    /\ s \in target'.ledger \ target.ledger =>
         /\ Empty(target) /\ target.ledger = {}
         /\ \E withKey \in BOOLEAN : target'.rows = ImportedRows(s, withKey)
    /\ \A r \in target'.rows : r.from = s /\ ~(\E q \in target.rows : Same(q, r))
                                => s \in target'.ledger \ target.ledger

\* "complete": every row of the snapshot is there; "already imported": the ledger
\* holds its fingerprint and the counts agree.
ReportsTruly ==
  \A i \in Importers :
    /\ result'[i] = "complete" /\ result[i] # "complete" =>
         /\ target.ledger = {src[i]}
         /\ target.rows = ImportedRows(src[i], keyed[i])
    /\ result'[i] = "already" /\ result[i] # "already" =>
         /\ target.ledger = {src[i]}
         /\ TargetCounts(target) = SourceCounts(i)

\* An import is all or nothing (deploy/local/README.md: "The import is one
\* transaction"), and a run that reports success is right about the target it
\* leaves, whoever else ran and whatever failed in between.
ImportWhole == [][ArrivesWhole /\ ReportsTruly]_importVars
=============================================================================
