----------------------------- MODULE GcsLedger -----------------------------
(***************************************************************************)
(* The laboratory ledger of gcs_ledger_server.py: an SQLite table of the   *)
(* public records (roots and authentication paths) and a hash-chained log  *)
(* of the changes made to it.  The record is committed first and logged    *)
(* second, in a single-threaded process that can be killed between the two *)
(* or lose power.  SQLite syncs every commit; the log file is not synced,  *)
(* so a loss of power can cut it anywhere.                                 *)
(*                                                                         *)
(* A device never changes what it enrolls under one version, so a record   *)
(* is its primary key.  Hashes are numbers: no two entries have the same   *)
(* (each covers its predecessor and a timestamp), and 0 is "0" * 64.       *)
(***************************************************************************)
EXTENDS Naturals, Sequences, FiniteSets

CONSTANTS Records,          \* the keys of the tables
          NoRecord,         \* no record is between commit and log
          MaxServerCrashes  \* bound: kills and losses of power

ASSUME LedgerAssumption == /\ NoRecord \notin Records
                           /\ IsFiniteSet(Records)
                           /\ MaxServerCrashes \in Nat

VARIABLES
    db,          \* the committed records
    log,         \* the lines of the audit file
    openTail,    \* the last line of the file has no newline
    tail,        \* previous_audit_hash
    committed,   \* record committed and not logged yet, or NoRecord
    appends,     \* history: entries made
    kills,       \* history: times the process was killed
    outages      \* history: times the power was lost

ledgerVars == <<db, log, openTail, tail, committed, appends, kills, outages>>

\* A line that cannot be parsed has lost its entry.
Lines == [readable : BOOLEAN, what : Records, prev : Nat, hash : Nat]

LedgerTypeOK ==
    /\ db \subseteq Records
    /\ log \in Seq(Lines)
    /\ openTail \in BOOLEAN
    /\ tail \in Nat
    /\ committed \in Records \cup {NoRecord}
    /\ appends \in Nat /\ kills \in Nat /\ outages \in Nat

LedgerInit == /\ db = {}
              /\ log = <<>>
              /\ openTail = FALSE
              /\ tail = 0
              /\ committed = NoRecord
              /\ appends = 0
              /\ kills = 0
              /\ outages = 0

Entry(r) == [readable |-> TRUE, what |-> r, prev |-> tail, hash |-> appends + 1]

Garbled(line) == [line EXCEPT !.readable = FALSE]

AllButLast(s) == SubSeq(s, 1, Len(s) - 1)

\* The file after r is appended: without a newline before it, the entry runs
\* into the torn line, and neither can be read.
LogWith(r) == IF openTail THEN Append(AllButLast(log), Garbled(Entry(r)))
                          ELSE Append(log, Entry(r))

\* Slip: the chain starts anew whenever the server does.
LoadedTailZero(lines) == 0

\* _load_last_audit_hash: the last line, or zero if it cannot be parsed.
LoadedTail(lines) ==
    IF lines # <<>> /\ lines[Len(lines)].readable THEN lines[Len(lines)].hash
                                                  ELSE 0

-----------------------------------------------------------------------------
(* upsert_root and upsert_path *)

\* An unchanged record is neither written nor logged.
UnchangedRecord(r) == /\ committed = NoRecord
                      /\ r \in db
                      /\ UNCHANGED ledgerVars

\* Slip: the change is never logged.
CommitUnlogged(r) == /\ committed = NoRecord
                     /\ r \notin db
                     /\ db' = db \cup {r}
                     /\ UNCHANGED <<log, openTail, tail, committed, appends,
                                    kills, outages>>

\* Slip: logged first, committed second.
CommitLate(r) == /\ committed = NoRecord
                 /\ r \notin db
                 /\ committed' = r
                 /\ UNCHANGED <<db, log, openTail, tail, appends, kills, outages>>

\* A new record: first the database ...
Commit(r) == /\ committed = NoRecord
             /\ r \notin db
             /\ db' = db \cup {r}
             /\ committed' = r
             /\ UNCHANGED <<log, openTail, tail, appends, kills, outages>>

\* ... then the log (_append_audit).
LogCommitted == /\ committed # NoRecord
                /\ log' = LogWith(committed)
                /\ openTail' = FALSE
                /\ tail' = appends + 1
                /\ appends' = appends + 1
                /\ committed' = NoRecord
                /\ UNCHANGED <<db, kills, outages>>

-----------------------------------------------------------------------------
(* The process ends and is started again *)

Crashes == kills + outages

Kill == /\ Crashes < MaxServerCrashes
        /\ kills' = kills + 1
        /\ committed' = NoRecord
        /\ tail' = LoadedTail(log)
        /\ UNCHANGED <<db, log, openTail, appends, outages>>

\* What may be in the file: a prefix, the last line of it possibly torn, or
\* whole and without its newline.
Surviving(lines) ==
         {SubSeq(lines, 1, n) : n \in 0 .. Len(lines)}
    \cup {[SubSeq(lines, 1, n) EXCEPT ![n] = Garbled(@)] : n \in 1 .. Len(lines)}

\* Slip: commits are not synced either (PRAGMA synchronous).
PowerLossUnsynced ==
    /\ Crashes < MaxServerCrashes
    /\ outages' = outages + 1
    /\ \E lost \in SUBSET db : Cardinality(lost) <= 1 /\ db' = db \ lost
    /\ tail' = LoadedTail(log)
    /\ committed' = NoRecord
    /\ UNCHANGED <<log, openTail, appends, kills>>

PowerLoss ==
    /\ Crashes < MaxServerCrashes
    /\ outages' = outages + 1
    /\ \E lines \in Surviving(IF committed = NoRecord THEN log
                                                      ELSE LogWith(committed)) :
         /\ log' = lines
         /\ openTail' \in {lines # <<>>, FALSE}
         /\ tail' = LoadedTail(lines)
    /\ appends' = appends + 1
    /\ committed' = NoRecord
    /\ UNCHANGED <<db, kills>>

LedgerNext == \/ \E r \in Records : Commit(r)
              \/ LogCommitted
              \/ Kill
              \/ PowerLoss

LedgerSpec == LedgerInit /\ [][LedgerNext]_ledgerVars

-----------------------------------------------------------------------------
(* Properties *)

Logged == {log[i].what : i \in {j \in 1 .. Len(log) : log[j].readable}}

\* The log never tells of a record the database does not hold: the commit
\* comes before the entry (upsert_root 192-193, upsert_path 232-233).
LoggedIsStored == Logged \subseteq db

\* Two readable lines that follow each other are linked by their hashes, and
\* a readable first line starts the chain: whatever crashes did, a broken link
\* is next to a line that cannot be read (_load_last_audit_hash, _append_audit).
ReadableLinesLinked ==
    /\ log # <<>> /\ log[1].readable => log[1].prev = 0
    /\ \A i \in 2 .. Len(log) :
         log[i].readable /\ log[i - 1].readable => log[i].prev = log[i - 1].hash

\* As long as the power stays on, each kill hides at most one change from the
\* log: the one committed and not yet logged, which no later enrolment repeats
\* (upsert_root and upsert_path return early on an unchanged record).
OmissionsBounded ==
    outages = 0 => Cardinality(db \ (Logged \cup {committed})) <= kills
=============================================================================
