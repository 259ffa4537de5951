-------------------------- MODULE GcsLedger_proofs --------------------------
(***************************************************************************)
(* What the laboratory ledger and its log promise, proved for any set of   *)
(* records and any number of kills and losses of power.                    *)
(***************************************************************************)
EXTENDS GcsLedger, FiniteSetTheorems, TLAPS

\* The record between commit and log is in the database.
CommittedStored == committed \in db \cup {NoRecord}

\* Within one life of the server the chain goes on from the last line, if that can
\* be read; an empty file starts the chain and has no torn line.
TailLinked ==
    /\ log = <<>> => tail = 0 /\ openTail = FALSE
    /\ log # <<>> /\ log[Len(log)].readable => tail = log[Len(log)].hash

\* Only a loss of power leaves a line without its newline.
OpenMeansOutage == openTail => outages > 0

\* A file whose readable lines tell only of records of S and are linked.
Sound(lines, S) ==
    /\ lines \in Seq(Lines)
    /\ \A i \in 1 .. Len(lines) : lines[i].readable => lines[i].what \in S
    /\ lines # <<>> /\ lines[1].readable => lines[1].prev = 0
    /\ \A i \in 2 .. Len(lines) :
         lines[i].readable /\ lines[i - 1].readable => lines[i].prev = lines[i - 1].hash

LedgerInv == /\ LedgerTypeOK
             /\ CommittedStored
             /\ Sound(log, db)
             /\ TailLinked
             /\ OpenMeansOutage

-----------------------------------------------------------------------------
(* Files of lines *)

\* A line that has been torn is a line, and tells of nothing.
LEMMA GarbledLine ==
    ASSUME NEW line \in Lines
    PROVE  Garbled(line) \in Lines /\ Garbled(line).readable = FALSE
BY DEF Garbled, Lines

\* A file with one line more, and its first lines.
LEMMA LinesAppended ==
    ASSUME NEW lines \in Seq(Lines), NEW line \in Lines
    PROVE  /\ Append(lines, line) \in Seq(Lines) /\ Append(lines, line) # <<>>
           /\ Len(Append(lines, line)) = Len(lines) + 1
           /\ Append(lines, line)[Len(lines) + 1] = line
           /\ \A i \in 1 .. Len(lines) : Append(lines, line)[i] = lines[i]
OBVIOUS

LEMMA FirstLines ==
    ASSUME NEW lines \in Seq(Lines), NEW n \in 0 .. Len(lines)
    PROVE  /\ SubSeq(lines, 1, n) \in Seq(Lines) /\ Len(SubSeq(lines, 1, n)) = n
           /\ \A i \in 1 .. n : SubSeq(lines, 1, n)[i] = lines[i]
OBVIOUS

\* The tail that is loaded from a file is a hash.
LEMMA LoadedTailType ==
    ASSUME NEW lines \in Seq(Lines)
    PROVE  LoadedTail(lines) \in Nat
<1>1. CASE lines = <<>>
  BY <1>1 DEF LoadedTail
<1>2. CASE lines # <<>>
  <2>1. lines[Len(lines)] \in Lines
    BY <1>2
  <2> QED
    BY <2>1 DEF LoadedTail, Lines
<1> QED
  BY <1>1, <1>2

\* The first n lines of a sound file are sound, the last of them torn or not.
LEMMA PrefixSound ==
    ASSUME NEW S, NEW lines, Sound(lines, S), NEW n \in 0 .. Len(lines)
    PROVE  /\ Sound(SubSeq(lines, 1, n), S)
           /\ n > 0 => Sound([SubSeq(lines, 1, n) EXCEPT ![n] = Garbled(@)], S)
<1> DEFINE p == SubSeq(lines, 1, n)
           t == [p EXCEPT ![n] = Garbled(@)]
<1>1. /\ lines \in Seq(Lines) /\ Len(lines) \in Nat /\ n \in Nat
      /\ \A i \in 1 .. Len(lines) : lines[i] \in Lines
  BY DEF Sound
<1>2. /\ p \in Seq(Lines) /\ Len(p) = n
      /\ \A i \in 1 .. n : p[i] = lines[i]
  BY <1>1
<1>3. Sound(p, S)
  <2>1. \A i \in 1 .. n : i \in 1 .. Len(lines)
    BY <1>1
  <2>2. p # <<>> => n >= 1 /\ lines # <<>>
    BY <1>1, <1>2
  <2>3. \A i \in 2 .. n : i \in 2 .. Len(lines) /\ i \in 1 .. n /\ i - 1 \in 1 .. n
    BY <1>1
  <2>4. p # <<>> /\ p[1].readable => p[1].prev = 0
    BY <1>1, <1>2, <2>2 DEF Sound
  <2> HIDE DEF p
  <2> QED
    BY <1>1, <1>2, <2>1, <2>3, <2>4 DEF Sound
<1>4. ASSUME n > 0 PROVE Sound(t, S)
  <2> HIDE DEF p
  <2>1. n \in 1 .. n /\ p[n] \in Lines
    BY <1>1, <1>2, <1>4
  <2>2. Garbled(p[n]) \in Lines /\ Garbled(p[n]).readable = FALSE
    BY <2>1, GarbledLine
  <2>3. /\ t \in Seq(Lines) /\ Len(t) = n /\ t[n].readable = FALSE
        /\ \A i \in 1 .. n : i # n => t[i] = p[i]
    BY <1>1, <1>2, <2>1, <2>2
  <2>4. \A i \in 1 .. n : t[i].readable => i # n /\ t[i] = p[i]
    BY <2>3
  <2>5. \A i \in 2 .. n : i \in 1 .. n /\ i - 1 \in 1 .. n /\ 1 \in 1 .. n
    BY <1>1
  <2>6. p # <<>> /\ 1 \in 1 .. n
    BY <1>1, <1>2, <1>4
  <2> HIDE DEF t
  <2> QED
    BY <1>2, <1>3, <2>3, <2>4, <2>5, <2>6 DEF Sound
<1> QED
  BY <1>3, <1>4

\* What is in the file when the next entry has been appended to it.
LEMMA LogWithSound ==
    ASSUME LedgerInv, NEW r \in db
    PROVE  /\ Sound(LogWith(r), db) /\ LogWith(r) # <<>>
           /\ LogWith(r)[Len(LogWith(r))].readable =>
                LogWith(r)[Len(LogWith(r))].hash = appends + 1
           /\ ~openTail => /\ Len(LogWith(r)) = Len(log) + 1
                           /\ \A i \in 1 .. Len(log) : LogWith(r)[i] = log[i]
                           /\ LogWith(r)[Len(log) + 1] = Entry(r)
<1> DEFINE e == Entry(r)
           n == Len(log)
<1>1. /\ db \subseteq Records /\ tail \in Nat /\ appends \in Nat
      /\ log \in Seq(Lines) /\ n \in Nat
      /\ \A i \in 1 .. n : log[i] \in Lines
  BY DEF LedgerInv, LedgerTypeOK
<1>2. /\ e \in Lines /\ e.readable /\ e.what = r /\ e.prev = tail /\ e.hash = appends + 1
  BY <1>1 DEF Entry, Lines
<1>3. Garbled(e) \in Lines /\ Garbled(e).readable = FALSE
  BY <1>2, GarbledLine
<1> HIDE DEF e
<1>4. CASE openTail
  <2> DEFINE p == SubSeq(log, 1, n - 1)
             w == Append(p, Garbled(e))
  <2>1. log # <<>> /\ n >= 1 /\ n - 1 \in 0 .. Len(log)
    BY <1>1, <1>4 DEF LedgerInv, TailLinked
  <2>2. Sound(p, db)
    BY <2>1, PrefixSound DEF LedgerInv
  <2>3. p \in Seq(Lines) /\ Len(p) = n - 1
    BY <1>1, <2>1, FirstLines
  <2>4. LogWith(r) = w
    BY <1>4 DEF LogWith, AllButLast, e
  <2> HIDE DEF p
  <2>5. /\ w \in Seq(Lines) /\ Len(w) = n /\ w # <<>>
        /\ w[n] = Garbled(e)
        /\ \A i \in 1 .. n - 1 : w[i] = p[i]
    BY <1>1, <1>3, <2>1, <2>3
  <2>6. \A i \in 1 .. n : w[i].readable => i \in 1 .. n - 1 /\ w[i] = p[i]
    BY <1>1, <1>3, <2>5
  <2>7. \A i \in 2 .. n : i \in 1 .. n /\ i - 1 \in 1 .. n
    BY <1>1
  <2>8. 1 \in 1 .. n /\ (1 \in 1 .. n - 1 => p # <<>>)
    BY <1>1, <2>1, <2>3
  <2>9. \A i \in 2 .. n : i \in 1 .. n - 1 => i \in 2 .. n - 1
    BY <1>1
  <2> HIDE DEF w
  <2>10. Sound(w, db)
    BY <2>2, <2>3, <2>5, <2>6, <2>7, <2>8, <2>9 DEF Sound
  <2> QED
    BY <1>3, <1>4, <2>4, <2>5, <2>10
<1>5. CASE ~openTail
  <2> DEFINE w == Append(log, e)
  <2>1. LogWith(r) = w
    BY <1>5 DEF LogWith, e
  <2>2. /\ w \in Seq(Lines) /\ Len(w) = n + 1 /\ w # <<>>
        /\ w[n + 1] = e
        /\ \A i \in 1 .. n : w[i] = log[i]
    BY <1>1, <1>2, LinesAppended
  <2>3. \A i \in 1 .. n + 1 : i \in 1 .. n \/ i = n + 1
    BY <1>1
  <2>4. \A i \in 1 .. Len(w) : w[i].readable => w[i].what \in db
    BY <1>2, <2>2, <2>3 DEF LedgerInv, Sound
  <2>5. w[1].readable => w[1].prev = 0
    <3>1. CASE n = 0
      BY <1>1, <1>2, <2>2, <3>1 DEF LedgerInv, TailLinked
    <3>2. CASE n > 0
      <4>1. 1 \in 1 .. n /\ log # <<>>
        BY <1>1, <3>2
      <4> QED
        BY <2>2, <4>1 DEF LedgerInv, Sound
    <3> QED
      BY <1>1, <3>1, <3>2
  <2>6. ASSUME NEW i \in 2 .. n + 1, w[i].readable, w[i - 1].readable
        PROVE  w[i].prev = w[i - 1].hash
    <3>1. CASE i = n + 1
      <4>1. n \in 1 .. n /\ i - 1 = n /\ log # <<>>
        BY <1>1, <3>1
      <4> QED
        BY <1>2, <2>2, <2>6, <3>1, <4>1 DEF LedgerInv, TailLinked
    <3>2. CASE i # n + 1
      <4>1. i \in 2 .. n /\ i \in 1 .. n /\ i - 1 \in 1 .. n
        BY <1>1, <3>2
      <4> QED
        BY <2>2, <2>6, <4>1 DEF LedgerInv, Sound
    <3> QED
      BY <3>1, <3>2
  <2>7. Sound(w, db)
    BY <2>2, <2>4, <2>5, <2>6 DEF Sound
  <2> HIDE DEF w
  <2> QED
    BY <1>2, <1>5, <2>1, <2>2, <2>7 DEF e
<1> QED
  BY <1>4, <1>5

-----------------------------------------------------------------------------
(* The log against the database *)

LEMMA LedgerInvInit == LedgerInit => LedgerInv
<1>1. SUFFICES ASSUME LedgerInit PROVE LedgerInv
  OBVIOUS
<1>2. LedgerTypeOK /\ Sound(log, db)
  <2>1. log = <<>> /\ log \in Seq(Lines) /\ Len(log) = 0
    BY <1>1 DEF LedgerInit
  <2>2. LedgerTypeOK
    BY <1>1, <2>1 DEF LedgerInit, LedgerTypeOK
  <2>3. Sound(log, db)
    BY <2>1 DEF Sound
  <2> QED
    BY <2>2, <2>3
<1>3. CommittedStored /\ TailLinked /\ OpenMeansOutage
  BY <1>1 DEF LedgerInit, CommittedStored, TailLinked, OpenMeansOutage
<1> QED
  BY <1>2, <1>3 DEF LedgerInv

LEMMA LedgerInvCommit ==
    ASSUME LedgerInv, NEW r \in Records, Commit(r)
    PROVE  LedgerInv'
<1>1. /\ db' = db \cup {r} /\ committed' = r
      /\ UNCHANGED <<log, openTail, tail, appends, kills, outages>>
  BY DEF Commit
<1>2. LedgerTypeOK'
  BY <1>1 DEF LedgerInv, LedgerTypeOK
<1>3. Sound(log, db)'
  BY <1>1 DEF LedgerInv, Sound
<1>4. CommittedStored' /\ TailLinked' /\ OpenMeansOutage'
  BY <1>1 DEF LedgerInv, CommittedStored, TailLinked, OpenMeansOutage
<1> QED
  BY <1>2, <1>3, <1>4 DEF LedgerInv

LEMMA LedgerInvLogCommitted ==
    ASSUME LedgerInv, LogCommitted
    PROVE  LedgerInv'
<1>1. /\ committed \in db /\ log' = LogWith(committed)
      /\ openTail' = FALSE /\ tail' = appends + 1 /\ appends' = appends + 1
      /\ committed' = NoRecord
      /\ UNCHANGED <<db, kills, outages>>
  BY DEF LogCommitted, LedgerInv, CommittedStored
<1>2. /\ Sound(log', db) /\ log' # <<>>
      /\ log'[Len(log')].readable => log'[Len(log')].hash = appends + 1
  BY <1>1, LogWithSound
<1>3. LedgerTypeOK'
  <2>1. log' \in Seq(Lines)
    BY <1>2 DEF Sound
  <2>2. db \subseteq Records /\ appends \in Nat /\ kills \in Nat /\ outages \in Nat
    BY DEF LedgerInv, LedgerTypeOK
  <2>3. tail' \in Nat /\ appends' \in Nat
    BY <1>1, <2>2
  <2>4. openTail' \in BOOLEAN
    BY <1>1, Zenon
  <2> QED
    BY <1>1, <2>1, <2>2, <2>3, <2>4 DEF LedgerTypeOK
<1>4. Sound(log, db)'
  BY <1>1, <1>2 DEF Sound
<1>5. CommittedStored' /\ TailLinked' /\ OpenMeansOutage'
  BY <1>1, <1>2 DEF CommittedStored, TailLinked, OpenMeansOutage
<1> QED
  BY <1>3, <1>4, <1>5 DEF LedgerInv

LEMMA LedgerInvKill ==
    ASSUME LedgerInv, Kill
    PROVE  LedgerInv'
<1>1. /\ kills' = kills + 1 /\ committed' = NoRecord /\ tail' = LoadedTail(log)
      /\ UNCHANGED <<db, log, openTail, appends, outages>>
  BY DEF Kill
<1>2. LedgerTypeOK'
  BY <1>1, LoadedTailType DEF LedgerInv, LedgerTypeOK
<1>3. Sound(log, db)'
  BY <1>1 DEF LedgerInv, Sound
<1>4. TailLinked'
  BY <1>1 DEF LedgerInv, TailLinked, LoadedTail
<1>5. CommittedStored' /\ OpenMeansOutage'
  BY <1>1 DEF LedgerInv, CommittedStored, OpenMeansOutage
<1> QED
  BY <1>2, <1>3, <1>4, <1>5 DEF LedgerInv

\* Whatever a loss of power leaves of a sound file is a sound file.
LEMMA SurvivingSound ==
    ASSUME NEW S, NEW lines, Sound(lines, S), NEW left \in Surviving(lines)
    PROVE  Sound(left, S)
<1>1. CASE left \in {SubSeq(lines, 1, n) : n \in 0 .. Len(lines)}
  BY <1>1, PrefixSound
<1>2. CASE left \in {[SubSeq(lines, 1, n) EXCEPT ![n] = Garbled(@)] : n \in 1 .. Len(lines)}
  <2>1. PICK n \in 1 .. Len(lines) : left = [SubSeq(lines, 1, n) EXCEPT ![n] = Garbled(@)]
    BY <1>2
  <2>2. Len(lines) \in Nat
    BY DEF Sound
  <2>3. n \in 0 .. Len(lines) /\ n > 0
    BY <2>2
  <2> QED
    BY <2>1, <2>3, PrefixSound
<1> QED
  BY <1>1, <1>2 DEF Surviving

LEMMA LedgerInvPowerLoss ==
    ASSUME LedgerInv, PowerLoss
    PROVE  LedgerInv'
<1> DEFINE written == IF committed = NoRecord THEN log ELSE LogWith(committed)
<1>1. Sound(written, db)
  BY LogWithSound DEF LedgerInv, CommittedStored
<1>2. PICK lines \in Surviving(written) :
        /\ log' = lines
        /\ openTail' \in {lines # <<>>, FALSE}
        /\ tail' = LoadedTail(lines)
  BY DEF PowerLoss
<1> HIDE DEF written
<1>3. Sound(lines, db)
  BY <1>1, SurvivingSound
<1>4. /\ outages' = outages + 1 /\ appends' = appends + 1 /\ committed' = NoRecord
      /\ UNCHANGED <<db, kills>>
  BY DEF PowerLoss
<1>5. LedgerTypeOK'
  <2>1. lines \in Seq(Lines) /\ tail' \in Nat /\ openTail' \in BOOLEAN
    BY <1>2, <1>3, LoadedTailType DEF Sound
  <2> QED
    BY <1>2, <1>4, <2>1 DEF LedgerInv, LedgerTypeOK
<1>6. Sound(log, db)'
  BY <1>2, <1>3, <1>4 DEF Sound
<1>7. TailLinked'
  BY <1>2 DEF TailLinked, LoadedTail
<1>8. CommittedStored' /\ OpenMeansOutage'
  BY <1>4 DEF LedgerInv, LedgerTypeOK, CommittedStored, OpenMeansOutage
<1> QED
  BY <1>5, <1>6, <1>7, <1>8 DEF LedgerInv

LEMMA LedgerInvStutter ==
    ASSUME LedgerInv, UNCHANGED ledgerVars
    PROVE  LedgerInv'
<1>1. LedgerTypeOK' /\ Sound(log, db)'
  BY DEF LedgerInv, LedgerTypeOK, Sound, ledgerVars
<1>2. CommittedStored' /\ TailLinked' /\ OpenMeansOutage'
  BY DEF LedgerInv, CommittedStored, TailLinked, OpenMeansOutage, ledgerVars
<1> QED
  BY <1>1, <1>2 DEF LedgerInv

LEMMA LedgerInvStep == LedgerInv /\ [LedgerNext]_ledgerVars => LedgerInv'
BY LedgerInvCommit, LedgerInvLogCommitted, LedgerInvKill, LedgerInvPowerLoss,
   LedgerInvStutter DEF LedgerNext

LEMMA LedgerInvariance == LedgerSpec => []LedgerInv
BY LedgerInvInit, LedgerInvStep, PTL DEF LedgerSpec

\* The ledger's invariant has the properties of its log.
LEMMA LedgerInvImplies == LedgerInv => LoggedIsStored /\ ReadableLinesLinked
BY DEF LedgerInv, Sound, LoggedIsStored, ReadableLinesLinked, Logged

\* Whatever kills and losses of power do to the file, what it tells of is stored (the
\* commit comes before the entry, upsert_root and upsert_path).
THEOREM LoggedIsStoredHolds == LedgerSpec => []LoggedIsStored
BY LedgerInvImplies, LedgerInvariance, PTL

\* Whatever kills and losses of power do to the file, readable neighbours are linked
\* and a readable first line starts the chain (_load_last_audit_hash, _append_audit).
THEOREM ReadableLinesLinkedHolds == LedgerSpec => []ReadableLinesLinked
BY LedgerInvImplies, LedgerInvariance, PTL

-----------------------------------------------------------------------------
(* Changes that the log omits *)

\* Records stored, not logged and not about to be.
Omitted == db \ (Logged \cup {committed})

OmitInv == LedgerInv /\ OmissionsBounded

LEMMA OmittedFinite ==
    ASSUME LedgerInv, NEW S, S \subseteq db
    PROVE  IsFiniteSet(S) /\ Cardinality(S) \in Nat
<1>1. S \subseteq Records
  BY DEF LedgerInv, LedgerTypeOK
<1> QED
  BY <1>1, LedgerAssumption, FS_Subset, FS_CardinalityType

\* An entry with the power on is one more line.
LEMMA LoggedGrows ==
    ASSUME LedgerInv, outages = 0, LogCommitted
    PROVE  Logged' = Logged \cup {committed}
<1> DEFINE n == Len(log)
<1>1. n \in Nat /\ openTail = FALSE
  BY DEF LedgerInv, LedgerTypeOK, OpenMeansOutage
<1>2. committed \in db /\ log' = LogWith(committed)
  BY DEF LogCommitted, LedgerInv, CommittedStored
<1>3. /\ Len(log') = n + 1
      /\ \A i \in 1 .. n : log'[i] = log[i]
      /\ log'[n + 1] = Entry(committed)
  BY <1>1, <1>2, LogWithSound
<1>4. log'[n + 1].readable /\ log'[n + 1].what = committed
  BY <1>3 DEF Entry
<1>5. \A i \in 1 .. n + 1 : i \in 1 .. n \/ i = n + 1
  BY <1>1
<1>6. (\A i \in 1 .. n : i \in 1 .. n + 1) /\ n + 1 \in 1 .. n + 1
  BY <1>1
<1> HIDE DEF n
<1>7. Logged = {log[i].what : i \in {j \in 1 .. n : log[j].readable}}
  BY DEF Logged, n
<1>8. Logged' = {log'[i].what : i \in {j \in 1 .. n + 1 : log'[j].readable}}
  BY <1>3 DEF Logged
<1>9. Logged' \subseteq Logged \cup {committed}
  BY <1>3, <1>4, <1>5, <1>7, <1>8
<1>10. Logged \cup {committed} \subseteq Logged'
  BY <1>3, <1>4, <1>6, <1>7, <1>8
<1> QED
  BY <1>9, <1>10

LEMMA OmitStep == OmitInv /\ LedgerInv' /\ [LedgerNext]_ledgerVars => OmissionsBounded'
<1>1. SUFFICES ASSUME OmitInv, [LedgerNext]_ledgerVars, outages' = 0
               PROVE  Cardinality(Omitted') <= kills'
  BY DEF OmissionsBounded, Omitted
<1>2. /\ LedgerInv /\ db \subseteq Records /\ NoRecord \notin db
      /\ kills \in Nat /\ outages \in Nat
  BY <1>1, LedgerAssumption DEF OmitInv, LedgerInv, LedgerTypeOK
<1>3. Cardinality(Omitted) \in Nat
  BY <1>2, OmittedFinite DEF Omitted
<1>4. outages = 0 => Cardinality(Omitted) <= kills
  BY <1>1 DEF OmitInv, OmissionsBounded, Omitted
<1>5. ASSUME NEW r \in Records, Commit(r)
      PROVE  Cardinality(Omitted') <= kills'
  <2>1. /\ committed = NoRecord /\ r \notin db /\ db' = db \cup {r} /\ committed' = r
        /\ UNCHANGED <<log, kills, outages>>
    BY <1>5 DEF Commit
  <2>2. Logged' = Logged
    BY <2>1 DEF Logged
  <2>3. Omitted' = Omitted
    BY <1>2, <2>1, <2>2 DEF Omitted
  <2> QED
    BY <1>1, <1>4, <2>1, <2>3
<1>6. CASE LogCommitted
  <2>1. /\ committed' = NoRecord /\ UNCHANGED <<db, kills, outages>>
    BY <1>6 DEF LogCommitted
  <2>2. Logged' = Logged \cup {committed}
    BY <1>1, <1>2, <1>6, <2>1, LoggedGrows
  <2>3. Omitted' = Omitted
    BY <1>2, <2>1, <2>2 DEF Omitted
  <2> QED
    BY <1>1, <1>4, <2>1, <2>3
<1>7. CASE Kill
  <2>1. /\ kills' = kills + 1 /\ committed' = NoRecord
        /\ UNCHANGED <<db, log, outages>>
    BY <1>7 DEF Kill
  <2>2. Logged' = Logged
    BY <2>1 DEF Logged
  <2>3. Omitted' \subseteq Omitted \cup {committed} /\ Omitted \subseteq db
    BY <2>1, <2>2 DEF Omitted
  <2>4. Omitted' \subseteq db
    BY <2>1 DEF Omitted
  <2>5. /\ IsFiniteSet(Omitted) /\ IsFiniteSet(Omitted')
        /\ Cardinality(Omitted') \in Nat
    BY <1>2, <2>3, <2>4, OmittedFinite
  <2>6. /\ IsFiniteSet(Omitted \cup {committed})
        /\ Cardinality(Omitted \cup {committed}) \in {Cardinality(Omitted), Cardinality(Omitted) + 1}
    BY <2>5, FS_AddElement
  <2>7. Cardinality(Omitted') <= Cardinality(Omitted \cup {committed})
    BY <2>3, <2>6, FS_Subset
  <2> QED
    BY <1>1, <1>2, <1>3, <1>4, <2>1, <2>5, <2>6, <2>7
<1>8. CASE PowerLoss
  BY <1>1, <1>2, <1>8 DEF PowerLoss
<1>9. CASE UNCHANGED ledgerVars
  <2>1. UNCHANGED <<db, log, committed, kills, outages>>
    BY <1>9 DEF ledgerVars
  <2>2. Omitted' = Omitted
    BY <2>1 DEF Omitted, Logged
  <2> QED
    BY <1>1, <1>4, <2>1, <2>2
<1> QED
  BY <1>1, <1>5, <1>6, <1>7, <1>8, <1>9 DEF LedgerNext

\* As long as the power stays on, each kill of the server hides one change from the
\* log at most, and nothing else hides one (upsert_root, upsert_path).
THEOREM OmissionsBoundedHolds == LedgerSpec => []OmissionsBounded
<1>1. LedgerInit => OmissionsBounded
  <2>1. SUFFICES ASSUME LedgerInit PROVE Cardinality(Omitted) <= kills
    BY DEF OmissionsBounded, Omitted
  <2>2. Omitted = {} /\ kills = 0
    BY <2>1 DEF LedgerInit, Omitted
  <2> QED
    BY <2>2, FS_EmptySet
<1>2. OmitInv /\ [LedgerNext]_ledgerVars => OmitInv'
  BY OmitStep, LedgerInvStep DEF OmitInv
<1>3. LedgerSpec => []OmitInv
  BY <1>1, <1>2, LedgerInvInit, PTL DEF LedgerSpec, OmitInv
<1> QED
  BY <1>3, PTL DEF OmitInv
=============================================================================
