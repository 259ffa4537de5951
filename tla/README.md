# Verification of the post-quantum UAV-to-UAV protocols

TLA+ models, TLC runs and TLAPS proofs for the two protocol packages of this
repository: the proposed ML-KEM / LMS handshake on ESP32
(`src/ESP32_Proposed_Protocol_Complete_v4`) and the APQE-CDA baseline
(`src/APQE_CDA_Complete_v4`). This file says what the system consists of, what
is modelled, what the checks and proofs show, and what is left.

Short names used below, all under `src/`: `ProposedUavProtocol.cpp`,
`FragmentedUdp.cpp`, `GcsLedgerClient.cpp`, `LmotsLms.cpp` are in
`ESP32_Proposed_Protocol_Complete_v4/Arduino/libraries/ProposedUavProtocol/library/src/`;
`gcs_ledger_server.py` is in `.../laptop_server/`; `ApqeProtocol.cpp`,
`FabricUdpClient.cpp` are in
`APQE_CDA_Complete_v4/Arduino/libraries/ApqeCdaProtocol/src/`; the gateway and
the chaincode are `APQE_CDA_Complete_v4/fabric/gateway-go/main.go` and
`.../chaincode-go/main.go`.

## 1. The system

### Proposed protocol

Two ESP32 boards, A (initiator) and B (responder), run the same library on one
thread each. `begin()` derives the LMS key tree, joins WiFi, enrols the board's
root (and, in repository-assisted mode, its authentication paths) in a ledger
on a laptop, polls for the peer's root and opens the one-time counter in flash.
`loop()` then runs the experiment (A) or answers one session after another (B).

| component | state | operations | what makes it hard |
|---|---|---|---|
| Handshake, `ProposedUavProtocol.cpp` | nonces, SID0, M0..M4 buffers, KEM key, derived keys; experiment counter | `runInitiatorSession`, `runResponderOnce`, experiment loop | lost, duplicated, stale messages; 8 s deadlines; a session given up by one side only; RESULT bound to a 32-bit number only |
| One-time counter, `initializePersistentCounter`, `reserveQ` | `nextq` in NVS | boot check, optional reset, reserve | crash between any two steps; the reset flag; a counter left by another experiment |
| Transport, `FragmentedUdp.cpp` | one receive buffer, fragment bitmap, lock-on | `sendMessage`, `receiveMessage` | interleaved, repeated, reordered fragments; deadline |
| Ledger client, `GcsLedgerClient.cpp` | one packet buffer | `enrollOwnRoot`, `enrollOwnPaths`, `fetchPeerRoot`, `fetchPeerPath` | retries, late replies of earlier calls, mutual waiting of two boards |
| Ledger server, `gcs_ledger_server.py` | SQLite tables, hash-chained audit file | `upsert_root`, `upsert_path`, `get_root`, `get_path`, request loop | crash between commit and audit entry; torn last line |
| Signatures, `LmotsLms.cpp` | seed, tree | `buildTree`, `sign`, `verify`, `extractPath` | checksum arithmetic, parity of the path, partial failure of `buildTree` |
| Crypto, PUF stand-ins | none | wrappers of wolfCrypt | pure functions |

A and B exchange M0..M4 and RESULT over the transport. Each talks to the
server over a socket of its own, with a MAC on every packet. B downloads A's
path after M2, A downloads B's after M3. Flash is the only state that survives
a restart of a board; the database and the audit file the only state that
survives the server.

Correct means: an LM-OTS index never signs two objects; indices come from the
enrolled range; when a side accepts, the other took part in the same handshake
with the same key and indices; a session A counts was accepted by B; every wait
ends; a path that `begin()` reported uploaded is in the ledger; a reply never
answers another call; the audit log is consistent with the database up to what
crashes can explain.

### APQE-CDA baseline

The initiator and responder boards authenticate with credentials they store in
a Fabric ledger through one UDP gateway each.

| component | state | operations | what makes it hard |
|---|---|---|---|
| Handshake, `ApqeProtocol.cpp` | message buffers, nonces, credentials in use; session number | `begin`, `runInitiatorSession`, `runResponderSession` | session numbers start again at every boot, nothing is stored on the board, duplicated M1, masks stripped by two routes |
| Transport, `FragmentedUdp.cpp` | as above | as above | the same header for M1 of two boots |
| Fabric client, `FabricUdpClient.cpp` | request id in RAM | `putCredential`, two queries, `ping` | request ids start again at every boot, retries executed again, replies later than the client waits |
| Gateway, `gateway-go/main.go` | none | `serve`, one request at a time | gives up a transaction that commits later |
| Chaincode, `chaincode-go/main.go` | credentials, index by temporary identity | put, delete, two queries | simulated on old states, ordered in any order |
| PUF, Kyber wrappers | masks fixed at boot | pure | exact XOR algebra |

Correct means: both sides derive the same key from the credentials of the
session's slot, a key is accepted once, a confirmed credential is stored, the
identity index points to the record in force, and neither side waits for ever.
`CCS Verifpal/` holds symbolic models in another tool; they are not code of the
system.

## 2. Modules

| module | models | source |
|---|---|---|
| `OneTimeKeys` | abstract: each index handed out once, in increasing order, and signing one object at most | the promise of `reserveQ` |
| `UavHandshake` | both programs from power-on to the end of each session, flash, crashes, the datagram network | `ProposedUavProtocol.cpp` |
| `MCUavHandshake` | instances of it | |
| `UavHandshake_proofs` | theorems about the one-time counter, and types | |
| `UavAgreement_proofs` | theorems about agreement | |
| `GcsLedger` | database, audit file, kill and power loss | class `Ledger` |
| `GcsLedger_proofs` | theorems about the log | |
| `GcsEnrollment` (extends `GcsLedger`) | `begin()`'s calls and the path download of two boards against the server's loop | `GcsLedgerClient.cpp`, `main` |
| `MCGcsEnrollment` | instances of it | |
| `GcsEnrollment_proofs` (extends `GcsLedger_proofs`) | refinement of the ledger, theorems | |
| `MessageChannel` | abstract: a receive call returns a whole message or nothing | what the callers of `receiveMessage` rely on |
| `FragmentTransport` | sender, network of datagrams, one receive call at a time | both `FragmentedUdp.cpp` |
| `MCFragmentTransport`, `FragmentTransport_proofs` | an instance, theorems | |
| `LmOtsLms` | building the tree, paths, signing, verifying | `LmotsLms.cpp` |
| `MCLmOtsLms`, `LmOtsLms_proofs` | an instance, theorems | |
| `ApqeHandshake` | both boards from power-on to the end of the experiment, restarts, the network | `ApqeProtocol.cpp`, `SoftwarePuf.cpp` |
| `MCApqeHandshake`, `ApqeHandshake_proofs` | an instance, theorems | |
| `ApqeLedger` | one board's enrolment, its gateway, the chaincode and Fabric | `FabricUdpClient.cpp`, the gateway, the chaincode |
| `MCApqeLedger`, `ApqeLedger_proofs` | an instance, theorems | |

The definitions named "Slip" in a comment are not used by the models: each is a
plausible mistake in the definition that follows, and with it in place the run
finds the property it is meant for violated.

### UavHandshake

`pc[d]` is the place in the program: `off`, `halted` (`begin()` returned
false), `idle` (A before a session), `listen` (B waits for M0), `waitM1` ..
`waitResult` (inside `receiveProtocolMessage`), `prepare` (after the last check
of a received message, before `reserveQ`), `reserved` (index in hand, not
signed), `completed`. One action is the code between two waits, with the
receive and all its checks; a frame of the right type and session that fails a
check ends the session (`Reject`), as the `goto cleanup` in the code does, and
every exit goes through `EndSession`.

Abstractions, each an over-approximation of what the code can do:
- The network is the set of all messages sent. A message is lost if nobody
  takes it, duplicated if taken twice. A failed send is a message sent and lost.
- `Timeout` may happen in any wait at any moment, so no clock is needed; long
  ledger downloads are time the other side may use to give up.
- The download of the peer's path and the verification are part of the
  receiving action; a failed download ends the session like a time-out.
- Both nonces, A's KEM key and B's encapsulation are fresh numbers (128 bits or
  more of `wc_RNG`/`esp_random` output); the 32-bit session number may repeat.
- Hash, signature, KDF and MAC are the tuples of what they cover; ids, suite,
  mode and credential versions are constants of both configurations and left
  out of the tuples.
- The radio loses, repeats and reorders; it does not forge.

`StoredQ` is what flash may hold at the first boot; `ResetDevices` the boards
whose first sketch has `resetQCounter = true`; `PromptReflash` says that the
flag is off before the second boot, as the sketches ask.
`finished` bounds A's sessions (the code's own loop); `MaxCrashes` and
`MaxResponderRuns` are bounds of the model.

### GcsLedger and GcsEnrollment

`db` is what is committed, `log` the lines of the audit file with the hash each
carries and the previous one it names. `Commit` and `LogCommitted` are the two
halves of an upsert; `Kill` ends the process between any two steps; `PowerLoss`
leaves any prefix of the unsynced file, its last line torn or without newline.
A commit is assumed durable (SQLite's default `synchronous = FULL`; with
`NORMAL` the run `enrollment_crash` fails, which is its mutant).

A board's `stage` is the call it is in. `Transmit` is one attempt of
`sendAndReceive`, `Receive` a reply that passes its filter (`Expected`),
`ReceiveNotFound` the unfiltered NOT_FOUND, `GiveUp` the end without a reply or
a failing socket. Requests and replies are sets, so a reply to an earlier call
may come at any later time, past the drain. Left out: the packet MAC (assumed
to work), credential versions (one per board), record contents, and an
enrolment that changes a stored record.

### FragmentTransport

`progress[m]` is how many datagrams of message m the sender has handed over
whole, `cut[m]` how many bytes a short write left in the next one, which
`endPacket` sends all the same before `sendMessage` gives up (`SendFails`); the
network is the set of all these datagrams, and each may be read at any time,
again, or never. A truncated one has the header of the whole and its `bytes`
fewer; the length check in `WellFormed` is what refuses it, and without that
check `Buffered` would complete it with what earlier datagrams left in
`m_fragmentBuffer`. A datagram too short to hold its header is refused before
its fields are read, so the fields it would seem to have are not modelled. A
datagram's payload is the message it was cut from and its offset; a
byte in the caller's buffer is named by the message and place it comes from, so
a mixture is visible. `Skip` is a datagram that a filter refuses, or a repeated
one; it may still lock the call on to its header. `Place` copies one and
returns when the count is complete. `output` is not cleared by `StartReceive`,
as in the code.

The same module stands for both copies of `FragmentedUdp.cpp`: they make the
same checks and differ in the order of the capacity check, which only decides
where a datagram that is refused anyway is dropped, in the limits (constants
here) and in delays. A header is source, type, session, length and count. Two messages with
equal headers can be mixed, and the code has nothing against it; that this does
not happen is the hypothesis `DistinctHeaders` of the theorems for messages of
more than one fragment. In the proposed protocol session numbers are random 32
bits and a session has one M2 and one M3, the only long messages. In APQE-CDA
M1 is long and session numbers start again at every boot: `ApqeHandshake`
therefore does not use the channel but lets M1 of equal numbers mix.

### LmOtsLms

`phase`, `cursor` are the place in `buildTree`; `op`, `q`, `node`, `level` the
place in `extractPath` and `verify`, one level of the tree per step. A hash is
the record of what is hashed, so equal hashes mean equal inputs; a chain value
is the chain and the position reached. The digest of a message is the sequence
of its coefficients, over which checksum and digits are computed as in the
code, 16 bits wide. `Sign` may be given the wrong seed (the PUF stand-in
rebuilds it each time), and `verify` the signature and path of any leaf. The
signed digest is not related to who may ask for it: that an index signs once is
`UavHandshake`'s.

### ApqeHandshake

A 32-byte string is the set of the independent values XORed into it, and XOR is
the symmetric difference: masks cancel exactly where the code's do. The
commutative map, the reversible map, credentials, the three messages and the
session key are written with it as the code writes them, so that the two sides
strip masks by different routes and arrive at one key only if the algebra is
right. `stage`, `slot` and `run` are the place and the locals of a board;
`Crash` loses all of them. The network keeps every message of every boot.
`Answer` is `queryByTid`: the credential of the TID, or, since request ids
repeat, what an earlier boot's request of that id was answered. The initiator's
queries go through the same ids but always ask for the same slots in the same
order, so that an earlier boot's answer is the same credential. `BeginFails`,
`SessionFails`, `GiveUp` and `QueryFails` are the exits. Fabric is the set of
slots stored; a board is not reflashed in this module.

### ApqeLedger

One board's enrolment. `requests` and `replies` are all datagrams ever sent;
`serving` is the gateway's one request in hand: evaluate, submit, answer. A
world state has the credential of each slot (told by its TID), the index and a
version for each slot. `PutCredential` and `DeleteCredential` are simulated on
the state of the gateway's peer, which may lag (`CatchUp`), and yield the
version read and the writes. `Order` commits a pending transaction at any later
time, or rejects it when the version it read is no longer current; this is
Fabric's rule, taken from outside the repository. An absent key has one and the
same version whenever it is absent, which matters: a put simulated before a
delete of the same slot can still be valid after it. `Reboot` keeps or changes
the configuration, hence the TIDs.

## 3. Runs

| run | instance | shows |
|---|---|---|
| `handshake_safety` | 2 session numbers, 2 sessions of A, 3 runs of B, 1 crash, 3 leaves | agreement both ways, one-time use, refinement of `OneTimeKeys`, B's indices only spent on handshakes A signed for |
| `handshake_reboot` | flash with 0, 1 or 3, range 1..2 of 4 leaves, both boards first booted with the reset flag, 2 crashes | no reuse over restarts; both programs leave every wait |
| `handshake_resetflag` | first sketch with the flag set by hand (`RESET_Q_COUNTER` ships false), not reflashed, 1 crash | **violation**: an index signs twice |
| `ledger` | 3 records, 3 kills or power losses | log against database, chain |
| `enrollment_safety` | 2 boards, 2 paths each, 2 attempts, indices from 0 as shipped | but for path 0 an ACK never answers the upload of another record; a handshake that got a path has one the ledger holds, though path 0 may be missing |
| `enrollment_crash` | indices from 1, 1 path each, 1 server failure, 2 polling rounds | what was acknowledged survives |
| `enrollment_restart` | indices from 1, 1 path each, 2 attempts, 2 rounds, 1 restart | `begin()` and downloads end; every path counted as uploaded is stored, and a path asked for is stored, though its owner may be enrolling again |
| `enrollment_q0` | indices from 0, 1 path | **violation**: a root's ACK answers the upload of path 0 |
| `transport` | fragments of 2 bytes, up to 3; 6 messages of 2 sources, lengths 1 to 7, a buffer of 6 | whole datagrams pass the receiver's checks and truncated ones do not; fragments tile the message; a call returns a whole message or nothing (refinement of `MessageChannel`) |
| `lmots_lms` | 8 leaves, digests of 2 coefficients of 0..15 | the tree is one; verify is right for every leaf, path, digest and seed signed and verified with; no digest dominates another |
| `apqe_handshake` | 2 sessions, 2 boots of each board, 2 runs of the responder | agreement both ways, one acceptance per key, keys of the right credentials, the experiment ends |
| `apqe_ledger` | 2 slots, 2 configurations, 2 boots, 4 transactions | index, credentials and the query by temporary identity agree; a confirmed enrolment is stored |

Why the bounds suffice for the cases that matter: two sessions and three runs
of B let a message of an earlier run meet a later one, let one M0 be answered
twice and let a session number repeat; two crashes let a board crash in its
second life; two paths let an ACK be for the wrong index; three ledger failures
let a torn line be followed by a merged line and a third restart. Lengths of
one fragment, more and less than a multiple, one message too long, two with one
header, and a write that stops at any byte of a header of one byte and a
payload of two are the cases of `transport`; a header is shared only by messages of one
fragment there. Three levels have a left and a right turn at the bottom, in the
middle and at the top; two coefficients give checksums that need two digits.
Two boots of either APQE board let every message and reply of an earlier
numbering meet the later one; four transactions let two puts and two deletions,
or the puts of both configurations, be in flight together.

`enrollment_safety` takes the two boards as interchangeable (`Swap`): they run one
program with one configuration, and it checks invariants only.

Deadlock is checked in `transport` and `apqe_ledger`, which never stop. It is
off elsewhere: those programs end (`completed`, `halted`, `done`, bounds
reached).

### Fairness

`UavHandshake`: weak fairness of each device's program and of its coming up
after a crash. Justified by `loop()` being called for ever and by every wait
having a deadline; no fairness of messages arriving (a wait may always end with
`Timeout`), of crashes, or of a particular action. `GcsEnrollment`: weak
fairness of each board's `sendAndReceive`, whose attempts and time-outs are
bounded; none of the server. `ApqeHandshake`: weak fairness of `begin`, of the
initiator's `loop()` and of the end of the responder's wait for M3, each
bounded by a deadline in the code; none of messages arriving, of Fabric, or of
the responder taking up an M1. `ExperimentEnds` rests on nothing else, since
every wait may end in its deadline.

### Findings

1. `handshake_resetflag`: `reserveQ` calls itself crash-safe, but
   `initializePersistentCounter` rewrites `nextq` at every boot while
   `resetQCounter` is true, so a restart of a board that is still flashed with
   the resetting sketch reuses indices.
2. `enrollment_q0`: the ACK of a root has q = 0. If the root's request was
   retried, its second ACK can arrive after the drain of the next call and
   satisfy the upload of path 0; all four sketches have `firstQ = 0`. Path 0
   may then be missing from the ledger, and a handshake that uses it fails.
   With `firstQ > 0` the same model has the property (`enrollment_restart`,
   `enrollment_crash`).

Two observations that no document of the repository contradicts, and that are
therefore stated here and not as findings. `FabricUdpClient` numbers its
requests from 1 at every boot: after a board has been reflashed, a late answer
to a put of its earlier configuration confirms the put of the new one, so
`AckedIsStored` can only say that the slot holds a credential of a
configuration the board has had. And `buildTree` erases the seed when an inner
node fails, not when a leaf does (`BuildFails`).

## 4. Proofs

`UavHandshake_proofs`, for every configuration that `ConfigAssumption` admits
(what `begin()` accepts) and without bound on messages, sessions or crashes:

- `TypeCorrect`. `TypeOK` is not inductive: a message carries the session
  number of its sender, so one needs that a device in a session has a number
  (`SessionUnderWay`).
- `OneTimeSigningHolds`, `PersistedBeforeUseHolds`, from the inductive
  invariant `OneTimeInv`: every index used is below the counter in flash; an
  index in hand has been counted and has signed nothing; before its first
  successful boot a device has used none (so the one permitted reset takes
  nothing back). Reserving keeps it because the counter moves past the index in
  the same step; signing keeps it because the device leaves `reserved`; booting
  keeps it because the counter read is the one in flash.
- `CounterAdvances`.
- `HandshakeImplementsOneTimeKeys`: refinement of `OneTimeKeys`, `Reserve` to
  `Spend`, `SendM2` and `SendM3` to `Sign`, everything else to a stutter.

These, but for `TypeCorrect`, assume
`NoStaleReset` (`PromptReflash`, or no board with the flag):
`handshake_resetflag` shows it is needed.

`UavAgreement_proofs`, without that assumption and again for every
configuration:

- `InitiatorAgreementHolds` and `ResponderAgreementHolds`, from the inductive
  invariant `AgreeInv`. A's nonce is the number of its session
  (`NonceIsSession`) and the session under way is unconfirmed until M3 has been
  checked (`ConfirmedEarlier`), so A confirms one handshake per session
  (`OnePerSession`). A waiting for M3 still holds the M2 that it signed
  (`HoldsOwnM2`), which gives A's half. A tag of A on the network, however old,
  belongs to a handshake that A confirmed (`TagsConfirmed`) and its key fixes
  the transcript; B compares it with its own inner M3 (`HoldsOwnM3`), so what B
  accepts is a record that A holds, field for field. The invariant rests on
  fresh nonces and on no one forging a signature or a tag, the abstractions of
  section 2.
- `ResponderKeysEarnedHolds`, from `EarnedInv`. B's nonce is the number of its
  run; B reaches `reserveQ` only with a signature of A on that number
  (`PreparedOnSignature`). Counting A's signatures on runs before the present
  one while B has not reserved, and up to it afterwards (`Charged`), each
  reservation is matched by a signature that no earlier run counted.

- `CountedIsAcceptedHolds`, from `CountInv`. A RESULT has nothing of the
  handshake but its session number, so each link has to be followed: a RESULT
  on the network is of a session B accepted (`ResultsAccepted`), what B
  accepted and what it is working on began with an M0 of that number
  (`SessionRequested`), A waits for a RESULT only in a session it confirmed
  (`WaitConfirmed`), so a session counted has an accepted one of its number
  (`CountedAnswered`). If the number was drawn once, the two M0 are the same
  message and the sessions one.

`GcsLedger_proofs`, for any set of records and any number of kills and losses
of power:

- `LoggedIsStoredHolds` and `ReadableLinesLinkedHolds`, from `LedgerInv`: the
  file is `Sound` (a readable line tells of a stored record and continues the
  line before it, if that is readable), the record committed and not yet logged
  is stored (`CommittedStored`), and the hash the server will put in the next
  line is that of the last line, if that is readable (`TailLinked`).
  A power loss keeps a prefix of the file, perhaps with a torn line at its end;
  both leave it sound (`PrefixSound`, `SurvivingSound`), and what is appended
  to a torn line becomes part of it (`GarbledLine`).
- `OmissionsBoundedHolds`, from `OmitInv`: with no loss of power the stored
  records that no readable line tells of, less the one about to be logged, are
  no more than the kills (`Omitted`); the only step that adds one is a kill
  between commit and entry.

`GcsEnrollment_proofs`, for any index range, number of attempts, polls and
restarts, any set of replies under way and all failures of the server:

- `EnrollmentTypeCorrect`. `TypeOK` needs that a board still enrolling has not
  used up its rounds (`RoundsLeft`).
- `EnrollmentImplementsLedger`: the system's database, file and server are
  those of `GcsLedger`, step by step; `SystemKeepsLog` draws the ledger's three
  theorems into the system through it.
- `ReadyMeansBothRootsHolds` and `EnrolledBut0IsStoredHolds`, from `StoreInv`:
  every reply, however old, tells of something stored (`RepliesTrue`), since
  the database only grows; a board past its root has its root stored and a
  board past path q has the paths before q stored, but perhaps path 0
  (`Progress`, `Behind`, `UploadedBut0`). Nothing is assumed of
  the order or number of the replies that arrive.
- `EnrolledIsStoredHolds` and `FetchedPathExistsHolds` say the same of all
  paths and assume `FirstQ # 0`. `enrollment_q0` shows that `EnrolledIsStored`
  fails without it (finding 2).
- `FetchedIsStoredHolds`, for every `FirstQ`: what passes the filter for a path
  is a path record of that index, which tells of something stored
  (`RepliesTrue`), and stays true as the database grows.

`FragmentTransport_proofs`, for any fragment size, limits and messages:

- `SentIsAcceptableHolds`: the rounding of `FragmentCount` and the short last
  fragment tile every length (`FragmentShape`), and a datagram passes the
  receiver's checks exactly if it was sent whole (`WellFormedIsWhole`, from
  what `SendInv` says of `cut`).
- `ReceivedInPlaceHolds` and `TransportImplementsChannel`, from `IInv`: what is
  marked in the bitmap lies whole in the buffer and has the locked header, and
  `completed` counts the bitmap; fragments of different index are disjoint
  (`Disjoint`), so placing one leaves the others, and when the count is
  complete every byte of the message is covered (`EveryByteCovered`). The
  second theorem assumes `DistinctHeaders` (section 2).

`LmOtsLms_proofs`, for trees of any height (`NodesAt[l]` nodes at level l, each
level half of the one below; this stands for the power of two), any number of
coefficients and any length of the chains:

- `BuiltIsTreeHolds`: leaves and nodes below the cursor are right, and the
  seed is still there while they are built.
- `VerdictIsRightHolds`, from `LInv`: a candidate hash is the leaf's public key
  exactly if the signature has the seed, leaf and digest (`CandidateIsKey`),
  `current` is the tree's node on the way up exactly if that holds and the path
  agrees so far (`VerifyInv`), and two leaves that share all siblings are one
  (`LeafSiblings`).
- `NoDominationHolds`, for chains of 15 steps, the shift of 4 and any number of
  coefficients whose sum fits 12 bits (273; the code has 64). The fold of
  `DigitSum` takes the indices in an unknown order, and the library's induction
  theorems cannot be used here; instead the sum is shown to be the number of
  chain steps the signature leaves (`Steps`). That number satisfies the
  equation of the fold, and a smallest set of indices at which another solution
  differed is impossible (`SumCountsSteps`, by the well-foundedness of strict
  inclusion). Sets make the rest easy: a digest nowhere smaller and not equal
  leaves a proper subset of the steps, so a smaller sum (`DigitSumOrder`), and
  of two sums below 4096 the smaller has a smaller digit among the three read
  (`ChecksumOrder`): nothing overflows or is cut off by shift and truncation.

`ApqeHandshake_proofs`, for any number of sessions, boots and runs, from
`AInv`: every message on the network was made from the credentials of its slot
and nonces drawn (`Sound`, one clause per type); the initiator waiting for M2
or RESULT holds what it sent; the responder waiting for M3 holds the nonce of
its run. `KeyAfterM2` is the algebra: if H2 is right, `tkJi` and the nonces are
those of the responder's own M2, and the key is that of both credentials.
`AcceptedOnceHolds` follows since the key fixes the responder's nonce.
`ApqeTypeCorrect`, `InitiatorAgreementHolds`, `ResponderAgreementHolds` and
`KeyOfCredentialsHolds` are conjuncts of `AInv`. They rest on hashes without
collisions and nonces without repetition.

`ApqeLedger_proofs`, for any number of slots, configurations and transactions,
from `FInv`: ledger and peer are coherent; equal versions of a key mean equal
credentials (`SameVersions`); a pending transaction that read the current
version drops exactly the index entry of the credential now stored, and one
that read an absent key drops none (`PendingInv`), so that whichever is ordered
next keeps the index exact; a transaction's number is no version yet; an OK
reply or a credential on the peer means that the slot is stored or has been
deleted at some time (`StoredInv`): of a slot ever deleted `AckedIsStored` says
nothing.

Only model-checked: liveness (`ExperimentEnds` of both protocols,
`ResponderReturns`, `EnrollmentEnds`, `FetchEnds`), since neither fairness nor
ENABLED is within the prover's reach. Every invariant, action property and
refinement that a passing run checks has a theorem.

## 5. What is left

Worth doing next: the query operations of the gateway as steps of
`ApqeLedger`; a reflashed board in `ApqeHandshake`.

Not modelled: clocks and measured times, metrics and printing, the crypto
libraries (wolfCrypt wrappers of the proposed protocol, the vendored Kyber
reference), the physical PUF and fuzzy extractor, log-parsing and packaging
tools, wrap-around of `firstQ + numberOfSessions` (a configuration no sketch
has), and packets that no program of the system made.
