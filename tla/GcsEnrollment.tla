--------------------------- MODULE GcsEnrollment ---------------------------
(***************************************************************************)
(* What begin() and a repository-assisted handshake do with the ground     *)
(* station: a UAV enrols its root, uploads the authentication paths of the *)
(* indices it will use, polls for its peer's root and then fetches one     *)
(* peer path per handshake (GcsLedgerClient.cpp), from the server of       *)
(* GcsLedger (gcs_ledger_server.py, main).                                 *)
(*                                                                         *)
(* Requests and replies are datagrams: both are sets of everything sent,   *)
(* so each may be lost, duplicated (reply_copies included), delayed beyond *)
(* the drain at the start of the next call, and reordered.  Packets with a *)
(* wrong HMAC do not occur.  One credential version per device.            *)
(***************************************************************************)
EXTENDS GcsLedger

CONSTANTS A, B,        \* the two UAVs
          FirstQ,      \* config.firstQ
          PathCount,   \* config.numberOfSessions: paths each one uploads
          Retries,     \* GCS_RETRIES
          Rounds,      \* rounds of fetchPeerRoot, 120 in the code
          MaxReboots   \* bound: restarts of the UAVs

Devices == {A, B}
Peer(d) == IF d = A THEN B ELSE A

EnrolledRange == FirstQ .. FirstQ + PathCount - 1

Root(d)    == [kind |-> "root", dev |-> d, q |-> 0]
Path(d, q) == [kind |-> "path", dev |-> d, q |-> q]

ASSUME EnrollmentAssumption ==
    /\ A # B
    /\ FirstQ \in Nat /\ PathCount \in Nat \ {0}
    /\ Retries \in Nat \ {0} /\ Rounds \in Nat \ {0}
    /\ MaxReboots \in Nat
    /\ Records = {Root(d) : d \in Devices}
                   \cup {Path(d, q) : d \in Devices, q \in EnrolledRange}

VARIABLES
    stage,      \* which call the device is in
    index,      \* the path that call is about
    attempt,    \* transmissions of sendAndReceive so far
    round,      \* rounds of fetchPeerRoot that failed
    requests,   \* every request sent
    replies,    \* every reply sent
    everReady,  \* history: devices whose begin() has succeeded
    fetched,    \* history: <<device, index>> of the paths handshakes have got
    reboots     \* history: restarts so far

clientVars == <<stage, index, attempt, round, everReady, fetched, reboots>>
vars == <<clientVars, requests, replies, ledgerVars>>

Enrolling == {"enrollRoot", "enrollPath", "fetchRoot"}
Calling == Enrolling \cup {"fetchPath"}

Request(op, from, rec) == [op |-> op, from |-> from, rec |-> rec]
Reply(op, to, q) == [op |-> op, to |-> to, q |-> q]

TypeOK ==
    /\ LedgerTypeOK
    /\ stage \in [Devices -> Calling \cup {"ready", "failed"}]
    /\ index \in [Devices -> EnrolledRange]
    /\ attempt \in [Devices -> 0 .. Retries]
    /\ round \in [Devices -> 0 .. Rounds]
    /\ requests \subseteq [op : {"ENROLL", "GET"}, from : Devices, rec : Records]
    /\ replies \subseteq
         [op : {"ACK", "ROOT_RECORD", "PATH_RECORD", "NOT_FOUND"},
          to : Devices, q : {0} \cup EnrolledRange]
    /\ everReady \subseteq Devices
    /\ fetched \subseteq Devices \X EnrolledRange
    /\ reboots \in Nat

Init ==
    /\ LedgerInit
    /\ stage = [d \in Devices |-> "enrollRoot"]
    /\ index = [d \in Devices |-> FirstQ]
    /\ attempt = [d \in Devices |-> 0]
    /\ round = [d \in Devices |-> 0]
    /\ requests = {}
    /\ replies = {}
    /\ everReady = {}
    /\ fetched = {}
    /\ reboots = 0

-----------------------------------------------------------------------------
(* The client: sendAndReceive under each of its callers *)

Current(d) ==
    CASE stage[d] = "enrollRoot" -> Request("ENROLL", d, Root(d))
      [] stage[d] = "enrollPath" -> Request("ENROLL", d, Path(d, index[d]))
      [] stage[d] = "fetchRoot"  -> Request("GET", d, Root(Peer(d)))
      [] stage[d] = "fetchPath"  -> Request("GET", d, Path(Peer(d), index[d]))

\* The next attempt: the first, or one after GCS_TIMEOUT_MS without an answer.
Transmit(d) ==
    /\ stage[d] \in Calling
    /\ attempt[d] < Retries
    /\ attempt' = [attempt EXCEPT ![d] = @ + 1]
    /\ requests' = requests \cup {Current(d)}
    /\ UNCHANGED <<stage, index, round, everReady, fetched, reboots, replies,
                   ledgerVars>>

\* The call is over and the device is in another one, or idle.
Goto(d, s, q) ==
    /\ stage' = [stage EXCEPT ![d] = s]
    /\ index' = [index EXCEPT ![d] = q]
    /\ attempt' = [attempt EXCEPT ![d] = 0]
    /\ everReady' = IF s = "ready" THEN everReady \cup {d} ELSE everReady

\* Slip: the rounds of fetchPeerRoot are not counted.
FailUncounted(d) ==
    \/ /\ stage[d] \in {"enrollRoot", "enrollPath"}
       /\ Goto(d, "failed", index[d])
       /\ UNCHANGED round
    \/ /\ stage[d] = "fetchRoot"
       /\ Goto(d, "fetchRoot", index[d])
       /\ UNCHANGED round
    \/ /\ stage[d] = "fetchPath"
       /\ Goto(d, "ready", index[d])
       /\ UNCHANGED round

\* Slip: a handshake asks for its path again until it has it.
FailRetried(d) ==
    \/ /\ stage[d] \in {"enrollRoot", "enrollPath"}
       /\ Goto(d, "failed", index[d])
       /\ UNCHANGED round
    \/ /\ stage[d] = "fetchRoot"
       /\ round' = [round EXCEPT ![d] = @ + 1]
       /\ Goto(d, IF round[d] + 1 < Rounds THEN "fetchRoot" ELSE "failed",
               index[d])
    \/ /\ stage[d] = "fetchPath"
       /\ Goto(d, "fetchPath", index[d])
       /\ UNCHANGED round

\* sendAndReceive returned false.  Only fetchPeerRoot asks again, a second
\* later; a failed enrolment makes begin() fail, a failed fetchPeerPath the
\* session.
Fail(d) ==
    \/ /\ stage[d] \in {"enrollRoot", "enrollPath"}
       /\ Goto(d, "failed", index[d])
       /\ UNCHANGED round
    \/ /\ stage[d] = "fetchRoot"
       /\ round' = [round EXCEPT ![d] = @ + 1]
       /\ Goto(d, IF round[d] + 1 < Rounds THEN "fetchRoot" ELSE "failed",
               index[d])
    \/ /\ stage[d] = "fetchPath"
       /\ Goto(d, "ready", index[d])
       /\ UNCHANGED round

\* No answer to the last attempt, or a datagram that could not be sent.
GiveUp(d) ==
    /\ stage[d] \in Calling
    /\ Fail(d)
    /\ UNCHANGED <<fetched, reboots, requests, replies, ledgerVars>>

Answers(d) == {m \in replies : m.to = d}

\* NOT_FOUND ends the call, whatever request it answers.
ReceiveNotFound(d) ==
    /\ stage[d] \in Calling
    /\ attempt[d] > 0
    /\ \E m \in Answers(d) : m.op = "NOT_FOUND"
    /\ Fail(d)
    /\ UNCHANGED <<fetched, reboots, requests, replies, ledgerVars>>

ExpectedOp == [enrollRoot |-> "ACK", enrollPath |-> "ACK",
               fetchRoot |-> "ROOT_RECORD", fetchPath |-> "PATH_RECORD"]

\* Slip: the index is not compared.
ExpectedAnyIndex(d, m) == m.op = ExpectedOp[stage[d]]

\* Slip: the operation is not compared.
ExpectedAnyOp(d, m) ==
    stage[d] \in {"enrollPath", "fetchPath"} => m.q = index[d]

\* The operation, and for a path its index; for a root expectedQ is
\* UINT32_MAX, which matches anything.
Expected(d, m) ==
    /\ m.op = ExpectedOp[stage[d]]
    /\ stage[d] \in {"enrollPath", "fetchPath"} => m.q = index[d]

LastQ == FirstQ + PathCount - 1

\* Slip: the upload runs one path past the last.
SucceedPastLast(d) ==
    \/ stage[d] = "enrollRoot" /\ Goto(d, "enrollPath", FirstQ)
    \/ stage[d] = "enrollPath" /\ index[d] <= LastQ
         /\ Goto(d, "enrollPath", index[d] + 1)
    \/ stage[d] \in {"fetchRoot", "fetchPath"} /\ Goto(d, "ready", FirstQ)

\* sendAndReceive returned true: begin() goes on to its next call.
Succeed(d) ==
    \/ stage[d] = "enrollRoot" /\ Goto(d, "enrollPath", FirstQ)
    \/ stage[d] = "enrollPath" /\ index[d] < LastQ
         /\ Goto(d, "enrollPath", index[d] + 1)
    \/ stage[d] = "enrollPath" /\ index[d] = LastQ
         /\ Goto(d, "fetchRoot", FirstQ)
    \/ stage[d] \in {"fetchRoot", "fetchPath"} /\ Goto(d, "ready", FirstQ)

Receive(d) ==
    /\ stage[d] \in Calling
    /\ attempt[d] > 0
    /\ \E m \in Answers(d) :
         /\ Expected(d, m)
         /\ fetched' = IF stage[d] = "fetchPath"
                       THEN fetched \cup {<<d, index[d]>>} ELSE fetched
    /\ Succeed(d)
    /\ UNCHANGED <<round, reboots, requests, replies, ledgerVars>>

\* obtainPeerPath, on a message of the peer, which had come up to send it.
StartFetch(d) ==
    /\ stage[d] = "ready"
    /\ Peer(d) \in everReady
    /\ \E q \in EnrolledRange : Goto(d, "fetchPath", q)
    /\ UNCHANGED <<round, fetched, reboots, requests, replies, ledgerVars>>

\* The device is restarted and enrols the same root and paths again.
Reboot(d) ==
    /\ reboots < MaxReboots
    /\ reboots' = reboots + 1
    /\ Goto(d, "enrollRoot", FirstQ)
    /\ round' = [round EXCEPT ![d] = 0]
    /\ UNCHANGED <<fetched, requests, replies, ledgerVars>>

-----------------------------------------------------------------------------
(* The server loop: one request at a time *)

\* build_ack: the ACK of a root carries q = 0, Root(d)'s q.
Ack(r) == Reply("ACK", r.dev, r.q)

Send(m) == replies' = replies \cup {m}

ServeUnchanged(req) ==
    /\ req.op = "ENROLL"
    /\ UnchangedRecord(req.rec)
    /\ Send(Ack(req.rec))
    /\ UNCHANGED <<clientVars, requests>>

ServeNew(req) ==
    /\ req.op = "ENROLL"
    /\ Commit(req.rec)
    /\ UNCHANGED <<clientVars, requests, replies>>

FinishNew ==
    /\ LogCommitted
    /\ Send(Ack(committed))
    /\ UNCHANGED <<clientVars, requests>>

Lookup(req) ==
    IF req.rec \notin db THEN Reply("NOT_FOUND", req.from, req.rec.q)
    ELSE IF req.rec.kind = "root" THEN Reply("ROOT_RECORD", req.from, 0)
    ELSE Reply("PATH_RECORD", req.from, req.rec.q)

ServeGet(req) ==
    /\ req.op = "GET"
    /\ committed = NoRecord
    /\ Send(Lookup(req))
    /\ UNCHANGED <<clientVars, requests, ledgerVars>>

ServerFails ==
    /\ Kill \/ PowerLoss
    /\ UNCHANGED <<clientVars, requests, replies>>

-----------------------------------------------------------------------------
ClientStep(d) == \/ Transmit(d) \/ GiveUp(d)
                 \/ ReceiveNotFound(d) \/ Receive(d)

ServerStep == \/ \E req \in requests :
                   ServeUnchanged(req) \/ ServeNew(req) \/ ServeGet(req)
              \/ FinishNew

Next == \/ \E d \in Devices : ClientStep(d) \/ StartFetch(d) \/ Reboot(d)
        \/ ServerStep
        \/ ServerFails

Spec == Init /\ [][Next]_vars

\* A client call has deadlines and bounded retries; nothing makes the server
\* answer.
FairSpec == Spec /\ \A d \in Devices : WF_vars(ClientStep(d))

-----------------------------------------------------------------------------
(* Properties *)

PathsStored(d) == \A q \in EnrolledRange : Path(d, q) \in db

\* Once enrollOwnPaths has returned true the ledger holds every path of the
\* experiment ("each board uploads 500 of its own public paths", README 181).
EnrolledIsStored ==
    \A d \in Devices :
      stage[d] \in {"fetchRoot", "ready", "fetchPath"} => PathsStored(d)

\* Whatever the first index, no path but that of index 0 is taken for uploaded by
\* the ACK of another record, late or repeated (sendAndReceive 138-158).
EnrolledBut0IsStored ==
    \A d \in Devices :
      stage[d] \in {"fetchRoot", "ready", "fetchPath"} =>
        \A q \in EnrolledRange \ {0} : Path(d, q) \in db

\* A path is asked for only when the ledger holds it, so that a handshake
\* does not fail for a path that was never there (obtainPeerPath).
FetchedPathExists ==
    \A d \in Devices :
      stage[d] = "fetchPath" => Path(Peer(d), index[d]) \in db

\* A handshake that has got its peer's path for an index has one that the ledger
\* holds for that index, although the path may be missing (with indices from 0 on)
\* and ACKs, roots and paths of earlier calls still arrive (sendAndReceive 138-158).
FetchedIsStored == \A f \in fetched : Path(Peer(f[1]), f[2]) \in db

\* begin() succeeds only when both roots are in the ledger.
ReadyMeansBothRoots ==
    \A d \in everReady : {Root(d), Root(Peer(d))} \subseteq db

\* begin() comes to an end with the ground station silent or answering late:
\* two UAVs that wait for each other's root do not wait for ever.
EnrollmentEnds ==
    \A d \in Devices : stage[d] \in Enrolling ~> stage[d] \in {"ready", "failed"}

\* A path download of a handshake ends, with or without the path.
FetchEnds == \A d \in Devices : stage[d] = "fetchPath" ~> stage[d] # "fetchPath"
=============================================================================
