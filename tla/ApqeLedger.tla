----------------------------- MODULE ApqeLedger -----------------------------
(***************************************************************************)
(* APQE-CDA's enrolment, from the UAV to the Fabric ledger: the client of   *)
(* FabricUdpClient.cpp, which puts one credential per slot; its gateway     *)
(* (gateway-go/main.go), which serves one datagram at a time; and the       *)
(* chaincode (chaincode-go/main.go), which keeps a credential per slot and  *)
(* an index from temporary identities to credentials.                       *)
(*                                                                         *)
(* Datagrams are sets of everything sent.  Request ids restart at 1 with    *)
(* every boot, and the gateway may take longer over a request (endorsement, *)
(* ordering, 60 s for the commit) than the client waits.  A reflashed UAV   *)
(* has other secrets, so another TID in each slot.                          *)
(*                                                                         *)
(* Fabric is external: a transaction is simulated on the gateway's peer,    *)
(* which may lag; ordered, perhaps long after the gateway has given it up;  *)
(* and committed only if the version it read of its key is still current,   *)
(* where an absent key has the same version whenever it is absent.          *)
(***************************************************************************)
EXTENDS Naturals

CONSTANTS SlotCount,    \* config.numberOfSessions
          Generations,  \* bound: configurations the UAV is flashed with
          MaxBoots,     \* bound: boots of the UAV
          MaxTx,        \* bound: transactions submitted
          None

Slots == 0..SlotCount-1

\* The TID of a slot under a configuration: reversibleMap with that configuration's key.
Tid(s, g) == <<s, g>>
Tids == {Tid(s, g) : s \in Slots, g \in 1..Generations}

ASSUME ApqeLedgerAssumption ==
    /\ SlotCount \in Nat \ {0} /\ Generations \in Nat \ {0}
    /\ MaxBoots \in Nat \ {0} /\ MaxTx \in Nat
    /\ None \notin Slots /\ None \notin Tids

-----------------------------------------------------------------------------
(* The chaincode.  A credential is told by its TID; a world state has the    *)
(* credentials, the TID index and the version of each credential's key.      *)

EmptyWorld == [record |-> [s \in Slots |-> None], index |-> [t \in Tids |-> None],
               version |-> [s \in Slots |-> 0]]

QueryByIdentitySlot(w, s) == w.record[s]

QueryByTemporaryIdentity(w, t) ==
    IF w.index[t] = None THEN None ELSE w.record[w.index[t]]

\* A simulated transaction: the key and version read, the index entries deleted, and
\* the credential written, None for a deletion.
Tx(w, n, s, dropped, written) ==
    [n |-> n, slot |-> s, read |-> w.version[s], drop |-> dropped, write |-> written]

\* Slip: the index entry of the credential replaced stays.
PutKeepingIndex(w, n, s, t) == Tx(w, n, s, {}, t)

PutCredential(w, n, s, t) == Tx(w, n, s, {w.record[s]} \ {None, t}, t)

DeleteCredential(w, n, s) == Tx(w, n, s, {w.record[s]}, None)

\* The writes of a valid transaction; one that writes what is there has none.
Apply(w, tx) ==
    IF w.record[tx.slot] = tx.write THEN w
    ELSE [record |-> [w.record EXCEPT ![tx.slot] = tx.write],
          index |-> [t \in Tids |-> IF t = tx.write THEN tx.slot
                                    ELSE IF t \in tx.drop THEN None ELSE w.index[t]],
          version |-> [w.version EXCEPT ![tx.slot] = IF tx.write = None THEN 0 ELSE tx.n]]

-----------------------------------------------------------------------------
VARIABLES
    stage,      \* the UAV: put, ready, failed
    slot,       \* the slot being put
    generation, \* its configuration
    boots,      \* boots so far
    requests,   \* every request sent to the gateway
    replies,    \* every reply sent by it
    serving,    \* the gateway: the request in hand and how far it is, or None
    pending,    \* transactions submitted and not ordered yet
    ledger,     \* the committed world state
    peer,       \* the world state of the gateway's peer
    txs,        \* transactions so far
    acked,      \* history: slots whose put has returned true
    deleted     \* history: slots deleted by an administrator

device == <<stage, slot, generation, boots, acked>>
fabric == <<pending, ledger, peer, txs, deleted>>
ledgerVars == <<device, requests, replies, serving, fabric>>

\* begin has used id 1 for the ping.
RequestId(s) == s + 2

Init ==
    /\ stage = "put" /\ slot = 0 /\ generation = 1 /\ boots = 1 /\ acked = {}
    /\ requests = {} /\ replies = {}
    /\ serving = None
    /\ pending = {} /\ ledger = EmptyWorld /\ peer = EmptyWorld /\ txs = 0 /\ deleted = {}

-----------------------------------------------------------------------------
(* The UAV: transact under putCredential, once per slot *)

\* One of the GATEWAY_RETRIES transmissions.
Transmit ==
    /\ stage = "put"
    /\ requests' = requests \cup {[id |-> RequestId(slot), slot |-> slot, tid |-> Tid(slot, generation)]}
    /\ UNCHANGED <<device, replies, serving, fabric>>

\* Slip: the request id of a reply is not compared.
AnswersAny(r) == TRUE

Answers(r) == r.id = RequestId(slot)

\* A reply that answers the request decides the put.
TakeReply(r) ==
    /\ stage = "put" /\ Answers(r)
    /\ IF r.ok
       THEN /\ acked' = acked \cup {slot}
            /\ IF slot + 1 < SlotCount THEN slot' = slot + 1 /\ UNCHANGED stage
               ELSE stage' = "ready" /\ UNCHANGED slot
       ELSE stage' = "failed" /\ UNCHANGED <<slot, acked>>
    /\ UNCHANGED <<generation, boots, requests, replies, serving, fabric>>

\* No answer to any transmission.
TransactFails ==
    /\ stage = "put"
    /\ stage' = "failed"
    /\ UNCHANGED <<slot, generation, boots, acked, requests, replies, serving, fabric>>

\* Power on again, with the same configuration or a new one.
Reboot ==
    /\ boots < MaxBoots
    /\ boots' = boots + 1
    /\ \/ UNCHANGED generation
       \/ generation < Generations /\ generation' = generation + 1
    /\ stage' = "put" /\ slot' = 0
    /\ UNCHANGED <<acked, requests, replies, serving, fabric>>

-----------------------------------------------------------------------------
(* The gateway: serve and handle, for PUT *)

Respond(req, status) ==
    /\ replies' = replies \cup {[id |-> req.id, ok |-> status]}
    /\ serving' = None

\* A request is read: an identical credential needs no transaction.
Evaluate(req) ==
    /\ serving = None
    /\ IF QueryByIdentitySlot(peer, req.slot) = req.tid
       THEN Respond(req, TRUE)
       ELSE serving' = [req |-> req, tx |-> 0] /\ UNCHANGED replies
    /\ UNCHANGED <<device, requests, fabric>>

\* SubmitTransaction: endorsed and sent to the orderer.
Submit ==
    /\ serving # None /\ serving.tx = 0
    /\ txs < MaxTx
    /\ txs' = txs + 1
    /\ pending' = pending \cup {PutCredential(peer, txs + 1, serving.req.slot, serving.req.tid)}
    /\ serving' = [serving EXCEPT !.tx = txs + 1]
    /\ UNCHANGED <<device, requests, replies, ledger, peer, deleted>>

\* An error of evaluation, endorsement or submission, or the commit status is late:
\* the transaction may still be pending.
FabricError ==
    /\ serving # None
    /\ Respond(serving.req, FALSE)
    /\ UNCHANGED <<device, requests, fabric>>

-----------------------------------------------------------------------------
(* Fabric and its administrator *)

Valid(tx) == tx.read = ledger.version[tx.slot]

\* A pending transaction is ordered; the gateway that waits for it answers.
Order(tx) ==
    /\ pending' = pending \ {tx}
    /\ ledger' = IF Valid(tx) THEN Apply(ledger, tx) ELSE ledger
    /\ IF serving # None /\ serving.tx = tx.n
       THEN Respond(serving.req, Valid(tx))
       ELSE UNCHANGED <<replies, serving>>
    /\ deleted' = IF Valid(tx) /\ tx.write = None THEN deleted \cup {tx.slot} ELSE deleted
    /\ UNCHANGED <<device, requests, peer, txs>>

\* The gateway's peer commits what it is behind, as it may have after any block before.
CatchUp ==
    /\ peer' = ledger
    /\ UNCHANGED <<device, requests, replies, serving, pending, ledger, txs, deleted>>

\* DeleteCredential, invoked by an administrator on the same peer.
Delete(s) ==
    /\ QueryByIdentitySlot(peer, s) # None
    /\ txs < MaxTx
    /\ txs' = txs + 1
    /\ pending' = pending \cup {DeleteCredential(peer, txs + 1, s)}
    /\ UNCHANGED <<device, requests, replies, serving, ledger, peer, deleted>>

Next == \/ Transmit \/ TransactFails \/ Reboot
        \/ \E r \in replies : TakeReply(r)
        \/ \E req \in requests : Evaluate(req)
        \/ Submit \/ FabricError \/ CatchUp
        \/ \E tx \in pending : Order(tx)
        \/ \E s \in Slots : Delete(s)

Spec == Init /\ [][Next]_ledgerVars

-----------------------------------------------------------------------------
(* Properties *)

TypeOK ==
    /\ stage \in {"put", "ready", "failed"}
    /\ slot \in Slots /\ generation \in 1..Generations /\ boots \in 1..MaxBoots
    /\ acked \subseteq Slots /\ deleted \subseteq Slots
    /\ txs \in 0..MaxTx

\* A temporary identity finds its credential exactly while that credential is stored,
\* on the ledger and on a peer that lags: whichever puts and deletions were simulated
\* on old states and whenever they were ordered, no entry of a credential that has
\* been replaced or deleted is left, and none that is needed is gone.
IndexConsistent ==
    \A w \in {ledger, peer}, t \in Tids :
        /\ \A s \in Slots : w.index[t] = s <=> w.record[s] = t
        /\ QueryByTemporaryIdentity(w, t) =
               IF \E s \in Slots : w.record[s] = t THEN t ELSE None

\* A slot reported as enrolled, and never deleted by an administrator, is stored under
\* a configuration the UAV has had: no late reply, lost commit status or late commit
\* of a transaction given up makes an enrolment that is not there or undoes one.  A
\* slot that was deleted once is left out for good, also when it is enrolled again,
\* and which of the configurations it holds is not said.
AckedIsStored ==
    \A s \in acked \ deleted : \E g \in 1..generation : ledger.record[s] = Tid(s, g)
=============================================================================
