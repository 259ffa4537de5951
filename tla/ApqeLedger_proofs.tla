------------------------- MODULE ApqeLedger_proofs -------------------------
(***************************************************************************)
(* Proofs for ApqeLedger, for any number of slots, boots and transactions. *)
(* What a transaction simulated on a lagging peer deletes is right when it *)
(* commits: the version it read tells the credential it saw, since a       *)
(* version is written once and an absent key has no credential.            *)
(***************************************************************************)
EXTENDS ApqeLedger, TLAPS

Credentials == Tids \cup {None}

Worlds == [record : [Slots -> Credentials], index : [Tids -> Slots \cup {None}],
           version : [Slots -> Nat]]

\* A world state by itself: credentials in their own slots, absent at version 0, indexed.
Coherent(w) ==
    /\ w \in Worlds
    /\ \A s \in Slots :
          /\ w.record[s] # None => \E g \in 1..generation : w.record[s] = Tid(s, g)
          /\ w.version[s] = 0 <=> w.record[s] = None
          /\ \A t \in Tids : w.index[t] = s <=> w.record[s] = t

\* The same version of a key is the same credential.
SameVersions ==
    \A s \in Slots : ledger.version[s] = peer.version[s] => ledger.record[s] = peer.record[s]

PendingInv ==
    \A tx \in pending :
        /\ tx.n \in 1..txs /\ tx.slot \in Slots /\ tx.read \in 0..txs
        /\ tx.write # None => \E g \in 1..generation : tx.write = Tid(tx.slot, g)
        /\ \A s \in Slots : ledger.version[s] # tx.n /\ peer.version[s] # tx.n
        /\ \A other \in pending : other.read # tx.n /\ (other.n = tx.n => other = tx)
        /\ tx.read = ledger.version[tx.slot]
             => tx.drop = {ledger.record[tx.slot]} \ {None, tx.write}
        /\ tx.read = 0 => tx.drop = {}

VersionsInv ==
    \A s \in Slots : ledger.version[s] <= txs /\ peer.version[s] <= txs

IsRequest(r) ==
    r.slot \in Slots /\ r.id = RequestId(r.slot) /\ \E g \in 1..generation : r.tid = Tid(r.slot, g)

GatewayInv ==
    /\ \A r \in requests : IsRequest(r)
    /\ serving # None =>
          /\ IsRequest(serving.req) /\ serving.tx \in 0..txs
          /\ \A tx \in pending : serving.tx = tx.n => tx.slot = serving.req.slot /\ tx.write # None

StoredOrDeleted(s) ==
    s \in deleted \/ \E g \in 1..generation : ledger.record[s] = Tid(s, g)

StoredInv ==
    /\ \A s \in acked : StoredOrDeleted(s)
    /\ \A s \in Slots : peer.record[s] # None => StoredOrDeleted(s)
    /\ \A r \in replies, s \in Slots : r.ok /\ r.id = RequestId(s) => StoredOrDeleted(s)

FInv == /\ TypeOK /\ Coherent(ledger) /\ Coherent(peer) /\ SameVersions
        /\ PendingInv /\ VersionsInv /\ GatewayInv /\ StoredInv

-----------------------------------------------------------------------------
(* TIDs and world states *)

\* A TID tells its slot; None is not one.
LEMMA TidFacts ==
    /\ \A s, g, r, h : Tid(s, g) = Tid(r, h) => s = r /\ g = h
    /\ \A s \in Slots, g \in 1..Generations : Tid(s, g) \in Tids /\ Tid(s, g) # None
    /\ None \notin Tids /\ None \notin Slots
BY ApqeLedgerAssumption DEF Tid, Tids

\* An administrator or the UAV submits, whatever the peer has.
LEMMA TxFields ==
    ASSUME NEW w, NEW n, NEW s, NEW d, NEW x
    PROVE  /\ Tx(w, n, s, d, x).n = n /\ Tx(w, n, s, d, x).slot = s
           /\ Tx(w, n, s, d, x).read = w.version[s]
           /\ Tx(w, n, s, d, x).drop = d /\ Tx(w, n, s, d, x).write = x
BY DEF Tx

\* What a valid transaction makes of the ledger.
LEMMA ApplyEffect ==
    ASSUME FInv, NEW tx \in pending, Valid(tx), NEW w, w = Apply(ledger, tx)
    PROVE  /\ Coherent(w)
           /\ w.record[tx.slot] = tx.write
           /\ w.version[tx.slot] \in {0, ledger.version[tx.slot], tx.n}
           /\ w.version[tx.slot] = ledger.version[tx.slot] =>
                  w.record[tx.slot] = ledger.record[tx.slot]
           /\ \A s \in Slots \ {tx.slot} : w.record[s] = ledger.record[s] /\ w.version[s] = ledger.version[s]
<1>1. /\ Coherent(ledger) /\ ledger \in Worlds
      /\ tx.n \in 1..txs /\ tx.slot \in Slots /\ txs \in Nat
      /\ tx.write # None => \E g \in 1..generation : tx.write = Tid(tx.slot, g)
      /\ ledger.version[tx.slot] # tx.n
      /\ tx.drop = {ledger.record[tx.slot]} \ {None, tx.write}
      /\ generation \in 1..Generations
  BY DEF FInv, PendingInv, Valid, Coherent, TypeOK
<1>2. tx.write \in Credentials
  <2>1. 1..generation \subseteq 1..Generations
    BY <1>1, ApqeLedgerAssumption
  <2> QED
    BY <1>1, <2>1, TidFacts DEF Credentials
<1>3. CASE ledger.record[tx.slot] = tx.write
  BY <1>1, <1>3 DEF Apply
<1>4. CASE ledger.record[tx.slot] # tx.write
  <2>1. /\ w.record = [ledger.record EXCEPT ![tx.slot] = tx.write]
        /\ w.index = [t \in Tids |-> IF t = tx.write THEN tx.slot
                                      ELSE IF t \in tx.drop THEN None ELSE ledger.index[t]]
        /\ w.version = [ledger.version EXCEPT ![tx.slot] = IF tx.write = None THEN 0 ELSE tx.n]
        /\ w = [record |-> w.record, index |-> w.index, version |-> w.version]
    BY <1>4 DEF Apply
  <2>2. /\ ledger.record \in [Slots -> Credentials] /\ ledger.version \in [Slots -> Nat]
        /\ ledger.index \in [Tids -> Slots \cup {None}]
    BY <1>1 DEF Worlds
  <2>3. /\ w.record \in [Slots -> Credentials] /\ w.version \in [Slots -> Nat]
        /\ w.index \in [Tids -> Slots \cup {None}]
    BY <1>1, <1>2, <2>1, <2>2
  <2>4. w \in Worlds
    BY <2>1, <2>3 DEF Worlds
  <2>5. /\ w.record[tx.slot] = tx.write
        /\ w.version[tx.slot] = IF tx.write = None THEN 0 ELSE tx.n
        /\ \A s \in Slots \ {tx.slot} : w.record[s] = ledger.record[s] /\ w.version[s] = ledger.version[s]
    BY <1>1, <2>1, <2>2
  <2>6. ASSUME NEW s \in Slots
        PROVE  /\ w.record[s] # None => \E g \in 1..generation : w.record[s] = Tid(s, g)
               /\ w.version[s] = 0 <=> w.record[s] = None
    BY <1>1, <2>5 DEF Coherent
  <2>7. ASSUME NEW s \in Slots, NEW t \in Tids
        PROVE  w.index[t] = s <=> w.record[s] = t
    <3>1. w.index[t] = IF t = tx.write THEN tx.slot
                       ELSE IF t \in tx.drop THEN None ELSE ledger.index[t]
      BY <2>1
    <3>2. /\ ledger.index[t] = s <=> ledger.record[s] = t
          /\ ledger.index[t] = tx.slot <=> ledger.record[tx.slot] = t
      BY <1>1 DEF Coherent
    <3>3. t # None /\ s # None /\ tx.slot # None
      BY <1>1, TidFacts
    <3>4. CASE s = tx.slot
      BY <1>1, <1>4, <2>5, <3>1, <3>2, <3>3, <3>4
    <3>5. CASE s # tx.slot
      <4>1. w.record[s] = ledger.record[s]
        BY <2>5, <3>5
      <4>2. CASE t = tx.write
        <5>1. w.record[s] # t
          BY <1>1, <2>6, <3>3, <3>5, <4>2, TidFacts
        <5> QED
          BY <3>1, <3>5, <4>2, <5>1
      <4>3. CASE t # tx.write /\ t \in tx.drop
        <5>1. t = ledger.record[tx.slot]
          BY <1>1, <4>3
        <5> QED
          BY <3>1, <3>2, <3>3, <3>5, <4>1, <4>3, <5>1
      <4>4. CASE t # tx.write /\ t \notin tx.drop
        BY <3>1, <3>2, <4>1, <4>4
      <4> QED
        BY <4>2, <4>3, <4>4
    <3> QED
      BY <3>4, <3>5
  <2>8. Coherent(w)
    BY <2>4, <2>6, <2>7 DEF Coherent
  <2>9. w.version[tx.slot] # ledger.version[tx.slot]
    <3>1. CASE tx.write = None
      BY <1>1, <1>4, <2>5, <3>1 DEF Coherent
    <3>2. CASE tx.write # None
      BY <1>1, <2>5, <3>2
    <3> QED
      BY <3>1, <3>2
  <2> QED
    BY <2>5, <2>8, <2>9
<1> QED
  BY <1>3, <1>4

-----------------------------------------------------------------------------
(* Steps *)

LEMMA FInvInit == Init => FInv
<1>1. SUFFICES ASSUME Init PROVE FInv
  OBVIOUS
<1>2. 1 \in 1..Generations /\ 1 \in 1..MaxBoots /\ 0 \in Slots /\ 0 \in 0..MaxTx
  BY ApqeLedgerAssumption DEF Slots
<1>3. TypeOK
  BY <1>1, <1>2 DEF Init, TypeOK
<1>4. EmptyWorld \in Worlds
  BY DEF EmptyWorld, Worlds, Credentials
<1>5. ASSUME NEW s \in Slots
      PROVE  /\ EmptyWorld.record[s] = None /\ EmptyWorld.version[s] = 0
             /\ \A t \in Tids : EmptyWorld.index[t] # s /\ t # None
  BY TidFacts DEF EmptyWorld
<1>6. Coherent(EmptyWorld)
  BY <1>4, <1>5 DEF Coherent
<1>7. Coherent(ledger) /\ Coherent(peer)
  BY <1>1, <1>6 DEF Init
<1>8. SameVersions /\ VersionsInv /\ StoredInv
  BY <1>1, <1>5 DEF Init, SameVersions, VersionsInv, StoredInv
<1>9. PendingInv /\ GatewayInv
  BY <1>1 DEF Init, PendingInv, GatewayInv
<1> QED
  BY <1>3, <1>7, <1>8, <1>9 DEF FInv

LEMMA FInvDevice ==
    ASSUME FInv, Transmit \/ TransactFails \/ \E r \in replies : TakeReply(r)
    PROVE  FInv'
<1>1. /\ TypeOK /\ UNCHANGED <<generation, boots, replies, serving, fabric>>
      /\ requests' = requests \/ UNCHANGED <<slot, acked>>
  BY DEF FInv, Transmit, TransactFails, TakeReply, device
<1>2. Coherent(ledger)' /\ Coherent(peer)' /\ SameVersions' /\ PendingInv' /\ VersionsInv'
  BY <1>1 DEF FInv, Coherent, SameVersions, PendingInv, VersionsInv, fabric
<1>3. CASE Transmit
  <2>1. UNCHANGED device
    BY <1>3 DEF Transmit
  <2>2. TypeOK' /\ StoredInv'
    BY <1>1, <2>1 DEF FInv, TypeOK, StoredInv, StoredOrDeleted, fabric, device
  <2>3. PICK r : r = [id |-> RequestId(slot), slot |-> slot, tid |-> Tid(slot, generation)]
    OBVIOUS
  <2>4. r.slot = slot /\ r.id = RequestId(slot) /\ r.tid = Tid(slot, generation)
    BY <2>3
  <2>5. IsRequest(r)
    BY <1>1, <2>4 DEF IsRequest, TypeOK
  <2>6. requests' = requests \cup {r}
    BY <1>3, <2>3 DEF Transmit
  <2>7. GatewayInv'
    BY <1>1, <2>5, <2>6 DEF FInv, GatewayInv, IsRequest, fabric
  <2> QED
    BY <1>2, <2>2, <2>7 DEF FInv
<1>4. CASE TransactFails
  BY <1>1, <1>2, <1>4
  DEF TransactFails, FInv, TypeOK, GatewayInv, IsRequest, StoredInv, StoredOrDeleted, fabric
<1>5. CASE \E r \in replies : TakeReply(r)
  <2>1. PICK r \in replies : TakeReply(r)
    BY <1>5
  <2>2. requests' = requests
    BY <2>1 DEF TakeReply
  <2>3. GatewayInv'
    BY <1>1, <2>2 DEF FInv, GatewayInv, IsRequest, fabric
  <2>4. TypeOK'
    <3>1. /\ acked' \in {acked, acked \cup {slot}} /\ stage' \in {"put", "ready", "failed"}
          /\ slot' = slot \/ (slot' = slot + 1 /\ slot + 1 < SlotCount)
      BY <2>1 DEF TakeReply
    <3>2. slot' \in Slots
      BY <1>1, <3>1, ApqeLedgerAssumption DEF TypeOK, Slots
    <3> QED
      BY <1>1, <3>1, <3>2 DEF TypeOK, fabric
  <2>5. acked' = acked \/ (r.ok /\ r.id = RequestId(slot) /\ acked' = acked \cup {slot})
    BY <2>1 DEF TakeReply, Answers
  <2>6. StoredInv'
    BY <1>1, <2>5 DEF FInv, TypeOK, StoredInv, StoredOrDeleted, fabric
  <2> QED
    BY <1>2, <2>3, <2>4, <2>6 DEF FInv
<1> QED
  BY <1>3, <1>4, <1>5

LEMMA FInvReboot ==
    ASSUME FInv, Reboot
    PROVE  FInv'
<1>1. /\ TypeOK /\ boots < MaxBoots /\ boots' = boots + 1 /\ stage' = "put" /\ slot' = 0
      /\ generation' = generation \/ (generation < Generations /\ generation' = generation + 1)
      /\ UNCHANGED <<acked, requests, replies, serving, pending, ledger, peer, txs, deleted>>
  BY DEF FInv, Reboot, fabric
<1>2. TypeOK'
  BY <1>1, ApqeLedgerAssumption DEF TypeOK, Slots
<1>3. 1..generation \subseteq 1..generation'
  BY <1>1, ApqeLedgerAssumption DEF TypeOK
<1>4. Coherent(ledger)' /\ Coherent(peer)' /\ SameVersions' /\ VersionsInv'
  BY <1>1, <1>3 DEF FInv, Coherent, SameVersions, VersionsInv
<1>5. PendingInv'
  BY <1>1, <1>3 DEF FInv, PendingInv
<1>6. GatewayInv' /\ StoredInv'
  BY <1>1, <1>3 DEF FInv, GatewayInv, IsRequest, StoredInv, StoredOrDeleted
<1> QED
  BY <1>2, <1>4, <1>5, <1>6 DEF FInv

\* A reply of the gateway that changes nothing else.
LEMMA FInvRespond ==
    ASSUME FInv, NEW req, IsRequest(req), NEW status \in BOOLEAN, Respond(req, status),
           status => StoredOrDeleted(req.slot), UNCHANGED <<device, requests, fabric>>
    PROVE  FInv'
<1>1. TypeOK' /\ Coherent(ledger)' /\ Coherent(peer)' /\ SameVersions' /\ PendingInv' /\ VersionsInv'
  BY DEF FInv, TypeOK, Coherent, SameVersions, PendingInv, VersionsInv, device, fabric
<1>2. GatewayInv'
  BY DEF FInv, GatewayInv, IsRequest, Respond, device, fabric
<1>3. PICK reply : reply = [id |-> req.id, ok |-> status]
  OBVIOUS
<1>4. reply.id = RequestId(req.slot) /\ reply.ok = status /\ req.slot \in Slots
  BY <1>3 DEF IsRequest
<1>5. \A s \in Slots : reply.id = RequestId(s) => s = req.slot
  BY <1>4, ApqeLedgerAssumption DEF RequestId, Slots
<1>6. replies' = replies \cup {reply}
  BY <1>3 DEF Respond
<1>7. \A s : StoredOrDeleted(s)' <=> StoredOrDeleted(s)
  BY DEF StoredOrDeleted, device, fabric
<1>8. StoredInv'
  BY <1>4, <1>5, <1>6, <1>7 DEF FInv, StoredInv, device, fabric
<1> QED
  BY <1>1, <1>2, <1>8 DEF FInv

LEMMA FInvGateway ==
    ASSUME FInv, FabricError \/ \E req \in requests : Evaluate(req)
    PROVE  FInv'
<1>1. CASE FabricError
  BY <1>1, FInvRespond DEF FabricError, FInv, GatewayInv
<1>2. ASSUME NEW req \in requests, Evaluate(req) PROVE FInv'
  <2>1. IsRequest(req) /\ serving = None
    BY <1>2 DEF FInv, GatewayInv, Evaluate
  <2>2. CASE QueryByIdentitySlot(peer, req.slot) = req.tid
    <3>1. req.tid # None
      <4>1. 1..generation \subseteq 1..Generations
        BY ApqeLedgerAssumption DEF FInv, TypeOK
      <4> QED
        BY <2>1, <4>1, TidFacts DEF IsRequest
    <3>2. StoredOrDeleted(req.slot)
      BY <2>1, <2>2, <3>1 DEF FInv, StoredInv, IsRequest, QueryByIdentitySlot
    <3> QED
      BY <1>2, <2>1, <2>2, <3>2, FInvRespond DEF Evaluate
  <2>3. CASE QueryByIdentitySlot(peer, req.slot) # req.tid
    <3>1. PICK new : new = [req |-> req, tx |-> 0]
      OBVIOUS
    <3>2. serving' = new /\ UNCHANGED <<replies, device, requests, fabric>>
      BY <1>2, <2>3, <3>1 DEF Evaluate
    <3>3. new.req = req /\ new.tx = 0
      BY <3>1
    <3>4. TypeOK' /\ Coherent(ledger)' /\ Coherent(peer)' /\ SameVersions' /\ PendingInv' /\ VersionsInv'
      BY <3>2 DEF FInv, TypeOK, Coherent, SameVersions, PendingInv, VersionsInv, device, fabric
    <3>5. StoredInv'
      BY <3>2 DEF FInv, StoredInv, StoredOrDeleted, device, fabric
    <3>6. \A tx \in pending : tx.n # 0
      BY DEF FInv, PendingInv, TypeOK
    <3>7. txs \in Nat
      BY DEF FInv, TypeOK
    <3>8. GatewayInv'
      BY <2>1, <3>2, <3>3, <3>6, <3>7 DEF FInv, GatewayInv, IsRequest, device, fabric
    <3> QED
      BY <3>4, <3>5, <3>8 DEF FInv
  <2> QED
    BY <2>2, <2>3
<1> QED
  BY <1>1, <1>2

LEMMA FInvCatchUp ==
    ASSUME FInv, CatchUp
    PROVE  FInv'
<1>1. /\ peer' = ledger /\ UNCHANGED <<device, requests, replies, serving, pending, ledger, txs, deleted>>
  BY DEF CatchUp
<1>2. TypeOK' /\ Coherent(ledger)' /\ SameVersions' /\ VersionsInv'
  BY <1>1 DEF FInv, TypeOK, Coherent, SameVersions, VersionsInv, device
<1>3. Coherent(peer)'
  BY <1>1 DEF FInv, Coherent, device
<1>4. PendingInv' /\ GatewayInv'
  BY <1>1 DEF FInv, PendingInv, GatewayInv, IsRequest, device
<1>5. StoredInv'
  <2>1. \A s \in Slots : ledger.record[s] # None => StoredOrDeleted(s)
    BY DEF FInv, Coherent, StoredOrDeleted
  <2> QED
    BY <1>1, <2>1 DEF FInv, StoredInv, StoredOrDeleted, device
<1> QED
  BY <1>2, <1>3, <1>4, <1>5 DEF FInv

\* A transaction simulated on the peer and handed to the orderer.
LEMMA FInvNewTx ==
    ASSUME FInv, NEW tx, NEW s \in Slots, NEW x,
           tx = Tx(peer, txs + 1, s, {peer.record[s]} \ {None, x}, x),
           x # None => \E g \in 1..generation : x = Tid(s, g),
           txs < MaxTx, txs' = txs + 1, pending' = pending \cup {tx},
           UNCHANGED <<device, requests, replies, ledger, peer, deleted>>,
           \/ UNCHANGED serving
           \/ /\ serving # None /\ s = serving.req.slot /\ x # None
              /\ serving' = [serving EXCEPT !.tx = txs + 1]
              /\ serving'.req = serving.req /\ serving'.tx = txs + 1
    PROVE  FInv'
<1>1. /\ tx.n = txs + 1 /\ tx.slot = s /\ tx.read = peer.version[s]
      /\ tx.drop = {peer.record[s]} \ {None, x} /\ tx.write = x
  BY TxFields
<1>2. /\ TypeOK /\ txs \in Nat /\ txs' \in 0..MaxTx /\ txs' \in Nat /\ txs < txs'
      /\ peer \in Worlds /\ ledger \in Worlds
  BY ApqeLedgerAssumption DEF FInv, TypeOK, Coherent
<1>3. \A r \in Slots : /\ peer.version[r] \in 0..txs /\ ledger.version[r] \in 0..txs
                        /\ peer.version[r] # txs + 1 /\ ledger.version[r] # txs + 1
  BY <1>2 DEF FInv, VersionsInv, Worlds
<1>4. TypeOK'
  BY <1>2 DEF TypeOK, device
<1>5. Coherent(ledger)' /\ Coherent(peer)' /\ SameVersions'
  BY DEF FInv, Coherent, SameVersions, device
<1>6. VersionsInv'
  BY <1>2, <1>3 DEF VersionsInv
<1>7. PendingInv'
  <2>1. \A other \in pending : other.n \in 1..txs /\ other.read \in 0..txs
    BY DEF FInv, PendingInv
  <2>2. \A other \in pending : other.n # txs + 1 /\ other.read # txs + 1 /\ tx.read # other.n
    BY <1>1, <1>2, <2>1 DEF FInv, PendingInv
  <2>3. tx.read \in 0..txs /\ tx.read # txs + 1 /\ tx.n \in 1..txs'
    BY <1>1, <1>2, <1>3
  <2>4. tx.read = ledger.version[s] => tx.drop = {ledger.record[s]} \ {None, tx.write}
    BY <1>1 DEF FInv, SameVersions
  <2>5. 1..txs \subseteq 1..txs' /\ 0..txs \subseteq 0..txs'
    BY <1>2
  <2>6. UNCHANGED <<generation, ledger, peer>>
    BY DEF device
  <2>7. ASSUME NEW t \in pending
        PROVE  /\ t.n \in 1..txs' /\ t.slot \in Slots /\ t.read \in 0..txs'
               /\ t.write # None => \E g \in 1..generation' : t.write = Tid(t.slot, g)
               /\ \A r \in Slots : ledger'.version[r] # t.n /\ peer'.version[r] # t.n
               /\ \A other \in pending' : other.read # t.n /\ (other.n = t.n => other = t)
               /\ t.read = ledger'.version[t.slot]
                    => t.drop = {ledger'.record[t.slot]} \ {None, t.write}
               /\ t.read = 0 => t.drop = {}
    BY <1>1, <2>2, <2>5, <2>6 DEF FInv, PendingInv
  <2>8. /\ tx.n \in 1..txs' /\ tx.slot \in Slots /\ tx.read \in 0..txs'
        /\ tx.write # None => \E g \in 1..generation' : tx.write = Tid(tx.slot, g)
        /\ \A r \in Slots : ledger'.version[r] # tx.n /\ peer'.version[r] # tx.n
        /\ \A other \in pending' : other.read # tx.n /\ (other.n = tx.n => other = tx)
        /\ tx.read = ledger'.version[tx.slot]
             => tx.drop = {ledger'.record[tx.slot]} \ {None, tx.write}
        /\ tx.read = 0 => tx.drop = {}
    <3>1. tx.read = 0 => tx.drop = {}
      BY <1>1 DEF FInv, Coherent
    <3> QED
      BY <1>1, <1>3, <2>2, <2>3, <2>4, <2>5, <2>6, <3>1
  <2> QED
    BY <2>7, <2>8 DEF PendingInv
<1>8. GatewayInv'
  <2>1. \A r \in requests : IsRequest(r)'
    BY DEF FInv, GatewayInv, IsRequest, device
  <2>2. \A other \in pending : other.n \in 1..txs
    BY DEF FInv, PendingInv
  <2>3. CASE serving # None /\ UNCHANGED serving
    BY <1>1, <1>2, <2>1, <2>3 DEF FInv, GatewayInv, IsRequest, device
  <2>4. CASE serving # None /\ s = serving.req.slot /\ x # None /\ serving'.req = serving.req /\ serving'.tx = txs + 1
    BY <1>1, <1>2, <2>1, <2>2, <2>4 DEF FInv, GatewayInv, IsRequest, device
  <2> QED
    BY <2>1, <2>3, <2>4 DEF GatewayInv
<1>9. StoredInv'
  BY DEF FInv, StoredInv, StoredOrDeleted, device
<1> QED
  BY <1>4, <1>5, <1>6, <1>7, <1>8, <1>9 DEF FInv

LEMMA FInvSubmit ==
    ASSUME FInv, Submit
    PROVE  FInv'
<1>1. /\ serving # None /\ serving.tx = 0 /\ txs < MaxTx /\ IsRequest(serving.req)
      /\ txs' = txs + 1 /\ UNCHANGED <<device, requests, replies, ledger, peer, deleted>>
      /\ serving' = [serving EXCEPT !.tx = txs + 1]
  BY DEF FInv, GatewayInv, Submit
<1>2. PICK s, x : s = serving.req.slot /\ x = serving.req.tid
  OBVIOUS
<1>3. s \in Slots /\ x # None /\ \E g \in 1..generation : x = Tid(s, g)
  <2>1. 1..generation \subseteq 1..Generations
    BY ApqeLedgerAssumption DEF FInv, TypeOK
  <2> QED
    BY <1>1, <1>2, <2>1, TidFacts DEF IsRequest
<1>4. PICK tx : tx = PutCredential(peer, txs + 1, s, x)
  OBVIOUS
<1>5. tx = Tx(peer, txs + 1, s, {peer.record[s]} \ {None, x}, x) /\ pending' = pending \cup {tx}
  BY <1>2, <1>4 DEF Submit, PutCredential
<1>6. serving'.req = serving.req /\ serving'.tx = txs + 1
  BY <1>1
<1> QED
  BY <1>1, <1>2, <1>3, <1>5, <1>6, FInvNewTx

LEMMA FInvDelete ==
    ASSUME FInv, NEW s \in Slots, Delete(s)
    PROVE  FInv'
<1>1. /\ peer.record[s] # None /\ txs < MaxTx /\ txs' = txs + 1
      /\ UNCHANGED <<device, requests, replies, serving, ledger, peer, deleted>>
  BY DEF Delete, QueryByIdentitySlot
<1>2. PICK tx : tx = DeleteCredential(peer, txs + 1, s)
  OBVIOUS
<1>3. {peer.record[s]} = {peer.record[s]} \ {None, None}
  BY <1>1
<1>4. tx = Tx(peer, txs + 1, s, {peer.record[s]} \ {None, None}, None) /\ pending' = pending \cup {tx}
  BY <1>2, <1>3 DEF Delete, DeleteCredential
<1> QED
  BY <1>1, <1>4, FInvNewTx

LEMMA FInvOrder ==
    ASSUME FInv, NEW tx \in pending, Order(tx)
    PROVE  FInv'
<1>1. PICK w : w = IF Valid(tx) THEN Apply(ledger, tx) ELSE ledger
  OBVIOUS
<1>2. /\ pending' = pending \ {tx} /\ ledger' = w /\ UNCHANGED <<device, requests, peer, txs>>
      /\ \/ UNCHANGED <<replies, serving>>
         \/ serving # None /\ serving.tx = tx.n /\ Respond(serving.req, Valid(tx))
      /\ deleted' = IF Valid(tx) /\ tx.write = None THEN deleted \cup {tx.slot} ELSE deleted
  BY <1>1 DEF Order
<1>3. /\ tx.n \in 1..txs /\ tx.slot \in Slots /\ txs \in Nat /\ ledger \in Worlds
      /\ tx.write # None => \E g \in 1..generation : tx.write = Tid(tx.slot, g)
      /\ \A s \in Slots : ledger.version[s] # tx.n /\ peer.version[s] # tx.n
      /\ \A other \in pending : other.read # tx.n /\ (other.n = tx.n => other = tx)
  BY DEF FInv, PendingInv, TypeOK, Coherent
<1>4. /\ Coherent(w) /\ w \in Worlds
      /\ w.version[tx.slot] \in {0, ledger.version[tx.slot], tx.n}
      /\ w.version[tx.slot] = ledger.version[tx.slot] =>
             w.record[tx.slot] = ledger.record[tx.slot]
      /\ \A s \in Slots \ {tx.slot} : w.record[s] = ledger.record[s] /\ w.version[s] = ledger.version[s]
      /\ Valid(tx) => w.record[tx.slot] = tx.write
  BY <1>1, <1>3, ApplyEffect DEF FInv, Coherent
<1>5. TypeOK'
  BY <1>2, <1>3 DEF FInv, TypeOK, device
<1>6. Coherent(ledger)' /\ Coherent(peer)'
  BY <1>2, <1>4 DEF FInv, Coherent, device
<1>7. ASSUME NEW s \in Slots
      PROVE  /\ w.version[s] \in {0, ledger.version[s], tx.n}
             /\ w.version[s] = ledger.version[s] => w.record[s] = ledger.record[s]
             /\ w.version[s] = 0 <=> w.record[s] = None
             /\ w.version[s] \in 0..txs
  <2>1. ledger.version[s] \in 0..txs
    BY <1>3 DEF FInv, VersionsInv, Worlds
  <2> QED
    BY <1>3, <1>4, <2>1 DEF Coherent
<1>8. SameVersions'
  <2>1. ASSUME NEW s \in Slots, w.version[s] = peer.version[s] PROVE w.record[s] = peer.record[s]
    <3>1. peer.version[s] = 0 => peer.record[s] = None
      BY DEF FInv, Coherent
    <3> QED
      BY <1>3, <1>7, <2>1, <3>1 DEF FInv, SameVersions
  <2> QED
    BY <1>2, <2>1 DEF SameVersions
<1>9. VersionsInv'
  BY <1>2, <1>3, <1>7 DEF FInv, VersionsInv
<1>10. PendingInv'
  <2>1. ASSUME NEW t \in pending, t # tx
        PROVE  /\ \A s \in Slots : w.version[s] # t.n
               /\ t.read = w.version[t.slot] => t.drop = {w.record[t.slot]} \ {None, t.write}
    <3>1. /\ t.n \in 1..txs /\ t.n # tx.n /\ t.read # tx.n /\ t.slot \in Slots
          /\ \A s \in Slots : ledger.version[s] # t.n
          /\ t.read = ledger.version[t.slot] => t.drop = {ledger.record[t.slot]} \ {None, t.write}
          /\ tx.read # t.n
      BY <1>3, <2>1 DEF FInv, PendingInv
    <3>2. \A s \in Slots : w.version[s] # t.n
      BY <1>3, <1>7, <3>1
    <3>3. CASE w.version[t.slot] = ledger.version[t.slot]
      BY <1>7, <3>1, <3>3
    <3>4. CASE w.version[t.slot] # ledger.version[t.slot] /\ t.read = w.version[t.slot]
      <4>1. t.read = 0 /\ w.record[t.slot] = None
        BY <1>7, <3>1, <3>4
      <4>2. t.drop = {}
        BY <2>1, <4>1 DEF FInv, PendingInv
      <4> QED
        BY <3>2, <4>1, <4>2
    <3> QED
      BY <3>2, <3>3, <3>4
  <2> QED
    BY <1>2, <2>1 DEF FInv, PendingInv, device
<1>11. \A s \in Slots : StoredOrDeleted(s) => StoredOrDeleted(s)'
  <2>1. ASSUME NEW s \in Slots, StoredOrDeleted(s) PROVE StoredOrDeleted(s)'
    <3>1. CASE s = tx.slot /\ Valid(tx)
      BY <1>2, <1>3, <1>4, <2>1, <3>1 DEF StoredOrDeleted, device
    <3>2. CASE ~(s = tx.slot /\ Valid(tx))
      BY <1>1, <1>2, <1>4, <2>1, <3>2 DEF StoredOrDeleted, device
    <3> QED
      BY <3>1, <3>2
  <2> QED
    BY <2>1
<1>12. GatewayInv'
  BY <1>2 DEF FInv, GatewayInv, IsRequest, Respond, device
<1>13. StoredInv'
  <2>1. /\ \A s \in acked' : StoredOrDeleted(s)'
        /\ \A s \in Slots : peer'.record[s] # None => StoredOrDeleted(s)'
    BY <1>2, <1>11 DEF FInv, StoredInv, TypeOK, device
  <2>2. ASSUME NEW r \in replies', NEW s \in Slots, r.ok, r.id = RequestId(s)
        PROVE  StoredOrDeleted(s)'
    <3>1. CASE r \in replies
      BY <1>11, <2>2, <3>1 DEF FInv, StoredInv
    <3>2. CASE r \notin replies
      <4>1. serving # None /\ serving.tx = tx.n /\ r = [id |-> serving.req.id, ok |-> Valid(tx)]
        BY <1>2, <3>2 DEF Respond
      <4>2. r.id = serving.req.id /\ Valid(tx) /\ tx.write # None /\ tx.slot = serving.req.slot
        BY <2>2, <4>1 DEF FInv, GatewayInv
      <4>3. serving.req.id = RequestId(tx.slot)
        BY <4>1, <4>2 DEF FInv, GatewayInv, IsRequest
      <4>4. s = tx.slot
        BY <1>3, <2>2, <4>2, <4>3, ApqeLedgerAssumption DEF RequestId, Slots
      <4> QED
        BY <1>2, <1>3, <1>4, <4>2, <4>4 DEF StoredOrDeleted, device
    <3> QED
      BY <3>1, <3>2
  <2> QED
    BY <2>1, <2>2 DEF StoredInv
<1> QED
  BY <1>5, <1>6, <1>8, <1>9, <1>10, <1>12, <1>13 DEF FInv

LEMMA FInvStep == FInv /\ [Next]_ledgerVars => FInv'
<1>1. SUFFICES ASSUME FInv, [Next]_ledgerVars PROVE FInv'
  OBVIOUS
<1>2. CASE UNCHANGED ledgerVars
  BY <1>1, <1>2
  DEF ledgerVars, device, fabric, FInv, TypeOK, Coherent, SameVersions, PendingInv,
      VersionsInv, GatewayInv, IsRequest, StoredInv, StoredOrDeleted
<1>3. CASE Next
  BY <1>1, <1>3, FInvDevice, FInvReboot, FInvGateway, FInvSubmit, FInvCatchUp, FInvOrder,
     FInvDelete DEF Next
<1> QED
  BY <1>1, <1>2, <1>3

LEMMA FabricInvariance == Spec => []FInv
BY FInvInit, FInvStep, PTL DEF Spec

-----------------------------------------------------------------------------
(* Theorems *)

\* The TID index of the chaincode agrees with its credentials, and the query by TID
\* finds a credential exactly while it is stored, for any number of slots,
\* configurations and transactions in flight.
THEOREM IndexConsistentHolds == Spec => []IndexConsistent
<1>1. ASSUME NEW w, Coherent(w), NEW t \in Tids
      PROVE  QueryByTemporaryIdentity(w, t) =
                 IF \E s \in Slots : w.record[s] = t THEN t ELSE None
  <2>1. /\ \A s \in Slots : w.index[t] = s <=> w.record[s] = t
        /\ w.index[t] \in Slots \cup {None}
    BY <1>1 DEF Coherent, Worlds
  <2>2. CASE w.index[t] = None
    BY <2>1, <2>2, TidFacts DEF QueryByTemporaryIdentity
  <2>3. CASE w.index[t] # None
    BY <2>1, <2>3 DEF QueryByTemporaryIdentity
  <2> QED
    BY <2>2, <2>3
<1>2. FInv => IndexConsistent
  BY <1>1 DEF FInv, Coherent, IndexConsistent
<1> QED
  BY <1>2, FabricInvariance, PTL

\* A confirmed slot that has never been deleted is stored, for any number of boots and replies.
THEOREM AckedIsStoredHolds == Spec => []AckedIsStored
<1>1. FInv => AckedIsStored
  BY DEF FInv, StoredInv, StoredOrDeleted, AckedIsStored
<1> QED
  BY <1>1, FabricInvariance, PTL
=============================================================================
