---------------------------- MODULE OneTimeKeys ----------------------------
(***************************************************************************)
(* What the one-time index service of a UAV promises: every LM-OTS leaf    *)
(* index is handed out once, indices are handed out in increasing order,   *)
(* and an index that was handed out signs at most one object.  An index    *)
(* may be handed out and never sign anything.  UavHandshake implements     *)
(* this specification with a counter in flash that is advanced before the  *)
(* signature leaves the device (initializePersistentCounter, reserveQ).    *)
(***************************************************************************)
EXTENDS Naturals

CONSTANTS Devices,   \* the devices, each with a key tree of its own
          Leaves     \* the leaf indices of a tree

VARIABLES spent,     \* spent[d]: the indices that d has handed out
          signed     \* the signatures made, records with fields dev, q and obj

vars == <<spent, signed>>

Init == /\ spent = [d \in Devices |-> {}]
        /\ signed = {}

\* Hand out index q, above every index handed out before.
Spend(d, q) ==
    /\ \A p \in spent[d] : p < q
    /\ spent' = [spent EXCEPT ![d] = @ \cup {q}]
    /\ UNCHANGED signed

\* Sign something with an index that was handed out and has signed nothing.
Sign(d, q) ==
    /\ q \in spent[d]
    /\ \A s \in signed : ~(s.dev = d /\ s.q = q)
    /\ \E s \in signed' : /\ s.dev = d
                          /\ s.q = q
                          /\ signed' = signed \cup {s}
    /\ UNCHANGED spent

Next == \E d \in Devices, q \in Leaves : Spend(d, q) \/ Sign(d, q)

Spec == Init /\ [][Next]_vars
=============================================================================
