--------------------------- MODULE MessageChannel ---------------------------
(***************************************************************************)
(* What the fragmented UDP transport promises its callers: a receive call  *)
(* that returns true has the whole content of one message that some peer   *)
(* handed over completely, and nothing of any other message.  Messages may *)
(* be lost, repeated and reordered.  FragmentTransport implements this.    *)
(***************************************************************************)
CONSTANTS Messages,      \* the messages the peers may send
          Content,       \* Content[m]: what m says
          Nothing        \* no message has been returned since the last call

VARIABLES offered,       \* the messages handed over completely
          returned       \* the content the last receive call returned

channelVars == <<offered, returned>>

Init == /\ offered = {}
        /\ returned = Nothing

Offer(m) == /\ offered' = offered \cup {m}
            /\ UNCHANGED returned

Return(m) == /\ m \in offered
             /\ returned' = Content[m]
             /\ UNCHANGED offered

Call == /\ returned' = Nothing
        /\ UNCHANGED offered

Next == Call \/ \E m \in Messages : Offer(m) \/ Return(m)

Spec == Init /\ [][Next]_channelVars
=============================================================================
