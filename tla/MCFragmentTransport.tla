------------------------ MODULE MCFragmentTransport ------------------------
(* Two sources; lengths of one whole fragment, of a byte more than two, of less   *)
(* than one and beyond the limit; two messages share a header.                   *)
EXTENDS FragmentTransport

CONSTANTS s1, s2

MCMessages ==
    { [id |-> 1, src |-> s1, type |-> 1, session |-> 1, length |-> 5],
      [id |-> 2, src |-> s1, type |-> 1, session |-> 2, length |-> 2],
      [id |-> 3, src |-> s2, type |-> 1, session |-> 1, length |-> 5],
      [id |-> 4, src |-> s2, type |-> 2, session |-> 1, length |-> 1],
      [id |-> 5, src |-> s2, type |-> 2, session |-> 1, length |-> 1],
      [id |-> 6, src |-> s2, type |-> 2, session |-> 2, length |-> 7] }

MCCalls == { [type |-> 1, session |-> AnySession, capacity |-> 5],
             [type |-> AnyType, session |-> 1, capacity |-> 4] }
=============================================================================
