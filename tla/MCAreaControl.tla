--------------------------- MODULE MCAreaControl ---------------------------
(* A small instance of AreaControl for TLC: two AO clients, or one and a    *)
(* REST session; absent is the client that never connects.                  *)
EXTENDS AreaControl, TLC

CONSTANTS i1, i2, ao1, ao2, shared, Absentees

VARIABLE absent

\* One address for each AO client; the REST clients share the second one's.
OneEach == [c \in Clients |-> IF c \in AOClients \ shared THEN i1 ELSE i2]

MCInit == Init /\ absent \in Absentees
MCNext == Next /\ status'[absent] = "new" /\ UNCHANGED absent
MCSpec == MCInit /\ [][MCNext]_<<vars, absent>>

\* The two AO clients, each with its address, are interchangeable while the REST session is absent; where it is not, no
\* two states of the run are permutations of each other, the second AO client being the absent one.
Exchange == (ao1 :> ao2) @@ (ao2 :> ao1) @@ (i1 :> i2) @@ (i2 :> i1)
MCSymmetry == {Exchange}
=============================================================================
