---------------------------- MODULE MCPersistence ----------------------------
(* The two users of the database, each on its own: part says which one this  *)
(* behaviour exercises.                                                      *)
EXTENDS BanStore, Accounts

VARIABLE part

mcVars == <<dbVars, banVars, acVars, part>>

MCDurations == {Permanent, 1}
MCSymmetry == Permutations(Ipids) \cup Permutations(Threads)

MCInit == DbInit /\ BanInit /\ AcInit /\ part \in {"bans", "accounts"}

MCNext ==
    /\ UNCHANGED part
    /\ \/ part = "bans" /\ BanNext /\ UNCHANGED acVars
       \/ part = "accounts" /\ AcNext /\ UNCHANGED banVars

MCSpec == MCInit /\ [][MCNext]_mcVars
=============================================================================
