----------------------------- MODULE AreaProofs -----------------------------
(***************************************************************************)
(* Safety of the areas for any number of clients, addresses and areas.     *)
(***************************************************************************)
EXTENDS AreaControl, TLAPS

USE AreaAssumption DEF Clients, Modes

\* The session half and the area half of the type invariant.
SessionTypeOK ==
    /\ status \in [Clients -> {"new", "connected", "joined", "left", "dropped"}]
    /\ ipid \in [Clients -> IPIDs \cup {None}]
    /\ area \in [Clients -> Areas \cup {None}]
    /\ moderators \subseteq Joined
    /\ \A c \in Clients : area[c] # None <=> c \in Open

AccessTypeOK ==
    /\ cm_owners \in [Areas -> SUBSET Clients]
    /\ invited \in [Areas -> SUBSET Clients]
    /\ lock_mode \in [Areas -> Modes]

ArupTypeOK == arup_locked \in [AOClients -> [Areas -> Modes \cup {None}]]

LEMMA TypeParts == ASSUME SessionTypeOK', AccessTypeOK', ArupTypeOK' PROVE TypeOK'
BY DEF TypeOK, SessionTypeOK, AccessTypeOK, ArupTypeOK

LEMMA LocksTyped ==
    ASSUME TypeOK, lock_mode' \in [Areas -> Modes], broadcast_locked
    PROVE  arup_locked' \in [AOClients -> [Areas -> Modes \cup {None}]]
BY DEF TypeOK, broadcast_locked

\* A joined client stands in an area.
LEMMA JoinedPlaced == ASSUME TypeOK, NEW c \in Joined PROVE c \in Clients /\ area[c] \in Areas
BY DEF TypeOK, Joined, Open

LEMMA TypeSession ==
    ASSUME TypeOK, NEW c \in Clients, SessionStep(c)
    PROVE  TypeOK'
<1> USE DEF TypeOK, Open, Joined
<1>1. CASE on_client_connected(c) \/ NXInsert(c)
  BY <1>1 DEF on_client_connected, NXInsert, accessVars
<1>2. CASE AOPacketHI(c)
  BY <1>2 DEF AOPacketHI, accessVars
<1>3. CASE AOPacketRD(c)
  <2>1. arup_locked' \in [AOClients -> [Areas -> Modes \cup {None}]]
    BY <1>3 DEF AOPacketRD, AOOpen
  <2> QED BY <1>3, <2>1 DEF AOPacketRD, AOOpen, accessVars
<1>4. CASE NXFill(c)
  BY <1>4 DEF NXFill, accessVars
<1>5. CASE NXDestroy(c)
  BY <1>5 DEF NXDestroy, Gone, accessVars
<1>6. CASE LeaveUnjoined(c)
  BY <1>6 DEF LeaveUnjoined, AOOpen, Gone, accessVars
<1>7. CASE LeaveJoined(c)
  <2>1. SessionTypeOK' BY <1>7 DEF LeaveJoined, Gone, SessionTypeOK
  <2>2. AccessTypeOK' BY <1>7 DEF LeaveJoined, cleanup, AccessTypeOK
  <2>3. arup_locked' \in [AOClients -> [Areas -> Modes \cup {None}]]
    BY <1>7, <2>2, LocksTyped DEF LeaveJoined, AccessTypeOK
  <2> QED BY <2>1, <2>2, <2>3 DEF SessionTypeOK, AccessTypeOK
<1> QED BY <1>1, <1>2, <1>3, <1>4, <1>5, <1>6, <1>7 DEF SessionStep, on_client_disconnected

LEMMA TypeMove ==
    ASSUME TypeOK, NEW c \in Clients, MoveStep(c)
    PROVE  TypeOK'
<1> USE DEF TypeOK, Open, Joined
<1>1. PICK a \in Areas : AOPacketMC(c, a) \/ AreaCommand(c, a) \/ AreaJoinEndpoint(c, a)
  BY DEF MoveStep
<1>2. CASE AOPacketMC(c, a)
  BY <1>2 DEF AOPacketMC, Move, accessVars
<1>3. CASE AreaCommand(c, a) \/ AreaJoinEndpoint(c, a)
  BY <1>3 DEF AreaCommand, AreaJoinEndpoint, Move, accessVars
<1> QED BY <1>1, <1>2, <1>3

\* What any kick does, whatever its victims.
LEMMA TypeKick ==
    ASSUME TypeOK, NEW a \in Areas, NEW S \in SUBSET Open, NEW T \in SUBSET Open, Kick(a, S, T)
    PROVE  TypeOK'
<1>1. SessionTypeOK' BY DEF TypeOK, SessionTypeOK, Kick, Open, Joined
<1>2. AccessTypeOK' BY DEF TypeOK, AccessTypeOK, Kick
<1>3. ArupTypeOK' BY DEF Kick, TypeOK, ArupTypeOK
<1> QED BY <1>1, <1>2, <1>3, TypeParts

\* A kick is a Kick of open sessions from the kicker's area.
LEMMA KickShape ==
    ASSUME TypeOK, NEW c \in Clients, NEW i \in IPIDs, AreaKickCommand(c, i)
    PROVE  /\ c \in AOClients \cap Joined
           /\ area[c] \in Areas
           /\ c \in cm_owners[area[c]] \/ c \in moderators
           /\ \E S \in SUBSET sessions_in_area(area[c]), T \in SUBSET Open : Kick(area[c], S, T)
<1> DEFINE targets == WithIpid(i)
<1>1. c \in AOClients \cap Joined /\ require_cm(c) BY DEF AreaKickCommand
<1>2. area[c] \in Areas BY <1>1, JoinedPlaced
<1>3. c \in sessions_in_area(area[c]) BY <1>1 DEF sessions_in_area, Open, Joined
<1>4. \E S \in SUBSET sessions_in_area(area[c]), T \in SUBSET Open : Kick(area[c], S, T)
  <2>1. CASE c \notin targets
    <3>1. Kick(area[c], targets \cap sessions_in_area(area[c]), {})
      BY <2>1 DEF AreaKickCommand
    <3> WITNESS targets \cap sessions_in_area(area[c]) \in SUBSET sessions_in_area(area[c]),
                {} \in SUBSET Open
    <3> QED BY <3>1
  <2>2. CASE c \in targets
    <3>1. PICK before \in SUBSET (targets \ {c}) :
             Kick(area[c], {c} \cup (before \cap sessions_in_area(area[c])),
                  (targets \ (before \cup {c})) \cap sessions_in_area(Lobby))
      BY <2>2 DEF AreaKickCommand
    <3>2. {c} \cup (before \cap sessions_in_area(area[c])) \in SUBSET sessions_in_area(area[c])
      BY <1>3
    <3>3. (targets \ (before \cup {c})) \cap sessions_in_area(Lobby) \in SUBSET Open
      BY DEF WithIpid
    <3> DEFINE S == {c} \cup (before \cap sessions_in_area(area[c]))
               T == (targets \ (before \cup {c})) \cap sessions_in_area(Lobby)
    <3> HIDE DEF targets
    <3>4. S \in SUBSET sessions_in_area(area[c]) /\ T \in SUBSET Open /\ Kick(area[c], S, T)
      BY <3>1, <3>2, <3>3
    <3> HIDE DEF S, T
    <3> QED BY <3>4
  <2> QED BY <2>1, <2>2
<1> QED BY <1>1, <1>2, <1>4 DEF require_cm, is_cm

LEMMA TypeTargeted ==
    ASSUME TypeOK, NEW c \in Clients, TargetedCommand(c)
    PROVE  TypeOK'
<1>1. PICK i \in IPIDs :
         \/ AreaKickCommand(c, i) \/ CmOtherCommand(c, i) \/ UncmOtherCommand(c, i)
         \/ InviteCommand(c, i) \/ UninviteCommand(c, i)
  BY DEF TargetedCommand
<1>2. CASE AreaKickCommand(c, i)
  <2>1. PICK S \in SUBSET sessions_in_area(area[c]), T \in SUBSET Open : Kick(area[c], S, T)
    BY <1>2, KickShape
  <2>2. S \in SUBSET Open BY DEF sessions_in_area
  <2>3. area[c] \in Areas BY <1>2, KickShape
  <2> QED BY <2>1, <2>2, <2>3, TypeKick
<1>3. CASE CmOtherCommand(c, i) \/ UncmOtherCommand(c, i)
  BY <1>3 DEF TypeOK, Open, Joined, CmOtherCommand, UncmOtherCommand, WithIpid, sessionVars
<1>4. CASE InviteCommand(c, i) \/ UninviteCommand(c, i)
  BY <1>4 DEF TypeOK, Open, Joined, InviteCommand, UninviteCommand, WithIpid, sessionVars
<1> QED BY <1>1, <1>2, <1>3, <1>4

LEMMA TypeSetLock ==
    ASSUME TypeOK, NEW c \in Clients, NEW mode \in Modes, NEW G \in SUBSET Clients,
           SetLock(c, mode, G)
    PROVE  TypeOK'
<1>1. area[c] \in Areas BY JoinedPlaced DEF SetLock
<1>2. AccessTypeOK' BY <1>1 DEF TypeOK, AccessTypeOK, SetLock
<1>3. SessionTypeOK' BY DEF TypeOK, SessionTypeOK, SetLock, sessionVars, Open, Joined
<1>4. arup_locked' \in [AOClients -> [Areas -> Modes \cup {None}]]
  BY <1>2, LocksTyped DEF SetLock, AccessTypeOK
<1>5. ArupTypeOK' BY <1>4 DEF ArupTypeOK
<1> QED BY <1>2, <1>3, <1>5, TypeParts

\* The three lock commands, as one SetLock of a known mode and set of guests.
LEMMA LockShape ==
    ASSUME TypeOK, NEW c \in Clients,
           AreaLockCommand(c) \/ AreaSpectateCommand(c) \/ AreaUnlockCommand(c)
    PROVE  \E mode \in Modes, G \in SUBSET Clients : SetLock(c, mode, G)
<1>1. c \in Joined BY DEF AreaLockCommand, AreaSpectateCommand, AreaUnlockCommand, SetLock
<1>2. area[c] \in Areas BY <1>1, JoinedPlaced
<1>3. invited[area[c]] \cup sessions_in_area(area[c]) \in SUBSET Clients
  BY <1>2 DEF TypeOK, sessions_in_area, Open
<1> QED BY <1>3 DEF AreaLockCommand, AreaSpectateCommand, AreaUnlockCommand

LEMMA TypeOwn ==
    ASSUME TypeOK, NEW c \in Clients, OwnCommand(c)
    PROVE  TypeOK'
<1>1. CASE SetModerator(c)
  BY <1>1 DEF TypeOK, Open, Joined, SetModerator, accessVars
<1>2. CASE CmCommand(c) \/ UncmCommand(c)
  <2>1. SessionTypeOK' BY <1>2 DEF TypeOK, SessionTypeOK, Open, Joined, CmCommand, UncmCommand, sessionVars
  <2>2. c \in Joined /\ area[c] \in Areas BY <1>2, JoinedPlaced DEF CmCommand, UncmCommand
  <2>3. AccessTypeOK'
    <3>1. CASE CmCommand(c) BY <2>2, <3>1 DEF TypeOK, AccessTypeOK, CmCommand
    <3>2. CASE UncmCommand(c) BY <2>2, <3>2 DEF TypeOK, AccessTypeOK, UncmCommand
    <3> QED BY <1>2, <3>1, <3>2
  <2>4. ArupTypeOK' BY <1>2 DEF TypeOK, ArupTypeOK, CmCommand, UncmCommand
  <2> QED BY <2>1, <2>3, <2>4, TypeParts
<1>3. CASE AreaLockCommand(c) \/ AreaSpectateCommand(c) \/ AreaUnlockCommand(c)
  BY <1>3, LockShape, TypeSetLock
<1> QED BY <1>1, <1>2, <1>3 DEF OwnCommand

(***************************************************************************)
(* Every reachable state is well typed: a session stands in an area        *)
(* exactly while it is open, and only joined sessions are moderators.      *)
(***************************************************************************)
THEOREM AreaTypeCorrect == Spec => []TypeOK
<1>1. Init => TypeOK BY DEF Init, TypeOK, Open, Joined
<1>2. TypeOK /\ [Next]_vars => TypeOK'
  <2> SUFFICES ASSUME TypeOK, [Next]_vars PROVE TypeOK' OBVIOUS
  <2>1. CASE Next BY <2>1, TypeSession, TypeMove, TypeTargeted, TypeOwn DEF Next
  <2>2. CASE UNCHANGED vars
    BY <2>2 DEF TypeOK, Open, Joined, vars, sessionVars, accessVars
  <2> QED BY <2>1, <2>2
<1> QED BY <1>1, <1>2, PTL DEF Spec
-----------------------------------------------------------------------------
(* The lock modes clients are shown. *)

\* A broadcast gives every open AO client the new modes.
LEMMA BroadcastAnnounces ==
    ASSUME TypeOK, broadcast_locked PROVE LockAnnounced'
BY DEF TypeOK, broadcast_locked, LockAnnounced, AOOpen, Open, Joined

\* Who is joined, the modes and what was sent are all as before.
LEMMA AnnouncedKept ==
    ASSUME TypeOK, LockAnnounced, lock_mode' = lock_mode, arup_locked' = arup_locked,
           Joined' \cap AOClients \subseteq Joined
    PROVE  LockAnnounced'
BY DEF LockAnnounced

LEMMA AnnouncedSession ==
    ASSUME TypeOK, LockAnnounced, NEW c \in Clients, SessionStep(c)
    PROVE  LockAnnounced'
<1> USE DEF TypeOK, Joined, LockAnnounced
<1>1. CASE AOPacketRD(c)
  BY <1>1 DEF AOPacketRD, AOOpen, accessVars
<1>2. CASE LeaveJoined(c)
  <2>1. CASE \E a \in Areas : is_cm(c, a)
    BY <1>2, <2>1, BroadcastAnnounces DEF LeaveJoined
  <2>2. CASE ~ \E a \in Areas : is_cm(c, a)
    <3>1. lock_mode' = lock_mode BY <1>2, <2>2 DEF LeaveJoined, cleanup, is_cm
    <3> QED BY <1>2, <2>2, <3>1 DEF LeaveJoined, Gone
  <2> QED BY <2>1, <2>2
<1>3. CASE LeaveUnjoined(c) \/ NXDestroy(c)
  BY <1>3 DEF LeaveUnjoined, NXDestroy, Gone, AOOpen, accessVars
<1>4. CASE on_client_connected(c) \/ AOPacketHI(c) \/ NXInsert(c) \/ NXFill(c)
  BY <1>4 DEF on_client_connected, AOPacketHI, NXInsert, NXFill, accessVars
<1> QED BY <1>1, <1>2, <1>3, <1>4 DEF SessionStep, on_client_disconnected

LEMMA AnnouncedCommand ==
    ASSUME TypeOK, LockAnnounced, NEW c \in Clients,
           MoveStep(c) \/ TargetedCommand(c) \/ OwnCommand(c)
    PROVE  LockAnnounced'
<1>1. CASE MoveStep(c)
  BY <1>1, AnnouncedKept DEF MoveStep, AOPacketMC, AreaCommand, AreaJoinEndpoint, Move,
     accessVars, Joined
<1>2. CASE TargetedCommand(c)
  BY <1>2, AnnouncedKept DEF TargetedCommand, AreaKickCommand, Kick, CmOtherCommand,
     UncmOtherCommand, InviteCommand, UninviteCommand, sessionVars, Joined
<1>3. CASE SetModerator(c) \/ CmCommand(c) \/ UncmCommand(c)
  BY <1>3, AnnouncedKept DEF SetModerator, CmCommand, UncmCommand, sessionVars, accessVars, Joined
<1>4. CASE AreaLockCommand(c) \/ AreaSpectateCommand(c) \/ AreaUnlockCommand(c)
  BY <1>4, BroadcastAnnounces DEF AreaLockCommand, AreaSpectateCommand, AreaUnlockCommand, SetLock
<1> QED BY <1>1, <1>2, <1>3, <1>4 DEF OwnCommand

(***************************************************************************)
(* Whatever clients do and in whatever order, each joined AO client has    *)
(* been sent the current lock mode of every area.                          *)
(***************************************************************************)
THEOREM LocksAlwaysAnnounced == Spec => []LockAnnounced
<1>1. Init => LockAnnounced BY DEF Init, LockAnnounced, Joined
<1>2. TypeOK /\ LockAnnounced /\ [Next]_vars => LockAnnounced'
  <2> SUFFICES ASSUME TypeOK, LockAnnounced, [Next]_vars PROVE LockAnnounced' OBVIOUS
  <2>1. CASE Next BY <2>1, AnnouncedSession, AnnouncedCommand DEF Next
  <2>2. CASE UNCHANGED vars
    BY <2>2, AnnouncedKept DEF vars, sessionVars, accessVars, Joined
  <2> QED BY <2>1, <2>2
<1> QED BY AreaTypeCorrect, <1>1, <1>2, PTL DEF Spec

-----------------------------------------------------------------------------
(* Case masters. *)

LEMMA OwnersSession ==
    ASSUME TypeOK, OwnersLive, NEW c \in Clients, SessionStep(c)
    PROVE  OwnersLive'
<1> USE DEF TypeOK, OwnersLive
<1>1. CASE LeaveJoined(c)
  BY <1>1 DEF LeaveJoined, cleanup, Gone
<1>2. CASE LeaveUnjoined(c) \/ NXDestroy(c)
  BY <1>2 DEF LeaveUnjoined, NXDestroy, Gone, AOOpen, Joined, accessVars
<1>3. CASE on_client_connected(c) \/ AOPacketHI(c) \/ AOPacketRD(c) \/ NXInsert(c) \/ NXFill(c)
  BY <1>3 DEF on_client_connected, AOPacketHI, AOPacketRD, NXInsert, NXFill, accessVars
<1> QED BY <1>1, <1>2, <1>3 DEF SessionStep, on_client_disconnected

\* Commands make case masters only of open sessions.
LEMMA OwnersCommand ==
    ASSUME TypeOK, OwnersLive, NEW c \in Clients,
           MoveStep(c) \/ TargetedCommand(c) \/ OwnCommand(c)
    PROVE  OwnersLive'
<1> USE DEF TypeOK, OwnersLive
<1>1. CASE MoveStep(c)
  BY <1>1 DEF MoveStep, AOPacketMC, AreaCommand, AreaJoinEndpoint, Move, accessVars
<1>2. CASE TargetedCommand(c)
  <2>1. PICK i \in IPIDs :
         \/ AreaKickCommand(c, i) \/ CmOtherCommand(c, i) \/ UncmOtherCommand(c, i)
         \/ InviteCommand(c, i) \/ UninviteCommand(c, i)
    BY <1>2 DEF TargetedCommand
  <2>2. CASE CmOtherCommand(c, i)
    BY <2>2 DEF CmOtherCommand, WithIpid, Open, sessionVars
  <2>3. CASE UncmOtherCommand(c, i)
    BY <2>3 DEF UncmOtherCommand, sessionVars
  <2>4. CASE AreaKickCommand(c, i) \/ InviteCommand(c, i) \/ UninviteCommand(c, i)
    BY <2>4 DEF AreaKickCommand, Kick, InviteCommand, UninviteCommand, sessionVars
  <2> QED BY <2>1, <2>2, <2>3, <2>4
<1>3. CASE CmCommand(c)
  BY <1>3 DEF CmCommand, Joined, sessionVars
<1>4. CASE SetModerator(c) \/ UncmCommand(c)
  BY <1>4 DEF SetModerator, UncmCommand, sessionVars, accessVars
<1>5. CASE AreaLockCommand(c) \/ AreaSpectateCommand(c) \/ AreaUnlockCommand(c)
  BY <1>5 DEF AreaLockCommand, AreaSpectateCommand, AreaUnlockCommand, SetLock, sessionVars
<1> QED BY <1>1, <1>2, <1>3, <1>4, <1>5 DEF OwnCommand

(***************************************************************************)
(* An AO client that joined and left is case master of no area, for ever.  *)
(***************************************************************************)
THEOREM LeaversOwnNothing == Spec => []OwnersLive
<1>1. Init => OwnersLive BY DEF Init, OwnersLive
<1>2. TypeOK /\ OwnersLive /\ [Next]_vars => OwnersLive'
  <2> SUFFICES ASSUME TypeOK, OwnersLive, [Next]_vars PROVE OwnersLive' OBVIOUS
  <2>1. CASE Next BY <2>1, OwnersSession, OwnersCommand DEF Next
  <2>2. CASE UNCHANGED vars BY <2>2 DEF OwnersLive, vars, sessionVars, accessVars
  <2> QED BY <2>1, <2>2
<1> QED BY AreaTypeCorrect, <1>1, <1>2, PTL DEF Spec

-----------------------------------------------------------------------------
(* Doors and locks. *)

\* What LockedEntry says of one step.
EntryStep ==
    \A c \in Clients, a \in Areas :
        lock_mode[a] = "LOCKED" /\ area[c] # a /\ area'[c] = a =>
            \/ is_cm(c, a) \/ is_invited(c, a)
            \/ /\ a = Lobby
               /\ \/ area[c] = None
                  \/ \E d \in Joined : /\ area[d] = area[c]
                                       /\ d \in cm_owners[area[c]] \/ d \in moderators

LEMMA EntrySession ==
    ASSUME TypeOK, NEW c \in Clients, SessionStep(c)
    PROVE  EntryStep
<1> USE DEF TypeOK, EntryStep, Open, Joined
<1>1. CASE on_client_connected(c) \/ NXInsert(c)
  BY <1>1 DEF on_client_connected, NXInsert
<1>2. CASE AOPacketHI(c) \/ AOPacketRD(c) \/ NXFill(c)
  BY <1>2 DEF AOPacketHI, AOPacketRD, NXFill
<1>3. CASE LeaveJoined(c) \/ LeaveUnjoined(c) \/ NXDestroy(c)
  BY <1>3 DEF LeaveJoined, LeaveUnjoined, NXDestroy, Gone
<1> QED BY <1>1, <1>2, <1>3 DEF SessionStep, on_client_disconnected

LEMMA EntryTargeted ==
    ASSUME TypeOK, NEW c \in Clients, TargetedCommand(c)
    PROVE  EntryStep
<1>1. PICK i \in IPIDs :
         \/ AreaKickCommand(c, i) \/ CmOtherCommand(c, i) \/ UncmOtherCommand(c, i)
         \/ InviteCommand(c, i) \/ UninviteCommand(c, i)
  BY DEF TargetedCommand
<1>2. CASE AreaKickCommand(c, i)
  <2>1. PICK S \in SUBSET sessions_in_area(area[c]), T \in SUBSET Open : Kick(area[c], S, T)
    BY <1>2, KickShape
  <2>2. c \in Joined /\ (c \in cm_owners[area[c]] \/ c \in moderators)
    BY <1>2, KickShape
  <2> QED BY <2>1, <2>2 DEF TypeOK, EntryStep, Kick, sessions_in_area
<1>3. CASE ~AreaKickCommand(c, i)
  BY <1>1, <1>3 DEF EntryStep, CmOtherCommand, UncmOtherCommand, InviteCommand,
     UninviteCommand, sessionVars
<1> QED BY <1>2, <1>3

(***************************************************************************)
(* No door lets a client into a locked area that does not want it.         *)
(***************************************************************************)
THEOREM LockedAreasKept == Spec => LockedEntry
<1>1. TypeOK /\ [Next]_vars => [EntryStep]_vars
  <2> SUFFICES ASSUME TypeOK, Next PROVE EntryStep OBVIOUS
  <2>1. PICK c \in Clients :
           SessionStep(c) \/ MoveStep(c) \/ TargetedCommand(c) \/ OwnCommand(c)
    BY DEF Next
  <2>2. CASE MoveStep(c)
    BY <2>2 DEF TypeOK, EntryStep, MoveStep, AOPacketMC, AreaCommand, AreaJoinEndpoint, Move,
       can_enter
  <2>3. CASE OwnCommand(c)
    BY <2>3 DEF EntryStep, OwnCommand, SetModerator, CmCommand, UncmCommand, AreaLockCommand,
       AreaSpectateCommand, AreaUnlockCommand, SetLock, sessionVars
  <2> QED BY <2>1, <2>2, <2>3, EntrySession, EntryTargeted
<1> QED BY AreaTypeCorrect, <1>1, PTL DEF Spec, LockedEntry, EntryStep

\* What LockAuthority says of one step.
AuthorityStep ==
    \A a \in Areas : lock_mode'[a] # lock_mode[a] =>
        \/ \E d \in Joined \cap AOClients :
              area[d] = a /\ (d \in cm_owners[a] \/ d \in moderators)
        \/ \E d \in AOClients : /\ cm_owners[a] = {d}
                               /\ status'[d] = "left"
                               /\ lock_mode'[a] = "FREE"

(***************************************************************************)
(* Only who governs an area changes its lock, or the last to leave it.     *)
(***************************************************************************)
THEOREM LocksNeedAuthority == Spec => LockAuthority
<1>1. TypeOK /\ [Next]_vars => [AuthorityStep]_vars
  <2> SUFFICES ASSUME TypeOK, Next PROVE AuthorityStep OBVIOUS
  <2> USE DEF AuthorityStep
  <2>1. PICK c \in Clients :
           SessionStep(c) \/ MoveStep(c) \/ TargetedCommand(c) \/ OwnCommand(c)
    BY DEF Next
  <2>2. CASE LeaveJoined(c)
    BY <2>2 DEF TypeOK, LeaveJoined, cleanup, Gone, Joined
  <2>3. CASE SessionStep(c) /\ ~LeaveJoined(c)
    BY <2>3 DEF SessionStep, on_client_disconnected, LeaveUnjoined, on_client_connected,
       AOPacketHI, AOPacketRD, NXInsert, NXFill, NXDestroy, accessVars
  <2>4. CASE MoveStep(c) \/ TargetedCommand(c)
    BY <2>4 DEF MoveStep, AOPacketMC, AreaCommand, AreaJoinEndpoint, Move, TargetedCommand,
       AreaKickCommand, Kick, CmOtherCommand, UncmOtherCommand, InviteCommand,
       UninviteCommand, accessVars
  <2>5. CASE SetModerator(c) \/ CmCommand(c) \/ UncmCommand(c)
    BY <2>5 DEF SetModerator, CmCommand, UncmCommand, accessVars
  <2>6. CASE AreaLockCommand(c) \/ AreaSpectateCommand(c) \/ AreaUnlockCommand(c)
    BY <2>6 DEF TypeOK, AreaLockCommand, AreaSpectateCommand, AreaUnlockCommand, SetLock,
       require_cm, is_cm
  <2> QED BY <2>1, <2>2, <2>3, <2>4, <2>5, <2>6 DEF OwnCommand
<1> QED BY AreaTypeCorrect, <1>1, PTL DEF Spec, LockAuthority, AuthorityStep
=============================================================================
