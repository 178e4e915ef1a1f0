---------------------------- MODULE AreaControl ----------------------------
(***************************************************************************)
(* Who may enter, lock and govern the areas of the room: case masters,     *)
(* invitations, lock modes and the ARUP packets that announce them.        *)
(* Every action runs under the exclusive dispatch lock, except the two     *)
(* halves of a REST session's creation and its removal, which take only    *)
(* the session map's own lock.  Client ids are never reused.               *)
(*                                                                         *)
(* Kept apart from this module: AreaState::cm (a display name), moderator  *)
(* credentials (AOServer) and the texts sent to the clients.               *)
(***************************************************************************)
EXTENDS Integers, FiniteSets, Functions

CONSTANTS
    AOClients,   \* ids of WebSocket clients
    NXClients,   \* ids of REST sessions
    Areas,       \* the areas of the room
    Lobby,       \* areas[0], where every session starts
    IPIDs,       \* hashes of client addresses
    Address,     \* the IPID each client's address hashes to
    None         \* no area, no IPID

Clients == AOClients \cup NXClients
Modes == {"FREE", "LOCKED", "SPECTATABLE"}

ASSUME AreaAssumption ==
    /\ AOClients \cap NXClients = {}
    /\ IsFiniteSet(AOClients) /\ IsFiniteSet(NXClients)
    /\ Lobby \in Areas
    /\ Address \in [Clients -> IPIDs]
    /\ None \notin Areas \cup IPIDs

VARIABLES
    status,       \* "new", "connected", "joined", then "left" or "dropped"
    ipid,         \* ServerSession::ipid
    area,         \* ServerSession::area, None without a session
    moderators,   \* sessions with ServerSession::moderator
    cm_owners,    \* AreaState::cm_owners
    invited,      \* AreaState::invited
    lock_mode,    \* AreaState::lock_mode
    arup_locked   \* the last ARUP_LOCKED each AO client was sent

sessionVars == <<status, ipid, area, moderators>>
accessVars == <<cm_owners, invited, lock_mode>>
vars == <<sessionVars, accessVars, arup_locked>>

Open == {c \in Clients : status[c] \in {"connected", "joined"}}
Joined == {c \in Clients : status[c] = "joined"}

TypeOK ==
    /\ status \in [Clients -> {"new", "connected", "joined", "left", "dropped"}]
    /\ ipid \in [Clients -> IPIDs \cup {None}]
    /\ area \in [Clients -> Areas \cup {None}]
    /\ moderators \subseteq Joined
    /\ cm_owners \in [Areas -> SUBSET Clients]
    /\ invited \in [Areas -> SUBSET Clients]
    /\ lock_mode \in [Areas -> Modes]
    /\ arup_locked \in [AOClients -> [Areas -> Modes \cup {None}]]
    /\ \A c \in Clients : area[c] # None <=> c \in Open

Init ==
    /\ status = [c \in Clients |-> "new"]
    /\ ipid = [c \in Clients |-> None]
    /\ area = [c \in Clients |-> None]
    /\ moderators = {}
    /\ cm_owners = [a \in Areas |-> {}]
    /\ invited = [a \in Areas |-> {}]
    /\ lock_mode = [a \in Areas |-> "FREE"]
    /\ arup_locked = [c \in AOClients |-> [a \in Areas |-> None]]

-----------------------------------------------------------------------------
(* AreaState's predicates and the lookups of GameRoom. *)

is_cm(c, a) == c \in cm_owners[a]
is_invited(c, a) == c \in invited[a]

AOOpen == Open \cap AOClients
sessions_in_area(a) == {c \in Open : area[c] = a}
WithIpid(i) == {c \in Open : ipid[c] = i}

can_enter_any(c, a) == TRUE

can_enter(c, a) == lock_mode[a] = "LOCKED" => is_cm(c, a) \/ is_invited(c, a)

require_nothing(c) == TRUE

\* "You must be CM or moderator": the guard of most area commands.
require_cm(c) == is_cm(c, area[c]) \/ c \in moderators

(***************************************************************************)
(* broadcast_arup of the lock modes: the field is built from the state the *)
(* handler has produced, and goes to every client of proto_state_.  The    *)
(* head counts are broadcast in ClientViews.                               *)
(***************************************************************************)
broadcast_locked_skipped == UNCHANGED arup_locked

broadcast_locked ==
    arup_locked' = [c \in AOClients |-> IF c \in AOOpen' THEN lock_mode' ELSE arup_locked[c]]

-----------------------------------------------------------------------------
(* Sessions. *)

on_client_connected(c) ==
    /\ c \in AOClients /\ status[c] = "new"
    /\ status' = [status EXCEPT ![c] = "connected"]
    /\ area' = [area EXCEPT ![c] = Lobby]
    /\ UNCHANGED <<ipid, moderators, accessVars, arup_locked>>

AOPacketHI(c) ==
    /\ c \in AOClients /\ status[c] = "connected"
    /\ ipid' = [ipid EXCEPT ![c] = Address[c]]
    /\ UNCHANGED <<status, area, moderators, accessVars, arup_locked>>

\* A client that has joined may send RD again: the counts are sent again.
AOPacketRD(c) ==
    /\ c \in AOOpen
    /\ status' = [status EXCEPT ![c] = "joined"]
    /\ arup_locked' = [arup_locked EXCEPT ![c] = lock_mode]
    /\ UNCHANGED <<ipid, area, moderators, accessVars>>

\* NXServer::create_session: the session is in the map before it is filled.
NXInsert(c) ==
    /\ c \in NXClients /\ status[c] = "new"
    /\ status' = [status EXCEPT ![c] = "connected"]
    /\ area' = [area EXCEPT ![c] = Lobby]
    /\ UNCHANGED <<ipid, moderators, accessVars, arup_locked>>

NXFill(c) ==
    /\ c \in NXClients /\ status[c] = "connected"
    /\ ipid' = [ipid EXCEPT ![c] = Address[c]]
    /\ status' = [status EXCEPT ![c] = "joined"]
    /\ UNCHANGED <<area, moderators, accessVars, arup_locked>>

Gone(c) ==
    /\ status' = [status EXCEPT ![c] = IF status[c] = "joined" THEN "left" ELSE "dropped"]
    /\ ipid' = [ipid EXCEPT ![c] = None]
    /\ area' = [area EXCEPT ![c] = None]
    /\ moderators' = moderators \ {c}

\* A REST session that is destroyed leaves the areas as they are.
NXDestroy(c) ==
    /\ c \in NXClients \cap Joined
    /\ Gone(c)
    /\ UNCHANGED <<accessVars, arup_locked>>

(***************************************************************************)
(* on_client_disconnected: the areas are cleaned up only for a client that *)
(* had joined; an area that loses its last case master is unlocked.        *)
(***************************************************************************)
cleanup_keeps_owner(c) == UNCHANGED accessVars

cleanup(c) ==
    LET last(a) == cm_owners[a] = {c} /\ lock_mode[a] # "FREE" IN
    /\ cm_owners' = [a \in Areas |-> cm_owners[a] \ {c}]
    /\ lock_mode' = [a \in Areas |-> IF last(a) THEN "FREE" ELSE lock_mode[a]]
    /\ invited' = [a \in Areas |-> IF last(a) THEN {} ELSE invited[a]]

LeaveJoined(c) ==
    /\ c \in AOClients \cap Joined
    /\ cleanup(c)
    /\ Gone(c)
    /\ IF \E a \in Areas : is_cm(c, a) THEN broadcast_locked ELSE UNCHANGED arup_locked

LeaveUnjoined(c) ==
    /\ c \in AOOpen \ Joined
    /\ Gone(c)
    /\ UNCHANGED <<accessVars, arup_locked>>

on_client_disconnected(c) == LeaveJoined(c) \/ LeaveUnjoined(c)

-----------------------------------------------------------------------------
(* Moving between areas. *)

Move(c, a) ==
    /\ can_enter(c, a)
    /\ area' = [area EXCEPT ![c] = a]
    /\ UNCHANGED <<status, ipid, moderators, accessVars>>

\* The MC packet with an area's name.
AOPacketMC(c, a) ==
    /\ c \in AOClients \cap Joined
    /\ Move(c, a)
    /\ UNCHANGED arup_locked

\* The /area command: as MC, but without the broadcast of head counts (ClientViews).
AreaCommand(c, a) ==
    /\ c \in AOClients \cap Joined
    /\ Move(c, a)
    /\ UNCHANGED arup_locked

AreaJoinEndpoint(c, a) ==
    /\ c \in NXClients \cap Joined
    /\ Move(c, a)
    /\ UNCHANGED arup_locked

(***************************************************************************)
(* /area_kick ipid.  The loop compares each session with the area of the   *)
(* kicker, which changes under it when the kicker has that ipid too:       *)
(* sessions visited later are compared with the lobby.  The order of the   *)
(* loop is that of the session map, so any set may come before the kicker. *)
(***************************************************************************)
Kick(a, kicked, uninvited) ==
    /\ kicked \cup uninvited # {}
    /\ area' = [d \in Clients |-> IF d \in kicked THEN Lobby ELSE area[d]]
    /\ invited' = [invited EXCEPT ![a] = @ \ (kicked \cup uninvited)]
    /\ UNCHANGED <<status, ipid, moderators, cm_owners, lock_mode, arup_locked>>

AreaKickCommand(c, i) ==
    LET a == area[c]
        targets == WithIpid(i)
    IN  /\ c \in AOClients \cap Joined
        /\ require_cm(c)
        /\ \/ /\ c \notin targets
              /\ Kick(a, targets \cap sessions_in_area(a), {})
           \/ /\ c \in targets
              /\ \E before \in SUBSET (targets \ {c}) :
                    Kick(a, {c} \cup (before \cap sessions_in_area(a)),
                         (targets \ (before \cup {c})) \cap sessions_in_area(Lobby))

-----------------------------------------------------------------------------
(* Case masters, invitations and locks; all need a joined AO client. *)

SetModerator(c) ==
    /\ c \in AOClients \cap Joined
    /\ \/ c \notin moderators /\ moderators' = moderators \cup {c}
       \/ c \in moderators /\ moderators' = moderators \ {c}
    /\ UNCHANGED <<status, ipid, area, accessVars, arup_locked>>

CmCommand(c) ==
    /\ c \in AOClients \cap Joined
    /\ cm_owners' = [cm_owners EXCEPT ![area[c]] = @ \cup {c}]
    /\ invited' = [invited EXCEPT ![area[c]] = @ \cup {c}]
    /\ UNCHANGED <<lock_mode, sessionVars, arup_locked>>

\* Every session of that ipid in the area, joined or not, AO or REST.
CmOtherCommand(c, i) ==
    LET targets == WithIpid(i) \cap sessions_in_area(area[c]) IN
    /\ c \in AOClients \cap Joined
    /\ require_cm(c)
    /\ cm_owners' = [cm_owners EXCEPT ![area[c]] = @ \cup targets]
    /\ UNCHANGED <<invited, lock_mode, sessionVars, arup_locked>>

UncmCommand(c) ==
    /\ c \in AOClients \cap Joined
    /\ is_cm(c, area[c])
    /\ cm_owners' = [cm_owners EXCEPT ![area[c]] = @ \ {c}]
    /\ UNCHANGED <<invited, lock_mode, sessionVars, arup_locked>>

UncmOtherCommand(c, i) ==
    /\ c \in AOClients \cap Joined
    /\ c \in moderators
    /\ cm_owners' = [cm_owners EXCEPT ![area[c]] = @ \ WithIpid(i)]
    /\ UNCHANGED <<invited, lock_mode, sessionVars, arup_locked>>

InviteCommand(c, i) ==
    /\ c \in AOClients \cap Joined
    /\ require_cm(c)
    /\ invited' = [invited EXCEPT ![area[c]] = @ \cup WithIpid(i)]
    /\ UNCHANGED <<cm_owners, lock_mode, sessionVars, arup_locked>>

UninviteCommand(c, i) ==
    /\ c \in AOClients \cap Joined
    /\ require_cm(c)
    /\ invited' = [invited EXCEPT ![area[c]] = @ \ WithIpid(i)]
    /\ UNCHANGED <<cm_owners, lock_mode, sessionVars, arup_locked>>

\* The lock commands share one shape: the mode, the invitations, ARUP_LOCKED.
SetLock(c, mode, guests) ==
    /\ c \in AOClients \cap Joined
    /\ require_cm(c)
    /\ lock_mode' = [lock_mode EXCEPT ![area[c]] = mode]
    /\ invited' = [invited EXCEPT ![area[c]] = guests]
    /\ UNCHANGED <<cm_owners, sessionVars>>
    /\ broadcast_locked

AreaLockCommand(c) ==
    SetLock(c, "LOCKED", invited[area[c]] \cup sessions_in_area(area[c]))

AreaSpectateCommand(c) ==
    SetLock(c, "SPECTATABLE", invited[area[c]] \cup sessions_in_area(area[c]))

AreaUnlockCommand(c) == SetLock(c, "FREE", {})

-----------------------------------------------------------------------------
SessionStep(c) ==
    \/ on_client_connected(c) \/ AOPacketHI(c) \/ AOPacketRD(c)
    \/ on_client_disconnected(c)
    \/ NXInsert(c) \/ NXFill(c) \/ NXDestroy(c)

MoveStep(c) ==
    \E a \in Areas : AOPacketMC(c, a) \/ AreaCommand(c, a) \/ AreaJoinEndpoint(c, a)

TargetedCommand(c) ==
    \E i \in IPIDs :
        \/ AreaKickCommand(c, i) \/ CmOtherCommand(c, i) \/ UncmOtherCommand(c, i)
        \/ InviteCommand(c, i) \/ UninviteCommand(c, i)

OwnCommand(c) ==
    \/ SetModerator(c) \/ CmCommand(c) \/ UncmCommand(c)
    \/ AreaLockCommand(c) \/ AreaSpectateCommand(c) \/ AreaUnlockCommand(c)

Next ==
    \E c \in Clients :
        SessionStep(c) \/ MoveStep(c) \/ TargetedCommand(c) \/ OwnCommand(c)

Spec == Init /\ [][Next]_vars
-----------------------------------------------------------------------------
(***************************************************************************)
(* A locked area is entered only by its case masters and its guests, by    *)
(* whatever door: MC, /area, the REST join or a kick.  The lobby also      *)
(* takes new sessions and whoever is kicked into it by someone who governs *)
(* the area left (can_enter, AreaKickCommand).                             *)
(***************************************************************************)
LockedEntry ==
    [][\A c \in Clients, a \in Areas :
        lock_mode[a] = "LOCKED" /\ area[c] # a /\ area'[c] = a =>
            \/ is_cm(c, a) \/ is_invited(c, a)
            \/ /\ a = Lobby
               /\ \/ area[c] = None
                  \/ \E d \in Joined : /\ area[d] = area[c]
                                       /\ d \in cm_owners[area[c]] \/ d \in moderators]_vars

(***************************************************************************)
(* The lock mode of an area changes only at the hand of a joined client in *)
(* it who is its case master or a moderator, or because its last case      *)
(* master left, which frees it (AreaLock commands, disconnection).         *)
(***************************************************************************)
LockAuthority ==
    [][\A a \in Areas : lock_mode'[a] # lock_mode[a] =>
        \/ \E d \in Joined \cap AOClients :
              area[d] = a /\ (d \in cm_owners[a] \/ d \in moderators)
        \/ \E d \in AOClients : /\ cm_owners[a] = {d}
                               /\ status'[d] = "left"
                               /\ lock_mode'[a] = "FREE"]_vars

(***************************************************************************)
(* Every AO client that has joined has been told the lock mode of every    *)
(* area: no change of a lock mode goes without its ARUP (broadcast_arup).  *)
(***************************************************************************)
LockAnnounced == \A c \in AOClients \cap Joined : arup_locked[c] = lock_mode

(***************************************************************************)
(* An AO client that joined and left governs no area, whoever made it case *)
(* master and wherever it went since (on_client_disconnected).             *)
(***************************************************************************)
OwnersLive ==
    \A c \in AOClients, a \in Areas : status[c] = "left" => c \notin cm_owners[a]

=============================================================================
