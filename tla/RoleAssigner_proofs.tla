------------------------ MODULE RoleAssigner_proofs ------------------------
(* Whatever the numbers of handlers, guilds and roles and the capacity of   *)
(* the queue, a role is asked for only while the guild's roles call for it. *)
EXTENDS RoleAssigner, TLAPS, WellFoundedInduction

\* A handler past RLock is among the readers.
LookersHoldLock ==
  \A p \in Presences : presence[p].at \in {"check", "send"} => p \in readers

\* What presence is, as far as the steps of a handler rely on it.
IsPresence(f) ==
  f = [p \in Presences |-> [at |-> f[p].at, event |-> f[p].event, role |-> f[p].role]]

IInv == IsPresence(presence) /\ LookersHoldLock /\ RequestsAreCurrent

LEMMA InitEstablishes == Init => IInv
BY DEF Init, NoPresence, IInv, IsPresence, LookersHoldLock, RequestsAreCurrent

\* A step that leaves the handlers, their lock and the roles alone.
LEMMA OthersPreserve ==
  ASSUME IInv, UNCHANGED <<presence, readers, discordAutoRoles>>
  PROVE  IInv'
BY DEF IInv, IsPresence, LookersHoldLock, RequestsAreCurrent, Wanted, Target

\* A handler moves to a place where it asks for nothing.
LEMMA MovesPreserve ==
  ASSUME IInv, UNCHANGED discordAutoRoles, NEW p \in Presences,
         NEW place, place # "send", NEW event, NEW role,
         presence' = [presence EXCEPT ![p] = [at |-> place, event |-> event, role |-> role]],
         readers \ {p} \subseteq readers',
         place = "check" => p \in readers'
  PROVE  IInv'
<1>1. IsPresence(presence)'
  BY DEF IInv, IsPresence
<1>2. presence'[p].at = place
  BY DEF IInv, IsPresence
<1>3. \A q \in Presences : q # p => presence'[q] = presence[q]
  BY DEF IInv, IsPresence
<1>4. LookersHoldLock'
  BY <1>2, <1>3 DEF IInv, LookersHoldLock
<1>5. RequestsAreCurrent'
  BY <1>2, <1>3 DEF IInv, RequestsAreCurrent, Wanted, Target
<1> QED  BY <1>1, <1>4, <1>5 DEF IInv

\* Goto changes the place alone.
LEMMA GotoKeepsEvent ==
  ASSUME IInv, NEW p \in Presences, NEW place, Goto(p, place)
  PROVE  presence' = [presence EXCEPT ![p] =
                        [at |-> place, event |-> presence[p].event, role |-> presence[p].role]]
<1>1. presence[p] = [at |-> presence[p].at, event |-> presence[p].event,
                     role |-> presence[p].role]
  BY DEF IInv, IsPresence
<1>2. [presence[p] EXCEPT !.at = place]
        = [at |-> place, event |-> presence[p].event, role |-> presence[p].role]
  BY <1>1
<1> QED  BY <1>2 DEF Goto

LEMMA ReturnPreserves ==
  ASSUME IInv, UNCHANGED discordAutoRoles, NEW p \in Presences, RUnlock(p)
  PROVE  IInv'
<1>1. /\ presence' = [presence EXCEPT ![p] = [at |-> "idle", event |-> SomeEvent, role |-> NoRole]]
      /\ readers \ {p} \subseteq readers' /\ "idle" # "send" /\ "idle" # "check"
  BY DEF RUnlock, NoPresence
<1> QED  BY <1>1, MovesPreserve

LEMMA NextPreserves == IInv /\ [Next]_vars => IInv'
<1> SUFFICES ASSUME IInv, [Next]_vars PROVE IInv'
  OBVIOUS
<1>1. ASSUME NEW p \in Presences, NEW event \in Event, PresenceUpdate(p, event) PROVE IInv'
  <2>1. readers' = readers /\ discordAutoRoles' = discordAutoRoles
    BY <1>1 DEF PresenceUpdate, lock
  <2>2. presence' = [presence EXCEPT ![p] = [at |-> "lock", event |-> event, role |-> NoRole]]
    BY <1>1 DEF PresenceUpdate
  <2>3. /\ "lock" # "send" /\ "lock" # "check"
        /\ readers \ {p} \subseteq readers' /\ UNCHANGED discordAutoRoles
    BY <2>1
  <2> QED  BY <2>2, <2>3, MovesPreserve
<1>2. ASSUME NEW p \in Presences, RLock(p) PROVE IInv'
  <2>1. readers' = readers \cup {p} /\ discordAutoRoles' = discordAutoRoles /\ Goto(p, "check")
    BY <1>2 DEF RLock
  <2>2. readers \ {p} \subseteq readers' /\ p \in readers'
    BY <2>1
  <2>3. presence' = [presence EXCEPT ![p] =
                       [at |-> "check", event |-> presence[p].event, role |-> presence[p].role]]
    BY <2>1, GotoKeepsEvent
  <2> QED  BY <2>1, <2>2, <2>3, MovesPreserve
<1>3. ASSUME NEW p \in Presences, Want(p) PROVE IInv'
  <2>1. /\ presence[p].at = "check" /\ Wanted(presence[p].event)
        /\ readers' = readers /\ discordAutoRoles' = discordAutoRoles
        /\ presence' = [presence EXCEPT ![p] =
                          [at |-> "send", event |-> presence[p].event,
                           role |-> Target(presence[p].event).role]]
    BY <1>3 DEF Want, At, lock
  <2>2. IsPresence(presence)'
    BY <2>1 DEF IInv, IsPresence
  <2>3. /\ presence'[p].event = presence[p].event
        /\ presence'[p].role = Target(presence[p].event).role
    BY <2>1 DEF IInv, IsPresence
  <2>4. \A q \in Presences : q # p => presence'[q] = presence[q]
    BY <2>1 DEF IInv, IsPresence
  <2>5. LookersHoldLock'
    BY <2>1, <2>4 DEF IInv, LookersHoldLock
  <2>6. RequestsAreCurrent'
    BY <2>1, <2>3, <2>4 DEF IInv, RequestsAreCurrent, Wanted, Target
  <2> QED  BY <2>2, <2>5, <2>6 DEF IInv
<1>4. ASSUME NEW p \in Presences, Pass(p) PROVE IInv'
  <2>1. RUnlock(p) /\ discordAutoRoles' = discordAutoRoles
    BY <1>4 DEF Pass
  <2> QED  BY <2>1, ReturnPreserves
<1>5. ASSUME NEW p \in Presences, Send(p) PROVE IInv'
  <2>1. RUnlock(p) /\ discordAutoRoles' = discordAutoRoles
    BY <1>5 DEF Send
  <2> QED  BY <2>1, ReturnPreserves
<1>6. ASSUME NEW p \in Presences, SendPanics(p) PROVE IInv'
  <2>1. readers' = readers /\ discordAutoRoles' = discordAutoRoles /\ Goto(p, "panicked")
    BY <1>6 DEF SendPanics, lock
  <2> QED  BY <2>1, GotoKeepsEvent, MovesPreserve
<1>7. ASSUME NEW u \in Updaters, SetRoles(u) PROVE IInv'
  <2>1. readers = {} /\ readers' = readers /\ presence' = presence
    BY <1>7 DEF SetRoles, WriteLocked
  <2>2. \A p \in Presences : presence[p].at # "send"
    BY <2>1 DEF IInv, LookersHoldLock
  <2> QED  BY <2>1, <2>2 DEF IInv, IsPresence, LookersHoldLock, RequestsAreCurrent
<1>8. ASSUME NEW u \in Updaters, NEW guild \in Descriptions, GuildCreate(u, guild) PROVE IInv'
  BY <1>8, OthersPreserve DEF GuildCreate, lock
<1>9. ASSUME NEW u \in Updaters, Lock(u) PROVE IInv'
  BY <1>9, OthersPreserve DEF Lock
<1>10. CASE start \/ handleOutgoingRoleAdd
  BY <1>10, OthersPreserve
     DEF start, handleOutgoingRoleAdd, Receive, GuildMemberRoleAdd, Finish, lock
<1>11. CASE close \/ CloseSession
  BY <1>11, OthersPreserve DEF close, CloseSession, lock
<1>12. CASE UNCHANGED vars
  BY <1>12, OthersPreserve DEF vars, lock
<1> QED
  BY <1>1, <1>2, <1>3, <1>4, <1>5, <1>6, <1>7, <1>8, <1>9, <1>10, <1>11, <1>12
     DEF Next, onPresenceUpdate, updateGuildInfo

-----------------------------------------------------------------------------
(* Types: the roles that a description calls for are roles of its guild.    *)

LEMMA LargestOfPart ==
  ASSUME NEW n \in Nat, NEW S, S \subseteq 1 .. n, S # {}
  PROVE  \E m \in S : \A k \in S : k <= m
<1> DEFINE T == {n - k : k \in S}
<1>1. T \subseteq Nat /\ T # {}
  <2>1. \A k \in S : n - k \in Nat
    OBVIOUS
  <2>2. PICK k \in S : n - k \in T
    OBVIOUS
  <2> QED  BY <2>1, <2>2
<1>2. PICK t \in T : \A u \in T : ~(<<u, t>> \in OpToRel(<, Nat))
  BY <1>1, WFMin, NatLessThanWellFounded
<1>3. ASSUME NEW u \in T PROVE ~(u < t)
  <2>1. u \in Nat /\ t \in Nat
    BY <1>1
  <2>2. u < t => <<u, t>> \in OpToRel(<, Nat)
    BY <2>1, Zenon DEF OpToRel
  <2> QED  BY <1>2, <2>2
<1>4. PICK m \in S : t = n - m
  OBVIOUS
<1>5. ASSUME NEW k \in S PROVE k <= m
  <2>1. n - k \in T /\ k \in Nat /\ m \in Nat
    OBVIOUS
  <2> QED  BY <1>3, <1>4, <2>1
<1> QED  BY <1>5

\* Of the pairs of a game there is a last one.
LEMMA LastPair ==
  ASSUME NEW n \in Nat, NEW k \in Nat, NEW S, S \subseteq (1 .. n) \X (1 .. k), S # {}
  PROVE  \E m \in S : \A o \in S : o[1] < m[1] \/ (o[1] = m[1] /\ o[2] <= m[2])
<1> DEFINE First == {m[1] : m \in S}
<1>1. First \subseteq 1 .. n /\ First # {}
  OBVIOUS
<1>2. PICK a \in First : \A b \in First : b <= a
  BY <1>1, LargestOfPart
<1> DEFINE Second == {m[2] : m \in {m \in S : m[1] = a}}
<1>3. Second \subseteq 1 .. k /\ Second # {}
  OBVIOUS
<1>4. PICK c \in Second : \A d \in Second : d <= c
  BY <1>3, LargestOfPart
<1>5. PICK m \in S : m[1] = a /\ m[2] = c
  OBVIOUS
<1>6. ASSUME NEW o \in S PROVE o[1] < m[1] \/ (o[1] = m[1] /\ o[2] <= m[2])
  <2>1. o[1] \in First /\ o[1] \in Nat /\ m[1] \in Nat
    BY <1>1
  <2>2. o[1] <= m[1]
    BY <1>2, <1>5, <2>1
  <2>3. o[1] = m[1] => o[2] \in Second
    BY <1>5
  <2> QED  BY <1>4, <1>5, <2>1, <2>2, <2>3
<1> QED  BY <1>6

LEMMA ElementOf ==
  ASSUME NEW S, NEW s \in Seq(S), NEW i \in DOMAIN s
  PROVE  s[i] \in S
OBVIOUS

LEMMA AssignMapType ==
  ASSUME NEW guild \in Descriptions
  PROVE  AssignMap(guild) \in [Games -> TargetRole]
<1>1. guild \in Guild /\ guild.roles \in Seq([name : Names, id : RoleIds])
  BY RoleAssumption DEF Guild
<1>2. humanRoleAssigns \in Seq(AssignRoleOnGame)
  BY RoleAssumption
<1>3. NoTarget \in TargetRole
  BY DEF NoTarget, TargetRole
<1> DEFINE found(game) == {m \in Matches(guild) : humanRoleAssigns[m[1]].game = game}
           IsLast(game, m) == \A o \in found(game) : o[1] < m[1] \/ (o[1] = m[1] /\ o[2] <= m[2])
           last(game) == CHOOSE m \in found(game) : IsLast(game, m)
           TargetOf(game) ==
             IF found(game) = {} THEN NoTarget
             ELSE [role |-> guild.roles[last(game)[2]].id,
                   exclude |-> humanRoleAssigns[last(game)[1]].exclude]
<1>4. ASSUME NEW game \in Games, found(game) # {}
      PROVE  last(game) \in found(game)
  <2>1. found(game) \subseteq (1 .. Len(humanRoleAssigns)) \X (1 .. Len(guild.roles))
    BY <1>1, <1>2 DEF Matches
  <2>2. Len(humanRoleAssigns) \in Nat /\ Len(guild.roles) \in Nat
    BY <1>1, <1>2
  <2>3. \E m \in found(game) : IsLast(game, m)
    BY <1>4, <2>1, <2>2, LastPair
  <2> QED  BY <2>3
<1>5. ASSUME NEW game \in Games
      PROVE  TargetOf(game) \in TargetRole
  <2>1. CASE found(game) # {}
    <3>1. PICK m \in Matches(guild) : m = last(game)
      BY <1>4, <2>1
    <3> HIDE DEF last
    <3>2. m[1] \in DOMAIN humanRoleAssigns /\ m[2] \in DOMAIN guild.roles
      BY DEF Matches
    <3>3. humanRoleAssigns[m[1]] \in AssignRoleOnGame
      BY <1>2, <3>2
    <3>4. guild.roles[m[2]] \in [name : Names, id : RoleIds]
      BY <1>1, <3>2, ElementOf, Zenon
    <3>5. /\ guild.roles[m[2]].id \in RoleIds
          /\ humanRoleAssigns[m[1]].exclude \in SUBSET Users
      BY <3>3, <3>4 DEF AssignRoleOnGame
    <3> HIDE DEF found
    <3> QED  BY <2>1, <3>1, <3>5 DEF TargetRole
  <2> QED  BY <1>3, <2>1
<1>6. AssignMap(guild) = [game \in Games |-> TargetOf(game)]
  BY DEF AssignMap
<1> QED  BY <1>5, <1>6

LEMMA NothingHasType ==
  /\ SomeEvent \in Event /\ SomeGuild \in Descriptions
  /\ NoPresence \in [at : {"idle", "lock", "check", "send", "panicked"},
                     event : Event, role : RoleIds \cup {NoRole}]
  /\ NoUpdate \in [at : {"idle", "lock", "locked"}, guild : Descriptions]
<1>1. PICK g \in GuildIds, game \in Games, user \in Users : TRUE
  BY RoleAssumption
<1>2. [guild |-> g, game |-> game, user |-> user, held |-> {}] \in Event
  BY DEF Event
<1>3. SomeEvent \in Event /\ SomeGuild \in Descriptions
  BY <1>2, RoleAssumption DEF SomeEvent, SomeGuild
<1> QED  BY <1>3 DEF NoPresence, NoUpdate

PlacesOfPresence == {"idle", "lock", "check", "send", "panicked"}
PresenceRecord == [at : PlacesOfPresence, event : Event, role : RoleIds \cup {NoRole}]
UpdateRecord == [at : {"idle", "lock", "locked"}, guild : Descriptions]

LEMMA InitTyped == Init => TypeOK
<1> SUFFICES ASSUME Init PROVE TypeOK
  OBVIOUS
<1>1. NoTarget \in TargetRole
  BY DEF NoTarget, TargetRole
<1>2. discordAutoRoles \in [GuildIds -> [Games -> TargetRole]]
  BY <1>1 DEF Init
<1>3. presence \in [Presences -> PresenceRecord] /\ update \in [Updaters -> UpdateRecord]
  BY NothingHasType DEF Init, PresenceRecord, PlacesOfPresence, UpdateRecord
<1>4. addRolesChannel \in Seq(Request) /\ Len(addRolesChannel) <= QueueCap
  BY RoleAssumption DEF Init
<1> QED
  BY <1>2, <1>3, <1>4 DEF Init, TypeOK, PresenceRecord, PlacesOfPresence, UpdateRecord

\* What a presence handler that moves changes: itself, and its place among the readers.
LEMMA PresenceTyped ==
  ASSUME TypeOK, NEW p \in Presences, NEW r \in PresenceRecord,
         presence' = [presence EXCEPT ![p] = r], readers' \subseteq readers \cup {p},
         UNCHANGED <<discordAutoRoles, pending, closed, session, update, worker>>,
         addRolesChannel' \in Seq(Request), Len(addRolesChannel') <= QueueCap
  PROVE  TypeOK'
<1>1. presence' \in [Presences -> PresenceRecord]
  BY DEF TypeOK, PresenceRecord, PlacesOfPresence
<1> QED
  BY <1>1 DEF TypeOK, PresenceRecord, PlacesOfPresence

LEMMA PresenceMovesTyped ==
  ASSUME TypeOK, IInv, NEW p \in Presences,
         \/ \E event \in Event : PresenceUpdate(p, event)
         \/ onPresenceUpdate(p) \/ SendPanics(p)
  PROVE  TypeOK'
<1>1. /\ presence[p] \in PresenceRecord /\ presence[p].event \in Event
      /\ addRolesChannel \in Seq(Request) /\ Len(addRolesChannel) <= QueueCap
  BY DEF TypeOK, PresenceRecord, PlacesOfPresence
<1>2. NoPresence \in PresenceRecord
  BY NothingHasType DEF PresenceRecord, PlacesOfPresence
<1>3. Target(presence[p].event) \in TargetRole
  <2>1. presence[p].event.guild \in GuildIds /\ presence[p].event.game \in Games
    BY <1>1 DEF Event
  <2> QED  BY <2>1 DEF TypeOK, Target
<1>4. ASSUME NEW event \in Event, PresenceUpdate(p, event) PROVE TypeOK'
  <2>1. PICK r : r = [at |-> "lock", event |-> event, role |-> NoRole]
    OBVIOUS
  <2>2. r \in PresenceRecord
    BY <2>1 DEF PresenceRecord, PlacesOfPresence
  <2> QED  BY <1>1, <1>4, <2>1, <2>2, PresenceTyped DEF PresenceUpdate, lock, channel
<1>5. CASE RLock(p) \/ SendPanics(p)
  <2>1. PICK place \in PlacesOfPresence : Goto(p, place)
    BY <1>5 DEF RLock, SendPanics, PlacesOfPresence
  <2>2. PICK r : r = [presence[p] EXCEPT !.at = place]
    OBVIOUS
  <2>3. r \in PresenceRecord
    BY <1>1, <2>2 DEF PresenceRecord
  <2>4. presence' = [presence EXCEPT ![p] = r]
    BY <2>1, <2>2 DEF Goto
  <2>5. readers' \subseteq readers \cup {p}
    BY <1>5 DEF RLock, SendPanics, lock
  <2> QED  BY <1>1, <1>5, <2>3, <2>4, <2>5, PresenceTyped DEF RLock, SendPanics, lock, channel
<1>6. CASE Want(p)
  <2>1. PICK r : r = [at |-> "send", event |-> presence[p].event,
                      role |-> Target(presence[p].event).role]
    OBVIOUS
  <2>2. r \in PresenceRecord
    BY <1>1, <1>3, <2>1 DEF PresenceRecord, PlacesOfPresence, TargetRole
  <2> QED  BY <1>1, <1>6, <2>1, <2>2, PresenceTyped DEF Want, lock, channel
<1>7. CASE Pass(p)
  BY <1>1, <1>2, <1>7, PresenceTyped DEF Pass, RUnlock, channel
<1>8. CASE Send(p)
  <2> DEFINE request == [guild |-> presence[p].event.guild, user |-> presence[p].event.user,
                         role |-> presence[p].role]
  <2>1. /\ presence[p].at = "send"
        /\ addRolesChannel' = Append(addRolesChannel, request)
        /\ Len(addRolesChannel) < QueueCap
    BY <1>8 DEF Send, At, HasRoom
  <2>2. /\ presence[p].role = Target(presence[p].event).role
        /\ Target(presence[p].event).role # NoRole
    BY <2>1 DEF IInv, RequestsAreCurrent, Wanted
  <2>3. request \in Request
    BY <1>1, <1>3, <2>2 DEF Request, Event, TargetRole
  <2> HIDE DEF request
  <2>4. addRolesChannel' \in Seq(Request) /\ Len(addRolesChannel') <= QueueCap
    BY <1>1, <2>1, <2>3, RoleAssumption
  <2> QED  BY <1>2, <1>8, <2>4, PresenceTyped DEF Send, RUnlock
<1> QED
  BY <1>4, <1>5, <1>6, <1>7, <1>8 DEF onPresenceUpdate

\* A guild handler moves to another place.
LEMMA UpdateTyped ==
  ASSUME TypeOK, NEW u \in Updaters, NEW r \in UpdateRecord,
         update' = [update EXCEPT ![u] = r], pending' \in Updaters \cup {Nobody},
         discordAutoRoles' \in [GuildIds -> [Games -> TargetRole]],
         UNCHANGED <<readers, channel, session, presence, worker>>
  PROVE  TypeOK'
<1>1. update' \in [Updaters -> UpdateRecord]
  BY DEF TypeOK, UpdateRecord
<1> QED
  BY <1>1 DEF TypeOK, UpdateRecord, channel

LEMMA UpdateMovesTyped ==
  ASSUME TypeOK, NEW u \in Updaters,
         (\E guild \in Descriptions : GuildCreate(u, guild)) \/ updateGuildInfo(u)
  PROVE  TypeOK'
<1>1. /\ update[u] \in UpdateRecord /\ update[u].guild \in Descriptions
      /\ pending \in Updaters \cup {Nobody}
      /\ discordAutoRoles \in [GuildIds -> [Games -> TargetRole]]
  BY DEF TypeOK, UpdateRecord
<1>2. ASSUME NEW guild \in Descriptions, GuildCreate(u, guild) PROVE TypeOK'
  <2>1. PICK r : r = [at |-> "lock", guild |-> guild]
    OBVIOUS
  <2>2. r \in UpdateRecord
    BY <2>1 DEF UpdateRecord
  <2> QED  BY <1>1, <1>2, <2>1, <2>2, UpdateTyped DEF GuildCreate, lock
<1>3. CASE Lock(u)
  <2>1. PICK r : r = [update[u] EXCEPT !.at = "locked"] /\ update' = [update EXCEPT ![u] = r]
    BY <1>3 DEF Lock
  <2>2. r \in UpdateRecord
    BY <1>1, <2>1 DEF UpdateRecord
  <2> QED  BY <1>1, <1>3, <2>1, <2>2, UpdateTyped DEF Lock
<1>4. CASE SetRoles(u)
  <2>1. AssignMap(update[u].guild) \in [Games -> TargetRole]
    BY <1>1, AssignMapType
  <2>2. update[u].guild.id \in GuildIds
    BY <1>1, RoleAssumption DEF Guild
  <2>3. discordAutoRoles' \in [GuildIds -> [Games -> TargetRole]]
    BY <1>1, <1>4, <2>1, <2>2 DEF SetRoles
  <2>4. NoUpdate \in UpdateRecord
    BY NothingHasType DEF UpdateRecord
  <2> QED  BY <1>1, <1>4, <2>3, <2>4, UpdateTyped DEF SetRoles
<1> QED
  BY <1>2, <1>3, <1>4 DEF updateGuildInfo

LEMMA NextTyped == TypeOK /\ IInv /\ [Next]_vars => TypeOK'
<1> SUFFICES ASSUME TypeOK, IInv, [Next]_vars PROVE TypeOK'
  OBVIOUS
<1>1. CASE start \/ GuildMemberRoleAdd \/ Finish
  BY <1>1 DEF start, GuildMemberRoleAdd, Finish, TypeOK, lock, channel
<1>2. CASE Receive
  <2>1. addRolesChannel \in Seq(Request) /\ addRolesChannel # <<>> /\ Len(addRolesChannel) <= QueueCap
    BY <1>2 DEF Receive, TypeOK
  <2>2. Tail(addRolesChannel) \in Seq(Request) /\ Len(Tail(addRolesChannel)) <= QueueCap
    BY <2>1, RoleAssumption
  <2> QED  BY <1>2, <2>2 DEF Receive, TypeOK, lock
<1>3. CASE close \/ CloseSession
  BY <1>3 DEF close, CloseSession, TypeOK, lock, channel
<1>4. CASE UNCHANGED vars
  BY <1>4 DEF vars, TypeOK, lock, channel
<1> QED
  BY <1>1, <1>2, <1>3, <1>4, PresenceMovesTyped, UpdateMovesTyped DEF Next, handleOutgoingRoleAdd

-----------------------------------------------------------------------------
(* The theorems.                                                            *)

(* Types, for any configuration and any descriptions of guilds: the queue   *)
(* never holds more than it can, and what is queued is always a role, which *)
(* it is because the target cannot be taken away in between                 *)
(* (roleAssigner.go:66-95 and 102-135).                                     *)
THEOREM RoleTypes == Spec => []TypeOK
<1>1. Init => TypeOK /\ IInv  BY InitTyped, InitEstablishes
<1>2. TypeOK /\ IInv /\ [Next]_vars => (TypeOK /\ IInv)'  BY NextTyped, NextPreserves
<1> QED  BY <1>1, <1>2, PTL DEF Spec

(* For any number of handlers and any capacity, a handler that waits to send *)
(* its request asks for the role the guild's roles call for, however long it *)
(* waits (roleAssigner.go:102-135): it waits with the read lock in hand, and *)
(* the roles change only when nobody has it.                                *)
THEOREM NoStaleRequest == Spec => []RequestsAreCurrent
<1>1. Init => IInv  BY InitEstablishes
<1>2. IInv /\ [Next]_vars => IInv'  BY NextPreserves
<1>3. IInv => RequestsAreCurrent  BY DEF IInv
<1> QED  BY <1>1, <1>2, <1>3, PTL DEF Spec

-----------------------------------------------------------------------------
(* Nobody waits for ever on the lock and the queue together, as far as that *)
(* is a matter of states: not all wait for one another.                     *)

Place == [p \in Presences |-> presence[p].at]
UpdatePlace == [u \in Updaters |-> update[u].at]

\* The lock is held by those whose place says so, and by no one else.
LockIsHeld ==
  /\ \A p \in Presences : p \in readers <=> Place[p] \in {"check", "send", "panicked"}
  /\ \A u \in Updaters : pending = u <=> UpdatePlace[u] = "locked"
  /\ worker = "finished" => closed
  /\ \A p \in Presences : Place[p] = "panicked" => closed

\* Somebody can go on: a handler that gets its lock, or has it and need not wait for
\* room, or the worker, which makes room.
SomeoneGoesOn ==
  /\ Running
  /\ \/ \E p \in Presences :
          \/ At(p, "lock") /\ pending = Nobody
          \/ At(p, "check")
          \/ At(p, "send") /\ HasRoom
     \/ \E u \in Updaters :
          \/ update[u].at = "lock" /\ pending = Nobody
          \/ update[u].at = "locked" /\ WriteLocked(u)
     \/ worker \in {"new", "adding"} \/ (worker = "recv" /\ addRolesChannel # <<>>)

(* While the bot is not closed and a handler has not returned, somebody can *)
(* go on: no order of readers that wait for room, of writers behind them    *)
(* and of readers behind the writers stops all of them                      *)
(* (roleAssigner.go:66, 78-95, 102-135).                                    *)
NotAllWait ==
  /\ ~closed
  /\ \/ \E p \in Presences : presence[p].at # "idle"
     \/ \E u \in Updaters : update[u].at # "idle"
  => SomeoneGoesOn

LEMMA PlacesMove ==
  ASSUME TypeOK, NEW p \in Presences, NEW r, presence' = [presence EXCEPT ![p] = r]
  PROVE  Place' = [Place EXCEPT ![p] = r.at]
BY DEF TypeOK, Place

LEMMA GotoMoves ==
  ASSUME TypeOK, NEW p \in Presences, NEW place, Goto(p, place)
  PROVE  Place' = [Place EXCEPT ![p] = place]
<1>1. [presence[p] EXCEPT !.at = place].at = place
  BY DEF TypeOK
<1> QED  BY <1>1, PlacesMove DEF Goto

LEMMA UpdatePlacesMove ==
  ASSUME TypeOK, NEW u \in Updaters, NEW r, update' = [update EXCEPT ![u] = r]
  PROVE  UpdatePlace' = [UpdatePlace EXCEPT ![u] = r.at]
BY DEF TypeOK, UpdatePlace

LEMMA InitHeld == Init => LockIsHeld
BY RoleAssumption DEF Init, LockIsHeld, Place, UpdatePlace, NoPresence, NoUpdate

\* A handler of a presence update moves, and takes or leaves the lock as its place says.
LEMMA PresenceHeld ==
  ASSUME LockIsHeld, NEW p \in Presences, NEW place,
         Place' = [Place EXCEPT ![p] = place],
         \A q \in Presences \ {p} : q \in readers' <=> q \in readers,
         p \in readers' <=> place \in {"check", "send", "panicked"},
         place = "panicked" => closed,
         UNCHANGED <<pending, update, worker, closed>>
  PROVE  LockIsHeld'
<1>1. \A q \in Presences : Place'[q] = IF q = p THEN place ELSE Place[q]
  BY DEF Place
<1>2. UpdatePlace' = UpdatePlace
  BY DEF UpdatePlace
<1> QED  BY <1>1, <1>2 DEF LockIsHeld

LEMMA HeldByPresences ==
  ASSUME TypeOK, LockIsHeld, NEW p \in Presences,
         \/ \E event \in Event : PresenceUpdate(p, event)
         \/ onPresenceUpdate(p) \/ SendPanics(p)
  PROVE  LockIsHeld'
<1>1. Place[p] = presence[p].at
  BY DEF Place
<1>2. ASSUME NEW event \in Event, PresenceUpdate(p, event) PROVE LockIsHeld'
  <2>0. PICK r : r = [at |-> "lock", event |-> event, role |-> NoRole]
    OBVIOUS
  <2>1. Place' = [Place EXCEPT ![p] = "lock"]
    <3>1. r.at = "lock" /\ presence' = [presence EXCEPT ![p] = r]
      BY <1>2, <2>0 DEF PresenceUpdate
    <3> QED  BY <3>1, PlacesMove
  <2>2. presence[p].at = "idle" /\ UNCHANGED <<readers, pending, update, worker, closed>>
    BY <1>2 DEF PresenceUpdate, At, lock, channel
  <2> QED  BY <1>1, <2>1, <2>2, PresenceHeld DEF LockIsHeld
<1>3. CASE RLock(p)
  <2>1. Place' = [Place EXCEPT ![p] = "check"]
    BY <1>3, GotoMoves DEF RLock
  <2>2. readers' = readers \cup {p} /\ UNCHANGED <<pending, update, worker, closed>>
    BY <1>3 DEF RLock, channel
  <2> QED  BY <2>1, <2>2, PresenceHeld
<1>4. CASE Want(p)
  <2>0. PICK r : r = [at |-> "send", event |-> presence[p].event,
                      role |-> Target(presence[p].event).role]
    OBVIOUS
  <2>1. Place' = [Place EXCEPT ![p] = "send"]
    <3>1. r.at = "send" /\ presence' = [presence EXCEPT ![p] = r]
      BY <1>4, <2>0 DEF Want
    <3> QED  BY <3>1, PlacesMove
  <2>2. presence[p].at = "check" /\ UNCHANGED <<readers, pending, update, worker, closed>>
    BY <1>4 DEF Want, At, lock, channel
  <2> QED  BY <1>1, <2>1, <2>2, PresenceHeld DEF LockIsHeld
<1>5. CASE Pass(p) \/ Send(p)
  <2>1. Place' = [Place EXCEPT ![p] = "idle"]
    <3>1. NoPresence.at = "idle" /\ presence' = [presence EXCEPT ![p] = NoPresence]
      BY <1>5 DEF Pass, Send, RUnlock, NoPresence
    <3> QED  BY <3>1, PlacesMove
  <2>2. readers' = readers \ {p} /\ UNCHANGED <<pending, update, worker, closed>>
    BY <1>5 DEF Pass, Send, RUnlock, channel
  <2> QED  BY <2>1, <2>2, PresenceHeld
<1>6. CASE SendPanics(p)
  <2>1. Place' = [Place EXCEPT ![p] = "panicked"]
    BY <1>6, GotoMoves DEF SendPanics
  <2>2. presence[p].at = "send" /\ closed /\ UNCHANGED <<readers, pending, update, worker, closed>>
    BY <1>6 DEF SendPanics, At, lock, channel
  <2> QED  BY <1>1, <2>1, <2>2, PresenceHeld DEF LockIsHeld
<1> QED  BY <1>2, <1>3, <1>4, <1>5, <1>6 DEF onPresenceUpdate

LEMMA HeldByUpdaters ==
  ASSUME TypeOK, LockIsHeld, NEW u \in Updaters,
         (\E guild \in Descriptions : GuildCreate(u, guild)) \/ updateGuildInfo(u)
  PROVE  LockIsHeld'
<1>1. UpdatePlace[u] = update[u].at /\ Nobody \notin Updaters
  BY RoleAssumption DEF UpdatePlace
<1>2. UNCHANGED <<presence, readers, worker, closed>> /\ Place' = Place
  BY DEF GuildCreate, updateGuildInfo, Lock, SetRoles, lock, channel, Place
<1>3. ASSUME NEW place, UpdatePlace' = [UpdatePlace EXCEPT ![u] = place],
             \A v \in Updaters \ {u} : pending' = v <=> pending = v,
             pending' = u <=> place = "locked"
      PROVE  LockIsHeld'
  <2>1. \A v \in Updaters : UpdatePlace'[v] = IF v = u THEN place ELSE UpdatePlace[v]
    BY <1>3 DEF UpdatePlace
  <2> QED  BY <1>2, <1>3, <2>1 DEF LockIsHeld
<1>4. ASSUME NEW guild \in Descriptions, GuildCreate(u, guild) PROVE LockIsHeld'
  <2>0. PICK r : r = [at |-> "lock", guild |-> guild]
    OBVIOUS
  <2>1. UpdatePlace' = [UpdatePlace EXCEPT ![u] = "lock"]
    <3>1. r.at = "lock" /\ update' = [update EXCEPT ![u] = r]
      BY <1>4, <2>0 DEF GuildCreate
    <3> QED  BY <3>1, UpdatePlacesMove
  <2>2. update[u].at = "idle" /\ pending' = pending
    BY <1>4 DEF GuildCreate, lock
  <2> QED  BY <1>1, <1>3, <2>1, <2>2 DEF LockIsHeld
<1>5. CASE Lock(u)
  <2>1. [update[u] EXCEPT !.at = "locked"].at = "locked"
    BY DEF TypeOK
  <2>2. UpdatePlace' = [UpdatePlace EXCEPT ![u] = "locked"]
    BY <1>5, <2>1, UpdatePlacesMove DEF Lock
  <2>3. pending = Nobody /\ pending' = u
    BY <1>5 DEF Lock
  <2> QED  BY <1>1, <1>3, <2>2, <2>3
<1>6. CASE SetRoles(u)
  <2>1. UpdatePlace' = [UpdatePlace EXCEPT ![u] = "idle"]
    <3>1. NoUpdate.at = "idle" /\ update' = [update EXCEPT ![u] = NoUpdate]
      BY <1>6 DEF SetRoles, NoUpdate
    <3> QED  BY <3>1, UpdatePlacesMove
  <2>2. pending = u /\ pending' = Nobody
    BY <1>6 DEF SetRoles, WriteLocked
  <2> QED  BY <1>1, <1>3, <2>1, <2>2
<1> QED  BY <1>4, <1>5, <1>6 DEF updateGuildInfo

LEMMA NextHeld == TypeOK /\ LockIsHeld /\ [Next]_vars => LockIsHeld'
<1> SUFFICES ASSUME TypeOK, LockIsHeld, [Next]_vars PROVE LockIsHeld'
  OBVIOUS
<1>1. CASE start \/ handleOutgoingRoleAdd
  BY <1>1 DEF start, handleOutgoingRoleAdd, Receive, GuildMemberRoleAdd, Finish,
              LockIsHeld, Place, UpdatePlace, lock, channel
<1>2. CASE close \/ CloseSession
  BY <1>2 DEF close, CloseSession, LockIsHeld, Place, UpdatePlace, lock, channel
<1>3. CASE UNCHANGED vars
  BY <1>3 DEF vars, LockIsHeld, Place, UpdatePlace, lock, channel
<1> QED
  BY <1>1, <1>2, <1>3, HeldByPresences, HeldByUpdaters DEF Next

LEMMA HeldGoesOn == TypeOK /\ LockIsHeld => NotAllWait
<1> SUFFICES ASSUME TypeOK, LockIsHeld, ~closed,
                    \/ \E p \in Presences : presence[p].at # "idle"
                    \/ \E u \in Updaters : update[u].at # "idle"
             PROVE  SomeoneGoesOn
  BY DEF NotAllWait
<1>1. Running
  BY DEF LockIsHeld, Place, Running
<1>2. worker \in {"new", "recv", "adding"}
  BY DEF TypeOK, LockIsHeld
<1>3. SUFFICES ASSUME worker = "recv", addRolesChannel = <<>> PROVE SomeoneGoesOn
  BY <1>1, <1>2 DEF SomeoneGoesOn
<1>4. HasRoom
  BY <1>3, RoleAssumption DEF HasRoom
<1>5. SUFFICES ASSUME \A p \in Presences : presence[p].at \notin {"check", "send"}
               PROVE  SomeoneGoesOn
  BY <1>1, <1>4 DEF SomeoneGoesOn, At
<1>6. readers = {}
  BY <1>5 DEF LockIsHeld, TypeOK, Place
<1>7. CASE pending = Nobody
  <2>1. \A u \in Updaters : update[u].at # "locked"
    BY <1>7, RoleAssumption DEF LockIsHeld, UpdatePlace
  <2>2. CASE \E p \in Presences : presence[p].at # "idle"
    <3>1. PICK p \in Presences : presence[p].at # "idle"
      BY <2>2
    <3>2. presence[p].at \in {"idle", "lock", "check", "send", "panicked"}
      BY DEF TypeOK
    <3>3. presence[p].at = "lock"
      BY <3>1, <3>2, <1>1, <1>5 DEF Running
    <3> QED  BY <1>1, <1>7, <3>3 DEF SomeoneGoesOn, At
  <2>3. CASE \E u \in Updaters : update[u].at # "idle"
    <3>1. PICK u \in Updaters : update[u].at # "idle"
      BY <2>3
    <3>2. update[u].at \in {"idle", "lock", "locked"}
      BY DEF TypeOK
    <3> QED  BY <1>1, <1>7, <2>1, <3>1, <3>2 DEF SomeoneGoesOn
  <2> QED  BY <2>2, <2>3
<1>8. CASE pending # Nobody
  <2>1. pending \in Updaters
    BY <1>8 DEF TypeOK
  <2>2. update[pending].at = "locked" /\ WriteLocked(pending)
    BY <1>6, <2>1 DEF LockIsHeld, UpdatePlace, WriteLocked
  <2> QED  BY <1>1, <2>1, <2>2 DEF SomeoneGoesOn
<1> QED  BY <1>7, <1>8

(* The handlers and the worker never wait for one another all together, for *)
(* any number of handlers and any capacity of the queue: a reader that waits *)
(* for room waits for the worker, which needs no lock, a writer waits for   *)
(* readers that were there before it, and all others for this writer        *)
(* (roleAssigner.go:66, 78-95, 102-135).                                    *)
THEOREM NoDeadlock == Spec => []NotAllWait
<1>1. Init => LockIsHeld  BY InitHeld
<1>2. TypeOK /\ LockIsHeld /\ [Next]_vars => LockIsHeld'  BY NextHeld
<1>3. TypeOK /\ LockIsHeld => NotAllWait  BY HeldGoesOn
<1> QED  BY <1>1, <1>2, <1>3, RoleTypes, PTL DEF Spec
=============================================================================
