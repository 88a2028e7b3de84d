---------------------------- MODULE RoleAssigner ----------------------------
(* The role assigner of src/cyborg/roleAssigner.go. Discord's library runs a *)
(* goroutine for each event: a presence update looks under a read lock for  *)
(* the role of the game that is played and, still under the lock, queues a  *)
(* request to add it; the event that describes a guild replaces the roles   *)
(* under the write lock. One worker adds the roles. Close closes the queue, *)
(* and the session only after that (src/cyborg/cyborg.go).                  *)
EXTENDS Integers, Sequences

CONSTANTS
  Presences,         \* goroutines that handle presence updates, one after another
  Updaters,          \* goroutines that handle descriptions of guilds
  GuildIds, Games, Users,
  RoleIds,
  Names,             \* names of guilds and of roles
  humanRoleAssigns,  \* the configuration: which role for which game
  Descriptions,      \* what Discord says of guilds
  QueueCap,          \* capacity of addRolesChannel (100)
  NoRole, Nobody

AssignRoleOnGame == [guild : Names, game : Games, role : Names, exclude : SUBSET Users]
Guild == [id : GuildIds, name : Names, roles : Seq([name : Names, id : RoleIds])]

ASSUME RoleAssumption ==
  /\ GuildIds # {} /\ Games # {} /\ Users # {}
  /\ humanRoleAssigns \in Seq(AssignRoleOnGame)
  /\ Descriptions \subseteq Guild /\ Descriptions # {}
  /\ QueueCap \in Nat \ {0}
  /\ NoRole \notin RoleIds /\ Nobody \notin Updaters

VARIABLES
  discordAutoRoles,  \* guild -> game -> target, without role if it has no entry
  readers,           \* who holds the read lock
  pending,           \* who waits for the write lock, which stops new readers
  addRolesChannel,
  closed,            \* whether the channel is closed
  session,           \* whether events still come
  presence,          \* place and event of each presence handler
  update,            \* place and event of each guild handler
  worker             \* place of the worker

channel == <<addRolesChannel, closed>>
lock == <<readers, pending>>
vars == <<discordAutoRoles, lock, channel, session, presence, update, worker>>

TargetRole == [role : RoleIds \cup {NoRole}, exclude : SUBSET Users]
Event == [guild : GuildIds, game : Games, user : Users, held : SUBSET RoleIds]
Request == [guild : GuildIds, user : Users, role : RoleIds]

TypeOK ==
  /\ discordAutoRoles \in [GuildIds -> [Games -> TargetRole]]
  /\ readers \subseteq Presences /\ pending \in Updaters \cup {Nobody}
  /\ addRolesChannel \in Seq(Request) /\ Len(addRolesChannel) <= QueueCap
  /\ closed \in BOOLEAN /\ session \in BOOLEAN
  /\ presence \in [Presences ->
                     [at : {"idle", "lock", "check", "send", "panicked"},
                      event : Event, role : RoleIds \cup {NoRole}]]
  /\ update \in [Updaters ->
                   [at : {"idle", "lock", "locked"}, guild : Descriptions]]
  /\ worker \in {"new", "recv", "adding", "finished"}

NoTarget == [role |-> NoRole, exclude |-> {}]
SomeEvent == CHOOSE event \in Event : TRUE
SomeGuild == CHOOSE guild \in Descriptions : TRUE

\* Between two events a handler has no event.
NoPresence == [at |-> "idle", event |-> SomeEvent, role |-> NoRole]
NoUpdate == [at |-> "idle", guild |-> SomeGuild]

\* Connect has opened the session; no guild is known, and the worker does not
\* run yet.
Init ==
  /\ discordAutoRoles = [g \in GuildIds |-> [game \in Games |-> NoTarget]]
  /\ readers = {} /\ pending = Nobody
  /\ addRolesChannel = <<>> /\ closed = FALSE /\ session = TRUE
  /\ presence = [p \in Presences |-> NoPresence]
  /\ update = [u \in Updaters |-> NoUpdate]
  /\ worker = "new"

\* A panic in any goroutine ends the process.
Running == \A p \in Presences : presence[p].at # "panicked"

-----------------------------------------------------------------------------
(* onPresenceUpdate, for an event with a game; without one it returns.      *)

At(p, place) == Running /\ presence[p].at = place
Goto(p, place) == presence' = [presence EXCEPT ![p] = [@ EXCEPT !.at = place]]

PresenceUpdate(p, event) ==
  /\ session /\ At(p, "idle")
  /\ presence' = [presence EXCEPT ![p] = [at |-> "lock", event |-> event, role |-> NoRole]]
  /\ UNCHANGED <<discordAutoRoles, lock, channel, session, update, worker>>

RLock(p) ==
  /\ At(p, "lock") /\ Goto(p, "check")
  /\ pending = Nobody
  /\ readers' = readers \cup {p}
  /\ UNCHANGED <<discordAutoRoles, pending, channel, session, update, worker>>

Target(event) == discordAutoRoles[event.guild][event.game]

\* Whether the user is to be given the target role: there is one, the user is
\* not excluded and does not have it.
Wanted(event) ==
  /\ Target(event).role # NoRole
  /\ event.user \notin Target(event).exclude
  /\ Target(event).role \notin event.held

Want(p) ==
  LET event == presence[p].event
  IN  /\ At(p, "check") /\ Wanted(event)
      /\ presence' = [presence EXCEPT ![p] =
                        [at |-> "send", event |-> event, role |-> Target(event).role]]
      /\ UNCHANGED <<discordAutoRoles, lock, channel, session, update, worker>>

\* A mutant of RUnlock: the lock is kept.
RUnlockForgotten(p) == UNCHANGED readers /\ presence' = [presence EXCEPT ![p] = NoPresence]

\* The deferred unlock: the handler returns.
RUnlock(p) ==
  /\ readers' = readers \ {p}
  /\ presence' = [presence EXCEPT ![p] = NoPresence]

Pass(p) ==
  /\ At(p, "check") /\ ~Wanted(presence[p].event)
  /\ RUnlock(p)
  /\ UNCHANGED <<discordAutoRoles, pending, channel, session, update, worker>>

\* A mutant of HasRoom: one more than the capacity.
HasRoomForOneMore == Len(addRolesChannel) <= QueueCap

HasRoom == Len(addRolesChannel) < QueueCap

\* The send waits for room, with the lock in hand.
Send(p) ==
  LET event == presence[p].event
  IN  /\ At(p, "send") /\ ~closed /\ HasRoom
      /\ addRolesChannel' = Append(addRolesChannel,
           [guild |-> event.guild, user |-> event.user, role |-> presence[p].role])
      /\ RUnlock(p)
      /\ UNCHANGED <<discordAutoRoles, pending, closed, session, update, worker>>

\* A send on a closed channel, also one that was waiting when it was closed.
SendPanics(p) ==
  /\ At(p, "send") /\ closed
  /\ Goto(p, "panicked")
  /\ UNCHANGED <<discordAutoRoles, lock, channel, session, update, worker>>

onPresenceUpdate(p) == RLock(p) \/ Want(p) \/ Pass(p) \/ Send(p)

-----------------------------------------------------------------------------
(* updateGuildInfo: what the roles of the guild make of the configuration is *)
(* put in place under the write lock.                                       *)

\* The pairs of an entry of the configuration and a role of the guild that go
\* together by their names.
Matches(guild) ==
  {m \in (DOMAIN humanRoleAssigns) \X (DOMAIN guild.roles) :
     /\ humanRoleAssigns[m[1]].guild = guild.name
     /\ humanRoleAssigns[m[1]].role = guild.roles[m[2]].name}

\* For each game the last pair counts, in the order of the configuration.
AssignMap(guild) ==
  [game \in Games |->
     LET found == {m \in Matches(guild) : humanRoleAssigns[m[1]].game = game}
         last == CHOOSE m \in found :
                   \A o \in found : o[1] < m[1] \/ (o[1] = m[1] /\ o[2] <= m[2])
     IN  IF found = {} THEN NoTarget
         ELSE [role |-> guild.roles[last[2]].id,
               exclude |-> humanRoleAssigns[last[1]].exclude]]

GuildCreate(u, guild) ==
  /\ Running /\ session /\ update[u].at = "idle"
  /\ update' = [update EXCEPT ![u] = [at |-> "lock", guild |-> guild]]
  /\ UNCHANGED <<discordAutoRoles, lock, channel, session, presence, worker>>

\* The lock is announced, ...
Lock(u) ==
  /\ Running /\ update[u].at = "lock" /\ pending = Nobody
  /\ pending' = u
  /\ update' = [update EXCEPT ![u] = [@ EXCEPT !.at = "locked"]]
  /\ UNCHANGED <<discordAutoRoles, readers, channel, session, presence, worker>>

\* A mutant of WriteLocked: the readers are not waited for.
WriteLockedAtOnce(u) == pending = u

WriteLocked(u) == pending = u /\ readers = {}

\* ... and is there once the readers have left. A guild without targets is
\* deleted from the map.
SetRoles(u) ==
  /\ Running /\ update[u].at = "locked" /\ WriteLocked(u)
  /\ discordAutoRoles' = [discordAutoRoles EXCEPT
                             ![update[u].guild.id] = AssignMap(update[u].guild)]
  /\ pending' = Nobody
  /\ update' = [update EXCEPT ![u] = NoUpdate]
  /\ UNCHANGED <<readers, channel, session, presence, worker>>

updateGuildInfo(u) == Lock(u) \/ SetRoles(u)

-----------------------------------------------------------------------------
(* handleOutgoingRoleAdd and Close.                                         *)

start ==
  /\ Running /\ worker = "new" /\ worker' = "recv"
  /\ UNCHANGED <<discordAutoRoles, lock, channel, session, presence, update>>

Receive ==
  /\ Running /\ worker = "recv" /\ addRolesChannel # <<>>
  /\ addRolesChannel' = Tail(addRolesChannel)
  /\ worker' = "adding"
  /\ UNCHANGED <<discordAutoRoles, lock, closed, session, presence, update>>

\* A mutant of GuildMemberRoleAdd: a refusal ends the worker.
GuildMemberRoleAddOrLeave ==
  /\ Running /\ worker = "adding"
  /\ worker' \in {"recv", "finished"}
  /\ UNCHANGED <<discordAutoRoles, lock, channel, session, presence, update>>

\* Discord adds the role or refuses, which is only logged.
GuildMemberRoleAdd ==
  /\ Running /\ worker = "adding"
  /\ worker' = "recv"
  /\ UNCHANGED <<discordAutoRoles, lock, channel, session, presence, update>>

Finish ==
  /\ Running /\ worker = "recv" /\ closed /\ addRolesChannel = <<>>
  /\ worker' = "finished"
  /\ UNCHANGED <<discordAutoRoles, lock, channel, session, presence, update>>

handleOutgoingRoleAdd == Receive \/ GuildMemberRoleAdd \/ Finish

close ==
  /\ Running /\ worker # "new"
  /\ ~closed /\ closed' = TRUE
  /\ UNCHANGED <<discordAutoRoles, lock, addRolesChannel, session, presence, update, worker>>

CloseSession ==
  /\ Running /\ closed /\ session /\ session' = FALSE
  /\ UNCHANGED <<discordAutoRoles, lock, channel, presence, update, worker>>

Next ==
  \/ \E p \in Presences :
       (\E event \in Event : PresenceUpdate(p, event)) \/ onPresenceUpdate(p) \/ SendPanics(p)
  \/ \E u \in Updaters :
       (\E guild \in Descriptions : GuildCreate(u, guild)) \/ updateGuildInfo(u)
  \/ start \/ handleOutgoingRoleAdd
  \/ close \/ CloseSession

Spec == Init /\ [][Next]_vars

(* Goroutines run; the library's HTTP client ends every call to Discord; the *)
(* lock and the channel serve those who wait in turn.                       *)
FairSpec ==
  /\ Spec
  /\ \A p \in Presences :
       WF_vars(Want(p) \/ Pass(p)) /\ SF_vars(RLock(p)) /\ SF_vars(Send(p))
  /\ \A u \in Updaters : SF_vars(Lock(u)) /\ WF_vars(SetRoles(u))
  /\ WF_vars(start) /\ WF_vars(handleOutgoingRoleAdd)

-----------------------------------------------------------------------------

(* A role is asked for only while it is the one that the guild's roles call *)
(* for: from the look at the map to the send, however long it waits for     *)
(* room, no description of the guild comes between                          *)
(* (roleAssigner.go:102-135).                                               *)
RequestsAreCurrent ==
  \A p \in Presences :
    presence[p].at = "send" =>
      /\ presence[p].role = Target(presence[p].event).role
      /\ Wanted(presence[p].event)

(* As long as the bot is not closed every presence update is dealt with,    *)
(* although it may wait for the queue under the lock: the worker needs no   *)
(* lock to make room (roleAssigner.go:78-95 and 135).                       *)
PresencesReturn ==
  \A p \in Presences : presence[p].at # "idle" ~> presence[p].at = "idle" \/ closed

(* And so is every description of a guild, behind presence updates that     *)
(* wait for the queue (roleAssigner.go:66).                                 *)
UpdatesReturn ==
  \A u \in Updaters : update[u].at # "idle" ~> update[u].at = "idle" \/ closed

(* Closing the bot is clean (cyborgRun.go:97): it ends no goroutine with a  *)
(* panic.                                                                   *)
CloseIsClean == Running
=============================================================================
