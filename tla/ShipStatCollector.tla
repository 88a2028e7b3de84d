------------------------- MODULE ShipStatCollector -------------------------
(* The statistics actor of src/eddb/ross.go: the goroutine processMessages  *)
(* owns systemsStat and is reached through three bounded channels, two for  *)
(* events (filled by the listener, which never waits) and one for commands  *)
(* (filled by callers, who wait for their turn and then for the answer).    *)
EXTENDS TimeVisitStat, FiniteSetsExt

CONSTANTS
  Systems, Stations,  \* star systems and station names, in upper case
  Position,           \* where a system lies: a place on a line stands for Coords
  Timemarks,          \* the time frames events are stamped with
  Callers,            \* goroutines that call Backup, Restore, Get..., Shutdown
  Commands,           \* the commands they send
  Forms,              \* the forms events come in
  historySize,        \* time frames kept per history
  QueueCap,           \* capacity of each of the three channels
  LineLimit,          \* visit records in the longest line bufio.Scanner reads
  DiskFails,          \* whether writing the backup file may fail
  EventsBound,        \* model bound: events received
  NoCaller, NoStats   \* model values: no request in hand, no backup to rely on

AllCommands == {"exit", "backup", "restore", "getSystemStat", "getActivityStat"}

\* StarPos with three coordinates, with fewer, or a body that is not JSON.
AllForms == {"good", "short", "garbled"}

ASSUME ShipStatAssumption ==
  /\ Position \in [Systems -> Int]
  /\ Timemarks \subseteq Int /\ IsFiniteSet(Timemarks)  \* they are int64
  /\ Commands \subseteq AllCommands /\ Commands # {}
  /\ Forms \subseteq AllForms
  /\ historySize \in Nat /\ QueueCap \in Nat /\ LineLimit \in Nat /\ EventsBound \in Nat
  /\ DiskFails \in BOOLEAN
  /\ NoCaller \notin Callers

VARIABLES
  fsdJump, docked, control,  \* the channels
  systemsStat,  \* map: system -> [SystemVisits, StationVisits]
  processMessages,  \* "select", "backup", "exited" or "panicked"
  serving,      \* the caller whose backup is being written, or NoCaller
  todo,         \* systems the running backup has yet to write
  file,         \* lines of the backup file, <<>> also when there is none
  fileExists,
  call,         \* what each caller is doing
  offered,      \* number of events received, for the bound only
  heard,        \* history variable: well-formed events counted
  saved         \* history variable: what the last complete backup holds

queues == <<fsdJump, docked, control>>
disk == <<file, fileExists, saved>>
actor == <<processMessages, serving, todo>>
vars == <<queues, systemsStat, actor, disk, call, offered, heard>>

-----------------------------------------------------------------------------

Visits == Seq([mark : Timemarks, count : Nat \ {0}])

\* Maps from some of the keys, with values the predicate holds of.
IsMap(m, keys, IsValue(_)) ==
  /\ DOMAIN m \subseteq keys
  /\ \A k \in DOMAIN m : IsValue(m[k])

IsSystemShipStat(stat) ==
  /\ DOMAIN stat = {"SystemVisits", "StationVisits"}
  /\ stat.SystemVisits \in Visits
  /\ IsMap(stat.StationVisits, Stations, LAMBDA v : v \in Visits)

IsSystemsStat(stats) == IsMap(stats, Systems, IsSystemShipStat)

Jump == [system : Systems, timemark : Timemarks, form : Forms]
Docking == [system : Systems, station : Stations, timemark : Timemarks, form : Forms]
Request == [caller : Callers, command : Commands]

IsLine(line) ==
  /\ DOMAIN line = {"system", "stat", "whole"}
  /\ line.system \in Systems /\ IsSystemShipStat(line.stat) /\ line.whole \in BOOLEAN

TypeOK ==
  /\ fsdJump \in Seq(Jump) /\ Len(fsdJump) <= QueueCap
  /\ docked \in Seq(Docking) /\ Len(docked) <= QueueCap
  /\ control \in Seq(Request) /\ Len(control) <= QueueCap
  /\ IsSystemsStat(systemsStat)
  /\ processMessages \in {"select", "backup", "exited", "panicked"}
  /\ serving \in Callers \cup {NoCaller}
  /\ todo \in SUBSET Systems
  /\ \A i \in DOMAIN file : IsLine(file[i])
  /\ fileExists \in BOOLEAN
  /\ call \in [Callers -> [at : {"idle", "sending", "waiting"},
                           command : Commands, ok : BOOLEAN]]
  /\ offered \in Nat
  /\ heard \in [jumps : Nat, docks : Nat]
  /\ saved = NoStats \/ IsSystemsStat(saved)

EmptyMap == [x \in {} |-> <<>>]

\* m[key] = value, on a Go map.
Put(m, key, value) == [x \in DOMAIN m \cup {key} |-> IF x = key THEN value ELSE m[x]]

\* NewShipStatCollector, in a process that finds no backup file.
Init ==
  /\ fsdJump = <<>> /\ docked = <<>> /\ control = <<>>
  /\ systemsStat = EmptyMap
  /\ processMessages = "select" /\ serving = NoCaller /\ todo = {}
  /\ file = <<>> /\ fileExists = FALSE
  /\ call = [c \in Callers |->
              [at |-> "idle", command |-> CHOOSE cmd \in Commands : TRUE, ok |-> TRUE]]
  /\ offered = 0
  /\ heard = [jumps |-> 0, docks |-> 0]
  /\ saved = NoStats

-----------------------------------------------------------------------------
(* The listener's side: an event that finds its channel full is dropped.    *)

Running == processMessages # "panicked"

NoteFSDJump(m) ==
  /\ Running /\ offered < EventsBound
  /\ offered' = offered + 1
  /\ fsdJump' = IF Len(fsdJump) < QueueCap THEN Append(fsdJump, m) ELSE fsdJump
  /\ UNCHANGED <<docked, control, systemsStat, actor, disk, call, heard>>

NoteDocked(m) ==
  /\ Running /\ offered < EventsBound
  /\ offered' = offered + 1
  /\ docked' = IF Len(docked) < QueueCap THEN Append(docked, m) ELSE docked
  /\ UNCHANGED <<fsdJump, control, systemsStat, actor, disk, call, heard>>

-----------------------------------------------------------------------------
(* The callers' side.                                                       *)

\* Backup, Restore, GetSystemVisitsStat, GetActivityStat, Shutdown: up to the
\* send on the control channel.
Call(c, cmd) ==
  /\ Running
  /\ call[c].at = "idle"
  /\ call' = [call EXCEPT ![c] = [@ EXCEPT !.at = "sending", !.command = cmd]]
  /\ UNCHANGED <<queues, systemsStat, actor, disk, offered, heard>>

\* The send itself, which blocks while the channel is full.
Send(c) ==
  /\ Running
  /\ call[c].at = "sending"
  /\ Len(control) < QueueCap
  /\ control' = Append(control, [caller |-> c, command |-> call[c].command])
  /\ call' = [call EXCEPT ![c].at = "waiting"]
  /\ UNCHANGED <<fsdJump, docked, systemsStat, actor, disk, offered, heard>>

\* m.result <- r and the caller's receive, a rendezvous.
Answer(c, result) == call' = [call EXCEPT ![c] = [@ EXCEPT !.at = "idle", !.ok = result]]

-----------------------------------------------------------------------------
(* Events.                                                                  *)

NewHistory == <<>>

NoteVisit(visits, timemark) == NoteVisitByTimemark(visits, timemark, historySize)

\* The map after a jump into a system: a system not seen before is added.
AfterJump(stats, m) ==
  LET known == m.system \in DOMAIN stats
      old == IF known THEN stats[m.system]
             ELSE [SystemVisits |-> NewHistory, StationVisits |-> EmptyMap]
  IN  Put(stats, m.system,
          [old EXCEPT !.SystemVisits = NoteVisit(@, m.timemark)])

\* A mutant of AfterDocking: a docking is a visit to a known system, too.
AfterDockingAlwaysVisits(stats, m) ==
  LET stats2 == AfterJump(stats, m)
      stations == stats2[m.system].StationVisits
      visits == IF m.station \in DOMAIN stations THEN stations[m.station] ELSE NewHistory
  IN  Put(stats2, m.system,
          [stats2[m.system] EXCEPT
             !.StationVisits = Put(@, m.station, NoteVisit(visits, m.timemark))])

\* The map after a docking: a system not seen before is added and the docking
\* counts as a visit to it, too.
AfterDocking(stats, m) ==
  LET known == m.system \in DOMAIN stats
      old == IF known THEN stats[m.system]
             ELSE [SystemVisits |-> NoteVisit(NewHistory, m.timemark),
                   StationVisits |-> EmptyMap]
      stations == old.StationVisits
      visits == IF m.station \in DOMAIN stations THEN stations[m.station] ELSE NewHistory
  IN  Put(stats, m.system,
          [old EXCEPT !.StationVisits = Put(@, m.station, NoteVisit(visits, m.timemark))])

\* StarPos[0], [1], [2] are read only for a system that is not known yet.
IndexOutOfRange(m) == m.form = "short" /\ m.system \notin DOMAIN systemsStat

\* A mutant of handleFSDJump: commands have priority.
handleFSDJumpAfterCommands ==
  /\ processMessages = "select" /\ fsdJump # <<>> /\ control = <<>>
  /\ fsdJump' = Tail(fsdJump)
  /\ systemsStat' = AfterJump(systemsStat, Head(fsdJump))
  /\ heard' = [heard EXCEPT !.jumps = @ + 1]
  /\ UNCHANGED <<docked, control, actor, disk, call, offered>>

handleFSDJump ==
  /\ processMessages = "select" /\ fsdJump # <<>>
  /\ fsdJump' = Tail(fsdJump)
  /\ LET m == Head(fsdJump) IN
       \/ /\ m.form = "garbled"
          /\ UNCHANGED <<systemsStat, processMessages, heard>>
       \/ /\ m.form # "garbled" /\ IndexOutOfRange(m)
          /\ processMessages' = "panicked"
          /\ UNCHANGED <<systemsStat, heard>>
       \/ /\ m.form # "garbled" /\ ~IndexOutOfRange(m)
          /\ systemsStat' = AfterJump(systemsStat, m)
          /\ heard' = [heard EXCEPT !.jumps = @ + 1]
          /\ UNCHANGED processMessages
  /\ UNCHANGED <<docked, control, serving, todo, disk, call, offered>>

handleDocked ==
  /\ processMessages = "select" /\ docked # <<>>
  /\ docked' = Tail(docked)
  /\ LET m == Head(docked) IN
       \/ /\ m.form = "garbled"
          /\ UNCHANGED <<systemsStat, processMessages, heard>>
       \/ /\ m.form # "garbled" /\ IndexOutOfRange(m)
          /\ processMessages' = "panicked"
          /\ UNCHANGED <<systemsStat, heard>>
       \/ /\ m.form # "garbled" /\ ~IndexOutOfRange(m)
          /\ systemsStat' = AfterDocking(systemsStat, m)
          /\ heard' = [heard EXCEPT !.docks = @ + 1]
          /\ UNCHANGED processMessages
  /\ UNCHANGED <<fsdJump, control, serving, todo, disk, call, offered>>

-----------------------------------------------------------------------------
(* The queries, as functions of the map.                                    *)

Distance(at, system) == IF at >= Position[system] THEN at - Position[system]
                        ELSE Position[system] - at

\* Systems at the limit of the range are counted here ...
getSystemVisitStat(stats, at, maxDistance) ==
  LET inRange == {s \in DOMAIN stats : Distance(at, s) <= maxDistance}
      stat == [s \in inRange |-> TotalVisits(stats[s].SystemVisits)]
  IN  [stat |-> stat, inRangeCount |-> SumFunction(stat)]

\* ... and not here.
getActivityStat(stats, at, maxDistance, ctf) ==
  LET inRange == {s \in DOMAIN stats : Distance(at, s) < maxDistance}
      Jumps(s, m) == CountAt(stats[s].SystemVisits, m)
      Docks(s, m) == LET stations == stats[s].StationVisits
                     IN  SumFunction([st \in DOMAIN stations |-> CountAt(stations[st], m)])
  IN  [m \in (ctf - historySize + 1) .. ctf |->
         [NumJumps |-> SumFunction([s \in inRange |-> Jumps(s, m)]),
          NumDocks |-> SumFunction([s \in inRange |-> Docks(s, m)])]]

-----------------------------------------------------------------------------
(* Commands.                                                                *)

NextCommandIs(cmd) ==
  processMessages = "select" /\ control # <<>> /\ Head(control).command = cmd

exit ==
  /\ NextCommandIs("exit")
  /\ control' = Tail(control)
  /\ processMessages' = "exited"
  /\ Answer(Head(control).caller, TRUE)
  /\ UNCHANGED <<fsdJump, docked, systemsStat, serving, todo, disk, offered, heard>>

\* A mutant of query: nobody is answered.
queryWithoutAnswer ==
  /\ NextCommandIs("getSystemStat") \/ NextCommandIs("getActivityStat")
  /\ control' = Tail(control)
  /\ UNCHANGED <<fsdJump, docked, systemsStat, actor, disk, call, offered, heard>>

\* cmd_getSystemStat and cmd_getActivityStat.
query ==
  /\ NextCommandIs("getSystemStat") \/ NextCommandIs("getActivityStat")
  /\ control' = Tail(control)
  /\ Answer(Head(control).caller, TRUE)
  /\ UNCHANGED <<fsdJump, docked, systemsStat, actor, disk, offered, heard>>

\* A mutant of backupCreate: the file is opened without being emptied.
backupCreateAppends ==
  /\ NextCommandIs("backup")
  /\ control' = Tail(control)
  /\ processMessages' = "backup"
  /\ serving' = Head(control).caller
  /\ todo' = DOMAIN systemsStat
  /\ fileExists' = TRUE /\ saved' = NoStats
  /\ UNCHANGED <<fsdJump, docked, systemsStat, call, file, offered, heard>>

\* performBackup: os.Create, which empties the file, ...
backupCreate ==
  /\ NextCommandIs("backup")
  /\ control' = Tail(control)
  /\ processMessages' = "backup"
  /\ serving' = Head(control).caller
  /\ todo' = DOMAIN systemsStat
  /\ file' = <<>> /\ fileExists' = TRUE /\ saved' = NoStats
  /\ UNCHANGED <<fsdJump, docked, systemsStat, call, offered, heard>>

\* ... or fails and leaves it as it was,
backupCreateFails ==
  /\ DiskFails
  /\ NextCommandIs("backup")
  /\ control' = Tail(control)
  /\ Answer(Head(control).caller, FALSE)
  /\ UNCHANGED <<fsdJump, docked, systemsStat, actor, disk, offered, heard>>

\* a line for each system, in the random order of a Go map,
encodeStat(s) ==
  /\ processMessages = "backup" /\ s \in todo
  /\ todo' = todo \ {s}
  /\ file' = Append(file, [system |-> s, stat |-> systemsStat[s], whole |-> TRUE])
  /\ UNCHANGED <<queues, systemsStat, processMessages, serving, fileExists, saved,
                 call, offered, heard>>

\* Mutants of encodeFails: the error is ignored, or nobody is told of it.
encodeFailsUnnoticed(s) ==
  /\ DiskFails
  /\ processMessages = "backup" /\ s \in todo
  /\ todo' = todo \ {s}
  /\ file' = Append(file, [system |-> s, stat |-> systemsStat[s], whole |-> FALSE])
  /\ UNCHANGED <<queues, systemsStat, processMessages, serving, fileExists, saved,
                 call, offered, heard>>
encodeFailsWithoutAnswer(s) ==
  /\ DiskFails
  /\ processMessages = "backup" /\ s \in todo
  /\ file' = Append(file, [system |-> s, stat |-> systemsStat[s], whole |-> FALSE])
  /\ processMessages' = "select" /\ serving' = NoCaller /\ todo' = {}
  /\ UNCHANGED <<queues, systemsStat, fileExists, saved, call, offered, heard>>

\* or a line that is cut off, after which the backup is given up,
encodeFails(s) ==
  /\ DiskFails
  /\ processMessages = "backup" /\ s \in todo
  /\ file' = Append(file, [system |-> s, stat |-> systemsStat[s], whole |-> FALSE])
  /\ processMessages' = "select" /\ serving' = NoCaller /\ todo' = {}
  /\ Answer(serving, FALSE)
  /\ UNCHANGED <<queues, systemsStat, fileExists, saved, offered, heard>>

\* and success once all are written.
backupDone ==
  /\ processMessages = "backup" /\ todo = {}
  /\ processMessages' = "select" /\ serving' = NoCaller
  /\ saved' = systemsStat
  /\ Answer(serving, TRUE)
  /\ UNCHANGED <<queues, systemsStat, todo, file, fileExists, offered, heard>>

\* The visit records of a line, which its length grows with.
LineSize(line) ==
  LET stations == line.stat.StationVisits
  IN  Len(line.stat.SystemVisits) + SumFunction([st \in DOMAIN stations |-> Len(stations[st])])

\* A mutant of Restored: the first line is taken for a heading.
RestoredWithoutFirst(lines) ==
  LET scanned == {i \in DOMAIN lines : \A j \in 1 .. i : LineSize(lines[j]) <= LineLimit}
      read == {i \in scanned : i > 1 /\ lines[i].whole}
      LineOf(s) == Max({i \in read : lines[i].system = s})
  IN  [s \in {lines[i].system : i \in read} |-> lines[LineOf(s)].stat]

\* Scan gives up at the first line that does not fit its buffer; Unmarshal
\* refuses a line that is cut off; of two lines for a system the later stays.
Restored(lines) ==
  LET scanned == {i \in DOMAIN lines : \A j \in 1 .. i : LineSize(lines[j]) <= LineLimit}
      read == {i \in scanned : lines[i].whole}
      LineOf(s) == Max({i \in read : lines[i].system = s})
  IN  [s \in {lines[i].system : i \in read} |-> lines[LineOf(s)].stat]

Jumps(stats) == SumFunction([s \in DOMAIN stats |-> TotalVisits(stats[s].SystemVisits)])
StationDocks(stations) == SumFunction([st \in DOMAIN stations |-> TotalVisits(stations[st])])
Docks(stats) == SumFunction([s \in DOMAIN stats |-> StationDocks(stats[s].StationVisits)])

performRestore ==
  /\ NextCommandIs("restore")
  /\ fileExists
  /\ control' = Tail(control)
  /\ systemsStat' = Restored(file)
  /\ heard' = [jumps |-> Jumps(systemsStat'), docks |-> Docks(systemsStat')]
  /\ Answer(Head(control).caller, TRUE)
  /\ UNCHANGED <<fsdJump, docked, actor, disk, offered>>

\* os.Open fails, for want of a file or otherwise; the map is kept.
restoreFails ==
  /\ NextCommandIs("restore")
  /\ ~fileExists \/ DiskFails
  /\ control' = Tail(control)
  /\ Answer(Head(control).caller, FALSE)
  /\ UNCHANGED <<fsdJump, docked, systemsStat, actor, disk, offered, heard>>

handleControlMessage ==
  \/ exit \/ query
  \/ backupCreate \/ backupCreateFails
  \/ performRestore \/ restoreFails

writeBackup ==
  \/ \E s \in Systems : encodeStat(s) \/ encodeFails(s)
  \/ backupDone

-----------------------------------------------------------------------------

Next ==
  \/ \E m \in Jump : NoteFSDJump(m)
  \/ \E m \in Docking : NoteDocked(m)
  \/ \E c \in Callers, cmd \in Commands : Call(c, cmd)
  \/ \E c \in Callers : Send(c)
  \/ handleFSDJump \/ handleDocked \/ handleControlMessage
  \/ writeBackup

Spec == Init /\ [][Next]_vars

-----------------------------------------------------------------------------

Waiting(c) == call[c].at = "waiting"

(* Every caller that waits is owed exactly one answer, and of the type it   *)
(* expects: its request stands in the channel once, or its backup is being  *)
(* written. Nothing is owed to anyone else: an answer to a caller that does *)
(* not wait would block the actor for ever (ross.go:174-232 and 387-451).   *)
RequestsAreOwned ==
  /\ \A i \in DOMAIN control :
       LET c == control[i].caller
       IN  Waiting(c) /\ serving # c /\ call[c].command = control[i].command
  /\ \A i, j \in DOMAIN control : control[i].caller = control[j].caller => i = j
  /\ \A c \in Callers :
       Waiting(c) => serving = c \/ \E i \in DOMAIN control : control[i].caller = c
  /\ IF processMessages = "backup"
       THEN serving \in Callers /\ Waiting(serving) /\ call[serving].command = "backup"
       ELSE serving = NoCaller

(* The file holds one whole line for each of some systems of a map, and no  *)
(* other line.                                                              *)
Holds(lines, stats, systems) ==
  /\ \A i \in DOMAIN lines :
       /\ lines[i].system \in systems
       /\ lines[i].stat = stats[lines[i].system]
       /\ lines[i].whole
  /\ \A s \in systems : \E i \in DOMAIN lines : lines[i].system = s
  /\ \A i, j \in DOMAIN lines : lines[i].system = lines[j].system => i = j

(* After a backup that reported success, and until the next one begins, the *)
(* file holds the map as it was then, whatever was received, restored or    *)
(* refused since (ross.go:285-306).                                         *)
BackupIsSnapshot == saved # NoStats => fileExists /\ Holds(file, saved, DOMAIN saved)

(* A restore that reports success, after a backup that did, brings back     *)
(* just what was backed up (ross.go:308-330).                               *)
Answered(c, cmd) ==
  /\ call[c].at = "waiting" /\ call[c].command = cmd
  /\ call'[c].at = "idle" /\ call'[c].ok

RestoreBringsBackBackup ==
  [][\A c \in Callers :
       Answered(c, "restore") /\ saved # NoStats => systemsStat' = saved]_vars

(* As long as no history overflows, every docking handled since the map was *)
(* last restored is counted once, and every jump once, too; a system first  *)
(* heard of through a docking is given one visit more (ross.go:332-385).    *)
VisitsAddUp ==
  Cardinality(Timemarks) <= historySize
    => /\ Docks(systemsStat) = heard.docks
       /\ Jumps(systemsStat) - heard.jumps \in 0 .. Cardinality(DOMAIN systemsStat)

(* The two queries agree: the activity report never shows more jumps than   *)
(* the visit statistics of the same region, and as many when all of them    *)
(* are recent and no system lies right on its border (ross.go:234-283).     *)
ReportsAgree ==
  \A at \in {Position[s] : s \in Systems}, maxDistance \in 0 .. 2 :
    LET visits == getSystemVisitStat(systemsStat, at, maxDistance).inRangeCount
        borderIsEmpty == \A s \in DOMAIN systemsStat : Distance(at, s) # maxDistance
    IN  \A ctf \in Timemarks :
          LET activity == getActivityStat(systemsStat, at, maxDistance, ctf)
              jumps == SumFunction([m \in DOMAIN activity |-> activity[m].NumJumps])
              allAreRecent == \A s \in DOMAIN systemsStat :
                                MarksIn(systemsStat[s].SystemVisits) \subseteq DOMAIN activity
          IN  jumps <= visits /\ (borderIsEmpty /\ allAreRecent => jumps = visits)

(* A jump without three coordinates is ignored, as the log line at          *)
(* ross.go:373 says it is: nothing is counted and nothing stops.            *)
StrangeJumpsAreIgnored ==
  [][/\ fsdJump # <<>> /\ Head(fsdJump).form = "short" /\ fsdJump' = Tail(fsdJump)
     => UNCHANGED <<systemsStat, processMessages>>]_vars

Ended == processMessages \in {"exited", "panicked"}

(* A request with no exit command in front of it is answered, whatever the  *)
(* load of the other channels (ross.go:174-194).                            *)
BehindExit(c) ==
  \E i, j \in DOMAIN control :
    i < j /\ control[i].command = "exit" /\ control[j].caller = c

RequestsAreAnswered ==
  \A c \in Callers :
    Waiting(c) /\ ~Ended /\ ~BehindExit(c) ~> ~Waiting(c) \/ processMessages = "panicked"

(* Events in the channels are handled, whatever the load of commands,       *)
(* unless the actor stops.                                                  *)
EventsAreHandled ==
  /\ fsdJump # <<>> ~> fsdJump = <<>> \/ Ended
  /\ docked # <<>> ~> docked = <<>> \/ Ended
=============================================================================
