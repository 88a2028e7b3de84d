# Verification of goed

`goed` is two programs around the game Elite: Dangerous. `edicenter` is a
server: it keeps a snapshot of the EDDB database on disk and in memory, listens
to the EDDN relay and counts jumps and dockings, asks EDSM about systems it does
not know, and answers gRPC requests. `cyborg` is a Discord bot: a client of the
server that talks and assigns roles. This directory holds TLA+ models of the
parts of these programs, the TLC configurations that check them, and theorems
about them with proofs checked by TLAPS.

Line numbers refer to the Go files under `src/`. `PROJECT.json` maps each
definition to the lines it stands for, and lists the components, the hazards,
the runs, the mutants and the theorems.

## Inventory

| Component | State | Operations | Interaction | What is hard |
|---|---|---|---|---|
| Visit history, `edGalaxy/timestat.go` | a list of (frame, count), newest first, at most `MaxMarks` | `NoteVisit` | owned by the statistics actor | timestamps of other machines: any order, past and future |
| Statistics actor, `eddb/ross.go` | a map from systems to histories; three channels of capacity 10; the backup file | `NoteFSDJump`, `NoteDocked`, `Backup`, `Restore`, `GetSystemVisitsStat`, `GetActivityStat`, `Shutdown` | the listener fills two channels without waiting; callers send commands and wait for an answer on a channel of their own | interleaving of three channels, failing disk, malformed events, who is answered |
| EDDN listener, `eddb/ross.go` | `listenLoopStatus`, a ZeroMQ socket | `StartListen`, `listenLoop`, the first step of `Shutdown` | calls `NoteFSDJump` and `NoteDocked` | start and shutdown race, reconnects |
| EDSM connector, `edsm/edsmapi.go` | a cache with time stamps, a counter of requests, a lock | `SystemSummaryByName`, `GetSystemInfo` | called by gRPC handlers; HTTP to EDSM | lock released between check and use, late and overtaking answers, timeouts |
| Data cache, `eddb/eddbupdater.go` | five files and their temporary files | `CheckForUpdates`, `downloadUpdate` | HTTP to EDDB; called at start and by a scheduler | failing downloads, crash between remove and rename, stale time stamps |
| Snapshot, `eddb/eddbinfo.go`, `eddbjson.go` | maps built once from the files, then read only | `BuildEDDBInfo`, the queries | read by gRPC handlers | files of different versions |
| Server, `edgic/ediserver.go` | the current snapshot (an atomic value), the connector, the statistics provider | seven gRPC handlers, `SetEDDBData` | reads the snapshot, then asks EDSM | requests before the first snapshot, a snapshot replaced during a request |
| Client, `edgic/ediclient.go` | an address | a call for each handler | called by the talker | which errors reach the user |
| Talker, `cyborg/talker.go`, `cyborg.go` | an unbuffered channel, two workers | `onMessageCreate`, `handleIncomingMessage`, `close` | Discord's callbacks; the client | refusals, `Close` against running callbacks |
| Role assigner, `cyborg/roleAssigner.go` | a map guild, game, role under a lock; a channel of capacity 100 | `updateGuildInfo`, `onPresenceUpdate`, `handleOutgoingRoleAdd`, `close` | Discord's callbacks | a send that blocks under the lock |
| Chart, `cyborg/drawActivityChart.go` | none | `DrawChart`, `makeDayTicks`, `makeGridLines` | called by the talker | boundaries |
| Main programs, `cmd/` | the schedule of updates and backups | start, periodic jobs, stop | all of the above | crash and restart |

What makes each part correct:

* *History*: it is ordered, holds every visit of the frames it holds, and holds
  the newest frames, so that a report of the last `MaxMarks` frames is complete.
* *Actor*: every request is answered exactly once; every well-formed event is
  counted once; a backup that succeeded is a snapshot of one moment, and a
  restore brings it back; neither events nor commands starve.
* *Listener*: at most one loop, which leaves when it is asked to and hands on at
  most one more event.
* *Connector*: slots neither leak nor are given back twice; no data older than
  an hour and a timeout passes for fresh; every request is replied to.
* *Data cache*: no part of a download becomes a file, the snapshot is what the
  files give, and a published version is served in the end.
* *Process*: the file is a part of one state of the memory, and each complete
  backup has all that the one before it had, in every later life.
* *Server*: a reply holds for data that were served while its call was handled.
* *Talker*: what is said fits the message; every message that is taken is done
  with; asking again helps against a short deadline.
* *Role assigner*: no request goes into the queue for a role that the guild does not
  call for any more, and no handler waits for ever.
* *Chart*: each finished time frame is drawn with all its visits, and the grid
  lines are the midnights inside the axis (all but one, see below).

## What is modelled

How the modules are built on one another:

```
TimeVisitStat --+-- TimeVisitStatCollector -- ActivityChart
                +-- ShipStatCollector -- StarStat -- (refines) StatStore
EDDBInfo -- GIServer -- Talker
ListenLoop     EDSMConnector     DataCache     RoleAssigner
```

Each has a module `..._proofs` if theorems are proved about it, and a module
`MC...` that gives its constants values for TLC. `TimeVisitStat_proofs` has what is
proved of histories and of sums; the proofs of the collector with its chart
(`TimeVisitStatCollector_proofs`) and of the actor with its process
(`ShipStatCollector_proofs`) extend it.

### Visit history: `TimeVisitStat`, `TimeVisitStatCollector`

`TimeVisitStat` has the history as a sequence of records and
`noteVisitByTimemark` as an operator on it, with Go's truncating division
(`GoDiv`), which maps the last second before the epoch to the same frame as the
first one after it. `TimeVisitStatCollector` notes visits with timestamps in any
order; the history variable `noted` remembers all of them.

Run `history` (`MCTimeVisitStatCollector`): a limit of three frames of ten seconds;
eight timestamps from -35 to 60 in the seven frames -3, -2, 0, 1, 2, 3 and 6, on both
sides of the epoch and with gaps of one and two frames; two visits for each. A second
before the epoch (-5) and one after it (9) fall into frame zero, since the division
truncates, and 9 and 10 lie on both sides of a boundary. Three is the smallest limit
with an insertion at the front, in the middle and at the end that each push a record
out; seven frames leave room for visits that are pushed out, refused and noted again.
2,187 states, some seconds.

`RecentFramesAreComplete` is about reports made while no visit is later than the
clock they are made by. A player whose clock is ahead is outside of it: his visits
take the place of older frames in a full history, and a report lacks those.

Proved of the operator itself, for any history, limit and frame
(`TimeVisitStat_proofs`): `NoteVisitCounts`. A visit adds one to its frame and to the
total and changes no other frame, unless its frame is new and the limit is reached.

Proved for every limit, frame length and set of timestamps
(`TimeVisitStatCollector_proofs`): `HistoryTypes`, `HistoryStaysOrdered`,
`HistoryStaysExact`, `HistoryStaysNewest` and `ReportIsComplete`.
The inductive invariant is the conjunction of the first four, which need each
other: a frame that is not held may start again at one only because it was never
noted, and it was never noted because a frame that was pushed out is older than
all that are held and the history is full. `ReportIsComplete` follows by
counting: the gaps in an ordered history of `MaxMarks` records put its oldest
frame at least `MaxMarks - 1` frames before its newest.

### Activity chart: `ActivityChart`

What `DrawChart` hands to the drawing library, computed from the report that
`getActivityStat` makes of the history: the series, the ticks and the grid lines.
Jumps and docks are drawn alike; the model has one of them. `ChartShowsVisits` is
checked in every state of the run `history`, at five times and for reports of three
to eight frames, with a day of three frames: reports begin and end on a midnight,
before it and after it, and span none, one and two midnights. The reference is
the midnights strictly inside the axis, less one, and the visits that were noted, not
those the history holds. The code calls the frame that has just begun the last hour
and strips it; its axis is made of one frame less still and stretched by an hour.

The midnight that is missing: `makeDayTicks` stops before the newest frame it is given
(`drawActivityChart.go:80`) and only then adds the hour (line 89), so that a midnight
which the last hour of the axis begins with lies inside the axis and has no line. It is
missing from two to three o'clock UTC of each day, and is drawn later on.
`ChartShowsVisits` names this exception, and at `now = 5` the run has it.

Proved (`TimeVisitStatCollector_proofs`): `ChartIsRight`, at any time, for reports of
any length, with the assumptions `Hour = Timeframe` and `SecondsPerDay % Hour = 0`. The
code has 3600 for both (`drawActivityChart.go:89`, `ross.go:149`), in places that do not
know of each other, and if they differed the axis would not end where the property says.
A day has whole hours, so that no midnight lies within the last hour of the axis but at
its beginning (`NoMidnightWithin`): the exception is the only one. The
days that begin from the left end of the axis on and before its right end are
consecutive (`DaysBetween`), so that the numbers `makeDayTicks` counts through are
just their midnights (`AxisOfDays`); and the report has every visit
(`ReportedIsNoted`, of which `ReportIsComplete` is a case).

### Statistics actor: `ShipStatCollector`

`fsdJump`, `docked` and `control` are the channels, `systemsStat` the map;
`processMessages` says whether the goroutine is in its `select`, writes a
backup, has left, or has panicked. Every event and command has an action of its
own, except for the backup, which is taken line by line (`backupCreate`,
`encodeStat`, `backupDone`), because the listener and callers go on while it is
written, and may fail at each step (`backupCreateFails`, `encodeFails`).
`restoreFails` leaves the map; `performRestore` keeps what the scanner and the
decoder get through (`Restored`). A caller is idle, blocked on the send
(`Send` waits for room) or waiting; an answer is a rendezvous.

Events come as `good`, `short` (fewer than three coordinates: harmless for a
system that is known, out of range for one that is not) or `garbled`. Systems
lie on a line; a line of the file has the size of its visit records.
`heard` and `saved` are history variables: events counted, and the content of
the last backup that reported success.

The module is checked as a part of the process, below, and by itself only in the
two runs that expect a violation:

| Run | Instance | Shows |
|---|---|---|
| `ship_stat_strange_jump` | finding | `StrangeJumpsAreIgnored` is violated |
| `ship_stat_long_line` | finding, the scanner's buffer holds one record | `RestoreBringsBackBackup` is violated |

### The statistics in the life of the server: `StarStat`, `StatStore`

`StarStat` puts the actor into `main` of `cmd/edicenter/edicenter.go`. `stage` is
the place of `main`: `Start` is everything up to the call of `Restore`; `StartJobs`
its return, whose result the code does not look at, and what is started then (the
scheduled backups, the server's queries, the listener); `Signal` the last backup;
`Shutdown` and `Return` the end. A `Crash` may come between any two steps, in the
middle of a backup too. Only the file outlives the process, whose memory, channels
and callers start afresh. Two callers of the actor are the goroutines of `main`
and of the scheduler, others are the server's handlers.

`StatStore` is the abstract specification: a map in memory and a file, `Count`,
`Write` of a part of the memory, `Restore` and `End`. `IsStatStore` says that the
process implements it, with `stats <- systemsStat` and `file <- Restored(file)`, what
a restore would read. Hidden are the channels, the callers, the lines of the file and
the jobs; shown is that whatever is received, refused, cut off, killed and started
again, the file is always a part of *one* state of the memory.

What the store does not promise is that the part is the whole: the code opens the
only copy and empties it before it writes. `NothingIsForgotten` says what is kept all
the same. `kept` is the map that the last complete backup held, in whatever life. Each
step that completes a backup must leave a map that has (`Covers`) each system, each
station and each frame of the one before, with no fewer visits, and so must the memory
from the time `main` has restored it. A frame may be gone only from a history that is
full of newer ones (`CoversHistory`). `intact` is the history variable that excludes two
cases in which the code does lose the statistics: a process ended with its last backup
incomplete, or could not read the file when it started and then wrote over it
(`edicenter.go:145-147`). Events that no backup was completed after are lost with the
process, those queued behind the last backup among them (`edicenter.go:175`); the
property is about what a backup held.

`CountsAreSaved` is their other half, the progress into the file: once so many visits
are counted, a complete backup holds as many, unless the process ends first.

| Run | Instance | Shows |
|---|---|---|
| `star_stat` | two lives, two systems, a station, two frames, capacity one, two events of all forms, a disk that fails anywhere | `StarTypeOK`, `RequestsAreOwned`, `BackupIsSnapshot`, `VisitsAddUp`, `ReportsAgree`, `NothingIsForgotten`, `RestoreBringsBackBackup`, `IsStatStore` |
| `star_live` | two lives, one system, `main`, the scheduler and a handler as callers, capacity two, a failing disk, fairness | `SignalEnds`, `CountsAreSaved`, `RequestsAreAnswered`, `EventsAreHandled` |

`star_stat` has 279,414 states and takes one to two minutes, `star_live` 25,801 in one.
A history of two frames holds both time frames of `star_stat`, as `VisitsAddUp` asks for.
With `historySize = 1` the histories overflow and everything holds as well (273,522
states; `VisitsAddUp` then says little, so that this is not a run of its own).

Two events are enough for a jump and a docking in either order, for two of a kind
in one frame or in two, and for one on each side of a backup and a restore; two
systems make a backup that is cut off between lines; two callers and a channel of
one make a caller wait for room while the other is served; two lives have what a crash
leaves read, and written over. The two systems are
as far from one another either way and the properties look from both, so that they
may be exchanged (`Alike`).
The number of events received is bounded by `EventsBound`.

Fairness: `select` takes one of the ready channels with equal probability, so a
channel that is ready again and again is taken (`SF` for the two event handlers
and for the commands together); blocked senders are served in the order of their
arrival (`SF` for `Send`); writing the file does not stop (`WF`). In `StarFairSpec`
`main` goes on after a call that returned, the scheduler's job comes again and again,
and the disk does not fail for ever. Nothing makes a signal come, nor a process that
is down start again.

`RequestsAreAnswered` leaves out requests behind an exit command: the code
answers none of them. It leaves out nothing else. `CountsAreSaved` is satisfied by the
end of the process, and with it by a crash.

Proved (`ShipStatCollector_proofs`), for all callers, systems, capacities and
failures: `NoAnswerLostOrDoubled` and `BackupsAreSnapshots` of the actor alone, and
of the process over any number of lives `NoAnswerLostInAnyLife`,
`BackupsOutliveTheProcess` and the refinement `ProcessIsStatStore`. The first
strengthens `RequestsAreOwned` by the types of the control channel and of the
callers; the second adds, for a backup in progress, that the file holds just the
systems that are not to do any more, and that the map does not change. The theorems
of the process take the same invariants through its own steps: an end leaves the file
as it is, which is a part of the memory that was, and nobody waits after it. The
refinement needs of them that the lines of the file are records of the map at the
moment they are written, each system once, so that a line more is a larger part of
the same memory.

What is counted is proved as well: `EveryEventIsCounted` and `ActivityAgreesWithVisits`
of the actor, `CountsAreRightInAnyLife` of the process, with the types of all that
they keep (`CollectorIsTyped`, `ProcessIsTyped`). The inductive invariant `Remembers`
says that the map in memory, the map last backed up and every line of the file, read
back from a file that was cut off anywhere too, are maps of ordered histories within
their limit, each frame with at least one visit; and that the sums are the events
handled since the map was last replaced, which needs the history of one system to be
the only one that an event changes (`AfterJumpAdds`, `AfterDockingAdds`). The two
reports agree because a table summed by time frames is what it is summed by systems
(`SumsSwapped`), and a sum over the frames shown is at most the total of a history
(`TotalOfWindow`). That needs no room in the histories.

What a restart brings back is proved under one hypothesis on the behaviour, and none
on the constants:

| Theorem | Hypothesis | Why |
|---|---|---|
| `EveryEventIsCounted` | none; `VisitsAddUp` itself asks for no more time frames than a history keeps | a full history drops its oldest frame, by design |
| `RestoreUndoesBackup`, `RestartBringsBackBackup`, `NothingKeptIsForgotten` | `[]EveryLineFits`: no line that the file ever has is longer than the scanner's buffer | the code puts no limit on a line, and a longer one ends the restore (finding 2) |

That a process runs for longer than its 168 frames is no obstacle to them: histories
may overflow, and each frame that is gone must have given way to newer ones. The
theorem rules out other ways to lose visits, in any order of crashes, backups and
restores. Its argument: visits only add to a history in the sense of `CoversHistory`,
also when it is cut (`NoteVisitCovers`, which needs histories in order and within their
limit, a part of `Remembers`); so each event leaves a map that covers the old one
(`EventsTakeNothing`). The invariant `Preserved` says that until `main` has restored the
backup nobody else calls and no event is received, that later nobody restores, so that
in between the map only grows, and that the file of a complete backup covers what was
kept while `intact` holds.

### Listener: `ListenLoop`

One loop for each goroutine that calls `StartListen`; `at` is its place in the
`for`, `req` its socket (`new` stands for `needDeal`). A message is reduced to
its kind. `late` counts events handed on after a shutdown was requested.
The run `listen_loop` has three starters, shutdowns at any time and a relay that
fails at any time. `main` calls `StartListen` and `Shutdown` once each, one after the
other; `OneLoop` is about the type's interface, which promises more. `LoopLeaves` assumes that dialing succeeds and messages come
in the end: with a silent relay, `Recv` has no timeout and the loop stays in it.

Proved (`ListenLoop_proofs`): `ListenTypes`, `NeverTwoLoops` and `AtMostOneLateEvent`, for any
set of starters. The invariant says that in the idle status nobody has started,
that a loop past the head has a socket that fits its place, and that after a
late event the loop is at the head with a dialed socket, where it can only leave.

### EDSM connector: `EDSMConnector`

Each request is a process; sections under the lock are single steps. What EDSM
knows of a system is reduced to the time at which EDSM read it (`EDSMReads`,
external), so that an answer may be old when it arrives, answers may overtake
one another, and an answer may be about a system of another name. Time passes
(`Tick`) only while requests wait for EDSM, and no longer than the client's
timeout.

| Run | Shows |
|---|---|
| `edsm` | two requests, two systems, expiry of two ticks, timeout of one, three ticks: `TypeOK`, `SlotsAreCounted`, `CacheIsRecent`, `RepliesAreRecent`, and `RequestsAreAnswered` under weak fairness of goroutines and of the client's timeout |
| `edsm_slots` | finding: `SlotsAreRespected` is violated |

Three ticks let an entry be stored late, expire and be fetched again. One slot
and two requests are enough for every race: `maxRequests` is compared only.

Proved (`EDSMConnector_proofs`): `NoSlotIsLost` for every finite set of
requests, `EDSMTypes`, `RepliesStayRecent` and `CacheStaysRecent` for every expiry
and timeout. The invariant
follows an answer through its life: while a request waits for EDSM its data is
at most as old as the time it has waited, which the timeout bounds; later no
time passes for it until the answer is stored and replied.

### Data cache: `DataCache`

The path of a file from the server to the snapshot: `published` and `modified`
are the server's versions with their `Last-Modified`, `local` and `tmp` the disk,
`at`, `left` and `todo` the place of `CheckForUpdates` in its two loops, `snapshot`
what `SetEDDBData` stored. A download is one action for each call that touches the
disk or the network (`Get`, `Copy`, `Remove`, `Rename`), each with the ways it
fails; the process ends between any two of them (`Crash`) and is started again
(`Start`), which checks and then builds in any case. A later check builds only if
it returns updates, whether or not their downloads worked: the result of
`downloadUpdate` is dropped.

A file holds a version, a part of a download, or a page about an error, which is
taken for data because no status is looked at. What becomes of a page depends on
the format (`Readable`, `MayBeRead`, `BuildIsFatal`): line files skip what is not a
record and give an empty table, the commodities are refused, and a table of
listings may be refused, taken as empty, or end the process by `log.Fatalf` - at
each start again, until the server has something newer. `SnapshotIsCurrent` takes such a
page for the contents of its file, as the code does; that it should not be taken is no
property here.

| Run | Instance | Shows |
|---|---|---|
| `data_cache` | two files, one read by lines and one as a table, both needed; two versions, two seconds; pages about errors; fairness | `TypeOK`, `FilesAreWhole`, `SnapshotIsCurrent`, `LatestIsServed` |

Two versions and two seconds are enough for a file that is older, as old and newer
than the server's, two files for a failing download before or after another. A
page in a file that is read as a whole does what a missing file does, so the instance
has the other two formats. Lines are taken to fit the scanner: one over 64 KB would end
the table there without an error (`eddbjson.go:179`, 199, 221), and the snapshot would
lack the rest.
`LatestIsServed` leaves out versions that are `Overlooked`: published no later
than the second in which the older file was written, they are not fetched until
something newer appears; a page about an error that is overlooked may keep the build
of all from being made. It assumes that the process is not ended for ever, that
it is started when it is down, and that each request and each rename succeeds again
and again (`SF`): all time stamps must be readable in one check, since one that is
not ends it (`HeadFails`). A crash between `Remove` and `Rename` leaves no file;
the missing file has the zero time, so that the next check fetches it again.

The model runs one check at a time, as the scheduler does that executes its jobs
one after another; `gocron` is not pinned to a version, and one that runs jobs in
goroutines could overlap a check of more than `CheckPeriod` seconds with the next.

Proved (`DataCache_proofs`): `CacheTypes`, `CacheFilesAreWhole`,
`CacheSnapshotIsCurrent`, for any files, order and formats. For the first, a
complete download is behind every temporary file that gets as far as `Remove`,
whatever earlier runs left there. For the last, `Settled` names the moments at
which no download lies between the last build and now, and a check in the middle of
its downloads has a list of updates that is not empty, so it cannot return without
a build.

### Role assigner: `RoleAssigner`

Discord's library runs every event in a goroutine. A presence handler waits for
the read lock (`RLock`), looks up the role (`Want`, `Pass`) and sends the request
with the lock in hand (`Send`). A guild handler announces the write lock (`Lock`),
which stops new readers as Go's `RWMutex` does, and replaces the roles once the
readers have left (`SetRoles`). The worker takes requests and needs no lock.
`close` and `CloseSession` are the steps of `Close`; a send on the closed channel
panics, which ends the process.

| Run | Instance | Shows |
|---|---|---|
| `role_assigner` | two presence handlers, one guild handler, a queue of one, two roles of the same name of which one goes, an excluded user, fairness | `TypeOK`, `RequestsAreCurrent`, `PresencesReturn`, `UpdatesReturn` |
| `role_close` | one role, which is there or not | finding: `CloseIsClean` is violated |

A queue of one and two senders make a reader wait for room with a writer behind it
and a reader behind the writer. Fairness: goroutines run, the lock and the channel
serve those who wait in turn (`SF`), and the library's HTTP client ends its calls.

`RequestsAreCurrent` is about requests up to the send, that is as long as the read lock
is held. One that waits in the queue may be stale by the time the worker asks Discord to
add the role (`roleAssigner.go:80-89`): the worker does not look again.

Proved (`RoleAssigner_proofs`): `NoStaleRequest`, for any handlers, guilds and
configuration. The invariant says that whoever looks or sends holds the read lock,
without which the roles would change under it. `RoleTypes` rests on it: what is sent
is a role only because the target cannot be taken away meanwhile. It also needs that
of the matches of a game there is a last one (`LastPair`), which is why `AssignMap`
can choose it; the assumption asks for a guild, a game and a user, without which
there is no event.

`NoDeadlock` is the part of `PresencesReturn` and `UpdatesReturn` that is about states,
for any number of handlers and any capacity: while the bot is not closed and a handler
has not returned, some handler's lock or room is there, or the worker can make room
(`NotAllWait`, with the guards written out as `SomeoneGoesOn`). Its invariant
(`LockIsHeld`) makes the place of every handler and its hold on the lock the same
thing, so that a writer waits only for readers that look or send, and these wait only
for the worker.

### Data and queries: `EDDBInfo`

The files as functions from ids to records, the snapshots `BuildEDDBInfo` may make of
them, and the queries of the server on a snapshot as operators. Two systems of one
name are told apart by the order of a Go map, so `BuildEDDBInfo` is a *set* of
snapshots; so are the answers of queries that stop at a limit (`Cut`). Names are in
upper case, as the index has them, and systems lie on a line. What
`fuzzy.FindFold` finds similar is a constant.

### Server, client and talker: `GIServer`, `Talker`

`GIServer` has one record for each call that is being handled, with its place: `load`
(the snapshot is loaded first), `lookup` (`getSystemSummaryByName` for the next of its
systems, which looks into the snapshot), `connector` (`GetSystemInfo`, which looks into
the cache), `edsm` (waiting for EDSM), `found`, `collector` (waiting for the
statistics) and `replied`. `eddbInfo` is the version of the snapshot served; it may be
replaced (`SetEDDBData`) between any two steps of a call, and
`GetInterestingSystem4State` does load it twice. As long as no snapshot was stored the
type assertion of `ediserver.go:59` (and 191, 210, 233) panics, which ends the process
(`Panic`): the replies "not (yet) available" are never given. A client that goes away
(`Leave`) does not stop its handler; its reply is thrown away.

The connector is here as its callers can tell it (`edsmapi.go:190-238`). It keeps what
EDSM answers under the name in the *answer* (`EDSMName`), which need not be the one asked
for, and whether or not anybody still waits. An answer is fresh until its hour has passed
(`Expire`, at any time). A fresh one is the reply; an expired one is the reply only if all
slots are taken; otherwise EDSM is asked again, and if that fails the reply is an error
although the connector holds the system. With all slots taken and nothing held the reply
is an error at once (`ReplyBusy`). A free slot is seen before it is taken (finding 3), so
that EDSM may be asked beyond the limit. `EDSMConnector` has the finer steps of this, with
time and the age of data; here what counts is whether an entry is fresh, and the look
and the decision that follows from it are one step.

`Talker` adds the bot: `onMessageCreate` hands a message to a worker that waits;
`Ask`, `Call`, `Answered`, `CallFails` and `Deadline` are a worker's call through
`callRpc` with its deadline of a second; `close` and `BotEnds` are the end. A message
is a command and the systems it names; a handler of the code is what it asks of the
server and of how many systems (`handleSystemRequest` and the others). `Text` is what is
said: the client's `GetMostVisitedSystems` and `GetGalaxyActivityStat` do not look at
the error of a reply, so an unknown system has "no mention". A message that is
refused because no worker waits changes nothing, and has no action.

Run `talker`: one worker, an application as a second client of the server (it asks
for `GetInterestingSystem4State`, which the bot does not), two handlers, a connector of
one slot, two versions of the data, of which the second knows a system (Hutton) that
before was only known to EDSM, a name that EDSM answers under this other one (Old
Hutton), and a message of every kind: `TalkerTypeOK`, `RepliesAreCurrent`,
`AnswersFitMessages`, `MessagesAreAnswered`, `RetriesSucceed`; 126,015 states, about three
minutes. Two handlers let a call that was given up go on beside the next of the same
worker, and an application's call fill the cache, under another name, or take the only
slot in the middle of the worker's. The code has three slots
(`ediserver.go:39`) and two workers; with two handlers one slot is what can be short. The
workers share nothing but the server, and to it the second is one more client.

`RepliesAreCurrent` is exact about staleness. `since` and `knew` are history
variables of a call: the version served when it came, and the systems of which the
connector has held one and the same fresh answer ever since. A reply must hold for
versions from then on (a mixture is possible where the code loads twice, and only of
these), what EDDB tells comes before what EDSM tells, and "not known" is said only of a
system that some version lacked and of which the connector did not hold one fresh
answer all that time. An answer that expires during the call excuses it, as in the code;
so does one that is replaced.

`AnswersFitMessages` says nothing of the numbers in a statistic, nor of "no mention" for
a system that the server does not know. That a call before the first snapshot ends the
server is no violation of anything here: its client is told that the call failed.

`RetriesSucceed`: the client gives up after a second, EDSM may take twenty. A user who
asks about a system is told in the end, however short the second is, under what the code
needs for it, each of which is a hypothesis of the property:

* the server stays up and has a snapshot from some time on;
* his question gets to EDSM again and again, and not only to a connector without a free
  slot;
* EDSM gives the system the name he asks for (`EDSMName[n] = n`): an answer under
  another name is never found under his;
* if there is a fresh answer again and again, he asks while there is again and again:
  one who asks every two hours is never told;
* from some time on the hour does not end in the moment between his question and the
  look into the cache.

Fairness (`TalkerFairSpec`): a worker goes on, in the worst case by the timer of its call
(`WF`), handlers go on (`WF`), the server takes a call in the end (`SF`: with both
handlers taken it may have to be tried again), a question to EDSM ends, as its client has
a timeout of 20 seconds, and if EDSM is asked about a system that it knows again and
again it answers in the end (`SF`). Nothing is assumed of the collector of statistics, of
when an answer expires, of the server's start or of its data. Only EDSM and the collector
take longer than a second (`Slow`): everything else in a call is memory.

Proved (`Talker_proofs`), for any data, names, messages, workers, handlers and other
clients: `RepliesHoldWhenGiven` and `WorkersSayWhatFits`. The invariant says of every
handler what it has found so far (`IsRight`): each summary is one of a version served
since the call came; an answer of EDSM is used only after some version lacked the
system; a snapshot that was loaded is one of these versions; EDSM is asked only of
systems that are not in `knew`, which an answer that enters or expires is taken from. That is preserved when
newer versions are served because what is true of some versions is true of more
(`TruthLasts`). For the workers it adds that the only call in a worker's name is that
of the message it waits about (`Fits`), which is what giving up must establish.
`TalkerTypes` adds what the places of handlers and workers allow their other fields
to be (`HandlerHasType`, `WorkerHasType`).

## Findings

1. `ship_stat_strange_jump`: a jump without three coordinates is logged as
   "ignored - strange coordinates" (`ross.go:373`) but counted, or ends the
   process with an index out of range. The same holds of dockings (`ross.go:343`).
2. `ship_stat_long_line`: a restore stops without an error at a line longer than
   64 KB, reports success, and the systems on all later lines are gone; the next
   backup makes the loss permanent.
3. `edsm_slots`: the limit on concurrent requests to EDSM can be exceeded by
   requests that see the same free slot.
4. `role_close`: `Close`, called to "cleanly close down the Discord session"
   (`cyborgRun.go:97`), closes the queue before the session (`cyborg.go:149-151`);
   a presence handler that sends on it then, or waits for room in it, panics.

Seen on the way, and not a run of their own:

* Before the first snapshot every call that needs one ends the server
  (`ediserver.go:59`, `Panic` in `GIServer`).
* A version that EDDB publishes in the second in which the older one is written, or
  earlier, is not fetched (`eddbupdater.go:96`, `Overlooked` in `DataCache`).
* "stat" without a category never matches, though line 236 of `talker.go` allows for it:
  `TrimSpace` takes the blank that the prefix asks for.
* The chart lacks the line of a midnight for an hour of each day
  (`drawActivityChart.go:80`, the exception in `ChartShowsVisits`).
* A player whose clock is ahead pushes older frames out of a full history
  (`timestat.go:53-66`), and a report lacks them.
* The help text says 100,000 light years for "in the galaxy" (`talker.go:279`), the
  code takes 1,000,000 (`talker.go:382`).
* Names of permit locked systems are looked up in lower case (`talker.go:289`) and
  stored as configured, so that one configured with a capital is never refused.
* A system that EDSM sends without coordinates is taken to be at Sol
  (`edsmjson.go:34`).

## Proofs and what they rest on

Each proof module extends the module it is about. The constants' assumptions are
the `ASSUME`s of the modules, as weak as the code justifies; TLC evaluates them
in every run.

| Module | Theorems |
|---|---|
| `TimeVisitStat_proofs` | `NoteVisitCounts` |
| `TimeVisitStatCollector_proofs` | `HistoryTypes`, `HistoryStaysOrdered`, `HistoryStaysExact`, `HistoryStaysNewest`, `ReportIsComplete`, `ChartIsRight` |
| `ShipStatCollector_proofs` | `NoAnswerLostOrDoubled`, `BackupsAreSnapshots`, `NoAnswerLostInAnyLife`, `BackupsOutliveTheProcess`, `ProcessIsStatStore`, `CollectorIsTyped`, `EveryEventIsCounted`, `ActivityAgreesWithVisits`, `ProcessIsTyped`, `CountsAreRightInAnyLife`, `RestoreUndoesBackup`, `RestartBringsBackBackup`, `NothingKeptIsForgotten` |
| `EDSMConnector_proofs` | `EDSMTypes`, `NoSlotIsLost`, `RepliesStayRecent`, `CacheStaysRecent` |
| `ListenLoop_proofs` | `ListenTypes`, `NeverTwoLoops`, `AtMostOneLateEvent` |
| `DataCache_proofs` | `CacheTypes`, `CacheFilesAreWhole`, `CacheSnapshotIsCurrent` |
| `RoleAssigner_proofs` | `RoleTypes`, `NoStaleRequest`, `NoDeadlock` |
| `Talker_proofs` | `TalkerTypes`, `RepliesHoldWhenGiven`, `WorkersSayWhatFits` |

Every safety property that a passing run checks is stated by one of them.

Sums are proved about without an induction that takes an operator. The sum of a
function into the naturals is the number of its *units*, the pairs of an argument and a
number below its value (`SumIsUnits`), so that what holds of sums follows from what
holds of finite sets: a changed value adds the difference (`SumOfPut`), a larger
function has no smaller sum (`SumIsMonotone`). Where an induction over the subsets of
a finite set is needed, it is one over a *set* of subsets, and by a least
counterexample (`SubsetInduction`). The fold of `TotalVisits` is taken apart the same
way (`TotalIsSum`). `CountOfPlace` and `FirstIsLeast` say what the operators that choose
a record choose.

Of the assumptions, one is there for the sums: the time frames are a finite set
(`ShipStatAssumption`). They are `int64`.

Checked by TLC only: all liveness, which is `SignalEnds`, `CountsAreSaved`,
`RequestsAreAnswered` of the actor and of the connector, `EventsAreHandled`,
`LoopLeaves`, `PresencesReturn`, `UpdatesReturn`, `LatestIsServed`,
`MessagesAreAnswered`, `RetriesSucceed`. The prover does not do fairness. The queries of
`EDDBInfo` have no theorem of their own; `RepliesHoldWhenGiven` does not depend on what
they compute.

## Mutants

Each property of a passing run has a mutant: a definition changed as a plausible
mistake would change it, under which TLC finds the property violated. They stand
next to the definitions they change.

## Not modelled

* `GalaxyInfoCenter` (`gstructures.go:101-150`), `FindCommodity`, `getCommodity` and
  `makeYTicks`: no program calls them.
* The sorting and cutting of the answer in `GetSystemVisitsStat` (`ross.go:425-438`),
  and the wording, tables and parsing of messages.
* What `GetActivityStat` and `GetMostVisitedSystems` report, as seen by the talker: a
  number of the set `Totals`. The reports themselves are in `ShipStatCollector`.
* The connector's lock, its counter and the age of its data inside `GIServer`: they are
  in `EDSMConnector`, which no refinement connects with it.
* Lines of an EDDB file that are longer than the scanner's 64 KB (`Readable`).
* Drawing, configuration, flags, logs; generated code (`edicenter.pb.go`) and tables
  (`emoji_codemap.go`).

## What is left

1. A refinement from `EDSMConnector` to the connector in `GIServer`, which are
   two readings of the same lines now.
2. A bot of two workers, if a smaller data set lets it be checked in time.
3. Theorems about the queries of `EDDBInfo`: the answers that stop at a limit.
