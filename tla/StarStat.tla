------------------------------ MODULE StarStat ------------------------------
(* The statistics in the life of the server, src/cmd/edicenter/edicenter.go: *)
(* main restores the backup, schedules further backups, starts the listener  *)
(* and the server, waits for a signal, makes a last backup and shuts the     *)
(* actor down. The process may end at any moment, and is started again on    *)
(* the file that it left.                                                    *)
EXTENDS ShipStatCollector

CONSTANTS
  Main, Cron,  \* the callers that are the goroutines of main and of gocron
  LivesBound   \* model bound: how often the process is started

ASSUME StarAssumption ==
  /\ Main \in Callers /\ Cron \in Callers /\ Main # Cron
  /\ {"exit", "backup", "restore"} \subseteq Commands
  /\ LivesBound \in Nat

VARIABLES
  stage,   \* of main: "down", "restore", "run", "lastBackup" or "shutdown"
  lives,   \* number of starts, for the bound only
  kept,    \* history variable: what the last complete backup held
  intact   \* history variable: no life began without the last backup

life == <<stage, lives, kept, intact>>
starVars == <<vars, life>>

StarTypeOK ==
  /\ TypeOK
  /\ stage \in {"down", "restore", "run", "lastBackup", "shutdown"}
  /\ lives \in Nat /\ IsSystemsStat(kept) /\ intact \in BOOLEAN

StarInit ==
  /\ Init
  /\ stage = "down" /\ lives = 0 /\ kept = EmptyMap /\ intact = TRUE

\* Nothing but the file outlives the process.
Fresh ==
  /\ fsdJump' = <<>> /\ docked' = <<>> /\ control' = <<>>
  /\ systemsStat' = EmptyMap
  /\ processMessages' = "select" /\ serving' = NoCaller /\ todo' = {}
  /\ heard' = [jumps |-> 0, docks |-> 0]
  /\ UNCHANGED <<disk, offered>>

NoCalls ==
  [c \in Callers |-> [at |-> "idle", command |-> CHOOSE cmd \in Commands : TRUE, ok |-> FALSE]]

(* main up to and with Restore: NewShipStatCollector starts the actor.      *)
Start ==
  /\ stage = "down" /\ lives < LivesBound
  /\ stage' = "restore" /\ lives' = lives + 1
  /\ Call(Main, "restore")
  /\ UNCHANGED <<kept, intact>>

Returned(c) == call[c].at = "idle"

\* Whether there was anything to restore, and whether it worked, is not asked.
StartJobs ==
  /\ stage = "restore" /\ Returned(Main)
  /\ stage' = "run"
  /\ intact' = (intact /\ (call[Main].ok \/ kept = EmptyMap))
  /\ UNCHANGED <<vars, lives, kept>>

\* A mutant of JobsRun: the backups are scheduled before the restore.
JobsRunAtOnce == stage # "down"

JobsRun == stage \notin {"down", "restore"}

\* gocron runs the job again and again, one run at a time.
CronBackup ==
  /\ JobsRun
  /\ Call(Cron, "backup")
  /\ UNCHANGED life

\* A handler of the server asks for a report.
Query(c, cmd) ==
  /\ JobsRun /\ c \notin {Main, Cron} /\ cmd \in {"getSystemStat", "getActivityStat"}
  /\ Call(c, cmd)
  /\ UNCHANGED life

\* The listener hands on an event.
Receive ==
  /\ JobsRun
  /\ (\E m \in Jump : NoteFSDJump(m)) \/ (\E m \in Docking : NoteDocked(m))
  /\ UNCHANGED life

Signal ==
  /\ stage = "run" /\ stage' = "lastBackup"
  /\ Call(Main, "backup")
  /\ UNCHANGED <<lives, kept, intact>>

Shutdown ==
  /\ stage = "lastBackup" /\ Returned(Main) /\ stage' = "shutdown"
  /\ Call(Main, "exit")
  /\ UNCHANGED <<lives, kept, intact>>

\* The process ends, and whoever waits in it.
End ==
  /\ stage' = "down"
  /\ intact' = (intact /\ (saved # NoStats \/ kept = EmptyMap))
  /\ call' = NoCalls
  /\ Fresh
  /\ UNCHANGED <<lives, kept>>

Return == stage = "shutdown" /\ Returned(Main) /\ End

Crash == stage # "down" /\ End

\* A step of the actor, or of a caller blocked on its channel.
Alive(Step) ==
  /\ stage # "down"
  /\ Step
  /\ kept' = IF saved' # NoStats THEN saved' ELSE kept
  /\ UNCHANGED <<stage, lives, intact>>

Act ==
  \/ Alive(handleFSDJump) \/ Alive(handleDocked)
  \/ Alive(handleControlMessage) \/ Alive(writeBackup)
  \/ \E c \in Callers : Alive(Send(c))

StarNext ==
  \/ Start \/ StartJobs \/ Signal \/ Shutdown \/ Return \/ Crash
  \/ CronBackup \/ Receive
  \/ \E c \in Callers, cmd \in Commands : Query(c, cmd)
  \/ Act

StarSpec == StarInit /\ [][StarNext]_starVars

DiskFailure ==
  Alive(backupCreateFails) \/ \E s \in Systems : Alive(encodeFails(s))

(* select takes any of the channels that are ready, with equal probability: *)
(* one that is ready again and again is taken in the end. Callers blocked on *)
(* a full channel are served in turn. main goes on, gocron's job comes again *)
(* and again, and the disk does not fail for ever.                          *)
StarFairSpec ==
  /\ StarSpec
  /\ SF_starVars(Alive(handleFSDJump)) /\ SF_starVars(Alive(handleDocked))
  /\ SF_starVars(Alive(handleControlMessage)) /\ WF_starVars(Alive(writeBackup))
  /\ \A c \in Callers : SF_starVars(Alive(Send(c)))
  /\ WF_starVars(StartJobs \/ Shutdown \/ Return) /\ WF_starVars(CronBackup)
  /\ <>[][~DiskFailure]_starVars

-----------------------------------------------------------------------------

\* What a restore would read.
Store == INSTANCE StatStore WITH stats <- systemsStat, file <- Restored(file)

(* Seen from outside the statistics are the store of StatStore, whatever is *)
(* received, refused, written in part, killed and started again: the file   *)
(* is always a part of one state of the memory, which a restore brings back *)
(* (edicenter.go:144-178, ross.go:285-330).                                 *)
IsStatStore == Store!Spec

\* Every visit of an older map, system by system and station by station.
Covers(stats, old) ==
  \A s \in DOMAIN old :
    /\ s \in DOMAIN stats
    /\ CoversHistory(stats[s].SystemVisits, old[s].SystemVisits, historySize)
    /\ LET stations == stats[s].StationVisits IN
       \A st \in DOMAIN old[s].StationVisits :
         /\ st \in DOMAIN stations
         /\ CoversHistory(stations[st], old[s].StationVisits[st], historySize)

(* What a complete backup held is not forgotten, over any number of lives:  *)
(* each complete backup has, system by system, station by station and frame *)
(* by frame, all that the one before it had, and so has the memory from the *)
(* time main has restored it, unless a process ended with its last backup   *)
(* incomplete or could not open the file when it started. Only a full       *)
(* history loses frames, and only its oldest (edicenter.go:144-148,         *)
(* 174-178, ross.go:285-330, timestat.go:45-73). This is so while no line   *)
(* of the file is too long for the scanner (ross.go:308-322).               *)
NothingIsForgotten ==
  [][intact' => /\ Covers(kept', kept)
                /\ stage' \notin {"down", "restore"} => Covers(systemsStat', kept')]_starVars

(* A signal ends the process, however many backups and queries are under    *)
(* way (edicenter.go:170-178).                                              *)
SignalEnds == stage = "lastBackup" ~> stage = "down"

AllVisits(stats) == Jumps(stats) + Docks(stats)

(* What is counted reaches the file, unless the process ends first          *)
(* (edicenter.go:147).                                                      *)
CountsAreSaved ==
  \A n \in 1 .. EventsBound :
    AllVisits(systemsStat) >= n ~> AllVisits(kept) >= n \/ stage = "down"
=============================================================================
