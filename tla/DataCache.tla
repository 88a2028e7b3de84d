----------------------------- MODULE DataCache -----------------------------
(* The path of the EDDB data from its server to the snapshot that is served: *)
(* the cache of src/eddb/eddbupdater.go, which fetches files that the server *)
(* has newer, the readers of src/eddb/eddbinfo.go and eddbjson.go, and the   *)
(* part of src/cmd/edicenter/edicenter.go that checks at the start and then  *)
(* every CheckPeriod seconds. Versions are published, the network fails and  *)
(* the process ends at any time. Time is counted in the seconds of the       *)
(* server's Last-Modified header, on one clock for both machines.            *)
EXTENDS Integers, Sequences

CONSTANTS
  Files,
  Order,       \* the order in which a check goes through the files
  Needed,      \* what a snapshot is built from: the listings are only if configured
  Format,      \* how a file is read: "lines", "whole" or "csv"
  ErrorPages,  \* whether the server may answer a GET with a page about an error
  MaxVersion, Horizon,  \* bounds
  NoSnapshot

ASSUME DataAssumption ==
  /\ Order \in Seq(Files)
  /\ Needed \subseteq Files
  /\ Format \in [Files -> {"lines", "whole", "csv"}]
  /\ ErrorPages \in BOOLEAN
  /\ MaxVersion \in Nat \ {0} /\ Horizon \in Nat \ {0}
  /\ NoSnapshot \notin [Needed -> Int]

VARIABLES
  published, modified,  \* the server: version and Last-Modified of each file
  now,
  local, tmp,           \* the disk: each file and its temporary file
  at,                   \* place of the check, "idle" between checks, "down"
  left,                 \* files still to be looked at, or to be downloaded
  todo,                 \* rv: files to be downloaded in this check
  body,                 \* content under way from the server
  booting,              \* whether this is the check at the start
  snapshot              \* eddbInfo of the server

server == <<published, modified>>
disk == <<local, tmp>>
check == <<at, left, todo, body, booting>>
vars == <<server, now, disk, check, snapshot>>

\* What a file may hold besides a version.
Page == 0
Part == -1
Nothing == -2
Data == Nothing .. MaxVersion

\* A missing file has the zero time; the time of a part is not looked at.
Missing == [data |-> Nothing, mtime |-> 0]
Started == [data |-> Part, mtime |-> 0]

TypeOK ==
  /\ published \in [Files -> 1 .. MaxVersion] /\ modified \in [Files -> 1 .. Horizon]
  /\ now \in 1 .. Horizon
  /\ local \in [Files -> [data : Data, mtime : 0 .. Horizon]]
  /\ tmp \in [Files -> [data : Data, mtime : 0 .. Horizon]]
  /\ at \in {"down", "idle", "head", "get", "copy", "remove", "rename", "build"}
  /\ left \in Seq(Files) /\ Len(left) <= Len(Order)
  /\ todo \in Seq(Files) /\ Len(todo) <= Len(Order)
  /\ body \in Page .. MaxVersion /\ booting \in BOOLEAN
  /\ snapshot \in [Needed -> Page .. MaxVersion] \cup {NoSnapshot}

\* The program is installed: no file is there yet.
Init ==
  /\ published = [f \in Files |-> 1] /\ modified = [f \in Files |-> 1]
  /\ now = 1
  /\ local = [f \in Files |-> Missing] /\ tmp = [f \in Files |-> Missing]
  /\ at = "down" /\ left = <<>> /\ todo = <<>> /\ body = Page /\ booting = FALSE
  /\ snapshot = NoSnapshot

-----------------------------------------------------------------------------
(* The world.                                                               *)

Publish(f) ==
  /\ published[f] < MaxVersion
  /\ published' = [published EXCEPT ![f] = @ + 1]
  /\ modified' = [modified EXCEPT ![f] = now]
  /\ UNCHANGED <<now, disk, check, snapshot>>

Tick ==
  /\ now < Horizon /\ now' = now + 1
  /\ UNCHANGED <<server, disk, check, snapshot>>

\* The files stay, whatever the process was about to do with them.
Crash ==
  /\ at # "down" /\ at' = "down"
  /\ left' = <<>> /\ todo' = <<>> /\ body' = Page /\ booting' = FALSE
  /\ snapshot' = NoSnapshot
  /\ UNCHANGED <<server, now, disk>>

-----------------------------------------------------------------------------
(* CheckForUpdates: the first loop asks for the time stamps, ...            *)

BeginCheck(atStart) ==
  /\ at' = "head" /\ left' = Order /\ booting' = atStart
  /\ UNCHANGED <<server, now, disk, todo, body, snapshot>>

Start == at = "down" /\ BeginCheck(TRUE)

checker == at = "idle" /\ BeginCheck(FALSE)

\* A mutant of needUpdate: a missing file is no reason.
needUpdateOfExisting(f) == local[f].data # Nothing /\ modified[f] > local[f].mtime

needUpdate(f) == modified[f] > local[f].mtime

\* The check returns; then the snapshot is built: at the start in any case,
\* later only if there are updates.
Return(updates) ==
  /\ at' = IF booting \/ updates # <<>> THEN "build" ELSE "idle"
  /\ left' = <<>> /\ todo' = <<>> /\ booting' = FALSE

HeadAnswers(f) ==
  /\ at = "head" /\ left # <<>> /\ f = Head(left)
  /\ todo' = IF needUpdate(f) THEN Append(todo, f) ELSE todo
  /\ left' = Tail(left)
  /\ UNCHANGED <<server, now, disk, at, body, booting, snapshot>>

\* No answer, or one without time stamp: the check ends with an error.
HeadFails ==
  /\ at = "head" /\ left # <<>>
  /\ Return(<<>>)
  /\ UNCHANGED <<server, now, disk, body, snapshot>>

(* ... the second one downloads what is wanted; whether it worked is not    *)
(* looked at.                                                               *)

BeginDownloads ==
  /\ at = "head" /\ left = <<>>
  /\ at' = "get" /\ left' = todo
  /\ UNCHANGED <<server, now, disk, todo, body, booting, snapshot>>

EndDownloads ==
  /\ at = "get" /\ left = <<>>
  /\ Return(todo)
  /\ UNCHANGED <<server, now, disk, body, snapshot>>

NextFile == at' = "get" /\ left' = Tail(left) /\ UNCHANGED <<todo, booting>>

\* A mutant of SkipFile: the check ends with the error of the download.
SkipAll == Return(<<>>)

SkipFile == NextFile

-----------------------------------------------------------------------------
(* downloadUpdate, of the first file of left.                               *)

Get(f) ==
  /\ at = "get" /\ left # <<>> /\ f = Head(left)
  /\ tmp' = [tmp EXCEPT ![f] = Started]
  /\ body' \in {published[f]} \cup (IF ErrorPages THEN {Page} ELSE {})
  /\ at' = "copy"
  /\ UNCHANGED <<server, now, local, left, todo, booting, snapshot>>

\* The temporary file was created or not.
GetFails(f) ==
  /\ at = "get" /\ left # <<>> /\ f = Head(left)
  /\ tmp' \in {tmp, [tmp EXCEPT ![f] = Started]}
  /\ SkipFile
  /\ UNCHANGED <<server, now, local, body, snapshot>>

Copy(f) ==
  /\ at = "copy" /\ f = Head(left)
  /\ tmp' = [tmp EXCEPT ![f] = [data |-> body, mtime |-> now]]
  /\ at' = "remove" /\ body' = Page
  /\ UNCHANGED <<server, now, local, left, todo, booting, snapshot>>

\* A mutant of CopyFails: the result of io.Copy is not looked at.
CopyFailsUnnoticed ==
  /\ at = "copy" /\ at' = "remove" /\ body' = Page
  /\ UNCHANGED <<server, now, disk, left, todo, booting, snapshot>>

CopyFails ==
  /\ at = "copy" /\ SkipFile /\ body' = Page
  /\ UNCHANGED <<server, now, disk, snapshot>>

\* A failure is ignored, be the file missing or not.
Remove ==
  /\ at = "remove" /\ at' = "rename"
  /\ local' \in {local, [local EXCEPT ![Head(left)] = Missing]}
  /\ UNCHANGED <<server, now, tmp, left, todo, body, booting, snapshot>>

Rename(f) ==
  /\ at = "rename" /\ f = Head(left)
  /\ local' = [local EXCEPT ![f] = tmp[f]]
  /\ tmp' = [tmp EXCEPT ![f] = Missing]
  /\ NextFile
  /\ UNCHANGED <<server, now, body, snapshot>>

RenameFails ==
  /\ at = "rename" /\ SkipFile
  /\ UNCHANGED <<server, now, disk, body, snapshot>>

downloadUpdate(f) ==
  \/ Get(f) \/ GetFails(f) \/ Copy(f) \/ CopyFails
  \/ Remove \/ Rename(f) \/ RenameFails

-----------------------------------------------------------------------------
(* BuildEDDBInfo and SetEDDBData.                                           *)

\* A mutant of Readable: a file that is not there counts as empty.
ReadableIfMissing(f) == local[f].data # Page \/ Format[f] = "lines"

\* A file read line by line gives what its lines give, a page none; in the other
\* formats a page is not to be relied on. Lines are taken to fit the scanner: one over
\* 64 KB would end the table there, without an error.
Readable(f) ==
  \/ local[f].data \in 1 .. MaxVersion
  \/ local[f].data = Page /\ Format[f] = "lines"

\* A page of a single line passes for the head of a table.
MayBeRead(f) == Readable(f) \/ (local[f].data = Page /\ Format[f] = "csv")

FilesAreReadable == \A f \in Needed : Readable(f)
Contents == [f \in Needed |-> local[f].data]

Build ==
  /\ at = "build" /\ \A f \in Needed : MayBeRead(f)
  /\ snapshot' = Contents
  /\ at' = "idle"
  /\ UNCHANGED <<server, now, disk, left, todo, body, booting>>

BuildFails ==
  /\ at = "build" /\ ~FilesAreReadable
  /\ at' = "idle"
  /\ UNCHANGED <<server, now, disk, left, todo, body, booting, snapshot>>

\* A page whose further lines pass for listings ends the process.
BuildIsFatal ==
  /\ at = "build"
  /\ \E f \in Needed : Format[f] = "csv" /\ local[f].data = Page
  /\ \A f \in Needed : Format[f] # "csv" => Readable(f)
  /\ Crash

Next ==
  \/ \E f \in Files : Publish(f) \/ HeadAnswers(f) \/ downloadUpdate(f)
  \/ Tick \/ Crash
  \/ Start \/ checker \/ HeadFails \/ BeginDownloads \/ EndDownloads
  \/ Build \/ BuildFails \/ BuildIsFatal

Spec == Init /\ [][Next]_vars

(* The process is started when it is down, and in the end not stopped any   *)
(* more; the scheduler goes on; requests to the server and the disk do not  *)
(* fail for ever.                                                           *)
FairSpec ==
  /\ Spec
  /\ <>[][~Crash]_vars
  /\ WF_vars(Start \/ checker \/ BeginDownloads \/ EndDownloads \/ Remove
               \/ Build \/ BuildFails)
  /\ \A f \in Files :
       SF_vars(HeadAnswers(f)) /\ SF_vars(Get(f)) /\ SF_vars(Copy(f)) /\ SF_vars(Rename(f))

-----------------------------------------------------------------------------

(* A file of the cache is never a part of a download, although downloads    *)
(* break off, the process ends in them and temporary files of earlier runs  *)
(* are about (eddbupdater.go:143-156).                                      *)
FilesAreWhole == \A f \in Files : local[f].data # Part

(* Between checks the snapshot that is served is what the files give, as    *)
(* long as they are sure to be read: no download, be it in a check in which others  *)
(* fail, goes without the build that shows it (edicenter.go:123-139,        *)
(* eddbupdater.go:182-187).                                                 *)
SnapshotIsCurrent ==
  at = "idle" /\ FilesAreReadable => snapshot = Contents

\* The server has a newer version than the local file, or the file is no version
\* at all, but the version was published no later than the file was written: while
\* it was downloaded, or in that second.
Overlooked(f) ==
  /\ local[f].data \in Page .. published[f] - 1
  /\ modified[f] <= local[f].mtime

(* What the server published last is served in the end, unless a file is    *)
(* overlooked: this one, or one that holds a page about an error and keeps  *)
(* the build from being made. Whatever breaks off is made good, also between *)
(* Remove and Rename (eddbupdater.go:73-97, 151-156).                       *)
LatestIsServed ==
  <>[](\A f \in Needed :
        \/ snapshot # NoSnapshot /\ snapshot[f] = published[f]
        \/ \E g \in Needed : Overlooked(g) /\ (g = f \/ local[g].data = Page))
=============================================================================
