-------------------------- MODULE DataCache_proofs --------------------------
(* For any files, formats and order, whatever fails and whenever the process *)
(* ends: the cache holds whole files only, and between checks the snapshot   *)
(* is what they give.                                                       *)
EXTENDS DataCache, TLAPS

\* What a check has before it and behind it.
CheckIsOrdered ==
  /\ at = "head" => Len(todo) + Len(left) <= Len(Order)
  /\ at \in {"down", "idle", "build"} => todo = <<>>
  /\ at \in {"copy", "remove", "rename"} => left # <<>>
  /\ at \in {"get", "copy", "remove", "rename"} /\ left # <<>> => todo # <<>>

\* Nothing but a complete download gets as far as Remove.
DownloadIsWhole == at \in {"remove", "rename"} => tmp[Head(left)].data # Part

\* The files have not changed since the snapshot was built.
Settled ==
  \/ at = "idle"
  \/ at = "head" /\ ~booting
  \/ at = "get" /\ todo = <<>> /\ ~booting

SettledMeansCurrent == Settled /\ FilesAreReadable => snapshot = Contents

File == [data : Data, mtime : 0 .. Horizon]

\* The two halves of TypeOK: what is there, and where the check is.
DataTyped ==
  /\ published \in [Files -> 1 .. MaxVersion] /\ modified \in [Files -> 1 .. Horizon]
  /\ now \in 1 .. Horizon
  /\ local \in [Files -> File] /\ tmp \in [Files -> File]
  /\ body \in Page .. MaxVersion
  /\ snapshot \in [Needed -> Page .. MaxVersion] \cup {NoSnapshot}

CheckTyped ==
  /\ at \in {"down", "idle", "head", "get", "copy", "remove", "rename", "build"}
  /\ left \in Seq(Files) /\ Len(left) <= Len(Order)
  /\ todo \in Seq(Files) /\ Len(todo) <= Len(Order)
  /\ booting \in BOOLEAN

Typed == DataTyped /\ CheckTyped /\ CheckIsOrdered
IInv == Typed /\ FilesAreWhole /\ DownloadIsWhole /\ SettledMeansCurrent

-----------------------------------------------------------------------------
(* Facts about sequences and files.                                         *)

LEMMA TailOfFiles ==
  ASSUME left \in Seq(Files), left # <<>>
  PROVE  /\ Tail(left) \in Seq(Files) /\ Len(Tail(left)) = Len(left) - 1
         /\ Head(left) \in Files /\ Len(left) \in Nat /\ Len(left) > 0
OBVIOUS

LEMMA AppendOfFile ==
  ASSUME todo \in Seq(Files), NEW f \in Files
  PROVE  /\ Append(todo, f) \in Seq(Files) /\ Append(todo, f) # <<>>
         /\ Len(Append(todo, f)) = Len(todo) + 1 /\ Len(todo) \in Nat
OBVIOUS

LEMMA OrderIsFinite == Order \in Seq(Files) /\ Len(Order) \in Nat
BY DataAssumption

LEMMA NoFiles ==
  ASSUME NEW s, s = <<>>
  PROVE  s \in Seq(Files) /\ Len(s) = 0 /\ Len(s) <= Len(Order)
BY OrderIsFinite

LEMMA SomeFiles == Missing \in File /\ Started \in File
<1>1. {Nothing, Part} \subseteq Data /\ 0 \in 0 .. Horizon
  BY DataAssumption DEF Data, Nothing, Part
<1> QED  BY <1>1 DEF Missing, Started, File

LEMMA ContentIsData == Page .. MaxVersion \subseteq Data /\ 1 .. Horizon \subseteq 0 .. Horizon
BY DataAssumption DEF Data, Nothing, Page

LEMMA TypedIsTypeOK == Typed => TypeOK
BY DEF Typed, DataTyped, CheckTyped, TypeOK, File

-----------------------------------------------------------------------------
(* Types.                                                                   *)

LEMMA InitTyped == Init => Typed
<1> SUFFICES ASSUME Init PROVE Typed
  OBVIOUS
<1>1. DataTyped
  <2>1. published \in [Files -> 1 .. MaxVersion] /\ modified \in [Files -> 1 .. Horizon]
    BY DataAssumption DEF Init
  <2>2. local \in [Files -> File] /\ tmp \in [Files -> File]
    BY SomeFiles DEF Init
  <2>3. now \in 1 .. Horizon /\ body \in Page .. MaxVersion
    BY DataAssumption DEF Init, Page
  <2>4. snapshot \in [Needed -> Page .. MaxVersion] \cup {NoSnapshot}
    BY DEF Init
  <2> QED  BY <2>1, <2>2, <2>3, <2>4 DEF DataTyped
<1>2. CheckTyped
  <2>1. left = <<>> /\ todo = <<>>
    BY DEF Init
  <2>2. /\ left \in Seq(Files) /\ Len(left) <= Len(Order)
        /\ todo \in Seq(Files) /\ Len(todo) <= Len(Order)
    BY <2>1, NoFiles
  <2> QED  BY <2>2 DEF Init, CheckTyped
<1>3. CheckIsOrdered
  BY DEF Init, CheckIsOrdered
<1> QED  BY <1>1, <1>2, <1>3 DEF Typed

\* Every action keeps the types of the data.
LEMMA DataTypedStep == Typed /\ Next => DataTyped'
<1> SUFFICES ASSUME Typed, Next PROVE DataTyped'
  OBVIOUS
<1> USE DEF Typed
<1>p. Page \in Page .. MaxVersion
  BY DataAssumption DEF Page
<1>1. ASSUME NEW f \in Files, Publish(f) PROVE DataTyped'
  <2>1. published[f] + 1 \in 1 .. MaxVersion
    BY <1>1, DataAssumption DEF Publish, DataTyped
  <2> QED  BY <1>1, <2>1 DEF Publish, DataTyped, disk, check
<1>2. CASE Tick
  <2>1. now' \in 1 .. Horizon
    BY <1>2, DataAssumption DEF Tick, DataTyped
  <2> QED  BY <1>2, <2>1 DEF Tick, DataTyped, server, disk, check
<1>3. CASE Crash
  BY <1>3, <1>p DEF Crash, DataTyped, server, disk
<1>4. CASE Start \/ checker \/ HeadFails \/ BeginDownloads \/ EndDownloads
  BY <1>4 DEF Start, checker, BeginCheck, HeadFails, BeginDownloads, EndDownloads, DataTyped, server, disk
<1>5. ASSUME NEW f \in Files, HeadAnswers(f) PROVE DataTyped'
  BY <1>5 DEF HeadAnswers, DataTyped, server, disk
<1>6. ASSUME NEW f \in Files, Get(f) PROVE DataTyped'
  <2>1. body' \in Page .. MaxVersion
    BY <1>6, <1>p, DataAssumption DEF Get, DataTyped, Page
  <2>2. tmp' \in [Files -> File]
    BY <1>6, SomeFiles DEF Get, DataTyped
  <2> QED  BY <1>6, <2>1, <2>2 DEF Get, DataTyped, server
<1>7. ASSUME NEW f \in Files, GetFails(f) PROVE DataTyped'
  <2>1. tmp' \in [Files -> File]
    BY <1>7, SomeFiles DEF GetFails, DataTyped
  <2> QED  BY <1>7, <2>1 DEF GetFails, DataTyped, server
<1>8. ASSUME NEW f \in Files, Copy(f) PROVE DataTyped'
  <2>1. [data |-> body, mtime |-> now] \in File
    BY ContentIsData DEF DataTyped, File
  <2>2. tmp' \in [Files -> File]
    BY <1>8, <2>1 DEF Copy, DataTyped
  <2> QED  BY <1>8, <1>p, <2>2 DEF Copy, DataTyped, server
<1>9. CASE CopyFails
  BY <1>9, <1>p DEF CopyFails, DataTyped, server, disk
<1>10. CASE Remove
  <2>1. local' \in [Files -> File]
    BY <1>10, SomeFiles DEF Remove, DataTyped
  <2> QED  BY <1>10, <2>1 DEF Remove, DataTyped, server
<1>11. ASSUME NEW f \in Files, Rename(f) PROVE DataTyped'
  <2>1. local' \in [Files -> File] /\ tmp' \in [Files -> File]
    BY <1>11, SomeFiles DEF Rename, DataTyped
  <2> QED  BY <1>11, <2>1 DEF Rename, DataTyped, server
<1>12. CASE RenameFails
  BY <1>12 DEF RenameFails, DataTyped, server, disk
<1>13. CASE Build
  <2>1. ASSUME NEW f \in Needed PROVE local[f].data \in Page .. MaxVersion
    BY <1>13, DataAssumption DEF Build, MayBeRead, Readable, Page
  <2>2. snapshot' \in [Needed -> Page .. MaxVersion]
    BY <1>13, <2>1 DEF Build, Contents
  <2> QED  BY <1>13, <2>2 DEF Build, DataTyped, server, disk
<1>14. CASE BuildFails
  BY <1>14 DEF BuildFails, DataTyped, server, disk
<1>15. CASE BuildIsFatal
  BY <1>15, <1>3 DEF BuildIsFatal
<1> QED
  BY <1>1, <1>2, <1>3, <1>4, <1>5, <1>6, <1>7, <1>8, <1>9, <1>10, <1>11, <1>12,
     <1>13, <1>14, <1>15 DEF Next, downloadUpdate

\* A check that returns has nothing before it.
LEMMA ReturnIsTyped ==
  ASSUME NEW updates, Return(updates)
  PROVE  CheckTyped' /\ CheckIsOrdered'
<1>1. at' \in {"idle", "build"} /\ left' = <<>> /\ todo' = <<>> /\ booting' = FALSE
  BY DEF Return
<1>2. /\ left' \in Seq(Files) /\ Len(left') <= Len(Order)
      /\ todo' \in Seq(Files) /\ Len(todo') <= Len(Order)
  BY <1>1, NoFiles
<1>3. CheckTyped'
  BY <1>1, <1>2 DEF CheckTyped
<1>4. CheckIsOrdered'
  BY <1>1 DEF CheckIsOrdered
<1> QED  BY <1>3, <1>4

LEMMA NextFileIsTyped ==
  ASSUME Typed, at \in {"get", "copy", "rename"}, left # <<>>, NextFile
  PROVE  CheckTyped' /\ CheckIsOrdered'
<1>1. Tail(left) \in Seq(Files) /\ Len(Tail(left)) <= Len(Order)
  BY TailOfFiles, OrderIsFinite DEF Typed, CheckTyped
<1>2. CheckTyped'
  BY <1>1 DEF Typed, CheckTyped, NextFile
<1>3. CheckIsOrdered'
  BY DEF Typed, CheckIsOrdered, NextFile
<1> QED  BY <1>2, <1>3

LEMMA CheckTypedStep == Typed /\ Next => CheckTyped' /\ CheckIsOrdered'
<1> SUFFICES ASSUME Typed, Next PROVE CheckTyped' /\ CheckIsOrdered'
  OBVIOUS
<1>t. CheckTyped /\ CheckIsOrdered
  BY DEF Typed
<1>1. ASSUME UNCHANGED check PROVE CheckTyped' /\ CheckIsOrdered'
  BY <1>1, <1>t DEF CheckTyped, CheckIsOrdered, check
<1>2. ASSUME NEW f \in Files, Publish(f) PROVE CheckTyped' /\ CheckIsOrdered'
  BY <1>2, <1>1 DEF Publish
<1>3. CASE Tick
  BY <1>3, <1>1 DEF Tick
<1>4. CASE Crash
  <2>1. at' = "down" /\ left' = <<>> /\ todo' = <<>> /\ booting' = FALSE
    BY <1>4 DEF Crash
  <2>2. /\ left' \in Seq(Files) /\ Len(left') <= Len(Order)
        /\ todo' \in Seq(Files) /\ Len(todo') <= Len(Order)
    BY <2>1, NoFiles
  <2>3. CheckTyped'
    BY <2>1, <2>2 DEF CheckTyped
  <2>4. CheckIsOrdered'
    BY <2>1 DEF CheckIsOrdered
  <2> QED  BY <2>3, <2>4
<1>5. CASE Start \/ checker
  <2>1. /\ at' = "head" /\ left' = Order /\ booting' \in BOOLEAN
        /\ todo' = <<>>
    BY <1>5, <1>t DEF Start, checker, BeginCheck, CheckIsOrdered
  <2>2. /\ todo' \in Seq(Files) /\ Len(todo') = 0 /\ Len(todo') <= Len(Order)
    BY <2>1, NoFiles
  <2>3. CheckTyped'
    BY <2>1, <2>2, OrderIsFinite DEF CheckTyped
  <2>4. CheckIsOrdered'
    BY <2>1, <2>2, OrderIsFinite DEF CheckIsOrdered
  <2> QED  BY <2>3, <2>4
<1>6. CASE HeadFails
  BY <1>6, ReturnIsTyped DEF HeadFails
<1>7. CASE EndDownloads
  BY <1>7, ReturnIsTyped DEF EndDownloads
<1>8. CASE BeginDownloads
  <2>1. CheckTyped'
    BY <1>8, <1>t DEF BeginDownloads, CheckTyped
  <2>2. CheckIsOrdered'
    BY <1>8 DEF BeginDownloads, CheckIsOrdered
  <2> QED  BY <2>1, <2>2
<1>9. ASSUME NEW f \in Files, HeadAnswers(f) PROVE CheckTyped' /\ CheckIsOrdered'
  <2>1. /\ at = "head" /\ at' = "head" /\ booting' = booting
        /\ left' = Tail(left) /\ todo' \in {todo, Append(todo, f)}
        /\ left # <<>>
    BY <1>9 DEF HeadAnswers
  <2>2. left' \in Seq(Files) /\ Len(left') = Len(left) - 1 /\ Len(left) \in Nat
    BY <2>1, <1>t, TailOfFiles DEF CheckTyped
  <2>3. /\ todo' \in Seq(Files) /\ Len(todo) \in Nat
        /\ Len(todo') = Len(todo) \/ Len(todo') = Len(todo) + 1
    BY <2>1, <1>t, AppendOfFile DEF CheckTyped
  <2>4. Len(todo) + Len(left) <= Len(Order)
    BY <2>1, <1>t DEF CheckIsOrdered
  <2>5. Len(todo') + Len(left') <= Len(Order) /\ Len(todo') <= Len(Order) /\ Len(left') <= Len(Order)
    BY <2>2, <2>3, <2>4, <2>1, TailOfFiles, <1>t, OrderIsFinite DEF CheckTyped
  <2>6. CheckTyped'
    BY <2>1, <2>2, <2>3, <2>5, <1>t DEF CheckTyped
  <2>7. CheckIsOrdered'
    BY <2>1, <2>5 DEF CheckIsOrdered
  <2> QED  BY <2>6, <2>7
<1>10. ASSUME NEW f \in Files, Get(f) PROVE CheckTyped' /\ CheckIsOrdered'
  <2>1. CheckTyped'
    BY <1>10, <1>t DEF Get, CheckTyped
  <2>2. CheckIsOrdered'
    BY <1>10, <1>t DEF Get, CheckIsOrdered
  <2> QED  BY <2>1, <2>2
<1>11. ASSUME NEW f \in Files, GetFails(f) PROVE CheckTyped' /\ CheckIsOrdered'
  BY <1>11, NextFileIsTyped DEF GetFails, SkipFile
<1>12. ASSUME NEW f \in Files, Copy(f) PROVE CheckTyped' /\ CheckIsOrdered'
  <2>1. CheckTyped'
    BY <1>12, <1>t DEF Copy, CheckTyped
  <2>2. CheckIsOrdered'
    BY <1>12, <1>t DEF Copy, CheckIsOrdered
  <2> QED  BY <2>1, <2>2
<1>13. CASE CopyFails
  BY <1>13, <1>t, NextFileIsTyped DEF CopyFails, SkipFile, CheckIsOrdered
<1>14. CASE Remove
  <2>1. CheckTyped'
    BY <1>14, <1>t DEF Remove, CheckTyped
  <2>2. CheckIsOrdered'
    BY <1>14, <1>t DEF Remove, CheckIsOrdered
  <2> QED  BY <2>1, <2>2
<1>15. ASSUME NEW f \in Files, Rename(f) PROVE CheckTyped' /\ CheckIsOrdered'
  BY <1>15, <1>t, NextFileIsTyped DEF Rename, CheckIsOrdered
<1>16. CASE RenameFails
  BY <1>16, <1>t, NextFileIsTyped DEF RenameFails, SkipFile, CheckIsOrdered
<1>17. CASE Build \/ BuildFails
  <2>1. CheckTyped'
    BY <1>17, <1>t DEF Build, BuildFails, CheckTyped
  <2>2. CheckIsOrdered'
    BY <1>17, <1>t DEF Build, BuildFails, CheckIsOrdered
  <2> QED  BY <2>1, <2>2
<1>18. CASE BuildIsFatal
  BY <1>18, <1>4 DEF BuildIsFatal
<1> QED
  BY <1>2, <1>3, <1>4, <1>5, <1>6, <1>7, <1>8, <1>9, <1>10, <1>11, <1>12, <1>13,
     <1>14, <1>15, <1>16, <1>17, <1>18 DEF Next, downloadUpdate

LEMMA TypedStep == Typed /\ [Next]_vars => Typed'
<1>1. Typed /\ Next => Typed'
  BY DataTypedStep, CheckTypedStep DEF Typed
<1>2. Typed /\ UNCHANGED vars => Typed'
  BY DEF Typed, DataTyped, CheckTyped, CheckIsOrdered, vars, server, disk, check
<1> QED  BY <1>1, <1>2

-----------------------------------------------------------------------------
(* No part of a download becomes a file.                                    *)

LEMMA FilesStayWhole ==
  Typed /\ FilesAreWhole /\ DownloadIsWhole /\ Next => FilesAreWhole'
<1> SUFFICES ASSUME Typed, FilesAreWhole, DownloadIsWhole, Next PROVE FilesAreWhole'
  OBVIOUS
<1>t. local \in [Files -> File]
  BY DEF Typed, DataTyped
<1>1. CASE UNCHANGED local
  BY <1>1 DEF FilesAreWhole
<1>2. CASE Remove
  BY <1>2, <1>t DEF Remove, FilesAreWhole, Missing, Nothing, Part
<1>3. ASSUME NEW f \in Files, Rename(f) PROVE FilesAreWhole'
  <2>1. tmp[f].data # Part
    BY <1>3 DEF Rename, DownloadIsWhole
  <2> QED  BY <1>3, <2>1, <1>t DEF Rename, FilesAreWhole
<1> QED
  BY <1>1, <1>2, <1>3 DEF Next, downloadUpdate, Publish, Tick, Crash, Start, checker,
     BeginCheck, HeadAnswers, HeadFails, BeginDownloads, EndDownloads, Get, GetFails,
     Copy, CopyFails, RenameFails, Build, BuildFails, BuildIsFatal, disk

LEMMA DownloadStaysWhole == Typed /\ DownloadIsWhole /\ Next => DownloadIsWhole'
<1> SUFFICES ASSUME Typed, DownloadIsWhole, Next PROVE DownloadIsWhole'
  OBVIOUS
<1>t. tmp \in [Files -> File] /\ body \in Page .. MaxVersion
  BY DEF Typed, DataTyped
<1>1. CASE UNCHANGED <<tmp, at, left>>
  BY <1>1 DEF DownloadIsWhole
<1>2. CASE at' \notin {"remove", "rename"}
  BY <1>2 DEF DownloadIsWhole
<1>3. ASSUME NEW f \in Files, Copy(f) PROVE DownloadIsWhole'
  <2>1. tmp'[f].data = body
    BY <1>3, <1>t DEF Copy
  <2>2. f = Head(left')
    BY <1>3 DEF Copy
  <2>3. body # Part
    BY <1>t, DataAssumption DEF Page, Part
  <2> QED  BY <2>1, <2>2, <2>3 DEF DownloadIsWhole
<1>4. CASE Remove
  BY <1>4 DEF Remove, DownloadIsWhole
<1> QED
  BY <1>1, <1>2, <1>3, <1>4 DEF Next, downloadUpdate, Publish, Tick, Crash, Start,
     checker, BeginCheck, HeadAnswers, HeadFails, BeginDownloads, EndDownloads, Return,
     Get, GetFails, CopyFails, Rename, RenameFails, SkipFile, NextFile, Build,
     BuildFails, BuildIsFatal, disk, check

-----------------------------------------------------------------------------
(* The snapshot is that of the files whenever no check is about to change   *)
(* them: a check that downloads does not return without a build.            *)

LEMMA SnapshotStaysCurrent ==
  Typed /\ SettledMeansCurrent /\ Next => SettledMeansCurrent'
<1> SUFFICES ASSUME Typed, SettledMeansCurrent, Next PROVE SettledMeansCurrent'
  OBVIOUS
<1>t. CheckTyped /\ CheckIsOrdered
  BY DEF Typed
<1>1. ASSUME UNCHANGED <<local, snapshot>>, Settled' => Settled PROVE SettledMeansCurrent'
  BY <1>1 DEF SettledMeansCurrent, FilesAreReadable, Readable, Contents
<1>2. ASSUME NEW f \in Files, Publish(f) PROVE SettledMeansCurrent'
  BY <1>1, <1>2 DEF Publish, disk, check, Settled
<1>3. CASE Tick
  BY <1>1, <1>3 DEF Tick, disk, check, Settled
<1>4. CASE Crash
  BY <1>4 DEF Crash, SettledMeansCurrent, Settled
<1>5. CASE Start \/ checker
  BY <1>1, <1>5 DEF Start, checker, BeginCheck, disk, Settled
<1>6. CASE HeadFails
  BY <1>1, <1>6, <1>t DEF HeadFails, Return, disk, Settled, CheckTyped
<1>7. CASE BeginDownloads
  BY <1>1, <1>7 DEF BeginDownloads, disk, Settled
<1>8. CASE EndDownloads
  BY <1>1, <1>8, <1>t DEF EndDownloads, Return, disk, Settled, CheckTyped
<1>9. ASSUME NEW f \in Files, HeadAnswers(f) PROVE SettledMeansCurrent'
  BY <1>1, <1>9 DEF HeadAnswers, disk, Settled
<1>10. ASSUME at \in {"get", "copy", "remove", "rename"}, left # <<>>, todo' = todo,
              at' \in {"get", "copy", "remove", "rename"}
       PROVE  SettledMeansCurrent'
  <2>1. todo' # <<>>
    BY <1>10, <1>t DEF CheckIsOrdered
  <2> QED  BY <1>10, <2>1 DEF SettledMeansCurrent, Settled
<1>11. ASSUME NEW f \in Files, downloadUpdate(f) PROVE SettledMeansCurrent'
  <2>1. at \in {"get", "copy", "remove", "rename"} /\ left # <<>>
    BY <1>11, <1>t DEF downloadUpdate, Get, GetFails, Copy, CopyFails, Remove, Rename,
       RenameFails, CheckIsOrdered
  <2>2. todo' = todo /\ at' \in {"get", "copy", "remove", "rename"}
    BY <1>11 DEF downloadUpdate, Get, GetFails, Copy, CopyFails, Remove, Rename,
       RenameFails, SkipFile, NextFile
  <2> QED  BY <2>1, <2>2, <1>10
<1>12. CASE Build
  BY <1>12 DEF Build, SettledMeansCurrent, FilesAreReadable, Readable, Contents, disk
<1>13. CASE BuildFails
  BY <1>13 DEF BuildFails, SettledMeansCurrent, FilesAreReadable, Readable, disk
<1>14. CASE BuildIsFatal
  BY <1>14, <1>4 DEF BuildIsFatal
<1> QED
  BY <1>2, <1>3, <1>4, <1>5, <1>6, <1>7, <1>8, <1>9, <1>11, <1>12, <1>13, <1>14 DEF Next

-----------------------------------------------------------------------------

LEMMA InitIInv == Init => IInv
<1> SUFFICES ASSUME Init PROVE IInv
  OBVIOUS
<1>1. FilesAreWhole
  <2>1. ASSUME NEW f \in Files PROVE local[f] = Missing
    BY DEF Init
  <2>2. Missing.data # Part
    BY DEF Missing, Nothing, Part
  <2> QED  BY <2>1, <2>2 DEF FilesAreWhole
<1>2. DownloadIsWhole /\ SettledMeansCurrent
  BY DEF Init, DownloadIsWhole, SettledMeansCurrent, Settled
<1> QED  BY <1>1, <1>2, InitTyped DEF IInv

LEMMA NextIInv == IInv /\ [Next]_vars => IInv'
<1>1. IInv /\ Next => IInv'
  BY TypedStep, FilesStayWhole, DownloadStaysWhole, SnapshotStaysCurrent DEF IInv
<1>2. IInv /\ UNCHANGED vars => IInv'
  <2> SUFFICES ASSUME IInv, UNCHANGED vars PROVE IInv'
    OBVIOUS
  <2>1. Typed'
    BY TypedStep DEF IInv
  <2>2. FilesAreWhole' /\ DownloadIsWhole'
    BY DEF IInv, FilesAreWhole, DownloadIsWhole, vars, disk, check
  <2>3. SettledMeansCurrent'
    BY DEF IInv, SettledMeansCurrent, Settled, FilesAreReadable, Readable, Contents,
       vars, disk, check
  <2> QED  BY <2>1, <2>2, <2>3 DEF IInv
<1> QED  BY <1>1, <1>2

LEMMA Invariance == Spec => []IInv
BY InitIInv, NextIInv, PTL DEF Spec

\* Every state has the types of TypeOK (the whole of DataCache).
THEOREM CacheTypes == Spec => []TypeOK
<1>1. IInv => TypeOK
  BY TypedIsTypeOK DEF IInv
<1> QED  BY <1>1, Invariance, PTL

\* No file of the cache is ever a part of a download (eddbupdater.go:143-161).
THEOREM CacheFilesAreWhole == Spec => []FilesAreWhole
<1>1. IInv => FilesAreWhole
  BY DEF IInv
<1> QED  BY <1>1, Invariance, PTL

\* Between checks the snapshot is what the files give (edicenter.go:123-139).
THEOREM CacheSnapshotIsCurrent == Spec => []SnapshotIsCurrent
<1>1. IInv => SnapshotIsCurrent
  BY DEF IInv, SettledMeansCurrent, Settled, SnapshotIsCurrent
<1> QED  BY <1>1, Invariance, PTL
=============================================================================
