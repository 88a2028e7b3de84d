------------------------------ MODULE GIServer ------------------------------
(* The galaxy information server, src/edgic/ediserver.go: gRPC runs every   *)
(* call in a goroutine of its own, and these share the snapshot of the      *)
(* data, which is replaced while they run, the EDSM connector and the       *)
(* collector of statistics. The calls come from the client of               *)
(* src/edgic/ediclient.go, which waits a second and then goes away; the     *)
(* handler does not notice and goes on.                                     *)
EXTENDS EDDBInfo

CONSTANTS
  MaxVersion,   \* model bound: versions of the files from EDDB
  Data,         \* Data[v]: the files of version v
  Galaxy,       \* Galaxy[v]: the snapshot that is built of them
  EDSMSystems,  \* what EDSM answers: from some names to summaries
  EDSMName,     \* the name in such an answer, which need not be the one asked for
  MaxRequests,  \* slots of the connector: NewEDSMConnector(3)
  Totals,       \* the numbers that the collector of statistics may report
  Handlers,     \* model bound: calls that are handled at a time
  Clients,      \* who calls: each has one call at a time
  Gone          \* the client of a handler whose client went away

NoData == 0
Versions == 1 .. MaxVersion

ASSUME GIServerAssumption ==
  /\ MaxVersion \in Nat
  /\ \A v \in Versions : Galaxy[v] \in BuildEDDBInfo(Data[v])
  /\ DOMAIN EDSMSystems \subseteq Names
  /\ EDSMName \in [DOMAIN EDSMSystems -> Names]
  /\ MaxRequests \in Nat \ {0}
  /\ Totals \subseteq Nat
  /\ Gone \notin Clients

VARIABLES
  up,         \* the process runs and serves
  files,      \* version of the files in the data cache, or NoData
  eddbInfo,   \* version of the snapshot that is served, or NoData
  edsmCache,  \* what the connector holds: name -> [summary, fresh]
  handler     \* the calls being handled

server == <<up, files, eddbInfo, edsmCache>>
giVars == <<server, handler>>

Methods ==
  {"GetDistance", "GetSystemSummary", "GetHumanWorldStat", "GetDockableStations",
   "GetInterestingSystem4State", "GetMostVisitedSystems", "GetGalaxyActivityStat"}

\* The calls the protocol has; activity is also reported around no system.
IsCall(c) ==
  /\ c.method \in Methods /\ c.names \in Seq(Names)
  /\ Len(c.names) = IF c.method = "GetDistance" THEN 2
                    ELSE IF c.method = "GetHumanWorldStat" THEN 0
                    ELSE IF c.method = "GetGalaxyActivityStat" /\ c.names = <<>> THEN 0
                    ELSE 1

\* Replies: an error or a value, with a field of its own for every method.
Unknown == [error |-> "unknown"]
NotHabitable(names) == [error |-> "notHabitable", suggested |-> names]
Refused == [error |-> "refused"]
SummaryReply(summary) == [error |-> "none", summary |-> summary]
DistanceReply(distance) == [error |-> "none", distance |-> distance]
HumanWorldReply(stat) == [error |-> "none", stat |-> stat]
StationsReply(stations) == [error |-> "none", stations |-> stations]
SystemsReply(systems) == [error |-> "none", systems |-> systems]
TotalReply(n) == [error |-> "none", total |-> n]
NoReply == [error |-> "no reply"]

\* What EDSM says of a system, whether asked for it or for one it holds to be the same.
EDSMTells(n) ==
  {EDSMSystems[asked] : asked \in {k \in DOMAIN EDSMSystems : k = n \/ EDSMName[k] = n}}

\* Less than an hour has passed since the answer was entered.
IsFresh(n) == n \in DOMAIN edsmCache /\ edsmCache[n].fresh

NoCall == [method |-> "none", names |-> <<>>]

Free ==
  [at |-> "free", client |-> Gone, call |-> NoCall, loaded |-> NoData,
   found |-> <<>>, since |-> NoData, knew |-> {}, reply |-> NoReply]

GITypeOK ==
  /\ up \in BOOLEAN
  /\ files \in Versions \cup {NoData} /\ eddbInfo \in NoData .. files
  /\ DOMAIN edsmCache \subseteq Names
  /\ \A n \in DOMAIN edsmCache :
       edsmCache[n] \in [summary : EDSMTells(n), fresh : BOOLEAN]
  /\ \A h \in Handlers :
       /\ handler[h].at \in {"free", "load", "lookup", "connector", "edsm", "found", "collector",
                             "replied"}
       /\ handler[h].client \in Clients \cup {Gone}
       /\ handler[h].at = "free" => handler[h] = Free
       /\ handler[h].at # "free" =>
            /\ up
            /\ IsCall(handler[h].call)
            /\ Len(handler[h].found) <= Len(handler[h].call.names)
       /\ handler[h].at \in {"connector", "edsm"} => Len(handler[h].found) < Len(handler[h].call.names)
       /\ handler[h].at = "replied" <=> handler[h].reply # NoReply

GIInit ==
  /\ up = FALSE /\ files = NoData /\ eddbInfo = NoData /\ edsmCache = <<>>
  /\ handler = [h \in Handlers |-> Free]

-----------------------------------------------------------------------------
(* The process: src/cmd/edicenter/edicenter.go.                             *)

\* main updates the files, or fails to, builds a snapshot of those there are, or
\* fails to, and serves in each case.
Serve ==
  /\ ~up /\ up' = TRUE
  /\ files' \in {files, files + 1} \cap (Versions \cup {NoData})
  /\ eddbInfo' \in {NoData, files'}
  /\ UNCHANGED <<edsmCache, handler>>

\* The checker brings new files, and builds and sets a snapshot of them or fails to.
SetEDDBData ==
  /\ up /\ files < MaxVersion /\ files' = files + 1
  /\ eddbInfo' \in {eddbInfo, files'}
  /\ UNCHANGED <<up, edsmCache, handler>>

End ==
  /\ up' = FALSE /\ eddbInfo' = NoData /\ edsmCache' = <<>>
  /\ handler' = [h \in Handlers |-> Free]
  /\ UNCHANGED files

Crash == up /\ End

-----------------------------------------------------------------------------
(* The handlers.                                                            *)

At(h, place) == handler[h].at = place
Arg(h, i) == handler[h].call.names[i]

\* The snapshot is loaded first, or the systems are looked up, if there are any.
First(call) ==
  IF call.method \in {"GetHumanWorldStat", "GetDockableStations", "GetInterestingSystem4State"}
    THEN "load"
  ELSE IF call.names = <<>> THEN "collector" ELSE "lookup"

\* A new call runs in a goroutine of its own. History variables: since, what was served
\* when it came, and knew, the systems of which the connector has held one fresh answer
\* ever since.
Accept(h, client, call) ==
  /\ up /\ At(h, "free")
  /\ handler' = [handler EXCEPT ![h] =
                   [Free EXCEPT !.at = First(call), !.client = client, !.call = call,
                                !.since = eddbInfo,
                                !.knew = {n \in Names : IsFresh(n) /\ \E i \in DOMAIN call.names : call.names[i] = n}]]
  /\ UNCHANGED server

\* A reply that nobody waits for is thrown away.
Replied(h, reply) ==
  IF handler[h].client = Gone THEN Free
  ELSE [handler[h] EXCEPT !.at = "replied", !.reply = reply, !.found = <<>>, !.loaded = NoData]

Reply(h, reply) == handler' = [handler EXCEPT ![h] = Replied(h, reply)]

\* eddbInfo.Load().(*eddb.EDDBInfo) panics as long as nothing was stored, and with
\* it the process.
Panic(h) == (At(h, "load") \/ At(h, "lookup")) /\ eddbInfo = NoData /\ End

GetHumanWorldStatReply(h) ==
  /\ handler[h].call.method = "GetHumanWorldStat"
  /\ Reply(h, HumanWorldReply(GetHumanWorldStat(Galaxy[eddbInfo])))

GetDockableStationsReply(h) ==
  LET info == Galaxy[eddbInfo] IN
  /\ handler[h].call.method = "GetDockableStations"
  /\ IF IsKnown(info, Arg(h, 1))
       THEN Reply(h, StationsReply(GetDockableStations(info, Arg(h, 1))))
       ELSE \E names \in Cut(GetSimilarSystemNames(info, Arg(h, 1)), 10) :
              Reply(h, NotHabitable(names))

\* The snapshot is kept for the end of the call; the place is looked up in the
\* one that is served by then.
LoadForStates(h) ==
  /\ handler[h].call.method = "GetInterestingSystem4State"
  /\ handler' = [handler EXCEPT ![h].loaded = eddbInfo, ![h].at = "lookup"]

Load(h) ==
  /\ At(h, "load") /\ eddbInfo # NoData
  /\ GetHumanWorldStatReply(h) \/ GetDockableStationsReply(h) \/ LoadForStates(h)
  /\ UNCHANGED server

\* getSystemSummaryByName, for one name after another; when the last is found only the
\* reply is left to make.
Name(h) == Arg(h, Len(handler[h].found) + 1)

WithFound(h, summary) ==
  LET all == Append(handler[h].found, summary)
      done == Len(all) = Len(handler[h].call.names)
  IN  [handler EXCEPT ![h] =
         IF done /\ @.client = Gone THEN Free
         ELSE [@ EXCEPT !.found = all, !.at = IF done THEN "found" ELSE "lookup"]]

Found(h, summary) == handler' = WithFound(h, summary)

\* A mutant of Lookup: what the connector holds comes before the snapshot.
LookupInCacheFirst(h) ==
  /\ At(h, "lookup") /\ eddbInfo # NoData
  /\ IF Name(h) \in DOMAIN edsmCache
       THEN Found(h, edsmCache[Name(h)].summary)
     ELSE IF IsKnown(Galaxy[eddbInfo], Name(h))
       THEN Found(h, SystemSummaryByName(Galaxy[eddbInfo], Name(h)))
     ELSE handler' = [handler EXCEPT ![h].at = "connector"]
  /\ UNCHANGED server

\* The snapshot that is served is asked first, and the connector if it lacks the system.
Lookup(h) ==
  /\ At(h, "lookup") /\ eddbInfo # NoData
  /\ IF IsKnown(Galaxy[eddbInfo], Name(h))
       THEN Found(h, SystemSummaryByName(Galaxy[eddbInfo], Name(h)))
       ELSE handler' = [handler EXCEPT ![h].at = "connector"]
  /\ UNCHANGED server

(* The connector, reduced to what its callers can tell; EDSMConnector has   *)
(* its steps. GetSystemInfo looks into the cache and at the slots under one *)
(* lock. A slot is seen to be free before it is taken: a question may be    *)
(* asked although all are taken by then, but none is turned away otherwise. *)
SlotsTaken == Cardinality({h \in Handlers : At(h, "edsm")}) >= MaxRequests

ReplyFromCache(h) ==
  /\ At(h, "connector") /\ Name(h) \in DOMAIN edsmCache
  /\ edsmCache[Name(h)].fresh \/ SlotsTaken
  /\ Found(h, edsmCache[Name(h)].summary)
  /\ UNCHANGED server

ReplyBusy(h) ==
  /\ At(h, "connector") /\ Name(h) \notin DOMAIN edsmCache /\ SlotsTaken
  /\ Reply(h, Unknown)
  /\ UNCHANGED server

AskEDSM(h) ==
  /\ At(h, "connector") /\ ~IsFresh(Name(h))
  /\ handler' = [handler EXCEPT ![h].at = "edsm"]
  /\ UNCHANGED server

\* There is no longer one answer that the connector held all the time.
Unlearn(handlers, n) == [h \in Handlers |-> [handlers[h] EXCEPT !.knew = @ \ {n}]]

Entered(n, summary) ==
  [m \in DOMAIN edsmCache \cup {n} |->
     IF m = n THEN [summary |-> summary, fresh |-> TRUE] ELSE edsmCache[m]]

\* A mutant of EDSMAnswers: the request to EDSM ends with the call of the client.
EDSMAnswersTheClient(h) ==
  /\ At(h, "edsm") /\ Name(h) \in DOMAIN EDSMSystems
  /\ IF handler[h].client = Gone
       THEN UNCHANGED edsmCache
       ELSE edsmCache' = Entered(EDSMName[Name(h)], EDSMSystems[Name(h)])
  /\ handler' = Unlearn(WithFound(h, EDSMSystems[Name(h)]), EDSMName[Name(h)])
  /\ UNCHANGED <<up, files, eddbInfo>>

\* The connector keeps what EDSM answers, under the name that is in the answer, whether
\* or not somebody still waits.
EDSMAnswers(h) ==
  /\ At(h, "edsm") /\ Name(h) \in DOMAIN EDSMSystems
  /\ edsmCache' = Entered(EDSMName[Name(h)], EDSMSystems[Name(h)])
  /\ handler' = Unlearn(WithFound(h, EDSMSystems[Name(h)]), EDSMName[Name(h)])
  /\ UNCHANGED <<up, files, eddbInfo>>

\* EDSM does not know the system, there is an error or no name in the answer. What the
\* connector holds is no reply then.
EDSMFails(h) ==
  /\ At(h, "edsm")
  /\ Reply(h, Unknown)
  /\ UNCHANGED server

\* An hour has passed.
Expire(n) ==
  /\ IsFresh(n)
  /\ edsmCache' = [edsmCache EXCEPT ![n].fresh = FALSE]
  /\ handler' = Unlearn(handler, n)
  /\ UNCHANGED <<up, files, eddbInfo>>

GetSystemInfo(h) == ReplyFromCache(h) \/ ReplyBusy(h) \/ AskEDSM(h)
fetchSystem(h) == EDSMAnswers(h) \/ EDSMFails(h)

GetSystemSummaryReply(h) ==
  /\ handler[h].call.method = "GetSystemSummary"
  /\ Reply(h, SummaryReply(handler[h].found[1]))

GetDistanceReply(h) ==
  /\ handler[h].call.method = "GetDistance"
  /\ Reply(h, DistanceReply(Distance(handler[h].found[1].place, handler[h].found[2].place)))

GetInterestingSystem4StateReply(h) ==
  LET call == handler[h].call IN
  /\ call.method = "GetInterestingSystem4State"
  /\ IF call.states = {} \/ call.minPop < 1
       THEN Reply(h, Refused)
       ELSE \E ids \in FindStates(Galaxy[handler[h].loaded], call.states,
                                  handler[h].found[1].place, call.minPop, call.maxDistance, 20) :
              Reply(h, SystemsReply(ids))

\* The report of the collector takes until its goroutine comes to it.
AskCollector(h) ==
  /\ handler[h].call.method \in {"GetMostVisitedSystems", "GetGalaxyActivityStat"}
  /\ handler' = [handler EXCEPT ![h].at = "collector", ![h].found = <<>>]

Answer(h) ==
  /\ At(h, "found")
  /\ \/ GetSystemSummaryReply(h) \/ GetDistanceReply(h)
     \/ GetInterestingSystem4StateReply(h) \/ AskCollector(h)
  /\ UNCHANGED server

CollectorAnswers(h) ==
  /\ At(h, "collector")
  /\ \E n \in Totals : Reply(h, TotalReply(n))
  /\ UNCHANGED server

\* Clients give up, or end. A handler that has nothing left but its reply is not
\* followed any further.
Leave(clients) ==
  handler' = [h \in Handlers |->
                IF handler[h].client \notin clients THEN handler[h]
                ELSE IF handler[h].at \in {"found", "collector", "replied"} THEN Free
                ELSE [handler[h] EXCEPT !.client = Gone, !.since = NoData, !.knew = {}]]

HandlerStep(h) ==
  Panic(h) \/ Load(h) \/ Lookup(h) \/ GetSystemInfo(h) \/ fetchSystem(h) \/ Answer(h)
    \/ CollectorAnswers(h)

ServerStep ==
  \/ Serve \/ SetEDDBData \/ Crash
  \/ \E h \in Handlers : HandlerStep(h)
  \/ \E n \in Names : Expire(n)
=============================================================================
