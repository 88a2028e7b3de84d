---------------------------- MODULE Talker_proofs ----------------------------
(* Proofs about GIServer and Talker. The invariant says of every handler     *)
(* what it has found so far: each summary is true of some version served     *)
(* since the call came, the connector is asked only if a version lacked the  *)
(* system, and EDSM only if the connector held no fresh answer. Of the       *)
(* connector it says that what it holds of a system EDSM told of it.         *)
EXTENDS Talker, TLAPS

\* The versions served while a call was handled, in a record of a handler.
Served(r, info) == (r.since .. info) \ {NoData}

\* r is a record with the fields of Free.
IsRecord(r) ==
  r \in [at : {r.at}, client : {r.client}, call : {r.call}, loaded : {r.loaded},
         found : {r.found}, since : {r.since}, knew : {r.knew}, reply : {r.reply}]

AllSummaries == UNION {SummariesIn(Versions, n) : n \in Names}

FoundIsTrue(r, info) ==
  /\ r.found \in Seq(AllSummaries)
  /\ \A i \in 1 .. Len(r.found) : r.found[i] \in SummariesIn(Served(r, info), r.call.names[i])

NameMissed(r, info) ==
  \E v \in Served(r, info) : ~IsKnown(Galaxy[v], r.call.names[Len(r.found) + 1])

NameForgotten(r) == r.call.names[Len(r.found) + 1] \notin r.knew

FreshNames == {n \in DOMAIN edsmCache : edsmCache[n].fresh}

OnlyLoads == {"GetHumanWorldStat", "GetDockableStations"}
AsksCollector == {"GetMostVisitedSystems", "GetGalaxyActivityStat"}

\* What holds of a call in every place of its handler.
PlaceIsRight(r, info) ==
  /\ r.at = "load" => r.call.method \in OnlyLoads \cup {"GetInterestingSystem4State"} /\ r.found = <<>>
  /\ r.at \in {"lookup", "connector", "edsm"} => Len(r.found) < Len(r.call.names)
  /\ r.at = "found" => Len(r.found) = Len(r.call.names)
  /\ r.at \in {"lookup", "connector", "edsm", "found"} =>
       /\ r.call.method \notin OnlyLoads
       /\ r.call.method = "GetInterestingSystem4State" => r.loaded \in Served(r, info)
  /\ r.at \in {"connector", "edsm"} => NameMissed(r, info)
  /\ r.at = "edsm" => NameForgotten(r)
  /\ r.at = "collector" => r.call.method \in AsksCollector
  /\ r.at = "replied" => IsTrue(Served(r, info), r.knew, r.call, r.reply)

IsRight(r, info, fresh) ==
  /\ IsRecord(r)
  /\ r.at # "free" =>
       /\ IsCall(r.call)
       /\ r.since \in NoData .. info
       /\ r.knew \subseteq fresh
       /\ FoundIsTrue(r, info)
       /\ PlaceIsRight(r, info)

CacheIsTrue ==
  /\ edsmCache = [n \in DOMAIN edsmCache |-> edsmCache[n]]
  /\ DOMAIN edsmCache \subseteq Names
  /\ \A n \in DOMAIN edsmCache : edsmCache[n] \in [summary : EDSMTells(n), fresh : BOOLEAN]

ServerOK ==
  /\ files \in NoData .. MaxVersion
  /\ eddbInfo \in NoData .. files
  /\ CacheIsTrue
  /\ ~up => \A h \in Handlers : handler[h].at = "free"

HandlersAreRight ==
  /\ handler = [h \in Handlers |-> handler[h]]
  /\ \A h \in Handlers : IsRight(handler[h], eddbInfo, FreshNames)

LEMMA SummariesGrow ==
  ASSUME NEW vs, NEW ws, vs \subseteq ws, NEW n
  PROVE  SummariesIn(vs, n) \subseteq SummariesIn(ws, n)
BY DEF SummariesIn

\* What is true of some versions is true of more, and for one who knows less.
LEMMA TruthLasts ==
  ASSUME NEW vs, NEW ws, vs \subseteq ws, NEW known, NEW less, less \subseteq known,
         NEW call, NEW reply, IsTrue(vs, known, call, reply)
  PROVE  IsTrue(ws, less, call, reply)
<1>1. \A i : SummariesIn(vs, call.names[i]) \subseteq SummariesIn(ws, call.names[i])
  BY SummariesGrow
<1>2. reply = Unknown =>
        \E i \in DOMAIN call.names, v \in ws :
           call.names[i] \notin less /\ ~IsKnown(Galaxy[v], call.names[i])
  BY DEF IsTrue
<1>3. call.method = "GetHumanWorldStat" =>
        \E v \in ws : reply = HumanWorldReply(GetHumanWorldStat(Galaxy[v]))
  BY DEF IsTrue
<1>4. call.method = "GetDockableStations" =>
        \E v \in ws :
           IF IsKnown(Galaxy[v], call.names[1])
             THEN reply = StationsReply(GetDockableStations(Galaxy[v], call.names[1]))
             ELSE \E S \in SUBSET DOMAIN Galaxy[v].systemsByName :
                    reply = NotHabitable(S) /\ call.names[1] \notin S
  BY DEF IsTrue
<1>5. call.method = "GetSystemSummary" /\ reply # Unknown =>
        \E s \in SummariesIn(ws, call.names[1]) : reply = SummaryReply(s)
  BY <1>1 DEF IsTrue
<1>6. call.method = "GetDistance" /\ reply # Unknown =>
        \E s \in SummariesIn(ws, call.names[1]), t \in SummariesIn(ws, call.names[2]) :
           reply = DistanceReply(Distance(s.place, t.place))
  BY <1>1 DEF IsTrue
<1>7. call.method = "GetInterestingSystem4State" /\ reply \notin {Unknown, Refused} =>
        \E v \in ws, s \in SummariesIn(ws, call.names[1]) :
           \E S \in SUBSET Suitable(Galaxy[v], call.states, s.place, call.minPop, call.maxDistance) :
              reply = SystemsReply(S)
  BY <1>1 DEF IsTrue
<1> QED
  BY <1>2, <1>3, <1>4, <1>5, <1>6, <1>7 DEF IsTrue

LEMMA ServedGrows ==
  ASSUME NEW r, NEW v \in Nat, NEW w \in Nat, v <= w, r.since \in Nat
  PROVE  Served(r, v) \subseteq Served(r, w)
BY DEF Served, NoData

\* A handler is as right when more is served and cached.
LEMMA RightLasts ==
  ASSUME NEW r, NEW v \in Nat, NEW w \in Nat, v <= w,
         NEW cache, NEW more, cache \subseteq more, IsRight(r, v, cache)
  PROVE  IsRight(r, w, more)
<1>1. CASE r.at = "free"
  BY <1>1 DEF IsRight
<1>2. CASE r.at # "free"
  <2>1. r.since \in Nat /\ r.since \in NoData .. w
    BY <1>2 DEF IsRight, NoData
  <2>2. Served(r, v) \subseteq Served(r, w)
    BY <2>1, ServedGrows
  <2>3. \A n : SummariesIn(Served(r, v), n) \subseteq SummariesIn(Served(r, w), n)
    BY <2>2, SummariesGrow
  <2>4. FoundIsTrue(r, w)
    BY <1>2, <2>3 DEF IsRight, FoundIsTrue
  <2>5. NameMissed(r, v) => NameMissed(r, w)
    BY <2>2 DEF NameMissed
  <2>6. IsTrue(Served(r, v), r.knew, r.call, r.reply) => IsTrue(Served(r, w), r.knew, r.call, r.reply)
    BY <2>2, TruthLasts
  <2>7. PlaceIsRight(r, w)
    BY <1>2, <2>2, <2>5, <2>6 DEF IsRight, PlaceIsRight
  <2> QED
    BY <1>2, <2>1, <2>4, <2>7 DEF IsRight
<1> QED
  BY <1>1, <1>2

LEMMA SameServer ==
  ASSUME UNCHANGED server
  PROVE  /\ eddbInfo' = eddbInfo /\ files' = files /\ up' = up /\ edsmCache' = edsmCache
         /\ FreshNames' = FreshNames /\ (CacheIsTrue => CacheIsTrue')
BY DEF server, FreshNames, CacheIsTrue

LEMMA FreeIsRight ==
  ASSUME NEW info, NEW cache
  PROVE  IsRight(Free, info, cache)
BY DEF IsRight, IsRecord, Free

-----------------------------------------------------------------------------
(* The steps of a handler.                                                  *)

LEMMA OneHandler ==
  ASSUME HandlersAreRight, ServerOK, NEW h \in Handlers, NEW r,
         handler' = [handler EXCEPT ![h] = r],
         IsRight(r, eddbInfo, FreshNames'), eddbInfo' = eddbInfo, FreshNames \subseteq FreshNames'
  PROVE  HandlersAreRight'
<1>1. eddbInfo \in Nat
  BY GIServerAssumption DEF ServerOK, NoData
<1>2. \A k \in Handlers : IsRight(handler[k], eddbInfo, FreshNames')
  BY <1>1, RightLasts DEF HandlersAreRight
<1>3. handler' = [k \in Handlers |-> handler'[k]] /\ handler'[h] = r
  BY DEF HandlersAreRight
<1>4. \A k \in Handlers : k # h => handler'[k] = handler[k]
  BY DEF HandlersAreRight
<1>5. \A k \in Handlers : IsRight(handler'[k], eddbInfo, FreshNames')
  BY <1>2, <1>3, <1>4
<1> QED
  BY <1>3, <1>5 DEF HandlersAreRight

\* What is known of a handler at work.
LEMMA AtWork ==
  ASSUME HandlersAreRight, ServerOK, NEW h \in Handlers, handler[h].at # "free"
  PROVE  /\ IsRecord(handler[h]) /\ IsCall(handler[h].call)
         /\ handler[h].since \in NoData .. eddbInfo /\ handler[h].knew \subseteq FreshNames
         /\ FoundIsTrue(handler[h], eddbInfo) /\ PlaceIsRight(handler[h], eddbInfo)
         /\ up
BY DEF HandlersAreRight, ServerOK, IsRight

LEMMA NewestIsServed ==
  ASSUME HandlersAreRight, ServerOK, NEW h \in Handlers, handler[h].at # "free",
         eddbInfo # NoData
  PROVE  eddbInfo \in Served(handler[h], eddbInfo)
BY AtWork, GIServerAssumption DEF ServerOK, Served, NoData

\* A reply that is true makes a record that is right.
LEMMA ReplyIsRight ==
  ASSUME HandlersAreRight, ServerOK, NEW h \in Handlers, handler[h].at # "free", NEW reply,
         IsTrue(Served(handler[h], eddbInfo), handler[h].knew, handler[h].call, reply),
         Reply(h, reply), UNCHANGED server
  PROVE  HandlersAreRight'
<1> DEFINE r == handler[h]
           new == [r EXCEPT !.at = "replied", !.reply = reply, !.found = <<>>, !.loaded = NoData]
<1>1. IsRecord(r) /\ IsCall(r.call) /\ r.since \in NoData .. eddbInfo /\ r.knew \subseteq FreshNames
  BY AtWork
<1>2. /\ IsRecord(new) /\ new.at = "replied" /\ new.reply = reply /\ new.found = <<>>
      /\ new.call = r.call /\ new.since = r.since /\ new.knew = r.knew
  BY <1>1 DEF IsRecord
<1>3. Served(new, eddbInfo) = Served(r, eddbInfo)
  BY <1>2 DEF Served
<1>4. FoundIsTrue(new, eddbInfo)
  <2>1. <<>> \in Seq(AllSummaries) /\ Len(<<>>) = 0
    OBVIOUS
  <2> QED
    BY <1>2, <2>1 DEF FoundIsTrue
<1>5. PlaceIsRight(new, eddbInfo)
  BY <1>2, <1>3 DEF PlaceIsRight
<1>6. IsRight(new, eddbInfo, FreshNames)
  BY <1>1, <1>2, <1>4, <1>5 DEF IsRight
<1>7. IsRight(Replied(h, reply), eddbInfo, FreshNames)
  BY <1>6, FreeIsRight DEF Replied
<1> QED
  BY <1>7, SameServer, OneHandler DEF Reply

\* One more summary that is true makes a record that is right.
LEMMA WithFoundIsRight ==
  ASSUME HandlersAreRight, ServerOK, NEW h \in Handlers,
         handler[h].at \in {"lookup", "connector", "edsm"},
         NEW summary, summary \in SummariesIn(Served(handler[h], eddbInfo), Name(h))
  PROVE  \E r : /\ WithFound(h, summary) = [handler EXCEPT ![h] = r]
                /\ IsRight(r, eddbInfo, FreshNames)
<1> DEFINE r == handler[h]
           all == Append(r.found, summary)
           done == Len(all) = Len(r.call.names)
           place == IF done THEN "found" ELSE "lookup"
           new == [r EXCEPT !.found = all, !.at = place]
<1>1. /\ IsRecord(r) /\ IsCall(r.call) /\ r.since \in NoData .. eddbInfo /\ r.knew \subseteq FreshNames
      /\ FoundIsTrue(r, eddbInfo) /\ PlaceIsRight(r, eddbInfo)
  BY AtWork
<1>2. /\ IsRecord(new) /\ new.at = place /\ new.found = all /\ new.loaded = r.loaded
      /\ new.call = r.call /\ new.since = r.since /\ new.knew = r.knew
  BY <1>1 DEF IsRecord
<1>3. Served(new, eddbInfo) = Served(r, eddbInfo)
  BY <1>2 DEF Served
<1>4. Len(r.found) \in Nat /\ Len(r.call.names) \in Nat /\ Len(r.found) < Len(r.call.names)
  BY <1>1 DEF PlaceIsRight, FoundIsTrue, IsCall
<1>5. summary \in AllSummaries
  <2>1. Served(r, eddbInfo) \subseteq Versions
    BY <1>1, GIServerAssumption DEF Served, Versions, ServerOK, NoData
  <2>2. Name(h) \in Names
    BY <1>1, <1>4 DEF Name, Arg, IsCall
  <2> QED
    BY <2>1, <2>2, SummariesGrow DEF AllSummaries
<1>6. FoundIsTrue(new, eddbInfo)
  <2>1. all \in Seq(AllSummaries) /\ Len(all) = Len(r.found) + 1
    BY <1>1, <1>5 DEF FoundIsTrue
  <2>2. ASSUME NEW i \in 1 .. Len(all)
        PROVE  all[i] \in SummariesIn(Served(r, eddbInfo), r.call.names[i])
    <3>1. CASE i = Len(r.found) + 1
      <4>1. all[i] = summary
        BY <3>1, <1>1, <1>5 DEF FoundIsTrue
      <4> QED
        BY <4>1, <3>1 DEF Name, Arg
    <3>2. CASE i # Len(r.found) + 1
      <4>1. i \in 1 .. Len(r.found)
        BY <3>2, <2>1, <1>4
      <4>2. all[i] = r.found[i]
        BY <4>1, <1>1, <1>5 DEF FoundIsTrue
      <4> QED
        BY <4>1, <4>2, <1>1 DEF FoundIsTrue
    <3> QED
      BY <3>1, <3>2
  <2> QED
    BY <1>2, <1>3, <2>1, <2>2 DEF FoundIsTrue
<1>7. PlaceIsRight(new, eddbInfo)
  <2>1. Len(all) = Len(r.found) + 1
    BY <1>1, <1>5 DEF FoundIsTrue
  <2>2. /\ r.call.method \notin OnlyLoads
        /\ r.call.method = "GetInterestingSystem4State" => r.loaded \in Served(r, eddbInfo)
    BY <1>1 DEF PlaceIsRight
  <2>3. ~done => Len(all) < Len(r.call.names)
    BY <2>1, <1>4
  <2> QED
    BY <1>2, <1>3, <2>2, <2>3 DEF PlaceIsRight
<1>8. IsRight(new, eddbInfo, FreshNames)
  BY <1>1, <1>2, <1>6, <1>7 DEF IsRight
<1>9. IsRight(IF done /\ r.client = Gone THEN Free ELSE new, eddbInfo, FreshNames)
  BY <1>8, FreeIsRight
<1>10. WithFound(h, summary) = [handler EXCEPT ![h] = IF done /\ r.client = Gone THEN Free ELSE new]
  BY DEF WithFound
<1> QED
  BY <1>9, <1>10

LEMMA FoundIsRight ==
  ASSUME HandlersAreRight, ServerOK, NEW h \in Handlers, handler[h].at \in {"lookup", "connector"},
         NEW summary, summary \in SummariesIn(Served(handler[h], eddbInfo), Name(h)),
         Found(h, summary), UNCHANGED server
  PROVE  HandlersAreRight'
<1>1. PICK r : /\ WithFound(h, summary) = [handler EXCEPT ![h] = r]
               /\ IsRight(r, eddbInfo, FreshNames)
  BY WithFoundIsRight
<1> QED
  BY <1>1, SameServer, OneHandler DEF Found

\* A step to the next place before the summary is found.
LEMMA MovedIsRight ==
  ASSUME HandlersAreRight, ServerOK, NEW h \in Handlers, UNCHANGED server,
         handler[h].at \in {"lookup", "connector"}, NEW place \in {"connector", "edsm"},
         NameMissed(handler[h], eddbInfo), place = "edsm" => NameForgotten(handler[h]),
         handler' = [handler EXCEPT ![h].at = place]
  PROVE  HandlersAreRight'
<1> DEFINE r == handler[h]
           new == [r EXCEPT !.at = place]
<1>1. handler' = [handler EXCEPT ![h] = new]
  OBVIOUS
<1>2. /\ IsRecord(r) /\ IsCall(r.call) /\ r.since \in NoData .. eddbInfo /\ r.knew \subseteq FreshNames
      /\ FoundIsTrue(r, eddbInfo) /\ PlaceIsRight(r, eddbInfo)
  BY AtWork
<1>3. /\ IsRecord(new) /\ new.at = place /\ new.found = r.found /\ new.loaded = r.loaded
      /\ new.call = r.call /\ new.since = r.since /\ new.knew = r.knew
  BY <1>2 DEF IsRecord
<1>4. Served(new, eddbInfo) = Served(r, eddbInfo)
  BY <1>3 DEF Served
<1>5. FoundIsTrue(new, eddbInfo)
  BY <1>2, <1>3, <1>4 DEF FoundIsTrue
<1>6. NameMissed(new, eddbInfo) /\ (place = "edsm" => NameForgotten(new))
  BY <1>3, <1>4 DEF NameMissed, NameForgotten
<1>7. PlaceIsRight(new, eddbInfo)
  BY <1>2, <1>3, <1>4, <1>6 DEF PlaceIsRight
<1>8. IsRight(new, eddbInfo, FreshNames)
  BY <1>2, <1>3, <1>5, <1>7 DEF IsRight
<1> QED
  BY <1>1, <1>8, SameServer, OneHandler

LEMMA LookupIsRight ==
  ASSUME HandlersAreRight, ServerOK, NEW h \in Handlers, Lookup(h)
  PROVE  HandlersAreRight'
<1> DEFINE r == handler[h]
<1>1. r.at = "lookup" /\ r.at # "free" /\ eddbInfo # NoData /\ UNCHANGED server
  BY DEF Lookup, At
<1>2. eddbInfo \in Served(r, eddbInfo)
  BY <1>1, NewestIsServed
<1>3. CASE IsKnown(Galaxy[eddbInfo], Name(h))
  <2>1. Found(h, SystemSummaryByName(Galaxy[eddbInfo], Name(h)))
    BY <1>3 DEF Lookup
  <2>2. SystemSummaryByName(Galaxy[eddbInfo], Name(h)) \in SummariesIn(Served(r, eddbInfo), Name(h))
    BY <1>2, <1>3 DEF SummariesIn
  <2> QED
    BY <1>1, <2>1, <2>2, FoundIsRight
<1>4. CASE ~IsKnown(Galaxy[eddbInfo], Name(h))
  <2>1. handler' = [handler EXCEPT ![h].at = "connector"]
    BY <1>4 DEF Lookup
  <2>2. NameMissed(r, eddbInfo)
    BY <1>2, <1>4 DEF NameMissed, Name, Arg
  <2> QED
    BY <1>1, <2>1, <2>2, MovedIsRight
<1> QED
  BY <1>3, <1>4

LEMMA MissedIsUnknown ==
  ASSUME HandlersAreRight, ServerOK, NEW h \in Handlers, handler[h].at \in {"connector", "edsm"},
         NameForgotten(handler[h]), Reply(h, Unknown), UNCHANGED server
  PROVE  HandlersAreRight'
<1> DEFINE r == handler[h]
           i == Len(r.found) + 1
<1>1. IsCall(r.call) /\ FoundIsTrue(r, eddbInfo) /\ PlaceIsRight(r, eddbInfo)
  BY AtWork
<1>2. i \in DOMAIN r.call.names
  BY <1>1 DEF IsCall, FoundIsTrue, PlaceIsRight
<1>3. NameMissed(r, eddbInfo) /\ r.call.method \notin OnlyLoads
  BY <1>1 DEF PlaceIsRight
<1>4. PICK v \in Served(r, eddbInfo) : ~IsKnown(Galaxy[v], r.call.names[i])
  BY <1>3 DEF NameMissed
<1>5. r.call.names[i] \notin r.knew
  BY DEF NameForgotten
<1>6. IsTrue(Served(r, eddbInfo), r.knew, r.call, Unknown)
  BY <1>2, <1>3, <1>4, <1>5 DEF IsTrue, OnlyLoads
<1> QED
  BY <1>6, ReplyIsRight

\* What is not fresh in the connector was not known to be.
LEMMA NotFreshIsForgotten ==
  ASSUME HandlersAreRight, ServerOK, NEW h \in Handlers, handler[h].at # "free",
         Name(h) \notin FreshNames
  PROVE  NameForgotten(handler[h])
BY AtWork DEF NameForgotten, Name, Arg

LEMMA GetSystemInfoIsRight ==
  ASSUME HandlersAreRight, ServerOK, NEW h \in Handlers, GetSystemInfo(h)
  PROVE  HandlersAreRight'
<1> DEFINE r == handler[h]
<1>1. r.at = "connector" /\ r.at # "free" /\ UNCHANGED server
  BY DEF GetSystemInfo, ReplyFromCache, ReplyBusy, AskEDSM, At
<1>2. NameMissed(r, eddbInfo)
  BY <1>1, AtWork DEF PlaceIsRight
<1>3. CASE ReplyFromCache(h)
  <2>1. Name(h) \in DOMAIN edsmCache /\ Found(h, edsmCache[Name(h)].summary)
    BY <1>3 DEF ReplyFromCache
  <2>2. edsmCache[Name(h)].summary \in EDSMTells(Name(h))
    BY <2>1 DEF ServerOK, CacheIsTrue
  <2>3. edsmCache[Name(h)].summary \in SummariesIn(Served(r, eddbInfo), Name(h))
    BY <1>2, <2>2 DEF NameMissed, SummariesIn, Name, Arg
  <2> QED
    BY <1>1, <2>1, <2>3, FoundIsRight
<1>4. CASE ReplyBusy(h)
  <2>1. Name(h) \notin FreshNames /\ Reply(h, Unknown)
    BY <1>4 DEF ReplyBusy, FreshNames
  <2> QED
    BY <1>1, <2>1, NotFreshIsForgotten, MissedIsUnknown
<1>5. CASE AskEDSM(h)
  <2>1. Name(h) \notin FreshNames /\ handler' = [handler EXCEPT ![h].at = "edsm"]
    BY <1>5 DEF AskEDSM, IsFresh, FreshNames
  <2>2. NameForgotten(r)
    BY <1>1, <2>1, NotFreshIsForgotten
  <2> QED
    BY <1>1, <1>2, <2>1, <2>2, MovedIsRight
<1> QED
  BY <1>3, <1>4, <1>5 DEF GetSystemInfo

\* A handler is as right when the connector's answer about n is another or no longer fresh.
LEMMA UnlearntIsRight ==
  ASSUME NEW r, NEW info, NEW fresh, IsRight(r, info, fresh), NEW n, NEW left,
         fresh \ {n} \subseteq left
  PROVE  IsRight([r EXCEPT !.knew = @ \ {n}], info, left)
<1>1. PICK new : new = [r EXCEPT !.knew = @ \ {n}]
  OBVIOUS
<1>2. /\ IsRecord(new) /\ new.at = r.at /\ new.call = r.call /\ new.found = r.found
      /\ new.loaded = r.loaded /\ new.since = r.since /\ new.knew = r.knew \ {n}
      /\ new.reply = r.reply
  BY <1>1 DEF IsRight, IsRecord
<1>3. CASE r.at = "free"
  BY <1>1, <1>2, <1>3 DEF IsRight
<1>4. CASE r.at # "free"
  <2>1. /\ r.knew \subseteq fresh /\ IsCall(r.call) /\ r.since \in NoData .. info
        /\ FoundIsTrue(r, info) /\ PlaceIsRight(r, info)
    BY <1>4 DEF IsRight
  <2>2. Served(new, info) = Served(r, info)
    BY <1>2 DEF Served
  <2>3. FoundIsTrue(new, info)
    BY <1>2, <2>1, <2>2 DEF FoundIsTrue
  <2>4. (NameMissed(r, info) => NameMissed(new, info)) /\ (NameForgotten(r) => NameForgotten(new))
    BY <1>2, <2>2 DEF NameMissed, NameForgotten
  <2>5. IsTrue(Served(r, info), r.knew, r.call, r.reply)
          => IsTrue(Served(new, info), new.knew, r.call, r.reply)
    BY <1>2, <2>2, TruthLasts
  <2>6. PlaceIsRight(new, info)
    BY <1>2, <2>1, <2>2, <2>4, <2>5 DEF PlaceIsRight
  <2>7. new.knew \subseteq left
    BY <1>2, <2>1
  <2>8. IsRight(new, info, left)
    BY <1>2, <2>1, <2>3, <2>6, <2>7 DEF IsRight
  <2> QED
    BY <1>1, <2>8
<1> QED
  BY <1>3, <1>4

LEMMA UnlearnIsRight ==
  ASSUME NEW hs, \A h \in Handlers : IsRight(hs[h], eddbInfo, FreshNames), NEW n,
         handler' = Unlearn(hs, n), eddbInfo' = eddbInfo, FreshNames \ {n} \subseteq FreshNames'
  PROVE  HandlersAreRight'
<1>1. handler' = [h \in Handlers |-> [hs[h] EXCEPT !.knew = @ \ {n}]]
  BY DEF Unlearn
<1>2. \A h \in Handlers : IsRight(handler'[h], eddbInfo, FreshNames')
  <2> SUFFICES ASSUME NEW h \in Handlers
               PROVE  IsRight(handler'[h], eddbInfo, FreshNames')
    OBVIOUS
  <2>1. PICK r : r = hs[h]
    OBVIOUS
  <2>2. IsRight(r, eddbInfo, FreshNames)
    BY <2>1
  <2>3. IsRight([r EXCEPT !.knew = @ \ {n}], eddbInfo, FreshNames')
    BY <2>2, UnlearntIsRight
  <2> QED
    BY <1>1, <2>1, <2>3
<1> QED
  BY <1>1, <1>2 DEF HandlersAreRight

LEMMA EDSMAnswersIsRight ==
  ASSUME HandlersAreRight, ServerOK, NEW h \in Handlers, EDSMAnswers(h)
  PROVE  HandlersAreRight' /\ CacheIsTrue'
<1> DEFINE n == Name(h)
           s == EDSMSystems[n]
           k == EDSMName[n]
<1>1. /\ handler[h].at = "edsm" /\ handler[h].at # "free" /\ n \in DOMAIN EDSMSystems
      /\ eddbInfo' = eddbInfo /\ edsmCache' = Entered(k, s) /\ handler' = Unlearn(WithFound(h, s), k)
  BY DEF EDSMAnswers, At
<1>2. s \in EDSMTells(n) /\ s \in EDSMTells(k) /\ k \in Names
  BY <1>1, GIServerAssumption DEF EDSMTells
<1>3. NameMissed(handler[h], eddbInfo)
  BY <1>1, AtWork DEF PlaceIsRight
<1>4. s \in SummariesIn(Served(handler[h], eddbInfo), n)
  BY <1>2, <1>3 DEF NameMissed, SummariesIn, Name, Arg
<1>5. PICK r : /\ WithFound(h, s) = [handler EXCEPT ![h] = r]
               /\ IsRight(r, eddbInfo, FreshNames)
  BY <1>1, <1>4, WithFoundIsRight
<1>6. \A g \in Handlers : IsRight(WithFound(h, s)[g], eddbInfo, FreshNames)
  BY <1>5 DEF HandlersAreRight
<1>7. /\ DOMAIN edsmCache' = DOMAIN edsmCache \cup {k}
      /\ edsmCache' = [m \in DOMAIN edsmCache' |-> edsmCache'[m]]
      /\ edsmCache'[k] = [summary |-> s, fresh |-> TRUE]
      /\ \A m \in DOMAIN edsmCache : m # k => edsmCache'[m] = edsmCache[m]
  BY <1>1 DEF Entered
<1>8. FreshNames \ {k} \subseteq FreshNames'
  BY <1>7 DEF FreshNames
<1>9. CacheIsTrue'
  <2> HIDE DEF n, s, k
  <2>1. /\ DOMAIN edsmCache \subseteq Names
        /\ \A m \in DOMAIN edsmCache : edsmCache[m] \in [summary : EDSMTells(m), fresh : BOOLEAN]
    BY DEF CacheIsTrue, ServerOK
  <2>2. [summary |-> s, fresh |-> TRUE] \in [summary : EDSMTells(k), fresh : BOOLEAN]
    BY <1>2
  <2>3. \A m \in DOMAIN edsmCache' : edsmCache'[m] \in [summary : EDSMTells(m), fresh : BOOLEAN]
    BY <1>7, <2>1, <2>2
  <2> QED
    BY <1>2, <1>7, <2>1, <2>3 DEF CacheIsTrue
<1> QED
  BY <1>1, <1>6, <1>8, <1>9, UnlearnIsRight

LEMMA EDSMFailsIsRight ==
  ASSUME HandlersAreRight, ServerOK, NEW h \in Handlers, EDSMFails(h)
  PROVE  HandlersAreRight'
<1>1. handler[h].at = "edsm" /\ Reply(h, Unknown) /\ UNCHANGED server
  BY DEF EDSMFails, At
<1>2. NameForgotten(handler[h])
  BY <1>1, AtWork DEF PlaceIsRight
<1> QED
  BY <1>1, <1>2, MissedIsUnknown

LEMMA ExpireIsRight ==
  ASSUME HandlersAreRight, ServerOK, NEW n, Expire(n)
  PROVE  HandlersAreRight' /\ ServerOK'
<1>1. /\ n \in DOMAIN edsmCache /\ edsmCache' = [edsmCache EXCEPT ![n].fresh = FALSE]
      /\ handler' = Unlearn(handler, n) /\ eddbInfo' = eddbInfo /\ files' = files /\ up' = up
  BY DEF Expire, IsFresh
<1>2. /\ DOMAIN edsmCache' = DOMAIN edsmCache /\ edsmCache' = [m \in DOMAIN edsmCache' |-> edsmCache'[m]]
      /\ edsmCache'[n] = [edsmCache[n] EXCEPT !.fresh = FALSE]
      /\ \A m \in DOMAIN edsmCache : m # n => edsmCache'[m] = edsmCache[m]
  BY <1>1 DEF ServerOK, CacheIsTrue
<1>3. FreshNames \ {n} \subseteq FreshNames'
  BY <1>2 DEF FreshNames
<1>4. HandlersAreRight'
  BY <1>1, <1>3, UnlearnIsRight DEF HandlersAreRight
<1>5. [edsmCache[n] EXCEPT !.fresh = FALSE] \in [summary : EDSMTells(n), fresh : BOOLEAN]
  BY <1>1 DEF ServerOK, CacheIsTrue
<1>6. CacheIsTrue'
  BY <1>2, <1>5 DEF ServerOK, CacheIsTrue
<1>7. \A h \in Handlers : handler'[h].at = handler[h].at
  <2>1. \A h \in Handlers : IsRecord(handler[h])
    BY DEF HandlersAreRight, IsRight
  <2> QED
    BY <1>1, <2>1 DEF Unlearn, IsRecord
<1> QED
  BY <1>1, <1>4, <1>6, <1>7 DEF ServerOK

LEMMA CutIsPart ==
  ASSUME NEW S, NEW limit, NEW T \in Cut(S, limit)
  PROVE  T \subseteq S
BY DEF Cut, kSubset

\* The names that are suggested are those of systems in the snapshot.
LEMMA SuggestedAreKnown ==
  ASSUME NEW v \in Versions, NEW name
  PROVE  GetSimilarSystemNames(Galaxy[v], name) \subseteq DOMAIN Galaxy[v].systemsByName
<1>1. Galaxy[v] \in BuildEDDBInfo(Data[v])
  BY GIServerAssumption
<1> DEFINE D == Data[v]
           Indexes == {i \in [{D.systems[id].name : id \in DOMAIN D.systems} -> DOMAIN D.systems] :
                         IsIndex(i, D.systems)}
           Snapshot(index) ==
             [systems |-> D.systems, stations |-> D.stations, factions |-> D.factions,
              stationsOf |-> [id \in DOMAIN D.systems |->
                                {st \in DOMAIN D.stations : D.stations[st].system = id}],
              systemsByName |-> index]
<1>2. PICK index \in Indexes : Galaxy[v] = Snapshot(index)
  <2>1. BuildEDDBInfo(D) = {Snapshot(index) : index \in Indexes}
    BY Zenon DEF BuildEDDBInfo
  <2> QED
    BY <1>1, <2>1
<1>3. Galaxy[v].systems = D.systems /\ Galaxy[v].systemsByName = index
  BY <1>2
<1>4. DOMAIN index = {D.systems[id].name : id \in DOMAIN D.systems}
  BY <1>2 DEF IsIndex
<1> QED
  BY <1>3, <1>4 DEF GetSimilarSystemNames

LEMMA LoadIsRight ==
  ASSUME HandlersAreRight, ServerOK, NEW h \in Handlers, Load(h)
  PROVE  HandlersAreRight'
<1> DEFINE r == handler[h]
<1>1. r.at = "load" /\ r.at # "free" /\ eddbInfo # NoData /\ UNCHANGED server
  BY DEF Load, At
<1>2. /\ IsRecord(r) /\ IsCall(r.call) /\ r.since \in NoData .. eddbInfo /\ r.knew \subseteq FreshNames
      /\ FoundIsTrue(r, eddbInfo) /\ PlaceIsRight(r, eddbInfo)
  BY <1>1, AtWork
<1>3. eddbInfo \in Served(r, eddbInfo) /\ eddbInfo \in Versions
  BY <1>1, NewestIsServed, GIServerAssumption DEF ServerOK, Versions, NoData
<1>4. CASE GetHumanWorldStatReply(h)
  <2>1. /\ r.call.method = "GetHumanWorldStat"
        /\ Reply(h, HumanWorldReply(GetHumanWorldStat(Galaxy[eddbInfo])))
    BY <1>4 DEF GetHumanWorldStatReply
  <2>2. IsTrue(Served(r, eddbInfo), r.knew, r.call, HumanWorldReply(GetHumanWorldStat(Galaxy[eddbInfo])))
    BY <1>3, <2>1 DEF IsTrue, HumanWorldReply, Unknown
  <2> QED
    BY <1>1, <2>1, <2>2, ReplyIsRight
<1>5. CASE GetDockableStationsReply(h)
  <2> DEFINE info == Galaxy[eddbInfo]
             name == r.call.names[1]
  <2>1. r.call.method = "GetDockableStations"
    BY <1>5 DEF GetDockableStationsReply
  <2>2. CASE IsKnown(info, name)
    <3>1. Reply(h, StationsReply(GetDockableStations(info, name)))
      BY <1>5, <2>2 DEF GetDockableStationsReply, Arg
    <3>2. IsTrue(Served(r, eddbInfo), r.knew, r.call, StationsReply(GetDockableStations(info, name)))
      BY <1>3, <2>1, <2>2 DEF IsTrue, StationsReply, Unknown
    <3> QED
      BY <1>1, <3>1, <3>2, ReplyIsRight
  <2>3. CASE ~IsKnown(info, name)
    <3>1. PICK S \in Cut(GetSimilarSystemNames(info, name), 10) : Reply(h, NotHabitable(S))
      BY <1>5, <2>3 DEF GetDockableStationsReply, Arg
    <3>2. S \subseteq DOMAIN info.systemsByName /\ name \notin S
      BY <1>3, <2>3, <3>1, CutIsPart, SuggestedAreKnown DEF IsKnown
    <3>3. NotHabitable(S) # Unknown
      BY DEF NotHabitable, Unknown
    <3>4. IsTrue(Served(r, eddbInfo), r.knew, r.call, NotHabitable(S))
      BY <1>3, <2>1, <2>3, <3>2, <3>3 DEF IsTrue
    <3> QED
      BY <1>1, <3>1, <3>4, ReplyIsRight
  <2> QED
    BY <2>2, <2>3
<1>6. CASE LoadForStates(h)
  <2> DEFINE new == [r EXCEPT !.loaded = eddbInfo, !.at = "lookup"]
  <2>1. handler' = [handler EXCEPT ![h] = new] /\ r.call.method = "GetInterestingSystem4State"
    BY <1>6 DEF LoadForStates
  <2>2. /\ IsRecord(new) /\ new.at = "lookup" /\ new.found = r.found /\ new.loaded = eddbInfo
        /\ new.call = r.call /\ new.since = r.since /\ new.knew = r.knew
    BY <1>2 DEF IsRecord
  <2>3. Served(new, eddbInfo) = Served(r, eddbInfo)
    BY <2>2 DEF Served
  <2>4. FoundIsTrue(new, eddbInfo)
    BY <1>2, <2>2, <2>3 DEF FoundIsTrue
  <2>5. Len(r.found) < Len(r.call.names)
    BY <1>1, <1>2, <2>1 DEF PlaceIsRight, IsCall
  <2>6. PlaceIsRight(new, eddbInfo)
    BY <1>3, <2>1, <2>2, <2>3, <2>5 DEF PlaceIsRight, OnlyLoads
  <2>7. IsRight(new, eddbInfo, FreshNames)
    BY <1>1, <1>2, <2>2, <2>4, <2>6 DEF IsRight, server
  <2> QED
    BY <1>1, <2>1, <2>7, SameServer, OneHandler
<1> QED
  BY <1>4, <1>5, <1>6 DEF Load

LEMMA AnswerIsRight ==
  ASSUME HandlersAreRight, ServerOK, NEW h \in Handlers, Answer(h)
  PROVE  HandlersAreRight'
<1> DEFINE r == handler[h]
<1>1. r.at = "found" /\ r.at # "free" /\ UNCHANGED server
  BY DEF Answer, At
<1>2. /\ IsRecord(r) /\ IsCall(r.call) /\ r.since \in NoData .. eddbInfo /\ r.knew \subseteq FreshNames
      /\ FoundIsTrue(r, eddbInfo) /\ PlaceIsRight(r, eddbInfo)
  BY <1>1, AtWork
<1>3. /\ Len(r.found) = Len(r.call.names) /\ r.call.method \notin OnlyLoads
      /\ r.call.method = "GetInterestingSystem4State" => r.loaded \in Served(r, eddbInfo)
  BY <1>1, <1>2 DEF PlaceIsRight
<1>4. \A i \in 1 .. Len(r.call.names) :
        r.found[i] \in SummariesIn(Served(r, eddbInfo), r.call.names[i])
  BY <1>2, <1>3 DEF FoundIsTrue
<1>5. CASE GetSystemSummaryReply(h)
  <2>1. r.call.method = "GetSystemSummary" /\ Reply(h, SummaryReply(r.found[1]))
    BY <1>5 DEF GetSystemSummaryReply
  <2>2. r.found[1] \in SummariesIn(Served(r, eddbInfo), r.call.names[1])
    BY <1>2, <1>4, <2>1 DEF IsCall
  <2>3. SummaryReply(r.found[1]) # Unknown
    BY DEF SummaryReply, Unknown
  <2>4. IsTrue(Served(r, eddbInfo), r.knew, r.call, SummaryReply(r.found[1]))
    BY <2>1, <2>2, <2>3 DEF IsTrue
  <2> QED
    BY <1>1, <2>1, <2>4, ReplyIsRight
<1>6. CASE GetDistanceReply(h)
  <2> DEFINE reply == DistanceReply(Distance(r.found[1].place, r.found[2].place))
  <2>1. r.call.method = "GetDistance" /\ Reply(h, reply)
    BY <1>6 DEF GetDistanceReply
  <2>2. /\ r.found[1] \in SummariesIn(Served(r, eddbInfo), r.call.names[1])
        /\ r.found[2] \in SummariesIn(Served(r, eddbInfo), r.call.names[2])
    BY <1>2, <1>4, <2>1 DEF IsCall
  <2>3. reply # Unknown
    BY DEF DistanceReply, Unknown
  <2>4. IsTrue(Served(r, eddbInfo), r.knew, r.call, reply)
    BY <2>1, <2>2, <2>3 DEF IsTrue
  <2> QED
    BY <1>1, <2>1, <2>4, ReplyIsRight
<1>7. CASE GetInterestingSystem4StateReply(h)
  <2>1. r.call.method = "GetInterestingSystem4State"
    BY <1>7 DEF GetInterestingSystem4StateReply
  <2>2. CASE Reply(h, Refused)
    <3>1. Refused # Unknown
      BY DEF Refused, Unknown
    <3>2. IsTrue(Served(r, eddbInfo), r.knew, r.call, Refused)
      BY <2>1, <3>1 DEF IsTrue
    <3> QED
      BY <1>1, <2>2, <3>2, ReplyIsRight
  <2>3. CASE \E ids \in FindStates(Galaxy[r.loaded], r.call.states, r.found[1].place,
                                   r.call.minPop, r.call.maxDistance, 20) :
               Reply(h, SystemsReply(ids))
    <3>1. PICK ids \in FindStates(Galaxy[r.loaded], r.call.states, r.found[1].place,
                                  r.call.minPop, r.call.maxDistance, 20) :
            Reply(h, SystemsReply(ids))
      BY <2>3
    <3>2. ids \subseteq Suitable(Galaxy[r.loaded], r.call.states, r.found[1].place,
                                 r.call.minPop, r.call.maxDistance)
      BY <3>1, CutIsPart DEF FindStates
    <3>3. r.found[1] \in SummariesIn(Served(r, eddbInfo), r.call.names[1])
      BY <1>2, <1>4, <2>1 DEF IsCall
    <3>4. SystemsReply(ids) # Unknown
      BY DEF SystemsReply, Unknown
    <3>5. IsTrue(Served(r, eddbInfo), r.knew, r.call, SystemsReply(ids))
      BY <1>3, <2>1, <3>2, <3>3, <3>4 DEF IsTrue
    <3> QED
      BY <1>1, <3>1, <3>5, ReplyIsRight
  <2> QED
    BY <1>7, <2>2, <2>3 DEF GetInterestingSystem4StateReply
<1>8. CASE AskCollector(h)
  <2> DEFINE new == [r EXCEPT !.at = "collector", !.found = <<>>]
  <2>1. handler' = [handler EXCEPT ![h] = new] /\ r.call.method \in AsksCollector
    BY <1>8 DEF AskCollector, AsksCollector
  <2>2. /\ IsRecord(new) /\ new.at = "collector" /\ new.found = <<>>
        /\ new.call = r.call /\ new.since = r.since /\ new.knew = r.knew
    BY <1>2 DEF IsRecord
  <2>3. <<>> \in Seq(AllSummaries) /\ Len(<<>>) = 0
    OBVIOUS
  <2>4. FoundIsTrue(new, eddbInfo)
    BY <2>2, <2>3 DEF FoundIsTrue
  <2>5. PlaceIsRight(new, eddbInfo)
    BY <2>1, <2>2 DEF PlaceIsRight
  <2>6. IsRight(new, eddbInfo, FreshNames)
    BY <1>1, <1>2, <2>2, <2>4, <2>5 DEF IsRight, server
  <2> QED
    BY <1>1, <2>1, <2>6, SameServer, OneHandler
<1> QED
  BY <1>5, <1>6, <1>7, <1>8 DEF Answer

LEMMA CollectorAnswersIsRight ==
  ASSUME HandlersAreRight, ServerOK, NEW h \in Handlers, CollectorAnswers(h)
  PROVE  HandlersAreRight'
<1> DEFINE r == handler[h]
<1>1. r.at = "collector" /\ r.at # "free" /\ UNCHANGED server
  BY DEF CollectorAnswers, At
<1>2. PICK n \in Totals : Reply(h, TotalReply(n))
  BY DEF CollectorAnswers
<1>3. r.call.method \in AsksCollector
  BY <1>1, AtWork DEF PlaceIsRight
<1>4. TotalReply(n) # Unknown
  BY DEF TotalReply, Unknown
<1>5. IsTrue(Served(r, eddbInfo), r.knew, r.call, TotalReply(n))
  BY <1>3, <1>4 DEF IsTrue, AsksCollector
<1> QED
  BY <1>1, <1>2, <1>5, ReplyIsRight

-----------------------------------------------------------------------------
(* The steps of the server and of its clients.                              *)

LEMMA AcceptedIsRight ==
  ASSUME ServerOK, NEW call, IsCall(call),
         NEW r, IsRecord(r), r.at = First(call), r.call = call, r.found = <<>>,
         r.since = eddbInfo, r.knew \subseteq FreshNames
  PROVE  IsRight(r, eddbInfo, FreshNames)
<1>1. <<>> \in Seq(AllSummaries) /\ Len(<<>>) = 0
  OBVIOUS
<1>2. FoundIsTrue(r, eddbInfo)
  BY <1>1 DEF FoundIsTrue
<1> SUFFICES PlaceIsRight(r, eddbInfo)
  BY <1>2, GIServerAssumption DEF IsRight, ServerOK, NoData
<1>3. CASE call.method \in OnlyLoads \cup {"GetInterestingSystem4State"}
  <2>1. r.at = "load"
    BY <1>3 DEF First, OnlyLoads
  <2> QED
    BY <1>3, <2>1 DEF PlaceIsRight
<1>4. CASE call.method \notin OnlyLoads \cup {"GetInterestingSystem4State"} /\ call.names = <<>>
  <2>1. r.at = "collector"
    BY <1>4 DEF First, OnlyLoads
  <2>2. call.method \in AsksCollector
    BY <1>1, <1>4 DEF IsCall, AsksCollector, OnlyLoads
  <2> QED
    BY <2>1, <2>2 DEF PlaceIsRight
<1>5. CASE call.method \notin OnlyLoads \cup {"GetInterestingSystem4State"} /\ call.names # <<>>
  <2>1. r.at = "lookup"
    BY <1>5 DEF First, OnlyLoads
  <2>2. Len(r.found) < Len(call.names)
    BY <1>1, <1>5 DEF IsCall, OnlyLoads
  <2> QED
    BY <1>5, <2>1, <2>2 DEF PlaceIsRight
<1> QED
  BY <1>3, <1>4, <1>5

LEMMA AcceptIsRight ==
  ASSUME HandlersAreRight, ServerOK, NEW h \in Handlers, NEW client, NEW call, IsCall(call),
         Accept(h, client, call)
  PROVE  HandlersAreRight'
<1>1. PICK new : /\ handler' = [handler EXCEPT ![h] = new]
                 /\ new = [Free EXCEPT !.at = First(call), !.client = client, !.call = call,
                                       !.since = eddbInfo,
                                       !.knew = {n \in Names :
                                                   /\ IsFresh(n)
                                                   /\ \E i \in DOMAIN call.names : call.names[i] = n}]
  BY DEF Accept
<1>2. IsRecord(new) /\ new.at = First(call) /\ new.call = call /\ new.found = <<>>
  BY <1>1 DEF IsRecord, Free
<1>3. new.since = eddbInfo /\ new.knew \subseteq FreshNames
  BY <1>1 DEF Free, IsFresh, FreshNames
<1>4. IsRight(new, eddbInfo, FreshNames)
  BY <1>2, <1>3, AcceptedIsRight
<1>5. UNCHANGED server
  BY DEF Accept
<1> QED
  BY <1>1, <1>4, <1>5, SameServer, OneHandler

LEMMA LeaveIsRight ==
  ASSUME HandlersAreRight, ServerOK, NEW clients, Leave(clients), UNCHANGED server
  PROVE  HandlersAreRight'
<1>1. handler' = [h \in Handlers |-> handler'[h]]
  BY DEF Leave
<1>2. ASSUME NEW h \in Handlers
      PROVE  IsRight(handler'[h], eddbInfo, FreshNames)
  <2> DEFINE r == handler[h]
             new == [r EXCEPT !.client = Gone, !.since = NoData, !.knew = {}]
  <2>1. IsRight(r, eddbInfo, FreshNames)
    BY DEF HandlersAreRight
  <2>2. /\ IsRecord(new) /\ new.at = r.at /\ new.call = r.call /\ new.found = r.found
        /\ new.loaded = r.loaded /\ new.since = NoData /\ new.knew = {}
    BY <2>1 DEF IsRight, IsRecord
  <2>3. handler'[h] \in {r, Free, new}
    BY DEF Leave
  <2>5. CASE r.at \notin {"free", "found", "collector", "replied"}
    <3>1. /\ r.since \in NoData .. eddbInfo /\ IsCall(r.call)
          /\ FoundIsTrue(r, eddbInfo) /\ PlaceIsRight(r, eddbInfo) /\ eddbInfo \in Nat
      BY <2>1, <2>5, GIServerAssumption DEF IsRight, ServerOK, NoData
    <3>2. Served(r, eddbInfo) \subseteq Served(new, eddbInfo)
      BY <2>2, <3>1 DEF Served, NoData
    <3>3. \A n : SummariesIn(Served(r, eddbInfo), n) \subseteq SummariesIn(Served(new, eddbInfo), n)
      BY <3>2, SummariesGrow
    <3>4. FoundIsTrue(new, eddbInfo)
      BY <2>2, <3>1, <3>3 DEF FoundIsTrue
    <3>5. (NameMissed(r, eddbInfo) => NameMissed(new, eddbInfo)) /\ NameForgotten(new)
      BY <2>2, <3>2 DEF NameMissed, NameForgotten
    <3>6. PlaceIsRight(new, eddbInfo)
      BY <2>2, <2>5, <3>1, <3>2, <3>5 DEF PlaceIsRight
    <3>7. IsRight(new, eddbInfo, FreshNames)
      BY <2>2, <3>1, <3>4, <3>6 DEF IsRight, NoData
    <3> QED
      BY <2>1, <2>3, <3>7, FreeIsRight
  <2>6. CASE r.at = "free"
    BY <2>1, <2>2, <2>3, <2>6, FreeIsRight DEF IsRight
  <2>7. CASE r.at \in {"found", "collector", "replied"}
    <3>1. handler'[h] \in {r, Free}
      BY <2>7 DEF Leave
    <3> QED
      BY <2>1, <3>1, FreeIsRight
  <2> QED
    BY <2>5, <2>6, <2>7
<1> QED
  BY <1>1, <1>2, SameServer DEF HandlersAreRight

LEMMA AllFreeIsRight ==
  ASSUME handler' = [h \in Handlers |-> Free]
  PROVE  HandlersAreRight' /\ \A h \in Handlers : handler'[h].at = "free"
BY FreeIsRight DEF HandlersAreRight, Free

LEMMA EndIsRight ==
  ASSUME ServerOK, End
  PROVE  ServerOK' /\ HandlersAreRight'
<1>1. DOMAIN edsmCache' = {} /\ edsmCache' = [n \in DOMAIN edsmCache' |-> edsmCache'[n]]
  BY DEF End
<1>2. CacheIsTrue'
  BY <1>1 DEF CacheIsTrue
<1> QED
  BY <1>2, AllFreeIsRight, GIServerAssumption DEF ServerOK, End, NoData

LEMMA ServeIsRight ==
  ASSUME ServerOK, HandlersAreRight, Serve
  PROVE  ServerOK' /\ HandlersAreRight'
<1>1. \A h \in Handlers : handler'[h] = handler[h] /\ handler[h].at = "free"
  BY DEF ServerOK, Serve
<1>2. HandlersAreRight'
  BY <1>1 DEF HandlersAreRight, Serve, IsRight
<1> QED
  BY <1>2, GIServerAssumption DEF ServerOK, CacheIsTrue, Serve, NoData, Versions

LEMMA SetEDDBDataIsRight ==
  ASSUME ServerOK, HandlersAreRight, SetEDDBData
  PROVE  ServerOK' /\ HandlersAreRight'
<1>1. eddbInfo \in Nat /\ eddbInfo' \in Nat /\ eddbInfo <= eddbInfo' /\ handler' = handler
      /\ edsmCache' = edsmCache /\ FreshNames' = FreshNames
  BY GIServerAssumption DEF ServerOK, SetEDDBData, NoData, FreshNames
<1>2. \A h \in Handlers : IsRight(handler[h], eddbInfo', FreshNames)
  BY <1>1, RightLasts DEF HandlersAreRight
<1>3. HandlersAreRight'
  BY <1>1, <1>2 DEF HandlersAreRight
<1> QED
  BY <1>1, <1>3, GIServerAssumption DEF ServerOK, CacheIsTrue, SetEDDBData, NoData

LEMMA HandlerStepIsRight ==
  ASSUME ServerOK, HandlersAreRight, NEW h \in Handlers, HandlerStep(h)
  PROVE  ServerOK' /\ HandlersAreRight'
<1>1. CASE Panic(h)
  BY <1>1, EndIsRight DEF Panic
<1>2. CASE ~Panic(h)
  <2>1. HandlersAreRight'
    BY <1>2, LoadIsRight, LookupIsRight, GetSystemInfoIsRight, EDSMAnswersIsRight, EDSMFailsIsRight,
       AnswerIsRight, CollectorAnswersIsRight DEF HandlerStep, fetchSystem
  <2>2. handler[h].at # "free"
    BY <1>2 DEF HandlerStep, Load, Lookup, GetSystemInfo, ReplyFromCache, ReplyBusy, AskEDSM,
                fetchSystem, EDSMAnswers, EDSMFails, Answer, CollectorAnswers, At
  <2>3. up' = up /\ files' = files /\ eddbInfo' = eddbInfo
    BY <1>2 DEF HandlerStep, Load, Lookup, GetSystemInfo, ReplyFromCache, ReplyBusy, AskEDSM,
                fetchSystem, EDSMAnswers, EDSMFails, Answer, CollectorAnswers, server
  <2>4. CASE EDSMAnswers(h)
    BY <2>1, <2>2, <2>3, <2>4, EDSMAnswersIsRight DEF ServerOK
  <2>5. CASE ~EDSMAnswers(h)
    <3>1. edsmCache' = edsmCache
      BY <1>2, <2>5 DEF HandlerStep, Load, Lookup, GetSystemInfo, ReplyFromCache, ReplyBusy, AskEDSM,
                        fetchSystem, EDSMFails, Answer, CollectorAnswers, server
    <3> QED
      BY <2>1, <2>2, <2>3, <3>1 DEF ServerOK, CacheIsTrue
  <2> QED
    BY <2>4, <2>5
<1> QED
  BY <1>1, <1>2

LEMMA ServerStepIsRight ==
  ASSUME ServerOK, HandlersAreRight, ServerStep
  PROVE  ServerOK' /\ HandlersAreRight'
BY HandlerStepIsRight, ServeIsRight, SetEDDBDataIsRight, EndIsRight, ExpireIsRight
DEF ServerStep, Crash

-----------------------------------------------------------------------------
(* The workers: one that makes a call, or waits for its reply, has a        *)
(* question, so that the call is one the protocol has.                      *)

WorkersAreRight ==
  /\ worker = [w \in Workers |-> worker[w]]
  /\ \A w \in Workers :
       /\ worker[w] = [at |-> worker[w].at, message |-> worker[w].message, text |-> worker[w].text]
       /\ worker[w].message \in Messages \cup {NoMessage}
       /\ worker[w].at \in {"call", "waiting"} => IsQuestion(worker[w].message)

Inv == ServerOK /\ HandlersAreRight /\ WorkersAreRight

\* A question is a call the protocol has.
LEMMA QuestionIsCall ==
  ASSUME NEW m \in Messages \cup {NoMessage}, IsQuestion(m)
  PROVE  IsCall(CallOf(m))
<1>1. m \in Messages
  BY DEF IsQuestion, NoMessage, handleIncomingMessage
<1>2. /\ m.names \in Seq(Names) /\ m.command \in DOMAIN handleIncomingMessage
      /\ Len(m.names) = handleIncomingMessage[m.command].takes
  BY <1>1, TalkerAssumption DEF IsQuestion
<1>3. DOMAIN handleIncomingMessage = {"system", "distance", "stations", "stat", "popular", "activity"}
  BY DEF handleIncomingMessage
<1>4. /\ CallOf(m).method = handleIncomingMessage[m.command].method /\ CallOf(m).names = m.names
  BY DEF CallOf
<1>5. CASE m.command = "system"
  BY <1>2, <1>4, <1>5 DEF IsCall, Methods, handleIncomingMessage, handleSystemRequest
<1>6. CASE m.command = "distance"
  <2>1. CallOf(m).method = "GetDistance" /\ Len(m.names) = 2
    BY <1>2, <1>4, <1>6 DEF handleIncomingMessage, handleDistanceRequest
  <2> QED
    BY <1>2, <1>4, <2>1 DEF IsCall, Methods
<1>7. CASE m.command = "stations"
  BY <1>2, <1>4, <1>7 DEF IsCall, Methods, handleIncomingMessage, handleStationsRequest
<1>8. CASE m.command = "stat"
  BY <1>2, <1>4, <1>8 DEF IsCall, Methods, handleIncomingMessage, handleStatRequest
<1>9. CASE m.command = "popular"
  BY <1>2, <1>4, <1>9 DEF IsCall, Methods, handleIncomingMessage, handlePopularSystemsRequest
<1>10. CASE m.command = "activity"
  <2>1. Len(m.names) = 1
    BY <1>2, <1>10 DEF handleIncomingMessage, handleActivityRequest
  <2>2. Len(<<>>) = 0
    OBVIOUS
  <2>3. m.names # <<>> /\ CallOf(m).method = "GetGalaxyActivityStat"
    BY <1>4, <1>10, <2>1, <2>2 DEF handleIncomingMessage, handleActivityRequest
  <2> QED
    BY <1>2, <1>4, <2>1, <2>3 DEF IsCall, Methods
<1> QED
  BY <1>2, <1>3, <1>5, <1>6, <1>7, <1>8, <1>9, <1>10

\* A step that changes one worker.
LEMMA OneWorker ==
  ASSUME WorkersAreRight, NEW w \in Workers, NEW r,
         worker' = [worker EXCEPT ![w] = r],
         r = [at |-> r.at, message |-> r.message, text |-> r.text],
         r.message \in Messages \cup {NoMessage},
         r.at \in {"call", "waiting"} => IsQuestion(r.message)
  PROVE  WorkersAreRight'
<1>1. worker' = [v \in Workers |-> worker'[v]] /\ worker'[w] = r
  BY DEF WorkersAreRight
<1>2. \A v \in Workers : v # w => worker'[v] = worker[v]
  BY DEF WorkersAreRight
<1> QED
  BY <1>1, <1>2 DEF WorkersAreRight

LEMMA AllWorkers ==
  ASSUME NEW place, place \notin {"call", "waiting"}, worker' = [w \in Workers |-> Idle(place)]
  PROVE  WorkersAreRight'
<1>1. \A w \in Workers : worker'[w] = Idle(place)
  OBVIOUS
<1> QED
  BY <1>1 DEF WorkersAreRight, Idle

-----------------------------------------------------------------------------
(* What a worker says: the calls in progress are those of the workers that  *)
(* wait, each worker has one, and what is said is true of the message.      *)

Fits(w) ==
  /\ \A h \in Handlers :
       handler[h].client = w =>
         worker[w].at = "waiting" /\ handler[h].call = CallOf(worker[w].message)
  /\ \A h, k \in Handlers : handler[h].client = w /\ handler[k].client = w => h = k
  /\ worker[w].at = "say" /\ worker[w].text \notin {OwnText, Malfunction} =>
       /\ IsQuestion(worker[w].message)
       /\ IsTrue(1 .. files, {}, CallOf(worker[w].message), worker[w].text)

WorkersFit ==
  /\ bot = "opening" => \A w \in Workers : worker[w].at = "starting"
  /\ \A w \in Workers : Fits(w)

\* No call of w is in progress.
NoCallOf(w) == \A h \in Handlers : handler[h].client # w

\* The call of w in progress, if any, was in progress before.
CallsStay(w) ==
  \A h \in Handlers :
    handler'[h].client = w => handler[h].client = w /\ handler'[h].call = handler[h].call

LEMMA GoneIsNoWorker == Gone \notin Workers
BY GIServerAssumption, TalkerAssumption

LEMMA FitLasts ==
  ASSUME NEW w \in Workers, Fits(w), worker'[w] = worker[w], CallsStay(w),
         files \in Nat, files' \in Nat, files <= files'
  PROVE  Fits(w)'
<1>1. 1 .. files \subseteq 1 .. files'
  OBVIOUS
<1>2. \A call, text : IsTrue(1 .. files, {}, call, text) => IsTrue(1 .. files', {}, call, text)
  BY <1>1, TruthLasts
<1> QED
  BY <1>2 DEF Fits, CallsStay

LEMMA NoCallFits ==
  ASSUME NEW w \in Workers, NoCallOf(w)',
         worker'[w].at = "say" /\ worker'[w].text \notin {OwnText, Malfunction} =>
           /\ IsQuestion(worker'[w].message)
           /\ IsTrue(1 .. files', {}, CallOf(worker'[w].message), worker'[w].text)
  PROVE  Fits(w)'
BY DEF Fits, NoCallOf

\* A step of one handler that gives it the record r.
LEMMA OneCallStays ==
  ASSUME HandlersAreRight, NEW h \in Handlers, NEW r, handler' = [handler EXCEPT ![h] = r],
         r = Free \/ (r.client = handler[h].client /\ r.call = handler[h].call),
         NEW w \in Workers
  PROVE  CallsStay(w)
<1>1. \A k \in Handlers : handler'[k] = IF k = h THEN r ELSE handler[k]
  BY DEF HandlersAreRight
<1>2. Free.client # w
  BY GoneIsNoWorker DEF Free
<1> QED
  BY <1>1, <1>2 DEF CallsStay

LEMMA ReplyStays ==
  ASSUME HandlersAreRight, NEW h \in Handlers, NEW reply, Reply(h, reply), NEW w \in Workers
  PROVE  CallsStay(w)
<1>1. IsRecord(handler[h])
  BY DEF HandlersAreRight, IsRight
<1>2. PICK r : r = Replied(h, reply)
  OBVIOUS
<1>3. r = Free \/ (r.client = handler[h].client /\ r.call = handler[h].call)
  BY <1>1, <1>2 DEF Replied, IsRecord
<1> QED
  BY <1>2, <1>3, OneCallStays DEF Reply

\* What becomes of a record whose next summary is found.
LEMMA FoundRecord ==
  ASSUME HandlersAreRight, NEW h \in Handlers, NEW summary
  PROVE  \E r : /\ WithFound(h, summary) = [handler EXCEPT ![h] = r]
                /\ IsRecord(r)
                /\ \/ r = Free
                   \/ /\ r.at \in {"found", "lookup"} /\ r.client = handler[h].client
                      /\ r.call = handler[h].call /\ r.reply = handler[h].reply
<1> DEFINE all == Append(handler[h].found, summary)
           done == Len(all) = Len(handler[h].call.names)
           place == IF done THEN "found" ELSE "lookup"
<1>1. IsRecord(handler[h])
  BY DEF HandlersAreRight, IsRight
<1>2. PICK new : new = [handler[h] EXCEPT !.found = all, !.at = place]
  OBVIOUS
<1>3. /\ IsRecord(new) /\ new.at \in {"found", "lookup"} /\ new.client = handler[h].client
      /\ new.call = handler[h].call /\ new.reply = handler[h].reply
  BY <1>1, <1>2 DEF IsRecord
<1>4. IsRecord(Free)
  BY DEF IsRecord, Free
<1>5. WithFound(h, summary) = [handler EXCEPT ![h] =
                                 IF done /\ handler[h].client = Gone THEN Free ELSE new]
  BY <1>2 DEF WithFound
<1> QED
  BY <1>3, <1>4, <1>5

LEMMA FoundStays ==
  ASSUME HandlersAreRight, NEW h \in Handlers, NEW summary, Found(h, summary), NEW w \in Workers
  PROVE  CallsStay(w)
<1>1. PICK r : /\ WithFound(h, summary) = [handler EXCEPT ![h] = r]
               /\ r = Free \/ (r.client = handler[h].client /\ r.call = handler[h].call)
  BY FoundRecord
<1> QED
  BY <1>1, OneCallStays DEF Found

LEMMA MoveStays ==
  ASSUME HandlersAreRight, NEW h \in Handlers, NEW place, NEW w \in Workers,
         handler' = [handler EXCEPT ![h].at = place]
  PROVE  CallsStay(w)
<1>1. IsRecord(handler[h])
  BY DEF HandlersAreRight, IsRight
<1>2. PICK r : r = [handler[h] EXCEPT !.at = place] /\ handler' = [handler EXCEPT ![h] = r]
  OBVIOUS
<1>3. r.client = handler[h].client /\ r.call = handler[h].call
  BY <1>1, <1>2 DEF IsRecord
<1> QED
  BY <1>2, <1>3, OneCallStays

\* What is forgotten of the connector is no part of a call.
LEMMA UnlearnedCalls ==
  ASSUME NEW hs, \A h \in Handlers : IsRecord(hs[h]), NEW n, handler' = Unlearn(hs, n)
  PROVE  \A h \in Handlers :
           /\ handler'[h].at = hs[h].at /\ handler'[h].client = hs[h].client
           /\ handler'[h].call = hs[h].call
BY DEF Unlearn, IsRecord

LEMMA EDSMAnswersStays ==
  ASSUME HandlersAreRight, NEW h \in Handlers, EDSMAnswers(h), NEW w \in Workers
  PROVE  CallsStay(w)
<1>1. PICK s, n : handler' = Unlearn(WithFound(h, s), n)
  BY DEF EDSMAnswers
<1>2. PICK r : /\ WithFound(h, s) = [handler EXCEPT ![h] = r] /\ IsRecord(r)
               /\ r = Free \/ (r.client = handler[h].client /\ r.call = handler[h].call)
  BY FoundRecord
<1>3. \A g \in Handlers : WithFound(h, s)[g] = IF g = h THEN r ELSE handler[g]
  BY <1>2 DEF HandlersAreRight
<1>4. \A g \in Handlers : IsRecord(WithFound(h, s)[g])
  BY <1>2, <1>3 DEF HandlersAreRight, IsRight
<1>5. \A g \in Handlers : /\ handler'[g].client = WithFound(h, s)[g].client
                          /\ handler'[g].call = WithFound(h, s)[g].call
  BY <1>1, <1>4, UnlearnedCalls
<1>6. Free.client # w
  BY GoneIsNoWorker DEF Free
<1> QED
  BY <1>2, <1>3, <1>5, <1>6 DEF CallsStay

LEMMA ExpireStays ==
  ASSUME HandlersAreRight, NEW n, Expire(n), NEW w \in Workers
  PROVE  CallsStay(w)
<1>1. \A h \in Handlers : IsRecord(handler[h])
  BY DEF HandlersAreRight, IsRight
<1> QED
  BY <1>1, UnlearnedCalls DEF Expire, CallsStay

LEMMA EndStays ==
  ASSUME End, NEW w \in Workers
  PROVE  CallsStay(w)
BY GoneIsNoWorker DEF End, CallsStay, Free

LEMMA HandlerStepStays ==
  ASSUME HandlersAreRight, NEW h \in Handlers, HandlerStep(h), NEW w \in Workers
  PROVE  CallsStay(w)
<1>1. IsRecord(handler[h])
  BY DEF HandlersAreRight, IsRight
<1>2. CASE Panic(h)
  BY <1>2, EndStays DEF Panic
<1>3. CASE Load(h)
  <2>1. CASE LoadForStates(h)
    <3>1. PICK r : /\ r = [handler[h] EXCEPT !.loaded = eddbInfo, !.at = "lookup"]
                   /\ handler' = [handler EXCEPT ![h] = r]
      BY <2>1 DEF LoadForStates
    <3>2. r.client = handler[h].client /\ r.call = handler[h].call
      BY <1>1, <3>1 DEF IsRecord
    <3> QED
      BY <3>1, <3>2, OneCallStays
  <2> QED
    BY <1>3, <2>1, ReplyStays DEF Load, GetHumanWorldStatReply, GetDockableStationsReply
<1>4. CASE Lookup(h)
  BY <1>4, FoundStays, MoveStays DEF Lookup
<1>5. CASE GetSystemInfo(h) \/ fetchSystem(h)
  BY <1>5, FoundStays, ReplyStays, MoveStays, EDSMAnswersStays
  DEF GetSystemInfo, ReplyFromCache, ReplyBusy, AskEDSM, fetchSystem, EDSMFails
<1>6. CASE Answer(h)
  <2>1. CASE AskCollector(h)
    <3>1. PICK r : /\ r = [handler[h] EXCEPT !.at = "collector", !.found = <<>>]
                   /\ handler' = [handler EXCEPT ![h] = r]
      BY <2>1 DEF AskCollector
    <3>2. r.client = handler[h].client /\ r.call = handler[h].call
      BY <1>1, <3>1 DEF IsRecord
    <3> QED
      BY <3>1, <3>2, OneCallStays
  <2> QED
    BY <1>6, <2>1, ReplyStays
    DEF Answer, GetSystemSummaryReply, GetDistanceReply, GetInterestingSystem4StateReply
<1>7. CASE CollectorAnswers(h)
  BY <1>7, ReplyStays DEF CollectorAnswers
<1> QED
  BY <1>2, <1>3, <1>4, <1>5, <1>6, <1>7 DEF HandlerStep

LEMMA ServerStepStays ==
  ASSUME HandlersAreRight, ServerOK, ServerStep
  PROVE  /\ \A w \in Workers : CallsStay(w)
         /\ files \in Nat /\ files' \in Nat /\ files <= files'
<1>1. files \in Nat /\ files' \in Nat /\ files <= files'
  BY GIServerAssumption
  DEF ServerOK, NoData, Versions, ServerStep, Serve, SetEDDBData, Crash, End, Expire, HandlerStep,
      Panic, Load, Lookup, GetSystemInfo, ReplyFromCache, ReplyBusy, AskEDSM, fetchSystem,
      EDSMAnswers, EDSMFails, Answer, CollectorAnswers, server
<1>2. ASSUME NEW w \in Workers
      PROVE  CallsStay(w)
  BY HandlerStepStays, EndStays, ExpireStays DEF ServerStep, Serve, SetEDDBData, Crash, CallsStay
<1> QED
  BY <1>1, <1>2

LEMMA LeaveStays ==
  ASSUME HandlersAreRight, NEW clients, Leave(clients), NEW w \in Workers
  PROVE  CallsStay(w) /\ (w \in clients => NoCallOf(w)')
<1>1. \A h \in Handlers : IsRecord(handler[h])
  BY DEF HandlersAreRight, IsRight
<1>2. ASSUME NEW h \in Handlers
      PROVE  handler'[h].client = w => w \notin clients /\ handler'[h] = handler[h]
  <2>1. IsRecord(handler[h]) /\ Free.client = Gone
    BY <1>1 DEF Free
  <2>2. [handler[h] EXCEPT !.client = Gone, !.since = NoData, !.knew = {}].client = Gone
    BY <2>1 DEF IsRecord
  <2> QED
    BY <2>1, <2>2, GoneIsNoWorker DEF Leave
<1> QED
  BY <1>2 DEF CallsStay, NoCallOf

LEMMA LeaveKeepsServer ==
  ASSUME HandlersAreRight, ServerOK, NEW clients, Leave(clients), UNCHANGED server
  PROVE  ServerOK'
<1>1. \A h \in Handlers : IsRecord(handler[h])
  BY DEF HandlersAreRight, IsRight
<1>2. \A h \in Handlers : handler[h].at = "free" => handler'[h].at = "free"
  BY <1>1 DEF Leave, IsRecord, Free
<1> QED
  BY <1>2, SameServer DEF ServerOK

-----------------------------------------------------------------------------
(* The steps of the bot and of the clients.                                 *)

\* A step of a worker that does not touch the server: it has no call in progress.
LEMMA WorkerAlone ==
  ASSUME Inv, WorkersFit, NEW w \in Workers, NEW r, UNCHANGED <<giVars, bot>>,
         worker' = [worker EXCEPT ![w] = r],
         worker[w].at # "starting", worker[w].at # "waiting" \/ NoCallOf(w),
         r = [at |-> r.at, message |-> r.message, text |-> r.text],
         r.message \in Messages \cup {NoMessage},
         r.at \in {"call", "waiting"} => IsQuestion(r.message),
         r.at = "say" => r.text \in {OwnText, Malfunction}
  PROVE  Inv' /\ WorkersFit'
<1>1. WorkersAreRight'
  BY OneWorker DEF Inv
<1>2. HandlersAreRight' /\ ServerOK'
  BY DEF Inv, HandlersAreRight, ServerOK, CacheIsTrue, FreshNames, giVars, server, IsRight
<1>3. worker'[w] = r /\ \A v \in Workers : v # w => worker'[v] = worker[v]
  BY DEF Inv, WorkersAreRight
<1>4. NoCallOf(w)'
  BY DEF WorkersFit, Fits, NoCallOf, giVars
<1>5. Fits(w)'
  BY <1>3, <1>4, NoCallFits
<1>6. files \in Nat /\ files' = files
  BY GIServerAssumption DEF Inv, ServerOK, NoData, giVars, server
<1>7. ASSUME NEW v \in Workers, v # w
      PROVE  Fits(v)'
  <2>1. CallsStay(v) /\ Fits(v)
    BY DEF CallsStay, giVars, WorkersFit
  <2> QED
    BY <1>3, <1>6, <1>7, <2>1, FitLasts
<1>8. bot' = bot /\ bot # "opening"
  BY DEF WorkersFit
<1> QED
  BY <1>1, <1>2, <1>5, <1>7, <1>8 DEF Inv, WorkersFit

LEMMA ServerStepKeeps ==
  ASSUME Inv, WorkersFit, ServerStep, UNCHANGED botVars
  PROVE  Inv' /\ WorkersFit'
<1>1. ServerOK' /\ HandlersAreRight'
  BY ServerStepIsRight DEF Inv
<1>2. WorkersAreRight'
  BY DEF Inv, WorkersAreRight, botVars
<1>3. \A w \in Workers : Fits(w)'
  BY ServerStepStays, FitLasts DEF Inv, WorkersFit, botVars
<1> QED
  BY <1>1, <1>2, <1>3 DEF Inv, WorkersFit, botVars

\* Several steps set all workers, when none has a call in progress.
LEMMA AllWorkersKeep ==
  ASSUME Inv, NEW place, place \notin {"call", "waiting", "say"}, bot' # "opening",
         worker' = [w \in Workers |-> Idle(place)],
         ServerOK', HandlersAreRight', \A w \in Workers : NoCallOf(w)'
  PROVE  Inv' /\ WorkersFit'
<1>1. \A w \in Workers : worker'[w].at # "say"
  BY DEF Idle
<1>2. \A w \in Workers : Fits(w)'
  BY <1>1, NoCallFits
<1> QED
  BY <1>2, AllWorkers DEF Inv, WorkersFit

LEMMA BotStepKeeps ==
  ASSUME Inv, WorkersFit, start \/ close \/ BotEnds
  PROVE  Inv' /\ WorkersFit'
<1>1. CASE start
  <2>1. ServerOK' /\ HandlersAreRight'
    BY <1>1 DEF start, Inv, HandlersAreRight, ServerOK, CacheIsTrue, FreshNames, giVars, server, IsRight
  <2>2. \A w \in Workers : NoCallOf(w)'
    BY <1>1 DEF start, WorkersFit, Fits, NoCallOf, giVars
  <2> QED
    BY <1>1, <2>1, <2>2, AllWorkersKeep DEF start
<1>2. CASE close
  <2>1. Inv'
    BY <1>2 DEF close, Inv, HandlersAreRight, ServerOK, CacheIsTrue, FreshNames, WorkersAreRight,
                giVars, server, IsRight
  <2>2. WorkersFit'
    BY <1>2 DEF close, WorkersFit, Fits, giVars, server
  <2> QED
    BY <2>1, <2>2
<1>3. CASE BotEnds
  <2>1. HandlersAreRight'
    BY <1>3, LeaveIsRight DEF BotEnds, Inv
  <2>2. \A w \in Workers : NoCallOf(w)'
    BY <1>3, LeaveStays DEF BotEnds, Inv
  <2>3. ServerOK'
    BY <1>3, LeaveKeepsServer DEF BotEnds, Inv
  <2> QED
    BY <1>3, <2>1, <2>2, <2>3, AllWorkersKeep DEF BotEnds
<1> QED
  BY <1>1, <1>2, <1>3

\* A worker takes a message, or goes on without the server.
LEMMA AloneStepKeeps ==
  ASSUME Inv, WorkersFit, NEW w \in Workers,
         \/ \E m \in Messages : onMessageCreate(w, m)
         \/ HandleHere(w) \/ Ask(w) \/ CallFails(w) \/ Said(w) \/ Finish(w)
  PROVE  Inv' /\ WorkersFit'
<1> DEFINE old == worker[w]
<1>1. /\ old = [at |-> old.at, message |-> old.message, text |-> old.text]
      /\ old.message \in Messages \cup {NoMessage}
  BY DEF Inv, WorkersAreRight
<1>2. ASSUME NEW m \in Messages, onMessageCreate(w, m)
      PROVE  Inv' /\ WorkersFit'
  <2>1. PICK r : r = [Idle("handle") EXCEPT !.message = m] /\ worker' = [worker EXCEPT ![w] = r]
    BY <1>2 DEF onMessageCreate
  <2>2. r = [at |-> "handle", message |-> m, text |-> r.text]
    BY <2>1 DEF Idle
  <2> QED
    BY <1>2, <2>1, <2>2, WorkerAlone DEF onMessageCreate
<1>3. CASE \/ HandleHere(w) /\ old.message.command = "other"
           \/ Said(w)
  <2>1. PICK r : r = Idle("receive") /\ worker' = [worker EXCEPT ![w] = r]
    BY <1>3 DEF HandleHere, Said, handleHelpRequest, handleDirectOperatorMessage, Refuse,
                Ignore, handleIncomingMessage
  <2>2. old.at \in {"handle", "say"} /\ UNCHANGED <<giVars, bot>>
    BY <1>3 DEF HandleHere, Said
  <2> QED
    BY <2>1, <2>2, WorkerAlone DEF Idle
<1>4. CASE \/ HandleHere(w) /\ old.message.command # "other"
           \/ CallFails(w)
  <2>1. PICK text \in {OwnText, Malfunction} : Say(w, text)
    BY <1>4 DEF HandleHere, CallFails, handleHelpRequest, handleDirectOperatorMessage,
                Refuse, Ignore
  <2>2. PICK r : r = [old EXCEPT !.at = "say", !.text = text] /\ worker' = [worker EXCEPT ![w] = r]
    BY <2>1 DEF Say
  <2>3. r = [at |-> "say", message |-> old.message, text |-> text]
    BY <1>1, <2>2
  <2>4. /\ old.at \in {"handle", "call"} \/ (old.at = "waiting" /\ NoCallOf(w))
        /\ UNCHANGED <<giVars, bot>>
    BY <1>4 DEF HandleHere, CallFails, NoCallOf
  <2> QED
    BY <1>1, <2>2, <2>3, <2>4, WorkerAlone
<1>5. CASE Ask(w) \/ Finish(w)
  <2>1. PICK place \in {"call", "left"} :
          worker' = [worker EXCEPT ![w].at = place] /\ (place = "call" => IsQuestion(old.message))
    BY <1>5 DEF Ask, Finish, Step
  <2>2. PICK r : r = [old EXCEPT !.at = place] /\ worker' = [worker EXCEPT ![w] = r]
    BY <2>1
  <2>3. r = [at |-> place, message |-> old.message, text |-> old.text]
    BY <1>1, <2>2
  <2>4. old.at \in {"handle", "receive"} /\ UNCHANGED <<giVars, bot>>
    BY <1>5 DEF Ask, Finish, Step
  <2> QED
    BY <1>1, <2>1, <2>2, <2>3, <2>4, WorkerAlone
<1> QED
  BY <1>2, <1>3, <1>4, <1>5

LEMMA AcceptedCall ==
  ASSUME NEW h \in Handlers, NEW client, NEW call, Accept(h, client, call)
  PROVE  \E r : handler' = [handler EXCEPT ![h] = r] /\ r.client = client /\ r.call = call
<1>1. PICK new : /\ handler' = [handler EXCEPT ![h] = new]
                 /\ new = [Free EXCEPT !.at = First(call), !.client = client, !.call = call,
                                       !.since = eddbInfo,
                                       !.knew = {n \in Names :
                                                   /\ IsFresh(n)
                                                   /\ \E i \in DOMAIN call.names : call.names[i] = n}]
  BY DEF Accept
<1>2. new.client = client /\ new.call = call
  BY <1>1 DEF Free
<1> QED
  BY <1>1, <1>2

LEMMA CallKeeps ==
  ASSUME Inv, WorkersFit, NEW w \in Workers, NEW h \in Handlers, Call(w, h)
  PROVE  Inv' /\ WorkersFit'
<1> DEFINE old == worker[w]
           call == CallOf(old.message)
<1>1. PICK new : /\ new = [old EXCEPT !.at = "waiting"]
                 /\ worker' = [worker EXCEPT ![w] = new]
  BY DEF Call, Step
<1>2. /\ old.at = "call" /\ Accept(h, w, call) /\ bot' = bot
      /\ old = [at |-> old.at, message |-> old.message, text |-> old.text]
      /\ old.message \in Messages \cup {NoMessage} /\ IsQuestion(old.message)
  BY DEF Call, Step, Inv, WorkersAreRight
<1>3. new = [at |-> "waiting", message |-> old.message, text |-> old.text]
  BY <1>1, <1>2
<1>4. IsCall(call)
  BY <1>2, QuestionIsCall
<1>5. HandlersAreRight' /\ WorkersAreRight'
  BY <1>1, <1>2, <1>3, <1>4, AcceptIsRight, OneWorker DEF Inv
<1>6. PICK r : /\ handler' = [handler EXCEPT ![h] = r]
               /\ r.client = w /\ r.call = call
  BY <1>2, AcceptedCall
<1>7. handler' = [k \in Handlers |-> IF k = h THEN r ELSE handler[k]]
  BY <1>6 DEF Inv, HandlersAreRight
<1>8. ServerOK'
  BY <1>2, <1>7 DEF Accept, server, Inv, ServerOK, CacheIsTrue
<1>9. worker'[w] = new /\ \A v \in Workers : v # w => worker'[v] = worker[v]
  BY <1>1 DEF Inv, WorkersAreRight
<1>10. NoCallOf(w)
  BY <1>2 DEF NoCallOf, WorkersFit, Fits
<1>11. Fits(w)'
  BY <1>3, <1>6, <1>7, <1>9, <1>10 DEF Fits, NoCallOf
<1>12. files \in Nat /\ files' = files
  BY <1>2, GIServerAssumption DEF Accept, server, Inv, ServerOK, NoData
<1>13. ASSUME NEW v \in Workers, v # w
       PROVE  Fits(v)'
  <2>1. CallsStay(v)
    BY <1>6, <1>7, <1>13 DEF CallsStay
  <2> QED
    BY <1>9, <1>12, <1>13, <2>1, FitLasts DEF WorkersFit
<1>14. bot' # "opening"
  BY <1>2 DEF WorkersFit
<1> QED
  BY <1>5, <1>8, <1>11, <1>13, <1>14 DEF Inv, WorkersFit

LEMMA TextIsTrue ==
  ASSUME NEW m, NEW vs, NEW reply, IsTrue(vs, {}, CallOf(m), reply),
         m.command \in DOMAIN handleIncomingMessage
  PROVE  IsTrue(vs, {}, CallOf(m), Text(m, reply))
<1>1. CASE Text(m, reply) = reply
  BY <1>1
<1>2. CASE Text(m, reply) # reply
  <2>1. m.command \in {"popular", "activity"} /\ Text(m, reply) \in {NoMention, NotEnoughData}
    BY <1>2 DEF Text
  <2>2. CallOf(m).method \in AsksCollector
    BY <2>1 DEF CallOf, AsksCollector, handleIncomingMessage, handlePopularSystemsRequest,
                handleActivityRequest
  <2>3. Text(m, reply) # Unknown
    <3>1. NoMention.error # Unknown.error /\ NotEnoughData.error # Unknown.error
      BY DEF NoMention, NotEnoughData, Unknown
    <3> QED
      BY <2>1, <3>1
  <2> QED
    BY <2>2, <2>3 DEF IsTrue, AsksCollector
<1> QED
  BY <1>1, <1>2

\* What holds while a call was handled holds of all that was served.
LEMMA ReplyIsTrue ==
  ASSUME Inv, NEW h \in Handlers, At(h, "replied")
  PROVE  IsTrue(1 .. files, {}, handler[h].call, handler[h].reply)
<1>1. /\ handler[h].since \in NoData .. eddbInfo
      /\ IsTrue(Served(handler[h], eddbInfo), handler[h].knew, handler[h].call, handler[h].reply)
  BY DEF Inv, HandlersAreRight, IsRight, PlaceIsRight, At
<1>2. Served(handler[h], eddbInfo) \subseteq 1 .. files
  BY <1>1, GIServerAssumption DEF Inv, ServerOK, Served, NoData
<1>3. ASSUME NEW known, NEW call, NEW reply,
             IsTrue(Served(handler[h], eddbInfo), known, call, reply)
      PROVE  IsTrue(1 .. files, {}, call, reply)
  <2>1. {} \subseteq known
    OBVIOUS
  <2> QED
    BY <1>2, <1>3, <2>1, TruthLasts
<1> QED
  BY <1>1, <1>3

LEMMA AnsweredKeeps ==
  ASSUME Inv, WorkersFit, NEW w \in Workers, NEW h \in Handlers, Answered(w, h)
  PROVE  Inv' /\ WorkersFit'
<1> DEFINE old == worker[w]
           text == Text(old.message, handler[h].reply)
<1>1. PICK new : /\ new = [old EXCEPT !.at = "say", !.text = text]
                 /\ worker' = [worker EXCEPT ![w] = new]
  BY DEF Answered, Say
<1>2. /\ old.at = "waiting" /\ At(h, "replied") /\ handler[h].client = w
      /\ handler' = [handler EXCEPT ![h] = Free] /\ UNCHANGED <<server, bot>>
      /\ old = [at |-> old.at, message |-> old.message, text |-> old.text]
      /\ old.message \in Messages \cup {NoMessage} /\ IsQuestion(old.message)
  BY DEF Answered, Inv, WorkersAreRight
<1>3. new = [at |-> "say", message |-> old.message, text |-> text]
  BY <1>1, <1>2
<1>4. HandlersAreRight' /\ WorkersAreRight'
  BY <1>1, <1>2, <1>3, FreeIsRight, SameServer, OneHandler, OneWorker DEF Inv
<1>5. handler' = [k \in Handlers |-> IF k = h THEN Free ELSE handler[k]]
  BY <1>2 DEF Inv, HandlersAreRight
<1>6. ServerOK'
  BY <1>2, <1>5 DEF Inv, ServerOK, CacheIsTrue, server, Free
<1>7. worker'[w] = new /\ \A v \in Workers : v # w => worker'[v] = worker[v]
  BY <1>1 DEF Inv, WorkersAreRight
<1>8. Free.client = Gone
  BY DEF Free
<1>9. NoCallOf(w)'
  BY <1>2, <1>5, <1>8, GoneIsNoWorker DEF WorkersFit, Fits, NoCallOf
<1>10. handler[h].call = CallOf(old.message)
  BY <1>2 DEF WorkersFit, Fits
<1>11. IsTrue(1 .. files, {}, CallOf(old.message), text)
  BY <1>2, <1>10, ReplyIsTrue, TextIsTrue DEF IsQuestion
<1>12. files \in Nat /\ files' = files
  BY <1>2, GIServerAssumption DEF server, Inv, ServerOK, NoData
<1>13. Fits(w)'
  BY <1>2, <1>3, <1>7, <1>9, <1>11, <1>12, NoCallFits
<1>14. ASSUME NEW v \in Workers, v # w
       PROVE  Fits(v)'
  <2>1. CallsStay(v)
    BY <1>5, <1>8, GoneIsNoWorker DEF CallsStay
  <2> QED
    BY <1>7, <1>12, <1>14, <2>1, FitLasts DEF WorkersFit
<1>15. bot' # "opening"
  BY <1>2 DEF WorkersFit
<1> QED
  BY <1>4, <1>6, <1>13, <1>14, <1>15 DEF Inv, WorkersFit

LEMMA DeadlineKeeps ==
  ASSUME Inv, WorkersFit, NEW w \in Workers, Deadline(w)
  PROVE  Inv' /\ WorkersFit'
<1> DEFINE old == worker[w]
<1>1. PICK new : /\ new = [old EXCEPT !.at = "say", !.text = Malfunction]
                 /\ worker' = [worker EXCEPT ![w] = new]
  BY DEF Deadline, Say
<1>2. /\ old.at = "waiting" /\ Leave({w}) /\ UNCHANGED <<server, bot>>
      /\ old = [at |-> old.at, message |-> old.message, text |-> old.text]
      /\ old.message \in Messages \cup {NoMessage}
  BY DEF Deadline, Slow, Inv, WorkersAreRight, WorkersFit, Fits
<1>3. new = [at |-> "say", message |-> old.message, text |-> Malfunction]
  BY <1>1, <1>2
<1>4. HandlersAreRight' /\ WorkersAreRight' /\ ServerOK'
  BY <1>1, <1>2, <1>3, LeaveIsRight, LeaveKeepsServer, OneWorker DEF Inv
<1>5. worker'[w] = new /\ \A v \in Workers : v # w => worker'[v] = worker[v]
  BY <1>1 DEF Inv, WorkersAreRight
<1>6. Fits(w)'
  BY <1>2, <1>3, <1>5, LeaveStays, NoCallFits DEF Inv
<1>7. files \in Nat /\ files' = files
  BY <1>2, GIServerAssumption DEF server, Inv, ServerOK, NoData
<1>8. \A v \in Workers : v # w => Fits(v)'
  BY <1>2, <1>5, <1>7, LeaveStays, FitLasts DEF Inv, WorkersFit
<1>9. bot' # "opening"
  BY <1>2 DEF WorkersFit
<1> QED
  BY <1>4, <1>6, <1>8, <1>9 DEF Inv, WorkersFit

LEMMA OtherClientKeeps ==
  ASSUME Inv, WorkersFit, NEW c \in Clients, OtherClient(c)
  PROVE  Inv' /\ WorkersFit'
<1>1. c \notin Workers /\ UNCHANGED botVars /\ UNCHANGED server
  BY DEF OtherClient, Accept
<1>2. WorkersAreRight'
  BY <1>1 DEF Inv, WorkersAreRight, botVars
<1>3. files \in Nat /\ files' = files
  BY <1>1, GIServerAssumption DEF server, Inv, ServerOK, NoData
<1>4. CASE Leave({c})
  <2>1. ServerOK' /\ HandlersAreRight'
    BY <1>1, <1>4, LeaveIsRight, LeaveKeepsServer DEF Inv
  <2>2. \A w \in Workers : Fits(w)'
    BY <1>1, <1>3, <1>4, LeaveStays, FitLasts DEF Inv, WorkersFit, botVars
  <2> QED
    BY <1>1, <1>2, <2>1, <2>2 DEF Inv, WorkersFit, botVars
<1>5. CASE \E h \in Handlers, call \in OtherCalls : Accept(h, c, call)
  <2>1. PICK h \in Handlers, call \in OtherCalls : Accept(h, c, call)
    BY <1>5
  <2>2. HandlersAreRight'
    BY <2>1, AcceptIsRight, TalkerAssumption DEF Inv
  <2>3. PICK r : handler' = [handler EXCEPT ![h] = r] /\ r.client = c
    BY <2>1, AcceptedCall
  <2>4. handler' = [k \in Handlers |-> IF k = h THEN r ELSE handler[k]]
    BY <2>3 DEF Inv, HandlersAreRight
  <2>5. up /\ up' = up
    BY <1>1, <2>1 DEF Accept, server
  <2>6. ServerOK'
    BY <1>1, <2>5 DEF Inv, ServerOK, CacheIsTrue, server
  <2>7. \A w \in Workers : CallsStay(w)
    BY <1>1, <2>3, <2>4 DEF CallsStay
  <2>8. \A w \in Workers : Fits(w)'
    BY <1>1, <1>3, <2>7, FitLasts DEF WorkersFit, botVars
  <2> QED
    BY <1>1, <1>2, <2>2, <2>6, <2>8 DEF Inv, WorkersFit, botVars
<1> QED
  BY <1>4, <1>5 DEF OtherClient

-----------------------------------------------------------------------------
(* Types: what the invariant so far leaves open.                            *)

Places == {"free", "load", "lookup", "connector", "edsm", "found", "collector", "replied"}

HandlerHasType(r) ==
  /\ r.at \in Places /\ r.client \in Clients \cup {Gone}
  /\ r.at = "free" => r = Free
  /\ r.at \in {"collector", "replied"} => r.found = <<>>
  /\ r.at = "replied" <=> r.reply # NoReply

WorkerHasType(r) ==
  /\ r.at \in {"starting", "receive", "left"} \cup Busy
  /\ r.at \in Busy <=> r.message # NoMessage
  /\ r.at = "say" <=> r.text # NoText

HandlersHaveTypes == \A h \in Handlers : HandlerHasType(handler[h])

BotHasTypes ==
  /\ bot \in {"opening", "open", "closing", "ended"}
  /\ \A w \in Workers : WorkerHasType(worker[w])

Typed == up \in BOOLEAN /\ HandlersHaveTypes /\ BotHasTypes

LEMMA FreeHasType == HandlerHasType(Free)
BY DEF HandlerHasType, Places, Free

LEMMA OneHandlerTyped ==
  ASSUME HandlersAreRight, HandlersHaveTypes, NEW h \in Handlers, NEW r, HandlerHasType(r),
         handler' = [handler EXCEPT ![h] = r]
  PROVE  HandlersHaveTypes'
<1>1. \A k \in Handlers : handler'[k] = IF k = h THEN r ELSE handler[k]
  BY DEF HandlersAreRight
<1> QED
  BY <1>1 DEF HandlersHaveTypes

LEMMA ReplyTyped ==
  ASSUME HandlersAreRight, HandlersHaveTypes, NEW h \in Handlers, NEW reply, reply # NoReply,
         Reply(h, reply)
  PROVE  HandlersHaveTypes'
<1> DEFINE r == handler[h]
           new == [r EXCEPT !.at = "replied", !.reply = reply, !.found = <<>>, !.loaded = NoData]
<1>1. IsRecord(r) /\ HandlerHasType(r)
  BY DEF HandlersAreRight, IsRight, HandlersHaveTypes
<1>2. new.at = "replied" /\ new.reply = reply /\ new.found = <<>> /\ new.client = r.client
  BY <1>1 DEF IsRecord
<1>3. HandlerHasType(new)
  BY <1>1, <1>2 DEF HandlerHasType, Places
<1>4. HandlerHasType(Replied(h, reply))
  BY <1>3, FreeHasType DEF Replied
<1> QED
  BY <1>4, OneHandlerTyped DEF Reply

\* A step to a place of the handler that is neither its first nor its last.
LEMMA MovedTyped ==
  ASSUME NEW h \in Handlers, HandlersHaveTypes, NEW r, handler[h].at \notin {"free", "replied"},
         r.at \in {"lookup", "connector", "edsm", "found", "collector"}, r.client = handler[h].client,
         r.reply = handler[h].reply, r.at = "collector" => r.found = <<>>
  PROVE  HandlerHasType(r)
BY DEF HandlersHaveTypes, HandlerHasType, Places

LEMMA WithFoundTyped ==
  ASSUME HandlersAreRight, HandlersHaveTypes, NEW h \in Handlers, NEW summary,
         handler[h].at \in {"lookup", "connector", "edsm"}
  PROVE  \E r : /\ WithFound(h, summary) = [handler EXCEPT ![h] = r]
                /\ IsRecord(r) /\ HandlerHasType(r)
<1>1. PICK r : /\ WithFound(h, summary) = [handler EXCEPT ![h] = r] /\ IsRecord(r)
               /\ \/ r = Free
                  \/ /\ r.at \in {"found", "lookup"} /\ r.client = handler[h].client
                     /\ r.reply = handler[h].reply
  BY FoundRecord
<1>2. HandlerHasType(r)
  BY <1>1, MovedTyped, FreeHasType
<1> QED
  BY <1>1, <1>2

LEMMA FoundTyped ==
  ASSUME HandlersAreRight, HandlersHaveTypes, NEW h \in Handlers, NEW summary,
         handler[h].at \in {"lookup", "connector"}, Found(h, summary)
  PROVE  HandlersHaveTypes'
<1>1. PICK r : WithFound(h, summary) = [handler EXCEPT ![h] = r] /\ HandlerHasType(r)
  BY WithFoundTyped
<1> QED
  BY <1>1, OneHandlerTyped DEF Found

\* A step to another place before all is found.
LEMMA MoveTyped ==
  ASSUME HandlersAreRight, HandlersHaveTypes, NEW h \in Handlers,
         handler[h].at \in {"lookup", "connector"}, NEW place \in {"connector", "edsm"},
         handler' = [handler EXCEPT ![h].at = place]
  PROVE  HandlersHaveTypes'
<1>1. IsRecord(handler[h])
  BY DEF HandlersAreRight, IsRight
<1>2. PICK r : r = [handler[h] EXCEPT !.at = place] /\ handler' = [handler EXCEPT ![h] = r]
  OBVIOUS
<1>3. r.at = place /\ r.client = handler[h].client /\ r.reply = handler[h].reply
  BY <1>1, <1>2 DEF IsRecord
<1>4. HandlerHasType(r)
  BY <1>3, MovedTyped
<1> QED
  BY <1>2, <1>4, OneHandlerTyped

LEMMA UnlearnTyped ==
  ASSUME NEW hs, \A h \in Handlers : IsRecord(hs[h]) /\ HandlerHasType(hs[h]), NEW n,
         handler' = Unlearn(hs, n)
  PROVE  HandlersHaveTypes'
<1> SUFFICES ASSUME NEW h \in Handlers
             PROVE  HandlerHasType(handler'[h])
  BY DEF HandlersHaveTypes
<1>1. PICK r : r = hs[h]
  OBVIOUS
<1>2. PICK new : new = [r EXCEPT !.knew = r.knew \ {n}] /\ handler'[h] = new
  BY <1>1 DEF Unlearn
<1>3. CASE r = Free
  <2>1. new = Free
    BY <1>2, <1>3 DEF Free
  <2> QED
    BY <1>2, <2>1, FreeHasType
<1>4. CASE r # Free
  <2>1. new.at = r.at /\ new.client = r.client /\ new.found = r.found /\ new.reply = r.reply
    BY <1>1, <1>2 DEF IsRecord
  <2> QED
    BY <1>1, <1>2, <1>4, <2>1 DEF HandlerHasType
<1> QED
  BY <1>3, <1>4

LEMMA EDSMAnswersTyped ==
  ASSUME HandlersAreRight, HandlersHaveTypes, NEW h \in Handlers, EDSMAnswers(h)
  PROVE  HandlersHaveTypes'
<1> DEFINE s == EDSMSystems[Name(h)]
<1>1. handler[h].at = "edsm" /\ handler' = Unlearn(WithFound(h, s), EDSMName[Name(h)])
  BY DEF EDSMAnswers, At
<1>2. PICK r : /\ WithFound(h, s) = [handler EXCEPT ![h] = r]
               /\ IsRecord(r) /\ HandlerHasType(r)
  BY <1>1, WithFoundTyped
<1>3. \A g \in Handlers : IsRecord(WithFound(h, s)[g]) /\ HandlerHasType(WithFound(h, s)[g])
  BY <1>2 DEF HandlersAreRight, IsRight, HandlersHaveTypes
<1> QED
  BY <1>1, <1>3, UnlearnTyped

LEMMA ExpireTyped ==
  ASSUME HandlersAreRight, HandlersHaveTypes, NEW n, Expire(n)
  PROVE  HandlersHaveTypes'
<1>1. \A h \in Handlers : IsRecord(handler[h]) /\ HandlerHasType(handler[h])
  BY DEF HandlersAreRight, IsRight, HandlersHaveTypes
<1> QED
  BY <1>1, UnlearnTyped DEF Expire

LEMMA RepliesAreReplies ==
  /\ \A x : /\ HumanWorldReply(x) # NoReply /\ StationsReply(x) # NoReply
            /\ NotHabitable(x) # NoReply /\ SummaryReply(x) # NoReply
            /\ DistanceReply(x) # NoReply /\ SystemsReply(x) # NoReply /\ TotalReply(x) # NoReply
  /\ Unknown # NoReply /\ Refused # NoReply
  /\ NoMention # NoReply /\ NotEnoughData # NoReply
  /\ OwnText # NoReply /\ Malfunction # NoReply
<1>1. NoReply.error = "no reply"
  BY DEF NoReply
<1>2. \A x : /\ HumanWorldReply(x).error = "none" /\ StationsReply(x).error = "none"
             /\ NotHabitable(x).error = "notHabitable" /\ SummaryReply(x).error = "none"
             /\ DistanceReply(x).error = "none" /\ SystemsReply(x).error = "none"
             /\ TotalReply(x).error = "none"
  BY DEF HumanWorldReply, StationsReply, NotHabitable, SummaryReply, DistanceReply, SystemsReply,
         TotalReply
<1>3. /\ Unknown.error = "unknown" /\ Refused.error = "refused"
      /\ NoMention.error = "no mention" /\ NotEnoughData.error = "not enough data"
      /\ OwnText.error = "own text" /\ Malfunction.error = "malfunction"
  BY DEF Unknown, Refused, NoMention, NotEnoughData, OwnText, Malfunction
<1> QED
  BY <1>1, <1>2, <1>3

LEMMA HandlerStepTyped ==
  ASSUME HandlersAreRight, HandlersHaveTypes, NEW h \in Handlers, HandlerStep(h), ~Panic(h)
  PROVE  HandlersHaveTypes'
<1>1. IsRecord(handler[h])
  BY DEF HandlersAreRight, IsRight
<1>2. CASE Load(h)
  <2>1. CASE LoadForStates(h)
    <3>1. PICK r : /\ r = [handler[h] EXCEPT !.loaded = eddbInfo, !.at = "lookup"]
                   /\ handler' = [handler EXCEPT ![h] = r]
      BY <2>1 DEF LoadForStates
    <3>2. r.at = "lookup" /\ r.client = handler[h].client /\ r.reply = handler[h].reply
      BY <1>1, <3>1 DEF IsRecord
    <3>3. handler[h].at = "load"
      BY <1>2 DEF Load, At
    <3> QED
      BY <3>1, <3>2, <3>3, MovedTyped, OneHandlerTyped
  <2> QED
    BY <1>2, <2>1, ReplyTyped, RepliesAreReplies
    DEF Load, GetHumanWorldStatReply, GetDockableStationsReply
<1>3. CASE Lookup(h)
  BY <1>3, FoundTyped, MoveTyped DEF Lookup, At
<1>4. CASE GetSystemInfo(h)
  BY <1>4, FoundTyped, MoveTyped, ReplyTyped, RepliesAreReplies
  DEF GetSystemInfo, ReplyFromCache, ReplyBusy, AskEDSM, At
<1>5. CASE fetchSystem(h)
  BY <1>5, EDSMAnswersTyped, ReplyTyped, RepliesAreReplies DEF fetchSystem, EDSMFails
<1>6. CASE Answer(h)
  <2>1. CASE AskCollector(h)
    <3>1. PICK r : /\ r = [handler[h] EXCEPT !.at = "collector", !.found = <<>>]
                   /\ handler' = [handler EXCEPT ![h] = r]
      BY <2>1 DEF AskCollector
    <3>2. /\ r.at = "collector" /\ r.found = <<>>
          /\ r.client = handler[h].client /\ r.reply = handler[h].reply
      BY <1>1, <3>1 DEF IsRecord
    <3>3. handler[h].at = "found"
      BY <1>6 DEF Answer, At
    <3> QED
      BY <3>1, <3>2, <3>3, MovedTyped, OneHandlerTyped
  <2> QED
    BY <1>6, <2>1, ReplyTyped, RepliesAreReplies
    DEF Answer, GetSystemSummaryReply, GetDistanceReply, GetInterestingSystem4StateReply
<1>7. CASE CollectorAnswers(h)
  BY <1>7, ReplyTyped, RepliesAreReplies DEF CollectorAnswers
<1> QED
  BY <1>2, <1>3, <1>4, <1>5, <1>6, <1>7 DEF HandlerStep

LEMMA ServerStepTyped ==
  ASSUME HandlersAreRight, HandlersHaveTypes, up \in BOOLEAN, ServerStep
  PROVE  HandlersHaveTypes' /\ up' \in BOOLEAN
<1>1. CASE End
  BY <1>1, FreeHasType DEF End, HandlersHaveTypes
<1>2. CASE Serve \/ SetEDDBData
  BY <1>2 DEF Serve, SetEDDBData, HandlersHaveTypes
<1>3. CASE \E h \in Handlers : HandlerStep(h) /\ ~Panic(h)
  <2>1. up' = up
    BY <1>3 DEF HandlerStep, Load, Lookup, GetSystemInfo, ReplyFromCache, ReplyBusy, AskEDSM,
                fetchSystem, EDSMAnswers, EDSMFails, Answer, CollectorAnswers, server
  <2> QED
    BY <1>3, <2>1, HandlerStepTyped
<1>4. CASE \E n \in Names : Expire(n)
  BY <1>4, ExpireTyped DEF Expire
<1> QED
  BY <1>1, <1>2, <1>3, <1>4 DEF ServerStep, Crash, Panic

LEMMA LeaveTyped ==
  ASSUME HandlersAreRight, HandlersHaveTypes, NEW clients, Gone \notin clients, Leave(clients)
  PROVE  HandlersHaveTypes'
<1> SUFFICES ASSUME NEW h \in Handlers
             PROVE  HandlerHasType(handler'[h])
  BY DEF HandlersHaveTypes
<1> DEFINE r == handler[h]
           new == [r EXCEPT !.client = Gone, !.since = NoData, !.knew = {}]
<1>1. IsRecord(r) /\ HandlerHasType(r)
  BY DEF HandlersAreRight, IsRight, HandlersHaveTypes
<1>2. CASE handler'[h] \in {r, Free}
  BY <1>1, <1>2, FreeHasType
<1>3. CASE handler'[h] = new /\ r.client \in clients /\ r.at \notin {"found", "collector", "replied"}
  <2>1. new.at = r.at /\ new.client = Gone /\ new.reply = r.reply
    BY <1>1 DEF IsRecord
  <2>2. r.at # "free"
    BY <1>1, <1>3 DEF HandlerHasType, Free
  <2> QED
    BY <1>1, <1>3, <2>1, <2>2 DEF HandlerHasType
<1> QED
  BY <1>2, <1>3 DEF Leave

LEMMA AcceptTyped ==
  ASSUME HandlersAreRight, HandlersHaveTypes, NEW h \in Handlers, NEW client \in Clients, NEW call,
         Accept(h, client, call)
  PROVE  HandlersHaveTypes'
<1>1. PICK new : /\ handler' = [handler EXCEPT ![h] = new]
                 /\ new = [Free EXCEPT !.at = First(call), !.client = client, !.call = call,
                                       !.since = eddbInfo,
                                       !.knew = {n \in Names :
                                                   /\ IsFresh(n)
                                                   /\ \E i \in DOMAIN call.names : call.names[i] = n}]
  BY DEF Accept
<1>2. new.at = First(call) /\ new.client = client /\ new.reply = NoReply /\ new.found = <<>>
  BY <1>1 DEF Free
<1>3. First(call) \in {"load", "lookup", "collector"}
  BY DEF First
<1>4. HandlerHasType(new)
  BY <1>2, <1>3 DEF HandlerHasType, Places
<1> QED
  BY <1>1, <1>4, OneHandlerTyped

LEMMA OneWorkerTyped ==
  ASSUME WorkersAreRight, BotHasTypes, bot' = bot, NEW w \in Workers, NEW r, WorkerHasType(r),
         worker' = [worker EXCEPT ![w] = r]
  PROVE  BotHasTypes'
<1>1. \A v \in Workers : worker'[v] = IF v = w THEN r ELSE worker[v]
  BY DEF WorkersAreRight
<1> QED
  BY <1>1 DEF BotHasTypes

LEMMA IdleHasType ==
  ASSUME NEW place \in {"starting", "receive", "left"}
  PROVE  WorkerHasType(Idle(place))
BY DEF WorkerHasType, Idle, Busy

\* A worker that has a message says something.
LEMMA SayTyped ==
  ASSUME WorkersAreRight, BotHasTypes, bot' = bot, NEW w \in Workers, worker[w].at \in Busy,
         NEW text, text # NoText, Say(w, text)
  PROVE  BotHasTypes'
<1>1. PICK r : r = [worker[w] EXCEPT !.at = "say", !.text = text] /\ worker' = [worker EXCEPT ![w] = r]
  BY DEF Say
<1>2. worker[w] = [at |-> worker[w].at, message |-> worker[w].message, text |-> worker[w].text]
  BY DEF WorkersAreRight
<1>3. r = [at |-> "say", message |-> worker[w].message, text |-> text]
  BY <1>1, <1>2
<1>4. worker[w].message # NoMessage
  BY DEF BotHasTypes, WorkerHasType
<1>5. WorkerHasType(r)
  BY <1>3, <1>4 DEF WorkerHasType, Busy
<1> QED
  BY <1>1, <1>5, OneWorkerTyped

\* A worker goes on to another place, with its message or without one.
LEMMA StepTyped ==
  ASSUME WorkersAreRight, BotHasTypes, bot' = bot, NEW w \in Workers, NEW from, NEW to, Step(w, from, to),
         <<from, to>> \in {<<"handle", "call">>, <<"call", "waiting">>, <<"receive", "left">>}
  PROVE  BotHasTypes'
<1>1. PICK r : r = [worker[w] EXCEPT !.at = to] /\ worker' = [worker EXCEPT ![w] = r]
  BY DEF Step
<1>2. r = [at |-> to, message |-> worker[w].message, text |-> worker[w].text]
  BY <1>1 DEF WorkersAreRight
<1>3. WorkerHasType(worker[w]) /\ worker[w].at = from
  BY DEF BotHasTypes, Step
<1>4. WorkerHasType(r)
  BY <1>2, <1>3 DEF WorkerHasType, Busy
<1> QED
  BY <1>1, <1>4, OneWorkerTyped

LEMMA MessageIsMessage ==
  ASSUME NEW m \in Messages
  PROVE  m # NoMessage
BY TalkerAssumption DEF NoMessage

LEMMA BotStepTyped ==
  ASSUME Inv, WorkersFit, Typed, start \/ close \/ BotEnds
  PROVE  Typed'
<1>1. CASE start
  BY <1>1, IdleHasType DEF start, Typed, BotHasTypes, HandlersHaveTypes, giVars, server
<1>2. CASE close
  BY <1>2 DEF close, Typed, BotHasTypes, HandlersHaveTypes, giVars, server
<1>3. CASE BotEnds
  <2>1. HandlersHaveTypes'
    BY <1>3, LeaveTyped, GoneIsNoWorker DEF BotEnds, Inv, Typed
  <2>2. BotHasTypes'
    BY <1>3, IdleHasType DEF BotEnds, BotHasTypes
  <2> QED
    BY <1>3, <2>1, <2>2 DEF BotEnds, Typed, server
<1> QED
  BY <1>1, <1>2, <1>3

LEMMA WorkerStepTyped ==
  ASSUME Inv, WorkersFit, Typed, NEW w \in Workers,
         \/ \E m \in Messages : onMessageCreate(w, m)
         \/ WorkerStep(w) \/ Deadline(w) \/ \E h \in Handlers : Call(w, h)
  PROVE  Typed'
<1>0. WorkersAreRight /\ HandlersAreRight /\ BotHasTypes /\ HandlersHaveTypes
  BY DEF Inv, Typed
<1>1. ASSUME NEW m \in Messages, onMessageCreate(w, m)
      PROVE  Typed'
  <2>1. PICK r : r = [Idle("handle") EXCEPT !.message = m] /\ worker' = [worker EXCEPT ![w] = r]
    BY <1>1 DEF onMessageCreate
  <2>2. r = [at |-> "handle", message |-> m, text |-> NoText]
    BY <2>1 DEF Idle
  <2>3. WorkerHasType(r)
    BY <2>2, MessageIsMessage DEF WorkerHasType, Busy
  <2>4. BotHasTypes'
    BY <1>0, <1>1, <2>1, <2>3, OneWorkerTyped DEF onMessageCreate
  <2> QED
    BY <1>0, <1>1, <2>4 DEF onMessageCreate, Typed, HandlersHaveTypes, giVars, server
<1>2. CASE HandleHere(w) \/ CallFails(w) \/ Ask(w) \/ Said(w) \/ Finish(w)
  <2>1. UNCHANGED giVars /\ bot' = bot
    BY <1>2 DEF HandleHere, CallFails, Ask, Said, Finish
  <2>2. ASSUME HandleHere(w) \/ Said(w)
       PROVE  BotHasTypes'
    <3>1. CASE worker' = [worker EXCEPT ![w] = Idle("receive")]
      BY <1>0, <2>1, <3>1, IdleHasType, OneWorkerTyped
    <3>2. CASE HandleHere(w) /\ Say(w, OwnText)
      <4>1. worker[w].at \in Busy /\ OwnText # NoText
        BY <3>2, RepliesAreReplies DEF HandleHere, Busy, NoText
      <4> QED
        BY <1>0, <2>1, <3>2, <4>1, SayTyped
    <3> QED
      BY <2>2, <3>1, <3>2
      DEF HandleHere, Said, handleHelpRequest, handleDirectOperatorMessage, Refuse, Ignore
  <2>3. ASSUME CallFails(w)
       PROVE  BotHasTypes'
    <3>1. worker[w].at \in Busy /\ Malfunction # NoText /\ Say(w, Malfunction)
      BY <2>3, RepliesAreReplies DEF CallFails, Busy, NoText
    <3> QED
      BY <1>0, <2>1, <3>1, SayTyped
  <2>4. ASSUME Ask(w) \/ Finish(w)
       PROVE  BotHasTypes'
    BY <1>0, <2>1, <2>4, StepTyped DEF Ask, Finish
  <2>5. BotHasTypes'
    BY <1>2, <2>2, <2>3, <2>4
  <2> QED
    BY <1>0, <2>1, <2>5 DEF Typed, HandlersHaveTypes, giVars, server
<1>3. ASSUME NEW h \in Handlers, Call(w, h)
      PROVE  Typed'
  <2>1. BotHasTypes'
    BY <1>0, <1>3, StepTyped DEF Call
  <2>2. HandlersHaveTypes'
    BY <1>0, <1>3, AcceptTyped, TalkerAssumption DEF Call
  <2> QED
    BY <1>3, <2>1, <2>2 DEF Call, Accept, Typed, server
<1>4. ASSUME NEW h \in Handlers, Answered(w, h)
      PROVE  Typed'
  <2> DEFINE text == Text(worker[w].message, handler[h].reply)
  <2>1. handler[h].reply # NoReply
    BY <1>0, <1>4 DEF Answered, At, HandlersHaveTypes, HandlerHasType
  <2>2. text # NoText
    BY <2>1, RepliesAreReplies DEF Text, NoText
  <2>3. worker[w].at \in Busy
    BY <1>4 DEF Answered, Busy
  <2>4. BotHasTypes'
    BY <1>0, <1>4, <2>2, <2>3, SayTyped DEF Answered
  <2>5. HandlersHaveTypes'
    BY <1>0, <1>4, FreeHasType, OneHandlerTyped DEF Answered
  <2> QED
    BY <1>4, <2>4, <2>5 DEF Answered, Typed, server
<1>5. CASE Deadline(w)
  <2>1. worker[w].at \in Busy
    BY <1>5 DEF Deadline, Slow, WorkersFit, Fits, Busy
  <2>2. BotHasTypes'
    BY <1>0, <1>5, <2>1, SayTyped, RepliesAreReplies DEF Deadline, NoText
  <2>3. HandlersHaveTypes'
    BY <1>0, <1>5, LeaveTyped, GoneIsNoWorker DEF Deadline
  <2> QED
    BY <1>5, <2>2, <2>3 DEF Deadline, Typed, server
<1> QED
  BY <1>1, <1>2, <1>3, <1>4, <1>5 DEF WorkerStep

LEMMA OtherClientTyped ==
  ASSUME Inv, Typed, NEW c \in Clients, OtherClient(c)
  PROVE  Typed'
<1>1. UNCHANGED botVars /\ UNCHANGED server
  BY DEF OtherClient, Accept
<1>2. HandlersHaveTypes'
  BY AcceptTyped, LeaveTyped, GIServerAssumption DEF OtherClient, Inv, Typed
<1> QED
  BY <1>1, <1>2 DEF Typed, BotHasTypes, botVars, server

-----------------------------------------------------------------------------
(* The theorems.                                                            *)

LEMMA Invariance == TalkerSpec => [](Inv /\ WorkersFit)
<1>1. TalkerInit => Inv /\ WorkersFit
  <2> SUFFICES ASSUME TalkerInit
               PROVE  Inv /\ WorkersFit
    OBVIOUS
  <2>1. HandlersAreRight
    BY FreeIsRight DEF TalkerInit, GIInit, HandlersAreRight
  <2>2. ServerOK
    <3>1. CacheIsTrue
      BY DEF TalkerInit, GIInit, CacheIsTrue
    <3> QED
      BY <3>1, GIServerAssumption DEF TalkerInit, GIInit, ServerOK, NoData, Free
  <2>3. \A w \in Workers : worker[w] = Idle("starting")
    BY DEF TalkerInit
  <2>4. WorkersAreRight
    BY <2>3 DEF TalkerInit, WorkersAreRight, Idle
  <2>5. \A w \in Workers, h \in Handlers : handler[h].client # w
    BY GoneIsNoWorker DEF TalkerInit, GIInit, Free
  <2>6. WorkersFit
    BY <2>3, <2>5 DEF WorkersFit, Fits, Idle
  <2> QED
    BY <2>1, <2>2, <2>4, <2>6 DEF Inv
<1>2. Inv /\ WorkersFit /\ [TalkerNext]_talkerVars => (Inv /\ WorkersFit)'
  <2> SUFFICES ASSUME Inv, WorkersFit, [TalkerNext]_talkerVars
               PROVE  Inv' /\ WorkersFit'
    OBVIOUS
  <2>1. CASE UNCHANGED talkerVars
    <3>1. Inv'
      BY <2>1 DEF talkerVars, botVars, Inv, HandlersAreRight, ServerOK, CacheIsTrue, FreshNames,
                  WorkersAreRight, giVars, server, IsRight
    <3>2. WorkersFit'
      BY <2>1 DEF talkerVars, botVars, WorkersFit, Fits, giVars, server
    <3> QED
      BY <3>1, <3>2
  <2>2. CASE TalkerNext
    BY <2>2, ServerStepKeeps, BotStepKeeps, AloneStepKeeps, CallKeeps, AnsweredKeeps,
       DeadlineKeeps, OtherClientKeeps DEF TalkerNext, WorkerStep
  <2> QED
    BY <2>1, <2>2
<1> QED
  BY <1>1, <1>2, PTL DEF TalkerSpec

LEMMA TypeInvariance == TalkerSpec => []Typed
<1>1. TalkerInit => Typed
  BY FreeHasType, IdleHasType DEF TalkerInit, GIInit, Typed, HandlersHaveTypes, BotHasTypes
<1>2. Inv /\ WorkersFit /\ Typed /\ [TalkerNext]_talkerVars => Typed'
  <2> SUFFICES ASSUME Inv, WorkersFit, Typed, [TalkerNext]_talkerVars
               PROVE  Typed'
    OBVIOUS
  <2>1. CASE UNCHANGED talkerVars
    BY <2>1 DEF talkerVars, botVars, giVars, server, Typed, HandlersHaveTypes, BotHasTypes
  <2>2. CASE ServerStep /\ UNCHANGED botVars
    BY <2>2, ServerStepTyped DEF Inv, Typed, BotHasTypes, botVars
  <2>3. CASE TalkerNext /\ ~(ServerStep /\ UNCHANGED botVars)
    BY <2>3, BotStepTyped, WorkerStepTyped, OtherClientTyped DEF TalkerNext
  <2> QED
    BY <2>1, <2>2, <2>3
<1> QED
  BY <1>1, <1>2, Invariance, PTL DEF TalkerSpec

(* The types of the server and of the bot, among them that a worker waits   *)
(* only for a reply to the question it has: talker.go, ediserver.go,        *)
(* ediclient.go:24-44.                                                      *)
THEOREM TalkerTypes == TalkerSpec => []TalkerTypeOK
<1>1. Inv /\ WorkersFit /\ Typed => TalkerTypeOK
  <2> SUFFICES ASSUME Inv, WorkersFit, Typed
               PROVE  TalkerTypeOK
    OBVIOUS
  <2>1. /\ files \in Versions \cup {NoData} /\ eddbInfo \in NoData .. files
        /\ up \in BOOLEAN
        /\ DOMAIN edsmCache \subseteq Names
        /\ \A n \in DOMAIN edsmCache : edsmCache[n] \in [summary : EDSMTells(n), fresh : BOOLEAN]
    BY GIServerAssumption DEF Inv, ServerOK, CacheIsTrue, Typed, Versions, NoData
  <2>2. ASSUME NEW h \in Handlers, handler[h].at # "free"
        PROVE  /\ up /\ IsCall(handler[h].call)
               /\ Len(handler[h].found) <= Len(handler[h].call.names)
               /\ handler[h].at \in {"connector", "edsm"} => Len(handler[h].found) < Len(handler[h].call.names)
    <3> DEFINE r == handler[h]
    <3>1. up /\ IsCall(r.call) /\ FoundIsTrue(r, eddbInfo) /\ PlaceIsRight(r, eddbInfo)
      BY <2>2, AtWork DEF Inv
    <3>2. HandlerHasType(r)
      BY DEF Typed, HandlersHaveTypes
    <3>3. Len(r.found) \in Nat /\ Len(r.call.names) \in Nat
      BY <3>1 DEF FoundIsTrue, IsCall
    <3>4. r.found = <<>> => Len(r.found) = 0
      OBVIOUS
    <3>5. r.at \in {"load", "collector", "replied"} => r.found = <<>>
      BY <3>1, <3>2 DEF PlaceIsRight, HandlerHasType
    <3>6. r.at \in {"lookup", "connector", "edsm"} => Len(r.found) < Len(r.call.names)
      BY <3>1 DEF PlaceIsRight
    <3>7. r.at = "found" => Len(r.found) = Len(r.call.names)
      BY <3>1 DEF PlaceIsRight
    <3> QED
      BY <2>2, <3>1, <3>2, <3>3, <3>4, <3>5, <3>6, <3>7 DEF HandlerHasType, Places
  <2>3. GITypeOK
    BY <2>1, <2>2, Zenon DEF GITypeOK, Typed, HandlersHaveTypes, HandlerHasType, Places, Free
  <2>4. \A w \in Workers : worker[w].at \in {"call", "waiting"} => IsQuestion(worker[w].message)
    BY DEF Inv, WorkersAreRight
  <2> QED
    BY <2>3, <2>4 DEF TalkerTypeOK, Typed, BotHasTypes, WorkerHasType, WorkersFit, Fits
<1> QED
  BY <1>1, Invariance, TypeInvariance, PTL

(* Every reply of the server holds for snapshots served while the call was  *)
(* handled: ediserver.go:58-75 and 161-258, for any number of clients.      *)
THEOREM RepliesHoldWhenGiven == TalkerSpec => []RepliesAreCurrent
<1>1. Inv => RepliesAreCurrent
  BY DEF Inv, HandlersAreRight, IsRight, PlaceIsRight, RepliesAreCurrent, Served, At
<1> QED
  BY <1>1, Invariance, PTL

(* What a worker says is true of the message it answers, however many       *)
(* workers and other clients call at the same time and whichever of their   *)
(* calls they gave up: ediclient.go:24-44, talker.go:295-590.               *)
THEOREM WorkersSayWhatFits == TalkerSpec => []AnswersFitMessages
<1>1. WorkersFit => AnswersFitMessages
  BY DEF WorkersFit, Fits, AnswersFitMessages
<1> QED
  BY <1>1, Invariance, PTL
=============================================================================
