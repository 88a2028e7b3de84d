------------------------------ MODULE EDDBInfo ------------------------------
(* What the data from EDDB say, src/eddb/eddbinfo.go: the snapshot that     *)
(* BuildEDDBInfo makes of the files, and the queries on it. A snapshot never *)
(* changes once it is built. Names are in upper case, as the index has them. *)
EXTENDS Integers, Sequences, FiniteSets, FiniteSetsExt

CONSTANTS
  Names,    \* names of star systems
  Similar   \* Similar[n]: the names that fuzzy.FindFold finds for n

ASSUME EDDBInfoAssumption == Similar \in [Names -> SUBSET Names]

(* The files, as functions from ids to records:                             *)
(*   systems   name, place, population, state, factions (ids)               *)
(*   stations  system (an id), docking                                      *)
(*   factions  player                                                       *)

\* Of two systems with one name the one that the random order of a map brings last
\* is found.
IsIndex(systemsByName, systems) ==
  /\ DOMAIN systemsByName = {systems[id].name : id \in DOMAIN systems}
  /\ \A n \in DOMAIN systemsByName :
       systemsByName[n] \in DOMAIN systems /\ systems[systemsByName[n]].name = n

\* The snapshots that BuildEDDBInfo may make of some files. A station of a system
\* that is not in the files belongs nowhere.
BuildEDDBInfo(files) ==
  LET indexes == [{files.systems[id].name : id \in DOMAIN files.systems} -> DOMAIN files.systems]
      Of(id) == {st \in DOMAIN files.stations : files.stations[st].system = id}
  IN  {[systems |-> files.systems, stations |-> files.stations, factions |-> files.factions,
        stationsOf |-> [id \in DOMAIN files.systems |-> Of(id)],
        systemsByName |-> index] :
         index \in {i \in indexes : IsIndex(i, files.systems)}}

IsKnown(info, name) == name \in DOMAIN info.systemsByName
GetSystemByName(info, name) == info.systems[info.systemsByName[name]]

\* eddb2galaxy: the part of a system record that is passed on.
Summary(system) == [place |-> system.place, population |-> system.population]
SystemSummaryByName(info, name) == Summary(GetSystemByName(info, name))

GetDockableStations(info, name) ==
  {st \in info.stationsOf[info.systemsByName[name]] : info.stations[st].docking}

\* The whole of a set that is not larger than the limit, or any of that size.
Cut(S, limit) == IF Cardinality(S) <= limit THEN {S} ELSE kSubset(limit, S)

GetSimilarSystemNames(info, name) ==
  Similar[name] \cap {info.systems[id].name : id \in DOMAIN info.systems}

GetHumanWorldStat(info) ==
  [Systems |-> Cardinality(DOMAIN info.systems),
   Stations |-> Cardinality(DOMAIN info.stations),
   Factions |-> Cardinality(DOMAIN info.factions),
   HumanFactions |-> Cardinality({f \in DOMAIN info.factions : info.factions[f].player}),
   Population |-> MapThenSumSet(LAMBDA id : info.systems[id].population, DOMAIN info.systems)]

Distance(p, q) == IF p >= q THEN p - q ELSE q - p

\* The systems FindStates would take, had it no limit.
Suitable(info, states, place, minPop, maxDistance) ==
  {id \in DOMAIN info.systems :
     LET s == info.systems[id] IN
       /\ s.state \in states
       /\ s.population >= minPop
       /\ Distance(place, s.place) <= maxDistance
       /\ s.factions \cap DOMAIN info.factions # {}}

\* The answers FindStates may give: it stops at maxEntries systems.
FindStates(info, states, place, minPop, maxDistance, maxEntries) ==
  Cut(Suitable(info, states, place, minPop, maxDistance), maxEntries)
=============================================================================
