------------------------------ MODULE MCTalker ------------------------------
(* Sol is in every version of the data; Hutton, which EDSM knows, is        *)
(* inhabited and so comes with the second; Old Hutton is a name that EDSM   *)
(* answers as Hutton. The bot has one worker, and an application is the     *)
(* second client of the server.                                             *)
EXTENDS Talker, TLC

CONSTANTS worker1, app

MCNames == {"Sol", "Hutton", "Old Hutton"}
MCSimilar == [n \in MCNames |-> {"Sol", "Hutton"}]

sol == [name |-> "Sol", place |-> 0, population |-> 2, state |-> "boom", factions |-> {1}]
hutton == [name |-> "Hutton", place |-> 3, population |-> 1, state |-> "war", factions |-> {1}]
MCFiles(systems) ==
  [systems |-> systems, factions |-> 1 :> [player |-> TRUE],
   stations |-> 11 :> [system |-> 1, docking |-> TRUE] @@ 21 :> [system |-> 2, docking |-> TRUE]]
MCData == <<MCFiles(<<sol>>), MCFiles(<<sol, hutton>>)>>
MCGalaxy == [v \in DOMAIN MCData |-> CHOOSE info \in BuildEDDBInfo(MCData[v]) : TRUE]

MCEDSMSystems == [n \in {"Hutton", "Old Hutton"} |-> [place |-> 3, population |-> 0]]
MCEDSMName == [n \in DOMAIN MCEDSMSystems |-> "Hutton"]

MCMessages ==
  {[command |-> "system", names |-> <<"Hutton">>],
   [command |-> "distance", names |-> <<"Sol", "Hutton">>],
   [command |-> "stations", names |-> <<"Hutton">>],
   [command |-> "stat", names |-> <<>>],
   [command |-> "activity", names |-> findPopularSystemParam({"in the bubble"}, "Sol")],
   [command |-> "popular", names |-> findPopularSystemParam({}, "Sol")],
   [command |-> "help", names |-> <<>>],
   [command |-> "operator", names |-> <<>>],
   [command |-> "other", names |-> <<>>]}

MCOtherCalls ==
  {[method |-> "GetInterestingSystem4State", names |-> <<"Old Hutton">>, states |-> {"war"},
    minPop |-> 1, maxDistance |-> 3]}
=============================================================================
