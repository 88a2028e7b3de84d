------------------------ MODULE MCShipStatCollector ------------------------
(* Two systems one light year apart; s1 stands for the first, s2 for the    *)
(* second.                                                                  *)
EXTENDS ShipStatCollector

CONSTANTS s1, s2

MCPosition == s1 :> 0 @@ s2 :> 1
MCOnePosition == s1 :> 0
=============================================================================
