-------------------------- MODULE MCEDSMConnector --------------------------
(* Requests and names are model values of the configurations.               *)
EXTENDS EDSMConnector
=============================================================================
