----------------------------- MODULE StatStore -----------------------------
(* What the statistics promise, without channels, lines and jobs: a map from *)
(* systems to histories in memory, and a file from which it is brought back. *)
(* Of the file only what a restore would read counts. It is written piece by *)
(* piece, but every piece is of the one memory there is: at no time does it  *)
(* mix the states of two moments, and memory changes in one system at a time *)
(* or as a whole to what the file gives.                                     *)
EXTENDS Functions

CONSTANT Systems

VARIABLES stats, file

vars == <<stats, file>>

Empty == [s \in {} |-> {}]

Init == stats = Empty /\ file = Empty

\* An event changes or adds one system; none is ever removed.
Count(s) ==
  /\ DOMAIN stats' = DOMAIN stats \cup {s}
  /\ \A t \in DOMAIN stats \ {s} : stats'[t] = stats[t]
  /\ UNCHANGED file

\* The file becomes a part of the memory of this moment.
Write(part) ==
  /\ file' = Restrict(stats, part)
  /\ UNCHANGED stats

Restore == stats' = file /\ UNCHANGED file

\* The process ends; its memory is gone.
End == stats' = Empty /\ UNCHANGED file

Next ==
  \/ \E s \in Systems : Count(s)
  \/ \E part \in SUBSET DOMAIN stats : Write(part)
  \/ Restore \/ End

Spec == Init /\ [][Next]_vars
=============================================================================
