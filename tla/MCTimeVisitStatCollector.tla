---------------------- MODULE MCTimeVisitStatCollector ----------------------
(* A history of three frames of ten seconds under visits in seven frames on *)
(* both sides of the epoch, some next to each other and some with a gap in  *)
(* between; a second before and a second after the epoch share frame zero,  *)
(* since the division truncates, and 9 and 10 lie on both sides of a        *)
(* boundary. A day has three frames, reports reach back over three days,    *)
(* and at now = 5 a midnight begins the last hour of the chart's axis.      *)
EXTENDS ActivityChart

MCTimestamps == {-35, -25, -5, 9, 10, 25, 35, 60}
=============================================================================
