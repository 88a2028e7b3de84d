----------------------- MODULE TimeVisitStatCollector -----------------------
(* One TimeVisitStatCollector object (src/edGalaxy/timestat.go): visits are *)
(* noted in any order of their timestamps, which come from other players'   *)
(* machines and may lie in the past or in the future.                       *)
EXTENDS TimeVisitStat

CONSTANTS
  MaxMarks,    \* the most time frames the history keeps
  Timeframe,   \* the length of a time frame in seconds
  Timestamps,  \* the timestamps visits are noted with
  NotesBound   \* model bound: visits noted per time frame

ASSUME ConstantsAssumption ==
  /\ MaxMarks \in Nat
  /\ Timeframe \in Nat \ {0}
  /\ Timestamps \subseteq Int
  /\ NotesBound \in Nat

Marks == {MarkOf(t, Timeframe) : t \in Timestamps}

VARIABLES
  Visits,  \* the history kept by the collector
  noted    \* history variable: every visit ever noted, by time frame

vars == <<Visits, noted>>

TypeOK ==
  /\ Visits \in Seq([mark : Marks, count : Nat \ {0}])
  /\ noted \in [Marks -> Nat]

\* NewTimeVisitStatCollector.
Init ==
  /\ Visits = <<>>
  /\ noted = [m \in Marks |-> 0]

NoteVisit(timestamp) ==
  LET timemark == MarkOf(timestamp, Timeframe)
  IN  /\ noted[timemark] < NotesBound
      /\ Visits' = NoteVisitByTimemark(Visits, timemark, MaxMarks)
      /\ noted' = [noted EXCEPT ![timemark] = @ + 1]

Next == \E t \in Timestamps : NoteVisit(t)

Spec == Init /\ [][Next]_vars

-----------------------------------------------------------------------------

(* The history is ordered, newest first, without gaps in its indices: two   *)
(* records are at least as many time frames apart as they are places apart, *)
(* and there are never more of them than MaxMarks (timestat.go:52-73).      *)
HistoryIsOrdered ==
  /\ Len(Visits) <= MaxMarks
  /\ \A i, j \in DOMAIN Visits :
       i < j => Visits[i].mark - Visits[j].mark >= j - i

(* A time frame in the history holds every visit ever noted for it: no      *)
(* frame that was pushed out comes back with a count that starts again at   *)
(* one (timestat.go:46-51 and 64-66).                                       *)
HistoryIsExact ==
  \A i \in DOMAIN Visits : Visits[i].count = noted[Visits[i].mark]

(* The history holds the newest frames: a frame that was noted and is not   *)
(* in it is older than all of it, and the history is full.                  *)
HistoryIsNewest ==
  \A m \in Marks :
    noted[m] > 0 /\ m \notin MarksIn(Visits)
      => /\ Len(Visits) = MaxMarks
         /\ \A n \in MarksIn(Visits) : m < n

(* What the activity report relies on (ross.go:234-245 reads the last       *)
(* historySize = MaxMarks frames): as long as nothing was noted later than  *)
(* now, each of the last MaxMarks frames is reported with all its visits.   *)
RecentFramesAreComplete ==
  \A now \in Marks :
    (\A m \in Marks : noted[m] > 0 => m <= now)
      => \A m \in Marks :
           now - m \in 0 .. (MaxMarks - 1) => CountAt(Visits, m) = noted[m]
=============================================================================
