--------------------------- MODULE TimeVisitStat ---------------------------
(* The visit history of src/edGalaxy/timestat.go as operators on values: a  *)
(* history is a sequence of [mark, count] records, newest time frame first. *)
EXTENDS Integers, SequencesExt

\* Go's "/" on int64: the quotient is truncated towards zero, not floored.
GoDiv(a, b) == IF a >= 0 THEN a \div b ELSE -((-a) \div b)

\* The time frame a timestamp (in Unix seconds) falls into.
MarkOf(timestamp, timeframe) == GoDiv(timestamp, timeframe)

\* A mutant of FirstVisit: the first visit is not counted.
FirstVisitUncounted(timemark) == [mark |-> timemark, count |-> 0]

FirstVisit(timemark) == [mark |-> timemark, count |-> 1]
OneMore(visit) == [mark |-> visit.mark, count |-> visit.count + 1]

MarksIn(visits) == {visits[i].mark : i \in DOMAIN visits}

Held(visits, timemark)  == {i \in DOMAIN visits : visits[i].mark = timemark}
Older(visits, timemark) == {i \in DOMAIN visits : timemark > visits[i].mark}

First(indices) == CHOOSE i \in indices : \A j \in indices : i <= j

\* Mutants of Trim: no limit, the wrong end dropped, one record too few kept.
TrimNothing(visits, maxMarks) == visits
TrimNewest(visits, maxMarks) ==
  IF Len(visits) > maxMarks THEN Tail(visits) ELSE visits
TrimOneMore(visits, maxMarks) ==
  IF Len(visits) >= maxMarks THEN SubSeq(visits, 1, maxMarks - 1) ELSE visits

\* Keeps at most maxMarks records, dropping the oldest ones.
Trim(visits, maxMarks) ==
  IF Len(visits) > maxMarks THEN SubSeq(visits, 1, maxMarks) ELSE visits

\* A mutant of NoteVisitByTimemark: a mark older than all takes the last place.
NoteVisitReplacingOldest(visits, timemark, maxMarks) ==
  LET held == Held(visits, timemark)
      older == Older(visits, timemark)
  IN  IF held # {} THEN [visits EXCEPT ![First(held)] = OneMore(@)]
      ELSE IF older # {}
        THEN Trim(InsertAt(visits, First(older), FirstVisit(timemark)), maxMarks)
      ELSE IF Len(visits) < maxMarks THEN Append(visits, FirstVisit(timemark))
      ELSE [visits EXCEPT ![Len(visits)] = FirstVisit(timemark)]

(* noteVisitByTimemark: a mark already held is counted once more; a new mark *)
(* goes in front of the first older one and the history is cut back to its   *)
(* limit; a mark older than all is kept only while there is room for it.     *)
NoteVisitByTimemark(visits, timemark, maxMarks) ==
  LET held == Held(visits, timemark)
      older == Older(visits, timemark)
  IN  IF held # {} THEN [visits EXCEPT ![First(held)] = OneMore(@)]
      ELSE IF older # {}
        THEN Trim(InsertAt(visits, First(older), FirstVisit(timemark)), maxMarks)
      ELSE IF Len(visits) < maxMarks THEN Append(visits, FirstVisit(timemark))
      ELSE visits

\* The number of visits a history holds for a time frame.
CountAt(visits, timemark) ==
  IF timemark \in MarksIn(visits)
    THEN visits[First(Held(visits, timemark))].count ELSE 0

\* A mutant of TotalVisits: time frames are counted for visits.
TotalFrames(visits) == Len(visits)

\* The number of visits a history holds.
TotalVisits(visits) == FoldLeft(LAMBDA n, v : n + v.count, 0, visits)

-----------------------------------------------------------------------------

(* For the properties: a history that has every visit of an older one, but  *)
(* of frames it has no room for, full of newer ones as it is.               *)
CoversHistory(visits, old, maxMarks) ==
  \A i \in DOMAIN old :
    \/ \E j \in DOMAIN visits :
         visits[j].mark = old[i].mark /\ visits[j].count >= old[i].count
    \/ /\ Len(visits) = maxMarks
       /\ \A j \in DOMAIN visits : visits[j].mark > old[i].mark
=============================================================================
