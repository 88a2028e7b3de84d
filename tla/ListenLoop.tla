----------------------------- MODULE ListenLoop -----------------------------
(* The listener of src/eddb/ross.go: StartListen starts at most one listen   *)
(* loop, which receives events from the EDDN relay and hands them on without *)
(* ever waiting; Shutdown asks it to stop through listenLoopStatus. What     *)
(* becomes of the events is the subject of ShipStatCollector.                *)
EXTENDS Integers

CONSTANTS
  Starters,  \* goroutines that call StartListen, once each; each may own a loop
  Kinds,     \* kinds of messages received
  LateBound  \* model bound: events handed on after a shutdown was requested

\* Decoded to an event that is counted, to one that is not, or not at all.
AllKinds == {"FSDJump", "Docked", "other", "garbled"}

ASSUME ListenAssumption == Kinds \subseteq AllKinds /\ LateBound \in Nat

Idle == 0
ListenRunning == 1
ShutdownRequested == 2

VARIABLES
  listenLoopStatus,
  called,   \* starters that called StartListen
  at,       \* where the loop of each starter is
  req,      \* its socket: "nil", "new" (needDeal is set), "dialed" or "closed"
  event,    \* the kind of the message in hand
  late      \* history variable: events handed on after a shutdown was requested

vars == <<listenLoopStatus, called, at, req, event, late>>

TypeOK ==
  /\ listenLoopStatus \in {Idle, ListenRunning, ShutdownRequested}
  /\ called \in SUBSET Starters
  /\ at \in [Starters -> {"none", "head", "dial", "recv", "dispatch", "returned"}]
  /\ req \in [Starters -> {"nil", "new", "dialed", "closed"}]
  /\ event \in [Starters -> Kinds \cup {"none"}]
  /\ late \in Nat

Init ==
  /\ listenLoopStatus = Idle
  /\ called = {}
  /\ at = [l \in Starters |-> "none"]
  /\ req = [l \in Starters |-> "nil"]
  /\ event = [l \in Starters |-> "none"]
  /\ late = 0

Goto(l, place) == at' = [at EXCEPT ![l] = place]

\* A mutant of StartListen: the loop is started when it is not known to run.
StartListenUnlessRunning(l) ==
  /\ l \notin called
  /\ called' = called \cup {l}
  /\ IF listenLoopStatus # ListenRunning
       THEN listenLoopStatus' = ListenRunning /\ Goto(l, "head")
       ELSE UNCHANGED <<listenLoopStatus, at>>
  /\ UNCHANGED <<req, event, late>>

\* CompareAndSwapInt32(&listenLoopStatus, 0, 1): without effect in any other state.
StartListen(l) ==
  /\ l \notin called
  /\ called' = called \cup {l}
  /\ IF listenLoopStatus = Idle
       THEN listenLoopStatus' = ListenRunning /\ Goto(l, "head")
       ELSE UNCHANGED <<listenLoopStatus, at>>
  /\ UNCHANGED <<req, event, late>>

\* A mutant of RequestShutdown: the status is counted up.
RequestShutdownCounts ==
  /\ listenLoopStatus' = listenLoopStatus + 1
  /\ UNCHANGED <<called, at, req, event, late>>

\* The first step of Shutdown, whatever the state.
RequestShutdown ==
  /\ listenLoopStatus' = ShutdownRequested
  /\ UNCHANGED <<called, at, req, event, late>>

-----------------------------------------------------------------------------

\* The loop looks for a shutdown here only, and leaves only with a socket to close.
Return(l) ==
  /\ at[l] = "head" /\ listenLoopStatus = ShutdownRequested /\ req[l] # "nil"
  /\ Goto(l, "returned")
  /\ req' = [req EXCEPT ![l] = "closed"]
  /\ UNCHANGED <<listenLoopStatus, called, event, late>>

\* A mutant of Continue: it may be taken also when a shutdown was requested.
ContinueAnyway(l) ==
  /\ at[l] = "head"
  /\ req' = [req EXCEPT ![l] = IF @ = "nil" THEN "new" ELSE @]
  /\ Goto(l, IF req'[l] = "new" THEN "dial" ELSE "recv")
  /\ UNCHANGED <<listenLoopStatus, called, event, late>>

\* Without a socket it makes one, even when a shutdown was requested.
Continue(l) ==
  /\ at[l] = "head" /\ ~(listenLoopStatus = ShutdownRequested /\ req[l] # "nil")
  /\ req' = [req EXCEPT ![l] = IF @ = "nil" THEN "new" ELSE @]
  /\ Goto(l, IF req'[l] = "new" THEN "dial" ELSE "recv")
  /\ UNCHANGED <<listenLoopStatus, called, event, late>>

Dial(l) ==
  /\ at[l] = "dial" /\ Goto(l, "recv")
  /\ req' = [req EXCEPT ![l] = "dialed"]
  /\ UNCHANGED <<listenLoopStatus, called, event, late>>

\* The socket is kept, to be dialed again after five seconds.
DialFails(l) ==
  /\ at[l] = "dial" /\ Goto(l, "head")
  /\ UNCHANGED <<listenLoopStatus, called, req, event, late>>

Recv(l, kind) ==
  /\ at[l] = "recv" /\ Goto(l, "dispatch")
  /\ event' = [event EXCEPT ![l] = kind]
  /\ UNCHANGED <<listenLoopStatus, called, req, late>>

\* The socket is closed, and another one made after five seconds.
RecvFails(l) ==
  /\ at[l] = "recv" /\ Goto(l, "head")
  /\ req' = [req EXCEPT ![l] = "nil"]
  /\ UNCHANGED <<listenLoopStatus, called, event, late>>

\* A message that decodes to a jump or a docking is handed to NoteFSDJump or
\* NoteDocked; every other message is forgotten.
Dispatch(l) ==
  /\ at[l] = "dispatch" /\ Goto(l, "head")
  /\ late' = IF event[l] \in {"FSDJump", "Docked"} /\ listenLoopStatus = ShutdownRequested
               THEN late + 1 ELSE late
  /\ late' <= LateBound
  /\ event' = [event EXCEPT ![l] = "none"]
  /\ UNCHANGED <<listenLoopStatus, called, req>>

listenLoop(l) ==
  \/ Return(l) \/ Continue(l)
  \/ Dial(l) \/ DialFails(l)
  \/ (\E kind \in Kinds : Recv(l, kind)) \/ RecvFails(l)
  \/ Dispatch(l)

Next ==
  \/ \E l \in Starters : StartListen(l) \/ listenLoop(l)
  \/ RequestShutdown

Spec == Init /\ [][Next]_vars

(* The loop runs, and messages keep coming: a socket that is used again and *)
(* again delivers one in the end.                                           *)
FairSpec ==
  /\ Spec
  /\ \A l \in Starters :
       /\ WF_vars(listenLoop(l))
       /\ SF_vars(\E kind \in Kinds : Recv(l, kind)) /\ SF_vars(Dial(l))

-----------------------------------------------------------------------------

Listening(l) == at[l] \notin {"none", "returned"}

(* However many calls of StartListen and Shutdown race, there is never more *)
(* than one loop, and none but the one started first (ross.go:547-554).     *)
OneLoop ==
  \A k, l \in Starters : at[k] # "none" /\ at[l] # "none" => k = l

(* Once a shutdown was requested at most one more event is handed on, also  *)
(* when the loop has to connect again to see the request                    *)
(* (ross.go:457-489).                                                       *)
OneLateEvent == late <= 1

(* While messages keep coming, the loop sees a request to shut down and     *)
(* leaves (ross.go:457-462).                                                *)
LoopLeaves ==
  \A l \in Starters :
    Listening(l) /\ listenLoopStatus = ShutdownRequested ~> at[l] = "returned"
=============================================================================
