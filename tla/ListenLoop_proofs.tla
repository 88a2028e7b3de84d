------------------------- MODULE ListenLoop_proofs -------------------------
(* For any number of goroutines that call StartListen and any number of     *)
(* shutdowns there is at most one loop, and it hands on at most one event   *)
(* after a shutdown was requested.                                          *)
EXTENDS ListenLoop, TLAPS

\* Nothing listens before the first StartListen that finds the status idle.
IdleMeansNone ==
  listenLoopStatus = Idle => \A l \in Starters : at[l] = "none"

\* A loop past the head has the socket its place asks for, and only a loop that
\* has left has closed its own.
SocketFitsPlace ==
  \A l \in Starters :
    /\ req[l] = "closed" => at[l] = "returned"
    /\ at[l] = "none" => req[l] = "nil"
    /\ at[l] = "dial" => req[l] = "new"
    /\ at[l] \in {"recv", "dispatch"} => req[l] = "dialed"

\* An event was handed on after a shutdown was requested: the loop is on its way
\* to the check at the head, which it cannot pass, or has left.
LateMeansLeaving ==
  late > 0 =>
    /\ late = 1
    /\ listenLoopStatus = ShutdownRequested
    /\ \A l \in Starters :
         \/ at[l] \in {"none", "returned"}
         \/ at[l] = "head" /\ req[l] = "dialed"

IInv ==
  /\ TypeOK /\ OneLoop /\ IdleMeansNone
  /\ SocketFitsPlace /\ LateMeansLeaving

LEMMA InitEstablishes == Init => IInv
BY DEF Init, IInv, TypeOK, OneLoop, IdleMeansNone, SocketFitsPlace, LateMeansLeaving,
   Idle, ListenRunning, ShutdownRequested

LEMMA NextPreserves == IInv /\ [Next]_vars => IInv'
<1> SUFFICES ASSUME IInv, [Next]_vars PROVE IInv'
  OBVIOUS
<1> USE ListenAssumption DEF IInv, TypeOK, OneLoop, IdleMeansNone, SocketFitsPlace,
    LateMeansLeaving, Idle, ListenRunning, ShutdownRequested, Goto
<1>1. ASSUME NEW l \in Starters, StartListen(l) PROVE IInv'
  BY <1>1 DEF StartListen
<1>2. ASSUME NEW l \in Starters, Return(l) PROVE IInv'
  BY <1>2 DEF Return
<1>3. ASSUME NEW l \in Starters, Continue(l) PROVE IInv'
  <2>1. late = 0
    BY <1>3 DEF Continue
  <2>2. CASE req[l] \in {"nil", "new"}
    <3>1. /\ req' = [req EXCEPT ![l] = "new"]
          /\ at' = [at EXCEPT ![l] = "dial"]
      BY <1>3, <2>2 DEF Continue
    <3> QED  BY <1>3, <2>1, <3>1 DEF Continue
  <2>3. CASE req[l] \in {"dialed", "closed"}
    <3>1. /\ req' = req
          /\ at' = [at EXCEPT ![l] = "recv"]
      BY <1>3, <2>3 DEF Continue
    <3>2. req[l] # "closed"
      BY <1>3 DEF Continue
    <3> QED  BY <1>3, <2>1, <2>3, <3>1, <3>2 DEF Continue
  <2> QED  BY <2>2, <2>3
<1>4. ASSUME NEW l \in Starters, Dial(l) PROVE IInv'
  BY <1>4 DEF Dial
<1>5. ASSUME NEW l \in Starters, DialFails(l) PROVE IInv'
  BY <1>5 DEF DialFails
<1>6. ASSUME NEW l \in Starters, NEW kind \in Kinds, Recv(l, kind) PROVE IInv'
  BY <1>6 DEF Recv
<1>7. ASSUME NEW l \in Starters, RecvFails(l) PROVE IInv'
  BY <1>7 DEF RecvFails
<1>8. ASSUME NEW l \in Starters, Dispatch(l) PROVE IInv'
  BY <1>8 DEF Dispatch
<1>9. CASE RequestShutdown
  BY <1>9 DEF RequestShutdown
<1>10. CASE UNCHANGED vars
  BY <1>10 DEF vars
<1> QED
  BY <1>1, <1>2, <1>3, <1>4, <1>5, <1>6, <1>7, <1>8, <1>9, <1>10 DEF Next, listenLoop

LEMMA Invariance == Spec => []IInv
<1>1. Init => IInv  BY InitEstablishes
<1>2. IInv /\ [Next]_vars => IInv'  BY NextPreserves
<1> QED  BY <1>1, <1>2, PTL DEF Spec

(* A loop is where its socket lets it be, and the status is one of three     *)
(* (ross.go:447-489).                                                       *)
THEOREM ListenTypes == Spec => []TypeOK
<1>1. IInv => TypeOK  BY DEF IInv
<1> QED  BY Invariance, <1>1, PTL

(* For any number of starters there is at most one loop, however calls of   *)
(* StartListen and Shutdown interleave (ross.go:547-554): a loop is started *)
(* only from the idle status, which is left for good.                       *)
THEOREM NeverTwoLoops == Spec => []OneLoop
<1>1. IInv => OneLoop  BY DEF IInv
<1> QED  BY Invariance, <1>1, PTL

(* At most one event is handed on after a shutdown was requested, also when *)
(* the loop has lost its socket and connects again (ross.go:457-489).       *)
THEOREM AtMostOneLateEvent == Spec => []OneLateEvent
<1>1. IInv => OneLateEvent  BY DEF IInv, TypeOK, LateMeansLeaving, OneLateEvent
<1> QED  BY Invariance, <1>1, PTL
=============================================================================
