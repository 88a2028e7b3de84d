---------------------- MODULE ShipStatCollector_proofs ----------------------
(* Theorems about ShipStatCollector, for any number of callers, systems and *)
(* stations and for channels of any capacity, and about the process it lives *)
(* in, StarStat, for any number of lives.                                   *)
EXTENDS StarStat, TimeVisitStat_proofs

CallState == [at : {"idle", "sending", "waiting"}, command : Commands, ok : BOOLEAN]

(* The types the first proof needs, and what it shows.                       *)
Owned ==
  /\ control \in Seq(Request)
  /\ call \in [Callers -> CallState]
  /\ RequestsAreOwned

IsSequence(s) == s \in Seq({s[i] : i \in DOMAIN s})

(* While a backup runs, the file holds the systems written so far: the map   *)
(* cannot change under it, since the actor handles nothing else meanwhile.   *)
Written ==
  /\ IsSequence(file)
  /\ processMessages = "backup"
       => /\ fileExists /\ saved = NoStats
          /\ todo \subseteq DOMAIN systemsStat
          /\ Holds(file, systemsStat, DOMAIN systemsStat \ todo)
  /\ BackupIsSnapshot

-----------------------------------------------------------------------------

LEMMA TailPlaces ==
  ASSUME NEW R, NEW s \in Seq(R), s # <<>>
  PROVE  /\ Tail(s) \in Seq(R) /\ Len(Tail(s)) = Len(s) - 1 /\ Len(s) \in Nat \ {0}
         /\ DOMAIN s = 1 .. Len(s) /\ DOMAIN Tail(s) = 1 .. Len(s) - 1
         /\ \A i \in 1 .. Len(s) - 1 : Tail(s)[i] = s[i + 1]
         /\ Head(s) = s[1] /\ Head(s) \in R
BY HeadTailProperties, LenProperties, EmptySeq, ElementOfSeq

LEMMA AppendPlaces ==
  ASSUME NEW R, NEW s \in Seq(R), NEW e \in R
  PROVE  /\ Append(s, e) \in Seq(R) /\ Len(s) \in Nat
         /\ DOMAIN s = 1 .. Len(s) /\ DOMAIN Append(s, e) = 1 .. Len(s) + 1
         /\ \A i \in 1 .. Len(s) : Append(s, e)[i] = s[i]
         /\ Append(s, e)[Len(s) + 1] = e
BY AppendProperties, LenProperties

LEMMA AppendToSequence ==
  ASSUME NEW s, IsSequence(s), NEW e
  PROVE  /\ IsSequence(Append(s, e)) /\ Len(s) \in Nat
         /\ DOMAIN s = 1 .. Len(s) /\ DOMAIN Append(s, e) = 1 .. Len(s) + 1
         /\ \A i \in 1 .. Len(s) : Append(s, e)[i] = s[i]
         /\ Append(s, e)[Len(s) + 1] = e
<1> DEFINE R == {s[i] : i \in DOMAIN s} \cup {e}
           t == Append(s, e)
<1>1. s \in Seq(R)
  <2>1. {s[i] : i \in DOMAIN s} \subseteq R
    OBVIOUS
  <2>2. s \in Seq({s[i] : i \in DOMAIN s})
    BY DEF IsSequence
  <2> HIDE DEF R
  <2> QED BY <2>1, <2>2, SeqMonotonic
<1>2. e \in R
  OBVIOUS
<1> HIDE DEF R
<1>3. /\ t \in Seq(R) /\ Len(s) \in Nat
      /\ DOMAIN s = 1 .. Len(s) /\ DOMAIN t = 1 .. Len(s) + 1 /\ Len(t) = Len(s) + 1
      /\ \A i \in 1 .. Len(s) : t[i] = s[i]
      /\ t[Len(s) + 1] = e
  BY <1>1, <1>2, AppendProperties, LenProperties
<1> HIDE DEF t
<1>4. t \in [1 .. Len(t) -> {t[i] : i \in DOMAIN t}]
  BY <1>3, LenProperties
<1>5. t \in Seq({t[i] : i \in DOMAIN t})
  BY <1>3, <1>4, SeqDef
<1> QED BY <1>3, <1>5 DEF IsSequence, t

-----------------------------------------------------------------------------

LEMMA OwnedInit == Init => Owned
<1> SUFFICES ASSUME Init PROVE Owned
  OBVIOUS
<1>1. /\ control = <<>> /\ processMessages = "select" /\ serving = NoCaller
      /\ call = [c \in Callers |->
                  [at |-> "idle", command |-> CHOOSE cmd \in Commands : TRUE, ok |-> TRUE]]
  BY DEF Init
<1>2. (CHOOSE cmd \in Commands : TRUE) \in Commands
  BY ShipStatAssumption
<1>3. call \in [Callers -> CallState] /\ \A c \in Callers : call[c].at = "idle"
  BY <1>1, <1>2 DEF CallState
<1>4. control \in Seq(Request) /\ DOMAIN control = {}
  BY <1>1
<1> QED BY <1>1, <1>3, <1>4 DEF Owned, RequestsAreOwned, Waiting

(* The actor takes the first request and answers it at once.                 *)
LEMMA OwnedAnswered ==
  ASSUME Owned, processMessages = "select", control # <<>>,
         NEW result \in BOOLEAN, Answer(Head(control).caller, result),
         control' = Tail(control), serving' = serving,
         processMessages' \in {"select", "exited"}
  PROVE  Owned'
<1> DEFINE c == Head(control).caller
<1>1. /\ control' \in Seq(Request)
      /\ DOMAIN control = 1 .. Len(control) /\ Len(control) \in Nat \ {0}
      /\ DOMAIN control' = 1 .. Len(control) - 1
      /\ \A i \in 1 .. Len(control) - 1 : control'[i] = control[i + 1]
      /\ Head(control) = control[1] /\ Head(control) \in Request
  BY TailPlaces DEF Owned
<1>2. c \in Callers
  BY <1>1 DEF Request
<1> HIDE DEF c
<1>3. call \in [Callers -> CallState]
  BY DEF Owned
<1>4. /\ call' \in [Callers -> CallState]
      /\ call'[c].at = "idle"
      /\ \A d \in Callers : d # c => call'[d] = call[d]
  BY <1>2, <1>3 DEF Answer, CallState, c
<1>5. /\ \A i \in 1 .. Len(control) :
           /\ Waiting(control[i].caller) /\ serving # control[i].caller
           /\ call[control[i].caller].command = control[i].command
           /\ control[i].caller \in Callers
      /\ \A i, j \in 1 .. Len(control) : control[i].caller = control[j].caller => i = j
      /\ \A d \in Callers :
           Waiting(d) => serving = d \/ \E i \in 1 .. Len(control) : control[i].caller = d
      /\ serving = NoCaller
  <2>1. control \in Seq(Request)
    BY DEF Owned
  <2>2. \A i \in 1 .. Len(control) : control[i] \in Request
    BY <2>1, ElementOfSeq
  <2>3. \A i \in 1 .. Len(control) : control[i].caller \in Callers
    BY <2>2 DEF Request
  <2> QED BY <1>1, <2>3 DEF Owned, RequestsAreOwned
<1>6. \A i \in 1 .. Len(control) : i # 1 => control[i].caller # c
  BY <1>1, <1>5 DEF c
<1>7. \A i \in DOMAIN control' :
        /\ i + 1 \in 1 .. Len(control) /\ i + 1 # 1
        /\ control'[i] = control[i + 1] /\ control'[i].caller # c
  BY <1>1, <1>6
<1>8. \A i \in DOMAIN control' :
        /\ call'[control'[i].caller].at = "waiting" /\ serving' # control'[i].caller
        /\ call'[control'[i].caller].command = control'[i].command
  <2> SUFFICES ASSUME NEW i \in DOMAIN control'
               PROVE  /\ call'[control'[i].caller].at = "waiting"
                      /\ serving' # control'[i].caller
                      /\ call'[control'[i].caller].command = control'[i].command
    OBVIOUS
  <2>1. /\ call[control[i + 1].caller].at = "waiting"
        /\ serving # control[i + 1].caller
        /\ call[control[i + 1].caller].command = control[i + 1].command
        /\ control[i + 1].caller \in Callers
    BY <1>5, <1>7 DEF Waiting
  <2>2. call'[control[i + 1].caller] = call[control[i + 1].caller]
    BY <2>1, <1>4, <1>7
  <2> QED BY <2>1, <2>2, <1>7
<1>9. \A i, j \in DOMAIN control' : control'[i].caller = control'[j].caller => i = j
  BY <1>1, <1>5, <1>7
<1>10. \A d \in Callers :
         call'[d].at = "waiting" => \E i \in DOMAIN control' : control'[i].caller = d
  <2> SUFFICES ASSUME NEW d \in Callers, call'[d].at = "waiting"
               PROVE  \E i \in DOMAIN control' : control'[i].caller = d
    OBVIOUS
  <2>1. d # c /\ Waiting(d)
    BY <1>4 DEF Waiting
  <2>2. PICK i \in 1 .. Len(control) : control[i].caller = d
    BY <2>1, <1>5, <1>2, ShipStatAssumption
  <2>3. i # 1
    BY <2>1, <2>2, <1>1 DEF c
  <2>4. i - 1 \in DOMAIN control' /\ (i - 1) + 1 = i
    BY <2>3, <1>1
  <2>5. control'[i - 1].caller = d
    BY <2>2, <2>4, <1>7
  <2> QED BY <2>4, <2>5
<1> QED BY <1>1, <1>4, <1>5, <1>8, <1>9, <1>10 DEF Owned, RequestsAreOwned, Waiting

(* The actor keeps the caller of a backup while it writes.                   *)
LEMMA OwnedBackup ==
  ASSUME Owned, backupCreate
  PROVE  Owned'
<1> DEFINE c == Head(control).caller
<1>1. /\ control' = Tail(control) /\ control # <<>> /\ Head(control).command = "backup"
      /\ processMessages = "select" /\ processMessages' = "backup"
      /\ serving' = c /\ call' = call
  BY DEF backupCreate, NextCommandIs
<1>2. /\ control' \in Seq(Request)
      /\ DOMAIN control = 1 .. Len(control) /\ Len(control) \in Nat \ {0}
      /\ DOMAIN control' = 1 .. Len(control) - 1
      /\ \A i \in 1 .. Len(control) - 1 : control'[i] = control[i + 1]
      /\ Head(control) = control[1] /\ Head(control) \in Request
  BY <1>1, TailPlaces DEF Owned
<1>3. c \in Callers /\ c = control[1].caller
  BY <1>2 DEF Request
<1> HIDE DEF c
<1>4. /\ \A i \in 1 .. Len(control) :
           /\ call[control[i].caller].at = "waiting"
           /\ call[control[i].caller].command = control[i].command
      /\ \A i, j \in 1 .. Len(control) : control[i].caller = control[j].caller => i = j
      /\ \A d \in Callers : call[d].at = "waiting" =>
           serving = d \/ \E i \in 1 .. Len(control) : control[i].caller = d
      /\ serving = NoCaller
  BY <1>1, <1>2 DEF Owned, RequestsAreOwned, Waiting
<1>5. \A i \in DOMAIN control' :
        /\ i + 1 \in 1 .. Len(control) /\ i + 1 # 1
        /\ control'[i] = control[i + 1] /\ control'[i].caller # c
  BY <1>2, <1>3, <1>4
<1>6. \A i \in DOMAIN control' :
        /\ call'[control'[i].caller].at = "waiting" /\ serving' # control'[i].caller
        /\ call'[control'[i].caller].command = control'[i].command
  BY <1>1, <1>4, <1>5
<1>7. \A i, j \in DOMAIN control' : control'[i].caller = control'[j].caller => i = j
  BY <1>2, <1>4, <1>5
<1>8. \A d \in Callers : call'[d].at = "waiting" =>
        serving' = d \/ \E i \in DOMAIN control' : control'[i].caller = d
  <2> SUFFICES ASSUME NEW d \in Callers, call'[d].at = "waiting", d # c
               PROVE  \E i \in DOMAIN control' : control'[i].caller = d
    BY <1>1
  <2>1. PICK i \in 1 .. Len(control) : control[i].caller = d
    BY <1>1, <1>4, ShipStatAssumption
  <2>2. i # 1
    BY <2>1, <1>3
  <2>3. i - 1 \in DOMAIN control' /\ (i - 1) + 1 = i
    BY <2>2, <1>2
  <2> QED BY <2>1, <2>3, <1>5
<1>9. call'[c].at = "waiting" /\ call'[c].command = "backup"
  BY <1>1, <1>2, <1>3, <1>4
<1> QED BY <1>1, <1>2, <1>3, <1>6, <1>7, <1>8, <1>9 DEF Owned, RequestsAreOwned, Waiting

(* The actor answers the caller of a backup.                                 *)
LEMMA OwnedBackupAnswered ==
  ASSUME Owned, processMessages = "backup", processMessages' = "select",
         serving' = NoCaller, NEW result \in BOOLEAN, Answer(serving, result),
         control' = control
  PROVE  Owned'
<1>1. /\ serving \in Callers
      /\ \A i \in DOMAIN control :
           /\ call[control[i].caller].at = "waiting"
           /\ call[control[i].caller].command = control[i].command
           /\ serving # control[i].caller
      /\ \A d \in Callers : call[d].at = "waiting" =>
           serving = d \/ \E i \in DOMAIN control : control[i].caller = d
  BY DEF Owned, RequestsAreOwned, Waiting
<1>2. \A i \in DOMAIN control : control[i].caller \in Callers
  <2>1. control \in Seq(Request)
    BY DEF Owned
  <2>2. \A i \in DOMAIN control : control[i] \in Request
    BY <2>1, ElementOfSeq, LenProperties
  <2> QED BY <2>2 DEF Request
<1>3. /\ call' \in [Callers -> CallState]
      /\ call'[serving].at = "idle"
      /\ \A d \in Callers : d # serving => call'[d] = call[d]
  BY <1>1 DEF Answer, CallState, Owned
<1>4. \A i \in DOMAIN control :
        /\ call'[control[i].caller].at = "waiting"
        /\ call'[control[i].caller].command = control[i].command
        /\ NoCaller # control[i].caller
  BY <1>1, <1>2, <1>3, ShipStatAssumption
<1>5. \A d \in Callers : call'[d].at = "waiting" => \E i \in DOMAIN control : control[i].caller = d
  BY <1>1, <1>3
<1> QED BY <1>3, <1>4, <1>5 DEF Owned, RequestsAreOwned, Waiting

(* A caller's request enters the channel.                                    *)
LEMMA OwnedSend ==
  ASSUME Owned, NEW c \in Callers, Send(c)
  PROVE  Owned'
<1> DEFINE r == [caller |-> c, command |-> call[c].command]
<1>1. /\ call[c].at = "sending" /\ control' = Append(control, r)
      /\ call' = [call EXCEPT ![c].at = "waiting"]
      /\ processMessages' = processMessages /\ serving' = serving
  BY DEF Send, actor
<1>2. r \in Request /\ r.caller = c /\ r.command = call[c].command
  BY DEF Request, Owned, CallState
<1> HIDE DEF r
<1>3. /\ control' \in Seq(Request) /\ Len(control) \in Nat
      /\ DOMAIN control = 1 .. Len(control) /\ DOMAIN control' = 1 .. Len(control) + 1
      /\ \A i \in 1 .. Len(control) : control'[i] = control[i]
      /\ control'[Len(control) + 1] = r
  BY <1>1, <1>2, AppendPlaces DEF Owned
<1>4. /\ call' \in [Callers -> CallState]
      /\ call'[c].at = "waiting" /\ call'[c].command = call[c].command
      /\ \A d \in Callers : d # c => call'[d] = call[d]
  BY <1>1 DEF CallState, Owned
<1>5. /\ \A i \in 1 .. Len(control) :
           /\ call[control[i].caller].at = "waiting"
           /\ call[control[i].caller].command = control[i].command
           /\ serving # control[i].caller
           /\ control[i].caller \in Callers
      /\ \A i, j \in 1 .. Len(control) : control[i].caller = control[j].caller => i = j
      /\ \A d \in Callers : call[d].at = "waiting" =>
           serving = d \/ \E i \in 1 .. Len(control) : control[i].caller = d
      /\ serving # c
  <2>1. control \in Seq(Request)
    BY DEF Owned
  <2>2. \A i \in 1 .. Len(control) : control[i] \in Request
    BY <2>1, ElementOfSeq
  <2>3. \A i \in 1 .. Len(control) : control[i].caller \in Callers
    BY <2>2 DEF Request
  <2> QED BY <1>1, <1>3, <2>3, ShipStatAssumption DEF Owned, RequestsAreOwned, Waiting
<1>6. \A i \in 1 .. Len(control) : control[i].caller # c
  BY <1>1, <1>5
<1>7. \A i \in DOMAIN control' :
        /\ call'[control'[i].caller].at = "waiting" /\ serving' # control'[i].caller
        /\ call'[control'[i].caller].command = control'[i].command
  <2> SUFFICES ASSUME NEW i \in DOMAIN control'
               PROVE  /\ call'[control'[i].caller].at = "waiting"
                      /\ serving' # control'[i].caller
                      /\ call'[control'[i].caller].command = control'[i].command
    OBVIOUS
  <2>1. CASE i \in 1 .. Len(control)
    <3>1. control'[i] = control[i] /\ control[i].caller # c
      BY <2>1, <1>3, <1>6
    <3>2. call'[control[i].caller] = call[control[i].caller]
      BY <3>1, <2>1, <1>4, <1>5
    <3> QED BY <3>1, <3>2, <2>1, <1>1, <1>5
  <2>2. CASE i = Len(control) + 1
    BY <2>2, <1>1, <1>2, <1>3, <1>4, <1>5
  <2> QED BY <2>1, <2>2, <1>3
<1>8. \A i, j \in DOMAIN control' : control'[i].caller = control'[j].caller => i = j
  <2> SUFFICES ASSUME NEW i \in DOMAIN control', NEW j \in DOMAIN control',
                      control'[i].caller = control'[j].caller
               PROVE  i = j
    OBVIOUS
  <2>1. i \in 1 .. Len(control) \/ i = Len(control) + 1
    BY <1>3
  <2>2. j \in 1 .. Len(control) \/ j = Len(control) + 1
    BY <1>3
  <2> QED BY <2>1, <2>2, <1>2, <1>3, <1>5, <1>6
<1>9. \A d \in Callers : call'[d].at = "waiting" =>
        serving' = d \/ \E i \in DOMAIN control' : control'[i].caller = d
  <2> SUFFICES ASSUME NEW d \in Callers, call'[d].at = "waiting", serving' # d
               PROVE  \E i \in DOMAIN control' : control'[i].caller = d
    OBVIOUS
  <2>1. CASE d = c
    <3>1. Len(control) + 1 \in DOMAIN control'
      BY <1>3
    <3> QED BY <3>1, <2>1, <1>2, <1>3
  <2>2. CASE d # c
    <3>1. PICK i \in 1 .. Len(control) : control[i].caller = d
      BY <2>2, <1>1, <1>4, <1>5
    <3>2. i \in DOMAIN control' /\ control'[i] = control[i]
      BY <1>3
    <3> QED BY <3>1, <3>2
  <2> QED BY <2>1, <2>2
<1>10. IF processMessages' = "backup"
         THEN /\ serving' \in Callers /\ call'[serving'].at = "waiting"
              /\ call'[serving'].command = "backup"
         ELSE serving' = NoCaller
  BY <1>1, <1>4, <1>5 DEF Owned, RequestsAreOwned, Waiting
<1> QED BY <1>3, <1>4, <1>7, <1>8, <1>9, <1>10 DEF Owned, RequestsAreOwned, Waiting

(* A caller makes up its mind.                                               *)
LEMMA OwnedCall ==
  ASSUME Owned, NEW c \in Callers, NEW cmd \in Commands, Call(c, cmd)
  PROVE  Owned'
<1>1. /\ call[c].at = "idle"
      /\ call' = [call EXCEPT ![c] = [@ EXCEPT !.at = "sending", !.command = cmd]]
      /\ control' = control /\ processMessages' = processMessages /\ serving' = serving
  BY DEF Call, queues, actor
<1>2. /\ call' \in [Callers -> CallState]
      /\ call'[c].at = "sending"
      /\ \A d \in Callers : d # c => call'[d] = call[d]
  BY <1>1 DEF CallState, Owned
<1>3. \A d \in Callers : call[d].at = "waiting" => d # c
  BY <1>1
<1>4. \A i \in DOMAIN control : control[i].caller \in Callers
  <2>1. control \in Seq(Request)
    BY DEF Owned
  <2>2. \A i \in DOMAIN control : control[i] \in Request
    BY <2>1, ElementOfSeq, LenProperties
  <2> QED BY <2>2 DEF Request
<1>5. \A d \in Callers : call'[d].at = "waiting" => call[d].at = "waiting"
  BY <1>2
<1>6. \A d \in Callers : call[d].at = "waiting" => call'[d] = call[d]
  BY <1>2, <1>3
<1> QED BY <1>1, <1>2, <1>4, <1>5, <1>6 DEF Owned, RequestsAreOwned, Waiting

LEMMA OwnedNext ==
  ASSUME Owned, [Next]_vars
  PROVE  Owned'
<1>1. ASSUME control' = control, call' = call, serving' = serving,
             \/ processMessages' = processMessages
             \/ processMessages = "select" /\ processMessages' = "panicked"
      PROVE  Owned'
  BY <1>1 DEF Owned, RequestsAreOwned, Waiting
<1>2. CASE \E m \in Jump : NoteFSDJump(m)
  BY <1>1, <1>2 DEF NoteFSDJump, actor
<1>3. CASE \E m \in Docking : NoteDocked(m)
  BY <1>1, <1>3 DEF NoteDocked, actor
<1>4. CASE \E c \in Callers, cmd \in Commands : Call(c, cmd)
  BY <1>4, OwnedCall
<1>5. CASE \E c \in Callers : Send(c)
  BY <1>5, OwnedSend
<1>6. CASE handleFSDJump
  BY <1>1, <1>6 DEF handleFSDJump
<1>7. CASE handleDocked
  BY <1>1, <1>7 DEF handleDocked
<1>8. CASE handleControlMessage
  <2>1. CASE exit
    BY <2>1, OwnedAnswered DEF exit, NextCommandIs
  <2>2. CASE query
    BY <2>2, OwnedAnswered DEF query, NextCommandIs, actor
  <2>3. CASE backupCreate
    BY <2>3, OwnedBackup
  <2>4. CASE backupCreateFails
    BY <2>4, OwnedAnswered DEF backupCreateFails, NextCommandIs, actor
  <2>5. CASE performRestore
    BY <2>5, OwnedAnswered DEF performRestore, NextCommandIs, actor
  <2>6. CASE restoreFails
    BY <2>6, OwnedAnswered DEF restoreFails, NextCommandIs, actor
  <2> QED BY <1>8, <2>1, <2>2, <2>3, <2>4, <2>5, <2>6 DEF handleControlMessage
<1>9. CASE writeBackup
  <2>1. CASE \E s \in Systems : encodeStat(s)
    BY <1>1, <2>1 DEF encodeStat, queues
  <2>2. CASE \E s \in Systems : encodeFails(s)
    BY <2>2, OwnedBackupAnswered DEF encodeFails, queues
  <2>3. CASE backupDone
    BY <2>3, OwnedBackupAnswered DEF backupDone, queues
  <2> QED BY <1>9, <2>1, <2>2, <2>3 DEF writeBackup
<1>10. CASE UNCHANGED vars
  BY <1>1, <1>10 DEF vars, queues, actor
<1> QED BY <1>2, <1>3, <1>4, <1>5, <1>6, <1>7, <1>8, <1>9, <1>10 DEF Next

(* Every waiting caller is owed exactly one answer of its own type, and      *)
(* nobody else is owed any (ross.go:174-232 and 387-451).                    *)
THEOREM NoAnswerLostOrDoubled == Spec => []RequestsAreOwned
<1>1. Owned => RequestsAreOwned
  BY DEF Owned
<1>2. Owned /\ [Next]_vars => Owned'
  BY OwnedNext
<1> QED BY <1>1, <1>2, OwnedInit, PTL DEF Spec

-----------------------------------------------------------------------------

LEMMA WrittenInit == Init => Written
<1> SUFFICES ASSUME Init PROVE Written
  OBVIOUS
<1>1. file = <<>> /\ processMessages = "select" /\ saved = NoStats
  BY DEF Init
<1>2. IsSequence(file)
  BY <1>1 DEF IsSequence
<1> QED BY <1>1, <1>2 DEF Written, BackupIsSnapshot

(* One more line is written.                                                 *)
LEMMA WrittenStat ==
  ASSUME Written, NEW s \in Systems, encodeStat(s)
  PROVE  Written'
<1> DEFINE line == [system |-> s, stat |-> systemsStat[s], whole |-> TRUE]
           done == DOMAIN systemsStat \ todo
<1>1. /\ processMessages = "backup" /\ processMessages' = processMessages
      /\ s \in todo /\ todo' = todo \ {s}
      /\ file' = Append(file, line)
      /\ systemsStat' = systemsStat /\ fileExists' = fileExists /\ saved' = saved
  BY DEF encodeStat
<1>2. /\ IsSequence(file) /\ fileExists /\ saved = NoStats
      /\ todo \subseteq DOMAIN systemsStat
      /\ Holds(file, systemsStat, done)
  BY <1>1 DEF Written
<1>3. line.system = s /\ line.stat = systemsStat[s] /\ line.whole
  OBVIOUS
<1> HIDE DEF line
<1>4. /\ IsSequence(file') /\ Len(file) \in Nat
      /\ DOMAIN file = 1 .. Len(file) /\ DOMAIN file' = 1 .. Len(file) + 1
      /\ \A i \in 1 .. Len(file) : file'[i] = file[i]
      /\ file'[Len(file) + 1] = line
  BY <1>1, <1>2, AppendToSequence
<1>5. DOMAIN systemsStat \ todo' = done \cup {s} /\ s \notin done
  BY <1>1, <1>2
<1> HIDE DEF done
<1>6. /\ \A i \in 1 .. Len(file) :
           file[i].system \in done /\ file[i].stat = systemsStat[file[i].system] /\ file[i].whole
      /\ \A x \in done : \E i \in 1 .. Len(file) : file[i].system = x
      /\ \A i, j \in 1 .. Len(file) : file[i].system = file[j].system => i = j
  BY <1>2, <1>4 DEF Holds
<1>7. \A i \in DOMAIN file' :
        \/ i \in 1 .. Len(file) /\ file'[i] = file[i] /\ file'[i].system # s
        \/ i = Len(file) + 1 /\ file'[i] = line
  BY <1>4, <1>5, <1>6
<1>8. Holds(file', systemsStat, done \cup {s})
  <2>1. ASSUME NEW i \in DOMAIN file'
        PROVE  /\ file'[i].system \in done \cup {s}
               /\ file'[i].stat = systemsStat[file'[i].system] /\ file'[i].whole
    BY <1>3, <1>6, <1>7
  <2>2. ASSUME NEW x \in done \cup {s} PROVE \E i \in DOMAIN file' : file'[i].system = x
    <3>1. CASE x = s
      <4>1. Len(file) + 1 \in DOMAIN file'
        BY <1>4
      <4> QED BY <4>1, <3>1, <1>3, <1>4
    <3>2. CASE x \in done
      <4>1. PICK i \in 1 .. Len(file) : file[i].system = x
        BY <3>2, <1>6
      <4>2. i \in DOMAIN file' /\ file'[i] = file[i]
        BY <1>4
      <4> QED BY <4>1, <4>2
    <3> QED BY <3>1, <3>2
  <2>3. ASSUME NEW i \in DOMAIN file', NEW j \in DOMAIN file',
               file'[i].system = file'[j].system
        PROVE  i = j
    BY <2>3, <1>3, <1>6, <1>7
  <2> QED BY <2>1, <2>2, <2>3 DEF Holds
<1> QED BY <1>1, <1>2, <1>4, <1>5, <1>8 DEF Written, BackupIsSnapshot

LEMMA WrittenNext ==
  ASSUME Written, [Next]_vars
  PROVE  Written'
<1>1. ASSUME UNCHANGED disk, processMessages # "backup", processMessages' # "backup"
      PROVE  Written'
  BY <1>1 DEF Written, disk, BackupIsSnapshot, Holds, IsSequence
<1>2. ASSUME UNCHANGED disk, UNCHANGED <<processMessages, todo, systemsStat>>
      PROVE  Written'
  BY <1>2 DEF Written, disk, BackupIsSnapshot, Holds, IsSequence
<1>3. CASE \E m \in Jump : NoteFSDJump(m)
  BY <1>2, <1>3 DEF NoteFSDJump, actor
<1>4. CASE \E m \in Docking : NoteDocked(m)
  BY <1>2, <1>4 DEF NoteDocked, actor
<1>5. CASE \E c \in Callers, cmd \in Commands : Call(c, cmd)
  BY <1>2, <1>5 DEF Call, actor
<1>6. CASE \E c \in Callers : Send(c)
  BY <1>2, <1>6 DEF Send, actor
<1>7. CASE handleFSDJump
  BY <1>1, <1>7 DEF handleFSDJump
<1>8. CASE handleDocked
  BY <1>1, <1>8 DEF handleDocked
<1>9. CASE handleControlMessage
  <2>1. CASE exit
    BY <1>1, <2>1 DEF exit, NextCommandIs
  <2>2. CASE query
    BY <1>1, <2>2 DEF query, NextCommandIs, actor
  <2>3. CASE backupCreate
    <3>1. /\ file' = <<>> /\ fileExists' = TRUE /\ saved' = NoStats
          /\ todo' = DOMAIN systemsStat /\ systemsStat' = systemsStat
      BY <2>3 DEF backupCreate
    <3>2. IsSequence(file') /\ DOMAIN file' = {}
      BY <3>1 DEF IsSequence
    <3>3. DOMAIN systemsStat' \ todo' = {}
      BY <3>1
    <3>4. Holds(file', systemsStat', DOMAIN systemsStat' \ todo')
      BY <3>2, <3>3 DEF Holds
    <3> QED BY <3>1, <3>2, <3>4 DEF Written, BackupIsSnapshot
  <2>4. CASE backupCreateFails
    BY <1>1, <2>4 DEF backupCreateFails, NextCommandIs, actor
  <2>5. CASE performRestore
    BY <1>1, <2>5 DEF performRestore, NextCommandIs, actor
  <2>6. CASE restoreFails
    BY <1>1, <2>6 DEF restoreFails, NextCommandIs, actor
  <2> QED BY <1>9, <2>1, <2>2, <2>3, <2>4, <2>5, <2>6 DEF handleControlMessage
<1>10. CASE writeBackup
  <2>1. CASE \E s \in Systems : encodeStat(s)
    BY <2>1, WrittenStat
  <2>2. CASE \E s \in Systems : encodeFails(s)
    <3>1. PICK s \in Systems : encodeFails(s)
      BY <2>2
    <3>2. /\ processMessages = "backup" /\ processMessages' = "select" /\ saved' = saved
          /\ file' = Append(file, [system |-> s, stat |-> systemsStat[s], whole |-> FALSE])
      BY <3>1 DEF encodeFails
    <3>3. saved' = NoStats /\ IsSequence(file')
      BY <3>2, AppendToSequence DEF Written
    <3> QED BY <3>2, <3>3 DEF Written, BackupIsSnapshot
  <2>3. CASE backupDone
    <3>1. /\ processMessages = "backup" /\ processMessages' = "select" /\ todo = {}
          /\ saved' = systemsStat /\ file' = file /\ fileExists' = fileExists
      BY <2>3 DEF backupDone
    <3>2. IsSequence(file) /\ fileExists /\ Holds(file, systemsStat, DOMAIN systemsStat \ todo)
      BY <3>1 DEF Written
    <3>3. DOMAIN systemsStat \ todo = DOMAIN systemsStat
      BY <3>1
    <3>4. IsSequence(file') /\ fileExists' /\ Holds(file', saved', DOMAIN saved')
      BY <3>1, <3>2, <3>3
    <3> QED BY <3>1, <3>4 DEF Written, BackupIsSnapshot
  <2> QED BY <1>10, <2>1, <2>2, <2>3 DEF writeBackup
<1>11. CASE UNCHANGED vars
  BY <1>2, <1>11 DEF vars, actor
<1> QED BY <1>3, <1>4, <1>5, <1>6, <1>7, <1>8, <1>9, <1>10, <1>11 DEF Next

(* A backup that reported success is a snapshot of the map, and stays in the *)
(* file until the next backup begins, whatever fails (ross.go:285-306).      *)
THEOREM BackupsAreSnapshots == Spec => []BackupIsSnapshot
<1>1. Written => BackupIsSnapshot
  BY DEF Written
<1>2. Written /\ [Next]_vars => Written'
  BY WrittenNext
<1> QED BY <1>1, <1>2, WrittenInit, PTL DEF Spec

-----------------------------------------------------------------------------
(* The life of the process.                                                  *)

(* What is received is of a system there is.                                 *)
Queued == fsdJump \in Seq(Jump) /\ docked \in Seq(Docking)

LEMMA CallsAreCalls ==
  ASSUME Start \/ Signal \/ Shutdown \/ CronBackup
            \/ \E c \in Callers, cmd \in Commands : Query(c, cmd)
  PROVE  \E c \in Callers, cmd \in Commands : Call(c, cmd)
BY StarAssumption DEF Start, Signal, Shutdown, CronBackup, Query

(* Lines of a running backup are read back as a part of the map: no two are  *)
(* of one system, so that none replaces another.                             *)
ArePieces(lines, stats) ==
  /\ DOMAIN lines \subseteq Nat
  /\ \A i \in DOMAIN lines :
       lines[i].system \in DOMAIN stats /\ lines[i].stat = stats[lines[i].system]
  /\ \A i, j \in DOMAIN lines : lines[i].system = lines[j].system => i = j

LEMMA PartOfMemory ==
  ASSUME NEW lines, NEW stats, ArePieces(lines, stats)
  PROVE  \E part \in SUBSET DOMAIN stats : Restored(lines) = Restrict(stats, part)
<1> DEFINE scanned == {i \in DOMAIN lines : \A j \in 1 .. i : LineSize(lines[j]) <= LineLimit}
           read == {i \in scanned : lines[i].whole}
           LineOf(s) == Max({i \in read : lines[i].system = s})
           part == {lines[i].system : i \in read}
<1>0. /\ DOMAIN lines \subseteq Nat
      /\ \A i \in DOMAIN lines :
           lines[i].system \in DOMAIN stats /\ lines[i].stat = stats[lines[i].system]
      /\ \A i, j \in DOMAIN lines : lines[i].system = lines[j].system => i = j
  BY DEF ArePieces
<1>1. Restored(lines) = [s \in part |-> lines[LineOf(s)].stat]
  BY DEF Restored
<1>2. read \subseteq DOMAIN lines
  OBVIOUS
<1> HIDE DEF read
<1>3. ASSUME NEW s \in part PROVE lines[LineOf(s)].stat = stats[s]
  <2>1. PICK i \in read : lines[i].system = s
    OBVIOUS
  <2>2. {j \in read : lines[j].system = s} = {i}
    BY <2>1, <1>0, <1>2
  <2>3. Max({i}) \in {i}
    <3>1. i \in Nat /\ i >= i
      BY <1>0, <1>2
    <3>2. \A y \in {i} : i >= y
      BY <3>1
    <3> QED BY <3>2 DEF Max
  <2> QED BY <2>1, <2>2, <2>3, <1>0, <1>2
<1>4. part \in SUBSET DOMAIN stats
  BY <1>0, <1>2
<1>5. Restored(lines) = Restrict(stats, part)
  BY <1>1, <1>3 DEF Restrict
<1> QED BY <1>4, <1>5
LEMMA QueuedNext ==
  ASSUME Queued, [StarNext]_starVars
  PROVE  Queued'
<1>1. CASE UNCHANGED <<fsdJump, docked>>
  BY <1>1 DEF Queued
<1>2. CASE fsdJump' = <<>> /\ docked' = <<>>
  BY <1>2 DEF Queued
<1>3. CASE Receive
  <2>1. CASE \E m \in Jump : NoteFSDJump(m)
    BY <2>1, AppendPlaces DEF Queued, NoteFSDJump
  <2>2. CASE \E m \in Docking : NoteDocked(m)
    BY <2>2, AppendPlaces DEF Queued, NoteDocked
  <2> QED BY <1>3, <2>1, <2>2 DEF Receive
<1>4. CASE handleFSDJump
  BY <1>4, TailPlaces DEF Queued, handleFSDJump
<1>5. CASE handleDocked
  BY <1>5, TailPlaces DEF Queued, handleDocked
<1>6. CASE handleControlMessage
  BY <1>1, <1>6 DEF handleControlMessage, exit, query, backupCreate, backupCreateFails,
                    performRestore, restoreFails, queues
<1>7. CASE writeBackup
  BY <1>1, <1>7 DEF writeBackup, encodeStat, encodeFails, backupDone, queues
<1>8. CASE \E c \in Callers : Send(c)
  BY <1>1, <1>8 DEF Send
<1>9. CASE \E c \in Callers, cmd \in Commands : Call(c, cmd)
  BY <1>1, <1>9 DEF Call, queues
<1>10. CASE Act
  BY <1>4, <1>5, <1>6, <1>7, <1>8, <1>10 DEF Act, Alive
<1>11. CASE End
  BY <1>2, <1>11 DEF End, Fresh
<1>12. CASE StartJobs \/ UNCHANGED starVars
  BY <1>1, <1>12 DEF StartJobs, starVars, vars, queues
<1> QED BY <1>3, <1>9, <1>10, <1>11, <1>12, CallsAreCalls
        DEF StarNext, Return, Crash
(* Alive, the process steps as the collector does.                           *)
LEMMA StepOfLife ==
  ASSUME [StarNext]_starVars
  PROVE  End \/ [Next]_vars
<1>1. CASE Act
  BY <1>1 DEF Act, Alive, Next
<1>2. CASE Receive
  BY <1>2 DEF Receive, Next
<1>3. CASE StartJobs \/ UNCHANGED starVars
  BY <1>3 DEF StartJobs, starVars
<1>4. CASE \E c \in Callers, cmd \in Commands : Call(c, cmd)
  BY <1>4 DEF Next
<1> QED BY <1>1, <1>2, <1>3, <1>4, CallsAreCalls DEF StarNext, Return, Crash

LEMMA WrittenOverLives ==
  ASSUME Written, [StarNext]_starVars
  PROVE  Written'
<1>1. CASE End
  <2>1. UNCHANGED disk /\ processMessages' = "select"
    BY <1>1 DEF End, Fresh
  <2> QED BY <2>1 DEF Written, disk, BackupIsSnapshot, Holds, IsSequence
<1> QED BY <1>1, StepOfLife, WrittenNext

LEMMA OwnedOverLives ==
  ASSUME Owned, [StarNext]_starVars
  PROVE  Owned'
<1>1. CASE End
  <2>1. /\ control' = <<>> /\ processMessages' = "select" /\ serving' = NoCaller
        /\ call' = [c \in Callers |->
                     [at |-> "idle", command |-> CHOOSE cmd \in Commands : TRUE, ok |-> FALSE]]
    BY <1>1 DEF End, Fresh, NoCalls
  <2>2. (CHOOSE cmd \in Commands : TRUE) \in Commands
    BY ShipStatAssumption
  <2>3. call' \in [Callers -> CallState] /\ \A c \in Callers : call'[c].at = "idle"
    BY <2>1, <2>2 DEF CallState
  <2> QED BY <2>1, <2>3 DEF Owned, RequestsAreOwned, Waiting
<1> QED BY <1>1, StepOfLife, OwnedNext

(* No answer is lost or doubled in any life of the process either            *)
(* (edicenter.go:144-178, ross.go:174-232).                                  *)
THEOREM NoAnswerLostInAnyLife == StarSpec => []RequestsAreOwned
<1>1. StarInit => Owned
  BY OwnedInit DEF StarInit
<1>2. Owned => RequestsAreOwned
  BY DEF Owned
<1>3. Owned /\ [StarNext]_starVars => Owned'
  BY OwnedOverLives
<1> QED BY <1>1, <1>2, <1>3, PTL DEF StarSpec

(* What a complete backup wrote is in the file until the next one begins,    *)
(* whichever process left it there (ross.go:285-306, edicenter.go:144-178).  *)
THEOREM BackupsOutliveTheProcess == StarSpec => []BackupIsSnapshot
<1>1. StarInit => Written
  BY WrittenInit DEF StarInit
<1>2. Written => BackupIsSnapshot
  BY DEF Written
<1>3. Written /\ [StarNext]_starVars => Written'
  BY WrittenOverLives
<1> QED BY <1>1, <1>2, <1>3, PTL DEF StarSpec

-----------------------------------------------------------------------------
(* The process is the store of StatStore.                                    *)

LEMMA NothingRead ==
  ASSUME NEW lines, lines = <<>>
  PROVE  Restored(lines) = EmptyMap
BY DEF Restored, EmptyMap

LEMMA EventsAreCounted ==
  ASSUME NEW stats, NEW s, NEW value, systemsStat' = Put(systemsStat, s, value),
         s \in Systems, file' = file
  PROVE  Store!Next
<1>1. /\ DOMAIN systemsStat' = DOMAIN systemsStat \cup {s}
      /\ \A t \in DOMAIN systemsStat \ {s} : systemsStat'[t] = systemsStat[t]
  BY DEF Put
<1>2. Restored(file)' = Restored(file)
  BY DEF Restored
<1>3. Store!Count(s)
  BY <1>1, <1>2 DEF Store!Count
<1> QED BY <1>3 DEF Store!Next

(* A piece of a backup is written.                                           *)
LEMMA PieceIsWritten ==
  ASSUME Written, NEW s \in todo, NEW whole, processMessages = "backup",
         file' = Append(file, [system |-> s, stat |-> systemsStat[s], whole |-> whole]),
         systemsStat' = systemsStat
  PROVE  Store!Next
<1> DEFINE line == [system |-> s, stat |-> systemsStat[s], whole |-> whole]
<1>1. /\ IsSequence(file) /\ todo \subseteq DOMAIN systemsStat
      /\ Holds(file, systemsStat, DOMAIN systemsStat \ todo)
  BY DEF Written
<1>2. /\ Len(file) \in Nat /\ DOMAIN file = 1 .. Len(file)
      /\ DOMAIN file' = 1 .. Len(file) + 1
      /\ \A i \in 1 .. Len(file) : file'[i] = file[i]
      /\ file'[Len(file) + 1] = line
  BY <1>1, AppendToSequence
<1>3. ASSUME NEW i \in DOMAIN file'
      PROVE  \/ i \in DOMAIN file /\ file'[i] = file[i]
             \/ i = Len(file) + 1 /\ file'[i] = line
  BY <1>2
<1>4. \A i \in DOMAIN file :
        /\ file[i].system \in DOMAIN systemsStat \ todo
        /\ file[i].stat = systemsStat[file[i].system]
  BY <1>1 DEF Holds
<1>5. \A i \in DOMAIN file' :
        /\ file'[i].system \in DOMAIN systemsStat
        /\ file'[i].stat = systemsStat[file'[i].system]
  BY <1>1, <1>3, <1>4
<1>6. \A i, j \in DOMAIN file' : file'[i].system = file'[j].system => i = j
  BY <1>1, <1>3, <1>4 DEF Holds
<1>7. DOMAIN file' \subseteq Nat
  BY <1>2
<1>8. \E part \in SUBSET DOMAIN systemsStat : Restored(file') = Restrict(systemsStat, part)
  <2>1. ArePieces(file', systemsStat)
    BY <1>5, <1>6, <1>7 DEF ArePieces
  <2> QED BY <2>1, PartOfMemory
<1>9. \E part \in SUBSET DOMAIN systemsStat : Store!Write(part)
  BY <1>8 DEF Store!Write, Store!Restrict, Restrict
<1> QED BY <1>9 DEF Store!Next
LEMMA StoreSteps ==
  ASSUME Written, Queued, [StarNext]_starVars
  PROVE  [Store!Next]_(Store!vars)
<1>1. CASE UNCHANGED <<systemsStat, file>>
  BY <1>1 DEF Store!vars
<1>2. CASE handleFSDJump
  <2>1. PICK m \in Jump : m = Head(fsdJump)
    BY <1>2, TailPlaces DEF handleFSDJump, Queued
  <2>2. CASE systemsStat' = AfterJump(systemsStat, m)
    BY <1>2, <2>1, <2>2, EventsAreCounted DEF handleFSDJump, disk, AfterJump, Jump
  <2> QED BY <1>1, <1>2, <2>1, <2>2 DEF handleFSDJump, disk
<1>3. CASE handleDocked
  <2>1. PICK m \in Docking : m = Head(docked)
    BY <1>3, TailPlaces DEF handleDocked, Queued
  <2>2. CASE systemsStat' = AfterDocking(systemsStat, m)
    BY <1>3, <2>1, <2>2, EventsAreCounted DEF handleDocked, disk, AfterDocking, Docking
  <2> QED BY <1>1, <1>3, <2>1, <2>2 DEF handleDocked, disk
<1>4. CASE handleControlMessage
  <2>1. CASE backupCreate
    <3>1. file' = <<>> /\ systemsStat' = systemsStat
      BY <2>1 DEF backupCreate
    <3>2. Restored(file') = EmptyMap
      BY <3>1, NothingRead
    <3>3. EmptyMap = Restrict(systemsStat, {})
      BY DEF EmptyMap, Restrict
    <3>4. Store!Write({})
      BY <3>1, <3>2, <3>3 DEF Store!Write, Store!Restrict, Restrict
    <3> QED BY <3>4 DEF Store!Next
  <2>2. CASE performRestore
    <3>1. systemsStat' = Restored(file) /\ file' = file
      BY <2>2 DEF performRestore, disk
    <3> QED BY <3>1 DEF Store!Next, Store!Restore
  <2>3. CASE exit \/ query \/ backupCreateFails \/ restoreFails
    BY <1>1, <2>3 DEF exit, query, backupCreateFails, restoreFails, disk
  <2> QED BY <1>4, <2>1, <2>2, <2>3 DEF handleControlMessage
<1>5. CASE writeBackup
  <2>1. ASSUME NEW s \in Systems, encodeStat(s) \/ encodeFails(s)
        PROVE  Store!Next
    <3>1. /\ processMessages = "backup" /\ s \in todo /\ systemsStat' = systemsStat
          /\ \E whole \in BOOLEAN :
               file' = Append(file, [system |-> s, stat |-> systemsStat[s], whole |-> whole])
      BY <2>1 DEF encodeStat, encodeFails
    <3> QED BY <3>1, PieceIsWritten
  <2>2. CASE backupDone
    BY <1>1, <2>2 DEF backupDone
  <2> QED BY <1>5, <2>1, <2>2 DEF writeBackup
<1>6. CASE Act
  <2>1. CASE \E c \in Callers : Send(c)
    BY <1>1, <2>1 DEF Send, disk
  <2> QED BY <1>2, <1>3, <1>4, <1>5, <1>6, <2>1 DEF Act, Alive
<1>7. CASE End
  <2>1. systemsStat' = EmptyMap /\ file' = file
    BY <1>7 DEF End, Fresh, disk
  <2>2. EmptyMap = Store!Empty
    BY DEF EmptyMap, Store!Empty
  <2>3. Store!End
    BY <2>1, <2>2 DEF Store!End
  <2> QED BY <2>3 DEF Store!Next
<1>8. CASE StartJobs \/ UNCHANGED starVars
  BY <1>1, <1>8 DEF StartJobs, starVars, vars, disk
<1>9. CASE Receive
  BY <1>1, <1>9 DEF Receive, NoteFSDJump, NoteDocked, disk
<1>10. CASE \E c \in Callers, cmd \in Commands : Call(c, cmd)
  BY <1>1, <1>10 DEF Call, disk
<1> QED BY <1>6, <1>7, <1>8, <1>9, <1>10, CallsAreCalls DEF StarNext, Return, Crash

(* Whatever happens to the process and however often, the statistics are the *)
(* store of StatStore, and the file a part of one state of the memory        *)
(* (edicenter.go:144-178, ross.go:285-330).                                  *)
THEOREM ProcessIsStatStore == StarSpec => IsStatStore
<1>1. StarInit => Written /\ Queued /\ Store!Init
  <2> SUFFICES ASSUME StarInit PROVE Written /\ Queued /\ Store!Init
    OBVIOUS
  <2>1. Init
    BY DEF StarInit
  <2>2. Written
    BY <2>1, WrittenInit
  <2>3. fsdJump = <<>> /\ docked = <<>> /\ systemsStat = EmptyMap /\ file = <<>>
    BY <2>1 DEF Init
  <2>4. Restored(file) = EmptyMap
    BY <2>3, NothingRead
  <2>5. EmptyMap = Store!Empty
    BY DEF EmptyMap, Store!Empty
  <2> QED BY <2>2, <2>3, <2>4, <2>5 DEF Queued, Store!Init
<1>2. Written /\ [StarNext]_starVars => Written'
  BY WrittenOverLives
<1>3. Queued /\ [StarNext]_starVars => Queued'
  BY QueuedNext
<1>4. Written /\ Queued /\ [StarNext]_starVars => [Store!Next]_(Store!vars)
  BY StoreSteps
<1> QED BY <1>1, <1>2, <1>3, <1>4, PTL DEF StarSpec, IsStatStore, Store!Spec

-----------------------------------------------------------------------------
(* What is counted.                                                          *)

BoundedHistories ==
  {v \in Histories(Timemarks) : Len(v) <= historySize /\ IsOrdered(v)}

StationMaps ==
  {stations \in UNION {[T -> BoundedHistories] : T \in SUBSET Stations} :
     IsFiniteSet(DOMAIN stations)}

Stats == [SystemVisits : BoundedHistories, StationVisits : StationMaps]

(* The types of the map, with what the sums over it need: finitely many      *)
(* systems and stations, no mark twice in a history, none of them too long   *)
(* or out of order.                                                          *)
IsMemory(stats) ==
  /\ stats = [s \in DOMAIN stats |-> stats[s]]
  /\ DOMAIN stats \subseteq Systems /\ IsFiniteSet(DOMAIN stats)
  /\ \A s \in DOMAIN stats : stats[s] \in Stats

LEMMA StationsOfMap ==
  ASSUME NEW stations
  PROVE  stations \in StationMaps
           <=> /\ stations = [st \in DOMAIN stations |-> stations[st]]
               /\ DOMAIN stations \subseteq Stations /\ IsFiniteSet(DOMAIN stations)
               /\ \A st \in DOMAIN stations : stations[st] \in BoundedHistories
<1>1. ASSUME stations \in StationMaps
      PROVE  /\ stations = [st \in DOMAIN stations |-> stations[st]]
             /\ DOMAIN stations \subseteq Stations /\ IsFiniteSet(DOMAIN stations)
             /\ \A st \in DOMAIN stations : stations[st] \in BoundedHistories
  <2>1. PICK T \in SUBSET Stations : stations \in [T -> BoundedHistories]
    BY <1>1 DEF StationMaps
  <2>2. IsFiniteSet(DOMAIN stations)
    BY <1>1 DEF StationMaps
  <2> QED BY <2>1, <2>2
<1>2. ASSUME stations = [st \in DOMAIN stations |-> stations[st]],
             DOMAIN stations \subseteq Stations, IsFiniteSet(DOMAIN stations),
             \A st \in DOMAIN stations : stations[st] \in BoundedHistories
      PROVE  stations \in StationMaps
  <2>1. stations \in [DOMAIN stations -> BoundedHistories]
    BY <1>2
  <2> QED BY <1>2, <2>1 DEF StationMaps
<1> QED BY <1>1, <1>2

LEMMA TotalOfBounded ==
  ASSUME NEW v \in BoundedHistories
  PROVE  v \in Histories(Timemarks) /\ TotalVisits(v) \in Nat
<1>1. v \in Histories(Timemarks)
  BY DEF BoundedHistories
<1> QED BY <1>1, TotalOfWindow, FS_EmptySet

LEMMA DocksOfStations ==
  ASSUME NEW stations \in StationMaps
  PROVE  /\ Summable([st \in DOMAIN stations |-> TotalVisits(stations[st])])
         /\ StationDocks(stations) \in Nat
<1> DEFINE f == [st \in DOMAIN stations |-> TotalVisits(stations[st])]
<1>1. Summable(f)
  BY StationsOfMap, TotalOfBounded DEF Summable
<1>2. SumFunction(f) \in Nat
  <2> HIDE DEF f
  <2> QED BY <1>1, SumIsNatural
<1> QED BY <1>1, <1>2 DEF StationDocks

LEMMA SumsOfMemory ==
  ASSUME NEW stats, IsMemory(stats)
  PROVE  /\ Summable([s \in DOMAIN stats |-> TotalVisits(stats[s].SystemVisits)])
         /\ Summable([s \in DOMAIN stats |-> StationDocks(stats[s].StationVisits)])
         /\ Jumps(stats) \in Nat /\ Docks(stats) \in Nat
<1> DEFINE f == [s \in DOMAIN stats |-> TotalVisits(stats[s].SystemVisits)]
           g == [s \in DOMAIN stats |-> StationDocks(stats[s].StationVisits)]
<1>1. \A s \in DOMAIN stats :
        stats[s].SystemVisits \in BoundedHistories /\ stats[s].StationVisits \in StationMaps
  BY DEF IsMemory, Stats
<1>2. Summable(f)
  BY <1>1, TotalOfBounded DEF Summable, IsMemory
<1>3. Summable(g)
  BY <1>1, DocksOfStations DEF Summable, IsMemory
<1>4. SumFunction(f) \in Nat /\ SumFunction(g) \in Nat
  <2> HIDE DEF f, g
  <2> QED BY <1>2, <1>3, SumIsNatural
<1> QED BY <1>2, <1>3, <1>4 DEF Jumps, Docks

LEMMA SumsAreNatural ==
  ASSUME NEW stats, IsMemory(stats)
  PROVE  Jumps(stats) \in Nat /\ Docks(stats) \in Nat
BY SumsOfMemory

\* A map with one entry changed or added.
IsPut(stats, s, stat, new) ==
  LET known == s \in DOMAIN stats
  IN  /\ IsMemory(new) /\ DOMAIN new = DOMAIN stats \cup {s}
      /\ Jumps(new) = Jumps(stats) + TotalVisits(stat.SystemVisits)
                       - (IF known THEN TotalVisits(stats[s].SystemVisits) ELSE 0)
      /\ Docks(new) = Docks(stats) + StationDocks(stat.StationVisits)
                       - (IF known THEN StationDocks(stats[s].StationVisits) ELSE 0)

LEMMA PutStat ==
  ASSUME NEW stats, IsMemory(stats), NEW s \in Systems, NEW stat \in Stats
  PROVE  IsPut(stats, s, stat, Put(stats, s, stat))
<1> DEFINE new == Put(stats, s, stat)
           f == [x \in DOMAIN stats |-> TotalVisits(stats[x].SystemVisits)]
           g == [x \in DOMAIN new |-> TotalVisits(new[x].SystemVisits)]
           p == [x \in DOMAIN stats |-> StationDocks(stats[x].StationVisits)]
           q == [x \in DOMAIN new |-> StationDocks(new[x].StationVisits)]
<1>1. /\ DOMAIN new = DOMAIN stats \cup {s} /\ new[s] = stat
      /\ \A x \in DOMAIN stats \ {s} : new[x] = stats[x]
      /\ new = [x \in DOMAIN new |-> new[x]]
  BY DEF Put
<1> HIDE DEF new
<1>2. IsMemory(new)
  <2>1. IsFiniteSet(DOMAIN new)
    BY <1>1, FS_AddElement DEF IsMemory
  <2>2. \A x \in DOMAIN new : new[x] \in Stats
    BY <1>1 DEF IsMemory
  <2> QED BY <1>1, <2>1, <2>2 DEF IsMemory
<1>3. /\ Summable(f) /\ SumFunction(f) = Jumps(stats)
      /\ Summable(p) /\ SumFunction(p) = Docks(stats)
      /\ SumFunction(g) = Jumps(new) /\ SumFunction(q) = Docks(new)
  BY SumsOfMemory DEF Jumps, Docks
<1>4. TotalVisits(stat.SystemVisits) \in Nat /\ StationDocks(stat.StationVisits) \in Nat
  BY TotalOfBounded, DocksOfStations DEF Stats
<1>5. /\ DOMAIN f = DOMAIN stats /\ DOMAIN g = DOMAIN f \cup {s}
      /\ g[s] = TotalVisits(stat.SystemVisits)
      /\ \A x \in DOMAIN f \ {s} : g[x] = f[x]
      /\ s \in DOMAIN stats => f[s] = TotalVisits(stats[s].SystemVisits)
  BY <1>1
<1>6. /\ DOMAIN p = DOMAIN stats /\ DOMAIN q = DOMAIN p \cup {s}
      /\ q[s] = StationDocks(stat.StationVisits)
      /\ \A x \in DOMAIN p \ {s} : q[x] = p[x]
      /\ s \in DOMAIN stats => p[s] = StationDocks(stats[s].StationVisits)
  BY <1>1
<1> HIDE DEF f, g, p, q
<1>7. SumFunction(g) = SumFunction(f) + g[s] - (IF s \in DOMAIN f THEN f[s] ELSE 0)
  BY <1>3, <1>4, <1>5, SumOfPut
<1>8. SumFunction(q) = SumFunction(p) + q[s] - (IF s \in DOMAIN p THEN p[s] ELSE 0)
  BY <1>3, <1>4, <1>6, SumOfPut
<1>9. Jumps(new) = Jumps(stats) + TotalVisits(stat.SystemVisits)
                   - (IF s \in DOMAIN stats THEN TotalVisits(stats[s].SystemVisits) ELSE 0)
  BY <1>3, <1>5, <1>7
<1>10. Docks(new) = Docks(stats) + StationDocks(stat.StationVisits)
                    - (IF s \in DOMAIN stats THEN StationDocks(stats[s].StationVisits) ELSE 0)
  BY <1>3, <1>6, <1>8
<1> QED BY <1>1, <1>2, <1>9, <1>10 DEF new, IsPut

LEMMA PutStation ==
  ASSUME NEW stations \in StationMaps, NEW st \in Stations, NEW v \in BoundedHistories
  PROVE  LET new == Put(stations, st, v)
         IN  /\ new \in StationMaps
             /\ StationDocks(new) = StationDocks(stations) + TotalVisits(v)
                   - (IF st \in DOMAIN stations THEN TotalVisits(stations[st]) ELSE 0)
<1> DEFINE new == Put(stations, st, v)
           f == [x \in DOMAIN stations |-> TotalVisits(stations[x])]
           g == [x \in DOMAIN new |-> TotalVisits(new[x])]
<1>1. /\ DOMAIN new = DOMAIN stations \cup {st} /\ new[st] = v
      /\ \A x \in DOMAIN stations \ {st} : new[x] = stations[x]
      /\ new = [x \in DOMAIN new |-> new[x]]
  BY DEF Put
<1> HIDE DEF new
<1>2. /\ DOMAIN stations \subseteq Stations /\ IsFiniteSet(DOMAIN stations)
      /\ \A x \in DOMAIN stations : stations[x] \in BoundedHistories
  BY StationsOfMap
<1>3. new \in StationMaps
  <2>1. IsFiniteSet(DOMAIN new)
    BY <1>1, <1>2, FS_AddElement
  <2>2. \A x \in DOMAIN new : new[x] \in BoundedHistories
    BY <1>1, <1>2
  <2> QED BY <1>1, <1>2, <2>1, <2>2, StationsOfMap
<1>4. Summable(f) /\ SumFunction(f) = StationDocks(stations) /\ SumFunction(g) = StationDocks(new)
  BY DocksOfStations DEF StationDocks
<1>5. /\ DOMAIN f = DOMAIN stations /\ DOMAIN g = DOMAIN f \cup {st}
      /\ g[st] = TotalVisits(v) /\ g[st] \in Nat
      /\ \A x \in DOMAIN f \ {st} : g[x] = f[x]
      /\ st \in DOMAIN stations => f[st] = TotalVisits(stations[st])
  BY <1>1, TotalOfBounded
<1> HIDE DEF f, g
<1>6. SumFunction(g) = SumFunction(f) + g[st] - (IF st \in DOMAIN f THEN f[st] ELSE 0)
  BY <1>4, <1>5, SumOfPut
<1>7. StationDocks(new) = StationDocks(stations) + TotalVisits(v)
                   - (IF st \in DOMAIN stations THEN TotalVisits(stations[st]) ELSE 0)
  BY <1>4, <1>5, <1>6
<1> QED BY <1>3, <1>7 DEF new

(* There are no more time frames than a history has records.                 *)
Room == Cardinality(Timemarks) <= historySize

LEMMA NothingYet ==
  /\ <<>> \in BoundedHistories /\ TotalVisits(<<>>) = 0
  /\ EmptyMap \in StationMaps /\ DOMAIN EmptyMap = {} /\ StationDocks(EmptyMap) = 0
<1>1. <<>> \in BoundedHistories /\ TotalVisits(<<>>) = 0
  <2>1. Len(<<>>) <= historySize /\ IsOrdered(<<>>)
    BY ShipStatAssumption DEF IsOrdered
  <2> QED BY <2>1, EmptyHistory DEF BoundedHistories
<1>2. EmptyMap \in StationMaps /\ DOMAIN EmptyMap = {}
  BY FS_EmptySet, StationsOfMap DEF EmptyMap
<1>3. StationDocks(EmptyMap) = 0
  <2> DEFINE f == [st \in DOMAIN EmptyMap |-> TotalVisits(EmptyMap[st])]
  <2>1. DOMAIN f = {}
    BY <1>2
  <2>2. SumFunction(f) = 0
    <3> HIDE DEF f
    <3> QED BY <2>1, SumOfNothing
  <2> QED BY <2>2 DEF StationDocks
<1> QED BY <1>1, <1>2, <1>3

LEMMA NoteVisitAdds ==
  ASSUME NEW v \in BoundedHistories, NEW m \in Timemarks
  PROVE  /\ NoteVisit(v, m) \in BoundedHistories
         /\ Room => TotalVisits(NoteVisit(v, m)) = TotalVisits(v) + 1
<1> DEFINE t == NoteVisitByTimemark(v, m, historySize)
<1>0. /\ v \in Histories(Timemarks) /\ Len(v) <= historySize /\ IsOrdered(v)
      /\ Timemarks \subseteq Int /\ historySize \in Nat /\ IsFiniteSet(Timemarks)
  BY ShipStatAssumption DEF BoundedHistories
<1>1. /\ t \in Histories(Timemarks) /\ Len(t) <= historySize
      /\ (m \in MarksIn(v) \/ Len(v) < historySize) => IsCounted(v, t, m)
  BY <1>0, NoteVisitCounts
<1>3. IsOrdered(t)
  BY <1>0, NoteVisitCovers
<1> HIDE DEF t
<1>2. ASSUME Room PROVE TotalVisits(t) = TotalVisits(v) + 1
  <2>1. m \notin MarksIn(v) => Len(v) < Cardinality(Timemarks)
    BY <1>0, HistoryFits
  <2>2. Len(v) \in Nat /\ Cardinality(Timemarks) \in Nat
    BY <1>0, HistoryPlaces, FS_CardinalityType
  <2>3. m \in MarksIn(v) \/ Len(v) < historySize
    BY <1>0, <1>2, <2>1, <2>2 DEF Room
  <2> QED BY <1>0, <1>1, <2>3, CountedIsOneMore
<1> QED BY <1>1, <1>2, <1>3 DEF NoteVisit, t, BoundedHistories

(* A visit takes nothing away of what a history had.                         *)
LEMMA NoteVisitKeeps ==
  ASSUME NEW v \in BoundedHistories, NEW old \in BoundedHistories, NEW m \in Timemarks,
         CoversHistory(v, old, historySize)
  PROVE  CoversHistory(NoteVisit(v, m), old, historySize)
<1>1. /\ v \in Histories(Timemarks) /\ Len(v) <= historySize /\ IsOrdered(v)
      /\ old \in Histories(Timemarks)
      /\ Timemarks \subseteq Int /\ historySize \in Nat
  BY ShipStatAssumption DEF BoundedHistories
<1>2. CoversHistory(NoteVisitByTimemark(v, m, historySize), old, historySize)
  BY <1>1, NoteVisitCovers
<1> QED BY <1>2 DEF NoteVisit

(* A jump adds one, ...                                                      *)
LEMMA AfterJumpAdds ==
  ASSUME NEW stats, IsMemory(stats), NEW m \in Jump
  PROVE  LET new == AfterJump(stats, m)
         IN  /\ IsMemory(new) /\ DOMAIN new = DOMAIN stats \cup {m.system}
             /\ Room => Jumps(new) = Jumps(stats) + 1 /\ Docks(new) = Docks(stats)
<1> DEFINE s == m.system
           known == s \in DOMAIN stats
           old == IF known THEN stats[s]
                  ELSE [SystemVisits |-> NewHistory, StationVisits |-> EmptyMap]
           v == NoteVisit(old.SystemVisits, m.timemark)
           stat == [old EXCEPT !.SystemVisits = v]
           new == Put(stats, s, stat)
<1>1. m.system \in Systems /\ m.timemark \in Timemarks
  BY DEF Jump
<1>2. old \in Stats /\ (known => old = stats[s])
      /\ (~known => TotalVisits(old.SystemVisits) = 0 /\ StationDocks(old.StationVisits) = 0)
  BY NothingYet DEF IsMemory, Stats, NewHistory
<1>3. AfterJump(stats, m) = new
  BY DEF AfterJump
<1> HIDE DEF known, old
<1>4. v \in BoundedHistories /\ (Room => TotalVisits(v) = TotalVisits(old.SystemVisits) + 1)
  BY <1>1, <1>2, NoteVisitAdds DEF Stats
<1> HIDE DEF v
<1>5. stat \in Stats /\ stat.SystemVisits = v /\ stat.StationVisits = old.StationVisits
  BY <1>2, <1>4 DEF Stats
<1> HIDE DEF stat
<1>6. /\ IsMemory(new) /\ DOMAIN new = DOMAIN stats \cup {s}
      /\ Jumps(new) = Jumps(stats) + TotalVisits(stat.SystemVisits)
                       - (IF s \in DOMAIN stats THEN TotalVisits(stats[s].SystemVisits) ELSE 0)
      /\ Docks(new) = Docks(stats) + StationDocks(stat.StationVisits)
                       - (IF s \in DOMAIN stats THEN StationDocks(stats[s].StationVisits) ELSE 0)
  <2>1. IsPut(stats, s, stat, new)
    BY <1>1, <1>5, PutStat
  <2> HIDE DEF new, s
  <2> QED BY <2>1 DEF IsPut
<1> HIDE DEF new, s
<1>7. /\ TotalVisits(old.SystemVisits) \in Nat /\ StationDocks(old.StationVisits) \in Nat
      /\ Jumps(stats) \in Nat /\ Docks(stats) \in Nat
  BY <1>2, TotalOfBounded, DocksOfStations, SumsOfMemory DEF Stats
<1>8. /\ (IF s \in DOMAIN stats THEN TotalVisits(stats[s].SystemVisits) ELSE 0)
           = TotalVisits(old.SystemVisits)
      /\ (IF s \in DOMAIN stats THEN StationDocks(stats[s].StationVisits) ELSE 0)
           = StationDocks(old.StationVisits)
  BY <1>2 DEF known
<1>9. Room => Jumps(new) = Jumps(stats) + 1
  BY <1>4, <1>5, <1>6, <1>7, <1>8
<1>10. Docks(new) = Docks(stats)
  BY <1>5, <1>6, <1>7, <1>8
<1> QED BY <1>3, <1>6, <1>9, <1>10 DEF s

(* ... and so does a docking, which counts as a jump into a new system, too. *)
LEMMA AfterDockingAdds ==
  ASSUME NEW stats, IsMemory(stats), NEW m \in Docking
  PROVE  LET new == AfterDocking(stats, m)
             arrival == IF m.system \in DOMAIN stats THEN 0 ELSE 1
         IN  /\ IsMemory(new) /\ DOMAIN new = DOMAIN stats \cup {m.system}
             /\ Room => Jumps(new) = Jumps(stats) + arrival /\ Docks(new) = Docks(stats) + 1
<1> DEFINE s == m.system
           known == s \in DOMAIN stats
           arrival == IF known THEN 0 ELSE 1
           first == NoteVisit(NewHistory, m.timemark)
           old == IF known THEN stats[s]
                  ELSE [SystemVisits |-> first, StationVisits |-> EmptyMap]
           stations == old.StationVisits
           visits == IF m.station \in DOMAIN stations THEN stations[m.station] ELSE NewHistory
           v == NoteVisit(visits, m.timemark)
           docks == Put(stations, m.station, v)
           stat == [old EXCEPT !.StationVisits = docks]
           new == Put(stats, s, stat)
<1>1. m.system \in Systems /\ m.station \in Stations /\ m.timemark \in Timemarks
  BY DEF Docking
<1>2. AfterDocking(stats, m) = new
  BY DEF AfterDocking
<1>3. first \in BoundedHistories /\ (Room => TotalVisits(first) = 1)
  <2>1. first \in BoundedHistories /\ (Room => TotalVisits(first) = 0 + 1)
    BY <1>1, NothingYet, NoteVisitAdds DEF NewHistory
  <2> QED BY <2>1
<1> HIDE DEF first
<1>4. old \in Stats /\ (known => old = stats[s])
      /\ (~known => /\ Room => TotalVisits(old.SystemVisits) = 1
                    /\ StationDocks(old.StationVisits) = 0)
  BY <1>3, NothingYet DEF IsMemory, Stats
<1> HIDE DEF known, old
<1>5. stations \in StationMaps /\ old.SystemVisits \in BoundedHistories
  BY <1>4 DEF Stats
<1> HIDE DEF stations
<1>6. /\ visits \in BoundedHistories
      /\ (IF m.station \in DOMAIN stations THEN TotalVisits(stations[m.station]) ELSE 0)
           = TotalVisits(visits)
  BY <1>5, StationsOfMap, NothingYet DEF NewHistory
<1> HIDE DEF visits
<1>7. v \in BoundedHistories /\ (Room => TotalVisits(v) = TotalVisits(visits) + 1)
  BY <1>1, <1>6, NoteVisitAdds
<1> HIDE DEF v
<1>8. /\ docks \in StationMaps
      /\ StationDocks(docks) = StationDocks(stations) + TotalVisits(v)
            - (IF m.station \in DOMAIN stations THEN TotalVisits(stations[m.station]) ELSE 0)
  BY <1>1, <1>5, <1>7, PutStation
<1> HIDE DEF docks
<1>9. /\ TotalVisits(visits) \in Nat /\ TotalVisits(old.SystemVisits) \in Nat
      /\ StationDocks(stations) \in Nat /\ Jumps(stats) \in Nat /\ Docks(stats) \in Nat
  BY <1>5, <1>6, TotalOfBounded, DocksOfStations, SumsOfMemory
<1>10. Room => StationDocks(docks) = StationDocks(stations) + 1
  BY <1>6, <1>7, <1>8, <1>9
<1>11. stat \in Stats /\ stat.StationVisits = docks /\ stat.SystemVisits = old.SystemVisits
  BY <1>4, <1>8 DEF Stats
<1> HIDE DEF stat
<1>12. /\ IsMemory(new) /\ DOMAIN new = DOMAIN stats \cup {s}
       /\ Jumps(new) = Jumps(stats) + TotalVisits(stat.SystemVisits)
                        - (IF s \in DOMAIN stats THEN TotalVisits(stats[s].SystemVisits) ELSE 0)
       /\ Docks(new) = Docks(stats) + StationDocks(stat.StationVisits)
                        - (IF s \in DOMAIN stats THEN StationDocks(stats[s].StationVisits) ELSE 0)
  <2>1. IsPut(stats, s, stat, new)
    BY <1>1, <1>11, PutStat
  <2> HIDE DEF new, s
  <2> QED BY <2>1 DEF IsPut
<1> HIDE DEF new, s
<1>13. Room => Jumps(new) = Jumps(stats) + arrival
  BY <1>4, <1>9, <1>11, <1>12 DEF known
<1>14. (IF s \in DOMAIN stats THEN StationDocks(stats[s].StationVisits) ELSE 0)
         = StationDocks(stations)
  BY <1>4 DEF known, stations
<1>15. Room => Docks(new) = Docks(stats) + 1
  BY <1>9, <1>10, <1>11, <1>12, <1>14
<1> QED BY <1>2, <1>12, <1>13, <1>15 DEF s, known

-----------------------------------------------------------------------------
(* What is remembered.                                                       *)

Line == [system : Systems, stat : Stats, whole : BOOLEAN]

AreLines(lines) == IsSequence(lines) /\ \A i \in DOMAIN lines : lines[i] \in Line

(* What can be said of the parts of TypeOK that Owned leaves out: queues, ... *)
Bounded ==
  /\ fsdJump \in Seq(Jump) /\ Len(fsdJump) <= QueueCap
  /\ docked \in Seq(Docking) /\ Len(docked) <= QueueCap
  /\ Len(control) <= QueueCap
  /\ processMessages \in {"select", "backup", "exited", "panicked"}
  /\ serving \in Callers \cup {NoCaller}
  /\ fileExists \in BOOLEAN /\ offered \in Nat

(* ... what is counted, ...                                                  *)
Counting ==
  /\ IsMemory(systemsStat)
  /\ heard \in [jumps : Nat, docks : Nat]
  /\ VisitsAddUp

(* ... and what is kept of it.                                               *)
Stored ==
  /\ todo \in SUBSET Systems
  /\ AreLines(file)
  /\ saved = NoStats \/ IsMemory(saved)

(* A system is restored from one of the lines written for it, if any fits.   *)
LEMMA RestoredFromLine ==
  ASSUME NEW lines, IsSequence(lines)
  PROVE  LET r == Restored(lines)
         IN  /\ r = [s \in DOMAIN r |-> r[s]]
             /\ \A s \in DOMAIN r :
                  \E i \in DOMAIN lines :
                    lines[i].system = s /\ lines[i].whole /\ r[s] = lines[i].stat
             /\ (\A i \in DOMAIN lines : LineSize(lines[i]) <= LineLimit)
                  => \A i \in DOMAIN lines : lines[i].whole => lines[i].system \in DOMAIN r
<1> DEFINE scanned == {i \in DOMAIN lines : \A j \in 1 .. i : LineSize(lines[j]) <= LineLimit}
           read == {i \in scanned : lines[i].whole}
           LineOf(s) == Max({i \in read : lines[i].system = s})
           systems == {lines[i].system : i \in read}
           r == Restored(lines)
<1>1. r = [s \in systems |-> lines[LineOf(s)].stat]
  BY DEF Restored
<1>2. Len(lines) \in Nat /\ DOMAIN lines = 1 .. Len(lines)
  BY LenProperties DEF IsSequence
<1>3. ASSUME \A i \in DOMAIN lines : LineSize(lines[i]) <= LineLimit
      PROVE  \A i \in DOMAIN lines : lines[i].whole => lines[i].system \in systems
  <2>1. \A i \in DOMAIN lines : \A j \in 1 .. i : j \in DOMAIN lines
    BY <1>2
  <2>2. scanned = DOMAIN lines
    BY <1>3, <2>1
  <2> QED BY <2>2
<1>4. read \subseteq 1 .. Len(lines) /\ \A i \in read : lines[i].whole
  BY <1>2
<1> HIDE DEF r, read
<1>5. ASSUME NEW s \in systems
      PROVE  LineOf(s) \in read /\ lines[LineOf(s)].system = s
  <2> DEFINE T == {i \in read : lines[i].system = s}
  <2>1. T # {} /\ T \subseteq 1 .. Len(lines)
    BY <1>4
  <2>2. Max(T) \in T
    <3> HIDE DEF T
    <3> QED BY <1>2, <2>1, MaxIsGreatest
  <2> QED BY <2>2
<1>6. \A s \in systems :
        \E i \in DOMAIN lines :
          lines[i].system = s /\ lines[i].whole /\ r[s] = lines[i].stat
  <2> SUFFICES ASSUME NEW s \in systems
               PROVE  \E i \in DOMAIN lines :
                        lines[i].system = s /\ lines[i].whole /\ r[s] = lines[i].stat
    OBVIOUS
  <2>1. LineOf(s) \in read /\ lines[LineOf(s)].system = s
    BY <1>5
  <2>2. r[s] = lines[LineOf(s)].stat
    BY <1>1
  <2> HIDE DEF LineOf
  <2> QED BY <1>2, <1>4, <2>1, <2>2
<1>7. DOMAIN r = systems /\ r = [s \in DOMAIN r |-> r[s]]
  BY <1>1
<1> HIDE DEF LineOf, systems
<1> QED BY <1>3, <1>6, <1>7 DEF r

LEMMA RestoredIsMemory ==
  ASSUME NEW lines, AreLines(lines)
  PROVE  IsMemory(Restored(lines))
<1> DEFINE r == Restored(lines)
           S == {lines[i].system : i \in DOMAIN lines}
<1>1. IsSequence(lines) /\ \A i \in DOMAIN lines : lines[i] \in Line
  BY DEF AreLines
<1>2. /\ r = [s \in DOMAIN r |-> r[s]]
      /\ \A s \in DOMAIN r :
           \E i \in DOMAIN lines :
             lines[i].system = s /\ lines[i].whole /\ r[s] = lines[i].stat
  BY <1>1, RestoredFromLine
<1> HIDE DEF r
<1>3. DOMAIN r \subseteq S
  BY <1>2
<1>4. IsFiniteSet(S)
  <2>1. Len(lines) \in Nat /\ DOMAIN lines = 1 .. Len(lines)
    BY <1>1, LenProperties DEF IsSequence
  <2>2. IsFiniteSet(DOMAIN lines)
    BY <2>1, FS_Interval
  <2> DEFINE b == [i \in DOMAIN lines |-> lines[i].system]
  <2>3. b \in Surjection(DOMAIN lines, S)
    BY DEF Surjection
  <2> HIDE DEF b, S
  <2> QED BY <2>2, <2>3, FS_Surjection
<1>5. \A s \in DOMAIN r : s \in Systems /\ r[s] \in Stats
  BY <1>1, <1>2 DEF Line
<1>6. IsFiniteSet(DOMAIN r)
  BY <1>3, <1>4, FS_Subset
<1> QED BY <1>2, <1>5, <1>6 DEF r, IsMemory

LEMMA BoundedNext ==
  ASSUME Owned, Bounded, [Next]_vars
  PROVE  Bounded'
<1>1. /\ Len(fsdJump) \in Nat /\ Len(docked) \in Nat /\ Len(control) \in Nat /\ QueueCap \in Nat
  BY LenProperties, ShipStatAssumption DEF Bounded, Owned
<1>2. ASSUME control # <<>>
      PROVE  Head(control) \in Request /\ Len(Tail(control)) <= QueueCap
  BY <1>1, <1>2, TailPlaces DEF Owned, Bounded
<1>3. CASE \E m \in Jump : NoteFSDJump(m)
  <2>1. PICK m \in Jump : NoteFSDJump(m)
    BY <1>3
  <2>2. Len(fsdJump) < QueueCap
          => Append(fsdJump, m) \in Seq(Jump) /\ Len(Append(fsdJump, m)) <= QueueCap
    BY <1>1, AppendProperties DEF Bounded
  <2> QED BY <2>1, <2>2 DEF NoteFSDJump, Bounded, actor, disk
<1>4. CASE \E m \in Docking : NoteDocked(m)
  <2>1. PICK m \in Docking : NoteDocked(m)
    BY <1>4
  <2>2. Len(docked) < QueueCap
          => Append(docked, m) \in Seq(Docking) /\ Len(Append(docked, m)) <= QueueCap
    BY <1>1, AppendProperties DEF Bounded
  <2> QED BY <2>1, <2>2 DEF NoteDocked, Bounded, actor, disk
<1>5. CASE \E c \in Callers, cmd \in Commands : Call(c, cmd)
  BY <1>5 DEF Call, Bounded, queues, actor, disk
<1>6. CASE \E c \in Callers : Send(c)
  <2>1. PICK c \in Callers : Send(c)
    BY <1>6
  <2>2. Len(control') <= QueueCap
    <3> DEFINE request == [caller |-> c, command |-> call[c].command]
    <3>1. request \in Request
      BY <2>1 DEF Owned, CallState, Request
    <3>2. control' = Append(control, request) /\ Len(control) < QueueCap /\ control \in Seq(Request)
      BY <2>1 DEF Send, Owned
    <3> HIDE DEF request
    <3> QED BY <1>1, <3>1, <3>2, AppendProperties
  <2> QED BY <2>1, <2>2 DEF Send, Bounded, actor, disk
<1>7. CASE handleFSDJump
  <2>1. Tail(fsdJump) \in Seq(Jump) /\ Len(Tail(fsdJump)) <= QueueCap
    BY <1>1, <1>7, TailPlaces DEF handleFSDJump, Bounded
  <2> QED BY <1>7, <2>1 DEF handleFSDJump, Bounded, disk
<1>8. CASE handleDocked
  <2>1. Tail(docked) \in Seq(Docking) /\ Len(Tail(docked)) <= QueueCap
    BY <1>1, <1>8, TailPlaces DEF handleDocked, Bounded
  <2> QED BY <1>8, <2>1 DEF handleDocked, Bounded, disk
<1>9. CASE handleControlMessage
  <2>1. control # <<>> /\ control' = Tail(control)
    BY <1>9 DEF handleControlMessage, exit, query, backupCreate, backupCreateFails,
                performRestore, restoreFails, NextCommandIs
  <2>2. Len(control') <= QueueCap
    BY <1>2, <2>1
  <2>3. Head(control).caller \in Callers
    BY <1>2, <2>1 DEF Request
  <2> QED BY <1>9, <2>2, <2>3
          DEF handleControlMessage, exit, query, backupCreate, backupCreateFails,
              performRestore, restoreFails, Bounded, actor, disk
<1>10. CASE writeBackup
  BY <1>10 DEF writeBackup, encodeStat, encodeFails, backupDone, Bounded, queues
<1>11. CASE UNCHANGED vars
  BY <1>11 DEF vars, Bounded, queues, actor, disk
<1> QED BY <1>3, <1>4, <1>5, <1>6, <1>7, <1>8, <1>9, <1>10, <1>11 DEF Next

\* An event counted in a system, and whether that made an arrival of it.
CountsOnce(s, jumps, docks, arrival) ==
  /\ arrival \in {0, 1} /\ (arrival = 1 => s \notin DOMAIN systemsStat)
  /\ IsMemory(systemsStat') /\ DOMAIN systemsStat' = DOMAIN systemsStat \cup {s}
  /\ heard' = [jumps |-> heard.jumps + jumps, docks |-> heard.docks + docks]
  /\ Room => /\ Jumps(systemsStat') = Jumps(systemsStat) + jumps + arrival
             /\ Docks(systemsStat') = Docks(systemsStat) + docks

LEMMA CountedOnce ==
  ASSUME Counting, NEW s, NEW jumps \in Nat, NEW docks \in Nat, NEW arrival,
         CountsOnce(s, jumps, docks, arrival)
  PROVE  Counting'
<1>0. /\ arrival \in {0, 1} /\ (arrival = 1 => s \notin DOMAIN systemsStat)
      /\ IsMemory(systemsStat') /\ DOMAIN systemsStat' = DOMAIN systemsStat \cup {s}
      /\ heard' = [jumps |-> heard.jumps + jumps, docks |-> heard.docks + docks]
      /\ Room => /\ Jumps(systemsStat') = Jumps(systemsStat) + jumps + arrival
                 /\ Docks(systemsStat') = Docks(systemsStat) + docks
  BY DEF CountsOnce
<1>1. /\ heard.jumps \in Nat /\ heard.docks \in Nat /\ heard' \in [jumps : Nat, docks : Nat]
      /\ Jumps(systemsStat) \in Nat /\ Docks(systemsStat) \in Nat
      /\ heard'.jumps = heard.jumps + jumps /\ heard'.docks = heard.docks + docks
  BY <1>0, SumsAreNatural DEF Counting
<1>2. Room => /\ Docks(systemsStat) = heard.docks
              /\ Jumps(systemsStat) - heard.jumps \in 0 .. Cardinality(DOMAIN systemsStat)
  BY DEF Counting, VisitsAddUp, Room
<1>3. /\ Cardinality(DOMAIN systemsStat) \in Nat
      /\ Cardinality(DOMAIN systemsStat')
           = IF s \in DOMAIN systemsStat THEN Cardinality(DOMAIN systemsStat)
             ELSE Cardinality(DOMAIN systemsStat) + 1
  BY <1>0, FS_AddElement, FS_CardinalityType DEF Counting, IsMemory
<1>4. Room => Docks(systemsStat') = heard'.docks
  BY <1>0, <1>1, <1>2
<1>5. Room => Jumps(systemsStat') - heard'.jumps = Jumps(systemsStat) - heard.jumps + arrival
  BY <1>0, <1>1
<1>6. Room => Jumps(systemsStat') - heard'.jumps \in 0 .. Cardinality(DOMAIN systemsStat')
  BY <1>0, <1>1, <1>2, <1>3, <1>5
<1>7. VisitsAddUp'
  BY <1>4, <1>6 DEF VisitsAddUp, Room
<1> QED BY <1>0, <1>1, <1>7 DEF Counting

LEMMA CountingNext ==
  ASSUME Bounded, Counting, Stored, [Next]_vars
  PROVE  Counting'
<1>1. CASE UNCHANGED <<systemsStat, heard>>
  <2>1. Jumps(systemsStat') = Jumps(systemsStat) /\ Docks(systemsStat') = Docks(systemsStat)
    BY <1>1
  <2> QED BY <1>1, <2>1 DEF Counting, VisitsAddUp, IsMemory
<1>2. /\ heard.jumps \in Nat /\ heard.docks \in Nat
      /\ heard = [jumps |-> heard.jumps, docks |-> heard.docks]
      /\ IsMemory(systemsStat)
  BY DEF Counting
<1>3. CASE handleFSDJump
  <2>1. PICK m \in Jump : m = Head(fsdJump)
    BY <1>3, TailPlaces DEF handleFSDJump, Bounded
  <2>2. CASE systemsStat' = AfterJump(systemsStat, m) /\ heard' = [heard EXCEPT !.jumps = @ + 1]
    <3>1. heard' = [jumps |-> heard.jumps + 1, docks |-> heard.docks + 0]
      BY <1>2, <2>2
    <3>2. /\ IsMemory(systemsStat') /\ DOMAIN systemsStat' = DOMAIN systemsStat \cup {m.system}
          /\ Room => /\ Jumps(systemsStat') = Jumps(systemsStat) + 1
                     /\ Docks(systemsStat') = Docks(systemsStat)
      BY <1>2, <2>2, AfterJumpAdds
    <3>3. Jumps(systemsStat) \in Nat /\ Docks(systemsStat) \in Nat
      BY <1>2, SumsAreNatural
    <3>4. Room => /\ Jumps(systemsStat') = Jumps(systemsStat) + 1 + 0
                  /\ Docks(systemsStat') = Docks(systemsStat) + 0
      BY <3>2, <3>3
    <3>5. CountsOnce(m.system, 1, 0, 0)
      BY <3>1, <3>2, <3>4 DEF CountsOnce
    <3> QED BY <3>5, CountedOnce
  <2> QED BY <1>1, <1>3, <2>1, <2>2 DEF handleFSDJump
<1>4. CASE handleDocked
  <2>1. PICK m \in Docking : m = Head(docked)
    BY <1>4, TailPlaces DEF handleDocked, Bounded
  <2>2. CASE systemsStat' = AfterDocking(systemsStat, m) /\ heard' = [heard EXCEPT !.docks = @ + 1]
    <3> DEFINE arrival == IF m.system \in DOMAIN systemsStat THEN 0 ELSE 1
    <3>1. heard' = [jumps |-> heard.jumps + 0, docks |-> heard.docks + 1]
      BY <1>2, <2>2
    <3>2. /\ IsMemory(systemsStat') /\ DOMAIN systemsStat' = DOMAIN systemsStat \cup {m.system}
          /\ Room => /\ Jumps(systemsStat') = Jumps(systemsStat) + arrival
                     /\ Docks(systemsStat') = Docks(systemsStat) + 1
      BY <1>2, <2>2, AfterDockingAdds
    <3>3. /\ Jumps(systemsStat) \in Nat /\ arrival \in {0, 1}
          /\ arrival = 1 => m.system \notin DOMAIN systemsStat
      BY <1>2, SumsAreNatural
    <3> HIDE DEF arrival
    <3>4. Room => /\ Jumps(systemsStat') = Jumps(systemsStat) + 0 + arrival
                  /\ Docks(systemsStat') = Docks(systemsStat) + 1
      BY <3>2, <3>3
    <3>5. CountsOnce(m.system, 0, 1, arrival)
      BY <3>1, <3>2, <3>3, <3>4 DEF CountsOnce
    <3> QED BY <3>5, CountedOnce
  <2> QED BY <1>1, <1>4, <2>1, <2>2 DEF handleDocked
<1>5. CASE performRestore
  <2>1. /\ systemsStat' = Restored(file)
        /\ heard' = [jumps |-> Jumps(systemsStat'), docks |-> Docks(systemsStat')]
    BY <1>5 DEF performRestore
  <2>2. IsMemory(systemsStat')
    BY <2>1, RestoredIsMemory DEF Stored
  <2>3. Jumps(systemsStat') \in Nat /\ Docks(systemsStat') \in Nat
    BY <2>2, SumsAreNatural
  <2>4. Cardinality(DOMAIN systemsStat') \in Nat
    BY <2>2, FS_CardinalityType DEF IsMemory
  <2>5. Jumps(systemsStat') - heard'.jumps \in 0 .. Cardinality(DOMAIN systemsStat')
    BY <2>1, <2>3, <2>4
  <2>6. Docks(systemsStat') = heard'.docks /\ heard' \in [jumps : Nat, docks : Nat]
    BY <2>1, <2>3
  <2> QED BY <2>2, <2>5, <2>6 DEF Counting, VisitsAddUp
<1>6. CASE handleControlMessage
  BY <1>1, <1>5, <1>6 DEF handleControlMessage, exit, query, backupCreate, backupCreateFails,
                          restoreFails
<1> QED BY <1>1, <1>3, <1>4, <1>6 DEF Next, writeBackup, encodeStat, encodeFails, backupDone,
        NoteFSDJump, NoteDocked, Call, Send, vars

LEMMA StoredNext ==
  ASSUME Written, Counting, Stored, [Next]_vars
  PROVE  Stored'
<1>1. CASE UNCHANGED <<todo, file, saved>>
  BY <1>1 DEF Stored, AreLines, IsSequence, IsMemory
<1>2. CASE backupCreate
  <2>1. file' = <<>> /\ saved' = NoStats /\ todo' = DOMAIN systemsStat
    BY <1>2 DEF backupCreate
  <2>2. IsSequence(file') /\ DOMAIN file' = {}
    BY <2>1 DEF IsSequence
  <2> QED BY <2>1, <2>2 DEF Stored, AreLines, Counting, IsMemory
<1>3. ASSUME NEW s \in Systems, encodeStat(s) \/ encodeFails(s)
      PROVE  Stored'
  <2>1. PICK whole \in BOOLEAN :
          file' = Append(file, [system |-> s, stat |-> systemsStat[s], whole |-> whole])
    BY <1>3 DEF encodeStat, encodeFails
  <2>2. saved' = saved /\ todo' \in SUBSET Systems /\ s \in todo /\ todo \subseteq DOMAIN systemsStat
    BY <1>3 DEF encodeStat, encodeFails, Stored, Written
  <2> DEFINE line == [system |-> s, stat |-> systemsStat[s], whole |-> whole]
  <2>3. line \in Line
    BY <2>2 DEF Line, Counting, IsMemory
  <2> HIDE DEF line
  <2>4. IsSequence(file) /\ \A i \in DOMAIN file : file[i] \in Line
    BY DEF Stored, AreLines
  <2>5. file' = Append(file, line)
    BY <2>1 DEF line
  <2>6. /\ IsSequence(file') /\ Len(file) \in Nat
        /\ DOMAIN file = 1 .. Len(file) /\ DOMAIN file' = 1 .. Len(file) + 1
        /\ \A i \in 1 .. Len(file) : file'[i] = file[i]
        /\ file'[Len(file) + 1] = line
    BY <2>4, <2>5, AppendToSequence
  <2>7. \A i \in DOMAIN file' : i \in 1 .. Len(file) \/ i = Len(file) + 1
    BY <2>6
  <2>8. \A i \in DOMAIN file' : file'[i] \in Line
    BY <2>3, <2>4, <2>6, <2>7
  <2>9. saved' = NoStats \/ IsMemory(saved')
    BY <2>2 DEF Stored, IsMemory
  <2> QED BY <2>2, <2>6, <2>8, <2>9 DEF Stored, AreLines
<1>4. CASE backupDone
  <2>1. todo' = todo /\ file' = file /\ saved' = systemsStat /\ IsMemory(systemsStat)
    BY <1>4 DEF backupDone, Counting
  <2> QED BY <2>1 DEF Stored, AreLines, IsSequence, IsMemory
<1>5. CASE handleControlMessage
  BY <1>1, <1>2, <1>5 DEF handleControlMessage, exit, query, backupCreateFails,
                          performRestore, restoreFails, actor, disk
<1>6. CASE writeBackup
  BY <1>3, <1>4, <1>6 DEF writeBackup
<1> QED BY <1>1, <1>5, <1>6 DEF Next, NoteFSDJump, NoteDocked, Call, Send,
        handleFSDJump, handleDocked, vars, actor, disk

Remembers == Owned /\ Written /\ Bounded /\ Counting /\ Stored

LEMMA NothingCounted ==
  ASSUME NEW stats, stats = EmptyMap
  PROVE  /\ IsMemory(stats) /\ Jumps(stats) = 0 /\ Docks(stats) = 0
         /\ Cardinality(DOMAIN stats) = 0
<1>1. DOMAIN stats = {} /\ stats = [s \in DOMAIN stats |-> stats[s]]
  BY NothingYet DEF EmptyMap
<1> DEFINE f == [s \in DOMAIN stats |-> TotalVisits(stats[s].SystemVisits)]
           g == [s \in DOMAIN stats |-> StationDocks(stats[s].StationVisits)]
<1>2. DOMAIN f = {} /\ DOMAIN g = {}
  BY <1>1
<1>3. SumFunction(f) = 0 /\ SumFunction(g) = 0
  <2> HIDE DEF f, g
  <2> QED BY <1>2, SumOfNothing
<1>4. IsMemory(stats) /\ Cardinality(DOMAIN stats) = 0
  BY <1>1, FS_EmptySet DEF IsMemory
<1> QED BY <1>3, <1>4 DEF Jumps, Docks

LEMMA RemembersInit == Init => Remembers
<1> SUFFICES ASSUME Init PROVE Remembers
  OBVIOUS
<1>1. /\ fsdJump = <<>> /\ docked = <<>> /\ control = <<>>
      /\ systemsStat = EmptyMap
      /\ processMessages = "select" /\ serving = NoCaller /\ todo = {}
      /\ file = <<>> /\ fileExists = FALSE /\ offered = 0 /\ saved = NoStats
      /\ heard = [jumps |-> 0, docks |-> 0]
  BY DEF Init
<1>2. Bounded
  <2>1. Len(<<>>) <= QueueCap
    BY ShipStatAssumption
  <2>2. <<>> \in Seq(Jump) /\ <<>> \in Seq(Docking)
    OBVIOUS
  <2>3. fsdJump \in Seq(Jump) /\ docked \in Seq(Docking)
    BY Zenon, <1>1, <2>2
  <2>4. Len(fsdJump) <= QueueCap /\ Len(docked) <= QueueCap /\ Len(control) <= QueueCap
    BY Zenon, <1>1, <2>1
  <2>5. processMessages \in {"select"} /\ serving \in {NoCaller}
    BY <1>1
  <2>6. fileExists \in BOOLEAN /\ offered \in Nat
    BY <1>1
  <2> QED BY <2>3, <2>4, <2>5, <2>6 DEF Bounded
<1>3. /\ IsMemory(systemsStat) /\ Jumps(systemsStat) = 0 /\ Docks(systemsStat) = 0
      /\ Cardinality(DOMAIN systemsStat) = 0
  BY <1>1, NothingCounted
<1>7. heard \in [jumps : Nat, docks : Nat] /\ heard.jumps = 0 /\ heard.docks = 0
  BY <1>1
<1>8. VisitsAddUp
  BY <1>3, <1>7 DEF VisitsAddUp
<1>9. Counting
  BY <1>3, <1>7, <1>8 DEF Counting
<1>10. Stored
  BY <1>1 DEF Stored, AreLines, IsSequence
<1> QED BY <1>2, <1>9, <1>10, OwnedInit, WrittenInit DEF Remembers

LEMMA RemembersNext ==
  ASSUME Remembers, [Next]_vars
  PROVE  Remembers'
BY OwnedNext, WrittenNext, BoundedNext, CountingNext, StoredNext DEF Remembers

LEMMA MemoryIsTyped ==
  ASSUME NEW stats, IsMemory(stats)
  PROVE  IsSystemsStat(stats)
<1>1. \A v \in BoundedHistories : v \in Visits
  BY DEF BoundedHistories, Histories, Records, Visits
<1>2. ASSUME NEW stat \in Stats PROVE IsSystemShipStat(stat)
  <2>1. DOMAIN stat = {"SystemVisits", "StationVisits"} /\ stat.SystemVisits \in Visits
    BY <1>1 DEF Stats
  <2>2. stat.StationVisits \in StationMaps
    BY DEF Stats
  <2>3. /\ DOMAIN stat.StationVisits \subseteq Stations
        /\ \A st \in DOMAIN stat.StationVisits : stat.StationVisits[st] \in Visits
    BY <1>1, <2>2, StationsOfMap
  <2> QED BY <2>1, <2>3 DEF IsSystemShipStat, IsMap
<1> QED BY <1>2 DEF IsMemory, IsSystemsStat, IsMap

LEMMA RemembersTypes == Remembers => TypeOK
<1> SUFFICES ASSUME Remembers PROVE TypeOK
  OBVIOUS
<1>1. Owned /\ Bounded /\ Counting /\ Stored
  BY DEF Remembers
<1>2. IsSystemsStat(systemsStat) /\ (saved = NoStats \/ IsSystemsStat(saved))
  BY <1>1, MemoryIsTyped DEF Counting, Stored
<1>3. \A i \in DOMAIN file : IsLine(file[i])
  <2> SUFFICES ASSUME NEW i \in DOMAIN file PROVE IsLine(file[i])
    OBVIOUS
  <2>1. file[i] \in Line
    BY <1>1 DEF Stored, AreLines
  <2>2. IsSystemShipStat(file[i].stat)
    <3> DEFINE s == file[i].system
               stats == [x \in {s} |-> file[i].stat]
    <3>1. IsMemory(stats)
      BY <2>1, FS_Singleton DEF IsMemory, Line
    <3>2. IsSystemsStat(stats)
      <4> HIDE DEF stats
      <4> QED BY <3>1, MemoryIsTyped
    <3> QED BY <3>2 DEF IsSystemsStat, IsMap
  <2> QED BY <2>1, <2>2 DEF IsLine, Line
<1> QED BY <1>1, <1>2, <1>3
        DEF TypeOK, Owned, CallState, Bounded, Counting, Stored

(* The queues never hold more than their capacity, no time frame is held     *)
(* with a count of zero, and every variable keeps its type, whatever is      *)
(* received, backed up and restored (ross.go:33-73, 174-232).                *)
THEOREM CollectorIsTyped == Spec => []TypeOK
<1>1. Remembers /\ [Next]_vars => Remembers'
  BY RemembersNext
<1> QED BY <1>1, RemembersInit, RemembersTypes, PTL DEF Spec

(* Of the events handled since the map was last restored every one is        *)
(* counted once in the sums over all systems and stations, and for a system  *)
(* first heard of by a docking one visit more; as long as there are no more  *)
(* time frames than a history keeps (ross.go:332-385).                       *)
THEOREM EveryEventIsCounted == Spec => []VisitsAddUp
<1>1. Remembers /\ [Next]_vars => Remembers'
  BY RemembersNext
<1>2. Remembers => VisitsAddUp
  BY DEF Remembers, Counting
<1> QED BY <1>1, <1>2, RemembersInit, PTL DEF Spec

-----------------------------------------------------------------------------
(* What is reported.                                                         *)

(* The jumps shown for the time frames in W, in the systems in R, ...        *)
JumpsShown(stats, R, W) ==
  SumFunction([m \in W |->
    SumFunction([s \in R |-> CountAt(stats[s].SystemVisits, m)])])

VisitsIn(stats, R) == SumFunction([s \in R |-> TotalVisits(stats[s].SystemVisits)])

(* ... are summed by systems instead of by time frames: each system adds no  *)
(* more than its total, and all of it when its marks are among those shown.  *)
LEMMA ShownIsWithinTotal ==
  ASSUME NEW stats, IsMemory(stats), NEW R \in SUBSET DOMAIN stats,
         NEW S \in SUBSET DOMAIN stats, R \subseteq S, NEW W, IsFiniteSet(W)
  PROVE  /\ JumpsShown(stats, R, W) <= VisitsIn(stats, S)
         /\ R = S /\ (\A s \in S : MarksIn(stats[s].SystemVisits) \subseteq W)
              => JumpsShown(stats, R, W) = VisitsIn(stats, S)
<1> DEFINE v(s) == stats[s].SystemVisits
           t == [m \in W |-> [s \in R |-> CountAt(v(s), m)]]
           shown == [s \in R |-> SumFunction(Tally(v(s), W))]
           total == [s \in S |-> TotalVisits(v(s))]
<1>1. /\ IsFiniteSet(R) /\ IsFiniteSet(S)
      /\ \A s \in S : v(s) \in Histories(Timemarks)
  BY FS_Subset, TotalOfBounded DEF IsMemory, Stats
<1>2. \A s \in S :
        /\ SumFunction(Tally(v(s), W)) \in Nat /\ TotalVisits(v(s)) \in Nat
        /\ SumFunction(Tally(v(s), W)) <= TotalVisits(v(s))
        /\ MarksIn(v(s)) \subseteq W => SumFunction(Tally(v(s), W)) = TotalVisits(v(s))
  <2> HIDE DEF v
  <2> QED BY <1>1, TotalOfWindow
<1>3. JumpsShown(stats, R, W) = SumFunction(shown)
  <2>1. \A m \in W, s \in R : t[m][s] = CountAt(v(s), m) /\ t[m][s] \in Nat
    <3> HIDE DEF v
    <3> QED BY <1>1, CountOfPlace
  <2>2. JumpsShown(stats, R, W) = SumFunction([m \in W |-> SumFunction([s \in R |-> t[m][s]])])
    BY DEF JumpsShown
  <2> HIDE DEF v, t
  <2>3. SumFunction([m \in W |-> SumFunction([s \in R |-> t[m][s]])])
          = SumFunction([s \in R |-> SumFunction([m \in W |-> t[m][s]])])
    <3>1. SumByRows(t, W, R) = SumByColumns(t, W, R)
      BY <1>1, <2>1, SumsSwapped
    <3> QED BY <3>1 DEF SumByRows, SumByColumns
  <2>4. \A s \in R : [m \in W |-> t[m][s]] = Tally(v(s), W)
    BY <2>1 DEF Tally
  <2>5. [s \in R |-> SumFunction([m \in W |-> t[m][s]])] = shown
    BY <2>4
  <2> QED BY <2>2, <2>3, <2>5
<1>4. /\ DOMAIN shown = R /\ DOMAIN total = S
      /\ \A s \in R : shown[s] <= total[s]
      /\ \A s \in R : MarksIn(v(s)) \subseteq W => shown[s] = total[s]
  BY <1>2
<1>5. Summable(shown) /\ Summable(total)
  BY <1>1, <1>2 DEF Summable
<1>6. VisitsIn(stats, S) = SumFunction(total)
  BY DEF VisitsIn
<1>7. R = S /\ (\A s \in S : MarksIn(v(s)) \subseteq W) => shown = total
  BY <1>2
<1> HIDE DEF shown, total
<1>8. SumFunction(shown) <= SumFunction(total)
  BY <1>4, <1>5, SumIsMonotone
<1> QED BY <1>3, <1>6, <1>7, <1>8

LEMMA MemoryIsReported ==
  ASSUME IsMemory(systemsStat)
  PROVE  ReportsAgree
<1> SUFFICES ASSUME NEW at \in {Position[s] : s \in Systems}, NEW maxDistance \in 0 .. 2,
                    NEW ctf \in Timemarks
             PROVE  LET visits == getSystemVisitStat(systemsStat, at, maxDistance).inRangeCount
                        activity == getActivityStat(systemsStat, at, maxDistance, ctf)
                        jumps == SumFunction([m \in DOMAIN activity |-> activity[m].NumJumps])
                        borderIsEmpty == \A s \in DOMAIN systemsStat :
                                           Distance(at, s) # maxDistance
                        allAreRecent ==
                          \A s \in DOMAIN systemsStat :
                            MarksIn(systemsStat[s].SystemVisits) \subseteq DOMAIN activity
                    IN  jumps <= visits /\ (borderIsEmpty /\ allAreRecent => jumps = visits)
  BY DEF ReportsAgree
<1> DEFINE activity == getActivityStat(systemsStat, at, maxDistance, ctf)
           W == (ctf - historySize + 1) .. ctf
           R == {s \in DOMAIN systemsStat : Distance(at, s) < maxDistance}
           S == {s \in DOMAIN systemsStat : Distance(at, s) <= maxDistance}
<1>1. /\ at \in Int /\ maxDistance \in Int /\ ctf \in Int /\ historySize \in Nat
      /\ \A s \in DOMAIN systemsStat : Distance(at, s) \in Int
  BY ShipStatAssumption DEF IsMemory, Distance
<1>2. IsFiniteSet(W)
  BY <1>1, FS_Interval
<1>3. /\ R \in SUBSET DOMAIN systemsStat /\ S \in SUBSET DOMAIN systemsStat /\ R \subseteq S
      /\ (\A s \in DOMAIN systemsStat : Distance(at, s) # maxDistance) => R = S
  BY <1>1
<1>4. getSystemVisitStat(systemsStat, at, maxDistance).inRangeCount = VisitsIn(systemsStat, S)
  BY DEF getSystemVisitStat, VisitsIn
<1>5. /\ DOMAIN activity = W
      /\ \A m \in W :
           activity[m].NumJumps
             = SumFunction([s \in R |-> CountAt(systemsStat[s].SystemVisits, m)])
  BY DEF getActivityStat
<1> HIDE DEF activity, W, R, S
<1>6. SumFunction([m \in DOMAIN activity |-> activity[m].NumJumps]) = JumpsShown(systemsStat, R, W)
  <2>1. [m \in DOMAIN activity |-> activity[m].NumJumps]
          = [m \in W |-> SumFunction([s \in R |-> CountAt(systemsStat[s].SystemVisits, m)])]
    BY <1>5
  <2> QED BY <2>1 DEF JumpsShown
<1>7. /\ JumpsShown(systemsStat, R, W) <= VisitsIn(systemsStat, S)
      /\ R = S /\ (\A s \in S : MarksIn(systemsStat[s].SystemVisits) \subseteq W)
           => JumpsShown(systemsStat, R, W) = VisitsIn(systemsStat, S)
  BY <1>2, <1>3, ShownIsWithinTotal
<1> QED BY <1>3, <1>4, <1>5, <1>6, <1>7 DEF activity

(* The two reports agree: the chart of a region never shows more jumps than  *)
(* the visits counted there, and as many when none of them are too old for   *)
(* it and no system lies on the border, however full the histories are       *)
(* (ross.go:234-283).                                                        *)
THEOREM ActivityAgreesWithVisits == Spec => []ReportsAgree
<1>1. Remembers /\ [Next]_vars => Remembers'
  BY RemembersNext
<1>2. Remembers => ReportsAgree
  BY MemoryIsReported DEF Remembers, Counting
<1> QED BY <1>1, <1>2, RemembersInit, PTL DEF Spec

-----------------------------------------------------------------------------
(* The same in the life of the process, and what a restart keeps of it.      *)

LEMMA RemembersOverLives ==
  ASSUME Remembers, [StarNext]_starVars
  PROVE  Remembers'
<1>1. CASE End
  <2>1. /\ fsdJump' = <<>> /\ docked' = <<>> /\ control' = <<>>
        /\ systemsStat' = EmptyMap
        /\ processMessages' = "select" /\ serving' = NoCaller /\ todo' = {}
        /\ file' = file /\ fileExists' = fileExists /\ saved' = saved /\ offered' = offered
        /\ heard' = [jumps |-> 0, docks |-> 0]
    BY <1>1 DEF End, Fresh, disk
  <2>2. Bounded'
    <3>1. Len(<<>>) <= QueueCap /\ <<>> \in Seq(Jump) /\ <<>> \in Seq(Docking)
      BY ShipStatAssumption
    <3>2. fsdJump' \in Seq(Jump) /\ docked' \in Seq(Docking)
      BY Zenon, <2>1, <3>1
    <3>3. Len(fsdJump') <= QueueCap /\ Len(docked') <= QueueCap /\ Len(control') <= QueueCap
      BY Zenon, <2>1, <3>1
    <3>4. processMessages' \in {"select"} /\ serving' \in {NoCaller}
      BY <2>1
    <3>5. fileExists' \in BOOLEAN /\ offered' \in Nat
      BY <2>1 DEF Remembers, Bounded
    <3> QED BY <3>2, <3>3, <3>4, <3>5 DEF Bounded
  <2>3. Counting'
    <3>1. /\ IsMemory(systemsStat') /\ Jumps(systemsStat') = 0 /\ Docks(systemsStat') = 0
          /\ Cardinality(DOMAIN systemsStat') = 0
      BY <2>1, NothingCounted
    <3>2. heard' \in [jumps : Nat, docks : Nat] /\ heard'.jumps = 0 /\ heard'.docks = 0
      BY <2>1
    <3>3. VisitsAddUp'
      BY <3>1, <3>2 DEF VisitsAddUp
    <3> QED BY <3>1, <3>2, <3>3 DEF Counting
  <2>4. Stored'
    BY <2>1 DEF Remembers, Stored, AreLines, IsSequence, IsMemory
  <2> QED BY <2>2, <2>3, <2>4, OwnedOverLives, WrittenOverLives DEF Remembers
<1> QED BY <1>1, StepOfLife, RemembersNext

LifeIsTyped ==
  /\ stage \in {"down", "restore", "run", "lastBackup", "shutdown"}
  /\ lives \in Nat /\ IsMemory(kept) /\ intact \in BOOLEAN

LEMMA LifeIsTypedNext ==
  ASSUME Remembers, LifeIsTyped, [StarNext]_starVars
  PROVE  LifeIsTyped'
<1>2. saved' # NoStats => IsMemory(saved')
  BY RemembersOverLives DEF Remembers, Stored
<1>3. CASE Act
  <2>1. /\ UNCHANGED <<stage, lives, intact>>
        /\ kept' = IF saved' # NoStats THEN saved' ELSE kept
    BY <1>3 DEF Act, Alive
  <2>2. CASE saved' # NoStats
    BY <1>2, <2>1, <2>2 DEF LifeIsTyped
  <2>3. CASE saved' = NoStats
    BY <2>1, <2>3 DEF LifeIsTyped, IsMemory
  <2> QED BY <2>2, <2>3
<1>4. CASE End
  BY <1>4 DEF End, LifeIsTyped, IsMemory
<1>5. CASE StartJobs
  BY <1>5 DEF StartJobs, LifeIsTyped, IsMemory
<1>6. CASE UNCHANGED life
  BY <1>6 DEF life, LifeIsTyped, IsMemory
<1>7. CASE Start
  BY <1>7 DEF Start, LifeIsTyped, IsMemory
<1>8. CASE Signal \/ Shutdown
  BY <1>8 DEF Signal, Shutdown, LifeIsTyped, IsMemory
<1> QED BY <1>3, <1>4, <1>5, <1>6, <1>7, <1>8
        DEF StarNext, Return, Crash, CronBackup, Receive, Query, starVars

LEMMA StarInvariant == StarSpec => [](Remembers /\ LifeIsTyped)
<1>1. StarInit => Remembers /\ LifeIsTyped
  BY RemembersInit, NothingCounted DEF StarInit, LifeIsTyped
<1>2. (Remembers /\ LifeIsTyped) /\ [StarNext]_starVars => (Remembers /\ LifeIsTyped)'
  BY RemembersOverLives, LifeIsTypedNext
<1> QED BY <1>1, <1>2, PTL DEF StarSpec

(* Every variable of the process keeps its type over any number of lives     *)
(* (edicenter.go:144-178).                                                   *)
THEOREM ProcessIsTyped == StarSpec => []StarTypeOK
<1>1. Remembers /\ LifeIsTyped => StarTypeOK
  BY RemembersTypes, MemoryIsTyped DEF StarTypeOK, LifeIsTyped
<1> QED BY <1>1, StarInvariant, PTL

(* The sums and the reports are right in every life of the process, whatever *)
(* it was restored from (ross.go:234-283, 308-385, edicenter.go:144-178).    *)
THEOREM CountsAreRightInAnyLife == StarSpec => [](VisitsAddUp /\ ReportsAgree)
<1>1. Remembers => VisitsAddUp /\ ReportsAgree
  BY MemoryIsReported DEF Remembers, Counting
<1> QED BY <1>1, StarInvariant, PTL

-----------------------------------------------------------------------------
(* What is brought back.                                                     *)

\* No line of the file is too long for the scanner.
EveryLineFits == \A i \in DOMAIN file : LineSize(file[i]) <= LineLimit

(* The file a complete backup left gives back the map it was made of.        *)
LEMMA BackupIsRestored ==
  ASSUME Written, saved # NoStats, IsMemory(saved), EveryLineFits
  PROVE  fileExists /\ Restored(file) = saved
<1> DEFINE r == Restored(file)
<1>1. /\ IsSequence(file) /\ fileExists
      /\ \A i \in DOMAIN file :
           /\ file[i].system \in DOMAIN saved /\ file[i].whole
           /\ file[i].stat = saved[file[i].system]
      /\ \A s \in DOMAIN saved : \E i \in DOMAIN file : file[i].system = s
  BY DEF Written, BackupIsSnapshot, Holds
<1>2. /\ r = [s \in DOMAIN r |-> r[s]]
      /\ \A s \in DOMAIN r :
           \E i \in DOMAIN file :
             file[i].system = s /\ file[i].whole /\ r[s] = file[i].stat
      /\ \A i \in DOMAIN file : file[i].whole => file[i].system \in DOMAIN r
  BY <1>1, RestoredFromLine DEF EveryLineFits
<1> HIDE DEF r
<1>3. \A s \in DOMAIN r : s \in DOMAIN saved /\ r[s] = saved[s]
  BY <1>1, <1>2
<1>4. ASSUME NEW s \in DOMAIN saved PROVE s \in DOMAIN r
  <2>1. PICK i \in DOMAIN file : file[i].system = s
    BY <1>1
  <2>2. file[i].whole
    BY <1>1
  <2> QED BY <1>2, <2>1, <2>2
<1>5. saved = [s \in DOMAIN saved |-> saved[s]]
  BY DEF IsMemory
<1> QED BY <1>1, <1>2, <1>3, <1>4, <1>5 DEF r

(* Only a restore that read the file reports success to whoever asked for one. *)
LEMMA RestoreAnswers ==
  ASSUME Owned, [Next]_vars, NEW c \in Callers, Answered(c, "restore")
  PROVE  performRestore
<1>1. /\ call[c].at = "waiting" /\ call[c].command = "restore"
      /\ call'[c].at = "idle" /\ call'[c].ok
  BY DEF Answered
<1>2. call \in [Callers -> CallState]
  BY DEF Owned
<1>3. ASSUME UNCHANGED call PROVE FALSE
  BY <1>1, <1>3
<1>4. ASSUME control # <<>> PROVE call[Head(control).caller].command = Head(control).command
  BY <1>4, TailPlaces DEF Owned, RequestsAreOwned
<1>5. ASSUME NEW d, NEW result, Answer(d, result)
      PROVE  result /\ c = d
  BY <1>1, <1>2, <1>5 DEF Answer, CallState
<1>6. CASE handleControlMessage
  <2>1. CASE exit \/ query
    <3>1. /\ control # <<>> /\ Head(control).command # "restore"
          /\ Answer(Head(control).caller, TRUE)
      BY <2>1 DEF exit, query, NextCommandIs
    <3>2. c = Head(control).caller
      BY <1>5, <3>1
    <3> QED BY <1>1, <1>4, <3>1, <3>2
  <2>2. CASE backupCreate
    BY <1>3, <2>2 DEF backupCreate
  <2>3. CASE backupCreateFails \/ restoreFails
    BY <1>5, <2>3 DEF backupCreateFails, restoreFails
  <2> QED BY <1>6, <2>1, <2>2, <2>3 DEF handleControlMessage
<1>7. CASE writeBackup
  <2>1. processMessages = "backup" => call[serving].command = "backup"
    BY DEF Owned, RequestsAreOwned
  <2>2. CASE \E s \in Systems : encodeStat(s) \/ encodeFails(s)
    BY <1>3, <1>5, <2>2 DEF encodeStat, encodeFails
  <2>3. CASE backupDone
    BY <1>1, <1>5, <2>1, <2>3 DEF backupDone
  <2> QED BY <1>7, <2>2, <2>3 DEF writeBackup
<1>8. CASE \E d \in Callers, cmd \in Commands : Call(d, cmd)
  BY <1>1, <1>2, <1>8 DEF Call, CallState
<1>9. CASE \E d \in Callers : Send(d)
  BY <1>1, <1>2, <1>9 DEF Send, CallState
<1> QED BY <1>3, <1>6, <1>7, <1>8, <1>9 DEF Next, NoteFSDJump, NoteDocked, handleFSDJump,
        handleDocked, vars

BroughtBack ==
  \A c \in Callers : Answered(c, "restore") /\ saved # NoStats => systemsStat' = saved

LEMMA RestoreStep ==
  ASSUME Remembers, EveryLineFits, [Next]_vars
  PROVE  BroughtBack
<1> SUFFICES ASSUME NEW c \in Callers, Answered(c, "restore"), saved # NoStats
             PROVE  systemsStat' = saved
  BY DEF BroughtBack
<1>1. performRestore
  BY RestoreAnswers DEF Remembers
<1>2. IsMemory(saved)
  BY DEF Remembers, Stored
<1> QED BY <1>1, <1>2, BackupIsRestored DEF performRestore, Remembers

(* A restore that reports success after a backup that did brings back just   *)
(* what was backed up, while all lines of the file fit the scanner's buffer  *)
(* (ross.go:285-330).                                                        *)
THEOREM RestoreUndoesBackup == Spec /\ []EveryLineFits => RestoreBringsBackBackup
<1>1. Remembers /\ [Next]_vars => Remembers'
  BY RemembersNext
<1>2. Remembers /\ EveryLineFits /\ [Next]_vars => [BroughtBack]_vars
  BY RestoreStep
<1>3. RestoreBringsBackBackup <=> [][BroughtBack]_vars
  <2>1. BroughtBack
          <=> \A c \in Callers :
                Answered(c, "restore") /\ saved # NoStats => systemsStat' = saved
    BY DEF BroughtBack
  <2> QED BY <2>1, PTL DEF RestoreBringsBackBackup
<1> QED BY <1>1, <1>2, <1>3, RemembersInit, PTL DEF Spec

(* The same over any number of lives: a restart that finds a complete backup *)
(* brings all of it back, while no line of the file is too long for the      *)
(* scanner (ross.go:285-330, edicenter.go:144-148).                          *)
THEOREM RestartBringsBackBackup == StarSpec /\ []EveryLineFits => RestoreBringsBackBackup
<1>1. Remembers /\ EveryLineFits /\ [StarNext]_starVars => [BroughtBack]_vars
  <2> SUFFICES ASSUME Remembers, EveryLineFits, [StarNext]_starVars PROVE [BroughtBack]_vars
    OBVIOUS
  <2>1. CASE End
    <3>1. call' = NoCalls
      BY <2>1 DEF End
    <3>2. \A c \in Callers : ~call'[c].ok
      BY <3>1 DEF NoCalls
    <3> QED BY <3>2 DEF BroughtBack, Answered
  <2>2. CASE [Next]_vars
    BY <2>2, RestoreStep
  <2> QED BY <2>1, <2>2, StepOfLife
<1>2. RestoreBringsBackBackup <=> [][BroughtBack]_vars
  <2>1. BroughtBack
          <=> \A c \in Callers :
                Answered(c, "restore") /\ saved # NoStats => systemsStat' = saved
    BY DEF BroughtBack
  <2> QED BY <2>1, PTL DEF RestoreBringsBackBackup
<1>3. StarInit => Remembers
  BY RemembersInit DEF StarInit
<1>4. Remembers /\ [StarNext]_starVars => Remembers'
  BY RemembersOverLives
<1> QED BY <1>1, <1>2, <1>3, <1>4, PTL DEF StarSpec

-----------------------------------------------------------------------------
(* What is never forgotten.                                                  *)

Beginning == stage \in {"down", "restore"}

(* Until main has restored the backup nobody else is served and nothing is   *)
(* received, afterwards nobody restores: between a restart and the next end  *)
(* of the process nothing is taken away. While no life began without the     *)
(* last backup, the backup that is there is the last complete one.           *)
Preserved ==
  /\ Beginning => /\ fsdJump = <<>> /\ docked = <<>> /\ processMessages = "select"
                  /\ intact => saved # NoStats \/ kept = EmptyMap
  /\ \A c \in Callers :
       call[c].at # "idle" => IF Beginning THEN stage = "restore" /\ c = Main
                              ELSE call[c].command # "restore"
  /\ Beginning /\ call[Main].at # "idle" => call[Main].command = "restore"
  /\ stage = "restore" /\ Returned(Main) /\ call[Main].ok => systemsStat = Restored(file)
  /\ saved # NoStats => kept = saved
  /\ intact /\ ~Beginning => Covers(systemsStat, kept)

LEMMA PreservedInit == StarInit => Preserved
<1> SUFFICES ASSUME StarInit PROVE Preserved
  OBVIOUS
<1>1. Init /\ stage = "down" /\ kept = EmptyMap
  BY DEF StarInit
<1>2. /\ fsdJump = <<>> /\ docked = <<>> /\ processMessages = "select" /\ saved = NoStats
      /\ \A c \in Callers : call[c].at = "idle"
  BY <1>1 DEF Init
<1> QED BY <1>1, <1>2, StarAssumption DEF Preserved, Beginning

LEMMA CoversAllOfItself ==
  ASSUME NEW stats, IsMemory(stats)
  PROVE  Covers(stats, stats)
<1>1. \A v \in BoundedHistories : CoversHistory(v, v, historySize)
  BY CoversItself DEF BoundedHistories
<1>2. ASSUME NEW s \in DOMAIN stats
      PROVE  /\ stats[s].SystemVisits \in BoundedHistories
             /\ \A st \in DOMAIN stats[s].StationVisits :
                  stats[s].StationVisits[st] \in BoundedHistories
  <2>1. stats[s].SystemVisits \in BoundedHistories /\ stats[s].StationVisits \in StationMaps
    BY DEF IsMemory, Stats
  <2> QED BY <2>1, StationsOfMap
<1> QED BY <1>1, <1>2 DEF Covers

\* An entry of a map has all that an older one had.
CoversStat(stat, old) ==
  /\ CoversHistory(stat.SystemVisits, old.SystemVisits, historySize)
  /\ \A st \in DOMAIN old.StationVisits :
       /\ st \in DOMAIN stat.StationVisits
       /\ CoversHistory(stat.StationVisits[st], old.StationVisits[st], historySize)

LEMMA CoversByStat ==
  ASSUME NEW stats, NEW old
  PROVE  Covers(stats, old)
           <=> \A s \in DOMAIN old : s \in DOMAIN stats /\ CoversStat(stats[s], old[s])
BY DEF Covers, CoversStat

(* Nothing is taken away by a jump ...                                       *)
LEMMA AfterJumpKeeps ==
  ASSUME NEW stats, IsMemory(stats), NEW old, IsMemory(old), Covers(stats, old), NEW m \in Jump
  PROVE  Covers(AfterJump(stats, m), old)
<1> DEFINE was == IF m.system \in DOMAIN stats THEN stats[m.system]
                  ELSE [SystemVisits |-> NewHistory, StationVisits |-> EmptyMap]
           v == NoteVisit(was.SystemVisits, m.timemark)
           stat == [was EXCEPT !.SystemVisits = v]
           new == AfterJump(stats, m)
<1>1. m.timemark \in Timemarks
  BY DEF Jump
<1>2. /\ DOMAIN new = DOMAIN stats \cup {m.system} /\ new[m.system] = stat
      /\ \A s \in DOMAIN stats : s # m.system => new[s] = stats[s]
  BY DEF AfterJump, Put
<1> HIDE DEF new
<1>3. ASSUME NEW s \in DOMAIN old PROVE s \in DOMAIN new /\ CoversStat(new[s], old[s])
  <2>1. s \in DOMAIN stats /\ CoversStat(stats[s], old[s])
    BY CoversByStat
  <2>2. CASE s # m.system
    BY <1>2, <2>1, <2>2
  <2>3. CASE s = m.system
    <3>1. /\ was = stats[s] /\ was \in Stats /\ old[s] \in Stats
      BY <2>1, <2>3 DEF IsMemory
    <3> HIDE DEF was
    <3>2. was.SystemVisits \in BoundedHistories /\ old[s].SystemVisits \in BoundedHistories
      BY <3>1 DEF Stats
    <3>3. CoversHistory(was.SystemVisits, old[s].SystemVisits, historySize)
      BY <2>1, <3>1 DEF CoversStat
    <3>4. CoversHistory(v, old[s].SystemVisits, historySize)
      BY <1>1, <3>2, <3>3, NoteVisitKeeps
    <3> HIDE DEF v
    <3>5. stat.SystemVisits = v /\ stat.StationVisits = was.StationVisits
      BY <3>1 DEF Stats
    <3> HIDE DEF stat
    <3>6. CoversStat(stat, old[s])
      BY <2>1, <3>1, <3>4, <3>5 DEF CoversStat
    <3> QED BY <1>2, <2>1, <2>3, <3>6
  <2> QED BY <2>2, <2>3
<1> QED BY <1>3, CoversByStat DEF new

(* ... or a docking.                                                         *)
LEMMA AfterDockingKeeps ==
  ASSUME NEW stats, IsMemory(stats), NEW old, IsMemory(old), Covers(stats, old),
         NEW m \in Docking
  PROVE  Covers(AfterDocking(stats, m), old)
<1> DEFINE was == IF m.system \in DOMAIN stats THEN stats[m.system]
                  ELSE [SystemVisits |-> NoteVisit(NewHistory, m.timemark),
                        StationVisits |-> EmptyMap]
           stations == was.StationVisits
           visits == IF m.station \in DOMAIN stations THEN stations[m.station] ELSE NewHistory
           v == NoteVisit(visits, m.timemark)
           docks == Put(stations, m.station, v)
           stat == [was EXCEPT !.StationVisits = docks]
           new == AfterDocking(stats, m)
<1>1. m.timemark \in Timemarks
  BY DEF Docking
<1>2. /\ DOMAIN new = DOMAIN stats \cup {m.system} /\ new[m.system] = stat
      /\ \A s \in DOMAIN stats : s # m.system => new[s] = stats[s]
  BY DEF AfterDocking, Put
<1> HIDE DEF new
<1>3. ASSUME NEW s \in DOMAIN old PROVE s \in DOMAIN new /\ CoversStat(new[s], old[s])
  <2>1. s \in DOMAIN stats /\ CoversStat(stats[s], old[s])
    BY CoversByStat
  <2>2. CASE s # m.system
    BY <1>2, <2>1, <2>2
  <2>3. CASE s = m.system
    <3>1. /\ was = stats[s] /\ was \in Stats /\ old[s] \in Stats
      BY <2>1, <2>3 DEF IsMemory
    <3> HIDE DEF was
    <3>2. stations \in StationMaps /\ old[s].StationVisits \in StationMaps
      BY <3>1 DEF Stats
    <3>3. /\ \A st \in DOMAIN stations : stations[st] \in BoundedHistories
          /\ \A st \in DOMAIN old[s].StationVisits :
               old[s].StationVisits[st] \in BoundedHistories
      BY <3>2, StationsOfMap
    <3>4. /\ CoversHistory(was.SystemVisits, old[s].SystemVisits, historySize)
          /\ \A st \in DOMAIN old[s].StationVisits :
               /\ st \in DOMAIN stations
               /\ CoversHistory(stations[st], old[s].StationVisits[st], historySize)
      BY <2>1, <3>1 DEF CoversStat
    <3>5. /\ stat.SystemVisits = was.SystemVisits /\ stat.StationVisits = docks
      BY <3>1 DEF Stats
    <3>6. /\ DOMAIN docks = DOMAIN stations \cup {m.station} /\ docks[m.station] = v
          /\ \A st \in DOMAIN stations : st # m.station => docks[st] = stations[st]
      BY DEF Put
    <3> HIDE DEF stations, docks, stat
    <3>7. ASSUME NEW st \in DOMAIN old[s].StationVisits
          PROVE  /\ st \in DOMAIN docks
                 /\ CoversHistory(docks[st], old[s].StationVisits[st], historySize)
      <4>1. st \in DOMAIN stations
        BY <3>4
      <4>2. CASE st # m.station
        BY <3>4, <3>6, <4>1, <4>2
      <4>3. CASE st = m.station
        <5>1. visits = stations[st]
          BY <4>1, <4>3
        <5>2. /\ visits \in BoundedHistories /\ old[s].StationVisits[st] \in BoundedHistories
              /\ CoversHistory(visits, old[s].StationVisits[st], historySize)
          BY <3>3, <3>4, <4>1, <5>1
        <5> HIDE DEF visits
        <5>3. CoversHistory(v, old[s].StationVisits[st], historySize)
          BY <1>1, <5>2, NoteVisitKeeps
        <5> QED BY <3>6, <4>1, <4>3, <5>3
      <4> QED BY <4>2, <4>3
    <3>8. CoversStat(stat, old[s])
      BY <3>4, <3>5, <3>7 DEF CoversStat
    <3> QED BY <1>2, <2>1, <2>3, <3>8
  <2> QED BY <2>2, <2>3
<1> QED BY <1>3, CoversByStat DEF new

LEMMA EventsTakeNothing ==
  ASSUME Remembers, handleFSDJump \/ handleDocked,
         NEW old, IsMemory(old), Covers(systemsStat, old)
  PROVE  Covers(systemsStat', old)
<1>1. IsMemory(systemsStat) /\ Bounded
  BY DEF Remembers, Counting
<1>3. CASE systemsStat' = systemsStat
  BY <1>3
<1>4. CASE \E m \in Jump : systemsStat' = AfterJump(systemsStat, m)
  BY <1>1, <1>4, AfterJumpKeeps
<1>5. CASE \E m \in Docking : systemsStat' = AfterDocking(systemsStat, m)
  BY <1>1, <1>5, AfterDockingKeeps
<1>6. CASE handleFSDJump
  <2>1. Head(fsdJump) \in Jump
    BY <1>1, <1>6, TailPlaces DEF handleFSDJump, Bounded
  <2> QED BY <1>3, <1>4, <1>6, <2>1 DEF handleFSDJump
<1>7. CASE handleDocked
  <2>1. Head(docked) \in Docking
    BY <1>1, <1>7, TailPlaces DEF handleDocked, Bounded
  <2> QED BY <1>3, <1>5, <1>7, <2>1 DEF handleDocked
<1> QED BY <1>6, <1>7

(* The actor and those who wait for it call nothing of themselves.           *)
LEMMA ActCallsNothing ==
  ASSUME Owned, Act
  PROVE  \A c \in Callers : /\ call'[c].command = call[c].command
                            /\ call'[c].at # "idle" => call[c].at # "idle"
<1>1. call \in [Callers -> CallState]
  BY DEF Owned
<1>2. ASSUME NEW d, NEW result, Answer(d, result)
      PROVE  \A c \in Callers : /\ call'[c].command = call[c].command
                                /\ call'[c].at # "idle" => call[c].at # "idle"
  BY <1>1, <1>2 DEF Answer, CallState
<1>3. CASE UNCHANGED call
  BY <1>3
<1>4. CASE \E c \in Callers : Send(c)
  BY <1>1, <1>4 DEF Send, CallState
<1>5. CASE handleControlMessage
  BY <1>2, <1>3, <1>5 DEF handleControlMessage, exit, query, backupCreate, backupCreateFails,
                          performRestore, restoreFails
<1>6. CASE writeBackup
  BY <1>2, <1>3, <1>6 DEF writeBackup, encodeStat, encodeFails, backupDone
<1> QED BY <1>3, <1>4, <1>5, <1>6 DEF Act, Alive, handleFSDJump, handleDocked

(* The request in front is of one who waits for it.                          *)
LEMMA HeadIsOwned ==
  ASSUME Owned, control # <<>>
  PROVE  LET c == Head(control).caller
         IN  /\ c \in Callers /\ call[c].at = "waiting"
             /\ call[c].command = Head(control).command
<1>1. /\ DOMAIN control = 1 .. Len(control) /\ Len(control) \in Nat \ {0}
      /\ Head(control) = control[1] /\ Head(control) \in Request
  BY TailPlaces DEF Owned
<1>2. 1 \in DOMAIN control
  BY <1>1
<1> QED BY <1>1, <1>2 DEF Owned, RequestsAreOwned, Waiting, Request

(* While main restores, the actor does nothing else.                         *)
LEMMA PreservedRestore ==
  ASSUME Remembers, Preserved, Act, Beginning
  PROVE  Preserved'
<1>0. Owned
  BY DEF Remembers
<1>1. /\ stage = "restore" /\ UNCHANGED <<stage, lives, intact>>
      /\ fsdJump = <<>> /\ docked = <<>> /\ processMessages = "select"
      /\ intact => saved # NoStats \/ kept = EmptyMap
      /\ \A c \in Callers : call[c].at # "idle" => c = Main
      /\ call[Main].at # "idle" => call[Main].command = "restore"
      /\ Returned(Main) /\ call[Main].ok => systemsStat = Restored(file)
      /\ saved # NoStats => kept = saved
  BY DEF Preserved, Beginning, Act, Alive
<1>2. kept' = IF saved' # NoStats THEN saved' ELSE kept
  BY DEF Act, Alive
<1>3. call \in [Callers -> CallState] /\ Main \in Callers
  BY <1>0, StarAssumption DEF Owned
<1>4. \A c \in Callers : /\ call'[c].command = call[c].command
                         /\ call'[c].at # "idle" => call[c].at # "idle"
  BY <1>0, ActCallsNothing
<1>5. (\E c \in Callers : Send(c)) \/ performRestore \/ restoreFails
  <2>1. control # <<>> => Head(control).command = "restore"
    BY <1>0, <1>1, HeadIsOwned
  <2>2. ~handleFSDJump /\ ~handleDocked /\ ~writeBackup
    BY <1>1 DEF handleFSDJump, handleDocked, writeBackup, encodeStat, encodeFails, backupDone
  <2> QED BY <2>1, <2>2 DEF Act, Alive, handleControlMessage, exit, query, backupCreate,
             backupCreateFails, NextCommandIs
<1>6. /\ UNCHANGED <<fsdJump, docked, processMessages, file, saved>>
      /\ call'[Main].at = "idle" /\ call'[Main].ok => systemsStat' = Restored(file')
  <2>1. CASE \E c \in Callers : Send(c)
    <3>1. PICK c \in Callers : Send(c)
      BY <2>1
    <3>2. c = Main /\ call'[Main].at = "waiting"
      BY <1>1, <1>3, <3>1 DEF Send, CallState
    <3> QED BY <3>1, <3>2 DEF Send, actor, disk
  <2>2. CASE performRestore
    BY <2>2 DEF performRestore, actor, disk
  <2>3. CASE restoreFails
    <3>1. control # <<>> /\ Answer(Head(control).caller, FALSE)
      BY <2>3 DEF restoreFails, NextCommandIs
    <3>2. Head(control).caller = Main
      BY <1>0, <1>1, <3>1, HeadIsOwned
    <3>3. ~call'[Main].ok
      BY <1>3, <3>1, <3>2 DEF Answer, CallState
    <3> QED BY <2>3, <3>3 DEF restoreFails, actor, disk
  <2> QED BY <1>5, <2>1, <2>2, <2>3
<1>7. kept' = kept
  BY <1>1, <1>2, <1>6
<1>8. stage' = "restore" /\ intact' = intact
  BY <1>1
<1> QED BY <1>1, <1>3, <1>4, <1>6, <1>7, <1>8 DEF Preserved, Beginning, Returned

(* Afterwards nothing is taken away, and a backup of the map holds all that  *)
(* was kept.                                                                 *)
LEMMA PreservedRun ==
  ASSUME Remembers, LifeIsTyped, Preserved, Act, ~Beginning
  PROVE  Preserved' /\ (intact => Covers(kept', kept))
<1>0. Owned /\ IsMemory(systemsStat) /\ IsMemory(kept)
  BY DEF Remembers, Counting, LifeIsTyped
<1>1. /\ intact' = intact /\ ~(Beginning') /\ stage' # "restore"
      /\ \A c \in Callers : call[c].at # "idle" => call[c].command # "restore"
      /\ saved # NoStats => kept = saved
      /\ intact => Covers(systemsStat, kept)
  BY DEF Preserved, Beginning, Act, Alive
<1>2. kept' = IF saved' # NoStats THEN saved' ELSE kept
  BY DEF Act, Alive
<1>3. \A c \in Callers : call'[c].at # "idle" => call'[c].command # "restore"
  BY <1>0, <1>1, ActCallsNothing
<1>4. ~performRestore
  BY <1>0, <1>1, HeadIsOwned DEF performRestore, NextCommandIs
<1>5. \/ (intact => Covers(systemsStat', kept)) /\ saved' = saved
      \/ systemsStat' = systemsStat /\ saved' \in {saved, NoStats, systemsStat}
  <2>1. CASE handleFSDJump \/ handleDocked
    <3>1. saved' = saved
      BY <2>1 DEF handleFSDJump, handleDocked, disk
    <3> QED BY <1>0, <1>1, <2>1, <3>1, EventsTakeNothing
  <2>2. CASE handleControlMessage
    BY <1>4, <2>2 DEF handleControlMessage, exit, query, backupCreate, backupCreateFails,
                      restoreFails, disk
  <2>3. CASE writeBackup
    BY <2>3 DEF writeBackup, encodeStat, encodeFails, backupDone
  <2>4. CASE \E c \in Callers : Send(c)
    BY <2>4 DEF Send, disk
  <2> QED BY <2>1, <2>2, <2>3, <2>4 DEF Act, Alive
<1>6. CASE saved' = saved \/ saved' = NoStats
  <2>1. kept' = kept
    BY <1>1, <1>2, <1>6
  <2>2. saved' # NoStats => kept' = saved'
    BY <1>2
  <2>3. intact => Covers(systemsStat', kept)
    BY <1>1, <1>5
  <2>4. intact => Covers(systemsStat', kept')
    BY <2>1, <2>3
  <2>5. Covers(kept, kept)
    BY <1>0, CoversAllOfItself
  <2>6. Covers(kept', kept)
    BY <2>1, <2>5
  <2> QED BY <1>1, <1>3, <2>2, <2>4, <2>6 DEF Preserved, Beginning
<1>7. CASE saved' # saved /\ saved' # NoStats
  <2>1. systemsStat' = systemsStat /\ saved' = systemsStat /\ kept' = systemsStat
    BY <1>2, <1>5, <1>7
  <2>2. Covers(systemsStat, systemsStat)
    BY <1>0, CoversAllOfItself
  <2>3. Covers(systemsStat', kept') /\ (intact => Covers(kept', kept))
    BY <1>1, <2>1, <2>2
  <2> QED BY <1>1, <1>3, <2>1, <2>3 DEF Preserved, Beginning
<1> QED BY <1>6, <1>7

(* A new call, made when the backup has been restored.                       *)
LEMMA PreservedCall ==
  ASSUME Owned, Preserved, NEW c \in Callers, NEW cmd, cmd # "restore", Call(c, cmd),
         ~Beginning, ~(Beginning'), UNCHANGED <<kept, intact>>, JobsRun
  PROVE  Preserved'
<1>1. call \in [Callers -> CallState]
  BY DEF Owned
<1>2. /\ call' = [call EXCEPT ![c] = [@ EXCEPT !.at = "sending", !.command = cmd]]
      /\ systemsStat' = systemsStat /\ saved' = saved
      /\ kept' = kept /\ intact' = intact
  BY DEF Call, disk
<1>3. \A d \in Callers : call'[d].at # "idle" => call'[d].command # "restore"
  BY <1>1, <1>2 DEF CallState, Preserved
<1>4. intact' => Covers(systemsStat', kept')
  BY <1>2 DEF Preserved
<1> QED BY <1>2, <1>3, <1>4 DEF Preserved, Beginning

LEMMA PreservedNext ==
  ASSUME EveryLineFits, Remembers, LifeIsTyped, Preserved, [StarNext]_starVars
  PROVE  Preserved'
<1>0. /\ Owned /\ Written /\ Stored /\ Counting
      /\ Main \in Callers /\ Cron \in Callers /\ Main # Cron
  BY StarAssumption DEF Remembers
<1>1. CASE Act
  BY <1>1, PreservedRestore, PreservedRun
<1>2. CASE End
  <2>1. /\ stage' = "down" /\ call' = NoCalls
        /\ fsdJump' = <<>> /\ docked' = <<>> /\ processMessages' = "select"
        /\ intact' = (intact /\ (saved # NoStats \/ kept = EmptyMap))
        /\ saved' = saved /\ kept' = kept
    BY <1>2 DEF End, Fresh, disk
  <2>2. \A c \in Callers : call'[c].at = "idle"
    BY <2>1 DEF NoCalls
  <2> QED BY <1>0, <2>1, <2>2 DEF Preserved, Beginning
<1>3. CASE Start
  <2>1. /\ stage = "down" /\ stage' = "restore" /\ kept' = kept /\ intact' = intact
        /\ call' = [call EXCEPT ![Main] = [@ EXCEPT !.at = "sending", !.command = "restore"]]
        /\ UNCHANGED <<fsdJump, docked, processMessages, saved>>
    BY <1>3 DEF Start, Call, queues, actor, disk
  <2>2. \A c \in Callers : call[c].at = "idle"
    BY <2>1 DEF Preserved, Beginning
  <2>3. /\ call'[Main].at = "sending" /\ call'[Main].command = "restore"
        /\ \A c \in Callers : c # Main => call'[c].at = "idle"
    BY <1>0, <2>1, <2>2 DEF Owned, CallState
  <2> QED BY <2>1, <2>3 DEF Preserved, Beginning, Returned
<1>4. CASE StartJobs
  <2>1. /\ stage = "restore" /\ stage' = "run" /\ Returned(Main) /\ kept' = kept
        /\ intact' = (intact /\ (call[Main].ok \/ kept = EmptyMap))
        /\ systemsStat' = systemsStat /\ call' = call /\ saved' = saved
    BY <1>4 DEF StartJobs, vars, disk
  <2>2. \A c \in Callers : call[c].at = "idle"
    BY <2>1 DEF Preserved, Beginning, Returned
  <2>3. intact' => Covers(systemsStat, kept)
    <3>1. CASE kept = EmptyMap
      <4>1. DOMAIN kept = {}
        BY <3>1 DEF EmptyMap
      <4> QED BY <4>1 DEF Covers
    <3>2. CASE kept # EmptyMap /\ intact'
      <4>1. /\ intact /\ saved # NoStats /\ systemsStat = Restored(file) /\ kept = saved
        BY <2>1, <3>2 DEF Preserved, Beginning
      <4>2. IsMemory(saved)
        BY <1>0, <4>1 DEF Stored
      <4>3. systemsStat = saved
        BY <1>0, <4>1, <4>2, BackupIsRestored
      <4> QED BY <4>1, <4>2, <4>3, CoversAllOfItself
    <3> QED BY <3>1, <3>2
  <2>4. intact' => Covers(systemsStat', kept')
    BY <2>1, <2>3
  <2> QED BY <2>1, <2>2, <2>4 DEF Preserved, Beginning
<1>5. CASE Receive
  <2>1. /\ JobsRun /\ stage' = stage /\ kept' = kept /\ intact' = intact
        /\ systemsStat' = systemsStat /\ call' = call /\ saved' = saved
    BY <1>5 DEF Receive, NoteFSDJump, NoteDocked, disk, life
  <2>2. ~Beginning
    BY <2>1 DEF Beginning, JobsRun
  <2>3. intact' => Covers(systemsStat', kept')
    BY <2>1, <2>2 DEF Preserved
  <2> QED BY <2>1, <2>2, <2>3 DEF Preserved, Beginning
<1>6. ASSUME NEW c \in Callers, NEW cmd, cmd # "restore", Call(c, cmd), JobsRun,
             stage' \in {stage, "lastBackup", "shutdown"}, UNCHANGED <<kept, intact>>
      PROVE  Preserved'
  <2>1. ~Beginning /\ ~(Beginning')
    BY <1>6 DEF JobsRun, Beginning
  <2> QED BY <1>0, <1>6, <2>1, PreservedCall
<1>7. CASE CronBackup
  BY <1>0, <1>6, <1>7 DEF CronBackup, life
<1>8. CASE Signal
  BY <1>0, <1>6, <1>8 DEF Signal, JobsRun
<1>9. CASE Shutdown
  BY <1>0, <1>6, <1>9 DEF Shutdown, JobsRun
<1>10. CASE \E c \in Callers, cmd \in Commands : Query(c, cmd)
  BY <1>6, <1>10 DEF Query, life
<1>11. CASE UNCHANGED starVars
  <2>1. UNCHANGED <<fsdJump, docked, processMessages, call, systemsStat, file, saved>>
    BY <1>11 DEF starVars, vars, queues, actor, disk
  <2>2. stage' = stage /\ kept' = kept /\ intact' = intact
    BY <1>11 DEF starVars, life
  <2>3. /\ Restored(file') = Restored(file)
        /\ Covers(systemsStat', kept') <=> Covers(systemsStat, kept)
    BY <2>1, <2>2
  <2> QED BY <2>1, <2>2, <2>3 DEF Preserved, Beginning, Returned
<1> QED BY <1>1, <1>2, <1>3, <1>4, <1>5, <1>7, <1>8, <1>9, <1>10, <1>11
        DEF StarNext, Return, Crash

\* A complete backup has all that the one before it had, and so has the memory.
NothingForgotten ==
  intact' => /\ Covers(kept', kept)
             /\ stage' \notin {"down", "restore"} => Covers(systemsStat', kept')

LEMMA NothingForgottenStep ==
  ASSUME EveryLineFits, Remembers, LifeIsTyped, Preserved, [StarNext]_starVars
  PROVE  NothingForgotten
<1>1. stage' \notin {"down", "restore"} /\ intact' => Covers(systemsStat', kept')
  BY PreservedNext DEF Preserved, Beginning
<1>2. CASE kept' = kept
  <2>1. Covers(kept, kept)
    BY CoversAllOfItself DEF LifeIsTyped
  <2>2. Covers(kept', kept)
    BY <1>2, <2>1
  <2> QED BY <1>1, <2>2 DEF NothingForgotten
<1>3. CASE kept' # kept
  <2>1. Act /\ intact' = intact
    <3>1. ~Act => kept' = kept
      BY DEF StarNext, Start, StartJobs, Signal, Shutdown, Return, Crash, End, CronBackup,
             Receive, Query, life, starVars
    <3> QED BY <1>3, <3>1 DEF Act, Alive
  <2>2. ~Beginning
    <3>1. ASSUME Beginning PROVE FALSE
      <4>1. saved' = saved \/ saved' = NoStats
        <5>1. processMessages = "select"
          BY <3>1 DEF Preserved
        <5> QED BY <2>1, <5>1 DEF Act, Alive, handleFSDJump, handleDocked, handleControlMessage,
               exit, query, backupCreate, backupCreateFails, performRestore, restoreFails,
               writeBackup, encodeStat, encodeFails, backupDone, Send, disk
      <4> QED BY <1>3, <2>1, <4>1 DEF Act, Alive, Preserved
    <3> QED BY <3>1
  <2> QED BY <1>1, <2>1, <2>2, PreservedRun DEF NothingForgotten
<1> QED BY <1>2, <1>3

(* What a complete backup held is not forgotten, over any number of lives,   *)
(* system by system, station by station and frame by frame, however full the *)
(* histories get, while no line of the file is too long for the scanner: all *)
(* later complete backups have it, and the memory has it from each restore   *)
(* on, but for the frames of histories full of newer ones, unless a process  *)
(* ended with its last backup incomplete or could not open the file when it  *)
(* started (edicenter.go:144-178, ross.go:285-330, timestat.go:45-73).       *)
THEOREM NothingKeptIsForgotten == StarSpec /\ []EveryLineFits => NothingIsForgotten
<1>1. EveryLineFits /\ (Remembers /\ LifeIsTyped) /\ Preserved /\ [StarNext]_starVars
        => Preserved' /\ [NothingForgotten]_starVars
  BY PreservedNext, NothingForgottenStep
<1>2. NothingIsForgotten <=> [][NothingForgotten]_starVars
  <2>1. NothingForgotten
          <=> (intact' => /\ Covers(kept', kept)
                          /\ stage' \notin {"down", "restore"} => Covers(systemsStat', kept'))
    BY DEF NothingForgotten
  <2> QED BY <2>1, PTL DEF NothingIsForgotten
<1> QED BY <1>1, <1>2, StarInvariant, PreservedInit, PTL DEF StarSpec
=============================================================================
