--------------------------- MODULE EDSMConnector ---------------------------
(* The connector to the EDSM web service (src/edsm/edsmapi.go): each request *)
(* is a goroutine that looks into a shared cache under a read lock, decides  *)
(* after the lock is released whether it may ask EDSM, asks, and enters the  *)
(* answer into the cache. Locked sections are single steps.                  *)
EXTENDS Integers, FiniteSets, SequencesExt

CONSTANTS
  Requests,        \* goroutines that answer a request for a system
  Names,           \* normalized names of systems
  maxConnections,  \* what NewEDSMConnector is asked for
  Expiry,          \* ticks after which a cached system is expired (an hour)
  FetchTimeout,    \* ticks after which the HTTP client gives up (20 seconds)
  MaxTime,         \* model bound: ticks
  None             \* model value: nothing cached, nothing answered

max_concurrent_edsm_requests == 10

ASSUME EDSMAssumption ==
  /\ IsFiniteSet(Requests)
  /\ maxConnections \in Int
  /\ Expiry \in Nat \ {0} /\ FetchTimeout \in Nat \ {0} /\ MaxTime \in Nat
  /\ None \notin Nat \cup Names

\* NewEDSMConnector.
maxRequests ==
  IF maxConnections < 1 THEN 1
  ELSE IF maxConnections > max_concurrent_edsm_requests THEN max_concurrent_edsm_requests
  ELSE maxConnections

VARIABLES
  now,            \* the clock
  systemsCache,   \* name -> [asOf, timestamp], or None
  aliveRequests,
  pc,             \* where each request is in GetSystemInfo
  name,           \* the normalized name it asks for
  here,           \* the entry it saw, or None
  mayAskEDSM,     \* whether it saw a free slot
  started,        \* when it began to ask EDSM
  data            \* the answer: when EDSM read it, or None

locals == <<name, here, mayAskEDSM, started, data>>
vars == <<now, systemsCache, aliveRequests, pc, locals>>

Outcomes == {"cached", "expired", "busy", "failed", "inconsistent", "fetched"}
Places == {"idle", "look", "decide", "inc", "fetch", "dec failed", "dec", "store"} \cup Outcomes

Time == 0 .. MaxTime

TypeOK ==
  /\ now \in Time
  /\ systemsCache \in [Names -> [asOf : Time, timestamp : Time] \cup {None}]
  /\ aliveRequests \in Nat
  /\ pc \in [Requests -> Places]
  /\ name \in [Requests -> Names \cup {None}]
  /\ here \in [Requests -> [asOf : Time, timestamp : Time] \cup {None}]
  /\ mayAskEDSM \in [Requests -> BOOLEAN]
  /\ started \in [Requests -> Time]
  /\ data \in [Requests -> Time \cup {None}]

Init ==
  /\ now = 0
  /\ systemsCache = [n \in Names |-> None]
  /\ aliveRequests = 0
  /\ pc = [r \in Requests |-> "idle"]
  /\ name = [r \in Requests |-> None]
  /\ here = [r \in Requests |-> None]
  /\ mayAskEDSM = [r \in Requests |-> FALSE]
  /\ started = [r \in Requests |-> 0]
  /\ data = [r \in Requests |-> None]

At(r, place) == pc[r] = place
Goto(r, place) == pc' = [pc EXCEPT ![r] = place]

-----------------------------------------------------------------------------

\* SystemSummaryByName starts the goroutine ...
Ask(r, n) ==
  /\ At(r, "idle") /\ Goto(r, "look")
  /\ name' = [name EXCEPT ![r] = n]
  /\ UNCHANGED <<now, systemsCache, aliveRequests, here, mayAskEDSM, started, data>>

\* ... and hands on what it replies.
Return(r) ==
  /\ pc[r] \in Outcomes /\ Goto(r, "idle")
  /\ name' = [name EXCEPT ![r] = None]
  /\ here' = [here EXCEPT ![r] = None]
  /\ mayAskEDSM' = [mayAskEDSM EXCEPT ![r] = FALSE]
  /\ started' = [started EXCEPT ![r] = 0]
  /\ data' = [data EXCEPT ![r] = None]
  /\ UNCHANGED <<now, systemsCache, aliveRequests>>

\* The section under the read lock.
Look(r) ==
  /\ At(r, "look") /\ Goto(r, "decide")
  /\ here' = [here EXCEPT ![r] = systemsCache[name[r]]]
  /\ mayAskEDSM' = [mayAskEDSM EXCEPT ![r] = aliveRequests < maxRequests]
  /\ UNCHANGED <<now, systemsCache, aliveRequests, name, started, data>>

\* A mutant of IsFresh: an entry is fresh a tick longer.
IsFreshOrJustExpired(entry) == entry # None /\ now - entry.timestamp <= Expiry

IsFresh(entry) == entry # None /\ now - entry.timestamp < Expiry

\* A mutant of ReplyFromCache: an expired system is no reply.
ReplyOnlyFresh(r) ==
  /\ At(r, "decide") /\ here[r] # None
  /\ IsFresh(here[r]) /\ Goto(r, "cached")
  /\ data' = [data EXCEPT ![r] = here[r].asOf]
  /\ UNCHANGED <<now, systemsCache, aliveRequests, name, here, mayAskEDSM, started>>

\* A system in the cache is the reply while it is fresh, and also later when
\* no slot was free.
ReplyFromCache(r) ==
  /\ At(r, "decide") /\ here[r] # None
  /\ \/ IsFresh(here[r]) /\ Goto(r, "cached")
     \/ ~IsFresh(here[r]) /\ ~mayAskEDSM[r] /\ Goto(r, "expired")
  /\ data' = [data EXCEPT ![r] = here[r].asOf]
  /\ UNCHANGED <<now, systemsCache, aliveRequests, name, here, mayAskEDSM, started>>

ReplyBusy(r) ==
  /\ At(r, "decide") /\ here[r] = None /\ ~mayAskEDSM[r]
  /\ Goto(r, "busy")
  /\ UNCHANGED <<now, systemsCache, aliveRequests, locals>>

AskEDSM(r) ==
  /\ At(r, "decide") /\ mayAskEDSM[r] /\ ~IsFresh(here[r])
  /\ Goto(r, "inc")
  /\ UNCHANGED <<now, systemsCache, aliveRequests, locals>>

-----------------------------------------------------------------------------

\* A mutant of incAliveRequestsCount: no slot is taken.
incForgotten(r) ==
  /\ At(r, "inc") /\ Goto(r, "fetch")
  /\ started' = [started EXCEPT ![r] = now]
  /\ UNCHANGED <<now, systemsCache, aliveRequests, name, here, mayAskEDSM, data>>

incAliveRequestsCount(r) ==
  /\ At(r, "inc") /\ Goto(r, "fetch")
  /\ aliveRequests' = aliveRequests + 1
  /\ started' = [started EXCEPT ![r] = now]
  /\ UNCHANGED <<now, systemsCache, name, here, mayAskEDSM, data>>

\* EDSM reads the system's record; its answer is on the way.
EDSMReads(r) ==
  /\ At(r, "fetch") /\ data[r] = None
  /\ data' = [data EXCEPT ![r] = now]
  /\ UNCHANGED <<now, systemsCache, aliveRequests, pc, name, here, mayAskEDSM, started>>

\* The answer arrives, about a system of this name, or without a name.
FetchAnswers(r, found) ==
  /\ At(r, "fetch") /\ data[r] # None /\ Goto(r, "dec")
  /\ name' = [name EXCEPT ![r] = found]
  /\ UNCHANGED <<now, systemsCache, aliveRequests, here, mayAskEDSM, started, data>>

\* No answer, an answer too late, too short or not JSON.
FetchFails(r) ==
  /\ At(r, "fetch") /\ Goto(r, "dec failed")
  /\ UNCHANGED <<now, systemsCache, aliveRequests, locals>>

\* A mutant of decAliveRequestsCount: a slot is given back after success only.
decAfterSuccess(r) ==
  /\ \/ At(r, "dec") /\ Goto(r, "store") /\ aliveRequests' = aliveRequests - 1
     \/ At(r, "dec failed") /\ Goto(r, "failed") /\ UNCHANGED aliveRequests
  /\ UNCHANGED <<now, systemsCache, locals>>

decAliveRequestsCount(r) ==
  /\ \/ At(r, "dec") /\ Goto(r, "store")
     \/ At(r, "dec failed") /\ Goto(r, "failed")
  /\ aliveRequests' = aliveRequests - 1
  /\ UNCHANGED <<now, systemsCache, locals>>

\* A mutant of Store: an entry that is there already gets a new timestamp only.
StoreRenewsTimestamp(r) ==
  /\ At(r, "store")
  /\ \/ /\ name[r] # None /\ Goto(r, "fetched")
        /\ systemsCache' =
             [systemsCache EXCEPT ![name[r]] =
                [asOf |-> IF @ = None THEN data[r] ELSE @.asOf, timestamp |-> now]]
     \/ /\ name[r] = None /\ Goto(r, "inconsistent")
        /\ UNCHANGED systemsCache
  /\ UNCHANGED <<now, aliveRequests, locals>>

\* The answer is kept under its own name, which need not be the one asked for.
Store(r) ==
  /\ At(r, "store")
  /\ \/ /\ name[r] # None /\ Goto(r, "fetched")
        /\ systemsCache' =
             [systemsCache EXCEPT ![name[r]] = [asOf |-> data[r], timestamp |-> now]]
     \/ /\ name[r] = None /\ Goto(r, "inconsistent")
        /\ UNCHANGED systemsCache
  /\ UNCHANGED <<now, aliveRequests, locals>>

GetSystemInfo(r) ==
  \/ Look(r) \/ ReplyFromCache(r) \/ ReplyBusy(r) \/ AskEDSM(r)
  \/ incAliveRequestsCount(r) \/ decAliveRequestsCount(r) \/ Store(r)

fetchSystem(r) ==
  \/ EDSMReads(r) \/ FetchFails(r)
  \/ \E found \in Names \cup {None} : FetchAnswers(r, found)

\* Only waiting for EDSM takes time, and no longer than the client's timeout.
Tick ==
  /\ now < MaxTime
  /\ \A r \in Requests :
       \/ At(r, "idle")
       \/ At(r, "fetch") /\ now < started[r] + FetchTimeout
  /\ now' = now + 1
  /\ UNCHANGED <<systemsCache, aliveRequests, pc, locals>>

Next ==
  \/ \E r \in Requests :
       \/ \E n \in Names : Ask(r, n)
       \/ GetSystemInfo(r) \/ fetchSystem(r) \/ Return(r)
  \/ Tick

Spec == Init /\ [][Next]_vars

\* Goroutines run, and the HTTP client's timeout ends every fetch.
FairSpec ==
  /\ Spec
  /\ \A r \in Requests :
       WF_vars(GetSystemInfo(r)) /\ WF_vars(FetchFails(r)) /\ WF_vars(Return(r))

-----------------------------------------------------------------------------

Asking == {r \in Requests : pc[r] \in {"fetch", "dec", "dec failed"}}

(* A slot is held by each request that is asking EDSM and by no other, so   *)
(* that slots neither leak nor are given back twice, whatever the outcome   *)
(* (edsmapi.go:218-220).                                                    *)
SlotsAreCounted == aliveRequests = Cardinality(Asking)

(* What is cached was true at EDSM at most one timeout before it was cached, *)
(* also when the answers to several requests for a system overtake one      *)
(* another (edsmapi.go:218-231).                                            *)
CacheIsRecent ==
  \A n \in Names : systemsCache[n] # None =>
    systemsCache[n].timestamp - systemsCache[n].asOf \in 0 .. FetchTimeout

(* A reply that is neither an error nor an expired system was true at EDSM  *)
(* less than an hour and one timeout ago (edsmapi.go:194-231).              *)
RepliesAreRecent ==
  \A r \in Requests :
    pc[r] \in {"cached", "fetched"} => now - data[r] < Expiry + FetchTimeout

(* There are never more requests to EDSM than slots (edsmapi.go:63 and 85   *)
(* name and cap the number of concurrent requests).                         *)
SlotsAreRespected == aliveRequests <= maxRequests

(* Every request is replied to.                                             *)
RequestsAreAnswered == \A r \in Requests : pc[r] # "idle" ~> pc[r] = "idle"
=============================================================================
