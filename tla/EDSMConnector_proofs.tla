------------------------ MODULE EDSMConnector_proofs ------------------------
(* Theorems about EDSMConnector, for any finite set of requests, any names, *)
(* number of slots, expiry and timeout.                                     *)
EXTENDS EDSMConnector, TLAPS, FiniteSetTheorems

Counted == pc \in [Requests -> Places] /\ aliveRequests \in Int /\ SlotsAreCounted

LEMMA AskingIsFinite == IsFiniteSet(Asking) /\ Cardinality(Asking) \in Nat
<1>1. Asking \subseteq Requests
  BY DEF Asking
<1> QED BY <1>1, EDSMAssumption, FS_Subset, FS_CardinalityType

(* Moving a request without taking or giving back a slot.                    *)
LEMMA CountedMove ==
  ASSUME Counted, NEW r \in Requests, NEW place \in Places, Goto(r, place),
         aliveRequests' = aliveRequests,
         pc[r] \in {"fetch", "dec", "dec failed"}
           <=> place \in {"fetch", "dec", "dec failed"}
  PROVE  Counted'
<1>1. pc' \in [Requests -> Places] /\ pc'[r] = place
      /\ \A q \in Requests : q # r => pc'[q] = pc[q]
  BY DEF Counted, Goto
<1>2. Asking' = Asking
  BY <1>1 DEF Asking
<1> QED BY <1>1, <1>2 DEF Counted, SlotsAreCounted

LEMMA CountedInc ==
  ASSUME Counted, NEW r \in Requests, incAliveRequestsCount(r)
  PROVE  Counted'
<1>1. /\ pc[r] = "inc" /\ pc' = [pc EXCEPT ![r] = "fetch"]
      /\ aliveRequests' = aliveRequests + 1
  BY DEF incAliveRequestsCount, At, Goto
<1>2. pc' \in [Requests -> Places]
  BY <1>1 DEF Counted, Places, Outcomes
<1>3. Asking' = Asking \cup {r} /\ r \notin Asking
  BY <1>1 DEF Counted, Asking
<1>4. Cardinality(Asking') = Cardinality(Asking) + 1
  BY <1>3, AskingIsFinite, FS_AddElement
<1> QED BY <1>1, <1>2, <1>4, AskingIsFinite DEF Counted, SlotsAreCounted

LEMMA CountedDec ==
  ASSUME Counted, NEW r \in Requests, decAliveRequestsCount(r)
  PROVE  Counted'
<1>1. PICK place \in {"store", "failed"} : pc' = [pc EXCEPT ![r] = place]
  BY DEF decAliveRequestsCount, Goto
<1>2. pc[r] \in {"dec", "dec failed"} /\ aliveRequests' = aliveRequests - 1
  BY DEF decAliveRequestsCount, At
<1>3. pc' \in [Requests -> Places]
  BY <1>1 DEF Counted, Places, Outcomes
<1>4. Asking' = Asking \ {r} /\ r \in Asking
  BY <1>1, <1>2 DEF Counted, Asking
<1>5. Cardinality(Asking') = Cardinality(Asking) - 1
  BY <1>4, AskingIsFinite, FS_RemoveElement
<1>6. aliveRequests \in Int /\ aliveRequests = Cardinality(Asking)
  BY DEF Counted, SlotsAreCounted
<1>7. aliveRequests' = aliveRequests - 1
  BY <1>2
<1>8. aliveRequests' \in Int /\ aliveRequests' = Cardinality(Asking')
  BY <1>5, <1>6, <1>7
<1> QED BY <1>3, <1>8 DEF Counted, SlotsAreCounted

LEMMA CountedNext ==
  ASSUME Counted, [Next]_vars
  PROVE  Counted'
<1>1. ASSUME NEW r \in Requests, NEW n \in Names, Ask(r, n) PROVE Counted'
  BY <1>1, CountedMove DEF Ask, At, Places, Outcomes
<1>2. ASSUME NEW r \in Requests, GetSystemInfo(r) PROVE Counted'
  <2>1. CASE Look(r)
    BY <2>1, CountedMove DEF Look, At, Places, Outcomes
  <2>2. CASE ReplyFromCache(r)
    BY <2>2, CountedMove DEF ReplyFromCache, At, Places, Outcomes
  <2>3. CASE ReplyBusy(r)
    BY <2>3, CountedMove DEF ReplyBusy, At, Places, Outcomes
  <2>4. CASE AskEDSM(r)
    BY <2>4, CountedMove DEF AskEDSM, At, Places, Outcomes
  <2>5. CASE incAliveRequestsCount(r)
    BY <2>5, CountedInc
  <2>6. CASE decAliveRequestsCount(r)
    BY <2>6, CountedDec
  <2>7. CASE Store(r)
    BY <2>7, CountedMove DEF Store, At, Places, Outcomes
  <2> QED BY <1>2, <2>1, <2>2, <2>3, <2>4, <2>5, <2>6, <2>7 DEF GetSystemInfo
<1>3. ASSUME NEW r \in Requests, fetchSystem(r) PROVE Counted'
  <2>1. CASE EDSMReads(r)
    BY <2>1 DEF EDSMReads, Counted, SlotsAreCounted, Asking
  <2>2. CASE FetchFails(r)
    BY <2>2, CountedMove DEF FetchFails, At, Places, Outcomes
  <2>3. CASE \E found \in Names \cup {None} : FetchAnswers(r, found)
    BY <2>3, CountedMove DEF FetchAnswers, At, Places, Outcomes
  <2> QED BY <1>3, <2>1, <2>2, <2>3 DEF fetchSystem
<1>4. ASSUME NEW r \in Requests, Return(r) PROVE Counted'
  BY <1>4, CountedMove DEF Return, Places, Outcomes
<1>5. CASE Tick \/ UNCHANGED vars
  BY <1>5 DEF Tick, vars, Counted, SlotsAreCounted, Asking
<1> QED BY <1>1, <1>2, <1>3, <1>4, <1>5 DEF Next

(* No outcome of a request leaks a slot or gives one back twice              *)
(* (edsmapi.go:218-220 and 242-251).                                         *)
THEOREM NoSlotIsLost == Spec => []SlotsAreCounted
<1>1. Init => Counted
  <2> SUFFICES ASSUME Init PROVE Counted
    OBVIOUS
  <2>1. pc = [r \in Requests |-> "idle"] /\ aliveRequests = 0
    BY DEF Init
  <2>2. Asking = {}
    BY <2>1 DEF Asking
  <2> QED BY <2>1, <2>2, FS_EmptySet DEF Counted, SlotsAreCounted, Places
<1>2. Counted => SlotsAreCounted
  BY DEF Counted
<1>3. Counted /\ [Next]_vars => Counted'
  BY CountedNext
<1> QED BY <1>1, <1>2, <1>3, PTL DEF Spec

-----------------------------------------------------------------------------

(* How old data can be in each place: an entry of the cache was read at EDSM *)
(* at most one timeout before it was stored; a request that asks began to do *)
(* so at most one timeout ago, and read the answer after that.               *)
Aged(entry) ==
  entry # None
    => /\ entry.asOf \in Int /\ entry.timestamp \in Int
       /\ entry.asOf <= entry.timestamp /\ entry.timestamp <= now
       /\ entry.timestamp - entry.asOf <= FetchTimeout

RecentAt(r) ==
  /\ pc[r] = "decide" => Aged(here[r])
  /\ pc[r] = "look" => name[r] \in Names
  /\ pc[r] \in {"idle", "look", "decide", "inc"} => data[r] = None
  /\ pc[r] = "fetch" =>
       /\ started[r] \in Int /\ started[r] <= now /\ now <= started[r] + FetchTimeout
       /\ data[r] # None => data[r] \in Int /\ started[r] <= data[r] /\ data[r] <= now
  /\ pc[r] \in {"dec", "store", "fetched"} =>
       data[r] \in Int /\ data[r] <= now /\ now - data[r] <= FetchTimeout
  /\ pc[r] = "cached" =>
       data[r] \in Int /\ now - data[r] < Expiry + FetchTimeout

Recent ==
  /\ now \in Int
  /\ pc \in [Requests -> Places]
  /\ name \in [Requests -> Names \cup {None}]
  /\ DOMAIN systemsCache = Names /\ DOMAIN here = Requests
  /\ DOMAIN started = Requests /\ DOMAIN data = Requests
  /\ \A n \in Names : Aged(systemsCache[n])
  /\ \A r \in Requests : RecentAt(r)

LEMMA RecentInit == Init => Recent
BY EDSMAssumption DEF Init, Recent, RecentAt, Aged, Places

LEMMA RecentStep ==
  ASSUME Recent, NEW r \in Requests,
         (\E n \in Names : Ask(r, n)) \/ GetSystemInfo(r) \/ fetchSystem(r) \/ Return(r)
  PROVE  Recent'
<1>a. /\ Expiry \in Nat \ {0} /\ FetchTimeout \in Nat \ {0} /\ None \notin Nat
  BY EDSMAssumption
\* A step of one request leaves what is known of the others alone.
<1>o. ASSUME now' = now, UNCHANGED systemsCache,
             NEW place \in Places, pc' = [pc EXCEPT ![r] = place],
             name' \in [Requests -> Names \cup {None}],
             DOMAIN here' = Requests, DOMAIN started' = Requests, DOMAIN data' = Requests,
             \A q \in Requests : q # r =>
               /\ name'[q] = name[q] /\ here'[q] = here[q]
               /\ started'[q] = started[q] /\ data'[q] = data[q],
             RecentAt(r)'
      PROVE  Recent'
  <2>1. pc' \in [Requests -> Places] /\ \A q \in Requests : q # r => pc'[q] = pc[q]
    BY <1>o DEF Recent
  <2>2. \A q \in Requests : q # r => RecentAt(q)'
    BY <1>o, <2>1 DEF Recent, RecentAt, Aged
  <2>3. \A n \in Names : Aged(systemsCache[n])'
    BY <1>o DEF Recent, Aged
  <2> QED BY <1>o, <2>1, <2>2, <2>3 DEF Recent
<1>1. CASE \E n \in Names : Ask(r, n)
  <2>1. PICK n \in Names : Ask(r, n)
    BY <1>1
  <2>2. /\ pc[r] = "idle" /\ pc' = [pc EXCEPT ![r] = "look"]
        /\ name' = [name EXCEPT ![r] = n]
        /\ UNCHANGED <<now, systemsCache, here, started, data>>
    BY <2>1 DEF Ask, At, Goto
  <2>3. pc'[r] = "look" /\ name'[r] = n /\ data'[r] = None
    BY <2>2 DEF Recent, RecentAt
  <2>4. RecentAt(r)'
    BY <2>3 DEF RecentAt
  <2> QED BY <1>o, <2>2, <2>4 DEF Recent, Places
<1>2. CASE Look(r)
  BY <1>2 DEF Look, Recent, RecentAt, Aged, At, Goto, Places, Outcomes
<1>3. CASE ReplyFromCache(r)
  <2>1. /\ pc[r] = "decide" /\ here[r] # None
        /\ data' = [data EXCEPT ![r] = here[r].asOf]
        /\ UNCHANGED <<now, systemsCache, aliveRequests, name, here, mayAskEDSM, started>>
    BY <1>3 DEF ReplyFromCache, At
  <2>2. PICK place \in {"cached", "expired"} :
          /\ pc' = [pc EXCEPT ![r] = place]
          /\ place = "cached" => now - here[r].timestamp < Expiry
    BY <1>3 DEF ReplyFromCache, Goto, IsFresh
  <2>3. /\ here[r].asOf \in Int /\ here[r].timestamp \in Int /\ now \in Int
        /\ here[r].timestamp - here[r].asOf <= FetchTimeout
    BY <2>1 DEF Recent, RecentAt, Aged
  <2>4. place = "cached" => now - here[r].asOf < Expiry + FetchTimeout
    BY <2>2, <2>3, <1>a
  <2> QED BY <2>1, <2>2, <2>3, <2>4 DEF Recent, RecentAt, Aged, Places, Outcomes
<1>4. CASE ReplyBusy(r)
  BY <1>4 DEF ReplyBusy, Recent, RecentAt, Aged, At, Goto, Places, Outcomes, locals
<1>5. CASE AskEDSM(r)
  BY <1>5 DEF AskEDSM, Recent, RecentAt, Aged, At, Goto, Places, Outcomes, locals
<1>6. CASE incAliveRequestsCount(r)
  <2>1. /\ pc[r] = "inc" /\ pc' = [pc EXCEPT ![r] = "fetch"]
        /\ started' = [started EXCEPT ![r] = now]
        /\ UNCHANGED <<now, systemsCache, name, here, data>>
    BY <1>6 DEF incAliveRequestsCount, At, Goto
  <2>2. pc'[r] = "fetch" /\ started'[r] = now /\ data'[r] = None /\ now' = now /\ now \in Int
    BY <2>1 DEF Recent, RecentAt
  <2>3. RecentAt(r)'
    BY <2>2, <1>a DEF RecentAt
  <2> QED BY <1>o, <2>1, <2>3 DEF Recent, Places
<1>7. CASE decAliveRequestsCount(r)
  BY <1>7 DEF decAliveRequestsCount, Recent, RecentAt, Aged, At, Goto, Places, Outcomes, locals
<1>8. CASE Store(r)
  <2>1. /\ pc[r] = "store" /\ UNCHANGED <<now, name, here, started, data>>
        /\ data[r] \in Int /\ data[r] <= now /\ now - data[r] <= FetchTimeout /\ now \in Int
    BY <1>8 DEF Store, At, locals, Recent, RecentAt
  <2>2. PICK place \in {"fetched", "inconsistent"} : pc' = [pc EXCEPT ![r] = place]
    BY <1>8 DEF Store, Goto
  <2>3. /\ pc' \in [Requests -> Places] /\ pc'[r] = place
        /\ \A q \in Requests : q # r => pc'[q] = pc[q]
    BY <2>2 DEF Recent, Places, Outcomes
  <2>4. \/ systemsCache' = systemsCache
        \/ systemsCache' = [systemsCache EXCEPT ![name[r]] = [asOf |-> data[r], timestamp |-> now]]
    BY <1>8 DEF Store
  <2>5. DOMAIN systemsCache' = Names /\ \A n \in Names : Aged(systemsCache[n])'
    BY <2>1, <2>4 DEF Recent, Aged
  <2>6. \A q \in Requests : RecentAt(q)'
    BY <2>1, <2>3 DEF Recent, RecentAt, Aged
  <2> QED BY <2>1, <2>3, <2>5, <2>6 DEF Recent
<1>9. CASE EDSMReads(r)
  <2>1. /\ pc[r] = "fetch" /\ pc' = pc /\ data' = [data EXCEPT ![r] = now]
        /\ UNCHANGED <<now, systemsCache, name, here, started>>
    BY <1>9 DEF EDSMReads, At
  <2>2. pc' = [pc EXCEPT ![r] = "fetch"]
    BY <2>1 DEF Recent
  <2>3. data'[r] = now /\ started'[r] = started[r] /\ pc'[r] = "fetch"
    BY <2>1 DEF Recent
  <2>4. started[r] \in Int /\ started[r] <= now /\ now <= started[r] + FetchTimeout /\ now \in Int
    BY <2>1 DEF Recent, RecentAt
  <2>5. RecentAt(r)'
    BY <2>1, <2>3, <2>4 DEF RecentAt
  <2> QED BY <1>o, <2>1, <2>2, <2>5 DEF Recent, Places
<1>10. CASE FetchFails(r)
  BY <1>10 DEF FetchFails, Recent, RecentAt, Aged, At, Goto, Places, Outcomes, locals
<1>11. CASE \E found \in Names \cup {None} : FetchAnswers(r, found)
  <2>1. PICK found \in Names \cup {None} : FetchAnswers(r, found)
    BY <1>11
  <2>2. /\ pc[r] = "fetch" /\ data[r] # None /\ pc' = [pc EXCEPT ![r] = "dec"]
        /\ name' = [name EXCEPT ![r] = found]
        /\ UNCHANGED <<now, systemsCache, here, started, data>>
    BY <2>1 DEF FetchAnswers, At, Goto
  <2>3. /\ started[r] \in Int /\ now <= started[r] + FetchTimeout /\ now \in Int
        /\ data[r] \in Int /\ started[r] <= data[r] /\ data[r] <= now
    BY <2>2 DEF Recent, RecentAt
  <2>4. pc'[r] = "dec" /\ data'[r] = data[r] /\ now' = now
    BY <2>2 DEF Recent
  <2>5. RecentAt(r)'
    BY <2>3, <2>4, <1>a DEF RecentAt
  <2> QED BY <1>o, <2>2, <2>5 DEF Recent, Places
<1>12. CASE Return(r)
  BY <1>12 DEF Return, Recent, RecentAt, Aged, Goto, Places, Outcomes
<1> QED
  BY <1>1, <1>2, <1>3, <1>4, <1>5, <1>6, <1>7, <1>8, <1>9, <1>10, <1>11, <1>12
  DEF GetSystemInfo, fetchSystem

LEMMA RecentTick ==
  ASSUME Recent, Tick
  PROVE  Recent'
<1>1. FetchTimeout \in Nat \ {0}
  BY EDSMAssumption
<1> QED BY <1>1 DEF Tick, Recent, RecentAt, Aged, At, locals

LEMMA RecentAlways == Spec => []Recent
<1>1. Recent /\ [Next]_vars => Recent'
  <2> SUFFICES ASSUME Recent, [Next]_vars PROVE Recent'
    OBVIOUS
  <2>1. CASE UNCHANGED vars
    BY <2>1 DEF vars, locals, Recent, RecentAt, Aged
  <2> QED BY <2>1, RecentStep, RecentTick DEF Next
<1> QED BY <1>1, RecentInit, PTL DEF Spec

(* A reply was true less than an hour and one timeout ago, however the       *)
(* answers of EDSM to several requests overtake one another                  *)
(* (edsmapi.go:194-231).                                                     *)
THEOREM RepliesStayRecent == Spec => []RepliesAreRecent
<1>1. Recent => RepliesAreRecent
  BY EDSMAssumption DEF Recent, RecentAt, RepliesAreRecent
<1> QED BY <1>1, RecentAlways, PTL

(* What is cached was at most one timeout old when it was cached, although   *)
(* an older answer may overwrite a newer one (edsmapi.go:218-231).           *)
THEOREM CacheStaysRecent == Spec => []CacheIsRecent
<1>1. Recent => CacheIsRecent
  BY EDSMAssumption DEF Recent, CacheIsRecent, Aged
<1> QED BY <1>1, RecentAlways, PTL

-----------------------------------------------------------------------------
(* Types: a request that looks has a name, one that comes back with an       *)
(* answer knows when EDSM read it, and a slot is given back only if one was  *)
(* taken.                                                                    *)

Asked ==
  \A r \in Requests :
    /\ pc[r] = "look" => name[r] # None
    /\ pc[r] \in {"dec", "store"} => data[r] # None

Typed == TypeOK /\ Asked /\ SlotsAreCounted

LEMMA LessIsBoolean ==
  ASSUME NEW m \in Int, NEW n \in Int
  PROVE  (m < n) \in BOOLEAN
OBVIOUS

LEMMA SlotsAreLess ==
  ASSUME Typed
  PROVE  (aliveRequests < maxRequests) \in BOOLEAN
<1>1. maxRequests \in Int
  BY EDSMAssumption DEF maxRequests, max_concurrent_edsm_requests
<1>2. aliveRequests \in Int
  BY DEF Typed, TypeOK
<1> QED
  BY <1>1, <1>2, LessIsBoolean

LEMMA TypedStep ==
  ASSUME Typed, aliveRequests' \in Nat, SlotsAreCounted',
         NEW r \in Requests, GetSystemInfo(r) \/ fetchSystem(r) \/ Return(r)
                             \/ \E n \in Names : Ask(r, n)
  PROVE  Typed'
<1>1. 0 \in Time /\ None \notin Time
  BY EDSMAssumption DEF Time
<1> USE DEF Typed, TypeOK, Asked, At, Goto, Places, Outcomes, locals
<1>2. CASE \E n \in Names : Ask(r, n)
  <2>1. PICK n \in Names : Ask(r, n)
    BY <1>2
  <2>2. n # None
    BY EDSMAssumption
  <2>3. pc' \in [Requests -> Places] /\ name' \in [Requests -> Names \cup {None}]
    BY <2>1 DEF Ask
  <2> QED
    BY <2>1, <2>2, <2>3 DEF Ask
<1>3. CASE Return(r)
  BY <1>1, <1>3 DEF Return
<1>4. CASE Look(r)
  <2>1. name[r] \in Names
    BY <1>4 DEF Look
  <2>2. here' \in [Requests -> [asOf : Time, timestamp : Time] \cup {None}]
    BY <1>4, <2>1 DEF Look
  <2>3. (aliveRequests < maxRequests) \in BOOLEAN
    BY SlotsAreLess
  <2>4. mayAskEDSM' \in [Requests -> BOOLEAN]
    BY <1>4, <2>3 DEF Look
  <2>5. pc' \in [Requests -> Places]
    BY <1>4 DEF Look
  <2> QED
    BY <1>4, <2>2, <2>4, <2>5 DEF Look
<1>5. CASE ReplyFromCache(r)
  BY <1>1, <1>5 DEF ReplyFromCache
<1>6. CASE ReplyBusy(r) \/ AskEDSM(r)
  BY <1>1, <1>6 DEF ReplyBusy, AskEDSM
<1>7. CASE incAliveRequestsCount(r) \/ decAliveRequestsCount(r)
  BY <1>1, <1>7 DEF incAliveRequestsCount, decAliveRequestsCount
<1>8. CASE Store(r)
  <2>1. data[r] \in Time
    BY <1>8 DEF Store
  <2>2. systemsCache' \in [Names -> [asOf : Time, timestamp : Time] \cup {None}]
    <3>1. CASE UNCHANGED systemsCache
      BY <3>1
    <3>2. CASE name[r] # None
      <4>1. PICK entry : entry = [asOf |-> data[r], timestamp |-> now]
        OBVIOUS
      <4>2. entry \in [asOf : Time, timestamp : Time] /\ name[r] \in Names
        BY <2>1, <3>2, <4>1
      <4>3. systemsCache' = [systemsCache EXCEPT ![name[r]] = entry]
        BY <1>8, <3>2, <4>1 DEF Store
      <4> QED
        BY <4>2, <4>3
    <3> QED
      BY <1>8, <3>1, <3>2 DEF Store
  <2>3. /\ pc' \in [Requests -> Places] /\ pc'[r] \in {"fetched", "inconsistent"}
        /\ \A q \in Requests : q # r => pc'[q] = pc[q]
        /\ UNCHANGED <<now, aliveRequests, name, here, mayAskEDSM, started, data>>
    BY <1>8 DEF Store
  <2>4. TypeOK'
    BY <2>2, <2>3
  <2>5. Asked'
    BY <2>3
  <2> QED
    BY <2>4, <2>5
<1>9. CASE EDSMReads(r) \/ FetchFails(r)
  BY <1>1, <1>9 DEF EDSMReads, FetchFails
<1>10. CASE \E found \in Names \cup {None} : FetchAnswers(r, found)
  <2>1. PICK found \in Names \cup {None} : FetchAnswers(r, found)
    BY <1>10
  <2>2. pc' \in [Requests -> Places] /\ name' \in [Requests -> Names \cup {None}]
    BY <2>1 DEF FetchAnswers
  <2> QED
    BY <2>1, <2>2 DEF FetchAnswers
<1> QED
  BY <1>2, <1>3, <1>4, <1>5, <1>6, <1>7, <1>8, <1>9, <1>10 DEF GetSystemInfo, fetchSystem

(* Whatever the answers of EDSM, the connector keeps and replies only what   *)
(* EDSM read at a known time, and no slot is given back that was not taken   *)
(* (edsmapi.go:190-251).                                                     *)
THEOREM EDSMTypes == Spec => []TypeOK
<1>1. Init => Typed /\ Counted
  <2> SUFFICES ASSUME Init PROVE Typed /\ Counted
    OBVIOUS
  <2>1. Asking = {}
    BY DEF Init, Asking
  <2>2. SlotsAreCounted
    BY <2>1, FS_EmptySet DEF Init, SlotsAreCounted
  <2> QED
    BY <2>2, EDSMAssumption DEF Init, Typed, TypeOK, Asked, Counted, Places, Time
<1>2. Typed /\ Counted /\ [Next]_vars => (Typed /\ Counted)'
  <2> SUFFICES ASSUME Typed, Counted, [Next]_vars PROVE Typed' /\ Counted'
    OBVIOUS
  <2>1. Counted'
    BY CountedNext
  <2>2. (IsFiniteSet(Asking) /\ Cardinality(Asking) \in Nat)'
    <3>1. Asking' \subseteq Requests
      BY DEF Asking
    <3> QED
      BY <3>1, EDSMAssumption, FS_Subset, FS_CardinalityType
  <2>3. SlotsAreCounted' /\ aliveRequests' \in Nat
    BY <2>1, <2>2 DEF Counted, SlotsAreCounted
  <2>4. CASE UNCHANGED vars
    BY <2>1, <2>3, <2>4 DEF vars, locals, Typed, TypeOK, Asked
  <2>5. CASE Tick
    <3>1. now' \in Time
      BY <2>5, EDSMAssumption DEF Tick, Typed, TypeOK, Time
    <3> QED
      BY <2>1, <2>3, <2>5, <3>1 DEF Tick, locals, Typed, TypeOK, Asked
  <2> QED
    BY <2>1, <2>3, <2>4, <2>5, TypedStep DEF Next
<1>3. Typed => TypeOK
  BY DEF Typed
<1> QED
  BY <1>1, <1>2, <1>3, PTL DEF Spec
=============================================================================
