------------------------------- MODULE Talker -------------------------------
(* The talker of the bot, src/cyborg/talker.go, its life in cyborg.go, and  *)
(* the client of the galaxy information server, src/edgic/ediclient.go:     *)
(* discordgo calls onMessageCreate in a goroutine of its own for every      *)
(* message, two workers take them from an unbuffered channel and answer,    *)
(* and each question is one call to the server.                             *)
EXTENDS GIServer

CONSTANTS
  Workers,         \* the goroutines of start: clients of the server
  Messages,        \* what users write to the bot
  IgnoredSystems,  \* names that chkSystemName refuses
  OtherCalls       \* calls of the clients that are not workers

ASSUME TalkerAssumption ==
  /\ Workers \subseteq Clients
  /\ \A m \in Messages :
       /\ m.command \in {"system", "distance", "stations", "stat", "popular", "activity",
                         "help", "operator", "other"}
       /\ m.names \in Seq(Names)
  /\ IgnoredSystems \subseteq Names
  /\ \A c \in OtherCalls : IsCall(c)

VARIABLES
  bot,    \* the life of the bot
  worker  \* the workers

botVars == <<bot, worker>>
talkerVars == <<giVars, botVars>>

-----------------------------------------------------------------------------
(* Messages: a command and the names it gives, none or too many of them if  *)
(* it is not understood.                                                    *)

\* "popular" and "activity" take a place; of several the first in this order counts.
findPopularSystemParam(places, name) ==
  IF places \cap {"in the bubble", "in the galaxy"} # {} THEN <<"Sol">>
  ELSE IF "at colonia" \in places THEN <<"Colonia">>
  ELSE IF places \cap {"near", "inside"} # {} THEN <<name>>
  ELSE <<>>

(* A handler of questions: what it asks of the server, and of how many      *)
(* systems. "stat" takes no system, and of other categories than "humans"   *)
(* the bot says itself that it cannot tell; those are names in the model.   *)
handleSystemRequest == [method |-> "GetSystemSummary", takes |-> 1]
handleDistanceRequest == [method |-> "GetDistance", takes |-> 2]
handleStationsRequest == [method |-> "GetDockableStations", takes |-> 1]
handleStatRequest == [method |-> "GetHumanWorldStat", takes |-> 0]
handlePopularSystemsRequest == [method |-> "GetMostVisitedSystems", takes |-> 1]
handleActivityRequest == [method |-> "GetGalaxyActivityStat", takes |-> 1]

handleIncomingMessage ==
  [system |-> handleSystemRequest, distance |-> handleDistanceRequest,
   stations |-> handleStationsRequest, stat |-> handleStatRequest,
   popular |-> handlePopularSystemsRequest, activity |-> handleActivityRequest]

chkSystemName(name) == name \notin IgnoredSystems

\* The message is a question for the server.
IsQuestion(m) ==
  /\ m.command \in DOMAIN handleIncomingMessage
  /\ Len(m.names) = handleIncomingMessage[m.command].takes
  /\ \A i \in DOMAIN m.names : chkSystemName(m.names[i])

CallOf(m) == [method |-> handleIncomingMessage[m.command].method, names |-> m.names]

\* Texts: replies of the server, and what the bot itself says.
Malfunction == [error |-> "malfunction"]
NoMention == [error |-> "no mention"]
NotEnoughData == [error |-> "not enough data"]
OwnText == [error |-> "own text"]
NoText == NoReply

\* The client's GetMostVisitedSystems and GetGalaxyActivityStat do not look at the
\* error of a reply, and find nothing in it.
TotalOf(reply) == IF reply.error = "none" THEN reply.total ELSE 0

\* What is said for a reply: its value or its error, which the other methods of the
\* client pass on.
Text(m, reply) ==
  CASE m.command = "popular" -> IF TotalOf(reply) = 0 THEN NoMention ELSE reply
    [] m.command = "activity" -> IF TotalOf(reply) < 2 THEN NotEnoughData ELSE reply
    [] OTHER -> reply

NoMessage == [command |-> "none", names |-> <<>>]
Idle(place) == [at |-> place, message |-> NoMessage, text |-> NoText]

TalkerInit ==
  /\ GIInit
  /\ bot = "opening"
  /\ worker = [w \in Workers |-> Idle("starting")]

-----------------------------------------------------------------------------
(* The bot: Connect, Close and what discordgo delivers.                     *)

\* Connect: the workers start when the session is open and messages may come.
start ==
  /\ bot = "opening" /\ bot' = "open"
  /\ worker' = [w \in Workers |-> Idle("receive")]
  /\ UNCHANGED giVars

\* A message is handed to a worker that waits for one; if none does the user is told
\* that the bot is busy, and nothing changes.
onMessageCreate(w, m) ==
  /\ bot = "open" /\ worker[w].at = "receive"
  /\ worker' = [worker EXCEPT ![w] = [Idle("handle") EXCEPT !.message = m]]
  /\ UNCHANGED <<giVars, bot>>

\* Close: the channel is closed before the session is.
close ==
  /\ bot = "open" /\ bot' = "closing"
  /\ UNCHANGED <<giVars, worker>>

\* The session is closed and main returns; or a message comes before that, and its
\* send on the closed channel ends the process.
BotEnds ==
  /\ bot = "closing" /\ bot' = "ended"
  /\ worker' = [w \in Workers |-> Idle("left")]
  /\ Leave(Workers)
  /\ UNCHANGED server

-----------------------------------------------------------------------------
(* The workers: handleIncomingMessages.                                     *)

Step(w, from, to) == worker[w].at = from /\ worker' = [worker EXCEPT ![w].at = to]

Say(w, text) ==
  worker' = [worker EXCEPT ![w].at = "say", ![w].text = text]

handleHelpRequest(w) == worker[w].message.command = "help" /\ Say(w, OwnText)

\* "ls", "say" or anything else that an operator writes to the bot alone.
handleDirectOperatorMessage(w) ==
  worker[w].message.command = "operator" /\ Say(w, OwnText)

\* A question with names too few or too many, or with one that is refused.
Refuse(w) ==
  /\ worker[w].message.command \in DOMAIN handleIncomingMessage
  /\ ~IsQuestion(worker[w].message)
  /\ Say(w, OwnText)

\* Of any other message no notice is taken.
Ignore(w) ==
  /\ worker[w].message.command = "other"
  /\ worker' = [worker EXCEPT ![w] = Idle("receive")]

\* What the bot does without the server.
HandleHere(w) ==
  /\ worker[w].at = "handle"
  /\ handleHelpRequest(w) \/ handleDirectOperatorMessage(w) \/ Refuse(w) \/ Ignore(w)
  /\ UNCHANGED <<giVars, bot>>

Ask(w) ==
  /\ IsQuestion(worker[w].message)
  /\ Step(w, "handle", "call")
  /\ UNCHANGED <<giVars, bot>>

\* callRpc: the server takes the call.
Call(w, h) ==
  /\ Step(w, "call", "waiting")
  /\ Accept(h, w, CallOf(worker[w].message))
  /\ UNCHANGED bot

Answered(w, h) ==
  /\ worker[w].at = "waiting" /\ At(h, "replied") /\ handler[h].client = w
  /\ Say(w, Text(worker[w].message, handler[h].reply))
  /\ handler' = [handler EXCEPT ![h] = Free]
  /\ UNCHANGED <<server, bot>>

\* There is no server, or it ended before it answered.
CallFails(w) ==
  /\ \/ worker[w].at = "call" /\ ~up
     \/ worker[w].at = "waiting" /\ \A h \in Handlers : handler[h].client # w
  /\ Say(w, Malfunction)
  /\ UNCHANGED <<giVars, bot>>

\* What a call of client c may wait for. All else, taking the call included, the server
\* does within a second.
Slow(c) == \E h \in Handlers : handler[h].client = c /\ handler[h].at \in {"edsm", "collector"}

\* A mutant of Deadline: only calls that wait for EDSM have a deadline.
DeadlineForEDSM(w) ==
  /\ Slow(w) /\ \A h \in Handlers : handler[h].client = w => ~At(h, "collector")
  /\ Say(w, Malfunction)
  /\ Leave({w})
  /\ UNCHANGED <<server, bot>>

\* A mutant of Deadline: the call that is given up is still the worker's.
DeadlineWithoutCancel(w) ==
  /\ Slow(w)
  /\ Say(w, Malfunction)
  /\ UNCHANGED <<giVars, bot>>

\* A second has passed since the call.
Deadline(w) ==
  /\ Slow(w)
  /\ Say(w, Malfunction)
  /\ Leave({w})
  /\ UNCHANGED <<server, bot>>

\* SendMessage has returned.
Said(w) ==
  /\ worker[w].at = "say"
  /\ worker' = [worker EXCEPT ![w] = Idle("receive")]
  /\ UNCHANGED <<giVars, bot>>

\* The channel is closed.
Finish(w) ==
  /\ bot = "closing" /\ Step(w, "receive", "left")
  /\ UNCHANGED <<giVars, bot>>

-----------------------------------------------------------------------------
(* Clients other than the bot.                                              *)

OtherClient(c) ==
  /\ c \in Clients \ Workers
  /\ \/ /\ \A h \in Handlers : handler[h].client # c
        /\ \E h \in Handlers, call \in OtherCalls : Accept(h, c, call)
     \/ /\ \E h \in Handlers : handler[h].client = c /\ At(h, "replied")
        /\ Leave({c}) /\ UNCHANGED server
     \/ Slow(c) /\ Leave({c}) /\ UNCHANGED server
  /\ UNCHANGED botVars

-----------------------------------------------------------------------------

WorkerStep(w) ==
  HandleHere(w) \/ Ask(w) \/ CallFails(w) \/ Said(w) \/ Finish(w)
    \/ \E h \in Handlers : Answered(w, h)

TalkerNext ==
  \/ ServerStep /\ UNCHANGED botVars
  \/ start \/ close \/ BotEnds
  \/ \E w \in Workers, m \in Messages : onMessageCreate(w, m)
  \/ \E w \in Workers : WorkerStep(w) \/ Deadline(w) \/ \E h \in Handlers : Call(w, h)
  \/ \E c \in Clients : OtherClient(c)

TalkerSpec == TalkerInit /\ [][TalkerNext]_talkerVars

(* A goroutine that can go on does, the timer of a call fires, Discord      *)
(* takes what is said to it, and the server takes a call in the end. A      *)
(* question to EDSM ends within 20 seconds, and not in a failure for ever.  *)
(* Nothing is assumed of the collector of statistics, nor of when an answer *)
(* of EDSM expires.                                                         *)
TalkerFairSpec ==
  /\ TalkerSpec
  /\ \A w \in Workers :
       /\ WF_talkerVars(WorkerStep(w) \/ Deadline(w))
       /\ SF_talkerVars(\E h \in Handlers : Call(w, h))
  /\ \A h \in Handlers :
       WF_talkerVars(UNCHANGED botVars /\ (\/ Panic(h) \/ Load(h) \/ Lookup(h) \/ GetSystemInfo(h)
                                          \/ fetchSystem(h) \/ Answer(h)))
  /\ \A n \in DOMAIN EDSMSystems :
       SF_talkerVars(UNCHANGED botVars /\ \E h \in Handlers : EDSMAnswers(h) /\ Name(h) = n)

-----------------------------------------------------------------------------
(* Properties.                                                              *)

Busy == {"handle", "call", "waiting", "say"}

\* Types: a worker waits for a reply only to a question (talker.go, ediserver.go).
TalkerTypeOK ==
  /\ GITypeOK
  /\ bot \in {"opening", "open", "closing", "ended"}
  /\ \A w \in Workers :
       /\ worker[w].at \in {"starting", "receive", "left"} \cup Busy
       /\ worker[w].at \in Busy <=> worker[w].message # NoMessage
       /\ worker[w].at = "say" <=> worker[w].text # NoText
       /\ worker[w].at \in {"call", "waiting"} => IsQuestion(worker[w].message)
       /\ \A h \in Handlers :
            handler[h].client = w =>
              worker[w].at = "waiting" /\ handler[h].call = CallOf(worker[w].message)

\* What may be said of a system while the versions vs are served.
SummariesIn(vs, n) ==
  {SystemSummaryByName(Galaxy[v], n) : v \in {v \in vs : IsKnown(Galaxy[v], n)}}
    \cup {s \in EDSMTells(n) : \E v \in vs : ~IsKnown(Galaxy[v], n)}

\* A reply that holds for the versions vs, if the systems in known need not be asked for.
IsTrue(vs, known, call, reply) ==
  LET name == call.names[1]
      There(i) == SummariesIn(vs, call.names[i])
  IN  /\ reply = Unknown =>
           \E i \in DOMAIN call.names, v \in vs :
              call.names[i] \notin known /\ ~IsKnown(Galaxy[v], call.names[i])
      /\ call.method = "GetHumanWorldStat" =>
           \E v \in vs : reply = HumanWorldReply(GetHumanWorldStat(Galaxy[v]))
      /\ call.method = "GetDockableStations" =>
           \E v \in vs :
              IF IsKnown(Galaxy[v], name)
                THEN reply = StationsReply(GetDockableStations(Galaxy[v], name))
                ELSE \E S \in SUBSET DOMAIN Galaxy[v].systemsByName :
                       reply = NotHabitable(S) /\ name \notin S
      /\ call.method = "GetSystemSummary" /\ reply # Unknown =>
           \E s \in There(1) : reply = SummaryReply(s)
      /\ call.method = "GetDistance" /\ reply # Unknown =>
           \E s \in There(1), t \in There(2) : reply = DistanceReply(Distance(s.place, t.place))
      /\ call.method = "GetInterestingSystem4State" /\ reply \notin {Unknown, Refused} =>
           \E v \in vs, s \in There(1) :
              \E S \in SUBSET Suitable(Galaxy[v], call.states, s.place, call.minPop, call.maxDistance) :
                 reply = SystemsReply(S)

(* Every reply holds for snapshots that were served while the call was      *)
(* handled: none is of an older one, what EDDB tells of a system comes      *)
(* before what EDSM tells, and a system is not known only if a snapshot     *)
(* lacked it and the connector did not hold one answer about it that was    *)
(* less than an hour old from the call to the reply (ediserver.go:58-75,    *)
(* 161-258, edsmapi.go:190-237).                                            *)
RepliesAreCurrent ==
  \A h \in Handlers :
    At(h, "replied") =>
      IsTrue((handler[h].since .. eddbInfo) \ {NoData}, handler[h].knew,
             handler[h].call, handler[h].reply)

(* What a worker says is true of the message it answers, though the other   *)
(* worker's call, calls given up and calls of clients before it are         *)
(* answered at the same time (ediclient.go:24-44, talker.go:295-590).       *)
AnswersFitMessages ==
  \A w \in Workers :
    worker[w].at = "say" /\ worker[w].text \notin {OwnText, Malfunction} =>
      /\ IsQuestion(worker[w].message)
      /\ IsTrue(1 .. files, {}, CallOf(worker[w].message), worker[w].text)

(* Every message that is taken is done with and the worker takes another,   *)
(* though the collector never answers, EDSM takes its time and the server   *)
(* ends in the middle of a call (ediclient.go:39, talker.go:73-84).         *)
MessagesAreAnswered ==
  \A w \in Workers : worker[w].at \in Busy ~> worker[w].at \in {"receive", "left"}

\* A question of m waits for EDSM, or was given up while it did.
IsAtEDSM(m) == \E h \in Handlers : At(h, "edsm") /\ handler[h].call = CallOf(m)

\* A question of m that a worker waits for comes to the connector within the hour.
ComesInTime(m) ==
  \E h \in Handlers :
    /\ At(h, "connector") /\ IsFresh(Name(h))
    /\ handler[h].client \in Workers /\ handler[h].call = CallOf(m)

IsTold(m) ==
  \E w \in Workers : worker[w].message = m /\ worker[w].at = "say" /\ worker[w].text.error = "none"

(* An answer of EDSM that comes too late for the user who asked is kept for *)
(* his next question, however short the second of the client is for EDSM    *)
(* (ediclient.go:39, edsmapi.go:218-233): he is told in the end, if EDSM    *)
(* gives the system the name he asks for, if his question gets to EDSM and  *)
(* not only to taken slots, and if he asks again before the answer is an    *)
(* hour old, each again and again. The server stays up, and the hour does   *)
(* not end between a question and the look into the cache.                  *)
RetriesSucceed ==
  \A m \in {m \in Messages : m.command = "system" /\ IsQuestion(m)} :
    \A n \in {n \in DOMAIN EDSMSystems : n = m.names[1] /\ EDSMName[n] = n} :
      (/\ <>[](up /\ eddbInfo # NoData)
       /\ []<>IsAtEDSM(m)
       /\ ([]<>IsFresh(n) => []<>ComesInTime(m))
       /\ <>[][ComesInTime(m) => ~Expire(n)]_talkerVars)
         => []<>IsTold(m)
=============================================================================
