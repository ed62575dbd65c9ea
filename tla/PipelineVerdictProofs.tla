----------------------- MODULE PipelineVerdictProofs -----------------------
(***************************************************************************)
(* Theorems about Pipeline: what it means that a step fails, or does not.  *)
(***************************************************************************)
EXTENDS PipelineProofs

-----------------------------------------------------------------------------
(* What else the scripts have in common: which places their calls poll.    *)

Polls(asked, places) ==
    /\ ~asked.once /\ DOMAIN asked.checks = 1 .. Len(asked.checks)
    /\ \A i \in DOMAIN asked.checks : asked.checks[i] \in places

LEMMA PollsOf ==
    ASSUME NEW asked, ~asked.once, NEW places
    PROVE  /\ asked.checks = <<>> => Polls(asked, places)
           /\ \A a \in places : asked.checks = <<a>> => Polls(asked, places)
           /\ \A a, b \in places : asked.checks = <<a, b>> => Polls(asked, places)
           /\ \A a, b, c \in places : asked.checks = <<a, b, c>> => Polls(asked, places)
    BY DEF Polls

LEMMA ProducingPolls ==
    ASSUME suite \in Suites, suite # "consumer", NEW c \in 1 .. 5
    PROVE  /\ Polls(script[c], {"service", "mistake", "cache"})
           /\ suite = "producer" => Polls(script[c], {"mistake"})
<1>1. c = 1 \/ c = 2 \/ c = 3 \/ c = 4 \/ c = 5
    OBVIOUS
<1>2. Polls(E2E[c], {"service", "mistake", "cache"})
    <2>1. ~E2E[1].once /\ ~E2E[2].once /\ ~E2E[3].once /\ ~E2E[4].once /\ ~E2E[5].once
        BY DEF E2E, Call
    <2>2. /\ E2E[1].checks = <<"service", "cache">> /\ E2E[2].checks = <<"service">>
          /\ E2E[3].checks = <<"service", "cache">> /\ E2E[4].checks = <<"service">>
          /\ E2E[5].checks = <<"service", "mistake", "cache">>
        BY DEF E2E, Call
    <2>3. ~E2E[c].once
        BY <1>1, <2>1, Zenon
    <2>4. \/ E2E[c].checks = <<"service">> \/ E2E[c].checks = <<"service", "cache">>
          \/ E2E[c].checks = <<"service", "mistake", "cache">>
        BY <1>1, <2>2, Zenon
    <2>5. QED
        BY <2>3, <2>4, PollsOf
<1>3. Polls(Producer[c], {"mistake"})
    <2>1. /\ ~Producer[1].once /\ ~Producer[2].once /\ ~Producer[3].once
          /\ ~Producer[4].once /\ ~Producer[5].once
        BY DEF Producer, Call
    <2>2. /\ Producer[1].checks = <<"mistake">> /\ Producer[2].checks = <<>>
          /\ Producer[3].checks = <<"mistake">> /\ Producer[4].checks = <<>>
          /\ Producer[5].checks = <<"mistake">>
        BY DEF Producer, Call
    <2>3. ~Producer[c].once
        BY <1>1, <2>1, Zenon
    <2>4. Producer[c].checks = <<>> \/ Producer[c].checks = <<"mistake">>
        BY <1>1, <2>2, Zenon
    <2>5. QED
        BY <2>3, <2>4, PollsOf
<1>4. Polls(Producer[c], {"service", "mistake", "cache"})
    BY <1>3 DEF Polls
<1>5. suite = "e2e" \/ suite = "producer"
    BY SuitesAssumption
<1>6. (suite = "e2e" => script = E2E) /\ (suite = "producer" => script = Producer)
    BY DEF script, Script
<1>7. "e2e" # "producer"
    OBVIOUS
<1>8. QED
    BY <1>2, <1>3, <1>4, <1>5, <1>6, <1>7, Zenon

\* The consumer suite: names, and polls, of the calls on its one node.
LEMMA InjectedCalls ==
    ASSUME suite \in Suites, suite = "consumer"
    PROVE  /\ DOMAIN script = 1 .. 4 /\ Len(script) = 4
           /\ \A c \in 1 .. 4 : script[c].step = c /\ script[c].op \in Ops
           /\ \A c \in 1 .. 4 : script[c].op = "delete" <=> c \in {3, 4}
           /\ script[1].name # "" /\ script[2].name # "" /\ script[1].name # script[2].name
           /\ script[3].name = "" /\ script[4].name = ""
           /\ \A c \in 1 .. 4 : script[c].once <=> c = 4
           /\ \A c \in 1 .. 3 : script[c].checks = <<"service", "cache">>
           /\ script[4].checks = <<"service">>
<1>1. IsConsumerScript(script) /\ script = Consumer
    BY ScriptIs DEF Producing, script, Script
<1>2. DOMAIN script = 1 .. 4 /\ Len(script) = 4 /\ \A c \in 1 .. 4 : script[c].step = c
    BY <1>1 DEF IsConsumerScript, HasCalls, ConsumerSteps
<1>3. \A c \in 1 .. 4 :
          script[c].op = IF c = 1 THEN "create" ELSE IF c = 2 THEN "update" ELSE "delete"
    BY <1>1 DEF IsConsumerScript, ConsumerOps
<1>4. \A c \in 1 .. 4 : script[c].op \in Ops /\ (script[c].op = "delete" <=> c \in {3, 4})
    BY <1>3 DEF Ops
<1>5. /\ Consumer[1].name = "INJECTED" /\ Consumer[2].name = "INJECTED UPDATED"
      /\ Consumer[3].name = "" /\ Consumer[4].name = ""
    BY DEF Consumer, Call
<1>6. /\ ~Consumer[1].once /\ ~Consumer[2].once /\ ~Consumer[3].once /\ Consumer[4].once
    BY DEF Consumer, Call
<1>7. /\ Consumer[1].checks = <<"service", "cache">> /\ Consumer[2].checks = <<"service", "cache">>
      /\ Consumer[3].checks = <<"service", "cache">> /\ Consumer[4].checks = <<"service">>
    BY DEF Consumer, Call
<1>8. \A c \in 1 .. 4 : c = 1 \/ c = 2 \/ c = 3 \/ c = 4
    OBVIOUS
<1>9. \A c \in 1 .. 3 : c = 1 \/ c = 2 \/ c = 3
    OBVIOUS
<1>10. \A c \in 1 .. 4 : script[c].once <=> c = 4
    <2>1. 1 # 4 /\ 2 # 4 /\ 3 # 4
        OBVIOUS
    <2>2. QED
        BY <1>1, <1>6, <1>8, <2>1, Zenon
<1>11. \A c \in 1 .. 3 : script[c].checks = <<"service", "cache">>
    BY <1>1, <1>7, <1>9, Zenon
<1>12. /\ script[1].name # "" /\ script[2].name # "" /\ script[1].name # script[2].name
       /\ script[3].name = "" /\ script[4].name = "" /\ script[4].checks = <<"service">>
    BY <1>1, <1>5, <1>7
<1>13. QED
    BY <1>2, <1>4, <1>10, <1>11, <1>12, Zenon

LEMMA StepsAscend ==
    ASSUME suite \in Suites, NEW c \in 1 .. Len(script), NEW d \in c .. Len(script)
    PROVE  script[c].step \in 1 .. 4 /\ script[d].step \in 1 .. 4
           /\ script[c].step <= script[d].step
<1>1. CASE suite # "consumer"
    <2>1. /\ Len(script) = 5
          /\ \A b \in 1 .. 5 : script[b].step = IF b = 1 THEN 1 ELSE IF b <= 3 THEN 2 ELSE 3
        BY <1>1, ProducingCall
    <2>2. QED
        BY <2>1
<1>2. CASE suite = "consumer"
    <2>1. Len(script) = 4 /\ \A b \in 1 .. 4 : script[b].step = b
        BY <1>2, InjectedCalls
    <2>2. QED
        BY <2>1
<1>3. QED
    BY <1>1, <1>2

-----------------------------------------------------------------------------
(* While no service misbehaves: the event on its way is the one that the   *)
(* call at which the suite is waits for, and what it says shows.           *)

IdOf(message) == message.events.node[1].id

\* The event is what its call owes, about some node.
Sound(message) ==
    /\ message.call \in DOMAIN script /\ IdOf(message) \in Ids
    /\ message.events = Event(script[message.call].op, IdOf(message), script[message.call].name)

\* The event the call at which the suite is waits for.
Answer(message) ==
    /\ message.call = at
    /\ call.op # "create" => IdOf(message) = node
    /\ rows.mistake[IdOf(message)] = call.name

\* What sort-service applied last shows.
Shown ==
    /\ stored > 0 => rows.service[IdOf(topic[stored])] = script[topic[stored].call].name
    /\ cached > 0 => rows.cache[IdOf(topic[cached])] = script[topic[cached].call].name

\* A call has one event, which is answered before the next call is made.
Awaiting ==
    \/ Len(outbox) = 1 /\ offset = Len(topic) /\ Answer(outbox[1])
    \/ outbox = <<>> /\ Len(topic) = offset + 1 /\ Answer(topic[offset + 1])

OneAtATime ==
    /\ phase \in {"clean", "call", "poll"} => outbox = <<>> /\ offset = Len(topic)
    /\ phase = "call" /\ call.op # "create" => rows.mistake[node] # Absent
    /\ phase = "answer" => Awaiting
    /\ phase = "poll" =>
           Len(topic) > 0 /\ Answer(topic[Len(topic)]) /\ IdOf(topic[Len(topic)]) = node

\* An injected event is stored and cached before the next one is injected.
InjectedInTurn ==
    /\ \A e \in DOMAIN topic : topic[e].call = e /\ IdOf(topic[e]) = InjectedId
    /\ phase \in {"clean", "call"} => Len(topic) = at - 1 /\ cached = at - 1
    /\ phase = "poll" => Len(topic) = at /\ cached >= at - 1
    /\ phase = "poll" /\ seen > 0 => stored = at
    /\ phase = "call" /\ at = 1 =>
           rows.service[InjectedId] = Absent /\ rows.cache[InjectedId] = Absent
    /\ phase = "poll" /\ at = 1 =>
           /\ stored = 0 => rows.service[InjectedId] = Absent
           /\ cached = 0 => rows.cache[InjectedId] = Absent

AllSound ==
    /\ \A e \in DOMAIN topic : Sound(topic[e])
    /\ \A f \in DOMAIN outbox : Sound(outbox[f])

Healthy ==
    /\ failed = {} /\ AllSound /\ Shown
    /\ suite # "consumer" => OneAtATime
    /\ suite = "consumer" => InjectedInTurn

-----------------------------------------------------------------------------
(* Events. *)

Says(events, op, id, name) ==
    LET new == events.node[1]
    IN  /\ events.node # <<>>
        /\ new.id = id /\ new.hubId = HubId /\ new.name = name
        /\ op # "delete" => new.type = IntraMid /\ new.nodeEvent \in {Created, Updated}
        /\ op = "delete" => new.nodeEvent = Deleted

LEMMA EventIs ==
    ASSUME NEW op \in Ops, NEW id, NEW name, op = "delete" => name = ""
    PROVE  Says(Event(op, id, name), op, id, name)
<1>1. CASE op = "create"
    BY <1>1 DEF Event, NewSortNodeCreatedEvent, Message, Says
<1>2. CASE op = "update"
    BY <1>2 DEF Event, NewSortNodeUpdatedEvent, Message, Says
<1>3. CASE op = "delete"
    BY <1>3 DEF Event, NewSortNodeDeletedEvent, Message, Says
<1>4. QED
    BY <1>1, <1>2, <1>3 DEF Ops

LEMMA IdsArePositive == \A id \in Ids : id > 0 /\ id \in Nat
    BY BoundAssumption DEF Ids

Yields(names, events, id, name) == Applied(names, events)[id] = name

\* sort-service shows what a valid event says.
LEMMA AppliedShows ==
    ASSUME NEW names \in [Ids -> CallNames], NEW op \in Ops, NEW id \in Ids, NEW name,
           op = "delete" <=> name = ""
    PROVE  Yields(names, Event(op, id, name), id, name)
<1> DEFINE events == Event(op, id, name)
           new == events.node[1]
           value == CASE new.nodeEvent = Deleted -> Absent
                      [] new.nodeEvent \in {Created, Updated} -> new.name
                      [] OTHER -> names[new.id]
<1> HIDE DEF new
<1> HIDE DEF events
<1>0. Says(events, op, id, name)
    BY EventIs DEF events
<1>1. events.node # <<>> /\ new.id = id /\ new.hubId = HubId /\ new.name = name
    BY <1>0, Zenon DEF Says, new
<1>2. /\ op # "delete" => new.type = IntraMid /\ new.nodeEvent \in {Created, Updated}
      /\ op = "delete" => new.nodeEvent = Deleted
    BY <1>0, Zenon DEF Says, new
<1>3. id > 0
    BY IdsArePositive, Zenon
<1>4. ValidateSortNodeEventSchema(new, Unspecified)
    <2>1. new.id > 0 /\ new.nodeEvent # Unspecified
        BY <1>1, <1>2, <1>3, Numbers
    <2>2. new.nodeEvent \in {Created, Updated} =>
              new.hubId > 0 /\ new.name # "" /\ new.type # Unspecified
        <3>1. new.nodeEvent \in {Created, Updated} => op # "delete"
            BY <1>2, Numbers
        <3>2. HubId > 0 /\ IntraMid # Unspecified
            BY Numbers
        <3>3. QED
            BY <1>1, <1>2, <3>1, <3>2, Zenon
    <2>3. QED
        BY <2>1, <2>2, Zenon DEF ValidateSortNodeEventSchema
<1>5. value = name
    <2>1. op = "delete" => new.nodeEvent = Deleted /\ name = Absent
        BY <1>2 DEF Absent
    <2>2. ASSUME op # "delete" PROVE new.nodeEvent # Deleted
        <3>1. new.nodeEvent = Created \/ new.nodeEvent = Updated
            BY <1>2, <2>2, Zenon
        <3>2. Deleted # Created /\ Deleted # Updated
            BY Numbers, Zenon
        <3>3. QED
            BY <3>1, <3>2, Zenon
    <2>3. QED
        BY <1>1, <1>2, <2>1, <2>2, Zenon
<1>6. Applied(names, events) = [names EXCEPT ![new.id] = value]
    BY <1>1, <1>4, Zenon DEF Applied, new
<1> HIDE DEF value
<1>7. QED
    BY <1>1, <1>5, <1>6 DEF events, Yields

LEMMA CallNamed ==
    ASSUME suite \in Suites, NEW c \in DOMAIN script
    PROVE  /\ script[c].op \in Ops /\ (script[c].op = "delete" <=> script[c].name = "")
           /\ script[c].name \in CallNames
<1>1. CASE suite # "consumer"
    <2>1. c \in 1 .. 5 /\ script[c].op \in Ops /\ (script[c].op = "delete" <=> c = 5)
        BY <1>1, ProducingCall
    <2>2. (\A d \in 1 .. 4 : script[d].name # "") /\ script[5].name = ""
        BY <1>1, ProducingCall, Zenon DEF ProducingNames
    <2>3. c = 5 \/ (c \in 1 .. 4 /\ c # 5)
        BY <2>1
    <2>4. QED
        BY <2>1, <2>2, <2>3, NamesOfCalls, Zenon
<1>2. CASE suite = "consumer"
    <2>1. c \in 1 .. 4 /\ script[c].op \in Ops /\ (script[c].op = "delete" <=> c \in {3, 4})
        BY <1>2, InjectedCalls
    <2>2. ((c = 1 \/ c = 2) /\ c \notin {3, 4}) \/ c = 3 \/ c = 4
        BY <2>1
    <2>3. /\ script[1].name # "" /\ script[2].name # ""
          /\ script[3].name = "" /\ script[4].name = ""
        BY <1>2, InjectedCalls
    <2>4. QED
        BY <2>1, <2>2, <2>3, NamesOfCalls
<1>3. QED
    BY <1>1, <1>2

-----------------------------------------------------------------------------
(* No step of the program goes back, and it fails only the step it is in.  *)

LEMMA Advances ==
    ASSUME Typed, Next
    PROVE  /\ suite' = suite /\ phase # "done"
           /\ at' \in at .. Len(script) + 1 /\ (phase' = "clean" => phase = "clean")
           /\ failed' \subseteq failed \cup {step}
<1>1. ControlTyped /\ suite \in Suites /\ at \in 1 .. Len(script) + 1
    BY TypedParts DEF ControlTyped
<1>2. Len(script) \in {4, 5} /\ (phase \notin {"clean", "done"} => at \in 1 .. Len(script))
    BY <1>1, FirstCall, InCall
<1>3. suite' = suite
    BY DEF Next, Progress, Deadline, Misbehaviour, Clean, Request, RequestNotFound, Inject,
           ReadNextSortNodeEvent, Poll, LookOnce, ReadTimesOut, PollTimesOut, Publish, Store,
           Cache, CleanFails, RequestFails, InjectFails, PublishMalformed, PublishAgain,
           PublishAs
<1> DEFINE Goal == /\ suite' = suite /\ phase # "done"
                   /\ at' \in at .. Len(script) + 1 /\ (phase' = "clean" => phase = "clean")
                   /\ failed' \subseteq failed \cup {step}
<1>4. at \in at .. Len(script) + 1 /\ failed \subseteq failed \cup {step}
    BY <1>1, <1>2
<1>5. ASSUME phase \notin {"clean", "done"}, StopStep PROVE Goal
    <2>1. /\ at' \in at + 1 .. Len(script) + 1 /\ phase' \in {"call", "done"}
          /\ failed' = failed \cup {call.step}
        BY <1>1, <1>5, StopStepMoves
    <2>2. step = call.step
        BY <1>5 DEF step
    <2>3. at' \in at .. Len(script) + 1
        BY <1>1, <1>2, <2>1
    <2>4. phase' # "clean"
        BY <2>1
    <2>5. QED
        BY <1>3, <1>5, <2>1, <2>2, <2>3, <2>4
<1>6. ASSUME phase \notin {"clean", "done"}, GoTo(at + 1) \/ (at' = at /\ phase' # "clean"),
             failed' \subseteq failed \cup {step}
      PROVE  Goal
    <2>1. CASE GoTo(at + 1)
        <3>1. at' = at + 1 /\ phase' \in {"call", "done"}
            BY <2>1 DEF GoTo
        <3>2. at' \in at .. Len(script) + 1
            BY <1>1, <1>2, <1>6, <3>1
        <3>3. QED
            BY <1>3, <1>6, <3>1, <3>2
    <2>2. CASE at' = at /\ phase' # "clean"
        BY <1>3, <1>4, <1>6, <2>2
    <2>3. QED
        BY <1>6, <2>1, <2>2
<1>7. CASE Clean
    BY <1>3, <1>4, <1>7 DEF Clean
<1>8. CASE CleanFails
    <2>1. phase = "clean" /\ GoTo(Len(script) + 1) /\ failed' = {0}
        BY <1>8 DEF CleanFails
    <2>2. at' = Len(script) + 1 /\ phase' \in {"call", "done"} /\ step = 0
        BY <2>1 DEF GoTo, step
    <2>3. at' \in at .. Len(script) + 1
        BY <1>1, <1>2, <2>2
    <2>4. QED
        BY <1>3, <2>1, <2>2, <2>3
<1>9. CASE Request
    BY <1>3, <1>4, <1>9 DEF Request
<1>10. CASE RequestNotFound \/ RequestFails \/ InjectFails \/ ReadTimesOut
    <2>1. phase \notin {"clean", "done"} /\ StopStep
        BY <1>10 DEF RequestNotFound, RequestFails, InjectFails, ReadTimesOut
    <2>2. QED
        BY <1>5, <2>1
<1>11. CASE Inject
    BY <1>3, <1>4, <1>11 DEF Inject
<1>12. CASE ReadNextSortNodeEvent
    <2>1. /\ phase = "answer"
          /\ \/ StopStep
             \/ /\ failed' = failed \cup {step} \/ failed' = failed
                /\ GoTo(at + 1) \/ (at' = at /\ phase' = "poll")
        BY <1>12, Zenon DEF ReadNextSortNodeEvent
    <2>2. QED
        BY <1>4, <1>5, <1>6, <2>1
<1>13. CASE Poll \/ PollTimesOut \/ LookOnce
    <2>1. /\ phase = "poll"
          /\ GoTo(at + 1) \/ (at' = at /\ phase' = phase)
          /\ failed' = failed \cup {step} \/ failed' = failed
        BY <1>13, Zenon DEF Poll, PollTimesOut, LookOnce
    <2>2. QED
        BY <1>4, <1>6, <2>1
<1>14. CASE Publish \/ PublishMalformed \/ PublishAgain \/ Store \/ Cache
    BY <1>3, <1>4, <1>14
    DEF Publish, PublishMalformed, PublishAgain, PublishAs, Store, Cache, suiteVars,
        Misbehave, MayMisbehave
<1>15. QED
    BY <1>7, <1>8, <1>9, <1>10, <1>11, <1>12, <1>13, <1>14
    DEF Next, Progress, Deadline, Misbehaviour

LEMMA StepsGrow ==
    ASSUME Typed, Next
    PROVE  step \in 0 .. 4 /\ (phase' # "done" => step' \in step .. 4)
<1>1. ControlTyped /\ suite \in Suites /\ phase # "done"
    BY TypedParts, Advances DEF ControlTyped
<1>2. ControlTyped'
    BY ControlStep
<1>3. script' = script /\ suite' = suite /\ call' = script[at']
    BY Advances, ScriptStays
<1>4. step \in 0 .. 4 /\ (phase = "clean" => step = 0)
    BY <1>1, InCall DEF step
<1>5. ASSUME phase' # "done", phase # "clean" PROVE step' \in step .. 4
    <2>1. phase' # "clean" /\ at' \in at .. Len(script) + 1
        BY <1>5, Advances
    <2>2. at \in 1 .. Len(script) /\ Len(script) \in {4, 5} /\ step = script[at].step
        BY <1>1, <1>5, InCall DEF call
    <2>3. at' \in 1 .. Len(script) + 1 /\ at' # Len(script) + 1
        BY <1>2, <1>3, <1>5 DEF ControlTyped
    <2>4. at' \in at .. Len(script)
        BY <2>1, <2>2, <2>3
    <2>5. step' = script[at'].step
        BY <1>3, <2>1 DEF step
    <2>6. step <= step' /\ step' \in 1 .. 4 /\ step \in 1 .. 4
        BY <1>1, <2>2, <2>4, <2>5, StepsAscend
    <2>7. QED
        BY <2>6
<1>6. ASSUME phase' # "done", phase = "clean" PROVE step' \in step .. 4
    <2>1. CASE phase' = "clean"
        BY <1>4, <1>6, <2>1 DEF step
    <2>2. CASE phase' # "clean"
        <3>1. at' \in 1 .. Len(script) /\ Len(script) \in {4, 5}
            <4>1. at' \in 1 .. Len(script) + 1 /\ at' # Len(script) + 1
                BY <1>2, <1>3, <1>6 DEF ControlTyped
            <4>2. Len(script) \in {4, 5}
                BY <1>1, FirstCall
            <4>3. QED
                BY <4>1, <4>2
        <3>2. step' = script[at'].step
            BY <1>3, <2>2 DEF step
        <3>3. script[at'].step \in 1 .. 4
            BY <1>1, <3>1, CallFacts, FirstCall
        <3>4. QED
            BY <1>4, <1>6, <3>2, <3>3
    <2>3. QED
        BY <2>1, <2>2
<1>7. QED
    BY <1>4, <1>5, <1>6

-----------------------------------------------------------------------------
(* While it is healthy no step can fail. *)

LEMMA ShowsIs ==
    /\ Shows("service") <=> call.name = rows.service[node]
    /\ Shows("mistake") <=> call.name = rows.mistake[node]
    /\ Shows("cache") <=> call.name = rows.cache[node]
    BY DEF Shows, QueryIntraHubNode, GetSortServiceIntraNode

LEMMA Positions ==
    ASSUME Typed
    PROVE  /\ topic \in Seq(MessagesOf) /\ outbox \in Seq(MessagesOf)
           /\ Len(topic) \in Nat /\ Len(outbox) \in Nat
           /\ DOMAIN topic = 1 .. Len(topic) /\ DOMAIN outbox = 1 .. Len(outbox)
           /\ stored \in 0 .. Len(topic) /\ cached \in 0 .. stored /\ offset \in 0 .. Len(topic)
           /\ cached \in {stored, stored - 1}
           /\ outbox = <<>> <=> Len(outbox) = 0
<1>1. ServicesTyped /\ CountersTyped
    BY TypedParts
<1>2. topic \in Seq(MessagesOf) /\ outbox \in Seq(MessagesOf)
    BY <1>1 DEF ServicesTyped
<1>3. /\ Len(topic) \in Nat /\ Len(outbox) \in Nat
      /\ DOMAIN topic = 1 .. Len(topic) /\ DOMAIN outbox = 1 .. Len(outbox)
      /\ outbox = <<>> <=> Len(outbox) = 0
    BY <1>2, EmptySeq
<1>4. /\ stored \in 0 .. Len(topic) /\ offset \in 0 .. Len(topic)
      /\ cached \in {stored, stored - 1} \cap Nat
    BY <1>1 DEF CountersTyped
<1>5. cached \in 0 .. stored
    BY <1>3, <1>4
<1>6. QED
    BY <1>2, <1>3, <1>4, <1>5

LEMMA AnswerPasses ==
    ASSUME Typed, Healthy, suite # "consumer", phase = "answer", offset < Len(topic)
    PROVE  Verdict(call, node, topic[offset + 1].events) = Pass
<1> DEFINE message == topic[offset + 1]
<1>1. Answer(message) /\ Sound(message)
    <2>1. Awaiting /\ (\A e \in DOMAIN topic : Sound(topic[e]))
        BY DEF Healthy, OneAtATime, AllSound
    <2>2. offset # Len(topic) /\ offset + 1 \in DOMAIN topic
        BY Positions
    <2>3. QED
        BY <2>1, <2>2, Zenon DEF Awaiting
<1>2. at \in DOMAIN script /\ call.op \in Ops /\ call = script[at] /\ suite \in Suites
    BY TypedParts, InCall DEF ControlTyped, call
<1>3. call.op # "delete" => call.name # ""
    BY <1>2, CallNamed
<1> DEFINE id == IdOf(message)
<1> HIDE DEF message
<1>4. id \in Ids /\ message.events = Event(call.op, id, call.name)
    BY <1>1, <1>2, Zenon DEF Sound, Answer
<1>5. call.op # "create" => node = id
    BY <1>1, Zenon DEF Answer
<1> HIDE DEF id
<1>6. id > 0 /\ (call.op = "create" \/ node = id)
    BY <1>4, <1>5, IdsArePositive, Zenon
<1>7. Verdict(call, node, Event(call.op, id, call.name)) = Pass
    BY <1>2, <1>3, <1>6, OwnEventPasses, Zenon
<1>8. QED
    BY <1>4, <1>7, Zenon DEF message

LEMMA ChangeShows ==
    ASSUME Typed, Healthy, phase = "poll", ~Behind, NEW i \in DOMAIN call.checks
    PROVE  Shows(call.checks[i])
<1>1. /\ suite \in Suites /\ at \in DOMAIN script /\ call = script[at] /\ at \in 1 .. Len(script)
      /\ ControlTyped /\ Shown
    BY TypedParts, InCall DEF ControlTyped, call, Healthy
<1>2. ASSUME suite # "producer", Len(topic) > 0, topic[Len(topic)].call = at,
             IdOf(topic[Len(topic)]) = node
      PROVE  Shows("service") /\ Shows("cache")
    <2>1. ~(cached < Len(topic))
        BY <1>2 DEF Behind
    <2>2. cached = Len(topic) /\ stored = Len(topic) /\ stored > 0 /\ cached > 0
        BY <1>2, <2>1, Positions
    <2>3. rows.service[node] = script[at].name /\ rows.cache[node] = script[at].name
        BY <1>1, <1>2, <2>2 DEF Shown
    <2>4. QED
        BY <1>1, <2>3, ShowsIs
<1>3. CASE suite # "consumer"
    <2>1. /\ Len(topic) > 0 /\ Answer(topic[Len(topic)]) /\ IdOf(topic[Len(topic)]) = node
        BY <1>3 DEF Healthy, OneAtATime
    <2>2. topic[Len(topic)].call = at /\ Shows("mistake")
        BY <2>1, ShowsIs DEF Answer
    <2>3. at \in 1 .. 5
        BY <1>1, <1>3, ProducingCall
    <2>4. CASE suite = "producer"
        <3>1. call.checks[i] = "mistake"
            BY <1>1, <1>3, <2>3, <2>4, ProducingPolls DEF Polls
        <3>2. QED
            BY <2>2, <3>1
    <2>5. CASE suite # "producer"
        <3>1. call.checks[i] \in {"service", "mistake", "cache"}
            BY <1>1, <1>3, <2>3, ProducingPolls DEF Polls
        <3>2. Shows("service") /\ Shows("cache")
            BY <1>2, <2>1, <2>2, <2>5
        <3>3. QED
            BY <2>2, <3>1, <3>2
    <2>6. QED
        BY <2>4, <2>5
<1>4. CASE suite = "consumer"
    <2>1. node = InjectedId
        BY <1>1, <1>4 DEF ControlTyped, Shape
    <2>2. /\ \A e \in DOMAIN topic : topic[e].call = e /\ IdOf(topic[e]) = InjectedId
          /\ Len(topic) = at
        BY <1>4 DEF Healthy, InjectedInTurn
    <2>3. Len(topic) > 0 /\ Len(topic) \in DOMAIN topic
        BY <1>1, <2>2, Positions
    <2>4. Shows("service") /\ Shows("cache")
        <3>1. suite # "producer"
            BY <1>4
        <3>2. QED
            BY <1>2, <2>1, <2>2, <2>3, <3>1
    <2>5. call.checks = <<"service", "cache">> \/ call.checks = <<"service">>
        <3>1. at \in 1 .. 4
            BY <1>1, <1>4, InjectedCalls, Zenon
        <3>2. at \in 1 .. 3 \/ at = 4
            BY <3>1
        <3>3. QED
            BY <1>1, <1>4, <3>2, InjectedCalls, Zenon
    <2>6. call.checks[i] \in {"service", "cache"}
        <3>1. CASE call.checks = <<"service", "cache">>
            BY <3>1
        <3>2. CASE call.checks = <<"service">>
            BY <3>2
        <3>3. QED
            BY <2>5, <3>1, <3>2
    <2>7. QED
        BY <2>4, <2>6
<1>5. QED
    BY <1>3, <1>4

\* The repeated delete finds nothing, whether it has been applied or not.
LEMMA RepeatedDeleteShows ==
    ASSUME Typed, Healthy, phase = "poll", call.once
    PROVE  Shows(call.checks[1])
<1>1. /\ suite \in Suites /\ at \in DOMAIN script /\ call = script[at] /\ at \in 1 .. Len(script)
      /\ ControlTyped /\ Shown
    BY TypedParts, InCall DEF ControlTyped, call, Healthy
<1>2. suite = "consumer"
    <2>1. suite # "consumer" => at \in 1 .. 5
        BY <1>1, ProducingCall
    <2>2. QED
        BY <1>1, <2>1, ProducingPolls DEF Polls
<1>3. at = 4 /\ call.checks[1] = "service" /\ call.name = "" /\ script[3].name = ""
    <2>1. at \in 1 .. 4
        BY <1>1, <1>2, InjectedCalls, Zenon
    <2>2. at = 4
        BY <1>1, <1>2, <2>1, InjectedCalls, Zenon
    <2>3. /\ script[3].name = "" /\ script[4].name = ""
          /\ script[4].checks = <<"service">>
        BY <1>1, <1>2, InjectedCalls, Zenon
    <2>4. call = script[4]
        BY <1>1, <2>2
    <2>5. call.name = "" /\ call.checks = <<"service">>
        BY <2>3, <2>4
    <2>6. call.checks[1] = "service"
        <3>1. <<"service">>[1] = "service"
            OBVIOUS
        <3>2. QED
            BY <2>5, <3>1, Zenon
    <2>7. QED
        BY <2>2, <2>3, <2>5, <2>6
<1>4. /\ \A e \in DOMAIN topic : topic[e].call = e /\ IdOf(topic[e]) = InjectedId
      /\ Len(topic) = 4 /\ cached >= 3
    <2>1. InjectedInTurn
        BY <1>2 DEF Healthy
    <2>2. at = 4
        BY <1>3, Zenon
    <2>3. QED
        BY <2>1, <2>2 DEF InjectedInTurn
<1>5. stored \in {3, 4} /\ stored > 0 /\ stored \in DOMAIN topic
    BY <1>4, Positions
<1>6. rows.service[InjectedId] = script[stored].name
    BY <1>1, <1>4, <1>5 DEF Shown
<1>7. rows.service[InjectedId] = ""
    BY <1>1, <1>3, <1>5, <1>6
<1>8. node = InjectedId
    BY <1>1, <1>2 DEF ControlTyped, Shape
<1>9. QED
    BY <1>3, <1>7, <1>8, ShowsIs

\* What is left of Next while no service misbehaves.
Reads ==
    /\ phase = "answer" /\ offset < Len(topic) /\ suite # "consumer"
    /\ offset' = offset + 1
    /\ node' = IF call.op = "create" THEN IdOf(topic[offset + 1]) ELSE node
    /\ failed' = failed
    /\ IF call.checks = <<>> THEN GoTo(at + 1) ELSE phase' = "poll" /\ UNCHANGED <<at, seen>>
    /\ UNCHANGED <<suite, serviceVars, faulty>>

Looks == LookOnce /\ UNCHANGED <<failed, faulty>>

Orderly ==
    Clean \/ Request \/ Inject \/ Reads \/ Poll \/ Looks \/ Publish \/ Store \/ Cache

LEMMA HealthyActs ==
    ASSUME Typed, Next, Healthy, faulty' = <<>>
    PROVE  Orderly /\ failed' = {}
<1>1. failed = {} /\ (suite # "consumer" => OneAtATime)
    BY DEF Healthy
<1>2. ~Misbehave
    <2>1. ASSUME Misbehave PROVE FALSE
        <3>1. faulty' = Append(faulty, step) /\ faulty \in Seq(0 .. 4)
            BY <2>1, TypedParts DEF Misbehave, CountersTyped
        <3>2. step \in 0 .. 4
            BY StepsGrow
        <3>3. Len(Append(faulty, step)) = Len(faulty) + 1 /\ Len(faulty) \in Nat
            BY <3>1, <3>2
        <3>4. Len(faulty') # 0 /\ faulty' = <<>>
            BY <3>1, <3>3
        <3>5. Len(<<>>) = 0
            OBVIOUS
        <3>6. QED
            BY <3>4, <3>5
    <2>2. QED
        BY <2>1
<1>3. ~Misbehaviour
    BY <1>2 DEF Misbehaviour, CleanFails, RequestFails, InjectFails, PublishMalformed,
                PublishAgain
<1>4. ~RequestNotFound
    <2>1. suite # "consumer" /\ phase = "call" => Found
        BY <1>1 DEF OneAtATime, Found
    <2>2. QED
        BY <2>1 DEF RequestNotFound
<1>5. ~ReadTimesOut
    <2>1. ASSUME ReadTimesOut PROVE FALSE
        <3>1. phase = "answer" /\ offset = Len(topic) /\ ~Behind
            BY <1>2, <2>1 DEF ReadTimesOut
        <3>2. suite # "consumer"
            BY <3>1, TypedParts DEF ControlTyped, Shape
        <3>3. Len(outbox) = 1
            <4>1. Awaiting
                BY <1>1, <3>1, <3>2 DEF OneAtATime
            <4>2. Len(topic) # offset + 1
                BY <3>1, Positions
            <4>3. QED
                BY <4>1, <4>2, Zenon DEF Awaiting
        <3>4. QED
            BY <3>1, <3>3, Positions DEF Behind
    <2>2. QED
        BY <2>1
<1>6. ~PollTimesOut
    <2>1. ASSUME PollTimesOut PROVE FALSE
        <3>1. /\ phase = "poll" /\ ~Behind
              /\ ~(\A i \in DOMAIN call.checks : Shows(call.checks[i]))
            BY <1>2, <2>1 DEF PollTimesOut
        <3>2. QED
            BY <3>1, ChangeShows
    <2>2. QED
        BY <2>1
<1>7. CASE ReadNextSortNodeEvent
    <2>1. phase = "answer" /\ offset < Len(topic)
        BY <1>7 DEF ReadNextSortNodeEvent
    <2>2. suite # "consumer"
        BY <2>1, TypedParts DEF ControlTyped, Shape
    <2>3. Verdict(call, node, topic[offset + 1].events) = Pass
        BY <2>1, <2>2, AnswerPasses
    <2>4. Pass # Stop /\ Pass # Fail
        BY DEF Pass, Stop, Fail
    <2>5. Reads
        BY <1>7, <2>2, <2>3, <2>4, Zenon DEF ReadNextSortNodeEvent, Reads, IdOf
    <2>6. QED
        BY <1>1, <2>5, Zenon DEF Orderly, Reads
<1>8. CASE LookOnce
    <2>1. phase = "poll" /\ call.once
        BY <1>8 DEF LookOnce
    <2>2. Shows(call.checks[1])
        BY <2>1, RepeatedDeleteShows
    <2>3. Looks
        BY <1>2, <1>8, <2>2 DEF LookOnce, Looks
    <2>4. QED
        BY <1>1, <2>3 DEF Orderly, Looks
<1>9. CASE Clean \/ Request \/ Inject \/ Poll \/ Publish \/ Store \/ Cache
    <2>1. failed' = failed
        BY <1>9 DEF Clean, Request, Inject, Poll, Publish, PublishAs, Store, Cache, suiteVars
    <2>2. QED
        BY <1>1, <1>9, <2>1 DEF Orderly
<1>10. QED
    BY <1>3, <1>4, <1>5, <1>6, <1>7, <1>8, <1>9 DEF Next, Progress, Deadline

-----------------------------------------------------------------------------
(* Sound events. *)

Owed(c, id) == [call |-> c, events |-> Event(script[c].op, id, script[c].name)]

LEMMA OwedIsSound ==
    ASSUME suite \in Suites, NEW c \in DOMAIN script, NEW id \in Ids
    PROVE  /\ Owed(c, id) \in MessagesOf /\ Sound(Owed(c, id))
           /\ Owed(c, id).call = c /\ IdOf(Owed(c, id)) = id
<1> DEFINE events == Event(script[c].op, id, script[c].name)
<1>1. script[c].op \in Ops /\ script[c].name \in CallNames
      /\ (script[c].op = "delete" => script[c].name = "")
    BY CallNamed
<1>2. events \in EventMessages
    BY <1>1, EventIsTyped
<1>3. Says(events, script[c].op, id, script[c].name)
    BY <1>1, EventIs
<1>4. events.node[1].id = id
    BY <1>3, Zenon DEF Says
<1> HIDE DEF events
<1>5. Owed(c, id) = [call |-> c, events |-> events]
    BY DEF Owed, events
<1>6. Owed(c, id).call = c /\ Owed(c, id).events = events
    BY <1>5
<1>7. IdOf(Owed(c, id)) = id
    BY <1>4, <1>6, Zenon DEF IdOf
<1>8. Sound(Owed(c, id))
    BY <1>6, <1>7, Zenon DEF Sound, events
<1>9. Owed(c, id) \in MessagesOf
    <2>1. \A S, T : \A x \in S, y \in T : [call |-> x, events |-> y] \in [call : S, events : T]
        OBVIOUS
    <2>2. [call |-> c, events |-> events] \in [call : DOMAIN script, events : EventMessages]
        BY <1>2, <2>1
    <2>3. QED
        BY <1>5, <2>2 DEF MessagesOf, EventMessages
<1>10. QED
    BY <1>6, <1>7, <1>8, <1>9

\* What sort-mistake does with the request.
Requested(id) ==
    /\ id \in Ids /\ (call.op # "create" => id = node)
    /\ outbox' = Append(outbox, Owed(at, id)) /\ topic' = topic
    /\ rows'.service = rows.service /\ rows'.cache = rows.cache
    /\ rows'.mistake[id] = call.name

LEMMA RequestCommits ==
    ASSUME Typed, Request
    PROVE  \E id : Requested(id)
<1> DEFINE id == IF call.op = "create" THEN nextId ELSE node
<1>1. phase = "call" /\ suite # "consumer" /\ Commit /\ topic' = topic
    BY DEF Request
<1>2. /\ at \in DOMAIN script /\ call = script[at] /\ call.name \in CallNames
      /\ suite \in Suites /\ nextId \in 1 .. 4 /\ nextId <= Given(at)
      /\ call.op # "create" => node \in Ids
    BY <1>1, TypedParts, InCall DEF ControlTyped, Shape, call
<1>3. call.op = "create" => nextId \in Ids
    <2>1. ASSUME call.op = "create" PROVE at \in {1, 2, 4}
        BY <1>1, <1>2, <2>1, ProducingCall
    <2>2. at \in {1, 2, 4} => nextId \in 1 .. 3
        BY <1>2 DEF Given
    <2>3. nextId \in 1 .. 3 => nextId \in Ids
        BY DEF Ids
    <2>4. QED
        BY <2>1, <2>2, <2>3
<1>4. id \in Ids /\ (call.op # "create" => id = node)
    BY <1>2, <1>3
<1>5. outbox' = Append(outbox, Owed(at, id))
    BY <1>1, <1>2 DEF Commit, Owed
<1>6. rows' = [rows EXCEPT !["mistake"] = [rows["mistake"] EXCEPT ![id] = call.name]]
    BY <1>1 DEF Commit
<1>7. rows \in [{"mistake", "service", "cache"} -> [Ids -> CallNames]]
    BY TypedParts DEF ServicesTyped
<1> HIDE DEF id
<1>8. rows'.service = rows.service /\ rows'.cache = rows.cache
    BY <1>6, <1>7
<1>9. rows'.mistake[id] = call.name
    <2>1. rows'["mistake"] = [rows["mistake"] EXCEPT ![id] = call.name]
        BY <1>6, <1>7
    <2>2. rows["mistake"] \in [Ids -> CallNames]
        BY <1>7
    <2>3. QED
        BY <1>4, <2>1, <2>2
<1>10. QED
    BY <1>1, <1>4, <1>5, <1>8, <1>9 DEF Requested

\* How the topic and the outbox change while no service misbehaves.
Injected == phase = "call" /\ suite = "consumer" /\ topic' = Append(topic, Owed(at, InjectedId))
            /\ outbox' = outbox
Arrived == outbox # <<>> /\ topic' = Append(topic, outbox[1]) /\ outbox' = Tail(outbox)
Idle == topic' = topic /\ outbox' = outbox

LEMMA InjectPublishes == Typed /\ Inject => Injected
<1> SUFFICES ASSUME Typed, Inject PROVE Injected
    OBVIOUS
<1>1. /\ phase = "call" /\ suite = "consumer" /\ outbox' = outbox
      /\ topic' = Append(topic, [call |-> at, events |-> Event(call.op, node, call.name)])
    BY DEF Inject, PublishSortNodeEvents
<1>2. node = InjectedId
    BY <1>1, TypedParts DEF ControlTyped, Shape
<1>3. QED
    BY <1>1, <1>2 DEF Injected, Owed, call

LEMMA PublishArrives == Typed /\ Publish => Arrived
<1> SUFFICES ASSUME Typed, Publish PROVE Arrived
    OBVIOUS
<1>1. outbox # <<>> /\ PublishAs(Head(outbox).events) /\ outbox \in Seq(MessagesOf)
    BY Positions DEF Publish
<1>2. /\ outbox' = Tail(outbox)
      /\ topic' = Append(topic, [Head(outbox) EXCEPT !.events = Head(outbox).events])
    BY <1>1 DEF PublishAs
<1>3. Head(outbox) \in MessagesOf /\ Head(outbox) = outbox[1]
    BY <1>1, TailIs
<1>4. \A m \in MessagesOf : [m EXCEPT !.events = m.events] = m
    BY DEF MessagesOf
<1>5. QED
    BY <1>1, <1>2, <1>3, <1>4 DEF Arrived

LEMMA Traffic ==
    ASSUME Typed, Orderly
    PROVE  \/ Request /\ (\E id : Requested(id))
           \/ Inject /\ Injected
           \/ Publish /\ Arrived
           \/ (Clean \/ Reads \/ Poll \/ Looks \/ Store \/ Cache) /\ Idle
<1>1. CASE Inject
    BY <1>1, InjectPublishes
<1>2. CASE Publish
    BY <1>2, PublishArrives
<1>3. CASE Clean \/ Reads \/ Poll \/ Looks \/ Store \/ Cache
    BY <1>3 DEF Clean, Reads, Poll, Looks, LookOnce, Store, Cache, Idle, serviceVars
<1>4. QED
    BY <1>1, <1>2, <1>3, RequestCommits DEF Orderly

LEMMA SoundStays ==
    ASSUME suite' = suite, NEW message
    PROVE  Sound(message)' <=> Sound(message)
    BY ScriptStays DEF Sound

LEMMA TopicKeeps ==
    ASSUME Typed, Orderly
    PROVE  \A e \in 1 .. Len(topic) : topic'[e] = topic[e]
<1>1. /\ topic \in Seq(MessagesOf) /\ outbox \in Seq(MessagesOf) /\ suite \in Suites
      /\ ControlTyped
    BY Positions, TypedParts DEF ControlTyped
<1>2. ASSUME NEW message \in MessagesOf, topic' = Append(topic, message)
      PROVE  \A e \in 1 .. Len(topic) : topic'[e] = topic[e]
    BY <1>1, <1>2, AppendIs
<1>3. CASE Injected
    <2>1. at \in DOMAIN script /\ InjectedId \in Ids /\ topic' = Append(topic, Owed(at, InjectedId))
        BY <1>1, <1>3, InCall DEF Injected, Ids
    <2>2. Owed(at, InjectedId) \in MessagesOf
        BY <1>1, <2>1, OwedIsSound
    <2>3. QED
        BY <1>2, <2>1, <2>2
<1>4. CASE Arrived
    <2>1. outbox[1] \in MessagesOf
        BY <1>1, <1>4, TailIs DEF Arrived
    <2>2. QED
        BY <1>2, <1>4, <2>1 DEF Arrived
<1>5. CASE topic' = topic
    BY <1>5
<1>6. QED
    BY <1>3, <1>4, <1>5, Traffic DEF Requested, Idle

LEMMA SoundStep ==
    ASSUME Typed, Orderly, suite' = suite, AllSound
    PROVE  AllSound'
<1>1. /\ topic \in Seq(MessagesOf) /\ outbox \in Seq(MessagesOf)
      /\ DOMAIN topic = 1 .. Len(topic) /\ DOMAIN outbox = 1 .. Len(outbox)
      /\ Len(topic) \in Nat /\ Len(outbox) \in Nat
      /\ suite \in Suites /\ ControlTyped
    BY Positions, TypedParts DEF ControlTyped
<1>2. /\ \A e \in 1 .. Len(topic) : Sound(topic[e])
      /\ \A f \in 1 .. Len(outbox) : Sound(outbox[f])
    BY <1>1 DEF AllSound
<1> DEFINE Sounds(queue) == \A e \in DOMAIN queue : Sound(queue[e])
<1>3. ASSUME Sounds(topic'), Sounds(outbox') PROVE AllSound'
    BY <1>3, SoundStays DEF AllSound
<1>4. ASSUME NEW queue \in Seq(MessagesOf), Sounds(queue), NEW message \in MessagesOf,
             Sound(message)
      PROVE  Sounds(Append(queue, message))
    <2>1. /\ DOMAIN Append(queue, message) = 1 .. Len(queue) + 1 /\ Len(queue) \in Nat
          /\ DOMAIN queue = 1 .. Len(queue)
          /\ \A i \in 1 .. Len(queue) : Append(queue, message)[i] = queue[i]
          /\ Append(queue, message)[Len(queue) + 1] = message
        BY <1>4, AppendIs
    <2>2. \A e \in 1 .. Len(queue) + 1 : e \in 1 .. Len(queue) \/ e = Len(queue) + 1
        BY <2>1
    <2>3. QED
        BY <1>4, <2>1, <2>2, Zenon
<1>5. Sounds(topic) /\ Sounds(outbox)
    BY <1>1, <1>2
<1> HIDE DEF Sounds
<1>6. CASE Request /\ \E id : Requested(id)
    <2>1. PICK id : Requested(id)
        BY <1>6
    <2>2. phase = "call"
        BY <1>6 DEF Request
    <2>3. at \in DOMAIN script /\ id \in Ids
        BY <1>1, <2>1, <2>2, InCall DEF Requested
    <2>4. Owed(at, id) \in MessagesOf /\ Sound(Owed(at, id))
        BY <1>1, <2>3, OwedIsSound
    <2>5. Sounds(outbox') /\ Sounds(topic')
        BY <1>1, <1>4, <1>5, <2>1, <2>4 DEF Requested
    <2>6. QED
        BY <1>3, <2>5
<1>7. CASE Injected
    <2>1. at \in DOMAIN script /\ InjectedId \in Ids
        BY <1>1, <1>7, InCall DEF Injected, Ids
    <2>2. Owed(at, InjectedId) \in MessagesOf /\ Sound(Owed(at, InjectedId))
        BY <1>1, <2>1, OwedIsSound
    <2>3. Sounds(outbox') /\ Sounds(topic')
        BY <1>1, <1>4, <1>5, <1>7, <2>2 DEF Injected
    <2>4. QED
        BY <1>3, <2>3
<1>8. CASE Arrived
    <2>1. /\ outbox # <<>> /\ Len(outbox) >= 1 /\ outbox[1] \in MessagesOf
          /\ DOMAIN Tail(outbox) = 1 .. Len(outbox) - 1
          /\ \A i \in 1 .. Len(outbox) - 1 : Tail(outbox)[i] = outbox[i + 1]
        BY <1>1, <1>8, TailIs DEF Arrived
    <2>2. Sound(outbox[1])
        BY <1>1, <1>2, <2>1
    <2>3. Sounds(topic')
        BY <1>1, <1>4, <1>5, <1>8, <2>1, <2>2 DEF Arrived
    <2>4. Sounds(Tail(outbox))
        <3>1. \A i \in 1 .. Len(outbox) - 1 : i + 1 \in 1 .. Len(outbox)
            BY <1>1
        <3>2. QED
            BY <1>2, <2>1, <3>1, Zenon DEF Sounds
    <2>5. QED
        BY <1>3, <1>8, <2>3, <2>4 DEF Arrived
<1>9. CASE Idle
    BY <1>3, <1>5, <1>9 DEF Idle
<1>10. QED
    BY <1>6, <1>7, <1>8, <1>9, Traffic

\* What an event that is applied says shows from then on.
LEMMA SoundShows ==
    ASSUME suite \in Suites, NEW names \in [Ids -> CallNames], NEW message, Sound(message)
    PROVE  Applied(names, message.events)[IdOf(message)] = script[message.call].name
<1>1. message.call \in DOMAIN script /\ IdOf(message) \in Ids
    BY Zenon DEF Sound
<1>2. script[message.call].op \in Ops
      /\ (script[message.call].op = "delete" <=> script[message.call].name = "")
    BY <1>1, CallNamed
<1>3. message.events = Event(script[message.call].op, IdOf(message), script[message.call].name)
    BY Zenon DEF Sound
<1> DEFINE asked == script[message.call]
           target == IdOf(message)
<1>4. asked.op \in Ops /\ target \in Ids /\ (asked.op = "delete" <=> asked.name = "")
    BY <1>1, <1>2
<1>5. message.events = Event(asked.op, target, asked.name)
    BY <1>3
<1> HIDE DEF asked, target
<1>6. Yields(names, Event(asked.op, target, asked.name), target, asked.name)
    BY <1>4, AppliedShows, Zenon
<1>7. Applied(names, message.events)[target] = asked.name
    BY <1>5, <1>6 DEF Yields
<1>8. QED
    BY <1>7 DEF asked, target

\* Where sort-service is, and what it has just applied.
Unapplied ==
    /\ rows'.service = rows.service /\ rows'.cache = rows.cache
    /\ stored' = stored /\ cached' = cached
Storing ==
    /\ stored = cached /\ stored < Len(topic) /\ stored' = stored + 1 /\ cached' = cached
    /\ rows'.service = Applied(rows.service, topic[stored + 1].events)
    /\ rows'.cache = rows.cache /\ rows'.mistake = rows.mistake
Caching ==
    /\ cached < stored /\ stored' = stored /\ cached' = stored
    /\ rows'.cache = Applied(rows.cache, topic[stored].events)
    /\ rows'.service = rows.service /\ rows'.mistake = rows.mistake

LEMMA Application ==
    ASSUME Typed, Orderly
    PROVE  \/ Clean
           \/ (Request \/ Inject \/ Reads \/ Poll \/ Looks \/ Publish) /\ Unapplied
           \/ Store /\ Storing
           \/ Cache /\ Caching
<1>1. rows \in [{"mistake", "service", "cache"} -> [Ids -> CallNames]]
    BY TypedParts DEF ServicesTyped
<1>2. \A value : LET r == [rows EXCEPT !["service"] = value]
                 IN  r.service = value /\ r.cache = rows.cache /\ r.mistake = rows.mistake
    BY <1>1
<1>3. \A value : LET r == [rows EXCEPT !["cache"] = value]
                 IN  r.cache = value /\ r.service = rows.service /\ r.mistake = rows.mistake
    BY <1>1
<1>4. CASE Request
    <2>1. PICK id : Requested(id)
        BY <1>4, RequestCommits
    <2>2. rows'.service = rows.service /\ rows'.cache = rows.cache
        BY <2>1 DEF Requested
    <2>3. stored' = stored /\ cached' = cached
        BY <1>4 DEF Request
    <2>4. QED
        BY <1>4, <2>2, <2>3 DEF Unapplied
<1>5. CASE Inject \/ Reads \/ Poll \/ Looks \/ Publish
    BY <1>5 DEF Inject, Reads, Poll, Looks, LookOnce, Publish, PublishAs, serviceVars, Unapplied
<1>6. CASE Store
    <2>1. rows' = [rows EXCEPT !["service"] = Applied(rows["service"], topic[stored + 1].events)]
        BY <1>6 DEF Store
    <2>2. stored = cached /\ stored < Len(topic) /\ stored' = stored + 1 /\ cached' = cached
        BY <1>6 DEF Store
    <2>3. QED
        BY <1>2, <1>6, <2>1, <2>2 DEF Storing
<1>7. CASE Cache
    <2>1. rows' = [rows EXCEPT !["cache"] = Applied(rows["cache"], topic[stored].events)]
        BY <1>7 DEF Cache
    <2>2. cached < stored /\ stored' = stored /\ cached' = stored
        BY <1>7 DEF Cache
    <2>3. QED
        BY <1>3, <1>7, <2>1, <2>2 DEF Caching
<1>8. QED
    BY <1>4, <1>5, <1>6, <1>7 DEF Orderly

LEMMA ShownStep ==
    ASSUME Typed, Orderly, suite' = suite, AllSound, Shown
    PROVE  Shown'
<1>1. /\ DOMAIN topic = 1 .. Len(topic) /\ Len(topic) \in Nat
      /\ stored \in 0 .. Len(topic) /\ cached \in 0 .. stored
      /\ suite \in Suites /\ ControlTyped
      /\ rows \in [{"mistake", "service", "cache"} -> [Ids -> CallNames]]
    BY Positions, TypedParts DEF ControlTyped, ServicesTyped
<1>2. script' = script /\ (\A e \in DOMAIN topic : topic'[e] = topic[e] /\ Sound(topic[e]))
    BY <1>1, ScriptStays, TopicKeeps DEF AllSound
<1>3. (stored > 0 => stored \in DOMAIN topic) /\ (cached > 0 => cached \in DOMAIN topic)
    BY <1>1
<1> DEFINE ShowsAt(r, q, position) ==
        position > 0 => r[IdOf(q[position])] = script[q[position].call].name
<1>4. Shown <=> ShowsAt(rows.service, topic, stored) /\ ShowsAt(rows.cache, topic, cached)
    BY Zenon DEF Shown
<1>5. ASSUME ShowsAt(rows'.service, topic', stored'), ShowsAt(rows'.cache, topic', cached')
      PROVE  Shown'
    BY <1>2, <1>5, Zenon DEF Shown, IdOf
<1>6. ASSUME NEW r, NEW position, position > 0 => position \in DOMAIN topic,
             ShowsAt(r, topic, position)
      PROVE  ShowsAt(r, topic', position)
    BY <1>2, <1>6, Zenon DEF IdOf
<1>7. ASSUME NEW names \in [Ids -> CallNames], NEW position \in DOMAIN topic
      PROVE  ShowsAt(Applied(names, topic[position].events), topic, position)
    BY <1>1, <1>2, SoundShows, Zenon
<1>8. rows.service \in [Ids -> CallNames] /\ rows.cache \in [Ids -> CallNames]
    BY <1>1
<1> HIDE DEF ShowsAt
<1>9. CASE Clean
    <2>1. topic = <<>> /\ stored' = stored /\ cached' = cached
        BY <1>1, <1>9 DEF Clean, ControlTyped, Shape
    <2>2. stored' = 0 /\ cached' = 0
        BY <1>1, <2>1
    <2>3. ~(0 > 0)
        OBVIOUS
    <2>4. QED
        BY <1>5, <2>2, <2>3, Zenon DEF ShowsAt
<1>10. CASE Unapplied
    BY <1>3, <1>4, <1>5, <1>6, <1>10 DEF Unapplied
<1>11. CASE Storing
    <2>1. stored + 1 \in DOMAIN topic
        BY <1>1, <1>11 DEF Storing
    <2>2. ShowsAt(rows'.service, topic, stored')
        BY <1>7, <1>8, <1>11, <2>1 DEF Storing
    <2>3. ShowsAt(rows'.cache, topic, cached')
        BY <1>4, <1>11 DEF Storing
    <2>4. stored' \in DOMAIN topic /\ (cached' > 0 => cached' \in DOMAIN topic)
        BY <1>3, <1>11, <2>1 DEF Storing
    <2>5. QED
        BY <1>5, <1>6, <2>2, <2>3, <2>4
<1>12. CASE Caching
    <2>1. stored \in DOMAIN topic
        BY <1>1, <1>12 DEF Caching
    <2>2. ShowsAt(rows'.cache, topic, cached')
        BY <1>7, <1>8, <1>12, <2>1 DEF Caching
    <2>3. ShowsAt(rows'.service, topic, stored')
        BY <1>4, <1>12 DEF Caching
    <2>4. stored' \in DOMAIN topic /\ cached' \in DOMAIN topic
        BY <1>12, <2>1 DEF Caching
    <2>5. QED
        BY <1>5, <1>6, <2>2, <2>3, <2>4
<1>13. QED
    BY <1>9, <1>10, <1>11, <1>12, Application

-----------------------------------------------------------------------------
(* The consumer suite. *)

\* Injecting and polling as the consumer suite finds them.
LEMMA Injecting ==
    ASSUME Typed, suite = "consumer"
    PROVE  /\ suite \in Suites /\ at \in 1 .. 5 /\ DOMAIN script = 1 .. 4 /\ Len(script) = 4
           /\ node = InjectedId /\ InjectedId \in Ids /\ phase # "answer" /\ outbox = <<>>
           /\ phase # "poll" => seen = 0
           /\ phase = "clean" => at = 1 /\ topic = <<>>
           /\ phase = "done" <=> at = 5
<1>1. ControlTyped /\ suite \in Suites
    BY TypedParts DEF ControlTyped
<1>2. DOMAIN script = 1 .. 4 /\ Len(script) = 4
    BY <1>1, InjectedCalls
<1>3. at \in 1 .. Len(script) + 1 /\ (phase = "done" <=> at = Len(script) + 1)
    BY <1>1 DEF ControlTyped
<1>4. at \in 1 .. 5 /\ (phase = "done" <=> at = 5)
    BY <1>2, <1>3
<1>5. InjectedId \in Ids
    BY DEF Ids
<1>6. QED
    BY <1>1, <1>2, <1>4, <1>5 DEF ControlTyped, Shape

\* A change is not taken for the one before it.
LEMMA NotYet ==
    ASSUME Typed, suite = "consumer", Shown, InjectedInTurn, phase = "poll", at \in 1 .. 3
    PROVE  /\ Shows("service") => stored = at
           /\ Shows("cache") => cached = at
<1>1. /\ suite \in Suites /\ node = InjectedId /\ call = script[at]
      /\ stored \in 0 .. Len(topic) /\ cached \in 0 .. stored /\ Len(topic) \in Nat
      /\ DOMAIN topic = 1 .. Len(topic)
    BY Injecting, Positions DEF call
<1>2. /\ \A e \in DOMAIN topic : topic[e].call = e /\ IdOf(topic[e]) = InjectedId
      /\ Len(topic) = at /\ cached >= at - 1
      /\ at = 1 /\ stored = 0 => rows.service[InjectedId] = Absent
      /\ at = 1 /\ cached = 0 => rows.cache[InjectedId] = Absent
    BY DEF InjectedInTurn
<1>3. stored \in {at - 1, at} /\ cached \in {at - 1, at}
    BY <1>1, <1>2
<1>4. \A position \in {at - 1, at} :
          /\ position > 0 => position \in DOMAIN topic
          /\ position # at => position = at - 1
    BY <1>1, <1>2
<1>5. /\ stored > 0 => rows.service[InjectedId] = script[stored].name
      /\ cached > 0 => rows.cache[InjectedId] = script[cached].name
    BY <1>2, <1>3, <1>4, Zenon DEF Shown
<1>6. /\ script[1].name # Absent /\ script[1].name # script[2].name
      /\ script[2].name # script[3].name
    BY <1>1, InjectedCalls DEF Absent
<1>7. at = 1 \/ at = 2 \/ at = 3
    OBVIOUS
<1>8. ASSUME NEW position \in {at - 1, at}, NEW name,
             position > 0 => name = script[position].name,
             at = 1 /\ position = 0 => name = Absent,
             script[at].name = name
      PROVE  position = at
    <2> SUFFICES ASSUME position = at - 1 PROVE FALSE
        BY <1>8
    <2>1. CASE at = 1
        <3>1. position = 0
            BY <2>1
        <3>2. QED
            BY <1>6, <1>8, <2>1, <3>1
    <2>2. CASE at = 2
        <3>1. position = 1 /\ position > 0
            BY <2>2
        <3>2. QED
            BY <1>6, <1>8, <2>2, <3>1
    <2>3. CASE at = 3
        <3>1. position = 2 /\ position > 0
            BY <2>3
        <3>2. QED
            BY <1>6, <1>8, <2>3, <3>1
    <2>4. QED
        BY <1>7, <2>1, <2>2, <2>3
<1>9. ASSUME Shows("service") PROVE stored = at
    BY <1>1, <1>2, <1>3, <1>5, <1>8, <1>9, ShowsIs
<1>10. ASSUME Shows("cache") PROVE cached = at
    BY <1>1, <1>2, <1>3, <1>5, <1>8, <1>10, ShowsIs
<1>11. QED
    BY <1>9, <1>10

LEMMA InTurnStep ==
    ASSUME Typed, Orderly, suite' = suite, suite = "consumer", Shown, InjectedInTurn
    PROVE  InjectedInTurn'
<1>1. /\ suite \in Suites /\ at \in 1 .. 5 /\ Len(script) = 4 /\ node = InjectedId
      /\ InjectedId \in Ids /\ phase # "answer" /\ outbox = <<>>
      /\ phase # "poll" => seen = 0
      /\ phase = "clean" => at = 1 /\ topic = <<>>
      /\ phase = "done" <=> at = 5
    BY Injecting
<1>2. /\ topic \in Seq(MessagesOf) /\ Len(topic) \in Nat /\ DOMAIN topic = 1 .. Len(topic)
      /\ stored \in 0 .. Len(topic) /\ cached \in 0 .. stored
      /\ phase \in {"clean", "call", "answer", "poll", "done"}
      /\ rows \in [{"mistake", "service", "cache"} -> [Ids -> CallNames]]
    BY Positions, TypedParts DEF ControlTyped, ServicesTyped
<1> DEFINE OfItsCall == \A e \in DOMAIN topic : topic[e].call = e /\ IdOf(topic[e]) = InjectedId
<1>3. OfItsCall
    BY DEF InjectedInTurn
<1>4. ASSUME topic' = topic PROVE OfItsCall'
    BY <1>3, <1>4 DEF IdOf
<1> HIDE DEF OfItsCall
<1>5. CASE Clean
    <2>1. /\ phase = "clean" /\ phase' = "call" /\ at' = at /\ topic' = topic
          /\ rows' = FlushRedis(TruncateTables(rows)) /\ cached' = cached
        BY <1>5 DEF Clean
    <2>2. at = 1 /\ Len(topic) = 0 /\ cached = 0
        BY <1>1, <1>2, <2>1, EmptySeq
    <2>3. rows'.service[InjectedId] = Absent /\ rows'.cache[InjectedId] = Absent
        <3>1. "service" \in CheckTables
            BY DEF CheckTables
        <3>2. DOMAIN rows = {"mistake", "service", "cache"}
            BY <1>2
        <3>3. TruncateTables(rows).service = NoRows
              /\ DOMAIN TruncateTables(rows) = {"mistake", "service", "cache"}
            BY <3>1, <3>2 DEF TruncateTables
        <3>4. rows'.service = NoRows /\ rows'.cache = NoRows
            BY <2>1, <3>3 DEF FlushRedis
        <3>5. QED
            BY <1>1, <3>4 DEF NoRows
    <2>4. OfItsCall'
        BY <1>4, <2>1
    <2>5. QED
        BY <2>1, <2>2, <2>3, <2>4 DEF InjectedInTurn, OfItsCall
<1>6. CASE Inject /\ Injected
    <2>1. /\ phase = "call" /\ phase' = "poll" /\ at' = at /\ seen' = seen
          /\ rows' = rows /\ stored' = stored /\ cached' = cached
          /\ topic' = Append(topic, Owed(at, InjectedId))
        BY <1>6 DEF Inject, Injected
    <2>2. Len(topic) = at - 1 /\ cached = at - 1 /\ seen = 0
        BY <1>1, <2>1 DEF InjectedInTurn
    <2>3. at = 1 => rows.service[InjectedId] = Absent /\ rows.cache[InjectedId] = Absent
        BY <2>1 DEF InjectedInTurn
    <2>4. at \in DOMAIN script
        BY <1>1, <2>1, Injecting
    <2>5. /\ Owed(at, InjectedId) \in MessagesOf
          /\ Owed(at, InjectedId).call = at /\ IdOf(Owed(at, InjectedId)) = InjectedId
        BY <1>1, <2>4, OwedIsSound
    <2>6. /\ DOMAIN topic' = 1 .. at /\ Len(topic') = at
          /\ \A e \in 1 .. at - 1 : topic'[e] = topic[e]
          /\ topic'[at] = Owed(at, InjectedId)
        <3>1. Len(topic) + 1 = at
            BY <1>1, <2>2
        <3>2. QED
            BY <1>2, <2>1, <2>2, <2>5, <3>1, AppendIs
    <2>7. OfItsCall'
        <3>1. \A e \in 1 .. at : e \in 1 .. at - 1 \/ e = at
            BY <1>1
        <3>2. \A e \in 1 .. at - 1 : topic[e].call = e /\ IdOf(topic[e]) = InjectedId
            BY <1>2, <1>3, <2>2 DEF OfItsCall
        <3>3. QED
            BY <2>5, <2>6, <3>1, <3>2, Zenon DEF OfItsCall, IdOf
    <2>8. QED
        BY <1>1, <2>1, <2>2, <2>3, <2>6, <2>7 DEF InjectedInTurn, OfItsCall
<1>7. CASE Poll
    <2>1. /\ phase = "poll" /\ ~call.once /\ topic' = topic /\ rows' = rows
          /\ stored' = stored /\ cached' = cached
        BY <1>7 DEF Poll, serviceVars
    <2>2. at \in 1 .. 3 /\ call.checks = <<"service", "cache">>
        <3>1. at \in 1 .. 4
            BY <1>1, <2>1
        <3>2. at # 4
            BY <1>1, <2>1, <3>1, InjectedCalls, Zenon DEF call
        <3>3. at \in 1 .. 3
            BY <3>1, <3>2
        <3>4. QED
            BY <1>1, <3>3, InjectedCalls, Zenon DEF call
    <2>3. /\ Len(call.checks) = 2 /\ call.checks[1] = "service" /\ call.checks[2] = "cache"
        BY <2>2
    <2>4. seen \in {0, 1}
        <3>1. seen \in 0 .. 2 /\ seen < Len(call.checks)
            BY <2>1, TypedParts DEF ControlTyped
        <3>2. QED
            BY <2>3, <3>1
    <2>5. /\ \A e \in DOMAIN topic : topic[e].call = e /\ IdOf(topic[e]) = InjectedId
          /\ Len(topic) = at /\ cached >= at - 1
          /\ seen > 0 => stored = at
          /\ at = 1 /\ stored = 0 => rows.service[InjectedId] = Absent
          /\ at = 1 /\ cached = 0 => rows.cache[InjectedId] = Absent
        BY <2>1 DEF InjectedInTurn
    <2>6. OfItsCall'
        BY <1>4, <2>1
    <2>7. CASE seen' = 0 /\ at' = at /\ phase' = phase
        BY <2>1, <2>5, <2>6, <2>7 DEF InjectedInTurn, OfItsCall
    <2>8. CASE seen = 1 /\ Shows("cache") /\ GoTo(at + 1)
        <3>1. cached = at
            BY <2>1, <2>2, <2>8, NotYet
        <3>2. at' = at + 1 /\ phase' = "call"
            BY <1>1, <2>2, <2>8 DEF GoTo
        <3>3. QED
            BY <2>1, <2>2, <2>5, <2>6, <3>1, <3>2 DEF InjectedInTurn, OfItsCall
    <2>9. CASE seen = 0 /\ Shows("service") /\ seen' = 1 /\ at' = at /\ phase' = phase
        <3>1. stored = at
            BY <2>1, <2>2, <2>9, NotYet
        <3>2. QED
            BY <2>1, <2>2, <2>5, <2>6, <2>9, <3>1 DEF InjectedInTurn, OfItsCall
    <2>10. QED
        <3>1. \/ seen' = 0 /\ at' = at /\ phase' = phase
              \/ /\ Shows(call.checks[seen + 1])
                 /\ \/ seen + 1 = Len(call.checks) /\ GoTo(at + 1)
                    \/ /\ seen + 1 # Len(call.checks)
                       /\ seen' = seen + 1 /\ at' = at /\ phase' = phase
            BY <1>7 DEF Poll
        <3>2. CASE seen = 0
            <4>1. seen + 1 = 1 /\ seen + 1 # Len(call.checks)
                BY <2>3, <3>2
            <4>2. QED
                BY <2>3, <2>7, <2>9, <3>1, <3>2, <4>1
        <3>3. CASE seen = 1
            <4>1. seen + 1 = 2 /\ seen + 1 = Len(call.checks)
                BY <2>3, <3>3
            <4>2. QED
                BY <2>3, <2>7, <2>8, <3>1, <3>3, <4>1
        <3>4. QED
            BY <2>4, <3>2, <3>3
<1>8. CASE Looks
    <2>1. phase = "poll" /\ call.once /\ topic' = topic /\ GoTo(at + 1)
        BY <1>8 DEF Looks, LookOnce, serviceVars
    <2>2. at = 4
        <3>1. at \in 1 .. 4
            BY <1>1, <2>1
        <3>2. QED
            BY <1>1, <2>1, <3>1, InjectedCalls, Zenon DEF call
    <2>3. phase' = "done"
        BY <1>1, <2>1, <2>2 DEF GoTo
    <2>4. OfItsCall'
        BY <1>4, <2>1
    <2>5. QED
        BY <2>3, <2>4 DEF InjectedInTurn, OfItsCall
<1>9. CASE Store /\ Storing
    <2>1. /\ phase # "done" /\ phase' = phase /\ at' = at /\ seen' = seen /\ topic' = topic
        BY <1>9 DEF Store, suiteVars
    <2>2. /\ stored = cached /\ stored < Len(topic) /\ stored' = stored + 1 /\ cached' = cached
          /\ rows'.cache = rows.cache
        BY <1>9 DEF Storing
    <2>3. phase = "poll"
        BY <1>1, <1>2, <2>1, <2>2 DEF InjectedInTurn
    <2>4. /\ Len(topic) = at /\ cached >= at - 1 /\ (seen > 0 => stored = at)
          /\ at = 1 /\ cached = 0 => rows.cache[InjectedId] = Absent
        BY <2>3 DEF InjectedInTurn
    <2>5. ~(seen > 0) /\ stored' # 0
        BY <1>2, <2>2, <2>4
    <2>6. OfItsCall'
        BY <1>4, <2>1
    <2>7. QED
        BY <2>1, <2>2, <2>3, <2>4, <2>5, <2>6 DEF InjectedInTurn, OfItsCall
<1>10. CASE Cache /\ Caching
    <2>1. /\ phase # "done" /\ phase' = phase /\ at' = at /\ seen' = seen /\ topic' = topic
        BY <1>10 DEF Cache, suiteVars
    <2>2. cached < stored /\ stored' = stored /\ cached' = stored
        BY <1>10 DEF Caching
    <2>3. phase = "poll"
        BY <1>1, <1>2, <2>1, <2>2 DEF InjectedInTurn
    <2>4. Len(topic) = at /\ cached >= at - 1 /\ (seen > 0 => stored = at)
        BY <2>3 DEF InjectedInTurn
    <2>5. cached' >= at - 1 /\ cached' # 0 /\ stored' # 0
        BY <1>1, <1>2, <2>2, <2>4
    <2>6. OfItsCall'
        BY <1>4, <2>1
    <2>7. QED
        BY <2>1, <2>2, <2>3, <2>4, <2>5, <2>6 DEF InjectedInTurn, OfItsCall
<1>11. ~Request /\ ~Reads /\ ~Publish
    BY <1>1 DEF Request, Reads, Publish
<1>12. QED
    <2>1. \/ Clean \/ Poll \/ Looks \/ Inject
          \/ (Store /\ Storing) \/ (Cache /\ Caching)
        BY <1>11, Application, Zenon
    <2>2. Inject => Injected
        BY InjectPublishes
    <2>3. QED
        BY <1>5, <1>6, <1>7, <1>8, <1>9, <1>10, <2>1, <2>2

-----------------------------------------------------------------------------
(* The suites that ask sort-mistake. *)

LEMMA AnswerKeeps ==
    ASSUME suite' = suite, at' = at, node' = node, rows'.mistake = rows.mistake, NEW message
    PROVE  Answer(message)' <=> Answer(message)
<1>1. call' = call
    BY ScriptStays DEF call
<1>2. QED
    BY <1>1 DEF Answer, IdOf

LEMMA OneAtATimeStep ==
    ASSUME Typed, Orderly, suite' = suite, suite # "consumer", OneAtATime
    PROVE  OneAtATime'
<1>1. /\ suite \in Suites /\ ControlTyped /\ DOMAIN script = 1 .. 5 /\ Len(script) = 5
      /\ phase \in {"clean", "call", "answer", "poll", "done"}
    BY TypedParts, ProducingCall DEF ControlTyped
<1>2. /\ topic \in Seq(MessagesOf) /\ outbox \in Seq(MessagesOf)
      /\ Len(topic) \in Nat /\ Len(outbox) \in Nat /\ offset \in 0 .. Len(topic)
      /\ outbox = <<>> <=> Len(outbox) = 0
    BY Positions
<1>3. call' = script[at']
    BY ScriptStays
<1>4. ASSUME phase \notin {"clean", "done"}
      PROVE  at \in 1 .. 5 /\ (call.op # "delete" => call.name # Absent)
             /\ (call.op = "delete" => at = 5) /\ call.op \in Ops
    <2>1. at \in DOMAIN script
        BY <1>1, <1>4, InCall
    <2>2. call.op \in Ops /\ (call.op = "delete" <=> call.name = "")
        BY <1>1, <2>1, CallNamed DEF call
    <2>3. call.op = "delete" => at = 5
        BY <1>1, <2>1, ProducingCall DEF call
    <2>4. QED
        BY <1>1, <2>1, <2>2, <2>3 DEF Absent
\* a call whose answer is in ends
<1>5. ASSUME phase \notin {"clean", "done"}, GoTo(at + 1), outbox' = <<>>, offset' = Len(topic'),
             rows'.mistake[node'] = call.name
      PROVE  OneAtATime'
    <2>1. at' = at + 1 /\ (phase' = "call" \/ phase' = "done")
        BY <1>5 DEF GoTo
    <2>2. phase' = "call" => at' \in 1 .. 5 /\ at # 5
        BY <1>1, <1>4, <1>5, <2>1 DEF GoTo
    <2>3. phase' = "call" => rows'.mistake[node'] # Absent
        BY <1>4, <1>5, <2>2
    <2>4. phase' \notin {"clean", "answer", "poll"}
        BY <2>1
    <2>5. QED
        BY <1>5, <2>3, <2>4 DEF OneAtATime
<1>6. CASE Clean
    <2>1. /\ phase = "clean" /\ phase' = "call" /\ at' = at /\ topic' = topic /\ outbox' = outbox
          /\ offset' = offset
        BY <1>6 DEF Clean
    <2>2. at = 1 /\ outbox = <<>> /\ offset = Len(topic)
        BY <1>1, <2>1 DEF OneAtATime, ControlTyped, Shape
    <2>3. call'.op = "create"
        BY <1>1, <1>3, <2>1, <2>2, FirstCall
    <2>4. QED
        BY <2>1, <2>2, <2>3 DEF OneAtATime
<1>7. CASE Request
    <2>1. /\ phase = "call" /\ phase' = "answer" /\ at' = at /\ node' = node /\ offset' = offset
        BY <1>7 DEF Request
    <2>2. outbox = <<>> /\ offset = Len(topic)
        BY <2>1 DEF OneAtATime
    <2>3. PICK id : Requested(id)
        BY <1>7, RequestCommits
    <2>4. at \in DOMAIN script /\ id \in Ids /\ call' = call
        BY <1>1, <1>3, <1>4, <2>1, <2>3 DEF Requested, call
    <2>5. Owed(at, id) \in MessagesOf /\ Owed(at, id).call = at /\ IdOf(Owed(at, id)) = id
        BY <1>1, <2>4, OwedIsSound
    <2>6. Len(outbox') = 1 /\ outbox'[1] = Owed(at, id) /\ topic' = topic
        BY <1>2, <2>2, <2>3, <2>5, AppendIs DEF Requested
    <2> DEFINE message == outbox'[1]
    <2>7. message.call = at' /\ IdOf(message) = id
        BY <2>1, <2>5, <2>6
    <2>8. /\ call'.op # "create" => id = node'
          /\ rows'.mistake[id] = call'.name
        BY <2>1, <2>3, <2>4 DEF Requested
    <2>9. /\ outbox'[1].call = at'
          /\ call'.op # "create" => outbox'[1].events.node[1].id = node'
          /\ rows'.mistake[outbox'[1].events.node[1].id] = call'.name
        BY <2>7, <2>8 DEF IdOf
    <2>10. Awaiting'
        BY <2>1, <2>2, <2>6, <2>9 DEF Awaiting, Answer, IdOf
    <2>11. QED
        BY <2>1, <2>10 DEF OneAtATime
<1>8. CASE Reads
    <2>1. /\ phase = "answer" /\ offset < Len(topic) /\ offset' = offset + 1
          /\ node' = (IF call.op = "create" THEN IdOf(topic[offset + 1]) ELSE node)
          /\ rows' = rows /\ topic' = topic /\ outbox' = outbox
          /\ GoTo(at + 1) \/ (phase' = "poll" /\ at' = at)
        BY <1>8 DEF Reads, serviceVars
    <2>2. outbox = <<>> /\ Len(topic) = offset + 1 /\ Answer(topic[offset + 1])
        <3>1. Awaiting /\ offset # Len(topic)
            BY <1>2, <2>1 DEF OneAtATime
        <3>2. QED
            BY <3>1, Zenon DEF Awaiting
    <2> PICK message : message = topic[offset + 1]
        OBVIOUS
    <2>3. /\ message.call = at /\ (call.op # "create" => IdOf(message) = node)
          /\ rows.mistake[IdOf(message)] = call.name
        BY <2>2, Zenon DEF Answer
    <2>4. node' = IdOf(message)
        BY <2>1, <2>3
    <2>5. rows'.mistake[node'] = call.name
        BY <2>1, <2>3, <2>4
    <2>6. offset' = Len(topic') /\ outbox' = <<>> /\ Len(topic') > 0
        BY <1>2, <2>1, <2>2
    <2>7. CASE GoTo(at + 1)
        BY <1>5, <2>1, <2>5, <2>6, <2>7
    <2>8. CASE phase' = "poll" /\ at' = at
        <3>1. call' = call
            BY <1>3, <2>8 DEF call
        <3>2. topic'[Len(topic')] = message
            BY <2>1, <2>2
        <3>3. Answer(message)'
            BY <2>3, <2>4, <2>5, <2>8, <3>1 DEF Answer, IdOf
        <3>4. Answer(topic[Len(topic)])' /\ IdOf(topic[Len(topic)])' = node'
            BY <2>4, <3>2, <3>3 DEF Answer, IdOf
        <3>5. QED
            BY <2>6, <2>8, <3>4 DEF OneAtATime
    <2>9. QED
        BY <2>1, <2>7, <2>8
<1>9. CASE Poll
    <2>1. /\ phase = "poll" /\ rows' = rows /\ topic' = topic /\ outbox' = outbox
          /\ offset' = offset /\ node' = node
          /\ GoTo(at + 1) \/ (phase' = phase /\ at' = at)
        BY <1>9 DEF Poll, serviceVars
    <2>2. /\ outbox = <<>> /\ offset = Len(topic) /\ Len(topic) > 0
          /\ Answer(topic[Len(topic)]) /\ IdOf(topic[Len(topic)]) = node
        BY <2>1 DEF OneAtATime
    <2>3. CASE GoTo(at + 1)
        <3>1. rows'.mistake[node'] = call.name
            BY <2>1, <2>2 DEF Answer
        <3>2. QED
            BY <1>5, <2>1, <2>2, <2>3, <3>1
    <2>4. CASE phase' = phase /\ at' = at
        <3>1. Answer(topic[Len(topic)])' /\ IdOf(topic[Len(topic)])' = node'
            BY <2>1, <2>2, <2>4, AnswerKeeps DEF Answer, IdOf, call, script
        <3>2. QED
            BY <2>1, <2>2, <2>4, <3>1 DEF OneAtATime
    <2>5. QED
        BY <2>1, <2>3, <2>4
<1>10. CASE Publish /\ Arrived
    <2>1. /\ phase # "done" /\ phase' = phase /\ at' = at /\ node' = node /\ offset' = offset
          /\ rows' = rows
        BY <1>10 DEF Publish, PublishAs, suiteVars
    <2>2. outbox # <<>> /\ topic' = Append(topic, outbox[1]) /\ outbox' = Tail(outbox)
        BY <1>10 DEF Arrived
    <2>3. phase = "answer"
        BY <1>1, <2>1, <2>2 DEF OneAtATime
    <2>4. Len(outbox) = 1 /\ offset = Len(topic) /\ Answer(outbox[1])
        BY <2>2, <2>3, Zenon DEF OneAtATime, Awaiting
    <2>5. outbox[1] \in MessagesOf /\ Len(outbox') = 0 /\ outbox' \in Seq(MessagesOf)
        BY <1>2, <2>2, <2>4, TailIs
    <2>6. outbox' = <<>>
        BY <2>5, EmptySeq
    <2>7. Len(topic') = offset' + 1 /\ topic'[offset' + 1] = outbox[1]
        BY <1>2, <2>1, <2>2, <2>4, <2>5, AppendIs
    <2>8. Answer(topic[offset + 1])'
        BY <2>1, <2>4, <2>7 DEF Answer, IdOf, call, script
    <2>9. QED
        BY <2>1, <2>3, <2>6, <2>7, <2>8 DEF OneAtATime, Awaiting
<1>11. CASE (Store /\ Storing) \/ (Cache /\ Caching)
    <2>1. /\ phase' = phase /\ at' = at /\ node' = node /\ offset' = offset
          /\ topic' = topic /\ outbox' = outbox /\ rows'.mistake = rows.mistake
        BY <1>11 DEF Store, Storing, Cache, Caching, suiteVars
    <2>2. call' = call
        BY <1>3, <2>1 DEF call
    <2>3. QED
        BY <2>1, <2>2, Zenon DEF OneAtATime, Awaiting, Answer, IdOf
<1>12. ~Inject /\ ~Looks
    <2>1. ~Inject
        BY DEF Inject
    <2>2. ASSUME Looks PROVE FALSE
        <3>1. phase = "poll" /\ call.once
            BY <2>2 DEF Looks, LookOnce
        <3>2. at \in 1 .. 5
            BY <1>4, <3>1
        <3>3. QED
            BY <1>1, <3>1, <3>2, ProducingPolls DEF Polls, call
    <2>3. QED
        BY <2>1, <2>2
<1>13. Publish => Arrived
    BY PublishArrives
<1>14. \/ Clean \/ Request \/ Reads \/ Poll \/ Publish
       \/ (Store /\ Storing) \/ (Cache /\ Caching)
    BY <1>12, Application, Zenon
<1>15. QED
    BY <1>6, <1>7, <1>8, <1>9, <1>10, <1>11, <1>13, <1>14

-----------------------------------------------------------------------------
(* No step fails before the first misbehaviour, and none of the earlier    *)
(* steps after it.                                                         *)

Blamed ==
    faulty # <<>> =>
        /\ \A s \in failed : faulty[1] <= s
        /\ phase # "done" => faulty[1] <= step

Alarms == (faulty = <<>> => Healthy) /\ Blamed

LEMMA HealthyStep ==
    ASSUME Typed, Next, Healthy, faulty' = <<>>
    PROVE  Healthy'
<1>1. Orderly /\ failed' = {} /\ suite' = suite
    BY HealthyActs, Advances
<1>2. /\ AllSound /\ Shown
      /\ suite # "consumer" => OneAtATime
      /\ suite = "consumer" => InjectedInTurn
    BY DEF Healthy
<1>3. AllSound' /\ Shown'
    BY <1>1, <1>2, SoundStep, ShownStep
<1>4. suite # "consumer" => OneAtATime'
    BY <1>1, <1>2, OneAtATimeStep
<1>5. suite = "consumer" => InjectedInTurn'
    BY <1>1, <1>2, InTurnStep
<1>6. QED
    BY <1>1, <1>3, <1>4, <1>5 DEF Healthy

\* The record of misbehaviours only grows, at the step that is under way.
LEMMA FaultyGrows ==
    ASSUME Typed, Next
    PROVE  \/ faulty' = faulty
           \/ faulty' # <<>> /\ faulty'[1] = IF faulty = <<>> THEN step ELSE faulty[1]
<1>1. faulty' = faulty \/ Misbehave
    BY DEF Next, Progress, Deadline, Misbehaviour, Clean, Request, RequestNotFound, Inject,
           ReadNextSortNodeEvent, Poll, LookOnce, ReadTimesOut, PollTimesOut, Publish, Store,
           Cache, CleanFails, RequestFails, InjectFails, PublishMalformed, PublishAgain
<1>2. CASE Misbehave
    <2>1. faulty' = Append(faulty, step) /\ faulty \in Seq(0 .. 4) /\ step \in 0 .. 4
        BY <1>2, TypedParts, StepsGrow DEF Misbehave, CountersTyped
    <2>2. /\ Len(faulty) \in Nat /\ Len(faulty') = Len(faulty) + 1 /\ faulty' \in Seq(0 .. 4)
          /\ \A i \in 1 .. Len(faulty) : faulty'[i] = faulty[i]
          /\ faulty'[Len(faulty) + 1] = step
        BY <2>1, AppendIs
    <2>3. faulty' # <<>>
        BY <2>2, EmptySeq
    <2>4. CASE faulty = <<>>
        BY <2>2, <2>3, <2>4
    <2>5. CASE faulty # <<>>
        <3>1. Len(faulty) # 0
            BY <2>1, <2>5, EmptySeq
        <3>2. 1 \in 1 .. Len(faulty)
            BY <2>2, <3>1
        <3>3. QED
            BY <2>2, <2>3, <2>5, <3>2
    <2>6. QED
        BY <2>4, <2>5
<1>3. QED
    BY <1>1, <1>2

LEMMA AlarmsInit == Init => Alarms
<1> SUFFICES ASSUME Init PROVE Alarms
    OBVIOUS
<1>1. /\ faulty = <<>> /\ failed = {} /\ phase = "clean" /\ at = 1 /\ seen = 0
      /\ topic = <<>> /\ outbox = <<>> /\ offset = 0 /\ stored = 0 /\ cached = 0
    BY DEF Init
<1>2. Len(topic) = 0 /\ DOMAIN topic = {} /\ DOMAIN outbox = {}
    BY <1>1
<1>3. AllSound /\ Shown
    BY <1>1, <1>2 DEF AllSound, Shown
<1>4. OneAtATime /\ InjectedInTurn
    BY <1>1, <1>2 DEF OneAtATime, InjectedInTurn
<1>5. QED
    BY <1>1, <1>3, <1>4 DEF Alarms, Healthy, Blamed

LEMMA AlarmsStep == Typed /\ Alarms /\ [Next]_vars => Alarms'
<1> SUFFICES ASSUME Typed, Alarms, [Next]_vars PROVE Alarms'
    OBVIOUS
<1>1. CASE Next
    <2>1. /\ faulty' = faulty
             \/ (faulty' # <<>> /\ faulty'[1] = IF faulty = <<>> THEN step ELSE faulty[1])
        BY <1>1, FaultyGrows
    <2>2. /\ phase # "done" /\ failed' \subseteq failed \cup {step} /\ step \in 0 .. 4
          /\ phase' # "done" => step' \in step .. 4
        BY <1>1, Advances, StepsGrow
    <2>3. faulty' = <<>> => Healthy'
        BY <1>1, <2>1, HealthyStep DEF Alarms
    <2>4. Blamed'
        <3> SUFFICES ASSUME faulty' # <<>>
                     PROVE  /\ \A s \in failed' : faulty'[1] <= s
                            /\ phase' # "done" => faulty'[1] <= step'
            BY DEF Blamed
        <3>1. CASE faulty = <<>>
            <4>1. faulty'[1] = step /\ failed = {}
                BY <2>1, <3>1 DEF Alarms, Healthy
            <4>2. QED
                BY <2>2, <4>1
        <3>2. CASE faulty # <<>>
            <4>1. faulty'[1] = faulty[1] /\ faulty[1] <= step
                  /\ \A s \in failed : faulty[1] <= s
                BY <2>1, <2>2, <3>2 DEF Alarms, Blamed
            <4>2. faulty[1] \in 0 .. 4
                <5>1. faulty \in Seq(0 .. 4)
                    BY TypedParts DEF CountersTyped
                <5>2. QED
                    BY <3>2, <5>1, EmptySeq, ElementOfSeq
            <4>3. QED
                BY <2>2, <4>1, <4>2
        <3>3. QED
            BY <3>1, <3>2
    <2>5. QED
        BY <2>3, <2>4 DEF Alarms
<1>2. CASE UNCHANGED vars
    <2>1. /\ suite' = suite /\ at' = at /\ phase' = phase /\ node' = node /\ seen' = seen
          /\ failed' = failed /\ rows' = rows /\ outbox' = outbox /\ topic' = topic
          /\ offset' = offset /\ stored' = stored /\ cached' = cached /\ faulty' = faulty
        BY <1>2 DEF vars, suiteVars, serviceVars
    <2>2. script' = script /\ call' = call /\ step' = step
        BY <2>1, ScriptStays DEF call, step
    <2>3. AllSound' <=> AllSound
        BY <2>1, <2>2, Zenon DEF AllSound, Sound, IdOf
    <2>4. Shown' <=> Shown
        BY <2>1, <2>2, Zenon DEF Shown, IdOf
    <2>5. OneAtATime' <=> OneAtATime
        BY <2>1, <2>2, Zenon DEF OneAtATime, Awaiting, Answer, IdOf
    <2>6. InjectedInTurn' <=> InjectedInTurn
        BY <2>1, <2>2, Zenon DEF InjectedInTurn, IdOf
    <2>7. Healthy' <=> Healthy
        BY <2>1, <2>3, <2>4, <2>5, <2>6 DEF Healthy
    <2>8. Blamed' <=> Blamed
        BY <2>1, <2>2, Zenon DEF Blamed
    <2>9. QED
        BY <2>1, <2>7, <2>8 DEF Alarms
<1>3. QED
    BY <1>1, <1>2

\* No false alarm: whatever the suite, and however its steps interleave with
\* the services, a step fails only when a service has misbehaved in it or in an
\* earlier one (require.*, assert.* and assert.Eventually of the suites).
THEOREM AlarmsAreReal == Spec => []NoFalseAlarms
<1>1. Alarms => NoFalseAlarms
    <2> SUFFICES ASSUME Alarms, NEW s \in failed PROVE faulty # <<>> /\ faulty[1] <= s
        BY DEF NoFalseAlarms
    <2>1. faulty # <<>>
        BY DEF Alarms, Healthy
    <2>2. QED
        BY <2>1 DEF Alarms, Blamed
<1>2. QED
    BY <1>1, TypedInit, TypedStep, AlarmsInit, AlarmsStep, PTL DEF Spec

-----------------------------------------------------------------------------
(* A step that is not failed has seen its change: whatever shows in the    *)
(* database and in the cache got there with an event.                      *)

Position(place) == IF place = "service" THEN stored ELSE cached

Delivered(c, place) == \E e \in 1 .. Position(place) : topic[e].call = c

Copies == {"service", "cache"}    \* where sort-service keeps the nodes

Extends ==
    /\ Len(topic) \in Nat /\ Len(topic') \in Nat /\ Len(topic) <= Len(topic')
    /\ \A e \in 1 .. Len(topic) : topic'[e] = topic[e]

\* How the topic changes in the consumer suite.
Added ==
    /\ phase = "call" /\ topic' = Append(topic, Owed(at, InjectedId))
    /\ at' > at \/ (at' = at /\ phase' = "poll")
Doubled == topic # <<>> /\ topic' = Append(topic, topic[Len(topic)])

LEMMA TopicExtends ==
    ASSUME Typed, Next
    PROVE  Extends /\ (suite = "consumer" => Added \/ Doubled \/ topic' = topic)
<1>1. Typed' /\ suite' = suite
    BY TypedStep, Advances
<1>2. /\ topic \in Seq(MessagesOf) /\ Len(topic) \in Nat /\ DOMAIN topic = 1 .. Len(topic)
      /\ ControlTyped /\ suite \in Suites
    BY Positions, TypedParts DEF ControlTyped
<1>3. Len(topic') \in Nat /\ DOMAIN topic' = 1 .. Len(topic')
    <2>1. topic' \in Seq(MessagesOf')
        BY ServicesStep DEF ServicesTyped
    <2>2. QED
        BY <2>1
<1>4. CASE suite # "consumer"
    <2>1. \A e \in 1 .. Len(topic) : e \in 1 .. Len(topic') /\ topic'[e] = topic[e]
        BY <1>2, <1>3, <1>4, TopicGrows
    <2>2. Len(topic) <= Len(topic')
        <3>1. Len(topic) = 0 \/ Len(topic) \in 1 .. Len(topic)
            BY <1>2
        <3>2. QED
            BY <1>3, <2>1, <3>1
    <2>3. QED
        BY <1>2, <1>3, <1>4, <2>1, <2>2 DEF Extends
<1>5. CASE suite = "consumer"
    <2>0. topic' = topic => Extends
        BY <1>2 DEF Extends
    <2>1. ASSUME NEW message \in MessagesOf, topic' = Append(topic, message)
          PROVE  Extends
        BY <1>2, <1>3, <2>1, AppendIs DEF Extends
    <2>2. CASE Inject \/ InjectFails
        <3>1. phase = "call" /\ node = InjectedId
            BY <1>2, <1>5, <2>2 DEF Inject, InjectFails, ControlTyped, Shape
        <3>2. topic' = topic \/ topic' = Append(topic, Owed(at, InjectedId))
            BY <2>2, <3>1 DEF Inject, InjectFails, PublishSortNodeEvents, Owed, call
        <3>3. at' > at \/ (at' = at /\ phase' = "poll")
            <4>1. CASE Inject
                BY <4>1 DEF Inject
            <4>2. CASE InjectFails
                <5>1. at' \in at + 1 .. Len(script) + 1
                    BY <1>2, <3>1, <4>2, StopStepMoves DEF InjectFails
                <5>2. at \in 1 .. Len(script) /\ Len(script) \in {4, 5}
                    BY <1>2, <3>1, InCall
                <5>3. QED
                    BY <5>1, <5>2
            <4>3. QED
                BY <2>2, <4>1, <4>2
        <3>4. Owed(at, InjectedId) \in MessagesOf
            <4>1. at \in DOMAIN script /\ InjectedId \in Ids
                BY <1>2, <3>1, InCall DEF Ids
            <4>2. QED
                BY <1>2, <4>1, OwedIsSound
        <3>5. CASE topic' = topic
            BY <2>0, <3>5
        <3>6. CASE topic' = Append(topic, Owed(at, InjectedId))
            BY <2>1, <3>1, <3>3, <3>4, <3>6 DEF Added
        <3>7. QED
            BY <3>2, <3>5, <3>6
    <2>3. CASE PublishAgain
        <3>1. topic # <<>> /\ topic' = Append(topic, topic[Len(topic)])
            BY <2>3 DEF PublishAgain
        <3>2. topic[Len(topic)] \in MessagesOf
            BY <1>2, <3>1, EmptySeq, ElementOfSeq
        <3>3. QED
            BY <2>1, <3>1, <3>2 DEF Doubled
    <2>4. outbox = <<>> /\ phase # "answer"
        BY <1>2, <1>5 DEF ControlTyped, Shape
    <2>5. Inject \/ InjectFails \/ PublishAgain \/ topic' = topic
        BY <1>5, <2>4
        DEF Next, Progress, Deadline, Misbehaviour, Clean, Request, RequestNotFound,
            ReadNextSortNodeEvent, Poll, LookOnce, ReadTimesOut, PollTimesOut, Publish, Store,
            Cache, CleanFails, RequestFails, PublishMalformed, PublishAs, serviceVars
    <2>6. QED
        BY <2>0, <2>2, <2>3, <2>5
<1>6. QED
    BY <1>4, <1>5

LEMMA RowsEvolve ==
    ASSUME Typed, Next
    PROVE  Clean \/ Unapplied \/ (Store /\ Storing) \/ (Cache /\ Caching)
<1>1. rows \in [{"mistake", "service", "cache"} -> [Ids -> CallNames]]
    BY TypedParts DEF ServicesTyped
<1>2. CASE Store \/ Cache
    <2>1. Orderly
        BY <1>2 DEF Orderly
    <2>2. ~Clean
        BY <1>2, Positions, TypedParts, EmptySeq DEF Store, Cache, Clean, ControlTyped, Shape
    <2>3. QED
        BY <2>1, <2>2, Application, Zenon
<1>3. CASE Request \/ RequestFails
    <2>1. (Commit \/ rows' = rows) /\ stored' = stored /\ cached' = cached
        BY <1>3 DEF Request, RequestFails
    <2>2. ASSUME Commit PROVE rows'.service = rows.service /\ rows'.cache = rows.cache
        <3>1. \E value : rows' = [rows EXCEPT !["mistake"] = value]
            BY <2>2 DEF Commit
        <3>2. QED
            BY <1>1, <3>1
    <2>3. QED
        BY <2>1, <2>2 DEF Unapplied
<1>4. CASE \/ RequestNotFound \/ Inject \/ InjectFails \/ ReadNextSortNodeEvent \/ Poll \/ LookOnce
           \/ Deadline \/ Publish \/ PublishMalformed \/ PublishAgain \/ CleanFails
    BY <1>4 DEF RequestNotFound, Inject, InjectFails, ReadNextSortNodeEvent, Poll, LookOnce,
                Deadline, ReadTimesOut, PollTimesOut, Publish, PublishMalformed, PublishAgain,
                PublishAs, CleanFails, serviceVars, Unapplied
<1>5. QED
    BY <1>2, <1>3, <1>4 DEF Next, Progress, Misbehaviour

LEMMA PositionsGrow ==
    ASSUME Typed, Next, NEW place \in Copies
    PROVE  /\ Position(place) \in 0 .. Len(topic) /\ Position(place)' \in 0 .. Len(topic')
           /\ Position(place) <= Position(place)'
<1>1. /\ stored \in 0 .. Len(topic) /\ cached \in 0 .. stored /\ Len(topic) \in Nat
    BY Positions
<1>2. Position(place) \in 0 .. Len(topic)
    BY <1>1 DEF Position
<1>3. Position(place) <= Position(place)' /\ Position(place)' \in 0 .. Len(topic)
    <2>1. CASE Clean \/ Unapplied
        BY <1>1, <2>1 DEF Clean, Unapplied, Position
    <2>2. CASE Storing
        BY <1>1, <2>2 DEF Storing, Position
    <2>3. CASE Caching
        BY <1>1, <2>3 DEF Caching, Position
    <2>4. QED
        BY <2>1, <2>2, <2>3, RowsEvolve
<1>4. Len(topic) <= Len(topic') /\ Len(topic') \in Nat
    BY TopicExtends DEF Extends
<1>5. QED
    BY <1>1, <1>2, <1>3, <1>4

LEMMA DeliveredStays ==
    ASSUME Typed, Next, NEW place \in Copies, NEW c, Delivered(c, place)
    PROVE  Delivered(c, place)'
<1>1. PICK e \in 1 .. Position(place) : topic[e].call = c
    BY DEF Delivered
<1>2. e \in 1 .. Len(topic) /\ e \in 1 .. Position(place)'
    <2>1. /\ Position(place) \in 0 .. Len(topic) /\ Position(place)' \in 0 .. Len(topic')
          /\ Position(place) <= Position(place)'
        BY PositionsGrow
    <2>2. Len(topic) \in Nat /\ Len(topic') \in Nat
        BY TopicExtends DEF Extends
    <2>3. QED
        BY <2>1, <2>2
<1>3. topic'[e] = topic[e]
    BY <1>2, TopicExtends DEF Extends
<1>4. QED
    BY <1>1, <1>2, <1>3 DEF Delivered

\* How a copy changes: by the event next in turn.
Untouched(place) == rows'[place] = rows[place] /\ Position(place)' = Position(place)
Turned(place, e) ==
    /\ e \in 1 .. Len(topic) /\ Position(place)' = e
    /\ rows'[place] = Applied(rows[place], topic[e].events)

LEMMA CopyMoves ==
    ASSUME Typed, Next, NEW place \in Copies
    PROVE  Clean \/ Untouched(place) \/ \E e \in 1 .. Len(topic) : Turned(place, e)
<1>1. stored \in 0 .. Len(topic) /\ cached \in 0 .. stored /\ Len(topic) \in Nat
    BY Positions
<1>2. place = "service" \/ place = "cache"
    BY DEF Copies
<1>3. CASE Unapplied
    BY <1>2, <1>3 DEF Unapplied, Untouched, Position
<1>4. CASE Storing
    <2>1. stored + 1 \in 1 .. Len(topic)
        BY <1>1, <1>4 DEF Storing
    <2>2. CASE place = "service"
        <3>1. Turned(place, stored + 1)
            BY <1>4, <2>1, <2>2 DEF Storing, Turned, Position
        <3>2. QED
            BY <2>1, <3>1
    <2>3. CASE place = "cache"
        BY <1>4, <2>3 DEF Storing, Untouched, Position
    <2>4. QED
        BY <1>2, <2>2, <2>3
<1>5. CASE Caching
    <2>1. stored \in 1 .. Len(topic)
        BY <1>1, <1>5 DEF Caching
    <2>2. CASE place = "cache"
        <3>1. Turned(place, stored)
            BY <1>5, <2>1, <2>2 DEF Caching, Turned, Position
        <3>2. QED
            BY <2>1, <3>1
    <2>3. CASE place = "service"
        BY <1>5, <2>3 DEF Caching, Untouched, Position
    <2>4. QED
        BY <1>2, <2>2, <2>3
<1>6. QED
    BY <1>3, <1>4, <1>5, RowsEvolve

\* Every name in the database and in the cache came with an event.
OriginAt(place, id) ==
    \/ rows[place][id] \in {Absent, "SEEDED"}
    \/ \E e \in 1 .. Position(place) :
           topic[e].events.node # <<>> /\ topic[e].events.node[1].name = rows[place][id]

Origin == \A place \in Copies, id \in Ids : OriginAt(place, id)

LEMMA AppliedValue ==
    ASSUME NEW names \in [Ids -> CallNames], NEW events \in EventMessages, NEW id \in Ids
    PROVE  \/ Applied(names, events)[id] \in {names[id], Absent}
           \/ events.node # <<>> /\ Applied(names, events)[id] = events.node[1].name
<1>1. CASE events.node = <<>> \/ ~ValidateSortNodeEventSchema(events.node[1], Unspecified)
    BY <1>1 DEF Applied
<1>2. CASE events.node # <<>> /\ ValidateSortNodeEventSchema(events.node[1], Unspecified)
    <2> DEFINE new == events.node[1]
               value == CASE new.nodeEvent = Deleted -> Absent
                          [] new.nodeEvent \in {Created, Updated} -> new.name
                          [] OTHER -> names[new.id]
    <2> HIDE DEF new
    <2>1. value \in {Absent, new.name, names[new.id]}
        BY Zenon
    <2>2. Applied(names, events) = [names EXCEPT ![new.id] = value]
        BY <1>2, Zenon DEF Applied, new
    <2> HIDE DEF value
    <2>3. Applied(names, events)[id] = names[id]
          \/ (id = new.id /\ Applied(names, events)[id] = value)
        BY <2>2
    <2>4. QED
        BY <1>2, <2>1, <2>3 DEF new
<1>3. QED
    BY <1>1, <1>2

LEMMA OriginStep == ASSUME Typed, Next, Origin PROVE Origin'
<1> SUFFICES ASSUME NEW place \in Copies, NEW id \in Ids PROVE OriginAt(place, id)'
    BY DEF Origin
<1>1. /\ rows \in [{"mistake", "service", "cache"} -> [Ids -> CallNames]]
      /\ topic \in Seq(MessagesOf) /\ stored \in 0 .. Len(topic)
    BY Positions, TypedParts DEF ServicesTyped
<1>2. OriginAt(place, id)
    BY DEF Origin
<1>3. ASSUME rows'[place][id] = rows[place][id] PROVE OriginAt(place, id)'
    <2>1. CASE rows[place][id] \in {Absent, "SEEDED"}
        BY <1>3, <2>1 DEF OriginAt
    <2>2. ASSUME NEW e \in 1 .. Position(place), topic[e].events.node # <<>>,
                 topic[e].events.node[1].name = rows[place][id]
          PROVE  OriginAt(place, id)'
        <3>1. e \in 1 .. Position(place)' /\ e \in 1 .. Len(topic)
            <4>1. /\ Position(place) \in 0 .. Len(topic) /\ Position(place)' \in 0 .. Len(topic')
                  /\ Position(place) <= Position(place)'
                BY PositionsGrow
            <4>2. Len(topic) \in Nat /\ Len(topic') \in Nat
                BY TopicExtends DEF Extends
            <4>3. QED
                BY <4>1, <4>2
        <3>2. topic'[e] = topic[e]
            BY <3>1, TopicExtends DEF Extends
        <3>3. QED
            BY <1>3, <2>2, <3>1, <3>2, Zenon DEF OriginAt
    <2>3. QED
        BY <1>2, <2>1, <2>2 DEF OriginAt
<1>4. CASE Clean
    <2>1. rows' = FlushRedis(TruncateTables(rows))
        BY <1>4 DEF Clean
    <2>2. rows'[place] \in {rows[place], NoRows}
        BY <1>1, <2>1 DEF FlushRedis, TruncateTables, Copies
    <2>3. CASE rows'[place] = rows[place]
        BY <1>3, <2>3
    <2>4. CASE rows'[place] = NoRows
        <3>1. rows'[place][id] = Absent
            BY <2>4 DEF NoRows
        <3>2. QED
            BY <3>1 DEF OriginAt
    <2>5. QED
        BY <2>2, <2>3, <2>4
<1>5. CASE Untouched(place)
    BY <1>3, <1>5 DEF Untouched
<1>6. ASSUME NEW e \in 1 .. Len(topic), Turned(place, e) PROVE OriginAt(place, id)'
    <2>0. e \in 1 .. Position(place)' /\ rows'[place] = Applied(rows[place], topic[e].events)
        BY <1>6 DEF Turned
    <2>1. topic[e].events \in EventMessages /\ topic'[e] = topic[e]
        <3>1. topic[e] \in MessagesOf
            BY <1>1, ElementOfSeq
        <3>2. QED
            BY <3>1, TopicExtends DEF MessagesOf, EventMessages, Extends
    <2>2. rows[place] \in [Ids -> CallNames]
        BY <1>1 DEF Copies
    <2> DEFINE value == rows'[place][id]
    <2>3. \/ value \in {rows[place][id], Absent}
          \/ topic[e].events.node # <<>> /\ value = topic[e].events.node[1].name
        BY <2>0, <2>1, <2>2, AppliedValue
    <2>4. CASE value = rows[place][id]
        BY <1>3, <2>4
    <2>5. CASE value = Absent
        BY <2>5 DEF OriginAt
    <2>6. CASE topic[e].events.node # <<>> /\ value = topic[e].events.node[1].name
        BY <2>0, <2>1, <2>6, Zenon DEF OriginAt
    <2>7. QED
        BY <2>3, <2>4, <2>5, <2>6
<1>7. QED
    BY <1>4, <1>5, <1>6, CopyMoves

\* What was applied last shows, if it was a creation.
Creates(events) ==
    /\ events.node # <<>> /\ ValidateSortNodeEventSchema(events.node[1], Unspecified)
    /\ events.node[1].nodeEvent = Created

NewIn(message, id, name) ==
    /\ Creates(message.events)
    /\ message.events.node[1].id = id /\ message.events.node[1].name = name

LastShowsAt(place, e) ==
    \A id \in Ids, name \in CallNames : NewIn(topic[e], id, name) => rows[place][id] = name

LastShows ==
    \A place \in Copies : Position(place) > 0 => LastShowsAt(place, Position(place))

LEMMA CreationShows ==
    ASSUME NEW names \in [Ids -> CallNames], NEW message, NEW id \in Ids, NEW name,
           NewIn(message, id, name)
    PROVE  Yields(names, message.events, id, name)
<1> DEFINE events == message.events
           new == events.node[1]
           value == CASE new.nodeEvent = Deleted -> Absent
                      [] new.nodeEvent \in {Created, Updated} -> new.name
                      [] OTHER -> names[new.id]
<1>1. /\ events.node # <<>> /\ ValidateSortNodeEventSchema(new, Unspecified)
      /\ new.nodeEvent = Created /\ new.id = id /\ new.name = name
    BY DEF NewIn, Creates
<1> HIDE DEF new
<1>2. Applied(names, events) = [names EXCEPT ![new.id] = value]
    BY <1>1, Zenon DEF Applied, new
<1>3. value = name
    <2>1. Deleted # Created
        BY Numbers
    <2>2. QED
        BY <1>1, <2>1, Zenon
<1> HIDE DEF value, events
<1>4. QED
    BY <1>1, <1>2, <1>3 DEF Yields, events

LEMMA LastShowsStep == ASSUME Typed, Next, LastShows PROVE LastShows'
<1> SUFFICES ASSUME NEW place \in Copies, Position(place)' > 0,
                    NEW id \in Ids, NEW name \in CallNames,
                    NewIn(topic'[Position(place)'], id, name)
             PROVE  rows'[place][id] = name
    BY DEF LastShows, LastShowsAt, NewIn, Creates
<1>1. /\ rows \in [{"mistake", "service", "cache"} -> [Ids -> CallNames]]
      /\ rows[place] \in [Ids -> CallNames]
    BY TypedParts DEF ServicesTyped, Copies
<1>2. Position(place) \in 0 .. Len(topic) /\ Len(topic) \in Nat
      /\ \A e \in 1 .. Len(topic) : topic'[e] = topic[e]
    BY PositionsGrow, TopicExtends DEF Extends
<1>3. CASE Clean
    <2>1. topic = <<>> /\ UNCHANGED <<stored, cached>>
        BY <1>3, TypedParts DEF Clean, ControlTyped, Shape
    <2>2. Position(place)' = Position(place) /\ Len(topic) = 0
        BY <2>1 DEF Position
    <2>3. QED
        BY <1>2, <2>2
<1>4. CASE Untouched(place)
    <2>1. Position(place)' = Position(place) /\ rows'[place] = rows[place]
        BY <1>4 DEF Untouched
    <2>2. topic'[Position(place)'] = topic[Position(place)] /\ Position(place) > 0
        BY <1>2, <2>1
    <2>3. NewIn(topic[Position(place)], id, name)
        BY <2>2
    <2>4. LastShowsAt(place, Position(place))
        BY <2>2 DEF LastShows
    <2>5. QED
        BY <2>1, <2>3, <2>4 DEF LastShowsAt
<1>5. ASSUME NEW e \in 1 .. Len(topic), Turned(place, e) PROVE rows'[place][id] = name
    <2>1. Position(place)' = e /\ rows'[place] = Applied(rows[place], topic[e].events)
        BY <1>5 DEF Turned
    <2>2. topic'[Position(place)'] = topic[e]
        BY <1>2, <2>1
    <2>3. NewIn(topic[e], id, name)
        BY <2>2
    <2>4. Yields(rows[place], topic[e].events, id, name)
        BY <1>1, <2>3, CreationShows
    <2>5. QED
        BY <2>1, <2>4 DEF Yields
<1>6. QED
    BY <1>3, <1>4, <1>5, CopyMoves

\* Where the suite itself publishes, a copy holds what it took last.
Taken(place) ==
    IF Position(place) = 0 THEN Absent ELSE script[topic[Position(place)].call].name

Copied ==
    /\ \A e \in DOMAIN topic : topic[e].call <= at
    /\ phase \in {"call", "poll"} => \A place \in Copies : rows[place][InjectedId] = Taken(place)

LEMMA CleaningEnds ==
    ASSUME Typed, Next, phase = "clean", phase' # "clean"
    PROVE  Clean \/ phase' = "done"
<1>1. CleanFails => phase' = "done"
    <2>1. Len(script) \in Nat
        BY TypedParts, FirstCall DEF ControlTyped
    <2>2. QED
        BY <2>1 DEF CleanFails, GoTo
<1>2. QED
    BY <1>1
    DEF Next, Progress, Deadline, Misbehaviour, Clean, Request, RequestNotFound, Inject,
        ReadNextSortNodeEvent, Poll, LookOnce, ReadTimesOut, PollTimesOut, Publish, Store,
        Cache, RequestFails, InjectFails, PublishMalformed, PublishAgain, PublishAs, suiteVars

LEMMA CallsPast ==
    ASSUME Typed, Next, suite = "consumer", \A e \in DOMAIN topic : topic[e].call <= at
    PROVE  \A e \in DOMAIN topic' : topic'[e].call <= at'
<1>1. /\ topic \in Seq(MessagesOf) /\ Len(topic) \in Nat /\ DOMAIN topic = 1 .. Len(topic)
      /\ ControlTyped /\ suite \in Suites
    BY Positions, TypedParts DEF ControlTyped
<1>2. Len(script) = 4 /\ DOMAIN script = 1 .. 4 /\ at \in 1 .. 5 /\ at' \in at .. 5
    <2>1. Len(script) = 4 /\ DOMAIN script = 1 .. 4
        BY <1>1, InjectedCalls
    <2>2. QED
        BY <1>1, <2>1, Advances DEF ControlTyped
<1>3. \A message \in MessagesOf : message.call \in 1 .. 4
    BY <1>2 DEF MessagesOf
<1>4. \A e \in DOMAIN topic : topic[e].call \in 1 .. 4 /\ topic[e].call <= at'
    <2> SUFFICES ASSUME NEW e \in DOMAIN topic PROVE topic[e].call \in 1 .. 4 /\ topic[e].call <= at'
        OBVIOUS
    <2>1. topic[e] \in MessagesOf
        BY <1>1, ElementOfSeq
    <2>2. topic[e].call \in 1 .. 4 /\ topic[e].call <= at
        BY <1>3, <2>1
    <2>3. QED
        BY <1>2, <2>2
<1>5. CASE topic' = topic
    BY <1>4, <1>5
<1>6. ASSUME NEW message, message.call <= at', topic' = Append(topic, message)
      PROVE  \A e \in DOMAIN topic' : topic'[e].call <= at'
    BY <1>1, <1>4, <1>6
<1>7. CASE Added
    <2>1. Owed(at, InjectedId).call = at
        BY DEF Owed
    <2>2. QED
        BY <1>2, <1>6, <1>7, <2>1 DEF Added
<1>8. CASE Doubled
    <2>1. Len(topic) \in DOMAIN topic
        BY <1>1, <1>8, EmptySeq DEF Doubled
    <2>2. QED
        BY <1>4, <1>6, <1>8, <2>1 DEF Doubled
<1>9. QED
    BY <1>5, <1>7, <1>8, TopicExtends

LEMMA CopiedStep ==
    ASSUME Typed, Next, suite = "consumer", FixturesAsBuilt, Copied
    PROVE  Copied'
<1>0. ControlTyped /\ suite \in Suites /\ suite' = suite /\ InjectedId \in Ids
    BY TypedParts, Advances DEF ControlTyped, Ids
<1>1. script' = script /\ \A e \in DOMAIN topic' : topic'[e].call <= at'
    BY <1>0, CallsPast, ScriptStays DEF Copied
<1> SUFFICES ASSUME phase' \in {"call", "poll"}, NEW place \in Copies
             PROVE  rows'[place][InjectedId] = Taken(place)'
    BY <1>1 DEF Copied
<1>2. /\ rows \in [{"mistake", "service", "cache"} -> [Ids -> CallNames]]
      /\ rows[place] \in [Ids -> CallNames]
    BY TypedParts DEF ServicesTyped, Copies
<1>3. /\ Position(place) \in 0 .. Len(topic) /\ Len(topic) \in Nat
      /\ \A e \in 1 .. Len(topic) : topic'[e] = topic[e]
      /\ DOMAIN topic = 1 .. Len(topic)
    BY PositionsGrow, TopicExtends, Positions DEF Extends
<1>4. CASE Clean
    <2>1. topic = <<>> /\ UNCHANGED <<stored, cached>>
        BY <1>4, TypedParts DEF Clean, ControlTyped, Shape
    <2>2. Position(place)' = 0
        BY <1>3, <2>1 DEF Position
    <2>3. rows' = FlushRedis(TruncateTables(rows)) /\ CheckTables = {"service"}
        BY <1>4 DEF Clean, CheckTables
    <2>4. rows'[place] = NoRows
        BY <1>2, <2>3 DEF FlushRedis, TruncateTables, Copies
    <2>5. QED
        BY <1>0, <2>2, <2>4 DEF Taken, NoRows
<1>5. CASE ~Clean /\ Untouched(place)
    <2>1. Position(place)' = Position(place) /\ rows'[place] = rows[place]
        BY <1>5 DEF Untouched
    <2>2. phase \in {"call", "poll"}
        <3>1. phase \in {"clean", "call", "poll", "done"} /\ phase # "done"
            BY <1>0, Advances DEF ControlTyped, Shape
        <3>2. QED
            BY <1>5, <3>1, CleaningEnds
    <2>3. rows[place][InjectedId] = Taken(place)
        BY <2>2 DEF Copied
    <2>4. Position(place) # 0 => topic'[Position(place)'] = topic[Position(place)]
        BY <1>3, <2>1
    <2>5. Taken(place)' = Taken(place)
        BY <1>1, <2>1, <2>4 DEF Taken
    <2>6. QED
        BY <2>1, <2>3, <2>5
<1>6. ASSUME NEW e \in 1 .. Len(topic), Turned(place, e)
      PROVE  rows'[place][InjectedId] = Taken(place)'
    <2>1. Position(place)' = e /\ rows'[place] = Applied(rows[place], topic[e].events)
        BY <1>6 DEF Turned
    <2> DEFINE asked == script[topic[e].call]
    <2>2. topic[e].call \in DOMAIN script /\ topic[e].events = Event(asked.op, InjectedId, asked.name)
        BY <1>3 DEF FixturesAsBuilt, AsBuilt
    <2>3. asked.op \in Ops /\ (asked.op = "delete" <=> asked.name = "")
        BY <1>0, <2>2, CallNamed
    <2> HIDE DEF asked
    <2>4. Yields(rows[place], topic[e].events, InjectedId, asked.name)
        <3>1. PICK op, name : op = asked.op /\ name = asked.name
            OBVIOUS
        <3>2. op \in Ops /\ (op = "delete" <=> name = "")
            BY <2>3, <3>1
        <3>3. Yields(rows[place], Event(op, InjectedId, name), InjectedId, name)
            BY <1>0, <1>2, <3>2, AppliedShows
        <3>4. QED
            BY <2>2, <3>1, <3>3
    <2>5. Taken(place)' = asked.name
        BY <1>1, <1>3, <2>1 DEF Taken, asked
    <2>6. QED
        BY <2>1, <2>4, <2>5 DEF Yields
<1>7. QED
    BY <1>4, <1>5, <1>6, CopyMoves

-----------------------------------------------------------------------------
(* Where sort-mistake publishes, a name that shows names the call.         *)

LEMMA NoneSeeded ==
    ASSUME suite \in Suites, suite # "consumer", NEW c \in 1 .. 4
    PROVE  script[c].name \notin {Absent, "SEEDED", "WRONG"}
<1>1. c = 1 \/ c = 2 \/ c = 3 \/ c = 4
    OBVIOUS
<1>2. E2E[c].name # "SEEDED"
    <2>1. /\ E2E[1].name = "ALPHA" /\ E2E[2].name = "UPDATE TARGET"
          /\ E2E[3].name = "ALPHA UPDATED" /\ E2E[4].name = "DELETE TARGET"
        BY DEF E2E, Call
    <2>2. QED
        BY <1>1, <2>1
<1>3. Producer[c].name # "SEEDED"
    <2>1. /\ Producer[1].name = "ALPHA" /\ Producer[2].name = "UPDATE TARGET"
          /\ Producer[3].name = "ALPHA UPDATED" /\ Producer[4].name = "DELETE TARGET"
        BY DEF Producer, Call
    <2>2. QED
        BY <1>1, <2>1
<1>4. script = E2E \/ script = Producer
    BY SuitesAssumption DEF script, Script
<1>5. script[c].name \notin {"", "WRONG"}
    BY ProducingCall DEF ProducingNames
<1>6. QED
    BY <1>2, <1>3, <1>4, <1>5 DEF Absent

LEMMA NamedDelivers ==
    ASSUME Typed, suite # "consumer", Named, Origin, NEW place \in Copies, node \in Ids,
           NEW c \in 1 .. 4, rows[place][node] = script[c].name
    PROVE  Delivered(c, place)
<1>1. suite \in Suites
    BY TypedParts DEF ControlTyped
<1>2. script[c].name \notin {Absent, "SEEDED", "WRONG"}
    BY <1>1, NoneSeeded
<1>3. PICK e \in 1 .. Position(place) :
          topic[e].events.node # <<>> /\ topic[e].events.node[1].name = script[c].name
    BY <1>2, Zenon DEF Origin, OriginAt
<1>4. e \in DOMAIN topic /\ topic[e].call \in 1 .. 5
    <2>1. stored \in 0 .. Len(topic) /\ cached \in 0 .. stored
          /\ Len(topic) \in Nat /\ DOMAIN topic = 1 .. Len(topic)
        BY Positions
    <2>2. Position(place) \in 0 .. Len(topic)
        BY <2>1 DEF Position
    <2>3. e \in DOMAIN topic
        BY <2>1, <2>2
    <2>4. QED
        BY <2>3, Calls
<1>5. script[c].name \in {script[topic[e].call].name, "", "WRONG"}
    BY <1>3, <1>4, Zenon DEF Named, WellNamed
<1>6. script[c].name = script[topic[e].call].name
    BY <1>2, <1>5 DEF Absent
<1>7. c = topic[e].call
    <2>1. \A a, b \in 1 .. 5 : script[a].name = script[b].name => a = b
        BY <1>1, ProducingCall, Zenon DEF ProducingNames
    <2>2. c \in 1 .. 5
        OBVIOUS
    <2>3. QED
        BY <1>4, <1>6, <2>1, <2>2, Zenon
<1>8. QED
    BY <1>7 DEF Delivered

-----------------------------------------------------------------------------
(* The deletion has no name: an empty row shows it only because the        *)
(* creation of the node is known to have been there.                       *)

Deleting == (at = 4 /\ phase = "poll") \/ at = 5

\* The event that created the node to be deleted.
Target(message) == message.call = 4 /\ NewIn(message, node, script[4].name)

Prepared == Unfailed(3) /\ Deleting => \E e \in DOMAIN topic : Target(topic[e])

\* Only the answer to the creation leads to the deletion.
LEMMA DeletingStays ==
    ASSUME Typed, Next, suite # "consumer", Deleting', ~(ReadNextSortNodeEvent /\ at = 4)
    PROVE  Deleting /\ node' = node /\ phase # "clean"
<1>1. ControlTyped /\ suite \in Suites /\ Len(script) = 5
    BY TypedParts, ProducingCall DEF ControlTyped
<1>2. at \in 1 .. 6 /\ (phase \notin {"clean", "done"} => at \in 1 .. 5)
    BY <1>1, InCall, Calls
<1>3. (at' = 4 /\ phase' = "poll") \/ at' = 5
    BY DEF Deleting
<1>4. ~(Clean \/ CleanFails)
    <2>1. ASSUME Clean \/ CleanFails PROVE at' \in {1, 6}
        <3>1. phase = "clean"
            BY <2>1 DEF Clean, CleanFails
        <3>2. at = 1
            BY <1>1, <3>1 DEF ControlTyped, Shape
        <3>3. QED
            BY <1>1, <2>1, <3>2 DEF Clean, CleanFails, GoTo
    <2>2. QED
        BY <1>3, <2>1
<1>5. ASSUME StopStep, phase \notin {"clean", "done"} PROVE FALSE
    <2>1. at' \in {2, 4, 6} /\ phase' = IF at' > Len(script) THEN "done" ELSE "call"
        BY <1>1, <1>5, StopStepMoves
    <2>2. at' # 5 /\ phase' # "poll"
        BY <2>1
    <2>3. QED
        BY <1>3, <2>2
<1>6. ~(RequestNotFound \/ RequestFails \/ ReadTimesOut)
    BY <1>5 DEF RequestNotFound, RequestFails, ReadTimesOut
<1>7. ASSUME GoTo(at + 1) PROVE at = 4
    <2>1. at' = at + 1 /\ phase' # "poll"
        BY <1>7 DEF GoTo
    <2>2. at' = 5
        BY <1>3, <2>1, Zenon
    <2>3. QED
        BY <1>2, <2>1, <2>2
<1>8. CASE ReadNextSortNodeEvent
    <2>1. phase = "answer" /\ call = script[at] /\ at \in 1 .. 5 /\ at # 4
        BY <1>2, <1>8 DEF ReadNextSortNodeEvent, call
    <2>2. ~StopStep
        BY <1>5, <2>1
    <2>3. /\ GoTo(at + 1) \/ (phase' = "poll" /\ at' = at)
          /\ node' = IF call.op = "create" THEN topic[offset + 1].events.node[1].id ELSE node
        BY <1>8, <2>2, Zenon DEF ReadNextSortNodeEvent
    <2>4. at = 5
        BY <1>3, <1>7, <2>1, <2>3
    <2>5. call.op # "create"
        BY <1>1, <2>1, <2>4, ProducingCall
    <2>6. QED
        BY <2>1, <2>3, <2>4, <2>5 DEF Deleting
<1>9. CASE Request
    BY <1>3, <1>9 DEF Request, Deleting
<1>10. CASE Poll \/ PollTimesOut \/ LookOnce
    <2>1. phase = "poll" /\ node' = node /\ (GoTo(at + 1) \/ (at' = at /\ phase' = phase))
        BY <1>10 DEF Poll, PollTimesOut, LookOnce
    <2>2. QED
        BY <1>3, <1>7, <2>1 DEF Deleting
<1>11. CASE Publish \/ PublishMalformed \/ PublishAgain \/ Store \/ Cache
    <2>1. at' = at /\ phase' = phase /\ node' = node
        BY <1>11 DEF Publish, PublishMalformed, PublishAgain, PublishAs, Store, Cache, suiteVars
    <2>2. phase # "clean"
        <3>1. phase = "clean" => at = 1
            BY <1>1 DEF ControlTyped, Shape
        <3>2. QED
            BY <1>3, <2>1, <3>1
    <2>3. QED
        BY <1>3, <2>1, <2>2 DEF Deleting
<1>12. CASE Inject \/ InjectFails
    BY <1>12 DEF Inject, InjectFails
<1>13. QED
    BY <1>4, <1>6, <1>8, <1>9, <1>10, <1>11, <1>12 DEF Next, Progress, Deadline, Misbehaviour

\* An answer that passes for a creation created the node it names.
LEMMA PassedCreates ==
    ASSUME Typed, NEW e \in DOMAIN topic, NEW asked, asked.op = "create", asked.name # "",
           NEW id, Verdict(asked, id, topic[e].events) = Pass
    PROVE  NewIn(topic[e], topic[e].events.node[1].id, asked.name)
<1> DEFINE events == topic[e].events
           expected == Expected(asked, id)
<1>1. AssertSortNodeEventsContract(events, expected) = Pass
    <2>1. asked.op \in Ops
        BY DEF Ops
    <2>2. QED
        BY <2>1, VerdictIs, Zenon
<1>2. expected.nodeEvent = Created /\ expected.name = asked.name
    BY Numbers DEF Expected, ExpectedSortNode
<1> HIDE DEF expected
<1>3. Pass # Stop
    BY DEF Pass, Stop
<1>4. /\ events.node # <<>> /\ ValidateSortNodeEventSchema(events.node[1], expected.nodeEvent)
      /\ expected.name \in {"", events.node[1].name}
      /\ events.node[1].nodeEvent = expected.nodeEvent
    BY <1>1, <1>3, Judgement, Zenon
<1>5. ValidateSortNodeEventSchema(events.node[1], Unspecified)
    BY <1>4, Zenon DEF ValidateSortNodeEventSchema
<1>6. events.node[1].name = asked.name
    BY <1>2, <1>4
<1>7. QED
    BY <1>2, <1>4, <1>5, <1>6, Zenon DEF NewIn, Creates

LEMMA PreparedStep ==
    ASSUME Typed, Next, suite # "consumer", Ordered, Named, Armed, Prepared
    PROVE  Prepared'
<1>1. script' = script /\ call = script[at]
    BY Advances, ScriptStays DEF call
<1> SUFFICES ASSUME Unfailed(3)', Deleting'
             PROVE  \E e \in DOMAIN topic' :
                        topic'[e].call = 4 /\ NewIn(topic'[e], node', script[4].name)
    BY <1>1, Zenon DEF Prepared, Target, NewIn, Creates
<1>2. {0, 3} \cap failed' = {}
    BY DEF Unfailed
<1>3. \A e \in DOMAIN topic : e \in DOMAIN topic' /\ topic'[e] = topic[e]
    BY TopicGrows
<1>4. CASE ReadNextSortNodeEvent /\ at = 4
    <2>1. suite \in Suites
        BY TypedParts DEF ControlTyped
    <2>2. call = script[4] /\ call.step = 3 /\ call.op = "create" /\ call.name # ""
        <3>1. 4 \in 1 .. 4 /\ 4 \in 1 .. 5 /\ 4 \in {1, 2, 4}
            OBVIOUS
        <3>2. script[4].name # ""
            BY <2>1, <3>1, NoneSeeded, Zenon DEF Absent
        <3>3. script[4].op = "create"
            BY <1>4, <2>1, <3>1, ProducingCall, Zenon
        <3>4. script[4].step = 3
            <4>1. \A c \in 1 .. 5 : script[c].step = IF c = 1 THEN 1 ELSE IF c <= 3 THEN 2 ELSE 3
                BY <1>4, <2>1, ProducingCall, Zenon
            <4>2. QED
                BY <4>1
        <3>5. QED
            BY <1>1, <1>4, <3>2, <3>3, <3>4
    <2>3. /\ topic[offset + 1].call = at /\ offset + 1 \in DOMAIN topic
          /\ Verdict(call, node, topic[offset + 1].events) = Pass
        BY <1>2, <1>4, <2>2, ReadingPasses
    <2>4. NewIn(topic[offset + 1], topic[offset + 1].events.node[1].id, call.name)
        BY <2>2, <2>3, PassedCreates
    <2>5. node' = topic[offset + 1].events.node[1].id
        <3>1. Verdict(call, node, topic[offset + 1].events) # Stop
            BY <2>3 DEF Pass, Stop
        <3>2. QED
            BY <1>4, <2>2, <3>1, Zenon DEF ReadNextSortNodeEvent
    <2>6. topic'[offset + 1] = topic[offset + 1] /\ offset + 1 \in DOMAIN topic'
        BY <1>3, <2>3
    <2>7. QED
        BY <1>4, <2>2, <2>3, <2>4, <2>5, <2>6, Zenon
<1>5. CASE ~(ReadNextSortNodeEvent /\ at = 4)
    <2>1. Deleting /\ node' = node /\ phase # "clean"
        BY <1>5, DeletingStays
    <2>2. Unfailed(3)
        <3>1. failed \subseteq failed'
            BY <2>1, ControlMoves, Zenon
        <3>2. QED
            BY <1>2, <3>1 DEF Unfailed
    <2>3. PICK e \in DOMAIN topic : Target(topic[e])
        BY <2>1, <2>2 DEF Prepared
    <2>4. topic[e].call = 4 /\ NewIn(topic[e], node, script[4].name)
        BY <2>3 DEF Target
    <2>5. QED
        BY <1>3, <2>1, <2>4, Zenon
<1>6. QED
    BY <1>4, <1>5

LEMMA DeletionShows ==
    ASSUME Typed, suite # "consumer", Ordered, LastShows, node \in Ids,
           NEW e \in DOMAIN topic, Target(topic[e]),
           NEW place \in Copies, NEW q \in 1 .. Position(place), topic[q].call = 4,
           rows[place][node] = Absent
    PROVE  Delivered(5, place)
<1>1. /\ DOMAIN topic = 1 .. Len(topic) /\ Len(topic) \in Nat
      /\ Position(place) \in 0 .. Len(topic)
    BY Positions DEF Position
<1>2. PICK p : p = Position(place)
    OBVIOUS
<1>3. p \in DOMAIN topic /\ q \in DOMAIN topic /\ q <= p /\ p > 0 /\ p \in 1 .. Position(place)
    BY <1>1, <1>2
<1>4. topic[p].call \in 1 .. 5
    BY <1>3, Calls
<1>5. \A a, b \in DOMAIN topic : a < b => topic[a].call < topic[b].call \/ topic[a] = topic[b]
    BY DEF Ordered
<1>6. topic[p].call >= 4
    <2>1. CASE q = p
        BY <2>1, <1>4
    <2>2. CASE q < p
        BY <1>3, <1>4, <1>5, <2>2
    <2>3. QED
        BY <1>1, <1>3, <2>1, <2>2
<1>7. topic[p].call # 4
    <2> SUFFICES ASSUME topic[p].call = 4 PROVE FALSE
        OBVIOUS
    <2>1. topic[e].call = 4 /\ NewIn(topic[e], node, script[4].name)
        BY DEF Target
    <2>2. topic[p] = topic[e]
        <3>1. e < p \/ e = p \/ p < e
            BY <1>1, <1>3
        <3>2. ~(4 < 4)
            OBVIOUS
        <3>3. e < p => topic[e] = topic[p]
            BY <1>3, <1>5, <2>1, <3>2
        <3>4. p < e => topic[p] = topic[e]
            BY <1>3, <1>5, <2>1, <3>2
        <3>5. QED
            BY <3>1, <3>3, <3>4
    <2>3. suite \in Suites /\ 4 \in 1 .. 4
        BY TypedParts DEF ControlTyped
    <2>4. script[4].name # Absent /\ script[4].name \in CallNames
        <3>1. script[4].name # Absent
            BY <2>3, NoneSeeded
        <3>2. 4 \in DOMAIN script
            BY <2>3, ProducingCall
        <3>3. QED
            BY <2>3, <3>1, <3>2, NamesOfCalls
    <2>5. LastShowsAt(place, p)
        BY <1>2, <1>3 DEF LastShows
    <2>6. rows[place][node] = script[4].name
        BY <2>1, <2>2, <2>4, <2>5 DEF LastShowsAt
    <2>7. QED
        BY <2>4, <2>6
<1>8. topic[p].call = 5
    BY <1>4, <1>6, <1>7
<1>9. QED
    BY <1>3, <1>8 DEF Delivered

-----------------------------------------------------------------------------
(* What shows has arrived. *)

LEMMA PassMeansIs ==
    PassMeansDelivered <=>
        \A c \in 1 .. at - 1 : \A i \in DOMAIN script[c].checks :
            Conclusive(script[c].step) /\ ~script[c].once /\ script[c].checks[i] # "mistake" =>
                Delivered(c, script[c].checks[i])
    BY Zenon DEF PassMeansDelivered, Delivered, Position

\* The places that the poll has already passed.
SeenSoFar ==
    phase = "poll" /\ Conclusive(call.step) /\ ~call.once =>
        \A i \in 1 .. seen : call.checks[i] # "mistake" => Delivered(at, call.checks[i])

LEMMA DeletionPolls ==
    ASSUME suite = "e2e"
    PROVE  /\ script[4].checks = <<"service">> /\ ~script[4].once
           /\ script[5].checks = <<"service", "mistake", "cache">>
<1>1. script = E2E
    BY DEF script, Script
<1>2. /\ E2E[4].checks = <<"service">> /\ ~E2E[4].once
      /\ E2E[5].checks = <<"service", "mistake", "cache">>
    BY DEF E2E, Call
<1>3. QED
    BY <1>1, <1>2

LEMMA ShowsInCopy ==
    ASSUME NEW place \in Copies, Shows(place)
    PROVE  rows[place][node] = call.name
    BY ShowsIs DEF Copies

\* A name that shows.
LEMMA NameDelivered ==
    ASSUME Typed, suite # "consumer", phase = "poll", at \in 1 .. 4, Named, Origin,
           NEW place \in Copies, Shows(place)
    PROVE  Delivered(at, place)
<1>1. node \in Ids
    BY TypedParts DEF ControlTyped, Shape
<1>2. rows[place][node] = script[at].name
    BY ShowsInCopy DEF call
<1>3. QED
    BY <1>1, <1>2, NamedDelivers

\* The deletion shows: in the database first, then in the cache.
LEMMA DeletionDelivered ==
    ASSUME Typed, suite # "consumer", phase = "poll", at = 5, Ordered, LastShows, Prepared,
           PassMeansDelivered, SeenSoFar, Conclusive(call.step), ~call.once,
           seen + 1 \in DOMAIN call.checks, call.checks[seen + 1] \in Copies,
           Shows(call.checks[seen + 1])
    PROVE  Delivered(at, call.checks[seen + 1])
<1>1. ControlTyped /\ suite \in Suites /\ node \in Ids /\ seen \in 0 .. 2
    BY TypedParts DEF ControlTyped, Shape
<1>2. 5 \in 1 .. 5 /\ 4 \in 1 .. 5 /\ call = script[5]
    BY DEF call
<1>3. script[5].step = 3 /\ script[4].step = 3 /\ script[5].name = ""
    <2>1. \A c \in 1 .. 5 : script[c].step = IF c = 1 THEN 1 ELSE IF c <= 3 THEN 2 ELSE 3
        BY <1>1, ProducingCall, Zenon
    <2>2. script[5].name = ""
        BY <1>1, ProducingCall DEF ProducingNames
    <2>3. script[5].step = 3
        BY <1>2, <2>1
    <2>4. script[4].step = 3
        BY <1>2, <2>1
    <2>5. QED
        BY <2>2, <2>3, <2>4, Zenon
<1>4. suite = "e2e"
    <2>1. suite = "producer" => Polls(script[5], {"mistake"})
        BY <1>1, <1>2, ProducingPolls, Zenon
    <2>2. suite # "producer"
        BY <1>2, <2>1 DEF Polls, Copies
    <2>3. QED
        BY <1>1, <2>2, SuitesAssumption
<1>5. /\ script[4].checks = <<"service">> /\ ~script[4].once
      /\ call.checks = <<"service", "mistake", "cache">>
    BY <1>2, <1>4, DeletionPolls
<1>6. Unfailed(3) /\ Conclusive(3)
    BY <1>2, <1>3 DEF Conclusive
<1>7. PICK e \in DOMAIN topic : Target(topic[e])
    BY <1>6 DEF Prepared, Deleting
<1>8. Delivered(4, "service")
    <2>1. 4 \in 1 .. at - 1 /\ 1 \in DOMAIN script[4].checks /\ script[4].checks[1] = "service"
        BY <1>5
    <2>2. QED
        BY <1>3, <1>5, <1>6, <2>1, PassMeansIs, Zenon
<1>9. PICK q \in 1 .. stored : topic[q].call = 4
    BY <1>8 DEF Delivered, Position
<1>10. rows[call.checks[seen + 1]][node] = Absent
    <2>1. rows[call.checks[seen + 1]][node] = call.name
        BY ShowsInCopy
    <2>2. QED
        BY <1>2, <1>3, <2>1 DEF Absent
<1>11. CASE call.checks[seen + 1] = "service"
    <2>1. q \in 1 .. Position("service") /\ "service" \in Copies
        BY <1>9 DEF Position, Copies
    <2>2. QED
        BY <1>1, <1>7, <1>9, <1>10, <1>11, <2>1, DeletionShows
<1>12. CASE call.checks[seen + 1] = "cache"
    <2>1. seen = 2 /\ 1 \in 1 .. seen /\ call.checks[1] = "service"
        <3>1. seen = 0 \/ seen = 1 \/ seen = 2
            BY <1>1
        <3>2. call.checks[0 + 1] = "service" /\ call.checks[1 + 1] = "mistake"
            BY <1>5
        <3>3. QED
            BY <1>12, <3>1, <3>2
    <2>2. Delivered(5, "service")
        BY <2>1, Zenon DEF SeenSoFar
    <2>3. PICK r \in 1 .. stored : topic[r].call = 5
        BY <2>2 DEF Delivered, Position
    <2>4. /\ stored \in 0 .. Len(topic) /\ cached \in {stored, stored - 1}
          /\ DOMAIN topic = 1 .. Len(topic) /\ Len(topic) \in Nat
        BY Positions
    <2>5. q < r
        <3>1. q \in DOMAIN topic /\ r \in DOMAIN topic
            BY <1>9, <2>3, <2>4
        <3>2. q # r /\ topic[q] # topic[r] /\ ~(topic[r].call < topic[q].call)
            BY <1>9, <2>3
        <3>3. r < q => topic[r].call < topic[q].call \/ topic[r] = topic[q]
            BY <3>1 DEF Ordered
        <3>4. QED
            BY <2>4, <3>1, <3>2, <3>3
    <2>6. q \in 1 .. Position("cache") /\ "cache" \in Copies
        BY <1>9, <2>3, <2>4, <2>5 DEF Position, Copies
    <2>7. QED
        BY <1>1, <1>7, <1>9, <1>10, <1>12, <2>6, DeletionShows
<1>13. QED
    BY <1>11, <1>12 DEF Copies

LEMMA ChecksAre ==
    ASSUME suite \in Suites, NEW c \in DOMAIN script
    PROVE  /\ DOMAIN script[c].checks = 1 .. Len(script[c].checks)
           /\ \A i \in DOMAIN script[c].checks :
                  script[c].checks[i] \in {"service", "mistake", "cache"}
<1>1. CASE suite # "consumer"
    <2>1. c \in 1 .. 5
        BY <1>1, ProducingCall
    <2>2. QED
        BY <1>1, <2>1, ProducingPolls DEF Polls
<1>2. CASE suite = "consumer"
    <2>1. c \in 1 .. 3 \/ c = 4
        <3>1. c \in 1 .. 4
            BY <1>2, InjectedCalls
        <3>2. QED
            BY <3>1
    <2>2. script[c].checks = <<"service", "cache">> \/ script[c].checks = <<"service">>
        BY <1>2, <2>1, InjectedCalls, Zenon
    <2>3. QED
        BY <2>2
<1>3. QED
    BY <1>1, <1>2

\* The injected events: the copies hold what came last, which is not older
\* than what the earlier calls have seen.
LEMMA InjectionDelivered ==
    ASSUME Typed, suite = "consumer", phase = "poll", Copied, PassMeansDelivered,
           Conclusive(call.step), ~call.once, NEW place \in Copies, Shows(place)
    PROVE  Delivered(at, place)
<1>1. ControlTyped /\ suite \in Suites /\ node = InjectedId
    BY TypedParts DEF ControlTyped, Shape
<1>2. at \in 1 .. 4 /\ call = script[at]
    BY <1>1, InCall, InjectedCalls DEF call
<1>3. at \in 1 .. 3
    <2>1. at # 4
        BY <1>1, <1>2, InjectedCalls
    <2>2. QED
        BY <1>2, <2>1
<1>4. script[at].name = Taken(place)
    <2>1. rows[place][node] = call.name
        BY ShowsInCopy
    <2>2. QED
        BY <1>1, <1>2, <2>1 DEF Copied
<1>5. /\ DOMAIN topic = 1 .. Len(topic) /\ Len(topic) \in Nat
      /\ Position(place) \in 0 .. Len(topic) /\ topic \in Seq(MessagesOf)
    BY Positions DEF Position
<1>6. /\ script[1].name # "" /\ script[2].name # "" /\ script[1].name # script[2].name
      /\ script[3].name = ""
    BY <1>1, InjectedCalls
<1>7. at = 3 => Delivered(2, place)
    <2> SUFFICES ASSUME at = 3 PROVE Delivered(2, place)
        OBVIOUS
    <2>1. 1 \in 1 .. 4 /\ 2 \in 1 .. 4 /\ 3 \in 1 .. 4 /\ 2 \in 1 .. 3 /\ 2 \in 1 .. at - 1 /\ 2 # 4
        OBVIOUS
    <2>2. script[2].step = 2 /\ script[3].step = 3
        BY <1>1, <2>1, InjectedCalls, Zenon
    <2>3. ~script[2].once
        BY <1>1, <2>1, InjectedCalls, Zenon
    <2>4. script[2].checks = <<"service", "cache">>
        BY <1>1, <2>1, InjectedCalls, Zenon
    <2>5. Conclusive(2)
        <3>1. 0 .. 3 \cap failed = {}
            BY <1>2, <2>2 DEF Conclusive
        <3>2. 0 .. 2 \subseteq 0 .. 3
            OBVIOUS
        <3>3. QED
            BY <3>1, <3>2 DEF Conclusive
    <2>6. PICK i \in DOMAIN script[2].checks : script[2].checks[i] = place /\ place # "mistake"
        BY <2>4 DEF Copies
    <2>7. QED
        BY <2>1, <2>2, <2>3, <2>5, <2>6, PassMeansIs, Zenon
<1>8. Position(place) # 0
    <2>1. CASE at = 3
        <3>1. PICK q \in 1 .. Position(place) : topic[q].call = 2
            BY <1>7, <2>1 DEF Delivered
        <3>2. QED
            BY <1>5, <3>1
    <2>2. CASE at = 1 \/ at = 2
        <3>1. Taken(place) # Absent
            BY <1>4, <1>6, <2>2 DEF Absent
        <3>2. QED
            BY <3>1 DEF Taken
    <2>3. QED
        BY <1>3, <2>1, <2>2
<1>9. PICK p : p = Position(place)
    OBVIOUS
<1>10. p \in DOMAIN topic /\ p \in 1 .. Position(place)
    BY <1>5, <1>8, <1>9
<1>11. topic[p].call \in 1 .. 4 /\ topic[p].call <= at
    <2>1. topic[p] \in MessagesOf
        BY <1>5, <1>10, ElementOfSeq
    <2>2. topic[p].call \in DOMAIN script
        BY <2>1 DEF MessagesOf
    <2>3. topic[p].call <= at
        BY <1>10 DEF Copied
    <2>4. QED
        BY <1>1, <2>2, <2>3, InjectedCalls
<1>12. script[at].name = script[topic[p].call].name
    BY <1>4, <1>8, <1>9 DEF Taken
<1>13. topic[p].call = at
    <2>1. PICK c : c = topic[p].call
        OBVIOUS
    <2>2. (c = 1 \/ c = 2 \/ c = 3) /\ (at = 1 \/ at = 2 \/ at = 3) /\ c <= at
        BY <1>3, <1>11, <2>1
    <2>3. script[at].name = script[c].name
        BY <1>12, <2>1
    <2>4. at = 1 => c = 1
        BY <2>2
    <2>5. at = 2 => c = 2
        <3>1. at = 2 => c = 1 \/ c = 2
            BY <2>2
        <3>2. QED
            BY <1>6, <2>3, <3>1, Zenon
    <2>6. at = 3 => c = 3
        <3>1. at = 3 => script[c].name = ""
            BY <1>6, <2>3
        <3>2. c # 1 /\ c # 2 => c = 3
            BY <2>2, Zenon
        <3>3. c = 1 \/ c = 2 => script[c].name # ""
            BY <1>6, Zenon
        <3>4. QED
            BY <3>1, <3>2, <3>3
    <2>7. at = c
        BY <2>2, <2>4, <2>5, <2>6
    <2>8. QED
        BY <2>1, <2>7, Zenon
<1>14. QED
    BY <1>10, <1>13 DEF Delivered

\* The invariant behind the theorem.
Seen ==
    /\ SeenSoFar /\ PassMeansDelivered
    /\ suite = "consumer" => Copied
    /\ suite # "consumer" => Origin /\ LastShows /\ Prepared

LEMMA ShowsDelivered ==
    ASSUME Typed, Answering, Seen, phase = "poll", Conclusive(call.step), ~call.once,
           call.checks[seen + 1] # "mistake", Shows(call.checks[seen + 1])
    PROVE  Delivered(at, call.checks[seen + 1])
<1>1. ControlTyped /\ suite \in Suites /\ seen \in 0 .. 2 /\ seen < Len(call.checks)
    BY TypedParts DEF ControlTyped
<1>2. /\ call = script[at] /\ at \in DOMAIN script
      /\ suite # "consumer" => at \in 1 .. 5
    <2>1. at \in DOMAIN script
        BY <1>1, InCall
    <2>2. QED
        BY <1>1, <2>1, ProducingCall DEF call
<1>3. seen + 1 \in DOMAIN call.checks
    <2>1. DOMAIN call.checks = 1 .. Len(call.checks) /\ Len(call.checks) \in 0 .. 3
        BY <1>1, <1>2, ChecksAre, InCall
    <2>2. QED
        BY <1>1, <2>1
<1>4. call.checks[seen + 1] \in Copies
    BY <1>1, <1>2, <1>3, ChecksAre DEF Copies
<1>5. CASE suite = "consumer"
    BY <1>4, <1>5, InjectionDelivered DEF Seen
<1>6. CASE suite # "consumer" /\ at = 5
    BY <1>3, <1>4, <1>6, DeletionDelivered DEF Seen, Answering, Answered
<1>7. CASE suite # "consumer" /\ at \in 1 .. 4
    BY <1>4, <1>7, NameDelivered DEF Seen, Answering, Answered
<1>8. QED
    BY <1>2, <1>5, <1>6, <1>7

-----------------------------------------------------------------------------
(* How a call ends, and how a poll goes on. *)

LEMMA FailedGrows ==
    ASSUME Typed, Next, phase # "clean"
    PROVE  failed \subseteq failed'
<1>1. StopStep => failed \subseteq failed'
    BY DEF StopStep
<1>2. ReadNextSortNodeEvent => StopStep \/ failed \subseteq failed'
    BY Zenon DEF ReadNextSortNodeEvent
<1>3. LookOnce => failed \subseteq failed'
    BY DEF LookOnce
<1>4. CASE Request \/ RequestNotFound \/ Inject \/ Poll \/ ReadTimesOut \/ PollTimesOut
           \/ RequestFails \/ InjectFails
    BY <1>1, <1>4 DEF Request, RequestNotFound, Inject, Poll, ReadTimesOut, PollTimesOut,
                      RequestFails, InjectFails
<1>5. CASE Publish \/ PublishMalformed \/ PublishAgain \/ Store \/ Cache
    BY <1>5 DEF Publish, PublishMalformed, PublishAgain, PublishAs, Store, Cache, suiteVars
<1>6. CASE Clean \/ CleanFails
    BY <1>6 DEF Clean, CleanFails
<1>7. QED
    BY <1>1, <1>2, <1>3, <1>4, <1>5, <1>6 DEF Next, Progress, Deadline, Misbehaviour

\* Conclusive and Delivered in the next state.
StillConclusive(s) ==
    IF suite = "consumer" THEN 0 .. s \cap failed' = {} ELSE {0, s} \cap failed' = {}
Later(c, place) ==
    \E e \in 1 .. (IF place = "service" THEN stored' ELSE cached') : topic'[e].call = c

LEMMA ConclusiveBefore ==
    ASSUME Typed, Next, phase # "clean", NEW s, StillConclusive(s)
    PROVE  Conclusive(s)
<1>1. failed \subseteq failed'
    BY FailedGrows
<1>2. QED
    BY <1>1 DEF StillConclusive, Conclusive, Unfailed

LEMMA DeliveredLater ==
    ASSUME Typed, Next, NEW place \in Copies, NEW c, Delivered(c, place)
    PROVE  Later(c, place)
<1>1. Delivered(c, place)'
    BY DeliveredStays
<1>2. QED
    BY <1>1 DEF Delivered, Position, Later

LEMMA NextForms ==
    ASSUME suite' = suite, script' = script, call' = script[at']
    PROVE  /\ (phase' = "poll" /\ StillConclusive(script[at'].step) /\ ~script[at'].once =>
                  \A i \in 1 .. seen' : script[at'].checks[i] # "mistake" =>
                      Later(at', script[at'].checks[i]))
                  => SeenSoFar'
           /\ (\A c \in 1 .. at' - 1 : \A i \in DOMAIN script[c].checks :
                  StillConclusive(script[c].step) /\ ~script[c].once
                  /\ script[c].checks[i] # "mistake" => Later(c, script[c].checks[i]))
                  => PassMeansDelivered'
<1>1. \A s : StillConclusive(s) <=>
          (IF suite' = "consumer" THEN 0 .. s \cap failed' = {} ELSE {0, s} \cap failed' = {})
    BY DEF StillConclusive
<1>2. QED
    BY <1>1, Zenon DEF SeenSoFar, PassMeansDelivered, Conclusive, Unfailed, Delivered, Position, Later

\* require.* skips the calls of its own step, and of no other.
LEMMA SkipsItsStep ==
    ASSUME Typed, phase \notin {"clean", "done"}, StopStep
    PROVE  call.step \in failed' /\ \A c \in at .. at' - 1 : script[c].step = call.step
<1>1. ControlTyped /\ suite \in Suites /\ at \in DOMAIN script /\ step = call.step
      /\ call = script[at]
    <2>1. ControlTyped /\ suite \in Suites
        BY TypedParts DEF ControlTyped
    <2>2. QED
        BY <2>1, InCall DEF call
<1>2. call.step \in failed'
    BY <1>1 DEF StopStep
<1>3. at' = at + Cardinality({c \in at .. Len(script) : script[c].step = script[at].step})
    BY <1>1 DEF StopStep, GoTo
<1>4. CASE suite # "consumer"
    <2>1. IsProducingScript(script)
        BY <1>1, <1>4, ScriptIs DEF Producing
    <2>2. /\ at = 1 => at' = 2
          /\ at \in {2, 3} => at' = 4
          /\ at \in {4, 5} => at' = 6
        BY <1>1, <1>3, <2>1, Skipped
    <2>3. at \in 1 .. 5
        BY <1>1, <1>4, ProducingCall
    <2>4. \A c \in 1 .. 5 : script[c].step = IF c = 1 THEN 1 ELSE IF c <= 3 THEN 2 ELSE 3
        BY <1>1, <1>4, ProducingCall, Zenon
    <2>5. ASSUME NEW c \in at .. at' - 1 PROVE script[c].step = script[at].step
        <3>1. /\ c \in 1 .. 5
              /\ at = 1 => c = 1
              /\ at \in {2, 3} => c \in {2, 3}
              /\ at \in {4, 5} => c \in {4, 5}
            BY <2>2, <2>3
        <3>2. QED
            BY <2>3, <2>4, <3>1
    <2>6. QED
        BY <1>1, <1>2, <2>5
<1>5. CASE suite = "consumer"
    <2>1. IsConsumerScript(script)
        BY <1>1, <1>5, ScriptIs
    <2>2. at' = at + 1
        BY <1>1, <1>3, <2>1, Skipped
    <2>3. DOMAIN script = 1 .. 4
        BY <1>1, <1>5, InjectedCalls
    <2>4. \A c \in at .. at' - 1 : c = at
        BY <1>1, <2>2, <2>3
    <2>5. QED
        BY <1>1, <1>2, <2>4
<1>6. QED
    BY <1>4, <1>5

\* A call that is over failed its step, asked for nothing to show, was the
\* single look, or has seen the last of its places.
SawLast ==
    /\ phase = "poll" /\ ~call.once /\ Shows(call.checks[seen + 1])
    /\ seen + 1 = Len(call.checks)

LEMMA Endings ==
    ASSUME Typed, Next, phase # "clean", at' # at
    PROVE  \/ call.step \in failed' /\ \A c \in at .. at' - 1 : script[c].step = call.step
           \/ at' = at + 1 /\ (call.checks = <<>> \/ call.once \/ SawLast)
<1>1. /\ ControlTyped /\ suite \in Suites /\ phase \notin {"clean", "done"}
      /\ at \in 1 .. Len(script) /\ Len(script) \in {4, 5} /\ step = call.step /\ call = script[at]
    <2>1. ControlTyped /\ suite \in Suites /\ phase \notin {"clean", "done"}
        BY TypedParts, Advances DEF ControlTyped
    <2>2. QED
        BY <2>1, InCall DEF call
<1>2. CASE StopStep
    BY <1>1, <1>2, SkipsItsStep
<1>3. CASE ReadNextSortNodeEvent
    <2>1. StopStep \/ (call.checks = <<>> /\ GoTo(at + 1)) \/ at' = at
        BY <1>3, Zenon DEF ReadNextSortNodeEvent
    <2>2. QED
        BY <1>2, <2>1 DEF GoTo
<1>4. CASE Poll
    BY <1>4 DEF Poll, GoTo, SawLast
<1>5. CASE PollTimesOut
    <2>1. call.step \in failed' /\ at' = at + 1
        BY <1>1, <1>5 DEF PollTimesOut, GoTo
    <2>2. \A c \in at .. at' - 1 : c = at
        BY <1>1, <2>1
    <2>3. QED
        BY <1>1, <2>1, <2>2
<1>6. CASE LookOnce
    BY <1>6 DEF LookOnce, GoTo
<1>7. CASE RequestNotFound \/ ReadTimesOut \/ RequestFails \/ InjectFails
    BY <1>2, <1>7 DEF RequestNotFound, ReadTimesOut, RequestFails, InjectFails
<1>8. CASE Request \/ Inject \/ Clean \/ CleanFails
    BY <1>1, <1>8 DEF Request, Inject, Clean, CleanFails
<1>9. CASE Publish \/ PublishMalformed \/ PublishAgain \/ Store \/ Cache
    BY <1>9 DEF Publish, PublishMalformed, PublishAgain, PublishAs, Store, Cache, suiteVars
<1>10. QED
    BY <1>3, <1>4, <1>5, <1>6, <1>7, <1>8, <1>9 DEF Next, Progress, Deadline, Misbehaviour

LEMMA Polling ==
    ASSUME Typed, Next, phase' = "poll"
    PROVE  /\ at' = at /\ phase # "clean"
           /\ \/ seen' = 0
              \/ phase = "poll" /\ seen' = seen
              \/ phase = "poll" /\ ~call.once /\ seen' = seen + 1 /\ Shows(call.checks[seen + 1])
<1>1. ControlTyped /\ phase \in {"clean", "call", "answer", "poll", "done"} /\ phase # "done"
      /\ (phase # "poll" => seen = 0)
    BY TypedParts, Advances DEF ControlTyped, Shape
<1>2. \A c : ~GoTo(c)
    BY DEF GoTo
<1>3. ~StopStep
    BY <1>2 DEF StopStep
<1>4. CASE ReadNextSortNodeEvent
    <2>1. phase = "answer" /\ at' = at /\ seen' = seen
        BY <1>2, <1>3, <1>4, Zenon DEF ReadNextSortNodeEvent
    <2>2. QED
        BY <1>1, <2>1
<1>5. CASE Poll
    BY <1>2, <1>5 DEF Poll
<1>6. CASE Inject
    BY <1>1, <1>6 DEF Inject
<1>7. CASE Publish \/ PublishMalformed \/ PublishAgain \/ Store \/ Cache
    <2>1. at' = at /\ phase' = phase /\ seen' = seen
        BY <1>7 DEF Publish, PublishMalformed, PublishAgain, PublishAs, Store, Cache, suiteVars
    <2>2. QED
        BY <2>1
<1>8. CASE RequestNotFound \/ ReadTimesOut \/ RequestFails \/ InjectFails \/ PollTimesOut \/ LookOnce
           \/ Request \/ Clean \/ CleanFails
    BY <1>2, <1>3, <1>8 DEF RequestNotFound, ReadTimesOut, RequestFails, InjectFails, PollTimesOut,
                            LookOnce, Request, Clean, CleanFails
<1>9. QED
    BY <1>4, <1>5, <1>6, <1>7, <1>8 DEF Next, Progress, Deadline, Misbehaviour

LEMMA SeenSoFarStep ==
    ASSUME Typed, Answering, Seen, Next
    PROVE  SeenSoFar'
<1>0. script' = script /\ suite' = suite /\ call' = script[at']
    BY Advances, ScriptStays
<1> SUFFICES ASSUME phase' = "poll", StillConclusive(script[at'].step), ~script[at'].once,
                    NEW i \in 1 .. seen', script[at'].checks[i] # "mistake"
             PROVE  Later(at', script[at'].checks[i])
    BY <1>0, NextForms, Zenon
<1>1. /\ at' = at /\ phase # "clean"
      /\ \/ seen' = 0
         \/ phase = "poll" /\ seen' = seen
         \/ phase = "poll" /\ ~call.once /\ seen' = seen + 1 /\ Shows(call.checks[seen + 1])
    BY Polling
<1>2. /\ at \in DOMAIN script /\ suite \in Suites /\ call = script[at]
      /\ ~call.once /\ call.checks[i] # "mistake" /\ StillConclusive(call.step)
    <2>1. ControlTyped /\ phase # "done"
        BY TypedParts, Advances
    <2>2. phase \notin {"clean", "done"}
        BY <1>1, <2>1
    <2>3. at \in DOMAIN script /\ suite \in Suites
        BY <2>1, <2>2, InCall DEF ControlTyped
    <2>4. call = script[at] /\ script[at'] = script[at]
        BY <1>1 DEF call
    <2>5. QED
        BY <2>3, <2>4
<1>3. Conclusive(call.step)
    BY <1>1, <1>2, ConclusiveBefore
<1>4. seen \in 0 .. 2 /\ (phase = "poll" => seen < Len(call.checks))
    BY TypedParts DEF ControlTyped
<1>5. phase = "poll" /\ Delivered(at, call.checks[i])
    <2>1. CASE seen' = 0
        BY <2>1
    <2>2. CASE phase = "poll" /\ i \in 1 .. seen
        BY <1>2, <1>3, <2>2, Zenon DEF Seen, SeenSoFar
    <2>3. CASE phase = "poll" /\ i = seen + 1 /\ Shows(call.checks[seen + 1])
        BY <1>2, <1>3, <2>3, ShowsDelivered
    <2>4. QED
        BY <1>1, <1>4, <2>1, <2>2, <2>3
<1>6. call.checks[i] \in Copies
    <2>1. call = script[at]
        BY DEF call
    <2>2. Len(call.checks) \in 0 .. 3 /\ DOMAIN call.checks = 1 .. Len(call.checks)
        BY <1>2, <2>1, ChecksAre, CallFacts
    <2>3. i \in DOMAIN call.checks
        BY <1>1, <1>4, <1>5, <2>2
    <2>4. QED
        BY <1>2, <2>1, <2>3, ChecksAre DEF Copies
<1>7. Later(at, call.checks[i])
    <2>1. PICK c, place : c = at /\ place = call.checks[i]
        OBVIOUS
    <2>2. Later(c, place)
        BY <1>5, <1>6, <2>1, DeliveredLater
    <2>3. QED
        BY <2>1, <2>2
<1>8. QED
    BY <1>1, <1>2, <1>7

LEMMA PassStep ==
    ASSUME Typed, Answering, Seen, Next
    PROVE  PassMeansDelivered'
<1>0. script' = script /\ suite' = suite /\ call = script[at] /\ call' = script[at']
    BY Advances, ScriptStays DEF call
<1>1. /\ ControlTyped /\ suite \in Suites /\ Len(script) \in {4, 5} /\ DOMAIN script = 1 .. Len(script)
      /\ at \in 1 .. Len(script) + 1 /\ at' \in at .. Len(script) + 1
    <2>1. ControlTyped /\ suite \in Suites /\ at \in 1 .. Len(script) + 1
        BY TypedParts DEF ControlTyped
    <2>2. Len(script) \in {4, 5} /\ DOMAIN script = 1 .. Len(script)
        BY <2>1, FirstCall, CallFacts
    <2>3. QED
        BY <2>1, <2>2, Advances
<1>a. \A c \in 1 .. at' - 1 :
          at' # 1 /\ (c \in 1 .. at - 1 \/ (at' # at /\ c \in at .. at' - 1))
    <2>1. \A a, b \in Int : \A c \in 1 .. b - 1 :
              b # 1 /\ (c \in 1 .. a - 1 \/ (b # a /\ c \in a .. b - 1))
        OBVIOUS
    <2>2. at \in Int /\ at' \in Int
        BY <1>1
    <2>3. QED
        BY <2>1, <2>2, Zenon
<1>b. \A c \in 1 .. at' - 1 : c \in DOMAIN script
    <2>1. \A l, b \in Int : b <= l + 1 => \A c \in 1 .. b - 1 : c \in 1 .. l
        OBVIOUS
    <2>2. at' \in Int /\ Len(script) \in Int /\ at' <= Len(script) + 1
        BY <1>1
    <2>3. QED
        BY <1>1, <2>1, <2>2, Zenon
<1> SUFFICES ASSUME NEW c \in 1 .. at' - 1, NEW i \in DOMAIN script[c].checks,
                    StillConclusive(script[c].step), ~script[c].once,
                    script[c].checks[i] # "mistake"
             PROVE  Later(c, script[c].checks[i])
    BY <1>0, NextForms, Zenon
<1>2. c \in DOMAIN script
    BY <1>b, Zenon
<1>3. PICK place : place = script[c].checks[i]
    OBVIOUS
<1>4. place \in Copies
    BY <1>1, <1>2, <1>3, ChecksAre DEF Copies
<1>5. phase # "clean"
    <2> SUFFICES ASSUME phase = "clean" PROVE FALSE
        OBVIOUS
    <2>1. at = 1
        BY <1>1 DEF ControlTyped, Shape
    <2>2. phase' # "clean" /\ ~Clean
        <3>1. at' # 1
            BY <1>a, Zenon
        <3>2. ~Clean
            BY <2>1, <3>1 DEF Clean
        <3>3. phase' = "clean" => at' = 1
            BY ControlStep DEF ControlTyped, Shape
        <3>4. QED
            BY <3>1, <3>2, <3>3
    <2>3. CleanFails
        BY <2>1, <2>2
        DEF Next, Progress, Deadline, Misbehaviour, Request, RequestNotFound, Inject,
            ReadNextSortNodeEvent, Poll, LookOnce, ReadTimesOut, PollTimesOut, Publish, Store,
            Cache, RequestFails, InjectFails, PublishMalformed, PublishAgain, PublishAs, suiteVars
    <2>4. failed' = {0}
        BY <2>3 DEF CleanFails
    <2>5. script[c].step \in 1 .. 4
        BY <1>1, <1>2, CallFacts
    <2>6. 0 \in 0 .. script[c].step /\ 0 \in {0, script[c].step}
        BY <2>5
    <2>7. QED
        BY <2>4, <2>6 DEF StillConclusive
<1>6. Conclusive(script[c].step)
    BY <1>5, ConclusiveBefore
<1>7. Delivered(c, place)
    <2>1. CASE c \in 1 .. at - 1
        <3>1. Delivered(c, script[c].checks[i])
            BY <1>6, <2>1, PassMeansIs, Zenon DEF Seen
        <3>2. QED
            BY <1>3, <3>1
    <2>2. CASE at' # at /\ c \in at .. at' - 1
        <3>1. at' # at /\ c \in at .. at' - 1
            BY <2>2
        <3>2. ~(call.step \in failed' /\ \A d \in at .. at' - 1 : script[d].step = call.step)
            <4>1. script[c].step \in 1 .. 4
                BY <1>1, <1>2, CallFacts
            <4>2. script[c].step \notin failed'
                BY <4>1 DEF StillConclusive
            <4>3. QED
                BY <3>1, <4>2
        <3>3. at' = at + 1 /\ (call.checks = <<>> \/ call.once \/ SawLast)
            BY <1>5, <3>1, <3>2, Endings
        <3>4. c = at /\ script[c] = call
            BY <1>0, <1>1, <3>1, <3>3
        <3>5. SawLast
            BY <3>3, <3>4
        <3>6. /\ phase = "poll" /\ Shows(call.checks[seen + 1]) /\ seen + 1 = Len(call.checks)
              /\ DOMAIN call.checks = 1 .. Len(call.checks) /\ seen \in 0 .. 2
            BY <1>0, <1>1, <1>2, <3>4, <3>5, ChecksAre DEF SawLast, ControlTyped
        <3>7. i \in 1 .. seen \/ i = seen + 1
            BY <3>4, <3>6
        <3>8. CASE i \in 1 .. seen
            BY <1>3, <1>6, <3>4, <3>6, <3>8, Zenon DEF Seen, SeenSoFar
        <3>9. CASE i = seen + 1
            BY <1>3, <1>6, <3>4, <3>6, <3>9, ShowsDelivered
        <3>10. QED
            BY <3>7, <3>8, <3>9
    <2>3. QED
        BY <1>a, <2>1, <2>2, Zenon
<1>8. Later(c, place)
    BY <1>4, <1>7, DeliveredLater
<1>9. QED
    BY <1>3, <1>8

LEMMA SeenInit == Init => Seen
<1> SUFFICES ASSUME Init PROVE Seen
    OBVIOUS
<1>1. /\ at = 1 /\ phase = "clean" /\ topic = <<>> /\ stored = 0 /\ cached = 0
    BY DEF Init
<1>2. SeenSoFar /\ Prepared /\ Copied
    BY <1>1 DEF SeenSoFar, Prepared, Deleting, Copied
<1>3. PassMeansDelivered
    <2>1. 1 .. at - 1 = {}
        BY <1>1
    <2>2. QED
        BY <2>1, Zenon DEF PassMeansDelivered
<1>4. LastShows
    BY <1>1 DEF LastShows, Position
<1>5. Origin
    <2> SUFFICES ASSUME NEW place \in Copies, NEW id \in Ids PROVE OriginAt(place, id)
        BY DEF Origin
    <2>1. PICK seeded \in {Absent, "SEEDED"} :
              rows = [p \in {"mistake", "service", "cache"} |->
                         IF p \in CheckTables THEN [NoRows EXCEPT ![1] = seeded] ELSE NoRows]
        BY DEF Init
    <2>2. rows[place][id] \in {Absent, seeded}
        BY <2>1 DEF NoRows, Copies
    <2>3. QED
        BY <2>2 DEF OriginAt
<1>6. QED
    BY <1>2, <1>3, <1>4, <1>5 DEF Seen

LEMMA SeenStep ==
    Typed /\ Answering /\ FixturesAsBuilt /\ Seen /\ [Next]_vars => Seen'
<1> SUFFICES ASSUME Typed, Answering, FixturesAsBuilt, Seen, [Next]_vars PROVE Seen'
    OBVIOUS
<1>1. CASE Next
    <2>1. suite' = suite
        BY <1>1, Advances
    <2>2. SeenSoFar' /\ PassMeansDelivered'
        BY <1>1, SeenSoFarStep, PassStep
    <2>3. suite = "consumer" => Copied'
        BY <1>1, CopiedStep DEF Seen
    <2>4. suite # "consumer" => Origin' /\ LastShows' /\ Prepared'
        BY <1>1, OriginStep, LastShowsStep, PreparedStep DEF Seen, Answering, Answered
    <2>5. QED
        BY <2>1, <2>2, <2>3, <2>4 DEF Seen
<1>2. CASE UNCHANGED vars
    <2>1. script' = script /\ call' = call
        BY <1>2, ScriptStays DEF vars, suiteVars, call
    <2>2. SeenSoFar' /\ PassMeansDelivered'
        BY <1>2, <2>1 DEF vars, suiteVars, serviceVars, Seen, SeenSoFar, PassMeansDelivered, Delivered,
                          Position, Conclusive, Unfailed
    <2>3. (Copied <=> Copied') /\ (Origin <=> Origin') /\ (LastShows <=> LastShows')
        BY <1>2, <2>1 DEF vars, suiteVars, serviceVars, Copied, Taken, Position, Origin, OriginAt,
                          LastShows, LastShowsAt, NewIn, Creates
    <2>4. Prepared <=> Prepared'
        BY <1>2, <2>1 DEF vars, suiteVars, serviceVars, Prepared, Unfailed, Deleting, Target, NewIn,
                          Creates
    <2>5. QED
        BY <1>2, <2>2, <2>3, <2>4 DEF vars, Seen
<1>3. QED
    BY <1>1, <1>2

\* A step that passes has seen its change arrive: when a call of a step that is
\* not failed is over, sort-service has applied an event of that call wherever
\* the call polled.  A stale row, or one that was never there, is not taken for
\* the change (the assert.Eventually polls of the suites).
THEOREM PassesAreDelivered == Spec => []PassMeansDelivered
<1>1. Seen => PassMeansDelivered
    BY DEF Seen
<1>2. Init => FixturesAsBuilt
    BY DEF Init, FixturesAsBuilt
<1>3. QED
    BY <1>1, <1>2, TypedInit, TypedStep, AnsweringInit, AnsweringStep, FixturesStep,
       SeenInit, SeenStep, PTL DEF Spec

=============================================================================
