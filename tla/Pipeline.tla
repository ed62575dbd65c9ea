------------------------------ MODULE Pipeline ------------------------------
(***************************************************************************)
(* The three test suites (suites/e2e, suites/producer, suites/consumer)    *)
(* against the services they test.  A suite is a script of calls grouped   *)
(* in steps; a call asks sort-mistake for a change, or publishes an event  *)
(* itself, takes the next event of the topic for the answer, judges it,    *)
(* and polls the databases and the cache until the change shows there.     *)
(*                                                                         *)
(* External: sort-mistake (it commits, and publishes later, in order, at   *)
(* least once), the Kafka topic of one partition, and sort-service (it     *)
(* applies the events in order, its database first).                       *)
(***************************************************************************)
EXTENDS Contract, FiniteSets

CONSTANTS
    Suites,         \* the suites to run
    InjectedId,     \* id of the node the consumer suite invents
    MaxFaults       \* bound on the misbehaviours of the services in a run

ASSUME SuitesAssumption == Suites \subseteq {"e2e", "producer", "consumer"}

ASSUME BoundAssumption == InjectedId \in Nat \ {0} /\ MaxFaults \in Nat

SystemId == "sg"
HubId == 101

-----------------------------------------------------------------------------
(* The scripts.  "checks" lists the places polled after the call, in the   *)
(* order they are read; "once" means read a single time after a second.    *)

Call(step, op, name, checks) ==
    [step |-> step, op |-> op, name |-> name, checks |-> checks, once |-> FALSE]

\* Seeded fault: the deletion does not wait until its prerequisite has arrived.
E2EImpatient ==
    <<Call(1, "create", "ALPHA", <<"service", "cache">>),
      Call(2, "create", "UPDATE TARGET", <<"service">>),
      Call(2, "update", "ALPHA UPDATED", <<"service", "cache">>),
      Call(3, "create", "DELETE TARGET", <<>>),
      Call(3, "delete", "", <<"service", "mistake", "cache">>)>>

E2E ==
    <<Call(1, "create", "ALPHA", <<"service", "cache">>),
      Call(2, "create", "UPDATE TARGET", <<"service">>),
      Call(2, "update", "ALPHA UPDATED", <<"service", "cache">>),
      Call(3, "create", "DELETE TARGET", <<"service">>),
      Call(3, "delete", "", <<"service", "mistake", "cache">>)>>

Producer ==
    <<Call(1, "create", "ALPHA", <<"mistake">>),
      Call(2, "create", "UPDATE TARGET", <<>>),
      Call(2, "update", "ALPHA UPDATED", <<"mistake">>),
      Call(3, "create", "DELETE TARGET", <<>>),
      Call(3, "delete", "", <<"mistake">>)>>

Consumer ==
    <<Call(1, "create", "INJECTED", <<"service", "cache">>),
      Call(2, "update", "INJECTED UPDATED", <<"service", "cache">>),
      Call(3, "delete", "", <<"service", "cache">>),
      [Call(4, "delete", "", <<"service">>) EXCEPT !.once = TRUE]>>

Script(suite) ==
    CASE suite = "e2e" -> E2E
      [] suite = "producer" -> Producer
      [] suite = "consumer" -> Consumer

Ids == 1 .. 3 \cup {InjectedId}    \* no script creates more than three nodes
Absent == ""

VARIABLES
    suite,      \* the suite that runs
    at,         \* the call it is at
    phase,      \* what it does: "clean", "call", "answer", "poll", "done"
    node,       \* targetNodeID: the node the step works on
    seen,       \* how many places showed the change in this poll
    failed,     \* steps marked failed
    rows,       \* name of each node: database of each service, and the cache
    nextId,     \* next AUTO_INCREMENT id of sort-mistake
    outbox,     \* events sort-mistake committed and has not published
    topic,      \* the events of the topic, each with the call it stems from
    offset,     \* events the reader of the suite has read
    stored,     \* events sort-service has applied to its database
    cached,     \* events sort-service has applied to its cache
    judged,     \* [call, event] the suite has judged
    faulty      \* the steps in which a service misbehaved, one entry each

suiteVars == <<at, phase, node, seen, failed, offset, judged>>
serviceVars == <<rows, nextId, outbox, topic, stored, cached>>
vars == <<suite, suiteVars, serviceVars, faulty>>

script == Script(suite)
call == script[at]
step == IF phase = "clean" THEN 0 ELSE call.step

-----------------------------------------------------------------------------
(* The misbehaviours, at most MaxFaults of them, each charged to a step.   *)

MayMisbehave == phase # "done" /\ Len(faulty) < MaxFaults
Misbehave == MayMisbehave /\ faulty' = Append(faulty, step)

\* The producer suite starts no sort-service.
Behind == outbox # <<>> \/ (suite # "producer" /\ cached < Len(topic))

-----------------------------------------------------------------------------
(* Where a call ends: at the next call, or, when require.* stops the step, *)
(* at the first call of the next step.                                     *)

GoTo(c) ==
    /\ at' = c
    /\ phase' = IF c > Len(script) THEN "done" ELSE "call"
    /\ seen' = 0

\* Seeded fault: require.* on the test's own t ends the whole test.
StopTest ==
    /\ failed' = failed \cup {step}
    /\ phase' = "done"
    /\ UNCHANGED <<at, seen>>

StopStep ==
    /\ failed' = failed \cup {step}
    /\ GoTo(at + Cardinality({c \in at .. Len(script) : script[c].step = step}))

\* QueryIntraHubNode finds no row, GetSortServiceIntraNode no field: both give nil.

QueryIntraHubNode(database, id) == rows[database][id]
GetSortServiceIntraNode(id) == rows.cache[id]

NoRows == [id \in Ids |-> Absent]

CheckTables ==
    CASE suite = "e2e" -> {"mistake", "service"}
      [] suite = "producer" -> {"mistake"}
      [] suite = "consumer" -> {"service"}

TruncateTables(r) ==
    [place \in DOMAIN r |-> IF place \in CheckTables THEN NoRows ELSE r[place]]
FlushRedis(r) == [r EXCEPT !.cache = NoRows]

Init ==
    /\ suite \in Suites
    /\ at = 1 /\ phase = "clean" /\ seen = 0 /\ failed = {}
    /\ node = IF suite = "consumer" THEN InjectedId ELSE 0
    \* the migrations may have put rows into the tables
    /\ \E seeded \in {Absent, "SEEDED"} :
           rows = [place \in {"mistake", "service", "cache"} |->
                      IF place \in CheckTables THEN [NoRows EXCEPT ![1] = seeded] ELSE NoRows]
    /\ nextId = 2
    /\ outbox = <<>> /\ topic = <<>> /\ offset = 0 /\ stored = 0 /\ cached = 0
    /\ judged = {} /\ faulty = <<>>

\* TRUNCATE restarts AUTO_INCREMENT.
Clean ==
    /\ phase = "clean"
    /\ rows' = FlushRedis(TruncateTables(rows))
    /\ nextId' = 1
    /\ phase' = "call"
    /\ UNCHANGED <<suite, at, node, seen, failed, offset, judged,
                   outbox, topic, stored, cached, faulty>>

\* An error there ends the test before its first step.
CleanFails ==
    /\ phase = "clean" /\ Misbehave
    /\ failed' = {0}
    /\ GoTo(Len(script) + 1)
    /\ UNCHANGED <<suite, node, offset, judged, serviceVars>>

-----------------------------------------------------------------------------
(* The call itself: an HTTP request, or an event published by the suite.   *)

Event(op, id, name) ==
    CASE op = "create" -> NewSortNodeCreatedEvent(SystemId, HubId, id, name, IntraMid)
      [] op = "update" -> NewSortNodeUpdatedEvent(SystemId, HubId, id, name, IntraMid)
      [] op = "delete" -> NewSortNodeDeletedEvent(SystemId, HubId, id)

Found == call.op # "create" => rows.mistake[node] # Absent

\* sort-mistake commits the change together with the event it owes the topic.
Commit ==
    LET id == IF call.op = "create" THEN nextId ELSE node
    IN  /\ rows' = [rows EXCEPT !.mistake[id] = call.name]
        /\ nextId' = IF call.op = "create" THEN nextId + 1 ELSE nextId
        /\ outbox' = Append(outbox, [call |-> at, events |-> Event(call.op, id, call.name)])

Request ==
    /\ phase = "call" /\ suite # "consumer" /\ Found
    /\ Commit
    /\ phase' = "answer"
    /\ UNCHANGED <<suite, at, node, seen, failed, offset, judged,
                   topic, stored, cached, faulty>>

RequestNotFound ==
    /\ phase = "call" /\ suite # "consumer" /\ ~Found
    /\ StopStep
    /\ UNCHANGED <<suite, node, offset, judged, serviceVars, faulty>>

\* The answer is lost or is an error, though the change may have been committed.
RequestFails ==
    /\ phase = "call" /\ suite # "consumer" /\ Found /\ Misbehave
    /\ Commit \/ UNCHANGED <<rows, nextId, outbox>>
    /\ StopStep
    /\ UNCHANGED <<suite, node, offset, judged, topic, stored, cached>>

PublishSortNodeEvents ==
    topic' = Append(topic, [call |-> at, events |-> Event(call.op, node, call.name)])

Inject ==
    /\ phase = "call" /\ suite = "consumer"
    /\ PublishSortNodeEvents
    /\ phase' = "poll"
    /\ UNCHANGED <<suite, at, node, seen, failed, offset, judged,
                   rows, nextId, outbox, stored, cached, faulty>>

InjectFails ==
    /\ phase = "call" /\ suite = "consumer" /\ Misbehave
    /\ PublishSortNodeEvents \/ UNCHANGED topic
    /\ StopStep
    /\ UNCHANGED <<suite, node, offset, judged, rows, nextId, outbox, stored, cached>>

-----------------------------------------------------------------------------
(* The answer: the next event of the topic, whoever caused it.             *)

Verdict(asked, id, events) ==
    CASE asked.op = "create" ->
           AssertNodeCreatedContract(events, SystemId, HubId, asked.name, IntraMid)
      [] asked.op = "update" ->
           AssertNodeUpdatedContract(events, SystemId, HubId, id, asked.name)
      [] asked.op = "delete" ->
           AssertNodeDeletedContract(events, SystemId, HubId, id)

ReadNextSortNodeEvent ==
    /\ phase = "answer" /\ offset < Len(topic)
    /\ LET message == topic[offset + 1]
           verdict == Verdict(call, node, message.events)
       IN  /\ judged' = judged \cup {[call |-> at, node |-> node, message |-> message]}
           /\ \/ verdict = Stop /\ StopStep /\ UNCHANGED node
              \/ /\ verdict # Stop
                 /\ failed' = IF verdict = Fail THEN failed \cup {step} ELSE failed
                 /\ node' = IF call.op = "create" THEN message.events.node[1].id ELSE node
                 /\ IF call.checks = <<>>
                    THEN GoTo(at + 1)
                    ELSE phase' = "poll" /\ UNCHANGED <<at, seen>>
    /\ offset' = offset + 1
    /\ UNCHANGED <<suite, serviceVars, faulty>>

\* Fifteen seconds without an event; somebody is slow if one is on its way.
ReadTimesOut ==
    /\ phase = "answer" /\ offset = Len(topic)
    /\ IF Behind THEN Misbehave ELSE UNCHANGED faulty
    /\ StopStep
    /\ UNCHANGED <<suite, node, offset, judged, serviceVars>>

-----------------------------------------------------------------------------
(* assert.Eventually: the places are read one after the other, from the    *)
(* first again when one does not show the change yet.                      *)

Shows(place) ==
    call.name = IF place = "cache" THEN GetSortServiceIntraNode(node)
                ELSE QueryIntraHubNode(place, node)

Poll ==
    /\ phase = "poll" /\ ~call.once
    /\ IF ~Shows(call.checks[seen + 1])
       THEN seen' = 0 /\ UNCHANGED <<at, phase>>
       ELSE IF seen + 1 = Len(call.checks)
            THEN GoTo(at + 1)
            ELSE seen' = seen + 1 /\ UNCHANGED <<at, phase>>
    /\ UNCHANGED <<suite, node, failed, offset, judged, serviceVars, faulty>>

\* Seeded fault: polling without a deadline.
PollWithoutDeadline == FALSE /\ UNCHANGED vars

\* The deadline marks the step failed and the step goes on.
PollTimesOut ==
    /\ phase = "poll" /\ ~call.once
    /\ IF Behind \/ \A i \in DOMAIN call.checks : Shows(call.checks[i])
       THEN Misbehave ELSE UNCHANGED faulty
    /\ failed' = failed \cup {step}
    /\ GoTo(at + 1)
    /\ UNCHANGED <<suite, node, offset, judged, serviceVars>>

\* The repeated delete: one look at the database after a second; the query
\* itself may fail.
LookOnce ==
    /\ phase = "poll" /\ call.once
    /\ \/ /\ failed' = IF Shows(call.checks[1]) THEN failed ELSE failed \cup {step}
          /\ UNCHANGED faulty
       \/ failed' = failed \cup {step} /\ Misbehave
    /\ GoTo(at + 1)
    /\ UNCHANGED <<suite, node, offset, judged, serviceVars>>

-----------------------------------------------------------------------------
(* sort-mistake's publisher.                                               *)

\* No type, the right one, another one and a number that names none.
Types == {Unspecified, IntraMid, IntraMid + 1, IntraMid + 2}

Malformed(events) ==
    {[events EXCEPT !.systemId = ""], [events EXCEPT !.systemId = "my"],
     [events EXCEPT !.node = <<>>]}
    \cup {[events EXCEPT !.node[1].id = id] : id \in {0} \cup Ids}
    \cup {[events EXCEPT !.node[1].hubId = id] : id \in {0, HubId + 1}}
    \cup {[events EXCEPT !.node[1].name = name] : name \in {"", "WRONG"}}
    \cup {[events EXCEPT !.node[1].type = type] : type \in Types \ {IntraMid}}
    \cup {[events EXCEPT !.node[1].nodeEvent = kind] : kind \in Unspecified .. Deleted + 1}

PublishAs(events) ==
    /\ topic' = Append(topic, [Head(outbox) EXCEPT !.events = events])
    /\ outbox' = Tail(outbox)
    /\ UNCHANGED <<suite, suiteVars, rows, nextId, stored, cached>>

Publish ==
    /\ phase # "done" /\ outbox # <<>>
    /\ PublishAs(Head(outbox).events)
    /\ UNCHANGED faulty

PublishMalformed ==
    /\ outbox # <<>> /\ Misbehave
    /\ \E events \in Malformed(Head(outbox).events) : PublishAs(events)

PublishAgain ==
    /\ topic # <<>> /\ Misbehave
    /\ topic' = Append(topic, topic[Len(topic)])
    /\ UNCHANGED <<suite, suiteVars, rows, nextId, outbox, stored, cached>>

-----------------------------------------------------------------------------
(* sort-service, which the producer suite does not start.                  *)

Applied(names, events) ==
    IF events.node = <<>> \/ ~ValidateSortNodeEventSchema(events.node[1], Unspecified)
    THEN names
    ELSE LET new == events.node[1]
         IN  [names EXCEPT ![new.id] = CASE new.nodeEvent = Deleted -> Absent
                                         [] new.nodeEvent \in {Created, Updated} -> new.name
                                         [] OTHER -> @]

Store ==
    /\ phase # "done" /\ suite # "producer"
    /\ stored = cached /\ stored < Len(topic)
    /\ rows' = [rows EXCEPT !.service = Applied(@, topic[stored + 1].events)]
    /\ stored' = stored + 1
    /\ UNCHANGED <<suite, suiteVars, nextId, outbox, topic, cached, faulty>>

Cache ==
    /\ phase # "done" /\ cached < stored
    /\ rows' = [rows EXCEPT !.cache = Applied(@, topic[stored].events)]
    /\ cached' = stored
    /\ UNCHANGED <<suite, suiteVars, nextId, outbox, topic, stored, faulty>>

-----------------------------------------------------------------------------
Misbehaviour ==
    CleanFails \/ RequestFails \/ InjectFails \/ PublishMalformed \/ PublishAgain

Deadline == ReadTimesOut \/ PollTimesOut

Progress ==
    \/ Clean \/ Request \/ RequestNotFound \/ Inject
    \/ ReadNextSortNodeEvent \/ Poll \/ LookOnce

Next == Progress \/ Deadline \/ Publish \/ Store \/ Cache \/ Misbehaviour

Fairness ==
    /\ WF_vars(Progress) /\ WF_vars(Deadline)
    /\ WF_vars(Publish) /\ WF_vars(Store) /\ WF_vars(Cache)

Spec == Init /\ [][Next]_vars /\ Fairness

-----------------------------------------------------------------------------
(* Type invariant. *)

Kinds == Unspecified .. Deleted + 1
CallNames == {"", "SEEDED", "WRONG"} \cup
    UNION {{Script(s)[c].name : c \in DOMAIN Script(s)} : s \in {"e2e", "producer", "consumer"}}
Nodes == [id : Ids \cup {0}, hubId : {0, HubId, HubId + 1}, name : CallNames,
          type : Types, nodeEvent : Kinds]
MessagesOf == [call : DOMAIN script,
               events : [systemId : {"", "my", SystemId}, node : Seq(Nodes)]]

TypeOK ==
    /\ suite \in Suites
    /\ at \in 1 .. Len(script) + 1
    /\ phase \in {"clean", "call", "answer", "poll", "done"}
    /\ phase = "done" <=> at = Len(script) + 1
    /\ node \in Ids \cup {0}
    /\ seen \in 0 .. 2
    /\ nextId \in 1 .. 4
    /\ phase = "poll" => seen < Len(call.checks)
    /\ failed \subseteq 0 .. 4
    /\ rows \in [{"mistake", "service", "cache"} -> [Ids -> CallNames]]
    /\ outbox \in Seq(MessagesOf) /\ topic \in Seq(MessagesOf)
    /\ offset \in 0 .. Len(topic) /\ stored \in 0 .. Len(topic)
    /\ cached \in {stored, stored - 1} \cap Nat
    /\ faulty \in Seq(0 .. 4) /\ Len(faulty) <= MaxFaults

Unfailed(s) == {0, s} \cap failed = {}
Conclusive(s) == IF suite = "consumer" THEN 0 .. s \cap failed = {} ELSE Unfailed(s)

(* No false alarm: a step fails only when a service misbehaved in it or    *)
(* before it; as long as the services behave, every step reads its own     *)
(* answer and sees its change.                                             *)
NoFalseAlarms == \A s \in failed : faulty # <<>> /\ faulty[1] <= s

(* A step that is not failed judged no event but those its own calls       *)
(* caused, in their order, and each was complete and named the node and    *)
(* the name that was asked for, and after a create the type.  (Which id a  *)
(* create reports is taken on trust by the suites, and so is the type that *)
(* an update reports, be it none that there is.)                           *)
AnswersAreOwn ==
    \A j \in judged :
        LET asked == script[j.call]
            n == j.message.events.node[1]
        IN  Unfailed(asked.step) =>
                /\ j.message.call = j.call
                /\ j.message.events.systemId = SystemId /\ n.hubId = HubId
                /\ asked.op # "create" => n.id = j.node
                /\ asked.op # "delete" => n.name = asked.name /\ n.type # Unspecified
                /\ asked.op = "create" => n.type = IntraMid

(* When a call of a step that is not failed is over, sort-service has      *)
(* applied an event of that call wherever the call polled: no stale row,   *)
(* and no row that is not there yet, was taken for the change.  The steps  *)
(* of the consumer suite share one node, so there the earlier steps must   *)
(* not have failed either: a deletion shows at once where nothing arrived. *)
PassMeansDelivered ==
    \A c \in 1 .. at - 1 : \A i \in DOMAIN script[c].checks :
        LET place == script[c].checks[i]
            position == IF place = "service" THEN stored ELSE cached
        IN  Conclusive(script[c].step) /\ ~script[c].once /\ place # "mistake" =>
                \E e \in 1 .. position : topic[e].call = c

(* Every event the consumer suite injects meets the contract that the      *)
(* producer suite demands of sort-mistake for the same change.             *)
FixturesMeetContract ==
    suite = "consumer" => \A e \in DOMAIN topic :
        LET asked == script[topic[e].call]
            events == topic[e].events
        IN  Verdict(asked, InjectedId, events) = Pass

(* Every test comes to its end: no deadline is missed, no poll goes on for *)
(* ever, and a failed step does not keep the next one from running.        *)
TestEnds == <>(phase = "done")
=============================================================================
