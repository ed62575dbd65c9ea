--------------------------- MODULE PipelineProofs ---------------------------
(***************************************************************************)
(* Theorems about Pipeline, for any number of misbehaviours.               *)
(***************************************************************************)
EXTENDS Pipeline, FiniteSetTheorems, SequenceTheorems, TLAPS

-----------------------------------------------------------------------------
(* The scripts, column by column. *)

Producing == {"e2e", "producer"}    \* the suites that ask sort-mistake
Ops == {"create", "update", "delete"}

HasCalls(s, n) ==
    /\ Len(s) = n /\ DOMAIN s = 1 .. n
    /\ \A c \in 1 .. n : Len(s[c].checks) \in 0 .. 3
    /\ \A c \in 1 .. n : Len(s[c].checks) = 0 => s[c].checks = <<>>

ProducingSteps(s) ==
    \A c \in 1 .. 5 : s[c].step = IF c = 1 THEN 1 ELSE IF c <= 3 THEN 2 ELSE 3
ProducingOps(s) ==
    \A c \in 1 .. 5 :
        s[c].op = IF c = 3 THEN "update" ELSE IF c = 5 THEN "delete" ELSE "create"
ProducingNames(s) ==
    /\ \A c \in 1 .. 4 : s[c].name \notin {"", "WRONG"}
    /\ \A c, d \in 1 .. 5 : s[c].name = s[d].name => c = d
    /\ s[5].name = ""

IsProducingScript(s) ==
    HasCalls(s, 5) /\ ProducingSteps(s) /\ ProducingOps(s) /\ ProducingNames(s)

ConsumerSteps(s) == \A c \in 1 .. 4 : s[c].step = c
ConsumerOps(s) ==
    \A c \in 1 .. 4 :
        s[c].op = IF c = 1 THEN "create" ELSE IF c = 2 THEN "update" ELSE "delete"

ConsumerNames(s) == s[1].name # "" /\ s[2].name # ""
ConsumerChecks(s) == \A c \in 1 .. 4 : Len(s[c].checks) \in 1 .. 2

IsConsumerScript(s) ==
    /\ HasCalls(s, 4) /\ ConsumerSteps(s) /\ ConsumerOps(s)
    /\ ConsumerNames(s) /\ ConsumerChecks(s)

LEMMA E2EScript == IsProducingScript(E2E)
<1>1. HasCalls(E2E, 5)
    <2>1. Len(E2E) = 5 /\ DOMAIN E2E = 1 .. 5
        BY DEF E2E, Call
    <2>2. /\ Len(E2E[1].checks) = 2
          /\ Len(E2E[2].checks) = 1
          /\ Len(E2E[3].checks) = 2
          /\ Len(E2E[4].checks) = 1
          /\ Len(E2E[5].checks) = 3
        BY DEF E2E, Call
    <2>3. QED
        BY <2>1, <2>2 DEF HasCalls
<1>2. ProducingSteps(E2E)
    <2>1. /\ E2E[1].step = 1
          /\ E2E[2].step = 2
          /\ E2E[3].step = 2
          /\ E2E[4].step = 3
          /\ E2E[5].step = 3
        BY DEF E2E, Call
    <2>2. QED
        BY <2>1 DEF ProducingSteps
<1>3. ProducingOps(E2E)
    <2>1. /\ E2E[1].op = "create"
          /\ E2E[2].op = "create"
          /\ E2E[3].op = "update"
          /\ E2E[4].op = "create"
          /\ E2E[5].op = "delete"
        BY DEF E2E, Call
    <2>2. QED
        BY <2>1 DEF ProducingOps
<1>4. ProducingNames(E2E)
    <2>1. /\ E2E[1].name = "ALPHA"
          /\ E2E[2].name = "UPDATE TARGET"
          /\ E2E[3].name = "ALPHA UPDATED"
          /\ E2E[4].name = "DELETE TARGET"
          /\ E2E[5].name = ""
        BY DEF E2E, Call
    <2>2. \A c \in 1 .. 5 : c = 1 \/ c = 2 \/ c = 3 \/ c = 4 \/ c = 5
        OBVIOUS
    <2>3. \A c \in 1 .. 4 : c = 1 \/ c = 2 \/ c = 3 \/ c = 4
        OBVIOUS
    <2>4. \A c \in 1 .. 4 : E2E[c].name \notin {"", "WRONG"}
        BY <2>1, <2>3, Zenon
    <2>5. \A c, d \in 1 .. 5 : E2E[c].name = E2E[d].name => c = d
        BY <2>1, <2>2, Zenon
    <2>6. QED
        BY <2>1, <2>4, <2>5 DEF ProducingNames
<1>5. QED
    BY <1>1, <1>2, <1>3, <1>4 DEF IsProducingScript

LEMMA ProducerScript == IsProducingScript(Producer)
<1>1. HasCalls(Producer, 5)
    <2>1. Len(Producer) = 5 /\ DOMAIN Producer = 1 .. 5
        BY DEF Producer, Call
    <2>2. /\ Len(Producer[1].checks) = 1
          /\ Len(Producer[2].checks) = 0
          /\ Len(Producer[3].checks) = 1
          /\ Len(Producer[4].checks) = 0
          /\ Len(Producer[5].checks) = 1
        BY DEF Producer, Call
    <2>3. Producer[2].checks = <<>> /\ Producer[4].checks = <<>>
        BY DEF Producer, Call
    <2>4. \A c \in 1 .. 5 : Len(Producer[c].checks) \in 0 .. 3
        BY <2>2
    <2>5. ASSUME NEW c \in 1 .. 5, Len(Producer[c].checks) = 0 PROVE c \in {2, 4}
        <3>1. c \in {1, 3, 5} => Len(Producer[c].checks) = 1
            BY <2>2
        <3>2. QED
            BY <2>5, <3>1
    <2>6. \A c \in 1 .. 5 : Len(Producer[c].checks) = 0 => Producer[c].checks = <<>>
        BY <2>3, <2>5, Zenon
    <2>7. QED
        BY <2>1, <2>4, <2>6, Zenon DEF HasCalls
<1>2. ProducingSteps(Producer)
    <2>1. /\ Producer[1].step = 1
          /\ Producer[2].step = 2
          /\ Producer[3].step = 2
          /\ Producer[4].step = 3
          /\ Producer[5].step = 3
        BY DEF Producer, Call
    <2>2. QED
        BY <2>1 DEF ProducingSteps
<1>3. ProducingOps(Producer)
    <2>1. /\ Producer[1].op = "create"
          /\ Producer[2].op = "create"
          /\ Producer[3].op = "update"
          /\ Producer[4].op = "create"
          /\ Producer[5].op = "delete"
        BY DEF Producer, Call
    <2>2. QED
        BY <2>1 DEF ProducingOps
<1>4. ProducingNames(Producer)
    <2>1. /\ Producer[1].name = "ALPHA"
          /\ Producer[2].name = "UPDATE TARGET"
          /\ Producer[3].name = "ALPHA UPDATED"
          /\ Producer[4].name = "DELETE TARGET"
          /\ Producer[5].name = ""
        BY DEF Producer, Call
    <2>2. \A c \in 1 .. 5 : c = 1 \/ c = 2 \/ c = 3 \/ c = 4 \/ c = 5
        OBVIOUS
    <2>3. \A c \in 1 .. 4 : c = 1 \/ c = 2 \/ c = 3 \/ c = 4
        OBVIOUS
    <2>4. \A c \in 1 .. 4 : Producer[c].name \notin {"", "WRONG"}
        BY <2>1, <2>3, Zenon
    <2>5. \A c, d \in 1 .. 5 : Producer[c].name = Producer[d].name => c = d
        BY <2>1, <2>2, Zenon
    <2>6. QED
        BY <2>1, <2>4, <2>5 DEF ProducingNames
<1>5. QED
    BY <1>1, <1>2, <1>3, <1>4 DEF IsProducingScript

LEMMA ConsumerScript == IsConsumerScript(Consumer)
<1>1. HasCalls(Consumer, 4)
    <2>1. Len(Consumer) = 4 /\ DOMAIN Consumer = 1 .. 4
        BY DEF Consumer, Call
    <2>2. /\ Len(Consumer[1].checks) = 2
          /\ Len(Consumer[2].checks) = 2
          /\ Len(Consumer[3].checks) = 2
          /\ Len(Consumer[4].checks) = 1
        BY DEF Consumer, Call
    <2>3. QED
        BY <2>1, <2>2 DEF HasCalls
<1>2. ConsumerSteps(Consumer)
    <2>1. /\ Consumer[1].step = 1
          /\ Consumer[2].step = 2
          /\ Consumer[3].step = 3
          /\ Consumer[4].step = 4
        BY DEF Consumer, Call
    <2>2. QED
        BY <2>1 DEF ConsumerSteps
<1>3. ConsumerOps(Consumer)
    <2>1. /\ Consumer[1].op = "create"
          /\ Consumer[2].op = "update"
          /\ Consumer[3].op = "delete"
          /\ Consumer[4].op = "delete"
        BY DEF Consumer, Call
    <2>2. QED
        BY <2>1 DEF ConsumerOps
<1>4. ConsumerChecks(Consumer)
    <2>1. /\ Len(Consumer[1].checks) = 2 /\ Len(Consumer[2].checks) = 2
          /\ Len(Consumer[3].checks) = 2 /\ Len(Consumer[4].checks) = 1
        BY DEF Consumer, Call
    <2>2. \A c \in 1 .. 4 : Len(Consumer[c].checks) \in 1 .. 2
        BY <2>1
    <2>3. QED
        BY <2>2 DEF ConsumerChecks
<1>5. ConsumerNames(Consumer)
    <2>1. Consumer[1].name = "INJECTED" /\ Consumer[2].name = "INJECTED UPDATED"
        BY DEF Consumer, Call
    <2>2. QED
        BY <2>1 DEF ConsumerNames
<1>6. QED
    BY <1>1, <1>2, <1>3, <1>4, <1>5 DEF IsConsumerScript

LEMMA Scripts ==
    /\ \A s \in Producing : IsProducingScript(Script(s))
    /\ IsConsumerScript(Script("consumer"))
<1>1. Script("e2e") = E2E /\ Script("producer") = Producer /\ Script("consumer") = Consumer
    BY DEF Script
<1>2. QED
    BY <1>1, E2EScript, ProducerScript, ConsumerScript DEF Producing

\* How far require.* skips: to the first call of the next step.
LEMMA Skipped ==
    ASSUME NEW s, NEW c \in DOMAIN s, IsProducingScript(s) \/ IsConsumerScript(s)
    PROVE  LET next == c + Cardinality({d \in c .. Len(s) : s[d].step = s[c].step})
           IN  /\ IsConsumerScript(s) => next = c + 1
               /\ IsProducingScript(s) =>
                      /\ c = 1 => next = 2
                      /\ c \in {2, 3} => next = 4
                      /\ c \in {4, 5} => next = 6
<1> DEFINE S == {d \in c .. Len(s) : s[d].step = s[c].step}
<1>1. \A x : Cardinality({x}) = 1
    BY FS_Singleton
<1>2. \A x, y : x # y => Cardinality({x, y}) = 2
    <2> SUFFICES ASSUME NEW x, NEW y, x # y PROVE Cardinality({x, y}) = 2
        OBVIOUS
    <2>1. IsFiniteSet({x}) /\ Cardinality({x}) = 1
        BY FS_Singleton
    <2>2. Cardinality({x} \cup {y}) = 2
        BY <2>1, FS_AddElement
    <2>3. QED
        BY <2>2, {x} \cup {y} = {x, y}
<1>3. ASSUME IsConsumerScript(s) PROVE c + Cardinality(S) = c + 1
    <2>1. c \in 1 .. 4 /\ Len(s) = 4 /\ \A d \in 1 .. 4 : s[d].step = d
        BY <1>3 DEF IsConsumerScript, HasCalls, ConsumerSteps
    <2>2. \A d : d \in S <=> d = c
        BY <2>1
    <2>3. S = {c}
        BY <2>2
    <2>4. QED
        BY <1>1, <2>3
<1>4. ASSUME IsProducingScript(s)
      PROVE  /\ c = 1 => c + Cardinality(S) = 2
             /\ c \in {2, 3} => c + Cardinality(S) = 4
             /\ c \in {4, 5} => c + Cardinality(S) = 6
    <2>1. /\ c \in 1 .. 5 /\ Len(s) = 5
          /\ \A d \in 1 .. 5 : s[d].step = IF d = 1 THEN 1 ELSE IF d <= 3 THEN 2 ELSE 3
        BY <1>4 DEF IsProducingScript, HasCalls, ProducingSteps
    <2>2. /\ c \in {1, 3, 5} => \A d : d \in S <=> d = c
          /\ c = 2 => \A d : d \in S <=> d \in {2, 3}
          /\ c = 4 => \A d : d \in S <=> d \in {4, 5}
        BY <2>1
    <2>3. /\ c \in {1, 3, 5} => S = {c}
          /\ c = 2 => S = {2, 3}
          /\ c = 4 => S = {4, 5}
        BY <2>2
    <2> HIDE DEF S
    <2>4. Cardinality({2, 3}) = 2 /\ Cardinality({4, 5}) = 2
        <3>1. 2 # 3 /\ 4 # 5
            OBVIOUS
        <3>2. QED
            BY <1>2, <3>1, Zenon
    <2>5. CASE c \in {1, 3, 5}
        <3>1. Cardinality(S) = 1
            BY <1>1, <2>3, <2>5, Zenon
        <3>2. QED
            BY <2>5, <3>1
    <2>6. CASE c \in {2, 4}
        BY <2>3, <2>4, <2>6
    <2>7. QED
        BY <2>1, <2>5, <2>6
<1>5. QED
    BY <1>3, <1>4

-----------------------------------------------------------------------------
(* Types. *)

EventMessages == [systemId : {"", "my", SystemId}, node : Seq(Nodes)]

\* A bound on nextId when call c is due.
Given(c) == IF c = 1 THEN 1 ELSE IF c = 2 THEN 2 ELSE IF c <= 4 THEN 3 ELSE 4

\* No script asks for more than three nodes, and a step that updates or
\* deletes a node has one.
Shape ==
    /\ phase # "poll" => seen = 0
    /\ phase = "clean" => at = 1 /\ outbox = <<>> /\ topic = <<>> /\ judged = {} /\ nextId = 2
    /\ suite = "consumer" =>
           /\ node = InjectedId /\ phase # "answer"
           /\ outbox = <<>> /\ judged = {} /\ nextId <= 2
    /\ suite # "consumer" =>
           /\ phase = "call" => nextId <= Given(at)
           /\ phase \in {"answer", "poll"} => nextId <= Given(at + 1)
           /\ phase \in {"call", "answer"} /\ call.op # "create" => node \in Ids
           /\ phase = "poll" => node \in Ids

\* What sort-mistake still has to publish is the event of the call.
WellFormed ==
    \A e \in DOMAIN outbox :
        /\ Len(outbox[e].events.node) = 1
        /\ outbox[e].events.node[1].name = script[outbox[e].call].name

Typed == TypeOK /\ Shape /\ WellFormed

LEMMA ScriptIs ==
    ASSUME suite \in Suites
    PROVE  \/ suite \in Producing /\ suite # "consumer" /\ IsProducingScript(script)
           \/ suite = "consumer" /\ IsConsumerScript(script)
<1>1. suite \in Producing \cup {"consumer"}
    BY SuitesAssumption DEF Producing
<1>2. QED
    BY <1>1, Scripts DEF script, Producing

LEMMA CallFacts ==
    ASSUME suite \in Suites, NEW c \in DOMAIN script
    PROVE  /\ c \in 1 .. Len(script) /\ Len(script) \in {4, 5}
           /\ DOMAIN script = 1 .. Len(script)
           /\ script[c].step \in 1 .. 4 /\ Len(script[c].checks) \in 0 .. 3
           /\ script[c].op \in Ops
           /\ Len(script[c].checks) = 0 => script[c].checks = <<>>
<1>1. CASE IsProducingScript(script)
    <2>1. DOMAIN script = 1 .. 5 /\ Len(script) = 5 /\ Len(script[c].checks) \in 0 .. 3
        BY <1>1 DEF IsProducingScript, HasCalls
    <2>2. script[c].step \in 1 .. 4
        BY <1>1, <2>1 DEF IsProducingScript, ProducingSteps
    <2>3. script[c].op \in Ops
        BY <1>1, <2>1 DEF IsProducingScript, ProducingOps, Ops
    <2>4. QED
        BY <2>1, <2>2, <2>3
<1>2. CASE IsConsumerScript(script)
    <2>1. DOMAIN script = 1 .. 4 /\ Len(script) = 4 /\ Len(script[c].checks) \in 0 .. 3
        BY <1>2 DEF IsConsumerScript, HasCalls
    <2>2. script[c].step \in 1 .. 4
        BY <1>2, <2>1 DEF IsConsumerScript, ConsumerSteps
    <2>3. script[c].op \in Ops
        BY <1>2, <2>1 DEF IsConsumerScript, ConsumerOps, Ops
    <2>4. QED
        BY <2>1, <2>2, <2>3
<1>3. QED
    BY <1>1, <1>2, ScriptIs

LEMMA NamesOfCalls ==
    ASSUME suite \in Suites, NEW c \in DOMAIN script
    PROVE  script[c].name \in CallNames
<1> DEFINE NamesOf(s) == {Script(s)[d].name : d \in DOMAIN Script(s)}
<1>1. script[c].name \in NamesOf(suite)
    BY DEF script
<1>2. suite \in {"e2e", "producer", "consumer"}
    BY SuitesAssumption
<1>3. NamesOf(suite) \in {NamesOf(s) : s \in {"e2e", "producer", "consumer"}}
    BY <1>2, Zenon
<1>4. QED
    BY <1>1, <1>3, Zenon DEF CallNames

LEMMA NodeIsTyped ==
    ASSUME NEW id \in Ids \cup {0}, NEW hubId \in {0, HubId, HubId + 1}, NEW name \in CallNames,
           NEW type \in Types, NEW kind \in Kinds
    PROVE  [id |-> id, hubId |-> hubId, name |-> name, type |-> type, nodeEvent |-> kind] \in Nodes
    BY DEF Nodes

LEMMA EventIsTyped ==
    ASSUME NEW op \in Ops, NEW id \in Ids, NEW name \in CallNames
    PROVE  /\ Event(op, id, name) \in EventMessages
           /\ Len(Event(op, id, name).node) = 1
           /\ op # "delete" => Event(op, id, name).node[1].name = name
           /\ op = "delete" => Event(op, id, name).node[1].name = ""
<1> DEFINE created == [id |-> id, hubId |-> HubId, name |-> name, type |-> IntraMid,
                       nodeEvent |-> Created]
           updated == [id |-> id, hubId |-> HubId, name |-> name, type |-> IntraMid,
                       nodeEvent |-> Updated]
           deleted == [id |-> id, hubId |-> HubId, name |-> "", type |-> Unspecified,
                       nodeEvent |-> Deleted]
<1>1. "" \in CallNames
    BY DEF CallNames
<1>2. created \in Nodes /\ updated \in Nodes /\ deleted \in Nodes
    <2>1. Created \in Kinds /\ Updated \in Kinds /\ Deleted \in Kinds
        BY DEF Kinds, Created, Updated, Deleted, Unspecified
    <2>2. Unspecified \in Types /\ IntraMid \in Types
        BY DEF Types
    <2>3. QED
        BY <1>1, <2>1, <2>2, NodeIsTyped
<1>3. \A n \in Nodes : Message(SystemId, n) \in EventMessages
    BY DEF Message, EventMessages
<1>4. Event(op, id, name) = IF op = "create" THEN Message(SystemId, created)
                            ELSE IF op = "update" THEN Message(SystemId, updated)
                            ELSE Message(SystemId, deleted)
    BY DEF Event, NewSortNodeCreatedEvent, NewSortNodeUpdatedEvent, NewSortNodeDeletedEvent, Ops
<1>5. \A n : Message(SystemId, n).node = <<n>>
    BY DEF Message
<1> HIDE DEF created, updated, deleted
<1>6. Event(op, id, name) \in EventMessages /\ Len(Event(op, id, name).node) = 1
    BY <1>2, <1>3, <1>4, <1>5
<1>7. created.name = name /\ updated.name = name /\ deleted.name = ""
    BY DEF created, updated, deleted
<1>8. \A n : <<n>>[1] = n
    OBVIOUS
<1>9. \A n : Message(SystemId, n).node[1] = n
    BY <1>5, <1>8, Zenon
<1>10. op # "delete" => Event(op, id, name).node[1].name = name
    <2>1. CASE op = "create"
        BY <1>4, <1>7, <1>9, <2>1
    <2>2. CASE op = "update"
        BY <1>4, <1>7, <1>9, <2>2
    <2>3. QED
        BY <2>1, <2>2 DEF Ops
<1>11. op = "delete" => Event(op, id, name).node[1].name = ""
    BY <1>4, <1>7, <1>9
<1>12. QED
    BY <1>6, <1>10, <1>11

LEMMA MalformedIsTyped ==
    ASSUME NEW events \in EventMessages, Len(events.node) = 1, NEW m \in Malformed(events)
    PROVE  /\ m \in EventMessages
           /\ \/ m.node = <<>>
              \/ m.node # <<>> /\ m.node[1].name \in {events.node[1].name, "", "WRONG"}
<1> DEFINE n == events.node[1]
<1>1. n \in Nodes /\ events.node \in Seq(Nodes)
    <2>1. events.node \in Seq(Nodes)
        BY DEF EventMessages
    <2>2. QED
        BY <2>1, ElementOfSeq
<1>2. "" \in CallNames /\ "WRONG" \in CallNames
    BY DEF CallNames
<1>3. ASSUME NEW o \in Nodes
      PROVE  LET e == [events EXCEPT !.node[1] = o]
             IN  e \in EventMessages /\ e.node # <<>> /\ e.node[1] = o
    <2> DEFINE q == [events.node EXCEPT ![1] = o]
    <2>1. q \in Seq(Nodes) /\ Len(q) = 1 /\ q[1] = o
        BY <1>1, ExceptSeq
    <2> HIDE DEF q
    <2>2. q # <<>>
        BY <2>1, Len(<<>>) = 0, 0 # 1, Zenon
    <2>3. [events EXCEPT !.node = q] \in EventMessages
        BY <2>1 DEF EventMessages
    <2>4. [events EXCEPT !.node = q].node = q
        BY DEF EventMessages
    <2>5. QED
        BY <2>1, <2>2, <2>3, <2>4 DEF q
<1>4. CASE m \in {[events EXCEPT !.systemId = ""], [events EXCEPT !.systemId = "my"],
                  [events EXCEPT !.node = <<>>]}
    <2>1. <<>> \in Seq(Nodes) /\ events.node # <<>>
        BY <1>1
    <2>2. CASE m = [events EXCEPT !.node = <<>>]
        BY <2>1, <2>2 DEF EventMessages
    <2>3. CASE m = [events EXCEPT !.systemId = ""]
        BY <2>1, <2>3 DEF EventMessages
    <2>4. CASE m = [events EXCEPT !.systemId = "my"]
        BY <2>1, <2>4 DEF EventMessages
    <2>5. QED
        BY <1>4, <2>2, <2>3, <2>4
<1>5. CASE \E id \in {0} \cup Ids : m = [events EXCEPT !.node[1].id = id]
    <2>1. PICK id \in {0} \cup Ids : m = [events EXCEPT !.node[1] = [n EXCEPT !.id = id]]
        BY <1>5
    <2>2. [n EXCEPT !.id = id] \in Nodes /\ [n EXCEPT !.id = id].name = n.name
        BY <1>1 DEF Nodes
    <2>3. QED
        BY <1>3, <2>1, <2>2
<1>6. CASE \E id \in {0, HubId + 1} : m = [events EXCEPT !.node[1].hubId = id]
    <2>1. PICK id \in {0, HubId + 1} : m = [events EXCEPT !.node[1] = [n EXCEPT !.hubId = id]]
        BY <1>6
    <2>2. [n EXCEPT !.hubId = id] \in Nodes /\ [n EXCEPT !.hubId = id].name = n.name
        BY <1>1 DEF Nodes
    <2>3. QED
        BY <1>3, <2>1, <2>2
<1>7. CASE \E name \in {"", "WRONG"} : m = [events EXCEPT !.node[1].name = name]
    <2>1. PICK name \in {"", "WRONG"} : m = [events EXCEPT !.node[1] = [n EXCEPT !.name = name]]
        BY <1>7
    <2>2. [n EXCEPT !.name = name] \in Nodes /\ [n EXCEPT !.name = name].name = name
        BY <1>1, <1>2 DEF Nodes
    <2>3. QED
        BY <1>3, <2>1, <2>2
<1>8. CASE \E type \in Types : m = [events EXCEPT !.node[1].type = type]
    <2>1. PICK type \in Types : m = [events EXCEPT !.node[1] = [n EXCEPT !.type = type]]
        BY <1>8
    <2>2. [n EXCEPT !.type = type] \in Nodes /\ [n EXCEPT !.type = type].name = n.name
        BY <1>1 DEF Nodes
    <2>3. QED
        BY <1>3, <2>1, <2>2
<1>9. CASE \E kind \in Kinds : m = [events EXCEPT !.node[1].nodeEvent = kind]
    <2>1. PICK kind \in Kinds : m = [events EXCEPT !.node[1] = [n EXCEPT !.nodeEvent = kind]]
        BY <1>9
    <2>2. [n EXCEPT !.nodeEvent = kind] \in Nodes /\ [n EXCEPT !.nodeEvent = kind].name = n.name
        BY <1>1 DEF Nodes
    <2>3. QED
        BY <1>3, <2>1, <2>2
<1>10. QED
    BY <1>4, <1>5, <1>6, <1>7, <1>8, <1>9 DEF Malformed, Kinds

LEMMA AppliedIsTyped ==
    ASSUME NEW names \in [Ids -> CallNames], NEW events \in EventMessages
    PROVE  Applied(names, events) \in [Ids -> CallNames]
<1>1. CASE events.node = <<>> \/ ~ValidateSortNodeEventSchema(events.node[1], Unspecified)
    BY <1>1 DEF Applied
<1>2. CASE events.node # <<>> /\ ValidateSortNodeEventSchema(events.node[1], Unspecified)
    <2> DEFINE new == events.node[1]
    <2>1. new \in Nodes
        <3>1. events.node \in Seq(Nodes) /\ events.node # <<>>
            BY <1>2 DEF EventMessages
        <3>2. QED
            BY <3>1, EmptySeq, ElementOfSeq
    <2>2. new.id \in Ids /\ new.name \in CallNames
        <3>1. new.id > 0
            BY <1>2 DEF ValidateSortNodeEventSchema
        <3>2. new.id \in Ids \cup {0} /\ new.name \in CallNames
            BY <2>1 DEF Nodes
        <3>3. QED
            BY <3>1, <3>2
    <2>3. Absent \in CallNames
        BY DEF Absent, CallNames
    <2> HIDE DEF new
    <2>4. \A kind : (CASE kind = Deleted -> Absent
                       [] kind \in {Created, Updated} -> new.name
                       [] OTHER -> names[new.id]) \in CallNames
        BY <2>2, <2>3 DEF Created, Updated, Deleted
    <2>5. Applied(names, events) =
              [names EXCEPT ![new.id] = CASE new.nodeEvent = Deleted -> Absent
                                          [] new.nodeEvent \in {Created, Updated} -> new.name
                                          [] OTHER -> names[new.id]]
        BY <1>2 DEF Applied, new
    <2>6. QED
        BY <2>2, <2>4, <2>5
<1>3. QED
    BY <1>1, <1>2

\* What an event must be for require.*, and for assert.*, to let it through.
LEMMA Judgement ==
    ASSUME NEW events, NEW expected
    PROVE  /\ AssertSortNodeEventsContract(events, expected) # Stop =>
                  /\ events.node # <<>>
                  /\ ValidateSortNodeEventSchema(events.node[1], expected.nodeEvent)
           /\ AssertSortNodeEventsContract(events, expected) = Pass =>
                  /\ expected.systemId \in {"", events.systemId}
                  /\ expected.id > 0 => events.node[1].id = expected.id
                  /\ expected.hubId > 0 => events.node[1].hubId = expected.hubId
                  /\ expected.name \in {"", events.node[1].name}
                  /\ expected.type \in {Unspecified, events.node[1].type}
                  /\ events.node[1].nodeEvent = expected.nodeEvent
<1>1. Stop # Fail /\ Stop # Pass /\ Fail # Pass
    BY DEF Stop, Fail, Pass
<1>2. QED
    BY <1>1, Zenon DEF AssertSortNodeEventsContract

\* Three ways to ask for the same.
Expected(asked, id) ==
    IF asked.op = "create"
    THEN ExpectedSortNode(0, HubId, SystemId, asked.name, IntraMid, Created)
    ELSE IF asked.op = "update"
         THEN ExpectedSortNode(id, HubId, SystemId, asked.name, Unspecified, Updated)
         ELSE ExpectedSortNode(id, HubId, SystemId, "", Unspecified, Deleted)

LEMMA VerdictIs ==
    ASSUME NEW asked, asked.op \in Ops, NEW id, NEW events
    PROVE  Verdict(asked, id, events) = AssertSortNodeEventsContract(events, Expected(asked, id))
<1>1. CASE asked.op = "create"
    BY <1>1 DEF Verdict, Expected, AssertNodeCreatedContract
<1>2. CASE asked.op = "update"
    BY <1>2 DEF Verdict, Expected, AssertNodeUpdatedContract
<1>3. CASE asked.op = "delete"
    BY <1>3 DEF Verdict, Expected, AssertNodeDeletedContract
<1>4. QED
    BY <1>1, <1>2, <1>3 DEF Ops

LEMMA NotStopped ==
    ASSUME NEW asked, asked.op \in Ops, NEW id, NEW events,
           Verdict(asked, id, events) # Stop
    PROVE  events.node # <<>> /\ events.node[1].id > 0
<1>1. AssertSortNodeEventsContract(events, Expected(asked, id)) # Stop
    BY VerdictIs, Zenon
<1>2. /\ events.node # <<>>
      /\ ValidateSortNodeEventSchema(events.node[1], Expected(asked, id).nodeEvent)
    BY <1>1, Judgement, Zenon
<1>3. QED
    BY <1>2, Zenon DEF ValidateSortNodeEventSchema

\* What a step that stays unfailed knows of the event it judged.
Agrees(asked, id, events) ==
    /\ events.node # <<>> /\ events.systemId = SystemId
    /\ events.node[1].hubId = HubId
    /\ asked.op # "create" /\ id > 0 => events.node[1].id = id
    /\ asked.op # "delete" => /\ asked.name \in {"", events.node[1].name}
                              /\ events.node[1].type # Unspecified
    /\ asked.op = "create" => events.node[1].nodeEvent = Created /\ events.node[1].type = IntraMid
    /\ asked.op = "delete" => events.node[1].nodeEvent = Deleted

LEMMA Passed ==
    ASSUME NEW asked, asked.op \in Ops, NEW id, NEW events,
           Verdict(asked, id, events) = Pass
    PROVE  Agrees(asked, id, events)
<1> DEFINE n == events.node[1]
           expected == Expected(asked, id)
<1>1. /\ events.node # <<>> /\ ValidateSortNodeEventSchema(n, expected.nodeEvent)
      /\ expected.systemId \in {"", events.systemId}
      /\ expected.id > 0 => n.id = expected.id
      /\ expected.hubId > 0 => n.hubId = expected.hubId
      /\ expected.name \in {"", n.name}
      /\ expected.type \in {Unspecified, n.type}
      /\ n.nodeEvent = expected.nodeEvent
    <2>1. AssertSortNodeEventsContract(events, expected) = Pass
        BY VerdictIs, Zenon
    <2>2. Pass # Stop
        BY DEF Stop, Pass
    <2> HIDE DEF expected
    <2>3. QED
        BY <2>1, <2>2, Judgement, Zenon
<1>2. /\ expected.systemId = SystemId /\ expected.hubId = HubId
      /\ asked.op = "create" => expected.nodeEvent = Created /\ expected.type = IntraMid
      /\ asked.op = "update" => expected.nodeEvent = Updated
      /\ asked.op = "delete" => expected.nodeEvent = Deleted
      /\ asked.op # "create" => expected.id = id
      /\ asked.op # "delete" => expected.name = asked.name
    BY DEF Expected, ExpectedSortNode, Ops
<1>3. SystemId # "" /\ HubId > 0
    BY DEF SystemId, HubId
<1> HIDE DEF expected
<1>4. events.systemId = SystemId /\ n.hubId = HubId
    BY <1>1, <1>2, <1>3
<1>5. asked.op # "delete" => n.type # Unspecified
    <2>1. asked.op # "delete" => n.nodeEvent \in {Created, Updated}
        BY <1>1, <1>2 DEF Ops
    <2>2. QED
        BY <1>1, <2>1 DEF ValidateSortNodeEventSchema
<1>6. asked.op = "create" => n.type = IntraMid
    <2>1. IntraMid # Unspecified
        BY DEF IntraMid, Unspecified
    <2>2. QED
        BY <1>1, <1>2, <2>1
<1>7. QED
    BY <1>1, <1>2, <1>4, <1>5, <1>6 DEF Ops, Agrees

-----------------------------------------------------------------------------
(* What the steps have in common. *)

\* TypeOK and Shape, sorted by who writes what.
ControlTyped ==
    /\ suite \in Suites
    /\ at \in 1 .. Len(script) + 1
    /\ phase \in {"clean", "call", "answer", "poll", "done"}
    /\ phase = "done" <=> at = Len(script) + 1
    /\ node \in Ids \cup {0}
    /\ seen \in 0 .. 2
    /\ phase = "poll" => seen < Len(call.checks)
    /\ failed \subseteq 0 .. 4
    /\ nextId \in 1 .. 4
    /\ Shape

ServicesTyped ==
    /\ rows \in [{"mistake", "service", "cache"} -> [Ids -> CallNames]]
    /\ outbox \in Seq(MessagesOf) /\ topic \in Seq(MessagesOf)
    /\ WellFormed

CountersTyped ==
    /\ offset \in 0 .. Len(topic) /\ stored \in 0 .. Len(topic)
    /\ cached \in {stored, stored - 1} \cap Nat
    /\ faulty \in Seq(0 .. 4) /\ Len(faulty) <= MaxFaults

LEMMA TypedParts == Typed <=> ControlTyped /\ ServicesTyped /\ CountersTyped
    BY Zenon DEF Typed, TypeOK, ControlTyped, ServicesTyped, CountersTyped

LEMMA ScriptStays ==
    ASSUME suite' = suite
    PROVE  script' = script /\ MessagesOf' = MessagesOf /\ call' = script[at']
<1>1. script' = script
    BY DEF script
<1>2. QED
    BY <1>1 DEF MessagesOf, call

LEMMA InCall ==
    ASSUME ControlTyped, phase \notin {"clean", "done"}
    PROVE  /\ at \in DOMAIN script /\ at \in 1 .. Len(script) /\ Len(script) \in {4, 5}
           /\ step = call.step /\ call.step \in 1 .. 4 /\ Len(call.checks) \in 0 .. 3
           /\ call.op \in Ops /\ call.name \in CallNames
           /\ Len(call.checks) = 0 => call.checks = <<>>
<1>1. suite \in Suites /\ at \in DOMAIN script /\ at \in 1 .. Len(script)
    <2>1. /\ suite \in Suites /\ at \in 1 .. Len(script) + 1
          /\ phase # "done" /\ (phase = "done" <=> at = Len(script) + 1)
        BY DEF ControlTyped
    <2>2. Len(script) \in {4, 5} /\ DOMAIN script = 1 .. Len(script)
        <3>1. 1 \in DOMAIN script
            BY <2>1, ScriptIs DEF IsProducingScript, IsConsumerScript, HasCalls
        <3>2. QED
            BY <2>1, <3>1, CallFacts
    <2>3. QED
        BY <2>1, <2>2
<1>2. step = call.step
    BY DEF step
<1>3. QED
    BY <1>1, <1>2, CallFacts, NamesOfCalls DEF call

\* Every script starts with a creation.
LEMMA FirstCall ==
    ASSUME suite \in Suites
    PROVE  /\ script[1].op = "create" /\ Len(script) \in {4, 5}
           /\ DOMAIN script = 1 .. Len(script)
           /\ suite # "consumer" => suite \in Producing /\ Len(script) = 5
<1>1. CASE suite # "consumer"
    <2>1. suite \in Producing /\ IsProducingScript(script)
        BY <1>1, ScriptIs
    <2>2. Len(script) = 5 /\ DOMAIN script = 1 .. 5
        BY <2>1 DEF IsProducingScript, HasCalls
    <2>3. script[1].op = "create"
        BY <2>1 DEF IsProducingScript, ProducingOps
    <2>4. QED
        BY <2>1, <2>2, <2>3
<1>2. CASE suite = "consumer"
    <2>1. IsConsumerScript(script)
        BY <1>2, ScriptIs
    <2>2. Len(script) = 4 /\ DOMAIN script = 1 .. 4
        BY <2>1 DEF IsConsumerScript, HasCalls
    <2>3. script[1].op = "create"
        BY <2>1 DEF IsConsumerScript, ConsumerOps
    <2>4. QED
        BY <1>2, <2>2, <2>3
<1>3. QED
    BY <1>1, <1>2

LEMMA GivenGrows ==
    \A c, d \in Nat \ {0} : c <= d => Given(c) <= Given(d) /\ Given(c) \in 1 .. 4
    BY DEF Given

\* The step that ends a call leaves the control well typed.
LEMMA MoveIsTyped ==
    ASSUME ControlTyped, phase \notin {"clean", "done"}, suite' = suite,
           at' \in at + 1 .. Len(script) + 1, seen' = 0,
           phase' = IF at' > Len(script) THEN "done" ELSE "call",
           failed' \subseteq 0 .. 4, node' \in Ids \cup {0}, nextId' \in 1 .. 4,
           suite = "consumer" =>
               node' = InjectedId /\ outbox' = <<>> /\ judged' = {} /\ nextId' <= 2,
           suite # "consumer" =>
               /\ nextId' <= Given(at + 1)
               /\ at' <= Len(script) /\ script[at'].op # "create" => node' \in Ids
    PROVE  ControlTyped'
<1>1. at \in 1 .. Len(script) /\ Len(script) \in {4, 5}
    BY InCall
<1>2. script' = script /\ call' = script[at'] /\ suite \in Suites
    BY ScriptStays DEF ControlTyped
<1>3. /\ phase' \in {"call", "done"} /\ (phase' = "done" <=> at' = Len(script) + 1)
      /\ phase' = "call" => at' <= Len(script)
    BY <1>1
<1>4. suite # "consumer" => nextId' <= Given(at')
    BY <1>1, GivenGrows
<1>5. Shape'
    BY <1>2, <1>3, <1>4 DEF Shape
<1>6. QED
    BY <1>1, <1>2, <1>3, <1>5 DEF ControlTyped

LEMMA StopStepMoves ==
    ASSUME ControlTyped, phase \notin {"clean", "done"}, StopStep
    PROVE  /\ at' \in at + 1 .. Len(script) + 1 /\ seen' = 0
           /\ phase' = IF at' > Len(script) THEN "done" ELSE "call"
           /\ failed' = failed \cup {call.step} /\ failed' \subseteq 0 .. 4
           /\ suite # "consumer" =>
                  /\ at' \in {2, 4, 6} /\ at' # 5
                  /\ at' <= Len(script) => script[at'].op = "create"
<1>1. /\ at \in DOMAIN script /\ at \in 1 .. Len(script) /\ Len(script) \in {4, 5}
      /\ step = call.step /\ call = script[at] /\ call.step \in 1 .. 4
      /\ suite \in Suites /\ failed \subseteq 0 .. 4
    BY InCall DEF ControlTyped, call
<1> DEFINE next == at + Cardinality({d \in at .. Len(script) : script[d].step = script[at].step})
<1>2. GoTo(next) /\ failed' = failed \cup {call.step}
    BY <1>1 DEF StopStep, call
<1> HIDE DEF next
<1>3. at' = next /\ seen' = 0 /\ phase' = IF next > Len(script) THEN "done" ELSE "call"
    BY <1>2 DEF GoTo
<1>4. failed' = failed \cup {call.step} /\ failed' \subseteq 0 .. 4
    <2>1. call.step \in 0 .. 4 /\ failed \subseteq 0 .. 4
        BY <1>1
    <2>2. failed' = failed \cup {call.step}
        BY <1>2
    <2>3. QED
        BY <2>1, <2>2
<1>5. CASE suite = "consumer"
    <2>1. IsConsumerScript(script)
        BY <1>1, <1>5, ScriptIs
    <2>2. next = at + 1
        BY <1>1, <2>1, Skipped DEF next
    <2>3. next \in at + 1 .. Len(script) + 1
        BY <1>1, <2>2
    <2>4. QED
        BY <1>3, <1>4, <1>5, <2>3
<1>6. CASE suite # "consumer"
    <2>1. IsProducingScript(script)
        BY <1>1, <1>6, ScriptIs
    <2>2. Len(script) = 5
        BY <2>1 DEF IsProducingScript, HasCalls
    <2>3. /\ at = 1 => next = 2
          /\ at \in {2, 3} => next = 4
          /\ at \in {4, 5} => next = 6
        BY <1>1, <2>1, Skipped DEF next
    <2>4. next \in {2, 4, 6} /\ next \in at + 1 .. 6
        BY <1>1, <2>2, <2>3
    <2>5. script[2].op = "create" /\ script[4].op = "create"
        BY <2>1 DEF IsProducingScript, ProducingOps
    <2>6. next <= Len(script) => script[next].op = "create"
        BY <2>2, <2>4, <2>5
    <2>7. next \in at + 1 .. Len(script) + 1 /\ next # 5
        BY <2>2, <2>4
    <2>8. QED
        BY <1>3, <1>4, <1>6, <2>4, <2>6, <2>7
<1>7. QED
    BY <1>5, <1>6

LEMMA MisbehaveIsTyped ==
    ASSUME ControlTyped, CountersTyped, Misbehave
    PROVE  phase # "done" /\ faulty' \in Seq(0 .. 4) /\ Len(faulty') <= MaxFaults
<1>1. phase # "done" /\ Len(faulty) < MaxFaults /\ faulty' = Append(faulty, step)
    BY DEF Misbehave, MayMisbehave
<1>2. step \in 0 .. 4
    BY <1>1, InCall DEF step
<1>3. faulty \in Seq(0 .. 4) /\ MaxFaults \in Nat
    BY BoundAssumption DEF CountersTyped
<1>4. faulty' \in Seq(0 .. 4) /\ Len(faulty') = Len(faulty) + 1
    BY <1>1, <1>2, <1>3
<1>5. QED
    BY <1>1, <1>3, <1>4

LEMMA CommitIsTyped ==
    ASSUME ControlTyped, ServicesTyped, suite # "consumer", phase = "call", Commit
    PROVE  /\ rows' \in [{"mistake", "service", "cache"} -> [Ids -> CallNames]]
           /\ outbox' \in Seq(MessagesOf)
           /\ \E message \in MessagesOf :
                  /\ outbox' = Append(outbox, message)
                  /\ message.call = at /\ Len(message.events.node) = 1
                  /\ message.events.node[1].name = call.name
           /\ nextId' \in 1 .. 4 /\ nextId' <= Given(at + 1)
<1> DEFINE id == IF call.op = "create" THEN nextId ELSE node
           message == [call |-> at, events |-> Event(call.op, id, call.name)]
<1>1. /\ at \in DOMAIN script /\ at \in 1 .. Len(script) /\ Len(script) \in {4, 5}
      /\ call.op \in Ops /\ call.name \in CallNames /\ call = script[at]
      /\ suite \in Suites /\ nextId \in 1 .. 4
      /\ suite \in Producing /\ Len(script) = 5
    <2>1. suite \in Suites /\ nextId \in 1 .. 4
        BY DEF ControlTyped
    <2>2. QED
        BY <2>1, InCall, FirstCall DEF call
<1>2. nextId <= Given(at) /\ (call.op # "create" => node \in Ids)
    BY DEF ControlTyped, Shape
<1>3. call.op = "create" => at \in {1, 2, 4}
    <2>1. IsProducingScript(script)
        BY <1>1, ScriptIs DEF Producing
    <2>2. QED
        BY <1>1, <2>1 DEF IsProducingScript, ProducingOps
<1>4. call.op = "create" => nextId \in 1 .. 3 /\ nextId + 1 <= Given(at + 1)
    BY <1>1, <1>2, <1>3 DEF Given
<1>5. Given(at) <= Given(at + 1)
    BY <1>1, GivenGrows
<1>6. Given(at) \in 1 .. 4 /\ Given(at + 1) \in 1 .. 4
    BY <1>1, GivenGrows
<1>7. nextId' \in 1 .. 4 /\ nextId' <= Given(at + 1)
    <2>1. nextId' = IF call.op = "create" THEN nextId + 1 ELSE nextId
        BY DEF Commit
    <2>2. QED
        BY <1>1, <1>2, <1>4, <1>5, <1>6, <2>1
<1>8. id \in Ids
    BY <1>2, <1>4 DEF Ids
<1> HIDE DEF id
<1>9. rows' \in [{"mistake", "service", "cache"} -> [Ids -> CallNames]]
    <2>1. rows' = [rows EXCEPT !["mistake"] = [rows["mistake"] EXCEPT ![id] = call.name]]
        BY DEF Commit, id
    <2>2. rows \in [{"mistake", "service", "cache"} -> [Ids -> CallNames]]
        BY DEF ServicesTyped
    <2>3. [rows["mistake"] EXCEPT ![id] = call.name] \in [Ids -> CallNames]
        BY <1>1, <1>8, <2>2
    <2>4. QED
        BY <2>1, <2>2, <2>3
<1>10. /\ message \in MessagesOf /\ message.call = at
       /\ Len(message.events.node) = 1 /\ message.events.node[1].name = call.name
    <2>1. /\ Event(call.op, id, call.name) \in EventMessages
          /\ Len(Event(call.op, id, call.name).node) = 1
          /\ call.op # "delete" => Event(call.op, id, call.name).node[1].name = call.name
          /\ call.op = "delete" => Event(call.op, id, call.name).node[1].name = ""
        <3>1. call.op \in Ops /\ call.name \in CallNames
            BY <1>1
        <3> DEFINE TypedAs(op, i, name) ==
                /\ Event(op, i, name) \in EventMessages
                /\ Len(Event(op, i, name).node) = 1
                /\ op # "delete" => Event(op, i, name).node[1].name = name
                /\ op = "delete" => Event(op, i, name).node[1].name = ""
        <3>2. \A op \in Ops, i \in Ids, name \in CallNames : TypedAs(op, i, name)
            BY EventIsTyped, Zenon
        <3> HIDE DEF TypedAs
        <3>3. TypedAs(call.op, id, call.name)
            BY <1>8, <3>1, <3>2
        <3>4. QED
            BY <3>3 DEF TypedAs
    <2>2. call.op = "delete" => call.name = ""
        <3>1. IsProducingScript(script)
            BY <1>1, ScriptIs DEF Producing
        <3>2. call.op = "delete" => at = 5
            BY <1>1, <3>1 DEF IsProducingScript, ProducingOps
        <3>3. script[5].name = ""
            BY <3>1 DEF IsProducingScript, ProducingNames
        <3>4. QED
            BY <1>1, <3>2, <3>3
    <2> DEFINE events == Event(call.op, id, call.name)
    <2>3. events.node[1].name = call.name
        BY <2>1, <2>2
    <2> HIDE DEF events
    <2>4. message = [call |-> at, events |-> events]
        BY DEF events
    <2> HIDE DEF message
    <2>5. message.call = at /\ message.events = events
        BY <2>4
    <2>6. message \in MessagesOf
        BY <1>1, <2>1, <2>4 DEF MessagesOf, EventMessages, events
    <2>7. QED
        BY <2>1, <2>3, <2>5, <2>6 DEF events
<1>11. outbox' = Append(outbox, message) /\ outbox' \in Seq(MessagesOf)
    <2>1. outbox' = Append(outbox, message) /\ outbox \in Seq(MessagesOf)
        BY DEF Commit, ServicesTyped, id
    <2> HIDE DEF message
    <2>2. QED
        BY <1>10, <2>1
<1> HIDE DEF message
<1>12. QED
    BY <1>7, <1>9, <1>10, <1>11

LEMMA ControlStep == ASSUME Typed, Next PROVE ControlTyped'
<1>1. ControlTyped /\ ServicesTyped /\ CountersTyped
    BY TypedParts
<1>2. suite \in Suites /\ node \in Ids \cup {0} /\ nextId \in 1 .. 4 /\ failed \subseteq 0 .. 4
    BY <1>1 DEF ControlTyped
<1>3. suite = "consumer" =>
          node = InjectedId /\ outbox = <<>> /\ judged = {} /\ nextId <= 2 /\ phase # "answer"
    BY <1>1 DEF ControlTyped, Shape
<1>4. at \in 1 .. Len(script) => Given(at) <= Given(at + 1)
    BY GivenGrows
<1>5. CASE Clean
    <2>1. /\ suite' = suite /\ phase' = "call" /\ at' = at /\ seen' = seen /\ failed' = failed
          /\ node' = node /\ nextId' = 1 /\ outbox' = outbox /\ judged' = judged /\ phase = "clean"
        BY <1>5 DEF Clean
    <2>2. at = 1 /\ script' = script /\ call' = script[1] /\ seen = 0
        BY <1>1, <2>1, ScriptStays DEF ControlTyped, Shape
    <2>3. script[1].op = "create" /\ Len(script) \in {4, 5}
        BY <1>2, FirstCall
    <2>4. Shape'
        BY <1>3, <2>1, <2>2, <2>3 DEF Shape, Given
    <2>5. QED
        BY <1>2, <2>1, <2>2, <2>3, <2>4 DEF ControlTyped
<1>6. CASE CleanFails
    <2>1. /\ suite' = suite /\ phase = "clean" /\ failed' = {0} /\ GoTo(Len(script) + 1)
          /\ node' = node /\ nextId' = nextId /\ outbox' = outbox /\ judged' = judged
        BY <1>6 DEF CleanFails, serviceVars
    <2>2. Len(script) \in {4, 5} /\ script' = script
        BY <1>2, <2>1, FirstCall, ScriptStays
    <2>3. at' = Len(script) + 1 /\ phase' = "done" /\ seen' = 0
        BY <2>1, <2>2 DEF GoTo
    <2>4. Shape'
        BY <1>3, <2>1, <2>3 DEF Shape
    <2>5. QED
        BY <1>2, <2>1, <2>2, <2>3, <2>4 DEF ControlTyped
<1>7. CASE Request
    <2>1. /\ suite' = suite /\ suite # "consumer" /\ phase = "call" /\ phase' = "answer" /\ Commit
          /\ at' = at /\ node' = node /\ seen' = seen /\ failed' = failed /\ judged' = judged
        BY <1>7 DEF Request
    <2>2. nextId' \in 1 .. 4 /\ nextId' <= Given(at + 1)
        BY <1>1, <2>1, CommitIsTyped
    <2>3. script' = script /\ call' = call /\ at \in 1 .. Len(script) /\ Len(script) \in {4, 5}
        BY <1>1, <2>1, ScriptStays, InCall DEF call
    <2>4. Shape'
        BY <1>1, <2>1, <2>2, <2>3 DEF Shape, ControlTyped
    <2>5. seen \in 0 .. 2
        BY <1>1 DEF ControlTyped
    <2>6. QED
        BY <1>2, <2>1, <2>2, <2>3, <2>4, <2>5 DEF ControlTyped
<1>8. CASE Inject
    <2>1. /\ suite' = suite /\ suite = "consumer" /\ phase = "call" /\ phase' = "poll"
          /\ at' = at /\ node' = node /\ seen' = seen /\ failed' = failed /\ judged' = judged
          /\ outbox' = outbox /\ nextId' = nextId
        BY <1>8 DEF Inject
    <2>2. script' = script /\ call' = call /\ at \in 1 .. Len(script) /\ Len(script) \in {4, 5}
        BY <1>1, <2>1, ScriptStays, InCall DEF call
    <2>3. seen = 0
        BY <1>1, <2>1 DEF ControlTyped, Shape
    <2>4. Len(call.checks) > 0
        <3>1. IsConsumerScript(script)
            BY <1>2, <2>1, ScriptIs DEF Producing
        <3>2. Len(script) = 4
            BY <3>1 DEF IsConsumerScript, HasCalls
        <3>3. at \in 1 .. 4 /\ ConsumerChecks(script)
            BY <2>2, <3>1, <3>2 DEF IsConsumerScript
        <3>4. Len(script[at].checks) \in 1 .. 2
            BY <3>3, Zenon DEF ConsumerChecks
        <3>5. call = script[at]
            BY DEF call
        <3>6. \A n \in 1 .. 2 : n > 0
            OBVIOUS
        <3>7. QED
            BY <3>4, <3>5, <3>6, Zenon
    <2>5. Shape'
        BY <1>3, <2>1, <2>2 DEF Shape
    <2>6. QED
        BY <1>2, <2>1, <2>2, <2>3, <2>4, <2>5 DEF ControlTyped
<1>9. ASSUME suite' = suite, phase \notin {"clean", "done"}, StopStep, node' = node,
             suite = "consumer" => judged' = judged /\ outbox' = outbox /\ nextId' = nextId,
             nextId' \in 1 .. 4,
             suite # "consumer" => nextId' <= Given(at + 1)
      PROVE  ControlTyped'
    <2>1. /\ at' \in at + 1 .. Len(script) + 1 /\ seen' = 0
          /\ phase' = IF at' > Len(script) THEN "done" ELSE "call"
          /\ failed' \subseteq 0 .. 4
          /\ suite # "consumer" => (at' <= Len(script) => script[at'].op = "create")
        BY <1>1, <1>9, StopStepMoves
    <2>2. QED
        BY <1>1, <1>2, <1>3, <1>9, <2>1, MoveIsTyped
<1>10. ASSUME suite' = suite, phase \notin {"clean", "done"}, GoTo(at + 1), failed' \subseteq 0 .. 4,
              node' \in Ids \cup {0}, nextId' = nextId, outbox' = outbox,
              suite = "consumer" => node' = node /\ judged' = judged,
              suite # "consumer" => nextId <= Given(at + 1) /\ node' \in Ids
       PROVE  ControlTyped'
    <2>1. at \in 1 .. Len(script) /\ Len(script) \in {4, 5}
        BY <1>1, <1>10, InCall
    <2>2. /\ at' \in at + 1 .. Len(script) + 1 /\ seen' = 0
          /\ phase' = IF at' > Len(script) THEN "done" ELSE "call"
        BY <1>10, <2>1 DEF GoTo
    <2>3. QED
        BY <1>1, <1>2, <1>3, <1>10, <2>2, MoveIsTyped
<1>11. CASE RequestNotFound
    <2>1. /\ suite' = suite /\ phase = "call" /\ StopStep /\ node' = node /\ judged' = judged
          /\ outbox' = outbox /\ nextId' = nextId
        BY <1>11 DEF RequestNotFound, serviceVars
    <2>2. suite # "consumer" => nextId <= Given(at + 1)
        <3>1. at \in 1 .. Len(script) /\ Len(script) \in {4, 5}
            BY <1>1, <2>1, InCall
        <3>2. Given(at) \in 1 .. 4 /\ Given(at + 1) \in 1 .. 4
            BY <3>1, GivenGrows
        <3>3. suite # "consumer" => nextId <= Given(at)
            BY <1>1, <2>1 DEF ControlTyped, Shape
        <3>4. QED
            BY <1>2, <1>4, <3>1, <3>2, <3>3
    <2>3. QED
        BY <1>2, <1>9, <2>1, <2>2
<1>12. CASE RequestFails
    <2>1. /\ suite' = suite /\ suite # "consumer" /\ phase = "call" /\ StopStep
          /\ node' = node /\ judged' = judged /\ (Commit \/ nextId' = nextId)
        BY <1>12 DEF RequestFails
    <2>2. nextId' \in 1 .. 4 /\ nextId' <= Given(at + 1)
        <3>1. CASE Commit
            BY <1>1, <2>1, <3>1, CommitIsTyped
        <3>2. CASE nextId' = nextId
            <4>1. at \in 1 .. Len(script) /\ Len(script) \in {4, 5}
                BY <1>1, <2>1, InCall
            <4>2. Given(at) \in 1 .. 4 /\ Given(at + 1) \in 1 .. 4
                BY <4>1, GivenGrows
            <4>3. nextId <= Given(at)
                BY <1>1, <2>1 DEF ControlTyped, Shape
            <4>4. QED
                BY <1>2, <1>4, <3>2, <4>1, <4>2, <4>3
        <3>3. QED
            BY <2>1, <3>1, <3>2
    <2>3. QED
        BY <1>9, <2>1, <2>2
<1>13. CASE InjectFails
    <2>1. /\ suite' = suite /\ suite = "consumer" /\ phase = "call" /\ StopStep
          /\ node' = node /\ judged' = judged /\ nextId' = nextId /\ outbox' = outbox
        BY <1>13 DEF InjectFails
    <2>2. QED
        BY <1>2, <1>9, <2>1
<1>14. CASE ReadTimesOut
    <2>1. /\ suite' = suite /\ phase = "answer" /\ StopStep
          /\ node' = node /\ judged' = judged /\ nextId' = nextId /\ outbox' = outbox
        BY <1>14 DEF ReadTimesOut, serviceVars
    <2>2. suite # "consumer" /\ nextId <= Given(at + 1)
        BY <1>1, <2>1 DEF ControlTyped, Shape
    <2>3. QED
        BY <1>2, <1>9, <2>1, <2>2
<1>15. CASE ReadNextSortNodeEvent
    <2> DEFINE message == topic[offset + 1]
               verdict == Verdict(call, node, message.events)
    <2>1. /\ suite' = suite /\ phase = "answer" /\ offset < Len(topic)
          /\ nextId' = nextId /\ outbox' = outbox
        BY <1>15 DEF ReadNextSortNodeEvent, serviceVars
    <2>2. suite # "consumer" /\ nextId <= Given(at + 1) /\ (call.op # "create" => node \in Ids)
        BY <1>1, <2>1 DEF ControlTyped, Shape
    <2>3. /\ at \in 1 .. Len(script) /\ Len(script) \in {4, 5} /\ step = call.step
          /\ call.step \in 1 .. 4 /\ call.op \in Ops /\ Len(call.checks) \in 0 .. 3
          /\ Len(call.checks) = 0 => call.checks = <<>>
        BY <1>1, <2>1, InCall
    <2>4. \/ verdict = Stop /\ StopStep /\ node' = node
          \/ /\ verdict # Stop
             /\ failed' = IF verdict = Fail THEN failed \cup {step} ELSE failed
             /\ node' = IF call.op = "create" THEN message.events.node[1].id ELSE node
             /\ IF call.checks = <<>>
                THEN GoTo(at + 1)
                ELSE phase' = "poll" /\ at' = at /\ seen' = seen
        BY <1>15 DEF ReadNextSortNodeEvent
    <2>5. CASE verdict = Stop
        <3>1. StopStep /\ node' = node
            BY <2>4, <2>5, Zenon
        <3>2. QED
            BY <1>2, <1>9, <2>1, <2>2, <3>1
    <2>6. CASE verdict # Stop
        <3>1. message.events \in EventMessages
            <4>1. topic \in Seq(MessagesOf) /\ offset + 1 \in 1 .. Len(topic)
                BY <1>1, <2>1 DEF ServicesTyped, CountersTyped
            <4>2. message \in MessagesOf
                BY <4>1, ElementOfSeq
            <4>3. QED
                BY <4>2 DEF MessagesOf, EventMessages
        <3>2. message.events.node # <<>> /\ message.events.node[1].id > 0
            BY <2>3, <2>6, NotStopped
        <3>3. message.events.node[1].id \in Ids
            <4>1. message.events.node \in Seq(Nodes)
                BY <3>1 DEF EventMessages
            <4>2. message.events.node[1] \in Nodes
                BY <3>2, <4>1, EmptySeq, ElementOfSeq
            <4>3. message.events.node[1].id \in Ids \cup {0}
                BY <4>2 DEF Nodes
            <4>4. QED
                BY <3>2, <4>3
        <3> HIDE DEF message, verdict
        <3>4. node' \in Ids
            BY <2>2, <2>4, <2>6, <3>3
        <3>5. failed' \subseteq 0 .. 4
            <4>1. step \in 0 .. 4
                BY <2>3
            <4>2. failed' = failed \/ failed' = failed \cup {step}
                BY <2>4, <2>6
            <4>3. QED
                BY <1>2, <4>1, <4>2
        <3>6. CASE call.checks = <<>>
            BY <1>10, <2>1, <2>2, <2>4, <2>6, <3>4, <3>5, <3>6
        <3>7. CASE call.checks # <<>>
            <4>1. phase' = "poll" /\ at' = at /\ seen' = seen /\ Len(call.checks) > 0
                BY <2>3, <2>4, <2>6, <3>7
            <4>2. script' = script /\ call' = call
                BY <2>1, <4>1, ScriptStays DEF call
            <4>3. seen = 0
                BY <1>1, <2>1 DEF ControlTyped, Shape
            <4>4. Shape'
                BY <2>1, <2>2, <3>4, <4>1, <4>2 DEF Shape
            <4>5. QED
                BY <1>2, <2>1, <2>3, <3>4, <3>5, <4>1, <4>2, <4>3, <4>4 DEF ControlTyped
        <3>8. QED
            BY <3>6, <3>7
    <2>7. QED
        BY <2>5, <2>6
<1>16. CASE Poll
    <2>1. /\ suite' = suite /\ phase = "poll" /\ node' = node /\ failed' = failed
          /\ judged' = judged /\ nextId' = nextId /\ outbox' = outbox
          /\ \/ seen' = 0 /\ at' = at /\ phase' = phase
             \/ GoTo(at + 1)
             \/ seen + 1 # Len(call.checks) /\ seen' = seen + 1 /\ at' = at /\ phase' = phase
        BY <1>16 DEF Poll, serviceVars
    <2>2. suite # "consumer" => node \in Ids /\ nextId <= Given(at + 1)
        BY <1>1, <2>1 DEF ControlTyped, Shape
    <2>3. /\ at \in 1 .. Len(script) /\ Len(script) \in {4, 5} /\ Len(call.checks) \in 0 .. 3
        BY <1>1, <2>1, InCall
    <2>4. seen \in 0 .. 2 /\ seen < Len(call.checks)
        BY <1>1, <2>1 DEF ControlTyped
    <2>5. CASE GoTo(at + 1)
        BY <1>2, <1>10, <2>1, <2>2, <2>5
    <2>6. CASE at' = at /\ phase' = phase /\ seen' \in 0 .. 2 /\ seen' < Len(call.checks)
        <3>1. script' = script /\ call' = call
            BY <2>1, <2>6, ScriptStays DEF call
        <3>2. Shape'
            BY <1>3, <2>1, <2>2, <2>6, <3>1 DEF Shape
        <3>3. QED
            BY <1>2, <2>1, <2>3, <2>6, <3>1, <3>2 DEF ControlTyped
    <2>7. Len(call.checks) \in Nat
        BY <2>3
    <2>8. ASSUME seen' = 0 \/ (seen + 1 # Len(call.checks) /\ seen' = seen + 1)
          PROVE  seen' \in 0 .. 2 /\ seen' < Len(call.checks)
        <3>1. \A n \in 0 .. 3, m \in 0 .. 2 : \A k :
                  m < n /\ (k = 0 \/ (m + 1 # n /\ k = m + 1)) => k \in 0 .. 2 /\ k < n
            OBVIOUS
        <3>2. QED
            BY <2>3, <2>4, <2>8, <3>1, Zenon
    <2>9. QED
        BY <2>1, <2>5, <2>6, <2>8, Zenon
<1>17. CASE PollTimesOut \/ LookOnce
    <2>1. /\ suite' = suite /\ phase = "poll" /\ node' = node /\ GoTo(at + 1)
          /\ judged' = judged /\ nextId' = nextId /\ outbox' = outbox
          /\ failed' = failed \/ failed' = failed \cup {step}
        BY <1>17 DEF PollTimesOut, LookOnce, serviceVars
    <2>2. suite # "consumer" => node \in Ids /\ nextId <= Given(at + 1)
        BY <1>1, <2>1 DEF ControlTyped, Shape
    <2>3. step = call.step /\ call.step \in 1 .. 4
        BY <1>1, <2>1, InCall
    <2>4. failed' \subseteq 0 .. 4
        <3>1. step \in 0 .. 4
            BY <2>3
        <3>2. QED
            BY <1>2, <2>1, <3>1
    <2>5. QED
        BY <1>2, <1>10, <2>1, <2>2, <2>4
<1>18. CASE Publish \/ PublishMalformed \/ PublishAgain \/ Store \/ Cache
    <2>1. /\ suite' = suite /\ at' = at /\ phase' = phase /\ node' = node /\ seen' = seen
          /\ failed' = failed /\ judged' = judged /\ nextId' = nextId
        BY <1>18 DEF Publish, PublishMalformed, PublishAgain, PublishAs, Store, Cache, suiteVars
    <2>2. script' = script /\ call' = call
        BY <2>1, ScriptStays DEF call
    <2>3. (phase = "clean" => topic' = topic) /\ (outbox = <<>> => outbox' = outbox)
        <3>1. phase = "clean" => topic = <<>> /\ outbox = <<>>
            BY <1>1 DEF ControlTyped, Shape
        <3>2. QED
            BY <1>18, <3>1
            DEF Publish, PublishMalformed, PublishAgain, PublishAs, Store, Cache
    <2>4. Shape /\ Shape'
        BY <1>1, <2>1, <2>2, <2>3 DEF ControlTyped, Shape
    <2>5. QED
        BY <1>1, <2>1, <2>2, <2>4 DEF ControlTyped
<1>19. QED
    BY <1>5, <1>6, <1>7, <1>8, <1>11, <1>12, <1>13, <1>14, <1>15, <1>16, <1>17, <1>18
    DEF Next, Progress, Deadline, Misbehaviour

LEMMA AppendIs ==
    ASSUME NEW S, NEW q \in Seq(S), NEW x \in S
    PROVE  /\ Append(q, x) \in Seq(S)
           /\ DOMAIN Append(q, x) = 1 .. Len(q) + 1 /\ Len(Append(q, x)) = Len(q) + 1
           /\ \A i \in 1 .. Len(q) : Append(q, x)[i] = q[i]
           /\ Append(q, x)[Len(q) + 1] = x
    OBVIOUS

LEMMA TailIs ==
    ASSUME NEW S, NEW q \in Seq(S), q # <<>>
    PROVE  /\ Head(q) \in S /\ Head(q) = q[1] /\ Len(q) >= 1
           /\ Tail(q) \in Seq(S)
           /\ DOMAIN Tail(q) = 1 .. Len(q) - 1 /\ Len(Tail(q)) = Len(q) - 1
           /\ \A i \in 1 .. Len(q) - 1 : Tail(q)[i] = q[i + 1]
<1>1. /\ Head(q) \in S /\ Tail(q) \in Seq(S) /\ Len(Tail(q)) = Len(q) - 1
      /\ \A i \in 1 .. Len(Tail(q)) : Tail(q)[i] = q[i + 1]
    BY HeadTailProperties
<1>2. DOMAIN Tail(q) = 1 .. Len(Tail(q)) /\ Len(q) \in Nat \ {0}
    BY <1>1, EmptySeq
<1>3. Head(q) = q[1]
    OBVIOUS
<1>4. QED
    BY <1>1, <1>2, <1>3

\* What sort-mistake puts on the topic.
LEMMA PublishedIsTyped ==
    ASSUME ServicesTyped, suite' = suite, outbox # <<>>,
           NEW events \in EventMessages, PublishAs(events)
    PROVE  /\ topic' \in Seq(MessagesOf) /\ outbox' \in Seq(MessagesOf)
           /\ topic' = Append(topic, [call |-> outbox[1].call, events |-> events])
           /\ WellFormed'
<1>1. /\ topic' = Append(topic, [Head(outbox) EXCEPT !.events = events])
      /\ outbox' = Tail(outbox) /\ script' = script
    BY ScriptStays DEF PublishAs
<1>2. /\ outbox \in Seq(MessagesOf) /\ topic \in Seq(MessagesOf)
      /\ DOMAIN outbox = 1 .. Len(outbox)
    BY DEF ServicesTyped
<1>3. /\ Head(outbox) \in MessagesOf /\ Head(outbox) = outbox[1] /\ Len(outbox) >= 1
      /\ Tail(outbox) \in Seq(MessagesOf) /\ DOMAIN Tail(outbox) = 1 .. Len(outbox) - 1
      /\ \A i \in 1 .. Len(outbox) - 1 : Tail(outbox)[i] = outbox[i + 1]
    BY <1>2, TailIs
<1>4. [Head(outbox) EXCEPT !.events = events] = [call |-> outbox[1].call, events |-> events]
      /\ [call |-> outbox[1].call, events |-> events] \in MessagesOf
    <2>1. Head(outbox) \in [call : DOMAIN script, events : EventMessages]
        BY <1>3 DEF MessagesOf, EventMessages
    <2>2. [Head(outbox) EXCEPT !.events = events] = [call |-> Head(outbox).call, events |-> events]
          /\ Head(outbox).call \in DOMAIN script
        BY <2>1
    <2>3. [call |-> Head(outbox).call, events |-> events] \in MessagesOf
        BY <2>2 DEF MessagesOf, EventMessages
    <2>4. QED
        BY <1>3, <2>2, <2>3
<1>5. topic' \in Seq(MessagesOf)
    BY <1>1, <1>2, <1>4
<1>6. WellFormed'
    <2>1. WellFormed
        BY DEF ServicesTyped
    <2>2. \A e \in 1 .. Len(outbox) - 1 : e + 1 \in DOMAIN outbox
        BY <1>2, <1>3
    <2>3. QED
        BY <1>1, <1>3, <2>1, <2>2 DEF WellFormed
<1>7. QED
    BY <1>1, <1>3, <1>4, <1>5, <1>6

LEMMA ServicesStep == ASSUME Typed, Next PROVE ServicesTyped'
<1> DEFINE Rows == [{"mistake", "service", "cache"} -> [Ids -> CallNames]]
<1>1. ControlTyped /\ ServicesTyped /\ CountersTyped
    BY TypedParts
<1>2. rows \in Rows /\ outbox \in Seq(MessagesOf) /\ topic \in Seq(MessagesOf) /\ WellFormed
    BY <1>1 DEF ServicesTyped
<1>3. ASSUME suite' = suite, outbox' = outbox, rows' \in Rows, topic' \in Seq(MessagesOf)
      PROVE  ServicesTyped'
    <2>1. MessagesOf' = MessagesOf /\ script' = script
        BY <1>3, ScriptStays
    <2>2. WellFormed'
        BY <1>2, <1>3, <2>1 DEF WellFormed
    <2>3. QED
        BY <1>2, <1>3, <2>1, <2>2 DEF ServicesTyped
<1>4. ASSUME suite' = suite, suite # "consumer", phase = "call", Commit, topic' = topic
      PROVE  ServicesTyped'
    <2>1. rows' \in Rows /\ outbox' \in Seq(MessagesOf)
        BY <1>1, <1>4, CommitIsTyped
    <2>2. PICK message \in MessagesOf :
              /\ outbox' = Append(outbox, message)
              /\ message.call = at /\ Len(message.events.node) = 1
              /\ message.events.node[1].name = call.name
        BY <1>1, <1>4, CommitIsTyped
    <2>3. MessagesOf' = MessagesOf /\ script' = script /\ call = script[at]
        BY <1>4, ScriptStays DEF call
    <2>4. /\ DOMAIN outbox' = 1 .. Len(outbox) + 1 /\ DOMAIN outbox = 1 .. Len(outbox)
          /\ \A e \in 1 .. Len(outbox) : outbox'[e] = outbox[e]
          /\ outbox'[Len(outbox) + 1] = message
        BY <1>2, <2>2, AppendIs
    <2>5. WellFormed'
        <3> SUFFICES ASSUME NEW e \in 1 .. Len(outbox) + 1
                     PROVE  /\ Len(outbox'[e].events.node) = 1
                            /\ outbox'[e].events.node[1].name = script[outbox'[e].call].name
            BY <2>3, <2>4 DEF WellFormed
        <3>1. CASE e \in 1 .. Len(outbox)
            BY <1>2, <2>4, <3>1 DEF WellFormed
        <3>2. CASE e = Len(outbox) + 1
            BY <2>2, <2>3, <2>4, <3>2
        <3>3. QED
            BY <3>1, <3>2
    <2>6. QED
        BY <1>2, <1>4, <2>1, <2>3, <2>5 DEF ServicesTyped
<1>5. ASSUME suite' = suite, phase = "call", PublishSortNodeEvents \/ UNCHANGED topic,
             suite = "consumer"
      PROVE  topic' \in Seq(MessagesOf)
    <2>1. /\ at \in DOMAIN script /\ call.op \in Ops /\ call.name \in CallNames
        BY <1>1, <1>5, InCall
    <2>2. node \in Ids
        BY <1>1, <1>5, BoundAssumption DEF ControlTyped, Shape, Ids
    <2>3. Event(call.op, node, call.name) \in EventMessages
        BY <2>1, <2>2, EventIsTyped
    <2> DEFINE message == [call |-> at, events |-> Event(call.op, node, call.name)]
    <2>4. message \in MessagesOf
        BY <2>1, <2>3 DEF MessagesOf, EventMessages
    <2>5. topic' = Append(topic, message) \/ topic' = topic
        BY <1>5 DEF PublishSortNodeEvents
    <2> HIDE DEF message
    <2>6. QED
        BY <1>2, <2>4, <2>5
<1>6. CASE Clean
    <2>1. NoRows \in [Ids -> CallNames]
        BY DEF NoRows, Absent, CallNames
    <2>2. TruncateTables(rows) \in Rows
        BY <1>2, <2>1 DEF TruncateTables
    <2>3. rows' \in Rows
        BY <1>6, <2>1, <2>2 DEF Clean, FlushRedis
    <2>4. suite' = suite /\ outbox' = outbox /\ topic' = topic
        BY <1>6 DEF Clean
    <2>5. QED
        BY <1>2, <1>3, <2>3, <2>4
<1>7. CASE Request \/ RequestFails
    <2>1. suite' = suite /\ suite # "consumer" /\ phase = "call" /\ topic' = topic
        BY <1>7 DEF Request, RequestFails
    <2>2. Commit \/ UNCHANGED <<rows, nextId, outbox>>
        BY <1>7, Zenon DEF Request, RequestFails
    <2>3. CASE Commit
        BY <1>4, <2>1, <2>3
    <2>4. CASE UNCHANGED <<rows, nextId, outbox>>
        BY <1>2, <1>3, <2>1, <2>4
    <2>5. QED
        BY <2>2, <2>3, <2>4
<1>8. CASE Inject \/ InjectFails
    <2>1. /\ suite' = suite /\ suite = "consumer" /\ phase = "call"
          /\ rows' = rows /\ outbox' = outbox /\ (PublishSortNodeEvents \/ UNCHANGED topic)
        BY <1>8 DEF Inject, InjectFails
    <2>2. QED
        BY <1>2, <1>3, <1>5, <2>1
<1>9. CASE Publish
    <2>1. Head(outbox).events \in EventMessages /\ outbox # <<>> /\ PublishAs(Head(outbox).events)
        <3>1. outbox # <<>> /\ PublishAs(Head(outbox).events)
            BY <1>9 DEF Publish
        <3>2. Head(outbox) \in MessagesOf
            BY <1>2, <3>1, TailIs
        <3>3. QED
            BY <3>1, <3>2 DEF MessagesOf, EventMessages
    <2>2. suite' = suite /\ rows' = rows
        BY <2>1 DEF PublishAs
    <2>3. topic' \in Seq(MessagesOf) /\ outbox' \in Seq(MessagesOf) /\ WellFormed'
        BY <1>1, <2>1, <2>2, PublishedIsTyped
    <2>4. MessagesOf' = MessagesOf
        BY <2>2, ScriptStays
    <2>5. QED
        BY <1>2, <2>2, <2>3, <2>4 DEF ServicesTyped
<1>10. CASE PublishMalformed
    <2>1. PICK events \in Malformed(Head(outbox).events) : outbox # <<>> /\ PublishAs(events)
        BY <1>10 DEF PublishMalformed
    <2>2. /\ Head(outbox).events \in EventMessages
          /\ Len(Head(outbox).events.node) = 1
        <3>1. Head(outbox) \in MessagesOf /\ Head(outbox) = outbox[1] /\ 1 \in DOMAIN outbox
            BY <1>2, <2>1, TailIs
        <3>2. QED
            BY <1>2, <3>1 DEF MessagesOf, EventMessages, WellFormed
    <2>3. events \in EventMessages
        BY <2>1, <2>2, MalformedIsTyped
    <2>4. suite' = suite /\ rows' = rows
        BY <2>1 DEF PublishAs
    <2>5. topic' \in Seq(MessagesOf) /\ outbox' \in Seq(MessagesOf) /\ WellFormed'
        BY <1>1, <2>1, <2>3, <2>4, PublishedIsTyped
    <2>6. MessagesOf' = MessagesOf
        BY <2>4, ScriptStays
    <2>7. QED
        BY <1>2, <2>4, <2>5, <2>6 DEF ServicesTyped
<1>11. CASE PublishAgain
    <2>1. suite' = suite /\ rows' = rows /\ outbox' = outbox /\ topic # <<>>
          /\ topic' = Append(topic, topic[Len(topic)])
        BY <1>11 DEF PublishAgain
    <2>2. topic[Len(topic)] \in MessagesOf
        BY <1>2, <2>1, EmptySeq, ElementOfSeq
    <2>3. topic' \in Seq(MessagesOf)
        BY <1>2, <2>1, <2>2
    <2>4. QED
        BY <1>2, <1>3, <2>1, <2>3
<1>12. CASE Store \/ Cache
    <2>1. /\ suite' = suite /\ outbox' = outbox /\ topic' = topic
          /\ \E place \in {"service", "cache"}, e \in 1 .. Len(topic) :
                 rows' = [rows EXCEPT ![place] = Applied(rows[place], topic[e].events)]
        <3>1. stored \in 0 .. Len(topic) /\ (cached = stored \/ cached = stored - 1) /\ cached \in Nat
            BY <1>1 DEF CountersTyped
        <3>2. CASE Store
            <4>1. stored + 1 \in 1 .. Len(topic)
                BY <1>2, <3>1, <3>2 DEF Store
            <4>2. QED
                BY <3>2, <4>1 DEF Store
        <3>3. CASE Cache
            <4>1. stored \in 1 .. Len(topic)
                BY <1>2, <3>1, <3>3 DEF Cache
            <4>2. QED
                BY <3>3, <4>1 DEF Cache
        <3>4. QED
            BY <1>12, <3>2, <3>3
    <2>2. PICK place \in {"service", "cache"}, e \in 1 .. Len(topic) :
              rows' = [rows EXCEPT ![place] = Applied(rows[place], topic[e].events)]
        BY <2>1
    <2>3. topic[e].events \in EventMessages
        <3>1. topic[e] \in MessagesOf
            BY <1>2, ElementOfSeq
        <3>2. QED
            BY <3>1 DEF MessagesOf, EventMessages
    <2>4. Applied(rows[place], topic[e].events) \in [Ids -> CallNames]
        BY <1>2, <2>3, AppliedIsTyped
    <2>5. rows' \in Rows
        BY <1>2, <2>2, <2>4
    <2>6. QED
        BY <1>2, <1>3, <2>1, <2>5
<1>13. CASE CleanFails \/ RequestNotFound \/ Deadline \/ ReadNextSortNodeEvent \/ Poll \/ LookOnce
    <2>1. suite' = suite /\ rows' = rows /\ outbox' = outbox /\ topic' = topic
        BY <1>13 DEF CleanFails, RequestNotFound, Deadline, ReadTimesOut, PollTimesOut,
                     ReadNextSortNodeEvent, Poll, LookOnce, serviceVars
    <2>2. QED
        BY <1>2, <1>3, <2>1
<1>14. QED
    BY <1>6, <1>7, <1>8, <1>9, <1>10, <1>11, <1>12, <1>13 DEF Next, Progress, Misbehaviour

LEMMA CountersStep == ASSUME Typed, Next PROVE CountersTyped'
<1>1. ControlTyped /\ ServicesTyped /\ CountersTyped
    BY TypedParts
<1>2. /\ offset \in 0 .. Len(topic) /\ stored \in 0 .. Len(topic)
      /\ cached \in {stored, stored - 1} \cap Nat
      /\ faulty \in Seq(0 .. 4) /\ Len(faulty) <= MaxFaults
    BY <1>1 DEF CountersTyped
<1>3. topic \in Seq(MessagesOf) /\ Len(topic) \in Nat
    BY <1>1 DEF ServicesTyped
<1>4. faulty' = faulty \/ Misbehave
    BY Zenon DEF Next, Progress, Deadline, Misbehaviour, Clean, Request, RequestNotFound, Inject,
          ReadNextSortNodeEvent, Poll, LookOnce, ReadTimesOut, PollTimesOut, Publish, Store,
          Cache, CleanFails, RequestFails, InjectFails, PublishMalformed, PublishAgain
<1>5. faulty' \in Seq(0 .. 4) /\ Len(faulty') <= MaxFaults
    BY <1>1, <1>2, <1>4, MisbehaveIsTyped
<1>6. Len(topic') \in Nat /\ Len(topic') >= Len(topic)
    <2>1. topic' = topic \/ \E m : topic' = Append(topic, m)
        BY Zenon DEF Next, Progress, Deadline, Misbehaviour, Clean, Request, RequestNotFound,
              Inject, ReadNextSortNodeEvent, Poll, LookOnce, ReadTimesOut, PollTimesOut, Publish,
              Store, Cache, CleanFails, RequestFails, InjectFails, PublishMalformed,
              PublishAgain, PublishAs, PublishSortNodeEvents, serviceVars
    <2>2. \A m : Len(Append(topic, m)) = Len(topic) + 1
        BY <1>3
    <2>3. QED
        BY <1>3, <2>1, <2>2
<1>7. CASE ReadNextSortNodeEvent
    <2>1. offset' = offset + 1 /\ offset < Len(topic) /\ topic' = topic
          /\ stored' = stored /\ cached' = cached
        BY <1>7 DEF ReadNextSortNodeEvent, serviceVars
    <2>2. QED
        BY <1>2, <1>3, <1>5, <2>1 DEF CountersTyped
<1>8. CASE Store
    <2>1. /\ offset' = offset /\ topic' = topic /\ stored' = stored + 1 /\ cached' = cached
          /\ stored = cached /\ stored < Len(topic)
        BY <1>8 DEF Store, suiteVars
    <2>2. QED
        BY <1>2, <1>3, <1>5, <2>1 DEF CountersTyped
<1>9. CASE Cache
    <2>1. offset' = offset /\ topic' = topic /\ stored' = stored /\ cached' = stored
        BY <1>9 DEF Cache, suiteVars
    <2>2. QED
        BY <1>2, <1>3, <1>5, <2>1 DEF CountersTyped
<1>10. CASE offset' = offset /\ stored' = stored /\ cached' = cached
    BY <1>2, <1>3, <1>5, <1>6, <1>10 DEF CountersTyped
<1>11. QED
    <2>1. \/ ReadNextSortNodeEvent \/ Store \/ Cache
          \/ offset' = offset /\ stored' = stored /\ cached' = cached
        BY Zenon DEF Next, Progress, Deadline, Misbehaviour, Clean, Request, RequestNotFound,
              Inject, Poll, LookOnce, ReadTimesOut, PollTimesOut, Publish, CleanFails,
              RequestFails, InjectFails, PublishMalformed, PublishAgain, PublishAs,
              serviceVars, suiteVars
    <2>2. QED
        BY <1>7, <1>8, <1>9, <1>10, <2>1

LEMMA TypedInit == Init => Typed
<1> SUFFICES ASSUME Init PROVE Typed
    OBVIOUS
<1>1. suite \in Suites
    BY DEF Init
<1>2. /\ script[1].op = "create" /\ Len(script) \in {4, 5}
    BY <1>1, FirstCall
<1>3. /\ at = 1 /\ phase = "clean" /\ seen = 0 /\ failed = {} /\ nextId = 2
      /\ node = IF suite = "consumer" THEN InjectedId ELSE 0
      /\ outbox = <<>> /\ topic = <<>> /\ offset = 0 /\ stored = 0 /\ cached = 0
      /\ judged = {} /\ faulty = <<>>
    BY DEF Init
<1>4. Shape
    BY <1>3 DEF Shape
<1>5. ControlTyped
    BY <1>1, <1>2, <1>3, <1>4 DEF ControlTyped, Ids
<1>6. ServicesTyped
    <2>1. PICK seeded \in {Absent, "SEEDED"} :
              rows = [place \in {"mistake", "service", "cache"} |->
                         IF place \in CheckTables THEN [NoRows EXCEPT ![1] = seeded] ELSE NoRows]
        BY DEF Init
    <2>2. seeded \in CallNames
        BY DEF Absent, CallNames
    <2>3. NoRows \in [Ids -> CallNames] /\ [NoRows EXCEPT ![1] = seeded] \in [Ids -> CallNames]
        BY <2>2 DEF NoRows, Absent, CallNames
    <2>4. rows \in [{"mistake", "service", "cache"} -> [Ids -> CallNames]]
        BY <2>1, <2>3
    <2>5. outbox \in Seq(MessagesOf) /\ topic \in Seq(MessagesOf)
        BY <1>3
    <2>6. WellFormed
        BY <1>3 DEF WellFormed
    <2>7. QED
        BY <2>4, <2>5, <2>6 DEF ServicesTyped
<1>7. CountersTyped
    BY <1>3, BoundAssumption DEF CountersTyped
<1>8. QED
    BY <1>5, <1>6, <1>7, TypedParts

LEMMA TypedStep == Typed /\ [Next]_vars => Typed'
<1> SUFFICES ASSUME Typed, [Next]_vars PROVE Typed'
    OBVIOUS
<1>1. CASE Next
    <2>1. ControlTyped' /\ ServicesTyped' /\ CountersTyped'
        BY <1>1, ControlStep, ServicesStep, CountersStep
    <2>2. QED
        BY <2>1, TypedParts, PTL
<1>2. CASE UNCHANGED vars
    <2>1. script' = script /\ MessagesOf' = MessagesOf /\ call' = call
        BY <1>2, ScriptStays DEF vars, suiteVars, call
    <2>2. Shape' /\ WellFormed'
        BY <1>2, <2>1 DEF Typed, Shape, WellFormed, vars, suiteVars, serviceVars
    <2>3. QED
        BY <1>2, <2>1, <2>2 DEF Typed, TypeOK, vars, suiteVars, serviceVars
<1>3. QED
    BY <1>1, <1>2

\* The control of the suites, the services and the counters stay in their
\* ranges: no call skips past the end of its script, no step works on a node
\* that no answer has named, and the scripts need no more than three ids.
THEOREM PipelineTypes == Spec => []TypeOK
<1>1. Typed => TypeOK
    BY DEF Typed
<1>2. QED
    BY <1>1, TypedInit, TypedStep, PTL DEF Spec

-----------------------------------------------------------------------------
(* What the services and the fixtures send is what the suites ask for.     *)

LEMMA Numbers ==
    /\ Created # Unspecified /\ Updated # Unspecified /\ Deleted # Unspecified
    /\ Deleted # Created /\ Deleted # Updated /\ IntraMid # Unspecified
    /\ InjectedId > 0 /\ HubId > 0 /\ ~(0 > 0)
<1>1. InjectedId > 0
    BY BoundAssumption
<1>2. QED
    BY <1>1 DEF Created, Updated, Deleted, Unspecified, IntraMid, HubId

LEMMA OwnEventPasses ==
    ASSUME NEW asked, asked.op \in Ops, asked.op # "delete" => asked.name # "",
           NEW id, id > 0, NEW target, asked.op = "create" \/ target = id
    PROVE  Verdict(asked, target, Event(asked.op, id, asked.name)) = Pass
<1> DEFINE events == Event(asked.op, id, asked.name)
           n == events.node[1]
           expected == Expected(asked, target)
           kind == IF asked.op = "create" THEN Created
                   ELSE IF asked.op = "update" THEN Updated ELSE Deleted
           new == [id |-> id, hubId |-> HubId,
                   name |-> IF asked.op = "delete" THEN "" ELSE asked.name,
                   type |-> IF asked.op = "delete" THEN Unspecified ELSE IntraMid,
                   nodeEvent |-> kind]
<1>1. events = Message(SystemId, new)
    <2>1. CASE asked.op = "create"
        BY <2>1 DEF Event, NewSortNodeCreatedEvent
    <2>2. CASE asked.op = "update"
        BY <2>2 DEF Event, NewSortNodeUpdatedEvent
    <2>3. CASE asked.op = "delete"
        BY <2>3 DEF Event, NewSortNodeDeletedEvent
    <2>4. QED
        BY <2>1, <2>2, <2>3 DEF Ops
<1>2. /\ kind # Unspecified
      /\ asked.op # "delete" => kind # Deleted
      /\ asked.op = "delete" => kind \notin {Created, Updated}
    <2>1. /\ asked.op = "create" => kind = Created
          /\ asked.op = "update" => kind = Updated
          /\ asked.op = "delete" => kind = Deleted
        OBVIOUS
    <2> HIDE DEF kind
    <2>2. QED
        BY <2>1, Numbers, Zenon DEF Ops
<1>3. /\ expected.systemId = SystemId /\ expected.hubId = HubId /\ expected.nodeEvent = kind
      /\ expected.id \in {0, id}
      /\ asked.op # "delete" => expected.name = asked.name
      /\ asked.op = "delete" => expected.name = ""
      /\ asked.op # "delete" => expected.type \in {Unspecified, IntraMid}
      /\ asked.op = "delete" => expected.type = Unspecified
    BY DEF Expected, ExpectedSortNode, Ops
<1> HIDE DEF expected
<1>4. /\ new.id = id /\ new.hubId = HubId /\ new.nodeEvent = kind
      /\ asked.op # "delete" => new.name = asked.name /\ new.type = IntraMid
      /\ asked.op = "delete" => new.name = "" /\ new.type = Unspecified
    OBVIOUS
<1> HIDE DEF kind, new
<1> HIDE DEF events
<1>5. events.systemId = SystemId /\ events.node = <<new>>
    BY <1>1 DEF Message
<1>6. events.node # <<>> /\ n = new
    <2>1. <<new>> # <<>> /\ <<new>>[1] = new
        OBVIOUS
    <2>2. QED
        BY <1>5, <2>1, Zenon
<1> HIDE DEF n
<1>7. id > 0 /\ HubId > 0 /\ SystemId # "" /\ IntraMid # Unspecified
    <2>1. SystemId # ""
        BY DEF SystemId
    <2>2. QED
        BY <2>1, Numbers, Zenon
<1>8. ValidateSortNodeEventSchema(n, expected.nodeEvent)
    <2>1. n.id > 0 /\ n.nodeEvent # Unspecified /\ expected.nodeEvent = n.nodeEvent
        BY <1>2, <1>3, <1>4, <1>6, <1>7
    <2>2. n.nodeEvent \in {Created, Updated} =>
              n.hubId > 0 /\ n.name # "" /\ n.type # Unspecified
        <3>1. n.nodeEvent \in {Created, Updated} => asked.op # "delete"
            BY <1>2, <1>4, <1>6, Zenon
        <3>2. QED
            BY <1>4, <1>6, <1>7, <3>1
    <2>3. QED
        BY <2>1, <2>2 DEF ValidateSortNodeEventSchema
<1>9. /\ expected.systemId \in {"", events.systemId}
      /\ expected.id > 0 => n.id = expected.id
      /\ expected.hubId > 0 => n.hubId = expected.hubId
      /\ expected.name \in {"", n.name}
      /\ expected.type \in {Unspecified, n.type}
      /\ n.nodeEvent = expected.nodeEvent
    <2>1. expected.id > 0 => n.id = expected.id
        BY <1>3, <1>4, <1>6, Numbers, Zenon
    <2>2. expected.name \in {"", n.name}
        BY <1>3, <1>4, <1>6
    <2>3. expected.type \in {Unspecified, n.type}
        BY <1>3, <1>4, <1>6
    <2>4. QED
        BY <1>3, <1>4, <1>5, <1>6, <2>1, <2>2, <2>3
<1>10. AssertSortNodeEventsContract(events, expected) = Pass
    BY <1>5, <1>6, <1>7, <1>8, <1>9, Zenon DEF AssertSortNodeEventsContract, n
<1>11. QED
    BY <1>10, VerdictIs, Zenon DEF events, expected

\* What the consumer suite put on the topic is as its fixtures built it.
AsBuilt(message) ==
    /\ message.call \in DOMAIN script
    /\ message.events = Event(script[message.call].op, InjectedId, script[message.call].name)

FixturesAsBuilt == suite = "consumer" => \A e \in DOMAIN topic : AsBuilt(topic[e])

LEMMA FixturesStep == Typed /\ FixturesAsBuilt /\ [Next]_vars => FixturesAsBuilt'
<1> SUFFICES ASSUME Typed, FixturesAsBuilt, [Next]_vars, suite' = "consumer"
             PROVE  FixturesAsBuilt'
    BY DEF FixturesAsBuilt
<1>1. ControlTyped /\ ServicesTyped /\ topic \in Seq(MessagesOf)
    BY TypedParts DEF ServicesTyped
<1>2. suite' = suite
    BY DEF Next, Progress, Deadline, Misbehaviour, Clean, Request, RequestNotFound, Inject,
           ReadNextSortNodeEvent, Poll, LookOnce, ReadTimesOut, PollTimesOut, Publish, Store,
           Cache, CleanFails, RequestFails, InjectFails, PublishMalformed, PublishAgain,
           PublishAs, vars
<1>3. suite = "consumer" /\ outbox = <<>> /\ node = InjectedId /\ phase # "answer"
    BY <1>1, <1>2 DEF ControlTyped, Shape
<1>4. script' = script /\ \A e \in DOMAIN topic : AsBuilt(topic[e])
    BY <1>2, <1>3, ScriptStays DEF FixturesAsBuilt
<1>5. DOMAIN topic = 1 .. Len(topic) /\ Len(topic) \in Nat
    BY <1>1
<1>6. ASSUME NEW message \in MessagesOf, topic' = Append(topic, message), AsBuilt(message)
      PROVE  FixturesAsBuilt'
    <2>1. /\ DOMAIN topic' = 1 .. Len(topic) + 1
          /\ \A e \in 1 .. Len(topic) : topic'[e] = topic[e]
          /\ topic'[Len(topic) + 1] = message
        BY <1>1, <1>6, AppendIs
    <2>2. \A e \in 1 .. Len(topic) + 1 : e \in 1 .. Len(topic) \/ e = Len(topic) + 1
        BY <1>5
    <2>3. \A e \in DOMAIN topic' : AsBuilt(topic'[e])
        BY <1>4, <1>5, <1>6, <2>1, <2>2, Zenon
    <2>4. QED
        BY <1>4, <2>3 DEF FixturesAsBuilt, AsBuilt
<1>7. CASE topic' = topic
    BY <1>4, <1>7 DEF FixturesAsBuilt, AsBuilt
<1>8. CASE Inject \/ InjectFails
    <2>1. PublishSortNodeEvents \/ UNCHANGED topic
        BY <1>8, Zenon DEF Inject, InjectFails
    <2>2. CASE PublishSortNodeEvents
        <3> DEFINE message == [call |-> at, events |-> Event(call.op, node, call.name)]
        <3>1. topic' = Append(topic, message)
            BY <2>2 DEF PublishSortNodeEvents
        <3>2. phase = "call"
            BY <1>8 DEF Inject, InjectFails
        <3>3. at \in DOMAIN script /\ call.op \in Ops /\ call.name \in CallNames
            BY <1>1, <3>2, InCall
        <3>4. node \in Ids
            BY <1>3, BoundAssumption DEF Ids
        <3>5. Event(call.op, node, call.name) \in EventMessages
            BY <3>3, <3>4, EventIsTyped
        <3>6. message \in MessagesOf
            BY <3>3, <3>5 DEF MessagesOf, EventMessages
        <3>7. AsBuilt(message)
            BY <1>3, <3>3 DEF AsBuilt, call
        <3> HIDE DEF message
        <3>8. QED
            BY <1>6, <3>1, <3>6, <3>7
    <2>3. QED
        BY <1>7, <2>1, <2>2
<1>9. CASE PublishAgain
    <2>1. topic # <<>> /\ topic' = Append(topic, topic[Len(topic)])
        BY <1>9 DEF PublishAgain
    <2>2. Len(topic) \in 1 .. Len(topic)
        BY <1>1, <2>1, EmptySeq
    <2>3. topic[Len(topic)] \in MessagesOf /\ AsBuilt(topic[Len(topic)])
        BY <1>1, <1>4, <1>5, <2>2, ElementOfSeq
    <2>4. QED
        BY <1>6, <2>1, <2>3
<1>10. QED
    <2>1. Inject \/ InjectFails \/ PublishAgain \/ topic' = topic
        BY <1>3 DEF Next, Progress, Deadline, Misbehaviour, Clean, Request, RequestNotFound,
              ReadNextSortNodeEvent, Poll, LookOnce, ReadTimesOut, PollTimesOut, Publish, Store,
              Cache, CleanFails, RequestFails, PublishMalformed, PublishAs, serviceVars, vars
    <2>2. QED
        BY <1>7, <1>8, <1>9, <2>1

\* Whatever the consumer suite injects, once or twice, would have been accepted
\* from sort-mistake by the checks of the other suites.
THEOREM FixturesAreEvents == Spec => []FixturesMeetContract
<1>1. Init => FixturesAsBuilt
    BY DEF Init, FixturesAsBuilt
<1>2. Typed /\ FixturesAsBuilt => FixturesMeetContract
    <2> SUFFICES ASSUME Typed, FixturesAsBuilt, suite = "consumer", NEW e \in DOMAIN topic
                 PROVE  Verdict(script[topic[e].call], InjectedId, topic[e].events) = Pass
        BY DEF FixturesMeetContract
    <2> DEFINE c == topic[e].call
    <2>1. c \in DOMAIN script /\ topic[e].events = Event(script[c].op, InjectedId, script[c].name)
        BY DEF FixturesAsBuilt, AsBuilt
    <2>2. suite \in Suites
        BY DEF Typed, TypeOK
    <2>3. IsConsumerScript(script)
        BY <2>2, ScriptIs DEF Producing
    <2> HIDE DEF c
    <2>4. c \in 1 .. 4
        BY <2>1, <2>3 DEF IsConsumerScript, HasCalls
    <2>5. script[c].op \in Ops
        BY <2>1, <2>2, CallFacts
    <2>6. script[c].op # "delete" => script[c].name # ""
        <3>1. script[c].op # "delete" => c \in {1, 2}
            BY <2>3, <2>4 DEF IsConsumerScript, ConsumerOps
        <3>2. script[1].name # "" /\ script[2].name # ""
            BY <2>3 DEF IsConsumerScript, ConsumerNames
        <3>3. QED
            BY <3>1, <3>2
    <2>7. Verdict(script[c], InjectedId, Event(script[c].op, InjectedId, script[c].name)) = Pass
        BY <2>5, <2>6, OwnEventPasses, Numbers, Zenon
    <2>8. QED
        BY <2>1, <2>7 DEF c
<1>3. QED
    BY <1>1, <1>2, TypedInit, TypedStep, FixturesStep, PTL DEF Spec

-----------------------------------------------------------------------------
(* The answers.  Every request is due before the next one is made, and      *)
(* sort-mistake publishes in order, so that the events of the topic are in  *)
(* the order of the calls.  A name belongs to one call, and no single       *)
(* malformation gives an event the name of another; the deletion, which has *)
(* no name, follows the answer to its own creation.                         *)

Due(c) == c < at \/ (c = at /\ phase \in {"answer", "poll"})

Ordered ==
    /\ \A e, f \in DOMAIN topic : e < f => topic[e].call < topic[f].call \/ topic[e] = topic[f]
    /\ \A e, f \in DOMAIN outbox : e < f => outbox[e].call < outbox[f].call
    /\ \A e \in DOMAIN topic, f \in DOMAIN outbox : topic[e].call < outbox[f].call
    /\ \A e \in DOMAIN topic : Due(topic[e].call)
    /\ \A f \in DOMAIN outbox : Due(outbox[f].call)

WellNamed(message) ==
    message.events.node # <<>> =>
        message.events.node[1].name \in {script[message.call].name, "", "WRONG"}

Named == \A e \in DOMAIN topic : WellNamed(topic[e])

\* The event that made the deletion possible is the last one read.
DeletionAhead == (at = 4 /\ phase = "poll") \/ (at = 5 /\ phase \in {"call", "answer"})
Armed ==
    Unfailed(3) /\ DeletionAhead =>
        /\ offset \in DOMAIN topic /\ topic[offset].call = 4
        /\ topic[offset].events.node[1].nodeEvent = Created

Answered == Ordered /\ Named /\ Armed /\ AnswersAreOwn

LEMMA ProducingCall ==
    ASSUME suite \in Suites, suite # "consumer"
    PROVE  /\ DOMAIN script = 1 .. 5 /\ Len(script) = 5
           /\ \A c \in 1 .. 5 : /\ script[c].op \in Ops
                                /\ script[c].op = "delete" <=> c = 5
                                /\ script[c].op = "create" <=> c \in {1, 2, 4}
           /\ \A c \in 1 .. 5 : script[c].step = IF c = 1 THEN 1 ELSE IF c <= 3 THEN 2 ELSE 3
           /\ ProducingNames(script)
<1>1. IsProducingScript(script)
    BY ScriptIs DEF Producing
<1>2. DOMAIN script = 1 .. 5 /\ Len(script) = 5
    BY <1>1 DEF IsProducingScript, HasCalls
<1>3. ASSUME NEW c \in 1 .. 5
      PROVE  /\ script[c].op \in Ops
             /\ script[c].op = "delete" <=> c = 5
             /\ script[c].op = "create" <=> c \in {1, 2, 4}
    <2>1. script[c].op = IF c = 3 THEN "update" ELSE IF c = 5 THEN "delete" ELSE "create"
        BY <1>1 DEF IsProducingScript, ProducingOps
    <2>2. QED
        BY <2>1 DEF Ops
<1>4. \A c \in 1 .. 5 : script[c].step = IF c = 1 THEN 1 ELSE IF c <= 3 THEN 2 ELSE 3
    BY <1>1 DEF IsProducingScript, ProducingSteps
<1>5. QED
    BY <1>1, <1>2, <1>3, <1>4 DEF IsProducingScript

LEMMA NeitherStopNorFail ==
    ASSUME NEW asked, asked.op \in Ops, NEW id, NEW events,
           Verdict(asked, id, events) # Stop, Verdict(asked, id, events) # Fail
    PROVE  Verdict(asked, id, events) = Pass
<1>1. \A e, x : AssertSortNodeEventsContract(e, x) \in {Stop, Fail, Pass}
    BY Zenon DEF AssertSortNodeEventsContract
<1>2. QED
    BY <1>1, VerdictIs, Zenon

\* The heart of it: an event that passes is the answer to the call.
LEMMA AnswerIsOwn ==
    ASSUME Typed, suite # "consumer", Ordered, Named, Armed, phase = "answer",
           offset < Len(topic), Unfailed(call.step),
           Verdict(call, node, topic[offset + 1].events) = Pass
    PROVE  topic[offset + 1].call = at
<1> DEFINE message == topic[offset + 1]
           n == message.events.node[1]
           c == message.call
<1>1. ControlTyped /\ ServicesTyped /\ CountersTyped /\ suite \in Suites
    BY TypedParts DEF ControlTyped
<1>2. /\ topic \in Seq(MessagesOf) /\ offset \in Nat /\ offset + 1 \in 1 .. Len(topic)
      /\ DOMAIN topic = 1 .. Len(topic)
    BY <1>1 DEF ServicesTyped, CountersTyped
<1>3. at \in 1 .. 5 /\ call = script[at] /\ call.op \in Ops
    BY <1>1, InCall, ProducingCall DEF call
<1>4. c \in 1 .. 5
    <2>1. message \in MessagesOf
        BY <1>2, ElementOfSeq
    <2>2. QED
        BY <1>1, <2>1, ProducingCall DEF MessagesOf
<1>5. c <= at
    <2>1. Due(c)
        BY <1>2 DEF Ordered
    <2>2. QED
        BY <1>3, <1>4, <2>1 DEF Due
<1>6. WellNamed(message)
    BY <1>2 DEF Named
<1>7. /\ message.events.node # <<>>
      /\ call.op # "delete" => call.name \in {"", n.name}
      /\ call.op = "delete" => n.nodeEvent = Deleted
    <2>1. Agrees(call, node, message.events)
        BY <1>3, Passed
    <2>2. QED
        BY <2>1 DEF Agrees
<1> HIDE DEF message, n, c
<1>8. CASE call.op # "delete"
    <2>1. at \in 1 .. 4
        BY <1>1, <1>3, <1>8, ProducingCall
    <2>2. call.name \notin {"", "WRONG"}
        BY <1>1, <1>3, <2>1, ProducingCall DEF ProducingNames
    <2>3. call.name = n.name
        BY <1>7, <1>8, <2>2, Zenon
    <2>4. n.name \in {script[c].name, "", "WRONG"}
        BY <1>6, <1>7, Zenon DEF WellNamed, n, c
    <2>5. script[c].name = script[at].name
        BY <1>3, <2>2, <2>3, <2>4, Zenon
    <2>6. c = at
        BY <1>1, <1>3, <1>4, <2>5, ProducingCall DEF ProducingNames
    <2>7. QED
        BY <2>6 DEF c, message
<1>9. CASE call.op = "delete"
    <2>1. at = 5 /\ call.step = 3
        BY <1>1, <1>3, <1>9, ProducingCall
    <2>2. /\ offset \in DOMAIN topic /\ topic[offset].call = 4
          /\ topic[offset].events.node[1].nodeEvent = Created
        BY <2>1 DEF Armed, DeletionAhead
    <2>3. topic[offset].call < c \/ topic[offset] = message
        BY <1>2, <2>2 DEF Ordered, message, c
    <2>4. topic[offset] # message
        BY <1>7, <1>9, <2>2, Numbers, Zenon DEF n
    <2>5. c = 5
        BY <1>4, <2>2, <2>3, <2>4
    <2>6. QED
        BY <2>1, <2>5 DEF c, message
<1>10. QED
    BY <1>8, <1>9

LEMMA ControlMoves ==
    ASSUME Typed, Next, suite # "consumer"
    PROVE  /\ suite' = suite
           /\ phase # "clean" => failed \subseteq failed'
           /\ \/ at' = at /\ \/ phase' = phase
                             \/ phase = "clean" /\ phase' = "call"
                             \/ phase = "call" /\ phase' = "answer"
                             \/ phase = "answer" /\ phase' = "poll"
              \/ at' \in at + 1 .. 6 /\ phase' \in {"call", "done"}
<1>1. ControlTyped /\ suite \in Suites /\ Len(script) = 5
    BY TypedParts, ProducingCall DEF ControlTyped
<1>2. at \in 1 .. 6 /\ (phase \notin {"clean", "done"} => at \in 1 .. 5)
    BY <1>1, InCall DEF ControlTyped
<1>3. suite' = suite
    BY DEF Next, Progress, Deadline, Misbehaviour, Clean, Request, RequestNotFound, Inject,
           ReadNextSortNodeEvent, Poll, LookOnce, ReadTimesOut, PollTimesOut, Publish, Store,
           Cache, CleanFails, RequestFails, InjectFails, PublishMalformed, PublishAgain,
           PublishAs
<1>4. ASSUME StopStep, phase \notin {"clean", "done"}
      PROVE  /\ at' \in at + 1 .. 6 /\ phase' \in {"call", "done"} /\ failed \subseteq failed'
    BY <1>1, <1>4, StopStepMoves
<1>5. ASSUME GoTo(at + 1), phase \notin {"clean", "done"}
      PROVE  at' \in at + 1 .. 6 /\ phase' \in {"call", "done"}
    BY <1>2, <1>5 DEF GoTo
<1>6. CASE Clean
    BY <1>3, <1>6 DEF Clean
<1>7. CASE CleanFails
    <2>1. phase = "clean" /\ GoTo(6)
        BY <1>1, <1>7 DEF CleanFails
    <2>2. at = 1
        BY <1>1, <2>1 DEF ControlTyped, Shape
    <2>3. at' = 6 /\ phase' = "done"
        BY <1>1, <2>1 DEF GoTo
    <2>4. QED
        BY <1>3, <2>1, <2>2, <2>3
<1>8. CASE Request
    BY <1>3, <1>8 DEF Request
<1>9. CASE RequestNotFound \/ RequestFails \/ ReadTimesOut
    <2>1. StopStep /\ phase \notin {"clean", "done"}
        BY <1>9 DEF RequestNotFound, RequestFails, ReadTimesOut
    <2>2. QED
        BY <1>3, <1>4, <2>1
<1>10. CASE ReadNextSortNodeEvent
    <2>1. /\ phase = "answer"
          /\ \/ StopStep
             \/ /\ failed \subseteq failed'
                /\ \/ GoTo(at + 1)
                   \/ phase' = "poll" /\ at' = at
        BY <1>10, Zenon DEF ReadNextSortNodeEvent
    <2>2. QED
        BY <1>3, <1>4, <1>5, <2>1
<1>11. CASE Poll \/ PollTimesOut \/ LookOnce
    <2>1. /\ phase = "poll" /\ failed \subseteq failed'
          /\ GoTo(at + 1) \/ (at' = at /\ phase' = phase)
        BY <1>11 DEF Poll, PollTimesOut, LookOnce
    <2>2. QED
        BY <1>3, <1>5, <2>1
<1>12. CASE Publish \/ PublishMalformed \/ PublishAgain \/ Store \/ Cache
    BY <1>3, <1>12
    DEF Publish, PublishMalformed, PublishAgain, PublishAs, Store, Cache, suiteVars
<1>13. CASE Inject \/ InjectFails
    BY <1>13 DEF Inject, InjectFails
<1>14. QED
    BY <1>6, <1>7, <1>8, <1>9, <1>10, <1>11, <1>12, <1>13
    DEF Next, Progress, Deadline, Misbehaviour

\* A call commits at most one event; the topic takes the oldest, or its own last.
Committed ==
    \E message \in MessagesOf :
        /\ phase = "call" /\ at \in 1 .. 5 /\ message.call = at
        /\ at' > at \/ (at' = at /\ phase' = "answer")
        /\ outbox' = Append(outbox, message) /\ topic' = topic
Published ==
    \E message \in MessagesOf :
        /\ outbox # <<>> /\ message.call = outbox[1].call /\ WellNamed(message)
        /\ outbox' = Tail(outbox) /\ topic' = Append(topic, message)
Repeated ==
    topic # <<>> /\ topic' = Append(topic, topic[Len(topic)]) /\ outbox' = outbox

LEMMA ServicesMove ==
    ASSUME Typed, Next, suite # "consumer"
    PROVE  Committed \/ Published \/ Repeated \/ (topic' = topic /\ outbox' = outbox)
<1>1. ControlTyped /\ ServicesTyped /\ suite \in Suites
    BY TypedParts DEF ControlTyped
<1>2. outbox \in Seq(MessagesOf) /\ topic \in Seq(MessagesOf) /\ WellFormed
    BY <1>1 DEF ServicesTyped
<1>3. CASE Request \/ RequestFails
    <2>1. phase = "call" /\ topic' = topic
        BY <1>3 DEF Request, RequestFails
    <2>2. CASE Commit
        <3>1. PICK message \in MessagesOf : outbox' = Append(outbox, message) /\ message.call = at
            BY <1>1, <2>1, <2>2, CommitIsTyped
        <3>2. at \in 1 .. 5
            BY <1>1, <2>1, InCall, ProducingCall
        <3>3. at' > at \/ (at' = at /\ phase' = "answer")
            <4>1. CASE Request
                BY <4>1 DEF Request
            <4>2. CASE RequestFails
                <5>1. StopStep
                    BY <4>2 DEF RequestFails
                <5>2. at' \in at + 1 .. Len(script) + 1
                    BY <1>1, <2>1, <5>1, StopStepMoves
                <5>3. QED
                    BY <1>1, <3>2, <5>2, ProducingCall
            <4>3. QED
                BY <1>3, <4>1, <4>2
        <3>4. QED
            BY <2>1, <3>1, <3>2, <3>3 DEF Committed
    <2>3. CASE UNCHANGED <<rows, nextId, outbox>>
        BY <2>1, <2>3
    <2>4. Commit \/ UNCHANGED <<rows, nextId, outbox>>
        BY <1>3, Zenon DEF Request, RequestFails
    <2>5. QED
        BY <2>2, <2>3, <2>4
<1>4. CASE Publish \/ PublishMalformed
    <2>1. PICK events :
              /\ outbox # <<>> /\ PublishAs(events)
              /\ events \in Malformed(Head(outbox).events) \cup {Head(outbox).events}
        BY <1>4 DEF Publish, PublishMalformed
    <2>2. /\ Head(outbox) \in MessagesOf /\ Head(outbox) = outbox[1] /\ 1 \in DOMAIN outbox
        BY <1>2, <2>1, TailIs
    <2>3. /\ Head(outbox).events \in EventMessages
          /\ Len(Head(outbox).events.node) = 1
          /\ Head(outbox).events.node[1].name = script[outbox[1].call].name
        BY <1>2, <2>2 DEF MessagesOf, EventMessages, WellFormed
    <2>4. /\ events \in EventMessages
          /\ events.node # <<>> =>
                 events.node[1].name \in {Head(outbox).events.node[1].name, "", "WRONG"}
        <3>1. CASE events = Head(outbox).events
            BY <2>3, <3>1
        <3>2. CASE events \in Malformed(Head(outbox).events)
            BY <2>3, <3>2, MalformedIsTyped
        <3>3. QED
            BY <2>1, <3>1, <3>2
    <2> DEFINE message == [call |-> outbox[1].call, events |-> events]
    <2>5. suite' = suite /\ outbox' = Tail(outbox)
        BY <2>1 DEF PublishAs
    <2>6. topic' = Append(topic, message)
        BY <1>1, <2>1, <2>4, <2>5, PublishedIsTyped
    <2>7. message \in MessagesOf
        <3>1. outbox[1].call \in DOMAIN script
            BY <2>2 DEF MessagesOf
        <3>2. QED
            BY <2>4, <3>1 DEF MessagesOf, EventMessages
    <2>8. message.call = outbox[1].call /\ message.events = events
        OBVIOUS
    <2> HIDE DEF message
    <2>9. WellNamed(message)
        BY <2>3, <2>4, <2>8, Zenon DEF WellNamed
    <2>10. QED
        BY <2>1, <2>5, <2>6, <2>7, <2>8, <2>9 DEF Published
<1>5. CASE PublishAgain
    BY <1>5 DEF PublishAgain, Repeated
<1>6. CASE Inject \/ InjectFails
    BY <1>6 DEF Inject, InjectFails
<1>7. CASE \/ Clean \/ CleanFails \/ RequestNotFound \/ Deadline \/ ReadNextSortNodeEvent
           \/ Poll \/ LookOnce \/ Store \/ Cache
    BY <1>7 DEF Clean, CleanFails, RequestNotFound, Deadline, ReadTimesOut, PollTimesOut,
                ReadNextSortNodeEvent, Poll, LookOnce, Store, Cache, serviceVars
<1>8. QED
    BY <1>3, <1>4, <1>5, <1>6, <1>7 DEF Next, Progress, Misbehaviour

LEMMA Calls ==
    ASSUME Typed, suite # "consumer"
    PROVE  /\ topic \in Seq(MessagesOf) /\ outbox \in Seq(MessagesOf)
           /\ DOMAIN topic = 1 .. Len(topic) /\ DOMAIN outbox = 1 .. Len(outbox)
           /\ Len(topic) \in Nat /\ Len(outbox) \in Nat
           /\ \A message \in MessagesOf : message.call \in 1 .. 5
           /\ \A e \in DOMAIN topic : topic[e] \in MessagesOf /\ topic[e].call \in 1 .. 5
           /\ \A f \in DOMAIN outbox : outbox[f] \in MessagesOf /\ outbox[f].call \in 1 .. 5
           /\ at \in 1 .. 6
<1>1. topic \in Seq(MessagesOf) /\ outbox \in Seq(MessagesOf) /\ suite \in Suites
    BY TypedParts DEF ServicesTyped, ControlTyped
<1>2. \A message \in MessagesOf : message.call \in 1 .. 5
    BY <1>1, ProducingCall DEF MessagesOf
<1>3. \A q \in Seq(MessagesOf) :
          /\ DOMAIN q = 1 .. Len(q) /\ Len(q) \in Nat
          /\ \A e \in DOMAIN q : q[e] \in MessagesOf
    BY ElementOfSeq
<1>4. at \in 1 .. 6
    <2>1. at \in 1 .. Len(script) + 1 /\ Len(script) = 5
        BY <1>1, ProducingCall, TypedParts, Zenon DEF ControlTyped
    <2>2. QED
        BY <2>1
<1>5. QED
    BY <1>1, <1>2, <1>3, <1>4

LEMMA OrderedStep == ASSUME Typed, Next, suite # "consumer", Ordered PROVE Ordered'
<1> DEFINE WillBeDue(c) == c < at' \/ (c = at' /\ phase' \in {"answer", "poll"})
<1>1. /\ topic \in Seq(MessagesOf) /\ outbox \in Seq(MessagesOf)
      /\ DOMAIN topic = 1 .. Len(topic) /\ DOMAIN outbox = 1 .. Len(outbox)
      /\ Len(topic) \in Nat /\ Len(outbox) \in Nat
    BY Calls
<1>2. /\ \A e \in 1 .. Len(topic) : topic[e].call \in 1 .. 5
      /\ \A f \in 1 .. Len(outbox) : outbox[f].call \in 1 .. 5
      /\ at \in 1 .. 6
    BY Calls
<1>3. ASSUME NEW c \in 1 .. 5, Due(c) PROVE WillBeDue(c)
    <2>1. CASE at' \in at + 1 .. 6
        BY <1>2, <1>3, <2>1 DEF Due
    <2>2. CASE at' = at /\ (phase \in {"answer", "poll"} => phase' \in {"answer", "poll"})
        BY <1>3, <2>2 DEF Due
    <2>3. \/ at' \in at + 1 .. 6
          \/ at' = at /\ (phase \in {"answer", "poll"} => phase' \in {"answer", "poll"})
        BY ControlMoves, Zenon
    <2>4. QED
        BY <2>1, <2>2, <2>3
<1>4. /\ \A e, f \in 1 .. Len(topic) :
             e < f => topic[e].call < topic[f].call \/ topic[e] = topic[f]
      /\ \A e, f \in 1 .. Len(outbox) : e < f => outbox[e].call < outbox[f].call
      /\ \A e \in 1 .. Len(topic), f \in 1 .. Len(outbox) : topic[e].call < outbox[f].call
    BY <1>1 DEF Ordered
<1>5. /\ \A e \in 1 .. Len(topic) : Due(topic[e].call)
      /\ \A f \in 1 .. Len(outbox) : Due(outbox[f].call)
    BY <1>1 DEF Ordered
<1> HIDE DEF WillBeDue
<1>6. /\ \A e \in 1 .. Len(topic) : WillBeDue(topic[e].call)
      /\ \A f \in 1 .. Len(outbox) : WillBeDue(outbox[f].call)
    BY <1>2, <1>3, <1>5
<1>7. ASSUME \A e, f \in DOMAIN topic' :
                 e < f => topic'[e].call < topic'[f].call \/ topic'[e] = topic'[f],
             \A e, f \in DOMAIN outbox' : e < f => outbox'[e].call < outbox'[f].call,
             \A e \in DOMAIN topic', f \in DOMAIN outbox' : topic'[e].call < outbox'[f].call,
             \A e \in DOMAIN topic' : WillBeDue(topic'[e].call),
             \A f \in DOMAIN outbox' : WillBeDue(outbox'[f].call)
      PROVE  Ordered'
    BY <1>7, Zenon DEF Ordered, Due, WillBeDue
<1>8. CASE Committed
    <2>1. PICK message \in MessagesOf :
              /\ phase = "call" /\ at \in 1 .. 5 /\ message.call = at
              /\ at' > at \/ (at' = at /\ phase' = "answer")
              /\ outbox' = Append(outbox, message) /\ topic' = topic
        BY <1>8 DEF Committed
    <2>2. /\ DOMAIN outbox' = 1 .. Len(outbox) + 1
          /\ \A i \in 1 .. Len(outbox) : outbox'[i] = outbox[i]
          /\ outbox'[Len(outbox) + 1] = message
        BY <1>1, <2>1, AppendIs
    <2>3. /\ \A e \in 1 .. Len(topic) : topic[e].call < at
          /\ \A f \in 1 .. Len(outbox) : outbox[f].call < at
        BY <1>5, <2>1 DEF Due
    <2>4. message.call = at
        BY <2>1
    <2>5. WillBeDue(message.call)
        BY <2>1, Zenon DEF WillBeDue
    <2>6. DOMAIN topic' = 1 .. Len(topic) /\ \A e \in 1 .. Len(topic) : topic'[e] = topic[e]
        BY <1>1, <2>1
    <2>7. \A e, f \in DOMAIN topic' :
              e < f => topic'[e].call < topic'[f].call \/ topic'[e] = topic'[f]
        BY <1>4, <2>6
    <2>8. \A e, f \in DOMAIN outbox' : e < f => outbox'[e].call < outbox'[f].call
        BY <1>1, <1>4, <2>2, <2>3, <2>4
    <2>9. \A e \in DOMAIN topic', f \in DOMAIN outbox' : topic'[e].call < outbox'[f].call
        BY <1>1, <1>4, <2>2, <2>3, <2>4, <2>6
    <2>10. \A e \in DOMAIN topic' : WillBeDue(topic'[e].call)
        BY <1>6, <2>6
    <2>11. \A f \in DOMAIN outbox' : WillBeDue(outbox'[f].call)
        BY <1>1, <1>6, <2>2, <2>5
    <2>12. QED
        BY <1>7, <2>7, <2>8, <2>9, <2>10, <2>11
<1>9. CASE Published
    <2>1. PICK message \in MessagesOf :
              /\ outbox # <<>> /\ message.call = outbox[1].call
              /\ outbox' = Tail(outbox) /\ topic' = Append(topic, message)
        BY <1>9 DEF Published
    <2>2. /\ DOMAIN outbox' = 1 .. Len(outbox) - 1 /\ 1 \in 1 .. Len(outbox)
          /\ \A i \in 1 .. Len(outbox) - 1 : outbox'[i] = outbox[i + 1]
        BY <1>1, <2>1, TailIs
    <2>3. /\ DOMAIN topic' = 1 .. Len(topic) + 1
          /\ \A i \in 1 .. Len(topic) : topic'[i] = topic[i]
          /\ topic'[Len(topic) + 1] = message
        BY <1>1, <2>1, AppendIs
    <2>4. \A e \in 1 .. Len(topic) : topic[e].call < message.call
        BY <1>4, <2>1, <2>2
    <2>5. \A f \in 1 .. Len(outbox) - 1 : message.call < outbox[f + 1].call
        BY <1>1, <1>4, <2>1, <2>2
    <2>6. WillBeDue(message.call)
        BY <1>6, <2>1, <2>2
    <2>7. ASSUME NEW e \in DOMAIN topic', NEW f \in DOMAIN topic', e < f
          PROVE  topic'[e].call < topic'[f].call \/ topic'[e] = topic'[f]
        <3>1. e \in 1 .. Len(topic) /\ (f \in 1 .. Len(topic) \/ f = Len(topic) + 1)
            BY <1>1, <2>3, <2>7
        <3>2. CASE f \in 1 .. Len(topic)
            BY <1>4, <2>3, <2>7, <3>1, <3>2
        <3>3. CASE f = Len(topic) + 1
            BY <2>3, <2>4, <3>1, <3>3
        <3>4. QED
            BY <3>1, <3>2, <3>3
    <2>8. ASSUME NEW e \in DOMAIN outbox', NEW f \in DOMAIN outbox', e < f
          PROVE  outbox'[e].call < outbox'[f].call
        <3>1. /\ e + 1 \in 1 .. Len(outbox) /\ f + 1 \in 1 .. Len(outbox) /\ e + 1 < f + 1
              /\ outbox'[e] = outbox[e + 1] /\ outbox'[f] = outbox[f + 1]
            BY <1>1, <2>2, <2>8
        <3>2. QED
            BY <1>4, <3>1
    <2>9. ASSUME NEW e \in DOMAIN topic', NEW f \in DOMAIN outbox'
          PROVE  topic'[e].call < outbox'[f].call
        <3>1. /\ f \in 1 .. Len(outbox) - 1 /\ f + 1 \in 1 .. Len(outbox)
              /\ outbox'[f] = outbox[f + 1]
              /\ (e \in 1 .. Len(topic) \/ e = Len(topic) + 1)
            BY <1>1, <2>2, <2>3
        <3>2. CASE e \in 1 .. Len(topic)
            BY <1>4, <2>3, <3>1, <3>2
        <3>3. CASE e = Len(topic) + 1
            BY <2>3, <2>5, <3>1, <3>3
        <3>4. QED
            BY <3>1, <3>2, <3>3
    <2>10. \A e \in DOMAIN topic' : WillBeDue(topic'[e].call)
        BY <1>1, <1>6, <2>3, <2>6
    <2>11. \A f \in DOMAIN outbox' : WillBeDue(outbox'[f].call)
        BY <1>1, <1>6, <2>2
    <2>12. QED
        BY <1>7, <2>7, <2>8, <2>9, <2>10, <2>11
<1>10. CASE Repeated
    <2>1. /\ topic # <<>> /\ topic' = Append(topic, topic[Len(topic)]) /\ outbox' = outbox
          /\ Len(topic) \in 1 .. Len(topic) /\ topic[Len(topic)] \in MessagesOf
        BY <1>1, <1>10, EmptySeq, ElementOfSeq DEF Repeated
    <2>2. /\ DOMAIN topic' = 1 .. Len(topic) + 1
          /\ \A i \in 1 .. Len(topic) : topic'[i] = topic[i]
          /\ topic'[Len(topic) + 1] = topic[Len(topic)]
        BY <1>1, <2>1, AppendIs
    <2>3. ASSUME NEW e \in DOMAIN topic', NEW f \in DOMAIN topic', e < f
          PROVE  topic'[e].call < topic'[f].call \/ topic'[e] = topic'[f]
        <3>1. e \in 1 .. Len(topic) /\ (f \in 1 .. Len(topic) \/ f = Len(topic) + 1)
            BY <1>1, <2>2, <2>3
        <3>2. CASE f \in 1 .. Len(topic)
            BY <1>4, <2>2, <2>3, <3>1, <3>2
        <3>3. CASE f = Len(topic) + 1 /\ e < Len(topic)
            BY <1>4, <2>1, <2>2, <3>1, <3>3
        <3>4. CASE f = Len(topic) + 1 /\ e = Len(topic)
            BY <2>1, <2>2, <3>4
        <3>5. QED
            BY <1>1, <3>1, <3>2, <3>3, <3>4
    <2>4. \A e \in DOMAIN topic', f \in DOMAIN outbox' : topic'[e].call < outbox'[f].call
        BY <1>1, <1>4, <2>1, <2>2
    <2>5. \A e \in DOMAIN topic' : WillBeDue(topic'[e].call)
        BY <1>1, <1>6, <2>1, <2>2
    <2>6. /\ \A f \in DOMAIN outbox' : WillBeDue(outbox'[f].call)
          /\ \A e, f \in DOMAIN outbox' : e < f => outbox'[e].call < outbox'[f].call
        BY <1>1, <1>4, <1>6, <2>1
    <2>7. QED
        BY <1>7, <2>3, <2>4, <2>5, <2>6
<1>11. CASE topic' = topic /\ outbox' = outbox
    <2>1. /\ \A e \in DOMAIN topic' : WillBeDue(topic'[e].call)
          /\ \A f \in DOMAIN outbox' : WillBeDue(outbox'[f].call)
        BY <1>1, <1>6, <1>11
    <2>2. /\ \A e, f \in DOMAIN topic' :
                 e < f => topic'[e].call < topic'[f].call \/ topic'[e] = topic'[f]
          /\ \A e, f \in DOMAIN outbox' : e < f => outbox'[e].call < outbox'[f].call
          /\ \A e \in DOMAIN topic', f \in DOMAIN outbox' : topic'[e].call < outbox'[f].call
        BY <1>1, <1>4, <1>11
    <2>3. QED
        BY <1>7, <2>1, <2>2
<1>12. QED
    BY <1>8, <1>9, <1>10, <1>11, ServicesMove

LEMMA TopicGrows ==
    ASSUME Typed, Next, suite # "consumer"
    PROVE  \A e \in DOMAIN topic : e \in DOMAIN topic' /\ topic'[e] = topic[e]
<1>1. /\ topic \in Seq(MessagesOf) /\ DOMAIN topic = 1 .. Len(topic) /\ Len(topic) \in Nat
    BY Calls
<1>2. ASSUME NEW message \in MessagesOf, topic' = Append(topic, message)
      PROVE  \A e \in DOMAIN topic : e \in DOMAIN topic' /\ topic'[e] = topic[e]
    BY <1>1, <1>2, AppendIs
<1>3. CASE Repeated
    <2>1. topic # <<>> /\ topic' = Append(topic, topic[Len(topic)])
        BY <1>3 DEF Repeated
    <2>2. topic[Len(topic)] \in MessagesOf
        BY <1>1, <2>1, EmptySeq, ElementOfSeq
    <2>3. QED
        BY <1>2, <2>1, <2>2
<1>4. CASE Published
    BY <1>2, <1>4 DEF Published
<1>5. CASE topic' = topic
    BY <1>5
<1>6. QED
    BY <1>3, <1>4, <1>5, ServicesMove DEF Committed

LEMMA NamedStep == ASSUME Typed, Next, suite # "consumer", Named PROVE Named'
<1>1. /\ topic \in Seq(MessagesOf) /\ DOMAIN topic = 1 .. Len(topic) /\ Len(topic) \in Nat
    BY Calls
<1>2. script' = script
    BY ControlMoves, ScriptStays
<1>3. \A message : WellNamed(message)' <=> WellNamed(message)
    BY <1>2 DEF WellNamed
<1>4. \A e \in 1 .. Len(topic) : WellNamed(topic[e])
    BY <1>1 DEF Named
<1>5. ASSUME \A e \in DOMAIN topic' : \E message : message = topic'[e] /\ WellNamed(message)
      PROVE  Named'
    BY <1>2, <1>5 DEF Named, WellNamed
<1>6. ASSUME NEW message \in MessagesOf, WellNamed(message), topic' = Append(topic, message)
      PROVE  Named'
    <2>1. /\ DOMAIN topic' = 1 .. Len(topic) + 1
          /\ \A i \in 1 .. Len(topic) : topic'[i] = topic[i]
          /\ topic'[Len(topic) + 1] = message
        BY <1>1, <1>6, AppendIs
    <2>2. \A e \in 1 .. Len(topic) + 1 : e \in 1 .. Len(topic) \/ e = Len(topic) + 1
        BY <1>1
    <2>3. QED
        BY <1>4, <1>5, <1>6, <2>1, <2>2, Zenon
<1>7. CASE Published
    BY <1>6, <1>7 DEF Published
<1>8. CASE Repeated
    <2>1. topic # <<>> /\ topic' = Append(topic, topic[Len(topic)])
        BY <1>8 DEF Repeated
    <2>2. Len(topic) \in 1 .. Len(topic) /\ topic[Len(topic)] \in MessagesOf
        BY <1>1, <2>1, EmptySeq, ElementOfSeq
    <2>3. QED
        BY <1>4, <1>6, <2>1, <2>2
<1>9. CASE topic' = topic
    BY <1>1, <1>4, <1>5, <1>9, Zenon
<1>10. QED
    BY <1>7, <1>8, <1>9, ServicesMove DEF Committed

\* What is known of an answer that does not fail its step.
LEMMA ReadingPasses ==
    ASSUME Typed, suite # "consumer", Ordered, Named, Armed, ReadNextSortNodeEvent,
           {0, call.step} \cap failed' = {}
    PROVE  /\ topic[offset + 1].call = at
           /\ Agrees(call, node, topic[offset + 1].events)
           /\ offset + 1 \in DOMAIN topic
           /\ Verdict(call, node, topic[offset + 1].events) = Pass
<1>1. ControlTyped /\ CountersTyped /\ phase = "answer" /\ offset < Len(topic)
    BY TypedParts DEF ReadNextSortNodeEvent
<1>2. step = call.step /\ call.op \in Ops
    BY <1>1, InCall
<1>3. failed \subseteq failed'
    <2>1. Next
        BY DEF Next, Progress
    <2>2. QED
        BY <1>1, <2>1, ControlMoves, Zenon
<1> DEFINE verdict == Verdict(call, node, topic[offset + 1].events)
<1>4. /\ verdict = Stop => StopStep
      /\ verdict # Stop => failed' = IF verdict = Fail THEN failed \cup {step} ELSE failed
    BY Zenon DEF ReadNextSortNodeEvent
<1> HIDE DEF verdict
<1>5. verdict # Stop
    <2>1. verdict = Stop => failed' = failed \cup {step}
        BY <1>4 DEF StopStep
    <2>2. QED
        BY <1>2, <2>1
<1>6. verdict # Fail
    BY <1>2, <1>4, <1>5
<1>7. Verdict(call, node, topic[offset + 1].events) = Pass
    BY <1>2, <1>5, <1>6, NeitherStopNorFail, Zenon DEF verdict
<1>8. Unfailed(call.step)
    BY <1>3 DEF Unfailed
<1>9. offset + 1 \in DOMAIN topic
    <2>1. offset \in 0 .. Len(topic) /\ DOMAIN topic = 1 .. Len(topic) /\ Len(topic) \in Nat
        BY <1>1, Calls DEF CountersTyped
    <2>2. QED
        BY <1>1, <2>1
<1>10. QED
    BY <1>1, <1>2, <1>7, <1>8, <1>9, AnswerIsOwn, Passed

\* Only the answer to the creation makes the deletion the next thing to do.
LEMMA DeletionAwaits ==
    ASSUME Typed, Next, suite # "consumer", DeletionAhead', ~ReadNextSortNodeEvent
    PROVE  DeletionAhead /\ offset' = offset /\ phase # "clean"
<1>1. ControlTyped /\ suite \in Suites /\ Len(script) = 5
    BY TypedParts, ProducingCall DEF ControlTyped
<1>2. at \in 1 .. 6 /\ (phase \notin {"clean", "done"} => at \in 1 .. 5)
    BY <1>1, InCall, Calls
<1>3. offset' = offset
    BY DEF Next, Progress, Deadline, Misbehaviour, Clean, Request, RequestNotFound, Inject,
           Poll, LookOnce, ReadTimesOut, PollTimesOut, Publish, Store, Cache, CleanFails,
           RequestFails, InjectFails, PublishMalformed, PublishAgain, PublishAs, suiteVars
<1>4. (at' = 4 /\ phase' = "poll") \/ (at' = 5 /\ phase' \in {"call", "answer"})
    BY DEF DeletionAhead
<1>5. ~(Clean \/ CleanFails)
    <2>1. ASSUME Clean \/ CleanFails PROVE at' \in {1, 6}
        <3>1. phase = "clean"
            BY <2>1 DEF Clean, CleanFails
        <3>2. at = 1
            BY <1>1, <3>1 DEF ControlTyped, Shape
        <3>3. QED
            BY <1>1, <2>1, <3>2 DEF Clean, CleanFails, GoTo
    <2>2. QED
        BY <1>4, <2>1
<1>6. ~(RequestNotFound \/ RequestFails \/ ReadTimesOut)
    <2>1. ASSUME RequestNotFound \/ RequestFails \/ ReadTimesOut PROVE FALSE
        <3>1. StopStep /\ phase \notin {"clean", "done"}
            BY <2>1 DEF RequestNotFound, RequestFails, ReadTimesOut
        <3>2. at' \in {2, 4, 6} /\ phase' = IF at' > Len(script) THEN "done" ELSE "call"
            BY <1>1, <3>1, StopStepMoves
        <3>3. at' # 5 /\ phase' # "poll"
            BY <3>2
        <3>4. QED
            BY <1>4, <3>3
    <2>2. QED
        BY <2>1
<1>7. CASE Request
    BY <1>3, <1>4, <1>7 DEF Request, DeletionAhead
<1>8. CASE Poll \/ PollTimesOut \/ LookOnce
    <2>1. phase = "poll" /\ (GoTo(at + 1) \/ (at' = at /\ phase' = phase))
        BY <1>8 DEF Poll, PollTimesOut, LookOnce
    <2>2. CASE GoTo(at + 1)
        <3>1. at' = at + 1 /\ phase' # "poll"
            BY <2>2 DEF GoTo
        <3>2. at = 4
            <4>1. at' = 5
                BY <1>4, <3>1, Zenon
            <4>2. at' = at + 1 /\ at \in 1 .. 6
                BY <1>2, <3>1, Zenon
            <4>3. QED
                BY <4>1, <4>2
        <3>3. QED
            BY <1>3, <2>1, <3>2 DEF DeletionAhead
    <2>3. CASE at' = at /\ phase' = phase
        BY <1>3, <1>4, <2>1, <2>3 DEF DeletionAhead
    <2>4. QED
        BY <2>1, <2>2, <2>3
<1>9. CASE Publish \/ PublishMalformed \/ PublishAgain \/ Store \/ Cache
    <2>1. at' = at /\ phase' = phase
        BY <1>9 DEF Publish, PublishMalformed, PublishAgain, PublishAs, Store, Cache, suiteVars
    <2>2. QED
        BY <1>3, <1>4, <2>1 DEF DeletionAhead
<1>10. CASE Inject \/ InjectFails
    BY <1>10 DEF Inject, InjectFails
<1>11. QED
    BY <1>5, <1>6, <1>7, <1>8, <1>9, <1>10 DEF Next, Progress, Deadline, Misbehaviour

LEMMA ArmedStep ==
    ASSUME Typed, Next, suite # "consumer", Ordered, Named, Armed
    PROVE  Armed'
<1> SUFFICES ASSUME Unfailed(3)', DeletionAhead'
             PROVE  /\ offset' \in DOMAIN topic' /\ topic'[offset'].call = 4
                    /\ topic'[offset'].events.node[1].nodeEvent = Created
    BY DEF Armed
<1>1. {0, 3} \cap failed' = {}
    BY DEF Unfailed
<1>2. \A e \in DOMAIN topic : e \in DOMAIN topic' /\ topic'[e] = topic[e]
    BY TopicGrows
<1>3. CASE ReadNextSortNodeEvent
    <2>1. ControlTyped /\ suite \in Suites /\ phase = "answer" /\ offset' = offset + 1
        BY <1>3, TypedParts DEF ReadNextSortNodeEvent, ControlTyped
    <2>2. at \in 1 .. 5 /\ call = script[at]
        BY <2>1, InCall, ProducingCall DEF call
    <2>3. at = 4
        <3>1. (at' = 4 /\ phase' = "poll") \/ (at' = 5 /\ phase' \in {"call", "answer"})
            BY DEF DeletionAhead
        <3>2. StopStep \/ GoTo(at + 1) \/ (phase' = "poll" /\ at' = at)
            BY <1>3, Zenon DEF ReadNextSortNodeEvent
        <3>3. CASE StopStep
            <4>1. /\ at' \in {2, 4, 6}
                  /\ phase' = IF at' > Len(script) THEN "done" ELSE "call"
                BY <2>1, <3>3, StopStepMoves
            <4>2. at' # 5 /\ phase' # "poll"
                BY <4>1
            <4>3. QED
                BY <3>1, <4>2
        <3>4. CASE GoTo(at + 1)
            <4>1. at' = at + 1 /\ phase' # "poll"
                BY <3>4 DEF GoTo
            <4>2. QED
                BY <2>2, <3>1, <4>1
        <3>5. CASE phase' = "poll" /\ at' = at
            BY <3>1, <3>5
        <3>6. QED
            BY <3>2, <3>3, <3>4, <3>5
    <2>4. call.step = 3 /\ call.op = "create"
        BY <2>1, <2>2, <2>3, ProducingCall
    <2>5. /\ topic[offset + 1].call = at
          /\ Agrees(call, node, topic[offset + 1].events)
          /\ offset + 1 \in DOMAIN topic
        BY <1>1, <1>3, <2>4, ReadingPasses
    <2>6. topic[offset + 1].events.node[1].nodeEvent = Created
        BY <2>4, <2>5, Zenon DEF Agrees
    <2>7. QED
        BY <1>2, <2>1, <2>3, <2>5, <2>6
<1>4. CASE ~ReadNextSortNodeEvent
    <2>1. DeletionAhead /\ offset' = offset /\ phase # "clean"
        BY <1>4, DeletionAwaits
    <2>2. Unfailed(3)
        <3>1. failed \subseteq failed'
            BY <2>1, ControlMoves, Zenon
        <3>2. QED
            BY <1>1, <3>1 DEF Unfailed
    <2>3. /\ offset \in DOMAIN topic /\ topic[offset].call = 4
          /\ topic[offset].events.node[1].nodeEvent = Created
        BY <2>1, <2>2 DEF Armed
    <2>4. QED
        BY <1>2, <2>1, <2>3
<1>5. QED
    BY <1>3, <1>4

LEMMA OwnStep ==
    ASSUME Typed, Next, suite # "consumer", Ordered, Named, Armed, AnswersAreOwn
    PROVE  AnswersAreOwn'
<1> DEFINE Own(j) ==
               LET asked == script[j.call]
                   n == j.message.events.node[1]
               IN  /\ j.message.call = j.call
                   /\ j.message.events.systemId = SystemId /\ n.hubId = HubId
                   /\ asked.op # "create" => n.id = j.node
                   /\ asked.op # "delete" => n.name = asked.name /\ n.type # Unspecified
                   /\ asked.op = "create" => n.type = IntraMid
<1>1. script' = script /\ call = script[at]
    BY ControlMoves, ScriptStays DEF call
<1>2. AnswersAreOwn <=> \A j \in judged : Unfailed(script[j.call].step) => Own(j)
    BY Zenon DEF AnswersAreOwn
<1>3. (\A j \in judged' : {0, script[j.call].step} \cap failed' = {} => Own(j)) => AnswersAreOwn'
    BY <1>1, Zenon DEF AnswersAreOwn, Unfailed
<1> HIDE DEF Own
<1>4. ASSUME NEW j \in judged, {0, script[j.call].step} \cap failed' = {}
      PROVE  Own(j)
    <2>1. phase # "clean"
        BY TypedParts DEF ControlTyped, Shape
    <2>2. failed \subseteq failed'
        BY <2>1, ControlMoves, Zenon
    <2>3. Unfailed(script[j.call].step)
        BY <1>4, <2>2 DEF Unfailed
    <2>4. QED
        BY <1>2, <2>3
<1>5. CASE ReadNextSortNodeEvent
    <2> DEFINE reading == [call |-> at, node |-> node, message |-> topic[offset + 1]]
    <2>1. judged' = judged \cup {reading}
        BY <1>5 DEF ReadNextSortNodeEvent
    <2>2. ASSUME {0, script[reading.call].step} \cap failed' = {} PROVE Own(reading)
        <3>1. {0, call.step} \cap failed' = {}
            BY <1>1, <2>2
        <3>2. topic[offset + 1].call = at /\ Agrees(call, node, topic[offset + 1].events)
            BY <1>5, <3>1, ReadingPasses
        <3>3. ControlTyped /\ suite \in Suites /\ phase = "answer"
            BY <1>5, TypedParts DEF ReadNextSortNodeEvent, ControlTyped
        <3>4. call.op # "create" => node > 0
            <4>1. call.op # "create" => node \in Ids
                BY <3>3 DEF ControlTyped, Shape
            <4>2. \A id \in Ids : id > 0
                BY BoundAssumption DEF Ids
            <4>3. QED
                BY <4>1, <4>2, Zenon
        <3>5. call.op # "delete" => call.name # ""
            <4>1. at \in 1 .. 5
                BY <3>3, InCall, ProducingCall
            <4>2. call.op # "delete" => at \in 1 .. 4
                BY <1>1, <3>3, <4>1, ProducingCall
            <4>3. QED
                BY <1>1, <3>3, <4>2, ProducingCall DEF ProducingNames
        <3> DEFINE events == topic[offset + 1].events
                   n == events.node[1]
        <3>6. /\ events.systemId = SystemId /\ n.hubId = HubId
              /\ call.op # "create" => n.id = node
              /\ call.op # "delete" => n.name = call.name /\ n.type # Unspecified
              /\ call.op = "create" => n.type = IntraMid
            BY <3>2, <3>4, <3>5, Zenon DEF Agrees
        <3>7. reading.call = at /\ reading.node = node /\ reading.message = topic[offset + 1]
            OBVIOUS
        <3> HIDE DEF reading
        <3>8. QED
            BY <1>1, <3>2, <3>6, <3>7, Zenon DEF Own
    <2> HIDE DEF reading
    <2>3. \A j \in judged' : {0, script[j.call].step} \cap failed' = {} => Own(j)
        BY <1>4, <2>1, <2>2
    <2>4. QED
        BY <1>3, <2>3, Zenon
<1>6. CASE judged' = judged
    BY <1>3, <1>4, <1>6, Zenon
<1>7. QED
    <2>1. ReadNextSortNodeEvent \/ judged' = judged
        BY DEF Next, Progress, Deadline, Misbehaviour, Clean, Request, RequestNotFound, Inject,
               Poll, LookOnce, ReadTimesOut, PollTimesOut, Publish, Store, Cache, CleanFails,
               RequestFails, InjectFails, PublishMalformed, PublishAgain, PublishAs, suiteVars
    <2>2. QED
        BY <1>5, <1>6, <2>1

\* The consumer suite judges nothing: it invents its events.
Answering == suite # "consumer" => Answered

LEMMA AnsweringInit == Init => Answering
<1> SUFFICES ASSUME Init PROVE Answered
    BY DEF Answering
<1>1. topic = <<>> /\ outbox = <<>> /\ judged = {} /\ at = 1
    BY DEF Init
<1>2. Ordered /\ Named /\ AnswersAreOwn
    BY <1>1 DEF Ordered, Named, AnswersAreOwn
<1>3. Armed
    BY <1>1 DEF Armed, DeletionAhead
<1>4. QED
    BY <1>2, <1>3 DEF Answered

LEMMA AnsweringStep == Typed /\ Answering /\ [Next]_vars => Answering'
<1> SUFFICES ASSUME Typed, Answering, [Next]_vars PROVE Answering'
    OBVIOUS
<1>1. CASE Next
    <2>1. suite' = suite
        BY <1>1
        DEF Next, Progress, Deadline, Misbehaviour, Clean, Request, RequestNotFound, Inject,
            ReadNextSortNodeEvent, Poll, LookOnce, ReadTimesOut, PollTimesOut, Publish, Store,
            Cache, CleanFails, RequestFails, InjectFails, PublishMalformed, PublishAgain,
            PublishAs
    <2>2. suite # "consumer" => Answered'
        <3> SUFFICES ASSUME suite # "consumer" PROVE Answered'
            OBVIOUS
        <3>1. Ordered /\ Named /\ Armed /\ AnswersAreOwn
            BY DEF Answering, Answered
        <3>2. Ordered' /\ Named' /\ Armed' /\ AnswersAreOwn'
            BY <1>1, <3>1, OrderedStep, NamedStep, ArmedStep, OwnStep
        <3>3. QED
            BY <3>2 DEF Answered
    <2>3. QED
        BY <2>1, <2>2 DEF Answering
<1>2. CASE UNCHANGED vars
    <2>1. /\ suite' = suite /\ script' = script /\ at' = at /\ phase' = phase
          /\ failed' = failed /\ judged' = judged /\ topic' = topic /\ outbox' = outbox
          /\ offset' = offset
        BY <1>2, ScriptStays DEF vars, suiteVars, serviceVars
    <2>2. Ordered' <=> Ordered
        BY <2>1, Zenon DEF Ordered, Due
    <2>3. Named' <=> Named
        BY <2>1, Zenon DEF Named, WellNamed
    <2>4. Armed' <=> Armed
        BY <2>1, Zenon DEF Armed, DeletionAhead, Unfailed
    <2>5. AnswersAreOwn' <=> AnswersAreOwn
        BY <2>1, Zenon DEF AnswersAreOwn, Unfailed
    <2>6. QED
        BY <2>1, <2>2, <2>3, <2>4, <2>5 DEF Answering, Answered
<1>3. QED
    BY <1>1, <1>2

\* A step that is not failed has judged the answers to its own requests only:
\* an event that is late, repeated, or not what it should be, of whichever call,
\* is never taken for the one the step waits for, however often that happens.
THEOREM AnswersBelongToTheirCalls == Spec => []AnswersAreOwn
<1>1. Typed /\ Answering => AnswersAreOwn
    <2> SUFFICES ASSUME Typed, Answering PROVE AnswersAreOwn
        OBVIOUS
    <2>1. CASE suite = "consumer"
        <3>1. judged = {}
            BY <2>1, TypedParts DEF ControlTyped, Shape
        <3>2. QED
            BY <3>1 DEF AnswersAreOwn
    <2>2. CASE suite # "consumer"
        BY <2>2 DEF Answering, Answered
    <2>3. QED
        BY <2>1, <2>2
<1>2. QED
    BY <1>1, TypedInit, TypedStep, AnsweringInit, AnsweringStep, PTL DEF Spec

=============================================================================
