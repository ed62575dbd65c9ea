------------------------------ MODULE Contract ------------------------------
(***************************************************************************)
(* The contract of a SortNodeEvents message (pkg/contract/sortmistake) and *)
(* the messages the fixtures build (pkg/contract/fixtures).  A protobuf    *)
(* field that is not set reads 0 or "".                                    *)
(***************************************************************************)
EXTENDS Integers, Sequences

\* proto/sortmistake: an enum is an int32 and may hold a number it does not name.

Unspecified == 0
Created == 1
Updated == 2
Deleted == 3
IntraMid == 5

(* require.* stops the step, assert.* marks it failed and lets it go on. *)

Stop == "stop"
Fail == "fail"
Pass == "pass"

(***************************************************************************)
(* The specification of ExpectedSortNode: a field that is 0 or "" is not   *)
(* compared.                                                               *)
(***************************************************************************)

ExpectedSortNode(id, hubId, systemId, name, type, nodeEvent) ==
    [id |-> id, hubId |-> hubId, systemId |-> systemId,
     name |-> name, type |-> type, nodeEvent |-> nodeEvent]

ValidateSortNodeEventSchema(node, expectedEvent) ==
    /\ node.id > 0
    /\ node.nodeEvent # Unspecified
    /\ expectedEvent \in {Unspecified, node.nodeEvent}
    /\ node.nodeEvent \in {Created, Updated} =>
         node.hubId > 0 /\ node.name # "" /\ node.type # Unspecified

\* Only the first node of the message is looked at.

AssertSortNodeEventsContract(events, expected) ==
    IF \/ events.systemId = ""
       \/ events.node = <<>>
       \/ ~ValidateSortNodeEventSchema(events.node[1], expected.nodeEvent)
    THEN Stop
    ELSE LET node == events.node[1]
         IN  IF /\ expected.systemId \in {"", events.systemId}
                /\ expected.id > 0 => node.id = expected.id
                /\ expected.hubId > 0 => node.hubId = expected.hubId
                /\ expected.name \in {"", node.name}
                /\ expected.type \in {Unspecified, node.type}
                /\ node.nodeEvent = expected.nodeEvent
             THEN Pass
             ELSE Fail

\* Seeded fault: the name of a created node is not compared.
CreatedUnderAnyName(events, systemId, hubId, name, type) ==
    AssertSortNodeEventsContract(events,
        ExpectedSortNode(0, hubId, systemId, "", type, Created))

AssertNodeCreatedContract(events, systemId, hubId, name, type) ==
    AssertSortNodeEventsContract(events,
        ExpectedSortNode(0, hubId, systemId, name, type, Created))

\* Seeded fault: hub and node, both int64, in each other's place.
UpdatedWithIdsSwapped(events, systemId, hubId, nodeId, name) ==
    AssertSortNodeEventsContract(events,
        ExpectedSortNode(hubId, nodeId, systemId, name, Unspecified, Updated))

AssertNodeUpdatedContract(events, systemId, hubId, nodeId, name) ==
    AssertSortNodeEventsContract(events,
        ExpectedSortNode(nodeId, hubId, systemId, name, Unspecified, Updated))

AssertNodeDeletedContract(events, systemId, hubId, nodeId) ==
    AssertSortNodeEventsContract(events,
        ExpectedSortNode(nodeId, hubId, systemId, "", Unspecified, Deleted))

-----------------------------------------------------------------------------
(* The fixtures; the enclosing NodeEventType and RealId are checked nowhere. *)

Message(systemId, node) == [systemId |-> systemId, node |-> <<node>>]

NewSortNodeCreatedEvent(systemId, hubId, nodeId, name, type) ==
    Message(systemId, [id |-> nodeId, hubId |-> hubId, name |-> name,
                       type |-> type, nodeEvent |-> Created])

\* Seeded fault: the updated event leaves its type out, as the update's request does.
UpdatedEventWithoutType(systemId, hubId, nodeId, name, type) ==
    Message(systemId, [id |-> nodeId, hubId |-> hubId, name |-> name,
                       type |-> Unspecified, nodeEvent |-> Updated])

NewSortNodeUpdatedEvent(systemId, hubId, nodeId, name, type) ==
    Message(systemId, [id |-> nodeId, hubId |-> hubId, name |-> name,
                       type |-> type, nodeEvent |-> Updated])

NewSortNodeDeletedEvent(systemId, hubId, nodeId) ==
    Message(systemId, [id |-> nodeId, hubId |-> hubId, name |-> "",
                       type |-> Unspecified, nodeEvent |-> Deleted])
=============================================================================
