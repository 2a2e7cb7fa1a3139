----------------------------- MODULE KafkaTopics -----------------------------
(***************************************************************************)
(* The topics between the two services.  A topic is a set: its writers     *)
(* balance over partitions (kafka.LeastBytes), so no order is kept between *)
(* messages.  Both readers use ReadMessage with a consumer group, which    *)
(* commits the offset before the message is handled: a message that was    *)
(* read is not read again, except for the duplicates of a writer's         *)
(* internal retry or of a rebalance.                                       *)
(***************************************************************************)
EXTENDS RunState

VARIABLES
  executeTopic,   \* execute-stage: operation requests
  responseTopic,  \* execution-response: operation responses
  dlqTopic        \* stage-dlq: dead-letter records

topicVars == <<executeTopic, responseTopic, dlqTopic>>

\* OperationRequest and OperationResponse, payloads left out.
Request == [stage : Stage, attempt : Nat]
Response == [stage : Stage, attempt : Nat, status : {"SUCCESS", "FAILURE"}]
DlqMessage == [stage : Stage, attempt : Nat,
               reason : {"retry_exhausted", "dispatch_failed"}]

WriteExecuteMessage(m) ==
  /\ executeTopic' = executeTopic \cup {m}
  /\ UNCHANGED <<responseTopic, dlqTopic>>

\* ReadMessage on a topic: the message is gone, or will be delivered again.
ReadExecute(m) ==
  /\ m \in executeTopic
  /\ \/ executeTopic' = executeTopic \ {m} /\ NoFault
     \/ Fault("duplicate") /\ UNCHANGED executeTopic

\* errors: how many Redis commands of the step that handles it fail.
ReadResponse(r, errors) ==
  /\ r \in responseTopic
  /\ \/ responseTopic' = responseTopic \ {r} /\ RedisErrors(errors, 0)
     \/ /\ "duplicate" \in Faults
        /\ RedisErrors(errors, 1)
        /\ UNCHANGED responseTopic

\* publishDLQ: an error of the write is dropped by the caller.
PublishDLQ(s, n, reason) ==
  /\ \/ /\ dlqTopic' = dlqTopic \cup
                       {[stage |-> s, attempt |-> n, reason |-> reason]}
        /\ NoFault
     \/ Fault("publish") /\ UNCHANGED dlqTopic
  /\ UNCHANGED <<executeTopic, responseTopic>>

KafkaInit ==
  /\ executeTopic = {}
  /\ responseTopic = {}
  /\ dlqTopic = {}

KafkaTypeOK ==
  /\ executeTopic \subseteq Request
  /\ responseTopic \subseteq Response
  /\ dlqTopic \subseteq DlqMessage

=============================================================================
