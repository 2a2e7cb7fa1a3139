---------------------------- MODULE EventHandler ----------------------------
(***************************************************************************)
(* The executor service as the orchestrator sees it                        *)
(* (Event_Handler/executors/RequestHandler.go): a request is read, a stage *)
(* is executed in a pool of its own, one response is written.  What an     *)
(* executor computes is left out; it may succeed or fail.  Requests are    *)
(* written by ExecuteJob only and carry both ids, so the invalid-message   *)
(* branches do not occur.                                                  *)
(***************************************************************************)
EXTENDS KafkaTopics

CONSTANT HandlerPoolSize  \* config.WorkerPoolSize of this service

ASSUME HandlerPoolAssumption == HandlerPoolSize \in Nat \ {0}

VARIABLE executing  \* the requests that were read and are not yet answered

\* The reader is not waiting in pool.Go: it holds one request more than the
\* pool has slots for.  Which of them waits is left open.
ReaderFree == Cardinality(executing) <= HandlerPoolSize

ReceiveRequest(m) ==
  /\ ReaderFree
  /\ ReadExecute(m)
  /\ executing' = executing \cup {m}
  /\ UNCHANGED <<redisVars, responseTopic, dlqTopic>>

\* executeStage and SendMessage: the response repeats the request's attempt.
\* An error of the write is logged and the response is gone.
Respond(m, status) ==
  /\ m \in executing
  /\ executing' = executing \ {m}
  /\ UNCHANGED <<redisVars, executeTopic, dlqTopic>>
  /\ \/ /\ responseTopic' = responseTopic \cup
             {[stage |-> m.stage, attempt |-> m.attempt, status |-> status]}
        /\ NoFault
     \/ Fault("respond") /\ UNCHANGED responseTopic

\* The process stops.  On SIGTERM the same is lost: the request that waits for
\* a slot is dropped, and main waits for the others, whose executors and whose
\* responses have a context that the signal has cancelled.
HandlerCrash ==
  /\ executing # {}
  /\ Fault("handler_crash")
  /\ executing' = {}
  /\ UNCHANGED <<redisVars, topicVars>>

HandlerNext ==
  \/ \E m \in executeTopic : ReceiveRequest(m)
  \/ \E m \in executing, status \in {"SUCCESS", "FAILURE"} : Respond(m, status)
  \/ HandlerCrash

HandlerInit == executing = {}

HandlerTypeOK == executing \subseteq Request

=============================================================================
