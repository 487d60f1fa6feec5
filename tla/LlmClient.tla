----------------------------- MODULE LlmClient -----------------------------
(***************************************************************************)
(* llm/client.py: one call of chat_json or probe_model and of the except   *)
(* clause its callers wrap around it.  A request that fails on the way is  *)
(* tried again after a pause; one that is answered never is, whatever the  *)
(* answer is worth.                                                        *)
(***************************************************************************)
EXTENDS Integers

CONSTANT MaxRetries \* attempts in all, DEFAULT_MAX_RETRIES

ASSUME ClientAssumption == MaxRetries \in Nat \ {0}

VARIABLES
    pc,
    probing,   \* probe_model, which takes any text for an answer
    attempt,
    received,  \* requests the provider has received
    answer,    \* what came back
    lastError,
    slept,     \* pauses so far, in units of RETRY_BACKOFF_SECONDS
    outcome    \* what the caller makes of the call

vars == <<pc, probing, attempt, received, answer, lastError, slept, outcome>>

\* URLError, OSError and TimeoutError: the request never arrived, its answer
\* was lost or late, or the provider refused it with an HTTP status.
RetriedErrors == {"unreachable", "lost", "http_status"}

\* Anything else raised by _post (a base_url that is no URL, a broken body, a
\* body that is no JSON), and what is raised while the answer is read.
FinalErrors == {"other", "unusable"}

\* A text that holds a JSON object, any other text (an empty one when there is
\* no choice), or a payload of another shape, on which reading it raises.
Answers == {"object", "text", "malformed"}

Attempted(error) == IF error = "unreachable" THEN received ELSE received + 1

PostAnswered ==
    /\ pc = "post"
    /\ answer' \in Answers
    /\ received' = received + 1
    /\ pc' = "read"
    /\ UNCHANGED <<probing, attempt, lastError, slept, outcome>>

\* Deviation: one attempt more than there should be.
PostFailsOnceMore ==
    /\ pc = "post"
    /\ lastError' \in RetriedErrors
    /\ received' = Attempted(lastError')
    /\ pc' = IF attempt <= MaxRetries THEN "wait" ELSE "describe"
    /\ UNCHANGED <<probing, attempt, answer, slept, outcome>>

\* Deviation: a refusal by the provider is not tried again.
PostFailsForGood ==
    /\ pc = "post"
    /\ lastError' \in RetriedErrors
    /\ received' = Attempted(lastError')
    /\ pc' = IF attempt < MaxRetries /\ lastError' # "http_status"
             THEN "wait" ELSE "describe"
    /\ UNCHANGED <<probing, attempt, answer, slept, outcome>>

PostFails ==
    /\ pc = "post"
    /\ lastError' \in RetriedErrors
    /\ received' = Attempted(lastError')
    /\ pc' = IF attempt < MaxRetries THEN "wait" ELSE "describe"
    /\ UNCHANGED <<probing, attempt, answer, slept, outcome>>

\* A base_url that is no URL is found before anything is sent, a bad body when
\* the provider has answered.
PostRaises ==
    /\ pc = "post"
    /\ lastError' = "other"
    /\ received' \in {received, received + 1}
    /\ pc' = "describe"
    /\ UNCHANGED <<probing, attempt, answer, slept, outcome>>

\* The pause grows with the number of the attempt.
Pause ==
    /\ pc = "wait"
    /\ slept' = slept + attempt
    /\ attempt' = attempt + 1
    /\ pc' = "post"
    /\ UNCHANGED <<probing, received, answer, lastError, outcome>>

UsableAnswer == answer = "object" \/ (probing /\ answer = "text")

ReadAnswer ==
    /\ pc = "read"
    /\ UsableAnswer
    /\ outcome' = "reply"
    /\ pc' = "returned"
    /\ UNCHANGED <<probing, attempt, received, answer, lastError, slept>>

\* Deviation: an answer that cannot be used is asked for again.
AskAgain ==
    /\ pc = "read"
    /\ ~ UsableAnswer
    /\ attempt < MaxRetries
    /\ lastError' = "unusable"
    /\ pc' = "wait"
    /\ UNCHANGED <<probing, attempt, received, answer, slept, outcome>>

AnswerUnusable ==
    /\ pc = "read"
    /\ ~ UsableAnswer
    /\ lastError' = "unusable"
    /\ pc' = "describe"
    /\ UNCHANGED <<probing, attempt, received, answer, slept, outcome>>

\* Deviation: only failures of the network are described.
DescribeNetworkFailure ==
    /\ pc = "describe"
    /\ lastError \in RetriedErrors
    /\ outcome' = "failed"
    /\ pc' = "returned"
    /\ UNCHANGED <<probing, attempt, received, answer, lastError, slept>>

\* provider_request_error in the except clause of the caller: the body of an
\* HTTP error is read from the network only now, which may raise.
DescribeFailure ==
    /\ pc = "describe"
    /\ outcome' \in {"failed"} \cup (IF lastError = "http_status" THEN {"unreadable"}
                                     ELSE {})
    /\ pc' = "returned"
    /\ UNCHANGED <<probing, attempt, received, answer, lastError, slept>>

Init ==
    /\ pc = "post"
    /\ probing \in BOOLEAN
    /\ attempt = 1
    /\ received = 0
    /\ answer = "none"
    /\ lastError = "none"
    /\ slept = 0
    /\ outcome = "none"

Next ==
    \/ PostAnswered \/ PostFails \/ PostRaises
    \/ Pause
    \/ ReadAnswer \/ AnswerUnusable
    \/ DescribeFailure

Spec == Init /\ [][Next]_vars

\* Every socket operation has a timeout, and a provider's answer is finite.
FairSpec == Spec /\ WF_vars(Next)
-----------------------------------------------------------------------------
(* Properties.                                                             *)

\* Type invariant of a call.
TypeOK ==
    /\ pc \in {"post", "wait", "read", "describe", "returned"}
    /\ probing \in BOOLEAN
    /\ attempt \in 1..MaxRetries
    /\ received \in 0..MaxRetries
    /\ answer \in Answers \cup {"none"}
    /\ lastError \in RetriedErrors \cup FinalErrors \cup {"none"}
    /\ slept \in Nat
    /\ outcome \in {"none", "reply", "failed", "unreadable"}

\* chat_json gives up early for a reason only: when it fails with attempts
\* left, the provider did answer or the error was none of the network; when it
\* used all its attempts it paused between them and not after the last one.
GivesUpForAReason ==
    /\ pc = "returned" /\ outcome # "reply" /\ attempt < MaxRetries =>
           lastError \in FinalErrors
    /\ 2 * slept = attempt * (attempt - 1)

\* An answered request is never sent again: the provider does not charge twice
\* for an answer that has been read, however useless.
AnsweredOnce ==
    [][answer # "none" => received' = received /\ answer' = answer]_vars

\* A call ends, with an answer or an error.
CallReturns == <>(outcome # "none")

Abstract == INSTANCE ChatCall WITH MaxRequests <- MaxRetries

\* A call of the client, with its attempts and pauses, is a call as the agents
\* see it.
ImplementsChatCall == Abstract!Spec
=============================================================================
