-------------------------- MODULE LlmClientProofs --------------------------
(***************************************************************************)
(* Proofs about one call of the language model, for any number of          *)
(* attempts.                                                               *)
(***************************************************************************)
EXTENDS LlmClient, TLAPS

USE ClientAssumption

\* Every attempt but the one at hand was followed by a pause as long as its
\* number, and has sent at most one request.
AttemptsAccounted ==
    /\ 2 * slept = attempt * (attempt - 1)
    /\ received <= attempt
    /\ pc = "post" => received < attempt

\* Where the call is tells what is known: an answer ends the sending, a pause
\* comes before the last attempt only, and a failure has an error, which is
\* final unless all attempts were used.
StageSound ==
    /\ pc \in {"post", "wait"} => answer = "none"
    /\ pc = "wait" => attempt < MaxRetries
    /\ pc = "read" => received > 0
    /\ pc = "describe" => (attempt < MaxRetries => lastError \in FinalErrors)
    /\ lastError = "http_status" => received > 0

\* The outcome comes last and says how the call ended.
OutcomeSound ==
    /\ outcome = "none" <=> pc # "returned"
    /\ outcome \in {"failed", "unreadable"} =>
          (attempt < MaxRetries => lastError \in FinalErrors)

\* The inductive invariant of a call.
ClientInv == TypeOK /\ AttemptsAccounted /\ StageSound /\ OutcomeSound

\* A call starts in the invariant.
LEMMA ClientInit ==
    ASSUME Init
    PROVE  ClientInv
BY DEF Init, ClientInv, TypeOK, AttemptsAccounted, StageSound, OutcomeSound,
       RetriedErrors, FinalErrors

\* Every way an attempt can end, every pause and every reading keeps it.
LEMMA ClientStep ==
    ASSUME ClientInv, [Next]_vars
    PROVE  ClientInv'
<1> USE DEF ClientInv, TypeOK, AttemptsAccounted, StageSound, OutcomeSound,
            RetriedErrors, FinalErrors, Answers, Attempted
<1>1. CASE PostAnswered
  BY <1>1 DEF PostAnswered
<1>2. CASE PostFails
  BY <1>2 DEF PostFails
<1>3. CASE PostRaises
  BY <1>3 DEF PostRaises
<1>4. CASE Pause
  <2>1. 2 * (slept + attempt) = (attempt + 1) * attempt
    BY SMT
  <2>2. attempt + 1 \in 1..MaxRetries
    BY <1>4 DEF Pause
  <2>3. QED
    BY <1>4, <2>1, <2>2 DEF Pause
<1>5. CASE ReadAnswer
  BY <1>5 DEF ReadAnswer
<1>6. CASE AnswerUnusable
  BY <1>6 DEF AnswerUnusable
<1>7. CASE DescribeFailure
  BY <1>7 DEF DescribeFailure
<1>8. CASE UNCHANGED vars
  BY <1>8 DEF vars
<1>9. QED
  BY <1>1, <1>2, <1>3, <1>4, <1>5, <1>6, <1>7, <1>8 DEF Next

\* The invariant holds throughout.
LEMMA ClientInvariant == Spec => []ClientInv
<1>1. Init => ClientInv
  BY ClientInit
<1>2. ClientInv /\ [Next]_vars => ClientInv'
  BY ClientStep
<1>3. QED
  BY <1>1, <1>2, PTL DEF Spec

\* The variables of a call keep their types; in particular no attempt beyond
\* MaxRetries is made and no more requests than attempts are received.
THEOREM CallTypeCorrect == Spec => []TypeOK
<1>1. ClientInv => TypeOK
  BY DEF ClientInv
<1>2. QED
  BY <1>1, ClientInvariant, PTL

\* A call that fails with attempts left does so for an error that is no error
\* of the network, and pauses fall between attempts only.
THEOREM CallGivesUpForAReason == Spec => []GivesUpForAReason
<1>1. ClientInv => GivesUpForAReason
  BY DEF ClientInv, TypeOK, AttemptsAccounted, OutcomeSound, GivesUpForAReason
<1>2. QED
  BY <1>1, ClientInvariant, PTL

\* Once the provider has answered, nothing is sent again, whatever the answer
\* is worth.
THEOREM CallAnsweredOnce == Spec => AnsweredOnce
<1>1. ASSUME ClientInv, [Next]_vars
      PROVE  [answer # "none" => received' = received /\ answer' = answer]_vars
  BY <1>1 DEF ClientInv, StageSound, Next, vars, PostAnswered, PostFails, PostRaises,
              Pause, ReadAnswer, AnswerUnusable, DescribeFailure
<1>2. QED
  BY <1>1, ClientInvariant, PTL DEF Spec, AnsweredOnce
-----------------------------------------------------------------------------
(* The refinement.                                                         *)

\* A call that begins is a call the agents have just made.
LEMMA AbstractInit ==
    ASSUME Init
    PROVE  Abstract!Init
BY DEF Init, Abstract!Init

\* A request that is received is a Receive, the end of the call a Return, and
\* all the rest is invisible to the agents.
LEMMA AbstractStep ==
    ASSUME ClientInv, [Next]_vars
    PROVE  [Abstract!Next]_(Abstract!vars)
<1> USE DEF ClientInv, TypeOK, AttemptsAccounted, StageSound, OutcomeSound, Abstract!vars
<1>1. ASSUME PostAnswered \/ PostFails \/ PostRaises
      PROVE  Abstract!Receive \/ UNCHANGED Abstract!vars
  BY <1>1 DEF PostAnswered, PostFails, PostRaises, Attempted, Abstract!Receive
<1>2. ASSUME ReadAnswer
      PROVE  Abstract!Return("reply")
  <2>1. received > 0
    BY <1>2 DEF ReadAnswer
  <2>2. QED
    BY <1>2, <2>1 DEF ReadAnswer, Abstract!Return
<1>3. ASSUME DescribeFailure
      PROVE  Abstract!Return("failed") \/ Abstract!Return("unreadable")
  BY <1>3 DEF DescribeFailure, Abstract!Return
<1>4. ASSUME Pause \/ AnswerUnusable \/ UNCHANGED vars
      PROVE  UNCHANGED Abstract!vars
  BY <1>4 DEF Pause, AnswerUnusable, vars
<1>5. \A o \in {"reply", "failed", "unreadable"} : Abstract!Return(o) => Abstract!Next
  BY DEF Abstract!Next, Abstract!Outcomes
<1>6. Abstract!Receive => Abstract!Next
  BY DEF Abstract!Next
<1>7. QED
  BY <1>1, <1>2, <1>3, <1>4, <1>5, <1>6 DEF Next

\* A call of the client is a call as the agents see it: at most MaxRetries
\* requests, then one outcome and nothing more.
THEOREM LlmClientImplementsChatCall == Spec => ImplementsChatCall
<1>1. Init => Abstract!Init
  BY AbstractInit
<1>2. ClientInv /\ [Next]_vars => [Abstract!Next]_(Abstract!vars)
  BY AbstractStep
<1>3. QED
  BY <1>1, <1>2, ClientInvariant, PTL DEF Spec, ImplementsChatCall, Abstract!Spec
=============================================================================
