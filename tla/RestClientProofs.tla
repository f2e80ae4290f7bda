-------------------------- MODULE RestClientProofs --------------------------
(***************************************************************************)
(* The safety properties of one call of the RunPod client, for every       *)
(* number of attempts (at least two).  The inductive invariant CallInv     *)
(* says which requests an operation makes, that everything before the      *)
(* current request is settled and everything after it unsent, and that the *)
(* answer being judged tells the truth about the write it answers.         *)
(***************************************************************************)
EXTENDS RestClient, TLAPS

(* The requests of an operation. *)
Path ==
    /\ op = "get" => req = "get"
    /\ op = "find" => req = "list"
    /\ op = "create" => req = "create"
    /\ op = "update" => req \in {"update", "get"}
    /\ op = "deleteTemplate" => req = "delete"
    /\ op = "deleteEndpoint" => req \in {"zero", "delete"}

(* The first of two requests is settled when the second is made. *)
Settled ==
    /\ op = "update" /\ req = "get" => fate["update"] = "applied"
    /\ op = "deleteEndpoint" /\ req = "delete" => fate["zero"] \in {"applied", "absent"}

FirstOf(w) ==
    \/ op = "update" /\ req = "get" /\ w = "update"
    \/ op = "deleteEndpoint" /\ req = "delete" /\ w = "zero"

Others ==
    /\ \A w \in Writes : w # req =>
         \/ sends[w] = 0 /\ fate[w] = "unsent"
         \/ sends[w] = 1 /\ FirstOf(w)
    /\ \A r \in GETs : r # req => sends[r] = 0

CurrentWrite ==
    req \in Writes =>
       /\ attempt = 0 /\ pc # "backoff"
       /\ pc \in {"start", "send"} => sends[req] = 0 /\ fate[req] = "unsent"
       /\ pc = "wire" => fate[req] \in {"pending", "applied"}
       /\ pc \in {"wire", "answered"} => sends[req] = 1
       /\ pc = "done" => sends[req] <= 1
       /\ pc = "answered" =>
            /\ answer.status = "ok" => fate[req] = "applied"
            /\ answer.status = "refused" => fate[req] = "refused"
            /\ answer.status = "notFound" => fate[req] = "absent"

CurrentRead ==
    req \in GETs =>
       /\ sends[req] <= attempt + 1
       /\ pc \in {"start", "send"} => sends[req] <= attempt
       /\ pc = "backoff" => attempt < MaxAttempts - 1

Ended ==
    /\ pc = "done" <=> outcome # "none"
    /\ outcome = "ok" /\ req \in Writes => fate[req] = "applied"
    /\ outcome = "notFound" /\ req = "delete" => fate[req] = "absent"
    /\ outcome \in {"error", "notFound"} /\ req = "create" =>
          fate[req] \in {"unsent", "refused", "absent"}
    /\ outcome = "ok" => req # "zero"
    /\ outcome = "notFound" => req # "zero"

CallInv == TypeOK /\ Path /\ Settled /\ Others /\ CurrentWrite /\ CurrentRead /\ Ended

(* No call has been made at first. *)
LEMMA CallInit == Init => CallInv
  <1> USE Attempts DEF Init, Writes, GETs, Requests, Operations, FirstRequest
  <1> SUFFICES ASSUME Init PROVE CallInv
    OBVIOUS
  <1>0. req \in Requests /\ answer \in Answers
    BY DEF Answers, NoAnswer, Statuses, Bodies
  <1>1. TypeOK
    <2>1. sends \in [Requests -> Nat] /\ fate \in [Writes -> Fates]
      BY DEF Fates
    <2>2. attempt \in 0 .. MaxAttempts - 1
      OBVIOUS
    <2> QED BY <1>0, <2>1, <2>2 DEF TypeOK, Outcomes
  <1>2. Path /\ Settled
    BY DEF Path, Settled
  <1>3. Others /\ CurrentWrite /\ CurrentRead /\ Ended
    BY DEF Others, CurrentWrite, CurrentRead, Ended, FirstOf
  <1> QED BY <1>1, <1>2, <1>3 DEF CallInv

(* A step that only returns, with an outcome that is true of the write.      *)
LEMMA ReturnKeeps ==
    ASSUME CallInv, pc # "done", NEW o \in Outcomes \ {"none"}, Return(o), Frame,
           UNCHANGED <<answer, sends>>,
           o = "ok" => req # "zero" /\ (req \in Writes => fate[req] = "applied"),
           o = "notFound" => req # "zero" /\ (req = "delete" => fate[req] = "absent"),
           o \in {"error", "notFound"} /\ req = "create" =>
              fate[req] \in {"unsent", "refused", "absent"}
    PROVE  CallInv'
  <1> USE DEF CallInv, Return, Frame
  <1>1. TypeOK'
    BY DEF TypeOK
  <1>2. Path' /\ Settled' /\ Others'
    BY DEF Path, Settled, Others, FirstOf
  <1>3. CurrentWrite' /\ CurrentRead'
    BY DEF CurrentWrite, CurrentRead, TypeOK
  <1>4. Ended'
    BY DEF Ended
  <1> QED BY <1>1, <1>2, <1>3, <1>4

(* A failure leaves a POST ambiguous and anything else in error. *)
LEMMA FailKeeps ==
    ASSUME CallInv, pc # "done", Fail, Frame, UNCHANGED <<answer, sends>>
    PROVE  CallInv'
  <1>1. CASE req = "create"
    <2>1. Return("ambiguous")
      BY <1>1 DEF Fail
    <2> QED BY <2>1, ReturnKeeps DEF Outcomes
  <1>2. CASE req # "create"
    <2>1. Return("error")
      BY <1>2 DEF Fail
    <2> QED BY <2>1, <1>2, ReturnKeeps DEF Outcomes
  <1> QED BY <1>1, <1>2

(* A backoff is taken for a GET with an attempt left. *)
LEMMA SleepKeeps ==
    ASSUME CallInv, pc # "done", req \in GETs, attempt < MaxAttempts - 1, Sleep, Frame,
           UNCHANGED <<answer, sends>>
    PROVE  CallInv'
  <1> USE DEF CallInv, Sleep, Frame
  <1>1. TypeOK'
    BY DEF TypeOK
  <1>2. Path' /\ Settled' /\ Others'
    BY DEF Path, Settled, Others, FirstOf
  <1>3. CurrentWrite' /\ CurrentRead'
    BY DEF CurrentWrite, CurrentRead, TypeOK, GETs
  <1>4. Ended'
    BY DEF Ended
  <1> QED BY <1>1, <1>2, <1>3, <1>4

(* The second request is made once the first is settled. *)
LEMMA ThenKeeps ==
    ASSUME CallInv, pc = "answered", NEW r, Then(r), Frame, UNCHANGED <<answer, sends>>,
           \/ r = "get" /\ req = "update" /\ fate[req] = "applied"
           \/ r = "delete" /\ req = "zero" /\ fate[req] \in {"applied", "absent"}
    PROVE  CallInv'
  <1> USE Attempts DEF CallInv, Then, Frame
  <1>0. /\ r = "get" => op = "update"
        /\ r = "delete" => op = "deleteEndpoint"
    BY DEF TypeOK, Path, Operations
  <1>1. TypeOK'
    BY DEF TypeOK, Requests, Writes
  <1>2. Path' /\ Settled'
    BY <1>0 DEF Path, Settled
  <1>3. Others'
    <2>1. req \in Writes /\ sends[req] = 1
      BY DEF CurrentWrite, Writes
    <2>2. ASSUME NEW w \in Writes, w # r
          PROVE  \/ sends[w] = 0 /\ fate[w] = "unsent"
                 \/ sends[w] = 1 /\ FirstOf(w)'
      <3>1. CASE w = req
        BY <3>1, <2>1, <2>2, <1>0 DEF FirstOf
      <3>2. CASE w # req
        <4>1. ~FirstOf(w)
          BY DEF FirstOf
        <4> QED BY <3>2, <4>1 DEF Others
      <3> QED BY <3>1, <3>2
    <2>3. ASSUME NEW g \in GETs, g # r PROVE sends[g] = 0
      BY <2>1, <2>3 DEF Others, GETs
    <2> QED BY <2>2, <2>3 DEF Others
  <1>4. CurrentWrite' /\ CurrentRead'
    BY <1>0 DEF CurrentWrite, CurrentRead, Others, FirstOf, Writes, GETs, Requests, TypeOK
  <1>5. Ended'
    BY DEF Ended
  <1> QED BY <1>1, <1>2, <1>3, <1>4, <1>5

(* An error of the transport: a doubt for a write, a retry for a GET. *)
LEMMA TransportKeeps ==
    ASSUME CallInv, pc \in {"send", "wire"}, OnTransportError, Frame,
           UNCHANGED <<answer, sends>>
    PROVE  CallInv'
  <1>1. CASE Fail
    BY <1>1, FailKeeps
  <1>2. CASE req \in GETs /\ Return("error")
    BY <1>2, ReturnKeeps DEF Outcomes, GETs, Writes
  <1>3. CASE req \in GETs /\ attempt < MaxAttempts - 1 /\ Sleep
    BY <1>3, SleepKeeps
  <1> QED BY <1>1, <1>2, <1>3 DEF OnTransportError

(* An answer that says ok was really applied. *)
LEMMA SuccessKeeps ==
    ASSUME CallInv, pc = "answered", answer.status = "ok", OnSuccess(answer.body),
           Frame, UNCHANGED <<answer, sends>>
    PROVE  CallInv'
  <1>0. req \in Writes => fate[req] = "applied"
    BY DEF CallInv, CurrentWrite
  <1>1. CASE req = "get"
    <2>1. Return("ok") \/ Return("error")
      BY <1>1 DEF OnSuccess
    <2> QED BY <1>0, <1>1, <2>1, ReturnKeeps DEF Outcomes
  <1>2. CASE req = "list"
    <2>1. Return("ok") \/ Return("error") \/ Return("notFound")
      BY <1>2 DEF OnSuccess
    <2> QED BY <1>0, <1>2, <2>1, ReturnKeeps DEF Outcomes
  <1>3. CASE req = "create"
    <2>1. Return("ok") \/ Return("ambiguous")
      BY <1>3 DEF OnSuccess
    <2> QED BY <1>0, <1>3, <2>1, ReturnKeeps DEF Outcomes, Writes
  <1>4. CASE req = "update"
    <2>1. Return("ok") \/ Return("error") \/ Then("get")
      BY <1>4 DEF OnSuccess
    <2> QED BY <1>0, <1>4, <2>1, ReturnKeeps, ThenKeeps DEF Outcomes, Writes
  <1>5. CASE req = "zero"
    <2>1. Then("delete")
      BY <1>5 DEF OnSuccess
    <2> QED BY <1>0, <1>5, <2>1, ThenKeeps DEF Writes
  <1>6. CASE req = "delete"
    <2>1. Return("ok")
      BY <1>6 DEF OnSuccess
    <2> QED BY <1>0, <1>6, <2>1, ReturnKeeps DEF Outcomes, Writes
  <1> QED BY <1>1, <1>2, <1>3, <1>4, <1>5, <1>6 DEF CallInv, TypeOK, Requests, Writes

(* The client draws its conclusion from an answer. *)
LEMMA JudgeKeeps == ASSUME CallInv, Judge PROVE CallInv'
  <1>0. pc = "answered" /\ Frame /\ UNCHANGED <<answer, sends>>
    BY DEF Judge
  <1>w. req \in Writes =>
          /\ attempt = 0
          /\ answer.status = "refused" => fate[req] = "refused"
          /\ answer.status = "notFound" => fate[req] = "absent"
    BY <1>0 DEF CallInv, CurrentWrite
  <1>1. CASE answer.body = "unreadable"
    BY <1>0, <1>1, FailKeeps DEF Judge
  <1>2. CASE answer.body # "unreadable" /\ answer.status = "notFound"
    <2>1. OnNotFound
      BY <1>2 DEF Judge, OnStatus
    <2>2. CASE req = "zero"
      BY <1>0, <1>w, <1>2, <2>1, <2>2, ThenKeeps DEF OnNotFound, Writes
    <2>3. CASE req # "zero"
      BY <1>0, <1>w, <1>2, <2>1, <2>3, ReturnKeeps DEF OnNotFound, Outcomes, Writes
    <2> QED BY <2>2, <2>3
  <1>3. CASE answer.body # "unreadable" /\ answer.status = "retry"
    <2>1. OnRetryable
      BY <1>3 DEF Judge, OnStatus
    <2>2. CASE req \in Writes
      <3>1. Fail
        BY <1>w, <2>1, <2>2, Attempts DEF OnRetryable, Writes, GETs
      <3> QED BY <1>0, <3>1, FailKeeps
    <2>3. CASE req \in GETs
      <3>1. Return("error") \/ (attempt < MaxAttempts - 1 /\ Sleep)
        BY <2>1, <2>3 DEF OnRetryable, GETs
      <3> QED BY <1>0, <2>3, <3>1, ReturnKeeps, SleepKeeps DEF Outcomes, GETs, Writes
    <2> QED BY <2>2, <2>3 DEF CallInv, TypeOK, GETs
  <1>4. CASE answer.body # "unreadable" /\ answer.status = "refused"
    <2>1. Return("error")
      BY <1>4 DEF Judge, OnStatus, OnRefused
    <2> QED BY <1>0, <1>w, <1>4, <2>1, ReturnKeeps DEF Outcomes, Writes
  <1>5. CASE answer.body # "unreadable" /\ answer.status = "ok"
    <2>1. Fail \/ OnSuccess(answer.body)
      BY <1>5 DEF Judge, OnStatus
    <2> QED BY <1>0, <1>5, <2>1, FailKeeps, SuccessKeeps
  <1> QED BY <1>1, <1>2, <1>3, <1>4, <1>5 DEF CallInv, TypeOK, Answers, Statuses

(* A call begins. *)
LEMMA BeginKeeps == ASSUME CallInv, Begin PROVE CallInv'
  <1>0. pc = "start" /\ Frame /\ UNCHANGED <<answer, sends>>
    BY DEF Begin
  <1>1. CASE Return("error")
    <2>1. req \in Writes => fate[req] = "unsent"
      BY <1>0 DEF CallInv, CurrentWrite
    <2> QED BY <1>0, <1>1, <2>1, ReturnKeeps DEF Outcomes, Writes
  <1>2. CASE pc' = "send" /\ UNCHANGED <<req, attempt, outcome>>
    <2> USE <1>0, <1>2 DEF CallInv, Frame
    <2>1. TypeOK'
      BY DEF TypeOK
    <2>2. Path' /\ Settled' /\ Others'
      BY DEF Path, Settled, Others, FirstOf
    <2>3. CurrentWrite' /\ CurrentRead'
      BY DEF CurrentWrite, CurrentRead
    <2>4. Ended'
      BY DEF Ended
    <2> QED BY <2>1, <2>2, <2>3, <2>4
  <1> QED BY <1>1, <1>2 DEF Begin

(* A request is put on the wire. *)
LEMMA SendKeeps == ASSUME CallInv, Send PROVE CallInv'
  <1> USE DEF Send, CallInv
  <1>t. sends \in [Requests -> Nat] /\ req \in Requests /\ fate \in [Writes -> Fates]
    BY DEF TypeOK
  <1>s. /\ sends'[req] = sends[req] + 1
        /\ \A r \in Requests : r # req => sends'[r] = sends[r]
        /\ req \in Writes => fate'[req] = "pending"
        /\ \A w \in Writes : w # req => fate'[w] = fate[w]
    BY <1>t
  <1>1. TypeOK'
    BY <1>t DEF TypeOK, Fates
  <1>2. Path' /\ Settled'
    BY <1>s DEF Path, Settled, Writes
  <1>3. Others'
    BY <1>s, <1>t DEF Others, FirstOf, GETs, Requests
  <1>4. CurrentWrite' /\ CurrentRead'
    BY <1>s, <1>t DEF CurrentWrite, CurrentRead, TypeOK, GETs
  <1>5. Ended'
    BY DEF Ended
  <1> QED BY <1>1, <1>2, <1>3, <1>4, <1>5

(* The backoff is over. *)
LEMMA WakeKeeps == ASSUME CallInv, Wake PROVE CallInv'
  <1> USE Attempts DEF Wake, CallInv, Frame
  <1>0. req \in GETs /\ attempt < MaxAttempts - 1 /\ attempt \in Nat
    BY DEF CurrentWrite, CurrentRead, TypeOK, GETs
  <1>1. TypeOK'
    BY <1>0 DEF TypeOK
  <1>2. Path' /\ Settled' /\ Others'
    BY DEF Path, Settled, Others, FirstOf
  <1>3. CurrentWrite' /\ CurrentRead'
    BY <1>0 DEF CurrentWrite, CurrentRead, GETs, TypeOK
  <1>4. Ended'
    BY DEF Ended
  <1> QED BY <1>1, <1>2, <1>3, <1>4

(* The backoff is cut short. *)
LEMMA WakeCancelledKeeps == ASSUME CallInv, WakeCancelled PROVE CallInv'
  <1>1. req # "create" /\ pc = "backoff"
    BY DEF WakeCancelled, CallInv, CurrentWrite, Writes
  <1> QED BY <1>1, ReturnKeeps DEF WakeCancelled, Outcomes

(* The server applies a write. *)
LEMMA ApplyKeeps == ASSUME CallInv, NEW w \in Writes, Apply(w) PROVE CallInv'
  <1> USE DEF Apply, CallInv
  <1>s. /\ fate \in [Writes -> Fates] /\ fate'[w] = "applied" /\ fate[w] = "pending"
        /\ \A v \in Writes : v # w => fate'[v] = fate[v]
    BY DEF TypeOK
  <1>1. TypeOK'
    BY <1>s DEF TypeOK, Fates
  <1>2. Path' /\ Settled'
    BY <1>s DEF Path, Settled, Writes
  <1>3. Others'
    BY <1>s DEF Others, FirstOf
  <1>4. CurrentWrite' /\ CurrentRead'
    BY <1>s DEF CurrentWrite, CurrentRead
  <1>5. Ended'
    BY <1>s DEF Ended, Writes
  <1> QED BY <1>1, <1>2, <1>3, <1>4, <1>5

(* The server answers. *)
LEMMA AnswerKeeps == ASSUME CallInv, NEW a \in Answers, Answer(a) PROVE CallInv'
  <1> USE DEF Answer, CallInv
  <1>s. /\ fate \in [Writes -> Fates] /\ answer' = a /\ pc = "wire"
        /\ \A v \in Writes : v # req => fate'[v] = fate[v]
        /\ req \in Writes =>
             /\ a.status = "ok" => fate'[req] = "applied"
             /\ a.status = "refused" => fate'[req] = "refused"
             /\ a.status = "notFound" => fate'[req] = "absent"
    BY DEF TypeOK, GETs
  <1>1. TypeOK'
    BY <1>s DEF TypeOK, Fates
  <1>2. Path' /\ Settled'
    BY <1>s DEF Path, Settled, Writes
  <1>3. Others'
    BY <1>s DEF Others, FirstOf
  <1>4. CurrentWrite' /\ CurrentRead'
    BY <1>s DEF CurrentWrite, CurrentRead
  <1>5. Ended'
    BY <1>s DEF Ended, TypeOK
  <1> QED BY <1>1, <1>2, <1>3, <1>4, <1>5

(* Every step preserves the invariant. *)
LEMMA CallStep == CallInv /\ [Next]_vars => CallInv'
  <1> SUFFICES ASSUME CallInv, [Next]_vars PROVE CallInv'
    OBVIOUS
  <1>1. CASE SendCancelled \/ TransportError
    BY <1>1, TransportKeeps DEF SendCancelled, TransportError
  <1>2. CASE UNCHANGED vars \/ Cancel
    <2> USE <1>2 DEF vars, Cancel, CallInv
    <2>1. TypeOK'
      BY DEF TypeOK
    <2>2. Path' /\ Settled' /\ Others'
      BY DEF Path, Settled, Others, FirstOf
    <2>3. CurrentWrite' /\ CurrentRead'
      BY DEF CurrentWrite, CurrentRead
    <2>4. Ended'
      BY DEF Ended
    <2> QED BY <2>1, <2>2, <2>3, <2>4
  <1> QED
    BY <1>1, <1>2, BeginKeeps, SendKeeps, WakeKeeps, WakeCancelledKeeps, JudgeKeeps,
       ApplyKeeps, AnswerKeeps
    DEF Next, ClientStep, ServiceStep

(* What the client knows of its calls is an inductive invariant. *)
LEMMA CallCorrect == Spec => []CallInv
  BY CallInit, CallStep, PTL DEF Spec

(* Type correctness: among others the attempt counter stays within the loop, *)
(* so the error behind the loop is never returned (client.go:445, 517).      *)
THEOREM CallTypes == Spec => []TypeOK
  <1>1. CallInv => TypeOK
    BY DEF CallInv
  <1> QED BY <1>1, CallCorrect, PTL

(* No write is sent twice and no GET more often than maxAttempts             *)
(* (client.go:458-473, 491-505).                                             *)
THEOREM WritesOnce == Spec => []RetriesOnlyReads
  <1>1. CallInv => RetriesOnlyReads
    <2> SUFFICES ASSUME CallInv PROVE RetriesOnlyReads
      OBVIOUS
    <2>1. ASSUME NEW w \in Writes PROVE sends[w] <= 1
      BY DEF CallInv, Others, CurrentWrite, TypeOK
    <2>2. ASSUME NEW r \in GETs PROVE sends[r] <= MaxAttempts
      BY Attempts DEF CallInv, Others, CurrentRead, TypeOK
    <2> QED BY <2>1, <2>2 DEF RetriesOnlyReads
  <1> QED BY <1>1, CallCorrect, PTL

(* A create that is neither successful nor ambiguous never takes effect      *)
(* (client.go:458-462, 491-497, 520-528).                                    *)
THEOREM RefusedCreates == Spec => []RefusalIsFinal
  <1>1. CallInv => RefusalIsFinal
    BY DEF CallInv, TypeOK, Outcomes, Path, Ended, RefusalIsFinal
  <1> QED BY <1>1, CallCorrect, PTL

(* What a call returns about its writes is so (client.go:325-328, 488-515).  *)
THEOREM TrueOutcomes == Spec => []OutcomeIsTrue
  <1>1. CallInv => OutcomeIsTrue
    <2> SUFFICES ASSUME CallInv PROVE OutcomeIsTrue
      OBVIOUS
    <2>1. outcome = "ok" => fate["zero"] \in {"unsent", "applied", "absent"}
      BY DEF CallInv, Ended, Others, FirstOf, Settled, Writes
    <2>2. outcome = "ok" => (op \in {"create", "update"} => fate[op] = "applied")
      BY DEF CallInv, Path, Ended, Settled, Writes
    <2>3. op \in {"deleteTemplate", "deleteEndpoint"} =>
            /\ outcome = "ok" => fate["delete"] = "applied"
            /\ outcome = "notFound" => fate["delete"] = "absent"
      BY DEF CallInv, Path, Ended, Writes
    <2> QED BY <2>1, <2>2, <2>3 DEF OutcomeIsTrue
  <1> QED BY <1>1, CallCorrect, PTL

(* An Endpoint is deleted only at zero workers (client.go:320-328).          *)
THEOREM ZeroedFirst == Spec => []ZeroBeforeDelete
  <1>1. CallInv => ZeroBeforeDelete
    BY DEF CallInv, TypeOK, Path, Settled, Others, FirstOf, Writes, ZeroBeforeDelete
  <1> QED BY <1>1, CallCorrect, PTL

(* Nothing is sent while a write is in doubt (client.go:464-468).            *)
THEOREM DoubtStops == Spec => NothingAfterDoubt
  <1>1. CallInv /\ [Next]_vars =>
          [\A r \in Requests : sends'[r] > sends[r] =>
              \A w \in Writes : fate[w] # "pending"]_vars
    <2> SUFFICES ASSUME CallInv, Next, NEW r \in Requests, sends'[r] > sends[r],
                        NEW w \in Writes
                 PROVE  fate[w] # "pending"
      BY DEF vars
    <2>1. sends[r] \in Nat
      BY DEF CallInv, TypeOK
    <2>2. CASE Send
      BY <2>2 DEF Send, CallInv, CurrentWrite, Others, FirstOf, Settled
    <2>3. CASE UNCHANGED sends
      BY <2>1, <2>3
    <2>4. Send \/ UNCHANGED sends
      BY DEF Next, ClientStep, ServiceStep, Begin, SendCancelled, TransportError, Wake,
             WakeCancelled, Judge, Apply, Answer, Cancel
    <2> QED BY <2>2, <2>3, <2>4
  <1> QED BY <1>1, CallCorrect, PTL DEF Spec, NothingAfterDoubt
=============================================================================
