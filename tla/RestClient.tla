----------------------------- MODULE RestClient -----------------------------
(***************************************************************************)
(* One call of the RunPod REST client (internal/client/runpod/client.go):  *)
(* the operations, each one request or two, and doJSON, the loop that      *)
(* sends a request, judges the answer and repeats a GET.  Calls share no   *)
(* state, so one call is modelled, with what the service does with its     *)
(* writes while the call runs and after it has returned.                   *)
(*                                                                         *)
(* Bodies are kept as far as the code tells them apart; durations are not  *)
(* kept: a backoff ends, and an unanswered request fails within the 30 s   *)
(* of the HTTP client.                                                     *)
(***************************************************************************)
EXTENDS Naturals

CONSTANT
    MaxAttempts     \* maxAttempts, 4 in the code

(* With a single attempt a POST answered by a 5xx would end in an ordinary   *)
(* error: the ambiguity of line 495 is guarded by `attempt < maxAttempts-1'. *)
ASSUME Attempts == MaxAttempts \in Nat /\ MaxAttempts >= 2

Operations == {"get", "find", "create", "update", "deleteTemplate", "deleteEndpoint"}

Writes == {"create", "update", "zero", "delete"}
Requests == {"get", "list"} \union Writes
GETs == Requests \ Writes

(* The answers of the service.  "refused" is any status that is neither 2xx, *)
(* 404, 429 nor 5xx; "retry" is 429 and 5xx.                                 *)
Statuses == {"ok", "notFound", "refused", "retry"}

(* "unreadable": cut off, not closed, or over 1 MiB; "partial": without an   *)
(* ID or a field the operation needs; "foreign": of another object;          *)
(* "without" and "twice": a list with no or two objects of the name.         *)
Bodies == {"unreadable", "empty", "undecodable", "partial", "foreign",
           "without", "twice", "good"}

Answers == [status : Statuses, body : Bodies]
NoAnswer == [status |-> "refused", body |-> "empty"]

VARIABLES
    op,         \* the operation called
    pc,         \* where the call is
    req,        \* the request doJSON is making
    attempt,    \* its attempt
    answer,     \* the answer being judged
    cancelled,  \* ctx is done
    sends,      \* how often each request was put on the wire
    fate,       \* what became of each write at the service
    outcome     \* what the call returned

vars == <<op, pc, req, attempt, answer, cancelled, sends, fate, outcome>>

(* "pending": sent, and neither applied nor refused (yet).                   *)
Fates == {"unsent", "pending", "applied", "refused", "absent"}
Outcomes == {"none", "ok", "error", "ambiguous", "notFound"}

TypeOK ==
    /\ op \in Operations
    /\ pc \in {"start", "send", "wire", "answered", "backoff", "done"}
    /\ req \in Requests
    /\ attempt \in 0 .. MaxAttempts - 1
    /\ answer \in Answers
    /\ cancelled \in BOOLEAN
    /\ sends \in [Requests -> Nat]
    /\ fate \in [Writes -> Fates]
    /\ outcome \in Outcomes

FirstRequest(o) ==
    IF o = "find" THEN "list"
    ELSE IF o = "deleteTemplate" THEN "delete"
    ELSE IF o = "deleteEndpoint" THEN "zero" ELSE o

Init ==
    /\ op \in Operations
    /\ pc = "start"
    /\ req = FirstRequest(op)
    /\ attempt = 0
    /\ answer = NoAnswer
    /\ cancelled = FALSE
    /\ sends = [r \in Requests |-> 0]
    /\ fate = [w \in Writes |-> "unsent"]
    /\ outcome = "none"

(* ------------------------ ways a judgement ends -------------------------- *)

Return(o) ==
    /\ pc' = "done" /\ outcome' = o
    /\ UNCHANGED <<req, attempt>>

(* postAmbiguous: an error that leaves a POST in doubt is ErrCreateAmbiguous. *)
Fail == Return(IF req = "create" THEN "ambiguous" ELSE "error")

(* The next doJSON of the operation. *)
Then(r) ==
    /\ pc' = "send" /\ req' = r /\ attempt' = 0
    /\ UNCHANGED outcome

Sleep ==
    /\ pc' = "backoff"
    /\ UNCHANGED <<req, attempt, outcome>>

(* ------------------------------ the call --------------------------------- *)

Frame == UNCHANGED <<op, cancelled, fate>>

(* safeID, ValidateRunPodID and json.Marshal: nothing is sent when they fail. *)
Begin ==
    /\ pc = "start"
    /\ \/ op # "find" /\ Return("error")
       \/ pc' = "send" /\ UNCHANGED <<req, attempt, outcome>>
    /\ UNCHANGED <<answer, sends>> /\ Frame

(* Mutant: every request without an answer is repeated. *)
OnTransportError_Repeats ==
    \/ attempt = MaxAttempts - 1 /\ Fail
    \/ attempt < MaxAttempts - 1 /\ Sleep

(* Mutant: the last attempt is repeated as well. *)
OnTransportError_OneMore ==
    \/ req \in Writes /\ Fail
    \/ req \in GETs /\ attempt = MaxAttempts /\ Return("error")
    \/ req \in GETs /\ attempt < MaxAttempts /\ Sleep

(* Mutant: a PATCH without an answer is followed by a read. *)
OnTransportError_ReadsBack ==
    \/ req = "update" /\ Then("get")
    \/ req \in Writes \ {"update"} /\ Fail
    \/ req \in GETs /\ attempt = MaxAttempts - 1 /\ Return("error")
    \/ req \in GETs /\ attempt < MaxAttempts - 1 /\ Sleep

(* httpClient.Do failed: only a GET is repeated. *)
OnTransportError ==
    \/ req \in Writes /\ Fail
    \/ req \in GETs /\ attempt = MaxAttempts - 1 /\ Return("error")
    \/ req \in GETs /\ attempt < MaxAttempts - 1 /\ Sleep

Send ==
    /\ pc = "send" /\ ~cancelled
    /\ pc' = "wire"
    /\ sends' = [sends EXCEPT ![req] = @ + 1]
    /\ fate' = IF req \in Writes THEN [fate EXCEPT ![req] = "pending"] ELSE fate
    /\ UNCHANGED <<op, req, attempt, answer, cancelled, outcome>>

(* Do under a cancelled context sends nothing. *)
SendCancelled ==
    /\ pc = "send" /\ cancelled
    /\ OnTransportError
    /\ UNCHANGED <<answer, sends>> /\ Frame

(* No connection, a lost answer, the 30 s timeout, or a cancelled context. *)
TransportError ==
    /\ pc = "wire"
    /\ OnTransportError
    /\ UNCHANGED <<answer, sends>> /\ Frame

(* Mutant: the wait ends only with the context. *)
Wake_OnlyByContext ==
    /\ pc = "backoff" /\ cancelled
    /\ pc' = "send" /\ attempt' = attempt + 1
    /\ UNCHANGED <<req, outcome, answer, sends>> /\ Frame

(* The timer; when ctx is done as well, select takes either. *)
Wake ==
    /\ pc = "backoff"
    /\ pc' = "send" /\ attempt' = attempt + 1
    /\ UNCHANGED <<req, outcome, answer, sends>> /\ Frame

WakeCancelled ==
    /\ pc = "backoff" /\ cancelled
    /\ Return("error")
    /\ UNCHANGED <<answer, sends>> /\ Frame

(* A 2xx answer in the operation's hands. *)
OnSuccess(body) ==
    \/ /\ req = "get"
       /\ Return(IF body = "good" THEN "ok" ELSE "error")
    \/ /\ req = "list"
       /\ Return(CASE body = "good" -> "ok"
                   [] body \in {"empty", "without"} -> "notFound"
                   [] OTHER -> "error")
    \/ /\ req = "create"
       /\ Return(IF body = "good" THEN "ok" ELSE "ambiguous")
    \/ /\ req = "update"
       /\ CASE body = "good" -> Return("ok")
            [] body \in {"empty", "partial"} -> Then("get")
            [] OTHER -> Return("error")
    \/ req = "zero" /\ Then("delete")
    \/ req = "delete" /\ Return("ok")

(* Mutant: a retryable status of a POST is an ordinary API error. *)
OnRetryable_PlainError ==
    \/ attempt = MaxAttempts - 1 /\ Return("error")
    \/ attempt < MaxAttempts - 1 /\ req \in Writes /\ Return("error")
    \/ attempt < MaxAttempts - 1 /\ req \in GETs /\ Sleep

(* 429 and 5xx. *)
OnRetryable ==
    \/ attempt = MaxAttempts - 1 /\ Return("error")
    \/ attempt < MaxAttempts - 1 /\ req \in Writes /\ Fail
    \/ attempt < MaxAttempts - 1 /\ req \in GETs /\ Sleep

(* Mutant: the test for 2xx is missing. *)
OnRefused_FallsThrough == OnSuccess(answer.body)

(* Mutant: DeleteEndpoint goes on whatever the PATCH to zero met. *)
OnRefused_Ignored == IF req = "zero" THEN Then("delete") ELSE Return("error")

OnRefused == Return("error")

(* DeleteEndpoint tolerates a PATCH to zero that finds no Endpoint. *)
OnNotFound == IF req = "zero" THEN Then("delete") ELSE Return("notFound")

(* A status test is reached with a body that was read. *)
OnStatus ==
    CASE answer.status = "notFound" -> OnNotFound
      [] answer.status = "retry" -> OnRetryable
      [] answer.status = "refused" -> OnRefused
      [] answer.status = "ok" ->
           IF answer.body = "undecodable" /\ req \notin {"zero", "delete"}
           THEN Fail ELSE OnSuccess(answer.body)

Judge ==
    /\ pc = "answered"
    /\ IF answer.body = "unreadable" THEN Fail ELSE OnStatus
    /\ UNCHANGED <<answer, sends>> /\ Frame

(* ------------------------------ the service ------------------------------ *)

(* External: what RunPod does with a write it has received, also after the   *)
(* client has given it up, and the answers it gives: success after it has    *)
(* applied the write, a refusal or a 404 instead of it, and 429 or 5xx       *)
(* whether it applies the write or not.                                      *)
Apply(w) ==
    /\ fate[w] = "pending"
    /\ fate' = [fate EXCEPT ![w] = "applied"]
    /\ UNCHANGED <<op, pc, req, attempt, answer, cancelled, sends, outcome>>

Answer(a) ==
    /\ pc = "wire"
    /\ a.body \in {"without", "twice"} => req = "list"
    /\ a.body = "foreign" => req # "list"
    /\ \/ /\ req \in GETs
          /\ UNCHANGED fate
       \/ /\ req \in Writes
          /\ a.status = "ok" => fate[req] = "applied"
          /\ a.status \in {"ok", "retry"}
          /\ UNCHANGED fate
       \/ /\ req \in Writes /\ fate[req] = "pending"
          /\ a.status = "refused" /\ fate' = [fate EXCEPT ![req] = "refused"]
       \/ /\ req \in Writes /\ fate[req] = "pending"
          /\ a.status = "notFound" /\ fate' = [fate EXCEPT ![req] = "absent"]
    /\ pc' = "answered" /\ answer' = a
    /\ UNCHANGED <<op, req, attempt, cancelled, sends, outcome>>

(* The caller's context ends: a reconcile deadline or a shutdown. *)
Cancel ==
    /\ pc # "done" /\ ~cancelled
    /\ cancelled' = TRUE
    /\ UNCHANGED <<op, pc, req, attempt, answer, sends, fate, outcome>>

ClientStep == Begin \/ Send \/ SendCancelled \/ TransportError \/ Wake \/ WakeCancelled \/ Judge

ServiceStep == \/ \E w \in Writes : Apply(w)
               \/ \E a \in Answers : Answer(a)

Next == ClientStep \/ ServiceStep \/ Cancel

Spec == Init /\ [][Next]_vars

(* A goroutine in the call is scheduled, a request ends by an answer or by   *)
(* the HTTP client's timeout, a timer fires.  The service owes nothing.      *)
FairSpec == Spec /\ WF_vars(ClientStep)
-----------------------------------------------------------------------------
(***************************************************************************)
(* Properties                                                              *)
(***************************************************************************)

(* A call sends each of its writes at most once and repeats a GET within the *)
(* attempts of doJSON (client.go:445, 464-473): no chargeable POST, rollout  *)
(* or deletion is doubled by a retry.                                        *)
RetriesOnlyReads ==
    /\ \A w \in Writes : sends[w] <= 1
    /\ \A r \in GETs : sends[r] <= MaxAttempts

(* While a write of the call is in doubt the call sends nothing more: what   *)
(* happened must be observed by a later reconcile (client.go:464-468).       *)
NothingAfterDoubt ==
    [][\A r \in Requests :
          sends'[r] > sends[r] => \A w \in Writes : fate[w] # "pending"]_vars

(* A create that returns neither an object nor ErrCreateAmbiguous has not    *)
(* created anything and never will, however late the service is: the caller  *)
(* may POST again (client.go:458-462, 491-497, 520-528).                     *)
RefusalIsFinal ==
    op = "create" /\ pc = "done" /\ outcome \notin {"ok", "ambiguous"}
        => fate["create"] \in {"unsent", "refused", "absent"}

(* Success is returned only for writes the service applied, and ErrNotFound  *)
(* from a deletion, which the controllers take for "deleted", only when the  *)
(* DELETE itself found nothing (client.go:325-328, 488-515).                 *)
OutcomeIsTrue ==
    /\ outcome = "ok" => fate["zero"] \in {"unsent", "applied", "absent"}
    /\ outcome = "ok" => (op \in {"create", "update"} => fate[op] = "applied")
    /\ outcome = "ok" /\ op \in {"deleteTemplate", "deleteEndpoint"} => fate["delete"] = "applied"
    /\ outcome = "notFound" /\ op \in {"deleteTemplate", "deleteEndpoint"} => fate["delete"] = "absent"

(* The DELETE of an Endpoint leaves only after its worker bounds were set to *)
(* zero or the Endpoint was not found (client.go:320-328).                   *)
ZeroBeforeDelete ==
    op = "deleteEndpoint" /\ sends["delete"] > 0 => fate["zero"] \in {"applied", "absent"}

(* Every call returns, cancelled or not, answered or not (client.go:445).    *)
Returns == <>(pc = "done")
=============================================================================
