---------------------------- MODULE ProxyProofs ----------------------------
(***************************************************************************)
(* proxyChat as a whole behaves like its two halves: what ChatRequestProofs *)
(* and ResponseCopyProofs show of them holds of a request on its way       *)
(* through the router, and only what was accepted gets upstream.           *)
(***************************************************************************)
EXTENDS Proxy, ChatRequestProofs, ResponseCopyProofs

(* To the judge of the request the rest of proxyChat is invisible            *)
(* (router.go:372-397): ProxySpec implements ChatSpec.                       *)
LEMMA ProxyJudges == ProxySpec => ChatSpec
<1>1. ProxyInit => ChatInit
  BY DEF ProxyInit
<1>2. [ProxyNext]_proxyVars => [ChatNext]_chatVars
  BY DEF ProxyNext, Judging, Forward, Copying, proxyVars
<1> QED BY <1>1, <1>2, PTL DEF ProxySpec, ChatSpec

(* And so is, to the copy of the answer, how the request came to be sent:    *)
(* ProxySpec implements CopySpec.                                            *)
LEMMA ProxyCopies == ProxySpec => CopySpec
<1>1. ProxyInit => CopyInit
  BY DEF ProxyInit
<1>2. [ProxyNext]_proxyVars => [CopyNext]_copyVars
  BY DEF ProxyNext, Judging, Forward, Copying, proxyVars
<1> QED BY <1>1, <1>2, PTL DEF ProxySpec, CopySpec

(* A request leaves for the worker only after it was accepted, and nothing   *)
(* is copied to the client before the worker has answered.                   *)
Stages ==
    /\ upstream # "none" => phase = "accepted"
    /\ upstream # "answered" => delivered = 0

(* No test is left, or repeated, once a request is on its way. *)
LEMMA StagesKept == ProxySpec => []Stages
<1>1. ProxyInit => Stages
  BY DEF ProxyInit, CopyInit, Stages
<1>2. Stages /\ [ProxyNext]_proxyVars => Stages'
  <2> SUFFICES ASSUME Stages, [ProxyNext]_proxyVars PROVE Stages'
    OBVIOUS
  <2>1. CASE Judging
    <3>1. phase # "accepted"
      BY <2>1 DEF Judging, ChatNext, ReadBody, Decode, CheckFields, NextTool, RejectTool,
         ToolsDone, EnterNode, LeaveNode, CheckMessage, MessagesDone, CheckResults,
         CheckChoice, ScanCanonical, Test
    <3> QED BY <2>1, <3>1 DEF Judging, Stages, copyVars
  <2>2. CASE Forward
    BY <2>2 DEF Forward, Stages, chatVars, copyVars
  <2>3. CASE Copying
    BY <2>3 DEF Copying, Stages, chatVars
  <2>4. CASE UNCHANGED proxyVars
    BY <2>4 DEF proxyVars, chatVars, copyVars, Stages
  <2> QED BY <2>1, <2>2, <2>3, <2>4 DEF ProxyNext
<1> QED BY <1>1, <1>2, PTL DEF ProxySpec

(* Whatever reaches a worker is a judged request: its tools are good, its    *)
(* annotations are deleted, its results answer its calls and it carries no   *)
(* credential-like text that a scan of its encodings shows.                  *)
ForwardedIsJudged ==
    upstream # "none" =>
       /\ phase = "accepted" /\ GoodTools(payload)
       /\ AnnotationsStripped /\ ResultsAnswerCalls /\ NoCredentialForwarded

(* No interleaving of the request's validation with the upstream call sends  *)
(* an unjudged body (router.go:372-426).                                     *)
THEOREM OnlyJudgedForwarded == ProxySpec => []ForwardedIsJudged
<1>1. ASSUME Stages, ToolsVerdict, AnnotationsStripped, ResultsAnswerCalls,
             NoCredentialForwarded
      PROVE  ForwardedIsJudged
  <2>1. upstream # "none" => phase = "accepted" /\ GoodTools(payload)
    BY <1>1 DEF Stages, ToolsVerdict
  <2> QED BY <1>1, <2>1 DEF ForwardedIsJudged
<1> QED BY <1>1, StagesKept, ProxyJudges, VerdictRight, Cleaned, Answered, NoCredential, PTL

(* The client never gets more than the limit, and the trailer of the whole   *)
(* exchange says how the copy ended.                                         *)
THEOREM ExchangeBounded == ProxySpec => [](WithinLimit /\ TrailerTells)
BY ProxyCopies, Bounded, HonestTrailer, PTL
=============================================================================
