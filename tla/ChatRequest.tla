---------------------------- MODULE ChatRequest ----------------------------
(***************************************************************************)
(* What model-router does with the body of a chat request before it sends  *)
(* it on: proxyChat's tests and validateChatPayload                        *)
(* (internal/router/router.go, request.go).                                *)
(*                                                                         *)
(* A payload is kept as far as the tests relate its parts: the tools with  *)
(* the trees of their schemas, the messages with the calls and results in  *)
(* them, and where credential-like text is hidden.  Tests of a single      *)
(* field (types, ranges, lengths, known keys) are one flag per place.      *)
(*                                                                         *)
(* A schema is the set of its nodes' paths from the root.  The properties  *)
(* of an object are visited in any order, as Go ranges over a map.         *)
(***************************************************************************)
EXTENDS Integers, Sequences, FiniteSets

CONSTANTS
    Payloads,       \* the request bodies considered
    MaxTools, MaxMessages, MaxCalls,
    MaxSchemaNodes, \* maxSchemaNodes: the nodes of all tools together
    MaxSchemaDepth  \* maxSchemaDepth

(***************************************************************************)
(* payload.raw         the body is read and within 256 KiB                 *)
(*        .json        it is a JSON object without secret-labelled keys    *)
(*        .fields      the top-level fields are known and within bounds    *)
(*        .text        credential-like text outside of arguments: "none",  *)
(*                     "plain", "escaped" by JSON, or "reescaped": with    *)
(*                     white space that json.Marshal escapes again, which  *)
(*                     credentialPattern does not match in any encoding    *)
(*        .hasTools, .tools   a sequence of [ok, name, schema]             *)
(*        .messages    a sequence of [role, ok, calls, ref]                *)
(*        .choice      tool_choice: "any", "invalid", or a function        *)
(* schema [nodes, dialect, default, early, late]: the paths, and those     *)
(*        that have $schema, a default, and a fault found before or after  *)
(*        the node's children                                              *)
(* call   [id, name, arguments, credential]: arguments: they decode to one *)
(*        object within maxArgumentDepth, maxArgumentNodes and the text    *)
(*        budget; credential: "none", "plain", "escaped" by the body's     *)
(*        JSON, "inner": by the JSON of the arguments themselves, or       *)
(*        "reescaped"                                                      *)
(***************************************************************************)
Path == Seq(STRING)
SchemaType == [nodes : SUBSET Path, dialect : SUBSET Path, default : SUBSET Path,
               early : SUBSET Path, late : SUBSET Path]
ToolType == [ok : BOOLEAN, name : STRING, schema : SchemaType]
CallType == [id : STRING, name : STRING, arguments : BOOLEAN,
             credential : {"none", "plain", "escaped", "inner", "reescaped"}]
MessageType == [role : STRING, ok : BOOLEAN, calls : Seq(CallType), ref : STRING]
PayloadType == [raw : BOOLEAN, json : BOOLEAN, fields : BOOLEAN,
                text : {"none", "plain", "escaped", "reescaped"}, hasTools : BOOLEAN,
                tools : Seq(ToolType), messages : Seq(MessageType), choice : STRING]

(* A finite tree: it has a root, and every other node has its parent. *)
IsTree(schema) ==
    /\ IsFiniteSet(schema.nodes) /\ <<>> \in schema.nodes
    /\ \A n \in schema.nodes : n # <<>> => SubSeq(n, 1, Len(n) - 1) \in schema.nodes
    /\ schema.dialect \union schema.default \union schema.early \union schema.late
          \subseteq schema.nodes

ASSUME ChatAssumption ==
    /\ MaxTools \in Nat /\ MaxMessages \in Nat /\ MaxCalls \in Nat
    /\ MaxSchemaNodes \in Nat /\ MaxSchemaDepth \in Nat
    /\ Payloads \subseteq PayloadType
    /\ \A p \in Payloads : \A t \in 1 .. Len(p.tools) : IsTree(p.tools[t].schema)

VARIABLES
    payload,    \* the body
    phase,         \* the test that is next
    index,      \* the tool or message that is next
    stack,      \* the schema nodes entered: [at, todo]
    budget,     \* nodes left for the schemas of this request
    stripped,   \* nodes whose $schema and default were deleted
    declared,   \* names of the tools
    callIDs     \* IDs of the tool calls

chatVars == <<payload, phase, index, stack, budget, stripped, declared, callIDs>>

Phases == {"body", "decode", "fields", "tools", "walk", "messages", "results", "choice",
           "canonical", "accepted"}

(* Where a request is turned away: the test that fails. *)
Rejections == {"no body", "no decode", "no fields", "no tools", "no messages", "no results",
               "no choice", "no canonical"}

ChatInit ==
    /\ payload \in Payloads
    /\ phase = "body"
    /\ index = 1
    /\ stack = <<>>
    /\ budget = MaxSchemaNodes
    /\ stripped = {}
    /\ declared = {}
    /\ callIDs = {}

Walked == <<stack, budget, stripped>>
Rest == <<payload, index, stack, budget, stripped, declared, callIDs>>

Test(at, ok, yes, no) ==
    /\ phase = at
    /\ phase' = IF ok THEN yes ELSE no
    /\ UNCHANGED Rest

Calls(p) == {mc \in (1 .. Len(p.messages)) \X (1 .. MaxCalls) :
                mc[2] <= Len(p.messages[mc[1]].calls)}
Call(p, mc) == p.messages[mc[1]].calls[mc[2]]
Tools(p) == IF p.hasTools THEN p.tools ELSE <<>>

(* --------------------------- before the schemas -------------------------- *)

ReadBody ==
    Test("body",
         payload.raw /\ payload.text # "plain"
            /\ \A mc \in Calls(payload) : Call(payload, mc).credential # "plain",
         "decode", "no body")

Decode == Test("decode", payload.json, "fields", "no decode")

CheckFields == Test("fields", payload.fields, "tools", "no fields")

(* ------------------------------- the tools ------------------------------- *)

Tool == payload.tools[index]

(* Mutant: every tool has a budget of its own. *)
NextTool_OwnBudget ==
    /\ phase = "tools" /\ payload.hasTools
    /\ Len(payload.tools) \in 1 .. MaxTools /\ index <= Len(payload.tools)
    /\ Tool.ok /\ Tool.name \notin declared
    /\ phase' = "walk"
    /\ declared' = declared \union {Tool.name}
    /\ stack' = <<[at |-> <<>>, todo |-> {<<>>}]>>
    /\ budget' = MaxSchemaNodes
    /\ UNCHANGED <<payload, index, stripped, callIDs>>

(* A tool's own fields are in order: its parameters are next. *)
NextTool ==
    /\ phase = "tools" /\ payload.hasTools
    /\ Len(payload.tools) \in 1 .. MaxTools /\ index <= Len(payload.tools)
    /\ Tool.ok /\ Tool.name \notin declared
    /\ phase' = "walk"
    /\ declared' = declared \union {Tool.name}
    /\ stack' = <<[at |-> <<>>, todo |-> {<<>>}]>>
    /\ UNCHANGED <<payload, index, budget, stripped, callIDs>>

RejectTool ==
    /\ phase = "tools" /\ payload.hasTools
    /\ \/ Len(payload.tools) \notin 1 .. MaxTools
       \/ index <= Len(payload.tools) /\ (~Tool.ok \/ Tool.name \in declared)
    /\ phase' = "no tools"
    /\ UNCHANGED Rest

ToolsDone ==
    /\ phase = "tools"
    /\ \/ ~payload.hasTools
       \/ Len(payload.tools) \in 1 .. MaxTools /\ index > Len(payload.tools)
    /\ phase' = "messages" /\ index' = 1
    /\ UNCHANGED <<payload, stack, budget, stripped, declared, callIDs>>

Top == stack[Len(stack)]
Kids(n) == {k \in Tool.schema.nodes : Len(k) = Len(n) + 1 /\ SubSeq(k, 1, Len(n)) = n}

(* Mutant: the last node of the budget is spent twice. *)
NodeOK_OneMore(n) ==
    /\ Len(n) <= MaxSchemaDepth /\ budget >= 0
    /\ n \in Tool.schema.dialect <=> n = <<>>
    /\ n \notin Tool.schema.early

(* The tests of validateJSONSchema before the children: complexity, the      *)
(* dialect at the root and only there, and the node's own keywords.          *)
NodeOK(n) ==
    /\ Len(n) <= MaxSchemaDepth /\ budget > 0
    /\ n \in Tool.schema.dialect <=> n = <<>>
    /\ n \notin Tool.schema.early

(* Mutant: only the root is cleaned. *)
Strip_Root(n) == IF n = <<>> THEN {<<index, n>>} ELSE {}

(* delete(schema, "$schema") and delete(schema, "default"). *)
Strip(n) == {<<index, n>>}

(* validateJSONSchema enters a node. *)
EnterNode ==
    /\ phase = "walk" /\ Top.todo # {}
    /\ \E n \in Top.todo :
         IF NodeOK(n)
         THEN /\ stack' = Append([stack EXCEPT ![Len(stack)].todo = @ \ {n}],
                                 [at |-> n, todo |-> Kids(n)])
              /\ budget' = budget - 1
              /\ stripped' = stripped \union Strip(n)
              /\ UNCHANGED phase
         ELSE /\ phase' = "no tools"
              /\ UNCHANGED Walked
    /\ UNCHANGED <<payload, index, declared, callIDs>>

(* The children of a node are done: the tests behind them (required, items,  *)
(* enum, bounds), and back to the parent or, from the root, to the next tool. *)
LeaveNode ==
    /\ phase = "walk" /\ Top.todo = {}
    /\ LET last == Len(stack) = 1
           ok == last \/ Top.at \notin Tool.schema.late
       IN /\ phase' = IF ~ok THEN "no tools" ELSE IF last THEN "tools" ELSE "walk"
          /\ stack' = SubSeq(stack, 1, Len(stack) - 1)
          /\ index' = IF last THEN index + 1 ELSE index
    /\ UNCHANGED <<payload, budget, stripped, declared, callIDs>>

(* ------------------------------ the messages ----------------------------- *)

Message == payload.messages[index]
IDs(m) == {m.calls[c].id : c \in 1 .. Len(m.calls)}

(* Credential-like text that no scan of an encoded value shows. *)
Unseen == {"none", "reescaped"}

(* Mutant: arguments are scanned as they came, not as they decode. *)
ArgumentsOK_Raw(call) == call.arguments /\ call.credential \in Unseen \union {"inner"}

(* validateToolArguments: strict decoding, and a scan of what was decoded    *)
(* after it has been encoded again.                                          *)
ArgumentsOK(call) == call.arguments /\ call.credential \in Unseen

(* validateToolCalls *)
CallsOK(m) ==
    /\ Len(m.calls) <= MaxCalls
    /\ Cardinality(IDs(m)) = Len(m.calls)
    /\ \A c \in 1 .. Len(m.calls) : m.calls[c].name \in declared /\ ArgumentsOK(m.calls[c])

(* Mutant: an ID may come again in a later message. *)
MessageOK_Repeats(m) == m.ok /\ CallsOK(m)

MessageOK(m) == m.ok /\ CallsOK(m) /\ IDs(m) \intersect callIDs = {}

CheckMessage ==
    /\ phase = "messages"
    /\ Len(payload.messages) \in 1 .. MaxMessages /\ index <= Len(payload.messages)
    /\ IF MessageOK(Message)
       THEN callIDs' = callIDs \union IDs(Message) /\ index' = index + 1 /\ UNCHANGED phase
       ELSE phase' = "no messages" /\ UNCHANGED <<callIDs, index>>
    /\ UNCHANGED <<payload, stack, budget, stripped, declared>>

MessagesDone ==
    /\ phase = "messages"
    /\ \/ Len(payload.messages) \notin 1 .. MaxMessages /\ phase' = "no messages"
       \/ /\ Len(payload.messages) \in 1 .. MaxMessages /\ index > Len(payload.messages)
          /\ phase' = "results"
    /\ UNCHANGED Rest

(* The second pass: every tool message refers to a call. *)
CheckResults ==
    Test("results",
         \A m \in 1 .. Len(payload.messages) :
            payload.messages[m].role = "tool" => payload.messages[m].ref \in callIDs,
         "choice", "no results")

CheckChoice ==
    Test("choice", payload.choice \in {"any"} \union declared, "canonical", "no choice")

(* The scan of the canonical body, in which the arguments are canonical too. *)
ScanCanonical == Test("canonical", payload.text \in Unseen, "accepted", "no canonical")

ChatNext ==
    \/ ReadBody \/ Decode \/ CheckFields
    \/ NextTool \/ RejectTool \/ ToolsDone \/ EnterNode \/ LeaveNode
    \/ CheckMessage \/ MessagesDone \/ CheckResults
    \/ CheckChoice \/ ScanCanonical

ChatSpec == ChatInit /\ [][ChatNext]_chatVars
-----------------------------------------------------------------------------
(***************************************************************************)
(* Properties                                                              *)
(***************************************************************************)
ChatTypeOK ==
    /\ phase \in Phases \union Rejections
    /\ index \in Nat \ {0}
    /\ \A i \in 1 .. Len(stack) : stack[i].todo \subseteq Tool.schema.nodes
    /\ budget \in 0 .. MaxSchemaNodes
    /\ \A s \in stripped : s[1] \in 1 .. Len(Tools(payload))

Nodes(p) == UNION {{<<t, n>> : n \in p.tools[t].schema.nodes} : t \in DOMAIN Tools(p)}

(* What makes the tools of a request acceptable, whatever the order they are *)
(* walked in: their names differ, and their schemas together are within the  *)
(* budget, nowhere too deep and without a fault.                             *)
GoodTools(p) ==
    \/ ~p.hasTools
    \/ /\ Len(p.tools) \in 1 .. MaxTools
       /\ \A t \in DOMAIN p.tools :
            LET s == p.tools[t].schema IN
            /\ p.tools[t].ok
            /\ \A u \in DOMAIN p.tools : p.tools[u].name = p.tools[t].name => u = t
            /\ \A n \in s.nodes : Len(n) <= MaxSchemaDepth
            /\ s.dialect = {<<>>} /\ s.early = {} /\ s.late = {}
       /\ Cardinality(Nodes(p)) <= MaxSchemaNodes

(* The verdict on the tools does not depend on the order in which Go ranges  *)
(* over the properties, and the budget is that of the whole request          *)
(* (request.go:194-196, 300-304, 365-372).                                   *)
ToolsVerdict ==
    /\ phase \in {"messages", "results", "choice", "canonical", "accepted"} => GoodTools(payload)
    /\ phase = "no tools" => ~GoodTools(payload)

(* Nothing that was accepted for compatibility only ($schema, default) is    *)
(* left in a schema that is sent on (request.go:328-332, 347-354).           *)
AnnotationsStripped ==
    phase = "accepted" => \A t \in DOMAIN Tools(payload) :
        LET schema == payload.tools[t].schema
        IN \A n \in schema.dialect \union schema.default : <<t, n>> \in stripped

(* In an accepted conversation every tool result answers exactly one call of *)
(* the body, which may come after it, and every called or chosen function is *)
(* declared by exactly one tool (request.go:137-142, 157-164, 256-258,       *)
(* 294-296).                                                                 *)
ResultsAnswerCalls ==
    phase = "accepted" =>
       /\ \A m \in 1 .. Len(payload.messages) : payload.messages[m].role = "tool" =>
             Cardinality({mc \in Calls(payload) :
                            Call(payload, mc).id = payload.messages[m].ref}) = 1
       /\ \A f \in {Call(payload, mc).name : mc \in Calls(payload)}
                     \union ({payload.choice} \ {"any"}) :
             Cardinality({t \in DOMAIN Tools(payload) : payload.tools[t].name = f}) = 1

(* What the comment at request.go:156 says: a tool result refers to a call   *)
(* of an earlier message.                                                    *)
ResultsFollowCalls ==
    phase = "accepted" =>
       \A m \in 1 .. Len(payload.messages) : payload.messages[m].role = "tool" =>
          \E e \in 1 .. m - 1 : payload.messages[m].ref \in IDs(payload.messages[e])

(* Credential-like text is not sent on because JSON escaped it: neither that *)
(* of the body nor that of a call's arguments, each of which is decoded and  *)
(* encoded again before a scan (router.go:378, 392, request.go:571-574).     *)
(* Text with white space that the encoder escapes again (router.go:52) is    *)
(* beyond what the scans see, and not claimed.                               *)
NoCredentialForwarded ==
    phase = "accepted" =>
       /\ payload.text \in Unseen
       /\ \A mc \in Calls(payload) : Call(payload, mc).credential \in Unseen
=============================================================================
