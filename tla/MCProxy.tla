------------------------------ MODULE MCProxy ------------------------------
(* Proxy with the request bodies and the responses it is checked on. *)
EXTENDS Proxy

(* ------------------------------- payloads -------------------------------- *)

Root == <<>>
Flat == {Root, <<"a">>}
Wide == {Root, <<"a">>, <<"b">>, <<"a", "c">>}
Deep == {Root, <<"a">>, <<"a", "b">>, <<"a", "b", "c">>}

Schema(nodes) ==
    [nodes |-> nodes, dialect |-> {Root}, default |-> {}, early |-> {}, late |-> {}]

(* Each tree as it should be, annotated, and with one fault. *)
SchemasOver(nodes) ==
    LET s == Schema(nodes)
        a == {<<"a">>}
    IN {s, [s EXCEPT !.default = a], [s EXCEPT !.default = a, !.late = a],
        [s EXCEPT !.dialect = {}], [s EXCEPT !.dialect = @ \union a],
        [s EXCEPT !.early = a], [s EXCEPT !.late = {Root}]}

Schemas == SchemasOver(Flat) \union SchemasOver(Wide) \union SchemasOver(Deep)

ToolSet == [ok : {TRUE}, name : {"f", "g"}, schema : Schemas]
             \union [ok : {FALSE}, name : {"f"}, schema : {Schema(Flat)}]

FTool == [ok |-> TRUE, name |-> "f", schema |-> Schema(Flat)]
GTool == [FTool EXCEPT !.name = "g"]

GoodCalls == [id : {"i", "j"}, name : {"f", "g"}, arguments : {TRUE}, credential : {"none"}]
FCall == [id |-> "i", name |-> "f", arguments |-> TRUE, credential |-> "none"]
CallSet == GoodCalls
             \union {[FCall EXCEPT !.arguments = FALSE]}
             \union {[FCall EXCEPT !.credential = c] :
                       c \in {"plain", "escaped", "inner", "reescaped"}}

Text == [role |-> "user", ok |-> TRUE, calls |-> <<>>, ref |-> "none"]
MessageSet ==
    {Text, [Text EXCEPT !.ok = FALSE]}
      \union {[Text EXCEPT !.role = "assistant", !.calls = <<c>>] : c \in CallSet}
      \union {[Text EXCEPT !.role = "assistant", !.calls = <<c, d>>] :
                 c, d \in {x \in GoodCalls : x.name = "f"}}
      \union {[Text EXCEPT !.role = "tool", !.ref = i] : i \in {"i", "j"}}

Plain == [raw |-> TRUE, json |-> TRUE, fields |-> TRUE, text |-> "none",
          hasTools |-> TRUE, tools |-> <<FTool>>, messages |-> <<Text>>, choice |-> "any"]

(* Bodies that vary in their tools, in their messages, or in anything else. *)
MCPayloads ==
    {[Plain EXCEPT !.tools = t] :
        t \in UNION {[1 .. k -> ToolSet] : k \in 0 .. 2} \union {<<FTool, GTool, FTool>>}}
      \union
    {[Plain EXCEPT !.messages = m] : m \in UNION {[1 .. k -> MessageSet] : k \in 0 .. 3}}
      \union
    [raw : BOOLEAN, json : BOOLEAN, fields : BOOLEAN, text : {"none", "plain", "escaped", "reescaped"},
     hasTools : BOOLEAN, tools : {<<FTool>>}, messages : {<<Text>>, <<Text, Text, Text, Text>>},
     choice : {"any", "f", "g", "invalid"}]

(* --------------------------------- copies -------------------------------- *)

MCLimits == {0 - 1, 0, 1, 3}
MCLengths == 0 .. 5

(* The lengths and limits of a response are varied for one body only. *)
MCProxyInit ==
    ProxyInit /\ (payload # Plain => limit = 3 /\ length = 0 /\ ending = "eof")

MCProxySpec == MCProxyInit /\ [][ProxyNext]_proxyVars
=============================================================================
