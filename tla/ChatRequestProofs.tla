------------------------- MODULE ChatRequestProofs -------------------------
(***************************************************************************)
(* Proofs about ChatRequest, for every payload whose schemas are finite    *)
(* trees and for every bound: the walk of the schemas visits every node    *)
(* exactly once whatever the order, so that the verdict on the tools is    *)
(* that of the reference definition GoodTools, and what is accepted is     *)
(* stripped, answers its calls and shows no credential to a scan.          *)
(***************************************************************************)
EXTENDS ChatRequest, FiniteSetTheorems, SequenceTheorems, WellFoundedInduction, TLAPS

SchemaOf(t) == payload.tools[t].schema
NameOf(t) == payload.tools[t].name
Seen(n) == <<index, n>> \in stripped

(* What the tests of a node and of its whole tool have established. *)
NodeFine(t, n) ==
    /\ Len(n) <= MaxSchemaDepth
    /\ n \in SchemaOf(t).dialect <=> n = <<>>
    /\ n \notin SchemaOf(t).early

ToolDone(t) ==
    /\ payload.tools[t].ok
    /\ \A n \in SchemaOf(t).nodes :
         <<t, n>> \in stripped /\ NodeFine(t, n) /\ n \notin SchemaOf(t).late

(* Every node entered has cost one node of the budget, once. *)
Accounting ==
    /\ IsFiniteSet(stripped) /\ stripped \subseteq Nodes(payload)
    /\ budget \in Nat /\ budget + Cardinality(stripped) = MaxSchemaNodes

Untouched ==
    phase \in {"body", "decode", "fields"} =>
        stripped = {} /\ declared = {} /\ index = 1

(* The tools already walked, and the one under way. *)
Begun == IF phase = "walk" THEN index ELSE index - 1

ToolsSoFar ==
    phase \in {"tools", "walk"} =>
       /\ index - 1 <= Len(Tools(payload))
       /\ \A t \in 1 .. index - 1 : ToolDone(t)
       /\ declared = {NameOf(t) : t \in 1 .. Begun}
       /\ \A t, u \in 1 .. Begun : NameOf(t) = NameOf(u) => t = u
       /\ \A s \in stripped : s[1] <= Begun

(* The frames of the stack: the nodes on the way from the root to the one    *)
(* the walk is at, each with the children that are still to be entered.      *)
FrameOK(i) ==
    /\ stack[i].at \in SchemaOf(index).nodes /\ Seen(stack[i].at)
    /\ Len(stack[i].at) = i - 2
    /\ stack[i].todo \subseteq Kids(stack[i].at)
    /\ \A k \in stack[i].todo : ~Seen(k)

Framed(n) == \E i \in 2 .. Len(stack) : stack[i].at = n
Awaited(k) == \E i \in 2 .. Len(stack) : k \in stack[i].todo

Walking ==
    phase = "walk" =>
       /\ payload.hasTools /\ payload.tools[index].ok
       /\ Len(payload.tools) \in 1 .. MaxTools /\ index <= Len(payload.tools)
       /\ stack \in Seq([at : Path, todo : SUBSET Path]) /\ Len(stack) >= 1
       /\ stack[1].todo = IF Seen(<<>>) THEN {} ELSE {<<>>}
       /\ \A i \in 2 .. Len(stack) : FrameOK(i)
       /\ \A n \in SchemaOf(index).nodes : Seen(n) =>
            /\ NodeFine(index, n)
            /\ n \in SchemaOf(index).late => Framed(n)
            /\ \A k \in Kids(n) : Seen(k) \/ Awaited(k)
       /\ \A n \in SchemaOf(index).nodes : \A k \in Kids(n) : Seen(k) => Seen(n)

StackKept ==
    /\ phase \notin {"walk", "no tools"} => stack = <<>>
    /\ phase = "no tools" =>
         \A i \in 1 .. Len(stack) : stack[i].todo \subseteq SchemaOf(index).nodes

(* After the tools. *)
ToolsAccepted ==
    phase \in {"messages", "results", "choice", "canonical", "accepted"} =>
       /\ GoodTools(payload)
       /\ declared = {NameOf(t) : t \in 1 .. Len(Tools(payload))}
       /\ Nodes(payload) \subseteq stripped

(* The messages already checked. *)
Checked == IF phase = "messages" THEN index - 1 ELSE Len(payload.messages)

CallsOf(m) == payload.messages[m].calls

MessagesPart ==
    /\ Checked <= Len(payload.messages)
    /\ callIDs = UNION {IDs(payload.messages[m]) : m \in 1 .. Checked}
    /\ \A m \in 1 .. Checked :
         /\ Len(CallsOf(m)) <= MaxCalls
         /\ \A c \in 1 .. Len(CallsOf(m)) :
              CallsOf(m)[c].name \in declared /\ CallsOf(m)[c].credential \in Unseen
    /\ \A l, m \in 1 .. Checked : \A c \in 1 .. Len(CallsOf(l)), d \in 1 .. Len(CallsOf(m)) :
         CallsOf(l)[c].id = CallsOf(m)[d].id => l = m /\ c = d

MessagesSoFar ==
    /\ phase \in {"body", "decode", "fields", "tools", "walk"} => callIDs = {}
    /\ phase \in {"messages", "results", "choice", "canonical", "accepted"} => MessagesPart

LastTests ==
    /\ phase \in {"choice", "canonical", "accepted"} =>
         \A m \in 1 .. Len(payload.messages) :
            payload.messages[m].role = "tool" => payload.messages[m].ref \in callIDs
    /\ phase \in {"canonical", "accepted"} => payload.choice \in {"any"} \union declared
    /\ phase = "accepted" => payload.text \in Unseen

Verdict == phase = "no tools" => ~GoodTools(payload)

IInv ==
    /\ payload \in Payloads
    /\ phase \in Phases \union Rejections /\ index \in Nat \ {0}
    /\ Accounting /\ Untouched /\ ToolsSoFar /\ Walking /\ StackKept
    /\ ToolsAccepted /\ MessagesSoFar /\ LastTests /\ Verdict

-----------------------------------------------------------------------------
(*                          Payloads and their trees                         *)

(* The sequences of a payload, and the tools that count: none when the body  *)
(* has no tools key.                                                         *)
LEMMA Shape ==
    ASSUME payload \in Payloads
    PROVE  /\ payload.tools \in Seq(ToolType) /\ payload.messages \in Seq(MessageType)
           /\ Tools(payload) \in Seq(ToolType)
           /\ Len(payload.tools) \in Nat /\ Len(payload.messages) \in Nat
           /\ Len(Tools(payload)) \in Nat
           /\ payload.hasTools => Tools(payload) = payload.tools
           /\ ~payload.hasTools => Len(Tools(payload)) = 0
           /\ Len(Tools(payload)) <= Len(payload.tools)
           /\ DOMAIN payload.tools = 1 .. Len(payload.tools)
           /\ DOMAIN Tools(payload) = 1 .. Len(Tools(payload))
<1>1. payload \in PayloadType
  BY ChatAssumption
<1>2. payload.tools \in Seq(ToolType) /\ payload.messages \in Seq(MessageType)
  BY <1>1 DEF PayloadType
<1> QED BY <1>2 DEF Tools

(* What is known of the checked messages depends on four values only. *)
LEMMA MessagesPartKept ==
    ASSUME MessagesPart, Checked' = Checked, payload' = payload,
           callIDs' = callIDs, declared' = declared
    PROVE  MessagesPart'
<1>1. /\ Checked' <= Len(payload'.messages)
      /\ callIDs' = UNION {IDs(payload'.messages[m]) : m \in 1 .. Checked'}
  BY DEF MessagesPart
<1>2. \A m \in 1 .. Checked' :
        /\ Len(payload'.messages[m].calls) <= MaxCalls
        /\ \A c \in 1 .. Len(payload'.messages[m].calls) :
             /\ payload'.messages[m].calls[c].name \in declared'
             /\ payload'.messages[m].calls[c].credential \in Unseen
  BY DEF MessagesPart, CallsOf
<1>3. ASSUME NEW l \in 1 .. Checked', NEW m \in 1 .. Checked',
             NEW c \in 1 .. Len(payload'.messages[l].calls),
             NEW d \in 1 .. Len(payload'.messages[m].calls),
             payload'.messages[l].calls[c].id = payload'.messages[m].calls[d].id
      PROVE  l = m /\ c = d
  <2>1. l \in 1 .. Checked /\ m \in 1 .. Checked
    OBVIOUS
  <2>2. c \in 1 .. Len(CallsOf(l)) /\ d \in 1 .. Len(CallsOf(m))
    BY DEF CallsOf
  <2>3. CallsOf(l)[c].id = CallsOf(m)[d].id
    BY <1>3 DEF CallsOf
  <2> QED BY <2>1, <2>2, <2>3 DEF MessagesPart
<1> QED BY <1>1, <1>2, <1>3 DEF MessagesPart, CallsOf, IDs

(* A tool's schema is a finite tree with its marks on its nodes. *)
LEMMA SchemaShape ==
    ASSUME payload \in Payloads, NEW t \in 1 .. Len(payload.tools)
    PROVE  /\ payload.tools[t] \in ToolType /\ SchemaOf(t).nodes \subseteq Path
           /\ IsFiniteSet(SchemaOf(t).nodes) /\ <<>> \in SchemaOf(t).nodes
           /\ \A n \in SchemaOf(t).nodes :
                n # <<>> => SubSeq(n, 1, Len(n) - 1) \in SchemaOf(t).nodes
           /\ SchemaOf(t).dialect \subseteq SchemaOf(t).nodes
           /\ SchemaOf(t).default \subseteq SchemaOf(t).nodes
           /\ SchemaOf(t).early \subseteq SchemaOf(t).nodes
           /\ SchemaOf(t).late \subseteq SchemaOf(t).nodes
<1>1. payload.tools[t] \in ToolType
  BY Shape
<1>2. SchemaOf(t) \in SchemaType
  BY <1>1 DEF ToolType, SchemaOf
<1>3. SchemaOf(t).nodes \subseteq Path
  BY <1>2 DEF SchemaType
<1>4. IsTree(SchemaOf(t))
  BY ChatAssumption DEF SchemaOf
<1> QED BY <1>1, <1>3, <1>4 DEF IsTree

(* The nodes of all tools together are pairs of a tool and a path. *)
LEMMA NodePairs ==
    ASSUME payload \in Payloads
    PROVE  /\ \A t, n : <<t, n>> \in Nodes(payload) <=>
                  t \in 1 .. Len(Tools(payload)) /\ n \in SchemaOf(t).nodes
           /\ \A s \in Nodes(payload) : s = <<s[1], s[2]>>
<1>1. DOMAIN Tools(payload) = 1 .. Len(Tools(payload))
  BY Shape
<1> QED BY <1>1 DEF Nodes, SchemaOf

(* There are finitely many of them, so that a budget can count them. *)
LEMMA NodesFinite ==
    ASSUME payload \in Payloads
    PROVE  IsFiniteSet(Nodes(payload))
<1> DEFINE D == DOMAIN Tools(payload)
           Of(t) == {<<t, n>> : n \in payload.tools[t].schema.nodes}
           F == {Of(t) : t \in D}
<1>1. D = 1 .. Len(Tools(payload)) /\ Len(Tools(payload)) \in Nat
      /\ D \subseteq 1 .. Len(payload.tools)
  BY Shape
<1>2. ASSUME NEW t \in D PROVE IsFiniteSet(Of(t))
  <2> DEFINE f == [n \in payload.tools[t].schema.nodes |-> <<t, n>>]
  <2>1. f \in Surjection(payload.tools[t].schema.nodes, Of(t))
    BY DEF Surjection
  <2>2. IsFiniteSet(payload.tools[t].schema.nodes)
    BY <1>1, SchemaShape DEF SchemaOf
  <2> QED BY <2>1, <2>2, FS_Surjection
<1>3. IsFiniteSet(F)
  <2> DEFINE g == [t \in D |-> Of(t)]
  <2>1. g \in Surjection(D, F)
    BY DEF Surjection
  <2>2. IsFiniteSet(D)
    BY <1>1, FS_Interval
  <2> HIDE DEF g, F, D
  <2> QED BY <2>1, <2>2, FS_Surjection
<1>4. \A T \in F : IsFiniteSet(T)
  BY <1>2
<1>5. IsFiniteSet(UNION F)
  <2> HIDE DEF F
  <2> QED BY <1>3, <1>4, FS_UNION
<1> QED BY <1>5 DEF Nodes

(* Every non-empty set of naturals has a least element. *)
LEMMA LeastNatural ==
    ASSUME NEW T \in SUBSET Nat, T # {}
    PROVE  \E x \in T : \A y \in T : x <= y
<1>1. PICK x \in T : \A y \in T : ~(<<y, x>> \in OpToRel(<, Nat))
  BY NatLessThanWellFounded, WFMin
<1>2. \A a, y \in Nat : <<y, a>> \in OpToRel(<, Nat) <=> y < a
  BY DEF OpToRel
<1>3. \A y \in T : ~(y < x)
  BY <1>1, <1>2, Zenon
<1>4. \A y \in T : x <= y
  BY <1>3
<1> QED BY <1>4

(* How long a prefix is. *)
LEMMA PrefixLength ==
    ASSUME NEW k \in Seq(STRING), NEW q \in Nat, q <= Len(k)
    PROVE  Len(SubSeq(k, 1, q)) = q
OBVIOUS

(* A set of nodes that has the root and the children of its nodes has all:   *)
(* otherwise take a missing node nearest to the root.                        *)
LEMMA ClosedIsAll ==
    ASSUME payload \in Payloads, index \in 1 .. Len(payload.tools),
           NEW V, <<>> \in V,
           \A n \in SchemaOf(index).nodes : n \in V => Kids(n) \subseteq V
    PROVE  SchemaOf(index).nodes \subseteq V
<1> DEFINE N == SchemaOf(index).nodes
           T == {Len(n) : n \in N \ V}
<1>0. /\ N \subseteq Seq(STRING)
      /\ \A n \in N : n # <<>> => SubSeq(n, 1, Len(n) - 1) \in N
  BY SchemaShape DEF Path
<1>1. SUFFICES ASSUME N \ V # {} PROVE FALSE
  OBVIOUS
<1> HIDE DEF N
<1>2. T \in SUBSET Nat /\ T # {}
  <2>1. \A n \in N : Len(n) \in Nat
    BY <1>0, LenProperties
  <2> QED BY <1>1, <2>1
<1>3. PICK x \in T : \A y \in T : x <= y
  <2> HIDE DEF T
  <2> QED BY <1>2, LeastNatural
<1>4. PICK k \in N \ V : \A n \in N \ V : Len(k) <= Len(n)
  BY <1>3
<1>5. k \in Seq(STRING) /\ k # <<>> /\ Len(k) \in Nat /\ Len(k) # 0
  BY <1>0, <1>4
<1> DEFINE p == SubSeq(k, 1, Len(k) - 1)
<1>6. p \in N /\ Len(p) = Len(k) - 1
  <2>1. Len(p) = Len(k) - 1
    <3>1. Len(k) - 1 \in Nat /\ Len(k) - 1 <= Len(k)
      BY <1>5
    <3> QED BY <1>5, <3>1, PrefixLength, Zenon
  <2>2. p \in N
    BY <1>0, <1>4, <1>5
  <2> QED BY <2>1, <2>2
<1> HIDE DEF p
<1>7. p \in V
  <2>1. ~(Len(k) <= Len(p))
    BY <1>5, <1>6
  <2> QED BY <1>4, <1>6, <2>1
<1>8. k \in Kids(p)
  BY <1>4, <1>5, <1>6 DEF Kids, Tool, SchemaOf, N, p
<1> QED BY <1>4, <1>6, <1>7, <1>8 DEF N

-----------------------------------------------------------------------------
(*                       Tests that only move the phase                      *)

(* The tests before the tools. *)
LEMMA FirstTests ==
    ASSUME IInv, ReadBody \/ Decode \/ CheckFields
    PROVE  IInv'
<1>1. /\ phase \in {"body", "decode", "fields"} /\ UNCHANGED Rest
      /\ phase' \in {"decode", "fields", "tools", "no body", "no decode", "no fields"}
  BY DEF ReadBody, Decode, CheckFields, Test
<1>2. /\ stripped = {} /\ declared = {} /\ index = 1 /\ stack = <<>> /\ callIDs = {}
      /\ payload \in Payloads /\ Accounting
  BY <1>1 DEF IInv, Untouched, StackKept, MessagesSoFar
<1>3. Accounting'
  BY <1>1, <1>2 DEF Rest, Accounting
<1>4. ToolsSoFar'
  <2>1. Len(Tools(payload)) \in Nat
    BY <1>2, Shape
  <2> SUFFICES ASSUME phase' = "tools" PROVE ToolsSoFar'
    BY <1>1 DEF ToolsSoFar
  <2>2. index' = 1 /\ Begun' = 0 /\ stripped' = {} /\ declared' = {} /\ payload' = payload
    BY <1>1, <1>2 DEF Rest, Begun
  <2> QED BY <2>1, <2>2 DEF ToolsSoFar
<1>5. /\ Untouched' /\ Walking' /\ StackKept' /\ ToolsAccepted' /\ MessagesSoFar'
      /\ LastTests' /\ Verdict'
  BY <1>1, <1>2 DEF Rest, Untouched, Walking, StackKept, ToolsAccepted,
     MessagesSoFar, LastTests, Verdict
<1>6. payload' \in Payloads /\ index' \in Nat \ {0} /\ phase' \in Phases \union Rejections
  <2>1. payload' = payload /\ index' = 1
    BY <1>1, <1>2 DEF Rest
  <2>2. phase' \in Phases \union Rejections
    BY <1>1 DEF Phases, Rejections
  <2> QED BY <1>2, <2>1, <2>2
<1> QED BY <1>3, <1>4, <1>5, <1>6 DEF IInv

(* The tests after the messages. *)
LEMMA LastTestsStep ==
    ASSUME IInv, MessagesDone \/ CheckResults \/ CheckChoice \/ ScanCanonical
    PROVE  IInv'
<1>1. /\ phase \in {"messages", "results", "choice", "canonical"} /\ UNCHANGED Rest
      /\ phase' \in {"results", "choice", "canonical", "accepted", "no messages",
                     "no results", "no choice", "no canonical"}
  <2>1. CASE MessagesDone
    BY <2>1 DEF MessagesDone
  <2>2. CASE CheckResults
    BY <2>2 DEF CheckResults, Test
  <2>3. CASE CheckChoice
    BY <2>3 DEF CheckChoice, Test
  <2>4. CASE ScanCanonical
    BY <2>4 DEF ScanCanonical, Test
  <2> QED BY <2>1, <2>2, <2>3, <2>4
<1>2. /\ payload \in Payloads /\ Accounting /\ stack = <<>> /\ index \in Nat \ {0}
      /\ GoodTools(payload) /\ Nodes(payload) \subseteq stripped
      /\ declared = {NameOf(t) : t \in 1 .. Len(Tools(payload))}
  BY <1>1 DEF IInv, StackKept, ToolsAccepted
<1>3. Accounting'
  BY <1>1, <1>2 DEF Rest, Accounting
<1>4. ToolsAccepted'
  BY <1>1, <1>2 DEF Rest, ToolsAccepted, NameOf
<1>5. MessagesSoFar'
  <2> SUFFICES ASSUME phase' \in {"results", "choice", "canonical", "accepted"}
               PROVE  MessagesSoFar'
    BY <1>1 DEF MessagesSoFar
  <2>1. Len(payload.messages) \in Nat
    BY <1>2, Shape
  <2>2. Checked <= Len(payload.messages)
    BY <1>1 DEF IInv, MessagesSoFar, MessagesPart
  <2>3. phase = "messages" => index > Len(payload.messages)
    <3>1. CASE MessagesDone
      BY <3>1 DEF MessagesDone
    <3>2. CASE CheckResults \/ CheckChoice \/ ScanCanonical
      BY <3>2 DEF CheckResults, CheckChoice, ScanCanonical, Test
    <3> QED BY <3>1, <3>2
  <2>4. Checked = Len(payload.messages)
    BY <1>2, <2>1, <2>2, <2>3 DEF Checked
  <2>5. Checked' = Checked /\ payload' = payload /\ callIDs' = callIDs /\ declared' = declared
    BY <1>1, <2>4 DEF Checked, Rest
  <2>6. MessagesPart
    BY <1>1 DEF IInv, MessagesSoFar
  <2>7. MessagesPart'
    BY <2>5, <2>6, MessagesPartKept
  <2> QED BY <1>1, <2>7 DEF MessagesSoFar
<1>6. LastTests'
  <2>1. CASE MessagesDone
    BY <1>1, <2>1 DEF MessagesDone, LastTests
  <2>2. CASE CheckResults
    BY <1>1, <2>2 DEF CheckResults, Test, Rest, LastTests
  <2>3. CASE CheckChoice
    BY <1>1, <2>3 DEF CheckChoice, Test, Rest, LastTests, IInv
  <2>4. CASE ScanCanonical
    BY <1>1, <2>4 DEF ScanCanonical, Test, Rest, LastTests, IInv
  <2> QED BY <2>1, <2>2, <2>3, <2>4
<1>7. Untouched' /\ ToolsSoFar' /\ Walking' /\ StackKept' /\ Verdict'
  BY <1>1, <1>2 DEF Rest, Untouched, ToolsSoFar, Walking, StackKept, Verdict
<1>8. payload' \in Payloads /\ index' \in Nat \ {0} /\ phase' \in Phases \union Rejections
  BY <1>1, <1>2 DEF Rest, Phases, Rejections
<1> QED BY <1>3, <1>4, <1>5, <1>6, <1>7, <1>8 DEF IInv

-----------------------------------------------------------------------------
(*                                 The tools                                 *)

(* The count of tools and messages starts at one. *)
LEMMA IndexPositive ==
    ASSUME IInv
    PROVE  index \in Nat /\ 1 <= index
<1>1. index \in Nat \ {0}
  BY DEF IInv
<1> QED BY <1>1

(* A new tool is begun: its name is new and its walk starts at the root. *)
LEMMA NextToolStep ==
    ASSUME IInv, NextTool
    PROVE  IInv'
<1>0. /\ phase = "tools" /\ phase' = "walk" /\ payload.hasTools
      /\ Len(payload.tools) \in 1 .. MaxTools /\ index <= Len(payload.tools)
      /\ payload.tools[index].ok /\ NameOf(index) \notin declared
      /\ declared' = declared \union {NameOf(index)}
      /\ stack' = <<[at |-> <<>>, todo |-> {<<>>}]>>
      /\ UNCHANGED <<payload, index, budget, stripped, callIDs>>
  BY DEF NextTool, Tool, NameOf
<1>1. /\ payload \in Payloads /\ index \in Nat \ {0} /\ Accounting /\ ToolsSoFar /\ callIDs = {}
      /\ Begun = index - 1 /\ Begun' = index
  BY <1>0 DEF IInv, MessagesSoFar, Begun
<1>2. /\ index - 1 <= Len(Tools(payload))
      /\ \A t \in 1 .. index - 1 : ToolDone(t)
      /\ declared = {NameOf(t) : t \in 1 .. index - 1}
      /\ \A t, u \in 1 .. index - 1 : NameOf(t) = NameOf(u) => t = u
      /\ \A s \in stripped : s[1] <= index - 1
  BY <1>0, <1>1 DEF ToolsSoFar
<1>3. ToolsSoFar'
  <2>1. \A t : NameOf(t)' = NameOf(t) /\ (ToolDone(t)' <=> ToolDone(t))
    BY <1>0 DEF NameOf, ToolDone, NodeFine, SchemaOf
  <2>2. 1 .. index = (1 .. index - 1) \union {index}
    BY <1>1
  <2>3. declared' = {NameOf(t) : t \in 1 .. index}
    BY <1>0, <1>2, <2>2
  <2>4. \A t, u \in 1 .. index : NameOf(t) = NameOf(u) => t = u
    BY <1>0, <1>2, <2>2
  <2>5. \A s \in stripped : s[1] <= index
    <3> SUFFICES ASSUME NEW s \in stripped PROVE s[1] <= index
      OBVIOUS
    <3>1. s = <<s[1], s[2]>> /\ s \in Nodes(payload)
      BY <1>1, NodePairs DEF Accounting
    <3>2. s[1] \in 1 .. Len(Tools(payload))
      BY <1>1, <3>1, NodePairs
    <3>3. s[1] \in Int
      BY <3>2
    <3> QED BY <1>1, <1>2, <3>3
  <2> QED BY <1>0, <1>1, <1>2, <2>1, <2>3, <2>4, <2>5 DEF ToolsSoFar, NameOf
<1>4. Walking'
  <2>1. \A n : <<index, n>> \notin stripped
    <3> SUFFICES ASSUME NEW n, <<index, n>> \in stripped PROVE FALSE
      OBVIOUS
    <3>1. index <= index - 1
      BY <1>2
    <3> QED BY <1>1, <3>1
  <2>2. \A n : ~Seen(n)'
    BY <1>0, <2>1 DEF Seen
  <2>3. stack' \in Seq([at : Path, todo : SUBSET Path]) /\ Len(stack') = 1
    BY <1>0 DEF Path
  <2>4. stack'[1].todo = {<<>>}
    BY <1>0
  <2>5. \A n \in SchemaOf(index)'.nodes : ~Seen(n)' /\ \A k \in Kids(n)' : ~Seen(k)'
    BY <2>2
  <2>6. \A i \in 2 .. Len(stack') : FALSE
    BY <2>3
  <2>7. stack'[1].todo = IF Seen(<<>>)' THEN {} ELSE {<<>>}
    BY <2>2, <2>4
  <2>8. /\ payload'.hasTools /\ payload'.tools[index'].ok
        /\ Len(payload'.tools) \in 1 .. MaxTools /\ index' <= Len(payload'.tools)
        /\ Len(stack') >= 1
    BY <1>0, <2>3
  <2> QED BY <2>3, <2>5, <2>6, <2>7, <2>8 DEF Walking
<1>5. /\ Accounting' /\ Untouched' /\ StackKept' /\ ToolsAccepted' /\ MessagesSoFar'
      /\ LastTests' /\ Verdict'
  BY <1>0, <1>1 DEF Accounting, Untouched, StackKept, ToolsAccepted,
     MessagesSoFar, LastTests, Verdict
<1>6. payload' \in Payloads /\ index' \in Nat \ {0} /\ phase' \in Phases \union Rejections
  BY <1>0, <1>1 DEF Phases
<1> QED BY <1>3, <1>4, <1>5, <1>6 DEF IInv

(* A rejection of the tools is final: only the verdict has to be right. *)
LEMMA RejectionKept ==
    ASSUME IInv, phase \in {"tools", "walk"}, phase' = "no tools", ~GoodTools(payload),
           UNCHANGED <<payload, budget, stripped, declared, callIDs, index>>,
           \A i \in 1 .. Len(stack') : stack'[i].todo \subseteq SchemaOf(index).nodes
    PROVE  IInv'
<1>1. /\ Accounting' /\ Untouched' /\ ToolsSoFar' /\ Walking' /\ ToolsAccepted'
      /\ MessagesSoFar' /\ LastTests'
  BY DEF IInv, Accounting, Untouched, ToolsSoFar, Walking, ToolsAccepted,
     MessagesSoFar, LastTests
<1>2. StackKept' /\ Verdict'
  BY DEF StackKept, Verdict, SchemaOf
<1>3. payload' \in Payloads /\ index' \in Nat \ {0} /\ phase' \in Phases \union Rejections
  BY DEF IInv, Rejections
<1> QED BY <1>1, <1>2, <1>3 DEF IInv

(* A tool whose own fields are wrong, or whose name is taken, condemns all. *)
LEMMA RejectToolStep ==
    ASSUME IInv, RejectTool
    PROVE  IInv'
<1>0. /\ phase = "tools" /\ payload.hasTools /\ phase' = "no tools"
      /\ UNCHANGED <<payload, budget, stripped, declared, callIDs, index, stack>>
      /\ payload \in Payloads /\ ToolsSoFar /\ stack = <<>>
  BY DEF RejectTool, Rest, IInv, StackKept
<1> SUFFICES ~GoodTools(payload)
  <2>1. stack' = <<>>
    BY <1>0
  <2>2. Len(stack') = 0
    BY <2>1
  <2>3. \A i \in 1 .. Len(stack') : stack'[i].todo \subseteq SchemaOf(index).nodes
    BY <2>2
  <2> QED BY <1>0, <2>3, RejectionKept
<1>1. /\ DOMAIN payload.tools = 1 .. Len(payload.tools) /\ Len(payload.tools) \in Nat
      /\ index \in Nat /\ 1 <= index
  BY <1>0, Shape, IndexPositive
<1>2. CASE Len(payload.tools) \notin 1 .. MaxTools
  BY <1>0, <1>2 DEF GoodTools
<1>3. CASE index <= Len(payload.tools) /\ ~payload.tools[index].ok
  <2>1. index \in DOMAIN payload.tools
    BY <1>1, <1>3
  <2> QED BY <1>0, <1>3, <2>1 DEF GoodTools
<1>4. CASE index <= Len(payload.tools) /\ NameOf(index) \in declared
  <2>1. declared = {NameOf(t) : t \in 1 .. index - 1}
    BY <1>0 DEF ToolsSoFar, Begun
  <2>2. PICK t \in 1 .. index - 1 : NameOf(t) = NameOf(index)
    BY <1>4, <2>1
  <2>3. index \in DOMAIN payload.tools /\ t \in DOMAIN payload.tools /\ t # index
    BY <1>1, <1>4
  <2> QED BY <1>0, <2>2, <2>3 DEF GoodTools, NameOf
<1> QED BY <1>2, <1>3, <1>4 DEF RejectTool, Tool, NameOf

(* All tools are walked: their whole is good, and all their nodes are clean. *)
LEMMA AllToolsGood ==
    ASSUME IInv, phase = "tools", payload.hasTools,
           Len(payload.tools) \in 1 .. MaxTools, index > Len(payload.tools)
    PROVE  /\ GoodTools(payload) /\ Nodes(payload) \subseteq stripped
           /\ declared = {NameOf(t) : t \in 1 .. Len(payload.tools)}
<1>0. /\ payload \in Payloads /\ index \in Nat \ {0} /\ ToolsSoFar /\ Accounting
      /\ Tools(payload) = payload.tools /\ DOMAIN payload.tools = 1 .. Len(payload.tools)
      /\ Len(payload.tools) \in Nat
  BY Shape DEF IInv
<1>1. index - 1 = Len(payload.tools) /\ Begun = index - 1
  BY <1>0 DEF ToolsSoFar, Begun
<1>2. /\ \A t \in 1 .. Len(payload.tools) : ToolDone(t)
      /\ declared = {NameOf(t) : t \in 1 .. Len(payload.tools)}
      /\ \A t, u \in 1 .. Len(payload.tools) : NameOf(t) = NameOf(u) => t = u
  BY <1>0, <1>1 DEF ToolsSoFar
<1>3. Nodes(payload) \subseteq stripped
  <2> SUFFICES ASSUME NEW s \in Nodes(payload) PROVE s \in stripped
    OBVIOUS
  <2>1. s = <<s[1], s[2]>>
    BY <1>0, NodePairs
  <2>2. s[1] \in 1 .. Len(payload.tools) /\ s[2] \in SchemaOf(s[1]).nodes
    BY <1>0, <2>1, NodePairs
  <2> QED BY <1>2, <2>1, <2>2 DEF ToolDone
<1>4. Cardinality(Nodes(payload)) <= MaxSchemaNodes
  <2>1. /\ Cardinality(Nodes(payload)) <= Cardinality(stripped)
        /\ Cardinality(Nodes(payload)) \in Nat /\ Cardinality(stripped) \in Nat
    BY <1>0, <1>3, FS_Subset, FS_CardinalityType DEF Accounting
  <2> QED BY <1>0, <2>1, ChatAssumption DEF Accounting
<1>5. ASSUME NEW t \in 1 .. Len(payload.tools)
      PROVE  /\ payload.tools[t].ok
             /\ \A n \in SchemaOf(t).nodes : Len(n) <= MaxSchemaDepth
             /\ SchemaOf(t).dialect = {<<>>} /\ SchemaOf(t).early = {} /\ SchemaOf(t).late = {}
  <2>1. ToolDone(t)
    BY <1>2
  <2>2. /\ <<>> \in SchemaOf(t).nodes /\ SchemaOf(t).dialect \subseteq SchemaOf(t).nodes
        /\ SchemaOf(t).early \subseteq SchemaOf(t).nodes
        /\ SchemaOf(t).late \subseteq SchemaOf(t).nodes
    BY <1>0, SchemaShape
  <2> QED BY <2>1, <2>2 DEF ToolDone, NodeFine
<1>6. GoodTools(payload)
  BY <1>0, <1>2, <1>4, <1>5 DEF GoodTools, SchemaOf, NameOf
<1> QED BY <1>2, <1>3, <1>6

(* From the tools to the messages. *)
LEMMA ToolsDoneStep ==
    ASSUME IInv, ToolsDone
    PROVE  IInv'
<1>0. /\ phase = "tools" /\ phase' = "messages" /\ index' = 1
      /\ UNCHANGED <<payload, stack, budget, stripped, declared, callIDs>>
      /\ payload \in Payloads /\ stack = <<>> /\ callIDs = {} /\ Accounting
      /\ Len(payload.messages) \in Nat
  BY Shape DEF ToolsDone, IInv, StackKept, MessagesSoFar
<1>1. /\ GoodTools(payload) /\ Nodes(payload) \subseteq stripped
      /\ declared = {NameOf(t) : t \in 1 .. Len(Tools(payload))}
  <2>1. CASE ~payload.hasTools
    <3>1. Len(Tools(payload)) = 0 /\ DOMAIN Tools(payload) = 1 .. 0
      BY <1>0, <2>1, Shape
    <3>2. GoodTools(payload)
      BY <2>1 DEF GoodTools
    <3>3. Nodes(payload) = {}
      BY <3>1 DEF Nodes
    <3>4. index - 1 <= 0 /\ index \in Nat \ {0} /\ declared = {NameOf(t) : t \in 1 .. index - 1}
      BY <1>0, <3>1 DEF IInv, ToolsSoFar, Begun
    <3> QED BY <3>1, <3>2, <3>3, <3>4
  <2>2. CASE payload.hasTools
    <3>1. Len(payload.tools) \in 1 .. MaxTools /\ index > Len(payload.tools)
      BY <2>2 DEF ToolsDone
    <3> QED BY <1>0, <2>2, <3>1, AllToolsGood, Shape
  <2> QED BY <2>1, <2>2
<1>2. ToolsAccepted'
  BY <1>0, <1>1 DEF ToolsAccepted, NameOf
<1>3. MessagesSoFar'
  <2>1. Checked' = 0 /\ callIDs' = {} /\ payload' = payload
    BY <1>0 DEF Checked
  <2>2. MessagesPart'
    BY <1>0, <2>1 DEF MessagesPart
  <2> QED BY <1>0, <2>2 DEF MessagesSoFar
<1>4. Accounting' /\ Untouched' /\ ToolsSoFar' /\ Walking' /\ StackKept' /\ LastTests' /\ Verdict'
  BY <1>0 DEF Accounting, Untouched, ToolsSoFar, Walking, StackKept, LastTests, Verdict
<1>5. payload' \in Payloads /\ index' \in Nat \ {0} /\ phase' \in Phases \union Rejections
  BY <1>0 DEF Phases
<1> QED BY <1>2, <1>3, <1>4, <1>5 DEF IInv

-----------------------------------------------------------------------------
(*                               The messages                                *)

(* As many different IDs as calls: no two calls share one. *)
LEMMA DistinctIDs ==
    ASSUME NEW m, m.calls \in Seq(CallType), Cardinality(IDs(m)) = Len(m.calls)
    PROVE  \A c, d \in 1 .. Len(m.calls) : m.calls[c].id = m.calls[d].id => c = d
<1> DEFINE S == 1 .. Len(m.calls)
           f == [c \in S |-> m.calls[c].id]
<1>1. Len(m.calls) \in Nat
  OBVIOUS
<1>2. IsFiniteSet(S) /\ Cardinality(S) = Len(m.calls)
  <2>1. /\ IsFiniteSet(1 .. Len(m.calls))
        /\ Cardinality(1 .. Len(m.calls)) =
             IF 1 > Len(m.calls) THEN 0 ELSE Len(m.calls) - 1 + 1
    <3>1. 1 \in Int /\ Len(m.calls) \in Int
      BY <1>1
    <3> QED BY <3>1, FS_Interval
  <2> QED BY <1>1, <2>1
<1>3. f \in Surjection(S, IDs(m))
  BY DEF Surjection, IDs
<1>4. f \in Injection(S, IDs(m))
  <2> HIDE DEF S, f
  <2> QED BY <1>2, <1>3, FS_Surjection
<1>5. \A c, d \in S : f[c] = f[d] => c = d
  <2> HIDE DEF f
  <2> QED BY <1>4 DEF Injection, IsInjective
<1> QED BY <1>5

(* One more message: its calls are declared, clean and new. *)
LEMMA CheckMessageStep ==
    ASSUME IInv, CheckMessage
    PROVE  IInv'
<1>0. /\ phase = "messages" /\ index <= Len(payload.messages)
      /\ UNCHANGED <<payload, stack, budget, stripped, declared>>
      /\ \/ /\ MessageOK(payload.messages[index]) /\ UNCHANGED phase
            /\ callIDs' = callIDs \union IDs(payload.messages[index]) /\ index' = index + 1
         \/ phase' = "no messages" /\ UNCHANGED <<callIDs, index>>
  BY DEF CheckMessage, Message
<1>a. index \in Nat /\ 1 <= index /\ index <= Len(payload.messages)
  BY <1>0, IndexPositive
<1>1. /\ payload \in Payloads /\ Accounting /\ stack = <<>>
      /\ GoodTools(payload) /\ Nodes(payload) \subseteq stripped
      /\ declared = {NameOf(t) : t \in 1 .. Len(Tools(payload))}
  BY <1>0 DEF IInv, StackKept, ToolsAccepted
<1>2. Accounting' /\ ToolsAccepted'
  BY <1>0, <1>1 DEF Accounting, ToolsAccepted, NameOf
<1>3. phase' \in {"messages", "no messages"} /\ index' \in Nat \ {0}
  <2>1. index' = index \/ index' = index + 1
    BY <1>0
  <2>2. phase' \in {"messages", "no messages"}
    BY <1>0
  <2>3. index' \in Nat \ {0}
    BY <1>a, <2>1
  <2> QED BY <2>2, <2>3
<1>4. Untouched' /\ ToolsSoFar' /\ Walking' /\ StackKept' /\ LastTests' /\ Verdict'
  BY <1>0, <1>1, <1>3 DEF Untouched, ToolsSoFar, Walking, StackKept, LastTests, Verdict
<1>5. payload' \in Payloads /\ index' \in Nat \ {0} /\ phase' \in Phases \union Rejections
  <2>1. index' \in Nat \ {0}
    BY <1>3
  <2>2. phase' \in Phases \union Rejections
    BY <1>3 DEF Phases, Rejections
  <2> QED BY <1>0, <1>1, <2>1, <2>2
<1>6. MessagesSoFar'
  <2>1. CASE phase' = "no messages"
    BY <2>1 DEF MessagesSoFar
  <2>2. CASE /\ MessageOK(payload.messages[index]) /\ phase' = "messages"
             /\ callIDs' = callIDs \union IDs(payload.messages[index]) /\ index' = index + 1
    <3>1. /\ MessagesPart /\ Checked = index - 1 /\ Checked' = index
          /\ payload' = payload /\ declared' = declared
      BY <1>0, <1>a, <2>2 DEF IInv, MessagesSoFar, Checked
    <3>2. /\ payload.messages \in Seq(MessageType) /\ Len(payload.messages) \in Nat
          /\ payload.messages[index] \in MessageType
          /\ CallsOf(index) \in Seq(CallType)
      <4>1. payload.messages \in Seq(MessageType) /\ Len(payload.messages) \in Nat
        BY <1>1, Shape
      <4>2. payload.messages[index] \in MessageType
        BY <1>a, <4>1
      <4> QED BY <4>1, <4>2 DEF CallsOf, MessageType
    <3>3. /\ Len(CallsOf(index)) <= MaxCalls
          /\ \A c \in 1 .. Len(CallsOf(index)) :
               CallsOf(index)[c].name \in declared /\ CallsOf(index)[c].credential \in Unseen
          /\ Cardinality(IDs(payload.messages[index])) = Len(CallsOf(index))
          /\ IDs(payload.messages[index]) \intersect callIDs = {}
      BY <2>2 DEF MessageOK, CallsOK, ArgumentsOK, CallsOf
    <3>4. 1 .. index = (1 .. index - 1) \union {index}
      BY <1>a
    <3>5. callIDs' = UNION {IDs(payload.messages[m]) : m \in 1 .. index}
      BY <2>2, <3>1, <3>4 DEF MessagesPart
    <3>6. ASSUME NEW m \in 1 .. index
          PROVE  /\ Len(CallsOf(m)) <= MaxCalls
                 /\ \A c \in 1 .. Len(CallsOf(m)) :
                      CallsOf(m)[c].name \in declared /\ CallsOf(m)[c].credential \in Unseen
      BY <3>1, <3>3, <3>4 DEF MessagesPart
    <3>7. \A m \in 1 .. index - 1 : IDs(payload.messages[m]) \subseteq callIDs
      BY <3>1 DEF MessagesPart
    <3>8. \A m : \A c \in 1 .. Len(CallsOf(m)) : CallsOf(m)[c].id \in IDs(payload.messages[m])
      BY DEF IDs, CallsOf
    <3>9. ASSUME NEW l \in 1 .. index, NEW m \in 1 .. index,
                 NEW c \in 1 .. Len(CallsOf(l)), NEW d \in 1 .. Len(CallsOf(m)),
                 CallsOf(l)[c].id = CallsOf(m)[d].id
          PROVE  l = m /\ c = d
      <4>1. CASE l \in 1 .. index - 1 /\ m \in 1 .. index - 1
        BY <3>1, <3>9, <4>1 DEF MessagesPart
      <4>2. CASE l = index /\ m = index
        BY <3>2, <3>3, <3>9, <4>2, DistinctIDs DEF CallsOf
      <4>3. CASE l = index /\ m \in 1 .. index - 1
        BY <3>3, <3>7, <3>8, <3>9, <4>3
      <4>4. CASE l \in 1 .. index - 1 /\ m = index
        BY <3>3, <3>7, <3>8, <3>9, <4>4
      <4> QED BY <3>4, <4>1, <4>2, <4>3, <4>4
    <3>10. MessagesPart'
      <4>1. \A m : CallsOf(m)' = CallsOf(m)
        BY <3>1 DEF CallsOf
      <4>2. Checked' <= Len(payload'.messages)
        BY <1>0, <3>1
      <4>3. callIDs' = UNION {IDs(payload'.messages[m]) : m \in 1 .. Checked'}
        BY <3>1, <3>5
      <4>4. \A m \in 1 .. Checked' :
              /\ Len(CallsOf(m)') <= MaxCalls
              /\ \A c \in 1 .. Len(CallsOf(m)') :
                   CallsOf(m)'[c].name \in declared' /\ CallsOf(m)'[c].credential \in Unseen
        BY <3>1, <3>6, <4>1
      <4>5. \A l, m \in 1 .. Checked' :
              \A c \in 1 .. Len(CallsOf(l)'), d \in 1 .. Len(CallsOf(m)') :
                CallsOf(l)'[c].id = CallsOf(m)'[d].id => l = m /\ c = d
        BY <3>1, <3>9, <4>1
      <4> QED BY <4>2, <4>3, <4>4, <4>5 DEF MessagesPart, IDs
    <3> QED BY <2>2, <3>10 DEF MessagesSoFar
  <2> QED BY <1>0, <2>1, <2>2
<1> QED BY <1>2, <1>4, <1>5, <1>6 DEF IInv

-----------------------------------------------------------------------------
(*                           The walk of a schema                            *)

Frame == [at : Path, todo : SUBSET Path]

(* What the walk has established, with its types. *)
LEMMA WalkFacts ==
    ASSUME IInv, phase = "walk"
    PROVE  /\ payload \in Payloads /\ payload.hasTools /\ payload.tools[index].ok
           /\ Len(payload.tools) \in 1 .. MaxTools /\ index \in 1 .. Len(payload.tools)
           /\ Tools(payload) = payload.tools /\ DOMAIN payload.tools = 1 .. Len(payload.tools)
           /\ SchemaOf(index).nodes \subseteq Seq(STRING) /\ <<>> \in SchemaOf(index).nodes
           /\ stack \in Seq(Frame) /\ Len(stack) \in Nat /\ Len(stack) >= 1
<1>1. payload \in Payloads /\ Walking
  BY DEF IInv
<1>2. /\ payload.hasTools /\ payload.tools[index].ok
      /\ Len(payload.tools) \in 1 .. MaxTools /\ index <= Len(payload.tools)
      /\ stack \in Seq(Frame) /\ Len(stack) >= 1
  BY <1>1 DEF Walking, Frame
<1>3. index \in Nat /\ 1 <= index
  BY IndexPositive
<1>4. Len(payload.tools) \in Nat
  BY <1>1, Shape
<1>5. index \in 1 .. Len(payload.tools)
  BY <1>2, <1>3, <1>4
<1>6. SchemaOf(index).nodes \subseteq Seq(STRING) /\ <<>> \in SchemaOf(index).nodes
  BY <1>1, <1>5, SchemaShape DEF Path
<1>7. Tools(payload) = payload.tools /\ DOMAIN payload.tools = 1 .. Len(payload.tools)
  BY <1>1, <1>2, Shape
<1> QED BY <1>1, <1>2, <1>5, <1>6, <1>7

(* A child is one level below its parent, which is its prefix. *)
LEMMA KidFacts ==
    ASSUME NEW n, NEW k \in Kids(n)
    PROVE  /\ k \in SchemaOf(index).nodes /\ Len(k) = Len(n) + 1
           /\ n = SubSeq(k, 1, Len(n))
BY DEF Kids, Tool, SchemaOf

(* A child that is still to be entered: new, one level below the top of the  *)
(* stack, and its parent has been entered.                                   *)
LEMMA NextNode ==
    ASSUME IInv, phase = "walk", NEW n \in stack[Len(stack)].todo
    PROVE  /\ n \in SchemaOf(index).nodes /\ ~Seen(n) /\ Len(n) = Len(stack) - 1
           /\ n = <<>> <=> Len(stack) = 1
           /\ \A m \in SchemaOf(index).nodes : n \in Kids(m) => Seen(m)
<1> DEFINE L == Len(stack)
<1>0. /\ SchemaOf(index).nodes \subseteq Seq(STRING) /\ <<>> \in SchemaOf(index).nodes
      /\ L \in Nat /\ L >= 1
  BY WalkFacts
<1>a. L \in Nat /\ L >= 1
  BY <1>0
<1>1. /\ stack[1].todo = IF Seen(<<>>) THEN {} ELSE {<<>>}
      /\ \A i \in 2 .. L : FrameOK(i)
  BY DEF IInv, Walking
<1>2. CASE L = 1
  <2>1. n = <<>> /\ ~Seen(n) /\ Len(n) = 0
    BY <1>1, <1>2
  <2>2. ASSUME NEW m \in SchemaOf(index).nodes PROVE n \notin Kids(m)
    <3>1. Len(m) \in Nat
      BY <1>0
    <3>2. Len(m) + 1 # 0
      BY <3>1
    <3> QED BY <2>1, <3>2, KidFacts
  <2> QED BY <1>0, <1>2, <2>1, <2>2
<1>3. CASE L # 1
  <2>1. L \in 2 .. L
    <3> HIDE DEF L
    <3> QED BY <1>a, <1>3
  <2>2. FrameOK(L)
    BY <1>1, <2>1
  <2>3. /\ stack[L].at \in SchemaOf(index).nodes /\ Seen(stack[L].at)
        /\ Len(stack[L].at) = L - 2 /\ n \in Kids(stack[L].at) /\ ~Seen(n)
    BY <2>2 DEF FrameOK
  <2>4. /\ n \in SchemaOf(index).nodes /\ Len(n) = L - 2 + 1
        /\ stack[L].at = SubSeq(n, 1, L - 2)
    <3>1. /\ n \in SchemaOf(index).nodes /\ Len(n) = Len(stack[L].at) + 1
          /\ stack[L].at = SubSeq(n, 1, Len(stack[L].at))
      BY <2>3, KidFacts
    <3> HIDE DEF L
    <3> QED BY <2>3, <3>1
  <2>5. Len(n) = L - 1 /\ n # <<>>
    <3>1. L - 2 + 1 = L - 1 /\ L - 1 # 0
      BY <1>0, <1>3
    <3>2. Len(<<>>) = 0
      OBVIOUS
    <3> HIDE DEF L
    <3> QED BY <2>4, <3>1, <3>2
  <2>6. ASSUME NEW m \in SchemaOf(index).nodes, n \in Kids(m) PROVE Seen(m)
    <3>1. Len(n) = Len(m) + 1 /\ m = SubSeq(n, 1, Len(m))
      BY <2>6, KidFacts
    <3>2. Len(m) \in Nat
      BY <1>0
    <3>3. Len(m) = L - 2
      BY <1>0, <2>5, <3>1, <3>2
    <3> QED BY <2>3, <2>4, <3>1, <3>3
  <2> QED BY <1>3, <2>3, <2>4, <2>5, <2>6
<1> QED BY <1>2, <1>3

(* What is to be entered is in the tree. *)
LEMMA FramesInTree ==
    ASSUME IInv, phase = "walk", NEW i \in 1 .. Len(stack)
    PROVE  stack[i].todo \subseteq SchemaOf(index).nodes
<1>1. /\ stack[1].todo = IF Seen(<<>>) THEN {} ELSE {<<>>}
      /\ \A j \in 2 .. Len(stack) : FrameOK(j)
  BY DEF IInv, Walking
<1>2. CASE i = 1
  BY <1>1, <1>2, WalkFacts
<1>3. CASE i # 1
  <2>1. i \in 2 .. Len(stack)
    BY <1>3, WalkFacts
  <2>2. stack[i].todo \subseteq Kids(stack[i].at)
    BY <1>1, <2>1 DEF FrameOK
  <2> QED BY <2>2, KidFacts
<1> QED BY <1>2, <1>3

(* A node that fails its tests condemns the tools. *)
LEMMA EnterRejects ==
    ASSUME IInv, phase = "walk", NEW n \in stack[Len(stack)].todo, ~NodeOK(n)
    PROVE  ~GoodTools(payload)
<1>0. n \in SchemaOf(index).nodes /\ ~Seen(n)
  BY NextNode
<1>1. /\ payload \in Payloads /\ payload.hasTools /\ index \in DOMAIN payload.tools
      /\ index \in 1 .. Len(Tools(payload)) /\ index \in 1 .. Len(payload.tools)
  BY WalkFacts
<1>2. /\ IsFiniteSet(stripped) /\ stripped \subseteq Nodes(payload)
      /\ budget \in Nat /\ budget + Cardinality(stripped) = MaxSchemaNodes
  BY DEF IInv, Accounting
<1>3. CASE ~(Len(n) <= MaxSchemaDepth)
  BY <1>0, <1>1, <1>3 DEF GoodTools, SchemaOf
<1>4. CASE ~(n \in SchemaOf(index).dialect <=> n = <<>>)
  BY <1>0, <1>1, <1>4 DEF GoodTools, SchemaOf
<1>5. CASE n \in SchemaOf(index).early
  BY <1>1, <1>5 DEF GoodTools, SchemaOf
<1>6. CASE ~(budget > 0)
  <2> DEFINE more == stripped \union {<<index, n>>}
  <2>1. <<index, n>> \in Nodes(payload) /\ <<index, n>> \notin stripped
    BY <1>0, <1>1, NodePairs DEF Seen
  <2>2. Cardinality(stripped) \in Nat
    BY <1>2, FS_CardinalityType
  <2>3. IsFiniteSet(more) /\ Cardinality(more) = Cardinality(stripped) + 1
    BY <1>2, <2>1, FS_AddElement
  <2>4. Cardinality(stripped) = MaxSchemaNodes
    BY <1>2, <1>6, <2>2
  <2>5. more \subseteq Nodes(payload)
    BY <1>2, <2>1
  <2>6. IsFiniteSet(Nodes(payload))
    BY <1>1, NodesFinite
  <2> HIDE DEF more
  <2>7. /\ Cardinality(more) <= Cardinality(Nodes(payload))
        /\ Cardinality(Nodes(payload)) \in Nat
    BY <2>5, <2>6, FS_Subset, FS_CardinalityType
  <2>8. ~(Cardinality(Nodes(payload)) <= MaxSchemaNodes)
    BY <2>2, <2>3, <2>4, <2>7
  <2> QED BY <1>1, <2>8 DEF GoodTools
<1> QED BY <1>3, <1>4, <1>5, <1>6 DEF NodeOK, Tool, SchemaOf

Push(st, n, kids) ==
    Append([st EXCEPT ![Len(st)].todo = @ \ {n}], [at |-> n, todo |-> kids])

(* The stack after a push: the entered node is struck off the list of its    *)
(* parent, and its own children are listed.                                  *)
LEMMA Pushed ==
    ASSUME NEW st, NEW n, NEW kids, NEW new, st \in Seq(Frame), Len(st) >= 1,
           n \in Path, kids \subseteq Path, new = Push(st, n, kids)
    PROVE  /\ new \in Seq(Frame) /\ Len(new) = Len(st) + 1
           /\ new[Len(st) + 1].at = n /\ new[Len(st) + 1].todo = kids
           /\ new[Len(st)].at = st[Len(st)].at
           /\ new[Len(st)].todo = st[Len(st)].todo \ {n}
           /\ \A i \in 1 .. Len(st) - 1 : new[i] = st[i]
<1> DEFINE L == Len(st)
           mid == [st EXCEPT ![L].todo = @ \ {n}]
           top == [at |-> n, todo |-> kids]
<1>1. L \in Nat /\ L \in 1 .. L /\ st \in [1 .. L -> Frame]
  OBVIOUS
<1>2. st[L] \in Frame
  BY <1>1
<1>3. [st[L] EXCEPT !.todo = st[L].todo \ {n}] \in Frame
  BY <1>2 DEF Frame
<1>4. mid = [st EXCEPT ![L] = [st[L] EXCEPT !.todo = st[L].todo \ {n}]]
  BY <1>1
<1>5. mid \in Seq(Frame) /\ Len(mid) = L
  BY <1>1, <1>3, <1>4
<1>6. top \in Frame
  BY DEF Frame
<1>7. mid[L].at = st[L].at /\ mid[L].todo = st[L].todo \ {n}
  BY <1>1, <1>2, <1>4 DEF Frame
<1>8. \A i \in 1 .. L - 1 : mid[i] = st[i]
  BY <1>1, <1>4
<1>9. new = Append(mid, top)
  BY DEF Push
<1> HIDE DEF mid, top
<1>10. /\ new \in Seq(Frame) /\ Len(new) = L + 1 /\ new[L + 1] = top
       /\ \A i \in 1 .. L : new[i] = mid[i]
  <2>1. /\ Append(mid, top) \in Seq(Frame) /\ Len(Append(mid, top)) = Len(mid) + 1
        /\ \A i \in 1 .. Len(mid) : Append(mid, top)[i] = mid[i]
        /\ Append(mid, top)[Len(mid) + 1] = top
    BY <1>5, <1>6, AppendProperties
  <2> HIDE DEF L
  <2> QED BY <1>5, <1>9, <2>1
<1>11. top.at = n /\ top.todo = kids
  BY DEF top
<1>12. \A i \in 1 .. L - 1 : new[i] = st[i]
  <2>1. \A i \in 1 .. L - 1 : i \in 1 .. L
    BY <1>1
  <2> QED BY <1>8, <1>10, <2>1
<1>13. L \in 1 .. L
  BY <1>1
<1> QED BY <1>7, <1>10, <1>11, <1>12, <1>13

(* The stack after a return. *)
LEMMA Popped ==
    ASSUME NEW st \in Seq(Frame), Len(st) >= 1, NEW new,
           new = SubSeq(st, 1, Len(st) - 1)
    PROVE  /\ new \in Seq(Frame) /\ Len(new) = Len(st) - 1
           /\ \A i \in 1 .. Len(st) - 1 : new[i] = st[i]
<1> DEFINE q == Len(st) - 1
<1>1. q \in Nat /\ q <= Len(st) /\ 1 \in Int /\ q \in Int
  OBVIOUS
<1>2. \A i \in 1 .. q : st[i] \in Frame
  BY <1>1
<1>3. /\ SubSeq(st, 1, q) \in Seq(Frame)
      /\ Len(SubSeq(st, 1, q)) = IF 1 <= q THEN q - 1 + 1 ELSE 0
      /\ \A i \in 1 .. q - 1 + 1 : SubSeq(st, 1, q)[i] = st[1 + i - 1]
  <2> HIDE DEF q
  <2> QED BY <1>1, <1>2, SubSeqProperties
<1>4. Len(SubSeq(st, 1, q)) = q /\ \A i \in 1 .. q : SubSeq(st, 1, q)[i] = st[i]
  <2> HIDE DEF q
  <2> QED BY <1>1, <1>3
<1> QED BY <1>3, <1>4

(* A node that passes its tests: the walk goes down. *)
LEMMA EnterAccepts ==
    ASSUME IInv, phase = "walk", NEW n \in stack[Len(stack)].todo, NodeOK(n),
           stack' = Append([stack EXCEPT ![Len(stack)].todo = @ \ {n}],
                           [at |-> n, todo |-> Kids(n)]),
           budget' = budget - 1, stripped' = stripped \union {<<index, n>>},
           UNCHANGED <<payload, phase, index, declared, callIDs>>
    PROVE  IInv'
<1> DEFINE L == Len(stack)
           N == SchemaOf(index).nodes
<1>1. /\ payload \in Payloads /\ payload.hasTools /\ payload.tools[index].ok
      /\ Len(payload.tools) \in 1 .. MaxTools /\ index \in 1 .. Len(payload.tools)
      /\ Tools(payload) = payload.tools /\ N \subseteq Seq(STRING)
      /\ stack \in Seq(Frame)
  BY WalkFacts
<1>2. L \in Nat /\ L >= 1
  BY WalkFacts
<1>3. /\ n \in N /\ ~Seen(n) /\ Len(n) = L - 1 /\ (n = <<>> <=> L = 1)
      /\ \A m \in N : n \in Kids(m) => Seen(m)
  BY NextNode
<1>4. /\ stack[1].todo = IF Seen(<<>>) THEN {} ELSE {<<>>}
      /\ \A i \in 2 .. L : FrameOK(i)
      /\ \A m \in N : Seen(m) => /\ NodeFine(index, m)
                                 /\ m \in SchemaOf(index).late => Framed(m)
                                 /\ \A k \in Kids(m) : Seen(k) \/ Awaited(k)
      /\ \A m \in N : \A k \in Kids(m) : Seen(k) => Seen(m)
  BY DEF IInv, Walking
<1>5. /\ stack' \in Seq(Frame) /\ Len(stack') = L + 1
      /\ stack'[L + 1].at = n /\ stack'[L + 1].todo = Kids(n)
      /\ stack'[L].at = stack[L].at /\ stack'[L].todo = stack[L].todo \ {n}
      /\ \A i \in 1 .. L - 1 : stack'[i] = stack[i]
  <2>1. n \in Path
    BY <1>1, <1>3 DEF Path
  <2>2. Kids(n) \subseteq Path
    BY <1>1, KidFacts DEF Path
  <2>3. stack \in Seq(Frame) /\ Len(stack) >= 1
    BY WalkFacts
  <2>4. stack' = Push(stack, n, Kids(n))
    BY DEF Push
  <2>5. stack' \in Seq(Frame) /\ Len(stack') = L + 1
    <3>1. Push(stack, n, Kids(n)) \in Seq(Frame)
      BY <2>1, <2>2, <2>3, Pushed
    <3>2. Len(Push(stack, n, Kids(n))) = L + 1
      BY <2>1, <2>2, <2>3, Pushed
    <3> QED BY <2>4, <3>1, <3>2, Zenon
  <2>6. stack'[L + 1].at = n /\ stack'[L + 1].todo = Kids(n)
    BY <2>1, <2>2, <2>3, <2>4, Pushed
  <2>7. stack'[L].at = stack[L].at /\ stack'[L].todo = stack[L].todo \ {n}
    BY <2>1, <2>2, <2>3, <2>4, Pushed
  <2>8. \A i \in 1 .. L - 1 : stack'[i] = stack[i]
    BY <2>1, <2>2, <2>3, <2>4, Pushed
  <2> QED BY <2>5, <2>6, <2>7, <2>8
<1>6. /\ \A m : Seen(m)' <=> Seen(m) \/ m = n
      /\ \A m : Kids(m)' = Kids(m)
      /\ SchemaOf(index)' = SchemaOf(index)
      /\ \A m : NodeFine(index, m)' <=> NodeFine(index, m)
  BY DEF Seen, Kids, Tool, SchemaOf, NodeFine
<1>7. NodeFine(index, n)
  BY DEF NodeOK, NodeFine, Tool, SchemaOf
<1>8. \A k \in Kids(n) : ~Seen(k) /\ k # n
  <2> SUFFICES ASSUME NEW k \in Kids(n) PROVE ~Seen(k) /\ k # n
    OBVIOUS
  <2>1. ~Seen(k)
    BY <1>3, <1>4
  <2>2. Len(k) = Len(n) + 1 /\ Len(n) \in Nat
    BY <1>1, <1>3, KidFacts
  <2>3. Len(k) # Len(n)
    BY <2>2
  <2> QED BY <2>1, <2>3
<1> HIDE DEF L, N
<1>9. stack'[1].todo = IF Seen(<<>>)' THEN {} ELSE {<<>>}
  <2>1. CASE L = 1
    <3>1. n = <<>> /\ Seen(<<>>)'
      BY <1>3, <1>6, <2>1
    <3>2. stack[1].todo \subseteq {<<>>}
      BY <1>4
    <3>3. stack'[1].todo = stack[1].todo \ {n}
      BY <1>5, <2>1
    <3> QED BY <3>1, <3>2, <3>3
  <2>2. CASE L # 1
    <3>1. 1 \in 1 .. L - 1
      BY <1>2, <2>2
    <3>2. stack'[1] = stack[1]
      BY <1>5, <3>1
    <3>3. Seen(<<>>)' <=> Seen(<<>>)
      BY <1>3, <1>6, <2>2
    <3> QED BY <1>4, <3>2, <3>3
  <2> QED BY <2>1, <2>2
<1>10. ASSUME NEW i \in 2 .. L + 1 PROVE FrameOK(i)'
  <2> SUFFICES /\ stack'[i].at \in N /\ <<index, stack'[i].at>> \in stripped'
               /\ Len(stack'[i].at) = i - 2
               /\ stack'[i].todo \subseteq Kids(stack'[i].at)
               /\ \A k \in stack'[i].todo : ~Seen(k) /\ k # n
    BY DEF FrameOK, N, Seen, Kids, Tool, SchemaOf
  <2>1. CASE i = L + 1
    <3>1. stack'[i].at = n /\ stack'[i].todo = Kids(n)
      BY <1>5, <2>1
    <3>2. <<index, n>> \in stripped'
      OBVIOUS
    <3>3. L - 1 = i - 2
      BY <1>2, <2>1
    <3>4. <<index, stack'[i].at>> \in stripped'
      BY <3>1, <3>2
    <3> QED BY <1>3, <1>8, <3>1, <3>3, <3>4
  <2>2. CASE i # L + 1
    <3>1. i \in 2 .. L
      BY <1>2, <2>2
    <3>2. /\ stack[i].at \in N /\ Seen(stack[i].at) /\ Len(stack[i].at) = i - 2
          /\ stack[i].todo \subseteq Kids(stack[i].at)
          /\ \A k \in stack[i].todo : ~Seen(k)
      BY <1>4, <3>1 DEF FrameOK, N
    <3>3. stack'[i].at = stack[i].at
      BY <1>2, <1>5, <3>1
    <3>4. <<index, stack'[i].at>> \in stripped'
      BY <3>2, <3>3 DEF Seen
    <3>5. CASE i = L
      <4>1. stack'[i].todo = stack[i].todo \ {n}
        BY <1>5, <3>5
      <4> QED BY <3>2, <3>3, <3>4, <4>1
    <3>6. CASE i # L
      <4>1. i \in 1 .. L - 1
        BY <1>2, <3>1, <3>6
      <4>2. stack'[i] = stack[i]
        BY <1>5, <4>1
      <4>3. ASSUME NEW k \in stack[i].todo PROVE k # n
        <5>1. Len(k) = i - 2 + 1
          BY <3>2, KidFacts
        <5>2. i - 2 + 1 # L - 1
          BY <1>2, <3>6
        <5> QED BY <1>3, <5>1, <5>2
      <4> QED BY <3>2, <3>4, <4>2, <4>3
    <3> QED BY <3>5, <3>6
  <2> QED BY <2>1, <2>2
<1>11. L + 1 \in 2 .. L + 1 /\ 2 .. L \subseteq 2 .. L + 1
  BY <1>2
<1>12. \A m : Framed(m)' <=> \E i \in 2 .. L + 1 : stack'[i].at = m
  BY <1>5 DEF Framed
<1>13. \A k : Awaited(k)' <=> \E i \in 2 .. L + 1 : k \in stack'[i].todo
  BY <1>5 DEF Awaited
<1>14. \A m : Framed(m) => Framed(m)'
  <2>1. \A i \in 2 .. L : stack'[i].at = stack[i].at
    BY <1>2, <1>5
  <2> QED BY <1>11, <1>12, <2>1 DEF Framed, L
<1>15. \A k : Awaited(k) => Awaited(k)' \/ Seen(k)'
  <2> SUFFICES ASSUME NEW k, NEW i \in 2 .. L, k \in stack[i].todo
               PROVE  Awaited(k)' \/ Seen(k)'
    BY DEF Awaited, L
  <2>1. CASE k = n
    BY <1>6, <2>1
  <2>2. CASE k # n
    <3>1. k \in stack'[i].todo
      BY <1>2, <1>5, <2>2
    <3> QED BY <1>11, <1>13, <3>1
  <2> QED BY <2>1, <2>2
<1>16. ASSUME NEW m \in N, Seen(m)'
       PROVE  /\ NodeFine(index, m)'
              /\ m \in SchemaOf(index).late => Framed(m)'
              /\ \A k \in Kids(m) : Seen(k)' \/ Awaited(k)'
  <2>1. CASE m = n
    <3>1. Framed(n)'
      BY <1>5, <1>11, <1>12
    <3>2. \A k \in Kids(n) : Awaited(k)'
      BY <1>5, <1>11, <1>13
    <3>3. NodeFine(index, n)'
      BY <1>6, <1>7
    <3> QED BY <2>1, <3>1, <3>2, <3>3
  <2>2. CASE m # n
    <3>1. Seen(m)
      BY <1>6, <1>16, <2>2
    <3> QED BY <1>4, <1>6, <1>14, <1>15, <3>1
  <2> QED BY <2>1, <2>2
<1>17. ASSUME NEW m \in N, NEW k \in Kids(m), Seen(k)' PROVE Seen(m)'
  BY <1>3, <1>4, <1>6, <1>17
<1>18. Walking'
  <2>1. \A m \in SchemaOf(index)'.nodes : Seen(m)' =>
            /\ NodeFine(index, m)'
            /\ m \in SchemaOf(index)'.late => Framed(m)'
            /\ \A k \in Kids(m)' : Seen(k)' \/ Awaited(k)'
    BY <1>6, <1>16 DEF N
  <2>2. \A m \in SchemaOf(index)'.nodes : \A k \in Kids(m)' : Seen(k)' => Seen(m)'
    BY <1>6, <1>17 DEF N
  <2>3. /\ payload'.hasTools /\ payload'.tools[index'].ok
        /\ Len(payload'.tools) \in 1 .. MaxTools /\ index' <= Len(payload'.tools)
    BY <1>1
  <2>4. stack' \in Seq([at : Path, todo : SUBSET Path]) /\ Len(stack') >= 1
    BY <1>2, <1>5 DEF Frame
  <2>5. \A i \in 2 .. Len(stack') : FrameOK(i)'
    BY <1>5, <1>10
  <2> QED BY <1>9, <2>1, <2>2, <2>3, <2>4, <2>5 DEF Walking
<1>19. Accounting'
  <2>1. /\ IsFiniteSet(stripped) /\ stripped \subseteq Nodes(payload)
        /\ budget \in Nat /\ budget + Cardinality(stripped) = MaxSchemaNodes
    BY DEF IInv, Accounting
  <2>2. <<index, n>> \in Nodes(payload) /\ <<index, n>> \notin stripped
    BY <1>1, <1>3, NodePairs DEF Seen, N
  <2>3. IsFiniteSet(stripped') /\ Cardinality(stripped') = Cardinality(stripped) + 1
    BY <2>1, <2>2, FS_AddElement
  <2>4. Cardinality(stripped) \in Nat
    BY <2>1, FS_CardinalityType
  <2>5. budget > 0
    BY DEF NodeOK
  <2>6. budget' \in Nat /\ budget' + Cardinality(stripped') = MaxSchemaNodes
    BY <2>1, <2>3, <2>4, <2>5
  <2>7. stripped' \subseteq Nodes(payload')
    BY <2>1, <2>2
  <2> QED BY <2>3, <2>6, <2>7 DEF Accounting
<1>20. ToolsSoFar'
  <2>1. /\ index - 1 <= Len(Tools(payload))
        /\ \A t \in 1 .. index - 1 : ToolDone(t)
        /\ declared = {NameOf(t) : t \in 1 .. Begun}
        /\ \A t, u \in 1 .. Begun : NameOf(t) = NameOf(u) => t = u
        /\ \A s \in stripped : s[1] <= Begun
        /\ Begun = index
    BY DEF IInv, ToolsSoFar, Begun
  <2>2. \A t : NameOf(t)' = NameOf(t) /\ (ToolDone(t) => ToolDone(t)')
    BY DEF NameOf, ToolDone, NodeFine, SchemaOf
  <2>3. Begun' = index
    BY DEF Begun
  <2>4. \A s \in stripped' : s[1] <= index
    BY <1>1, <2>1
  <2> QED BY <2>1, <2>2, <2>3, <2>4 DEF ToolsSoFar, NameOf
<1>21. Untouched' /\ StackKept' /\ ToolsAccepted' /\ MessagesSoFar' /\ LastTests' /\ Verdict'
  BY DEF IInv, Untouched, StackKept, ToolsAccepted, MessagesSoFar, LastTests, Verdict
<1>22. payload' \in Payloads /\ index' \in Nat \ {0} /\ phase' \in Phases \union Rejections
  BY DEF IInv
<1> QED BY <1>18, <1>19, <1>20, <1>21, <1>22 DEF IInv

(* A node is entered: it passes its tests and the walk goes down, or it does *)
(* not and the request is turned away.                                       *)
LEMMA EnterNodeStep ==
    ASSUME IInv, EnterNode
    PROVE  IInv'
<1>1. phase = "walk" /\ UNCHANGED <<payload, index, declared, callIDs>>
  BY DEF EnterNode
<1>2. PICK n \in stack[Len(stack)].todo :
        IF NodeOK(n)
        THEN /\ stack' = Append([stack EXCEPT ![Len(stack)].todo = @ \ {n}],
                                [at |-> n, todo |-> Kids(n)])
             /\ budget' = budget - 1
             /\ stripped' = stripped \union {<<index, n>>}
             /\ UNCHANGED phase
        ELSE phase' = "no tools" /\ UNCHANGED <<stack, budget, stripped>>
  BY DEF EnterNode, Top, Strip, Walked
<1>3. CASE NodeOK(n)
  BY <1>1, <1>2, <1>3, EnterAccepts
<1>4. CASE ~NodeOK(n)
  <2>1. ~GoodTools(payload)
    BY <1>1, <1>4, EnterRejects
  <2>2. \A i \in 1 .. Len(stack) : stack[i].todo \subseteq SchemaOf(index).nodes
    BY <1>1, FramesInTree
  <2>3. phase' = "no tools" /\ UNCHANGED <<stack, budget, stripped>>
    BY <1>2, <1>4
  <2> QED BY <1>1, <2>1, <2>2, <2>3, RejectionKept
<1> QED BY <1>3, <1>4

(* When the walk is back at the bottom of the stack nothing is awaited: the  *)
(* nodes entered are closed under children, so they are all of the tree.     *)
LEMMA WalkComplete ==
    ASSUME IInv, phase = "walk", Len(stack) = 1, stack[1].todo = {}
    PROVE  ToolDone(index)
<1> DEFINE N == SchemaOf(index).nodes
           V == {n \in N : Seen(n)}
<1>1. /\ payload \in Payloads /\ payload.tools[index].ok
      /\ index \in 1 .. Len(payload.tools) /\ <<>> \in N
  BY WalkFacts
<1>2. /\ stack[1].todo = IF Seen(<<>>) THEN {} ELSE {<<>>}
      /\ \A n \in N : Seen(n) => /\ NodeFine(index, n)
                                 /\ n \in SchemaOf(index).late => Framed(n)
                                 /\ \A k \in Kids(n) : Seen(k) \/ Awaited(k)
  BY DEF IInv, Walking
<1>3. 2 .. Len(stack) = {}
  OBVIOUS
<1>4. \A n : ~Framed(n) /\ ~Awaited(n)
  BY <1>3 DEF Framed, Awaited
<1>5. <<>> \in V
  BY <1>1, <1>2
<1>6. \A n \in N : n \in V => Kids(n) \subseteq V
  BY <1>2, <1>4, KidFacts
<1>7. N \subseteq V
  <2> HIDE DEF V
  <2> QED BY <1>1, <1>5, <1>6, ClosedIsAll
<1>8. ASSUME NEW n \in N
      PROVE  <<index, n>> \in stripped /\ NodeFine(index, n) /\ n \notin SchemaOf(index).late
  BY <1>2, <1>4, <1>7 DEF Seen
<1> QED BY <1>1, <1>8 DEF ToolDone

(* The root's children are done: the next tool. *)
LEMMA LeaveRoot ==
    ASSUME IInv, phase = "walk", Len(stack) = 1, stack[1].todo = {},
           phase' = "tools", stack' = <<>>, index' = index + 1,
           UNCHANGED <<payload, budget, stripped, declared, callIDs>>
    PROVE  IInv'
<1>1. /\ payload \in Payloads /\ Tools(payload) = payload.tools
      /\ index \in 1 .. Len(payload.tools)
  BY WalkFacts
<1>2. ToolDone(index)
  BY WalkComplete
<1>3. /\ \A t \in 1 .. index - 1 : ToolDone(t)
      /\ declared = {NameOf(t) : t \in 1 .. index}
      /\ \A t, u \in 1 .. index : NameOf(t) = NameOf(u) => t = u
      /\ \A s \in stripped : s[1] <= index
  BY DEF IInv, ToolsSoFar, Begun
<1>4. index \in Nat /\ 1 <= index /\ index <= Len(payload.tools)
  BY <1>1, IndexPositive
<1>5. index' - 1 = index /\ Begun' = index /\ index' \in Nat \ {0}
  BY <1>4 DEF Begun
<1>6. \A t \in 1 .. index : ToolDone(t)
  <2>1. \A t \in 1 .. index : t \in 1 .. index - 1 \/ t = index
    BY <1>4
  <2> QED BY <1>2, <1>3, <2>1
<1>7. ToolsSoFar'
  <2>1. \A t : NameOf(t)' = NameOf(t) /\ (ToolDone(t) => ToolDone(t)')
    BY DEF NameOf, ToolDone, NodeFine, SchemaOf
  <2>2. index' - 1 <= Len(Tools(payload)')
    BY <1>1, <1>4, <1>5 DEF Tools
  <2>3. \A t \in 1 .. index' - 1 : ToolDone(t)'
    BY <1>5, <1>6, <2>1
  <2>4. declared' = {NameOf(t)' : t \in 1 .. Begun'}
    BY <1>3, <1>5, <2>1
  <2>5. \A t, u \in 1 .. Begun' : NameOf(t)' = NameOf(u)' => t = u
    BY <1>3, <1>5, <2>1
  <2>6. \A s \in stripped' : s[1] <= Begun'
    BY <1>3, <1>5
  <2> QED BY <2>2, <2>3, <2>4, <2>5, <2>6 DEF ToolsSoFar
<1>8. /\ Accounting' /\ Untouched' /\ Walking' /\ StackKept' /\ ToolsAccepted'
      /\ MessagesSoFar' /\ LastTests' /\ Verdict'
  BY DEF IInv, Accounting, Untouched, Walking, StackKept, ToolsAccepted,
     MessagesSoFar, LastTests, Verdict
<1>9. payload' \in Payloads /\ phase' \in Phases \union Rejections
  BY <1>1 DEF Phases
<1> QED BY <1>5, <1>7, <1>8, <1>9 DEF IInv

(* Back to the parent: what the frame below knows is still what it knew. *)
LEMMA LeaveInner ==
    ASSUME IInv, phase = "walk", Len(stack) # 1, stack[Len(stack)].todo = {},
           stack[Len(stack)].at \notin SchemaOf(index).late,
           stack' = SubSeq(stack, 1, Len(stack) - 1),
           UNCHANGED <<payload, phase, index, budget, stripped, declared, callIDs>>
    PROVE  IInv'
<1> DEFINE L == Len(stack)
           N == SchemaOf(index).nodes
<1>1. /\ payload.hasTools /\ payload.tools[index].ok /\ payload \in Payloads
      /\ Len(payload.tools) \in 1 .. MaxTools /\ index \in 1 .. Len(payload.tools)
      /\ stack \in Seq(Frame)
  BY WalkFacts
<1>2. L \in Nat /\ L >= 1
  BY WalkFacts
<1>3. /\ stack[1].todo = IF Seen(<<>>) THEN {} ELSE {<<>>}
      /\ \A i \in 2 .. L : FrameOK(i)
      /\ \A m \in N : Seen(m) => /\ NodeFine(index, m)
                                 /\ m \in SchemaOf(index).late => Framed(m)
                                 /\ \A k \in Kids(m) : Seen(k) \/ Awaited(k)
      /\ \A m \in N : \A k \in Kids(m) : Seen(k) => Seen(m)
  BY DEF IInv, Walking
<1>4. /\ stack' \in Seq(Frame) /\ Len(stack') = L - 1
      /\ \A i \in 1 .. L - 1 : stack'[i] = stack[i]
  BY <1>1, <1>2, Popped
<1>5. /\ \A m : Seen(m)' <=> Seen(m)
      /\ \A m : Kids(m)' = Kids(m)
      /\ SchemaOf(index)' = SchemaOf(index)
      /\ \A m : NodeFine(index, m)' <=> NodeFine(index, m)
  BY DEF Seen, Kids, Tool, SchemaOf, NodeFine
<1> HIDE DEF L, N
<1>6. /\ L - 1 >= 1 /\ 1 \in 1 .. L - 1
      /\ \A i \in 2 .. L - 1 : i \in 1 .. L - 1 /\ i \in 2 .. L
      /\ \A i \in 2 .. L : i \in 2 .. L - 1 \/ i = L
  <2>1. L \in Nat /\ L >= 1 /\ L # 1
    BY <1>2 DEF L
  <2> QED BY <2>1
<1>7. stack'[1].todo = IF Seen(<<>>)' THEN {} ELSE {<<>>}
  BY <1>3, <1>4, <1>5, <1>6
<1>8. ASSUME NEW i \in 2 .. L - 1 PROVE FrameOK(i)'
  <2>1. FrameOK(i) /\ stack'[i] = stack[i]
    BY <1>3, <1>4, <1>6
  <2> QED BY <2>1 DEF FrameOK, Seen, Kids, Tool, SchemaOf
<1>9. \A m : Framed(m) => Framed(m)' \/ m = stack[L].at
  <2> SUFFICES ASSUME NEW m, NEW i \in 2 .. L, stack[i].at = m, m # stack[L].at
               PROVE  Framed(m)'
    BY DEF Framed, L
  <2>1. i \in 2 .. L - 1 /\ stack'[i].at = m
    BY <1>4, <1>6
  <2> QED BY <1>4, <2>1 DEF Framed
<1>10. \A k : Awaited(k) => Awaited(k)'
  <2> SUFFICES ASSUME NEW k, NEW i \in 2 .. L, k \in stack[i].todo
               PROVE  Awaited(k)'
    BY DEF Awaited, L
  <2>1. i # L
    BY DEF L
  <2>2. i \in 2 .. L - 1 /\ k \in stack'[i].todo
    BY <1>4, <1>6, <2>1
  <2> QED BY <1>4, <2>2 DEF Awaited
<1>11. Walking'
  <2>1. \A m \in SchemaOf(index)'.nodes : Seen(m)' =>
            /\ NodeFine(index, m)'
            /\ m \in SchemaOf(index)'.late => Framed(m)'
            /\ \A k \in Kids(m)' : Seen(k)' \/ Awaited(k)'
    BY <1>3, <1>5, <1>9, <1>10 DEF N, L
  <2>2. \A m \in SchemaOf(index)'.nodes : \A k \in Kids(m)' : Seen(k)' => Seen(m)'
    BY <1>3, <1>5 DEF N
  <2>3. /\ payload'.hasTools /\ payload'.tools[index'].ok
        /\ Len(payload'.tools) \in 1 .. MaxTools /\ index' <= Len(payload'.tools)
    BY <1>1
  <2>4. stack' \in Seq([at : Path, todo : SUBSET Path]) /\ Len(stack') >= 1
    BY <1>4, <1>6 DEF Frame
  <2>5. \A i \in 2 .. Len(stack') : FrameOK(i)'
    BY <1>4, <1>8
  <2> QED BY <1>7, <2>1, <2>2, <2>3, <2>4, <2>5 DEF Walking
<1>12. ToolsSoFar'
  BY DEF IInv, ToolsSoFar, Begun, NameOf, ToolDone, NodeFine, SchemaOf
<1>13. /\ Accounting' /\ Untouched' /\ StackKept' /\ ToolsAccepted' /\ MessagesSoFar'
       /\ LastTests' /\ Verdict'
  BY DEF IInv, Accounting, Untouched, StackKept, ToolsAccepted, MessagesSoFar,
     LastTests, Verdict
<1>14. payload' \in Payloads /\ index' \in Nat \ {0} /\ phase' \in Phases \union Rejections
  BY DEF IInv
<1> QED BY <1>11, <1>12, <1>13, <1>14 DEF IInv

(* The tests behind a node's children, and the way back. *)
LEMMA LeaveNodeStep ==
    ASSUME IInv, LeaveNode
    PROVE  IInv'
<1>1. /\ phase = "walk" /\ stack[Len(stack)].todo = {}
      /\ stack' = SubSeq(stack, 1, Len(stack) - 1)
      /\ UNCHANGED <<payload, budget, stripped, declared, callIDs>>
  BY DEF LeaveNode, Top
<1>2. stack \in Seq(Frame) /\ Len(stack) >= 1 /\ Len(stack) \in Nat
  BY <1>1, WalkFacts
<1>3. /\ Len(stack') = Len(stack) - 1 /\ stack' \in Seq(Frame)
      /\ \A i \in 1 .. Len(stack) - 1 : stack'[i] = stack[i]
  BY <1>1, <1>2, Popped
<1>4. CASE Len(stack) = 1
  <2>1. phase' = "tools" /\ index' = index + 1
    BY <1>4 DEF LeaveNode
  <2>2. stack' = <<>>
    BY <1>3, <1>4
  <2> QED BY <1>1, <1>4, <2>1, <2>2, LeaveRoot
<1>5. CASE Len(stack) # 1 /\ stack[Len(stack)].at \notin SchemaOf(index).late
  <2>1. phase' = phase /\ index' = index
    BY <1>1, <1>5 DEF LeaveNode, Top, Tool, SchemaOf
  <2> QED BY <1>1, <1>5, <2>1, LeaveInner
<1>6. CASE Len(stack) # 1 /\ stack[Len(stack)].at \in SchemaOf(index).late
  <2>1. phase' = "no tools" /\ index' = index
    BY <1>6 DEF LeaveNode, Top, Tool, SchemaOf
  <2>2. ~GoodTools(payload)
    BY <1>1, <1>6, WalkFacts DEF GoodTools, SchemaOf
  <2>3. \A i \in 1 .. Len(stack') : stack'[i].todo \subseteq SchemaOf(index).nodes
    <3> SUFFICES ASSUME NEW i \in 1 .. Len(stack')
                 PROVE  stack'[i].todo \subseteq SchemaOf(index).nodes
      OBVIOUS
    <3>1. i \in 1 .. Len(stack) /\ i \in 1 .. Len(stack) - 1
      BY <1>2, <1>3
    <3>2. stack'[i] = stack[i]
      BY <1>3, <3>1
    <3>3. stack[i].todo \subseteq SchemaOf(index).nodes
      BY <1>1, <3>1, FramesInTree
    <3> QED BY <3>2, <3>3
  <2> QED BY <1>1, <2>1, <2>2, <2>3, RejectionKept
<1> QED BY <1>4, <1>5, <1>6
-----------------------------------------------------------------------------
(*                               The invariant                               *)

(* Nothing is known of a request that has just come in, and nothing has to be. *)
LEMMA InvInit ==
    ASSUME ChatInit
    PROVE  IInv
<1>1. IsFiniteSet(stripped) /\ Cardinality(stripped) = 0
  BY FS_EmptySet DEF ChatInit
<1>2. Accounting
  BY <1>1, ChatAssumption DEF ChatInit, Accounting
<1>3. /\ Untouched /\ ToolsSoFar /\ Walking /\ StackKept /\ ToolsAccepted /\ MessagesSoFar
      /\ LastTests /\ Verdict
  BY DEF ChatInit, Untouched, ToolsSoFar, Walking, StackKept, ToolsAccepted,
     MessagesSoFar, LastTests, Verdict
<1>4. payload \in Payloads /\ index \in Nat \ {0} /\ phase \in Phases \union Rejections
  BY DEF ChatInit, Phases
<1> QED BY <1>2, <1>3, <1>4 DEF IInv

(* Every test, and a step that changes nothing, preserves the invariant. *)
LEMMA InvStep ==
    ASSUME IInv, [ChatNext]_chatVars
    PROVE  IInv'
<1>1. CASE ReadBody \/ Decode \/ CheckFields
  BY <1>1, FirstTests
<1>2. CASE NextTool
  BY <1>2, NextToolStep
<1>3. CASE RejectTool
  BY <1>3, RejectToolStep
<1>4. CASE ToolsDone
  BY <1>4, ToolsDoneStep
<1>5. CASE EnterNode
  BY <1>5, EnterNodeStep
<1>6. CASE LeaveNode
  BY <1>6, LeaveNodeStep
<1>7. CASE CheckMessage
  BY <1>7, CheckMessageStep
<1>8. CASE MessagesDone \/ CheckResults \/ CheckChoice \/ ScanCanonical
  BY <1>8, LastTestsStep
<1>9. CASE UNCHANGED chatVars
  <2>1. UNCHANGED <<payload, phase, index, stack, budget, stripped, declared, callIDs>>
    BY <1>9 DEF chatVars
  <2>2. Accounting' /\ Untouched' /\ StackKept' /\ ToolsAccepted' /\ LastTests' /\ Verdict'
    BY <2>1 DEF IInv, Accounting, Untouched, StackKept, ToolsAccepted, LastTests, Verdict,
       SchemaOf, NameOf
  <2>3. ToolsSoFar'
    BY <2>1 DEF IInv, ToolsSoFar, Begun, NameOf, ToolDone, NodeFine, SchemaOf
  <2>4. Walking'
    BY <2>1, ZenonT(60) DEF IInv, Walking, FrameOK, Framed, Awaited, Seen, Kids,
       Tool, NodeFine, SchemaOf
  <2>5. MessagesSoFar'
    <3>1. /\ Checked' = Checked /\ payload' = payload
          /\ callIDs' = callIDs /\ declared' = declared
      BY <2>1 DEF Checked
    <3>2. MessagesPart => MessagesPart'
      BY <3>1, MessagesPartKept
    <3> QED BY <2>1, <3>2 DEF IInv, MessagesSoFar
  <2> QED BY <2>1, <2>2, <2>3, <2>4, <2>5 DEF IInv
<1> QED BY <1>1, <1>2, <1>3, <1>4, <1>5, <1>6, <1>7, <1>8, <1>9 DEF ChatNext

(* The inductive invariant holds in every state of every request. *)
THEOREM Invariant == ChatSpec => []IInv
BY InvInit, InvStep, PTL DEF ChatSpec

(* What is on the stack is in the tree. *)
LEMMA TypeFromInv ==
    ASSUME IInv
    PROVE  ChatTypeOK
<1>1. payload \in Payloads /\ Accounting
  BY DEF IInv
<1>2. phase \in Phases \union Rejections /\ index \in Nat \ {0}
  BY DEF IInv
<1>3. \A i \in 1 .. Len(stack) : stack[i].todo \subseteq Tool.schema.nodes
  <2>1. CASE phase = "walk"
    BY <2>1, FramesInTree DEF SchemaOf, Tool
  <2>2. CASE phase = "no tools"
    BY <2>2 DEF IInv, StackKept, SchemaOf, Tool
  <2>3. CASE phase \notin {"walk", "no tools"}
    <3>1. stack = <<>>
      BY <2>3 DEF IInv, StackKept
    <3>2. Len(stack) = 0
      BY <3>1
    <3> QED BY <3>2
  <2> QED BY <2>1, <2>2, <2>3
<1>4. budget \in 0 .. MaxSchemaNodes
  <2>1. Cardinality(stripped) \in Nat
    BY <1>1, FS_CardinalityType DEF Accounting
  <2> QED BY <1>1, <2>1, ChatAssumption DEF Accounting
<1>5. ASSUME NEW s \in stripped PROVE s[1] \in 1 .. Len(Tools(payload))
  <2>1. s \in Nodes(payload) /\ s = <<s[1], s[2]>>
    BY <1>1, NodePairs DEF Accounting
  <2> QED BY <1>1, <2>1, NodePairs
<1> QED BY <1>2, <1>3, <1>4, <1>5 DEF ChatTypeOK

(* Exactly one element of a set satisfies what one does and no two do. *)
LEMMA ExactlyOne ==
    ASSUME NEW S, NEW x \in S, \A y \in S : y = x
    PROVE  Cardinality(S) = 1
<1>1. S = {x}
  OBVIOUS
<1> QED BY <1>1, FS_Singleton

(* Every function that is declared is declared by one tool. *)
LEMMA OneTool ==
    ASSUME IInv, phase = "accepted", NEW f \in declared
    PROVE  Cardinality({t \in DOMAIN Tools(payload) : payload.tools[t].name = f}) = 1
<1> DEFINE S == {t \in DOMAIN Tools(payload) : payload.tools[t].name = f}
<1>1. /\ payload \in Payloads /\ GoodTools(payload)
      /\ declared = {NameOf(t) : t \in 1 .. Len(Tools(payload))}
  BY DEF IInv, ToolsAccepted
<1>2. DOMAIN Tools(payload) = 1 .. Len(Tools(payload))
  BY <1>1, Shape
<1>3. PICK t \in DOMAIN Tools(payload) : NameOf(t) = f
  BY <1>1, <1>2
<1>4. payload.hasTools /\ Tools(payload) = payload.tools
  BY <1>1, <1>2, <1>3, Shape
<1>5. \A u \in DOMAIN payload.tools : payload.tools[u].name = payload.tools[t].name => u = t
  BY <1>1, <1>3, <1>4 DEF GoodTools
<1>6. t \in S /\ \A u \in S : u = t
  BY <1>3, <1>4, <1>5 DEF NameOf
<1> HIDE DEF S
<1>7. Cardinality(S) = 1
  BY <1>6, ExactlyOne
<1> QED BY <1>7 DEF S

(* Every result answers one call, every function called or chosen is one of  *)
(* the tools'.                                                               *)
LEMMA AnswersFromInv ==
    ASSUME IInv, phase = "accepted"
    PROVE  ResultsAnswerCalls
<1> DEFINE M == Len(payload.messages)
<1>1. /\ payload \in Payloads /\ MessagesPart /\ LastTests /\ Checked = M
  BY DEF IInv, MessagesSoFar, Checked
<1>2. /\ callIDs = UNION {IDs(payload.messages[m]) : m \in 1 .. M}
      /\ \A m \in 1 .. M :
           /\ Len(CallsOf(m)) <= MaxCalls
           /\ \A c \in 1 .. Len(CallsOf(m)) : CallsOf(m)[c].name \in declared
      /\ \A l, m \in 1 .. M : \A c \in 1 .. Len(CallsOf(l)), d \in 1 .. Len(CallsOf(m)) :
           CallsOf(l)[c].id = CallsOf(m)[d].id => l = m /\ c = d
  BY <1>1 DEF MessagesPart
<1>3. ASSUME NEW m \in 1 .. M PROVE Len(CallsOf(m)) \in Nat
  <2>1. payload.messages[m] \in MessageType
    BY <1>1, Shape
  <2> QED BY <2>1 DEF MessageType, CallsOf
<1>4. \A mc : mc \in Calls(payload) <=>
          /\ mc \in (1 .. M) \X (1 .. MaxCalls) /\ mc[2] <= Len(CallsOf(mc[1]))
  BY DEF Calls, CallsOf
<1>5. ASSUME NEW mc \in Calls(payload)
      PROVE  /\ mc[1] \in 1 .. M /\ mc[2] \in 1 .. Len(CallsOf(mc[1]))
             /\ mc = <<mc[1], mc[2]>> /\ Call(payload, mc) = CallsOf(mc[1])[mc[2]]
  <2>1. /\ mc[1] \in 1 .. M /\ mc[2] \in 1 .. MaxCalls /\ mc = <<mc[1], mc[2]>>
        /\ mc[2] <= Len(CallsOf(mc[1]))
    BY <1>4
  <2>2. mc[2] \in 1 .. Len(CallsOf(mc[1]))
    BY <1>3, <2>1
  <2> QED BY <2>1, <2>2 DEF Call, CallsOf
<1>6. ASSUME NEW m \in 1 .. M, payload.messages[m].role = "tool"
      PROVE  Cardinality({mc \in Calls(payload) :
                            Call(payload, mc).id = payload.messages[m].ref}) = 1
  <2> DEFINE S == {mc \in Calls(payload) : Call(payload, mc).id = payload.messages[m].ref}
  <2>1. payload.messages[m].ref \in callIDs
    BY <1>1, <1>6 DEF LastTests
  <2>2. PICK l \in 1 .. M : payload.messages[m].ref \in IDs(payload.messages[l])
    BY <1>2, <2>1, SMTT(30)
  <2>3. PICK c \in 1 .. Len(CallsOf(l)) : payload.messages[m].ref = CallsOf(l)[c].id
    BY <2>2 DEF IDs, CallsOf
  <2>4. c \in 1 .. MaxCalls /\ c <= Len(CallsOf(l))
    <3>1. Len(CallsOf(l)) \in Nat /\ Len(CallsOf(l)) <= MaxCalls
      BY <1>2, <1>3
    <3> QED BY <2>3, <3>1, ChatAssumption
  <2>5. <<l, c>> \in Calls(payload)
    BY <1>4, <2>4
  <2>6. <<l, c>> \in S
    BY <2>3, <2>5 DEF Call, CallsOf
  <2>7. ASSUME NEW mc \in S PROVE mc = <<l, c>>
    <3>1. CallsOf(mc[1])[mc[2]].id = CallsOf(l)[c].id
      BY <1>5, <2>3
    <3>2. mc[1] = l /\ mc[2] = c
      BY <1>2, <1>5, <3>1
    <3> QED BY <1>5, <3>2
  <2> HIDE DEF S
  <2>8. Cardinality(S) = 1
    BY <2>6, <2>7, ExactlyOne
  <2> QED BY <2>8 DEF S
<1>7. ASSUME NEW f \in {Call(payload, mc).name : mc \in Calls(payload)}
                        \union ({payload.choice} \ {"any"})
      PROVE  Cardinality({t \in DOMAIN Tools(payload) : payload.tools[t].name = f}) = 1
  <2>1. f \in declared
    <3>1. CASE f \in {Call(payload, mc).name : mc \in Calls(payload)}
      BY <1>2, <1>5, <3>1
    <3>2. CASE f = payload.choice /\ f # "any"
      BY <1>1, <3>2 DEF LastTests
    <3> QED BY <3>1, <3>2
  <2> QED BY <2>1, OneTool
<1> QED BY <1>6, <1>7 DEF ResultsAnswerCalls

(* Everything that is accepted has been scanned as it is encoded again. *)
LEMMA NoCredentialFromInv ==
    ASSUME IInv, phase = "accepted"
    PROVE  NoCredentialForwarded
<1>1. payload \in Payloads /\ MessagesPart /\ LastTests /\ Checked = Len(payload.messages)
  BY DEF IInv, MessagesSoFar, Checked
<1>2. ASSUME NEW mc \in Calls(payload) PROVE Call(payload, mc).credential \in Unseen
  <2>1. /\ mc[1] \in 1 .. Len(payload.messages) /\ mc[2] \in 1 .. MaxCalls
        /\ mc[2] <= Len(CallsOf(mc[1]))
    BY DEF Calls, CallsOf
  <2>2. payload.messages[mc[1]] \in MessageType
    BY <1>1, <2>1, Shape
  <2>3. Len(CallsOf(mc[1])) \in Nat
    BY <2>2 DEF MessageType, CallsOf
  <2>4. mc[2] \in 1 .. Len(CallsOf(mc[1]))
    BY <2>1, <2>3
  <2> QED BY <1>1, <2>1, <2>4 DEF MessagesPart, Call, CallsOf
<1>3. payload.text \in Unseen
  BY <1>1 DEF LastTests
<1> QED BY <1>2, <1>3 DEF NoCredentialForwarded

(* What an accepted request holds for compatibility only has been deleted. *)
LEMMA StrippedFromInv ==
    ASSUME IInv, phase = "accepted"
    PROVE  AnnotationsStripped
<1>1. payload \in Payloads /\ Nodes(payload) \subseteq stripped
  BY DEF IInv, ToolsAccepted
<1>2. ASSUME NEW t \in DOMAIN Tools(payload),
             NEW n \in SchemaOf(t).dialect \union SchemaOf(t).default
      PROVE  <<t, n>> \in stripped
  <2>1. t \in 1 .. Len(Tools(payload)) /\ t \in 1 .. Len(payload.tools)
    BY <1>1, Shape
  <2>2. n \in SchemaOf(t).nodes
    BY <1>1, <2>1, SchemaShape
  <2> QED BY <1>1, <2>1, <2>2, NodePairs
<1> QED BY <1>2 DEF AnnotationsStripped, SchemaOf

-----------------------------------------------------------------------------
(*                               The theorems                                *)

(* The request's bookkeeping stays well-formed: the frames of the schema     *)
(* walk stay inside the tree and the node budget never goes negative,        *)
(* whatever the payload (request.go:300-304, 365-372).                       *)
THEOREM TypeCorrect == ChatSpec => []ChatTypeOK
BY Invariant, TypeFromInv, PTL

(* validateTools accepts exactly the tools that the reference definition     *)
(* calls good, in whatever order Go ranges over the properties               *)
(* (request.go:183-209, 298-372).                                            *)
THEOREM VerdictRight == ChatSpec => []ToolsVerdict
<1>1. IInv => ToolsVerdict
  BY DEF IInv, ToolsAccepted, Verdict, ToolsVerdict
<1> QED BY <1>1, Invariant, PTL

(* The walk reaches every node of every accepted schema, so that no $schema  *)
(* and no default is sent on (request.go:328-332, 347-354).                  *)
THEOREM Cleaned == ChatSpec => []AnnotationsStripped
<1>1. IInv => AnnotationsStripped
  BY StrippedFromInv DEF AnnotationsStripped
<1> QED BY <1>1, Invariant, PTL

(* In an accepted conversation results, calls, tools and the choice refer to *)
(* one another without doubt (request.go:137-142, 157-164, 256-258).         *)
THEOREM Answered == ChatSpec => []ResultsAnswerCalls
<1>1. IInv => ResultsAnswerCalls
  BY AnswersFromInv DEF ResultsAnswerCalls
<1> QED BY <1>1, Invariant, PTL

(* Text that JSON escapes hide, in the body or in a call's arguments, is not *)
(* sent on, up to white space that the encoder escapes again (router.go:378, *)
(* 392, request.go:571-574).                                                 *)
THEOREM NoCredential == ChatSpec => []NoCredentialForwarded
<1>1. IInv => NoCredentialForwarded
  BY NoCredentialFromInv DEF NoCredentialForwarded
<1> QED BY <1>1, Invariant, PTL
=============================================================================
