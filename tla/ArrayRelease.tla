----------------------------- MODULE ArrayRelease -----------------------------
(***************************************************************************)
(* Who owns which memory while an ArrayBuilder (a tree of builders) is     *)
(* released as a struct ArrowArray with its struct ArrowSchema: every      *)
(* level fills two structures held by a CArrayFinalizer on the C++ stack,  *)
(* lets the builders below fill the structures of its children, and moves  *)
(* the two out. With strict = TRUE finish_schema() then replaces the       *)
(* schema by a deep copy. Any malloc() may fail, and some builders throw;  *)
(* the finalizers of all levels then clean up.                             *)
(*                                                                         *)
(* A block of memory is named by the node of the tree and what it is for.  *)
(* What a structure points to are blocks; its release member is `live`.    *)
(***************************************************************************)
EXTENDS Integers, Sequences, FiniteSets

CONSTANTS
  Nodes,   (* the builders, by position in the tree                         *)
  Root,    (* the outermost one                                             *)
  Kids,    (* the child builders of each, in order                          *)
  Structs, (* those that are StructArrayBuilders                            *)
  Throwers (* builders whose release() may throw (PointArrayBuilder)        *)

ASSUME TreeAssumption ==
  /\ Root \in Nodes
  /\ Kids \in [Nodes -> Seq(Nodes)]
  /\ Structs \subseteq Nodes
  /\ Throwers \subseteq Nodes

(* A builder is a member of one other at most, and all are below the root. *)
KidsOf(n) == {Kids[n][i] : i \in 1 .. Len(Kids[n])}

ASSUME BelowRootAssumption ==
  /\ \A m, n \in Nodes : \A i \in 1 .. Len(Kids[m]), j \in 1 .. Len(Kids[n]) :
       Kids[m][i] = Kids[n][j] => m = n /\ i = j
  /\ \A n \in Nodes : Root \notin KidsOf(n)
  /\ \A S \in SUBSET Nodes : Root \in S /\ (\A n \in S : KidsOf(n) \subseteq S) => S = Nodes

VARIABLES
  heap,     (* the blocks that are allocated                                *)
  builder,  (* the buffers the BufferBuilders of each node own              *)
  array,    (* the struct ArrowArray of each node: [live, own]              *)
  schema,   (* the struct ArrowSchema of each node: [live, own]             *)
  moved,    (* which nodes' structures have left their finalizer            *)
  frames,   (* the C++ stack: [node, step] for each release() under way     *)
  phase,    (* what the caller of the outermost release() is doing          *)
  misfreed, (* history: whether free() got a pointer that was not allocated *)
  mislaid   (* history: whether a string could not be replaced              *)

vars == <<heap, builder, array, schema, moved, frames, phase, misfreed, mislaid>>

Block(n, what) == <<n, what>>
Top == frames[Len(frames)]
Node == Top.node
Callers == SubSeq(frames, 1, Len(frames) - 1)
KidBlocks(n, what) == [i \in 1 .. Len(Kids[n]) |-> Block(Kids[n][i], what)]

Released == [live |-> FALSE, own |-> {}]

(* release is set before the first malloc().                               *)
Owning(s, block) == [live |-> TRUE, own |-> s.own \cup {block}]

(***************************************************************************)
(* The release callbacks. Releasing a structure releases those of its      *)
(* children that have a release member, and frees what all of them own.    *)
(***************************************************************************)
Children(structs, what, n) ==
  {k \in Nodes : Block(k, what) \in structs[n].own \cap moved /\ structs[k].live}

Beneath(structs, what, n) ==
  {m \in Nodes :
     /\ structs[n].live
     /\ \A S \in SUBSET Nodes :
          n \in S /\ (\A k \in S : Children(structs, what, k) \subseteq S) => m \in S}

Owned(structs, what, n) == UNION {structs[m].own : m \in Beneath(structs, what, n)}

(* (mutant) The callbacks do not set release to nullptr.                   *)
WithoutTreeStillLive(structs, what, n) == structs

WithoutTree(structs, what, n) ==
  [m \in Nodes |-> IF m \in Beneath(structs, what, n) THEN Released ELSE structs[m]]

Free(blocks) ==
  /\ heap' = heap \ blocks
  /\ misfreed' = (misfreed \/ ~(blocks \subseteq heap))

(***************************************************************************)
(* The steps of release() of a builder, and of schema_deep_copy().         *)
(***************************************************************************)
Step(do, block) == [do |-> do, block |-> block]
Allocations(do, blocks) == [i \in 1 .. Len(blocks) |-> Step(do, blocks[i])]

(* allocate_array_data().                                                  *)
AllocateArray(n) ==
  Allocations("array", <<Block(n, "buffers")>>
    \o (IF Kids[n] = << >> THEN << >> ELSE <<Block(n, "children")>>)
    \o KidBlocks(n, "array"))

(* allocate_schema(), then set_format("") and set_name("") of allocate().  *)
AllocateSchema(n) ==
  Allocations("schema",
    (IF Kids[n] = << >> THEN << >> ELSE <<Block(n, "schema children")>>)
    \o KidBlocks(n, "schema"))
  \o Allocations("string", <<Block(n, "no format"), Block(n, "no name")>>)

(* set_format(), set_name(), set_metadata().                               *)
Describe(n) ==
  <<Step("format", Block(n, "format")), Step("name", Block(n, "name")),
    Step("string", Block(n, "metadata"))>>

ReleaseKids(n) == [i \in 1 .. Len(Kids[n]) |-> Step("kid", Block(Kids[n][i], "array"))]

(* A StructArrayBuilder leaves its validity buffer to its destructor.      *)
TakeStep(n) == IF n \in Structs THEN << >> ELSE <<Step("take", Block(n, "data"))>>

Plan(n) ==
  IF phase = "building"
  THEN <<Step("begin", Block(n, "array"))>>
       \o AllocateArray(n) \o AllocateSchema(n) \o Describe(n)
       \o TakeStep(n) \o ReleaseKids(n)
       \o <<Step("return", Block(n, "array"))>>
  ELSE AllocateSchema(n) \o Describe(n) \o ReleaseKids(n)
       \o <<Step("return", Block(n, "schema"))>>

Do == Plan(Node)[Top.step].do
Target == Plan(Node)[Top.step].block
Running == phase \in {"building", "copying"}
GoOn == frames' = Append(Callers, [node |-> Node, step |-> Top.step + 1]) /\ UNCHANGED phase
Throw == phase' = "throwing" /\ UNCHANGED frames

Init ==
  /\ heap = {Block(n, "data") : n \in Nodes}
  /\ builder = [n \in Nodes |-> {Block(n, "data")}]
  /\ array = [n \in Nodes |-> Released]
  /\ schema = [n \in Nodes |-> Released]
  /\ moved = {}
  /\ frames = <<[node |-> Root, step |-> 1]>>
  /\ phase = "building"
  /\ misfreed = FALSE /\ mislaid = FALSE

(* A builder refuses before it has a finalizer.                            *)
Begin ==
  /\ Running /\ Do = "begin"
  /\ GoOn \/ (Node \in Throwers /\ Throw)
  /\ UNCHANGED <<heap, builder, array, schema, moved, misfreed, mislaid>>

Allocate ==
  /\ Running /\ Do \in {"array", "schema", "string"}
  /\ heap' = heap \cup {Target}
  /\ IF Do = "array" THEN array' = [array EXCEPT ![Node] = Owning(@, Target)] /\ UNCHANGED schema
     ELSE schema' = [schema EXCEPT ![Node] = Owning(@, Target)] /\ UNCHANGED array
  /\ GoOn
  /\ UNCHANGED <<builder, moved, misfreed, mislaid>>

(* allocate_array_data() and allocate_schema() release what they have so   *)
(* far before they throw.                                                  *)
AllocateArrayFails ==
  /\ Running /\ Do = "array"
  /\ Free(Owned(array, "array", Node))
  /\ array' = WithoutTree(array, "array", Node)
  /\ Throw
  /\ UNCHANGED <<builder, schema, moved, mislaid>>

AllocateSchemaFails ==
  /\ Running /\ Do = "schema"
  /\ Free(Owned(schema, "schema", Node))
  /\ schema' = WithoutTree(schema, "schema", Node)
  /\ Throw
  /\ UNCHANGED <<builder, array, moved, mislaid>>

(* set_metadata() of a copy does not check its malloc().                   *)
AllocateStringFails ==
  /\ Running /\ Do = "string"
  /\ phase = "building" \/ Target # Block(Node, "metadata")
  /\ Throw
  /\ UNCHANGED <<heap, builder, array, schema, moved, misfreed, mislaid>>

Old == IF Do = "format" THEN Block(Node, "no format") ELSE Block(Node, "no name")
Swapped(s) == [live |-> s.live, own |-> (s.own \ {Old}) \cup {Target}]

(* set_format() and set_name() free the old string before they allocate    *)
(* the new one.                                                            *)
Replace ==
  /\ Running /\ Do \in {"format", "name"}
  /\ heap' = (heap \ {Old}) \cup {Target}
  /\ misfreed' = (misfreed \/ Old \notin heap)
  /\ schema' = [schema EXCEPT ![Node] = Swapped(@)]
  /\ GoOn
  /\ UNCHANGED <<builder, array, moved, mislaid>>

(* The pointer to the old string stays.                                    *)
ReplaceFails ==
  /\ Running /\ Do \in {"format", "name"}
  /\ Free({Old})
  /\ mislaid' = TRUE
  /\ Throw
  /\ UNCHANGED <<builder, array, schema, moved>>

(* (mutant) The builder keeps the buffers it hands over.                   *)
TakeBuffersShared ==
  /\ Running /\ Do = "take"
  /\ array' = [array EXCEPT ![Node] = [live |-> TRUE, own |-> @.own \cup builder[Node]]]
  /\ GoOn
  /\ UNCHANGED <<heap, builder, schema, moved, misfreed, mislaid>>

(* release() of the BufferBuilders: their destructors find nullptr.        *)
TakeBuffers ==
  /\ Running /\ Do = "take"
  /\ array' = [array EXCEPT ![Node] = [live |-> TRUE, own |-> @.own \cup builder[Node]]]
  /\ builder' = [builder EXCEPT ![Node] = {}]
  /\ GoOn
  /\ UNCHANGED <<heap, schema, moved, misfreed, mislaid>>

ReleaseKid ==
  /\ Running /\ Do = "kid"
  /\ frames' = Callers \o <<[node |-> Node, step |-> Top.step + 1],
                             [node |-> Target[1], step |-> 1]>>
  /\ UNCHANGED <<heap, builder, array, schema, moved, phase, misfreed, mislaid>>

(* (mutant) The schema is not moved out.                                   *)
ReturnArrayOnly ==
  /\ Running /\ Do = "return"
  /\ moved' = moved \cup {Target}
  /\ frames' = Callers
  /\ phase' = IF Callers # << >> THEN phase
              ELSE IF phase = "building" THEN "finishing" ELSE "returned"
  /\ UNCHANGED <<heap, builder, array, schema, misfreed, mislaid>>

(* release() of the finalizer: both structures move to the place the       *)
(* caller provides, which holds nothing yet, and the finalizer goes empty- *)
(* handed. A copy has a schema only.                                       *)
Return ==
  /\ Running /\ Do = "return"
  /\ moved' = moved \cup {Target, Block(Node, "schema")}
  /\ frames' = Callers
  /\ phase' = IF Callers # << >> THEN phase
              ELSE IF phase = "building" THEN "finishing" ELSE "returned"
  /\ UNCHANGED <<heap, builder, array, schema, misfreed, mislaid>>

(* finish_schema() after the outermost release().                          *)
FinishSchema ==
  /\ phase = "finishing"
  /\ \/ /\ phase' = "returned"                    \* not strict
        /\ UNCHANGED <<heap, schema, moved, frames, misfreed>>
     \/ /\ phase' = "throwing"                    \* formats differ
        /\ UNCHANGED <<heap, schema, moved, frames, misfreed>>
     \/ /\ phase' = "copying"
        /\ Free(Owned(schema, "schema", Root))
        /\ schema' = WithoutTree(schema, "schema", Root)
        /\ moved' = moved \ {Block(n, "schema") : n \in Nodes}
        /\ frames' = <<[node |-> Root, step |-> 1]>>
  /\ UNCHANGED <<builder, array, mislaid>>

InFinalizer(what, n) == Block(n, what) \notin moved
ArrayLeft == InFinalizer("array", Node)
SchemaLeft == InFinalizer("schema", Node)

(* (mutant) The finalizer does not release the schema.                     *)
UnwindArrayOnly ==
  /\ phase = "throwing" /\ frames # << >>
  /\ Free(IF ArrayLeft THEN Owned(array, "array", Node) ELSE {})
  /\ array' = IF ArrayLeft THEN WithoutTree(array, "array", Node) ELSE array
  /\ frames' = Callers
  /\ UNCHANGED <<builder, schema, moved, phase, mislaid>>

(* An exception passes a level: the destructors of its finalizers.         *)
Unwind ==
  /\ phase = "throwing" /\ frames # << >>
  /\ Free((IF ArrayLeft THEN Owned(array, "array", Node) ELSE {})
          \cup IF SchemaLeft THEN Owned(schema, "schema", Node) ELSE {})
  /\ array' = IF ArrayLeft THEN WithoutTree(array, "array", Node) ELSE array
  /\ schema' = IF SchemaLeft THEN WithoutTree(schema, "schema", Node) ELSE schema
  /\ frames' = Callers
  /\ UNCHANGED <<builder, moved, phase, mislaid>>

Caught ==
  /\ phase = "throwing" /\ frames = << >>
  /\ phase' = "threw"
  /\ UNCHANGED <<heap, builder, array, schema, moved, frames, misfreed, mislaid>>

(* The caller releases what it was given, and the builder is destroyed.    *)
CleanUp ==
  /\ phase \in {"returned", "threw"}
  /\ Free(Owned(array, "array", Root) \cup Owned(schema, "schema", Root)
          \cup UNION {builder[n] : n \in Nodes})
  /\ array' = WithoutTree(array, "array", Root)
  /\ schema' = WithoutTree(schema, "schema", Root)
  /\ builder' = [n \in Nodes |-> {}]
  /\ phase' = "done"
  /\ UNCHANGED <<moved, frames, mislaid>>

Next ==
  \/ Begin
  \/ Allocate
  \/ AllocateArrayFails
  \/ AllocateSchemaFails
  \/ AllocateStringFails
  \/ Replace
  \/ ReplaceFails
  \/ TakeBuffers
  \/ ReleaseKid
  \/ Return
  \/ FinishSchema
  \/ Unwind
  \/ Caught
  \/ CleanUp

Spec == Init /\ [][Next]_vars

(***************************************************************************)
(* Properties                                                              *)
(***************************************************************************)

(* At every point, with any malloc() failing, every block is owned by one  *)
(* builder or one structure, so that exactly one destructor or release     *)
(* callback is going to free it.                                           *)
OneOwner ==
  \A block \in heap :
    Cardinality({<<"builder", n>> : n \in {m \in Nodes : block \in builder[m]}}
      \cup {<<"array", n>> : n \in {m \in Nodes : block \in array[m].own}}
      \cup {<<"schema", n>> : n \in {m \in Nodes : block \in schema[m].own}}) = 1

(* The caller gets the whole tree or nothing, of the array and of the      *)
(* schema alike, and both of them unless an exception was thrown. When the *)
(* output is released and the builder destroyed, nothing is left.          *)
OutputWhole ==
  /\ phase \in {"returned", "threw"} =>
       \A tree \in {Beneath(array, "array", Root), Beneath(schema, "schema", Root)} :
         tree \in {{}, Nodes}
  /\ phase = "returned" =>
       /\ Beneath(array, "array", Root) = Nodes
       /\ Beneath(schema, "schema", Root) = Nodes
       /\ heap = Owned(array, "array", Root) \cup Owned(schema, "schema", Root)
                 \cup UNION {builder[n] : n \in Structs}
  /\ phase = "done" => heap = {}

(* No block is freed twice, as long as every string could be replaced.     *)
FreedOnce == misfreed => mislaid

(* Whatever is allocated is cleaned up, once, also if an exception is      *)
(* thrown (the comment on CArrayFinalizer).                                *)
EachFreedOnce == ~misfreed
==============================================================================
