---------------------------- MODULE SchemaPlans ----------------------------
(***************************************************************************)
(* schema_compiler: the client and the server compile the same schema, the *)
(* server has its choices scored and rebuilds the object, the client       *)
(* checks what it receives against its own plan.                           *)
(*                                                                         *)
(* A schema is a tree, written as a function of the paths to its nodes:    *)
(* objects and tuples with a number of children in order, and leaves with  *)
(* a declared type and a list of candidates (an enum, a const, a boolean   *)
(* or an integer range).  A node is `lawful' if its keywords, annotations  *)
(* and bounds are those its type allows.  Texts and names are left out.    *)
(***************************************************************************)
EXTENDS Integers, Sequences, SequencesExt, FiniteSets

CONSTANTS Schemas,      \* the schemas requests carry, their roots being objects
          Limits        \* the server's limits: [depth, nodes, options, questions]

ClientLimits == [depth |-> 32, nodes |-> 8192, options |-> 702, questions |-> 128]

ASSUME LimitsAssumption ==
    Limits \subseteq [depth : 1 .. ClientLimits.depth, nodes : 1 .. ClientLimits.nodes,
                     options : 1 .. ClientLimits.options, questions : 1 .. ClientLimits.questions]

Inner(spec) == spec.kind \in {"object", "array"}
Size(spec) == IF Inner(spec) THEN spec.size ELSE 0

\* A scalar is <<its Python type, what it denotes>>: True is <<"bool", 2>>.  Numbers
\* count half units, so that an integral float denotes an even number.
Scalar == {"str", "int", "float", "bool", "NoneType"} \X Int

\* The empty path is the root, and <<i, j>> is the j-th child of its i-th child.
IsTree(s) ==
    /\ <<>> \in DOMAIN s /\ IsFiniteSet(DOMAIN s) /\ DOMAIN s \subseteq Seq(Nat)
    /\ \A p \in DOMAIN s \ {<<>>} : Front(p) \in DOMAIN s /\ Last(p) \in 1 .. Size(s[Front(p)])
    /\ \A p \in DOMAIN s : /\ Size(s[p]) \in Nat
                           /\ \A i \in 1 .. Size(s[p]) : Append(p, i) \in DOMAIN s
                           /\ Inner(s[p]) \/ s[p].values \in Seq(Scalar)

\* Any other root is refused at once.
ASSUME SchemasAssumption == \A s \in Schemas : IsTree(s) /\ s[<<>>].kind = "object"

VARIABLES schema, limits,
          stage,     \* where the request stands
          plan,      \* the server's plan
          result,    \* SchemaClassifyResponse.result
          fields,    \* and .fields: [path, values, selected]
          garbled    \* they contradict each other

schemaVars == <<schema, limits, stage, plan, result, fields, garbled>>

-----------------------------------------------------------------------------
(* Names of the form X_y are mutated forms of X: plausible bugs against     *)
(* which the properties are tried out.  The specification never uses them. *)

\* JSON equality distinguishes booleans from numbers, but 1 equals 1.0.
scalar_key(v) == <<IF v[1] \in {"int", "float"} THEN "number" ELSE v[1], v[2]>>
keys(values) == [i \in DOMAIN values |-> scalar_key(values[i])]

\* The other types are named as Python names theirs.
Matches(kind, v) == \/ kind = "any"
                    \/ kind = "number" /\ v[1] \in {"int", "float"}
                    \/ kind = "integer" /\ (v[1] = "int" \/ (v[1] = "float" /\ v[2] % 2 = 0))
                    \/ kind \notin {"any", "number", "integer"} /\ v[1] = kind

LeafIsLegal_offByOne(spec, lim) == /\ Len(spec.values) \in 1 .. lim.options + 1
                                   /\ \A i \in DOMAIN spec.values : Matches(spec.kind, spec.values[i])
                                   /\ IsInjective(keys(spec.values))
LeafIsLegal_identity(spec, lim) == /\ Len(spec.values) \in 1 .. lim.options
                                   /\ \A i \in DOMAIN spec.values : Matches(spec.kind, spec.values[i])
                                   /\ IsInjective(spec.values)
LeafIsLegal(spec, lim) == /\ Len(spec.values) \in 1 .. lim.options
                          /\ \A i \in DOMAIN spec.values : Matches(spec.kind, spec.values[i])
                          /\ IsInjective(keys(spec.values))

IsVariable(spec) == ~Inner(spec) /\ Len(spec.values) > 1

\* What visit() has built: nodes counted, fields listed, nodes of the plan by their
\* paths; the calls still to be made; `failed' if it raised, which ends it all.
Blank == [nodes |-> 0, fields |-> <<>>, root |-> <<>>, todo |-> << <<>> >>, failed |-> FALSE]
Raised == [nodes |-> 0, fields |-> <<>>, root |-> <<>>, todo |-> <<>>, failed |-> TRUE]

TooManyFields_offByOne(spec, lim, st) == IsVariable(spec) /\ Len(st.fields) > lim.questions
TooManyFields(spec, lim, st) == IsVariable(spec) /\ Len(st.fields) >= lim.questions

Raises(spec, path, lim, st) ==
    \/ Len(path) + 1 > lim.depth \/ st.nodes + 1 > lim.nodes
    \/ ~spec.lawful
    \/ ~Inner(spec) /\ ~LeafIsLegal(spec, lim)
    \/ TooManyFields(spec, lim, st)

PlanNode(spec, st) ==
    IF Inner(spec) THEN [kind |-> spec.kind]
    ELSE IF IsVariable(spec) THEN [kind |-> "choice", index |-> Len(st.fields) + 1]
    ELSE [kind |-> "constant", value |-> spec.values[1]]

\* One call of visit(), up to the calls for the children: those come next,
\* before what is still to be visited beside and above.
visit(tree, lim, st) ==
    LET path == Head(st.todo)
        spec == tree[path]
    IN  IF st.todo = <<>> THEN st
        ELSE IF Raises(spec, path, lim, st) THEN Raised
        ELSE [nodes  |-> st.nodes + 1,
              fields |-> IF IsVariable(spec) THEN Append(st.fields, [path |-> path, values |-> spec.values])
                         ELSE st.fields,
              root   |-> [p \in DOMAIN st.root \union {path} |->
                            IF p = path THEN PlanNode(spec, st) ELSE st.root[p]],
              todo   |-> [i \in 1 .. Size(spec) |-> Append(path, i)] \o Tail(st.todo),
              failed |-> FALSE]

compile_schema(tree, lim) ==
    LET all == Cardinality(DOMAIN tree)
        visited[n \in 0 .. all] == IF n = 0 THEN Blank ELSE visit(tree, lim, visited[n - 1])
    IN  visited[all]

choose_next(i, selected) == selected[(i % Len(selected)) + 1]
choose(i, selected) == selected[i]

materialize(root, selected) ==
    [p \in DOMAIN root |->
        IF Inner(root[p]) THEN [kind |-> root[p].kind]
        ELSE [kind |-> "scalar", value |-> IF root[p].kind = "constant" THEN root[p].value
                                           ELSE choose(root[p].index, selected)]]

Selected(fs) == [i \in DOMAIN fs |-> fs[i].selected]

-----------------------------------------------------------------------------
SchemaInit ==
    /\ schema \in Schemas /\ limits \in Limits
    /\ stage = "asked"
    /\ plan = Blank /\ result = <<>> /\ fields = <<>> /\ garbled = FALSE

\* classify_schema on either side: the client compiles before it sends.
Compile == /\ stage = "asked"
           /\ IF compile_schema(schema, ClientLimits).failed \/ compile_schema(schema, limits).failed
              THEN stage' = "refused" /\ UNCHANGED plan
              ELSE stage' = "compiled" /\ plan' = compile_schema(schema, limits)
           /\ UNCHANGED <<schema, limits, result, fields, garbled>>

\* The service answers each field with one of its options, and assemble()
\* puts the selected values back into the tree.
AssembleObject ==
    /\ stage = "compiled"
    /\ \E pick \in [DOMAIN plan.fields -> 1 .. limits.options] :
         /\ \A i \in DOMAIN pick : pick[i] <= Len(plan.fields[i].values)
         /\ fields' = [i \in DOMAIN pick |->
                         [path |-> plan.fields[i].path, values |-> plan.fields[i].values,
                          selected |-> plan.fields[i].values[pick[i]]]]
    /\ result' = materialize(plan.root, Selected(fields'))
    /\ stage' = "sent"
    /\ UNCHANGED <<schema, limits, plan, garbled>>

\* Some other gateway: a field's selection differs from the object's.
Garble == /\ stage = "sent" /\ ~garbled
          /\ \E i \in DOMAIN fields : \E j \in DOMAIN fields[i].values :
               /\ fields[i].selected # fields[i].values[j]
               /\ fields' = [fields EXCEPT ![i].selected = fields[i].values[j]]
          /\ garbled' = TRUE
          /\ UNCHANGED <<schema, limits, stage, plan, result>>

\* The client's plan takes each selection to the value it has itself.
Own(f, v) == f.values[CHOOSE j \in DOMAIN f.values : scalar_key(f.values[j]) = scalar_key(v)]

SameResult_pathsOnly(mine, chosen) == TRUE
SameResult(mine, chosen) == result = materialize(mine.root, chosen)

verify_response ==
    LET mine == compile_schema(schema, ClientLimits)
    IN  /\ [i \in DOMAIN fields |-> fields[i].path] = [i \in DOMAIN mine.fields |-> mine.fields[i].path]
        /\ \A i \in DOMAIN fields : keys(fields[i].values) = keys(mine.fields[i].values)
        /\ SameResult(mine, [i \in DOMAIN fields |-> Own(mine.fields[i], fields[i].selected)])

Verify == /\ stage = "sent"
          /\ stage' = IF verify_response THEN "accepted" ELSE "rejected"
          /\ UNCHANGED <<schema, limits, plan, result, fields, garbled>>

SchemaOver == stage \in {"refused", "accepted", "rejected"} /\ UNCHANGED schemaVars

SchemaNext == Compile \/ AssembleObject \/ Garble \/ Verify \/ SchemaOver

SchemaSpec == SchemaInit /\ [][SchemaNext]_schemaVars

-----------------------------------------------------------------------------
(* What a schema means, independently of the way it is compiled. *)

Conforms(value, tree) ==
    /\ DOMAIN value = DOMAIN tree
    /\ \A p \in DOMAIN tree :
          IF Inner(tree[p]) THEN value[p].kind = tree[p].kind
          ELSE value[p].kind = "scalar" /\ value[p].value \in ToSet(tree[p].values)

\* JSON Schema's equality and types: a number is equal to a number of the same value
\* however it is written, and 1.0 is an integer; nothing else crosses the types.
Equal(v, w) == v[2] = w[2] /\ (v[1] = w[1] \/ {v[1], w[1]} = {"int", "float"})
IsInstance(v, kind) == /\ kind \in {"number", "integer"} => v[1] \in {"int", "float"}
                       /\ kind = "integer" /\ v[1] = "float" => v[2] % 2 = 0
                       /\ kind \notin {"any", "number", "integer"} => v[1] = kind

LegalCandidates(values, kind, most) ==
    /\ values # <<>> /\ Cardinality(DOMAIN values) <= most
    /\ \A v \in ToSet(values) : IsInstance(v, kind)
    /\ \A i, j \in DOMAIN values : Equal(values[i], values[j]) => i = j

\* The root has depth 1.
Legal(tree, lim) ==
    /\ Cardinality(DOMAIN tree) <= lim.nodes
    /\ \A p \in DOMAIN tree : /\ Len(p) < lim.depth /\ tree[p].lawful
                              /\ Inner(tree[p]) \/ LegalCandidates(tree[p].values, tree[p].kind, lim.options)
    /\ Cardinality({p \in DOMAIN tree : IsVariable(tree[p])}) <= lim.questions

\* A schema is refused exactly if it breaks a rule or a limit: the running counts
\* of the traversal are right, and candidates are told apart as JSON values are
\* (schema_compiler.py:146-156, 237-291, schemas.py:107-114).
RefusedIffIllegal == stage # "asked" => (stage = "refused" <=> ~Legal(schema, limits))

\* The object that leaves the server is an instance of the schema, and holds
\* at each field's path the value selected for that field, in its JSON type
\* (schema_compiler.py:58-65, 89-114, 312-315).
ObjectFitsSchema ==
    stage = "sent" /\ ~garbled =>
        /\ Conforms(result, schema)
        /\ \A i \in DOMAIN fields : result[fields[i].path].value = fields[i].selected

\* The client accepts what the server sends although it compiled under other
\* limits, and no object that contradicts the selections
\* (client.py:72-91, schema_compiler.py:116-133).
ClientSeesThrough == /\ stage = "accepted" => ~garbled
                     /\ stage = "rejected" => garbled
=============================================================================
