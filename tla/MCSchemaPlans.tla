--------------------------- MODULE MCSchemaPlans ---------------------------
EXTENDS SchemaPlans

\* The scalars 1, 1.0, true, false, 2.5 and "s"; numbers denote half units.
One == <<"int", 2>>
OneFloat == <<"float", 2>>
True == <<"bool", 2>>
False == <<"bool", 0>>
Half == <<"float", 5>>
Str == <<"str", 0>>

\* A tree of one node, and one of a root and the trees below it.
Leaf(kind, values) == [p \in {<<>>} |-> [lawful |-> TRUE, kind |-> kind, values |-> values]]
Leaves == {Leaf("bool", <<False, True>>), Leaf("any", <<One, True, Str>>), Leaf("str", <<Str>>),
           Leaf("number", <<OneFloat, Half>>)}
Flawed == {Leaf("number", <<One, OneFloat>>), Leaf("integer", <<One, Half>>),
           [Leaf("str", <<Str>>) EXCEPT ![<<>>].lawful = FALSE]}

Node(kind, children) ==
    [p \in {<<>>} \union UNION {{<<i>> \o q : q \in DOMAIN children[i]} : i \in DOMAIN children} |->
        IF p = <<>> THEN [lawful |-> TRUE, kind |-> kind, size |-> Len(children)]
                    ELSE children[Head(p)][Tail(p)]]
Lists(S) == {<<>>} \union {<<x>> : x \in S} \union {<<x, y>> : x, y \in S}
Level2 == {Node(k, c) : k \in {"object", "array"}, c \in Lists(Leaves)}
              \union {Node("array", <<x>>) : x \in Flawed}

MCSchemas == {Node("object", c) : c \in Lists(Level2 \union Leaves)}
                \union {Node("object", <<Node("object", <<Node("object", <<Leaf("str", <<Str>>)>>)>>)>>)}
MCLimits == {[depth |-> 3, nodes |-> 6, options |-> 3, questions |-> n] : n \in {2, 3}}
                \union {[depth |-> 3, nodes |-> 6, options |-> 2, questions |-> 3]}
=============================================================================
