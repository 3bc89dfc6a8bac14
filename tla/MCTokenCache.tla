---------------------------- MODULE MCTokenCache ----------------------------
(* Symbols, tokenizers, templates and documents for TokenCache.  Special:   *)
(* "<"; characters: n, q (the quote), e (an escape), a, b, A, B.            *)
EXTENDS TokenCache, TLC
CONSTANTS t1, t2
MCThread == {t1, t2}
MCSpecial == {"<"}
MCAnswerPrefix == <<"a", "q">>
MCCodeCandidates == <<<<"A">>, <<"B">>, <<"C">>, <<"A", "A">>>>
MCQuestion(text, options) == [text |-> text, options |-> options]
MCProbe == [context |-> <<"a">>, question |-> MCQuestion(<<"a">>, 2)]

MCTokenizer(pieces, folds, swallows) == [pieces |-> pieces, folds |-> folds, swallows |-> swallows]
MCNone == [x \in {} |-> x]
MCTokenizers ==
    {MCTokenizer({}, MCNone, {}),                               \* characters
     MCTokenizer({<<"a", "a">>, <<"n", "q">>, <<"q", "n">>, <<"A", "A">>}, MCNone, {}),
     MCTokenizer({<<"q", "A">>, <<"b", "q">>, <<"A", "A">>}, MCNone, {}), \* A joins the quote
     MCTokenizer({<<"A", "A">>}, "B" :> "A", {}),               \* B is A
     MCTokenizer({}, "B" :> "A" @@ "C" :> "A", {}),             \* only one code
     MCTokenizer({<<"a", "a">>}, MCNone, {"n"})}                \* special tokens take n

MCSkeletons ==
    {<<"<", "C1", "<", "n", "Q1", "<", "n">>,
     <<"<", "C1", "<", "Q1", "<">>,
     <<"<", "C1", "n", "Q1", "<">>,            \* nothing between the two
     <<"<", "C1", "<", "Q1", "n">>,            \* nothing behind the question
     <<"<", "Q1", "<", "C1", "<">>,
     <<"<", "C1", "<", "C1", "<", "Q1", "<">>}

\* The prefix of the last takes 12 tokens, or as many as the budget has, 11, or
\* 10, as the tokenizer joins; the others' take 5 or 6.
MCDocument == {<<"a">>, <<"<">>, <<"a", "b">>, <<"a", "a", "b", "a", "a", "b", "a", "b">>}
MCAsked == {<<MCQuestion(<<"a">>, 2)>>, <<MCQuestion(<<"b">>, 2), MCQuestion(<<"<">>, 2)>>,
            <<MCQuestion(<<"a">>, 3)>>}
=============================================================================
