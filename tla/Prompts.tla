------------------------------- MODULE Prompts -------------------------------
(***************************************************************************)
(* What prompts.PromptCompiler makes of a tokenizer, a chat template and a *)
(* request: a prefix and a suffix that are tokenized apart, and a registry *)
(* of answer codes that are one token each in the answer slot.  A text is  *)
(* a sequence of symbols: a special token, a marker, or a character.       *)
(***************************************************************************)
EXTENDS Integers, Sequences, SequencesExt, FiniteSets, FiniteSetsExt, Functions

CONSTANTS Special,        \* the special tokens, spelled with `<'
          ContextMark,    \* _CONTEXT
          QuestionMark,   \* _QUESTION
          Quote, Escape,  \* the quote of JSON, and what as_data makes of `<'
          AnswerPrefix,   \* ANSWER_PREFIX
          CodeCandidates, \* CODE_CANDIDATES
          MaxOptions,     \* service.max_options
          Probe           \* the request of verify_backend: [context, question]

-----------------------------------------------------------------------------
(* The tokenizer: its vocabulary has every character and the given pieces,  *)
(* of which it takes the longest; a special token is no part of a piece but *)
(* may swallow the character behind it.  It may fold characters together.   *)
(* A token id is the normalized text it stands for, which decode() returns. *)

Normal(tok, text) ==
    [i \in DOMAIN text |-> IF text[i] \in DOMAIN tok.folds THEN tok.folds[text[i]] ELSE text[i]]

PieceEnd(tok, text, i) ==
    IF text[i] \in Special
    THEN IF i < Len(text) /\ text[i + 1] \in tok.swallows THEN i + 1 ELSE i
    ELSE Max({i} \union {i + Len(p) - 1 : p \in {p \in tok.pieces :
                            i + Len(p) - 1 <= Len(text) /\ \A k \in DOMAIN p : text[i + k - 1] = p[k]}})

Encode(tok, text) ==
    LET s == Normal(tok, text)
        token(i) == IF s[i] \in Special THEN <<s[i]>> ELSE SubSeq(s, i, PieceEnd(tok, s, i))
        from[i \in 1 .. Len(s) + 1] ==
            IF i > Len(s) THEN <<>> ELSE <<token(i)>> \o from[PieceEnd(tok, s, i) + 1]
    IN  from[1]

-----------------------------------------------------------------------------
(* Names of the form X_y are mutated forms of X: plausible bugs against     *)
(* which the properties are tried out.  The specification never uses them. *)

AsData_raw(text) == <<Quote>> \o text \o <<Quote>>

\* JSON: quoted, and no special token is left in it.
AsData(text) ==
    <<Quote>> \o [i \in DOMAIN text |-> IF text[i] \in Special THEN Escape ELSE text[i]]
              \o <<Quote>>

Where(text, mark) == {i \in DOMAIN text : text[i] = mark}

\* A template that is legal has the mark once.
Replace(text, mark, by) ==
    LET i == Max(Where(text, mark))
    IN  SubSeq(text, 1, i - 1) \o by \o SubSeq(text, i + 1, Len(text))

LastSpecialEnd(text) == Max({0} \union {i \in DOMAIN text : text[i] \in Special})

\* The prefix ends at the last special token before the question.
Boundary(skeleton) == LastSpecialEnd(SubSeq(skeleton, 1, Max(Where(skeleton, QuestionMark)) - 1))

\* A template that leaves each marker once, with a special token between the
\* two and another one behind the question.
TemplateIsLegal(skeleton) ==
    /\ \A mark \in {ContextMark, QuestionMark} : Cardinality(Where(skeleton, mark)) = 1
    /\ Boundary(skeleton) >= Max(Where(skeleton, ContextMark))
    /\ LastSpecialEnd(skeleton) >= Max(Where(skeleton, QuestionMark))

Register_lengthOnly(tok, tail, registry, code) ==
    LET all == Encode(tok, tail \o code)
    IN  IF Len(all) = Len(Encode(tok, tail)) + 1
        THEN [codes |-> Append(registry.codes, code), ids |-> Append(registry.ids, Last(all))]
        ELSE registry

\* A code that adds exactly one token to the answer slot, its own.
Register(tok, tail, registry, code) ==
    LET all == Encode(tok, tail \o code)
        id == Last(all)
    IN  IF /\ Front(all) = Encode(tok, tail)
           /\ id[1] \notin Special
           /\ id \notin ToSet(registry.ids)
           /\ id = code
        THEN [codes |-> Append(registry.codes, code), ids |-> Append(registry.ids, id)]
        ELSE registry

\* PromptCompiler.__init__: [ok, ...]; refused if the template is illegal or
\* there are fewer codes than options may be asked for.
NoCompiler == [ok |-> FALSE]
PromptCompiler(tok, skeleton) ==
    LET b == Boundary(skeleton)
        suffix == SubSeq(skeleton, b + 1, Len(skeleton)) \o AnswerPrefix
        tail == SubSeq(suffix, LastSpecialEnd(suffix) + 1, Len(suffix))
        registry == FoldLeft(LAMBDA r, code : Register(tok, tail, r, code),
                             [codes |-> <<>>, ids |-> <<>>], CodeCandidates)
    IN  IF TemplateIsLegal(skeleton) /\ Len(registry.codes) >= MaxOptions
        THEN [ok |-> TRUE, tokenizer |-> tok, skeleton |-> skeleton,
              prefix |-> SubSeq(skeleton, 1, b), suffix |-> suffix,
              slot |-> Encode(tok, tail), codes |-> registry.codes, ids |-> registry.ids]
        ELSE NoCompiler

-----------------------------------------------------------------------------
(* A request. *)

PrefixText(c, context) == Replace(c.prefix, ContextMark, AsData(context))

\* The task names each option by its code.
Suffix(c, question) ==
    Replace(c.suffix, QuestionMark,
            AsData(question.text \o FlattenSeq(SubSeq(c.codes, 1, question.options))))

Render(c, context, question) == PrefixText(c, context) \o Suffix(c, question)

PrefixIds(c, context) == Encode(c.tokenizer, PrefixText(c, context))
SuffixIds(c, question) == Encode(c.tokenizer, Suffix(c, question))

\* The slot of a suffix is tokenized as it was when the codes were tried.
SlotIsKept(c, question) == IsSuffix(c.slot, SuffixIds(c, question))

\* check_tokenizer: the engine tokenizes the whole text of the probe.
Verified(c) ==
    /\ SlotIsKept(c, Probe.question)
    /\ Encode(c.tokenizer, Render(c, Probe.context, Probe.question))
         = PrefixIds(c, Probe.context) \o SuffixIds(c, Probe.question)
=============================================================================
