---------------------------- MODULE MCCacheCheck ----------------------------
(* Two questions, one of which takes two calls, and engines that answer a   *)
(* question afresh with "base" and change this by reuse to "shifted", which *)
(* is beyond the tolerance, to "flipped", which is within it but selects    *)
(* another option, or not at all.                                           *)
EXTENDS CacheCheck

MCChunks == <<2, 1>>
MCAnswer == {"base", "shifted", "flipped"}
MCNear == {<<a, a>> : a \in MCAnswer} \union {<<"base", "flipped">>, <<"flipped", "base">>}
MCSelects == [a \in MCAnswer |-> IF a = "flipped" THEN 2 ELSE 1]
MCAnswers(n) == {f \in [SUBSET (1 .. n) -> MCAnswer] : f[{}] = "base"}
MCEngines == [answer : {<<f, g>> : f \in MCAnswers(2), g \in MCAnswers(1)},
              caches : BOOLEAN, tells : BOOLEAN]
=============================================================================
