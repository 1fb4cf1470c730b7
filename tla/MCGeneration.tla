---------------------------- MODULE MCGeneration ----------------------------
EXTENDS Generation

\* Bytes: "a" is a character, "l" begins one of two bytes, "e" one of three,
\* "c" continues one, "x" is none; the others are the marks of templates.
MCFollow == [b \in {"a", "l", "e", "c", "x", "<", ">", "system", "user", "assistant", "end"} |->
    CASE b = "l" -> 1 [] b = "e" -> 2 [] b = "c" -> -1 [] b = "x" -> -2 [] OTHER -> 0]

\* Each byte but "x" is a token, as are pairs, whole and half characters and
\* four undecodable bytes; then the begin and the end of text.
Tokens ==
    <<<<"a">>, <<"l">>, <<"e">>, <<"c">>, <<"x", "x">>, <<"<">>, <<">">>, <<"system">>, <<"user">>,
      <<"assistant">>, <<"end">>, <<"a", "a">>, <<"l", "c">>, <<"a", "l">>, <<"e", "c">>,
      <<"x", "x", "x", "x">>, <<"<", "<">>, <<"<", ">">>>>

MCVocab == [t \in 0..(Len(Tokens) - 1) |-> Tokens[t + 1]]
MCScores == [t \in DOMAIN MCVocab |-> IF Tokens[t + 1] = <<"l", "c">> THEN 1 ELSE t]
MCBosId == 16
MCEosIds == {17}

\* a, l, c, characters and parts of them, xxxx, begin and end of text.
MCSamples == {0, 1, 3, 12, 13, 14, 15, 16, 17}

MCPrompts == {<<"a", "a">>, <<"a", "l", "c">>, <<"a", "a", "a", "e", "c", "c">>,
              <<"a", "e", "c", "c", "a", "a", "a", "e", "c", "c", "a">>,
              <<"a", "<", ">", "a">>, <<"a", "x", "x", "x", "x">>, <<"x", "x", "x">>, <<>>}

\* A system prompt, a user who presses enter first, who says something that is
\* no text of tokens, and input that ends.
MCInputs == {<<<<>>, <<"a">>>>, <<<<"a">>, <<"l", "c">>>>, <<<<>>, <<>>, <<"a">>>>,
             <<<<"a">>, <<"a", "a", "a", "e", "c", "c">>>>,
             <<<<"a">>, <<"x">>>>, <<<<"a">>>>, <<>>}

MCTemplates == {"LLAMA2", "LLAMA3", "DEEPSEEK3", "CHATML"}
=============================================================================
