--------------------------------- MODULE Text ---------------------------------
\* The tokenizer and the chat templates (tokenizer.py): text is a sequence of
\* bytes, of which a model needs a few of each class, and a token is a number
\* with a text.  Tokens from BosId on are special.
EXTENDS Integers, Sequences, SequencesExt

CONSTANTS Vocab,           \* Vocab[t]: the bytes of token t, from 0
          Scores,          \* Scores[t]
          BosId, EosIds,
          MaxTokenLength,
          Follow           \* Follow[b]: how many bytes follow b at the start of a
                           \* character, -1 for one in the middle, -2 for neither

NoToken == -1
Regular == 0..(BosId - 1)
Special == DOMAIN Vocab \ Regular

\* Next applied n times; x is bound by a set for TLC to evaluate it once.
Iterate(Next(_), n, init) ==
    LET value[k \in 0..n] == IF k = 0 THEN init
                             ELSE CHOOSE y \in {Next(x) : x \in {value[k - 1]}} : TRUE
    IN  value[n]

TextOf(tokens) == FlattenSeq([i \in 1..Len(tokens) |-> Vocab[tokens[i]]])
First(tokens) == IF tokens = {} THEN NoToken ELSE CHOOSE t \in tokens : \A u \in tokens : t <= u

-----------------------------------------------------------------------------
\* Tokenizer.encode.
FindRegular(piece) == First({t \in Regular : Vocab[t] = piece})

FindSpecial(text, i) ==
    First({t \in Special : IsPrefix(Vocab[t], SubSeq(text, i, Len(text)))})

\* One turn of the first loop: a special token, or a byte more of a piece.
ScanNext(text, s) ==
    LET special == FindSpecial(text, s.i)
        piece == Append(s.piece, text[s.i])
        regular == FindRegular(piece)
    IN  IF s.i > Len(text) THEN s
        ELSE IF special # NoToken
        THEN [s EXCEPT !.tokens = Append(@, special), !.i = @ + Len(Vocab[special])]
        ELSE IF regular # NoToken
        THEN [i |-> s.i + 1, tokens |-> Append(s.tokens, regular), piece |-> <<>>]
        ELSE [s EXCEPT !.i = @ + 1, !.piece = piece]

\* addBos: the tokenizer's header has add_bos, an optional key, and a BOS token.
StartTokens(isStart, addBos) == IF isStart /\ addBos THEN <<BosId>> ELSE <<>>

Scan(text, start) ==
    Iterate(LAMBDA s : ScanNext(text, s), Len(text), [i |-> 1, tokens |-> start, piece |-> <<>>])

\* The merge loop: of all neighbours that are a token together, the first pair
\* with the highest score becomes that token.
Merged(tokens, j) == FindRegular(Vocab[tokens[j]] \o Vocab[tokens[j + 1]])

Pairs(tokens) ==
    {j \in 1..(Len(tokens) - 1) :
        /\ Len(Vocab[tokens[j]]) + Len(Vocab[tokens[j + 1]]) <= MaxTokenLength
        /\ Merged(tokens, j) # NoToken}

BestPair(tokens) ==
    LET score(j) == Scores[Merged(tokens, j)]
    IN  CHOOSE j \in Pairs(tokens) : \A k \in Pairs(tokens) :
            score(j) > score(k) \/ (score(j) = score(k) /\ j <= k)

\* Variant with a bug: the first of the two stays.
MergeBestKeepFirst(tokens) ==
    IF Pairs(tokens) = {} THEN tokens
    ELSE LET j == BestPair(tokens)
         IN  SubSeq(tokens, 1, j) \o <<Merged(tokens, j)>> \o SubSeq(tokens, j + 3, Len(tokens))

MergeBest(tokens) ==
    IF Pairs(tokens) = {} THEN tokens
    ELSE LET j == BestPair(tokens)
         IN  SubSeq(tokens, 1, j - 1) \o <<Merged(tokens, j)>> \o SubSeq(tokens, j + 2, Len(tokens))

Merge(tokens) == Iterate(MergeBest, Len(tokens), tokens)

\* Bytes that are no token at the end raise.
Encodes(text) == Scan(text, <<>>).piece = <<>>
Encode(text, isStart, addBos) == Merge(Scan(text, StartTokens(isStart, addBos)).tokens)

-----------------------------------------------------------------------------
\* Tokenizer.decode.  "held" is the part of _str_buffer in use.
LongerOf(a, b) == IF a > b THEN a ELSE b
StrBufSize == LongerOf(MaxTokenLength * 2, 8) + 3

\* One turn of _detok_utf8's loop.  A byte that does not fit takes the output
\* back to the last whole character and leaves a replacement mark behind it; if
\* it ended an unfinished character it is looked at again.
DetokNext(held, s) ==
    LET b == held[s.i]
        fits == IF s.expect > 0 THEN Follow[b] = -1 ELSE Follow[b] >= 0
        expect == IF s.expect > 0 THEN s.expect - 1 ELSE Follow[b]
        out == Append(s.out, b)
    IN  IF s.i > Len(held) THEN s
        ELSE IF fits
        THEN [i |-> s.i + 1, out |-> out, expect |-> expect,
              whole |-> IF expect = 0 THEN [i |-> s.i + 1, n |-> Len(out)] ELSE s.whole]
        ELSE [s EXCEPT !.i = IF s.expect > 0 THEN @ ELSE @ + 1,
                       !.expect = 0,
                       !.out = Append(SubSeq(@, 1, s.whole.n), "?")]

Detok(held) ==
    Iterate(LAMBDA s : DetokNext(held, s), 2 * Len(held),
            [i |-> 1, out |-> <<>>, expect |-> 0, whole |-> [i |-> 1, n |-> 0]])

\* Variant with a bug: an unfinished character is dropped.
HeldAfterNothing(held) == <<>>

\* What follows the last whole character is kept for the next token.
HeldAfter(held) == SubSeq(held, Detok(held).whole.i, Len(held))

Decode(held, token) ==
    LET all == held \o Vocab[token]
        detok == Detok(all)
    IN  CASE token = BosId -> [text |-> <<>>, held |-> held]
          [] token \in EosIds -> [text |-> [i \in 1..Len(held) |-> "?"], held |-> held]
          [] OTHER -> [text |-> SubSeq(detok.out, 1, detok.whole.n), held |-> HeldAfter(all)]

\* Variant with a bug: no room beyond the longest token.
OverflowsTight(held, token) ==
    token \notin EosIds \cup {BosId} /\ Len(held) + Len(Vocab[token]) > MaxTokenLength

\* The byte behind the text is set to 0: there has to be one.
Overflows(held, token) ==
    token \notin EosIds \cup {BosId} /\ Len(held) + Len(Vocab[token]) >= StrBufSize

-----------------------------------------------------------------------------
\* ChatTemplateGenerator.generate.  The fixed text around a message is one byte
\* with the name of the role; "eos" is the first stop.
Around(item, end) == <<item.role>> \o item.message \o end

FromEach(items, Part(_)) == FlattenSeq([i \in 1..Len(items) |-> Part(items[i])])

Llama2(items, eos) ==
    LET pair == Len(items) >= 2 /\ items[1].role = "system" /\ items[2].role = "user"
        part(item) == CASE item.role = "assistant" -> item.message \o eos
                        [] item.role \in {"user", "tool"} -> Around(item, eos)
                        [] OTHER -> <<>>
    IN  IF pair
        THEN Around(items[1], <<>>) \o items[2].message \o eos
             \o FromEach(SubSeq(items, 3, Len(items)), part)
        ELSE FromEach(items, part)

DeepSeek3(items) ==
    LET part(item) == IF item.role \in {"user", "assistant"} THEN Around(item, <<>>) ELSE <<>>
    IN  IF items # <<>> /\ items[1].role = "system"
        THEN items[1].message \o FromEach(Tail(items), part)
        ELSE FromEach(items, part)

Content(template, items, eos) ==
    CASE template = "LLAMA2" -> Llama2(items, eos)
      [] template = "LLAMA3" -> FromEach(items, LAMBDA item : Around(item, eos)) \o <<"assistant">>
      [] template = "DEEPSEEK3" -> DeepSeek3(items) \o <<"assistant">>
      [] template = "CHATML" -> FromEach(items, LAMBDA item : Around(item, <<"end">>)) \o <<"assistant">>
===============================================================================
