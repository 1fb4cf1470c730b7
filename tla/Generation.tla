------------------------------ MODULE Generation ------------------------------
\* The applications of the root (inference.py): inference_mode generates text
\* behind a prompt, perplexity_mode scores a prompt, chat_mode talks with a
\* user.  They decide which token is fed at which position; what the sampler
\* makes of the logits is any token.
EXTENDS Text

CONSTANTS SeqLen,      \* header.seq_len
          NBatches,    \* args.n_batches
          Prompts,     \* args.prompt
          StepLimits,  \* args.steps
          Inputs,      \* what a user types in a chat: sequences of lines
          Templates,   \* the chat templates of tokenizers
          Samples      \* bound: the tokens that the sampler may choose

VARIABLES mode,      \* "inference", "perplexity" or "chat"
          steps,
          template,
          addBos,    \* the tokenizer has add_bos, and a BOS token
          lines,     \* the lines not read yet; the only one is the prompt if not in a chat
          items,     \* the messages so far: records [role, message]
          phase,     \* "begin", "ask", "eval", "predict", "score", "ended" or "raised"
          cause,     \* why it has raised
          input,     \* input_tokens
          pos,       \* the next position
          token,     \* the token to feed there
          kv,        \* kv[p]: the token fed last at position p
          held,      \* the decoder's buffer
          sampled,   \* history: all tokens sampled
          printed    \* history: all text printed of them

vars == <<mode, steps, template, addBos, lines, items, phase, cause, input, pos, token, kv, held,
          sampled, printed>>
answer == <<held, sampled, printed>>
setting == <<mode, steps, template, addBos>>

SmallerOf(a, b) == IF a < b THEN a ELSE b
Positions == 0..(SeqLen - 1)

Init ==
    /\ mode \in {"inference", "perplexity", "chat"}
    /\ steps \in IF mode = "inference" THEN StepLimits ELSE {0}
    /\ template \in IF mode = "chat" THEN Templates ELSE {"LLAMA3"}
    /\ addBos \in BOOLEAN
    /\ lines \in IF mode = "chat" THEN Inputs ELSE {<<p>> : p \in Prompts}
    /\ items = <<>> /\ phase = "begin" /\ cause = "none"
    /\ input = <<>> /\ pos = 0 /\ token = NoToken
    /\ kv = [p \in Positions |-> NoToken]
    /\ held = <<>> /\ sampled = <<>> /\ printed = <<>>

Goto(next) == phase' = next /\ UNCHANGED cause
Raise(why) == phase' = "raised" /\ cause' = why

\* RootLlmInference.set_batch_size, set_position, set_token and forward: the
\* tokens are fed at pos and the positions behind it.
Forward(tokens) ==
    kv' = [p \in Positions |-> IF p \in pos..(pos + Len(tokens) - 1) THEN tokens[p - pos + 1]
                               ELSE kv[p]]

\* Variant with a bug: whole batches only.
BatchSizeWhole(remaining) == (remaining \div NBatches) * NBatches
BatchSize(remaining) == SmallerOf(remaining, NBatches)

Message(role, text) == IF text = <<>> THEN <<>> ELSE <<[role |-> role, message |-> text]>>
NextLine == IF lines = <<>> THEN <<>> ELSE Head(lines)
OtherLines == IF lines = <<>> THEN <<>> ELSE Tail(lines)

-----------------------------------------------------------------------------
\* inference_mode and perplexity_mode up to the first forward.  The prompt may
\* have no token, of which inference_mode takes the first.
Begin ==
    /\ phase = "begin" /\ mode # "chat"
    /\ LET tokens == Encode(NextLine, TRUE, addBos)
           n == Len(tokens)
           refused == \/ ~Encodes(NextLine)
                      \/ mode = "inference" /\ (steps = 0 \/ n > SeqLen \/ n > steps)
       IN  CASE refused -> Raise("argument") /\ UNCHANGED <<input, token>>
             [] ~refused /\ mode = "inference" /\ n = 0 ->
                   Raise("index") /\ input' = tokens /\ UNCHANGED token
             [] ~refused /\ mode = "inference" /\ n > 0 ->
                   Goto("eval") /\ input' = tokens /\ token' = tokens[1]
             [] ~refused /\ mode = "perplexity" ->
                   Goto("score") /\ input' = tokens /\ UNCHANGED token
    /\ items' = Message("user", NextLine)
    /\ lines' = OtherLines
    /\ UNCHANGED <<setting, pos, kv, answer>>

Remaining == Len(input) - 1 - pos

\* A batch of the prompt, all but the last token of which is fed before the
\* prediction.
EvalInference ==
    /\ phase = "eval" /\ mode = "inference"
    /\ Remaining > 0
    /\ LET n == BatchSize(Remaining)
       IN  /\ Forward(SubSeq(input, pos + 1, pos + n))
           /\ pos' = pos + n
           /\ token' = IF pos + n < Len(input) THEN input[pos + n + 1] ELSE token
    /\ UNCHANGED <<setting, lines, items, phase, cause, input, answer>>

EvalInferenceDone ==
    /\ phase = "eval" /\ mode = "inference"
    /\ Remaining <= 0
    /\ Goto("predict")
    /\ held' = <<>>
    /\ UNCHANGED <<setting, lines, items, input, pos, token, kv, sampled, printed>>

MaxPos == IF mode = "inference" THEN SmallerOf(SeqLen, steps) ELSE SeqLen

\* One token: forward, sample, decode, print.  The end of text does not end it.
PredictInference(t) ==
    /\ phase = "predict" /\ mode = "inference"
    /\ pos < MaxPos
    /\ Forward(<<token>>)
    /\ token' = t
    /\ sampled' = Append(sampled, t)
    /\ IF Overflows(held, t)
       THEN /\ Raise("decoder")
            /\ UNCHANGED <<pos, held, printed>>
       ELSE /\ held' = Decode(held, t).held
            /\ printed' = printed \o Decode(held, t).text
            /\ pos' = pos + 1
            /\ UNCHANGED <<phase, cause>>
    /\ UNCHANGED <<setting, lines, items, input>>

PredictDone ==
    /\ phase = "predict"
    /\ pos >= MaxPos
    /\ Goto("ended")
    /\ UNCHANGED <<setting, lines, items, input, pos, token, kv, answer>>

-----------------------------------------------------------------------------
\* perplexity_mode: the tokens one by one; a position beyond the context has no
\* place in the key cache, and there is nothing to average for a single token.
\* For none it averages over -1 probabilities and prints a perplexity of 1.
Score ==
    /\ phase = "score"
    /\ Remaining > 0
    /\ IF pos >= SeqLen
       THEN Raise("context") /\ UNCHANGED <<pos, kv>>
       ELSE /\ Forward(<<input[pos + 1]>>)
            /\ pos' = pos + 1
            /\ UNCHANGED <<phase, cause>>
    /\ UNCHANGED <<setting, lines, items, input, token, answer>>

ScoreDone ==
    /\ phase = "score"
    /\ Remaining <= 0
    /\ IF Len(input) = 1 THEN Raise("division") ELSE Goto("ended")
    /\ UNCHANGED <<setting, lines, items, input, pos, token, kv, answer>>

-----------------------------------------------------------------------------
\* chat_mode: the system prompt, which may be empty as at the end of input.
BeginChat ==
    /\ phase = "begin" /\ mode = "chat"
    /\ items' = Message("system", NextLine)
    /\ lines' = OtherLines
    /\ Goto("ask")
    /\ UNCHANGED <<setting, input, pos, token, kv, answer>>

\* An empty line is asked for again, also at the end of input, where every
\* line is empty.
Ask ==
    /\ phase = "ask" /\ pos < SeqLen
    /\ lines' = OtherLines
    /\ items' = items \o Message("user", NextLine)
    /\ LET content == Content(template, items', Vocab[First(EosIds)])
       IN  CASE NextLine = <<>> -> UNCHANGED <<phase, cause, input>>
             [] NextLine # <<>> /\ ~Encodes(content) -> Raise("argument") /\ UNCHANGED input
             [] OTHER -> Goto("eval") /\ input' = Encode(content, pos = 0, addBos)
    /\ UNCHANGED <<setting, pos, token, kv, answer>>

\* Variant with a bug: no limit at the end of the context.
PromptEndUnlimited == Len(input) - 1
PromptEnd == SmallerOf(SeqLen, Len(input) - 1)

\* A batch of the prompt.  The token behind it is looked up one too far; behind
\* the last batch it is 0.  A turn begins at position 0: there is only one.
EvalChat ==
    /\ phase = "eval" /\ mode = "chat"
    /\ pos < PromptEnd
    /\ LET n == BatchSize(PromptEnd - pos)
       IN  IF pos + n > SeqLen
           THEN Raise("context") /\ UNCHANGED <<pos, token, kv>>
           ELSE /\ Forward(SubSeq(input, pos + 1, pos + n))
                /\ pos' = pos + n
                /\ token' = IF pos + n + 1 < Len(input) THEN input[pos + n + 2] ELSE 0
                /\ UNCHANGED <<phase, cause>>
    /\ UNCHANGED <<setting, lines, items, input, answer>>

EvalChatDone ==
    /\ phase = "eval" /\ mode = "chat"
    /\ pos >= PromptEnd
    /\ Goto("predict")
    /\ held' = <<>>
    /\ printed' = IF template = "DEEPSEEK3" THEN <<"think">> ELSE <<>>
    /\ UNCHANGED <<setting, lines, items, input, pos, token, kv, sampled>>

\* The first predicted token: EosDetector has no attribute MAYBE_EOS, so that
\* the comparison with it raises and the chat ends.
PredictChat(t) ==
    /\ phase = "predict" /\ mode = "chat"
    /\ pos < MaxPos
    /\ Forward(<<token>>)
    /\ token' = t
    /\ sampled' = Append(sampled, t)
    /\ Raise("attribute")
    /\ UNCHANGED <<setting, lines, items, input, pos, held, printed>>

-----------------------------------------------------------------------------
Next ==
    \/ Begin \/ EvalInference \/ EvalInferenceDone \/ PredictDone
    \/ Score \/ ScoreDone
    \/ BeginChat \/ Ask \/ EvalChat \/ EvalChatDone
    \/ \E t \in Samples : PredictInference(t) \/ PredictChat(t)

\* The application is one thread that nothing but reading a line holds up.
Spec == Init /\ [][Next]_vars /\ WF_vars(Next)

-----------------------------------------------------------------------------
Fed == [p \in 1..SmallerOf(pos, SeqLen) |-> kv[p - 1]]
Start == IF addBos THEN Vocab[BosId] ELSE <<>>
Prompt == FlattenSeq([i \in 1..Len(items) |-> items[i].message])

\* Bytes of messages, and not of what a template puts around them.
Spoken(text) == SelectSeq(text, LAMBDA b : \E i \in DOMAIN items : b \in ToSet(items[i].message))

\* The tokens in the KV cache are, in order and without a gap, BOS if the
\* tokenizer adds it, those of the prompt and then the sampled ones, whatever the tokenizer merged and however
\* the prompt was cut into batches; in a chat all that user and system prompt
\* say has been fed when the answer begins, as far as the context goes.
FedInOrder ==
    /\ mode # "chat" =>
          IsPrefix(TextOf(Fed), Start \o Prompt \o TextOf(sampled))
    /\ mode = "inference" /\ phase \in {"predict", "ended"} =>
          TextOf(Append(Fed, token)) = Start \o Prompt \o TextOf(sampled)
    /\ mode = "perplexity" /\ phase = "ended" =>
          Fed = SubSeq(input, 1, Len(input) - 1)
    /\ mode = "chat" /\ phase = "predict" =>
          /\ IsPrefix(Spoken(TextOf(Fed)), Prompt)
          /\ pos < SeqLen => Spoken(TextOf(Fed)) = Prompt

\* The bytes of the whole characters of a text, as UTF-8 has them.
IsChar(text, i) ==
    /\ Follow[text[i]] >= 0 /\ i + Follow[text[i]] <= Len(text)
    /\ \A j \in 1..Follow[text[i]] : Follow[text[i + j]] = -1

WholeChars(text) ==
    FlattenSeq([i \in 1..Len(text) |->
        IF IsChar(text, i) THEN SubSeq(text, i, i + Follow[text[i]]) ELSE <<>>])

Said == TextOf(SelectSeq(sampled, LAMBDA t : t \notin EosIds \cup {BosId}))

\* However tokens cut characters and whatever bytes come in between, each whole
\* character of the generated text is printed with its last byte, once and in
\* order.
TextIsWhole ==
    mode = "inference" /\ phase \in {"predict", "ended"} =>
        SelectSeq(printed, LAMBDA b : b # "?") = WholeChars(Said)

\* Only perplexity_mode runs out of the context, only inference_mode finds no
\* token, and that only for an empty prompt without BOS, and the decoder's buffer only
\* overflows behind so many bytes without a whole character as leave no room in
\* it for the longest token.
FailsOnlyAsKnown ==
    /\ cause = "context" => mode = "perplexity" /\ Len(input) > SeqLen + 1
    /\ cause = "index" => mode = "inference" /\ Start \o Prompt = <<>>
    /\ cause = "decoder" =>
          LET before == TextOf(SelectSeq(Front(sampled), LAMBDA t : t \notin EosIds \cup {BosId}))
              n == StrBufSize - MaxTokenLength
          IN  /\ Len(before) >= n
              /\ WholeChars(SubSeq(before, Len(before) - n + 1, Len(before))) = <<>>

\* An application ends, in order or with an exception, unless it is a chat
\* whose input ends before the user has said something: that asks for ever.
GenerationEnds ==
    (mode = "chat" => \E i \in 2..Len(lines) : lines[i] # <<>>) => <>(phase \in {"ended", "raised"})
===============================================================================
