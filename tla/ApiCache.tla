------------------------------ MODULE ApiCache ------------------------------
(* The API server (api.py): completions and chat completions, which share one  *)
(* model with one KV cache, and the NaiveCache of the chat endpoint, which     *)
(* remembers messages and the position behind them.  HTTPServer handles one    *)
(* request at a time, so a request is a sequence of forwards; one that raises, *)
(* or a client that goes away while the reply is streamed, ends the request    *)
(* and not the server.                                                         *)
(* A message is a model value and becomes one token; a prompt ends with one    *)
(* token that asks for the assistant's turn.                                   *)
EXTENDS Integers, Sequences, SequencesExt

CONSTANTS Chats,        \* the message lists clients send: sequences of messages
          PromptLens,   \* lengths of the prompts sent to /v1/completions, in tokens
                        \* of text
          SeqLen,       \* header.seq_len
          NBatches,     \* args.n_batches
          MaxRequests   \* bound on the number of requests

CONSTANTS Bos, Assistant, Text, Zero, Sampled, NoToken   \* other tokens

ASSUME ApiAssumption ==
    /\ SeqLen \in Nat \ {0} /\ NBatches \in Nat \ {0} /\ MaxRequests \in Nat
    /\ PromptLens \subseteq 0 .. SeqLen - 1

Message == UNION {ToSet(c) : c \in Chats}
Token == Message \cup {Bos, Assistant, Text, Zero, Sampled}

ASSUME TokenAssumption ==
    /\ \A c \in Chats : c \in Seq(Message)
    /\ NoToken \notin Token

VARIABLES pc,         \* where the handler is
          addBos,     \* the tokenizer has add_bos, and a BOS token
          kv,         \* the token behind each position of the KV cache, NoToken
                      \* if none has been fed there as a whole
          cache,      \* NaiveCache._cache: records [end, msg]
          start,      \* start_pos
          tokens,     \* the encoded prompt
          promptEnd,  \* prompt_end_pos
          pos,        \* position of the next forward
          token,      \* the token fed next
          reused,     \* history: the messages cut off as already cached
          completed,  \* history: since a chat was last evaluated from position 0
                      \* a completion has used the KV cache
          aborted,    \* history: since then a forward has raised before the end
                      \* that the prompt cache remembers
          outcome,    \* how the last request ended
          requests    \* number of requests so far

vars == <<pc, addBos, kv, cache, start, tokens, promptEnd, pos, token, reused,
          completed, aborted, outcome, requests>>
prompt == <<addBos, start, tokens, promptEnd, reused>>
request == <<prompt, completed, aborted>>

Init ==
    /\ pc = "idle"
    /\ addBos \in BOOLEAN
    /\ kv = [p \in 0 .. SeqLen - 1 |-> NoToken]
    /\ cache = <<>>
    /\ start = 0 /\ tokens = <<>> /\ promptEnd = 0 /\ pos = 0 /\ token = Zero
    /\ reused = <<>>
    /\ completed = FALSE /\ aborted = FALSE
    /\ outcome = "none"
    /\ requests = 0

(* What a forward at position p with the batch b leaves in the KV cache.       *)
Forward(p, b) ==
    kv' = [q \in 0 .. SeqLen - 1 |-> IF q \in p .. p + Len(b) - 1 THEN b[q - p + 1] ELSE kv[q]]

(* What it leaves if it raises: at each position of the batch the token, or    *)
(* what was there, or some layers or heads of each.                            *)
Abort(p, b) ==
    /\ \E fed, torn \in SUBSET (p .. p + Len(b) - 1) :
          kv' = [q \in 0 .. SeqLen - 1 |->
                    IF q \in torn THEN NoToken ELSE IF q \in fed THEN b[q - p + 1] ELSE kv[q]]
    /\ aborted' = (aborted \/ (cache # <<>> /\ p < Last(cache).end))

Finish(how) == pc' = "idle" /\ outcome' = how

-----------------------------------------------------------------------------
(* NaiveCache.                                                                 *)

(* Variant with a bug: the messages are not compared.                          *)
IsCachedPrefixByLength(messages) == Len(messages) > Len(cache) /\ cache # <<>>

IsCachedPrefix(messages) ==
    /\ cache # <<>>
    /\ Len(messages) > Len(cache)
    /\ \A i \in 1 .. Len(cache) : cache[i].msg = messages[i]

(* resolve_delta_prompt: how many messages are cut off.                        *)
Cached(messages) == IF IsCachedPrefix(messages) THEN Len(cache) ELSE 0

StartPos(messages) == IF IsCachedPrefix(messages) THEN Last(cache).end ELSE 0

(* Variant with a bug: the position behind the token fed last.                 *)
PushBehind(c, messages, end) ==
    c \o [i \in 1 .. Len(messages) |-> [end |-> end + 1, msg |-> messages[i]]]
Push(c, messages, end) == c \o [i \in 1 .. Len(messages) |-> [end |-> end, msg |-> messages[i]]]

-----------------------------------------------------------------------------
(* _handle_chat_completions.                                                   *)

StartTokens(isStart) == IF isStart /\ addBos THEN <<Bos>> ELSE <<>>

Encode(messages, isStart) == StartTokens(isStart) \o messages \o <<Assistant>>

(* Variant with a bug: no limit at the end of the context.                     *)
PromptEndUnlimited(s, n) == s + n - 1
PromptEnd(s, n) == IF s + n - 1 > SeqLen THEN SeqLen ELSE s + n - 1

(* All messages are pushed, the cached ones too, before any is evaluated.      *)
BeginChat(messages) ==
    LET s == StartPos(messages)
        delta == SubSeq(messages, Cached(messages) + 1, Len(messages))
        t == Encode(delta, s = 0)
        end == PromptEnd(s, Len(t))
        anew == s = 0 /\ messages # <<>>
    IN  /\ pc = "idle"
        /\ requests < MaxRequests
        /\ requests' = requests + 1
        /\ start' = s
        /\ reused' = SubSeq(messages, 1, Cached(messages))
        /\ tokens' = t
        /\ promptEnd' = end
        /\ cache' = Push(cache, messages, end)
        /\ pos' = s
        /\ pc' = "chatEval"
        /\ outcome' = "none"
        /\ completed' = (completed /\ ~anew)
        /\ aborted' = (aborted /\ ~anew)
        /\ UNCHANGED <<addBos, kv, token>>

Remaining == promptEnd - pos
BatchSize == IF Remaining < NBatches THEN Remaining ELSE NBatches
Batch == SubSeq(tokens, pos - start + 1, pos - start + BatchSize)

(* One batch of the prompt.  Behind the batch the code looks up tokens[i + 1], *)
(* counting from 0, which is one too far: after the last batch it is 0.        *)
EvalChat ==
    LET i == pos - start + BatchSize
    IN  /\ pc = "chatEval"
        /\ Remaining > 0
        /\ Forward(pos, Batch)
        /\ pos' = pos + BatchSize
        /\ token' = IF i + 1 < Len(tokens) THEN tokens[i + 2] ELSE Zero
        /\ UNCHANGED <<pc, cache, outcome, requests, request>>

EvalChatDone ==
    /\ pc = "chatEval"
    /\ Remaining <= 0
    /\ pc' = "chatPredict"
    /\ UNCHANGED <<kv, cache, pos, token, outcome, requests, request>>

(* The first predicted token.  EosDetector has no attribute MAYBE_EOS (it is a *)
(* local name in append), so the comparison raises and the request ends.       *)
(* max_tokens is positive, hence max_pred_pos is beyond prompt_end_pos unless  *)
(* that is seq_len.                                                            *)
PredictChat ==
    /\ pc = "chatPredict"
    /\ promptEnd < SeqLen
    /\ Forward(promptEnd, <<token>>)
    /\ token' = Sampled
    /\ pos' = promptEnd
    /\ Finish("raised")
    /\ UNCHANGED <<cache, requests, request>>

(* No room to predict: the reply is empty, and the cache is cleared or told.   *)
AnswerChat ==
    /\ pc = "chatPredict"
    /\ promptEnd >= SeqLen
    /\ cache' = IF pos >= SeqLen THEN <<>> ELSE Append(cache, [end |-> pos, msg |-> Text])
    /\ Finish("answered")
    /\ UNCHANGED <<kv, pos, token, requests, request>>

-----------------------------------------------------------------------------
(* _handle_completions: always from position 0.  The NaiveCache is not told.   *)
EncodePrompt(n) == StartTokens(TRUE) \o [i \in 1 .. n |-> Text]

BeginCompletion(n) ==
    LET t == EncodePrompt(n)
    IN  /\ pc = "idle"
        /\ requests < MaxRequests
        /\ t # <<>>
        /\ requests' = requests + 1
        /\ tokens' = t
        /\ start' = 0 /\ pos' = 0 /\ promptEnd' = Len(t) - 1 /\ reused' = <<>>
        /\ completed' = TRUE
        /\ pc' = "complete"
        /\ outcome' = "none"
        /\ UNCHANGED <<addBos, kv, cache, token, aborted>>

(* Without a token the only forward is at position -1.  It raises where the    *)
(* key is put into its cache, counted from the end: in the last position.      *)
CompleteNothing(n) ==
    /\ pc = "idle"
    /\ requests < MaxRequests
    /\ EncodePrompt(n) = <<>>
    /\ requests' = requests + 1
    /\ Abort(SeqLen - 1, <<Zero>>)
    /\ completed' = TRUE
    /\ Finish("raised")
    /\ UNCHANGED <<prompt, cache, pos, token>>

EvalCompletion ==
    /\ pc = "complete"
    /\ pos < promptEnd
    /\ Forward(pos, <<tokens[pos + 1]>>)
    /\ pos' = pos + 1
    /\ UNCHANGED <<pc, cache, token, outcome, requests, request>>

EvalCompletionDone ==
    /\ pc = "complete"
    /\ pos = promptEnd
    /\ token' = tokens[pos + 1]
    /\ pc' = "generate"
    /\ UNCHANGED <<kv, cache, pos, outcome, requests, request>>

(* One token: the end of text, or one more, after which a stop sequence or     *)
(* max_tokens may end the request as well.                                     *)
Generate ==
    /\ pc = "generate"
    /\ Forward(pos, <<token>>)
    /\ token' = Sampled
    /\ \/ pos' = pos /\ Finish("answered")
       \/ pos' = pos + 1 /\ Finish("answered")
       \/ pos' = pos + 1 /\ pos + 1 < SeqLen /\ UNCHANGED <<pc, outcome>>
    /\ UNCHANGED <<cache, requests, request>>

(* A streaming client has gone away: a write to its socket raises.             *)
Disconnect ==
    /\ pc \in {"chatPredict", "generate"}
    /\ Finish("gone")
    /\ UNCHANGED <<kv, cache, pos, token, requests, request>>

(* A forward raises, like a matmul whose threads race for its weight.          *)
(* HTTPServer goes on with the next request; the messages of this one stay in  *)
(* the prompt cache.                                                           *)
Raise ==
    /\ \/ pc = "chatEval" /\ Remaining > 0 /\ Abort(pos, Batch)
       \/ pc = "chatPredict" /\ promptEnd < SeqLen /\ Abort(promptEnd, <<token>>)
       \/ pc = "complete" /\ pos < promptEnd /\ Abort(pos, <<tokens[pos + 1]>>)
       \/ pc = "generate" /\ Abort(pos, <<token>>)
    /\ Finish("raised")
    /\ UNCHANGED <<cache, pos, token, requests, prompt, completed>>

-----------------------------------------------------------------------------
Next ==
    \/ \E messages \in Chats : BeginChat(messages)
    \/ \E n \in PromptLens : BeginCompletion(n) \/ CompleteNothing(n)
    \/ EvalChat \/ EvalChatDone \/ PredictChat \/ AnswerChat
    \/ EvalCompletion \/ EvalCompletionDone \/ Generate
    \/ Disconnect \/ Raise

Spec == Init /\ [][Next]_vars

-----------------------------------------------------------------------------
(* Type invariant.                                                             *)
TypeOK ==
    /\ pc \in {"idle", "chatEval", "chatPredict", "complete", "generate"}
    /\ addBos \in BOOLEAN
    /\ kv \in [0 .. SeqLen - 1 -> Token \cup {NoToken}]
    /\ \A i \in 1 .. Len(cache) : cache[i].end \in 0 .. SeqLen /\ cache[i].msg \in Message
    /\ start \in 0 .. SeqLen /\ promptEnd \in 0 .. SeqLen /\ pos \in 0 .. SeqLen
    /\ \A i \in 1 .. Len(tokens) : tokens[i] \in Token
    /\ token \in Token
    /\ reused \in Seq(Message)
    /\ completed \in BOOLEAN /\ aborted \in BOOLEAN
    /\ outcome \in {"none", "answered", "raised", "gone"}
    /\ requests \in 0 .. MaxRequests

(* Attention at a position reads all positions below it: each of them has been *)
(* written by some forward, also those a cached prefix skips, after answers,   *)
(* clients that went away and forwards that raised.  Only no forward must have *)
(* raised below the end of the prompt cache, which is told of a prompt before  *)
(* that is evaluated, so that a longer chat may start over unwritten           *)
(* positions; the next chat from position 0 on makes up for it.                *)
NoUnwrittenPrefix ==
    pc # "idle" /\ ~aborted => \A p \in 0 .. pos - 1 : kv[p] # NoToken

(* The messages in the KV cache below position n are those of q, in its order. *)
HoldsBelow(n, q) ==
    \E at \in [1 .. Len(q) -> 0 .. n - 1] :
        /\ \A i, j \in 1 .. Len(q) : i < j => at[i] < at[j]
        /\ \A i \in 1 .. Len(q) : kv[at[i]] = q[i]
        /\ \A p \in 0 .. n - 1 : kv[p] \in Message => \E i \in 1 .. Len(q) : at[i] = p

(* A cached prefix is in the KV cache: where a chat starts at a position > 0,  *)
(* the messages found below it are the ones cut off from the prompt.           *)
PrefixIsCached == pc = "chatEval" /\ start > 0 => HoldsBelow(start, reused)

(* Completions leave the cached prefix alone.  They do not: see the run        *)
(* apiCompletion.                                                              *)
SurvivesCompletions == ~aborted => PrefixIsCached

(* What is left of it: chats of one conversation, sent at any lengths, in      *)
(* any order and any number of times, find their prefix, although each ends    *)
(* with an exception, if since the last of them that started at position 0     *)
(* there was no completion and none of their evaluations raised.               *)
ChatsAloneAreCached == ~completed /\ ~aborted => PrefixIsCached
=============================================================================
