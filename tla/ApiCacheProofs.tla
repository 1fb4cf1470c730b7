--------------------------- MODULE ApiCacheProofs ---------------------------
(***************************************************************************)
(* Proofs about ApiCache, for any chats, prompts and context length.       *)
(*                                                                         *)
(* No forward attends to a position of the KV cache that nobody has        *)
(* written, whatever requests the server has handled before, as long as    *)
(* no forward has raised below the end that NaiveCache remembers.  The     *)
(* reason is that the KV cache is written below that end, except during    *)
(* the evaluation of the prompt it is the end of; and that a chat which    *)
(* starts at position 0 has a new one remembered and writes all below it.  *)
(*                                                                         *)
(* For the chats of one conversation (OneConversation), what is cut off    *)
(* from a prompt is what the KV cache holds.                               *)
(***************************************************************************)
EXTENDS ApiCache, SequenceTheorems, TLAPS

\* All positions of the KV cache m below n have been written.
Written(m, n) == \A p \in 0 .. n - 1 : m[p] # NoToken

Entry == [end : 0 .. SeqLen, msg : Message]

\* What TypeOK says of the elements of the two lists, said of the lists.
Lists == cache \in Seq(Entry) /\ tokens \in Seq(Token)

\* Where a request is in its prompt.
Progress ==
    /\ pc = "chatEval" => /\ start <= pos /\ pos <= promptEnd
                          /\ promptEnd - start < Len(tokens)
    /\ pc = "chatPredict" => pos = promptEnd
    /\ pc = "complete" => pos <= promptEnd /\ promptEnd + 1 = Len(tokens) /\ promptEnd < SeqLen
    /\ pc = "generate" => pos < SeqLen

\* What NaiveCache remembers last has been written, or is being written.
Remembered ==
    cache # <<>> => \/ Written(kv, Last(cache).end)
                    \/ pc = "chatEval" /\ Last(cache).end = promptEnd

Intact == Remembered /\ (pc # "idle" => Written(kv, pos))

IInv == TypeOK /\ Lists /\ Progress /\ (~ aborted => Intact)
-----------------------------------------------------------------------------
\* Types of the constants.
LEMMA Constants ==
    /\ SeqLen \in Nat /\ SeqLen > 0
    /\ NBatches \in Nat /\ NBatches > 0
    BY ApiAssumption

\* A slice of a sequence is a sequence of its elements.
LEMMA SliceType ==
    ASSUME NEW S, NEW q \in Seq(S), NEW m \in Nat, NEW n \in Nat, 1 <= m, n <= Len(q)
    PROVE  /\ SubSeq(q, m, n) \in Seq(S)
           /\ m <= n + 1 => Len(SubSeq(q, m, n)) = n - m + 1
<1>1. \A i \in m .. n : q[i] \in S
    OBVIOUS
<1>2. m \in Int /\ n \in Int
    OBVIOUS
<1>. QED
    BY <1>1, <1>2, SubSeqProperties

\* A forward writes the positions of its batch and leaves the others alone.
LEMMA ForwardWrites ==
    ASSUME TypeOK, NEW p \in Nat, NEW b \in Seq(Token), Forward(p, b)
    PROVE  /\ kv' \in [0 .. SeqLen - 1 -> Token \cup {NoToken}]
           /\ \A n \in 0 .. SeqLen : Written(kv, n) => Written(kv', n)
           /\ Written(kv, p) /\ p + Len(b) <= SeqLen => Written(kv', p + Len(b))
<1> USE Constants
<1> DEFINE At == p .. p + Len(b) - 1
<1>1. \A q \in At : b[q - p + 1] \in Token
    <2>1. \A i \in 1 .. Len(b) : b[i] \in Token
        OBVIOUS
    <2>2. \A q \in At : q - p + 1 \in 1 .. Len(b)
        OBVIOUS
    <2>. QED
        BY <2>1, <2>2
<1>2. kv' = [q \in 0 .. SeqLen - 1 |-> IF q \in At THEN b[q - p + 1] ELSE kv[q]]
    BY DEF Forward
<1>3. kv \in [0 .. SeqLen - 1 -> Token \cup {NoToken}]
    BY DEF TypeOK
<1>4. kv' \in [0 .. SeqLen - 1 -> Token \cup {NoToken}]
    <2> HIDE DEF At
    <2>. QED
        BY <1>1, <1>2, <1>3
<1>5. \A q \in 0 .. SeqLen - 1 : q \in At \/ kv[q] # NoToken => kv'[q] # NoToken
    <2> HIDE DEF At
    <2>. QED
        BY <1>1, <1>2, TokenAssumption
<1>6. \A n \in 0 .. SeqLen : Written(kv, n) => Written(kv', n)
    BY <1>5 DEF Written
<1>7. ASSUME Written(kv, p), p + Len(b) <= SeqLen, NEW q \in 0 .. p + Len(b) - 1
      PROVE  kv'[q] # NoToken
    <2>1. q \in 0 .. SeqLen - 1 /\ (q \in At \/ q \in 0 .. p - 1)
        BY <1>7
    <2>. QED
        BY <1>5, <1>7, <2>1 DEF Written
<1>. QED
    BY <1>4, <1>6, <1>7 DEF Written

\* The positions NaiveCache remembers exist.
LEMMA Ends ==
    ASSUME NEW q \in Seq(Entry), NEW i \in 1 .. Len(q)
    PROVE  q[i].end \in 0 .. SeqLen /\ q[i].msg \in Message
<1>1. q[i] \in Entry
    OBVIOUS
<1>. QED
    BY <1>1 DEF Entry

LEMMA LastEnds ==
    ASSUME NEW q \in Seq(Entry), q # <<>>
    PROVE  Last(q) = q[Len(q)] /\ Last(q).end \in 0 .. SeqLen
<1>1. Len(q) \in 1 .. Len(q)
    OBVIOUS
<1>. QED
    BY <1>1, Ends DEF Last

\* A forward that raises spoils its own positions only.
LEMMA AbortSpoils ==
    ASSUME TypeOK, Lists, NEW p \in 0 .. SeqLen, NEW b \in Seq(Token), Abort(p, b)
    PROVE  /\ kv' \in [0 .. SeqLen - 1 -> Token \cup {NoToken}]
           /\ aborted' \in BOOLEAN
           /\ \A q \in 0 .. SeqLen - 1 : q < p => kv'[q] = kv[q]
           /\ \A n \in 0 .. p : Written(kv, n) => Written(kv', n)
           /\ ~ aborted' => ~ aborted /\ (cache # <<>> => Last(cache).end \in 0 .. p)
<1> USE Constants
<1> DEFINE At == p .. p + Len(b) - 1
<1>1. PICK fed \in SUBSET At, torn \in SUBSET At :
         kv' = [q \in 0 .. SeqLen - 1 |->
                   IF q \in torn THEN NoToken ELSE IF q \in fed THEN b[q - p + 1] ELSE kv[q]]
    BY DEF Abort
<1>2. \A q \in At : b[q - p + 1] \in Token
    <2>1. \A i \in 1 .. Len(b) : b[i] \in Token
        OBVIOUS
    <2>2. \A q \in At : q - p + 1 \in 1 .. Len(b)
        OBVIOUS
    <2>. QED
        BY <2>1, <2>2
<1>3. kv \in [0 .. SeqLen - 1 -> Token \cup {NoToken}]
    BY DEF TypeOK
<1>4. \A q \in At : q \in Int /\ q >= p
    OBVIOUS
<1> HIDE DEF At
<1>5. kv' \in [0 .. SeqLen - 1 -> Token \cup {NoToken}]
    BY <1>1, <1>2, <1>3
<1>6. \A q \in 0 .. SeqLen - 1 : q < p => kv'[q] = kv[q]
    BY <1>1, <1>4
<1>7. \A n \in 0 .. p : Written(kv, n) => Written(kv', n)
    BY <1>6 DEF Written
<1>8. aborted' = (aborted \/ (cache # <<>> /\ p < Last(cache).end))
    BY DEF Abort
<1>9. aborted' \in BOOLEAN
    BY <1>8 DEF TypeOK
<1>10. ~ aborted' => ~ aborted /\ (cache # <<>> => Last(cache).end \in 0 .. p)
    <2>1. cache # <<>> => Last(cache).end \in 0 .. SeqLen
        BY LastEnds DEF Lists
    <2>2. ~ aborted' => ~ aborted /\ ~ (cache # <<>> /\ p < Last(cache).end)
        BY <1>8, Zenon
    <2>3. cache # <<>> /\ ~ (p < Last(cache).end) => Last(cache).end \in 0 .. p
        BY <2>1
    <2>. QED
        BY <2>2, <2>3
<1>. QED
    BY <1>5, <1>6, <1>7, <1>9, <1>10

\* What is remembered stays written, whatever a forward overwrites.
LEMMA RememberedStays ==
    ASSUME TypeOK, Lists, Remembered, pc # "chatEval", UNCHANGED cache,
           NEW p \in Nat, NEW b \in Seq(Token), Forward(p, b)
    PROVE  Remembered'
<1> SUFFICES ASSUME cache # <<>> PROVE Written(kv', Last(cache).end)
    BY DEF Remembered, Written
<1>1. Written(kv, Last(cache).end) /\ Last(cache).end \in 0 .. SeqLen
    BY LastEnds DEF Remembered, Lists
<1>2. \A n \in 0 .. SeqLen : Written(kv, n) => Written(kv', n)
    BY ForwardWrites
<1>. QED
    BY <1>1, <1>2 DEF Written

\* Init has an empty prompt cache.
LEMMA InitIInv == Init => IInv
<1> USE Constants
<1> SUFFICES ASSUME Init PROVE IInv
    OBVIOUS
<1>1. cache = <<>> /\ tokens = <<>> /\ reused = <<>> /\ pc = "idle"
    BY DEF Init
<1>2. Lists /\ reused \in Seq(Message)
    BY <1>1 DEF Lists
<1>3. Zero \in Token
    BY DEF Token
<1>4. TypeOK
    BY <1>1, <1>2, <1>3, ApiAssumption DEF Init, TypeOK
<1>. QED
    BY <1>1, <1>2, <1>4 DEF IInv, Progress, Intact, Remembered

\* A chat starts behind what has been written, and its prompt ends within the context.
LEMMA BeginChatInv ==
    ASSUME IInv, NEW messages \in Chats, BeginChat(messages)
    PROVE  IInv'
<1> USE Constants
<1> DEFINE s == StartPos(messages)
<1> DEFINE k == Cached(messages)
<1> DEFINE delta == SubSeq(messages, k + 1, Len(messages))
<1> DEFINE t == Encode(delta, s = 0)
<1> DEFINE end == PromptEnd(s, Len(t))
<1>1. messages \in Seq(Message) /\ Len(messages) \in Nat
    BY TokenAssumption
<1>2. cache \in Seq(Entry) /\ Len(cache) \in Nat /\ pc = "idle"
    BY DEF IInv, Lists, BeginChat
<1>3. k \in 0 .. Len(messages)
    BY <1>1, <1>2 DEF Cached, IsCachedPrefix
<1>4. s \in 0 .. SeqLen /\ (s = 0 \/ ~ aborted => Written(kv, s))
    <2>1. CASE IsCachedPrefix(messages)
        <3>1. s = Last(cache).end /\ cache # <<>>
            BY <2>1 DEF StartPos, IsCachedPrefix
        <3>. QED
            BY <1>2, <3>1, LastEnds DEF IInv, Intact, Remembered, Written
    <2>2. CASE ~ IsCachedPrefix(messages)
        BY <2>2 DEF StartPos, Written
    <2>. QED
        BY <2>1, <2>2
<1>5. delta \in Seq(Message)
    BY <1>1, <1>3, SliceType
<1>6. t \in Seq(Token) /\ Len(t) >= 1
    <2> HIDE DEF delta, s
    <2>1. delta \in Seq(Token) /\ <<Assistant>> \in Seq(Token) /\ <<Bos>> \in Seq(Token) /\ <<>> \in Seq(Token)
        BY <1>5 DEF Token
    <2> DEFINE h == StartTokens(s = 0)
    <2>2. h \in Seq(Token)
        BY <2>1 DEF StartTokens
    <2> HIDE DEF h
    <2>3. h \o delta \in Seq(Token)
        BY <2>1, <2>2, ConcatProperties
    <2>4. (h \o delta) \o <<Assistant>> \in Seq(Token)
        BY <2>1, <2>3, ConcatProperties
    <2>5. Len((h \o delta) \o <<Assistant>>) = Len(h \o delta) + Len(<<Assistant>>)
        BY <2>1, <2>3, ConcatProperties
    <2>6. Len(<<Assistant>>) = 1 /\ Len(h \o delta) \in Nat
        BY <2>3
    <2>7. t = (h \o delta) \o <<Assistant>>
        BY DEF Encode, h
    <2>8. Len(t) >= 1
        BY <2>5, <2>6, <2>7
    <2>. QED
        BY <2>4, <2>7, <2>8
<1> HIDE DEF t, delta, s, k
<1>7. Len(t) \in Nat
    BY <1>6
<1>8. end \in 0 .. SeqLen /\ s <= end /\ end - s < Len(t)
    BY <1>4, <1>6, <1>7 DEF PromptEnd
<1> HIDE DEF end
<1>9. /\ start' = s /\ tokens' = t /\ promptEnd' = end /\ cache' = Push(cache, messages, end)
      /\ pos' = s /\ pc' = "chatEval" /\ outcome' = "none" /\ kv' = kv /\ token' = token
      /\ addBos' = addBos /\ reused' = SubSeq(messages, 1, k)
      /\ completed' = (completed /\ ~ (s = 0 /\ messages # <<>>))
      /\ aborted' = (aborted /\ ~ (s = 0 /\ messages # <<>>))
      /\ requests < MaxRequests /\ requests' = requests + 1
    BY DEF BeginChat, s, k, delta, t, end
<1>10. reused' \in Seq(Message)
    BY <1>1, <1>3, <1>9, SliceType
<1> DEFINE new == [i \in 1 .. Len(messages) |-> [end |-> end, msg |-> messages[i]]]
<1>11. new \in Seq(Entry) /\ Len(new) = Len(messages)
    <2>1. \A i \in 1 .. Len(messages) : messages[i] \in Message
        BY <1>1
    <2>2. \A i \in 1 .. Len(messages) : [end |-> end, msg |-> messages[i]] \in Entry
        BY <1>8, <2>1 DEF Entry
    <2>. QED
        BY <1>1, <2>2
<1>12. \A i \in 1 .. Len(messages) : new[i].end = end
    OBVIOUS
<1>13. cache' = cache \o new
    BY <1>9 DEF Push
<1> HIDE DEF new
<1>14. /\ cache' \in Seq(Entry)
       /\ Len(cache') = Len(cache) + Len(messages)
       /\ \A i \in 1 .. Len(cache') : i <= Len(cache) => cache'[i] = cache[i]
       /\ \A i \in 1 .. Len(cache') : i > Len(cache) => cache'[i] = new[i - Len(cache)]
    <2>1. /\ cache \o new \in Seq(Entry)
          /\ Len(cache \o new) = Len(cache) + Len(new)
          /\ \A i \in 1 .. Len(cache) + Len(new) : (cache \o new)[i] =
                IF i <= Len(cache) THEN cache[i] ELSE new[i - Len(cache)]
        BY <1>2, <1>11, ConcatProperties
    <2>2. Len(cache') = Len(cache) + Len(messages)
        BY <1>11, <1>13, <2>1
    <2>. QED
        BY <1>2, <1>1, <1>11, <1>13, <2>1, <2>2
<1>15. Lists'
    BY <1>6, <1>9, <1>14 DEF Lists, Entry
<1>16. TypeOK'
    <2>1. \A i \in 1 .. Len(cache') : cache'[i].end \in 0 .. SeqLen /\ cache'[i].msg \in Message
        BY <1>14, Ends
    <2>2. \A i \in 1 .. Len(tokens') : tokens'[i] \in Token
        BY <1>6, <1>9
    <2>3. requests' \in 0 .. MaxRequests
        BY <1>9, ApiAssumption DEF IInv, TypeOK
    <2>. QED
        BY <1>4, <1>8, <1>9, <1>10, <2>1, <2>2, <2>3 DEF IInv, TypeOK
<1>17. ~ aborted' => Remembered'
    <2>1. CASE messages = <<>>
        <3>1. cache' = cache
            <4>1. Len(cache') = Len(cache)
                BY <1>1, <1>2, <1>14, <2>1
            <4>. QED
                BY <1>2, <1>14, <4>1
        <3>2. aborted' = aborted
            BY <1>9, <2>1 DEF IInv, TypeOK
        <3>. QED
            BY <1>2, <1>9, <3>1, <3>2 DEF IInv, Intact, Remembered, Written
    <2>2. CASE messages # <<>>
        <3>1. Len(messages) >= 1
            BY <1>1, <2>2
        <3>2. /\ Len(cache') \in 1 .. Len(cache') /\ Len(cache') > Len(cache)
              /\ Len(cache') - Len(cache) \in 1 .. Len(messages)
            BY <1>1, <1>2, <1>14, <3>1
        <3>3. cache'[Len(cache')].end = end
            BY <1>12, <1>14, <3>2
        <3>. QED
            BY <1>9, <3>3 DEF Remembered, Last
    <2>. QED
        BY <2>1, <2>2
<1>18. Progress'
    <2>1. start' <= pos' /\ pos' <= promptEnd' /\ promptEnd' - start' < Len(tokens')
        BY <1>4, <1>8, <1>9
    <2>2. pc' = "chatEval"
        BY <1>9
    <2>. QED
        BY <2>1, <2>2 DEF Progress
<1>19. ~ aborted' => Written(kv', pos')
    BY <1>4, <1>9 DEF Written
<1>. QED
    BY <1>15, <1>16, <1>17, <1>18, <1>19 DEF IInv, Intact

\* A batch of the prompt is a slice of its tokens, behind what is written.
LEMMA BatchType ==
    ASSUME IInv, pc = "chatEval", Remaining > 0
    PROVE  /\ pos \in 0 .. SeqLen /\ start \in 0 .. SeqLen /\ promptEnd \in 0 .. SeqLen
           /\ tokens \in Seq(Token) /\ Len(tokens) \in Nat
           /\ start <= pos /\ promptEnd - start < Len(tokens)
           /\ BatchSize \in Nat /\ BatchSize >= 1 /\ BatchSize <= promptEnd - pos
           /\ Batch \in Seq(Token) /\ Len(Batch) = BatchSize
           /\ \A j \in 1 .. BatchSize : Batch[j] = tokens[pos - start + j]
<1> USE Constants
<1>1. /\ pos \in 0 .. SeqLen /\ start \in 0 .. SeqLen /\ promptEnd \in 0 .. SeqLen
      /\ tokens \in Seq(Token) /\ Len(tokens) \in Nat
    BY DEF IInv, TypeOK, Lists
<1>2. start <= pos /\ promptEnd - start < Len(tokens)
    BY DEF IInv, Progress
<1>3. BatchSize \in Nat /\ BatchSize >= 1 /\ BatchSize <= promptEnd - pos
    BY <1>1 DEF BatchSize, Remaining
<1> DEFINE i == pos - start
<1> DEFINE n == BatchSize
<1>4. Batch = SubSeq(tokens, i + 1, i + n)
    BY DEF Batch
<1>5. i \in Nat /\ n \in Nat /\ n >= 1 /\ i + n <= Len(tokens)
    BY <1>1, <1>2, <1>3
<1> HIDE DEF i, n
<1>6. Batch \in Seq(Token) /\ Len(Batch) = n
    BY <1>1, <1>4, <1>5, SliceType
<1>7. \A j \in 1 .. n : Batch[j] = tokens[i + j]
    <2>1. \A j \in (i + 1) .. (i + n) : tokens[j] \in Token
        BY <1>1, <1>5
    <2>2. /\ i + 1 \in Int /\ i + n \in Int
          /\ \A j \in 1 .. n : (i + 1) + j - 1 = i + j
        BY <1>5
    <2>3. \A j \in 1 .. n : Batch[j] = tokens[(i + 1) + j - 1]
        BY <1>1, <1>4, <1>5, <1>6, <2>1, <2>2, SubSeqProperties
    <2>. QED
        BY <2>2, <2>3
<1>. QED
    BY <1>1, <1>2, <1>3, <1>6, <1>7 DEF i, n

LEMMA EvalChatInv ==
    ASSUME IInv, EvalChat
    PROVE  IInv'
<1> USE Constants
<1> DEFINE n == BatchSize
<1> DEFINE b == Batch
<1> DEFINE i == pos - start + BatchSize
<1>1. pc = "chatEval" /\ Remaining > 0
    BY DEF EvalChat
<1>2. /\ pos \in 0 .. SeqLen /\ start \in 0 .. SeqLen /\ promptEnd \in 0 .. SeqLen
      /\ tokens \in Seq(Token) /\ Len(tokens) \in Nat
      /\ start <= pos /\ promptEnd - start < Len(tokens)
      /\ n \in Nat /\ n >= 1 /\ n <= promptEnd - pos
      /\ b \in Seq(Token) /\ Len(b) = n
    BY <1>1, BatchType
<1>4. /\ Forward(pos, b) /\ pos' = pos + n
      /\ token' = IF i + 1 < Len(tokens) THEN tokens[i + 2] ELSE Zero
      /\ UNCHANGED <<pc, cache, outcome, requests, request>>
    BY DEF EvalChat
<1>5. i \in Nat /\ i <= Len(tokens)
    BY <1>2
<1> HIDE DEF n, b, i
<1>7. pos' \in 0 .. SeqLen /\ pos' <= promptEnd /\ start <= pos'
    BY <1>2, <1>4
<1>8. token' \in Token
    <2>1. CASE i + 1 < Len(tokens)
        <3>1. i + 2 \in 1 .. Len(tokens)
            BY <1>2, <1>5, <2>1
        <3>. QED
            BY <1>2, <1>4, <2>1, <3>1
    <2>2. CASE ~ (i + 1 < Len(tokens))
        BY <1>4, <2>2 DEF Token
    <2>. QED
        BY <2>1, <2>2
<1>9. kv' \in [0 .. SeqLen - 1 -> Token \cup {NoToken}]
    BY <1>2, <1>4, ForwardWrites DEF IInv
<1>10. TypeOK'
    BY <1>4, <1>7, <1>8, <1>9 DEF IInv, TypeOK, request, prompt
<1>11. Written(kv, pos) => Written(kv', pos')
    <2> SUFFICES ASSUME Written(kv, pos) PROVE Written(kv', pos')
        OBVIOUS
    <2>1. pos + Len(b) <= SeqLen
        BY <1>2
    <2>2. TypeOK /\ Forward(pos, b) /\ pos \in Nat /\ b \in Seq(Token)
        BY <1>2, <1>4 DEF IInv
    <2>3. Written(kv', pos + Len(b))
        BY <2>1, <2>2, ForwardWrites
    <2>. QED
        BY <1>2, <1>4, <2>3 DEF Written
<1>12. Remembered => Remembered'
    <2> SUFFICES ASSUME Remembered, cache # <<>>
                 PROVE  Written(kv', Last(cache).end) \/ Last(cache).end = promptEnd
        BY <1>1, <1>4 DEF Remembered, request, prompt, Written
    <2>1. Last(cache).end \in 0 .. SeqLen
        BY LastEnds DEF IInv, Lists
    <2>2. \A m \in 0 .. SeqLen : Written(kv, m) => Written(kv', m)
        BY <1>2, <1>4, ForwardWrites DEF IInv
    <2>. QED
        BY <2>1, <2>2 DEF Remembered, Written
<1>13. Lists' /\ Progress'
    BY <1>1, <1>2, <1>4, <1>7 DEF IInv, Lists, Progress, request, prompt
<1>14. aborted' = aborted
    BY <1>4 DEF request
<1>. QED
    BY <1>1, <1>10, <1>11, <1>12, <1>13, <1>14 DEF IInv, Intact

\* When the prompt has been evaluated all that is remembered has been written.
LEMMA EvalChatDoneInv ==
    ASSUME IInv, EvalChatDone
    PROVE  IInv'
<1>1. /\ pc = "chatEval" /\ pc' = "chatPredict" /\ promptEnd - pos <= 0
      /\ UNCHANGED <<kv, cache, pos, token, outcome, requests, request>>
    BY DEF EvalChatDone, Remaining
<1>2. pos = promptEnd
    BY <1>1 DEF IInv, Progress, TypeOK
<1>3. TypeOK' /\ Lists' /\ Progress'
    BY <1>1, <1>2 DEF IInv, TypeOK, Lists, Progress, request, prompt
<1>4. Intact => Intact'
    BY <1>1, <1>2 DEF Intact, Remembered, Written, request, prompt
<1>. QED
    BY <1>1, <1>3, <1>4 DEF IInv, request

\* The token predicted first is fed at the end of the prompt.
LEMMA PredictChatInv ==
    ASSUME IInv, PredictChat
    PROVE  IInv'
<1> USE Constants
<1>1. /\ pc = "chatPredict" /\ pc' = "idle" /\ outcome' = "raised" /\ pos' = promptEnd
      /\ token' = Sampled /\ Forward(promptEnd, <<token>>)
      /\ UNCHANGED <<cache, requests, request>>
    BY DEF PredictChat, Finish
<1>2. promptEnd \in Nat /\ <<token>> \in Seq(Token)
    BY DEF IInv, TypeOK
<1>3. kv' \in [0 .. SeqLen - 1 -> Token \cup {NoToken}]
    BY <1>1, <1>2, ForwardWrites DEF IInv
<1>4. TypeOK' /\ Lists' /\ Progress'
    <2>1. Sampled \in Token
        BY DEF Token
    <2>. QED
        BY <1>1, <1>3, <2>1 DEF IInv, TypeOK, Lists, Progress, request, prompt
<1>5. Remembered => Remembered'
    BY <1>1, <1>2, RememberedStays DEF IInv
<1>. QED
    BY <1>1, <1>4, <1>5 DEF IInv, Intact, request

\* Where nothing can be predicted the context is full: the cache is cleared.
LEMMA AnswerChatInv ==
    ASSUME IInv, AnswerChat
    PROVE  IInv'
<1> USE Constants
<1>1. /\ pc = "chatPredict" /\ pc' = "idle" /\ outcome' = "answered" /\ promptEnd >= SeqLen
      /\ UNCHANGED <<kv, pos, token, requests, request>>
    BY DEF AnswerChat, Finish
<1>2. pos >= SeqLen
    BY <1>1 DEF IInv, Progress
<1>3. cache' = <<>>
    BY <1>2 DEF AnswerChat
<1>4. Lists'
    BY <1>1, <1>3 DEF IInv, Lists, request, prompt
<1>5. TypeOK'
    BY <1>1, <1>3 DEF IInv, TypeOK, request, prompt
<1>6. Progress' /\ Remembered'
    BY <1>1, <1>3 DEF Progress, Remembered
<1>. QED
    BY <1>1, <1>4, <1>5, <1>6 DEF IInv, Intact

\* A request that ends with a forward that raised: what NaiveCache remembers is
\* below that, or is not relied on any more.
LEMMA AbortInv ==
    ASSUME IInv, NEW p \in 0 .. SeqLen, NEW b \in Seq(Token), Abort(p, b),
           pc = "chatEval" => p < promptEnd,
           pc' = "idle", outcome' = "raised", completed' \in BOOLEAN,
           requests' \in 0 .. MaxRequests, UNCHANGED <<prompt, cache, pos, token>>
    PROVE  IInv'
<1> USE Constants
<1>1. /\ kv' \in [0 .. SeqLen - 1 -> Token \cup {NoToken}]
      /\ aborted' \in BOOLEAN
      /\ \A n \in 0 .. p : Written(kv, n) => Written(kv', n)
      /\ ~ aborted' => ~ aborted /\ (cache # <<>> => Last(cache).end \in 0 .. p)
    BY AbortSpoils DEF IInv
<1>2. TypeOK' /\ Lists' /\ Progress'
    BY <1>1 DEF IInv, TypeOK, Lists, Progress, prompt
<1>3. ~ aborted' => Remembered'
    <2> SUFFICES ASSUME ~ aborted', cache # <<>> PROVE Written(kv', Last(cache).end)
        BY DEF Remembered, Written
    <2>1. Remembered /\ Last(cache).end \in 0 .. p
        BY <1>1 DEF IInv, Intact
    <2>2. promptEnd \in Nat
        BY DEF IInv, TypeOK
    <2>3. Written(kv, Last(cache).end)
        BY <2>1, <2>2 DEF Remembered
    <2>. QED
        BY <1>1, <2>1, <2>3
<1>. QED
    BY <1>2, <1>3 DEF IInv, Intact

\* The tokens of a completion's prompt.
LEMMA PromptType ==
    ASSUME NEW n \in PromptLens
    PROVE  /\ EncodePrompt(n) \in Seq(Token)
           /\ Len(EncodePrompt(n)) \in Nat /\ Len(EncodePrompt(n)) <= SeqLen
<1> USE Constants
<1> DEFINE h == StartTokens(TRUE)
<1> DEFINE text == [i \in 1 .. n |-> Text]
<1>1. n \in 0 .. SeqLen - 1
    BY ApiAssumption
<1>2. h \in Seq(Token) /\ Len(h) \in 0 .. 1
    <2>1. h = <<Bos>> \/ h = <<>>
        BY DEF StartTokens
    <2>2. Bos \in Token
        BY DEF Token
    <2> HIDE DEF h
    <2>3. CASE h = <<Bos>>
        BY <2>2, <2>3
    <2>4. CASE h = <<>>
        BY <2>4
    <2>. QED
        BY <2>1, <2>3, <2>4
<1>3. text \in Seq(Token) /\ Len(text) = n
    BY <1>1 DEF Token
<1>4. EncodePrompt(n) = h \o text
    BY DEF EncodePrompt
<1> HIDE DEF h, text
<1>5. h \o text \in Seq(Token) /\ Len(h \o text) = Len(h) + n
    BY <1>2, <1>3, ConcatProperties
<1>. QED
    BY <1>1, <1>2, <1>4, <1>5

\* A completion starts at position 0, below which nothing has to be written.
LEMMA BeginCompletionInv ==
    ASSUME IInv, NEW n \in PromptLens, BeginCompletion(n)
    PROVE  IInv'
<1> USE Constants
<1> DEFINE t == EncodePrompt(n)
<1>1. t \in Seq(Token) /\ Len(t) \in Nat /\ Len(t) <= SeqLen
    BY PromptType
<1> HIDE DEF t
<1>2. /\ pc = "idle" /\ pc' = "complete" /\ outcome' = "none" /\ requests < MaxRequests
      /\ requests' = requests + 1 /\ tokens' = t /\ t # <<>>
      /\ start' = 0 /\ pos' = 0 /\ promptEnd' = Len(t) - 1 /\ reused' = <<>>
      /\ completed' = TRUE /\ UNCHANGED <<addBos, kv, cache, token, aborted>>
    BY DEF BeginCompletion, t
<1>3. Len(t) >= 1
    BY <1>1, <1>2
<1>4. Lists' /\ Progress'
    BY <1>1, <1>2, <1>3 DEF IInv, Lists, Progress
<1>5. TypeOK'
    <2>1. \A i \in 1 .. Len(tokens') : tokens'[i] \in Token
        BY <1>1, <1>2
    <2>2. requests' \in 0 .. MaxRequests
        BY <1>2, ApiAssumption DEF IInv, TypeOK
    <2>3. reused' \in Seq(Message)
        BY <1>2
    <2>4. start' \in 0 .. SeqLen /\ pos' \in 0 .. SeqLen /\ promptEnd' \in 0 .. SeqLen
        BY <1>1, <1>2, <1>3
    <2>5. completed' \in BOOLEAN /\ pc' = "complete" /\ outcome' = "none"
        BY <1>2
    <2>. QED
        BY <1>2, <2>1, <2>2, <2>3, <2>4, <2>5 DEF IInv, TypeOK
<1>6. Written(kv', pos') /\ (Remembered => Remembered')
    BY <1>2 DEF Remembered, Written
<1>. QED
    BY <1>2, <1>4, <1>5, <1>6 DEF IInv, Intact

\* A completion without a token: only the last position may be spoilt.
LEMMA CompleteNothingInv ==
    ASSUME IInv, NEW n \in PromptLens, CompleteNothing(n)
    PROVE  IInv'
<1> USE Constants
<1>1. /\ pc = "idle" /\ pc' = "idle" /\ outcome' = "raised" /\ requests < MaxRequests
      /\ requests' = requests + 1 /\ completed' = TRUE /\ Abort(SeqLen - 1, <<Zero>>)
      /\ UNCHANGED <<prompt, cache, pos, token>>
    BY DEF CompleteNothing, Finish
<1>2. SeqLen - 1 \in 0 .. SeqLen /\ <<Zero>> \in Seq(Token)
    BY DEF Token
<1>3. requests' \in 0 .. MaxRequests
    BY <1>1, ApiAssumption DEF IInv, TypeOK
<1>. QED
    BY <1>1, <1>2, <1>3, AbortInv

\* One token of the prompt of a completion.
LEMMA EvalCompletionInv ==
    ASSUME IInv, EvalCompletion
    PROVE  IInv'
<1> USE Constants
<1> DEFINE b == <<tokens[pos + 1]>>
<1>1. /\ pc = "complete" /\ pos < promptEnd /\ pos' = pos + 1 /\ Forward(pos, b)
      /\ UNCHANGED <<pc, cache, token, outcome, requests, request>>
    BY DEF EvalCompletion
<1>2. /\ pos \in 0 .. SeqLen /\ promptEnd \in 0 .. SeqLen
      /\ tokens \in Seq(Token) /\ Len(tokens) \in Nat
    BY DEF IInv, TypeOK, Lists
<1>3. promptEnd + 1 = Len(tokens) /\ promptEnd < SeqLen
    BY <1>1 DEF IInv, Progress
<1>4. b \in Seq(Token) /\ Len(b) = 1
    <2>1. pos + 1 \in 1 .. Len(tokens)
        BY <1>1, <1>2, <1>3
    <2>2. tokens[pos + 1] \in Token
        BY <1>2, <2>1
    <2>. QED
        BY <2>2
<1> HIDE DEF b
<1>5. kv' \in [0 .. SeqLen - 1 -> Token \cup {NoToken}]
    BY <1>1, <1>2, <1>4, ForwardWrites DEF IInv
<1>6. pos' \in 0 .. SeqLen /\ pos' <= promptEnd
    BY <1>1, <1>2
<1>7. TypeOK' /\ Lists' /\ Progress'
    BY <1>1, <1>3, <1>5, <1>6 DEF IInv, TypeOK, Lists, Progress, request, prompt
<1>8. Remembered => Remembered'
    BY <1>1, <1>2, <1>4, RememberedStays DEF IInv
<1>9. Written(kv, pos) => Written(kv', pos')
    <2> SUFFICES ASSUME Written(kv, pos) PROVE Written(kv', pos')
        OBVIOUS
    <2>1. Written(kv', pos + Len(b))
        BY <1>1, <1>2, <1>3, <1>4, ForwardWrites DEF IInv
    <2>. QED
        BY <1>1, <1>2, <1>4, <2>1 DEF Written
<1>. QED
    BY <1>1, <1>7, <1>8, <1>9 DEF IInv, Intact, request

\* The last token of the prompt is the first that generation feeds.
LEMMA EvalCompletionDoneInv ==
    ASSUME IInv, EvalCompletionDone
    PROVE  IInv'
<1>1. /\ pc = "complete" /\ pc' = "generate" /\ pos = promptEnd /\ token' = tokens[pos + 1]
      /\ UNCHANGED <<kv, cache, pos, outcome, requests, request>>
    BY DEF EvalCompletionDone
<1>2. pos < SeqLen /\ token' \in Token
    <2>1. promptEnd + 1 = Len(tokens) /\ promptEnd < SeqLen
        BY <1>1 DEF IInv, Progress
    <2>2. pos \in Nat /\ tokens \in Seq(Token)
        BY DEF IInv, TypeOK, Lists
    <2>3. pos + 1 \in 1 .. Len(tokens)
        BY <1>1, <2>1, <2>2
    <2>. QED
        BY <1>1, <2>1, <2>2, <2>3
<1>3. TypeOK' /\ Lists' /\ Progress'
    BY <1>1, <1>2 DEF IInv, TypeOK, Lists, Progress, request, prompt
<1>4. Intact => Intact'
    BY <1>1 DEF Intact, Remembered, Written
<1>. QED
    BY <1>1, <1>3, <1>4 DEF IInv, request

\* A generated token is fed behind all that was fed before it.
LEMMA GenerateInv ==
    ASSUME IInv, Generate
    PROVE  IInv'
<1> USE Constants
<1> DEFINE b == <<token>>
<1>0. Forward(pos, b)
    BY DEF Generate
<1>1. /\ pc = "generate" /\ token' = Sampled
      /\ UNCHANGED <<cache, requests, request>>
      /\ \/ pos' = pos /\ pc' = "idle" /\ outcome' = "answered"
         \/ pos' = pos + 1 /\ pc' = "idle" /\ outcome' = "answered"
         \/ pos' = pos + 1 /\ pos + 1 < SeqLen /\ UNCHANGED <<pc, outcome>>
    BY DEF Generate, Finish
<1>2. pos \in 0 .. SeqLen /\ pos < SeqLen
    BY <1>1 DEF IInv, TypeOK, Progress
<1>3. b \in Seq(Token) /\ Len(b) = 1
    BY DEF IInv, TypeOK
<1> HIDE DEF b
<1>4. kv' \in [0 .. SeqLen - 1 -> Token \cup {NoToken}]
    BY <1>0, <1>2, <1>3, ForwardWrites DEF IInv
<1>5. /\ pos' \in 0 .. SeqLen /\ pc' \in {"idle", "generate"} /\ (pc' = "generate" => pos' < SeqLen)
      /\ outcome' \in {"none", "answered", "raised", "gone"}
    BY <1>1, <1>2 DEF IInv, TypeOK
<1>6. TypeOK' /\ Lists' /\ Progress'
    <2>1. Sampled \in Token
        BY DEF Token
    <2>. QED
        BY <1>1, <1>4, <1>5, <2>1 DEF IInv, TypeOK, Lists, Progress, request, prompt
<1>7. Remembered => Remembered'
    <2>1. pc # "chatEval" /\ UNCHANGED cache
        BY <1>1
    <2>. QED
        BY <1>0, <1>2, <1>3, <2>1, RememberedStays DEF IInv
<1>8. Written(kv, pos) /\ pc' # "idle" => Written(kv', pos')
    <2> SUFFICES ASSUME Written(kv, pos), pc' # "idle" PROVE Written(kv', pos')
        OBVIOUS
    <2>1. Written(kv', pos + Len(b))
        BY <1>0, <1>2, <1>3, ForwardWrites DEF IInv
    <2>2. pos' = pos + Len(b)
        BY <1>1, <1>3
    <2>. QED
        BY <2>1, <2>2 DEF Written
<1>. QED
    BY <1>1, <1>6, <1>7, <1>8 DEF IInv, Intact, request

\* A client that goes away does so while its prompt is not being evaluated.
LEMMA DisconnectInv ==
    ASSUME IInv, Disconnect
    PROVE  IInv'
<1>1. /\ pc \in {"chatPredict", "generate"} /\ pc' = "idle" /\ outcome' = "gone"
      /\ UNCHANGED <<kv, cache, pos, token, requests, request>>
    BY DEF Disconnect, Finish
<1>2. TypeOK' /\ Lists' /\ Progress'
    BY <1>1 DEF IInv, TypeOK, Lists, Progress, request, prompt
<1>3. Intact => Intact'
    BY <1>1 DEF Intact, Remembered, Written, request, prompt
<1>. QED
    BY <1>1, <1>2, <1>3 DEF IInv, request

\* A forward that raises, in any phase of a request.
LEMMA RaiseInv ==
    ASSUME IInv, Raise
    PROVE  IInv'
<1> USE Constants
<1>1. /\ pc' = "idle" /\ outcome' = "raised" /\ completed' = completed /\ requests' = requests
      /\ UNCHANGED <<prompt, cache, pos, token>>
    BY DEF Raise, Finish
<1>2. /\ pos \in 0 .. SeqLen /\ promptEnd \in 0 .. SeqLen
      /\ tokens \in Seq(Token) /\ Len(tokens) \in Nat /\ token \in Token
      /\ completed \in BOOLEAN /\ requests \in 0 .. MaxRequests
    BY DEF IInv, TypeOK, Lists
<1>3. CASE pc = "chatEval" /\ Remaining > 0 /\ Abort(pos, Batch)
    <2>1. Batch \in Seq(Token)
        BY <1>3, BatchType
    <2>2. pos < promptEnd
        BY <1>2, <1>3 DEF Remaining
    <2>. QED
        BY <1>1, <1>2, <1>3, <2>1, <2>2, AbortInv
<1>4. CASE pc = "chatPredict" /\ Abort(promptEnd, <<token>>)
    <2>1. <<token>> \in Seq(Token)
        BY <1>2
    <2>. QED
        BY <1>1, <1>2, <1>4, <2>1, AbortInv
<1>5. CASE pc = "complete" /\ pos < promptEnd /\ Abort(pos, <<tokens[pos + 1]>>)
    <2>1. promptEnd + 1 = Len(tokens)
        BY <1>5 DEF IInv, Progress
    <2>2. pos + 1 \in 1 .. Len(tokens)
        BY <1>2, <1>5, <2>1
    <2>3. <<tokens[pos + 1]>> \in Seq(Token)
        BY <1>2, <2>2
    <2>. QED
        BY <1>1, <1>2, <1>5, <2>3, AbortInv
<1>6. CASE pc = "generate" /\ Abort(pos, <<token>>)
    <2>1. <<token>> \in Seq(Token)
        BY <1>2
    <2>. QED
        BY <1>1, <1>2, <1>6, <2>1, AbortInv
<1>. QED
    BY <1>3, <1>4, <1>5, <1>6 DEF Raise

\* A step of the invariant.
LEMMA NextIInv == IInv /\ [Next]_vars => IInv'
<1> SUFFICES ASSUME IInv, [Next]_vars PROVE IInv'
    OBVIOUS
<1>1. ASSUME NEW messages \in Chats, BeginChat(messages) PROVE IInv'
    BY <1>1, BeginChatInv
<1>2. ASSUME NEW n \in PromptLens, BeginCompletion(n) \/ CompleteNothing(n) PROVE IInv'
    BY <1>2, BeginCompletionInv, CompleteNothingInv
<1>3. CASE UNCHANGED vars
    BY <1>3 DEF vars, IInv, TypeOK, Lists, Progress, Intact, Remembered, Written
<1>. QED
    BY <1>1, <1>2, <1>3, EvalChatInv, EvalChatDoneInv, PredictChatInv, AnswerChatInv,
       EvalCompletionInv, EvalCompletionDoneInv, GenerateInv, DisconnectInv, RaiseInv DEF Next

-----------------------------------------------------------------------------
\* The inductive invariant of the API server.
LEMMA Invariance == Spec => []IInv
    BY InitIInv, NextIInv, PTL DEF Spec

\* Every position lies within the context, and every prompt and every cached
\* message is one a client has sent.
THEOREM TypeCorrect == Spec => []TypeOK
<1>1. IInv => TypeOK
    BY DEF IInv
<1>. QED
    BY <1>1, Invariance, PTL

\* Both endpoints: a forward finds every position below its own written, also
\* the positions that a cached prefix makes resolve_delta_prompt skip, and after
\* requests that ended with an exception or whose client went away, unless a
\* forward has raised before the end remembered and no chat has started at
\* position 0 since.
THEOREM WrittenPrefix == Spec => []NoUnwrittenPrefix
<1>1. IInv => NoUnwrittenPrefix
    BY DEF IInv, Intact, NoUnwrittenPrefix, Written
<1>. QED
    BY <1>1, Invariance, PTL

-----------------------------------------------------------------------------
\* The chats of one conversation.  Every message stands at one place in it (so
\* that of two chats one begins with the other), and a chat that goes on has
\* found room in the context.
OneConversation ==
    /\ \A a, b \in Chats : \A i \in 1 .. Len(a), j \in 1 .. Len(b) : a[i] = b[j] <=> i = j
    /\ \A a, b \in Chats : Len(a) < Len(b) => Len(a) < SeqLen
    /\ \A c \in Chats : c # <<>>
    /\ Bos \notin Message

\* The number of tokens before the messages of a chat from position 0 on, the
\* prompt of chat c up to its messages, and the end it is remembered with.
Offset == IF addBos THEN 1 ELSE 0
Turns(c) == StartTokens(TRUE) \o c
EndOf(c) == PromptEnd(0, Offset + Len(c) + 1)

\* The KV cache m has the first k tokens of that prompt.
Fed(m, c, k) == \A p \in 0 .. k - 1 : m[p] = Turns(c)[p + 1]

\* NaiveCache has the messages of one request, chat c, and the KV cache agrees.
OneChat(c) ==
    /\ Len(cache) = Len(c)
    /\ \A i \in 1 .. Len(c) : cache[i].msg = c[i]
    /\ cache[Len(c)].end = EndOf(c)
    /\ pc # "idle" => promptEnd = EndOf(c)
    /\ pc = "chatEval" => start = 0 /\ tokens = Encode(c, TRUE)
    /\ Fed(kv, c, IF pc = "chatEval" THEN pos ELSE EndOf(c))

\* It has those of two or more, and no list of a conversation begins with them.
Repeats(q) == \E i, j \in 1 .. Len(q) : i < j /\ q[i].msg = q[j].msg

\* The chat that a hit has found.
Hit(c) == reused = c /\ start = Offset + Len(c) /\ Fed(kv, c, start)

\* What NaiveCache has, whatever became of the KV cache.
Pushes ==
    \/ cache = <<>>
    \/ Repeats(cache)
    \/ \E c \in Chats : Len(cache) = Len(c) /\ \A i \in 1 .. Len(c) : cache[i].msg = c[i]

\* What it has where the KV cache agrees.
ChatInv ==
    /\ pc \in {"idle", "chatEval", "chatPredict"}
    /\ cache = <<>> \/ Repeats(cache) \/ \E c \in Chats : OneChat(c)
    /\ pc = "chatEval" /\ start > 0 => \E c \in Chats : Hit(c)

ConversationInv == Pushes /\ (~ completed /\ ~ aborted => ChatInv)

\* The prompt of a chat from position 0 on, and where it ends.
LEMMA PromptOf ==
    ASSUME NEW c \in Chats
    PROVE  /\ c \in Seq(Message) /\ Len(c) \in Nat /\ Offset \in 0 .. 1
           /\ \A p \in 0 .. Offset + Len(c) - 1 :
                Turns(c)[p + 1] = IF p < Offset THEN Bos ELSE c[p - Offset + 1]
           /\ Len(Encode(c, TRUE)) = Offset + Len(c) + 1
           /\ \A i \in 1 .. Offset + Len(c) : Encode(c, TRUE)[i] = Turns(c)[i]
           /\ EndOf(c) \in 0 .. SeqLen /\ EndOf(c) <= Offset + Len(c)
           /\ Len(c) < SeqLen => EndOf(c) = Offset + Len(c)
<1> USE Constants
<1>1. c \in Seq(Message) /\ c \in Seq(Token) /\ Len(c) \in Nat
    BY TokenAssumption DEF Token
<1> DEFINE h == StartTokens(TRUE)
<1> DEFINE b == Turns(c)
<1> DEFINE last == <<Assistant>>
<1>2. /\ h \in Seq(Token) /\ Len(h) = Offset /\ Offset \in 0 .. 1
      /\ \A i \in 1 .. Offset : h[i] = Bos
    <2>1. CASE addBos
        <3>1. h = <<Bos>> /\ Offset = 1 /\ Bos \in Token
            BY <2>1 DEF StartTokens, Offset, Token
        <3> HIDE DEF h
        <3>. QED
            BY <3>1
    <2>2. CASE ~ addBos
        <3>1. h = <<>> /\ Offset = 0
            BY <2>2 DEF StartTokens, Offset
        <3> HIDE DEF h
        <3>. QED
            BY <3>1
    <2>. QED
        BY <2>1, <2>2
<1>3. last \in Seq(Token) /\ Len(last) = 1
    BY DEF Token
<1>4. b = h \o c /\ Encode(c, TRUE) = b \o last
    BY DEF Turns, Encode
<1> HIDE DEF h, b, last
<1>5. /\ b \in Seq(Token) /\ Len(b) = Offset + Len(c)
      /\ \A i \in 1 .. Offset + Len(c) : b[i] = IF i <= Offset THEN h[i] ELSE c[i - Offset]
    BY <1>1, <1>2, <1>4, ConcatProperties
<1>6. ASSUME NEW p \in 0 .. Offset + Len(c) - 1
      PROVE  b[p + 1] = IF p < Offset THEN Bos ELSE c[p - Offset + 1]
    <2>1. /\ p + 1 \in 1 .. Offset + Len(c) /\ (p + 1 <= Offset <=> p < Offset)
          /\ p < Offset => p + 1 \in 1 .. Offset
          /\ (p + 1) - Offset = p - Offset + 1
        BY <1>1, <1>2
    <2>2. b[p + 1] = IF p + 1 <= Offset THEN h[p + 1] ELSE c[(p + 1) - Offset]
        BY <1>5, <2>1
    <2>. QED
        BY <1>2, <2>1, <2>2
<1>7. /\ Len(Encode(c, TRUE)) = Offset + Len(c) + 1
      /\ \A i \in 1 .. Offset + Len(c) : Encode(c, TRUE)[i] = b[i]
    <2>1. b \in Seq(Token) /\ Len(b) \in Nat /\ last \in Seq(Token) /\ Len(last) = 1
        BY <1>3, <1>5
    <2>2. /\ Len(b \o last) = Len(b) + Len(last)
          /\ \A i \in 1 .. Len(b) + Len(last) :
                (b \o last)[i] = IF i <= Len(b) THEN b[i] ELSE last[i - Len(b)]
        BY <2>1, ConcatProperties
    <2>3. \A i \in 1 .. Len(b) : i \in 1 .. Len(b) + Len(last) /\ i <= Len(b)
        BY <2>1
    <2>4. \A i \in 1 .. Len(b) : (b \o last)[i] = b[i]
        BY <2>2, <2>3
    <2>5. Len(b) = Offset + Len(c)
        BY <1>5
    <2>6. Len(b \o last) = Offset + Len(c) + 1
        BY <1>1, <1>2, <2>1, <2>2, <2>5
    <2>. QED
        BY <1>4, <2>4, <2>5, <2>6
<1>8. EndOf(c) = IF Offset + Len(c) > SeqLen THEN SeqLen ELSE Offset + Len(c)
    BY <1>1, <1>2 DEF EndOf, PromptEnd
<1>9. /\ EndOf(c) \in 0 .. SeqLen /\ EndOf(c) <= Offset + Len(c)
      /\ Len(c) < SeqLen => EndOf(c) = Offset + Len(c)
    BY <1>1, <1>2, <1>8
<1>. QED
    BY <1>1, <1>2, <1>6, <1>7, <1>9 DEF b

\* The tokenizer stays the same.
LEMMA SameTokenizer ==
    ASSUME addBos' = addBos, NEW c
    PROVE  /\ Turns(c)' = Turns(c) /\ EndOf(c)' = EndOf(c) /\ Offset' = Offset
           /\ Encode(c, TRUE)' = Encode(c, TRUE)
    BY DEF Turns, EndOf, Offset, Encode, StartTokens

\* What is pushed stands behind what there was.
LEMMA Pushed ==
    ASSUME NEW q \in Seq(Entry), NEW messages \in Seq(Message), NEW end \in 0 .. SeqLen
    PROVE  /\ Push(q, messages, end) \in Seq(Entry)
           /\ Len(Push(q, messages, end)) = Len(q) + Len(messages)
           /\ \A i \in 1 .. Len(q) : Push(q, messages, end)[i] = q[i]
           /\ \A i \in 1 .. Len(messages) :
                Push(q, messages, end)[Len(q) + i] = [end |-> end, msg |-> messages[i]]
<1> DEFINE new == [i \in 1 .. Len(messages) |-> [end |-> end, msg |-> messages[i]]]
<1>1. new \in Seq(Entry) /\ Len(new) = Len(messages) /\ Len(messages) \in Nat /\ Len(q) \in Nat
    <2>1. \A i \in 1 .. Len(messages) : messages[i] \in Message
        OBVIOUS
    <2>2. \A i \in 1 .. Len(messages) : [end |-> end, msg |-> messages[i]] \in Entry
        BY <2>1 DEF Entry
    <2>. QED
        BY <2>2
<1>2. \A i \in 1 .. Len(messages) : new[i] = [end |-> end, msg |-> messages[i]]
    OBVIOUS
<1>3. Push(q, messages, end) = q \o new
    BY DEF Push
<1> HIDE DEF new
<1>4. /\ q \o new \in Seq(Entry)
      /\ Len(q \o new) = Len(q) + Len(new)
      /\ \A i \in 1 .. Len(q) + Len(new) :
            (q \o new)[i] = IF i <= Len(q) THEN q[i] ELSE new[i - Len(q)]
    BY <1>1, ConcatProperties
<1>5. ASSUME NEW i \in 1 .. Len(messages)
      PROVE  (q \o new)[Len(q) + i] = [end |-> end, msg |-> messages[i]]
    <2>1. /\ Len(q) + i \in 1 .. Len(q) + Len(new) /\ ~ (Len(q) + i <= Len(q))
          /\ (Len(q) + i) - Len(q) = i
        BY <1>1
    <2>. QED
        BY <1>2, <1>4, <2>1
<1>6. \A i \in 1 .. Len(q) : (q \o new)[i] = q[i]
    BY <1>1, <1>4
<1>. QED
    BY <1>1, <1>3, <1>4, <1>5, <1>6

\* With the messages of two chats of a conversation in NaiveCache none is found.
LEMMA NoHit ==
    ASSUME OneConversation, IInv, Repeats(cache), NEW messages \in Chats
    PROVE  ~ IsCachedPrefix(messages)
<1> SUFFICES ASSUME IsCachedPrefix(messages) PROVE FALSE
    OBVIOUS
<1>1. cache \in Seq(Entry) /\ Len(cache) \in Nat /\ messages \in Seq(Message) /\ Len(messages) \in Nat
    BY TokenAssumption DEF IInv, Lists
<1>2. PICK i \in 1 .. Len(cache), j \in 1 .. Len(cache) : i < j /\ cache[i].msg = cache[j].msg
    BY DEF Repeats
<1>3. /\ Len(messages) > Len(cache)
      /\ cache[i].msg = messages[i] /\ cache[j].msg = messages[j]
    BY DEF IsCachedPrefix
<1>4. i \in 1 .. Len(messages) /\ j \in 1 .. Len(messages) /\ i # j
    BY <1>1, <1>2, <1>3
<1>5. messages[i] = messages[j]
    BY <1>2, <1>3
<1>. QED
    BY <1>4, <1>5 DEF OneConversation

\* A chat is pushed on an empty cache, or onto another one of its conversation;
\* and what is found of it has been fed from position 0 on.
LEMMA BeginChatChat ==
    ASSUME OneConversation, IInv, ConversationInv, NEW messages \in Chats, BeginChat(messages)
    PROVE  ConversationInv'
<1> USE Constants
<1> DEFINE s == StartPos(messages)
<1> DEFINE k == Cached(messages)
<1> DEFINE delta == SubSeq(messages, k + 1, Len(messages))
<1> DEFINE t == Encode(delta, s = 0)
<1> DEFINE end == PromptEnd(s, Len(t))
<1>1. messages \in Seq(Message) /\ Len(messages) \in Nat /\ Len(messages) >= 1
    BY TokenAssumption DEF OneConversation
<1>2. cache \in Seq(Entry) /\ Len(cache) \in Nat /\ pc = "idle"
    BY DEF IInv, Lists, BeginChat
<1>3. /\ start' = s /\ tokens' = t /\ promptEnd' = end /\ cache' = Push(cache, messages, end)
      /\ pos' = s /\ pc' = "chatEval" /\ kv' = kv /\ reused' = SubSeq(messages, 1, k)
      /\ addBos' = addBos
      /\ s # 0 => completed' = completed /\ aborted' = aborted
    <2>1. completed \in BOOLEAN /\ aborted \in BOOLEAN
        BY DEF IInv, TypeOK
    <2>2. completed' = (completed /\ ~ (s = 0 /\ messages # <<>>))
          /\ aborted' = (aborted /\ ~ (s = 0 /\ messages # <<>>))
        BY DEF BeginChat
    <2>. QED
        BY <2>1, <2>2 DEF BeginChat
<1>4. IInv'
    BY BeginChatInv
<1>5. end \in 0 .. SeqLen
    BY <1>3, <1>4 DEF IInv, TypeOK
<1>6. ~ IsCachedPrefix(messages) =>
        s = 0 /\ t = Encode(messages, TRUE) /\ end = EndOf(messages)
    <2> SUFFICES ASSUME ~ IsCachedPrefix(messages)
                 PROVE  s = 0 /\ t = Encode(messages, TRUE) /\ end = EndOf(messages)
        OBVIOUS
    <2>1. s = 0 /\ k = 0
        BY DEF StartPos, Cached
    <2>2. delta = messages
        BY <1>1, <2>1
    <2>3. t = Encode(messages, TRUE)
        BY <2>1, <2>2
    <2>4. end = PromptEnd(0, Offset + Len(messages) + 1)
        BY <2>1, <2>3, PromptOf
    <2>. QED
        BY <2>1, <2>3, <2>4 DEF EndOf
<1> HIDE DEF s, k, t, end, delta
<1> DEFINE q == Push(cache, messages, end)
<1>7. /\ Len(q) = Len(cache) + Len(messages)
      /\ \A i \in 1 .. Len(cache) : q[i] = cache[i]
      /\ \A i \in 1 .. Len(messages) : q[Len(cache) + i] = [end |-> end, msg |-> messages[i]]
    BY <1>1, <1>2, <1>5, Pushed
<1> HIDE DEF q
<1>8. cache' = q
    BY <1>3 DEF q
<1>9. CASE cache = <<>>
    <2>1. ~ IsCachedPrefix(messages)
        BY <1>9 DEF IsCachedPrefix
    <2>2. Len(cache) = 0
        BY <1>9
    <2>3. /\ Len(q) = Len(messages)
          /\ \A i \in 1 .. Len(messages) : q[i] = [end |-> end, msg |-> messages[i]]
        BY <1>1, <1>7, <2>2
    <2>4. Len(messages) \in 1 .. Len(messages)
        BY <1>1
    <2>5. start' = 0 /\ tokens' = Encode(messages, TRUE) /\ promptEnd' = EndOf(messages)
        BY <1>3, <1>6, <2>1
    <2>6. /\ Len(cache') = Len(messages)
          /\ \A i \in 1 .. Len(messages) : cache'[i].msg = messages[i]
          /\ cache'[Len(messages)].end = EndOf(messages)
        <3>1. ASSUME NEW i \in 1 .. Len(messages)
              PROVE  q[i].msg = messages[i] /\ q[i].end = end
            <4>1. q[i] = [end |-> end, msg |-> messages[i]]
                BY <2>3
            <4>. QED
                BY <4>1
        <3>2. end = EndOf(messages)
            BY <1>6, <2>1
        <3>. QED
            BY <1>8, <2>3, <2>4, <3>1, <3>2
    <2>7. OneChat(messages)'
        <3>1. Fed(kv, messages, pos)'
            <4>1. pos' = 0
                BY <1>3, <1>6, <2>1
            <4>. QED
                BY <4>1 DEF Fed
        <3>. QED
            BY <1>3, <2>5, <2>6, <3>1, SameTokenizer DEF OneChat
    <2>8. Pushes'
        BY <2>6 DEF Pushes
    <2>. QED
        BY <1>3, <2>5, <2>7, <2>8 DEF ConversationInv, ChatInv
<1>10. CASE Repeats(cache)
    <2>1. ~ IsCachedPrefix(messages)
        BY <1>10, NoHit
    <2>2. Repeats(q)
        <3>1. PICK i \in 1 .. Len(cache), j \in 1 .. Len(cache) : i < j /\ cache[i].msg = cache[j].msg
            BY <1>10 DEF Repeats
        <3>2. i \in 1 .. Len(q) /\ j \in 1 .. Len(q) /\ q[i] = cache[i] /\ q[j] = cache[j]
            BY <1>1, <1>2, <1>7
        <3>. QED
            BY <3>1, <3>2 DEF Repeats
    <2>3. Repeats(cache)' /\ start' = 0
        BY <1>3, <1>6, <1>8, <2>1, <2>2 DEF Repeats
    <2>. QED
        BY <1>3, <2>3 DEF ConversationInv, ChatInv, Pushes
<1>11. ASSUME NEW c \in Chats, Len(cache) = Len(c), \A i \in 1 .. Len(c) : cache[i].msg = c[i]
       PROVE  ConversationInv'
    <2>2. Len(cache) = Len(c) /\ \A i \in 1 .. Len(c) : cache[i].msg = c[i]
        BY <1>11
    <2>3. c \in Seq(Message) /\ Len(c) \in Nat /\ Len(c) >= 1
        BY TokenAssumption DEF OneConversation
    <2>4. Repeats(q)
        <3>1. 1 \in 1 .. Len(c) /\ 1 \in 1 .. Len(messages) /\ c[1] = messages[1]
            BY <1>1, <2>3 DEF OneConversation
        <3>2. q[1] = cache[1] /\ q[Len(cache) + 1] = [end |-> end, msg |-> messages[1]]
            BY <1>7, <2>2, <3>1
        <3>3. 1 \in 1 .. Len(q) /\ Len(cache) + 1 \in 1 .. Len(q) /\ 1 < Len(cache) + 1
            BY <1>1, <1>7, <2>2, <2>3
        <3>4. q[1].msg = q[Len(cache) + 1].msg
            BY <2>2, <3>1, <3>2
        <3>. QED
            BY <3>3, <3>4 DEF Repeats
    <2>5. Repeats(cache)'
        BY <1>8, <2>4 DEF Repeats
    <2>6. CASE start' = 0
        BY <1>3, <2>5, <2>6 DEF ConversationInv, ChatInv, Pushes
    <2>7. ASSUME start' # 0, ~ completed', ~ aborted' PROVE \E d \in Chats : Hit(d)'
        <3>1. IsCachedPrefix(messages) /\ ~ Repeats(cache) /\ cache # <<>>
            <4>1. IsCachedPrefix(messages)
                BY <1>3, <1>6, <2>7
            <4>. QED
                BY <4>1, NoHit DEF IsCachedPrefix
        <3>2. ChatInv
            BY <1>3, <2>7 DEF ConversationInv
        <3>3. PICK d \in Chats : OneChat(d)
            BY <3>1, <3>2 DEF ChatInv
        <3>4. /\ Len(cache) = Len(d) /\ \A i \in 1 .. Len(d) : cache[i].msg = d[i]
              /\ cache[Len(d)].end = EndOf(d) /\ Fed(kv, d, EndOf(d))
            BY <1>2, <3>3 DEF OneChat
        <3>5. d \in Seq(Message) /\ Len(d) \in Nat
            BY TokenAssumption
        <3>6. Len(messages) > Len(d) /\ \A i \in 1 .. Len(d) : d[i] = messages[i]
            BY <3>1, <3>4 DEF IsCachedPrefix
        <3>7. s = EndOf(d) /\ k = Len(d)
            BY <3>1, <3>4 DEF s, k, StartPos, Cached, Last
        <3>8. EndOf(d) = Offset + Len(d)
            <4>1. Len(d) < SeqLen
                BY <3>6 DEF OneConversation
            <4>. QED
                BY <4>1, PromptOf
        <3>9. reused' = d
            <4>1. Len(d) <= Len(messages) /\ 1 \in Nat
                BY <1>1, <3>5, <3>6
            <4>2. SubSeq(messages, 1, Len(d)) = [i \in 1 .. Len(d) |-> messages[i]]
                BY <1>1, <3>5, <4>1
            <4>3. d = [i \in 1 .. Len(d) |-> d[i]]
                BY <3>5
            <4>. QED
                BY <1>3, <3>6, <3>7, <4>2, <4>3
        <3>10. Fed(kv, d, start)'
            <4>1. start' = EndOf(d) /\ kv' = kv /\ Turns(d)' = Turns(d)
                BY <1>3, <3>7, SameTokenizer
            <4>. QED
                BY <3>4, <4>1 DEF Fed
        <3>11. start' = (Offset + Len(d))'
            BY <1>3, <3>7, <3>8, SameTokenizer
        <3>. QED
            BY <3>9, <3>10, <3>11 DEF Hit
    <2>. QED
        BY <1>3, <2>5, <2>6, <2>7 DEF ConversationInv, ChatInv, Pushes
<1>. QED
    BY <1>9, <1>10, <1>11 DEF ConversationInv, Pushes

\* A batch goes behind what the prompt has in the KV cache, so that neither what
\* has been fed of it nor what was found changes.
LEMMA EvalChatChat ==
    ASSUME IInv, ChatInv, EvalChat
    PROVE  ChatInv'
<1> USE Constants
<1> DEFINE n == BatchSize
<1> DEFINE b == Batch
<1>1. pc = "chatEval" /\ Remaining > 0
    BY DEF EvalChat
<1>2. /\ pos \in 0 .. SeqLen /\ start \in 0 .. SeqLen /\ promptEnd \in 0 .. SeqLen
      /\ start <= pos
      /\ n \in Nat /\ n >= 1 /\ n <= promptEnd - pos
      /\ b \in Seq(Token) /\ Len(b) = n
      /\ \A j \in 1 .. n : b[j] = tokens[pos - start + j]
    BY <1>1, BatchType
<1>4. /\ Forward(pos, b) /\ pos' = pos + n
      /\ UNCHANGED <<pc, cache, addBos, start, tokens, promptEnd, reused>>
    BY DEF EvalChat, request, prompt
<1> HIDE DEF n, b
<1>7. \A p \in 0 .. SeqLen - 1 : p < pos => kv'[p] = kv[p]
    BY <1>2, <1>4 DEF Forward
<1>8. \A p \in 0 .. pos + n - 1 : p >= pos => kv'[p] = tokens[p - start + 1]
    <2> SUFFICES ASSUME NEW p \in 0 .. pos + n - 1, p >= pos
                 PROVE  kv'[p] = tokens[p - start + 1]
        OBVIOUS
    <2>1. /\ p \in 0 .. SeqLen - 1 /\ p \in pos .. pos + Len(b) - 1
          /\ p - pos + 1 \in 1 .. n /\ pos - start + (p - pos + 1) = p - start + 1
        BY <1>2
    <2>2. kv'[p] = b[p - pos + 1]
        BY <2>1, <1>4 DEF Forward
    <2>3. b[p - pos + 1] = tokens[pos - start + (p - pos + 1)]
        BY <1>2, <2>1
    <2>. QED
        BY <2>1, <2>2, <2>3
<1>9. ASSUME NEW c \in Chats, OneChat(c) PROVE OneChat(c)'
    <2>1. /\ promptEnd = EndOf(c) /\ start = 0 /\ tokens = Encode(c, TRUE)
          /\ Fed(kv, c, pos)
        BY <1>1, <1>9 DEF OneChat
    <2>2. ASSUME NEW p \in 0 .. pos + n - 1 PROVE kv'[p] = Turns(c)[p + 1]
        <3>1. CASE p < pos
            <4>1. p \in 0 .. pos - 1 /\ p \in 0 .. SeqLen - 1
                BY <1>2, <3>1
            <4>. QED
                BY <1>7, <2>1, <3>1, <4>1 DEF Fed
        <3>2. CASE p >= pos
            <4>1. Len(c) \in Nat /\ EndOf(c) <= Offset + Len(c) /\ Offset \in 0 .. 1
                BY PromptOf
            <4>2. p - start + 1 = p + 1 /\ p + 1 \in 1 .. Offset + Len(c)
                BY <1>2, <2>1, <4>1
            <4>3. kv'[p] = tokens[p + 1]
                BY <1>8, <3>2, <4>2
            <4>4. Encode(c, TRUE)[p + 1] = Turns(c)[p + 1]
                BY <4>2, PromptOf
            <4>. QED
                BY <2>1, <4>3, <4>4
        <3>. QED
            <4>1. p < pos \/ p >= pos
                BY <1>2
            <4>. QED
                BY <3>1, <3>2, <4>1
    <2>3. Fed(kv, c, pos)'
        <3> SUFFICES ASSUME NEW p \in 0 .. pos' - 1 PROVE kv'[p] = Turns(c)'[p + 1]
            BY Zenon DEF Fed
        <3>1. p \in 0 .. pos + n - 1
            BY <1>2, <1>4
        <3>2. addBos' = addBos
            BY <1>4
        <3>3. Turns(c)' = Turns(c)
            BY <3>2, SameTokenizer
        <3>. QED
            BY <2>2, <3>1, <3>3
    <2>. QED
        BY <1>1, <1>4, <1>9, <2>1, <2>3, SameTokenizer DEF OneChat
<1>10. ASSUME NEW c \in Chats, Hit(c) PROVE Hit(c)'
    <2>1. \A p \in 0 .. start - 1 : p \in 0 .. SeqLen - 1 /\ p < pos
        BY <1>2
    <2>2. Fed(kv, c, start)'
        BY <1>4, <1>7, <1>10, <2>1, SameTokenizer DEF Hit, Fed
    <2>. QED
        BY <1>4, <1>10, <2>2, SameTokenizer DEF Hit
<1>. QED
    BY <1>4, <1>9, <1>10 DEF ChatInv, Repeats

\* A step that leaves the prompt cache and the positions below the end of the
\* prompt alone leaves the prompts in the KV cache.
LEMMA BelowPromptEnd ==
    ASSUME ChatInv, pc # "idle",
           promptEnd \in Nat, pc = "chatEval" => pos = promptEnd,
           \A p \in 0 .. promptEnd - 1 : kv'[p] = kv[p],
           UNCHANGED <<cache, promptEnd, addBos>>, pc' \in {"idle", "chatPredict"}
    PROVE  ChatInv'
<1>1. ASSUME NEW c \in Chats, OneChat(c) PROVE OneChat(c)'
    <2>1. promptEnd = EndOf(c) /\ Fed(kv, c, promptEnd)
        BY <1>1 DEF OneChat
    <2>2. Fed(kv', c, promptEnd)
        BY <2>1 DEF Fed
    <2>3. Fed(kv, c, EndOf(c))'
        BY <2>1, <2>2, SameTokenizer DEF Fed
    <2>. QED
        BY <1>1, <2>1, <2>3, SameTokenizer DEF OneChat
<1>. QED
    BY <1>1 DEF ChatInv, Repeats

\* The other steps of a chat write behind its prompt only, if at all.
LEMMA OtherChat ==
    ASSUME IInv, ChatInv, EvalChatDone \/ PredictChat \/ AnswerChat \/ Disconnect
    PROVE  ChatInv'
<1> USE Constants
<1>1. /\ pos \in 0 .. SeqLen /\ promptEnd \in 0 .. SeqLen
      /\ pc = "chatEval" => pos <= promptEnd
      /\ pc = "chatPredict" => pos = promptEnd
    BY DEF IInv, TypeOK, Progress
<1>2. pc' \in {"idle", "chatPredict"} /\ pc \in {"chatEval", "chatPredict"}
    BY DEF ChatInv, EvalChatDone, PredictChat, AnswerChat, Disconnect, Finish
<1>3. promptEnd' = promptEnd /\ addBos' = addBos
    BY DEF EvalChatDone, PredictChat, AnswerChat, Disconnect, request, prompt
<1>4. CASE AnswerChat
    <2>1. cache' = <<>>
        BY <1>1, <1>4 DEF AnswerChat
    <2>. QED
        BY <1>2, <2>1 DEF ChatInv
<1>5. CASE EvalChatDone \/ PredictChat \/ Disconnect
    <2>1. cache' = cache
        BY <1>5 DEF EvalChatDone, PredictChat, Disconnect
    <2>2. \A p \in 0 .. promptEnd - 1 : kv'[p] = kv[p]
        <3>1. CASE PredictChat
            BY <1>1, <3>1 DEF PredictChat, Forward
        <3>2. CASE EvalChatDone \/ Disconnect
            BY <3>2 DEF EvalChatDone, Disconnect
        <3>. QED
            BY <1>5, <3>1, <3>2
    <2>3. pc = "chatEval" => pos = promptEnd
        BY <1>1, <1>5 DEF EvalChatDone, PredictChat, Disconnect, Remaining
    <2>. QED
        BY <1>1, <1>2, <1>3, <2>1, <2>2, <2>3, BelowPromptEnd
<1>. QED
    BY <1>4, <1>5

\* A forward that raises does so behind the prompt that is remembered, or the
\* chats that follow do not rely on it.
LEMMA RaiseChat ==
    ASSUME OneConversation, IInv, ChatInv, Raise, ~ aborted'
    PROVE  ChatInv'
<1> USE Constants
<1>1. /\ pc' = "idle" /\ UNCHANGED <<prompt, cache, pos, token>>
      /\ pc \in {"chatEval", "chatPredict"}
    BY DEF Raise, Finish, ChatInv
<1>2. /\ pos \in 0 .. SeqLen /\ promptEnd \in 0 .. SeqLen /\ token \in Token
      /\ pc = "chatPredict" => pos = promptEnd
    BY DEF IInv, TypeOK, Progress
<1>3. CASE pc = "chatEval"
    <2>1. Abort(pos, Batch) /\ Remaining > 0
        BY <1>3 DEF Raise
    <2>2. Batch \in Seq(Token)
        BY <1>3, <2>1, BatchType
    <2>3. cache # <<>> => Last(cache).end \in 0 .. pos
        BY <1>2, <2>1, <2>2, AbortSpoils DEF IInv
    <2>4. ASSUME NEW c \in Chats, OneChat(c) PROVE FALSE
        <3>1. Len(c) \in Nat /\ Len(c) >= 1
            BY TokenAssumption DEF OneConversation
        <3>2. cache # <<>> /\ Last(cache).end = promptEnd
            BY <1>3, <2>4, <3>1 DEF OneChat, Last
        <3>. QED
            BY <1>2, <2>1, <2>3, <3>2 DEF Remaining
    <2>. QED
        BY <1>1, <2>4 DEF ChatInv, Repeats
<1>4. CASE pc = "chatPredict"
    <2>1. Abort(promptEnd, <<token>>)
        BY <1>4 DEF Raise
    <2>2. <<token>> \in Seq(Token)
        BY <1>2
    <2>3. \A p \in 0 .. SeqLen - 1 : p < promptEnd => kv'[p] = kv[p]
        BY <1>2, <2>1, <2>2, AbortSpoils DEF IInv
    <2>4. \A p \in 0 .. promptEnd - 1 : kv'[p] = kv[p]
        BY <1>2, <2>3
    <2>5. pc # "idle" /\ pc # "chatEval" /\ UNCHANGED <<cache, promptEnd, addBos>>
        BY <1>1, <1>4 DEF prompt
    <2>. QED
        BY <1>1, <1>2, <2>4, <2>5, BelowPromptEnd
<1>. QED
    BY <1>1, <1>3, <1>4

\* Only a chat changes what NaiveCache has: the other steps leave it or clear it.
LEMMA OtherPushes ==
    ASSUME IInv, Pushes, [Next]_vars, \A messages \in Chats : ~ BeginChat(messages)
    PROVE  Pushes'
<1>1. cache' = cache \/ cache' = <<>>
    <2>1. CASE AnswerChat
        BY <2>1 DEF IInv, Progress, AnswerChat
    <2>2. CASE ~ AnswerChat
        BY <2>2 DEF Next, vars, BeginCompletion, CompleteNothing, EvalChat, EvalChatDone,
              PredictChat, EvalCompletion, EvalCompletionDone, Generate, Disconnect, Raise
    <2>. QED
        BY <2>1, <2>2
<1>. QED
    BY <1>1 DEF Pushes, Repeats

\* The conditions of ChatInv are lost for good until a chat starts anew.
LEMMA ConditionsStay ==
    ASSUME IInv, [Next]_vars, \A messages \in Chats : ~ BeginChat(messages),
           ~ completed', ~ aborted'
    PROVE  ~ completed /\ ~ aborted
<1>1. /\ completed \in BOOLEAN /\ aborted \in BOOLEAN
      /\ completed' = completed \/ completed' = TRUE
      /\ aborted' = aborted \/ \E b : aborted' = (aborted \/ b)
    BY Zenon DEF IInv, TypeOK, Next, vars, BeginCompletion, CompleteNothing, EvalChat, EvalChatDone,
          PredictChat, AnswerChat, EvalCompletion, EvalCompletionDone, Generate, Disconnect, Raise,
          Abort, request
<1>. QED
    BY <1>1

\* A step of a conversation.
LEMMA NextConversation ==
    ASSUME OneConversation
    PROVE  IInv /\ ConversationInv /\ [Next]_vars => ConversationInv'
<1> SUFFICES ASSUME IInv, ConversationInv, [Next]_vars PROVE ConversationInv'
    OBVIOUS
<1>1. ASSUME NEW messages \in Chats, BeginChat(messages) PROVE ConversationInv'
    BY <1>1, BeginChatChat
<1>2. ASSUME \A messages \in Chats : ~ BeginChat(messages), ~ completed', ~ aborted'
      PROVE  ChatInv'
    <2>1. ChatInv
        BY <1>2, ConditionsStay DEF ConversationInv
    <2>2. ~ \E n \in PromptLens : BeginCompletion(n) \/ CompleteNothing(n)
        BY <1>2 DEF BeginCompletion, CompleteNothing
    <2>3. ~ (EvalCompletion \/ EvalCompletionDone \/ Generate)
        BY <2>1 DEF ChatInv, EvalCompletion, EvalCompletionDone, Generate
    <2>4. CASE UNCHANGED vars
        <3>1. ASSUME NEW c
              PROVE  (OneChat(c) => OneChat(c)') /\ (Hit(c) => Hit(c)')
            BY <2>4 DEF vars, OneChat, Hit, Fed, Turns, EndOf, Offset, Encode, StartTokens
        <3>. QED
            BY <2>1, <2>4, <3>1 DEF vars, ChatInv, Repeats
    <2>. QED
        BY <1>2, <2>1, <2>2, <2>3, <2>4, EvalChatChat, OtherChat, RaiseChat DEF Next
<1>. QED
    BY <1>1, <1>2, OtherPushes DEF ConversationInv

\* A chat that was found holds below its end what was cut off.
LEMMA HitHolds ==
    ASSUME OneConversation, IInv, NEW c \in Chats, Hit(c)
    PROVE  HoldsBelow(start, reused)
<1>1. /\ reused = c /\ start = Offset + Len(c) /\ c \in Seq(Message) /\ Len(c) \in Nat
      /\ Offset \in 0 .. 1 /\ Bos \notin Message
    BY PromptOf DEF Hit, OneConversation
<1>2. \A p \in 0 .. start - 1 : kv[p] = IF p < Offset THEN Bos ELSE c[p - Offset + 1]
    <2> SUFFICES ASSUME NEW p \in 0 .. start - 1
                 PROVE  kv[p] = IF p < Offset THEN Bos ELSE c[p - Offset + 1]
        OBVIOUS
    <2>1. kv[p] = Turns(c)[p + 1]
        BY DEF Hit, Fed
    <2>2. p \in 0 .. Offset + Len(c) - 1
        BY <1>1
    <2>3. Turns(c)[p + 1] = IF p < Offset THEN Bos ELSE c[p - Offset + 1]
        BY <2>2, PromptOf
    <2>. QED
        BY <2>1, <2>3
<1> DEFINE at == [i \in 1 .. Len(c) |-> i - 1 + Offset]
<1>3. at \in [1 .. Len(reused) -> 0 .. start - 1]
    BY <1>1
<1>4. \A i, j \in 1 .. Len(reused) : i < j => at[i] < at[j]
    BY <1>1
<1>5. ASSUME NEW i \in 1 .. Len(reused) PROVE kv[at[i]] = reused[i]
    <2>1. at[i] = i - 1 + Offset
        BY <1>1
    <2>2. /\ i - 1 + Offset \in 0 .. start - 1 /\ ~ (i - 1 + Offset < Offset)
          /\ (i - 1 + Offset) - Offset + 1 = i
        BY <1>1
    <2>3. kv[i - 1 + Offset] = c[(i - 1 + Offset) - Offset + 1]
        BY <1>2, <2>2
    <2>. QED
        BY <1>1, <2>1, <2>2, <2>3
<1>6. ASSUME NEW p \in 0 .. start - 1, kv[p] \in Message
      PROVE  \E i \in 1 .. Len(reused) : at[i] = p
    <2>1. p >= Offset
        BY <1>1, <1>2, <1>6
    <2>2. p - Offset + 1 \in 1 .. Len(reused) /\ at[p - Offset + 1] = p
        BY <1>1, <2>1
    <2>. QED
        BY <2>2
<1> HIDE DEF at
<1>. QED
    BY <1>3, <1>4, <1>5, <1>6 DEF HoldsBelow

\* resolve_delta_prompt cuts off what the KV cache holds, for the chats of any
\* one conversation, at any lengths, in any order and however often they are
\* sent, and when clients go away, if since the last of them that started at
\* position 0 the other endpoint has not been used and no forward has raised
\* before the end remembered.
THEOREM ChatsAreCached == OneConversation /\ Spec => []ChatsAloneAreCached
<1> SUFFICES ASSUME OneConversation PROVE Spec => []ChatsAloneAreCached
    OBVIOUS
<1>1. Init => ConversationInv
    BY DEF Init, ConversationInv, Pushes, ChatInv
<1>2. IInv /\ ConversationInv => ChatsAloneAreCached
    BY HitHolds DEF ConversationInv, ChatInv, ChatsAloneAreCached, PrefixIsCached
<1>. QED
    BY <1>1, <1>2, NextConversation, Invariance, PTL DEF Spec
=============================================================================
