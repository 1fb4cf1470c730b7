\* Both endpoints, clients that may go away; a context that three messages can fill.
SPECIFICATION Spec
CONSTANTS
    Chats <- Conversation
    PromptLens <- Prompts
    MaxRequests = 4
    SeqLen = 4
    NBatches = 2
    Bos = Bos
    Assistant = Assistant
    Text = Text
    Zero = Zero
    Sampled = Sampled
    NoToken = NoToken
    hello = hello
    hi = hi
    how = how
    fine = fine
INVARIANTS
    TypeOK
    NoUnwrittenPrefix
    ChatsAloneAreCached
\* Nothing is asked any more after MaxRequests.
CHECK_DEADLOCK FALSE
