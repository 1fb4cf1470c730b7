\* The same conversation with completions in between.
SPECIFICATION Spec
CONSTANTS
    Chats <- Conversation
    PromptLens <- Prompts
    MaxRequests = 3
    SeqLen = 4
    NBatches = 2
    Bos = Bos
    Assistant = Assistant
    Text = Text
    Zero = Zero
    Sampled = Sampled
    NoToken = NoToken
    hello = hello
    hi = hi
    how = how
    fine = fine
INVARIANTS
    SurvivesCompletions
\* Nothing is asked any more after MaxRequests.
CHECK_DEADLOCK FALSE
