----------------------------- MODULE MCApiCache -----------------------------
(* Instances of ApiCache for TLC.                                              *)
EXTENDS ApiCache

CONSTANTS hello, hi, how, fine

(* One conversation that grows, and may be sent again at any length.           *)
Conversation == {<<hello>>, <<hello, hi>>, <<hello, hi, how>>, <<hello, hi, how, fine>>}

\* Tokens of text: with BOS or without.
Prompts == {0, 1, 3}
=============================================================================
