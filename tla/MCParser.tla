------------------------------- MODULE MCParser -------------------------------
EXTENDS Parser, TLC

CONSTANTS r1, r2, r3, r4, conversation

\* A line with one block, one without any, one whose first block cannot be parsed.
SomeContents == {<<"text">>, <<>>, <<"bad", "tool_use", "tool_result">>}

\* The first message of a user, a call with words around it, the answer to the
\* call, which bears usage without a part to carry it, and an empty message.
SomeMessages == << [parts |-> <<"text">>, usage |-> FALSE],
                   [parts |-> <<"response", "empty", "text", "call">>, usage |-> TRUE],
                   [parts |-> <<"response">>, usage |-> TRUE],
                   [parts |-> <<>>, usage |-> TRUE] >>

SymmetricRequests == Permutations({r1, r2, r3, r4})
=============================================================================
