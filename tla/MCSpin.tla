-------------------------------- MODULE MCSpin --------------------------------
EXTENDS Spin, TLC

CONSTANTS callA, callB, errX, errY, opus

Windows == opus :> 10

Plain(kind, item, after, cost) ==
    [kind |-> kind, item |-> item, edits |-> FALSE, after |-> after, cost |-> cost,
     input |-> 0, model |-> NoModel]

\* Two tool calls, one of them an edit; two errors and an empty one; answers that
\* cost something, fill the window of a model known or not, come late, go back in
\* time or bear no time.
Log == { Plain("tool_use", callA, 0, 0),
         [Plain("tool_use", callB, 1, 1) EXCEPT !.edits = TRUE],
         Plain("error", errX, 0, 0), Plain("error", errY, 1, 0),
         Plain("error", NoText, 0, 0),
         Plain("text", NoText, 1, 3),
         [Plain("text", NoText, 2, 1) EXCEPT !.input = 9, !.model = opus],
         Plain("text", NoText, -1, 2),
         Plain("tool_result", NoText, Unstamped, 0) }
=============================================================================
