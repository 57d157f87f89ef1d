--------------------------- MODULE MCLlmAdapters ---------------------------
(* Instances of LlmAdapters for TLC. *)
EXTENDS LlmAdapters

Calm == [providers |-> Provider, turns |-> 2, steps |-> 2, window |-> 50,
         summary |-> {FALSE}, lists |-> {<<>>, <<1>>}, deltas |-> 0, pieces |-> 1,
         reports |-> 0, faults |-> {}]

\* Streams: one turn of any provider, two calls, deltas, pieces and reports in any order.
\* Switching: the turns go to different providers and replay each other's tool calls.
\* Trimming: the hot context is cut inside the steps of older turns.
Streams == [Calm EXCEPT !.turns = 1, !.steps = 1, !.summary = {TRUE}, !.deltas = 2, !.pieces = 2,
            !.reports = 1, !.lists = {<<>>, <<1, 2>>, <<1, 1>>},
            !.faults = {"llm", "cut", "garbled", "bare", "misfit"}]
Switching == [Calm EXCEPT !.turns = 3]
Unnamed == [Calm EXCEPT !.lists = {<<>>, <<1, 2>>}, !.faults = {"blank", "llm", "cut"}]
Trimming == [Calm EXCEPT !.providers = {"litellm", "openai"}, !.turns = 3,
             !.window = 4, !.lists = {<<>>, <<1, 2>>}]

AllLoads == {Streams, Switching, Unnamed, Trimming}
SwitchingOnly == {[Switching EXCEPT !.turns = 2]}
=============================================================================
