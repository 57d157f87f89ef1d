----------------------------- MODULE ChatStream -----------------------------
(***************************************************************************)
(* What a chat request promises to its client and to the history, however  *)
(* it is served: an answer that is shown step by step, part by part, and   *)
(* then kept exactly as it was shown or not at all.                        *)
(***************************************************************************)
EXTENDS Integers, Sequences, SequencesExt

CONSTANTS
    Block,      \* the parts of a step that are not tool calls
    MaxSteps    \* how many steps an answer may take

VARIABLES
    status,     \* "between" steps, in a "step", or how the stream ended
    steps,      \* the steps that were begun
    blocks,     \* the blocks of the step that are open
    waiting,    \* the tool calls of the step whose outputs are not shown yet
    shown,      \* what was shown: contents of parts, in their order
    progress,   \* the statuses of the plan steps that were shown, in their order
    history     \* the answers that are kept for the sessions to come

vars == <<status, steps, blocks, waiting, shown, progress, history>>

Content(part) == [step |-> steps - 1, part |-> part]

Init ==
    /\ status = "between"
    /\ steps = 0
    /\ blocks = {}
    /\ waiting = {}
    /\ shown = <<>>
    /\ progress = <<>>
    /\ history = {}

StartStep ==
    /\ status = "between" /\ steps < MaxSteps
    /\ status' = "step"
    /\ steps' = steps + 1
    /\ UNCHANGED <<blocks, waiting, shown, progress, history>>

\* More content of a block, which is open then; others may be closed for it.
Say ==
    /\ status = "step"
    /\ waiting = {}
    /\ blocks' \subseteq Block
    /\ \E b \in blocks' :
          /\ shown' = Append(shown, Content(<<b>>))
          /\ blocks' \subseteq blocks \cup {b}
    /\ UNCHANGED <<status, steps, waiting, progress, history>>

\* The blocks are closed and tools called, all of them at once and none a second time.
CallTools ==
    /\ status = "step"
    /\ waiting = {}
    /\ blocks' = {}
    /\ waiting' # {}
    /\ IsPrefix(shown, shown')
    /\ LET new == SubSeq(shown', Len(shown) + 1, Len(shown')) IN
          /\ IsInjective(new)
          /\ ToSet(new) = {Content(call) : call \in waiting'}
          /\ ToSet(new) \cap ToSet(shown) = {}
    /\ UNCHANGED <<status, steps, progress, history>>

\* A step ends with all its blocks closed and all its calls answered.
EndStep ==
    /\ status = "step"
    /\ status' = "between"
    /\ blocks' = {}
    /\ waiting' = {}
    /\ UNCHANGED <<steps, shown, progress, history>>

\* A step of its own that tells the client something that is no part of the answer.
Notice ==
    /\ status = "between"
    /\ steps' = steps + 1
    /\ UNCHANGED <<status, blocks, waiting, shown, progress, history>>

\* The steps of a plan begin and are completed one after the other, in its order.
Advance ==
    /\ status = "between"
    /\ progress' = Append(progress,
          <<Len(progress) \div 2 + 1,
            IF Len(progress) % 2 = 0 THEN "in_progress" ELSE "completed">>)
    /\ UNCHANGED <<status, steps, blocks, waiting, shown, history>>

\* The answer is complete, and what is kept of it has the parts that were shown.
Keep ==
    /\ status = "between"
    /\ status' = "finish"
    /\ history' = {ToSet(shown)}
    /\ UNCHANGED <<steps, blocks, waiting, shown, progress>>

\* Anywhere before that, an error or the client ends it, and nothing is kept.
GiveUp ==
    /\ status \in {"between", "step"}
    /\ status' \in {"error", "abort"}
    /\ UNCHANGED <<steps, blocks, waiting, shown, progress, history>>

Next == \/ StartStep \/ Say \/ CallTools \/ EndStep
        \/ Notice \/ Advance \/ Keep \/ GiveUp

Spec == Init /\ [][Next]_vars
=============================================================================
