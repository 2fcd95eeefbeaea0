---------------------------- MODULE TokenPipeline ----------------------------
(***************************************************************************)
(* What the token pipeline of a tree promises, without queue, cursors or   *)
(* threads: the tokenizer emits tokens, each token is decoded once, the    *)
(* tokens are built into the tree in the order of emission, and a document *)
(* is closed only when nothing is left to do for it.                       *)
(***************************************************************************)
EXTENDS Naturals

VARIABLES
    open,      \* a document is being parsed
    emitted,   \* number of tokens emitted
    decoded,   \* the tokens that are decoded
    built      \* number of tokens built into the tree, a prefix of the emitted

pipelineVars == <<open, emitted, decoded, built>>

PipelineInit == open = FALSE /\ emitted = 0 /\ decoded = {} /\ built = 0

Open == /\ ~open /\ emitted = 0
        /\ open' = TRUE
        /\ UNCHANGED <<emitted, decoded, built>>

Emit == /\ open
        /\ emitted' = emitted + 1
        /\ UNCHANGED <<open, decoded, built>>

Decode(t) == /\ open /\ t \notin decoded
             /\ decoded' = decoded \union {t}
             /\ UNCHANGED <<open, emitted, built>>

Build == /\ open /\ built < emitted
         /\ built' = built + 1
         /\ UNCHANGED <<open, emitted, decoded>>

\* Only a document whose tokens are all decoded and built is closed.
Close == /\ open /\ built = emitted /\ decoded = 1 .. emitted
         /\ open' = FALSE
         /\ UNCHANGED <<emitted, decoded, built>>

Forget == /\ ~open
          /\ emitted' = 0 /\ decoded' = {} /\ built' = 0
          /\ UNCHANGED open

PipelineNext ==
    \/ Open \/ Emit \/ Build \/ Close \/ Forget
    \/ \E t \in 1 .. emitted : Decode(t)

PipelineSpec == PipelineInit /\ [][PipelineNext]_pipelineVars
=============================================================================
