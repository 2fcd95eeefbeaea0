----------------------------- MODULE ThreadQueue -----------------------------
(***************************************************************************)
(* The token pipeline of one tree parsed in MyHTML_OPTIONS_PARSE_MODE_     *)
(* SEPARATELY: the main thread tokenizes and publishes tokens in a round   *)
(* of queue slots, the batch threads decode them (myhtml_parser_worker)    *)
(* and the stream thread builds the tree from them (myhtml_parser_stream). *)
(*                                                                         *)
(* There is no lock on the queue.  A token is published by incrementing    *)
(* nodes_uses, every thread owns a cursor thread_param[id].use, and the    *)
(* main thread may overwrite a slot only after it has seen every cursor    *)
(* pass it.  Each shared access is a step of its own here.                 *)
(*                                                                         *)
(* Entering and leaving the list of queues (entry_push, entry_delete) is   *)
(* one step, taken when no worker is inside a traversal: the handshake     *)
(* that arranges this is the subject of module ThreadControl.              *)
(***************************************************************************)
EXTENDS Integers, Sequences, FiniteSets

CONSTANTS
    Size,            \* queue->nodes_size, 9182 for a tree
    Batch,           \* number of batch threads, thread_count - 1
    MaxPieces,       \* bound: lexical pieces in a document, the EOF included
    MaxParses,       \* bound: documents parsed with the same tree
    BuildModes,      \* FALSE in it: MyHTML_TREE_PARSE_FLAGS_WITHOUT_BUILD_TREE used
    SkipWhitespace,  \* MyHTML_TREE_PARSE_FLAGS_SKIP_WHITESPACE_TOKEN
    Cdata            \* a document may hold the characters of a CDATA marker

ASSUME SizeAssumption  == Size \in Nat \ {0}
ASSUME BatchAssumption == Batch \in Nat \ {0}
ASSUME BoundAssumption == MaxPieces \in Nat \ {0} /\ MaxParses \in Nat \ {0}
ASSUME FlagAssumption  == /\ BuildModes \subseteq BOOLEAN
                          /\ SkipWhitespace \in BOOLEAN
                          /\ Cdata \in BOOLEAN

Stream       == 0               \* index of the stream thread in thread_param
BatchThreads == 1 .. Batch
Threads      == 0 .. Batch
Slots        == 0 .. Size - 1
Tokens       == 1 .. MaxPieces  \* tokens, in the order they are created
NULL         == 0               \* no token, where a token is expected
NoSlot       == -1              \* no slot, where a slot is expected

VARIABLES
    parses,        \* parses begun (history, bounded by MaxParses)
    build,         \* tree->parse_flags lack WITHOUT_BUILD_TREE
    left,          \* pieces of the document not yet tokenized, the EOF included
    mpc,           \* what the main thread does next
    wi,            \* index of its loop over thread_param
    token,         \* tree->current_token_node
    prev,          \* tree->current_qnode->prev
    nsOpen,        \* tree->token_namespace is not NULL
    nodes_length, nodes_uses, args,   \* the queue
    use,           \* entry->thread_param[].use
    done,          \* tokens with MyHTML_TOKEN_TYPE_DONE
    last_done,     \* tree->token_last_done
    wpc,           \* what each worker does next
    reg,           \* the value of use each worker has loaded to compare
    handled,       \* tokens the stream thread has finished, in order (history)
    decoded        \* times each token went through a batch thread (history)

mainVars == <<parses, build, left, mpc, wi, token, prev, nsOpen>>
queueVars == <<nodes_length, nodes_uses, args>>
workVars == <<use, done, last_done, wpc, reg, handled, decoded>>
vars == <<mainVars, queueVars, workVars>>

(***************************************************************************)
(* The slot the main thread fills (tree->current_qnode).                   *)
(***************************************************************************)
Current == nodes_length

\* The queue entry is in the list: between entry_push and entry_delete.
Attached == mpc \notin {"new", "ended"}

\* entry_delete has asked the workers to stay at the top of their loop.
Suspending == mpc = "end" /\ wi = Batch + 1

\* A worker inside a callback holds a slot of the queue.
AtWork(k) == wpc[k] \in {"work", "need", "insert"}

Init ==
    /\ parses = 0 /\ build = TRUE /\ left = 0 /\ mpc = "new" /\ wi = 0
    /\ token = NULL /\ prev = NoSlot /\ nsOpen = FALSE
    /\ nodes_length = 0 /\ nodes_uses = 0 /\ args = [s \in Slots |-> NULL]
    /\ use = [k \in Threads |-> 0]
    /\ done = {} /\ last_done = NULL
    /\ wpc = [k \in Threads |-> "top"] /\ reg = [k \in Threads |-> 0]
    /\ handled = << >> /\ decoded = [t \in Tokens |-> 0]

-----------------------------------------------------------------------------
(***************************************************************************)
(* Faulty variants of actions below, one plausible slip each.  They are no *)
(* part of Spec: put in place of the action they vary, they must break the *)
(* properties, which shows that the properties can fail.                   *)
(***************************************************************************)

\* MallocRound that lets the round grow one slot too far.
MallocRoundTooFar ==
    /\ mpc = "malloc"
    /\ nodes_length' = nodes_length + 1 /\ nodes_uses' = nodes_uses + 1
    /\ prev' = Current
    /\ IF nodes_length + 1 > Size
         THEN mpc' = "wait" /\ wi' = 0
         ELSE mpc' = "queued" /\ UNCHANGED wi
    /\ UNCHANGED <<parses, build, left, token, nsOpen, args, workVars>>

\* WaitForDone that is content when the last slot is still being worked on.
WaitForAlmostDone ==
    /\ mpc \in {"wait", "end"} /\ wi \in Threads
    /\ use[wi] + 1 >= nodes_uses
    /\ wi' = wi + 1
    /\ UNCHANGED <<parses, build, left, mpc, token, prev, nsOpen, queueVars, workVars>>

\* MakeBatch that sends every batch thread to the first slot.
MakeBatchAtZero ==
    /\ mpc = "batch"
    /\ use' = [use EXCEPT ![wi] = 0]
    /\ IF wi = Batch THEN mpc' = "stream" /\ wi' = 0
                     ELSE wi' = wi + 1 /\ UNCHANGED mpc
    /\ UNCHANGED <<parses, build, left, token, prev, nsOpen, queueVars, done, last_done,
                   wpc, reg, handled, decoded>>

\* MakeBatch that counts the stream thread among the batch threads.
MakeBatchShifted ==
    /\ mpc = "batch"
    /\ use' = [use EXCEPT ![wi] = wi]
    /\ IF wi = Batch THEN mpc' = "stream" /\ wi' = 0
                     ELSE wi' = wi + 1 /\ UNCHANGED mpc
    /\ UNCHANGED <<parses, build, left, token, prev, nsOpen, queueVars, done, last_done,
                   wpc, reg, handled, decoded>>

\* RawWait that is content with any token that is built.
RawWaitForAny ==
    /\ mpc = "raw" /\ last_done # NULL
    /\ mpc' = "resync"
    /\ UNCHANGED <<parses, build, left, wi, token, prev, nsOpen, queueVars, workVars>>

\* End that leaves the list of queues without the wait of tokenizer_end.
EndAtOnce ==
    /\ mpc = "end"
    /\ \A k \in Threads : wpc[k] = "top"
    /\ mpc' = "ended"
    /\ UNCHANGED <<parses, build, left, wi, token, prev, nsOpen, queueVars, workVars>>

\* Inserted that forgets to tell the tokenizer.
InsertedInSilence ==
    /\ wpc[Stream] = "insert"
    /\ handled' = Append(handled, args[use[Stream]])
    /\ wpc' = [wpc EXCEPT ![Stream] = "advance"]
    /\ UNCHANGED <<mainVars, queueVars, use, done, last_done, reg, decoded>>

\* AdvanceStream with the stride of the batch threads.
AdvanceStreamByBatch ==
    /\ wpc[Stream] = "advance"
    /\ use' = [use EXCEPT ![Stream] = @ + Batch]
    /\ wpc' = [wpc EXCEPT ![Stream] = "top"]
    /\ UNCHANGED <<mainVars, queueVars, done, last_done, reg, handled, decoded>>

-----------------------------------------------------------------------------
(***************************************************************************)
(* Main thread.                                                            *)
(***************************************************************************)

\* myhtml_tokenizer_chunk_process on a clean tree: entry_push makes the entry
\* and its cursors, set_first_settings clears the first slot and creates the
\* first token.
Begin ==
    /\ mpc = "new" /\ parses < MaxParses
    /\ \A k \in Threads : wpc[k] = "top"
    /\ parses' = parses + 1
    /\ build' \in BuildModes
    /\ \E n \in 1 .. MaxPieces : left' = n
    /\ use' = [k \in Threads |-> IF k = Stream THEN 0 ELSE k - 1]
    /\ args' = [args EXCEPT ![Current] = NULL]
    /\ prev' = NoSlot /\ token' = 1 /\ mpc' = "tokenize"
    /\ UNCHANGED <<wi, nsOpen, nodes_length, nodes_uses, done, last_done, wpc,
                   reg, handled, decoded>>

\* myhtml_queue_add with SKIP_WHITESPACE: the token is cleaned and used again.
SkipToken ==
    /\ SkipWhitespace /\ mpc = "tokenize" /\ left > 1
    /\ left' = left - 1
    /\ UNCHANGED <<parses, build, mpc, wi, token, prev, nsOpen, queueVars, workVars>>

\* "<![CDATA[": the marker is one only if the adjusted current node is foreign,
\* so the tokenizer waits for the builder to finish the previous token.
CdataMarker ==
    /\ Cdata /\ mpc = "tokenize" /\ left > 1
    /\ prev # NoSlot /\ args[prev] # NULL
    /\ mpc' = "cdata"
    /\ UNCHANGED <<parses, build, left, wi, token, prev, nsOpen, queueVars, workVars>>

\* myhtml_tree_wait_for_last_done_token in the CDATA branch.
CdataWait ==
    /\ mpc = "cdata" /\ last_done = args[prev]
    /\ mpc' = "look"
    /\ UNCHANGED <<parses, build, left, wi, token, prev, nsOpen, queueVars, workVars>>

\* qnode->args = token, for the token of a piece that is not skipped.
SetArgs ==
    /\ mpc \in {"tokenize", "look"}
    /\ args' = [args EXCEPT ![Current] = token]
    /\ left' = left - 1
    /\ mpc' = "malloc"
    /\ UNCHANGED <<parses, build, wi, token, prev, nsOpen, nodes_length, nodes_uses,
                   workVars>>

\* mythread_queue_node_malloc_round: nodes_uses++ publishes the slot just
\* filled; the next slot is free unless the round is full.
MallocRound ==
    /\ mpc = "malloc"
    /\ nodes_length' = nodes_length + 1
    /\ nodes_uses' = nodes_uses + 1
    /\ prev' = Current
    /\ IF nodes_length + 1 >= Size
         THEN mpc' = "wait" /\ wi' = 0
         ELSE mpc' = "queued" /\ UNCHANGED wi
    /\ UNCHANGED <<parses, build, left, token, nsOpen, args, workVars>>

\* mythread_queue_list_entry_wait_for_done, one cursor at a time, for a full
\* round ("wait") and at the end of the document ("end").
WaitForDone ==
    /\ mpc \in {"wait", "end"} /\ wi \in Threads
    /\ use[wi] >= nodes_uses
    /\ wi' = wi + 1
    /\ UNCHANGED <<parses, build, left, mpc, token, prev, nsOpen, queueVars, workVars>>

\* mythread_queue_list_entry_clean, after the wait.
EntryClean ==
    /\ mpc = "wait" /\ wi = Batch + 1
    /\ nodes_length' = 0 /\ nodes_uses' = 0
    /\ mpc' = "batch" /\ wi' = 1
    /\ UNCHANGED <<parses, build, left, token, prev, nsOpen, args, workVars>>

\* mythread_queue_list_entry_make_batch: cursors 0, 1, ... for the batch threads.
MakeBatch ==
    /\ mpc = "batch"
    /\ use' = [use EXCEPT ![wi] = wi - 1]
    /\ IF wi = Batch THEN mpc' = "stream" /\ wi' = 0
                     ELSE wi' = wi + 1 /\ UNCHANGED mpc
    /\ UNCHANGED <<parses, build, left, token, prev, nsOpen, queueVars, done, last_done,
                   wpc, reg, handled, decoded>>

\* mythread_queue_list_entry_make_stream: its loop runs to entries_length
\* inclusive, so the first batch cursor is set to 0 once more.
MakeStream ==
    /\ mpc = "stream"
    /\ use' = [use EXCEPT ![wi] = 0]
    /\ IF wi = 1 THEN mpc' = "queued" /\ UNCHANGED wi
                 ELSE wi' = wi + 1 /\ UNCHANGED mpc
    /\ UNCHANGED <<parses, build, left, token, prev, nsOpen, queueVars, done, last_done,
                   wpc, reg, handled, decoded>>

\* End of myhtml_queue_add: a new token, or myhtml_tokenizer_end after the EOF.
NextToken ==
    IF left = 0 THEN mpc' = "end" /\ wi' = 0 /\ UNCHANGED token
                ELSE mpc' = "tokenize" /\ token' = token + 1 /\ UNCHANGED wi

\* myhtml_tokenizer_calc_current_namespace, no wait needed.
PlainTag ==
    /\ mpc = "queued"
    /\ NextToken
    /\ UNCHANGED <<parses, build, left, prev, nsOpen, queueVars, workVars>>

\* myhtml_tokenizer_calc_current_namespace on math, svg or frameset.
OpenNamespace ==
    /\ mpc = "queued" /\ build /\ left > 0
    /\ nsOpen' = TRUE
    /\ NextToken
    /\ UNCHANGED <<parses, build, left, prev, queueVars, workVars>>

\* A start tag that may switch the tokenizer, after a foreign one was seen:
\* the tokenizer needs to know the state the builder chose.
RawTag ==
    /\ mpc = "queued" /\ build /\ left > 0 /\ nsOpen
    /\ mpc' = "raw"
    /\ UNCHANGED <<parses, build, left, wi, token, prev, nsOpen, queueVars, workVars>>

\* myhtml_tree_wait_for_last_done_token in calc_current_namespace.
RawWait ==
    /\ mpc = "raw" /\ last_done = token
    /\ mpc' = "resync"
    /\ UNCHANGED <<parses, build, left, wi, token, prev, nsOpen, queueVars, workVars>>

\* tree->state = tree->state_of_builder.
Resync ==
    /\ mpc = "resync"
    /\ NextToken
    /\ UNCHANGED <<parses, build, left, prev, nsOpen, queueVars, workVars>>

\* mythread_queue_list_entry_delete, after the wait of myhtml_tokenizer_end.
End ==
    /\ mpc = "end" /\ wi = Batch + 1
    /\ \A k \in Threads : wpc[k] = "top"
    /\ mpc' = "ended"
    /\ UNCHANGED <<parses, build, left, wi, token, prev, nsOpen, queueVars, workVars>>

\* myhtml_tree_clean, by the next myhtml_parse or by the program.  The token
\* objects go back to their allocator: the same numbers name new tokens.
TreeClean ==
    /\ mpc = "ended" /\ parses < MaxParses
    /\ mpc' = "new" /\ token' = NULL /\ prev' = NoSlot /\ nsOpen' = FALSE
    /\ nodes_length' = 0 /\ nodes_uses' = 0
    /\ last_done' = NULL /\ done' = {}
    /\ handled' = << >> /\ decoded' = [t \in Tokens |-> 0]
    /\ UNCHANGED <<parses, build, left, wi, args, use, wpc, reg>>

Main ==
    \/ Begin \/ SkipToken \/ CdataMarker \/ CdataWait \/ SetArgs \/ MallocRound
    \/ WaitForDone \/ EntryClean \/ MakeBatch \/ MakeStream \/ PlainTag
    \/ OpenNamespace \/ RawTag \/ RawWait \/ Resync \/ End \/ TreeClean

-----------------------------------------------------------------------------
(***************************************************************************)
(* Workers: mythread_function_queue_batch and _stream.  The comparison     *)
(* use < nodes_uses loads use first; the C standard leaves the order open, *)
(* the builds examined keep it.                                            *)
(***************************************************************************)
LoadUse(k) ==
    /\ wpc[k] = "top" /\ Attached /\ ~Suspending
    /\ reg' = [reg EXCEPT ![k] = use[k]]
    /\ wpc' = [wpc EXCEPT ![k] = "compare"]
    /\ UNCHANGED <<mainVars, queueVars, use, done, last_done, handled, decoded>>

Compare(k) ==
    /\ wpc[k] = "compare"
    /\ wpc' = [wpc EXCEPT ![k] = IF reg[k] < nodes_uses THEN "work" ELSE "top"]
    /\ UNCHANGED <<mainVars, queueVars, use, done, last_done, reg, handled, decoded>>

\* myhtml_parser_worker: the token of the slot is decoded and marked DONE.
Decode(k) ==
    /\ k \in BatchThreads /\ wpc[k] = "work"
    /\ done' = done \union {args[use[k]]}
    /\ decoded' = [decoded EXCEPT ![args[use[k]]] = @ + 1]
    /\ wpc' = [wpc EXCEPT ![k] = "advance"]
    /\ UNCHANGED <<mainVars, queueVars, use, last_done, reg, handled>>

\* thread_param->use += entries_length.
AdvanceBatch(k) ==
    /\ k \in BatchThreads /\ wpc[k] = "advance"
    /\ use' = [use EXCEPT ![k] = @ + Batch]
    /\ wpc' = [wpc EXCEPT ![k] = "top"]
    /\ UNCHANGED <<mainVars, queueVars, done, last_done, reg, handled, decoded>>

\* myhtml_parser_stream without tree: nothing but the flag test.
PassToken ==
    /\ ~build /\ wpc[Stream] = "work"
    /\ handled' = Append(handled, args[use[Stream]])
    /\ wpc' = [wpc EXCEPT ![Stream] = "advance"]
    /\ UNCHANGED <<mainVars, queueVars, use, done, last_done, reg, decoded>>

\* myhtml_rules_tree_dispatcher: an insertion mode that looks into the token
\* first waits for its DONE flag (myhtml_token_node_wait_for_done).
Dispatch ==
    /\ build /\ wpc[Stream] = "work"
    /\ \E next \in {"need", "insert"} : wpc' = [wpc EXCEPT ![Stream] = next]
    /\ UNCHANGED <<mainVars, queueVars, use, done, last_done, reg, handled, decoded>>

NeedDone ==
    /\ wpc[Stream] = "need" /\ args[use[Stream]] \in done
    /\ wpc' = [wpc EXCEPT ![Stream] = "insert"]
    /\ UNCHANGED <<mainVars, queueVars, use, done, last_done, reg, handled, decoded>>

\* The insertion mode asks for the token to be processed again.
Reprocess ==
    /\ wpc[Stream] = "insert"
    /\ wpc' = [wpc EXCEPT ![Stream] = "work"]
    /\ UNCHANGED <<mainVars, queueVars, use, done, last_done, reg, handled, decoded>>

\* The token is in the tree: token_last_done = token.
Inserted ==
    /\ wpc[Stream] = "insert"
    /\ last_done' = args[use[Stream]]
    /\ handled' = Append(handled, args[use[Stream]])
    /\ wpc' = [wpc EXCEPT ![Stream] = "advance"]
    /\ UNCHANGED <<mainVars, queueVars, use, done, reg, decoded>>

\* thread_param->use++.
AdvanceStream ==
    /\ wpc[Stream] = "advance"
    /\ use' = [use EXCEPT ![Stream] = @ + 1]
    /\ wpc' = [wpc EXCEPT ![Stream] = "top"]
    /\ UNCHANGED <<mainVars, queueVars, done, last_done, reg, handled, decoded>>

BatchThread(k) == LoadUse(k) \/ Compare(k) \/ Decode(k) \/ AdvanceBatch(k)

StreamThread ==
    \/ LoadUse(Stream) \/ Compare(Stream) \/ PassToken \/ Dispatch \/ NeedDone
    \/ Reprocess \/ Inserted \/ AdvanceStream

\* The program stopped parsing: every document is parsed, workers idle.
Finished ==
    /\ mpc = "ended" /\ parses = MaxParses
    /\ UNCHANGED vars

Next == Main \/ StreamThread \/ (\E k \in BatchThreads : BatchThread(k)) \/ Finished

Spec == Init /\ [][Next]_vars

\* Every thread is scheduled, and an insertion mode reprocesses a token a
\* finite number of times.
FairSpec ==
    /\ Spec
    /\ WF_vars(Main)
    /\ WF_vars(StreamThread) /\ SF_vars(Inserted)
    /\ \A k \in BatchThreads : WF_vars(BatchThread(k))

-----------------------------------------------------------------------------
(***************************************************************************)
(* Properties.                                                             *)
(***************************************************************************)

\* Type invariant.
TypeOK ==
    /\ parses \in 0 .. MaxParses /\ build \in BOOLEAN /\ left \in 0 .. MaxPieces
    /\ mpc \in {"new", "tokenize", "cdata", "look", "malloc", "wait", "batch",
                "stream", "queued", "raw", "resync", "end", "ended"}
    /\ wi \in 0 .. Batch + 1
    /\ token \in 0 .. MaxPieces /\ prev \in NoSlot .. Size - 1
    /\ nsOpen \in BOOLEAN
    /\ nodes_length \in 0 .. Size /\ nodes_uses \in 0 .. Size
    /\ args \in [Slots -> 0 .. MaxPieces]
    /\ use \in [Threads -> Nat] /\ reg \in [Threads -> Nat]
    /\ done \subseteq Tokens /\ last_done \in 0 .. MaxPieces
    /\ wpc \in [Threads -> {"top", "compare", "work", "need", "insert", "advance"}]
    /\ handled \in Seq(Tokens) /\ decoded \in [Tokens -> Nat]

\* A worker only ever looks into a slot that is published and that the main
\* thread is not filling: the round may be reused without a lock.
SlotStable ==
    \A k \in Threads : AtWork(k) => /\ use[k] < nodes_uses
                                    /\ mpc \in {"tokenize", "look"} => use[k] # Current

\* Tokens reach the tree in the order of the document, none skipped and none
\* twice, whatever round of the queue they travelled in.
BuiltInOrder == \A i \in 1 .. Len(handled) : handled[i] = i

\* No token is decoded by two batch threads, or twice by one.
DecodedOnce == \A t \in Tokens : decoded[t] <= 1

\* When myhtml_tokenizer_end returns, every token was decoded and built: no
\* slot was lost when a round was reset under the workers' feet.
AllDoneAtEnd ==
    mpc = "ended" => /\ Len(handled) = token
                     /\ \A t \in 1 .. token : t \in done /\ decoded[t] = 1

\* The tokenizer reads what the builder owns (the adjusted current node, the
\* state of the builder) only while the builder has nothing to do, and has
\* dealt with all the tokens published so far.
BuilderQuietWhenRead ==
    mpc \in {"look", "resync"} =>
        /\ ~AtWork(Stream)
        /\ Len(handled) = IF mpc = "look" THEN token - 1 ELSE token

\* Every document that is begun is finished: no wait of the main thread or of
\* the builder is for something that does not come.
ParseEnds == \A n \in 1 .. MaxParses : (parses = n) ~> (parses = n /\ mpc = "ended")

\* The same of the documents a tree is built from, whichever came before them.
BuildEnds ==
    \A n \in 1 .. MaxParses :
        (parses = n /\ mpc = "tokenize" /\ build) ~> (parses = n /\ mpc = "ended")

-----------------------------------------------------------------------------
(***************************************************************************)
(* Refinement: the tokens published so far, whichever rounds they were in. *)
(***************************************************************************)
Filling == mpc \in {"tokenize", "cdata", "look", "malloc"}
Published == IF Filling THEN token - 1 ELSE token

Pipeline == INSTANCE TokenPipeline WITH
    open <- Attached, emitted <- Published, decoded <- done,
    built <- Len(handled)

\* The lock-free queue implements the abstract pipeline.
PipelineRefined == Pipeline!PipelineSpec

-----------------------------------------------------------------------------
(***************************************************************************)
(* Inductive invariant.  Base counts the tokens of the rounds before this  *)
(* one; slot s of this round carries token Base + s + 1.                   *)
(***************************************************************************)
Base == Published - nodes_length

\* Between EntryClean and MakeStream the stream cursor still counts the
\* slots of the round that was full.
StreamCursorStale == mpc = "batch" \/ (mpc = "stream" /\ wi = 0)

MainInv ==
    /\ mpc = "new" => token = 0 /\ nodes_length = 0 /\ handled = << >>
                      /\ last_done = NULL
    /\ mpc \notin {"new"} => token \in Tokens
    /\ mpc \in {"tokenize", "cdata", "look"} => left >= 1 /\ token + left <= MaxPieces + 1
    /\ mpc \notin {"new", "tokenize", "cdata", "look"} => token + left <= MaxPieces
    /\ mpc = "cdata" => prev \in Slots
    /\ mpc = "batch" => wi \in 1 .. Batch
    /\ mpc = "stream" => wi \in {0, 1}
    /\ mpc \in {"tokenize", "cdata", "look"} =>
          IF token = 1 THEN prev = NoSlot ELSE prev \in Slots /\ args[prev] = token - 1
    /\ mpc \in {"wait", "batch", "stream", "queued", "raw", "resync"} =>
          prev \in Slots /\ args[prev] = token

QueueInv ==
    /\ nodes_uses = nodes_length
    /\ IF mpc = "wait" THEN nodes_length = Size ELSE nodes_length < Size
    /\ mpc \in {"batch", "stream"} => nodes_length = 0
    /\ Base >= 0
    /\ Attached => \A s \in Slots : s < nodes_uses => args[s] = Base + s + 1
    /\ mpc = "malloc" => args[Current] = token

CursorInv ==
    /\ \A k \in Threads :
          /\ wpc[k] \notin {"top", "compare"} => use[k] < nodes_uses
          /\ wpc[k] = "compare" => reg[k] = use[k] \/ reg[k] >= Size
          /\ ~Attached => wpc[k] = "top"
          /\ mpc \in {"wait", "end"} /\ k < wi => use[k] >= nodes_uses
          /\ mpc = "batch" /\ k >= wi => use[k] >= Size
    /\ mpc = "stream" \/ (mpc = "batch" /\ wi > 1) => use[1] = 0

StreamInv ==
    /\ \A i \in 1 .. Len(handled) : handled[i] = i
    /\ last_done = IF build THEN Len(handled) ELSE NULL
    /\ StreamCursorStale => use[Stream] >= Size /\ Len(handled) = Base
    /\ ~StreamCursorStale /\ mpc # "new" =>
          /\ use[Stream] <= nodes_uses
          /\ Len(handled) = Base + use[Stream]
                            + IF wpc[Stream] = "advance" THEN 1 ELSE 0
    /\ wpc[Stream] \in {"need", "insert"} => build
    /\ mpc = "ended" => Len(handled) = token
    /\ mpc \in {"look", "resync"} => Len(handled) = Published

\* The batch thread whose cursor comes past slot s: it begins at slot k - 1 and
\* moves on by Batch.
Owner(s) == (s % Batch) + 1

\* What is decoded of this round are the slots their owners have passed.
Passed(s) ==
    LET k == Owner(s) IN s < use[k] \/ (s = use[k] /\ wpc[k] = "advance")

DecodeInv ==
    /\ \A t \in Tokens : decoded[t] = IF t \in done THEN 1 ELSE 0
    /\ \A t \in Tokens : t <= Base => t \in done
    /\ \A t \in Tokens : t > Published => t \notin done
    /\ \A s \in Slots : s < nodes_uses => (Base + s + 1 \in done <=> Passed(s))
    /\ Attached => \A k \in BatchThreads :
          /\ Owner(use[k]) = k
          /\ ~(mpc = "batch" /\ wi <= k) => use[k] < nodes_uses + Batch
    /\ mpc = "ended" => done = 1 .. token

\* The strengthening of the properties above that every step preserves.
PipelineInv == TypeOK /\ MainInv /\ QueueInv /\ CursorInv /\ StreamInv
DecodingInv == PipelineInv /\ DecodeInv
=============================================================================
