-------------------------- MODULE ThreadQueue_proofs --------------------------
(***************************************************************************)
(* Safety of the token queue for every round size, every number of batch   *)
(* threads, documents of any length and any number of parses.              *)
(*                                                                         *)
(* The argument: PipelineInv says what a cursor below nodes_uses may       *)
(* assume (QueueInv: slot s of the round carries token Base + s + 1), that *)
(* a worker never acts on a cursor that is not below nodes_uses even when  *)
(* the value it compares is one of an earlier round (CursorInv), and that  *)
(* the tokens built are exactly those before the stream cursor             *)
(* (StreamInv).                                                            *)
(*                                                                         *)
(* DecodeInv adds the batch threads: the slots of a round are dealt out by *)
(* their number (Owner), the tokens a thread has decoded are those of its  *)
(* slots its cursor has passed.  From both follows that the queue          *)
(* implements TokenPipeline.                                               *)
(***************************************************************************)
EXTENDS ThreadQueue, TLAPS

USE SizeAssumption, BatchAssumption, BoundAssumption, FlagAssumption

\* A worker inside or just behind a callback stands on a published slot.
LEMMA SlotToken ==
    ASSUME PipelineInv, NEW k \in Threads, wpc[k] \notin {"top", "compare"}
    PROVE  /\ use[k] \in Slots /\ use[k] < nodes_uses /\ Attached
           /\ args[use[k]] = Base + use[k] + 1
           /\ Base + use[k] + 1 \in Tokens
           /\ Base + use[k] + 1 <= Published
<1>1. use[k] < nodes_uses /\ Attached
    BY DEF PipelineInv, CursorInv
<1>2. use[k] \in Slots
    BY <1>1 DEF PipelineInv, TypeOK, Slots
<1>3. args[use[k]] = Base + use[k] + 1
    BY <1>1, <1>2 DEF PipelineInv, QueueInv
<1>4. Base >= 0 /\ Base \in Int
    BY DEF PipelineInv, QueueInv, TypeOK, Base, Published
<1>5. Published \in Int /\ Published <= MaxPieces
    BY DEF PipelineInv, TypeOK, Published
<1>6. Published = Base + nodes_uses
    BY <1>5 DEF PipelineInv, QueueInv, TypeOK, Base
<1>7. use[k] \in Nat /\ nodes_uses \in Nat
    BY DEF PipelineInv, TypeOK
<1>8. Base + use[k] + 1 <= Published
    BY <1>1, <1>4, <1>6, <1>7
<1>9. Base + use[k] + 1 \in Tokens
    BY <1>4, <1>5, <1>7, <1>8 DEF Tokens
<1>10. QED
    BY <1>1, <1>2, <1>3, <1>8, <1>9

\* Each part of the invariant is preserved by every step; one lemma per part,
\* one step per action.
LEMMA TypeStep == PipelineInv /\ [Next]_vars => TypeOK'
<1> SUFFICES ASSUME PipelineInv, [Next]_vars PROVE TypeOK'
    OBVIOUS
<1> USE DEF mainVars, queueVars, workVars
<1>t. TypeOK
    BY DEF PipelineInv
<1>m. MainInv
    BY DEF PipelineInv
<1>q. QueueInv
    BY DEF PipelineInv
<1>s. wpc[Stream] \notin {"top", "compare"} => args[use[Stream]] \in Tokens
  <2>1. Stream \in Threads
    BY DEF Stream, Threads
  <2>2. QED
    BY <2>1, SlotToken
<1>1. CASE Begin
  <2>1. use' \in [Threads -> Nat]
    BY <1>1, <1>t DEF TypeOK, Threads, Stream, Begin
  <2>2. parses' \in 0 .. MaxParses /\ left' \in 0 .. MaxPieces /\ token' \in 0 .. MaxPieces /\ prev' \in NoSlot .. Size - 1
    BY <1>1, <1>t DEF TypeOK, NoSlot, Begin
  <2>3. NULL \in 0 .. MaxPieces
    BY <1>1 DEF NULL, Begin
  <2>4. args' \in [Slots -> 0 .. MaxPieces]
    BY <1>1, <1>t, <2>3 DEF TypeOK, Begin
  <2>5. QED
    BY <1>t, <1>1, <2>1, <2>2, <2>3, <2>4 DEF TypeOK, Begin
<1>2. CASE SkipToken
  <2>1. left' \in 0 .. MaxPieces
    BY <1>2, <1>t DEF TypeOK, SkipToken
  <2>2. QED
    BY <1>t, <1>2, <2>1 DEF TypeOK, SkipToken
<1>3. CASE CdataMarker
    BY <1>t, <1>3 DEF TypeOK, CdataMarker
<1>4. CASE CdataWait
    BY <1>t, <1>4 DEF TypeOK, CdataWait
<1>5. CASE SetArgs
  <2>1. left' \in 0 .. MaxPieces
    BY <1>5, <1>t, <1>m DEF TypeOK, MainInv, SetArgs
  <2>2. args' \in [Slots -> 0 .. MaxPieces]
    BY <1>5, <1>t DEF TypeOK, SetArgs
  <2>3. QED
    BY <1>t, <1>5, <2>1, <2>2 DEF TypeOK, SetArgs
<1>6. CASE MallocRound
  <2>1. nodes_length' \in 0 .. Size /\ nodes_uses' \in 0 .. Size /\ prev' \in NoSlot .. Size - 1 /\ wi' \in 0 .. Batch + 1
    BY <1>6, <1>t, <1>q DEF TypeOK, QueueInv, Current, NoSlot, MallocRound
  <2>2. QED
    BY <1>t, <1>6, <2>1 DEF TypeOK, MallocRound
<1>7. CASE WaitForDone
  <2>1. wi' \in 0 .. Batch + 1
    BY <1>7, <1>t DEF TypeOK, Threads, WaitForDone
  <2>2. QED
    BY <1>t, <1>7, <2>1 DEF TypeOK, WaitForDone
<1>8. CASE EntryClean
  <2>1. nodes_length' \in 0 .. Size /\ wi' \in 0 .. Batch + 1
    BY <1>8, <1>t DEF TypeOK, EntryClean
  <2>2. QED
    BY <1>t, <1>8, <2>1 DEF TypeOK, EntryClean
<1>9. CASE MakeBatch
  <2>1. wi - 1 \in Nat
    BY <1>9, <1>m DEF MainInv, MakeBatch
  <2>2. use' \in [Threads -> Nat]
    BY <1>9, <1>t, <2>1 DEF TypeOK, MakeBatch
  <2>3. wi' \in 0 .. Batch + 1
    BY <1>9, <1>t, <1>m DEF TypeOK, MainInv, MakeBatch
  <2>4. QED
    BY <1>t, <1>9, <2>1, <2>2, <2>3 DEF TypeOK, MakeBatch
<1>10. CASE MakeStream
  <2>1. use' \in [Threads -> Nat]
    BY <1>10, <1>t, <1>m DEF TypeOK, MainInv, MakeStream
  <2>2. wi' \in 0 .. Batch + 1
    BY <1>10, <1>t, <1>m DEF TypeOK, MainInv, MakeStream
  <2>3. QED
    BY <1>t, <1>10, <2>1, <2>2 DEF TypeOK, MakeStream
<1>11. CASE PlainTag
  <2>1. wi' \in 0 .. Batch + 1 /\ token' \in 0 .. MaxPieces
    BY <1>11, <1>t, <1>m DEF TypeOK, MainInv, NextToken, Tokens, PlainTag
  <2>2. QED
    BY <1>t, <1>11, <2>1 DEF TypeOK, PlainTag, NextToken
<1>12. CASE OpenNamespace
  <2>1. wi' \in 0 .. Batch + 1 /\ token' \in 0 .. MaxPieces
    BY <1>12, <1>t, <1>m DEF TypeOK, MainInv, NextToken, Tokens, OpenNamespace
  <2>2. QED
    BY <1>t, <1>12, <2>1 DEF TypeOK, OpenNamespace, NextToken
<1>13. CASE RawTag
    BY <1>t, <1>13 DEF TypeOK, RawTag
<1>14. CASE RawWait
    BY <1>t, <1>14 DEF TypeOK, RawWait
<1>15. CASE Resync
  <2>1. wi' \in 0 .. Batch + 1 /\ token' \in 0 .. MaxPieces
    BY <1>15, <1>t, <1>m DEF TypeOK, MainInv, NextToken, Tokens, Resync
  <2>2. QED
    BY <1>t, <1>15, <2>1 DEF TypeOK, Resync, NextToken
<1>16. CASE End
    BY <1>t, <1>16 DEF TypeOK, End
<1>17. CASE TreeClean
  <2>1. nodes_length' \in 0 .. Size /\ token' \in 0 .. MaxPieces /\ last_done' \in 0 .. MaxPieces /\ prev' \in NoSlot .. Size - 1
    BY <1>17, <1>t DEF TypeOK, NULL, NoSlot, TreeClean
  <2>2. decoded' \in [Tokens -> Nat]
    BY <1>17, <1>t DEF TypeOK, TreeClean
  <2>3. handled' \in Seq(Tokens)
    BY <1>17 DEF TreeClean
  <2>4. QED
    BY <1>t, <1>17, <2>1, <2>2, <2>3 DEF TypeOK, TreeClean
<1>18. CASE PassToken
  <2>1. handled' \in Seq(Tokens)
    BY <1>18, <1>t, <1>s DEF TypeOK, PassToken
  <2>2. QED
    BY <1>t, <1>18, <2>1 DEF TypeOK, PassToken
<1>19. CASE Dispatch
    BY <1>t, <1>19 DEF TypeOK, Dispatch
<1>20. CASE NeedDone
    BY <1>t, <1>20 DEF TypeOK, NeedDone
<1>21. CASE Reprocess
    BY <1>t, <1>21 DEF TypeOK, Reprocess
<1>22. CASE Inserted
  <2>1. handled' \in Seq(Tokens)
    BY <1>22, <1>t, <1>s DEF TypeOK, Inserted
  <2>2. last_done' \in 0 .. MaxPieces
    BY <1>22, <1>t, <1>s DEF TypeOK, Tokens, Inserted
  <2>3. QED
    BY <1>t, <1>22, <2>1, <2>2 DEF TypeOK, Inserted
<1>23. CASE AdvanceStream
  <2>1. use' \in [Threads -> Nat]
    BY <1>23, <1>t DEF TypeOK, Threads, Stream, AdvanceStream
  <2>2. QED
    BY <1>t, <1>23, <2>1 DEF TypeOK, AdvanceStream
<1>24. ASSUME NEW k \in Threads, LoadUse(k) PROVE TypeOK'
    BY <1>t, <1>24 DEF TypeOK, LoadUse
<1>25. ASSUME NEW k \in Threads, Compare(k) PROVE TypeOK'
    BY <1>t, <1>25 DEF TypeOK, Compare
<1>26. ASSUME NEW k \in BatchThreads, Decode(k) PROVE TypeOK'
  <2>1. args[use[k]] \in Tokens
    BY <1>26, <1>t, SlotToken DEF BatchThreads, Threads, Decode
  <2>2. done' \subseteq Tokens
    BY <1>26, <1>t, <2>1 DEF TypeOK, Decode
  <2>3. decoded' \in [Tokens -> Nat]
    BY <1>26, <1>t, <2>1 DEF TypeOK, Decode
  <2>4. QED
    BY <1>t, <1>26, <2>1, <2>2, <2>3 DEF TypeOK, Decode
<1>27. ASSUME NEW k \in BatchThreads, AdvanceBatch(k) PROVE TypeOK'
  <2>1. use[k] + Batch \in Nat
    BY <1>27, <1>t DEF TypeOK, BatchThreads, Threads, AdvanceBatch
  <2>2. use' \in [Threads -> Nat]
    BY <1>27, <1>t, <2>1 DEF TypeOK, AdvanceBatch
  <2>3. QED
    BY <1>t, <1>27, <2>1, <2>2 DEF TypeOK, AdvanceBatch
<1>28. CASE UNCHANGED vars
    BY <1>t, <1>28 DEF TypeOK, vars
<1>29. QED
    BY <1>1, <1>2, <1>3, <1>4, <1>5, <1>6, <1>7, <1>8, <1>9, <1>10, <1>11, <1>12, <1>13, <1>14, <1>15, <1>16, <1>17, <1>18, <1>19, <1>20, <1>21, <1>22, <1>23, <1>24, <1>25, <1>26, <1>27, <1>28
    DEF Next, Main, StreamThread, BatchThread, Finished, BatchThreads, Threads, Stream

\* Every step keeps what the main thread knows of the token it is at.
LEMMA MainStep == PipelineInv /\ [Next]_vars => MainInv'
<1> SUFFICES ASSUME PipelineInv, [Next]_vars PROVE MainInv'
    OBVIOUS
<1> USE DEF mainVars, queueVars, workVars
<1>t. TypeOK
    BY DEF PipelineInv
<1>m. MainInv
    BY DEF PipelineInv
<1>q. QueueInv
    BY DEF PipelineInv
<1>a. wpc[Stream] \notin {"top", "compare"} => mpc # "new"
    BY SlotToken DEF Attached, Stream, Threads
<1>1. CASE Begin
    BY <1>1, <1>t, <1>m DEF MainInv, Begin, TypeOK, Tokens
<1>2. CASE SkipToken
    BY <1>2, <1>t, <1>m DEF MainInv, SkipToken, TypeOK
<1>3. CASE CdataMarker
    BY <1>3, <1>t, <1>m DEF MainInv, CdataMarker, TypeOK
<1>4. CASE CdataWait
    BY <1>4, <1>t, <1>m DEF MainInv, CdataWait, TypeOK
<1>5. CASE SetArgs
    BY <1>5, <1>t, <1>m DEF MainInv, SetArgs, TypeOK
<1>6. CASE MallocRound
    BY <1>6, <1>t, <1>m, <1>q DEF MainInv, MallocRound, TypeOK, QueueInv, Current, Slots
<1>7. CASE WaitForDone
    BY <1>7, <1>t, <1>m DEF MainInv, WaitForDone, TypeOK
<1>8. CASE EntryClean
    BY <1>8, <1>t, <1>m DEF MainInv, EntryClean, TypeOK
<1>9. CASE MakeBatch
    BY <1>9, <1>t, <1>m DEF MainInv, MakeBatch, TypeOK
<1>10. CASE MakeStream
    BY <1>10, <1>t, <1>m DEF MainInv, MakeStream, TypeOK
<1>11. CASE PlainTag
  <2>1. mpc = "queued" /\ mpc' \in {"end", "tokenize"} /\ UNCHANGED <<left, prev, args>>
    BY <1>11 DEF PlainTag, NextToken
  <2>2. token' = (IF mpc' = "end" THEN token ELSE token + 1) /\ (mpc' = "tokenize" => left > 0)
    BY <1>11, <1>t DEF PlainTag, NextToken, TypeOK
  <2>3. token \in Nat /\ token >= 1 /\ left \in Nat /\ token + left <= MaxPieces
        /\ prev \in Slots /\ args[prev] = token
    BY <1>t, <1>m, <2>1 DEF TypeOK, MainInv, Tokens
  <2>4. token' \in Tokens
    BY <2>1, <2>2, <2>3 DEF Tokens
  <2>5. QED
    BY <2>1, <2>2, <2>3, <2>4 DEF MainInv
<1>12. CASE OpenNamespace
  <2>1. mpc = "queued" /\ mpc' \in {"end", "tokenize"} /\ UNCHANGED <<left, prev, args>>
    BY <1>12 DEF OpenNamespace, NextToken
  <2>2. token' = (IF mpc' = "end" THEN token ELSE token + 1) /\ (mpc' = "tokenize" => left > 0)
    BY <1>12, <1>t DEF OpenNamespace, NextToken, TypeOK
  <2>3. token \in Nat /\ token >= 1 /\ left \in Nat /\ token + left <= MaxPieces
        /\ prev \in Slots /\ args[prev] = token
    BY <1>t, <1>m, <2>1 DEF TypeOK, MainInv, Tokens
  <2>4. token' \in Tokens
    BY <2>1, <2>2, <2>3 DEF Tokens
  <2>5. QED
    BY <2>1, <2>2, <2>3, <2>4 DEF MainInv
<1>13. CASE RawTag
    BY <1>13, <1>t, <1>m DEF MainInv, RawTag, TypeOK
<1>14. CASE RawWait
    BY <1>14, <1>t, <1>m DEF MainInv, RawWait, TypeOK
<1>15. CASE Resync
  <2>1. mpc = "resync" /\ mpc' \in {"end", "tokenize"} /\ UNCHANGED <<left, prev, args>>
    BY <1>15 DEF Resync, NextToken
  <2>2. token' = (IF mpc' = "end" THEN token ELSE token + 1) /\ (mpc' = "tokenize" => left > 0)
    BY <1>15, <1>t DEF Resync, NextToken, TypeOK
  <2>3. token \in Nat /\ token >= 1 /\ left \in Nat /\ token + left <= MaxPieces
        /\ prev \in Slots /\ args[prev] = token
    BY <1>t, <1>m, <2>1 DEF TypeOK, MainInv, Tokens
  <2>4. token' \in Tokens
    BY <2>1, <2>2, <2>3 DEF Tokens
  <2>5. QED
    BY <2>1, <2>2, <2>3, <2>4 DEF MainInv
<1>16. CASE End
    BY <1>16, <1>t, <1>m DEF MainInv, End, TypeOK
<1>17. CASE TreeClean
    BY <1>17, <1>t, <1>m DEF MainInv, TreeClean, TypeOK, NULL
<1>18. ASSUME UNCHANGED <<mainVars, queueVars>>, mpc = "new" => handled' = handled /\ last_done' = last_done PROVE MainInv'
    BY <1>18, <1>t, <1>m DEF MainInv
<1>19. CASE PassToken
    BY <1>18, <1>19, <1>a DEF PassToken
<1>20. CASE Dispatch
    BY <1>18, <1>20 DEF Dispatch
<1>21. CASE NeedDone
    BY <1>18, <1>21 DEF NeedDone
<1>22. CASE Reprocess
    BY <1>18, <1>22 DEF Reprocess
<1>23. CASE Inserted
    BY <1>18, <1>23, <1>a DEF Inserted
<1>24. CASE AdvanceStream
    BY <1>18, <1>24 DEF AdvanceStream
<1>25. ASSUME NEW k \in Threads, LoadUse(k) PROVE MainInv'
    BY <1>18, <1>25 DEF LoadUse
<1>26. ASSUME NEW k \in Threads, Compare(k) PROVE MainInv'
    BY <1>18, <1>26 DEF Compare
<1>27. ASSUME NEW k \in BatchThreads, Decode(k) PROVE MainInv'
    BY <1>18, <1>27 DEF Decode
<1>28. ASSUME NEW k \in BatchThreads, AdvanceBatch(k) PROVE MainInv'
    BY <1>18, <1>28 DEF AdvanceBatch
<1>29. CASE UNCHANGED vars
    BY <1>18, <1>29 DEF vars
<1>30. QED
    BY <1>1, <1>2, <1>3, <1>4, <1>5, <1>6, <1>7, <1>8, <1>9, <1>10, <1>11, <1>12, <1>13, <1>14, <1>15, <1>16, <1>17, <1>18, <1>19, <1>20, <1>21, <1>22, <1>23, <1>24, <1>25, <1>26, <1>27, <1>28, <1>29, <1>29
    DEF Next, Main, StreamThread, BatchThread, Finished, BatchThreads, Threads, Stream

\* Every step keeps the published slots in line with the tokens created.
LEMMA QueueStep == PipelineInv /\ [Next]_vars => QueueInv'
<1> SUFFICES ASSUME PipelineInv, [Next]_vars PROVE QueueInv'
    OBVIOUS
<1> USE DEF mainVars, queueVars, workVars
<1>t. TypeOK
    BY DEF PipelineInv
<1>m. MainInv
    BY DEF PipelineInv
<1>q. QueueInv
    BY DEF PipelineInv
<1>1. CASE Begin
    BY <1>1, <1>t, <1>m, <1>q DEF QueueInv, Begin, TypeOK, MainInv, Base, Published, Filling, Attached, Current, Slots
<1>2. CASE SkipToken
    BY <1>2, <1>t, <1>m, <1>q DEF QueueInv, SkipToken, TypeOK, MainInv, Base, Published, Filling, Attached, Current, Slots
<1>3. CASE CdataMarker
    BY <1>3, <1>t, <1>m, <1>q DEF QueueInv, CdataMarker, TypeOK, MainInv, Base, Published, Filling, Attached, Current, Slots
<1>4. CASE CdataWait
    BY <1>4, <1>t, <1>m, <1>q DEF QueueInv, CdataWait, TypeOK, MainInv, Base, Published, Filling, Attached, Current, Slots
<1>5. CASE SetArgs
    BY <1>5, <1>t, <1>m, <1>q DEF QueueInv, SetArgs, TypeOK, MainInv, Base, Published, Filling, Attached, Current, Slots
<1>6. CASE MallocRound
  <2>1. nodes_length \in Nat /\ nodes_length < Size /\ nodes_uses = nodes_length
    BY <1>6, <1>t, <1>q DEF MallocRound, TypeOK, QueueInv
  <2>2. Base \in Int /\ Base >= 0 /\ Base' = Base /\ Base + nodes_length + 1 = token
    BY <1>6, <1>t, <1>q, <2>1 DEF MallocRound, TypeOK, QueueInv, Base, Published, Filling
  <2>3. args[nodes_length] = token /\ Attached
    BY <1>6, <1>q DEF MallocRound, QueueInv, Current, Attached
  <2>4. \A s \in Slots : s < nodes_uses + 1 => args[s] = Base + s + 1
    BY <1>q, <2>1, <2>2, <2>3 DEF QueueInv, Slots
  <2>5. QED
    BY <1>6, <2>1, <2>2, <2>4 DEF MallocRound, QueueInv
<1>7. CASE WaitForDone
    BY <1>7, <1>t, <1>m, <1>q DEF QueueInv, WaitForDone, TypeOK, MainInv, Base, Published, Filling, Attached, Current, Slots
<1>8. CASE EntryClean
    BY <1>8, <1>t, <1>m, <1>q DEF QueueInv, EntryClean, TypeOK, MainInv, Base, Published, Filling, Attached, Current, Slots
<1>9. CASE MakeBatch
    BY <1>9, <1>t, <1>m, <1>q DEF QueueInv, MakeBatch, TypeOK, MainInv, Base, Published, Filling, Attached, Current, Slots
<1>10. CASE MakeStream
    BY <1>10, <1>t, <1>m, <1>q DEF QueueInv, MakeStream, TypeOK, MainInv, Base, Published, Filling, Attached, Current, Slots
<1>11. CASE PlainTag
  <2>1. mpc = "queued" /\ mpc' \in {"end", "tokenize"} /\ UNCHANGED queueVars
    BY <1>11 DEF PlainTag, NextToken
  <2>2. token' = IF mpc' = "end" THEN token ELSE token + 1
    BY <1>11 DEF PlainTag, NextToken
  <2>3. Base' = Base
    BY <1>t, <2>1, <2>2 DEF TypeOK, Base, Published, Filling
  <2>4. Attached /\ Attached'
    BY <2>1 DEF Attached
  <2>5. QED
    BY <1>q, <2>1, <2>3, <2>4 DEF QueueInv
<1>12. CASE OpenNamespace
  <2>1. mpc = "queued" /\ mpc' \in {"end", "tokenize"} /\ UNCHANGED queueVars
    BY <1>12 DEF OpenNamespace, NextToken
  <2>2. token' = IF mpc' = "end" THEN token ELSE token + 1
    BY <1>12 DEF OpenNamespace, NextToken
  <2>3. Base' = Base
    BY <1>t, <2>1, <2>2 DEF TypeOK, Base, Published, Filling
  <2>4. Attached /\ Attached'
    BY <2>1 DEF Attached
  <2>5. QED
    BY <1>q, <2>1, <2>3, <2>4 DEF QueueInv
<1>13. CASE RawTag
    BY <1>13, <1>t, <1>m, <1>q DEF QueueInv, RawTag, TypeOK, MainInv, Base, Published, Filling, Attached, Current, Slots
<1>14. CASE RawWait
    BY <1>14, <1>t, <1>m, <1>q DEF QueueInv, RawWait, TypeOK, MainInv, Base, Published, Filling, Attached, Current, Slots
<1>15. CASE Resync
  <2>1. mpc = "resync" /\ mpc' \in {"end", "tokenize"} /\ UNCHANGED queueVars
    BY <1>15 DEF Resync, NextToken
  <2>2. token' = IF mpc' = "end" THEN token ELSE token + 1
    BY <1>15 DEF Resync, NextToken
  <2>3. Base' = Base
    BY <1>t, <2>1, <2>2 DEF TypeOK, Base, Published, Filling
  <2>4. Attached /\ Attached'
    BY <2>1 DEF Attached
  <2>5. QED
    BY <1>q, <2>1, <2>3, <2>4 DEF QueueInv
<1>16. CASE End
    BY <1>16, <1>t, <1>m, <1>q DEF QueueInv, End, TypeOK, MainInv, Base, Published, Filling, Attached, Current, Slots
<1>17. CASE TreeClean
    BY <1>17, <1>t, <1>m, <1>q DEF QueueInv, TreeClean, TypeOK, MainInv, Base, Published, Filling, Attached, Current, Slots, NULL
<1>18. ASSUME UNCHANGED <<mainVars, queueVars>> PROVE QueueInv'
    BY <1>18, <1>t, <1>m, <1>q DEF QueueInv, Base, Published, Filling, Attached, Current
<1>19. CASE PassToken
    BY <1>18, <1>19 DEF PassToken
<1>20. CASE Dispatch
    BY <1>18, <1>20 DEF Dispatch
<1>21. CASE NeedDone
    BY <1>18, <1>21 DEF NeedDone
<1>22. CASE Reprocess
    BY <1>18, <1>22 DEF Reprocess
<1>23. CASE Inserted
    BY <1>18, <1>23 DEF Inserted
<1>24. CASE AdvanceStream
    BY <1>18, <1>24 DEF AdvanceStream
<1>25. ASSUME NEW k \in Threads, LoadUse(k) PROVE QueueInv'
    BY <1>18, <1>25 DEF LoadUse
<1>26. ASSUME NEW k \in Threads, Compare(k) PROVE QueueInv'
    BY <1>18, <1>26 DEF Compare
<1>27. ASSUME NEW k \in BatchThreads, Decode(k) PROVE QueueInv'
    BY <1>18, <1>27 DEF Decode
<1>28. ASSUME NEW k \in BatchThreads, AdvanceBatch(k) PROVE QueueInv'
    BY <1>18, <1>28 DEF AdvanceBatch
<1>29. CASE UNCHANGED vars
    BY <1>18, <1>29 DEF vars
<1>30. QED
    BY <1>1, <1>2, <1>3, <1>4, <1>5, <1>6, <1>7, <1>8, <1>9, <1>10, <1>11, <1>12, <1>13, <1>14, <1>15, <1>16, <1>17, <1>18, <1>19, <1>20, <1>21, <1>22, <1>23, <1>24, <1>25, <1>26, <1>27, <1>28, <1>29, <1>29
    DEF Next, Main, StreamThread, BatchThread, Finished, BatchThreads, Threads, Stream

\* Every step keeps the cursors behind the slots that are published.
LEMMA CursorStep == PipelineInv /\ [Next]_vars => CursorInv'
<1> SUFFICES ASSUME PipelineInv, [Next]_vars PROVE CursorInv'
    OBVIOUS
<1> USE DEF mainVars, queueVars, workVars
<1>t. TypeOK
    BY DEF PipelineInv
<1>m. MainInv
    BY DEF PipelineInv
<1>q. QueueInv
    BY DEF PipelineInv
<1>c. CursorInv
    BY DEF PipelineInv
<1>i. StreamInv
    BY DEF PipelineInv
<1>1. CASE Begin
    BY <1>1, <1>t, <1>m, <1>q, <1>c DEF CursorInv, Begin, TypeOK, QueueInv, MainInv, Attached, Stream, Threads
<1>2. CASE SkipToken
    BY <1>2, <1>t, <1>q, <1>c DEF CursorInv, SkipToken, TypeOK, QueueInv, Attached
<1>3. CASE CdataMarker
    BY <1>3, <1>t, <1>q, <1>c DEF CursorInv, CdataMarker, TypeOK, QueueInv, Attached
<1>4. CASE CdataWait
    BY <1>4, <1>t, <1>q, <1>c DEF CursorInv, CdataWait, TypeOK, QueueInv, Attached
<1>5. CASE SetArgs
    BY <1>5, <1>t, <1>q, <1>c DEF CursorInv, SetArgs, TypeOK, QueueInv, Attached
<1>6. CASE MallocRound
  <2>1. /\ nodes_uses \in Nat /\ nodes_uses' = nodes_uses + 1
        /\ wpc' = wpc /\ use' = use /\ reg' = reg /\ Attached /\ Attached'
    BY <1>6, <1>t DEF MallocRound, TypeOK, Attached
  <2>2. mpc' = "queued" \/ (mpc' = "wait" /\ wi' = 0)
    BY <1>6 DEF MallocRound
  <2>3. \A k \in Threads : use[k] \in Nat /\ k \in Nat
    BY <1>t DEF TypeOK, Threads
  <2>4. \A k \in Threads : wpc[k] \notin {"top", "compare"} => use[k] < nodes_uses + 1
    BY <1>c, <2>1, <2>3 DEF CursorInv
  <2>5. QED
    BY <1>c, <2>1, <2>2, <2>3, <2>4 DEF CursorInv
<1>7. CASE WaitForDone
  <2>1. UNCHANGED <<mpc, nodes_uses, use, wpc, reg>> /\ wi' = wi + 1 /\ mpc \in {"wait", "end"}
    BY <1>7 DEF WaitForDone
  <2>2. wi \in Threads /\ use[wi] >= nodes_uses
    BY <1>7 DEF WaitForDone
  <2>3. \A k \in Threads : k < wi + 1 => k < wi \/ k = wi
    BY <2>2 DEF Threads
  <2>4. Attached = Attached'
    BY <2>1 DEF Attached
  <2>5. QED
    BY <1>c, <2>1, <2>2, <2>3, <2>4 DEF CursorInv
<1>8. CASE EntryClean
    BY <1>8, <1>t, <1>m, <1>q, <1>c, SMTT(30) DEF CursorInv, EntryClean, TypeOK, QueueInv, MainInv, Attached, Stream, Threads
<1>9. CASE MakeBatch
  <2>1. mpc = "batch" /\ wi \in 1 .. Batch /\ wi \in Threads /\ nodes_uses = 0 /\ Attached /\ Attached'
    BY <1>9, <1>m, <1>q DEF MakeBatch, MainInv, QueueInv, Threads, Attached
  <2>2. \A k \in Threads : wpc[k] \in {"top", "compare"}
    BY <1>c, <1>t, <2>1 DEF CursorInv, TypeOK
  <2>3. /\ \A k \in Threads : use'[k] = IF k = wi THEN wi - 1 ELSE use[k]
        /\ UNCHANGED <<nodes_uses, wpc, reg>>
    BY <1>9, <1>t, <2>1 DEF MakeBatch, TypeOK
  <2>4. \/ mpc' = "stream" /\ wi' = 0
        \/ mpc' = "batch" /\ wi' = wi + 1
    BY <1>9 DEF MakeBatch
  <2>5. use'[1] = 0
    BY <1>c, <2>1, <2>3 DEF CursorInv, Threads
  <2>6. \A k \in Threads : mpc' = "batch" /\ k >= wi' => use'[k] >= Size
    BY <1>c, <2>1, <2>3, <2>4 DEF CursorInv, Threads
  <2>7. \A k \in Threads : wpc[k] = "compare" => reg[k] = use'[k] \/ reg[k] >= Size
    BY <1>c, <2>1, <2>3 DEF CursorInv, Threads
  <2>8. QED
    BY <2>1, <2>2, <2>3, <2>4, <2>5, <2>6, <2>7 DEF CursorInv
<1>10. CASE MakeStream
  <2>1. mpc = "stream" /\ wi \in {0, 1} /\ wi \in Threads /\ nodes_uses = 0 /\ Attached /\ Attached'
    BY <1>10, <1>m, <1>q DEF MakeStream, MainInv, QueueInv, Threads, Attached
  <2>2. \A k \in Threads : wpc[k] \in {"top", "compare"}
    BY <1>c, <1>t, <2>1 DEF CursorInv, TypeOK
  <2>3. /\ \A k \in Threads : use'[k] = IF k = wi THEN 0 ELSE use[k]
        /\ UNCHANGED <<nodes_uses, wpc, reg>>
    BY <1>10, <1>t, <2>1 DEF MakeStream, TypeOK
  <2>4. mpc' \in {"stream", "queued"}
    BY <1>10 DEF MakeStream
  <2>5. use[1] = 0 /\ use'[1] = 0 /\ (wi = 0 => use[0] >= Size)
    BY <1>c, <1>i, <2>1, <2>3 DEF CursorInv, StreamInv, StreamCursorStale, Threads, Stream
  <2>6. \A k \in Threads : wpc[k] = "compare" => reg[k] = use'[k] \/ reg[k] >= Size
    BY <1>c, <2>1, <2>3, <2>5 DEF CursorInv, Threads
  <2>7. QED
    BY <2>1, <2>2, <2>3, <2>4, <2>5, <2>6 DEF CursorInv
<1>11. CASE PlainTag
    BY <1>11, <1>t, <1>q, <1>c DEF CursorInv, PlainTag, TypeOK, QueueInv, Attached, NextToken, Threads
<1>12. CASE OpenNamespace
    BY <1>12, <1>t, <1>q, <1>c DEF CursorInv, OpenNamespace, TypeOK, QueueInv, Attached, NextToken, Threads
<1>13. CASE RawTag
    BY <1>13, <1>t, <1>q, <1>c DEF CursorInv, RawTag, TypeOK, QueueInv, Attached
<1>14. CASE RawWait
    BY <1>14, <1>t, <1>q, <1>c DEF CursorInv, RawWait, TypeOK, QueueInv, Attached
<1>15. CASE Resync
    BY <1>15, <1>t, <1>q, <1>c, SMTT(30) DEF CursorInv, Resync, TypeOK, QueueInv, Attached, NextToken, Threads
<1>16. CASE End
    BY <1>16, <1>t, <1>m, <1>q, <1>c DEF CursorInv, End, TypeOK, QueueInv, MainInv, Attached, Stream, Threads
<1>17. CASE TreeClean
    BY <1>17, <1>t, <1>q, <1>c DEF CursorInv, TreeClean, TypeOK, QueueInv, Attached
<1>18. CASE PassToken
    BY <1>18, <1>t, <1>q, <1>c DEF CursorInv, PassToken, TypeOK, QueueInv, Attached, Stream, Threads
<1>19. CASE Dispatch
    BY <1>19, <1>t, <1>q, <1>c DEF CursorInv, Dispatch, TypeOK, QueueInv, Attached, Stream, Threads
<1>20. CASE NeedDone
    BY <1>20, <1>t, <1>q, <1>c DEF CursorInv, NeedDone, TypeOK, QueueInv, Attached, Stream, Threads
<1>21. CASE Reprocess
    BY <1>21, <1>t, <1>q, <1>c DEF CursorInv, Reprocess, TypeOK, QueueInv, Attached, Stream, Threads
<1>22. CASE Inserted
    BY <1>22, <1>t, <1>q, <1>c DEF CursorInv, Inserted, TypeOK, QueueInv, Attached, Stream, Threads
<1>23. CASE AdvanceStream
    BY <1>23, <1>t, <1>q, <1>c DEF CursorInv, AdvanceStream, TypeOK, QueueInv, Attached, Stream, Threads
<1>24. ASSUME NEW k \in Threads, LoadUse(k) PROVE CursorInv'
    BY <1>24, <1>t, <1>q, <1>c DEF CursorInv, LoadUse, TypeOK, QueueInv, Attached
<1>25. ASSUME NEW k \in Threads, Compare(k) PROVE CursorInv'
    BY <1>25, <1>t, <1>q, <1>c DEF CursorInv, Compare, TypeOK, QueueInv, Attached
<1>26. ASSUME NEW k \in BatchThreads, Decode(k) PROVE CursorInv'
    BY <1>26, <1>t, <1>q, <1>c DEF CursorInv, Decode, TypeOK, QueueInv, Attached, BatchThreads, Threads
<1>27. ASSUME NEW k \in BatchThreads, AdvanceBatch(k) PROVE CursorInv'
  <2>1. k \in Threads /\ wpc[k] = "advance"
    BY <1>27 DEF AdvanceBatch, BatchThreads, Threads
  <2>2. use[k] < nodes_uses /\ use[k] \in Nat /\ use[k] + Batch >= use[k]
    BY <1>t, <1>c, <2>1 DEF TypeOK, CursorInv
  <2>3. /\ \A j \in Threads : use'[j] = IF j = k THEN use[k] + Batch ELSE use[j]
        /\ \A j \in Threads : wpc'[j] = IF j = k THEN "top" ELSE wpc[j]
        /\ UNCHANGED <<mpc, wi, nodes_uses, reg>>
    BY <1>27, <1>t, <2>1 DEF AdvanceBatch, TypeOK
  <2>4. Attached = Attached'
    BY <2>3 DEF Attached
  <2>5. mpc \notin {"batch", "stream"}
    BY <1>q, <2>2 DEF QueueInv
  <2>6. \A j \in Threads : mpc \in {"wait", "end"} /\ j < wi => use[j] >= nodes_uses
    BY <1>c DEF CursorInv
  <2>7. mpc \in {"wait", "end"} => ~(k < wi)
    BY <1>t, <2>1, <2>2, <2>6 DEF TypeOK
  <2>8. QED
    BY <1>c, <2>1, <2>3, <2>4, <2>5, <2>6, <2>7 DEF CursorInv
<1>28. CASE UNCHANGED vars
    BY <1>28, <1>c DEF CursorInv, vars, Attached
<1>29. QED
    BY <1>1, <1>2, <1>3, <1>4, <1>5, <1>6, <1>7, <1>8, <1>9, <1>10, <1>11, <1>12, <1>13, <1>14, <1>15, <1>16, <1>17, <1>18, <1>19, <1>20, <1>21, <1>22, <1>23, <1>24, <1>25, <1>26, <1>27, <1>28
    DEF Next, Main, StreamThread, BatchThread, Finished, BatchThreads, Threads, Stream

\* Every step keeps the builder's history in line with its cursor.
LEMMA StreamStep == PipelineInv /\ [Next]_vars => StreamInv'
<1> SUFFICES ASSUME PipelineInv, [Next]_vars PROVE StreamInv'
    OBVIOUS
<1> USE DEF mainVars, queueVars, workVars
<1>t. TypeOK
    BY DEF PipelineInv
<1>m. MainInv
    BY DEF PipelineInv
<1>q. QueueInv
    BY DEF PipelineInv
<1>c. CursorInv
    BY DEF PipelineInv
<1>i. StreamInv
    BY DEF PipelineInv
<1>b. Base \in Int /\ Published \in Int /\ Published = Base + nodes_uses /\ nodes_uses \in Nat
    BY <1>t, <1>q DEF TypeOK, QueueInv, Base, Published
<1>z. 0 \in Threads /\ Stream = 0 /\ Stream \in Threads
    BY DEF Threads, Stream
<1>l. Len(handled) \in Nat /\ use[Stream] \in Nat
    BY <1>t, <1>z DEF TypeOK
<1>w. wpc[Stream] \notin {"top", "compare"} =>
        /\ use[Stream] < nodes_uses /\ Attached /\ ~StreamCursorStale
        /\ args[use[Stream]] = Base + use[Stream] + 1
        /\ args[use[Stream]] <= Published
    BY <1>q, <1>z, <1>l, SlotToken DEF QueueInv, StreamCursorStale
<1>1. CASE Begin
  <2>1. token = 0 /\ nodes_length = 0 /\ nodes_uses = 0 /\ handled = << >> /\ last_done = NULL
    BY <1>1, <1>m, <1>q DEF Begin, MainInv, QueueInv
  <2>2. Len(handled') = 0 /\ Base' = 0 /\ Published' = 0 /\ ~StreamCursorStale'
    BY <1>1, <2>1 DEF Begin, Base, Published, Filling, StreamCursorStale
  <2>3. use'[Stream] = 0 /\ wpc'[Stream] = "top"
    BY <1>1, <1>z DEF Begin
  <2>4. last_done' = 0 /\ nodes_uses' = 0 /\ mpc' = "tokenize"
    BY <1>1, <2>1 DEF Begin, NULL
  <2>5. QED
    BY <2>2, <2>3, <2>4 DEF StreamInv, NULL
<1>2. CASE SkipToken
    BY <1>2, <1>i DEF StreamInv, SkipToken, StreamCursorStale, Base, Published, Filling
<1>3. CASE CdataMarker
    BY <1>3, <1>i DEF StreamInv, CdataMarker, StreamCursorStale, Base, Published, Filling
<1>4. CASE CdataWait
  <2>1. prev \in Slots /\ args[prev] = token - 1 /\ token \in Nat /\ token >= 1
    BY <1>4, <1>t, <1>m DEF CdataWait, MainInv, TypeOK, Slots, NoSlot, Tokens
  <2>2. token # 1
    BY <1>4, <1>m, <2>1 DEF CdataWait, MainInv, Slots, NoSlot
  <2>3. last_done = token - 1 /\ last_done # NULL /\ Published = token - 1
    BY <1>4, <2>1, <2>2 DEF CdataWait, Published, Filling, NULL
  <2>4. Len(handled) = Published
    BY <1>i, <2>3 DEF StreamInv
  <2>5. Base' = Base /\ Published' = Published /\ ~StreamCursorStale /\ ~StreamCursorStale'
    BY <1>4 DEF CdataWait, Base, Published, Filling, StreamCursorStale
  <2>6. QED
    BY <1>4, <1>i, <2>4, <2>5 DEF CdataWait, StreamInv
<1>5. CASE SetArgs
    BY <1>5, <1>i DEF StreamInv, SetArgs, StreamCursorStale, Base, Published, Filling
<1>6. CASE MallocRound
  <2>1. Base' = Base /\ nodes_uses' = nodes_uses + 1
    BY <1>6, <1>t DEF MallocRound, TypeOK, Base, Published, Filling
  <2>2. mpc = "malloc" /\ mpc' \in {"wait", "queued"} /\ UNCHANGED <<build, handled, last_done, use, wpc>>
    BY <1>6 DEF MallocRound
  <2>3. QED
    BY <1>i, <1>b, <1>l, <2>1, <2>2 DEF StreamInv, StreamCursorStale
<1>7. CASE WaitForDone
    BY <1>7, <1>i DEF StreamInv, WaitForDone, StreamCursorStale, Base, Published, Filling
<1>8. CASE EntryClean
  <2>1. wi > Stream /\ wi = Batch + 1 /\ mpc = "wait" /\ nodes_uses = Size
    BY <1>8, <1>q, <1>z DEF EntryClean, QueueInv
  <2>2. use[Stream] >= nodes_uses
    BY <1>c, <1>z, <2>1 DEF CursorInv
  <2>3. wpc[Stream] # "advance"
    BY <1>b, <1>l, <1>w, <2>2
  <2>4. Len(handled) = Published
    BY <1>b, <1>l, <1>i, <2>1, <2>2, <2>3 DEF StreamInv, StreamCursorStale
  <2>5. Base' = Published /\ StreamCursorStale' /\ mpc' = "batch"
    BY <1>8, <1>t DEF EntryClean, TypeOK, Base, Published, Filling, StreamCursorStale
  <2>6. QED
    BY <1>8, <1>i, <2>1, <2>2, <2>4, <2>5 DEF EntryClean, StreamInv
<1>9. CASE MakeBatch
  <2>1. wi # Stream /\ StreamCursorStale /\ StreamCursorStale' /\ mpc' \in {"batch", "stream"}
    BY <1>9, <1>m, <1>z DEF MakeBatch, MainInv, StreamCursorStale
  <2>2. use'[Stream] = use[Stream] /\ Base' = Base
    BY <1>9, <1>t, <1>z, <2>1 DEF MakeBatch, TypeOK, Base, Published, Filling
  <2>3. QED
    BY <1>9, <1>i, <2>1, <2>2 DEF MakeBatch, StreamInv
<1>10. CASE MakeStream
  <2>1. wi \in {0, 1} /\ wi \in Threads /\ nodes_uses = 0 /\ mpc = "stream" /\ mpc' \in {"stream", "queued"}
    BY <1>10, <1>m, <1>q DEF MakeStream, MainInv, QueueInv, Threads
  <2>2. Base' = Base
    BY <1>10 DEF MakeStream, Base, Published, Filling
  <2>3. wpc[Stream] \in {"top", "compare"}
    BY <1>t, <1>l, <1>w, <1>z, <2>1 DEF TypeOK
  <2>4. use'[Stream] = IF wi = 0 THEN 0 ELSE use[Stream]
    BY <1>10, <1>t, <1>z, <2>1 DEF MakeStream, TypeOK
  <2>5. ~StreamCursorStale'
    BY <1>10, <2>1 DEF MakeStream, StreamCursorStale
  <2>6. Len(handled) = Base + use'[Stream] /\ use'[Stream] <= nodes_uses
    BY <1>i, <1>b, <1>l, <2>1, <2>3, <2>4 DEF StreamInv, StreamCursorStale
  <2>7. QED
    BY <1>10, <1>i, <2>1, <2>2, <2>3, <2>5, <2>6 DEF MakeStream, StreamInv
<1>11. CASE PlainTag
  <2>1. mpc = "queued" /\ mpc' \in {"end", "tokenize"} /\ UNCHANGED <<build, queueVars, workVars>>
    BY <1>11 DEF PlainTag, NextToken
  <2>2. token' = IF mpc' = "end" THEN token ELSE token + 1
    BY <1>11 DEF PlainTag, NextToken
  <2>3. Base' = Base /\ ~StreamCursorStale /\ ~StreamCursorStale'
    BY <1>t, <2>1, <2>2 DEF TypeOK, Base, Published, Filling, StreamCursorStale
  <2>4. QED
    BY <1>i, <2>1, <2>3 DEF StreamInv
<1>12. CASE OpenNamespace
  <2>1. mpc = "queued" /\ mpc' \in {"end", "tokenize"} /\ UNCHANGED <<build, queueVars, workVars>>
    BY <1>12 DEF OpenNamespace, NextToken
  <2>2. token' = IF mpc' = "end" THEN token ELSE token + 1
    BY <1>12 DEF OpenNamespace, NextToken
  <2>3. Base' = Base /\ ~StreamCursorStale /\ ~StreamCursorStale'
    BY <1>t, <2>1, <2>2 DEF TypeOK, Base, Published, Filling, StreamCursorStale
  <2>4. QED
    BY <1>i, <2>1, <2>3 DEF StreamInv
<1>13. CASE RawTag
    BY <1>13, <1>i DEF StreamInv, RawTag, StreamCursorStale, Base, Published, Filling
<1>14. CASE RawWait
  <2>1. token \in Nat /\ token >= 1
    BY <1>14, <1>t, <1>m DEF RawWait, MainInv, TypeOK, Tokens
  <2>2. build /\ Len(handled) = Published
    BY <1>14, <1>i, <2>1 DEF RawWait, StreamInv, Published, Filling, NULL
  <2>3. Base' = Base /\ Published' = Published /\ ~StreamCursorStale /\ ~StreamCursorStale'
    BY <1>14 DEF RawWait, Base, Published, Filling, StreamCursorStale
  <2>4. QED
    BY <1>14, <1>i, <2>2, <2>3 DEF RawWait, StreamInv
<1>15. CASE Resync
  <2>1. mpc = "resync" /\ mpc' \in {"end", "tokenize"} /\ UNCHANGED <<build, queueVars, workVars>>
    BY <1>15 DEF Resync, NextToken
  <2>2. token' = IF mpc' = "end" THEN token ELSE token + 1
    BY <1>15 DEF Resync, NextToken
  <2>3. Base' = Base /\ ~StreamCursorStale /\ ~StreamCursorStale'
    BY <1>t, <2>1, <2>2 DEF TypeOK, Base, Published, Filling, StreamCursorStale
  <2>4. QED
    BY <1>i, <2>1, <2>3 DEF StreamInv
<1>16. CASE End
  <2>1. wi > Stream /\ mpc = "end" /\ mpc' = "ended" /\ wpc[Stream] = "top"
    BY <1>16, <1>z DEF End
  <2>2. use[Stream] >= nodes_uses
    BY <1>c, <1>z, <2>1 DEF CursorInv
  <2>3. Base' = Base /\ Published = token /\ ~StreamCursorStale /\ ~StreamCursorStale'
    BY <1>16, <2>1 DEF End, Base, Published, Filling, StreamCursorStale
  <2>4. Len(handled) = token
    BY <1>b, <1>l, <1>i, <2>1, <2>2, <2>3 DEF StreamInv
  <2>5. QED
    BY <1>16, <1>i, <2>1, <2>3, <2>4 DEF End, StreamInv
<1>17. CASE TreeClean
  <2>1. Len(handled') = 0 /\ ~StreamCursorStale' /\ last_done' = 0 /\ mpc' = "new" /\ wpc' = wpc /\ build' = build
    BY <1>17 DEF TreeClean, StreamCursorStale, NULL
  <2>2. QED
    BY <1>i, <2>1 DEF StreamInv, NULL
<1>18. CASE PassToken
  <2>1. /\ wpc[Stream] \in {"work", "insert"}
        /\ handled' = Append(handled, args[use[Stream]])
        /\ wpc'[Stream] = "advance" /\ UNCHANGED <<mainVars, queueVars, use>>
    BY <1>18, <1>t, <1>z DEF PassToken, TypeOK
  <2>2. /\ Base' = Base /\ Published' = Published /\ ~StreamCursorStale /\ ~StreamCursorStale'
        /\ Attached
    BY <1>w, <2>1 DEF Base, Published, Filling, StreamCursorStale
  <2>3. Len(handled) = Base + use[Stream]
    BY <1>i, <1>b, <1>l, <2>1, <2>2 DEF StreamInv, Attached
  <2>4. args[use[Stream]] = Len(handled) + 1 /\ Len(handled) < Published
    BY <1>b, <1>l, <1>w, <2>1, <2>3
  <2>5. /\ Len(handled') = Len(handled) + 1
        /\ \A i \in 1 .. Len(handled') : handled'[i] = i
    BY <1>i, <1>t, <2>1, <2>4 DEF StreamInv, TypeOK
  <2>6. mpc \notin {"new", "ended", "look", "resync"}
    BY <1>i, <1>l, <1>b, <2>2, <2>4 DEF StreamInv, Attached
  <2>7. last_done' = IF build THEN Len(handled') ELSE NULL
    BY <1>18, <1>i, <2>4, <2>5 DEF PassToken, StreamInv
  <2>8. QED
    BY <1>i, <1>l, <1>b, <2>1, <2>2, <2>3, <2>5, <2>6, <2>7 DEF StreamInv
<1>19. CASE Dispatch
  <2>1. /\ UNCHANGED <<mainVars, queueVars, handled, last_done, use>>
        /\ wpc[Stream] # "advance" /\ wpc'[Stream] # "advance" /\ build
    BY <1>19, <1>t, <1>z, <1>i DEF Dispatch, TypeOK, StreamInv
  <2>2. QED
    BY <1>i, <2>1 DEF StreamInv, StreamCursorStale, Base, Published, Filling
<1>20. CASE NeedDone
  <2>1. /\ UNCHANGED <<mainVars, queueVars, handled, last_done, use>>
        /\ wpc[Stream] # "advance" /\ wpc'[Stream] # "advance" /\ build
    BY <1>20, <1>t, <1>z, <1>i DEF NeedDone, TypeOK, StreamInv
  <2>2. QED
    BY <1>i, <2>1 DEF StreamInv, StreamCursorStale, Base, Published, Filling
<1>21. CASE Reprocess
  <2>1. /\ UNCHANGED <<mainVars, queueVars, handled, last_done, use>>
        /\ wpc[Stream] # "advance" /\ wpc'[Stream] # "advance" /\ build
    BY <1>21, <1>t, <1>z, <1>i DEF Reprocess, TypeOK, StreamInv
  <2>2. QED
    BY <1>i, <2>1 DEF StreamInv, StreamCursorStale, Base, Published, Filling
<1>22. CASE Inserted
  <2>1. /\ wpc[Stream] \in {"work", "insert"}
        /\ handled' = Append(handled, args[use[Stream]])
        /\ wpc'[Stream] = "advance" /\ UNCHANGED <<mainVars, queueVars, use>>
    BY <1>22, <1>t, <1>z DEF Inserted, TypeOK
  <2>2. /\ Base' = Base /\ Published' = Published /\ ~StreamCursorStale /\ ~StreamCursorStale'
        /\ Attached
    BY <1>w, <2>1 DEF Base, Published, Filling, StreamCursorStale
  <2>3. Len(handled) = Base + use[Stream]
    BY <1>i, <1>b, <1>l, <2>1, <2>2 DEF StreamInv, Attached
  <2>4. args[use[Stream]] = Len(handled) + 1 /\ Len(handled) < Published
    BY <1>b, <1>l, <1>w, <2>1, <2>3
  <2>5. /\ Len(handled') = Len(handled) + 1
        /\ \A i \in 1 .. Len(handled') : handled'[i] = i
    BY <1>i, <1>t, <2>1, <2>4 DEF StreamInv, TypeOK
  <2>6. mpc \notin {"new", "ended", "look", "resync"}
    BY <1>i, <1>l, <1>b, <2>2, <2>4 DEF StreamInv, Attached
  <2>7. last_done' = IF build THEN Len(handled') ELSE NULL
    BY <1>22, <1>i, <2>4, <2>5 DEF Inserted, StreamInv
  <2>8. QED
    BY <1>i, <1>l, <1>b, <2>1, <2>2, <2>3, <2>5, <2>6, <2>7 DEF StreamInv
<1>23. CASE AdvanceStream
  <2>1. /\ UNCHANGED <<mainVars, queueVars, handled, last_done>>
        /\ wpc[Stream] = "advance" /\ wpc'[Stream] = "top" /\ use'[Stream] = use[Stream] + 1
    BY <1>23, <1>t, <1>z DEF AdvanceStream, TypeOK
  <2>2. use[Stream] < nodes_uses /\ ~StreamCursorStale /\ Attached
    BY <1>w, <2>1
  <2>3. Base' = Base /\ Published' = Published /\ ~StreamCursorStale'
    BY <2>1, <2>2 DEF StreamCursorStale, Base, Published, Filling
  <2>4. QED
    BY <1>i, <1>l, <1>b, <2>1, <2>2, <2>3 DEF StreamInv, Attached
<1>24. ASSUME NEW k \in Threads, LoadUse(k) PROVE StreamInv'
  <2>1. /\ UNCHANGED <<mainVars, queueVars, handled, last_done>>
        /\ use'[Stream] = use[Stream]
        /\ (wpc[Stream] = "advance") = (wpc'[Stream] = "advance")
        /\ wpc'[Stream] \in {"need", "insert"} => wpc'[Stream] = wpc[Stream]
    BY <1>24, <1>t, <1>z DEF LoadUse, TypeOK, Threads
  <2>2. QED
    BY <1>i, <2>1 DEF StreamInv, StreamCursorStale, Base, Published, Filling
<1>25. ASSUME NEW k \in Threads, Compare(k) PROVE StreamInv'
  <2>1. /\ UNCHANGED <<mainVars, queueVars, handled, last_done>>
        /\ use'[Stream] = use[Stream]
        /\ (wpc[Stream] = "advance") = (wpc'[Stream] = "advance")
        /\ wpc'[Stream] \in {"need", "insert"} => wpc'[Stream] = wpc[Stream]
    BY <1>25, <1>t, <1>z DEF Compare, TypeOK, Threads
  <2>2. QED
    BY <1>i, <2>1 DEF StreamInv, StreamCursorStale, Base, Published, Filling
<1>26. ASSUME NEW k \in BatchThreads, Decode(k) PROVE StreamInv'
  <2>1. /\ UNCHANGED <<mainVars, queueVars, handled, last_done>>
        /\ use'[Stream] = use[Stream]
        /\ (wpc[Stream] = "advance") = (wpc'[Stream] = "advance")
        /\ wpc'[Stream] \in {"need", "insert"} => wpc'[Stream] = wpc[Stream]
    BY <1>26, <1>t, <1>z DEF Decode, TypeOK, BatchThreads
  <2>2. QED
    BY <1>i, <2>1 DEF StreamInv, StreamCursorStale, Base, Published, Filling
<1>27. ASSUME NEW k \in BatchThreads, AdvanceBatch(k) PROVE StreamInv'
  <2>1. /\ UNCHANGED <<mainVars, queueVars, handled, last_done>>
        /\ use'[Stream] = use[Stream]
        /\ (wpc[Stream] = "advance") = (wpc'[Stream] = "advance")
        /\ wpc'[Stream] \in {"need", "insert"} => wpc'[Stream] = wpc[Stream]
    BY <1>27, <1>t, <1>z DEF AdvanceBatch, TypeOK, BatchThreads
  <2>2. QED
    BY <1>i, <2>1 DEF StreamInv, StreamCursorStale, Base, Published, Filling
<1>28. CASE UNCHANGED vars
    BY <1>28, <1>i DEF StreamInv, vars, StreamCursorStale, Base, Published, Filling
<1>29. QED
    BY <1>1, <1>2, <1>3, <1>4, <1>5, <1>6, <1>7, <1>8, <1>9, <1>10, <1>11, <1>12, <1>13, <1>14, <1>15, <1>16, <1>17, <1>18, <1>19, <1>20, <1>21, <1>22, <1>23, <1>24, <1>25, <1>26, <1>27, <1>28
    DEF Next, Main, StreamThread, BatchThread, Finished, BatchThreads, Threads, Stream

\* The inductive invariant holds initially.
LEMMA InitInv == Init => PipelineInv
<1> SUFFICES ASSUME Init PROVE PipelineInv
    OBVIOUS
<1>1. TypeOK
  <2>1. handled \in Seq(Tokens) /\ decoded \in [Tokens -> Nat]
    BY DEF Init
  <2>2. prev \in NoSlot .. Size - 1 /\ last_done \in 0 .. MaxPieces /\ args \in [Slots -> 0 .. MaxPieces]
    BY DEF Init, NoSlot, NULL
  <2>3. use \in [Threads -> Nat] /\ reg \in [Threads -> Nat]
    BY DEF Init
  <2>4. /\ parses \in 0 .. MaxParses /\ left \in 0 .. MaxPieces /\ wi \in 0 .. Batch + 1
        /\ token \in 0 .. MaxPieces /\ nodes_length \in 0 .. Size /\ nodes_uses \in 0 .. Size
    BY DEF Init, NULL
  <2>5. wpc \in [Threads -> {"top", "compare", "work", "need", "insert", "advance"}]
    BY DEF Init
  <2>6. QED
    BY <2>1, <2>2, <2>3, <2>4, <2>5 DEF Init, TypeOK
<1>2. MainInv
    BY DEF Init, MainInv, NULL
<1>3. QueueInv
    BY DEF Init, QueueInv, Base, Published, Filling, Attached, NULL
<1>4. CursorInv
    BY DEF Init, CursorInv, Attached
<1>5. StreamInv
    BY DEF Init, StreamInv, StreamCursorStale, Stream, Threads, NULL
<1>6. QED
    BY <1>1, <1>2, <1>3, <1>4, <1>5 DEF PipelineInv

\* The inductive invariant holds in every reachable state.
THEOREM Invariance == Spec => []PipelineInv
<1>1. PipelineInv /\ [Next]_vars => PipelineInv'
    BY TypeStep, MainStep, QueueStep, CursorStep, StreamStep DEF PipelineInv
<1>2. QED
    BY InitInv, <1>1, PTL DEF Spec

\* Type correctness.
THEOREM TypeCorrect == Spec => []TypeOK
<1>1. PipelineInv => TypeOK
    BY DEF PipelineInv
<1>2. QED
    BY Invariance, <1>1, PTL

\* No thread looks into a slot that is not published or is being filled:
\* resetting and refilling the round needs no lock.
THEOREM SlotSafety == Spec => []SlotStable
<1>1. PipelineInv => SlotStable
  <2> SUFFICES ASSUME PipelineInv, NEW k \in Threads, AtWork(k)
               PROVE  /\ use[k] < nodes_uses
                      /\ mpc \in {"tokenize", "look"} => use[k] # Current
    BY DEF SlotStable
  <2>1. use[k] < nodes_uses
    BY SlotToken DEF AtWork
  <2>2. use[k] \in Nat /\ nodes_uses \in Nat /\ nodes_uses = nodes_length
    BY DEF PipelineInv, TypeOK, QueueInv
  <2>3. QED
    BY <2>1, <2>2 DEF Current
<1>2. QED
    BY Invariance, <1>1, PTL

\* Tokens are built in the order of the document, none skipped, none twice.
THEOREM BuildOrder == Spec => []BuiltInOrder
<1>1. PipelineInv => BuiltInOrder
    BY DEF PipelineInv, StreamInv, BuiltInOrder
<1>2. QED
    BY Invariance, <1>1, PTL

\* The tokenizer reads the state of the builder and its current node only
\* while the builder is idle and up to date.
THEOREM BuilderQuiet == Spec => []BuilderQuietWhenRead
<1>1. PipelineInv => BuilderQuietWhenRead
  <2> SUFFICES ASSUME PipelineInv, mpc \in {"look", "resync"}
               PROVE  /\ ~AtWork(Stream)
                      /\ Len(handled) = IF mpc = "look" THEN token - 1 ELSE token
    BY DEF BuilderQuietWhenRead
  <2>1. Len(handled) = Published /\ ~StreamCursorStale
    BY DEF PipelineInv, StreamInv, StreamCursorStale
  <2>2. Published = IF mpc = "look" THEN token - 1 ELSE token
    BY DEF Published, Filling
  <2>3. ~AtWork(Stream)
    <3>1. SUFFICES ASSUME AtWork(Stream) PROVE FALSE
      OBVIOUS
    <3>2. Stream \in Threads /\ wpc[Stream] # "advance"
      BY <3>1 DEF Stream, Threads, AtWork
    <3>3. Base + use[Stream] + 1 <= Published
      BY <3>1, <3>2, SlotToken DEF AtWork
    <3>4. Len(handled) = Base + use[Stream]
      BY <2>1, <3>2 DEF PipelineInv, StreamInv, TypeOK, Base, Published
    <3>5. Base \in Int /\ use[Stream] \in Nat
      BY <3>2 DEF PipelineInv, TypeOK, Base, Published
    <3>6. QED
      BY <2>1, <3>3, <3>4, <3>5
  <2>4. QED
    BY <2>1, <2>2, <2>3
<1>2. QED
    BY Invariance, <1>1, PTL
-----------------------------------------------------------------------------
(***************************************************************************)
(* The batch threads: they share the slots of a round among them, each     *)
(* slot is for one of them, and all are decoded when a document ends.      *)
(***************************************************************************)

\* Division by the number of batch threads.
LEMMA DivMod ==
    ASSUME NEW a \in Nat
    PROVE  /\ a = Batch * (a \div Batch) + (a % Batch)
           /\ a \div Batch \in Nat /\ a % Batch \in 0 .. Batch - 1
    OBVIOUS

\* Quotient and rest are unique.
LEMMA DivUnique ==
    ASSUME NEW q \in Int, NEW p \in Int, NEW r \in 0 .. Batch - 1, NEW s \in 0 .. Batch - 1,
           Batch * q + r = Batch * p + s
    PROVE  q = p /\ r = s
    OBVIOUS

\* Every slot has an owner, and a cursor that moves on by Batch keeps its owner.
LEMMA OwnerRange == ASSUME NEW a \in Nat PROVE Owner(a) \in BatchThreads
    BY DivMod DEF Owner, BatchThreads

\* Each batch thread begins on a slot of its own.
LEMMA OwnerFirst == ASSUME NEW k \in BatchThreads PROVE k - 1 \in Nat /\ Owner(k - 1) = k
    BY DEF Owner, BatchThreads

\* Moving on by the number of batch threads leads to a slot of the same thread.
LEMMA OwnerNext == ASSUME NEW a \in Nat PROVE Owner(a + Batch) = Owner(a)
<1> DEFINE q == a \div Batch  r == a % Batch
           p == (a + Batch) \div Batch  s == (a + Batch) % Batch
<1>1. a = Batch * q + r /\ q \in Nat /\ r \in 0 .. Batch - 1
    BY DivMod
<1>2. a + Batch = Batch * p + s /\ p \in Nat /\ s \in 0 .. Batch - 1
    BY DivMod
<1> HIDE DEF q, r, p, s
<1>3. Batch * (q + 1) + r = Batch * p + s
    BY <1>1, <1>2
<1>4. r = s
    BY <1>1, <1>2, <1>3, DivUnique
<1>5. QED
    BY <1>4 DEF r, s, Owner

\* Two slots of one owner are Batch apart at least: none is stepped over.
LEMMA OwnerApart ==
    ASSUME NEW a \in Nat, NEW b \in Nat, Owner(a) = Owner(b), a < b
    PROVE  a + Batch <= b
<1> DEFINE q == a \div Batch  r == a % Batch  p == b \div Batch
<1>1. a = Batch * q + r /\ q \in Nat /\ r \in 0 .. Batch - 1
    BY DivMod
<1>2. b = Batch * p + r /\ p \in Nat
  <2>1. b = Batch * p + (b % Batch) /\ p \in Nat /\ b % Batch \in Int /\ r \in Int
    BY DivMod, <1>1
  <2>2. QED
    BY <2>1 DEF Owner
<1> HIDE DEF q, r, p
<1>3. q < p
    BY <1>1, <1>2
<1>4. PICK d \in Nat : p = q + 1 + d
  <2>1. p = q + 1 + (p - q - 1) /\ p - q - 1 \in Nat
    BY <1>1, <1>2, <1>3
  <2>2. QED
    BY <2>1
<1>5. Batch * p = Batch * q + Batch + Batch * d /\ Batch * d \in Nat /\ Batch * q \in Nat
    BY <1>1, <1>4
<1>6. QED
    BY <1>1, <1>2, <1>5
\* Every step keeps what is decoded in line with the cursors of the batch
\* threads.
LEMMA DecodeStep == DecodingInv /\ [Next]_vars => DecodeInv'
<1> SUFFICES ASSUME DecodingInv, [Next]_vars PROVE DecodeInv'
    OBVIOUS
<1> USE DEF mainVars, queueVars, workVars
<1>p. PipelineInv
    BY DEF DecodingInv
<1>t. TypeOK
    BY <1>p DEF PipelineInv
<1>m. MainInv
    BY <1>p DEF PipelineInv
<1>q. QueueInv
    BY <1>p DEF PipelineInv
<1>c. CursorInv
    BY <1>p DEF PipelineInv
<1>d. DecodeInv
    BY DEF DecodingInv
<1>b. /\ Base \in Nat /\ Published \in Int /\ Published = Base + nodes_uses
      /\ nodes_uses \in Nat /\ nodes_uses <= Size
    BY <1>t, <1>q DEF TypeOK, QueueInv, Base, Published
<1>o. /\ \A s \in Slots : s \in Nat /\ Owner(s) \in BatchThreads
      /\ \A k \in BatchThreads : k \in Threads /\ k # Stream /\ use[k] \in Nat
      /\ BatchThreads \subseteq Threads /\ Stream \in Threads
  <2>1. \A s \in Slots : s \in Nat
    BY DEF Slots
  <2>2. \A s \in Slots : Owner(s) \in BatchThreads
    BY <2>1, OwnerRange
  <2>3. QED
    BY <2>1, <2>2, <1>t DEF BatchThreads, Threads, Stream, TypeOK
\* Steps that leave cursors, tokens and decoding alone.
<1>u. ASSUME UNCHANGED <<nodes_uses, use, done, decoded, token>>, Base' = Base,
             Published' = Published, Attached' => Attached,
             mpc' = "batch" => mpc = "batch" /\ wi' = wi, mpc = "batch" => mpc' = "batch",
             mpc' = "ended" => mpc = "ended",
             \A k \in BatchThreads : (wpc'[k] = "advance") <=> (wpc[k] = "advance")
      PROVE  DecodeInv'
  <2>1. \A s \in Slots : Passed(s)' <=> Passed(s)
    BY <1>u, <1>o DEF Passed
  <2>2. QED
    BY <1>u, <1>d, <2>1 DEF DecodeInv
<1>1. CASE Begin
  <2>1. token = 0 /\ nodes_length = 0 /\ nodes_uses = 0 /\ Base = 0 /\ Published = 0 /\ mpc = "new"
    BY <1>1, <1>m, <1>q DEF Begin, MainInv, QueueInv, Base, Published, Filling
  <2>2. /\ mpc' = "tokenize" /\ Base' = 0 /\ Published' = 0 /\ UNCHANGED <<nodes_uses, done, decoded>>
        /\ \A k \in BatchThreads : use'[k] = k - 1
    BY <1>1, <1>o, <2>1 DEF Begin, Base, Published, Filling
  <2>3. \A k \in BatchThreads : Owner(use'[k]) = k /\ use'[k] < nodes_uses + Batch
    BY <2>1, <2>2, OwnerFirst DEF BatchThreads
  <2>4. \A s \in Slots : ~(s < nodes_uses')
    BY <1>o, <2>1, <2>2
  <2>5. QED
    BY <1>d, <2>1, <2>2, <2>3, <2>4 DEF DecodeInv
<1>2. CASE SkipToken
    BY <1>2, <1>u DEF SkipToken, Base, Published, Filling, Attached
<1>3. CASE CdataMarker
    BY <1>3, <1>u DEF CdataMarker, Base, Published, Filling, Attached
<1>4. CASE CdataWait
    BY <1>4, <1>u DEF CdataWait, Base, Published, Filling, Attached
<1>5. CASE SetArgs
    BY <1>5, <1>u DEF SetArgs, Base, Published, Filling, Attached
<1>6. CASE MallocRound
  <2>1. /\ nodes_uses = nodes_length /\ nodes_uses < Size /\ nodes_uses' = nodes_uses + 1
        /\ mpc = "malloc" /\ mpc' \in {"wait", "queued"} /\ UNCHANGED <<use, wpc, done, decoded>>
    BY <1>6, <1>q DEF MallocRound, QueueInv
  <2>2. Base' = Base /\ Published' = Published + 1 /\ Attached /\ Attached'
    BY <1>6, <1>t, <2>1 DEF MallocRound, TypeOK, Base, Published, Filling, Attached
  <2>3. \A s \in Slots : Passed(s)' <=> Passed(s)
    BY <2>1 DEF Passed
  <2>4. nodes_uses \in Slots /\ Base + nodes_uses + 1 \in Tokens /\ Base + nodes_uses + 1 > Published
    BY <1>b, <1>t, <1>m, <2>1, <2>2 DEF Slots, Tokens, MainInv, TypeOK, Published, Filling
  <2>5. ~Passed(nodes_uses)
    <3> DEFINE k == Owner(nodes_uses)
    <3>1. k \in BatchThreads /\ k \in Threads /\ use[k] \in Nat /\ Owner(use[k]) = k /\ use[k] < nodes_uses + Batch
      BY <1>o, <1>d, <2>1, <2>2, <2>4 DEF DecodeInv
    <3>2. ~(nodes_uses < use[k])
      BY <1>b, <3>1, OwnerApart
    <3>3. wpc[k] = "advance" => use[k] < nodes_uses
      BY <1>c, <3>1 DEF CursorInv
    <3>4. QED
      BY <1>b, <3>1, <3>2, <3>3 DEF Passed
  <2>6. \A s \in Slots : s < nodes_uses' => (Base + s + 1 \in done <=> Passed(s))
    <3> SUFFICES ASSUME NEW s \in Slots, s < nodes_uses + 1
                 PROVE  Base + s + 1 \in done <=> Passed(s)
      BY <2>1
    <3>1. CASE s < nodes_uses
      BY <3>1, <1>d DEF DecodeInv
    <3>2. CASE s = nodes_uses
      BY <3>2, <1>d, <2>4, <2>5 DEF DecodeInv
    <3>3. QED
      BY <1>b, <1>o, <3>1, <3>2
  <2>7. \A t \in Tokens : t > Published' => t \notin done
    BY <1>b, <1>d, <2>2 DEF DecodeInv, Tokens
  <2>8. \A k \in BatchThreads : Owner(use[k]) = k /\ use[k] < nodes_uses' + Batch
    BY <1>b, <1>o, <1>d, <2>1, <2>2 DEF DecodeInv
  <2>9. QED
    BY <1>d, <2>1, <2>2, <2>3, <2>6, <2>7, <2>8 DEF DecodeInv
<1>7. CASE WaitForDone
    BY <1>7, <1>u DEF WaitForDone, Base, Published, Filling, Attached
<1>8. CASE EntryClean
  <2>1. /\ mpc = "wait" /\ mpc' = "batch" /\ wi = Batch + 1 /\ wi' = 1 /\ nodes_uses' = 0
        /\ UNCHANGED <<use, wpc, done, decoded>>
    BY <1>8 DEF EntryClean
  <2>2. Base' = Published /\ Published' = Published /\ Attached /\ Attached'
    BY <1>8, <1>t DEF EntryClean, TypeOK, Base, Published, Filling, Attached
  <2>3. \A s \in Slots : s < nodes_uses => Passed(s)
    BY <1>b, <1>o, <1>c, <2>1 DEF Passed, CursorInv, BatchThreads
  <2>4. \A t \in Tokens : t <= Published => t \in done
    <3> SUFFICES ASSUME NEW t \in Tokens, t <= Published, t > Base PROVE t \in done
      BY <1>b, <1>d DEF DecodeInv, Tokens
    <3>1. t - Base - 1 \in Slots /\ t - Base - 1 < nodes_uses /\ t = Base + (t - Base - 1) + 1
      BY <1>b DEF Slots, Tokens
    <3>2. QED
      BY <3>1, <2>3, <1>d DEF DecodeInv
  <2>5. \A k \in BatchThreads : wi' <= k
    BY <2>1 DEF BatchThreads
  <2>6. \A s \in Slots : ~(s < nodes_uses')
    BY <2>1, <1>o
  <2>7. QED
    BY <1>d, <2>1, <2>2, <2>4, <2>5, <2>6 DEF DecodeInv
<1>9. CASE MakeBatch
  <2>1. /\ mpc = "batch" /\ wi \in BatchThreads /\ nodes_uses = 0 /\ nodes_uses' = 0
        /\ use' = [use EXCEPT ![wi] = wi - 1] /\ UNCHANGED <<done, decoded, token>>
    BY <1>9, <1>m, <1>q DEF MakeBatch, MainInv, QueueInv, BatchThreads
  <2>2. Base' = Base /\ Published' = Published /\ Attached /\ mpc' # "ended"
    BY <1>9, <2>1 DEF MakeBatch, Base, Published, Filling, Attached
  <2>3. \A k \in BatchThreads : use'[k] = IF k = wi THEN wi - 1 ELSE use[k]
    BY <1>t, <1>o, <2>1 DEF TypeOK
  <2>4. \A k \in BatchThreads : Owner(use'[k]) = k
    BY <1>d, <2>1, <2>2, <2>3, OwnerFirst DEF DecodeInv
  <2>5. \/ mpc' = "stream" /\ wi = Batch
        \/ mpc' = "batch" /\ wi' = wi + 1
    BY <1>9 DEF MakeBatch
  <2>6. ASSUME NEW k \in BatchThreads, ~(mpc' = "batch" /\ wi' <= k)
        PROVE  use'[k] < nodes_uses' + Batch
    <3>1. k <= wi
      BY <2>1, <2>5, <2>6 DEF BatchThreads
    <3>2. CASE k = wi
      BY <3>2, <2>1, <2>3 DEF BatchThreads
    <3>3. CASE k < wi
      BY <3>3, <1>d, <2>1, <2>2, <2>3 DEF DecodeInv, BatchThreads
    <3>4. QED
      BY <3>1, <3>2, <3>3, <2>1 DEF BatchThreads
  <2>7. \A s \in Slots : ~(s < nodes_uses')
    BY <2>1, <1>o
  <2>8. QED
    BY <1>d, <2>1, <2>2, <2>4, <2>6, <2>7 DEF DecodeInv
<1>10. CASE MakeStream
  <2>1. /\ mpc = "stream" /\ wi \in {0, 1} /\ nodes_uses = 0 /\ nodes_uses' = 0
        /\ use' = [use EXCEPT ![wi] = 0] /\ UNCHANGED <<done, decoded, token>>
    BY <1>10, <1>m, <1>q DEF MakeStream, MainInv, QueueInv
  <2>2. Base' = Base /\ Published' = Published /\ Attached /\ mpc' \in {"stream", "queued"}
    BY <1>10, <2>1 DEF MakeStream, Base, Published, Filling, Attached
  <2>3. 1 \in BatchThreads /\ Owner(0) = 1
    BY OwnerFirst DEF BatchThreads
  <2>4. \A k \in BatchThreads : use'[k] = use[k] \/ (k = 1 /\ use'[k] = 0)
    BY <1>t, <1>o, <2>1 DEF TypeOK, Stream
  <2>5. \A k \in BatchThreads : Owner(use'[k]) = k /\ use'[k] < nodes_uses' + Batch
    BY <1>d, <2>1, <2>2, <2>3, <2>4 DEF DecodeInv
  <2>6. \A s \in Slots : ~(s < nodes_uses')
    BY <2>1, <1>o
  <2>7. QED
    BY <1>d, <2>1, <2>2, <2>5, <2>6 DEF DecodeInv
<1>11. CASE PlainTag
  <2>1. /\ mpc \in {"queued", "resync"} /\ mpc' \in {"end", "tokenize"}
        /\ UNCHANGED <<queueVars, workVars>>
        /\ token' = IF mpc' = "end" THEN token ELSE token + 1
    BY <1>11 DEF PlainTag, NextToken
  <2>2. Base' = Base /\ Published' = Published /\ Attached
    BY <1>t, <2>1 DEF TypeOK, Base, Published, Filling, Attached
  <2>3. \A s \in Slots : Passed(s)' <=> Passed(s)
    BY <2>1 DEF Passed
  <2>4. QED
    BY <1>d, <2>1, <2>2, <2>3 DEF DecodeInv
<1>12. CASE OpenNamespace
  <2>1. /\ mpc \in {"queued", "resync"} /\ mpc' \in {"end", "tokenize"}
        /\ UNCHANGED <<queueVars, workVars>>
        /\ token' = IF mpc' = "end" THEN token ELSE token + 1
    BY <1>12 DEF OpenNamespace, NextToken
  <2>2. Base' = Base /\ Published' = Published /\ Attached
    BY <1>t, <2>1 DEF TypeOK, Base, Published, Filling, Attached
  <2>3. \A s \in Slots : Passed(s)' <=> Passed(s)
    BY <2>1 DEF Passed
  <2>4. QED
    BY <1>d, <2>1, <2>2, <2>3 DEF DecodeInv
<1>13. CASE RawTag
    BY <1>13, <1>u DEF RawTag, Base, Published, Filling, Attached
<1>14. CASE RawWait
    BY <1>14, <1>u DEF RawWait, Base, Published, Filling, Attached
<1>15. CASE Resync
  <2>1. /\ mpc \in {"queued", "resync"} /\ mpc' \in {"end", "tokenize"}
        /\ UNCHANGED <<queueVars, workVars>>
        /\ token' = IF mpc' = "end" THEN token ELSE token + 1
    BY <1>15 DEF Resync, NextToken
  <2>2. Base' = Base /\ Published' = Published /\ Attached
    BY <1>t, <2>1 DEF TypeOK, Base, Published, Filling, Attached
  <2>3. \A s \in Slots : Passed(s)' <=> Passed(s)
    BY <2>1 DEF Passed
  <2>4. QED
    BY <1>d, <2>1, <2>2, <2>3 DEF DecodeInv
<1>16. CASE End
  <2>1. mpc = "end" /\ mpc' = "ended" /\ wi = Batch + 1 /\ UNCHANGED <<queueVars, workVars, token>>
    BY <1>16 DEF End
  <2>2. Base' = Base /\ Published' = Published /\ Published = token
    BY <2>1 DEF Base, Published, Filling
  <2>3. \A s \in Slots : s < nodes_uses => Passed(s)
    BY <1>b, <1>o, <1>c, <2>1 DEF Passed, CursorInv, BatchThreads
  <2>4. \A t \in Tokens : t <= token => t \in done
    <3> SUFFICES ASSUME NEW t \in Tokens, t <= Published, t > Base PROVE t \in done
      BY <1>b, <1>d, <2>2 DEF DecodeInv, Tokens
    <3>1. t - Base - 1 \in Slots /\ t - Base - 1 < nodes_uses /\ t = Base + (t - Base - 1) + 1
      BY <1>b DEF Slots, Tokens
    <3>2. QED
      BY <3>1, <2>3, <1>d DEF DecodeInv
  <2>5. done = 1 .. token
    <3>1. done \subseteq Tokens /\ token \in Tokens /\ \A t \in Tokens : t > token => t \notin done
      BY <1>t, <1>m, <1>d, <2>1, <2>2 DEF TypeOK, MainInv, DecodeInv
    <3>2. \A t : t \in Tokens /\ t <= token <=> t \in 1 .. token
      BY <3>1 DEF Tokens
    <3>3. \A t \in Tokens : t > token <=> ~(t <= token)
      BY <3>1 DEF Tokens
    <3>4. \A t : t \in done <=> t \in 1 .. token
      BY <3>1, <3>2, <3>3, <2>4
    <3>5. QED
      BY <3>4
  <2>6. \A s \in Slots : Passed(s)' <=> Passed(s)
    BY <2>1 DEF Passed
  <2>7. QED
    BY <1>d, <2>1, <2>2, <2>5, <2>6 DEF DecodeInv, Attached
<1>17. CASE TreeClean
  <2>1. /\ mpc' = "new" /\ nodes_uses' = 0 /\ nodes_length' = 0 /\ token' = 0 /\ done' = {}
        /\ decoded' = [t \in Tokens |-> 0]
    BY <1>17 DEF TreeClean, NULL
  <2>2. Base' = 0 /\ Published' = 0
    BY <2>1 DEF Base, Published, Filling
  <2>3. \A t \in Tokens : ~(t <= 0)
    BY DEF Tokens
  <2>4. \A s \in Slots : ~(s < nodes_uses')
    BY <2>1, <1>o
  <2>5. QED
    BY <2>1, <2>2, <2>3, <2>4 DEF DecodeInv, Attached
<1>18. CASE PassToken
    BY <1>18, <1>o, <1>t, <1>u DEF PassToken, TypeOK, Base, Published, Filling, Attached
<1>19. CASE Dispatch
    BY <1>19, <1>o, <1>t, <1>u DEF Dispatch, TypeOK, Base, Published, Filling, Attached
<1>20. CASE NeedDone
    BY <1>20, <1>o, <1>t, <1>u DEF NeedDone, TypeOK, Base, Published, Filling, Attached
<1>21. CASE Reprocess
    BY <1>21, <1>o, <1>t, <1>u DEF Reprocess, TypeOK, Base, Published, Filling, Attached
<1>22. CASE Inserted
    BY <1>22, <1>o, <1>t, <1>u DEF Inserted, TypeOK, Base, Published, Filling, Attached
<1>23. CASE AdvanceStream
  <2>1. /\ UNCHANGED <<mainVars, queueVars, done, decoded>>
        /\ \A k \in BatchThreads : use'[k] = use[k] /\ wpc'[k] = wpc[k]
    BY <1>23, <1>t, <1>o DEF AdvanceStream, TypeOK
  <2>2. \A s \in Slots : Passed(s)' <=> Passed(s)
    BY <2>1, <1>o DEF Passed
  <2>3. QED
    BY <1>d, <2>1, <2>2 DEF DecodeInv, Base, Published, Filling, Attached
<1>24. ASSUME NEW k \in Threads, LoadUse(k) PROVE DecodeInv'
    BY <1>24, <1>o, <1>t, <1>u DEF LoadUse, TypeOK, Base, Published, Filling, Attached
<1>25. ASSUME NEW k \in Threads, Compare(k) PROVE DecodeInv'
    BY <1>25, <1>o, <1>t, <1>u DEF Compare, TypeOK, Base, Published, Filling, Attached
<1>26. ASSUME NEW k \in BatchThreads, Decode(k) PROVE DecodeInv'
  <2> DEFINE t == Base + use[k] + 1
  <2>1. /\ wpc[k] = "work" /\ UNCHANGED <<mainVars, queueVars, use>>
        /\ \A j \in Threads : wpc'[j] = IF j = k THEN "advance" ELSE wpc[j]
    BY <1>26, <1>t, <1>o DEF Decode, TypeOK
  <2>2. /\ use[k] \in Slots /\ use[k] < nodes_uses /\ Attached /\ args[use[k]] = t
        /\ t \in Tokens /\ t <= Published
    BY <1>p, <1>o, <2>1, SlotToken
  <2>3. Owner(use[k]) = k /\ t \notin done
    BY <1>d, <1>b, <1>o, <2>1, <2>2 DEF DecodeInv, Passed
  <2>4. /\ done' = done \union {t} /\ \A u \in Tokens : decoded'[u] = IF u \in done' THEN 1 ELSE 0
    BY <1>26, <1>d, <1>t, <2>2, <2>3 DEF Decode, DecodeInv, TypeOK
  <2>5. Base' = Base /\ Published' = Published /\ Attached' /\ mpc' # "ended"
    BY <2>1, <2>2 DEF Base, Published, Filling, Attached
  <2>6. \A s \in Slots : Passed(s)' <=> Passed(s) \/ s = use[k]
    BY <1>o, <2>1, <2>2, <2>3 DEF Passed
  <2>7. \A s \in Slots : s < nodes_uses => (Base + s + 1 \in done' <=> Passed(s)')
    <3>1. \A s \in Slots : Base + s + 1 = t <=> s = use[k]
      BY <1>b, <1>o
    <3>2. QED
      BY <3>1, <2>4, <2>6, <1>d DEF DecodeInv
  <2>8. \A u \in Tokens : /\ u <= Base => u \in done'
                          /\ u > Published => u \notin done'
    BY <2>2, <2>4, <1>d, <1>b DEF DecodeInv, Tokens
  <2>9. QED
    BY <1>d, <2>1, <2>2, <2>4, <2>5, <2>7, <2>8 DEF DecodeInv
<1>27. ASSUME NEW k \in BatchThreads, AdvanceBatch(k) PROVE DecodeInv'
  <2>1. /\ wpc[k] = "advance" /\ k \in Threads /\ UNCHANGED <<mainVars, queueVars, done, decoded>>
        /\ \A j \in Threads : wpc'[j] = IF j = k THEN "top" ELSE wpc[j]
        /\ \A j \in Threads : use'[j] = IF j = k THEN use[k] + Batch ELSE use[j]
    BY <1>27, <1>t, <1>o DEF AdvanceBatch, TypeOK
  <2>2. use[k] < nodes_uses /\ use[k] \in Nat /\ Attached /\ Owner(use[k]) = k
    BY <1>p, <1>d, <1>o, <2>1, SlotToken DEF DecodeInv
  <2>3. Base' = Base /\ Published' = Published /\ Attached' /\ mpc' = mpc /\ wi' = wi
    BY <2>1, <2>2 DEF Base, Published, Filling, Attached
  <2>4. ASSUME NEW s \in Slots PROVE Passed(s)' <=> Passed(s)
    <3>1. CASE Owner(s) # k
      BY <3>1, <1>o, <2>1 DEF Passed
    <3>2. CASE Owner(s) = k
      <4>1. Passed(s)' <=> s < use[k] + Batch
        BY <3>2, <2>1, <2>2 DEF Passed
      <4>2. Passed(s) <=> s <= use[k]
        BY <3>2, <1>o, <2>1, <2>2 DEF Passed
      <4>3. use[k] < s => use[k] + Batch <= s
        BY <3>2, <1>o, <2>2, OwnerApart
      <4>4. QED
        BY <4>1, <4>2, <4>3, <1>o, <2>2
    <3>3. QED
      BY <3>1, <3>2
  <2>5. \A j \in BatchThreads : Owner(use'[j]) = j
    BY <1>d, <1>o, <2>1, <2>2, OwnerNext DEF DecodeInv
  <2>6. \A j \in BatchThreads : ~(mpc = "batch" /\ wi <= j) => use'[j] < nodes_uses + Batch
    BY <1>d, <1>o, <1>b, <2>1, <2>2 DEF DecodeInv
  <2>7. QED
    BY <1>d, <2>1, <2>2, <2>3, <2>4, <2>5, <2>6 DEF DecodeInv
<1>28. CASE UNCHANGED vars
    BY <1>28, <1>u DEF vars, Base, Published, Filling, Attached
<1>29. QED
    BY <1>1, <1>2, <1>3, <1>4, <1>5, <1>6, <1>7, <1>8, <1>9, <1>10, <1>11, <1>12, <1>13, <1>14, <1>15, <1>16, <1>17, <1>18, <1>19, <1>20, <1>21, <1>22, <1>23, <1>24, <1>25, <1>26, <1>27, <1>28
    DEF Next, Main, StreamThread, BatchThread, Finished, BatchThreads, Threads, Stream

\* Nothing is decoded, and nothing has to be, first.
LEMMA DecodeInit == Init => DecodeInv
<1> SUFFICES ASSUME Init PROVE DecodeInv
    OBVIOUS
<1>1. Base = 0 /\ Published = 0 /\ ~Attached /\ nodes_uses = 0 /\ done = {} /\ mpc = "new"
    BY DEF Init, Base, Published, Filling, Attached, NULL
<1>2. decoded = [t \in Tokens |-> 0]
    BY DEF Init
<1>3. QED
    BY <1>1, <1>2 DEF DecodeInv, Tokens, Slots

\* The strengthened invariant holds in every reachable state.
LEMMA DecodingInvariance == Spec => []DecodingInv
<1>1. Init => DecodingInv
    BY InitInv, DecodeInit DEF DecodingInv
<1>2. PipelineInv /\ [Next]_vars => PipelineInv'
    BY TypeStep, MainStep, QueueStep, CursorStep, StreamStep DEF PipelineInv
<1>3. DecodingInv /\ [Next]_vars => DecodingInv'
    BY <1>2, DecodeStep DEF DecodingInv
<1>4. QED
    BY <1>1, <1>3, PTL DEF Spec

\* No token is decoded twice, by two batch threads or by one.
THEOREM DecodeOnce == Spec => []DecodedOnce
<1>1. DecodingInv => DecodedOnce
    BY DEF DecodingInv, DecodeInv, DecodedOnce
<1>2. QED
    BY DecodingInvariance, <1>1, PTL

\* When a document is ended every token of it was decoded and built: no round
\* of the queue is reset while a slot of it is still needed.
THEOREM NothingLost == Spec => []AllDoneAtEnd
<1>1. DecodingInv => AllDoneAtEnd
  <2> SUFFICES ASSUME DecodingInv, mpc = "ended"
               PROVE  Len(handled) = token /\ \A t \in 1 .. token : t \in done /\ decoded[t] = 1
    BY DEF AllDoneAtEnd
  <2>1. Len(handled) = token /\ token \in Tokens
    BY DEF DecodingInv, PipelineInv, StreamInv, MainInv
  <2>2. done = 1 .. token /\ \A t \in Tokens : decoded[t] = IF t \in done THEN 1 ELSE 0
    BY DEF DecodingInv, DecodeInv
  <2>3. 1 .. token \subseteq Tokens
    BY <2>1 DEF Tokens
  <2>4. QED
    BY <2>1, <2>2, <2>3
<1>2. QED
    BY DecodingInvariance, <1>1, PTL

-----------------------------------------------------------------------------
(***************************************************************************)
(* The refinement: publishing a slot emits a token, the batch threads      *)
(* decode it, the stream thread builds it, and every other step changes    *)
(* nothing that TokenPipeline speaks of.                                   *)
(***************************************************************************)
LEMMA PipelineStep ==
    DecodingInv /\ DecodingInv' /\ [Next]_vars => [Pipeline!PipelineNext]_(Pipeline!pipelineVars)
<1> SUFFICES ASSUME DecodingInv, DecodingInv', [Next]_vars
             PROVE  [Pipeline!PipelineNext]_(Pipeline!pipelineVars)
    OBVIOUS
<1> USE DEF mainVars, queueVars, workVars
<1>p. PipelineInv
    BY DEF DecodingInv
<1>t. TypeOK
    BY <1>p DEF PipelineInv
<1>m. MainInv
    BY <1>p DEF PipelineInv
<1>i. StreamInv
    BY <1>p DEF PipelineInv
<1>u. ASSUME UNCHANGED <<done, handled>>, Attached' = Attached, Published' = Published
      PROVE  [Pipeline!PipelineNext]_(Pipeline!pipelineVars)
    BY <1>u DEF Pipeline!pipelineVars
<1>1. CASE Begin
  <2>1. token = 0 /\ mpc = "new" /\ token' = 1 /\ mpc' = "tokenize" /\ UNCHANGED <<done, handled>>
    BY <1>1, <1>m DEF Begin, MainInv
  <2>2. ~Attached /\ Attached' /\ Published = 0 /\ Published' = 0
    BY <2>1 DEF Attached, Published, Filling
  <2>3. Pipeline!Open
    BY <2>1, <2>2 DEF Pipeline!Open
  <2>4. QED
    BY <2>3 DEF Pipeline!PipelineNext
<1>2. CASE SkipToken
    BY <1>2, <1>u DEF SkipToken, Published, Filling, Attached
<1>3. CASE CdataMarker
    BY <1>3, <1>u DEF CdataMarker, Published, Filling, Attached
<1>4. CASE CdataWait
    BY <1>4, <1>u DEF CdataWait, Published, Filling, Attached
<1>5. CASE SetArgs
    BY <1>5, <1>u DEF SetArgs, Published, Filling, Attached
<1>7. CASE WaitForDone
    BY <1>7, <1>u DEF WaitForDone, Published, Filling, Attached
<1>8. CASE EntryClean
    BY <1>8, <1>u DEF EntryClean, Published, Filling, Attached
<1>9. CASE MakeBatch
    BY <1>9, <1>u DEF MakeBatch, Published, Filling, Attached
<1>10. CASE MakeStream
    BY <1>10, <1>u DEF MakeStream, Published, Filling, Attached
<1>13. CASE RawTag
    BY <1>13, <1>u DEF RawTag, Published, Filling, Attached
<1>14. CASE RawWait
    BY <1>14, <1>u DEF RawWait, Published, Filling, Attached
<1>6. CASE MallocRound
  <2>1. mpc = "malloc" /\ mpc' \in {"wait", "queued"} /\ UNCHANGED <<token, done, handled>>
    BY <1>6 DEF MallocRound
  <2>2. Attached /\ Attached' = Attached /\ Published' = Published + 1
    BY <1>t, <2>1 DEF Attached, Published, Filling, TypeOK
  <2>3. Pipeline!Emit
    BY <2>1, <2>2 DEF Pipeline!Emit
  <2>4. QED
    BY <2>3 DEF Pipeline!PipelineNext
<1>11. CASE PlainTag
  <2>1. /\ mpc \in {"queued", "resync"} /\ mpc' \in {"end", "tokenize"} /\ UNCHANGED workVars
        /\ token' = IF mpc' = "end" THEN token ELSE token + 1
    BY <1>11 DEF PlainTag, NextToken
  <2>2. Published' = Published /\ Attached' = Attached
    BY <1>t, <2>1 DEF TypeOK, Published, Filling, Attached
  <2>3. QED
    BY <1>u, <2>1, <2>2
<1>12. CASE OpenNamespace
  <2>1. /\ mpc \in {"queued", "resync"} /\ mpc' \in {"end", "tokenize"} /\ UNCHANGED workVars
        /\ token' = IF mpc' = "end" THEN token ELSE token + 1
    BY <1>12 DEF OpenNamespace, NextToken
  <2>2. Published' = Published /\ Attached' = Attached
    BY <1>t, <2>1 DEF TypeOK, Published, Filling, Attached
  <2>3. QED
    BY <1>u, <2>1, <2>2
<1>15. CASE Resync
  <2>1. /\ mpc \in {"queued", "resync"} /\ mpc' \in {"end", "tokenize"} /\ UNCHANGED workVars
        /\ token' = IF mpc' = "end" THEN token ELSE token + 1
    BY <1>15 DEF Resync, NextToken
  <2>2. Published' = Published /\ Attached' = Attached
    BY <1>t, <2>1 DEF TypeOK, Published, Filling, Attached
  <2>3. QED
    BY <1>u, <2>1, <2>2
<1>16. CASE End
  <2>1. mpc = "end" /\ mpc' = "ended" /\ UNCHANGED <<token, done, handled>>
    BY <1>16 DEF End
  <2>2. Attached /\ Attached' = FALSE /\ Published = token /\ Published' = token
    BY <2>1 DEF Attached, Published, Filling
  <2>3. Len(handled) = token /\ done = 1 .. token
    BY <2>1 DEF DecodingInv, PipelineInv, StreamInv, DecodeInv
  <2>4. Pipeline!Close
    BY <2>1, <2>2, <2>3 DEF Pipeline!Close
  <2>5. QED
    BY <2>4 DEF Pipeline!PipelineNext
<1>17. CASE TreeClean
  <2>1. mpc = "ended" /\ mpc' = "new" /\ token' = 0 /\ done' = {} /\ handled' = << >>
    BY <1>17 DEF TreeClean, NULL
  <2>2. ~Attached /\ Attached' = Attached /\ Published' = 0 /\ Len(handled') = 0
    BY <2>1 DEF Attached, Published, Filling
  <2>3. Pipeline!Forget
    BY <2>1, <2>2 DEF Pipeline!Forget
  <2>4. QED
    BY <2>3 DEF Pipeline!PipelineNext
<1>18. CASE PassToken \/ Inserted
  <2>1. /\ wpc[Stream] \in {"work", "insert"} /\ UNCHANGED <<mainVars, done>>
        /\ handled' = Append(handled, args[use[Stream]])
    BY <1>18 DEF PassToken, Inserted
  <2>2. Stream \in Threads /\ handled \in Seq(Tokens)
    BY <1>t DEF Stream, Threads, TypeOK
  <2>3. Attached /\ Base + use[Stream] + 1 <= Published /\ use[Stream] < nodes_uses
    BY <1>p, <2>1, <2>2, SlotToken
  <2>4. Base \in Int /\ use[Stream] \in Nat /\ Published \in Int
    BY <1>t, <2>2 DEF TypeOK, Base, Published
  <2>5. ~StreamCursorStale /\ mpc # "new"
    BY <1>p, <1>t, <2>2, <2>3 DEF PipelineInv, QueueInv, StreamCursorStale, Attached, TypeOK
  <2>6. Len(handled) < Published
    BY <1>i, <2>1, <2>3, <2>4, <2>5 DEF StreamInv
  <2>7. Len(handled') = Len(handled) + 1
    BY <2>1, <2>2
  <2>8. Attached' = Attached /\ Published' = Published
    BY <2>1 DEF Attached, Published, Filling
  <2>9. Pipeline!Build
    BY <2>1, <2>3, <2>6, <2>7, <2>8 DEF Pipeline!Build
  <2>10. QED
    BY <2>9 DEF Pipeline!PipelineNext
<1>19. CASE Dispatch \/ NeedDone \/ Reprocess \/ AdvanceStream
    BY <1>19, <1>u DEF Dispatch, NeedDone, Reprocess, AdvanceStream, Published, Filling, Attached
<1>20. ASSUME NEW k \in Threads, LoadUse(k) \/ Compare(k)
       PROVE  [Pipeline!PipelineNext]_(Pipeline!pipelineVars)
    BY <1>20, <1>u DEF LoadUse, Compare, Published, Filling, Attached
<1>21. ASSUME NEW k \in BatchThreads, AdvanceBatch(k)
       PROVE  [Pipeline!PipelineNext]_(Pipeline!pipelineVars)
    BY <1>21, <1>u DEF AdvanceBatch, Published, Filling, Attached
<1>22. ASSUME NEW k \in BatchThreads, Decode(k)
       PROVE  [Pipeline!PipelineNext]_(Pipeline!pipelineVars)
  <2> DEFINE t == args[use[k]]
  <2>1. /\ wpc[k] = "work" /\ UNCHANGED <<mainVars, queueVars, use, handled>>
        /\ done' = done \union {t} /\ wpc' = [wpc EXCEPT ![k] = "advance"] /\ k \in Threads
    BY <1>22 DEF Decode, BatchThreads, Threads
  <2>2. /\ use[k] \in Slots /\ use[k] < nodes_uses /\ Attached
        /\ t = Base + use[k] + 1 /\ t \in Tokens /\ t <= Published
    BY <1>p, <2>1, SlotToken
  <2>3. Owner(use[k]) = k /\ ~Passed(use[k])
    BY <1>t, <2>1, <2>2 DEF DecodingInv, DecodeInv, Passed, TypeOK
  <2>4. t \notin done
    BY <2>2, <2>3 DEF DecodingInv, DecodeInv
  <2>5. Attached' = Attached /\ Published' = Published /\ t \in 1 .. Published
    BY <1>t, <2>1, <2>2 DEF Attached, Published, Filling, Tokens, TypeOK
  <2>6. Pipeline!Decode(t)
    BY <2>1, <2>2, <2>4, <2>5 DEF Pipeline!Decode
  <2>7. QED
    BY <2>5, <2>6 DEF Pipeline!PipelineNext
<1>23. CASE UNCHANGED vars
    BY <1>23, <1>u DEF vars, Published, Filling, Attached
<1>24. QED
    BY <1>1, <1>2, <1>3, <1>4, <1>5, <1>6, <1>7, <1>8, <1>9, <1>10, <1>11, <1>12, <1>13, <1>14, <1>15, <1>16, <1>17, <1>18, <1>19, <1>20, <1>21, <1>22, <1>23
    DEF Next, Main, StreamThread, BatchThread, Finished, BatchThreads, Threads, Stream

\* The queue without a lock implements the pipeline that TokenPipeline
\* describes: every token is emitted, decoded once and built in order, and a
\* document is closed only when nothing of it is left.
THEOREM QueueImplementsPipeline == Spec => PipelineRefined
<1>1. Init => Pipeline!PipelineInit
    BY DEF Init, Pipeline!PipelineInit, Attached, Published, Filling, NULL
<1>2. QED
    BY <1>1, PipelineStep, DecodingInvariance, PTL DEF Spec, PipelineRefined, Pipeline!PipelineSpec
==============================================================================
