------------------------- MODULE ThreadControl_proofs -------------------------
(***************************************************************************)
(* One tree is safe with any number of batch threads: a worker never walks *)
(* over an entry that entry_delete has freed.                              *)
(*                                                                         *)
(* The argument: with one tree, the suspension of entry_push is always     *)
(* answered by STOP, so no worker says WAIT when entry_delete suspends the *)
(* next time (AwakeNow in OneTreeInv).  Every WAIT accepted is therefore   *)
(* one of a worker that waits (AskedNow, HaltedNow), and it waits until    *)
(* the list is empty (LeavingNow).                                         *)
(*                                                                         *)
(* For any number of trees, where that is false: the list stays sound      *)
(* between calls, and nothing runs on behind myhtml_destroy.  Both follow  *)
(* from EveryTreeInv, which does not need the threads to hold still: only  *)
(* calls change the list, one at a time (ListInv), and a thread ends only  *)
(* with all its cursors at the end (DoneInv).                              *)
(***************************************************************************)
EXTENDS ThreadControl, FiniteSetTheorems, FunctionTheorems, TLAPS

USE TreesAssumption, ThreadAssumption, WorkAssumption

\* Threads and their groups: the stream thread, the batch threads 1 .. Batch.
LEMMA GroupFacts ==
    /\ \A w \in Workers : Group(w) \in Groups /\ w \in Members(Group(w)) /\ w \in Int
    /\ \A g \in Groups : /\ Members(g) \subseteq Workers
                         /\ FirstOf(g) \in Members(g) /\ LastOf(g) \in Members(g)
    /\ \A g \in Groups : \A w \in Members(g) :
          Group(w) = g /\ FirstOf(g) <= w /\ w <= LastOf(g)
    /\ \A g \in Groups : \A w \in Members(g) : w # LastOf(g) => w + 1 \in Members(g)
    BY DEF Workers, Stream, Group, Groups, Members, FirstOf, LastOf

\* The smallest indices of threads and groups.
LEMMA ThreadBounds == 0 \in Workers /\ 1 \in Workers /\ Groups = {1, 2}
    BY DEF Workers, Groups

\* The words keep their types, one lemma for each part of ShapeOK.
LEMMA WordsStep == ShapeOK /\ [Next]_vars => WordsOK'
<1> SUFFICES ASSUME ShapeOK, [Next]_vars PROVE WordsOK'
    OBVIOUS
<1>0. WordsOK /\ gi \in Groups
    BY DEF ShapeOK, CallOK
<1>1. CASE UNCHANGED groupVars
    BY <1>0, <1>1 DEF WordsOK, groupVars
<1>2. ASSUME NEW o \in Options, opt' = [opt EXCEPT ![gi] = o], UNCHANGED <<ctx, unlocked>>
      PROVE  WordsOK'
    BY <1>0, <1>2 DEF WordsOK
<1>3. ASSUME NEW o \in Options, Send(gi, o) PROVE WordsOK'
    BY <1>0, <1>3 DEF WordsOK, Send
<1>4. ASSUME NEW w \in Workers, Worker(w) PROVE WordsOK'
  <2>1. CASE UNCHANGED <<opt, ctx>> /\ unlocked' = [unlocked EXCEPT ![w] = FALSE]
    BY <1>0, <2>1 DEF WordsOK
  <2>2. ASSUME NEW o \in Options, UNCHANGED <<opt, unlocked>>, ctx' = [ctx EXCEPT ![w] = o]
        PROVE  WordsOK'
    BY <1>0, <2>2 DEF WordsOK
  <2>3. "UNDEF" \in Options /\ "WAIT" \in Options /\ "STOP" \in Options /\ "QUIT" \in Options
    BY DEF Options
  <2>4. QED
    BY <1>1, <1>4, <2>1, <2>2, <2>3 DEF Worker, Wake, Woken, Top, Halt, Halted, Leave, First,
       Look, Work, GoNext, Count, Stay, FallAsleep, Leave4Good, Need, groupVars
<1>5. "UNDEF" \in Options /\ "WAIT" \in Options /\ "STOP" \in Options /\ "QUIT" \in Options
    BY DEF Options
<1>6. QED
    BY <1>1, <1>2, <1>3, <1>4, <1>5 DEF Next, Program, Main, Destroy, Push, Chunk, Publish, End,
       WaitForDone, Suspend, Ack, Link, Unlink, Resume, Post, Free, Stop, StopAck, Drain, Quit,
       QuitAck, Join, Finished, vars, groupVars

\* Where the threads stand in the list stays typed: a link leads to an entry or
\* to none.
LEMMA WalksStep == ShapeOK /\ [Next]_vars => WalksOK'
<1> SUFFICES ASSUME ShapeOK, [Next]_vars PROVE WalksOK'
    OBVIOUS
<1>0. WalksOK /\ WordsOK /\ EntriesOK
    BY DEF ShapeOK
<1>1. CASE UNCHANGED workerVars
    BY <1>0, <1>1 DEF WalksOK, workerVars
<1>2. ASSUME NEW w \in Workers, Worker(w) PROVE WalksOK'
  <2>1. CASE Wake(w) \/ Woken(w) \/ Top(w) \/ Halt(w) \/ Halted(w) \/ Leave(w)
    BY <1>0, <2>1 DEF WalksOK, Wake, Woken, Top, Halt, Halted, Leave, Become
  <2>2. CASE First(w)
    <3>1. list.first \in Trees \union {NoTree}
      BY <1>0 DEF EntriesOK
    <3>2. QED
      BY <1>0, <2>2, <3>1 DEF WalksOK, First, Become
  <2>3. CASE Look(w) \/ Need \/ Work(w)
    <3>1. Stream \in Workers
      BY DEF Stream, Workers
    <3>2. QED
      BY <1>0, <2>3, <3>1 DEF WalksOK, Look, Need, Work, Become
  <2>4. CASE GoNext(w)
    <3>1. next[at[w]] \in Trees \union {NoTree}
      BY <1>0, <2>4 DEF EntriesOK, GoNext
    <3>2. QED
      BY <1>0, <2>4, <3>1 DEF WalksOK, GoNext, Become
  <2>5. CASE Count(w)
    <3>1. opt[Group(w)] \in Options /\ "UNDEF" \in Options
      BY <1>0, GroupFacts DEF WordsOK, Options
    <3>2. QED
      BY <1>0, <2>5, <3>1 DEF WalksOK, Count, Become, Rest
  <2>6. CASE Stay(w) \/ FallAsleep(w) \/ Leave4Good(w)
    <3>1. "UNDEF" \in Options
      BY DEF Options
    <3>2. QED
      BY <1>0, <2>6, <3>1 DEF WalksOK, Stay, FallAsleep, Leave4Good, Become, Rest
  <2>7. QED
    BY <1>2, <2>1, <2>2, <2>3, <2>4, <2>5, <2>6 DEF Worker
<1>3. QED
    BY <1>1, <1>2 DEF Next, Program, Main, Destroy, Push, Chunk, Publish, End,
       WaitForDone, Suspend, Ack, Link, Unlink, Resume, Post, Free, Stop, StopAck, Drain, Quit,
       QuitAck, Join, Finished, vars, workerVars

\* The call of the program keeps its types, and a call is about a tree.
LEMMA CallStepOK == ShapeOK /\ CallPhases /\ [Next]_vars => CallOK'
<1> SUFFICES ASSUME ShapeOK, CallPhases, [Next]_vars PROVE CallOK'
    OBVIOUS
<1>0. CallOK
    BY DEF ShapeOK
<1>1. CASE UNCHANGED <<call, tree, phase, gi, wi>>
    BY <1>0, <1>1 DEF CallOK
<1>2. CASE Program
    BY <1>0, <1>2, GroupFacts, ThreadBounds DEF CallOK, Program, Destroy, Push, Chunk, Publish,
       End, Goto, mainVars, Stream
<1>3. ASSUME NEW w \in Workers, Worker(w) PROVE CallOK'
    BY <1>1, <1>3 DEF Worker, Wake, Woken, Top, Halt, Halted, Leave, First,
       Look, Work, GoNext, Count, Stay, FallAsleep, Leave4Good, Need, mainVars
<1>4. CASE Link \/ Unlink \/ Resume \/ Post \/ Free \/ Drain
    BY <1>0, <1>4, ThreadBounds DEF CallOK, Link, Unlink, Resume, Post, Free, Drain, Goto, Over
<1>5. gi \in Groups /\ FirstOf(gi) \in Workers
    BY <1>0, GroupFacts DEF CallOK
<1>6. CASE Suspend \/ Stop \/ Quit
    BY <1>0, <1>5, <1>6, ThreadBounds DEF CallOK, Suspend, Suspended, Stop, Stopped, Quit, Goto,
       Over
<1>7. CASE WaitForDone
  <2>1. wi # Batch => wi + 1 \in Workers
    BY <1>0 DEF CallOK, Workers
  <2>2. QED
    BY <1>0, <1>7, <2>1, ThreadBounds DEF CallOK, WaitForDone, Goto
<1>8. CASE Ack \/ StopAck \/ QuitAck \/ Join
  <2>1. wi \in Members(gi)
    BY <1>8 DEF CallPhases, Ack, StopAck, QuitAck, Join
  <2>2. wi # LastOf(gi) => wi + 1 \in Workers
    BY <1>5, <2>1, GroupFacts
  <2>3. wi < LastOf(gi) => wi # LastOf(gi)
    BY <1>5, GroupFacts DEF Workers
  <2>4. QED
    BY <1>0, <1>8, <2>2, <2>3, ThreadBounds DEF CallOK, Ack, Suspended, StopAck, Stopped, QuitAck,
       Join, Goto, Over
<1>9. QED
    BY <1>1, <1>2, <1>3, <1>4, <1>6, <1>7, <1>8 DEF Next, Main, Finished, vars, mainVars

\* The entries and the ends of the list keep their types.
LEMMA EntriesStep == ShapeOK /\ CallPhases /\ [Next]_vars => EntriesOK'
<1> SUFFICES ASSUME ShapeOK, CallPhases, [Next]_vars PROVE EntriesOK'
    OBVIOUS
<1>0. EntriesOK
    BY DEF ShapeOK
<1>1. CASE UNCHANGED listVars
    BY <1>0, <1>1 DEF EntriesOK, listVars
<1>2. ASSUME NEW t \in Trees, Push(t) PROVE EntriesOK'
    BY <1>0, <1>2 DEF EntriesOK, Push
<1>3. CASE Free \/ Join
    BY <1>0, <1>3 DEF EntriesOK, Free, Join
<1>4. list.count + 1 \in Int /\ list.count - 1 \in Int
    BY <1>0 DEF EntriesOK
<1>5. CASE Link
  <2>1. tree \in Trees
    BY <1>5 DEF Link, CallPhases
  <2>2. list' \in [first : Trees \union {NoTree}, last : Trees \union {NoTree}, count : Int]
    BY <1>0, <1>4, <1>5, <2>1 DEF EntriesOK, Link
  <2>3. QED
    BY <1>0, <1>5, <2>1, <2>2 DEF EntriesOK, Link
<1>6. CASE Unlink
  <2>1. tree \in Trees
    BY <1>6 DEF Unlink, CallPhases
  <2>2. next[tree] \in Trees \union {NoTree} /\ prev[tree] \in Trees \union {NoTree}
    BY <1>0, <2>1 DEF EntriesOK
  <2>3. list' \in [first : Trees \union {NoTree}, last : Trees \union {NoTree}, count : Int]
    BY <1>0, <1>4, <1>6, <2>2 DEF EntriesOK, Unlink
  <2>4. QED
    BY <1>0, <1>6, <2>2, <2>3 DEF EntriesOK, Unlink
<1>7. QED
    BY <1>1, <1>2, <1>3, <1>5, <1>6 DEF Next, Program, Main, Destroy, Chunk, Publish, End,
       WaitForDone, Suspend, Ack, Resume, Post, Stop, StopAck, Drain, Quit, QuitAck, Finished,
       vars, listVars, Worker, Wake, Woken, Top, Halt, Halted, Leave, First, Look, Work, GoNext,
       Count, Stay, FallAsleep, Leave4Good, Need

\* The words keep their types.
LEMMA ShapeStep == ShapeOK /\ CallPhases /\ [Next]_vars => ShapeOK'
    BY WordsStep, WalksStep, EntriesStep, CallStepOK DEF ShapeOK

\* The call keeps to its phases and to a tree whose entry is allocated.
LEMMA PhaseStep == ShapeOK /\ CallPhases /\ [Next]_vars => CallPhases'
<1> SUFFICES ASSUME ShapeOK, CallPhases, [Next]_vars PROVE CallPhases'
    OBVIOUS
<1>0. gi \in Groups /\ live \subseteq Trees /\ tree \in Trees \union {NoTree}
    BY DEF ShapeOK, CallOK, EntriesOK
<1>1. CASE UNCHANGED <<call, tree, phase, gi, wi, live>>
    BY <1>1 DEF CallPhases
<1>2. ASSUME NEW e \in Trees, Push(e) \/ Chunk(e) \/ Publish(e) \/ End(e) PROVE CallPhases'
    BY <1>0, <1>2 DEF CallPhases, Push, Chunk, Publish, End, Goto, mainVars, listVars
<1>3. CASE Destroy \/ Drain
    BY <1>3 DEF CallPhases, Destroy, Drain, Goto, listVars
<1>4. ASSUME NEW w \in Workers, Worker(w) PROVE CallPhases'
    BY <1>1, <1>4 DEF Worker, Wake, Woken, Top, Halt, Halted, Leave, First, Look, Work, GoNext,
       Count, Stay, FallAsleep, Leave4Good, Need, mainVars, listVars
<1>5. CASE WaitForDone \/ Link \/ Unlink \/ Resume \/ Post \/ Free
    BY <1>5 DEF CallPhases, WaitForDone, Link, Unlink, Resume, Post, Free, Goto, Over, listVars
<1>6. FirstOf(gi) \in Members(gi)
    BY <1>0, GroupFacts
<1>7. CASE Suspend \/ Stop \/ Quit
    BY <1>6, <1>7 DEF CallPhases, Suspend, Suspended, Stop, Stopped, Quit, Goto, Over, listVars
<1>8. CASE Ack \/ StopAck \/ QuitAck \/ Join
  <2>1. wi \in Members(gi)
    BY <1>8 DEF CallPhases, Ack, StopAck, QuitAck, Join
  <2>2. wi # LastOf(gi) => wi + 1 \in Members(gi)
    BY <1>0, <2>1, GroupFacts
  <2>3. wi < LastOf(gi) => wi # LastOf(gi)
    BY <1>0, GroupFacts DEF Workers
  <2>4. QED
    BY <1>8, <2>1, <2>2, <2>3 DEF CallPhases, Ack, Suspended, StopAck, Stopped, QuitAck, Join,
       Goto, Over, listVars
<1>9. QED
    BY <1>1, <1>2, <1>3, <1>4, <1>5, <1>7, <1>8 DEF Next, Program, Main, Finished, vars, mainVars,
       listVars

\* With one tree, live is what the call makes of it.
LEMMA CallStep ==
    ASSUME OneTree, ShapeOK, CallInv, [Next]_vars
    PROVE  CallInv'
<1>0. live \subseteq Trees /\ CallPhases /\ CallPhases'
    BY PhaseStep DEF ShapeOK, EntriesOK, CallInv
<1>1. PICK t : Trees = {t}
    BY DEF OneTree
<1>2. CASE UNCHANGED <<call, tree, phase, live>>
    BY <1>0, <1>2 DEF CallInv
<1>3. ASSUME NEW e \in Trees, Push(e) \/ Chunk(e) \/ Publish(e) \/ End(e) PROVE CallInv'
    BY <1>0, <1>1, <1>3 DEF CallInv, CallPhases, Push, Chunk, Publish, End, Goto, mainVars, listVars
<1>4. CASE Destroy \/ Drain \/ Quit \/ QuitAck \/ Join
    BY <1>0, <1>4 DEF CallInv, CallPhases, Destroy, Drain, Quit, QuitAck, Join, Goto, listVars
<1>5. ASSUME NEW w \in Workers, Worker(w) PROVE CallInv'
    BY <1>2, <1>5 DEF Worker, Wake, Woken, Top, Halt, Halted, Leave, First, Look, Work, GoNext,
       Count, Stay, FallAsleep, Leave4Good, Need, mainVars, listVars
<1>6. CASE WaitForDone \/ Suspend \/ Ack \/ Link \/ Unlink \/ Resume \/ Post \/ Free
    BY <1>0, <1>6 DEF CallInv, CallPhases, WaitForDone, Suspend, Suspended, Ack, Link, Unlink,
       Resume, Post, Free, Goto, Over, listVars
<1>7. CASE Stop \/ StopAck
    BY <1>0, <1>7 DEF CallInv, CallPhases, Stop, Stopped, StopAck, Goto, Over, listVars
<1>8. QED
    BY <1>2, <1>3, <1>4, <1>5, <1>6, <1>7 DEF Next, Program, Main, Finished, vars, mainVars,
       listVars

\* The list holds the entry of the tree from Link to Unlink, and no link.
LEMMA LinkStep ==
    ASSUME OneTree, ShapeOK, CallInv, LinkInv, [Next]_vars
    PROVE  LinkInv'
<1>0. /\ gi \in Groups /\ live \subseteq Trees /\ tree \in Trees \union {NoTree}
      /\ next \in [Trees -> Trees \union {NoTree}] /\ prev \in [Trees -> Trees \union {NoTree}]
      /\ CallInv'
    BY CallStep DEF ShapeOK, CallOK, EntriesOK
<1>1. PICK t : Trees = {t} /\ t # NoTree
    BY DEF OneTree
<1>2. CASE UNCHANGED <<call, phase, listVars>>
    BY <1>2 DEF LinkInv, listVars
<1>3. ASSUME NEW e \in Trees, Push(e) \/ Chunk(e) \/ Publish(e) \/ End(e) PROVE LinkInv'
    BY <1>0, <1>1, <1>3 DEF CallInv, CallPhases, LinkInv, Push, Chunk, Publish, End, Goto, mainVars, listVars
<1>4. CASE Destroy \/ Drain \/ Quit \/ QuitAck
    BY <1>4 DEF CallInv, CallPhases, LinkInv, Destroy, Drain, Quit, QuitAck, Goto, listVars
<1>5. ASSUME NEW w \in Workers, Worker(w) PROVE LinkInv'
    BY <1>2, <1>5 DEF Worker, Wake, Woken, Top, Halt, Halted, Leave, First, Look, Work, GoNext,
       Count, Stay, FallAsleep, Leave4Good, Need, mainVars, listVars
<1>6. CASE WaitForDone \/ Suspend \/ Ack \/ Resume \/ Post \/ Stop \/ StopAck
    BY <1>0, <1>6 DEF CallInv, CallPhases, LinkInv, WaitForDone, Suspend, Suspended, Ack, Resume, Post, Stop,
       Stopped, StopAck, Goto, Over, listVars
<1>7. CASE Free
  <2>1. call = "end" /\ list = [first |-> NoTree, last |-> NoTree, count |-> 0]
    BY <1>0, <1>7 DEF CallInv, CallPhases, LinkInv, Free, CallOK, ShapeOK
  <2>2. live' = {}
    BY <1>7, <2>1 DEF CallInv, CallPhases, Free
  <2>3. QED
    BY <1>7, <2>1, <2>2 DEF LinkInv, Free
<1>8. CASE Link
    BY <1>0, <1>8 DEF CallInv, CallPhases, LinkInv, Link, Goto
<1>9. CASE Unlink
    BY <1>0, <1>1, <1>9 DEF CallInv, CallPhases, LinkInv, Unlink, Goto
<1>10. CASE Join
    BY <1>10 DEF CallInv, CallPhases, LinkInv, Join, Goto
<1>11. QED
    BY <1>2, <1>3, <1>4, <1>5, <1>6, <1>7, <1>8, <1>9, <1>10 DEF Next, Program, Main, Finished,
       vars, mainVars, listVars

\* A step of a worker leaves the others as they are, and keeps its own promises.
LEMMA WorkerStep ==
    ASSUME OneTreeInv, NEW w \in Workers, Worker(w), NEW v \in Workers
    PROVE  WorkerInv(v)'
<1> USE DEF CalmNow, AwakeNow, AskedNow, HaltedNow, LeavingNow, GoneNow, Inside, Locked
<1>1. UNCHANGED <<opt, list, next, live, call, tree, phase, gi, wi>>
    BY DEF Worker, Wake, Woken, Top, Halt, Halted, Leave, First, Look, Work, GoNext, Count, Stay,
       FallAsleep, Leave4Good, Need, groupVars, listVars, mainVars
<1>2. /\ WorkerInv(v) /\ Group(v) \in Groups /\ v \in Int
      /\ ctx \in [Workers -> Options] /\ unlocked \in [Workers -> BOOLEAN]
      /\ wpc = [x \in Workers |-> wpc[x]] /\ at = [x \in Workers |-> at[x]]
      /\ seen = [x \in Workers |-> seen[x]]
    BY GroupFacts DEF OneTreeInv, ShapeOK, WordsOK, WalksOK
<1>3. CASE v # w
  <2>1. ctx'[v] = ctx[v] /\ unlocked'[v] = unlocked[v]
    BY <1>2, <1>3 DEF Worker, Wake, Woken, Top, Halt, Halted, Leave, First, Look, Work, GoNext,
       Count, Stay, FallAsleep, Leave4Good, Need, groupVars
  <2>2. wpc'[v] = wpc[v] /\ at'[v] = at[v] /\ seen'[v] = seen[v]
    BY <1>2, <1>3 DEF Worker, Wake, Woken, Top, Halt, Halted, Leave, First, Look, Work, GoNext,
       Count, Stay, FallAsleep, Leave4Good, Need, Become, Rest
  <2>3. QED
    BY <1>1, <1>2, <2>1, <2>2 DEF WorkerInv
<1>4. CASE v = w
  <2>1. CASE Wake(v)
    BY <1>1, <1>2, <2>1 DEF WorkerInv, Wake, Become
  <2>2. CASE Woken(v)
    BY <1>1, <1>2, <2>2 DEF WorkerInv, Woken, Become
  <2>3. CASE Top(v)
    BY <1>1, <1>2, <2>3 DEF WorkerInv, Top, Become, groupVars
  <2>4. CASE Halt(v)
    BY <1>1, <1>2, <2>4 DEF WorkerInv, Halt, Become
  <2>5. CASE Halted(v)
    BY <1>1, <1>2, <2>5 DEF WorkerInv, Halted, Become, groupVars
  <2>6. CASE Leave(v)
    BY <1>1, <1>2, <2>6 DEF WorkerInv, Leave, Become
  <2>7. CASE First(v)
    <3>1. LeavingNow(v) => list.first = NoTree
      BY DEF OneTreeInv, CallInv, CallPhases, LinkInv
    <3>2. list.first # NoTree => call = "destroyed" \/ list.first \in live
      BY DEF OneTreeInv, LinkInv
    <3>3. call # "destroyed"
      BY <1>2, <2>7 DEF WorkerInv, First
    <3>4. wpc'[v] = (IF list.first = NoTree THEN "count" ELSE "look") /\ at'[v] = list.first
      BY <1>2, <2>7 DEF First, Become
    <3>5. QED
      BY <1>1, <1>2, <2>7, <3>1, <3>2, <3>3, <3>4 DEF WorkerInv, First, groupVars
  <2>8. CASE Look(v)
    BY <1>1, <1>2, <2>8 DEF WorkerInv, Look, Become, groupVars
  <2>9. CASE v = Stream /\ Need
    BY <1>1, <1>2, <2>9 DEF WorkerInv, Need, Become, groupVars
  <2>10. CASE Work(v)
    BY <1>1, <1>2, <2>10 DEF WorkerInv, Work, Become, groupVars
  <2>11. CASE GoNext(v)
    BY <1>1, <1>2, <2>11 DEF WorkerInv, GoNext, Become, groupVars, OneTreeInv, LinkInv, ShapeOK, EntriesOK
  <2>12. CASE Count(v)
    BY <1>1, <1>2, <2>12 DEF WorkerInv, Count, Become, Rest, groupVars
  <2>13. CASE Stay(v)
    BY <1>1, <1>2, <2>13 DEF WorkerInv, Stay, Become, Rest, groupVars
  <2>14. CASE FallAsleep(v)
    BY <1>1, <1>2, <2>14 DEF WorkerInv, FallAsleep, Become, Rest
  <2>15. CASE Leave4Good(v)
    BY <1>1, <1>2, <2>15 DEF WorkerInv, Leave4Good, Become, Rest
  <2>16. QED
    BY <1>4, <2>1, <2>2, <2>3, <2>4, <2>5, <2>6, <2>7, <2>8, <2>9, <2>10, <2>11, <2>12, <2>13,
       <2>14, <2>15 DEF Worker
<1>5. QED
    BY <1>3, <1>4

\* A step of the main thread keeps what each worker promises for the call as
\* far as it has come.
LEMMA MainStep ==
    ASSUME OneTree, OneTreeInv, Program \/ Main, NEW v \in Workers
    PROVE  WorkerInv(v)'
<1> USE DEF CalmNow, AwakeNow, AskedNow, HaltedNow, LeavingNow, GoneNow, Inside, Locked
<1>1. /\ WorkerInv(v) /\ Group(v) \in Groups /\ v \in Int /\ gi \in Groups /\ wi \in Int
      /\ v \in Members(Group(v)) /\ Groups = {1, 2} /\ opt \in [Groups -> Options]
      /\ call \in {"none", "push", "chunk", "end", "destroy", "destroyed"}
    BY GroupFacts, ThreadBounds DEF OneTreeInv, ShapeOK, WordsOK, CallOK, Workers
<1>2. PICK t : Trees = {t}
    BY DEF OneTree
<1>3. CallInv /\ LinkInv /\ live \subseteq Trees
    BY DEF OneTreeInv, ShapeOK, EntriesOK
<1>4. FirstOf(gi) \in Int /\ (FirstOf(gi) <= v \/ Group(v) # gi)
    BY <1>1, GroupFacts DEF Workers
<1>5. v <= LastOf(gi) \/ Group(v) # gi
    BY <1>1, GroupFacts
<1>6. phase \in {"ack", "stopack", "quitack", "join"} => Group(wi) = gi
    BY <1>1, <1>3, GroupFacts DEF CallInv, CallPhases
<1>7. CASE Program
    BY <1>1, <1>2, <1>3, <1>7 DEF WorkerInv, CallInv, CallPhases, Program, Destroy, Push, Chunk, Publish, End,
       Goto, groupVars, workerVars, listVars, mainVars
<1>8. CASE WaitForDone \/ Drain
    BY <1>1, <1>3, <1>8 DEF WorkerInv, CallInv, CallPhases, WaitForDone, Drain, Goto, groupVars, workerVars,
       listVars
<1>9. CASE Suspend
  <2>1. CASE opt[gi] = "WAIT"
    BY <1>1, <1>3, <1>9, <2>1 DEF WorkerInv, CallInv, CallPhases, Suspend, Suspended, Goto, workerVars,
       listVars
  <2>2. CASE opt[gi] # "WAIT"
    <3>1. opt'[Group(v)] = IF Group(v) = gi THEN "WAIT" ELSE opt[Group(v)]
      BY <1>1, <1>9, <2>2 DEF Suspend
    <3>2. phase' = "ack" /\ gi' = gi /\ wi' = FirstOf(gi)
      BY <1>9, <2>2 DEF Suspend, Goto
    <3>3. QED
      BY <1>1, <1>3, <1>4, <1>9, <3>1, <3>2 DEF WorkerInv, CallInv, CallPhases, Suspend, workerVars, listVars
  <2>3. QED
    BY <2>1, <2>2
<1>10. CASE Ack
    BY <1>1, <1>3, <1>5, <1>6, <1>10 DEF WorkerInv, CallInv, CallPhases, Ack, Suspended, Goto, groupVars,
       workerVars, listVars
<1>11. CASE Link \/ Unlink
    BY <1>1, <1>3, <1>11 DEF WorkerInv, CallInv, CallPhases, Link, Unlink, Goto, groupVars, workerVars
<1>12. CASE Resume
    BY <1>1, <1>3, <1>12 DEF WorkerInv, CallInv, CallPhases, Resume, Goto, workerVars, listVars
<1>13. CASE Post
  <2>1. opt'[Group(v)] = IF Group(v) = gi THEN "UNDEF" ELSE opt[Group(v)]
    BY <1>1, <1>13 DEF Post, Send
  <2>2. ctx'[v] = IF Group(v) = gi /\ ctx[v] = "STOP" THEN "UNDEF" ELSE ctx[v]
    BY <1>1, <1>13, GroupFacts DEF Post, Send
  <2>3. Group(v) # gi \/ ctx[v] # "STOP" => (unlocked'[v] <=> unlocked[v])
    BY <1>1, <1>13, GroupFacts DEF Post, Send
  <2>4. CASE gi = 1
    BY <1>1, <1>3, <1>13, <2>1, <2>2, <2>3, <2>4 DEF WorkerInv, CallInv, CallPhases, Post, Goto, workerVars,
       listVars
  <2>5. CASE gi = 2
    BY <1>1, <1>3, <1>13, <2>1, <2>2, <2>3, <2>5 DEF WorkerInv, CallInv, CallPhases, Post, Goto, Over,
       workerVars, listVars
  <2>6. QED
    BY <1>1, <2>4, <2>5
<1>14. CASE Free
    BY <1>1, <1>3, <1>14 DEF WorkerInv, CallInv, CallPhases, LinkInv, Free, Goto, Over, groupVars, workerVars
<1>15. CASE Stop
  <2>1. CASE opt[gi] = "STOP"
    BY <1>1, <1>3, <1>15, <2>1 DEF WorkerInv, CallInv, CallPhases, Stop, Stopped, Goto, Over, workerVars,
       listVars
  <2>2. CASE opt[gi] # "STOP"
    <3>1. opt'[Group(v)] = IF Group(v) = gi THEN "STOP" ELSE opt[Group(v)]
      BY <1>1, <1>15, <2>2 DEF Stop
    <3>2. phase' = "stopack" /\ gi' = gi /\ wi' = FirstOf(gi) /\ UNCHANGED <<call, tree>>
      BY <1>15, <2>2 DEF Stop, Goto
    <3>3. QED
      BY <1>1, <1>3, <1>4, <1>15, <3>1, <3>2 DEF WorkerInv, CallInv, CallPhases, Stop, workerVars, listVars
  <2>3. QED
    BY <2>1, <2>2
<1>16. CASE StopAck
    BY <1>1, <1>3, <1>5, <1>6, <1>16 DEF WorkerInv, CallInv, CallPhases, StopAck, Stopped, Goto, Over,
       groupVars, workerVars, listVars
<1>17. CASE Quit
  <2>1. /\ call = "destroy" /\ call' = "destroy" /\ phase' = "quitack" /\ gi' = gi
        /\ wi' = FirstOf(gi)
    BY <1>1, <1>3, <1>17 DEF CallInv, CallPhases, Quit, Goto
  <2>2. GoneNow(v)' => GoneNow(v)
    BY <1>1, <1>4, <1>17, <2>1 DEF Quit
  <2>3. QED
    BY <1>1, <1>17, <2>1, <2>2 DEF WorkerInv, Quit, workerVars, listVars
<1>18. CASE QuitAck \/ Join
  <2>1. LastOf(gi) \in Int /\ call = "destroy" /\ phase \in {"quitack", "join"}
    BY <1>1, <1>3, <1>18, GroupFacts DEF CallInv, CallPhases, QuitAck, Join, Workers
  <2>2. call' \in {"destroy", "destroyed"} /\ wpc' = wpc
    BY <1>18, <2>1 DEF QuitAck, Join, workerVars
  <2>3. GoneNow(v)' => wpc[v] = "gone"
    BY <1>1, <1>5, <1>18, <2>1 DEF WorkerInv, QuitAck, Join, Goto
  <2>4. call' = "destroy" => UNCHANGED live
    BY <1>18 DEF QuitAck, Join, listVars
  <2>5. QED
    BY <1>1, <1>18, <2>2, <2>3, <2>4 DEF WorkerInv, QuitAck, Join, groupVars, workerVars, listVars
<1>19. QED
    BY <1>7, <1>8, <1>9, <1>10, <1>11, <1>12, <1>13, <1>14, <1>15, <1>16, <1>17, <1>18 DEF Main

\* The invariant holds before myhtml_t is used.
LEMMA InitInv == ASSUME OneTree, Init PROVE OneTreeInv
<1>1. Stream \in Workers /\ 0 \in Workers /\ Groups = {1, 2} /\ NoTree \notin Trees
    BY ThreadBounds DEF Stream
<1>2. ShapeOK
    BY <1>1 DEF Init, ShapeOK, WordsOK, WalksOK, EntriesOK, CallOK, Options
<1>3. CallInv
    BY DEF Init, CallInv, CallPhases
<1>4. LinkInv
    BY DEF Init, LinkInv
<1>5. ASSUME NEW w \in Workers PROVE WorkerInv(w)
    BY <1>5 DEF Init, WorkerInv, CalmNow, AwakeNow, AskedNow, HaltedNow, LeavingNow, GoneNow,
       Inside, Locked
<1>6. QED
    BY <1>2, <1>3, <1>4, <1>5 DEF OneTreeInv

\* Every step keeps the invariant, the threads of one tree provided.
LEMMA NextInv == ASSUME OneTree, OneTreeInv, [Next]_vars PROVE OneTreeInv'
<1>1. ShapeOK' /\ CallInv' /\ LinkInv'
    BY ShapeStep, CallStep, LinkStep DEF OneTreeInv, CallInv
<1>2. CASE UNCHANGED vars
  <2>1. ASSUME NEW v \in Workers PROVE WorkerInv(v)'
    BY <1>2 DEF vars, groupVars, workerVars, listVars, mainVars, OneTreeInv, WorkerInv, CalmNow,
       AwakeNow, AskedNow, HaltedNow, LeavingNow, GoneNow, Inside, Locked
  <2>2. QED
    BY <1>1, <2>1 DEF OneTreeInv
<1>3. CASE Program \/ Main
    BY <1>1, <1>3, MainStep DEF OneTreeInv
<1>4. ASSUME NEW w \in Workers, Worker(w) PROVE OneTreeInv'
    BY <1>1, <1>4, WorkerStep DEF OneTreeInv
<1>5. QED
    BY <1>2, <1>3, <1>4 DEF Next, Finished

\* One tree: the invariant behind both theorems about it.
LEMMA Invariance == ASSUME OneTree PROVE Spec => []OneTreeInv
<1>1. Init => OneTreeInv
    BY InitInv
<1>2. OneTreeInv /\ [Next]_vars => OneTreeInv'
    BY NextInv
<1>3. QED
    BY <1>1, <1>2, PTL DEF Spec

\* With one tree, no worker stands on an entry that entry_delete has freed,
\* whatever the number of batch threads, tokens and documents: the answers
\* mythread_suspend accepts are never left over from an earlier suspension.
THEOREM OneTreeSafe ==
    ASSUME OneTree
    PROVE  Spec => []NoUseAfterFree
<1>1. OneTreeInv => NoUseAfterFree
    BY DEF OneTreeInv, WorkerInv, NoUseAfterFree
<1>2. QED
    BY <1>1, Invariance, PTL

\* With one tree, every thread sleeps on a locked mutex whenever nothing is
\* being parsed: mythread_stop of the last parse is obeyed by all of them, and
\* no later wake-up reaches a thread before the next document is pushed.
THEOREM OneTreeSleeps ==
    ASSUME OneTree
    PROVE  Spec => []AsleepWhenIdle
<1>1. OneTreeInv => AsleepWhenIdle
    BY DEF OneTreeInv, WorkerInv, CalmNow, AsleepWhenIdle
<1>2. QED
    BY <1>1, Invariance, PTL

-----------------------------------------------------------------------------
(***************************************************************************)
(* Any number of trees: the list.                                          *)
(***************************************************************************)
\* Bijections of an interval, as far as they are needed.
LEMMA OrderFacts ==
    ASSUME NEW S, NEW n \in Nat, NEW order \in Bijection(1 .. n, S)
    PROVE  /\ order \in [1 .. n -> S]
           /\ \A i, j \in 1 .. n : order[i] = order[j] => i = j
           /\ \A e \in S : \E i \in 1 .. n : order[i] = e
    BY DEF Bijection, Injection, Surjection, IsInjective

\* What makes a bijection.
LEMMA OrderFrom ==
    ASSUME NEW S, NEW n \in Nat, NEW order \in [1 .. n -> S],
           \A i, j \in 1 .. n : order[i] = order[j] => i = j,
           \A e \in S : \E i \in 1 .. n : order[i] = e
    PROVE  order \in Bijection(1 .. n, S)
    BY DEF Bijection, Injection, Surjection, IsInjective

\* An order goes on with one element more.
LEMMA OrderLonger ==
    ASSUME NEW S, NEW n \in Nat, NEW order \in Bijection(1 .. n, S), NEW e, e \notin S
    PROVE  \E longer \in Bijection(1 .. n + 1, S \cup {e}) :
              longer[n + 1] = e /\ \A i \in 1 .. n : longer[i] = order[i]
<1> DEFINE longer == [i \in 1 .. n + 1 |-> IF i = n + 1 THEN e ELSE order[i]]
<1>1. /\ order \in [1 .. n -> S]
      /\ \A i, j \in 1 .. n : order[i] = order[j] => i = j
      /\ \A x \in S : \E i \in 1 .. n : order[i] = x
    BY OrderFacts
<1>2. n + 1 \in 1 .. n + 1 /\ \A i \in 1 .. n + 1 : i = n + 1 \/ i \in 1 .. n
    OBVIOUS
<1>3. \A i \in 1 .. n : i \in 1 .. n + 1 /\ i # n + 1
    OBVIOUS
<1>4. longer[n + 1] = e /\ \A i \in 1 .. n : longer[i] = order[i]
    BY <1>2, <1>3
<1>5. longer \in [1 .. n + 1 -> S \cup {e}]
    BY <1>1, <1>2
<1> HIDE DEF longer
<1>6. ASSUME NEW i \in 1 .. n + 1, NEW j \in 1 .. n + 1, longer[i] = longer[j] PROVE i = j
    BY <1>1, <1>2, <1>4, <1>6
<1>7. ASSUME NEW x \in S \cup {e} PROVE \E i \in 1 .. n + 1 : longer[i] = x
    BY <1>1, <1>2, <1>3, <1>4
<1>8. longer \in Bijection(1 .. n + 1, S \cup {e})
    BY <1>5, <1>6, <1>7, OrderFrom, n + 1 \in Nat
<1>9. QED
    BY <1>4, <1>8

\* An order without its k-th element.
LEMMA OrderShorter ==
    ASSUME NEW S, NEW n \in Nat, NEW order \in Bijection(1 .. n, S), NEW k \in 1 .. n
    PROVE  \E shorter \in Bijection(1 .. n - 1, S \ {order[k]}) :
              \A i \in 1 .. n - 1 : shorter[i] = IF i < k THEN order[i] ELSE order[i + 1]
<1> DEFINE shorter == [i \in 1 .. n - 1 |-> IF i < k THEN order[i] ELSE order[i + 1]]
<1>1. /\ order \in [1 .. n -> S]
      /\ \A i, j \in 1 .. n : order[i] = order[j] => i = j
      /\ \A x \in S : \E i \in 1 .. n : order[i] = x
    BY OrderFacts
<1>2. \A i \in 1 .. n - 1 : i \in 1 .. n /\ i + 1 \in 1 .. n
    OBVIOUS
<1>3. \A i \in 1 .. n - 1 : shorter[i] = IF i < k THEN order[i] ELSE order[i + 1]
    OBVIOUS
<1>4. shorter \in [1 .. n - 1 -> S \ {order[k]}]
  <2>1. ASSUME NEW i \in 1 .. n - 1
        PROVE  (IF i < k THEN order[i] ELSE order[i + 1]) \in S \ {order[k]}
    <3>1. i < k => order[i] # order[k]
      BY <1>1, <1>2
    <3>2. ~(i < k) => order[i + 1] # order[k]
      BY <1>1, <1>2
    <3>3. QED
      BY <1>1, <1>2, <3>1, <3>2
  <2>2. QED
    BY <2>1
<1> HIDE DEF shorter
<1>5. ASSUME NEW i \in 1 .. n - 1, NEW j \in 1 .. n - 1, shorter[i] = shorter[j] PROVE i = j
  <2>1. (IF i < k THEN i ELSE i + 1) = (IF j < k THEN j ELSE j + 1)
    BY <1>1, <1>2, <1>3, <1>5
  <2>2. QED
    BY <2>1
<1>6. ASSUME NEW x \in S \ {order[k]} PROVE \E i \in 1 .. n - 1 : shorter[i] = x
  <2>1. PICK i \in 1 .. n : order[i] = x
    BY <1>1
  <2>2. CASE i < k
    <3>1. i \in 1 .. n - 1 /\ shorter[i] = x
      BY <1>3, <2>1, <2>2
    <3>2. QED
      BY <3>1
  <2>3. CASE ~(i < k)
    <3>1. i # k
      BY <2>1
    <3>2. i - 1 \in 1 .. n - 1 /\ ~(i - 1 < k) /\ (i - 1) + 1 = i
      BY <2>3, <3>1
    <3>3. shorter[i - 1] = x
      BY <1>3, <2>1, <3>2
    <3>4. QED
      BY <3>2, <3>3
  <2>4. QED
    BY <2>2, <2>3
<1>7. shorter \in Bijection(1 .. n - 1, S \ {order[k]})
    BY <1>4, <1>5, <1>6, OrderFrom, n - 1 \in Nat
<1>8. QED
    BY <1>3, <1>7

\* Sets of trees are finite; one tree more or less is counted.
LEMMA LiveCount ==
    ASSUME NEW S, S \subseteq Trees
    PROVE  /\ IsFiniteSet(S) /\ Cardinality(S) \in Nat
           /\ \A e \in Trees \ S : Cardinality(S \cup {e}) = Cardinality(S) + 1
           /\ \A e \in S : Cardinality(S \ {e}) = Cardinality(S) - 1
<1>1. IsFiniteSet(S)
    BY FS_Subset
<1>2. QED
    BY <1>1, FS_CardinalityType, FS_AddElement, FS_RemoveElement

\* The middle of entry_push puts the entry behind the last one.
LEMMA LinkKeepsList ==
    ASSUME ShapeOK, CallPhases, Link, Listed(live \ {tree}),
           next[tree] = NoTree, prev[tree] = NoTree
    PROVE  Listed(live)'
<1>1. /\ tree \in live /\ live \subseteq Trees /\ tree \in Trees /\ NoTree \notin Trees
      /\ next \in [Trees -> Trees \union {NoTree}] /\ prev \in [Trees -> Trees \union {NoTree}]
      /\ live' = live
    BY DEF Link, CallPhases, ShapeOK, EntriesOK
<1>2. PICK S : S = live \ {tree}
    OBVIOUS
<1>3. PICK n \in Nat : n = list.count /\ n = Cardinality(S) /\ Cardinality(live) = n + 1
  <2>1. S \subseteq Trees /\ tree \in Trees \ S /\ S \cup {tree} = live
    BY <1>1, <1>2
  <2>2. QED
    BY <1>2, <2>1, LiveCount DEF Listed
<1>4. PICK order \in Bijection(1 .. n, S) : Linked(order)
    BY <1>2, <1>3 DEF Listed
<1>5. order \in [1 .. n -> S] /\ \A i, j \in 1 .. n : order[i] = order[j] => i = j
    BY <1>4, OrderFacts
<1>6. PICK longer \in Bijection(1 .. n + 1, live) :
         longer[n + 1] = tree /\ \A i \in 1 .. n : longer[i] = order[i]
  <2>1. tree \notin S /\ S \cup {tree} = live
    BY <1>1, <1>2
  <2>2. QED
    BY <2>1, OrderLonger
<1>7. list'.count = n + 1
    BY <1>3 DEF Link
<1>8. /\ list.first = (IF n = 0 THEN NoTree ELSE order[1])
      /\ list.last = (IF n = 0 THEN NoTree ELSE order[n])
      /\ \A i \in 1 .. n : /\ next[order[i]] = (IF i = n THEN NoTree ELSE order[i + 1])
                           /\ prev[order[i]] = (IF i = 1 THEN NoTree ELSE order[i - 1])
    BY <1>3, <1>4 DEF Linked
<1>9. Linked(longer)'
  <2>1. CASE n = 0
    <3>1. list.first = NoTree
      BY <1>8, <2>1
    <3>2. list' = [first |-> tree, last |-> tree, count |-> n + 1] /\ next' = next /\ prev' = prev
      BY <1>3, <3>1 DEF Link
    <3>3. longer[1] = tree /\ n + 1 = 1 /\ \A i \in 1 .. n + 1 : i = 1
      BY <1>6, <2>1
    <3>4. QED
      BY <3>2, <3>3 DEF Linked
  <2>2. CASE n # 0
    <3>1. order[1] \in S /\ order[n] \in S
      BY <1>5, <2>2
    <3>2. list.first # NoTree /\ list.last = order[n] /\ order[n] \in Trees /\ order[n] # tree
      BY <1>1, <1>2, <1>8, <2>2, <3>1
    <3>3. /\ list' = [first |-> list.first, last |-> tree, count |-> n + 1]
          /\ next' = [next EXCEPT ![list.last] = tree] /\ prev' = [prev EXCEPT ![tree] = list.last]
      BY <1>3, <3>2 DEF Link
    <3>4. /\ next'[tree] = NoTree /\ prev'[tree] = order[n]
          /\ \A e \in S : next'[e] = (IF e = order[n] THEN tree ELSE next[e]) /\ prev'[e] = prev[e]
      BY <1>1, <1>2, <3>2, <3>3
    <3>5. ASSUME NEW i \in 1 .. n + 1
          PROVE  /\ next'[longer[i]] = (IF i = n + 1 THEN NoTree ELSE longer[i + 1])
                 /\ prev'[longer[i]] = (IF i = 1 THEN NoTree ELSE longer[i - 1])
      <4>1. CASE i = n + 1
        <5>1. i # 1 /\ i - 1 = n /\ n \in 1 .. n
          BY <2>2, <4>1
        <5>2. longer[i] = tree /\ longer[i - 1] = order[n]
          BY <1>6, <4>1, <5>1
        <5>3. QED
          BY <3>4, <4>1, <5>1, <5>2
      <4>2. CASE i # n + 1
        <5>1. i \in 1 .. n /\ n \in 1 .. n /\ (i # n => i + 1 \in 1 .. n) /\ (i # 1 => i - 1 \in 1 .. n)
          BY <2>2, <4>2
        <5>2. longer[i] = order[i] /\ order[i] \in S /\ (i # n => order[i] # order[n])
          BY <1>5, <1>6, <5>1
        <5>3. next'[longer[i]] = (IF i = n THEN tree ELSE order[i + 1])
          BY <1>8, <3>4, <5>1, <5>2
        <5>4. prev'[longer[i]] = (IF i = 1 THEN NoTree ELSE order[i - 1])
          BY <1>8, <3>4, <5>1, <5>2
        <5>5. /\ i # n => longer[i + 1] = order[i + 1]
              /\ i # 1 => longer[i - 1] = order[i - 1]
              /\ i = n => longer[i + 1] = tree
          BY <1>6, <5>1
        <5>6. QED
          BY <4>2, <5>3, <5>4, <5>5
      <4>3. QED
        BY <4>1, <4>2
    <3>6. list'.first = longer[1] /\ list'.last = longer[n + 1] /\ list'.count = n + 1 /\ n + 1 # 0
      BY <1>6, <1>8, <2>2, <3>3
    <3>7. QED
      BY <3>5, <3>6 DEF Linked
  <2>3. QED
    BY <2>1, <2>2
<1>10. QED
    BY <1>1, <1>3, <1>6, <1>7, <1>9 DEF Listed

\* The middle of entry_delete takes the entry out.
LEMMA UnlinkKeepsList ==
    ASSUME ShapeOK, CallPhases, Unlink, Listed(live)
    PROVE  Listed(live \ {tree})'
<1>1. /\ tree \in live /\ live \subseteq Trees /\ tree \in Trees /\ NoTree \notin Trees
      /\ next \in [Trees -> Trees \union {NoTree}] /\ prev \in [Trees -> Trees \union {NoTree}]
      /\ live' = live /\ tree' = tree
    BY DEF Unlink, CallPhases, ShapeOK, EntriesOK
<1>2. PICK n \in Nat : n = list.count /\ n = Cardinality(live) /\ Cardinality(live \ {tree}) = n - 1
    BY <1>1, LiveCount DEF Listed
<1>3. PICK order \in Bijection(1 .. n, live) : Linked(order)
    BY <1>2 DEF Listed
<1>4. /\ order \in [1 .. n -> live] /\ \A i, j \in 1 .. n : order[i] = order[j] => i = j
      /\ \A e \in live : \E i \in 1 .. n : order[i] = e
    BY <1>3, OrderFacts
<1>5. PICK k \in 1 .. n : order[k] = tree
    BY <1>1, <1>4
<1>6. PICK shorter \in Bijection(1 .. n - 1, live \ {tree}) :
         \A i \in 1 .. n - 1 : shorter[i] = IF i < k THEN order[i] ELSE order[i + 1]
    BY <1>5, OrderShorter
<1>7. /\ list.first = (IF n = 0 THEN NoTree ELSE order[1])
      /\ list.last = (IF n = 0 THEN NoTree ELSE order[n])
      /\ \A i \in 1 .. n : /\ next[order[i]] = (IF i = n THEN NoTree ELSE order[i + 1])
                           /\ prev[order[i]] = (IF i = 1 THEN NoTree ELSE order[i - 1])
    BY <1>2, <1>3 DEF Linked
<1>8. /\ next[tree] = (IF k = n THEN NoTree ELSE order[k + 1])
      /\ prev[tree] = (IF k = 1 THEN NoTree ELSE order[k - 1])
    BY <1>5, <1>7
<1>9. /\ k # n => k + 1 \in 1 .. n /\ order[k + 1] \in Trees
      /\ k # 1 => k - 1 \in 1 .. n /\ order[k - 1] \in Trees
    BY <1>1, <1>4
<1>10. /\ list'.first = (IF list.first = tree THEN next[tree] ELSE list.first)
       /\ list'.last = (IF list.last = tree THEN prev[tree] ELSE list.last)
       /\ list'.count = n - 1
    BY <1>2 DEF Unlink
<1>11. \A i \in 1 .. n : next'[order[i]] = (IF k # 1 /\ i = k - 1 THEN next[tree] ELSE next[order[i]])
  <2>1. next' = IF k # 1 THEN [next EXCEPT ![order[k - 1]] = next[tree]] ELSE next
    BY <1>1, <1>8, <1>9 DEF Unlink
  <2>2. QED
    BY <1>1, <1>4, <1>9, <2>1
<1>12. \A i \in 1 .. n : prev'[order[i]] = (IF k # n /\ i = k + 1 THEN prev[tree] ELSE prev[order[i]])
  <2>1. prev' = IF k # n THEN [prev EXCEPT ![order[k + 1]] = prev[tree]] ELSE prev
    BY <1>1, <1>8, <1>9 DEF Unlink
  <2>2. QED
    BY <1>1, <1>4, <1>9, <2>1
<1>13. list.first = tree <=> k = 1
    BY <1>4, <1>5, <1>7
<1>14. list.last = tree <=> k = n
    BY <1>4, <1>5, <1>7
<1>15. list'.first = (IF n - 1 = 0 THEN NoTree ELSE shorter[1])
  <2>1. n # 1 /\ k = 1 => shorter[1] = order[2] /\ next[tree] = order[2]
    BY <1>6, <1>8
  <2>2. n # 1 /\ k # 1 => shorter[1] = order[1]
    BY <1>6
  <2>3. QED
    BY <1>7, <1>8, <1>10, <1>13, <2>1, <2>2
<1>16. list'.last = (IF n - 1 = 0 THEN NoTree ELSE shorter[n - 1])
  <2>1. n # 1 /\ k = n => shorter[n - 1] = order[n - 1] /\ prev[tree] = order[n - 1]
    BY <1>6, <1>8
  <2>2. n # 1 /\ k # n => shorter[n - 1] = order[n]
    BY <1>6
  <2>3. QED
    BY <1>7, <1>8, <1>10, <1>14, <2>1, <2>2
<1>17. ASSUME NEW i \in 1 .. n - 1
       PROVE  /\ next'[shorter[i]] = (IF i = n - 1 THEN NoTree ELSE shorter[i + 1])
              /\ prev'[shorter[i]] = (IF i = 1 THEN NoTree ELSE shorter[i - 1])
  <2>1. i \in 1 .. n /\ i + 1 \in 1 .. n /\ (i # n - 1 => i + 1 \in 1 .. n - 1)
        /\ (i # 1 => i - 1 \in 1 .. n - 1)
    OBVIOUS
  <2>2. CASE i < k
    <3>1. shorter[i] = order[i] /\ (i # 1 => shorter[i - 1] = order[i - 1])
      BY <1>6, <2>1, <2>2
    <3>2. prev'[order[i]] = (IF i = 1 THEN NoTree ELSE order[i - 1])
      BY <1>7, <1>12, <2>1, <2>2
    <3>3. CASE i = k - 1
      <4>1. next'[order[i]] = (IF k = n THEN NoTree ELSE order[k + 1])
        BY <1>8, <1>11, <2>1, <2>2, <3>3
      <4>2. i # n - 1 => shorter[i + 1] = order[k + 1]
        BY <1>6, <2>1, <3>3
      <4>3. QED
        BY <3>1, <3>2, <3>3, <4>1, <4>2
    <3>4. CASE i # k - 1
      <4>1. next'[order[i]] = order[i + 1]
        BY <1>7, <1>11, <2>1, <2>2, <3>4
      <4>2. i # n - 1 /\ shorter[i + 1] = order[i + 1]
        BY <1>6, <2>1, <2>2, <3>4
      <4>3. QED
        BY <3>1, <3>2, <4>1, <4>2
    <3>5. QED
      BY <3>3, <3>4
  <2>3. CASE ~(i < k)
    <3>1. shorter[i] = order[i + 1] /\ (i # n - 1 => shorter[i + 1] = order[(i + 1) + 1])
      BY <1>6, <2>1, <2>3
    <3>2. next'[order[i + 1]] = (IF i + 1 = n THEN NoTree ELSE order[(i + 1) + 1])
      BY <1>7, <1>11, <2>1, <2>3
    <3>3. CASE i = k
      <4>1. prev'[order[i + 1]] = (IF k = 1 THEN NoTree ELSE order[k - 1])
        BY <1>8, <1>12, <2>1, <3>3
      <4>2. i # 1 => shorter[i - 1] = order[k - 1]
        BY <1>6, <2>1, <3>3
      <4>3. QED
        BY <3>1, <3>2, <3>3, <4>1, <4>2
    <3>4. CASE i # k
      <4>1. prev'[order[i + 1]] = order[i]
        BY <1>7, <1>12, <2>1, <2>3, <3>4
      <4>2. i # 1 /\ shorter[i - 1] = order[i]
        BY <1>6, <2>1, <2>3, <3>4
      <4>3. QED
        BY <3>1, <3>2, <4>1, <4>2
    <3>5. QED
      BY <3>3, <3>4
  <2>4. QED
    BY <2>2, <2>3
<1>18. Linked(shorter)'
    BY <1>10, <1>15, <1>16, <1>17 DEF Linked
<1>19. QED
    BY <1>1, <1>2, <1>6, <1>10, <1>18 DEF Listed

\* What the list is made of changes in Link and Unlink only; elsewhere the trees
\* listed stay, or live changes by the one that is not listed.
LEMMA ListStep == ShapeOK /\ CallPhases /\ ListInv /\ [Next]_vars => ListInv'
<1> SUFFICES ASSUME ShapeOK, CallPhases, ListInv, [Next]_vars PROVE ListInv'
    OBVIOUS
<1>0. /\ live \subseteq Trees /\ tree \in Trees \union {NoTree} /\ NoTree \notin Trees
      /\ call \in {"none", "push", "chunk", "end", "destroy", "destroyed"}
      /\ next \in [Trees -> Trees \union {NoTree}] /\ prev \in [Trees -> Trees \union {NoTree}]
    BY DEF ShapeOK, EntriesOK, CallOK
<1>1. ASSUME UNCHANGED <<list, next, prev>>, call' # "destroyed" => call # "destroyed",
             (live \ Unlisted)' = live \ Unlisted,
             call' = "push" /\ phase' \in {"suspend", "ack", "change"} =>
                call = "push" /\ phase \in {"suspend", "ack", "change"} /\ tree' = tree
      PROVE  ListInv'
  <2>1. \A S : Listed(S) => Listed(S)'
    BY <1>1 DEF Listed, Linked
  <2>2. PICK S : S = live \ Unlisted
    OBVIOUS
  <2>3. call' # "destroyed" => Listed(S)'
    BY <1>1, <2>1, <2>2 DEF ListInv
  <2>4. call' # "destroyed" => Listed(live \ Unlisted)'
    BY <1>1, <2>2, <2>3
  <2>5. QED
    BY <1>1, <2>4 DEF ListInv
<1>2. ASSUME NEW t \in Trees, Push(t) PROVE ListInv'
  <2>1. /\ t \notin live /\ live' = live \cup {t} /\ call = "none" /\ list' = list
        /\ call' = "push" /\ phase' = "suspend" /\ tree' = t
        /\ next' = [next EXCEPT ![t] = NoTree] /\ prev' = [prev EXCEPT ![t] = NoTree]
    BY <1>2 DEF Push, Goto
  <2>2. (live \ Unlisted)' = live
    BY <2>1 DEF Unlisted
  <2>3. Listed(live)
    BY <2>1 DEF ListInv, Unlisted
  <2>4. PICK S : S = live
    OBVIOUS
  <2>5. PICK n \in Nat : n = list.count /\ n = Cardinality(S)
    BY <1>0, <2>3, <2>4, LiveCount DEF Listed
  <2>6. PICK order \in Bijection(1 .. n, S) : Linked(order)
    BY <2>3, <2>4, <2>5 DEF Listed
  <2>7. \A i \in 1 .. n : order[i] \in live /\ order[i] # t
    BY <2>1, <2>4, <2>6, OrderFacts
  <2>8. \A i \in 1 .. n : next'[order[i]] = next[order[i]] /\ prev'[order[i]] = prev[order[i]]
    BY <1>0, <2>1, <2>7
  <2>9. Linked(order)'
    BY <2>1, <2>5, <2>6, <2>8, ZenonT(60) DEF Linked
  <2>10. Listed(S)'
    BY <2>1, <2>5, <2>6, <2>9 DEF Listed
  <2>11. Listed(live \ Unlisted)'
    BY <2>2, <2>4, <2>10
  <2>12. next'[t] = NoTree /\ prev'[t] = NoTree
    BY <1>0, <2>1
  <2>13. QED
    BY <2>1, <2>11, <2>12 DEF ListInv
<1>3. CASE Link
  <2>1. call = "push" /\ phase = "change" /\ call' = call /\ phase' = "resume" /\ tree' = tree
    BY <1>3 DEF Link, Goto
  <2>2. Unlisted = {tree} /\ Unlisted' = {}
    BY <2>1 DEF Unlisted
  <2>3. Listed(live)'
    BY <1>3, <2>1, <2>2, LinkKeepsList DEF ListInv
  <2>4. (live \ Unlisted)' = live'
    BY <2>2
  <2>5. QED
    BY <2>1, <2>3, <2>4 DEF ListInv
<1>4. CASE Unlink
  <2>1. call = "end" /\ phase = "change" /\ call' = call /\ phase' = "resume"
    BY <1>4 DEF Unlink, Goto
  <2>2. Unlisted = {} /\ Unlisted' = {tree'}
    BY <2>1 DEF Unlisted
  <2>3. Listed(live \ {tree})'
    BY <1>4, <2>1, <2>2, UnlinkKeepsList DEF ListInv
  <2>4. (live \ Unlisted)' = (live \ {tree})'
    BY <2>2
  <2>5. QED
    BY <2>1, <2>3, <2>4 DEF ListInv
<1>5. CASE Free
  <2>1. /\ call = "end" /\ phase = "free" /\ live' = live \ {tree} /\ UNCHANGED <<list, next, prev>>
        /\ \/ call' = "end" /\ phase' = "stop"
           \/ call' = "none"
    BY <1>0, <1>5 DEF Free, Goto, Over, CallPhases
  <2>2. (live \ Unlisted)' = live \ Unlisted
    BY <2>1 DEF Unlisted
  <2>3. QED
    BY <1>1, <2>1, <2>2
<1>6. CASE Join
  <2>1. /\ call = "destroy" /\ UNCHANGED <<list, next, prev, tree>>
        /\ call' = "destroyed" \/ (call' = "destroy" /\ live' = live)
    BY <1>0, <1>6 DEF Join, CallPhases
  <2>2. call' # "destroyed" => (live \ Unlisted)' = live \ Unlisted
    BY <2>1 DEF Unlisted
  <2>3. CASE call' = "destroyed"
    BY <2>3 DEF ListInv
  <2>4. CASE call' # "destroyed"
    BY <1>1, <2>1, <2>2, <2>4
  <2>5. QED
    BY <2>3, <2>4
<1>7. CASE UNCHANGED <<listVars, call, tree, phase>>
  <2>1. (live \ Unlisted)' = live \ Unlisted
    BY <1>7 DEF listVars, Unlisted
  <2>2. QED
    BY <1>1, <1>7, <2>1 DEF listVars
<1>8. ASSUME NEW t \in Trees, Chunk(t) \/ Publish(t) \/ End(t) PROVE ListInv'
  <2>1. /\ UNCHANGED listVars /\ call = "none"
        /\ \/ call' = "chunk" /\ phase' = "post"
           \/ call' = "none"
           \/ call' = "end" /\ phase' = "done"
    BY <1>8 DEF Chunk, Publish, End, Goto, mainVars
  <2>2. (live \ Unlisted)' = live \ Unlisted
    BY <2>1 DEF listVars, Unlisted
  <2>3. QED
    BY <1>1, <2>1, <2>2 DEF listVars
<1>9. CASE Destroy \/ Drain \/ Quit \/ QuitAck
  <2>1. UNCHANGED listVars /\ call \in {"none", "destroy"} /\ call' = "destroy"
    BY <1>0, <1>9 DEF Destroy, Drain, Quit, QuitAck, Goto, CallPhases
  <2>2. (live \ Unlisted)' = live \ Unlisted
    BY <2>1 DEF listVars, Unlisted
  <2>3. QED
    BY <1>1, <2>1, <2>2 DEF listVars
<1>10. CASE WaitForDone
  <2>1. /\ UNCHANGED listVars /\ call = "end" /\ phase = "done" /\ call' = "end"
        /\ phase' \in {"suspend", "done"}
    BY <1>0, <1>10 DEF WaitForDone, Goto, CallPhases
  <2>2. (live \ Unlisted)' = live \ Unlisted
    BY <2>1 DEF listVars, Unlisted
  <2>3. QED
    BY <1>1, <2>1, <2>2 DEF listVars
<1>11. CASE Suspend \/ Ack
  <2>1. /\ UNCHANGED <<listVars, tree>> /\ call \in {"push", "end"} /\ call' = call
        /\ phase \in {"suspend", "ack"} /\ phase' \in {"suspend", "ack", "change"}
    BY <1>0, <1>11 DEF Suspend, Ack, Suspended, Goto, CallPhases
  <2>2. (live \ Unlisted)' = live \ Unlisted
    BY <2>1 DEF listVars, Unlisted
  <2>3. QED
    BY <1>1, <2>1, <2>2 DEF listVars
<1>12. CASE Resume
  <2>1. /\ UNCHANGED <<listVars, tree>> /\ call \in {"push", "end"} /\ call' = call
        /\ phase = "resume"
        /\ \/ phase' = "resume"
           \/ call = "push" /\ phase' = "post"
           \/ call = "end" /\ phase' = "free"
    BY <1>0, <1>12 DEF Resume, Goto, CallPhases
  <2>2. (live \ Unlisted)' = live \ Unlisted
    BY <2>1 DEF listVars, Unlisted
  <2>3. QED
    BY <1>1, <2>1, <2>2 DEF listVars
<1>13. CASE Post \/ Stop \/ StopAck
  <2>1. /\ UNCHANGED listVars /\ phase \in {"post", "stop", "stopack"}
        /\ call \in {"push", "chunk", "end"}
        /\ \/ call' = "none"
           \/ call' = call /\ phase' \in {"post", "stop", "stopack"}
    BY <1>0, <1>13 DEF Post, Stop, StopAck, Stopped, Goto, Over, CallPhases
  <2>2. (live \ Unlisted)' = live \ Unlisted
    BY <2>1 DEF listVars, Unlisted
  <2>3. QED
    BY <1>1, <2>1, <2>2 DEF listVars
<1>14. ASSUME NEW w \in Workers, Worker(w) PROVE ListInv'
    BY <1>7, <1>14 DEF Worker, Wake, Woken, Top, Halt, Halted, Leave, First, Look, Work, GoNext,
       Count, Stay, FallAsleep, Leave4Good, Need, mainVars, listVars
<1>15. QED
    BY <1>2, <1>3, <1>4, <1>5, <1>6, <1>7, <1>8, <1>9, <1>10, <1>11, <1>12, <1>13, <1>14 DEF Next,
       Program, Main, Finished, vars, mainVars, listVars

-----------------------------------------------------------------------------
(***************************************************************************)
(* Any number of trees: cursors and the end of the threads.                *)
(***************************************************************************)
\* How far the cursor of a thread moves.
LEMMA StrideFacts == \A w \in Workers : Stride(w) \in Nat
<1>1. IsFiniteSet({Stream}) /\ IsFiniteSet(1 .. Batch)
  <2>1. 1 \in Int /\ Batch \in Int
    OBVIOUS
  <2>2. QED
    BY <2>1, FS_Singleton, FS_Interval
<1>2. QED
    BY <1>1, FS_CardinalityType DEF Stride, Members

\* A document begins with cursors on its first tokens.
LEMMA FreshFacts == FreshCursors \in [Workers -> Nat]
    BY DEF FreshCursors, Workers, Stream

\* The cursors and the counts of tokens stay naturals.
LEMMA CountsStep == ShapeOK /\ CallPhases /\ CountsOK /\ [Next]_vars => CountsOK'
<1> SUFFICES ASSUME ShapeOK, CallPhases, CountsOK, [Next]_vars PROVE CountsOK'
    OBVIOUS
<1>1. CASE UNCHANGED queueVars
    BY <1>1 DEF CountsOK, queueVars
<1>2. ASSUME NEW t \in Trees, Push(t) PROVE CountsOK'
    BY <1>2, FreshFacts DEF CountsOK, Push
<1>3. ASSUME NEW t \in Trees, Publish(t) \/ End(t) PROVE CountsOK'
  <2>1. uses[t] + 1 \in Nat /\ uses' = [uses EXCEPT ![t] = uses[t] + 1] /\ use' = use
    BY <1>3 DEF CountsOK, Publish, End
  <2>2. QED
    BY <2>1 DEF CountsOK
<1>4. ASSUME NEW w \in Workers, Work(w) PROVE CountsOK'
  <2>1. at[w] \in Trees /\ Stride(w) \in Nat
    BY <1>4, StrideFacts DEF Work, ShapeOK, EntriesOK
  <2>2. use[at[w]] \in [Workers -> Nat]
    BY <2>1 DEF CountsOK
  <2>3. [use[at[w]] EXCEPT ![w] = @ + Stride(w)] \in [Workers -> Nat]
    BY <2>1, <2>2
  <2>4. use' = [use EXCEPT ![at[w]] = [use[at[w]] EXCEPT ![w] = @ + Stride(w)]]
    BY <1>4, <2>1, <2>2 DEF Work, CountsOK
  <2>5. QED
    BY <1>4, <2>1, <2>3, <2>4 DEF Work, CountsOK
<1>5. QED
    BY <1>1, <1>2, <1>3, <1>4 DEF Next, Program, Main, Destroy, Chunk, WaitForDone, Suspend, Ack,
       Link, Unlink, Resume, Post, Free, Stop, StopAck, Drain, Quit, QuitAck, Join, Finished, vars,
       Worker, Wake, Woken, Top, Halt, Halted, Leave, First, Look, GoNext, Count, Stay, FallAsleep,
       Leave4Good, Need

\* A cursor never falls back behind the end of a queue while no token is added.
LEMMA WorkKeepsDone ==
    ASSUME ShapeOK, CountsOK, NEW w \in Workers, Worker(w),
           NEW e \in Trees, NEW v \in Workers, Done(e, v)
    PROVE  Done(e, v)'
<1>1. CASE UNCHANGED queueVars
    BY <1>1 DEF Done, queueVars
<1>2. CASE Work(w)
  <2>1. at[w] \in Trees /\ Stride(w) \in Nat
    BY <1>2, StrideFacts DEF Work, ShapeOK, EntriesOK
  <2>2. use[at[w]] \in [Workers -> Nat] /\ use[e] \in [Workers -> Nat] /\ uses[e] \in Nat
    BY <2>1 DEF CountsOK
  <2>3. use'[e][v] = (IF e = at[w] /\ v = w THEN use[e][v] + Stride(w) ELSE use[e][v])
    BY <1>2, <2>1, <2>2 DEF Work, CountsOK
  <2>4. use[e][v] >= uses[e] /\ use[e][v] \in Nat /\ uses' = uses
    BY <1>2, <2>2 DEF Done, Work
  <2>5. use'[e][v] >= uses[e]
    BY <2>1, <2>2, <2>3, <2>4
  <2>6. QED
    BY <2>4, <2>5 DEF Done
<1>3. QED
    BY <1>1, <1>2 DEF Worker, Wake, Woken, Top, Halt, Halted, Leave, First, Look, GoNext, Count,
       Stay, FallAsleep, Leave4Good, Need

\* What DoneInv says of one thread.
EndedInv(w) ==
    /\ opt[Group(w)] = "QUIT" \/ seen[w] = "QUIT" \/ wpc[w] = "gone" => Ending
    /\ wpc[w] = "gone" => \A e \in Trees : Done(e, w)
    /\ GoneNow(w) => wpc[w] = "gone"

\* DoneInv, with what it says of each thread taken together.
LEMMA DoneParts ==
    DoneInv <=>
      /\ \A e \in Trees \ live, w \in Workers : Done(e, w)
      /\ call = "end" /\ phase \notin {"stop", "stopack"} =>
            \A w \in Workers : phase # "done" \/ w < wi => Done(tree, w)
      /\ \A w \in Workers : EndedInv(w)
    BY DEF DoneInv, EndedInv

\* A step of a thread: it ends with all queues done.
LEMMA WorkerDone ==
    ASSUME ShapeOK, CallPhases, CountsOK, DoneInv, NEW w \in Workers, Worker(w)
    PROVE  DoneInv'
<1>1. UNCHANGED <<opt, live, call, tree, phase, gi, wi>>
    BY DEF Worker, Wake, Woken, Top, Halt, Halted, Leave, First, Look, Work, GoNext, Count, Stay,
       FallAsleep, Leave4Good, Need, groupVars, listVars, mainVars
<1>2. /\ wpc = [x \in Workers |-> wpc[x]] /\ seen = [x \in Workers |-> seen[x]]
      /\ live \subseteq Trees
      /\ call \in {"push", "chunk", "end"} => tree \in Trees
    BY DEF ShapeOK, WalksOK, EntriesOK, CallPhases
<1>3. \A e \in Trees, v \in Workers : Done(e, v) => Done(e, v)'
    BY WorkKeepsDone
<1>4. \A e \in Trees \ live, v \in Workers : Done(e, v)'
    BY <1>3 DEF DoneInv
<1>5. call = "end" /\ phase \notin {"stop", "stopack"} =>
         \A v \in Workers : phase # "done" \/ v < wi => Done(tree, v)'
  <2>1. PICK e : e = tree
    OBVIOUS
  <2>2. \A v \in Workers : e \in Trees /\ Done(e, v) => Done(e, v)'
    BY <1>3
  <2>3. \A v \in Workers : Done(e, v)' => Done(tree, v)'
    BY <1>1, <2>1 DEF Done
  <2>4. call = "end" /\ phase \notin {"stop", "stopack"} =>
            \A v \in Workers : phase # "done" \/ v < wi => Done(e, v) /\ e \in Trees
    BY <1>2, <2>1 DEF DoneInv
  <2>5. QED
    BY <2>2, <2>3, <2>4
<1>6. ASSUME NEW v \in Workers PROVE EndedInv(v)'
  <2>1. EndedInv(v)
    BY DoneParts
  <2>2. CASE v # w
    <3>1. wpc'[v] = wpc[v] /\ seen'[v] = seen[v]
      BY <1>2, <2>2 DEF Worker, Wake, Woken, Top, Halt, Halted, Leave, First, Look, Work, GoNext,
         Count, Stay, FallAsleep, Leave4Good, Need, Become, Rest
    <3>2. QED
      BY <1>1, <1>3, <2>1, <3>1 DEF EndedInv, Ending, GoneNow
  <2>3. CASE v = w /\ Leave4Good(v)
    <3>1. seen[v] = "QUIT" /\ wpc'[v] = "gone" /\ \A e \in live : Done(e, v)
      BY <1>2, <2>3 DEF Leave4Good, Rest, Become
    <3>2. Ending /\ \A e \in Trees : Done(e, v)
      BY <2>1, <3>1 DEF EndedInv, DoneInv
    <3>3. QED
      BY <1>1, <1>3, <3>1, <3>2 DEF EndedInv, Ending
  <2>4. CASE v = w /\ Count(v)
    <3>1. wpc[v] = "count" /\ wpc'[v] \in {"option", "top"} /\ seen'[v] \in {opt[Group(v)], "UNDEF"}
      BY <1>2, <2>4 DEF Count, Become, Rest
    <3>2. QED
      BY <1>1, <2>1, <3>1 DEF EndedInv, Ending, GoneNow
  <2>5. CASE v = w /\ ~Leave4Good(v) /\ ~Count(v)
    <3>1. wpc[v] # "gone" /\ wpc'[v] # "gone" /\ seen'[v] \in {seen[v], "UNDEF"}
      BY <1>2, <2>5 DEF Worker, Wake, Woken, Top, Halt, Halted, Leave, First, Look, Work, GoNext,
         Stay, FallAsleep, Need, Become, Rest
    <3>2. QED
      BY <1>1, <2>1, <3>1 DEF EndedInv, Ending, GoneNow
  <2>6. QED
    BY <2>2, <2>3, <2>4, <2>5
<1>7. QED
    BY <1>1, <1>4, <1>5, <1>6 DEF DoneInv, EndedInv

\* A step of the program or of a call: a queue is given up after every thread
\* was waited for, and nothing is published once the threads are being ended.
LEMMA MainDone ==
    ASSUME ShapeOK, CallPhases, CountsOK, DoneInv, Program \/ Main
    PROVE  DoneInv'
<1>1. /\ wpc' = wpc /\ seen' = seen
      /\ live \subseteq Trees /\ tree \in Trees \union {NoTree} /\ opt \in [Groups -> Options]
      /\ call \in {"push", "chunk", "end"} => tree \in Trees
      /\ gi \in Groups /\ Groups = {1, 2} /\ wi \in Workers /\ Workers = 0 .. Batch
      /\ call \in {"none", "push", "chunk", "end", "destroy", "destroyed"}
    BY ThreadBounds DEF Program, Destroy, Push, Chunk, Publish, End, Main, WaitForDone, Suspend, Ack,
       Link, Unlink, Resume, Post, Free, Stop, StopAck, Drain, Quit, QuitAck, Join, workerVars,
       ShapeOK, EntriesOK, CallOK, WordsOK, CallPhases, Workers
<1>2. /\ \A e \in Trees \ live, w \in Workers : Done(e, w)
      /\ call = "end" /\ phase \notin {"stop", "stopack"} =>
            \A w \in Workers : phase # "done" \/ w < wi => Done(tree, w)
      /\ \A w \in Workers : EndedInv(w)
    BY DoneParts
<1>3. \A w \in Workers : Group(w) \in Groups /\ w \in Int
    BY GroupFacts
\* The calls that leave all queues as they are, and end no thread.
<1>4. ASSUME UNCHANGED <<queueVars, live>>, call \notin {"destroy", "destroyed"},
             call' \notin {"destroy", "destroyed"},
             \A g \in Groups : opt'[g] \in {opt[g], "UNDEF", "WAIT", "STOP"},
             call' = "end" /\ phase' \notin {"stop", "stopack"} =>
                \A w \in Workers : phase' # "done" \/ w < wi' => Done(tree', w)
      PROVE  DoneInv'
  <2>2. ASSUME NEW w \in Workers PROVE EndedInv(w)'
    <3>1. EndedInv(w) /\ ~Ending /\ ~Ending'
      BY <1>2, <1>4 DEF Ending
    <3>2. opt[Group(w)] # "QUIT" /\ seen[w] # "QUIT" /\ wpc[w] # "gone"
      BY <3>1 DEF EndedInv
    <3>3. opt'[Group(w)] # "QUIT"
      BY <1>3, <1>4, <3>2
    <3>4. ~GoneNow(w)'
      BY <1>4 DEF GoneNow
    <3>5. QED
      BY <1>1, <3>2, <3>3, <3>4 DEF EndedInv
  <2>3. \A e \in Trees \ live, w \in Workers : Done(e, w)'
    BY <1>2, <1>4 DEF Done, queueVars
  <2>4. call' = "end" /\ phase' \notin {"stop", "stopack"} =>
            \A w \in Workers : phase' # "done" \/ w < wi' => Done(tree, w)'
    BY <1>4 DEF Done, queueVars
  <2>5. QED
    BY <1>4, <2>2, <2>3, <2>4 DEF DoneInv, EndedInv
<1>5. CASE WaitForDone
  <2>1. Done(tree, wi) /\ call = "end" /\ phase = "done"
    BY <1>1, <1>5 DEF WaitForDone, CallPhases
  <2>2. \A w \in Workers : w < wi \/ w = wi => Done(tree, w)
    BY <1>2, <2>1
  <2>3. wi # Batch => \A w \in Workers : w < wi + 1 => w < wi \/ w = wi
    BY <1>1
  <2>4. wi = Batch => \A w \in Workers : w < wi \/ w = wi
    BY <1>1
  <2>5. QED
    BY <1>4, <1>5, <2>1, <2>2, <2>3, <2>4 DEF WaitForDone, Goto, groupVars, listVars
<1>6. CASE Suspend \/ Ack \/ Link \/ Unlink \/ Resume \/ Stop \/ StopAck \/ Post
  <2>1. UNCHANGED <<queueVars, live>> /\ call \in {"push", "chunk", "end"}
    BY <1>1, <1>6 DEF Suspend, Ack, Link, Unlink, Resume, Stop, StopAck, Post, CallPhases, listVars
  <2>2. call' \in {call, "none"} /\ (call' = "end" => tree' = tree /\ phase' # "done")
    BY <1>1, <1>6 DEF Suspend, Ack, Suspended, Link, Unlink, Resume, Stop, StopAck, Stopped, Post,
       Goto, Over, CallPhases
  <2>3. call' = "end" /\ phase' \notin {"stop", "stopack"} =>
            call = "end" /\ phase \notin {"done", "stop", "stopack"}
    BY <1>1, <1>6 DEF Suspend, Ack, Suspended, Link, Unlink, Resume, Stop, StopAck, Stopped, Post,
       Goto, Over, CallPhases
  <2>4. \A g \in Groups : opt'[g] \in {opt[g], "UNDEF", "WAIT", "STOP"}
    BY <1>1, <1>6 DEF Suspend, Ack, Link, Unlink, Resume, Stop, StopAck, Post, Send, groupVars
  <2>5. call' = "end" /\ phase' \notin {"stop", "stopack"} =>
            \A w \in Workers : phase' # "done" \/ w < wi' => Done(tree', w)
    BY <1>2, <2>2, <2>3
  <2>6. QED
    BY <1>4, <2>1, <2>2, <2>4, <2>5
<1>7. ASSUME NEW t \in Trees, Push(t) \/ Publish(t) \/ End(t) PROVE DoneInv'
  <2>1. /\ UNCHANGED opt /\ call = "none" /\ t \in live'
        /\ live \subseteq live' /\ call' \in {"push", "none", "end"}
    BY <1>7 DEF Push, Publish, End, groupVars, listVars, mainVars
  <2>2. \A e \in Trees : e # t => use'[e] = use[e] /\ uses'[e] = uses[e]
    BY <1>7 DEF Push, Publish, End, CountsOK
  <2>3. \A e \in Trees \ live', w \in Workers : Done(e, w)'
    BY <1>2, <2>1, <2>2 DEF Done
  <2>4. call' = "end" => phase' = "done" /\ wi' = 0
    BY <1>7, <2>1 DEF Push, Publish, End, Goto, mainVars, Stream
  <2>5. call' = "end" /\ phase' \notin {"stop", "stopack"} =>
            \A w \in Workers : phase' # "done" \/ w < wi' => Done(tree, w)'
    BY <1>1, <2>4
  <2>6. ASSUME NEW w \in Workers PROVE EndedInv(w)'
    BY <1>1, <1>2, <2>1 DEF EndedInv, Ending, GoneNow
  <2>7. QED
    BY <2>3, <2>5, <2>6 DEF DoneInv, EndedInv
<1>8. ASSUME NEW t \in Trees, Chunk(t) PROVE DoneInv'
    BY <1>4, <1>8 DEF Chunk, groupVars, listVars
<1>9. CASE Free
  <2>1. /\ call = "end" /\ phase = "free" /\ live' = live \ {tree} /\ UNCHANGED <<opt, queueVars>>
        /\ call' \in {"none", "end"} /\ (call' = "end" => phase' = "stop")
    BY <1>1, <1>9 DEF Free, CallPhases, Goto, Over, groupVars
  <2>2. \A w \in Workers : Done(tree, w)
    BY <1>2, <2>1
  <2>3. \A e \in Trees \ live', w \in Workers : Done(e, w)'
    BY <1>2, <2>1, <2>2 DEF Done, queueVars
  <2>4. ASSUME NEW w \in Workers PROVE EndedInv(w)'
    BY <1>1, <1>2, <2>1 DEF EndedInv, Ending, GoneNow
  <2>5. QED
    BY <2>1, <2>3, <2>4 DEF DoneInv, EndedInv
\* The threads are ended: queues and cursors stay.
<1>10. ASSUME UNCHANGED queueVars, Ending', live' = live \/ \A e \in Trees, w \in Workers : Done(e, w),
              \A w \in Workers : GoneNow(w)' => wpc[w] = "gone"
       PROVE  DoneInv'
  <2>1. \A e \in Trees \ live', w \in Workers : Done(e, w)'
    BY <1>2, <1>10 DEF Done, queueVars
  <2>2. ASSUME NEW w \in Workers PROVE EndedInv(w)'
    BY <1>1, <1>2, <1>10 DEF EndedInv, Done, queueVars
  <2>3. call' # "end"
    BY <1>10 DEF Ending
  <2>4. QED
    BY <2>1, <2>2, <2>3 DEF DoneInv, EndedInv
<1>11. CASE Destroy \/ Drain
  <2>1. /\ UNCHANGED <<queueVars, live>> /\ Ending' /\ call' = "destroy"
        /\ \/ phase' = "drain"
           \/ phase' = "quit" /\ gi' = 1
    BY <1>1, <1>11 DEF Destroy, Drain, Goto, listVars, CallPhases, Ending
  <2>2. \A w \in Workers : ~GoneNow(w)'
    BY <1>3, <2>1, ThreadBounds DEF GoneNow
  <2>3. QED
    BY <1>10, <2>1, <2>2
<1>12. CASE Quit
  <2>1. /\ UNCHANGED <<queueVars, live>> /\ call = "destroy" /\ call' = "destroy"
        /\ phase = "quit" /\ phase' = "quitack" /\ gi' = gi /\ wi' = FirstOf(gi)
    BY <1>1, <1>12 DEF Quit, Goto, listVars, CallPhases
  <2>2. ASSUME NEW w \in Workers PROVE GoneNow(w)' => wpc[w] = "gone"
    <3>1. Group(w) = gi => FirstOf(gi) <= w
      BY <1>1, GroupFacts
    <3>2. FirstOf(gi) \in Int
      BY <1>1, GroupFacts
    <3>3. GoneNow(w)' => GoneNow(w)
      BY <1>1, <1>3, <2>1, <3>1, <3>2 DEF GoneNow
    <3>4. QED
      BY <1>2, <3>3 DEF EndedInv
  <2>3. QED
    BY <1>10, <2>1, <2>2 DEF Ending
<1>13. CASE QuitAck
  <2>1. /\ UNCHANGED <<queueVars, live>> /\ call = "destroy" /\ call' = "destroy"
        /\ phase = "quitack" /\ phase' = "join" /\ gi' = gi /\ wi' = wi
    BY <1>1, <1>13 DEF QuitAck, Goto, listVars, CallPhases
  <2>2. \A w \in Workers : GoneNow(w)' => GoneNow(w)
    BY <2>1 DEF GoneNow
  <2>3. QED
    BY <1>2, <1>10, <2>1, <2>2 DEF Ending, EndedInv
<1>14. CASE Join
  <2>1. UNCHANGED queueVars /\ call = "destroy" /\ phase = "join" /\ wpc[wi] = "gone" /\ Group(wi) = gi
    BY <1>1, <1>14, GroupFacts DEF Join, CallPhases
  <2>2. \A w \in Workers : Group(w) < gi \/ (Group(w) = gi /\ w < wi) => wpc[w] = "gone"
    BY <1>1, <1>2, <1>3, <2>1 DEF EndedInv, GoneNow
  <2>3. \A w \in Workers : Group(w) = gi => w <= LastOf(gi)
    BY <1>1, GroupFacts
  <2>4. LastOf(gi) \in Int
    BY <1>1, GroupFacts
  <2>5. CASE wi < LastOf(gi)
    <3>1. live' = live /\ call' = "destroy" /\ phase' = "quitack" /\ gi' = gi /\ wi' = wi + 1
      BY <1>14, <2>1, <2>5 DEF Join, Goto
    <3>2. \A w \in Workers : GoneNow(w)' => wpc[w] = "gone"
      BY <1>1, <1>3, <2>1, <2>2, <3>1 DEF GoneNow
    <3>3. QED
      BY <1>10, <2>1, <3>1, <3>2 DEF Ending
  <2>6. CASE ~(wi < LastOf(gi)) /\ gi = 1
    <3>1. live' = live /\ call' = "destroy" /\ phase' = "quit" /\ gi' = 2
      BY <1>14, <2>1, <2>6 DEF Join, Goto
    <3>2. \A w \in Workers : Group(w) = gi => wpc[w] = "gone"
      BY <1>1, <1>3, <2>1, <2>2, <2>3, <2>4, <2>6
    <3>3. \A w \in Workers : GoneNow(w)' => wpc[w] = "gone"
      BY <1>1, <1>3, <2>6, <3>1, <3>2 DEF GoneNow
    <3>4. QED
      BY <1>10, <2>1, <3>1, <3>3 DEF Ending
  <2>7. CASE ~(wi < LastOf(gi)) /\ gi = 2
    <3>1. live' = {} /\ call' = "destroyed"
      BY <1>14, <2>1, <2>7 DEF Join, Goto
    <3>2. \A w \in Workers : wpc[w] = "gone"
      BY <1>1, <1>3, <2>1, <2>2, <2>3, <2>4, <2>7
    <3>3. \A e \in Trees, w \in Workers : Done(e, w)
      BY <1>2, <3>2 DEF EndedInv
    <3>4. QED
      BY <1>10, <2>1, <3>1, <3>2, <3>3 DEF Ending
  <2>8. QED
    BY <1>1, <2>5, <2>6, <2>7
<1>15. QED
    BY <1>5, <1>6, <1>7, <1>8, <1>9, <1>11, <1>12, <1>13, <1>14 DEF Program, Main

\* The invariant for any number of trees holds before myhtml_t is used.
LEMMA EveryTreeInit == Init => EveryTreeInv
<1> SUFFICES ASSUME Init PROVE EveryTreeInv
    OBVIOUS
<1>1. Stream \in Workers /\ 0 \in Workers /\ Groups = {1, 2} /\ NoTree \notin Trees
    BY ThreadBounds DEF Stream
<1>2. ShapeOK
    BY <1>1 DEF Init, ShapeOK, WordsOK, WalksOK, EntriesOK, CallOK, Options
<1>3. CallPhases
    BY DEF Init, CallPhases
<1>4. CountsOK
    BY FreshFacts DEF Init, CountsOK
<1>5. \A e \in Trees, w \in Workers : Done(e, w)
    BY FreshFacts DEF Init, Done
<1>6. \A w \in Workers : EndedInv(w)
    BY GroupFacts DEF Init, EndedInv, GoneNow
<1>7. DoneInv
    BY <1>5, <1>6, DoneParts DEF Init
<1>8. Listed({})
  <2>1. list = [first |-> NoTree, last |-> NoTree, count |-> 0]
    BY DEF Init
  <2>2. Cardinality({}) = 0
    BY FS_EmptySet
  <2>3. \A i \in 1 .. 0 : FALSE
    OBVIOUS
  <2> DEFINE empty == [i \in 1 .. 0 |-> NoTree]
  <2>4. empty \in Bijection(1 .. 0, {})
    BY <2>3, OrderFrom
  <2>5. Linked(empty)
    BY <2>1, <2>3 DEF Linked
  <2>6. QED
    BY <2>1, <2>2, <2>4, <2>5 DEF Listed
<1>9. live \ Unlisted = {}
    BY DEF Init, Unlisted
<1>10. ListInv
    BY <1>8, <1>9 DEF Init, ListInv
<1>11. QED
    BY <1>2, <1>3, <1>4, <1>7, <1>10 DEF EveryTreeInv

\* Every step keeps it.
LEMMA EveryTreeStep == EveryTreeInv /\ [Next]_vars => EveryTreeInv'
<1> SUFFICES ASSUME EveryTreeInv, [Next]_vars PROVE EveryTreeInv'
    OBVIOUS
<1>1. ShapeOK' /\ CallPhases' /\ ListInv' /\ CountsOK'
    BY ShapeStep, PhaseStep, ListStep, CountsStep DEF EveryTreeInv
<1>2. CASE UNCHANGED vars
    BY <1>1, <1>2 DEF vars, groupVars, workerVars, listVars, queueVars, mainVars, EveryTreeInv,
       DoneInv, Done, GoneNow, Ending
<1>3. CASE Program \/ Main
    BY <1>1, <1>3, MainDone DEF EveryTreeInv
<1>4. ASSUME NEW w \in Workers, Worker(w) PROVE EveryTreeInv'
    BY <1>1, <1>4, WorkerDone DEF EveryTreeInv
<1>5. QED
    BY <1>2, <1>3, <1>4 DEF Next, Finished

\* Any number of trees: the invariant behind both theorems below.
LEMMA EveryTreeInvariance == Spec => []EveryTreeInv
    BY EveryTreeInit, EveryTreeStep, PTL DEF Spec

\* Whatever calls are made for however many trees, between calls the list of
\* queues holds the trees being parsed, linked in both directions from first to
\* last: entry_push and entry_delete keep it, at the front, in the middle and
\* at the end.
THEOREM ListStaysSound == Spec => []ListSound
<1>1. EveryTreeInv => ListSound
    BY DEF EveryTreeInv, ListInv, Unlisted, ListSound
<1>2. QED
    BY <1>1, EveryTreeInvariance, PTL

\* Once myhtml_destroy is through, every thread has ended and no token of any
\* tree was left to any of them, although only the cursors of the stream thread
\* were waited for.
THEOREM NothingRunsOn == Spec => []DestroyedClean
<1>1. EveryTreeInv => DestroyedClean
    BY DEF EveryTreeInv, DoneInv, GoneNow, DestroyedClean
<1>2. QED
    BY <1>1, EveryTreeInvariance, PTL
===============================================================================
