---------------------------- MODULE ThreadControl ----------------------------
(***************************************************************************)
(* How the main thread halts, wakes and ends the worker threads of one     *)
(* myhtml_t (mythread_suspend, _resume, _stop, _quit), and how trees enter *)
(* and leave the list of queues the workers walk through.                  *)
(*                                                                         *)
(* The list has no lock: mythread_queue_list_entry_push and _delete change *)
(* it while every worker is believed to be outside it.  A worker says so   *)
(* through its option word ctx->opt, the main thread asks for it through   *)
(* the option word of the group, mythread->opt.  A worker that is stopped  *)
(* sleeps on a mutex the main thread unlocks.                              *)
(*                                                                         *)
(* One main thread drives all trees; module ThreadQueue has the rounds of  *)
(* a queue, here a queue is as long as a document (MaxTokens).             *)
(***************************************************************************)
EXTENDS Integers, FiniteSets, Functions

CONSTANTS
    Trees,       \* trees parsed with one myhtml_t
    NoTree,      \* no entry, a NULL pointer
    Batch,       \* batch threads, thread_count - 1
    MaxTokens,   \* bound: tokens of a document, the EOF included
    MaxParses    \* bound: documents parsed, over all trees

ASSUME TreesAssumption == Trees # {} /\ IsFiniteSet(Trees) /\ NoTree \notin Trees
ASSUME ThreadAssumption == Batch \in Nat \ {0}
ASSUME WorkAssumption == MaxTokens \in Nat \ {0} /\ MaxParses \in Nat

Stream  == 0
Workers == 0 .. Batch
Groups  == {1, 2}         \* thread_list: thread_stream, thread_batch
Members(g) == IF g = 1 THEN {Stream} ELSE 1 .. Batch
Group(w) == IF w = Stream THEN 1 ELSE 2
FirstOf(g) == IF g = 1 THEN Stream ELSE 1
LastOf(g) == IF g = 1 THEN Stream ELSE Batch
Stride(w) == Cardinality(Members(Group(w)))   \* mythread->entries_length

Options == {"UNDEF", "WAIT", "STOP", "QUIT"}

VARIABLES
    opt,         \* mythread->opt of each group
    ctx,         \* ctx->opt of each worker
    unlocked,    \* the mutex of each worker is free
    wpc,         \* what each worker does next
    at,          \* its local entry
    idle,        \* its local done_count
    seen,        \* the group option it has passed to mythread_function_see_opt
    list,        \* mythread_queue_list_t: first, last, count
    next, prev,  \* the links of the entries
    live,        \* trees whose entry is allocated
    uses,        \* queue->nodes_uses of each tree
    use,         \* entry->thread_param[].use
    call, tree,  \* the call the main thread is in, and its tree
    phase, gi, wi,   \* where it is in the call: step, group, worker
    parses       \* documents begun (history, bounded by MaxParses)

groupVars == <<opt, ctx, unlocked>>
workerVars == <<wpc, at, idle, seen>>
listVars == <<list, next, prev, live>>
queueVars == <<uses, use>>
mainVars == <<call, tree, phase, gi, wi, parses>>
vars == <<groupVars, workerVars, listVars, queueVars, mainVars>>

FreshCursors == [w \in Workers |-> IF w = Stream THEN 0 ELSE w - 1]

\* myhtml_init: the mutex of a worker is locked before its thread starts.
Init ==
    /\ opt = [g \in Groups |-> "UNDEF"] /\ ctx = [w \in Workers |-> "STOP"]
    /\ unlocked = [w \in Workers |-> FALSE]
    /\ wpc = [w \in Workers |-> "start"] /\ at = [w \in Workers |-> NoTree]
    /\ idle = [w \in Workers |-> 0] /\ seen = [w \in Workers |-> "UNDEF"]
    /\ list = [first |-> NoTree, last |-> NoTree, count |-> 0]
    /\ next = [e \in Trees |-> NoTree] /\ prev = [e \in Trees |-> NoTree]
    /\ live = {}
    /\ uses = [e \in Trees |-> 0] /\ use = [e \in Trees |-> FreshCursors]
    /\ call = "none" /\ tree = NoTree /\ phase = "none" /\ gi = 1 /\ wi = 0
    /\ parses = 0

Done(e, w) == use[e][w] >= uses[e]

-----------------------------------------------------------------------------
(***************************************************************************)
(* Main thread.  A call is a sequence of phases; Goto enters one.          *)
(***************************************************************************)
Goto(p, g, w) == phase' = p /\ gi' = g /\ wi' = w
Over == call' = "none" /\ tree' = NoTree /\ Goto("none", 1, 0)


\* myhtml_tree_clean and entry_push: the entry of t is private until Link.
Push(t) ==
    /\ call = "none" /\ t \notin live /\ parses < MaxParses
    /\ parses' = parses + 1
    /\ live' = live \union {t}
    /\ next' = [next EXCEPT ![t] = NoTree] /\ prev' = [prev EXCEPT ![t] = NoTree]
    /\ uses' = [uses EXCEPT ![t] = 0] /\ use' = [use EXCEPT ![t] = FreshCursors]
    /\ call' = "push" /\ tree' = t /\ Goto("suspend", 1, 0)
    /\ UNCHANGED <<groupVars, workerVars, list>>

\* myhtml_parse_chunk on a tree that is being parsed: tokenizer_post.
Chunk(t) ==
    /\ call = "none" /\ t \in live
    /\ call' = "chunk" /\ tree' = t /\ Goto("post", 1, 0)
    /\ UNCHANGED <<groupVars, workerVars, listVars, queueVars, parses>>

\* A token is published, see module ThreadQueue.
Publish(t) ==
    /\ call = "none" /\ t \in live /\ uses[t] < MaxTokens - 1
    /\ uses' = [uses EXCEPT ![t] = @ + 1]
    /\ UNCHANGED <<groupVars, workerVars, listVars, use, mainVars>>

\* myhtml_tokenizer_end: the EOF is published, then every cursor is waited for.
End(t) ==
    /\ call = "none" /\ t \in live
    /\ uses' = [uses EXCEPT ![t] = @ + 1]
    /\ call' = "end" /\ tree' = t /\ Goto("done", 1, Stream)
    /\ UNCHANGED <<groupVars, workerVars, listVars, use, parses>>

WaitForDone ==
    /\ phase = "done" /\ Done(tree, wi)
    /\ IF wi = Batch THEN Goto("suspend", 1, 0) ELSE Goto("done", 1, wi + 1)
    /\ UNCHANGED <<groupVars, workerVars, listVars, queueVars, call, tree, parses>>

\* The next group to suspend, or the change of the list.
Suspended == IF gi = 1 THEN Goto("suspend", 2, 0) ELSE Goto("change", 1, 0)

\* Faulty variant of Ack: no answer is waited for.
AckNone ==
    /\ phase = "ack"
    /\ Suspended
    /\ UNCHANGED <<groupVars, workerVars, listVars, queueVars, call, tree, parses>>

\* mythread_suspend.
Suspend ==
    /\ phase = "suspend"
    /\ IF opt[gi] = "WAIT"
         THEN Suspended /\ UNCHANGED opt
         ELSE opt' = [opt EXCEPT ![gi] = "WAIT"] /\ Goto("ack", gi, FirstOf(gi))
    /\ UNCHANGED <<ctx, unlocked, workerVars, listVars, queueVars, call, tree, parses>>

Ack ==
    /\ phase = "ack" /\ ctx[wi] \in {"STOP", "WAIT"}
    /\ IF wi = LastOf(gi) THEN Suspended ELSE Goto("ack", gi, wi + 1)
    /\ UNCHANGED <<groupVars, workerVars, listVars, queueVars, call, tree, parses>>

\* The middle of entry_push: the entry goes to the end of the list.
Link ==
    /\ phase = "change" /\ call = "push"
    /\ IF list.first # NoTree
         THEN /\ next' = [next EXCEPT ![list.last] = tree]
              /\ prev' = [prev EXCEPT ![tree] = list.last]
              /\ list' = [first |-> list.first, last |-> tree, count |-> list.count + 1]
         ELSE /\ list' = [first |-> tree, last |-> tree, count |-> list.count + 1]
              /\ UNCHANGED <<next, prev>>
    /\ Goto("resume", 1, 0)
    /\ UNCHANGED <<groupVars, workerVars, live, queueVars, call, tree, parses>>

\* Faulty variant of Unlink: list->last is not moved back.
UnlinkKeepsLast ==
    /\ phase = "change" /\ call = "end"
    /\ LET n == next[tree]  p == prev[tree] IN
         /\ next' = IF p # NoTree THEN [next EXCEPT ![p] = n] ELSE next
         /\ prev' = IF n # NoTree THEN [prev EXCEPT ![n] = p] ELSE prev
         /\ list' = [first |-> IF list.first = tree THEN n ELSE list.first,
                     last  |-> list.last,
                     count |-> list.count - 1]
    /\ Goto("resume", 1, 0)
    /\ UNCHANGED <<groupVars, workerVars, live, queueVars, call, tree, parses>>

\* The middle of entry_delete.
Unlink ==
    /\ phase = "change" /\ call = "end"
    /\ LET n == next[tree]  p == prev[tree] IN
         /\ next' = IF p # NoTree THEN [next EXCEPT ![p] = n] ELSE next
         /\ prev' = IF n # NoTree THEN [prev EXCEPT ![n] = p] ELSE prev
         /\ list' = [first |-> IF list.first = tree THEN n ELSE list.first,
                     last  |-> IF list.last = tree THEN p ELSE list.last,
                     count |-> list.count - 1]
    /\ Goto("resume", 1, 0)
    /\ UNCHANGED <<groupVars, workerVars, live, queueVars, call, tree, parses>>

\* Faulty variant of Resume: the batch threads are not resumed.
ResumeStreamOnly ==
    /\ phase = "resume"
    /\ opt' = [opt EXCEPT ![1] = "UNDEF"]
    /\ IF call = "push" THEN Goto("post", 1, 0) ELSE Goto("free", 1, 0)
    /\ UNCHANGED <<ctx, unlocked, workerVars, listVars, queueVars, call, tree, parses>>

\* mythread_resume(UNDEF) of a group that was suspended: the option is all that
\* is sent, a worker that sleeps on its mutex goes on sleeping.
Resume ==
    /\ phase = "resume" /\ opt[gi] = "WAIT"
    /\ opt' = [opt EXCEPT ![gi] = "UNDEF"]
    /\ IF gi = 1 THEN Goto("resume", 2, 0)
       ELSE IF call = "push" THEN Goto("post", 1, 0) ELSE Goto("free", 1, 0)
    /\ UNCHANGED <<ctx, unlocked, workerVars, listVars, queueVars, call, tree, parses>>

\* mythread_resume of a group that was not suspended: workers that are stopped
\* get the option and their mutex, all in one step: none of them can tell.
Send(g, o) ==
    LET woken == {w \in Members(g) : ctx[w] = "STOP"} IN
    /\ opt' = [opt EXCEPT ![g] = o]
    /\ ctx' = [w \in Workers |-> IF w \in woken THEN o ELSE ctx[w]]
    /\ unlocked' = [w \in Workers |-> w \in woken \/ unlocked[w]]

\* Faulty variant of Post: the option is sent, the mutex is not unlocked.
PostNoMutex ==
    /\ phase = "post"
    /\ opt' = [opt EXCEPT ![gi] = "UNDEF"]
    /\ IF gi = 1 THEN Goto("post", 2, 0) /\ UNCHANGED <<call, tree>> ELSE Over
    /\ UNCHANGED <<ctx, unlocked, workerVars, listVars, queueVars, parses>>

\* myhtml_tokenizer_post, at the start of every chunk.
Post ==
    /\ phase = "post"
    /\ Send(gi, "UNDEF")
    /\ IF gi = 1 THEN Goto("post", 2, 0) /\ UNCHANGED <<call, tree>> ELSE Over
    /\ UNCHANGED <<workerVars, listVars, queueVars, parses>>

\* Faulty variant of Free: the threads are never stopped.
FreeNoPause ==
    /\ phase = "free"
    /\ live' = live \ {tree}
    /\ Over
    /\ UNCHANGED <<groupVars, workerVars, list, next, prev, queueVars, parses>>

\* End of entry_delete and of myhtml_tokenizer_end: the entry is freed, and the
\* workers are stopped (myhtml_tokenizer_pause) if it was the last one.
Free ==
    /\ phase = "free"
    /\ live' = live \ {tree}
    /\ IF list.count = 0 THEN Goto("stop", 1, 0) /\ UNCHANGED <<call, tree>> ELSE Over
    /\ UNCHANGED <<groupVars, workerVars, list, next, prev, queueVars, parses>>

Stopped == IF gi = 1 THEN Goto("stop", 2, 0) /\ UNCHANGED <<call, tree>> ELSE Over

\* mythread_stop.
Stop ==
    /\ phase = "stop"
    /\ IF opt[gi] = "STOP"
         THEN Stopped /\ UNCHANGED opt
         ELSE /\ opt' = [opt EXCEPT ![gi] = "STOP"]
              /\ Goto("stopack", gi, FirstOf(gi)) /\ UNCHANGED <<call, tree>>
    /\ UNCHANGED <<ctx, unlocked, workerVars, listVars, queueVars, parses>>

StopAck ==
    /\ phase = "stopack" /\ ctx[wi] = "STOP"
    /\ IF wi = LastOf(gi) THEN Stopped
       ELSE Goto("stopack", gi, wi + 1) /\ UNCHANGED <<call, tree>>
    /\ UNCHANGED <<groupVars, workerVars, listVars, queueVars, parses>>

\* myhtml_destroy, also with trees that are not parsed to their end.
Destroy ==
    /\ call = "none"
    /\ call' = "destroy" /\ Goto("drain", 1, 0)
    /\ UNCHANGED <<groupVars, workerVars, listVars, queueVars, tree, parses>>

\* mythread_queue_list_wait_for_done: the cursors of the stream thread only.
Drain ==
    /\ phase = "drain" /\ \A e \in live : Done(e, Stream)
    /\ Goto("quit", 1, 0)
    /\ UNCHANGED <<groupVars, workerVars, listVars, queueVars, call, tree, parses>>

\* mythread_destroy: mythread_resume(QUIT), mythread_quit.
Quit ==
    /\ phase = "quit"
    /\ Send(gi, "QUIT")
    /\ Goto("quitack", gi, FirstOf(gi))
    /\ UNCHANGED <<workerVars, listVars, queueVars, call, tree, parses>>

\* mythread_callback_quit.
QuitAck ==
    /\ phase = "quitack" /\ ctx[wi] = "QUIT"
    /\ Goto("join", gi, wi)
    /\ UNCHANGED <<groupVars, workerVars, listVars, queueVars, call, tree, parses>>

\* Faulty variant of Join: the thread is not waited for.
JoinNothing ==
    /\ phase = "join"
    /\ IF wi < LastOf(gi) THEN Goto("quitack", gi, wi + 1) /\ UNCHANGED <<call, live>>
       ELSE IF gi = 1 THEN Goto("quit", 2, 0) /\ UNCHANGED <<call, live>>
       ELSE Goto("none", 1, 0) /\ call' = "destroyed" /\ live' = {}
    /\ UNCHANGED <<groupVars, workerVars, list, next, prev, queueVars, tree, parses>>

\* mythread_thread_join; after the last thread the list is freed.
Join ==
    /\ phase = "join" /\ wpc[wi] = "gone"
    /\ IF wi < LastOf(gi) THEN Goto("quitack", gi, wi + 1) /\ UNCHANGED <<call, live>>
       ELSE IF gi = 1 THEN Goto("quit", 2, 0) /\ UNCHANGED <<call, live>>
       ELSE Goto("none", 1, 0) /\ call' = "destroyed" /\ live' = {}
    /\ UNCHANGED <<groupVars, workerVars, list, next, prev, queueVars, tree, parses>>

Program == Destroy \/ \E t \in Trees : Push(t) \/ Chunk(t) \/ Publish(t) \/ End(t)

Main ==
    \/ WaitForDone \/ Suspend \/ Ack \/ Link \/ Unlink \/ Resume \/ Post \/ Free
    \/ Stop \/ StopAck \/ Drain \/ Quit \/ QuitAck \/ Join

-----------------------------------------------------------------------------
(***************************************************************************)
(* Workers: mythread_function_queue_batch and _stream.                     *)
(***************************************************************************)
Become(w, pc) == wpc' = [wpc EXCEPT ![w] = pc]

\* The end of a turn: done_count and the option passed on are dead.
Rest(w, pc) ==
    /\ Become(w, pc)
    /\ idle' = [idle EXCEPT ![w] = 0] /\ seen' = [seen EXCEPT ![w] = "UNDEF"]

\* mythread_mutex_wait: before the first turn, and when the worker is stopped.
Wake(w) ==
    /\ wpc[w] \in {"start", "asleep"} /\ unlocked[w]
    /\ unlocked' = [unlocked EXCEPT ![w] = FALSE]
    /\ Become(w, IF wpc[w] = "start" THEN "top" ELSE "woken")
    /\ UNCHANGED <<opt, ctx, at, idle, seen, listVars, queueVars, mainVars>>

\* ctx->opt = UNDEF after the mutex.
Woken(w) ==
    /\ wpc[w] = "woken"
    /\ ctx' = [ctx EXCEPT ![w] = "UNDEF"]
    /\ Become(w, "top")
    /\ UNCHANGED <<opt, unlocked, at, idle, seen, listVars, queueVars, mainVars>>

Top(w) ==
    /\ wpc[w] = "top"
    /\ Become(w, IF opt[Group(w)] = "WAIT" THEN "halt" ELSE "first")
    /\ UNCHANGED <<groupVars, at, idle, seen, listVars, queueVars, mainVars>>

Halt(w) ==
    /\ wpc[w] = "halt"
    /\ ctx' = [ctx EXCEPT ![w] = "WAIT"]
    /\ Become(w, "halted")
    /\ UNCHANGED <<opt, unlocked, at, idle, seen, listVars, queueVars, mainVars>>

\* The worker leaves its waiting loop; its option word still says WAIT.
Halted(w) ==
    /\ wpc[w] = "halted" /\ opt[Group(w)] # "WAIT"
    /\ Become(w, "leave")
    /\ UNCHANGED <<groupVars, at, idle, seen, listVars, queueVars, mainVars>>

Leave(w) ==
    /\ wpc[w] = "leave"
    /\ ctx' = [ctx EXCEPT ![w] = "UNDEF"]
    /\ Become(w, "first")
    /\ UNCHANGED <<opt, unlocked, at, idle, seen, listVars, queueVars, mainVars>>

\* entry = list->first, done_count = 0.
First(w) ==
    /\ wpc[w] = "first"
    /\ at' = [at EXCEPT ![w] = list.first]
    /\ idle' = [idle EXCEPT ![w] = 0]
    /\ Become(w, IF list.first = NoTree THEN "count" ELSE "look")
    /\ UNCHANGED <<groupVars, seen, listVars, queueVars, mainVars>>

Look(w) ==
    /\ wpc[w] = "look" /\ at[w] \in live
    /\ IF Done(at[w], w)
         THEN Become(w, "next") /\ idle' = [idle EXCEPT ![w] = @ + 1]
         ELSE /\ \E p \in {"work", "need"} : Become(w, IF w = Stream THEN p ELSE "work")
              /\ UNCHANGED idle
    /\ UNCHANGED <<groupVars, at, seen, listVars, queueVars, mainVars>>

\* The stream thread waits for the batch thread that decodes its token.
Need ==
    /\ wpc[Stream] = "need" /\ at[Stream] \in live
    /\ LET t == use[at[Stream]][Stream] IN use[at[Stream]][1 + (t % Batch)] > t
    /\ Become(Stream, "work")
    /\ UNCHANGED <<groupVars, at, idle, seen, listVars, queueVars, mainVars>>

\* The token is handled and the cursor moved on.
Work(w) ==
    /\ wpc[w] = "work" /\ at[w] \in live
    /\ use' = [use EXCEPT ![at[w]][w] = @ + Stride(w)]
    /\ Become(w, "next")
    /\ UNCHANGED <<groupVars, at, idle, seen, listVars, uses, mainVars>>

\* entry = entry->next.
GoNext(w) ==
    /\ wpc[w] = "next" /\ at[w] \in live
    /\ at' = [at EXCEPT ![w] = next[at[w]]]
    /\ Become(w, IF next[at[w]] = NoTree THEN "count" ELSE "look")
    /\ UNCHANGED <<groupVars, idle, seen, listVars, queueVars, mainVars>>

\* After the walk: only a worker that found nothing to do looks at the option.
Count(w) ==
    /\ wpc[w] = "count"
    /\ IF idle[w] = list.count
         THEN Become(w, "option") /\ seen' = [seen EXCEPT ![w] = opt[Group(w)]] /\ UNCHANGED idle
         ELSE Rest(w, "top")
    /\ UNCHANGED <<groupVars, at, listVars, queueVars, mainVars>>

\* mythread_function_see_opt, as long as it does not stop or end the worker.
Stay(w) ==
    /\ wpc[w] = "option"
    /\ \/ seen[w] \notin {"STOP", "QUIT"}
       \/ idle[w] # list.count
       \/ \E e \in live : ~Done(e, w)
    /\ Rest(w, "top")
    /\ UNCHANGED <<groupVars, at, listVars, queueVars, mainVars>>

FallAsleep(w) ==
    /\ wpc[w] = "option" /\ seen[w] = "STOP"
    /\ idle[w] = list.count /\ \A e \in live : Done(e, w)
    /\ ctx' = [ctx EXCEPT ![w] = "STOP"]
    /\ Rest(w, "asleep")
    /\ UNCHANGED <<opt, unlocked, at, listVars, queueVars, mainVars>>

Leave4Good(w) ==
    /\ wpc[w] = "option" /\ seen[w] = "QUIT"
    /\ idle[w] = list.count /\ \A e \in live : Done(e, w)
    /\ ctx' = [ctx EXCEPT ![w] = "QUIT"]
    /\ Rest(w, "gone")
    /\ UNCHANGED <<opt, unlocked, at, listVars, queueVars, mainVars>>

Worker(w) ==
    \/ Wake(w) \/ Woken(w) \/ Top(w) \/ Halt(w) \/ Halted(w) \/ Leave(w)
    \/ First(w) \/ Look(w) \/ Work(w) \/ GoNext(w) \/ Count(w) \/ Stay(w)
    \/ FallAsleep(w) \/ Leave4Good(w)
    \/ (w = Stream /\ Need)

Finished == call = "destroyed" /\ UNCHANGED vars

Next == Program \/ Main \/ (\E w \in Workers : Worker(w)) \/ Finished

Spec == Init /\ [][Next]_vars

\* A call that is begun goes on, and every thread is scheduled.  The program
\* owes no call.
FairSpec == Spec /\ WF_vars(Main) /\ \A w \in Workers : WF_vars(Worker(w))

-----------------------------------------------------------------------------
\* What the words of the threads, the links and the call may hold.
WordsOK ==
    /\ opt \in [Groups -> Options] /\ ctx \in [Workers -> Options]
    /\ unlocked \in [Workers -> BOOLEAN]
WalksOK ==
    /\ wpc \in [Workers -> {"start", "asleep", "woken", "top", "halt", "halted", "leave",
                            "first", "look", "need", "work", "next", "count", "option", "gone"}]
    /\ at \in [Workers -> Trees \union {NoTree}] /\ seen \in [Workers -> Options]
EntriesOK ==
    /\ list \in [first : Trees \union {NoTree}, last : Trees \union {NoTree}, count : Int]
    /\ next \in [Trees -> Trees \union {NoTree}] /\ prev \in [Trees -> Trees \union {NoTree}]
    /\ live \subseteq Trees
CallOK ==
    /\ call \in {"none", "push", "chunk", "end", "destroy", "destroyed"}
    /\ tree \in Trees \union {NoTree} /\ gi \in Groups /\ wi \in Workers
ShapeOK == WordsOK /\ WalksOK /\ EntriesOK /\ CallOK

\* Type invariant.
TypeOK ==
    /\ ShapeOK
    /\ idle \in [Workers -> 0 .. Cardinality(Trees)]
    /\ list.count \in 0 .. Cardinality(Trees)
    /\ uses \in [Trees -> 0 .. MaxTokens]
    /\ \A e \in Trees, w \in Workers : use[e][w] \in 0 .. MaxTokens + Batch
    /\ parses \in 0 .. MaxParses

Inside(w) == wpc[w] \in {"look", "need", "work", "next"}

\* A worker inside the list stands on an entry that is allocated, although
\* entry_delete frees it without a lock: the words WAIT and STOP the workers
\* answered with are true when they are relied on.
NoUseAfterFree == \A w \in Workers : Inside(w) => at[w] \in live

\* The list holds the entries of the trees in S, linked in both directions from
\* first to last.
Linked(order) ==
    LET n == list.count IN
    /\ list.first = (IF n = 0 THEN NoTree ELSE order[1])
    /\ list.last = (IF n = 0 THEN NoTree ELSE order[n])
    /\ \A i \in 1 .. n : /\ next[order[i]] = (IF i = n THEN NoTree ELSE order[i + 1])
                         /\ prev[order[i]] = (IF i = 1 THEN NoTree ELSE order[i - 1])
Listed(S) ==
    /\ list.count = Cardinality(S)
    /\ \E order \in Bijection(1 .. list.count, S) : Linked(order)

\* Between calls the entries of the list are those of the trees that are being
\* parsed.
ListSound == call = "none" => Listed(live)

\* With no tree left to parse, the threads use no processor: each one sleeps
\* on its mutex, which is locked, and says so.
AsleepWhenIdle ==
    call = "none" /\ live = {} =>
        \A w \in Workers : wpc[w] \in {"start", "asleep"} /\ ~unlocked[w] /\ ctx[w] = "STOP"

\* No thread runs on after myhtml_destroy has freed what it works with, and no
\* token was left unhandled.
DestroyedClean ==
    call = "destroyed" => \A w \in Workers : wpc[w] = "gone" /\ \A e \in Trees : Done(e, w)

\* Every call comes back: no suspend, stop or quit waits for a worker that
\* waits for somebody else.
CallsReturn == (call \in {"push", "chunk", "end", "destroy"}) ~> (call \in {"none", "destroyed"})

\* A token of a tree is handled by every thread it is meant for, whatever calls
\* are made for other trees: no worker sleeps through it.
WorkGetsDone == \A e \in Trees, w \in Workers : (~Done(e, w)) ~> Done(e, w)

-----------------------------------------------------------------------------
(***************************************************************************)
(* Why one tree is safe with any number of batch threads: each answer the  *)
(* main thread accepts is a fresh one.  The predicates say when a worker w *)
(* is in which condition, read off the call the main thread is in.         *)
(***************************************************************************)
OneTree == \E t : Trees = {t}

\* Asleep on a locked mutex: no tree, or push has not posted the group yet.
CalmNow(w) ==
    \/ call = "none" /\ live = {}
    \/ call = "push" /\ (phase = "post" => gi <= Group(w))
    \/ call = "end" /\ \/ phase \in {"stop", "stopack"} /\ gi > Group(w)
                       \/ phase = "stopack" /\ gi = Group(w) /\ w < wi

\* Walking, with the option UNDEF.
AwakeNow(w) ==
    \/ call = "none" /\ live # {}
    \/ call = "chunk"
    \/ call = "push" /\ phase = "post" /\ gi > Group(w)
    \/ call = "end" /\ \/ phase = "done"
                       \/ phase = "suspend" /\ gi <= Group(w)
                       \/ phase = "ack" /\ gi < Group(w)

\* Asked to wait, its answer not seen yet.
AskedNow(w) == call = "end" /\ phase = "ack" /\ gi = Group(w) /\ wi <= w

HaltedNow(w) ==
    call = "end" /\ \/ phase \in {"suspend", "ack"} /\ gi > Group(w)
                    \/ phase = "ack" /\ gi = Group(w) /\ w < wi
                    \/ phase = "change"
                    \/ phase = "resume" /\ gi <= Group(w)

\* Resumed, with an empty list, on its way to sleep.
LeavingNow(w) ==
    call = "end" /\ \/ phase = "resume" /\ gi > Group(w)
                    \/ phase = "free"
                    \/ phase = "stop" /\ gi <= Group(w)
                    \/ phase = "stopack" /\ (gi < Group(w) \/ (gi = Group(w) /\ wi <= w))

GoneNow(w) ==
    \/ call = "destroyed"
    \/ call = "destroy" /\ \/ phase \in {"quit", "quitack", "join"} /\ gi > Group(w)
                           \/ phase \in {"quitack", "join"} /\ gi = Group(w) /\ w < wi

Locked(w) == wpc[w] \notin {"start", "asleep"} => ~unlocked[w]

WorkerInv(w) ==
    /\ wpc[w] # "option" => seen[w] = "UNDEF"
    /\ Inside(w) => at[w] \in live /\ list.first = at[w]
    /\ CalmNow(w) => wpc[w] \in {"start", "asleep"} /\ ~unlocked[w] /\ ctx[w] = "STOP"
    /\ AwakeNow(w) => /\ ctx[w] = "UNDEF" /\ opt[Group(w)] = "UNDEF" /\ seen[w] = "UNDEF"
                      /\ wpc[w] \notin {"halt", "halted", "leave", "gone"} /\ Locked(w)
    /\ AskedNow(w) => /\ opt[Group(w)] = "WAIT" /\ seen[w] \in {"UNDEF", "WAIT"} /\ Locked(w)
                      /\ \/ ctx[w] = "UNDEF" /\ wpc[w] \notin {"halted", "leave", "gone"}
                         \/ ctx[w] = "WAIT" /\ wpc[w] = "halted"
    /\ HaltedNow(w) => /\ opt[Group(w)] = "WAIT" /\ ctx[w] = "WAIT" /\ wpc[w] = "halted"
                       /\ ~unlocked[w]
    /\ LeavingNow(w) => /\ ~unlocked[w]
                        /\ \/ opt[Group(w)] = "UNDEF" /\ seen[w] = "UNDEF"
                           \/ /\ opt[Group(w)] = "STOP" /\ seen[w] \in {"UNDEF", "STOP"}
                              /\ phase = "stopack" /\ gi = Group(w)
                        /\ \/ ctx[w] = "WAIT" /\ wpc[w] \in {"halted", "leave"}
                           \/ ctx[w] = "UNDEF" /\ wpc[w] \in {"top", "first", "count", "option"}
                           \/ /\ ctx[w] = "STOP" /\ wpc[w] = "asleep"
                              /\ phase = "stopack" /\ gi = Group(w)
    /\ GoneNow(w) => wpc[w] = "gone"

\* The phases of each call, and the tree it is for.
CallPhases ==
    /\ call \in {"none", "destroyed"} => phase = "none"
    /\ call = "push" => phase \in {"suspend", "ack", "change", "resume", "post"}
    /\ call = "chunk" => phase = "post"
    /\ call = "end" => phase \in {"done", "suspend", "ack", "change", "resume", "free",
                                  "stop", "stopack"}
    /\ call = "destroy" => phase \in {"drain", "quit", "quitack", "join"}
    /\ phase \in {"ack", "stopack", "quitack", "join"} => wi \in Members(gi)
    /\ call \in {"push", "chunk", "end"} => tree \in Trees
    /\ call \in {"push", "chunk", "end"} /\ phase \notin {"stop", "stopack"} => tree \in live

CallInv ==
    /\ CallPhases
    /\ call \in {"push", "chunk"} => live = {tree}
    /\ call = "end" => live = IF phase \in {"stop", "stopack"} THEN {} ELSE {tree}

\* The entry is in the list from Link to Unlink.
LinkInv ==
    /\ \A e \in Trees : next[e] = NoTree /\ prev[e] = NoTree
    /\ call \notin {"destroy", "destroyed"} =>
          IF \/ live = {}
             \/ call = "push" /\ phase \in {"suspend", "ack", "change"}
             \/ call = "end" /\ phase \in {"resume", "free"}
            THEN list = [first |-> NoTree, last |-> NoTree, count |-> 0]
            ELSE \E e \in live : list = [first |-> e, last |-> e, count |-> 1]
    /\ list.first # NoTree /\ call # "destroyed" => list.first \in live

OneTreeInv == ShapeOK /\ CallInv /\ LinkInv /\ \A w \in Workers : WorkerInv(w)

(***************************************************************************)
(* What holds for any number of trees: the list between two phases of a    *)
(* call, and which cursors have passed the end of their queue.             *)
(***************************************************************************)
\* The entry of the call's tree is not in the list before Link and after Unlink.
Unlisted ==
    IF \/ call = "push" /\ phase \in {"suspend", "ack", "change"}
       \/ call = "end" /\ phase \in {"resume", "free"}
      THEN {tree} ELSE {}

ListInv ==
    /\ call # "destroyed" => Listed(live \ Unlisted)
    /\ call = "push" /\ phase \in {"suspend", "ack", "change"} =>
          next[tree] = NoTree /\ prev[tree] = NoTree

\* Cursors and queues are counted from 0 on.
CountsOK == uses \in [Trees -> Nat] /\ use \in [Trees -> [Workers -> Nat]]

Ending == call \in {"destroy", "destroyed"}

\* A queue that is given up was handled to its end, and a thread ends only when
\* it has nothing left to do and nothing can be published any more.
DoneInv ==
    /\ \A e \in Trees \ live, w \in Workers : Done(e, w)
    /\ call = "end" /\ phase \notin {"stop", "stopack"} =>
          \A w \in Workers : phase # "done" \/ w < wi => Done(tree, w)
    /\ \A w \in Workers : /\ opt[Group(w)] = "QUIT" \/ seen[w] = "QUIT" \/ wpc[w] = "gone" => Ending
                          /\ wpc[w] = "gone" => \A e \in Trees : Done(e, w)
                          /\ GoneNow(w) => wpc[w] = "gone"

EveryTreeInv == ShapeOK /\ CallPhases /\ ListInv /\ CountsOK /\ DoneInv
=============================================================================
