# MyHTML in TLA+

MyHTML is an HTML parser in C. The thread of the program tokenizes, *batch* threads
decode the tokens, a *stream* thread builds the tree. There is almost no locking: the
threads follow each other through counters, flags and sleep loops. Behind that stands
the usual machinery of a parser: a tokenizer that may be cut at any byte, decoders for
39 encodings, a tree builder of 23 insertion modes, allocators of its own, and a tree
that programs edit.

These modules model all of that step by step. TLC checks them on small instances; TLAPS
proves the central results for all instances.

Paths are relative to the repository; `source/` is `src/source/`.

## 1. The system

| component | state | operations | talks to |
|---|---|---|---|
| token queue (`mycore/thread_queue.c`) | slots `nodes`, `nodes_length`, `nodes_uses`; one cursor `use` per thread | publish a slot, wait for all cursors, start a new round, walk | tokenizer (writes), stream and batch threads (read) |
| thread groups (`mycore/mythread.c`) | option word per group and per thread, a mutex per thread | suspend, resume, stop, quit, destroy | the list of queues, every worker |
| list of queues (`mycore/thread_queue.c`) | doubly linked entries, count | push, delete, walk | thread groups (must be suspended), workers |
| lock (`mcsync.c`) | lock word | lock, unlock | both allocators |
| object allocator (`mcobject_async.c`) | nodes (one per thread), chunks, cache of chunks, cache of nodes, cache of objects | node add/clean/delete, malloc, free, clean | tokens, attributes, tree nodes |
| string arenas (`mchar_async.c`, `mystring.c`) | one arena per thread, cache by size | malloc, realloc in place, crop, free | texts of tokens and nodes |
| tokenizer (`tokenizer*.c`) | state, current token, namespace of the last foreign tag | about 60 states, resumable at any byte | queue, incoming buffers, builder's state |
| incoming buffers, stream buffer (`incoming.c`, `stream.c`) | chain of chunks with global offsets; UTF-16 converted to UTF-8 | add, convert, find a position | tokenizer, batch threads |
| tokens (`token.c`, `parser.c`, `data_process.c`, `charef.c`) | type flags, attributes, text, `DONE` | create, join, decode, merge, wait | queue, builder |
| encodings (`myencoding/`) | half a character per decoder | decode a byte, write UTF-8, detect | stream buffer, batch threads |
| tree construction (`rules.c`, `tree.c`) | insertion mode, open elements, active formatting elements, template modes | 23 insertion modes, adoption agency | tokens, tokenizer (`state_of_builder`) |
| tree nodes (`tree.c`, `myhtml.c`) | parent, child, sibling links | insert, remove, delete, search | user program |
| tag tables, serialization, callbacks, ports | tables | look up, print | all |

What is hard here, and what must be true of it:

* **Queue.** Slots are reused without a lock once every cursor has passed them.
  No slot may be overwritten while it is read, no token lost or built twice, the
  order of the document kept, over rounds and over parses.
* **Tokenizer and builder.** The tokenizer sometimes needs what the builder knows
  (is CDATA allowed, which state follows `<script>` inside SVG). It may look only
  when the builder has caught up, and its wait must end.
* **Thread groups.** An answer to "stop" must be an answer to *this* request; no
  worker may sleep through work; every call must come back.
* **Allocators.** A chunk, an object or a string's block has one holder, and what is
  written into a string stays in its block.
* **Tokenizer, buffers, decoding.** The place where a chunk ends must change neither the
  tokens nor their text: every half token, half reference, half newline and half
  character has to be remembered.
* **Tree construction.** Every insertion mode leaves the stack of open elements and
  the list of formatting elements consistent with each other, with the mode and with the
  tree; reprocessing a token ends.
* **Tree nodes.** Links agree in both directions and lead to nodes in use, whatever order
  of legal calls edits the tree.

`PROJECT.json` lists the hazards line by line, with the properties that cover them.

## 2. Modules

| module | models | code |
|---|---|---|
| `TokenPipeline` | what the queue promises, without a queue | abstract |
| `ThreadQueue` | one tree: tokenizer's side, stream and batch loops | `thread_queue.c`, `queue_add`, waits of `tokenizer.c`, dispatcher of `rules.c`, `parser.c` |
| `ThreadControl` | several trees: list of queues, suspend/resume/stop/quit | `mythread.c`, `thread_queue.c`, `tokenizer_end`, `myhtml_destroy` |
| `McSync` | the lock | `mcsync.c` |
| `McObjectAsync` | the object allocator, on top of `McSync` | `mcobject_async.c` |
| `IncomingBuffer` | the chain of buffers and the walk over it | `incoming.c`, `parser.c` |
| `Lexer`, `LexerMarkup`, `LexerText`, `LexerDoctype`, `LexerEnd` | the states of the tokenizer, one operator each | `tokenizer.c`, `tokenizer_script.c`, `tokenizer_doctype.c`, `tokenizer_end.c` |
| `Tokenizer` | the tokenizer as a state machine fed by chunks | `chunk_process`, `tokenizer_end` |
| `Encodings` | the decoders, and UTF-8 output | `encoding.c` |
| `CharRefs` | the look-up of names of characters | `charef.c` |
| `DataProcess` | stream buffer, joining, newlines, nulls, references | `tokenizer.c`, `parser.c`, `data_process.c`, `mystring.c` |
| `Decoding` | the text as the HTML standard reads it, and where the code departs from it | reference |
| `Tags` | categories of elements | `tag_init.c` |
| `TreeLinks` | the links of nodes, in the order of the assignments | `tree.c` |
| `TreeElements` | nodes, stack of open elements, formatting elements, template modes | `tree.c`, `token.c` |
| `RulesHead`, `RulesBody`, `RulesTable` | the handlers of the insertion modes | `rules.c` |
| `TreeConstruction` | the last modes, foreign content, the dispatcher, fragments, what the tokenizer takes over | `rules.c`, `tokenizer.c`, `myhtml.c` |
| `StringArena` | one arena and the strings in it | `mchar_async.c`, `mystring.c` |
| `TreeEdit` | a tree with texts that a program edits | `myhtml.c`, `tree.c`, `rules.c` |
| `ThreadQueue_proofs`, `ThreadControl_proofs`, `McObjectAsync_proofs`, `TreeEdit_proofs`, `StringArena_proofs`, `Decoding_proofs`, `Tokenizer_proofs`, `TreeConstruction_proofs` | proofs | |
| `MC*` | constants, documents and symmetries for TLC | |

How they fit together. `ThreadQueue` takes entering and leaving the list of queues
as one step that happens when no worker is inside the list; `ThreadControl` is about
exactly that assumption, with the rounds of the queue left out. `McObjectAsync` EXTENDS
`McSync`: the actions of a thread that calls the allocator are built from the lock's.
`Tokenizer` gives the tokens as spans, `DataProcess` takes one span and makes a text of
it, `TreeConstruction` takes tokens with abstract texts; between them stands the queue,
which `ThreadQueue` models with opaque tokens. `TreeConstruction` uses `TreeLinks` through
`TreeElements`; `TreeEdit` uses `TreeLinks` and `StringArena`, so the tree a document
builds and the tree a program edits are linked by the same operators.

### ThreadQueue
The main thread is a program counter `mpc` with one action per shared access:
`SetArgs` (`qnode->args = token`), `MallocRound` (`nodes_uses++` publishes),
`WaitForDone` cursor by cursor, `EntryClean`, `MakeBatch` and `MakeStream` cursor by
cursor with the loop bounds of the code (the stream loop also resets the first batch
cursor), then `calc_current_namespace`: nothing, a foreign tag, or a tag that makes
it wait for the builder (`RawTag`, `RawWait`, `Resync`). `CdataMarker` and `CdataWait`
are the CDATA branch of the tokenizer. A worker loads its cursor (`LoadUse`) and
compares it (`Compare`) in two steps, so a cursor of an old round can meet the count of
a new one. The builder may wait for a token to be decoded (`NeedDone`) and may process
a token several times (`Reprocess`). A document is a number of pieces; a token is the
number of its creation. `handled` and `decoded` are history variables.
`Begin` chooses whether the document is parsed with a tree.

### ThreadControl
A call of the program (`Push`, `Chunk`, `End`, `Destroy`) is a sequence of phases
(`phase`, group `gi`, worker `wi`). A worker is its loop in
`mythread_function_queue_batch/_stream`, one step per read or write of the option
words, of the links and of the cursors. A step that would read a freed entry is not
enabled; `NoUseAfterFree` reports the state before it. `done_count` and the option a
worker has loaded are reset at the end of a turn, when they are dead. A queue is long
enough for a document here, so rounds do not occur. The members of the group all take
a resume in one step, because none of them can see the others' words.

### McSync, McObjectAsync
`LockTry` is one `__atomic_compare_exchange_n`, including that a failed exchange
stores the value it saw in `compare`. The constant `Spinlock` chooses between the GCC
build and the mutex. In the allocator, `LoadChunk`/`StoreChunk` split the read and the
write of the counters, so that a lock that does not exclude shows. `handed` counts the
holders of an object; objects are forgotten when their node is cleaned or deleted.
`mcobject_async_free` is called by a thread for objects of its own node, as the library
does. `Clean` (`mcobject_async_clean`) runs with no call under way.

### Lexer, Tokenizer
A lexer is a record, the part of `myhtml_tree_t` the tokenizer works on; one call of a
state's function is one operator from lexers to lexers and one turn of the loop of
`chunk_process`. A function that scans to a character is `Seek` and what it does there
(`XxxAt`); at the end of the chunk the state stays. Characters are classes (letters that
can begin a name or a keyword, brackets, quotes, white space, and so on), names and
keywords are shorter than in HTML with their order of length kept (`WaitForMore` looks
ahead as far as the keyword is long). Left out: case, null characters, `compat_mode`,
which is the builder's, and `element_begin`/`element_length`. `CalcCurrentNamespace`
takes over what the builder knows from the tokens themselves.

### Encodings, CharRefs, DataProcess
The record `res` of a decoder has the fields of `myencoding_result_t`, with what each
decoder keeps there. The tables of `myencoding/resource.h` are one injective map:
pointers are computed as in the code, and which character stands at a pointer is not
looked at. `CharRefs` writes a node of the search tree as the beginning of a name, and
keeps `last_offset` as the code does, a place in the piece that was read then.
`DataProcess` feeds a document (`Chunk`, or `StreamBegin`, `StreamByte`, `StreamEnd` for
UTF-16) and then reads one token that is the whole document: `JoinBuffer` for kinds of
text without references, else one action per state of `data_process.c`. `str` has the
bytes, the size of the block and the ghost `over`: a byte was written behind the block.
The byte behind a piece, which the code reads, is any byte of `Behind`.

### TreeElements, Rules*, TreeConstruction
A tree is a record and every operator gives the tree after the call. A handler of an
insertion mode is an operator of the tree and the token; it says whether it asks for the
token again, as the return value of the code's handlers does. The dispatcher is the
state machine: tokens come one by one (`Prepared`, `Feed`), and each turn of its loop is
a step. Attributes are a set, texts a short sequence of kinds of characters (white
space, newline, null, other); the duplicate table of adjusted names of foreign elements
is left out. The input is any sequence of tokens the tokenizer can deliver, which the
variable `lexer` limits (in raw text nothing but text and the end tag comes).

### StringArena, TreeEdit
An arena's operators return the arena after the call. The cache of freed blocks is the
tree of `mchar_async_cache`; it is never given a left branch by the code, so it is a list
sorted by size. `TreeEdit` has the calls that build and edit a tree: `InsertText` (a text
of the builder, merged with its neighbour, possibly cropped), `CreateNode`,
`AppendChild`, `InsertBefore`, `InsertAfter`, `RemoveNode`, `DeleteNode`,
`DeleteRecursive`, `TextSet`, `Clean`. The program is held to what the code takes for
granted: it inserts nodes that are linked nowhere, not under themselves, beside nodes
that have a parent; it never moves the document; it deletes childless nodes, others by
`delete_recursive`; it does not use what it deleted. `lost` holds the nodes that
`delete_recursive` cuts off and does not free, `overrun` is set when a text is written
past its block.

## 3. Runs

| run | instance | shows |
|---|---|---|
| `queue_safety` | 2 slots, 2 batch threads, 4 pieces, 2 parses, both build modes | the eight queue properties |
| `queue_cdata_hang` | without tree | **violated**: a CDATA marker hangs the parse |
| `control_safety` | 2 trees, 1 batch thread, 2 tokens, 3 documents | four control properties |
| `control_live` | the same, 2 documents | `CallsReturn`, `WorkGetsDone` |
| `control_stale_ack` | 2 trees, 2 batch threads | **violated**: stale WAIT, use after free |
| `objects` | 2 threads, mutex, 3 rows of one chunk of one object | four allocator properties |
| `objects_spinlock` | 2 threads, spinlock | **violated**: two holders of one chunk |
| `builder` | 20 families of documents and fragments, up to 4 or 5 tokens over an alphabet each | twelve properties of the builder |
| `tokenizer` | about 4000 documents up to 9 characters, up to 3 chunks cut anywhere | five properties of the tokenizer |
| `tree_edit` | 3 nodes, chunks of 11 characters, texts of 1 or 3, crops of 2 | `TreeLinked`, `BlocksApart`, `TextsFit` |
| `decoding` | documents in 11 encodings, 5 kinds of text, up to 3 chunks cut anywhere | `TextRead`, `WritesInside` |
| `decoding_chunks` | the same documents | **violated**: the second chunk of UTF-16 |

*Queue:* `SlotStable` (a worker reads only published slots that are not being filled),
`BuiltInOrder`, `DecodedOnce`, `AllDoneAtEnd` (nothing lost when a parse ends),
`BuilderQuietWhenRead` (the tokenizer looks at the builder's data only when the builder
is idle and has caught up), `PipelineRefined` (the queue implements `TokenPipeline`),
`BuildEnds` (every parse that builds a tree ends), `TypeOK`.

*Thread groups:* `NoUseAfterFree`, `ListSound`, `AsleepWhenIdle`, `DestroyedClean`,
`CallsReturn`, `WorkGetsDone`. *Allocator:* `ChunkOwned` (a chunk is in one place at
most), `NoChunkLost` (a chunk that was handed out is in a node's chain, in a thread's hands
or in the cache: growing, cleaning, deleting and adding nodes lose none), `OneHolder`,
`HeaderNamesOwner`. That the lock excludes is no property of a run: the mutex is one by
definition, and what the spinlock does instead is seen in `ChunkOwned`
(`objects_spinlock`).

*Builder:* `TreeSound` (links), `StackRooted` (every open element is in the document),
`ActiveSound` (the list of formatting elements, with its limit of three), `TemplateModes`
(one mode per open template), `MarkersHold`, `ModeFitsStack` (what each mode's handlers
take for granted), `TableContent` (foster parenting), `TokensOwned`, `DocumentShape`,
`TurnsBounded` (no two modes pass a token to and fro), `OneThreadAgrees` (in single mode
tokenizer and builder agree on raw text), `TypeOK`.

*Tokenizer:* `ChunksAgree` (the tokens are those of the document in one piece),
`SpansSound` (in order, disjoint, inside, found by the walk over the buffers), `TextKept`
(no letter is lost, in documents that end in data, behind `<!` or inside a comment),
`AttrAtHand` (`attr_current` is in the list of the token at hand
exactly while an attribute is read), `TurnsBounded`. The first three do not speak of
documents cut at the places `Harms` names, or ended at the one of `EndHarms` (section 4).

*Edited tree:* `TreeLinked`, `BlocksApart`, `TextsFit`.

*Decoding:* `TextRead`: the text is the document as the standard reads it, `Read(Text)`,
outside the places `Decoding` names one by one. `WritesInside` has no exception: no byte
is written behind a string's block or the stream buffer's entry, wrongly read texts
included.

**Bounds.** *Queue:* two slots and four pieces make a document fill the round, start a
second one and end inside it, and end exactly at a full round; two batch threads with
stride 2 make cursors pass the end of the round. Two parses make the second one meet
slots, cursors and flags of the first. *Control:* three documents over two trees let
entries leave the list first, last and alone, and be pushed after a deletion.
*Allocator:* one object per chunk makes every second `malloc` ask for a chunk; three
chunks allow one node two while the other has one, and reuse of a deleted node's chunks
by the other thread. *Builder:* an alphabet of three to nine tags and four or five
tokens per family: enough for an adoption agency with a furthest block, a fourth equal
formatting element, nested templates, a select in a cell, a late frameset. *Tokenizer:*
every keyword can be cut at each of its characters, with one character on both sides.
*Edited tree:* three nodes give a first, a middle and a last child but not a row of two
children under a node that is itself deleted with its siblings; the proof covers the
links for any number of nodes. *Decoding:* the families let a reference be cut at two
places, a newline be three buffers long, a character of two or three bytes be cut and
follow any other; the entry of the stream buffer is 12 bytes for 16384, so that it fills.

Symmetry is used for the threads of the allocator and for the nodes of `tree_edit`.
Deadlock is not checked where the bounds let a run stop: allocator (no chunks left),
tokenizer (document ended), edited tree (no nodes or chunks left, or `overrun`).

**Fairness.** Weak fairness on each thread: the operating system schedules every
runnable thread. `SF(Inserted)` in `ThreadQueue` says that an insertion mode does not
ask for the same token for ever; `TurnsBounded` of the builder shows that on the
documents of its run. In `ThreadControl` a call that is begun goes on, but the program
owes no call.

Each property has a mutant, a plausible slip in the code under which TLC finds it
violated; these stand in the modules as *faulty variants*.

**Faithfulness.** The sequential models (tokenizer, builder, edited tree, decoding) were
run next to builds of the library: the tokens, trees and texts of the model were printed
and compared with what the library makes of the same documents and calls. For
`DataProcess` that covers every document of the run in UTF-8 and in UTF-16 (48 thousand
with their cuts); the other encodings differ from the library by their tables.

## 4. Findings

Refuted by a run:

1. *CDATA without a tree hangs* (`tokenizer.c:943`). The tokenizer waits for the builder
   to report the previous token. With `MyHTML_TREE_PARSE_FLAGS_WITHOUT_BUILD_TREE` nobody
   does.
2. *Stale answer to a suspension* (`mythread.c:187`, `thread_queue.c:531`). A thread told
   to resume keeps saying WAIT until it runs again. A second suspension soon after takes
   this for its answer. It needs two trees on one `myhtml_t` and at least two batch
   threads, one of which got no token of the tree that ends. With one batch thread, or
   one tree (proved, `OneTreeSafe`), the last token always wakes every thread
   that could still say WAIT, or the suspension before was answered with STOP.
3. *The spinlock lets a second thread in* (`mcsync.c:34` of the posix port). A failed
   exchange overwrites the expected value, which is not set to 0 again.
4. *UTF-16 in chunks* (`tokenizer.c:138`). The first chunk sets `tree->encoding` to UTF-8
   and the next one takes its decoder from there.

Met while modelling. The models do what the code does, and the properties that would
fail name the place as an exception:

* **Tokenizer.** A comment cut between its dashes (`tokenizer.c:900-917`); a look-ahead
  for a keyword that fails goes on at the new chunk's begin
  (`tokenizer_doctype.c:164-209`); a document in several chunks that ends behind `<!` with a
  `>` in the rest it has kept, as in `a<!>`: the end of that comment is looked for from
  `raw_begin` on as if that were an offset into the last chunk (`tokenizer_end.c:90`); the name of an end tag of RCDATA or RAWTEXT that lies in two
  chunks (`tokenizer.c:485-549`, `617-677`); PLAINTEXT ends with its first chunk (`:694`).
  Other than by chunks: an end tag that does not match in RAWTEXT leads to RCDATA
  (`:450`); text after an empty CDATA section is lost; letters of a doctype's bogus rest
  are dropped; the text of a script is dropped by `SKIP_WHITESPACE_TOKEN`, and so is
  RCDATA or RAWTEXT that the end of the document ends, although `api.h:407` excludes
  them; ending a document that was never begun dereferences NULL.
* **Decoding.** A numeric reference whose digits end with their buffer is lost, and a
  name that is followed there by the beginning of a longer one loses that beginning:
  `last_offset` is a place in an earlier buffer (`NumberAtCut`, `NameAtCut`). `&noti` at
  the end of a token loses the `i`. `\r` followed by a reference and `\n` makes one
  newline of two (`NewlineForgotten`). UTF-16 takes a first byte of 0 for none; Shift_JIS
  never forgets its first lead byte; EUC-KR repeats the character before at pointer 0;
  the second code point of four characters of Big5 is dropped; four-byte characters of
  GB18030 behind the first row of their table are computed from the row's number;
  ISO-2022-JP has no way back to ASCII and no Katakana, and its `&` bytes are taken for
  references (`CharMisread`). CDATA sections are read with references (`parser.c:236`).
  `myhtml_stream_buffer_add_entry` reallocates the buffer instead of its entries
  (`stream.c:112`).
* **Builder.** An `<image>` in a table is lost (`rules.c:2227`); nulls are taken out of a
  text by runs (`rules.c:56`); the adoption agency leaves an inner loop before the node
  is removed (`tree.c:1793-1810`); a text behind `</frameset></html>` becomes an element
  (`rules.c:3615`); a threaded tokenizer reads a `<title>` the builder drops in a select
  as raw text (`tokenizer.c:293`), which the same library in single mode does not; a text
  or tag opening at the end of the document becomes an element
  (`tokenizer_end.c:32-52`).
* **Strings and nodes.** Cropping white space does not lower `str->size`
  (`mystring.c:299`), so the next append writes behind the block (`overrun`; `TextsFit`
  exempts cropped strings). `myhtml_node_delete_recursive` frees the node and second
  children only (`tree.c:492-513`; `api.h:1211` says all; `lost`). `mchar_async_clean` does
  not reset the links of chunks, the cache of chunks is asked in vain
  (`mchar_async.c:198`) and the cache of nodes is grown with its old size. Merged texts
  grow in a batch thread's arena (`token.c:834`). `myhtml_node_clone_deep` of a document
  (`myhtml.c:1695`).

## 5. Proofs

`tlapm X_proofs.tla` checks the proofs of a module. What is proved holds for every value
of the constants; the assumptions are the named `ASSUME`s of the modules, which TLC
evaluates in the runs, and what the table adds.

| module | theorem | property | assumed besides |
|---|---|---|---|
| `ThreadQueue_proofs` | `TypeCorrect` | `TypeOK` | |
| | `SlotSafety` | `SlotStable` | |
| | `BuildOrder` | `BuiltInOrder` | |
| | `BuilderQuiet` | `BuilderQuietWhenRead` | |
| | `DecodeOnce` | `DecodedOnce` | |
| | `NothingLost` | `AllDoneAtEnd` | |
| | `QueueImplementsPipeline` | `PipelineRefined` | |
| `McObjectAsync_proofs` | `TablesHold` | (`TypeOK`, no run of its own) | `~Spinlock` |
| | `NoChunkShared` | `ChunkOwned` | `~Spinlock` |
| | `NoChunkLeaks` | `NoChunkLost` | `~Spinlock` |
| | `NoObjectShared` | `OneHolder` | `~Spinlock` |
| | `FreeFindsOwner` | `HeaderNamesOwner` | `~Spinlock` |
| `ThreadControl_proofs` | `ListStaysSound` | `ListSound` | |
| | `NothingRunsOn` | `DestroyedClean` | |
| | `OneTreeSafe` | `NoUseAfterFree` | `OneTree` |
| | `OneTreeSleeps` | `AsleepWhenIdle` | `OneTree` |
| `TreeEdit_proofs` | `LinksStaySound` | `TreeLinked` | |
| | `TextsStayApart` | `BlocksApart` | |
| | `TextsStayInside` | `TextsFit` | |
| `Decoding_proofs` | `WritesStayInside` | `WritesInside` | |
| `Tokenizer_proofs` | `AttrStaysAtHand` | `AttrAtHand` | |
| | `SpansStaySound` | `SpansSound` | |
| | `SpanInvariance` | (the inductive invariant of the places) | |
| | `ChainReads` | (the walk over the buffers reads what the document has) | |
| `TreeConstruction_proofs` | `TokenOfOneNode` | `TokensOwned` | |
| | `ThreadAgrees` | `OneThreadAgrees` | |

`~Spinlock` says that the lock is the mutex, so these theorems are about the builds that
use one: with the spinlock `ChunkOwned` is false (`objects_spinlock`). `OneTree` says that there is one tree: with several
`NoUseAfterFree` is false (`control_stale_ack`).

**Token queue.** For every round size, number of batch threads, document length and
number of parses, with and without a tree. None of the properties is inductive. That a
slot is stable depends on the cursor being below `nodes_uses` *now*, although the worker
compared a value it loaded before; a worker may even hold a cursor of the previous round.
The invariant `PipelineInv` (`Invariance`) therefore says:

* `QueueInv`: slot `s` of this round carries token `Base + s + 1`, where `Base` counts
  the tokens of earlier rounds;
* `CursorInv`: a worker past the comparison stands below `nodes_uses`; a loaded cursor
  is the current one or at least `Size`, so it can never be mistaken for a slot of the
  new round; while cursors are reset, those not yet reset are at least `Size`;
* `StreamInv`: the tokens built are `1 .. Base + use[Stream]`, plus one between
  building and advancing;
* `MainInv`: what the main thread knows at each of its steps.

`TypeStep`, `MainStep`, `QueueStep`, `CursorStep`, `StreamStep` prove one part each,
action by action; `Invariance` puts them together. For the batch threads `DecodeInv`
joins it: slot `s` of a round belongs to thread `Owner(s)`, a cursor stays on slots of
its owner (`OwnerFirst`, `OwnerNext`), and the tokens decoded are those of earlier rounds
and of the slots the owner's cursor has passed (`Passed`). Both together give
`DecodeOnce`, `NothingLost`, and, step by step, the refinement: each step of the queue is
one of `TokenPipeline` or leaves its state alone.

**Allocator.** For any set of threads, any size of the tables and of a chunk. Every
allocator step is a lock step or leaves the lock alone (`LockUse`), and the lock's own
invariant is preserved (`LockStep`). The rest follows from `AllocInv`: each chunk is in
one place (`ChunkInv`); an object lies in the node its header names, and what a node
keeps for later nobody holds (`ObjectInv`); each node has one thread or is in the cache
of nodes (`NodeInv`); what a thread has read of a counter and not written back is still
what stands there (`CallInv`). The last is the point: it survives the steps of the other
threads because a thread inside the lock is alone (`Alone`).

`NoChunkLeaks` follows each chunk through the steps that move it: from the pool or the cache
into the hands of a call (`LostStore`), from there to the end of the node's chain, where no
chunk stands behind the one at hand (`LostReturn`), with the whole chain into the cache
(`LostDelete`). `Clean` is the hard one: it gives the n-th node in use the n-th chunk of the
table and sets the counters behind the last, so that the chunks below the counters have to be
exactly those it gave. `CleanPlaces` shows this by division with remainder and by counting
the nodes in use.

**Thread groups.** For any number of batch threads, tokens and documents. A `myhtml_t`
that is used for one tree never has finding 2 (`OneTreeSafe`) and its threads sleep
whenever nothing is parsed (`OneTreeSleeps`). The main thread believes an answer because
of what a worker *can* say at that moment, so the invariant `OneTreeInv` relates the two:
it reads off the call, phase, group and worker index of the main thread in which
condition each worker is (`CalmNow`, `AwakeNow`, `AskedNow`, `HaltedNow`, `LeavingNow`,
`GoneNow`) and says what its program counter and the words are then. The point is
`AwakeNow`: when a suspension begins that deletes an entry, the word of every worker is
UNDEF, because the suspension of `entry_push` was answered with STOP.

For any number of trees as well, `EveryTreeInv` gives `ListStaysSound` and
`NothingRunsOn`. `ListSound` is not inductive, because a call changes the list in one
phase and the set of trees being parsed in another; `ListInv` says which trees are listed
in each phase, in terms of an order of the entries (`Linked`). That all threads of a
destroyed `myhtml_t` have done all tokens, although only the stream threads' cursors are
waited for, is `DoneInv`: a tree leaves the list with every cursor at its end, and a
thread ends only after it has walked over all entries that are left.

**Edited trees.** For any set of nodes, lengths of texts and size of a chunk. `TreeLinked`
alone is not inductive: that a node without children is nobody's parent, which deletion
needs, does not follow from links that agree pairwise, for brothers could form a ring
that no parent's `child` leads into. The invariant `LinkInv` adds `Ordered`: the brothers
under each parent can be ranked, each `next` one higher, up to the parent's `last`. Every
edit takes an order to an order (the lemmas on `AddChild`, `PlaceBefore`, `PlaceAfter`
and `Unlink`), and for `DeleteRecursive` the nodes outside the subtree keep theirs.

For the texts, `StringArena_proofs` proves of each call of an arena that it keeps
`ArenaSound`: the blocks in use and those in the cache are disjoint, each inside a chunk
up to the one at hand, below its fill. This covers a block that grows in place, the rest
of a chunk that is given to the cache, and a block that is taken from the cache and
split. `TreeEdit_proofs` adds that every text has a block of its own (`TextInv`), which
is what makes freeing one harmless to the others.

**Decoding.** For any documents, cuts, names of characters and size of the stream entry.
`WritesInside` is not inductive: the code makes room for five bytes more than the string
has and writes what a reference stands for over the reference, so how far it writes
depends on how many of the reference's bytes are in the string already. `WritesInv` says
so (`ReferenceInv`): behind `tmp_str_pos` there is at least the ampersand, and in a name
its first letter as well. A name stands for six bytes at most (`CharactersAssumption`,
which holds of the table in `charef_resource.h`), a number for four. For text, `Room`
says after every byte how much room the rest of the piece may take: in UTF-8 the room
for all of it was made at the beginning, in the other encodings each character makes its
own. Nothing is assumed of the decoders.

**Tokenizer.** For documents of any kind and length, cut in any way. `AttrAtHand` is
inductive while a document is read, and the proof is a walk through the states: `Sound`
says how the attribute at hand has to be for a state, and one lemma for each group of
states says that every function of the group takes a sound lexer to a sound one. The
lemmas rest on what the common steps of the functions do with the attribute (`Keeps`):
moving on, marking, writing into the token or the attribute leave it where it is,
`HoldAttr` puts one that is in no list into the token's, `NewAttr` and `QueueAdd` part
token and attribute.

`SpansSound` has two halves. That a place can be read (`Readable`) is a matter of the
buffers: they lie one behind the other (`Chained`), so the walk of
`myhtml_tree_incomming_buffer_make_data` from the buffer that has the begin takes, buffer
by buffer, what the document has there (`ChainReads`; the walk is a fold, and that it takes
one buffer after the other comes from the well-foundedness of the naturals). That the
tokens come in order and inside of what has come in is an invariant, and not an inductive
one: tokens are put into the queue with what was noted of them many turns before, and a
state may go back to where a look-ahead began, write a length that another state has to
leave alone, or take `mark` for the begin of the next token. `SpanInv` says that the lexer
is `InPlace`: the token at hand begins behind the queue, nothing noted of it or its
attributes lies behind the lexer (`Placed`), it has no length yet except in the states that
have read all of it, no value where only a name is read, the mark of a script's end tag is
not before the token's begin, and behind `<!` the lexer is at most two characters ahead of
a begin that is no comment's. Every state function takes a lexer in place to one, in the
groups of `Step`; the next chunk does, unless it harms (`FeedInPlace`), and so does the end,
with whatever it makes of an unfinished token (`EndStays`). Of the inputs the proof assumes
that a document is a sequence of characters (`DocumentsAssumption`).

**Tree construction.** For documents of any length made of any tokens, whole or
fragments, one-threaded or not. `TokensOwned` is not inductive: a handler may give the
token at hand to a node and return "again", and nothing in the tree alone says that this
never happens. The invariant `TokenInv` says that what nodes have, and the texts that
`in_table_text` keeps for nodes to come, is older than the token at hand, and that nothing
is both. The proof goes through the code by layers. `Gives(t, u, I)` says that from `t` to `u`
at most the tokens `I` were given to nodes, and is carried from call to call: one lemma for
each operation of `TreeElements`, with the loops of reconstruction and of the adoption
agency. `Handled` says of a handler that it gives the token away only when it is done with
it, neither asking for another turn nor going on to other rules, and that only `in_table`
turns to `in_table_text`, with an empty list: lemmas for all 23 modes. `Stage` puts the
handlers of a turn together in the order of the calls, foreign content first and foster
parenting last. Of the stack of open elements nothing is assumed but that it is a
sequence, and nothing of the links, so the theorem also covers trees that break other
properties.

`OneThreadAgrees` goes through the same layers. It is no invariant of a turn: what the
tokenizer takes the next text for is settled after the last turn of a tag, by what the
builder asked for in one of the turns, while the mode may have moved on or be come back to
from `orig` or the stack of template modes. So a handler is shown to end, when it starts
without raw text (`Plain`: no way back to the mode of raw text, and the builder asks for
markup or plaintext), either without it or with all of it (`Raw`): the mode is the one of
raw text, the builder asks for it, the element is an HTML one and on top of the stack, and
the handler is the last to see the token, which is a tag. That the element is on top and
an HTML one is what keeps the next tokens from the rules of foreign content, which would
take the text and leave the mode where it is; so creating an element and inserting text are
followed down to the namespace of the current node (`OpensHtml`, `TextStays`). `TextTurn` is
the turn of a token of the raw text: its text leaves everything, its end tag leads back.
`RawInv` joins the builder to the tokenizer: the tokenizer is in a state of raw text exactly
in the mode for it, and then the token at hand is a text or an end tag (`Fits`). It speaks of
documents without a context, in one thread: with a context the tokenizer begins in a state
that the builder has not asked for, and in a thread of its own it goes by the tags. Of the
inputs it assumes that only a tag with a name can be an end tag (`TokensAssumption`), which
is how the tokenizer sets `TYPE_CLOSE`: behind `</` and a letter (`tokenizer.c:864`) or for
the name of the raw text's element (`tokenizer.c:479`).

The loops of the builder are written with `Turns`, a recursive function, so that they
can be reasoned about; that a loop keeps what each turn keeps is shown from the
well-foundedness of the naturals, with sets in the place of predicates (`AllNumbers`).

**Only model-checked.** Liveness under fairness and `ENABLED` are out of the prover's
reach: `BuildEnds`, `CallsReturn`, `WorkGetsDone`. So are RECURSIVE operators: `TextRead`
and `ChunksAgree` compare with definitions that are recursive over the document
(`MCTokenizer` declares such operators). Not proved
either are the other properties of the builder (`TypeOK` among them: that the stack of
template modes never runs out is `TemplateModes`), which relate the mode, the stack of open
elements, the list of formatting elements and the links with each other, so that an
invariant would have to know every handler's reason for each of its steps; `TextKept`
and `TurnsBounded` of the tokenizer, of which the first needs to know for every character
the token it went to, and the second how far each state is from the next character even
where a chunk has ended in a place that harms; and `NoUseAfterFree` and `AsleepWhenIdle` with several trees and one
batch thread.

## 6. Not modelled, and what could follow

* Threads: single mode of the queue (no interleaving; the same handlers run in
  sequence), `MyHTML_OPTIONS_PARSE_MODE_ALL_IN_ONE` (its list of groups has a NULL member
  that `entry_push` dereferences), thread creation that fails.
* Failing allocations everywhere, the full tables of 64 allocator nodes, the plain object
  pool (`mcobject.c`, one thread, no reuse).
* Trees destroyed or cleaned before their parse is ended: the documents give no order of
  calls to hold the code to.
* Attributes, collections, clones and searches of the tree API; serialization and
  callbacks, which write and call but keep no state.
* Tables as data: `tag_init.c` beyond the categories, names of encodings and characters,
  detection of an encoding (`detect.c`), which counts characters against frequency
  tables; the look-up trees (`mctree.c`, `mhash.c`, `avl_tree.c`), sequential.
* One token that lies in a batch thread's arena while the builder grows it
  (`token.c:834`): it needs the words of both threads on one arena.

Worth adding: for `ThreadControl`, a proof that one batch thread is safe with any number
of trees; for the tokenizer, of `TextKept`; for the builder, of `TypeOK` and `StackRooted`; an
`McCharAsync` with two threads on one arena.
