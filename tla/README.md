# Verification of RAG-against-the-machine

TLA+ modules, TLC runs and TLAPS proofs about the program in `src/src`: a
command-line pipeline that cuts a source tree into chunks, indexes them with
BM25 and (optionally) FAISS, retrieves chunks for questions, has a language
model answer them, and scores the retrieval. File and line references below are
to `src/src/<file>.py` unless they say otherwise.

## 1. Inventory of the system

| component | state it keeps | operations | talks to |
|---|---|---|---|
| `chunker.TextChunker` | local: window start, list of chunks | `chunk` | called per document, and by `CodeChunker` for long text |
| `chunker.CodeChunker` | local: line starts, recursion | `chunk`, `_process_node`, `_line_start_helper` | Python's `ast`; `TextChunker` |
| `ingestion.IngestionEngine` | list of all chunks | `ingest_docs`, `ingest_code` | the corpus directory; a log file; the chunkers |
| `indexer.Indexer` (build) | `corpus_chunks`, BM25 index, FAISS index | `build_index`, `_make_corpus` | reads every file again; `bm25s`, `faiss` |
| `indexer.Indexer` (store) | two directories of `chunks.json`, BM25 files, `faiss.index` | `save_index`, `load_index` | the disk, shared by all commands |
| `indexer.Indexer` (search) | loaded artefacts | `search` | `bm25s`, `faiss`, the embedding model |
| `generator.Generator` | three caches | `expand_query`, `generate_answer`, `_build_prompt` | files of the corpus; the language model |
| `batch.BatchProcessor` | output files | `search_dataset`, `answer_dataset` | indexer, generator, JSON files |
| `evaluate.Evaluator` | sums | `evaluate` | two JSON files |
| `__main__.RAGCLI`, `src/Makefile` | none | `index`, `search`, `search_dataset`, `answer`, `answer_dataset`, `evaluate`; `pipeline`, `bonus`, `clean` | everything above, one process per command |
| text cleaning in `indexer` | none | `_clean_text`, `_preprocess_markdown`, `_find_nearest_heading`, ... | strings only |

The program is the 1600 lines under `src/src` and the Makefile; everything below
`data/`, vLLM's source tree included, is the corpus it is run on.

Every command is one single-threaded process. What is shared, and what is hard,
lies between processes and between steps:

* **The disk.** Commands communicate through the index directories and the
  output files only. A directory is several artefacts, written one after the
  other and never cleared; a command can die between two of them; a search may
  run beside an index command.
* **Two passes over the corpus.** A chunk is a pair of offsets. Its text is read
  again later, from a file that may have changed, and the number of its row in
  the index must still be its number in the list of chunks.
* **Offset arithmetic.** Windows that step back, headers that end inside
  decorators, columns counted in bytes and lines counted two ways.
* **Caches.** A generator lives for a whole dataset and keeps files, slices of
  files and answers in three dictionaries with three kinds of keys, while the
  files may change under it.
* **Hand-over between commands.** `make` passes results from command to command by
  file name, knows exit statuses only, and starts on whatever is there.
* **Failures that are swallowed.** Both passes over the corpus catch every
  exception per file, a missing FAISS file becomes a warning, and a missing
  input becomes a message and a normal return.

What makes each component correct:

| component | properties |
|---|---|
| text chunker | it ends; chunks are bounded and not empty; no character is lost; cuts are at separators; every other chunk brings new text |
| code chunker | chunks are bounded; every simple statement reached through bodies and every signature is stored, at any depth; chunks come in order and their starts tell them apart |
| line offsets | lookups stay in the list; the offset is that of the character |
| ingestion and index build | row i is the text of chunk i; a failure stays with its file |
| index store | what is loaded comes from one build; a complete build repairs dead ones; loads succeed once one has completed |
| search | k different chunks; what both rankers agree on is kept; near the top of both wins |
| generator | an answer comes from the sources of its question; the prompt holds what fits |
| pipeline | a run that comes to its end leaves outputs of this run for every dataset; it ends |
| batch | one result per question, in order, with the question as asked; no partial or stale output is taken for new |
| evaluator | recall and precision are between 0 and 1 and are the ratios they say |

`PROJECT.json` lists under `hazards` where each of these can go wrong.

## 2. Modules

| module | models | extends / instantiates |
|---|---|---|
| `ChunkCover` | what `TextChunker.chunk` promises whatever the characters are | |
| `TextChunker` | `TextChunker.chunk` | `ChunkCover` as `Cover` |
| `TextChunkerProofs` | refinement of the cover, the cover's theorems, cuts and headings | `RowHeading` |
| `CodeChunker` | `CodeChunker._process_node` | |
| `CodeChunkerProofs` | its inductive invariant and theorems | `CodeChunker` |
| `LineStarts` | `_line_start_helper` and the offset formula | |
| `LineStartsProofs` | its inductive invariant and theorems | `LineStarts` |
| `IndexBuild` | ingestion, `_make_corpus`, `build_index` | |
| `IndexBuildProofs` | its inductive invariant and theorems | `IndexBuild` |
| `AtomicIndex` | an index saved and loaded as a whole | |
| `IndexStore` | `save_index`, `load_index`, the commands that call them | `AtomicIndex` as `Atomic` |
| `IndexStoreProofs` | its inductive invariant, theorems and refinement | `IndexStore` |
| `HybridSearch` | `Indexer.search` | |
| `HybridSearchProofs` | its inductive invariant and theorems | `HybridSearch` |
| `RowHeading` | `_find_nearest_heading` on the chunker's chunks | `TextChunker` |
| `Generator` | `generate_answer`, `_build_prompt` and the caches | |
| `BatchProcessor` | `search_dataset`, `answer_dataset` | `Generator` |
| `Pipeline` | `make pipeline`, `bonus`, `clean`: composes the two above with indices | `BatchProcessor`; `AtomicIndex` as `Index` |
| `PipelineProofs` | its inductive invariant and theorems, the generator's steps included | `Pipeline` |
| `Evaluator` | `evaluate` | |
| `EvaluatorProofs` | its inductive invariant and theorems | `Evaluator` |
| `MC...` | values of constants for TLC | |

A definition marked *Mutant* is a bug a change to the code might make. It is not
part of the model: each is put in the place of the definition it follows or
precedes to see that the property named in `PROJECT.json` then fails.

### TextChunker and ChunkCover (`chunker.py:42-92`)

`content`, `current_idx` and `chunks` are the code's variables; `pc` tells
whether the call has returned. One iteration of the loop is one action:
`LastWindow` (lines 53-59), `FullWindow` (61-90), and `LoopEnds` when the loop
condition fails. Characters are kept as far as the separators tell them apart:
newline, hash, blank, anything else. `Breaks` and `AbsoluteEnd` are the `rfind`
cascade of lines 65-77; the later of heading and paragraph break wins, as in the
code (`max`, line 69), not as in the class comment, which ranks headings first.
`CutsAtSeparator` checks what both have in common: no heading of the window is
left behind the cut.
`AbsoluteEnd` cuts behind the *first* character of a separator, as `+ 1` does.

`ChunkCover` forgets the characters: a window may end anywhere inside. This is
what `CodeChunker` uses, so that it holds for any separator policy.

### RowHeading (`indexer.py:181-195`)

`_find_nearest_heading` over the text and chunks of the text chunker. The first
line behind the start of a chunk and the lines before it are cut at that start,
as the two `split`s do, because chunks start in the middle of lines. A heading is
the range of its line from the '#' on.

### CodeChunker (`chunker.py:112-246`)

The recursion visits statements in source order and only ever appends to one
list, so its stack is the sequence `todo`: statements to visit, and texts the
text chunker is in the middle of. `TakeNode` is case A, `SplitNode` and
`SplitNodeAndHeader` case B with a header that fits or not, `SplitAsText` case C.
`LastWindow` and `FullWindow` are one iteration of the text chunker on the text
at the head of `todo`, with offsets shifted as in lines 192-202 and 216-227.

A statement is a record of offsets: `kw`, where its own keyword is, `dec`, where
its first decorator's expression is, `at`, whether a `@` stands directly before
that, `end`, and its `body`. `Start` is `absolute_start` after lines 136-157.
`FirstBodyStart` is the first child's own offset: the code does not look at the
child's decorators there, which is why a header and a child can overlap
(`OrderedUpToDecorators`). `AstOK` is what Python's parser guarantees of these
numbers; else, except and finally clauses lie behind a `body` and in no child.
Its `nodes` are the statements reached through bodies, as in line 203: the
statements of such clauses are text of the node around them.

The offsets are taken as exact, which they are for files of ASCII characters
whose only line boundary is the newline; `LineStarts` says what happens to others.

### LineStarts (`chunker.py:99-110, 148-150`)

`AddLine` is one iteration over `splitlines`; `lineno` and `col_offset` are the
parser's: lines end at newlines only, columns are UTF-8 bytes. A `feed` stands
for the characters that end a line for `splitlines` only, a `wide` one for
characters of two bytes. (A carriage return never gets here: files are opened in
text mode.) `absolute` is the formula of lines 149-150.

### IndexBuild (`ingestion.py`, `indexer.py:62-113, 227-280`, `__main__.py:54-66`)

One half of the `index` command, for docs or for code. `Walk` fixes any order of the
selected files. `Ingest`/`IngestFails` handle the next file, `BuildIndex` takes the
list of chunks, `GroupChunk` files the next one in `dict_chunks` (`Filed`; a new
file is a key at the end), `ReadRows`/`ReadFails` read each file again and add rows,
`IndexCorpus` numbers them; `IndexFails` is the library refusing an empty corpus.
`Change` is somebody else changing a file at any moment. A chunk or row is the
triple of file, number in the file and version of the file.

### IndexStore and AtomicIndex (`indexer.py:282-343`, `__main__.py:32-106`)

An artefact is known by its generation, the number of the index command that
wrote it, or is `Absent`, `Torn` (being written, or left so) or `Mixed` (BM25 is
several files: some old, some new). `StartIndex` queues the writes of docs, then
code; `BeginWrite` empties a file and `EndWrite` completes it; `Crash` loses the
queue. `StartLoad` makes a new `Indexer`; `ReadArtefact`, `FallBack` and
`LoadFails` are the steps and outcomes of `load_index`. `usage`, chosen once, is
how people use the commands: which searches, which values of `--semantic`, one
by one or side by side, how many index commands and how many crashes.

`AtomicIndex` is the promise: an index is published at once and looked at as a
whole. Its `index` is the generation of `chunks.json`, which is published when
its writing begins; for usages that are not uniform the mapping is constant,
because the promise is then not kept (section 4).

### HybridSearch (`indexer.py:345-413`)

`RetrieveBM25` and `RetrieveSemantic` return any ranking the libraries may give;
`FuseBM25` and `FuseSemantic` are the two loops over `rrf_scores`, the dict being
the sequence of its entries in order of insertion; `TakeBest` sorts. Scores are
exact fractions, and where two are equal any order is allowed, because sums of
floats in another order may round differently. Chunks are identified with their
fusion key (file and start); see hazard `indexer.py:395`.

### Generator (`generator.py:35-98, 157-238`)

`call` is the one call of `generate_answer` being served. One source of the
prompt is one step, since files may be edited (`Edit`) between two reads:
`TakeSource` appends a text, `StopAtBudget` is the `break`, `SkipSource` the
`except`. `ReadSource` is what the first two have in common: both caches are
filled before the budget is looked at. Decoding is greedy, so that an answer is
identified with the question and the texts its prompt was made of; a text is a
range of one *version* of a file, cut off at its end as Python slices are. A file
may be missing or not UTF-8 (`Unreadable`).

### BatchProcessor (`batch.py`, `__main__.py:108-150, 188-205`)

`command` is the process that runs: `open`, `loop`, `write`, then its exit
status. `json` maps a folder and a name to a file: its kind and its rows, or
`Missing` or `Torn`. `NoInput` is the early return of lines 42-47 (exit status 0),
`BadInput` an uncaught error. `SearchNext` is one iteration of the first loop;
`AskNext`, `Generating` and `TakeAnswer` are one iteration of the second, with the
generator's steps in between. `BeginWrite` empties the output, `EndWrite`
completes it. `Hits` is what a search finds, given index, generation and query;
`HybridSearch` says what a search is. `Die` is a kill or any exception a command
does not catch.

### Pipeline (`Makefile:12-19, 44-101`)

`todo` is the rest of the recipe; `Proceed` and `Stop` are what make does with an
exit status. An index command publishes one index after the other through
`AtomicIndex`. That promise is the one `IndexStore` keeps for uniform use one
command at a time, which is what a recipe is: `pipeline` and `bonus` give all
their commands the same `--semantic`, and an index command that dies stops make,
whose next run begins with another. `Leftovers` are indices and outputs of
earlier runs. `evaluate` is one step here, with the exit status it comes to; its
file of ground truth may be whole, missing or broken, and it may die.

### Evaluator (`evaluate.py`)

One result is one action, as in the loop. `Finds` and `Relevant` are the two
copies of the overlap test, for recall and for precision; `Top` is the slice,
negative `k` included. Sums are exact fractions, and where the recall equals the
threshold either verdict is allowed.

## 3. Runs that pass

All run with two workers in under a minute each.

| run | what is checked | bounds, and why they are enough |
|---|---|---|
| `text_chunker` | `CutsAtSeparator`, `EndsAdvance`, `ChunksCoverText`, `HeadingIsNearest`, `Progress`, `CoverSpec` | all texts over 4 characters up to length 7, windows of 4, overlap 2: up to seven windows, every cascade branch at every place, chunks longer and shorter than the overlap |
| `code_chunker` | `SizesBounded`, `StatementsStored`, `OrderedUpToDecorators`, `StartsIdentify` | 534 trees: three levels, two children, decorated or not, with and without clauses behind a body, chunks of 3: every length is below, at or above the limit |
| `line_starts` | `LookupsInRange`, `OffsetsExact`, `OffsetsNeverAhead` | all texts of four kinds of characters up to length 6: up to six lines |
| `index_build` | `AlignedUpToSkips`, `UntouchedFilesIndexed`, `Ends` | four files (a document, a root script in both indices, a package file, an excluded one), 0 or 2 chunks each, two changes: a file can fail before, between and after the two reads, with files before and behind it |
| `index_store` | `LexicalSearchWhole`, `FinishedBuildWhole`, `LoadsAfterBuildSucceed`, `AtomicSpec`, `CommandsEnd` | three builds and two searches one by one, with `--semantic` never, always or at will; or four builds, two of which die, beside a search |
| `hybrid_search` | `ExactlyK`, `AgreementKept`, `NearTopOfBothWins` | corpus of 5, k from 0 to 3, two candidates per result, FAISS with 3, 5 or 6 rows: chunks found by one, both or no ranker, a corpus too small for k = 3, a FAISS index of another build |
| `answer_pipeline` | `FreshWhenComplete`, `AnswersFromOwnSources`, `OneVersionPerFile`, `PipelineEnds` | one run of make over two datasets of none or two questions (equal or different) or missing, two files of two versions or unreadable, indices and outputs left by nothing, dead runs or other datasets, one edit and any death; the prompt holds two sources and 5 characters, so that texts fit together, one by one, or never |
| `evaluator` | `PerfectRecall`, `HitsAgree`, `RecallGrowsWithK` | results of up to two questions, up to two sources each; expected sources of 20 and 21 characters with an overlap of one, at and just below the threshold of 5%, and an empty one; datasets that lack or repeat a question; `k` from -1 to 2 |

One run of make is enough for `FreshWhenComplete` because what earlier runs can
leave is in `Leftovers`, and one edit because two versions already tell a cache
from the file.

What they show:

* **Text chunker.** Every cut is behind a separator if the window has one, and
  leaves no heading of the window behind it. Stepping back can produce a chunk that
  lies wholly inside the one before it (a separator just behind the step back),
  which is redundant, but never two in a row, and ends never move back.
* **Code chunker.** The header rule is what stores signatures. Beyond the overlap,
  the only text stored twice or out of order is that of a first child's
  decorators. The start tells the chunks of a file apart, as the fusion of a search
  supposes (`indexer.py:394`), except in such decorators under a header that is
  itself longer than a chunk.
* **Line offsets.** Two different causes of error are separated: a wide character
  shifts what is behind it on its line only, another line boundary takes back the
  offsets of all later lines. Neither ever misses the list.
* **Index build.** The dict of files has the order of the chunks because each
  file's chunks are contiguous: that, not an explicit check, is what aligns rows.
  The alignment holds up to the first file that is skipped.
* **Index store.** Used one command at a time with a constant `--semantic`, the
  sequence of writes and reads behaves as one atomic index (refinement). BM25
  search is safe for any mix of flags. A complete build repairs whatever dead
  ones left, side by side with anything.
* **Headings.** A chunk is indexed under the nearest heading, also when the step
  back cuts that heading in two. The one exception the property names is real: a
  chunk that happens to start at a '#' inside a line takes the rest of that line
  for its heading, where the docstring speaks of a chunk that "opens with a '#'
  line".
* **Pipeline.** If make reports that the pipeline is complete, and nobody edited
  files, each dataset that could be read has results and answers of this run, in
  order and for its own questions, and each answer is made from the sources of its
  own row: the answer cache, whose key is the query alone, does not show. The
  condition is needed: for a dataset that is missing or invalid the command prints a
  message and exits with 0, and make then answers and evaluates the results of an
  earlier run.
* **Generator.** As long as files stay as they are, caching never shows, except
  through the answer cache when a question comes back with other sources, which one
  `search_dataset` cannot produce (see Pipeline). While files change, prompts may be
  stale but never mix two versions of a file, in one prompt or between two.
* **Evaluator.** The sums behind Recall@k and Precision@k are sums of shares
  between 0 and 1, whatever `k` and however sources repeat; recall 1 is exactly "everything
  found, for every question of the results"; the two loops agree on what a hit is
  for every `k` above 0.
* **Search.** With `RRF_CONSTANT` 1 in place of 20, a chunk among the first
  `RRF_CONSTANT + 1` of both rankers beats every chunk only one of them found:
  the comment at `indexer.py:391-392` made precise.

Deadlock checking is off in all runs: every model stands for a call that returns
or for users who may stop.

**Fairness.** `FairSpec` of `IndexBuild` is weak fairness of the steps of a single
thread that never waits, and not of `Change`, which is somebody else's. `IndexStore`
has weak fairness of the running index command and of each load, separately, as
processes of their own; starting a command and dying are not fair. `Pipeline` has
weak fairness of the running command and of make's next step (`Step`): neither ever
waits for anything; users, edits and deaths are not fair. The other specifications
need none: the progress of the text chunker is an action property.

## 4. Runs that find a disagreement

| run | property | what the code does |
|---|---|---|
| `code_chunker_long` | `LongFunctionsKept` | The README (line 61) says that a function over 2000 characters falls back on text chunking. A function has a body and is split by its statements instead. In the run its only statement is a block, too long as well, with a clause (else, except or finally) behind its body: the block's own statement is stored, the clause is in no chunk. Text between the statements of a body is lost by the same loop (line 203). |
| `line_starts_wide` | `AbsoluteCharacter` | Byte columns are added to character offsets: a chunk starts or ends too far right. 38 of the 892 indexed Python files of the bundled corpus hold such characters. |
| `index_build_skips` | `RowsAligned` | A file that cannot be read the second time loses its rows but not its chunks, and later rows are looked up in the wrong place. |
| `index_store_stale` | `LoadedIndexWhole` | `index --semantic True`, `index`, then a semantic search: FAISS rows of the first build with chunks of the second. |

Further disagreements met while modelling have no run of their own:

* A chunk size of 0, which the command line accepts, makes the text chunker's loop
  endless (the theorems assume a size above 0).
* The class comment of `TextChunker` ranks headings above paragraphs, where the code
  takes the later of the two.
* An index command that dies between two artefacts leaves a directory that loads
  as a mix of builds.
* `MAX_CONTEXT_CHARS` (1500) is less than a chunk may be (1800 and 2000), so that a
  long first chunk ends the loop over the sources and the question is asked without
  any context, where the prompt says "based ONLY on the following context"
  (`generator.py:62, 88`).
* File and start are called a "Unique string key for a chunk"
  (`indexer.py:394-395`); under a header longer than a chunk a window may start where
  a decorator's chunk does, which is the exception of `StartsIdentify`.
* `search` promises `k` chunks, but asks for `k * CANDIDATE_MULT` candidates
  whatever the size of the corpus (`indexer.py:370`), and raises when there are
  fewer (`TooFewRows` in `HybridSearch`).

## 5. Theorems

All are checked by TLAPS for every value of the constants that meets the named
ASSUMEs, which TLC evaluates on the constants of the runs. Every safety
invariant of the passing runs, `Progress`, `CoverSpec` and `AtomicSpec` are
proved. Each module's inductive invariant is called `IInv` (in `TextChunker` and
`CodeChunker` there is a second one) and was model-checked before it was proved.

* **`TextChunkerProofs`** (`TextsAssumption`; the theorems about the chunker's
  steps have `MaxChunkSize > 0` as a hypothesis, see section 4). What must be shown of the
  characters is that the cut is inside its window (`AbsoluteEndInWindow`, from
  `MaxOfBounded`: a maximum chosen from a bounded set of integers exists). Then
  every step is a step of the cover (`StepSimulation`): `ImplementsCover`.
  *The cover*: `SizesBounded` and `StepsBackByOverlap` say nothing of the cursor,
  and `EverythingCovered` nothing before the end, so that none is inductive.
  `Cover!IInv` adds `CursorFollows` (the cursor is behind the start of the last
  chunk, at its end or one overlap before it) and `CoveredSoFar` (everything up to
  the end of the last chunk is covered). `AppendKeeps` is the step: a chunk
  appended at the cursor keeps all of it. Results: `CoverSizes`, `CoverOverlaps`,
  `CoverWhole`, and `Coverage`, which carries them over to the chunker.
  *Cuts*: `CutsInv` says that every chunk but the last is the one its own window
  gives and every window starts where `NextStart` leaves it. `Separators` follows
  from the cascade (`CutIsAtSeparator`, for the headings too, since the cut is at the
  last one or behind it); `EndsMoveOn` needs that a later window
  that still holds the last character before a cut is cut there or behind
  (`LaterCutIsNoEarlier`).
  *Headings*: `NearestHeading` relates the backward search over lines cut at the
  start of a chunk to the headings of the whole text: `SearchSeesHeadings`,
  `OwnHeading` (the line the chunk starts in) and `EarlierHeading`.
* **`CodeChunkerProofs`** (`AstsAssumption`: trees as the parser makes them).
  `StatementsStored` speaks of the end only; `IInv` adds `OwnTextHeld`: at every
  moment a statement's own text is in a chunk or in something still to visit.
  Splitting a node is the hard step: `HeldStep` and `PushIInv` reduce it to what
  `AstOK` says of text inside a compound statement. `OrderInv` is the same idea for
  the order: wherever a chunk may still start, it follows all chunks there are, by
  its start (`StartsBehind`) and by what it repeats (`RepeatsLittle`), and what
  waits is in order too (`Behind`). Each step puts in the place of the head of
  `todo` entries inside it and in order (`ReplaceOrder`); for a split node
  `BodyInOrder` finds the decorators of the first child to be the one exception
  (`DecoratorsAreShared`). Results: `TypeCorrect`, `ChunkSizes`,
  `NothingOwnedIsLost`, `InOrder`, `Identify`.
* **`LineStartsProofs`** (`TextsAssumption`). The table counts the line boundaries
  of `splitlines`, the parser newlines only. `Counted`: entry i has i - 1
  boundaries before it; `Complete`: there is an entry behind every boundary read.
  A newline is a boundary, so that the parser's number is at most the line's place
  in the table (`Lookup`), and is that place where there is no other boundary.
  Results: `InRange`, `Exact`, `NeverAhead`.
* **`IndexBuildProofs`** (`FilesAssumption`). That rows and chunks agree rests on
  the contiguity of a file's chunks (`IngestOK`): only then are the items of
  `dict_chunks`, in the order of their keys, the runs of chunks between cuts
  (`Laid`). `LaidFiled` and `LaidTail` show that filing a chunk and reading an item
  keep that; `RowsRead` and `RowsSkipped` that the rows of the chunks before the
  first cut are where they should be (`RowsKept`); `ChunksKept` that a file nobody
  touches is still to come or has its chunks. Results: `Aligned`,
  `UntouchedIndexed`.
* **`IndexStoreProofs`** (`UsagesAssumption`, which is types). `IInv` has four
  parts besides types. `BuildOK`: a running build has written each artefact or has
  it still to write, writes nothing twice and has not finished; that is what makes
  `FinishedBuildWhole` inductive. `OrderlyOK`: when nobody dies and nothing runs
  side by side, only the artefact being written is unfinished, and nothing is
  loaded meanwhile. `LoadOK`: what a load has read, told from what it has still to
  read, is of the last finished build. `UniformOK`: with one `--semantic` for all,
  the FAISS file that is looked for was written. Results: `TypeCorrect`, `Repairs`,
  `LexicalWhole`, `LoadsSucceed`, and `ImplementsAtomic`: `IndexSteps` shows that
  the first write of a directory publishes the index and no other write shows,
  `LoadSteps` that a load shows when it starts and with its last file; usages that
  are not uniform stutter (`OthersStutter`).
* **`HybridSearchProofs`** (`SizesAssumption`). `DictOK` says of `rrf_scores` what
  the loops have put into it so far: an entry for each chunk seen, with the sum of
  the reciprocals of its ranks (`FuseFirst`, `FuseSecond`); `ResultOK` that the
  result is a best choice of k entries. The rest is arithmetic of one or two
  reciprocals: a chunk better in both rankings has the larger sum (`BetterInBoth`,
  `BetterInOne`), and one near the top of both more than any single reciprocal
  (`NearTopInBoth`). Results: `KDifferent`, `Agreement`, `NearTopWins`.
* **`PipelineProofs`** (`GeneratorAssumption`, `BatchAssumption`,
  `PipelineAssumption`: types, datasets and leftovers that are files, and a
  Makefile that names each dataset once). `IInv` has five parts. `TInv`: types, and
  what answers have in common with the caches they came from: every text in the
  chunk cache, in a prompt being built, in a cached answer (`CachesAgree`) or in an
  answer made (`DoneAgrees`) has the version of the cached file. The file cache
  only grows (`Grows`, `TextsStay`), edits do not reach it, and a new one comes
  with a command without answers. `RecipeOK` and `ProcessOK`: which lines of the
  recipe are left and which one the process runs (`OrderKept`). `AnswersCurrent`:
  while files stay as they are, every cached answer and every prompt is what its
  question and the sources of its row give (`AnswersKept`; `GenerateMakes` for the
  prompt, whose length is a sum of lengths so far); where equal questions have equal
  sources, these are the answer's own row's (`OwnSourcesKnown`). `OutputsFresh`: what each
  line run so far has left on disk, and what the running command has done of its
  rows (`OutputsKept`). The generator's steps are proved first, whoever calls it,
  then the commands, make, edits and deaths. Results: `TypeCorrect`, the budget of
  a prompt included, `OneVersion`, `OwnSources`, `AllFresh`.
* **`EvaluatorProofs`** (`EvaluatorAssumption`). `IInv` says of the results before
  `next` what the properties say of all. Sums of fractions multiply denominators,
  so that the lemmas are about products: adding a share of at most 1 to a sum of
  at most m (`SumAtMost`, `PlusOne`), of two sums the smaller (`PlusShares`), and
  when a sum is 0 (`PlusZero`). Counts are cardinalities of sets of places
  (`RecallIs`, `PrecisionIs`, `SameHits`). Results: `Perfect`, `SameZero`, `Grows`.

Out of reach of the prover and left to TLC: liveness under fairness (`Ends`,
`CommandsEnd`, `PipelineEnds`), ENABLED, and what a recursive
definition computes for every input (induction over data). Where a proof needs
that a recursively defined sum exists (`SumsExist` in `PipelineProofs` and
`EvaluatorProofs`), the least argument at which it did not would be a
contradiction: `WellFoundedInduction` gives that least element. No module with a
theorem reaches a RECURSIVE operator; `MCCodeChunker` declares one to enumerate
trees and is used by TLC only.

## 6. What is not modelled, and why

* Text cleaning for BM25 and the boosting of rows by paths and table headers:
  regular expressions over strings, without state.
* Scores and contents of BM25, FAISS, the embedding and the language model:
  external, any result they may return.
* Two index commands at once, or two runs of make: nothing in the code separates
  them, and no promise is left.
* Floating point: scores and recalls are exact, and ties are left open.
* The verdict of `evaluate` is compared with exact recalls only; which threshold
  applies is read off a path and left open.
* `data/`, `evaluations/`, `moulinette/`, `exams_pkg/`: corpus, results and
  grading tools, not the program.

## 7. Plan

Every safety property of the passing runs has a theorem. What is left, most important
first:

1. What stands behind the liveness properties, as action properties: a measure that
   every step makes smaller, for the code chunker's recursion (offsets still to
   visit) and for the batch commands (rows and sources still to do).
2. `StartsIdentify` settles which chunks of a code file share the key of the fusion
   (hazard `indexer.py:395`). `HybridSearch` takes keys as unique; left is what a
   search returns when two chunks share one.
