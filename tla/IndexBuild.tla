------------------------------- MODULE IndexBuild -----------------------------
(***************************************************************************)
(* One half of the `index` command (src/src/__main__.py): walk the corpus, *)
(* chunk every file (src/src/ingestion.py), read every file again to put   *)
(* the text behind each chunk into a corpus, and index the corpus          *)
(* (Indexer.build_index, src/src/indexer.py).  An index knows its rows by  *)
(* number only; search takes the chunk of the same number.                 *)
(*                                                                         *)
(* Files belong to somebody else: between two reads one may be edited,     *)
(* removed or made unreadable.                                             *)
(***************************************************************************)
EXTENDS Integers, Sequences, SequencesExt

CONSTANTS
  Files,          \* the paths of the corpus
  PyFiles,        \* those that end in .py; the others end in .md or .txt
  RootFiles,      \* those in the corpus directory itself
  ExcludedFiles,  \* those below a directory of config.EXCLUDE_DIRS
  ChunkCounts,    \* how many chunks a file may have
  MaxChanges      \* bound on the changes made to files during the run

Status == {"good", "unparsable", "unreadable"}

ASSUME FilesAssumption ==
  /\ IsFiniteSet(Files)
  /\ PyFiles \subseteq Files /\ RootFiles \subseteq Files /\ ExcludedFiles \subseteq Files
  /\ ChunkCounts \subseteq Nat
  /\ MaxChanges \in Nat

VARIABLES
  is_code,        \* which of the two indices is built
  disk,           \* each file's status, number of chunks and version
  changes,        \* changes made to files so far
  pc,             \* what the command does next
  walked,         \* files still to ingest, in the order of the walk
  chunks,         \* all_chunks, then corpus_chunks: [file, number, version]
  grouped,        \* how many of the chunks are in dict_chunks
  groups,         \* the items of dict_chunks still to read, in order
  skipped,        \* files whose rows _make_corpus left out
  corpus,         \* the rows: [file, number, version] of the text read
  logged          \* files the ingestion gave up on

vars == <<is_code, disk, changes, pc, walked, chunks, grouped, groups, skipped, corpus, logged>>

-----------------------------------------------------------------------------
\* The files ingest_docs and ingest_code pick.
Selected(code) ==
  {f \in Files \ ExcludedFiles :
     IF code THEN f \in PyFiles ELSE f \notin PyFiles \/ f \in RootFiles}

\* Reading a file raises unless it is there and is UTF-8; so does chunking
\* one that is not Python, for the code index.
Readable(f) == disk[f].status # "unreadable"
Chunkable(f) == Readable(f) /\ (is_code => disk[f].status = "good")

\* The chunks of a file, or the rows made from its text, as it is now.
Piece(f, n) == [file |-> f, number |-> n, version |-> disk[f].version]
ChunksOf(f) == [n \in 1 .. disk[f].count |-> Piece(f, n)]

Init ==
  /\ is_code \in BOOLEAN
  /\ disk \in [Files -> [status : Status, count : ChunkCounts, version : {0}]]
  /\ changes = 0
  /\ pc = "walk"
  /\ walked = << >> /\ grouped = 0 /\ groups = << >>
  /\ chunks = << >> /\ corpus = << >>
  /\ skipped = {} /\ logged = {}

\* os.walk lists directories in any order.
Walk ==
  /\ pc = "walk"
  /\ \E order \in SetToSeqs(Selected(is_code)) : walked' = order
  /\ pc' = "ingest"
  /\ UNCHANGED <<is_code, disk, changes, chunks, grouped, groups, skipped, corpus, logged>>

\* The next file is read, chunked and its chunks appended to the list.
Ingest ==
  /\ pc = "ingest" /\ walked # << >>
  /\ Chunkable(Head(walked))
  /\ chunks' = chunks \o ChunksOf(Head(walked))
  /\ walked' = Tail(walked)
  /\ UNCHANGED <<is_code, disk, changes, pc, grouped, groups, skipped, corpus, logged>>

\* Mutant: the file is tried again until it can be chunked.
IngestRetries ==
  /\ pc = "ingest" /\ walked # << >>
  /\ ~Chunkable(Head(walked))
  /\ logged' = logged \cup {Head(walked)}
  /\ UNCHANGED <<is_code, disk, changes, pc, walked, chunks, grouped, groups, skipped, corpus>>

\* `except Exception`: the file is logged and left out.
IngestFails ==
  /\ pc = "ingest" /\ walked # << >>
  /\ ~Chunkable(Head(walked))
  /\ logged' = logged \cup {Head(walked)}
  /\ walked' = Tail(walked)
  /\ UNCHANGED <<is_code, disk, changes, pc, chunks, grouped, groups, skipped, corpus>>

\* build_index takes the chunks.
BuildIndex ==
  /\ pc = "ingest" /\ walked = << >>
  /\ pc' = "corpus"
  /\ UNCHANGED <<is_code, disk, changes, walked, chunks, grouped, groups, skipped, corpus, logged>>

Item(f, own) == [file |-> f, chunks |-> own]

\* Mutants: the list of the chunks themselves; a new file comes first.
FiledAsIs(dict, c) == Append(dict, c)

FiledFirst(dict, c) ==
  IF \E i \in DOMAIN dict : dict[i].file = c.file
    THEN [i \in DOMAIN dict |->
            IF dict[i].file = c.file THEN Item(c.file, Append(dict[i].chunks, c)) ELSE dict[i]]
    ELSE <<Item(c.file, <<c>>)>> \o dict

\* dict_chunks[c.file].append(c): a new file is a key at the end.
Filed(dict, c) ==
  IF \E i \in DOMAIN dict : dict[i].file = c.file
    THEN [i \in DOMAIN dict |->
            IF dict[i].file = c.file THEN Item(c.file, Append(dict[i].chunks, c)) ELSE dict[i]]
    ELSE Append(dict, Item(c.file, <<c>>))

\* `for chunk in chunks`
GroupChunk ==
  /\ pc = "corpus" /\ grouped < Len(chunks)
  /\ groups' = Filed(groups, chunks[grouped + 1])
  /\ grouped' = grouped + 1
  /\ UNCHANGED <<is_code, disk, changes, pc, walked, chunks, skipped, corpus, logged>>

\* The next file is read again; its chunks' offsets cut rows out of its text.
ReadRows ==
  /\ pc = "corpus" /\ grouped = Len(chunks) /\ groups # << >>
  /\ LET f == Head(groups).file
         own == Head(groups).chunks
     IN  /\ Readable(f)
         /\ corpus' = corpus \o [i \in 1 .. Len(own) |-> Piece(f, own[i].number)]
  /\ groups' = Tail(groups)
  /\ UNCHANGED <<is_code, disk, changes, pc, walked, chunks, grouped, skipped, logged>>

\* Mutant: the try stands around the loop over the files.
ReadFailsForAll ==
  /\ pc = "corpus" /\ grouped = Len(chunks) /\ groups # << >>
  /\ ~Readable(Head(groups).file)
  /\ skipped' = skipped \cup {Head(groups).file}
  /\ groups' = << >>
  /\ UNCHANGED <<is_code, disk, changes, pc, walked, chunks, grouped, corpus, logged>>

\* `except Exception`: a warning is printed, the file adds no row.
ReadFails ==
  /\ pc = "corpus" /\ grouped = Len(chunks) /\ groups # << >>
  /\ ~Readable(Head(groups).file)
  /\ skipped' = skipped \cup {Head(groups).file}
  /\ groups' = Tail(groups)
  /\ UNCHANGED <<is_code, disk, changes, pc, walked, chunks, grouped, corpus, logged>>

\* BM25, and FAISS if asked for, number the rows of the corpus.
IndexCorpus ==
  /\ pc = "corpus" /\ grouped = Len(chunks) /\ groups = << >>
  /\ pc' = "built"
  /\ UNCHANGED <<is_code, disk, changes, walked, chunks, grouped, groups, skipped, corpus, logged>>

\* bm25s may refuse a corpus without rows: nothing catches that.
IndexFails ==
  /\ pc = "corpus" /\ grouped = Len(chunks) /\ groups = << >> /\ corpus = << >>
  /\ pc' = "raised"
  /\ UNCHANGED <<is_code, disk, changes, walked, chunks, grouped, groups, skipped, corpus, logged>>

\* Someone changes a file.
Change ==
  /\ pc \notin {"built", "raised"} /\ changes < MaxChanges
  /\ \E f \in Files, s \in Status, n \in ChunkCounts :
       disk' = [disk EXCEPT ![f] = [status |-> s, count |-> n, version |-> @.version + 1]]
  /\ changes' = changes + 1
  /\ UNCHANGED <<is_code, pc, walked, chunks, grouped, groups, skipped, corpus, logged>>

Step == \/ Walk \/ Ingest \/ IngestFails \/ BuildIndex \/ GroupChunk
        \/ ReadRows \/ ReadFails \/ IndexCorpus \/ IndexFails

Next == Step \/ Change

Spec == Init /\ [][Next]_vars

\* The command is one thread that waits for nothing; nobody need ever
\* change a file.
FairSpec == Spec /\ WF_vars(Step)

-----------------------------------------------------------------------------
PieceType == [file : Files, number : Nat, version : 0 .. MaxChanges]

TypeOK ==
  /\ is_code \in BOOLEAN
  /\ disk \in [Files -> [status : Status, count : ChunkCounts, version : 0 .. MaxChanges]]
  /\ changes \in 0 .. MaxChanges
  /\ pc \in {"walk", "ingest", "corpus", "built", "raised"}
  /\ walked \in Seq(Files)
  /\ grouped \in 0 .. Len(chunks)
  /\ groups \in Seq([file : Files, chunks : Seq(PieceType)])
  /\ chunks \in Seq(PieceType) /\ corpus \in Seq(PieceType)
  /\ skipped \subseteq Files /\ logged \subseteq Files

\* Row i of the corpus is the text of chunk i.
AlignedAt(i) == corpus[i].file = chunks[i].file /\ corpus[i].number = chunks[i].number

\* The chunks before those of any file the corpus skipped.
BeforeSkips ==
  {i \in 1 .. Len(chunks) : \A j \in 1 .. i : chunks[j].file \notin skipped}

\* Row numbers mean chunks up to the first file the corpus had to skip; if it
\* skipped none, every chunk has its row; and a row number is always that of
\* some chunk, so that looking up a result never fails.  The two lists are
\* built by two passes over the files, in the order of the chunks and in that
\* of a dict (ingestion.py:63-69, indexer.py:70-108, 371).
AlignedUpToSkips ==
  /\ Len(corpus) <= Len(chunks)
  /\ \A i \in 1 .. Len(corpus) : i \in BeforeSkips => AlignedAt(i)
  /\ pc = "built" => BeforeSkips \subseteq 1 .. Len(corpus)

\* A file that nobody touches and that can be chunked has all its rows,
\* whatever becomes of the files before and after it: a failure stays with
\* its file (ingestion.py:40-47, 64-71, indexer.py:75-111).
UntouchedFilesIndexed ==
  pc = "built" =>
    \A f \in Selected(is_code) :
      disk[f].version = 0 /\ Chunkable(f) =>
        \A n \in 1 .. disk[f].count : \E i \in 1 .. Len(corpus) : corpus[i] = Piece(f, n)

\* The inductive invariant behind these.  A file was changed at most as often
\* as any;
VersionsOK == \A f \in Files : disk[f].version <= changes

\* the files still to ingest are different and new, and the chunks of a file
\* stand together;
Contiguous(s) ==
  \A i, l \in 1 .. Len(s) : s[i].file = s[l].file =>
    \A j \in i .. l : s[j].file = s[i].file

IngestOK ==
  /\ pc = "walk" => walked = << >> /\ chunks = << >>
  /\ pc \in {"corpus", "built", "raised"} => walked = << >>
  /\ \A i, j \in 1 .. Len(walked) : walked[i] = walked[j] => i = j
  /\ \A i \in 1 .. Len(walked) : \A j \in 1 .. Len(chunks) : walked[i] # chunks[j].file
  /\ Contiguous(chunks)

\* a file nobody touches is still to come or has all its chunks;
Untouched(f) == disk[f].version = 0 /\ Chunkable(f)

ChunksKept ==
  pc # "walk" =>
    \A f \in Selected(is_code) :
      Untouched(f) => \/ \E i \in 1 .. Len(walked) : walked[i] = f
                      \/ \A n \in 1 .. disk[f].count :
                           \E i \in 1 .. Len(chunks) : chunks[i] = Piece(f, n)

\* item i of the dict is the run of chunks from cut[i] to cut[i + 1], so that
\* the items still to read are the chunks from cut[1] to the last one grouped;
RunOf(item, s, from, to) ==
  /\ from < to /\ Len(item.chunks) = to - from
  /\ \A n \in 1 .. to - from :
       item.chunks[n] = s[from + n] /\ s[from + n].file = item.file

Laid(dict, s, cut, last) ==
  /\ cut[Len(dict) + 1] = last
  /\ \A i \in 1 .. Len(dict) : RunOf(dict[i], s, cut[i], cut[i + 1])
  /\ \A i, j \in 1 .. Len(dict) : dict[i].file = dict[j].file => i = j

\* and of the chunks before cut[1], those that come before any skipped file
\* have their rows at their numbers, and those of files nobody touches have
\* theirs somewhere.
RowsKept(done) ==
  /\ Len(corpus) <= done
  /\ \A i \in 1 .. done : i \in BeforeSkips => i <= Len(corpus) /\ AlignedAt(i)
  /\ \A i \in 1 .. done :
       LET c == chunks[i]
       IN  Untouched(c.file) => \E j \in 1 .. Len(corpus) : corpus[j] = Piece(c.file, c.number)

CorpusOK ==
  /\ pc \in {"walk", "ingest"} => grouped = 0 /\ groups = << >> /\ corpus = << >>
  /\ pc \in {"corpus", "built", "raised"} =>
       \E cut \in [1 .. Len(groups) + 1 -> 0 .. grouped] :
         /\ Laid(groups, chunks, cut, grouped)
         /\ grouped < Len(chunks) => cut[1] = 0
         /\ RowsKept(cut[1])
  /\ pc \in {"built", "raised"} => grouped = Len(chunks) /\ groups = << >>

IInv == TypeOK /\ VersionsOK /\ IngestOK /\ ChunksKept /\ CorpusOK

\* What search is meant to rely on: the chunk of a row's number is the chunk
\* the row was made from (README.md:92).
RowsAligned == pc = "built" => \A i \in 1 .. Len(corpus) : AlignedAt(i)

\* The command ends.
Ends == <>(pc \in {"built", "raised"})
=============================================================================
