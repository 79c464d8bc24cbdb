------------------------------- MODULE IndexStore -----------------------------
(***************************************************************************)
(* The two index directories on disk, the `index` command that writes them *)
(* one artefact after the other (Indexer.save_index, src/src/indexer.py),  *)
(* and the commands that read one back (Indexer.load_index).  A directory  *)
(* keeps whatever a save does not overwrite, a command may die between any *)
(* two writes, and nothing keeps a search from running beside an index.    *)
(*                                                                         *)
(* An artefact is known by its generation, the number of the `index`       *)
(* command that wrote it.                                                  *)
(***************************************************************************)
EXTENDS Integers, Sequences, FiniteSets

CONSTANTS
  Searchers,      \* commands that load an index: search, answer, search_dataset
  Usages          \* the ways users may run the commands, see UsageType

\* Which search commands users run, with which values of --semantic, whether
\* they start a command while another one runs, and two bounds: on the number
\* of index commands and on how many of those die.
UsageType == [searchers : SUBSET Searchers, flags : SUBSET BOOLEAN, concurrent : BOOLEAN,
              builds : Nat, crashes : Nat]

ASSUME UsagesAssumption == Usages \subseteq UsageType

Dirs == {"docs", "code"}
Artefacts == {"chunks", "bm25", "faiss"}

\* An artefact that is not there; one that is being written, or was when its
\* writer died; a BM25 index, which is several files, in the same state over
\* an older one: some of its files are old, some new.
Absent == 0
Torn   == -1
Mixed  == -2

VARIABLES
  usage,          \* the way users run the commands, fixed
  disk,           \* generation of each artefact of each directory
  builds,         \* index commands started so far, the last one's generation
  crashes,        \* index commands that died
  writes,         \* artefacts the running index command has still to write
  finished,       \* generation of the last index command that ran to its end
  wrote_faiss,    \* --semantic of that command
  loader          \* what each searcher is doing and what it has loaded

vars == <<usage, disk, builds, crashes, writes, finished, wrote_faiss, loader>>

-----------------------------------------------------------------------------
\* Mutant: chunks.json is written only if it is not there.
SaveOrderOnce(d, semantic) ==
  (IF disk[d]["chunks"] = Absent THEN <<[dir |-> d, art |-> "chunks"]>> ELSE << >>)
    \o <<[dir |-> d, art |-> "bm25"]>>
    \o (IF semantic THEN <<[dir |-> d, art |-> "faiss"]>> ELSE << >>)

\* Mutant: the FAISS file is never written.
SaveOrderLexical(d, semantic) ==
  <<[dir |-> d, art |-> "chunks"], [dir |-> d, art |-> "bm25"]>>

\* save_index for one directory: the FAISS file only with --semantic.
SaveOrder(d, semantic) ==
  <<[dir |-> d, art |-> "chunks"], [dir |-> d, art |-> "bm25"]>>
    \o (IF semantic THEN <<[dir |-> d, art |-> "faiss"]>> ELSE << >>)

\* load_index: the same order, the FAISS file only with --semantic.
LoadOrder(semantic) == <<"chunks", "bm25">> \o (IF semantic THEN <<"faiss">> ELSE << >>)

Idle == [phase |-> "idle", dir |-> "docs", semantic |-> FALSE, reads |-> << >>,
         got |-> [a \in Artefacts |-> Absent]]

Indexing == writes # << >>
Loading == {s \in Searchers : loader[s].phase = "loading"}

\* A shell that runs one command at a time starts the next when it is free.
MayStart == usage.concurrent \/ (~Indexing /\ Loading = {})

Init ==
  /\ usage \in Usages
  /\ disk = [d \in Dirs |-> [a \in Artefacts |-> Absent]]
  /\ builds = 0 /\ crashes = 0
  /\ writes = << >>
  /\ finished = 0 /\ wrote_faiss = FALSE
  /\ loader = [s \in Searchers |-> Idle]

-----------------------------------------------------------------------------
\* `index [--semantic True]`: docs, then code.  Ingesting and building touch
\* no artefact.
StartIndex(semantic) ==
  /\ MayStart /\ ~Indexing
  /\ builds < usage.builds
  /\ builds' = builds + 1
  /\ writes' = SaveOrder("docs", semantic) \o SaveOrder("code", semantic)
  /\ wrote_faiss' = semantic
  /\ UNCHANGED <<usage, disk, crashes, finished, loader>>

\* Opening a file for writing empties it (one left unfinished is no more
\* finished for that) ...
BeginWrite ==
  /\ Indexing
  /\ LET w == Head(writes)
     IN  /\ disk[w.dir][w.art] \notin {Torn, Mixed}
         /\ disk' = [disk EXCEPT ![w.dir][w.art] =
                       IF w.art = "bm25" /\ @ # Absent THEN Mixed ELSE Torn]
  /\ UNCHANGED <<usage, builds, crashes, writes, finished, wrote_faiss, loader>>

\* ... and it is whole when it is closed.
EndWrite ==
  /\ Indexing
  /\ LET w == Head(writes)
     IN  /\ disk[w.dir][w.art] \in {Torn, Mixed}
         /\ disk' = [disk EXCEPT ![w.dir][w.art] = builds]
  /\ writes' = Tail(writes)
  /\ finished' = IF Tail(writes) = << >> THEN builds ELSE finished
  /\ UNCHANGED <<usage, builds, crashes, wrote_faiss, loader>>

\* The index command dies: what is on disk stays as it is.
Crash ==
  /\ Indexing /\ crashes < usage.crashes
  /\ crashes' = crashes + 1
  /\ writes' = << >>
  /\ UNCHANGED <<usage, disk, builds, finished, wrote_faiss, loader>>

-----------------------------------------------------------------------------
\* A search command makes an Indexer and loads a directory into it.
StartLoad(s, d, semantic) ==
  /\ MayStart
  /\ loader[s].phase \in {"idle", "ready", "failed"}
  /\ loader' = [loader EXCEPT ![s] =
                  [Idle EXCEPT !.phase = "loading", !.dir = d, !.semantic = semantic,
                               !.reads = LoadOrder(semantic)]]
  /\ UNCHANGED <<usage, disk, builds, crashes, writes, finished, wrote_faiss>>

Wanted(s) == Head(loader[s].reads)
Found(s) == disk[loader[s].dir][Wanted(s)]

\* What is read is kept.  Old and new BM25 files may load together; an
\* unfinished chunks.json or faiss.index does not.
ReadArtefact(s) ==
  /\ loader[s].phase = "loading"
  /\ Found(s) \notin {Absent, Torn}
  /\ loader' = [loader EXCEPT
       ![s].got[Wanted(s)] = Found(s),
       ![s].reads = Tail(@),
       ![s].phase = IF Tail(loader[s].reads) = << >> THEN "ready" ELSE @]
  /\ UNCHANGED <<usage, disk, builds, crashes, writes, finished, wrote_faiss>>

\* Mutants: the load is taken for complete with the file still to be read; the
\* command waits for the file.
FallBackHalf(s) ==
  /\ loader[s].phase = "loading"
  /\ Wanted(s) = "faiss" /\ Found(s) = Absent
  /\ loader' = [loader EXCEPT ![s].semantic = FALSE, ![s].phase = "ready"]
  /\ UNCHANGED <<usage, disk, builds, crashes, writes, finished, wrote_faiss>>

FallBackWaits(s) ==
  /\ loader[s].phase = "loading"
  /\ Wanted(s) = "faiss" /\ Found(s) = Absent
  /\ UNCHANGED vars

\* No faiss.index: a warning, and the search falls back to BM25 alone.
FallBack(s) ==
  /\ loader[s].phase = "loading"
  /\ Wanted(s) = "faiss" /\ Found(s) = Absent
  /\ loader' = [loader EXCEPT ![s].semantic = FALSE, ![s].reads = << >>, ![s].phase = "ready"]
  /\ UNCHANGED <<usage, disk, builds, crashes, writes, finished, wrote_faiss>>

\* Mutant: a missing faiss.index raises too.
LoadFailsWithoutFaiss(s) ==
  /\ loader[s].phase = "loading"
  /\ Found(s) \in {Absent, Torn, Mixed}
  /\ loader' = [loader EXCEPT ![s] = [Idle EXCEPT !.phase = "failed"]]
  /\ UNCHANGED <<usage, disk, builds, crashes, writes, finished, wrote_faiss>>

\* A file is missing or unfinished: the load raises and the command dies.
LoadFails(s) ==
  /\ loader[s].phase = "loading"
  /\ \/ Found(s) = Absent /\ Wanted(s) # "faiss"
     \/ Found(s) \in {Torn, Mixed}
  /\ loader' = [loader EXCEPT ![s] = [Idle EXCEPT !.phase = "failed"]]
  /\ UNCHANGED <<usage, disk, builds, crashes, writes, finished, wrote_faiss>>

Load(s) == ReadArtefact(s) \/ FallBack(s) \/ LoadFails(s)

Next ==
  \/ \E semantic \in usage.flags : StartIndex(semantic)
  \/ BeginWrite \/ EndWrite \/ Crash
  \/ \E s \in usage.searchers, d \in Dirs, semantic \in usage.flags : StartLoad(s, d, semantic)
  \/ \E s \in Searchers : Load(s)

Spec == Init /\ [][Next]_vars

\* A command that runs goes on to its end or dies; nobody need start one.
FairSpec ==
  /\ Spec
  /\ WF_vars(BeginWrite \/ EndWrite)
  /\ \A s \in Searchers : WF_vars(Load(s))

-----------------------------------------------------------------------------
Generation == Mixed .. usage.builds

TypeOK ==
  /\ usage \in Usages
  /\ disk \in [Dirs -> [Artefacts -> Generation]]
  /\ builds \in 0 .. usage.builds /\ crashes \in 0 .. usage.crashes
  /\ writes \in Seq([dir : Dirs, art : Artefacts])
  /\ finished \in 0 .. builds /\ wrote_faiss \in BOOLEAN
  /\ loader \in [Searchers -> [phase : {"idle", "loading", "ready", "failed"}, dir : Dirs,
                               semantic : BOOLEAN, reads : Seq(Artefacts),
                               got : [Artefacts -> Generation]]]
  /\ \A s \in Searchers : loader[s].phase = "loading" <=> loader[s].reads # << >>

\* An index command that runs to its end repairs whatever dead ones left: both
\* directories are of its generation, except for a FAISS file it did not write
\* (__main__.py:54-67, indexer.py:282-304).
FinishedBuildWhole ==
  ~Indexing /\ finished = builds =>
    \A d \in Dirs, a \in Artefacts :
      (a = "faiss" => wrote_faiss) => disk[d][a] = finished

\* What a search works with: the generations of what it loaded.
Loaded(s) ==
  {loader[s].got[a] : a \in IF loader[s].semantic THEN Artefacts ELSE Artefacts \ {"faiss"}}

Ready(s) == loader[s].phase = "ready"

\* Commands run one at a time and to their end.
Orderly == ~usage.concurrent /\ usage.crashes = 0

\* Then a search without FAISS works with the ranks and the chunks of one
\* build, whatever mix of --semantic the builds had (indexer.py:317-326, 374-375).
LexicalSearchWhole ==
  Orderly =>
    \A s \in Searchers : Ready(s) /\ ~loader[s].semantic => Cardinality(Loaded(s)) = 1

\* And a load fails only as long as no index command has run to its end
\* (indexer.py:317-341).
LoadsAfterBuildSucceed ==
  [][\A s \in Searchers :
       loader[s].phase = "loading" /\ loader'[s].phase = "failed" =>
         ~Orderly \/ finished = 0]_vars

\* What is loaded is "a previously saved index" (indexer.py:309): the
\* artefacts of one build.
LoadedIndexWhole == \A s \in Searchers : Ready(s) => Cardinality(Loaded(s)) = 1

\* If besides every command is given the same --semantic (all `make pipeline`
\* or all `make bonus`), saving and loading are atomic.
Uniform == Orderly /\ Cardinality(usage.flags) = 1

Atomic == INSTANCE AtomicIndex WITH
  index <- [d \in Dirs |->
              IF ~Uniform THEN 0
              ELSE IF disk[d]["chunks"] = Torn THEN builds ELSE disk[d]["chunks"]],
  view  <- [s \in Searchers |-> IF Uniform /\ Ready(s) THEN Loaded(s) ELSE {}]

\* Whoever runs commands like that never sees an index in parts: the order in
\* which artefacts are written and read does not show (indexer.py:282-341).
AtomicSpec == Atomic!Spec

\* Artefacts the running build is not done with.
StillWritten(d, a) == \E i \in 1 .. Len(writes) : writes[i] = [dir |-> d, art |-> a]

\* FinishedBuildWhole says nothing of a build that runs: what it has written
\* is of its generation, and it writes nothing twice.
BuildOK ==
  /\ \A d \in Dirs, a \in Artefacts : disk[d][a] <= builds
  /\ \A d \in Dirs : disk[d]["chunks"] # Mixed
  /\ Indexing =>
       /\ finished < builds
       /\ \A d \in Dirs, a \in Artefacts :
            (a = "faiss" => wrote_faiss) => disk[d][a] = builds \/ StillWritten(d, a)
  /\ \A i, j \in 1 .. Len(writes) : writes[i] = writes[j] => i = j
  /\ FinishedBuildWhole

\* Nobody dies: one artefact at most is unfinished, the one being written, and
\* those that follow are of earlier builds.  Nobody runs beside another: what
\* is loaded is not being written.
OrderlyOK ==
  Orderly =>
    /\ ~Indexing => finished = builds
    /\ \A d \in Dirs, a \in Artefacts :
         disk[d][a] \in {Torn, Mixed} => Indexing /\ Head(writes) = [dir |-> d, art |-> a]
    /\ \A i \in 1 .. Len(writes) : disk[writes[i].dir][writes[i].art] < builds
    /\ \A s \in Searchers : loader[s].phase = "loading" => ~Indexing

\* What a load has still to read, and what that tells of what it has read.
ReadsLeft(semantic) ==
  IF semantic
    THEN {<<"chunks", "bm25", "faiss">>, <<"bm25", "faiss">>, <<"faiss">>, << >>}
    ELSE {<<"chunks", "bm25">>, <<"bm25">>, << >>}

LoadOK ==
  /\ \A s \in Searchers : loader[s].reads \in ReadsLeft(loader[s].semantic)
  /\ Orderly =>
       \A s \in Searchers :
         /\ loader[s].phase = "loading" =>
              /\ Wanted(s) # "chunks" => finished # 0 /\ loader[s].got["chunks"] = finished
              /\ Wanted(s) = "faiss" => loader[s].got["bm25"] = finished
         /\ Ready(s) => loader[s].got["bm25"] = loader[s].got["chunks"]

\* With the same --semantic for all, what a load looks for was written.
UniformOK ==
  Uniform =>
    /\ builds # 0 => wrote_faiss \in usage.flags
    /\ \A s \in Searchers :
         /\ loader[s].phase = "loading" => loader[s].semantic \in usage.flags
         /\ Ready(s) /\ loader[s].semantic => loader[s].got["faiss"] = loader[s].got["chunks"]

IInv == TypeOK /\ BuildOK /\ OrderlyOK /\ LoadOK /\ UniformOK

\* Every command ends.
CommandsEnd ==
  /\ []<>(writes = << >>)
  /\ \A s \in Searchers : []<>(loader[s].phase # "loading")
=============================================================================
