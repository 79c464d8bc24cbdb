------------------------------- MODULE Pipeline --------------------------------
(***************************************************************************)
(* `make pipeline`, `make bonus` and `make clean` (src/Makefile): the      *)
(* commands of src/src/__main__.py one after the other, each a process     *)
(* that takes what the ones before it left on disk.  make goes on after a  *)
(* command with exit status 0 and stops after any other.                   *)
(*                                                                         *)
(* An index is saved and loaded as a whole here (AtomicIndex, which        *)
(* IndexStore implements for commands run one at a time to their end): an  *)
(* index command that dies stops make, and the next one starts with        *)
(* another.  Evaluator says what evaluate makes of results; here it counts *)
(* when it can.                                                            *)
(***************************************************************************)
EXTENDS BatchProcessor, FiniteSets, SequencesExt, Functions

CONSTANTS
  Datasets,       \* what the file of a dataset may hold
  Leftovers,      \* what earlier runs may have left: indices and outputs
  NameOrder,      \* the datasets in the order of the Makefile
  MaxRuns,        \* bound on the runs of make pipeline
  MaxEdits        \* bound on the files edited

ASSUME PipelineAssumption ==
  /\ Folders = {"UnansweredQuestions", "search_results", "search_results_and_answer"}
  /\ NameOrder \in Seq(Names) /\ IsInjective(NameOrder) /\ Range(NameOrder) = Names
  /\ NameOrder # << >>
  /\ \A d \in Datasets : FileOK(d)
  /\ \A l \in Leftovers :
       /\ l.index \in [Names -> Nat]
       /\ \A folder \in Folders \ {"UnansweredQuestions"} : FileOK(l.output[folder])
  /\ MaxRuns \in Nat /\ MaxEdits \in Nat

VARIABLES
  todo,           \* the commands make has still to run, the running one first
  runs, edits,    \* counters for the bounds
  quiet,          \* no file was edited since make began
  complete        \* the last run of make pipeline came to its end

makeVars == <<todo, runs, edits, quiet, complete>>
vars == <<corpus, caches, call, index, json, command, makeVars>>

Nobody == [s \in {} |-> {}]
Index == INSTANCE AtomicIndex WITH Dirs <- Names, Searchers <- {}, view <- Nobody

Dataset(name) == <<"UnansweredQuestions", name>>
Results(name) == <<"search_results", name>>
Answers(name) == <<"search_results_and_answer", name>>

-----------------------------------------------------------------------------
Line(op, name) == [op |-> op, name |-> name]
ForEachName(op) == [i \in DOMAIN NameOrder |-> Line(op, NameOrder[i])]

\* The commands of the target; bonus adds --semantic to the first three.
pipeline ==
  <<Line("index", NameOrder[1])>>
    \o ForEachName("search") \o ForEachName("answer") \o ForEachName("evaluate")

Init ==
  /\ GeneratorInit
  /\ \E l \in Leftovers, d \in [Names -> Datasets] :
       /\ index = l.index
       /\ json = [p \in Path |-> IF p = Dataset(p[2]) THEN d[p[2]] ELSE l.output[p[1]]]
  /\ command = None
  /\ todo = << >> /\ runs = 0 /\ edits = 0
  /\ quiet = TRUE /\ complete = FALSE

\* `make pipeline`
Make ==
  /\ todo = << >> /\ runs < MaxRuns
  /\ todo' = pipeline
  /\ runs' = runs + 1
  /\ quiet' = TRUE /\ complete' = FALSE
  /\ UNCHANGED <<corpus, caches, call, index, json, command, edits>>

\* `make clean` removes the indices and all outputs.
Clean ==
  /\ todo = << >>
  /\ index' = [n \in Names |-> 0]
  /\ json' = [p \in Path |-> IF p[1] = "UnansweredQuestions" THEN json[p] ELSE Missing]
  /\ complete' = FALSE
  /\ UNCHANGED <<corpus, caches, call, command, todo, runs, edits, quiet>>

-----------------------------------------------------------------------------
Runs(op) == command = None /\ todo # << >> /\ Head(todo).op = op
Name == Head(todo).name

\* RAGCLI.index, which publishes one index after the other.
StartIndex ==
  /\ Runs("index")
  /\ command' = [phase |-> "indexing", rows |-> NameOrder, generation |-> index[Name] + 1]
  /\ UNCHANGED <<corpus, caches, call, index, json, makeVars>>

PublishNext ==
  /\ command.phase = "indexing" /\ command.rows # << >>
  /\ index' = [index EXCEPT ![Head(command.rows)] = command.generation]
  /\ Index!Publish(Head(command.rows))
  /\ command' = [command EXCEPT !.rows = Tail(@)]
  /\ UNCHANGED <<corpus, caches, call, json, makeVars>>

Indexed ==
  /\ command.phase = "indexing" /\ command.rows = << >>
  /\ command' = Exited(TRUE)
  /\ UNCHANGED <<corpus, caches, call, index, json, makeVars>>

StartSearch ==
  /\ Runs("search")
  /\ \E expand \in BOOLEAN : SearchDataset(Dataset(Name), "search_results", expand)
  /\ UNCHANGED makeVars

StartAnswer ==
  /\ Runs("answer")
  /\ AnswerDataset(Results(Name), "search_results_and_answer")
  /\ UNCHANGED makeVars

\* The ground truth of a dataset, which no command writes: missing, no JSON or
\* without its records, or as it should be.
GroundTruth == {"missing", "broken", "whole"}

\* A missing file is a message, the results looked for first; results without
\* rows divide by zero, and what is no JSON, or has no results, raises as well.
Evaluable(file, truth) ==
  \/ file.kind = "missing"
  \/ file.kind # "torn" /\ truth = "missing"
  \/ file.kind \in {"results", "answers"} /\ file.rows # << >> /\ truth = "whole"

\* It writes nothing, so that how it ends is all there is of it, a death too.
Evaluate ==
  /\ Runs("evaluate")
  /\ \E truth \in GroundTruth, dies \in BOOLEAN :
       command' = Exited(~dies /\ Evaluable(json[Results(Name)], truth))
  /\ UNCHANGED <<corpus, caches, call, index, json, makeVars>>

\* make goes on, or stops with an error.
Proceed ==
  /\ command = Exited(TRUE) /\ todo # << >>
  /\ command' = None
  /\ todo' = Tail(todo)
  /\ complete' = (Tail(todo) = << >>)
  /\ UNCHANGED <<corpus, caches, call, index, json, runs, edits, quiet>>

Stop ==
  /\ command = Exited(FALSE)
  /\ command' = None
  /\ todo' = << >>
  /\ UNCHANGED <<corpus, caches, call, index, json, runs, edits, quiet, complete>>

\* Somebody edits a file of the corpus or a dataset, at any moment.
EditCorpus ==
  /\ edits < MaxEdits
  /\ \E f \in Files : Edit(f)
  /\ edits' = edits + 1 /\ quiet' = FALSE
  /\ UNCHANGED <<index, json, command, todo, runs, complete>>

EditDataset ==
  /\ edits < MaxEdits
  /\ \E n \in Names, d \in Datasets :
       /\ json[Dataset(n)] # d
       /\ json' = [json EXCEPT ![Dataset(n)] = d]
  /\ edits' = edits + 1 /\ quiet' = FALSE
  /\ UNCHANGED <<corpus, caches, call, index, command, todo, runs, complete>>

Step == \/ StartIndex \/ PublishNext \/ Indexed
        \/ StartSearch \/ StartAnswer \/ Evaluate
        \/ (BatchStep /\ UNCHANGED makeVars)
        \/ Proceed \/ Stop

Next == \/ Step \/ Make \/ Clean \/ EditCorpus \/ EditDataset
        \/ (Die /\ UNCHANGED makeVars)

Spec == Init /\ [][Next]_vars

\* A command waits for nothing and make for its command; users need do nothing.
FairSpec == Spec /\ WF_vars(Step)

-----------------------------------------------------------------------------
Batch(makes, Reads, Writes) ==
  [phase : {"open", "loop", "write"}, makes : {makes}, path : Path, save : Path,
   expand : BOOLEAN, generation : Nat, rows : Seq(Reads), done : Seq(Writes)]

Searches == Batch("results", QuestionRow, ResultRow)
AnswersMade == Batch("answers", ResultRow \cup AnswerRow, AnswerRow)

CommandOK ==
  \/ command \in {None, Exited(TRUE), Exited(FALSE)}
  \/ command \in [phase : {"indexing"}, rows : Seq(Names), generation : Nat]
  \/ command \in Searches
  \/ command \in AnswersMade

Lines == [op : {"index", "search", "answer", "evaluate"}, name : Names]

DiskOK ==
  /\ index \in [Names -> Nat]
  /\ DOMAIN json = Path /\ \A p \in Path : FileOK(json[p])

MakeOK ==
  /\ todo \in Seq(Lines)
  /\ runs \in 0 .. MaxRuns /\ edits \in 0 .. MaxEdits
  /\ quiet \in BOOLEAN /\ complete \in BOOLEAN

TypeOK == GeneratorTypeOK /\ DiskOK /\ CommandOK /\ MakeOK

\* What a dataset's outputs must hold: one result per question, in the order
\* of the dataset, found by the present index for the question or for its
\* expansion; and one answer per result, in that order, to that question and
\* made from that result's sources, although it may be the one made for an earlier
\* result of the same question (generator.py:170-175).
Fresh(n) ==
  LET questions == json[Dataset(n)].rows
      results   == json[Results(n)].rows
      answers   == json[Answers(n)].rows
  IN  /\ json[Results(n)].kind = "results" /\ json[Answers(n)].kind = "answers"
      /\ \E expand \in BOOLEAN :
           results = [i \in DOMAIN questions |->
                        Result(questions[i].id, questions[i].question,
                               FoundIn(n, index[n], Query(questions[i].question, expand)))]
      /\ DOMAIN answers = DOMAIN results
      /\ \A i \in DOMAIN answers :
           /\ Result(answers[i].id, answers[i].question, answers[i].sources) = results[i]
           /\ answers[i].answer.question = results[i].question
           /\ MadeFrom(corpus, answers[i].answer.prompt, answers[i].sources)

\* A pipeline that comes to its end leaves, for every dataset that can be
\* read, outputs made in this run from that dataset and that index, whatever
\* earlier or dead runs had left, and whatever becomes of the other dataset; and
\* its cache of answers, keyed by the question alone, has given no row the answer
\* of other sources (Makefile:44-70, batch.py:39-85, 99-139, __main__.py:128-137).
FreshWhenComplete ==
  complete /\ quiet =>
    \A n \in Names : json[Dataset(n)].kind = "questions" => Fresh(n)

Answering == command.phase \in {"loop", "write"} /\ command.makes = "answers"

\* The caches do not show: while no file changes, every answer is the one made
\* from the sources of its own row, although it may have been made for an
\* earlier row with the same question, provided that equal questions come
\* with equal sources, as they do from one search_dataset (generator.py:68-97,
\* 170-175, 232).
AnswersFromOwnSources ==
  Answering /\ quiet =>
    \A i \in DOMAIN command.done :
      LET row == command.done[i]
      IN  (\A j \in DOMAIN command.done :
             command.done[j].question = row.question => command.done[j].sources = row.sources)
          => /\ row.answer.question = row.question
             /\ MadeFrom(corpus, row.answer.prompt, row.sources)

\* However files are edited while the answers are made, no two texts in the
\* prompts of one command come from different versions of a file
\* (generator.py:70-83).
OneVersionPerFile ==
  Answering =>
    LET texts == UNION {Range(command.done[i].answer.prompt) : i \in DOMAIN command.done}
    IN  \A t, u \in texts : t.file = u.file => t.version = u.version

\* The answers made so far are from the generator's versions of the files:
\* with that and CachesAgree the types become inductive.
DoneAgrees ==
  command.phase \in {"open", "loop", "write"} /\ command.makes = "answers" =>
    \A i \in DOMAIN command.done :
      AllOfCachedFiles(file_cache, command.done[i].answer.prompt)

TInv == TypeOK /\ CachesAgree /\ DoneAgrees

-----------------------------------------------------------------------------
\* The inductive invariant.  First, the recipe: an index is built before its
\* searches, a search before its answers; and what a process works at is the
\* first line of what make has still to run.
Stage(op) == CASE op = "index" -> 1 [] op = "search" -> 2 [] op = "answer" -> 3 [] OTHER -> 4

RecipeOK ==
  /\ \A i, j \in DOMAIN todo : i < j => Stage(todo[i].op) <= Stage(todo[j].op)
  /\ \A i \in DOMAIN todo :
       /\ todo[i].op = "index" =>
            \A n \in Names : \E j \in DOMAIN todo : j > i /\ todo[j] = Line("search", n)
       /\ todo[i].op = "search" =>
            \E j \in DOMAIN todo : j > i /\ todo[j] = Line("answer", todo[i].name)
  /\ todo # << >> => ~complete

InBatch == command.phase \in {"open", "loop", "write"}

ProcessOK ==
  /\ command # None => todo # << >>
  /\ command.phase = "indexing" => Head(todo).op = "index"
  /\ InBatch /\ command.makes = "results" =>
       /\ Head(todo).op = "search"
       /\ command.path = Dataset(Name) /\ command.save = Results(Name)
       /\ command.generation = index[Name]
  /\ InBatch /\ command.makes = "answers" =>
       /\ Head(todo).op = "answer"
       /\ command.path = Results(Name) /\ command.save = Answers(Name)

\* Then the answers: each is known by its question and by sources it was made
\* for, which are those of a row before it, or of the row being answered.
Asked(rows, q) == {rows[i].sources : i \in {j \in DOMAIN rows : rows[j].question = q}}

MadeFor(files, answer, q, lists) ==
  answer.question = q /\ \E sources \in lists : MadeFrom(files, answer.prompt, sources)

RowsMade(files, rows) ==
  \A i \in DOMAIN rows :
    MadeFor(files, rows[i].answer, rows[i].question, Asked(rows, rows[i].question))

CacheMade(files, cache, rows) ==
  \A q \in DOMAIN cache : MadeFor(files, cache[q], q, Asked(rows, q))

\* The rows whose answers have been made.
Begun == IF call.phase = "answered" THEN Append(command.done, Head(command.rows))
                                    ELSE command.done

CallCurrent ==
  /\ call.phase # "idle" => command.phase = "loop" /\ command.rows # << >>
  /\ call.phase \in {"reading", "asking"} =>
       /\ call.question = Head(command.rows).question
       /\ call.sources = Head(command.rows).sources
  /\ call.phase = "answered" =>
       MadeFor(corpus, call.answer, Head(command.rows).question,
               Asked(Begun, Head(command.rows).question))

NothingStale ==
  /\ CachesCurrent /\ PromptCurrent /\ CallCurrent
  /\ RowsMade(corpus, command.done)
  /\ CacheMade(corpus, answer_cache, Begun)

AnswersCurrent == quiet /\ InBatch /\ command.makes = "answers" => NothingStale

\* Last, the outputs: what rows hold when they are made of an input, and what
\* each line leaves when it has been run.
FoundFor(n, questions, expand, results) ==
  \A i \in DOMAIN results :
    results[i] = Result(questions[i].id, questions[i].question,
                        FoundIn(n, index[n], Query(questions[i].question, expand)))

AnswersTo(results, answers) ==
  \A i \in DOMAIN answers :
    /\ Result(answers[i].id, answers[i].question, answers[i].sources) =
         Result(results[i].id, results[i].question, results[i].sources)
    /\ answers[i].answer.question = results[i].question

OwnSourcesUsed(answers) ==
  \A i \in DOMAIN answers : MadeFrom(corpus, answers[i].answer.prompt, answers[i].sources)

ResultsFresh(n) ==
  /\ json[Results(n)].kind = "results"
  /\ Len(json[Results(n)].rows) = Len(json[Dataset(n)].rows)
  /\ \E expand \in BOOLEAN :
       FoundFor(n, json[Dataset(n)].rows, expand, json[Results(n)].rows)

AnswersFresh(n) ==
  /\ json[Answers(n)].kind = "answers"
  /\ Len(json[Answers(n)].rows) = Len(json[Results(n)].rows)
  /\ AnswersTo(json[Results(n)].rows, json[Answers(n)].rows)
  /\ OwnSourcesUsed(json[Answers(n)].rows)

\* The rows done and those still to do make up the input.
Splits(input, done, rows) ==
  /\ Len(done) + Len(rows) = Len(input)
  /\ \A i \in DOMAIN rows : rows[i] = input[Len(done) + i]

Between(input) ==
  /\ command.phase = "open" => command.done = << >>
  /\ command.phase \in {"loop", "write"} => Splits(input, command.done, command.rows)
  /\ command.phase = "write" => command.rows = << >>

HasRun(op, n) == \A i \in DOMAIN todo : todo[i] # Line(op, n)

\* The first line has run too once its process has ended well.
Run(op, n) == \/ HasRun(op, n)
              \/ command = Exited(TRUE) /\ todo # << >> /\ Head(todo) = Line(op, n)

LinesLeft ==
  \A n \in Names : json[Dataset(n)].kind = "questions" =>
    /\ Run("search", n) => ResultsFresh(n)
    /\ Run("answer", n) => AnswersFresh(n)

WorkInHand ==
  /\ InBatch /\ command.makes = "results" =>
       /\ Between(json[Dataset(Name)].rows)
       /\ FoundFor(Name, json[Dataset(Name)].rows, command.expand, command.done)
  /\ InBatch /\ command.makes = "answers" =>
       /\ Between(json[Results(Name)].rows)
       /\ AnswersTo(json[Results(Name)].rows, command.done)

OutputsFresh == quiet /\ (todo # << >> \/ complete) => LinesLeft /\ WorkInHand

IInv == TInv /\ RecipeOK /\ ProcessOK /\ AnswersCurrent /\ OutputsFresh

\* A run of make ends, whatever it finds on disk.
PipelineEnds == []<>(todo = << >>)
=============================================================================
