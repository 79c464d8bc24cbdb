----------------------------- MODULE BatchProcessor ----------------------------
(***************************************************************************)
(* The dataset commands (src/src/batch.py): search_dataset turns a file of *)
(* questions into one of search results, answer_dataset turns that into    *)
(* one of answers, asking a Generator of its own for each.  Each command   *)
(* is a process that reads its input, loops over its rows and writes its   *)
(* output, which has the name of the input, over whatever is there.        *)
(*                                                                         *)
(* The order of a file's rows, their questions and their sources are kept; *)
(* what a search finds is a function of index, generation and query.       *)
(***************************************************************************)
EXTENDS Generator

CONSTANTS
  Names,          \* names of datasets; each is also the name of its index
  Folders,        \* directories of JSON files
  Expanded,       \* what expand_query makes of a question
  Hits            \* what search finds: index -> state of it -> query -> sources

\* The records of models.py, and the files made of them.
QuestionRow == [id : Nat, question : Questions]
ResultRow   == [id : Nat, question : Questions, sources : Seq(Source)]
AnswerRow   == [id : Nat, question : Questions, sources : Seq(Source), answer : Answer]

ASSUME BatchAssumption ==
  /\ Expanded \in [Questions -> Questions]
  /\ Hits \in [Names -> Seq([Questions -> Seq(Source)])]
  /\ \A name \in Names : Hits[name] # << >>

VARIABLES
  index,          \* generation of each index on disk, 0 for none
  json,           \* the JSON files: kind and rows
  command         \* the process that runs

Path == Folders \X Names

\* A file that is not there; one that is no JSON, being written or left so.
Missing == [kind |-> "missing", rows |-> << >>]
Torn    == [kind |-> "torn", rows |-> << >>]

FileOK(file) ==
  \/ file \in {Missing, Torn}
  \/ file.kind = "questions" /\ file \in [kind : {"questions"}, rows : Seq(QuestionRow)]
  \/ file.kind = "results" /\ file \in [kind : {"results"}, rows : Seq(ResultRow)]
  \/ file.kind = "answers" /\ file \in [kind : {"answers"}, rows : Seq(AnswerRow)]

\* No process; one that has ended, with exit status 0 or another.
None == [phase |-> "none"]
Exited(ok) == [phase |-> "exited", ok |-> ok]

\* os.path.join(save_directory, os.path.basename(path))
SavePath(folder, path) == <<folder, path[2]>>

-----------------------------------------------------------------------------
\* RAGCLI.search_dataset: loads the index its dataset's name asks for.
SearchDataset(path, folder, expand) ==
  /\ command = None
  /\ command' =
       IF index[path[2]] = 0 THEN Exited(FALSE)
       ELSE [phase |-> "open", makes |-> "results", path |-> path,
             save |-> SavePath(folder, path), expand |-> expand,
             generation |-> index[path[2]], rows |-> << >>, done |-> << >>]
  /\ NewGenerator
  /\ UNCHANGED <<corpus, index, json>>

\* RAGCLI.answer_dataset
AnswerDataset(path, folder) ==
  /\ command = None
  /\ command' = [phase |-> "open", makes |-> "answers", path |-> path,
                 save |-> SavePath(folder, path), expand |-> FALSE,
                 generation |-> 0, rows |-> << >>, done |-> << >>]
  /\ NewGenerator
  /\ UNCHANGED <<corpus, index, json>>

Opened == json[command.path].kind

\* An input that is missing or no JSON: a message, and the command returns as
\* if all were well.
NoInput ==
  /\ command.phase = "open"
  /\ Opened \in {"missing", "torn"}
  /\ command' = Exited(TRUE)
  /\ UNCHANGED <<corpus, caches, call, index, json>>

\* The models read questions, or results, or answers as results.
Readable == IF command.makes = "results" THEN {"questions"} ELSE {"results", "answers"}

ReadInput ==
  /\ command.phase = "open"
  /\ Opened \in Readable
  /\ command' = [command EXCEPT !.phase = "loop", !.rows = json[command.path].rows]
  /\ UNCHANGED <<corpus, caches, call, index, json>>

\* The models refuse anything else, and UTF-8 refuses a file cut inside a
\* character.
BadInput ==
  /\ command.phase = "open"
  /\ Opened \notin Readable \cup {"missing"}
  /\ command' = Exited(FALSE)
  /\ UNCHANGED <<corpus, caches, call, index, json>>

-----------------------------------------------------------------------------
Looping(makes) == command.phase = "loop" /\ command.makes = makes /\ command.rows # << >>

Result(id, q, sources) == [id |-> id, question |-> q, sources |-> sources]

\* The row is done.
Advance(row) ==
  command' = [command EXCEPT !.rows = Tail(@), !.done = Append(@, row)]

\* A later build may find something else or the same again.
FoundIn(name, generation, query) ==
  Hits[name][1 + (generation % Len(Hits[name]))][query]

\* expand_query, with --expand; search.
Query(q, expand) == IF expand THEN Expanded[q] ELSE q
Found(query) == FoundIn(command.path[2], command.generation, query)

\* Mutant: the result is given the query that was searched for.
SearchNextExpanded ==
  /\ Looping("results")
  /\ LET q == Head(command.rows)
         query == Query(q.question, command.expand)
     IN  Advance(Result(q.id, query, Found(query)))
  /\ UNCHANGED <<corpus, caches, call, index, json>>

\* Search for the question, or for what it expands to; the result keeps the
\* question.
SearchNext ==
  /\ Looping("results")
  /\ LET q == Head(command.rows)
     IN  Advance(Result(q.id, q.question, Found(Query(q.question, command.expand))))
  /\ UNCHANGED <<corpus, caches, call, index, json>>

\* generate_answer is called for the next result ...
AskNext ==
  /\ Looping("answers")
  /\ Ask(Head(command.rows).question, Head(command.rows).sources)
  /\ UNCHANGED <<index, json, command>>

Generating ==
  /\ Looping("answers")
  /\ Generate
  /\ UNCHANGED <<index, json, command>>

\* ... and its answer goes with the question and sources asked about.
TakeAnswer ==
  /\ Looping("answers")
  /\ call.phase = "answered"
  /\ LET r == Head(command.rows)
     IN  Advance([id |-> r.id, question |-> r.question, sources |-> r.sources,
                  answer |-> call.answer])
  /\ call' = Idle
  /\ UNCHANGED <<corpus, caches, index, json>>

-----------------------------------------------------------------------------
\* Opening the output for writing empties it ...
BeginWrite ==
  /\ command.phase = "loop" /\ command.rows = << >>
  /\ json' = [json EXCEPT ![command.save] = Torn]
  /\ command' = [command EXCEPT !.phase = "write"]
  /\ UNCHANGED <<corpus, caches, call, index>>

\* ... and it is whole when it is closed.
EndWrite ==
  /\ command.phase = "write"
  /\ json' = [json EXCEPT ![command.save] = [kind |-> command.makes, rows |-> command.done]]
  /\ command' = Exited(TRUE)
  /\ UNCHANGED <<corpus, caches, call, index>>

\* The process is killed, or the disk is full.
Die ==
  /\ command.phase \in {"open", "loop", "write", "indexing"}
  /\ command' = Exited(FALSE)
  /\ UNCHANGED <<corpus, caches, call, index, json>>

BatchStep == \/ NoInput \/ ReadInput \/ BadInput
             \/ SearchNext \/ AskNext \/ Generating \/ TakeAnswer
             \/ BeginWrite \/ EndWrite
=============================================================================
