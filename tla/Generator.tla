------------------------------- MODULE Generator -------------------------------
(***************************************************************************)
(* One Generator object (src/src/generator.py) serving generate_answer,    *)
(* one call at a time: the prompt it builds from the sources of a          *)
(* question, and the caches of answers, files and chunk texts that outlive *)
(* the call.                                                               *)
(*                                                                         *)
(* The language model is greedy (do_sample=False), so that an answer is    *)
(* known by the prompt it was made from: the question and the texts.  A    *)
(* text is a slice of one version of a file.                               *)
(***************************************************************************)
EXTENDS Integers, Sequences, FiniteSets

CONSTANTS
  Files,          \* paths that sources may name
  Contents,       \* what a file may hold: [version, length]
  Unreadable,     \* a file that is missing or not UTF-8
  Frame,          \* characters put around a text of each file in the prompt
  Questions,
  MAX_CONTEXT_CHARS,
  MAX_CONTEXT_SOURCES

ASSUME GeneratorAssumption ==
  /\ Contents \subseteq [version : Nat, length : Nat]
  /\ Unreadable \notin Contents
  /\ Frame \in [Files -> Nat]
  /\ MAX_CONTEXT_CHARS \in Nat /\ MAX_CONTEXT_SOURCES \in Nat

VARIABLES
  corpus,         \* the files on disk
  file_cache,     \* _file_cache: path -> content
  chunk_cache,    \* _chunk_cache: source -> text
  answer_cache,   \* question -> answer
  call            \* the call being served

caches == <<file_cache, chunk_cache, answer_cache>>

-----------------------------------------------------------------------------
Source == [file : Files, first : Nat, last : Nat]
Text   == [file : Files, version : Nat, first : Nat, last : Nat]
Answer == [question : Questions, prompt : Seq(Text)]

Lesser(a, b) == IF a < b THEN a ELSE b

\* content[first:last], which Python cuts off at the end of the content.
Slice(s, content) ==
  [file |-> s.file, version |-> content.version,
   first |-> Lesser(s.first, content.length), last |-> Lesser(s.last, content.length)]

\* len(chunk_str)
Length(text) ==
  Frame[text.file] + (IF text.first < text.last THEN text.last - text.first ELSE 0)

EmptyCache == [key \in {} |-> key]

\* cache[key] = value, and the same under `if key not in cache`.
Stored(cache, key, value) ==
  [x \in DOMAIN cache \cup {key} |-> IF x = key THEN value ELSE cache[x]]
Cached(cache, key, value) ==
  IF key \in DOMAIN cache THEN cache ELSE Stored(cache, key, value)

\* Between calls; while _build_prompt loops over the sources, and behind the
\* loop; when the call returns.
Idle == [phase |-> "idle"]
Reading(q, sources) ==
  [phase |-> "reading", question |-> q, sources |-> sources,
   next |-> 1, prompt |-> << >>, current_char |-> 0]
Answered(answer) == [phase |-> "answered", answer |-> answer]

\* Generator.__init__
NewGenerator ==
  /\ file_cache' = EmptyCache /\ chunk_cache' = EmptyCache /\ answer_cache' = EmptyCache
  /\ call' = Idle

GeneratorInit ==
  /\ corpus \in [Files -> Contents \cup {Unreadable}]
  /\ file_cache = EmptyCache /\ chunk_cache = EmptyCache /\ answer_cache = EmptyCache
  /\ call = Idle

-----------------------------------------------------------------------------
\* A question that was answered before gets the same answer ...
AskAgain(q) ==
  /\ call = Idle
  /\ q \in DOMAIN answer_cache
  /\ call' = Answered(answer_cache[q])
  /\ UNCHANGED <<corpus, caches>>

\* ... and any other starts a prompt.
AskFirst(q, sources) ==
  /\ call = Idle
  /\ q \notin DOMAIN answer_cache
  /\ call' = Reading(q, sources)
  /\ UNCHANGED <<corpus, caches>>

Ask(q, sources) == AskAgain(q) \/ AskFirst(q, sources)

\* for source in retrieved_sources[:MAX_CONTEXT_SOURCES]
MoreSources ==
  /\ call.phase = "reading"
  /\ call.next <= Lesser(Len(call.sources), MAX_CONTEXT_SOURCES)
Current == call.sources[call.next]

\* What the file cache holds, or open() reads.
Content == IF Current.file \in DOMAIN file_cache
             THEN file_cache[Current.file] ELSE corpus[Current.file]

\* Mutant: the chunk cache is keyed without the end of the chunk.
ChunkTextByStart ==
  IF \E s \in DOMAIN chunk_cache : s.file = Current.file /\ s.first = Current.first
    THEN chunk_cache[CHOOSE s \in DOMAIN chunk_cache :
                       s.file = Current.file /\ s.first = Current.first]
    ELSE Slice(Current, Content)

\* What the chunk cache holds, or the slice gives.
ChunkText == IF Current \in DOMAIN chunk_cache
               THEN chunk_cache[Current] ELSE Slice(Current, Content)

\* Mutant: the file cache is looked up but never filled.
ReadSourceAgain ==
  /\ MoreSources
  /\ Content # Unreadable
  /\ chunk_cache' = Cached(chunk_cache, Current, ChunkText)
  /\ UNCHANGED <<corpus, file_cache, answer_cache>>

\* Both caches are filled before the budget is looked at.
ReadSource ==
  /\ MoreSources
  /\ Content # Unreadable
  /\ file_cache' = Cached(file_cache, Current.file, Content)
  /\ chunk_cache' = Cached(chunk_cache, Current, ChunkText)
  /\ UNCHANGED <<corpus, answer_cache>>

\* Mutant: the budget is looked at before the text is added to it.
TakeSourceLate ==
  /\ ReadSource
  /\ call.current_char <= MAX_CONTEXT_CHARS
  /\ call' = [call EXCEPT !.next = @ + 1,
                          !.prompt = Append(@, ChunkText),
                          !.current_char = @ + Length(ChunkText)]

\* The text fits and is appended.
TakeSource ==
  /\ ReadSource
  /\ call.current_char + Length(ChunkText) <= MAX_CONTEXT_CHARS
  /\ call' = [call EXCEPT !.next = @ + 1,
                          !.prompt = Append(@, ChunkText),
                          !.current_char = @ + Length(ChunkText)]

\* It does not: break.
StopAtBudget ==
  /\ ReadSource
  /\ call.current_char + Length(ChunkText) > MAX_CONTEXT_CHARS
  /\ call' = [call EXCEPT !.phase = "asking"]

\* Mutant: the same source is tried again.
SkipSourceRetries ==
  /\ MoreSources
  /\ Content = Unreadable
  /\ UNCHANGED <<corpus, caches, call>>

\* `except Exception`: a message, and on to the next source.
SkipSource ==
  /\ MoreSources
  /\ Content = Unreadable
  /\ call' = [call EXCEPT !.next = @ + 1]
  /\ UNCHANGED <<corpus, caches>>

\* The model answers, and the answer is kept for the question.
AskModel ==
  /\ call.phase = "asking" \/ (call.phase = "reading" /\ ~MoreSources)
  /\ LET answer == [question |-> call.question, prompt |-> call.prompt]
     IN  /\ answer_cache' = Stored(answer_cache, call.question, answer)
         /\ call' = Answered(answer)
  /\ UNCHANGED <<corpus, file_cache, chunk_cache>>

Generate == TakeSource \/ StopAtBudget \/ SkipSource \/ AskModel

\* Somebody edits a file.
Edit(f) ==
  /\ corpus' \in {[corpus EXCEPT ![f] = c] : c \in (Contents \cup {Unreadable}) \ {corpus[f]}}
  /\ UNCHANGED <<caches, call>>

-----------------------------------------------------------------------------
CallOK ==
  \/ call = Idle
  \/ /\ call.phase \in {"reading", "asking"}
     /\ call \in [phase : {"reading", "asking"}, question : Questions, sources : Seq(Source),
                  next : Nat \ {0}, prompt : Seq(Text), current_char : 0 .. MAX_CONTEXT_CHARS]
  \/ call \in [phase : {"answered"}, answer : Answer]

\* What texts in caches, prompts and answers have in common: their version is
\* that of the cached file.
OfCachedFile(cache, text) ==
  text.file \in DOMAIN cache /\ text.version = cache[text.file].version
AllOfCachedFiles(cache, prompt) == \A i \in DOMAIN prompt : OfCachedFile(cache, prompt[i])

CachesAgree ==
  /\ \A s \in DOMAIN chunk_cache : OfCachedFile(file_cache, chunk_cache[s])
  /\ \A q \in DOMAIN answer_cache : AllOfCachedFiles(file_cache, answer_cache[q].prompt)
  /\ call.phase \in {"reading", "asking"} => AllOfCachedFiles(file_cache, call.prompt)
  /\ call.phase = "answered" => AllOfCachedFiles(file_cache, call.answer.prompt)

-----------------------------------------------------------------------------
\* What a generator without caches makes of sources and the files as they are:
\* the texts, in their order, of the first MAX_CONTEXT_SOURCES that can be
\* read, for as long as all of them together fit.
Used(sources) == Lesser(Len(sources), MAX_CONTEXT_SOURCES)
TextOf(files, s) == Slice(s, files[s.file])
CanRead(files, sources) == {i \in 1 .. Used(sources) : files[sources[i].file] # Unreadable}

\* The characters of the texts of the first n sources, for each n.
LengthUpTo(files, sources) ==
  LET sum[n \in 0 .. Used(sources)] ==
        IF n = 0 THEN 0
        ELSE sum[n - 1] + IF n \in CanRead(files, sources)
                            THEN Length(TextOf(files, sources[n])) ELSE 0
  IN  sum

Fitting(files, sources) ==
  {i \in CanRead(files, sources) : LengthUpTo(files, sources)[i] <= MAX_CONTEXT_CHARS}

\* A prompt of the texts of the sources picked, and of no others.
Lists(files, prompt, sources, picked) ==
  /\ Len(prompt) = Cardinality(picked)
  /\ \A i \in picked :
       prompt[Cardinality({j \in picked : j <= i})] = TextOf(files, sources[i])

MadeFrom(files, prompt, sources) == Lists(files, prompt, sources, Fitting(files, sources))

\* While no file changes the caches do not show, and a prompt is on its way.
CachesCurrent ==
  /\ \A f \in DOMAIN file_cache : file_cache[f] = corpus[f]
  /\ \A s \in DOMAIN chunk_cache : chunk_cache[s] = TextOf(corpus, s)

PromptCurrent ==
  /\ call.phase = "reading" =>
       /\ call.next \in 1 .. Used(call.sources) + 1
       /\ call.current_char = LengthUpTo(corpus, call.sources)[call.next - 1]
       /\ Lists(corpus, call.prompt, call.sources,
                {i \in CanRead(corpus, call.sources) : i < call.next})
  /\ call.phase = "asking" => MadeFrom(corpus, call.prompt, call.sources)

-----------------------------------------------------------------------------
GeneratorTypeOK ==
  /\ corpus \in [Files -> Contents \cup {Unreadable}]
  /\ DOMAIN file_cache \subseteq Files /\ \A f \in DOMAIN file_cache : file_cache[f] \in Contents
  /\ DOMAIN chunk_cache \subseteq Source
  /\ \A s \in DOMAIN chunk_cache : chunk_cache[s] \in Text
  /\ DOMAIN answer_cache \subseteq Questions
  /\ \A q \in DOMAIN answer_cache : answer_cache[q] \in Answer
  /\ CallOK
=============================================================================
