----------------------------- MODULE PipelineProofs ----------------------------
(***************************************************************************)
(* Every run of make keeps its types, the budget of a prompt among them,   *)
(* never answers from two versions of a file, answers from the sources of  *)
(* each row, and leaves outputs that are up to date, for all datasets,     *)
(* files, budgets, leftovers and search results.                           *)
(*                                                                         *)
(* TInv are the types and what the caches share with texts: each text that *)
(* is cached, in a prompt or in an answer has the version of the cached    *)
(* file, a cached file is never cached anew, and a new generator comes     *)
(* with a new command, which has no answers yet.  OrderKept adds where in  *)
(* the recipe a process is, AnswersKept what each cached answer was made   *)
(* for, OutputsKept what the lines run so far have left on disk.           *)
(***************************************************************************)
EXTENDS Pipeline, FiniteSetTheorems, WellFoundedInduction, SequenceTheorems, TLAPS

\* The generator first: each of its steps keeps its types and the agreement of
\* its caches, whatever it is asked and however files are edited.
GInv == GeneratorTypeOK /\ CachesAgree

\* A file once cached stays as it is cached.
Grows(cache, grown) ==
  /\ DOMAIN cache \subseteq DOMAIN grown
  /\ \A f \in DOMAIN cache : grown[f] = cache[f]

\* So texts of cached files stay such.
LEMMA TextsStay ==
  ASSUME NEW cache, NEW grown, Grows(cache, grown)
  PROVE  /\ \A text : OfCachedFile(cache, text) => OfCachedFile(grown, text)
         /\ \A prompt : AllOfCachedFiles(cache, prompt) => AllOfCachedFiles(grown, prompt)
BY DEF Grows, AllOfCachedFiles, OfCachedFile

\* A prompt being built.
ReadingType ==
  [phase : {"reading", "asking"}, question : Questions, sources : Seq(Source),
   next : Nat \ {0}, prompt : Seq(Text), current_char : 0 .. MAX_CONTEXT_CHARS]

\* Idle, a prompt being built, and an answer differ in their phase.
LEMMA CallCases ==
  ASSUME CallOK
  PROVE  /\ call.phase \in {"idle", "reading", "asking", "answered"}
         /\ call.phase \in {"reading", "asking"} => call \in ReadingType
         /\ call.phase = "answered" => call \in [phase : {"answered"}, answer : Answer]
BY DEF CallOK, Idle, ReadingType

\* What a step reads: a source, the content of its file and its text, and what
\* becomes of the two caches.
LEMMA ReadSourceFacts ==
  ASSUME GInv, ReadSource
  PROVE  /\ call \in ReadingType
         /\ ChunkText \in Text
         /\ Grows(file_cache, file_cache')
         /\ OfCachedFile(file_cache', ChunkText)
         /\ DOMAIN file_cache' \subseteq Files
         /\ \A f \in DOMAIN file_cache' : file_cache'[f] \in Contents
         /\ DOMAIN chunk_cache' \subseteq Source
         /\ \A s \in DOMAIN chunk_cache' :
              chunk_cache'[s] \in Text /\ OfCachedFile(file_cache', chunk_cache'[s])
<1>0. call \in ReadingType
  BY CallCases DEF ReadSource, MoreSources, GInv, GeneratorTypeOK
<1>1. Current \in Source
  <2>1. call.sources \in Seq(Source) /\ call.next \in 1 .. Len(call.sources)
    BY <1>0, GeneratorAssumption DEF ReadSource, MoreSources, ReadingType, Lesser
  <2> QED BY <2>1 DEF Current
<1>2. Current.file \in Files /\ Current.first \in Nat /\ Current.last \in Nat
  BY <1>1 DEF Source
<1>3. Content \in Contents
  BY <1>2 DEF Content, ReadSource, GInv, GeneratorTypeOK
<1>4. Content.version \in Nat /\ Content.length \in Nat
  BY <1>3, GeneratorAssumption
<1>5. /\ Slice(Current, Content) \in Text
      /\ Slice(Current, Content).file = Current.file
      /\ Slice(Current, Content).version = Content.version
  BY <1>2, <1>4 DEF Slice, Lesser, Text
<1>6. ChunkText \in Text
  BY <1>5 DEF ChunkText, GInv, GeneratorTypeOK
<1>7. /\ DOMAIN file_cache' = DOMAIN file_cache \cup {Current.file}
      /\ file_cache'[Current.file] = Content
      /\ \A f \in DOMAIN file_cache : file_cache'[f] = file_cache[f]
  <2>1. Current.file \in DOMAIN file_cache => Content = file_cache[Current.file]
    BY DEF Content
  <2>2. file_cache' = Cached(file_cache, Current.file, Content)
    BY DEF ReadSource
  <2> QED BY <2>1, <2>2 DEF Cached, Stored
<1>8. Grows(file_cache, file_cache')
  BY <1>7 DEF Grows
<1>9. OfCachedFile(file_cache', ChunkText)
  <2>1. CASE Current \in DOMAIN chunk_cache
    BY <2>1, <1>8, TextsStay DEF ChunkText, GInv, CachesAgree
  <2>2. CASE Current \notin DOMAIN chunk_cache
    BY <2>2, <1>5, <1>7 DEF ChunkText, OfCachedFile
  <2> QED BY <2>1, <2>2
<1>10. /\ DOMAIN chunk_cache' = DOMAIN chunk_cache \cup {Current}
       /\ chunk_cache'[Current] = ChunkText
       /\ \A s \in DOMAIN chunk_cache : chunk_cache'[s] = chunk_cache[s]
  <2>1. Current \in DOMAIN chunk_cache => ChunkText = chunk_cache[Current]
    BY DEF ChunkText
  <2>2. chunk_cache' = Cached(chunk_cache, Current, ChunkText)
    BY DEF ReadSource
  <2> QED BY <2>1, <2>2 DEF Cached, Stored
<1>11. DOMAIN file_cache' \subseteq Files /\ \A f \in DOMAIN file_cache' : file_cache'[f] \in Contents
  BY <1>2, <1>3, <1>7 DEF GInv, GeneratorTypeOK
<1>12. DOMAIN chunk_cache' \subseteq Source
  BY <1>1, <1>10 DEF GInv, GeneratorTypeOK
<1>13. ASSUME NEW s \in DOMAIN chunk_cache'
       PROVE  chunk_cache'[s] \in Text /\ OfCachedFile(file_cache', chunk_cache'[s])
  <2>1. CASE s = Current
    BY <2>1, <1>6, <1>9, <1>10
  <2>2. CASE s # Current
    BY <2>2, <1>8, <1>10, TextsStay DEF GInv, GeneratorTypeOK, CachesAgree
  <2> QED BY <2>1, <2>2
<1> QED BY <1>0, <1>6, <1>8, <1>9, <1>11, <1>12, <1>13

\* The length of a text in a prompt is a natural number.
LEMMA LengthType ==
  ASSUME NEW text \in Text
  PROVE  Length(text) \in Nat
BY GeneratorAssumption DEF Length, Text

\* One step of generate_answer.
LEMMA GenerateKeeps ==
  ASSUME GInv, Generate
  PROVE  GInv' /\ Grows(file_cache, file_cache') /\ call.phase # "answered"
<1>1. CASE TakeSource
  <2>1. ReadSource
    BY <1>1 DEF TakeSource
  <2>2. Length(ChunkText) \in Nat
    BY <2>1, ReadSourceFacts, LengthType
  <2>3. call.phase = "reading" /\ call.prompt \in Seq(Text) /\ call.current_char \in Nat
    BY <2>1, ReadSourceFacts DEF ReadingType, ReadSource, MoreSources
  <2>4. /\ call'.phase = "reading"
        /\ call' \in ReadingType
        /\ call'.prompt = Append(call.prompt, ChunkText)
    <3>1. call \in ReadingType /\ ChunkText \in Text
      BY <2>1, ReadSourceFacts
    <3>2. call.current_char + Length(ChunkText) \in 0 .. MAX_CONTEXT_CHARS
      BY <1>1, <2>2, <2>3, GeneratorAssumption DEF TakeSource
    <3>3. Append(call.prompt, ChunkText) \in Seq(Text)
      BY <3>1, <2>3
    <3>4. call' = [call EXCEPT !.next = call.next + 1,
                               !.prompt = Append(call.prompt, ChunkText),
                               !.current_char = call.current_char + Length(ChunkText)]
      BY <1>1 DEF TakeSource
    <3>5. call.next + 1 \in Nat \ {0}
      BY <3>1 DEF ReadingType
    <3>6. call' = [phase |-> "reading", question |-> call.question, sources |-> call.sources,
                   next |-> call.next + 1, prompt |-> Append(call.prompt, ChunkText),
                   current_char |-> call.current_char + Length(ChunkText)]
      BY <2>3, <3>1, <3>4 DEF ReadingType
    <3>7. call.question \in Questions /\ call.sources \in Seq(Source)
      BY <3>1 DEF ReadingType
    <3> QED BY <3>2, <3>3, <3>5, <3>6, <3>7 DEF ReadingType
  <2>5. AllOfCachedFiles(file_cache', call'.prompt)
    <3>1. AllOfCachedFiles(file_cache', call.prompt)
      BY <2>1, <2>3, ReadSourceFacts, TextsStay DEF GInv, CachesAgree
    <3>2. ASSUME NEW i \in DOMAIN call'.prompt
          PROVE  OfCachedFile(file_cache', call'.prompt[i])
      <4>1. CASE i = Len(call.prompt) + 1
        BY <4>1, <2>1, <2>3, <2>4, ReadSourceFacts
      <4>2. CASE i # Len(call.prompt) + 1
        BY <4>2, <3>1, <2>3, <2>4 DEF AllOfCachedFiles
      <4> QED BY <4>1, <4>2
    <3> QED BY <3>2 DEF AllOfCachedFiles
  <2>6. UNCHANGED <<corpus, answer_cache>>
    BY <2>1 DEF ReadSource
  <2>7. GeneratorTypeOK'
    BY <2>1, <2>4, <2>6, ReadSourceFacts DEF GInv, GeneratorTypeOK, CallOK, ReadingType
  <2>8. CachesAgree'
    BY <2>1, <2>4, <2>5, <2>6, ReadSourceFacts, TextsStay DEF GInv, CachesAgree
  <2> QED BY <2>1, <2>3, <2>7, <2>8, ReadSourceFacts DEF GInv
<1>2. CASE StopAtBudget
  <2>1. ReadSource
    BY <1>2 DEF StopAtBudget
  <2>2. call.phase = "reading"
    BY <2>1 DEF ReadSource, MoreSources
  <2>3. call'.phase = "asking" /\ call' \in ReadingType /\ call'.prompt = call.prompt
    BY <1>2, <2>1, ReadSourceFacts DEF StopAtBudget, ReadingType
  <2>4. UNCHANGED <<corpus, answer_cache>>
    BY <2>1 DEF ReadSource
  <2>5. GeneratorTypeOK'
    BY <2>1, <2>3, <2>4, ReadSourceFacts DEF GInv, GeneratorTypeOK, CallOK, ReadingType
  <2>6. CachesAgree'
    BY <2>1, <2>2, <2>3, <2>4, ReadSourceFacts, TextsStay DEF GInv, CachesAgree
  <2> QED BY <2>1, <2>2, <2>5, <2>6, ReadSourceFacts DEF GInv
<1>3. CASE SkipSource
  <2>1. call.phase = "reading" /\ call \in ReadingType
    BY <1>3, CallCases DEF SkipSource, MoreSources, GInv, GeneratorTypeOK
  <2>2. call'.phase = "reading" /\ call' \in ReadingType /\ call'.prompt = call.prompt
    BY <1>3, <2>1 DEF SkipSource, ReadingType
  <2>3. UNCHANGED <<corpus, file_cache, chunk_cache, answer_cache>>
    BY <1>3 DEF SkipSource, caches
  <2>4. GeneratorTypeOK'
    BY <2>2, <2>3 DEF GInv, GeneratorTypeOK, CallOK, ReadingType
  <2>5. CachesAgree'
    BY <2>1, <2>2, <2>3 DEF GInv, CachesAgree
  <2> QED BY <2>1, <2>3, <2>4, <2>5 DEF GInv, Grows
<1>4. CASE AskModel
  <2> DEFINE answer == [question |-> call.question, prompt |-> call.prompt]
  <2>1. call.phase \in {"reading", "asking"} /\ call \in ReadingType
    BY <1>4, CallCases DEF AskModel, GInv, GeneratorTypeOK
  <2>2. call.question \in Questions /\ answer \in Answer
    BY <2>1 DEF ReadingType, Answer
  <2>3. AllOfCachedFiles(file_cache, answer.prompt)
    BY <2>1 DEF GInv, CachesAgree
  <2>4. /\ DOMAIN answer_cache' = DOMAIN answer_cache \cup {call.question}
        /\ answer_cache'[call.question] = answer
        /\ \A q \in DOMAIN answer_cache : q # call.question => answer_cache'[q] = answer_cache[q]
    <3>1. answer_cache' = Stored(answer_cache, call.question, answer)
      BY <1>4 DEF AskModel
    <3> HIDE DEF answer
    <3> QED BY <3>1 DEF Stored
  <2>5. /\ UNCHANGED <<corpus, file_cache, chunk_cache>>
        /\ call' = [phase |-> "answered", answer |-> answer]
    BY <1>4 DEF AskModel, Answered
  <2> HIDE DEF answer
  <2>6. GeneratorTypeOK'
    <3>1. CallOK'
      BY <2>2, <2>5 DEF CallOK
    <3>2. DOMAIN answer_cache' \subseteq Questions
      BY <2>2, <2>4 DEF GInv, GeneratorTypeOK
    <3>3. \A q \in DOMAIN answer_cache' : answer_cache'[q] \in Answer
      BY <2>2, <2>4 DEF GInv, GeneratorTypeOK
    <3> QED BY <2>5, <3>1, <3>2, <3>3 DEF GInv, GeneratorTypeOK
  <2>7. CachesAgree'
    <3>1. \A q \in DOMAIN answer_cache' : AllOfCachedFiles(file_cache, answer_cache'[q].prompt)
      BY <2>3, <2>4 DEF GInv, CachesAgree
    <3> QED BY <2>3, <2>5, <3>1 DEF GInv, CachesAgree
  <2> QED BY <2>1, <2>5, <2>6, <2>7 DEF GInv, Grows
<1> QED BY <1>1, <1>2, <1>3, <1>4 DEF Generate

\* A call of generate_answer begins.
LEMMA AskKeeps ==
  ASSUME GInv, NEW q \in Questions, NEW sources \in Seq(Source), Ask(q, sources)
  PROVE  GInv' /\ file_cache' = file_cache
<1>1. CASE AskAgain(q)
  <2>1. call' = [phase |-> "answered", answer |-> answer_cache[q]] /\ q \in DOMAIN answer_cache
    BY <1>1 DEF AskAgain, Answered
  <2>2. UNCHANGED <<corpus, file_cache, chunk_cache, answer_cache>>
    BY <1>1 DEF AskAgain, caches
  <2>3. CallOK'
    BY <2>1 DEF GInv, GeneratorTypeOK, CallOK
  <2> QED BY <2>1, <2>2, <2>3 DEF GInv, GeneratorTypeOK, CachesAgree
<1>2. CASE AskFirst(q, sources)
  <2>1. call' = [phase |-> "reading", question |-> q, sources |-> sources,
                 next |-> 1, prompt |-> << >>, current_char |-> 0]
    BY <1>2 DEF AskFirst, Reading
  <2>2. UNCHANGED <<corpus, file_cache, chunk_cache, answer_cache>>
    BY <1>2 DEF AskFirst, caches
  <2>3. call' \in ReadingType
    BY <2>1, GeneratorAssumption DEF ReadingType
  <2>4. AllOfCachedFiles(file_cache, call'.prompt)
    BY <2>1 DEF AllOfCachedFiles
  <2>5. CallOK'
    BY <2>1, <2>3 DEF CallOK, ReadingType
  <2> QED BY <2>1, <2>2, <2>4, <2>5 DEF GInv, GeneratorTypeOK, CachesAgree
<1> QED BY <1>1, <1>2 DEF Ask

\* The answer of a call is taken.
LEMMA IdleKeeps ==
  ASSUME GInv, UNCHANGED <<corpus, caches>>, call' = Idle
  PROVE  GInv'
BY DEF GInv, GeneratorTypeOK, CachesAgree, CallOK, Idle, caches

\* A generator is new, and at the start.
LEMMA NewGeneratorKeeps ==
  ASSUME GInv, NewGenerator, UNCHANGED corpus
  PROVE  GInv'
BY DEF GInv, GeneratorTypeOK, CachesAgree, CallOK, Idle, NewGenerator, EmptyCache

\* A new generator has empty caches.
LEMMA GeneratorStarts ==
  ASSUME GeneratorInit
  PROVE  GInv
BY DEF GInv, GeneratorTypeOK, CachesAgree, CallOK, Idle, GeneratorInit, EmptyCache

\* The generator does nothing.
LEMMA GeneratorWaits ==
  ASSUME GInv, UNCHANGED <<corpus, caches, call>>
  PROVE  GInv'
BY DEF GInv, GeneratorTypeOK, CachesAgree, CallOK, caches

\* A file is edited.
LEMMA EditKeeps ==
  ASSUME GInv, NEW f \in Files, Edit(f)
  PROVE  GInv' /\ file_cache' = file_cache
<1>1. corpus' \in [Files -> Contents \cup {Unreadable}]
  BY DEF Edit, GInv, GeneratorTypeOK
<1>2. UNCHANGED <<file_cache, chunk_cache, answer_cache, call>>
  BY DEF Edit, caches
<1> QED BY <1>1, <1>2 DEF GInv, GeneratorTypeOK, CachesAgree, CallOK
-----------------------------------------------------------------------------
\* A set of natural numbers has a least element: with it, what holds of 0 and
\* of n + 1 if it holds of n holds of all, or would first fail somewhere.
LEMMA LeastOf ==
  ASSUME NEW T, T \subseteq Nat, T # {}
  PROVE  \E m \in T : \A y \in T : m <= y
<1>1. PICK m \in T : \A y \in T : <<y, m>> \notin OpToRel(<, Nat)
  BY NatLessThanWellFounded, WFMin
<1>2. \A y \in T : y \in Nat /\ ~(y < m)
  BY <1>1 DEF OpToRel
<1>3. m \in Nat
  BY <1>1
<1> QED BY <1>2, <1>3

\* There are the sums of the first members of a list.
LEMMA SumsExist ==
  ASSUME NEW m \in Nat, NEW share
  PROVE  \E f : f = [n \in 0 .. m |-> IF n = 0 THEN 0 ELSE f[n - 1] + share[n]]
<1> DEFINE Good(n, f) == f = [i \in 0 .. n |-> IF i = 0 THEN 0 ELSE f[i - 1] + share[i]]
           T == {n \in Nat : ~ \E f : Good(n, f)}
<1>1. ASSUME T # {} PROVE FALSE
  <2>1. PICK n \in T : \A y \in T : n <= y
    BY <1>1, LeastOf
  <2>2. n \in Nat /\ ~ \E f : Good(n, f)
    BY <2>1
  <2>3. CASE n = 0
    <3> DEFINE f == [i \in 0 .. 0 |-> 0]
    <3>1. Good(0, f)
      OBVIOUS
    <3> QED BY <2>2, <2>3, <3>1
  <2>4. CASE n # 0
    <3>1. n - 1 \in Nat /\ ~(n <= n - 1)
      BY <2>2, <2>4
    <3>2. n - 1 \notin T
      BY <2>1, <3>1
    <3>3. PICK g : Good(n - 1, g)
      BY <3>1, <3>2
    <3> DEFINE f == [i \in 0 .. n |-> IF i = n THEN g[n - 1] + share[n] ELSE g[i]]
    <3>4. ASSUME NEW i \in 0 .. n
          PROVE  f[i] = IF i = 0 THEN 0 ELSE f[i - 1] + share[i]
      <4>1. CASE i = n
        BY <2>2, <2>4, <4>1
      <4>2. CASE i # n
        BY <2>2, <2>4, <3>3, <4>2
      <4> QED BY <4>1, <4>2
    <3>5. Good(n, f)
      BY <3>4
    <3> QED BY <2>2, <3>5
  <2> QED BY <2>3, <2>4
<1>2. \E f : Good(m, f)
  BY <1>1
<1> QED BY <1>2

\* The lengths are sums of natural numbers: the longer the list, the larger.
LEMMA LengthFacts ==
  ASSUME NEW files \in [Files -> Contents \cup {Unreadable}], NEW sources \in Seq(Source)
  PROVE  /\ Used(sources) \in 0 .. Len(sources)
         /\ LengthUpTo(files, sources)[0] = 0
         /\ \A n \in 1 .. Used(sources) :
              LengthUpTo(files, sources)[n] =
                LengthUpTo(files, sources)[n - 1] +
                  IF n \in CanRead(files, sources)
                    THEN Length(TextOf(files, sources[n])) ELSE 0
         /\ \A n \in 0 .. Used(sources) : LengthUpTo(files, sources)[n] \in Nat
         /\ \A i, j \in 0 .. Used(sources) :
              i <= j => LengthUpTo(files, sources)[i] <= LengthUpTo(files, sources)[j]
<1> DEFINE m == Used(sources)
           L == LengthUpTo(files, sources)
           share == [n \in 1 .. m |-> IF n \in CanRead(files, sources)
                                        THEN Length(TextOf(files, sources[n])) ELSE 0]
<1>1. m \in 0 .. Len(sources)
  BY GeneratorAssumption DEF Used, Lesser
<1>2. \A n \in 1 .. m : share[n] \in Nat
  <2> SUFFICES ASSUME NEW n \in 1 .. m, n \in CanRead(files, sources)
               PROVE  Length(TextOf(files, sources[n])) \in Nat
    OBVIOUS
  <2>1. sources[n] \in Source /\ files[sources[n].file] # Unreadable
    BY <1>1 DEF CanRead
  <2>2. sources[n].file \in Files /\ files[sources[n].file] \in Contents
    BY <2>1 DEF Source
  <2>3. TextOf(files, sources[n]) \in Text
    BY <2>1, <2>2, GeneratorAssumption DEF TextOf, Slice, Lesser, Source, Text
  <2> QED BY <2>3, LengthType
<1>3. L = [n \in 0 .. m |-> IF n = 0 THEN 0 ELSE L[n - 1] + share[n]]
  <2> DEFINE Good(f) == f = [n \in 0 .. m |-> IF n = 0 THEN 0 ELSE f[n - 1] +
                               IF n \in CanRead(files, sources)
                                 THEN Length(TextOf(files, sources[n])) ELSE 0]
  <2>1. PICK f : f = [n \in 0 .. m |-> IF n = 0 THEN 0 ELSE f[n - 1] + share[n]]
    <3>1. m \in Nat
      BY <1>1
    <3> HIDE DEF m, share
    <3> QED BY <3>1, SumsExist
  <2>2. Good(f)
    <3>1. [n \in 0 .. m |-> IF n = 0 THEN 0 ELSE f[n - 1] + share[n]] =
          [n \in 0 .. m |-> IF n = 0 THEN 0 ELSE f[n - 1] +
                               IF n \in CanRead(files, sources)
                                 THEN Length(TextOf(files, sources[n])) ELSE 0]
      <4>1. \A n \in 0 .. m : n # 0 => n \in 1 .. m
        BY <1>1
      <4> QED BY <4>1
    <3> QED BY <2>1, <3>1
  <2>3. L = CHOOSE g : Good(g)
    BY DEF LengthUpTo
  <2>4. Good(L)
    BY <2>2, <2>3
  <2>5. \A n \in 0 .. m : n # 0 => n \in 1 .. m
    BY <1>1
  <2> QED BY <2>4, <2>5
<1> HIDE DEF L, m, share
<1>4. L[0] = 0 /\ \A n \in 1 .. m : L[n] = L[n - 1] + share[n]
  BY <1>1, <1>3
<1>5. \A n \in 0 .. m : L[n] \in Nat /\ (n # 0 => L[n - 1] <= L[n])
  <2> DEFINE T == {n \in 0 .. m : L[n] \notin Nat}
  <2>1. ASSUME T # {} PROVE FALSE
    <3>1. T \subseteq Nat
      BY <1>1
    <3>2. PICK n \in T : \A y \in T : n <= y
      BY <2>1, <3>1, LeastOf
    <3>3. n # 0 /\ n \in 1 .. m /\ n - 1 \in 0 .. m /\ n - 1 \notin T
      BY <1>1, <1>4, <3>2
    <3> QED BY <1>2, <1>4, <3>2, <3>3
  <2>2. \A n \in 0 .. m : L[n] \in Nat
    BY <2>1
  <2> SUFFICES ASSUME NEW n \in 0 .. m, n # 0 PROVE L[n - 1] <= L[n]
    BY <2>2
  <2>3. n \in 1 .. m /\ n - 1 \in 0 .. m
    BY <1>1
  <2> QED BY <1>2, <1>4, <2>2, <2>3
<1>6. ASSUME NEW i \in 0 .. m, NEW j \in 0 .. m, i <= j
      PROVE  L[i] <= L[j]
  <2> DEFINE T == {n \in i .. m : ~(L[i] <= L[n])}
  <2>1. ASSUME T # {} PROVE FALSE
    <3>1. T \subseteq Nat
      BY <1>1
    <3>2. PICK n \in T : \A y \in T : n <= y
      BY <2>1, <3>1, LeastOf
    <3>3. n # i
      BY <3>2, <1>5
    <3>4. n \in 0 .. m /\ n # 0 /\ n - 1 \in i .. m /\ n - 1 \in 0 .. m /\ n - 1 \notin T
      BY <1>1, <3>2, <3>3
    <3>5. L[i] \in Nat /\ L[n - 1] \in Nat /\ L[n] \in Nat /\ L[n - 1] <= L[n] /\ L[i] <= L[n - 1]
      BY <1>5, <3>4
    <3> QED BY <3>2, <3>5
  <2>2. j \in i .. m
    BY <1>1, <1>6
  <2> QED BY <2>1, <2>2
<1>7. \A n \in 1 .. m : share[n] = IF n \in CanRead(files, sources)
                                     THEN Length(TextOf(files, sources[n])) ELSE 0
  BY DEF share
<1> QED BY <1>1, <1>4, <1>5, <1>6, <1>7 DEF L, m

\* The empty prompt lists the empty set.
LEMMA ListsNone ==
  ASSUME NEW files, NEW sources
  PROVE  Lists(files, << >>, sources, {})
BY FS_EmptySet DEF Lists

\* One more source, behind all those listed.
LEMMA ListsOneMore ==
  ASSUME NEW files, NEW sources, NEW prompt \in Seq(Text), NEW x \in Nat,
         NEW picked \in SUBSET (0 .. x - 1), Lists(files, prompt, sources, picked),
         TextOf(files, sources[x]) \in Text
  PROVE  Lists(files, Append(prompt, TextOf(files, sources[x])), sources, picked \cup {x})
<1> DEFINE more == picked \cup {x}
           long == Append(prompt, TextOf(files, sources[x]))
           Place(S, i) == Cardinality({j \in S : j <= i})
<1>1. IsFiniteSet(picked) /\ x \notin picked
  <2>1. IsFiniteSet(0 .. x - 1)
    BY FS_Interval
  <2>2. IsFiniteSet(picked)
    BY <2>1, FS_Subset
  <2> QED BY <2>2
<1>2. Cardinality(picked) \in Nat /\ Cardinality(more) = Cardinality(picked) + 1
  BY <1>1, FS_AddElement, FS_CardinalityType
<1>3. Len(prompt) = Cardinality(picked) /\ Len(long) = Cardinality(more)
  BY <1>2 DEF Lists
<1>4. ASSUME NEW i \in picked
      PROVE  long[Place(more, i)] = TextOf(files, sources[i])
  <2>1. {j \in more : j <= i} = {j \in picked : j <= i}
    OBVIOUS
  <2>2. Place(picked, i) \in 1 .. Len(prompt)
    <3> DEFINE S == {j \in picked : j <= i}
    <3>1. S \subseteq picked /\ S # {}
      BY <1>4
    <3>2. IsFiniteSet(S) /\ Cardinality(S) <= Cardinality(picked)
      BY <1>1, <3>1, FS_Subset
    <3>3. Cardinality(S) \in Nat /\ Cardinality(S) # 0
      BY <3>1, <3>2, FS_CardinalityType, FS_EmptySet
    <3> HIDE DEF S
    <3>4. Cardinality(S) \in 1 .. Len(prompt)
      BY <1>2, <1>3, <3>2, <3>3
    <3> QED BY <3>4 DEF S
  <2>3. prompt[Place(picked, i)] = TextOf(files, sources[i])
    BY DEF Lists
  <2>4. Place(more, i) = Place(picked, i)
    BY <2>1
  <2> HIDE DEF more, Place
  <2> QED BY <2>2, <2>3, <2>4
<1>5. long[Place(more, x)] = TextOf(files, sources[x])
  <2>1. {j \in more : j <= x} = more
    <3>1. \A j \in more : j <= x
      OBVIOUS
    <3> HIDE DEF more
    <3> QED BY <3>1
  <2>2. Place(more, x) = Len(prompt) + 1
    BY <1>2, <1>3, <2>1
  <2> QED BY <2>2
<1> HIDE DEF long
<1>6. \A i \in more : long[Place(more, i)] = TextOf(files, sources[i])
  BY <1>4, <1>5
<1> QED BY <1>3, <1>6 DEF Lists, long

\* What a step reads, while no file changes.
LEMMA ReadSourceCurrent ==
  ASSUME GInv, CachesCurrent, ReadSource
  PROVE  /\ Content = corpus[Current.file] /\ ChunkText = TextOf(corpus, Current)
         /\ CachesCurrent' /\ call.next \in CanRead(corpus, call.sources)
<1>1. call \in ReadingType /\ corpus \in [Files -> Contents \cup {Unreadable}]
  BY ReadSourceFacts DEF GInv, GeneratorTypeOK
<1>2. Content = corpus[Current.file]
  BY DEF Content, CachesCurrent
<1>3. ChunkText = TextOf(corpus, Current)
  BY <1>2 DEF ChunkText, CachesCurrent, TextOf
<1>4. call.next \in CanRead(corpus, call.sources)
  BY <1>1, <1>2, GeneratorAssumption
     DEF ReadSource, MoreSources, CanRead, Used, Lesser, Current, ReadingType
<1>5. CachesCurrent'
  <2>1. /\ corpus' = corpus
        /\ file_cache' = Cached(file_cache, Current.file, Content)
        /\ chunk_cache' = Cached(chunk_cache, Current, ChunkText)
    BY DEF ReadSource
  <2>2. \A f \in DOMAIN file_cache' : file_cache'[f] = corpus[f]
    BY <1>2, <2>1 DEF Cached, Stored, CachesCurrent
  <2>3. \A s \in DOMAIN chunk_cache' : chunk_cache'[s] = TextOf(corpus, s)
    BY <1>3, <2>1 DEF Cached, Stored, CachesCurrent
  <2> QED BY <2>1, <2>2, <2>3 DEF CachesCurrent
<1> QED BY <1>2, <1>3, <1>4, <1>5

\* Where the sources from the n-th on are not in the prompt for good: the
\* budget, or the list, is at its end.
LEMMA FittingSoFar ==
  ASSUME NEW files \in [Files -> Contents \cup {Unreadable}], NEW sources \in Seq(Source),
         NEW n \in 1 .. Used(sources) + 1,
         LengthUpTo(files, sources)[n - 1] <= MAX_CONTEXT_CHARS,
         \/ n = Used(sources) + 1
         \/ n \in 1 .. Used(sources) /\ LengthUpTo(files, sources)[n] > MAX_CONTEXT_CHARS
  PROVE  Fitting(files, sources) = {i \in CanRead(files, sources) : i < n}
<1> DEFINE L == LengthUpTo(files, sources)
<1>1. /\ Used(sources) \in Nat
      /\ \A i \in 0 .. Used(sources) : L[i] \in Nat
      /\ \A i, j \in 0 .. Used(sources) : i <= j => L[i] <= L[j]
  <2> HIDE DEF L
  <2> QED BY LengthFacts DEF L
<1>2. ASSUME NEW i \in CanRead(files, sources)
      PROVE  L[i] <= MAX_CONTEXT_CHARS <=> i < n
  <2>1. i \in 1 .. Used(sources)
    BY DEF CanRead
  <2> HIDE DEF L
  <2>2. CASE i < n
    <3>1. i <= n - 1 /\ i \in 0 .. Used(sources) /\ n - 1 \in 0 .. Used(sources)
      BY <1>1, <2>1, <2>2
    <3>2. L[i] <= L[n - 1] /\ L[n - 1] <= MAX_CONTEXT_CHARS
      BY <1>1, <3>1 DEF L
    <3> QED BY <1>1, <2>2, <3>1, <3>2, GeneratorAssumption
  <2>3. CASE ~(i < n)
    <3>1. n <= i /\ n \in 1 .. Used(sources) /\ i \in 0 .. Used(sources)
      BY <1>1, <2>1, <2>3
    <3>2. L[n] <= L[i] /\ L[n] > MAX_CONTEXT_CHARS
      BY <1>1, <3>1 DEF L
    <3> QED BY <1>1, <2>3, <3>1, <3>2, GeneratorAssumption
  <2> QED BY <2>2, <2>3
<1> QED BY <1>2 DEF Fitting

\* One step of generate_answer while no file changes: the prompt grows as one
\* made without caches would, and what the model is given is such a prompt.
LEMMA GenerateMakes ==
  ASSUME GInv, CachesCurrent, PromptCurrent, Generate
  PROVE  /\ corpus' = corpus /\ CachesCurrent' /\ PromptCurrent'
         /\ call.phase \in {"reading", "asking"}
         /\ \/ /\ call'.phase \in {"reading", "asking"}
               /\ call'.question = call.question /\ call'.sources = call.sources
               /\ answer_cache' = answer_cache
            \/ /\ AskModel
               /\ MadeFrom(corpus, call.prompt, call.sources)
<1> DEFINE n == call.next
           sources == call.sources
           L == LengthUpTo(corpus, sources)
           R == CanRead(corpus, sources)
<1>1. corpus \in [Files -> Contents \cup {Unreadable}]
  BY DEF GInv, GeneratorTypeOK
<1>2. CASE TakeSource \/ StopAtBudget \/ SkipSource
  <2>1. call.phase = "reading" /\ call \in ReadingType
    BY <1>2, CallCases
       DEF TakeSource, StopAtBudget, ReadSource, SkipSource, MoreSources, GInv, GeneratorTypeOK
  <2>2. /\ sources \in Seq(Source) /\ call.prompt \in Seq(Text)
        /\ n \in 1 .. Used(sources) /\ n \in Nat /\ Used(sources) \in Nat
    <3>1. n <= Used(sources)
      BY <1>2, <2>1 DEF TakeSource, StopAtBudget, ReadSource, SkipSource, MoreSources, Used
    <3>2. Used(sources) \in Nat
      BY <1>1, <2>1, LengthFacts DEF ReadingType
    <3> QED BY <2>1, <3>1, <3>2 DEF ReadingType
  <2>3. /\ L[n] = L[n - 1] + IF n \in R THEN Length(TextOf(corpus, sources[n])) ELSE 0
        /\ L[n - 1] = call.current_char
        /\ Lists(corpus, call.prompt, sources, {i \in R : i < n})
    BY <1>1, <2>1, <2>2, LengthFacts DEF PromptCurrent
  <2>4. Current = sources[n]
    BY DEF Current
  <2> HIDE DEF L, R
  <2>5. corpus' = corpus /\ answer_cache' = answer_cache
    BY <1>2 DEF TakeSource, StopAtBudget, ReadSource, SkipSource, caches
  <2>6. CASE TakeSource
    <3>1. /\ Content = corpus[Current.file] /\ ChunkText = TextOf(corpus, sources[n])
          /\ CachesCurrent' /\ n \in R /\ ChunkText \in Text
      BY <2>4, <2>6, ReadSourceCurrent, ReadSourceFacts DEF TakeSource, R
    <3>2. /\ call'.phase = "reading" /\ call'.question = call.question
          /\ call'.sources = sources /\ call'.next = n + 1
          /\ call'.prompt = Append(call.prompt, ChunkText)
          /\ call'.current_char = L[n]
      <4>1. call' = [call EXCEPT !.next = n + 1,
                                 !.prompt = Append(call.prompt, ChunkText),
                                 !.current_char = call.current_char + Length(ChunkText)]
        BY <2>6 DEF TakeSource
      <4>2. call.current_char + Length(ChunkText) = L[n]
        BY <2>3, <3>1
      <4> QED BY <2>1, <4>1, <4>2 DEF ReadingType
    <3>3. Lists(corpus, call'.prompt, sources, {i \in R : i < n + 1})
      <4>1. {i \in R : i < n} \subseteq 0 .. n - 1 /\ {i \in R : i < n + 1} = {i \in R : i < n} \cup {n}
        <5>1. R \subseteq 1 .. Used(sources)
          BY DEF R, CanRead
        <5>2. \A i \in R : i \in 0 .. Used(sources) /\ (i < n + 1 <=> i < n \/ i = n)
          BY <2>2, <5>1
        <5> HIDE DEF n
        <5>3. {i \in R : i < n + 1} = {i \in R : i < n} \cup {n}
          BY <3>1, <5>2
        <5>4. {i \in R : i < n} \subseteq 0 .. n - 1
          BY <2>2, <5>2
        <5> QED BY <5>3, <5>4
      <4>2. TextOf(corpus, sources[n]) \in Text
        BY <3>1
      <4>3. Lists(corpus, Append(call.prompt, TextOf(corpus, sources[n])), sources,
                  {i \in R : i < n} \cup {n})
        <5> DEFINE picked == {i \in R : i < n}
        <5>1. picked \in SUBSET (0 .. n - 1) /\ Lists(corpus, call.prompt, sources, picked)
          BY <2>3, <4>1
        <5> HIDE DEF picked, n, sources
        <5>2. Lists(corpus, Append(call.prompt, TextOf(corpus, sources[n])), sources, picked \cup {n})
          BY <2>2, <4>2, <5>1, ListsOneMore
        <5> QED BY <5>2 DEF picked
      <4> QED BY <3>1, <3>2, <4>1, <4>3
    <3>4. n + 1 \in 1 .. Used(sources) + 1 /\ (n + 1) - 1 = n
      BY <2>2
    <3>5. PromptCurrent'
      BY <2>5, <3>2, <3>3, <3>4 DEF PromptCurrent, L, R
    <3> QED BY <2>1, <2>5, <3>1, <3>2, <3>5
  <2>7. CASE StopAtBudget
    <3>1. /\ ChunkText = TextOf(corpus, sources[n]) /\ CachesCurrent' /\ n \in R
      BY <2>4, <2>7, ReadSourceCurrent DEF StopAtBudget, R
    <3>2. /\ call'.phase = "asking" /\ call'.question = call.question
          /\ call'.sources = sources /\ call'.prompt = call.prompt
      BY <2>1, <2>7 DEF StopAtBudget, ReadingType
    <3>3. L[n] > MAX_CONTEXT_CHARS /\ L[n - 1] <= MAX_CONTEXT_CHARS
      BY <2>1, <2>3, <2>7, <3>1, GeneratorAssumption DEF StopAtBudget, ReadingType
    <3>4. n \in 1 .. Used(sources) + 1
      BY <2>2
    <3>5. Fitting(corpus, sources) = {i \in R : i < n}
      BY <1>1, <2>2, <3>3, <3>4, FittingSoFar DEF L, R
    <3>6. PromptCurrent'
      BY <2>3, <2>5, <3>2, <3>5 DEF PromptCurrent, MadeFrom
    <3> QED BY <2>1, <2>5, <3>1, <3>2, <3>6
  <2>8. CASE SkipSource
    <3>1. UNCHANGED <<file_cache, chunk_cache>> /\ CachesCurrent'
      BY <2>5, <2>8 DEF SkipSource, caches, CachesCurrent
    <3>2. n \notin R
      BY <2>4, <2>8 DEF SkipSource, Content, CachesCurrent, GInv, GeneratorTypeOK, R, CanRead
    <3>3. /\ call'.phase = "reading" /\ call'.question = call.question
          /\ call'.sources = sources /\ call'.next = n + 1
          /\ call'.prompt = call.prompt /\ call'.current_char = call.current_char
      BY <2>1, <2>8 DEF SkipSource, ReadingType
    <3>4. {i \in R : i < n + 1} = {i \in R : i < n}
      <4>1. R \subseteq 1 .. Used(sources)
        BY DEF R, CanRead
      <4>2. \A i \in R : i < n + 1 <=> i < n
        BY <2>2, <3>2, <4>1
      <4> QED BY <4>2
    <3>5. n + 1 \in 1 .. Used(sources) + 1 /\ (n + 1) - 1 = n /\ L[n] = call.current_char
      <4>1. L[n - 1] \in Nat
        BY <2>1, <2>3 DEF ReadingType
      <4> QED BY <2>2, <2>3, <3>2, <4>1
    <3>6. PromptCurrent'
      BY <2>3, <2>5, <3>3, <3>4, <3>5 DEF PromptCurrent, L, R
    <3> QED BY <2>1, <2>5, <3>1, <3>3, <3>6
  <2> QED BY <1>2, <2>6, <2>7, <2>8
<1>3. CASE AskModel
  <2>1. call.phase \in {"reading", "asking"} /\ call \in ReadingType
    BY <1>3, CallCases DEF AskModel, GInv, GeneratorTypeOK
  <2>2. UNCHANGED <<corpus, file_cache, chunk_cache>> /\ call'.phase = "answered"
    BY <1>3 DEF AskModel, Answered
  <2>3. CachesCurrent' /\ PromptCurrent'
    BY <2>2 DEF CachesCurrent, PromptCurrent
  <2>4. MadeFrom(corpus, call.prompt, sources)
    <3>1. CASE call.phase = "asking"
      BY <3>1 DEF PromptCurrent
    <3>2. CASE call.phase = "reading"
      <4>1. sources \in Seq(Source) /\ n \in Nat /\ ~(n <= Used(sources))
        BY <1>3, <2>1, <3>2 DEF AskModel, MoreSources, ReadingType, Used
      <4>2. Used(sources) \in Nat
        BY <1>1, <4>1, LengthFacts
      <4>3. n = Used(sources) + 1 /\ n \in 1 .. Used(sources) + 1
        BY <3>2, <4>1, <4>2 DEF PromptCurrent
      <4>4. L[n - 1] <= MAX_CONTEXT_CHARS
        BY <2>1, <3>2, GeneratorAssumption DEF PromptCurrent, ReadingType
      <4>5. Fitting(corpus, sources) = {i \in R : i < n}
        BY <1>1, <4>1, <4>3, <4>4, FittingSoFar
      <4> QED BY <3>2, <4>5 DEF PromptCurrent, MadeFrom
    <3> QED BY <2>1, <3>1, <3>2
  <2> QED BY <1>3, <2>1, <2>2, <2>3, <2>4
<1> QED BY <1>2, <1>3 DEF Generate

-----------------------------------------------------------------------------
\* The commands, and the recipe that runs them.

\* The states of a process differ in their phase and in what it makes.
LEMMA CommandCases ==
  ASSUME CommandOK
  PROVE  /\ command.phase = "indexing" =>
              command \in [phase : {"indexing"}, rows : Seq(Names), generation : Nat]
         /\ command.phase \in {"open", "loop", "write"} =>
              command \in Searches \/ command \in AnswersMade
BY DEF CommandOK, None, Exited, Searches, AnswersMade, Batch

\* A dataset command that makes results is a search, and one that makes
\* answers an answer_dataset.
LEMMA BatchCases ==
  ASSUME CommandOK, command.phase \in {"open", "loop", "write"}
  PROVE  /\ command.makes \in {"results", "answers"}
         /\ command.makes = "results" => command \in Searches
         /\ command.makes = "answers" => command \in AnswersMade
BY CommandCases DEF Searches, AnswersMade, Batch

\* A process that ends leaves nothing to say of it.
LEMMA ExitOK ==
  ASSUME NEW ok \in BOOLEAN, command' = Exited(ok)
  PROVE  CommandOK' /\ DoneAgrees'
BY DEF Exited, CommandOK, DoneAgrees

\* Whatever it finds, evaluate ends.
LEMMA EvaluateExits == Evaluate => \E ok \in BOOLEAN : command' = Exited(ok)
<1> SUFFICES ASSUME Evaluate
             PROVE  \E ok \in BOOLEAN : command' = Exited(ok)
  OBVIOUS
<1>1. PICK truth \in GroundTruth, dies \in BOOLEAN :
        command' = Exited(~dies /\ Evaluable(json[Results(Name)], truth))
  BY DEF Evaluate
<1>2. (~dies /\ Evaluable(json[Results(Name)], truth)) \in BOOLEAN
  OBVIOUS
<1> QED BY <1>1, <1>2

\* make has taken note of the end of its command.
LEMMA NoneOK ==
  ASSUME command' = None
  PROVE  CommandOK' /\ DoneAgrees'
BY DEF None, CommandOK, DoneAgrees

\* A file is replaced.
LEMMA WriteOK ==
  ASSUME DiskOK, NEW p \in Path, NEW file, FileOK(file),
         json' = [json EXCEPT ![p] = file], UNCHANGED index
  PROVE  DiskOK'
<1>1. DOMAIN json' = Path
  BY DEF DiskOK
<1>2. \A x \in Path : FileOK(json'[x])
  BY DEF DiskOK
<1> QED BY <1>1, <1>2 DEF DiskOK

\* Parts that a step leaves alone.
LEMMA DiskWaits == DiskOK /\ UNCHANGED <<index, json>> => DiskOK'
BY DEF DiskOK

\* make waits for its command.
LEMMA MakeWaits == MakeOK /\ UNCHANGED makeVars => MakeOK'
BY DEF MakeOK, makeVars

\* A command is untouched by what others do.
LEMMA CommandWaits == CommandOK /\ UNCHANGED command => CommandOK'
BY DEF CommandOK

\* Its answers agree with an unchanged file cache.
LEMMA DoneWaits == DoneAgrees /\ UNCHANGED <<file_cache, command>> => DoneAgrees'
BY DEF DoneAgrees

\* The recipe is one of lines.
LEMMA ForEachNameType ==
  ASSUME NEW op \in {"search", "answer", "evaluate"}
  PROVE  /\ ForEachName(op) \in Seq(Lines) /\ Len(ForEachName(op)) = Len(NameOrder)
         /\ \A i \in 1 .. Len(NameOrder) : ForEachName(op)[i] = Line(op, NameOrder[i])
<1>1. \A i \in 1 .. Len(NameOrder) : Line(op, NameOrder[i]) \in Lines
  BY PipelineAssumption DEF Line, Lines
<1>2. DOMAIN NameOrder = 1 .. Len(NameOrder) /\ Len(NameOrder) \in Nat
  BY PipelineAssumption
<1> QED BY <1>1, <1>2 DEF ForEachName

LEMMA FirstLineType == <<Line("index", NameOrder[1])>> \in Seq(Lines)
<1>1. NameOrder[1] \in Names
  BY PipelineAssumption
<1> QED BY <1>1 DEF Line, Lines

LEMMA RecipeType == pipeline \in Seq(Lines)
BY FirstLineType, ForEachNameType DEF pipeline

\* The paths of the recipes.
LEMMA PathTypes ==
  ASSUME NEW name \in Names
  PROVE  Dataset(name) \in Path /\ Results(name) \in Path /\ Answers(name) \in Path
BY PipelineAssumption DEF Dataset, Results, Answers, Path

-----------------------------------------------------------------------------
\* Any datasets and leftovers, a first generator, and make at rest.
LEMMA InitTInv == Init => TInv
<1> SUFFICES ASSUME Init PROVE TInv
  OBVIOUS
<1>1. GInv
  BY GeneratorStarts DEF Init
<1>2. DiskOK
  <2>1. PICK l \in Leftovers, d \in [Names -> Datasets] :
          /\ index = l.index
          /\ json = [p \in Path |-> IF p = Dataset(p[2]) THEN d[p[2]] ELSE l.output[p[1]]]
    BY DEF Init
  <2>2. index \in [Names -> Nat]
    BY <2>1, PipelineAssumption
  <2>3. ASSUME NEW p \in Path
        PROVE  FileOK(json[p])
    <3>1. p = <<p[1], p[2]>> /\ p[1] \in Folders /\ p[2] \in Names
      BY DEF Path
    <3>2. CASE p = Dataset(p[2])
      BY <2>1, <3>1, <3>2, PipelineAssumption
    <3>3. CASE p # Dataset(p[2])
      <4>1. p[1] \in Folders \ {"UnansweredQuestions"}
        BY <3>1, <3>3 DEF Dataset
      <4> QED BY <2>1, <3>3, <4>1, PipelineAssumption
    <3> QED BY <3>2, <3>3
  <2> QED BY <2>1, <2>2, <2>3 DEF DiskOK
<1>3. CommandOK /\ DoneAgrees
  BY DEF Init, CommandOK, DoneAgrees, None
<1>4. MakeOK
  <2>1. 0 \in 0 .. MaxRuns /\ 0 \in 0 .. MaxEdits
    BY PipelineAssumption
  <2>2. << >> \in Seq(Lines)
    OBVIOUS
  <2> QED BY <2>1, <2>2 DEF Init, MakeOK
<1> QED BY <1>1, <1>2, <1>3, <1>4 DEF TInv, TypeOK, GInv

-----------------------------------------------------------------------------
\* The steps of search_dataset and answer_dataset.

\* Input: a command opens its input, or ends.
LEMMA InputTInv ==
  ASSUME TInv, NoInput \/ ReadInput \/ BadInput, UNCHANGED makeVars
  PROVE  TInv'
<1>1. UNCHANGED <<corpus, caches, call, index, json>>
  BY DEF NoInput, ReadInput, BadInput
<1>2. GInv' /\ DiskOK' /\ MakeOK'
  BY <1>1, GeneratorWaits, DiskWaits, MakeWaits DEF TInv, TypeOK, GInv
<1>3. CASE NoInput \/ BadInput
  BY <1>2, <1>3, ExitOK DEF NoInput, BadInput, TInv, TypeOK, GInv
<1>4. CASE ReadInput
  <2>1. /\ command.phase = "open" /\ Opened \in Readable
        /\ command' = [command EXCEPT !.phase = "loop", !.rows = json[command.path].rows]
    BY <1>4 DEF ReadInput
  <2>2. CommandOK
    BY DEF TInv, TypeOK
  <2>3. command.path \in Path
    BY <2>1, <2>2, CommandCases DEF Searches, AnswersMade, Batch
  <2>4. FileOK(json[command.path])
    BY <2>3 DEF TInv, TypeOK, DiskOK
  <2>5. CASE command.makes = "results"
    <3>1. command \in Searches
      BY <2>1, <2>2, <2>5, BatchCases
    <3>2. json[command.path].rows \in Seq(QuestionRow)
      BY <2>1, <2>4, <2>5 DEF FileOK, Opened, Readable, Missing, Torn
    <3>3. command' \in Searches
      BY <2>1, <3>1, <3>2 DEF Searches, Batch
    <3> QED BY <1>2, <3>3 DEF TInv, TypeOK, GInv, CommandOK, DoneAgrees, Searches, Batch
  <2>6. CASE command.makes = "answers"
    <3>1. command \in AnswersMade
      BY <2>1, <2>2, <2>6, BatchCases
    <3>2. json[command.path].rows \in Seq(ResultRow \cup AnswerRow)
      <4>1. json[command.path].rows \in Seq(ResultRow) \/ json[command.path].rows \in Seq(AnswerRow)
        BY <2>1, <2>4, <2>6 DEF FileOK, Opened, Readable, Missing, Torn
      <4> QED BY <4>1
    <3>3. command' \in AnswersMade /\ command'.done = command.done
      BY <2>1, <3>1, <3>2 DEF AnswersMade, Batch
    <3>4. DoneAgrees'
      BY <1>1, <2>1, <2>6, <3>3 DEF TInv, DoneAgrees, caches
    <3> QED BY <1>2, <3>3, <3>4 DEF TInv, TypeOK, GInv, CommandOK
  <2> QED BY <2>1, <2>2, <2>5, <2>6, BatchCases
<1> QED BY <1>3, <1>4

\* What is found is a list of sources.
LEMMA FoundType ==
  ASSUME NEW name \in Names, NEW generation \in Nat, NEW query \in Questions
  PROVE  FoundIn(name, generation, query) \in Seq(Source)
<1> DEFINE found == Hits[name]
           i == 1 + (generation % Len(found))
<1>1. found \in Seq([Questions -> Seq(Source)]) /\ Len(found) \in Nat \ {0}
  BY BatchAssumption
<1>2. i \in 1 .. Len(found)
  <2>1. \A n \in Nat \ {0} : generation % n \in 0 .. n - 1
    OBVIOUS
  <2> HIDE DEF found
  <2> QED BY <1>1, <2>1
<1>3. found[i] \in [Questions -> Seq(Source)]
  BY <1>1, <1>2
<1> QED BY <1>3 DEF FoundIn

\* One question is searched for.
LEMMA SearchNextTInv ==
  ASSUME TInv, SearchNext, UNCHANGED makeVars
  PROVE  TInv'
<1> DEFINE q == Head(command.rows)
           found == Found(Query(q.question, command.expand))
           row == Result(q.id, q.question, found)
<1>1. UNCHANGED <<corpus, caches, call, index, json>>
  BY DEF SearchNext
<1>2. GInv' /\ DiskOK' /\ MakeOK'
  BY <1>1, GeneratorWaits, DiskWaits, MakeWaits DEF TInv, TypeOK, GInv
<1>3. /\ command.phase = "loop" /\ command.makes = "results" /\ command.rows # << >>
      /\ command' = [command EXCEPT !.rows = Tail(command.rows), !.done = Append(command.done, row)]
  BY DEF SearchNext, Looping, Advance
<1>4. command \in Searches
  BY <1>3, BatchCases DEF TInv, TypeOK
<1>5. /\ q \in QuestionRow /\ Tail(command.rows) \in Seq(QuestionRow)
      /\ command.path[2] \in Names /\ command.generation \in Nat
      /\ command.done \in Seq(ResultRow)
  BY <1>3, <1>4 DEF Searches, Batch, Path
<1>6. row \in ResultRow
  <2>1. Query(q.question, command.expand) \in Questions
    BY <1>5, BatchAssumption DEF Query, QuestionRow
  <2>2. found \in Seq(Source)
    BY <1>5, <2>1, FoundType DEF Found
  <2> HIDE DEF found
  <2> QED BY <1>5, <2>2 DEF Result, ResultRow, QuestionRow
<1>7. Append(command.done, row) \in Seq(ResultRow)
  BY <1>5, <1>6
<1> HIDE DEF row, q
<1>8. command' \in Searches
  BY <1>3, <1>4, <1>5, <1>7 DEF Searches, Batch
<1> QED BY <1>2, <1>8 DEF TInv, TypeOK, GInv, CommandOK, DoneAgrees, Searches, Batch

\* The next result is answered: a call, its steps, and its answer.
LEMMA AskNextTInv ==
  ASSUME TInv, AskNext, UNCHANGED makeVars
  PROVE  TInv'
<1> DEFINE r == Head(command.rows)
<1>1. /\ command.phase = "loop" /\ command.makes = "answers" /\ command.rows # << >>
      /\ Ask(r.question, r.sources)
      /\ UNCHANGED <<index, json, command>>
  BY DEF AskNext, Looping
<1>2. command \in AnswersMade
  BY <1>1, BatchCases DEF TInv, TypeOK
<1>3. r \in ResultRow \cup AnswerRow
  BY <1>1, <1>2 DEF AnswersMade, Batch
<1>4. r.question \in Questions /\ r.sources \in Seq(Source)
  BY <1>3 DEF ResultRow, AnswerRow
<1> HIDE DEF r
<1>5. GInv' /\ file_cache' = file_cache
  BY <1>1, <1>4, AskKeeps DEF TInv, TypeOK, GInv
<1> QED BY <1>1, <1>5, DiskWaits, MakeWaits, CommandWaits, DoneWaits DEF TInv, TypeOK, GInv

\* generate_answer works: the file cache grows, and answers already made still
\* agree with it.
LEMMA GeneratingTInv ==
  ASSUME TInv, Generating, UNCHANGED makeVars
  PROVE  TInv'
<1>1. Generate /\ UNCHANGED <<index, json, command>>
  BY DEF Generating
<1>2. GInv' /\ Grows(file_cache, file_cache')
  BY <1>1, GenerateKeeps DEF TInv, TypeOK, GInv
<1>3. DoneAgrees'
  BY <1>1, <1>2, TextsStay DEF TInv, DoneAgrees
<1> QED BY <1>1, <1>2, <1>3, DiskWaits, MakeWaits, CommandWaits DEF TInv, TypeOK, GInv

\* The answer joins its row: it agrees with the file cache as call.answer did.
LEMMA TakeAnswerTInv ==
  ASSUME TInv, TakeAnswer, UNCHANGED makeVars
  PROVE  TInv'
<1> DEFINE r == Head(command.rows)
           row == [id |-> r.id, question |-> r.question, sources |-> r.sources,
                   answer |-> call.answer]
<1>1. /\ command.phase = "loop" /\ command.makes = "answers" /\ command.rows # << >>
      /\ call.phase = "answered"
      /\ command' = [command EXCEPT !.rows = Tail(command.rows), !.done = Append(command.done, row)]
      /\ call' = Idle /\ UNCHANGED <<corpus, caches, index, json>>
  BY DEF TakeAnswer, Looping, Advance
<1>2. GInv' /\ DiskOK' /\ MakeOK'
  BY <1>1, IdleKeeps, DiskWaits, MakeWaits DEF TInv, TypeOK, GInv
<1>3. command \in AnswersMade
  BY <1>1, BatchCases DEF TInv, TypeOK
<1>4. /\ r \in ResultRow \cup AnswerRow
      /\ Tail(command.rows) \in Seq(ResultRow \cup AnswerRow)
      /\ command.done \in Seq(AnswerRow)
  BY <1>1, <1>3 DEF AnswersMade, Batch
<1>5. call.answer \in Answer /\ AllOfCachedFiles(file_cache, call.answer.prompt)
  BY <1>1, CallCases DEF TInv, TypeOK, GeneratorTypeOK, CachesAgree
<1>6. row \in AnswerRow /\ row.answer = call.answer
  BY <1>4, <1>5 DEF ResultRow, AnswerRow
<1> HIDE DEF r, row
<1>7. Append(command.done, row) \in Seq(AnswerRow)
  BY <1>4, <1>6
<1>8. command' \in AnswersMade /\ command'.done = Append(command.done, row)
  BY <1>1, <1>3, <1>4, <1>7 DEF AnswersMade, Batch
<1>9. \A i \in DOMAIN command.done : AllOfCachedFiles(file_cache, command.done[i].answer.prompt)
  BY <1>1 DEF TInv, DoneAgrees
<1>10. ASSUME NEW i \in DOMAIN command'.done
       PROVE  AllOfCachedFiles(file_cache, command'.done[i].answer.prompt)
  <2>1. CASE i = Len(command.done) + 1
    BY <2>1, <1>4, <1>5, <1>6, <1>8
  <2>2. CASE i # Len(command.done) + 1
    BY <2>2, <1>4, <1>8, <1>9
  <2> QED BY <2>1, <2>2
<1>11. DoneAgrees'
  BY <1>1, <1>10 DEF DoneAgrees, caches
<1> QED BY <1>2, <1>8, <1>11 DEF TInv, TypeOK, GInv, CommandOK

\* Output: the file is emptied, then whole.
LEMMA BeginWriteTInv ==
  ASSUME TInv, BeginWrite, UNCHANGED makeVars
  PROVE  TInv'
<1>1. /\ command.phase = "loop"
      /\ json' = [json EXCEPT ![command.save] = Torn]
      /\ command' = [command EXCEPT !.phase = "write"]
      /\ UNCHANGED <<corpus, caches, call, index>>
  BY DEF BeginWrite
<1>2. GInv' /\ MakeOK'
  BY <1>1, GeneratorWaits, MakeWaits DEF TInv, TypeOK, GInv
<1>3. command \in Searches \/ command \in AnswersMade
  BY <1>1, CommandCases DEF TInv, TypeOK
<1>4. DiskOK'
  BY <1>1, <1>3, WriteOK DEF TInv, TypeOK, Searches, AnswersMade, Batch, FileOK
<1>5. CASE command \in Searches
  <2>1. command' \in Searches
    BY <1>1, <1>5 DEF Searches, Batch
  <2> QED BY <1>2, <1>4, <2>1 DEF TInv, TypeOK, GInv, CommandOK, DoneAgrees, Searches, Batch
<1>6. CASE command \in AnswersMade
  <2>1. command' \in AnswersMade /\ command'.done = command.done /\ command.makes = "answers"
    BY <1>1, <1>6 DEF AnswersMade, Batch
  <2>2. DoneAgrees'
    BY <1>1, <2>1 DEF TInv, DoneAgrees, caches
  <2> QED BY <1>2, <1>4, <2>1, <2>2 DEF TInv, TypeOK, GInv, CommandOK
<1> QED BY <1>3, <1>5, <1>6

\* The rows done are a file of the kind the command makes.
LEMMA EndWriteTInv ==
  ASSUME TInv, EndWrite, UNCHANGED makeVars
  PROVE  TInv'
<1> DEFINE file == [kind |-> command.makes, rows |-> command.done]
<1>1. /\ command.phase = "write"
      /\ json' = [json EXCEPT ![command.save] = file]
      /\ command' = Exited(TRUE)
      /\ UNCHANGED <<corpus, caches, call, index>>
  BY DEF EndWrite
<1>2. GInv' /\ MakeOK' /\ CommandOK' /\ DoneAgrees'
  BY <1>1, GeneratorWaits, MakeWaits, ExitOK DEF TInv, TypeOK, GInv
<1>3. command \in Searches \/ command \in AnswersMade
  BY <1>1, CommandCases DEF TInv, TypeOK
<1>4. FileOK(file) /\ command.save \in Path
  BY <1>3 DEF Searches, AnswersMade, Batch, FileOK
<1> HIDE DEF file
<1>5. DiskOK'
  BY <1>1, <1>4, WriteOK DEF TInv, TypeOK
<1> QED BY <1>2, <1>5 DEF TInv, TypeOK, GInv

\* All steps of the dataset commands.
LEMMA BatchTInv ==
  ASSUME TInv, BatchStep, UNCHANGED makeVars
  PROVE  TInv'
BY InputTInv, SearchNextTInv, AskNextTInv, GeneratingTInv, TakeAnswerTInv,
   BeginWriteTInv, EndWriteTInv DEF BatchStep

-----------------------------------------------------------------------------
\* The lines of the recipe.
LEMMA NameType ==
  ASSUME TInv, todo # << >>
  PROVE  Name \in Names /\ Tail(todo) \in Seq(Lines)
<1>1. Head(todo) \in Lines /\ Tail(todo) \in Seq(Lines)
  BY DEF TInv, TypeOK, MakeOK
<1> QED BY <1>1 DEF Name, Lines

\* The index command.
LEMMA IndexTInv ==
  ASSUME TInv, StartIndex \/ PublishNext \/ Indexed
  PROVE  TInv'
<1>1. /\ UNCHANGED <<corpus, caches, call, json, makeVars>>
      /\ GInv' /\ MakeOK'
  BY GeneratorWaits, MakeWaits DEF StartIndex, PublishNext, Indexed, TInv, TypeOK, GInv
<1>2. CASE StartIndex
  <2>1. /\ command' = [phase |-> "indexing", rows |-> NameOrder, generation |-> index[Name] + 1]
        /\ UNCHANGED index /\ todo # << >>
    BY <1>2 DEF StartIndex, Runs
  <2>2. index[Name] \in Nat
    BY <2>1, NameType DEF TInv, TypeOK, DiskOK
  <2>3. command' \in [phase : {"indexing"}, rows : Seq(Names), generation : Nat]
    <3>1. NameOrder \in Seq(Names) /\ index[Name] + 1 \in Nat
      BY <2>2, PipelineAssumption
    <3> QED BY <2>1, <3>1
  <2>4. CommandOK' /\ DoneAgrees'
    BY <2>3 DEF CommandOK, DoneAgrees
  <2> QED BY <1>1, <2>1, <2>4, DiskWaits DEF TInv, TypeOK, GInv
<1>3. CASE PublishNext
  <2>1. /\ command.phase = "indexing" /\ command.rows # << >>
        /\ index' = [index EXCEPT ![Head(command.rows)] = command.generation]
        /\ command' = [command EXCEPT !.rows = Tail(command.rows)]
    BY <1>3 DEF PublishNext
  <2>2. command \in [phase : {"indexing"}, rows : Seq(Names), generation : Nat]
    BY <2>1, CommandCases DEF TInv, TypeOK
  <2>3. command' \in [phase : {"indexing"}, rows : Seq(Names), generation : Nat]
    <3>1. Tail(command.rows) \in Seq(Names) /\ command.generation \in Nat
      BY <2>1, <2>2
    <3>2. command' = [phase |-> "indexing", rows |-> Tail(command.rows),
                      generation |-> command.generation]
      BY <2>1, <2>2
    <3> QED BY <3>1, <3>2
  <2>4. index' \in [Names -> Nat]
    BY <2>1, <2>2 DEF TInv, TypeOK, DiskOK
  <2>5. DiskOK'
    BY <1>1, <2>4 DEF TInv, TypeOK, DiskOK
  <2> QED BY <1>1, <2>3, <2>5 DEF TInv, TypeOK, GInv, CommandOK, DoneAgrees
<1>4. CASE Indexed
  BY <1>1, <1>4, ExitOK, DiskWaits DEF Indexed, TInv, TypeOK, GInv
<1> QED BY <1>2, <1>3, <1>4

\* A command starts with a new generator.
LEMMA StartSearchTInv ==
  ASSUME TInv, StartSearch
  PROVE  TInv'
<1>1. PICK expand \in BOOLEAN : SearchDataset(Dataset(Name), "search_results", expand)
  BY DEF StartSearch
<1>2. NewGenerator /\ UNCHANGED <<corpus, index, json>> /\ UNCHANGED makeVars
  BY <1>1 DEF StartSearch, SearchDataset
<1>3. GInv' /\ DiskOK' /\ MakeOK'
  BY <1>2, NewGeneratorKeeps, DiskWaits, MakeWaits DEF TInv, TypeOK, GInv
<1>4. Name \in Names
  BY NameType DEF StartSearch, Runs
<1>5. CASE command' = Exited(FALSE)
  BY <1>3, <1>5, ExitOK DEF TInv, TypeOK, GInv
<1>6. CASE command' = [phase |-> "open", makes |-> "results", path |-> Dataset(Name),
                       save |-> Results(Name), expand |-> expand,
                       generation |-> index[Name], rows |-> << >>, done |-> << >>]
  <2>1. index[Name] \in Nat /\ Dataset(Name) \in Path /\ Results(Name) \in Path
    BY <1>4, PathTypes DEF TInv, TypeOK, DiskOK
  <2>2. command' \in Searches
    BY <1>6, <2>1 DEF Searches, Batch
  <2> QED BY <1>3, <2>2 DEF TInv, TypeOK, GInv, CommandOK, DoneAgrees, Searches, Batch
<1>7. Dataset(Name)[2] = Name /\ SavePath("search_results", Dataset(Name)) = Results(Name)
  BY DEF Dataset, Results, SavePath
<1> QED BY <1>1, <1>5, <1>6, <1>7 DEF SearchDataset

\* No answers yet, and empty caches for them to agree with.
LEMMA StartAnswerTInv ==
  ASSUME TInv, StartAnswer
  PROVE  TInv'
<1>1. /\ NewGenerator /\ UNCHANGED <<corpus, index, json>> /\ UNCHANGED makeVars
      /\ command' = [phase |-> "open", makes |-> "answers", path |-> Results(Name),
                     save |-> SavePath("search_results_and_answer", Results(Name)),
                     expand |-> FALSE, generation |-> 0, rows |-> << >>, done |-> << >>]
  BY DEF StartAnswer, AnswerDataset
<1>2. GInv' /\ DiskOK' /\ MakeOK'
  BY <1>1, NewGeneratorKeeps, DiskWaits, MakeWaits DEF TInv, TypeOK, GInv
<1>3. Name \in Names
  BY NameType DEF StartAnswer, Runs
<1>4. Results(Name) \in Path /\ SavePath("search_results_and_answer", Results(Name)) \in Path
  BY <1>3, PathTypes DEF SavePath, Results, Answers
<1>5. command' \in AnswersMade /\ command'.done = << >>
  BY <1>1, <1>4 DEF AnswersMade, Batch
<1>6. DoneAgrees'
  BY <1>5 DEF DoneAgrees
<1> QED BY <1>2, <1>5, <1>6 DEF TInv, TypeOK, GInv, CommandOK

\* make itself, and what others do.
LEMMA MakeTInv ==
  ASSUME TInv, Make \/ Proceed \/ Stop \/ Evaluate \/ (Die /\ UNCHANGED makeVars)
  PROVE  TInv'
<1>1. UNCHANGED <<corpus, caches, call, index, json>>
  BY DEF Make, Proceed, Stop, Evaluate, Die
<1>2. GInv' /\ DiskOK'
  BY <1>1, GeneratorWaits, DiskWaits DEF TInv, TypeOK, GInv
<1>3. CASE Make
  <2>1. runs + 1 \in 0 .. MaxRuns
    BY <1>3, PipelineAssumption DEF Make, TInv, TypeOK, MakeOK
  <2>2. MakeOK'
    BY <1>3, <2>1, RecipeType DEF Make, TInv, TypeOK, MakeOK
  <2> QED BY <1>1, <1>2, <1>3, <2>2, CommandWaits, DoneWaits DEF Make, TInv, TypeOK, GInv, caches
<1>4. CASE Proceed \/ Stop
  <2>1. command' = None /\ UNCHANGED <<runs, edits, quiet>> /\ complete' \in BOOLEAN
    BY <1>4 DEF Proceed, Stop, TInv, TypeOK, MakeOK
  <2>2. todo' \in Seq(Lines)
    <3>1. CASE todo' = << >>
      BY <3>1
    <3>2. CASE todo' = Tail(todo) /\ todo # << >>
      BY <3>2 DEF TInv, TypeOK, MakeOK
    <3> QED BY <1>4, <3>1, <3>2 DEF Proceed, Stop
  <2>3. MakeOK'
    BY <2>1, <2>2 DEF TInv, TypeOK, MakeOK
  <2> QED BY <1>2, <2>1, <2>3, NoneOK DEF TInv, TypeOK, GInv
<1>5. CASE Evaluate
  <2>1. \E ok \in BOOLEAN : command' = Exited(ok)
    BY <1>5, EvaluateExits
  <2>2. CommandOK' /\ DoneAgrees'
    BY <2>1, ExitOK
  <2> QED BY <1>2, <1>5, <2>2, MakeWaits DEF Evaluate, TInv, TypeOK, GInv
<1>6. CASE Die /\ UNCHANGED makeVars
  BY <1>2, <1>6, ExitOK, MakeWaits DEF Die, TInv, TypeOK, GInv
<1> QED BY <1>3, <1>4, <1>5, <1>6

\* make clean: no index and no output is left.
LEMMA CleanTInv ==
  ASSUME TInv, Clean
  PROVE  TInv'
<1>1. /\ UNCHANGED <<corpus, caches, call, command, todo, runs, edits, quiet>>
      /\ complete' = FALSE
      /\ index' = [n \in Names |-> 0]
      /\ json' = [p \in Path |-> IF p[1] = "UnansweredQuestions" THEN json[p] ELSE Missing]
  BY DEF Clean
<1>2. DiskOK'
  BY <1>1 DEF TInv, TypeOK, DiskOK, FileOK
<1>3. MakeOK'
  BY <1>1 DEF TInv, TypeOK, MakeOK
<1>4. GInv' /\ CommandOK' /\ DoneAgrees'
  BY <1>1, GeneratorWaits, CommandWaits, DoneWaits DEF TInv, TypeOK, GInv, caches
<1> QED BY <1>2, <1>3, <1>4 DEF TInv, TypeOK, GInv

\* An edit of a file on disk does not reach the caches.
LEMMA EditTInv ==
  ASSUME TInv, EditCorpus \/ EditDataset
  PROVE  TInv'
<1>1. MakeOK' /\ UNCHANGED <<index, command>>
  <2>1. /\ edits < MaxEdits /\ edits' = edits + 1 /\ quiet' = FALSE
        /\ UNCHANGED <<index, command, todo, runs, complete>>
    BY DEF EditCorpus, EditDataset
  <2>2. edits + 1 \in 0 .. MaxEdits
    BY <2>1, PipelineAssumption DEF TInv, TypeOK, MakeOK
  <2> QED BY <2>1, <2>2 DEF TInv, TypeOK, MakeOK
<1>2. GInv' /\ file_cache' = file_cache
  <2>1. CASE EditCorpus
    BY <2>1, EditKeeps DEF EditCorpus, TInv, TypeOK, GInv
  <2>2. CASE EditDataset
    BY <2>2, GeneratorWaits DEF EditDataset, TInv, TypeOK, GInv, caches
  <2> QED BY <2>1, <2>2
<1>3. DiskOK'
  <2>1. CASE EditCorpus
    BY <2>1, DiskWaits DEF EditCorpus, TInv, TypeOK
  <2>2. CASE EditDataset
    <3>1. PICK n \in Names, d \in Datasets : json' = [json EXCEPT ![Dataset(n)] = d]
      BY <2>2 DEF EditDataset
    <3>2. FileOK(d) /\ Dataset(n) \in Path
      BY PipelineAssumption, PathTypes
    <3> QED BY <1>1, <3>1, <3>2, WriteOK DEF TInv, TypeOK
  <2> QED BY <2>1, <2>2
<1> QED BY <1>1, <1>2, <1>3, CommandWaits, DoneWaits DEF TInv, TypeOK, GInv

\* Every step keeps the inductive invariant.
LEMMA NextTInv == TInv /\ [Next]_vars => TInv'
<1> SUFFICES ASSUME TInv, [Next]_vars PROVE TInv'
  OBVIOUS
<1>1. CASE Step
  BY <1>1, IndexTInv, StartSearchTInv, StartAnswerTInv, MakeTInv, BatchTInv DEF Step
<1>2. CASE Make \/ (Die /\ UNCHANGED makeVars)
  BY <1>2, MakeTInv
<1>3. CASE Clean
  BY <1>3, CleanTInv
<1>4. CASE EditCorpus \/ EditDataset
  BY <1>4, EditTInv
<1>5. CASE UNCHANGED vars
  <2>1. /\ UNCHANGED <<corpus, caches, call>> /\ UNCHANGED <<index, json>>
        /\ UNCHANGED command /\ UNCHANGED makeVars /\ UNCHANGED file_cache
    BY <1>5 DEF vars, caches, makeVars
  <2> QED BY <2>1, GeneratorWaits, DiskWaits, MakeWaits, CommandWaits, DoneWaits
          DEF TInv, TypeOK, GInv
<1> QED BY <1>1, <1>2, <1>3, <1>4, <1>5 DEF Next

-----------------------------------------------------------------------------
\* The order of the recipe.

\* The lines of the recipe: the index, then one for each name and stage.
LEMMA RecipeLines ==
  LET m == Len(NameOrder)
  IN  /\ m \in Nat /\ Len(pipeline) = 1 + 3 * m /\ DOMAIN pipeline = 1 .. 1 + 3 * m
      /\ pipeline[1] = Line("index", NameOrder[1])
      /\ \A i \in 1 .. m : /\ pipeline[1 + i] = Line("search", NameOrder[i])
                           /\ pipeline[1 + m + i] = Line("answer", NameOrder[i])
                           /\ pipeline[1 + 2 * m + i] = Line("evaluate", NameOrder[i])
<1> DEFINE m == Len(NameOrder)
           first == <<Line("index", NameOrder[1])>>
           search == ForEachName("search")
           answer == ForEachName("answer")
           evaluate == ForEachName("evaluate")
           fs == first \o search
           fsa == fs \o answer
<1>1. m \in Nat /\ first \in Seq(Lines) /\ Len(first) = 1 /\ first[1] = Line("index", NameOrder[1])
  BY PipelineAssumption, FirstLineType
<1>2. /\ search \in Seq(Lines) /\ answer \in Seq(Lines) /\ evaluate \in Seq(Lines)
      /\ Len(search) = m /\ Len(answer) = m /\ Len(evaluate) = m
      /\ \A i \in 1 .. m : /\ search[i] = Line("search", NameOrder[i])
                           /\ answer[i] = Line("answer", NameOrder[i])
                           /\ evaluate[i] = Line("evaluate", NameOrder[i])
  BY ForEachNameType
<1>3. pipeline = fsa \o evaluate
  BY DEF pipeline
<1> HIDE DEF m, first, search, answer, evaluate, fs, fsa
<1>4. /\ fs \in Seq(Lines) /\ Len(fs) = 1 + m
      /\ \A i \in 1 .. 1 + m :
           fs[i] = IF i <= 1 THEN first[i] ELSE search[i - 1]
  <2>1. /\ fs \in Seq(Lines) /\ Len(fs) = Len(first) + Len(search)
        /\ \A i \in 1 .. Len(first) + Len(search) :
             fs[i] =
               IF i <= Len(first) THEN (first)[i] ELSE (search)[i - Len(first)]
    BY <1>1, <1>2, ConcatProperties DEF fs
  <2> QED BY <1>1, <1>2, <2>1
<1>5. /\ fsa \in Seq(Lines)
      /\ Len(fsa) = 1 + m + m
      /\ \A i \in 1 .. 1 + m + m :
           fsa[i] =
             IF i <= 1 + m THEN fs[i] ELSE answer[i - (1 + m)]
  <2>1. /\ fsa \in Seq(Lines) /\ Len(fsa) = Len(fs) + Len(answer)
        /\ \A i \in 1 .. Len(fs) + Len(answer) :
             fsa[i] =
               IF i <= Len(fs) THEN fs[i] ELSE (answer)[i - Len(fs)]
    BY <1>2, <1>4, ConcatProperties DEF fsa
  <2> QED BY <1>1, <1>2, <1>4, <2>1
<1>6. /\ pipeline \in Seq(Lines) /\ Len(pipeline) = 1 + m + m + m
      /\ \A i \in 1 .. 1 + m + m + m :
           pipeline[i] = IF i <= 1 + m + m THEN fsa[i]
                         ELSE evaluate[i - (1 + m + m)]
  <2>1. /\ fsa \o evaluate \in Seq(Lines) /\ Len(fsa \o evaluate) = Len(fsa) + Len(evaluate)
        /\ \A i \in 1 .. Len(fsa) + Len(evaluate) :
             (fsa \o evaluate)[i] =
               IF i <= Len(fsa) THEN fsa[i] ELSE (evaluate)[i - Len(fsa)]
    BY <1>2, <1>5, ConcatProperties
  <2> QED BY <1>1, <1>2, <1>3, <1>5, <2>1
<1>7. pipeline[1] = Line("index", NameOrder[1])
  <2>1. 1 \in 1 .. 1 + m /\ 1 \in 1 .. 1 + m + m /\ 1 \in 1 .. 1 + m + m + m
    BY <1>1
  <2>2. 1 <= 1 + m /\ 1 <= 1 + m + m
    BY <1>1
  <2>3. fsa[1] = fs[1]
    BY <1>5, <2>1, <2>2
  <2>4. fs[1] = first[1]
    BY <1>4, <2>1
  <2> QED BY <1>1, <1>6, <2>1, <2>2, <2>3, <2>4
<1>8. ASSUME NEW i \in 1 .. m
      PROVE  /\ pipeline[1 + i] = Line("search", NameOrder[i])
             /\ pipeline[1 + m + i] = Line("answer", NameOrder[i])
             /\ pipeline[1 + 2 * m + i] = Line("evaluate", NameOrder[i])
  <2>1. pipeline[1 + i] = search[i]
    <3>1. /\ 1 + i \in 1 .. 1 + m /\ 1 + i \in 1 .. 1 + m + m /\ 1 + i \in 1 .. 1 + m + m + m
          /\ ~(1 + i <= 1) /\ 1 + i <= 1 + m /\ 1 + i <= 1 + m + m /\ (1 + i) - 1 = i
      BY <1>1
    <3> QED BY <1>4, <1>5, <1>6, <3>1
  <2>2. pipeline[1 + m + i] = answer[i]
    <3>1. /\ 1 + m + i \in 1 .. 1 + m + m /\ 1 + m + i \in 1 .. 1 + m + m + m
          /\ ~(1 + m + i <= 1 + m) /\ 1 + m + i <= 1 + m + m /\ (1 + m + i) - (1 + m) = i
      BY <1>1
    <3> QED BY <1>5, <1>6, <3>1
  <2>3. pipeline[1 + 2 * m + i] = evaluate[i]
    <3>1. /\ 1 + 2 * m + i \in 1 .. 1 + m + m + m
          /\ ~(1 + 2 * m + i <= 1 + m + m) /\ (1 + 2 * m + i) - (1 + m + m) = i
      BY <1>1
    <3> QED BY <1>6, <3>1
  <2> QED BY <1>2, <2>1, <2>2, <2>3
<1>9. 1 + m + m + m = 1 + 3 * m
  BY <1>1
<1>10. Len(pipeline) = 1 + 3 * m /\ DOMAIN pipeline = 1 .. 1 + 3 * m
  BY <1>6, <1>9
<1> QED BY <1>1, <1>7, <1>8, <1>10 DEF m

\* make begins with a recipe in order ...
LEMMA RecipeStarts ==
  ASSUME todo' = pipeline, complete' = FALSE
  PROVE  RecipeOK'
<1> DEFINE m == Len(NameOrder)
<1>1. /\ m \in Nat /\ DOMAIN pipeline = 1 .. 1 + 3 * m
      /\ pipeline[1] = Line("index", NameOrder[1])
      /\ \A i \in 1 .. m : /\ pipeline[1 + i] = Line("search", NameOrder[i])
                           /\ pipeline[1 + m + i] = Line("answer", NameOrder[i])
                           /\ pipeline[1 + 2 * m + i] = Line("evaluate", NameOrder[i])
  BY RecipeLines
<1> HIDE DEF m
<1>2. ASSUME NEW i \in 1 .. 1 + 3 * m
      PROVE  \/ i = 1 /\ pipeline[i] = Line("index", NameOrder[1])
             \/ \E k \in 1 .. m : i = 1 + k /\ pipeline[i] = Line("search", NameOrder[k])
             \/ \E k \in 1 .. m : i = 1 + m + k /\ pipeline[i] = Line("answer", NameOrder[k])
             \/ \E k \in 1 .. m : i = 1 + 2 * m + k /\ pipeline[i] = Line("evaluate", NameOrder[k])
  <2>1. CASE i = 1
    BY <1>1, <2>1
  <2>2. CASE i \in 2 .. 1 + m
    <3>1. i - 1 \in 1 .. m /\ i = 1 + (i - 1)
      BY <1>1, <2>2
    <3> QED BY <1>1, <3>1
  <2>3. CASE i \in 2 + m .. 1 + 2 * m
    <3>1. i - 1 - m \in 1 .. m /\ i = 1 + m + (i - 1 - m)
      BY <1>1, <2>3
    <3> QED BY <1>1, <3>1
  <2>4. CASE i \in 2 + 2 * m .. 1 + 3 * m
    <3>1. i - 1 - 2 * m \in 1 .. m /\ i = 1 + 2 * m + (i - 1 - 2 * m)
      BY <1>1, <2>4
    <3> QED BY <1>1, <3>1
  <2> QED BY <1>1, <2>1, <2>2, <2>3, <2>4
<1>3. ASSUME NEW i \in 1 .. 1 + 3 * m
      PROVE  /\ pipeline[i].op = "index" <=> i = 1
             /\ pipeline[i].op = "search" <=> i \in 2 .. 1 + m
             /\ pipeline[i].op = "answer" <=> i \in 2 + m .. 1 + 2 * m
             /\ Stage(pipeline[i].op) = IF i = 1 THEN 1 ELSE IF i <= 1 + m THEN 2
                                        ELSE IF i <= 1 + 2 * m THEN 3 ELSE 4
  BY <1>1, <1>2 DEF Line, Stage
<1>4. ASSUME NEW i \in 1 .. 1 + 3 * m, NEW j \in 1 .. 1 + 3 * m, i < j
      PROVE  Stage(pipeline[i].op) <= Stage(pipeline[j].op)
  BY <1>1, <1>3, <1>4
<1>5. ASSUME NEW i \in 1 .. 1 + 3 * m, pipeline[i].op = "index", NEW n \in Names
      PROVE  \E j \in 1 .. 1 + 3 * m : j > i /\ pipeline[j] = Line("search", n)
  <2>1. PICK k \in 1 .. m : NameOrder[k] = n
    BY PipelineAssumption DEF Range, m
  <2>2. 1 + k \in 1 .. 1 + 3 * m /\ 1 + k > i
    BY <1>1, <1>3, <1>5
  <2> QED BY <1>1, <2>1, <2>2
<1>6. ASSUME NEW i \in 1 .. 1 + 3 * m, pipeline[i].op = "search"
      PROVE  \E j \in 1 .. 1 + 3 * m : j > i /\ pipeline[j] = Line("answer", pipeline[i].name)
  <2>1. PICK k \in 1 .. m : i = 1 + k /\ pipeline[i] = Line("search", NameOrder[k])
    BY <1>1, <1>2, <1>6 DEF Line
  <2>2. 1 + m + k \in 1 .. 1 + 3 * m /\ 1 + m + k > i
    BY <1>1, <2>1
  <2>3. pipeline[i].name = NameOrder[k]
    BY <2>1 DEF Line
  <2>4. pipeline[1 + m + k] = Line("answer", NameOrder[k])
    BY <1>1
  <2> QED BY <2>2, <2>3, <2>4
<1>7. todo' = pipeline /\ DOMAIN todo' = 1 .. 1 + 3 * m
  BY <1>1
<1>8. \A i, j \in DOMAIN todo' : i < j => Stage(todo'[i].op) <= Stage(todo'[j].op)
  BY <1>4, <1>7
<1>9. \A i \in DOMAIN todo' : todo'[i].op = "index" =>
        \A n \in Names : \E j \in DOMAIN todo' : j > i /\ todo'[j] = Line("search", n)
  BY <1>5, <1>7
<1>10. \A i \in DOMAIN todo' : todo'[i].op = "search" =>
         \E j \in DOMAIN todo' : j > i /\ todo'[j] = Line("answer", todo'[i].name)
  BY <1>6, <1>7
<1> QED BY <1>8, <1>9, <1>10 DEF RecipeOK

\* ... which the rest of it is in, too.
LEMMA RecipeShrinks ==
  ASSUME RecipeOK, todo \in Seq(Lines), todo # << >>,
         todo' = Tail(todo), complete' = (Tail(todo) = << >>)
  PROVE  RecipeOK'
<1>1. /\ Len(todo) \in Nat \ {0} /\ DOMAIN todo = 1 .. Len(todo)
      /\ DOMAIN todo' = 1 .. Len(todo) - 1
      /\ \A i \in 1 .. Len(todo) - 1 : todo'[i] = todo[i + 1]
  OBVIOUS
<1>2. ASSUME NEW i \in DOMAIN todo', NEW j \in DOMAIN todo', i < j
      PROVE  Stage(todo'[i].op) <= Stage(todo'[j].op)
  <2>1. i + 1 \in DOMAIN todo /\ j + 1 \in DOMAIN todo /\ i + 1 < j + 1
    BY <1>1, <1>2
  <2> QED BY <1>1, <2>1 DEF RecipeOK
<1>3. ASSUME NEW i \in DOMAIN todo'
      PROVE  /\ i + 1 \in DOMAIN todo /\ todo'[i] = todo[i + 1]
             /\ \A j \in DOMAIN todo : j > i + 1 => j - 1 \in DOMAIN todo' /\ j - 1 > i
                                                    /\ todo'[j - 1] = todo[j]
  BY <1>1
<1>4. ASSUME NEW i \in DOMAIN todo', todo'[i].op = "index", NEW n \in Names
      PROVE  \E j \in DOMAIN todo' : j > i /\ todo'[j] = Line("search", n)
  BY <1>3, <1>4 DEF RecipeOK
<1>5. ASSUME NEW i \in DOMAIN todo', todo'[i].op = "search"
      PROVE  \E j \in DOMAIN todo' : j > i /\ todo'[j] = Line("answer", todo'[i].name)
  BY <1>3, <1>5 DEF RecipeOK
<1> QED BY <1>2, <1>4, <1>5 DEF RecipeOK

\* A run that is over leaves nothing to order.
LEMMA RecipeEnds ==
  ASSUME todo' = << >>
  PROVE  RecipeOK'
BY DEF RecipeOK

\* A process is somebody.
LEMMA Busy ==
  ASSUME command.phase # "none"
  PROVE  command # None
BY DEF None

\* What a dataset command is at stays the same until it ends.
SameWork ==
  /\ command'.makes = command.makes /\ command'.path = command.path
  /\ command'.save = command.save /\ command'.expand = command.expand
  /\ command'.generation = command.generation

LEMMA BatchMoves ==
  ASSUME TInv, BatchStep
  PROVE  /\ InBatch /\ UNCHANGED <<index, corpus>>
         /\ \/ InBatch' /\ SameWork
            \/ (NoInput \/ EndWrite) /\ command' = Exited(TRUE)
            \/ BadInput /\ command' = Exited(FALSE)
<1>1. CASE NoInput \/ BadInput \/ EndWrite
  BY <1>1 DEF NoInput, BadInput, EndWrite, InBatch
<1>2. CASE AskNext \/ Generating
  <2>1. command.phase = "loop" /\ UNCHANGED <<index, command>>
    BY <1>2 DEF AskNext, Generating, Looping
  <2>2. UNCHANGED corpus
    BY <1>2 DEF AskNext, Generating, Ask, AskAgain, AskFirst, Generate, TakeSource, StopAtBudget,
                ReadSource, SkipSource, AskModel
  <2> QED BY <2>1, <2>2 DEF InBatch, SameWork
<1>3. CASE ReadInput \/ SearchNext \/ TakeAnswer \/ BeginWrite
  <2>1. InBatch /\ UNCHANGED <<index, corpus>>
    BY <1>3 DEF ReadInput, SearchNext, TakeAnswer, BeginWrite, Looping, InBatch
  <2>2. command \in Searches \/ command \in AnswersMade
    BY <2>1, CommandCases DEF TInv, TypeOK, InBatch
  <2>3. InBatch' /\ SameWork
    <3>1. \/ \E rows : command' = [command EXCEPT !.phase = "loop", !.rows = rows]
          \/ command' = [command EXCEPT !.phase = "write"]
          \/ /\ command.phase = "loop"
             /\ \E rows, done : command' = [command EXCEPT !.rows = rows, !.done = done]
      <4>1. CASE ReadInput \/ BeginWrite
        BY <4>1 DEF ReadInput, BeginWrite
      <4>2. CASE SearchNext \/ TakeAnswer
        <5>1. \E row : Advance(row)
          BY <4>2 DEF SearchNext, TakeAnswer
        <5>2. \E rows, done : command' = [command EXCEPT !.rows = rows, !.done = done]
          BY <5>1 DEF Advance
        <5> QED BY <4>2, <5>2 DEF SearchNext, TakeAnswer, Looping
      <4> QED BY <1>3, <4>1, <4>2
    <3> QED BY <2>2, <3>1 DEF Searches, AnswersMade, Batch, InBatch, SameWork
  <2> QED BY <2>1, <2>3
<1> QED BY <1>1, <1>2, <1>3 DEF BatchStep

\* Who is at work, and at what.
LEMMA OrderKept ==
  ASSUME TInv, RecipeOK, ProcessOK, [Next]_vars
  PROVE  RecipeOK' /\ ProcessOK'
<1>1. todo \in Seq(Lines) /\ CommandOK
  BY DEF TInv, TypeOK, MakeOK
<1>2. ASSUME UNCHANGED <<todo, complete>>
      PROVE  RecipeOK'
  BY <1>2 DEF RecipeOK
<1>3. ASSUME NEW ok \in BOOLEAN, command' = Exited(ok), todo' # << >>
      PROVE  ProcessOK'
  BY <1>3 DEF ProcessOK, Exited, InBatch
<1>4. ASSUME command' = None
      PROVE  ProcessOK'
  BY <1>4 DEF ProcessOK, None, InBatch
<1>5. CASE StartIndex \/ PublishNext \/ Indexed
  <2>1. UNCHANGED <<todo, complete>> /\ todo # << >>
    <3>1. UNCHANGED makeVars /\ (todo # << >> \/ command.phase = "indexing")
      BY <1>5 DEF StartIndex, PublishNext, Indexed, Runs
    <3> QED BY <3>1, Busy DEF makeVars, ProcessOK
  <2>2. CASE StartIndex
    <3>1. command'.phase = "indexing" /\ Head(todo).op = "index"
      BY <2>2 DEF StartIndex, Runs
    <3> QED BY <1>2, <2>1, <3>1 DEF ProcessOK, InBatch
  <2>3. CASE PublishNext
    <3>1. command.phase = "indexing" /\ command'.phase = "indexing"
      BY <1>1, <2>3, CommandCases DEF PublishNext
    <3> QED BY <1>2, <2>1, <3>1 DEF ProcessOK, InBatch
  <2>4. CASE Indexed
    <3>1. command' = Exited(TRUE)
      BY <2>4 DEF Indexed
    <3> QED BY <1>2, <1>3, <2>1, <3>1
  <2> QED BY <1>5, <2>1, <2>2, <2>3, <2>4
<1>6. CASE StartSearch
  <2>1. UNCHANGED <<todo, complete, index>> /\ todo # << >> /\ Head(todo).op = "search"
    BY <1>6 DEF StartSearch, SearchDataset, makeVars, Runs
  <2>2. PICK expand \in BOOLEAN : SearchDataset(Dataset(Name), "search_results", expand)
    BY <1>6 DEF StartSearch
  <2>3. CASE command' = Exited(FALSE)
    BY <1>2, <1>3, <2>1, <2>3
  <2>4. CASE command' # Exited(FALSE)
    <3>1. /\ command'.phase = "open" /\ command'.makes = "results"
          /\ command'.path = Dataset(Name) /\ command'.save = Results(Name)
          /\ command'.generation = index[Name]
      BY <2>2, <2>4 DEF SearchDataset, SavePath, Dataset, Results
    <3> QED BY <1>2, <2>1, <3>1 DEF ProcessOK, InBatch, Name
  <2> QED BY <2>3, <2>4
<1>7. CASE StartAnswer
  <2>1. UNCHANGED <<todo, complete>> /\ todo # << >> /\ Head(todo).op = "answer"
    BY <1>7 DEF StartAnswer, makeVars, Runs
  <2>2. /\ command'.phase = "open" /\ command'.makes = "answers"
        /\ command'.path = Results(Name) /\ command'.save = Answers(Name)
    BY <1>7 DEF StartAnswer, AnswerDataset, SavePath, Results, Answers
  <2> QED BY <1>2, <2>1, <2>2 DEF ProcessOK, InBatch, Name
<1>8. CASE BatchStep /\ UNCHANGED makeVars
  <2>1. UNCHANGED <<todo, complete>> /\ todo # << >>
    BY <1>8, BatchMoves DEF makeVars, ProcessOK, InBatch, None
  <2>2. CASE InBatch' /\ SameWork
    BY <1>2, <1>8, <2>1, <2>2, BatchMoves DEF ProcessOK, SameWork, InBatch, Name
  <2> QED BY <1>2, <1>3, <1>8, <2>1, <2>2, BatchMoves
<1>9. CASE Evaluate \/ (Die /\ UNCHANGED makeVars)
  <2>1. UNCHANGED <<todo, complete>> /\ todo # << >>
    <3>1. UNCHANGED makeVars /\ (todo # << >> \/ command.phase # "none")
      BY <1>9 DEF Evaluate, Runs, Die
    <3> QED BY <3>1, Busy DEF makeVars, ProcessOK
  <2>2. \E ok \in BOOLEAN : command' = Exited(ok)
    BY <1>9, EvaluateExits DEF Die
  <2> QED BY <1>2, <1>3, <2>1, <2>2
<1>10. CASE Proceed
  <2>1. todo # << >> /\ todo' = Tail(todo) /\ complete' = (Tail(todo) = << >>) /\ command' = None
    BY <1>10 DEF Proceed
  <2> QED BY <1>1, <1>4, <2>1, RecipeShrinks
<1>11. CASE Stop
  BY <1>4, <1>11, RecipeEnds DEF Stop
<1>12. CASE Make
  <2>1. command' = None
    BY <1>12 DEF Make, ProcessOK
  <2> QED BY <1>4, <1>12, <2>1, RecipeStarts DEF Make
<1>13. CASE Clean
  <2>1. command' = None
    BY <1>13 DEF Clean, ProcessOK
  <2> QED BY <1>4, <1>13, <2>1, RecipeEnds DEF Clean
<1>14. CASE EditCorpus \/ EditDataset \/ UNCHANGED vars
  <2>1. UNCHANGED <<todo, complete, command, index>>
    BY <1>14 DEF EditCorpus, EditDataset, vars, makeVars
  <2> QED BY <1>2, <2>1 DEF ProcessOK, InBatch, Name
<1> QED BY <1>5, <1>6, <1>7, <1>8, <1>9, <1>10, <1>11, <1>12, <1>13, <1>14 DEF Next, Step

-----------------------------------------------------------------------------
\* The caches do not show while no file changes.

\* An answer made for one of some lists is made for one of more.
LEMMA MadeForMore ==
  ASSUME NEW files, NEW answer, NEW q, NEW lists, NEW more, lists \subseteq more,
         MadeFor(files, answer, q, lists)
  PROVE  MadeFor(files, answer, q, more)
BY DEF MadeFor

Rows == ResultRow \cup AnswerRow

\* A row more, more that was asked about.
LEMMA AskedMore ==
  ASSUME NEW rows \in Seq(Rows), NEW row \in Rows
  PROVE  /\ \A q : Asked(rows, q) \subseteq Asked(Append(rows, row), q)
         /\ row.sources \in Asked(Append(rows, row), row.question)
<1>1. /\ DOMAIN rows = 1 .. Len(rows) /\ Len(rows) \in Nat
      /\ DOMAIN Append(rows, row) = 1 .. Len(rows) + 1
      /\ \A i \in DOMAIN rows : Append(rows, row)[i] = rows[i]
      /\ Append(rows, row)[Len(rows) + 1] = row
  OBVIOUS
<1>2. DOMAIN rows \subseteq DOMAIN Append(rows, row) /\ Len(rows) + 1 \in DOMAIN Append(rows, row)
  BY <1>1
<1> QED BY <1>1, <1>2 DEF Asked

\* Sources and questions are all that is asked of a row.
LEMMA AskedSame ==
  ASSUME NEW rows \in Seq(Rows), NEW row \in Rows, NEW other \in Rows, NEW q,
         other.question = row.question, other.sources = row.sources
  PROVE  Asked(Append(rows, other), q) = Asked(Append(rows, row), q)
<1>1. ASSUME NEW x \in Rows
      PROVE  /\ DOMAIN Append(rows, x) = 1 .. Len(rows) + 1 /\ Len(rows) \in Nat
             /\ \A i \in 1 .. Len(rows) : Append(rows, x)[i] = rows[i]
             /\ Append(rows, x)[Len(rows) + 1] = x
  OBVIOUS
<1>2. \A i \in 1 .. Len(rows) + 1 :
        /\ Append(rows, other)[i].question = Append(rows, row)[i].question
        /\ Append(rows, other)[i].sources = Append(rows, row)[i].sources
  <2> SUFFICES ASSUME NEW i \in 1 .. Len(rows) + 1
               PROVE  /\ Append(rows, other)[i].question = Append(rows, row)[i].question
                      /\ Append(rows, other)[i].sources = Append(rows, row)[i].sources
    OBVIOUS
  <2>1. i = Len(rows) + 1 \/ i \in 1 .. Len(rows)
    BY <1>1
  <2> QED BY <1>1, <2>1
<1>3. DOMAIN Append(rows, other) = 1 .. Len(rows) + 1 /\ DOMAIN Append(rows, row) = 1 .. Len(rows) + 1
  BY <1>1
<1> QED BY <1>2, <1>3 DEF Asked

\* What a cache was made for stays made for when more rows are begun.
LEMMA CacheMadeMore ==
  ASSUME NEW files, NEW cache, NEW rows, NEW more, CacheMade(files, cache, rows),
         \A q : Asked(rows, q) \subseteq Asked(more, q)
  PROVE  CacheMade(files, cache, more)
BY MadeForMore DEF CacheMade

\* The rows a dataset command works on.
LEMMA RowsAtWork ==
  ASSUME TInv, InBatch, command.makes = "answers"
  PROVE  /\ command \in AnswersMade /\ command.rows \in Seq(Rows)
         /\ command.done \in Seq(AnswerRow) /\ command.done \in Seq(Rows)
         /\ command.rows # << >> => Head(command.rows) \in Rows
<1>1. command \in AnswersMade
  BY BatchCases DEF TInv, TypeOK, InBatch
<1>2. command.rows \in Seq(Rows) /\ command.done \in Seq(AnswerRow)
  BY <1>1 DEF AnswersMade, Batch, Rows
<1> QED BY <1>1, <1>2 DEF Rows

\* Between two calls nothing depends on the rows still to do.
LEMMA IdleCurrent ==
  ASSUME NothingStale, call = Idle, UNCHANGED <<corpus, caches, call>>, command'.done = command.done
  PROVE  NothingStale'
<1>1. /\ CachesCurrent' /\ PromptCurrent' /\ CallCurrent'
  BY DEF NothingStale, CachesCurrent, PromptCurrent, CallCurrent, Idle, caches
<1>2. Begun' = Begun
  BY DEF Begun, Idle
<1> QED BY <1>1, <1>2 DEF NothingStale, caches

\* A call begins.
LEMMA AskCurrent ==
  ASSUME TInv, NothingStale, AskNext
  PROVE  NothingStale'
<1> DEFINE r == Head(command.rows)
<1>1. /\ command.phase = "loop" /\ command.makes = "answers" /\ command.rows # << >>
      /\ Ask(r.question, r.sources) /\ UNCHANGED command
  BY DEF AskNext, Looping
<1>2. call = Idle /\ UNCHANGED <<corpus, file_cache, chunk_cache, answer_cache>>
  BY <1>1 DEF Ask, AskAgain, AskFirst, caches
<1>3. CachesCurrent'
  BY <1>2 DEF NothingStale, CachesCurrent
<1>4. r \in Rows /\ command.done \in Seq(Rows)
  BY <1>1, RowsAtWork DEF InBatch
<1> HIDE DEF r
<1>5. RowsMade(corpus', command'.done)
  BY <1>1, <1>2 DEF NothingStale
<1>6. Begun = command.done /\ (Begun' = command.done \/ Begun' = Append(command.done, r))
  BY <1>1, <1>2 DEF Begun, Idle, r
<1>7. \A q : Asked(Begun, q) \subseteq Asked(Begun', q)
  BY <1>4, <1>6, AskedMore
<1>8. CacheMade(corpus', answer_cache', Begun')
  <2>1. CacheMade(corpus, answer_cache, Begun)
    BY DEF NothingStale
  <2> QED BY <1>2, <1>7, <2>1, CacheMadeMore
<1>9. CASE AskAgain(r.question)
  <2>1. call' = [phase |-> "answered", answer |-> answer_cache[r.question]]
        /\ r.question \in DOMAIN answer_cache
    BY <1>9 DEF AskAgain, Answered
  <2>2. MadeFor(corpus', call'.answer, r.question, Asked(Begun', r.question))
    BY <1>2, <1>8, <2>1 DEF CacheMade
  <2>3. PromptCurrent' /\ CallCurrent'
    BY <1>1, <1>2, <2>1, <2>2 DEF PromptCurrent, CallCurrent, r
  <2> QED BY <1>3, <1>5, <1>8, <2>3 DEF NothingStale
<1>10. CASE AskFirst(r.question, r.sources)
  <2>1. call' = [phase |-> "reading", question |-> r.question, sources |-> r.sources,
                 next |-> 1, prompt |-> << >>, current_char |-> 0]
    BY <1>10 DEF AskFirst, Reading
  <2>2. r.sources \in Seq(Source) /\ corpus \in [Files -> Contents \cup {Unreadable}]
    BY <1>4 DEF Rows, ResultRow, AnswerRow, TInv, TypeOK, GeneratorTypeOK
  <2>3. LengthUpTo(corpus, r.sources)[0] = 0 /\ Used(r.sources) \in Nat
    BY <2>2, LengthFacts
  <2>4. {i \in CanRead(corpus, r.sources) : i < 1} = {}
    BY <2>3 DEF CanRead
  <2>5. PromptCurrent'
    <3>1. 1 \in 1 .. Used(r.sources) + 1 /\ 1 - 1 = 0
      BY <2>3
    <3>2. Lists(corpus, << >>, r.sources, {i \in CanRead(corpus, r.sources) : i < 1})
      BY <2>4, ListsNone
    <3> QED BY <1>2, <2>1, <2>3, <3>1, <3>2 DEF PromptCurrent
  <2>6. CallCurrent'
    BY <1>1, <2>1 DEF CallCurrent, r
  <2> QED BY <1>3, <1>5, <1>8, <2>5, <2>6 DEF NothingStale
<1> QED BY <1>1, <1>9, <1>10 DEF Ask

\* A call goes on, and returns what it was asked for.
LEMMA GeneratingCurrent ==
  ASSUME TInv, NothingStale, command.makes = "answers", Generating
  PROVE  NothingStale'
<1> DEFINE r == Head(command.rows)
<1>1. Generate /\ UNCHANGED command /\ command.phase = "loop" /\ command.rows # << >>
  BY DEF Generating, Looping
<1>2. /\ corpus' = corpus /\ CachesCurrent' /\ PromptCurrent'
      /\ call.phase \in {"reading", "asking"}
      /\ \/ /\ call'.phase \in {"reading", "asking"}
            /\ call'.question = call.question /\ call'.sources = call.sources
            /\ answer_cache' = answer_cache
         \/ AskModel /\ MadeFrom(corpus, call.prompt, call.sources)
  BY <1>1, GenerateMakes DEF NothingStale, TInv, TypeOK, GInv
<1>3. r \in Rows /\ command.done \in Seq(Rows)
  BY <1>1, RowsAtWork DEF InBatch
<1>4. call.question = r.question /\ call.sources = r.sources
  BY <1>2 DEF NothingStale, CallCurrent
<1> HIDE DEF r
<1>5. RowsMade(corpus', command'.done)
  BY <1>1, <1>2 DEF NothingStale
<1>6. Begun = command.done
  BY <1>2 DEF Begun
<1>7. CASE call'.phase \in {"reading", "asking"} /\ call'.question = call.question
           /\ call'.sources = call.sources /\ answer_cache' = answer_cache
  <2>1. CallCurrent'
    BY <1>1, <1>4, <1>7 DEF CallCurrent, r
  <2>2. Begun' = Begun
    BY <1>1, <1>6, <1>7 DEF Begun
  <2>3. CacheMade(corpus', answer_cache', Begun')
    BY <1>2, <1>7, <2>2 DEF NothingStale
  <2> QED BY <1>2, <1>5, <2>1, <2>3 DEF NothingStale
<1>8. CASE AskModel /\ MadeFrom(corpus, call.prompt, call.sources)
  <2> DEFINE answer == [question |-> call.question, prompt |-> call.prompt]
  <2>1. /\ answer_cache' = Stored(answer_cache, r.question, answer)
        /\ call' = [phase |-> "answered", answer |-> answer]
    BY <1>4, <1>8 DEF AskModel, Answered
  <2>2. Begun' = Append(command.done, r)
    BY <1>1, <2>1 DEF Begun, r
  <2>3. MadeFor(corpus, answer, r.question, Asked(Begun', r.question))
    BY <1>3, <1>4, <1>8, <2>2, AskedMore DEF MadeFor
  <2> HIDE DEF answer
  <2>4. CallCurrent'
    BY <1>1, <1>2, <2>1, <2>3 DEF CallCurrent, r
  <2>5. CacheMade(corpus, answer_cache, Begun')
    <3>1. CacheMade(corpus, answer_cache, Begun)
      BY DEF NothingStale
    <3>2. \A q : Asked(Begun, q) \subseteq Asked(Begun', q)
      BY <1>3, <1>6, <2>2, AskedMore
    <3> QED BY <3>1, <3>2, CacheMadeMore
  <2>6. CacheMade(corpus', answer_cache', Begun')
    <3> SUFFICES ASSUME NEW q \in DOMAIN answer_cache'
                 PROVE  MadeFor(corpus, answer_cache'[q], q, Asked(Begun', q))
      BY <1>2 DEF CacheMade
    <3>1. CASE q = r.question
      BY <2>1, <2>3, <3>1 DEF Stored
    <3>2. CASE q # r.question
      <4>1. q \in DOMAIN answer_cache /\ answer_cache'[q] = answer_cache[q]
        BY <2>1, <3>2 DEF Stored
      <4> QED BY <2>5, <4>1 DEF CacheMade
    <3> QED BY <3>1, <3>2
  <2> QED BY <1>2, <1>5, <2>4, <2>6 DEF NothingStale
<1> QED BY <1>2, <1>7, <1>8

\* An answer joins its row, and its sources those that were asked about.
LEMMA TakeAnswerCurrent ==
  ASSUME TInv, NothingStale, TakeAnswer
  PROVE  /\ NothingStale'
         /\ \E row \in AnswerRow :
              /\ command'.done = Append(command.done, row)
              /\ row.id = Head(command.rows).id /\ row.question = Head(command.rows).question
              /\ row.sources = Head(command.rows).sources
              /\ row.answer.question = row.question
<1> DEFINE r == Head(command.rows)
           row == [id |-> r.id, question |-> r.question, sources |-> r.sources,
                   answer |-> call.answer]
<1>1. /\ command.phase = "loop" /\ command.makes = "answers" /\ command.rows # << >>
      /\ call.phase = "answered" /\ call' = Idle
      /\ command' = [command EXCEPT !.rows = Tail(command.rows), !.done = Append(command.done, row)]
      /\ UNCHANGED <<corpus, file_cache, chunk_cache, answer_cache>>
  BY DEF TakeAnswer, Looping, Advance, caches
<1>2. command \in AnswersMade /\ command.done \in Seq(AnswerRow) /\ command.done \in Seq(Rows)
      /\ r \in Rows
  BY <1>1, RowsAtWork DEF InBatch
<1>3. command'.done = Append(command.done, row)
  BY <1>1, <1>2 DEF AnswersMade, Batch
<1>4. /\ row.id = r.id /\ row.question = r.question /\ row.sources = r.sources
      /\ row.answer = call.answer
  OBVIOUS
<1>5. row \in AnswerRow
  BY <1>1, <1>2, CallCases DEF TInv, TypeOK, GeneratorTypeOK, Rows, ResultRow, AnswerRow
<1>6. Begun = Append(command.done, r)
  BY <1>1 DEF Begun
<1>7. MadeFor(corpus, row.answer, row.question, Asked(Begun, row.question))
  BY <1>1, <1>4 DEF NothingStale, CallCurrent
<1> HIDE DEF r, row
<1>8. Begun' = Append(command.done, row)
  BY <1>1, <1>3 DEF Begun, Idle
<1>9. \A q : Asked(Begun', q) = Asked(Begun, q)
  BY <1>2, <1>4, <1>5, <1>6, <1>8, AskedSame DEF Rows
<1>10. CachesCurrent' /\ PromptCurrent' /\ CallCurrent'
  BY <1>1 DEF NothingStale, CachesCurrent, PromptCurrent, CallCurrent, Idle
<1>11. CacheMade(corpus', answer_cache', Begun')
  <2>1. CacheMade(corpus, answer_cache, Begun)
    BY DEF NothingStale
  <2> QED BY <1>1, <1>9, <2>1, CacheMadeMore
<1>12. RowsMade(corpus, command'.done)
  <2>1. /\ DOMAIN command.done = 1 .. Len(command.done) /\ Len(command.done) \in Nat
        /\ DOMAIN command'.done = 1 .. Len(command.done) + 1
        /\ \A i \in DOMAIN command.done : command'.done[i] = command.done[i]
        /\ command'.done[Len(command.done) + 1] = row
    BY <1>2, <1>3, <1>5
  <2> SUFFICES ASSUME NEW i \in DOMAIN command'.done
               PROVE  MadeFor(corpus, command'.done[i].answer, command'.done[i].question,
                              Asked(command'.done, command'.done[i].question))
    BY DEF RowsMade
  <2>2. CASE i = Len(command.done) + 1
    BY <1>3, <1>7, <1>8, <1>9, <2>1, <2>2
  <2>3. CASE i # Len(command.done) + 1
    <3>1. i \in DOMAIN command.done /\ command'.done[i] = command.done[i]
      BY <2>1, <2>3
    <3>2. MadeFor(corpus, command.done[i].answer, command.done[i].question,
                  Asked(command.done, command.done[i].question))
      BY <3>1 DEF NothingStale, RowsMade
    <3>3. Asked(command.done, command.done[i].question) \subseteq
            Asked(command'.done, command.done[i].question)
      BY <1>2, <1>3, <1>5, AskedMore DEF Rows
    <3> QED BY <3>1, <3>2, <3>3, MadeForMore
  <2> QED BY <2>2, <2>3
<1>13. row.answer.question = row.question
  BY <1>7 DEF MadeFor
<1>14. NothingStale'
  BY <1>1, <1>10, <1>11, <1>12 DEF NothingStale
<1> QED BY <1>3, <1>4, <1>5, <1>13, <1>14 DEF r

\* So no step of a quiet answer_dataset makes anything stale.
LEMMA AnswersKept ==
  ASSUME TInv, ProcessOK, AnswersCurrent, [Next]_vars
  PROVE  AnswersCurrent'
<1>1. CASE ~InBatch'
  BY <1>1 DEF AnswersCurrent
<1>2. ASSUME command' = None \/ (\E ok \in BOOLEAN : command' = Exited(ok))
             \/ command'.phase = "indexing"
      PROVE  ~InBatch'
  BY <1>2 DEF None, Exited, InBatch
<1>3. CASE StartIndex \/ PublishNext \/ Indexed \/ Evaluate \/ Proceed \/ Stop \/ Die
           \/ ((Make \/ Clean) /\ command = None)
  <2>1. CASE StartIndex
    BY <2>1, <1>1, <1>2 DEF StartIndex
  <2>2. CASE PublishNext
    <3>1. command \in [phase : {"indexing"}, rows : Seq(Names), generation : Nat]
      BY <2>2, CommandCases DEF PublishNext, TInv, TypeOK
    <3>2. command' = [command EXCEPT !.rows = Tail(@)]
      BY <2>2 DEF PublishNext
    <3>3. command'.phase = "indexing"
      BY <3>1, <3>2
    <3> QED BY <3>3, <1>1, <1>2
  <2>3. CASE Indexed \/ Evaluate \/ Die
    <3>1. \E ok \in BOOLEAN : command' = Exited(ok)
      BY <2>3, EvaluateExits DEF Indexed, Die
    <3> QED BY <3>1, <1>1, <1>2
  <2>4. CASE Proceed \/ Stop \/ ((Make \/ Clean) /\ command = None)
    <3>1. command' = None
      BY <2>4 DEF Proceed, Stop, Make, Clean
    <3> QED BY <3>1, <1>1, <1>2
  <2> QED BY <1>3, <2>1, <2>2, <2>3, <2>4
<1>4. CASE StartSearch
  <2>1. PICK expand \in BOOLEAN : SearchDataset(Dataset(Name), "search_results", expand)
    BY <1>4 DEF StartSearch
  <2>2. CASE command' = Exited(FALSE)
    BY <2>2, <1>1, <1>2
  <2>3. CASE command' # Exited(FALSE)
    <3>1. command'.makes = "results"
      BY <2>1, <2>3 DEF SearchDataset
    <3> QED BY <3>1 DEF AnswersCurrent
  <2> QED BY <2>2, <2>3
<1>5. CASE StartAnswer
  <2>1. NewGenerator /\ command'.done = << >>
    BY <1>5 DEF StartAnswer, AnswerDataset
  <2>2. call' = Idle /\ file_cache' = EmptyCache /\ chunk_cache' = EmptyCache
        /\ answer_cache' = EmptyCache /\ DOMAIN EmptyCache = {}
    BY <2>1 DEF NewGenerator, EmptyCache
  <2>3. CachesCurrent' /\ PromptCurrent' /\ CallCurrent'
    BY <2>2 DEF CachesCurrent, PromptCurrent, CallCurrent, Idle
  <2>4. RowsMade(corpus', command'.done) /\ CacheMade(corpus', answer_cache', Begun')
    BY <2>1, <2>2 DEF RowsMade, CacheMade
  <2> QED BY <2>3, <2>4 DEF AnswersCurrent, NothingStale
<1>6. CASE BatchStep /\ UNCHANGED makeVars
  <2>1. CASE command'.makes # "answers" \/ ~quiet
    BY <1>6, <2>1 DEF AnswersCurrent, makeVars
  <2>2. CASE command'.makes = "answers" /\ quiet /\ InBatch'
    <3>1. InBatch /\ command.makes = "answers"
      BY <1>6, <2>2, BatchMoves, <1>2 DEF SameWork
    <3>2. NothingStale /\ CallOK
      BY <2>2, <3>1 DEF AnswersCurrent, TInv, TypeOK, GeneratorTypeOK
    <3>3. CASE NoInput \/ BadInput \/ EndWrite
      <4>1. \E ok \in BOOLEAN : command' = Exited(ok)
        BY <3>3 DEF NoInput, BadInput, EndWrite
      <4> QED BY <4>1, <1>1, <1>2
    <3>4. CASE SearchNext
      BY <3>1, <3>4 DEF SearchNext, Looping
    <3>5. CASE ReadInput \/ BeginWrite
      <4>1. call.phase = "idle" /\ UNCHANGED <<corpus, caches, call>>
        BY <3>2, <3>5 DEF NothingStale, CallCurrent, ReadInput, BeginWrite
      <4>2. call = Idle
        BY <3>2, <4>1 DEF CallOK
      <4>3. command'.done = command.done
        <5>1. command \in AnswersMade
          BY <3>1, RowsAtWork
        <5> QED BY <3>5, <5>1 DEF ReadInput, BeginWrite, AnswersMade, Batch
      <4> QED BY <3>2, <4>1, <4>2, <4>3, IdleCurrent DEF AnswersCurrent
    <3>6. CASE AskNext
      BY <3>2, <3>6, AskCurrent DEF AnswersCurrent
    <3>7. CASE Generating
      BY <3>1, <3>2, <3>7, GeneratingCurrent DEF AnswersCurrent
    <3>8. CASE TakeAnswer
      BY <3>2, <3>8, TakeAnswerCurrent DEF AnswersCurrent
    <3> QED BY <1>6, <3>3, <3>4, <3>5, <3>6, <3>7, <3>8 DEF BatchStep
  <2> QED BY <1>1, <2>1, <2>2
<1>7. CASE EditCorpus \/ EditDataset
  BY <1>7 DEF EditCorpus, EditDataset, AnswersCurrent
<1>8. CASE UNCHANGED vars
  BY <1>8 DEF vars, makeVars, caches, AnswersCurrent, InBatch, NothingStale, CachesCurrent,
              PromptCurrent, CallCurrent, RowsMade, CacheMade, Begun
<1>9. Make \/ Clean => command = None
  BY DEF Make, Clean, ProcessOK
<1> QED BY <1>3, <1>4, <1>5, <1>6, <1>7, <1>8, <1>9 DEF Next, Step

-----------------------------------------------------------------------------
\* Nothing that the lines of a run leave is out of date.

\* The files of a dataset are three, and another dataset has others.
LEMMA PathsApart ==
  ASSUME NEW m, NEW n
  PROVE  /\ Dataset(m) # Results(n) /\ Dataset(m) # Answers(n) /\ Results(m) # Answers(n)
         /\ m # n => Results(m) # Results(n) /\ Answers(m) # Answers(n)
<1>1. /\ Dataset(m)[1] = "UnansweredQuestions" /\ Results(m)[1] = "search_results"
      /\ Results(n)[1] = "search_results" /\ Answers(n)[1] = "search_results_and_answer"
  BY DEF Dataset, Results, Answers
<1>2. Results(m)[2] = m /\ Results(n)[2] = n /\ Answers(m)[2] = m /\ Answers(n)[2] = n
  BY DEF Results, Answers
<1> QED BY <1>1, <1>2

\* The line being run is the first.
LEMMA FirstLine ==
  ASSUME MakeOK, todo # << >>
  PROVE  1 \in DOMAIN todo /\ todo[1] = Head(todo) /\ todo[1] = Line(Head(todo).op, Name)
         /\ Name \in Names
<1>1. todo \in Seq(Lines) /\ Head(todo) \in Lines
  BY DEF MakeOK
<1>2. Head(todo) = Line(Head(todo).op, Head(todo).name) /\ Head(todo).name \in Names
  BY <1>1 DEF Lines, Line
<1> QED BY <1>1, <1>2 DEF Name

\* What cannot have run yet, and what must have.
LEMMA RecipeSays ==
  ASSUME MakeOK, RecipeOK, todo # << >>
  PROVE  /\ Head(todo).op = "index" =>
              \A n \in Names : ~HasRun("search", n) /\ ~HasRun("answer", n)
         /\ Head(todo).op = "search" => ~HasRun("search", Name) /\ ~HasRun("answer", Name)
         /\ Head(todo).op = "answer" => /\ ~HasRun("answer", Name)
                                        /\ \A n \in Names : HasRun("search", n)
<1>1. 1 \in DOMAIN todo /\ todo[1] = Head(todo) /\ todo[1] = Line(Head(todo).op, Name)
      /\ DOMAIN todo = 1 .. Len(todo) /\ Len(todo) \in Nat
  BY FirstLine DEF MakeOK
<1>2. ASSUME NEW i \in DOMAIN todo, NEW n \in Names, todo[i] = Line("search", n)
      PROVE  ~HasRun("search", n) /\ ~HasRun("answer", n)
  <2>1. todo[i].op = "search" /\ todo[i].name = n
    BY <1>2 DEF Line
  <2>2. \E j \in DOMAIN todo : todo[j] = Line("answer", n)
    BY <2>1 DEF RecipeOK
  <2> QED BY <1>2, <2>2 DEF HasRun
<1>3. ASSUME Head(todo).op = "index", NEW n \in Names
      PROVE  ~HasRun("search", n) /\ ~HasRun("answer", n)
  <2>1. \E j \in DOMAIN todo : todo[j] = Line("search", n)
    BY <1>1, <1>3 DEF RecipeOK
  <2> QED BY <1>2, <2>1
<1>4. ASSUME Head(todo).op = "search"
      PROVE  ~HasRun("search", Name) /\ ~HasRun("answer", Name)
  BY <1>1, <1>2, <1>4, FirstLine
<1>5. ASSUME Head(todo).op = "answer"
      PROVE  ~HasRun("answer", Name)
  BY <1>1, <1>5 DEF HasRun
<1>6. ASSUME Head(todo).op = "answer", NEW n \in Names, NEW i \in DOMAIN todo
      PROVE  todo[i] # Line("search", n)
  <2>1. Stage(todo[1].op) = 3
    BY <1>1, <1>6 DEF Stage
  <2>2. i = 1 \/ Stage(todo[1].op) <= Stage(todo[i].op)
    BY <1>1, <1>6 DEF RecipeOK
  <2>3. Stage(Line("search", n).op) = 2
    BY DEF Line, Stage
  <2> QED BY <2>1, <2>2, <2>3
<1> QED BY <1>3, <1>4, <1>5, <1>6 DEF HasRun

\* While nothing is written only a line that has ended well can add to what
\* must be fresh.
LEMMA LeftAsItWas ==
  ASSUME LinesLeft, UNCHANGED <<corpus, index, json>>,
         \A n \in Names : /\ Run("search", n)' => Run("search", n)
                          /\ Run("answer", n)' => Run("answer", n)
  PROVE  LinesLeft'
<1>1. ASSUME NEW n \in Names
      PROVE  /\ ResultsFresh(n)' = ResultsFresh(n) /\ AnswersFresh(n)' = AnswersFresh(n)
             /\ json'[Dataset(n)] = json[Dataset(n)]
  BY DEF ResultsFresh, AnswersFresh, FoundFor, OwnSourcesUsed
<1> QED BY <1>1 DEF LinesLeft

\* No line is done by a command that has not ended well.
LEMMA NoneDone ==
  ASSUME UNCHANGED todo, command' # Exited(TRUE), NEW op, NEW n, Run(op, n)'
  PROVE  HasRun(op, n) /\ Run(op, n)
BY DEF Run, HasRun

\* The steps of make and of the commands that are no dataset commands.
LEMMA MakeOutputs ==
  ASSUME TInv, RecipeOK, ProcessOK, OutputsFresh, quiet', todo' # << >> \/ complete',
         StartIndex \/ PublishNext \/ Indexed \/ Evaluate \/ Proceed \/ Stop \/ Make \/ Clean
           \/ (Die /\ UNCHANGED makeVars)
  PROVE  LinesLeft' /\ ~InBatch'
<1>1. MakeOK /\ CommandOK
  BY DEF TInv, TypeOK
<1>2. ASSUME command' = None \/ (\E ok \in BOOLEAN : command' = Exited(ok))
             \/ command'.phase = "indexing"
      PROVE  ~InBatch'
  BY <1>2 DEF None, Exited, InBatch
<1>3. CASE StartIndex \/ Indexed \/ Evaluate
  <2>1. UNCHANGED <<corpus, index, json, makeVars>> /\ todo # << >>
        /\ Head(todo).op \in {"index", "evaluate"}
    <3>1. UNCHANGED <<corpus, index, json, makeVars>>
          /\ ((todo # << >> /\ Head(todo).op \in {"index", "evaluate"}) \/ command.phase = "indexing")
      BY <1>3 DEF StartIndex, Indexed, Evaluate, Runs
    <3> QED BY <3>1, Busy DEF ProcessOK
  <2>2. ~InBatch'
    <3>1. StartIndex => command'.phase = "indexing"
      BY DEF StartIndex
    <3>2. Indexed \/ Evaluate => \E ok \in BOOLEAN : command' = Exited(ok)
      BY EvaluateExits DEF Indexed
    <3> QED BY <3>1, <3>2, <1>2, <1>3
  <2>3. ASSUME NEW op \in {"search", "answer"}, NEW n \in Names, Run(op, n)'
        PROVE  Run(op, n)
    <3>1. Head(todo) # Line(op, n)
      BY <2>1 DEF Line
    <3> QED BY <2>1, <2>3, <3>1 DEF Run, HasRun, makeVars
  <2>4. LinesLeft
    BY <2>1 DEF OutputsFresh, makeVars
  <2> QED BY <2>1, <2>2, <2>3, <2>4, LeftAsItWas
<1>4. CASE PublishNext
  <2>1. UNCHANGED todo /\ command.phase = "indexing"
    BY <1>4 DEF PublishNext, makeVars
  <2>2. command'.phase = "indexing"
    <3>1. command \in [phase : {"indexing"}, rows : Seq(Names), generation : Nat]
      BY <1>1, <1>4, CommandCases DEF PublishNext
    <3>2. command' = [command EXCEPT !.rows = Tail(@)]
      BY <1>4 DEF PublishNext
    <3> QED BY <3>1, <3>2
  <2>3. todo # << >> /\ Head(todo).op = "index"
    BY <2>1, Busy DEF ProcessOK
  <2>4. command' # Exited(TRUE)
    BY <2>2 DEF Exited
  <2>5. \A n \in Names : ~Run("search", n)' /\ ~Run("answer", n)'
    BY <1>1, <2>1, <2>3, <2>4, NoneDone, RecipeSays
  <2> QED BY <1>2, <2>2, <2>5 DEF LinesLeft
<1>5. CASE Proceed
  <2>1. /\ UNCHANGED <<corpus, index, json, quiet>> /\ command = Exited(TRUE) /\ todo # << >>
        /\ command' = None /\ todo' = Tail(todo)
    BY <1>5 DEF Proceed
  <2>2. LinesLeft
    BY <2>1 DEF OutputsFresh
  <2>3. ASSUME NEW op, NEW n, Run(op, n)'
        PROVE  Run(op, n)
    <3>1. HasRun(op, n)'
      BY <2>1, <2>3 DEF Run, None, Exited
    <3>2. todo \in Seq(Lines)
      BY <1>1 DEF MakeOK
    <3>3. ASSUME NEW i \in DOMAIN todo, i # 1
          PROVE  i - 1 \in DOMAIN todo' /\ todo'[i - 1] = todo[i]
      BY <2>1, <3>2, <3>3
    <3>4. \A i \in DOMAIN todo : i # 1 => todo[i] # Line(op, n)
      BY <3>1, <3>3 DEF HasRun
    <3>5. todo[1] = Head(todo)
      BY <1>1, <2>1, FirstLine
    <3> QED BY <2>1, <3>4, <3>5 DEF Run, HasRun
  <2> QED BY <1>2, <2>1, <2>2, <2>3, LeftAsItWas
<1>6. CASE Stop
  <2>1. todo # << >> /\ todo' = << >> /\ UNCHANGED complete
    BY <1>6 DEF Stop, ProcessOK, None, Exited
  <2> QED BY <2>1 DEF RecipeOK
<1>7. CASE Make
  <2>1. command' = None /\ todo' = pipeline
    BY <1>7 DEF Make, ProcessOK
  <2>2. ASSUME NEW op \in {"search", "answer"}, NEW n \in Names
        PROVE  ~HasRun(op, n)'
    <3>1. PICK k \in 1 .. Len(NameOrder) : NameOrder[k] = n
      BY PipelineAssumption DEF Range
    <3>2. \E i \in DOMAIN pipeline : pipeline[i] = Line(op, n)
      <4>1. Len(NameOrder) \in Nat /\ 1 + k \in 1 .. 1 + 3 * Len(NameOrder)
            /\ 1 + Len(NameOrder) + k \in 1 .. 1 + 3 * Len(NameOrder)
        BY PipelineAssumption
      <4> QED BY <3>1, <4>1, RecipeLines
    <3> QED BY <2>1, <3>2 DEF HasRun
  <2>3. \A n \in Names : ~Run("search", n)' /\ ~Run("answer", n)'
    BY <2>1, <2>2 DEF Run, None, Exited
  <2> QED BY <1>2, <2>1, <2>3 DEF LinesLeft
<1>8. CASE Clean
  BY <1>8 DEF Clean
<1>9. CASE Die /\ UNCHANGED makeVars
  <2>1. UNCHANGED <<corpus, index, json, todo, quiet, complete>> /\ command' = Exited(FALSE)
    BY <1>9 DEF Die, makeVars
  <2>2. command' # Exited(TRUE)
    BY <2>1 DEF Exited
  <2>3. LinesLeft
    BY <2>1 DEF OutputsFresh
  <2> QED BY <1>2, <2>1, <2>2, <2>3, NoneDone, LeftAsItWas
<1> QED BY <1>3, <1>4, <1>5, <1>6, <1>7, <1>8, <1>9

\* A dataset command begins with nothing done.
LEMMA StartOutputs ==
  ASSUME TInv, OutputsFresh, quiet', todo' # << >> \/ complete', StartSearch \/ StartAnswer
  PROVE  LinesLeft' /\ WorkInHand'
<1>1. /\ UNCHANGED <<corpus, index, json, makeVars>>
      /\ \/ command' = Exited(FALSE)
         \/ command'.phase = "open" /\ command'.done = << >>
  <2>1. CASE StartSearch
    <3>1. PICK expand \in BOOLEAN : SearchDataset(Dataset(Name), "search_results", expand)
      BY <2>1 DEF StartSearch
    <3>2. UNCHANGED <<corpus, index, json, makeVars>>
      BY <2>1, <3>1 DEF StartSearch, SearchDataset
    <3> QED BY <3>1, <3>2 DEF SearchDataset
  <2>2. CASE StartAnswer
    BY <2>2 DEF StartAnswer, AnswerDataset
  <2> QED BY <2>1, <2>2
<1>2. LinesLeft
  BY <1>1 DEF OutputsFresh, makeVars
<1>3. command' # Exited(TRUE)
  BY <1>1 DEF Exited
<1>4. LinesLeft'
  BY <1>1, <1>2, <1>3, NoneDone, LeftAsItWas DEF makeVars
<1>5. CASE command' = Exited(FALSE)
  BY <1>4, <1>5 DEF WorkInHand, InBatch, Exited
<1>6. CASE command'.phase = "open" /\ command'.done = << >>
  BY <1>4, <1>6 DEF WorkInHand, Between, FoundFor, AnswersTo
<1> QED BY <1>1, <1>5, <1>6

\* A list with a row more.
OneMore(more, done, row) ==
  /\ Len(done) \in Nat /\ DOMAIN more = 1 .. Len(done) + 1
  /\ \A i \in 1 .. Len(done) : i \in DOMAIN done /\ more[i] = done[i]
  /\ more[Len(done) + 1] = row

\* One row done is one fewer to do.
LEMMA OneRowDone ==
  ASSUME NEW R, NEW D, NEW rows \in Seq(R), rows # << >>, NEW done \in Seq(D), NEW row \in D,
         NEW input, Splits(input, done, rows)
  PROVE  /\ Splits(input, Append(done, row), Tail(rows))
         /\ Head(rows) = input[Len(done) + 1]
         /\ OneMore(Append(done, row), done, row)
<1>1. /\ Len(rows) \in Nat \ {0} /\ Len(done) \in Nat /\ DOMAIN rows = 1 .. Len(rows)
      /\ DOMAIN done = 1 .. Len(done)
      /\ Len(Tail(rows)) = Len(rows) - 1 /\ DOMAIN Tail(rows) = 1 .. Len(rows) - 1
      /\ \A i \in 1 .. Len(rows) - 1 : Tail(rows)[i] = rows[i + 1]
      /\ Head(rows) = rows[1]
  OBVIOUS
<1>2. /\ Len(Append(done, row)) = Len(done) + 1 /\ DOMAIN Append(done, row) = 1 .. Len(done) + 1
      /\ \A i \in 1 .. Len(done) : Append(done, row)[i] = done[i]
      /\ Append(done, row)[Len(done) + 1] = row
  OBVIOUS
<1>3. ASSUME NEW i \in DOMAIN Tail(rows)
      PROVE  Tail(rows)[i] = input[Len(Append(done, row)) + i]
  <2>1. i \in Nat /\ i + 1 \in DOMAIN rows /\ Tail(rows)[i] = rows[i + 1]
    BY <1>1
  <2>2. Len(done) + (i + 1) = Len(Append(done, row)) + i
    BY <1>1, <1>2, <2>1
  <2>3. rows[i + 1] = input[Len(done) + (i + 1)]
    BY <2>1 DEF Splits
  <2> QED BY <2>1, <2>2, <2>3
<1>4. Len(Append(done, row)) + Len(Tail(rows)) = Len(done) + Len(rows)
  BY <1>1, <1>2
<1>5. Head(rows) = input[Len(done) + 1]
  BY <1>1 DEF Splits
<1>6. OneMore(Append(done, row), done, row)
  BY <1>1, <1>2 DEF OneMore
<1> QED BY <1>3, <1>4, <1>5, <1>6 DEF Splits

\* The dataset command at work has a line, and the input it was given.
LEMMA AtWork ==
  ASSUME TInv, ProcessOK, InBatch, UNCHANGED makeVars
  PROVE  /\ MakeOK /\ todo # << >> /\ Name \in Names /\ Name' = Name /\ UNCHANGED todo
         /\ \/ /\ command \in Searches /\ command.makes = "results" /\ Head(todo).op = "search"
               /\ command.path = Dataset(Name) /\ command.save = Results(Name)
               /\ command.generation = index[Name]
            \/ /\ command \in AnswersMade /\ command.makes = "answers" /\ Head(todo).op = "answer"
               /\ command.path = Results(Name) /\ command.save = Answers(Name)
         /\ Head(todo) = Line(Head(todo).op, Name)
<1>1. MakeOK /\ UNCHANGED todo
  BY DEF TInv, TypeOK, makeVars
<1>2. todo # << >> /\ Name' = Name
  BY <1>1 DEF ProcessOK, InBatch, None, Name
<1>3. \/ command \in Searches /\ command.makes = "results"
      \/ command \in AnswersMade /\ command.makes = "answers"
  BY BatchCases DEF TInv, TypeOK, InBatch
<1> QED BY <1>1, <1>2, <1>3, FirstLine DEF ProcessOK

\* A row is searched for.
LEMMA SearchNextOutputs ==
  ASSUME TInv, RecipeOK, ProcessOK, LinesLeft, WorkInHand, SearchNext, UNCHANGED makeVars
  PROVE  LinesLeft' /\ WorkInHand'
<1> DEFINE q == Head(command.rows)
           row == Result(q.id, q.question, Found(Query(q.question, command.expand)))
           input == json[Dataset(Name)].rows
<1>1. /\ command.phase = "loop" /\ command.makes = "results" /\ command.rows # << >>
      /\ command' = [command EXCEPT !.rows = Tail(command.rows), !.done = Append(command.done, row)]
      /\ UNCHANGED <<corpus, index, json>>
  BY DEF SearchNext, Looping, Advance
<1>2. /\ command \in Searches /\ Name \in Names /\ Name' = Name /\ UNCHANGED todo
      /\ command.path = Dataset(Name) /\ command.generation = index[Name]
  BY <1>1, AtWork DEF InBatch, Searches, Batch
<1>3. command.rows \in Seq(QuestionRow) /\ command.done \in Seq(ResultRow)
      /\ command.path[2] = Name
  BY <1>2 DEF Searches, Batch, Dataset
<1>4. row \in ResultRow
  <2>1. q \in QuestionRow /\ command.expand \in BOOLEAN /\ command.generation \in Nat
    BY <1>1, <1>2, <1>3 DEF Searches, Batch
  <2>2. Query(q.question, command.expand) \in Questions
    BY <2>1, BatchAssumption DEF Query, QuestionRow
  <2>3. Found(Query(q.question, command.expand)) \in Seq(Source)
    BY <1>2, <1>3, <2>1, <2>2, FoundType DEF Found
  <2> QED BY <2>1, <2>3 DEF Result, ResultRow, QuestionRow
<1>5. row = Result(q.id, q.question,
                   FoundIn(Name, index[Name], Query(q.question, command.expand)))
  BY <1>2, <1>3 DEF Found
<1> HIDE DEF row
<1>6. /\ command'.rows = Tail(command.rows) /\ command'.done = Append(command.done, row)
      /\ command'.phase = "loop" /\ command'.makes = "results" /\ command'.expand = command.expand
  BY <1>1, <1>2 DEF Searches, Batch
<1>7. LinesLeft'
  <2>1. command' # Exited(TRUE)
    BY <1>6 DEF Exited
  <2> QED BY <1>1, <1>2, <2>1, NoneDone, LeftAsItWas
<1>8. Splits(input, command.done, command.rows)
      /\ FoundFor(Name, input, command.expand, command.done)
  BY <1>1 DEF WorkInHand, InBatch, Between
<1> HIDE DEF input
<1>9. /\ Splits(input, command'.done, command'.rows) /\ q = input[Len(command.done) + 1]
      /\ OneMore(command'.done, command.done, row)
  BY <1>1, <1>3, <1>4, <1>6, <1>8, OneRowDone
<1>10. ASSUME NEW i \in DOMAIN command'.done
       PROVE  command'.done[i] =
                Result(input[i].id, input[i].question,
                       FoundIn(Name, index[Name], Query(input[i].question, command.expand)))
  <2>1. i = Len(command.done) + 1 \/ i \in 1 .. Len(command.done)
    BY <1>9 DEF OneMore
  <2>2. CASE i = Len(command.done) + 1
    BY <1>5, <1>9, <2>2 DEF OneMore
  <2>3. CASE i \in 1 .. Len(command.done)
    BY <1>8, <1>9, <2>3 DEF FoundFor, OneMore
  <2> QED BY <2>1, <2>2, <2>3
<1>11. WorkInHand'
  BY <1>1, <1>2, <1>6, <1>9, <1>10 DEF WorkInHand, Between, FoundFor, input
<1> QED BY <1>7, <1>11

\* A row is answered, with an answer to its question.
LEMMA TakeAnswerOutputs ==
  ASSUME TInv, RecipeOK, ProcessOK, NothingStale, LinesLeft, WorkInHand, TakeAnswer,
         UNCHANGED makeVars
  PROVE  LinesLeft' /\ WorkInHand'
<1> DEFINE r == Head(command.rows)
           results == json[Results(Name)].rows
<1>1. /\ command.phase = "loop" /\ command.makes = "answers" /\ command.rows # << >>
      /\ UNCHANGED <<corpus, index, json>>
      /\ \E row : command' = [command EXCEPT !.rows = Tail(command.rows),
                                             !.done = Append(command.done, row)]
  BY DEF TakeAnswer, Looping, Advance
<1>2. command \in AnswersMade /\ Name \in Names /\ Name' = Name /\ UNCHANGED todo
  BY <1>1, AtWork DEF InBatch, AnswersMade, Batch
<1>3. PICK row \in AnswerRow :
        /\ command'.done = Append(command.done, row)
        /\ row.id = r.id /\ row.question = r.question /\ row.sources = r.sources
        /\ row.answer.question = row.question
  BY TakeAnswerCurrent
<1>4. command.rows \in Seq(Rows) /\ command.done \in Seq(AnswerRow)
  BY <1>1, RowsAtWork DEF InBatch
<1>5. command'.rows = Tail(command.rows) /\ command'.phase = "loop" /\ command'.makes = "answers"
  BY <1>1, <1>2 DEF AnswersMade, Batch
<1>6. LinesLeft'
  <2>1. command' # Exited(TRUE)
    BY <1>5 DEF Exited
  <2> QED BY <1>1, <1>2, <2>1, NoneDone, LeftAsItWas
<1>7. Splits(results, command.done, command.rows) /\ AnswersTo(results, command.done)
  BY <1>1 DEF WorkInHand, InBatch, Between
<1> HIDE DEF results
<1>8. /\ Splits(results, command'.done, command'.rows) /\ r = results[Len(command.done) + 1]
      /\ OneMore(command'.done, command.done, row)
  BY <1>1, <1>3, <1>4, <1>5, <1>7, OneRowDone
<1> HIDE DEF r
<1>9. AnswersTo(results, command'.done)
  <2> SUFFICES ASSUME NEW i \in DOMAIN command'.done
               PROVE  /\ Result(command'.done[i].id, command'.done[i].question,
                                command'.done[i].sources) =
                           Result(results[i].id, results[i].question, results[i].sources)
                      /\ command'.done[i].answer.question = results[i].question
    BY DEF AnswersTo
  <2>1. i = Len(command.done) + 1 \/ i \in 1 .. Len(command.done)
    BY <1>8 DEF OneMore
  <2>2. CASE i = Len(command.done) + 1
    BY <1>3, <1>8, <2>2 DEF OneMore
  <2>3. CASE i \in 1 .. Len(command.done)
    BY <1>7, <1>8, <2>3 DEF AnswersTo, OneMore
  <2> QED BY <2>1, <2>2, <2>3
<1>10. WorkInHand'
  BY <1>1, <1>2, <1>5, <1>8, <1>9 DEF WorkInHand, Between, results
<1> QED BY <1>6, <1>10

\* A call touches neither the disk nor the rows.
LEMMA CallOutputs ==
  ASSUME TInv, ProcessOK, LinesLeft, WorkInHand, AskNext \/ Generating, UNCHANGED makeVars
  PROVE  LinesLeft' /\ WorkInHand'
<1>1. UNCHANGED <<index, json, command>> /\ command.phase = "loop"
  BY DEF AskNext, Generating, Looping
<1>2. UNCHANGED todo /\ Name' = Name
  BY DEF makeVars, Name
<1>3. WorkInHand'
  BY <1>1, <1>2 DEF WorkInHand, Between, InBatch, FoundFor
<1>4. command' # Exited(TRUE)
  BY <1>1 DEF Exited
<1>5. UNCHANGED corpus
  <2>1. CASE AskNext
    BY <2>1 DEF AskNext, Ask, AskAgain, AskFirst
  <2>2. CASE Generating
    <3>1. TakeSource => UNCHANGED corpus
      BY DEF TakeSource, ReadSource
    <3>2. StopAtBudget => UNCHANGED corpus
      BY DEF StopAtBudget, ReadSource
    <3>3. SkipSource => UNCHANGED corpus
      BY DEF SkipSource
    <3>4. AskModel => UNCHANGED corpus
      BY DEF AskModel
    <3> QED BY <2>2, <3>1, <3>2, <3>3, <3>4 DEF Generating, Generate
  <2> QED BY <2>1, <2>2
<1> QED BY <1>1, <1>2, <1>3, <1>4, <1>5, NoneDone, LeftAsItWas

\* An input is read, or there is none: then its dataset has no questions.
LEMMA InputOutputs ==
  ASSUME TInv, RecipeOK, ProcessOK, LinesLeft, WorkInHand, NoInput \/ BadInput \/ ReadInput,
         UNCHANGED makeVars
  PROVE  LinesLeft' /\ WorkInHand'
<1>1. command.phase = "open" /\ InBatch /\ UNCHANGED <<corpus, index, json>>
  BY DEF NoInput, BadInput, ReadInput, InBatch
<1>2. /\ MakeOK /\ todo # << >> /\ Name \in Names /\ Name' = Name /\ UNCHANGED todo
      /\ \/ /\ command \in Searches /\ command.makes = "results" /\ Head(todo).op = "search"
            /\ command.path = Dataset(Name)
         \/ /\ command \in AnswersMade /\ command.makes = "answers" /\ Head(todo).op = "answer"
            /\ command.path = Results(Name)
  BY <1>1, AtWork
<1>3. CASE NoInput
  <2>1. command' = Exited(TRUE) /\ json[command.path].kind \in {"missing", "torn"}
    BY <1>3 DEF NoInput, Opened
  <2>2. WorkInHand'
    BY <2>1 DEF WorkInHand, InBatch, Exited
  <2>3. ASSUME NEW op \in {"search", "answer"}, NEW n \in Names,
               json[Dataset(n)].kind = "questions", Run(op, n)'
        PROVE  HasRun(op, n)
    <3>1. CASE HasRun(op, n)'
      BY <1>2, <3>1 DEF HasRun
    <3>2. CASE Head(todo) = Line(op, n)
      <4>1. n = Name /\ Head(todo).op = op
        BY <3>2 DEF Line, Name
      <4>2. command.path = Results(n) /\ op = "answer"
        BY <1>2, <2>1, <2>3, <4>1
      <4>3. Run("search", n)
        BY <1>2, <4>1, <4>2, RecipeSays DEF Run
      <4>4. json[Results(n)].kind = "results"
        BY <2>3, <4>3 DEF LinesLeft, ResultsFresh
      <4> QED BY <2>1, <4>2, <4>4
    <3> QED BY <1>2, <2>3, <3>1, <3>2 DEF Run
  <2>4. LinesLeft'
    <3>1. ASSUME NEW n \in Names
          PROVE  /\ ResultsFresh(n)' = ResultsFresh(n) /\ AnswersFresh(n)' = AnswersFresh(n)
                 /\ json'[Dataset(n)] = json[Dataset(n)]
      BY <1>1 DEF ResultsFresh, AnswersFresh, FoundFor, OwnSourcesUsed
    <3> QED BY <2>3, <3>1 DEF LinesLeft, Run
  <2> QED BY <2>2, <2>4
<1>4. CASE BadInput
  <2>1. command' = Exited(FALSE) /\ command' # Exited(TRUE)
    BY <1>4 DEF BadInput, Exited
  <2>2. WorkInHand'
    BY <2>1 DEF WorkInHand, InBatch, Exited
  <2> QED BY <1>1, <1>2, <2>1, <2>2, NoneDone, LeftAsItWas
<1>5. CASE ReadInput
  <2> DEFINE input == json[command.path].rows
  <2>1. /\ command'.phase = "loop" /\ command'.rows = input /\ command'.done = command.done
        /\ command'.makes = command.makes /\ command'.expand = command.expand
    BY <1>2, <1>5 DEF ReadInput, Searches, AnswersMade, Batch
  <2>2. command' # Exited(TRUE)
    BY <2>1 DEF Exited
  <2>3. LinesLeft'
    BY <1>1, <1>2, <2>2, NoneDone, LeftAsItWas
  <2>4. command.done = << >>
    BY <1>1, <1>2 DEF WorkInHand, Between
  <2>5. \E S : input \in Seq(S)
    <3>1. command.path \in Path /\ json[command.path].kind \in {"questions", "results", "answers"}
          /\ FileOK(json[command.path])
      BY <1>2, <1>5 DEF ReadInput, Opened, Readable, Searches, AnswersMade, Batch, TInv, TypeOK,
                        DiskOK
    <3> QED BY <3>1 DEF FileOK, Missing, Torn
  <2>6. Splits(input, command'.done, command'.rows)
    <3> HIDE DEF input
    <3>1. Len(input) \in Nat /\ DOMAIN input = 1 .. Len(input)
      BY <2>5
    <3> QED BY <2>1, <2>4, <3>1 DEF Splits
  <2>7. WorkInHand'
    BY <1>1, <1>2, <2>1, <2>4, <2>6 DEF WorkInHand, Between, FoundFor, AnswersTo
  <2> QED BY <2>3, <2>7
<1> QED BY <1>3, <1>4, <1>5

\* What is written anew may be out of date only where nothing is to be fresh yet.
LEMMA LeftElsewhere ==
  ASSUME MakeOK, todo # << >>, RecipeOK, LinesLeft, UNCHANGED <<corpus, index>>,
         Head(todo).op \in {"search", "answer"}, NEW file,
         json' = [json EXCEPT ![IF Head(todo).op = "search" THEN Results(Name)
                                                            ELSE Answers(Name)] = file],
         DOMAIN json = Path, NEW op \in {"search", "answer"}, NEW n \in Names,
         json'[Dataset(n)].kind = "questions", HasRun(op, n)
  PROVE  /\ op = "search" => ResultsFresh(n)'
         /\ op = "answer" => AnswersFresh(n)'
<1>1. /\ json'[Dataset(n)] = json[Dataset(n)]
      /\ Head(todo).op = "answer" \/ n # Name => json'[Results(n)] = json[Results(n)]
      /\ Head(todo).op = "search" \/ n # Name => json'[Answers(n)] = json[Answers(n)]
  BY PathsApart
<1>2. CASE op = "search"
  <2>1. Head(todo).op = "answer" \/ n # Name
    BY <1>2, RecipeSays
  <2>2. ResultsFresh(n)
    BY <1>1, <1>2 DEF LinesLeft, Run
  <2> QED BY <1>1, <1>2, <2>1, <2>2 DEF ResultsFresh, FoundFor
<1>3. CASE op = "answer"
  <2>1. n # Name
    BY <1>3, RecipeSays
  <2>2. AnswersFresh(n)
    BY <1>1, <1>3 DEF LinesLeft, Run
  <2> QED BY <1>1, <1>3, <2>1, <2>2 DEF AnswersFresh, OwnSourcesUsed
<1> QED BY <1>2, <1>3

\* Results found by one index for one kind of query give equal questions equal
\* sources, so that an answer made for any row with a question is one made from
\* the sources of every such row.
LEMMA OwnSourcesKnown ==
  ASSUME NEW n, ResultsFresh(n), NEW done \in Seq(AnswerRow),
         Len(done) = Len(json[Results(n)].rows), json[Results(n)].rows \in Seq(ResultRow),
         AnswersTo(json[Results(n)].rows, done), RowsMade(corpus, done)
  PROVE  OwnSourcesUsed(done)
<1> DEFINE results   == json[Results(n)].rows
           questions == json[Dataset(n)].rows
<1>1. PICK expand \in BOOLEAN : FoundFor(n, questions, expand, results)
  BY DEF ResultsFresh
<1>2. DOMAIN done = DOMAIN results
  OBVIOUS
<1>3. ASSUME NEW i \in DOMAIN done
      PROVE  /\ done[i].question = questions[i].question
             /\ done[i].sources = FoundIn(n, index[n], Query(done[i].question, expand))
  <2>1. /\ done[i].question = results[i].question
        /\ done[i].sources = results[i].sources
    BY DEF AnswersTo, Result
  <2>2. results[i] = Result(questions[i].id, questions[i].question,
                            FoundIn(n, index[n], Query(questions[i].question, expand)))
    BY <1>1, <1>2 DEF FoundFor
  <2> HIDE DEF results, questions
  <2> QED BY <2>1, <2>2 DEF Result
<1> SUFFICES ASSUME NEW i \in DOMAIN done
             PROVE  MadeFrom(corpus, done[i].answer.prompt, done[i].sources)
  BY DEF OwnSourcesUsed
<1>4. PICK sources \in Asked(done, done[i].question) :
        MadeFrom(corpus, done[i].answer.prompt, sources)
  BY DEF RowsMade, MadeFor
<1>5. PICK j \in DOMAIN done : done[j].question = done[i].question /\ done[j].sources = sources
  BY <1>4 DEF Asked
<1> QED BY <1>3, <1>4, <1>5

\* The output is written: torn first, then whole.
LEMMA WriteOutputs ==
  ASSUME TInv, RecipeOK, ProcessOK, LinesLeft, WorkInHand, BeginWrite \/ EndWrite,
         command.makes = "answers" => NothingStale, UNCHANGED makeVars
  PROVE  LinesLeft' /\ WorkInHand'
<1>1. /\ command.phase \in {"loop", "write"} /\ InBatch /\ UNCHANGED <<corpus, index>>
      /\ \E file : json' = [json EXCEPT ![command.save] = file]
      /\ DOMAIN json = Path
  BY DEF BeginWrite, EndWrite, InBatch, TInv, TypeOK, DiskOK
<1>2. /\ MakeOK /\ todo # << >> /\ Name \in Names /\ Name' = Name /\ UNCHANGED todo
      /\ \/ /\ command \in Searches /\ command.makes = "results" /\ Head(todo).op = "search"
            /\ command.path = Dataset(Name) /\ command.save = Results(Name)
         \/ /\ command \in AnswersMade /\ command.makes = "answers" /\ Head(todo).op = "answer"
            /\ command.path = Results(Name) /\ command.save = Answers(Name)
      /\ Head(todo) = Line(Head(todo).op, Name)
  BY <1>1, AtWork
<1>3. \E file : json' = [json EXCEPT ![IF Head(todo).op = "search" THEN Results(Name)
                                                                   ELSE Answers(Name)] = file]
  BY <1>1, <1>2
<1>4. ASSUME NEW op \in {"search", "answer"}, NEW n \in Names,
             json'[Dataset(n)].kind = "questions", HasRun(op, n)
      PROVE  /\ op = "search" => ResultsFresh(n)'
             /\ op = "answer" => AnswersFresh(n)'
  BY <1>1, <1>2, <1>3, <1>4, LeftElsewhere
<1>5. CASE BeginWrite
  <2>1. /\ command'.phase = "write" /\ command'.rows = command.rows /\ command'.rows = << >>
        /\ command'.done = command.done /\ command'.makes = command.makes
        /\ command'.expand = command.expand
    BY <1>2, <1>5 DEF BeginWrite, Searches, AnswersMade, Batch
  <2>2. LinesLeft'
    <3>1. command' # Exited(TRUE)
      BY <2>1 DEF Exited
    <3>2. ASSUME NEW op, NEW n, Run(op, n)'
          PROVE  HasRun(op, n)
      BY <1>2, <3>1, <3>2, NoneDone
    <3> QED BY <1>4, <3>2 DEF LinesLeft
  <2>3. json'[command.path] = json[command.path]
    BY <1>1, <1>2, PathsApart
  <2>4. WorkInHand'
    BY <1>1, <1>2, <2>1, <2>3 DEF WorkInHand, Between, FoundFor, AnswersTo
  <2> QED BY <2>2, <2>4
<1>6. CASE EndWrite
  <2>1. /\ command.phase = "write" /\ command' = Exited(TRUE)
        /\ json' = [json EXCEPT ![command.save] = [kind |-> command.makes, rows |-> command.done]]
    BY <1>6 DEF EndWrite
  <2>2. WorkInHand'
    BY <2>1 DEF WorkInHand, InBatch, Exited
  <2>3. command.save \in Path
    BY <1>2 DEF Searches, AnswersMade, Batch
  <2>4. json'[command.save] = [kind |-> command.makes, rows |-> command.done]
    BY <1>1, <2>1, <2>3
  <2>5. ASSUME NEW input, Between(input)
        PROVE  Len(command.done) = Len(input)
    <3>1. Splits(input, command.done, command.rows) /\ command.rows = << >>
      BY <2>1, <2>5 DEF Between
    <3>2. Len(command.done) \in Nat
      BY <1>2 DEF Searches, AnswersMade, Batch
    <3> QED BY <3>1, <3>2 DEF Splits
  <2>6. CASE command.makes = "results"
    <3>1. json'[Dataset(Name)] = json[Dataset(Name)]
          /\ json'[Results(Name)] = [kind |-> "results", rows |-> command.done]
      BY <1>1, <1>2, <2>1, <2>4, <2>6, PathsApart
    <3>2. command.expand \in BOOLEAN
      BY <1>2, <2>6 DEF Searches, Batch
    <3>3. ResultsFresh(Name)'
      BY <1>1, <1>2, <2>5, <2>6, <3>1, <3>2 DEF WorkInHand, ResultsFresh, FoundFor
    <3>4. ASSUME NEW op \in {"search", "answer"}, NEW n \in Names, Run(op, n)'
          PROVE  HasRun(op, n) \/ (op = "search" /\ n = Name)
      <4>1. HasRun(op, n) \/ Head(todo) = Line(op, n)
        BY <1>2, <3>4 DEF Run, HasRun
      <4>2. Head(todo) = Line(op, n) => op = Head(todo).op /\ n = Name
        BY DEF Line, Name
      <4> QED BY <1>2, <2>6, <4>1, <4>2
    <3>5. LinesLeft'
      BY <1>2, <1>4, <3>3, <3>4 DEF LinesLeft
    <3> QED BY <2>2, <3>5
  <2>7. CASE command.makes = "answers"
    <3>1. json'[Results(Name)] = json[Results(Name)]
          /\ json'[Answers(Name)] = [kind |-> "answers", rows |-> command.done]
      BY <1>1, <1>2, <2>1, <2>4, <2>7, PathsApart
    <3>2. ASSUME json'[Dataset(Name)].kind = "questions"
          PROVE  AnswersFresh(Name)'
      <4>1. ResultsFresh(Name)
        <5>1. json'[Dataset(Name)] = json[Dataset(Name)]
          BY <1>1, <1>2, PathsApart
        <5>2. Run("search", Name)
          BY <1>2, <2>7, RecipeSays DEF Run
        <5> QED BY <1>2, <3>2, <5>1, <5>2 DEF LinesLeft
      <4>2. /\ AnswersTo(json[Results(Name)].rows, command.done)
            /\ Len(command.done) = Len(json[Results(Name)].rows)
        BY <1>1, <2>5, <2>7 DEF WorkInHand
      <4>3. json[Results(Name)].rows \in Seq(ResultRow)
        <5>1. FileOK(json[Results(Name)])
          BY <1>2, PathTypes DEF TInv, TypeOK, DiskOK
        <5> QED BY <4>1, <5>1 DEF ResultsFresh, FileOK, Missing, Torn
      <4>4. command.done \in Seq(AnswerRow) /\ RowsMade(corpus, command.done)
        BY <1>2, <2>7 DEF AnswersMade, Batch, NothingStale
      <4>5. OwnSourcesUsed(command.done)
        BY <4>1, <4>2, <4>3, <4>4, OwnSourcesKnown
      <4> QED BY <1>1, <1>2, <3>1, <4>2, <4>5 DEF AnswersFresh, OwnSourcesUsed
    <3>3. ASSUME NEW op \in {"search", "answer"}, NEW n \in Names, Run(op, n)'
          PROVE  HasRun(op, n) \/ (op = "answer" /\ n = Name)
      <4>1. HasRun(op, n) \/ Head(todo) = Line(op, n)
        BY <1>2, <3>3 DEF Run, HasRun
      <4>2. Head(todo) = Line(op, n) => op = Head(todo).op /\ n = Name
        BY DEF Line, Name
      <4> QED BY <1>2, <2>7, <4>1, <4>2
    <3>4. LinesLeft'
      BY <1>2, <1>4, <3>2, <3>3 DEF LinesLeft
    <3> QED BY <2>2, <3>4
  <2> QED BY <1>2, <2>6, <2>7
<1> QED BY <1>5, <1>6

\* All steps: the outputs a run has left so far, and the one it is making.
LEMMA OutputsKept ==
  ASSUME TInv, RecipeOK, ProcessOK, AnswersCurrent, OutputsFresh, [Next]_vars
  PROVE  OutputsFresh'
<1> SUFFICES ASSUME quiet', todo' # << >> \/ complete'
             PROVE  LinesLeft' /\ WorkInHand'
  BY DEF OutputsFresh
<1>1. CASE StartIndex \/ PublishNext \/ Indexed \/ Evaluate \/ Proceed \/ Stop \/ Make \/ Clean
             \/ (Die /\ UNCHANGED makeVars)
  BY <1>1, MakeOutputs DEF WorkInHand
<1>2. CASE StartSearch \/ StartAnswer
  BY <1>2, StartOutputs
<1>3. CASE BatchStep /\ UNCHANGED makeVars
  <2>1. LinesLeft /\ WorkInHand /\ quiet
    BY <1>3 DEF OutputsFresh, makeVars
  <2>2. /\ TakeAnswer => NothingStale
        /\ BeginWrite \/ EndWrite => (command.makes = "answers" => NothingStale)
    BY <2>1 DEF AnswersCurrent, TakeAnswer, BeginWrite, EndWrite, Looping, InBatch
  <2> QED BY <1>3, <2>1, <2>2, InputOutputs, SearchNextOutputs, CallOutputs, TakeAnswerOutputs,
             WriteOutputs DEF BatchStep
<1>4. CASE EditCorpus \/ EditDataset
  BY <1>4 DEF EditCorpus, EditDataset
<1>5. CASE UNCHANGED vars
  <2>1. LinesLeft /\ WorkInHand
    BY <1>5 DEF vars, makeVars, OutputsFresh
  <2> QED BY <1>5, <2>1 DEF vars, makeVars, LinesLeft, WorkInHand, Run, HasRun, ResultsFresh,
                            AnswersFresh, OwnSourcesUsed, FoundFor, Between, InBatch, Name
<1> QED BY <1>1, <1>2, <1>3, <1>4, <1>5 DEF Next, Step

-----------------------------------------------------------------------------
\* Nothing has been run, answered or made at first.
LEMMA InitIInv == Init => IInv
<1> SUFFICES ASSUME Init PROVE IInv
  OBVIOUS
<1>1. command = None /\ todo = << >> /\ complete = FALSE
  BY DEF Init
<1>2. RecipeOK /\ OutputsFresh
  BY <1>1 DEF RecipeOK, OutputsFresh
<1>3. ProcessOK /\ AnswersCurrent
  BY <1>1 DEF ProcessOK, AnswersCurrent, None, InBatch
<1> QED BY <1>2, <1>3, InitTInv DEF IInv

\* The invariant is inductive.
LEMMA NextIInv == IInv /\ [Next]_vars => IInv'
BY NextTInv, OrderKept, AnswersKept, OutputsKept DEF IInv

\* Every reachable state satisfies the inductive invariant.
THEOREM Invariance == Spec => []IInv
BY InitIInv, NextIInv, PTL DEF Spec

\* Types, and that no prompt is over MAX_CONTEXT_CHARS.
THEOREM TypeCorrect == Spec => []TypeOK
<1>1. IInv => TypeOK
  BY DEF IInv, TInv
<1> QED BY <1>1, Invariance, PTL

\* The answers of one command come from one version of each file.
THEOREM OneVersion == Spec => []OneVersionPerFile
<1>1. IInv => OneVersionPerFile
  <2> DEFINE texts == UNION {Range(command.done[i].answer.prompt) : i \in DOMAIN command.done}
  <2> SUFFICES ASSUME IInv, Answering, NEW t \in texts, NEW u \in texts, t.file = u.file
               PROVE  t.version = u.version
    BY DEF OneVersionPerFile
  <2>1. ASSUME NEW x \in texts
        PROVE  x.version = file_cache[x.file].version
    <3>1. PICK i \in DOMAIN command.done : x \in Range(command.done[i].answer.prompt)
      OBVIOUS
    <3>2. AllOfCachedFiles(file_cache, command.done[i].answer.prompt)
      BY <3>1 DEF IInv, TInv, DoneAgrees, Answering
    <3>3. PICK j \in DOMAIN command.done[i].answer.prompt :
            x = command.done[i].answer.prompt[j]
      BY <3>1 DEF Range
    <3> QED BY <3>2, <3>3 DEF AllOfCachedFiles, OfCachedFile
  <2> QED BY <2>1
<1> QED BY <1>1, Invariance, PTL

\* While no file changes, every answer is the one its own sources make.
THEOREM OwnSources == Spec => []AnswersFromOwnSources
<1>1. IInv => AnswersFromOwnSources
  <2> SUFFICES ASSUME IInv, Answering, quiet, NEW i \in DOMAIN command.done,
                      \A j \in DOMAIN command.done :
                        command.done[j].question = command.done[i].question
                          => command.done[j].sources = command.done[i].sources
               PROVE  /\ command.done[i].answer.question = command.done[i].question
                      /\ MadeFrom(corpus, command.done[i].answer.prompt, command.done[i].sources)
    BY DEF AnswersFromOwnSources
  <2>1. MadeFor(corpus, command.done[i].answer, command.done[i].question,
                Asked(command.done, command.done[i].question))
    BY DEF IInv, AnswersCurrent, NothingStale, RowsMade, Answering, InBatch
  <2>2. Asked(command.done, command.done[i].question) \subseteq {command.done[i].sources}
    BY DEF Asked
  <2> QED BY <2>1, <2>2 DEF MadeFor
<1> QED BY <1>1, Invariance, PTL

\* When nothing is left to run, everything has run: the outputs of a run of
\* make are those of its datasets and its indices.
THEOREM AllFresh == Spec => []FreshWhenComplete
<1>1. IInv => FreshWhenComplete
  <2> SUFFICES ASSUME IInv, complete, quiet, NEW n \in Names, json[Dataset(n)].kind = "questions"
               PROVE  Fresh(n)
    BY DEF FreshWhenComplete
  <2> DEFINE questions == json[Dataset(n)].rows
             results   == json[Results(n)].rows
             answers   == json[Answers(n)].rows
  <2>1. todo = << >> /\ HasRun("search", n) /\ HasRun("answer", n)
    BY DEF IInv, RecipeOK, HasRun
  <2>2. ResultsFresh(n) /\ AnswersFresh(n)
    BY <2>1 DEF IInv, OutputsFresh, LinesLeft, Run
  <2>3. PICK expand \in BOOLEAN : FoundFor(n, questions, expand, results)
    BY <2>2 DEF ResultsFresh
  <2>4. /\ questions \in Seq(QuestionRow) /\ results \in Seq(ResultRow) /\ answers \in Seq(AnswerRow)
        /\ DOMAIN results = DOMAIN questions /\ DOMAIN answers = DOMAIN results
    <3>1. \A p \in Path : FileOK(json[p])
      BY DEF IInv, TInv, TypeOK, DiskOK
    <3>2. FileOK(json[Dataset(n)]) /\ FileOK(json[Results(n)]) /\ FileOK(json[Answers(n)])
      BY <3>1, PathTypes
    <3>3. questions \in Seq(QuestionRow) /\ results \in Seq(ResultRow) /\ answers \in Seq(AnswerRow)
      BY <2>2, <3>2 DEF FileOK, Missing, Torn, ResultsFresh, AnswersFresh
    <3>4. Len(results) = Len(questions) /\ Len(answers) = Len(results)
      BY <2>2 DEF ResultsFresh, AnswersFresh
    <3> HIDE DEF questions, results, answers
    <3> QED BY <3>3, <3>4
  <2> HIDE DEF questions, results, answers
  <2>5. results = [i \in DOMAIN questions |->
                     Result(questions[i].id, questions[i].question,
                            FoundIn(n, index[n], Query(questions[i].question, expand)))]
    <3>1. results = [i \in DOMAIN results |-> results[i]]
      BY <2>4
    <3> QED BY <2>3, <2>4, <3>1 DEF FoundFor
  <2>6. ASSUME NEW i \in DOMAIN answers
        PROVE  /\ Result(answers[i].id, answers[i].question, answers[i].sources) = results[i]
               /\ answers[i].answer.question = results[i].question
               /\ MadeFrom(corpus, answers[i].answer.prompt, answers[i].sources)
    <3>1. results[i] \in ResultRow
      BY <2>4
    <3>2. results[i] = Result(results[i].id, results[i].question, results[i].sources)
      BY <3>1 DEF ResultRow, Result
    <3>3. AnswersTo(results, answers)
      BY <2>2 DEF AnswersFresh, results, answers
    <3>4. OwnSourcesUsed(answers)
      BY <2>2 DEF AnswersFresh, answers
    <3> QED BY <3>2, <3>3, <3>4 DEF AnswersTo, OwnSourcesUsed
  <2>7. json[Results(n)].kind = "results" /\ json[Answers(n)].kind = "answers"
    BY <2>2 DEF ResultsFresh, AnswersFresh
  <2> QED BY <2>4, <2>5, <2>6, <2>7 DEF Fresh, questions, results, answers
<1> QED BY <1>1, Invariance, PTL
=============================================================================
