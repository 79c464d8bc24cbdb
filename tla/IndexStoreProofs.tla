---------------------------- MODULE IndexStoreProofs ---------------------------
(***************************************************************************)
(* What the order of writes and reads is worth, for any number of builds,  *)
(* crashes and searchers and any use of --semantic: a complete build       *)
(* repairs what dead ones left; used one by one, a search finds one build  *)
(* and does not fail; and used uniformly too, saving and loading are       *)
(* atomic (the refinement of AtomicIndex).                                 *)
(***************************************************************************)
EXTENDS IndexStore, FiniteSetTheorems, SequenceTheorems, TLAPS

WriteOrder(semantic) == SaveOrder("docs", semantic) \o SaveOrder("code", semantic)
Write == [dir : Dirs, art : Artefacts]
LoaderType == [phase : {"idle", "loading", "ready", "failed"}, dir : Dirs, semantic : BOOLEAN,
               reads : Seq(Artefacts), got : [Artefacts -> Generation]]

\* What the types say in short.
LEMMA TypeFacts ==
  ASSUME TypeOK
  PROVE  /\ usage.builds \in Nat /\ usage.crashes \in Nat
         /\ usage.flags \subseteq BOOLEAN /\ usage.searchers \subseteq Searchers
         /\ builds \in Nat /\ finished \in Nat /\ crashes \in Nat
         /\ {Absent, Torn, Mixed} \subseteq Generation /\ builds \in Generation
         /\ Generation \subseteq Int
         /\ disk \in [Dirs -> [Artefacts -> Generation]]
         /\ writes \in Seq(Write)
         /\ loader \in [Searchers -> LoaderType]
<1>1. usage \in UsageType
  BY UsagesAssumption DEF TypeOK
<1>2. usage.builds \in Nat /\ usage.crashes \in Nat
      /\ usage.flags \subseteq BOOLEAN /\ usage.searchers \subseteq Searchers
  BY <1>1 DEF UsageType
<1> QED BY <1>2 DEF TypeOK, Generation, Absent, Torn, Mixed, Write, LoaderType

\* What is written in one directory.
LEMMA SaveFacts ==
  ASSUME NEW semantic \in BOOLEAN, NEW d \in Dirs
  PROVE  /\ SaveOrder(d, semantic) \in Seq(Write)
         /\ Len(SaveOrder(d, semantic)) = IF semantic THEN 3 ELSE 2
         /\ SaveOrder(d, semantic)[1] = [dir |-> d, art |-> "chunks"]
         /\ SaveOrder(d, semantic)[2] = [dir |-> d, art |-> "bm25"]
         /\ semantic => SaveOrder(d, semantic)[3] = [dir |-> d, art |-> "faiss"]
<1> DEFINE two == <<[dir |-> d, art |-> "chunks"], [dir |-> d, art |-> "bm25"]>>
           one == <<[dir |-> d, art |-> "faiss"]>>
<1>1. /\ two \in Seq(Write) /\ Len(two) = 2
      /\ two[1] = [dir |-> d, art |-> "chunks"] /\ two[2] = [dir |-> d, art |-> "bm25"]
  BY DEF Write, Artefacts
<1>2. one \in Seq(Write) /\ Len(one) = 1 /\ one[1] = [dir |-> d, art |-> "faiss"]
  BY DEF Write, Artefacts
<1>3. SaveOrder(d, semantic) = two \o (IF semantic THEN one ELSE << >>)
  BY DEF SaveOrder
<1> HIDE DEF one, two
<1>4. CASE semantic
  <2>1. SaveOrder(d, semantic) = two \o one
    BY <1>3, <1>4
  <2>2. /\ two \o one \in Seq(Write) /\ Len(two \o one) = 3
        /\ (two \o one)[1] = two[1] /\ (two \o one)[2] = two[2] /\ (two \o one)[3] = one[1]
    <3>1. /\ two \o one \in Seq(Write) /\ Len(two \o one) = 3
          /\ \A i \in 1 .. 3 : (two \o one)[i] = IF i <= 2 THEN two[i] ELSE one[i - 2]
      <4>1. /\ two \o one \in Seq(Write) /\ Len(two \o one) = Len(two) + Len(one)
            /\ \A i \in 1 .. Len(two) + Len(one) :
                 (two \o one)[i] = IF i <= Len(two) THEN two[i] ELSE one[i - Len(two)]
        BY <1>1, <1>2, ConcatProperties
      <4> QED BY <1>1, <1>2, <4>1
    <3>2. 1 \in 1 .. 3 /\ 2 \in 1 .. 3 /\ 3 \in 1 .. 3 /\ 3 - 2 = 1 /\ ~(3 <= 2) /\ 1 <= 2 /\ 2 <= 2
      OBVIOUS
    <3> QED BY <3>1, <3>2
  <2> QED BY <1>1, <1>2, <1>4, <2>1, <2>2
<1>5. CASE ~semantic
  <2>1. SaveOrder(d, semantic) = two \o << >>
    BY <1>3, <1>5
  <2>2. two \o << >> = two
    BY <1>1, ConcatEmptySeq
  <2> QED BY <1>1, <1>5, <2>1, <2>2
<1> QED BY <1>4, <1>5

\* A build writes every artefact it is asked for, once.
LEMMA OrderFacts ==
  ASSUME NEW semantic \in BOOLEAN
  PROVE  /\ WriteOrder(semantic) \in Seq(Write) /\ WriteOrder(semantic) # << >>
         /\ \A i, j \in 1 .. Len(WriteOrder(semantic)) :
              WriteOrder(semantic)[i] = WriteOrder(semantic)[j] => i = j
         /\ \A d \in Dirs, a \in Artefacts : (a = "faiss" => semantic) =>
              \E i \in 1 .. Len(WriteOrder(semantic)) :
                WriteOrder(semantic)[i] = [dir |-> d, art |-> a]
<1> DEFINE w == WriteOrder(semantic)
           n == IF semantic THEN 3 ELSE 2
           docs == SaveOrder("docs", semantic)
           code == SaveOrder("code", semantic)
           W(d, a) == [dir |-> d, art |-> a]
<1>1. /\ docs \in Seq(Write) /\ Len(docs) = n /\ docs[1] = W("docs", "chunks")
      /\ docs[2] = W("docs", "bm25") /\ (semantic => docs[3] = W("docs", "faiss"))
  BY SaveFacts DEF Dirs
<1>2. /\ code \in Seq(Write) /\ Len(code) = n /\ code[1] = W("code", "chunks")
      /\ code[2] = W("code", "bm25") /\ (semantic => code[3] = W("code", "faiss"))
  BY SaveFacts DEF Dirs
<1>3. w = docs \o code
  BY DEF WriteOrder
<1> HIDE DEF w, docs, code
<1>4. /\ w \in Seq(Write) /\ Len(w) = n + n
      /\ \A i \in 1 .. n : w[i] = docs[i] /\ w[n + i] = code[i]
  <2>1. /\ w \in Seq(Write) /\ Len(w) = Len(docs) + Len(code)
        /\ \A i \in 1 .. Len(docs) + Len(code) :
             w[i] = IF i <= Len(docs) THEN docs[i] ELSE code[i - Len(docs)]
    BY <1>1, <1>2, <1>3, ConcatProperties
  <2>2. \A i \in 1 .. n : w[i] = docs[i]
    BY <1>1, <1>2, <2>1
  <2>3. ASSUME NEW i \in 1 .. n PROVE w[n + i] = code[i]
    <3>1. n + i \in 1 .. Len(docs) + Len(code) /\ ~(n + i <= Len(docs)) /\ (n + i) - Len(docs) = i
      BY <1>1, <1>2
    <3> QED BY <2>1, <3>1
  <2> QED BY <1>1, <1>2, <2>1, <2>2, <2>3
<1>5. CASE semantic
  <2>1. /\ Len(w) = 6 /\ w[1] = W("docs", "chunks") /\ w[2] = W("docs", "bm25")
        /\ w[3] = W("docs", "faiss") /\ w[4] = W("code", "chunks")
        /\ w[5] = W("code", "bm25") /\ w[6] = W("code", "faiss")
    BY <1>1, <1>2, <1>4, <1>5
  <2>2. ASSUME NEW i \in 1 .. Len(w), NEW j \in 1 .. Len(w), w[i] = w[j]
        PROVE  i = j
    BY <2>1, <2>2
  <2>3. ASSUME NEW d \in Dirs, NEW a \in Artefacts
        PROVE  \E i \in 1 .. Len(w) : w[i] = W(d, a)
    BY <2>1 DEF Dirs, Artefacts
  <2>4. w # << >>
    BY <2>1
  <2> QED BY <1>4, <2>2, <2>3, <2>4 DEF w
<1>6. CASE ~semantic
  <2>1. /\ Len(w) = 4 /\ w[1] = W("docs", "chunks") /\ w[2] = W("docs", "bm25")
        /\ w[3] = W("code", "chunks") /\ w[4] = W("code", "bm25")
    BY <1>1, <1>2, <1>4, <1>6
  <2>2. ASSUME NEW i \in 1 .. Len(w), NEW j \in 1 .. Len(w), w[i] = w[j]
        PROVE  i = j
    BY <2>1, <2>2
  <2>3. ASSUME NEW d \in Dirs, NEW a \in Artefacts, a # "faiss"
        PROVE  \E i \in 1 .. Len(w) : w[i] = W(d, a)
    BY <2>1, <2>3 DEF Dirs, Artefacts
  <2>4. w # << >>
    BY <2>1
  <2> QED BY <1>4, <1>6, <2>2, <2>3, <2>4 DEF w
<1> QED BY <1>5, <1>6

\* One artefact changes.
LEMMA DiskStep ==
  ASSUME TypeOK, NEW d0 \in Dirs, NEW a0 \in Artefacts, NEW v \in Generation,
         disk' = [disk EXCEPT ![d0][a0] = v]
  PROVE  /\ disk' \in [Dirs -> [Artefacts -> Generation]]
         /\ \A d \in Dirs, a \in Artefacts :
              disk'[d][a] = IF d = d0 /\ a = a0 THEN v ELSE disk[d][a]
BY TypeFacts

\* What a load reads next.
LEMMA LoadingFacts ==
  ASSUME TypeOK, LoadOK, NEW s \in Searchers, loader[s].phase = "loading"
  PROVE  /\ Wanted(s) \in Artefacts
         /\ Tail(loader[s].reads) \in ReadsLeft(loader[s].semantic)
         /\ Tail(loader[s].reads) \in Seq(Artefacts)
         /\ Wanted(s) = "chunks" =>
              Tail(loader[s].reads) # << >> /\ Head(Tail(loader[s].reads)) = "bm25"
         /\ Wanted(s) = "bm25" =>
              IF loader[s].semantic THEN Tail(loader[s].reads) = <<"faiss">>
              ELSE Tail(loader[s].reads) = << >>
         /\ Wanted(s) = "faiss" => loader[s].semantic /\ Tail(loader[s].reads) = << >>
<1>1. loader[s].reads \in ReadsLeft(loader[s].semantic) /\ loader[s].reads # << >>
  BY DEF TypeOK, LoadOK
<1>2. CASE loader[s].semantic
  <2>1. CASE loader[s].reads = <<"chunks", "bm25", "faiss">>
    BY <1>2, <2>1 DEF Wanted, ReadsLeft, Artefacts
  <2>2. CASE loader[s].reads = <<"bm25", "faiss">>
    BY <1>2, <2>2 DEF Wanted, ReadsLeft, Artefacts
  <2>3. CASE loader[s].reads = <<"faiss">>
    BY <1>2, <2>3 DEF Wanted, ReadsLeft, Artefacts
  <2> QED BY <1>1, <1>2, <2>1, <2>2, <2>3 DEF ReadsLeft
<1>3. CASE ~loader[s].semantic
  <2>1. CASE loader[s].reads = <<"chunks", "bm25">>
    BY <1>3, <2>1 DEF Wanted, ReadsLeft, Artefacts
  <2>2. CASE loader[s].reads = <<"bm25">>
    BY <1>3, <2>2 DEF Wanted, ReadsLeft, Artefacts
  <2> QED BY <1>1, <1>3, <2>1, <2>2 DEF ReadsLeft
<1> QED BY <1>2, <1>3

-----------------------------------------------------------------------------
\* Loads go on as they were while no build ends.
LEMMA LoadWaits == LoadOK /\ UNCHANGED <<usage, loader, finished>> => LoadOK'
BY DEF LoadOK, Orderly, Wanted, Ready

\* What loaders look for was written, as long as they and the flags stay.
LEMMA UniformWaits == UniformOK /\ UNCHANGED <<usage, loader, builds, wrote_faiss>> => UniformOK'
BY DEF UniformOK, Uniform, Orderly, Ready

\* Searches do not touch what is written.
LEMMA BuildWaits ==
  BuildOK /\ UNCHANGED <<disk, builds, writes, finished, wrote_faiss>> => BuildOK'
BY DEF BuildOK, FinishedBuildWhole, StillWritten, Indexing

\* Nothing is written or unfinished yet, and nobody has loaded anything.
LEMMA InitIInv == Init => IInv
<1> SUFFICES ASSUME Init PROVE IInv
  OBVIOUS
<1>1. usage \in UsageType
  BY UsagesAssumption DEF Init
<1>2. usage.builds \in Nat /\ usage.crashes \in Nat
  BY <1>1 DEF UsageType
<1>3. Absent \in Generation /\ << >> \in Seq(Artefacts) /\ << >> \in Seq(Write) /\ "docs" \in Dirs
  BY <1>2 DEF Generation, Absent, Mixed, Dirs
<1>4. Idle \in LoaderType
  BY <1>3 DEF Idle, LoaderType
<1>5. TypeOK
  <2>1. loader \in [Searchers -> LoaderType] /\ disk \in [Dirs -> [Artefacts -> Generation]]
    BY <1>3, <1>4 DEF Init
  <2>2. \A s \in Searchers : loader[s].phase = "idle" /\ loader[s].reads = << >>
    BY DEF Init, Idle
  <2>3. /\ builds \in 0 .. usage.builds /\ crashes \in 0 .. usage.crashes
        /\ finished \in 0 .. builds /\ wrote_faiss \in BOOLEAN /\ writes \in Seq(Write)
        /\ usage \in Usages
    <3>1. /\ usage \in Usages /\ writes = << >> /\ wrote_faiss = FALSE
          /\ builds = 0 /\ crashes = 0 /\ finished = 0
      BY DEF Init
    <3>2. 0 \in 0 .. usage.builds /\ 0 \in 0 .. usage.crashes /\ 0 \in 0 .. 0
      BY <1>2
    <3> QED BY <1>3, <3>1, <3>2
  <2> QED BY <2>1, <2>2, <2>3 DEF TypeOK, LoaderType, Write
<1>6. BuildOK
  BY DEF Init, BuildOK, FinishedBuildWhole, Indexing, Absent, Mixed, Artefacts
<1>7. OrderlyOK
  BY DEF Init, OrderlyOK, Indexing, Absent, Torn, Mixed, Idle
<1>8. LoadOK /\ UniformOK
  BY DEF Init, LoadOK, UniformOK, ReadsLeft, Ready, Idle
<1> QED BY <1>5, <1>6, <1>7, <1>8 DEF IInv

-----------------------------------------------------------------------------
\* A build starts: it has everything still to write.
LEMMA StartIndexIInv ==
  ASSUME IInv, NEW semantic \in usage.flags, StartIndex(semantic)
  PROVE  IInv'
<1> DEFINE w == WriteOrder(semantic)
<1>1. /\ MayStart /\ ~Indexing /\ builds < usage.builds
      /\ builds' = builds + 1 /\ writes' = w /\ wrote_faiss' = semantic
      /\ UNCHANGED <<usage, disk, crashes, finished, loader>>
  BY DEF StartIndex, WriteOrder
<1>2. TypeOK
  BY DEF IInv
<1>3. semantic \in BOOLEAN
  BY <1>2, TypeFacts
<1> HIDE DEF w
<1>4. /\ w \in Seq(Write) /\ w # << >>
      /\ \A i, j \in 1 .. Len(w) : w[i] = w[j] => i = j
      /\ \A d \in Dirs, a \in Artefacts : (a = "faiss" => semantic) =>
           \E i \in 1 .. Len(w) : w[i] = [dir |-> d, art |-> a]
  BY <1>3, OrderFacts DEF w
<1>5. builds + 1 \in 0 .. usage.builds /\ finished \in 0 .. builds + 1 /\ finished < builds + 1
  BY <1>1, <1>2, TypeFacts DEF TypeOK
<1>6. TypeOK'
  BY <1>1, <1>2, <1>3, <1>4, <1>5 DEF TypeOK, Write, Generation
<1>7. \A d \in Dirs, a \in Artefacts : disk[d][a] < builds + 1
  <2> SUFFICES ASSUME NEW d \in Dirs, NEW a \in Artefacts PROVE disk[d][a] < builds + 1
    OBVIOUS
  <2>1. disk[d][a] \in Int /\ builds \in Nat /\ disk[d][a] <= builds
    BY <1>2, TypeFacts DEF IInv, BuildOK
  <2> QED BY <2>1
<1>8. BuildOK'
  <2>1. \A d \in Dirs, a \in Artefacts : disk'[d][a] <= builds'
    <3> SUFFICES ASSUME NEW d \in Dirs, NEW a \in Artefacts PROVE disk[d][a] <= builds + 1
      BY <1>1
    <3>1. disk[d][a] \in Int /\ builds \in Nat /\ disk[d][a] <= builds
      BY <1>2, TypeFacts DEF IInv, BuildOK
    <3> QED BY <3>1
  <2>2. Indexing' /\ finished' < builds'
    BY <1>1, <1>4, <1>5 DEF Indexing
  <2>3. \A d \in Dirs, a \in Artefacts : (a = "faiss" => wrote_faiss') => StillWritten(d, a)'
    BY <1>1, <1>4 DEF StillWritten
  <2>4. \A i, j \in 1 .. Len(writes') : writes'[i] = writes'[j] => i = j
    BY <1>1, <1>4
  <2> QED BY <1>1, <2>1, <2>2, <2>3, <2>4 DEF IInv, BuildOK, FinishedBuildWhole
<1>9. OrderlyOK'
  <2> SUFFICES ASSUME Orderly PROVE OrderlyOK'
    BY <1>1 DEF OrderlyOK, Orderly
  <2>1. \A d \in Dirs, a \in Artefacts : disk[d][a] \notin {Torn, Mixed}
    BY <1>1 DEF IInv, OrderlyOK
  <2>2. \A s \in Searchers : loader[s].phase # "loading"
    BY <1>1 DEF MayStart, Loading, Orderly
  <2>3. \A i \in 1 .. Len(w) : w[i].dir \in Dirs /\ w[i].art \in Artefacts
    <3>1. \A i \in 1 .. Len(w) : w[i] \in Write
      BY <1>4
    <3> QED BY <3>1 DEF Write
  <2> QED BY <1>1, <1>4, <1>7, <2>1, <2>2, <2>3 DEF OrderlyOK, Indexing
<1>10. LoadOK'
  BY <1>1, LoadWaits DEF IInv
<1>11. UniformOK'
  BY <1>1 DEF IInv, UniformOK, Uniform, Orderly, Ready
<1> QED BY <1>6, <1>8, <1>9, <1>10, <1>11 DEF IInv

\* The artefact being written.
LEMMA WritingFacts ==
  ASSUME TypeOK, Indexing
  PROVE  /\ Head(writes) = writes[1] /\ 1 \in 1 .. Len(writes) /\ Len(writes) \in Nat
         /\ Head(writes).dir \in Dirs /\ Head(writes).art \in Artefacts
         /\ \A i \in 1 .. Len(writes) :
              /\ writes[i].dir \in Dirs /\ writes[i].art \in Artefacts
              /\ writes[i] = [dir |-> writes[i].dir, art |-> writes[i].art]
         /\ Tail(writes) \in Seq(Write) /\ Len(Tail(writes)) = Len(writes) - 1
         /\ \A i \in 1 .. Len(Tail(writes)) : i + 1 \in 1 .. Len(writes) /\ Tail(writes)[i] = writes[i + 1]
<1>1. writes \in Seq(Write) /\ writes # << >>
  BY TypeFacts DEF Indexing
<1>2. /\ Head(writes) = writes[1] /\ 1 \in 1 .. Len(writes) /\ Len(writes) \in Nat
  BY <1>1
<1>3. \A i \in 1 .. Len(writes) : writes[i] \in Write
  BY <1>1
<1>4. Tail(writes) \in Seq(Write) /\ Len(Tail(writes)) = Len(writes) - 1
      /\ \A i \in 1 .. Len(Tail(writes)) : i + 1 \in 1 .. Len(writes) /\ Tail(writes)[i] = writes[i + 1]
  BY <1>1
<1> QED BY <1>2, <1>3, <1>4 DEF Write

\* A file is emptied: it is still to be written.
LEMMA BeginWriteIInv ==
  ASSUME IInv, BeginWrite
  PROVE  IInv'
<1> DEFINE w == Head(writes)
           v == IF w.art = "bm25" /\ disk[w.dir][w.art] # Absent THEN Mixed ELSE Torn
<1>1. /\ Indexing /\ disk' = [disk EXCEPT ![w.dir][w.art] = v]
      /\ UNCHANGED <<usage, builds, crashes, writes, finished, wrote_faiss, loader>>
  BY DEF BeginWrite
<1>2. TypeOK
  BY DEF IInv
<1>3. /\ v \in {Torn, Mixed} /\ v \in Generation /\ v \in Int /\ v < 0 /\ builds \in Nat
  BY <1>2, TypeFacts DEF Torn, Mixed
<1>4. w.dir \in Dirs /\ w.art \in Artefacts /\ 1 \in 1 .. Len(writes)
      /\ writes[1] = w /\ w = [dir |-> w.dir, art |-> w.art]
  BY <1>1, <1>2, WritingFacts
<1> HIDE DEF w, v
<1>5. /\ disk' \in [Dirs -> [Artefacts -> Generation]]
      /\ \A d \in Dirs, a \in Artefacts :
           disk'[d][a] = IF d = w.dir /\ a = w.art THEN v ELSE disk[d][a]
  BY <1>1, <1>2, <1>3, <1>4, DiskStep
<1>6. TypeOK'
  BY <1>1, <1>2, <1>5 DEF TypeOK, Generation
<1>7. BuildOK'
  <2>1. ASSUME NEW d \in Dirs, NEW a \in Artefacts
        PROVE  disk'[d][a] <= builds
    <3>1. disk[d][a] <= builds
      BY DEF IInv, BuildOK
    <3>2. v <= builds
      BY <1>3
    <3> QED BY <1>5, <3>1, <3>2
  <2>2. ASSUME NEW d \in Dirs, NEW a \in Artefacts, a = "faiss" => wrote_faiss
        PROVE  disk'[d][a] = builds \/ StillWritten(d, a)
    <3>1. CASE d = w.dir /\ a = w.art
      BY <1>4, <3>1 DEF StillWritten
    <3>2. CASE ~(d = w.dir /\ a = w.art)
      BY <1>1, <1>5, <2>2, <3>2 DEF IInv, BuildOK
    <3> QED BY <3>1, <3>2
  <2>3. UNCHANGED <<writes, builds, finished, wrote_faiss>> /\ Indexing /\ Indexing' /\ finished < builds
    BY <1>1 DEF IInv, BuildOK, Indexing
  <2>4. \A i, j \in 1 .. Len(writes) : writes[i] = writes[j] => i = j
    BY DEF IInv, BuildOK
  <2>5. ASSUME NEW d \in Dirs
        PROVE  disk'[d]["chunks"] # Mixed
    <3>1. "chunks" \in Artefacts /\ disk[d]["chunks"] # Mixed /\ (w.art = "chunks" => v = Torn) /\ Torn # Mixed
      BY DEF IInv, BuildOK, Artefacts, v, Torn, Mixed
    <3> QED BY <1>5, <3>1
  <2> QED BY <2>1, <2>2, <2>3, <2>4, <2>5 DEF BuildOK, FinishedBuildWhole, StillWritten
<1>8. OrderlyOK'
  <2> SUFFICES ASSUME Orderly PROVE OrderlyOK'
    BY <1>1 DEF OrderlyOK, Orderly
  <2>1. ASSUME NEW d \in Dirs, NEW a \in Artefacts, disk'[d][a] \in {Torn, Mixed}
        PROVE  w = [dir |-> d, art |-> a]
    BY <1>4, <1>5, <2>1 DEF IInv, OrderlyOK, w
  <2>2. ASSUME NEW i \in 1 .. Len(writes)
        PROVE  disk'[writes[i].dir][writes[i].art] < builds
    BY <1>1, <1>2, <1>3, <1>5, WritingFacts DEF IInv, OrderlyOK
  <2> QED BY <1>1, <2>1, <2>2 DEF IInv, OrderlyOK, Indexing, w
<1>9. LoadOK' /\ UniformOK'
  BY <1>1, LoadWaits, UniformWaits DEF IInv
<1> QED BY <1>6, <1>7, <1>8, <1>9 DEF IInv

\* A file is closed: it is of this build, and no later write is to it.
LEMMA EndWriteIInv ==
  ASSUME IInv, EndWrite
  PROVE  IInv'
<1> DEFINE w == Head(writes)
           rest == Tail(writes)
<1>1. /\ Indexing /\ disk' = [disk EXCEPT ![w.dir][w.art] = builds]
      /\ writes' = rest /\ finished' = IF rest = << >> THEN builds ELSE finished
      /\ UNCHANGED <<usage, builds, crashes, wrote_faiss, loader>>
  BY DEF EndWrite
<1>2. TypeOK
  BY DEF IInv
<1>3. builds \in Nat /\ builds \in Generation /\ finished \in Nat /\ finished < builds
  BY <1>1, <1>2, TypeFacts DEF IInv, BuildOK
<1>4. /\ w.dir \in Dirs /\ w.art \in Artefacts /\ 1 \in 1 .. Len(writes)
      /\ writes[1] = w /\ w = [dir |-> w.dir, art |-> w.art]
      /\ rest \in Seq(Write) /\ Len(rest) = Len(writes) - 1 /\ Len(writes) \in Nat
      /\ \A i \in 1 .. Len(rest) : i + 1 \in 1 .. Len(writes) /\ rest[i] = writes[i + 1]
      /\ \A i \in 1 .. Len(writes) :
              /\ writes[i].dir \in Dirs /\ writes[i].art \in Artefacts
              /\ writes[i] = [dir |-> writes[i].dir, art |-> writes[i].art]
  BY <1>1, <1>2, WritingFacts
<1> HIDE DEF w, rest
<1>5. /\ disk' \in [Dirs -> [Artefacts -> Generation]]
      /\ \A d \in Dirs, a \in Artefacts :
           disk'[d][a] = IF d = w.dir /\ a = w.art THEN builds ELSE disk[d][a]
  <2>1. disk' = [disk EXCEPT ![w.dir][w.art] = builds]
    BY <1>1
  <2>2. w.dir \in Dirs /\ w.art \in Artefacts /\ builds \in Generation
    BY <1>3, <1>4
  <2> QED BY <1>2, <2>1, <2>2, DiskStep
<1>6. TypeOK'
  <2>1. finished' \in 0 .. builds
    BY <1>1, <1>3
  <2> QED BY <1>1, <1>2, <1>4, <1>5, <2>1 DEF TypeOK, Generation, Write
<1>7. \A i, j \in 1 .. Len(writes) : writes[i] = writes[j] => i = j
  BY DEF IInv, BuildOK
<1>8. ASSUME NEW i \in 1 .. Len(rest)
      PROVE  rest[i] # w
  <2>1. i + 1 \in 1 .. Len(writes) /\ i + 1 # 1
    BY <1>4
  <2> QED BY <1>4, <1>7, <2>1
<1>9. BuildOK'
  <2>1. ASSUME NEW d \in Dirs, NEW a \in Artefacts
        PROVE  disk'[d][a] <= builds
    BY <1>3, <1>5 DEF IInv, BuildOK
  <2>2. ASSUME NEW d \in Dirs, NEW a \in Artefacts, a = "faiss" => wrote_faiss
        PROVE  disk'[d][a] = builds \/ \E i \in 1 .. Len(rest) : rest[i] = [dir |-> d, art |-> a]
    <3>1. CASE d = w.dir /\ a = w.art
      BY <1>5, <3>1
    <3>2. CASE ~(d = w.dir /\ a = w.art) /\ disk[d][a] = builds
      BY <1>5, <3>2
    <3>3. CASE ~(d = w.dir /\ a = w.art) /\ disk[d][a] # builds
      <4>1. PICK i \in 1 .. Len(writes) : writes[i] = [dir |-> d, art |-> a]
        BY <1>1, <2>2, <3>3 DEF IInv, BuildOK, StillWritten
      <4>2. i # 1
        BY <1>4, <3>3, <4>1
      <4>3. i - 1 \in 1 .. Len(rest) /\ rest[i - 1] = writes[i]
        BY <1>4, <4>2
      <4> QED BY <4>1, <4>3
    <3> QED BY <3>1, <3>2, <3>3
  <2>3. ASSUME NEW i \in 1 .. Len(rest), NEW j \in 1 .. Len(rest), rest[i] = rest[j]
        PROVE  i = j
    BY <1>4, <1>7, <2>3
  <2>4. rest # << >> => finished' < builds
    BY <1>1, <1>3
  <2>5. rest = << >> => Len(rest) = 0
    OBVIOUS
  <2>6. FinishedBuildWhole'
    <3> SUFFICES ASSUME rest = << >>, NEW d \in Dirs, NEW a \in Artefacts, a = "faiss" => wrote_faiss
                 PROVE  disk'[d][a] = finished'
      BY <1>1 DEF FinishedBuildWhole, Indexing
    <3> QED BY <1>1, <2>2, <2>5
  <2>7. \A d \in Dirs, a \in Artefacts : disk'[d][a] <= builds'
    BY <1>1, <2>1
  <2>8. Indexing' =>
          /\ finished' < builds'
          /\ \A d \in Dirs, a \in Artefacts :
               (a = "faiss" => wrote_faiss') => disk'[d][a] = builds' \/ StillWritten(d, a)'
    BY <1>1, <2>2, <2>4 DEF Indexing, StillWritten
  <2>9. \A i, j \in 1 .. Len(writes') : writes'[i] = writes'[j] => i = j
    BY <1>1, <2>3
  <2>10. ASSUME NEW d \in Dirs
         PROVE  disk'[d]["chunks"] # Mixed
    <3>1. "chunks" \in Artefacts /\ disk[d]["chunks"] # Mixed /\ builds # Mixed
      BY <1>3 DEF IInv, BuildOK, Artefacts, Mixed
    <3> QED BY <1>5, <3>1
  <2> QED BY <2>6, <2>7, <2>8, <2>9, <2>10 DEF BuildOK
<1>10. Orderly => \A s \in Searchers : loader[s].phase # "loading"
  BY <1>1 DEF IInv, OrderlyOK
<1>11. OrderlyOK'
  <2> SUFFICES ASSUME Orderly PROVE OrderlyOK'
    BY <1>1 DEF OrderlyOK, Orderly
  <2>1. ASSUME NEW d \in Dirs, NEW a \in Artefacts
        PROVE  disk'[d][a] \notin {Torn, Mixed}
    <3>1. CASE d = w.dir /\ a = w.art
      BY <1>3, <1>5, <3>1 DEF Torn, Mixed
    <3>2. CASE ~(d = w.dir /\ a = w.art)
      BY <1>4, <1>5, <3>2 DEF IInv, OrderlyOK, w
    <3> QED BY <3>1, <3>2
  <2>2. ASSUME NEW i \in 1 .. Len(rest)
        PROVE  disk'[rest[i].dir][rest[i].art] < builds
    <3>1. /\ rest[i] = [dir |-> rest[i].dir, art |-> rest[i].art]
          /\ rest[i].dir \in Dirs /\ rest[i].art \in Artefacts
          /\ disk[rest[i].dir][rest[i].art] < builds
      BY <1>4 DEF IInv, OrderlyOK
    <3>2. ~(rest[i].dir = w.dir /\ rest[i].art = w.art)
      BY <1>4, <1>8, <3>1
    <3> QED BY <1>5, <3>1, <3>2
  <2>3. rest = << >> => finished' = builds
    BY <1>1
  <2> QED BY <1>1, <1>10, <2>1, <2>2, <2>3 DEF OrderlyOK, Indexing
<1>12. LoadOK'
  <2>1. ASSUME NEW s \in Searchers
        PROVE  /\ loader'[s].reads \in ReadsLeft(loader'[s].semantic)
               /\ Orderly => /\ loader'[s].phase # "loading"
                             /\ Ready(s)' => loader'[s].got["bm25"] = loader'[s].got["chunks"]
    BY <1>1, <1>10 DEF IInv, LoadOK, Ready
  <2>2. Orderly' = Orderly
    BY <1>1 DEF Orderly
  <2> QED BY <2>1, <2>2 DEF LoadOK
<1>13. UniformOK'
  BY <1>1, UniformWaits DEF IInv
<1> QED BY <1>6, <1>9, <1>11, <1>12, <1>13 DEF IInv

\* The index command dies: it never finishes.
LEMMA CrashIInv ==
  ASSUME IInv, Crash
  PROVE  IInv'
<1>1. /\ Indexing /\ crashes < usage.crashes /\ crashes' = crashes + 1 /\ writes' = << >>
      /\ UNCHANGED <<usage, disk, builds, finished, wrote_faiss, loader>>
  BY DEF Crash
<1>2. TypeOK
  BY DEF IInv
<1>3. crashes + 1 \in 0 .. usage.crashes /\ usage.crashes # 0
  BY <1>1, <1>2, TypeFacts
<1>4. TypeOK'
  BY <1>1, <1>2, <1>3 DEF TypeOK, Generation
<1>5. finished # builds
  BY <1>1, <1>2, TypeFacts DEF IInv, BuildOK
<1>6. BuildOK'
  BY <1>1, <1>5 DEF IInv, BuildOK, FinishedBuildWhole, Indexing
<1>7. OrderlyOK'
  BY <1>1, <1>3 DEF OrderlyOK, Orderly
<1>8. LoadOK' /\ UniformOK'
  BY <1>1, LoadWaits, UniformWaits DEF IInv
<1> QED BY <1>4, <1>6, <1>7, <1>8 DEF IInv

-----------------------------------------------------------------------------
\* What the invariant says of one loader.
LoaderOK(l) ==
  /\ l \in LoaderType /\ (l.phase = "loading" <=> l.reads # << >>)
  /\ l.reads \in ReadsLeft(l.semantic)
  /\ Orderly =>
       /\ l.phase = "loading" =>
            /\ ~Indexing
            /\ Head(l.reads) # "chunks" => finished # 0 /\ l.got["chunks"] = finished
            /\ Head(l.reads) = "faiss" => l.got["bm25"] = finished
       /\ l.phase = "ready" => l.got["bm25"] = l.got["chunks"]
  /\ Uniform =>
       /\ l.phase = "loading" => l.semantic \in usage.flags
       /\ l.phase = "ready" /\ l.semantic => l.got["faiss"] = l.got["chunks"]

\* Together with the types it is all the invariant says of loaders.
LEMMA LoadersOK ==
  ASSUME IInv
  PROVE  \A s \in Searchers : LoaderOK(loader[s])
<1>1. loader \in [Searchers -> LoaderType]
  BY TypeFacts DEF IInv
<1>2. \A s \in Searchers : loader[s] \in LoaderType /\ (loader[s].phase = "loading" <=> loader[s].reads # << >>)
  BY <1>1 DEF IInv, TypeOK
<1> QED BY <1>2 DEF IInv, OrderlyOK, LoadOK, UniformOK, LoaderOK, Wanted, Ready

\* A step of one load, that leaves the disk alone.
LEMMA LoaderStep ==
  ASSUME IInv, NEW s \in Searchers, NEW new, LoaderOK(new),
         loader' = [loader EXCEPT ![s] = new],
         UNCHANGED <<usage, disk, builds, crashes, writes, finished, wrote_faiss>>
  PROVE  IInv'
<1>1. TypeOK /\ loader \in [Searchers -> LoaderType]
  BY TypeFacts DEF IInv
<1>2. new \in LoaderType
  BY DEF LoaderOK
<1>3. loader' \in [Searchers -> LoaderType] /\ \A t \in Searchers : LoaderOK(loader'[t])
  BY <1>1, <1>2, LoadersOK
<1>4. \A t \in Searchers : loader'[t].phase = "loading" <=> loader'[t].reads # << >>
  BY <1>3 DEF LoaderOK
<1>5. TypeOK'
  BY <1>1, <1>3, <1>4 DEF TypeOK, Generation, LoaderType
<1>6. BuildOK'
  BY BuildWaits DEF IInv
<1>7. Orderly' = Orderly /\ Uniform' = Uniform /\ Indexing' = Indexing
  BY DEF Orderly, Uniform, Indexing
<1>8. OrderlyOK'
  BY <1>3, <1>7 DEF IInv, OrderlyOK, LoaderOK, Indexing
<1>9. LoadOK'
  BY <1>3, <1>7 DEF LoadOK, LoaderOK, Wanted, Ready
<1>10. UniformOK'
  BY <1>3, <1>7 DEF IInv, UniformOK, LoaderOK, Ready
<1> QED BY <1>5, <1>6, <1>8, <1>9, <1>10 DEF IInv

\* A loader that has read nothing.
LEMMA IdleFacts ==
  ASSUME TypeOK
  PROVE  /\ Idle \in LoaderType
         /\ Idle.reads = << >> /\ Idle.semantic = FALSE
<1>1. Absent \in Generation /\ << >> \in Seq(Artefacts) /\ "docs" \in Dirs
  BY TypeFacts DEF Dirs
<1> QED BY <1>1 DEF Idle, LoaderType

\* What load_index reads.
LEMMA LoadOrderFacts ==
  ASSUME NEW semantic \in BOOLEAN
  PROVE  /\ LoadOrder(semantic) \in ReadsLeft(semantic) /\ LoadOrder(semantic) # << >>
         /\ LoadOrder(semantic) \in Seq(Artefacts) /\ Head(LoadOrder(semantic)) = "chunks"
<1> DEFINE two == <<"chunks", "bm25">>
           one == <<"faiss">>
           all == <<"chunks", "bm25", "faiss">>
<1>1. /\ two \in Seq(Artefacts) /\ Len(two) = 2 /\ two[1] = "chunks" /\ two[2] = "bm25"
      /\ two # << >> /\ Head(two) = "chunks"
  BY DEF Artefacts
<1>2. one \in Seq(Artefacts) /\ Len(one) = 1 /\ one[1] = "faiss"
  BY DEF Artefacts
<1>3. /\ all \in Seq(Artefacts) /\ Len(all) = 3
      /\ all[1] = "chunks" /\ all[2] = "bm25" /\ all[3] = "faiss"
      /\ all # << >> /\ Head(all) = "chunks"
  BY DEF Artefacts
<1>4. LoadOrder(semantic) = two \o (IF semantic THEN one ELSE << >>)
  BY DEF LoadOrder
<1>5. two \in ReadsLeft(FALSE) /\ all \in ReadsLeft(TRUE)
  BY DEF ReadsLeft
<1> HIDE DEF two, one, all
<1>6. CASE semantic
  <2>1. /\ two \o one \in Seq(Artefacts) /\ Len(two \o one) = Len(two) + Len(one)
        /\ \A i \in 1 .. Len(two) + Len(one) :
             (two \o one)[i] = IF i <= Len(two) THEN two[i] ELSE one[i - Len(two)]
    BY <1>1, <1>2, ConcatProperties
  <2>2. Len(two \o one) = Len(all)
    BY <1>1, <1>2, <1>3, <2>1
  <2>3. \A i \in 1 .. Len(all) : (two \o one)[i] = all[i]
    BY <1>1, <1>2, <1>3, <2>1
  <2>4. two \o one = all
    BY <1>3, <2>1, <2>2, <2>3, SeqEqual
  <2> QED BY <1>3, <1>4, <1>5, <1>6, <2>4
<1>7. CASE ~semantic
  BY <1>1, <1>4, <1>5, <1>7, ConcatEmptySeq
<1> QED BY <1>6, <1>7

\* A load starts: it has everything still to read.
LEMMA StartLoadIInv ==
  ASSUME IInv, NEW s \in usage.searchers, NEW d \in Dirs, NEW semantic \in usage.flags,
         StartLoad(s, d, semantic)
  PROVE  IInv'
<1> DEFINE new == [Idle EXCEPT !.phase = "loading", !.dir = d, !.semantic = semantic,
                               !.reads = LoadOrder(semantic)]
<1>1. /\ MayStart /\ loader' = [loader EXCEPT ![s] = new]
      /\ UNCHANGED <<usage, disk, builds, crashes, writes, finished, wrote_faiss>>
  BY DEF StartLoad
<1>2. s \in Searchers /\ semantic \in BOOLEAN /\ Absent \in Generation
  BY TypeFacts DEF IInv
<1>4. /\ LoadOrder(semantic) \in ReadsLeft(semantic) /\ LoadOrder(semantic) # << >>
      /\ LoadOrder(semantic) \in Seq(Artefacts) /\ Head(LoadOrder(semantic)) = "chunks"
  BY <1>2, LoadOrderFacts
<1>5. Orderly => ~Indexing
  BY <1>1 DEF MayStart, Orderly
<1>6. new \in LoaderType /\ new.phase = "loading" /\ new.semantic = semantic
      /\ new.reads = LoadOrder(semantic)
  <2>1. Idle \in LoaderType
    BY IdleFacts DEF IInv
  <2> QED BY <1>2, <1>4, <2>1 DEF LoaderType
<1> HIDE DEF new
<1>7. LoaderOK(new)
  BY <1>2, <1>4, <1>5, <1>6 DEF LoaderOK
<1> QED BY <1>1, <1>2, <1>7, LoaderStep

\* Nothing is being written when commands run one by one, and after a build
\* chunks and BM25 are of it.
LEMMA OrderlyDisk ==
  ASSUME IInv, Orderly, ~Indexing, NEW d \in Dirs
  PROVE  /\ finished = builds
         /\ disk[d]["chunks"] = finished /\ disk[d]["bm25"] = finished
         /\ wrote_faiss => disk[d]["faiss"] = finished
         /\ \A a \in Artefacts : disk[d][a] \notin {Torn, Mixed}
<1>1. finished = builds /\ \A a \in Artefacts : disk[d][a] \notin {Torn, Mixed}
  BY DEF IInv, OrderlyOK
<1> QED BY <1>1 DEF IInv, BuildOK, FinishedBuildWhole, Artefacts

\* One flag is all flags.
LEMMA OneFlag ==
  ASSUME TypeOK, Uniform
  PROVE  \A x, y \in usage.flags : x = y
<1>1. usage.flags \subseteq BOOLEAN /\ Cardinality(usage.flags) = 1
  BY TypeFacts DEF Uniform
<1>2. IsFiniteSet({TRUE, FALSE})
  <2>1. IsFiniteSet({TRUE}) /\ IsFiniteSet({FALSE})
    BY FS_Singleton
  <2>2. {TRUE, FALSE} = {TRUE} \cup {FALSE}
    OBVIOUS
  <2> QED BY <2>1, <2>2, FS_Union
<1>3. usage.flags \in SUBSET {TRUE, FALSE}
  BY <1>1
<1>4. IsFiniteSet(usage.flags)
  BY <1>2, <1>3, FS_Subset
<1>5. PICK x : usage.flags = {x}
  BY <1>1, <1>4, FS_Singleton
<1> QED BY <1>5

\* One artefact is read.
LEMMA ReadIInv ==
  ASSUME IInv, NEW s \in Searchers, ReadArtefact(s)
  PROVE  IInv'
<1> DEFINE l == loader[s]
           rest == Tail(l.reads)
           got == [l.got EXCEPT ![Wanted(s)] = Found(s)]
           new == [phase |-> IF rest = << >> THEN "ready" ELSE "loading", dir |-> l.dir,
                   semantic |-> l.semantic, reads |-> rest, got |-> got]
<1>1. TypeOK /\ l \in LoaderType /\ loader \in [Searchers -> LoaderType]
  BY TypeFacts DEF IInv
<1>2. /\ l.phase = "loading" /\ Found(s) \notin {Absent, Torn}
      /\ UNCHANGED <<usage, disk, builds, crashes, writes, finished, wrote_faiss>>
      /\ loader' = [loader EXCEPT ![s].got[Wanted(s)] = Found(s), ![s].reads = Tail(@),
                     ![s].phase = IF Tail(loader[s].reads) = << >> THEN "ready" ELSE @]
  BY DEF ReadArtefact
<1>3. /\ Wanted(s) \in Artefacts /\ rest \in ReadsLeft(l.semantic) /\ rest \in Seq(Artefacts)
      /\ Wanted(s) = "chunks" => rest # << >> /\ Head(rest) = "bm25"
      /\ Wanted(s) = "bm25" => IF l.semantic THEN rest = <<"faiss">> ELSE rest = << >>
      /\ Wanted(s) = "faiss" => l.semantic /\ rest = << >>
  BY <1>1, <1>2, LoadingFacts DEF IInv
<1>4. l.dir \in Dirs /\ l.semantic \in BOOLEAN /\ l.got \in [Artefacts -> Generation]
  BY <1>1 DEF LoaderType
<1>5. Found(s) \in Generation /\ Found(s) = disk[l.dir][Wanted(s)]
  BY <1>1, <1>3, <1>4, TypeFacts DEF Found
<1>6. loader' = [loader EXCEPT ![s] = new]
  <2>1. \A r \in LoaderType : r = [phase |-> r.phase, dir |-> r.dir, semantic |-> r.semantic,
                                   reads |-> r.reads, got |-> r.got]
    BY DEF LoaderType
  <2> QED BY <1>1, <1>2, <2>1
<1>7. /\ got \in [Artefacts -> Generation] /\ got[Wanted(s)] = Found(s)
      /\ \A a \in Artefacts : a # Wanted(s) => got[a] = l.got[a]
  BY <1>3, <1>4, <1>5
<1>8. LoaderOK(l)
  BY LoadersOK
<1>9. Wanted(s) = Head(l.reads)
  BY DEF Wanted
<1> HIDE DEF rest, got, l
<1>10. new \in LoaderType
  BY <1>3, <1>4, <1>7 DEF LoaderType
<1>11. Orderly =>
         /\ ~Indexing
         /\ Wanted(s) = "chunks" => got["chunks"] = finished /\ finished # 0
         /\ Wanted(s) # "chunks" => got["chunks"] = finished /\ finished # 0
         /\ Wanted(s) = "bm25" => got["bm25"] = finished
         /\ Wanted(s) = "faiss" => got["bm25"] = finished
  <2> SUFFICES ASSUME Orderly
               PROVE  /\ ~Indexing
                      /\ Wanted(s) = "chunks" => got["chunks"] = finished /\ finished # 0
                      /\ Wanted(s) # "chunks" => got["chunks"] = finished /\ finished # 0
                      /\ Wanted(s) = "bm25" => got["bm25"] = finished
                      /\ Wanted(s) = "faiss" => got["bm25"] = finished
    OBVIOUS
  <2>1. /\ ~Indexing
        /\ Wanted(s) # "chunks" => finished # 0 /\ l.got["chunks"] = finished
        /\ Wanted(s) = "faiss" => l.got["bm25"] = finished
    BY <1>2, <1>8, <1>9 DEF LoaderOK, l
  <2>2. disk[l.dir]["chunks"] = finished /\ disk[l.dir]["bm25"] = finished
    BY <1>4, <2>1, OrderlyDisk
  <2> QED BY <1>2, <1>5, <1>7, <2>1, <2>2 DEF Artefacts, Absent
<1>12. Uniform =>
         /\ l.semantic \in usage.flags
         /\ Wanted(s) = "faiss" => got["faiss"] = finished
  <2> SUFFICES ASSUME Uniform
               PROVE  l.semantic \in usage.flags /\ (Wanted(s) = "faiss" => got["faiss"] = finished)
    OBVIOUS
  <2>1. Orderly /\ l.semantic \in usage.flags
    BY <1>2, <1>8 DEF LoaderOK, Uniform, l
  <2>2. ASSUME Wanted(s) = "faiss"
        PROVE  got["faiss"] = finished
    <3>1. l.semantic /\ ~Indexing /\ finished # 0
      BY <1>3, <1>11, <2>1, <2>2
    <3>2. builds # 0
      BY <1>4, <2>1, <3>1, OrderlyDisk
    <3>3. wrote_faiss \in usage.flags
      BY <3>2 DEF IInv, UniformOK
    <3>4. wrote_faiss
      BY <1>1, <2>1, <3>1, <3>3, OneFlag
    <3>5. disk[l.dir]["faiss"] = finished
      BY <1>4, <2>1, <3>1, <3>4, OrderlyDisk
    <3> QED BY <1>5, <1>7, <2>2, <3>5
  <2> QED BY <2>1, <2>2
<1>13. /\ new.phase = IF rest = << >> THEN "ready" ELSE "loading"
       /\ new.semantic = l.semantic /\ new.reads = rest /\ new.got = got
  OBVIOUS
<1> HIDE DEF new
<1>14. LoaderOK(new)
  <2>1. CASE Wanted(s) = "chunks"
    BY <1>3, <1>10, <1>11, <1>12, <1>13, <2>1 DEF LoaderOK
  <2>2. CASE Wanted(s) = "bm25" /\ l.semantic
    <3>1. rest = <<"faiss">>
      BY <1>3, <2>2
    <3>2. rest # << >> /\ Head(rest) = "faiss"
      BY <3>1
    <3> QED BY <1>3, <1>10, <1>11, <1>12, <1>13, <2>2, <3>2 DEF LoaderOK
  <2>3. CASE Wanted(s) = "bm25" /\ ~l.semantic
    BY <1>3, <1>10, <1>11, <1>12, <1>13, <2>3 DEF LoaderOK
  <2>4. CASE Wanted(s) = "faiss"
    BY <1>3, <1>10, <1>11, <1>12, <1>13, <2>4 DEF LoaderOK, Uniform
  <2> QED BY <1>3, <2>1, <2>2, <2>3, <2>4 DEF Artefacts
<1> QED BY <1>2, <1>6, <1>14, LoaderStep

\* The search goes on without FAISS.
LEMMA FallBackIInv ==
  ASSUME IInv, NEW s \in Searchers, FallBack(s)
  PROVE  IInv'
<1> DEFINE l == loader[s]
           new == [phase |-> "ready", dir |-> l.dir, semantic |-> FALSE, reads |-> << >>,
                   got |-> l.got]
<1>1. TypeOK /\ l \in LoaderType /\ loader \in [Searchers -> LoaderType]
  BY TypeFacts DEF IInv
<1>2. /\ l.phase = "loading" /\ Wanted(s) = "faiss"
      /\ UNCHANGED <<usage, disk, builds, crashes, writes, finished, wrote_faiss>>
      /\ loader' = [loader EXCEPT ![s].semantic = FALSE, ![s].reads = << >>, ![s].phase = "ready"]
  BY DEF FallBack
<1>3. loader' = [loader EXCEPT ![s] = new]
  <2>1. \A r \in LoaderType : r = [phase |-> r.phase, dir |-> r.dir, semantic |-> r.semantic,
                                   reads |-> r.reads, got |-> r.got]
    BY DEF LoaderType
  <2> QED BY <1>1, <1>2, <2>1
<1>4. LoaderOK(l)
  BY LoadersOK
<1>5. Orderly => l.got["bm25"] = l.got["chunks"]
  BY <1>2, <1>4 DEF LoaderOK, Wanted
<1>6. << >> \in ReadsLeft(FALSE) /\ new \in LoaderType
  BY <1>1 DEF ReadsLeft, LoaderType
<1>7. LoaderOK(new)
  BY <1>5, <1>6 DEF LoaderOK
<1> HIDE DEF new
<1> QED BY <1>2, <1>3, <1>7, LoaderStep

\* The search command dies.
LEMMA LoadFailsIInv ==
  ASSUME IInv, NEW s \in Searchers, LoadFails(s)
  PROVE  IInv'
<1> DEFINE new == [Idle EXCEPT !.phase = "failed"]
<1>1. /\ UNCHANGED <<usage, disk, builds, crashes, writes, finished, wrote_faiss>>
      /\ loader' = [loader EXCEPT ![s] = new]
  BY DEF LoadFails
<1>2. new \in LoaderType /\ new.phase = "failed" /\ new.semantic = FALSE /\ new.reads = << >>
  <2>1. Idle \in LoaderType /\ Idle.reads = << >> /\ Idle.semantic = FALSE
    BY IdleFacts DEF IInv
  <2> QED BY <2>1 DEF LoaderType
<1> HIDE DEF new
<1>3. LoaderOK(new)
  BY <1>2 DEF LoaderOK, ReadsLeft
<1> QED BY <1>1, <1>3, LoaderStep

\* Every step keeps the inductive invariant.
LEMMA NextIInv == IInv /\ [Next]_vars => IInv'
<1> SUFFICES ASSUME IInv, [Next]_vars PROVE IInv'
  OBVIOUS
<1>1. CASE \E semantic \in usage.flags : StartIndex(semantic)
  BY <1>1, StartIndexIInv
<1>2. CASE BeginWrite \/ EndWrite \/ Crash
  BY <1>2, BeginWriteIInv, EndWriteIInv, CrashIInv
<1>3. CASE \E s \in usage.searchers, d \in Dirs, semantic \in usage.flags : StartLoad(s, d, semantic)
  BY <1>3, StartLoadIInv
<1>4. CASE \E s \in Searchers : Load(s)
  BY <1>4, ReadIInv, FallBackIInv, LoadFailsIInv DEF Load
<1>5. CASE UNCHANGED vars
  <2>1. UNCHANGED <<usage, disk, builds, crashes, writes, finished, wrote_faiss, loader>>
    BY <1>5 DEF vars
  <2>2. TypeOK' /\ OrderlyOK'
    BY <2>1 DEF IInv, TypeOK, Generation, OrderlyOK, Orderly, Indexing
  <2> QED BY <2>1, <2>2, BuildWaits, LoadWaits, UniformWaits DEF IInv
<1> QED BY <1>1, <1>2, <1>3, <1>4, <1>5 DEF Next

-----------------------------------------------------------------------------
\* Every reachable state satisfies the inductive invariant.
THEOREM Invariance == Spec => []IInv
BY InitIInv, NextIInv, PTL DEF Spec

\* Types: what is on disk is of a build made, unfinished or not there, and a
\* load that goes on has something to read.
THEOREM TypeCorrect == Spec => []TypeOK
<1>1. IInv => TypeOK
  BY DEF IInv
<1> QED BY <1>1, Invariance, PTL

\* A build that ran to its end repaired what dead ones left, however many there
\* were and whatever they had written.
THEOREM Repairs == Spec => []FinishedBuildWhole
<1>1. IInv => FinishedBuildWhole
  BY DEF IInv, BuildOK
<1> QED BY <1>1, Invariance, PTL

\* Searches without FAISS, run one at a time with the builds, work with the
\* ranks and chunks of one build.
THEOREM LexicalWhole == Spec => []LexicalSearchWhole
<1>1. IInv => LexicalSearchWhole
  <2> SUFFICES ASSUME IInv, Orderly, NEW s \in Searchers, Ready(s), ~loader[s].semantic
               PROVE  Cardinality(Loaded(s)) = 1
    BY DEF LexicalSearchWhole
  <2>1. loader[s].got["bm25"] = loader[s].got["chunks"]
    BY DEF IInv, LoadOK
  <2>2. Loaded(s) = {loader[s].got["chunks"]}
    BY <2>1 DEF Loaded, Artefacts
  <2> QED BY <2>2, FS_Singleton
<1> QED BY <1>1, Invariance, PTL

\* Once a build has run to its end, no load fails that is run one at a time
\* with the builds.
THEOREM LoadsSucceed == Spec => LoadsAfterBuildSucceed
<1> DEFINE Fails(s) == loader[s].phase = "loading" /\ loader'[s].phase = "failed"
<1>1. ASSUME IInv, Next, NEW s \in Searchers, Fails(s)
      PROVE  ~Orderly \/ finished = 0
  <2>1. TypeOK /\ loader \in [Searchers -> LoaderType]
    BY <1>1, TypeFacts DEF IInv
  <2>2. LoadFails(s)
    <3>1. loader' # loader
      BY <1>1
    <3>2. ASSUME NEW t \in usage.searchers, NEW d \in Dirs, NEW semantic \in usage.flags,
                 StartLoad(t, d, semantic)
          PROVE  FALSE
      <4>1. t \in Searchers /\ t # s
        BY <1>1, <2>1, <3>2, TypeFacts DEF StartLoad
      <4> QED BY <1>1, <2>1, <3>2, <4>1 DEF StartLoad
    <3>3. PICK t \in Searchers : Load(t)
      BY <1>1, <3>1, <3>2 DEF Next, StartIndex, BeginWrite, EndWrite, Crash
    <3>4. t = s
      BY <1>1, <2>1, <3>3 DEF Load, ReadArtefact, FallBack, LoadFails
    <3>5. ~ReadArtefact(s) /\ ~FallBack(s)
      BY <1>1, <2>1 DEF ReadArtefact, FallBack, LoaderType
    <3> QED BY <3>3, <3>4, <3>5 DEF Load
  <2> SUFFICES ASSUME Orderly, finished # 0 PROVE FALSE
    OBVIOUS
  <2>3. ~Indexing /\ loader[s].dir \in Dirs /\ Wanted(s) \in Artefacts
    BY <1>1, <2>1, LoadingFacts DEF IInv, OrderlyOK, LoaderType
  <2>4. /\ disk[loader[s].dir]["chunks"] = finished /\ disk[loader[s].dir]["bm25"] = finished
        /\ Found(s) \notin {Torn, Mixed}
    BY <1>1, <2>3, OrderlyDisk DEF Found
  <2> QED BY <2>2, <2>3, <2>4 DEF LoadFails, Found, Absent, Artefacts
<1>2. IInv /\ [Next]_vars =>
        [\A s \in Searchers :
           loader[s].phase = "loading" /\ loader'[s].phase = "failed" => ~Orderly \/ finished = 0]_vars
  BY <1>1
<1> QED BY <1>2, Invariance, PTL DEF Spec, LoadsAfterBuildSucceed

-----------------------------------------------------------------------------
\* What AtomicIndex sees of a state.
Seen == [d \in Dirs |-> IF ~Uniform THEN 0
                        ELSE IF disk[d]["chunks"] = Torn THEN builds ELSE disk[d]["chunks"]]
Views == [s \in Searchers |-> IF Uniform /\ Ready(s) THEN Loaded(s) ELSE {}]

\* Its actions, in these terms.
LEMMA Mapping ==
  /\ \A d \in Dirs :
       Seen'[d] > Seen[d] /\ Seen' = [Seen EXCEPT ![d] = Seen'[d]] /\ Views' = Views
         => Atomic!Next
  /\ \A s \in Searchers, d \in Dirs :
       Seen[d] # 0 /\ Views' = [Views EXCEPT ![s] = {Seen[d]}] /\ Seen' = Seen => Atomic!Next
  /\ \A s \in Searchers : Views' = [Views EXCEPT ![s] = {}] /\ Seen' = Seen => Atomic!Next
BY DEF Atomic!Next, Atomic!Publish, Atomic!Look, Atomic!Forget, Seen, Views

\* Commands that are not used uniformly are promised nothing.
LEMMA OthersStutter ==
  ASSUME ~Uniform, UNCHANGED usage
  PROVE  Seen' = Seen /\ Views' = Views
<1>1. ~Uniform'
  BY DEF Uniform, Orderly
<1> QED BY <1>1 DEF Seen, Views

\* What an unchanged loader works with.
LEMMA ViewsWait ==
  ASSUME UNCHANGED <<usage, loader>>
  PROVE  Views' = Views
BY DEF Views, Uniform, Orderly, Ready, Loaded

\* Only the first write of a directory shows: it publishes the new index.
LEMMA IndexSteps ==
  ASSUME IInv, Uniform,
         (\E semantic \in usage.flags : StartIndex(semantic)) \/ BeginWrite \/ EndWrite \/ Crash
  PROVE  Atomic!Next \/ (Seen' = Seen /\ Views' = Views)
<1>1. /\ TypeOK /\ Orderly /\ UNCHANGED <<usage, loader>> /\ Uniform' = Uniform
      /\ Views' = Views
  BY ViewsWait DEF IInv, Uniform, Orderly, StartIndex, BeginWrite, EndWrite, Crash
<1>2. CASE \E semantic \in usage.flags : StartIndex(semantic)
  <2>1. disk' = disk /\ \A d \in Dirs : disk[d]["chunks"] # Torn
    BY <1>1, <1>2 DEF StartIndex, IInv, OrderlyOK, Artefacts
  <2> QED BY <1>1, <2>1 DEF Seen
<1>3. CASE BeginWrite
  <2> DEFINE w == Head(writes)
             v == IF w.art = "bm25" /\ disk[w.dir][w.art] # Absent THEN Mixed ELSE Torn
  <2>1. /\ Indexing /\ disk' = [disk EXCEPT ![w.dir][w.art] = v] /\ builds' = builds
        /\ disk[w.dir][w.art] \notin {Torn, Mixed}
    BY <1>3 DEF BeginWrite
  <2>2. w.dir \in Dirs /\ w.art \in Artefacts /\ w = writes[1] /\ 1 \in 1 .. Len(writes)
    BY <1>1, <2>1, WritingFacts
  <2>3. v \in Generation /\ builds \in Nat /\ disk[w.dir][w.art] \in Int
    BY <1>1, <2>2, TypeFacts
  <2>4. w.art = "chunks" => v = Torn
    OBVIOUS
  <2>5. disk[w.dir][w.art] < builds
    BY <1>1, <2>2 DEF IInv, OrderlyOK
  <2> HIDE DEF w, v
  <2>6. \A d \in Dirs, a \in Artefacts :
          disk'[d][a] = IF d = w.dir /\ a = w.art THEN v ELSE disk[d][a]
    BY <1>1, <2>1, <2>2, <2>3, DiskStep
  <2>7. CASE w.art # "chunks"
    <3>1. \A d \in Dirs : disk'[d]["chunks"] = disk[d]["chunks"]
      BY <2>6, <2>7 DEF Artefacts
    <3> QED BY <1>1, <2>1, <3>1 DEF Seen
  <2>8. CASE w.art = "chunks"
    <3>1. Seen'[w.dir] = builds /\ Seen[w.dir] = disk[w.dir]["chunks"]
      BY <1>1, <2>1, <2>2, <2>4, <2>6, <2>8 DEF Seen
    <3>2. Seen'[w.dir] > Seen[w.dir]
      BY <2>3, <2>5, <2>8, <3>1
    <3>3. \A d \in Dirs : d # w.dir => Seen'[d] = Seen[d]
      <4>1. \A d \in Dirs : d # w.dir => disk'[d]["chunks"] = disk[d]["chunks"]
        BY <2>6 DEF Artefacts
      <4> QED BY <1>1, <2>1, <4>1 DEF Seen
    <3>4. Seen' = [Seen EXCEPT ![w.dir] = Seen'[w.dir]]
      BY <2>2, <3>3 DEF Seen
    <3> QED BY <1>1, <2>2, <3>2, <3>4, Mapping
  <2> QED BY <2>7, <2>8
<1>4. CASE EndWrite
  <2> DEFINE w == Head(writes)
  <2>1. /\ Indexing /\ disk' = [disk EXCEPT ![w.dir][w.art] = builds] /\ builds' = builds
        /\ disk[w.dir][w.art] \in {Torn, Mixed}
    BY <1>4 DEF EndWrite
  <2>2. w.dir \in Dirs /\ w.art \in Artefacts
    BY <1>1, <2>1, WritingFacts
  <2>3. builds \in Generation /\ builds \in Nat
    BY <1>1, TypeFacts
  <2> HIDE DEF w
  <2>4. \A d \in Dirs, a \in Artefacts :
          disk'[d][a] = IF d = w.dir /\ a = w.art THEN builds ELSE disk[d][a]
    BY <1>1, <2>1, <2>2, <2>3, DiskStep
  <2>5. ASSUME NEW d \in Dirs
        PROVE  (IF disk'[d]["chunks"] = Torn THEN builds ELSE disk'[d]["chunks"])
                 = IF disk[d]["chunks"] = Torn THEN builds ELSE disk[d]["chunks"]
    <3>1. "chunks" \in Artefacts /\ disk[d]["chunks"] # Mixed /\ builds # Torn
      BY <2>3 DEF IInv, BuildOK, Artefacts, Torn
    <3> QED BY <2>1, <2>4, <3>1
  <2> QED BY <1>1, <2>1, <2>5 DEF Seen
<1>5. CASE Crash
  <2>1. FALSE
    BY <1>1, <1>5, TypeFacts DEF Crash, Orderly
  <2> QED BY <2>1
<1> QED BY <1>2, <1>3, <1>4, <1>5

\* Only the start of a load and the last file read show: the searcher drops
\* its old index and takes the one that is there.
LEMMA LoadSteps ==
  ASSUME IInv, IInv', Uniform,
         \/ \E s \in usage.searchers, d \in Dirs, semantic \in usage.flags : StartLoad(s, d, semantic)
         \/ \E s \in Searchers : Load(s)
  PROVE  Atomic!Next \/ (Seen' = Seen /\ Views' = Views)
<1>1. /\ UNCHANGED <<usage, disk, builds, crashes, writes, finished, wrote_faiss>>
      /\ TypeOK /\ Orderly /\ Uniform' /\ Orderly'
  BY DEF IInv, Uniform, Orderly, StartLoad, Load, ReadArtefact, FallBack, LoadFails
<1>2. Seen' = Seen
  BY <1>1 DEF Seen
<1>3. loader \in [Searchers -> LoaderType] /\ usage.searchers \subseteq Searchers
  BY <1>1, TypeFacts
<1>4. ASSUME NEW s \in Searchers, NEW new, loader' = [loader EXCEPT ![s] = new]
      PROVE  /\ \A t \in Searchers : t # s => Views'[t] = Views[t]
             /\ Views' = [Views EXCEPT ![s] = Views'[s]]
             /\ loader'[s] = new
  <2>1. \A t \in Searchers : t # s => loader'[t] = loader[t]
    BY <1>3, <1>4
  <2>2. \A t \in Searchers : t # s => Views'[t] = Views[t]
    BY <1>1, <2>1 DEF Views, Ready, Loaded
  <2>3. Views' = [Views EXCEPT ![s] = Views'[s]]
    BY <2>2 DEF Views
  <2> QED BY <1>3, <1>4, <2>2, <2>3
<1>5. ASSUME NEW s \in usage.searchers, NEW d \in Dirs, NEW semantic \in usage.flags,
             StartLoad(s, d, semantic)
      PROVE  Atomic!Next
  <2> DEFINE new == [Idle EXCEPT !.phase = "loading", !.dir = d, !.semantic = semantic,
                                 !.reads = LoadOrder(semantic)]
  <2>1. loader' = [loader EXCEPT ![s] = new] /\ s \in Searchers
    BY <1>3, <1>5 DEF StartLoad
  <2>2. new.phase = "loading"
    BY DEF Idle
  <2> HIDE DEF new
  <2>3. Views' = [Views EXCEPT ![s] = Views'[s]] /\ loader'[s] = new
    BY <1>4, <2>1
  <2>4. Views'[s] = {}
    BY <2>1, <2>2, <2>3 DEF Views, Ready
  <2> QED BY <1>2, <2>1, <2>3, <2>4, Mapping
<1>6. ASSUME NEW s \in Searchers, loader[s].phase = "loading"
      PROVE  /\ Views[s] = {} /\ ~Indexing /\ loader[s].dir \in Dirs
             /\ Wanted(s) # "chunks" => finished # 0 /\ loader[s].got["chunks"] = finished
             /\ Wanted(s) = "faiss" => loader[s].semantic /\ wrote_faiss
             /\ Wanted(s) = "chunks" => Tail(loader[s].reads) # << >>
  <2>1. ~Indexing /\ (Wanted(s) # "chunks" => finished # 0 /\ loader[s].got["chunks"] = finished)
    BY <1>1, <1>6 DEF IInv, OrderlyOK, LoadOK
  <2>2. loader[s].dir \in Dirs
    BY <1>3 DEF LoaderType
  <2>3. ASSUME Wanted(s) = "faiss"
        PROVE  loader[s].semantic /\ wrote_faiss
    <3>1. loader[s].semantic /\ loader[s].semantic \in usage.flags
      BY <1>1, <1>6, <2>3, LoadingFacts DEF IInv, UniformOK
    <3>2. builds # 0
      BY <1>1, <2>1, <2>2, <2>3, OrderlyDisk
    <3>3. wrote_faiss \in usage.flags
      BY <3>2 DEF IInv, UniformOK
    <3> QED BY <1>1, <3>1, <3>3, OneFlag
  <2>4. Views[s] = {}
    BY <1>6 DEF Views, Ready
  <2> QED BY <1>1, <1>6, <2>1, <2>2, <2>3, <2>4, LoadingFacts DEF IInv
<1>7. ASSUME NEW s \in Searchers, ReadArtefact(s)
      PROVE  Atomic!Next \/ (Seen' = Seen /\ Views' = Views)
  <2> DEFINE l == loader[s]
             rest == Tail(l.reads)
             got == [l.got EXCEPT ![Wanted(s)] = Found(s)]
             new == [phase |-> IF rest = << >> THEN "ready" ELSE "loading", dir |-> l.dir,
                     semantic |-> l.semantic, reads |-> rest, got |-> got]
  <2>1. l.phase = "loading" /\ l \in LoaderType
    BY <1>3, <1>7 DEF ReadArtefact
  <2>2. loader' = [loader EXCEPT ![s] = new]
    <3>1. \A r \in LoaderType : r = [phase |-> r.phase, dir |-> r.dir, semantic |-> r.semantic,
                                     reads |-> r.reads, got |-> r.got]
      BY DEF LoaderType
    <3>2. loader' = [loader EXCEPT ![s].got[Wanted(s)] = Found(s), ![s].reads = Tail(@),
                       ![s].phase = IF Tail(loader[s].reads) = << >> THEN "ready" ELSE @]
      BY <1>7 DEF ReadArtefact
    <3> QED BY <1>3, <2>1, <3>1, <3>2
  <2>3. new.phase = (IF rest = << >> THEN "ready" ELSE "loading") /\ new.semantic = l.semantic /\ new.got = got
    OBVIOUS
  <2>4. Wanted(s) # "chunks" => got["chunks"] = l.got["chunks"]
    BY <2>1 DEF LoaderType, Artefacts
  <2> HIDE DEF new, got
  <2>5. Views' = [Views EXCEPT ![s] = Views'[s]] /\ loader'[s] = new
    BY <1>4, <2>2
  <2>6. Views[s] = {} /\ s \in DOMAIN Views
    BY <1>6, <2>1 DEF Views
  <2>7. CASE rest # << >>
    <3>1. Views'[s] = {}
      BY <2>3, <2>5, <2>7 DEF Views, Ready
    <3>2. Views' = Views
      BY <2>5, <2>6, <3>1 DEF Views
    <3> QED BY <1>2, <3>2
  <2>8. CASE rest = << >>
    <3>1. Wanted(s) # "chunks" /\ finished # 0 /\ got["chunks"] = finished
      BY <1>6, <2>1, <2>4, <2>8
    <3>2. /\ loader'[s].phase = "ready" /\ loader'[s].got["chunks"] = finished
      BY <2>3, <2>5, <2>8, <3>1
    <3>3. /\ loader'[s].got["bm25"] = finished
          /\ loader'[s].semantic => loader'[s].got["faiss"] = finished
      BY <1>1, <3>2 DEF IInv, LoadOK, UniformOK, Ready
    <3>4. Loaded(s)' = {finished}
      BY <3>2, <3>3 DEF Loaded, Artefacts
    <3>5. Views'[s] = {finished}
      BY <1>1, <3>2, <3>4 DEF Views, Ready
    <3>6. /\ l.dir \in Dirs /\ disk[l.dir]["chunks"] = finished
          /\ disk[l.dir]["chunks"] # Torn
      BY <1>1, <1>6, <2>1, OrderlyDisk DEF Artefacts
    <3>7. Seen[l.dir] = finished
      BY <3>6 DEF Seen
    <3> QED BY <1>2, <2>5, <3>1, <3>5, <3>6, <3>7, Mapping
  <2> QED BY <2>7, <2>8
<1>8. ASSUME NEW s \in Searchers, FallBack(s)
      PROVE  FALSE
  <2>1. /\ loader[s].phase = "loading" /\ Wanted(s) = "faiss"
        /\ disk[loader[s].dir]["faiss"] = Absent
    BY <1>8 DEF FallBack, Found
  <2>2. finished # 0 /\ wrote_faiss /\ ~Indexing /\ loader[s].dir \in Dirs
    BY <1>6, <2>1
  <2>3. disk[loader[s].dir]["faiss"] = finished
    BY <1>1, <2>2, OrderlyDisk
  <2> QED BY <2>1, <2>2, <2>3 DEF Absent
<1>9. ASSUME NEW s \in Searchers, LoadFails(s)
      PROVE  Views' = Views
  <2> DEFINE new == [Idle EXCEPT !.phase = "failed"]
  <2>1. loader' = [loader EXCEPT ![s] = new] /\ loader[s].phase = "loading"
    BY <1>9 DEF LoadFails
  <2>2. new.phase = "failed"
    BY DEF Idle
  <2> HIDE DEF new
  <2>3. Views' = [Views EXCEPT ![s] = Views'[s]] /\ loader'[s] = new
    BY <1>4, <2>1
  <2>4. Views'[s] = {} /\ Views[s] = {}
    BY <1>6, <2>1, <2>2, <2>3 DEF Views, Ready
  <2> QED BY <2>3, <2>4 DEF Views
<1> QED BY <1>2, <1>5, <1>7, <1>8, <1>9 DEF Load

\* Saving and loading implement AtomicIndex: used uniformly, one command at a
\* time and to its end, no searcher ever sees an index in parts, for any
\* number of builds and searchers.
THEOREM ImplementsAtomic == Spec => AtomicSpec
<1>1. Init => Atomic!Init
  BY DEF Init, Atomic!Init, Ready, Idle, Artefacts, Absent, Torn
<1>2. IInv /\ IInv' /\ [Next]_vars => Atomic!Next \/ (Seen' = Seen /\ Views' = Views)
  <2> SUFFICES ASSUME IInv, IInv', [Next]_vars
               PROVE  Atomic!Next \/ (Seen' = Seen /\ Views' = Views)
    OBVIOUS
  <2>1. UNCHANGED usage
    BY DEF Next, vars, StartIndex, BeginWrite, EndWrite, Crash, StartLoad, Load, ReadArtefact,
           FallBack, LoadFails
  <2>2. CASE ~Uniform
    BY <2>1, <2>2, OthersStutter
  <2>3. CASE Uniform /\ UNCHANGED vars
    BY <2>3 DEF vars, Seen, Views, Uniform, Orderly, Ready, Loaded
  <2>4. CASE Uniform /\ Next
    BY <2>4, IndexSteps, LoadSteps DEF Next
  <2> QED BY <2>2, <2>3, <2>4
<1>3. IInv /\ IInv' /\ [Next]_vars =>
        [Atomic!Next]_<<[d \in Dirs |->
                          IF ~Uniform THEN 0
                          ELSE IF disk[d]["chunks"] = Torn THEN builds ELSE disk[d]["chunks"]],
                        [s \in Searchers |-> IF Uniform /\ Ready(s) THEN Loaded(s) ELSE {}]>>
  BY <1>2 DEF Seen, Views
<1> QED BY <1>1, <1>3, Invariance, PTL DEF Spec, AtomicSpec, Atomic!Spec
=============================================================================
