---------------------------- MODULE IndexBuildProofs ---------------------------
(***************************************************************************)
(* What the rows of an index are, for every corpus directory: any files,   *)
(* any numbers of chunks and any changes made to files while the index     *)
(* command runs.                                                           *)
(*                                                                         *)
(* The list of chunks and the rows are made by two passes, of which the    *)
(* second follows the order of a dict.  They agree because the chunks of a *)
(* file stand together: item i of the dict is then the run of chunks       *)
(* between two cuts (Laid), and reading the next item moves the first cut. *)
(***************************************************************************)
EXTENDS IndexBuild, FiniteSetTheorems, TLAPS

ItemType == [file : Files, chunks : Seq(PieceType)]

-----------------------------------------------------------------------------
\* What os.walk lists: every file that is picked, once.
LEMMA WalkIs ==
  ASSUME NEW S, IsFiniteSet(S), NEW order \in SetToSeqs(S)
  PROVE  /\ order \in Seq(S)
         /\ \A i, j \in 1 .. Len(order) : order[i] = order[j] => i = j
         /\ \A f \in S : \E i \in 1 .. Len(order) : order[i] = f
<1> DEFINE n == Cardinality(S)
<1>1. n \in Nat
  BY FS_CardinalityType
<1>2. order \in [1 .. n -> S] /\ \A i, j \in 1 .. n : i # j => order[i] # order[j]
  BY DEF SetToSeqs
<1>3. order \in Seq(S) /\ Len(order) = n
  <2> HIDE DEF n
  <2> QED BY <1>1, <1>2
<1>4. order \in Injection(1 .. n, S)
  BY <1>2 DEF Injection, IsInjective
<1>5. Cardinality(1 .. n) = n
  <2>1. Cardinality(1 .. n) = IF 1 > n THEN 0 ELSE n - 1 + 1
    <3> HIDE DEF n
    <3> QED BY <1>1, FS_Interval
  <2> HIDE DEF n
  <2> QED BY <1>1, <2>1
<1>6. order \in Surjection(1 .. n, S)
  BY <1>4, <1>5, FS_Injection
<1>7. \A f \in S : \E i \in 1 .. n : order[i] = f
  BY <1>6 DEF Surjection
<1> HIDE DEF n
<1> QED BY <1>2, <1>3, <1>7

-----------------------------------------------------------------------------
\* The dict.

LEMMA ItemIs ==
  ASSUME NEW f \in Files, NEW own \in Seq(PieceType)
  PROVE  Item(f, own) \in ItemType /\ Item(f, own).file = f /\ Item(f, own).chunks = own
BY DEF Item, ItemType

\* Where the file has no item yet;
LEMMA FiledNew ==
  ASSUME NEW dict \in Seq(ItemType), NEW c \in PieceType,
         \A i \in 1 .. Len(dict) : dict[i].file # c.file
  PROVE  LET new == Filed(dict, c)
         IN  /\ new \in Seq(ItemType) /\ Len(new) = Len(dict) + 1
             /\ \A i \in 1 .. Len(dict) : new[i] = dict[i]
             /\ new[Len(dict) + 1] = Item(c.file, <<c>>)
<1>1. c.file \in Files /\ <<c>> \in Seq(PieceType)
  BY DEF PieceType
<1>2. Item(c.file, <<c>>) \in ItemType
  BY <1>1, ItemIs
<1>3. Filed(dict, c) = Append(dict, Item(c.file, <<c>>))
  BY DEF Filed
<1> QED BY <1>2, <1>3

\* and where the last item is the file's.
LEMMA FiledLast ==
  ASSUME NEW dict \in Seq(ItemType), NEW c \in PieceType, dict # << >>,
         dict[Len(dict)].file = c.file,
         \A i, j \in 1 .. Len(dict) : dict[i].file = dict[j].file => i = j
  PROVE  LET new == Filed(dict, c)
         IN  /\ new \in Seq(ItemType) /\ Len(new) = Len(dict)
             /\ \A i \in 1 .. Len(dict) - 1 : new[i] = dict[i]
             /\ new[Len(dict)] = Item(c.file, Append(dict[Len(dict)].chunks, c))
<1> DEFINE len == Len(dict)
           new == [i \in 1 .. len |->
                     IF dict[i].file = c.file THEN Item(c.file, Append(dict[i].chunks, c))
                     ELSE dict[i]]
<1>1. len \in Nat /\ len \in 1 .. len /\ DOMAIN dict = 1 .. len
  OBVIOUS
<1>2. Filed(dict, c) = new
  BY <1>1 DEF Filed
<1>3. ASSUME NEW i \in 1 .. len
      PROVE  new[i] \in ItemType
  <2>1. dict[i] \in ItemType
    OBVIOUS
  <2>2. dict[i].chunks \in Seq(PieceType) /\ c.file \in Files
    BY <2>1 DEF ItemType, PieceType
  <2>3. Append(dict[i].chunks, c) \in Seq(PieceType)
    BY <2>2
  <2>4. Item(c.file, Append(dict[i].chunks, c)) \in ItemType
    BY <2>2, <2>3, ItemIs
  <2> QED BY <2>1, <2>4
<1>4. new \in [1 .. len -> ItemType]
  BY <1>3
<1>5. new \in Seq(ItemType) /\ Len(new) = len
  <2> HIDE DEF new
  <2> QED BY <1>1, <1>4
<1>6. \A i \in 1 .. len - 1 : i \in 1 .. len /\ dict[i].file # c.file
  BY <1>1
<1>7. \A i \in 1 .. len - 1 : new[i] = dict[i]
  BY <1>6
<1>8. new[len] = Item(c.file, Append(dict[len].chunks, c))
  BY <1>1
<1> HIDE DEF new
<1> QED BY <1>2, <1>5, <1>7, <1>8

\* As the chunks of a file stand together, the next one belongs to the last
\* item or to none.
LEMMA NextFileIsLast ==
  ASSUME NEW s \in Seq(PieceType), Contiguous(s),
         NEW n \in 0 .. Len(s) - 1,
         NEW dict \in Seq(ItemType), NEW cut \in [1 .. Len(dict) + 1 -> 0 .. n],
         Laid(dict, s, cut, n), NEW i \in 1 .. Len(dict), dict[i].file = s[n + 1].file
  PROVE  i = Len(dict)
<1> SUFFICES ASSUME i < Len(dict) PROVE FALSE
  OBVIOUS
<1>1. /\ i + 1 \in 1 .. Len(dict) /\ i \in 1 .. Len(dict) + 1
      /\ i + 1 \in 1 .. Len(dict) + 1 /\ (i + 1) + 1 \in 1 .. Len(dict) + 1
  OBVIOUS
<1> DEFINE a == cut[i]
           b == cut[i + 1]
           d == cut[(i + 1) + 1]
<1>2. a \in 0 .. n /\ b \in 0 .. n /\ d \in 0 .. n
  BY <1>1
<1>3. /\ a < b /\ Len(dict[i].chunks) = b - a
      /\ \A h \in 1 .. b - a : s[a + h].file = dict[i].file
  BY DEF Laid, RunOf
<1>4. /\ b < d /\ \A h \in 1 .. d - b : s[b + h].file = dict[i + 1].file
  BY <1>1 DEF Laid, RunOf
<1>5. dict[i + 1].file # dict[i].file
  BY <1>1 DEF Laid
<1> HIDE DEF a, b, d
<1>6. s[b].file = dict[i].file
  <2>1. b - a \in 1 .. b - a /\ a + (b - a) = b
    BY <1>2, <1>3
  <2> QED BY <1>3, <2>1
<1>7. s[b + 1].file = dict[i + 1].file
  <2>1. 1 \in 1 .. d - b
    BY <1>2, <1>4
  <2> QED BY <1>4, <2>1
<1>8. b \in 1 .. Len(s) /\ n + 1 \in 1 .. Len(s) /\ b + 1 \in b .. n + 1
  BY <1>2, <1>3, <1>4
<1>9. s[b + 1].file = s[b].file
  BY <1>6, <1>8 DEF Contiguous
<1> QED BY <1>5, <1>6, <1>7, <1>9

\* Filing the next chunk leaves the items laid out.
LEMMA LaidFiled ==
  ASSUME NEW s \in Seq(PieceType), Contiguous(s), NEW n \in 0 .. Len(s) - 1,
         NEW dict \in Seq(ItemType), NEW cut \in [1 .. Len(dict) + 1 -> 0 .. n],
         Laid(dict, s, cut, n), cut[1] = 0
  PROVE  LET new == Filed(dict, s[n + 1])
         IN  /\ new \in Seq(ItemType)
             /\ \E to \in [1 .. Len(new) + 1 -> 0 .. n + 1] :
                  Laid(new, s, to, n + 1) /\ to[1] = 0
<1> DEFINE c == s[n + 1]
           len == Len(dict)
           new == Filed(dict, c)
<1>1. /\ Len(s) \in Nat /\ n \in Nat /\ n + 1 \in 1 .. Len(s) /\ c \in PieceType /\ len \in Nat
      /\ 1 \in 1 .. len + 1 /\ len + 1 \in 1 .. len + 1
  OBVIOUS
<1>2. /\ cut[len + 1] = n
      /\ \A i \in 1 .. len : RunOf(dict[i], s, cut[i], cut[i + 1])
      /\ \A i, j \in 1 .. len : dict[i].file = dict[j].file => i = j
  BY DEF Laid
<1>3. \A i \in 1 .. len + 1 : cut[i] \in 0 .. n
  OBVIOUS
<1>4. \A i \in 1 .. len : dict[i].file = c.file => i = len
  BY NextFileIsLast
<1>5. CASE \A i \in 1 .. len : dict[i].file # c.file
  <2>1. /\ new \in Seq(ItemType) /\ Len(new) = len + 1
        /\ \A i \in 1 .. len : new[i] = dict[i]
        /\ new[len + 1] = Item(c.file, <<c>>)
    BY <1>1, <1>5, FiledNew
  <2>2. new[len + 1].file = c.file /\ new[len + 1].chunks = <<c>>
    BY <2>1 DEF Item
  <2> DEFINE to == [i \in 1 .. (len + 1) + 1 |-> IF i \in 1 .. len + 1 THEN cut[i] ELSE n + 1]
  <2>3. to \in [1 .. (len + 1) + 1 -> 0 .. n + 1]
    BY <1>1, <1>3
  <2>4. /\ \A i \in 1 .. len + 1 : to[i] = cut[i]
        /\ to[(len + 1) + 1] = n + 1
    BY <1>1
  <2> HIDE DEF to, new, c, len
  <2>5. \A i \in 1 .. len + 1 : i \in 1 .. len \/ i = len + 1
    BY <1>1
  <2>6. ASSUME NEW i \in 1 .. len + 1
        PROVE  RunOf(new[i], s, to[i], to[i + 1])
    <3>1. CASE i \in 1 .. len
      <4>1. i \in 1 .. len + 1 /\ i + 1 \in 1 .. len + 1
        BY <1>1, <3>1
      <4>2. to[i] = cut[i] /\ to[i + 1] = cut[i + 1] /\ new[i] = dict[i]
        BY <2>1, <2>4, <3>1, <4>1
      <4> QED BY <1>2, <3>1, <4>2
    <3>2. CASE i = len + 1
      <4>1. to[i] = n /\ to[i + 1] = n + 1
        BY <1>1, <1>2, <2>4, <3>2
      <4>2. new[i].chunks = <<c>> /\ new[i].file = c.file
        BY <2>2, <3>2
      <4>3. Len(<<c>>) = 1 /\ <<c>>[1] = c
        OBVIOUS
      <4>4. (n + 1) - n = 1 /\ n < n + 1 /\ c = s[n + 1]
        BY <1>1 DEF c
      <4>5. \A h \in 1 .. 1 : h = 1
        OBVIOUS
      <4> QED BY <4>1, <4>2, <4>3, <4>4, <4>5 DEF RunOf
    <3> QED BY <2>5, <3>1, <3>2
  <2>7. \A i, j \in 1 .. len + 1 : new[i].file = new[j].file => i = j
    BY <1>2, <1>5, <2>1, <2>2, <2>5
  <2>8. Laid(new, s, to, n + 1)
    BY <2>1, <2>4, <2>6, <2>7 DEF Laid
  <2>9. to[1] = 0
    BY <1>1, <2>4 DEF len
  <2> QED BY <2>1, <2>3, <2>8, <2>9 DEF new, c
<1>6. CASE \E i \in 1 .. len : dict[i].file = c.file
  <2>1. len \in 1 .. len /\ dict[len].file = c.file /\ dict # << >>
    BY <1>1, <1>4, <1>6
  <2>2. /\ new \in Seq(ItemType) /\ Len(new) = len
        /\ \A i \in 1 .. len - 1 : new[i] = dict[i]
        /\ new[len] = Item(c.file, Append(dict[len].chunks, c))
    BY <1>1, <1>2, <2>1, FiledLast
  <2> DEFINE own == dict[len].chunks
  <2>3. new[len].file = c.file /\ new[len].chunks = Append(own, c)
    BY <2>2 DEF Item
  <2>4. own \in Seq(PieceType)
    <3>1. dict[len] \in ItemType
      BY <2>1
    <3> QED BY <3>1 DEF ItemType
  <2>5. /\ cut[len] < n /\ Len(own) = n - cut[len] /\ cut[len] \in 0 .. n
        /\ \A h \in 1 .. n - cut[len] : own[h] = s[cut[len] + h] /\ s[cut[len] + h].file = c.file
    <3>1. RunOf(dict[len], s, cut[len], n) /\ cut[len] \in 0 .. n
      BY <1>1, <1>2, <1>3, <2>1
    <3> QED BY <2>1, <3>1 DEF RunOf
  <2> DEFINE to == [i \in 1 .. len + 1 |-> IF i \in 1 .. len THEN cut[i] ELSE n + 1]
  <2>6. to \in [1 .. len + 1 -> 0 .. n + 1]
    BY <1>1, <1>3
  <2>7. (\A i \in 1 .. len : to[i] = cut[i]) /\ to[len + 1] = n + 1
    BY <1>1
  <2> HIDE DEF to, new, c, own
  <2>8. Len(Append(own, c)) = Len(own) + 1
        /\ \A h \in 1 .. Len(own) : Append(own, c)[h] = own[h]
        /\ Append(own, c)[Len(own) + 1] = c
    BY <2>4
  <2> HIDE DEF len
  <2>9. \A i \in 1 .. len : i \in 1 .. len - 1 \/ i = len
    BY <1>1
  <2>10. ASSUME NEW i \in 1 .. len
         PROVE  RunOf(new[i], s, to[i], to[i + 1])
    <3>1. CASE i \in 1 .. len - 1
      <4>1. i + 1 \in 1 .. len
        BY <1>1, <3>1
      <4>2. to[i] = cut[i] /\ to[i + 1] = cut[i + 1] /\ new[i] = dict[i]
        BY <2>2, <2>7, <3>1, <4>1
      <4> QED BY <1>2, <4>2
    <3>2. CASE i = len
      <4> DEFINE a == cut[len]
      <4>1. to[i] = a /\ to[i + 1] = n + 1
        BY <1>1, <2>1, <2>7, <3>2
      <4>2. new[i].file = c.file /\ new[i].chunks = Append(own, c)
        BY <2>3, <3>2
      <4>3. a \in Nat /\ a < n /\ Len(own) = n - a /\ c = s[n + 1]
            /\ \A h \in 1 .. n - a : own[h] = s[a + h] /\ s[a + h].file = c.file
        BY <1>1, <2>5 DEF c
      <4> HIDE DEF a
      <4>4. /\ a < n + 1 /\ Len(own) + 1 = (n + 1) - a /\ a + ((n + 1) - a) = n + 1
            /\ \A h \in 1 .. (n + 1) - a : h \in 1 .. n - a \/ h = (n + 1) - a
        BY <1>1, <4>3
      <4>5. Len(Append(own, c)) = (n + 1) - a /\ Append(own, c)[(n + 1) - a] = c
            /\ \A h \in 1 .. n - a : Append(own, c)[h] = own[h]
        BY <2>8, <4>3, <4>4
      <4>6. \A h \in 1 .. (n + 1) - a :
              Append(own, c)[h] = s[a + h] /\ s[a + h].file = c.file
        BY <4>3, <4>4, <4>5
      <4> QED BY <4>1, <4>2, <4>4, <4>5, <4>6 DEF RunOf
    <3> QED BY <2>9, <3>1, <3>2
  <2>11. \A i, j \in 1 .. len : new[i].file = new[j].file => i = j
    <3>1. \A i \in 1 .. len : new[i].file = dict[i].file
      BY <2>1, <2>2, <2>3, <2>9
    <3> QED BY <1>2, <3>1
  <2>12. Laid(new, s, to, n + 1)
    BY <2>2, <2>7, <2>10, <2>11 DEF Laid
  <2>13. to[1] = 0
    BY <1>1, <2>1, <2>7
  <2> QED BY <2>2, <2>6, <2>12, <2>13 DEF new, c
<1> QED BY <1>5, <1>6

\* So does reading the first item.
LEMMA LaidTail ==
  ASSUME NEW s \in Seq(PieceType), NEW n \in Nat,
         NEW dict \in Seq(ItemType), dict # << >>,
         NEW cut \in [1 .. Len(dict) + 1 -> 0 .. n], Laid(dict, s, cut, n)
  PROVE  /\ cut[1] \in 0 .. n /\ cut[2] \in 0 .. n
         /\ \E to \in [1 .. Len(Tail(dict)) + 1 -> 0 .. n] :
              Laid(Tail(dict), s, to, n) /\ to[1] = cut[2]
<1> DEFINE len == Len(dict)
           to == [i \in 1 .. len |-> cut[i + 1]]
           rest == Tail(dict)
<1>1. /\ len \in Nat \ {0} /\ 1 \in 1 .. len + 1 /\ 2 \in 1 .. len + 1 /\ 1 \in 1 .. len
      /\ (len - 1) + 1 = len /\ len - 1 \in Nat
  OBVIOUS
<1>2. rest \in Seq(ItemType) /\ Len(rest) = len - 1 /\ \A i \in 1 .. len - 1 : rest[i] = dict[i + 1]
  OBVIOUS
<1>3. \A i \in 1 .. len : i + 1 \in 1 .. len + 1 /\ cut[i + 1] \in 0 .. n
  BY <1>1
<1>4. to \in [1 .. len -> 0 .. n] /\ \A i \in 1 .. len : to[i] = cut[i + 1]
  BY <1>3
<1>5. /\ cut[len + 1] = n
      /\ \A i \in 1 .. len : RunOf(dict[i], s, cut[i], cut[i + 1])
      /\ \A i, j \in 1 .. len : dict[i].file = dict[j].file => i = j
  BY DEF Laid
<1> HIDE DEF to, rest, len
<1>6. ASSUME NEW i \in 1 .. len - 1
      PROVE  RunOf(rest[i], s, to[i], to[i + 1])
  <2>1. i + 1 \in 1 .. len /\ i \in 1 .. len
    BY <1>1
  <2>2. to[i] = cut[i + 1] /\ to[i + 1] = cut[(i + 1) + 1] /\ rest[i] = dict[i + 1]
    BY <1>2, <1>4, <2>1
  <2> QED BY <1>5, <2>1, <2>2
<1>7. \A i, j \in 1 .. len - 1 : rest[i].file = rest[j].file => i = j
  <2> SUFFICES ASSUME NEW i \in 1 .. len - 1, NEW j \in 1 .. len - 1, rest[i].file = rest[j].file
               PROVE  i = j
    OBVIOUS
  <2>1. i + 1 \in 1 .. len /\ j + 1 \in 1 .. len /\ dict[i + 1].file = dict[j + 1].file
    BY <1>1, <1>2
  <2>2. i + 1 = j + 1
    BY <1>5, <2>1
  <2> QED BY <2>2
<1>8. to[(len - 1) + 1] = n
  BY <1>1, <1>4, <1>5
<1>9. Laid(rest, s, to, n)
  BY <1>2, <1>6, <1>7, <1>8 DEF Laid
<1>10. to[1] = cut[2] /\ cut[2] \in 0 .. n
  <2>1. to[1] = cut[1 + 1] /\ cut[1 + 1] \in 0 .. n /\ 1 + 1 = 2
    BY <1>1, <1>3, <1>4
  <2> QED BY <2>1
<1>11. cut[1] \in 0 .. n
  BY <1>1 DEF len
<1> QED BY <1>1, <1>2, <1>4, <1>9, <1>10, <1>11 DEF rest

-----------------------------------------------------------------------------
\* Types.

LEMMA SelectedFiles ==
  ASSUME NEW code
  PROVE  Selected(code) \subseteq Files /\ IsFiniteSet(Selected(code))
<1>1. Selected(code) \subseteq Files
  BY DEF Selected
<1> QED BY <1>1, FS_Subset, FilesAssumption

LEMMA ChunksOfIs ==
  ASSUME TypeOK, NEW f \in Files
  PROVE  /\ ChunksOf(f) \in Seq(PieceType) /\ Len(ChunksOf(f)) = disk[f].count
         /\ disk[f].count \in Nat
         /\ \A n \in 1 .. disk[f].count :
              ChunksOf(f)[n] = Piece(f, n) /\ Piece(f, n) \in PieceType
<1>1. disk[f].count \in Nat /\ disk[f].version \in 0 .. MaxChanges
  BY FilesAssumption DEF TypeOK
<1>2. \A n \in 1 .. disk[f].count : Piece(f, n) \in PieceType
  BY <1>1 DEF Piece, PieceType
<1> DEFINE all == [n \in 1 .. disk[f].count |-> Piece(f, n)]
<1>3. all \in [1 .. disk[f].count -> PieceType] /\ \A n \in 1 .. disk[f].count : all[n] = Piece(f, n)
  BY <1>2
<1>4. ChunksOf(f) = all
  BY DEF ChunksOf
<1> HIDE DEF all
<1>5. all \in Seq(PieceType) /\ Len(all) = disk[f].count
  BY <1>1, <1>3
<1> QED BY <1>1, <1>2, <1>3, <1>4, <1>5

\* The rows of an item.
LEMMA RowsAre ==
  ASSUME TypeOK, NEW f \in Files, NEW own \in Seq(PieceType)
  PROVE  LET rows == [i \in 1 .. Len(own) |-> Piece(f, own[i].number)]
         IN  /\ rows \in Seq(PieceType) /\ Len(rows) = Len(own)
             /\ \A i \in 1 .. Len(own) : rows[i] = Piece(f, own[i].number)
<1> DEFINE rows == [i \in 1 .. Len(own) |-> Piece(f, own[i].number)]
<1>1. disk[f].version \in 0 .. MaxChanges /\ Len(own) \in Nat
  BY DEF TypeOK
<1>2. ASSUME NEW i \in 1 .. Len(own)
      PROVE  Piece(f, own[i].number) \in PieceType
  <2>1. own[i] \in PieceType
    OBVIOUS
  <2> QED BY <1>1, <2>1 DEF Piece, PieceType
<1>3. rows \in [1 .. Len(own) -> PieceType]
      /\ \A i \in 1 .. Len(own) : rows[i] = Piece(f, own[i].number)
  BY <1>2
<1> HIDE DEF rows
<1>4. rows \in Seq(PieceType) /\ Len(rows) = Len(own)
  BY <1>1, <1>3
<1> QED BY <1>3, <1>4 DEF rows

LEMMA HeadIs ==
  ASSUME TypeOK, groups # << >>
  PROVE  /\ Head(groups) = groups[1] /\ groups[1] \in ItemType /\ 1 \in 1 .. Len(groups)
         /\ groups \in Seq(ItemType)
         /\ Head(groups).file \in Files /\ Head(groups).chunks \in Seq(PieceType)
<1>1. groups \in Seq(ItemType)
  BY DEF TypeOK, ItemType
<1>2. Head(groups) = groups[1] /\ groups[1] \in ItemType /\ 1 \in 1 .. Len(groups)
  BY <1>1
<1> QED BY <1>1, <1>2 DEF ItemType

LEMMA InitIInv == Init => IInv
<1> SUFFICES ASSUME Init PROVE IInv
  OBVIOUS
<1>1. TypeOK
  BY FilesAssumption DEF Init, TypeOK
<1>2. VersionsOK
  BY DEF Init, VersionsOK
<1>3. IngestOK /\ ChunksKept /\ CorpusOK
  BY DEF Init, IngestOK, Contiguous, ChunksKept, CorpusOK
<1> QED BY <1>1, <1>2, <1>3 DEF IInv

LEMMA NextTypeOK ==
  ASSUME IInv, [Next]_vars
  PROVE  TypeOK' /\ VersionsOK'
<1>1. TypeOK /\ VersionsOK /\ IngestOK /\ CorpusOK
  BY DEF IInv
<1>2. CASE UNCHANGED vars
  BY <1>1, <1>2 DEF TypeOK, VersionsOK, vars
<1>3. CASE Walk
  <2>1. PICK order \in SetToSeqs(Selected(is_code)) : walked' = order
    BY <1>3 DEF Walk
  <2>2. order \in Seq(Selected(is_code)) /\ Selected(is_code) \subseteq Files
    BY WalkIs, SelectedFiles
  <2>3. order \in Seq(Files)
    BY <2>2
  <2> QED BY <1>1, <1>3, <2>1, <2>3 DEF Walk, TypeOK, VersionsOK
<1>4. CASE Ingest
  <2>1. Head(walked) \in Files /\ Tail(walked) \in Seq(Files)
    BY <1>1, <1>4 DEF Ingest, TypeOK
  <2>2. chunks \o ChunksOf(Head(walked)) \in Seq(PieceType)
    BY <1>1, <2>1, ChunksOfIs DEF TypeOK
  <2>3. grouped = 0
    BY <1>1, <1>4 DEF Ingest, CorpusOK
  <2> QED BY <1>1, <1>4, <2>1, <2>2, <2>3 DEF Ingest, TypeOK, VersionsOK
<1>5. CASE IngestFails
  <2>1. Head(walked) \in Files /\ Tail(walked) \in Seq(Files)
    BY <1>1, <1>5 DEF IngestFails, TypeOK
  <2> QED BY <1>1, <1>5, <2>1 DEF IngestFails, TypeOK, VersionsOK
<1>6. CASE BuildIndex
  BY <1>1, <1>6 DEF BuildIndex, TypeOK, VersionsOK
<1>7. CASE GroupChunk
  <2>1. groups' \in Seq(ItemType)
    <3>1. grouped \in 0 .. Len(chunks) - 1 /\ chunks \in Seq(PieceType) /\ Contiguous(chunks)
          /\ groups \in Seq(ItemType) /\ grouped < Len(chunks)
      BY <1>1, <1>7 DEF GroupChunk, TypeOK, IngestOK, ItemType
    <3>2. PICK cut \in [1 .. Len(groups) + 1 -> 0 .. grouped] :
            Laid(groups, chunks, cut, grouped) /\ cut[1] = 0
      BY <1>1, <1>7, <3>1 DEF GroupChunk, CorpusOK
    <3>3. Filed(groups, chunks[grouped + 1]) \in Seq(ItemType)
      BY <3>1, <3>2, LaidFiled
    <3> QED BY <1>7, <3>3 DEF GroupChunk
  <2>2. grouped' \in 0 .. Len(chunks)
    BY <1>1, <1>7 DEF GroupChunk, TypeOK
  <2> QED BY <1>1, <1>7, <2>1, <2>2 DEF GroupChunk, TypeOK, VersionsOK, ItemType
<1>8. CASE ReadRows
  <2>1. /\ Head(groups).file \in Files /\ Head(groups).chunks \in Seq(PieceType)
        /\ Tail(groups) \in Seq(ItemType)
    BY <1>1, <1>8, HeadIs DEF ReadRows
  <2>2. corpus' \in Seq(PieceType)
    <3> DEFINE f == Head(groups).file
               own == Head(groups).chunks
               rows == [i \in 1 .. Len(own) |-> Piece(f, own[i].number)]
    <3>1. rows \in Seq(PieceType)
      BY <1>1, <2>1, RowsAre
    <3>2. corpus' = corpus \o rows
      BY <1>8 DEF ReadRows
    <3> HIDE DEF rows
    <3> QED BY <1>1, <3>1, <3>2 DEF TypeOK
  <2> QED BY <1>1, <1>8, <2>1, <2>2 DEF ReadRows, TypeOK, VersionsOK, ItemType
<1>9. CASE ReadFails
  <2>1. Head(groups).file \in Files /\ Tail(groups) \in Seq(ItemType)
    BY <1>1, <1>9, HeadIs DEF ReadFails
  <2> QED BY <1>1, <1>9, <2>1 DEF ReadFails, TypeOK, VersionsOK, ItemType
<1>10. CASE IndexCorpus \/ IndexFails
  BY <1>1, <1>10 DEF IndexCorpus, IndexFails, TypeOK, VersionsOK
<1>11. CASE Change
  <2>1. PICK f \in Files, s \in Status, n \in ChunkCounts :
          disk' = [disk EXCEPT ![f] = [status |-> s, count |-> n, version |-> @.version + 1]]
    BY <1>11 DEF Change
  <2>2. changes' = changes + 1 /\ changes' \in 0 .. MaxChanges /\ changes \in Nat
    BY <1>1, <1>11, FilesAssumption DEF Change, TypeOK
  <2>3. disk[f].version \in 0 .. changes /\ disk[f].version \in Nat
    BY <1>1, <2>2 DEF TypeOK, VersionsOK
  <2>4. disk[f].version + 1 \in 0 .. MaxChanges /\ disk[f].version + 1 <= changes'
    BY <2>2, <2>3, FilesAssumption
  <2>5. disk' \in [Files -> [status : Status, count : ChunkCounts, version : 0 .. MaxChanges]]
    BY <1>1, <2>1, <2>4 DEF TypeOK
  <2>6. ASSUME NEW g \in Files
        PROVE  disk'[g].version <= changes'
    <3>1. CASE g = f
      BY <1>1, <2>1, <2>4, <3>1 DEF TypeOK
    <3>2. CASE g # f
      <4>1. disk'[g] = disk[g] /\ disk[g].version <= changes /\ disk[g].version \in Nat
        BY <1>1, <2>1, <3>2 DEF TypeOK, VersionsOK
      <4> QED BY <2>2, <4>1
    <3> QED BY <3>1, <3>2
  <2> QED BY <1>1, <1>11, <2>2, <2>5, <2>6 DEF Change, TypeOK, VersionsOK
<1> QED BY <1>2, <1>3, <1>4, <1>5, <1>6, <1>7, <1>8, <1>9, <1>10, <1>11 DEF Next, Step

-----------------------------------------------------------------------------
\* The two lists of the ingestion.

LEMMA TailIs ==
  ASSUME NEW S, NEW s \in Seq(S), s # << >>
  PROVE  /\ Head(s) = s[1] /\ Head(s) \in S /\ 1 \in 1 .. Len(s)
         /\ Tail(s) \in Seq(S) /\ Len(Tail(s)) = Len(s) - 1 /\ Len(s) \in Nat
         /\ \A i \in 1 .. Len(s) - 1 : Tail(s)[i] = s[i + 1] /\ i + 1 \in 2 .. Len(s)
OBVIOUS

\* The chunks of a new file, at the end, stand together.
LEMMA ContiguousBlock ==
  ASSUME NEW s \in Seq(PieceType), Contiguous(s), NEW f, NEW block \in Seq(PieceType),
         \A i \in 1 .. Len(s) : s[i].file # f,
         \A n \in 1 .. Len(block) : block[n].file = f
  PROVE  Contiguous(s \o block)
<1> DEFINE all == s \o block
           a == Len(s)
           b == Len(block)
<1>1. a \in Nat /\ b \in Nat /\ Len(all) = a + b
  OBVIOUS
<1>2. \A i \in 1 .. a : all[i] = s[i]
  OBVIOUS
<1>3. \A i \in a + 1 .. a + b : i - a \in 1 .. b /\ all[i] = block[i - a]
  OBVIOUS
<1> SUFFICES ASSUME NEW i \in 1 .. Len(all), NEW l \in 1 .. Len(all), all[i].file = all[l].file,
                    NEW j \in i .. l
             PROVE  all[j].file = all[i].file
  BY DEF Contiguous
<1> HIDE DEF all, a, b
<1>4. \A h \in 1 .. a + b : h \in 1 .. a \/ h \in a + 1 .. a + b
  BY <1>1
<1>5. \A h \in 1 .. a : all[h].file # f
  BY <1>2 DEF a
<1>6. \A h \in a + 1 .. a + b : all[h].file = f
  BY <1>3 DEF b
<1>7. CASE l \in 1 .. a
  <2>1. i \in 1 .. a /\ j \in 1 .. a
    BY <1>1, <1>7
  <2>2. s[i].file = s[l].file /\ i \in 1 .. Len(s) /\ l \in 1 .. Len(s)
    BY <1>2, <1>7, <2>1 DEF a
  <2>3. s[j].file = s[i].file
    BY <2>2 DEF Contiguous
  <2> QED BY <1>2, <2>1, <2>3
<1>8. CASE l \in a + 1 .. a + b
  <2>1. i \in a + 1 .. a + b
    BY <1>1, <1>4, <1>5, <1>6, <1>8
  <2>2. j \in a + 1 .. a + b
    BY <1>1, <1>8, <2>1
  <2> QED BY <1>6, <2>1, <2>2
<1> QED BY <1>1, <1>4, <1>7, <1>8

LEMMA NextIngestOK ==
  ASSUME IInv, [Next]_vars
  PROVE  IngestOK'
<1>1. TypeOK /\ IngestOK
  BY DEF IInv
<1>2. CASE UNCHANGED vars
  BY <1>1, <1>2 DEF IngestOK, vars
<1>3. CASE Walk
  <2>1. PICK order \in SetToSeqs(Selected(is_code)) : walked' = order
    BY <1>3 DEF Walk
  <2>2. \A i, j \in 1 .. Len(walked') : walked'[i] = walked'[j] => i = j
    BY <2>1, WalkIs, SelectedFiles
  <2>3. chunks' = << >> /\ pc' = "ingest" /\ Len(chunks') = 0
    BY <1>1, <1>3 DEF Walk, IngestOK
  <2> QED BY <2>2, <2>3 DEF IngestOK, Contiguous
<1>4. CASE Ingest
  <2> DEFINE f == Head(walked)
             block == ChunksOf(f)
  <2>1. /\ f = walked[1] /\ f \in Files /\ 1 \in 1 .. Len(walked)
        /\ Len(Tail(walked)) = Len(walked) - 1 /\ Len(walked) \in Nat
        /\ \A i \in 1 .. Len(walked) - 1 : Tail(walked)[i] = walked[i + 1] /\ i + 1 \in 2 .. Len(walked)
    BY <1>1, <1>4, TailIs DEF Ingest, TypeOK
  <2>2. block \in Seq(PieceType) /\ \A n \in 1 .. Len(block) : block[n].file = f
    <3>1. /\ block \in Seq(PieceType) /\ Len(block) = disk[f].count
          /\ \A n \in 1 .. disk[f].count : block[n] = Piece(f, n)
      BY <1>1, <2>1, ChunksOfIs
    <3>2. \A n : Piece(f, n).file = f
      BY DEF Piece
    <3> HIDE DEF f, block
    <3> QED BY <3>1, <3>2
  <2>3. chunks' = chunks \o block /\ walked' = Tail(walked) /\ pc' = "ingest" /\ chunks \in Seq(PieceType)
    BY <1>1, <1>4 DEF Ingest, TypeOK
  <2>4. \A i \in 1 .. Len(chunks) : chunks[i].file # f
    BY <1>1, <2>1 DEF IngestOK
  <2> HIDE DEF f, block
  <2>5. Contiguous(chunks')
    BY <1>1, <2>2, <2>3, <2>4, ContiguousBlock DEF IngestOK
  <2>6. \A i, j \in 1 .. Len(walked') : walked'[i] = walked'[j] => i = j
    <3> SUFFICES ASSUME NEW i \in 1 .. Len(walked) - 1, NEW j \in 1 .. Len(walked) - 1,
                        walked[i + 1] = walked[j + 1]
                 PROVE  i = j
      BY <2>1, <2>3
    <3>1. i + 1 \in 1 .. Len(walked) /\ j + 1 \in 1 .. Len(walked)
      BY <2>1
    <3>2. i + 1 = j + 1
      BY <1>1, <3>1 DEF IngestOK
    <3> QED BY <3>2
  <2>7. ASSUME NEW i \in 1 .. Len(walked'), NEW j \in 1 .. Len(chunks')
        PROVE  walked'[i] # chunks'[j].file
    <3>1. walked'[i] = walked[i + 1] /\ i + 1 \in 1 .. Len(walked) /\ i + 1 # 1
      BY <2>1, <2>3
    <3>2. CASE j \in 1 .. Len(chunks)
      <4>1. chunks'[j] = chunks[j]
        BY <2>2, <2>3, <3>2
      <4> QED BY <1>1, <3>1, <3>2, <4>1 DEF IngestOK
    <3>3. CASE j \notin 1 .. Len(chunks)
      <4>1. j - Len(chunks) \in 1 .. Len(block) /\ chunks'[j] = block[j - Len(chunks)]
        BY <2>2, <2>3, <3>3
      <4>2. chunks'[j].file = walked[1]
        BY <2>1, <2>2, <4>1
      <4> QED BY <1>1, <2>1, <3>1, <4>2 DEF IngestOK
    <3> QED BY <3>2, <3>3
  <2> QED BY <2>3, <2>5, <2>6, <2>7 DEF IngestOK
<1>5. CASE IngestFails
  <2>1. /\ Len(walked') = Len(walked) - 1 /\ Len(walked) \in Nat /\ pc' = "ingest" /\ chunks' = chunks
        /\ \A i \in 1 .. Len(walked) - 1 : walked'[i] = walked[i + 1] /\ i + 1 \in 2 .. Len(walked)
    BY <1>1, <1>5, TailIs DEF IngestFails, TypeOK
  <2>2. \A i \in 1 .. Len(walked') : walked'[i] = walked[i + 1] /\ i + 1 \in 1 .. Len(walked)
    BY <2>1
  <2>3. \A i, j \in 1 .. Len(walked') : walked'[i] = walked'[j] => i = j
    <3> SUFFICES ASSUME NEW i \in 1 .. Len(walked'), NEW j \in 1 .. Len(walked'),
                        walked'[i] = walked'[j]
                 PROVE  i = j
      OBVIOUS
    <3>1. i + 1 = j + 1
      BY <1>1, <2>2 DEF IngestOK
    <3> QED BY <2>1, <3>1
  <2>4. \A i \in 1 .. Len(walked') : \A j \in 1 .. Len(chunks') : walked'[i] # chunks'[j].file
    BY <1>1, <2>1, <2>2 DEF IngestOK
  <2> QED BY <1>1, <2>1, <2>3, <2>4 DEF IngestOK
<1>6. CASE BuildIndex
  BY <1>1, <1>6 DEF BuildIndex, IngestOK
<1>7. CASE GroupChunk \/ ReadRows \/ ReadFails \/ IndexCorpus \/ IndexFails \/ Change
  BY <1>1, <1>7 DEF GroupChunk, ReadRows, ReadFails, IndexCorpus, IndexFails, Change, IngestOK, TypeOK
<1> QED BY <1>2, <1>3, <1>4, <1>5, <1>6, <1>7 DEF Next, Step

\* What a step means for a file.  No step but Change touches the disk.
LEMMA SameFile ==
  ASSUME NEW f, disk'[f] = disk[f], is_code' = is_code
  PROVE  /\ Untouched(f)' <=> Untouched(f)
         /\ \A n : Piece(f, n)' = Piece(f, n)
BY DEF Untouched, Chunkable, Readable, Piece

LEMMA ChangedFile ==
  ASSUME TypeOK, Change, NEW g \in Files, Untouched(g)'
  PROVE  disk'[g] = disk[g]
<1>1. PICK f \in Files, s \in Status, n \in ChunkCounts :
        disk' = [disk EXCEPT ![f] = [status |-> s, count |-> n, version |-> @.version + 1]]
  BY DEF Change
<1>2. disk[f].version \in Nat
  BY DEF TypeOK
<1>3. CASE g = f
  <2>1. disk'[g].version = disk[f].version + 1
    BY <1>1, <1>3 DEF TypeOK
  <2>2. disk'[g].version = 0
    BY DEF Untouched
  <2> QED BY <1>2, <2>1, <2>2
<1>4. CASE g # f
  BY <1>1, <1>4 DEF TypeOK
<1> QED BY <1>3, <1>4

LEMMA NextChunksKept ==
  ASSUME IInv, [Next]_vars
  PROVE  ChunksKept'
<1>1. TypeOK /\ IngestOK /\ ChunksKept
  BY DEF IInv
<1>2. Selected(is_code)' = Selected(is_code')
  BY DEF Selected
<1>3. is_code' = is_code
  BY DEF Next, Step, vars, Walk, Ingest, IngestFails, BuildIndex, GroupChunk, ReadRows, ReadFails,
         IndexCorpus, IndexFails, Change
<1> SUFFICES ASSUME pc' # "walk", NEW f \in Selected(is_code), Untouched(f)'
             PROVE  \/ \E i \in 1 .. Len(walked') : walked'[i] = f
                    \/ \A n \in 1 .. disk'[f].count :
                         \E i \in 1 .. Len(chunks') : chunks'[i] = Piece(f, n)'
  BY <1>2, <1>3 DEF ChunksKept
<1>4. f \in Files
  BY SelectedFiles
<1>5. disk'[f] = disk[f]
  BY <1>1, <1>4, ChangedFile
     DEF Next, Step, vars, Walk, Ingest, IngestFails, BuildIndex, GroupChunk, ReadRows, ReadFails,
         IndexCorpus, IndexFails
<1>6. Untouched(f) /\ \A n : Piece(f, n)' = Piece(f, n)
  BY <1>3, <1>5, SameFile
<1>7. CASE Walk
  <2>1. PICK order \in SetToSeqs(Selected(is_code)) : walked' = order
    BY <1>7 DEF Walk
  <2>2. \E i \in 1 .. Len(walked') : walked'[i] = f
    BY <2>1, WalkIs, SelectedFiles
  <2> QED BY <2>2
<1>8. CASE pc # "walk"
  <2>1. \/ \E i \in 1 .. Len(walked) : walked[i] = f
        \/ \A n \in 1 .. disk[f].count : \E i \in 1 .. Len(chunks) : chunks[i] = Piece(f, n)
    BY <1>1, <1>6, <1>8 DEF ChunksKept
  <2>2. CASE Ingest
    <3>1. /\ Head(walked) = walked[1] /\ walked' = Tail(walked)
          /\ Len(Tail(walked)) = Len(walked) - 1 /\ Len(walked) \in Nat
          /\ \A i \in 1 .. Len(walked) - 1 : Tail(walked)[i] = walked[i + 1]
          /\ Head(walked) \in Files
      BY <1>1, <2>2, TailIs DEF Ingest, TypeOK
    <3>2. chunks' = chunks \o ChunksOf(Head(walked)) /\ chunks \in Seq(PieceType)
          /\ ChunksOf(Head(walked)) \in Seq(PieceType)
      BY <1>1, <2>2, <3>1, ChunksOfIs DEF Ingest, TypeOK
    <3>3. CASE \E i \in 1 .. Len(walked) : walked[i] = f
      <4>1. PICK i \in 1 .. Len(walked) : walked[i] = f
        BY <3>3
      <4>2. CASE i = 1
        <5>1. Head(walked) = f
          BY <3>1, <4>1, <4>2
        <5>2. /\ Len(ChunksOf(f)) = disk[f].count /\ disk[f].count \in Nat
              /\ \A n \in 1 .. disk[f].count : ChunksOf(f)[n] = Piece(f, n)
          BY <1>1, <1>4, ChunksOfIs
        <5>3. ASSUME NEW n \in 1 .. disk[f].count
              PROVE  \E j \in 1 .. Len(chunks') : chunks'[j] = Piece(f, n)
          <6>1. Len(chunks) + n \in 1 .. Len(chunks') /\ chunks'[Len(chunks) + n] = ChunksOf(f)[n]
            BY <3>2, <5>1, <5>2
          <6> QED BY <5>2, <6>1
        <5> QED BY <1>5, <1>6, <5>3
      <4>3. CASE i # 1
        <5>1. i - 1 \in 1 .. Len(walked) - 1 /\ (i - 1) + 1 = i
          BY <3>1, <4>3
        <5>2. i - 1 \in 1 .. Len(walked') /\ walked'[i - 1] = f
          BY <3>1, <4>1, <5>1
        <5> QED BY <5>2
      <4> QED BY <4>2, <4>3
    <3>4. CASE \A n \in 1 .. disk[f].count : \E i \in 1 .. Len(chunks) : chunks[i] = Piece(f, n)
      <4>1. \A i \in 1 .. Len(chunks) : i \in 1 .. Len(chunks') /\ chunks'[i] = chunks[i]
        BY <3>2
      <4> QED BY <1>5, <1>6, <3>4, <4>1
    <3> QED BY <2>1, <3>3, <3>4
  <2>3. CASE IngestFails
    <3>1. /\ Head(walked) = walked[1] /\ walked' = Tail(walked) /\ chunks' = chunks
          /\ Len(Tail(walked)) = Len(walked) - 1 /\ Len(walked) \in Nat
          /\ \A i \in 1 .. Len(walked) - 1 : Tail(walked)[i] = walked[i + 1]
      BY <1>1, <2>3, TailIs DEF IngestFails, TypeOK
    <3>2. Head(walked) # f
      BY <1>6, <2>3 DEF IngestFails, Untouched
    <3>3. ASSUME NEW i \in 1 .. Len(walked), walked[i] = f
          PROVE  \E j \in 1 .. Len(walked') : walked'[j] = f
      <4>1. i - 1 \in 1 .. Len(walked) - 1 /\ (i - 1) + 1 = i
        BY <3>1, <3>2, <3>3
      <4>2. i - 1 \in 1 .. Len(walked') /\ walked'[i - 1] = f
        BY <3>1, <3>3, <4>1
      <4> QED BY <4>2
    <3> QED BY <1>5, <1>6, <2>1, <3>1, <3>3
  <2>4. CASE walked' = walked /\ chunks' = chunks
    BY <1>5, <1>6, <2>1, <2>4
  <2>5. Ingest \/ IngestFails \/ (walked' = walked /\ chunks' = chunks)
    BY <1>8 DEF Next, Step, vars, Walk, BuildIndex, GroupChunk, ReadRows, ReadFails,
         IndexCorpus, IndexFails, Change
  <2> QED BY <2>2, <2>3, <2>4, <2>5
<1>9. pc # "walk" \/ Walk
  BY DEF Next, Step, vars, Ingest, IngestFails, BuildIndex, GroupChunk, ReadRows, ReadFails,
         IndexCorpus, IndexFails, Change
<1> QED BY <1>7, <1>8, <1>9

-----------------------------------------------------------------------------
\* The two lists of the index.

LEMMA Concatenated ==
  ASSUME NEW S, NEW s \in Seq(S), NEW t \in Seq(S)
  PROVE  /\ Len(s \o t) = Len(s) + Len(t)
         /\ \A i \in 1 .. Len(s) : (s \o t)[i] = s[i]
         /\ \A n \in 1 .. Len(t) :
              (s \o t)[Len(s) + n] = t[n] /\ Len(s) + n \in 1 .. Len(s) + Len(t)
<1>1. Len(s) \in Nat /\ Len(t) \in Nat /\ Len(s \o t) = Len(s) + Len(t)
  OBVIOUS
<1>2. \A i \in 1 .. Len(s) : (s \o t)[i] = s[i]
  OBVIOUS
<1>3. ASSUME NEW n \in 1 .. Len(t)
      PROVE  (s \o t)[Len(s) + n] = t[n]
  <2>1. Len(s) + n \in 1 .. Len(s) + Len(t) /\ ~(Len(s) + n <= Len(s)) /\ Len(s) + n - Len(s) = n
    BY <1>1
  <2>2. (s \o t)[Len(s) + n] = t[Len(s) + n - Len(s)]
    BY <2>1
  <2> QED BY <2>1, <2>2
<1> QED BY <1>1, <1>2, <1>3

\* The row of a chunk that comes after skipped files does not matter.
LEMMA BeforeSkipsIs ==
  /\ BeforeSkips \subseteq 1 .. Len(chunks)
  /\ \A i \in BeforeSkips : \A j \in 1 .. i : j \in BeforeSkips
BY DEF BeforeSkips

\* Reading the chunks from `from` to `to`, of one file, makes their rows.
LEMMA RowsRead ==
  ASSUME TypeOK, NEW from \in Nat, NEW to \in Nat, to <= Len(chunks),
         NEW item \in ItemType, RunOf(item, chunks, from, to), RowsKept(from),
         corpus' = corpus \o [i \in 1 .. Len(item.chunks) |-> Piece(item.file, item.chunks[i].number)],
         UNCHANGED <<disk, is_code, chunks, skipped>>
  PROVE  RowsKept(to)'
<1> DEFINE f == item.file
           own == item.chunks
           rows == [i \in 1 .. Len(own) |-> Piece(f, own[i].number)]
           len == Len(corpus)
<1>1. f \in Files /\ own \in Seq(PieceType) /\ corpus \in Seq(PieceType) /\ chunks \in Seq(PieceType)
  BY DEF TypeOK, ItemType
<1>2. /\ from < to /\ Len(own) = to - from
      /\ \A n \in 1 .. to - from : own[n] = chunks[from + n] /\ chunks[from + n].file = f
  BY DEF RunOf
<1>3. rows \in Seq(PieceType) /\ Len(rows) = to - from
      /\ \A n \in 1 .. to - from : rows[n] = Piece(f, own[n].number)
  BY <1>1, <1>2, RowsAre
<1>4. corpus' = corpus \o rows
  OBVIOUS
<1> HIDE DEF f, own, rows, len
<1>5. len \in Nat /\ len <= from
  BY <1>1 DEF RowsKept, len
<1>6. /\ Len(corpus') = len + (to - from)
      /\ \A i \in 1 .. len : corpus'[i] = corpus[i]
      /\ \A n \in 1 .. to - from : corpus'[len + n] = rows[n] /\ len + n \in 1 .. len + (to - from)
  <2>1. /\ Len(corpus \o rows) = Len(corpus) + Len(rows)
        /\ \A i \in 1 .. Len(corpus) : (corpus \o rows)[i] = corpus[i]
        /\ \A n \in 1 .. Len(rows) :
             /\ (corpus \o rows)[Len(corpus) + n] = rows[n]
             /\ Len(corpus) + n \in 1 .. Len(corpus) + Len(rows)
    BY <1>1, <1>3, Concatenated
  <2> QED BY ONLY <2>1, <1>3, <1>4 DEF len
<1>7. \A i \in from + 1 .. to :
        /\ i - from \in 1 .. to - from /\ rows[i - from] = Piece(f, chunks[i].number)
        /\ chunks[i].file = f
  <2> SUFFICES ASSUME NEW i \in from + 1 .. to
               PROVE  /\ i - from \in 1 .. to - from /\ rows[i - from] = Piece(f, chunks[i].number)
                      /\ chunks[i].file = f
    OBVIOUS
  <2>1. i - from \in 1 .. to - from /\ from + (i - from) = i
    BY <1>2
  <2> QED BY <1>2, <1>3, <2>1
<1>8. \A i \in 1 .. to : i \in 1 .. from \/ i \in from + 1 .. to
  BY <1>2
<1>9. BeforeSkips' = BeforeSkips
  BY DEF BeforeSkips
<1>10. Len(corpus') <= to
  BY <1>2, <1>5, <1>6
<1>11. ASSUME NEW i \in 1 .. to, i \in BeforeSkips
       PROVE  i <= Len(corpus') /\ AlignedAt(i)'
  <2>1. CASE i \in 1 .. from
    <3>1. i <= len /\ AlignedAt(i) /\ i \in 1 .. len
      BY <1>5, <1>11, <2>1 DEF RowsKept, len
    <3>2. corpus'[i] = corpus[i]
      BY ONLY <1>6, <3>1
    <3>3. i <= Len(corpus')
      BY <1>2, <1>5, <1>6, <3>1
    <3> QED BY <3>1, <3>2, <3>3 DEF AlignedAt
  <2>2. CASE i \in from + 1 .. to
    <3>1. len = from
      <4>1. CASE from = 0
        BY <1>5, <4>1
      <4>2. CASE from # 0
        <5>1. from \in 1 .. from /\ from \in 1 .. i
          BY <2>2, <4>2
        <5>2. from \in BeforeSkips
          BY <1>11, <5>1, BeforeSkipsIs
        <5>3. from <= len
          BY <5>1, <5>2 DEF RowsKept, len
        <5> QED BY <1>5, <5>3
      <4> QED BY <4>1, <4>2
    <3>2. i - from \in 1 .. to - from /\ len + (i - from) = i
      BY <1>2, <2>2, <3>1
    <3>3. corpus'[i] = rows[i - from] /\ i <= Len(corpus')
      BY ONLY <1>5, <1>6, <3>2, from \in Nat, to \in Nat
    <3>4. corpus'[i] = Piece(f, chunks[i].number) /\ chunks[i].file = f
      BY <1>7, <2>2, <3>3
    <3> QED BY <3>3, <3>4 DEF AlignedAt, Piece
  <2> QED BY <1>8, <2>1, <2>2
<1>12. ASSUME NEW i \in 1 .. to, Untouched(chunks[i].file)
       PROVE  \E j \in 1 .. Len(corpus') : corpus'[j] = Piece(chunks[i].file, chunks[i].number)
  <2>1. CASE i \in 1 .. from
    <3>1. PICK j \in 1 .. len : corpus[j] = Piece(chunks[i].file, chunks[i].number)
      BY <1>12, <2>1 DEF RowsKept, len
    <3>2. corpus'[j] = corpus[j]
      BY ONLY <1>6
    <3>3. j \in 1 .. Len(corpus')
      BY <1>2, <1>5, <1>6
    <3> QED BY <3>1, <3>2, <3>3
  <2>2. CASE i \in from + 1 .. to
    BY <1>6, <1>7, <2>2
  <2> QED BY <1>8, <2>1, <2>2
<1>13. (\A g : Untouched(g)' <=> Untouched(g)) /\ \A g, n : Piece(g, n)' = Piece(g, n)
  BY SameFile
<1> QED BY <1>9, <1>10, <1>11, <1>12, <1>13 DEF RowsKept

\* Skipping them makes none, and takes what follows out of the account.
LEMMA RowsSkipped ==
  ASSUME TypeOK, NEW from \in Nat, NEW to \in Nat,
         NEW item \in ItemType, RunOf(item, chunks, from, to), RowsKept(from),
         ~Readable(item.file), skipped' = skipped \cup {item.file},
         UNCHANGED <<disk, is_code, chunks, corpus>>
  PROVE  RowsKept(to)'
<1>1. /\ from < to
      /\ \A n \in 1 .. to - from : chunks[from + n].file = item.file
  BY DEF RunOf
<1>2. \A i \in from + 1 .. to : chunks[i].file = item.file
  <2> SUFFICES ASSUME NEW i \in from + 1 .. to PROVE chunks[i].file = item.file
    OBVIOUS
  <2>1. i - from \in 1 .. to - from /\ from + (i - from) = i
    OBVIOUS
  <2> QED BY <1>1, <2>1
<1>3. \A i \in 1 .. to : i \in 1 .. from \/ i \in from + 1 .. to
  BY <1>1
<1>4. Len(corpus) \in Nat /\ Len(corpus) <= from
  BY DEF RowsKept, TypeOK
<1>5. Len(corpus') <= to
  BY <1>1, <1>4
<1>6. ASSUME NEW i \in 1 .. to, i \in BeforeSkips'
      PROVE  i <= Len(corpus') /\ AlignedAt(i)'
  <2>1. i \in BeforeSkips /\ chunks[i].file \notin skipped'
    BY <1>6 DEF BeforeSkips
  <2>2. i \in 1 .. from
    BY <1>2, <1>3, <2>1
  <2> QED BY <2>1, <2>2 DEF RowsKept, AlignedAt
<1>7. ASSUME NEW i \in 1 .. to, Untouched(chunks[i].file)
      PROVE  \E j \in 1 .. Len(corpus) : corpus[j] = Piece(chunks[i].file, chunks[i].number)
  <2>1. i \in 1 .. from
    BY <1>2, <1>3, <1>7 DEF Untouched, Chunkable
  <2> QED BY <1>7, <2>1 DEF RowsKept
<1>8. (\A g : Untouched(g)' <=> Untouched(g)) /\ \A g, n : Piece(g, n)' = Piece(g, n)
  BY SameFile
<1> QED BY <1>5, <1>6, <1>7, <1>8 DEF RowsKept

\* Nothing is lost when somebody changes a file.
LEMMA RowsOutlive ==
  ASSUME TypeOK, NEW done \in Nat, done <= Len(chunks), RowsKept(done), Change
  PROVE  RowsKept(done)'
<1>1. UNCHANGED <<is_code, chunks, corpus, skipped>>
  BY DEF Change
<1>2. BeforeSkips' = BeforeSkips /\ \A i : AlignedAt(i)' = AlignedAt(i)
  BY <1>1 DEF BeforeSkips, AlignedAt
<1>3. ASSUME NEW i \in 1 .. done, Untouched(chunks[i].file)'
      PROVE  \E j \in 1 .. Len(corpus) :
               corpus[j] = Piece(chunks[i].file, chunks[i].number)'
  <2>1. chunks[i].file \in Files
    <3>1. chunks[i] \in PieceType
      BY DEF TypeOK
    <3> QED BY <3>1 DEF PieceType
  <2> DEFINE f == chunks[i].file
             k == chunks[i].number
  <2>2. chunks'[i].file = f /\ chunks'[i].number = k
    BY <1>1
  <2>3. Untouched(f)' /\ disk'[f] = disk[f]
    BY <1>1, <1>3, <2>1, ChangedFile DEF Untouched, Chunkable, Readable
  <2>4. Untouched(f) /\ Piece(f, k)' = Piece(f, k)
    BY <1>1, <2>3, SameFile
  <2>5. \E j \in 1 .. Len(corpus) : corpus[j] = Piece(f, k)
    BY <2>4 DEF RowsKept
  <2>6. Piece(chunks[i].file, chunks[i].number)' = Piece(f, k)'
    BY <2>2 DEF Piece
  <2> QED BY <2>4, <2>5, <2>6
<1> QED BY <1>1, <1>2, <1>3 DEF RowsKept

LEMMA NextCorpusOK ==
  ASSUME IInv, [Next]_vars
  PROVE  CorpusOK'
<1>1. TypeOK /\ IngestOK /\ CorpusOK
  BY DEF IInv
<1>2. chunks \in Seq(PieceType) /\ Len(chunks) \in Nat /\ grouped \in 0 .. Len(chunks) /\ grouped \in Nat
      /\ groups \in Seq(ItemType)
  BY <1>1 DEF TypeOK, ItemType
<1>3. CASE UNCHANGED vars
  <2>1. \A done : RowsKept(done)' <=> RowsKept(done)
    BY <1>3 DEF vars, RowsKept, BeforeSkips, AlignedAt, Untouched, Chunkable, Readable, Piece
  <2> QED BY <1>1, <1>3, <2>1 DEF vars, CorpusOK
<1>4. CASE Walk \/ Ingest \/ IngestFails
  BY <1>1, <1>4 DEF Walk, Ingest, IngestFails, CorpusOK
<1>5. CASE BuildIndex
  <2>1. pc' = "corpus" /\ grouped' = 0 /\ groups' = << >> /\ corpus' = << >> /\ chunks' = chunks
    BY <1>1, <1>5 DEF BuildIndex, CorpusOK
  <2> DEFINE cut == [i \in 1 .. 1 |-> 0]
  <2>2. cut \in [1 .. Len(groups') + 1 -> 0 .. grouped'] /\ cut[1] = 0
    BY <2>1
  <2>3. Laid(groups', chunks', cut, grouped')
    BY <2>1 DEF Laid
  <2>4. RowsKept(0)'
    BY <2>1 DEF RowsKept
  <2> HIDE DEF cut
  <2> QED BY <2>1, <2>2, <2>3, <2>4 DEF CorpusOK
<1>6. CASE GroupChunk
  <2>1. /\ grouped < Len(chunks) /\ grouped \in 0 .. Len(chunks) - 1 /\ pc' = "corpus"
        /\ chunks' = chunks /\ grouped' = grouped + 1 /\ groups' = Filed(groups, chunks[grouped + 1])
    BY <1>2, <1>6 DEF GroupChunk
  <2>2. PICK cut \in [1 .. Len(groups) + 1 -> 0 .. grouped] :
          Laid(groups, chunks, cut, grouped) /\ cut[1] = 0 /\ RowsKept(0)
    BY <1>1, <1>6, <2>1 DEF GroupChunk, CorpusOK
  <2>3. \E to \in [1 .. Len(groups') + 1 -> 0 .. grouped'] :
          Laid(groups', chunks', to, grouped') /\ to[1] = 0
    BY <1>1, <1>2, <2>1, <2>2, LaidFiled DEF IngestOK
  <2>4. RowsKept(0)'
    BY <1>6, <2>2 DEF GroupChunk, RowsKept, BeforeSkips
  <2> QED BY <2>1, <2>3, <2>4 DEF CorpusOK
<1>7. CASE ReadRows \/ ReadFails
  <2>1. /\ pc = "corpus" /\ pc' = "corpus" /\ grouped = Len(chunks) /\ groups # << >>
        /\ groups' = Tail(groups) /\ UNCHANGED <<is_code, disk, chunks, grouped>>
    BY <1>7 DEF ReadRows, ReadFails
  <2>2. PICK cut \in [1 .. Len(groups) + 1 -> 0 .. grouped] :
          Laid(groups, chunks, cut, grouped) /\ RowsKept(cut[1])
    BY <1>1, <2>1 DEF CorpusOK
  <2> DEFINE from == cut[1]
             hi == cut[2]
             item == groups[1]
  <2>3. /\ from \in 0 .. grouped /\ hi \in 0 .. grouped
        /\ \E to \in [1 .. Len(groups') + 1 -> 0 .. grouped] :
             Laid(groups', chunks, to, grouped) /\ to[1] = hi
    BY <1>2, <2>1, <2>2, LaidTail
  <2>4. Head(groups) = item /\ item \in ItemType /\ 1 \in 1 .. Len(groups)
    BY <1>1, <2>1, HeadIs
  <2>5. RunOf(item, chunks, from, hi)
    <3>1. RunOf(groups[1], chunks, cut[1], cut[1 + 1]) /\ 1 + 1 = 2
      BY <2>2, <2>4 DEF Laid
    <3> QED BY <3>1
  <2>6. from \in Nat /\ hi \in Nat /\ hi <= Len(chunks)
    BY <1>2, <2>1, <2>3
  <2>7. RowsKept(hi)'
    <3>1. RowsKept(from)
      BY <2>2
    <3> HIDE DEF from, hi, item
    <3>2. CASE ReadRows
      <4>1. /\ corpus' = corpus \o [i \in 1 .. Len(item.chunks) |-> Piece(item.file, item.chunks[i].number)]
            /\ skipped' = skipped
        BY <2>4, <3>2 DEF ReadRows
      <4> QED BY <1>1, <2>1, <2>4, <2>5, <2>6, <3>1, <4>1, RowsRead
    <3>3. CASE ReadFails
      <4>1. corpus' = corpus /\ skipped' = skipped \cup {item.file} /\ ~Readable(item.file)
        BY <2>4, <3>3 DEF ReadFails
      <4> QED BY <1>1, <2>1, <2>4, <2>5, <2>6, <3>1, <4>1, RowsSkipped
    <3> QED BY <1>7, <3>2, <3>3
  <2> HIDE DEF hi
  <2>8. ~(grouped' < Len(chunks'))
    BY <1>2, <2>1
  <2> QED BY <2>1, <2>3, <2>7, <2>8 DEF CorpusOK
<1>8. CASE IndexCorpus \/ IndexFails
  <2>1. \A done : RowsKept(done)' <=> RowsKept(done)
    BY <1>8 DEF IndexCorpus, IndexFails, RowsKept, BeforeSkips, AlignedAt, Untouched, Chunkable,
         Readable, Piece
  <2> QED BY <1>1, <1>8, <2>1 DEF IndexCorpus, IndexFails, CorpusOK
<1>9. CASE Change
  <2>1. UNCHANGED <<is_code, pc, chunks, grouped, groups, corpus>>
    BY <1>9 DEF Change
  <2>2. \A done \in 0 .. grouped : RowsKept(done) => RowsKept(done)'
    <3> SUFFICES ASSUME NEW done \in 0 .. grouped, RowsKept(done) PROVE RowsKept(done)'
      OBVIOUS
    <3>1. done \in Nat /\ done <= Len(chunks)
      BY <1>2
    <3> QED BY <1>1, <1>9, <3>1, RowsOutlive
  <2>3. ASSUME pc \in {"corpus", "built", "raised"}
        PROVE  \E cut \in [1 .. Len(groups) + 1 -> 0 .. grouped] :
                 /\ Laid(groups, chunks, cut, grouped)
                 /\ grouped < Len(chunks) => cut[1] = 0
                 /\ RowsKept(cut[1])'
    <3>1. PICK cut \in [1 .. Len(groups) + 1 -> 0 .. grouped] :
            /\ Laid(groups, chunks, cut, grouped)
            /\ grouped < Len(chunks) => cut[1] = 0
            /\ RowsKept(cut[1])
      BY <1>1, <2>3 DEF CorpusOK
    <3>2. cut[1] \in 0 .. grouped
      BY <1>2
    <3> QED BY <2>2, <3>1, <3>2
  <2> QED BY <1>1, <2>1, <2>3 DEF CorpusOK
<1> QED BY <1>3, <1>4, <1>5, <1>6, <1>7, <1>8, <1>9 DEF Next, Step

-----------------------------------------------------------------------------
\* The theorems.

\* The inductive invariant: what the pass over the files and the two loops of
\* build_index keep (ingestion.py:34-74, indexer.py:66-111, 236-262).
THEOREM Invariance == Spec => []IInv
<1>1. Init => IInv
  BY InitIInv
<1>2. IInv /\ [Next]_vars => IInv'
  BY NextTypeOK, NextIngestOK, NextChunksKept, NextCorpusOK DEF IInv
<1> QED BY <1>1, <1>2, PTL DEF Spec

\* Every variable keeps its type: the chunks counted into the dict, the items
\* of the dict and the rows (ingestion.py:34-74, indexer.py:66-111).
THEOREM TypeCorrect == Spec => []TypeOK
<1>1. IInv => TypeOK
  BY DEF IInv
<1> QED BY <1>1, Invariance, PTL

\* A row has the number of the chunk it was made from, up to the first file
\* that could not be read again (indexer.py:70-108, 371): the passes agree
\* whatever the files are and whoever edits them meanwhile.
THEOREM Aligned == Spec => []AlignedUpToSkips
<1>1. ASSUME IInv PROVE AlignedUpToSkips
  <2>1. TypeOK /\ IngestOK /\ CorpusOK
    BY <1>1 DEF IInv
  <2>2. chunks \in Seq(PieceType) /\ Len(chunks) \in Nat /\ grouped \in 0 .. Len(chunks)
        /\ groups \in Seq(ItemType) /\ Len(corpus) \in Nat
    BY <2>1 DEF TypeOK, ItemType
  <2>3. CASE pc \in {"walk", "ingest"}
    <3>1. corpus = << >> /\ Len(corpus) = 0
      BY <2>1, <2>3 DEF CorpusOK
    <3> QED BY <2>2, <2>3, <3>1 DEF AlignedUpToSkips
  <2>4. CASE pc \in {"corpus", "built", "raised"}
    <3>1. PICK cut \in [1 .. Len(groups) + 1 -> 0 .. grouped] :
            Laid(groups, chunks, cut, grouped) /\ RowsKept(cut[1])
      BY <2>1, <2>4 DEF CorpusOK
    <3>2. cut[1] \in 0 .. grouped
      BY <2>2
    <3>3. Len(corpus) <= Len(chunks)
      BY <2>2, <3>1, <3>2 DEF RowsKept
    <3>4. ASSUME NEW i \in 1 .. Len(corpus), i \in BeforeSkips
          PROVE  AlignedAt(i)
      <4>1. i \in 1 .. cut[1]
        BY <2>2, <3>1, <3>2 DEF RowsKept
      <4> QED BY <3>1, <3>4, <4>1 DEF RowsKept
    <3>5. ASSUME pc = "built"
          PROVE  BeforeSkips \subseteq 1 .. Len(corpus)
      <4>1. cut[1] = Len(chunks)
        <5>1. groups = << >> /\ grouped = Len(chunks) /\ Len(groups) = 0
          BY <2>1, <3>5 DEF CorpusOK
        <5> QED BY <3>1, <5>1 DEF Laid
      <4>2. ASSUME NEW i \in BeforeSkips
            PROVE  i \in 1 .. Len(corpus)
        <5>1. i \in 1 .. Len(chunks)
          BY DEF BeforeSkips
        <5>2. i <= Len(corpus)
          BY <3>1, <4>1, <5>1 DEF RowsKept
        <5> QED BY <2>2, <5>1, <5>2
      <4> QED BY <4>2
    <3> QED BY <3>3, <3>4, <3>5 DEF AlignedUpToSkips
  <2> QED BY <2>1, <2>3, <2>4 DEF TypeOK
<1> QED BY <1>1, Invariance, PTL

\* A file nobody touches has all its rows in the index, whatever happens to
\* the others (ingestion.py:40-47, 64-71, indexer.py:75-111).
THEOREM UntouchedIndexed == Spec => []UntouchedFilesIndexed
<1>1. ASSUME IInv, pc = "built", NEW f \in Selected(is_code), Untouched(f),
             NEW n \in 1 .. disk[f].count
      PROVE  \E i \in 1 .. Len(corpus) : corpus[i] = Piece(f, n)
  <2>1. TypeOK /\ IngestOK /\ ChunksKept /\ CorpusOK
    BY <1>1 DEF IInv
  <2>2. walked = << >> /\ Len(walked) = 0
    BY <1>1, <2>1 DEF IngestOK
  <2>3. PICK i \in 1 .. Len(chunks) : chunks[i] = Piece(f, n)
    BY <1>1, <2>1, <2>2 DEF ChunksKept
  <2>4. PICK cut \in [1 .. Len(groups) + 1 -> 0 .. grouped] :
          Laid(groups, chunks, cut, grouped) /\ RowsKept(cut[1])
    BY <1>1, <2>1 DEF CorpusOK
  <2>5. cut[1] = Len(chunks)
    <3>1. groups = << >> /\ grouped = Len(chunks) /\ Len(groups) = 0
      BY <1>1, <2>1 DEF CorpusOK
    <3> QED BY <2>4, <3>1 DEF Laid
  <2>6. chunks[i].file = f /\ chunks[i].number = n
    BY <2>3 DEF Piece
  <2>7. \E j \in 1 .. Len(corpus) : corpus[j] = Piece(chunks[i].file, chunks[i].number)
    BY <1>1, <2>4, <2>5, <2>6 DEF RowsKept
  <2> QED BY <2>6, <2>7
<1>2. IInv => UntouchedFilesIndexed
  BY <1>1 DEF UntouchedFilesIndexed, Untouched
<1> QED BY <1>2, Invariance, PTL
=============================================================================
