------------------------ MODULE DockerfileParserProofs ------------------------
(***************************************************************************)
(* Theorems about DockerfileParser, for files of every kind and length:    *)
(* type correctness, that the instructions of a file that is parsed are    *)
(* its lines, and that a file of legal lines is parsed.                    *)
(*                                                                         *)
(* The parser sees tokens, the reference sees the text.  What joins them   *)
(* are the positions at which the tokens begin (Placed): no token begins   *)
(* within a comment (Clean), so a token is a word of the text or has none  *)
(* (TokenText).  What has been parsed is then the text before the token at *)
(* hand, word by word in its place (Mirrors), between instructions or      *)
(* within one.                                                             *)
(*                                                                         *)
(* Of a legal file the line at hand owes the parser, wherever it is in the *)
(* grammar, a rest it can take (Owes), and between instructions no line is *)
(* open (Over).                                                            *)
(***************************************************************************)
EXTENDS DockerfileParser, SequenceTheorems, FiniteSetTheorems, WellFoundedInduction, TLAPS

(* The text and its tokens.  A token begins at position i and ends at e; it *)
(* has a type, which is that of its first piece.                            *)
TypeAt(i) ==
  CASE src[i] = "NL" -> "Newline"
    [] src[i] = "#" -> "Comment"
    [] src[i] = "str" -> "String"
    [] src[i] \in {"known", "flag"} -> "Flag"
    [] src[i] \in Keywords /\ LineStart(i) -> "Instruction"
    [] src[i] = "ESC" /\ BeforeNewline(i) -> "LineContinuation"
    [] OTHER -> "Argument"

TokenEnds(i, e) ==
  \/ src[i] = "#" /\ e \in i .. Len(src) /\ CommentEnds(i, e)
  \/ src[i] = "ESC" /\ BeforeNewline(i) /\ e = i + 1
  \/ src[i] # "#" /\ ~(src[i] = "ESC" /\ BeforeNewline(i)) /\ e = i

(* No token begins in a comment, but for the comment itself. *)
Clean(i) == i \in DOMAIN src /\ Commented(i) => src[i] = "#"

Wordy == {"Instruction", "Argument", "String", "Flag"}

LEMMA TextFacts ==
  ASSUME src \in Seq(Piece)
  PROVE  /\ Len(src) \in Nat /\ DOMAIN src = 1 .. Len(src)
         /\ \A i \in 1 .. Len(src) : src[i] \in Piece
BY LenProperties, ElementOfSeq

LEMMA TypeFacts ==
  ASSUME NEW i, src[i] \in Piece
  PROVE  /\ TypeAt(i) = "Newline" <=> src[i] = "NL"
         /\ TypeAt(i) = "Comment" <=> src[i] = "#"
         /\ TypeAt(i) = "LineContinuation" <=> src[i] = "ESC" /\ BeforeNewline(i)
         /\ TypeAt(i) = "Instruction" <=> src[i] \in Keywords /\ LineStart(i)
         /\ TypeAt(i) = "Flag" <=> src[i] \in {"known", "flag"}
         /\ TypeAt(i) = "String" <=> src[i] = "str"
         /\ TypeAt(i) \in Wordy \union {"Newline", "Comment", "LineContinuation"}
BY DEF TypeAt, Keywords, Piece, Wordy

LEMMA NextClean ==
  ASSUME src \in Seq(Piece), NEW i \in DOMAIN src, Clean(i), NEW e, TokenEnds(i, e)
  PROVE  Clean(e + 1) /\ e \in i .. Len(src)
<1>0. Len(src) \in Nat /\ DOMAIN src = 1 .. Len(src)
  BY TextFacts
<1>1. e \in i .. Len(src)
  BY <1>0 DEF TokenEnds, BeforeNewline
<1>2. ASSUME e + 1 \in DOMAIN src, Commented(e + 1), src[e + 1] # "#" PROVE FALSE
  <2>1. PICK h \in 1 .. (e + 1) : src[h] = "#" /\ \A k \in h .. (e + 1) : src[k] # "NL"
    BY <1>2 DEF Commented
  <2>2. h \in 1 .. e /\ e + 1 \in h .. (e + 1)
    BY <1>0, <1>1, <1>2, <2>1
  <2>3. CASE CommentEnds(i, e)
    <3>1. e # Len(src)
      BY <1>0, <1>2
    <3>2. src[e + 1] = "NL"
      BY <2>3, <3>1 DEF CommentEnds, BeforeNewline
    <3> QED BY <2>1, <2>2, <3>2
  <2>4. CASE BeforeNewline(i) /\ e = i + 1
    <3>1. src[e] = "NL" /\ e \in h .. (e + 1)
      BY <1>0, <1>1, <2>2, <2>4 DEF BeforeNewline
    <3> QED BY <2>1, <3>1
  <2>5. CASE src[i] # "#" /\ e = i
    <3>1. h \in 1 .. i /\ \A k \in h .. i : src[k] # "NL"
      BY <1>0, <2>1, <2>2, <2>5
    <3>2. Commented(i)
      BY <2>1, <3>1 DEF Commented
    <3> QED BY <2>5, <3>2 DEF Clean
  <2> QED BY <2>3, <2>4, <2>5 DEF TokenEnds
<1> QED BY <1>1, <1>2 DEF Clean

(* Of a token the first piece is text, or none is. *)
LEMMA TokenText ==
  ASSUME src \in Seq(Piece), NEW i \in DOMAIN src, Clean(i), NEW e, TokenEnds(i, e)
  PROVE  /\ TypeAt(i) \in Wordy => IsText(i) /\ e = i /\ src[i] # "NL"
         /\ TypeAt(i) \notin Wordy => ~IsText(i)
         /\ \A j \in (i + 1) .. e : ~IsText(j)
         /\ TypeAt(i) = "LineContinuation" => e = i + 1 /\ Continues(i)
<1>0. Len(src) \in Nat /\ DOMAIN src = 1 .. Len(src) /\ src[i] \in Piece
  BY TextFacts
<1>1. src[i] # "#" => ~Commented(i)
  BY DEF Clean
<1>2. CASE src[i] = "#"
  <2>1. TypeAt(i) \notin Wordy /\ TypeAt(i) # "LineContinuation"
    BY <1>0, <1>2, TypeFacts DEF Wordy
  <2>2. ASSUME NEW j \in i .. e PROVE Commented(j)
    <3>1. e \in Nat /\ \A k \in i .. e : src[k] # "NL"
      BY <1>0, <1>2 DEF TokenEnds, CommentEnds
    <3>2. i \in 1 .. j /\ \A k \in i .. j : src[k] # "NL"
      BY <1>0, <3>1
    <3> QED BY <1>2, <3>2 DEF Commented
  <2>3. \A j \in i .. e : ~IsText(j)
    BY <2>2 DEF IsText
  <2>4. i \in i .. e /\ \A j \in (i + 1) .. e : j \in i .. e
    BY <1>0, <1>2 DEF TokenEnds
  <2> QED BY <2>1, <2>3, <2>4
<1>3. CASE src[i] = "ESC" /\ BeforeNewline(i)
  <2>1. TypeAt(i) = "LineContinuation" /\ TypeAt(i) \notin Wordy
    BY <1>0, <1>3, TypeFacts DEF Wordy
  <2>2. e = i + 1 /\ src[e] = "NL"
    BY <1>3 DEF TokenEnds, BeforeNewline
  <2>3. Continues(i)
    BY <1>1, <1>3 DEF Continues
  <2>4. ~IsText(i) /\ ~IsText(e)
    BY <1>3, <2>2, <2>3 DEF IsText
  <2>5. \A j \in (i + 1) .. e : j = e
    BY <1>0, <2>2
  <2> QED BY <2>1, <2>2, <2>3, <2>4, <2>5
<1>4. CASE src[i] # "#" /\ ~(src[i] = "ESC" /\ BeforeNewline(i))
  <2>1. e = i /\ \A j \in (i + 1) .. e : FALSE
    BY <1>0, <1>4 DEF TokenEnds
  <2>2. TypeAt(i) # "LineContinuation" /\ TypeAt(i) # "Comment"
    BY <1>0, <1>4, TypeFacts
  <2>3. TypeAt(i) \in Wordy <=> src[i] # "NL"
    BY <1>0, <2>2, TypeFacts DEF Wordy
  <2>4. src[i] # "NL" <=> IsText(i)
    BY <1>1, <1>4 DEF IsText, Continues
  <2> QED BY <2>1, <2>2, <2>3, <2>4
<1> QED BY <1>2, <1>3, <1>4

-----------------------------------------------------------------------------
(* The numbers of lines. *)
LEMMA LineOfFacts ==
  ASSUME NEW i \in Nat \ {0}
  PROVE  /\ LineOf(i) \in Nat
         /\ ~EndsLine(i) => LineOf(i + 1) = LineOf(i)
         /\ EndsLine(i) => LineOf(i + 1) = LineOf(i) + 1
         /\ \A j \in 1 .. i : LineOf(j) \in Nat /\ LineOf(j) <= LineOf(i)
<1> DEFINE E(k) == {j \in 1 .. (k - 1) : EndsLine(j)}
<1>1. ASSUME NEW k \in Nat PROVE IsFiniteSet(E(k)) /\ Cardinality(E(k)) \in Nat
  <2>1. IsFiniteSet(1 .. (k - 1))
    BY FS_Interval
  <2>2. E(k) \subseteq 1 .. (k - 1)
    OBVIOUS
  <2> QED BY <2>1, <2>2, FS_Subset, FS_CardinalityType
<1>2. \A k : LineOf(k) = Cardinality(E(k))
  BY DEF LineOf
<1>3. ASSUME ~EndsLine(i) PROVE E(i + 1) = E(i)
  BY <1>3
<1>4. ASSUME EndsLine(i) PROVE E(i + 1) = E(i) \union {i} /\ i \notin E(i)
  BY <1>4
<1>5. \A j \in 1 .. i : E(j) \subseteq E(i) /\ j \in Nat
  OBVIOUS
<1> HIDE DEF E
<1>6. EndsLine(i) => LineOf(i + 1) = LineOf(i) + 1
  BY <1>1, <1>2, <1>4, FS_AddElement
<1>7. ASSUME NEW j \in 1 .. i PROVE LineOf(j) \in Nat /\ LineOf(j) <= LineOf(i)
  BY <1>1, <1>2, <1>5, FS_Subset
<1> QED BY <1>1, <1>2, <1>3, <1>6, <1>7
-----------------------------------------------------------------------------
(* What is parsed of the text before position p: the text there, its lines, *)
(* and what of it is in the line of p.                                      *)
TextTo(p)  == {i \in 1 .. (p - 1) : IsText(i)}
LinesTo(p) == {LineOf(i) : i \in TextTo(p)}
InLine(p)  == {i \in TextTo(p) : LineOf(i) = LineOf(p)}

(* The lines ls have the words of the text before p, each in its place, and *)
(* nothing else.                                                            *)
Mirrors(ls, p) ==
  /\ \A i \in TextTo(p) : /\ Row(i) \in DOMAIN ls /\ Column(i) \in DOMAIN ls[Row(i)]
                          /\ ls[Row(i)][Column(i)] = src[i]
  /\ \A n \in DOMAIN ls : \A k \in DOMAIN ls[n] : \E i \in TextTo(p) : Row(i) = n /\ Column(i) = k

(* Between instructions, and within one with the words ws. *)
Between(ls, p) == Mirrors(ls, p) /\ Len(ls) = Cardinality(LinesTo(p))
Within(ls, ws, p) ==
  /\ Mirrors(Append(ls, ws), p) /\ Len(ls) + 1 = Cardinality(LinesTo(p))
  /\ LineOf(p) \in LinesTo(p) /\ Len(ws) = Cardinality(InLine(p))

LEMMA PlaceFacts ==
  ASSUME NEW p \in Nat \ {0}
  PROVE  /\ IsFiniteSet(LinesTo(p)) /\ IsFiniteSet(InLine(p))
         /\ Cardinality(LinesTo(p)) \in Nat /\ Cardinality(InLine(p)) \in Nat
         /\ IsText(p) => /\ TextTo(p + 1) = TextTo(p) \union {p} /\ p \notin TextTo(p)
                         /\ LinesTo(p + 1) = LinesTo(p) \union {LineOf(p)}
                         /\ Row(p) = Cardinality(LinesTo(p) \union {LineOf(p)})
                         /\ Column(p) = Cardinality(InLine(p)) + 1
<1>1. IsFiniteSet(1 .. (p - 1)) /\ InLine(p) \subseteq 1 .. (p - 1)
  BY FS_Interval DEF InLine, TextTo
<1>2. IsFiniteSet(LinesTo(p))
  <2>1. LineOf(p) \in Nat /\ \A j \in 1 .. p : LineOf(j) \in Nat /\ LineOf(j) <= LineOf(p)
    BY LineOfFacts
  <2>2. LinesTo(p) \subseteq 0 .. LineOf(p)
    BY <2>1 DEF LinesTo, TextTo
  <2>3. IsFiniteSet(0 .. LineOf(p))
    BY <2>1, FS_Interval
  <2> QED BY <2>2, <2>3, FS_Subset
<1>3. IsFiniteSet(InLine(p))
  BY <1>1, FS_Subset
<1>4. ASSUME IsText(p)
      PROVE  /\ TextTo(p + 1) = TextTo(p) \union {p} /\ p \notin TextTo(p)
             /\ LinesTo(p + 1) = LinesTo(p) \union {LineOf(p)}
             /\ Row(p) = Cardinality(LinesTo(p) \union {LineOf(p)})
             /\ Column(p) = Cardinality(InLine(p)) + 1
  <2>1. TextTo(p + 1) = TextTo(p) \union {p} /\ p \notin TextTo(p)
    BY <1>4 DEF TextTo
  <2>2. LinesTo(p + 1) = LinesTo(p) \union {LineOf(p)}
    BY <2>1 DEF LinesTo
  <2>3. {h \in 1 .. p : IsText(h)} = TextTo(p + 1)
    BY DEF TextTo
  <2>4. Row(p) = Cardinality(LinesTo(p + 1))
    BY <2>3 DEF Row, LinesTo
  <2>5. {j \in 1 .. p : IsText(j) /\ LineOf(j) = LineOf(p)} = InLine(p) \union {p}
    BY <1>4 DEF InLine, TextTo
  <2>6. p \notin InLine(p)
    BY <2>1 DEF InLine
  <2>7. Column(p) = Cardinality(InLine(p) \union {p})
    BY <2>5 DEF Column
  <2>8. Column(p) = Cardinality(InLine(p)) + 1
    BY <1>3, <2>6, <2>7, FS_AddElement
  <2> QED BY <2>1, <2>2, <2>4, <2>8
<1> QED BY <1>2, <1>3, <1>4, FS_CardinalityType

(* What is not text does not count. *)
LEMMA Skipped ==
  ASSUME NEW p \in Nat \ {0}, NEW q \in Nat, p <= q, \A j \in p .. (q - 1) : ~IsText(j)
  PROVE  /\ TextTo(q) = TextTo(p)
         /\ \A ls : Between(ls, p) => Between(ls, q)
         /\ LineOf(q) = LineOf(p) => \A ls, ws : Within(ls, ws, p) => Within(ls, ws, q)
<1>1. TextTo(q) = TextTo(p)
  <2>1. ASSUME NEW i \in TextTo(q) PROVE i \in TextTo(p)
    BY <2>1 DEF TextTo
  <2>2. ASSUME NEW i \in TextTo(p) PROVE i \in TextTo(q)
    BY <2>2 DEF TextTo
  <2> QED BY <2>1, <2>2
<1>2. LinesTo(q) = LinesTo(p)
  BY <1>1 DEF LinesTo
<1>3. \A ls : Mirrors(ls, p) => Mirrors(ls, q)
  BY <1>1 DEF Mirrors
<1>4. LineOf(q) = LineOf(p) => InLine(q) = InLine(p)
  BY <1>1 DEF InLine
<1> QED BY <1>1, <1>2, <1>3, <1>4 DEF Between, Within

(* A word more of the instruction at hand. *)
LEMMA NextWord ==
  ASSUME src \in Seq(Piece), NEW p \in DOMAIN src, IsText(p), src[p] # "NL",
         NEW ls \in Seq(Seq(Piece)), NEW ws \in Seq(Piece), Within(ls, ws, p)
  PROVE  Within(ls, Append(ws, src[p]), p + 1)
<1> DEFINE n   == Len(ls) + 1
           new == Append(ws, src[p])
           V   == Append(ls, ws)
           W   == Append(ls, new)
<1>0. p \in Nat \ {0} /\ src[p] \in Piece
  BY TextFacts
<1>1. /\ LineOf(p + 1) = LineOf(p) /\ LineOf(p) \in LinesTo(p)
  <2>1. ~EndsLine(p)
    BY DEF EndsLine
  <2> QED BY <1>0, <2>1, LineOfFacts DEF Within
<1>2. /\ TextTo(p + 1) = TextTo(p) \union {p} /\ p \notin TextTo(p)
      /\ LinesTo(p + 1) = LinesTo(p)
      /\ Row(p) = n /\ Column(p) = Len(ws) + 1
  <2>1. LinesTo(p) \union {LineOf(p)} = LinesTo(p)
    BY <1>1
  <2> QED BY <1>0, <2>1, PlaceFacts DEF Within
<1>3. /\ DOMAIN V = 1 .. n /\ DOMAIN W = 1 .. n /\ n \in Nat /\ V[n] = ws /\ W[n] = new
      /\ \A k \in 1 .. n : k # n => V[k] = W[k]
  <2>1. new \in Seq(Piece) /\ Len(ls) \in Nat
    BY <1>0, AppendProperties, LenProperties
  <2> HIDE DEF new
  <2>2. /\ V \in Seq(Seq(Piece)) /\ W \in Seq(Seq(Piece)) /\ Len(V) = n /\ Len(W) = n
        /\ V[n] = ws /\ W[n] = new
        /\ \A k \in 1 .. Len(ls) : V[k] = ls[k] /\ W[k] = ls[k]
    BY <2>1, AppendProperties
  <2>3. \A k \in 1 .. n : k # n => k \in 1 .. Len(ls)
    BY <2>1
  <2> QED BY <2>1, <2>2, <2>3, LenProperties
<1>4. /\ DOMAIN ws = 1 .. Len(ws) /\ DOMAIN new = 1 .. (Len(ws) + 1) /\ Len(ws) \in Nat
      /\ Len(new) = Len(ws) + 1
      /\ new[Len(ws) + 1] = src[p] /\ \A k \in 1 .. Len(ws) : new[k] = ws[k]
  <2>1. /\ new \in Seq(Piece) /\ Len(new) = Len(ws) + 1 /\ Len(ws) \in Nat
        /\ new[Len(ws) + 1] = src[p] /\ \A k \in 1 .. Len(ws) : new[k] = ws[k]
    BY <1>0, AppendProperties, LenProperties
  <2> HIDE DEF new
  <2> QED BY <2>1, LenProperties
<1>5. Mirrors(V, p)
  BY DEF Within
<1> HIDE DEF V, W, new
<1>6. Mirrors(W, p + 1)
  <2>1. ASSUME NEW i \in TextTo(p)
        PROVE  /\ Row(i) \in DOMAIN W /\ Column(i) \in DOMAIN W[Row(i)]
               /\ W[Row(i)][Column(i)] = src[i]
    <3>1. Row(i) \in DOMAIN V /\ Column(i) \in DOMAIN V[Row(i)] /\ V[Row(i)][Column(i)] = src[i]
      BY <1>5 DEF Mirrors
    <3>2. CASE Row(i) = n
      <4>1. Column(i) \in 1 .. Len(ws) /\ ws[Column(i)] = src[i]
        BY <1>3, <1>4, <3>1, <3>2
      <4>2. Column(i) \in 1 .. (Len(ws) + 1)
        BY <1>4, <4>1
      <4> QED BY <1>3, <1>4, <3>2, <4>1, <4>2
    <3>3. CASE Row(i) # n
      BY <1>3, <3>1, <3>3
    <3> QED BY <3>2, <3>3
  <2>2. Row(p) \in DOMAIN W /\ Column(p) \in DOMAIN W[Row(p)] /\ W[Row(p)][Column(p)] = src[p]
    <3>1. n \in 1 .. n /\ Len(ws) + 1 \in 1 .. (Len(ws) + 1)
      BY <1>3, <1>4
    <3> QED BY <1>2, <1>3, <1>4, <3>1
  <2>3. ASSUME NEW r \in DOMAIN W, NEW k \in DOMAIN W[r]
        PROVE  \E i \in TextTo(p + 1) : Row(i) = r /\ Column(i) = k
    <3>1. CASE r = n /\ k = Len(ws) + 1
      BY <1>2, <3>1
    <3>2. CASE r = n /\ k # Len(ws) + 1
      <4>1. k \in DOMAIN V[r] /\ r \in DOMAIN V
        BY <1>3, <1>4, <2>3, <3>2
      <4> QED BY <1>2, <1>5, <4>1 DEF Mirrors
    <3>3. CASE r # n
      <4>1. k \in DOMAIN V[r] /\ r \in DOMAIN V
        BY <1>3, <2>3, <3>3
      <4> QED BY <1>2, <1>5, <4>1 DEF Mirrors
    <3> QED BY <3>1, <3>2, <3>3
  <2> QED BY <1>2, <2>1, <2>2, <2>3 DEF Mirrors
<1>7. Cardinality(InLine(p + 1)) = Len(ws) + 1
  <2>1. InLine(p + 1) = InLine(p) \union {p} /\ p \notin InLine(p)
    BY <1>1, <1>2 DEF InLine
  <2>2. IsFiniteSet(InLine(p)) /\ Cardinality(InLine(p)) = Len(ws)
    BY <1>0, PlaceFacts DEF Within
  <2>3. Cardinality(InLine(p) \union {p}) = Cardinality(InLine(p)) + 1
    BY ONLY <2>1, <2>2, FS_AddElement
  <2> QED BY ONLY <2>1, <2>2, <2>3
<1>8. LineOf(p + 1) \in LinesTo(p + 1) /\ Len(ls) + 1 = Cardinality(LinesTo(p + 1))
  BY <1>1, <1>2 DEF Within
<1> QED BY <1>4, <1>6, <1>7, <1>8 DEF Within, W, new

(* The first word of an instruction, in a line that has none yet. *)
LEMMA FirstWord ==
  ASSUME src \in Seq(Piece), NEW p \in DOMAIN src, IsText(p), src[p] # "NL",
         NEW ls \in Seq(Seq(Piece)), Between(ls, p), LineOf(p) \notin LinesTo(p)
  PROVE  Within(ls, <<src[p]>>, p + 1)
<1> DEFINE n   == Len(ls) + 1
           new == <<src[p]>>
           W   == Append(ls, new)
<1>0. p \in Nat \ {0} /\ src[p] \in Piece
  BY TextFacts
<1>1. LineOf(p + 1) = LineOf(p)
  <2>1. ~EndsLine(p)
    BY DEF EndsLine
  <2> QED BY <1>0, <2>1, LineOfFacts
<1>2. InLine(p) = {}
  BY DEF InLine, LinesTo
<1>3. /\ TextTo(p + 1) = TextTo(p) \union {p} /\ p \notin TextTo(p)
      /\ LinesTo(p + 1) = LinesTo(p) \union {LineOf(p)}
      /\ Cardinality(LinesTo(p + 1)) = n /\ Row(p) = n /\ Column(p) = 1
  <2>1. Cardinality(LinesTo(p) \union {LineOf(p)}) = Cardinality(LinesTo(p)) + 1
    BY <1>0, PlaceFacts, FS_AddElement
  <2>2. Cardinality(InLine(p)) = 0
    BY <1>2, FS_EmptySet
  <2> QED BY <1>0, <2>1, <2>2, PlaceFacts DEF Between
<1>4. /\ DOMAIN ls = 1 .. Len(ls) /\ DOMAIN W = 1 .. n /\ Len(ls) \in Nat /\ W[n] = new
      /\ \A k \in 1 .. Len(ls) : W[k] = ls[k]
  <2>1. new \in Seq(Piece) /\ Len(ls) \in Nat /\ DOMAIN ls = 1 .. Len(ls)
    BY <1>0, LenProperties
  <2> HIDE DEF new
  <2>2. /\ W \in Seq(Seq(Piece)) /\ Len(W) = n /\ W[n] = new /\ \A k \in 1 .. Len(ls) : W[k] = ls[k]
    BY <2>1, AppendProperties
  <2> QED BY <2>1, <2>2, LenProperties
<1>5. DOMAIN new = {1} /\ Len(new) = 1 /\ new[1] = src[p]
  OBVIOUS
<1>6. Mirrors(ls, p)
  BY DEF Between
<1> HIDE DEF W, new
<1>7. Mirrors(W, p + 1)
  <2>1. \A i \in TextTo(p) : /\ Row(i) \in DOMAIN W /\ Column(i) \in DOMAIN W[Row(i)]
                             /\ W[Row(i)][Column(i)] = src[i]
    <3>1. \A k \in 1 .. Len(ls) : k \in 1 .. n
      BY <1>4
    <3> QED BY <1>4, <1>6, <3>1 DEF Mirrors
  <2>2. Row(p) \in DOMAIN W /\ Column(p) \in DOMAIN W[Row(p)] /\ W[Row(p)][Column(p)] = src[p]
    <3>1. n \in 1 .. n
      BY <1>4
    <3> QED BY <1>3, <1>4, <1>5, <3>1
  <2>3. ASSUME NEW r \in DOMAIN W, NEW k \in DOMAIN W[r]
        PROVE  \E i \in TextTo(p + 1) : Row(i) = r /\ Column(i) = k
    <3>1. CASE r = n
      BY <1>3, <1>4, <1>5, <2>3, <3>1
    <3>2. CASE r # n
      <4>1. r \in DOMAIN ls /\ k \in DOMAIN ls[r]
        BY <1>4, <2>3, <3>2
      <4> QED BY <1>3, <1>6, <4>1 DEF Mirrors
    <3> QED BY <3>1, <3>2
  <2> QED BY <1>3, <2>1, <2>2, <2>3 DEF Mirrors
<1>8. Cardinality(InLine(p + 1)) = 1
  <2>1. InLine(p + 1) = InLine(p) \union {p} /\ p \notin InLine(p)
    BY <1>1, <1>3 DEF InLine
  <2>2. InLine(p + 1) = {p}
    BY <1>2, <2>1
  <2> QED BY <2>2, FS_Singleton
<1>9. LineOf(p + 1) \in LinesTo(p + 1) /\ Len(ls) + 1 = Cardinality(LinesTo(p + 1))
  BY <1>1, <1>3
<1> QED BY <1>5, <1>7, <1>8, <1>9 DEF Within, W, new

(* A keyword at the start of a line is in a line with no text before it,    *)
(* unless the file begins with a continuation.                              *)
LEMMA NewLine ==
  ASSUME src \in Seq(Piece), NEW p \in DOMAIN src, LineStart(p),
         p = 1 \/ ~(src[1] = "ESC" /\ BeforeNewline(1))
  PROVE  LineOf(p) \notin LinesTo(p)
<1>0. p \in Nat \ {0}
  BY TextFacts
<1>1. CASE p = 1
  BY <1>1 DEF LinesTo, TextTo
<1>2. CASE p # 1
  <2> DEFINE q == p - 1
  <2>1. q \in Nat \ {0} /\ p = q + 1 /\ src[q] = "NL"
    BY <1>0, <1>2 DEF LineStart
  <2>2. EndsLine(q)
    <3> SUFFICES ASSUME q > 1, Continues(q - 1) PROVE FALSE
      BY <2>1 DEF EndsLine
    <3>1. src[q - 1] \in {"ESC", "wESC"} /\ BeforeNewline(q - 1)
      BY DEF Continues
    <3>2. q - 1 \in 1 .. (p - 1) /\ \A k \in ((q - 1) + 1) .. (p - 1) : src[k] = "NL"
      BY <2>1
    <3>3. ~(src[q - 1] = "wESC" \/ (src[q - 1] = "ESC" /\ q - 1 > 1))
      BY <1>2, <3>2 DEF LineStart
    <3>4. q - 1 = 1
      BY <2>1, <3>1, <3>3
    <3> QED BY <1>2, <3>1, <3>3, <3>4
  <2> HIDE DEF q
  <2>3. LineOf(p) = LineOf(q) + 1 /\ LineOf(q) \in Nat
    BY <2>1, <2>2, LineOfFacts
  <2>4. ASSUME NEW i \in TextTo(p) PROVE LineOf(i) \in Nat /\ LineOf(i) <= LineOf(q)
    <3>1. i \in 1 .. q
      BY <2>1 DEF TextTo
    <3> QED BY <2>1, <3>1, LineOfFacts
  <2> QED BY <2>3, <2>4 DEF LinesTo
<1> QED BY <1>1, <1>2
-----------------------------------------------------------------------------
(* The text stays, and all that is said of it. *)
LEMMA SameText ==
  ASSUME UNCHANGED src
  PROVE  /\ \A i : IsText(i)' <=> IsText(i)
         /\ \A i : LineOf(i)' = LineOf(i)
         /\ \A i : Row(i)' = Row(i) /\ Column(i)' = Column(i)
         /\ \A i : TypeAt(i)' = TypeAt(i)
         /\ \A i : Clean(i)' <=> Clean(i)
         /\ \A i, e : TokenEnds(i, e)' <=> TokenEnds(i, e)
<1>1. \A i : Commented(i)' <=> Commented(i)
  BY DEF Commented
<1>2. \A i : BeforeNewline(i)' <=> BeforeNewline(i)
  BY DEF BeforeNewline
<1>3. \A i : Continues(i)' <=> Continues(i)
  BY <1>1, <1>2 DEF Continues
<1>4. \A i : EndsLine(i)' <=> EndsLine(i)
  BY <1>3 DEF EndsLine
<1>5. \A i : IsText(i)' <=> IsText(i)
  BY <1>1, <1>3 DEF IsText
<1>6. \A i : LineOf(i)' = LineOf(i)
  <2>1. \A i : {j \in 1 .. (i - 1) : EndsLine(j)'} = {j \in 1 .. (i - 1) : EndsLine(j)}
    BY <1>4
  <2> QED BY <2>1 DEF LineOf
<1>7. \A i : Row(i)' = Row(i)
  <2>1. \A i : {h \in 1 .. i : IsText(h)'} = {h \in 1 .. i : IsText(h)}
    BY <1>5
  <2>2. \A i : {LineOf(j)' : j \in {h \in 1 .. i : IsText(h)'}}
                 = {LineOf(j) : j \in {h \in 1 .. i : IsText(h)}}
    BY <1>6, <2>1
  <2> QED BY <2>2 DEF Row
<1>8. \A i : Column(i)' = Column(i)
  <2>1. \A i : {j \in 1 .. i : IsText(j)' /\ LineOf(j)' = LineOf(i)'}
                 = {j \in 1 .. i : IsText(j) /\ LineOf(j) = LineOf(i)}
    BY <1>5, <1>6
  <2> QED BY <2>1 DEF Column
<1>9. \A i : LineStart(i)' <=> LineStart(i)
  BY DEF LineStart
<1>10. \A i : TypeAt(i)' = TypeAt(i)
  BY <1>2, <1>9 DEF TypeAt
<1>11. \A i : Clean(i)' <=> Clean(i)
  BY <1>1 DEF Clean
<1>12. \A i, e : TokenEnds(i, e)' <=> TokenEnds(i, e)
  <2>1. \A i, e : CommentEnds(i, e)' <=> CommentEnds(i, e)
    BY <1>2 DEF CommentEnds
  <2> QED BY <1>2, <2>1 DEF TokenEnds
<1> QED BY <1>5, <1>6, <1>7, <1>8, <1>10, <1>11, <1>12

LEMMA SamePlaces ==
  ASSUME UNCHANGED src
  PROVE  /\ \A ls, p : Between(ls, p)' <=> Between(ls, p)
         /\ \A ls, ws, p : Within(ls, ws, p)' <=> Within(ls, ws, p)
<1>1. \A p : TextTo(p)' = TextTo(p)
  BY SameText DEF TextTo
<1>2. \A p : LinesTo(p)' = LinesTo(p)
  BY <1>1, SameText DEF LinesTo
<1>3. \A p : InLine(p)' = InLine(p)
  BY <1>1, SameText DEF InLine
<1>4. \A ls, p : Mirrors(ls, p)' <=> Mirrors(ls, p)
  BY <1>1, SameText DEF Mirrors
<1> QED BY <1>2, <1>3, <1>4, SameText DEF Between, Within

-----------------------------------------------------------------------------
(* The parser's steps, by what they do to the words. *)
Inside == Loops \union {"sub", "flags", "image", "as", "name", "command", "value", "files",
                        "single", "type"}

Rejects  == pc \notin {"lex", "done"} /\ Fail
Finishes == pc = "top" /\ Peek.type = "EOF" /\ pc' = "done" /\ UNCHANGED <<current, parseVars>>
Passes   ==
  /\ pc = "top" /\ Peek.type \in {"Comment", "Newline"}
  /\ Skip /\ UNCHANGED <<pc, op, args, ast>>
Begins   == pc = "top" /\ Peek.type = "Instruction" /\ Peek.value \in Keywords /\ Open
Turns    ==
  /\ pc \in Inside /\ pc' \in Inside \ {"flags"}
  /\ UNCHANGED <<current, parseVars>>
Joins    ==
  /\ pc \in Inside /\ Peek.type = "LineContinuation"
  /\ Skip /\ UNCHANGED <<pc, op, args, ast>>
Reads    ==
  /\ pc \in Inside /\ pc' \in Inside
  /\ Peek.type \in Wordy \/ Peek.value \in Keywords
  /\ Consume /\ UNCHANGED ast
  /\ op' \in Keywords \union {op}
  /\ pc' = "flags" => op' \in Keywords /\ args' = 0
  /\ args' \in {0, args, args + 1}
Closes   == pc \in Inside /\ CompleteHere
Ends     == pc \in Inside /\ Peek.type \in Wordy /\ CompleteWith

Moves == Rejects \/ Finishes \/ Passes \/ Begins \/ Turns \/ Joins \/ Reads \/ Closes \/ Ends

LEMMA BodyFacts ==
  ASSUME NEW k \in Keywords
  PROVE  Body(k) \in Inside \ {"flags"}
BY DEF Keywords, Body, Inside, Loops

LEMMA StepsAreMoves ==
  ASSUME Next, pc # "lex", pc = "flags" => op \in Keywords /\ args = 0,
         Peek.type = "Instruction" => Peek.value \in Keywords
  PROVE  UNCHANGED vars \/ (Moves /\ UNCHANGED <<src, pos, tokens>>)
<1> USE DEF Moves
<1>1. CASE Top
  <2>1. CASE Peek.type = "EOF" /\ pc' = (IF ast = << >> THEN "failed" ELSE "done")
             /\ UNCHANGED <<current, parseVars>>
    BY <1>1, <2>1 DEF Top, Finishes, Rejects, Fail
  <2>2. CASE Peek.type \in {"Comment", "Newline"} /\ Skip /\ UNCHANGED <<pc, op, args, ast>>
    BY <1>1, <2>2 DEF Top, Passes
  <2>3. CASE Peek.type = "Instruction" /\ Open
    BY <1>1, <2>3 DEF Top, Begins
  <2>4. CASE Fail
    BY <1>1, <2>4 DEF Top, Rejects
  <2> QED BY <1>1, <2>1, <2>2, <2>3, <2>4 DEF Top
<1>2. CASE Sub
  <2>1. CASE Peek.value \in Keywords /\ Open
    <3>1. pc' \in Inside /\ (pc' = "flags" => op' \in Keywords /\ args' = 0) /\ op' \in Keywords
      BY <2>1, BodyFacts DEF Open, Inside
    <3> QED BY <1>2, <2>1, <3>1 DEF Sub, Reads, Open, Inside
  <2>2. CASE Fail
    BY <1>2, <2>2 DEF Sub, Rejects
  <2> QED BY <1>2, <2>1, <2>2 DEF Sub
<1>3. CASE Flags
  <2>1. CASE Peek.type = "Flag" /\ Consume /\ UNCHANGED <<pc, op, args, ast>>
    BY <1>3, <2>1 DEF Flags, Reads, Inside, Wordy
  <2>2. CASE Fail
    BY <1>3, <2>2 DEF Flags, Rejects
  <2>3. CASE pc' = Body(op) /\ UNCHANGED <<current, parseVars>>
    BY <1>3, <2>3, BodyFacts DEF Flags, Turns, Inside
  <2> QED BY <1>3, <2>1, <2>2, <2>3 DEF Flags
<1>4. CASE From
  BY <1>4 DEF From, Reads, Closes, Ends, Rejects, Inside, Wordy, IsWord
<1>5. CASE Command
  BY <1>5 DEF Command, Ends, Turns, Inside, Loops, Wordy
<1>6. CASE Turn
  BY <1>6 DEF Turn, Reads, Closes, Joins, Inside, Loops, Wordy, IsWord
<1>7. CASE Spin
  BY <1>7 DEF Spin
<1>8. CASE Value
  BY <1>8 DEF Value, Reads, Rejects, Inside, Loops, Wordy, IsWord
<1>9. CASE Files
  BY <1>9 DEF Files, Reads, Closes, Rejects, Inside, Wordy, IsWord
<1>10. CASE Single
  BY <1>10 DEF Single, Ends, Rejects, Inside, Wordy, IsWord
<1>11. CASE Type
  BY <1>11 DEF Type, Reads, Joins, Ends, Rejects, Inside, Wordy
<1>12. CASE Stop
  BY <1>12 DEF Stop
<1> QED
  BY <1>1, <1>2, <1>3, <1>4, <1>5, <1>6, <1>7, <1>8, <1>9, <1>10, <1>11, <1>12
  DEF Next, NextToken, LexEnd
-----------------------------------------------------------------------------
(* The first m tokens begin at positions at[1], ..., at[m] of the text, one *)
(* after the other, and at[m + 1] is where the lexer is.                    *)
Placed(at, m) ==
  /\ m \in Nat /\ at \in [1 .. (m + 1) -> Nat] /\ at[1] = 1 /\ at[m + 1] = pos
  /\ \A k \in 1 .. m : /\ at[k] \in DOMAIN src /\ tokens[k] = Token(TypeAt(at[k]), at[k])
                       /\ TokenEnds(at[k], at[k + 1] - 1)
  /\ \A k \in 1 .. (m + 1) : Clean(at[k])

TokenSet == [type : TokenTypes, value : Piece \union {""}]
EOF      == [type |-> "EOF", value |-> ""]

(* The file does not begin with a continuation. *)
Plain == ~(src[1] = "ESC" /\ BeforeNewline(1))

(* The types, and what the instruction at hand has consumed. *)
Types ==
  /\ src \in Seq(Piece) /\ tokens \in Seq(TokenSet)
  /\ words \in Seq(Piece) /\ ast \in Seq(Seq(Piece))
  /\ pos \in 1 .. (Len(src) + 1) /\ Len(tokens) <= Len(src) + 1
  /\ current \in Nat \ {0}
  /\ pc \in Inside \union {"lex", "top", "done", "failed"}
  /\ op \in Keywords \union {"none"}
  /\ args \in 0 .. Len(src) /\ Len(words) < current
  /\ pc = "flags" => op \in Keywords /\ args = 0
  /\ pc \in Inside => words # << >> /\ words[1] \in Keywords /\ args < Len(words)
  /\ \A n \in DOMAIN ast : ast[n] # << >> /\ ast[n][1] \in Keywords

(* While the lexer runs. *)
Lexing ==
  pc = "lex" => /\ Len(tokens) < pos /\ current = 1 /\ words = << >> /\ ast = << >>
                /\ \E at : Placed(at, Len(tokens))

(* What is parsed is what is written before the token at hand. *)
Parses(at) ==
  /\ Placed(at, Len(tokens) - 1)
  /\ pc \in {"top", "done"} => words = << >> /\ Between(ast, at[current])
  /\ pc \in Inside => Within(ast, words, at[current])

(* Once it is through. *)
Parsing ==
  pc # "lex" => /\ pos = Len(src) + 1 /\ tokens # << >> /\ tokens[Len(tokens)] = EOF
                /\ current <= Len(tokens) /\ (pc = "done" => current = Len(tokens))
                /\ pc # "failed" /\ current > 1 => Plain
                /\ \E at : Parses(at)

(* The inductive invariant. *)
ParserInv == Types /\ Lexing /\ Parsing

(* The token at hand: the end of the file, or one that begins at a position *)
(* of the text.                                                             *)
LEMMA AtHand ==
  ASSUME Types, tokens # << >>, tokens[Len(tokens)] = EOF, current <= Len(tokens),
         NEW at, Placed(at, Len(tokens) - 1)
  PROVE  /\ Len(tokens) \in Nat /\ Peek \in TokenSet
         /\ Peek.type = "EOF" <=> current = Len(tokens)
         /\ Peek.type # "EOF" =>
              \E p \in DOMAIN src, q \in Nat \ {0} :
                /\ p = at[current] /\ q = at[current + 1] /\ p <= q /\ current < Len(tokens)
                /\ Clean(p) /\ TokenEnds(p, q - 1) /\ Peek = Token(TypeAt(p), p)
<1> DEFINE n == Len(tokens)
<1>1. n \in Nat /\ DOMAIN tokens = 1 .. n /\ current \in 1 .. n /\ tokens \in Seq(TokenSet)
  BY LenProperties DEF Types
<1>2. Peek \in TokenSet /\ tokens[n] = EOF
  BY <1>1, ElementOfSeq DEF Peek
<1> HIDE DEF n
<1>3. ASSUME current = n PROVE Peek.type = "EOF"
  <2>1. Peek = EOF
    BY ONLY <1>2, <1>3 DEF Peek
  <2> QED BY ONLY <2>1 DEF EOF
<1>4. ASSUME current # n
      PROVE  \E p \in DOMAIN src, q \in Nat \ {0} :
                /\ p = at[current] /\ q = at[current + 1] /\ p <= q /\ current < Len(tokens)
                /\ Clean(p) /\ TokenEnds(p, q - 1) /\ Peek = Token(TypeAt(p), p)
  <2>1. /\ current \in 1 .. (n - 1) /\ current \in 1 .. ((n - 1) + 1)
        /\ current + 1 \in 1 .. ((n - 1) + 1)
    BY <1>1, <1>4
  <2> DEFINE p == at[current]
             q == at[current + 1]
  <2>2. /\ p \in DOMAIN src /\ Peek = Token(TypeAt(p), p) /\ TokenEnds(p, q - 1) /\ Clean(p)
        /\ q \in Nat
    BY <2>1 DEF Placed, Peek, n
  <2> HIDE DEF p, q
  <2>3. p \in Nat /\ q - 1 \in p .. Len(src) /\ Len(src) \in Nat
    BY <2>2, NextClean, TextFacts DEF Types
  <2>4. q \in Nat \ {0} /\ p <= q
    BY <2>2, <2>3, TextFacts DEF Types
  <2>5. current < n
    BY ONLY <1>1, <1>4
  <2>6. current < Len(tokens) /\ p = at[current] /\ q = at[current + 1]
    BY <2>5, Zenon DEF p, q, n
  <2> QED BY <2>2, <2>4, <2>6, Zenon
<1>5. ASSUME NEW p \in DOMAIN src, Peek = Token(TypeAt(p), p) PROVE Peek.type # "EOF"
  <2>1. TypeAt(p) \in Wordy \union {"Newline", "Comment", "LineContinuation"}
    BY TextFacts, TypeFacts DEF Types
  <2> QED BY <1>5, <2>1 DEF Token, Wordy
<1> QED BY <1>1, <1>2, <1>3, <1>4, <1>5 DEF n

LEMMA SameTokens ==
  ASSUME UNCHANGED <<src, pos, tokens>>
  PROVE  \A at, m : Placed(at, m)' <=> Placed(at, m)
<1>1. \A i : TypeAt(i)' = TypeAt(i) /\ (Clean(i)' <=> Clean(i))
  BY SameText
<1>2. \A i, e : TokenEnds(i, e)' <=> TokenEnds(i, e)
  BY SameText
<1>3. \A t, i : Token(t, i)' = Token(t, i)
  BY DEF Token
<1> QED BY <1>1, <1>2, <1>3 DEF Placed

(* Reading a token that is text, and skipping one that is not. *)
LEMMA WordAtHand ==
  ASSUME Types, Parsing, pc # "lex", Peek.type \in Wordy \/ Peek.value \in Keywords,
         NEW at, Parses(at)
  PROVE  /\ current < Len(tokens) /\ Len(tokens) \in Nat
         /\ \E p \in DOMAIN src : /\ p = at[current] /\ at[current + 1] = p + 1
                                  /\ IsText(p) /\ src[p] # "NL" /\ Peek.value = src[p]
                                  /\ Peek.type = TypeAt(p) /\ src[p] \in Piece
<1>1. /\ Len(tokens) \in Nat /\ Peek \in TokenSet /\ (Peek.type = "EOF" <=> current = Len(tokens))
      /\ Peek.type # "EOF" =>
           \E p \in DOMAIN src, q \in Nat \ {0} :
             /\ p = at[current] /\ q = at[current + 1] /\ p <= q /\ current < Len(tokens)
             /\ Clean(p) /\ TokenEnds(p, q - 1) /\ Peek = Token(TypeAt(p), p)
  BY AtHand DEF Parsing, Parses
<1>2. Peek.type # "EOF"
  <2>1. SUFFICES ASSUME Peek.type = "EOF" PROVE FALSE
    OBVIOUS
  <2>2. Peek = EOF
    BY <1>1, <2>1 DEF Parsing, Peek
  <2>3. Peek.value = ""
    BY <2>2 DEF EOF
  <2> QED BY <2>1, <2>3 DEF Wordy, Keywords
<1>3. PICK p \in DOMAIN src, q \in Nat \ {0} :
             /\ p = at[current] /\ q = at[current + 1] /\ p <= q /\ current < Len(tokens)
             /\ Clean(p) /\ TokenEnds(p, q - 1) /\ Peek = Token(TypeAt(p), p)
  BY <1>1, <1>2
<1>4. Peek.type = TypeAt(p) /\ Peek.value = src[p] /\ src \in Seq(Piece) /\ src[p] \in Piece
  BY <1>3, TextFacts DEF Token, Types
<1>5. TypeAt(p) \in Wordy
  <2>1. CASE Peek.type \in Wordy
    BY <1>4, <2>1
  <2>2. CASE src[p] \in Keywords
    <3>1. src[p] \notin {"NL", "#", "ESC"}
      BY <2>2 DEF Keywords
    <3>2. TypeAt(p) \notin {"Newline", "Comment", "LineContinuation"}
      BY <1>4, <3>1, TypeFacts
    <3> QED BY <1>4, <3>2, TypeFacts
  <2> QED BY <1>4, <2>1, <2>2
<1>6. IsText(p) /\ q - 1 = p /\ src[p] # "NL"
  BY <1>3, <1>4, <1>5, TokenText
<1>7. at[current + 1] = p + 1
  <2>1. p \in Nat
    BY <1>3, <1>4, TextFacts
  <2>2. q = p + 1
    BY ONLY <1>6, <2>1, q \in Nat \ {0}
  <2> QED BY <1>3, <2>2
<1> QED BY <1>1, <1>3, <1>4, <1>6, <1>7

LEMMA NoWordAtHand ==
  ASSUME Types, Parsing, pc # "lex", Peek.type \in {"Newline", "Comment", "LineContinuation"},
         NEW at, Parses(at)
  PROVE  /\ current < Len(tokens) /\ Len(tokens) \in Nat
         /\ \A ls : Between(ls, at[current]) => Between(ls, at[current + 1])
         /\ Peek.type = "LineContinuation" =>
              \A ls, ws : Within(ls, ws, at[current]) => Within(ls, ws, at[current + 1])
         /\ current = 1 /\ Peek.type # "LineContinuation" => Plain
         /\ TextTo(at[current + 1]) = TextTo(at[current])
         /\ at[current] \in Nat /\ at[current + 1] \in Nat /\ at[current] <= at[current + 1]
<1>1. /\ Len(tokens) \in Nat
      /\ Peek.type # "EOF" =>
           \E p \in DOMAIN src, q \in Nat \ {0} :
             /\ p = at[current] /\ q = at[current + 1] /\ p <= q /\ current < Len(tokens)
             /\ Clean(p) /\ TokenEnds(p, q - 1) /\ Peek = Token(TypeAt(p), p)
  BY AtHand DEF Parsing, Parses
<1>2. Peek.type # "EOF"
  OBVIOUS
<1>3. PICK p \in DOMAIN src, q \in Nat \ {0} :
             /\ p = at[current] /\ q = at[current + 1] /\ p <= q /\ current < Len(tokens)
             /\ Clean(p) /\ TokenEnds(p, q - 1) /\ Peek = Token(TypeAt(p), p)
  BY <1>1, <1>2
<1>4. /\ Peek.type = TypeAt(p) /\ src \in Seq(Piece) /\ src[p] \in Piece
      /\ p \in Nat \ {0} /\ Len(src) \in Nat
  BY <1>3, TextFacts DEF Token, Types
<1>5. TypeAt(p) \notin Wordy
  BY <1>4 DEF Wordy
<1>6. /\ ~IsText(p) /\ \A j \in (p + 1) .. (q - 1) : ~IsText(j)
      /\ TypeAt(p) = "LineContinuation" => q - 1 = p + 1 /\ Continues(p)
  BY <1>3, <1>4, <1>5, TokenText
<1>7. \A j \in p .. (q - 1) : ~IsText(j)
  <2>1. \A j \in p .. (q - 1) : j = p \/ j \in (p + 1) .. (q - 1)
    BY <1>4
  <2> QED BY <1>6, <2>1
<1>8. ASSUME TypeAt(p) = "LineContinuation" PROVE LineOf(q) = LineOf(p)
  <2>1. q - 1 = p + 1 /\ Continues(p)
    BY <1>6, <1>8
  <2>2. q = (p + 1) + 1 /\ p + 1 \in Nat \ {0} /\ (p + 1) - 1 = p /\ p + 1 > 1
    BY ONLY <1>4, <2>1, q \in Nat \ {0}
  <2>3. ~EndsLine(p)
    BY <2>1 DEF EndsLine, Continues
  <2>4. ~EndsLine(p + 1)
    BY <2>1, <2>2 DEF EndsLine
  <2>5. LineOf(p + 1) = LineOf(p)
    BY <1>4, <2>3, LineOfFacts
  <2>6. LineOf((p + 1) + 1) = LineOf(p + 1)
    BY <2>2, <2>4, LineOfFacts
  <2> QED BY <2>2, <2>5, <2>6
<1>9. /\ TextTo(q) = TextTo(p)
      /\ \A ls : Between(ls, p) => Between(ls, q)
      /\ LineOf(q) = LineOf(p) => \A ls, ws : Within(ls, ws, p) => Within(ls, ws, q)
  <2>1. p \in Nat \ {0} /\ q \in Nat /\ p <= q
    BY <1>3, <1>4
  <2> QED BY ONLY <2>1, <1>7, Skipped
<1>10. ASSUME current = 1, Peek.type # "LineContinuation" PROVE Plain
  <2>1. p = 1
    BY <1>3, <1>10 DEF Parses, Placed
  <2> QED BY <1>4, <1>10, <2>1, TypeFacts DEF Plain
<1> QED BY <1>1, <1>3, <1>4, <1>8, <1>9, <1>10

-----------------------------------------------------------------------------
(* The moves keep the types. *)
LEMMA Prefixed ==
  ASSUME NEW ws \in Seq(Piece), NEW v \in Piece
  PROVE  /\ Append(ws, v) \in Seq(Piece) /\ Append(ws, v) # << >>
         /\ Len(ws) \in Nat /\ Len(Append(ws, v)) = Len(ws) + 1
         /\ ws # << >> => Append(ws, v)[1] = ws[1]
         /\ ws = << >> => Append(ws, v)[1] = v
<1>1. /\ Append(ws, v) \in Seq(Piece) /\ Len(ws) \in Nat /\ Len(Append(ws, v)) = Len(ws) + 1
      /\ Append(ws, v)[Len(ws) + 1] = v
      /\ \A k \in 1 .. Len(ws) : Append(ws, v)[k] = ws[k]
  BY AppendProperties, LenProperties
<1>2. Append(ws, v) # << >>
  <2>1. Len(Append(ws, v)) # 0
    BY <1>1
  <2>2. Len(<< >>) = 0
    OBVIOUS
  <2> QED BY ONLY <2>1, <2>2
<1>3. ASSUME ws # << >> PROVE 1 \in 1 .. Len(ws)
  BY <1>1, <1>3, EmptySeq
<1>4. ws = << >> => Len(ws) = 0
  OBVIOUS
<1> QED BY <1>1, <1>2, <1>3, <1>4

LEMMA Completed ==
  ASSUME NEW ls \in Seq(Seq(Piece)), NEW ws \in Seq(Piece), ws # << >>, ws[1] \in Keywords,
         \A n \in DOMAIN ls : ls[n] # << >> /\ ls[n][1] \in Keywords
  PROVE  /\ Append(ls, ws) \in Seq(Seq(Piece))
         /\ \A n \in DOMAIN Append(ls, ws) :
              Append(ls, ws)[n] # << >> /\ Append(ls, ws)[n][1] \in Keywords
<1> DEFINE new == Append(ls, ws)
<1>1. /\ new \in Seq(Seq(Piece)) /\ Len(ls) \in Nat /\ Len(new) = Len(ls) + 1
      /\ new[Len(ls) + 1] = ws /\ \A k \in 1 .. Len(ls) : new[k] = ls[k]
  BY AppendProperties, LenProperties
<1> HIDE DEF new
<1>2. DOMAIN new = 1 .. (Len(ls) + 1) /\ DOMAIN ls = 1 .. Len(ls)
  BY <1>1, LenProperties
<1>3. \A n \in DOMAIN new : n = Len(ls) + 1 \/ n \in DOMAIN ls
  BY <1>1, <1>2
<1>4. \A n \in DOMAIN new : new[n] # << >> /\ new[n][1] \in Keywords
  BY <1>1, <1>2, <1>3
<1> QED BY <1>1, <1>4 DEF new

LEMMA TypesMove ==
  ASSUME Types, Parsing, pc # "lex", Moves, UNCHANGED <<src, pos, tokens>>
  PROVE  Types'
<1> DEFINE n == Len(tokens)
<1>0. /\ src \in Seq(Piece) /\ tokens \in Seq(TokenSet) /\ words \in Seq(Piece)
      /\ ast \in Seq(Seq(Piece)) /\ \A k \in DOMAIN ast : ast[k] # << >> /\ ast[k][1] \in Keywords
      /\ n \in Nat /\ Len(src) \in Nat /\ Len(words) \in Nat
  BY LenProperties DEF Types
<1>1. /\ current \in Nat \ {0} /\ current <= n /\ Len(words) < current /\ n <= Len(src) + 1
      /\ args \in 0 .. Len(src)
  BY DEF Types, Parsing
<1>2. /\ (src \in Seq(Piece))' /\ (tokens \in Seq(TokenSet))'
      /\ (pos \in 1 .. (Len(src) + 1))' /\ (Len(tokens) <= Len(src) + 1)'
  BY DEF Types
<1>3. PICK at : Parses(at)
  BY DEF Parsing
<1> HIDE DEF n
<1>4. ASSUME UNCHANGED <<words, ast>>, op' = op, args' = args, current' \in {current, current + 1},
             pc' \in {"top", "done", "failed"} \union (Inside \ {"flags"}) \union {pc},
             pc' = "top" => words = << >>, pc' \in Inside => pc \in Inside
      PROVE  Types'
  <2>1. current' \in Nat \ {0} /\ Len(words) < current'
    BY <1>0, <1>1, <1>4
  <2> QED BY <1>2, <1>4, <2>1 DEF Types, Inside, Loops
<1>5. ASSUME Peek.type \in Wordy \/ Peek.value \in Keywords
      PROVE  Peek.value \in Piece /\ current < n
  BY <1>3, <1>5, WordAtHand DEF n
<1>6. ASSUME NEW v \in Piece, words' = Append(words, v), current' = current + 1, current < n,
             UNCHANGED ast,
             pc' \in Inside, args' \in {0, args, args + 1}, op' \in Keywords \union {op},
             pc' = "flags" => op' \in Keywords /\ args' = 0,
             \/ words = << >> /\ v \in Keywords /\ args' = 0
             \/ pc \in Inside
      PROVE  Types'
  <2>1. /\ words' \in Seq(Piece) /\ words' # << >> /\ Len(words') = Len(words) + 1
        /\ words'[1] \in Keywords
    BY <1>0, <1>6, Prefixed DEF Types
  <2>2. args' = 0 \/ args < Len(words)
    BY <1>6 DEF Types
  <2>3. /\ current' \in Nat \ {0} /\ Len(words') < current' /\ args' \in 0 .. Len(src)
        /\ args' < Len(words')
    BY ONLY <1>0, <1>1, <1>6, <2>1, <2>2
  <2> QED BY <1>0, <1>2, <1>6, <2>1, <2>3 DEF Types, Inside, Loops
<1>7. ASSUME NEW ws \in Seq(Piece), ws # << >>, ws[1] \in Keywords, Complete(ws),
             current' \in {current, current + 1}
      PROVE  Types'
  <2>1. /\ ast' \in Seq(Seq(Piece)) /\ words' = << >> /\ pc' = "top" /\ UNCHANGED <<op, args>>
        /\ \A k \in DOMAIN ast' : ast'[k] # << >> /\ ast'[k][1] \in Keywords
    BY <1>0, <1>7, Completed DEF Complete
  <2>2. words' \in Seq(Piece) /\ Len(words') = 0 /\ current' \in Nat \ {0} /\ Len(words') < current'
    BY <1>1, <1>7, <2>1
  <2> QED BY <1>2, <2>1, <2>2 DEF Types, Inside, Loops
<1>8. CASE Rejects
  BY <1>4, <1>8 DEF Rejects, Fail, parseVars, Inside, Loops
<1>9. CASE Finishes
  BY <1>4, <1>9 DEF Finishes, parseVars, Inside, Loops
<1>10. CASE Passes
  BY <1>3, <1>4, <1>10 DEF Passes, Skip, Parses, Inside, Loops
<1>11. CASE Begins
  <2>1. /\ words = << >> /\ words' = Append(words, Peek.value) /\ current' = current + 1
        /\ op' = Peek.value /\ args' = 0 /\ UNCHANGED ast
    BY <1>3, <1>11 DEF Begins, Open, Consume, Parses
  <2>2. Peek.value \in Keywords /\ pc' \in Inside
    BY <1>11, BodyFacts DEF Begins, Open, Inside
  <2> QED BY <1>5, <1>6, <2>1, <2>2
<1>12. CASE Turns
  BY <1>4, <1>12 DEF Turns, parseVars, Inside, Loops
<1>13. CASE Joins
  BY <1>4, <1>13 DEF Joins, Skip, Inside, Loops
<1>14. CASE Reads
  BY <1>5, <1>6, <1>14 DEF Reads, Consume
<1>15. CASE Closes
  BY <1>0, <1>7, <1>15 DEF Closes, CompleteHere, Types
<1>16. CASE Ends
  <2>1. Peek.value \in Piece /\ Complete(Append(words, Peek.value)) /\ current' = current + 1
    BY <1>5, <1>16 DEF Ends, CompleteWith
  <2>2. words # << >> /\ words[1] \in Keywords
    BY <1>16 DEF Ends, Types
  <2>3. /\ Append(words, Peek.value) \in Seq(Piece) /\ Append(words, Peek.value) # << >>
        /\ Append(words, Peek.value)[1] \in Keywords
    BY <1>0, <2>1, <2>2, Prefixed
  <2> QED BY <1>7, <2>1, <2>3
<1> QED
  BY <1>8, <1>9, <1>10, <1>11, <1>12, <1>13, <1>14, <1>15, <1>16 DEF Moves

(* The moves keep what is parsed equal to what is written. *)
LEMMA ParsingMove ==
  ASSUME Types, Parsing, pc # "lex", Moves, UNCHANGED <<src, pos, tokens>>
  PROVE  Parsing'
<1>1. PICK at : Parses(at)
  BY DEF Parsing
<1>2. /\ current \in Nat \ {0} /\ current <= Len(tokens) /\ Len(words) < current
      /\ src \in Seq(Piece) /\ words \in Seq(Piece) /\ ast \in Seq(Seq(Piece)) /\ Len(words) \in Nat
  BY LenProperties DEF Types, Parsing
<1>3. Placed(at, Len(tokens) - 1)'
  BY <1>1, SameTokens DEF Parses
<1>4. /\ (pos = Len(src) + 1)' /\ (tokens # << >>)' /\ (tokens[Len(tokens)] = EOF)'
      /\ Plain' <=> Plain
  BY DEF Parsing, EOF, Plain, BeforeNewline
<1>5. ASSUME current' <= Len(tokens), pc' = "done" => current' = Len(tokens),
             pc' # "failed" /\ current' > 1 => Plain,
             pc' \in {"top", "done"} => words' = << >> /\ Between(ast', at[current']),
             pc' \in Inside => Within(ast', words', at[current'])
      PROVE  Parsing'
  <2>1. (pc \in {"top", "done"} => words = << >> /\ Between(ast, at[current]))'
    BY <1>5, SamePlaces
  <2>2. (pc \in Inside => Within(ast, words, at[current]))'
    <3>1. ASSUME pc' \in Inside PROVE Within(ast, words, at[current])'
      BY <1>5, <3>1, SamePlaces
    <3> QED BY <3>1 DEF Inside, Loops
  <2>3. Parses(at)'
    BY <1>3, <2>1, <2>2 DEF Parses
  <2>4. (current <= Len(tokens))' /\ (pc = "done" => current = Len(tokens))'
        /\ (pc # "failed" /\ current > 1 => Plain)'
    BY <1>4, <1>5
  <2> QED BY <1>4, <2>3, <2>4 DEF Parsing
<1>6. /\ pc = "top" => words = << >> /\ Between(ast, at[current])
      /\ pc \in Inside => Within(ast, words, at[current])
      /\ pc # "failed" /\ current > 1 => Plain
  BY <1>1 DEF Parses, Parsing
<1>7. ASSUME pc \in Inside PROVE current > 1 /\ Plain
  <2>1. words # << >>
    BY <1>7 DEF Types
  <2>2. Len(words) > 0
    BY <1>2, <2>1, EmptySeq
  <2>3. current > 1
    BY ONLY <1>2, <2>2
  <2> QED BY <1>6, <1>7, <2>3 DEF Inside, Loops
<1>8. "failed" \notin Inside /\ "top" \notin Inside /\ "done" \notin Inside
  BY DEF Inside, Loops
<1>9. ASSUME Peek.type \in Wordy \/ Peek.value \in Keywords
      PROVE  /\ current + 1 <= Len(tokens)
             /\ \E p \in DOMAIN src : /\ p = at[current] /\ at[current + 1] = p + 1
                                      /\ IsText(p) /\ src[p] # "NL" /\ Peek.value = src[p]
                                      /\ Peek.type = TypeAt(p) /\ src[p] \in Piece
  <2>1. current < Len(tokens) /\ Len(tokens) \in Nat
    BY <1>1, <1>9, WordAtHand
  <2>2. current + 1 <= Len(tokens)
    BY ONLY <1>2, <2>1
  <2> QED BY <1>1, <1>9, <2>2, WordAtHand
<1>10. ASSUME Peek.type \in {"Newline", "Comment", "LineContinuation"}
       PROVE  /\ current + 1 <= Len(tokens)
              /\ \A ls : Between(ls, at[current]) => Between(ls, at[current + 1])
              /\ Peek.type = "LineContinuation" =>
                   \A ls, ws : Within(ls, ws, at[current]) => Within(ls, ws, at[current + 1])
              /\ current = 1 /\ Peek.type # "LineContinuation" => Plain
  <2>1. current < Len(tokens) /\ Len(tokens) \in Nat
    BY <1>1, <1>10, NoWordAtHand
  <2>2. current + 1 <= Len(tokens)
    BY ONLY <1>2, <2>1
  <2> QED BY <1>1, <1>10, <2>2, NoWordAtHand
<1>11. CASE Rejects
  BY <1>2, <1>5, <1>8, <1>11 DEF Rejects, Fail
<1>12. CASE Finishes
  <2>1. current = Len(tokens)
    BY <1>1, <1>12, AtHand DEF Finishes, Parsing, Parses
  <2> QED BY <1>2, <1>5, <1>6, <1>8, <1>12, <2>1 DEF Finishes, parseVars
<1>13. CASE Passes
  <2>1. current' = current + 1 /\ words' = words /\ ast' = ast /\ pc' = "top" /\ pc = "top"
    BY <1>13 DEF Passes, Skip
  <2>2. /\ current + 1 <= Len(tokens) /\ Between(ast, at[current + 1])
        /\ current = 1 => Plain
    BY <1>6, <1>10, <1>13, <2>1 DEF Passes
  <2>3. Plain
    BY <1>2, <1>6, <2>1, <2>2
  <2> QED BY <1>5, <1>6, <1>8, <2>1, <2>2, <2>3
<1>14. CASE Begins
  <2>1. /\ words' = Append(words, Peek.value) /\ current' = current + 1 /\ pc = "top"
        /\ ast' = ast /\ Peek.type = "Instruction"
    BY <1>14 DEF Begins, Open, Consume
  <2>2. pc' \in Inside
    BY <1>14, BodyFacts DEF Begins, Open, Inside
  <2>3. PICK p \in DOMAIN src : /\ p = at[current] /\ at[current + 1] = p + 1
                                /\ IsText(p) /\ src[p] # "NL" /\ Peek.value = src[p]
                                /\ Peek.type = TypeAt(p) /\ src[p] \in Piece
    BY <1>9, <2>1 DEF Wordy
  <2>4. LineStart(p) /\ src[p] \in Keywords
    BY <2>1, <2>3, TypeFacts
  <2>5. ASSUME current = 1 PROVE p = 1 /\ Plain
    <3>1. p = 1
      BY <1>1, <2>3, <2>5 DEF Parses, Placed
    <3> QED BY <2>4, <3>1 DEF Plain, Keywords
  <2>6. Plain
    BY <1>2, <1>6, <2>1, <2>5
  <2>7. LineOf(p) \notin LinesTo(p)
    BY <1>2, <2>4, <2>6, NewLine DEF Plain
  <2>8. Between(ast, p)
    BY <1>6, <2>1, <2>3
  <2>9. Within(ast, <<src[p]>>, p + 1)
    BY <1>2, <2>3, <2>7, <2>8, FirstWord
  <2>10. words' = <<src[p]>>
    BY <1>6, <2>1, <2>3
  <2>11. Within(ast', words', at[current'])
    BY <2>1, <2>3, <2>9, <2>10
  <2>12. current' <= Len(tokens)
    BY <1>9, <2>1 DEF Wordy
  <2> QED BY <1>5, <1>8, <2>2, <2>6, <2>11, <2>12
<1>15. CASE Turns
  BY <1>2, <1>5, <1>6, <1>7, <1>8, <1>15 DEF Turns, parseVars
<1>16. CASE Joins
  <2>1. /\ current' = current + 1 /\ words' = words /\ ast' = ast /\ pc' = pc /\ pc \in Inside
        /\ Peek.type = "LineContinuation"
    BY <1>16 DEF Joins, Skip
  <2>2. current + 1 <= Len(tokens) /\ Within(ast, words, at[current + 1])
    BY <1>6, <1>10, <2>1
  <2> QED BY <1>5, <1>7, <1>8, <2>1, <2>2
<1>17. CASE Reads
  <2>1. /\ words' = Append(words, Peek.value) /\ current' = current + 1 /\ pc \in Inside
        /\ ast' = ast /\ pc' \in Inside /\ (Peek.type \in Wordy \/ Peek.value \in Keywords)
    BY <1>17 DEF Reads, Consume
  <2>2. PICK p \in DOMAIN src : /\ p = at[current] /\ at[current + 1] = p + 1
                                /\ IsText(p) /\ src[p] # "NL" /\ Peek.value = src[p]
                                /\ Peek.type = TypeAt(p) /\ src[p] \in Piece
    BY <1>9, <2>1
  <2>3. Within(ast, words, p)
    BY <1>6, <2>1, <2>2
  <2>4. Within(ast, Append(words, src[p]), p + 1)
    BY <1>2, <2>2, <2>3, NextWord
  <2>5. Within(ast', words', at[current']) /\ current' <= Len(tokens)
    BY <1>9, <2>1, <2>2, <2>4
  <2> QED BY <1>5, <1>7, <1>8, <2>1, <2>5
<1>18. ASSUME NEW ws \in Seq(Piece), NEW p, Within(ast, ws, p) PROVE Between(Append(ast, ws), p)
  <2>1. Len(Append(ast, ws)) = Len(ast) + 1
    BY <1>2, AppendProperties
  <2> QED BY <1>18, <2>1 DEF Within, Between
<1>19. CASE Closes
  <2>1. /\ ast' = Append(ast, words) /\ words' = << >> /\ pc' = "top" /\ current' = current
        /\ pc \in Inside
    BY <1>19 DEF Closes, CompleteHere, Complete
  <2>2. Between(ast', at[current'])
    BY <1>2, <1>6, <1>18, <2>1
  <2> QED BY <1>2, <1>5, <1>7, <1>8, <2>1, <2>2
<1>20. CASE Ends
  <2>1. /\ ast' = Append(ast, Append(words, Peek.value)) /\ words' = << >> /\ pc' = "top"
        /\ current' = current + 1 /\ pc \in Inside /\ Peek.type \in Wordy
    BY <1>20 DEF Ends, CompleteWith, Complete
  <2>2. PICK p \in DOMAIN src : /\ p = at[current] /\ at[current + 1] = p + 1
                                /\ IsText(p) /\ src[p] # "NL" /\ Peek.value = src[p]
                                /\ Peek.type = TypeAt(p) /\ src[p] \in Piece
    BY <1>9, <2>1
  <2>3. Within(ast, words, p)
    BY <1>6, <2>1, <2>2
  <2>4. Within(ast, Append(words, src[p]), p + 1)
    BY <1>2, <2>2, <2>3, NextWord
  <2>5. Append(words, src[p]) \in Seq(Piece)
    BY <1>2, <2>2, AppendProperties
  <2>6. Between(ast', at[current']) /\ current' <= Len(tokens)
    BY <1>9, <1>18, <2>1, <2>2, <2>4, <2>5
  <2> QED BY <1>5, <1>7, <1>8, <2>1, <2>6
<1> QED
  BY <1>11, <1>12, <1>13, <1>14, <1>15, <1>16, <1>17, <1>19, <1>20 DEF Moves

-----------------------------------------------------------------------------
(* The steps of the lexer. *)
LEMMA TokenLexed ==
  ASSUME NextToken, src \in Seq(Piece), pos \in Nat \ {0}
  PROVE  /\ pos \in DOMAIN src
         /\ \E e : /\ TokenEnds(pos, e) /\ pos' = e + 1
                   /\ tokens' = Append(tokens, Token(TypeAt(pos), pos))
<1>1. pos \in DOMAIN src /\ src[pos] \in Piece
  BY TextFacts DEF NextToken
<1>2. /\ src[pos] = "NL" => TypeAt(pos) = "Newline"
      /\ src[pos] = "#" => TypeAt(pos) = "Comment"
      /\ src[pos] = "str" => TypeAt(pos) = "String"
      /\ src[pos] \in {"known", "flag"} => TypeAt(pos) = "Flag"
      /\ src[pos] \in Keywords /\ LineStart(pos) => TypeAt(pos) = "Instruction"
      /\ src[pos] = "ESC" /\ BeforeNewline(pos) => TypeAt(pos) = "LineContinuation"
      /\ src[pos] \in {"w", "kv", "AS", "[]", "wESC"} => TypeAt(pos) = "Argument"
      /\ src[pos] \in Keywords /\ ~LineStart(pos) => TypeAt(pos) = "Argument"
      /\ src[pos] = "ESC" /\ ~BeforeNewline(pos) => TypeAt(pos) = "Argument"
  BY DEF TypeAt, Keywords
<1> DEFINE Lexed(type, last) == tokens' = Append(tokens, Token(type, pos)) /\ pos' = last + 1
<1>3. \/ src[pos] = "NL" /\ Lexed("Newline", pos)
      \/ src[pos] = "#" /\ \E e \in pos .. Len(src) : CommentEnds(pos, e) /\ Lexed("Comment", e)
      \/ src[pos] = "str" /\ Lexed("String", pos)
      \/ src[pos] \in {"known", "flag"} /\ Lexed("Flag", pos)
      \/ src[pos] \in Keywords /\ LineStart(pos) /\ Lexed("Instruction", pos)
      \/ src[pos] = "ESC" /\ BeforeNewline(pos) /\ Lexed("LineContinuation", pos + 1)
      \/ /\ \/ src[pos] \in {"w", "kv", "AS", "[]", "wESC"}
            \/ src[pos] \in Keywords /\ ~LineStart(pos)
            \/ src[pos] = "ESC" /\ ~BeforeNewline(pos)
         /\ Lexed("Argument", pos)
  BY Zenon DEF NextToken
<1> HIDE DEF Lexed
<1>4. CASE src[pos] = "#" /\ \E e \in pos .. Len(src) : CommentEnds(pos, e) /\ Lexed("Comment", e)
  BY <1>1, <1>2, <1>4 DEF TokenEnds, Lexed
<1>5. CASE src[pos] = "ESC" /\ BeforeNewline(pos) /\ Lexed("LineContinuation", pos + 1)
  BY <1>1, <1>2, <1>5 DEF TokenEnds, Lexed
<1>6. CASE /\ src[pos] # "#" /\ ~(src[pos] = "ESC" /\ BeforeNewline(pos))
           /\ Lexed(TypeAt(pos), pos)
  BY <1>1, <1>6 DEF TokenEnds, Lexed
<1>7. \A k \in Keywords : k \notin {"#", "ESC"}
  BY DEF Keywords
<1>8. CASE src[pos] = "NL" /\ Lexed("Newline", pos)
  BY <1>2, <1>6, <1>8
<1>9. CASE src[pos] = "str" /\ Lexed("String", pos)
  BY <1>2, <1>6, <1>9
<1>10. CASE src[pos] \in {"known", "flag"} /\ Lexed("Flag", pos)
  BY <1>2, <1>6, <1>10
<1>11. CASE src[pos] \in Keywords /\ LineStart(pos) /\ Lexed("Instruction", pos)
  BY <1>2, <1>6, <1>7, <1>11
<1>12. CASE /\ \/ src[pos] \in {"w", "kv", "AS", "[]", "wESC"}
               \/ src[pos] \in Keywords /\ ~LineStart(pos)
               \/ src[pos] = "ESC" /\ ~BeforeNewline(pos)
            /\ Lexed("Argument", pos)
  <2>1. src[pos] # "#" /\ ~(src[pos] = "ESC" /\ BeforeNewline(pos))
    BY <1>7, <1>12
  <2>2. TypeAt(pos) = "Argument"
    BY <1>2, <1>12, Zenon
  <2> QED BY <1>6, <1>12, <2>1, <2>2
<1> QED BY <1>3, <1>4, <1>5, <1>8, <1>9, <1>10, <1>11, <1>12

LEMMA LexStep ==
  ASSUME Types, Lexing, NextToken
  PROVE  Types' /\ Lexing' /\ Parsing'
<1> DEFINE m   == Len(tokens)
           tok == Token(TypeAt(pos), pos)
<1>1. /\ src \in Seq(Piece) /\ tokens \in Seq(TokenSet) /\ pos \in Nat \ {0} /\ m \in Nat
      /\ pc = "lex" /\ m < pos /\ Len(src) \in Nat /\ pos <= Len(src)
  BY LenProperties DEF Types, Lexing, NextToken
<1>2. PICK at : Placed(at, m)
  BY <1>1 DEF Lexing
<1>3. PICK e : TokenEnds(pos, e) /\ pos' = e + 1 /\ tokens' = Append(tokens, tok)
  BY <1>1, TokenLexed
<1>4. pos \in DOMAIN src /\ UNCHANGED <<src, current, pc, op, words, args, ast>>
  BY <1>1, TokenLexed DEF NextToken, parseVars
<1>5. tok \in TokenSet
  <2>1. TypeAt(pos) \in TokenTypes /\ src[pos] \in Piece
    BY <1>1, <1>4, TextFacts, TypeFacts DEF TokenTypes, Wordy
  <2> QED BY <2>1 DEF Token, TokenSet
<1> HIDE DEF tok, m
<1>6. /\ tokens' \in Seq(TokenSet) /\ Len(tokens') = m + 1 /\ tokens'[m + 1] = tok
      /\ \A k \in 1 .. m : tokens'[k] = tokens[k]
  BY <1>1, <1>3, <1>5, AppendProperties DEF m
<1>7. Clean(pos)
  <2>1. m + 1 \in 1 .. (m + 1)
    BY <1>1
  <2> QED BY <1>2, <2>1 DEF Placed
<1>8. Clean(e + 1) /\ e \in pos .. Len(src)
  BY <1>1, <1>3, <1>4, <1>7, NextClean
<1>9. Types'
  <2>1. pos' \in 1 .. (Len(src) + 1) /\ Len(tokens') <= Len(src) + 1
    BY <1>1, <1>3, <1>6, <1>8
  <2> QED BY <1>4, <1>6, <2>1 DEF Types, Inside, Loops
<1>10. Lexing'
  <2> DEFINE new == [k \in 1 .. ((m + 1) + 1) |-> IF k = (m + 1) + 1 THEN e + 1 ELSE at[k]]
  <2>0. /\ new \in [1 .. ((m + 1) + 1) -> Nat] /\ new[1] = 1 /\ new[(m + 1) + 1] = pos'
        /\ \A k \in 1 .. (m + 1) : new[k] = at[k]
    <3>1. at \in [1 .. (m + 1) -> Nat] /\ at[1] = 1
      BY <1>2 DEF Placed
    <3>2. /\ e + 1 \in Nat /\ 1 \in 1 .. (m + 1) /\ 1 \in 1 .. ((m + 1) + 1)
          /\ (m + 1) + 1 \in 1 .. ((m + 1) + 1)
          /\ \A k \in 1 .. (m + 1) : k \in 1 .. ((m + 1) + 1) /\ k # (m + 1) + 1
          /\ \A k \in 1 .. ((m + 1) + 1) : k # (m + 1) + 1 => k \in 1 .. (m + 1)
      BY <1>1, <1>8
    <3> QED BY <1>3, <3>1, <3>2
  <2> HIDE DEF new
  <2>1. PICK next : /\ next \in [1 .. ((m + 1) + 1) -> Nat] /\ next[1] = 1
                    /\ next[(m + 1) + 1] = pos' /\ \A k \in 1 .. (m + 1) : next[k] = at[k]
    BY <2>0
  <2>2. ASSUME NEW k \in 1 .. (m + 1)
        PROVE  /\ next[k] \in DOMAIN src /\ tokens'[k] = Token(TypeAt(next[k]), next[k])
               /\ TokenEnds(next[k], next[k + 1] - 1)
    <3>1. CASE k = m + 1
      <4>1. next[k] = pos /\ next[k + 1] = e + 1
        BY <1>2, <1>3, <2>1, <3>1 DEF Placed
      <4>2. next[k + 1] - 1 = e
        BY <1>1, <1>8, <4>1
      <4> QED BY <1>3, <1>4, <1>6, <3>1, <4>1, <4>2 DEF tok
    <3>2. CASE k # m + 1
      <4>1. k \in 1 .. m /\ k + 1 \in 1 .. (m + 1)
        BY <1>1, <3>2
      <4>2. next[k] = at[k] /\ next[k + 1] = at[k + 1] /\ tokens'[k] = tokens[k]
        BY <1>6, <2>1, <4>1
      <4> QED BY <1>2, <4>1, <4>2 DEF Placed
    <3> QED BY <3>1, <3>2
  <2>3. ASSUME NEW k \in 1 .. ((m + 1) + 1) PROVE Clean(next[k])
    <3>1. CASE k = (m + 1) + 1
      BY <1>3, <1>8, <2>1, <3>1
    <3>2. CASE k # (m + 1) + 1
      <4>1. k \in 1 .. (m + 1)
        BY <1>1, <3>2
      <4> QED BY <1>2, <2>1, <4>1 DEF Placed
    <3> QED BY <3>1, <3>2
  <2>4. \A k, j : /\ Clean(k)' <=> Clean(k)
                  /\ TokenEnds(k, j)' <=> TokenEnds(k, j)
                  /\ Token(TypeAt(k), k)' = Token(TypeAt(k), k)
    BY <1>4, SameText DEF Token
  <2>5. /\ Len(tokens') \in Nat /\ next \in [1 .. (Len(tokens') + 1) -> Nat] /\ next[1] = 1
        /\ next[Len(tokens') + 1] = pos'
    BY <1>1, <1>6, <2>1
  <2>6. \A k \in 1 .. Len(tokens') :
          /\ next[k] \in DOMAIN src' /\ tokens'[k] = Token(TypeAt(next[k]), next[k])'
          /\ TokenEnds(next[k], next[k + 1] - 1)'
    BY <1>4, <1>6, <2>2, <2>4
  <2>7. \A k \in 1 .. (Len(tokens') + 1) : Clean(next[k])'
    BY <1>6, <2>3, <2>4
  <2>8. Placed(next, Len(tokens))'
    BY <2>5, <2>6, <2>7 DEF Placed
  <2>9. Len(tokens') < pos'
    BY <1>1, <1>3, <1>6, <1>8
  <2> QED BY <1>1, <1>4, <2>8, <2>9 DEF Lexing
<1>11. Parsing'
  BY <1>1, <1>4 DEF Parsing
<1> QED BY <1>9, <1>10, <1>11

LEMMA NothingParsed == Between(<< >>, 1)
<1>1. TextTo(1) = {}
  BY DEF TextTo
<1>2. LinesTo(1) = {} /\ Cardinality(LinesTo(1)) = 0
  BY <1>1, FS_EmptySet DEF LinesTo
<1> QED BY <1>1, <1>2 DEF Between, Mirrors

LEMMA LexEnds ==
  ASSUME Types, Lexing, LexEnd
  PROVE  Types' /\ Lexing' /\ Parsing'
<1> DEFINE m == Len(tokens)
<1>1. /\ src \in Seq(Piece) /\ tokens \in Seq(TokenSet) /\ m \in Nat
      /\ pc = "lex" /\ m < pos /\ Len(src) \in Nat /\ pos \in 1 .. (Len(src) + 1) /\ pos > Len(src)
      /\ current = 1 /\ words = << >> /\ ast = << >>
  BY LenProperties DEF Types, Lexing, LexEnd
<1>2. PICK at : Placed(at, m)
  BY <1>1 DEF Lexing
<1>3. /\ tokens' = Append(tokens, EOF) /\ pc' = "top"
      /\ UNCHANGED <<src, pos, current, op, words, args, ast>>
  BY DEF LexEnd, parseVars, EOF
<1>4. EOF \in TokenSet
  BY DEF EOF, TokenSet, TokenTypes
<1> HIDE DEF m
<1>5. /\ tokens' \in Seq(TokenSet) /\ Len(tokens') = m + 1 /\ tokens'[m + 1] = EOF
      /\ \A k \in 1 .. m : tokens'[k] = tokens[k]
  BY <1>1, <1>3, <1>4, AppendProperties DEF m
<1>6. pos = Len(src) + 1 /\ Len(tokens') <= Len(src) + 1 /\ current' <= Len(tokens')
      /\ Len(tokens') - 1 = m
  BY ONLY <1>1, <1>3, <1>5
<1>7. Types'
  BY <1>1, <1>3, <1>5, <1>6 DEF Types, Inside, Loops
<1>8. Lexing'
  BY <1>3 DEF Lexing
<1>9. Placed(at, Len(tokens) - 1)'
  <2>1. \A k, j : /\ Clean(k)' <=> Clean(k)
                  /\ TokenEnds(k, j)' <=> TokenEnds(k, j)
                  /\ Token(TypeAt(k), k)' = Token(TypeAt(k), k)
    BY <1>3, SameText DEF Token
  <2> QED BY <1>2, <1>3, <1>5, <1>6, <2>1 DEF Placed
<1>10. Between(ast', at[current'])
  <2>1. at[current'] = 1
    BY <1>1, <1>2, <1>3 DEF Placed
  <2> QED BY <1>1, <1>3, <2>1, NothingParsed
<1>11. Parses(at)'
  BY <1>1, <1>3, <1>9, <1>10, SamePlaces DEF Parses, Inside, Loops
<1>12. tokens' # << >>
  <2>1. Len(tokens') # 0 /\ Len(<< >>) = 0
    BY <1>1, <1>5
  <2> QED BY <2>1
<1>13. (pos = Len(src) + 1)' /\ (tokens[Len(tokens)] = EOF)' /\ (current = 1)'
  <2>1. EOF' = EOF
    BY DEF EOF
  <2> QED BY <1>1, <1>3, <1>5, <1>6, <2>1
<1>14. Parsing'
  BY <1>3, <1>6, <1>11, <1>12, <1>13 DEF Parsing
<1> QED BY <1>7, <1>8, <1>14

-----------------------------------------------------------------------------
(* What is parsed to the end is the lines of the text. *)
LEMMA AllParsed ==
  ASSUME NEW ls \in Seq(Seq(Piece)), \A n \in DOMAIN ls : ls[n] # << >>,
         src \in Seq(Piece), Between(ls, Len(src) + 1)
  PROVE  ls = Lines
<1> DEFINE row    == [i \in Written |-> Row(i)]
           column == [i \in Written |-> Column(i)]
           Of(n)  == {j \in Written : row[j] = n}
           L(n)   == [k \in {column[i] : i \in Of(n)} |->
                         src[CHOOSE i \in Written : row[i] = n /\ column[i] = k]]
<1>1. Lines = [n \in {row[i] : i \in Written} |-> L(n)]
  BY DEF Lines
<1>2. TextTo(Len(src) + 1) = Written
  <2>1. Len(src) \in Nat /\ DOMAIN src = 1 .. Len(src)
    BY TextFacts
  <2>2. (Len(src) + 1) - 1 = Len(src)
    BY <2>1
  <2> QED BY <2>1, <2>2 DEF TextTo, Written
<1>3. /\ \A i \in Written : /\ row[i] \in DOMAIN ls /\ column[i] \in DOMAIN ls[row[i]]
                            /\ ls[row[i]][column[i]] = src[i]
      /\ \A n \in DOMAIN ls : \A k \in DOMAIN ls[n] :
           \E i \in Written : row[i] = n /\ column[i] = k
  BY <1>2 DEF Between, Mirrors
<1> HIDE DEF row, column
<1>4. ASSUME NEW n \in DOMAIN ls PROVE ls[n] \in Seq(Piece) /\ 1 \in DOMAIN ls[n]
  <2>1. ls[n] \in Seq(Piece) /\ ls[n] # << >>
    BY ElementOfSeq, LenProperties
  <2>2. Len(ls[n]) \in Nat /\ Len(ls[n]) # 0 /\ DOMAIN ls[n] = 1 .. Len(ls[n])
    BY <2>1, LenProperties, EmptySeq
  <2> QED BY <2>1, <2>2
<1>5. DOMAIN ls = {row[i] : i \in Written}
  <2>1. \A n \in DOMAIN ls : \E i \in Written : row[i] = n
    BY <1>3, <1>4, Zenon
  <2>2. \A i \in Written : row[i] \in DOMAIN ls
    BY <1>3, Zenon
  <2> QED BY <2>1, <2>2, Zenon
<1>6. ASSUME NEW n \in DOMAIN ls PROVE ls[n] = L(n)
  <2>1. DOMAIN ls[n] = {column[i] : i \in Of(n)}
    <3>1. ASSUME NEW k \in DOMAIN ls[n] PROVE \E i \in Of(n) : column[i] = k
      <4>1. PICK i \in Written : row[i] = n /\ column[i] = k
        BY <1>3, Zenon
      <4>2. i \in Of(n)
        BY <4>1, Zenon
      <4> QED BY <4>1, <4>2, Zenon
    <3>2. \A i \in Of(n) : column[i] \in DOMAIN ls[n]
      BY <1>3, Zenon
    <3> QED BY <3>1, <3>2, Zenon
  <2>2. ASSUME NEW k \in DOMAIN ls[n]
        PROVE  ls[n][k] = src[CHOOSE i \in Written : row[i] = n /\ column[i] = k]
    BY <1>3
  <2>3. ls[n] = [k \in DOMAIN ls[n] |-> ls[n][k]]
    BY <1>4, LenProperties
  <2>4. [k \in DOMAIN ls[n] |-> ls[n][k]]
          = [k \in DOMAIN ls[n] |-> src[CHOOSE i \in Written : row[i] = n /\ column[i] = k]]
    BY <2>2, Zenon
  <2> QED BY <2>1, <2>3, <2>4, Zenon
<1> HIDE DEF L
<1>7. ls = [n \in DOMAIN ls |-> ls[n]]
  BY LenProperties
<1> QED BY <1>1, <1>5, <1>6, <1>7

LEMMA InitParserInv == Init => ParserInv
<1> SUFFICES ASSUME Init PROVE ParserInv
  OBVIOUS
<1>1. src \in Seq(Piece)
  <2>1. PICK t \in Texts : \E s \in BoundedSeq(t.pieces, t.max) : src = t.prefix \o s
    BY DEF Init
  <2>2. PICK s \in BoundedSeq(t.pieces, t.max) : src = t.prefix \o s
    BY <2>1
  <2>3. t.pieces \subseteq Piece /\ t.prefix \in Seq(Piece)
    BY TextAssumption
  <2>4. PICK m \in 0 .. t.max : s \in [1 .. m -> t.pieces]
    BY <2>2 DEF BoundedSeq, SeqOf
  <2>5. s \in Seq(Piece)
    <3>1. t.max \in Nat
      BY TextAssumption
    <3>2. m \in Nat /\ s \in [1 .. m -> Piece]
      BY <2>3, <2>4, <3>1
    <3> QED BY <3>2, SeqDef
  <2> QED BY <2>2, <2>3, <2>5, ConcatProperties
<1>2. /\ pos = 1 /\ tokens = << >> /\ current = 1 /\ pc = "lex" /\ op = "none" /\ words = << >>
      /\ args = 0 /\ ast = << >> /\ Len(src) \in Nat /\ Len(tokens) = 0 /\ Len(words) = 0
  BY <1>1, LenProperties DEF Init
<1>3. Types
  BY <1>1, <1>2 DEF Types, Inside, Loops
<1>4. Clean(1)
  <2>1. \A h \in 1 .. 1 : h = 1
    OBVIOUS
  <2> QED BY <2>1 DEF Clean, Commented
<1>5. Placed([k \in 1 .. 1 |-> 1], 0)
  BY <1>2, <1>4 DEF Placed
<1>6. Lexing
  BY <1>2, <1>5 DEF Lexing
<1>7. Parsing
  BY <1>2 DEF Parsing
<1> QED BY <1>3, <1>6, <1>7 DEF ParserInv

LEMMA NextParserInv == ParserInv /\ [Next]_vars => ParserInv'
<1> SUFFICES ASSUME ParserInv, [Next]_vars PROVE ParserInv'
  OBVIOUS
<1>1. Types /\ Lexing /\ Parsing
  BY DEF ParserInv
<1>2. CASE UNCHANGED vars
  <2>1. UNCHANGED <<src, pos, tokens, current, pc, op, words, args, ast>>
    BY <1>2 DEF vars
  <2>2. Types'
    BY <1>1, <2>1 DEF Types, Inside, Loops
  <2>3. Lexing'
    BY <1>1, <2>1, SameTokens DEF Lexing
  <2>4. Parsing'
    <3>1. \A at : Parses(at) => Parses(at)'
      BY <2>1, SameTokens, SamePlaces DEF Parses, Inside, Loops
    <3>2. Plain => Plain'
      BY <2>1 DEF Plain, BeforeNewline
    <3> QED BY <1>1, <2>1, <3>1, <3>2 DEF Parsing, EOF
  <2> QED BY <2>2, <2>3, <2>4 DEF ParserInv
<1>3. CASE NextToken
  BY <1>1, <1>3, LexStep DEF ParserInv
<1>4. CASE LexEnd
  BY <1>1, <1>4, LexEnds DEF ParserInv
<1>5. CASE Next /\ pc # "lex"
  <2>1. Peek.type = "Instruction" => Peek.value \in Keywords
    <3> SUFFICES ASSUME Peek.type = "Instruction" PROVE Peek.value \in Keywords
      OBVIOUS
    <3>1. PICK at : Parses(at)
      BY <1>1, <1>5 DEF Parsing
    <3>2. \E p \in DOMAIN src : /\ Peek.value = src[p] /\ Peek.type = TypeAt(p)
                                /\ src[p] \in Piece
      BY <1>1, <1>5, <3>1, WordAtHand DEF Wordy
    <3> QED BY <3>2, TypeFacts
  <2>2. UNCHANGED vars \/ (Moves /\ UNCHANGED <<src, pos, tokens>>)
    BY <1>1, <1>5, <2>1, StepsAreMoves DEF Types
  <2>3. ASSUME Moves, UNCHANGED <<src, pos, tokens>> PROVE ParserInv'
    <3>1. Types' /\ Parsing'
      BY <1>1, <1>5, <2>3, TypesMove, ParsingMove
    <3>2. pc' # "lex"
      BY <1>5, <2>3, BodyFacts
      DEF Moves, Rejects, Finishes, Passes, Begins, Turns, Joins, Reads, Closes, Ends,
          Inside, Loops,
          Fail, Open, CompleteHere, CompleteWith, Complete
    <3> QED BY <3>1, <3>2 DEF ParserInv, Lexing
  <2> QED BY <1>2, <2>2, <2>3
<1>6. Next /\ pc = "lex" => NextToken \/ LexEnd
  BY DEF Next, Top, Sub, Flags, From, Command, Turn, Spin, Value, Files, Single, Type, Stop,
         Ended, Loops
<1> QED BY <1>2, <1>3, <1>4, <1>5, <1>6

(* The inductive invariant holds in every reachable state. *)
LEMMA ParserInvariance == Spec => []ParserInv
BY InitParserInv, NextParserInv, PTL DEF Spec

(* In every state every variable is of its kind, the lexer and the parser   *)
(* are within their text and tokens, and the instructions parsed begin with *)
(* a keyword: parser.go reads no token past EOF.                            *)
THEOREM ParserTypesAreCorrect == Spec => []TypeOK
<1>1. ParserInv => TypeOK
  <2> SUFFICES ASSUME ParserInv PROVE TypeOK
    OBVIOUS
  <2>1. Types /\ Lexing /\ Parsing
    BY DEF ParserInv
  <2>2. /\ Len(tokens) \in Nat /\ DOMAIN tokens = 1 .. Len(tokens) /\ tokens \in Seq(TokenSet)
    BY <2>1, LenProperties DEF Types
  <2>3. \A k \in DOMAIN tokens : tokens[k].type \in TokenTypes
    <3>1. \A k \in DOMAIN tokens : tokens[k] \in TokenSet
      BY <2>2, ElementOfSeq
    <3> QED BY <3>1 DEF TokenSet
  <2>4. current \in 1 .. (Len(tokens) + 1)
    <3>1. current \in Nat \ {0} /\ (current = 1 \/ current <= Len(tokens))
      BY <2>1 DEF Types, Lexing, Parsing
    <3> QED BY <2>2, <3>1
  <2>5. pc = "files" => args < Len(words)
    BY <2>1 DEF Types, Inside
  <2> QED BY <2>1, <2>3, <2>4, <2>5 DEF TypeOK, Types, Inside
<1> QED BY <1>1, ParserInvariance, PTL

(* The instructions of a file that is parsed are its lines, for files of    *)
(* every kind and length: the lexer and the loops of the parser lose no     *)
(* word, repeat none and move none to another instruction.                  *)
THEOREM ParsedIsAlwaysWritten == Spec => []ParsedIsWritten
<1>1. ParserInv => ParsedIsWritten
  <2> SUFFICES ASSUME ParserInv, pc = "done" PROVE ast = Lines
    BY DEF ParsedIsWritten
  <2>1. Types /\ Parsing
    BY DEF ParserInv
  <2>2. PICK at : Parses(at)
    BY <2>1 DEF Parsing
  <2>3. current = Len(tokens) /\ pos = Len(src) + 1 /\ Between(ast, at[current])
    BY <2>1, <2>2 DEF Parsing, Parses
  <2>4. at[(Len(tokens) - 1) + 1] = pos
    BY <2>2 DEF Parses, Placed
  <2>5. (Len(tokens) - 1) + 1 = Len(tokens)
    <3>1. Len(tokens) \in Nat
      BY <2>1, LenProperties DEF Types
    <3> QED BY ONLY <3>1
  <2>6. Between(ast, Len(src) + 1)
    BY <2>3, <2>4, <2>5
  <2>7. /\ ast \in Seq(Seq(Piece)) /\ src \in Seq(Piece) /\ \A n \in DOMAIN ast : ast[n] # << >>
    BY <2>1 DEF Types
  <2> QED BY <2>6, <2>7, AllParsed
<1> QED BY <1>1, ParserInvariance, PTL

-----------------------------------------------------------------------------
(* The lines of a text are a sequence of sequences of words. *)
LEMMA Least ==
  ASSUME NEW S \in SUBSET Nat, S # {}
  PROVE  \E i \in S : \A j \in S : i <= j
<1>1. PICK i \in S : \A j \in S : ~ (<<j, i>> \in OpToRel(<, Nat))
  BY WFMin, NatLessThanWellFounded
<1>2. \A j \in S : ~ (j < i)
  BY <1>1 DEF OpToRel
<1> QED BY <1>2

LEMMA Closed ==
  ASSUME NEW ls \in Seq(Seq(Piece)), NEW ws \in Seq(Piece), NEW p, Within(ls, ws, p)
  PROVE  Between(Append(ls, ws), p)
<1>1. Len(Append(ls, ws)) = Len(ls) + 1
  BY AppendProperties
<1> QED BY <1>1 DEF Within, Between

LEMMA NoneEmpty ==
  ASSUME NEW ls \in Seq(Seq(Piece)), NEW ws \in Seq(Piece), ws # << >>,
         \A n \in DOMAIN ls : ls[n] # << >>
  PROVE  Append(ls, ws) \in Seq(Seq(Piece)) /\ \A n \in DOMAIN Append(ls, ws) : Append(ls, ws)[n] # << >>
<1> DEFINE new == Append(ls, ws)
<1>1. /\ new \in Seq(Seq(Piece)) /\ Len(ls) \in Nat /\ Len(new) = Len(ls) + 1
      /\ new[Len(ls) + 1] = ws /\ \A k \in 1 .. Len(ls) : new[k] = ls[k]
  BY AppendProperties, LenProperties
<1> HIDE DEF new
<1>2. DOMAIN new = 1 .. (Len(ls) + 1) /\ DOMAIN ls = 1 .. Len(ls)
  BY <1>1, LenProperties
<1>3. \A n \in DOMAIN new : n = Len(ls) + 1 \/ n \in DOMAIN ls
  BY <1>1, <1>2
<1>4. \A n \in DOMAIN new : new[n] # << >>
  BY <1>1, <1>2, <1>3
<1> QED BY <1>1, <1>4 DEF new

(* The words of the text before p, in lines; the last is open if p is in it. *)
LinedUp(p) ==
  \E ls \in Seq(Seq(Piece)) :
    /\ \A n \in DOMAIN ls : ls[n] # << >>
    /\ \/ LineOf(p) \notin LinesTo(p) /\ Between(ls, p)
       \/ \E ws \in Seq(Piece) : ws # << >> /\ Within(ls, ws, p)

LEMMA LinesBefore ==
  ASSUME NEW p \in Nat \ {0}
  PROVE  \A l \in LinesTo(p) : l \in Nat /\ l <= LineOf(p)
<1>1. \A j \in 1 .. p : LineOf(j) \in Nat /\ LineOf(j) <= LineOf(p)
  BY LineOfFacts
<1>2. TextTo(p) \subseteq 1 .. p
  BY DEF TextTo
<1> QED BY <1>1, <1>2 DEF LinesTo

LEMMA AllLined ==
  ASSUME src \in Seq(Piece), NEW p \in 1 .. (Len(src) + 1)
  PROVE  LinedUp(p)
<1>0. Len(src) \in Nat /\ DOMAIN src = 1 .. Len(src)
  BY TextFacts
<1>1. LinedUp(1)
  <2>1. LinesTo(1) = {}
    BY DEF LinesTo, TextTo
  <2>2. << >> \in Seq(Seq(Piece)) /\ DOMAIN << >> = {}
    OBVIOUS
  <2> QED BY <2>1, <2>2, NothingParsed DEF LinedUp
<1>2. ASSUME NEW i \in 1 .. Len(src), LinedUp(i) PROVE LinedUp(i + 1)
  <2>0. i \in Nat \ {0} /\ i \in DOMAIN src /\ i + 1 \in Nat /\ i <= i + 1
        /\ \A j \in i .. ((i + 1) - 1) : j = i
    BY <1>0
  <2>1. PICK ls \in Seq(Seq(Piece)) :
          /\ \A n \in DOMAIN ls : ls[n] # << >>
          /\ \/ LineOf(i) \notin LinesTo(i) /\ Between(ls, i)
             \/ \E ws \in Seq(Piece) : ws # << >> /\ Within(ls, ws, i)
    BY <1>2 DEF LinedUp
  <2>2. src[i] \in Piece
    BY <2>0, TextFacts
  <2>3. CASE IsText(i)
    <3>1. src[i] # "NL"
      BY <2>3 DEF IsText
    <3>2. CASE LineOf(i) \notin LinesTo(i) /\ Between(ls, i)
      <4>1. Within(ls, <<src[i]>>, i + 1)
        BY <2>0, <2>3, <3>1, <3>2, FirstWord
      <4>2. <<src[i]>> \in Seq(Piece) /\ <<src[i]>> # << >>
        BY <2>2
      <4> QED BY <2>1, <4>1, <4>2 DEF LinedUp
    <3>3. ASSUME NEW ws \in Seq(Piece), ws # << >>, Within(ls, ws, i) PROVE LinedUp(i + 1)
      <4>1. Within(ls, Append(ws, src[i]), i + 1)
        BY <2>0, <2>3, <3>1, <3>3, NextWord
      <4>2. Append(ws, src[i]) \in Seq(Piece) /\ Append(ws, src[i]) # << >>
        BY <2>2, Prefixed
      <4> QED BY <2>1, <4>1, <4>2 DEF LinedUp
    <3> QED BY <2>1, <3>2, <3>3
  <2>4. CASE ~IsText(i)
    <3>1. \A j \in i .. ((i + 1) - 1) : ~IsText(j)
      BY <2>0, <2>4
    <3>2. /\ TextTo(i + 1) = TextTo(i)
          /\ \A xs : Between(xs, i) => Between(xs, i + 1)
          /\ LineOf(i + 1) = LineOf(i) => \A xs, ws : Within(xs, ws, i) => Within(xs, ws, i + 1)
      BY ONLY <2>0, <3>1, Skipped
    <3>3. LinesTo(i + 1) = LinesTo(i)
      BY <3>2 DEF LinesTo
    <3>4. CASE ~EndsLine(i)
      <4>1. LineOf(i + 1) = LineOf(i)
        BY <2>0, <3>4, LineOfFacts
      <4> QED BY <2>1, <3>2, <3>3, <4>1 DEF LinedUp
    <3>5. CASE EndsLine(i)
      <4>1. LineOf(i) \in Nat /\ LineOf(i + 1) = LineOf(i) + 1
        BY <2>0, <3>5, LineOfFacts
      <4>2. \A l \in LinesTo(i) : l \in Nat /\ l <= LineOf(i)
        BY <2>0, LinesBefore
      <4>3. LineOf(i + 1) \notin LinesTo(i + 1)
        BY <3>3, <4>1, <4>2
      <4>4. CASE Between(ls, i)
        BY <2>1, <3>2, <4>3, <4>4 DEF LinedUp
      <4>5. ASSUME NEW ws \in Seq(Piece), ws # << >>, Within(ls, ws, i) PROVE LinedUp(i + 1)
        <5>1. Between(Append(ls, ws), i)
          BY <4>5, Closed
        <5>2. /\ Append(ls, ws) \in Seq(Seq(Piece))
              /\ \A n \in DOMAIN Append(ls, ws) : Append(ls, ws)[n] # << >>
          BY <2>1, <4>5, NoneEmpty
        <5> QED BY <3>2, <4>3, <5>1, <5>2 DEF LinedUp
      <4> QED BY <2>1, <4>4, <4>5
    <3> QED BY <3>4, <3>5
  <2> QED BY <2>3, <2>4
<1> DEFINE S == {q \in 1 .. (Len(src) + 1) : ~LinedUp(q)}
<1>3. ASSUME S # {} PROVE FALSE
  <2>1. S \in SUBSET Nat
    BY <1>0
  <2>2. PICK q \in S : \A j \in S : q <= j
    BY <1>3, <2>1, Least
  <2>3. q \in 1 .. (Len(src) + 1) /\ ~LinedUp(q) /\ q # 1
    BY <1>1, <2>2
  <2>4. q - 1 \in 1 .. Len(src) /\ q - 1 \in 1 .. (Len(src) + 1) /\ ~(q <= q - 1) /\ (q - 1) + 1 = q
    BY <1>0, <2>3
  <2>5. LinedUp(q - 1)
    BY <2>2, <2>4
  <2> QED BY <1>2, <2>3, <2>4, <2>5
<1> QED BY <1>3

LEMMA LinesFacts ==
  ASSUME src \in Seq(Piece)
  PROVE  /\ Lines \in Seq(Seq(Piece)) /\ \A n \in DOMAIN Lines : Lines[n] # << >>
         /\ TextTo(Len(src) + 1) = Written
         /\ Mirrors(Lines, Len(src) + 1)
<1>0. Len(src) \in Nat /\ DOMAIN src = 1 .. Len(src) /\ Len(src) + 1 \in 1 .. (Len(src) + 1)
      /\ (Len(src) + 1) - 1 = Len(src)
  BY TextFacts
<1>1. TextTo(Len(src) + 1) = Written
  BY <1>0 DEF TextTo, Written
<1>2. PICK ls \in Seq(Seq(Piece)) :
        /\ \A n \in DOMAIN ls : ls[n] # << >>
        /\ \/ LineOf(Len(src) + 1) \notin LinesTo(Len(src) + 1) /\ Between(ls, Len(src) + 1)
           \/ \E ws \in Seq(Piece) : ws # << >> /\ Within(ls, ws, Len(src) + 1)
  BY <1>0, AllLined DEF LinedUp
<1>3. ASSUME NEW xs \in Seq(Seq(Piece)), \A n \in DOMAIN xs : xs[n] # << >>,
             Between(xs, Len(src) + 1)
      PROVE  xs = Lines
  BY <1>3, AllParsed
<1>4. \E xs \in Seq(Seq(Piece)) : (\A n \in DOMAIN xs : xs[n] # << >>) /\ Between(xs, Len(src) + 1)
  BY <1>2, Closed, NoneEmpty
<1> QED BY <1>1, <1>3, <1>4 DEF Between

-----------------------------------------------------------------------------
(* The line whose instruction is at hand when ls were parsed. *)
Line(ls) == Lines[Len(ls) + 1]

(* No line goes on at p or behind it. *)
Over(p) == \A i \in Written : i >= p => LineOf(i) \notin LinesTo(p)

LEMMA WithinFacts ==
  ASSUME NEW ls \in Seq(Seq(Piece)), NEW ws \in Seq(Piece), NEW p \in Nat, Within(ls, ws, p)
  PROVE  /\ Len(ls) \in Nat /\ Len(ws) \in Nat /\ Len(ls) + 1 = Cardinality(LinesTo(p))
         /\ LineOf(p) \in LinesTo(p) /\ Len(ws) = Cardinality(InLine(p))
         /\ \A i \in TextTo(p) : Row(i) = Len(ls) + 1 =>
              Column(i) \in 1 .. Len(ws) /\ ws[Column(i)] = src[i]
         /\ \A k \in 1 .. Len(ws) :
              \E i \in TextTo(p) : Row(i) = Len(ls) + 1 /\ Column(i) = k /\ src[i] = ws[k]
<1> DEFINE V == Append(ls, ws)
           r == Len(ls) + 1
<1>1. Len(ls) \in Nat /\ Len(ws) \in Nat /\ DOMAIN ws = 1 .. Len(ws)
  BY LenProperties
<1>2. V \in Seq(Seq(Piece)) /\ Len(V) = r /\ V[r] = ws
  BY AppendProperties
<1> HIDE DEF V
<1>3. DOMAIN V = 1 .. r /\ r \in 1 .. r
  BY <1>1, <1>2, LenProperties
<1>4. Mirrors(V, p)
  BY DEF Within, V
<1>5. \A i \in TextTo(p) : Row(i) = r => Column(i) \in 1 .. Len(ws) /\ ws[Column(i)] = src[i]
  BY <1>1, <1>2, <1>4 DEF Mirrors
<1>6. ASSUME NEW k \in 1 .. Len(ws)
      PROVE  \E i \in TextTo(p) : Row(i) = r /\ Column(i) = k /\ src[i] = ws[k]
  <2>1. k \in DOMAIN V[r] /\ r \in DOMAIN V
    BY <1>1, <1>2, <1>3
  <2>2. PICK i \in TextTo(p) : Row(i) = r /\ Column(i) = k
    BY <1>4, <2>1 DEF Mirrors
  <2> QED BY <1>5, <2>2
<1> QED BY <1>1, <1>5, <1>6 DEF Within

(* The words so far are the beginning of the line. *)
LEMMA OfLine ==
  ASSUME src \in Seq(Piece), NEW p \in 1 .. (Len(src) + 1),
         NEW ls \in Seq(Seq(Piece)), NEW ws \in Seq(Piece), ws # << >>, Within(ls, ws, p)
  PROVE  /\ Len(ls) + 1 \in DOMAIN Lines /\ Line(ls) \in Seq(Piece)
         /\ Len(ws) \in Nat /\ Len(Line(ls)) \in Nat /\ Len(ws) <= Len(Line(ls))
         /\ DOMAIN Line(ls) = 1 .. Len(Line(ls))
         /\ \A k \in 1 .. Len(ws) : ws[k] = Line(ls)[k]
<1>0. Len(src) \in Nat /\ DOMAIN src = 1 .. Len(src) /\ p \in Nat
  BY TextFacts
<1>1. TextTo(p) \subseteq Written
  BY <1>0 DEF TextTo, Written
<1>2. Lines \in Seq(Seq(Piece)) /\ Mirrors(Lines, Len(src) + 1) /\ TextTo(Len(src) + 1) = Written
  BY LinesFacts
<1>3. /\ Len(ws) \in Nat
      /\ \A k \in 1 .. Len(ws) :
           \E i \in TextTo(p) : Row(i) = Len(ls) + 1 /\ Column(i) = k /\ src[i] = ws[k]
  BY <1>0, WithinFacts
<1>4. ASSUME NEW k \in 1 .. Len(ws)
      PROVE  Len(ls) + 1 \in DOMAIN Lines /\ k \in DOMAIN Line(ls) /\ Line(ls)[k] = ws[k]
  <2>1. PICK i \in Written : Row(i) = Len(ls) + 1 /\ Column(i) = k /\ src[i] = ws[k]
    BY <1>1, <1>3
  <2> QED BY <1>2, <2>1 DEF Mirrors, Line
<1>5. Len(ws) # 0
  BY EmptySeq
<1>6. 1 \in 1 .. Len(ws) /\ Len(ws) \in 1 .. Len(ws)
  BY <1>3, <1>5
<1>7. Len(ls) + 1 \in DOMAIN Lines /\ Len(ws) \in DOMAIN Line(ls)
  BY <1>4, <1>6
<1>8. Line(ls) \in Seq(Piece)
  BY <1>2, <1>7, ElementOfSeq, LenProperties DEF Line
<1>9. DOMAIN Line(ls) = 1 .. Len(Line(ls)) /\ Len(Line(ls)) \in Nat
  BY <1>8, LenProperties
<1> QED BY <1>3, <1>4, <1>7, <1>8, <1>9

(* Text at hand is the next word of the line, or the first of a new one. *)
LEMMA NextOfLine ==
  ASSUME src \in Seq(Piece), NEW p \in DOMAIN src, IsText(p), NEW ls \in Seq(Seq(Piece))
  PROVE  /\ \A ws \in Seq(Piece) : ws # << >> /\ Within(ls, ws, p) =>
              Len(ws) + 1 <= Len(Line(ls)) /\ Line(ls)[Len(ws) + 1] = src[p]
         /\ LineOf(p) \notin LinesTo(p) /\ Between(ls, p) =>
              /\ Len(ls) + 1 \in DOMAIN Lines /\ Line(ls) \in Seq(Piece) /\ Len(Line(ls)) \in Nat
              /\ 1 <= Len(Line(ls)) /\ Line(ls)[1] = src[p]
<1>0. Len(src) \in Nat /\ DOMAIN src = 1 .. Len(src) /\ p \in Nat \ {0} /\ p \in 1 .. (Len(src) + 1)
  BY TextFacts
<1>1. p \in Written
  BY DEF Written
<1>2. /\ Lines \in Seq(Seq(Piece)) /\ Row(p) \in DOMAIN Lines
      /\ Column(p) \in DOMAIN Lines[Row(p)] /\ Lines[Row(p)][Column(p)] = src[p]
  BY <1>1, LinesFacts DEF Mirrors
<1>3. /\ Row(p) = Cardinality(LinesTo(p) \union {LineOf(p)}) /\ IsFiniteSet(LinesTo(p))
      /\ Column(p) = Cardinality(InLine(p)) + 1
  BY <1>0, PlaceFacts
<1>4. ASSUME NEW ws \in Seq(Piece), ws # << >>, Within(ls, ws, p)
      PROVE  Len(ws) + 1 <= Len(Line(ls)) /\ Line(ls)[Len(ws) + 1] = src[p]
  <2>1. /\ Len(ls) + 1 = Cardinality(LinesTo(p)) /\ Len(ws) = Cardinality(InLine(p))
        /\ LinesTo(p) \union {LineOf(p)} = LinesTo(p)
    BY <1>4 DEF Within
  <2>2. Len(ws) + 1 \in DOMAIN Line(ls) /\ Line(ls)[Len(ws) + 1] = src[p]
    BY <1>2, <1>3, <2>1 DEF Line
  <2>3. DOMAIN Line(ls) = 1 .. Len(Line(ls)) /\ Len(Line(ls)) \in Nat
    BY <1>0, <1>4, OfLine
  <2> QED BY <2>2, <2>3
<1>5. ASSUME LineOf(p) \notin LinesTo(p), Between(ls, p)
      PROVE  /\ Len(ls) + 1 \in DOMAIN Lines /\ Line(ls) \in Seq(Piece) /\ Len(Line(ls)) \in Nat
             /\ 1 <= Len(Line(ls)) /\ Line(ls)[1] = src[p]
  <2>1. Row(p) = Len(ls) + 1
    BY <1>3, <1>5, FS_AddElement DEF Between
  <2>2. InLine(p) = {}
    BY <1>5 DEF InLine, LinesTo
  <2>3. Column(p) = 1
    BY <1>3, <2>2, FS_EmptySet
  <2>4. Len(ls) + 1 \in DOMAIN Lines /\ 1 \in DOMAIN Line(ls) /\ Line(ls)[1] = src[p]
    BY <1>2, <2>1, <2>3 DEF Line
  <2>5. Line(ls) \in Seq(Piece)
    BY <1>2, <2>4, ElementOfSeq, LenProperties DEF Line
  <2>6. DOMAIN Line(ls) = 1 .. Len(Line(ls)) /\ Len(Line(ls)) \in Nat
    BY <2>5, LenProperties
  <2> QED BY <2>4, <2>5, <2>6
<1> QED BY <1>4, <1>5

(* Among the texts from j to p in one line no line begins. *)
LEMMA SameLines ==
  ASSUME NEW j \in Nat \ {0}, NEW p \in Nat \ {0}, j <= p, LineOf(j) = LineOf(p)
  PROVE  LinesTo(p) \union {LineOf(p)} = LinesTo(j) \union {LineOf(j)}
<1>1. TextTo(j) \subseteq TextTo(p)
  BY DEF TextTo
<1>2. ASSUME NEW h \in TextTo(p), h >= j PROVE LineOf(h) = LineOf(j)
  <2>1. h \in Nat \ {0} /\ h \in 1 .. p /\ j \in 1 .. h
    BY <1>2 DEF TextTo
  <2>2. LineOf(h) \in Nat /\ LineOf(j) \in Nat /\ LineOf(h) <= LineOf(p) /\ LineOf(j) <= LineOf(h)
    BY <2>1, LineOfFacts
  <2> QED BY <2>2
<1>3. \A h \in TextTo(p) : h >= j \/ h \in TextTo(j)
  BY DEF TextTo
<1> QED BY <1>1, <1>2, <1>3 DEF LinesTo

LEMMA OverEnds ==
  ASSUME src \in Seq(Piece), NEW p \in 1 .. (Len(src) + 1), Over(p),
         NEW ls \in Seq(Seq(Piece)), NEW ws \in Seq(Piece), ws # << >>, Within(ls, ws, p)
  PROVE  Len(ws) = Len(Line(ls))
<1> DEFINE r == Len(ls) + 1
           k == Len(ws) + 1
<1>0. Len(src) \in Nat /\ DOMAIN src = 1 .. Len(src) /\ p \in Nat \ {0}
  BY TextFacts
<1>1. /\ r \in DOMAIN Lines /\ Len(ws) \in Nat /\ Len(Line(ls)) \in Nat /\ Len(ws) <= Len(Line(ls))
      /\ DOMAIN Line(ls) = 1 .. Len(Line(ls))
  BY OfLine
<1> SUFFICES ASSUME Len(ws) # Len(Line(ls)) PROVE FALSE
  OBVIOUS
<1>2. k \in DOMAIN Line(ls)
  BY <1>1
<1>3. PICK i \in Written : Row(i) = r /\ Column(i) = k
  BY <1>1, <1>2, LinesFacts DEF Mirrors, Line
<1>4. i \in Nat \ {0} /\ IsText(i)
  BY <1>0 DEF Written
<1>5. CASE i < p
  <2>1. i \in TextTo(p)
    BY <1>0, <1>4, <1>5 DEF TextTo
  <2>2. Column(i) \in 1 .. Len(ws)
    BY <1>0, <1>3, <2>1, WithinFacts
  <2> QED BY <1>1, <1>3, <2>2
<1>6. CASE i >= p
  <2>1. LineOf(i) \notin LinesTo(p)
    BY <1>6 DEF Over
  <2>2. /\ Row(i) = Cardinality(LinesTo(i) \union {LineOf(i)}) /\ IsFiniteSet(LinesTo(i))
        /\ IsFiniteSet(LinesTo(p))
    BY <1>0, <1>4, PlaceFacts
  <2>3. r = Cardinality(LinesTo(p)) /\ r \in Nat
    BY <1>0, WithinFacts
  <2>4. Cardinality(LinesTo(p) \union {LineOf(i)}) = r + 1
    BY <2>1, <2>2, <2>3, FS_AddElement
  <2>5. LinesTo(p) \union {LineOf(i)} \subseteq LinesTo(i) \union {LineOf(i)}
    <3>1. TextTo(p) \subseteq TextTo(i)
      BY <1>0, <1>4, <1>6 DEF TextTo
    <3> QED BY <3>1 DEF LinesTo
  <2>6. IsFiniteSet(LinesTo(i) \union {LineOf(i)})
    BY <2>2, FS_AddElement
  <2>7. r + 1 <= r
    BY <1>3, <2>2, <2>4, <2>5, <2>6, FS_Subset
  <2> QED BY <2>3, <2>7
<1> QED BY <1>0, <1>4, <1>5, <1>6

LEMMA EndIsOver ==
  ASSUME src \in Seq(Piece), NEW p \in 1 .. (Len(src) + 1),
         NEW ls \in Seq(Seq(Piece)), NEW ws \in Seq(Piece), ws # << >>, Within(ls, ws, p),
         Len(ws) = Len(Line(ls))
  PROVE  Over(p)
<1>0. Len(src) \in Nat /\ DOMAIN src = 1 .. Len(src) /\ p \in Nat \ {0}
  BY TextFacts
<1> SUFFICES ASSUME NEW i \in Written, i >= p, LineOf(i) \in LinesTo(p) PROVE FALSE
  BY DEF Over
<1>1. i \in Nat \ {0} /\ p \in 1 .. i /\ IsText(i)
  BY <1>0 DEF Written
<1>2. LineOf(i) = LineOf(p)
  <2>1. LineOf(i) \in Nat /\ LineOf(i) <= LineOf(p)
    BY <1>0, LinesBefore
  <2>2. LineOf(p) \in Nat /\ LineOf(p) <= LineOf(i)
    BY <1>1, LineOfFacts
  <2> QED BY <2>1, <2>2
<1>3. /\ Len(ls) + 1 = Cardinality(LinesTo(p)) /\ LineOf(p) \in LinesTo(p)
      /\ Len(ws) = Cardinality(InLine(p)) /\ Len(ws) \in Nat
  BY <1>0, WithinFacts
<1>4. /\ Row(i) = Cardinality(LinesTo(i) \union {LineOf(i)}) /\ IsFiniteSet(InLine(i))
      /\ Column(i) = Cardinality(InLine(i)) + 1
  BY <1>1, PlaceFacts
<1>5. Row(i) = Len(ls) + 1
  <2>1. LinesTo(i) \union {LineOf(i)} = LinesTo(p) \union {LineOf(p)}
    BY <1>0, <1>1, <1>2, SameLines
  <2>2. LinesTo(p) \union {LineOf(p)} = LinesTo(p)
    BY <1>3
  <2> QED BY <1>3, <1>4, <2>1, <2>2
<1>6. Column(i) \in 1 .. Len(ws)
  <2>1. Column(i) \in DOMAIN Line(ls)
    BY <1>5, LinesFacts DEF Mirrors, Line
  <2> QED BY <2>1, OfLine
<1>7. Cardinality(InLine(p)) <= Cardinality(InLine(i)) /\ Cardinality(InLine(i)) \in Nat
  <2>1. InLine(p) \subseteq InLine(i)
    BY <1>0, <1>1, <1>2 DEF InLine, TextTo
  <2> QED BY <1>4, <2>1, FS_Subset, FS_CardinalityType
<1> QED BY <1>3, <1>4, <1>6, <1>7

(* What a line begins with is the first of its words. *)
LEMMA OpenedBy ==
  ASSUME src \in Seq(Piece), NEW p \in DOMAIN src, ~IsText(p), NEW keywords, Opens(p, keywords),
         NEW ls \in Seq(Seq(Piece)), NEW ws \in Seq(Piece), Within(ls, ws, p)
  PROVE  ws[1] \in keywords
<1>0. Len(src) \in Nat /\ DOMAIN src = 1 .. Len(src) /\ p \in Nat \ {0}
  BY TextFacts
<1>1. PICK j \in 1 .. p : IsText(j) /\ LineOf(j) = LineOf(p) /\ Column(j) = 1 /\ src[j] \in keywords
  BY DEF Opens
<1>2. j \in TextTo(p) /\ j \in Nat \ {0} /\ j <= p
  BY <1>0, <1>1 DEF TextTo
<1>3. Row(j) = Cardinality(LinesTo(j) \union {LineOf(j)})
  BY <1>1, <1>2, PlaceFacts
<1>4. LinesTo(p) \union {LineOf(p)} = LinesTo(j) \union {LineOf(j)}
  BY <1>0, <1>1, <1>2, SameLines
<1>5. /\ Len(ls) + 1 = Cardinality(LinesTo(p)) /\ LineOf(p) \in LinesTo(p)
      /\ \A i \in TextTo(p) : Row(i) = Len(ls) + 1 =>
              Column(i) \in 1 .. Len(ws) /\ ws[Column(i)] = src[i]
  BY <1>0, WithinFacts
<1>6. LinesTo(p) \union {LineOf(p)} = LinesTo(p)
  BY <1>5
<1>7. Row(j) = Len(ls) + 1
  BY <1>3, <1>4, <1>5, <1>6
<1> QED BY <1>1, <1>2, <1>5, <1>7

-----------------------------------------------------------------------------
(* The line is over at a comment, at a line end and at the end of the file. *)
LEMMA EndsAt ==
  ASSUME src \in Seq(Piece), NEW p \in DOMAIN src, NEW e \in p .. Len(src), EndsLine(e),
         \A i \in p .. e : ~IsText(i)
  PROVE  Over(p)
<1>0. Len(src) \in Nat /\ DOMAIN src = 1 .. Len(src) /\ p \in Nat \ {0} /\ e \in Nat \ {0} /\ p \in 1 .. e
  BY TextFacts
<1> SUFFICES ASSUME NEW i \in Written, i >= p, LineOf(i) \in LinesTo(p) PROVE FALSE
  BY DEF Over
<1>1. LineOf(i) \in Nat /\ LineOf(i) <= LineOf(p)
  BY <1>0, LinesBefore
<1>2. LineOf(p) \in Nat /\ LineOf(e) \in Nat /\ LineOf(p) <= LineOf(e) /\ LineOf(e + 1) = LineOf(e) + 1
  BY <1>0, LineOfFacts
<1>3. i \in Nat \ {0} /\ IsText(i)
  BY <1>0 DEF Written
<1>4. e + 1 \in 1 .. i
  BY <1>0, <1>3
<1>5. LineOf(e + 1) <= LineOf(i)
  BY <1>3, <1>4, LineOfFacts
<1> QED BY <1>1, <1>2, <1>5

LEMMA CommentOver ==
  ASSUME src \in Seq(Piece), NEW p \in DOMAIN src, src[p] = "#", NEW e, TokenEnds(p, e), Clean(p)
  PROVE  Over(p)
<1>0. Len(src) \in Nat /\ DOMAIN src = 1 .. Len(src) /\ p \in Nat \ {0} /\ e \in p .. Len(src)
  BY TextFacts, NextClean
<1>1. CommentEnds(p, e)
  BY DEF TokenEnds
<1>2. ASSUME NEW j \in p .. e PROVE Commented(j)
  <2>1. \A k \in p .. j : src[k] # "NL"
    <3>1. \A k \in p .. j : k \in p .. e
      BY <1>0
    <3> QED BY <1>1, <3>1 DEF CommentEnds
  <2>2. p \in 1 .. j
    BY <1>0
  <2> QED BY <2>1, <2>2 DEF Commented
<1>3. \A j \in p .. e : ~IsText(j)
  BY <1>2 DEF IsText
<1>4. CASE e = Len(src)
  <2>1. \A i \in Written : i >= p => i \in p .. e
    BY <1>0, <1>4 DEF Written
  <2> QED BY <1>3, <2>1 DEF Over, Written
<1>5. CASE e # Len(src)
  <2>1. e < Len(src) /\ src[e + 1] = "NL"
    BY <1>0, <1>1, <1>5 DEF CommentEnds, BeforeNewline
  <2>2. Commented(e) /\ (e + 1) - 1 = e
    BY <1>0, <1>2
  <2>3. EndsLine(e + 1)
    BY <2>1, <2>2 DEF EndsLine, Continues
  <2>4. ~IsText(e + 1)
    BY <2>1 DEF IsText
  <2>5. \A i \in p .. (e + 1) : ~IsText(i)
    <3>1. \A i \in p .. (e + 1) : i = e + 1 \/ i \in p .. e
      BY <1>0
    <3> QED BY <1>3, <2>4, <3>1
  <2>6. e + 1 \in p .. Len(src)
    BY <1>0, <2>1
  <2> QED BY <2>3, <2>5, <2>6, EndsAt
<1> QED BY <1>4, <1>5

(* A line end that is a token ends its line. *)
LEMMA NewlineOver ==
  ASSUME src \in Seq(Piece), NEW p \in DOMAIN src, src[p] = "NL",
         \A i \in DOMAIN src : src[i] # "wESC",
         p = 1 \/ \E o \in DOMAIN src : TokenEnds(o, p - 1) /\ Clean(o)
  PROVE  Over(p)
<1>0. Len(src) \in Nat /\ DOMAIN src = 1 .. Len(src) /\ p \in Nat \ {0}
  BY TextFacts
<1>1. EndsLine(p)
  <2> SUFFICES ASSUME p > 1, Continues(p - 1) PROVE FALSE
    BY DEF EndsLine
  <2>1. src[p - 1] = "ESC" /\ ~Commented(p - 1) /\ p - 1 \in DOMAIN src
    BY <1>0 DEF Continues
  <2>2. PICK o \in DOMAIN src : TokenEnds(o, p - 1) /\ Clean(o)
    OBVIOUS
  <2>3. p - 1 \in o .. Len(src) /\ o \in Nat \ {0}
    BY <1>0, <2>2, NextClean
  <2>4. CASE src[o] = "#"
    <3>1. \A k \in o .. (p - 1) : src[k] # "NL"
      BY <2>2, <2>4 DEF TokenEnds, CommentEnds
    <3>2. o \in 1 .. (p - 1)
      BY <1>0, <2>3
    <3> QED BY <2>1, <2>4, <3>1, <3>2 DEF Commented
  <2>5. CASE src[o] = "ESC" /\ BeforeNewline(o)
    <3>1. p - 1 = o + 1 /\ src[o + 1] = "NL"
      BY <2>2, <2>5 DEF TokenEnds, BeforeNewline
    <3> QED BY <2>1, <3>1
  <2>6. CASE src[o] # "#" /\ ~(src[o] = "ESC" /\ BeforeNewline(o))
    <3>1. p - 1 = o
      BY <2>2, <2>6 DEF TokenEnds
    <3>2. BeforeNewline(o)
      <4>1. o + 1 = p /\ o < Len(src)
        BY <1>0, <2>3, <3>1
      <4> QED BY <4>1 DEF BeforeNewline
    <3> QED BY <2>1, <2>6, <3>1, <3>2
  <2> QED BY <2>4, <2>5, <2>6
<1>2. \A i \in p .. p : ~IsText(i)
  BY <1>0 DEF IsText
<1>3. p \in p .. Len(src)
  BY <1>0
<1> QED BY <1>1, <1>2, <1>3, EndsAt

LEMMA EndOver ==
  ASSUME src \in Seq(Piece)
  PROVE  Over(Len(src) + 1)
<1>1. Len(src) \in Nat /\ DOMAIN src = 1 .. Len(src)
  BY TextFacts
<1>2. \A i \in Written : ~(i >= Len(src) + 1)
  BY <1>1 DEF Written
<1> QED BY <1>2 DEF Over

(* Where lines are continued as the loops expect, a line's first text is at *)
(* the start of a line to the lexer too.                                    *)
LEMMA StartsLine ==
  ASSUME src \in Seq(Piece), ContinuationsInLoops, NEW p \in DOMAIN src, IsText(p),
         LineOf(p) \notin LinesTo(p)
  PROVE  LineStart(p)
<1>0. Len(src) \in Nat /\ DOMAIN src = 1 .. Len(src) /\ p \in Nat \ {0}
  BY TextFacts
<1> SUFFICES ASSUME p # 1 PROVE LineStart(p)
  BY DEF LineStart
<1> DEFINE q == p - 1
<1>1. q \in Nat \ {0} /\ q \in DOMAIN src /\ q < Len(src) /\ q + 1 = p
  BY <1>0
<1>2. src[q] = "NL"
  <2> SUFFICES ASSUME src[q] # "NL" PROVE FALSE
    OBVIOUS
  <2>1. ~Commented(q)
    <3> SUFFICES ASSUME NEW h \in 1 .. q, src[h] = "#", \A k \in h .. q : src[k] # "NL"
                 PROVE  FALSE
      BY DEF Commented
    <3>1. h \in 1 .. p /\ \A k \in h .. p : k \in h .. q \/ k = p
      BY <1>0
    <3>2. Commented(p)
      BY <3>1 DEF Commented, IsText
    <3> QED BY <3>2 DEF IsText
  <2>2. ~Continues(q)
    BY <1>1 DEF Continues, BeforeNewline, IsText
  <2>3. IsText(q) /\ ~EndsLine(q)
    BY <2>1, <2>2 DEF IsText, EndsLine
  <2>4. LineOf(p) = LineOf(q)
    BY <1>1, <2>3, LineOfFacts
  <2>5. q \in TextTo(p)
    BY <1>0, <1>1, <2>3 DEF TextTo
  <2> QED BY <2>4, <2>5 DEF LinesTo
<1>3. ASSUME NEW j \in 1 .. q, \A k \in (j + 1) .. q : src[k] = "NL"
      PROVE  ~(src[j] = "wESC" \/ (src[j] = "ESC" /\ j > 1))
  <2> SUFFICES ASSUME src[j] \in {"ESC", "wESC"} PROVE FALSE
    OBVIOUS
  <2>0. j \in DOMAIN src /\ j \in Nat \ {0}
    BY <1>0, <1>1
  <2>1. /\ src[j] = "ESC" /\ Continues(j) /\ IsText(j + 2) /\ Opens(j, {"RUN", "CMD", "VOLUME"})
    BY <2>0 DEF ContinuationsInLoops
  <2>2. j + 2 \notin (j + 1) .. q
    BY <1>3, <2>1 DEF IsText
  <2>3. j # q
    BY <1>2, <2>1
  <2>4. p = j + 2 /\ j + 1 \in Nat \ {0} /\ (j + 1) + 1 = p /\ (j + 1) - 1 = j /\ j + 1 > 1
    BY <1>0, <1>1, <2>0, <2>2, <2>3
  <2>5. ~EndsLine(j) /\ ~EndsLine(j + 1)
    BY <2>1, <2>4 DEF EndsLine
  <2>6. LineOf(p) = LineOf(j)
    <3>1. LineOf(j + 1) = LineOf(j)
      BY <2>0, <2>5, LineOfFacts
    <3>2. LineOf((j + 1) + 1) = LineOf(j + 1)
      BY <2>4, <2>5, LineOfFacts
    <3> QED BY <2>4, <3>1, <3>2
  <2>7. PICK h \in 1 .. j : IsText(h) /\ LineOf(h) = LineOf(j)
    BY <2>1 DEF Opens
  <2>8. h \in TextTo(p)
    BY <2>0, <2>4, <2>7 DEF TextTo
  <2> QED BY <2>6, <2>7, <2>8 DEF LinesTo
<1> QED BY <1>0, <1>2, <1>3 DEF LineStart

(* The tokens of a text have one place each. *)
LEMMA PlacedOnce ==
  ASSUME src \in Seq(Piece), NEW at, NEW bt, NEW m \in Nat, Placed(at, m), Placed(bt, m)
  PROVE  \A k \in 1 .. (m + 1) : at[k] = bt[k]
<1>0. Len(src) \in Nat /\ DOMAIN src = 1 .. Len(src)
  BY TextFacts
<1>1. ASSUME NEW i \in DOMAIN src, NEW e, NEW f, Clean(i), TokenEnds(i, e), TokenEnds(i, f)
      PROVE  ~(e < f)
  <2>1. e \in i .. Len(src) /\ f \in i .. Len(src) /\ i \in Nat
    BY <1>0, <1>1, NextClean
  <2>2. CASE src[i] = "#"
    <3> SUFFICES ASSUME e < f PROVE FALSE
      OBVIOUS
    <3>1. CommentEnds(i, e) /\ CommentEnds(i, f)
      BY <1>1, <2>2 DEF TokenEnds
    <3>2. e \in Nat /\ f \in Nat /\ i <= e /\ f <= Len(src)
      BY <1>0, <2>1
    <3>3. e # Len(src) /\ e + 1 \in i .. f
      <4>1. e < f /\ Len(src) \in Nat /\ i \in Nat
        BY <1>0, <2>1
      <4> QED BY ONLY <3>2, <4>1
    <3> QED BY <3>1, <3>3 DEF CommentEnds, BeforeNewline
  <2>3. CASE src[i] # "#"
    BY <1>1, <2>1, <2>3 DEF TokenEnds
  <2> QED BY <2>2, <2>3
<1> DEFINE S == {k \in 1 .. (m + 1) : at[k] # bt[k]}
<1> SUFFICES ASSUME S # {} PROVE FALSE
  OBVIOUS
<1>2. S \in SUBSET Nat
  OBVIOUS
<1>3. PICK k \in S : \A j \in S : k <= j
  BY <1>2, Least
<1>4. k \in 1 .. (m + 1) /\ at[k] # bt[k] /\ k # 1
  BY DEF Placed
<1>5. k - 1 \in 1 .. m /\ k - 1 \in 1 .. (m + 1) /\ ~(k <= k - 1) /\ (k - 1) + 1 = k
  BY <1>4
<1>6. at[k - 1] = bt[k - 1]
  BY <1>3, <1>5
<1>7. /\ at[k - 1] \in DOMAIN src /\ Clean(at[k - 1])
      /\ TokenEnds(at[k - 1], at[k] - 1) /\ TokenEnds(at[k - 1], bt[k] - 1)
      /\ at[k] \in Nat /\ bt[k] \in Nat
  BY <1>4, <1>5, <1>6 DEF Placed
<1>8. ~(at[k] - 1 < bt[k] - 1) /\ ~(bt[k] - 1 < at[k] - 1)
  BY <1>1, <1>7
<1> QED BY <1>4, <1>7, <1>8

-----------------------------------------------------------------------------
(* The rest of a line, from its word k on. *)
Known(line, k, f) == \A j \in k .. (f - 1) : line[j] = "known"

LegalFrom(line, k) ==
  \E n \in k .. Len(line) : \E f \in (n + 1) .. (Len(line) + 1) :
    /\ \A j \in k .. (n - 1) : line[j] = "ONBUILD"
    /\ line[n] \in Keywords \ {"ONBUILD"}
    /\ Known(line, n + 1, f)
    /\ IF line[n] \in Flagged THEN f > Len(line) \/ line[f] # "known" ELSE f = n + 1
    /\ LegalAfter(line[n], SubSeq(line, f, Len(line)))

FlagFree(line, k) == \A j \in k .. Len(line) : ~IsFlag(line[j])

PairsFrom(line, k) ==
  \E starts \in SUBSET (k .. (Len(line) + 1)) :
    /\ k \in starts
    /\ \A j \in starts : \/ j = Len(line) + 1
                         \/ line[j] = "kv" /\ j + 1 \in starts
                         \/ line[j] # "kv" /\ j + 2 \in starts

CommandFrom(line, k) == k <= Len(line) /\ line[k] = "[]" => k = Len(line)

(* What a legal line owes the parser that is about to read its word k: at a *)
(* place of the instruction keyword, with n sources and destinations read.  *)
Owes(place, keyword, n, line, k) ==
  /\ place = "sub" => keyword = "ONBUILD" /\ LegalFrom(line, k)
  /\ place = "flags" =>
       /\ keyword \in Flagged
       /\ \E f \in k .. (Len(line) + 1) :
            /\ Known(line, k, f) /\ (f > Len(line) \/ line[f] # "known")
            /\ LegalAfter(keyword, SubSeq(line, f, Len(line)))
  /\ place \in {"image", "as", "name"} => keyword = "FROM" /\ FlagFree(line, k)
  /\ place = "image" => k = Len(line) \/ (k + 2 = Len(line) /\ line[k + 1] = "AS")
  /\ place = "as" => k = Len(line) + 1 \/ (k + 1 = Len(line) /\ line[k] = "AS")
  /\ place \in {"name", "single"} => k = Len(line)
  /\ place = "single" => keyword = "WORKDIR" /\ FlagFree(line, k)
  /\ place \in {"command", "shell"} => keyword \in {"RUN", "CMD", "HEALTHCHECK"}
  /\ place = "command" => CommandFrom(line, k)
  /\ place = "list" => keyword = "VOLUME"
  /\ place \in {"pairs", "value"} => keyword = "ENV" /\ FlagFree(line, k)
  /\ place = "pairs" => PairsFrom(line, k)
  /\ place = "value" => k <= Len(line) /\ PairsFrom(line, k + 1)
  /\ place = "files" =>
       keyword = "COPY" /\ FlagFree(line, k) /\ n + (Len(line) + 1) >= 2 + k
  /\ place = "type" =>
       /\ keyword = "HEALTHCHECK" /\ k <= Len(line) /\ ~IsFlag(line[k]) /\ line[k] # "str"
       /\ IF line[k] = "CMD" THEN CommandFrom(line, k + 1) ELSE k = Len(line)

LEMMA RestFacts ==
  ASSUME NEW line \in Seq(Piece), NEW k \in 1 .. (Len(line) + 1), NEW ws,
         ws = SubSeq(line, k, Len(line))
  PROVE  /\ Len(line) \in Nat /\ k \in Nat \ {0} /\ k <= Len(line) + 1
         /\ ws \in Seq(Piece) /\ Len(ws) = (Len(line) + 1) - k /\ DOMAIN ws = 1 .. Len(ws)
         /\ \A j \in k .. Len(line) : (j - k) + 1 \in DOMAIN ws /\ line[j] = ws[(j - k) + 1]
         /\ ws # << >> => /\ k <= Len(line) /\ ws[1] = line[k] /\ Tail(ws) \in Seq(Piece)
                          /\ Len(Tail(ws)) = Len(ws) - 1
                          /\ \A j \in 1 .. Len(Tail(ws)) : Tail(ws)[j] = ws[j + 1]
<1> DEFINE m == Len(line)
<1>1. m \in Nat /\ DOMAIN line = 1 .. m /\ \A j \in 1 .. m : line[j] \in Piece
  BY LenProperties, ElementOfSeq
<1>2. k \in Nat \ {0} /\ k <= m + 1
  BY <1>1
<1> HIDE DEF m
<1>3. k \in Int /\ m \in Int /\ \A j \in k .. m : line[j] \in Piece
  BY <1>1, <1>2
<1>4. /\ ws \in Seq(Piece) /\ Len(ws) = (IF k <= m THEN m - k + 1 ELSE 0)
      /\ \A i \in 1 .. m - k + 1 : ws[i] = line[k + i - 1]
  BY <1>3, SubSeqProperties DEF m
<1>5. Len(ws) = (m + 1) - k
  BY <1>1, <1>2, <1>4
<1>6. DOMAIN ws = 1 .. Len(ws)
  BY <1>4, LenProperties
<1>7. ASSUME NEW j \in k .. m PROVE (j - k) + 1 \in DOMAIN ws /\ line[j] = ws[(j - k) + 1]
  <2>1. (j - k) + 1 \in 1 .. m - k + 1 /\ k + ((j - k) + 1) - 1 = j /\ (m + 1) - k = m - k + 1
    BY <1>1, <1>2
  <2> QED BY <1>4, <1>5, <1>6, <2>1
<1>8. ASSUME ws # << >>
      PROVE  /\ k <= m /\ ws[1] = line[k] /\ Tail(ws) \in Seq(Piece)
             /\ Len(Tail(ws)) = Len(ws) - 1
             /\ \A j \in 1 .. Len(Tail(ws)) : Tail(ws)[j] = ws[j + 1]
  <2>1. Len(ws) # 0
    BY <1>4, <1>8, EmptySeq
  <2>2. k <= m
    BY <1>1, <1>2, <1>4, <2>1
  <2>3. k \in k .. m /\ (k - k) + 1 = 1
    BY <1>1, <1>2, <2>2
  <2>4. ws[1] = line[k]
    BY <1>7, <2>3
  <2> QED BY <1>4, <1>8, <2>2, <2>4, HeadTailProperties
<1> QED BY <1>1, <1>2, <1>4, <1>5, <1>6, <1>7, <1>8 DEF m

LEMMA FreeRest ==
  ASSUME NEW line \in Seq(Piece), NEW k \in 1 .. (Len(line) + 1),
         \A j \in DOMAIN SubSeq(line, k, Len(line)) : ~IsFlag(SubSeq(line, k, Len(line))[j])
  PROVE  FlagFree(line, k)
<1> DEFINE ws == SubSeq(line, k, Len(line))
<1>1. \A j \in DOMAIN ws : ~IsFlag(ws[j])
  OBVIOUS
<1> HIDE DEF ws
<1>2. \A j \in k .. Len(line) : (j - k) + 1 \in DOMAIN ws /\ line[j] = ws[(j - k) + 1]
  BY RestFacts DEF ws
<1>3. ASSUME NEW j \in k .. Len(line) PROVE ~IsFlag(line[j])
  BY ONLY <1>1, <1>2, j \in k .. Len(line)
<1> QED BY <1>3 DEF FlagFree

LEMMA CommandRest ==
  ASSUME NEW line \in Seq(Piece), NEW k \in 1 .. (Len(line) + 1),
         LegalCommand(SubSeq(line, k, Len(line)))
  PROVE  CommandFrom(line, k)
<1> DEFINE ws == SubSeq(line, k, Len(line))
<1> HIDE DEF ws
<1>1. /\ Len(line) \in Nat /\ k \in Nat \ {0} /\ ws \in Seq(Piece) /\ Len(ws) = (Len(line) + 1) - k
      /\ ws # << >> => ws[1] = line[k]
  BY RestFacts DEF ws
<1> SUFFICES ASSUME k <= Len(line), line[k] = "[]" PROVE k = Len(line)
  BY DEF CommandFrom
<1>2. Len(ws) # 0
  BY <1>1
<1>3. Len(<< >>) = 0
  OBVIOUS
<1>4. ws # << >>
  BY ONLY <1>2, <1>3
<1>5. Len(ws) = 1
  BY <1>1, <1>4 DEF LegalCommand, ws
<1>6. Len(line) \in Nat /\ k \in Nat /\ 1 = (Len(line) + 1) - k
  BY <1>1, <1>5
<1> QED BY ONLY <1>6

LEMMA PairsRest ==
  ASSUME NEW line \in Seq(Piece), NEW k \in 1 .. (Len(line) + 1),
         LegalPairs(SubSeq(line, k, Len(line)))
  PROVE  PairsFrom(line, k)
<1> DEFINE ws == SubSeq(line, k, Len(line))
           m  == Len(line)
<1> HIDE DEF ws
<1>1. /\ m \in Nat /\ k \in Nat \ {0} /\ k <= m + 1 /\ Len(ws) = (m + 1) - k
      /\ \A j \in k .. m : (j - k) + 1 \in DOMAIN ws /\ line[j] = ws[(j - k) + 1]
  BY RestFacts DEF ws
<1>2. PICK S \in SUBSET (1 .. (Len(ws) + 1)) :
        /\ 1 \in S
        /\ \A j \in S : \/ j = Len(ws) + 1
                        \/ ws[j] = "kv" /\ j + 1 \in S
                        \/ ws[j] # "kv" /\ j + 2 \in S
  BY DEF LegalPairs, ws
<1> HIDE DEF m
<1> DEFINE T == {j \in k .. (m + 1) : (j - k) + 1 \in S}
<1>3. k \in T
  BY <1>1, <1>2
<1>4. ASSUME NEW j \in T
      PROVE  \/ j = m + 1
             \/ line[j] = "kv" /\ j + 1 \in T
             \/ line[j] # "kv" /\ j + 2 \in T
  <2> SUFFICES ASSUME j # m + 1
               PROVE  (line[j] = "kv" /\ j + 1 \in T) \/ (line[j] # "kv" /\ j + 2 \in T)
    OBVIOUS
  <2>1. /\ j \in k .. m /\ j \in Nat /\ (j - k) + 1 \in S /\ (j - k) + 1 # Len(ws) + 1
        /\ ((j - k) + 1) + 1 = ((j + 1) - k) + 1 /\ ((j - k) + 1) + 2 = ((j + 2) - k) + 1
    BY <1>1
  <2>2. line[j] = ws[(j - k) + 1]
    BY <1>1, <2>1
  <2>3. CASE line[j] = "kv" /\ ((j - k) + 1) + 1 \in S
    <3>1. j + 1 \in k .. (m + 1)
      BY <1>1, <2>1
    <3> QED BY <2>1, <2>3, <3>1
  <2>4. CASE line[j] # "kv" /\ ((j - k) + 1) + 2 \in S
    <3>1. ((j - k) + 1) + 2 <= Len(ws) + 1
      BY <1>1, <2>1, <2>4
    <3>2. j + 2 \in k .. (m + 1)
      BY <1>1, <2>1, <3>1
    <3> QED BY <2>1, <2>4, <3>2
  <2> QED BY <1>2, <2>1, <2>2, <2>3, <2>4
<1>5. T \in SUBSET (k .. (m + 1))
  OBVIOUS
<1> HIDE DEF T
<1> QED BY <1>3, <1>4, <1>5 DEF PairsFrom, m

-----------------------------------------------------------------------------
(* After its keyword and its flags an instruction is owed what its grammar *)
(* says.                                                                   *)
LEMMA BodyOwed ==
  ASSUME NEW line \in Seq(Piece), NEW k \in 1 .. (Len(line) + 1), NEW keyword \in Keywords,
         LegalAfter(keyword, SubSeq(line, k, Len(line)))
  PROVE  Owes(Body(keyword), keyword, 0, line, k)
<1> DEFINE ws == SubSeq(line, k, Len(line))
           m  == Len(line)
<1>1. LegalAfter(keyword, ws)
  OBVIOUS
<1>2. ASSUME LegalCommand(ws) PROVE CommandFrom(line, k)
  BY <1>2, CommandRest
<1>3. ASSUME LegalPairs(ws) PROVE PairsFrom(line, k)
  BY <1>3, PairsRest
<1>4. ASSUME keyword \notin {"RUN", "CMD", "HEALTHCHECK"} PROVE FlagFree(line, k)
  <2>1. \A j \in DOMAIN ws : ~IsFlag(ws[j])
    BY <1>1, <1>4 DEF LegalAfter
  <2> QED BY <2>1, FreeRest
<1> HIDE DEF ws
<1>5. /\ m \in Nat /\ k \in Nat \ {0} /\ k <= m + 1
      /\ ws \in Seq(Piece) /\ Len(ws) = (m + 1) - k
      /\ \A j \in k .. m : (j - k) + 1 \in DOMAIN ws /\ line[j] = ws[(j - k) + 1]
      /\ ws # << >> => /\ k <= m /\ ws[1] = line[k] /\ Tail(ws) \in Seq(Piece)
                       /\ Len(Tail(ws)) = Len(ws) - 1
                       /\ \A j \in 1 .. Len(Tail(ws)) : Tail(ws)[j] = ws[j + 1]
  BY RestFacts DEF ws
<1> HIDE DEF m
<1>50. m \in Nat /\ k \in Nat \ {0} /\ k <= m + 1 /\ Len(ws) = (m + 1) - k
  BY <1>5
<1>6. CASE keyword = "FROM"
  <2>1. Len(ws) = 1 \/ (Len(ws) = 3 /\ ws[2] = "AS")
    BY <1>1, <1>6 DEF LegalAfter
  <2>2. CASE Len(ws) = 1
    <3>1. (m + 1) - k = 1
      BY <1>50, <2>2
    <3>2. k = m
      BY ONLY <1>50, <3>1
    <3> QED BY <1>4, <1>6, <3>2 DEF Owes, Body, m
  <2>3. CASE Len(ws) = 3 /\ ws[2] = "AS"
    <3>1. (m + 1) - k = 3
      BY <1>50, <2>3
    <3>2. k + 2 = m /\ k + 1 \in k .. m /\ ((k + 1) - k) + 1 = 2
      BY ONLY <1>50, <3>1
    <3>3. line[k + 1] = "AS"
      BY <1>5, <2>3, <3>2
    <3> QED BY <1>4, <1>6, <3>2, <3>3 DEF Owes, Body, m
  <2> QED BY <2>1, <2>2, <2>3
<1>7. CASE keyword \in {"RUN", "CMD"}
  <2>1. LegalCommand(ws)
    BY <1>1, <1>7 DEF LegalAfter
  <2> QED BY <1>2, <1>7, <2>1 DEF Owes, Body
<1>8. CASE keyword = "ENV"
  <2>1. LegalPairs(ws)
    BY <1>1, <1>8 DEF LegalAfter
  <2> QED BY <1>3, <1>4, <1>8, <2>1 DEF Owes, Body
<1>9. CASE keyword = "VOLUME"
  BY <1>9 DEF Owes, Body
<1>10. CASE keyword = "COPY"
  <2>1. Len(ws) >= 2
    BY <1>1, <1>10 DEF LegalAfter
  <2>2. 0 + (m + 1) >= 2 + k
    BY <1>5, <2>1
  <2> QED BY <1>4, <1>10, <2>2 DEF Owes, Body, m
<1>11. CASE keyword = "WORKDIR"
  <2>1. Len(ws) = 1
    BY <1>1, <1>11 DEF LegalAfter
  <2>2. (m + 1) - k = 1
    BY <1>50, <2>1
  <2>3. k = m
    BY ONLY <1>50, <2>2
  <2> QED BY <1>4, <1>11, <2>3 DEF Owes, Body, m
<1>12. CASE keyword = "HEALTHCHECK"
  <2>1. /\ ws # << >> /\ ~IsFlag(ws[1]) /\ ws[1] # "str"
        /\ IF ws[1] = "CMD" THEN LegalCommand(Tail(ws)) ELSE Len(ws) = 1
    BY <1>1, <1>12 DEF LegalAfter
  <2>2. k <= m /\ ws[1] = line[k]
    BY <1>5, <2>1
  <2>3. ASSUME line[k] = "CMD", k + 1 <= m, line[k + 1] = "[]" PROVE k + 1 = m
    <3>1. Len(Tail(ws)) = m - k /\ Len(Tail(ws)) # 0 /\ 1 \in 1 .. Len(Tail(ws))
      BY <1>5, <2>1, <2>3
    <3>2. k + 1 \in k .. m /\ ((k + 1) - k) + 1 = 1 + 1
      BY <1>5, <2>3
    <3>3. Tail(ws)[1] = "[]"
      BY <1>5, <2>1, <2>3, <3>1, <3>2
    <3>4. Len(<< >>) = 0
      OBVIOUS
    <3>5. Tail(ws) # << >>
      BY ONLY <3>1, <3>4
    <3>6. Len(Tail(ws)) = 1
      BY <2>1, <2>2, <2>3, <3>3, <3>5 DEF LegalCommand
    <3>7. m - k = 1
      BY <3>1, <3>6
    <3> QED BY ONLY <1>50, <3>7
  <2>4. ASSUME line[k] # "CMD" PROVE k = m
    <3>1. Len(ws) = 1
      BY <2>1, <2>2, <2>4
    <3>2. (m + 1) - k = 1
      BY <1>50, <3>1
    <3> QED BY ONLY <1>50, <3>2
  <2>5. line[k] = "CMD" => CommandFrom(line, k + 1)
    BY <2>3 DEF CommandFrom, m
  <2> QED BY <1>12, <2>1, <2>2, <2>4, <2>5 DEF Owes, Body, m
<1>13. CASE keyword = "ONBUILD"
  BY <1>1, <1>13 DEF LegalAfter
<1> QED
  BY <1>6, <1>7, <1>8, <1>9, <1>10, <1>11, <1>12, <1>13 DEF Keywords

(* A keyword that is opened. *)
LEMMA OpenOwed ==
  ASSUME NEW line \in Seq(Piece), NEW k \in 1 .. Len(line), LegalFrom(line, k),
         NEW place,
         place = IF line[k] \in Flagged THEN "flags" ELSE Body(line[k])
  PROVE  line[k] \in Keywords /\ Owes(place, line[k], 0, line, k + 1)
<1> DEFINE m == Len(line)
<1>0. m \in Nat /\ k \in Nat \ {0} /\ k <= m
  BY LenProperties
<1>1. PICK n \in k .. m : \E f \in (n + 1) .. (m + 1) :
        /\ \A j \in k .. (n - 1) : line[j] = "ONBUILD"
        /\ line[n] \in Keywords \ {"ONBUILD"}
        /\ Known(line, n + 1, f)
        /\ IF line[n] \in Flagged THEN f > m \/ line[f] # "known" ELSE f = n + 1
        /\ LegalAfter(line[n], SubSeq(line, f, m))
  BY DEF LegalFrom
<1>2. PICK f \in (n + 1) .. (m + 1) :
        /\ \A j \in k .. (n - 1) : line[j] = "ONBUILD"
        /\ line[n] \in Keywords \ {"ONBUILD"}
        /\ Known(line, n + 1, f)
        /\ IF line[n] \in Flagged THEN f > m \/ line[f] # "known" ELSE f = n + 1
        /\ LegalAfter(line[n], SubSeq(line, f, m))
  BY <1>1
<1> HIDE DEF m
<1>3. CASE n = k
  <2>1. f \in (k + 1) .. (m + 1) /\ k + 1 \in 1 .. (m + 1)
    BY <1>0, <1>3
  <2>2. CASE line[k] \in Flagged
    <3>1. \E g \in (k + 1) .. (m + 1) :
            /\ Known(line, k + 1, g) /\ (g > m \/ line[g] # "known")
            /\ LegalAfter(line[k], SubSeq(line, g, m))
      BY <1>2, <1>3, <2>1, <2>2
    <3> QED BY <1>2, <1>3, <2>2, <3>1 DEF Owes, m
  <2>3. CASE line[k] \notin Flagged
    <3>1. f = k + 1
      BY <1>2, <1>3, <2>3
    <3>2. LegalAfter(line[k], SubSeq(line, k + 1, m))
      BY <1>2, <1>3, <3>1
    <3>3. Owes(Body(line[k]), line[k], 0, line, k + 1)
      BY <1>2, <1>3, <2>1, <3>2, BodyOwed DEF m
    <3> QED BY <1>2, <1>3, <2>3, <3>3
  <2> QED BY <2>2, <2>3
<1>4. CASE n # k
  <2>1. n \in (k + 1) .. m /\ k \in k .. (n - 1) /\ (k + 1) .. (n - 1) \subseteq k .. (n - 1)
    BY <1>0, <1>4
  <2>2. line[k] = "ONBUILD"
    BY <1>2, <2>1
  <2>3. LegalFrom(line, k + 1)
    BY <1>2, <2>1 DEF LegalFrom, m
  <2>4. place = "sub" /\ line[k] \in Keywords
    BY <2>2 DEF Flagged, Body, Keywords
  <2> QED BY <2>2, <2>3, <2>4 DEF Owes
<1> QED BY <1>3, <1>4

LEMMA LegalAtFirst ==
  ASSUME NEW line \in Seq(Piece), Legal(line)
  PROVE  LegalFrom(line, 1) /\ line # << >>
<1>1. DOMAIN line = 1 .. Len(line)
  BY LenProperties
<1>2. line # << >>
  <2>1. DOMAIN line # {}
    BY DEF Legal
  <2> QED BY <2>1
<1> QED BY <1>1, <1>2 DEF Legal, LegalFrom, Known

-----------------------------------------------------------------------------
(* What the parser reads next within a line: its word k, its end, or that  *)
(* it goes on.                                                             *)
WordType(word) ==
  IF word = "str" THEN "String" ELSE IF IsFlag(word) THEN "Flag" ELSE "Argument"

ReadsWord(line, k) ==
  k \in 1 .. Len(line) /\ Peek.value = line[k] /\ Peek.type = WordType(line[k])
ReadsEnd(line, k) ==
  /\ k = Len(line) + 1 /\ Peek.type \in {"EOF", "Newline", "Comment"}
  /\ Peek.value \notin Keywords
ReadsOn ==
  /\ Peek.type = "LineContinuation" /\ Peek.value \notin Keywords
  /\ words[1] \in {"RUN", "CMD", "VOLUME"}

LEMMA EndAtHand ==
  ASSUME Types, Parsing, pc # "lex", ContinuationsInLoops, NEW at, Parses(at),
         Peek.type \in {"EOF", "Newline", "Comment"}
  PROVE  /\ at[current] \in 1 .. (Len(src) + 1) /\ Over(at[current])
         /\ Peek.value \notin Keywords
<1>0. /\ src \in Seq(Piece) /\ Len(src) \in Nat /\ DOMAIN src = 1 .. Len(src)
      /\ current \in Nat \ {0} /\ current <= Len(tokens) /\ Placed(at, Len(tokens) - 1)
  BY TextFacts DEF Types, Parsing, Parses
<1>1. /\ Len(tokens) \in Nat /\ (Peek.type = "EOF" <=> current = Len(tokens))
      /\ Peek.type # "EOF" =>
           \E p \in DOMAIN src, q \in Nat \ {0} :
             /\ p = at[current] /\ q = at[current + 1] /\ p <= q /\ current < Len(tokens)
             /\ Clean(p) /\ TokenEnds(p, q - 1) /\ Peek = Token(TypeAt(p), p)
  BY <1>0, AtHand DEF Parsing, Parses
<1>2. CASE Peek.type = "EOF"
  <2>1. current = (Len(tokens) - 1) + 1
    BY <1>1, <1>2
  <2>2. at[current] = Len(src) + 1
    BY <1>0, <2>1 DEF Placed, Parsing
  <2>3. Peek = EOF
    BY <1>1, <1>2 DEF Parsing, Peek
  <2>4. Peek.value = ""
    BY <2>3 DEF EOF
  <2>5. at[current] \in 1 .. (Len(src) + 1)
    BY <1>0, <2>2
  <2> QED BY <1>0, <2>2, <2>4, <2>5, EndOver DEF Keywords
<1>3. CASE Peek.type # "EOF"
  <2>1. PICK p \in DOMAIN src, q \in Nat \ {0} :
             /\ p = at[current] /\ q = at[current + 1] /\ p <= q /\ current < Len(tokens)
             /\ Clean(p) /\ TokenEnds(p, q - 1) /\ Peek = Token(TypeAt(p), p)
    BY <1>1, <1>3
  <2>2. Peek.type = TypeAt(p) /\ Peek.value = src[p] /\ src[p] \in Piece /\ p \in 1 .. (Len(src) + 1)
    BY <1>0, <2>1, TextFacts DEF Token
  <2>3. src[p] \in {"NL", "#"}
    BY <1>3, <2>2, TypeFacts
  <2>4. Peek.value \notin Keywords
    BY <2>2, <2>3 DEF Keywords
  <2>5. CASE src[p] = "#"
    BY <1>0, <2>1, <2>2, <2>4, <2>5, CommentOver
  <2>6. CASE src[p] = "NL"
    <3>1. p = 1 \/ \E o \in DOMAIN src : TokenEnds(o, p - 1) /\ Clean(o)
      <4>1. CASE current = 1
        BY <1>0, <2>1, <4>1 DEF Placed
      <4>2. CASE current # 1
        <5>1. /\ current - 1 \in 1 .. (Len(tokens) - 1) /\ (current - 1) + 1 = current
              /\ current - 1 \in 1 .. ((Len(tokens) - 1) + 1)
          BY <1>0, <1>1, <4>2
        <5>2. /\ at[current - 1] \in DOMAIN src /\ Clean(at[current - 1])
              /\ TokenEnds(at[current - 1], at[current] - 1)
          BY <1>0, <5>1 DEF Placed
        <5> QED BY <2>1, <5>2
      <4> QED BY <4>1, <4>2
    <3>2. \A i \in DOMAIN src : src[i] # "wESC"
      BY DEF ContinuationsInLoops
    <3> QED BY <1>0, <2>1, <2>2, <2>4, <2>6, <3>1, <3>2, NewlineOver
  <2> QED BY <2>3, <2>5, <2>6
<1> QED BY <1>2, <1>3

LEMMA ContinuationAtHand ==
  ASSUME Types, Parsing, pc # "lex", ContinuationsInLoops, NEW at, Parses(at),
         Peek.type = "LineContinuation"
  PROVE  /\ ~Over(at[current]) /\ Peek.value \notin Keywords
         /\ \A ls \in Seq(Seq(Piece)), ws \in Seq(Piece) :
              Within(ls, ws, at[current]) => ws[1] \in {"RUN", "CMD", "VOLUME"}
<1>0. src \in Seq(Piece) /\ Len(src) \in Nat /\ DOMAIN src = 1 .. Len(src)
  BY TextFacts DEF Types
<1>1. PICK p \in DOMAIN src, q \in Nat \ {0} :
             /\ p = at[current] /\ q = at[current + 1]
             /\ Clean(p) /\ TokenEnds(p, q - 1) /\ Peek = Token(TypeAt(p), p)
  <2>1. Peek.type # "EOF"
    OBVIOUS
  <2> QED BY <2>1, AtHand DEF Parsing, Parses
<1>2. Peek.type = TypeAt(p) /\ Peek.value = src[p] /\ src[p] \in Piece /\ p \in Nat \ {0}
  BY <1>0, <1>1, TextFacts DEF Token
<1>3. src[p] = "ESC"
  BY <1>2, TypeFacts
<1>4. TypeAt(p) \notin Wordy
  BY <1>2 DEF Wordy
<1>5. ~IsText(p)
  BY <1>0, <1>1, <1>4, TokenText
<1>6. /\ Continues(p) /\ p + 2 <= Len(src) /\ IsText(p + 2)
      /\ Opens(p, {"RUN", "CMD", "VOLUME"})
  BY <1>1, <1>3 DEF ContinuationsInLoops
<1>7. ~Over(p)
  <2>1. PICK j \in 1 .. p : IsText(j) /\ LineOf(j) = LineOf(p)
    BY <1>6 DEF Opens
  <2>2. j \in TextTo(p)
    BY <1>2, <1>5, <2>1 DEF TextTo
  <2>3. LineOf(p) \in LinesTo(p)
    BY <2>1, <2>2 DEF LinesTo
  <2>4. ~EndsLine(p) /\ ~EndsLine(p + 1) /\ p + 1 \in Nat \ {0} /\ (p + 1) + 1 = p + 2
    <3>1. (p + 1) - 1 = p /\ p + 1 > 1 /\ p + 1 \in Nat \ {0} /\ (p + 1) + 1 = p + 2
      BY <1>2
    <3> QED BY <1>3, <1>6, <3>1 DEF EndsLine
  <2>5. LineOf(p + 1) = LineOf(p)
    BY <1>2, <2>4, LineOfFacts
  <2>6. LineOf((p + 1) + 1) = LineOf(p + 1)
    BY <2>4, LineOfFacts
  <2>7. p + 2 \in Written /\ p + 2 >= p /\ LineOf(p + 2) \in LinesTo(p)
    BY <1>0, <1>2, <1>6, <2>3, <2>4, <2>5, <2>6 DEF Written
  <2> QED BY <2>7 DEF Over
<1>8. ASSUME NEW ls \in Seq(Seq(Piece)), NEW ws \in Seq(Piece), Within(ls, ws, p)
      PROVE  ws[1] \in {"RUN", "CMD", "VOLUME"}
  BY <1>0, <1>5, <1>6, <1>8, OpenedBy
<1> QED BY <1>1, <1>2, <1>3, <1>7, <1>8 DEF Keywords

(* Within a line. *)
LEMMA Reading ==
  ASSUME Types, Parsing, pc \in Inside, ContinuationsInLoops, NEW at, Parses(at)
  PROVE  /\ Line(ast) \in Seq(Piece) /\ Len(ast) + 1 \in DOMAIN Lines
         /\ \/ ReadsWord(Line(ast), Len(words) + 1)
            \/ ReadsEnd(Line(ast), Len(words) + 1) /\ Over(at[current])
            \/ ReadsOn
<1> DEFINE line == Line(ast)
           k    == Len(words) + 1
<1>0. /\ src \in Seq(Piece) /\ words \in Seq(Piece) /\ ast \in Seq(Seq(Piece)) /\ words # << >>
      /\ Within(ast, words, at[current]) /\ pc # "lex" /\ Placed(at, Len(tokens) - 1)
      /\ current \in Nat \ {0} /\ Len(words) < current /\ current <= Len(tokens)
      /\ pc \notin {"failed", "top", "done"}
  BY DEF Types, Parsing, Parses, Inside, Loops
<1>1. at[current] \in 1 .. (Len(src) + 1)
  <2>1. Len(tokens) \in Nat /\ Len(src) \in Nat
    BY <1>0, LenProperties DEF Types
  <2>2. current \in 1 .. ((Len(tokens) - 1) + 1)
    BY <1>0, <2>1
  <2>3. current = (Len(tokens) - 1) + 1 \/ current \in 1 .. (Len(tokens) - 1)
    BY <1>0, <2>1
  <2>4. CASE current = (Len(tokens) - 1) + 1
    BY <1>0, <2>1, <2>4 DEF Placed, Parsing
  <2>5. CASE current \in 1 .. (Len(tokens) - 1)
    <3>1. at[current] \in DOMAIN src
      BY <1>0, <2>5 DEF Placed
    <3> QED BY <1>0, <2>1, <3>1, TextFacts
  <2> QED BY <2>3, <2>4, <2>5
<1>2. line \in Seq(Piece) /\ Len(ast) + 1 \in DOMAIN Lines /\ Len(words) \in Nat
  BY <1>0, <1>1, OfLine
<1>3. Peek.type \in TokenTypes
  <2>1. Peek \in TokenSet
    BY <1>0, AtHand DEF Parsing, Parses
  <2> QED BY <2>1 DEF TokenSet
<1>4. CASE Peek.type \in {"EOF", "Newline", "Comment"}
  <2>1. Over(at[current]) /\ Peek.value \notin Keywords
    BY <1>0, <1>4, EndAtHand
  <2>2. Len(words) = Len(line)
    BY <1>0, <1>1, <2>1, OverEnds
  <2>3. ReadsEnd(line, k)
    BY <1>4, <2>1, <2>2 DEF ReadsEnd
  <2> QED BY <1>2, <2>1, <2>3
<1>5. CASE Peek.type = "LineContinuation"
  <2>1. ReadsOn
    BY <1>0, <1>5, ContinuationAtHand DEF ReadsOn
  <2> QED BY <1>2, <2>1
<1>6. CASE Peek.type \in Wordy
  <2>1. PICK p \in DOMAIN src : /\ p = at[current] /\ IsText(p) /\ Peek.value = src[p]
                                /\ Peek.type = TypeAt(p) /\ src[p] \in Piece
    BY <1>0, <1>6, WordAtHand
  <2>2. k <= Len(line) /\ line[k] = src[p] /\ k \in 1 .. Len(line)
    <3>1. k <= Len(line) /\ line[k] = src[p]
      BY <1>0, <2>1, NextOfLine
    <3>2. Len(line) \in Nat
      BY <1>2, LenProperties
    <3> QED BY <1>2, <3>1, <3>2
  <2>3. TypeAt(p) # "Instruction"
    <3> SUFFICES ASSUME LineStart(p) PROVE FALSE
      BY <2>1, TypeFacts
    <3>1. Len(words) # 0
      BY <1>0, EmptySeq
    <3>2. current > 1
      BY <1>0, <1>2, <3>1
    <3>3. Plain
      BY <1>0, <3>2 DEF Parsing
    <3>4. LineOf(p) \notin LinesTo(p)
      BY <1>0, <2>1, <3>3, NewLine DEF Plain
    <3> QED BY <1>0, <2>1, <3>4 DEF Within
  <2>4. Peek.type = WordType(src[p])
    BY <1>6, <2>1, <2>3, TypeFacts DEF WordType, IsFlag, Wordy
  <2>5. ReadsWord(line, k)
    BY <2>1, <2>2, <2>4 DEF ReadsWord
  <2> QED BY <1>2, <2>5
<1> QED BY <1>3, <1>4, <1>5, <1>6 DEF TokenTypes, Wordy

-----------------------------------------------------------------------------
(* The step leaves the parser within the line, which owes it the rest.     *)
Keeps(line) ==
  /\ pc' \in Inside /\ ast' = ast /\ words' \in Seq(Piece)
  /\ words'[1] \in {op', "ONBUILD"} /\ Owes(pc', op', args', line, Len(words') + 1)

LEMMA PairsStep ==
  ASSUME NEW line \in Seq(Piece), NEW k \in 1 .. Len(line), PairsFrom(line, k)
  PROVE  /\ line[k] = "kv" => PairsFrom(line, k + 1)
         /\ line[k] # "kv" => k + 1 <= Len(line) /\ PairsFrom(line, k + 2)
<1> DEFINE m == Len(line)
<1>0. m \in Nat /\ k \in Nat /\ k <= m
  BY LenProperties
<1>1. PICK S \in SUBSET (k .. (m + 1)) :
        /\ k \in S
        /\ \A j \in S : \/ j = m + 1
                        \/ line[j] = "kv" /\ j + 1 \in S
                        \/ line[j] # "kv" /\ j + 2 \in S
  BY DEF PairsFrom
<1> HIDE DEF m
<1>2. ASSUME NEW n \in S PROVE PairsFrom(line, n)
  <2> DEFINE T == {j \in S : n <= j}
  <2>1. n \in Nat /\ n \in T /\ T \subseteq n .. (m + 1)
    <3>1. \A j \in S : j \in Nat /\ j <= m + 1
      BY <1>0
    <3>2. n \in Nat /\ n <= n
      BY <3>1
    <3>3. \A j \in T : j \in n .. (m + 1)
      BY <1>0, <3>1, <3>2
    <3>4. n \in T
      BY <3>2
    <3> QED BY <3>2, <3>3, <3>4, Zenon
  <2>2. ASSUME NEW j \in T
        PROVE  j = m + 1 \/ (line[j] = "kv" /\ j + 1 \in T) \/ (line[j] # "kv" /\ j + 2 \in T)
    <3>1. n <= j + 1 /\ n <= j + 2 /\ j \in S
      BY <1>0, <2>1
    <3> QED BY <1>1, <3>1
  <2> QED BY <2>1, <2>2 DEF PairsFrom, m
<1>3. k # m + 1
  BY <1>0
<1>4. CASE line[k] = "kv"
  BY <1>1, <1>2, <1>3, <1>4
<1>5. CASE line[k] # "kv"
  <2>1. k + 2 \in S
    BY <1>1, <1>3, <1>5
  <2>2. k + 2 \in k .. (m + 1)
    BY <1>1, <2>1
  <2>3. k + 1 <= m
    BY <1>0, <2>2
  <2> QED BY <1>2, <1>5, <2>1, <2>3 DEF m
<1> QED BY <1>4, <1>5

(* A legal line is read to its end. *)
LEMMA LegalStep ==
  ASSUME Next, pc \in Inside, NEW line \in Seq(Piece), NEW k, k = Len(words) + 1,
         words \in Seq(Piece), words # << >>, words[1] \in {op, "ONBUILD"}, args \in Nat,
         pc = "flags" => args = 0,
         Owes(pc, op, args, line, k),
         ReadsWord(line, k) \/ ReadsEnd(line, k) \/ ReadsOn
  PROVE  \/ UNCHANGED vars
         \/ Keeps(line)
         \/ CompleteHere /\ ReadsEnd(line, k)
         \/ CompleteWith /\ k = Len(line) /\ ReadsWord(line, k)
<1> DEFINE m == Len(line)
<1>0. /\ m \in Nat /\ k \in Nat \ {0} /\ \A j \in 1 .. m : line[j] \in Piece
      /\ Len(words) \in Nat
  BY LenProperties, ElementOfSeq
<1>1. ASSUME ReadsWord(line, k)
      PROVE  /\ k \in 1 .. m /\ Peek.value = line[k] /\ line[k] \in Piece
             /\ Peek.type \in {"String", "Flag", "Argument"}
             /\ Peek.type = "String" <=> line[k] = "str"
             /\ Peek.type = "Flag" <=> IsFlag(line[k])
             /\ IsWord <=> ~IsFlag(line[k])
             /\ ~EndsInstruction
             /\ FlagFree(line, k) => ~IsFlag(line[k])
             /\ FlagFree(line, k) => FlagFree(line, k + 1)
  <2>1. k \in 1 .. m /\ k \in k .. m /\ (k + 1) .. m \subseteq k .. m
    BY <1>0, <1>1 DEF ReadsWord
  <2> QED BY <1>0, <1>1, <2>1 DEF ReadsWord, WordType, IsFlag, IsWord, EndsInstruction, FlagFree
<1>2. ASSUME ReadsEnd(line, k)
      PROVE  /\ k = m + 1 /\ Peek.type \in {"EOF", "Newline", "Comment"} /\ Peek.value \notin Keywords
             /\ ~IsWord /\ ~(k <= m) /\ k # m
  BY <1>0, <1>2 DEF ReadsEnd, IsWord
<1>3. ASSUME ReadsOn
      PROVE  /\ Peek.type = "LineContinuation" /\ Peek.value \notin Keywords
             /\ op \in {"RUN", "CMD", "VOLUME"} /\ ~IsWord /\ ~EndsInstruction
  BY <1>3 DEF ReadsOn, IsWord, EndsInstruction
<1>4. ASSUME Consume, ReadsWord(line, k)
      PROVE  /\ words' \in Seq(Piece) /\ words'[1] = words[1] /\ Len(words') + 1 = k + 1
  <2>1. words' = Append(words, line[k]) /\ line[k] \in Piece
    BY <1>1, <1>4 DEF Consume
  <2> QED BY <2>1, Prefixed
<1> HIDE DEF m
<1>5. CASE Sub
  <2>1. pc = "sub" /\ op = "ONBUILD" /\ LegalFrom(line, k)
    BY <1>5 DEF Sub, Owes
  <2>2. k <= m
    <3>1. PICK n \in k .. m : TRUE
      BY <2>1 DEF LegalFrom, m
    <3> QED BY <1>0, <3>1
  <2>3. ReadsWord(line, k)
    BY <1>2, <1>3, <2>1, <2>2
  <2>4. k \in 1 .. Len(line) /\ Peek.value = line[k]
    BY <1>1, <2>3 DEF m
  <2>5. /\ line[k] \in Keywords
        /\ Owes(IF line[k] \in Flagged THEN "flags" ELSE Body(line[k]), line[k], 0, line, k + 1)
    BY <2>1, <2>4, OpenOwed
  <2>6. Open
    BY <1>5, <2>4, <2>5 DEF Sub
  <2>7. /\ pc' = (IF line[k] \in Flagged THEN "flags" ELSE Body(line[k]))
        /\ op' = line[k] /\ args' = 0 /\ ast' = ast /\ Consume
    BY <2>4, <2>6 DEF Open
  <2>8. pc' \in Inside
    BY <2>5, <2>7, BodyFacts DEF Inside
  <2>9. words' \in Seq(Piece) /\ words'[1] = words[1] /\ Len(words') + 1 = k + 1
    BY <1>4, <2>3, <2>7
  <2>10. words[1] = "ONBUILD"
    BY <2>1
  <2> QED BY <2>5, <2>7, <2>8, <2>9, <2>10 DEF Keeps
<1>6. CASE Flags
  <2>1. /\ pc = "flags" /\ op \in Flagged /\ args = 0
        /\ \E f \in k .. (m + 1) :
             /\ Known(line, k, f) /\ (f > m \/ line[f] # "known")
             /\ LegalAfter(op, SubSeq(line, f, m))
    BY <1>6 DEF Flags, Owes, m
  <2>2. PICK f \in k .. (m + 1) :
             /\ Known(line, k, f) /\ (f > m \/ line[f] # "known")
             /\ LegalAfter(op, SubSeq(line, f, m))
    BY <2>1
  <2>3. f = k \/ (k \in k .. (f - 1) /\ k \in 1 .. m /\ f \in (k + 1) .. (m + 1)
                   /\ (k + 1) .. (f - 1) \subseteq k .. (f - 1))
    BY <1>0
  <2>4. op \in Keywords
    BY <2>1 DEF Flagged, Keywords
  <2>5. ASSUME f = k PROVE Owes(Body(op), op, 0, line, k)
    <3>1. k \in 1 .. (Len(line) + 1) /\ LegalAfter(op, SubSeq(line, k, Len(line)))
      BY <1>0, <2>2, <2>5 DEF m
    <3> QED BY <2>4, <3>1, BodyOwed
  <2>6. ASSUME f # k PROVE line[k] = "known" /\ k \in 1 .. m
    BY <2>2, <2>3, <2>6 DEF Known
  <2>7. CASE Peek.type = "Flag" /\ Peek.value = "known" /\ Consume /\ UNCHANGED <<pc, op, args, ast>>
    <3>1. ReadsWord(line, k)
      BY <1>2, <1>3, <2>7
    <3>2. line[k] = "known" /\ k \in 1 .. m
      BY <1>1, <2>7, <3>1
    <3>3. f # k
      BY <1>0, <2>2, <3>2
    <3>4. \E g \in (k + 1) .. (m + 1) :
             /\ Known(line, k + 1, g) /\ (g > m \/ line[g] # "known")
             /\ LegalAfter(op, SubSeq(line, g, m))
      BY <2>2, <2>3, <3>3 DEF Known
    <3>5. Owes("flags", op, 0, line, k + 1)
      BY <2>1, <3>4 DEF Owes, m
    <3> QED BY <1>4, <2>1, <2>7, <3>1, <3>5 DEF Keeps, Inside
  <2>8. CASE Peek.type = "Flag" /\ Peek.value = "flag" /\ op # "RUN"
    <3>1. ReadsWord(line, k)
      BY <1>2, <1>3, <2>8
    <3>2. line[k] = "flag" /\ k \in k .. m
      BY <1>0, <1>1, <2>8, <3>1
    <3>3. f = k
      BY <2>6, <3>2
    <3>4. Owes(Body(op), op, 0, line, k)
      BY <2>5, <3>3
    <3>5. CASE op = "HEALTHCHECK"
      BY <3>2, <3>4, <3>5 DEF Owes, Body, IsFlag
    <3>6. CASE op \in {"FROM", "COPY"}
      <4>1. FlagFree(line, k)
        BY <3>4, <3>6 DEF Owes, Body
      <4> QED BY <3>2, <4>1 DEF FlagFree, IsFlag, m
    <3> QED BY <2>1, <2>8, <3>5, <3>6 DEF Flagged
  <2>9. CASE /\ Peek.type # "Flag" \/ (Peek.value = "flag" /\ op = "RUN")
             /\ pc' = Body(op) /\ UNCHANGED <<current, parseVars>>
    <3>1. Owes(Body(op), op, 0, line, k)
      <4>1. CASE f = k
        BY <2>5, <4>1
      <4>2. CASE f # k
        <5>1. line[k] = "known" /\ k \in 1 .. m
          BY <2>6, <4>2
        <5>2. ~ReadsWord(line, k)
          BY <1>1, <2>9, <5>1 DEF IsFlag
        <5>3. ~ReadsEnd(line, k)
          BY <1>0, <1>2, <5>1
        <5>4. op = "RUN"
          BY <1>3, <2>1, <5>2, <5>3 DEF Flagged
        <5>5. CommandFrom(line, k)
          BY <5>1 DEF CommandFrom
        <5> QED BY <5>4, <5>5 DEF Owes, Body
      <4> QED BY <4>1, <4>2
    <3>2. pc' \in Inside
      BY <2>4, <2>9, BodyFacts
    <3> QED BY <2>1, <2>9, <3>1, <3>2 DEF Keeps, parseVars
  <2> QED BY <1>6, <2>7, <2>8, <2>9 DEF Flags
<1>7. CASE From
  <2>1. /\ pc \in {"image", "as", "name"} /\ op = "FROM" /\ FlagFree(line, k)
        /\ pc = "image" => k = m \/ (k + 2 = m /\ line[k + 1] = "AS")
        /\ pc = "as" => k = m + 1 \/ (k + 1 = m /\ line[k] = "AS")
        /\ pc = "name" => k = m
    BY <1>7 DEF From, Owes, m
  <2>2. ~ReadsOn
    BY <1>3, <2>1
  <2>3. CASE pc = "image" /\ IsWord /\ Consume /\ pc' = "as" /\ UNCHANGED <<op, args, ast>>
    <3>1. ReadsWord(line, k)
      BY <1>2, <2>2, <2>3
    <3>2. k + 1 = m + 1 \/ ((k + 1) + 1 = m /\ line[k + 1] = "AS")
      BY <1>0, <2>1, <2>3
    <3>3. Owes("as", op, args, line, k + 1)
      BY <1>1, <2>1, <3>1, <3>2 DEF Owes, m
    <3> QED BY <1>4, <2>3, <3>1, <3>3 DEF Keeps, Inside
  <2>4. CASE /\ pc = "as" /\ Peek.type = "Argument" /\ Peek.value = "AS"
             /\ Consume /\ pc' = "name" /\ UNCHANGED <<op, args, ast>>
    <3>1. ReadsWord(line, k)
      BY <1>2, <2>2, <2>4
    <3>2. k + 1 = m
      BY <1>0, <1>1, <2>1, <2>4, <3>1
    <3>3. Owes("name", op, args, line, k + 1)
      BY <1>1, <2>1, <3>1, <3>2 DEF Owes, m
    <3> QED BY <1>4, <2>4, <3>1, <3>3 DEF Keeps, Inside
  <2>5. CASE pc = "as" /\ ~(Peek.type = "Argument" /\ Peek.value = "AS") /\ CompleteHere
    <3>1. ASSUME ReadsWord(line, k) PROVE FALSE
      <4>1. line[k] = "AS"
        BY <1>0, <1>1, <2>1, <2>5, <3>1
      <4>2. Peek.type = "Argument" /\ Peek.value = "AS"
        BY <1>1, <3>1, <4>1 DEF IsFlag
      <4> QED BY <2>5, <4>2
    <3> QED BY <2>2, <2>5, <3>1
  <2>6. CASE pc = "name" /\ IsWord /\ CompleteWith
    <3>1. ReadsWord(line, k)
      BY <1>2, <2>2, <2>6
    <3> QED BY <2>1, <2>6, <3>1 DEF m
  <2>7. CASE pc \in {"image", "name"} /\ ~IsWord
    <3>1. k <= m
      BY <1>0, <2>1, <2>7
    <3>2. ReadsWord(line, k)
      BY <1>2, <2>2, <3>1
    <3> QED BY <1>1, <2>1, <2>7, <3>2
  <2> QED BY <1>7, <2>3, <2>4, <2>5, <2>6, <2>7 DEF From
<1>8. CASE Command
  <2>1. pc = "command" /\ op \in {"RUN", "CMD", "HEALTHCHECK"} /\ CommandFrom(line, k)
    BY <1>8 DEF Command, Owes
  <2>2. CASE Peek.type = "Argument" /\ Peek.value = "[]" /\ CompleteWith
    <3>1. ReadsWord(line, k)
      BY <1>2, <1>3, <2>2
    <3>2. k = Len(line)
      BY <1>0, <1>1, <2>1, <2>2, <3>1 DEF CommandFrom, m
    <3> QED BY <2>2, <3>1, <3>2
  <2>3. CASE pc' = "shell" /\ UNCHANGED <<current, parseVars>>
    BY <2>1, <2>3 DEF Keeps, Owes, parseVars, Inside, Loops
  <2> QED BY <1>8, <2>2, <2>3 DEF Command
<1>9. CASE Turn
  <2>1. CASE EndsInstruction /\ CompleteHere
    BY <1>1, <1>3, <2>1
  <2>2. CASE Peek.type = "LineContinuation" /\ Skip /\ UNCHANGED <<pc, op, args, ast>>
    BY <2>2 DEF Skip, Keeps
  <2>3. CASE /\ IsWord \/ (Peek.type = "Flag" /\ pc = "shell")
             /\ Consume
             /\ pc' = (IF pc = "pairs" /\ Peek.value # "kv" THEN "value" ELSE pc)
             /\ UNCHANGED <<op, args, ast>>
    <3>1. ReadsWord(line, k)
      BY <1>2, <1>3, <2>3
    <3>2. k \in 1 .. m /\ Peek.value = line[k] /\ (FlagFree(line, k) => FlagFree(line, k + 1))
      BY <1>1, <3>1
    <3>3. CASE pc = "shell"
      <4>1. Owes("shell", op, args, line, k + 1)
        BY <3>3 DEF Owes
      <4> QED BY <1>4, <2>3, <3>1, <3>3, <4>1 DEF Keeps, Inside, Loops
    <3>4. CASE pc = "list"
      <4>1. Owes("list", op, args, line, k + 1)
        BY <3>4 DEF Owes
      <4> QED BY <1>4, <2>3, <3>1, <3>4, <4>1 DEF Keeps, Inside, Loops
    <3>5. CASE pc = "pairs"
      <4>1. op = "ENV" /\ FlagFree(line, k) /\ PairsFrom(line, k)
        BY <3>5 DEF Owes
      <4>2. /\ line[k] = "kv" => PairsFrom(line, k + 1)
            /\ line[k] # "kv" => k + 1 <= m /\ PairsFrom(line, (k + 1) + 1)
        <5>1. (k + 1) + 1 = k + 2
          BY <1>0
        <5> QED BY <3>2, <4>1, <5>1, PairsStep DEF m
      <4>3. Owes(pc', op, args, line, k + 1)
        BY <2>3, <3>2, <3>5, <4>1, <4>2 DEF Owes, m
      <4>4. pc' \in Inside
        BY <2>3, <3>5 DEF Inside, Loops
      <4> QED BY <1>4, <2>3, <3>1, <4>3, <4>4 DEF Keeps
    <3> QED BY <1>9, <3>3, <3>4, <3>5 DEF Turn, Loops
  <2> QED BY <1>9, <2>1, <2>2, <2>3 DEF Turn
<1>10. CASE Spin
  BY <1>10 DEF Spin
<1>11. CASE Value
  <2>1. /\ pc = "value" /\ op = "ENV" /\ FlagFree(line, k) /\ k <= m /\ PairsFrom(line, k + 1)
    BY <1>11 DEF Value, Owes, m
  <2>2. ReadsWord(line, k)
    BY <1>2, <1>3, <2>1
  <2>3. Consume /\ pc' = "pairs" /\ UNCHANGED <<op, args, ast>>
    BY <1>1, <1>11, <2>1, <2>2 DEF Value
  <2>4. Owes("pairs", op, args, line, k + 1)
    BY <1>1, <2>1, <2>2 DEF Owes
  <2> QED BY <1>4, <2>2, <2>3, <2>4 DEF Keeps, Inside, Loops
<1>12. CASE Files
  <2>1. pc = "files" /\ op = "COPY" /\ FlagFree(line, k) /\ args + (m + 1) >= 2 + k
    BY <1>12 DEF Files, Owes, m
  <2>2. ~ReadsOn
    BY <1>3, <2>1
  <2>3. CASE IsWord /\ Consume /\ args' = args + 1 /\ UNCHANGED <<pc, op, ast>>
    <3>1. ReadsWord(line, k)
      BY <1>2, <2>2, <2>3
    <3>2. (args + 1) + (m + 1) >= 2 + (k + 1)
      BY <1>0, <2>1
    <3>3. Owes("files", op, args + 1, line, k + 1)
      BY <1>1, <2>1, <3>1, <3>2 DEF Owes, m
    <3> QED BY <1>4, <2>1, <2>3, <3>1, <3>3 DEF Keeps, Inside
  <2>4. CASE ~IsWord
    <3>1. ReadsEnd(line, k)
      BY <1>1, <2>1, <2>2, <2>4
    <3>2. args >= 2
      <4>1. k = m + 1
        BY <1>2, <3>1
      <4> QED BY <1>0, <2>1, <4>1
    <3> QED BY <1>12, <2>4, <3>1, <3>2 DEF Files
  <2> QED BY <1>12, <2>3, <2>4 DEF Files
<1>13. CASE Single
  <2>1. pc = "single" /\ op = "WORKDIR" /\ FlagFree(line, k) /\ k = m
    BY <1>13 DEF Single, Owes, m
  <2>2. ReadsWord(line, k)
    BY <1>2, <1>3, <2>1
  <2> QED BY <1>1, <1>13, <2>1, <2>2 DEF Single, m
<1>14. CASE Type
  <2>1. /\ pc = "type" /\ op = "HEALTHCHECK" /\ k <= m /\ ~IsFlag(line[k]) /\ line[k] # "str"
        /\ IF line[k] = "CMD" THEN CommandFrom(line, k + 1) ELSE k = m
    BY <1>14 DEF Type, Owes, m
  <2>2. ReadsWord(line, k)
    BY <1>2, <1>3, <2>1
  <2>3. Peek.type = "Argument" /\ Peek.value = line[k]
    BY <1>1, <2>1, <2>2
  <2>4. CASE line[k] = "CMD"
    <3>1. Consume /\ pc' = "command" /\ UNCHANGED <<op, args, ast>>
      BY <1>14, <2>3, <2>4 DEF Type
    <3>2. Owes("command", op, args, line, k + 1)
      BY <2>1, <2>4 DEF Owes
    <3> QED BY <1>4, <2>2, <3>1, <3>2 DEF Keeps, Inside
  <2>5. CASE line[k] # "CMD"
    BY <1>14, <2>1, <2>2, <2>3, <2>5 DEF Type, m
  <2> QED BY <2>4, <2>5
<1>15. CASE Stop
  BY <1>15 DEF Stop
<1> QED
  BY <1>5, <1>6, <1>7, <1>8, <1>9, <1>10, <1>11, <1>12, <1>13, <1>14, <1>15
  DEF Next, NextToken, LexEnd, Top, Inside, Loops

-----------------------------------------------------------------------------
LEMMA SameLegal ==
  ASSUME UNCHANGED src
  PROVE  /\ Lines' = Lines /\ (LegalFile' <=> LegalFile)
         /\ ContinuationsInLoops' <=> ContinuationsInLoops
         /\ \A p : Over(p)' <=> Over(p)
<1>1. \A i : (IsText(i)' <=> IsText(i)) /\ LineOf(i)' = LineOf(i) /\ Row(i)' = Row(i)
             /\ Column(i)' = Column(i)
  BY SameText
<1>2. Written' = Written
  BY <1>1 DEF Written
<1>3. Lines' = Lines
  <2> DEFINE row == [i \in Written |-> Row(i)]
             column == [i \in Written |-> Column(i)]
  <2>1. row' = row /\ column' = column
    BY <1>1, <1>2
  <2>2. Lines = [n \in {row[i] : i \in Written} |->
                  [k \in {column[i] : i \in {j \in Written : row[j] = n}} |->
                     src[CHOOSE i \in Written : row[i] = n /\ column[i] = k]]]
    BY DEF Lines
  <2>3. Lines' = [n \in {row'[i] : i \in Written'} |->
                  [k \in {column'[i] : i \in {j \in Written' : row'[j] = n}} |->
                     src'[CHOOSE i \in Written' : row'[i] = n /\ column'[i] = k]]]
    BY DEF Lines
  <2> HIDE DEF row, column
  <2> QED BY <1>2, <2>1, <2>2, <2>3
<1>4. LegalFile' <=> LegalFile
  BY <1>3 DEF LegalFile
<1>5. \A i, keywords : Opens(i, keywords)' <=> Opens(i, keywords)
  BY <1>1 DEF Opens
<1>6. \A i : Continues(i)' <=> Continues(i)
  BY DEF Continues, Commented, BeforeNewline
<1>7. ContinuationsInLoops' <=> ContinuationsInLoops
  BY <1>1, <1>5, <1>6 DEF ContinuationsInLoops
<1>8. \A p : Over(p)' <=> Over(p)
  <2>1. \A p : LinesTo(p)' = LinesTo(p)
    BY <1>1 DEF LinesTo, TextTo
  <2> QED BY <1>1, <1>2, <2>1 DEF Over
<1> QED BY <1>3, <1>4, <1>7, <1>8

(* What the parser of a legal file is owed: between instructions no line is *)
(* open, within one its line has the rest of it.                            *)
Promise ==
  ContinuationsInLoops /\ LegalFile /\ pc # "lex" =>
    /\ pc # "failed"
    /\ pc = "top" => \A at : Placed(at, Len(tokens) - 1) => Over(at[current])
    /\ pc \in Inside => /\ words[1] \in {op, "ONBUILD"}
                        /\ Owes(pc, op, args, Line(ast), Len(words) + 1)

(* Between the lines of a legal file. *)
LEMMA LegalTop ==
  ASSUME Types, Parsing, Top, ContinuationsInLoops, LegalFile, NEW at, Parses(at),
         Over(at[current])
  PROVE  \/ pc' = "done"
         \/ /\ pc' = "top" /\ current' = current + 1 /\ current < Len(tokens)
            /\ Over(at[current + 1])
         \/ Keeps(Line(ast))
<1>0. /\ src \in Seq(Piece) /\ ast \in Seq(Seq(Piece)) /\ words = << >> /\ pc = "top"
      /\ Between(ast, at[current]) /\ Placed(at, Len(tokens) - 1) /\ pc # "lex"
      /\ \A n \in DOMAIN ast : ast[n] # << >>
  BY DEF Types, Parses, Top
<1>1. Lines # << >> /\ Lines[1][1] = "FROM" /\ \A n \in DOMAIN Lines : Legal(Lines[n])
  BY DEF LegalFile
<1>2. CASE Peek.type = "EOF"
  <2>1. at[current] = Len(src) + 1
    <3>1. Len(tokens) \in Nat /\ current = Len(tokens)
      BY <1>0, <1>2, AtHand DEF Parsing, Parses
    <3>2. current = (Len(tokens) - 1) + 1
      BY <3>1
    <3> QED BY <1>0, <3>2 DEF Placed, Parsing
  <2>2. ast = Lines
    BY <1>0, <2>1, AllParsed
  <2> QED BY <1>1, <1>2, <2>2 DEF Top
<1>3. CASE Peek.type \in {"Comment", "Newline"}
  <2>1. /\ TextTo(at[current + 1]) = TextTo(at[current]) /\ current < Len(tokens)
        /\ at[current] \in Nat /\ at[current + 1] \in Nat /\ at[current] <= at[current + 1]
    BY <1>0, <1>3, NoWordAtHand
  <2>2. LinesTo(at[current + 1]) = LinesTo(at[current])
    BY <2>1 DEF LinesTo
  <2>3. \A i \in Written : i \in Nat
    BY <1>0, TextFacts DEF Written
  <2>4. Over(at[current + 1])
    BY <2>1, <2>2, <2>3 DEF Over
  <2>5. current' = current + 1 /\ pc' = "top"
    BY <1>0, <1>3 DEF Top, Skip
  <2> QED BY <2>1, <2>4, <2>5
<1>4. CASE Peek.type = "LineContinuation"
  BY <1>0, <1>4, ContinuationAtHand
<1>5. CASE Peek.type \in Wordy
  <2>1. PICK p \in DOMAIN src : /\ p = at[current] /\ IsText(p) /\ Peek.value = src[p]
                                /\ Peek.type = TypeAt(p) /\ src[p] \in Piece
    BY <1>0, <1>5, WordAtHand
  <2>2. LineOf(p) \notin LinesTo(p)
    <3>1. p \in Written /\ p \in Nat
      BY <1>0, <2>1, TextFacts DEF Written
    <3>2. p >= p
      BY <3>1
    <3> QED BY <2>1, <3>1, <3>2 DEF Over
  <2> DEFINE line == Line(ast)
  <2>3. /\ Len(ast) + 1 \in DOMAIN Lines /\ line \in Seq(Piece) /\ Len(line) \in Nat
        /\ 1 <= Len(line) /\ line[1] = src[p]
    BY <1>0, <2>1, <2>2, NextOfLine
  <2>4. LegalFrom(line, 1)
    BY <1>1, <2>3, LegalAtFirst DEF Line
  <2>5. 1 \in 1 .. Len(line)
    BY <2>3
  <2>6. /\ line[1] \in Keywords
        /\ Owes(IF line[1] \in Flagged THEN "flags" ELSE Body(line[1]), line[1], 0, line, 1 + 1)
    BY <2>3, <2>4, <2>5, OpenOwed
  <2>7. Peek.type = "Instruction" /\ Peek.value = line[1]
    BY <1>0, <2>1, <2>2, <2>3, <2>6, StartsLine, TypeFacts
  <2>8. ast = << >> => Peek.value = "FROM"
    <3>1. ast = << >> => Len(ast) = 0
      OBVIOUS
    <3> QED BY <1>1, <2>7, <3>1 DEF Line
  <2>9. Open
    BY <2>7, <2>8 DEF Top
  <2>10. /\ pc' = (IF line[1] \in Flagged THEN "flags" ELSE Body(line[1]))
         /\ op' = line[1] /\ args' = 0 /\ ast' = ast /\ words' = Append(words, line[1])
    BY <2>7, <2>9 DEF Open, Consume
  <2>11. pc' \in Inside
    BY <2>6, <2>10, BodyFacts DEF Inside
  <2>12. words' \in Seq(Piece) /\ words'[1] = line[1] /\ Len(words') = 1
    BY <1>0, <2>1, <2>3, <2>10
  <2>13. Keeps(line)
    BY <2>6, <2>10, <2>11, <2>12 DEF Keeps
  <2> QED BY <2>13
<1>6. Peek.type \in TokenTypes
  <2>1. Peek \in TokenSet
    BY <1>0, AtHand DEF Parsing, Parses
  <2> QED BY <2>1 DEF TokenSet
<1> QED BY <1>2, <1>3, <1>4, <1>5, <1>6 DEF TokenTypes, Wordy

LEMMA PromiseKept ==
  ASSUME ParserInv, Promise, Next
  PROVE  Promise'
<1>0. Types /\ Lexing /\ Parsing
  BY DEF ParserInv
<1>1. CASE pc = "lex"
  <2>1. NextToken \/ LexEnd
    BY <1>1 DEF Next, Top, Sub, Flags, From, Command, Turn, Spin, Value, Files, Single, Type, Stop,
       Ended, Loops
  <2>2. CASE NextToken
    <3>1. pc' = "lex"
      BY <1>1, <2>2 DEF NextToken
    <3> QED BY <3>1 DEF Promise
  <2>3. CASE LexEnd
    <3>1. pc' = "top" /\ current' = 1
      BY <1>0, <2>3 DEF LexEnd, Lexing
    <3>2. LinesTo(1)' = {}
      BY DEF LinesTo, TextTo
    <3>3. \A at : Placed(at, Len(tokens) - 1)' => Over(at[current])'
      BY <3>1, <3>2 DEF Placed, Over
    <3> QED BY <3>1, <3>3 DEF Promise, Inside, Loops
  <2> QED BY <2>1, <2>2, <2>3
<1>2. CASE pc # "lex"
  <2>1. src' = src /\ tokens' = tokens /\ pos' = pos
    BY <1>2 DEF Next, NextToken, LexEnd, Top, Sub, Flags, From, Command, Turn, Spin, Value, Files,
       Single, Type, Stop, vars
  <2>2. /\ Lines' = Lines /\ (LegalFile' <=> LegalFile)
        /\ ContinuationsInLoops' <=> ContinuationsInLoops
        /\ \A p : Over(p)' <=> Over(p)
    BY <2>1, SameLegal
  <2> SUFFICES ASSUME ContinuationsInLoops, LegalFile PROVE Promise'
    BY <2>2 DEF Promise
  <2>3. PICK at : Parses(at)
    BY <1>0, <1>2 DEF Parsing
  <2>4. Placed(at, Len(tokens) - 1) /\ Len(tokens) \in Nat /\ tokens # << >>
        /\ src \in Seq(Piece) /\ words \in Seq(Piece) /\ ast \in Seq(Seq(Piece))
        /\ current \in Nat \ {0} /\ current <= Len(tokens)
    BY <1>0, <1>2, <2>3, LenProperties DEF Parses, Types, Parsing
  <2>5. Len(tokens) - 1 \in Nat
    BY <2>4, EmptySeq
  <2>6. ASSUME NEW c \in 1 .. Len(tokens), current' = c, Over(at[c]), pc' = "top"
        PROVE  Promise'
    <3>1. ASSUME NEW bt, Placed(bt, Len(tokens) - 1)' PROVE Over(bt[current])'
      <4>1. Placed(bt, Len(tokens) - 1)
        BY <2>1, <3>1, SameTokens
      <4>2. c \in 1 .. ((Len(tokens) - 1) + 1)
        BY <2>4
      <4>3. bt[c] = at[c]
        BY <2>4, <2>5, <4>1, <4>2, PlacedOnce
      <4>4. Over(bt[c])'
        BY <2>2, <2>6, <4>3
      <4> QED BY <2>6, <4>4
    <3> QED BY <2>6, <3>1 DEF Promise, Inside, Loops
  <2>7. ASSUME Keeps(Line(ast)) PROVE Promise'
    <3>1. /\ pc' \in Inside /\ pc' \notin {"failed", "top"} /\ words'[1] \in {op', "ONBUILD"}
          /\ Owes(pc', op', args', Line(ast), Len(words') + 1) /\ ast' = ast
      BY <2>7 DEF Keeps, Inside, Loops
    <3>2. Line(ast)' = Line(ast)
      BY <2>2, <3>1 DEF Line
    <3>3. (words[1] \in {op, "ONBUILD"} /\ Owes(pc, op, args, Line(ast), Len(words) + 1))'
      BY <3>1, <3>2
    <3> QED BY <3>1, <3>3 DEF Promise
  <2>8. ASSUME UNCHANGED vars PROVE Promise'
    <3>1. UNCHANGED <<src, pos, tokens, current, pc, op, words, args, ast>>
      BY <2>8 DEF vars
    <3>2. Line(ast)' = Line(ast)
      BY <2>2, <3>1 DEF Line
    <3>3. \A bt : Placed(bt, Len(tokens) - 1)' => Placed(bt, Len(tokens) - 1)
      BY <2>1, SameTokens
    <3>4. \A bt : Over(bt[current])' <=> Over(bt[current])
      BY <2>2, <3>1
    <3> QED BY <1>2, <2>2, <3>1, <3>2, <3>3, <3>4 DEF Promise, Inside, Loops
  <2>9. CASE pc = "top"
    <3>1. Top
      BY <2>9 DEF Next, NextToken, LexEnd, Sub, Flags, From, Command, Turn, Spin, Value, Files,
         Single, Type, Stop, Ended, Loops
    <3>2. Over(at[current])
      BY <2>4, <2>9 DEF Promise
    <3>3. CASE pc' = "done"
      BY <3>3 DEF Promise, Inside, Loops
    <3>4. CASE /\ pc' = "top" /\ current' = current + 1 /\ current < Len(tokens)
               /\ Over(at[current + 1])
      <4>1. current + 1 \in 1 .. Len(tokens)
        BY <2>4, <3>4
      <4> QED BY <2>6, <3>4, <4>1
    <3> QED BY <1>0, <2>3, <2>7, <3>1, <3>2, <3>3, <3>4, LegalTop
  <2>10. CASE pc \in Inside
    <3> DEFINE line == Line(ast)
               k    == Len(words) + 1
    <3>1. /\ words[1] \in {op, "ONBUILD"} /\ Owes(pc, op, args, line, k)
          /\ words # << >> /\ args \in Nat /\ (pc = "flags" => args = 0)
      BY <1>0, <1>2, <2>4, <2>10, LenProperties DEF Promise, Types
    <3>2. /\ line \in Seq(Piece)
          /\ ReadsWord(line, k) \/ (ReadsEnd(line, k) /\ Over(at[current])) \/ ReadsOn
      BY <1>0, <2>3, <2>10, Reading
    <3>3. \/ UNCHANGED vars
          \/ Keeps(line)
          \/ CompleteHere /\ ReadsEnd(line, k)
          \/ CompleteWith /\ k = Len(line) /\ ReadsWord(line, k)
      <4> HIDE DEF line
      <4> QED BY <2>4, <2>10, <3>1, <3>2, LegalStep
    <3>4. CASE CompleteHere /\ ReadsEnd(line, k)
      <4>1. Over(at[current])
        BY <1>0, <1>2, <2>3, <3>4, EndAtHand DEF ReadsEnd
      <4>2. current' = current /\ pc' = "top" /\ current \in 1 .. Len(tokens)
        BY <2>4, <3>4 DEF CompleteHere, Complete
      <4> QED BY <2>6, <4>1, <4>2
    <3>5. CASE CompleteWith /\ k = Len(line) /\ ReadsWord(line, k)
      <4>1. Peek.type \in Wordy
        BY <3>5 DEF ReadsWord, WordType, Wordy
      <4>2. /\ current < Len(tokens)
            /\ \E p \in DOMAIN src : /\ p = at[current] /\ at[current + 1] = p + 1
                                  /\ IsText(p) /\ src[p] # "NL" /\ Peek.value = src[p]
                                  /\ src[p] \in Piece
        BY <1>0, <1>2, <2>3, <4>1, WordAtHand
      <4>3. PICK p \in DOMAIN src : /\ p = at[current] /\ at[current + 1] = p + 1
                                    /\ IsText(p) /\ src[p] # "NL" /\ Peek.value = src[p]
                                    /\ src[p] \in Piece
        BY <4>2
      <4> DEFINE ws == Append(words, src[p])
      <4>4. ws \in Seq(Piece) /\ ws # << >> /\ Len(ws) = k
        BY <2>4, <4>3, Prefixed
      <4>5. Within(ast, words, p)
        BY <2>3, <2>10, <4>3 DEF Parses
      <4>6. Within(ast, ws, p + 1)
        BY <2>4, <4>3, <4>5, NextWord
      <4>7. p + 1 \in 1 .. (Len(src) + 1)
        BY <2>4, TextFacts
      <4> HIDE DEF ws
      <4>8. Over(p + 1)
        BY <2>4, <3>5, <4>4, <4>6, <4>7, EndIsOver
      <4>9. current' = current + 1 /\ pc' = "top" /\ current + 1 \in 1 .. Len(tokens)
        BY <2>4, <3>5, <4>2 DEF CompleteWith, Complete
      <4> QED BY <2>6, <4>3, <4>8, <4>9
    <3> QED BY <2>7, <2>8, <3>3, <3>4, <3>5
  <2>11. CASE pc \notin Inside \union {"top"}
    <3>1. pc = "done"
      BY <1>0, <1>2, <2>11 DEF Types, Promise
    <3>2. UNCHANGED vars
      BY <3>1 DEF Next, NextToken, LexEnd, Top, Sub, Flags, From, Command, Turn, Spin, Value, Files,
         Single, Type, Stop, Loops
    <3> QED BY <2>8, <3>2
  <2> QED BY <2>9, <2>10, <2>11
<1> QED BY <1>1, <1>2

(* A file of legal instructions is never rejected, whatever its length: no  *)
(* parse function of parser.go fails before the end of a legal line, and    *)
(* none leaves a part of it to the next.                                    *)
THEOREM LegalIsAlwaysParsed == Spec => []LegalIsParsed
<1>1. Init => Promise
  BY DEF Init, Promise
<1>2. ParserInv /\ Promise /\ [Next]_vars => Promise'
  <2> SUFFICES ASSUME ParserInv, Promise, UNCHANGED vars PROVE Promise'
    BY PromiseKept
  <2>1. UNCHANGED <<src, pos, tokens, current, pc, op, words, args, ast>>
    BY DEF vars
  <2>2. /\ Lines' = Lines /\ (LegalFile' <=> LegalFile)
        /\ ContinuationsInLoops' <=> ContinuationsInLoops
        /\ \A p : Over(p)' <=> Over(p)
    BY <2>1, SameLegal
  <2>3. Line(ast)' = Line(ast)
    BY <2>1, <2>2 DEF Line
  <2>4. \A at : Placed(at, Len(tokens) - 1)' => Placed(at, Len(tokens) - 1)
    BY <2>1, SameTokens
  <2>5. \A at : Over(at[current])' <=> Over(at[current])
    BY <2>1, <2>2
  <2> QED BY <2>1, <2>2, <2>3, <2>4, <2>5 DEF Promise, Inside, Loops
<1>3. Promise => LegalIsParsed
  BY DEF Promise, LegalIsParsed
<1> QED BY <1>1, <1>2, <1>3, ParserInvariance, PTL DEF Spec
===============================================================================
