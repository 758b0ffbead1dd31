-------------------------- MODULE SessionLogProofs --------------------------
(***************************************************************************)
(* What TLAPS proves of SessionLog, for any number of processes, lines and *)
(* deaths, and lines of any length.                                        *)
(***************************************************************************)
EXTENDS SessionLog, SequenceTheorems, FiniteSetTheorems, WellFoundedInduction, TLAPS

Char == Line \cup {NewLine}

(***************************************************************************)
(* Numbers.                                                                *)
(***************************************************************************)

\* A set of naturals that is bounded has a greatest element, and Max is it.
LEMMA Greatest ==
    ASSUME NEW N \in Nat, NEW S \in SUBSET (0..N), S # {}
    PROVE  Max(S) \in S /\ \A x \in S : x <= Max(S)
<1> DEFINE T == {N - x : x \in S}
<1>1. T \subseteq Nat /\ T # {}
  <2>1. \A x \in S : x \in Nat /\ N - x \in Nat
    OBVIOUS
  <2> QED BY <2>1
<1>2. PICK y \in T : \A x \in T : ~ (<<x, y>> \in OpToRel(<, Nat))
  BY <1>1, NatLessThanWellFounded, WFMin
<1>3. \A x \in T : ~ (x < y)
  BY <1>1, <1>2 DEF OpToRel
<1>4. PICK m \in S : y = N - m
  BY <1>2
<1>5. \A x \in S : x <= m
  <2> SUFFICES ASSUME NEW x \in S PROVE x <= m
    OBVIOUS
  <2>1. N - x \in T
    OBVIOUS
  <2>2. ~ (N - x < N - m)
    BY <1>3, <1>4, <2>1
  <2> QED BY <2>2
<1> HIDE DEF T
<1>6. \A x \in S : m >= x
  BY <1>5
<1>7. Max(S) \in S /\ \A x \in S : Max(S) >= x
  BY <1>6 DEF Max
<1> QED BY <1>7

(***************************************************************************)
(* Texts.                                                                  *)
(***************************************************************************)

\* The characters of a line.
LEMMA TextOfLine ==
    ASSUME TypeOK, NEW i \in Line
    PROVE  /\ width[i] \in Nat \ {0}
           /\ Text(i) \in Seq(Char) /\ Len(Text(i)) = width[i] + 1
           /\ \A k \in 1..width[i] : Text(i)[k] = i
           /\ Text(i)[width[i] + 1] = NewLine
<1>1. width[i] \in Nat \ {0}
  BY LogAssumption DEF TypeOK
<1> DEFINE body == [n \in 1..width[i] |-> i]
<1>2. body \in Seq(Char) /\ Len(body) = width[i]
  <2>1. body \in [1..width[i] -> Char]
    BY DEF Char
  <2>2. body \in Seq(Char)
    BY <1>1, <2>1, SeqDef
  <2>3. Len(body) = width[i]
    BY <1>1, <2>1, <2>2, LenProperties
  <2> QED BY <2>2, <2>3
<1>3. NewLine \in Char
  BY DEF Char
<1>4. \A k \in 1..width[i] : body[k] = i
  OBVIOUS
<1>5. Text(i) = Append(body, NewLine)
  BY DEF Text
<1> HIDE DEF body
<1> QED BY <1>1, <1>2, <1>3, <1>4, <1>5, AppendProperties

\* The place where a text ends but for its last line ends.
End(t) == Max({0} \cup (DOMAIN t \ Breaks(t)))

\* TrimRight cuts the line ends off the end, and nothing else.
LEMMA Trimmed ==
    ASSUME NEW t, IsText(t)
    PROVE  /\ End(t) \in 0..Len(t)
           /\ End(t) > 0 => t[End(t)] # NewLine
           /\ \A k \in (End(t) + 1)..Len(t) : t[k] = NewLine
           /\ t # <<>> => End(t) < Len(t)
           /\ TrimRight(t) \in Seq(Char) /\ Len(TrimRight(t)) = End(t)
           /\ \A k \in 1..End(t) : TrimRight(t)[k] = t[k]
<1>1. t \in Seq(Char) /\ Len(t) \in Nat /\ DOMAIN t = 1..Len(t)
  BY LenProperties DEF IsText, Char
<1> DEFINE S == {0} \cup (DOMAIN t \ Breaks(t))
<1>2. S \in SUBSET (0..Len(t)) /\ S # {}
  BY <1>1
<1>3. End(t) \in S /\ \A x \in S : x <= End(t)
  BY <1>1, <1>2, Greatest DEF End
<1>4. End(t) \in 0..Len(t) /\ (End(t) > 0 => t[End(t)] # NewLine)
  BY <1>1, <1>3 DEF Breaks
<1>5. \A k \in (End(t) + 1)..Len(t) : t[k] = NewLine
  BY <1>1, <1>3, <1>4 DEF Breaks
<1>6. t # <<>> => End(t) < Len(t)
  BY <1>1, <1>4, EmptySeq DEF IsText
<1>7. \A k \in 1..End(t) : t[k] \in Char
  BY <1>1, <1>4, ElementOfSeq
<1>8. TrimRight(t) = SubSeq(t, 1, End(t))
  BY DEF TrimRight, End
<1> HIDE DEF S
<1> QED BY <1>4, <1>5, <1>6, <1>7, <1>8, SubSeqProperties

\* A text with n line ends or more has a place before its last n.
LEMMA PlaceBeforeLast ==
    ASSUME NEW t \in Seq(Char), NEW n \in Nat \ {0}, Cardinality(Breaks(t)) >= n
    PROVE  /\ BeforeLast(t, n) \in Breaks(t)
           /\ Cardinality({c \in Breaks(t) : c >= BeforeLast(t, n)}) = n
<1> DEFINE From(b) == {c \in Breaks(t) : c >= b}
           Enough == {b \in Breaks(t) : Cardinality(From(b)) >= n}
<1>1. Len(t) \in Nat /\ Breaks(t) \subseteq 1..Len(t)
  BY LenProperties DEF Breaks
<1>2. IsFiniteSet(Breaks(t))
  <2>1. IsFiniteSet(1..Len(t))
    BY <1>1, FS_Interval
  <2> QED BY <1>1, <2>1, FS_Subset
<1>3. \A b : IsFiniteSet(From(b)) /\ Cardinality(From(b)) \in Nat
  BY <1>2, FS_Subset, FS_CardinalityType
<1>4. Enough # {}
  <2>1. Breaks(t) # {}
    <3>1. Cardinality({}) = 0
      BY FS_EmptySet
    <3>2. CASE Breaks(t) = {}
      BY <3>1, <3>2
    <3> QED BY <3>2
  <2> DEFINE Up == {Len(t) - b : b \in Breaks(t)}
  <2>2. Up \in SUBSET (0..Len(t)) /\ Up # {}
    BY <1>1, <2>1
  <2>3. Max(Up) \in Up /\ \A x \in Up : x <= Max(Up)
    BY <1>1, <2>2, Greatest
  <2>4. PICK first \in Breaks(t) : Max(Up) = Len(t) - first
    BY <2>3
  <2>5. \A c \in Breaks(t) : c >= first
    <3> SUFFICES ASSUME NEW c \in Breaks(t) PROVE c >= first
      OBVIOUS
    <3>1. Len(t) - c \in Up
      OBVIOUS
    <3>2. Len(t) - c <= Len(t) - first
      BY <2>3, <2>4, <3>1
    <3>3. c \in Int /\ first \in Int
      BY <1>1
    <3> HIDE DEF Up
    <3> QED BY <1>1, <3>2, <3>3
  <2>6. From(first) = Breaks(t)
    BY <2>5
  <2> QED BY <2>4, <2>6
<1>5. Enough \in SUBSET (0..Len(t))
  BY <1>1
<1> DEFINE b == Max(Enough)
<1>6. b \in Enough /\ \A x \in Enough : x <= b
  BY <1>1, <1>4, <1>5, Greatest
<1>7. Cardinality(From(b)) = n
  <2>0. Cardinality(From(b)) \in Nat /\ Cardinality(From(b)) >= n
    BY <1>3, <1>6
  <2> SUFFICES ASSUME Cardinality(From(b)) > n PROVE FALSE
    BY <2>0
  <2> DEFINE Rest == From(b) \ {b}
             Up == {Len(t) - c : c \in Rest}
  <2>1. Cardinality(Rest) = Cardinality(From(b)) - 1
    BY <1>1, <1>3, <1>6, FS_RemoveElement
  <2>1a. Cardinality(Rest) >= n
    <3> HIDE DEF Rest, From
    <3> QED BY <2>0, <2>1
  <2>2. Rest # {}
    <3>1. Cardinality({}) = 0
      BY FS_EmptySet
    <3> HIDE DEF Rest
    <3>2. CASE Rest = {}
      BY <2>1a, <3>1, <3>2
    <3> QED BY <3>2
  <2>3. Up \in SUBSET (0..Len(t)) /\ Up # {}
    <3>1. \A c \in Rest : c \in 1..Len(t)
      BY <1>1
    <3> HIDE DEF Rest
    <3> QED BY <1>1, <2>2, <3>1
  <2>4. Max(Up) \in Up /\ \A x \in Up : x <= Max(Up)
    BY <1>1, <2>3, Greatest
  <2>5. PICK next \in Rest : Max(Up) = Len(t) - next
    BY <2>4
  <2>6. \A c \in Rest : c >= next
    <3> SUFFICES ASSUME NEW c \in Rest PROVE c >= next
      OBVIOUS
    <3>1. Len(t) - c \in Up
      OBVIOUS
    <3>2. Len(t) - c <= Len(t) - next
      BY <2>4, <2>5, <3>1
    <3>3. c \in Int /\ next \in Int
      BY <1>1
    <3> HIDE DEF Up, Rest
    <3> QED BY <1>1, <3>2, <3>3
  <2>7. b \in Int /\ next \in Int /\ next > b
    BY <1>1, <1>6, <2>5
  <2>8. From(next) = Rest
    <3>1. \A c \in Rest : c \in From(next)
      BY <2>6
    <3>2. \A c \in From(next) : c \in Rest
      BY <1>1, <2>7
    <3> QED BY <3>1, <3>2
  <2>9. next \in Enough
    <3>1. next \in Breaks(t)
      BY <2>5
    <3>2. Cardinality(From(next)) >= n
      BY <2>1a, <2>8
    <3> QED BY <3>1, <3>2
  <2>10. next <= b
    BY <1>6, <2>9
  <2> QED BY <2>7, <2>10
<1>8. b \in Breaks(t) /\ Cardinality({c \in Breaks(t) : c >= b}) = n
  BY <1>6, <1>7
<1> HIDE DEF b
<1> QED BY <1>8 DEF BeforeLast

(* What trim keeps of a log with more than MaxLines lines: all of it after *)
(* a line end, up to and with the first of the line ends at its end.       *)
LEMMA CutText ==
    ASSUME NEW t, IsText(t), LineCount(TrimRight(t)) > MaxLines
    PROVE  LET d == LastLines(TrimRight(t), MaxLines) IN
           /\ End(t) \in 1..(Len(t) - 1) /\ t[End(t) + 1] = NewLine
           /\ \E b \in 1..(End(t) - 1) :
                /\ t[b] = NewLine
                /\ Cardinality({c \in Breaks(t) : b <= c /\ c <= End(t)}) = MaxLines
                /\ d \in Seq(Char) /\ Len(d) = End(t) + 1 - b
                /\ \A c \in 1..(End(t) + 1 - b) : d[c] = t[b + c]
<1> DEFINE text == TrimRight(t)
           e == End(t)
           b == BeforeLast(text, MaxLines)
           tail == SubSeq(text, b + 1, Len(text))
           d == LastLines(text, MaxLines)
<1>1. t \in Seq(Char) /\ Len(t) \in Nat /\ DOMAIN t = 1..Len(t)
  BY LenProperties DEF IsText, Char
<1>2. /\ text \in Seq(Char) /\ Len(text) = e /\ DOMAIN text = 1..e
      /\ \A k \in 1..e : text[k] = t[k]
      /\ e \in 0..Len(t) /\ (e > 0 => t[e] # NewLine)
      /\ \A k \in (e + 1)..Len(t) : t[k] = NewLine
      /\ t # <<>> => e < Len(t)
  BY Trimmed, LenProperties
<1>3. Cardinality(Breaks(text)) \in Nat
  <2>1. Breaks(text) \subseteq 1..e /\ IsFiniteSet(1..e)
    BY <1>2, FS_Interval DEF Breaks
  <2> QED BY <2>1, FS_Subset, FS_CardinalityType
<1>4. Cardinality(Breaks(text)) >= MaxLines /\ MaxLines \in Nat \ {0}
  <2>1. Cardinality(Breaks(text)) + 1 > MaxLines
    BY DEF LineCount
  <2> HIDE DEF text
  <2> QED BY <1>3, <2>1, LogAssumption
<1>5. b \in Breaks(text) /\ Cardinality({c \in Breaks(text) : c >= b}) = MaxLines
  <2> HIDE DEF text
  <2> QED BY <1>2, <1>4, PlaceBeforeLast
<1> HIDE DEF b
<1>6. b \in 1..e /\ t[b] = NewLine
  BY <1>2, <1>5 DEF Breaks
<1>7. e > 0 /\ b \in 1..(e - 1)
  BY <1>2, <1>6
<1>8. e \in 1..(Len(t) - 1) /\ t[e + 1] = NewLine
  <2>1. t # <<>>
    BY <1>1, <1>2, <1>7, EmptySeq
  <2> QED BY <1>1, <1>2, <1>7, <2>1
<1>9. Cardinality({c \in Breaks(t) : b <= c /\ c <= e}) = MaxLines
  <2>1. {c \in Breaks(text) : c >= b} = {c \in Breaks(t) : b <= c /\ c <= e}
    BY <1>1, <1>2, <1>6 DEF Breaks
  <2> QED BY <1>5, <2>1
<1>10. tail \in Seq(Char) /\ Len(tail) = e - b /\ \A c \in 1..(e - b) : tail[c] = t[b + c]
  <2>1. \A k \in (b + 1)..e : text[k] \in Char
    BY <1>2, <1>6, ElementOfSeq
  <2>2. /\ SubSeq(text, b + 1, e) \in Seq(Char) /\ Len(SubSeq(text, b + 1, e)) = e - b
        /\ \A c \in 1..(e - b) : SubSeq(text, b + 1, e)[c] = text[b + c]
    <3> HIDE DEF text, e
    <3>1. b + 1 \in Int /\ e \in Int /\ b + 1 <= e /\ e - (b + 1) + 1 = e - b
      BY <1>2, <1>7
    <3>2. /\ SubSeq(text, b + 1, e) \in Seq(Char)
          /\ Len(SubSeq(text, b + 1, e)) = e - (b + 1) + 1
          /\ \A c \in 1..(e - (b + 1) + 1) : SubSeq(text, b + 1, e)[c] = text[(b + 1) + c - 1]
      BY <2>1, <3>1, SubSeqProperties
    <3>3. \A c \in 1..(e - b) : (b + 1) + c - 1 = b + c
      BY <1>7
    <3> QED BY <3>1, <3>2, <3>3
  <2>3. \A c \in 1..(e - b) : text[b + c] = t[b + c]
    BY <1>2, <1>7
  <2> QED BY <1>2, <2>2, <2>3
<1>11. d = Append(tail, NewLine) /\ NewLine \in Char
  BY DEF LastLines, b, Char
<1> HIDE DEF tail, d, e
<1>12. d \in Seq(Char) /\ Len(d) = e + 1 - b /\ \A c \in 1..(e + 1 - b) : d[c] = t[b + c]
  <2>1. /\ d \in Seq(Char) /\ Len(d) = Len(tail) + 1
        /\ \A c \in 1..Len(tail) : d[c] = tail[c]
        /\ d[Len(tail) + 1] = NewLine
    BY <1>10, <1>11, AppendProperties
  <2>2. d[e + 1 - b] = t[b + (e + 1 - b)]
    <3>1. b + (e + 1 - b) = e + 1 /\ Len(tail) + 1 = e + 1 - b
      BY <1>2, <1>7, <1>10
    <3> QED BY <1>8, <2>1, <3>1
  <2>3. \A c \in 1..(e + 1 - b) : c \in 1..(e - b) \/ c = e + 1 - b
    BY <1>2, <1>7
  <2>4. Len(d) = e + 1 - b
    BY <1>2, <1>7, <1>10, <2>1
  <2> QED BY <1>10, <2>1, <2>2, <2>3, <2>4
<1> QED BY <1>6, <1>7, <1>8, <1>9, <1>12 DEF d, e

\* Texts that follow each other are a text.
LEMMA JoinedTexts ==
    ASSUME NEW t, NEW u, IsText(t), IsText(u)
    PROVE  /\ IsText(t \o u) /\ Len(t \o u) = Len(t) + Len(u)
           /\ \A k \in 1..Len(t) : (t \o u)[k] = t[k]
           /\ \A k \in 1..Len(u) : (t \o u)[Len(t) + k] = u[k]
<1>1. t \in Seq(Char) /\ u \in Seq(Char) /\ Len(t) \in Nat /\ Len(u) \in Nat
  BY LenProperties DEF IsText, Char
<1>2. /\ t \o u \in Seq(Char) /\ Len(t \o u) = Len(t) + Len(u)
      /\ \A k \in 1..(Len(t) + Len(u)) : (t \o u)[k] = IF k <= Len(t) THEN t[k] ELSE u[k - Len(t)]
  BY <1>1, ConcatProperties
<1>3. \A k \in 1..Len(t) : (t \o u)[k] = t[k]
  BY <1>1, <1>2
<1>4. \A k \in 1..Len(u) : (t \o u)[Len(t) + k] = u[k]
  <2> TAKE k \in 1..Len(u)
  <2>1. Len(t) + k \in 1..(Len(t) + Len(u)) /\ ~ (Len(t) + k <= Len(t)) /\ (Len(t) + k) - Len(t) = k
    BY <1>1
  <2> QED BY <1>2, <2>1
<1>5. t \o u # <<>> => (t \o u)[Len(t \o u)] = NewLine
  <2>1. CASE Len(u) = 0
    <3>1. u = <<>>
      BY <1>1, <2>1, EmptySeq
    <3>2. t \o u = t
      BY <1>1, <3>1, ConcatEmptySeq
    <3> QED BY <3>2 DEF IsText
  <2>2. CASE Len(u) # 0
    <3>1. u[Len(u)] = NewLine
      BY <2>2, EmptySeq DEF IsText
    <3>2. (t \o u)[Len(t) + Len(u)] = u[Len(u)]
      BY <1>1, <1>4, <2>2
    <3> QED BY <1>2, <3>1, <3>2
  <2> QED BY <2>1, <2>2
<1> QED BY <1>2, <1>3, <1>4, <1>5 DEF IsText, Char

\* What is left of a text behind a text that is written over it is a text.
LEMMA Remainder ==
    ASSUME NEW t, IsText(t), NEW m \in Nat
    PROVE  LET u == SubSeq(t, m + 1, Len(t)) IN
           /\ IsText(u) /\ Len(u) = IF m <= Len(t) THEN Len(t) - m ELSE 0
           /\ \A k \in 1..Len(u) : u[k] = t[m + k]
<1> DEFINE u == SubSeq(t, m + 1, Len(t))
<1>1. t \in Seq(Char) /\ Len(t) \in Nat
  BY LenProperties DEF IsText, Char
<1>2. \A k \in (m + 1)..Len(t) : t[k] \in Char
  BY <1>1, ElementOfSeq
<1>3. /\ u \in Seq(Char) /\ Len(u) = IF m + 1 <= Len(t) THEN Len(t) - (m + 1) + 1 ELSE 0
      /\ \A k \in 1..(Len(t) - (m + 1) + 1) : u[k] = t[(m + 1) + k - 1]
  BY <1>1, <1>2, SubSeqProperties
<1> HIDE DEF u
<1>4. Len(u) = IF m <= Len(t) THEN Len(t) - m ELSE 0
  BY <1>1, <1>3
<1>5. \A k \in 1..Len(u) : u[k] = t[m + k]
  <2> TAKE k \in 1..Len(u)
  <2>1. (m + 1) + k - 1 = m + k /\ k \in 1..(Len(t) - (m + 1) + 1)
    BY <1>1, <1>4
  <2> QED BY <1>3, <2>1
<1>6. u # <<>> => u[Len(u)] = NewLine
  <2> SUFFICES ASSUME u # <<>> PROVE u[Len(u)] = NewLine
    OBVIOUS
  <2>1. Len(u) \in Nat \ {0}
    BY <1>3, EmptySeq
  <2>2. m + Len(u) = Len(t) /\ t # <<>>
    BY <1>1, <1>4, <2>1, EmptySeq
  <2>3. u[Len(u)] = t[Len(t)]
    BY <1>5, <2>1, <2>2
  <2> QED BY <2>2, <2>3 DEF IsText
<1> QED BY <1>3, <1>4, <1>5, <1>6 DEF IsText, Char, u

(***************************************************************************)
(* Types.                                                                  *)
(***************************************************************************)

Appending == {q \in Proc : pc[q] = "append"}

\* There is room for every line that a process is about to append.
LogTypeInv ==
    /\ TypeOK
    /\ data \in [Proc -> Seq(Char)]
    /\ logged + Cardinality(Appending) <= MaxCalls

\* A line is a text, and so is what trim keeps.
LEMMA LinesAreTexts ==
    ASSUME TypeOK
    PROVE  /\ \A i \in Line : IsText(Text(i))
           /\ LineCount(TrimRight(file)) > MaxLines => IsText(LastLines(TrimRight(file), MaxLines))
<1>1. ASSUME NEW i \in Line PROVE IsText(Text(i))
  BY TextOfLine DEF IsText, Char
<1>2. ASSUME LineCount(TrimRight(file)) > MaxLines
      PROVE  IsText(LastLines(TrimRight(file), MaxLines))
  <2> DEFINE d == LastLines(TrimRight(file), MaxLines)
  <2>0. IsText(file)
    BY DEF TypeOK
  <2>1. /\ End(file) \in 1..(Len(file) - 1) /\ file[End(file) + 1] = NewLine
        /\ \E b \in 1..(End(file) - 1) :
             /\ d \in Seq(Char) /\ Len(d) = End(file) + 1 - b
             /\ \A c \in 1..(End(file) + 1 - b) : d[c] = file[b + c]
    BY <1>2, <2>0, CutText
  <2>2. PICK b \in 1..(End(file) - 1) :
             /\ d \in Seq(Char) /\ Len(d) = End(file) + 1 - b
             /\ \A c \in 1..(End(file) + 1 - b) : d[c] = file[b + c]
    BY <2>1
  <2> HIDE DEF d
  <2>3. Len(d) \in 1..(End(file) + 1 - b) /\ b + Len(d) = End(file) + 1
    <3>1. Len(file) \in Nat
      BY <2>0, LenProperties DEF IsText
    <3>2. End(file) \in Nat /\ b \in Nat /\ b < End(file)
      BY <2>1, <3>1
    <3> QED BY <2>2, <3>2
  <2>4. d[Len(d)] = NewLine
    BY <2>1, <2>2, <2>3
  <2>5. IsText(d)
    BY <2>2, <2>4 DEF IsText, Char
  <2> QED BY <2>5 DEF d
<1> QED BY <1>1, <1>2

\* The lines of the log are few, or too many.
LEMMA FewOrMany ==
    ASSUME TypeOK
    PROVE  LineCount(TrimRight(file)) <= MaxLines \/ LineCount(TrimRight(file)) > MaxLines
<1>1. Breaks(TrimRight(file)) \subseteq 1..End(file) /\ End(file) \in Nat
  BY Trimmed, LenProperties DEF Breaks, TypeOK
<1>2. Cardinality(Breaks(TrimRight(file))) \in Nat
  <2>1. IsFiniteSet(1..End(file))
    BY <1>1, FS_Interval
  <2> QED BY <1>1, <2>1, FS_Subset, FS_CardinalityType
<1> QED BY <1>2, LogAssumption DEF LineCount

\* Before the first line there is room for all.
LEMMA LogTypeInit == ASSUME Init PROVE LogTypeInv
<1>1. IsText(<<>>) /\ <<>> \in Seq(Char)
  BY EmptySeq DEF IsText
<1>2. Appending = {}
  BY DEF Init, Appending
<1>3. TypeOK
  BY <1>1, LogAssumption DEF Init, TypeOK
<1>4. logged + Cardinality(Appending) <= MaxCalls
  BY <1>2, FS_EmptySet, LogAssumption DEF Init
<1>5. data \in [Proc -> Seq(Char)]
  BY <1>1 DEF Init
<1> QED BY <1>3, <1>4, <1>5 DEF LogTypeInv

\* A process that is to append goes up and down in number by one.
LEMMA AppendingCount ==
    ASSUME LogTypeInv, NEW p \in Proc, NEW x, pc' = [pc EXCEPT ![p] = x]
    PROVE  /\ Cardinality(Appending) \in Nat /\ Cardinality(Appending') \in Nat
           /\ x # "append" => Cardinality(Appending') <= Cardinality(Appending)
           /\ pc[p] = "append" /\ x # "append" => Cardinality(Appending') = Cardinality(Appending) - 1
           /\ Cardinality(Appending') <= Cardinality(Appending) + 1
<1>1. IsFiniteSet(Appending)
  BY LogAssumption, FS_Subset DEF Appending
<1>2. pc \in [Proc -> {"idle", "append", "read", "truncate", "write"}]
  BY DEF LogTypeInv, TypeOK
<1>3. CASE x = "append"
  <2>1. Appending' = Appending \cup {p}
    BY <1>2, <1>3 DEF Appending
  <2>2. /\ Cardinality(Appending) \in Nat
        /\ Cardinality(Appending \cup {p}) \in {Cardinality(Appending), Cardinality(Appending) + 1}
    BY <1>1, FS_AddElement, FS_CardinalityType
  <2> QED BY <1>3, <2>1, <2>2
<1>4. CASE x # "append"
  <2>1. Appending' = Appending \ {p} /\ (pc[p] = "append" <=> p \in Appending)
    BY <1>2, <1>4 DEF Appending
  <2>2. IsFiniteSet(Appending \ {p}) /\ Cardinality(Appending) \in Nat
        /\ Cardinality(Appending \ {p}) =
              IF p \in Appending THEN Cardinality(Appending) - 1 ELSE Cardinality(Appending)
    BY <1>1, FS_RemoveElement, FS_CardinalityType
  <2>3. Cardinality(Appending \ {p}) \in Nat
    BY <2>2, FS_CardinalityType
  <2> QED BY <1>4, <2>1, <2>2, <2>3
<1> QED BY <1>3, <1>4

\* Every step of every process, and every death, keeps the types.
LEMMA LogTypeStep == ASSUME LogTypeInv, [Next]_vars PROVE LogTypeInv'
<1> USE DEF LogTypeInv
<1>0. /\ Cardinality(Appending) \in Nat /\ logged \in Nat /\ MaxCalls \in Nat
      /\ IsText(<<>>) /\ <<>> \in Seq(Char)
  <2>1. IsFiniteSet(Appending)
    BY LogAssumption, FS_Subset DEF Appending
  <2> QED BY <2>1, FS_CardinalityType, LogAssumption, EmptySeq DEF TypeOK, IsText
<1>1. CASE UNCHANGED vars
  BY <1>1 DEF vars, TypeOK, Appending
<1>2. ASSUME NEW p \in Proc, Call(p) PROVE LogTypeInv'
  <2>1. pc' = [pc EXCEPT ![p] = "append"] /\ logged' = logged
        /\ logged + Cardinality(Appending) < MaxCalls
    BY <1>2 DEF Call, Goto, Appending
  <2>2. Cardinality(Appending') \in Nat /\ Cardinality(Appending') <= Cardinality(Appending) + 1
    BY <2>1, AppendingCount
  <2>3. logged' + Cardinality(Appending') <= MaxCalls
    BY <1>0, <2>1, <2>2
  <2>4. TypeOK'
    BY <1>2 DEF Call, Goto, TypeOK
  <2> QED BY <1>2, <2>3, <2>4 DEF Call
<1>3. ASSUME NEW p \in Proc, AppendLine(p) PROVE LogTypeInv'
  <2>1. pc[p] = "append" /\ pc' = [pc EXCEPT ![p] = "read"] /\ logged' = logged + 1
    BY <1>3 DEF AppendLine, Goto
  <2>2. Cardinality(Appending') \in Nat /\ Cardinality(Appending') = Cardinality(Appending) - 1
    BY <2>1, AppendingCount, "read" # "append"
  <2>3. logged' + Cardinality(Appending') <= MaxCalls /\ logged + 1 \in Line
    BY <1>0, <2>1, <2>2 DEF Line
  <2>4. IsText(Text(logged + 1)) /\ IsText(file)
    BY <2>3, LinesAreTexts DEF TypeOK
  <2>5. IsText(file')
    BY <1>3, <2>4, JoinedTexts DEF AppendLine
  <2>6. pc' \in [Proc -> {"idle", "append", "read", "truncate", "write"}]
        /\ own' \in [Proc -> Line \cup {None}] /\ logged' \in 0..MaxCalls
    BY <1>0, <1>3, <2>1, <2>3 DEF AppendLine, TypeOK, Line
  <2>7. exposed' \in SUBSET Line
    BY <1>3, <2>3 DEF AppendLine, TypeOK
  <2>8. TypeOK'
    BY <1>3, <2>5, <2>6, <2>7 DEF AppendLine, TypeOK
  <2> QED BY <1>3, <2>3, <2>8 DEF AppendLine
<1>4. ASSUME NEW p \in Proc, NEW x \in {"idle", "truncate", "write"}, pc' = [pc EXCEPT ![p] = x],
             logged' = logged, IsText(file'), NEW d, IsText(d),
             data' \in {data, [data EXCEPT ![p] = d]},
             exposed' \in {exposed, 1..logged}, alone' \in SUBSET Proc,
             crashes' \in 0..MaxCrashes, UNCHANGED <<width, own>>
      PROVE  LogTypeInv'
  <2>1. Cardinality(Appending') \in Nat /\ Cardinality(Appending') <= Cardinality(Appending)
    BY <1>4, AppendingCount
  <2>2. logged' + Cardinality(Appending') <= MaxCalls
    BY <1>0, <1>4, <2>1
  <2>3. 1..logged \subseteq Line
    BY <1>0 DEF TypeOK, Line
  <2>4. data' \in [Proc -> Seq(Char)] /\ \A q \in Proc : IsText(data'[q])
    <3>1. d \in Seq(Char)
      BY <1>4 DEF IsText, Char
    <3> QED BY <1>4, <3>1 DEF TypeOK
  <2>5. TypeOK'
    BY <1>4, <2>3, <2>4 DEF TypeOK
  <2> QED BY <2>2, <2>4, <2>5
<1>5. ASSUME NEW p \in Proc, ReadLog(p) PROVE LogTypeInv'
  <2> DEFINE d == LastLines(TrimRight(file), MaxLines)
  <2>1. CASE LineCount(TrimRight(file)) <= MaxLines
    BY <1>0, <1>4, <1>5, <2>1 DEF ReadLog, Goto, TypeOK
  <2>2. CASE ~ (LineCount(TrimRight(file)) <= MaxLines)
    <3>1. LineCount(TrimRight(file)) > MaxLines
      BY <2>2, FewOrMany
    <3>2. IsText(d)
      BY <3>1, LinesAreTexts
    <3> HIDE DEF d
    <3>3. /\ pc' = [pc EXCEPT ![p] = "truncate"] /\ data' = [data EXCEPT ![p] = d]
          /\ exposed' \in {exposed, 1..logged}
          /\ UNCHANGED <<file, width, logged, own, crashes, alone>>
      BY <1>5, <2>2 DEF ReadLog, Goto, d
    <3> QED BY <1>4, <3>2, <3>3 DEF TypeOK
  <2> QED BY <2>1, <2>2
<1>6. ASSUME NEW p \in Proc, Truncate(p) PROVE LogTypeInv'
  BY <1>0, <1>4, <1>6 DEF Truncate, Goto, TypeOK
<1>7. ASSUME NEW p \in Proc, WriteBack(p) PROVE LogTypeInv'
  <2>1. IsText(data[p]) /\ IsText(file) /\ Len(data[p]) \in Nat
    BY LenProperties DEF TypeOK, IsText
  <2>2. IsText(SubSeq(file, Len(data[p]) + 1, Len(file)))
    BY <2>1, Remainder
  <2>3. IsText(file')
    BY <1>7, <2>1, <2>2, JoinedTexts DEF WriteBack
  <2> QED BY <1>0, <1>4, <1>7, <2>3 DEF WriteBack, Goto, TypeOK
<1>8. ASSUME NEW p \in Proc, Crash(p) PROVE LogTypeInv'
  <2>1. crashes' \in 0..MaxCrashes
    BY <1>8, LogAssumption DEF Crash, TypeOK
  <2> QED BY <1>0, <1>4, <1>8, <2>1 DEF Crash, TypeOK
<1> QED BY <1>1, <1>2, <1>3, <1>5, <1>6, <1>7, <1>8 DEF Next, Log

\* Types are kept for good.
LEMMA LogTypeAlways == Spec => []LogTypeInv
BY LogTypeInit, LogTypeStep, PTL DEF Spec

\* Every variable has its type: what is appended, cut and written back by any
\* number of processes leaves a text, which ends its last line.  (Log, trim.)
THEOREM LogTypeCorrect == Spec => []TypeOK
<1>1. LogTypeInv => TypeOK
  BY DEF LogTypeInv
<1> QED BY <1>1, LogTypeAlways, PTL

(***************************************************************************)
(* Recent lines.                                                           *)
(***************************************************************************)

\* Line i stands in a text from place n on, as a line of its own.
StandsAt(t, i, n) ==
    /\ n \in Nat \ {0} /\ n + width[i] <= Len(t)
    /\ n = 1 \/ t[n - 1] = NewLine
    /\ \A k \in n..(n + width[i] - 1) : t[k] = i
    /\ t[n + width[i]] = NewLine

\* The line ends of a text behind place m.
After(t, m) == {c \in Breaks(t) : c > m}

\* Line i stands in a text with at most k lines behind it.
Keeps(t, i, k) ==
    \E n \in 1..Len(t) :
        StandsAt(t, i, n) /\ Cardinality(After(t, n + width[i])) <= k

Recent == {i \in 1..logged : i > logged - MaxLines /\ i \notin exposed}

Writing == {p \in Proc : pc[p] = "write"}

\* Two trims that overlap expose all lines; while they do not, a recent line
\* stands in the log or in what the one trim is to write, and between its
\* truncation and its write no more lines come behind it than were logged.
RecentInv ==
    /\ \A p, q \in Trimming : p = q \/ Recent = {}
    /\ \A i \in Recent :
         /\ Writing = {} => Keeps(file, i, logged - i)
         /\ \A p \in Proc :
              /\ pc[p] = "truncate" => Keeps(data[p], i, logged - i)
              /\ pc[p] = "write" =>
                   Keeps(data[p], i, logged - i - Cardinality(Breaks(file)))

\* A finite set of integers shifted by s into another is no larger.
LEMMA Shifted ==
    ASSUME NEW X \in SUBSET Int, NEW Y, IsFiniteSet(Y), NEW s \in Int,
           \A c \in X : c + s \in Y
    PROVE  IsFiniteSet(X) /\ Cardinality(X) <= Cardinality(Y)
<1> DEFINE f == [c \in X |-> c + s]
<1>1. f \in [X -> Y]
  OBVIOUS
<1>2. \A c, d \in X : f[c] = f[d] => c = d
  <2> TAKE c, d \in X
  <2>1. c \in Int /\ d \in Int /\ f[c] = c + s /\ f[d] = d + s
    OBVIOUS
  <2> HIDE DEF f
  <2> QED BY <2>1
<1>3. f \in Injection(X, Y)
  <2> HIDE DEF f
  <2> QED BY <1>1, <1>2 DEF Injection, IsInjective
<1> QED BY <1>3, FS_Injection

\* The line ends of a text are finitely many.
LEMMA BreaksFinite ==
    ASSUME NEW t, IsText(t)
    PROVE  /\ Breaks(t) \subseteq 1..Len(t) /\ Len(t) \in Nat
           /\ IsFiniteSet(Breaks(t)) /\ Cardinality(Breaks(t)) \in Nat
           /\ \A m \in Int : IsFiniteSet(After(t, m)) /\ Cardinality(After(t, m)) \in Nat
<1>1. Len(t) \in Nat /\ DOMAIN t = 1..Len(t)
  BY LenProperties DEF IsText
<1>2. Breaks(t) \subseteq 1..Len(t) /\ IsFiniteSet(1..Len(t))
  BY <1>1, FS_Interval DEF Breaks
<1>3. IsFiniteSet(Breaks(t)) /\ Cardinality(Breaks(t)) \in Nat
  BY <1>2, FS_Subset, FS_CardinalityType
<1>4. \A m \in Int : After(t, m) \in SUBSET Breaks(t)
  BY DEF After
<1> QED BY <1>1, <1>2, <1>3, <1>4, FS_Subset, FS_CardinalityType

\* A text appended adds its line ends behind whatever stood there.
LEMMA LineEndsAdded ==
    ASSUME NEW t, IsText(t), NEW u, IsText(u), NEW m \in 0..Len(t)
    PROVE  Cardinality(After(t \o u, m)) <= Cardinality(After(t, m)) + Cardinality(Breaks(u))
<1> DEFINE X == {c \in After(t \o u, m) : c > Len(t)}
           Y == After(t \o u, m) \ X
<1>1. /\ Len(t) \in Nat /\ Len(u) \in Nat /\ DOMAIN t = 1..Len(t) /\ DOMAIN u = 1..Len(u)
      /\ IsText(t \o u) /\ Len(t \o u) = Len(t) + Len(u)
      /\ DOMAIN (t \o u) = 1..(Len(t) + Len(u))
      /\ \A k \in 1..Len(t) : (t \o u)[k] = t[k]
      /\ \A k \in 1..Len(u) : (t \o u)[Len(t) + k] = u[k]
  BY JoinedTexts, LenProperties DEF IsText
<1>2. /\ IsFiniteSet(After(t, m)) /\ Cardinality(After(t, m)) \in Nat
      /\ IsFiniteSet(Breaks(u)) /\ Cardinality(Breaks(u)) \in Nat
      /\ IsFiniteSet(After(t \o u, m))
  BY <1>1, BreaksFinite
<1>3. IsFiniteSet(X) /\ Cardinality(X) <= Cardinality(Breaks(u)) /\ Cardinality(X) \in Nat
  <2>1. X \in SUBSET Int /\ - Len(t) \in Int
    BY <1>1 DEF After, Breaks
  <2>2. \A c \in X : c + (- Len(t)) \in Breaks(u)
    <3> SUFFICES ASSUME NEW c \in X PROVE c + (- Len(t)) \in Breaks(u)
      OBVIOUS
    <3> DEFINE k == c - Len(t)
    <3>1. k \in 1..Len(u) /\ Len(t) + k = c /\ (t \o u)[c] = NewLine
      BY <1>1 DEF After, Breaks
    <3>2. u[k] = NewLine
      BY <1>1, <3>1
    <3>3. k \in Breaks(u) /\ c + (- Len(t)) = k
      BY <1>1, <3>1, <3>2 DEF Breaks
    <3> QED BY <3>3
  <2> HIDE DEF X
  <2> QED BY <1>2, <2>1, <2>2, Shifted, FS_CardinalityType
<1>4. IsFiniteSet(Y) /\ Cardinality(Y) <= Cardinality(After(t, m)) /\ Cardinality(Y) \in Nat
  <2>1. Y \in SUBSET After(t, m)
    BY <1>1 DEF After, Breaks
  <2> HIDE DEF Y
  <2> QED BY <1>2, <2>1, FS_Subset, FS_CardinalityType
<1>5. After(t \o u, m) = Y \cup X /\ Y \cap X = {}
  OBVIOUS
<1> HIDE DEF X, Y
<1>6. Cardinality(Y \cup X) = Cardinality(Y) + Cardinality(X) - Cardinality({})
  BY <1>3, <1>4, <1>5, FS_Union
<1> QED BY <1>2, <1>3, <1>4, <1>5, <1>6, FS_EmptySet

\* All line ends of a text come behind its start.
LEMMA AllAfterStart == ASSUME NEW t, IsText(t) PROVE After(t, 0) = Breaks(t)
BY BreaksFinite DEF After

\* What is left of a text has no more line ends than the text.
LEMMA RemainderBreaks ==
    ASSUME NEW t, IsText(t), NEW m \in Nat
    PROVE  LET u == SubSeq(t, m + 1, Len(t)) IN
           IsText(u) /\ Cardinality(Breaks(u)) <= Cardinality(Breaks(t))
<1> DEFINE u == SubSeq(t, m + 1, Len(t))
<1>1. /\ IsText(u) /\ Len(u) = IF m <= Len(t) THEN Len(t) - m ELSE 0
      /\ \A k \in 1..Len(u) : u[k] = t[m + k]
  BY Remainder
<1> HIDE DEF u
<1>2. /\ Len(t) \in Nat /\ DOMAIN t = 1..Len(t) /\ DOMAIN u = 1..Len(u)
      /\ Len(u) \in Nat /\ IsFiniteSet(Breaks(t)) /\ Breaks(u) \in SUBSET Int
  <2>1. Len(t) \in Nat /\ DOMAIN t = 1..Len(t) /\ IsFiniteSet(Breaks(t))
    BY LenProperties, BreaksFinite DEF IsText
  <2>2. Len(u) \in Nat /\ DOMAIN u = 1..Len(u) /\ Breaks(u) \subseteq 1..Len(u)
    BY <1>1, LenProperties, BreaksFinite DEF IsText
  <2>3. Breaks(u) \in SUBSET Int
    BY <2>2
  <2> QED BY <2>1, <2>2, <2>3
<1>3. \A c \in Breaks(u) : c + m \in Breaks(t)
  <2> SUFFICES ASSUME NEW c \in Breaks(u) PROVE c + m \in Breaks(t)
    OBVIOUS
  <2>1. c \in 1..Len(u) /\ u[c] = NewLine /\ c + m = m + c
    BY <1>2 DEF Breaks
  <2>2. Len(u) = Len(t) - m
    <3>1. Len(u) # 0
      BY <1>2, <2>1
    <3>2. CASE m <= Len(t)
      BY <1>1, <3>2
    <3>3. CASE ~ (m <= Len(t))
      BY <1>1, <3>1, <3>3
    <3> QED BY <3>2, <3>3
  <2>3. m + c \in 1..Len(t)
    BY <1>2, <2>1, <2>2
  <2>4. t[m + c] = NewLine
    BY <1>1, <2>1
  <2> QED BY <1>2, <2>1, <2>3, <2>4 DEF Breaks
<1>4. Cardinality(Breaks(u)) <= Cardinality(Breaks(t))
  <2>1. m \in Int
    OBVIOUS
  <2> DEFINE X == Breaks(u)
             Y == Breaks(t)
  <2>2. X \in SUBSET Int /\ IsFiniteSet(Y) /\ \A c \in X : c + m \in Y
    BY <1>2, <1>3
  <2> HIDE DEF X, Y
  <2>3. Cardinality(X) <= Cardinality(Y)
    BY <2>1, <2>2, Shifted
  <2> QED BY <2>3 DEF X, Y
<1> QED BY <1>1, <1>4 DEF u

\* A line that stands in a text still stands in it with another behind.
LEMMA KeepsJoined ==
    ASSUME TypeOK, NEW t, IsText(t), NEW u, IsText(u), NEW i \in Line, NEW k \in Int,
           Keeps(t, i, k)
    PROVE  Keeps(t \o u, i, k + Cardinality(Breaks(u)))
<1>1. PICK n \in 1..Len(t) : StandsAt(t, i, n) /\ Cardinality(After(t, n + width[i])) <= k
  BY DEF Keeps
<1> DEFINE m == n + width[i]
<1>2. /\ Len(t) \in Nat /\ Len(u) \in Nat /\ Len(t \o u) = Len(t) + Len(u)
      /\ \A c \in 1..Len(t) : (t \o u)[c] = t[c]
  BY JoinedTexts, LenProperties DEF IsText
<1>3. width[i] \in Nat \ {0} /\ n \in Nat \ {0} /\ m \in 1..Len(t)
  BY <1>1, <1>2, TextOfLine DEF StandsAt
<1>4. StandsAt(t \o u, i, n)
  <2>1. n + width[i] <= Len(t \o u)
    BY <1>2, <1>3
  <2>2. n = 1 \/ (t \o u)[n - 1] = NewLine
    <3>1. n # 1 => n - 1 \in 1..Len(t)
      BY <1>2, <1>3
    <3> QED BY <1>1, <1>2, <3>1 DEF StandsAt
  <2>3. \A c \in n..(n + width[i] - 1) : (t \o u)[c] = i
    <3>1. \A c \in n..(n + width[i] - 1) : c \in 1..Len(t)
      BY <1>2, <1>3
    <3> QED BY <1>1, <1>2, <3>1 DEF StandsAt
  <2>4. (t \o u)[n + width[i]] = NewLine
    BY <1>1, <1>2, <1>3 DEF StandsAt
  <2> QED BY <1>3, <2>1, <2>2, <2>3, <2>4 DEF StandsAt
<1>5. Cardinality(After(t \o u, m)) <= k + Cardinality(Breaks(u))
  <2>1. Cardinality(After(t \o u, m)) <= Cardinality(After(t, m)) + Cardinality(Breaks(u))
    BY <1>2, <1>3, LineEndsAdded
  <2>2. m \in Int /\ IsText(t \o u)
    BY <1>3, JoinedTexts
  <2> HIDE DEF m
  <2>3. Cardinality(After(t, m)) \in Nat /\ Cardinality(Breaks(u)) \in Nat
    BY <2>2, BreaksFinite
  <2>4. Cardinality(After(t \o u, m)) \in Nat
    BY <2>2, BreaksFinite
  <2>5. Cardinality(After(t, m)) <= k
    BY <1>1 DEF m
  <2> QED BY <2>1, <2>3, <2>4, <2>5
<1>6. n \in 1..Len(t \o u)
  BY <1>2, <1>3
<1> QED BY <1>4, <1>5, <1>6 DEF Keeps

\* More lines may stand behind.
LEMMA KeepsMore ==
    ASSUME TypeOK, NEW t, IsText(t), NEW i \in Line, NEW k \in Int, NEW l \in Int, k <= l,
           Keeps(t, i, k)
    PROVE  Keeps(t, i, l)
<1>1. PICK n \in 1..Len(t) : StandsAt(t, i, n) /\ Cardinality(After(t, n + width[i])) <= k
  BY DEF Keeps
<1>2. Cardinality(After(t, n + width[i])) \in Nat
  <2>1. n + width[i] \in Int
    BY TextOfLine, LenProperties DEF IsText
  <2> QED BY <2>1, BreaksFinite
<1>3. Cardinality(After(t, n + width[i])) <= l
  BY <1>1, <1>2
<1> QED BY <1>1, <1>3 DEF Keeps

\* A line that is appended has one line end, and stands last.
LEMMA Appended ==
    ASSUME TypeOK, NEW t, IsText(t), NEW i \in Line
    PROVE  /\ Cardinality(Breaks(Text(i))) = 1
           /\ IsText(Text(i)) /\ IsText(t \o Text(i))
           /\ Keeps(t \o Text(i), i, 0)
<1> DEFINE w == width[i]
           u == Text(i)
           s == t \o u
           n == Len(t) + 1
<1>1. /\ w \in Nat \ {0} /\ Len(u) = w + 1 /\ u \in Seq(Char) /\ IsText(u)
      /\ \A c \in 1..w : u[c] = i
      /\ u[w + 1] = NewLine
  BY TextOfLine, LinesAreTexts
<1> HIDE DEF u
<1>2. i # NewLine
  BY DEF Line, NewLine
<1>3. Breaks(u) = {w + 1}
  <2>1. DOMAIN u = 1..(w + 1)
    BY <1>1, LenProperties
  <2>2. \A c \in 1..(w + 1) : c \in 1..w \/ c = w + 1
    BY <1>1
  <2> QED BY <1>1, <1>2, <2>1, <2>2 DEF Breaks
<1>4. Cardinality(Breaks(u)) = 1
  BY <1>3, FS_Singleton
<1>5. /\ Len(t) \in Nat /\ IsText(s) /\ Len(s) = Len(t) + (w + 1)
      /\ \A c \in 1..Len(t) : s[c] = t[c]
      /\ \A c \in 1..(w + 1) : s[Len(t) + c] = u[c]
  <2>1. Len(t) \in Nat
    BY LenProperties DEF IsText
  <2>2. /\ IsText(s) /\ Len(s) = Len(t) + Len(u)
        /\ \A c \in 1..Len(t) : s[c] = t[c]
        /\ \A c \in 1..Len(u) : s[Len(t) + c] = u[c]
    <3>1. IsText(u)
      BY <1>1
    <3> QED BY <3>1, JoinedTexts
  <2> HIDE DEF s
  <2> QED BY <1>1, <2>1, <2>2
<1> HIDE DEF s
<1>6. StandsAt(s, i, n)
  <2>1. n \in Nat \ {0} /\ n + w <= Len(s)
    BY <1>1, <1>5
  <2>2. n = 1 \/ s[n - 1] = NewLine
    <3>1. CASE Len(t) = 0
      BY <3>1
    <3>2. CASE Len(t) # 0
      <4>1. t[Len(t)] = NewLine
        BY <3>2, EmptySeq DEF IsText
      <4>2. n - 1 = Len(t) /\ Len(t) \in 1..Len(t)
        BY <1>5, <3>2
      <4> QED BY <1>5, <4>1, <4>2
    <3> QED BY <3>1, <3>2
  <2>3. ASSUME NEW c \in n..(n + w - 1) PROVE s[c] = i
    <3>1. c - Len(t) \in 1..w /\ Len(t) + (c - Len(t)) = c /\ c - Len(t) \in 1..(w + 1)
      BY <1>1, <1>5
    <3> QED BY <1>1, <1>5, <3>1
  <2>4. s[n + w] = NewLine
    <3>1. n + w = Len(t) + (w + 1) /\ w + 1 \in 1..(w + 1)
      BY <1>1, <1>5
    <3> QED BY <1>1, <1>5, <3>1
  <2> QED BY <2>1, <2>2, <2>3, <2>4 DEF StandsAt
<1>7. After(s, n + w) = {}
  <2>1. Breaks(s) \subseteq 1..Len(s)
    BY <1>5, BreaksFinite
  <2> QED BY <1>1, <1>5, <2>1 DEF After
<1>8. n \in 1..Len(s)
  BY <1>1, <1>5
<1>9. Keeps(s, i, 0)
  BY <1>6, <1>7, <1>8, FS_EmptySet DEF Keeps
<1> QED BY <1>1, <1>4, <1>5, <1>9 DEF s, u

\* A line that stands in the log is intact.
LEMMA StandingIsIntact ==
    ASSUME TypeOK, NEW i \in Line, NEW k, Keeps(file, i, k)
    PROVE  Intact(i)
<1>1. PICK n \in 1..Len(file) : StandsAt(file, i, n)
  BY DEF Keeps
<1> DEFINE w == width[i]
           u == SubSeq(file, n, n + w)
<1>2. /\ w \in Nat \ {0} /\ Text(i) \in Seq(Char) /\ Len(Text(i)) = w + 1
      /\ \A c \in 1..w : Text(i)[c] = i
      /\ Text(i)[w + 1] = NewLine
  BY TextOfLine
<1>3. file \in Seq(Char) /\ Len(file) \in Nat /\ DOMAIN file = 1..Len(file)
  BY LenProperties DEF TypeOK, IsText, Char
<1>4. n \in Int /\ n + w \in Int /\ n <= n + w /\ \A c \in n..(n + w) : c \in 1..Len(file)
  BY <1>1, <1>2, <1>3 DEF StandsAt
<1>5. \A c \in n..(n + w) : file[c] \in Char
  BY <1>3, <1>4, ElementOfSeq
<1>6. /\ u \in Seq(Char) /\ Len(u) = (n + w) - n + 1
      /\ \A c \in 1..((n + w) - n + 1) : u[c] = file[n + c - 1]
  BY <1>4, <1>5, SubSeqProperties
<1> HIDE DEF u
<1>7. Len(u) = w + 1 /\ \A c \in 1..(w + 1) : u[c] = file[n + c - 1]
  <2>1. (n + w) - n + 1 = w + 1
    BY <1>2, <1>4
  <2> QED BY <1>6, <2>1
<1>8. ASSUME NEW c \in 1..(w + 1) PROVE u[c] = Text(i)[c]
  <2>1. CASE c = w + 1
    <3>1. n + c - 1 = n + w
      BY <1>2, <1>4, <2>1
    <3> QED BY <1>1, <1>2, <1>7, <2>1, <3>1 DEF StandsAt
  <2>2. CASE c # w + 1
    <3>1. c \in 1..w /\ n + c - 1 \in n..(n + w - 1)
      BY <1>2, <1>4, <2>2
    <3> QED BY <1>1, <1>2, <1>7, <3>1 DEF StandsAt
  <2> QED BY <2>1, <2>2
<1>9. u = Text(i)
  BY <1>2, <1>6, <1>7, <1>8, SeqEqual
<1> QED BY <1>1, <1>3, <1>9 DEF Intact, StandsAt, u

(* A line with fewer than MaxLines lines behind it stands in what trim     *)
(* keeps: it begins after the place of the cut, for the cut has MaxLines   *)
(* line ends behind it, counting the one where it was made and not the one *)
(* at the end.                                                             *)
LEMMA CutKeeps ==
    ASSUME TypeOK, LineCount(TrimRight(file)) > MaxLines,
           NEW i \in Line, NEW k \in Int, k < MaxLines, Keeps(file, i, k)
    PROVE  Keeps(LastLines(TrimRight(file), MaxLines), i, k)
<1> DEFINE d == LastLines(TrimRight(file), MaxLines)
           e == End(file)
           w == width[i]
<1>1. IsText(file) /\ IsText(d)
  BY LinesAreTexts DEF TypeOK
<1>2. PICK n \in 1..Len(file) : StandsAt(file, i, n) /\ Cardinality(After(file, n + w)) <= k
  BY DEF Keeps
<1>3. /\ e \in 1..(Len(file) - 1) /\ file[e + 1] = NewLine
      /\ \E b \in 1..(e - 1) :
            /\ file[b] = NewLine
            /\ Cardinality({c \in Breaks(file) : b <= c /\ c <= e}) = MaxLines
            /\ Len(d) = e + 1 - b
            /\ \A c \in 1..(e + 1 - b) : d[c] = file[b + c]
  BY <1>1, CutText
<1>4. \A c \in (e + 1)..Len(file) : file[c] = NewLine
  BY <1>1, Trimmed
<1> HIDE DEF d, e
<1>5. PICK b \in 1..(e - 1) :
            /\ file[b] = NewLine
            /\ Cardinality({c \in Breaks(file) : b <= c /\ c <= e}) = MaxLines
            /\ Len(d) = e + 1 - b
            /\ \A c \in 1..(e + 1 - b) : d[c] = file[b + c]
  BY <1>3
<1> DEFINE m == n + w
           Behind == {c \in Breaks(file) : b <= c /\ c <= e}
<1>6. /\ Len(file) \in Nat /\ DOMAIN file = 1..Len(file) /\ w \in Nat \ {0}
      /\ MaxLines \in Nat \ {0} /\ n \in Nat \ {0}
      /\ b \in Nat \ {0} /\ e \in Nat /\ b < e /\ e < Len(file)
  <2>1. Len(file) \in Nat /\ DOMAIN file = 1..Len(file)
    BY <1>1, LenProperties DEF IsText
  <2>2. w \in Nat \ {0} /\ MaxLines \in Nat \ {0}
    BY TextOfLine, LogAssumption
  <2> QED BY <1>2, <1>3, <1>5, <2>1, <2>2
<1>7. /\ \A c \in n..(n + w - 1) : file[c] = i
      /\ n = 1 \/ file[n - 1] = NewLine
      /\ file[n + w] = NewLine /\ n + w <= Len(file)
  BY <1>2 DEF StandsAt
<1>8. i # NewLine
  BY DEF Line, NewLine
<1>9. IsFiniteSet(After(file, m)) /\ Cardinality(After(file, m)) \in Nat
  <2>1. m \in Int
    BY <1>6
  <2> HIDE DEF m
  <2> QED BY <1>1, <2>1, BreaksFinite
\* The line begins behind the cut.
<1>10. b < n
  <2> SUFFICES ASSUME n <= b PROVE FALSE
    BY <1>6
  <2>1. m <= b
    <3> SUFFICES ASSUME b < m PROVE FALSE
      BY <1>6
    <3>1. b \in n..(n + w - 1)
      BY <1>6
    <3> QED BY <1>5, <1>7, <1>8, <3>1
  <2> DEFINE Rest == Behind \ {b}
             Moved == Rest \cup {e + 1}
  <2>2. Behind \subseteq 1..Len(file) /\ IsFiniteSet(Behind)
    <3>1. Behind \subseteq Breaks(file) /\ IsFiniteSet(Breaks(file))
      BY <1>1, BreaksFinite
    <3>2. Breaks(file) \subseteq 1..Len(file)
      BY <1>1, BreaksFinite
    <3> QED BY <3>1, <3>2, FS_Subset
  <2>3. b \in Behind
    BY <1>5, <1>6 DEF Breaks
  <2>4. e + 1 \notin Rest
    BY <1>6
  <2>5. Moved \in SUBSET After(file, m)
    <3>1. e + 1 \in After(file, m)
      BY <1>3, <1>6, <2>1 DEF After, Breaks
    <3>2. ASSUME NEW c \in Rest PROVE c \in After(file, m)
      <4>1. c \in Breaks(file) /\ b <= c /\ c # b /\ c \in Nat
        BY <2>2
      <4>2. m < c
        BY <1>6, <2>1, <4>1
      <4> QED BY <4>1, <4>2 DEF After
    <3> QED BY <3>1, <3>2
  <2>6. Cardinality(Behind) = MaxLines
    BY <1>5
  <2> HIDE DEF Behind
  <2>7. IsFiniteSet(Rest) /\ Cardinality(Rest) = MaxLines - 1
    BY <2>2, <2>3, <2>6, FS_RemoveElement
  <2> HIDE DEF Rest
  <2>8. Cardinality(Moved) = MaxLines
    <3>1. Cardinality(Moved) = Cardinality(Rest) + 1
      BY <2>4, <2>7, FS_AddElement
    <3> QED BY <1>6, <2>7, <3>1
  <2> HIDE DEF Moved, m
  <2>9. MaxLines <= Cardinality(After(file, m))
    BY <1>9, <2>5, <2>8, FS_Subset
  <2> QED BY <1>2, <1>6, <1>9, <2>9 DEF m
\* It ends before the end.
<1>11. m <= e + 1
  <2> SUFFICES ASSUME e + 1 < m PROVE FALSE
    BY <1>6
  <2>1. m - 1 \in (e + 1)..Len(file) /\ m - 1 \in n..(n + w - 1)
    BY <1>6, <1>7
  <2> QED BY <1>4, <1>7, <1>8, <2>1
<1>12. StandsAt(d, i, n - b)
  <2>1. n - b \in Nat \ {0} /\ (n - b) + w <= Len(d)
    BY <1>5, <1>6, <1>10, <1>11
  <2>2. n - b = 1 \/ d[(n - b) - 1] = NewLine
    <3> SUFFICES ASSUME n - b # 1 PROVE d[(n - b) - 1] = NewLine
      OBVIOUS
    <3>1. (n - b) - 1 \in 1..(e + 1 - b) /\ b + ((n - b) - 1) = n - 1 /\ n # 1
      BY <1>6, <1>10, <1>11
    <3> QED BY <1>5, <1>7, <3>1
  <2>3. ASSUME NEW c \in (n - b)..((n - b) + w - 1) PROVE d[c] = i
    <3>1. c \in 1..(e + 1 - b) /\ b + c \in n..(n + w - 1)
      BY <1>6, <1>10, <1>11
    <3> QED BY <1>5, <1>7, <3>1
  <2>4. d[(n - b) + w] = NewLine
    <3>1. (n - b) + w \in 1..(e + 1 - b) /\ b + ((n - b) + w) = n + w
      BY <1>6, <1>10, <1>11
    <3> QED BY <1>5, <1>7, <3>1
  <2> QED BY <2>1, <2>2, <2>3, <2>4 DEF StandsAt
<1>13. Cardinality(After(d, (n - b) + w)) <= k
  <2> DEFINE X == After(d, (n - b) + w)
             Y == After(file, m)
  <2>1. DOMAIN d = 1..(e + 1 - b)
    BY <1>1, <1>5, LenProperties DEF IsText
  <2>2. X \in SUBSET Int /\ b \in Int
    BY <1>6, <2>1 DEF After, Breaks
  <2>3. ASSUME NEW c \in X PROVE c + b \in Y
    <3>1. c \in 1..(e + 1 - b) /\ d[c] = NewLine /\ c > (n - b) + w
      BY <2>1 DEF After, Breaks
    <3>2. b + c = c + b /\ c + b \in 1..Len(file) /\ c + b > m
      BY <1>6, <3>1
    <3>3. file[c + b] = NewLine
      BY <1>5, <3>1, <3>2
    <3> QED BY <1>6, <3>2, <3>3 DEF After, Breaks
  <2>4. IsFiniteSet(Y) /\ Cardinality(Y) <= k /\ Cardinality(Y) \in Nat
    BY <1>2, <1>9
  <2> HIDE DEF X, Y
  <2>5. IsFiniteSet(X) /\ Cardinality(X) <= Cardinality(Y)
    BY <2>2, <2>3, <2>4, Shifted
  <2>6. Cardinality(X) \in Nat
    BY <2>5, FS_CardinalityType
  <2>7. Cardinality(X) <= k
    BY <2>4, <2>5, <2>6
  <2> QED BY <2>7 DEF X
<1>14. n - b \in 1..Len(d)
  BY <1>5, <1>6, <1>10, <1>11
<1>15. Keeps(d, i, k)
  BY <1>12, <1>13, <1>14 DEF Keeps
<1> QED BY <1>15 DEF d

\* No line is recent before the first is logged.
LEMMA RecentInit == ASSUME Init PROVE RecentInv
<1>1. Recent = {} /\ Trimming = {}
  BY DEF Init, Recent, Trimming
<1> QED BY <1>1 DEF RecentInv

(* What a step must keep of the recent lines: the same as RecentInv says,  *)
(* with the lengths of lines taken from the state before, where they are   *)
(* the same.                                                               *)
LEMMA RecentNext ==
    ASSUME UNCHANGED width,
           \A p, q \in Trimming' : p = q \/ Recent' = {},
           \A i \in Recent' :
             /\ Writing' = {} => Keeps(file', i, logged' - i)
             /\ \A p \in Proc :
                  /\ pc'[p] = "truncate" => Keeps(data'[p], i, logged' - i)
                  /\ pc'[p] = "write" =>
                       Keeps(data'[p], i, logged' - i - Cardinality(Breaks(file')))
    PROVE  RecentInv'
BY DEF RecentInv, Keeps, StandsAt

\* Every step of every process, and every death, keeps the recent lines.
LEMMA RecentStep ==
    ASSUME LogTypeInv, LogTypeInv', RecentInv, [Next]_vars
    PROVE  RecentInv'
<1> USE DEF LogTypeInv
<1>1. /\ pc \in [Proc -> {"idle", "append", "read", "truncate", "write"}]
      /\ logged \in Nat /\ logged \in 0..MaxCalls /\ MaxLines \in Nat \ {0}
      /\ IsText(file) /\ data \in [Proc -> Seq(Char)] /\ \A p \in Proc : IsText(data[p])
      /\ Cardinality(Breaks(file)) \in Nat
  <2>1. IsText(file) /\ Cardinality(Breaks(file)) \in Nat
    BY BreaksFinite DEF TypeOK
  <2> QED BY <2>1, LogAssumption DEF TypeOK
<1>2. Writing \subseteq Trimming
  BY DEF Writing, Trimming
<1>3. \A i \in Recent : i \in Line /\ i \in Int /\ logged - i \in Nat /\ logged - i < MaxLines
  <2>1. MaxCalls \in Nat
    BY LogAssumption
  <2>2. \A i \in Recent : i \in 1..logged /\ i > logged - MaxLines
    BY DEF Recent
  <2>3. \A i \in 1..logged : i \in Line /\ i \in Int /\ logged - i \in Nat
    BY <1>1, <2>1 DEF Line
  <2>4. \A i \in 1..logged : i > logged - MaxLines => logged - i < MaxLines
    BY <1>1
  <2> QED BY <2>2, <2>3, <2>4
<1>4. CASE UNCHANGED vars
  BY <1>4, RecentNext DEF vars, RecentInv, Recent, Trimming, Writing
\* A step that moves p to another place, or ends its trim, and no more.
<1>5. ASSUME NEW p \in Proc, NEW x \in {"idle", "append"}, pc[p] # "write",
             pc' = [pc EXCEPT ![p] = x],
             data' \in {data, [data EXCEPT ![p] = <<>>]},
             UNCHANGED <<file, width, logged, exposed>>
      PROVE  RecentInv'
  <2>1. Recent' = Recent /\ Writing' = Writing /\ Trimming' \subseteq Trimming
    BY <1>1, <1>5 DEF Recent, Writing, Trimming
  <2>2. \A q \in Proc : pc'[q] \in {"truncate", "write"} => pc'[q] = pc[q] /\ data'[q] = data[q]
    BY <1>1, <1>5
  <2> QED BY <1>5, <2>1, <2>2, RecentNext DEF RecentInv
<1>6. ASSUME NEW p \in Proc, Call(p) PROVE RecentInv'
  <2>1. pc[p] = "idle" /\ pc' = [pc EXCEPT ![p] = "append"]
        /\ UNCHANGED <<file, width, logged, exposed, data>>
    BY <1>6 DEF Call, Goto
  <2> QED BY <1>5, <2>1
<1>7. ASSUME NEW p \in Proc, AppendLine(p) PROVE RecentInv'
  <2> DEFINE new == logged + 1
             u == Text(new)
  <2>1. /\ pc[p] = "append" /\ pc' = [pc EXCEPT ![p] = "read"]
        /\ logged' = new /\ file' = file \o u
        /\ exposed' = IF Trimming # {} THEN exposed \cup {new} ELSE exposed
        /\ UNCHANGED <<width, data>>
    BY <1>7 DEF AppendLine, Goto
  <2>2. new \in Line /\ new \in Nat
    BY <1>1, <2>1 DEF TypeOK, Line
  <2>3. Trimming' = Trimming /\ Writing' = Writing
    BY <1>1, <2>1 DEF Trimming, Writing
  <2>4. \A i \in Recent' : i \in Recent \/ (i = new /\ Trimming = {})
    BY <1>1, <2>1 DEF Recent
  <2>5. /\ Cardinality(Breaks(u)) = 1 /\ IsText(u) /\ IsText(file \o u)
        /\ Keeps(file \o u, new, 0)
    BY <1>1, <2>2, Appended
  <2>6. /\ Cardinality(Breaks(file')) \in Nat
        /\ Cardinality(Breaks(file')) <= Cardinality(Breaks(file)) + 1
    <3>1. After(file \o u, 0) = Breaks(file \o u) /\ After(file, 0) = Breaks(file)
      BY <1>1, <2>5, AllAfterStart
    <3>2. 0 \in 0..Len(file)
      BY <1>1, BreaksFinite
    <3>3. Cardinality(After(file \o u, 0)) <= Cardinality(After(file, 0)) + Cardinality(Breaks(u))
      BY <1>1, <2>5, <3>2, LineEndsAdded
    <3>4. Cardinality(Breaks(file \o u)) \in Nat
      BY <2>5, BreaksFinite
    <3> QED BY <2>1, <2>5, <3>1, <3>3, <3>4
  <2> HIDE DEF u
  <2>7. ASSUME NEW i \in Recent'
        PROVE  /\ Writing' = {} => Keeps(file', i, logged' - i)
               /\ \A q \in Proc :
                    /\ pc'[q] = "truncate" => Keeps(data'[q], i, logged' - i)
                    /\ pc'[q] = "write" =>
                         Keeps(data'[q], i, logged' - i - Cardinality(Breaks(file')))
    <3>1. CASE i = new /\ Trimming = {}
      <4>1. logged' - i = 0
        BY <2>1, <2>2, <3>1
      <4>2. \A q \in Proc : pc'[q] \notin {"truncate", "write"}
        BY <2>3, <3>1 DEF Trimming
      <4> QED BY <2>1, <2>5, <3>1, <4>1, <4>2
    <3>2. CASE i \in Recent
      <4>1. i \in Line /\ i \in Int /\ logged - i \in Nat /\ logged' - i = (logged - i) + 1
        BY <1>1, <1>3, <2>1, <3>2
      <4>2. Writing' = {} => Keeps(file', i, logged' - i)
        <5> SUFFICES ASSUME Writing' = {} PROVE Keeps(file', i, logged' - i)
          OBVIOUS
        <5>1. Keeps(file, i, logged - i)
          BY <2>3, <3>2 DEF RecentInv
        <5>2. Keeps(file \o u, i, (logged - i) + Cardinality(Breaks(u)))
          BY <1>1, <2>5, <4>1, <5>1, KeepsJoined
        <5> QED BY <2>1, <2>5, <4>1, <5>2
      <4>3. ASSUME NEW q \in Proc, pc'[q] = "truncate" PROVE Keeps(data'[q], i, logged' - i)
        <5>1. pc[q] = "truncate" /\ data'[q] = data[q]
          BY <1>1, <2>1, <4>3
        <5>2. Keeps(data[q], i, logged - i)
          BY <3>2, <5>1 DEF RecentInv
        <5>3. logged' - i \in Int /\ logged - i \in Int /\ logged - i <= logged' - i
          BY <4>1
        <5> QED BY <1>1, <4>1, <5>1, <5>2, <5>3, KeepsMore
      <4>4. ASSUME NEW q \in Proc, pc'[q] = "write"
            PROVE  Keeps(data'[q], i, logged' - i - Cardinality(Breaks(file')))
        <5>1. pc[q] = "write" /\ data'[q] = data[q]
          BY <1>1, <2>1, <4>4
        <5> DEFINE k == logged - i - Cardinality(Breaks(file))
                   l == logged' - i - Cardinality(Breaks(file'))
        <5>2. Keeps(data[q], i, k)
          BY <3>2, <5>1 DEF RecentInv
        <5>3. k \in Int /\ l \in Int /\ k <= l
          BY <1>1, <2>6, <4>1
        <5> HIDE DEF k, l
        <5>4. Keeps(data[q], i, l)
          BY <1>1, <4>1, <5>2, <5>3, KeepsMore
        <5> QED BY <5>1, <5>4 DEF l
      <4> QED BY <4>2, <4>3, <4>4
    <3> QED BY <2>4, <3>1, <3>2
  <2>8. \A q, r \in Trimming' : q = r \/ Recent' = {}
    <3> SUFFICES ASSUME NEW q \in Trimming, NEW r \in Trimming, q # r PROVE Recent' = {}
      BY <2>3
    <3>1. Recent = {} /\ Trimming # {}
      BY DEF RecentInv
    <3> QED BY <2>4, <3>1
  <2> QED BY <2>1, <2>7, <2>8, RecentNext
<1>8. ASSUME NEW p \in Proc, ReadLog(p) PROVE RecentInv'
  <2> DEFINE d == LastLines(TrimRight(file), MaxLines)
  <2>1. pc[p] = "read" /\ UNCHANGED <<file, width, logged>>
    BY <1>8 DEF ReadLog, Goto
  <2>2. CASE LineCount(TrimRight(file)) <= MaxLines
    <3>1. pc' = [pc EXCEPT ![p] = "idle"] /\ UNCHANGED <<data, exposed>>
      BY <1>8, <2>2 DEF ReadLog, Goto
    <3> QED BY <1>5, <2>1, <3>1
  <2>3. CASE ~ (LineCount(TrimRight(file)) <= MaxLines)
    <3>1. /\ pc' = [pc EXCEPT ![p] = "truncate"] /\ data' = [data EXCEPT ![p] = d]
          /\ exposed' = IF Trimming # {} THEN 1..logged ELSE exposed
      BY <1>8, <2>3 DEF ReadLog, Goto
    <3>2. CASE Trimming # {}
      <4>1. Recent' = {}
        BY <2>1, <3>1, <3>2 DEF Recent
      <4> QED BY <2>1, <4>1, RecentNext
    <3>3. CASE Trimming = {}
      <4>1. Recent' = Recent /\ Trimming' = {p} /\ Writing = {}
        BY <1>1, <1>2, <2>1, <3>1, <3>3 DEF Recent, Trimming
      <4>2. \A q \in Proc : pc'[q] \in {"truncate", "write"} => q = p
        BY <4>1 DEF Trimming
      <4>3. pc'[p] = "truncate" /\ data'[p] = d
        BY <1>1, <3>1
      <4>4. LineCount(TrimRight(file)) > MaxLines
        BY <2>3, FewOrMany
      <4>5. ASSUME NEW i \in Recent
            PROVE  Keeps(file, i, logged - i) /\ Keeps(d, i, logged - i)
        <5>1. Keeps(file, i, logged - i)
          BY <4>1 DEF RecentInv
        <5>2. i \in Line /\ logged - i \in Int /\ logged - i < MaxLines
          BY <1>3
        <5> QED BY <4>4, <5>1, <5>2, CutKeeps
      <4> HIDE DEF d
      <4>6. "truncate" # "write"
        OBVIOUS
      <4> QED BY <2>1, <4>1, <4>2, <4>3, <4>5, <4>6, RecentNext
    <3> QED BY <3>2, <3>3
  <2> QED BY <2>2, <2>3
<1>9. ASSUME NEW p \in Proc, Truncate(p) PROVE RecentInv'
  <2>1. /\ pc[p] = "truncate" /\ pc' = [pc EXCEPT ![p] = "write"] /\ file' = <<>>
        /\ UNCHANGED <<width, logged, data, exposed>>
    BY <1>9 DEF Truncate, Goto
  <2>2. Recent' = Recent /\ Trimming' = Trimming /\ p \in Writing' /\ p \in Trimming
    BY <1>1, <2>1 DEF Recent, Trimming, Writing
  <2>3. Cardinality(Breaks(file')) = 0
    <3>1. Breaks(file') = {}
      BY <2>1, EmptySeq DEF Breaks
    <3> QED BY <3>1, FS_EmptySet
  <2>4. ASSUME NEW i \in Recent', NEW q \in Proc
        PROVE  /\ pc'[q] = "truncate" => Keeps(data'[q], i, logged' - i)
               /\ pc'[q] = "write" =>
                    Keeps(data'[q], i, logged' - i - Cardinality(Breaks(file')))
    <3>1. pc'[q] \in {"truncate", "write"} => q = p
      BY <2>2 DEF RecentInv, Trimming
    <3>2. pc'[p] = "write" /\ data'[p] = data[p] /\ Keeps(data[p], i, logged - i)
      BY <1>1, <2>1, <2>2 DEF RecentInv
    <3>3. logged' - i - Cardinality(Breaks(file')) = logged - i
      BY <1>3, <2>1, <2>2, <2>3
    <3> QED BY <3>1, <3>2, <3>3
  <2>5. \A q, r \in Trimming' : q = r \/ Recent' = {}
    BY <2>2 DEF RecentInv
  <2> QED BY <2>1, <2>2, <2>4, <2>5, RecentNext
<1>10. ASSUME NEW p \in Proc, WriteBack(p) PROVE RecentInv'
  <2> DEFINE u == SubSeq(file, Len(data[p]) + 1, Len(file))
  <2>1. /\ pc[p] = "write" /\ pc' = [pc EXCEPT ![p] = "idle"] /\ file' = data[p] \o u
        /\ UNCHANGED <<width, logged, exposed>>
    BY <1>10 DEF WriteBack, Goto
  <2>2. Recent' = Recent /\ p \in Trimming /\ Trimming' = Trimming \ {p}
    BY <1>1, <2>1 DEF Recent, Trimming
  <2>3. \A q, r \in Trimming' : q = r \/ Recent' = {}
    BY <2>2 DEF RecentInv
  <2>4. ASSUME NEW i \in Recent'
        PROVE  Keeps(file', i, logged' - i) /\ \A q \in Proc : pc'[q] \notin {"truncate", "write"}
    <3>1. \A q \in Proc : pc'[q] \notin {"truncate", "write"}
      BY <2>2 DEF RecentInv, Trimming
    <3>2. IsText(data[p]) /\ Len(data[p]) \in Nat
      BY <1>1, LenProperties DEF IsText
    <3>3. IsText(u) /\ Cardinality(Breaks(u)) <= Cardinality(Breaks(file))
      BY <1>1, <3>2, RemainderBreaks
    <3> HIDE DEF u
    <3>4. Cardinality(Breaks(u)) \in Nat
      BY <3>3, BreaksFinite
    <3> DEFINE k == logged - i - Cardinality(Breaks(file))
               l == k + Cardinality(Breaks(u))
    <3>5. i \in Line /\ k \in Int /\ l \in Int /\ logged - i \in Int /\ l <= logged - i
      BY <1>1, <1>3, <2>2, <3>3, <3>4
    <3>6. Keeps(data[p], i, k)
      BY <2>1, <2>2 DEF RecentInv
    <3> HIDE DEF k
    <3>7. Keeps(data[p] \o u, i, l)
      BY <3>2, <3>3, <3>5, <3>6, KeepsJoined
    <3> HIDE DEF l
    <3>8. IsText(data[p] \o u)
      BY <3>2, <3>3, JoinedTexts
    <3>9. Keeps(data[p] \o u, i, logged - i)
      BY <3>5, <3>7, <3>8, KeepsMore
    <3> QED BY <2>1, <3>1, <3>9
  <2> QED BY <2>1, <2>3, <2>4, RecentNext
<1>11. ASSUME NEW p \in Proc, Crash(p) PROVE RecentInv'
  <2>1. CASE pc[p] = "write"
    <3>1. Recent' = {} /\ UNCHANGED width
      BY <1>11, <2>1 DEF Crash, Recent
    <3> QED BY <3>1, RecentNext
  <2>2. CASE pc[p] # "write"
    <3>1. /\ pc' = [pc EXCEPT ![p] = "idle"] /\ data' = [data EXCEPT ![p] = <<>>]
          /\ UNCHANGED <<file, width, logged, exposed>>
      BY <1>11, <2>2 DEF Crash
    <3> QED BY <1>5, <2>2, <3>1
  <2> QED BY <2>1, <2>2
<1> QED BY <1>4, <1>6, <1>7, <1>8, <1>9, <1>10, <1>11 DEF Next, Log

(* However trims and appends of any number of processes interleave, and    *)
(* wherever they die, one of the last MaxLines lines is missing or damaged *)
(* only if it came behind the back of a trim, two trims overlapped, or a   *)
(* process died with the log truncated.  (Log, trim.)                      *)
THEOREM RecentLinesStay == Spec => []LostOnlyToTrim
<1>1. LogTypeInv /\ RecentInv => LostOnlyToTrim
  <2> SUFFICES ASSUME LogTypeInv, RecentInv, \A p \in Proc : pc[p] # "write",
                      NEW i \in (logged - MaxLines + 1)..logged, i \in Line \ exposed
               PROVE  Intact(i)
    BY DEF LostOnlyToTrim
  <2>1. i \in Recent /\ Writing = {}
    <3>1. logged \in Nat /\ MaxLines \in Nat
      BY LogAssumption DEF LogTypeInv, TypeOK
    <3> QED BY <3>1 DEF Recent, Line, Writing
  <2>2. Keeps(file, i, logged - i)
    BY <2>1 DEF RecentInv
  <2> QED BY <2>2, StandingIsIntact DEF LogTypeInv
<1>2. Init => RecentInv
  BY RecentInit
<1>3. LogTypeInv /\ LogTypeInv' /\ RecentInv /\ [Next]_vars => RecentInv'
  BY RecentStep
<1> QED BY <1>1, <1>2, <1>3, LogTypeAlways, PTL DEF Spec

(***************************************************************************)
(* A process that meets no other one.                                      *)
(***************************************************************************)

\* A process that has met no other one has its line last in the log, and then
\* in what it is to write, which is not too long; nobody else is in Log.
SoleInv ==
    \A p \in alone :
        /\ \A q \in Proc : pc[q] # "idle" => q = p
        /\ pc[p] = "read" => own[p] \in Line /\ Keeps(file, own[p], 0)
        /\ pc[p] \in {"truncate", "write"} =>
             /\ own[p] \in Line /\ Keeps(data[p], own[p], 0)
             /\ Cardinality(Breaks(data[p])) <= MaxLines
        /\ pc[p] = "write" => file = <<>>

\* A line with none behind it ends its text.
LEMMA LastEnds ==
    ASSUME TypeOK, NEW t, IsText(t), NEW i \in Line, Keeps(t, i, 0)
    PROVE  StandsAt(t, i, Len(t) - width[i]) /\ Len(t) > width[i]
<1>1. PICK n \in 1..Len(t) : StandsAt(t, i, n) /\ Cardinality(After(t, n + width[i])) <= 0
  BY DEF Keeps
<1> DEFINE m == n + width[i]
<1>2. width[i] \in Nat \ {0} /\ Len(t) \in Nat /\ DOMAIN t = 1..Len(t)
  BY TextOfLine, LenProperties DEF IsText
<1>3. m \in Nat /\ m <= Len(t)
  BY <1>1, <1>2 DEF StandsAt
<1>4. Len(t) \in Breaks(t)
  <2>1. t # <<>>
    BY <1>1, <1>2, EmptySeq
  <2> QED BY <1>1, <1>2, <2>1 DEF IsText, Breaks
<1>5. After(t, m) = {}
  <2> HIDE DEF m
  <2>1. IsFiniteSet(After(t, m)) /\ Cardinality(After(t, m)) \in Nat
    BY <1>3, BreaksFinite
  <2>2. Cardinality(After(t, m)) = 0
    BY <1>1, <2>1 DEF m
  <2> QED BY <2>1, <2>2, FS_EmptySet
<1>6. m = Len(t)
  BY <1>2, <1>3, <1>4, <1>5 DEF After
<1>7. n = Len(t) - width[i] /\ Len(t) > width[i]
  BY <1>1, <1>2, <1>6
<1> QED BY <1>1, <1>7

\* ... and is a suffix of it.
LEMMA LastIsSuffix ==
    ASSUME TypeOK, NEW t, IsText(t), NEW i \in Line, Keeps(t, i, 0)
    PROVE  IsSuffix(Text(i), t)
<1> DEFINE w == width[i]
           u == Text(i)
           L == Len(t)
           ru == Reverse(u)
           rt == Reverse(t)
<1>1. /\ w \in Nat \ {0} /\ u \in Seq(Char) /\ Len(u) = w + 1
      /\ \A k \in 1..w : u[k] = i
      /\ u[w + 1] = NewLine
  BY TextOfLine
<1> HIDE DEF u
<1>2. t \in Seq(Char) /\ L \in Nat
  BY LenProperties DEF IsText, Char
<1>3. L > w /\ t[L] = NewLine /\ \A k \in (L - w)..(L - 1) : t[k] = i
  <2>1. StandsAt(t, i, L - w) /\ L > w
    BY LastEnds
  <2>2. (L - w) + w = L /\ (L - w) + w - 1 = L - 1
    BY <1>1, <1>2
  <2> QED BY <2>1, <2>2 DEF StandsAt
<1>4. \A k \in 1..(w + 1) : u[(w + 1) - k + 1] = t[L - k + 1]
  <2> SUFFICES ASSUME NEW k \in 1..(w + 1) PROVE u[(w + 1) - k + 1] = t[L - k + 1]
    OBVIOUS
  <2>1. CASE k = 1
    <3>1. (w + 1) - k + 1 = w + 1 /\ L - k + 1 = L
      BY <1>1, <1>2, <2>1
    <3> QED BY <1>1, <1>3, <3>1
  <2>2. CASE k # 1
    <3>1. (w + 1) - k + 1 \in 1..w /\ L - k + 1 \in (L - w)..(L - 1)
      BY <1>1, <1>2, <2>2
    <3> QED BY <1>1, <1>3, <3>1
  <2> QED BY <2>1, <2>2
<1>5. ru \in Seq(Char) /\ Len(ru) = w + 1 /\ \A k \in 1..(w + 1) : ru[k] = u[(w + 1) - k + 1]
  <2>1. \A k \in 1..(w + 1) : u[(w + 1) - k + 1] \in Char
    <3> TAKE k \in 1..(w + 1)
    <3>1. (w + 1) - k + 1 \in 1..Len(u)
      BY <1>1
    <3> QED BY <1>1, <3>1, ElementOfSeq
  <2>2. ru = [k \in 1..(w + 1) |-> u[(w + 1) - k + 1]]
    BY <1>1 DEF Reverse
  <2> HIDE DEF ru
  <2>3. ru \in [1..(w + 1) -> Char]
    BY <2>1, <2>2
  <2>4. w + 1 \in Nat
    BY <1>1
  <2>5. ru \in Seq(Char)
    BY <2>3, <2>4, SeqDef
  <2>6. Len(ru) = w + 1
    BY <1>1, <2>3, <2>5, LenProperties
  <2> QED BY <2>2, <2>5, <2>6
<1>6. rt \in Seq(Char) /\ Len(rt) = L /\ \A k \in 1..L : rt[k] = t[L - k + 1]
  <2>1. \A k \in 1..L : t[L - k + 1] \in Char
    <3> TAKE k \in 1..L
    <3>1. L - k + 1 \in 1..L
      BY <1>2
    <3> QED BY <1>2, <3>1, ElementOfSeq
  <2>2. rt = [k \in 1..L |-> t[L - k + 1]]
    BY DEF Reverse
  <2> HIDE DEF rt
  <2>3. rt \in [1..L -> Char]
    BY <2>1, <2>2
  <2>4. rt \in Seq(Char)
    BY <1>2, <2>3, SeqDef
  <2>5. Len(rt) = L
    BY <1>2, <2>3, <2>4, LenProperties
  <2> QED BY <2>2, <2>4, <2>5
<1> HIDE DEF ru, rt, L
<1>7. \A k \in 1..(w + 1) : k \in 1..L /\ ru[k] = rt[k] /\ ru[k] \in Char /\ rt[k] \in Char
  <2> SUFFICES ASSUME NEW k \in 1..(w + 1)
               PROVE  k \in 1..L /\ ru[k] = rt[k] /\ ru[k] \in Char /\ rt[k] \in Char
    OBVIOUS
  <2>1. k \in 1..L
    BY <1>1, <1>2, <1>3
  <2>2. ru[k] = rt[k]
    BY <1>4, <1>5, <1>6, <2>1
  <2> QED BY <1>5, <2>1, <2>2, ElementOfSeq
<1> DEFINE su == SubSeq(ru, 1, w + 1)
           st == SubSeq(rt, 1, w + 1)
<1>8. 1 \in Int /\ w + 1 \in Int /\ 1 <= w + 1 /\ (w + 1) - 1 + 1 = w + 1
      /\ \A k \in 1..(w + 1) : 1 + k - 1 = k
  BY <1>1
<1>9. su \in Seq(Char) /\ Len(su) = w + 1 /\ \A k \in 1..(w + 1) : su[k] = ru[k]
  <2>1. /\ su \in Seq(Char) /\ Len(su) = (w + 1) - 1 + 1
        /\ \A k \in 1..((w + 1) - 1 + 1) : su[k] = ru[1 + k - 1]
    BY <1>7, <1>8, SubSeqProperties
  <2> HIDE DEF su
  <2> QED BY <1>8, <2>1
<1>10. st \in Seq(Char) /\ Len(st) = w + 1 /\ \A k \in 1..(w + 1) : st[k] = rt[k]
  <2>1. /\ st \in Seq(Char) /\ Len(st) = (w + 1) - 1 + 1
        /\ \A k \in 1..((w + 1) - 1 + 1) : st[k] = rt[1 + k - 1]
    BY <1>7, <1>8, SubSeqProperties
  <2> HIDE DEF st
  <2> QED BY <1>8, <2>1
<1>11. su = st
  <2> HIDE DEF su, st
  <2> QED BY <1>7, <1>9, <1>10, SeqEqual
<1>12. Len(ru) <= Len(rt) /\ Len(ru) = w + 1
  BY <1>1, <1>2, <1>3, <1>5, <1>6 DEF L
<1> QED BY <1>11, <1>12 DEF IsSuffix, IsPrefix, ru, rt, u, L

\* A log that ends in a line, and whose lines are few, is short.
LEMMA FewLines ==
    ASSUME TypeOK, NEW i \in Line, Keeps(file, i, 0), LineCount(TrimRight(file)) <= MaxLines
    PROVE  Cardinality(Breaks(file)) <= MaxLines
<1> DEFINE L == Len(file)
           text == TrimRight(file)
<1>1. IsText(file) /\ L \in Nat /\ DOMAIN file = 1..L
  BY LenProperties DEF TypeOK, IsText
<1>2. StandsAt(file, i, L - width[i]) /\ L > width[i] /\ width[i] \in Nat \ {0}
  BY <1>1, LastEnds, TextOfLine
<1>3. L - 1 \in 1..L /\ file[L - 1] = i /\ i # NewLine
  <2>1. L - 1 \in (L - width[i])..((L - width[i]) + width[i] - 1)
    BY <1>1, <1>2
  <2>2. i # NewLine
    BY DEF Line, NewLine
  <2>3. L - 1 \in 1..L
    BY <1>1, <1>2
  <2>4. file[L - 1] = i
    BY <1>2, <2>1 DEF StandsAt
  <2> QED BY <2>2, <2>3, <2>4
<1>4. /\ End(file) \in 0..L /\ \A k \in (End(file) + 1)..L : file[k] = NewLine
      /\ text \in Seq(Char) /\ Len(text) = End(file)
      /\ \A k \in 1..End(file) : text[k] = file[k]
  BY <1>1, Trimmed
<1> HIDE DEF text
<1>5. End(file) >= L - 1
  <2> SUFFICES ASSUME End(file) < L - 1 PROVE FALSE
    BY <1>1, <1>4
  <2>1. L - 1 \in (End(file) + 1)..L
    BY <1>1, <1>3, <1>4
  <2> QED BY <1>3, <1>4, <2>1
<1>6. DOMAIN text = 1..End(file) /\ IsFiniteSet(Breaks(text)) /\ Cardinality(Breaks(text)) \in Nat
  <2>1. DOMAIN text = 1..End(file)
    BY <1>4, LenProperties
  <2>2. IsFiniteSet(1..End(file)) /\ Breaks(text) \in SUBSET (1..End(file))
    BY <1>4, <2>1, FS_Interval DEF Breaks
  <2> QED BY <2>1, <2>2, FS_Subset, FS_CardinalityType
<1>7. Breaks(file) \subseteq Breaks(text) \cup {L}
  <2> SUFFICES ASSUME NEW c \in Breaks(file), c # L PROVE c \in Breaks(text)
    OBVIOUS
  <2>1. c \in 1..End(file) /\ file[c] = NewLine
    BY <1>1, <1>4, <1>5 DEF Breaks
  <2> QED BY <1>4, <1>6, <2>1 DEF Breaks
<1>8. /\ IsFiniteSet(Breaks(text) \cup {L})
      /\ Cardinality(Breaks(text) \cup {L}) \in Nat
      /\ Cardinality(Breaks(text) \cup {L}) <= Cardinality(Breaks(text)) + 1
  <2> HIDE DEF L
  <2>1. /\ IsFiniteSet(Breaks(text) \cup {L})
        /\ Cardinality(Breaks(text) \cup {L}) \in
              {Cardinality(Breaks(text)), Cardinality(Breaks(text)) + 1}
    BY <1>6, FS_AddElement
  <2> QED BY <1>6, <2>1
<1>9. Cardinality(Breaks(file)) <= Cardinality(Breaks(text) \cup {L}) /\ Cardinality(Breaks(file)) \in Nat
  BY <1>1, <1>7, <1>8, FS_Subset, BreaksFinite
<1>10. Cardinality(Breaks(text)) + 1 <= MaxLines /\ MaxLines \in Nat
  BY LogAssumption DEF LineCount, text
<1> QED BY <1>6, <1>8, <1>9, <1>10

\* What trim keeps has no more than MaxLines lines.
LEMMA CutIsShort ==
    ASSUME TypeOK, LineCount(TrimRight(file)) > MaxLines
    PROVE  Cardinality(Breaks(LastLines(TrimRight(file), MaxLines))) <= MaxLines
<1> DEFINE d == LastLines(TrimRight(file), MaxLines)
           e == End(file)
<1>1. IsText(file) /\ IsText(d)
  BY LinesAreTexts DEF TypeOK
<1>2. /\ e \in 1..(Len(file) - 1)
      /\ \E b \in 1..(e - 1) :
            /\ file[b] = NewLine
            /\ Cardinality({c \in Breaks(file) : b <= c /\ c <= e}) = MaxLines
            /\ Len(d) = e + 1 - b
            /\ \A c \in 1..(e + 1 - b) : d[c] = file[b + c]
  BY <1>1, CutText
<1> HIDE DEF d, e
<1>3. PICK b \in 1..(e - 1) :
            /\ file[b] = NewLine
            /\ Cardinality({c \in Breaks(file) : b <= c /\ c <= e}) = MaxLines
            /\ Len(d) = e + 1 - b
            /\ \A c \in 1..(e + 1 - b) : d[c] = file[b + c]
  BY <1>2
<1> DEFINE Behind == {c \in Breaks(file) : b <= c /\ c <= e}
           Rest == Behind \ {b}
           Moved == Rest \cup {e + 1}
<1>4. /\ Len(file) \in Nat /\ DOMAIN file = 1..Len(file) /\ MaxLines \in Nat \ {0}
      /\ b \in Nat \ {0} /\ e \in Nat /\ b < e /\ e < Len(file)
  <2>1. Len(file) \in Nat /\ DOMAIN file = 1..Len(file)
    BY <1>1, LenProperties DEF IsText
  <2> QED BY <1>2, <1>3, <2>1, LogAssumption
<1>5. IsFiniteSet(Behind) /\ b \in Behind /\ Cardinality(Behind) = MaxLines
  <2>1. Behind \in SUBSET Breaks(file) /\ IsFiniteSet(Breaks(file))
    BY <1>1, BreaksFinite
  <2>2. b \in Behind
    BY <1>3, <1>4 DEF Breaks
  <2> QED BY <1>3, <2>1, <2>2, FS_Subset
<1>6. DOMAIN d = 1..(e + 1 - b) /\ Breaks(d) \in SUBSET Int /\ b \in Int
  <2>1. DOMAIN d = 1..(e + 1 - b)
    BY <1>1, <1>3, LenProperties DEF IsText
  <2> QED BY <1>4, <2>1 DEF Breaks
<1>7. \A c \in Breaks(d) : c + b \in Moved
  <2> SUFFICES ASSUME NEW c \in Breaks(d), c + b # e + 1 PROVE c + b \in Rest
    OBVIOUS
  <2>1. c \in 1..(e + 1 - b) /\ d[c] = NewLine
    BY <1>6 DEF Breaks
  <2>2. c + b = b + c /\ c + b \in 1..Len(file) /\ b < c + b /\ c + b <= e
    BY <1>4, <2>1
  <2>3. file[c + b] = NewLine
    BY <1>3, <2>1, <2>2
  <2> QED BY <1>4, <2>2, <2>3 DEF Breaks
<1> HIDE DEF Behind
<1>8. IsFiniteSet(Rest) /\ Cardinality(Rest) = MaxLines - 1
  BY <1>5, FS_RemoveElement
<1> HIDE DEF Rest
<1>9. IsFiniteSet(Moved) /\ Cardinality(Moved) \in Nat /\ Cardinality(Moved) <= MaxLines
  <2>1. /\ IsFiniteSet(Moved)
        /\ Cardinality(Moved) \in {Cardinality(Rest), Cardinality(Rest) + 1}
    BY <1>8, FS_AddElement
  <2> QED BY <1>4, <1>8, <2>1
<1> HIDE DEF Moved
<1>10. Cardinality(Breaks(d)) <= Cardinality(Moved)
  BY <1>6, <1>7, <1>9, Shifted
<1>11. Cardinality(Breaks(d)) \in Nat
  BY <1>1, BreaksFinite
<1> QED BY <1>4, <1>9, <1>10, <1>11 DEF d

\* No process has logged.
LEMMA SoleInit == ASSUME Init PROVE SoleInv
BY DEF Init, SoleInv

\* A step of a process that has met no other one keeps its line last; any
\* other step is that of one that has met others, or ends all that was alone.
LEMMA SoleStep ==
    ASSUME LogTypeInv, LogTypeInv', SoleInv, [Next]_vars
    PROVE  SoleInv'
<1> USE DEF LogTypeInv
<1>1. /\ pc \in [Proc -> {"idle", "append", "read", "truncate", "write"}]
      /\ data \in [Proc -> Seq(Char)] /\ own \in [Proc -> Line \cup {None}]
      /\ alone \in SUBSET Proc /\ MaxLines \in Nat \ {0}
  BY LogAssumption DEF TypeOK
<1>2. CASE UNCHANGED vars
  BY <1>2 DEF vars, SoleInv, Keeps, StandsAt
\* A step of p within Log: nobody else is alone, or anybody in Log but p.
<1>3. ASSUME NEW p \in Proc, pc[p] # "idle", UNCHANGED width,
             NEW x, pc' = [pc EXCEPT ![p] = x], alone' \subseteq alone,
             p \in alone' =>
                /\ x = "read" => own'[p] \in Line /\ Keeps(file', own'[p], 0)
                /\ x \in {"truncate", "write"} =>
                     /\ own'[p] \in Line /\ Keeps(data'[p], own'[p], 0)
                     /\ Cardinality(Breaks(data'[p])) <= MaxLines
                /\ x = "write" => file' = <<>>
      PROVE  SoleInv'
  <2>1. SUFFICES ASSUME NEW q \in alone'
        PROVE  /\ \A r \in Proc : pc'[r] # "idle" => r = q
               /\ pc'[q] = "read" => own'[q] \in Line /\ Keeps(file', own'[q], 0)
               /\ pc'[q] \in {"truncate", "write"} =>
                     /\ own'[q] \in Line /\ Keeps(data'[q], own'[q], 0)
                     /\ Cardinality(Breaks(data'[q])) <= MaxLines
               /\ pc'[q] = "write" => file' = <<>>
    BY <1>3 DEF SoleInv, Keeps, StandsAt
  <2>2. q = p /\ \A r \in Proc : pc[r] # "idle" => r = q
    BY <1>3 DEF SoleInv
  <2>3. \A r \in Proc : pc'[r] # "idle" => r = q
    BY <1>1, <1>3, <2>2
  <2>4. pc'[p] = x
    BY <1>1, <1>3
  <2> QED BY <1>3, <2>1, <2>2, <2>3, <2>4
<1>4. ASSUME NEW p \in Proc, Call(p) PROVE SoleInv'
  <2>1. /\ pc' = [pc EXCEPT ![p] = "append"]
        /\ alone' = IF Busy = {} THEN {p} ELSE {}
    BY <1>4 DEF Call, Goto
  <2>2. \A q \in alone' : q = p /\ Busy = {}
    BY <2>1
  <2>3. pc'[p] = "append"
    BY <1>1, <2>1
  <2>4. Busy = {} => \A r \in Proc : pc'[r] # "idle" => r = p
    BY <1>1, <2>1 DEF Busy
  <2> QED BY <2>2, <2>3, <2>4 DEF SoleInv
<1>5. ASSUME NEW p \in Proc, AppendLine(p) PROVE SoleInv'
  <2>1. /\ pc[p] = "append" /\ pc' = [pc EXCEPT ![p] = "read"]
        /\ own' = [own EXCEPT ![p] = logged + 1] /\ file' = file \o Text(logged + 1)
        /\ logged' = logged + 1 /\ UNCHANGED <<width, alone>>
    BY <1>5 DEF AppendLine, Goto
  <2>2. logged + 1 \in Line /\ own'[p] = logged + 1
    BY <1>1, <2>1, LogAssumption DEF TypeOK, Line
  <2>3. Keeps(file \o Text(logged + 1), logged + 1, 0)
    BY <2>2, Appended DEF TypeOK
  <2>4. own'[p] \in Line /\ Keeps(file', own'[p], 0)
    BY <2>1, <2>2, <2>3
  <2> QED BY <1>3, <2>1, <2>4
<1>6. ASSUME NEW p \in Proc, ReadLog(p) PROVE SoleInv'
  <2> DEFINE d == LastLines(TrimRight(file), MaxLines)
  <2>1. pc[p] = "read" /\ UNCHANGED <<file, width, own, alone>>
    BY <1>6 DEF ReadLog, Goto
  <2>2. CASE LineCount(TrimRight(file)) <= MaxLines
    <3>1. pc' = [pc EXCEPT ![p] = "idle"]
      BY <1>6, <2>2 DEF ReadLog, Goto
    <3> QED BY <1>3, <2>1, <3>1
  <2>3. CASE ~ (LineCount(TrimRight(file)) <= MaxLines)
    <3>1. pc' = [pc EXCEPT ![p] = "truncate"] /\ data' = [data EXCEPT ![p] = d]
      BY <1>6, <2>3 DEF ReadLog, Goto
    <3>2. LineCount(TrimRight(file)) > MaxLines
      BY <2>3, FewOrMany
    <3>3. ASSUME p \in alone'
          PROVE  /\ own'[p] \in Line /\ Keeps(data'[p], own'[p], 0)
                 /\ Cardinality(Breaks(data'[p])) <= MaxLines
      <4>1. own[p] \in Line /\ Keeps(file, own[p], 0)
        BY <2>1, <3>3 DEF SoleInv
      <4>2. Keeps(d, own[p], 0)
        <5>1. 0 \in Int /\ 0 < MaxLines
          BY <1>1
        <5> QED BY <3>2, <4>1, <5>1, CutKeeps
      <4>3. Cardinality(Breaks(d)) <= MaxLines
        BY <3>2, CutIsShort
      <4>4. data'[p] = d /\ own'[p] = own[p]
        BY <1>1, <2>1, <3>1
      <4> HIDE DEF d
      <4> QED BY <4>1, <4>2, <4>3, <4>4
    <3> QED BY <1>3, <2>1, <3>1, <3>3
  <2> QED BY <2>2, <2>3
<1>7. ASSUME NEW p \in Proc, Truncate(p) PROVE SoleInv'
  <2>1. /\ pc[p] = "truncate" /\ pc' = [pc EXCEPT ![p] = "write"] /\ file' = <<>>
        /\ UNCHANGED <<width, own, data, alone>>
    BY <1>7 DEF Truncate, Goto
  <2>2. p \in alone' => /\ own'[p] \in Line /\ Keeps(data'[p], own'[p], 0)
                        /\ Cardinality(Breaks(data'[p])) <= MaxLines
    BY <2>1 DEF SoleInv
  <2> QED BY <1>3, <2>1, <2>2
<1>8. ASSUME NEW p \in Proc, WriteBack(p) PROVE SoleInv'
  <2>1. pc[p] = "write" /\ pc' = [pc EXCEPT ![p] = "idle"] /\ UNCHANGED <<width, alone>>
    BY <1>8 DEF WriteBack, Goto
  <2> QED BY <1>3, <2>1
<1>9. ASSUME NEW p \in Proc, Crash(p) PROVE SoleInv'
  <2>1. /\ pc[p] # "idle" /\ pc' = [pc EXCEPT ![p] = "idle"]
        /\ alone' = alone \ {p} /\ UNCHANGED width
    BY <1>9 DEF Crash
  <2> QED BY <1>3, <2>1
<1> QED BY <1>2, <1>4, <1>5, <1>6, <1>7, <1>8, <1>9 DEF Next, Log

\* The step that ends the Log of a process that has met no other one leaves
\* its line last and the log short.
LEMMA SoleEnd ==
    ASSUME LogTypeInv, SoleInv, Next, NEW p \in alone,
           pc[p] # "idle", pc'[p] = "idle", p \in alone'
    PROVE  IsSuffix(Text(own[p]), file') /\ Cardinality(Breaks(file')) <= MaxLines
<1> USE DEF LogTypeInv
<1>1. /\ pc \in [Proc -> {"idle", "append", "read", "truncate", "write"}]
      /\ alone \in SUBSET Proc /\ p \in Proc
  BY DEF TypeOK
<1>2. PICK q \in Proc : Log(q) \/ Crash(q)
  BY DEF Next
<1>3. \A r \in Proc : pc[r] # "idle" => r = p
  BY DEF SoleInv
<1>4. ~ Call(q) /\ q = p
  <2>1. CASE Call(q)
    <3>1. pc[q] = "idle" /\ pc' = [pc EXCEPT ![q] = "append"]
      BY <2>1 DEF Call, Goto
    <3> QED BY <1>1, <3>1
  <2>2. CASE ~ Call(q)
    <3>1. pc[q] # "idle"
      BY <1>2, <2>2 DEF Log, AppendLine, ReadLog, Truncate, WriteBack, Crash, Goto
    <3> QED BY <1>3, <2>2, <3>1
  <2> QED BY <2>1, <2>2
<1>5. CASE AppendLine(p)
  BY <1>1, <1>5 DEF AppendLine, Goto
<1>6. CASE Truncate(p)
  BY <1>1, <1>6 DEF Truncate, Goto
<1>7. CASE Crash(p)
  BY <1>7 DEF Crash
<1>8. CASE ReadLog(p)
  <2>1. pc[p] = "read" /\ file' = file
    BY <1>8 DEF ReadLog, Goto
  <2>2. LineCount(TrimRight(file)) <= MaxLines
    BY <1>1, <1>8 DEF ReadLog, Goto
  <2>3. own[p] \in Line /\ Keeps(file, own[p], 0)
    BY <2>1 DEF SoleInv
  <2>4. IsText(file)
    BY DEF TypeOK
  <2>5. IsSuffix(Text(own[p]), file) /\ Cardinality(Breaks(file)) <= MaxLines
    BY <2>2, <2>3, <2>4, LastIsSuffix, FewLines
  <2> QED BY <2>1, <2>5
<1>9. CASE WriteBack(p)
  <2>1. pc[p] = "write" /\ file' = data[p] \o SubSeq(file, Len(data[p]) + 1, Len(file))
    BY <1>9 DEF WriteBack, Goto
  <2>2. /\ own[p] \in Line /\ Keeps(data[p], own[p], 0) /\ file = <<>>
        /\ Cardinality(Breaks(data[p])) <= MaxLines
    BY <2>1 DEF SoleInv
  <2>3. IsText(data[p]) /\ IsText(file) /\ data[p] \in Seq(Char) /\ Len(data[p]) \in Nat
    BY <1>1, LenProperties DEF TypeOK, IsText, Char
  <2>4. file' = data[p]
    <3> DEFINE u == SubSeq(file, Len(data[p]) + 1, Len(file))
    <3>1. IsText(u) /\ Len(u) = IF Len(data[p]) <= Len(file) THEN Len(file) - Len(data[p]) ELSE 0
      BY <2>3, Remainder
    <3> HIDE DEF u
    <3>2. Len(file) = 0
      BY <2>2, EmptySeq
    <3>3. Len(u) = 0
      BY <2>3, <3>1, <3>2
    <3>4. u = <<>>
      BY <3>1, <3>3, EmptySeq DEF IsText
    <3>5. data[p] \o <<>> = data[p]
      BY <2>3, ConcatEmptySeq
    <3> QED BY <2>1, <3>4, <3>5 DEF u
  <2>5. IsSuffix(Text(own[p]), data[p])
    BY <2>2, <2>3, LastIsSuffix
  <2> QED BY <2>2, <2>4, <2>5
<1> QED BY <1>2, <1>4, <1>5, <1>6, <1>7, <1>8, <1>9 DEF Log

(* Whatever happened before, a Log that meets no other one leaves its line *)
(* as the last of the log, whole, and the log with no more than MaxLines   *)
(* lines: it repairs a log that overlapping ones left too long.            *)
THEOREM SoleWritersKeep == Spec => SoleWriterKept
<1> DEFINE Step ==
        \A p \in alone :
          pc[p] # "idle" /\ pc'[p] = "idle" /\ p \in alone'
            => /\ IsSuffix(Text(own[p]), file')
               /\ Cardinality({n \in DOMAIN file' : file'[n] = NewLine}) <= MaxLines
<1>1. LogTypeInv /\ SoleInv /\ [Next]_vars => [Step]_vars
  <2> SUFFICES ASSUME LogTypeInv, SoleInv, Next PROVE Step
    OBVIOUS
  <2>1. ASSUME NEW p \in alone, pc[p] # "idle", pc'[p] = "idle", p \in alone'
        PROVE  /\ IsSuffix(Text(own[p]), file')
               /\ Cardinality({n \in DOMAIN file' : file'[n] = NewLine}) <= MaxLines
    BY <2>1, SoleEnd DEF Breaks
  <2> QED BY <2>1
<1>2. Init => SoleInv
  BY SoleInit
<1>3. LogTypeInv /\ LogTypeInv' /\ SoleInv /\ [Next]_vars => SoleInv'
  BY SoleStep
<1> HIDE DEF Step
<1>4. Spec => [][Step]_vars
  BY <1>1, <1>2, <1>3, LogTypeAlways, PTL DEF Spec
<1> QED BY <1>4 DEF SoleWriterKept, Step
=============================================================================
