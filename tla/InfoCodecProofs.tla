--------------------------- MODULE InfoCodecProofs ---------------------------
(***************************************************************************)
(* ParseFrom reads from every text, however long, exactly what the text    *)
(* means, and reads back what ToString has printed.                        *)
(*                                                                         *)
(* The loop of ParseFrom is a recursive function and the proof is by       *)
(* induction on its rounds.  The induction theorems of the library take an *)
(* operator; LeastElement is the principle they rest on, about a set: if   *)
(* some round broke the loop's invariant, there would be a first one.      *)
(***************************************************************************)
EXTENDS InfoCodec, TLAPS, WellFoundedInduction

(* A nonempty set of natural numbers has a least element.                  *)
LEMMA LeastElement ==
  ASSUME NEW T, T \subseteq Nat, T # {}
  PROVE  \E m \in T : \A k \in T : m <= k
<1>1. PICK m \in T : \A k \in T : <<k, m>> \notin OpToRel(<, Nat)
  BY NatLessThanWellFounded, WFMin, Zenon
<1>2. \A k, n \in Nat : <<k, n>> \in OpToRel(<, Nat) <=> k < n
  BY Zenon DEF OpToRel
<1>3. \A k \in T : ~(k < m)
  BY <1>1, <1>2, Zenon
<1> QED
  BY <1>3

-----------------------------------------------------------------------------
(* The rounds of the loop.                                                 *)

(* A recursion over the first n numbers has a solution.                    *)
LEMMA RoundsExist ==
  ASSUME NEW a, NEW k \in Nat
  PROVE  \E g : g = [n \in 0 .. k |-> IF n = 0 THEN a ELSE Round(g[n - 1])]
<1> DEFINE Solved(j) ==
      \E g : g = [n \in 0 .. j |-> IF n = 0 THEN a ELSE Round(g[n - 1])]
           T == {j \in Nat : ~Solved(j)}
<1> SUFFICES ASSUME T # {} PROVE FALSE
  BY Zenon
<1>1. PICK m \in T : \A j \in T : m <= j
  <2>1. T \subseteq Nat  BY Zenon
  <2> QED  BY <2>1, LeastElement, Zenon
<1>2. m \in Nat /\ ~Solved(m)
  BY <1>1, Zenon
<1>3. CASE m = 0
  <2> DEFINE g == [n \in 0 .. 0 |-> a]
  <2>1. g = [n \in 0 .. 0 |-> IF n = 0 THEN a ELSE Round(g[n - 1])]
    <3>1. \A n \in 0 .. 0 : n = 0  OBVIOUS
    <3> QED  BY <3>1, Zenon
  <2>2. Solved(0)  BY <2>1, Zenon
  <2> QED  BY <2>2, <1>2, <1>3, Zenon
<1>4. CASE m # 0
  <2>1. m - 1 \in Nat /\ ~(m <= m - 1)
    BY <1>2, <1>4
  <2>2. Solved(m - 1)
    BY <2>1, <1>1, Zenon
  <2>3. PICK g : g = [n \in 0 .. (m - 1) |-> IF n = 0 THEN a ELSE Round(g[n - 1])]
    BY <2>2, Zenon
  <2> DEFINE h == [n \in 0 .. m |-> IF n = m THEN Round(g[m - 1]) ELSE g[n]]
  <2>4. ASSUME NEW n \in 0 .. m
        PROVE  h[n] = IF n = 0 THEN a ELSE Round(h[n - 1])
    <3>1. CASE n = 0
      <4>1. 0 \in 0 .. (m - 1) /\ n # m  BY <1>2, <1>4, <3>1
      <4>2. g[0] = a  BY <4>1, <2>3, Zenon
      <4> QED  BY <4>1, <4>2, <3>1, Zenon
    <3>2. CASE n # 0 /\ n # m
      <4>1. /\ n \in 0 .. (m - 1) /\ n - 1 \in 0 .. m /\ n - 1 # m
            /\ n \in 0 .. m
        BY <1>2, <3>2
      <4>2. g[n] = Round(g[n - 1])  BY <4>1, <3>2, <2>3, Zenon
      <4>3. h[n] = g[n] /\ h[n - 1] = g[n - 1]  BY <4>1, <3>2, Zenon
      <4> QED  BY <4>2, <4>3, <3>2, Zenon
    <3>3. CASE n = m
      <4>1. m - 1 \in 0 .. m /\ m - 1 # m /\ m \in 0 .. m  BY <1>2, <1>4
      <4>2. h[m] = Round(g[m - 1]) /\ h[m - 1] = g[m - 1]  BY <4>1, Zenon
      <4> QED  BY <4>2, <3>3, <1>4, Zenon
    <3> QED  BY <3>1, <3>2, <3>3, Zenon
  <2>5. h = [n \in 0 .. m |-> h[n]]
    BY Zenon
  <2>6. h = [n \in 0 .. m |-> IF n = 0 THEN a ELSE Round(h[n - 1])]
    <3> HIDE DEF h
    <3> QED  BY <2>4, <2>5, Zenon
  <2>7. Solved(m)
    <3> HIDE DEF h
    <3> QED  BY <2>6, Zenon
  <2> QED  BY <2>7, <1>2, Zenon
<1> QED
  BY <1>3, <1>4, Zenon

(* What the loop has read after its last round decides the result.         *)
Outcome(end) ==
  IF end.failed \/ end.name = <<>> \/ end.version = <<>> THEN NoInfo
  ELSE [name |-> end.name, version |-> end.version]

(* ParseFrom runs the loop round by round, from Started.                   *)
LEMMA ParseFromRounds ==
  ASSUME NEW input, Len(input) \in Nat
  PROVE  \E after :
           /\ after[0] = Started(input)
           /\ \A n \in 1 .. Len(input) : after[n] = Round(after[n - 1])
           /\ ParseFrom(input) = Outcome(after[Len(input)])
<1> DEFINE after ==
      CHOOSE f : f = [n \in 0 .. Len(input) |->
                        IF n = 0 THEN Started(input) ELSE Round(f[n - 1])]
<1>1. ParseFrom(input) = Outcome(after[Len(input)])
  BY Zenon DEF ParseFrom, Outcome
<1>2. after = [n \in 0 .. Len(input) |->
                 IF n = 0 THEN Started(input) ELSE Round(after[n - 1])]
  <2>1. \E f : f = [n \in 0 .. Len(input) |->
                      IF n = 0 THEN Started(input) ELSE Round(f[n - 1])]
    BY RoundsExist, Zenon
  <2> QED  BY <2>1, Zenon
<1> HIDE DEF after
<1>3. after[0] = Started(input)
  <2>1. 0 \in 0 .. Len(input)  OBVIOUS
  <2> QED  BY <2>1, <1>2, Zenon
<1>4. ASSUME NEW n \in 1 .. Len(input)
      PROVE  after[n] = Round(after[n - 1])
  <2>1. n \in 0 .. Len(input) /\ n # 0  OBVIOUS
  <2> QED  BY <2>1, <1>2, Zenon
<1> QED
  BY <1>1, <1>3, <1>4, Zenon

-----------------------------------------------------------------------------
(* Texts and their pieces.                                                 *)

(* IndexOf is -1 when the token does not occur, and otherwise points just  *)
(* before its first occurrence.                                            *)
LEMMA IndexOfFirst ==
  ASSUME NEW S, NEW text \in Seq(S), NEW t
  PROVE  \/ /\ IndexOf(text, t) = -1
            /\ \A i \in 1 .. Len(text) : text[i] # t
         \/ /\ IndexOf(text, t) \in 0 .. (Len(text) - 1)
            /\ text[IndexOf(text, t) + 1] = t
            /\ \A j \in 1 .. IndexOf(text, t) : text[j] # t
<1> DEFINE At == {i \in 1 .. Len(text) : text[i] = t}
           First(i) == text[i] = t /\ \A j \in 1 .. (i - 1) : text[j] # t
<1>1. CASE At = {}
  BY <1>1 DEF IndexOf
<1>2. CASE At # {}
  <2>1. At \subseteq Nat  OBVIOUS
  <2>2. PICK m \in At : \A k \in At : m <= k
    BY <2>1, <1>2, LeastElement, Zenon
  <2>3. m \in DOMAIN text /\ First(m)
    BY <2>2
  <2> DEFINE c == CHOOSE i \in DOMAIN text : First(i)
  <2>4. c \in DOMAIN text /\ First(c)
    <3> HIDE DEF First
    <3> QED  BY <2>3, Zenon
  <2>5. IndexOf(text, t) = c - 1
    <3>1. \E i \in DOMAIN text : text[i] = t
      BY <2>3
    <3> QED  BY <3>1, Zenon DEF IndexOf
  <2> HIDE DEF c
  <2> QED  BY <2>4, <2>5
<1> QED
  BY <1>1, <1>2

(* Texts are equal when they are of one length and agree at every place.   *)
LEMMA SameText ==
  ASSUME NEW S, NEW s \in Seq(S), NEW t \in Seq(S), Len(s) = Len(t),
         \A i \in 1 .. Len(s) : s[i] = t[i]
  PROVE  s = t
  OBVIOUS

(* A stretch of a text: its length and its tokens.                         *)
LEMMA Stretch ==
  ASSUME NEW S, NEW text \in Seq(S),
         NEW p \in 1 .. (Len(text) + 1), NEW q \in 0 .. Len(text), p <= q + 1
  PROVE  /\ SubSeq(text, p, q) \in Seq(S)
         /\ Len(SubSeq(text, p, q)) = q - p + 1
         /\ \A i \in 1 .. (q - p + 1) : SubSeq(text, p, q)[i] = text[p + i - 1]
  OBVIOUS

(* A stretch of a stretch is a stretch.                                    *)
LEMMA StretchOfStretch ==
  ASSUME NEW S, NEW text \in Seq(S),
         NEW p \in 1 .. (Len(text) + 1), NEW q \in 0 .. Len(text), p <= q + 1,
         NEW i \in 1 .. (q - p + 2), NEW j \in 0 .. (q - p + 1), i <= j + 1
  PROVE  SubSeq(SubSeq(text, p, q), i, j) = SubSeq(text, p + i - 1, p + j - 1)
<1> DEFINE s == SubSeq(text, p, q)
           a == p + i - 1
           b == p + j - 1
<1>1. /\ s \in Seq(S)
      /\ Len(s) = q - p + 1
      /\ \A k \in 1 .. (q - p + 1) : s[k] = text[p + k - 1]
  BY Stretch
<1>2. /\ i \in 1 .. (Len(s) + 1) /\ j \in 0 .. Len(s)
      /\ a \in 1 .. (Len(text) + 1) /\ b \in 0 .. Len(text) /\ a <= b + 1
      /\ b - a + 1 = j - i + 1
      /\ \A k \in 1 .. (j - i + 1) :
           i + k - 1 \in 1 .. (q - p + 1) /\ p + (i + k - 1) - 1 = a + k - 1
  <2> HIDE DEF s
  <2> QED  BY <1>1
<1> HIDE DEF s, a, b
<1>3. /\ SubSeq(s, i, j) \in Seq(S)
      /\ Len(SubSeq(s, i, j)) = j - i + 1
      /\ \A k \in 1 .. (j - i + 1) : SubSeq(s, i, j)[k] = s[i + k - 1]
  <2>1. s \in Seq(S) /\ i \in 1 .. (Len(s) + 1) /\ j \in 0 .. Len(s) /\ i <= j + 1
    BY <1>1, <1>2, Zenon
  <2> QED  BY <2>1, Stretch, Zenon
<1>4. /\ SubSeq(text, a, b) \in Seq(S)
      /\ Len(SubSeq(text, a, b)) = b - a + 1
      /\ \A k \in 1 .. (b - a + 1) : SubSeq(text, a, b)[k] = text[a + k - 1]
  BY <1>2, Stretch, Zenon
<1>5. \A k \in 1 .. (j - i + 1) : SubSeq(s, i, j)[k] = SubSeq(text, a, b)[k]
  BY <1>1, <1>2, <1>3, <1>4, Zenon
<1>6. SubSeq(s, i, j) = SubSeq(text, a, b)
  BY <1>2, <1>3, <1>4, <1>5, SameText, Zenon
<1> QED
  BY <1>6, Zenon DEF s, a, b

(* What is left of what is left.                                           *)
LEMMA TailOfTail ==
  ASSUME NEW S, NEW text \in Seq(S),
         NEW p \in 1 .. Len(text), NEW d \in 0 .. (Len(text) - p)
  PROVE  LET rest == SubSeq(text, p, Len(text))
         IN  SubSeq(rest, d + 2, Len(rest)) = SubSeq(text, p + d + 1, Len(text))
<1> DEFINE l == Len(text) - p + 1
<1>1. Len(SubSeq(text, p, Len(text))) = l
  OBVIOUS
<1>2. SubSeq(SubSeq(text, p, Len(text)), d + 2, l)
        = SubSeq(text, p + (d + 2) - 1, p + l - 1)
  BY StretchOfStretch
<1>3. p + (d + 2) - 1 = p + d + 1 /\ p + l - 1 = Len(text)
  OBVIOUS
<1> QED
  BY <1>1, <1>2, <1>3, Zenon

(* A pair whose first token is the key k and whose second is "=".          *)
Binds(pair, k) == Len(pair) >= 2 /\ pair[1] = k /\ pair[2] = "="

(* What stands before the first "=" of a pair is the key k just when the   *)
(* pair begins with k and "=".                                             *)
LEMMA KeyOfPair ==
  ASSUME NEW S, NEW pair \in Seq(S), NEW k, k # "="
  PROVE  /\ SubSeq(pair, 1, IndexOf(pair, "=")) = <<k>> <=> Binds(pair, k)
         /\ Binds(pair, k) => IndexOf(pair, "=") = 1
<1> DEFINE eq == IndexOf(pair, "=")
<1>1. \/ /\ eq = -1
         /\ \A i \in 1 .. Len(pair) : pair[i] # "="
      \/ /\ eq \in 0 .. (Len(pair) - 1)
         /\ pair[eq + 1] = "="
         /\ \A j \in 1 .. eq : pair[j] # "="
  BY IndexOfFirst
<1> HIDE DEF eq
<1>2. SubSeq(pair, 1, eq) = <<k>> => eq = 1 /\ Binds(pair, k)
  <2> SUFFICES ASSUME SubSeq(pair, 1, eq) = <<k>>
               PROVE  eq = 1 /\ Binds(pair, k)
    OBVIOUS
  <2>1. Len(SubSeq(pair, 1, eq)) = 1 /\ SubSeq(pair, 1, eq)[1] = k
    <3>1. Len(<<k>>) = 1 /\ <<k>>[1] = k  OBVIOUS
    <3> QED  BY <3>1, Zenon
  <2>2. eq = 1
    BY <1>1, <2>1
  <2>3. SubSeq(pair, 1, 1)[1] = pair[1]
    BY <1>1, <2>2
  <2> QED
    BY <1>1, <2>1, <2>2, <2>3 DEF Binds
<1>3. Binds(pair, k) => eq = 1 /\ SubSeq(pair, 1, eq) = <<k>>
  <2> SUFFICES ASSUME Binds(pair, k)
               PROVE  eq = 1 /\ SubSeq(pair, 1, eq) = <<k>>
    OBVIOUS
  <2>1. eq = 1
    BY <1>1 DEF Binds
  <2>2. SubSeq(pair, 1, 1) = <<k>>
    <3>1. Len(pair) >= 2 /\ pair[1] = k  BY DEF Binds
    <3>2. /\ SubSeq(pair, 1, 1) \in Seq(S)
          /\ Len(SubSeq(pair, 1, 1)) = 1
          /\ SubSeq(pair, 1, 1)[1] = k
      BY <3>1
    <3>3. k \in S  BY <3>1
    <3>4. <<k>> \in Seq(S) /\ Len(<<k>>) = 1 /\ <<k>>[1] = k  BY <3>3
    <3>5. \A i \in 1 .. 1 : SubSeq(pair, 1, 1)[i] = <<k>>[i]
      BY <3>2, <3>4
    <3> QED  BY <3>2, <3>4, <3>5, SameText
  <2> QED  BY <2>1, <2>2
<1> QED
  BY <1>2, <1>3 DEF eq

(* The fields of the parse after a pair: a name or a version is overwritten*)
(* by a pair that binds it, and a bad value is remembered.                 *)
LEMMA AssignFields ==
  ASSUME NEW S, NEW pair \in Seq(S),
         NEW rest, NEW delim, NEW name, NEW version, NEW failed \in BOOLEAN
  PROVE  LET st == [rest |-> rest, delim |-> delim, name |-> name,
                    version |-> version, failed |-> failed]
             value == SubSeq(pair, 3, Len(pair))
             isName == Binds(pair, "name") \/ Binds(pair, "Name")
             isVersion == Binds(pair, "version")
         IN  Assign(st, pair) =
               [rest    |-> rest, delim |-> delim,
                name    |-> IF isName THEN value ELSE name,
                version |-> IF isVersion THEN Trimmed(value) ELSE version,
                failed  |-> \/ failed
                            \/ isName /\ ~ValidInput(value)
                            \/ isVersion /\ ~ValidVersion(value)]
<1> DEFINE st == [rest |-> rest, delim |-> delim, name |-> name,
                  version |-> version, failed |-> failed]
           value == SubSeq(pair, 3, Len(pair))
           eq == IndexOf(pair, "=")
           key == SubSeq(pair, 1, eq)
           isName == Binds(pair, "name") \/ Binds(pair, "Name")
           isVersion == Binds(pair, "version")
           after == [rest    |-> rest, delim |-> delim,
                     name    |-> IF isName THEN value ELSE name,
                     version |-> IF isVersion THEN Trimmed(value) ELSE version,
                     failed  |-> \/ failed
                                 \/ isName /\ ~ValidInput(value)
                                 \/ isVersion /\ ~ValidVersion(value)]
<1> SUFFICES Assign(st, pair) = after
  BY Zenon
<1>1. /\ key \in {<<"name">>, <<"Name">>} <=> isName
      /\ key = <<"version">> <=> isVersion
      /\ isName \/ isVersion => eq = 1
  <2>1. /\ key = <<"name">> <=> Binds(pair, "name")
        /\ Binds(pair, "name") => eq = 1
    BY KeyOfPair
  <2>2. /\ key = <<"Name">> <=> Binds(pair, "Name")
        /\ Binds(pair, "Name") => eq = 1
    BY KeyOfPair
  <2>3. /\ key = <<"version">> <=> Binds(pair, "version")
        /\ Binds(pair, "version") => eq = 1
    BY KeyOfPair
  <2> QED  BY <2>1, <2>2, <2>3, Zenon
<1>2. isVersion => ~isName
  BY DEF Binds
<1>3. 1 # -1 /\ 1 + 2 = 3
  OBVIOUS
<1>4. CASE isName
  <2>1. eq = 1  BY <1>1, <1>4, Zenon
  <2>2. eq # -1 /\ SubSeq(pair, eq + 2, Len(pair)) = value
    BY <2>1, <1>3
  <2>3. Assign(st, pair) =
          [st EXCEPT !.name = value, !.failed = @ \/ ~ValidInput(value)]
    <3> HIDE DEF isName, isVersion, value
    <3> QED  BY <2>2, <1>1, <1>4, Zenon DEF Assign
  <2>4. ~isVersion  BY <1>2, <1>4, Zenon
  <2> HIDE DEF isName, isVersion, value
  <2> QED  BY <2>3, <2>4, <1>4
<1>5. CASE isVersion
  <2>1. eq = 1  BY <1>1, <1>5, Zenon
  <2>2. eq # -1 /\ SubSeq(pair, eq + 2, Len(pair)) = value
    BY <2>1, <1>3
  <2>3. ~isName  BY <1>2, <1>5, Zenon
  <2>4. Assign(st, pair) =
          [st EXCEPT !.version = Trimmed(value),
                     !.failed = @ \/ ~ValidVersion(value)]
    <3> HIDE DEF isName, isVersion, value
    <3> QED  BY <2>2, <2>3, <1>1, <1>5, Zenon DEF Assign
  <2> HIDE DEF isName, isVersion, value
  <2> QED  BY <2>3, <2>4, <1>5
<1>6. CASE ~isName /\ ~isVersion
  <2>1. Assign(st, pair) = st
    <3> HIDE DEF isName, isVersion, value
    <3> QED  BY <1>1, <1>6, Zenon DEF Assign
  <2> HIDE DEF isName, isVersion, value
  <2> QED  BY <2>1, <1>6
<1> QED
  BY <1>4, <1>5, <1>6, Zenon

(* The stretch from p to q is a piece of the text.                         *)
IsPiece(input, p, q) ==
  /\ p \in 1 .. (Len(input) + 1) /\ q \in 0 .. Len(input) /\ p <= q + 1
  /\ p = 1 \/ input[p - 1] = Delimiter
  /\ q = Len(input) \/ input[q + 1] = Delimiter
  /\ \A i \in p .. q : input[i] # Delimiter

(* The bounds of a piece.                                                  *)
LEMMA PieceBounds ==
  ASSUME NEW S, NEW input \in Seq(S),
         NEW p \in Int, NEW q \in Int, IsPiece(input, p, q)
  PROVE  /\ p \in 1 .. (Len(input) + 1) /\ q \in 0 .. Len(input) /\ p <= q + 1
         /\ p \in Nat /\ q \in Nat
<1>1. p \in 1 .. (Len(input) + 1) /\ q \in 0 .. Len(input) /\ p <= q + 1
  BY Zenon DEF IsPiece
<1> QED
  BY <1>1

(* A piece is given by its first and its last place.                       *)
LEMMA PieceShape ==
  ASSUME NEW S, NEW input \in Seq(S), NEW b \in Pieces(input)
  PROVE  \E p, q \in Int :
           b = <<p, q>> /\ b[1] = p /\ b[2] = q /\ IsPiece(input, p, q)
<1> DEFINE X == 1 .. (Len(input) + 1)
           Y == 0 .. Len(input)
<1>1. b \in X \X Y
  BY Zenon DEF Pieces
<1>2. \E p \in X, q \in Y : b = <<p, q>>
  <2> HIDE DEF X, Y
  <2> QED  BY <1>1
<1>3. PICK p \in X, q \in Y : b = <<p, q>>
  BY <1>2, Zenon
<1>4. b[1] = p /\ b[2] = q
  BY <1>3
<1>5. p \in Int /\ q \in Int
  OBVIOUS
<1>6. IsPiece(input, p, q)
  BY <1>4, Zenon DEF Pieces, IsPiece
<1> QED
  BY <1>3, <1>4, <1>5, <1>6, Zenon

(* Where a piece starts says where it ends.                                *)
LEMMA PieceByStart ==
  ASSUME NEW S, NEW input \in Seq(S), NEW p \in Int, NEW q \in Int, NEW r \in Int,
         IsPiece(input, p, q), IsPiece(input, p, r)
  PROVE  q = r
<1>1. /\ p <= q + 1 /\ q <= Len(input)
      /\ p <= r + 1 /\ r <= Len(input)
  BY PieceBounds
<1>2. /\ q = Len(input) \/ input[q + 1] = Delimiter
      /\ r = Len(input) \/ input[r + 1] = Delimiter
      /\ \A i \in p .. q : input[i] # Delimiter
      /\ \A i \in p .. r : input[i] # Delimiter
  BY Zenon DEF IsPiece
<1>3. ~(q < r)
  <2> SUFFICES ASSUME q < r PROVE FALSE
    OBVIOUS
  <2>1. q + 1 \in p .. r /\ q # Len(input)
    BY <1>1
  <2> QED  BY <2>1, <1>2, Zenon
<1>4. ~(r < q)
  <2> SUFFICES ASSUME r < q PROVE FALSE
    OBVIOUS
  <2>1. r + 1 \in p .. q /\ r # Len(input)
    BY <1>1
  <2> QED  BY <2>1, <1>2, Zenon
<1> QED
  BY <1>3, <1>4

(* A piece binds a key when it begins with it and "="; no other binding    *)
(* starts inside of it.                                                    *)
LEMMA BindingOfPiece ==
  ASSUME NEW S, NEW input \in Seq(S), NEW p \in Int, NEW q \in Int,
         IsPiece(input, p, q), NEW keys
  PROVE  /\ <<p, q>> \in Bindings(input, keys)
              <=> \E k \in keys : Binds(SubSeq(input, p, q), k)
         /\ \A b \in Bindings(input, keys) :
              p <= b[1] /\ b[1] <= q + 1 => b = <<p, q>>
<1> DEFINE c == <<p, q>>
<1>0. c[1] = p /\ c[2] = q /\ c = <<c[1], c[2]>>
  OBVIOUS
<1>1. /\ p \in 1 .. (Len(input) + 1) /\ q \in 0 .. Len(input) /\ p <= q + 1
      /\ c \in Pieces(input)
  <2>1. p \in 1 .. (Len(input) + 1) /\ q \in 0 .. Len(input) /\ p <= q + 1
    BY PieceBounds
  <2>2. c \in (1 .. (Len(input) + 1)) \X (0 .. Len(input))
    BY <2>1
  <2>3. c \in Pieces(input)  BY <1>0, <2>2, Zenon DEF Pieces, IsPiece
  <2> QED  BY <2>1, <2>3, Zenon
<1>2. /\ Len(SubSeq(input, p, q)) = q - p + 1
      /\ \A i \in 1 .. (q - p + 1) : SubSeq(input, p, q)[i] = input[p + i - 1]
  BY <1>1, Stretch
<1>3. ASSUME p + 1 <= q
      PROVE  /\ SubSeq(input, p, q)[1] = input[p]
             /\ SubSeq(input, p, q)[2] = input[p + 1]
  <2>1. 1 \in 1 .. (q - p + 1) /\ 2 \in 1 .. (q - p + 1)
    BY <1>1, <1>3
  <2> QED  BY <2>1, <1>1, <1>2
<1>4. Len(SubSeq(input, p, q)) >= 2 <=> p + 1 <= q
  BY <1>1, <1>2
<1>5. c \in Bindings(input, keys)
        <=> p + 1 <= q /\ input[p] \in keys /\ input[p + 1] = "="
  BY <1>0, <1>1, Zenon DEF Bindings
<1>6. ASSUME NEW b \in Bindings(input, keys), p <= b[1], b[1] <= q + 1
      PROVE  b = c
  <2>1. b \in Pieces(input)
    BY Zenon DEF Bindings
  <2>2. PICK x \in Int, y \in Int :
          b = <<x, y>> /\ b[1] = x /\ b[2] = y /\ IsPiece(input, x, y)
    BY <2>1, PieceShape, Zenon
  <2>3. p <= x /\ x <= q + 1
    BY <1>6, <2>2, Zenon
  <2>4. x = p
    <3> SUFFICES ASSUME p < x PROVE FALSE
      BY <2>3
    <3>1. x - 1 \in p .. q /\ x # 1
      BY <1>1, <2>3
    <3> QED  BY <3>1, <2>2, Zenon DEF IsPiece
  <2>5. y = q
    BY <2>2, <2>4, PieceByStart
  <2> QED  BY <2>2, <2>4, <2>5, Zenon
<1>7. (p + 1 <= q /\ input[p] \in keys /\ input[p + 1] = "=")
         <=> \E k \in keys : Binds(SubSeq(input, p, q), k)
  BY <1>3, <1>4 DEF Binds
<1> QED
  BY <1>5, <1>6, <1>7, Zenon

-----------------------------------------------------------------------------
(* The loop's invariant.                                                   *)

NameKeys    == {"name", "Name"}
VersionKeys == {"version"}

(* The bindings that start before p.                                       *)
Seen(input, keys, p) == {b \in Bindings(input, keys) : b[1] < p}

Latest(bindings, b) == b \in bindings /\ \A c \in bindings : c[1] <= b[1]

(* What the loop knows of the name, and of the version, from the bindings  *)
(* it has seen.                                                            *)
NameRead(input, names, name) ==
  \/ names = {} /\ name = <<>>
  \/ \E b \in names : Latest(names, b) /\ name = ValueOf(input, b)

VersionRead(input, versions, version) ==
  \/ versions = {} /\ version = <<>>
  \/ \E b \in versions :
       Latest(versions, b) /\ version = Trimmed(ValueOf(input, b))

Spoiled(input, names, versions) ==
  \/ \E b \in names : ~ValidInput(ValueOf(input, b))
  \/ \E b \in versions : ~ValidVersion(ValueOf(input, b))

(* The loop stands at p, the start of a piece or the end of the text, and  *)
(* knows what the bindings before p say.                                   *)
HasRead(input, p, st) ==
  LET rest     == SubSeq(input, p, Len(input))
      names    == Seen(input, NameKeys, p)
      versions == Seen(input, VersionKeys, p)
  IN  /\ p \in 1 .. (Len(input) + 1)
      /\ p = 1 \/ p = Len(input) + 1 \/ input[p - 1] = Delimiter
      /\ st = [rest |-> rest, delim |-> IndexOf(rest, Delimiter), name |-> st.name,
               version |-> st.version, failed |-> st.failed]
      /\ NameRead(input, names, st.name)
      /\ VersionRead(input, versions, st.version)
      /\ st.failed = (Blank(input) \/ Spoiled(input, names, versions))

(* The state of the loop with another rest.                                *)
Advanced(st, rest) == [st EXCEPT !.rest = rest, !.delim = IndexOf(rest, Delimiter)]

(* A round cuts off the piece at p and goes on after the delimiter behind  *)
(* it, or ends with the text.                                              *)
LEMMA RoundCuts ==
  ASSUME NEW S, NEW input \in Seq(S), NEW p \in 1 .. Len(input),
         p = 1 \/ input[p - 1] = Delimiter, NEW st,
         st.rest = SubSeq(input, p, Len(input)),
         st.delim = IndexOf(st.rest, Delimiter)
  PROVE  \E q, r \in Int :
           /\ IsPiece(input, p, q)
           /\ p < r /\ r <= q + 2 /\ r <= Len(input) + 1
           /\ r = Len(input) + 1 \/ input[r - 1] = Delimiter
           /\ Round(st) = Assign(Advanced(st, SubSeq(input, r, Len(input))),
                                 SubSeq(input, p, q))
<1> DEFINE rest == SubSeq(input, p, Len(input))
           l == Len(input) - p + 1
<1>1. /\ rest \in Seq(S) /\ Len(rest) = l /\ l \in Nat /\ l >= 1
      /\ \A i \in 1 .. l : rest[i] = input[p + i - 1]
  BY Stretch
<1>2. rest # <<>>
  BY <1>1
<1>3. st.rest = rest /\ st.delim = IndexOf(rest, Delimiter)
  BY Zenon
<1>4. \/ /\ IndexOf(rest, Delimiter) = -1
         /\ \A i \in 1 .. l : rest[i] # Delimiter
      \/ /\ IndexOf(rest, Delimiter) \in 0 .. (l - 1)
         /\ rest[IndexOf(rest, Delimiter) + 1] = Delimiter
         /\ \A j \in 1 .. IndexOf(rest, Delimiter) : rest[j] # Delimiter
  <2>1. \/ /\ IndexOf(rest, Delimiter) = -1
           /\ \A i \in 1 .. Len(rest) : rest[i] # Delimiter
        \/ /\ IndexOf(rest, Delimiter) \in 0 .. (Len(rest) - 1)
           /\ rest[IndexOf(rest, Delimiter) + 1] = Delimiter
           /\ \A j \in 1 .. IndexOf(rest, Delimiter) : rest[j] # Delimiter
    BY <1>1, IndexOfFirst, Zenon
  <2> QED  BY <1>1, <2>1, Zenon
<1>5. CASE IndexOf(rest, Delimiter) = -1
  <2> DEFINE q == Len(input)
             r == Len(input) + 1
  <2>1. ASSUME NEW i \in p .. q
        PROVE  input[i] # Delimiter
    <3>1. i - p + 1 \in 1 .. l /\ p + (i - p + 1) - 1 = i  OBVIOUS
    <3>2. -1 \notin 0 .. (l - 1)  OBVIOUS
    <3> QED  BY <3>1, <3>2, <1>1, <1>4, <1>5, Zenon
  <2>2. IsPiece(input, p, q)
    <3>1. p \in 1 .. (Len(input) + 1) /\ q \in 0 .. Len(input) /\ p <= q + 1
      OBVIOUS
    <3> QED  BY <3>1, <2>1, Zenon DEF IsPiece
  <2>3. SubSeq(input, r, Len(input)) = <<>>
    OBVIOUS
  <2>4. IndexOf(<<>>, Delimiter) = -1
    BY DEF IndexOf
  <2>5. Round(st) = Assign([st EXCEPT !.rest = <<>>], rest)
    <3> HIDE DEF rest
    <3> QED  BY <1>2, <1>3, <1>5, Zenon DEF Round
  <2>6. [st EXCEPT !.rest = <<>>] = [st EXCEPT !.rest = <<>>, !.delim = -1]
    <3> HIDE DEF rest
    <3> QED  BY <1>3, <1>5
  <2>7. /\ q \in Int /\ r \in Int
        /\ p < r /\ r <= q + 2 /\ r <= Len(input) + 1
    OBVIOUS
  <2>8. Round(st) = Assign(Advanced(st, SubSeq(input, r, Len(input))),
                           SubSeq(input, p, q))
    BY <2>3, <2>4, <2>5, <2>6, Zenon DEF Advanced
  <2> QED  BY <2>2, <2>7, <2>8, Zenon
<1>6. CASE IndexOf(rest, Delimiter) # -1
  <2>1. PICK d \in 0 .. (l - 1) :
          /\ d = IndexOf(rest, Delimiter) /\ rest[d + 1] = Delimiter
          /\ \A j \in 1 .. d : rest[j] # Delimiter
    BY <1>4, <1>6, Zenon
  <2> DEFINE q == p + d - 1
             r == p + d + 1
  <2>2. ASSUME NEW i \in p .. q
        PROVE  input[i] # Delimiter
    <3>1. /\ i - p + 1 \in 1 .. l /\ i - p + 1 \in 1 .. d
          /\ p + (i - p + 1) - 1 = i
      BY <2>1
    <3> QED  BY <3>1, <2>1, <1>1
  <2>3. input[q + 1] = Delimiter /\ input[r - 1] = Delimiter
    <3>1. d + 1 \in 1 .. l /\ p + (d + 1) - 1 = q + 1 /\ r - 1 = q + 1
      BY <2>1
    <3> QED  BY <3>1, <2>1, <1>1
  <2>4. IsPiece(input, p, q)
    <3>1. p \in 1 .. (Len(input) + 1) /\ q \in 0 .. Len(input) /\ p <= q + 1
      BY <2>1
    <3> QED  BY <3>1, <2>2, <2>3, Zenon DEF IsPiece
  <2>5. SubSeq(rest, 1, d) = SubSeq(input, p, q)
    <3>1. /\ 1 \in 1 .. (Len(input) - p + 2) /\ d \in 0 .. (Len(input) - p + 1)
          /\ 1 <= d + 1 /\ p + 1 - 1 = p
      BY <2>1
    <3> QED  BY <3>1, StretchOfStretch
  <2>6. SubSeq(rest, d + 2, Len(rest)) = SubSeq(input, r, Len(input))
    <3>1. d \in 0 .. (Len(input) - p)
      OBVIOUS
    <3> QED  BY <3>1, TailOfTail
  <2>7. Round(st) = Assign(Advanced(st, SubSeq(input, r, Len(input))),
                           SubSeq(input, p, q))
    <3>1. Round(st) = Assign(Advanced(st, SubSeq(rest, d + 2, Len(rest))),
                             SubSeq(rest, 1, d))
      <4> HIDE DEF rest
      <4> QED  BY <1>2, <1>3, <1>6, <2>1, Zenon DEF Round, Advanced
    <3> QED  BY <3>1, <2>5, <2>6, Zenon
  <2>8. /\ q \in Int /\ r \in Int
        /\ p < r /\ r <= q + 2 /\ r <= Len(input) + 1
    OBVIOUS
  <2> QED  BY <2>3, <2>4, <2>7, <2>8, Zenon
<1> QED
  BY <1>5, <1>6, Zenon

(* Behind a piece, the bindings seen are those seen before it, and the     *)
(* piece itself if it is one.                                              *)
LEMMA SeenGrows ==
  ASSUME NEW S, NEW input \in Seq(S), NEW p \in Int, NEW q \in Int, NEW r \in Int,
         IsPiece(input, p, q), p < r, r <= q + 2, NEW keys
  PROVE  /\ <<p, q>> \in Bindings(input, keys) =>
              /\ Seen(input, keys, r) = Seen(input, keys, p) \cup {<<p, q>>}
              /\ Latest(Seen(input, keys, r), <<p, q>>)
         /\ <<p, q>> \notin Bindings(input, keys) =>
              Seen(input, keys, r) = Seen(input, keys, p)
<1>0. \A b \in Bindings(input, keys) : p <= b[1] /\ b[1] <= q + 1 => b = <<p, q>>
  BY BindingOfPiece, Zenon
<1>1. ASSUME NEW b \in Bindings(input, keys)
      PROVE  /\ b[1] < r <=> b[1] < p \/ b = <<p, q>>
             /\ b[1] < r => b[1] <= p
  <2>1. b \in Pieces(input)
    BY Zenon DEF Bindings
  <2>2. PICK x \in Int, y \in Int :
          b = <<x, y>> /\ b[1] = x /\ b[2] = y /\ IsPiece(input, x, y)
    BY <2>1, PieceShape, Zenon
  <2>3. p <= x /\ x <= q + 1 => b = <<p, q>>
    <3>1. p <= b[1] /\ b[1] <= q + 1 => b = <<p, q>>
      BY <1>0, Zenon
    <3> QED  BY <3>1, <2>2, Zenon
  <2>4. b = <<p, q>> => x = p
    BY <2>2
  <2>5. /\ x < r <=> x < p \/ b = <<p, q>>
        /\ x < r => x <= p
    BY <2>3, <2>4
  <2> QED  BY <2>2, <2>5, Zenon
<1>2. <<p, q>>[1] = p
  OBVIOUS
<1> QED
  BY <1>1, <1>2, Zenon DEF Seen, Latest

(* What stands behind the first "=" of a binding is its value.             *)
LEMMA ValueOfPiece ==
  ASSUME NEW S, NEW input \in Seq(S), NEW p \in Int, NEW q \in Int,
         IsPiece(input, p, q), p + 1 <= q
  PROVE  LET pair == SubSeq(input, p, q)
         IN  SubSeq(pair, 3, Len(pair)) = ValueOf(input, <<p, q>>)
<1>1. p \in 1 .. (Len(input) + 1) /\ q \in 0 .. Len(input) /\ p <= q + 1
  BY PieceBounds
<1>2. Len(SubSeq(input, p, q)) = q - p + 1
  BY <1>1, Stretch
<1>3. SubSeq(SubSeq(input, p, q), 3, q - p + 1)
        = SubSeq(input, p + 3 - 1, p + (q - p + 1) - 1)
  <2>1. /\ 3 \in 1 .. (q - p + 2) /\ q - p + 1 \in 0 .. (q - p + 1)
        /\ 3 <= (q - p + 1) + 1
    BY <1>1
  <2> QED  BY <1>1, <2>1, StretchOfStretch
<1>4. p + 3 - 1 = p + 2 /\ p + (q - p + 1) - 1 = q
  BY <1>1
<1>5. <<p, q>>[1] = p /\ <<p, q>>[2] = q
  OBVIOUS
<1> QED
  BY <1>2, <1>3, <1>4, <1>5, Zenon DEF ValueOf

(* The fields of the state of the loop.                                    *)
LEMMA Fields ==
  ASSUME NEW st, NEW rest, NEW delim, NEW name, NEW version, NEW failed,
         st = [rest |-> rest, delim |-> delim, name |-> name,
               version |-> version, failed |-> failed]
  PROVE  /\ st.rest = rest /\ st.delim = delim /\ st.name = name
         /\ st.version = version /\ st.failed = failed
  OBVIOUS

(* The state of the loop when it goes on.                                  *)
LEMMA FieldsAdvanced ==
  ASSUME NEW st, NEW rest, NEW delim, NEW name, NEW version, NEW failed,
         st = [rest |-> rest, delim |-> delim, name |-> name,
               version |-> version, failed |-> failed],
         NEW x
  PROVE  Advanced(st, x) =
           [rest |-> x, delim |-> IndexOf(x, Delimiter), name |-> name,
            version |-> version, failed |-> failed]
<1> DEFINE y == IndexOf(x, Delimiter)
           one == [rest |-> x, delim |-> delim, name |-> name,
                   version |-> version, failed |-> failed]
<1> HIDE DEF y
<1>1. [st EXCEPT !.rest = x] = one
  OBVIOUS
<1>2. [one EXCEPT !.delim = y] = [rest |-> x, delim |-> y, name |-> name,
                                  version |-> version, failed |-> failed]
  OBVIOUS
<1>3. [st EXCEPT !.rest = x, !.delim = y]
        = [[st EXCEPT !.rest = x] EXCEPT !.delim = y]
  OBVIOUS
<1>4. Advanced(st, x) = [st EXCEPT !.rest = x, !.delim = y]
  BY Zenon DEF Advanced, y
<1> QED
  BY <1>1, <1>2, <1>3, <1>4, Zenon DEF y

(* The loop's invariant holds at the start.                                *)
LEMMA StartReads ==
  ASSUME NEW S, NEW input \in Seq(S)
  PROVE  HasRead(input, 1, Started(input))
<1>1. ASSUME NEW keys
      PROVE  Seen(input, keys, 1) = {}
  <2>1. ASSUME NEW b \in Bindings(input, keys), b[1] < 1
        PROVE  FALSE
    <3>1. b \in Pieces(input)
      BY Zenon DEF Bindings
    <3>2. PICK x \in Int, y \in Int : b[1] = x /\ IsPiece(input, x, y)
      BY <3>1, PieceShape, Zenon
    <3>3. x \in 1 .. (Len(input) + 1)
      BY <3>2, PieceBounds
    <3> QED  BY <2>1, <3>2, <3>3
  <2> QED  BY <2>1, Zenon DEF Seen
<1>2. SubSeq(input, 1, Len(input)) = input /\ 1 \in 1 .. (Len(input) + 1)
  OBVIOUS
<1> DEFINE st == Started(input)
<1>3. /\ st = [rest |-> input, delim |-> IndexOf(input, Delimiter),
               name |-> st.name, version |-> st.version, failed |-> st.failed]
      /\ st.name = <<>> /\ st.version = <<>> /\ st.failed = Blank(input)
  BY DEF Started
<1> HIDE DEF st
<1>4. ~Spoiled(input, {}, {}) /\ NameRead(input, {}, <<>>) /\ VersionRead(input, {}, <<>>)
  BY Zenon DEF Spoiled, NameRead, VersionRead
<1>5. Blank(input) \in BOOLEAN
  BY Zenon DEF Blank
<1>6. st.failed = (Blank(input) \/ Spoiled(input, {}, {}))
  BY <1>3, <1>4, <1>5, Zenon
<1> QED
  BY <1>1, <1>2, <1>3, <1>4, <1>6, Zenon DEF HasRead, st

(* A round takes the loop from the invariant to the invariant, further on. *)
LEMMA RoundReads ==
  ASSUME NEW S, NEW input \in Seq(S), NEW p \in Int, p <= Len(input),
         NEW st, HasRead(input, p, st)
  PROVE  \E r \in Int : p < r /\ HasRead(input, r, Round(st))
<1>1. /\ p \in 1 .. (Len(input) + 1)
      /\ p = 1 \/ p = Len(input) + 1 \/ input[p - 1] = Delimiter
      /\ st = [rest |-> SubSeq(input, p, Len(input)),
               delim |-> IndexOf(SubSeq(input, p, Len(input)), Delimiter),
               name |-> st.name, version |-> st.version, failed |-> st.failed]
      /\ NameRead(input, Seen(input, NameKeys, p), st.name)
      /\ VersionRead(input, Seen(input, VersionKeys, p), st.version)
      /\ st.failed = (Blank(input) \/ Spoiled(input, Seen(input, NameKeys, p),
                                                     Seen(input, VersionKeys, p)))
  BY Zenon DEF HasRead
<1>2. /\ p \in 1 .. Len(input) /\ p # Len(input) + 1
      /\ p = 1 \/ input[p - 1] = Delimiter
  <2>1. p \in 1 .. Len(input) /\ p # Len(input) + 1
    BY <1>1
  <2> QED  BY <1>1, <2>1, Zenon
<1>3. /\ st.rest = SubSeq(input, p, Len(input))
      /\ st.delim = IndexOf(st.rest, Delimiter)
      /\ \A x : Advanced(st, x) =
                  [rest |-> x, delim |-> IndexOf(x, Delimiter), name |-> st.name,
                   version |-> st.version, failed |-> st.failed]
  <2> DEFINE rest == SubSeq(input, p, Len(input))
             delim == IndexOf(rest, Delimiter)
  <2> HIDE DEF rest, delim
  <2>1. \E n, v, f : st = [rest |-> rest, delim |-> delim, name |-> n,
                           version |-> v, failed |-> f]
    BY <1>1, Zenon DEF rest, delim
  <2>2. PICK n, v, f : st = [rest |-> rest, delim |-> delim, name |-> n,
                             version |-> v, failed |-> f]
    BY <2>1, Zenon
  <2>3. /\ st.rest = rest /\ st.delim = delim
        /\ st.name = n /\ st.version = v /\ st.failed = f
    BY <2>2, Fields
  <2>4. ASSUME NEW x
        PROVE  Advanced(st, x) = [rest |-> x, delim |-> IndexOf(x, Delimiter),
                                  name |-> n, version |-> v, failed |-> f]
    BY <2>2, FieldsAdvanced
  <2> QED  BY <2>3, <2>4, Zenon DEF rest, delim
<1>4. st.failed \in BOOLEAN
  BY <1>1, Zenon DEF Blank, Spoiled
<1>5. PICK q \in Int, r \in Int :
        /\ IsPiece(input, p, q)
        /\ p < r /\ r <= q + 2 /\ r <= Len(input) + 1
        /\ r = Len(input) + 1 \/ input[r - 1] = Delimiter
        /\ Round(st) = Assign(Advanced(st, SubSeq(input, r, Len(input))),
                              SubSeq(input, p, q))
  <2>1. /\ st.rest = SubSeq(input, p, Len(input))
        /\ st.delim = IndexOf(st.rest, Delimiter)
    BY <1>3, Zenon
  <2> QED  BY <1>2, <2>1, RoundCuts, Zenon
<1> DEFINE c == <<p, q>>
           pair == SubSeq(input, p, q)
           value == SubSeq(pair, 3, Len(pair))
           rest == SubSeq(input, r, Len(input))
           isName == Binds(pair, "name") \/ Binds(pair, "Name")
           isVersion == Binds(pair, "version")
           names == Seen(input, NameKeys, p)
           namesNow == Seen(input, NameKeys, r)
           versions == Seen(input, VersionKeys, p)
           versionsNow == Seen(input, VersionKeys, r)
           name == IF isName THEN value ELSE st.name
           version == IF isVersion THEN Trimmed(value) ELSE st.version
           failed == \/ st.failed
                     \/ isName /\ ~ValidInput(value)
                     \/ isVersion /\ ~ValidVersion(value)
<1>6. Round(st) = [rest |-> rest, delim |-> IndexOf(rest, Delimiter),
                   name |-> name, version |-> version, failed |-> failed]
  <2>1. Advanced(st, rest)
          = [rest |-> rest, delim |-> IndexOf(rest, Delimiter),
             name |-> st.name, version |-> st.version, failed |-> st.failed]
    BY <1>3, Zenon
  <2>2. pair \in Seq(S)
    <3>1. p \in 1 .. (Len(input) + 1) /\ q \in 0 .. Len(input) /\ p <= q + 1
      BY <1>5, PieceBounds
    <3> QED  BY <3>1, Stretch
  <2>3. Assign([rest |-> rest, delim |-> IndexOf(rest, Delimiter),
                name |-> st.name, version |-> st.version, failed |-> st.failed],
               pair) =
          [rest |-> rest, delim |-> IndexOf(rest, Delimiter),
           name |-> name, version |-> version, failed |-> failed]
    <3> HIDE DEF rest, pair
    <3> QED  BY <2>2, <1>4, AssignFields
  <2> QED  BY <2>1, <2>3, <1>5, Zenon
<1>7. /\ isName <=> c \in Bindings(input, NameKeys)
      /\ isVersion <=> c \in Bindings(input, VersionKeys)
  <2>1. /\ c \in Bindings(input, NameKeys) <=> \E k \in NameKeys : Binds(pair, k)
        /\ c \in Bindings(input, VersionKeys) <=> \E k \in VersionKeys : Binds(pair, k)
    BY <1>5, BindingOfPiece, Zenon
  <2> QED  BY <2>1, Zenon DEF NameKeys, VersionKeys
<1>8. isName \/ isVersion => value = ValueOf(input, c)
  <2>1. ASSUME isName \/ isVersion
        PROVE  p + 1 <= q
    <3>1. c[1] + 1 <= c[2]
      BY <1>7, <2>1, Zenon DEF Bindings
    <3>2. c[1] = p /\ c[2] = q
      OBVIOUS
    <3> QED  BY <3>1, <3>2, Zenon
  <2>2. p + 1 <= q => value = ValueOf(input, c)
    BY <1>5, ValueOfPiece, Zenon
  <2> QED  BY <2>1, <2>2, Zenon
<1>9. /\ isName => namesNow = names \cup {c} /\ Latest(namesNow, c)
      /\ ~isName => namesNow = names
      /\ isVersion => versionsNow = versions \cup {c} /\ Latest(versionsNow, c)
      /\ ~isVersion => versionsNow = versions
  <2>1. /\ c \in Bindings(input, NameKeys) =>
             namesNow = names \cup {c} /\ Latest(namesNow, c)
        /\ c \notin Bindings(input, NameKeys) => namesNow = names
    BY <1>5, SeenGrows
  <2>2. /\ c \in Bindings(input, VersionKeys) =>
             versionsNow = versions \cup {c} /\ Latest(versionsNow, c)
        /\ c \notin Bindings(input, VersionKeys) => versionsNow = versions
    BY <1>5, SeenGrows
  <2> QED  BY <2>1, <2>2, <1>7, Zenon
<1> HIDE DEF c, value, rest, isName, isVersion, names, namesNow, versions, versionsNow
<1>10. NameRead(input, namesNow, name)
  <2>1. CASE isName
    BY <2>1, <1>8, <1>9, Zenon DEF NameRead, Latest
  <2>2. CASE ~isName
    BY <2>2, <1>1, <1>9, Zenon DEF names
  <2> QED  BY <2>1, <2>2, Zenon
<1>11. VersionRead(input, versionsNow, version)
  <2>1. CASE isVersion
    BY <2>1, <1>8, <1>9, Zenon DEF VersionRead, Latest
  <2>2. CASE ~isVersion
    BY <2>2, <1>1, <1>9, Zenon DEF versions
  <2> QED  BY <2>1, <2>2, Zenon
<1>12. failed = (Blank(input) \/ Spoiled(input, namesNow, versionsNow))
  <2>1. Spoiled(input, namesNow, versionsNow) <=>
          \/ Spoiled(input, names, versions)
          \/ isName /\ ~ValidInput(value)
          \/ isVersion /\ ~ValidVersion(value)
    BY <1>8, <1>9, Zenon DEF Spoiled
  <2>2. st.failed <=> Blank(input) \/ Spoiled(input, names, versions)
    BY <1>1, Zenon DEF names, versions
  <2> QED  BY <2>1, <2>2, Zenon
<1>13. r \in 1 .. (Len(input) + 1)
  BY <1>1, <1>5
<1>14. HasRead(input, r, Round(st))
  <2> DEFINE now == Round(st)
  <2>1. /\ now.name = name /\ now.version = version /\ now.failed = failed
        /\ now = [rest |-> rest, delim |-> IndexOf(rest, Delimiter), name |-> now.name,
                  version |-> now.version, failed |-> now.failed]
    <3> HIDE DEF name, version, failed
    <3> QED  BY <1>6
  <2> HIDE DEF now, name, version, failed
  <2>2. HasRead(input, r, now)
    BY <2>1, <1>5, <1>10, <1>11, <1>12, <1>13, Zenon
       DEF HasRead, rest, namesNow, versionsNow
  <2> QED  BY <2>2, Zenon DEF now
<1> QED
  BY <1>5, <1>14, Zenon

(* After as many rounds as the text has tokens, the loop has read all.     *)
LEMMA LoopReads ==
  ASSUME NEW S, NEW input \in Seq(S), NEW after, after[0] = Started(input),
         \A n \in 1 .. Len(input) : after[n] = Round(after[n - 1])
  PROVE  HasRead(input, Len(input) + 1, after[Len(input)])
<1> DEFINE Reads(n) == \E p \in Int : n + 1 <= p /\ HasRead(input, p, after[n])
           T == {n \in 0 .. Len(input) : ~Reads(n)}
<1>1. ASSUME NEW n \in 0 .. Len(input), NEW p \in Int,
             n + 1 <= p, HasRead(input, p, after[n])
      PROVE  p <= Len(input) + 1
  <2>1. p \in 1 .. (Len(input) + 1)
    BY <1>1, Zenon DEF HasRead
  <2> QED  BY <2>1
<1>2. T = {}
  <2> SUFFICES ASSUME T # {} PROVE FALSE
    BY Zenon
  <2>1. PICK m \in T : \A j \in T : m <= j
    <3>1. T \subseteq Nat  OBVIOUS
    <3> QED  BY <3>1, LeastElement, Zenon
  <2>2. m \in 0 .. Len(input) /\ ~Reads(m)
    BY <2>1, Zenon
  <2>3. CASE m = 0
    <3>1. Reads(0)
      <4>1. HasRead(input, 1, after[0])
        BY StartReads, Zenon
      <4>2. 0 + 1 <= 1 /\ 1 \in Int  OBVIOUS
      <4> QED  BY <4>1, <4>2, Zenon
    <3> QED  BY <3>1, <2>2, <2>3, Zenon
  <2>4. CASE m # 0
    <3> DEFINE n == m - 1
               st == after[n]
    <3>1. /\ n \in 0 .. Len(input) /\ ~(m <= n) /\ m \in 1 .. Len(input)
          /\ n + 1 = m
      BY <2>2, <2>4
    <3>2. PICK p \in Int : n + 1 <= p /\ HasRead(input, p, st)
      BY <3>1, <2>1, Zenon
    <3>3. after[m] = Round(st)
      BY <3>1, Zenon
    <3>4. CASE p <= Len(input)
      <4>1. PICK r \in Int : p < r /\ HasRead(input, r, Round(st))
        BY <3>2, <3>4, RoundReads, Zenon
      <4>2. m + 1 <= r
        BY <3>1, <3>2, <4>1
      <4> QED  BY <4>1, <4>2, <3>3, <2>2, Zenon
    <3>5. CASE ~(p <= Len(input))
      <4>1. p <= Len(input) + 1
        BY <1>1, <3>1, <3>2, Zenon
      <4>2. p = Len(input) + 1 /\ m + 1 <= p
        <5>1. m \in Int /\ m <= Len(input) /\ Len(input) \in Nat
          <6> HIDE DEF n, T, Reads
          <6> QED  BY <3>1
        <5> HIDE DEF n, st, T, Reads
        <5> QED  BY <4>1, <5>1, <3>5
      <4>3. \E a, d, f, v : st = [rest |-> SubSeq(input, p, Len(input)), delim |-> d,
                                  name |-> a, version |-> v, failed |-> f]
        <5> HIDE DEF n, st, T, Reads
        <5>1. st = [rest |-> SubSeq(input, p, Len(input)),
                    delim |-> IndexOf(SubSeq(input, p, Len(input)), Delimiter),
                    name |-> st.name, version |-> st.version, failed |-> st.failed]
          BY <3>2, Zenon DEF HasRead
        <5> QED  BY <5>1, Zenon
      <4>4. st.rest = SubSeq(input, p, Len(input))
        <5> HIDE DEF st
        <5> QED  BY <4>3, Fields
      <4>5. SubSeq(input, p, Len(input)) = <<>>
        BY <4>2
      <4>6. Round(st) = st
        BY <4>4, <4>5, Zenon DEF Round
      <4> QED  BY <3>2, <3>3, <4>2, <4>6, <2>2, Zenon
    <3> QED  BY <3>4, <3>5, Zenon
  <2> QED  BY <2>3, <2>4, Zenon
<1>3. PICK p \in Int : Len(input) + 1 <= p /\ HasRead(input, p, after[Len(input)])
  <2>1. Len(input) \in 0 .. Len(input)  OBVIOUS
  <2> QED  BY <1>2, <2>1, Zenon
<1>4. p = Len(input) + 1
  <2>1. Len(input) \in 0 .. Len(input)  OBVIOUS
  <2>2. p <= Len(input) + 1
    BY <1>1, <1>3, <2>1, Zenon
  <2> QED  BY <1>3, <2>2
<1> QED
  BY <1>3, <1>4, Zenon

(* At the end every binding has been seen.                                 *)
LEMMA AllSeen ==
  ASSUME NEW S, NEW input \in Seq(S), NEW keys
  PROVE  Seen(input, keys, Len(input) + 1) = Bindings(input, keys)
<1>1. ASSUME NEW b \in Bindings(input, keys)
      PROVE  b[1] < Len(input) + 1
  <2>1. b \in Pieces(input) /\ b[1] + 1 <= b[2]
    BY Zenon DEF Bindings
  <2>2. PICK x \in Int, y \in Int : b[1] = x /\ b[2] = y /\ IsPiece(input, x, y)
    BY <2>1, PieceShape, Zenon
  <2>3. y \in 0 .. Len(input)
    BY <2>2, PieceBounds
  <2>4. x + 1 <= y
    BY <2>1, <2>2, Zenon
  <2>5. x < Len(input) + 1
    BY <2>3, <2>4
  <2> QED  BY <2>2, <2>5, Zenon
<1> QED
  BY <1>1, Zenon DEF Seen

(* The last binding is the only one that none starts behind.               *)
LEMMA LatestIsLast ==
  ASSUME NEW S, NEW input \in Seq(S), NEW keys, NEW b,
         Latest(Bindings(input, keys), b)
  PROVE  LastOf(Bindings(input, keys)) = b
<1> DEFINE all == Bindings(input, keys)
           c == LastOf(all)
<1>1. b \in all /\ \A d \in all : d[1] <= b[1]
  BY Zenon DEF Latest
<1>2. c \in all /\ \A d \in all : d[1] <= c[1]
  <2> HIDE DEF all
  <2> QED  BY <1>1, Zenon DEF LastOf
<1> HIDE DEF c
<1>3. b \in Pieces(input) /\ c \in Pieces(input)
  BY <1>1, <1>2, Zenon DEF Bindings
<1>4. PICK p \in Int, q \in Int : b = <<p, q>> /\ b[1] = p /\ IsPiece(input, p, q)
  BY <1>3, PieceShape, Zenon
<1>5. PICK x \in Int, y \in Int : c = <<x, y>> /\ c[1] = x /\ IsPiece(input, x, y)
  BY <1>3, PieceShape, Zenon
<1>6. p <= x /\ x <= p
  BY <1>1, <1>2, <1>4, <1>5, Zenon
<1>7. p = x
  BY <1>6
<1>8. q = y
  BY <1>4, <1>5, <1>7, PieceByStart
<1> QED
  BY <1>4, <1>5, <1>7, <1>8, Zenon DEF c

(* A good value is not empty.                                              *)
LEMMA GoodValues ==
  /\ ~ValidInput(<<>>)
  /\ \A text : ValidVersion(text) => Trimmed(text) # <<>>
<1>1. ~ValidInput(<<>>)
  BY DEF ValidInput, Blank
<1>2. ASSUME NEW text, ValidVersion(text) PROVE Trimmed(text) # <<>>
  <2>1. Len(Trimmed(text)) \in 1 .. 3
    BY <1>2, Zenon DEF ValidVersion
  <2>2. Len(<<>>) \notin 1 .. 3
    OBVIOUS
  <2> QED  BY <2>1, <2>2, Zenon
<1> QED
  BY <1>1, <1>2, Zenon

(* ParseFrom reads from every text what it means, the exception included:  *)
(* the last value of either key, whatever the order of the pairs, and only *)
(* if all of their values are good.  The text may have tokens of any kind. *)
THEOREM ParseFromMeaning ==
  ASSUME NEW S, NEW input \in Seq(S)
  PROVE  ParseFrom(input) = Meaning(input)
<1> DEFINE names == Bindings(input, NameKeys)
           versions == Bindings(input, VersionKeys)
           spoiled == Spoiled(input, names, versions)
<1>1. PICK end :
        /\ ParseFrom(input) = Outcome(end)
        /\ HasRead(input, Len(input) + 1, end)
  <2>1. Len(input) \in Nat  OBVIOUS
  <2>2. PICK after :
          /\ after[0] = Started(input)
          /\ \A n \in 1 .. Len(input) : after[n] = Round(after[n - 1])
          /\ ParseFrom(input) = Outcome(after[Len(input)])
    BY <2>1, ParseFromRounds, Zenon
  <2>3. HasRead(input, Len(input) + 1, after[Len(input)])
    BY <2>2, LoopReads, Zenon
  <2> QED  BY <2>2, <2>3, Zenon
<1>2. /\ NameRead(input, names, end.name)
      /\ VersionRead(input, versions, end.version)
      /\ end.failed = (Blank(input) \/ spoiled)
  <2>1. /\ Seen(input, NameKeys, Len(input) + 1) = names
        /\ Seen(input, VersionKeys, Len(input) + 1) = versions
    BY AllSeen, Zenon
  <2> QED  BY <1>1, <2>1, Zenon DEF HasRead
<1>3. Meaning(input) =
        IF names = {} \/ versions = {} \/ spoiled THEN NoInfo
        ELSE [name    |-> ValueOf(input, LastOf(names)),
              version |-> Trimmed(ValueOf(input, LastOf(versions)))]
  BY Zenon DEF Meaning, Spoiled, NameKeys, VersionKeys
<1>4. CASE names = {} \/ versions = {}
  <2>1. end.name = <<>> \/ end.version = <<>>
    BY <1>2, <1>4, Zenon DEF NameRead, VersionRead
  <2> QED  BY <1>1, <1>3, <1>4, <2>1, Zenon DEF Outcome
<1>5. CASE spoiled
  <2>1. end.failed
    BY <1>2, <1>5, Zenon
  <2> QED  BY <1>1, <1>3, <1>5, <2>1, Zenon DEF Outcome
<1>6. CASE names # {} /\ versions # {} /\ ~spoiled
  <2> HIDE DEF names, versions, spoiled
  <2>1. PICK b \in names : Latest(names, b) /\ end.name = ValueOf(input, b)
    BY <1>2, <1>6, Zenon DEF NameRead
  <2>2. PICK c \in versions :
          Latest(versions, c) /\ end.version = Trimmed(ValueOf(input, c))
    BY <1>2, <1>6, Zenon DEF VersionRead
  <2>3. b = LastOf(names) /\ c = LastOf(versions)
    BY <2>1, <2>2, LatestIsLast, Zenon DEF names, versions
  <2>4. ValidInput(end.name) /\ ValidVersion(ValueOf(input, c))
    BY <1>6, <2>1, Zenon DEF spoiled, Spoiled
  <2>5. end.name # <<>> /\ end.version # <<>>
    BY <2>2, <2>4, GoodValues, Zenon
  <2>6. ~Blank(input)
    <3>1. b \in Pieces(input) /\ b[1] + 1 <= b[2] /\ input[b[1] + 1] = "="
      BY Zenon DEF names, Bindings
    <3>2. PICK x \in Int, y \in Int : b[1] = x /\ b[2] = y /\ IsPiece(input, x, y)
      BY <3>1, PieceShape, Zenon
    <3>3. x \in 1 .. (Len(input) + 1) /\ y \in 0 .. Len(input)
      BY <3>2, PieceBounds
    <3>4. x + 1 <= y /\ input[x + 1] = "="
      BY <3>1, <3>2, Zenon
    <3>5. x + 1 \in DOMAIN input
      BY <3>3, <3>4
    <3> QED  BY <3>4, <3>5 DEF Blank
  <2>7. ~end.failed
    BY <1>2, <1>6, <2>6, Zenon
  <2> QED  BY <1>1, <1>3, <1>6, <2>1, <2>2, <2>3, <2>5, <2>7, Zenon DEF Outcome
<1> QED
  BY <1>4, <1>5, <1>6, Zenon

-----------------------------------------------------------------------------
(* What ToString prints.                                                   *)

(* A text is a text for the reader of the payload too; one without half a  *)
(* surrogate pair arrives as it is.                                        *)
LEMMA PayloadIsText ==
  ASSUME NEW text \in Seq(Tokens)
  PROVE  /\ ThroughPayload(text) \in Seq(Tokens)
         /\ (\A i \in 1 .. Len(text) : text[i] # "lone") => ThroughPayload(text) = text
<1>1. "replaced" \in Tokens
  BY Zenon DEF Tokens
<1>2. DOMAIN text = 1 .. Len(text) /\ Len(text) \in Nat
  OBVIOUS
<1>3. \A i \in 1 .. Len(text) : text[i] \in Tokens
  <2> HIDE DEF Tokens
  <2> QED  OBVIOUS
<1>4. ThroughPayload(text) \in [1 .. Len(text) -> Tokens]
  BY <1>1, <1>2, <1>3, Zenon DEF ThroughPayload
<1>5. ThroughPayload(text) \in Seq(Tokens)
  <2>1. \A s, n : n \in Nat /\ s \in [1 .. n -> Tokens] => s \in Seq(Tokens)
    OBVIOUS
  <2> QED  BY <1>2, <1>4, <2>1, Zenon
<1>6. ASSUME \A i \in 1 .. Len(text) : text[i] # "lone"
      PROVE  ThroughPayload(text) = text
  <2>1. text = [i \in DOMAIN text |-> text[i]]
    OBVIOUS
  <2>2. ThroughPayload(text) = [i \in DOMAIN text |-> text[i]]
    BY <1>2, <1>6, Zenon DEF ThroughPayload
  <2> QED  BY <2>1, <2>2, Zenon
<1> QED
  BY <1>5, <1>6, Zenon

(* The tokens that ToString adds are apart from each other and from the    *)
(* numbers of a version.                                                   *)
LEMMA Apart ==
  /\ Delimiter \notin Numbers /\ "lone" \notin Numbers /\ "blank" \notin Numbers
  /\ Delimiter \notin {"Name", "version", "=", "lone"}
  /\ {"Name", "version", "=", Delimiter} \subseteq Tokens
  /\ Numbers \subseteq Tokens
<1>1. Delimiter \notin Numbers /\ "lone" \notin Numbers /\ "blank" \notin Numbers
  BY Zenon DEF Delimiter, Numbers
<1>2. Delimiter \notin {"Name", "version", "=", "lone"}
  BY Zenon DEF Delimiter
<1>3. {"Name", "version", "=", Delimiter} \subseteq Tokens /\ Numbers \subseteq Tokens
  BY Zenon DEF Tokens
<1> QED
  BY <1>1, <1>2, <1>3, Zenon

(* A version without white space around it is left alone.                  *)
LEMMA TrimmedVersion ==
  ASSUME NEW version \in Seq(Numbers)
  PROVE  Trimmed(version) = version
<1> DEFINE solid == {i \in DOMAIN version : version[i] # "blank"}
           first == CHOOSE i \in solid : \A j \in solid : i <= j
           last  == CHOOSE i \in solid : \A j \in solid : j <= i
<1>1. DOMAIN version = 1 .. Len(version) /\ Len(version) \in Nat
  OBVIOUS
<1>2. \A i \in 1 .. Len(version) : version[i] \in Numbers
  <2> HIDE DEF Numbers
  <2> QED  OBVIOUS
<1>3. solid = 1 .. Len(version)
  BY <1>1, <1>2, Apart, Zenon
<1>4. Trimmed(version) =
        IF solid = {} THEN <<>> ELSE SubSeq(version, first, last)
  BY Zenon DEF Trimmed
<1>5. CASE Len(version) = 0
  <2>1. 1 .. Len(version) = {}  BY <1>5
  <2>2. version = <<>>  BY <1>5
  <2> QED  BY <1>3, <1>4, <2>1, <2>2, Zenon
<1>6. CASE Len(version) # 0
  <2> DEFINE n == Len(version)
  <2>0. /\ n \in Nat /\ n >= 1 /\ 1 \in 1 .. n /\ n \in 1 .. n
        /\ \A j \in 1 .. n : 1 <= j /\ j <= n
    BY <1>1, <1>6
  <2>1. /\ n \in Nat /\ n >= 1 /\ 1 \in 1 .. n /\ n \in 1 .. n
        /\ \A j \in 1 .. n : 1 <= j /\ j <= n
        /\ 1 .. n # {}
    BY <2>0, Zenon
  <2>2. first \in 1 .. n /\ \A j \in 1 .. n : first <= j
    <3> HIDE DEF solid, n
    <3> QED  BY <1>3, <2>1, Zenon DEF n
  <2>3. last \in 1 .. n /\ \A j \in 1 .. n : j <= last
    <3> HIDE DEF solid, n
    <3> QED  BY <1>3, <2>1, Zenon DEF n
  <2> HIDE DEF first, last
  <2>4. first = 1 /\ last = n
    BY <2>1, <2>2, <2>3
  <2>5. SubSeq(version, 1, n) = version
    OBVIOUS
  <2> QED  BY <1>3, <1>4, <2>1, <2>4, <2>5, Zenon
<1> QED
  BY <1>5, <1>6

(* Two texts in a row: the second one follows the first.                   *)
LEMMA Joined ==
  ASSUME NEW S, NEW s \in Seq(S), NEW t \in Seq(S)
  PROVE  /\ s \o t \in Seq(S) /\ Len(s \o t) = Len(s) + Len(t)
         /\ \A i \in 1 .. Len(s) : (s \o t)[i] = s[i]
         /\ \A i \in (Len(s) + 1) .. (Len(s) + Len(t)) :
              (s \o t)[i] = t[i - Len(s)]
  OBVIOUS

(* Where the parts of a printed AppInfo stand.                             *)
LEMMA TextLayout ==
  ASSUME NEW info, info.name \in Seq(Tokens), info.version \in Seq(Tokens)
  PROVE  LET t == ToText(info)
             n == Len(info.name)
             v == Len(info.version)
         IN  /\ t \in Seq(Tokens) /\ Len(t) = (n + 5) + v
             /\ t[1] = "Name" /\ t[2] = "="
             /\ \A i \in 3 .. (2 + n) : t[i] = info.name[i - 2]
             /\ t[n + 3] = Delimiter /\ t[n + 4] = "version" /\ t[n + 5] = "="
             /\ \A i \in (n + 6) .. ((n + 5) + v) : t[i] = info.version[i - (n + 5)]
<1> DEFINE a == <<"Name", "=">>
           d == <<Delimiter, "version", "=">>
<1>1. /\ "Name" \in Tokens /\ "=" \in Tokens /\ "version" \in Tokens
      /\ Delimiter \in Tokens
  BY Apart, Zenon
<1>2. /\ a \in Seq(Tokens) /\ Len(a) = 2 /\ a[1] = "Name" /\ a[2] = "="
      /\ d \in Seq(Tokens) /\ Len(d) = 3
      /\ d[1] = Delimiter /\ d[2] = "version" /\ d[3] = "="
  BY <1>1
<1> HIDE DEF a, d
<1> SUFFICES ASSUME NEW name \in Seq(Tokens), NEW version \in Seq(Tokens)
             PROVE  LET t == ((a \o name) \o d) \o version
                        n == Len(name)
                        v == Len(version)
                    IN  /\ t \in Seq(Tokens) /\ Len(t) = (n + 5) + v
                        /\ t[1] = "Name" /\ t[2] = "="
                        /\ \A i \in 3 .. (2 + n) : t[i] = name[i - 2]
                        /\ t[n + 3] = Delimiter /\ t[n + 4] = "version" /\ t[n + 5] = "="
                        /\ \A i \in (n + 6) .. ((n + 5) + v) : t[i] = version[i - (n + 5)]
  BY Zenon DEF ToText, a, d
<1> DEFINE n == Len(name)
           v == Len(version)
           b == a \o name
           e == b \o d
           t == e \o version
<1>3. n \in Nat /\ v \in Nat /\ n + 2 \in Nat /\ n + 5 \in Nat
  OBVIOUS
<1>4. /\ b \in Seq(Tokens) /\ Len(b) = 2 + n
      /\ \A i \in 1 .. 2 : b[i] = a[i]
      /\ \A i \in (2 + 1) .. (2 + n) : b[i] = name[i - 2]
  <2>1. /\ b \in Seq(Tokens) /\ Len(b) = Len(a) + n
        /\ \A i \in 1 .. Len(a) : b[i] = a[i]
        /\ \A i \in (Len(a) + 1) .. (Len(a) + n) : b[i] = name[i - Len(a)]
    BY <1>2, Joined, Zenon
  <2> QED  BY <2>1, <1>2, Zenon
<1> HIDE DEF b
<1>5. /\ e \in Seq(Tokens) /\ Len(e) = (n + 2) + 3
      /\ \A i \in 1 .. (n + 2) : e[i] = b[i]
      /\ \A i \in ((n + 2) + 1) .. ((n + 2) + 3) : e[i] = d[i - (n + 2)]
  <2>1. Len(b) = n + 2  BY <1>3, <1>4
  <2>2. /\ e \in Seq(Tokens) /\ Len(e) = Len(b) + Len(d)
        /\ \A i \in 1 .. Len(b) : e[i] = b[i]
        /\ \A i \in (Len(b) + 1) .. (Len(b) + Len(d)) : e[i] = d[i - Len(b)]
    <3>1. b \in Seq(Tokens) /\ d \in Seq(Tokens)
      BY <1>2, <1>4, Zenon
    <3> QED  BY <3>1, Joined, Zenon
  <2> HIDE DEF n, e
  <2> QED  BY <2>1, <2>2, <1>2, Zenon
<1> HIDE DEF e
<1>6. /\ t \in Seq(Tokens) /\ Len(t) = (n + 5) + v
      /\ \A i \in 1 .. (n + 5) : t[i] = e[i]
      /\ \A i \in ((n + 5) + 1) .. ((n + 5) + v) : t[i] = version[i - (n + 5)]
  <2>1. Len(e) = n + 5  BY <1>3, <1>5
  <2>2. /\ t \in Seq(Tokens) /\ Len(t) = Len(e) + v
        /\ \A i \in 1 .. Len(e) : t[i] = e[i]
        /\ \A i \in (Len(e) + 1) .. (Len(e) + v) : t[i] = version[i - Len(e)]
    <3>1. e \in Seq(Tokens)  BY <1>5, Zenon
    <3> QED  BY <3>1, Joined, Zenon
  <2> HIDE DEF n, t
  <2> QED  BY <2>1, <2>2, Zenon
<1> HIDE DEF t, n, v
<1>7. /\ 1 \in 1 .. 2 /\ 2 \in 1 .. 2 /\ 1 \in 1 .. (n + 2) /\ 2 \in 1 .. (n + 2)
      /\ 1 \in 1 .. (n + 5) /\ 2 \in 1 .. (n + 5)
      /\ n + 3 \in 1 .. (n + 5) /\ n + 4 \in 1 .. (n + 5) /\ n + 5 \in 1 .. (n + 5)
      /\ n + 3 \in ((n + 2) + 1) .. ((n + 2) + 3) /\ (n + 3) - (n + 2) = 1
      /\ n + 4 \in ((n + 2) + 1) .. ((n + 2) + 3) /\ (n + 4) - (n + 2) = 2
      /\ n + 5 \in ((n + 2) + 1) .. ((n + 2) + 3) /\ (n + 5) - (n + 2) = 3
      /\ \A i \in 3 .. (2 + n) : /\ i \in (2 + 1) .. (2 + n)
                                 /\ i \in 1 .. (n + 2) /\ i \in 1 .. (n + 5)
      /\ (n + 5) + 1 = n + 6
  BY <1>3
<1>8. t[1] = "Name" /\ t[2] = "="
  BY <1>2, <1>4, <1>5, <1>6, <1>7, Zenon
<1>9. \A i \in 3 .. (2 + n) : t[i] = name[i - 2]
  BY <1>4, <1>5, <1>6, <1>7, Zenon
<1>10. t[n + 3] = Delimiter /\ t[n + 4] = "version" /\ t[n + 5] = "="
  BY <1>2, <1>5, <1>6, <1>7, Zenon
<1>11. \A i \in (n + 6) .. ((n + 5) + v) : t[i] = version[i - (n + 5)]
  BY <1>6, <1>7, Zenon
<1> QED
  BY <1>6, <1>8, <1>9, <1>10, <1>11, Zenon DEF t, e, b, n, v

(* A printed AppInfo has two pieces, the pair of the name and the pair of  *)
(* the version.                                                            *)
LEMMA PrintedBindings ==
  ASSUME NEW info, info.name \in Seq(Tokens), info.version \in Seq(Numbers),
         ValidInput(info.name)
  PROVE  LET t == ToText(info)
             n == Len(info.name)
             v == Len(info.version)
         IN  /\ Bindings(t, NameKeys) = {<<1, n + 2>>}
             /\ Bindings(t, VersionKeys) = {<<n + 4, (n + 5) + v>>}
             /\ ValueOf(t, <<1, n + 2>>) = info.name
             /\ ValueOf(t, <<n + 4, (n + 5) + v>>) = info.version
<1> DEFINE t == ToText(info)
           n == Len(info.name)
           v == Len(info.version)
           p1 == <<1, n + 2>>
           p2 == <<n + 4, (n + 5) + v>>
<1>1. /\ t \in Seq(Tokens) /\ Len(t) = (n + 5) + v
      /\ t[1] = "Name" /\ t[2] = "="
      /\ \A i \in 3 .. (2 + n) : t[i] = info.name[i - 2]
      /\ t[n + 3] = Delimiter /\ t[n + 4] = "version" /\ t[n + 5] = "="
      /\ \A i \in (n + 6) .. ((n + 5) + v) : t[i] = info.version[i - (n + 5)]
  <2>1. info.version \in Seq(Tokens)
    <3>1. Numbers \subseteq Tokens  BY Apart, Zenon
    <3> HIDE DEF Tokens, Numbers
    <3> QED  BY <3>1
  <2> QED  BY <2>1, TextLayout, Zenon
<1>2. /\ n \in Nat /\ v \in Nat
      /\ \A i \in 1 .. n : info.name[i] # Delimiter
      /\ \A i \in 1 .. v : info.version[i] \in Numbers
  <2>1. DOMAIN info.name = 1 .. n  OBVIOUS
  <2>2. \A i \in 1 .. n : info.name[i] # Delimiter
    BY <2>1, Zenon DEF ValidInput
  <2>3. \A i \in 1 .. v : info.version[i] \in Numbers
    <3> HIDE DEF Numbers
    <3> QED  OBVIOUS
  <2>4. n \in Nat /\ v \in Nat  OBVIOUS
  <2> QED  BY <2>2, <2>3, <2>4, Zenon
<1>3. /\ \A i \in 3 .. (2 + n) : i - 2 \in 1 .. n
      /\ \A i \in (n + 6) .. ((n + 5) + v) : i - (n + 5) \in 1 .. v
  <2>1. n \in Nat /\ v \in Nat
    BY <1>2, Zenon
  <2> HIDE DEF n, v
  <2>2. ASSUME NEW i \in 3 .. (2 + n)
        PROVE  i - 2 \in 1 .. n
    BY <2>1
  <2>3. ASSUME NEW i \in (n + 6) .. ((n + 5) + v)
        PROVE  i - (n + 5) \in 1 .. v
    BY <2>1
  <2> QED  BY <2>2, <2>3, Zenon
<1>4. /\ \A i \in 3 .. (2 + n) : t[i] # Delimiter
      /\ \A i \in (n + 6) .. ((n + 5) + v) : t[i] # Delimiter
  <2> HIDE DEF t, n, v
  <2> QED  BY <1>1, <1>2, <1>3, Apart, Zenon
<1> HIDE DEF t, n, v
<1>5. IsPiece(t, 1, n + 2)
  <2>1. /\ 1 \in 1 .. (Len(t) + 1) /\ n + 2 \in 0 .. Len(t) /\ 1 <= (n + 2) + 1
        /\ (n + 2) + 1 = n + 3
        /\ \A i \in 1 .. (n + 2) : i = 1 \/ i = 2 \/ i \in 3 .. (2 + n)
    BY <1>1, <1>2
  <2> QED  BY <2>1, <1>1, <1>4, Apart, Zenon DEF IsPiece
<1>6. IsPiece(t, n + 4, (n + 5) + v)
  <2>1. /\ n + 4 \in 1 .. (Len(t) + 1) /\ (n + 5) + v \in 0 .. Len(t)
        /\ n + 4 <= ((n + 5) + v) + 1
        /\ (n + 4) - 1 = n + 3
        /\ \A i \in (n + 4) .. ((n + 5) + v) :
             i = n + 4 \/ i = n + 5 \/ i \in (n + 6) .. ((n + 5) + v)
    BY <1>1, <1>2
  <2> QED  BY <2>1, <1>1, <1>4, Apart, Zenon DEF IsPiece
<1>7. ASSUME NEW b \in Pieces(t)
      PROVE  b = p1 \/ b = p2
  <2>1. PICK x \in Int, y \in Int : b = <<x, y>> /\ IsPiece(t, x, y)
    BY <1>1, PieceShape, Zenon
  <2>2. x \in 1 .. (Len(t) + 1) /\ y \in 0 .. Len(t) /\ x <= y + 1
    BY <1>1, <2>1, PieceBounds
  <2>3. x = 1 \/ t[x - 1] = Delimiter
    BY <2>1, Zenon DEF IsPiece
  <2>4. x = 1 \/ x = n + 4
    <3> SUFFICES ASSUME x # 1 PROVE x = n + 4
      BY Zenon
    <3>1. \/ x - 1 = 1 \/ x - 1 = 2 \/ x - 1 \in 3 .. (2 + n) \/ x = n + 4
          \/ x - 1 = n + 4 \/ x - 1 = n + 5 \/ x - 1 \in (n + 6) .. ((n + 5) + v)
      BY <1>1, <1>2, <2>2
    <3> QED  BY <3>1, <2>3, <1>1, <1>4, Apart, Zenon
  <2>5. n + 2 \in Int /\ n + 4 \in Int /\ (n + 5) + v \in Int /\ 1 \in Int
    BY <1>2
  <2>6. CASE x = 1
    <3>1. y = n + 2
      BY <1>1, <1>5, <2>1, <2>5, <2>6, PieceByStart, Zenon
    <3> QED  BY <2>1, <2>6, <3>1, Zenon
  <2>7. CASE x = n + 4
    <3>1. y = (n + 5) + v
      BY <1>1, <1>6, <2>1, <2>5, <2>7, PieceByStart, Zenon
    <3> QED  BY <2>1, <2>7, <3>1, Zenon
  <2> QED  BY <2>4, <2>6, <2>7, Zenon
<1>8. p1 \in Pieces(t) /\ p2 \in Pieces(t)
  <2>1. ASSUME NEW p \in Int, NEW q \in Int, IsPiece(t, p, q)
        PROVE  <<p, q>> \in Pieces(t)
    <3>1. p \in 1 .. (Len(t) + 1) /\ q \in 0 .. Len(t)
      BY <1>1, <2>1, PieceBounds
    <3>2. /\ <<p, q>> \in (1 .. (Len(t) + 1)) \X (0 .. Len(t))
          /\ <<p, q>>[1] = p /\ <<p, q>>[2] = q
      BY <3>1
    <3> QED  BY <2>1, <3>2, Zenon DEF Pieces, IsPiece
  <2>2. n + 2 \in Int /\ n + 4 \in Int /\ (n + 5) + v \in Int /\ 1 \in Int
    BY <1>2
  <2> QED  BY <2>1, <2>2, <1>5, <1>6, Zenon
<1>9. /\ p1[1] = 1 /\ p1[2] = n + 2
      /\ p2[1] = n + 4 /\ p2[2] = (n + 5) + v
  OBVIOUS
<1>10. /\ 1 + 1 = 2 /\ 1 + 1 <= n + 2
       /\ (n + 4) + 1 = n + 5 /\ (n + 4) + 1 <= (n + 5) + v
  BY <1>2
<1>11. /\ "Name" \in NameKeys /\ "version" \notin NameKeys
       /\ "version" \in VersionKeys /\ "Name" \notin VersionKeys
  BY Zenon DEF NameKeys, VersionKeys
<1>12. /\ Bindings(t, NameKeys) = {p1}
       /\ Bindings(t, VersionKeys) = {p2}
  <2> HIDE DEF p1, p2
  <2>1. /\ t[p1[1]] = "Name" /\ t[p1[1] + 1] = "=" /\ p1[1] + 1 <= p1[2]
        /\ t[p2[1]] = "version" /\ t[p2[1] + 1] = "=" /\ p2[1] + 1 <= p2[2]
    BY <1>1, <1>9, <1>10, Zenon
  <2>2. p1 \in Bindings(t, NameKeys) /\ p2 \in Bindings(t, VersionKeys)
    BY <2>1, <1>8, <1>11, Zenon DEF Bindings
  <2>3. p2 \notin Bindings(t, NameKeys) /\ p1 \notin Bindings(t, VersionKeys)
    BY <2>1, <1>11, Zenon DEF Bindings
  <2>4. \A b : b \in Bindings(t, NameKeys) \/ b \in Bindings(t, VersionKeys)
                => b = p1 \/ b = p2
    BY <1>7, Zenon DEF Bindings
  <2>5. \A b : b \in Bindings(t, NameKeys) <=> b = p1
    BY <2>2, <2>3, <2>4, Zenon
  <2>6. \A b : b \in Bindings(t, VersionKeys) <=> b = p2
    BY <2>2, <2>3, <2>4, Zenon
  <2> QED  BY <2>5, <2>6, Zenon
<1>13. ValueOf(t, p1) = info.name
  <2>1. /\ 3 \in 1 .. (Len(t) + 1) /\ n + 2 \in 0 .. Len(t) /\ 3 <= (n + 2) + 1
        /\ (n + 2) - 3 + 1 = n
    BY <1>1, <1>2
  <2> DEFINE s == SubSeq(t, 3, n + 2)
  <2>2. /\ s \in Seq(Tokens) /\ Len(s) = n
        /\ \A i \in 1 .. n : s[i] = t[3 + i - 1]
    <3> DEFINE c == n + 2
    <3>1. /\ 3 \in 1 .. (Len(t) + 1) /\ c \in 0 .. Len(t) /\ 3 <= c + 1
          /\ t \in Seq(Tokens) /\ c - 3 + 1 = n
      BY <1>1, <2>1, Zenon
    <3> HIDE DEF c
    <3>2. /\ SubSeq(t, 3, c) \in Seq(Tokens) /\ Len(SubSeq(t, 3, c)) = c - 3 + 1
          /\ \A i \in 1 .. (c - 3 + 1) : SubSeq(t, 3, c)[i] = t[3 + i - 1]
      BY <3>1, Stretch, Zenon
    <3> QED  BY <3>1, <3>2, Zenon DEF c, s
  <2> HIDE DEF s
  <2>3. \A i \in 1 .. n : 3 + i - 1 \in 3 .. (2 + n) /\ (3 + i - 1) - 2 = i
    BY <1>2
  <2>4. \A i \in 1 .. n : s[i] = info.name[i]
    BY <1>1, <2>2, <2>3, Zenon
  <2>5. s = info.name
    BY <2>2, <2>4, SameText DEF n
  <2>6. 1 + 2 = 3
    OBVIOUS
  <2> QED  BY <1>9, <2>5, <2>6, Zenon DEF ValueOf, s
<1>14. ValueOf(t, p2) = info.version
  <2>1. /\ n + 6 \in 1 .. (Len(t) + 1) /\ (n + 5) + v \in 0 .. Len(t)
        /\ n + 6 <= ((n + 5) + v) + 1 /\ (n + 4) + 2 = n + 6
        /\ ((n + 5) + v) - (n + 6) + 1 = v
        /\ n + 6 \in Int /\ (n + 5) + v \in Int
    <3>1. Len(t) = (n + 5) + v /\ n \in Nat /\ v \in Nat
      BY <1>1, <1>2, Zenon
    <3> QED  BY <3>1
  <2> DEFINE s == SubSeq(t, n + 6, (n + 5) + v)
  <2>2. /\ s \in Seq(Tokens) /\ Len(s) = v
        /\ \A i \in 1 .. v : s[i] = t[(n + 6) + i - 1]
    <3> DEFINE c == n + 6
               d == (n + 5) + v
    <3>1. /\ c \in 1 .. (Len(t) + 1) /\ d \in 0 .. Len(t) /\ c <= d + 1
          /\ c \in Int /\ d \in Int /\ t \in Seq(Tokens) /\ d - c + 1 = v
      BY <1>1, <2>1, Zenon
    <3> HIDE DEF c, d
    <3>2. /\ SubSeq(t, c, d) \in Seq(Tokens) /\ Len(SubSeq(t, c, d)) = d - c + 1
          /\ \A i \in 1 .. (d - c + 1) : SubSeq(t, c, d)[i] = t[c + i - 1]
      BY <3>1, Stretch, Zenon
    <3> QED  BY <3>1, <3>2, Zenon DEF c, d, s
  <2> HIDE DEF s
  <2>3. \A i \in 1 .. v : /\ (n + 6) + i - 1 \in (n + 6) .. ((n + 5) + v)
                          /\ ((n + 6) + i - 1) - (n + 5) = i
    BY <1>2
  <2>4. \A i \in 1 .. v : s[i] = info.version[i]
    BY <1>1, <2>2, <2>3, Zenon
  <2>5. info.version \in Seq(Tokens)
    <3>1. Numbers \subseteq Tokens  BY Apart, Zenon
    <3> HIDE DEF Tokens, Numbers
    <3> QED  BY <3>1
  <2>6. s = info.version
    BY <2>2, <2>4, <2>5, SameText DEF v
  <2> QED  BY <1>9, <2>1, <2>6, Zenon DEF ValueOf, s
<1> QED
  BY <1>12, <1>13, <1>14, Zenon DEF t, n, v

(* What an application says of itself is what ParseFrom makes of the       *)
(* payload it is sent in, if the name and the version are such as the      *)
(* constructor lets through, and the name is one that UTF-8 can say.       *)
THEOREM PrintedInfoRead ==
  ASSUME NEW info \in [name : Seq(Tokens), version : Seq(Numbers)],
         ValidInput(info.name), ValidVersion(info.version),
         \A k \in DOMAIN info.name : info.name[k] # "lone"
  PROVE  ParseFrom(ThroughPayload(ToText(info))) = info
<1> DEFINE t == ToText(info)
           n == Len(info.name)
           v == Len(info.version)
           p1 == <<1, n + 2>>
           p2 == <<n + 4, (n + 5) + v>>
<1>1. /\ info.name \in Seq(Tokens) /\ info.version \in Seq(Numbers)
      /\ info = [name |-> info.name, version |-> info.version]
  <2> HIDE DEF Tokens, Numbers
  <2> QED  OBVIOUS
<1>2. info.version \in Seq(Tokens)
  <2>1. Numbers \subseteq Tokens  BY Apart, Zenon
  <2> HIDE DEF Tokens, Numbers
  <2> QED  BY <1>1, <2>1
<1>3. /\ t \in Seq(Tokens) /\ Len(t) = (n + 5) + v
      /\ t[1] = "Name" /\ t[2] = "="
      /\ \A i \in 3 .. (2 + n) : t[i] = info.name[i - 2]
      /\ t[n + 3] = Delimiter /\ t[n + 4] = "version" /\ t[n + 5] = "="
      /\ \A i \in (n + 6) .. ((n + 5) + v) : t[i] = info.version[i - (n + 5)]
  BY <1>1, <1>2, TextLayout, Zenon
<1>4. /\ Bindings(t, NameKeys) = {p1}
      /\ Bindings(t, VersionKeys) = {p2}
      /\ ValueOf(t, p1) = info.name
      /\ ValueOf(t, p2) = info.version
  BY <1>1, PrintedBindings, Zenon
<1>5. /\ n \in Nat /\ v \in Nat
      /\ \A i \in 1 .. n : info.name[i] # "lone"
      /\ \A i \in 1 .. v : info.version[i] \in Numbers
  <2>1. DOMAIN info.name = 1 .. n /\ n \in Nat /\ v \in Nat
    BY <1>1
  <2>2. \A i \in 1 .. v : info.version[i] \in Numbers
    <3> HIDE DEF Numbers
    <3> QED  BY <1>1
  <2> QED  BY <2>1, <2>2, Zenon
<1> HIDE DEF t, n, v
<1>6. ASSUME NEW i \in 1 .. Len(t)
      PROVE  t[i] # "lone"
  <2>1. n \in Nat /\ v \in Nat /\ i \in 1 .. ((n + 5) + v)
    BY <1>3, <1>5, Zenon
  <2>2. \/ i = 1 \/ i = 2 \/ i = n + 3 \/ i = n + 4 \/ i = n + 5
        \/ (i \in 3 .. (2 + n) /\ i - 2 \in 1 .. n)
        \/ (i \in (n + 6) .. ((n + 5) + v) /\ i - (n + 5) \in 1 .. v)
    BY <2>1
  <2>3. CASE i \in 3 .. (2 + n) /\ i - 2 \in 1 .. n
    BY <2>3, <1>3, <1>5, Zenon
  <2>4. CASE i \in (n + 6) .. ((n + 5) + v) /\ i - (n + 5) \in 1 .. v
    BY <2>4, <1>3, <1>5, Apart, Zenon
  <2>5. CASE i = 1 \/ i = 2 \/ i = n + 3 \/ i = n + 4 \/ i = n + 5
    BY <2>5, <1>3, Apart, Zenon
  <2> QED  BY <2>2, <2>3, <2>4, <2>5, Zenon
<1>7. ThroughPayload(t) = t
  BY <1>3, <1>6, PayloadIsText, Zenon
<1>8. ParseFrom(t) = Meaning(t)
  BY <1>3, ParseFromMeaning, Zenon
<1>9. LastOf(Bindings(t, NameKeys)) = p1 /\ LastOf(Bindings(t, VersionKeys)) = p2
  <2>1. p1[1] <= p1[1] /\ p2[1] <= p2[1]
    BY <1>5
  <2> HIDE DEF p1, p2
  <2>2. Latest(Bindings(t, NameKeys), p1) /\ Latest(Bindings(t, VersionKeys), p2)
    BY <1>4, <2>1, Zenon DEF Latest
  <2>3. t \in Seq(Tokens)
    BY <1>3, Zenon
  <2>4. \A keys, b : Latest(Bindings(t, keys), b) => LastOf(Bindings(t, keys)) = b
    BY <2>3, LatestIsLast, Zenon
  <2> QED  BY <2>2, <2>4, Zenon
<1>10. Trimmed(info.version) = info.version
  BY <1>1, TrimmedVersion, Zenon
<1> HIDE DEF p1, p2
<1>11. Meaning(t) = [name |-> info.name, version |-> info.version]
  BY <1>4, <1>9, <1>10, Zenon DEF Meaning, NameKeys, VersionKeys
<1> QED
  BY <1>1, <1>7, <1>8, <1>11, Zenon DEF t

=============================================================================
