------------------------------ MODULE HomeProofs -------------------------------
(***************************************************************************)
(* Theorems about what agent-mgr keeps in an agent's home: the dotenv      *)
(* (module Dotenv), for any number of editors and any files to begin with, *)
(* and the shared skills (module Skills), for any agents, destinations and *)
(* refs.  The two have no state in common.                                 *)
(***************************************************************************)
EXTENDS Dotenv, Skills, FiniteSetTheorems, SequenceTheorems, TLAPS

-----------------------------------------------------------------------------
(* Induction, in set form, follows from the pigeonhole principle.          *)

LEMMA Induction ==
  ASSUME NEW T, 0 \in T, \A n \in T \cap Nat : n + 1 \in T
  PROVE  Nat \subseteq T
  <1> SUFFICES ASSUME NEW n \in Nat, n \notin T PROVE FALSE
    OBVIOUS
  <1> DEFINE D == {i \in 0..n : i \in T}
             up == [i \in D |-> i + 1]
  <1>1. IsFiniteSet(D)
    <2>1. IsFiniteSet(0..n)
      BY FS_Interval
    <2> QED
      BY <2>1, FS_Subset
  <1>2. 0 \in D
    OBVIOUS
  <1>3. up \in [D -> D \ {0}]
    OBVIOUS
  <1>4. \A x, y \in D : x # y => up[x] # up[y]
    OBVIOUS
  <1> HIDE DEF D, up
  <1>5. IsFiniteSet(D \ {0}) /\ Cardinality(D \ {0}) = Cardinality(D) - 1
    BY <1>1, <1>2, FS_RemoveElement
  <1>6. Cardinality(D) \in Nat
    BY <1>1, FS_CardinalityType
  <1>7. Cardinality(D \ {0}) < Cardinality(D)
    BY <1>5, <1>6
  <1> QED
    BY <1>1, <1>3, <1>4, <1>5, <1>7, FS_PigeonHole

\* Line by line.
LEMMA LineByLine ==
  ASSUME NEW T, <<>> \in T,
         \A s \in Seq(Lines), line \in Lines : s \in T => Append(s, line) \in T
  PROVE  Seq(Lines) \subseteq T
  <1> DEFINE N == {n \in Nat : \A s \in Seq(Lines) : Len(s) = n => s \in T}
  <1>1. 0 \in N
    BY EmptySeq
  <1>2. \A n \in N \cap Nat : n + 1 \in N
    <2> SUFFICES ASSUME NEW n \in Nat, n \in N, NEW s \in Seq(Lines), Len(s) = n + 1 PROVE s \in T
      OBVIOUS
    <2>1. s # <<>>
      BY EmptySeq
    <2>2. PICK t \in Seq(Lines), line \in Lines : s = Append(t, line)
      BY <2>1, SequenceEmptyOrAppend
    <2>3. Len(t) = n
      BY <2>2, AppendProperties, LenProperties
    <2> QED
      BY <2>2, <2>3
  <1> HIDE DEF N
  <1>3. Nat \subseteq N
    BY <1>1, <1>2, Induction
  <1> SUFFICES ASSUME NEW s \in Seq(Lines) PROVE s \in T
    OBVIOUS
  <1>4. Len(s) \in N
    BY <1>3, LenProperties
  <1> QED
    BY <1>4 DEF N

-----------------------------------------------------------------------------
(* The loops of upsert, and of reading what it does not own.               *)

\* What one line makes of the lines so far, in the one loop or the other.
Round(out, line, keys, v, how) ==
    IF how = "sift" THEN (IF line.key \in ToSet(keys) THEN out ELSE Append(out, line))
    ELSE Put(out, line, keys, v)

Loop(g, m, lines, keys, v, how) ==
    g = [n \in 0..m |-> IF n = 0 THEN <<>> ELSE Round(g[n - 1], lines[n], keys, v, how)]

LEMMA LoopRuns ==
  ASSUME NEW lines, NEW keys, NEW v, NEW how, NEW m \in Nat
  PROVE  \E g : Loop(g, m, lines, keys, v, how)
  <1> DEFINE T == {i \in Nat : \E g : Loop(g, i, lines, keys, v, how)}
  <1>1. 0 \in T
    <2>1. Loop([n \in 0..0 |-> <<>>], 0, lines, keys, v, how)
      BY DEF Loop
    <2> QED
      BY <2>1
  <1>2. \A i \in T \cap Nat : i + 1 \in T
    <2> SUFFICES ASSUME NEW i \in Nat, NEW g, Loop(g, i, lines, keys, v, how)
                 PROVE  \E h : Loop(h, i + 1, lines, keys, v, how)
      OBVIOUS
    <2> DEFINE h == [n \in 0..(i + 1) |->
                       IF n = i + 1 THEN Round(g[i], lines[i + 1], keys, v, how) ELSE g[n]]
    <2>1. \A n \in 0..i : g[n] = IF n = 0 THEN <<>> ELSE Round(g[n - 1], lines[n], keys, v, how)
      BY DEF Loop
    <2>2. \A n \in 0..(i + 1) :
            h[n] = IF n = 0 THEN <<>> ELSE Round(h[n - 1], lines[n], keys, v, how)
      BY <2>1
    <2>3. Loop(h, i + 1, lines, keys, v, how)
      BY <2>2 DEF Loop
    <2> QED
      BY <2>3
  <1> HIDE DEF T
  <1>3. m \in T
    BY <1>1, <1>2, Induction
  <1> QED
    BY <1>3 DEF T

\* Lines that begin alike are treated alike.
LEMMA LoopsAgree ==
  ASSUME NEW lines, NEW more, NEW keys, NEW v, NEW how, NEW m \in Nat, NEW l \in Nat, m <= l,
         NEW g, Loop(g, m, lines, keys, v, how), NEW h, Loop(h, l, more, keys, v, how),
         \A n \in 1..m : lines[n] = more[n]
  PROVE  g[m] = h[m]
  <1> DEFINE T == {n \in Nat : n <= m => g[n] = h[n]}
  <1>1. /\ \A n \in 0..m : g[n] = IF n = 0 THEN <<>> ELSE Round(g[n - 1], lines[n], keys, v, how)
        /\ \A n \in 0..l : h[n] = IF n = 0 THEN <<>> ELSE Round(h[n - 1], more[n], keys, v, how)
    BY DEF Loop
  <1>2. 0 \in T
    BY <1>1
  <1>3. \A n \in T \cap Nat : n + 1 \in T
    <2> SUFFICES ASSUME NEW n \in Nat, n \in T, n + 1 <= m PROVE g[n + 1] = h[n + 1]
      OBVIOUS
    <2>1. n + 1 \in 1..m /\ n + 1 \in 0..l /\ (n + 1) - 1 = n /\ g[n] = h[n]
      OBVIOUS
    <2> QED
      BY <1>1, <2>1
  <1> HIDE DEF T
  <1>4. m \in T
    BY <1>2, <1>3, Induction
  <1> QED
    BY <1>4 DEF T

Result(lines, keys, v, how) ==
    (CHOOSE g : Loop(g, Len(lines), lines, keys, v, how))[Len(lines)]

LEMMA ResultEmpty ==
  ASSUME NEW keys, NEW v, NEW how PROVE Result(<<>>, keys, v, how) = <<>>
  <1>1. Len(<<>>) = 0
    BY EmptySeq
  <1>2. PICK g : g = (CHOOSE f : Loop(f, 0, <<>>, keys, v, how))
    OBVIOUS
  <1>3. Loop(g, 0, <<>>, keys, v, how)
    BY <1>2, LoopRuns
  <1>4. g[0] = <<>>
    BY <1>3 DEF Loop
  <1> QED
    BY <1>1, <1>2, <1>4 DEF Result

LEMMA ResultAppend ==
  ASSUME NEW s \in Seq(Lines), NEW line \in Lines, NEW keys, NEW v, NEW how
  PROVE  Result(Append(s, line), keys, v, how) = Round(Result(s, keys, v, how), line, keys, v, how)
  <1> DEFINE m == Len(s)
             more == Append(s, line)
  <1>1. /\ m \in Nat /\ Len(more) = m + 1 /\ more[m + 1] = line
        /\ \A n \in 1..m : s[n] = more[n]
    BY AppendProperties, LenProperties
  <1>2. PICK g : g = (CHOOSE f : Loop(f, m, s, keys, v, how))
    OBVIOUS
  <1>3. PICK h : h = (CHOOSE f : Loop(f, m + 1, more, keys, v, how))
    OBVIOUS
  <1>4. Loop(g, m, s, keys, v, how)
    BY <1>1, <1>2, LoopRuns
  <1>5. Loop(h, m + 1, more, keys, v, how)
    <2>1. m + 1 \in Nat
      BY <1>1
    <2> QED
      BY <1>3, <2>1, LoopRuns
  <1>6. Result(s, keys, v, how) = g[m] /\ Result(more, keys, v, how) = h[m + 1]
    BY <1>1, <1>2, <1>3 DEF Result
  <1> HIDE DEF m, more
  <1>7. g[m] = h[m]
    BY <1>1, <1>4, <1>5, LoopsAgree
  <1>8. h[m + 1] = Round(h[m], line, keys, v, how)
    BY <1>1, <1>5 DEF Loop
  <1> QED
    BY <1>6, <1>7, <1>8 DEF more

LEMMA RewrittenIs ==
  ASSUME NEW lines, NEW keys, NEW v PROVE Rewritten(lines, keys, v) = Result(lines, keys, v, "put")
  BY DEF Rewritten, Result, Loop, Round

LEMMA OthersIs ==
  ASSUME NEW lines, NEW keys PROVE Others(lines, keys) = Result(lines, keys, Blank, "sift")
  BY DEF Others, Result, Loop, Round

-----------------------------------------------------------------------------
(* What is read of a key.                                                  *)

Value(lines, k) == IF Declares(lines, k) THEN lines[LastOf(lines, k)].val ELSE Blank

IsLast(i, lines, k) ==
    i \in DOMAIN lines /\ lines[i].key = k /\ \A j \in DOMAIN lines : j > i => lines[j].key # k

LEMMA LastExists ==
  ASSUME NEW lines \in Seq(Lines), NEW k, Declares(lines, k)
  PROVE  \E i : IsLast(i, lines, k)
  <1> DEFINE T == {s \in Seq(Lines) : Declares(s, k) => \E i : IsLast(i, s, k)}
  <1>1. <<>> \in T
    BY EmptySeq, LenProperties DEF Declares
  <1>2. ASSUME NEW s \in Seq(Lines), NEW line \in Lines, s \in T PROVE Append(s, line) \in T
    <2> DEFINE more == Append(s, line)
    <2>1. /\ more \in Seq(Lines) /\ Len(s) \in Nat /\ DOMAIN s = 1..Len(s)
          /\ DOMAIN more = 1..(Len(s) + 1) /\ more[Len(s) + 1] = line
          /\ \A i \in 1..Len(s) : more[i] = s[i]
      BY AppendProperties, LenProperties
    <2> HIDE DEF more
    <2>2. CASE line.key = k
      <3>1. IsLast(Len(s) + 1, more, k)
        BY <2>1, <2>2 DEF IsLast
      <3> QED
        BY <2>1, <3>1 DEF more
    <2>3. CASE line.key # k
      <3> SUFFICES ASSUME Declares(more, k) PROVE \E i : IsLast(i, more, k)
        BY <2>1 DEF more
      <3>1. Declares(s, k)
        BY <2>1, <2>3 DEF Declares
      <3>2. PICK i : IsLast(i, s, k)
        BY <1>2, <3>1
      <3>3. IsLast(i, more, k)
        BY <2>1, <2>3, <3>2 DEF IsLast
      <3> QED
        BY <3>3
    <2> QED
      BY <2>2, <2>3
  <1> HIDE DEF T
  <1>3. lines \in T
    BY <1>1, <1>2, LineByLine
  <1> QED
    BY <1>3 DEF T

LEMMA ValueIs ==
  ASSUME NEW lines \in Seq(Lines), NEW k, NEW i, IsLast(i, lines, k)
  PROVE  Value(lines, k) = lines[i].val
  <1>1. DOMAIN lines \subseteq Nat
    BY LenProperties
  <1>2. Declares(lines, k)
    BY DEF IsLast, Declares
  <1>3. IsLast(LastOf(lines, k), lines, k)
    BY DEF IsLast, LastOf
  <1>4. LastOf(lines, k) = i
    BY <1>1, <1>3 DEF IsLast
  <1> QED
    BY <1>2, <1>4 DEF Value

\* The last line that declares a key says what is read of it.
LEMMA ValueAppend ==
  ASSUME NEW s \in Seq(Lines), NEW line \in Lines, NEW k
  PROVE  /\ Value(Append(s, line), k) = IF line.key = k THEN line.val ELSE Value(s, k)
         /\ Declares(Append(s, line), k) <=> line.key = k \/ Declares(s, k)
  <1> DEFINE more == Append(s, line)
  <1>1. /\ more \in Seq(Lines) /\ Len(s) \in Nat /\ DOMAIN s = 1..Len(s)
        /\ DOMAIN more = 1..(Len(s) + 1) /\ more[Len(s) + 1] = line
        /\ \A i \in 1..Len(s) : more[i] = s[i]
    BY AppendProperties, LenProperties
  <1> HIDE DEF more
  <1>2. Declares(more, k) <=> line.key = k \/ Declares(s, k)
    BY <1>1 DEF Declares
  <1>3. CASE line.key = k
    <2>1. IsLast(Len(s) + 1, more, k)
      BY <1>1, <1>3 DEF IsLast
    <2>2. Value(more, k) = line.val
      BY <1>1, <2>1, ValueIs
    <2> QED
      BY <1>2, <1>3, <2>2 DEF more
  <1>4. CASE line.key # k /\ Declares(s, k)
    <2>1. PICK i : IsLast(i, s, k)
      BY <1>4, LastExists
    <2>2. IsLast(i, more, k)
      BY <1>1, <1>4, <2>1 DEF IsLast
    <2>3. more[i] = s[i]
      BY <1>1, <2>1 DEF IsLast
    <2>4. Value(more, k) = s[i].val
      BY <1>1, <2>2, <2>3, ValueIs
    <2>5. Value(s, k) = s[i].val
      BY <2>1, ValueIs
    <2> QED
      BY <1>2, <1>4, <2>4, <2>5 DEF more
  <1>5. CASE line.key # k /\ ~Declares(s, k)
    BY <1>2, <1>5 DEF Value, more
  <1> QED
    BY <1>3, <1>4, <1>5

-----------------------------------------------------------------------------
(* What upsert makes of a file.                                            *)

\* Of the keys that it writes only what it writes is declared; everything else
\* is as in `lines'.
Faithful(out, lines, keys, v) ==
    /\ out \in Seq(Lines)
    /\ \A k \in ToSet(keys) : Declares(out, k) => Value(out, k) = v
    /\ \A k : k \notin ToSet(keys) => Value(out, k) = Value(lines, k)
    /\ Others(out, keys) = Others(lines, keys)

LEMMA OthersAppend ==
  ASSUME NEW s \in Seq(Lines), NEW line \in Lines, NEW keys
  PROVE  Others(Append(s, line), keys) =
             IF line.key \in ToSet(keys) THEN Others(s, keys) ELSE Append(Others(s, keys), line)
  BY OthersIs, ResultAppend DEF Round

\* Appending what is not declared yet.
LEMMA SetFaithful ==
  ASSUME NEW lines, NEW keys, NEW v \in Values, NEW k \in ToSet(keys), k \in Owned,
         NEW out, Faithful(out, lines, keys, v)
  PROVE  /\ Faithful(Set(out, k, v), lines, keys, v)
         /\ Declares(Set(out, k, v), k)
         /\ \A j : Declares(out, j) => Declares(Set(out, k, v), j)
  <1>1. CASE Declares(out, k)
    BY <1>1 DEF Set
  <1>2. CASE ~Declares(out, k)
    <2>1. PICK line : line = [key |-> k, val |-> v]
      OBVIOUS
    <2>2. line \in Lines /\ line.key = k /\ line.val = v
      BY <2>1 DEF Lines
    <2>3. Set(out, k, v) = Append(out, line) /\ out \in Seq(Lines)
      BY <1>2, <2>1 DEF Set, Faithful
    <2>4. Append(out, line) \in Seq(Lines)
      BY <2>2, <2>3, AppendProperties
    <2>5. \A j : /\ Value(Append(out, line), j) = IF j = k THEN v ELSE Value(out, j)
                 /\ Declares(Append(out, line), j) <=> j = k \/ Declares(out, j)
      BY <2>2, <2>3, ValueAppend
    <2>6. Others(Append(out, line), keys) = Others(out, keys)
      BY <2>2, <2>3, OthersAppend
    <2> QED
      BY <2>3, <2>4, <2>5, <2>6 DEF Faithful
  <1> QED
    BY <1>1, <1>2

LEMMA PutFaithful ==
  ASSUME NEW s \in Seq(Lines), NEW line \in Lines, NEW keys, NEW v \in Values,
         ToSet(keys) \subseteq Owned, NEW out, Faithful(out, s, keys, v)
  PROVE  Faithful(Put(out, line, keys, v), Append(s, line), keys, v)
  <1>1. CASE line.key \in ToSet(keys)
    <2>1. Faithful(Set(out, line.key, v), s, keys, v)
      BY <1>1, SetFaithful
    <2>2. \A k : k \notin ToSet(keys) => Value(Append(s, line), k) = Value(s, k)
      BY <1>1, ValueAppend
    <2>3. Others(Append(s, line), keys) = Others(s, keys)
      BY <1>1, OthersAppend
    <2> QED
      BY <1>1, <2>1, <2>2, <2>3 DEF Faithful, Put
  <1>2. CASE line.key \notin ToSet(keys)
    <2>1. Put(out, line, keys, v) = Append(out, line) /\ out \in Seq(Lines)
      BY <1>2 DEF Put, Faithful
    <2>2. Append(out, line) \in Seq(Lines)
      BY <2>1, AppendProperties
    <2>3. \A k : /\ Value(Append(out, line), k) = IF line.key = k THEN line.val ELSE Value(out, k)
                 /\ Value(Append(s, line), k) = IF line.key = k THEN line.val ELSE Value(s, k)
                 /\ Declares(Append(out, line), k) <=> line.key = k \/ Declares(out, k)
      BY <2>1, ValueAppend
    <2>4. Others(Append(out, line), keys) = Others(Append(s, line), keys)
      <3>1. Others(Append(out, line), keys) = Append(Others(out, keys), line)
        BY <1>2, <2>1, OthersAppend
      <3>2. Others(Append(s, line), keys) = Append(Others(s, keys), line)
        BY <1>2, OthersAppend
      <3>3. Others(out, keys) = Others(s, keys)
        BY DEF Faithful
      <3> QED
        BY <3>1, <3>2, <3>3
    <2> QED
      BY <1>2, <2>1, <2>2, <2>3, <2>4 DEF Faithful
  <1> QED
    BY <1>1, <1>2

LEMMA RewrittenFaithful ==
  ASSUME NEW lines \in Seq(Lines), NEW keys, NEW v \in Values, ToSet(keys) \subseteq Owned
  PROVE  Faithful(Rewritten(lines, keys, v), lines, keys, v)
  <1> DEFINE T == {s \in Seq(Lines) : Faithful(Rewritten(s, keys, v), s, keys, v)}
  <1>1. <<>> \in T
    <2>1. Rewritten(<<>>, keys, v) = <<>> /\ <<>> \in Seq(Lines)
      BY RewrittenIs, ResultEmpty, EmptySeq
    <2>2. \A k : ~Declares(<<>>, k)
      BY EmptySeq, LenProperties DEF Declares
    <2> QED
      BY <2>1, <2>2 DEF Faithful
  <1>2. ASSUME NEW s \in Seq(Lines), NEW line \in Lines, s \in T PROVE Append(s, line) \in T
    <2>1. Rewritten(Append(s, line), keys, v) = Put(Rewritten(s, keys, v), line, keys, v)
      <3>1. Rewritten(s, keys, v) = Result(s, keys, v, "put")
        BY RewrittenIs
      <3>2. Rewritten(Append(s, line), keys, v) = Result(Append(s, line), keys, v, "put")
        BY RewrittenIs
      <3>3. Result(Append(s, line), keys, v, "put")
              = Round(Result(s, keys, v, "put"), line, keys, v, "put")
        BY ResultAppend
      <3>4. \A out : Round(out, line, keys, v, "put") = Put(out, line, keys, v)
        BY DEF Round
      <3> QED
        BY <3>1, <3>2, <3>3, <3>4
    <2>2. Append(s, line) \in Seq(Lines)
      BY AppendProperties
    <2> QED
      BY <1>2, <2>1, <2>2, PutFaithful
  <1> HIDE DEF T
  <1>3. lines \in T
    BY <1>1, <1>2, LineByLine
  <1> QED
    BY <1>3 DEF T

LEMMA KeysAre ==
  ASSUME NEW keys \in {Latch, Home}
  PROVE  ToSet(keys) = {keys[1], keys[2]} /\ ToSet(keys) \subseteq Owned
  BY DEF ToSet, Latch, Home, Owned

\* upsert writes its two keys, both to the same value, and leaves of every other
\* line what it says and where it stands.
THEOREM UpsertWrites ==
  ASSUME NEW f \in Files, NEW keys \in {Latch, Home}, NEW v \in Values
  PROVE  /\ Upsert(f, keys, v) \in Files
         /\ \A k \in ToSet(keys) : DotenvRead(Upsert(f, keys, v), k) = v
         /\ \A k : k \notin ToSet(keys) => DotenvRead(Upsert(f, keys, v), k) = DotenvRead(f, k)
         /\ Others(Upsert(f, keys, v).lines, keys) = Others(f.lines, keys)
  <1>1. f.lines \in Seq(Lines)
    BY DEF Files
  <1>2. PICK given : given = Rewritten(f.lines, keys, v)
    OBVIOUS
  <1>3. Faithful(given, f.lines, keys, v)
    BY <1>1, <1>2, KeysAre, RewrittenFaithful
  <1>4. PICK one : one = Set(given, keys[1], v)
    OBVIOUS
  <1>5. Faithful(one, f.lines, keys, v) /\ Declares(one, keys[1])
    BY <1>3, <1>4, KeysAre, SetFaithful
  <1>6. PICK two : two = Set(one, keys[2], v)
    OBVIOUS
  <1>7. Faithful(two, f.lines, keys, v) /\ Declares(two, keys[1]) /\ Declares(two, keys[2])
    <2>1. keys[2] \in ToSet(keys) /\ keys[2] \in Owned
      BY KeysAre
    <2>2. /\ Faithful(Set(one, keys[2], v), f.lines, keys, v)
          /\ Declares(Set(one, keys[2], v), keys[2])
          /\ \A j : Declares(one, j) => Declares(Set(one, keys[2], v), j)
      BY <1>5, <2>1, SetFaithful
    <2> QED
      BY <1>5, <1>6, <2>2
  <1>8. Upsert(f, keys, v) = [lines |-> two, ended |-> TRUE]
    BY <1>2, <1>4, <1>6 DEF Upsert
  <1>9. \A k : DotenvRead([lines |-> two, ended |-> TRUE], k) = Value(two, k) /\ DotenvRead(f, k) = Value(f.lines, k)
    BY DEF DotenvRead, Value
  <1>10. Upsert(f, keys, v) \in Files
    BY <1>7, <1>8 DEF Faithful, Files
  <1>11. \A k \in ToSet(keys) : Value(two, k) = v
    BY <1>7, KeysAre DEF Faithful
  <1>12. \A k : k \notin ToSet(keys) => Value(two, k) = Value(f.lines, k)
    BY <1>7 DEF Faithful
  <1>13. Others(two, keys) = Others(f.lines, keys)
    BY <1>7 DEF Faithful
  <1>14. Upsert(f, keys, v).lines = two
    BY <1>8
  <1>15. \A k : DotenvRead(Upsert(f, keys, v), k) = Value(two, k)
    BY <1>8, <1>9
  <1> QED
    BY <1>9, <1>10, <1>11, <1>12, <1>13, <1>14, <1>15

LEMMA UpsertMatches ==
  ASSUME NEW f \in Files, Matched(f), NEW keys \in {Latch, Home}, NEW v \in Values
  PROVE  Matched(Upsert(f, keys, v))
  <1>1. PICK g : g = Upsert(f, keys, v)
    OBVIOUS
  <1>2. /\ \A k \in ToSet(keys) : DotenvRead(g, k) = v
        /\ \A k : k \notin ToSet(keys) => DotenvRead(g, k) = DotenvRead(f, k)
    BY <1>1, UpsertWrites
  <1>3. ToSet(keys) = {keys[1], keys[2]}
    BY KeysAre
  <1>4. CASE keys = Latch
    <2>1. /\ Latch[1] \in ToSet(keys) /\ Latch[2] \in ToSet(keys)
          /\ Home[1] \notin ToSet(keys) /\ Home[2] \notin ToSet(keys)
      BY <1>3, <1>4 DEF Latch, Home
    <2> QED
      BY <1>1, <1>2, <2>1 DEF Matched
  <1>5. CASE keys = Home
    <2>1. /\ Home[1] \in ToSet(keys) /\ Home[2] \in ToSet(keys)
          /\ Latch[1] \notin ToSet(keys) /\ Latch[2] \notin ToSet(keys)
      BY <1>3, <1>5 DEF Latch, Home
    <2> QED
      BY <1>1, <1>2, <2>1 DEF Matched
  <1> QED
    BY <1>4, <1>5

\* What a person appends, or an editor's save, changes no key of agent-mgr's.
LEMMA AppendKeeps ==
  ASSUME NEW f \in Files, NEW line, line = [key |-> "AGENT_TZ", val |-> "theirs"],
         NEW g, g = [lines |-> Append(f.lines, line), ended |-> TRUE]
  PROVE  g \in Files /\ \A k \in Owned : DotenvRead(g, k) = DotenvRead(f, k)
  <1>1. line \in Lines /\ line.key \notin Owned
    BY DEF Lines, Owned, Latch, Home
  <1>2. f.lines \in Seq(Lines)
    BY DEF Files
  <1>3. g.lines = Append(f.lines, line) /\ g.lines \in Seq(Lines)
    BY <1>1, <1>2, AppendProperties
  <1>4. \A k \in Owned : Value(g.lines, k) = Value(f.lines, k)
    BY <1>1, <1>2, <1>3, ValueAppend
  <1>5. \A k : DotenvRead(g, k) = Value(g.lines, k) /\ DotenvRead(f, k) = Value(f.lines, k)
    BY DEF DotenvRead, Value
  <1> QED
    BY <1>3, <1>4, <1>5 DEF Files

LEMMA SaveKeeps ==
  ASSUME NEW f \in Files, NEW g, g = [f EXCEPT !.ended = FALSE]
  PROVE  g \in Files /\ \A k \in Owned : DotenvRead(g, k) = DotenvRead(f, k)
  <1>1. g \in Files /\ g.lines = f.lines
    BY DEF Files
  <1> QED
    BY <1>1 DEF DotenvRead

LEMMA SameMatches ==
  ASSUME NEW f, Matched(f), NEW g, \A k \in Owned : DotenvRead(g, k) = DotenvRead(f, k)
  PROVE  Matched(g)
  <1>1. Latch[1] \in Owned /\ Latch[2] \in Owned /\ Home[1] \in Owned /\ Home[2] \in Owned
    BY DEF Owned
  <1> QED
    BY <1>1 DEF Matched

-----------------------------------------------------------------------------
(* The dotenv.                                                             *)

\* What an editor has read, and will write upon, was whole when it read it.
Whole ==
    /\ TypeOK
    /\ PairsMatch
    /\ \A e \in Editors : At(e, "publish") => file # Absent /\ Matched(proc[e].current)

LEMMA WholeInit == Init => Whole
BY FilesAssumption, StartsMatch DEF Init, Whole, TypeOK, PairsMatch, At

\* What a command knows of itself.
LEMMA EditTyped ==
  ASSUME TypeOK, NEW e \in Editors, proc[e] # Idle
  PROVE  /\ proc[e].keys \in {Latch, Home} /\ proc[e].val \in Values
         /\ proc[e].pc \in {"read", "publish"}
         /\ proc[e].pc = "publish" => proc[e].current \in Files
BY DEF TypeOK, Edits

LEMMA WholeNext == ASSUME Whole, [Next]_vars PROVE Whole'
<1> USE ProcsAssumption, FilesAssumption DEF Whole
<1>1. ASSUME NEW e \in Editors, NEW v \in Values, SetLatch(e, v) \/ SetHome(e, v) PROVE Whole'
  <2>1. PICK keys \in {Latch, Home} : proc' = [proc EXCEPT ![e] = [pc |-> "read", keys |-> keys, val |-> v]]
    BY <1>1 DEF SetLatch, SetHome
  <2>2. UNCHANGED file
    BY <1>1 DEF SetLatch, SetHome
  <2>3. [pc |-> "read", keys |-> keys, val |-> v] \in Edits
    BY DEF Edits
  <2>4. TypeOK'
    BY <2>1, <2>2, <2>3 DEF TypeOK
  <2>5. \A d \in Editors : At(d, "publish")' => At(d, "publish") /\ proc'[d] = proc[d]
    BY <2>1 DEF At, TypeOK
  <2> QED
    BY <2>2, <2>4, <2>5 DEF PairsMatch
<1>2. ASSUME NEW e \in Editors, Read(e) PROVE Whole'
  <2>1. CASE file = Absent
    <3>1. TypeOK'
      BY <1>2, <2>1 DEF Read, End, TypeOK
    <3>2. \A d \in Editors : At(d, "publish")' => At(d, "publish") /\ proc'[d] = proc[d]
      BY <1>2, <2>1 DEF Read, End, At, TypeOK
    <3> QED
      BY <1>2, <3>1, <3>2 DEF Read, PairsMatch
  <2>2. CASE file # Absent
    <3>1. proc' = [proc EXCEPT ![e] =
                     [pc |-> "publish", keys |-> proc[e].keys, val |-> proc[e].val, current |-> file]]
      BY <1>2, <2>2 DEF Read, Reading, TypeOK
    <3>2. UNCHANGED file /\ file \in Files
      BY <1>2, <2>2 DEF Read, TypeOK
    <3>3. [pc |-> "publish", keys |-> proc[e].keys, val |-> proc[e].val, current |-> file] \in Edits
      BY <1>2, <3>2, EditTyped DEF Read, At, Edits
    <3>4. TypeOK'
      BY <3>1, <3>2, <3>3 DEF TypeOK
    <3>5. \A d \in Editors \ {e} : At(d, "publish")' => At(d, "publish") /\ proc'[d] = proc[d]
      BY <3>1 DEF At, TypeOK
    <3>6. proc'[e].current = file
      BY <3>1 DEF TypeOK
    <3> QED
      BY <2>2, <3>2, <3>4, <3>5, <3>6 DEF PairsMatch
  <2> QED
    BY <2>1, <2>2
<1>3. ASSUME NEW p \in Editors \cup Deployers, End(p), UNCHANGED file \/ (file' \in Files /\ Matched(file'))
      PROVE  Whole'
  <2>1. TypeOK'
    BY <1>3 DEF End, TypeOK
  <2>2. \A d \in Editors : At(d, "publish")' => At(d, "publish") /\ proc'[d] = proc[d]
    BY <1>3 DEF End, At, TypeOK
  <2>3. PairsMatch' /\ (file # Absent => file' # Absent)
    BY <1>3 DEF PairsMatch
  <2> QED
    BY <2>1, <2>2, <2>3
<1>4. ASSUME NEW e \in Editors, Publish(e) PROVE Whole'
  <2>1. /\ proc[e].keys \in {Latch, Home} /\ proc[e].val \in Values
        /\ proc[e].current \in Files /\ Matched(proc[e].current)
    BY <1>4, EditTyped DEF Publish, At
  <2>2. file' \in Files /\ Matched(file')
    BY <1>4, <2>1, UpsertWrites, UpsertMatches DEF Publish
  <2> QED
    BY <1>3, <1>4, <2>2 DEF Publish
<1>5. ASSUME NEW d \in Deployers, Deploy(d) \/ (TestExists(d) /\ file = Absent) PROVE Whole'
  <2>1. PICK new \in Deploys : proc' = [proc EXCEPT ![d] = new]
    <3>1. CASE Deploy(d)
      BY <3>1 DEF Deploy, Deploys
    <3>2. CASE TestExists(d) /\ file = Absent
      <4>1. proc[d] \in Deploys
        BY <3>2 DEF TestExists, At, TypeOK
      <4>2. [proc[d] EXCEPT !.pc = "skeleton"] \in Deploys
        BY <4>1 DEF Deploys
      <4>3. proc' = [proc EXCEPT ![d] = [proc[d] EXCEPT !.pc = "skeleton"]]
        BY <3>2 DEF TestExists, TypeOK
      <4> QED
        BY <4>2, <4>3
    <3> QED
      BY <1>5, <3>1, <3>2
  <2>2. UNCHANGED file
    BY <1>5 DEF Deploy, TestExists
  <2>3. TypeOK'
    BY <2>1, <2>2 DEF TypeOK
  <2>4. \A e \in Editors : proc'[e] = proc[e]
    BY <2>1 DEF TypeOK
  <2> QED
    BY <2>2, <2>3, <2>4 DEF PairsMatch, At
<1>6. ASSUME NEW d \in Deployers, TestExists(d), file # Absent PROVE Whole'
  BY <1>3, <1>6 DEF TestExists
<1>7. ASSUME NEW d \in Deployers, PublishSkeleton(d) PROVE Whole'
  BY <1>3, <1>7, StartsMatch DEF PublishSkeleton
<1>8. ASSUME NEW p \in Editors \cup Deployers, Abandon(p) PROVE Whole'
  BY <1>3, <1>8 DEF Abandon
<1>9. ASSUME file # Absent, file' \in Files, \A k \in Owned : DotenvRead(file', k) = DotenvRead(file, k),
             UNCHANGED proc
      PROVE  Whole'
  <2>1. Matched(file')
    BY <1>9, SameMatches DEF PairsMatch
  <2> QED
    BY <1>9, <2>1 DEF TypeOK, PairsMatch, At
<1>10. CASE AppendZone \/ SaveUnended
  <2>1. file # Absent /\ file \in Files /\ UNCHANGED proc
    BY <1>10 DEF AppendZone, SaveUnended, TypeOK
  <2>2. file' \in Files /\ \A k \in Owned : DotenvRead(file', k) = DotenvRead(file, k)
    BY <1>10, <2>1, AppendKeeps, SaveKeeps DEF AppendZone, SaveUnended
  <2> QED
    BY <1>9, <2>1, <2>2
<1>11. CASE UNCHANGED vars
  BY <1>11 DEF vars, TypeOK, PairsMatch, At
<1>12. ASSUME NEW e \in Editors,
              (\E v \in Values : SetLatch(e, v) \/ SetHome(e, v)) \/ Read(e) \/ Publish(e) \/ Abandon(e)
       PROVE  Whole'
  <2>1. CASE \E v \in Values : SetLatch(e, v) \/ SetHome(e, v)
    BY <1>1, <2>1
  <2> QED
    BY <1>2, <1>4, <1>8, <1>12, <2>1
<1>13. ASSUME NEW d \in Deployers, Deploy(d) \/ TestExists(d) \/ PublishSkeleton(d) \/ Abandon(d)
       PROVE  Whole'
  BY <1>5, <1>6, <1>7, <1>8, <1>13
<1> HIDE DEF Whole
<1> QED
  BY <1>2, <1>10, <1>11, <1>12, <1>13 DEF Next

LEMMA WholeAlways == Spec => []Whole
BY WholeInit, WholeNext, PTL DEF Spec

\* commands.py, set_latch and set_home, and lib/upsert-env: no process ever holds
\* a value that is not one paste, one chat or nothing, and the dotenv is a file of
\* lines, whatever was read, renamed or given up in between.
THEOREM DotenvTyped == Spec => []TypeOK
BY WholeAlways, PTL DEF Whole

\* lib/upsert-env rewrites every later declaration away and renames a whole file:
\* however many editors and deploys run, whoever reads the dotenv finds both
\* halves of one paste, and one chat under its two names.
THEOREM PairsMatchAlways == Spec => []PairsMatch
BY WholeAlways, PTL DEF Whole

\* lib/upsert-env, every line that it does not own is copied, in order, with or
\* without a last newline: of files of any length.
THEOREM OthersCopied == Spec => CopiesOthers
<1>1. ASSUME Whole, NEW e \in Editors, Publish(e), proc[e].current = file
      PROVE  Others(file'.lines, proc[e].keys) = Others(file.lines, proc[e].keys)
  <2>1. proc[e].keys \in {Latch, Home} /\ proc[e].val \in Values /\ proc[e].current \in Files
    BY <1>1, EditTyped DEF Publish, At, Whole
  <2> QED
    BY <1>1, <2>1, UpsertWrites DEF Publish
<1>2. ASSUME Whole, [Next]_vars
      PROVE  [\A e \in Editors :
                Publish(e) /\ proc[e].current = file
                    => Others(file'.lines, proc[e].keys) = Others(file.lines, proc[e].keys)]_vars
  BY <1>1, <1>2
<1> QED
  BY <1>2, WholeAlways, PTL DEF Spec, CopiesOthers

\* A deploy that is about to publish its skeleton is the only one that makes a
\* file of none.
Alone == \A d \in Deployers : At(d, "skeleton") => file = Absent

OneDeploy == \A d, e \in Deployers : d = e

LEMMA AloneAlways == ASSUME OneDeploy PROVE Spec => []Alone
<1>1. Init => Alone
  BY DEF Init, Alone, At
<1>2. ASSUME Whole, Alone, [Next]_vars PROVE Alone'
  <2> USE ProcsAssumption, FilesAssumption DEF Whole
  <2>1. \A d \in Deployers : At(d, "skeleton")' /\ ~ At(d, "skeleton") => UNCHANGED file /\ file = Absent
    <3> SUFFICES ASSUME NEW d \in Deployers, At(d, "skeleton")', ~ At(d, "skeleton")
                 PROVE  UNCHANGED file /\ file = Absent
      OBVIOUS
    <3>1. ASSUME NEW e \in Editors, Publish(e) \/ Read(e) \/ Abandon(e)
                                    \/ (\E v \in Values : SetLatch(e, v) \/ SetHome(e, v))
          PROVE  proc'[d] = proc[d]
      BY <1>2, <3>1 DEF Publish, Read, Reading, Abandon, SetLatch, SetHome, End, TypeOK
    <3>2. proc'[d] # proc[d]
      BY DEF At
    <3>3. PICK e \in Deployers : Deploy(e) \/ TestExists(e) \/ PublishSkeleton(e) \/ Abandon(e)
      BY <1>2, <3>1, <3>2 DEF Next, AppendZone, SaveUnended, vars
    <3>4. e = d
      BY <3>3 DEF OneDeploy
    <3> QED
      BY <1>2, <3>3, <3>4 DEF Deploy, TestExists, PublishSkeleton, Abandon, End, At, TypeOK
  <2>2. ASSUME NEW d \in Deployers, At(d, "skeleton"), At(d, "skeleton")', file = Absent
        PROVE  file' = Absent
    <3>1. ~ PublishSkeleton(d)
      BY <1>2, <2>2 DEF PublishSkeleton, End, At, TypeOK
    <3>2. \A e \in Editors : ~ Publish(e)
      BY <1>2, <2>2 DEF Publish
    <3>3. \A e \in Deployers : ~ PublishSkeleton(e)
      BY <3>1 DEF OneDeploy
    <3> QED
      BY <1>2, <2>2, <3>2, <3>3 DEF Next, SetLatch, SetHome, Read, Abandon, Deploy, TestExists,
                                AppendZone, SaveUnended, vars
  <2> QED
    BY <1>2, <2>1, <2>2 DEF Alone
<1> QED
  BY <1>1, <1>2, WholeAlways, PTL DEF Spec

\* commands.py, set_latch and set_home, and deploy.py: what was written is read
\* from then on, until another command writes the same keys or renames over it
\* what was read before it.  One deploy at a time: a second one that saw no file
\* would put its skeleton over a file that the first made and an editor wrote.
THEOREM WritesStay == ASSUME OneDeploy PROVE Spec => WrittenStays
<1>1. ASSUME Whole, Alone, [Next]_vars, ~ UNCHANGED vars, NEW k \in Owned, file # Absent,
             DotenvRead(file', k) # DotenvRead(file, k)
      PROVE  \E e \in Editors : Publish(e) /\ (k \in ToSet(proc[e].keys) \/ proc[e].current # file)
  <2>1. Next /\ file' # file /\ file \in Files
    BY <1>1 DEF Whole, TypeOK
  <2>2. ~ AppendZone /\ ~ SaveUnended
    BY <1>1, <2>1, AppendKeeps, SaveKeeps DEF AppendZone, SaveUnended
  <2>3. \A d \in Deployers : ~ PublishSkeleton(d)
    BY <1>1 DEF Alone, PublishSkeleton
  <2>4. PICK e \in Editors : Publish(e)
    BY <2>1, <2>2, <2>3 DEF Next, SetLatch, SetHome, Read, Abandon, Deploy, TestExists
  <2>5. proc[e].keys \in {Latch, Home} /\ proc[e].val \in Values /\ proc[e].current \in Files
    BY <1>1, <2>4, EditTyped DEF Publish, At, Whole
  <2>6. k \notin ToSet(proc[e].keys) /\ proc[e].current = file => DotenvRead(file', k) = DotenvRead(file, k)
    BY <2>4, <2>5, UpsertWrites DEF Publish
  <2> QED
    BY <1>1, <2>4, <2>6
<1>2. ASSUME Whole, Alone, [Next]_vars
      PROVE  [\A k \in Owned :
                file # Absent /\ DotenvRead(file', k) # DotenvRead(file, k)
                    => \E e \in Editors :
                          Publish(e) /\ (k \in ToSet(proc[e].keys) \/ proc[e].current # file)]_vars
  BY <1>1, <1>2
<1> QED
  BY <1>2, WholeAlways, AloneAlways, PTL DEF Spec, WrittenStays

-----------------------------------------------------------------------------
(* The shared skills.                                                      *)

\* What a running command knows: deploy replays the manifest as it is, and
\* add-skill has its tree in place before it reads the manifest.
CmdInv ==
    cmd # NoCommand =>
        /\ cmd.op = "deploy" <=> cmd.pc = "replay"
        /\ cmd.op = "add-skill" => cmd.dest \in Dests /\ cmd.rev \in Revs
        /\ cmd.pc \in {"replay", "publish"} => cmd.rows = pins

Settled(n, d) == pins[d] # None => Holds(n, d)

\* What a settled home holds while a command serves it, and what deploy has
\* replayed.
HomeInv ==
    /\ \A n \in settled : ~ Serves(n) => \A d \in Dests : Settled(n, d)
    /\ \A n \in settled : Serves(n) =>
          /\ cmd.op = "add-skill"
          /\ \A d \in Dests \ {cmd.dest} : Settled(n, d)
          /\ cmd.pc = "fetch" => Settled(n, cmd.dest)
    /\ cmd # NoCommand /\ cmd.pc \in {"read", "publish"} => tree[cmd.name][cmd.dest] = cmd.rev
    /\ cmd # NoCommand /\ cmd.pc = "replay" => \A d \in Dests \ cmd.todo : Settled(cmd.name, d)

PinInv == SkillsTypeOK /\ CmdInv

USE NullAssumption, NoCommandAssumption

LEMMA InitTyped == SkillsInit => PinInv
BY DEF SkillsInit, PinInv, SkillsTypeOK, CmdInv, Pins, Commands

LEMMA NextTyped == ASSUME PinInv, [SkillsNext]_skillsVars PROVE PinInv'
<1> USE DEF PinInv, SkillsTypeOK, CmdInv, Pins, Commands, CmdAt, Goto
<1>1. ASSUME NEW n \in Names, NEW d \in Dests, NEW r \in Refs, AddSkill(n, d, r) PROVE PinInv'
  BY <1>1 DEF AddSkill, Validates
<1>2. ASSUME NEW n \in Names, NEW d \in Dests, Forget(n, d) PROVE PinInv'
  BY <1>2 DEF Forget
<1>3. ASSUME NEW n \in Names, DeploySkills(n) PROVE PinInv'
  BY <1>3 DEF DeploySkills
<1>4. ASSUME NEW d \in Dests, Replay(d) PROVE PinInv'
  BY <1>4 DEF Replay, Validates, Swap
<1>5. ASSUME NEW d \in Dests, NEW r \in Refs \cup {None}, Checkout(d, r) PROVE PinInv'
  BY <1>5 DEF Checkout
<1>6. CASE Fetch
  BY <1>6 DEF Fetch, Swap
<1>7. CASE ReadManifest
  BY <1>7 DEF ReadManifest
<1>8. CASE PublishManifest
  BY <1>8 DEF PublishManifest, Replacement
<1>9. CASE DeployDone
  BY <1>9 DEF DeployDone
<1>10. CASE Fail
  BY <1>10 DEF Fail
<1>11. CASE UNCHANGED skillsVars
  BY <1>11 DEF skillsVars
<1> QED BY <1>1, <1>2, <1>3, <1>4, <1>5, <1>6, <1>7, <1>8, <1>9, <1>10, <1>11 DEF SkillsNext

LEMMA Inductive == SkillsSpec => []PinInv
BY InitTyped, NextTyped, PTL DEF SkillsSpec

\* A home holds trees at full SHAs only, whatever skills.tsv says: the type
\* invariant of commands.py, deploy.py and fetch-tree together.
THEOREM TreesValidated == SkillsSpec => []SkillsTypeOK
BY Inductive, PTL DEF PinInv

\* add-skill changes the pin of its own destination and no other: commands.py,
\* the replacement of one row.
THEOREM PinsChangeSingly == SkillsSpec => OthersKept
<1>1. ASSUME PinInv, [SkillsNext]_skillsVars
      PROVE [pins' # pins /\ cmd # NoCommand
             => \A d \in Dests : pins'[d] # pins[d] => d = cmd.dest /\ pins'[d] = cmd.rev]_skillsVars
  <2> USE DEF PinInv, SkillsTypeOK, CmdInv, Pins, Commands, CmdAt
  <2>1. CASE PublishManifest
    BY <1>1, <2>1 DEF PublishManifest, Replacement
  <2>2. CASE \E d \in Dests, r \in Refs \cup {None} : Checkout(d, r)
    BY <1>1, <2>2 DEF Checkout
  <2>3. CASE ~ PublishManifest /\ ~ (\E d \in Dests, r \in Refs \cup {None} : Checkout(d, r))
    BY <1>1, <2>3 DEF SkillsNext, AddSkill, Forget, DeploySkills, Replay, Fetch, ReadManifest,
                      DeployDone, Fail, skillsVars
  <2> QED BY <2>1, <2>2, <2>3
<1> QED BY <1>1, Inductive, PTL DEF SkillsSpec, OthersKept

-----------------------------------------------------------------------------
LEMMA InitHolds == SkillsInit => HomeInv
BY DEF SkillsInit, HomeInv, Settled, Serves

\* Swapping one tree leaves every other home alone, and of its own home every
\* skill that does not lie below.
LEMMA SwapAlone ==
    ASSUME PinInv, cmd # NoCommand, NEW d \in Dests, NEW r, Swap(d, r)
    PROVE  /\ \A n \in Names, e \in Dests :
                 \/ tree'[n][e] = tree[n][e]
                 \/ n = cmd.name /\ e = d
                 \/ Below(e) /\ tree'[n][e] = None
           /\ tree'[cmd.name][d] = r
BY DEF PinInv, SkillsTypeOK, Commands, Swap, Below

LEMMA NextHolds == ASSUME PinInv, HomeInv, [SkillsNext]_skillsVars PROVE HomeInv'
<1> USE DEF PinInv, SkillsTypeOK, CmdInv, Pins, Commands, CmdAt, Goto, HomeInv, Settled, Holds, Serves
<1>1. ASSUME NEW n \in Names, NEW d \in Dests, NEW r \in Refs, AddSkill(n, d, r) PROVE HomeInv'
  BY <1>1 DEF AddSkill, Validates
<1>2. ASSUME NEW n \in Names, NEW d \in Dests, Forget(n, d) PROVE HomeInv'
  BY <1>2 DEF Forget
<1>3. ASSUME NEW n \in Names, DeploySkills(n) PROVE HomeInv'
  BY <1>3 DEF DeploySkills
<1>4. ASSUME NEW d \in Dests, Replay(d) PROVE HomeInv'
  BY <1>4, SwapAlone DEF Replay
<1>5. ASSUME NEW d \in Dests, NEW r \in Refs \cup {None}, Checkout(d, r) PROVE HomeInv'
  BY <1>5 DEF Checkout
<1>6. CASE Fetch
  <2>1. /\ cmd # NoCommand /\ cmd.pc = "fetch" /\ cmd.op = "add-skill" /\ cmd.dest \in Dests
        /\ cmd \in Commands /\ Swap(cmd.dest, cmd.rev) /\ UNCHANGED <<pins, settled>>
    BY <1>6 DEF Fetch
  <2>2. cmd' # NoCommand /\ cmd'.pc = "read" /\ cmd'.op = cmd.op /\ cmd'.name = cmd.name
        /\ cmd'.dest = cmd.dest /\ cmd'.rev = cmd.rev
    BY <1>6, <2>1 DEF Fetch
  <2>3. /\ \A n \in Names, e \in Dests :
              \/ tree'[n][e] = tree[n][e]
              \/ n = cmd.name /\ e = cmd.dest
              \/ Below(e) /\ tree'[n][e] = None
        /\ tree'[cmd.name][cmd.dest] = cmd.rev
    BY <2>1, SwapAlone
  <2> QED BY <2>1, <2>2, <2>3
<1>7. CASE ReadManifest
  <2>1. /\ cmd # NoCommand /\ cmd.pc = "read" /\ cmd \in Commands
        /\ cmd' # NoCommand /\ cmd'.pc = "publish"
        /\ cmd'.op = cmd.op /\ cmd'.name = cmd.name /\ cmd'.dest = cmd.dest
        /\ cmd'.rev = cmd.rev
        /\ UNCHANGED <<pins, tree, settled>>
    BY <1>7 DEF ReadManifest
  <2> QED BY <2>1
<1>8. CASE PublishManifest
  BY <1>8 DEF PublishManifest, Replacement
<1>9. CASE DeployDone
  BY <1>9 DEF DeployDone
<1>10. CASE Fail
  BY <1>10 DEF Fail
<1>11. CASE UNCHANGED skillsVars
  BY <1>11 DEF skillsVars
<1> QED BY <1>1, <1>2, <1>3, <1>4, <1>5, <1>6, <1>7, <1>8, <1>9, <1>10, <1>11 DEF SkillsNext

\* Whatever failed, was killed or served another agent of the checkout, a home
\* that was last reported to be in order holds every pin, and at worst misses a
\* skill that lies below another: deploy.py, replay_skills, and commands.py,
\* add_skill.
THEOREM PinsInstalled == SkillsSpec => []HomeHoldsPins
<1>1. HomeInv => HomeHoldsPins
  BY DEF HomeInv, HomeHoldsPins, Settled
<1>2. ASSUME PinInv, PinInv', HomeInv, [SkillsNext]_skillsVars PROVE HomeInv'
  BY <1>2, NextHolds
<1> QED BY <1>1, <1>2, Inductive, InitHolds, PTL DEF SkillsSpec
=============================================================================
