--------------------------- MODULE CourseText_proofs ---------------------------
(***************************************************************************)
(* Proofs about the text of an answer: what the client makes of it.        *)
(*                                                                         *)
(* Split is a fold and FlattenSeq a recursive function.  What they do with *)
(* one element more is proved from the function each is defined by, and    *)
(* what they do with a sequence by induction, stated about a set of        *)
(* numbers or sequences in the place of a predicate (NatSets, SeqSets).    *)
(***************************************************************************)
EXTENDS CourseText, WellFoundedInduction, SequenceTheorems, TLAPS

-----------------------------------------------------------------------------
(* Induction. *)

\* Induction over the naturals, about a set in the place of a predicate.
LEMMA NatSets ==
    ASSUME NEW S, 0 \in S, \A n \in Nat : n \in S => n + 1 \in S
    PROVE  Nat \subseteq S
  <1> SUFFICES ASSUME Nat \ S # {} PROVE FALSE
    OBVIOUS
  <1>1. PICK m \in Nat \ S : \A y \in Nat \ S : ~(<<y, m>> \in OpToRel(<, Nat))
    BY NatLessThanWellFounded, WFMin
  <1>2. \A y \in Nat \ S : ~(y < m)
    BY <1>1 DEF OpToRel
  <1>3. m # 0 /\ m - 1 \in Nat /\ (m - 1) + 1 = m /\ m - 1 < m
    OBVIOUS
  <1>4. m - 1 \in S
    BY <1>2, <1>3
  <1> QED
    BY <1>3, <1>4

\* Induction over sequences in the same form.
LEMMA SeqSets ==
    ASSUME NEW T, NEW S, <<>> \in S,
           \A s \in Seq(T), e \in T : s \in S => Append(s, e) \in S
    PROVE  Seq(T) \subseteq S
  <1> DEFINE Lengths == {n \in Nat : \A s \in Seq(T) : Len(s) = n => s \in S}
  <1>1. 0 \in Lengths
    BY EmptySeq
  <1>2. ASSUME NEW n \in Nat, n \in Lengths
        PROVE  n + 1 \in Lengths
    <2> SUFFICES ASSUME NEW s \in Seq(T), Len(s) = n + 1
                 PROVE  s \in S
      OBVIOUS
    <2>1. PICK r \in Seq(T), e \in T : s = Append(r, e)
      BY SequenceEmptyOrAppend
    <2>2. Len(r) = n
      BY <2>1, AppendProperties
    <2> QED
      BY <1>2, <2>1, <2>2
  <1> HIDE DEF Lengths
  <1>3. Nat \subseteq Lengths
    BY <1>1, <1>2, NatSets
  <1> QED
    BY <1>3, LenProperties DEF Lengths

-----------------------------------------------------------------------------
(* Split. *)

SplitNext(out, ch, sep) ==
    IF ch = sep THEN Append(out, <<>>)
    ELSE [out EXCEPT ![Len(out)] = Append(@, ch)]

\* f is the fold of the first m characters, on every set of their places.
SplitFold(f, text, sep, m) ==
    f = [s \in SUBSET (1 .. m) |->
           IF s = {} THEN <<<<>>>>
           ELSE SplitNext(f[s \ {Max(s)}], text[Max(s)], sep)]

\* The last place of a prefix that has it.
LEMMA MaxOf ==
    ASSUME NEW m \in Nat, NEW s \in SUBSET (1 .. m + 1), m + 1 \in s
    PROVE  Max(s) = m + 1
  <1>1. \A y \in s : m + 1 >= y
    OBVIOUS
  <1>2. \A x \in s : (\A y \in s : x >= y) => x = m + 1
    OBVIOUS
  <1> QED
    BY <1>1, <1>2 DEF Max

\* The last place of a prefix is one of its places.
LEMMA MaxIn ==
    ASSUME NEW m \in Nat, NEW s \in SUBSET (1 .. m), s # {}
    PROVE  Max(s) \in s
  <1> DEFINE S == {n \in Nat : \A t \in SUBSET (1 .. n) :
                      t # {} => \E x \in t : \A y \in t : x >= y}
  <1>1. 0 \in S
    <2>1. \A t \in SUBSET (1 .. 0) : t = {}
      OBVIOUS
    <2> QED
      BY <2>1
  <1>2. ASSUME NEW n \in Nat, n \in S PROVE n + 1 \in S
    <2> SUFFICES ASSUME NEW t \in SUBSET (1 .. n + 1), t # {}
                 PROVE  \E x \in t : \A y \in t : x >= y
      OBVIOUS
    <2>1. CASE n + 1 \in t
      <3>1. \A y \in t : n + 1 >= y
        OBVIOUS
      <3> QED
        BY <2>1, <3>1
    <2>2. CASE n + 1 \notin t
      <3>1. t \in SUBSET (1 .. n)
        BY <2>2
      <3> QED
        BY <1>2, <3>1
    <2> QED
      BY <2>1, <2>2
  <1> HIDE DEF S
  <1>3. m \in S
    BY <1>1, <1>2, NatSets
  <1>4. \E x \in s : \A y \in s : x >= y
    BY <1>3 DEF S
  <1> QED
    BY <1>4 DEF Max

\* There is such a fold.
LEMMA SplitFoldExists ==
    ASSUME NEW text, NEW sep, NEW m \in Nat
    PROVE  \E f : SplitFold(f, text, sep, m)
  <1> DEFINE S == {n \in Nat : \E f : SplitFold(f, text, sep, n)}
  <1>1. 0 \in S
    <2> DEFINE f == [s \in SUBSET (1 .. 0) |-> <<<<>>>>]
    <2>1. \A s \in SUBSET (1 .. 0) : s = {}
      OBVIOUS
    <2>2. SplitFold(f, text, sep, 0)
      BY <2>1 DEF SplitFold
    <2> QED
      BY <2>2
  <1>2. ASSUME NEW n \in Nat, n \in S PROVE n + 1 \in S
    <2>1. PICK f : SplitFold(f, text, sep, n)
      BY <1>2
    <2> DEFINE g == [s \in SUBSET (1 .. n + 1) |->
                       IF n + 1 \in s
                       THEN SplitNext(f[s \ {n + 1}], text[n + 1], sep)
                       ELSE f[s]]
    <2>2. ASSUME NEW s \in SUBSET (1 .. n + 1)
          PROVE  g[s] = IF s = {} THEN <<<<>>>>
                        ELSE SplitNext(g[s \ {Max(s)}], text[Max(s)], sep)
      <3>1. CASE n + 1 \in s
        <4>1. Max(s) = n + 1
          BY <3>1, MaxOf
        <4>2. s \ {n + 1} \in SUBSET (1 .. n + 1) /\ n + 1 \notin s \ {n + 1}
          OBVIOUS
        <4>3. g[s \ {n + 1}] = f[s \ {n + 1}]
          BY <4>2
        <4>4. g[s] = SplitNext(f[s \ {n + 1}], text[n + 1], sep)
          BY <3>1
        <4> HIDE DEF g
        <4> QED
          BY <3>1, <4>1, <4>3, <4>4
      <3>2. CASE s = {}
        <4>1. g[s] = f[s] /\ s \in SUBSET (1 .. n)
          BY <3>2
        <4>2. f[s] = <<<<>>>>
          BY <2>1, <3>2, <4>1 DEF SplitFold
        <4> HIDE DEF g
        <4> QED
          BY <3>2, <4>1, <4>2
      <3>3. CASE n + 1 \notin s /\ s # {}
        <4>1. s \in SUBSET (1 .. n)
          BY <3>3
        <4>2. Max(s) \in s
          BY <3>3, <4>1, MaxIn
        <4>3. g[s] = f[s] /\ g[s \ {Max(s)}] = f[s \ {Max(s)}]
          <5>1. s \ {Max(s)} \in SUBSET (1 .. n + 1) /\ n + 1 \notin s \ {Max(s)}
            BY <3>3
          <5> QED
            BY <3>3, <5>1
        <4>4. f[s] = SplitNext(f[s \ {Max(s)}], text[Max(s)], sep)
          BY <2>1, <3>3, <4>1 DEF SplitFold
        <4> HIDE DEF g
        <4> QED
          BY <3>3, <4>3, <4>4
      <3> QED
        BY <3>1, <3>2, <3>3
    <2>3. SplitFold(g, text, sep, n + 1)
      <3>1. \E h : h = g
        OBVIOUS
      <3>2. g = [s \in SUBSET (1 .. n + 1) |-> g[s]]
        OBVIOUS
      <3> HIDE DEF g
      <3>3. g = [s \in SUBSET (1 .. n + 1) |->
                   IF s = {} THEN <<<<>>>>
                   ELSE SplitNext(g[s \ {Max(s)}], text[Max(s)], sep)]
        BY <2>2, <3>2
      <3> QED
        BY <3>3 DEF SplitFold
    <2> QED
      BY <2>3
  <1> HIDE DEF S
  <1>3. m \in S
    BY <1>1, <1>2, NatSets
  <1> QED
    BY <1>3 DEF S

\* Split follows the text character by character.
LEMMA SplitSteps ==
    ASSUME NEW T, NEW text \in Seq(T), NEW sep
    PROVE  \E p : /\ p[0] = <<<<>>>>
                  /\ \A k \in 0 .. Len(text) - 1 :
                        p[k + 1] = SplitNext(p[k], text[k + 1], sep)
                  /\ Split(text, sep) = p[Len(text)]
  <1> DEFINE n == Len(text)
             f == CHOOSE f : SplitFold(f, text, sep, n)
  <1>1. n \in Nat /\ DOMAIN text = 1 .. n
    OBVIOUS
  <1>2. SplitFold(f, text, sep, n)
    BY <1>1, SplitFoldExists
  <1>3. Split(text, sep) = f[1 .. n]
    <2> DEFINE g == CHOOSE g :
                 g = [s \in SUBSET DOMAIN text |->
                        IF s = {} THEN <<<<>>>>
                        ELSE SplitNext(g[s \ {Max(s)}], text[Max(s)], sep)]
    <2>1. Split(text, sep) = g[DOMAIN text]
      BY Zenon DEF Split, FoldLeft, MapThenFoldSet, SplitNext
    <2>2. g = f
      BY Zenon, <1>1 DEF SplitFold
    <2> QED
      BY <1>1, <2>1, <2>2
  <1> HIDE DEF f
  <1> DEFINE p == [k \in 0 .. n |-> f[1 .. k]]
  <1>4. p[0] = <<<<>>>>
    <2>1. 1 .. 0 = {} /\ p[0] = f[1 .. 0]
      BY <1>1
    <2> HIDE DEF p
    <2> QED
      BY <1>2, <2>1 DEF SplitFold
  <1>5. ASSUME NEW k \in 0 .. n - 1
        PROVE  p[k + 1] = SplitNext(p[k], text[k + 1], sep)
    <2>1. p[k + 1] = f[1 .. k + 1] /\ p[k] = f[1 .. k]
      BY <1>1
    <2>2. (1 .. k + 1) \in SUBSET (1 .. n) /\ 1 .. k + 1 # {}
      <3>1. 1 \in 1 .. k + 1 /\ k + 1 <= n /\ k \in Nat
        BY <1>1
      <3>2. 1 .. k + 1 # {}
        BY <3>1
      <3>3. \A i \in 1 .. k + 1 : i \in 1 .. n
        BY <1>1, <3>1
      <3> QED
        BY <3>2, <3>3
    <2>3. (1 .. k + 1) \ {k + 1} = 1 .. k
      BY <1>1
    <2>4. Max(1 .. k + 1) = k + 1
      BY <1>1, MaxOf
    <2>5. f[1 .. k + 1] = SplitNext(f[(1 .. k + 1) \ {Max(1 .. k + 1)}],
                                    text[Max(1 .. k + 1)], sep)
      BY <1>2, <2>2 DEF SplitFold
    <2> HIDE DEF p
    <2> QED
      BY <2>1, <2>3, <2>4, <2>5
  <1>6. Split(text, sep) = p[n]
    BY <1>1, <1>3
  <1> HIDE DEF p
  <1> QED
    BY <1>4, <1>5, <1>6

\* No text is one empty piece.
LEMMA SplitEmpty == ASSUME NEW sep PROVE Split(<<>>, sep) = <<<<>>>>
  BY SplitSteps, EmptySeq

\* One character more is one step more of the fold.
LEMMA SplitAppend ==
    ASSUME NEW T, NEW text \in Seq(T), NEW ch \in T, NEW sep
    PROVE  Split(Append(text, ch), sep) = SplitNext(Split(text, sep), ch, sep)
  <1> DEFINE n    == Len(text)
             more == Append(text, ch)
  <1>1. /\ n \in Nat /\ more \in Seq(T) /\ Len(more) = n + 1 /\ more[n + 1] = ch
        /\ \A i \in 1 .. n : more[i] = text[i]
    BY AppendProperties
  <1>2. PICK p : /\ p[0] = <<<<>>>>
                 /\ \A k \in 0 .. n - 1 : p[k + 1] = SplitNext(p[k], text[k + 1], sep)
                 /\ Split(text, sep) = p[n]
    BY SplitSteps
  <1> HIDE DEF more
  <1>3. PICK q : /\ q[0] = <<<<>>>>
                 /\ \A k \in 0 .. n : q[k + 1] = SplitNext(q[k], more[k + 1], sep)
                 /\ Split(more, sep) = q[n + 1]
    <2> HIDE DEF n
    <2>1. \E q : /\ q[0] = <<<<>>>>
                 /\ \A k \in 0 .. Len(more) - 1 :
                       q[k + 1] = SplitNext(q[k], more[k + 1], sep)
                 /\ Split(more, sep) = q[Len(more)]
      BY Zenon, <1>1, SplitSteps
    <2>2. Len(more) - 1 = n /\ Len(more) = n + 1
      BY <1>1
    <2> QED
      BY Zenon, <2>1, <2>2
  <1> DEFINE S == {k \in Nat : k <= n => p[k] = q[k]}
  <1>4. 0 \in S
    BY <1>2, <1>3
  <1>5. ASSUME NEW k \in Nat, k \in S PROVE k + 1 \in S
    <2> SUFFICES ASSUME k + 1 <= n PROVE p[k + 1] = q[k + 1]
      OBVIOUS
    <2>1. p[k] = q[k] /\ more[k + 1] = text[k + 1]
      BY <1>1, <1>5
    <2>2. k \in 0 .. n - 1 /\ k \in 0 .. n
      BY <1>1
    <2> QED
      BY <1>2, <1>3, <2>1, <2>2
  <1> HIDE DEF S
  <1>6. n \in S
    BY <1>1, <1>4, <1>5, NatSets
  <1>7. p[n] = q[n]
    BY <1>1, <1>6 DEF S
  <1> QED
    BY <1>1, <1>2, <1>3, <1>7 DEF more

\* No character of a text is the separator.
Plain(text, sep) == \A i \in 1 .. Len(text) : text[i] # sep

\* A text without separators has none without its last character.
LEMMA PlainAppend ==
    ASSUME NEW T, NEW text \in Seq(T), NEW ch \in T, NEW sep, Plain(Append(text, ch), sep)
    PROVE  Plain(text, sep) /\ ch # sep
  <1>1. /\ Len(text) \in Nat /\ Len(Append(text, ch)) = Len(text) + 1
        /\ \A i \in 1 .. Len(text) : Append(text, ch)[i] = text[i]
        /\ Append(text, ch)[Len(text) + 1] = ch
    BY AppendProperties
  <1> QED
    BY <1>1 DEF Plain

\* What is split is at least one text.
LEMMA SplitType ==
    ASSUME NEW T, NEW text \in Seq(T), NEW sep
    PROVE  Split(text, sep) \in Seq(Seq(T)) /\ Split(text, sep) # <<>>
  <1> DEFINE S == {t \in Seq(T) : Split(t, sep) \in Seq(Seq(T)) /\ Split(t, sep) # <<>>}
  <1>1. <<>> \in S
    <2>1. <<<<>>>> \in Seq(Seq(T)) /\ <<<<>>>> # <<>>
      OBVIOUS
    <2> QED
      BY <2>1, SplitEmpty, EmptySeq
  <1>2. ASSUME NEW t \in Seq(T), NEW ch \in T, t \in S
        PROVE  Append(t, ch) \in S
    <2> DEFINE out == Split(t, sep)
    <2>1. out \in Seq(Seq(T)) /\ out # <<>>
      BY <1>2
    <2>2. Split(Append(t, ch), sep) = SplitNext(out, ch, sep)
      BY SplitAppend
    <2> HIDE DEF out
    <2>3. Len(out) \in 1 .. Len(out) /\ out[Len(out)] \in Seq(T)
      BY <2>1
    <2>4. Append(out, <<>>) \in Seq(Seq(T)) /\ Append(out, <<>>) # <<>>
      BY <2>1, EmptySeq, AppendProperties
    <2>5. Append(out[Len(out)], ch) \in Seq(T)
      BY <2>3, AppendProperties
    <2>6. /\ [out EXCEPT ![Len(out)] = Append(@, ch)] \in Seq(Seq(T))
          /\ Len([out EXCEPT ![Len(out)] = Append(@, ch)]) = Len(out)
      BY <2>1, <2>3, <2>5, ExceptSeq
    <2>7. [out EXCEPT ![Len(out)] = Append(@, ch)] # <<>>
      BY <2>3, <2>6, EmptySeq
    <2>8. Append(t, ch) \in Seq(T)
      BY AppendProperties
    <2> QED
      BY <2>2, <2>4, <2>6, <2>7, <2>8 DEF SplitNext
  <1> HIDE DEF S
  <1>3. text \in S
    BY <1>1, <1>2, SeqSets
  <1> QED
    BY <1>3 DEF S

\* The character before the end of a field goes to the field.
LEMMA SplitNextPlain ==
    ASSUME NEW T, NEW fields \in Seq(Seq(T)), NEW text \in Seq(T), NEW ch \in T,
           NEW sep, ch # sep
    PROVE  SplitNext(Append(fields, text), ch, sep) = Append(fields, Append(text, ch))
  <1> DEFINE n   == Len(fields) + 1
             out == Append(fields, text)
             new == [out EXCEPT ![n] = Append(@, ch)]
  <1>1. /\ n \in Nat /\ out \in Seq(Seq(T)) /\ Len(out) = n /\ out[n] = text
        /\ \A i \in 1 .. Len(fields) : out[i] = fields[i]
    BY AppendProperties
  <1>2. Append(text, ch) \in Seq(T) /\ n \in 1 .. n
    BY <1>1, AppendProperties
  <1>3. SplitNext(out, ch, sep) = new
    <2> HIDE DEF out
    <2>1. SplitNext(out, ch, sep) = [out EXCEPT ![Len(out)] = Append(@, ch)]
      BY Zenon DEF SplitNext
    <2> QED
      BY Zenon, <1>1, <2>1
  <1>4. /\ new \in Seq(Seq(T)) /\ Len(new) = n /\ new[n] = Append(text, ch)
        /\ \A i \in 1 .. n : i # n => new[i] = out[i]
    <2> DEFINE e == Append(text, ch)
    <2> HIDE DEF e, out
    <2>1. n \in 1 .. Len(out) /\ e \in Seq(T) /\ new = [out EXCEPT ![n] = e]
      BY <1>1, <1>2 DEF e
    <2>2. /\ [out EXCEPT ![n] = e] \in Seq(Seq(T))
          /\ Len([out EXCEPT ![n] = e]) = Len(out)
          /\ \A j \in 1 .. Len(out) :
                [out EXCEPT ![n] = e][j] = IF j = n THEN e ELSE out[j]
      BY <1>1, <2>1, ExceptSeq
    <2> HIDE DEF n, new
    <2> QED
      BY <1>1, <1>2, <2>1, <2>2 DEF e
  <1>5. /\ Append(fields, Append(text, ch)) \in Seq(Seq(T))
        /\ Len(Append(fields, Append(text, ch))) = n
        /\ Append(fields, Append(text, ch))[n] = Append(text, ch)
        /\ \A i \in 1 .. Len(fields) : Append(fields, Append(text, ch))[i] = fields[i]
    BY <1>2, AppendProperties
  <1>6. \A i \in 1 .. n : i = n \/ i \in 1 .. Len(fields)
    BY <1>1
  <1> HIDE DEF out, new
  <1>7. \A i \in 1 .. n : new[i] = Append(fields, Append(text, ch))[i]
    <2> SUFFICES ASSUME NEW i \in 1 .. n
                 PROVE  new[i] = Append(fields, Append(text, ch))[i]
      OBVIOUS
    <2>1. CASE i = n
      BY <1>4, <1>5, <2>1
    <2>2. CASE i \in 1 .. Len(fields)
      BY <1>1, <1>4, <1>5, <2>2
    <2> QED
      BY <1>6, <2>1, <2>2
  <1>8. new = Append(fields, Append(text, ch))
    BY <1>4, <1>5, <1>7, SeqEqual
  <1> QED
    BY <1>3, <1>8 DEF out

\* One element more at the end of a concatenation.
LEMMA ConcatAppend ==
    ASSUME NEW T, NEW a \in Seq(T), NEW b \in Seq(T), NEW ch \in T
    PROVE  a \o Append(b, ch) = Append(a \o b, ch)
  <1>1. Append(b, ch) = b \o <<ch>> /\ <<ch>> \in Seq(T) /\ a \o b \in Seq(T)
    BY AppendIsConcat, ConcatProperties
  <1> QED
    BY <1>1, AppendIsConcat, ConcatAssociative

\* A text without the separator is one field.
LEMMA SplitPlain ==
    ASSUME NEW T, NEW text \in Seq(T), NEW sep, Plain(text, sep)
    PROVE  Split(text, sep) = <<text>>
  <1> DEFINE S == {t \in Seq(T) : Plain(t, sep) => Split(t, sep) = <<t>>}
  <1>1. <<>> \in S
    BY SplitEmpty, EmptySeq
  <1>2. ASSUME NEW t \in Seq(T), NEW ch \in T, t \in S
        PROVE  Append(t, ch) \in S
    <2> SUFFICES ASSUME Plain(Append(t, ch), sep)
                 PROVE  Split(Append(t, ch), sep) = <<Append(t, ch)>>
      BY AppendProperties
    <2>1. Plain(t, sep) /\ ch # sep
      BY PlainAppend
    <2>2. Split(Append(t, ch), sep) = SplitNext(<<t>>, ch, sep)
      BY <1>2, <2>1, SplitAppend
    <2>3. Append(<<>>, t) = <<t>> /\ <<>> \in Seq(Seq(T))
      <3>1. Append(<<>>, t) = <<>> \o <<t>> /\ <<t>> \in Seq(Seq(T))
        BY EmptySeq, AppendIsConcat
      <3> QED
        BY <3>1, EmptySeq, ConcatEmptySeq
    <2>4. Append(t, ch) \in Seq(T) /\ Append(<<>>, Append(t, ch)) = <<Append(t, ch)>>
      <3>1. Append(t, ch) \in Seq(T)
        BY AppendProperties
      <3> DEFINE more == Append(t, ch)
      <3> HIDE DEF more
      <3>2. Append(<<>>, more) = <<>> \o <<more>> /\ <<more>> \in Seq(Seq(T))
        BY <3>1, EmptySeq, AppendIsConcat DEF more
      <3> QED
        BY <3>1, <3>2, EmptySeq, ConcatEmptySeq DEF more
    <2>5. SplitNext(Append(<<>>, t), ch, sep) = Append(<<>>, Append(t, ch))
      <3> DEFINE none == <<>>
      <3>1. none \in Seq(Seq(T))
        BY EmptySeq
      <3> HIDE DEF none
      <3>2. SplitNext(Append(none, t), ch, sep) = Append(none, Append(t, ch))
        BY <2>1, <3>1, SplitNextPlain
      <3> QED
        BY <3>2 DEF none
    <2> QED
      BY <2>2, <2>3, <2>4, <2>5
  <1> HIDE DEF S
  <1>3. text \in S
    BY <1>1, <1>2, SeqSets
  <1> QED
    BY <1>3 DEF S

\* Only the last field changes.
LEMMA SplitNextConcat ==
    ASSUME NEW T, NEW x \in Seq(Seq(T)), NEW y \in Seq(Seq(T)), y # <<>>,
           NEW ch \in T, NEW sep
    PROVE  SplitNext(x \o y, ch, sep) = x \o SplitNext(y, ch, sep)
  <1> DEFINE Field == Seq(T)
             none  == <<>>
  <1>1. none \in Field
    BY EmptySeq
  <1>2. PICK rest \in Seq(Field), last \in Field : y = Append(rest, last)
    BY SequenceEmptyOrAppend
  <1>3. x \in Seq(Field) /\ y \in Seq(Field) /\ Append(last, ch) \in Field
    BY AppendProperties
  <1>4. ASSUME NEW r \in Seq(Field), NEW l \in Field, ch # sep
        PROVE  SplitNext(Append(r, l), ch, sep) = Append(r, Append(l, ch))
    BY <1>4, SplitNextPlain
  <1> HIDE DEF Field
  <1>5. x \o rest \in Seq(Field) /\ x \o y = Append(x \o rest, last)
    BY SMTT(30), <1>2, <1>3, ConcatAppend, ConcatProperties
  <1>6. CASE ch = sep
    <2>1. \A z : SplitNext(z, ch, sep) = Append(z, none)
      BY <1>6 DEF SplitNext
    <2> HIDE DEF none
    <2>2. x \o Append(y, none) = Append(x \o y, none)
      BY <1>1, <1>3, ConcatAppend
    <2> QED
      BY <2>1, <2>2
  <1>7. CASE ch # sep
    <2>1. SplitNext(y, ch, sep) = Append(rest, Append(last, ch))
      BY <1>2, <1>4, <1>7
    <2>2. SplitNext(x \o y, ch, sep) = Append(x \o rest, Append(last, ch))
      BY <1>2, <1>4, <1>5, <1>7
    <2>3. x \o Append(rest, Append(last, ch)) = Append(x \o rest, Append(last, ch))
      <3> DEFINE e == Append(last, ch)
      <3>1. e \in Field
        BY <1>3
      <3> HIDE DEF e
      <3>2. x \o Append(rest, e) = Append(x \o rest, e)
        BY <1>2, <1>3, <3>1, ConcatAppend
      <3> QED
        BY <3>2 DEF e
    <2> QED
      BY <2>1, <2>2, <2>3
  <1> QED
    BY <1>6, <1>7

\* What comes after a separator is split on its own.
LEMMA SplitConcat ==
    ASSUME NEW T, NEW before \in Seq(T), NEW text \in Seq(T), NEW sep \in T
    PROVE  Split(Append(before, sep) \o text, sep) = Split(before, sep) \o Split(text, sep)
  <1> DEFINE fields == Split(before, sep)
             a      == Append(before, sep)
             S      == {t \in Seq(T) : Split(a \o t, sep) = fields \o Split(t, sep)}
  <1>1. a \in Seq(T) /\ fields \in Seq(Seq(T))
    BY AppendProperties, SplitType
  <1>2. <<>> \in S
    <2>1. a \o <<>> = a
      BY <1>1, ConcatEmptySeq
    <2>2. Split(a, sep) = Append(fields, <<>>)
      BY SplitAppend DEF SplitNext
    <2>3. Append(fields, <<>>) = fields \o <<<<>>>>
      BY <1>1, EmptySeq, AppendIsConcat
    <2> HIDE DEF a, fields
    <2> QED
      BY <2>1, <2>2, <2>3, SplitEmpty, EmptySeq
  <1>3. ASSUME NEW t \in Seq(T), NEW ch \in T, t \in S
        PROVE  Append(t, ch) \in S
    <2>1. a \o Append(t, ch) = Append(a \o t, ch) /\ a \o t \in Seq(T)
      BY <1>1, ConcatAppend, ConcatProperties
    <2>2. Split(a \o t, sep) = fields \o Split(t, sep)
      BY <1>3
    <2> HIDE DEF a, fields
    <2>3. Split(a \o Append(t, ch), sep) = SplitNext(fields \o Split(t, sep), ch, sep)
      BY <2>1, <2>2, SplitAppend
    <2>4. Split(t, sep) \in Seq(Seq(T)) /\ Split(t, sep) # <<>>
      BY SplitType
    <2>5. SplitNext(fields \o Split(t, sep), ch, sep)
            = fields \o SplitNext(Split(t, sep), ch, sep)
      BY <1>1, <2>4, SplitNextConcat
    <2>6. Split(Append(t, ch), sep) = SplitNext(Split(t, sep), ch, sep)
      BY SplitAppend
    <2>7. Split(a \o Append(t, ch), sep) = fields \o Split(Append(t, ch), sep)
      BY <2>3, <2>5, <2>6
    <2> QED
      BY <2>7, AppendProperties DEF a, fields
  <1> HIDE DEF S
  <1>4. text \in S
    BY <1>2, <1>3, SeqSets
  <1> QED
    BY <1>4 DEF S

\* A text without the separator, after one and a separator, is one field more.
LEMMA SplitMore ==
    ASSUME NEW T, NEW before \in Seq(T), NEW text \in Seq(T), NEW sep \in T,
           Plain(text, sep)
    PROVE  Split(Append(before, sep) \o text, sep) = Append(Split(before, sep), text)
  <1>1. Split(Append(before, sep) \o text, sep) = Split(before, sep) \o <<text>>
    <2>1. Split(text, sep) = <<text>>
      BY SplitPlain
    <2>2. Split(Append(before, sep) \o text, sep) = Split(before, sep) \o Split(text, sep)
      BY SplitConcat
    <2> QED
      BY <2>1, <2>2
  <1>2. Split(before, sep) \in Seq(Seq(T))
    BY SplitType
  <1>3. Append(Split(before, sep), text) = Split(before, sep) \o <<text>>
    <2> DEFINE Field  == Seq(T)
               fields == Split(before, sep)
    <2>1. text \in Field /\ fields \in Seq(Field)
      BY <1>2
    <2> HIDE DEF Field, fields
    <2>2. Append(fields, text) = fields \o <<text>>
      BY <2>1, AppendIsConcat
    <2> QED
      BY <2>2 DEF fields
  <1> QED
    BY <1>1, <1>3

-----------------------------------------------------------------------------
(* FlattenSeq. *)

\* f is the concatenation of the first i sequences, for each i up to m.
Flattening(f, seqs, m) ==
    f = [i \in 1 .. m |-> IF i = 1 THEN seqs[i] ELSE f[i - 1] \o seqs[i]]

\* The recursive function of FlattenSeq exists.
LEMMA FlatteningExists ==
    ASSUME NEW seqs, NEW m \in Nat
    PROVE  \E f : Flattening(f, seqs, m)
  <1> DEFINE S == {n \in Nat : \E f : Flattening(f, seqs, n)}
  <1>1. 0 \in S
    <2> DEFINE f == [i \in 1 .. 0 |-> seqs[i]]
    <2>1. Flattening(f, seqs, 0)
      BY DEF Flattening
    <2> QED
      BY <2>1
  <1>2. ASSUME NEW n \in Nat, n \in S PROVE n + 1 \in S
    <2>1. PICK f : Flattening(f, seqs, n)
      BY <1>2
    <2> DEFINE g == [i \in 1 .. n + 1 |->
                       IF i = n + 1
                       THEN IF i = 1 THEN seqs[i] ELSE f[n] \o seqs[i]
                       ELSE f[i]]
    <2>2. ASSUME NEW i \in 1 .. n + 1
          PROVE  g[i] = IF i = 1 THEN seqs[i] ELSE g[i - 1] \o seqs[i]
      <3>1. CASE i = n + 1
        <4>1. CASE i = 1
          BY <3>1, <4>1
        <4>2. CASE i # 1
          <5>1. i - 1 = n /\ n \in 1 .. n + 1 /\ n # n + 1
            BY <3>1, <4>2
          <5>2. g[i - 1] = f[n] /\ g[i] = f[n] \o seqs[i]
            BY <3>1, <4>2, <5>1
          <5> HIDE DEF g
          <5> QED
            BY <4>2, <5>2
        <4> QED
          BY <4>1, <4>2
      <3>2. CASE i # n + 1
        <4>1. i \in 1 .. n
          BY <3>2
        <4>2. f[i] = IF i = 1 THEN seqs[i] ELSE f[i - 1] \o seqs[i]
          BY <2>1, <4>1 DEF Flattening
        <4>3. g[i] = f[i]
          BY <3>2
        <4>4. i # 1 => g[i - 1] = f[i - 1]
          <5>1. i # 1 => i - 1 \in 1 .. n + 1 /\ i - 1 # n + 1
            BY <4>1
          <5> QED
            BY <5>1
        <4> HIDE DEF g
        <4> QED
          BY <4>2, <4>3, <4>4
      <3> QED
        BY <3>1, <3>2
    <2>3. Flattening(g, seqs, n + 1)
      <3>1. g = [i \in 1 .. n + 1 |-> g[i]]
        OBVIOUS
      <3> HIDE DEF g
      <3>2. g = [i \in 1 .. n + 1 |->
                   IF i = 1 THEN seqs[i] ELSE g[i - 1] \o seqs[i]]
        BY <2>2, <3>1
      <3> QED
        BY <3>2 DEF Flattening
    <2> QED
      BY <2>3
  <1> HIDE DEF S
  <1>3. m \in S
    BY <1>1, <1>2, NatSets
  <1> QED
    BY <1>3 DEF S

\* FlattenSeq concatenates one sequence after the other.
LEMMA FlattenSteps ==
    ASSUME NEW T, NEW seqs \in Seq(T), seqs # <<>>
    PROVE  \E p : /\ p[1] = seqs[1]
                  /\ \A k \in 1 .. Len(seqs) - 1 : p[k + 1] = p[k] \o seqs[k + 1]
                  /\ FlattenSeq(seqs) = p[Len(seqs)]
  <1> DEFINE n == Len(seqs)
             f == CHOOSE f : Flattening(f, seqs, n)
  <1>1. n \in Nat /\ n # 0
    BY EmptySeq
  <1>2. Flattening(f, seqs, n)
    BY <1>1, FlatteningExists
  <1>3. FlattenSeq(seqs) = f[n]
    BY <1>1 DEF FlattenSeq, Flattening
  <1> HIDE DEF f
  <1>4. f[1] = seqs[1]
    BY <1>1, <1>2 DEF Flattening
  <1>5. ASSUME NEW k \in 1 .. n - 1
        PROVE  f[k + 1] = f[k] \o seqs[k + 1]
    <2>1. k + 1 \in 1 .. n /\ k + 1 # 1 /\ (k + 1) - 1 = k
      BY <1>1
    <2> QED
      BY <1>2, <2>1 DEF Flattening
  <1> QED
    BY <1>3, <1>4, <1>5

\* One sequence more is concatenated at the end.
LEMMA FlattenAppend ==
    ASSUME NEW T, NEW seqs \in Seq(Seq(T)), NEW s \in Seq(T)
    PROVE  FlattenSeq(Append(seqs, s)) = FlattenSeq(seqs) \o s
  <1> DEFINE n    == Len(seqs)
             more == Append(seqs, s)
  <1>1. /\ n \in Nat /\ more \in Seq(Seq(T)) /\ Len(more) = n + 1 /\ more[n + 1] = s
        /\ more # <<>> /\ \A i \in 1 .. n : more[i] = seqs[i]
    BY AppendProperties
  <1> HIDE DEF more
  <1>2. PICK q : /\ q[1] = more[1]
                 /\ \A k \in 1 .. n : q[k + 1] = q[k] \o more[k + 1]
                 /\ FlattenSeq(more) = q[n + 1]
    <2>1. Len(more) - 1 = n
      BY <1>1
    <2> HIDE DEF n
    <2> QED
      BY <1>1, <2>1, FlattenSteps
  <1>3. CASE seqs = <<>>
    <2>1. n = 0 /\ FlattenSeq(seqs) = seqs
      BY <1>3, EmptySeq DEF FlattenSeq
    <2>2. FlattenSeq(more) = s
      <3>1. q[n + 1] = more[n + 1]
        BY <1>2, <2>1
      <3> QED
        BY <1>1, <1>2, <3>1
    <2>3. seqs \o s = s
      BY <1>3, ConcatEmptySeq
    <2> QED
      BY <2>1, <2>2, <2>3 DEF more
  <1>4. CASE seqs # <<>>
    <2>1. PICK p : /\ p[1] = seqs[1]
                   /\ \A k \in 1 .. n - 1 : p[k + 1] = p[k] \o seqs[k + 1]
                   /\ FlattenSeq(seqs) = p[n]
      BY <1>4, FlattenSteps
    <2>2. n \in Nat \ {0}
      BY <1>4, EmptySeq
    <2> DEFINE S == {k \in Nat : k + 1 <= n => p[k + 1] = q[k + 1]}
    <2>3. 0 \in S
      BY <1>1, <1>2, <2>1
    <2>4. ASSUME NEW k \in Nat, k \in S PROVE k + 1 \in S
      <3> SUFFICES ASSUME k + 2 <= n PROVE p[k + 2] = q[k + 2]
        OBVIOUS
      <3>1. p[k + 1] = q[k + 1] /\ more[k + 2] = seqs[k + 2]
        BY <1>1, <2>4
      <3>2. k + 1 \in 1 .. n - 1 /\ k + 1 \in 1 .. n /\ (k + 1) + 1 = k + 2
        BY <1>1
      <3> QED
        BY <1>2, <2>1, <3>1, <3>2
    <2> HIDE DEF S
    <2>5. Nat \subseteq S
      BY <2>3, <2>4, NatSets
    <2>6. n - 1 \in Nat /\ (n - 1) + 1 = n /\ n \in 1 .. n
      BY <2>2
    <2>7. p[n] = q[n]
      <3>1. PICK k \in Nat : k + 1 = n
        BY <2>6
      <3>2. k \in S /\ k + 1 <= n
        BY <2>5, <2>2, <3>1
      <3>3. p[k + 1] = q[k + 1]
        BY <3>2 DEF S
      <3> QED
        BY <3>1, <3>3
    <2>8. FlattenSeq(more) = q[n] \o s
      BY <1>1, <1>2, <2>6
    <2> QED
      BY <2>1, <2>7, <2>8 DEF more
  <1> QED
    BY <1>3, <1>4

\* Nothing to concatenate.
LEMMA FlattenEmpty == FlattenSeq(<<>>) = <<>>
  BY EmptySeq DEF FlattenSeq

\* A concatenation has the elements of its parts.
LEMMA FlattenType ==
    ASSUME NEW T, NEW seqs \in Seq(Seq(T))
    PROVE  FlattenSeq(seqs) \in Seq(T)
  <1> DEFINE S == {ss \in Seq(Seq(T)) : FlattenSeq(ss) \in Seq(T)}
  <1>1. <<>> \in S
    BY FlattenEmpty, EmptySeq
  <1>2. ASSUME NEW ss \in Seq(Seq(T)), NEW s \in Seq(T), ss \in S
        PROVE  Append(ss, s) \in S
    BY <1>2, FlattenAppend, ConcatProperties, AppendProperties
  <1> HIDE DEF S
  <1>3. seqs \in S
    BY <1>1, <1>2, SeqSets
  <1> QED
    BY <1>3 DEF S

-----------------------------------------------------------------------------
(* Records. *)

\* The first k of the n values of a function, as a sequence.
First(e, k) == [j \in 1 .. k |-> e[j]]

Values(e, n, T) == \A i \in 1 .. n : e[i] \in T

\* One value more of the first ones.
LEMMA FirstMore ==
    ASSUME NEW T, NEW n \in Nat, NEW e, Values(e, n, T), NEW k \in 0 .. n - 1
    PROVE  /\ First(e, k) \in Seq(T) /\ First(e, k + 1) \in Seq(T)
           /\ First(e, k + 1) = Append(First(e, k), e[k + 1])
  <1>1. \A i \in 1 .. k + 1 : i \in 1 .. n
    OBVIOUS
  <1>2. /\ k \in Nat /\ k + 1 \in Nat
        /\ \A i \in 1 .. k + 1 : e[i] \in T
    BY <1>1 DEF Values
  <1>3. First(e, k) \in [1 .. k -> T] /\ First(e, k + 1) \in [1 .. k + 1 -> T]
    BY <1>2 DEF First
  <1>4. First(e, k) \in Seq(T) /\ First(e, k + 1) \in Seq(T)
        /\ Len(First(e, k)) = k /\ Len(First(e, k + 1)) = k + 1 /\ e[k + 1] \in T
    BY <1>2, <1>3
  <1>5. /\ Append(First(e, k), e[k + 1]) \in Seq(T)
        /\ Len(Append(First(e, k), e[k + 1])) = k + 1
        /\ \A i \in 1 .. k : Append(First(e, k), e[k + 1])[i] = First(e, k)[i]
        /\ Append(First(e, k), e[k + 1])[k + 1] = e[k + 1]
    BY <1>4, AppendProperties
  <1>6. \A i \in 1 .. k + 1 : First(e, k + 1)[i] = Append(First(e, k), e[k + 1])[i]
    <2> SUFFICES ASSUME NEW i \in 1 .. k + 1
                 PROVE  First(e, k + 1)[i] = Append(First(e, k), e[k + 1])[i]
      OBVIOUS
    <2>1. First(e, k + 1)[i] = e[i]
      BY DEF First
    <2>2. i # k + 1 => i \in 1 .. k
      BY <1>2
    <2>3. \A j \in 1 .. k : First(e, k)[j] = e[j]
      BY DEF First
    <2> QED
      BY <1>5, <2>1, <2>2, <2>3
  <1>7. First(e, k + 1) = Append(First(e, k), e[k + 1])
    BY <1>4, <1>5, <1>6, SeqEqual
  <1> QED
    BY <1>4, <1>7

\* Texts without separators make one without.
LEMMA PlainConcat ==
    ASSUME NEW T, NEW a \in Seq(T), NEW b \in Seq(T), NEW sep, Plain(a, sep), Plain(b, sep)
    PROVE  Plain(a \o b, sep)
  <1> SUFFICES ASSUME NEW i \in 1 .. Len(a) + Len(b)
               PROVE  (a \o b)[i] # sep
    BY ConcatProperties DEF Plain
  <1>1. Len(a) \in Nat /\ Len(b) \in Nat
    OBVIOUS
  <1>2. (a \o b)[i] = IF i <= Len(a) THEN a[i] ELSE b[i - Len(a)]
    BY ConcatProperties
  <1>3. i <= Len(a) => i \in 1 .. Len(a)
    BY <1>1
  <1>4. ~(i <= Len(a)) => i - Len(a) \in 1 .. Len(b)
    BY <1>1
  <1> QED
    BY <1>2, <1>3, <1>4 DEF Plain

\* Concatenations grouped anew.
LEMMA Regroup ==
    ASSUME NEW T, NEW r \in Seq(T), NEW b \in Seq(T), NEW f \in Seq(T), NEW x \in Seq(T)
    PROVE  (r \o b) \o (f \o x) = r \o ((b \o f) \o x)
  <1>1. f \o x \in Seq(T) /\ b \o f \in Seq(T)
    BY ConcatProperties
  <1>2. (r \o b) \o (f \o x) = r \o (b \o (f \o x))
    <2> DEFINE u == f \o x
    <2>1. u \in Seq(T)
      BY <1>1
    <2> HIDE DEF u
    <2>2. (r \o b) \o u = r \o (b \o u)
      BY SMTT(30), <2>1, ConcatAssociative
    <2> QED
      BY <2>2 DEF u
  <1>3. b \o (f \o x) = (b \o f) \o x
    BY SMTT(30), ConcatAssociative
  <1> QED
    BY <1>2, <1>3

\* The characters of an answer, and the courses as the model has them.
Chars  == STRING \cup {RecordSep, FieldSep, "N"}
Fields == {c \in Seq(Seq(Chars)) : Len(c) = Width}

Piece(c, j) == (IF j = 1 THEN <<RecordSep>> ELSE <<FieldSep>>) \o c[j]
Pieces(c)   == [j \in 1 .. Width |-> Piece(c, j)]

\* A record begins with its separator; when the fields of the course hold none,
\* the rest holds no other one, and is split into the fields.
LEMMA RecordText ==
    ASSUME NEW c \in Fields
    PROVE  \E b \in Seq(Chars) :
              /\ Record(c) = <<RecordSep>> \o b
              /\ Clean(c) => Plain(b, RecordSep) /\ Split(b, FieldSep) = c
  <1> DEFINE Begun(k, b) ==
                 /\ FlattenSeq(First(Pieces(c), k)) = <<RecordSep>> \o b
                 /\ Clean(c) => Plain(b, RecordSep) /\ Split(b, FieldSep) = First(c, k)
             S == {k \in Nat : k + 1 <= Width => \E b \in Seq(Chars) : Begun(k + 1, b)}
  <1>1. /\ Width \in Nat /\ Width # 0 /\ c \in [1 .. Width -> Seq(Chars)]
        /\ RecordSep \in Chars /\ FieldSep \in Chars
        /\ <<RecordSep>> \in Seq(Chars) /\ <<FieldSep>> \in Seq(Chars)
    <2>1. RecordSep \in Chars /\ FieldSep \in Chars
      BY DEF Chars
    <2>2. \A ch \in Chars : <<ch>> \in Seq(Chars)
      OBVIOUS
    <2>3. c \in [1 .. Width -> Seq(Chars)]
      BY LenProperties DEF Fields
    <2> QED
      BY <2>1, <2>2, <2>3, WidthAssumption
  <1>2. \A j \in 1 .. Width : c[j] \in Seq(Chars) /\ Piece(c, j) \in Seq(Chars)
    BY <1>1, ConcatProperties DEF Piece
  <1>3. Pieces(c) \in [1 .. Width -> Seq(Chars)]
    BY <1>2 DEF Pieces
  <1>4. \A j \in 1 .. Width :
           Clean(c) => Plain(c[j], RecordSep) /\ Plain(c[j], FieldSep)
    BY <1>2 DEF Clean, Plain
  <1>5. \A k \in 0 .. Width - 1 :
           /\ First(Pieces(c), k) \in Seq(Seq(Chars))
           /\ First(Pieces(c), k + 1) = Append(First(Pieces(c), k), Pieces(c)[k + 1])
           /\ First(c, k + 1) = Append(First(c, k), c[k + 1])
    <2> DEFINE Field == Seq(Chars)
               ps    == Pieces(c)
    <2>1. Values(ps, Width, Field)
      BY <1>1, <1>3 DEF Values
    <2>2. Values(c, Width, Field)
      BY <1>1 DEF Values
    <2>3. Width \in Nat
      BY <1>1
    <2> HIDE DEF Field, ps
    <2> SUFFICES ASSUME NEW k \in 0 .. Width - 1
                 PROVE  /\ First(ps, k) \in Seq(Field)
                        /\ First(ps, k + 1) = Append(First(ps, k), ps[k + 1])
                        /\ First(c, k + 1) = Append(First(c, k), c[k + 1])
      BY Zenon DEF Field, ps
    <2>4. /\ First(ps, k) \in Seq(Field)
          /\ First(ps, k + 1) = Append(First(ps, k), ps[k + 1])
      BY <2>1, <2>3, FirstMore
    <2>5. First(c, k + 1) = Append(First(c, k), c[k + 1])
      BY <2>2, <2>3, FirstMore
    <2> QED
      BY <2>4, <2>5
  <1>6. 0 \in S
    <2>1. 0 \in 0 .. Width - 1 /\ 1 \in 1 .. Width
      BY <1>1
    <2>2. /\ First(Pieces(c), 1) = Append(First(Pieces(c), 0), Pieces(c)[1])
          /\ First(c, 1) = Append(First(c, 0), c[1])
      <3>1. 0 + 1 = 1
        OBVIOUS
      <3> QED
        BY <2>1, <3>1, <1>5
    <2>3. First(Pieces(c), 0) = <<>> /\ First(c, 0) = <<>>
      BY DEF First
    <2>4. Pieces(c)[1] = <<RecordSep>> \o c[1]
      BY <2>1 DEF Pieces, Piece
    <2>5. FlattenSeq(First(Pieces(c), 1)) = <<RecordSep>> \o c[1]
      <3>1. <<>> \in Seq(Seq(Chars)) /\ Pieces(c)[1] \in Seq(Chars)
        BY <1>3, <2>1
      <3>2. FlattenSeq(Append(<<>>, Pieces(c)[1])) = FlattenSeq(<<>>) \o Pieces(c)[1]
        BY <3>1, FlattenAppend
      <3>3. FlattenSeq(<<>>) \o Pieces(c)[1] = Pieces(c)[1]
        BY <3>1, FlattenEmpty, ConcatEmptySeq
      <3> QED
        BY <2>2, <2>3, <2>4, <3>2, <3>3
    <2>6. Clean(c) => Split(c[1], FieldSep) = <<c[1]>>
      BY <1>2, <1>4, <2>1, SplitPlain
    <2>7. First(c, 1) = <<c[1]>>
      BY DEF First
    <2>8. Begun(1, c[1])
      BY <1>4, <2>1, <2>5, <2>6, <2>7
    <2>9. \E b \in Seq(Chars) : Begun(1, b)
      BY <1>2, <2>1, <2>8
    <2> HIDE DEF Begun
    <2>10. 0 + 1 = 1
      OBVIOUS
    <2> QED
      BY <2>9, <2>10
  <1>7. ASSUME NEW k \in Nat, k \in S PROVE k + 1 \in S
    <2> SUFFICES ASSUME k + 2 <= Width
                 PROVE  \E b \in Seq(Chars) : Begun(k + 2, b)
      OBVIOUS
    <2> DEFINE m == k + 1
               x == c[m + 1]
    <2>1. m \in 0 .. Width - 1 /\ m + 1 \in 1 .. Width /\ m # 0 /\ m + 1 = k + 2 /\ m <= Width
      BY <1>1
    <2>2. PICK b \in Seq(Chars) : Begun(m, b)
      BY <1>7, <2>1
    <2> HIDE DEF m
    <2>3. /\ First(Pieces(c), m + 1) = Append(First(Pieces(c), m), Pieces(c)[m + 1])
          /\ First(Pieces(c), m) \in Seq(Seq(Chars))
      BY <2>1, <1>5
    <2>4. First(c, m + 1) = Append(First(c, m), x)
      BY <2>1, <1>5
    <2>5. Pieces(c)[m + 1] = <<FieldSep>> \o x /\ Pieces(c)[m + 1] \in Seq(Chars)
      BY <1>3, <2>1 DEF Pieces, Piece
    <2>6. x \in Seq(Chars)
      BY <1>2, <2>1
    <2> HIDE DEF x
    <2>7. FlattenSeq(First(Pieces(c), m + 1)) = (<<RecordSep>> \o b) \o (<<FieldSep>> \o x)
      BY <2>2, <2>3, <2>5, FlattenAppend
    <2> DEFINE more == Append(b, FieldSep) \o x
    <2>8. Append(b, FieldSep) = b \o <<FieldSep>> /\ Append(b, FieldSep) \in Seq(Chars)
      BY <1>1, AppendIsConcat, AppendProperties
    <2>9. more \in Seq(Chars)
      BY <2>6, <2>8, ConcatProperties
    <2>10. (<<RecordSep>> \o b) \o (<<FieldSep>> \o x) = <<RecordSep>> \o more
      BY SMTT(30), <1>1, <2>6, <2>8, Regroup
    <2>11. ASSUME Clean(c)
           PROVE  Plain(more, RecordSep) /\ Split(more, FieldSep) = First(c, m + 1)
      <3>1. Plain(b, RecordSep) /\ Split(b, FieldSep) = First(c, m)
        BY <2>2, <2>11
      <3>2. Plain(x, RecordSep) /\ Plain(x, FieldSep)
        BY <1>4, <2>1, <2>11 DEF x
      <3>3. Plain(<<FieldSep>>, RecordSep)
        BY DEF Plain, FieldSep, RecordSep
      <3>4. Plain(Append(b, FieldSep), RecordSep)
        BY <1>1, <2>8, <3>1, <3>3, PlainConcat
      <3>5. Plain(more, RecordSep)
        BY <2>6, <2>8, <3>2, <3>4, PlainConcat
      <3>6. Split(more, FieldSep) = Append(Split(b, FieldSep), x)
        BY <1>1, <2>6, <3>2, SplitMore
      <3> QED
        BY <2>4, <3>1, <3>5, <3>6
    <2> HIDE DEF more
    <2>12. Begun(m + 1, more)
      BY <2>7, <2>10, <2>11
    <2> QED
      BY <2>1, <2>9, <2>12
  <1>8. Nat \subseteq S
    <2> HIDE DEF S
    <2> QED
      BY <1>6, <1>7, NatSets
  <1>9. PICK b \in Seq(Chars) : Begun(Width, b)
    <2>1. PICK k \in Nat : k + 1 = Width
      BY <1>1
    <2> QED
      BY SMTT(30), <1>8, <2>1
  <1>10. First(c, Width) = c /\ Record(c) = FlattenSeq(First(Pieces(c), Width))
    <2>1. First(c, Width) = c
      BY <1>1 DEF First
    <2>2. First(Pieces(c), Width) = [j \in 1 .. Width |-> Piece(c, j)]
      BY DEF First, Pieces
    <2> QED
      BY <2>1, <2>2 DEF Record, Piece
  <1> QED
    BY <1>9, <1>10

-----------------------------------------------------------------------------
(* Answers. *)

\* A function on each element of a sequence, and one element more.
Maps(g, X, Y) == g \in [X -> Y]
Image(g, r)   == [i \in DOMAIN r |-> g[r[i]]]

\* A function on one element more.
LEMMA MapAppend ==
    ASSUME NEW X, NEW Y, NEW g, Maps(g, X, Y), NEW s \in Seq(X), NEW e \in X
    PROVE  /\ Image(g, s) \in Seq(Y) /\ g[e] \in Y
           /\ Image(g, Append(s, e)) = Append(Image(g, s), g[e])
  <1> DEFINE n   == Len(s)
             r   == Append(s, e)
             old == [i \in DOMAIN s |-> g[s[i]]]
             new == [i \in DOMAIN r |-> g[r[i]]]
  <1>1. /\ n \in Nat /\ DOMAIN s = 1 .. n /\ r \in Seq(X) /\ DOMAIN r = 1 .. n + 1
        /\ \A i \in 1 .. n : r[i] = s[i] /\ s[i] \in X
        /\ r[n + 1] = e
    BY AppendProperties, LenProperties
  <1>2. old \in Seq(Y) /\ Len(old) = n /\ \A i \in 1 .. n : old[i] = g[s[i]]
    <2>1. old \in [1 .. n -> Y]
      BY <1>1 DEF Maps
    <2> QED
      BY <1>1, <2>1
  <1> HIDE DEF r
  <1>3. new \in Seq(Y) /\ Len(new) = n + 1 /\ \A i \in 1 .. n + 1 : new[i] = g[r[i]]
    <2>1. \A i \in 1 .. n + 1 : r[i] \in X
      BY <1>1, LenProperties
    <2>2. new \in [1 .. n + 1 -> Y]
      BY <1>1, <2>1 DEF Maps
    <2> QED
      BY <1>1, <2>2
  <1> HIDE DEF old, new
  <1>4. g[e] \in Y
    BY DEF Maps
  <1>5. /\ Append(old, g[e]) \in Seq(Y) /\ Len(Append(old, g[e])) = n + 1
        /\ \A i \in 1 .. n : Append(old, g[e])[i] = old[i]
        /\ Append(old, g[e])[n + 1] = g[e]
    BY <1>2, <1>4, AppendProperties
  <1>6. \A i \in 1 .. n + 1 : new[i] = Append(old, g[e])[i]
    <2> SUFFICES ASSUME NEW i \in 1 .. n + 1
                 PROVE  new[i] = Append(old, g[e])[i]
      OBVIOUS
    <2>1. CASE i = n + 1
      BY <1>1, <1>3, <1>5, <2>1
    <2>2. CASE i # n + 1
      <3>1. i \in 1 .. n
        BY <1>1, <2>2
      <3> QED
        BY <1>1, <1>2, <1>3, <1>5, <3>1
    <2> QED
      BY <2>1, <2>2
  <1>7. new = Append(old, g[e])
    BY <1>3, <1>5, <1>6, SeqEqual
  <1> QED
    BY <1>2, <1>4, <1>7 DEF old, new, r, Image

\* What the client makes of one record: a sequence of at most one course.
Made(r) == CourseOf(Split(r, FieldSep))
AnyRows   == Seq(Seq(Chars))

\* What the client makes of a record is a sequence of rows.
LEMMA MadeType == ASSUME NEW r \in Seq(Chars) PROVE Made(r) \in Seq(AnyRows)
  <1> DEFINE f == Split(r, FieldSep)
             c == SubSeq(f, 1, Width)
  <1>1. f \in Seq(Seq(Chars))
    BY SplitType
  <1>2. <<>> \in Seq(AnyRows)
    BY EmptySeq
  <1>3. ASSUME ~(Len(f) < Width) PROVE <<c>> \in Seq(AnyRows)
    <2>1. \A i \in 1 .. Width : f[i] \in Seq(Chars)
      <3> HIDE DEF f
      <3>1. \A i \in 1 .. Width : i \in 1 .. Len(f)
        BY <1>1, <1>3, WidthAssumption
      <3> QED
        BY <1>1, <3>1, ElementOfSeq
    <2>2. Width \in Int /\ 1 \in Int
      BY WidthAssumption
    <2> DEFINE Field == Seq(Chars)
    <2> HIDE DEF f, Field
    <2>3. c \in Seq(Field)
      BY <2>1, <2>2, SubSeqProperties DEF Field
    <2>4. c \in AnyRows
      BY <2>3 DEF AnyRows, Field
    <2> HIDE DEF c
    <2> QED
      BY <2>4
  <1> QED
    BY <1>2, <1>3 DEF Made, CourseOf

\* One record more adds what the client makes of it.
LEMMA CoursesOfAppend ==
    ASSUME NEW rs \in Seq(Seq(Chars)), NEW r \in Seq(Chars)
    PROVE  /\ CoursesOf(rs) \in Seq(AnyRows) /\ Made(r) \in Seq(AnyRows)
           /\ CoursesOf(Append(rs, r)) = CoursesOf(rs) \o Made(r)
  <1> DEFINE Some == Seq(AnyRows)
             RawRecord == Seq(Chars)
             g == [x \in RawRecord |-> Made(x)]
             all == Append(rs, r)
  <1>1. Maps(g, RawRecord, Some)
    BY MadeType DEF Maps
  <1>2. all \in Seq(RawRecord) /\ rs \in Seq(RawRecord) /\ r \in RawRecord
    BY AppendProperties
  <1>3. ASSUME NEW s \in Seq(RawRecord)
        PROVE  CoursesOf(s) = FlattenSeq(Image(g, s))
    <2>1. \A i \in DOMAIN s : s[i] \in RawRecord
      BY <1>3, LenProperties
    <2>2. \A i \in DOMAIN s : g[s[i]] = CourseOf(Split(s[i], FieldSep))
      BY <2>1 DEF Made
    <2> HIDE DEF g
    <2>3. [i \in DOMAIN s |-> g[s[i]]] = [i \in DOMAIN s |-> CourseOf(Split(s[i], FieldSep))]
      BY <2>2
    <2> QED
      BY Zenon, <2>3 DEF CoursesOf, Image
  <1>4. g[r] = Made(r)
    BY <1>2
  <1> HIDE DEF g, RawRecord, Some
  <1>5. /\ Image(g, rs) \in Seq(Some) /\ g[r] \in Some
        /\ Image(g, all) = Append(Image(g, rs), g[r])
    BY <1>1, <1>2, MapAppend
  <1> DEFINE image == Image(g, rs)
  <1>6. CoursesOf(rs) = FlattenSeq(image) /\ CoursesOf(all) = FlattenSeq(Append(image, g[r]))
    BY <1>2, <1>3, <1>5
  <1>7. image \in Seq(Seq(AnyRows)) /\ g[r] \in Seq(AnyRows)
    BY <1>5 DEF Some
  <1> HIDE DEF image, all
  <1>8. /\ FlattenSeq(image) \in Seq(AnyRows)
        /\ FlattenSeq(Append(image, g[r])) = FlattenSeq(image) \o g[r]
    BY <1>7, FlattenType, FlattenAppend
  <1> QED
    BY <1>4, <1>6, <1>7, <1>8 DEF all

\* No records, no courses.
LEMMA CoursesOfNone == CoursesOf(<<>>) = <<>>
  <1>1. [i \in DOMAIN <<>> |-> CourseOf(Split(<<>>[i], FieldSep))] = <<>>
    OBVIOUS
  <1> QED
    BY <1>1, FlattenEmpty DEF CoursesOf

\* Records are read one by one, whatever the ones before them were.
LEMMA CoursesOfConcat ==
    ASSUME NEW a \in Seq(Seq(Chars)), NEW b \in Seq(Seq(Chars))
    PROVE  CoursesOf(a \o b) = CoursesOf(a) \o CoursesOf(b)
  <1> DEFINE RawRecord == Seq(Chars)
             S == {s \in Seq(RawRecord) : CoursesOf(a \o s) = CoursesOf(a) \o CoursesOf(s)}
  <1>1. <<>> \in S
    <2>1. a \o <<>> = a /\ CoursesOf(a) \o <<>> = CoursesOf(a)
      BY CoursesOfAppend, ConcatEmptySeq, EmptySeq
    <2> QED
      BY <2>1, CoursesOfNone, EmptySeq
  <1>2. ASSUME NEW s \in Seq(RawRecord), NEW r \in RawRecord, s \in S
        PROVE  Append(s, r) \in S
    <2>1. a \o Append(s, r) = Append(a \o s, r) /\ a \o s \in Seq(RawRecord)
      <3> HIDE DEF RawRecord, S
      <3>1. a \in Seq(RawRecord)
        BY DEF RawRecord
      <3> QED
        BY <3>1, ConcatAppend, ConcatProperties
    <2>2. CoursesOf(Append(a \o s, r)) = CoursesOf(a \o s) \o Made(r)
      BY <2>1, CoursesOfAppend
    <2>3. CoursesOf(Append(s, r)) = CoursesOf(s) \o Made(r)
          /\ CoursesOf(a) \in Seq(AnyRows) /\ CoursesOf(s) \in Seq(AnyRows)
          /\ Made(r) \in Seq(AnyRows)
      BY CoursesOfAppend
    <2>4. (CoursesOf(a) \o CoursesOf(s)) \o Made(r) = CoursesOf(a) \o (CoursesOf(s) \o Made(r))
      BY SMTT(30), <2>3, ConcatAssociative
    <2>5. CoursesOf(a \o s) = CoursesOf(a) \o CoursesOf(s)
      BY <1>2
    <2>6. Append(s, r) \in Seq(RawRecord)
      BY AppendProperties
    <2> QED
      BY <2>1, <2>2, <2>3, <2>4, <2>5, <2>6
  <1> HIDE DEF S
  <1>3. b \in S
    BY <1>1, <1>2, SeqSets
  <1> QED
    BY <1>3 DEF S

\* A course is as many texts as it has fields.
LEMMA CoursesAreFields == Courses \subseteq Fields
  <1> SUFFICES ASSUME NEW c \in Courses PROVE c \in Fields
    OBVIOUS
  <1> DEFINE Plainly == Seq(STRING)
             Wider   == Seq(Chars)
  <1>1. STRING \subseteq Chars
    BY DEF Chars
  <1>2. Plainly \subseteq Wider
    BY <1>1, SeqMonotonic
  <1>3. c \in Seq(Plainly) /\ Len(c) = Width
    BY CoursesAssumption DEF Text
  <1> HIDE DEF Plainly, Wider
  <1>4. c \in Seq(Wider)
    BY <1>2, <1>3, SeqMonotonic
  <1> QED
    BY <1>3, <1>4 DEF Fields, Wider

\* One course more adds its record.
LEMMA SerializeAppend ==
    ASSUME NEW cs \in Seq(Courses), NEW c \in Courses
    PROVE  /\ Serialize(cs) \in Seq(Chars) /\ Record(c) \in Seq(Chars)
           /\ Serialize(Append(cs, c)) = Serialize(cs) \o Record(c)
  <1> DEFINE RawRecord == Seq(Chars)
             g   == [x \in Courses |-> Record(x)]
             all == Append(cs, c)
             n   == <<"N">>
  <1>1. \A x \in Courses : Record(x) \in RawRecord
    <2> SUFFICES ASSUME NEW x \in Courses PROVE Record(x) \in Seq(Chars)
      OBVIOUS
    <2>1. PICK b \in Seq(Chars) : Record(x) = <<RecordSep>> \o b
      BY CoursesAreFields, RecordText
    <2>2. <<RecordSep>> \in Seq(Chars)
      BY DEF Chars
    <2> QED
      BY <2>1, <2>2, ConcatProperties
  <1>2. Maps(g, Courses, RawRecord)
    BY <1>1 DEF Maps
  <1>3. ASSUME NEW s \in Seq(Courses)
        PROVE  Serialize(s) = n \o FlattenSeq(Image(g, s))
    <2>1. \A i \in DOMAIN s : s[i] \in Courses
      BY <1>3, LenProperties
    <2>2. \A i \in DOMAIN s : g[s[i]] = Record(s[i])
      BY <2>1
    <2> HIDE DEF g
    <2>3. [i \in DOMAIN s |-> g[s[i]]] = [i \in DOMAIN s |-> Record(s[i])]
      BY <2>2
    <2> QED
      BY Zenon, <2>3 DEF Serialize, Image
  <1>4. g[c] = Record(c) /\ all \in Seq(Courses)
    BY AppendProperties
  <1>5. n \in Seq(Chars)
    BY DEF Chars
  <1> HIDE DEF g, RawRecord, n
  <1>6. /\ Image(g, cs) \in Seq(RawRecord) /\ g[c] \in RawRecord
        /\ Image(g, all) = Append(Image(g, cs), g[c])
    BY <1>2, MapAppend
  <1> DEFINE image == Image(g, cs)
  <1>7. /\ Serialize(cs) = n \o FlattenSeq(image)
        /\ Serialize(all) = n \o FlattenSeq(Append(image, g[c]))
    BY <1>3, <1>4, <1>6
  <1>8. image \in Seq(Seq(Chars)) /\ g[c] \in Seq(Chars)
    BY <1>6 DEF RawRecord
  <1> HIDE DEF image, all
  <1>9. /\ FlattenSeq(image) \in Seq(Chars)
        /\ FlattenSeq(Append(image, g[c])) = FlattenSeq(image) \o g[c]
    BY <1>8, FlattenType, FlattenAppend
  <1>10. n \o (FlattenSeq(image) \o g[c]) = (n \o FlattenSeq(image)) \o g[c]
    <2> DEFINE u == FlattenSeq(image)
               v == g[c]
    <2>1. u \in Seq(Chars) /\ v \in Seq(Chars)
      BY <1>8, <1>9
    <2> HIDE DEF u, v
    <2>2. n \o (u \o v) = (n \o u) \o v
      BY SMTT(30), <1>5, <2>1, ConcatAssociative
    <2> QED
      BY <2>2 DEF u, v
  <1>11. n \o FlattenSeq(image) \in Seq(Chars)
    BY <1>5, <1>9, ConcatProperties
  <1> QED
    BY <1>4, <1>7, <1>8, <1>9, <1>10, <1>11 DEF all

\* What follows a text that is not empty is no part of its head.
LEMMA TailConcat ==
    ASSUME NEW T, NEW x \in Seq(T), x # <<>>, NEW y \in Seq(T)
    PROVE  Tail(x) \in Seq(T) /\ Tail(x \o y) = Tail(x) \o y
  <1> DEFINE w == x \o y
  <1>1. /\ Len(x) \in Nat \ {0} /\ Len(y) \in Nat
        /\ w \in Seq(T) /\ Len(w) = Len(x) + Len(y)
        /\ \A i \in 1 .. Len(x) + Len(y) :
              w[i] = IF i <= Len(x) THEN x[i] ELSE y[i - Len(x)]
    BY EmptySeq, ConcatProperties
  <1>2. w # <<>>
    BY <1>1, EmptySeq
  <1>3. /\ Tail(x) \in Seq(T) /\ Len(Tail(x)) = Len(x) - 1
        /\ \A i \in 1 .. Len(Tail(x)) : Tail(x)[i] = x[i + 1]
    BY HeadTailProperties
  <1> HIDE DEF w
  <1>4. /\ Tail(w) \in Seq(T) /\ Len(Tail(w)) = Len(w) - 1
        /\ \A i \in 1 .. Len(Tail(w)) : Tail(w)[i] = w[i + 1]
    BY <1>1, <1>2, HeadTailProperties
  <1> DEFINE t == Tail(x)
             z == t \o y
  <1>5. /\ z \in Seq(T) /\ Len(z) = Len(x) - 1 + Len(y)
        /\ \A i \in 1 .. Len(t) + Len(y) :
              z[i] = IF i <= Len(t) THEN t[i] ELSE y[i - Len(t)]
    BY <1>1, <1>3, ConcatProperties
  <1> HIDE DEF t, z
  <1>6. \A i \in 1 .. Len(z) : z[i] = Tail(w)[i]
    <2> SUFFICES ASSUME NEW i \in 1 .. Len(z) PROVE z[i] = Tail(w)[i]
      OBVIOUS
    <2>1. i + 1 \in 1 .. Len(x) + Len(y) /\ i \in 1 .. Len(Tail(w)) /\ Len(t) = Len(x) - 1
      BY <1>1, <1>3, <1>4, <1>5 DEF t
    <2>2. Tail(w)[i] = w[i + 1]
      BY <1>4, <2>1
    <2>3. CASE i <= Len(t)
      <3>1. w[i + 1] = x[i + 1] /\ i \in 1 .. Len(t)
        BY <1>1, <2>1, <2>3
      <3>2. z[i] = t[i] /\ t[i] = x[i + 1]
        BY <1>1, <1>3, <1>5, <2>1, <2>3, <3>1 DEF t
      <3> QED
        BY <2>2, <3>1, <3>2
    <2>4. CASE ~(i <= Len(t))
      <3>1. w[i + 1] = y[i + 1 - Len(x)]
        BY <1>1, <2>1, <2>4
      <3>2. z[i] = y[i - Len(t)] /\ i - Len(t) = i + 1 - Len(x)
        BY <1>1, <1>5, <2>1, <2>4
      <3> QED
        BY <2>2, <3>1, <3>2
    <2> QED
      BY <2>3, <2>4
  <1>7. z = Tail(w)
    BY <1>1, <1>4, <1>5, <1>6, SeqEqual
  <1> QED
    BY <1>3, <1>7 DEF z, t, w

\* An answer without courses is read as none.
LEMMA NothingSent == Parse(Serialize(<<>>)) = <<>>
  <1>1. Serialize(<<>>) = <<"N">>
    <2>1. [i \in DOMAIN <<>> |-> Record(<<>>[i])] = <<>>
      OBVIOUS
    <2>2. <<"N">> \in Seq(Chars)
      BY DEF Chars
    <2> QED
      BY <2>1, <2>2, FlattenEmpty, ConcatEmptySeq DEF Serialize
  <1>2. Split(<<"N">>, RecordSep) = <<<<"N">>>>
    <2>1. <<"N">> \in Seq(Chars) /\ Plain(<<"N">>, RecordSep)
      BY DEF Chars, Plain, RecordSep
    <2> QED
      BY <2>1, SplitPlain
  <1>3. Tail(<<<<"N">>>>) = <<>>
    OBVIOUS
  <1> QED
    BY <1>1, <1>2, <1>3, CoursesOfNone DEF Parse

\* One course more in an answer adds to what the client makes of it, and if no
\* field of the course holds a separator, that course.
LEMMA OneMore ==
    ASSUME NEW cs \in Seq(Courses), NEW c \in Courses
    PROVE  /\ Parse(Serialize(cs)) \in Seq(AnyRows)
           /\ \E more \in Seq(AnyRows) :
                 /\ Parse(Serialize(Append(cs, c))) = Parse(Serialize(cs)) \o more
                 /\ Clean(c) => more = <<c>>
  <1> DEFINE text == Serialize(cs)
             x    == Split(text, RecordSep)
  <1>1. c \in Fields
    BY CoursesAreFields
  <1>2. PICK b \in Seq(Chars) :
           /\ Record(c) = <<RecordSep>> \o b
           /\ Clean(c) => Plain(b, RecordSep) /\ Split(b, FieldSep) = c
    BY <1>1, RecordText
  <1>3. text \in Seq(Chars) /\ Serialize(Append(cs, c)) = text \o (<<RecordSep>> \o b)
    BY <1>2, SerializeAppend
  <1>4. RecordSep \in Chars /\ <<RecordSep>> \in Seq(Chars)
    BY DEF Chars
  <1> HIDE DEF text
  <1>5. Serialize(Append(cs, c)) = Append(text, RecordSep) \o b
    BY <1>3, <1>4, ConcatAssociative, AppendIsConcat
  <1>6. x \in Seq(Seq(Chars)) /\ x # <<>>
    BY <1>3, SplitType
  <1> DEFINE y == Split(b, RecordSep)
  <1>7. y \in Seq(Seq(Chars))
    BY SplitType
  <1>8. Split(Serialize(Append(cs, c)), RecordSep) = x \o y
    <2>1. Split(Append(text, RecordSep) \o b, RecordSep) = x \o y
      <3>1. text \in Seq(Chars)
        BY <1>3
      <3>2. RecordSep \in Chars
        BY <1>4
      <3>3. Split(Append(text, RecordSep) \o b, RecordSep)
              = Split(text, RecordSep) \o Split(b, RecordSep)
        BY SMTT(30), <3>1, <3>2, SplitConcat
      <3> QED
        BY Zenon, <3>3
    <2> HIDE DEF x, y
    <2> QED
      BY <1>5, <2>1
  <1> HIDE DEF x, y
  <1>9. Tail(x) \in Seq(Seq(Chars)) /\ Tail(x \o y) = Tail(x) \o y
    <2> DEFINE RawRecord == Seq(Chars)
    <2>1. x \in Seq(RawRecord) /\ y \in Seq(RawRecord)
      BY <1>6, <1>7
    <2> HIDE DEF RawRecord
    <2>2. Tail(x) \in Seq(RawRecord) /\ Tail(x \o y) = Tail(x) \o y
      BY <1>6, <2>1, TailConcat
    <2> QED
      BY <2>2 DEF RawRecord
  <1> DEFINE r    == Tail(x)
             more == CoursesOf(y)
  <1>10. Parse(Serialize(cs)) = CoursesOf(r)
    BY DEF Parse, x, text
  <1>11. Parse(Serialize(Append(cs, c))) = CoursesOf(r) \o more
    BY <1>7, <1>8, <1>9, CoursesOfConcat DEF Parse
  <1>12. CoursesOf(r) \in Seq(AnyRows) /\ more \in Seq(AnyRows)
    <2>1. \A s \in Seq(Seq(Chars)) : CoursesOf(s) \in Seq(AnyRows)
      <3>1. <<>> \in Seq(Chars)
        BY EmptySeq
      <3> QED
        BY <3>1, CoursesOfAppend
    <2> QED
      BY <1>7, <1>9, <2>1
  <1>13. ASSUME Clean(c) PROVE more = <<c>>
    <2>1. y = <<b>> /\ Split(b, FieldSep) = c
      BY <1>2, <1>13, SplitPlain DEF y
    <2>2. Made(b) = <<c>>
      <3>1. c \in Seq(Seq(Chars)) /\ Len(c) = Width /\ Width \in Nat
        BY <1>1, WidthAssumption DEF Fields
      <3>2. SubSeq(c, 1, Width) = c
        <4> DEFINE Field == Seq(Chars)
        <4>1. c \in Seq(Field)
          BY <3>1
        <4> HIDE DEF Field
        <4> QED
          BY <3>1, <4>1, SubSeqFull
      <3> QED
        BY <2>1, <3>1, <3>2 DEF Made, CourseOf
    <2>3. <<>> \in Seq(Seq(Chars)) /\ Append(<<>>, b) = <<b>>
      <3> DEFINE RawRecord == Seq(Chars)
                 none == <<>>
      <3>1. none \in Seq(RawRecord) /\ b \in RawRecord
        BY EmptySeq
      <3> HIDE DEF RawRecord
      <3>2. Append(none, b) = none \o <<b>> /\ <<b>> \in Seq(RawRecord)
        BY <3>1, AppendIsConcat
      <3>3. none \o <<b>> = <<b>>
        BY <3>2, ConcatEmptySeq
      <3> QED
        BY <3>1, <3>2, <3>3 DEF RawRecord
    <2>4. CoursesOf(Append(<<>>, b)) = CoursesOf(<<>>) \o Made(b) /\ Made(b) \in Seq(AnyRows)
      BY <2>3, CoursesOfAppend
    <2> QED
      BY <2>1, <2>2, <2>3, <2>4, CoursesOfNone, ConcatEmptySeq
  <1> QED
    BY <1>10, <1>11, <1>12, <1>13

\* What the client makes of an answer is a sequence of rows.
LEMMA ParseType == ASSUME NEW cs \in Seq(Courses) PROVE Parse(Serialize(cs)) \in Seq(AnyRows)
  <1>1. CASE cs = <<>>
    BY <1>1, NothingSent, EmptySeq
  <1>2. CASE cs # <<>>
    <2>1. PICK c : c \in Courses
      BY <1>2, EmptySeq
    <2> QED
      BY <2>1, OneMore
  <1> QED
    BY <1>1, <1>2

\* An answer in which no field holds a separator is what the client makes of it.
THEOREM RoundTrip ==
    ASSUME NEW cs \in Seq(Courses), \A i \in 1 .. Len(cs) : Clean(cs[i])
    PROVE  Parse(Serialize(cs)) = cs
  <1> DEFINE S == {s \in Seq(Courses) :
                      (\A i \in 1 .. Len(s) : Clean(s[i])) => Parse(Serialize(s)) = s}
  <1>1. <<>> \in S
    BY NothingSent, EmptySeq
  <1>2. ASSUME NEW s \in Seq(Courses), NEW c \in Courses, s \in S
        PROVE  Append(s, c) \in S
    <2>1. /\ Append(s, c) \in Seq(Courses) /\ Len(s) \in Nat
          /\ Len(Append(s, c)) = Len(s) + 1 /\ Append(s, c)[Len(s) + 1] = c
          /\ \A i \in 1 .. Len(s) : Append(s, c)[i] = s[i]
      BY AppendProperties
    <2> SUFFICES ASSUME \A i \in 1 .. Len(s) + 1 : Clean(Append(s, c)[i])
                 PROVE  Parse(Serialize(Append(s, c))) = Append(s, c)
      BY <2>1
    <2>2. Clean(c) /\ \A i \in 1 .. Len(s) : Clean(s[i])
      BY <2>1
    <2>3. Parse(Serialize(s)) = s
      BY <1>2, <2>2
    <2>4. Parse(Serialize(Append(s, c))) = s \o <<c>>
      BY <2>2, <2>3, OneMore
    <2> QED
      BY <2>4, AppendIsConcat
  <1> HIDE DEF S
  <1>3. cs \in S
    BY <1>1, <1>2, SeqSets
  <1> QED
    BY <1>3 DEF S

\* What OthersArrive says of one answer.
Arrive(cs) ==
    LET shown == Parse(Serialize(cs))
        whole == {i \in DOMAIN cs : Clean(cs[i])}
    IN  \E f \in [whole -> DOMAIN shown] :
            /\ \A i, j \in whole : i < j => f[i] < f[j]
            /\ \A i \in whole : shown[f[i]] = cs[i]

\* A course without a separator in its fields arrives, whole and in its place
\* among those that arrive, whatever the fields of the others hold.
THEOREM AllArrive ==
    ASSUME NEW cs \in Seq(Courses)
    PROVE  Arrive(cs)
  <1> DEFINE S == {s \in Seq(Courses) : Arrive(s)}
  <1>1. <<>> \in S
    <2> DEFINE whole == {i \in DOMAIN <<>> : Clean(<<>>[i])}
               f     == [i \in whole |-> i]
    <2>1. whole = {}
      OBVIOUS
    <2> HIDE DEF whole
    <2>2. f \in [whole -> DOMAIN Parse(Serialize(<<>>))]
      BY <2>1
    <2>3. Arrive(<<>>)
      BY <2>1, <2>2 DEF Arrive, whole
    <2> QED
      BY <2>3, EmptySeq
  <1>2. ASSUME NEW s \in Seq(Courses), NEW c \in Courses, s \in S
        PROVE  Append(s, c) \in S
    <2> DEFINE all    == Append(s, c)
               n      == Len(s)
               whole  == {i \in DOMAIN s : Clean(s[i])}
               whole2 == {i \in DOMAIN all : Clean(all[i])}
               shown  == Parse(Serialize(s))
               shown2 == Parse(Serialize(all))
    <2>1. /\ all \in Seq(Courses) /\ n \in Nat
          /\ Len(all) = n + 1 /\ all[n + 1] = c
          /\ \A i \in 1 .. n : all[i] = s[i]
          /\ DOMAIN s = 1 .. n /\ DOMAIN all = 1 .. n + 1
      BY AppendProperties, LenProperties
    <2>2. PICK f \in [whole -> DOMAIN shown] :
             /\ \A i, j \in whole : i < j => f[i] < f[j]
             /\ \A i \in whole : shown[f[i]] = s[i]
      BY <1>2 DEF Arrive
    <2>3. shown \in Seq(AnyRows)
      BY OneMore
    <2>4. PICK more \in Seq(AnyRows) :
             shown2 = shown \o more /\ (Clean(c) => more = <<c>>)
      BY OneMore
    <2> DEFINE m == Len(shown)
    <2>5. /\ m \in Nat /\ Len(more) \in Nat /\ DOMAIN shown = 1 .. m
          /\ DOMAIN shown2 = 1 .. m + Len(more)
          /\ \A i \in 1 .. m : shown2[i] = shown[i]
          /\ \A i \in 1 .. Len(more) : shown2[m + i] = more[i]
      <3> HIDE DEF shown, shown2
      <3>1. /\ shown2 \in Seq(AnyRows) /\ Len(shown2) = m + Len(more)
            /\ \A i \in 1 .. m + Len(more) :
                  shown2[i] = IF i <= m THEN shown[i] ELSE more[i - m]
        BY <2>3, <2>4, ConcatProperties
      <3>2. m \in Nat /\ Len(more) \in Nat /\ DOMAIN shown = 1 .. m
            /\ DOMAIN shown2 = 1 .. m + Len(more)
        BY <2>3, <3>1, LenProperties
      <3>3. \A i \in 1 .. m : shown2[i] = shown[i]
        BY <3>1, <3>2
      <3>4. \A i \in 1 .. Len(more) : shown2[m + i] = more[i]
        <4> SUFFICES ASSUME NEW i \in 1 .. Len(more) PROVE shown2[m + i] = more[i]
          OBVIOUS
        <4>1. m + i \in 1 .. m + Len(more) /\ ~(m + i <= m) /\ (m + i) - m = i
          BY <3>2
        <4> QED
          BY <3>1, <4>1
      <3> QED
        BY <3>2, <3>3, <3>4
    <2>6. /\ whole \subseteq 1 .. n /\ whole2 \subseteq whole \cup {n + 1}
          /\ n + 1 \in whole2 => Clean(c)
      BY <2>1
    <2> DEFINE g == [i \in whole2 |-> IF i = n + 1 THEN m + 1 ELSE f[i]]
    <2> HIDE DEF whole, whole2, shown, shown2, all, n, m
    <2>7. \A i \in whole2 : i # n + 1 => i \in whole /\ i \in 1 .. n /\ g[i] = f[i]
                                           /\ f[i] \in 1 .. m
      BY <2>2, <2>5, <2>6
    <2>8. n + 1 \in whole2 => /\ Clean(c) /\ g[n + 1] = m + 1 /\ m + 1 \in DOMAIN shown2
                              /\ shown2[m + 1] = c
      <3> SUFFICES ASSUME n + 1 \in whole2
                   PROVE  /\ Clean(c) /\ g[n + 1] = m + 1 /\ m + 1 \in DOMAIN shown2
                          /\ shown2[m + 1] = c
        OBVIOUS
      <3>1. Clean(c) /\ g[n + 1] = m + 1
        BY <2>6
      <3>2. Len(more) = 1 /\ more[1] = c
        BY <2>4, <3>1
      <3> QED
        BY <2>5, <3>1, <3>2
    <2>9. g \in [whole2 -> DOMAIN shown2]
      <3>1. \A i \in whole2 : g[i] \in DOMAIN shown2
        BY <2>5, <2>7, <2>8
      <3> QED
        BY <3>1
    <2> HIDE DEF g
    <2>10. \A i, j \in whole2 : i < j => g[i] < g[j]
      <3> SUFFICES ASSUME NEW i \in whole2, NEW j \in whole2, i < j
                   PROVE  g[i] < g[j]
        OBVIOUS
      <3>1. i # n + 1
        BY <2>1, <2>7 DEF n
      <3>2. CASE j = n + 1
        BY <2>5, <2>7, <2>8, <3>1, <3>2
      <3>3. CASE j # n + 1
        BY <2>2, <2>7, <3>1, <3>3
      <3> QED
        BY <3>2, <3>3
    <2>11. \A i \in whole2 : shown2[g[i]] = all[i]
      <3> SUFFICES ASSUME NEW i \in whole2 PROVE shown2[g[i]] = all[i]
        OBVIOUS
      <3>1. CASE i = n + 1
        BY <2>1, <2>8, <3>1
      <3>2. CASE i # n + 1
        BY <2>1, <2>2, <2>5, <2>7, <3>2
      <3> QED
        BY <3>1, <3>2
    <2>12. Arrive(all)
      BY <2>9, <2>10, <2>11 DEF Arrive, whole2, shown2
    <2> QED
      BY <2>1, <2>12 DEF all
  <1> HIDE DEF S
  <1>3. cs \in S
    BY <1>1, <1>2, SeqSets
  <1> QED
    BY <1>3 DEF S

=============================================================================
