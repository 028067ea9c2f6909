-------------------------- MODULE ChannelRefProofs --------------------------
(***************************************************************************)
(* Proofs about the channel reference parsers of ChannelRef, for strings   *)
(* of every length over every alphabet.  strings.Split is modelled by its  *)
(* cut points; the lemmas below say which cut point has which rank, from   *)
(* which the pieces the parsers read follow.                               *)
(***************************************************************************)
EXTENDS ChannelRef, FiniteSetTheorems, SequenceTheorems, WellFoundedInduction,
        TLAPS

-----------------------------------------------------------------------------
(* Lemmas on ranks, minima and small sets *)

\* A nonempty set of naturals has a least element.
LEMMA NatHasLeast ==
    ASSUME NEW T \in SUBSET Nat, T # {}
    PROVE  \E m \in T : \A y \in T : m <= y
<1>1. \E x \in T : \A y \in T : ~(y < x)
    <2>1. \E x \in T : \A y \in T : ~(<<y, x>> \in OpToRel(<, Nat))
        BY NatLessThanWellFounded, WFMin, Zenon
    <2>. QED  BY <2>1, Zenon DEF OpToRel
<1>. QED  BY <1>1

\* Min picks the least element when there is one.
LEMMA MinIsLeast ==
    ASSUME NEW T \in SUBSET Int, NEW m \in T, \A y \in T : m <= y
    PROVE  Min(T) = m
<1>1. Min(T) \in T /\ \A y \in T : Min(T) <= y
    BY Zenon DEF Min
<1>2. Min(T) \in Int
    BY <1>1
<1>3. m <= Min(T) /\ Min(T) <= m
    BY <1>1
<1>. QED  BY <1>2, <1>3

\* The cut points lying before one point are among those before a later one,
\* with the first point itself: rank is strictly increasing.
LEMMA RankMonotone ==
    ASSUME NEW C \in SUBSET Int, IsFiniteSet(C), NEW x \in C, NEW y \in C, x < y
    PROVE  /\ Rank(C, x) \in Nat
           /\ Rank(C, y) \in Nat
           /\ Rank(C, x) < Rank(C, y)
<1> DEFINE Bx == {q \in C : q < x}
           By == {q \in C : q < y}
<1>1. IsFiniteSet(Bx) /\ IsFiniteSet(By)
    BY FS_Subset DEF Bx, By
<1>2. /\ IsFiniteSet(Bx \cup {x})
      /\ Cardinality(Bx \cup {x}) = Cardinality(Bx) + 1
    <2>1. x \notin Bx  BY DEF Bx
    <2>. QED  BY <1>1, <2>1, FS_AddElement
<1>3. Bx \cup {x} \subseteq By
    <2>1. \A q \in C : q < x => q < y  OBVIOUS
    <2>. QED  BY <2>1, Zenon DEF Bx, By
<1>4. Cardinality(Bx \cup {x}) <= Cardinality(By)
    BY <1>1, <1>2, <1>3, FS_Subset
<1>5. Cardinality(Bx) \in Nat /\ Cardinality(By) \in Nat
    BY <1>1, FS_CardinalityType
<1>. QED  BY <1>2, <1>4, <1>5 DEF Rank, Bx, By

\* A cut point is the NthCut of its own rank.
LEMMA NthCutIs ==
    ASSUME NEW C \in SUBSET Int, IsFiniteSet(C), NEW p \in C, NEW k,
           Rank(C, p) = k
    PROVE  NthCut(C, k) = p
<1>1. /\ NthCut(C, k) \in C
      /\ Rank(C, NthCut(C, k)) = k
    BY DEF NthCut
<1> DEFINE q == NthCut(C, k)
<1>2. CASE q < p
    <2>1. Rank(C, q) \in Nat /\ Rank(C, p) \in Nat /\ Rank(C, q) < Rank(C, p)
        BY <1>1, <1>2, RankMonotone, Zenon DEF q
    <2>. QED  BY <1>1, <2>1 DEF q
<1>3. CASE p < q
    <2>1. Rank(C, p) \in Nat /\ Rank(C, q) \in Nat /\ Rank(C, p) < Rank(C, q)
        BY <1>1, <1>3, RankMonotone, Zenon DEF q
    <2>. QED  BY <1>1, <2>1 DEF q
<1>4. q \in Int
    BY <1>1 DEF q
<1>. QED  BY <1>2, <1>3, <1>4 DEF q

\* The size of a set of one, two, three or four distinct values.
LEMMA CardOne ==
    ASSUME NEW a
    PROVE  IsFiniteSet({a}) /\ Cardinality({a}) = 1
BY FS_Singleton

LEMMA CardTwo ==
    ASSUME NEW a, NEW b, a # b
    PROVE  IsFiniteSet({a, b}) /\ Cardinality({a, b}) = 2
<1>1. {a, b} = {a} \cup {b}  OBVIOUS
<1>2. IsFiniteSet({a}) /\ Cardinality({a}) = 1  BY CardOne
<1>3. b \notin {a}  OBVIOUS
<1>4. /\ IsFiniteSet({a} \cup {b})
      /\ Cardinality({a} \cup {b}) = Cardinality({a}) + 1
    BY <1>2, <1>3, FS_AddElement
<1>. QED  BY <1>1, <1>2, <1>4

LEMMA CardThree ==
    ASSUME NEW a, NEW b, NEW c, a # b, a # c, b # c
    PROVE  IsFiniteSet({a, b, c}) /\ Cardinality({a, b, c}) = 3
<1>1. {a, b, c} = {a, b} \cup {c}  OBVIOUS
<1>2. IsFiniteSet({a, b}) /\ Cardinality({a, b}) = 2  BY CardTwo
<1>3. c \notin {a, b}  OBVIOUS
<1>4. /\ IsFiniteSet({a, b} \cup {c})
      /\ Cardinality({a, b} \cup {c}) = Cardinality({a, b}) + 1
    BY <1>2, <1>3, FS_AddElement
<1>. QED  BY <1>1, <1>2, <1>4

LEMMA CardFour ==
    ASSUME NEW a, NEW b, NEW c, NEW d, a # b, a # c, a # d, b # c, b # d, c # d
    PROVE  IsFiniteSet({a, b, c, d}) /\ Cardinality({a, b, c, d}) = 4
<1>1. {a, b, c, d} = {a, b, c} \cup {d}  OBVIOUS
<1>2. IsFiniteSet({a, b, c}) /\ Cardinality({a, b, c}) = 3  BY CardThree
<1>3. d \notin {a, b, c}  OBVIOUS
<1>4. /\ IsFiniteSet({a, b, c} \cup {d})
      /\ Cardinality({a, b, c} \cup {d}) = Cardinality({a, b, c}) + 1
    BY <1>2, <1>3, FS_AddElement
<1>. QED  BY <1>1, <1>2, <1>4

\* The four cut points of "/<namespace>/<name>" are distinct.
LEMMA CardPathCuts ==
    ASSUME NEW a \in Nat \ {0}, NEW b \in Nat \ {0}
    PROVE  Cardinality({0, 1, a + 2, a + b + 2 + 1}) = 4
<1>1. /\ 0 # 1 /\ 0 # a + 2 /\ 0 # a + b + 2 + 1
      /\ 1 # a + 2 /\ 1 # a + b + 2 + 1 /\ a + 2 # a + b + 2 + 1
    OBVIOUS
<1>. QED  BY <1>1, CardFour, Zenon

-----------------------------------------------------------------------------
(* What Split returns *)

\* The cut points form a finite set of at least the two ends, and Split has
\* one piece per pair of consecutive cut points.
LEMMA SplitShape ==
    ASSUME NEW S, NEW s \in Seq(S), NEW sep
    PROVE  LET C == Cuts(s, sep)
           IN  /\ C \subseteq 0 .. Len(s) + 1
               /\ IsFiniteSet(C)
               /\ Cardinality(C) \in Nat
               /\ Cardinality(C) >= 2
               /\ Len(Split(s, sep)) = Cardinality(C) - 1
               /\ \A k \in 1 .. Cardinality(C) - 1 :
                     Split(s, sep)[k] =
                       SubSeq(s, NthCut(C, k - 1) + 1, NthCut(C, k) - 1)
<1> DEFINE C == Cuts(s, sep)
<1>1. Len(s) \in Nat
    BY LenProperties
<1>2. C \subseteq 0 .. Len(s) + 1
    BY <1>1 DEF Cuts
<1>3. IsFiniteSet(C) /\ Cardinality(C) \in Nat
    <2>1. IsFiniteSet(0 .. Len(s) + 1)  BY <1>1, FS_Interval
    <2>2. IsFiniteSet(C)  BY <1>2, <2>1, FS_Subset
    <2>. QED  BY <2>2, FS_CardinalityType
<1>4. Cardinality(C) >= 2
    <2>1. {0, Len(s) + 1} \subseteq C  BY DEF Cuts
    <2>2. Cardinality({0, Len(s) + 1}) = 2
        <3>1. 0 # Len(s) + 1  BY <1>1
        <3>. QED  BY <3>1, CardTwo
    <2>. QED  BY <1>3, <2>1, <2>2, FS_Subset
<1>5. Len(Split(s, sep)) = Cardinality(C) - 1
    BY <1>3, <1>4 DEF Split
<1>. QED  BY <1>2, <1>3, <1>4, <1>5 DEF Split

-----------------------------------------------------------------------------
(* The path form of a reference parses back *)

\* A string with no slash in it.
SlashFree(s) == \A i \in 1 .. Len(s) : s[i] # Slash

\* "/<namespace>/<name>", character by character.
LEMMA PathShape ==
    ASSUME NEW S, NEW ns \in Seq(S), NEW name \in Seq(S)
    PROVE  LET p == <<Slash>> \o ns \o <<Slash>> \o name
               a == Len(ns)
           IN  /\ p \in Seq(S \cup {Slash})
               /\ Len(p) = a + Len(name) + 2
               /\ \A i \in 1 .. Len(p) :
                     p[i] = IF i = 1 \/ i = a + 2 THEN Slash
                            ELSE IF i <= a + 1 THEN ns[i - 1]
                            ELSE name[i - a - 2]
<1> DEFINE LS == S \cup {Slash}
           a == Len(ns)
           b == Len(name)
           u == <<Slash>> \o ns
           v == u \o <<Slash>>
           w == v \o name
<1>1. ns \in Seq(LS) /\ name \in Seq(LS) /\ <<Slash>> \in Seq(LS)
    BY SeqMonotonic DEF LS
<1>2. a \in Nat /\ b \in Nat
    BY LenProperties DEF a, b
<1>3. /\ u \in Seq(LS)
      /\ Len(u) = a + 1
      /\ \A i \in 1 .. a + 1 : u[i] = IF i <= 1 THEN Slash ELSE ns[i - 1]
    BY <1>1, ConcatProperties DEF u, a
<1>4. /\ v \in Seq(LS)
      /\ Len(v) = a + 2
      /\ \A i \in 1 .. a + 2 : v[i] = IF i <= a + 1 THEN u[i] ELSE Slash
    BY <1>1, <1>3, ConcatProperties DEF v
<1>5. /\ w \in Seq(LS)
      /\ Len(w) = a + b + 2
      /\ \A i \in 1 .. a + b + 2 : w[i] = IF i <= a + 2 THEN v[i] ELSE name[i - a - 2]
    BY <1>1, <1>4, ConcatProperties DEF w, b
<1>6. \A i \in 1 .. a + b + 2 :
          w[i] = IF i = 1 \/ i = a + 2 THEN Slash
                 ELSE IF i <= a + 1 THEN ns[i - 1]
                 ELSE name[i - a - 2]
    <2>. TAKE i \in 1 .. a + b + 2
    <2>1. CASE i <= a + 2
        <3>1. w[i] = v[i]  BY <1>2, <1>5, <2>1
        <3>2. i <= a + 1 => v[i] = u[i]  BY <1>2, <1>4, <2>1
        <3>3. i = a + 2 => v[i] = Slash  BY <1>2, <1>4, <2>1
        <3>4. i <= a + 1 => u[i] = IF i <= 1 THEN Slash ELSE ns[i - 1]
            BY <1>2, <1>3, <2>1
        <3>. QED  BY <1>2, <2>1, <3>1, <3>2, <3>3, <3>4
    <2>2. CASE ~(i <= a + 2)
        BY <1>2, <1>5, <2>2
    <2>. QED  BY <2>1, <2>2
<1>. QED  BY <1>5, <1>6 DEF LS, a, w, v, u

\* The last character of "/<namespace>/<name>" is the last of the name.
LEMMA PathLast ==
    ASSUME NEW S, NEW ns \in Seq(S), NEW name \in Seq(S) \ {<<>>}
    PROVE  Last(<<Slash>> \o ns \o <<Slash>> \o name) = name[Len(name)]
<1> DEFINE p == <<Slash>> \o ns \o <<Slash>> \o name
<1>1. Len(ns) \in Nat /\ Len(name) \in Nat \ {0}
    BY EmptySeq, LenProperties
<1>2. Len(p) = Len(ns) + Len(name) + 2
      /\ p[Len(p)] = IF Len(p) = 1 \/ Len(p) = Len(ns) + 2 THEN Slash
                     ELSE IF Len(p) <= Len(ns) + 1 THEN ns[Len(p) - 1]
                     ELSE name[Len(p) - Len(ns) - 2]
    <2>1. Len(p) \in 1 .. Len(p)  BY PathShape, <1>1 DEF p
    <2>. QED  BY <2>1, PathShape DEF p
<1>. QED  BY <1>1, <1>2 DEF Last, p

\* A path that is, character by character, a slash, a non-empty slash-free
\* namespace, a slash and a non-empty slash-free name is parsed into that
\* namespace and name.
LEMMA ParsePathChars ==
    ASSUME NEW S, NEW ns \in Seq(S) \ {<<>>}, NEW name \in Seq(S) \ {<<>>},
           SlashFree(ns), SlashFree(name),
           NEW p \in Seq(S \cup {Slash}),
           Len(p) = Len(ns) + Len(name) + 2,
           \A i \in 1 .. Len(p) :
              p[i] = IF i = 1 \/ i = Len(ns) + 2 THEN Slash
                     ELSE IF i <= Len(ns) + 1 THEN ns[i - 1]
                     ELSE name[i - Len(ns) - 2]
    PROVE  ParseChannelFromPath(p) = Ref(ns, name)
<1> DEFINE a == Len(ns)
           b == Len(name)
           L == a + b + 2
           C == Cuts(p, Slash)
<1>0. /\ p \in Seq(S \cup {Slash})
      /\ Len(p) = L
      /\ \A i \in 1 .. L :
            p[i] = IF i = 1 \/ i = a + 2 THEN Slash
                   ELSE IF i <= a + 1 THEN ns[i - 1]
                   ELSE name[i - a - 2]
    BY DEF L, a, b
<1>1. a \in Nat \ {0} /\ b \in Nat \ {0}
    BY EmptySeq, LenProperties DEF a, b
<1>2. \A i \in 2 .. a + 1 : p[i] = ns[i - 1] /\ ns[i - 1] # Slash
    <2>. TAKE i \in 2 .. a + 1
    <2>1. i - 1 \in 1 .. Len(ns)  BY <1>1 DEF a
    <2>2. ns[i - 1] # Slash  BY <2>1 DEF SlashFree
    <2>3. i \in 1 .. L /\ i # 1 /\ i # a + 2 /\ i <= a + 1
        BY <1>1 DEF L
    <2>. QED  BY <1>0, <2>2, <2>3, Zenon
<1>3. \A i \in a + 3 .. L : p[i] = name[i - a - 2] /\ name[i - a - 2] # Slash
    <2>. TAKE i \in a + 3 .. L
    <2>1. i - a - 2 \in 1 .. Len(name)  BY <1>1 DEF b, L
    <2>2. name[i - a - 2] # Slash  BY <2>1 DEF SlashFree
    <2>3. i \in 1 .. L /\ i # 1 /\ i # a + 2 /\ ~(i <= a + 1)
        BY <1>1 DEF L
    <2>. QED  BY <1>0, <2>2, <2>3, Zenon
<1>4. TrimSuffix(p, Slash) = p
    <2>1. Last(p) = name[b]  BY <1>0, <1>1 DEF Last, L
    <2>2. name[b] # Slash  BY <1>1 DEF b, SlashFree
    <2>. QED  BY <2>1, <2>2 DEF TrimSuffix
<1>5. C = {0, 1, a + 2, L + 1}
    <2>1. \A i \in 1 .. L : p[i] = Slash <=> i \in {1, a + 2}
        <3>. TAKE i \in 1 .. L
        <3>1. CASE i \in {1, a + 2}  BY <1>0, <1>1, <3>1 DEF L
        <3>2. CASE i \in 2 .. a + 1  BY <1>2, <3>2
        <3>3. CASE i \in a + 3 .. L  BY <1>3, <3>3
        <3>. QED  BY <1>1, <3>1, <3>2, <3>3 DEF L
    <2>. QED  BY <1>0, <1>1, <2>1 DEF C, Cuts, L
<1>6. C \subseteq Int /\ IsFiniteSet(C) /\ Cardinality(C) = 4
    <2>2. C \subseteq 0 .. L + 1  BY <1>1, <1>5 DEF L
    <2>3. IsFiniteSet(C)
        <3>1. IsFiniteSet(0 .. L + 1)  BY <1>1, FS_Interval DEF L
        <3>. QED  BY <2>2, <3>1, FS_Subset
    <2>4. Cardinality(C) = 4
        <3>1. Cardinality({0, 1, a + 2, L + 1}) = 4  BY <1>1, CardPathCuts DEF L
        <3>. QED  BY <1>5, <3>1
    <2>. QED  BY <2>2, <2>3, <2>4
<1>7. /\ NthCut(C, 1) = 1
      /\ NthCut(C, 2) = a + 2
      /\ NthCut(C, 3) = L + 1
    <2>1. Rank(C, 1) = 1
        <3>1. {q \in C : q < 1} = {0}  BY <1>1, <1>5 DEF L
        <3>. QED  BY <3>1, CardOne DEF Rank
    <2>2. Rank(C, a + 2) = 2
        <3>1. {q \in C : q < a + 2} = {0, 1}  BY <1>1, <1>5 DEF L
        <3>2. Cardinality({0, 1}) = 2
            <4>1. 0 # 1  OBVIOUS
            <4>. QED  BY <4>1, CardTwo
        <3>. QED  BY <3>1, <3>2 DEF Rank
    <2>3. Rank(C, L + 1) = 3
        <3>1. {q \in C : q < L + 1} = {0, 1, a + 2}  BY <1>1, <1>5 DEF L
        <3>2. 0 # 1 /\ 0 # a + 2 /\ 1 # a + 2  BY <1>1
        <3>3. Cardinality({0, 1, a + 2}) = 3  BY <3>2, CardThree
        <3>. QED  BY <3>1, <3>3 DEF Rank
    <2>. QED  BY <1>5, <1>6, <2>1, <2>2, <2>3, NthCutIs
<1>8. /\ Len(Split(p, Slash)) = 3
      /\ Split(p, Slash)[2] = SubSeq(p, 2, a + 1)
      /\ Split(p, Slash)[3] = SubSeq(p, a + 3, L)
    <2>2. LET D == Cuts(p, Slash)
          IN  /\ Len(Split(p, Slash)) = Cardinality(D) - 1
              /\ \A k \in 1 .. Cardinality(D) - 1 :
                    Split(p, Slash)[k] = SubSeq(p, NthCut(D, k - 1) + 1, NthCut(D, k) - 1)
        BY <1>0, SplitShape
    <2>3. /\ Len(Split(p, Slash)) = 3
          /\ \A k \in 1 .. 3 :
                Split(p, Slash)[k] = SubSeq(p, NthCut(C, k - 1) + 1, NthCut(C, k) - 1)
        BY <1>6, <2>2 DEF C
    <2>4. Split(p, Slash)[2] = SubSeq(p, NthCut(C, 1) + 1, NthCut(C, 2) - 1)
        BY <2>3
    <2>5. Split(p, Slash)[3] = SubSeq(p, NthCut(C, 2) + 1, NthCut(C, 3) - 1)
        BY <2>3
    <2>6. /\ NthCut(C, 1) + 1 = 2
          /\ NthCut(C, 2) - 1 = a + 1
          /\ NthCut(C, 2) + 1 = a + 3
          /\ NthCut(C, 3) - 1 = L
        BY <1>1, <1>7 DEF L
    <2>. QED  BY <2>3, <2>4, <2>5, <2>6, Zenon
<1>9. SubSeq(p, 2, a + 1) = ns /\ SubSeq(p, a + 3, L) = name
    BY <1>0, <1>1, <1>2, <1>3, LenProperties DEF a, b, L
<1>. QED  BY <1>4, <1>8, <1>9 DEF ParseChannelFromPath

\* "/<namespace>/<name>" with both segments non-empty and slash-free is
\* parsed into that namespace and name.
LEMMA ParsePathForm ==
    ASSUME NEW S, NEW ns \in Seq(S) \ {<<>>}, NEW name \in Seq(S) \ {<<>>},
           SlashFree(ns), SlashFree(name)
    PROVE  ParseChannelFromPath(<<Slash>> \o ns \o <<Slash>> \o name) = Ref(ns, name)
<1> DEFINE p == <<Slash>> \o ns \o <<Slash>> \o name
<1>1. /\ p \in Seq(S \cup {Slash})
      /\ Len(p) = Len(ns) + Len(name) + 2
      /\ \A i \in 1 .. Len(p) :
            p[i] = IF i = 1 \/ i = Len(ns) + 2 THEN Slash
                   ELSE IF i <= Len(ns) + 1 THEN ns[i - 1]
                   ELSE name[i - Len(ns) - 2]
    BY PathShape DEF p
<1>2. ParseChannelFromPath(p) = Ref(ns, name)
    BY <1>1, ParsePathChars
<1>. QED  BY <1>2 DEF p

\* strings.TrimSuffix removes one trailing slash and nothing else.
LEMMA TrimTrailing ==
    ASSUME NEW S, NEW s \in Seq(S), NEW ch, s # <<>>, Last(s) # ch
    PROVE  /\ TrimSuffix(s, ch) = s
           /\ TrimSuffix(s \o <<ch>>, ch) = s
<1>1. Len(s) \in Nat \ {0}  BY EmptySeq, LenProperties
<1>2. <<ch>> \in Seq(S \cup {ch}) /\ s \in Seq(S \cup {ch})  BY SeqMonotonic
<1>3. /\ s \o <<ch>> \in Seq(S \cup {ch})
      /\ Len(s \o <<ch>>) = Len(s) + 1
      /\ (s \o <<ch>>)[Len(s) + 1] = ch
    BY <1>1, <1>2, ConcatProperties
<1>4. SubSeq(s \o <<ch>>, 1, Len(s)) = SubSeq(s, 1, Len(s))
    BY <1>1, <1>2, SubSeqOfConcat1
<1>5. SubSeq(s, 1, Len(s)) = s  BY SubSeqFull
<1>6. s \o <<ch>> # <<>> /\ Last(s \o <<ch>>) = ch  BY <1>1, <1>3 DEF Last
<1>7. Front(s \o <<ch>>) = s  BY <1>3, <1>4, <1>5 DEF Front
<1>. QED  BY <1>6, <1>7 DEF TrimSuffix

\* The same path with one trailing slash parses the same: TrimSuffix
\* removes the slash and gives back the path without it.
LEMMA ParsePathFormSlash ==
    ASSUME NEW S, NEW ns \in Seq(S) \ {<<>>}, NEW name \in Seq(S) \ {<<>>},
           SlashFree(ns), SlashFree(name)
    PROVE  ParseChannelFromPath(<<Slash>> \o ns \o <<Slash>> \o name \o <<Slash>>)
             = Ref(ns, name)
<1> DEFINE p == <<Slash>> \o ns \o <<Slash>> \o name
<1>1. p \in Seq(S \cup {Slash}) /\ p # <<>> /\ Last(p) # Slash
    <2>1. Len(ns) \in Nat /\ Len(name) \in Nat  BY LenProperties
    <2>2. p \in Seq(S \cup {Slash}) /\ Len(p) = Len(ns) + Len(name) + 2
        BY PathShape DEF p
    <2>3. p # <<>>  BY <2>1, <2>2
    <2>4. Last(p) # Slash  BY PathLast, EmptySeq DEF p, SlashFree
    <2>. QED  BY <2>2, <2>3, <2>4
<1>2. TrimSuffix(p \o <<Slash>>, Slash) = TrimSuffix(p, Slash)
    BY <1>1, TrimTrailing, Zenon
<1>3. ParseChannelFromPath(p) = Ref(ns, name)  BY ParsePathForm DEF p
<1>. QED  BY <1>2, <1>3, Zenon DEF ParseChannelFromPath, p

-----------------------------------------------------------------------------
(* The host parser reads the first two labels *)

\* SelectInSeq of the separator: the first position holding it ...
LEMMA FirstSep ==
    ASSUME NEW S, NEW s \in Seq(S), NEW m \in 1 .. Len(s), s[m] = Dot,
           \A y \in 1 .. Len(s) : s[y] = Dot => m <= y
    PROVE  SelectInSeq(s, IsDot) = m
<1> DEFINE D == {i \in 1 .. Len(s) : s[i] = Dot}
<1>1. SelectInSeq(s, IsDot) = IF D # {} THEN Min(D) ELSE 0
    BY DEF SelectInSeq, IsDot, D
<1>2. m \in D /\ D \subseteq Int /\ \A y \in D : m <= y
    BY DEF D
<1>3. Min(D) = m
    BY <1>2, MinIsLeast, Zenon
<1>. QED  BY <1>1, <1>2, <1>3

\* ... or 0 when there is none.
LEMMA NoSep ==
    ASSUME NEW S, NEW s \in Seq(S), \A y \in 1 .. Len(s) : s[y] # Dot
    PROVE  SelectInSeq(s, IsDot) = 0
BY DEF SelectInSeq, IsDot

\* Arithmetic on the positions of a suffix.
LEMMA ShiftIndex ==
    ASSUME NEW m \in Nat, NEW L \in Nat, NEW k \in 1 .. L - m
    PROVE  m + k \in 1 .. L /\ m < m + k
OBVIOUS

\* Where IntendedHost takes the namespace and the name from.
LEMMA IntendedHostDef ==
    ASSUME NEW h
    PROVE  LET i == SelectInSeq(h, IsDot)
               rest == SubSeq(h, i + 1, Len(h))
               j == SelectInSeq(rest, IsDot)
           IN  IntendedHost(h) =
                  IF i = 0 THEN Error
                  ELSE Ref(SubSeq(rest, 1, IF j = 0 THEN Len(rest) ELSE j - 1),
                           SubSeq(h, 1, i - 1))
BY DEF IntendedHost

\* ParseChannelFromHost of a host without a dot: an error, as intended.
LEMMA HostWithoutDot ==
    ASSUME NEW S, NEW h \in Seq(S), {i \in 1 .. Len(h) : h[i] = Dot} = {}
    PROVE  ParseChannelFromHost(h) = IntendedHost(h)
<1>1. Len(h) \in Nat
    BY LenProperties
<1>2. Cuts(h, Dot) = {0, Len(h) + 1}
    BY DEF Cuts
<1>3. Cardinality(Cuts(h, Dot)) = 2
    <2>1. 0 # Len(h) + 1  BY <1>1
    <2>2. Cardinality({0, Len(h) + 1}) = 2  BY <2>1, CardTwo
    <2>. QED  BY <1>2, <2>2
<1>4. Len(Split(h, Dot)) = 1
    <2>1. Len(Split(h, Dot)) = Cardinality(Cuts(h, Dot)) - 1
        BY SplitShape, Zenon
    <2>. QED  BY <1>3, <2>1
<1>5. ParseChannelFromHost(h) = Error
    BY <1>4 DEF ParseChannelFromHost
<1>6. SelectInSeq(h, IsDot) = 0
    BY NoSep
<1>. QED  BY <1>5, <1>6, IntendedHostDef

\* ParseChannelFromHost of a host with a dot at m1 and none before: the
\* name is what precedes m1 and the namespace runs to the next cut point.
LEMMA HostWithDot ==
    ASSUME NEW S, NEW h \in Seq(S),
           NEW m1 \in {i \in 1 .. Len(h) : h[i] = Dot},
           \A y \in {i \in 1 .. Len(h) : h[i] = Dot} : m1 <= y
    PROVE  ParseChannelFromHost(h) = IntendedHost(h)
<1> DEFINE L == Len(h)
           D == {i \in 1 .. L : h[i] = Dot}
           C == Cuts(h, Dot)
           rest == SubSeq(h, m1 + 1, L)
<1>1. L \in Nat /\ m1 \in 1 .. L /\ h[m1] = Dot
    BY LenProperties DEF L
<1>2. /\ C = {0, L + 1} \cup D
      /\ C \subseteq 0 .. L + 1
      /\ C \subseteq Int
      /\ IsFiniteSet(C)
      /\ Cardinality(C) \in Nat
      /\ Len(Split(h, Dot)) = Cardinality(C) - 1
      /\ \A k \in 1 .. Cardinality(C) - 1 :
            Split(h, Dot)[k] = SubSeq(h, NthCut(C, k - 1) + 1, NthCut(C, k) - 1)
    <2>1. C = {0, L + 1} \cup D  BY DEF C, Cuts, D, L
    <2>2. LET CC == Cuts(h, Dot)
          IN  /\ CC \subseteq 0 .. Len(h) + 1
              /\ IsFiniteSet(CC)
              /\ Cardinality(CC) \in Nat
              /\ Len(Split(h, Dot)) = Cardinality(CC) - 1
              /\ \A k \in 1 .. Cardinality(CC) - 1 :
                    Split(h, Dot)[k] = SubSeq(h, NthCut(CC, k - 1) + 1, NthCut(CC, k) - 1)
        BY SplitShape
    <2>3. C \subseteq Int  BY <2>2 DEF C
    <2>. QED  BY <2>1, <2>2, <2>3, Zenon DEF C, L
<1>3. NthCut(C, 0) = 0
    <2>1. {q \in C : q < 0} = {}  BY <1>2
    <2>2. Rank(C, 0) = 0  BY <2>1, FS_EmptySet DEF Rank
    <2>. QED  BY <1>2, <2>2, NthCutIs
<1>4. NthCut(C, 1) = m1
    <2>1. {q \in C : q < m1} = {0}  BY <1>1, <1>2 DEF D
    <2>2. Rank(C, m1) = 1  BY <2>1, CardOne DEF Rank
    <2>3. m1 \in C  BY <1>2 DEF D
    <2>. QED  BY <1>2, <2>2, <2>3, NthCutIs
<1>5. SelectInSeq(h, IsDot) = m1
    BY <1>1, FirstSep DEF L
<1>6. /\ rest \in Seq(S)
      /\ Len(rest) = L - m1
      /\ \A k \in 1 .. L - m1 : rest[k] = h[m1 + k]
    <2>1. \A i \in m1 + 1 .. L : h[i] \in S  BY <1>1, ElementOfSeq DEF L
    <2>. QED  BY <1>1, <2>1, SubSeqProperties DEF rest
<1>7. \E m2 \in C :
         /\ m1 < m2
         /\ Rank(C, m2) = 2
         /\ SubSeq(rest, 1, IF SelectInSeq(rest, IsDot) = 0
                            THEN Len(rest)
                            ELSE SelectInSeq(rest, IsDot) - 1)
            = SubSeq(h, m1 + 1, m2 - 1)
    <2> DEFINE J == {k \in 1 .. Len(rest) : rest[k] = Dot}
    <2>1. CASE \A i \in D : i <= m1
        <3>1. {q \in C : q < L + 1} = {0, m1}
            BY <1>1, <1>2, <2>1 DEF D
        <3>2. Rank(C, L + 1) = 2
            <4>1. 0 # m1  BY <1>1
            <4>2. Cardinality({0, m1}) = 2  BY <4>1, CardTwo
            <4>. QED  BY <3>1, <4>2 DEF Rank
        <3>3. J = {}
            BY <1>1, <1>6, <2>1 DEF J, D
        <3>4. SelectInSeq(rest, IsDot) = 0
            <4>1. \A y \in 1 .. Len(rest) : rest[y] # Dot  BY <3>3 DEF J
            <4>. QED  BY <1>6, <4>1, NoSep, Zenon
        <3>5. SubSeq(rest, 1, Len(rest)) = SubSeq(h, m1 + 1, L)
            BY <1>6, SubSeqFull DEF rest
        <3>6. L + 1 \in C /\ m1 < L + 1  BY <1>1, <1>2
        <3>7. SubSeq(rest, 1, Len(rest)) = SubSeq(h, m1 + 1, (L + 1) - 1)
            BY <1>1, <3>5
        <3>. QED  BY <3>2, <3>4, <3>6, <3>7, Zenon
    <2>2. CASE \E i \in D : m1 < i
        <3>1. PICK m2 \in {i \in D : m1 < i} : \A y \in {i \in D : m1 < i} : m2 <= y
            <4>1. {i \in D : m1 < i} \in SUBSET Nat /\ {i \in D : m1 < i} # {}
                BY <2>2 DEF D
            <4>. QED  BY <4>1, NatHasLeast, Zenon
        <3>2. m2 \in C /\ m1 < m2 /\ m2 \in 1 .. L /\ h[m2] = Dot
            BY <1>2, <3>1 DEF D
        <3>3. {q \in C : q < m2} = {0, m1}
            BY <1>1, <1>2, <3>1 DEF D
        <3>4. Rank(C, m2) = 2
            <4>1. 0 # m1  BY <1>1
            <4>2. Cardinality({0, m1}) = 2  BY <4>1, CardTwo
            <4>. QED  BY <3>3, <4>2 DEF Rank
        <3>5. m2 - m1 \in J /\ \A k \in J : m2 - m1 <= k
            <4>1. m2 - m1 \in J  BY <1>1, <1>6, <3>2 DEF J
            <4>2. \A k \in J : m1 + k \in {i \in D : m1 < i}
                <5>. TAKE k \in J
                <5>1. k \in 1 .. L - m1 /\ rest[k] = Dot  BY <1>6 DEF J
                <5>2. rest[k] = h[m1 + k]  BY <1>6, <5>1
                <5>3. m1 + k \in 1 .. L /\ m1 < m1 + k  BY <1>1, <5>1, ShiftIndex
                <5>. QED  BY <5>1, <5>2, <5>3 DEF D
            <4>. QED  BY <1>1, <3>1, <4>1, <4>2
        <3>6. SelectInSeq(rest, IsDot) = m2 - m1
            <4>1. m2 - m1 \in 1 .. Len(rest) /\ rest[m2 - m1] = Dot  BY <3>5 DEF J
            <4>2. \A y \in 1 .. Len(rest) : rest[y] = Dot => m2 - m1 <= y  BY <3>5 DEF J
            <4>. QED  BY <1>6, <4>1, <4>2, FirstSep, Zenon
        <3>7. SubSeq(rest, 1, m2 - m1 - 1) = SubSeq(h, m1 + 1, m2 - 1)
            BY <1>1, <1>6, <3>2
        <3>8. m2 - m1 # 0 /\ (m2 - m1) - 1 = m2 - m1 - 1  BY <3>2
        <3>. QED  BY <3>2, <3>4, <3>6, <3>7, <3>8, Zenon
    <2>3. (\A i \in D : i <= m1) \/ (\E i \in D : m1 < i)  BY <1>1 DEF D
    <2>. QED  BY <2>1, <2>2, <2>3, Zenon
<1>8. PICK m2 \in C :
         /\ m1 < m2
         /\ Rank(C, m2) = 2
         /\ SubSeq(rest, 1, IF SelectInSeq(rest, IsDot) = 0
                            THEN Len(rest)
                            ELSE SelectInSeq(rest, IsDot) - 1)
            = SubSeq(h, m1 + 1, m2 - 1)
    BY <1>7
<1>9. NthCut(C, 2) = m2
    BY <1>2, <1>8, NthCutIs
<1>10. Cardinality(C) - 1 >= 2
    <2>1. {0, m1, m2} \subseteq C  BY <1>2, <1>4, <1>8 DEF D
    <2>2. 0 # m1 /\ 0 # m2 /\ m1 # m2  BY <1>1, <1>8
    <2>3. Cardinality({0, m1, m2}) = 3  BY <2>2, CardThree
    <2>4. Cardinality({0, m1, m2}) <= Cardinality(C)  BY <1>2, <2>1, FS_Subset
    <2>. QED  BY <1>2, <2>3, <2>4
<1>11. /\ Len(Split(h, Dot)) >= 2
       /\ Split(h, Dot)[1] = SubSeq(h, 1, m1 - 1)
       /\ Split(h, Dot)[2] = SubSeq(h, m1 + 1, m2 - 1)
    <2>0. 1 \in 1 .. Cardinality(C) - 1 /\ 2 \in 1 .. Cardinality(C) - 1
        BY <1>2, <1>10
    <2>1. Split(h, Dot)[1] = SubSeq(h, NthCut(C, 1 - 1) + 1, NthCut(C, 1) - 1)
        BY <1>2, <2>0, Zenon
    <2>2. Split(h, Dot)[2] = SubSeq(h, NthCut(C, 2 - 1) + 1, NthCut(C, 2) - 1)
        BY <1>2, <2>0, Zenon
    <2>3. 1 - 1 = 0 /\ 2 - 1 = 1  OBVIOUS
    <2>4. NthCut(C, 1 - 1) + 1 = 1 /\ NthCut(C, 1) - 1 = m1 - 1
          /\ NthCut(C, 2 - 1) + 1 = m1 + 1 /\ NthCut(C, 2) - 1 = m2 - 1
        BY <1>3, <1>4, <1>9, <2>3
    <2>. QED  BY <1>2, <1>10, <2>1, <2>2, <2>4, Zenon
<1>12. ParseChannelFromHost(h) = Ref(SubSeq(h, m1 + 1, m2 - 1), SubSeq(h, 1, m1 - 1))
    BY <1>11 DEF ParseChannelFromHost
<1>13. IntendedHost(h) =
          Ref(SubSeq(rest, 1, IF SelectInSeq(rest, IsDot) = 0
                              THEN Len(rest)
                              ELSE SelectInSeq(rest, IsDot) - 1),
              SubSeq(h, 1, m1 - 1))
    <2>1. m1 # 0  BY <1>1
    <2>. QED  BY <1>5, <2>1, IntendedHostDef DEF rest, L
<1>. QED  BY <1>8, <1>12, <1>13

\* ParseChannelFromHost agrees with IntendedHost on every host.
LEMMA HostParses ==
    ASSUME NEW S, NEW h \in Seq(S)
    PROVE  ParseChannelFromHost(h) = IntendedHost(h)
<1> DEFINE D == {i \in 1 .. Len(h) : h[i] = Dot}
<1>1. CASE D = {}
    BY <1>1, HostWithoutDot
<1>2. CASE D # {}
    <2>1. D \in SUBSET Nat  BY LenProperties DEF D
    <2>2. PICK m1 \in D : \A y \in D : m1 <= y  BY <1>2, <2>1, NatHasLeast, Zenon
    <2>. QED  BY <2>2, HostWithDot, Zenon DEF D
<1>. QED  BY <1>1, <1>2

-----------------------------------------------------------------------------
(* The path parser agrees with the reference definition *)

\* The two accepted forms of a path for a namespace and a name, and the
\* references whose form a path has (the LET of IntendedPath).
PathForms(ns, name) == {<<Slash>> \o ns \o <<Slash>> \o name,
                        <<Slash>> \o ns \o <<Slash>> \o name \o <<Slash>>}
PathMatches(p) ==
    {r \in {Ref(ns, name) : ns, name \in Segments(p) \ {<<>>}} :
        p \in PathForms(r.namespace, r.name)}

\* A reference of two non-empty segments of a path that has their form.
LEMMA RefInMatches ==
    ASSUME NEW p, NEW a \in Segments(p) \ {<<>>}, NEW b \in Segments(p) \ {<<>>},
           p \in PathForms(a, b)
    PROVE  Ref(a, b) \in PathMatches(p)
<1>1. \E c, d \in Segments(p) \ {<<>>} : Ref(a, b) = Ref(c, d)
    BY Zenon
<1>2. Ref(a, b) \in {Ref(c, d) : c, d \in Segments(p) \ {<<>>}}
    BY <1>1
<1>3. p \in PathForms(Ref(a, b).namespace, Ref(a, b).name)
    BY DEF Ref
<1>. QED  BY <1>2, <1>3 DEF PathMatches

\* Where IntendedPath takes its reference from.
LEMMA IntendedPathDef ==
    ASSUME NEW p
    PROVE  IntendedPath(p) = IF PathMatches(p) = {} THEN Error
                             ELSE CHOOSE r \in PathMatches(p) : TRUE
BY DEF IntendedPath, PathMatches, PathForms

\* A segment of a string is a slash-free string over its characters.
LEMMA SegmentFacts ==
    ASSUME NEW S, NEW s \in Seq(S), NEW seg \in Segments(s)
    PROVE  seg \in Seq(S) /\ SlashFree(seg)
<1>1. PICK i \in 1 .. Len(s) + 1, j \in 0 .. Len(s) :
          seg = SubSeq(s, i, j) /\ Slash \notin ToSet(seg)
    BY DEF Segments
<1>2. \A k \in i .. j : s[k] \in S
    BY ElementOfSeq
<1>3. seg \in Seq(S)
    BY <1>1, <1>2, SubSeqProperties
<1>4. DOMAIN seg = 1 .. Len(seg)
    BY <1>3
<1>. QED  BY <1>1, <1>3, <1>4 DEF ToSet, SlashFree

\* A slash-free substring of a string is one of its segments.
LEMMA SegmentOf ==
    ASSUME NEW S, NEW s \in Seq(S),
           NEW m \in 1 .. Len(s) + 1, NEW n \in 0 .. Len(s),
           SlashFree(SubSeq(s, m, n))
    PROVE  SubSeq(s, m, n) \in Segments(s)
<1>1. \A k \in m .. n : s[k] \in S
    BY ElementOfSeq
<1>2. SubSeq(s, m, n) \in Seq(S)
    BY <1>1, SubSeqProperties
<1>3. Slash \notin ToSet(SubSeq(s, m, n))
    BY <1>2 DEF ToSet, SlashFree
<1>. QED  BY <1>3 DEF Segments

\* Every reference a path matches is what ParseChannelFromPath returns.
LEMMA MatchParses ==
    ASSUME NEW S, NEW p \in Seq(S), NEW r \in PathMatches(p)
    PROVE  ParseChannelFromPath(p) = r
<1>1. PICK ns, name \in Segments(p) \ {<<>>} :
          r = Ref(ns, name) /\ p \in PathForms(ns, name)
    BY DEF PathMatches, Ref
<1>2. ns \in Seq(S) \ {<<>>} /\ name \in Seq(S) \ {<<>>} /\ SlashFree(ns) /\ SlashFree(name)
    BY <1>1, SegmentFacts
<1>3. CASE p = <<Slash>> \o ns \o <<Slash>> \o name
    BY <1>1, <1>2, <1>3, ParsePathForm
<1>4. CASE p = <<Slash>> \o ns \o <<Slash>> \o name \o <<Slash>>
    BY <1>1, <1>2, <1>4, ParsePathFormSlash
<1>. QED  BY <1>1, <1>3, <1>4 DEF PathForms

\* The length SubSeq gives to 1 .. n.
LEMMA CountUpTo ==
    ASSUME NEW n \in Nat, NEW x, x = IF 1 <= n THEN n - 1 + 1 ELSE 0
    PROVE  x = n
OBVIOUS

\* TrimSuffix returns a prefix of its argument: the argument itself, or
\* the argument without its last character, the suffix.
LEMMA TrimPrefix ==
    ASSUME NEW S, NEW s \in Seq(S), NEW ch \in S
    PROVE  LET t == TrimSuffix(s, ch)
           IN  /\ t \in Seq(S)
               /\ Len(t) <= Len(s)
               /\ \A i \in 1 .. Len(t) : t[i] = s[i]
               /\ s = t \/ s = t \o <<ch>>
<1> DEFINE t == TrimSuffix(s, ch)
<1>1. CASE s # <<>> /\ Last(s) = ch
    <2>1. Len(s) \in Nat \ {0}  BY <1>1, EmptySeq, LenProperties
    <2>2. t = SubSeq(s, 1, Len(s) - 1)  BY <1>1 DEF t, TrimSuffix, Front
    <2>3. \A k \in 1 .. Len(s) - 1 : s[k] \in S  BY ElementOfSeq
    <2>4. /\ t \in Seq(S)
          /\ Len(t) = Len(s) - 1
          /\ \A i \in 1 .. Len(s) - 1 : t[i] = s[i]
        <3>1. /\ SubSeq(s, 1, Len(s) - 1) \in Seq(S)
              /\ Len(SubSeq(s, 1, Len(s) - 1)) =
                    IF 1 <= Len(s) - 1 THEN (Len(s) - 1) - 1 + 1 ELSE 0
              /\ \A i \in 1 .. (Len(s) - 1) - 1 + 1 :
                    SubSeq(s, 1, Len(s) - 1)[i] = s[1 + i - 1]
            BY <2>1, <2>3, SubSeqProperties
        <3>2. /\ SubSeq(s, 1, Len(s) - 1) \in Seq(S)
              /\ Len(SubSeq(s, 1, Len(s) - 1)) = Len(s) - 1
              /\ \A i \in 1 .. Len(s) - 1 : SubSeq(s, 1, Len(s) - 1)[i] = s[i]
            <4>1. 1 .. (Len(s) - 1) - 1 + 1 = 1 .. Len(s) - 1  BY <2>1
            <4>2. \A i \in 1 .. Len(s) - 1 : 1 + i - 1 = i  BY <2>1
            <4>3. Len(SubSeq(s, 1, Len(s) - 1)) = Len(s) - 1
                <5> DEFINE n == Len(s) - 1
                <5>1. n \in Nat  BY <2>1 DEF n
                <5>2. Len(SubSeq(s, 1, n)) = IF 1 <= n THEN n - 1 + 1 ELSE 0
                    BY <3>1 DEF n
                <5>. QED  BY <5>1, <5>2, CountUpTo, Zenon DEF n
            <4>. QED  BY <3>1, <4>1, <4>2, <4>3
        <3>. QED  BY <2>2, <3>2, Zenon DEF t
    <2>5. /\ t \o <<ch>> \in Seq(S)
          /\ Len(t \o <<ch>>) = Len(s)
          /\ \A i \in 1 .. Len(s) : (t \o <<ch>>)[i] = s[i]
        <3>1. <<ch>> \in Seq(S)  OBVIOUS
        <3>2. /\ t \o <<ch>> \in Seq(S)
              /\ Len(t \o <<ch>>) = Len(s)
              /\ \A i \in 1 .. Len(s) :
                    (t \o <<ch>>)[i] = IF i <= Len(s) - 1 THEN t[i] ELSE ch
            BY <2>1, <2>4, <3>1, ConcatProperties
        <3>3. s[Len(s)] = ch  BY <1>1 DEF Last
        <3>. QED  BY <2>1, <2>4, <3>2, <3>3
    <2>6. s = t \o <<ch>>  BY <2>5, SeqEqual
    <2>. QED  BY <2>1, <2>4, <2>6 DEF t
<1>2. CASE ~(s # <<>> /\ Last(s) = ch)
    BY <1>2, LenProperties DEF TrimSuffix
<1>. QED  BY <1>1, <1>2

\* A substring of a prefix is the same substring of the whole string.
LEMMA SubSeqOfPrefix ==
    ASSUME NEW S, NEW s \in Seq(S), NEW t \in Seq(S),
           Len(t) <= Len(s), \A i \in 1 .. Len(t) : t[i] = s[i],
           NEW m \in 1 .. Len(t) + 1, NEW n \in 0 .. Len(t)
    PROVE  SubSeq(t, m, n) = SubSeq(s, m, n)
<1>1. Len(t) \in Nat /\ Len(s) \in Nat  BY LenProperties
<1>2. \A k \in m .. n : t[k] \in S /\ s[k] \in S  BY <1>1, ElementOfSeq
<1>3. /\ SubSeq(t, m, n) \in Seq(S)
      /\ Len(SubSeq(t, m, n)) = IF m <= n THEN n - m + 1 ELSE 0
      /\ \A i \in 1 .. n - m + 1 : SubSeq(t, m, n)[i] = t[m + i - 1]
    BY <1>2, SubSeqProperties
<1>4. /\ SubSeq(s, m, n) \in Seq(S)
      /\ Len(SubSeq(s, m, n)) = IF m <= n THEN n - m + 1 ELSE 0
      /\ \A i \in 1 .. n - m + 1 : SubSeq(s, m, n)[i] = s[m + i - 1]
    BY <1>2, SubSeqProperties
<1>5. \A i \in 1 .. Len(SubSeq(t, m, n)) : SubSeq(t, m, n)[i] = SubSeq(s, m, n)[i]
    BY <1>1, <1>3, <1>4
<1>. QED  BY <1>3, <1>4, <1>5, SeqEqual

\* A string that starts with a slash and that Split cuts into three pieces
\* holds exactly one other slash, at y; the pieces are what lies between.
LEMMA TwoSlashes ==
    ASSUME NEW S, NEW t \in Seq(S), Len(t) >= 1 => t[1] = Slash,
           Len(Split(t, Slash)) = 3
    PROVE  \E y \in 2 .. Len(t) :
              /\ {i \in 1 .. Len(t) : t[i] = Slash} = {1, y}
              /\ Split(t, Slash)[2] = SubSeq(t, 2, y - 1)
              /\ Split(t, Slash)[3] = SubSeq(t, y + 1, Len(t))
<1> DEFINE L == Len(t)
           C == Cuts(t, Slash)
           D == {i \in 1 .. L : t[i] = Slash}
<1>1. L \in Nat  BY LenProperties DEF L
<1>2. /\ C \subseteq 0 .. L + 1
      /\ IsFiniteSet(C)
      /\ Cardinality(C) = 4
      /\ \A k \in 1 .. 3 :
            Split(t, Slash)[k] = SubSeq(t, NthCut(C, k - 1) + 1, NthCut(C, k) - 1)
    <2>1. /\ C \subseteq 0 .. L + 1
          /\ IsFiniteSet(C)
          /\ Cardinality(C) \in Nat \ {0}
        <3>1. C \subseteq 0 .. L + 1  BY <1>1 DEF C, Cuts, L
        <3>2. IsFiniteSet(0 .. L + 1)  BY <1>1, FS_Interval
        <3>3. IsFiniteSet(C)  BY <3>1, <3>2, FS_Subset
        <3>4. C # {}  BY DEF C, Cuts
        <3>. QED  BY <3>1, <3>3, <3>4, FS_CardinalityType, FS_EmptySet
    <2>3. /\ Len(Split(t, Slash)) = Cardinality(C) - 1
          /\ \A k \in 1 .. Cardinality(C) - 1 :
                Split(t, Slash)[k] = SubSeq(t, NthCut(C, k - 1) + 1, NthCut(C, k) - 1)
        <3>1. Cardinality(C) - 1 \in Nat  BY <2>1
        <3>2. Len(Split(t, Slash)) = Cardinality(C) - 1  BY <3>1 DEF Split, C
        <3>3. \A k \in 1 .. Cardinality(C) - 1 :
                Split(t, Slash)[k] = SubSeq(t, NthCut(C, k - 1) + 1, NthCut(C, k) - 1)
            BY DEF Split, C
        <3>. QED  BY <3>2, <3>3
    <2>2. Cardinality(C) = 4  BY <2>1, <2>3
    <2>. QED  BY <2>1, <2>2, <2>3
<1>3. C = {0, L + 1} \cup D
    BY DEF C, Cuts, D, L
<1>4. D = (C \ {0}) \ {L + 1}
    BY <1>1, <1>3 DEF D
<1>5. IsFiniteSet(D) /\ Cardinality(D) = 2
    <2>1. IsFiniteSet(C \ {0}) /\ Cardinality(C \ {0}) = 3
        <3>1. IsFiniteSet(C \ {0})
              /\ Cardinality(C \ {0}) = IF 0 \in C THEN Cardinality(C) - 1 ELSE Cardinality(C)
            BY <1>2, FS_RemoveElement, Zenon
        <3>. QED  BY <1>2, <1>3, <3>1
    <2>2. IsFiniteSet((C \ {0}) \ {L + 1}) /\ Cardinality((C \ {0}) \ {L + 1}) = 2
        <3>1. L + 1 \in C \ {0}  BY <1>1, <1>3
        <3>2. IsFiniteSet((C \ {0}) \ {L + 1})
              /\ Cardinality((C \ {0}) \ {L + 1}) =
                   IF L + 1 \in C \ {0} THEN Cardinality(C \ {0}) - 1
                   ELSE Cardinality(C \ {0})
            BY <2>1, FS_RemoveElement, Zenon
        <3>. QED  BY <2>1, <3>1, <3>2
    <2>. QED  BY <1>4, <2>2
<1>6. 1 \in D
    <2>1. D # {}  BY <1>5, FS_EmptySet
    <2>2. L >= 1  BY <1>1, <2>1 DEF D
    <2>. QED  BY <2>2 DEF D, L
<1>7. IsFiniteSet(D \ {1}) /\ Cardinality(D \ {1}) = 1
    <2>1. IsFiniteSet(D \ {1})
          /\ Cardinality(D \ {1}) = IF 1 \in D THEN Cardinality(D) - 1 ELSE Cardinality(D)
        BY <1>5, FS_RemoveElement, Zenon
    <2>. QED  BY <1>5, <1>6, <2>1
<1>8. PICK y : D \ {1} = {y}
    BY <1>7, FS_Singleton
<1>9. y \in 2 .. L /\ D = {1, y}
    <2>1. y \in D /\ y # 1  BY <1>8, Zenon
    <2>2. y \in 2 .. L  BY <2>1 DEF D
    <2>3. D = {1, y}  BY <1>6, <1>8, Zenon
    <2>. QED  BY <2>2, <2>3
<1>10. C = {0, 1, y, L + 1}
    BY <1>3, <1>9
<1>11. /\ NthCut(C, 1) = 1
       /\ NthCut(C, 2) = y
       /\ NthCut(C, 3) = L + 1
    <2>0. C \subseteq Int  BY <1>2
    <2>1. Rank(C, 1) = 1
        <3>1. {q \in C : q < 1} = {0}  BY <1>1, <1>9, <1>10
        <3>. QED  BY <3>1, CardOne DEF Rank
    <2>2. Rank(C, y) = 2
        <3>1. {q \in C : q < y} = {0, 1}  BY <1>1, <1>9, <1>10
        <3>2. Cardinality({0, 1}) = 2
            <4>1. 0 # 1  OBVIOUS
            <4>. QED  BY <4>1, CardTwo
        <3>. QED  BY <3>1, <3>2 DEF Rank
    <2>3. Rank(C, L + 1) = 3
        <3>1. {q \in C : q < L + 1} = {0, 1, y}  BY <1>1, <1>9, <1>10
        <3>2. 0 # 1 /\ 0 # y /\ 1 # y  BY <1>9
        <3>3. Cardinality({0, 1, y}) = 3  BY <3>2, CardThree
        <3>. QED  BY <3>1, <3>3 DEF Rank
    <2>4. 1 \in C /\ y \in C /\ L + 1 \in C  BY <1>10
    <2>. QED  BY <1>2, <2>0, <2>1, <2>2, <2>3, <2>4, NthCutIs
<1>12. /\ Split(t, Slash)[2] = SubSeq(t, 2, y - 1)
       /\ Split(t, Slash)[3] = SubSeq(t, y + 1, L)
    <2>1. Split(t, Slash)[2] = SubSeq(t, NthCut(C, 1) + 1, NthCut(C, 2) - 1)
        BY <1>2
    <2>2. Split(t, Slash)[3] = SubSeq(t, NthCut(C, 2) + 1, NthCut(C, 3) - 1)
        BY <1>2
    <2>3. /\ NthCut(C, 1) + 1 = 2
          /\ NthCut(C, 2) - 1 = y - 1
          /\ NthCut(C, 2) + 1 = y + 1
          /\ NthCut(C, 3) - 1 = L
        BY <1>1, <1>9, <1>11
    <2>. QED  BY <2>1, <2>2, <2>3, Zenon
<1>. QED  BY <1>9, <1>12, Zenon DEF D, L

\* SubSeq(s, m, n) for bounds inside s: n - m + 1 characters from m on.
LEMMA SubSeqFacts ==
    ASSUME NEW S, NEW s \in Seq(S),
           NEW m \in 1 .. Len(s) + 1, NEW n \in m - 1 .. Len(s)
    PROVE  /\ SubSeq(s, m, n) \in Seq(S)
           /\ Len(SubSeq(s, m, n)) = n - m + 1
           /\ \A i \in 1 .. n - m + 1 : SubSeq(s, m, n)[i] = s[m + i - 1]
<1>1. \A k \in m .. n : s[k] \in S  BY ElementOfSeq
<1>. QED  BY <1>1, SubSeqProperties

\* The pieces around the only two slashes of a string, the first at 1 and
\* the second at y, make up the string as "/<namespace>/<name>".
LEMMA TwoSlashesForm ==
    ASSUME NEW S, NEW t \in Seq(S), NEW y \in 3 .. Len(t) - 1,
           {i \in 1 .. Len(t) : t[i] = Slash} = {1, y}
    PROVE  LET ns == SubSeq(t, 2, y - 1)
               name == SubSeq(t, y + 1, Len(t))
           IN  /\ ns \in Seq(S) \ {<<>>}
               /\ name \in Seq(S) \ {<<>>}
               /\ SlashFree(ns) /\ SlashFree(name)
               /\ t = <<Slash>> \o ns \o <<Slash>> \o name
<1> DEFINE L == Len(t)
           ns == SubSeq(t, 2, y - 1)
           name == SubSeq(t, y + 1, L)
<1>1. L \in Nat /\ y \in Nat /\ 3 <= y /\ y + 1 <= L
    BY LenProperties DEF L
<1>2. /\ ns \in Seq(S)
      /\ Len(ns) = y - 2
      /\ \A i \in 1 .. y - 2 : ns[i] = t[i + 1]
    <2>1. /\ ns \in Seq(S)
          /\ Len(ns) = (y - 1) - 2 + 1
          /\ \A i \in 1 .. (y - 1) - 2 + 1 : ns[i] = t[2 + i - 1]
        <3>1. 2 \in 1 .. Len(t) + 1 /\ y - 1 \in 2 - 1 .. Len(t)  BY <1>1 DEF L
        <3>. QED  BY <3>1, SubSeqFacts DEF ns
    <2>. QED  BY <1>1, <2>1
<1>3. /\ name \in Seq(S)
      /\ Len(name) = L - y
      /\ \A i \in 1 .. L - y : name[i] = t[y + i]
    <2>1. /\ name \in Seq(S)
          /\ Len(name) = L - (y + 1) + 1
          /\ \A i \in 1 .. L - (y + 1) + 1 : name[i] = t[(y + 1) + i - 1]
        <3>1. y + 1 \in 1 .. Len(t) + 1 /\ L \in (y + 1) - 1 .. Len(t)  BY <1>1 DEF L
        <3>. QED  BY <3>1, SubSeqFacts DEF name, L
    <2>. QED  BY <1>1, <2>1
<1>4. \A i \in 1 .. L : i # 1 /\ i # y => t[i] # Slash
    BY Zenon
<1>5. ns # <<>> /\ name # <<>>
    BY <1>1, <1>2, <1>3
<1>6. SlashFree(ns)
    <2>. SUFFICES ASSUME NEW i \in 1 .. Len(ns) PROVE ns[i] # Slash
        BY DEF SlashFree
    <2>1. i + 1 \in 1 .. L /\ i + 1 # 1 /\ i + 1 # y  BY <1>1, <1>2
    <2>. QED  BY <1>2, <1>4, <2>1
<1>7. SlashFree(name)
    <2>. SUFFICES ASSUME NEW i \in 1 .. Len(name) PROVE name[i] # Slash
        BY DEF SlashFree
    <2>1. y + i \in 1 .. L /\ y + i # 1 /\ y + i # y  BY <1>1, <1>3
    <2>. QED  BY <1>3, <1>4, <2>1
<1>8. t = <<Slash>> \o ns \o <<Slash>> \o name
    <2> DEFINE f == <<Slash>> \o ns \o <<Slash>> \o name
    <2>1. /\ f \in Seq(S \cup {Slash})
          /\ Len(f) = Len(ns) + Len(name) + 2
          /\ \A i \in 1 .. Len(f) :
                f[i] = IF i = 1 \/ i = Len(ns) + 2 THEN Slash
                       ELSE IF i <= Len(ns) + 1 THEN ns[i - 1]
                       ELSE name[i - Len(ns) - 2]
        BY <1>2, <1>3, PathShape DEF f
    <2>2. t \in Seq(S \cup {Slash})  BY SeqMonotonic
    <2>3. Len(f) = L  BY <1>1, <1>2, <1>3, <2>1
    <2>4. t[1] = Slash /\ t[y] = Slash  BY Zenon
    <2>5. \A i \in 1 .. L : f[i] = t[i]
        <3>. TAKE i \in 1 .. L
        <3>1. CASE i = 1 \/ i = y  BY <1>1, <1>2, <2>1, <2>3, <2>4, <3>1
        <3>2. CASE i \in 2 .. y - 1  BY <1>1, <1>2, <2>1, <2>3, <3>2
        <3>3. CASE i \in y + 1 .. L
            <4>1. f[i] = name[i - Len(ns) - 2]  BY <1>1, <1>2, <2>1, <2>3, <3>3
            <4>2. i - Len(ns) - 2 = i - y /\ i - y \in 1 .. L - y
                BY <1>1, <1>2, <3>3
            <4>3. name[i - y] = t[y + (i - y)]  BY <1>3, <4>2
            <4>4. y + (i - y) = i  BY <1>1, <3>3
            <4>. QED  BY <4>1, <4>2, <4>3, <4>4
        <3>. QED  BY <1>1, <3>1, <3>2, <3>3
    <2>. QED  BY <2>1, <2>2, <2>3, <2>5, SeqEqual DEF f
<1>. QED  BY <1>2, <1>3, <1>5, <1>6, <1>7, <1>8 DEF L

\* A path that starts with a slash and from which ParseChannelFromPath
\* returns two non-empty segments has the form of those segments.
LEMMA ParsedPathMatches ==
    ASSUME NEW S, NEW p \in Seq(S), Slash \in S, p # <<>>, p[1] = Slash,
           NonEmptyRef(ParseChannelFromPath(p))
    PROVE  PathMatches(p) # {}
<1> DEFINE t == TrimSuffix(p, Slash)
           parts == Split(t, Slash)
           L == Len(t)
<1>1. /\ t \in Seq(S)
      /\ L <= Len(p)
      /\ \A i \in 1 .. L : t[i] = p[i]
      /\ p = t \/ p = t \o <<Slash>>
    BY TrimPrefix, Zenon DEF t, L
<1>2. Len(parts) = 3 /\ parts[2] # <<>> /\ parts[3] # <<>>
    <2>1. ParseChannelFromPath(p) =
            IF Len(parts) # 3 THEN Error ELSE Ref(parts[2], parts[3])
        BY DEF ParseChannelFromPath, parts, t
    <2>. QED  BY <2>1 DEF NonEmptyRef, Error, Ref
<1>3. L \in Nat /\ Len(p) \in Nat /\ (L >= 1 => t[1] = Slash)
    BY <1>1, LenProperties DEF L
<1>4. PICK y \in 2 .. L :
          /\ {i \in 1 .. L : t[i] = Slash} = {1, y}
          /\ parts[2] = SubSeq(t, 2, y - 1)
          /\ parts[3] = SubSeq(t, y + 1, L)
    BY <1>1, <1>2, <1>3, TwoSlashes, Zenon DEF parts, L
<1>5. y \in 3 .. L - 1
    <2>1. y # 2  BY <1>2, <1>4, SubSeqEmpty
    <2>2. y # L  BY <1>2, <1>3, <1>4, SubSeqEmpty
    <2>. QED  BY <1>3, <2>1, <2>2
<1> DEFINE ns == SubSeq(t, 2, y - 1)
           name == SubSeq(t, y + 1, L)
<1>6. /\ ns \in Seq(S) \ {<<>>}
      /\ name \in Seq(S) \ {<<>>}
      /\ SlashFree(ns) /\ SlashFree(name)
      /\ t = <<Slash>> \o ns \o <<Slash>> \o name
    <2>1. t \in Seq(S) /\ y \in 3 .. Len(t) - 1
          /\ {i \in 1 .. Len(t) : t[i] = Slash} = {1, y}
        BY <1>1, <1>4, <1>5 DEF L
    <2>2. \A tt \in Seq(S) : \A yy \in 3 .. Len(tt) - 1 :
             {i \in 1 .. Len(tt) : tt[i] = Slash} = {1, yy} =>
                /\ SubSeq(tt, 2, yy - 1) \in Seq(S) \ {<<>>}
                /\ SubSeq(tt, yy + 1, Len(tt)) \in Seq(S) \ {<<>>}
                /\ SlashFree(SubSeq(tt, 2, yy - 1))
                /\ SlashFree(SubSeq(tt, yy + 1, Len(tt)))
                /\ tt = <<Slash>> \o SubSeq(tt, 2, yy - 1) \o <<Slash>>
                        \o SubSeq(tt, yy + 1, Len(tt))
        BY TwoSlashesForm
    <2>. QED  BY <2>1, <2>2, Zenon DEF ns, name, L
<1>7. p \in PathForms(ns, name)
    BY <1>1, <1>6 DEF PathForms
<1>8. ns \in Segments(p) /\ name \in Segments(p)
    <2>1. 2 \in 1 .. L + 1 /\ y - 1 \in 0 .. L /\ y + 1 \in 1 .. L + 1 /\ L \in 0 .. L
        BY <1>3, <1>5
    <2>2. ns = SubSeq(p, 2, y - 1) /\ name = SubSeq(p, y + 1, L)
        BY <1>1, <2>1, SubSeqOfPrefix DEF ns, name, L
    <2>3. 2 \in 1 .. Len(p) + 1 /\ y - 1 \in 0 .. Len(p)
          /\ y + 1 \in 1 .. Len(p) + 1 /\ L \in 0 .. Len(p)
        BY <1>1, <1>3, <1>5
    <2>4. SubSeq(p, 2, y - 1) \in Segments(p)
        BY <1>6, <2>2, <2>3, SegmentOf
    <2>5. SubSeq(p, y + 1, L) \in Segments(p)
        BY <1>6, <2>2, <2>3, SegmentOf
    <2>. QED  BY <2>2, <2>4, <2>5
<1>9. Ref(ns, name) \in PathMatches(p)
    <2>1. ns \in Segments(p) \ {<<>>} /\ name \in Segments(p) \ {<<>>}
        BY <1>6, <1>8
    <2>. QED  BY <1>7, <2>1, RefInMatches, Zenon
<1>. QED  BY <1>9

\* Whenever IntendedPath accepts a path, ParseChannelFromPath returns the
\* same reference.
LEMMA IntendedParses ==
    ASSUME NEW S, NEW p \in Seq(S), IntendedPath(p).ok
    PROVE  ParseChannelFromPath(p) = IntendedPath(p)
<1>1. PathMatches(p) # {}
    BY IntendedPathDef DEF Error
<1>2. IntendedPath(p) \in PathMatches(p)
    BY <1>1, IntendedPathDef
<1>. QED  BY <1>2, MatchParses

-----------------------------------------------------------------------------
(* The invariants of the runs, for every alphabet and every length bound *)

\* A bounded sequence is a sequence.
LEMMA BoundedSeqIsSeq ==
    ASSUME NEW S, NEW n \in Int
    PROVE  BoundedSeq(S, n) \subseteq Seq(S)
BY DEF BoundedSeq, SeqOf

\* What the input under test can be: a path that starts with a slash, or a
\* host over the host characters.
InputOK ==
    /\ input.kind = "path" =>
          /\ input.arg \in Seq(Letters \cup {Slash})
          /\ input.arg # <<>>
          /\ input.arg[1] = Slash
    /\ input.kind = "host" => input.arg \in Seq(Letters \cup {Dot})

LEMMA InputOKInvariant == Spec => []InputOK
<1>1. Init => InputOK
    BY LettersAssumption DEF Init, InputOK
<1>2. InputOK /\ [Next]_input => InputOK'
    <2> SUFFICES ASSUME InputOK, [Next]_input PROVE InputOK'
        OBVIOUS
    <2>1. CASE ParsePath
        <3>1. \A s \in BoundedSeq(Letters \cup {Slash}, MaxLen - 1) :
                 LET q == <<Slash>> \o s
                 IN  q \in Seq(Letters \cup {Slash}) /\ q # <<>> /\ q[1] = Slash
            <4>. TAKE s \in BoundedSeq(Letters \cup {Slash}, MaxLen - 1)
            <4>1. s \in Seq(Letters \cup {Slash})
                BY BoundedSeqIsSeq, LettersAssumption
            <4>2. <<Slash>> \in Seq(Letters \cup {Slash})  OBVIOUS
            <4>3. /\ <<Slash>> \o s \in Seq(Letters \cup {Slash})
                  /\ Len(<<Slash>> \o s) = 1 + Len(s)
                  /\ (<<Slash>> \o s)[1] = Slash
                BY <4>1, <4>2, ConcatProperties
            <4>. QED  BY <4>1, <4>3, LenProperties
        <3>2. PICK s \in BoundedSeq(Letters \cup {Slash}, MaxLen - 1) :
                 input' = [kind |-> "path", arg |-> <<Slash>> \o s]
            BY <2>1 DEF ParsePath, Paths
        <3>. QED  BY <3>1, <3>2 DEF InputOK
    <2>2. CASE ParseHost
        <3>1. Hosts \subseteq Seq(Letters \cup {Dot})
            BY LettersAssumption, BoundedSeqIsSeq DEF Hosts
        <3>. QED  BY <2>2, <3>1 DEF ParseHost, InputOK
    <2>4. CASE UNCHANGED input
        BY <2>4 DEF InputOK
    <2>. QED  BY <2>1, <2>2, <2>4 DEF Next
<1>. QED  BY <1>1, <1>2, PTL DEF Spec

\* HostParseMatchesReference: ParseChannelFromHost reads the name from the
\* first label and the namespace from the second, and rejects a host
\* without a dot, for every host of every length.
THEOREM HostParseCorrect == Spec => []HostParseMatchesReference
<1>1. InputOK => HostParseMatchesReference
    BY HostParses DEF InputOK, HostParseMatchesReference
<1>. QED  BY <1>1, InputOKInvariant, PTL

\* PathParseMatchesReference: whenever IntendedPath accepts a path, or
\* ParseChannelFromPath returns two non-empty segments from it, the two
\* agree (pkg/channel/references.go ParseChannelFromPath, with its
\* TrimSuffix and Split), for paths of every length over every alphabet.
THEOREM PathParseCorrect == Spec => []PathParseMatchesReference
<1>1. InputOK => PathParseMatchesReference
    <2>. SUFFICES ASSUME InputOK, input.kind = "path",
                         IntendedPath(input.arg).ok \/
                         NonEmptyRef(ParseChannelFromPath(input.arg))
                  PROVE  ParseChannelFromPath(input.arg) = IntendedPath(input.arg)
        BY DEF PathParseMatchesReference
    <2> DEFINE p == input.arg
    <2>1. p \in Seq(Letters \cup {Slash}) /\ p # <<>> /\ p[1] = Slash
        BY DEF InputOK, p
    <2>2. Slash \in Letters \cup {Slash}  OBVIOUS
    <2>3. CASE IntendedPath(p).ok
        BY <2>1, <2>3, IntendedParses
    <2>4. CASE NonEmptyRef(ParseChannelFromPath(p))
        <3>1. PathMatches(p) # {}
            BY <2>1, <2>2, <2>4, ParsedPathMatches
        <3>2. IntendedPath(p) \in PathMatches(p)
            BY <3>1, IntendedPathDef
        <3>. QED  BY <2>1, <3>2, MatchParses
    <2>. QED  BY <2>3, <2>4 DEF p
<1>. QED  BY <1>1, InputOKInvariant, PTL

=============================================================================
