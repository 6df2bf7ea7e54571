---------------------------- MODULE PathsProofs -----------------------------
(***************************************************************************)
(* Path normalization, on texts of any length over any alphabet.  Each     *)
(* pass and the reading are recursive functions, so they are first shown   *)
(* to have a value on every text; a pass then changes nothing of what an   *)
(* origin reads, and a text that no pass changes is the canonical one but  *)
(* for a "/." at its end.                                                  *)
(* Induction is that of PermutationProofs: the property is a set.          *)
(***************************************************************************)
EXTENDS Paths, SequenceTheorems, PermutationProofs

-----------------------------------------------------------------------------
(* A pass that always has less left to read has a result on every text.    *)

Follows(f, s, base, cut, B) == f[s] = IF s = <<>> THEN base ELSE B[<<s, f[cut[s]]>>]

LEMMA RecursionSolved ==
    ASSUME NEW R, NEW base \in R,
           NEW cut \in [Texts -> Texts], \A s \in Texts : s # <<>> => Len(cut[s]) < Len(s),
           NEW B \in [Texts \X R -> R]
    PROVE  \E f \in [Texts -> R] : \A s \in Texts : Follows(f, s, base, cut, B)
<1>. DEFINE Upto(m) == {f \in [Texts -> R] :
                            \A s \in Texts : Len(s) < m => Follows(f, s, base, cut, B)}
            S == {m \in Nat : \E f : f \in Upto(m)}
            F(m) == CHOOSE f : f \in Upto(m)
            whole == [s \in Texts |-> F(Len(s) + 1)[s]]
<1>0. \A s \in Texts : Len(s) \in Nat /\ (s # <<>> => cut[s] \in Texts /\ Len(cut[s]) \in Nat)
    BY DEF Texts
<1>1. 0 \in S
    <2>. DEFINE f == [s \in Texts |-> base]
    <2>1. f \in Upto(0)
        BY <1>0
    <2>. QED BY <2>1, Zenon
<1>2. ASSUME NEW m \in Nat, m \in S
      PROVE  m + 1 \in S
    <2>1. PICK f : f \in Upto(m)
        BY <1>2
    <2>. DEFINE g == [s \in Texts |-> IF s = <<>> THEN base ELSE B[<<s, f[cut[s]]>>]]
    <2>2. g \in [Texts -> R]
        BY <2>1, <1>0
    <2>3. ASSUME NEW s \in Texts, Len(s) < m + 1
          PROVE  Follows(g, s, base, cut, B)
        <3>1. CASE s = <<>>
            BY <3>1 DEF Follows
        <3>2. CASE s # <<>>
            <4>1. cut[s] \in Texts /\ Len(cut[s]) < m
                BY <1>0, <2>3, <3>2
            <4>2. g[cut[s]] = f[cut[s]]
                BY <2>1, <4>1 DEF Follows
            <4>. QED BY <3>2, <4>2 DEF Follows
        <3>. QED BY <3>1, <3>2
    <2>. HIDE DEF g
    <2>4. g \in Upto(m + 1)
        BY <2>2, <2>3
    <2>5. m + 1 \in Nat
        OBVIOUS
    <2>. QED BY <2>4, <2>5, Zenon
<1>. HIDE DEF S
<1>3. \A m \in Nat : m \in S
    BY <1>1, <1>2, InductionOverSet, Zenon
<1>4. \A m \in Nat : F(m) \in Upto(m)
    BY <1>3 DEF S
<1>. HIDE DEF F
<1>5. ASSUME NEW k \in Nat, NEW l \in Nat
      PROVE  \A s \in Texts : Len(s) < k /\ Len(s) < l => F(k)[s] = F(l)[s]
    <2>. DEFINE T == {m \in Nat : \A s \in Texts :
                          Len(s) < m /\ Len(s) < k /\ Len(s) < l => F(k)[s] = F(l)[s]}
    <2>1. 0 \in T
        BY <1>0
    <2>2. ASSUME NEW m \in Nat, m \in T
          PROVE  m + 1 \in T
        <3>1. SUFFICES ASSUME NEW s \in Texts, Len(s) < m + 1, Len(s) < k, Len(s) < l
                       PROVE  F(k)[s] = F(l)[s]
            OBVIOUS
        <3>2. Follows(F(k), s, base, cut, B) /\ Follows(F(l), s, base, cut, B)
            BY <1>4, <3>1
        <3>3. CASE s = <<>>
            BY <3>2, <3>3 DEF Follows
        <3>4. CASE s # <<>>
            <4>1. /\ cut[s] \in Texts /\ Len(cut[s]) < m
                  /\ Len(cut[s]) < k /\ Len(cut[s]) < l
                BY <1>0, <3>1, <3>4
            <4>2. F(k)[cut[s]] = F(l)[cut[s]]
                BY <2>2, <4>1
            <4>. QED BY <3>2, <4>2 DEF Follows
        <3>. QED BY <3>3, <3>4
    <2>. HIDE DEF T
    <2>3. \A m \in Nat : m \in T
        BY <2>1, <2>2, InductionOverSet, Zenon
    <2>4. k \in T
        BY <2>3
    <2>. QED BY <2>4 DEF T
<1>6. whole \in [Texts -> R]
    BY <1>0, <1>4
<1>7. ASSUME NEW s \in Texts
      PROVE  Follows(whole, s, base, cut, B)
    <2>1. Follows(F(Len(s) + 1), s, base, cut, B)
        BY <1>0, <1>4
    <2>2. CASE s = <<>>
        BY <2>1, <2>2 DEF Follows
    <2>3. CASE s # <<>>
        <3>1. cut[s] \in Texts /\ Len(cut[s]) + 1 \in Nat /\ Len(s) + 1 \in Nat
              /\ Len(cut[s]) < Len(cut[s]) + 1 /\ Len(cut[s]) < Len(s) + 1
            BY <1>0, <2>3
        <3>2. F(Len(cut[s]) + 1)[cut[s]] = F(Len(s) + 1)[cut[s]]
            BY <1>5, <3>1
        <3>3. whole[cut[s]] = F(Len(s) + 1)[cut[s]]
            BY <3>1, <3>2
        <3>. QED BY <2>1, <2>3, <3>3 DEF Follows
    <2>. QED BY <2>2, <2>3
<1>. HIDE DEF whole
<1>. QED BY <1>6, <1>7

(* What the rest of a text is: shorter, and a text. *)
LEMMA TextTail ==
    ASSUME NEW s \in Texts, s # <<>>
    PROVE  /\ Len(s) \in Nat /\ Len(s) > 0 /\ s[1] \in Characters
           /\ Tail(s) \in Texts /\ Len(Tail(s)) = Len(s) - 1 /\ Len(Tail(s)) < Len(s)
           /\ \A j \in 1 .. Len(s) - 1 : Tail(s)[j] = s[j + 1]
    BY DEF Texts

LEMMA TextRest ==
    ASSUME NEW s \in Texts, s # <<>>
    PROVE  /\ Len(s) \in Nat /\ Len(s) > 0 /\ s[1] \in Characters
           /\ Tail(s) \in Texts /\ Len(Tail(s)) = Len(s) - 1
           /\ s = <<s[1]>> \o Tail(s)
           /\ \A j \in 1 .. Len(s) - 1 : Tail(s)[j] = s[j + 1]
           /\ Len(s) > 2 => /\ SubSeq(s, 4, Len(s)) \in Texts
                            /\ SubSeq(s, 4, Len(s)) = Tail(Tail(Tail(s)))
                            /\ Len(SubSeq(s, 4, Len(s))) = Len(s) - 3
<1>1. /\ Len(s) \in Nat /\ Len(s) > 0 /\ s[1] \in Characters
      /\ Tail(s) \in Texts /\ Len(Tail(s)) = Len(s) - 1
      /\ \A j \in 1 .. Len(s) - 1 : Tail(s)[j] = s[j + 1]
    BY TextTail
<1>2. s = <<s[1]>> \o Tail(s)
    <2>. DEFINE t == <<s[1]>> \o Tail(s)
    <2>1. t \in Texts /\ Len(t) = Len(s) /\ \A j \in 1 .. Len(s) : t[j] = s[j]
        BY <1>1 DEF Texts
    <2>. HIDE DEF t
    <2>2. t = s
        BY <2>1, SeqEqual DEF Texts
    <2>. QED BY <2>2 DEF t
<1>3. ASSUME Len(s) > 2
      PROVE  /\ SubSeq(s, 4, Len(s)) \in Texts
             /\ SubSeq(s, 4, Len(s)) = Tail(Tail(Tail(s)))
             /\ Len(SubSeq(s, 4, Len(s))) = Len(s) - 3
    <2>. DEFINE u == SubSeq(s, 4, Len(s))
                v == Tail(s)
                w == Tail(v)
                x == Tail(w)
    <2>1. /\ u \in Texts /\ Len(u) = Len(s) - 3
          /\ \A j \in 1 .. Len(s) - 3 : u[j] = s[j + 3]
        BY <1>1, <1>3 DEF Texts
    <2>2. /\ v \in Texts /\ v # <<>> /\ Len(v) = Len(s) - 1
          /\ \A j \in 1 .. Len(s) - 1 : v[j] = s[j + 1]
        BY <1>1, <1>3
    <2>. HIDE DEF v
    <2>3. /\ w \in Texts /\ Len(w) = Len(v) - 1
          /\ \A j \in 1 .. Len(v) - 1 : w[j] = v[j + 1]
        BY <2>2, TextTail
    <2>. HIDE DEF w
    <2>4. w # <<>>
        BY <1>1, <1>3, <2>2, <2>3
    <2>5. /\ x \in Texts /\ Len(x) = Len(w) - 1
          /\ \A j \in 1 .. Len(w) - 1 : x[j] = w[j + 1]
        BY <2>3, <2>4, TextTail
    <2>. HIDE DEF x
    <2>6. ASSUME NEW j \in 1 .. Len(s) - 3
          PROVE  x[j] = s[j + 3]
        <3>1. j \in 1 .. Len(w) - 1 /\ j + 1 \in 1 .. Len(v) - 1 /\ j + 2 \in 1 .. Len(s) - 1
            BY <1>1, <2>2, <2>3
        <3>2. x[j] = w[j + 1] /\ w[j + 1] = v[(j + 1) + 1] /\ v[j + 2] = s[(j + 2) + 1]
            BY <2>2, <2>3, <2>5, <3>1
        <3>. QED BY <3>2
    <2>. HIDE DEF u
    <2>7. Len(u) = Len(x) /\ \A j \in 1 .. Len(u) : u[j] = x[j]
        BY <1>1, <2>1, <2>2, <2>3, <2>5, <2>6
    <2>8. u = x
        BY <2>1, <2>5, <2>7, SeqEqual DEF Texts
    <2>. QED BY <2>1, <2>8 DEF u, v, w, x
<1>. QED BY <1>1, <1>2, <1>3

(* Induction over texts: a text has a property if every shorter one does. *)
LEMMA InductionOverTexts ==
    ASSUME NEW S,
           \A s \in Texts : (\A t \in Texts : Len(t) < Len(s) => t \in S) => s \in S
    PROVE  \A s \in Texts : s \in S
<1>. DEFINE T == {m \in Nat : \A s \in Texts : Len(s) < m => s \in S}
<1>0. \A s \in Texts : Len(s) \in Nat
    BY DEF Texts
<1>1. 0 \in T
    BY <1>0
<1>2. ASSUME NEW m \in Nat, m \in T
      PROVE  m + 1 \in T
    <2>1. ASSUME NEW s \in Texts, Len(s) < m + 1
          PROVE  s \in S
        <3>1. \A t \in Texts : Len(t) < Len(s) => t \in S
            BY <1>0, <1>2, <2>1
        <3>. QED BY <3>1
    <2>. QED BY <2>1
<1>. HIDE DEF T
<1>3. \A m \in Nat : m \in T
    BY <1>1, <1>2, InductionOverSet, Zenon
<1>4. ASSUME NEW s \in Texts
      PROVE  s \in S
    <2>1. Len(s) + 1 \in T /\ Len(s) < Len(s) + 1
        BY <1>0, <1>3
    <2>. QED BY <2>1 DEF T
<1>. QED BY <1>4

LEMMA TextSecond ==
    ASSUME NEW s \in Texts, Len(s) > 1
    PROVE  /\ s # <<>> /\ Tail(s) \in Texts /\ Tail(s) # <<>> /\ Tail(s)[1] = s[2]
           /\ Len(s) > 2 => Len(Tail(s)) > 1 /\ Tail(s)[2] = s[3]
<1>1. s # <<>>
    BY DEF Texts
<1>2. /\ Len(s) \in Nat /\ Tail(s) \in Texts /\ Len(Tail(s)) = Len(s) - 1
      /\ \A j \in 1 .. Len(s) - 1 : Tail(s)[j] = s[j + 1]
    BY <1>1, TextTail
<1>3. Len(Tail(s)) > 0 /\ Tail(s)[1] = s[1 + 1]
    BY <1>2
<1>4. Tail(s) # <<>>
    BY <1>3
<1>5. Len(s) > 2 => Len(Tail(s)) > 1 /\ Tail(s)[2] = s[2 + 1]
    BY <1>2
<1>. QED BY <1>1, <1>2, <1>3, <1>4, <1>5

LEMMA TextSkip ==
    ASSUME NEW s \in Texts, Len(s) > 2
    PROVE  /\ s # <<>> /\ SubSeq(s, 4, Len(s)) \in Texts
           /\ SubSeq(s, 4, Len(s)) = Tail(Tail(Tail(s)))
           /\ Len(SubSeq(s, 4, Len(s))) < Len(s)
<1>1. s # <<>>
    BY DEF Texts
<1>2. Len(s) \in Nat
    BY <1>1, TextTail
<1>3. /\ SubSeq(s, 4, Len(s)) \in Texts
      /\ SubSeq(s, 4, Len(s)) = Tail(Tail(Tail(s)))
      /\ Len(SubSeq(s, 4, Len(s))) = Len(s) - 3
    BY <1>1, TextRest
<1>4. Len(SubSeq(s, 4, Len(s))) < Len(s)
    BY <1>2, <1>3
<1>. QED BY <1>1, <1>3, <1>4

-----------------------------------------------------------------------------
(* Each pass has a result, and it is a text.                               *)

Joined(c, t) == <<c>> \o t

LEMMA JoinedType ==
    ASSUME NEW c \in Characters, NEW t \in Texts
    PROVE  /\ Joined(c, t) \in Texts /\ Joined(c, t) # <<>>
           /\ Len(Joined(c, t)) = Len(t) + 1
           /\ Joined(c, t)[1] = c /\ Tail(Joined(c, t)) = t
           /\ \A j \in 1 .. Len(t) : Joined(c, t)[j + 1] = t[j]
<1>. DEFINE u == Joined(c, t)
<1>1. /\ u \in Texts /\ u # <<>> /\ Len(u) = Len(t) + 1 /\ u[1] = c
      /\ \A j \in 1 .. Len(t) : u[j + 1] = t[j]
    BY DEF Joined, Texts
<1>. HIDE DEF u
<1>2. Tail(u) \in Texts /\ Len(Tail(u)) = Len(t) /\ \A j \in 1 .. Len(t) : Tail(u)[j] = t[j]
    <2>1. Len(t) \in Nat
        BY DEF Texts
    <2>2. /\ Tail(u) \in Texts /\ Len(Tail(u)) = Len(u) - 1
          /\ \A j \in 1 .. Len(u) - 1 : Tail(u)[j] = u[j + 1]
        BY <1>1, TextTail
    <2>. QED BY <1>1, <2>1, <2>2
<1>3. Tail(u) = t
    BY <1>2, SeqEqual DEF Texts
<1>. QED BY <1>1, <1>3 DEF u

LEMMA HexValType ==
    ASSUME NEW hi, NEW lo \in HexDigits
    PROVE  hex_val(hi, lo) \in Characters
<1>. USE CharactersAssumption
<1>1. CASE hi # "2"
    BY <1>1 DEF hex_val
<1>2. CASE hi = "2"
    <2>. DEFINE byte == [d \in HexDigits |-> IF d = "e" THEN "." ELSE IF d = "f" THEN "/" ELSE "x"]
    <2>1. byte \in [HexDigits -> Characters]
        BY DEF HexDigits
    <2>2. hex_val(hi, lo) = byte[lo]
        BY <1>2, Zenon DEF hex_val
    <2>. HIDE DEF byte
    <2>. QED BY <2>1, <2>2
<1>. QED BY <1>1, <1>2

(* What is read a step at a time is of the type each step gives. *)
LEMMA RecursionType ==
    ASSUME NEW R, NEW g,
           NEW cut \in [Texts -> Texts], \A s \in Texts : s # <<>> => Len(cut[s]) < Len(s),
           g[<<>>] \in R, \A s \in Texts : s # <<>> /\ g[cut[s]] \in R => g[s] \in R
    PROVE  \A s \in Texts : g[s] \in R
<1>. DEFINE S == {s \in Texts : g[s] \in R}
<1>1. ASSUME NEW s \in Texts, \A t \in Texts : Len(t) < Len(s) => t \in S
      PROVE  s \in S
    <2>1. CASE s = <<>>
        BY <2>1
    <2>2. CASE s # <<>>
        <3>1. cut[s] \in S
            BY <1>1, <2>2
        <3>. QED BY <2>2, <3>1
    <2>. QED BY <2>1, <2>2
<1>. HIDE DEF S
<1>2. \A s \in Texts : s \in S
    BY <1>1, InductionOverTexts
<1>. QED BY <1>2 DEF S

LEMMA EmptyText == <<>> \in Texts
    BY DEF Texts

LEMMA DecodeType == percent_decode \in [Texts -> Texts]
<1>. DEFINE cut == [s \in Texts |-> IF s = <<>> THEN <<>>
                                     ELSE IF Escape(s) THEN SubSeq(s, 4, Len(s)) ELSE Tail(s)]
            B == [p \in Texts \X Texts |->
                      IF p[1] = <<>> THEN <<>>
                      ELSE IF Escape(p[1]) THEN Joined(hex_val(p[1][2], p[1][3]), p[2])
                      ELSE Joined(p[1][1], p[2])]
            Solves(f) == f = [s \in Texts |->
                IF s = <<>> THEN <<>>
                ELSE IF Escape(s) THEN <<hex_val(s[2], s[3])>> \o f[SubSeq(s, 4, Len(s))]
                ELSE <<s[1]>> \o f[Tail(s)]]
<1>1. cut \in [Texts -> Texts] /\ \A s \in Texts : s # <<>> => Len(cut[s]) < Len(s)
    <2>1. ASSUME NEW s \in Texts, s # <<>>
          PROVE  cut[s] \in Texts /\ Len(cut[s]) < Len(s)
        <3>1. CASE Escape(s)
            <4>1. Len(s) > 2
                BY <3>1 DEF Escape
            <4>. QED BY <2>1, <3>1, <4>1, TextSkip
        <3>2. CASE ~Escape(s)
            BY <2>1, <3>2, TextTail
        <3>. QED BY <3>1, <3>2
    <2>. QED BY <2>1, EmptyText
<1>2. ASSUME NEW s \in Texts, NEW t \in Texts, s # <<>>
      PROVE  /\ Escape(s) => Joined(hex_val(s[2], s[3]), t) \in Texts
             /\ Joined(s[1], t) \in Texts
    <2>1. Escape(s) => hex_val(s[2], s[3]) \in Characters
        BY HexValType DEF Escape
    <2>2. s[1] \in Characters
        BY <1>2, TextTail
    <2>. QED BY <2>1, <2>2, JoinedType
<1>3. B \in [Texts \X Texts -> Texts]
    BY <1>2, EmptyText
<1>. HIDE DEF cut, B
<1>4. PICK f \in [Texts -> Texts] : \A s \in Texts : Follows(f, s, <<>>, cut, B)
    BY <1>1, <1>3, EmptyText, RecursionSolved
<1>5. ASSUME NEW s \in Texts
      PROVE  f[s] = IF s = <<>> THEN <<>>
                    ELSE IF Escape(s) THEN <<hex_val(s[2], s[3])>> \o f[SubSeq(s, 4, Len(s))]
                    ELSE <<s[1]>> \o f[Tail(s)]
    <2>1. CASE s = <<>>
        BY <1>4, <2>1 DEF Follows
    <2>2. CASE s # <<>>
        BY <1>1, <1>4, <2>2 DEF Follows, cut, B, Joined
    <2>. QED BY <2>1, <2>2
<1>6. Solves(f)
    BY <1>4, <1>5
<1>. HIDE DEF Solves
<1>7. Solves(percent_decode)
    BY <1>6 DEF percent_decode, Solves
<1>8. percent_decode[<<>>] \in Texts
    BY <1>7, EmptyText DEF Solves
<1>9. ASSUME NEW s \in Texts, s # <<>>, percent_decode[cut[s]] \in Texts
      PROVE  percent_decode[s] \in Texts
    <2>1. percent_decode[s] = IF Escape(s) THEN Joined(hex_val(s[2], s[3]), percent_decode[cut[s]])
                              ELSE Joined(s[1], percent_decode[cut[s]])
        BY <1>7, <1>9 DEF Solves, Joined, cut
    <2>. QED BY <1>2, <1>9, <2>1
<1>10. \A s \in Texts : percent_decode[s] \in Texts
    BY <1>1, <1>8, <1>9, RecursionType
<1>. QED BY <1>7, <1>10 DEF Solves

(* A run of slashes is read from its last. *)
LEMMA CollapseEquation ==
    /\ collapse_slashes \in [Texts -> Texts]
    /\ \A s \in Texts : collapse_slashes[s] =
           IF s = <<>> THEN <<>>
           ELSE IF Slashes(s) THEN collapse_slashes[Tail(s)]
           ELSE <<s[1]>> \o collapse_slashes[Tail(s)]
<1>. DEFINE cut == [s \in Texts |-> IF s = <<>> THEN <<>> ELSE Tail(s)]
            B == [p \in Texts \X Texts |->
                      IF p[1] = <<>> THEN <<>>
                      ELSE IF Slashes(p[1]) THEN p[2]
                      ELSE Joined(p[1][1], p[2])]
            Solves(f) == f = [s \in Texts |->
                IF s = <<>> THEN <<>>
                ELSE IF Slashes(s) THEN f[Tail(s)]
                ELSE <<s[1]>> \o f[Tail(s)]]
<1>1. cut \in [Texts -> Texts] /\ \A s \in Texts : s # <<>> => Len(cut[s]) < Len(s)
    <2>1. ASSUME NEW s \in Texts, s # <<>>
          PROVE  cut[s] \in Texts /\ Len(cut[s]) < Len(s)
        BY <2>1, TextTail
    <2>. QED BY <2>1, EmptyText
<1>2. ASSUME NEW s \in Texts, NEW t \in Texts, s # <<>>
      PROVE  Joined(s[1], t) \in Texts
    BY <1>2, TextTail, JoinedType
<1>3. B \in [Texts \X Texts -> Texts] /\ <<>> \in Texts
    BY <1>2, EmptyText
<1>. HIDE DEF cut, B
<1>4. PICK f \in [Texts -> Texts] : \A s \in Texts : Follows(f, s, <<>>, cut, B)
    BY <1>1, <1>3, RecursionSolved
<1>5. ASSUME NEW s \in Texts
      PROVE  f[s] = IF s = <<>> THEN <<>>
                    ELSE IF Slashes(s) THEN f[Tail(s)]
                    ELSE <<s[1]>> \o f[Tail(s)]
    <2>1. CASE s = <<>>
        BY <1>4, <2>1 DEF Follows
    <2>2. CASE s # <<>>
        BY <1>1, <1>4, <2>2 DEF Follows, cut, B, Joined
    <2>. QED BY <2>1, <2>2
<1>6. Solves(f)
    BY <1>4, <1>5
<1>. HIDE DEF Solves
<1>7. Solves(collapse_slashes)
    BY <1>6 DEF collapse_slashes, Solves
<1>8. collapse_slashes[<<>>] \in Texts
    BY <1>3, <1>7, EmptyText DEF Solves
<1>9. ASSUME NEW s \in Texts, s # <<>>, collapse_slashes[cut[s]] \in Texts
      PROVE  collapse_slashes[s] \in Texts
    <2>1. collapse_slashes[s] = IF Slashes(s) THEN collapse_slashes[cut[s]]
                                ELSE Joined(s[1], collapse_slashes[cut[s]])
        BY <1>7, <1>9 DEF Solves, cut, Joined
    <2>. QED BY <1>2, <1>9, <2>1
<1>10. \A s \in Texts : collapse_slashes[s] \in Texts
    BY <1>1, <1>8, <1>9, RecursionType
<1>. QED BY <1>7, <1>10 DEF Solves

(* A "." segment is dropped where it is first found. *)
LEMMA DropEquation ==
    /\ drop_dots \in [Texts -> Texts]
    /\ \A s \in Texts : drop_dots[s] =
           IF s = <<>> THEN <<>>
           ELSE IF Dotted(s) THEN <<"/">> \o drop_dots[SubSeq(s, 4, Len(s))]
           ELSE <<s[1]>> \o drop_dots[Tail(s)]
<1>. DEFINE cut == [s \in Texts |-> IF s = <<>> THEN <<>>
                                     ELSE IF Dotted(s) THEN SubSeq(s, 4, Len(s)) ELSE Tail(s)]
            B == [p \in Texts \X Texts |->
                      IF p[1] = <<>> THEN <<>>
                      ELSE IF Dotted(p[1]) THEN Joined("/", p[2])
                      ELSE Joined(p[1][1], p[2])]
            Solves(f) == f = [s \in Texts |->
                IF s = <<>> THEN <<>>
                ELSE IF Dotted(s) THEN <<"/">> \o f[SubSeq(s, 4, Len(s))]
                ELSE <<s[1]>> \o f[Tail(s)]]
<1>1. cut \in [Texts -> Texts] /\ \A s \in Texts : s # <<>> => Len(cut[s]) < Len(s)
    <2>1. ASSUME NEW s \in Texts, s # <<>>
          PROVE  cut[s] \in Texts /\ Len(cut[s]) < Len(s)
        <3>1. CASE Dotted(s)
            <4>1. Len(s) > 2
                BY <3>1 DEF Dotted
            <4>. QED BY <2>1, <3>1, <4>1, TextSkip
        <3>2. CASE ~Dotted(s)
            BY <2>1, <3>2, TextTail
        <3>. QED BY <3>1, <3>2
    <2>. QED BY <2>1, EmptyText
<1>2. ASSUME NEW s \in Texts, NEW t \in Texts, s # <<>>
      PROVE  Joined("/", t) \in Texts /\ Joined(s[1], t) \in Texts
    BY <1>2, TextTail, JoinedType, CharactersAssumption
<1>3. B \in [Texts \X Texts -> Texts] /\ <<>> \in Texts
    BY <1>2, EmptyText
<1>. HIDE DEF cut, B
<1>4. PICK f \in [Texts -> Texts] : \A s \in Texts : Follows(f, s, <<>>, cut, B)
    BY <1>1, <1>3, RecursionSolved
<1>5. ASSUME NEW s \in Texts
      PROVE  f[s] = IF s = <<>> THEN <<>>
                    ELSE IF Dotted(s) THEN <<"/">> \o f[SubSeq(s, 4, Len(s))]
                    ELSE <<s[1]>> \o f[Tail(s)]
    <2>1. CASE s = <<>>
        BY <1>4, <2>1 DEF Follows
    <2>2. CASE s # <<>>
        BY <1>1, <1>4, <2>2 DEF Follows, cut, B, Joined
    <2>. QED BY <2>1, <2>2
<1>6. Solves(f)
    BY <1>4, <1>5
<1>. HIDE DEF Solves
<1>7. Solves(drop_dots)
    BY <1>6 DEF drop_dots, Solves
<1>8. drop_dots[<<>>] \in Texts
    BY <1>3, <1>7, EmptyText DEF Solves
<1>9. ASSUME NEW s \in Texts, s # <<>>, drop_dots[cut[s]] \in Texts
      PROVE  drop_dots[s] \in Texts
    <2>1. drop_dots[s] = IF Dotted(s) THEN Joined("/", drop_dots[cut[s]])
                         ELSE Joined(s[1], drop_dots[cut[s]])
        BY <1>7, <1>9 DEF Solves, cut, Joined
    <2>. QED BY <1>2, <1>9, <2>1
<1>10. \A s \in Texts : drop_dots[s] \in Texts
    BY <1>1, <1>8, <1>9, RecursionType
<1>. QED BY <1>7, <1>10 DEF Solves

-----------------------------------------------------------------------------
(* What an origin reads in a text.                                         *)

AllReadings == [segment : Texts, rest : Texts]

LEMMA ReadsType ==
    ASSUME NEW c \in Characters, NEW r \in AllReadings
    PROVE  /\ Reads(c, r) \in AllReadings
           /\ Past(r) \in Texts /\ Past(r) # <<>>
<1>1. r.segment \in Texts /\ r.rest \in Texts
    BY DEF AllReadings
<1>3. r.segment \o r.rest \in Texts
    BY <1>1 DEF Texts
<1>4. Joined("/", r.segment \o r.rest) \in Texts /\ Joined("/", r.segment \o r.rest) # <<>>
    BY <1>3, CharactersAssumption, JoinedType
<1>5. <<"/">> \in Texts /\ <<"/">> # <<>>
    BY CharactersAssumption DEF Texts
<1>6. Past(r) \in Texts /\ Past(r) # <<>>
    BY <1>1, <1>4, <1>5 DEF Past, Joined
<1>7. Joined(c, r.segment) \in Texts
    BY <1>1, JoinedType
<1>. QED BY <1>1, <1>6, <1>7, EmptyText DEF Reads, AllReadings, Joined

(* The reading of a text is made of that of its tail. *)
LEMMA ReadingEquation ==
    /\ Reading \in [Texts -> AllReadings]
    /\ \A s \in Texts : Reading[s] =
           IF s = <<>> THEN [segment |-> <<>>, rest |-> <<>>]
           ELSE Reads(s[1], Reading[Tail(s)])
<1>. DEFINE cut == [s \in Texts |-> IF s = <<>> THEN <<>> ELSE Tail(s)]
            B == [p \in Texts \X AllReadings |->
                      IF p[1] = <<>> THEN [segment |-> <<>>, rest |-> <<>>]
                      ELSE Reads(p[1][1], p[2])]
            Solves(f) == f = [s \in Texts |->
                IF s = <<>> THEN [segment |-> <<>>, rest |-> <<>>]
                ELSE Reads(s[1], f[Tail(s)])]
<1>1. cut \in [Texts -> Texts] /\ \A s \in Texts : s # <<>> => Len(cut[s]) < Len(s)
    <2>1. ASSUME NEW s \in Texts, s # <<>>
          PROVE  cut[s] \in Texts /\ Len(cut[s]) < Len(s)
        BY <2>1, TextTail
    <2>. QED BY <2>1, EmptyText
<1>2. ASSUME NEW s \in Texts, NEW r \in AllReadings, s # <<>>
      PROVE  Reads(s[1], r) \in AllReadings
    BY <1>2, TextTail, ReadsType
<1>3. /\ B \in [Texts \X AllReadings -> AllReadings]
      /\ [segment |-> <<>>, rest |-> <<>>] \in AllReadings
    BY <1>2, EmptyText DEF AllReadings
<1>. HIDE DEF cut, B
<1>4. PICK f \in [Texts -> AllReadings] : \A s \in Texts :
          Follows(f, s, [segment |-> <<>>, rest |-> <<>>], cut, B)
    BY <1>1, <1>3, RecursionSolved
<1>5. ASSUME NEW s \in Texts
      PROVE  f[s] = IF s = <<>> THEN [segment |-> <<>>, rest |-> <<>>]
                    ELSE Reads(s[1], f[Tail(s)])
    <2>1. CASE s = <<>>
        BY <1>4, <2>1 DEF Follows
    <2>2. CASE s # <<>>
        BY <1>1, <1>4, <2>2 DEF Follows, cut, B
    <2>. QED BY <2>1, <2>2
<1>6. Solves(f)
    BY <1>4, <1>5
<1>. HIDE DEF Solves
<1>7. Solves(Reading)
    BY <1>6 DEF Reading, Solves
<1>8. Reading[<<>>] \in AllReadings
    BY <1>3, <1>7, EmptyText DEF Solves
<1>9. ASSUME NEW s \in Texts, s # <<>>, Reading[cut[s]] \in AllReadings
      PROVE  Reading[s] \in AllReadings
    <2>1. Reading[s] = Reads(s[1], Reading[cut[s]])
        BY <1>7, <1>9 DEF Solves, cut
    <2>. QED BY <1>2, <1>9, <2>1
<1>10. \A s \in Texts : Reading[s] \in AllReadings
    BY <1>1, <1>8, <1>9, RecursionType
<1>. QED BY <1>7, <1>10 DEF Solves
LEMMA ReadingJoined ==
    ASSUME NEW c \in Characters, NEW t \in Texts
    PROVE  Reading[Joined(c, t)] = Reads(c, Reading[t])
    BY JoinedType, ReadingEquation

(* A second slash, and a "." between slashes, say nothing. *)
LEMMA SlashTwice ==
    ASSUME NEW r \in AllReadings
    PROVE  Reads("/", Reads("/", r)) = Reads("/", r)
<1>1. Past(r) # <<>>
    BY CharactersAssumption, ReadsType
<1>. QED BY <1>1 DEF Reads, Past, Nameless

LEMMA DotBetween ==
    ASSUME NEW r \in AllReadings
    PROVE  Reads("/", Reads(".", Reads("/", r))) = Reads("/", r)
<1>1. Past(r) # <<>>
    BY CharactersAssumption, ReadsType
<1>2. <<".">> \o <<>> = <<".">>
    OBVIOUS
<1>3. Reads(".", Reads("/", r)) = [segment |-> <<".">>, rest |-> Past(r)]
    BY <1>2 DEF Reads
<1>. QED BY <1>1, <1>3 DEF Reads, Past, Nameless

(* Neither pass changes what an origin reads. *)
LEMMA CollapseReadsSame == \A s \in Texts : Reading[collapse_slashes[s]] = Reading[s]
<1>. DEFINE S == {s \in Texts : Reading[collapse_slashes[s]] = Reading[s]}
<1>1. ASSUME NEW s \in Texts, \A t \in Texts : Len(t) < Len(s) => t \in S
      PROVE  s \in S
    <2>1. CASE s = <<>>
        BY <2>1, CollapseEquation
    <2>2. CASE s # <<>>
        <3>1. Tail(s) \in S /\ s[1] \in Characters
            <4>1. Tail(s) \in Texts /\ Len(Tail(s)) < Len(s) /\ s[1] \in Characters
                BY <2>2, TextTail
            <4>. QED BY <1>1, <4>1
        <3>2. Reading[s] = Reads(s[1], Reading[Tail(s)])
            BY <2>2, ReadingEquation
        <3>3. CASE Slashes(s)
            <4>1. s[1] = "/" /\ Tail(s) # <<>> /\ Tail(s)[1] = "/"
                BY <3>3, TextSecond DEF Slashes
            <4>2. Tail(Tail(s)) \in Texts
                BY <3>1, <4>1, TextTail
            <4>3. Reading[Tail(s)] = Reads("/", Reading[Tail(Tail(s))])
                BY <3>1, <4>1, ReadingEquation
            <4>4. Reading[s] = Reading[Tail(s)]
                BY <3>2, <4>1, <4>2, <4>3, ReadingEquation, SlashTwice
            <4>5. collapse_slashes[s] = collapse_slashes[Tail(s)]
                BY <2>2, <3>3, CollapseEquation
            <4>. QED BY <3>1, <4>4, <4>5
        <3>4. CASE ~Slashes(s)
            <4>1. collapse_slashes[s] = Joined(s[1], collapse_slashes[Tail(s)])
                BY <2>2, <3>4, CollapseEquation DEF Joined
            <4>2. collapse_slashes[Tail(s)] \in Texts
                BY <3>1, CollapseEquation
            <4>. QED BY <3>1, <3>2, <4>1, <4>2, ReadingJoined
        <3>. QED BY <3>3, <3>4
    <2>. QED BY <2>1, <2>2
<1>. HIDE DEF S
<1>2. \A s \in Texts : s \in S
    BY <1>1, InductionOverTexts
<1>. QED BY <1>2 DEF S

LEMMA DropReadsSame == \A s \in Texts : Reading[drop_dots[s]] = Reading[s]
<1>. DEFINE S == {s \in Texts : Reading[drop_dots[s]] = Reading[s]}
<1>1. ASSUME NEW s \in Texts, \A t \in Texts : Len(t) < Len(s) => t \in S
      PROVE  s \in S
    <2>1. CASE s = <<>>
        BY <2>1, DropEquation
    <2>2. CASE s # <<>>
        <3>1. Tail(s) \in Texts /\ Len(Tail(s)) < Len(s) /\ s[1] \in Characters
            BY <2>2, TextTail
        <3>2. Reading[s] = Reads(s[1], Reading[Tail(s)])
            BY <2>2, ReadingEquation
        <3>3. CASE Dotted(s)
            <4>. DEFINE u == SubSeq(s, 4, Len(s))
            <4>1. u \in Texts /\ Len(u) < Len(s) /\ u = Tail(Tail(Tail(s)))
                BY <3>3, TextSkip DEF Dotted
            <4>2. /\ s[1] = "/" /\ Tail(s) # <<>> /\ Tail(s)[1] = "."
                  /\ Len(Tail(s)) > 1 /\ Tail(s)[2] = "/"
                BY <3>3, TextSecond DEF Dotted
            <4>3. Tail(Tail(s)) \in Texts /\ Tail(Tail(s)) # <<>> /\ Tail(Tail(s))[1] = "/"
                BY <3>1, <4>2, TextSecond
            <4>4. Reading[Tail(Tail(s))] = Reads("/", Reading[u])
                BY <4>1, <4>3, ReadingEquation
            <4>5. Reading[Tail(s)] = Reads(".", Reading[Tail(Tail(s))])
                BY <3>1, <4>2, ReadingEquation
            <4>6. Reading[s] = Reads("/", Reading[u])
                BY <3>2, <4>1, <4>2, <4>4, <4>5, ReadingEquation, DotBetween
            <4>7. drop_dots[s] = Joined("/", drop_dots[u])
                BY <2>2, <3>3, DropEquation DEF Joined
            <4>8. drop_dots[u] \in Texts /\ u \in S
                BY <1>1, <4>1, DropEquation
            <4>. HIDE DEF u
            <4>9. Reading[drop_dots[s]] = Reads("/", Reading[drop_dots[u]])
                BY <4>7, <4>8, ReadingJoined, CharactersAssumption
            <4>. QED BY <4>6, <4>8, <4>9
        <3>4. CASE ~Dotted(s)
            <4>1. drop_dots[s] = Joined(s[1], drop_dots[Tail(s)])
                BY <2>2, <3>4, DropEquation DEF Joined
            <4>2. drop_dots[Tail(s)] \in Texts
                BY <3>1, DropEquation
            <4>3. Tail(s) \in S
                BY <1>1, <3>1
            <4>. QED BY <3>1, <3>2, <4>1, <4>2, <4>3, ReadingJoined
        <3>. QED BY <3>3, <3>4
    <2>. QED BY <2>1, <2>2
<1>. HIDE DEF S
<1>2. \A s \in Texts : s \in S
    BY <1>1, InductionOverTexts
<1>. QED BY <1>2 DEF S
-----------------------------------------------------------------------------
(* A pass that changes nothing has found nothing to change.                *)

LEMMA TextLength == \A s \in Texts : Len(s) \in Nat
    BY DEF Texts

LEMMA CollapseType == \A s \in Texts : collapse_slashes[s] \in Texts
    BY CollapseEquation

LEMMA DropType == \A s \in Texts : drop_dots[s] \in Texts
    BY DropEquation

LEMMA CollapseShrinks ==
    \A s \in Texts : /\ Len(collapse_slashes[s]) <= Len(s)
                     /\ Len(collapse_slashes[s]) = Len(s) => collapse_slashes[s] = s
<1>. DEFINE Shrinks(s) == /\ Len(collapse_slashes[s]) <= Len(s)
                          /\ Len(collapse_slashes[s]) = Len(s) => collapse_slashes[s] = s
            S == {s \in Texts : Shrinks(s)}
<1>1. ASSUME NEW s \in Texts, \A t \in Texts : Len(t) < Len(s) => t \in S
      PROVE  s \in S
    <2>1. CASE s = <<>>
        <3>1. collapse_slashes[s] = s
            BY <2>1, CollapseEquation
        <3>2. Len(s) \in Nat
            BY TextLength
        <3>3. Len(s) <= Len(s)
            BY <3>2
        <3>. QED BY <3>1, <3>3
    <2>2. CASE s # <<>>
        <3>. DEFINE t == Tail(s)
                    u == collapse_slashes[t]
        <3>1. /\ t \in Texts /\ s[1] \in Characters /\ Len(s) \in Nat /\ Len(t) = Len(s) - 1
              /\ s = Joined(s[1], t)
            BY <2>2, TextRest DEF Joined
        <3>2. u \in Texts /\ Len(u) \in Nat
            BY <3>1, CollapseType, TextLength
        <3>3. Len(u) <= Len(t) /\ (Len(u) = Len(t) => u = t)
            <4>1. t \in Texts /\ Len(t) < Len(s)
                BY <2>2, TextTail
            <4>2. t \in S
                BY <1>1, <4>1
            <4>. QED BY <4>2
        <3>4. CASE Slashes(s)
            <4>1. collapse_slashes[s] = u
                BY <2>2, <3>4, CollapseEquation
            <4>. HIDE DEF t, u
            <4>2. Len(u) < Len(s)
                BY <3>1, <3>2, <3>3
            <4>. QED BY <3>1, <3>2, <4>1, <4>2
        <3>5. CASE ~Slashes(s)
            <4>1. collapse_slashes[s] = Joined(s[1], u)
                BY <2>2, <3>5, CollapseEquation DEF Joined
            <4>. HIDE DEF t, u
            <4>2. Len(Joined(s[1], u)) = Len(u) + 1
                BY <3>1, <3>2, JoinedType
            <4>3. Len(u) + 1 <= Len(s) /\ (Len(u) + 1 = Len(s) => u = t)
                BY <3>1, <3>2, <3>3
            <4>. QED BY <3>1, <4>1, <4>2, <4>3
        <3>. QED BY <3>4, <3>5
    <2>. QED BY <2>1, <2>2
<1>. HIDE DEF S
<1>2. \A s \in Texts : s \in S
    BY <1>1, InductionOverTexts
<1>. QED BY <1>2 DEF S

LEMMA DropShrinks ==
    \A s \in Texts : /\ Len(drop_dots[s]) <= Len(s)
                     /\ Len(drop_dots[s]) = Len(s) => drop_dots[s] = s
<1>. DEFINE Shrinks(s) == /\ Len(drop_dots[s]) <= Len(s)
                          /\ Len(drop_dots[s]) = Len(s) => drop_dots[s] = s
            S == {s \in Texts : Shrinks(s)}
<1>1. ASSUME NEW s \in Texts, \A t \in Texts : Len(t) < Len(s) => t \in S
      PROVE  s \in S
    <2>1. CASE s = <<>>
        <3>1. drop_dots[s] = s
            BY <2>1, DropEquation
        <3>2. Len(s) \in Nat
            BY TextLength
        <3>3. Len(s) <= Len(s)
            BY <3>2
        <3>. QED BY <3>1, <3>3
    <2>2. CASE s # <<>>
        <3>1. Len(s) \in Nat
            BY <2>2, TextTail
        <3>2. CASE Dotted(s)
            <4>. DEFINE t == SubSeq(s, 4, Len(s))
                        u == drop_dots[t]
            <4>1. t \in Texts /\ Len(t) = Len(s) - 3 /\ Len(t) < Len(s)
                BY <2>2, <3>2, TextRest, TextSkip DEF Dotted
            <4>2. drop_dots[s] = Joined("/", u)
                BY <2>2, <3>2, DropEquation DEF Joined
            <4>3. u \in Texts /\ Len(u) \in Nat
                BY <4>1, DropType, TextLength
            <4>4. Len(u) <= Len(t)
                BY <1>1, <4>1
            <4>. HIDE DEF t, u
            <4>5. Len(drop_dots[s]) = Len(u) + 1
                BY <4>2, <4>3, JoinedType, CharactersAssumption
            <4>6. Len(u) + 1 < Len(s)
                BY <3>1, <4>1, <4>3, <4>4
            <4>. QED BY <3>1, <4>3, <4>5, <4>6
        <3>3. CASE ~Dotted(s)
            <4>. DEFINE t == Tail(s)
                        u == drop_dots[t]
            <4>1. /\ t \in Texts /\ s[1] \in Characters /\ Len(t) = Len(s) - 1
                  /\ s = Joined(s[1], t)
                BY <2>2, TextRest DEF Joined
            <4>2. drop_dots[s] = Joined(s[1], u)
                BY <2>2, <3>3, DropEquation DEF Joined
            <4>3. u \in Texts /\ Len(u) \in Nat
                BY <4>1, DropType, TextLength
            <4>4. Len(u) <= Len(t) /\ (Len(u) = Len(t) => u = t)
                <5>1. t \in Texts /\ Len(t) < Len(s)
                    BY <2>2, TextTail
                <5>2. t \in S
                    BY <1>1, <5>1
                <5>. QED BY <5>2
            <4>. HIDE DEF t, u
            <4>5. Len(Joined(s[1], u)) = Len(u) + 1
                BY <4>1, <4>3, JoinedType
            <4>6. Len(u) + 1 <= Len(s) /\ (Len(u) + 1 = Len(s) => u = t)
                BY <3>1, <4>1, <4>3, <4>4
            <4>. QED BY <4>1, <4>2, <4>5, <4>6
        <3>. QED BY <3>2, <3>3
    <2>. QED BY <2>1, <2>2
<1>. HIDE DEF S
<1>2. \A s \in Texts : s \in S
    BY <1>1, InductionOverTexts
<1>. QED BY <1>2 DEF S

(* A text neither pass changes. *)
Plain(s) == s \in Texts /\ collapse_slashes[s] = s /\ drop_dots[s] = s

LEMMA PlainTail ==
    ASSUME NEW s, Plain(s), s # <<>>
    PROVE  ~Slashes(s) /\ ~Dotted(s) /\ Plain(Tail(s))
<1>. DEFINE t == Tail(s)
<1>1. /\ s \in Texts /\ t \in Texts /\ Len(s) \in Nat /\ Len(t) = Len(s) - 1
      /\ s[1] \in Characters
    BY TextTail DEF Plain
<1>2. ASSUME Slashes(s)
      PROVE  FALSE
    <2>1. s = collapse_slashes[t]
        BY <1>1, <1>2, CollapseEquation DEF Plain
    <2>2. Len(collapse_slashes[t]) <= Len(t)
        BY <1>1, CollapseShrinks
    <2>. QED BY <1>1, <2>1, <2>2
<1>3. collapse_slashes[t] = t
    <2>1. s = Joined(s[1], collapse_slashes[t])
        BY <1>1, <1>2, CollapseEquation DEF Plain, Joined
    <2>2. collapse_slashes[t] \in Texts
        BY <1>1, CollapseType
    <2>3. Tail(Joined(s[1], collapse_slashes[t])) = collapse_slashes[t]
        BY <1>1, <2>2, JoinedType
    <2>. QED BY <2>1, <2>3
<1>4. ASSUME Dotted(s)
      PROVE  FALSE
    <2>. DEFINE u == SubSeq(s, 4, Len(s))
    <2>1. s = Joined("/", drop_dots[u])
        BY <1>1, <1>4, DropEquation DEF Plain, Joined
    <2>2. u \in Texts /\ Len(u) = Len(s) - 3
        BY <1>1, <1>4, TextRest DEF Dotted
    <2>3. drop_dots[u] \in Texts /\ Len(drop_dots[u]) <= Len(u)
        BY <2>2, DropEquation, DropShrinks
    <2>. HIDE DEF u
    <2>4. Len(Joined("/", drop_dots[u])) = Len(drop_dots[u]) + 1
        BY <2>3, JoinedType, CharactersAssumption
    <2>5. Len(s) = Len(drop_dots[u]) + 1 /\ Len(drop_dots[u]) \in Nat
        BY <2>1, <2>3, <2>4, TextLength
    <2>. QED BY <1>1, <2>2, <2>3, <2>5
<1>5. drop_dots[t] = t
    <2>1. s = Joined(s[1], drop_dots[t])
        BY <1>1, <1>4, DropEquation DEF Plain, Joined
    <2>2. drop_dots[t] \in Texts
        BY <1>1, DropType
    <2>3. Tail(Joined(s[1], drop_dots[t])) = drop_dots[t]
        BY <1>1, <2>2, JoinedType
    <2>. QED BY <2>1, <2>3
<1>. QED BY <1>1, <1>2, <1>3, <1>4, <1>5 DEF Plain

(* The loop of normalized_path ends on such a text. *)
LEMMA StablePlain ==
    ASSUME NEW s \in Texts, drop_dots[collapse_slashes[s]] = s
    PROVE  Plain(s)
<1>. DEFINE t == collapse_slashes[s]
<1>1. t \in Texts /\ Len(t) \in Nat /\ Len(s) \in Nat
    BY CollapseEquation DEF Texts
<1>2. Len(t) <= Len(s) /\ (Len(t) = Len(s) => t = s)
    BY CollapseShrinks
<1>3. Len(s) <= Len(t)
    BY <1>1, DropShrinks
<1>. HIDE DEF t
<1>4. t = s
    BY <1>1, <1>2, <1>3
<1>. QED BY <1>4 DEF Plain, t
-----------------------------------------------------------------------------
(* A text that neither pass changes is in the canonical form, but for a    *)
(* "/." at its end.                                                        *)

LEMMA TextOfOne ==
    ASSUME NEW s \in Texts, Len(s) = 1
    PROVE  s = <<s[1]>>
    BY DEF Texts

LEMMA StripFinalDot == strip_suffix(<<"/", ".">>) = <<"/">>
<1>. DEFINE s == <<"/", ".">>
            u == SubSeq(s, 1, 1)
<1>1. s \in Texts /\ Len(s) = 2 /\ s[1] = "/" /\ s[2] = "."
    BY CharactersAssumption DEF Texts
<1>. HIDE DEF s
<1>2. u \in Texts /\ Len(u) = 1 /\ u[1] = s[1]
    BY <1>1 DEF Texts
<1>. HIDE DEF u
<1>3. u = <<"/">>
    BY <1>1, <1>2, TextOfOne
<1>4. Len(s) - 1 = 1
    BY <1>1
<1>5. strip_suffix(s) = SubSeq(s, 1, 1)
    BY <1>1, <1>4 DEF strip_suffix, Front
<1>. QED BY <1>3, <1>5 DEF s, u

LEMMA StripJoined ==
    ASSUME NEW c \in Characters, NEW t \in Texts, ~(c = "/" /\ t = <<".">>)
    PROVE  strip_suffix(Joined(c, t)) = Joined(c, strip_suffix(t))
<1>. DEFINE s == Joined(c, t)
<1>1. /\ s \in Texts /\ Len(t) \in Nat /\ Len(s) = Len(t) + 1 /\ s[1] = c
      /\ \A j \in 1 .. Len(t) : s[j + 1] = t[j]
    BY JoinedType, TextLength
<1>. HIDE DEF s
<1>2. CASE Len(t) = 0
    BY <1>1, <1>2 DEF strip_suffix, s
<1>3. CASE Len(t) = 1
    <2>1. t = <<t[1]>>
        BY <1>3, TextOfOne
    <2>2. ~(c = "/" /\ t[1] = ".")
        BY <2>1
    <2>3. Len(s) = 2 /\ s[2] = t[1] /\ s[1] = c /\ Len(s) - 1 = 1
        BY <1>1, <1>3
    <2>4. strip_suffix(s) = s
        BY <2>2, <2>3 DEF strip_suffix
    <2>5. strip_suffix(t) = t
        BY <1>3 DEF strip_suffix
    <2>. QED BY <2>4, <2>5 DEF s
<1>4. CASE Len(t) > 1
    <2>1. s[Len(s)] = t[Len(t)] /\ s[Len(s) - 1] = t[Len(t) - 1] /\ Len(s) > 1
        <3>1. Len(t) \in 1 .. Len(t) /\ Len(t) - 1 \in 1 .. Len(t)
              /\ (Len(t) - 1) + 1 = Len(s) - 1
            BY <1>1, <1>4
        <3>. QED BY <1>1, <3>1
    <2>2. CASE t[Len(t) - 1] = "/" /\ t[Len(t)] = "."
        <3>. DEFINE u == Front(t)
                    v == Front(s)
                    w == Joined(c, u)
        <3>1. /\ u \in Texts /\ Len(u) = Len(t) - 1
              /\ \A j \in 1 .. Len(t) - 1 : u[j] = t[j]
            BY <1>1, <1>4 DEF Front, Texts
        <3>2. /\ v \in Texts /\ Len(v) = Len(t)
              /\ \A j \in 1 .. Len(t) : v[j] = s[j]
            BY <1>1, <1>4 DEF Front, Texts
        <3>. HIDE DEF u, v
        <3>3. /\ w \in Texts /\ Len(w) = Len(u) + 1 /\ w[1] = c
              /\ \A j \in 1 .. Len(u) : w[j + 1] = u[j]
            BY <3>1, JoinedType
        <3>. HIDE DEF w
        <3>4. ASSUME NEW j \in 1 .. Len(t)
              PROVE  v[j] = w[j]
            <4>1. CASE j = 1
                BY <1>1, <3>2, <3>3, <4>1
            <4>2. CASE j # 1
                <5>1. j - 1 \in 1 .. Len(u) /\ j - 1 \in 1 .. Len(t) - 1 /\ j - 1 \in 1 .. Len(t)
                      /\ (j - 1) + 1 = j
                    BY <1>1, <3>1, <4>2
                <5>2. w[j] = u[j - 1] /\ u[j - 1] = t[j - 1] /\ s[j] = t[j - 1]
                    BY <1>1, <3>1, <3>3, <5>1
                <5>. QED BY <3>2, <5>2
            <4>. QED BY <4>1, <4>2
        <3>5. Len(v) = Len(w)
            BY <1>1, <3>1, <3>2, <3>3
        <3>6. v = w
            BY <3>2, <3>3, <3>4, <3>5, SeqEqual DEF Texts
        <3>7. strip_suffix(s) = v /\ strip_suffix(t) = u
            BY <1>4, <2>1, <2>2 DEF strip_suffix, u, v
        <3>. QED BY <3>6, <3>7 DEF w, s
    <2>3. CASE ~(t[Len(t) - 1] = "/" /\ t[Len(t)] = ".")
        <3>1. strip_suffix(s) = s /\ strip_suffix(t) = t
            BY <2>1, <2>3 DEF strip_suffix
        <3>. QED BY <3>1 DEF s
    <2>. QED BY <2>2, <2>3
<1>5. Len(t) \in Nat
    BY TextLength
<1>6. Len(t) = 0 \/ Len(t) = 1 \/ Len(t) > 1
    BY <1>5
<1>. QED BY <1>2, <1>3, <1>4, <1>6 DEF s

(* The segment a text begins in has no name only if it is at its end or    *)
(* before a slash.                                                         *)
LEMMA FirstSegment ==
    ASSUME NEW s \in Texts
    PROVE  /\ Reading[s].segment = <<>> => s = <<>> \/ s[1] = "/"
           /\ Reading[s].segment = <<".">> =>
                  s # <<>> /\ s[1] = "." /\ (Tail(s) = <<>> \/ Tail(s)[1] = "/")
<1>1. CASE s = <<>>
    <2>1. Reading[s].segment = <<>>
        BY <1>1, ReadingEquation
    <2>. QED BY <1>1, <2>1
<1>2. CASE s # <<>>
    <2>. DEFINE t == Tail(s)
                seg == Reading[t].segment
    <2>1. t \in Texts /\ s[1] \in Characters
        BY <1>2, TextTail
    <2>2. Reading[s] = Reads(s[1], Reading[t]) /\ seg \in Texts
        BY <1>2, <2>1, ReadingEquation DEF AllReadings
    <2>3. CASE s[1] = "/"
        BY <2>2, <2>3 DEF Reads
    <2>4. CASE s[1] # "/"
        <3>1. Reading[s].segment = Joined(s[1], seg)
            BY <2>2, <2>4 DEF Reads, Joined
        <3>. HIDE DEF t, seg
        <3>2. /\ Joined(s[1], seg) # <<>> /\ Joined(s[1], seg)[1] = s[1]
              /\ Len(Joined(s[1], seg)) = Len(seg) + 1
            BY <2>1, <2>2, JoinedType
        <3>3. Joined(s[1], seg) = <<".">> => s[1] = "." /\ seg = <<>>
            <4>1. Len(seg) \in Nat /\ (Len(seg) = 0 => seg = <<>>)
                BY <2>2 DEF Texts
            <4>. QED BY <3>2, <4>1
        <3>4. seg = <<>> => t = <<>> \/ t[1] = "/"
            <4>1. CASE t = <<>>
                BY <4>1
            <4>2. CASE t # <<>> /\ t[1] # "/"
                <5>1. Reading[t] = Reads(t[1], Reading[Tail(t)]) /\ Tail(t) \in Texts
                      /\ t[1] \in Characters
                    BY <2>1, <4>2, ReadingEquation, TextTail
                <5>2. seg = Joined(t[1], Reading[Tail(t)].segment)
                    BY <4>2, <5>1 DEF Reads, Joined, seg
                <5>3. Reading[Tail(t)].segment \in Texts
                    BY <5>1, ReadingEquation DEF AllReadings
                <5>. QED BY <5>1, <5>2, <5>3, JoinedType
            <4>. QED BY <4>1, <4>2
        <3>. QED BY <1>2, <3>1, <3>2, <3>3, <3>4 DEF t
    <2>. QED BY <2>3, <2>4
<1>. QED BY <1>1, <1>2
LEMMA JoinedSmall ==
    /\ \A c \in Characters : Joined(c, <<>>) = <<c>>
    /\ Joined("/", <<".">>) = <<"/", ".">>
<1>1. \A c \in Characters : <<c>> \o <<>> = <<c>>
    OBVIOUS
<1>2. <<"/">> \o <<".">> = <<"/", ".">>
    <2>. DEFINE s == <<"/">> \o <<".">>
                t == <<"/", ".">>
    <2>1. <<"/">> \in Texts /\ <<".">> \in Texts
        BY CharactersAssumption DEF Texts
    <2>2. s \in Texts /\ Len(s) = 2 /\ s[1] = "/" /\ s[2] = "."
        BY <2>1 DEF Texts
    <2>3. t \in Texts /\ Len(t) = 2 /\ t[1] = "/" /\ t[2] = "."
        BY CharactersAssumption DEF Texts
    <2>. HIDE DEF s, t
    <2>4. \A j \in 1 .. 2 : s[j] = t[j]
        BY <2>2, <2>3
    <2>5. s = t
        BY <2>2, <2>3, <2>4, SeqEqual DEF Texts
    <2>. QED BY <2>5 DEF s, t
<1>. QED BY <1>1, <1>2 DEF Joined

LEMMA JoinedConcat ==
    ASSUME NEW c \in Characters, NEW s \in Texts, NEW t \in Texts
    PROVE  Joined(c, s) \o t = Joined(c, s \o t)
<1>. DEFINE one == <<c>>
<1>1. one \in Seq(Characters)
    OBVIOUS
<1>2. s \in Seq(Characters) /\ t \in Seq(Characters)
    BY DEF Texts
<1>. HIDE DEF one
<1>3. (one \o s) \o t = one \o (s \o t)
    BY <1>1, <1>2, ConcatAssociative
<1>. QED BY <1>3 DEF Joined, one

LEMMA EmptyReading == Reading[<<>>] = [segment |-> <<>>, rest |-> <<>>]
    BY EmptyText, ReadingEquation

LEMMA DotReading == Reading[<<".">>] = [segment |-> <<".">>, rest |-> <<>>]
<1>1. <<".">> = Joined(".", <<>>) /\ "." \in Characters
    BY CharactersAssumption, JoinedSmall
<1>2. Reading[<<".">>] = Reads(".", Reading[<<>>])
    BY <1>1, EmptyText, ReadingJoined
<1>3. Reads(".", [segment |-> <<>>, rest |-> <<>>]) = [segment |-> Joined(".", <<>>), rest |-> <<>>]
    BY DEF Reads, Joined
<1>. QED BY <1>1, <1>2, <1>3, EmptyReading

LEMMA PlainCanonical == \A s \in Texts : Plain(s) => strip_suffix(s) = Canonical(s)
<1>. DEFINE S == {s \in Texts : Plain(s) => strip_suffix(s) = Canonical(s)}
<1>1. ASSUME NEW s \in Texts, \A t \in Texts : Len(t) < Len(s) => t \in S
      PROVE  s \in S
    <2>1. CASE s = <<>>
        <3>1. strip_suffix(s) = <<>> /\ Canonical(s) = <<>> \o <<>>
            BY <2>1, ReadingEquation DEF Canonical, strip_suffix
        <3>. QED BY <3>1
    <2>2. CASE s # <<>>
        <3>. DEFINE t == Tail(s)
                    r == Reading[t]
        <3>1. /\ t \in Texts /\ s[1] \in Characters /\ s = Joined(s[1], t)
              /\ r.segment \in Texts /\ r.rest \in Texts
            <4>1. t \in Texts /\ s[1] \in Characters /\ s = Joined(s[1], t)
                BY <2>2, TextRest DEF Joined
            <4>. QED BY <4>1, ReadingEquation DEF AllReadings
        <3>2. t \in S
            <4>1. t \in Texts /\ Len(t) < Len(s)
                BY <2>2, TextTail
            <4>. QED BY <1>1, <4>1
        <3>3. SUFFICES ASSUME Plain(s) PROVE strip_suffix(s) = Canonical(s)
            OBVIOUS
        <3>4. ~Slashes(s) /\ ~Dotted(s) /\ Plain(t)
            BY <2>2, <3>3, PlainTail
        <3>5. strip_suffix(t) = r.segment \o r.rest
            BY <3>2, <3>4 DEF Canonical
        <3>6. Reading[s] = Reads(s[1], r)
            BY <2>2, ReadingEquation
        <3>7. CASE s[1] # "/"
            <4>1. strip_suffix(s) = Joined(s[1], strip_suffix(t))
                BY <3>1, <3>7, StripJoined
            <4>2. Reading[s] = [segment |-> Joined(s[1], r.segment), rest |-> r.rest]
                BY <3>6, <3>7 DEF Reads, Joined
            <4>3. Canonical(s) = Joined(s[1], r.segment) \o r.rest
                <5>1. Reading[s].segment = Joined(s[1], r.segment) /\ Reading[s].rest = r.rest
                    BY <4>2
                <5>. QED BY <5>1, Zenon DEF Canonical
            <4>4. Canonical(s) = Joined(s[1], r.segment \o r.rest)
                BY <3>1, <4>3, JoinedConcat
            <4>. QED BY <3>5, <4>1, <4>4
        <3>8. CASE s[1] = "/"
            <4>1. Canonical(s) = Past(r)
                <5>1. Canonical(s) = <<>> \o Past(r)
                    BY <3>6, <3>8 DEF Canonical, Reads
                <5>2. Past(r) \in Texts
                    BY <3>1, ReadingEquation, ReadsType
                <5>. QED BY <5>1, <5>2 DEF Texts
            <4>2. CASE t = <<>>
                <5>0. r = [segment |-> <<>>, rest |-> <<>>]
                    BY <4>2, EmptyReading
                <5>1. Past(r) = <<"/">>
                    <6>. HIDE DEF r
                    <6>. QED BY <5>0 DEF Past, Nameless
                <5>2. s = <<"/">>
                    BY <3>1, <3>8, <4>2, JoinedSmall
                <5>3. strip_suffix(<<"/">>) = <<"/">>
                    BY DEF strip_suffix
                <5>. QED BY <4>1, <5>1, <5>2, <5>3
            <4>3. CASE t = <<".">>
                <5>1. s = <<"/", ".">>
                    BY <3>1, <3>8, <4>3, JoinedSmall
                <5>0. r = [segment |-> <<".">>, rest |-> <<>>]
                    BY <4>3, DotReading
                <5>2. Past(r) = <<"/">>
                    <6>. HIDE DEF r
                    <6>. QED BY <5>0 DEF Past, Nameless
                <5>. QED BY <4>1, <5>1, <5>2, StripFinalDot
            <4>4. CASE t # <<>> /\ t # <<".">>
                <5>1. t[1] # "/"
                    <6>1. Len(s) > 1 /\ s[2] = t[1]
                        <7>1. /\ Len(s) \in Nat /\ Len(t) = Len(s) - 1 /\ Len(t) > 0
                              /\ \A j \in 1 .. Len(s) - 1 : t[j] = s[j + 1]
                            BY <2>2, <3>1, <4>4, TextTail
                        <7>. HIDE DEF t
                        <7>2. Len(s) > 1 /\ t[1] = s[1 + 1]
                            BY <7>1
                        <7>. QED BY <7>2
                    <6>. QED BY <3>4, <3>8, <6>1 DEF Slashes
                <5>2. r.segment # <<>>
                    BY <3>1, <4>4, <5>1, FirstSegment
                <5>3. ASSUME r.segment = <<".">>
                      PROVE  FALSE
                    <6>1. t[1] = "." /\ (Tail(t) = <<>> \/ Tail(t)[1] = "/")
                        BY <3>1, <5>3, FirstSegment
                    <6>2. Tail(t) # <<>>
                        <7>1. t = Joined(t[1], Tail(t))
                            BY <3>1, <4>4, TextRest DEF Joined
                        <7>2. ASSUME Tail(t) = <<>>
                              PROVE  FALSE
                            <8>1. t = <<".">> \o <<>>
                                BY <6>1, <7>1, <7>2 DEF Joined
                            <8>. QED BY <4>4, <8>1
                        <7>. QED BY <7>2
                    <6>3. Len(s) > 2 /\ s[2] = t[1] /\ s[3] = Tail(t)[1]
                        <7>1. /\ Len(s) \in Nat /\ Len(t) = Len(s) - 1
                              /\ \A j \in 1 .. Len(s) - 1 : t[j] = s[j + 1]
                            BY <2>2, TextTail
                        <7>2. /\ Tail(t) \in Texts /\ Len(t) \in Nat /\ Len(Tail(t)) = Len(t) - 1
                              /\ \A j \in 1 .. Len(t) - 1 : Tail(t)[j] = t[j + 1]
                            BY <3>1, <4>4, TextTail
                        <7>3. Len(Tail(t)) > 0
                            BY <6>2, <7>2, TextTail
                        <7>. HIDE DEF t
                        <7>4. Len(s) > 2 /\ t[1] = s[1 + 1] /\ Tail(t)[1] = t[1 + 1] /\ t[2] = s[2 + 1]
                            BY <7>1, <7>2, <7>3
                        <7>5. 1 + 1 = 2 /\ 2 + 1 = 3
                            OBVIOUS
                        <7>. QED BY <7>4, <7>5
                    <6>. QED BY <3>4, <3>8, <6>1, <6>2, <6>3 DEF Dotted
                <5>4. Canonical(s) = <<"/">> \o (r.segment \o r.rest)
                    BY <4>1, <5>2, <5>3 DEF Past, Nameless
                <5>5. strip_suffix(s) = Joined(s[1], strip_suffix(t))
                    BY <3>1, <4>4, StripJoined
                <5>. QED BY <3>5, <3>8, <5>4, <5>5 DEF Joined
            <4>. QED BY <4>2, <4>3, <4>4
        <3>. QED BY <3>7, <3>8
    <2>. QED BY <2>1, <2>2
<1>. HIDE DEF S
<1>2. \A s \in Texts : s \in S
    BY <1>1, InductionOverTexts
<1>. QED BY <1>2 DEF S

-----------------------------------------------------------------------------
(* normalized_path.                                                        *)

(* What an origin reads in the text never changes once it is decoded. *)
PathsInv ==
    /\ path \in Texts
    /\ stage = "raw" => text = path
    /\ stage = "loop" => text \in Texts /\ Canonical(text) = Canonical(percent_decode[path])
    /\ PathsCanonical

LEMMA PathsInvInit ==
    ASSUME NEW given, given \subseteq Texts, PathInit(given)
    PROVE  PathsInv
    BY DEF PathInit, PathsInv, PathsCanonical

LEMMA PathsInvNext ==
    ASSUME PathsInv, [normalized_path]_pathVars
    PROVE  PathsInv'
<1>1. CASE UNCHANGED pathVars
    BY <1>1 DEF pathVars, PathsInv, PathsCanonical
<1>2. CASE Decode
    <2>1. stage = "raw" /\ text' = percent_decode[path] /\ stage' = "loop" /\ path' = path
        BY <1>2 DEF Decode, PathsInv
    <2>2. percent_decode[path] \in Texts
        BY DecodeType DEF PathsInv
    <2>. QED BY <2>1, <2>2 DEF PathsInv, PathsCanonical
<1>3. CASE Simplify
    <2>. DEFINE after == drop_dots[collapse_slashes[text]]
    <2>1. /\ text \in Texts /\ Canonical(text) = Canonical(percent_decode[path])
          /\ path' = path /\ stage = "loop"
        BY <1>3 DEF Simplify, PathsInv
    <2>2. after \in Texts /\ Canonical(after) = Canonical(text)
        <3>1. collapse_slashes[text] \in Texts
            BY <2>1, CollapseType
        <3>2. after \in Texts /\ Reading[after] = Reading[text]
            BY <2>1, <3>1, DropType, CollapseReadsSame, DropReadsSame
        <3>. QED BY <3>2 DEF Canonical
    <2>3. CASE text' = after /\ stage' = stage
        BY <2>1, <2>2, <2>3 DEF PathsInv, PathsCanonical
    <2>4. CASE text = after /\ text' = strip_suffix(after) /\ stage' = "normal"
        <3>1. strip_suffix(text) = Canonical(text)
            BY <2>1, <2>4, StablePlain, PlainCanonical
        <3>. QED BY <2>1, <2>4, <3>1 DEF PathsInv, PathsCanonical
    <2>. QED BY <1>3, <2>3, <2>4 DEF Simplify, Stable
<1>. QED BY <1>1, <1>2, <1>3 DEF normalized_path

(* normalized_path, "a stacked form such as /././checkout or /.//checkout  *)
(* cannot survive": whatever text a viewer sends, of any length, what the  *)
(* rules are matched against is the one form of what an origin reads in it *)
(* decoded.                                                                *)
THEOREM PathsCanonicalCorrect ==
    ASSUME NEW CONSTANT given, given \subseteq Texts
    PROVE  PathInit(given) /\ [][normalized_path]_pathVars => []PathsCanonical
<1>1. PathInit(given) => PathsInv
    BY PathsInvInit
<1>2. PathsInv /\ [normalized_path]_pathVars => PathsInv'
    BY PathsInvNext
<1>3. PathsInv => PathsCanonical
    BY DEF PathsInv
<1>. QED BY <1>1, <1>2, <1>3, PTL
=============================================================================
