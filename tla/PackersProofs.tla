--------------------------- MODULE PackersProofs ---------------------------
(***************************************************************************)
(* Proofs about Packers, for any users, names, letters and scenes that     *)
(* satisfy PackersAssumption.                                              *)
(*                                                                         *)
(* The inductive invariant, Safe, says                                     *)
(*   - of every state, the types (Base) and that a command writes what it  *)
(*     has made of what it has read (Coded), of all of it unless           *)
(*     something was too large (Sized);                                    *)
(*   - of commands one at a time, that what a command has in hand is what  *)
(*     is in the directory (InTurn), and, where none forces anything, that *)
(*     what is dear is in a file that none is writing (KeptInTurn);        *)
(*   - of commands at the same time, apart, that what has been removed is  *)
(*     made by someone, and that whoever opened a file last makes it whole *)
(*     (Together).                                                         *)
(* The first part is about the formats, and about joining streams.         *)
(***************************************************************************)
EXTENDS Packers, SequenceTheorems, NaturalsInduction, WellFoundedInduction, TLAPS

----------------------------------------------------------------------------
(***************************************************************************)
(* The formats.  Streams that are joined are joined by a recursive         *)
(* function; that there is one is shown by the least length without.       *)
(***************************************************************************)

LEMMA LeastNumber ==
    ASSUME NEW N, N \subseteq Nat, N # {}
    PROVE  \E i \in N : \A j \in N : i <= j
PROOF
  <1>1. IsWellFoundedOn(OpToRel(<, Nat), Nat)
    BY NatLessThanWellFounded
  <1>2. PICK i \in N : \A j \in N : ~ (<<j, i>> \in OpToRel(<, Nat))
    BY <1>1, WFMin
  <1>3. ASSUME NEW j \in N, j < i PROVE FALSE
    BY <1>2, <1>3 DEF OpToRel
  <1>4. QED  BY <1>3

\* A set of numbers with a bound has a greatest one.
LEMMA GreatestNumber ==
    ASSUME NEW m \in Nat, NEW N, N \subseteq 0..m, N # {}
    PROVE  \E i \in N : \A j \in N : j <= i
PROOF
  <1> DEFINE M == {m - i : i \in N}
  <1>1. M \subseteq Nat /\ M # {}
    <2>1. \A i \in N : i \in Nat /\ i <= m  OBVIOUS
    <2>2. \A i \in N : m - i \in Nat  BY <2>1
    <2>3. PICK i : i \in N  OBVIOUS
    <2>4. m - i \in M  BY <2>3
    <2>5. QED  BY <2>2, <2>4
  <1>2. PICK k \in M : \A l \in M : k <= l
    <2> HIDE DEF M
    <2>1. QED  BY <1>1, LeastNumber
  <1>3. PICK i \in N : k = m - i
    BY <1>2
  <1>4. ASSUME NEW j \in N  PROVE j <= i
    <2>1. m - j \in M  OBVIOUS
    <2>2. m - i <= m - j  BY <1>2, <1>3, <2>1
    <2>3. i \in Int /\ j \in Int  OBVIOUS
    <2>4. QED  BY <2>2, <2>3
  <1>5. QED  BY <1>3, <1>4

\* f joins the first m of some sequences, one after the other.
Joins(s, m, f) == f = [i \in 1..m |-> IF i = 1 THEN s[i] ELSE f[i - 1] \o s[i]]
Joint(s) == CHOOSE f : Joins(s, Len(s), f)

LEMMA FlattenIsJoint ==
    ASSUME NEW s
    PROVE  SeqExt!FlattenSeq(s) = IF Len(s) = 0 THEN s ELSE Joint(s)[Len(s)]
PROOF
  BY DEF SeqExt!FlattenSeq, Joint, Joins

LEMMA JointExists ==
    ASSUME NEW s, Len(s) \in Nat
    PROVE  Joins(s, Len(s), Joint(s))
PROOF
  <1> DEFINE N == {m \in Nat : ~ \E f : Joins(s, m, f)}
  <1>1. N = {}
    <2> SUFFICES ASSUME N # {}  PROVE FALSE
      OBVIOUS
    <2>1. PICK m \in N : \A j \in N : m <= j
      <3>1. N \subseteq Nat  OBVIOUS
      <3> HIDE DEF N
      <3>2. QED  BY <3>1, LeastNumber
    <2>2. m \in Nat /\ ~ \E f : Joins(s, m, f)
      BY <2>1
    <2>3. m # 0
      <3> DEFINE f == [i \in 1..0 |-> s[i]]
      <3>1. ASSUME m = 0  PROVE Joins(s, m, f)
        <4>1. f = [i \in 1..0 |-> IF i = 1 THEN s[i] ELSE f[i - 1] \o s[i]]
          <5>1. 1..0 = {}  OBVIOUS
          <5>2. \A i \in 1..0 : s[i] = IF i = 1 THEN s[i] ELSE f[i - 1] \o s[i]
            BY <5>1
          <5>3. QED  BY <5>2
        <4>2. QED  BY <3>1, <4>1 DEF Joins
      <3> HIDE DEF f
      <3>2. QED  BY <2>2, <3>1
    <2>4. m - 1 \in Nat /\ m - 1 \notin N
      BY <2>1, <2>2, <2>3
    <2>5. PICK g : Joins(s, m - 1, g)
      BY <2>4
    <2> DEFINE f == [i \in 1..m |-> IF i = m THEN (IF m = 1 THEN s[m] ELSE g[m - 1] \o s[m]) ELSE g[i]]
    <2>6. \A i \in 1..m : i # 1 => i - 1 \in 1..(m - 1) /\ f[i - 1] = g[i - 1]
      BY <2>2, <2>3
    <2>7. ASSUME NEW i \in 1..m
          PROVE  f[i] = IF i = 1 THEN s[i] ELSE f[i - 1] \o s[i]
      <3>1. CASE i = m
        <4>1. f[i] = IF m = 1 THEN s[m] ELSE g[m - 1] \o s[m]  BY <3>1
        <4>2. QED  BY <2>6, <3>1, <4>1
      <3>2. CASE i # m
        <4>1. i \in 1..(m - 1)  BY <2>2, <3>2
        <4>2. g[i] = IF i = 1 THEN s[i] ELSE g[i - 1] \o s[i]
          BY <2>5, <4>1 DEF Joins
        <4>3. f[i] = g[i]  BY <3>2
        <4>4. QED  BY <2>6, <4>2, <4>3
      <3>3. QED  BY <3>1, <3>2
    <2>8. f = [i \in 1..m |-> f[i]]
      OBVIOUS
    <2> HIDE DEF f
    <2>9. Joins(s, m, f)
      BY <2>7, <2>8 DEF Joins
    <2>10. QED  BY <2>2, <2>9
  <1>2. \E f : Joins(s, Len(s), f)
    BY <1>1
  <1>3. QED  BY <1>2 DEF Joint

\* What a flattened sequence of sequences is made of.
LEMMA FlattenFacts ==
    ASSUME NEW T, NEW s \in Seq(Seq(T))
    PROVE  /\ SeqExt!FlattenSeq(s) \in Seq(T)
           /\ Len(s) = 1 => SeqExt!FlattenSeq(s) = s[1]
           /\ \A i \in DOMAIN s : \A k \in DOMAIN s[i] :
                 \E l \in DOMAIN SeqExt!FlattenSeq(s) : SeqExt!FlattenSeq(s)[l] = s[i][k]
PROOF
  <1> DEFINE J == Joint(s)
             Has(m) == \A i \in 1..m : \A k \in DOMAIN s[i] : \E l \in DOMAIN J[m] : J[m][l] = s[i][k]
             N == {m \in Nat : m \in 1..Len(s) /\ ~ (J[m] \in Seq(T) /\ Has(m))}
  <1>1. Len(s) \in Nat /\ DOMAIN s = 1..Len(s) /\ \A i \in 1..Len(s) : s[i] \in Seq(T)
    OBVIOUS
  <1>2. \A i \in 1..Len(s) : J[i] = IF i = 1 THEN s[i] ELSE J[i - 1] \o s[i]
    <2>1. Joins(s, Len(s), J)  BY <1>1, JointExists
    <2> HIDE DEF J
    <2>2. QED  BY <2>1 DEF Joins
  <1> HIDE DEF J
  <1>3. N = {}
    <2> SUFFICES ASSUME N # {}  PROVE FALSE
      OBVIOUS
    <2>1. PICK m \in N : \A j \in N : m <= j
      <3>1. N \subseteq Nat  OBVIOUS
      <3> HIDE DEF N
      <3>2. QED  BY <3>1, LeastNumber
    <2>2. m \in 1..Len(s) /\ m \in Nat /\ ~ (J[m] \in Seq(T) /\ Has(m))
      BY <2>1
    <2>3. CASE m = 1
      <3>1. J[m] = s[m] /\ s[m] \in Seq(T)  BY <1>1, <1>2, <2>2, <2>3
      <3>2. Has(m)  BY <2>3, <3>1
      <3>3. QED  BY <2>2, <3>1, <3>2
    <2>4. CASE m # 1
      <3>1. m - 1 \in 1..Len(s) /\ m - 1 \in Nat /\ m - 1 \notin N
        <4>1. m - 1 \in 1..Len(s) /\ m - 1 \in Nat /\ ~ (m <= m - 1)  BY <1>1, <2>2, <2>4
        <4> HIDE DEF N
        <4>2. QED  BY <2>1, <4>1
      <3>2. J[m - 1] \in Seq(T) /\ Has(m - 1)  BY <3>1
      <3>3. J[m] = J[m - 1] \o s[m] /\ s[m] \in Seq(T)  BY <1>1, <1>2, <2>2, <2>4
      <3> DEFINE p == J[m - 1]
                 q == s[m]
      <3>4. p \in Seq(T) /\ q \in Seq(T) /\ J[m] = p \o q  BY <3>2, <3>3
      <3>5. /\ J[m] \in Seq(T)
            /\ \A l \in DOMAIN p : l \in DOMAIN J[m] /\ J[m][l] = p[l]
            /\ \A l \in DOMAIN q : Len(p) + l \in DOMAIN J[m] /\ J[m][Len(p) + l] = q[l]
        <4> HIDE DEF p, q
        <4>1. J[m] \in Seq(T)
          BY <3>4
        <4>2. \A l \in DOMAIN p : l \in DOMAIN J[m] /\ J[m][l] = p[l]
          BY <3>4
        <4>3. \A l \in DOMAIN q : /\ Len(p) + l \in DOMAIN J[m]
                                 /\ J[m][Len(p) + l] = q[l]
          BY <3>4
        <4>4. QED  BY <4>1, <4>2, <4>3
      <3>6. ASSUME NEW i \in 1..m, NEW k \in DOMAIN s[i]
            PROVE  \E l \in DOMAIN J[m] : J[m][l] = s[i][k]
        <4>1. CASE i = m  BY <3>5, <4>1
        <4>2. CASE i # m
          <5>1. i \in 1..(m - 1)  BY <2>2, <4>2
          <5>2. PICK l \in DOMAIN p : p[l] = s[i][k]  BY <3>2, <5>1
          <5>3. QED  BY <3>5, <5>2
        <4>3. QED  BY <4>1, <4>2
      <3>7. QED  BY <2>2, <3>5, <3>6
    <2>5. QED  BY <2>3, <2>4
  <1>4. SeqExt!FlattenSeq(s) = IF Len(s) = 0 THEN s ELSE J[Len(s)]
    BY FlattenIsJoint DEF J
  <1>5. CASE Len(s) = 0
    <2>1. s \in Seq(T) /\ DOMAIN s = {}  BY <1>1, <1>5
    <2>2. QED  BY <1>4, <1>5, <2>1
  <1>6. CASE Len(s) # 0
    <2>1. Len(s) \in 1..Len(s)  BY <1>1, <1>6
    <2>2. J[Len(s)] \in Seq(T) /\ Has(Len(s))
      <3> HIDE DEF Has
      <3>1. Len(s) \notin N  BY <1>3
      <3>2. QED  BY <1>1, <2>1, <3>1
    <2>3. Len(s) = 1 => J[Len(s)] = s[1]  BY <1>2
    <2>4. QED  BY <1>1, <1>4, <1>6, <2>2, <2>3
  <1>7. QED  BY <1>5, <1>6

LEMMA PrefixFacts ==
    ASSUME NEW S, NEW s \in Seq(S), NEW k \in 0..Len(s)
    PROVE  /\ SubSeq(s, 1, k) \in Seq(S) /\ Len(SubSeq(s, 1, k)) = k
           /\ \A i \in 1..k : SubSeq(s, 1, k)[i] = s[i]
           /\ k = Len(s) => SubSeq(s, 1, k) = s
PROOF
  <1>1. Len(s) \in Nat /\ k \in Int /\ 1 \in Int /\ (\A i \in 1..k : s[i] \in S)
    OBVIOUS
  <1>2. /\ SubSeq(s, 1, k) \in Seq(S)
        /\ Len(SubSeq(s, 1, k)) = IF 1 <= k THEN k - 1 + 1 ELSE 0
        /\ \A i \in 1..(k - 1 + 1) : SubSeq(s, 1, k)[i] = s[1 + i - 1]
    BY <1>1, SubSeqProperties
  <1>3. k = Len(s) => SubSeq(s, 1, k) = s
    BY SubSeqFull
  <1>4. QED  BY <1>1, <1>2, <1>3

\* What a library sees of a file.
LEMMA CastFacts ==
    ASSUME NEW S, NEW c \in Seq(S)
    PROVE  /\ Cast(c) \in Seq(S) /\ Len(Cast(c)) \in 0..Len(c) /\ Len(c) \in Nat
           /\ \A i \in 1..Len(Cast(c)) : Cast(c)[i] = c[i]
           /\ Len(c) < Wrap => Cast(c) = c
PROOF
  <1>1. Len(c) \in Nat /\ Wrap \in Nat \ {0}  BY PackersAssumption
  <1> DEFINE k == Len(c) % Wrap
  <1>2. k \in 0..Len(c) /\ (Len(c) < Wrap => k = Len(c))
    <2>1. \A n \in Nat : n < Wrap => n % Wrap = n  BY <1>1
    <2>2. \A n \in Nat : n % Wrap \in Nat /\ n % Wrap < Wrap  BY <1>1
    <2>3. CASE Len(c) < Wrap  BY <1>1, <2>1, <2>3
    <2>4. CASE ~(Len(c) < Wrap)  BY <1>1, <2>2, <2>4
    <2>5. QED  BY <2>3, <2>4
  <1>3. Cast(c) = SubSeq(c, 1, k)  BY DEF Cast
  <1> HIDE DEF k
  <1>4. QED  BY <1>1, <1>2, <1>3, PrefixFacts

LEMMA TextIsNoStream == \A x \in Text : x \notin Stream
PROOF
  BY PackersAssumption DEF Text

\* What IsStream says of a file that is made of pieces.
LEMMA StreamFacts ==
    ASSUME NEW t, NEW c \in Seq(Piece), NEW i \in DOMAIN c, IsStream(t, c, i)
    PROVE  /\ c[i] \in Stream /\ c[i].of \in Seq(Text) /\ c[i].tool = t /\ c[i].part = "head"
           /\ i + 1 \in DOMAIN c /\ c[i + 1] \in Stream
           /\ c[i + 1] = [c[i] EXCEPT !.part = "tail"] /\ c[i + 1].part = "tail"
PROOF
  <1>1. c[i] \in Piece /\ i \in 1..Len(c) /\ Len(c) \in Nat  OBVIOUS
  <1>2. c[i] \in Stream /\ c[i].tool = t /\ c[i].part = "head" /\ i < Len(c)
        /\ c[i + 1] = [c[i] EXCEPT !.part = "tail"]
    BY <1>1 DEF IsStream, IsHead, Piece
  <1>3. [c[i] EXCEPT !.part = "tail"] \in Stream /\ [c[i] EXCEPT !.part = "tail"].part = "tail"
    BY <1>2 DEF Stream
  <1>4. c[i].of \in Seq(Text)  BY <1>2 DEF Stream
  <1>5. i + 1 \in DOMAIN c  BY <1>1, <1>2
  <1>6. QED  BY <1>2, <1>3, <1>4, <1>5

LEMMA LeadingFacts ==
    ASSUME NEW t, NEW c, Len(c) \in Nat
    PROVE  /\ Leading(t, c) \in 0..Len(c) /\ 2 * Leading(t, c) <= Len(c)
           /\ \A i \in 1..Leading(t, c) : IsStream(t, c, 2 * i - 1)
PROOF
  <1> DEFINE ks == {k \in 0..Len(c) : 2 * k <= Len(c) /\ \A i \in 1..k : IsStream(t, c, 2 * i - 1)}
  <1>1. 0 \in ks /\ ks \subseteq 0..Len(c)
    OBVIOUS
  <1>2. \E k \in ks : \A l \in ks : l <= k
    <2> HIDE DEF ks
    <2>1. QED  BY <1>1, GreatestNumber
  <1>3. Leading(t, c) = CHOOSE k \in ks : \A l \in ks : l <= k
    BY DEF Leading
  <1>4. Leading(t, c) \in ks
    <2> HIDE DEF ks
    <2>1. QED  BY <1>2, <1>3
  <1>5. QED  BY <1>4

LEMMA TextFacts ==
    ASSUME NEW c \in Seq(Text)
    PROVE  /\ c \in Seq(Piece)
           /\ \A t : \A i \in DOMAIN c : ~ IsStream(t, c, i)
           /\ \A t : Leading(t, c) = 0
           /\ LettersOf(c) = {x \in Letters : \E i \in DOMAIN c : c[i] = x}
           /\ FirstIsAll(c)
PROOF
  <1>1. Len(c) \in Nat /\ DOMAIN c = 1..Len(c) /\ \A i \in 1..Len(c) : c[i] \in Text
    OBVIOUS
  <1>2. \A t : \A i \in DOMAIN c : ~ IsStream(t, c, i)
    BY <1>1 DEF IsStream, IsHead
  <1>3. ASSUME NEW t  PROVE Leading(t, c) = 0
    <2>1. Leading(t, c) \in 0..Len(c) /\ \A i \in 1..Leading(t, c) : IsStream(t, c, 2 * i - 1)
          /\ 2 * Leading(t, c) <= Len(c)
      BY <1>1, LeadingFacts
    <2>2. CASE Leading(t, c) # 0
      <3>1. 1 \in 1..Leading(t, c) /\ 1 \in DOMAIN c /\ 2 * 1 - 1 = 1  BY <1>1, <2>1, <2>2
      <3>2. IsStream(t, c, 1)  BY <2>1, <3>1
      <3>3. QED  BY <1>2, <3>1, <3>2
    <2>3. QED  BY <2>2
  <1>4. LettersOf(c) = {x \in Letters : \E i \in DOMAIN c : c[i] = x}
    BY <1>2 DEF LettersOf
  <1>5. FirstIsAll(c)
    BY <1>3 DEF FirstIsAll
  <1>6. c \in Seq(Piece)
    BY DEF Piece
  <1>7. QED  BY <1>2, <1>3, <1>4, <1>5, <1>6

\* Joining the first k streams of a file.
LEMMA JoinedFacts ==
    ASSUME NEW c, NEW k \in Nat, \A i \in 1..k : c[2 * i - 1].of \in Seq(Text)
    PROVE  /\ Joined(c, k) \in Seq(Text)
           /\ k = 1 => Joined(c, k) = c[1].of
           /\ \A i \in 1..k : \A l \in DOMAIN c[2 * i - 1].of :
                 \E m \in DOMAIN Joined(c, k) : Joined(c, k)[m] = c[2 * i - 1].of[l]
PROOF
  <1> DEFINE s == [i \in 1..k |-> c[2 * i - 1].of]
  <1>1. s \in Seq(Seq(Text)) /\ Len(s) = k /\ DOMAIN s = 1..k
    OBVIOUS
  <1>2. \A i \in 1..k : s[i] = c[2 * i - 1].of
    OBVIOUS
  <1>3. Joined(c, k) = SeqExt!FlattenSeq(s)
    BY DEF Joined
  <1> HIDE DEF s
  <1>4. /\ SeqExt!FlattenSeq(s) \in Seq(Text)
        /\ Len(s) = 1 => SeqExt!FlattenSeq(s) = s[1]
        /\ \A i \in DOMAIN s : \A l \in DOMAIN s[i] :
              \E m \in DOMAIN SeqExt!FlattenSeq(s) : SeqExt!FlattenSeq(s)[m] = s[i][l]
    BY <1>1, FlattenFacts, ZenonT(40)
  <1>5. k = 1 => s[1] = c[1].of
    BY <1>2
  <1>6. ASSUME NEW i \in 1..k, NEW l \in DOMAIN c[2 * i - 1].of
        PROVE  \E m \in DOMAIN Joined(c, k) : Joined(c, k)[m] = c[2 * i - 1].of[l]
    <2>1. i \in DOMAIN s /\ s[i] = c[2 * i - 1].of  BY <1>1, <1>2
    <2>2. QED  BY <1>3, <1>4, <1>6, <2>1
  <1>7. k = 1 => Joined(c, k) = c[1].of  BY <1>1, <1>3, <1>4, <1>5
  <1>8. QED  BY <1>3, <1>4, <1>6, <1>7

\* The leading streams of a file have text in them.
LEMMA LeadingText ==
    ASSUME NEW t, NEW c \in Seq(Piece)
    PROVE  \A i \in 1..Leading(t, c) : /\ 2 * i - 1 \in DOMAIN c /\ IsStream(t, c, 2 * i - 1)
                                       /\ c[2 * i - 1].of \in Seq(Text)
PROOF
  <1>1. Len(c) \in Nat /\ DOMAIN c = 1..Len(c)  OBVIOUS
  <1>2. Leading(t, c) \in 0..Len(c) /\ 2 * Leading(t, c) <= Len(c)
        /\ \A i \in 1..Leading(t, c) : IsStream(t, c, 2 * i - 1)
    BY <1>1, LeadingFacts
  <1>3. ASSUME NEW i \in 1..Leading(t, c)
        PROVE  2 * i - 1 \in DOMAIN c /\ IsStream(t, c, 2 * i - 1) /\ c[2 * i - 1].of \in Seq(Text)
    <2>1. 2 * i - 1 \in DOMAIN c  BY <1>1, <1>2
    <2>2. IsStream(t, c, 2 * i - 1)  BY <1>2
    <2> DEFINE q == 2 * i - 1
    <2>3. q \in DOMAIN c /\ IsStream(t, c, q)  BY <2>1, <2>2
    <2> HIDE DEF q
    <2>4. c[q].of \in Seq(Text)  BY <2>3, StreamFacts
    <2>5. QED  BY <2>1, <2>2, <2>4 DEF q
  <1>4. QED  BY <1>3

\* What bunzip2 makes of a file of which libbz2 sees all.
LEMMA AllBzip2Facts ==
    ASSUME NEW c \in Seq(Piece)
    PROVE  /\ AllBzip2(c).out \in Seq(Text) /\ AllBzip2(c).res \in {"ok", "bad", "never"}
           /\ AllBzip2(c) = [res |-> AllBzip2(c).res, out |-> AllBzip2(c).out]
           /\ AllBzip2(c).res = "ok" =>
                AllBzip2(c).out = Joined(c, Leading("bzip2", c)) /\ Rest("bzip2", c) = <<>>
PROOF
  <1> DEFINE k == Leading("bzip2", c)
  <1>1. k \in Nat /\ \A i \in 1..k : c[2 * i - 1].of \in Seq(Text)
    BY LeadingFacts, LeadingText
  <1>2. Joined(c, k) \in Seq(Text)  BY <1>1, JoinedFacts
  <1>3. AllBzip2(c) \in {Bad, Never} \/ (Rest("bzip2", c) = <<>> /\ AllBzip2(c) = Good(Joined(c, k)))
    BY DEF AllBzip2
  <1> HIDE DEF k
  <1>4. CASE AllBzip2(c) \in {Bad, Never}
    <2>1. \A r, e : r = [res |-> e, out |-> <<>>] =>
             r.out \in Seq(Text) /\ r.res = e /\ r = [res |-> r.res, out |-> r.out]
      OBVIOUS
    <2>2. Bad = [res |-> "bad", out |-> <<>>] /\ Never = [res |-> "never", out |-> <<>>]
      BY DEF Bad, Never
    <2>3. PICK e \in {"bad", "never"} : AllBzip2(c) = [res |-> e, out |-> <<>>]  BY <1>4, <2>2
    <2>4. AllBzip2(c).res = e /\ e # "ok"  BY <2>1, <2>3
    <2>5. QED  BY <2>1, <2>3, <2>4
  <1>5. CASE Rest("bzip2", c) = <<>> /\ AllBzip2(c) = Good(Joined(c, k))
    BY <1>2, <1>5 DEF Good, k
  <1>6. QED  BY <1>3, <1>4, <1>5

LEMMA Bunzip2Facts ==
    ASSUME NEW c \in Seq(Piece)
    PROVE  /\ Bunzip2(c).out \in Seq(Text) /\ Bunzip2(c).res \in {"ok", "bad", "never"}
           /\ Len(c) < Wrap => Bunzip2(c) = AllBzip2(c)
PROOF
  <1> DEFINE seen == Cast(c)
             more == AllBzip2(SubSeq(c, Len(c) - Len(seen) + 3, Len(c)))
  <1>1. seen \in Seq(Piece) /\ Len(seen) \in 0..Len(c) /\ Len(c) \in Nat
        /\ \A i \in 1..Len(seen) : seen[i] = c[i]
    BY CastFacts
  <1>2. Bunzip2(c) = IF Len(c) < Wrap THEN AllBzip2(c)
                     ELSE IF Leading("bzip2", seen) > 0 THEN [more EXCEPT !.out = c[1].of \o @]
                     ELSE IF seen = <<>> THEN Never ELSE AllBzip2(seen)
    BY DEF Bunzip2
  <1>3. SubSeq(c, Len(c) - Len(seen) + 3, Len(c)) \in Seq(Piece)
    <2>1. Len(c) - Len(seen) + 3 \in Int /\ Len(c) - Len(seen) + 3 >= 1  BY <1>1
    <2>2. \A i \in (Len(c) - Len(seen) + 3)..Len(c) : c[i] \in Piece  BY <1>1, <2>1
    <2>3. QED  BY <1>1, <2>1, <2>2, SubSeqProperties
  <1>4. ASSUME Leading("bzip2", seen) > 0  PROVE c[1].of \in Seq(Text)
    <2>1. Leading("bzip2", seen) \in 0..Len(seen) /\ 2 * Leading("bzip2", seen) <= Len(seen)
      BY <1>1, LeadingFacts
    <2>2. 1 \in 1..Leading("bzip2", seen) /\ 2 * 1 - 1 = 1 /\ 1 \in 1..Len(seen)
      BY <1>1, <1>4, <2>1
    <2>3. seen[1].of \in Seq(Text)  BY <1>1, <2>2, LeadingText
    <2>4. QED  BY <1>1, <2>2, <2>3
  <1>5. more.out \in Seq(Text) /\ more.res \in {"ok", "bad", "never"} /\ more = [res |-> more.res, out |-> more.out]
    BY <1>3, AllBzip2Facts
  <1> HIDE DEF seen, more
  <1>6. Leading("bzip2", seen) > 0 =>
            [more EXCEPT !.out = c[1].of \o @].out \in Seq(Text) /\ [more EXCEPT !.out = c[1].of \o @].res = more.res
    BY <1>4, <1>5
  <1>7. Never.out \in Seq(Text) /\ Never.res = "never"  BY DEF Never
  <1>8. AllBzip2(c).out \in Seq(Text) /\ AllBzip2(c).res \in {"ok", "bad", "never"}
        /\ AllBzip2(seen).out \in Seq(Text) /\ AllBzip2(seen).res \in {"ok", "bad", "never"}
    BY <1>1, AllBzip2Facts
  <1>9. CASE Len(c) < Wrap  BY <1>2, <1>8, <1>9
  <1>10. CASE ~(Len(c) < Wrap) /\ Leading("bzip2", seen) > 0  BY <1>2, <1>5, <1>6, <1>10
  <1>11. CASE ~(Len(c) < Wrap) /\ ~(Leading("bzip2", seen) > 0)  BY <1>2, <1>7, <1>8, <1>11
  <1>12. QED  BY <1>9, <1>10, <1>11

\* What the decoders make of a file, and that, where it fits, it is what the
\* file stands for.
LEMMA UnpackFacts ==
    ASSUME NEW t \in Tools, NEW c \in Seq(Piece)
    PROVE  /\ Unpack(t, c).out \in Seq(Text)
           /\ Unpack(t, c).res = "ok" /\ Fits(t, c) =>
                \/ Leading(t, c) > 0 /\ Unpack(t, c).out = c[1].of /\ t \in {"gzip", "xz"}
                \/ /\ Unpack(t, c).out = Joined(c, Leading(t, c))
                   /\ Rest(t, c) = <<>> /\ t \in {"bzip2", "zstd"}
PROOF
  <1> DEFINE k == Leading(t, c)
             l == Leading(t, Cast(c))
  <1>1. Len(c) \in Nat  OBVIOUS
  <1>2. k \in Nat  BY <1>1, LeadingFacts
  <1>3. \A i \in 1..k : c[2 * i - 1].of \in Seq(Text)  BY LeadingText
  <1>4. Joined(c, k) \in Seq(Text)  BY <1>2, <1>3, JoinedFacts
  <1>5. ASSUME l > 0  PROVE c[1].of \in Seq(Text)
    <2>1. Cast(c) \in Seq(Piece) /\ Len(Cast(c)) \in Nat /\ \A i \in 1..Len(Cast(c)) : Cast(c)[i] = c[i]
      BY CastFacts
    <2>2. l \in 0..Len(Cast(c)) /\ 2 * l <= Len(Cast(c))  BY <2>1, LeadingFacts
    <2>3. 1 \in 1..l /\ 2 * 1 - 1 = 1 /\ 1 \in 1..Len(Cast(c))  BY <1>5, <2>1, <2>2
    <2>4. Cast(c)[1].of \in Seq(Text)  BY <2>1, <2>3, LeadingText
    <2>5. QED  BY <2>1, <2>3, <2>4
  <1>6. /\ \A o : Good(o).res = "ok" /\ Good(o).out = o
        /\ Bad.res # "ok" /\ Bad.out \in Seq(Text) /\ Never.res # "ok" /\ Never.out \in Seq(Text)
    BY DEF Good, Bad, Never
  <1>7. Fits(t, c) /\ t # "zstd" => l = k  BY CastFacts DEF Fits
  <1>8. k = Leading(t, c) /\ l = Leading(t, Cast(c))  OBVIOUS
  <1> HIDE DEF k, l
  <1>9. CASE t = "gzip"
    <2>1. Unpack(t, c) = Gunzip(c)  BY <1>9 DEF Unpack
    <2>2. Gunzip(c) = Bad \/ (l > 0 /\ Gunzip(c) = Good(c[1].of))  BY <1>8, <1>9 DEF Gunzip
    <2>3. QED  BY <1>5, <1>6, <1>7, <1>8, <1>9, <2>1, <2>2
  <1>10. CASE t = "bzip2"
    <2>1. Unpack(t, c) = Bunzip2(c)  BY <1>10 DEF Unpack
    <2>2. Fits(t, c) => Len(c) < Wrap  BY <1>10 DEF Fits
    <2>3. QED  BY <1>10, <2>1, <2>2, AllBzip2Facts, Bunzip2Facts
  <1>11. CASE t = "xz"
    <2>1. Unpack(t, c) = Unxz(c)  BY <1>11 DEF Unpack
    <2>2. Unxz(c) = Bad \/ (l > 0 /\ Unxz(c) = Good(c[1].of))  BY <1>8, <1>11 DEF Unxz
    <2>3. QED  BY <1>5, <1>6, <1>7, <1>8, <1>11, <2>1, <2>2
  <1>12. CASE t = "zstd"
    <2>1. Unpack(t, c) = Unzstd(c)  BY <1>12 DEF Unpack
    <2>2. Unzstd(c) = Bad \/ (Rest(t, c) = <<>> /\ Unzstd(c) = Good(Joined(c, k)))
      BY <1>12 DEF Unzstd, k
    <2>3. QED  BY <1>4, <1>6, <1>8, <1>12, <2>1, <2>2
  <1>13. QED  BY <1>9, <1>10, <1>11, <1>12 DEF Tools

\* A stream with a text in it.
LEMMA OneStreamFacts ==
    ASSUME NEW t \in Tools, NEW c \in Seq(Text)
    PROVE  /\ OneStream(t, c) \in Seq(Stream) /\ OneStream(t, c) \in Seq(Piece) /\ Len(OneStream(t, c)) = 2
           /\ OneStream(t, c)[1].of = c /\ IsStream(t, OneStream(t, c), 1)
           /\ LettersOf(c) \subseteq LettersOf(OneStream(t, c))
PROOF
  <1> DEFINE h == [tool |-> t, of |-> c, part |-> "head"]
             e == [tool |-> t, of |-> c, part |-> "tail"]
  <1>1. OneStream(t, c) = <<h, e>>  BY DEF OneStream
  <1>2. h \in Stream /\ e \in Stream  BY DEF Stream
  <1>3. e = [h EXCEPT !.part = "tail"] /\ h.of = c /\ h.tool = t /\ h.part = "head"
    OBVIOUS
  <1> HIDE DEF h, e
  <1>4. OneStream(t, c) \in Seq(Stream) /\ Len(OneStream(t, c)) = 2 /\ OneStream(t, c)[1] = h
        /\ OneStream(t, c)[2] = e /\ DOMAIN OneStream(t, c) = 1..2
    BY <1>1, <1>2
  <1>5. OneStream(t, c) \in Seq(Piece)  BY <1>4 DEF Piece
  <1>6. h \notin Text  BY <1>2, TextIsNoStream
  <1>7. IsStream(t, OneStream(t, c), 1)  BY <1>3, <1>4, <1>6 DEF IsStream, IsHead
  <1>8. ASSUME NEW x \in LettersOf(c)  PROVE x \in LettersOf(OneStream(t, c))
    <2>1. PICK i \in DOMAIN c : c[i] = x /\ x \in Letters  BY <1>8, TextFacts
    <2>2. 1 \in DOMAIN OneStream(t, c) /\ OneStream(t, c)[1].of = c  BY <1>3, <1>4
    <2>3. QED  BY <1>7, <2>1, <2>2 DEF LettersOf
  <1>9. QED  BY <1>3, <1>4, <1>5, <1>7, <1>8

\* A command packs a text, and where it fits, all of it.
LEMMA PackFacts ==
    ASSUME NEW t \in Tools, NEW c \in Seq(Text)
    PROVE  /\ \E d \in Seq(Text) : Pack(t, c) = OneStream(t, d)
           /\ Fits(t, c) => Pack(t, c) = OneStream(t, c)
PROOF
  <1>1. Cast(c) \in Seq(Text) /\ (Len(c) < Wrap => Cast(c) = c)  BY CastFacts
  <1>2. CASE t = "gzip"  BY <1>1, <1>2 DEF Pack, Gzip, Fits
  <1>3. CASE t = "bzip2"  BY <1>1, <1>3 DEF Pack, Bzip2, Fits
  <1>4. CASE t = "xz"  BY <1>1, <1>4 DEF Pack, Xz, Fits
  <1>5. CASE t = "zstd"  BY <1>1, <1>5 DEF Pack, Zstd, Fits
  <1>6. QED  BY <1>2, <1>3, <1>4, <1>5 DEF Tools

LEMMA NothingBehind ==
    ASSUME NEW S, NEW c \in Seq(S), NEW n \in Nat, n <= Len(c), SubSeq(c, n + 1, Len(c)) = <<>>
    PROVE  n = Len(c)
PROOF
  <1>1. Len(c) \in Nat /\ n + 1 \in Int /\ \A i \in (n + 1)..Len(c) : c[i] \in S
    OBVIOUS
  <1>2. Len(SubSeq(c, n + 1, Len(c))) = IF n + 1 <= Len(c) THEN Len(c) - (n + 1) + 1 ELSE 0
    BY <1>1, SubSeqProperties
  <1>3. Len(SubSeq(c, n + 1, Len(c))) = 0
    <2>1. \A s : s = <<>> => Len(s) = 0  OBVIOUS
    <2>2. QED  BY <2>1, Zenon
  <1>4. QED  BY <1>1, <1>2, <1>3

\* A decoder that takes all streams leaves out no letter.
LEMMA AllStreamsLetters ==
    ASSUME NEW t, NEW c \in Seq(Piece), Rest(t, c) = <<>>
    PROVE  LettersOf(c) \subseteq LettersOf(Joined(c, Leading(t, c)))
PROOF
  <1> DEFINE k == Leading(t, c)
             o == Joined(c, k)
  <1>1. Len(c) \in Nat /\ DOMAIN c = 1..Len(c)  OBVIOUS
  <1>2. k \in Nat /\ 2 * k <= Len(c)  BY <1>1, LeadingFacts
  <1>3. \A i \in 1..k : 2 * i - 1 \in DOMAIN c /\ IsStream(t, c, 2 * i - 1) /\ c[2 * i - 1].of \in Seq(Text)
    BY LeadingText
  <1>4. 2 * k = Len(c)
    <2>1. SubSeq(c, 2 * k + 1, Len(c)) = <<>>  BY DEF Rest
    <2>2. 2 * k \in Nat  BY <1>2
    <2>3. QED  BY <1>2, <2>1, <2>2, NothingBehind
  <1>5. /\ o \in Seq(Text)
        /\ \A i \in 1..k : \A l \in DOMAIN c[2 * i - 1].of :
              \E m \in DOMAIN o : o[m] = c[2 * i - 1].of[l]
    BY <1>2, <1>3, JoinedFacts
  <1> HIDE DEF k, o
  <1>6. ASSUME NEW q \in DOMAIN c
        PROVE  \E i \in 1..k : q = 2 * i - 1 \/ q = 2 * i
    <2>1. q \in Nat /\ 1 <= q /\ q <= 2 * k  BY <1>1, <1>4
    <2>2. (q + 1) \div 2 \in Nat /\ (q = 2 * ((q + 1) \div 2) - 1 \/ q = 2 * ((q + 1) \div 2))
      BY <2>1
    <2>3. PICK i \in Nat : q = 2 * i - 1 \/ q = 2 * i  BY <2>2
    <2>4. i \in 1..k  BY <1>2, <2>1, <2>3
    <2>5. QED  BY <2>3, <2>4
  <1>7. ASSUME NEW i \in 1..k
        PROVE  /\ c[2 * i - 1] \in Stream
               /\ 2 * i \in DOMAIN c /\ c[2 * i] \in Stream /\ c[2 * i].part = "tail"
    <2> DEFINE q == 2 * i - 1
    <2>1. q \in DOMAIN c /\ IsStream(t, c, q) /\ q + 1 = 2 * i  BY <1>2, <1>3
    <2> HIDE DEF q
    <2>2. c[q] \in Stream /\ q + 1 \in DOMAIN c /\ c[q + 1] \in Stream /\ c[q + 1].part = "tail"
      BY <2>1, StreamFacts
    <2>3. QED  BY <2>1, <2>2 DEF q
  <1>8. \A q \in DOMAIN c : c[q] \in Stream
    BY <1>6, <1>7
  <1>9. ASSUME NEW x \in LettersOf(c)  PROVE x \in LettersOf(o)
    <2>1. x \in Letters /\ x \notin Stream  BY <1>9, PackersAssumption DEF LettersOf
    <2>2. PICK q \in DOMAIN c : c[q] = x \/ \E s \in Tools : IsStream(s, c, q) /\ \E l \in DOMAIN c[q].of : c[q].of[l] = x
      BY <1>9 DEF LettersOf
    <2>3. c[q] # x  BY <1>8, <2>1
    <2>4. PICK s \in Tools : IsStream(s, c, q) /\ \E l \in DOMAIN c[q].of : c[q].of[l] = x  BY <2>2, <2>3
    <2>5. c[q].part = "head"  BY <2>4, StreamFacts
    <2>6. PICK i \in 1..k : q = 2 * i - 1  BY <1>6, <1>7, <2>5
    <2>7. \E m \in DOMAIN o : o[m] = x  BY <1>5, <2>4, <2>6
    <2>8. QED  BY <1>5, <2>1, <2>7, TextFacts
  <1>10. QED  BY <1>9 DEF o, k

\* What a command makes of a file, and of one that fits.
LEMMA ResultFacts ==
    ASSUME NEW j \in Job, NEW c \in Seq(Piece), j.mode = "pack" => c \in Seq(Text)
    PROVE  /\ Result(j, c).out \in Seq(Piece)
           /\ j.mode # "pack" => Result(j, c).out \in Seq(Text)
           /\ j.mode = "pack" => \E d \in Seq(Text) : Result(j, c).out = OneStream(j.tool, d)
           /\ Result(j, c).res = "ok" /\ Fits(j.tool, c) /\ FirstIsAll(c) =>
                 LettersOf(c) \subseteq LettersOf(Result(j, c).out)
           /\ (j.mode # "pack" /\ j.tool \in {"gzip", "xz"} => Leading(j.tool, c) = 1)
                 /\ Result(j, c).res = "ok" /\ Fits(j.tool, c) => Result(j, c).out = Meant(j, c)
PROOF
  <1>1. j.tool \in Tools  BY DEF Job
  <1>2. CASE j.mode = "pack"
    <2>1. Result(j, c).out = Pack(j.tool, c)  BY <1>2 DEF Result, Good
    <2>2. PICK d \in Seq(Text) : Pack(j.tool, c) = OneStream(j.tool, d)  BY <1>1, <1>2, PackFacts
    <2>3. OneStream(j.tool, d) \in Seq(Piece)  BY <1>1, OneStreamFacts
    <2>4. Fits(j.tool, c) =>
             Pack(j.tool, c) = OneStream(j.tool, c) /\ LettersOf(c) \subseteq LettersOf(OneStream(j.tool, c))
      BY <1>1, <1>2, PackFacts, OneStreamFacts
    <2>5. QED  BY <1>2, <2>1, <2>2, <2>3, <2>4 DEF Meant
  <1>3. CASE j.mode # "pack"
    <2> DEFINE t == j.tool
               r == Unpack(t, c)
    <2>1. Result(j, c) = r  BY <1>3 DEF Result
    <2>2. /\ r.out \in Seq(Text)
          /\ r.res = "ok" /\ Fits(t, c) =>
                \/ Leading(t, c) > 0 /\ r.out = c[1].of /\ t \in {"gzip", "xz"}
                \/ r.out = Joined(c, Leading(t, c)) /\ Rest(t, c) = <<>> /\ t \in {"bzip2", "zstd"}
      BY <1>1, UnpackFacts
    <2>3. Meant(j, c) = Joined(c, Leading(t, c))  BY <1>3 DEF Meant
    <2> HIDE DEF r, t
    <2>4. r.out \in Seq(Piece)  BY <2>2, TextFacts
    <2>5. ASSUME r.res = "ok", Fits(t, c), FirstIsAll(c)  PROVE LettersOf(c) \subseteq LettersOf(r.out)
      <3>1. CASE Leading(t, c) > 0 /\ r.out = c[1].of /\ t \in {"gzip", "xz"}
        BY <2>5, <3>1 DEF FirstIsAll
      <3>2. CASE r.out = Joined(c, Leading(t, c)) /\ Rest(t, c) = <<>>
        BY <3>2, AllStreamsLetters
      <3>3. QED  BY <2>2, <2>5, <3>1, <3>2
    <2>6. ASSUME t \in {"gzip", "xz"} => Leading(t, c) = 1, r.res = "ok", Fits(t, c)
          PROVE  r.out = Joined(c, Leading(t, c))
      <3>1. CASE r.out = c[1].of /\ t \in {"gzip", "xz"}
        <4>1. Leading(t, c) = 1  BY <2>6, <3>1
        <4>2. \A i \in 1..1 : c[2 * i - 1].of \in Seq(Text)  BY <4>1, LeadingText
        <4>3. Joined(c, 1) = c[1].of  BY <4>2, JoinedFacts
        <4>4. QED  BY <3>1, <4>1, <4>3
      <3>2. QED  BY <2>2, <2>6, <3>1
    <2>7. QED  BY <1>3, <2>1, <2>2, <2>3, <2>4, <2>5, <2>6 DEF t
  <1>4. QED  BY <1>2, <1>3

\* A file that a command is writing has no second stream.
LEMMA PartFirstIsAll ==
    ASSUME NEW j \in Job, NEW c \in Seq(Piece), j.mode = "pack" => c \in Seq(Text),
           NEW k \in 0..Len(Result(j, c).out)
    PROVE  FirstIsAll(SubSeq(Result(j, c).out, 1, k))
PROOF
  <1> DEFINE o == Result(j, c).out
             p == SubSeq(o, 1, k)
  <1>1. o \in Seq(Piece) /\ (j.mode # "pack" => o \in Seq(Text))
        /\ (j.mode = "pack" => \E d \in Seq(Text) : o = OneStream(j.tool, d))
    BY ResultFacts
  <1> HIDE DEF o
  <1>2. Len(o) \in Nat /\ k \in 0..Len(o)  BY <1>1 DEF o
  <1>3. Len(p) = k /\ k \in Nat /\ DOMAIN p = 1..k /\ (\A i \in 1..k : p[i] = o[i])
    BY <1>1, <1>2
  <1>4. CASE j.mode # "pack"
    <2>1. p \in Seq(Text)  BY <1>1, <1>2, <1>4
    <2>2. QED  BY <2>1, TextFacts DEF o
  <1>5. CASE j.mode = "pack"
    <2> PICK d \in Seq(Text) : o = OneStream(j.tool, d)  BY <1>1, <1>5
    <2>1. o \in Seq(Stream) /\ Len(o) = 2 /\ o[1].of = d /\ d \in Seq(Text)
      BY OneStreamFacts DEF Job
    <2>2. \A i \in 1..k : p[i] \in Stream
      <3>1. \A i \in 1..Len(o) : o[i] \in Stream
        <4>1. o \in Seq(Stream)  BY <2>1
        <4>2. QED  BY <4>1
      <3>2. \A i \in 1..k : i \in 1..Len(o)  BY <1>2
      <3> HIDE DEF p
      <3>3. QED  BY <1>3, <3>1, <3>2
    <2>3. ASSUME NEW t \in {"gzip", "xz"}, Leading(t, p) > 0
          PROVE  LettersOf(p) \subseteq LettersOf(p[1].of)
      <3>1. Leading(t, p) \in 0..Len(p) /\ 2 * Leading(t, p) <= Len(p)  BY <1>3, LeadingFacts
      <3>2. k = 2 /\ p[1] = o[1]  BY <1>2, <1>3, <2>1, <2>3, <3>1
      <3>3. ASSUME NEW x \in LettersOf(p)  PROVE x \in LettersOf(d)
        <4>1. x \in Letters /\ x \notin Stream  BY <3>3, PackersAssumption DEF LettersOf
        <4>2. PICK i \in DOMAIN p :
                 p[i] = x \/ \E s \in Tools : IsStream(s, p, i) /\ \E l \in DOMAIN p[i].of : p[i].of[l] = x
          BY <3>3 DEF LettersOf
        <4>3. p[i] # x  BY <1>3, <2>2, <4>1
        <4>4. PICK s \in Tools : IsStream(s, p, i) /\ \E l \in DOMAIN p[i].of : p[i].of[l] = x  BY <4>2, <4>3
        <4>5. i < 2 /\ i \in 1..2  BY <1>3, <3>2, <4>4 DEF IsStream
        <4>6. i = 1  BY <4>5
        <4>7. \E l \in DOMAIN d : d[l] = x  BY <2>1, <3>2, <4>4, <4>6
        <4>8. QED  BY <2>1, <4>1, <4>7, TextFacts
      <3>4. QED  BY <2>1, <3>2, <3>3
    <2>4. FirstIsAll(p)  BY <2>3 DEF FirstIsAll
    <2>5. QED  BY <2>4 DEF o
  <1>6. QED  BY <1>4, <1>5

----------------------------------------------------------------------------
(***************************************************************************)
(* The typing invariant.                                                   *)
(***************************************************************************)

\* Where a command is at one of its paths, and where it makes a file of it.
OnPath == {"read", "code", "stat", "open", "write", "remove"}
Making == {"stat", "open", "write", "remove"}

IsPath(u, n) == \E k \in DOMAIN job[u].paths : job[u].paths[k] = n

\* A file that somebody packs.
ForPacking(n) == \E u \in Users : job[u].mode = "pack" /\ IsPath(u, n) /\ Acts(job[u], n)

Placing(u) ==
    /\ \A i \in DOMAIN left[u] : IsPath(u, left[u][i])
    /\ pc[u] \in OnPath => left[u] # <<>>
    /\ pc[u] = "read" => src[u] \in DOMAIN files[Path(u)]
    /\ pc[u] \in Making =>
          /\ Acts(job[u], Path(u))
          /\ job[u].mode # "pack" => out[u] \in Seq(Text)
    /\ pc[u] = "write" => dst[u] \in DOMAIN files[To(u)]
    /\ pc[u] \in OnPath /\ job[u].mode = "pack" /\ Acts(job[u], Path(u)) => got[u] \in Seq(Text)
    /\ pc[u] \in {"idle", "source"} => got[u] = <<>>

Texts == \A n \in Names : ForPacking(n) => \A i \in DOMAIN files[n] : files[n][i] \in Seq(Text)

Base == TypeOK /\ scene \in Scenes /\ Texts /\ \A u \in Users : Placing(u)

LEMMA SceneFacts ==
    ASSUME scene \in Scenes, NEW u \in Users
    PROVE  /\ job[u] \in Job /\ job[u].paths \in Seq(Names) /\ job[u].tool \in Tools
           /\ \A n : IsPath(u, n) => n \in Names
           /\ \A n : IsPath(u, n) /\ Acts(job[u], n) =>
                 /\ Target(job[u], n) \in Names
                 /\ job[u].mode = "pack" =>
                       n[Len(n)] \notin Tools
                       /\ (n \in DOMAIN scene.folder => scene.folder[n] \in Seq(Text))
PROOF
  <1>1. job = scene.job  BY DEF job
  <1>2. job[u] \in Job  BY <1>1, PackersAssumption
  <1>3. job[u].paths \in Seq(Names) /\ job[u].tool \in Tools  BY <1>2 DEF Job
  <1>4. \A n : IsPath(u, n) => n \in Names  BY <1>3 DEF IsPath
  <1>5. ASSUME NEW n, IsPath(u, n), Acts(job[u], n)
        PROVE  /\ Target(job[u], n) \in Names
               /\ job[u].mode = "pack" =>
                     n[Len(n)] \notin Tools
                     /\ (n \in DOMAIN scene.folder => scene.folder[n] \in Seq(Text))
    <2>1. PICK k \in DOMAIN scene.job[u].paths : scene.job[u].paths[k] = n  BY <1>1, <1>5 DEF IsPath
    <2>2. \A i \in DOMAIN scene.job[u].paths :
            LET j == scene.job[u]
                m == j.paths[i]
            IN  Acts(j, m) =>
                      /\ Target(j, m) \in Names
                      /\ j.mode = "pack" =>
                            m[Len(m)] \notin Tools /\ (m \in DOMAIN scene.folder => scene.folder[m] \in Seq(Text))
      BY PackersAssumption
    <2>3. QED  BY <1>1, <1>5, <2>1, <2>2
  <1>6. QED  BY <1>2, <1>3, <1>4, <1>5

\* Nobody packs what a pack command has made.
LEMMA PackedIsNotForPacking ==
    ASSUME scene \in Scenes, NEW u \in Users, NEW n, IsPath(u, n), job[u].mode = "pack"
    PROVE  ~ ForPacking(Target(job[u], n))
PROOF
  <1>1. n \in Names /\ job[u].tool \in Tools  BY SceneFacts
  <1>2. n \in Seq(Stems \cup Tools \cup {"out"})  BY <1>1, PackersAssumption
  <1> DEFINE m == Target(job[u], n)
  <1>3. m = Append(n, job[u].tool)  BY DEF Target
  <1>4. m[Len(m)] = job[u].tool
    <2>1. Len(m) = Len(n) + 1 /\ m[Len(n) + 1] = job[u].tool  BY <1>1, <1>2, <1>3, AppendProperties
    <2>2. QED  BY <2>1
  <1> HIDE DEF m
  <1>5. ASSUME NEW v \in Users, job[v].mode = "pack", IsPath(v, m), Acts(job[v], m)  PROVE FALSE
    <2>1. m[Len(m)] \notin Tools  BY <1>5, SceneFacts
    <2>2. QED  BY <1>1, <1>4, <2>1
  <1>6. QED  BY <1>5 DEF ForPacking, m

\* A step of u leaves the variables of the others alone.
Alone(u) ==
    /\ UNCHANGED <<scene, dear>>
    /\ \A v \in Users \ {u} :
          /\ pc'[v] = pc[v] /\ left'[v] = left[v] /\ src'[v] = src[v] /\ got'[v] = got[v]
          /\ out'[v] = out[v] /\ dst'[v] = dst[v] /\ at'[v] = at[v] /\ status'[v] = status[v]

UserStep(u) == Start(u) \/ Step(u) \/ Fails(u) \/ Kill(u)

LEMMA NextPathFacts ==
    ASSUME TypeOK, NEW u \in Users, NEW s, NextPath(u, s)
    PROVE  /\ Alone(u)
           /\ pc'[u] = "source" /\ left'[u] = Tail(left[u]) /\ src'[u] = 0 /\ dst'[u] = 0 /\ at'[u] = 0
           /\ got'[u] = <<>> /\ out'[u] = <<>> /\ status'[u] = Combined(status[u], s)
PROOF
  BY DEF TypeOK, NextPath, Alone, Goto, given

LEMMA StepIsAlone ==
    ASSUME TypeOK, NEW u \in Users, UserStep(u)
    PROVE  Alone(u)
PROOF
  <1>1. ASSUME NEW s, NextPath(u, s)  PROVE Alone(u)
    BY <1>1, NextPathFacts
  <1>2. CASE Start(u)  BY <1>2 DEF TypeOK, Start, Alone, Goto, given
  <1>3. CASE Source(u)  BY <1>1, <1>3 DEF TypeOK, Source, Alone, Goto, given
  <1>4. CASE Read(u)  BY <1>4 DEF TypeOK, Read, Alone, Goto, given
  <1>5. CASE Lists(u)  BY <1>1, <1>5 DEF Lists
  <1>6. CASE Skips(u)  BY <1>1, <1>6 DEF Skips
  <1>7. CASE Code(u)
    <2>1. (\E s : NextPath(u, s)) \/ UNCHANGED vars
          \/ \E o, where : /\ out' = [out EXCEPT ![u] = o] /\ Goto(u, where)
                           /\ UNCHANGED <<scene, dear, left, src, got, dst, at, status>>
      BY <1>7 DEF Code
    <2>2. CASE UNCHANGED vars  BY <2>2 DEF vars, Alone, given
    <2>3. CASE \E o, where : /\ out' = [out EXCEPT ![u] = o] /\ Goto(u, where)
                             /\ UNCHANGED <<scene, dear, left, src, got, dst, at, status>>
      BY <2>3 DEF TypeOK, Alone, Goto
    <2>4. QED  BY <1>1, <2>1, <2>2, <2>3
  <1>8. CASE Stat(u)  BY <1>1, <1>8 DEF TypeOK, Stat, Alone, Goto, given
  <1>9. CASE Open(u)  BY <1>9 DEF TypeOK, Open, Alone, Goto, given
  <1>10. CASE Write(u)  BY <1>1, <1>10 DEF TypeOK, Write, Alone, Goto, given
  <1>11. CASE Remove(u)  BY <1>1, <1>11 DEF Remove
  <1>12. CASE Return(u)  BY <1>12 DEF TypeOK, Return, Alone, Goto, given
  <1>13. CASE Fails(u)  BY <1>1, <1>13 DEF Fails
  <1>14. CASE Kill(u)  BY <1>14 DEF TypeOK, Kill, Alone, Goto, given
  <1>15. QED
    BY <1>2, <1>3, <1>4, <1>5, <1>6, <1>7, <1>8, <1>9, <1>10, <1>11, <1>12, <1>13, <1>14
    DEF UserStep, Step

\* What a command makes while nothing is too large, it makes of what fits.
LEMMA HugeStep ==
    ASSUME TypeOK, NEW u \in Users, UserStep(u)
    PROVE  /\ huge' \in BOOLEAN /\ (~huge' => ~huge)
           /\ Code(u) /\ pc'[u] # "source" => UNCHANGED vars \/ huge' \/ Fits(job[u].tool, got[u])
PROOF
  <1>1. ASSUME NEW s, NextPath(u, s)  PROVE huge' = huge /\ pc'[u] = "source"
    BY <1>1, NextPathFacts DEF NextPath, given
  <1>2. CASE Code(u)
    <2>1. \/ \E s : NextPath(u, s)
          \/ UNCHANGED vars
          \/ huge' = (huge \/ ~Fits(job[u].tool, got[u]))
      BY <1>2 DEF Code
    <2>2. CASE \E s : NextPath(u, s)  BY <1>1, <2>2 DEF TypeOK
    <2>3. CASE UNCHANGED vars  BY <2>3 DEF TypeOK, vars
    <2>4. CASE huge' = (huge \/ ~Fits(job[u].tool, got[u]))  BY <2>4
    <2>5. QED  BY <2>1, <2>2, <2>3, <2>4
  <1>3. CASE ~Code(u)
    <2>1. huge' = huge
      BY <1>1, <1>3
      DEF UserStep, Step, Start, Source, Read, Lists, Skips, Stat, Open, Write, Remove, Return, Fails, Kill, given
    <2>2. QED  BY <1>3, <2>1 DEF TypeOK
  <1>4. QED  BY <1>2, <1>3

LEMMA PlacedFacts ==
    ASSUME NEW S, Hole \in S, NEW c \in Seq(S), NEW i \in Nat \ {0}, NEW x \in S
    PROVE  /\ Placed(c, i, x) \in Seq(S)
           /\ Len(Placed(c, i, x)) \in {i, Len(c)}
           /\ i \in DOMAIN Placed(c, i, x) /\ DOMAIN c \subseteq DOMAIN Placed(c, i, x)
           /\ Placed(c, i, x)[i] = x
           /\ \A k \in 1..Len(c) : k # i => Placed(c, i, x)[k] = c[k]
PROOF
  <1> DEFINE n == Larger(Len(c), i)
             p == Placed(c, i, x)
  <1>1. n \in {i, Len(c)} /\ n \in Nat /\ Len(c) \in Nat /\ n >= Len(c) /\ n >= i  BY DEF Larger
  <1>2. p = [k \in 1..n |-> IF k = i THEN x ELSE IF k <= Len(c) THEN c[k] ELSE Hole]
    BY DEF Placed
  <1> HIDE DEF n, p
  <1>3. \A k \in 1..n : p[k] = IF k = i THEN x ELSE IF k <= Len(c) THEN c[k] ELSE Hole
    BY <1>2
  <1>4. \A k \in 1..n : p[k] \in S
    <2>1. ASSUME NEW k \in 1..n  PROVE p[k] \in S
      <3>1. CASE k = i  BY <1>3, <3>1
      <3>2. CASE k # i /\ k <= Len(c)
        <4>1. k \in 1..Len(c)  BY <1>1, <3>2
        <4>2. p[k] = c[k]  BY <1>3, <3>2
        <4>3. QED  BY <4>1, <4>2
      <3>3. CASE k # i /\ ~(k <= Len(c))  BY <1>3, <3>3
      <3>4. QED  BY <3>1, <3>2, <3>3
    <2>2. QED  BY <2>1
  <1>5. p \in Seq(S) /\ Len(p) = n
    <2>1. p \in [1..n -> S]  BY <1>2, <1>4
    <2>2. QED  BY <1>1, <2>1
  <1>6. p[i] = x  BY <1>1, <1>3
  <1>7. ASSUME NEW k \in 1..Len(c), k # i  PROVE p[k] = c[k]
    <2>1. k \in 1..n /\ k <= Len(c)  BY <1>1
    <2>2. QED  BY <1>3, <1>7, <2>1
  <1>8. i \in DOMAIN p /\ DOMAIN c \subseteq DOMAIN p  BY <1>1, <1>5
  <1>9. QED  BY <1>1, <1>5, <1>6, <1>7, <1>8 DEF n, p

\* What the steps that change the directory or a file do to them.
Still == UNCHANGED disk
Opens(u) ==
    /\ pc[u] = "open" /\ pc'[u] = "write" /\ UNCHANGED <<left, src, got, out, at, status>>
    /\ there' = [there EXCEPT ![To(u)] = TRUE]
    /\ \A n \in Names \ {To(u)} : files'[n] = files[n]
    /\ LET old == files[To(u)]
           new == files'[To(u)]
       IN  /\ dst'[u] = Len(new) /\ new # <<>> /\ new[Len(new)] = <<>>
           /\ Len(new) = IF there[To(u)] THEN Len(old) ELSE Len(old) + 1
           /\ \A i \in 1..(Len(new) - 1) : new[i] = old[i]
Writes(u) ==
    /\ pc[u] = "write" /\ pc'[u] = "write" /\ UNCHANGED <<there, left, src, got, out, dst, status>>
    /\ at[u] < Len(out[u]) /\ at'[u] = at[u] + 1
    /\ \A n \in Names \ {To(u)} : files'[n] = files[n]
    /\ LET old == files[To(u)]
           new == files'[To(u)]
       IN  /\ Len(new) = Len(old)
           /\ \A i \in DOMAIN old \ {dst[u]} : new[i] = old[i]
           /\ new[dst[u]] = Placed(old[dst[u]], at[u] + 1, out[u][at[u] + 1])
Removes(u) ==
    /\ pc[u] = "remove" /\ UNCHANGED files /\ NextPath(u, 0)
    /\ there' = [there EXCEPT ![Path(u)] = FALSE] \/ (scene.mishaps /\ UNCHANGED there)

LEMMA DiskSteps ==
    ASSUME TypeOK, NEW u \in Users, UserStep(u)
    PROVE  Still \/ Open(u) \/ (Write(u) /\ at[u] < Len(out[u])) \/ Removes(u)
PROOF
  <1>1. CASE Start(u) \/ Source(u) \/ Read(u) \/ Lists(u) \/ Skips(u) \/ Stat(u) \/ Return(u)
    BY <1>1 DEF Start, Source, Read, Lists, Skips, Stat, Return, Still, disk
  <1>2. CASE Code(u) \/ Fails(u) \/ Kill(u)
    BY <1>2 DEF Code, Fails, Kill, Still, disk
  <1>3. CASE Open(u)  BY <1>3
  <1>4. CASE Remove(u)
    BY <1>4 DEF Remove, Removes
  <1>5. CASE Write(u)
    <2>1. CASE at[u] < Len(out[u])  BY <1>5, <2>1
    <2>2. CASE ~(at[u] < Len(out[u]))
      BY <1>5, <2>2 DEF Write, Still, disk
    <2>3. QED  BY <2>1, <2>2
  <1>6. QED  BY <1>1, <1>2, <1>3, <1>4, <1>5 DEF UserStep, Step

\* Where a command is making a file, its target is a name.
LEMMA TargetIsName ==
    ASSUME Base, NEW u \in Users, pc[u] \in Making
    PROVE  /\ To(u) \in Names /\ Path(u) \in Names /\ IsPath(u, Path(u)) /\ Acts(job[u], Path(u))
           /\ To(u) = Target(job[u], Path(u)) /\ left[u] # <<>> /\ left[u] \in Seq(Names)
           /\ ForPacking(To(u)) => out[u] \in Seq(Text)
PROOF
  <1>1. Placing(u) /\ scene \in Scenes /\ left[u] \in Seq(Names)  BY DEF Base, TypeOK
  <1>2. left[u] # <<>> /\ Acts(job[u], Path(u))  BY <1>1 DEF Placing, Making, OnPath
  <1>3. 1 \in DOMAIN left[u] /\ Path(u) = left[u][1]  BY <1>1, <1>2 DEF Path
  <1>4. IsPath(u, Path(u))  BY <1>1, <1>3 DEF Placing
  <1>5. Target(job[u], Path(u)) \in Names /\ Path(u) \in Names  BY <1>1, <1>2, <1>4, SceneFacts
  <1>6. job[u].mode = "pack" => ~ ForPacking(To(u))  BY <1>1, <1>4, PackedIsNotForPacking DEF To
  <1>7. job[u].mode # "pack" => out[u] \in Seq(Text)  BY <1>1 DEF Placing
  <1>8. QED  BY <1>1, <1>2, <1>4, <1>5, <1>6, <1>7 DEF To

LEMMA OpenIsOpens ==
    ASSUME Base, NEW u \in Users, Open(u)
    PROVE  /\ Opens(u) /\ there' \in [Names -> BOOLEAN] /\ files' \in [Names -> Seq(Seq(Piece))]
           /\ dst'[u] \in Nat \ {0}
PROOF
  <1> DEFINE t == To(u)
             old == files[t]
             new == files'[t]
  <1>1. t \in Names  BY TargetIsName DEF Open, Making
  <1>2. /\ files \in [Names -> Seq(Seq(Piece))] /\ there \in [Names -> BOOLEAN]
        /\ there[t] => files[t] # <<>>
        /\ dst \in [Users -> Nat] /\ pc \in [Users -> {"idle", "source", "read", "code", "stat", "open", "write", "remove", "done"}]
    BY <1>1 DEF Base, TypeOK
  <1>3. old \in Seq(Seq(Piece)) /\ Len(old) \in Nat /\ <<>> \in Seq(Piece)  BY <1>1, <1>2
  <1>4. files' = [files EXCEPT ![t] = IF there[t] THEN [@ EXCEPT ![Len(@)] = <<>>] ELSE Append(@, <<>>)]
        /\ there' = [there EXCEPT ![t] = TRUE]
        /\ dst' = [dst EXCEPT ![u] = Len(files'[t])]
        /\ pc' = [pc EXCEPT ![u] = "write"]
        /\ pc[u] = "open" /\ UNCHANGED <<left, src, got, out, at, status>>
    BY DEF Open, Goto
  <1>5. /\ new = IF there[t] THEN [old EXCEPT ![Len(old)] = <<>>] ELSE Append(old, <<>>)
        /\ \A n \in Names \ {t} : files'[n] = files[n]
    BY <1>1, <1>2, <1>4
  <1>6. PICK e \in Seq(Piece) : e = <<>>  BY <1>3
  <1> HIDE DEF t, old, new
  <1>7. /\ new \in Seq(Seq(Piece)) /\ Len(new) \in Nat \ {0} /\ new[Len(new)] = <<>>
        /\ Len(new) = IF there[t] THEN Len(old) ELSE Len(old) + 1
        /\ \A i \in 1..(Len(new) - 1) : new[i] = old[i]
    <2>1. CASE there[t]
      <3>1. new = [old EXCEPT ![Len(old)] = e] /\ old # <<>>  BY <1>2, <1>5, <1>6, <2>1 DEF old
      <3>2. Len(old) \in 1..Len(old) /\ DOMAIN old = 1..Len(old)  BY <1>3, <3>1
      <3>3. new \in Seq(Seq(Piece)) /\ Len(new) = Len(old) /\ new[Len(old)] = e
            /\ \A i \in 1..(Len(old) - 1) : new[i] = old[i]
        <4>1. /\ new \in Seq(Seq(Piece)) /\ Len(new) = Len(old)
              /\ \A i \in 1..Len(old) : new[i] = IF i = Len(old) THEN e ELSE old[i]
          BY <1>3, <3>1, <3>2, ExceptSeq
        <4>2. new[Len(old)] = e  BY <3>2, <4>1
        <4>3. \A i \in 1..(Len(old) - 1) : i \in 1..Len(old) /\ i # Len(old)  BY <1>3
        <4>4. QED  BY <4>1, <4>2, <4>3
      <3>4. QED  BY <1>3, <1>6, <2>1, <3>2, <3>3
    <2>2. CASE ~there[t]
      <3>1. new = Append(old, e)  BY <1>5, <1>6, <2>2
      <3>2. new \in Seq(Seq(Piece)) /\ Len(new) = Len(old) + 1 /\ new[Len(old) + 1] = e
            /\ \A i \in 1..Len(old) : new[i] = old[i]
        BY <1>3, <3>1, AppendProperties
      <3>3. QED  BY <1>3, <1>6, <2>2, <3>2
    <2>3. QED  BY <2>1, <2>2
  <1>8. files' \in [Names -> Seq(Seq(Piece))]
    <2>1. \A n \in Names : files'[n] \in Seq(Seq(Piece))  BY <1>2, <1>5, <1>7 DEF new
    <2>2. files' = [n \in Names |-> files'[n]]  BY <1>2, <1>4
    <2>3. QED  BY <2>1, <2>2
  <1>9. dst'[u] = Len(new) /\ pc'[u] = "write"  BY <1>2, <1>4 DEF new
  <1>10. there' \in [Names -> BOOLEAN]  BY <1>2, <1>4
  <1>11. QED  BY <1>4, <1>5, <1>7, <1>8, <1>9, <1>10 DEF Opens, t, old, new

LEMMA WriteIsWrites ==
    ASSUME Base, NEW u \in Users, Write(u), at[u] < Len(out[u])
    PROVE  /\ Writes(u) /\ files' \in [Names -> Seq(Seq(Piece))]
           /\ out[u][at[u] + 1] \in Piece /\ at[u] + 1 \in Nat \ {0} /\ at[u] + 1 \in 1..Len(out[u])
           /\ dst[u] \in DOMAIN files[To(u)]
PROOF
  <1> DEFINE t == To(u)
             d == dst[u]
             old == files[t]
             new == files'[t]
             x == out[u][at[u] + 1]
  <1>1. t \in Names /\ pc[u] = "write"  BY TargetIsName DEF Write, Making
  <1>2. /\ files \in [Names -> Seq(Seq(Piece))]
        /\ at \in [Users -> Nat] /\ out[u] \in Seq(Piece)
    BY DEF Base, TypeOK
  <1>3. d \in DOMAIN old  BY <1>1 DEF Base, Placing
  <1>4. old \in Seq(Seq(Piece)) /\ old[d] \in Seq(Piece)  BY <1>1, <1>2, <1>3
  <1>5. at[u] + 1 \in Nat \ {0} /\ at[u] + 1 \in 1..Len(out[u]) /\ x \in Piece  BY <1>2
  <1>6. /\ files' = [files EXCEPT ![t][d] = Placed(@, at[u] + 1, x)]
        /\ at' = [at EXCEPT ![u] = @ + 1]
        /\ UNCHANGED <<there, pc, left, src, got, out, dst, status>>
    BY DEF Write
  <1>7. new = [old EXCEPT ![d] = Placed(old[d], at[u] + 1, x)] /\ \A n \in Names \ {t} : files'[n] = files[n]
    BY <1>1, <1>2, <1>6
  <1>8. Placed(old[d], at[u] + 1, x) \in Seq(Piece)
    <2>1. Hole \in Piece  BY DEF Piece, Text
    <2> HIDE DEF x, old, d
    <2>2. QED  BY <1>4, <1>5, <2>1, PlacedFacts
  <1>9. at'[u] = at[u] + 1  BY <1>2, <1>6
  <1> HIDE DEF t, d, old, new, x
  <1>10. new \in Seq(Seq(Piece)) /\ Len(new) = Len(old)
         /\ new[d] = Placed(old[d], at[u] + 1, x) /\ \A i \in DOMAIN old \ {d} : new[i] = old[i]
    BY <1>3, <1>4, <1>7, <1>8
  <1>11. files' \in [Names -> Seq(Seq(Piece))]
    <2>1. \A n \in Names : files'[n] \in Seq(Seq(Piece))  BY <1>2, <1>7, <1>10 DEF new
    <2>2. files' = [n \in Names |-> files'[n]]  BY <1>2, <1>6
    <2>3. QED  BY <2>1, <2>2
  <1>12. QED  BY <1>1, <1>3, <1>5, <1>6, <1>7, <1>9, <1>10, <1>11 DEF Writes, t, d, old, new, x

\* The parts of TypeOK.
Places == {"idle", "source", "read", "code", "stat", "open", "write", "remove", "done"}
UserTypes ==
    /\ pc \in [Users -> Places]
    /\ left \in [Users -> Seq(Names)]
    /\ src \in [Users -> Nat] /\ dst \in [Users -> Nat] /\ at \in [Users -> Nat]
    /\ got \in [Users -> Seq(Piece)] /\ out \in [Users -> Seq(Piece)]
    /\ status \in [Users -> {0, 1, 137}]
DiskTypes ==
    /\ files \in [Names -> Seq(Seq(Piece))]
    /\ there \in [Names -> BOOLEAN] /\ \A n \in Names : there[n] => files[n] # <<>>
GivenTypes ==
    scene.alone \in BOOLEAN /\ scene.mishaps \in BOOLEAN /\ dear \subseteq Letters /\ huge \in BOOLEAN

LEMMA TypeParts == TypeOK <=> UserTypes /\ DiskTypes /\ GivenTypes
PROOF
  BY DEF TypeOK, UserTypes, DiskTypes, GivenTypes, Places

LEMMA NextPathTypes ==
    ASSUME UserTypes, NEW u \in Users, NEW s \in {0, 1}, left[u] # <<>>, NextPath(u, s)
    PROVE  UserTypes'
PROOF
  <1>1. Tail(left[u]) \in Seq(Names)  BY DEF UserTypes
  <1>2. Combined(status[u], s) \in {0, 1, 137}  BY DEF UserTypes, Combined
  <1>3. <<>> \in Seq(Piece)  OBVIOUS
  <1>4. pc' \in [Users -> Places]  BY DEF UserTypes, NextPath, Goto, Places
  <1>5. left' \in [Users -> Seq(Names)]  BY <1>1 DEF UserTypes, NextPath
  <1>6. src' \in [Users -> Nat] /\ dst' \in [Users -> Nat] /\ at' \in [Users -> Nat]
    BY DEF UserTypes, NextPath
  <1>7. got' \in [Users -> Seq(Piece)] /\ out' \in [Users -> Seq(Piece)]
    BY <1>3 DEF UserTypes, NextPath
  <1>8. status' \in [Users -> {0, 1, 137}]  BY <1>2 DEF UserTypes, NextPath
  <1>9. QED  BY <1>4, <1>5, <1>6, <1>7, <1>8 DEF UserTypes

LEMMA SomePath ==
    ASSUME Base, NEW u \in Users, left[u] # <<>>
    PROVE  /\ Path(u) = left[u][1] /\ 1 \in DOMAIN left[u] /\ Path(u) \in Names /\ IsPath(u, Path(u))
           /\ Tail(left[u]) \in Seq(Names)
           /\ \A i \in DOMAIN Tail(left[u]) : IsPath(u, Tail(left[u])[i])
PROOF
  <1>1. left[u] \in Seq(Names) /\ Placing(u) /\ scene \in Scenes  BY DEF Base, TypeOK
  <1>2. 1 \in DOMAIN left[u] /\ Path(u) = left[u][1]  BY <1>1 DEF Path
  <1>3. \A i \in DOMAIN left[u] : IsPath(u, left[u][i])  BY <1>1 DEF Placing
  <1>4. Path(u) \in Names /\ IsPath(u, Path(u))  BY <1>1, <1>2, <1>3
  <1>5. Tail(left[u]) \in Seq(Names) /\ Len(Tail(left[u])) = Len(left[u]) - 1
        /\ \A i \in 1..Len(Tail(left[u])) : Tail(left[u])[i] = left[u][i + 1]
    BY <1>1, HeadTailProperties
  <1>6. ASSUME NEW i \in DOMAIN Tail(left[u])  PROVE IsPath(u, Tail(left[u])[i])
    <2>1. i + 1 \in DOMAIN left[u] /\ Tail(left[u])[i] = left[u][i + 1]  BY <1>1, <1>5
    <2>2. QED  BY <1>3, <2>1
  <1>7. QED  BY <1>2, <1>4, <1>5, <1>6

\* The codec gets a file that is what it takes.
LEMMA CodeResult ==
    ASSUME Base, NEW u \in Users, Code(u)
    PROVE  LET r == Result(job[u], got[u])
           IN  /\ left[u] # <<>>
               /\ job[u].stdout \/ job[u].mode = "test" \/ Acts(job[u], Path(u))
               /\ Acts(job[u], Path(u)) =>
                     r.out \in Seq(Piece) /\ (job[u].mode # "pack" => r.out \in Seq(Text))
PROOF
  <1> DEFINE r == Result(job[u], got[u])
  <1>1. scene \in Scenes /\ Placing(u) /\ got[u] \in Seq(Piece)  BY DEF Base, TypeOK
  <1>2. job[u] \in Job /\ job[u].mode \in {"pack", "unpack", "test", "list"}  BY <1>1, SceneFacts DEF Job
  <1>3. pc[u] = "code" /\ job[u].mode # "list" /\ ~(job[u].mode = "pack" /\ Suffixed(job[u].tool, Path(u)))
    BY DEF Code
  <1>4. left[u] # <<>>  BY <1>1, <1>3 DEF Placing, OnPath
  <1>5. job[u].stdout \/ job[u].mode = "test" \/ Acts(job[u], Path(u))  BY <1>2, <1>3 DEF Acts
  <1>6. Acts(job[u], Path(u)) /\ job[u].mode = "pack" => got[u] \in Seq(Text)
    BY <1>1, <1>3 DEF Placing, OnPath
  <1>7. QED  BY <1>1, <1>2, <1>4, <1>5, <1>6, ResultFacts

\* A codec says that all is well, that something is wrong, or nothing ever.
LEMMA ResultOk ==
    ASSUME NEW j, NEW c, j.mode # "pack" => j.tool \in Tools
    PROVE  Result(j, c).res \in {"ok", "bad", "never"}
PROOF
  <1>1. /\ \A o : Good(o).res = "ok"
        /\ Bad.res = "bad" /\ Never.res = "never"
    BY DEF Good, Bad, Never
  <1>2. CASE j.mode = "pack"  BY <1>1, <1>2 DEF Result
  <1>3. CASE j.mode # "pack"
    <2>1. j.tool \in Tools /\ Result(j, c) = Unpack(j.tool, c)  BY <1>3 DEF Result
    <2>2. CASE j.tool = "gzip"  BY <1>1, <2>1, <2>2 DEF Unpack, Gunzip
    <2>3. CASE j.tool = "bzip2"
      <3>1. ASSUME NEW x  PROVE AllBzip2(x).res \in {"ok", "bad", "never"}
        BY <1>1 DEF AllBzip2
      <3>2. ASSUME NEW x, NEW o  PROVE [AllBzip2(x) EXCEPT !.out = o].res = AllBzip2(x).res
        BY DEF AllBzip2, Good, Bad, Never
      <3> DEFINE seen == Cast(c)
                 more == AllBzip2(SubSeq(c, Len(c) - Len(seen) + 3, Len(c)))
      <3>3. Bunzip2(c) \in {AllBzip2(c), AllBzip2(seen), Never, [more EXCEPT !.out = c[1].of \o @]}
        BY DEF Bunzip2
      <3>4. [more EXCEPT !.out = c[1].of \o @].res \in {"ok", "bad", "never"}  BY <3>1, <3>2
      <3> HIDE DEF seen, more
      <3>5. Bunzip2(c).res \in {"ok", "bad", "never"}  BY <1>1, <3>1, <3>3, <3>4
      <3>6. QED  BY <2>1, <2>3, <3>5 DEF Unpack
    <2>4. CASE j.tool = "xz"  BY <1>1, <2>1, <2>4 DEF Unpack, Unxz
    <2>5. CASE j.tool = "zstd"  BY <1>1, <2>1, <2>5 DEF Unpack, Unzstd
    <2>6. QED  BY <2>1, <2>2, <2>3, <2>4, <2>5 DEF Tools
  <1>4. QED  BY <1>2, <1>3

LEMMA UserTypesStep ==
    ASSUME Base, NEW u \in Users, UserStep(u)
    PROVE  UserTypes'
PROOF
  <1>1. UserTypes /\ TypeOK /\ Placing(u)  BY TypeParts DEF Base
  <1>2. ASSUME NEW s \in {0, 1}, left[u] # <<>>, NextPath(u, s)  PROVE UserTypes'
    BY <1>1, <1>2, NextPathTypes
  <1>3. pc[u] \in OnPath => left[u] # <<>>  BY <1>1 DEF Placing
  <1>4. ASSUME NEW w \in Places, Goto(u, w), UNCHANGED <<left, src, got, out, dst, at, status>>
        PROVE  UserTypes'
    BY <1>1, <1>4 DEF UserTypes, Goto
  <1>5. CASE Start(u)  BY <1>4, <1>5 DEF Start, Places
  <1>6. CASE Source(u)
    <2>1. CASE there[Path(u)]
      <3>1. Path(u) \in Names  BY <1>6, SomePath DEF Source
      <3>2. Len(files[Path(u)]) \in Nat  BY <1>1, <3>1 DEF TypeOK
      <3>3. /\ src' = [src EXCEPT ![u] = Len(files[Path(u)])]
            /\ Goto(u, "read") /\ UNCHANGED <<left, got, out, dst, at, status>>
        BY <1>6, <2>1 DEF Source
      <3> DEFINE e == Len(files[Path(u)])
      <3>4. e \in Nat /\ src' = [src EXCEPT ![u] = e]  BY <3>2, <3>3
      <3> HIDE DEF e
      <3>5. QED  BY <1>1, <3>3, <3>4 DEF UserTypes, Goto, Places
    <2>2. CASE ~there[Path(u)]  BY <1>2, <1>6, <2>2 DEF Source
    <2>3. QED  BY <2>1, <2>2
  <1>7. CASE Read(u)
    <2> DEFINE c == files[Path(u)][src[u]]
    <2>1. pc[u] = "read" /\ left[u] # <<>>  BY <1>3, <1>7 DEF Read, OnPath
    <2>2. Path(u) \in Names /\ src[u] \in DOMAIN files[Path(u)]  BY <1>1, <2>1, SomePath DEF Placing
    <2>3. c \in Seq(Piece)  BY <1>1, <2>2 DEF TypeOK
    <2>4. CASE Len(got[u]) < Len(c)
      <3>1. got[u] \in Seq(Piece)  BY <1>1 DEF UserTypes
      <3>2. c[Len(got[u]) + 1] \in Piece  BY <2>3, <2>4, <3>1
      <3>3. Append(got[u], c[Len(got[u]) + 1]) \in Seq(Piece)  BY <3>1, <3>2
      <3>4. got' = [got EXCEPT ![u] = Append(@, c[Len(@) + 1])] /\ UNCHANGED <<pc, left, src, out, dst, at, status>>
        BY <1>7, <2>4 DEF Read
      <3>5. got' \in [Users -> Seq(Piece)]  BY <1>1, <3>3, <3>4 DEF UserTypes
      <3>6. QED  BY <1>1, <3>4, <3>5 DEF UserTypes
    <2>5. CASE ~(Len(got[u]) < Len(c))  BY <1>4, <1>7, <2>5 DEF Read, Places
    <2>6. QED  BY <2>4, <2>5
  <1>8. CASE Lists(u) \/ Skips(u)
    <2>1. left[u] # <<>>  BY <1>3, <1>8 DEF Lists, Skips, OnPath
    <2>2. \E s \in {0, 1} : NextPath(u, s)  BY <1>8 DEF Lists, Skips
    <2>3. QED  BY <1>2, <2>1, <2>2
  <1>9. CASE Code(u)
    <2> DEFINE r == Result(job[u], got[u])
    <2>1. /\ left[u] # <<>>
          /\ job[u].stdout \/ job[u].mode = "test" \/ Acts(job[u], Path(u))
          /\ Acts(job[u], Path(u)) => r.out \in Seq(Piece)
      BY <1>9, CodeResult
    <2>2. (\E s \in {0, 1} : NextPath(u, s)) \/ UNCHANGED vars
          \/ /\ out' = [out EXCEPT ![u] = r.out] /\ (\E w \in Places : Goto(u, w))
             /\ UNCHANGED <<left, src, got, dst, at, status>> /\ ~(job[u].stdout \/ job[u].mode = "test")
      <3> HIDE DEF r
      <3>1. CASE r.res \in {"bad", "never"}  BY <1>9, <3>1 DEF Code, r
      <3>2. CASE r.res \notin {"bad", "never"} /\ (job[u].stdout \/ job[u].mode = "test") /\ r.res = "ok"
        BY <1>9, <3>2 DEF Code, r
      <3>3. CASE r.res \notin {"bad", "never"} /\ ~(r.res = "ok" /\ (job[u].stdout \/ job[u].mode = "test"))
        <4>1. /\ out' = [out EXCEPT ![u] = r.out]
              /\ Goto(u, IF job[u].force THEN "open" ELSE "stat")
              /\ UNCHANGED <<left, src, got, dst, at, status>>
          BY <1>9, <3>3 DEF Code, r
        <4>2. r.res = "ok"  BY <1>1, <3>3, ResultOk, SceneFacts DEF r, Base
        <4>3. QED  BY <3>3, <4>1, <4>2 DEF Places
      <3>4. QED  BY <3>1, <3>2, <3>3
    <2>3. CASE UNCHANGED vars  BY <1>1, <2>3 DEF vars, UserTypes
    <2>4. CASE /\ out' = [out EXCEPT ![u] = r.out] /\ (\E w \in Places : Goto(u, w))
               /\ UNCHANGED <<left, src, got, dst, at, status>> /\ ~(job[u].stdout \/ job[u].mode = "test")
      <3>1. r.out \in Seq(Piece)  BY <2>1, <2>4
      <3> HIDE DEF r
      <3>2. QED  BY <1>1, <2>4, <3>1 DEF UserTypes, Goto
    <2>5. QED  BY <1>2, <2>1, <2>2, <2>3, <2>4
  <1>10. CASE Stat(u)
    <2>1. left[u] # <<>>  BY <1>3, <1>10 DEF Stat, OnPath
    <2>2. QED  BY <1>2, <1>4, <1>10, <2>1 DEF Stat, Places
  <1>11. CASE Open(u)
    <2>1. dst'[u] \in Nat /\ dst' = [dst EXCEPT ![u] = dst'[u]]
      BY <1>1, <1>11, OpenIsOpens DEF Open, UserTypes
    <2>2. dst' \in [Users -> Nat]  BY <1>1, <2>1 DEF UserTypes
    <2>3. QED  BY <1>1, <1>11, <2>2 DEF Open, Goto, UserTypes, Places
  <1>12. CASE Write(u)
    <2>1. left[u] # <<>>  BY <1>3, <1>12 DEF Write, OnPath
    <2>2. CASE at[u] < Len(out[u])
      <3>1. at' = [at EXCEPT ![u] = @ + 1] /\ UNCHANGED <<pc, left, src, got, out, dst, status>>
        BY <1>12, <2>2 DEF Write
      <3>2. QED  BY <1>1, <3>1 DEF UserTypes
    <2>3. CASE ~(at[u] < Len(out[u]))  BY <1>2, <1>4, <1>12, <2>1, <2>3 DEF Write, Places
    <2>4. QED  BY <2>2, <2>3
  <1>13. CASE Remove(u)
    <2>1. left[u] # <<>>  BY <1>3, <1>13 DEF Remove, OnPath
    <2>2. QED  BY <1>2, <1>13, <2>1 DEF Remove
  <1>14. CASE Fails(u)  BY <1>2, <1>14 DEF Fails
  <1>15. CASE Return(u)  BY <1>4, <1>15 DEF Return, Places
  <1>16. CASE Kill(u)  BY <1>1, <1>16 DEF Kill, UserTypes, Goto, Places
  <1>17. QED
    BY <1>5, <1>6, <1>7, <1>8, <1>9, <1>10, <1>11, <1>12, <1>13, <1>14, <1>15, <1>16
    DEF UserStep, Step

\* No step takes a file away, or makes a name empty that has had one.
LEMMA DiskTypesStep ==
    ASSUME Base, NEW u \in Users, UserStep(u)
    PROVE  DiskTypes' /\ \A n \in Names : DOMAIN files[n] \subseteq DOMAIN files'[n]
PROOF
  <1>1. DiskTypes /\ TypeOK  BY TypeParts DEF Base
  <1>2. CASE Still  BY <1>1, <1>2 DEF Still, disk, DiskTypes
  <1>3. CASE Open(u)
    <2>1. Opens(u) /\ there' \in [Names -> BOOLEAN] /\ files' \in [Names -> Seq(Seq(Piece))]
      BY <1>3, OpenIsOpens
    <2>2. To(u) \in Names  BY <1>3, TargetIsName DEF Open, Making
    <2>3. files[To(u)] \in Seq(Seq(Piece)) /\ files'[To(u)] \in Seq(Seq(Piece))  BY <1>1, <2>1, <2>2 DEF DiskTypes
    <2>4. Len(files'[To(u)]) >= Len(files[To(u)]) /\ files'[To(u)] # <<>>
      BY <2>1, <2>3 DEF Opens
    <2>5. \A n \in Names \ {To(u)} : files'[n] = files[n] /\ there'[n] = there[n]
      BY <1>1, <2>1 DEF Opens, DiskTypes
    <2>6. DOMAIN files[To(u)] \subseteq DOMAIN files'[To(u)]  BY <2>3, <2>4
    <2>7. \A n \in Names : DOMAIN files[n] \subseteq DOMAIN files'[n]  BY <2>5, <2>6
    <2>8. \A n \in Names : there'[n] => files'[n] # <<>>  BY <1>1, <2>4, <2>5 DEF DiskTypes
    <2>9. QED  BY <2>1, <2>7, <2>8 DEF DiskTypes
  <1>4. CASE Write(u) /\ at[u] < Len(out[u])
    <2>1. Writes(u) /\ files' \in [Names -> Seq(Seq(Piece))] /\ dst[u] \in DOMAIN files[To(u)]
      BY <1>4, WriteIsWrites
    <2>2. To(u) \in Names  BY <1>4, TargetIsName DEF Write, Making
    <2>3. files[To(u)] \in Seq(Seq(Piece)) /\ files'[To(u)] \in Seq(Seq(Piece))  BY <1>1, <2>1, <2>2 DEF DiskTypes
    <2>4. Len(files'[To(u)]) = Len(files[To(u)]) /\ there' = there  BY <2>1 DEF Writes
    <2>5. DOMAIN files[To(u)] = DOMAIN files'[To(u)] /\ files'[To(u)] # <<>>  BY <2>1, <2>3, <2>4
    <2>6. \A n \in Names \ {To(u)} : files'[n] = files[n]  BY <2>1 DEF Writes
    <2>7. QED  BY <1>1, <2>1, <2>4, <2>5, <2>6 DEF DiskTypes
  <1>5. CASE Removes(u)
    <2>1. files' = files  BY <1>5 DEF Removes
    <2>2. there' \in [Names -> BOOLEAN] /\ \A n \in Names : there'[n] => there[n]
      BY <1>1, <1>5 DEF Removes, DiskTypes
    <2>3. QED  BY <1>1, <2>1, <2>2 DEF DiskTypes
  <1>6. QED  BY <1>1, <1>2, <1>3, <1>4, <1>5, DiskSteps

LEMMA ForPackingStays ==
    ASSUME scene' = scene, NEW n
    PROVE  ForPacking(n)' <=> ForPacking(n)
PROOF
  BY DEF ForPacking, IsPath, Acts, job

LEMMA TextsStep ==
    ASSUME Base, NEW u \in Users, UserStep(u)
    PROVE  Texts'
PROOF
  <1>1. DiskTypes /\ TypeOK /\ Texts  BY TypeParts DEF Base
  <1>2. scene' = scene  BY <1>1, StepIsAlone DEF Alone
  <1>3. SUFFICES ASSUME NEW n \in Names, ForPacking(n), NEW i \in DOMAIN files'[n]
                 PROVE  files'[n][i] \in Seq(Text)
    BY <1>2, ForPackingStays DEF Texts
  <1>4. \A k \in DOMAIN files[n] : files[n][k] \in Seq(Text)  BY <1>1, <1>3 DEF Texts
  <1>5. CASE files'[n] = files[n]  BY <1>3, <1>4, <1>5
  <1>6. files[n] \in Seq(Seq(Piece))  BY <1>1, <1>3 DEF DiskTypes
  <1>7. CASE Open(u) /\ n = To(u)
    <2>1. Opens(u) /\ files' \in [Names -> Seq(Seq(Piece))]  BY <1>7, OpenIsOpens
    <2>2. Len(files[n]) \in Nat /\ Len(files'[n]) \in Nat /\ i \in 1..Len(files'[n])
      BY <1>3, <1>6, <2>1
    <2>3. <<>> \in Seq(Text)  OBVIOUS
    <2>4. CASE i = Len(files'[n])  BY <1>7, <2>1, <2>3, <2>4 DEF Opens
    <2>5. CASE i # Len(files'[n])
      <3>1. i \in 1..(Len(files'[n]) - 1) /\ i \in DOMAIN files[n]
        BY <1>6, <1>7, <2>1, <2>2, <2>5 DEF Opens
      <3>2. files'[n][i] = files[n][i]  BY <1>7, <2>1, <3>1 DEF Opens
      <3>3. QED  BY <1>4, <3>1, <3>2
    <2>6. QED  BY <2>4, <2>5
  <1>8. CASE Write(u) /\ at[u] < Len(out[u]) /\ n = To(u)
    <2>1. /\ Writes(u) /\ files' \in [Names -> Seq(Seq(Piece))] /\ at[u] + 1 \in Nat \ {0}
          /\ at[u] + 1 \in 1..Len(out[u]) /\ dst[u] \in DOMAIN files[To(u)]
      BY <1>8, WriteIsWrites
    <2>2. out[u] \in Seq(Text)  BY <1>3, <1>8, TargetIsName DEF Write, Making
    <2>3. i \in DOMAIN files[n]  BY <1>3, <1>6, <1>8, <2>1 DEF Writes
    <2>4. CASE i # dst[u]  BY <1>4, <1>8, <2>1, <2>3, <2>4 DEF Writes
    <2>5. CASE i = dst[u]
      <3>1. files[n][i] \in Seq(Text) /\ out[u][at[u] + 1] \in Text /\ Hole \in Text
        BY <1>4, <2>1, <2>2, <2>3 DEF Text
      <3>2. Placed(files[n][i], at[u] + 1, out[u][at[u] + 1]) \in Seq(Text)
        BY <2>1, <3>1, PlacedFacts
      <3>3. QED  BY <1>8, <2>1, <2>5, <3>2 DEF Writes
    <2>6. QED  BY <2>4, <2>5
  <1>9. Still \/ Removes(u) => files'[n] = files[n]  BY DEF Still, disk, Removes
  <1>10. Open(u) => n = To(u) \/ files'[n] = files[n]  BY <1>3, OpenIsOpens DEF Opens
  <1>11. Write(u) /\ at[u] < Len(out[u]) => n = To(u) \/ files'[n] = files[n]
    BY <1>3, WriteIsWrites DEF Writes
  <1>12. QED  BY <1>1, <1>5, <1>7, <1>8, <1>9, <1>10, <1>11, DiskSteps

\* The others stay where they are, and nothing is taken away from them.
LEMMA OthersPlaced ==
    ASSUME Base, NEW u \in Users, UserStep(u), NEW v \in Users \ {u}
    PROVE  Placing(v)'
PROOF
  <1>1. TypeOK /\ Placing(v) /\ scene \in Scenes /\ v \in Users  BY DEF Base
  <1>2. Alone(u)  BY <1>1, StepIsAlone
  <1>3. /\ scene' = scene /\ job' = job
        /\ pc'[v] = pc[v] /\ left'[v] = left[v] /\ src'[v] = src[v] /\ got'[v] = got[v]
        /\ out'[v] = out[v] /\ dst'[v] = dst[v]
    BY <1>2 DEF Alone, job
  <1>4. /\ Path(v)' = Path(v) /\ To(v)' = To(v)
        /\ \A n : IsPath(v, n)' <=> IsPath(v, n)
    BY <1>3 DEF Path, To, IsPath
  <1>5. \A n \in Names : DOMAIN files[n] \subseteq DOMAIN files'[n]  BY DiskTypesStep
  <1>6. pc[v] = "read" => Path(v) \in Names  BY <1>1, SomePath DEF Placing, OnPath
  <1>7. pc[v] = "write" => To(v) \in Names  BY <1>1, TargetIsName DEF Making
  <1>8. (\A i \in DOMAIN left[v] : IsPath(v, left[v][i]))'
    BY <1>1, <1>3 DEF Placing, IsPath
  <1>9. /\ pc'[v] \in OnPath => left'[v] # <<>>
        /\ pc'[v] = "read" => src'[v] \in DOMAIN files'[Path(v)']
        /\ pc'[v] = "write" => dst'[v] \in DOMAIN files'[To(v)']
    BY <1>1, <1>3, <1>4, <1>5, <1>6, <1>7 DEF Placing
  <1>10. QED
    BY <1>1, <1>3, <1>4, <1>8, <1>9 DEF Placing

\* The step's own part.
LEMMA MinePlaced ==
    ASSUME Base, NEW u \in Users, UserStep(u)
    PROVE  Placing(u)'
PROOF
  <1>1. TypeOK /\ Placing(u) /\ scene \in Scenes /\ UserTypes  BY TypeParts DEF Base
  <1>2. job' = job /\ scene' = scene  BY <1>1, StepIsAlone DEF Alone, job
  <1>3. \A n : IsPath(u, n)' <=> IsPath(u, n)  BY <1>2 DEF IsPath
  <1>4. pc[u] \in OnPath => left[u] # <<>>  BY <1>1 DEF Placing
  <1>5. ASSUME left'[u] = left[u]  PROVE (\A i \in DOMAIN left[u] : IsPath(u, left[u][i]))' /\ Path(u)' = Path(u) /\ To(u)' = To(u)
    BY <1>1, <1>2, <1>5 DEF Placing, IsPath, Path, To
  <1>6. ASSUME NEW s, NextPath(u, s), left[u] # <<>>  PROVE Placing(u)'
    <2>1. left'[u] = Tail(left[u]) /\ pc'[u] = "source" /\ got'[u] = <<>>  BY <1>1, <1>6, NextPathFacts
    <2>2. \A i \in DOMAIN Tail(left[u]) : IsPath(u, Tail(left[u])[i])  BY <1>6, SomePath
    <2>3. (\A i \in DOMAIN left[u] : IsPath(u, left[u][i]))'  BY <1>2, <2>1, <2>2 DEF IsPath
    <2>4. QED  BY <2>1, <2>3 DEF Placing, OnPath, Making
  <1>7. CASE Start(u)
    <2>1. pc[u] = "idle" /\ pc'[u] = "source" /\ left'[u] = left[u] /\ got'[u] = got[u]
      BY <1>1, <1>7 DEF Start, Goto, UserTypes
    <2>2. got'[u] = <<>>  BY <1>1, <2>1 DEF Placing
    <2>3. QED  BY <1>5, <2>1, <2>2 DEF Placing, OnPath, Making
  <1>8. CASE Source(u)
    <2>1. pc[u] = "source" /\ left[u] # <<>>  BY <1>8 DEF Source
    <2>2. CASE there[Path(u)]
      <3>1. Path(u) \in Names  BY <2>1, SomePath
      <3>2. pc'[u] = "read" /\ left'[u] = left[u] /\ src'[u] = Len(files[Path(u)]) /\ got'[u] = got[u]
            /\ files' = files
        BY <1>1, <1>8, <2>2 DEF Source, Goto, UserTypes, disk
      <3>3. got'[u] = <<>>  BY <1>1, <2>1, <3>2 DEF Placing
      <3>4. files[Path(u)] \in Seq(Seq(Piece)) /\ files[Path(u)] # <<>>  BY <1>1, <2>2, <3>1 DEF TypeOK
      <3>5. Len(files[Path(u)]) \in DOMAIN files[Path(u)]  BY <3>4
      <3>6. src'[u] \in DOMAIN files'[Path(u)']  BY <1>5, <3>2, <3>5
      <3>7. <<>> \in Seq(Text)  OBVIOUS
      <3>8. QED  BY <1>5, <2>1, <3>2, <3>3, <3>6, <3>7 DEF Placing, OnPath, Making
    <2>3. CASE ~there[Path(u)]
      <3>1. NextPath(u, 1)  BY <1>8, <2>3 DEF Source
      <3>2. QED  BY <1>6, <2>1, <3>1
    <2>4. QED  BY <2>2, <2>3
  <1>9. CASE Read(u)
    <2> DEFINE c == files[Path(u)][src[u]]
    <2>1. pc[u] = "read" /\ left[u] # <<>>  BY <1>4, <1>9 DEF Read, OnPath
    <2>2. Path(u) \in Names /\ IsPath(u, Path(u)) /\ src[u] \in DOMAIN files[Path(u)]
      BY <1>1, <2>1, SomePath DEF Placing
    <2>3. left'[u] = left[u] /\ src' = src /\ files' = files  BY <1>9 DEF Read, disk
    <2>4. CASE Len(got[u]) < Len(c)
      <3>1. got'[u] = Append(got[u], c[Len(got[u]) + 1]) /\ pc'[u] = "read"
        BY <1>1, <1>9, <2>1, <2>4 DEF Read, UserTypes
      <3>2. job[u].mode = "pack" /\ Acts(job[u], Path(u)) => got'[u] \in Seq(Text)
        <4>1. SUFFICES ASSUME job[u].mode = "pack", Acts(job[u], Path(u))  PROVE got'[u] \in Seq(Text)
          OBVIOUS
        <4>2. ForPacking(Path(u)) /\ got[u] \in Seq(Text)  BY <1>1, <2>1, <2>2, <4>1 DEF ForPacking, Placing, OnPath
        <4>3. c \in Seq(Text)  BY <2>2, <4>2 DEF Base, Texts
        <4>4. c[Len(got[u]) + 1] \in Text  BY <2>4, <4>2, <4>3
        <4> HIDE DEF c
        <4>5. QED  BY <3>1, <4>2, <4>4
      <3>3. QED  BY <1>2, <1>5, <2>1, <2>2, <2>3, <3>1, <3>2 DEF Placing, OnPath, Making
    <2>5. CASE ~(Len(got[u]) < Len(c))
      <3>1. got'[u] = got[u] /\ pc'[u] = "code"  BY <1>1, <1>9, <2>5 DEF Read, Goto, UserTypes
      <3>2. QED  BY <1>1, <1>2, <1>5, <2>1, <2>3, <3>1 DEF Placing, OnPath, Making
    <2>6. QED  BY <2>4, <2>5
  <1>10. CASE Lists(u) \/ Skips(u) \/ Remove(u)
    <2>1. left[u] # <<>>  BY <1>4, <1>10 DEF Lists, Skips, Remove, OnPath
    <2>2. \E s : NextPath(u, s)  BY <1>10 DEF Lists, Skips, Remove
    <2>3. QED  BY <1>6, <2>1, <2>2
  <1>11. CASE Code(u)
    <2> DEFINE r == Result(job[u], got[u])
    <2>1. /\ left[u] # <<>>
          /\ job[u].stdout \/ job[u].mode = "test" \/ Acts(job[u], Path(u))
          /\ Acts(job[u], Path(u)) /\ job[u].mode # "pack" => r.out \in Seq(Text)
      BY <1>11, CodeResult
    <2>2. (\E s : NextPath(u, s)) \/ UNCHANGED vars
          \/ /\ out' = [out EXCEPT ![u] = r.out] /\ (Goto(u, "open") \/ Goto(u, "stat"))
             /\ UNCHANGED <<left, src, got>> /\ ~(job[u].stdout \/ job[u].mode = "test")
      <3>1. r.res \in {"ok", "bad", "never"}  BY <1>1, SceneFacts, ResultOk
      <3> HIDE DEF r
      <3>2. CASE r.res \in {"bad", "never"}  BY <1>11, <3>2 DEF Code, r
      <3>3. CASE r.res = "ok" /\ (job[u].stdout \/ job[u].mode = "test")  BY <1>11, <3>3 DEF Code, r
      <3>4. CASE r.res = "ok" /\ ~(job[u].stdout \/ job[u].mode = "test")  BY <1>11, <3>4 DEF Code, r
      <3>5. QED  BY <3>1, <3>2, <3>3, <3>4
    <2>3. CASE UNCHANGED vars
      BY <1>1, <1>2, <1>5, <2>3 DEF vars, disk, Placing
    <2>4. CASE /\ out' = [out EXCEPT ![u] = r.out] /\ (Goto(u, "open") \/ Goto(u, "stat"))
               /\ UNCHANGED <<left, src, got>> /\ ~(job[u].stdout \/ job[u].mode = "test")
      <3> HIDE DEF r
      <3>1. out'[u] = r.out /\ pc'[u] \in {"open", "stat"} /\ left'[u] = left[u] /\ got'[u] = got[u]
        BY <1>1, <2>4 DEF UserTypes, Goto
      <3>2. Acts(job[u], Path(u)) /\ (job[u].mode # "pack" => out'[u] \in Seq(Text))  BY <2>1, <2>4, <3>1
      <3>3. pc[u] = "code"  BY <1>11 DEF Code
      <3>4. job[u].mode = "pack" => got'[u] \in Seq(Text)  BY <1>1, <3>1, <3>2, <3>3 DEF Placing, OnPath
      <3>5. QED  BY <1>2, <1>5, <2>1, <3>1, <3>2, <3>4 DEF Placing, OnPath, Making
    <2>5. QED  BY <1>6, <2>1, <2>2, <2>3, <2>4
  <1>12. CASE Stat(u) /\ ~ (\E s : NextPath(u, s))
    <2>1. pc[u] = "stat" /\ pc'[u] = "open" /\ left'[u] = left[u] /\ got' = got /\ out' = out
      BY <1>1, <1>12 DEF Stat, Goto, UserTypes
    <2>2. QED  BY <1>1, <1>2, <1>5, <2>1 DEF Placing, OnPath, Making
  <1>13. CASE Open(u)
    <2>1. Opens(u) /\ files' \in [Names -> Seq(Seq(Piece))] /\ dst'[u] \in Nat \ {0}  BY <1>13, OpenIsOpens
    <2>2. pc[u] = "open" /\ pc'[u] = "write" /\ left'[u] = left[u] /\ got' = got /\ out' = out
          /\ dst'[u] = Len(files'[To(u)])
      BY <2>1 DEF Opens
    <2>3. To(u) \in Names  BY <2>2, TargetIsName DEF Making
    <2>4. dst'[u] \in DOMAIN files'[To(u)]  BY <2>1, <2>2, <2>3
    <2>5. (dst[u] \in DOMAIN files[To(u)])'  BY <1>5, <2>2, <2>4
    <2>6. QED  BY <1>1, <1>2, <1>5, <2>2, <2>5 DEF Placing, OnPath, Making
  <1>14. CASE Write(u) /\ at[u] < Len(out[u])
    <2>1. Writes(u)  BY <1>14, WriteIsWrites
    <2>2. pc[u] = "write" /\ pc'[u] = "write" /\ left'[u] = left[u] /\ got' = got /\ out' = out /\ dst' = dst
      BY <2>1 DEF Writes
    <2>3. To(u) \in Names  BY <2>2, TargetIsName DEF Making
    <2>4. dst'[u] \in DOMAIN files'[To(u)]  BY <1>1, <2>2, <2>3, DiskTypesStep DEF Placing
    <2>5. (dst[u] \in DOMAIN files[To(u)])'  BY <1>5, <2>2, <2>4
    <2>6. QED  BY <1>1, <1>2, <1>5, <2>2, <2>5 DEF Placing, OnPath, Making
  <1>15. CASE Write(u) /\ ~(at[u] < Len(out[u])) /\ ~ (\E s : NextPath(u, s))
    <2>1. pc[u] = "write" /\ pc'[u] = "remove" /\ left'[u] = left[u] /\ got' = got /\ out' = out
      BY <1>1, <1>15 DEF Write, Goto, UserTypes
    <2>2. QED  BY <1>1, <1>2, <1>5, <2>1 DEF Placing, OnPath, Making
  <1>16. CASE (Stat(u) \/ Write(u)) /\ \E s : NextPath(u, s)
    <2>1. left[u] # <<>>  BY <1>4, <1>16 DEF Stat, Write, OnPath
    <2>2. QED  BY <1>6, <1>16, <2>1
  <1>17. CASE Fails(u)  BY <1>6, <1>17 DEF Fails
  <1>18. CASE Return(u) \/ Kill(u)
    <2>1. pc'[u] = "done" /\ left'[u] = left[u]  BY <1>1, <1>18 DEF Return, Kill, Goto, UserTypes
    <2>2. QED  BY <1>5, <2>1 DEF Placing, OnPath, Making
  <1>19. QED
    BY <1>7, <1>8, <1>9, <1>10, <1>11, <1>12, <1>13, <1>14, <1>15, <1>16, <1>17, <1>18
    DEF UserStep, Step

LEMMA BaseInit == Init => Base
PROOF
  <1> SUFFICES ASSUME Init  PROVE Base
    OBVIOUS
  <1> DEFINE f == scene.folder
  <1>1. scene \in Scenes /\ DOMAIN f \subseteq Names /\ \A n \in DOMAIN f : f[n] \in Seq(Piece)
    BY PackersAssumption DEF Init
  <1>2. /\ there = [n \in Names |-> n \in DOMAIN f]
        /\ files = [n \in Names |-> IF n \in DOMAIN f THEN <<f[n]>> ELSE <<>>]
        /\ dear = UNION {LettersOf(f[n]) : n \in DOMAIN f}
        /\ pc = [u \in Users |-> "idle"]
        /\ left = [u \in Users |-> job[u].paths]
        /\ src = [u \in Users |-> 0] /\ dst = [u \in Users |-> 0] /\ at = [u \in Users |-> 0]
        /\ got = [u \in Users |-> <<>>] /\ out = [u \in Users |-> <<>>]
        /\ status = [u \in Users |-> 0]
        /\ huge = FALSE
    BY DEF Init
  <1> HIDE DEF f
  <1>3. ASSUME NEW n \in Names
        PROVE  /\ files[n] \in Seq(Seq(Piece)) /\ (there[n] => files[n] # <<>>)
               /\ \A i \in DOMAIN files[n] : n \in DOMAIN f /\ files[n][i] = f[n]
    <2>1. CASE n \in DOMAIN f
      <3>1. PICK e \in Seq(Piece) : e = f[n]  BY <1>1, <2>1
      <3>2. files[n] = <<e>>  BY <1>2, <2>1, <3>1
      <3>3. \A s : s = <<e>> => s \in Seq(Seq(Piece)) /\ s # <<>> /\ DOMAIN s = {1} /\ s[1] = e
        BY <3>1
      <3>4. files[n] \in Seq(Seq(Piece)) /\ files[n] # <<>> /\ DOMAIN files[n] = {1} /\ files[n][1] = e
        BY <3>2, <3>3, Zenon
      <3>5. \A i \in DOMAIN files[n] : files[n][i] = f[n]  BY <3>1, <3>4
      <3>6. QED  BY <2>1, <3>4, <3>5, Zenon
    <2>2. CASE n \notin DOMAIN f
      <3>1. files[n] = <<>> /\ ~there[n]  BY <1>2, <2>2
      <3>2. \A s : s = <<>> => s \in Seq(Seq(Piece)) /\ DOMAIN s = {}  OBVIOUS
      <3>3. files[n] \in Seq(Seq(Piece)) /\ DOMAIN files[n] = {}  BY <3>1, <3>2, Zenon
      <3>4. QED  BY <3>1, <3>3
    <2>3. QED  BY <2>1, <2>2
  <1>4. DiskTypes
    <2>1. files \in [Names -> Seq(Seq(Piece))]
      <3>1. \A n \in Names : files[n] \in Seq(Seq(Piece))  BY <1>3
      <3>2. files = [n \in Names |-> files[n]]  BY <1>2
      <3>3. QED  BY <3>1, <3>2
    <2>2. there \in [Names -> BOOLEAN]  BY <1>2
    <2>3. QED  BY <1>3, <2>1, <2>2 DEF DiskTypes
  <1>5. UserTypes
    <2>1. \A u \in Users : job[u].paths \in Seq(Names)  BY <1>1, SceneFacts
    <2>2. QED  BY <1>2, <2>1 DEF UserTypes, Places
  <1>6. GivenTypes
    <2>1. dear \subseteq Letters /\ huge \in BOOLEAN  BY <1>2 DEF LettersOf
    <2>2. QED  BY <1>1, <2>1, PackersAssumption DEF GivenTypes
  <1>7. Texts
    <2>1. ASSUME NEW n \in Names, ForPacking(n), n \in DOMAIN f  PROVE f[n] \in Seq(Text)
      <3>1. PICK u \in Users : job[u].mode = "pack" /\ IsPath(u, n) /\ Acts(job[u], n)
        BY <2>1 DEF ForPacking
      <3>2. QED  BY <1>1, <2>1, <3>1, SceneFacts DEF f
    <2>2. QED  BY <1>3, <2>1 DEF Texts
  <1>8. ASSUME NEW u \in Users  PROVE Placing(u)
    <2>1. left[u] = job[u].paths /\ pc[u] = "idle" /\ got[u] = <<>>  BY <1>2
    <2>2. \A i \in DOMAIN left[u] : IsPath(u, left[u][i])  BY <2>1 DEF IsPath
    <2>3. QED  BY <2>1, <2>2 DEF Placing, OnPath, Making
  <1>9. QED  BY <1>1, <1>4, <1>5, <1>6, <1>7, <1>8, TypeParts DEF Base

LEMMA BaseStep == Base /\ [Next]_vars => Base'
PROOF
  <1> SUFFICES ASSUME Base, [Next]_vars  PROVE Base'
    OBVIOUS
  <1>1. CASE UNCHANGED vars
    BY <1>1 DEF vars, disk, Base, TypeOK, Texts, ForPacking, Placing, IsPath, Path, To, job
  <1>2. ASSUME NEW u \in Users, UserStep(u)  PROVE Base'
    <2>1. UserTypes' /\ DiskTypes' /\ Texts'  BY <1>2, UserTypesStep, DiskTypesStep, TextsStep
    <2>2. scene' = scene /\ dear' = dear /\ huge' \in BOOLEAN
      BY <1>2, StepIsAlone, HugeStep DEF Base, Alone
    <2>3. GivenTypes'  BY <2>2, TypeParts DEF Base, GivenTypes
    <2>4. TypeOK'  BY <2>1, <2>3 DEF TypeOK, UserTypes, DiskTypes, GivenTypes, Places
    <2>5. \A v \in Users : Placing(v)'  BY <1>2, MinePlaced, OthersPlaced
    <2>6. QED  BY <2>1, <2>2, <2>4, <2>5 DEF Base
  <1>3. QED  BY <1>1, <1>2 DEF Next, Terminated, UserStep

LEMMA BaseAlways == Spec => []Base
PROOF
  <1>1. QED  BY BaseInit, BaseStep, PTL DEF Spec

\* The values each variable ranges over, for any commands on any files: what
\* is written to a file are pieces of files, and only text is packed.
THEOREM PackersTyped == Spec => []TypeOK
PROOF
  <1>1. Base => TypeOK  BY DEF Base
  <1>2. QED  BY <1>1, BaseAlways, PTL

----------------------------------------------------------------------------
(***************************************************************************)
(* The kinds of steps, as far as the proofs below tell them apart.         *)
(***************************************************************************)
Leaves(u) ==
    /\ UNCHANGED disk /\ pc'[u] \in {"source", "done"}
    /\ IF pc[u] = "idle"
       THEN at'[u] = at[u] /\ (scene.alone => \A v \in Users : pc[v] \in {"idle", "done"})
       ELSE pc'[u] = "source" => at'[u] = 0
    /\ pc[u] = "write" => scene.mishaps \/ ~(at[u] < Len(out[u]))
Sources(u) ==
    /\ pc[u] = "source" /\ pc'[u] = "read" /\ UNCHANGED <<disk, left, got, out, dst, at>>
    /\ left[u] # <<>> /\ there[Path(u)] /\ src'[u] = Len(files[Path(u)])
Unread(u) == Len(got[u]) < Len(files[Path(u)][src[u]])
Reads(u) ==
    /\ pc[u] = "read" /\ pc'[u] = "read" /\ UNCHANGED <<disk, left, src, out, dst, at>>
    /\ Unread(u) /\ got'[u] = Append(got[u], files[Path(u)][src[u]][Len(got[u]) + 1])
HasRead(u) ==
    pc[u] = "read" /\ pc'[u] = "code" /\ ~Unread(u) /\ UNCHANGED <<disk, left, src, got, out, dst, at>>
Codes(u) ==
    /\ pc[u] = "code" /\ pc'[u] = (IF job[u].force THEN "open" ELSE "stat")
    /\ Result(job[u], got[u]).res = "ok" /\ out'[u] = Result(job[u], got[u]).out
    /\ Acts(job[u], Path(u)) /\ UNCHANGED <<disk, left, src, got, dst, at>>
Finds(u) ==
    pc[u] = "stat" /\ pc'[u] = "open" /\ ~there[To(u)] /\ UNCHANGED <<disk, left, src, got, out, dst, at>>
HasWritten(u) ==
    /\ pc[u] = "write" /\ pc'[u] = "remove" /\ ~(at[u] < Len(out[u]))
    /\ UNCHANGED <<disk, left, src, got, out, dst, at>>

LEMMA StepKinds ==
    ASSUME Base, NEW u \in Users, UserStep(u)
    PROVE  \/ UNCHANGED vars \/ Leaves(u) \/ Sources(u) \/ Reads(u) \/ HasRead(u) \/ Codes(u) \/ Finds(u)
           \/ Opens(u) \/ Writes(u) \/ HasWritten(u) \/ Removes(u)
PROOF
  <1>1. UserTypes /\ TypeOK /\ scene \in Scenes  BY TypeParts DEF Base
  <1>2. ASSUME NEW s, NextPath(u, s), UNCHANGED disk, pc[u] # "idle",
               pc[u] = "write" => scene.mishaps \/ ~(at[u] < Len(out[u]))
        PROVE  Leaves(u)
    BY <1>1, <1>2, NextPathFacts DEF Leaves
  <1>3. CASE Start(u)
    BY <1>1, <1>3 DEF Start, Goto, UserTypes, Leaves
  <1>4. CASE Source(u)
    <2>1. CASE there[Path(u)]  BY <1>1, <1>4, <2>1 DEF Source, Goto, UserTypes, Sources
    <2>2. CASE ~there[Path(u)]  BY <1>2, <1>4, <2>2 DEF Source
    <2>3. QED  BY <2>1, <2>2
  <1>5. CASE Read(u)
    <2>1. CASE Unread(u)  BY <1>1, <1>5, <2>1 DEF Read, UserTypes, Unread, Reads
    <2>2. CASE ~Unread(u)  BY <1>1, <1>5, <2>2 DEF Read, Goto, UserTypes, Unread, HasRead
    <2>3. QED  BY <2>1, <2>2
  <1>6. CASE Lists(u) \/ Skips(u)  BY <1>2, <1>6 DEF Lists, Skips
  <1>7. CASE Code(u)
    <2> DEFINE r == Result(job[u], got[u])
    <2>1. job[u].stdout \/ job[u].mode = "test" \/ Acts(job[u], Path(u))  BY <1>7, CodeResult
    <2>2. r.res \in {"ok", "bad", "never"}  BY <1>1, SceneFacts, ResultOk
    <2>3. CASE r.res = "bad"  BY <1>2, <1>7, <2>3 DEF Code
    <2>4. CASE r.res = "never"  BY <1>7, <2>4 DEF Code
    <2>5. CASE r.res = "ok" /\ (job[u].stdout \/ job[u].mode = "test")  BY <1>2, <1>7, <2>5 DEF Code
    <2>6. CASE r.res = "ok" /\ ~(job[u].stdout \/ job[u].mode = "test")
      <3>1. /\ pc[u] = "code" /\ out' = [out EXCEPT ![u] = r.out]
            /\ Goto(u, IF job[u].force THEN "open" ELSE "stat")
            /\ UNCHANGED <<disk, left, src, got, dst, at>>
        BY <1>7, <2>6 DEF Code
      <3> HIDE DEF r
      <3>2. out'[u] = r.out /\ pc'[u] = (IF job[u].force THEN "open" ELSE "stat")
        BY <1>1, <3>1 DEF Goto, UserTypes
      <3>3. Codes(u)  BY <2>1, <2>6, <3>1, <3>2 DEF Codes, r
      <3>4. QED  BY <3>3
    <2>7. QED  BY <2>2, <2>3, <2>4, <2>5, <2>6
  <1>8. CASE Stat(u)
    <2>1. CASE there[To(u)]  BY <1>2, <1>8, <2>1 DEF Stat
    <2>2. CASE ~there[To(u)]  BY <1>1, <1>8, <2>2 DEF Stat, Goto, UserTypes, Finds
    <2>3. QED  BY <2>1, <2>2
  <1>9. CASE Open(u)  BY <1>9, OpenIsOpens
  <1>10. CASE Write(u)
    <2>1. CASE at[u] < Len(out[u])  BY <1>10, <2>1, WriteIsWrites
    <2>2. CASE ~(at[u] < Len(out[u])) /\ Keeps(job[u])  BY <1>2, <1>10, <2>2 DEF Write
    <2>3. CASE ~(at[u] < Len(out[u])) /\ ~Keeps(job[u])
      BY <1>1, <1>10, <2>3 DEF Write, Goto, UserTypes, HasWritten
    <2>4. QED  BY <2>1, <2>2, <2>3
  <1>11. CASE Remove(u)  BY <1>11 DEF Remove, Removes
  <1>12. CASE Return(u)  BY <1>1, <1>12 DEF Return, Goto, UserTypes, Leaves
  <1>13. CASE Fails(u)  BY <1>2, <1>13 DEF Fails
  <1>14. CASE Kill(u)  BY <1>1, <1>14 DEF Kill, Goto, UserTypes, Leaves
  <1>15. QED
    BY <1>3, <1>4, <1>5, <1>6, <1>7, <1>8, <1>9, <1>10, <1>11, <1>12, <1>13, <1>14 DEF UserStep, Step

\* What a command is to write is what it has made of what it has read.
Coded(u) ==
    /\ pc[u] \in Making => Result(job[u], got[u]).res = "ok" /\ out[u] = Result(job[u], got[u]).out
    /\ pc[u] \in {"idle", "source", "read", "code", "stat", "open"} => at[u] = 0

LEMMA CodedStep ==
    ASSUME Base, NEW u \in Users, UserStep(u), NEW v \in Users, Coded(v)
    PROVE  Coded(v)'
PROOF
  <1>1. TypeOK /\ Alone(u)  BY StepIsAlone DEF Base
  <1>2. job' = job  BY <1>1 DEF Alone, job
  <1>3. CASE v # u
    <2>1. pc'[v] = pc[v] /\ got'[v] = got[v] /\ out'[v] = out[v] /\ at'[v] = at[v]  BY <1>1, <1>3 DEF Alone
    <2>2. QED  BY <1>2, <2>1 DEF Coded
  <1>4. CASE v = u
    <2>1. CASE UNCHANGED vars  BY <1>2, <2>1 DEF vars, Coded
    <2>2. CASE Leaves(u) \/ Removes(u)
      <3>1. pc'[u] \in {"source", "done"} /\ (pc'[u] = "source" => at'[u] = 0)
        BY <1>1, <1>4, <2>2, NextPathFacts DEF Leaves, Removes, Coded
      <3>2. QED  BY <1>4, <3>1 DEF Coded, Making
    <2>3. CASE Sources(u) \/ Reads(u) \/ HasRead(u)
      <3>1. pc'[u] \in {"read", "code"} /\ at'[u] = 0  BY <1>4, <2>3 DEF Sources, Reads, HasRead, Coded
      <3>2. QED  BY <1>4, <3>1 DEF Coded, Making
    <2>4. CASE Codes(u)  BY <1>2, <1>4, <2>4 DEF Codes, Coded, Making
    <2>5. CASE Finds(u) \/ Opens(u) \/ Writes(u) \/ HasWritten(u)
      <3>1. /\ pc[u] \in Making /\ got'[u] = got[u] /\ out'[u] = out[u]
            /\ pc'[u] \in {"open", "write", "remove"} /\ (pc'[u] = "open" => at'[u] = at[u] /\ pc[u] = "stat")
        BY <2>5 DEF Finds, Opens, Writes, HasWritten, Making
      <3>2. QED  BY <1>2, <1>4, <3>1 DEF Coded
    <2>6. QED  BY <1>4, <2>1, <2>2, <2>3, <2>4, <2>5, StepKinds
  <1>5. QED  BY <1>3, <1>4

\* Unless something was too large, what a command makes something of fits.
Fitted(u) == pc[u] \in Making => Fits(job[u].tool, got[u])
Sized == ~huge => \A u \in Users : Fitted(u)

LEMMA SizedStep ==
    ASSUME Base, Sized, NEW u \in Users, UserStep(u)
    PROVE  Sized'
PROOF
  <1>1. TypeOK /\ Alone(u)  BY StepIsAlone DEF Base
  <1>2. job' = job  BY <1>1 DEF Alone, job
  <1>3. SUFFICES ASSUME ~huge', NEW v \in Users  PROVE Fitted(v)'
    BY DEF Sized
  <1>4. Fitted(v)  BY <1>1, <1>3, HugeStep DEF Sized
  <1>5. CASE v # u  BY <1>1, <1>2, <1>4, <1>5 DEF Fitted, Alone
  <1>6. CASE v = u
    <2>1. CASE UNCHANGED vars  BY <1>2, <1>4, <2>1 DEF vars, Fitted
    <2>2. CASE Leaves(u) \/ Removes(u) \/ Sources(u) \/ Reads(u) \/ HasRead(u)
      <3>1. pc'[u] \notin Making
        BY <1>1, <2>2, NextPathFacts DEF Leaves, Removes, Sources, Reads, HasRead, Making
      <3>2. QED  BY <1>6, <3>1 DEF Fitted
    <2>3. CASE Codes(u) /\ ~UNCHANGED vars
      <3>1. pc[u] = "code" /\ pc'[u] \in {"open", "stat"} /\ got' = got  BY <2>3 DEF Codes
      <3>2. Code(u)
        <4>1. Code(u) \/ \E s : NextPath(u, s) \/ Kill(u)
          BY <3>1 DEF UserStep, Step, Start, Source, Read, Lists, Skips, Stat, Open, Write, Remove, Return, Fails
        <4>2. ASSUME NEW s, NextPath(u, s)  PROVE FALSE
          BY <1>1, <3>1, <4>2, NextPathFacts
        <4>3. ~Kill(u)  BY <1>1, <3>1 DEF Kill, Goto, TypeOK
        <4>4. QED  BY <4>1, <4>2, <4>3
      <3>3. Fits(job[u].tool, got[u])  BY <1>1, <1>3, <2>3, <3>1, <3>2, HugeStep
      <3>4. QED  BY <1>2, <1>6, <3>1, <3>3 DEF Fitted
    <2>4. CASE Finds(u) \/ Opens(u) \/ Writes(u) \/ HasWritten(u)
      <3>1. pc[u] \in Making /\ got' = got  BY <2>4 DEF Finds, Opens, Writes, HasWritten, Making
      <3>2. QED  BY <1>2, <1>4, <1>6, <3>1 DEF Fitted
    <2>5. QED  BY <2>1, <2>2, <2>3, <2>4, StepKinds
  <1>7. QED  BY <1>5, <1>6

----------------------------------------------------------------------------
(***************************************************************************)
(* One command at a time: what a command has in hand is what is in the     *)
(* directory.                                                              *)
(***************************************************************************)
Newest(s) == s[Len(s)]

\* c is the first k pieces of o.
Begun(c, o, k) == k <= Len(o) /\ Len(c) = k /\ \A i \in 1..k : c[i] = o[i]

Faithful(u) ==
    /\ pc[u] = "read" =>
          there[Path(u)] /\ src[u] = Len(files[Path(u)]) /\ Begun(got[u], Newest(files[Path(u)]), Len(got[u]))
    /\ (pc[u] \in {"code", "stat", "open"} \/ (pc[u] \in {"write", "remove"} /\ To(u) # Path(u)))
          => there[Path(u)] /\ got[u] = Newest(files[Path(u)])
    /\ pc[u] = "write" =>
          there[To(u)] /\ dst[u] = Len(files[To(u)]) /\ Begun(Newest(files[To(u)]), out[u], at[u])
    /\ pc[u] = "remove" => there[To(u)] /\ Newest(files[To(u)]) = out[u]

Busy(u) == pc[u] \notin {"idle", "done"}

Turns == \A u, v \in Users : Busy(u) /\ Busy(v) => u = v

InTurn == scene.alone => Turns /\ \A u \in Users : Faithful(u)

LEMMA BegunFacts ==
    ASSUME NEW S, NEW o \in Seq(S)
    PROVE  /\ \A c \in Seq(S), k \in Nat : Begun(c, o, k) /\ ~(k < Len(o)) => c = o
           /\ \A c : c = <<>> => Begun(c, o, 0)
           /\ \A c \in Seq(S), k \in Nat : Begun(c, o, k) /\ k < Len(o) => Begun(Append(c, o[k + 1]), o, k + 1)
           /\ \A c \in Seq(S), k \in Nat :
                 Begun(c, o, k) /\ k < Len(o) => Begun(Placed(c, k + 1, o[k + 1]), o, k + 1)
PROOF
  <1>1. Len(o) \in Nat /\ DOMAIN o = 1..Len(o) /\ \A i \in 1..Len(o) : o[i] \in S
    OBVIOUS
  <1>2. ASSUME NEW c \in Seq(S), NEW k \in Nat, Begun(c, o, k), ~(k < Len(o))  PROVE c = o
    <2>1. k <= Len(o) /\ Len(c) = k /\ \A i \in 1..k : c[i] = o[i]  BY <1>2 DEF Begun
    <2>2. ~(k < Len(o)) /\ k <= Len(o) /\ Len(o) \in Nat  BY <1>1, <1>2, <2>1
    <2>3. k = Len(o)  BY <2>2
    <2>4. QED  BY <2>1, <2>3, SeqEqual
  <1>3. ASSUME NEW c, c = <<>>  PROVE Begun(c, o, 0)
    <2>1. \A s : s = <<>> => Len(s) = 0  OBVIOUS
    <2>2. Len(c) = 0  BY <1>3, <2>1, Zenon
    <2>3. QED  BY <1>1, <2>2 DEF Begun
  <1>4. ASSUME NEW c \in Seq(S), NEW k \in Nat, Begun(c, o, k), k < Len(o)
        PROVE  Begun(Append(c, o[k + 1]), o, k + 1)
    <2>1. o[k + 1] \in S /\ k + 1 \in 1..Len(o)  BY <1>1, <1>4
    <2> DEFINE d == Append(c, o[k + 1])
    <2>2. Len(d) = Len(c) + 1 /\ d[Len(c) + 1] = o[k + 1] /\ \A i \in 1..Len(c) : d[i] = c[i]
      BY <2>1, AppendProperties
    <2> HIDE DEF d
    <2>3. Len(c) = k /\ \A i \in 1..k : c[i] = o[i]  BY <1>4 DEF Begun
    <2>4. \A i \in 1..(k + 1) : i \in 1..k \/ i = k + 1  OBVIOUS
    <2>5. Begun(d, o, k + 1)  BY <2>1, <2>2, <2>3, <2>4 DEF Begun
    <2>6. QED  BY <2>5 DEF d
  <1>5. ASSUME NEW c \in Seq(S), NEW k \in Nat, Begun(c, o, k), k < Len(o)
        PROVE  Begun(Placed(c, k + 1, o[k + 1]), o, k + 1)
    <2> DEFINE d == Placed(c, k + 1, o[k + 1])
    <2>1. o[k + 1] \in S /\ k + 1 \in 1..Len(o) /\ k + 1 \in Nat \ {0}  BY <1>1, <1>5
    <2>2. Len(c) = k /\ \A i \in 1..k : c[i] = o[i]  BY <1>5 DEF Begun
    <2>3. Larger(Len(c), k + 1) = k + 1  BY <2>2 DEF Larger
    <2>4. d = [i \in 1..(k + 1) |-> IF i = k + 1 THEN o[k + 1] ELSE IF i <= k THEN c[i] ELSE Hole]
      BY <2>2, <2>3 DEF Placed
    <2> HIDE DEF d
    <2>5. d \in Seq(S) /\ Len(d) = k + 1 /\ \A i \in 1..(k + 1) : d[i] = o[i]
      <3>1. \A i \in 1..(k + 1) : i = k + 1 \/ (i \in 1..k /\ i # k + 1 /\ i <= k)  OBVIOUS
      <3>2. \A i \in 1..(k + 1) : d[i] = o[i]  BY <2>2, <2>4, <3>1
      <3>3. \A i \in 1..(k + 1) : d[i] \in S
        <4>1. \A i \in 1..(k + 1) : i \in 1..Len(o)  BY <1>1, <2>1
        <4>2. QED  BY <1>1, <3>2, <4>1
      <3>4. d \in [1..(k + 1) -> S]  BY <2>4, <3>3
      <3>5. k + 1 \in Nat  OBVIOUS
      <3>6. QED  BY <3>2, <3>4, <3>5
    <2>6. Begun(d, o, k + 1)  BY <2>1, <2>5 DEF Begun
    <2>7. QED  BY <2>6 DEF d
  <1>6. QED  BY <1>2, <1>3, <1>4, <1>5

LEMMA FaithfulStep ==
    ASSUME Base, NEW u \in Users, Coded(u), Faithful(u), UserStep(u)
    PROVE  Faithful(u)'
PROOF
  <1>1. TypeOK /\ Placing(u) /\ UserTypes /\ DiskTypes  BY TypeParts DEF Base
  <1>2. job' = job  BY <1>1, StepIsAlone DEF Alone, job
  <1>3. pc[u] \in OnPath \/ left[u] # <<>> => left[u] # <<>> /\ Path(u) \in Names
    BY <1>1, SomePath DEF Placing
  <1>4. left'[u] = left[u] => Path(u)' = Path(u) /\ To(u)' = To(u)  BY <1>2 DEF Path, To
  <1> DEFINE p == Path(u)
             t == To(u)
             c == Newest(files[Path(u)])
  <1>5. Path(u) \in Names /\ there[p] => c \in Seq(Piece)
    <2>1. ASSUME NEW n \in Names, there[n]  PROVE Newest(files[n]) \in Seq(Piece)
      <3>1. files[n] \in Seq(Seq(Piece)) /\ files[n] # <<>>  BY <1>1, <2>1 DEF DiskTypes
      <3>2. QED  BY <3>1 DEF Newest
    <2>2. QED  BY <2>1
  <1>6. CASE UNCHANGED vars
    <2>1. left'[u] = left[u] /\ UNCHANGED <<files, there, pc, src, got, out, dst, at>>  BY <1>6 DEF vars
    <2>2. QED  BY <1>4, <2>1 DEF Faithful
  <1>7. CASE Leaves(u) \/ Removes(u)
    <2>1. pc'[u] \in {"source", "done"}  BY <1>1, <1>7, NextPathFacts DEF Leaves, Removes
    <2>2. QED  BY <2>1 DEF Faithful
  <1>8. CASE Sources(u)
    <2>1. /\ pc'[u] = "read" /\ left' = left /\ files' = files /\ there' = there /\ got' = got
          /\ src'[u] = Len(files[Path(u)]) /\ there[Path(u)] /\ left[u] # <<>> /\ pc[u] = "source"
      BY <1>8 DEF Sources, disk
    <2>2. got[u] = <<>>  BY <1>1, <2>1 DEF Placing
    <2>3. c \in Seq(Piece)  BY <1>3, <1>5, <2>1
    <2>4. Begun(got[u], c, 0) /\ Len(got[u]) = 0
      <3>1. \A s : s = <<>> => Len(s) = 0  OBVIOUS
      <3>2. Len(got[u]) = 0  BY <2>2, <3>1, Zenon
      <3>3. QED  BY <2>2, <2>3, <3>2, BegunFacts
    <2>5. QED  BY <1>4, <2>1, <2>4 DEF Faithful
  <1>9. CASE Reads(u) \/ HasRead(u)
    <2>1. /\ pc[u] = "read" /\ left' = left /\ files' = files /\ there' = there /\ src' = src
      BY <1>9 DEF Reads, HasRead, disk
    <2>2. there[Path(u)] /\ src[u] = Len(files[Path(u)]) /\ Begun(got[u], c, Len(got[u]))
      BY <2>1 DEF Faithful
    <2>3. c = files[Path(u)][src[u]]  BY <2>2 DEF Newest
    <2>4. c \in Seq(Piece) /\ got[u] \in Seq(Piece) /\ Len(got[u]) \in Nat
      BY <1>1, <1>3, <1>5, <2>1, <2>2 DEF OnPath, UserTypes
    <2>5. CASE Reads(u)
      <3>1. Len(got[u]) < Len(c) /\ got'[u] = Append(got[u], c[Len(got[u]) + 1]) /\ pc'[u] = "read"
        BY <2>3, <2>5 DEF Reads, Unread
      <3> HIDE DEF c
      <3>2. Begun(got'[u], c, Len(got[u]) + 1)  BY <2>2, <2>4, <3>1, BegunFacts
      <3>3. Begun(got'[u], c, Len(got'[u]))  BY <3>2 DEF Begun
      <3>4. QED  BY <1>4, <2>1, <2>2, <3>1, <3>3 DEF Faithful, c
    <2>6. CASE HasRead(u)
      <3>1. ~(Len(got[u]) < Len(c)) /\ got' = got /\ pc'[u] = "code"
        BY <2>3, <2>6 DEF HasRead, Unread
      <3> HIDE DEF c
      <3>2. got[u] = c  BY <2>2, <2>4, <3>1, BegunFacts
      <3>3. QED  BY <1>4, <2>1, <2>2, <3>1, <3>2 DEF Faithful, c
    <2>7. QED  BY <1>9, <2>5, <2>6
  <1>10. CASE Codes(u) \/ Finds(u)
    <2>1. /\ pc[u] \in {"code", "stat"} /\ pc'[u] \in {"stat", "open"} /\ left' = left /\ files' = files
          /\ there' = there /\ got' = got
      BY <1>10 DEF Codes, Finds, disk
    <2>2. QED  BY <1>4, <2>1 DEF Faithful
  <1>11. CASE Opens(u)
    <2>1. /\ pc[u] = "open" /\ pc'[u] = "write" /\ left' = left /\ got' = got /\ out' = out /\ at' = at
          /\ \A n \in Names \ {To(u)} : files'[n] = files[n] /\ there'[n] = there[n]
          /\ there'[To(u)] /\ dst'[u] = Len(files'[To(u)]) /\ Newest(files'[To(u)]) = <<>>
      <3>1. To(u) \in Names  BY <1>11, TargetIsName DEF Opens, Making
      <3>2. QED  BY <1>1, <1>11, <3>1 DEF Opens, Newest, DiskTypes
    <2>2. Path(u) \in Names /\ at[u] = 0 /\ there[Path(u)] /\ got[u] = Newest(files[Path(u)])
      BY <1>3, <2>1 DEF OnPath, Coded, Faithful
    <2>3. Begun(Newest(files'[To(u)]), out[u], at[u])
      <3>1. out[u] \in Seq(Piece)  BY <1>1 DEF UserTypes
      <3>2. QED  BY <2>1, <2>2, <3>1, BegunFacts
    <2>4. To(u) # Path(u) => there'[Path(u)] /\ got'[u] = Newest(files'[Path(u)])
      BY <2>1, <2>2
    <2>5. QED  BY <1>4, <2>1, <2>3, <2>4 DEF Faithful
  <1>12. CASE Writes(u)
    <2>1. /\ pc[u] = "write" /\ pc'[u] = "write" /\ left' = left /\ got' = got /\ out' = out /\ there' = there
          /\ at[u] < Len(out[u]) /\ at'[u] = at[u] + 1 /\ dst' = dst
          /\ \A n \in Names \ {To(u)} : files'[n] = files[n]
          /\ Len(files'[To(u)]) = Len(files[To(u)])
          /\ files'[To(u)][dst[u]] = Placed(files[To(u)][dst[u]], at[u] + 1, out[u][at[u] + 1])
      BY <1>12 DEF Writes
    <2>2. /\ there[To(u)] /\ dst[u] = Len(files[To(u)]) /\ Begun(Newest(files[To(u)]), out[u], at[u])
          /\ Path(u) \in Names /\ To(u) \in Names
      BY <1>3, <2>1, TargetIsName DEF OnPath, Making, Faithful
    <2>3. Begun(Newest(files'[To(u)]), out[u], at[u] + 1)
      <3> DEFINE d == Newest(files[To(u)])
      <3>1. files[To(u)] \in Seq(Seq(Piece)) /\ files[To(u)] # <<>>  BY <1>1, <2>2 DEF DiskTypes
      <3>2. d \in Seq(Piece)  BY <3>1 DEF Newest
      <3>3. out[u] \in Seq(Piece) /\ at[u] \in Nat  BY <1>1 DEF UserTypes
      <3>4. Newest(files'[To(u)]) = Placed(d, at[u] + 1, out[u][at[u] + 1])
        BY <2>1, <2>2 DEF Newest
      <3> HIDE DEF d
      <3>5. Begun(d, out[u], at[u])  BY <2>2 DEF d
      <3>6. QED  BY <2>1, <3>2, <3>3, <3>4, <3>5, BegunFacts
    <2>4. To(u) # Path(u) => there'[Path(u)] /\ got'[u] = Newest(files'[Path(u)])
      BY <2>1, <2>2 DEF Faithful
    <2>5. QED  BY <1>4, <2>1, <2>2, <2>3, <2>4 DEF Faithful
  <1>13. CASE HasWritten(u)
    <2>1. /\ pc[u] = "write" /\ pc'[u] = "remove" /\ left' = left /\ got' = got /\ out' = out
          /\ there' = there /\ files' = files /\ ~(at[u] < Len(out[u]))
      BY <1>13 DEF HasWritten, disk
    <2>2. there[To(u)] /\ Begun(Newest(files[To(u)]), out[u], at[u]) /\ To(u) \in Names
      BY <2>1, TargetIsName DEF Faithful, Making
    <2>3. Newest(files[To(u)]) = out[u]
      <3>1. files[To(u)] \in Seq(Seq(Piece)) /\ files[To(u)] # <<>>  BY <1>1, <2>2 DEF DiskTypes
      <3>2. Newest(files[To(u)]) \in Seq(Piece)  BY <3>1 DEF Newest
      <3>3. out[u] \in Seq(Piece) /\ at[u] \in Nat  BY <1>1 DEF UserTypes
      <3>4. QED  BY <2>1, <2>2, <3>2, <3>3, BegunFacts
    <2>4. QED  BY <1>4, <2>1, <2>2, <2>3 DEF Faithful
  <1>14. QED
    BY <1>6, <1>7, <1>8, <1>9, <1>10, <1>11, <1>12, <1>13, StepKinds

\* Nobody starts before the others have ended.
LEMMA TurnsStep ==
    ASSUME Base, Turns, scene.alone, NEW u \in Users, UserStep(u)
    PROVE  Turns' /\ \A v \in Users \ {u} : ~Busy(v) /\ ~Busy(v)'
PROOF
  <1>1. Alone(u)  BY StepIsAlone DEF Base
  <1>2. ASSUME NEW v \in Users \ {u}  PROVE ~Busy(v)
    <2>1. pc[u] = "idle" => ~Busy(v) \/ UNCHANGED vars
      BY StepKinds, <1>2 DEF Leaves, Sources, Reads, HasRead, Codes, Finds, Opens, Writes, HasWritten, Removes, Busy
    <2>2. pc[u] # "done"
      BY DEF UserStep, Step, Start, Source, Read, Lists, Skips, Code, Stat, Open, Write, Remove, Return, Fails, Kill
    <2>3. pc[u] # "idle" => ~Busy(v)  BY <1>2, <2>2 DEF Turns, Busy
    <2>4. ~(pc[u] = "idle" /\ UNCHANGED vars)
      <3>1. pc[u] = "idle" => Start(u)
        BY DEF UserStep, Step, Source, Read, Lists, Skips, Code, Stat, Open, Write, Remove, Return, Fails, Kill
      <3>2. Start(u) => pc'[u] = "source"  BY DEF Start, Goto, Base, TypeOK
      <3>3. QED  BY <3>1, <3>2 DEF vars
    <2>5. QED  BY <2>1, <2>3, <2>4
  <1>3. \A v \in Users \ {u} : ~Busy(v)'  BY <1>1, <1>2 DEF Busy, Alone
  <1>4. QED  BY <1>2, <1>3 DEF Turns

LEMMA InTurnStep ==
    ASSUME Base, \A v \in Users : Coded(v), InTurn, NEW u \in Users, UserStep(u)
    PROVE  InTurn'
PROOF
  <1>1. scene' = scene  BY StepIsAlone DEF Base, Alone
  <1>2. SUFFICES ASSUME scene.alone  PROVE Turns' /\ \A v \in Users : Faithful(v)'
    BY <1>1 DEF InTurn
  <1>3. Turns' /\ \A v \in Users \ {u} : ~Busy(v)'  BY <1>2, TurnsStep DEF InTurn
  <1>4. Faithful(u)'  BY <1>2, FaithfulStep DEF InTurn
  <1>5. \A v \in Users \ {u} : Faithful(v)'
    BY <1>3 DEF Busy, Faithful
  <1>6. QED  BY <1>3, <1>4, <1>5

LEMMA InTurnIsSafe ==
    Base /\ (\A u \in Users : Coded(u)) /\ InTurn => SafeToRemove
PROOF
  <1> SUFFICES ASSUME Base, \A u \in Users : Coded(u), InTurn,
                      NEW u \in Users, pc[u] = "remove", scene.alone, To(u) # Path(u),
                      Fits(job[u].tool, got[u]),
                      job[u].mode = "unpack" /\ job[u].tool \in {"gzip", "xz"} => Leading(job[u].tool, got[u]) = 1
               PROVE  there[To(u)] /\ Content(To(u)) = Meant(job[u], Content(Path(u)))
    BY DEF SafeToRemove
  <1>1. Faithful(u) /\ Coded(u) /\ Placing(u) /\ scene \in Scenes /\ got[u] \in Seq(Piece)
    BY DEF InTurn, Base, TypeOK
  <1>2. Acts(job[u], Path(u)) /\ (job[u].mode = "pack" => got[u] \in Seq(Text))
    BY <1>1 DEF Placing, Making, OnPath
  <1>3. there[To(u)] /\ Content(To(u)) = out[u] /\ got[u] = Content(Path(u))
    BY <1>1 DEF Faithful, Content, Newest
  <1>4. Result(job[u], got[u]).res = "ok" /\ out[u] = Result(job[u], got[u]).out
    BY <1>1 DEF Coded, Making
  <1>5. job[u] \in Job  BY <1>1, SceneFacts
  <1>6. job[u].mode # "pack" => job[u].mode = "unpack"  BY <1>2 DEF Acts
  <1>7. Result(job[u], got[u]).out = Meant(job[u], got[u])
    BY <1>1, <1>2, <1>4, <1>5, <1>6, ResultFacts
  <1>8. QED  BY <1>3, <1>4, <1>7

(***************************************************************************)
(* One command at a time, and none by force: nobody's target is there      *)
(* before it is opened, and what is dear is in a file that no one is just  *)
(* writing.                                                                *)
(***************************************************************************)
Unforced == (\A u \in Users : ~job[u].force) /\ \A n \in DOMAIN scene.folder : FirstIsAll(scene.folder[n])

NewTarget(u) ==
    (pc[u] = "open" => ~there[To(u)]) /\ (pc[u] \in {"write", "remove"} => To(u) # Path(u))
AllFirst == \A n \in Names : \A i \in DOMAIN files[n] : FirstIsAll(files[n][i])
Has(n, x) == there[n] /\ x \in LettersOf(Newest(files[n]))
Somewhere ==
    \A x \in dear : \E n \in Names : Has(n, x) /\ \A u \in Users : pc[u] \in {"write", "remove"} => n # To(u)

KeptInTurn ==
    scene.alone /\ Unforced /\ ~huge => (\A u \in Users : NewTarget(u)) /\ AllFirst /\ Somewhere

LEMMA NewTargetStep ==
    ASSUME Base, NEW u \in Users, Coded(u), Faithful(u), NewTarget(u), ~job[u].force, UserStep(u)
    PROVE  NewTarget(u)'
PROOF
  <1>1. TypeOK /\ DiskTypes  BY TypeParts DEF Base
  <1>2. left'[u] = left[u] => Path(u)' = Path(u) /\ To(u)' = To(u)
    BY <1>1, StepIsAlone DEF Path, To, Alone, job
  <1>3. CASE UNCHANGED vars
    <2>1. left' = left /\ pc' = pc /\ there' = there  BY <1>3 DEF vars
    <2>2. QED  BY <1>2, <2>1 DEF NewTarget
  <1>4. CASE Leaves(u) \/ Removes(u) \/ Sources(u) \/ Reads(u) \/ HasRead(u) \/ Codes(u)
    <2>1. pc'[u] \notin {"open", "write", "remove"}
      BY <1>1, <1>4, NextPathFacts DEF Leaves, Removes, Sources, Reads, HasRead, Codes
    <2>2. QED  BY <2>1 DEF NewTarget
  <1>5. CASE Finds(u)
    BY <1>2, <1>5 DEF Finds, NewTarget, disk
  <1>6. CASE Opens(u)
    <2>1. pc[u] = "open" /\ pc'[u] = "write" /\ left' = left  BY <1>6 DEF Opens
    <2>2. there[Path(u)] /\ ~there[To(u)]  BY <2>1 DEF Faithful, NewTarget
    <2>3. QED  BY <1>2, <2>1, <2>2 DEF NewTarget
  <1>7. CASE Writes(u) \/ HasWritten(u)
    BY <1>2, <1>7 DEF Writes, HasWritten, NewTarget
  <1>8. QED  BY <1>3, <1>4, <1>5, <1>6, <1>7, StepKinds

\* What a command has written so far has no second stream.
LEMMA BegunFirst ==
    ASSUME Base, NEW u \in Users, Coded(u), pc[u] \in Making, NEW c \in Seq(Piece), NEW k \in Nat, Begun(c, out[u], k)
    PROVE  FirstIsAll(c)
PROOF
  <1>1. Placing(u) /\ scene \in Scenes /\ got[u] \in Seq(Piece) /\ out[u] \in Seq(Piece)  BY DEF Base, TypeOK
  <1>2. job[u] \in Job /\ (job[u].mode = "pack" => got[u] \in Seq(Text))
    BY <1>1, SceneFacts DEF Placing, Making, OnPath
  <1> DEFINE o == Result(job[u], got[u]).out
  <1>3. out[u] = o  BY DEF Coded
  <1> HIDE DEF o
  <1>4. o \in Seq(Piece) /\ Len(o) \in Nat /\ k <= Len(o) /\ Len(c) = k /\ \A i \in 1..k : c[i] = o[i]
    BY <1>1, <1>3 DEF Begun
  <1>5. k \in 0..Len(o)  BY <1>4
  <1>6. SubSeq(o, 1, k) \in Seq(Piece) /\ Len(SubSeq(o, 1, k)) = k /\ \A i \in 1..k : SubSeq(o, 1, k)[i] = o[i]
    BY <1>4, <1>5, PrefixFacts
  <1>7. c = SubSeq(o, 1, k)  BY <1>4, <1>6, SeqEqual
  <1>8. FirstIsAll(SubSeq(o, 1, k))
    <2>1. PICK j \in Job, g \in Seq(Piece) : j = job[u] /\ g = got[u]  BY <1>1, <1>2
    <2>2. k \in 0..Len(Result(j, g).out)  BY <1>5, <2>1 DEF o
    <2>3. FirstIsAll(SubSeq(Result(j, g).out, 1, k))  BY <1>2, <2>1, <2>2, PartFirstIsAll
    <2>4. QED  BY <2>1, <2>3 DEF o
  <1>9. QED  BY <1>7, <1>8

LEMMA AllFirstStep ==
    ASSUME Base, NEW u \in Users, Coded(u), Faithful(u), AllFirst, UserStep(u)
    PROVE  AllFirst'
PROOF
  <1>1. TypeOK /\ DiskTypes /\ UserTypes /\ DiskTypes' /\ Coded(u)' /\ Faithful(u)' /\ Base'
    BY TypeParts, DiskTypesStep, CodedStep, FaithfulStep, BaseStep DEF Base, UserStep, Next
  <1>2. SUFFICES ASSUME NEW n \in Names, NEW i \in DOMAIN files'[n]  PROVE FirstIsAll(files'[n][i])
    BY DEF AllFirst
  <1>3. CASE files'[n] = files[n]  BY <1>2, <1>3 DEF AllFirst
  <1>4. CASE Opens(u) /\ n = To(u)
    <2>1. files[n] \in Seq(Seq(Piece)) /\ files'[n] \in Seq(Seq(Piece))  BY <1>1 DEF DiskTypes
    <2>2. Len(files[n]) \in Nat /\ Len(files'[n]) \in Nat /\ i \in 1..Len(files'[n])  BY <1>2, <2>1
    <2>3. CASE i = Len(files'[n])
      <3>1. files'[n][i] = <<>>  BY <1>4, <2>3 DEF Opens
      <3>2. <<>> \in Seq(Text)  OBVIOUS
      <3>3. files'[n][i] \in Seq(Text)  BY <3>1, <3>2
      <3>4. QED  BY <3>3, TextFacts
    <2>4. CASE i # Len(files'[n])
      <3>1. i \in 1..(Len(files'[n]) - 1) /\ i \in DOMAIN files[n]
        BY <1>4, <2>1, <2>2, <2>4 DEF Opens
      <3>2. files'[n][i] = files[n][i]  BY <1>4, <3>1 DEF Opens
      <3>3. QED  BY <3>1, <3>2 DEF AllFirst
    <2>5. QED  BY <2>3, <2>4
  <1>5. CASE Writes(u) /\ n = To(u)
    <2>1. files[n] \in Seq(Seq(Piece)) /\ files'[n] \in Seq(Seq(Piece))  BY <1>1 DEF DiskTypes
    <2>2. dst[u] = Len(files[n]) /\ Len(files'[n]) = Len(files[n])  BY <1>5 DEF Writes, Faithful
    <2>3. CASE i # dst[u]
      <3>1. i \in DOMAIN files[n] \ {dst[u]}  BY <1>2, <2>1, <2>2, <2>3
      <3>2. files'[n][i] = files[n][i]  BY <1>5, <3>1 DEF Writes
      <3>3. QED  BY <3>1, <3>2 DEF AllFirst
    <2>4. CASE i = dst[u]
      <3>1. pc[u] \in Making /\ pc'[u] = "write" /\ out' = out /\ left' = left  BY <1>5 DEF Writes, Making
      <3>2. To(u)' = To(u)
        BY <1>1, <3>1, StepIsAlone DEF To, Path, Alone, job
      <3>3. Begun(files'[n][i], out[u], at'[u])
        <4>1. Begun(Newest(files'[n]), out[u], at'[u])  BY <1>1, <1>5, <3>1, <3>2 DEF Faithful
        <4>2. QED  BY <2>2, <2>4, <4>1 DEF Newest
      <3>4. files'[n][i] \in Seq(Piece)  BY <1>2, <2>1
      <3>5. at'[u] \in Nat  BY <1>1 DEF Base, TypeOK
      <3>6. QED  BY <3>1, <3>3, <3>4, <3>5, BegunFirst
    <2>5. QED  BY <2>3, <2>4
  <1>6. CASE ~(Opens(u) /\ n = To(u)) /\ ~(Writes(u) /\ n = To(u))
    <2>1. (Opens(u) \/ Writes(u)) => files'[n] = files[n]  BY <1>6 DEF Opens, Writes
    <2>2. ~(Opens(u) \/ Writes(u)) => files' = files
      BY StepKinds DEF vars, disk, Leaves, Sources, Reads, HasRead, Codes, Finds, HasWritten, Removes
    <2>3. QED  BY <1>3, <2>1, <2>2
  <1>7. QED  BY <1>4, <1>5, <1>6

LEMMA SomewhereStep ==
    ASSUME Base, NEW u \in Users, Coded(u), Faithful(u), NewTarget(u), Fitted(u), AllFirst, Somewhere,
           UserStep(u), \A v \in Users \ {u} : ~Busy(v) /\ ~Busy(v)'
    PROVE  Somewhere'
PROOF
  <1>1. TypeOK /\ DiskTypes /\ UserTypes /\ Placing(u) /\ scene \in Scenes  BY TypeParts DEF Base
  <1>2. dear' = dear /\ job' = job  BY <1>1, StepIsAlone DEF Alone, job
  <1>3. left'[u] = left[u] => To(u)' = To(u)  BY <1>2 DEF Path, To
  <1>4. SUFFICES ASSUME NEW x \in dear
                 PROVE  \E n \in Names : Has(n, x)' /\ (pc'[u] \in {"write", "remove"} => n # To(u)')
    <2>1. \A v \in Users \ {u} : pc'[v] \notin {"write", "remove"}  BY DEF Busy
    <2>2. QED  BY <1>2, <1>4, <2>1 DEF Somewhere
  <1>5. PICK n \in Names : Has(n, x) /\ (pc[u] \in {"write", "remove"} => n # To(u))  BY DEF Somewhere
  <1>6. ASSUME files'[n] = files[n], there'[n] = there[n],
               pc'[u] \in {"write", "remove"} => n # To(u) /\ left'[u] = left[u]
        PROVE  \E m \in Names : Has(m, x)' /\ (pc'[u] \in {"write", "remove"} => m # To(u)')
    <2>1. Has(n, x)'  BY <1>5, <1>6 DEF Has
    <2>2. QED  BY <1>3, <1>6, <2>1
  <1>7. CASE UNCHANGED vars
    <2>1. files' = files /\ there' = there /\ left' = left /\ pc' = pc  BY <1>7 DEF vars
    <2>2. QED  BY <1>5, <1>6, <2>1
  <1>8. CASE Leaves(u) \/ Sources(u) \/ Reads(u) \/ HasRead(u) \/ Codes(u) \/ Finds(u)
    <2>1. files' = files /\ there' = there /\ pc'[u] \notin {"write", "remove"}
      BY <1>8 DEF disk, Leaves, Sources, Reads, HasRead, Codes, Finds
    <2>2. QED  BY <1>6, <2>1
  <1>9. CASE Opens(u)
    <2>1. /\ pc[u] = "open" /\ left' = left /\ there' = [there EXCEPT ![To(u)] = TRUE]
          /\ \A m \in Names \ {To(u)} : files'[m] = files[m]
      BY <1>9 DEF Opens
    <2>2. n # To(u)  BY <1>5, <2>1 DEF NewTarget, Has
    <2>3. there'[n] = there[n]  BY <1>1, <2>1, <2>2 DEF DiskTypes
    <2>4. QED  BY <1>6, <2>1, <2>2, <2>3
  <1>10. CASE Writes(u) \/ HasWritten(u)
    <2>1. pc[u] = "write" /\ left' = left /\ there' = there /\ \A m \in Names \ {To(u)} : files'[m] = files[m]
      BY <1>10 DEF Writes, HasWritten, disk
    <2>2. QED  BY <1>5, <1>6, <2>1
  <1>11. CASE Removes(u)
    <2>1. /\ pc[u] = "remove" /\ files' = files /\ pc'[u] = "source"
          /\ \A m \in Names : m # Path(u) => there'[m] = there[m]
      BY <1>1, <1>11, NextPathFacts DEF Removes, DiskTypes
    <2>2. CASE n # Path(u)  BY <1>6, <2>1, <2>2
    <2>3. CASE n = Path(u)
      <3>1. To(u) # Path(u) /\ To(u) \in Names  BY <2>1, TargetIsName DEF NewTarget, Making
      <3>2. there[To(u)] /\ Newest(files[To(u)]) = out[u] /\ got[u] = Newest(files[n])
        BY <2>1, <2>3, <3>1 DEF Faithful
      <3>3. x \in LettersOf(got[u])  BY <1>5, <3>2 DEF Has
      <3>4. FirstIsAll(got[u])
        <4>1. files[n] \in Seq(Seq(Piece)) /\ files[n] # <<>>  BY <1>1, <1>5 DEF DiskTypes, Has
        <4>2. Len(files[n]) \in DOMAIN files[n]  BY <4>1
        <4>3. QED  BY <3>2, <4>2 DEF AllFirst, Newest
      <3>5. /\ job[u] \in Job /\ got[u] \in Seq(Piece) /\ (job[u].mode = "pack" => got[u] \in Seq(Text))
            /\ Result(job[u], got[u]).res = "ok" /\ out[u] = Result(job[u], got[u]).out
        BY <1>1, <2>1, SceneFacts DEF Placing, Making, OnPath, Coded, UserTypes
      <3>6. x \in LettersOf(out[u])
        <4>1. Fits(job[u].tool, got[u])  BY <2>1 DEF Fitted, Making
        <4>2. QED  BY <3>3, <3>4, <3>5, <4>1, ResultFacts
      <3>7. Has(To(u), x)
        BY <3>2, <3>6 DEF Has
      <3>8. PICK m \in Names : m = To(u)  BY <3>1
      <3>9. there'[m] /\ files'[m] = files[m] /\ there[m] /\ x \in LettersOf(Newest(files[m]))
        BY <2>1, <3>1, <3>7, <3>8 DEF Has
      <3>10. Has(m, x)'  BY <3>9 DEF Has
      <3>11. QED  BY <2>1, <3>10
    <2>4. QED  BY <2>2, <2>3
  <1>12. QED  BY <1>7, <1>8, <1>9, <1>10, <1>11, StepKinds

LEMMA KeptInTurnStep ==
    ASSUME Base, \A v \in Users : Coded(v), Sized, InTurn, KeptInTurn, NEW u \in Users, UserStep(u)
    PROVE  KeptInTurn'
PROOF
  <1>1. scene' = scene  BY StepIsAlone DEF Base, Alone
  <1>2. SUFFICES ASSUME scene.alone, Unforced, ~huge'
                 PROVE  (\A v \in Users : NewTarget(v)') /\ AllFirst' /\ Somewhere'
    BY <1>1 DEF KeptInTurn, Unforced, job
  <1>3. ~huge  BY <1>2, HugeStep DEF Base
  <1>4. /\ \A v \in Users : Faithful(v) /\ NewTarget(v) /\ Fitted(v) /\ ~job[v].force
        /\ AllFirst /\ Somewhere /\ \A v \in Users \ {u} : ~Busy(v) /\ ~Busy(v)'
    BY <1>2, <1>3, TurnsStep DEF InTurn, KeptInTurn, Unforced, Sized
  <1>5. AllFirst' /\ Somewhere' /\ NewTarget(u)'
    BY <1>4, AllFirstStep, SomewhereStep, NewTargetStep
  <1>6. \A v \in Users \ {u} : NewTarget(v)'  BY <1>4 DEF Busy, NewTarget
  <1>7. QED  BY <1>5, <1>6

----------------------------------------------------------------------------
(***************************************************************************)
(* Commands that run at the same time, on names that they keep apart.      *)
(* What was in the folder stays as it was, what has been removed is made,  *)
(* and whatever order the writers of a file come in, the last to have      *)
(* opened it makes it whole.                                               *)
(***************************************************************************)
AtOnce == ~scene.alone /\ ~scene.mishaps /\ Unforced /\ Apart

Folder == DOMAIN scene.folder
Before(n) == scene.folder[n]

Aims(u, n) == IsPath(u, n) /\ Acts(job[u], n)
Aim(u, n) == Target(job[u], n)
Due(u, n) == Result(job[u], Before(n)).out

LEMMA ApartFacts ==
    ASSUME Apart, NEW u \in Users, NEW v \in Users, NEW n, NEW m, Aims(u, n), Aims(v, m)
    PROVE  /\ Aim(u, n) # m
           /\ Aim(u, n) = Aim(v, m) => n = m /\ \A c : Result(job[u], c) = Result(job[v], c)
PROOF
  <1>1. PICK i \in DOMAIN job[u].paths : job[u].paths[i] = n  BY DEF Aims, IsPath
  <1>2. PICK k \in DOMAIN job[v].paths : job[v].paths[k] = m  BY DEF Aims, IsPath
  <1>3. Acts(job[u], n) /\ Acts(job[v], m)  BY DEF Aims
  <1>4. /\ Target(job[u], n) # m
        /\ Target(job[u], n) = Target(job[v], m) =>
              n = m /\ job[u].tool = job[v].tool /\ job[u].mode = job[v].mode
    BY <1>1, <1>2, <1>3 DEF Apart
  <1>5. QED  BY <1>4 DEF Aim, Result

\* What a command has in hand when it makes a file of one that it has read.
Careful(u) ==
    /\ pc[u] \in OnPath /\ Acts(job[u], Path(u)) =>
          /\ Path(u) \in Folder
          /\ pc[u] = "read" => src[u] = 1 /\ Begun(got[u], Before(Path(u)), Len(got[u]))
          /\ pc[u] # "read" => got[u] = Before(Path(u))
    /\ pc[u] \in {"open", "write", "remove"} => To(u) \notin Folder
    /\ pc[u] \in {"write", "remove"} => there[To(u)]
    /\ pc[u] = "write" => dst[u] = 1 /\ at[u] <= Len(out[u])

\* The k pieces that a command has written, whatever the others did.
Done(c, o, k) == k <= Len(c) /\ \A i \in 1..k : c[i] = o[i]

Untouched == \A n \in Folder : Len(files[n]) = 1 /\ files[n][1] = Before(n)
Single == \A n \in Names \ Folder : Len(files[n]) <= 1 /\ (~there[n] => Len(files[n]) = 0)
Aimed == \A n \in Names \ Folder : there[n] => \E v \in Users : \E m \in Names : Aims(v, m) /\ Aim(v, m) = n
Replaced ==
    \A n \in Folder : ~there[n] =>
        \E v \in Users : /\ Aims(v, n) /\ Result(job[v], Before(n)).res = "ok"
                         /\ Fits(job[v].tool, Before(n))
                         /\ Aim(v, n) \notin Folder /\ there[Aim(v, n)]
MadeBy(c, o, t) == \E u \in Users : pc[u] = "write" /\ To(u) = t /\ Done(c, o, at[u])
Made ==
    \A v \in Users : \A n \in Folder :
        Aims(v, n) /\ Aim(v, n) \notin Folder /\ there[Aim(v, n)] =>
            LET o == Due(v, n)
                c == files[Aim(v, n)][1]
            IN  Len(c) <= Len(o) /\ (c = o \/ MadeBy(c, o, Aim(v, n)))

Together ==
    AtOnce /\ ~huge =>
              /\ \A u \in Users : Careful(u)
              /\ Untouched /\ Single /\ Aimed /\ Replaced /\ Made

LEMMA DoneFacts ==
    ASSUME NEW S, NEW o \in Seq(S), NEW c \in Seq(S), Len(c) <= Len(o), NEW k \in Nat, k < Len(o)
    PROVE  /\ Len(Placed(c, k + 1, o[k + 1])) <= Len(o)
           /\ c = o => Placed(c, k + 1, o[k + 1]) = o
           /\ \A l \in Nat : Done(c, o, l) => Done(Placed(c, k + 1, o[k + 1]), o, l)
           /\ Done(c, o, k) => Done(Placed(c, k + 1, o[k + 1]), o, k + 1)
PROOF
  <1> DEFINE d == Placed(c, k + 1, o[k + 1])
             n == Larger(Len(c), k + 1)
  <1>1. n \in Nat /\ Len(c) <= n /\ k + 1 <= n /\ (n = Len(c) \/ n = k + 1) /\ Len(c) \in Nat /\ Len(o) \in Nat
    BY DEF Larger
  <1>2. d = [i \in 1..n |-> IF i = k + 1 THEN o[k + 1] ELSE IF i <= Len(c) THEN c[i] ELSE Hole]
    BY DEF Placed
  <1> HIDE DEF d, n
  <1>3. Len(d) = n /\ DOMAIN d = 1..n
    <2>1. d \in Seq({d[i] : i \in 1..n})
      <3>1. \A T : d \in [1..n -> T] => d \in Seq(T)  BY <1>1
      <3>2. d \in [1..n -> {d[i] : i \in 1..n}]  BY <1>2
      <3>3. QED  BY <3>1, <3>2
    <2>2. DOMAIN d = 1..n  BY <1>2
    <2>3. QED  BY <1>1, <2>1, <2>2
  <1>4. n <= Len(o)  BY <1>1
  <1>5. d[k + 1] = o[k + 1]  BY <1>1, <1>2
  <1>6. \A i \in 1..Len(c) : i # k + 1 => d[i] = c[i]
    <2>1. \A i \in 1..Len(c) : i \in 1..n /\ i <= Len(c)  BY <1>1
    <2>2. QED  BY <1>2, <2>1
  <1>7. ASSUME c = o  PROVE d = o
    <2>1. n = Len(o)  BY <1>1, <1>7
    <2>2. \A i \in 1..n : d[i] = o[i]  BY <1>5, <1>6, <1>7, <2>1
    <2>3. d = [i \in 1..n |-> d[i]]  BY <1>2
    <2>4. o = [i \in 1..n |-> o[i]]  BY <2>1
    <2>5. QED  BY <2>2, <2>3, <2>4
  <1>8. ASSUME NEW l \in Nat, Done(c, o, l)  PROVE Done(d, o, l)
    <2>1. l <= Len(c) /\ \A i \in 1..l : c[i] = o[i]  BY <1>8 DEF Done
    <2>2. \A i \in 1..l : i \in 1..Len(c)  BY <1>1, <2>1
    <2>3. \A i \in 1..l : d[i] = o[i]  BY <1>5, <1>6, <2>1, <2>2
    <2>4. l <= n  BY <1>1, <2>1
    <2>5. QED  BY <1>3, <2>3, <2>4 DEF Done
  <1>9. ASSUME Done(c, o, k)  PROVE Done(d, o, k + 1)
    <2>1. \A i \in 1..k : d[i] = o[i]  BY <1>8, <1>9 DEF Done
    <2>2. \A i \in 1..(k + 1) : i \in 1..k \/ i = k + 1  OBVIOUS
    <2>3. \A i \in 1..(k + 1) : d[i] = o[i]  BY <1>5, <2>1, <2>2
    <2>4. QED  BY <1>1, <1>3, <2>3 DEF Done
  <1>10. QED  BY <1>3, <1>4, <1>7, <1>8, <1>9 DEF d

\* A file of which something is made was in the folder: nobody's target is.
LEMMA SourceIsOld ==
    ASSUME Base, Apart, Aimed, NEW u \in Users, NEW n, Aims(u, n), there[n]
    PROVE  n \in Folder
PROOF
  <1>1. n \in Names  BY SceneFacts DEF Base, Aims
  <1>2. QED  BY <1>1, ApartFacts DEF Aimed

\* A target that was in the folder is still there.
LEMMA OldTargetStays ==
    ASSUME Apart, Replaced, NEW u \in Users, NEW n, Aims(u, n), Aim(u, n) \in Folder
    PROVE  there[Aim(u, n)]
PROOF
  <1>1. ASSUME ~there[Aim(u, n)]  PROVE FALSE
    <2>1. PICK v \in Users : Aims(v, Aim(u, n))  BY <1>1 DEF Replaced
    <2>2. QED  BY <2>1, ApartFacts
  <1>2. QED  BY <1>1

\* Where a command is making a file, it aims at it.
LEMMA MakingAims ==
    ASSUME Base, NEW u \in Users, pc[u] \in Making
    PROVE  /\ Aims(u, Path(u)) /\ Aim(u, Path(u)) = To(u) /\ To(u) \in Names /\ Path(u) \in Names
           /\ pc[u] \in OnPath /\ Acts(job[u], Path(u))
PROOF
  BY TargetIsName DEF Aims, Aim, Making, OnPath

LEMMA CarefulStep ==
    ASSUME Base, AtOnce, Untouched, Single, Aimed, Replaced,
           NEW u \in Users, Coded(u), Careful(u), UserStep(u)
    PROVE  Careful(u)'
PROOF
  <1>1. TypeOK /\ Placing(u) /\ UserTypes /\ DiskTypes /\ scene \in Scenes /\ Apart /\ ~job[u].force
    BY TypeParts DEF Base, AtOnce, Unforced
  <1>2. job' = job /\ scene' = scene  BY <1>1, StepIsAlone DEF Alone, job
  <1>3. pc[u] \in OnPath \/ left[u] # <<>> => left[u] # <<>> /\ Path(u) \in Names /\ IsPath(u, Path(u))
    BY <1>1, SomePath DEF Placing
  <1>4. left'[u] = left[u] => Path(u)' = Path(u) /\ To(u)' = To(u)  BY <1>2 DEF Path, To
  <1>5. \A c, k : Begun(c, Before(Path(u)), k) <=>
            k <= Len(scene.folder[Path(u)]) /\ Len(c) = k /\ \A i \in 1..k : c[i] = scene.folder[Path(u)][i]
    BY DEF Begun, Before
  <1>6. \A n \in Folder : n \in Names /\ Before(n) \in Seq(Piece) /\ files[n] \in Seq(Seq(Piece))
    BY <1>1, PackersAssumption DEF Folder, Before, DiskTypes
  <1>7. CASE UNCHANGED vars
    <2>1. left' = left /\ UNCHANGED <<there, pc, src, got, out, dst, at>>  BY <1>7 DEF vars
    <2>2. QED  BY <1>2, <1>4, <2>1 DEF Careful, Folder, Before
  <1>8. CASE Leaves(u) \/ Removes(u)
    <2>1. pc'[u] \in {"source", "done"}  BY <1>1, <1>8, NextPathFacts DEF Leaves, Removes
    <2>2. QED  BY <2>1 DEF Careful, OnPath
  <1>9. CASE Sources(u)
    <2>1. /\ pc'[u] = "read" /\ left' = left /\ got' = got
          /\ src'[u] = Len(files[Path(u)]) /\ there[Path(u)] /\ left[u] # <<>> /\ pc[u] = "source"
      BY <1>9 DEF Sources
    <2>2. ASSUME Acts(job[u], Path(u))
          PROVE  Path(u) \in Folder /\ src'[u] = 1 /\ Begun(got[u], Before(Path(u)), Len(got[u]))
      <3>1. Aims(u, Path(u))  BY <1>3, <2>1, <2>2 DEF Aims
      <3>2. Path(u) \in Folder  BY <1>1, <2>1, <3>1, SourceIsOld
      <3>3. src'[u] = 1  BY <2>1, <3>2 DEF Untouched
      <3>4. got[u] = <<>>  BY <1>1, <2>1 DEF Placing
      <3>5. \A s : s = <<>> => Len(s) = 0  OBVIOUS
      <3>6. Len(got[u]) = 0  BY <3>4, <3>5, Zenon
      <3>7. Begun(got[u], Before(Path(u)), 0)  BY <1>6, <3>2, <3>4, BegunFacts
      <3>8. QED  BY <3>2, <3>3, <3>6, <3>7
    <2>3. QED  BY <1>2, <1>4, <2>1, <2>2 DEF Careful, Folder, Before
  <1>10. CASE Reads(u) \/ HasRead(u)
    <2>1. pc[u] = "read" /\ pc'[u] \in {"read", "code"} /\ left' = left /\ src' = src
      BY <1>10 DEF Reads, HasRead
    <2>2. ASSUME Acts(job[u], Path(u))
          PROVE  /\ Path(u) \in Folder /\ src[u] = 1
                 /\ pc'[u] = "read" => Begun(got'[u], Before(Path(u)), Len(got'[u]))
                 /\ pc'[u] # "read" => got'[u] = Before(Path(u))
      <3>1. Path(u) \in Folder /\ src[u] = 1 /\ Begun(got[u], Before(Path(u)), Len(got[u]))
        BY <2>1, <2>2 DEF Careful, OnPath
      <3> DEFINE c == Before(Path(u))
      <3>2. c = files[Path(u)][src[u]]  BY <3>1 DEF Untouched
      <3>3. c \in Seq(Piece) /\ got[u] \in Seq(Piece) /\ Len(got[u]) \in Nat
        BY <1>1, <1>6, <3>1 DEF UserTypes
      <3>4. CASE Reads(u)
        <4>1. Len(got[u]) < Len(c) /\ got'[u] = Append(got[u], c[Len(got[u]) + 1]) /\ pc'[u] = "read"
          BY <3>2, <3>4 DEF Reads, Unread
        <4> HIDE DEF c
        <4>2. Begun(got[u], c, Len(got[u]))  BY <3>1 DEF c
        <4>3. Begun(got'[u], c, Len(got[u]) + 1)  BY <3>3, <4>1, <4>2, BegunFacts
        <4>4. Begun(got'[u], c, Len(got'[u]))  BY <4>3 DEF Begun
        <4>5. QED  BY <3>1, <4>1, <4>4 DEF c
      <3>5. CASE HasRead(u)
        <4>1. ~(Len(got[u]) < Len(c)) /\ got' = got /\ pc'[u] = "code"
          BY <3>2, <3>5 DEF HasRead, Unread
        <4> HIDE DEF c
        <4>2. Begun(got[u], c, Len(got[u]))  BY <3>1 DEF c
        <4>3. got[u] = c  BY <3>3, <4>1, <4>2, BegunFacts
        <4>4. QED  BY <3>1, <4>1, <4>3 DEF c
      <3>6. QED  BY <1>10, <3>4, <3>5
    <2>3. QED  BY <1>2, <1>4, <2>1, <2>2 DEF Careful, Folder, Before
  <1>11. CASE Codes(u)
    <2>1. pc[u] = "code" /\ pc'[u] = "stat" /\ left' = left /\ got' = got  BY <1>1, <1>11 DEF Codes
    <2>2. QED  BY <1>2, <1>4, <2>1 DEF Careful, OnPath, Folder, Before
  <1>12. CASE Finds(u)
    <2>1. pc[u] = "stat" /\ pc'[u] = "open" /\ ~there[To(u)] /\ left' = left /\ got' = got
      BY <1>12 DEF Finds
    <2>2. Aims(u, Path(u)) /\ Aim(u, Path(u)) = To(u)  BY <2>1, MakingAims DEF Making
    <2>3. To(u) \notin Folder  BY <1>1, <2>1, <2>2, OldTargetStays
    <2>4. QED  BY <1>2, <1>4, <2>1, <2>3 DEF Careful, OnPath, Folder, Before
  <1>13. CASE Opens(u)
    <2>1. /\ pc[u] = "open" /\ pc'[u] = "write" /\ left' = left /\ got' = got /\ out' = out /\ at' = at
          /\ there' = [there EXCEPT ![To(u)] = TRUE]
          /\ dst'[u] = IF there[To(u)] THEN Len(files[To(u)]) ELSE Len(files[To(u)]) + 1
      BY <1>13 DEF Opens
    <2>2. To(u) \in Names /\ To(u) \notin Folder  BY <2>1, MakingAims DEF Making, Careful
    <2>3. there'[To(u)]  BY <1>1, <2>1, <2>2 DEF DiskTypes
    <2>4. dst'[u] = 1
      <3>1. files[To(u)] \in Seq(Seq(Piece)) /\ (there[To(u)] => files[To(u)] # <<>>)
        BY <1>1, <2>2 DEF DiskTypes
      <3>2. Len(files[To(u)]) <= 1 /\ (~there[To(u)] => Len(files[To(u)]) = 0)  BY <2>2 DEF Single
      <3>3. Len(files[To(u)]) \in Nat /\ (there[To(u)] => Len(files[To(u)]) # 0)  BY <3>1
      <3>4. CASE there[To(u)]
        <4>1. dst'[u] = Len(files[To(u)])  BY <2>1, <3>4
        <4>2. \A k \in Nat : k <= 1 /\ k # 0 => k = 1  OBVIOUS
        <4>3. Len(files[To(u)]) = 1  BY <3>2, <3>3, <3>4, <4>2
        <4>4. QED  BY <4>1, <4>3
      <3>5. CASE ~there[To(u)]  BY <2>1, <3>2, <3>5
      <3>6. QED  BY <3>4, <3>5
    <2>5. at'[u] <= Len(out'[u])
      <3>1. at[u] = 0 /\ out[u] \in Seq(Piece)  BY <1>1, <2>1 DEF Coded, UserTypes
      <3>2. QED  BY <2>1, <3>1
    <2>6. QED  BY <1>2, <1>4, <2>1, <2>2, <2>3, <2>4, <2>5 DEF Careful, OnPath, Folder, Before
  <1>14. CASE Writes(u)
    <2>1. /\ pc[u] = "write" /\ pc'[u] = "write" /\ left' = left /\ got' = got /\ out' = out /\ there' = there
          /\ dst' = dst /\ at[u] < Len(out[u]) /\ at'[u] = at[u] + 1
      BY <1>14 DEF Writes
    <2>2. at'[u] <= Len(out'[u])
      <3>1. at[u] \in Nat /\ out[u] \in Seq(Piece)  BY <1>1 DEF UserTypes
      <3>2. QED  BY <2>1, <3>1
    <2>3. QED  BY <1>2, <1>4, <2>1, <2>2 DEF Careful, OnPath, Folder, Before
  <1>15. CASE HasWritten(u)
    <2>1. pc[u] = "write" /\ pc'[u] = "remove" /\ left' = left /\ got' = got /\ there' = there
      BY <1>15 DEF HasWritten, disk
    <2>2. QED  BY <1>2, <1>4, <2>1 DEF Careful, OnPath, Folder, Before
  <1>16. QED
    BY <1>7, <1>8, <1>9, <1>10, <1>11, <1>12, <1>13, <1>14, <1>15, StepKinds

\* What the steps do to the directory, and that targets stay there.
LEMMA DirectoryStep ==
    ASSUME Base, AtOnce, NEW u \in Users, Careful(u), UserStep(u)
    PROVE  /\ \A n \in Names : files'[n] = files[n] \/ ((Opens(u) \/ Writes(u)) /\ n = To(u) /\ n \notin Folder)
           /\ \A n \in Names : \/ there'[n] = there[n]
                               \/ Opens(u) /\ n = To(u) /\ n \notin Folder /\ there'[n]
                               \/ Removes(u) /\ n = Path(u) /\ n \in Folder
           /\ \A v \in Users : \A m : Aims(v, m) /\ Aim(v, m) \in Names /\ there[Aim(v, m)] => there'[Aim(v, m)]
PROOF
  <1>1. TypeOK /\ DiskTypes /\ Apart  BY TypeParts DEF Base, AtOnce
  <1>2. CASE files' = files /\ there' = there  BY <1>2
  <1>3. CASE Opens(u)
    <2>1. To(u) \in Names /\ To(u) \notin Folder  BY <1>3, MakingAims DEF Opens, Making, Careful
    <2>2. /\ \A n \in Names \ {To(u)} : files'[n] = files[n]
          /\ there' = [there EXCEPT ![To(u)] = TRUE]
      BY <1>3 DEF Opens
    <2>3. there'[To(u)] /\ \A n \in Names \ {To(u)} : there'[n] = there[n]  BY <1>1, <2>1, <2>2 DEF DiskTypes
    <2>4. \A n \in Names : there[n] => there'[n]  BY <2>3
    <2>5. QED  BY <1>3, <2>1, <2>2, <2>3, <2>4
  <1>4. CASE Writes(u)
    <2>1. To(u) \notin Folder  BY <1>4 DEF Writes, Careful
    <2>2. there' = there /\ \A n \in Names \ {To(u)} : files'[n] = files[n]  BY <1>4 DEF Writes
    <2>3. QED  BY <1>4, <2>1, <2>2
  <1>5. CASE Removes(u)
    <2>1. Aims(u, Path(u)) /\ Path(u) \in Folder  BY <1>5, MakingAims DEF Removes, Making, OnPath, Careful
    <2>2. files' = files /\ \A n \in Names : n # Path(u) => there'[n] = there[n]
      BY <1>1, <1>5 DEF Removes, DiskTypes
    <2>3. \A v \in Users : \A m : Aims(v, m) => Aim(v, m) # Path(u)  BY <1>1, <2>1, ApartFacts
    <2>4. QED  BY <1>5, <2>1, <2>2, <2>3
  <1>6. ~Opens(u) /\ ~Writes(u) /\ ~Removes(u) => files' = files /\ there' = there
    BY StepKinds DEF vars, disk, Leaves, Sources, Reads, HasRead, Codes, Finds, HasWritten
  <1>7. QED  BY <1>2, <1>3, <1>4, <1>5, <1>6

LEMMA CarefulOthers ==
    ASSUME Base, AtOnce, NEW u \in Users, Careful(u), UserStep(u), NEW v \in Users \ {u}, Careful(v)
    PROVE  Careful(v)'
PROOF
  <1>1. Alone(u)  BY StepIsAlone DEF Base
  <1>2. /\ job' = job /\ scene' = scene
        /\ pc'[v] = pc[v] /\ left'[v] = left[v] /\ src'[v] = src[v] /\ got'[v] = got[v]
        /\ out'[v] = out[v] /\ dst'[v] = dst[v] /\ at'[v] = at[v]
    BY <1>1 DEF Alone, job
  <1>3. Path(v)' = Path(v) /\ To(v)' = To(v)  BY <1>2 DEF Path, To
  <1>4. pc[v] \in {"write", "remove"} => there'[To(v)]
    <2>1. SUFFICES ASSUME pc[v] \in {"write", "remove"}  PROVE there'[To(v)]
      OBVIOUS
    <2>2. Aims(v, Path(v)) /\ Aim(v, Path(v)) = To(v) /\ To(v) \in Names  BY <2>1, MakingAims DEF Making
    <2>3. there[To(v)]  BY <2>1 DEF Careful
    <2>4. QED  BY <2>2, <2>3, DirectoryStep
  <1>5. QED  BY <1>2, <1>3, <1>4 DEF Careful, Folder, Before

LEMMA FolderStep ==
    ASSUME Base, AtOnce, Untouched, Single, Aimed, Replaced,
           NEW u \in Users, Coded(u), Fitted(u), Careful(u), UserStep(u)
    PROVE  Untouched' /\ Single' /\ Aimed' /\ Replaced'
PROOF
  <1>1. TypeOK /\ DiskTypes /\ Apart /\ DiskTypes'  BY TypeParts, DiskTypesStep DEF Base, AtOnce
  <1>2. job' = job /\ scene' = scene  BY <1>1, StepIsAlone DEF Alone, job
  <1>3. Folder' = Folder /\ \A n : Before(n)' = Before(n)  BY <1>2 DEF Folder, Before
  <1>4. \A v, n : (Aims(v, n)' <=> Aims(v, n)) /\ Aim(v, n)' = Aim(v, n)
    BY <1>2 DEF Aims, Aim, IsPath
  <1>5. /\ \A n \in Names : files'[n] = files[n] \/ ((Opens(u) \/ Writes(u)) /\ n = To(u) /\ n \notin Folder)
        /\ \A n \in Names : \/ there'[n] = there[n]
                            \/ Opens(u) /\ n = To(u) /\ n \notin Folder /\ there'[n]
                            \/ Removes(u) /\ n = Path(u) /\ n \in Folder
        /\ \A v \in Users : \A m : Aims(v, m) /\ Aim(v, m) \in Names /\ there[Aim(v, m)] => there'[Aim(v, m)]
    BY DirectoryStep
  <1>6. \A n \in Folder : n \in Names  BY PackersAssumption DEF Folder, Base
  <1>7. Untouched'
    <2>1. \A n \in Folder : files'[n] = files[n]  BY <1>5, <1>6
    <2>2. \A n \in Folder : Len(files'[n]) = 1 /\ files'[n][1] = Before(n)  BY <2>1 DEF Untouched
    <2>3. QED  BY <1>2, <2>2 DEF Untouched, Folder, Before
  <1>8. Single'
    <2>1. SUFFICES ASSUME NEW n \in Names \ Folder
                   PROVE  Len(files'[n]) <= 1 /\ (~there'[n] => Len(files'[n]) = 0)
      BY <1>3 DEF Single
    <2>2. Len(files[n]) <= 1 /\ (~there[n] => Len(files[n]) = 0)  BY DEF Single
    <2>3. CASE files'[n] = files[n]
      <3>1. there[n] => there'[n]  BY <1>5
      <3>2. QED  BY <2>2, <2>3, <3>1
    <2>4. CASE Opens(u) /\ n = To(u)
      <3>1. Len(files'[n]) = IF there[n] THEN Len(files[n]) ELSE Len(files[n]) + 1  BY <2>4 DEF Opens
      <3>2. there'[n]  BY <1>1, <2>4 DEF Opens, DiskTypes
      <3>3. CASE there[n]
        <4>1. Len(files'[n]) = Len(files[n])  BY <3>1, <3>3
        <4>2. QED  BY <2>2, <3>2, <4>1
      <3>4. CASE ~there[n]
        <4>1. Len(files'[n]) = Len(files[n]) + 1  BY <3>1, <3>4
        <4>2. QED  BY <2>2, <3>2, <3>4, <4>1
      <3>5. QED  BY <3>3, <3>4
    <2>5. CASE Writes(u) /\ n = To(u)
      <3>1. Len(files'[n]) = Len(files[n]) /\ there' = there  BY <2>5 DEF Writes
      <3>2. QED  BY <2>2, <3>1
    <2>6. QED  BY <1>5, <2>3, <2>4, <2>5
  <1>9. Aimed'
    <2>1. ASSUME NEW n \in Names \ Folder, there'[n]
          PROVE  \E v \in Users : \E m \in Names : Aims(v, m) /\ Aim(v, m) = n
      <3>1. CASE there[n]  BY <3>1 DEF Aimed
      <3>2. CASE Opens(u) /\ n = To(u)
        BY <3>2, MakingAims DEF Opens, Making
      <3>3. QED  BY <1>5, <2>1, <3>1, <3>2
    <2>2. QED  BY <1>3, <1>4, <2>1 DEF Aimed
  <1>10. Replaced'
    <2>1. ASSUME NEW n \in Folder, ~there'[n]
          PROVE  \E v \in Users : /\ Aims(v, n) /\ Result(job[v], Before(n)).res = "ok"
                                  /\ Fits(job[v].tool, Before(n))
                                  /\ Aim(v, n) \notin Folder /\ there'[Aim(v, n)]
      <3>1. CASE ~there[n]
        <4>1. PICK v \in Users : /\ Aims(v, n) /\ Result(job[v], Before(n)).res = "ok"
                                 /\ Fits(job[v].tool, Before(n))
                                 /\ Aim(v, n) \notin Folder /\ there[Aim(v, n)]
          BY <3>1 DEF Replaced
        <4>2. Aim(v, n) \in Names  BY <4>1, SceneFacts DEF Base, Aims, Aim
        <4>3. QED  BY <1>5, <4>1, <4>2
      <3>2. CASE Removes(u) /\ n = Path(u)
        <4>1. pc[u] = "remove"  BY <3>2 DEF Removes
        <4>2. /\ Aims(u, n) /\ Aim(u, n) = To(u) /\ To(u) \in Names
              /\ To(u) \notin Folder /\ there[To(u)] /\ got[u] = Before(n)
          BY <3>2, <4>1, MakingAims DEF Making, Careful
        <4>3. Result(job[u], Before(n)).res = "ok" /\ Fits(job[u].tool, Before(n))
          BY <4>1, <4>2 DEF Coded, Fitted, Making
        <4>4. QED  BY <1>5, <4>2, <4>3
      <3>3. QED  BY <1>5, <1>6, <2>1, <3>1, <3>2
    <2>2. ASSUME NEW n \in Folder, ~there'[n]
          PROVE  \E v \in Users : /\ Aims(v, n)' /\ Result(job'[v], Before(n)').res = "ok"
                                  /\ Fits(job'[v].tool, Before(n)')
                                  /\ Aim(v, n)' \notin Folder' /\ there'[Aim(v, n)']
      BY <1>2, <1>3, <1>4, <2>1, <2>2
    <2>3. QED  BY <1>3, <2>2 DEF Replaced
  <1>11. QED  BY <1>7, <1>8, <1>9, <1>10

\* Whoever opened a file last makes it whole.
LEMMA MadeStep ==
    ASSUME Base, AtOnce, Single, Made, NEW u \in Users, UserStep(u),
           \A v \in Users : Coded(v) /\ Careful(v)
    PROVE  Made'
PROOF
  <1>1. TypeOK /\ DiskTypes /\ UserTypes /\ DiskTypes' /\ Apart /\ ~scene.mishaps /\ scene \in Scenes
    BY TypeParts, DiskTypesStep DEF Base, AtOnce
  <1>2. job' = job /\ scene' = scene /\ Alone(u)  BY <1>1, StepIsAlone DEF Alone, job
  <1>3. Folder' = Folder /\ \A n : Before(n)' = Before(n)  BY <1>2 DEF Folder, Before
  <1>4. \A v, n : (Aims(v, n)' <=> Aims(v, n)) /\ Aim(v, n)' = Aim(v, n) /\ Due(v, n)' = Due(v, n)
    BY <1>2 DEF Aims, Aim, IsPath, Due, Before
  <1>5. \A v \in Users \ {u} : pc'[v] = pc[v] /\ at'[v] = at[v] /\ To(v)' = To(v)
    BY <1>2 DEF Alone, To, Path
  <1>6. left'[u] = left[u] => To(u)' = To(u)  BY <1>2 DEF To, Path
  <1>7. SUFFICES ASSUME NEW v \in Users, NEW n \in Folder, Aims(v, n), Aim(v, n) \notin Folder, there'[Aim(v, n)],
                        NEW o, o = Due(v, n), NEW t, t = Aim(v, n)
                 PROVE  /\ Len(files'[t][1]) <= Len(o)
                        /\ files'[t][1] = o \/ \E w \in Users : pc'[w] = "write" /\ To(w)' = t /\ Done(files'[t][1], o, at'[w])
    BY <1>3, <1>4 DEF Made, MadeBy
  <1>8. t \in Names \ Folder /\ there'[t]  BY <1>1, <1>7, SceneFacts DEF Aims, Aim
  <1>9. o \in Seq(Piece) /\ Len(o) \in Nat
    <2>1. Before(n) \in Seq(Piece) /\ job[v] \in Job /\ (job[v].mode = "pack" => Before(n) \in Seq(Text))
      BY <1>1, <1>7, SceneFacts, PackersAssumption DEF Folder, Before, Aims
    <2>2. o \in Seq(Piece)  BY <1>7, <2>1, ResultFacts DEF Due
    <2>3. QED  BY <2>2
  \* A command that aims at it has the same to write.
  <1>10. ASSUME NEW w \in Users, pc[w] \in {"write", "remove"}, To(w) = t
         PROVE  out[w] = o /\ Aims(w, Path(w)) /\ (pc[w] = "write" => at[w] <= Len(o) /\ dst[w] = 1)
    <2>1. Aims(w, Path(w)) /\ Aim(w, Path(w)) = t /\ pc[w] \in OnPath /\ Acts(job[w], Path(w))
      BY <1>10, MakingAims DEF Making
    <2>2. Path(w) = n /\ Result(job[w], Before(n)) = Result(job[v], Before(n))
      BY <1>1, <1>7, <2>1, ApartFacts
    <2>3. got[w] = Before(n) /\ (pc[w] = "write" => at[w] <= Len(out[w]) /\ dst[w] = 1)
      BY <1>10, <2>1, <2>2 DEF Careful
    <2>4. out[w] = Result(job[w], got[w]).out  BY <1>10 DEF Coded, Making
    <2>5. out[w] = o  BY <1>7, <2>2, <2>3, <2>4 DEF Due
    <2>6. QED  BY <2>1, <2>3, <2>5
  <1>11. there[t] =>
            /\ Len(files[t][1]) <= Len(o)
            /\ files[t][1] = o \/ \E w \in Users : pc[w] = "write" /\ To(w) = t /\ Done(files[t][1], o, at[w])
    BY <1>7 DEF Made, MadeBy
  <1>12. there[t] => files[t][1] \in Seq(Piece)
    <2>1. SUFFICES ASSUME there[t]  PROVE files[t][1] \in Seq(Piece)
      OBVIOUS
    <2>2. files[t] \in Seq(Seq(Piece)) /\ files[t] # <<>>  BY <1>1, <1>8, <2>1 DEF DiskTypes
    <2>3. 1 \in DOMAIN files[t]  BY <2>2
    <2>4. QED  BY <2>2, <2>3
  <1>13. CASE Opens(u) /\ To(u) = t
    <2>1. /\ pc[u] = "open" /\ pc'[u] = "write" /\ left' = left /\ at' = at
          /\ Len(files'[t]) = IF there[t] THEN Len(files[t]) ELSE Len(files[t]) + 1
          /\ files'[t][Len(files'[t])] = <<>>
      BY <1>13 DEF Opens
    <2>2. Len(files'[t]) = 1
      <3>1. files[t] \in Seq(Seq(Piece)) /\ (there[t] => files[t] # <<>>)  BY <1>1, <1>8 DEF DiskTypes
      <3>2. Len(files[t]) <= 1 /\ (~there[t] => Len(files[t]) = 0)  BY <1>8 DEF Single
      <3>3. Len(files[t]) \in Nat /\ (there[t] => Len(files[t]) # 0)  BY <3>1
      <3>4. CASE there[t]
        <4>1. Len(files'[t]) = Len(files[t])  BY <2>1, <3>4
        <4>2. \A k \in Nat : k <= 1 /\ k # 0 => k = 1  OBVIOUS
        <4>3. QED  BY <3>2, <3>3, <3>4, <4>1, <4>2
      <3>5. CASE ~there[t]  BY <2>1, <3>2, <3>5
      <3>6. QED  BY <3>4, <3>5
    <2>3. Len(files'[t][1]) = 0
      <3>1. files'[t][1] = <<>>  BY <2>1, <2>2
      <3>2. \A s : s = <<>> => Len(s) = 0  OBVIOUS
      <3>3. QED  BY <3>1, <3>2, Zenon
    <2>4. at'[u] = 0  BY <2>1 DEF Coded
    <2>5. Done(files'[t][1], o, at'[u])  BY <2>3, <2>4 DEF Done
    <2>6. To(u)' = t  BY <1>6, <1>13, <2>1
    <2>7. QED  BY <1>9, <2>1, <2>3, <2>5, <2>6
  <1>14. CASE Writes(u) /\ To(u) = t
    <2>1. /\ pc[u] = "write" /\ pc'[u] = "write" /\ left' = left /\ there' = there
          /\ at[u] < Len(out[u]) /\ at'[u] = at[u] + 1
          /\ files'[t][dst[u]] = Placed(files[t][dst[u]], at[u] + 1, out[u][at[u] + 1])
      BY <1>14 DEF Writes
    <2>2. out[u] = o /\ dst[u] = 1 /\ at[u] \in Nat /\ there[t]  BY <1>1, <1>8, <1>10, <1>14, <2>1 DEF UserTypes
    <2>3. PICK c \in Seq(Piece), k \in Nat : c = files[t][1] /\ k = at[u]  BY <1>12, <2>2
    <2>4. k < Len(o) /\ files'[t][1] = Placed(c, k + 1, o[k + 1]) /\ at'[u] = k + 1  BY <2>1, <2>2, <2>3
    <2>5. Len(c) <= Len(o)  BY <1>11, <2>2, <2>3
    <2> DEFINE d == Placed(c, k + 1, o[k + 1])
    <2>6. /\ Len(d) <= Len(o) /\ (c = o => d = o)
          /\ \A l \in Nat : Done(c, o, l) => Done(d, o, l)
          /\ Done(c, o, k) => Done(d, o, k + 1)
      BY <1>9, <2>4, <2>5, DoneFacts
    <2>7. files'[t][1] = d  BY <2>4
    <2> HIDE DEF d
    <2>8. CASE c = o  BY <2>6, <2>7, <2>8
    <2>9. CASE c # o
      <3>1. PICK w \in Users : pc[w] = "write" /\ To(w) = t /\ Done(c, o, at[w])
        BY <1>11, <2>2, <2>3, <2>9
      <3>2. at[w] \in Nat  BY <1>1 DEF UserTypes
      <3>3. CASE w = u
        <4>1. Done(d, o, at'[u])  BY <2>3, <2>4, <2>6, <3>1, <3>3
        <4>2. To(u)' = t  BY <1>6, <1>14, <2>1
        <4>3. QED  BY <2>1, <2>6, <2>7, <4>1, <4>2
      <3>4. CASE w # u
        <4>1. Done(d, o, at'[w]) /\ pc'[w] = "write" /\ To(w)' = t  BY <1>5, <2>6, <3>1, <3>2, <3>4
        <4>2. QED  BY <2>6, <2>7, <4>1
      <3>5. QED  BY <3>3, <3>4
    <2>10. QED  BY <2>8, <2>9
  <1>15. CASE ~(Opens(u) /\ To(u) = t) /\ ~(Writes(u) /\ To(u) = t)
    <2>1. files'[t] = files[t] /\ there[t]  BY <1>8, <1>15, DirectoryStep
    <2>2. CASE files[t][1] = o  BY <1>11, <2>1, <2>2
    <2>3. CASE files[t][1] # o
      <3>1. PICK w \in Users : pc[w] = "write" /\ To(w) = t /\ Done(files[t][1], o, at[w])
        BY <1>11, <2>1, <2>3
      <3>2. CASE w # u
        <4>1. pc'[w] = "write" /\ To(w)' = t /\ Done(files'[t][1], o, at'[w])  BY <1>5, <2>1, <3>1, <3>2
        <4>2. QED  BY <1>11, <2>1, <4>1
      <3>3. CASE w = u
        <4>1. CASE UNCHANGED vars
          <5>1. pc' = pc /\ at' = at /\ left' = left  BY <4>1 DEF vars
          <5>2. To(u)' = t  BY <1>6, <3>1, <3>3, <5>1
          <5>3. QED  BY <1>11, <2>1, <3>1, <3>3, <5>1, <5>2
        <4>2. CASE ~(at[u] < Len(out[u]))
          <5>1. out[u] = o /\ at[u] <= Len(o) /\ at[u] \in Nat  BY <1>1, <1>10, <3>1, <3>3 DEF UserTypes
          <5>2. at[u] = Len(o)  BY <1>9, <4>2, <5>1
          <5>3. PICK c \in Seq(Piece) : c = files[t][1]  BY <1>12, <2>1
          <5>4. Len(o) <= Len(c) /\ Len(c) <= Len(o) /\ \A i \in 1..Len(o) : c[i] = o[i]
            BY <1>11, <2>1, <3>1, <3>3, <5>2, <5>3 DEF Done
          <5>5. Len(c) = Len(o)  BY <1>9, <5>4
          <5>6. c = o  BY <1>9, <5>4, <5>5, SeqEqual
          <5>7. QED  BY <2>3, <5>3, <5>6
        <4>3. Leaves(u) \/ HasWritten(u) \/ UNCHANGED vars
          BY <1>15, <3>1, <3>3, StepKinds DEF Sources, Reads, HasRead, Codes, Finds, Opens, Writes, Removes
        <4>4. Leaves(u) \/ HasWritten(u) => ~(at[u] < Len(out[u]))
          BY <1>1, <3>1, <3>3 DEF Leaves, HasWritten
        <4>5. QED  BY <4>1, <4>2, <4>3, <4>4
      <3>4. QED  BY <3>2, <3>3
    <2>4. QED  BY <2>2, <2>3
  <1>16. QED  BY <1>13, <1>14, <1>15

LEMMA TogetherStep ==
    ASSUME Base, \A v \in Users : Coded(v), Sized, Together, NEW u \in Users, UserStep(u)
    PROVE  Together'
PROOF
  <1>1. scene' = scene  BY StepIsAlone DEF Base, Alone
  <1>2. AtOnce' <=> AtOnce  BY <1>1 DEF AtOnce, Unforced, Apart, job
  <1>3. SUFFICES ASSUME AtOnce, ~huge'
                 PROVE  (\A v \in Users : Careful(v)') /\ Untouched' /\ Single' /\ Aimed' /\ Replaced' /\ Made'
    BY <1>2 DEF Together
  <1>4. ~huge  BY <1>3, HugeStep DEF Base
  <1>5. (\A v \in Users : Careful(v) /\ Fitted(v)) /\ Untouched /\ Single /\ Aimed /\ Replaced /\ Made
    BY <1>3, <1>4 DEF Together, Sized
  <1>6. Untouched' /\ Single' /\ Aimed' /\ Replaced'  BY <1>3, <1>5, FolderStep
  <1>7. Made'  BY <1>3, <1>5, MadeStep
  <1>8. Careful(u)'  BY <1>3, <1>5, CarefulStep
  <1>9. \A v \in Users \ {u} : Careful(v)'  BY <1>3, <1>5, CarefulOthers
  <1>10. QED  BY <1>6, <1>7, <1>8, <1>9

----------------------------------------------------------------------------
(***************************************************************************)
(* The inductive invariant, and what follows from it.                      *)
(***************************************************************************)
OfFolder == \A x \in dear : \E n \in Folder : x \in LettersOf(Before(n))

Safe == Base /\ (\A u \in Users : Coded(u)) /\ Sized /\ InTurn /\ KeptInTurn /\ Together /\ OfFolder

LEMMA SafeInit == Init => Safe
PROOF
  <1> SUFFICES ASSUME Init  PROVE Safe
    OBVIOUS
  <1>1. Base  BY BaseInit
  <1>2. TypeOK /\ DiskTypes /\ scene \in Scenes  BY <1>1, TypeParts DEF Base
  <1>3. /\ \A u \in Users : pc[u] = "idle" /\ at[u] = 0
        /\ \A n \in Names : there[n] <=> n \in Folder
        /\ \A n \in Folder : n \in Names /\ files[n] = <<Before(n)>>
        /\ \A n \in Names \ Folder : files[n] = <<>>
        /\ \A x \in dear : \E n \in Folder : x \in LettersOf(Before(n))
    BY <1>2, PackersAssumption DEF Init, Folder, Before
  <1>4. \A u \in Users : Coded(u) /\ Faithful(u) /\ NewTarget(u) /\ Careful(u) /\ ~Busy(u)
    BY <1>3 DEF Coded, Faithful, NewTarget, Careful, Busy, Making, OnPath
  <1>5. InTurn  BY <1>4 DEF InTurn, Turns
  <1>6. Untouched
    <2>1. \A x, s : s = <<x>> => Len(s) = 1 /\ s[1] = x  OBVIOUS
    <2>2. QED  BY <1>3, <2>1, Zenon DEF Untouched
  <1>7. Single
    <2>1. \A s : s = <<>> => Len(s) = 0 /\ Len(s) <= 1  OBVIOUS
    <2>2. QED  BY <1>3, <2>1, Zenon DEF Single
  <1>8. ASSUME Unforced  PROVE AllFirst /\ Somewhere
    <2>1. \A n \in Names : files[n] \in Seq(Seq(Piece))  BY <1>2 DEF DiskTypes
    <2>2. ASSUME NEW n \in Names, NEW i \in DOMAIN files[n]  PROVE FirstIsAll(files[n][i])
      <3>1. n \in Folder
        <4>1. \A s : s = <<>> => DOMAIN s = {}  OBVIOUS
        <4>2. QED  BY <1>3, <2>2, <4>1, Zenon
      <3>2. i = 1  BY <1>6, <2>1, <2>2, <3>1 DEF Untouched
      <3>3. files[n][i] = Before(n)  BY <1>6, <3>1, <3>2 DEF Untouched
      <3>4. QED  BY <1>8, <3>1, <3>3 DEF Unforced, Folder, Before
    <2>3. ASSUME NEW x \in dear  PROVE \E n \in Names : Has(n, x)
      <3>1. PICK n \in Folder : x \in LettersOf(Before(n))  BY <1>3
      <3>2. n \in Names /\ there[n] /\ Newest(files[n]) = Before(n)
        BY <1>3, <1>6, <3>1 DEF Untouched, Newest
      <3>3. QED  BY <3>1, <3>2 DEF Has
    <2>4. Somewhere  BY <1>3, <2>3 DEF Somewhere
    <2>5. QED  BY <2>2, <2>4 DEF AllFirst
  <1>9. KeptInTurn  BY <1>4, <1>8 DEF KeptInTurn
  <1>10. Together
    <2>1. Aimed /\ Replaced  BY <1>3 DEF Aimed, Replaced
    <2>2. Made
      <3>1. \A v \in Users, n \in Folder : Aims(v, n) => Aim(v, n) \in Names
        BY <1>2, SceneFacts DEF Aims, Aim
      <3>2. QED  BY <1>3, <3>1 DEF Made
    <2>3. QED  BY <1>4, <1>6, <1>7, <2>1, <2>2 DEF Together
  <1>11. Sized  BY <1>3 DEF Sized, Fitted, Making
  <1>12. QED  BY <1>1, <1>3, <1>4, <1>5, <1>9, <1>10, <1>11 DEF Safe, OfFolder

LEMMA SafeStep == Safe /\ [Next]_vars => Safe'
PROOF
  <1> SUFFICES ASSUME Safe, [Next]_vars  PROVE Safe'
    OBVIOUS
  <1>1. Base'  BY BaseStep DEF Safe
  <1>2. ASSUME NEW u \in Users, UserStep(u)  PROVE Safe'
    <2>1. Base /\ (\A v \in Users : Coded(v)) /\ Sized /\ InTurn /\ KeptInTurn /\ Together  BY DEF Safe
    <2>2. \A v \in Users : Coded(v)'  BY <1>2, <2>1, CodedStep
    <2>3. InTurn'  BY <1>2, <2>1, InTurnStep
    <2>4. KeptInTurn'  BY <1>2, <2>1, KeptInTurnStep
    <2>5. Together'  BY <1>2, <2>1, TogetherStep
    <2>6. OfFolder'
      <3>1. scene' = scene /\ dear' = dear  BY <1>2, <2>1, StepIsAlone DEF Base, Alone
      <3>2. QED  BY <3>1 DEF Safe, OfFolder, Folder, Before
    <2>7. Sized'  BY <1>2, <2>1, SizedStep
    <2>8. QED  BY <1>1, <2>2, <2>3, <2>4, <2>5, <2>6, <2>7 DEF Safe
  <1>3. CASE UNCHANGED vars
    <2>1. /\ job' = job /\ UNCHANGED <<scene, files, there, pc, left, src, got, out, dst, at, dear, huge>>
          /\ Folder' = Folder /\ \A n : Before(n)' = Before(n)
      BY <1>3 DEF vars, job, Folder, Before
    <2>2. \A u : Path(u)' = Path(u) /\ To(u)' = To(u)  BY <2>1 DEF Path, To
    <2>3. \A u \in Users : Coded(u)'  BY <2>1 DEF Safe, Coded
    <2>4. InTurn'
      <3>1. \A u : (Busy(u)' <=> Busy(u)) /\ (Faithful(u)' <=> Faithful(u))
        BY <2>1, <2>2 DEF Busy, Faithful
      <3>2. QED  BY <2>1, <3>1 DEF Safe, InTurn, Turns
    <2>5. Unforced' <=> Unforced  BY <2>1 DEF Unforced
    <2>6. KeptInTurn'
      <3>1. /\ \A u : NewTarget(u)' <=> NewTarget(u)
            /\ AllFirst' <=> AllFirst
            /\ \A n, x : Has(n, x)' <=> Has(n, x)
        BY <2>1, <2>2 DEF NewTarget, AllFirst, Has
      <3>2. Somewhere' <=> Somewhere  BY <2>1, <2>2, <3>1 DEF Somewhere
      <3>3. QED  BY <2>1, <2>5, <3>1, <3>2 DEF Safe, KeptInTurn
    <2>7. Together'
      <3>1. AtOnce' <=> AtOnce  BY <2>1, <2>5 DEF AtOnce, Apart
      <3>2. \A u : Careful(u)' <=> Careful(u)  BY <2>1, <2>2 DEF Careful
      <3>3. \A v, n : /\ Aims(v, n)' <=> Aims(v, n)
                      /\ Aim(v, n)' = Aim(v, n) /\ Due(v, n)' = Due(v, n)
        BY <2>1 DEF Aims, Aim, IsPath, Due
      <3>4. \A c, o, t : MadeBy(c, o, t)' <=> MadeBy(c, o, t)  BY <2>1, <2>2 DEF MadeBy
      <3>5. (Untouched' <=> Untouched) /\ (Single' <=> Single)  BY <2>1 DEF Untouched, Single
      <3>6. (Aimed' <=> Aimed) /\ (Replaced' <=> Replaced)  BY <2>1, <3>3 DEF Aimed, Replaced
      <3>7. Made' <=> Made  BY <2>1, <3>3, <3>4 DEF Made
      <3>8. huge' = huge  BY <2>1
      <3>9. Together' <=> Together
        BY <3>1, <3>2, <3>5, <3>6, <3>7, <3>8 DEF Together
      <3>10. QED  BY <3>9 DEF Safe
    <2>8. OfFolder'  BY <2>1 DEF Safe, OfFolder
    <2>9. Sized'  BY <2>1 DEF Safe, Sized, Fitted
    <2>10. QED  BY <1>1, <2>3, <2>4, <2>6, <2>7, <2>8, <2>9 DEF Safe
  <1>4. QED  BY <1>2, <1>3 DEF Next, Terminated, UserStep

\* What is dear is in a file of the directory, or being written.
LEMMA SafeSurvives == Safe => Survives
PROOF
  <1> SUFFICES ASSUME Safe, Trusted, ~huge, NEW x \in dear
               PROVE  x \in InHand \/ \E n \in Names : there[n] /\ x \in LettersOf(Content(n))
    BY DEF Survives
  <1>1. Base /\ (\A u \in Users : Coded(u)) /\ KeptInTurn /\ Together /\ Unforced /\ scene \in Scenes
        /\ (scene.alone \/ AtOnce)
    BY DEF Safe, Base, Trusted, Unforced, AtOnce, Apart
  <1>2. CASE scene.alone
    <2>1. PICK n \in Names : Has(n, x)  BY <1>1, <1>2 DEF KeptInTurn, Somewhere
    <2>2. QED  BY <2>1 DEF Has, Content, Newest
  <1>3. CASE AtOnce
    <2>1. /\ (\A u \in Users : Careful(u)) /\ Untouched /\ Replaced /\ Made /\ Apart /\ ~scene.mishaps
      BY <1>1, <1>3 DEF Together, AtOnce
    <2>2. PICK n \in Folder : x \in LettersOf(Before(n))  BY DEF Safe, OfFolder
    <2>3. n \in Names /\ Before(n) \in Seq(Piece) /\ FirstIsAll(Before(n))
      BY <1>1, PackersAssumption DEF Folder, Before, Unforced
    <2>4. CASE there[n]
      <3>1. Content(n) = Before(n)  BY <2>1 DEF Untouched, Content
      <3>2. QED  BY <2>2, <2>3, <2>4, <3>1
    <2>5. CASE ~there[n]
      <3>1. PICK v \in Users : /\ Aims(v, n) /\ Result(job[v], Before(n)).res = "ok"
                               /\ Fits(job[v].tool, Before(n))
                               /\ Aim(v, n) \notin Folder /\ there[Aim(v, n)]
        BY <2>1, <2>5 DEF Replaced
      <3>2. PICK t \in Names : t = Aim(v, n)  BY <1>1, <3>1, SceneFacts DEF Aims, Aim
      <3>3. PICK o : o = Due(v, n)  OBVIOUS
      <3>4. x \in LettersOf(o)
        <4>1. job[v] \in Job /\ (job[v].mode = "pack" => Before(n) \in Seq(Text))
          BY <1>1, <3>1, SceneFacts DEF Folder, Before, Aims
        <4>2. QED  BY <2>2, <2>3, <3>1, <3>3, <4>1, ResultFacts DEF Due
      <3>5. files[t][1] = o \/ MadeBy(files[t][1], o, t)  BY <2>1, <3>1, <3>2, <3>3 DEF Made
      <3>6. CASE files[t][1] = o
        <4>1. files[t] \in Seq(Seq(Piece)) /\ Len(files[t]) <= 1 /\ files[t] # <<>>
          BY <1>1, <1>3, <3>1, <3>2 DEF Together, Single, Base, TypeOK
        <4>2. Len(files[t]) = 1
          <5>1. Len(files[t]) \in Nat /\ Len(files[t]) # 0  BY <4>1
          <5>2. \A k \in Nat : k <= 1 /\ k # 0 => k = 1  OBVIOUS
          <5>3. QED  BY <4>1, <5>1, <5>2
        <4>3. Content(t) = o  BY <3>6, <4>2 DEF Content
        <4>4. QED  BY <3>1, <3>2, <3>4, <4>3
      <3>7. CASE MadeBy(files[t][1], o, t)
        <4>1. PICK u \in Users : pc[u] = "write" /\ To(u) = t  BY <3>7 DEF MadeBy
        <4>2. Aims(u, Path(u)) /\ Aim(u, Path(u)) = t /\ pc[u] \in OnPath /\ Acts(job[u], Path(u))
          BY <1>1, <4>1, MakingAims DEF Making
        <4>3. Path(u) = n /\ Result(job[u], Before(n)) = Result(job[v], Before(n))
          BY <2>1, <3>1, <3>2, <4>2, ApartFacts
        <4>4. got[u] = Before(n)  BY <2>1, <4>1, <4>2, <4>3 DEF Careful
        <4>5. out[u] = o  BY <1>1, <3>3, <4>1, <4>3, <4>4 DEF Coded, Making, Due
        <4>6. QED  BY <2>1, <3>4, <4>1, <4>5 DEF InHand
      <3>8. QED  BY <3>5, <3>6, <3>7
    <2>6. QED  BY <2>4, <2>5
  <1>4. QED  BY <1>1, <1>2, <1>3

LEMMA SafeAlways == Spec => []Safe
PROOF
  <1>1. QED  BY SafeInit, SafeStep, PTL DEF Spec

\* A source of less than 2^32 bytes, or any that zstd has read, goes only
\* when its target is there and is what the source stands for, for any
\* commands that run one at a time, on any paths, whatever fails and wherever
\* they are killed.
THEOREM SourceIsSafe == Spec => []SafeToRemove
PROOF
  <1>1. Safe => SafeToRemove  BY InTurnIsSafe DEF Safe
  <1>2. QED  BY <1>1, SafeAlways, PTL

\* As long as only zstd makes files of what has 2^32 bytes or more, no
\* letter is lost, by commands that run one at a time and are killed or fail
\* anywhere, nor by any number of commands at the same time that keep their
\* names apart, nor when several of them make the same file.
THEOREM NoContentLost == Spec => []Survives
PROOF
  <1>1. QED  BY SafeSurvives, SafeAlways, PTL
=============================================================================
