---------------------------- MODULE ZoxideProofs ----------------------------
(***************************************************************************)
(* Proofs about Zoxide, for any terminals and directories.                 *)
(***************************************************************************)
EXTENDS Zoxide, SequenceTheorems, FiniteSetTheorems, TLAPS

\* What the sequences built from others consist of.
LEMMA RestsOfLines ==
    ASSUME NEW s \in Seq(Line), NEW rest \in Rests(s)
    PROVE  /\ rest \in Seq(Line)
           /\ \A i \in DOMAIN rest : \E j \in DOMAIN s :
                 rest[i].path = s[j].path /\ rest[i].rank <= s[j].rank
<1>1. CASE \E k \in 1..Len(s) + 1 : rest = SubSeq(s, k, Len(s))
  <2>1. PICK k \in 1..Len(s) + 1 : rest = SubSeq(s, k, Len(s))
    BY <1>1
  <2>2. Len(s) \in Nat /\ \A i \in 1..Len(s) : s[i] \in Line
    BY ElementOfSeq
  <2>3. k \in Int /\ Len(s) \in Int /\ \A i \in k..Len(s) : s[i] \in Line
    BY <2>2
  <2>4. /\ rest \in Seq(Line)
        /\ Len(rest) = IF k <= Len(s) THEN Len(s) - k + 1 ELSE 0
        /\ \A i \in 1..Len(s) - k + 1 : rest[i] = s[k + i - 1]
    BY <2>1, <2>3, SubSeqProperties
  <2>5. ASSUME NEW i \in DOMAIN rest
        PROVE  \E j \in DOMAIN s : rest[i].path = s[j].path /\ rest[i].rank <= s[j].rank
    <3>1. i \in 1..Len(s) - k + 1 /\ k + i - 1 \in DOMAIN s
      BY <2>2, <2>4
    <3>2. rest[i] = s[k + i - 1] /\ s[k + i - 1] \in Line
      BY <3>1, <2>2, <2>4
    <3>3. s[k + i - 1].rank <= s[k + i - 1].rank
      BY <3>2 DEF Line
    <3> QED
      BY <3>1, <3>2, <3>3
  <2> QED
    BY <2>4, <2>5
<1>2. CASE \E k \in DOMAIN s : \E l \in Cut(s[k]) : rest = <<l>> \o SubSeq(s, k + 1, Len(s))
  <2>0. PICK k \in DOMAIN s : \E l \in Cut(s[k]) : rest = <<l>> \o SubSeq(s, k + 1, Len(s))
    BY <1>2
  <2>1. PICK l \in Cut(s[k]) : rest = <<l>> \o SubSeq(s, k + 1, Len(s))
    BY <2>0
  <2>2. s[k] \in Line /\ k \in 1..Len(s)
    BY ElementOfSeq
  <2>3. l \in Line /\ l.path = s[k].path /\ l.rank <= s[k].rank
    BY <2>2 DEF Cut, Line
  <2>4. /\ SubSeq(s, k + 1, Len(s)) \in Seq(Line)
        /\ \A i \in DOMAIN SubSeq(s, k + 1, Len(s)) :
              i + k \in DOMAIN s /\ SubSeq(s, k + 1, Len(s))[i] = s[i + k]
    BY <2>2
  <2>5. rest \in Seq(Line) /\ Len(rest) = 1 + Len(SubSeq(s, k + 1, Len(s)))
        /\ rest[1] = l
        /\ \A i \in 2..Len(rest) : rest[i] = SubSeq(s, k + 1, Len(s))[i - 1]
    BY <2>1, <2>3, <2>4
  <2>6. ASSUME NEW i \in DOMAIN rest
        PROVE  \E j \in DOMAIN s : rest[i].path = s[j].path /\ rest[i].rank <= s[j].rank
    <3>1. CASE i = 1
      BY <3>1, <2>2, <2>3, <2>5
    <3>2. CASE i # 1
      <4>1. i \in 2..Len(rest) /\ i - 1 \in DOMAIN SubSeq(s, k + 1, Len(s))
        BY <3>2, <2>4, <2>5
      <4>2. i - 1 + k \in DOMAIN s /\ rest[i] = s[i - 1 + k]
        BY <4>1, <2>4, <2>5
      <4>3. s[i - 1 + k] \in Line
        BY <4>2, ElementOfSeq
      <4> QED
        BY <4>2, <4>3 DEF Line
    <3> QED
      BY <3>1, <3>2
  <2> QED
    BY <2>5, <2>6
<1> QED
  BY <1>1, <1>2 DEF Rests

LEMMA PickedLines ==
    ASSUME NEW s \in Seq(Line), NEW kept \in SUBSET DOMAIN s, NEW r \in Picked(s, kept),
           IsFiniteSet(kept)
    PROVE  /\ r \in Seq(Line)
           /\ \A i \in DOMAIN r : \E j \in kept : r[i] = s[j]
<1>1. PICK f \in [1..Cardinality(kept) -> kept] : r = [k \in DOMAIN f |-> s[f[k]]]
  BY DEF Picked
<1>2. Cardinality(kept) \in Nat
  BY FS_CardinalityType
<1> QED
  BY <1>1, <1>2, ElementOfSeq

\* A finite set of numbers has a least one: of the sets of elements up to
\* each element one is minimal.
LEMMA LeastNumber ==
    ASSUME NEW N \in SUBSET Nat, IsFiniteSet(N), N # {}
    PROVE  \E i \in N : \A j \in N : i <= j
<1> DEFINE UpTo(k) == {i \in N : i <= k}
<1>1. FiniteSubsetsOf(N) = SUBSET N
  BY FS_FiniteSubsetsOfFinite
<1>a. \A k \in N : UpTo(k) \in SUBSET N
  OBVIOUS
<1>2. {UpTo(k) : k \in N} \subseteq FiniteSubsetsOf(N) /\ {UpTo(k) : k \in N} # {}
  <2>1. ASSUME NEW Y \in {UpTo(k) : k \in N} PROVE Y \in FiniteSubsetsOf(N)
    BY <1>1, <1>a
  <2>2. {UpTo(k) : k \in N} # {}
    OBVIOUS
  <2> QED
    BY <2>1, <2>2
<1>3. PICK X \in {UpTo(k) : k \in N} :
        \A Y \in {UpTo(k) : k \in N} : ~ (<<Y, X>> \in StrictSubsetOrdering(N))
  BY <1>2, FS_StrictSubsetOrderingWellFounded, WFMin
<1>4. PICK k \in N : X = UpTo(k)
  OBVIOUS
<1>5. ASSUME NEW j \in N, ~ (k <= j)
      PROVE  FALSE
  <2>0. j \in Nat /\ k \in Nat /\ N \subseteq Nat /\ ~ (k <= j)
    BY <1>5
  <2>1. ASSUME NEW i \in UpTo(j) PROVE i \in UpTo(k)
    <3>1. i \in N /\ i <= j
      OBVIOUS
    <3> QED
      BY <2>0, <3>1
  <2>a. k \in UpTo(k) /\ k \notin UpTo(j)
    BY <2>0
  <2>2. <<UpTo(j), UpTo(k)>> \in StrictSubsetOrdering(N)
    BY <2>1, <2>a DEF StrictSubsetOrdering
  <2> QED
    BY <1>3, <1>4, <2>2
<1> QED
  BY <1>5

\* The first line of a directory is one of its lines.
LEMMA FirstIsNamed ==
    ASSUME NEW s \in Seq(Line), NEW d, Named(s, d) # {}
    PROVE  /\ First(s, d) \in DOMAIN s /\ s[First(s, d)].path = d
           /\ \A j \in Named(s, d) : First(s, d) <= j
<1>1. DOMAIN s = 1..Len(s) /\ Len(s) \in Nat
  OBVIOUS
<1>2. IsFiniteSet(1..Len(s)) /\ Named(s, d) \in SUBSET (1..Len(s))
  BY <1>1, FS_Interval DEF Named
<1>3. Named(s, d) \in SUBSET Nat /\ IsFiniteSet(Named(s, d))
  BY <1>1, <1>2, FS_Subset
<1>4. \E i \in Named(s, d) : \A j \in Named(s, d) : i <= j
  BY <1>3, LeastNumber
<1> QED
  BY <1>4 DEF First, Named

----------------------------------------------------------------------------

\* A command under way has a subcommand and a directory.
Working == \A t \in Terminals : pc[t] # "idle" => op[t] \in Ops /\ dir[t] \in Dirs

Inv == TypeOK /\ Working /\ RankWithinVisits

LEMMA InitInv == Init => Inv
<1> SUFFICES ASSUME Init PROVE Inv
  OBVIOUS
<1>1. <<>> \in Seq(Line) /\ Len(<<>>) = 0
  OBVIOUS
<1>2. TypeOK
  BY <1>1 DEF Init, TypeOK
<1>3. Working /\ RankWithinVisits
  BY <1>1 DEF Init, Working, RankWithinVisits, Bounded
<1> QED
  BY <1>2, <1>3 DEF Inv

\* What a command has in memory after reading on is within the visits.
LEMMA RestsBounded ==
    ASSUME visits \in [Dirs -> Nat],
           NEW s \in Seq(Line), NEW u \in Seq(Line), Bounded(s), Bounded(u),
           NEW rest \in Rests(u)
    PROVE  s \o rest \in Seq(Line) /\ Bounded(s \o rest)
<1>1. /\ rest \in Seq(Line)
      /\ \A i \in DOMAIN rest : \E j \in DOMAIN u :
            rest[i].path = u[j].path /\ rest[i].rank <= u[j].rank
  BY RestsOfLines
<1>2. ASSUME NEW i \in DOMAIN rest PROVE rest[i].rank <= visits[rest[i].path]
  <2>1. PICK j \in DOMAIN u : rest[i].path = u[j].path /\ rest[i].rank <= u[j].rank
    BY <1>1
  <2>2. rest[i] \in Line /\ u[j] \in Line
    BY <1>1, ElementOfSeq
  <2> QED
    BY <2>1, <2>2 DEF Bounded, Line
<1>3. /\ s \o rest \in Seq(Line)
      /\ Len(s \o rest) = Len(s) + Len(rest)
      /\ \A i \in 1..Len(s) + Len(rest) :
            (s \o rest)[i] = IF i <= Len(s) THEN s[i] ELSE rest[i - Len(s)]
  BY <1>1, ConcatProperties
<1>4. ASSUME NEW i \in DOMAIN (s \o rest)
      PROVE  (s \o rest)[i].rank <= visits[(s \o rest)[i].path]
  <2>1. i \in 1..Len(s) + Len(rest)
    BY <1>3
  <2>2. CASE i <= Len(s)
    BY <2>1, <2>2, <1>3 DEF Bounded
  <2>3. CASE ~(i <= Len(s))
    BY <2>1, <2>3, <1>1, <1>2, <1>3
  <2> QED
    BY <2>2, <2>3
<1> QED
  BY <1>3, <1>4 DEF Bounded

LEMMA RankRaised == \A l \in Line : [l EXCEPT !.rank = @ + 1] \in Line
BY DEF Line

\* An addition adds a line of rank 1, or 1 to a line, as the visits do.
LEMMA AddedBounded ==
    ASSUME visits \in [Dirs -> Nat],
           NEW s \in Seq(Line), Bounded(s), NEW d \in Dirs,
           visits' = [visits EXCEPT ![d] = @ + 1]
    PROVE  /\ Added(s, d) \in Seq(Line)
           /\ \A i \in DOMAIN Added(s, d) :
                 Added(s, d)[i].rank <= visits'[Added(s, d)[i].path]
<1>0. /\ \A i \in DOMAIN s : s[i] \in Line /\ s[i].rank <= visits[s[i].path]
      /\ DOMAIN s = 1..Len(s) /\ Len(s) \in Nat
  BY ElementOfSeq DEF Bounded
<1>1. CASE Named(s, d) = {}
  <2> DEFINE e == [path |-> d, rank |-> 1]
  <2>1. e \in Line /\ e.path = d /\ e.rank = 1
    BY DEF Line
  <2>2. /\ Append(s, e) \in Seq(Line)
        /\ DOMAIN Append(s, e) = 1..Len(s) + 1
        /\ Append(s, e)[Len(s) + 1] = e
        /\ \A i \in 1..Len(s) : Append(s, e)[i] = s[i]
    BY <2>1, AppendProperties
  <2>3. 1 <= visits'[d] /\ \A c \in Dirs : /\ visits[c] <= visits'[c]
                                        /\ visits[c] \in Nat /\ visits'[c] \in Nat
    OBVIOUS
  <2>4. ASSUME NEW i \in 1..Len(s) PROVE s[i].rank <= visits'[s[i].path]
    <3>1. s[i].path \in Dirs /\ s[i].rank \in Nat /\ s[i].rank <= visits[s[i].path]
      BY <1>0 DEF Line
    <3> QED
      BY <2>3, <3>1
  <2> HIDE DEF e
  <2>5. Added(s, d) = Append(s, e)
    BY <1>1 DEF Added, e
  <2>6. ASSUME NEW i \in DOMAIN Append(s, e)
        PROVE  Append(s, e)[i].rank <= visits'[Append(s, e)[i].path]
    <3>1. i \in 1..Len(s) \/ i = Len(s) + 1
      BY <2>2, <1>0
    <3> QED
      BY <3>1, <2>1, <2>2, <2>3, <2>4
  <2> QED
    BY <2>2, <2>5, <2>6
<1>2. CASE Named(s, d) # {}
  <2> DEFINE f == First(s, d)
  <2>1. f \in DOMAIN s /\ s[f].path = d
    BY <1>0, <1>2, FirstIsNamed
  <2> HIDE DEF f
  <2>2. Added(s, d) = [s EXCEPT ![f].rank = @ + 1]
    BY <1>2 DEF Added, f
  <2>3. [s[f] EXCEPT !.rank = @ + 1] \in Line
    <3>1. s[f] \in Line
      BY <1>0, <2>1
    <3> QED
      BY <3>1, RankRaised
  <2>4. Added(s, d) \in Seq(Line)
    BY <2>1, <2>2, <2>3, ExceptSeq
  <2>5. ASSUME NEW i \in DOMAIN Added(s, d)
        PROVE  Added(s, d)[i].rank <= visits'[Added(s, d)[i].path]
    <3>1. i \in DOMAIN s
      BY <2>2
    <3>2. CASE i = f
      <4>1. Added(s, d)[i].path = d /\ Added(s, d)[i].rank = s[f].rank + 1
        BY <3>1, <3>2, <2>1, <2>2, <1>0 DEF Line
      <4>2. visits'[d] = visits[d] + 1 /\ s[f].rank \in Nat /\ s[f].rank <= visits[d]
        BY <2>1, <1>0 DEF Line
      <4> QED
        BY <4>1, <4>2
    <3>3. CASE i # f
      <4>1. Added(s, d)[i] = s[i]
        BY <3>1, <3>3, <2>2
      <4> QED
        BY <4>1, <3>1, <1>0 DEF Line
    <3> QED
      BY <3>2, <3>3
  <2> QED
    BY <2>4, <2>5
<1> QED
  BY <1>1, <1>2

LEMMA StepInv ==
    ASSUME Inv, NEW t \in Terminals, Step(t)
    PROVE  Inv'
<1> USE DEF Inv
<1>0. /\ TypeOK /\ Working /\ RankWithinVisits
      /\ db \in Seq(Line) /\ got[t] \in Seq(Line)
      /\ Bounded(db) /\ Bounded(got[t])
      /\ <<>> \in Seq(Line) /\ Len(<<>>) = 0
  BY DEF TypeOK, RankWithinVisits
<1>1. CASE Issue(t)
  <2>1. TypeOK' /\ Working'
    BY <1>1 DEF Issue, Goto, TypeOK, Working
  <2>2. RankWithinVisits'
    BY <1>0, <1>1 DEF Issue, RankWithinVisits, Bounded
  <2> QED
    BY <2>1, <2>2
<1>2. CASE Read(t)
  <2>1. TypeOK' /\ Working'
    BY <1>0, <1>2 DEF Read, Goto, TypeOK, Working
  <2>2. RankWithinVisits'
    BY <1>0, <1>2 DEF Read, RankWithinVisits, Bounded, TypeOK
  <2> QED
    BY <2>1, <2>2
<1>3. CASE ReadMore(t)
  <2>1. PICK rest \in IF db = got[t] THEN {<<>>} ELSE Rests(db) :
           got' = [got EXCEPT ![t] = @ \o rest]
    BY <1>3 DEF ReadMore
  <2>2. got[t] \o rest \in Seq(Line) /\ Bounded(got[t] \o rest)
    <3>1. CASE db = got[t]
      <4>1. got[t] \o rest = got[t]
        BY <1>0, <2>1, <3>1
      <4> QED
        BY <1>0, <4>1
    <3>2. CASE db # got[t]
      BY <1>0, <2>1, <3>2, RestsBounded DEF TypeOK
    <3> QED
      BY <3>1, <3>2
  <2>3. TypeOK' /\ Working'
    BY <1>0, <1>3, <2>1, <2>2 DEF ReadMore, Goto, TypeOK, Working
  <2>4. RankWithinVisits'
    BY <1>0, <1>3, <2>1, <2>2 DEF ReadMore, RankWithinVisits, Bounded, TypeOK
  <2> QED
    BY <2>3, <2>4
<1>4. CASE Add(t)
  <2> DEFINE d == dir[t]
             s == Added(got[t], d)
  <2>1. d \in Dirs /\ visits \in [Dirs -> Nat] /\ visits' = [visits EXCEPT ![d] = @ + 1]
    BY <1>0, <1>4 DEF Add, Working, TypeOK
  <2>2. s \in Seq(Line) /\ \A i \in DOMAIN s : s[i].rank <= visits'[s[i].path]
    BY <1>0, <2>1, AddedBounded
  <2>3. \A c \in Dirs : visits[c] \in Nat /\ visits'[c] \in Nat /\ visits[c] <= visits'[c]
    BY <2>1
  <2>4. got' = [got EXCEPT ![t] = s]
    BY <1>4 DEF Add
  <2> HIDE DEF s
  <2>5. TypeOK' /\ Working'
    BY <1>0, <1>4, <2>1, <2>2, <2>4 DEF Add, Goto, TypeOK, Working
  <2>6. ASSUME NEW u \in Seq(Line), Bounded(u), NEW i \in DOMAIN u
        PROVE  u[i].rank <= visits'[u[i].path]
    <3>0. u[i] \in Line
      BY <2>6, ElementOfSeq
    <3>1. u[i].path \in Dirs /\ u[i].rank \in Nat /\ u[i].rank <= visits[u[i].path]
      BY <2>6, <3>0 DEF Bounded, Line
    <3> QED
      BY <2>3, <3>1
  <2>7. RankWithinVisits'
    <3>1. \A i \in DOMAIN db' : db'[i].rank <= visits'[db'[i].path]
      BY <1>0, <1>4, <2>6 DEF Add
    <3>2. ASSUME NEW u \in Terminals, NEW i \in DOMAIN got'[u]
          PROVE  got'[u][i].rank <= visits'[got'[u][i].path]
      <4>1. got[u] \in Seq(Line) /\ Bounded(got[u])
        BY <1>0 DEF TypeOK, RankWithinVisits
      <4>2. CASE u = t
        BY <2>2, <2>4, <3>2, <4>2 DEF TypeOK
      <4>3. CASE u # t
        <5>1. got'[u] = got[u]
          BY <2>4, <4>3 DEF TypeOK
        <5> QED
          BY <2>6, <3>2, <4>1, <5>1
      <4> QED
        BY <4>2, <4>3
    <3> QED
      BY <3>1, <3>2 DEF RankWithinVisits, Bounded
  <2> QED
    BY <2>5, <2>7
<1>5. ASSUME End(t), UNCHANGED <<calm, db, visits, runs>>
      PROVE  Inv'
  <2>1. TypeOK' /\ Working'
    BY <1>0, <1>5 DEF End, Goto, TypeOK, Working
  <2>2. RankWithinVisits'
    BY <1>0, <1>5 DEF End, RankWithinVisits, Bounded, TypeOK
  <2> QED
    BY <2>1, <2>2
<1>6. ASSUME pc[t] = "change", NEW kept \in SUBSET DOMAIN got[t],
             \E s \in Picked(got[t], kept) : got' = [got EXCEPT ![t] = s],
             Goto(t, "open"), UNCHANGED <<calm, db, op, dir, visits, runs>>
      PROVE  Inv'
  <2>1. PICK s \in Picked(got[t], kept) : got' = [got EXCEPT ![t] = s]
    BY <1>6
  <2>2. s \in Seq(Line) /\ \A i \in DOMAIN s : \E j \in DOMAIN got[t] : s[i] = got[t][j]
    <3>1. IsFiniteSet(kept)
      BY <1>0, FS_Interval, FS_Subset
    <3> QED
      BY <1>0, <3>1, PickedLines
  <2>3. TypeOK' /\ Working'
    BY <1>0, <1>6, <2>1, <2>2 DEF Goto, TypeOK, Working
  <2>4. RankWithinVisits'
    BY <1>0, <1>6, <2>1, <2>2 DEF RankWithinVisits, Bounded, TypeOK
  <2> QED
    BY <2>3, <2>4
<1>7. CASE Remove(t)
  <2>1. CASE Named(got[t], dir[t]) # {}
    BY <1>6, <1>7, <2>1 DEF Remove
  <2>2. CASE Named(got[t], dir[t]) = {}
    BY <1>5, <1>7, <2>2 DEF Remove
  <2> QED
    BY <2>1, <2>2
<1>8. CASE Edit(t)
  BY <1>5, <1>6, <1>8 DEF Edit
<1>9. CASE List(t) \/ SaveFails(t) \/ Kill(t)
  BY <1>5, <1>9 DEF List, SaveFails, Kill
<1>10. CASE Open(t)
  <2>1. TypeOK' /\ Working'
    BY <1>0, <1>10 DEF Open, Goto, TypeOK, Working
  <2>2. RankWithinVisits'
    BY <1>0, <1>10 DEF Open, RankWithinVisits, Bounded
  <2> QED
    BY <2>1, <2>2
<1>11. CASE Write(t)
  <2>1. db' \in Seq(Line) /\ Bounded(db')
    <3>1. CASE got[t] = <<>>
      BY <1>0, <1>11, <3>1 DEF Write
    <3>2. CASE got[t] # <<>>
      <4>1. PICK rest \in Rests(db) : db' = got[t] \o rest
        BY <1>11, <3>2 DEF Write
      <4> QED
        BY <1>0, <4>1, RestsBounded DEF TypeOK
    <3> QED
      BY <3>1, <3>2
  <2>2. TypeOK' /\ Working'
    BY <1>0, <1>11, <2>1 DEF Write, End, Goto, TypeOK, Working
  <2>3. RankWithinVisits'
    BY <1>0, <1>11, <2>1 DEF Write, End, RankWithinVisits, Bounded, TypeOK
  <2> QED
    BY <2>2, <2>3
<1> QED
  BY <1>1, <1>2, <1>3, <1>4, <1>7, <1>8, <1>9, <1>10, <1>11 DEF Step

LEMMA NextInv == Inv /\ [Next]_vars => Inv'
<1> SUFFICES ASSUME Inv, [Next]_vars PROVE Inv'
  OBVIOUS
<1>1. CASE \E t \in Terminals : Step(t)
  BY <1>1, StepInv
<1>2. CASE UNCHANGED vars
  BY <1>2 DEF Inv, TypeOK, Working, RankWithinVisits, Bounded, vars
<1> QED
  BY <1>1, <1>2 DEF Next, Terminated

LEMMA AlwaysInv == Spec => []Inv
<1> QED
  BY InitInv, NextInv, PTL DEF Spec

\* Every variable of Zoxide keeps its type.
THEOREM TypeCorrect == Spec => []TypeOK
<1>1. Inv => TypeOK
  BY DEF Inv
<1> QED
  BY <1>1, AlwaysInv, PTL

\* No collision, failure or kill ranks a directory above its visits, however
\* many terminals there are.
THEOREM NoVisitInvented == Spec => []RankWithinVisits
<1>1. Inv => RankWithinVisits
  BY DEF Inv
<1> QED
  BY <1>1, AlwaysInv, PTL

(***************************************************************************)
(* Commands that do not overlap implement the map of Frecency.  What they  *)
(* have read is then what is in the database, and no directory has two     *)
(* lines.                                                                  *)
(***************************************************************************)
Distinct(s) == \A i, j \in DOMAIN s : s[i].path = s[j].path => i = j

Alone == calm => \A t, u \in Terminals : pc[t] # "idle" /\ pc[u] # "idle" => t = u

Fresh == calm =>
    /\ Distinct(db)
    /\ \A t \in Terminals :
          /\ Distinct(got[t])
          /\ pc[t] = "more" \/ pc[t] = "change" => got[t] = db
          /\ pc[t] = "write" => db = <<>>

CalmInv == Inv /\ Alone /\ Fresh

Ranks(s) == [d \in Dirs |-> RankOf(s, d)]

\* With distinct directories the rank of one is that of its line.
LEMMA RankOfLine ==
    ASSUME NEW s \in Seq(Line), Distinct(s)
    PROVE  /\ \A i \in DOMAIN s : RankOf(s, s[i].path) = s[i].rank
           /\ \A d : (\A i \in DOMAIN s : s[i].path # d) => RankOf(s, d) = 0
<1>1. ASSUME NEW i \in DOMAIN s
      PROVE  RankOf(s, s[i].path) = s[i].rank
  <2>1. i \in Named(s, s[i].path)
    BY DEF Named
  <2>2. First(s, s[i].path) \in DOMAIN s /\ s[First(s, s[i].path)].path = s[i].path
    BY <2>1, FirstIsNamed
  <2>3. First(s, s[i].path) = i
    BY <2>2 DEF Distinct
  <2> QED
    BY <2>1, <2>3 DEF RankOf
<1>2. ASSUME NEW d, \A i \in DOMAIN s : s[i].path # d
      PROVE  RankOf(s, d) = 0
  BY <1>2 DEF RankOf, Named
<1> QED
  BY <1>1, <1>2

\* An addition to distinct lines adds one visit.
LEMMA AddedRanks ==
    ASSUME NEW s \in Seq(Line), Distinct(s), NEW d \in Dirs
    PROVE  /\ Distinct(Added(s, d))
           /\ Ranks(Added(s, d)) = [Ranks(s) EXCEPT ![d] = @ + 1]
<1>0. /\ DOMAIN s = 1..Len(s) /\ Len(s) \in Nat
      /\ \A i \in DOMAIN s : s[i] \in Line
  BY ElementOfSeq
<1>1. CASE Named(s, d) = {}
  <2> DEFINE e == [path |-> d, rank |-> 1]
  <2>1. e \in Line /\ e.path = d /\ e.rank = 1
    BY DEF Line
  <2> HIDE DEF e
  <2>2. /\ Append(s, e) \in Seq(Line)
        /\ DOMAIN Append(s, e) = 1..Len(s) + 1
        /\ Append(s, e)[Len(s) + 1] = e
        /\ \A i \in 1..Len(s) : Append(s, e)[i] = s[i]
    BY <2>1, AppendProperties
  <2>3. Added(s, d) = Append(s, e)
    BY <1>1 DEF Added, e
  <2>4. \A i \in 1..Len(s) : s[i].path # d
    BY <1>0, <1>1 DEF Named
  <2>5. Distinct(Append(s, e))
    <3>1. ASSUME NEW i \in DOMAIN Append(s, e), NEW j \in DOMAIN Append(s, e),
                 Append(s, e)[i].path = Append(s, e)[j].path
          PROVE  i = j
      <4>1. (i \in 1..Len(s) \/ i = Len(s) + 1) /\ (j \in 1..Len(s) \/ j = Len(s) + 1)
        BY <1>0, <2>2
      <4> QED
        BY <1>0, <2>1, <2>2, <2>4, <3>1, <4>1 DEF Distinct
    <3> QED
      BY <3>1 DEF Distinct
  <2>6. ASSUME NEW c \in Dirs
        PROVE  RankOf(Append(s, e), c) = IF c = d THEN 1 ELSE RankOf(s, c)
    <3>1. CASE c = d
      <4>1. Len(s) + 1 \in DOMAIN Append(s, e)
        BY <1>0, <2>2
      <4> QED
        BY <2>1, <2>2, <2>5, <3>1, <4>1, RankOfLine
    <3>2. CASE c # d /\ \E i \in 1..Len(s) : s[i].path = c
      <4>1. PICK i \in 1..Len(s) : s[i].path = c
        BY <3>2
      <4>2. i \in DOMAIN Append(s, e) /\ Append(s, e)[i] = s[i]
        BY <1>0, <2>2
      <4> QED
        BY <1>0, <2>2, <2>5, <3>2, <4>1, <4>2, RankOfLine
    <3>3. CASE c # d /\ \A i \in 1..Len(s) : s[i].path # c
      <4>1. \A i \in DOMAIN Append(s, e) : Append(s, e)[i].path # c
        BY <1>0, <2>1, <2>2, <3>3
      <4>2. RankOf(s, c) = 0
        BY <1>0, <3>3, RankOfLine
      <4>3. RankOf(Append(s, e), c) = 0
        BY <2>2, <2>5, <4>1, RankOfLine
      <4> QED
        BY <3>3, <4>2, <4>3
    <3> QED
      BY <3>1, <3>2, <3>3
  <2>7. RankOf(s, d) = 0
    BY <1>1 DEF RankOf
  <2>8. ASSUME NEW c \in Dirs
        PROVE  RankOf(Added(s, d), c) = [Ranks(s) EXCEPT ![d] = @ + 1][c]
    BY <2>3, <2>6, <2>7 DEF Ranks
  <2> QED
    BY <2>3, <2>5, <2>8 DEF Ranks
<1>2. CASE Named(s, d) # {}
  <2> DEFINE f == First(s, d)
             e == [s[f] EXCEPT !.rank = @ + 1]
  <2>1. f \in DOMAIN s /\ s[f].path = d
    BY <1>2, FirstIsNamed
  <2>2. s[f] \in Line /\ f \in 1..Len(s)
    BY <1>0, <2>1
  <2> HIDE DEF f
  <2>3. e \in Line /\ e.path = d /\ e.rank = s[f].rank + 1
    BY <2>1, <2>2, RankRaised DEF Line
  <2>4. Added(s, d) = [s EXCEPT ![f] = e]
    BY <1>2 DEF Added, f
  <2> HIDE DEF e
  <2>5. /\ Added(s, d) \in Seq(Line)
        /\ DOMAIN Added(s, d) = DOMAIN s
        /\ \A i \in DOMAIN s : Added(s, d)[i] = IF i = f THEN e ELSE s[i]
    BY <2>2, <2>3, <2>4, <1>0, ExceptSeq
  <2>6. \A i \in DOMAIN s : Added(s, d)[i].path = s[i].path
    BY <2>1, <2>3, <2>5
  <2>7. Distinct(Added(s, d))
    BY <2>5, <2>6 DEF Distinct
  <2>8. ASSUME NEW c \in Dirs
        PROVE  RankOf(Added(s, d), c) = IF c = d THEN RankOf(s, d) + 1 ELSE RankOf(s, c)
    <3>1. CASE c = d
      <4>1. RankOf(s, d) = s[f].rank
        BY <2>1, RankOfLine
      <4>2. RankOf(Added(s, d), d) = e.rank
        BY <2>1, <2>3, <2>5, <2>7, RankOfLine
      <4> QED
        BY <2>3, <3>1, <4>1, <4>2
    <3>2. CASE c # d /\ \E i \in DOMAIN s : s[i].path = c
      <4>1. PICK i \in DOMAIN s : s[i].path = c
        BY <3>2
      <4>2. RankOf(s, c) = s[i].rank
        BY <4>1, RankOfLine
      <4>3. Added(s, d)[i] = s[i]
        BY <2>1, <2>5, <3>2, <4>1
      <4>4. RankOf(Added(s, d), c) = s[i].rank
        BY <2>5, <2>7, <4>1, <4>3, RankOfLine
      <4> QED
        BY <3>2, <4>2, <4>4
    <3>3. CASE c # d /\ \A i \in DOMAIN s : s[i].path # c
      <4>1. RankOf(s, c) = 0
        BY <3>3, RankOfLine
      <4>2. RankOf(Added(s, d), c) = 0
        BY <2>5, <2>6, <2>7, <3>3, RankOfLine
      <4> QED
        BY <3>3, <4>1, <4>2
    <3> QED
      BY <3>1, <3>2, <3>3
  <2> QED
    BY <2>7, <2>8 DEF Ranks
<1> QED
  BY <1>1, <1>2

\* Picked lines keep their ranks, the others have none.
LEMMA PickedRanks ==
    ASSUME NEW s \in Seq(Line), Distinct(s), NEW kept \in SUBSET DOMAIN s,
           NEW r \in Picked(s, kept)
    PROVE  /\ Distinct(r)
           /\ Ranks(r) = [d \in Dirs |-> IF \E i \in kept : s[i].path = d THEN RankOf(s, d) ELSE 0]
<1>0. DOMAIN s = 1..Len(s) /\ Len(s) \in Nat /\ IsFiniteSet(kept) /\ kept \subseteq Nat
  BY FS_Interval, FS_Subset
<1> DEFINE n == Cardinality(kept)
<1>1. PICK f \in [1..n -> kept] :
        /\ \A j, k \in DOMAIN f : j < k => f[j] < f[k]
        /\ r = [k \in DOMAIN f |-> s[f[k]]]
  BY DEF Picked
<1>2. n \in Nat /\ IsFiniteSet(1..n) /\ Cardinality(1..n) = n
  BY <1>0, FS_CardinalityType, FS_Interval
<1> HIDE DEF n
<1>3. ASSUME NEW j \in 1..n, NEW k \in 1..n, f[j] = f[k]
      PROVE  j = k
  <2>1. j \in Nat /\ k \in Nat /\ f[j] \in Nat /\ f[k] \in Nat
    BY <1>0
  <2>2. ~ (j < k) /\ ~ (k < j)
    BY <1>1, <1>3, <2>1
  <2> QED
    BY <2>1, <2>2
<1>4. \A i \in kept : \E k \in 1..n : f[k] = i
  <2>1. f \in Injection(1..n, kept)
    BY <1>3 DEF Injection, IsInjective
  <2>2. f \in Surjection(1..n, kept)
    BY <1>0, <1>2, <2>1, FS_Injection DEF n
  <2> QED
    BY <2>2 DEF Surjection
<1>5. r \in Seq(Line) /\ DOMAIN r = 1..n /\ \A k \in 1..n : f[k] \in kept /\ r[k] = s[f[k]]
  BY <1>0, <1>1, PickedLines
<1>6. Distinct(r)
  BY <1>3, <1>5 DEF Distinct
<1>7. ASSUME NEW d \in Dirs
      PROVE  RankOf(r, d) = IF \E i \in kept : s[i].path = d THEN RankOf(s, d) ELSE 0
  <2>1. CASE \E i \in kept : s[i].path = d
    <3>1. PICK i \in kept : s[i].path = d
      BY <2>1
    <3>2. PICK k \in 1..n : f[k] = i
      BY <1>4
    <3>3. RankOf(s, d) = s[i].rank
      BY <3>1, RankOfLine
    <3>4. k \in DOMAIN r /\ r[k] = s[i]
      BY <1>5, <3>2
    <3>5. RankOf(r, d) = s[i].rank
      BY <1>5, <1>6, <3>1, <3>4, RankOfLine
    <3> QED
      BY <2>1, <3>3, <3>5
  <2>2. CASE ~ \E i \in kept : s[i].path = d
    <3>1. \A k \in DOMAIN r : r[k].path # d
      BY <1>5, <2>2
    <3> QED
      BY <1>5, <1>6, <2>2, <3>1, RankOfLine
  <2> QED
    BY <2>1, <2>2
<1> QED
  BY <1>6, <1>7 DEF Ranks

\* Where a command is that has not changed yet what it read.
Heard == {"read", "more", "change"}

\* A command that runs alone: the others neither run nor change, and the map
\* is what it is about to save, or else the database.
LEMMA OneCommand ==
    ASSUME CalmInv, calm, NEW t \in Terminals, Step(t)
    PROVE  /\ calm'
           /\ \A u \in Terminals \ {t} : pc[u] = "idle" /\ pc'[u] = "idle" /\ got'[u] = got[u]
           /\ View = IF pc[t] \in {"open", "write"} THEN got[t] ELSE db
           /\ View' = IF pc'[t] \in {"open", "write"} THEN got'[t] ELSE db'
           /\ Asked = IF pc[t] \in Heard THEN [op |-> op[t], dir |-> dir[t]] ELSE None
           /\ Asked' = IF pc'[t] \in Heard THEN [op |-> op'[t], dir |-> dir'[t]] ELSE None
<1>0. TypeOK
  BY DEF CalmInv, Inv
<1>1. ASSUME NEW u \in Terminals \ {t}
      PROVE  pc[u] = "idle"
  <2>1. CASE pc[t] = "idle"
    BY <2>1 DEF Step, Issue, Read, ReadMore, Add, Remove, Edit, List, Open, Write, SaveFails, Kill
  <2>2. CASE pc[t] # "idle"
    BY <2>2 DEF CalmInv, Alone
  <2> QED
    BY <2>1, <2>2
<1>2. calm' /\ \A u \in Terminals \ {t} : pc'[u] = pc[u] /\ got'[u] = got[u]
  BY <1>0 DEF TypeOK, Step, Issue, Read, ReadMore, Add, Remove, Edit, List, Open, Write,
       SaveFails, Kill, Goto, End
<1>3. (CHOOSE u \in {t} : TRUE) = t
  OBVIOUS
<1>4. Saving = IF pc[t] \in {"open", "write"} THEN {t} ELSE {}
  BY <1>1 DEF Saving
<1>5. Saving' = IF pc'[t] \in {"open", "write"} THEN {t} ELSE {}
  BY <1>1, <1>2 DEF Saving
<1>6. View = IF pc[t] \in {"open", "write"} THEN got[t] ELSE db
  BY <1>3, <1>4 DEF View
<1>7. View' = IF pc'[t] \in {"open", "write"} THEN got'[t] ELSE db'
  BY <1>3, <1>5 DEF View
<1>8. Looking = IF pc[t] \in Heard THEN {t} ELSE {}
  BY <1>1 DEF Looking, Heard
<1>9. Looking' = IF pc'[t] \in Heard THEN {t} ELSE {}
  BY <1>1, <1>2 DEF Looking, Heard
<1>10. Asked = IF pc[t] \in Heard THEN [op |-> op[t], dir |-> dir[t]] ELSE None
  BY <1>3, <1>8 DEF Asked
<1>11. Asked' = IF pc'[t] \in Heard THEN [op |-> op'[t], dir |-> dir'[t]] ELSE None
  BY <1>3, <1>9 DEF Asked
<1> QED
  BY <1>1, <1>2, <1>6, <1>7, <1>10, <1>11

\* When it is asked for, by what, and when no longer.
LEMMA AskedOnce ==
    ASSUME CalmInv, calm, NEW t \in Terminals, Step(t)
    PROVE  /\ pc[t] = "idle" => pc'[t] = "read" /\ op'[t] \in Ops /\ dir'[t] \in Dirs
           /\ pc[t] \in {"read", "more"} =>
                 pc'[t] \in {"more", "change"} /\ op'[t] = op[t] /\ dir'[t] = dir[t]
           /\ pc[t] = "change" => pc'[t] \notin Heard /\ op[t] \in {"add", "remove", "edit", "list"}
           /\ pc[t] \in {"open", "write"} => pc'[t] \notin Heard
  BY DEF CalmInv, Inv, TypeOK, Heard, Step, Issue, Read, ReadMore, Add, Remove, Edit, List, Open,
         Write, SaveFails, Kill, Goto, End

\* What a command does to the map.
Effect(t, old, new) ==
    /\ op[t] = "add" => new = [old EXCEPT ![dir[t]] = @ + 1]
    /\ op[t] = "remove" => new = [old EXCEPT ![dir[t]] = 0]
    /\ op[t] = "edit" =>
          \E gone \in SUBSET Dirs : new = [d \in Dirs |-> IF d \in gone THEN 0 ELSE old[d]]
    /\ op[t] = "list" => new = old

\* What it does to the map, and what it leaves for the next one.
LEMMA CalmStep ==
    ASSUME CalmInv, calm, NEW t \in Terminals, Step(t)
    PROVE  /\ Alone' /\ Fresh'
           /\ IF pc[t] = "change" THEN Effect(t, Ranks(View), Ranks(View'))
              ELSE Ranks(View') = Ranks(View)
<1>0. TypeOK /\ Fresh /\ Working
  BY DEF CalmInv, Inv
<1>1. db \in Seq(Line) /\ got[t] \in Seq(Line) /\ Distinct(db) /\ Distinct(got[t])
  BY <1>0 DEF TypeOK, Fresh
<1>2. /\ calm'
      /\ \A u \in Terminals \ {t} : pc[u] = "idle" /\ pc'[u] = "idle" /\ got'[u] = got[u]
      /\ View = IF pc[t] \in {"open", "write"} THEN got[t] ELSE db
      /\ View' = IF pc'[t] \in {"open", "write"} THEN got'[t] ELSE db'
  BY OneCommand
<1>3. Alone'
  BY <1>2 DEF Alone
<1>4. ASSUME Distinct(db'), Distinct(got'[t]),
             pc'[t] = "more" \/ pc'[t] = "change" => got'[t] = db',
             pc'[t] = "write" => db' = <<>>
      PROVE  Fresh'
  BY <1>0, <1>2, <1>4 DEF Fresh
<1>5. Distinct(<<>>)
  BY DEF Distinct
\* A change that picks lines leaves out the directories of the others.
<1>6. ASSUME NEW kept \in SUBSET DOMAIN got[t], NEW s \in Picked(got[t], kept),
             pc[t] = "change", pc'[t] = "open", got'[t] = s
      PROVE  /\ Distinct(got'[t])
             /\ Ranks(View') = [d \in Dirs |->
                   IF \E i \in kept : got[t][i].path = d THEN Ranks(View)[d] ELSE 0]
  <2>1. View = got[t] /\ View' = s
    BY <1>0, <1>2, <1>6 DEF Fresh
  <2>2. /\ Distinct(s)
        /\ Ranks(s) = [d \in Dirs |->
                          IF \E i \in kept : got[t][i].path = d THEN RankOf(got[t], d) ELSE 0]
    BY <1>1, PickedRanks
  <2> QED
    BY <1>6, <2>1, <2>2 DEF Ranks
\* An end that saves nothing.
<1>7. ASSUME pc[t] \notin {"open", "write"}, db' = db, End(t)
      PROVE  Fresh' /\ Ranks(View') = Ranks(View)
  <2>1. pc'[t] = "idle" /\ got'[t] = <<>>
    BY <1>0, <1>7 DEF End, Goto, TypeOK
  <2> QED
    BY <1>1, <1>2, <1>4, <1>5, <1>7, <2>1
<1>8. CASE Issue(t)
  <2>1. /\ db' = db /\ got' = got /\ pc[t] = "idle" /\ pc'[t] = "read"
    BY <1>0, <1>8 DEF Issue, Goto, TypeOK
  <2> QED
    BY <1>1, <1>2, <1>3, <1>4, <2>1
<1>9. CASE Read(t)
  <2>1. /\ db' = db /\ got'[t] = db /\ pc[t] = "read" /\ pc'[t] \in {"more", "change"}
    BY <1>0, <1>9 DEF Read, Goto, TypeOK
  <2> QED
    BY <1>1, <1>2, <1>3, <1>4, <2>1
<1>10. CASE ReadMore(t)
  <2>1. /\ db' = db /\ pc[t] = "more" /\ pc'[t] = "change"
    BY <1>0, <1>10 DEF ReadMore, Goto, TypeOK
  <2>2. got[t] = db
    BY <1>0, <2>1 DEF Fresh
  <2>3. got'[t] = got[t] \o <<>>
    BY <1>0, <1>10, <2>2 DEF ReadMore, TypeOK
  <2>4. got'[t] = db
    BY <1>1, <2>2, <2>3
  <2> QED
    BY <1>1, <1>2, <1>3, <1>4, <2>1, <2>4
<1>11. CASE Add(t)
  <2>1. /\ db' = db /\ pc[t] = "change" /\ pc'[t] = "open"
        /\ got'[t] = Added(got[t], dir[t])
    BY <1>0, <1>11 DEF Add, Goto, TypeOK
  <2>2. dir[t] \in Dirs
    BY <1>0, <2>1 DEF Working
  <2>3. View = got[t] /\ View' = Added(got[t], dir[t])
    BY <1>0, <1>2, <2>1 DEF Fresh
  <2>4. /\ Distinct(got'[t])
        /\ Ranks(View') = [Ranks(View) EXCEPT ![dir[t]] = @ + 1]
    BY <1>1, <2>1, <2>2, <2>3, AddedRanks
  <2>5. Fresh'
    BY <1>1, <1>4, <2>1, <2>4
  <2>6. op[t] = "add" /\ pc[t] = "change"
    BY <1>11 DEF Add
  <2> QED
    BY <1>3, <2>4, <2>5, <2>6 DEF Effect
<1>12. CASE Remove(t)
  <2>1. db' = db /\ pc[t] = "change" /\ op[t] = "remove" /\ View = got[t]
    BY <1>0, <1>2, <1>12 DEF Remove, Fresh
  <2>2. CASE End(t)
    <3>1. Named(got[t], dir[t]) = {}
      BY <1>0, <1>12, <2>1, <2>2 DEF Remove, End, Goto, TypeOK
    <3>2. Fresh' /\ Ranks(View') = Ranks(View)
      BY <1>7, <2>1, <2>2
    <3>3. dir[t] \in Dirs => Ranks(View)[dir[t]] = 0
      BY <2>1, <3>1 DEF Ranks, RankOf
    <3>4. Ranks(View) = [Ranks(View) EXCEPT ![dir[t]] = 0]
      BY <3>3 DEF Ranks
    <3> QED
      BY <1>3, <2>1, <3>2, <3>4 DEF Effect
  <2>3. CASE ~ End(t)
    <3> DEFINE kept == DOMAIN got[t] \ Named(got[t], dir[t])
    <3>1. PICK s \in Picked(got[t], kept) : got'[t] = s
      BY <1>0, <1>12, <2>3 DEF Remove, TypeOK
    <3>2. pc'[t] = "open" /\ kept \in SUBSET DOMAIN got[t]
      BY <1>0, <1>12, <2>3 DEF Remove, Goto, TypeOK
    <3>3. \A d \in Dirs : ~ (\E i \in kept : got[t][i].path = d) =>
                 d = dir[t] \/ Ranks(View)[d] = 0
      <4>1. ASSUME NEW d \in Dirs, d # dir[t], ~ \E i \in kept : got[t][i].path = d
            PROVE  Ranks(View)[d] = 0
        <5>1. \A i \in DOMAIN got[t] : got[t][i].path # d
          BY <4>1 DEF Named
        <5>2. RankOf(got[t], d) = 0
          BY <1>1, <5>1, RankOfLine
        <5> QED
          BY <2>1, <5>2 DEF Ranks
      <4> QED
        BY <4>1
    <3>4. ~ \E i \in kept : got[t][i].path = dir[t]
      BY DEF Named
    <3> HIDE DEF kept
    <3>5. /\ Distinct(got'[t])
          /\ Ranks(View') = [d \in Dirs |->
                IF \E i \in kept : got[t][i].path = d THEN Ranks(View)[d] ELSE 0]
      BY <1>6, <2>1, <3>1, <3>2
    <3>6. Ranks(View') = [Ranks(View) EXCEPT ![dir[t]] = 0]
      <4> DEFINE old == Ranks(View)
                 stays(d) == \E i \in kept : got[t][i].path = d
      <4>1. DOMAIN old = Dirs /\ old = [d \in Dirs |-> old[d]]
        BY DEF Ranks
      <4>2. \A d \in Dirs : (IF stays(d) THEN old[d] ELSE 0) = IF d = dir[t] THEN 0 ELSE old[d]
        BY <3>3, <3>4
      <4>3. Ranks(View') = [d \in Dirs |-> IF stays(d) THEN old[d] ELSE 0]
        BY <3>5
      <4> HIDE DEF old, stays
      <4>4. [old EXCEPT ![dir[t]] = 0] = [d \in Dirs |-> IF d = dir[t] THEN 0 ELSE old[d]]
        BY <4>1
      <4>5. Ranks(View') = [d \in Dirs |-> IF d = dir[t] THEN 0 ELSE old[d]]
        BY <4>2, <4>3
      <4> QED
        BY <4>4, <4>5 DEF old
    <3>7. Fresh'
      BY <1>1, <1>4, <2>1, <3>2, <3>5
    <3> QED
      BY <1>3, <2>1, <3>6, <3>7 DEF Effect
  <2> QED
    BY <2>2, <2>3
<1>13. CASE Edit(t)
  <2>1. db' = db /\ pc[t] = "change" /\ op[t] = "edit"
    BY <1>13 DEF Edit
  <2>2. CASE End(t)
    <3>1. Fresh' /\ Ranks(View') = Ranks(View)
      BY <1>7, <2>1, <2>2
    <3>2. Ranks(View) = [d \in Dirs |-> IF d \in {} THEN 0 ELSE Ranks(View)[d]]
      BY DEF Ranks
    <3>3. \E gone \in SUBSET Dirs :
             Ranks(View') = [d \in Dirs |-> IF d \in gone THEN 0 ELSE Ranks(View)[d]]
      <4>1. {} \in SUBSET Dirs
        OBVIOUS
      <4> QED
        BY <3>1, <3>2, <4>1, Zenon
    <3> QED
      BY <1>3, <2>1, <3>1, <3>3 DEF Effect
  <2>3. CASE ~ End(t)
    <3>1. PICK kept \in SUBSET DOMAIN got[t] : \E s \in Picked(got[t], kept) :
             got' = [got EXCEPT ![t] = s] /\ Goto(t, "open")
      BY <1>13, <2>3 DEF Edit
    <3>2. PICK s \in Picked(got[t], kept) : got' = [got EXCEPT ![t] = s] /\ Goto(t, "open")
      BY <3>1
    <3>3. pc'[t] = "open" /\ got'[t] = s
      BY <1>0, <3>2 DEF Goto, TypeOK
    <3> DEFINE gone == {d \in Dirs : ~ \E i \in kept : got[t][i].path = d}
    <3>4. /\ Distinct(got'[t])
          /\ Ranks(View') = [d \in Dirs |->
                IF \E i \in kept : got[t][i].path = d THEN Ranks(View)[d] ELSE 0]
      BY <1>6, <2>1, <3>3
    <3>5. Ranks(View') = [d \in Dirs |-> IF d \in gone THEN 0 ELSE Ranks(View)[d]]
      BY <3>4
    <3>6. gone \in SUBSET Dirs
      OBVIOUS
    <3> HIDE DEF gone
    <3>7. Fresh'
      BY <1>1, <1>4, <2>1, <3>3, <3>4
    <3> QED
      BY <1>3, <2>1, <3>5, <3>6, <3>7 DEF Effect
  <2> QED
    BY <2>2, <2>3
<1>14. CASE List(t)
  <2>1. db' = db /\ pc[t] = "change" /\ op[t] = "list" /\ End(t)
    BY <1>14 DEF List
  <2>2. Fresh' /\ Ranks(View') = Ranks(View)
    BY <1>7, <2>1
  <2> QED
    BY <1>3, <2>1, <2>2 DEF Effect
<1>15. CASE Open(t)
  <2>1. /\ db' = <<>> /\ got' = got /\ pc[t] = "open" /\ pc'[t] = "write"
    BY <1>0, <1>15 DEF Open, Goto, TypeOK
  <2> QED
    BY <1>1, <1>2, <1>3, <1>4, <1>5, <2>1
<1>16. CASE Write(t)
  <2>1. pc[t] = "write" /\ pc'[t] = "idle" /\ got'[t] = <<>> /\ db = <<>>
    BY <1>0, <1>16 DEF Write, End, Goto, TypeOK, Fresh
  <2>2. db' = got[t]
    <3>1. CASE got[t] = <<>>
      BY <1>16, <2>1, <3>1 DEF Write
    <3>2. CASE got[t] # <<>>
      <4>1. PICK rest \in Rests(<<>>) : db' = got[t] \o rest
        BY <1>16, <2>1, <3>2 DEF Write
      <4>2. rest = <<>>
        BY DEF Rests
      <4> QED
        BY <1>1, <4>1, <4>2
    <3> QED
      BY <3>1, <3>2
  <2> QED
    BY <1>1, <1>2, <1>3, <1>4, <1>5, <2>1, <2>2
<1> QED
  BY <1>8, <1>9, <1>10, <1>11, <1>12, <1>13, <1>14, <1>15, <1>16 DEF Step, SaveFails, Kill

LEMMA CalmInit == Init => CalmInv /\ F!Init
<1> SUFFICES ASSUME Init PROVE CalmInv /\ F!Init
  OBVIOUS
<1>1. Inv
  BY InitInv
<1>2. Alone
  BY DEF Init, Alone
<1>3. Fresh
  BY DEF Init, Fresh, Distinct
<1>4. Saving = {} /\ db = <<>>
  BY DEF Init, Saving
<1>5. View = <<>>
  BY <1>4 DEF View
<1>6. \A d \in Dirs : RankOf(View, d) = 0
  BY <1>5 DEF RankOf, Named
<1>7. Asked = None
  BY DEF Init, Asked, Looking
<1> QED
  BY <1>1, <1>2, <1>3, <1>6, <1>7 DEF CalmInv, F!Init

\* The map and what is asked of it, as Frecency sees them.
Map == [d \in Dirs |-> IF calm THEN RankOf(View, d) ELSE 0]
Request == IF calm THEN Asked ELSE None

\* A step of the commands is a step of the map, or none.
LEMMA CalmNext ==
    ASSUME CalmInv, [Next]_vars
    PROVE  CalmInv' /\ (F!Next \/ UNCHANGED <<Map, Request>>)
<1>0. Inv'
  BY NextInv DEF CalmInv
<1>1. CASE UNCHANGED vars
  <2>1. Alone' /\ Fresh'
    BY <1>1 DEF vars, CalmInv, Alone, Fresh
  <2>2. View' = View /\ calm' = calm /\ Asked' = Asked
    BY <1>1 DEF vars, View, Saving, Asked, Looking
  <2> QED
    BY <1>0, <2>1, <2>2 DEF CalmInv, Map, Request
<1>2. ASSUME NEW t \in Terminals, Step(t), ~ calm
      PROVE  Alone' /\ Fresh' /\ UNCHANGED <<Map, Request>>
  <2>1. ~ calm'
    BY <1>2 DEF Step, Issue, Read, ReadMore, Add, Remove, Edit, List, Open, Write,
       SaveFails, Kill
  <2> QED
    BY <1>2, <2>1 DEF Alone, Fresh, Map, Request
<1>3. ASSUME NEW t \in Terminals, Step(t), calm
      PROVE  Alone' /\ Fresh' /\ (F!Next \/ UNCHANGED <<Map, Request>>)
  <2>1. /\ calm'
        /\ Asked = IF pc[t] \in Heard THEN [op |-> op[t], dir |-> dir[t]] ELSE None
        /\ Asked' = IF pc'[t] \in Heard THEN [op |-> op'[t], dir |-> dir'[t]] ELSE None
    BY <1>3, OneCommand
  <2>2. Map = Ranks(View) /\ Map' = Ranks(View') /\ Request = Asked /\ Request' = Asked'
    BY <1>3, <2>1 DEF Ranks, Map, Request
  <2>3. /\ Alone' /\ Fresh'
        /\ IF pc[t] = "change" THEN Effect(t, Map, Map') ELSE Map' = Map
    BY <1>3, <2>2, CalmStep
  <2>4. pc[t] \in {"idle", "read", "more", "change", "open", "write"}
        /\ (pc[t] # "idle" => op[t] \in Ops /\ dir[t] \in Dirs)
    BY DEF CalmInv, Inv, TypeOK, Working
  <2>5. CASE pc[t] = "idle"
    <3>1. Request = None /\ Map' = Map
      BY <2>1, <2>2, <2>3, <2>5 DEF Heard
    <3>2. pc'[t] = "read" /\ op'[t] \in Ops /\ dir'[t] \in Dirs
      BY <1>3, <2>5, AskedOnce
    <3>3. Request' = [op |-> op'[t], dir |-> dir'[t]]
      BY <2>1, <2>2, <3>2 DEF Heard
    <3>4. Request' \in [op : Ops, dir : Dirs]
      BY <3>2, <3>3
    <3>5. F!Ask
      BY <3>1, <3>4 DEF F!Ask, F!Requests, Map, Request
    <3> QED
      BY <2>3, <3>5 DEF F!Next
  <2>6. CASE pc[t] \in {"read", "more"}
    <3>1. pc'[t] \in {"more", "change"} /\ op'[t] = op[t] /\ dir'[t] = dir[t]
      BY <1>3, <2>6, AskedOnce
    <3> QED
      BY <2>1, <2>2, <2>3, <2>6, <3>1 DEF Heard
  <2>7. CASE pc[t] \in {"open", "write"}
    <3>1. pc'[t] \notin Heard
      BY <1>3, <2>7, AskedOnce
    <3> QED
      BY <2>1, <2>2, <2>3, <2>7, <3>1 DEF Heard
  <2>8. CASE pc[t] = "change"
    <3>1. pc'[t] \notin Heard /\ op[t] \in {"add", "remove", "edit", "list"}
      BY <1>3, <2>8, AskedOnce
    <3>2. Request = [op |-> op[t], dir |-> dir[t]] /\ Request' = None
      BY <2>1, <2>2, <2>8, <3>1 DEF Heard
    <3>3. Request \in [op : Ops, dir : Dirs] /\ Request.op = op[t] /\ Request.dir = dir[t]
      BY <2>4, <2>8, <3>2
    <3>4. Effect(t, Map, Map')
      BY <2>3, <2>8
    <3>5. CASE op[t] = "add"
      <4>1. F!Add
        BY <3>2, <3>3, <3>4, <3>5 DEF Effect, F!Add, F!Answer, F!Requests, Map, Request
      <4> QED
        BY <2>3, <4>1 DEF F!Next
    <3>6. CASE op[t] = "remove"
      <4>1. F!Remove
        BY <3>2, <3>3, <3>4, <3>6 DEF Effect, F!Remove, F!Answer, F!Requests, Map, Request
      <4> QED
        BY <2>3, <4>1 DEF F!Next
    <3>7. CASE op[t] = "edit"
      <4>1. F!Edit
        BY <3>2, <3>3, <3>4, <3>7 DEF Effect, F!Edit, F!Answer, F!Requests, Map, Request
      <4> QED
        BY <2>3, <4>1 DEF F!Next
    <3>8. CASE op[t] = "list"
      <4>1. F!List
        BY <3>2, <3>3, <3>4, <3>8 DEF Effect, F!List, F!Answer, F!Requests, Map, Request
      <4> QED
        BY <2>3, <4>1 DEF F!Next
    <3> QED
      BY <3>1, <3>5, <3>6, <3>7, <3>8
  <2> QED
    BY <2>4, <2>5, <2>6, <2>7, <2>8
<1> QED
  BY <1>0, <1>1, <1>2, <1>3 DEF Next, Terminated, CalmInv

\* Commands that do not overlap and do not fail implement the map, for any
\* number of terminals: an add counts one visit of its directory, a remove
\* forgets its own and an edit what the user takes out, each once, and no
\* other step of theirs changes a rank.
THEOREM ImplementsFrecency == Spec => KeepsVisits
<1>1. Spec => []CalmInv
  <2>1. Init => CalmInv
    BY CalmInit
  <2>2. CalmInv /\ [Next]_vars => CalmInv'
    BY CalmNext
  <2> QED
    BY <2>1, <2>2, PTL DEF Spec
<1>2. Init => F!Init
  BY CalmInit
<1>3. CalmInv /\ [Next]_vars
         => [F!Next]_<<[d \in Dirs |-> IF calm THEN RankOf(View, d) ELSE 0],
                       IF calm THEN Asked ELSE None>>
  BY CalmNext DEF Map, Request
<1> QED
  BY <1>1, <1>2, <1>3, PTL DEF Spec, KeepsVisits, F!Spec
=============================================================================
