----------------------------- MODULE LibraryProofs -----------------------------
(***************************************************************************)
(* Proofs about the objects of Objects, one by one and composed: what was  *)
(* not staged survives the calls of git and its answers are true, a        *)
(* ChainDict implements the abstract Mapping, a bundle is what its sources *)
(* are, an OrderedSet and its index agree, a scanner knows its line and    *)
(* column, and a tokenizer moves on and keeps its checkpoints.  The        *)
(* parameters are arbitrary; what the proofs need of them is the           *)
(* assumption of Objects.                                                  *)
(***************************************************************************)
EXTENDS Objects, FiniteSets, FiniteSetTheorems, WellFoundedInduction, TLAPS

-------------------------------------------------------------------------------
(* 0. Numbers and loops *)

\* Numbers have a least one among them, and if they are bounded a greatest.
LEMMA Least ==
  ASSUME NEW S \in SUBSET Nat, S # {}
  PROVE  \E x \in S : \A y \in S : x <= y
<1>1. PICK x \in S : \A y \in S : ~ (<<y, x>> \in OpToRel(<, Nat))
  <2> HIDE DEF OpToRel
  <2> QED
    BY NatLessThanWellFounded, WFMin
<1>2. ASSUME NEW y \in S  PROVE  <<y, x>> \in OpToRel(<, Nat) <=> y < x
  <2>1. <<y, x>> \in Nat \X Nat /\ <<y, x>>[1] = y /\ <<y, x>>[2] = x
    OBVIOUS
  <2> QED
    BY <2>1, Zenon DEF OpToRel
<1>3. \A y \in S : ~ (y < x)
  BY <1>1, <1>2, Zenon
<1> QED
  BY <1>3

LEMMA Greatest ==
  ASSUME NEW n \in Nat, NEW S \in SUBSET (0 .. n), S # {}
  PROVE  \E x \in S : \A y \in S : y <= x
<1> DEFINE Below == {n - x : x \in S}
<1>1. Below \in SUBSET Nat /\ Below # {}
  <2>1. \A x \in S : n - x \in Nat
    OBVIOUS
  <2>2. PICK x : x \in S
    OBVIOUS
  <2>3. n - x \in Below
    BY <2>2
  <2> QED
    BY <2>1, <2>3
<1>2. PICK b \in Below : \A c \in Below : b <= c
  <2> HIDE DEF Below
  <2> QED
    BY <1>1, Least
<1>3. PICK x \in S : b = n - x
  OBVIOUS
<1>4. \A y \in S : n - x <= n - y
  BY <1>2, <1>3
<1> QED
  BY <1>3, <1>4

\* Step by step.
LEMMA UpTo ==
  ASSUME NEW n \in Nat, NEW Q, 0 \in Q, \A i \in 1 .. n : i - 1 \in Q => i \in Q
  PROVE  \A i \in 0 .. n : i \in Q
<1> DEFINE Bad == {i \in 0 .. n : i \notin Q}
<1> SUFFICES ASSUME Bad # {}  PROVE  FALSE
  OBVIOUS
<1>1. PICK k \in Bad : \A j \in Bad : k <= j
  <2>1. Bad \in SUBSET Nat
    OBVIOUS
  <2> HIDE DEF Bad
  <2> QED
    BY <2>1, Least
<1>2. k \in 1 .. n /\ k - 1 \in 0 .. n
  OBVIOUS
<1>3. k - 1 \in Q
  BY <1>1, <1>2
<1> QED
  BY <1>2, <1>3

\* A loop has its values.
IsLoop(f, n, base, step) == f[0] = base /\ \A i \in 1 .. n : f[i] = step[i][f[i - 1]]
LEMMA Loops ==
  ASSUME NEW n \in Nat, NEW T, NEW base \in T, NEW step \in [1 .. n -> [T -> T]]
  PROVE  \E f \in [0 .. n -> T] : IsLoop(f, n, base, step)
<1> DEFINE Goes(f, k) == f[0] = base /\ \A i \in 1 .. k : f[i] = step[i][f[i - 1]]
           Q == {k \in 0 .. n : \E f \in [0 .. n -> T] : Goes(f, k)}
<1>1. 0 \in Q
  <2>1. [i \in 0 .. n |-> base] \in [0 .. n -> T] /\ Goes([i \in 0 .. n |-> base], 0)
    OBVIOUS
  <2> HIDE DEF Goes
  <2> QED
    BY <2>1
<1>2. ASSUME NEW k \in 1 .. n, k - 1 \in Q  PROVE  k \in Q
  <2>1. PICK f \in [0 .. n -> T] : Goes(f, k - 1)
    BY <1>2
  <2> DEFINE g == [i \in 0 .. n |-> IF i = k THEN step[k][f[k - 1]] ELSE f[i]]
  <2>2. \A i \in 1 .. k : i - 1 \in 0 .. n /\ i - 1 # k /\ i \in 0 .. n /\ (i # k => i \in 1 .. k - 1)
    OBVIOUS
  <2>3. k \in 1 .. k /\ f[k - 1] \in T
    BY <2>2
  <2>4. g \in [0 .. n -> T] /\ g[0] = base
    BY <2>1, <2>3
  <2>5. \A i \in 1 .. k : g[i] = step[i][g[i - 1]]
    BY <2>1, <2>2
  <2> HIDE DEF g
  <2>6. Goes(g, k)
    BY <2>4, <2>5
  <2> HIDE DEF Goes
  <2> QED
    BY <2>4, <2>6
<1>3. n \in Q
  <2>1. n \in 0 .. n
    OBVIOUS
  <2> HIDE DEF Q
  <2>2. \A k \in 1 .. n : k - 1 \in Q => k \in Q
    BY <1>2
  <2> QED
    BY <1>1, <2>1, <2>2, UpTo
<1> QED
  BY <1>3 DEF IsLoop

-------------------------------------------------------------------------------
(* 1. nr.utils.git, by the names of its variables *)

commits == x1
branches == x2
head == x3
index == x4
work == x5
tag == x6
remotes == x7
remoteRefs == x8
said == x9
USE DEF commits, branches, head, index, work, tag, remotes, remoteRefs, said

\* One call leaves what was not staged alone, unless it is an edit or a checkout of the file.
LEMMA SwitchKeepsWork ==
  ASSUME NEW c, NEW to, Repo!Switches(c, to), work # index
  PROVE  work' = work
BY DEF Repo!Switches

LEMMA CallKeepsWork ==
  ASSUME Repo!Call, work # index, work' # work
  PROVE  (\E v \in FileTexts : Repo!Edit(v)) \/ \E from \in Repo!Commits \cup {Absent} : Repo!CheckoutFile(from)
<1>1. CASE Repo!CurrentBranchName \/ Repo!Porcelain \/ Repo!HasDiff \/ Repo!Describe
  BY <1>1 DEF Repo!CurrentBranchName, Repo!Porcelain, Repo!HasDiff, Repo!Describe, Repo!Answers, Repo!Fails, Repo!repo
<1>2. CASE Repo!Add
  BY <1>2 DEF Repo!Add
<1>3. ASSUME NEW flag \in BOOLEAN, Repo!Commit(flag) \/ Repo!Tag(flag)  PROVE  work' = work
  BY <1>3 DEF Repo!Commit, Repo!Tag, Repo!Fails, Repo!repo
<1>4. ASSUME NEW b, NEW from, NEW orphan, NEW reset, Repo!CreateBranch(b, orphan, reset, from)
      PROVE  work' = work
  BY <1>4, SwitchKeepsWork DEF Repo!CreateBranch, Repo!Fails, Repo!repo
<1>5. ASSUME NEW b, NEW new, Repo!RenameBranch(b, new)  PROVE  work' = work
  BY <1>5 DEF Repo!RenameBranch
<1>6. ASSUME NEW b, Repo!CheckoutBranch(b) \/ Repo!RevParse(b) \/ Repo!RevList(b)  PROVE  work' = work
  BY <1>6, SwitchKeepsWork DEF Repo!CheckoutBranch, Repo!RevParse, Repo!RevList, Repo!Answers, Repo!repo
<1>7. ASSUME NEW c, Repo!CheckoutCommit(c)  PROVE  work' = work
  BY <1>7, SwitchKeepsWork DEF Repo!CheckoutCommit
<1>8. ASSUME NEW from, NEW files, NEW hard, Repo!Reset(from, files, hard)  PROVE  work' = work
  BY <1>8 DEF Repo!Reset
<1>9. ASSUME NEW r, NEW u, Repo!AddRemote(r, u)  PROVE  work' = work
  BY <1>9 DEF Repo!AddRemote, Repo!Fails, Repo!repo
<1>10. ASSUME NEW r, NEW b, NEW force, Repo!Push(r, b, force)  PROVE  work' = work
  BY <1>10 DEF Repo!Push, Repo!Fails, Repo!repo
<1>11. ASSUME NEW r, NEW b, Repo!Pull(r, b)  PROVE  work' = work
  BY <1>11, SwitchKeepsWork DEF Repo!Pull, Repo!Fails, Repo!repo
<1>12. ASSUME NEW r, Repo!RemoteBranchNames(r)  PROVE  work' = work
  BY <1>12 DEF Repo!RemoteBranchNames, Repo!Answers, Repo!repo
<1> QED
  BY <1>1, <1>2, <1>3, <1>4, <1>5, <1>6, <1>7, <1>8, <1>9, <1>10, <1>11, <1>12 DEF Repo!Call

\* A call that only asks changes nothing, so what git is asked about is there to compare with.
LEMMA CallAnswersTruly ==
  ASSUME Repo!Call
  PROVE  Repo!AnswersAreTrue'
<1> DEFINE Silent == said' = Repo!NoAnswer \/ \E e : said' = [call |-> "raised", value |-> e]
<1> DEFINE Other == \E call \in {"remote", "rev_parse", "rev_list", "describe"} :
                      \E v : said' = [call |-> call, value |-> v]
<1>1. ASSUME Silent \/ Other  PROVE  Repo!AnswersAreTrue'
  BY <1>1 DEF Repo!AnswersAreTrue, Repo!NoAnswer
<1> HIDE DEF Silent, Other
<1>2. ASSUME UNCHANGED Repo!repo
      PROVE  head' = head /\ index' = index /\ work' = work /\ Repo!Tree(Repo!Tip)' = Repo!Tree(Repo!Tip)
  BY <1>2 DEF Repo!repo, Repo!Tree, Repo!Tip
<1>3. CASE Repo!CurrentBranchName
  <2> DEFINE current == {b \in Repo!GetBranches : b.current}
  <2>1. CASE current = {}
    BY <1>3, <2>1, <1>1 DEF Repo!CurrentBranchName, Repo!Fails, Silent
  <2>2. CASE current # {}
    <3>1. PICK b \in Repo!GetBranches :
            /\ b.current
            /\ said' = [call |-> "branch", value |-> b.name]
            /\ UNCHANGED Repo!repo
      BY <1>3, <2>2 DEF Repo!CurrentBranchName, Repo!Answers
    <3>2. head = [branch |-> b.name] \/ "commit" \in DOMAIN head
      <4>1. CASE "commit" \notin DOMAIN head
        <5>1. PICK c \in DOMAIN branches : b = [name |-> c, current |-> head = [branch |-> c]]
          BY <4>1, Zenon DEF Repo!GetBranches
        <5> QED
          BY <3>1, <5>1
      <4> QED
        BY <4>1
    <3> QED
      BY <3>1, <3>2, <1>2 DEF Repo!AnswersAreTrue
  <2> QED
    BY <2>1, <2>2
<1>4. CASE Repo!Porcelain
  <2>1. PICK lines : /\ said' = [call |-> "porcelain", value |-> lines]
                     /\ lines = {} <=> index = Repo!Tree(Repo!Tip) /\ work = index
                     /\ UNCHANGED Repo!repo
    BY <1>4 DEF Repo!Porcelain, Repo!Answers
  <2> QED
    BY <2>1, <1>2 DEF Repo!AnswersAreTrue
<1>5. CASE Repo!HasDiff
  BY <1>5, <1>2 DEF Repo!HasDiff, Repo!Answers, Repo!AnswersAreTrue
<1>6. CASE Repo!Describe
  BY <1>6, <1>1 DEF Repo!Describe, Repo!Answers, Other
<1>7. CASE Repo!Add
  BY <1>7, <1>1 DEF Repo!Add, Silent
<1>8. ASSUME NEW v, Repo!Edit(v)  PROVE  Silent
  BY <1>8 DEF Repo!Edit, Silent
<1>9. ASSUME NEW flag \in BOOLEAN, Repo!Commit(flag) \/ Repo!Tag(flag)  PROVE  Silent
  BY <1>9 DEF Repo!Commit, Repo!Tag, Repo!Fails, Silent
<1>10. ASSUME NEW b, NEW from, NEW orphan, NEW reset, Repo!CreateBranch(b, orphan, reset, from)
       PROVE  Silent
  BY <1>10 DEF Repo!CreateBranch, Repo!Fails, Silent
<1>11. ASSUME NEW b, NEW new, Repo!RenameBranch(b, new)  PROVE  Silent
  BY <1>11 DEF Repo!RenameBranch, Silent
<1>12. ASSUME NEW b, Repo!CheckoutBranch(b)  PROVE  Silent
  BY <1>12 DEF Repo!CheckoutBranch, Silent
<1>13. ASSUME NEW b, Repo!RevParse(b) \/ Repo!RevList(b)  PROVE  Other
  BY <1>13 DEF Repo!RevParse, Repo!RevList, Repo!Answers, Other
<1>14. ASSUME NEW c, Repo!CheckoutCommit(c) \/ Repo!CheckoutFile(c)  PROVE  Silent
  BY <1>14 DEF Repo!CheckoutCommit, Repo!CheckoutFile, Silent
<1>15. ASSUME NEW from, NEW files, NEW hard, Repo!Reset(from, files, hard)  PROVE  Silent
  BY <1>15 DEF Repo!Reset, Silent
<1>16. ASSUME NEW r, NEW u, Repo!AddRemote(r, u)  PROVE  Silent
  BY <1>16 DEF Repo!AddRemote, Repo!Fails, Silent
<1>17. ASSUME NEW r, NEW b, NEW force, Repo!Push(r, b, force)  PROVE  Silent
  BY <1>17 DEF Repo!Push, Repo!Fails, Silent
<1>18. ASSUME NEW r, NEW b, Repo!Pull(r, b)  PROVE  Silent
  BY <1>18 DEF Repo!Pull, Repo!Fails, Silent
<1>19. ASSUME NEW r, Repo!RemoteBranchNames(r)  PROVE  Other
  BY <1>19 DEF Repo!RemoteBranchNames, Repo!Answers, Other
<1> QED
  BY <1>1, <1>3, <1>4, <1>5, <1>6, <1>7, <1>8, <1>9, <1>10, <1>11, <1>12, <1>13, <1>14, <1>15,
     <1>16, <1>17, <1>18, <1>19 DEF Repo!Call

LEMMA InitGit == Repo!Init => Repo!AnswersAreTrue
BY DEF Repo!Init, Repo!AnswersAreTrue, Repo!NoAnswer

LEMMA GitStep == Repo!AnswersAreTrue /\ [Repo!Next]_Repo!vars => Repo!AnswersAreTrue'
<1>1. CASE Repo!Next
  BY <1>1, CallAnswersTruly DEF Repo!Next
<1>2. CASE UNCHANGED Repo!vars
  BY <1>2 DEF Repo!vars, Repo!AnswersAreTrue, Repo!Tree, Repo!Tip
<1> QED
  BY <1>1, <1>2

LEMMA GitKeepsWork == [Repo!Next]_Repo!vars => Repo!KeepsUnstagedWork
<1>1. Repo!Next => Repo!KeepsUnstagedWork
  BY CallKeepsWork DEF Repo!Next, Repo!KeepsUnstagedWork
<1>2. UNCHANGED Repo!vars => Repo!KeepsUnstagedWork
  BY DEF Repo!vars, Repo!KeepsUnstagedWork
<1> QED
  BY <1>1, <1>2

\* No call but an edit and a checkout of the file changes work that was not staged, not even
\* reset(hard=True), for every set of branches, remotes and contents
\* (nr.utils.git/__init__.py:323-349).
THEOREM WorkSurvives == Repo!Spec => Repo!UnstagedWorkSurvives
BY GitKeepsWork, PTL DEF Repo!Spec, Repo!UnstagedWorkSurvives

\* What the class Git tells its caller is true of the repository it asked, in every state it
\* can reach (nr.utils.git/__init__.py:140-149, 239-246, 293-304).
THEOREM GitTellsTheTruth == Repo!Spec => []Repo!AnswersAreTrue
BY InitGit, GitStep, PTL DEF Repo!Spec

-------------------------------------------------------------------------------
(* 2. nr.collections.ChainDict *)

major == x1
others == x2
deleted == x3
ret == x4
USE DEF major, others, deleted, ret

\* The library's Min is one of the numbers, and below the rest.
LEMMA LeastNumber ==
  ASSUME NEW S \in SUBSET Nat, S # {}
  PROVE  Chain!Min(S) \in S /\ \A x \in S : Chain!Min(S) <= x
<1>1. \E x \in S : \A y \in S : x <= y
  BY Least
<1> QED
  BY <1>1, Zenon DEF Chain!Min

\* A mapping is a function of keys to values.
LEMMA MappingsAre ==
  ASSUME NEW f
  PROVE  f \in Chain!Mappings <=> /\ f = [k \in DOMAIN f |-> f[k]]
                                  /\ DOMAIN f \subseteq ChainKeys
                                  /\ \A k \in DOMAIN f : f[k] \in Vals
<1>1. ASSUME f \in Chain!Mappings
      PROVE  /\ f = [k \in DOMAIN f |-> f[k]]
             /\ DOMAIN f \subseteq ChainKeys
             /\ \A k \in DOMAIN f : f[k] \in Vals
  <2>1. PICK K \in SUBSET ChainKeys : f \in [K -> Vals]
    BY <1>1 DEF Chain!Mappings
  <2> QED
    BY <2>1
<1>2. ASSUME f = [k \in DOMAIN f |-> f[k]], DOMAIN f \subseteq ChainKeys, \A k \in DOMAIN f : f[k] \in Vals
      PROVE  f \in Chain!Mappings
  <2>1. f \in [DOMAIN f -> Vals]
    BY <1>2
  <2> QED
    BY <2>1, <1>2 DEF Chain!Mappings
<1> QED
  BY <1>1, <1>2

\* What is behind the first dictionary never changes: a key's value there is that of the
\* first of the others that has it.
Behind == {k \in ChainKeys : \E i \in 1 .. Depth : k \in DOMAIN others[i]}
BehindIn(k) == {i \in 1 .. Depth : k \in DOMAIN others[i]}
ValueBehind(k) == others[Chain!Min(BehindIn(k))][k]

\* The contents in two parts: what is written, and what is behind it.
Merged(m, d) ==
  [k \in (DOMAIN m \cup Behind) \ d |-> IF k \in DOMAIN m THEN m[k] ELSE ValueBehind(k)]
InTwoParts ==
  /\ Chain!Contents = Merged(major, deleted)
  /\ \A k : Chain!Contains(k) <=> k \in DOMAIN Chain!Contents
  /\ \A k \in DOMAIN Chain!Contents : Chain!Lookup(k) = Chain!Contents[k]
  /\ Chain!Contents \in Chain!Mappings

LEMMA ContentsAre == Chain!DepthIsNumber /\ Chain!TypeOK => InTwoParts
<1> SUFFICES ASSUME Chain!DepthIsNumber, Chain!TypeOK  PROVE InTwoParts
  OBVIOUS
<1> USE DEF Chain!DepthIsNumber, Chain!TypeOK
<1>1. /\ DOMAIN Chain!Dicts = 1 .. Depth + 1
      /\ Chain!Dicts[1] = major
      /\ \A i \in 1 .. Depth : Chain!Dicts[i + 1] = others[i]
  BY DEF Chain!Dicts
<1>2. ASSUME NEW i \in 2 .. Depth + 1
      PROVE  i - 1 \in 1 .. Depth /\ Chain!Dicts[i] = others[i - 1]
  BY <1>1
<1>3. /\ DOMAIN major \subseteq ChainKeys
      /\ \A i \in 1 .. Depth : DOMAIN others[i] \subseteq ChainKeys
      /\ \A i \in 1 .. Depth : \A k \in DOMAIN others[i] : others[i][k] \in Vals
  BY MappingsAre
<1>4. ASSUME NEW k
      PROVE  Chain!Having(k) \in SUBSET Nat /\ (Chain!Having(k) # {} <=> k \in DOMAIN major \cup Behind)
  <2>1. Chain!Having(k) \in SUBSET Nat
    BY <1>1 DEF Chain!Having
  <2>2. ASSUME NEW i \in Chain!Having(k)  PROVE  k \in DOMAIN major \cup Behind
    <3>1. CASE i = 1
      BY <3>1, <2>2, <1>1 DEF Chain!Having
    <3>2. CASE i # 1
      BY <3>2, <2>2, <1>1, <1>2, <1>3 DEF Chain!Having, Behind
    <3> QED
      BY <3>1, <3>2
  <2>3. ASSUME k \in DOMAIN major  PROVE  1 \in Chain!Having(k)
    BY <2>3, <1>1 DEF Chain!Having
  <2>4. ASSUME NEW i \in BehindIn(k)  PROVE  i + 1 \in Chain!Having(k)
    BY <2>4, <1>1 DEF Chain!Having, BehindIn
  <2>5. k \in Behind => BehindIn(k) # {}
    BY DEF Behind, BehindIn
  <2> QED
    BY <2>1, <2>2, <2>3, <2>4, <2>5
<1>5. ASSUME NEW k \in Behind
      PROVE  /\ Chain!Min(BehindIn(k)) \in BehindIn(k)
             /\ \A i \in BehindIn(k) : Chain!Min(BehindIn(k)) <= i
  <2>1. BehindIn(k) \in SUBSET Nat /\ BehindIn(k) # {}
    BY DEF Behind, BehindIn
  <2> QED
    BY <2>1, LeastNumber
<1>6. ASSUME NEW k \in DOMAIN major \cup Behind
      PROVE  Chain!Lookup(k) = IF k \in DOMAIN major THEN major[k] ELSE ValueBehind(k)
  <2> DEFINE least == Chain!Min(Chain!Having(k))
  <2>1. least \in Chain!Having(k) /\ \A i \in Chain!Having(k) : least <= i
    BY <1>4, LeastNumber
  <2>2. CASE k \in DOMAIN major
    <3>1. 1 \in Chain!Having(k)
      BY <2>2, <1>1 DEF Chain!Having
    <3>2. least = 1
      <4> HIDE DEF least
      <4> QED
        BY <3>1, <2>1, <1>1 DEF Chain!Having
    <3> QED
      BY <3>2, <2>2, <1>1 DEF Chain!Lookup
  <2>3. CASE k \notin DOMAIN major
    <3> DEFINE first == Chain!Min(BehindIn(k))
    <3>1. first \in BehindIn(k) /\ \A i \in BehindIn(k) : first <= i
      BY <1>5, <2>3
    <3>2. first + 1 \in Chain!Having(k) /\ first \in 1 .. Depth
      BY <3>1, <1>1 DEF Chain!Having, BehindIn
    <3>3. least # 1 /\ least \in 1 .. Depth + 1
      BY <2>1, <2>3, <1>1 DEF Chain!Having
    <3> HIDE DEF least, first
    <3>4. least - 1 \in BehindIn(k)
      BY <3>3, <2>1, <1>1, <1>2 DEF Chain!Having, BehindIn
    <3>5. least = first + 1
      BY <3>1, <3>2, <3>3, <3>4, <2>1
    <3> QED
      BY <3>5, <3>2, <2>3, <1>1 DEF Chain!Lookup, ValueBehind, least, first
  <2> QED
    BY <2>2, <2>3
<1>7. Chain!KeySet = (DOMAIN major \cup Behind) \ deleted
  <2>1. ASSUME NEW k  PROVE  (\E i \in DOMAIN Chain!Dicts : k \in DOMAIN Chain!Dicts[i]) <=> Chain!Having(k) # {}
    BY DEF Chain!Having
  <2> QED
    BY <2>1, <1>4 DEF Chain!KeySet
<1>8. ASSUME NEW k  PROVE  Chain!Contains(k) <=> k \in (DOMAIN major \cup Behind) \ deleted
  BY <1>4 DEF Chain!Contains
<1>9. ASSUME NEW k \in Behind  PROVE  ValueBehind(k) \in Vals
  BY <1>5, <1>3 DEF ValueBehind, BehindIn
<1>10. Chain!Contents = Merged(major, deleted)
  BY <1>6, <1>7 DEF Chain!Contents, Merged
<1>11. Chain!Contents \in Chain!Mappings
  BY <1>3, <1>9, <1>10, MappingsAre DEF Merged, Behind
<1> QED
  BY <1>6, <1>7, <1>8, <1>10, <1>11 DEF InTwoParts, Chain!Contents

\* What is behind stays there, so a call's effect on the contents is that on the first
\* dictionary and on the deleted keys.
LEMMA ContentsBecome ==
  ASSUME Chain!DepthIsNumber, Chain!TypeOK, Chain!TypeOK', UNCHANGED others
  PROVE  /\ InTwoParts
         /\ Chain!Contents' = Merged(major', deleted')
         /\ Chain!Contents' \in Chain!Mappings
<1>1. InTwoParts
  BY ContentsAre
<1>2. InTwoParts'
  <2>1. Chain!DepthIsNumber'
    BY DEF Chain!DepthIsNumber
  <2> QED
    BY <2>1, ContentsAre, PTL
<1>3. Behind' = Behind /\ \A k : ValueBehind(k)' = ValueBehind(k)
  BY DEF Behind, ValueBehind, BehindIn
<1> QED
  BY <1>1, <1>2, <1>3 DEF InTwoParts, Merged, Chain!Mappings

\* The writing calls make mappings of mappings.
LEMMA WritesMakeMappings ==
  ASSUME NEW m \in Chain!Mappings
  PROVE  /\ \A k \in ChainKeys, v \in Vals : Chain!Put(m, k, v) \in Chain!Mappings
         /\ \A k : Chain!Drop(m, k) \in Chain!Mappings
         /\ Chain!Restrict(m, {}) \in Chain!Mappings
         /\ \A e \in Chain!Mappings :
              [k \in DOMAIN m \cup DOMAIN e |-> IF k \in DOMAIN e THEN e[k] ELSE m[k]] \in Chain!Mappings
BY MappingsAre DEF Chain!Put, Chain!Drop, Chain!Restrict

LEMMA ChainStep ==
  ASSUME Chain!DepthIsNumber, Chain!IInv, Chain!Next
  PROVE  Chain!IInv' /\ UNCHANGED others
<1> USE DEF Chain!IInv, Chain!TypeOK, Chain!WrittenIsNotDeleted
<1>1. DOMAIN major \subseteq ChainKeys /\ \A i \in 1 .. Depth : DOMAIN others[i] \subseteq ChainKeys
  BY MappingsAre
<1>2. ASSUME NEW k \in ChainKeys, Chain!Get(k) \/ Chain!Delete(k) \/ Chain!Pop(k) \/ Chain!PopMajor(k) \/ Chain!PopOther(k)
      PROVE  Chain!IInv' /\ UNCHANGED others
  <2>1. CASE UNCHANGED <<major, others, deleted>>
    BY <2>1
  <2>2. CASE major' = Chain!Drop(major, k) /\ deleted' = deleted \cup {k} /\ UNCHANGED others
    <3>1. DOMAIN major' = DOMAIN major \ {k}
      BY <2>2 DEF Chain!Drop, Chain!Restrict
    <3> QED
      BY <3>1, <2>2, WritesMakeMappings
  <2>3. CASE Chain!PopOther(k)
    BY <2>3 DEF Chain!PopOther
  <2> QED
    BY <1>2, <2>1, <2>2, <2>3 DEF Chain!Get, Chain!Delete, Chain!Pop, Chain!Remove, Chain!PopMajor
<1>3. ASSUME NEW k \in ChainKeys, NEW v \in Vals, Chain!Set(k, v) \/ Chain!SetDefault(k, v)
      PROVE  Chain!IInv' /\ UNCHANGED others
  <2>1. CASE UNCHANGED <<major, others, deleted>>
    BY <2>1
  <2>2. CASE major' = Chain!Put(major, k, v) /\ deleted' = deleted \ {k} /\ UNCHANGED others
    <3>1. DOMAIN major' = DOMAIN major \cup {k}
      BY <2>2 DEF Chain!Put
    <3> QED
      BY <3>1, <2>2, WritesMakeMappings
  <2> QED
    BY <1>3, <2>1, <2>2 DEF Chain!Set, Chain!SetDefault
<1>4. ASSUME NEW e \in Chain!Mappings, Chain!Update(e)
      PROVE  Chain!IInv' /\ UNCHANGED others
  <2>1. major' \in Chain!Mappings /\ DOMAIN major' = DOMAIN major \cup DOMAIN e
    BY <1>4, WritesMakeMappings DEF Chain!Update
  <2> QED
    BY <2>1, <1>4 DEF Chain!Update
<1>5. CASE Chain!Clear
  <2>1. major' \in Chain!Mappings /\ DOMAIN major' = {}
    BY <1>5, WritesMakeMappings DEF Chain!Clear, Chain!Restrict
  <2>2. UNION {DOMAIN others[i] : i \in DOMAIN others} \subseteq ChainKeys
    BY <1>1
  <2> QED
    BY <2>1, <2>2, <1>5 DEF Chain!Clear
<1>6. CASE Chain!Items \/ Chain!PopEmpty \/ Chain!Copy
  BY <1>6 DEF Chain!Items, Chain!PopEmpty, Chain!Copy
<1> QED
  BY <1>2, <1>3, <1>4, <1>5, <1>6 DEF Chain!Next

\* Each call is one of the abstract mapping, of the contents.
LEMMA ChainCallIsOfMapping ==
  ASSUME Chain!DepthIsNumber, Chain!IInv, Chain!Next
  PROVE  Abstract!Next \/ UNCHANGED <<Chain!Contents, ret>>
<1>1. Chain!IInv' /\ UNCHANGED others
  BY ChainStep
<1>2. /\ Chain!Contents = Merged(major, deleted)
      /\ Chain!Contents' = Merged(major', deleted')
      /\ Chain!Contents' \in Chain!Mappings
      /\ Chain!TypeOK /\ DOMAIN major \cap deleted = {}
  BY <1>1, ContentsBecome DEF Chain!IInv, InTwoParts, Chain!WrittenIsNotDeleted
<1>3. /\ \A k : Chain!Contains(k) <=> k \in DOMAIN Chain!Contents
      /\ \A k \in DOMAIN Chain!Contents : Chain!Lookup(k) = Chain!Contents[k]
  BY <1>1, ContentsBecome DEF Chain!IInv, InTwoParts
<1>4. ASSUME UNCHANGED <<major, others, deleted>>  PROVE  UNCHANGED Chain!Contents
  BY <1>4, <1>2
<1>5. ASSUME NEW k, k \notin deleted, major' = Chain!Drop(major, k), deleted' = deleted \cup {k}
      PROVE  Chain!Contents' = Abstract!Without(k)
  BY <1>5, <1>2 DEF Merged, Chain!Drop, Chain!Restrict, Abstract!Without, Abstract!Restrict
<1>6. ASSUME NEW k, NEW v, major' = Chain!Put(major, k, v), deleted' = deleted \ {k}
      PROVE  Chain!Contents' = Abstract!With(k, v)
  BY <1>6, <1>2 DEF Merged, Chain!Put, Abstract!With
<1>7. ASSUME NEW k \in ChainKeys, NEW r, Chain!Remove(k, r)  PROVE  Abstract!Remove(k, r)
  <2>1. CASE Chain!Contains(k)
    <3>1. k \notin deleted /\ major' = Chain!Drop(major, k) /\ deleted' = deleted \cup {k} /\ ret' = r
      BY <1>7, <2>1 DEF Chain!Remove, Chain!Contains
    <3> QED
      BY <3>1, <2>1, <1>3, <1>5 DEF Abstract!Remove, Abstract!Has
  <2>2. CASE ~Chain!Contains(k)
    <3>1. ret' = KeyError /\ UNCHANGED <<major, others, deleted>>
      BY <1>7, <2>2 DEF Chain!Remove
    <3> QED
      BY <3>1, <2>2, <1>3, <1>4 DEF Abstract!Remove, Abstract!Has
  <2> QED
    BY <2>1, <2>2
<1>8. ASSUME NEW k \in ChainKeys, Chain!Get(k)  PROVE  Abstract!Get(k)
  BY <1>8, <1>3, <1>4 DEF Chain!Get, Abstract!Get, Abstract!Has
<1>9. ASSUME NEW k \in ChainKeys, Chain!Pop(k)  PROVE  Abstract!Pop(k)
  BY <1>9, <1>7, <1>3 DEF Chain!Pop, Abstract!Pop, Abstract!Has
<1>10. ASSUME NEW k \in ChainKeys, Chain!PopMajor(k)  PROVE  Abstract!PopItem
  <2>1. k \notin deleted /\ k \in DOMAIN Chain!Contents /\ Chain!Contents[k] = major[k]
    BY <1>10, <1>2 DEF Chain!PopMajor, Merged
  <2> QED
    BY <2>1, <1>10, <1>5 DEF Chain!PopMajor, Abstract!PopItem
<1>11. ASSUME NEW k \in ChainKeys, Chain!PopOther(k)  PROVE  Abstract!PopItem
  <2>1. k \in DOMAIN Chain!Contents /\ ret' = <<k, Chain!Contents[k]>>
    BY <1>11, <1>3 DEF Chain!PopOther
  <2>2. Chain!Contents' = Abstract!Without(k)
    BY <1>11, <1>2 DEF Chain!PopOther, Merged, Abstract!Without, Abstract!Restrict
  <2> QED
    BY <2>1, <2>2 DEF Abstract!PopItem
<1>12. CASE Chain!PopEmpty
  <2>1. DOMAIN Chain!Contents = {}
    BY <1>12 DEF Chain!PopEmpty, Chain!Contents
  <2> QED
    BY <2>1, <1>12, <1>4 DEF Chain!PopEmpty, Abstract!PopItem, Abstract!Next
<1>13. ASSUME NEW k \in ChainKeys, NEW v \in Vals, Chain!Set(k, v)  PROVE  Abstract!Set(k, v)
  BY <1>13, <1>6 DEF Chain!Set, Abstract!Set
<1>14. ASSUME NEW k \in ChainKeys, NEW v \in Vals, Chain!SetDefault(k, v)  PROVE  Abstract!SetDefault(k, v)
  <2>1. CASE Chain!Contains(k)
    BY <2>1, <1>14, <1>3, <1>4 DEF Chain!SetDefault, Abstract!SetDefault, Abstract!Has
  <2>2. CASE ~Chain!Contains(k)
    BY <2>2, <1>14, <1>3, <1>6 DEF Chain!SetDefault, Abstract!SetDefault, Abstract!Has
  <2> QED
    BY <2>1, <2>2
<1>15. ASSUME NEW e \in Chain!Mappings, Chain!Update(e)  PROVE  Abstract!Update(e)
  BY <1>15, <1>2 DEF Chain!Update, Abstract!Update, Merged
<1>16. CASE Chain!Clear
  <2>1. DOMAIN major' = {}
    BY <1>16 DEF Chain!Clear, Chain!Restrict
  <2>2. \A k \in Behind : k \in deleted'
    BY <1>16, <1>2 DEF Chain!Clear, Behind, Chain!TypeOK
  <2>3. Chain!Contents' = Abstract!Restrict(Chain!Contents, {})
    BY <2>1, <2>2, <1>2 DEF Merged, Abstract!Restrict
  <2> QED
    BY <2>3, <1>16 DEF Chain!Clear, Abstract!Clear, Abstract!Next
<1>17. CASE Chain!Items
  BY <1>17, <1>4 DEF Chain!Items, Abstract!Items, Abstract!Next
<1>18. CASE Chain!Copy
  <2>1. /\ DOMAIN Chain!Contents \subseteq DOMAIN Chain!Contents'
        /\ Abstract!Restrict(Chain!Contents', DOMAIN Chain!Contents) = Chain!Contents
    BY <1>18, <1>2 DEF Chain!Copy, Merged, Abstract!Restrict
  <2>2. Chain!Contents' \in Abstract!Mappings
    BY <1>2 DEF Chain!Mappings, Abstract!Mappings
  <2> QED
    BY <2>1, <2>2, <1>18 DEF Chain!Copy, Abstract!Copy, Abstract!Next
<1>19. Chain!Mappings = Abstract!Mappings
  BY DEF Chain!Mappings, Abstract!Mappings
<1> QED
  BY <1>7, <1>8, <1>9, <1>10, <1>11, <1>12, <1>13, <1>14, <1>15, <1>16, <1>17, <1>18, <1>19
     DEF Chain!Next, Chain!Delete, Abstract!Next

LEMMA InitChain ==
  ASSUME Chain!DepthIsNumber
  PROVE  Chain!Init => Chain!IInv /\ Abstract!Init
<1> SUFFICES ASSUME Chain!Init  PROVE Chain!IInv /\ Abstract!Init
  OBVIOUS
<1>1. Chain!IInv
  BY DEF Chain!Init, Chain!IInv, Chain!TypeOK, Chain!WrittenIsNotDeleted
<1>2. Chain!Contents \in Abstract!Mappings
  BY <1>1, ContentsAre DEF Chain!IInv, InTwoParts, Chain!Mappings, Abstract!Mappings
<1> QED
  BY <1>1, <1>2 DEF Abstract!Init, Chain!Init

LEMMA ChainIsAsMapping ==
  ASSUME Chain!DepthIsNumber
  PROVE  Chain!IInv /\ [Chain!Next]_Chain!vars => Chain!IInv' /\ [Abstract!Next]_<<Chain!Contents, ret>>
<1> SUFFICES ASSUME Chain!IInv, [Chain!Next]_Chain!vars
             PROVE  Chain!IInv' /\ [Abstract!Next]_<<Chain!Contents, ret>>
  OBVIOUS
<1>1. CASE Chain!Next
  BY <1>1, ChainStep, ChainCallIsOfMapping
<1>2. CASE UNCHANGED Chain!vars
  <2>1. Chain!IInv'
    BY <1>2 DEF Chain!vars, Chain!IInv, Chain!TypeOK, Chain!WrittenIsNotDeleted
  <2>2. Chain!TypeOK /\ Chain!TypeOK'
    BY <2>1 DEF Chain!IInv
  <2> QED
    BY <1>2, <2>1, <2>2, ContentsBecome DEF Chain!vars, InTwoParts
<1> QED
  BY <1>1, <1>2

\* A chain of any number of dictionaries behaves like one mapping, whatever is found in
\* which of them: each call returns and changes what it would of the contents
\* (nr/collections/chaindict.py:40-140).
THEOREM ChainIsMapping ==
  ASSUME Chain!DepthIsNumber
  PROVE  Chain!Spec => Abstract!Spec
BY InitChain, ChainIsAsMapping, PTL DEF Chain!Spec, Abstract!Spec

\* A key that was written is not among the deleted ones
\* (nr/collections/chaindict.py:40-140).
THEOREM WrittenStays ==
  ASSUME Chain!DepthIsNumber
  PROVE  Chain!Spec => []Chain!WrittenIsNotDeleted
<1>1. Chain!IInv => Chain!WrittenIsNotDeleted
  BY DEF Chain!IInv
<1> QED
  BY <1>1, InitChain, ChainIsAsMapping, PTL DEF Chain!Spec

-------------------------------------------------------------------------------
(* 3. nr.pylang.bundle *)

world == x1
o == x2
stage == x3
todo == x4
src == x5
file == x6
zip == x7
now == x8
spoiled == x9
USE DEF world, o, stage, todo, src, file, zip, now, spoiled

\* Of the sets that are closed under what core modules import there is a least one, so what
\* is ensured to be in the list is well defined; and it is all found.
LEMMA EnsuredIsLeast ==
  ASSUME NEW list
  PROVE  LET Closed(R) == /\ world.core \cap Bundles!Found \subseteq list \cup R
                          /\ \A m \in R : world.imports[m] \cap Bundles!Found \subseteq list \cup R
             closed == {R \in SUBSET (Bundles!Found \ list) : Closed(R)}
         IN  \E R \in closed : \A S \in closed : R \subseteq S
<1> DEFINE Closed(R) == /\ world.core \cap Bundles!Found \subseteq list \cup R
                        /\ \A m \in R : world.imports[m] \cap Bundles!Found \subseteq list \cup R
           closed == {R \in SUBSET (Bundles!Found \ list) : Closed(R)}
           least == {m \in Bundles!Found \ list : \A S \in closed : m \in S}
<1>1. world.core \cap Bundles!Found \subseteq list \cup least
  OBVIOUS
<1>2. ASSUME NEW m \in least  PROVE  world.imports[m] \cap Bundles!Found \subseteq list \cup least
  OBVIOUS
<1>3. least \in closed
  BY <1>1, <1>2
<1> QED
  BY <1>3

LEMMA SelectedIsFound ==
  ASSUME NEW opt
  PROVE  Bundles!Selected(opt) \subseteq Bundles!Found /\ Bundles!Found \subseteq Modules
<1>1. ASSUME NEW list \in SUBSET Bundles!Found  PROVE  Bundles!Ensured(list) \subseteq Bundles!Found
  <2> DEFINE Closed(R) == /\ world.core \cap Bundles!Found \subseteq list \cup R
                          /\ \A m \in R : world.imports[m] \cap Bundles!Found \subseteq list \cup R
             closed == {R \in SUBSET (Bundles!Found \ list) : Closed(R)}
             least == CHOOSE R \in closed : \A S \in closed : R \subseteq S
  <2>1. \E R \in closed : \A S \in closed : R \subseteq S
    BY EnsuredIsLeast
  <2>2. least \in closed
    <3> HIDE DEF closed
    <3> QED
      BY <2>1
  <2>3. least \subseteq Bundles!Found
    <3> HIDE DEF least
    <3> QED
      BY <2>2
  <2>4. Bundles!Ensured(list) = list \cup least
    BY DEF Bundles!Ensured
  <2> QED
    BY <2>3, <2>4
<1>2. \A S : Bundles!Found \ S \in SUBSET Bundles!Found
  OBVIOUS
<1> QED
  BY <1>1, <1>2 DEF Bundles!Selected, Bundles!Found

\* What is copied is there to be copied, and as new as the module.
LEMMA SourceIsCurrent ==
  ASSUME Bundles!IInv, stage = "copy", ~spoiled, NEW m \in todo
  PROVE  /\ m \in Bundles!Selected(o) /\ m \in Modules
         /\ Bundles!Ext(m) = "pyc" => Bundles!Compiled(m) \in DOMAIN file
         /\ Bundles!Source(m).time >= src[m].time
         /\ Bundles!Source(m).edit = src[m].edit
<1>1. m \in Bundles!Selected(o) /\ m \in Bundles!Found /\ m \in Modules /\ (o.srcs \/ o.compile)
  BY SelectedIsFound DEF Bundles!IInv, Bundles!TakenIsCurrent
<1>2. CASE Bundles!Ext(m) = "pyc"
  <2>1. o.compile /\ world.kind[m] = "src"
    BY <1>1, <1>2 DEF Bundles!Ext, Bundles!Found
  <2>2. Bundles!Compiled(m) \in DOMAIN file /\ file[Bundles!Compiled(m)].time >= src[m].time
    BY <2>1, <1>1 DEF Bundles!IInv, Bundles!CompiledAreNew
  <2>3. Bundles!Compiled(m)[2] = m
    BY DEF Bundles!Compiled
  <2> QED
    BY <1>1, <1>2, <2>2, <2>3 DEF Bundles!IInv, Bundles!FilesAreRight, Bundles!Source
<1>3. CASE Bundles!Ext(m) # "pyc"
  BY <1>1, <1>3 DEF Bundles!Source, Bundles!IInv, Bundles!TypeOK
<1> QED
  BY <1>1, <1>2, <1>3

\* Only an edit, a compilation, and a copy change files; the selection changes with a start.
LEMMA WorldStays ==
  ASSUME Bundles!Next \/ UNCHANGED Bundles!vars
  PROVE  UNCHANGED world /\ \A opt : Bundles!Selected(opt)' = Bundles!Selected(opt)
<1>1. UNCHANGED world
  BY DEF Bundles!Next, Bundles!Start, Bundles!Compile, Bundles!Zip, Bundles!ZipRaises, Bundles!Finish, Bundles!Tick,
         Bundles!Copy, Bundles!CopyRaises, Bundles!UpToDate, Bundles!Kill, Bundles!Edit, Bundles!vars
<1> QED
  BY <1>1 DEF Bundles!Selected, Bundles!Ensured, Bundles!Found

LEMMA CompileAdds ==
  ASSUME Bundles!Compile
  PROVE  \E new \in SUBSET todo :
           /\ new = {m \in todo : /\ o.compile /\ world.kind[m] = "src"
                                  /\ o.always \/ Bundles!OutOfDate(src[m], Bundles!Compiled(m))}
           /\ DOMAIN file' = DOMAIN file \cup {Bundles!Compiled(m) : m \in new}
           /\ \A m \in new : file'[Bundles!Compiled(m)].time = now /\ file'[Bundles!Compiled(m)].edit = src[m].edit
           /\ \A f \in DOMAIN file : file'[f] = file[f] \/ \E m \in new : f = Bundles!Compiled(m)
<1> DEFINE new == {m \in todo : /\ o.compile /\ world.kind[m] = "src"
                                /\ o.always \/ Bundles!OutOfDate(src[m], Bundles!Compiled(m))}
<1>1. file' = [f \in DOMAIN file \cup {Bundles!Compiled(m) : m \in new} |->
                 IF \E m \in new : f = Bundles!Compiled(m)
                 THEN [time |-> now, edit |-> src[f[2]].edit] ELSE file[f]]
  BY DEF Bundles!Compile
<1>2. \A m : Bundles!Compiled(m)[2] = m
  BY DEF Bundles!Compiled
<1> HIDE DEF new
<1>3. /\ DOMAIN file' = DOMAIN file \cup {Bundles!Compiled(m) : m \in new}
      /\ \A m \in new : file'[Bundles!Compiled(m)].time = now /\ file'[Bundles!Compiled(m)].edit = src[m].edit
      /\ \A f \in DOMAIN file : file'[f] = file[f] \/ \E m \in new : f = Bundles!Compiled(m)
  BY <1>1, <1>2
<1>4. new \in SUBSET todo
  BY DEF new
<1> QED
  BY <1>3, <1>4 DEF new

LEMMA BundleTypes ==
  ASSUME Bundles!TypeOK, Bundles!Next
  PROVE  Bundles!TypeOK'
<1> USE DEF Bundles!TypeOK
<1>0. UNCHANGED world
  BY WorldStays
<1>1. ASSUME NEW opt \in Options, Bundles!Start(opt)  PROVE  Bundles!TypeOK'
  BY <1>1, SelectedIsFound DEF Bundles!Start
<1>2. CASE Bundles!Compile
  <2>1. PICK new \in SUBSET todo :
          /\ DOMAIN file' = DOMAIN file \cup {Bundles!Compiled(m) : m \in new}
          /\ \A m \in new : file'[Bundles!Compiled(m)].time = now /\ file'[Bundles!Compiled(m)].edit = src[m].edit
          /\ \A f \in DOMAIN file : file'[f] = file[f] \/ \E m \in new : f = Bundles!Compiled(m)
    BY <1>2, CompileAdds
  <2>2. \A m : Bundles!Compiled(m)[2] = m
    BY DEF Bundles!Compiled
  <2>3. ASSUME NEW f \in DOMAIN file'  PROVE  f[2] \in Modules /\ file'[f].time \in 0 .. now
    <3>1. CASE f \in DOMAIN file /\ file'[f] = file[f]
      BY <3>1
    <3>2. ASSUME NEW m \in new, f = Bundles!Compiled(m)  PROVE  f[2] \in Modules /\ file'[f].time = now
      BY <3>2, <2>1, <2>2
    <3> QED
      BY <3>1, <3>2, <2>1
  <2> QED
    BY <2>3, <1>2 DEF Bundles!Compile
<1>3. CASE Bundles!Zip \/ Bundles!ZipRaises \/ Bundles!Finish
  BY <1>3 DEF Bundles!Zip, Bundles!ZipRaises, Bundles!Finish
<1>4. CASE Bundles!Tick
  BY <1>4 DEF Bundles!Tick
<1>5. ASSUME NEW m \in Modules, Bundles!Copy(m) \/ Bundles!Kill(m)  PROVE  Bundles!TypeOK'
  <2>1. /\ DOMAIN file' = DOMAIN file \cup {Bundles!Target(m)}
        /\ file'[Bundles!Target(m)].time = now
        /\ \A f \in DOMAIN file \ {Bundles!Target(m)} : file'[f] = file[f]
    BY <1>5 DEF Bundles!Copy, Bundles!Kill, Bundles!Write
  <2>2. Bundles!Target(m)[2] = m
    BY DEF Bundles!Target
  <2>3. ASSUME NEW f \in DOMAIN file'  PROVE  f[2] \in Modules /\ file'[f].time \in 0 .. now
    <3>1. CASE f = Bundles!Target(m)
      BY <3>1, <2>1, <2>2
    <3>2. CASE f # Bundles!Target(m)
      BY <3>2, <2>1
    <3> QED
      BY <3>1, <3>2
  <2> QED
    BY <2>3, <1>5 DEF Bundles!Copy, Bundles!Kill
<1>6. ASSUME NEW m \in Modules, Bundles!CopyRaises(m) \/ Bundles!UpToDate(m)  PROVE  Bundles!TypeOK'
  BY <1>6 DEF Bundles!CopyRaises, Bundles!UpToDate
<1>7. ASSUME NEW m \in Modules, Bundles!Edit(m)  PROVE  Bundles!TypeOK'
  BY <1>7 DEF Bundles!Edit
<1> QED
  BY <1>1, <1>2, <1>3, <1>4, <1>5, <1>6, <1>7 DEF Bundles!Next

\* A file gets what its source is when it is written; an edit at the time of a file spoils.
LEMMA FilesStayRight ==
  ASSUME Bundles!IInv, Bundles!Next
  PROVE  Bundles!FilesAreRight'
<1> USE DEF Bundles!FilesAreRight
<1> SUFFICES ASSUME ~spoiled', NEW f \in DOMAIN file', file'[f].time >= src'[f[2]].time
             PROVE  file'[f].edit = src'[f[2]].edit
  OBVIOUS
<1>1. Bundles!TypeOK /\ Bundles!FilesAreRight
  BY DEF Bundles!IInv
<1>2. ASSUME UNCHANGED <<src, file, spoiled>>  PROVE  file'[f].edit = src'[f[2]].edit
  BY <1>1, <1>2
<1>3. CASE Bundles!Compile
  <2>1. PICK new \in SUBSET todo :
          /\ DOMAIN file' = DOMAIN file \cup {Bundles!Compiled(m) : m \in new}
          /\ \A m \in new : file'[Bundles!Compiled(m)].time = now /\ file'[Bundles!Compiled(m)].edit = src[m].edit
          /\ \A g \in DOMAIN file : file'[g] = file[g] \/ \E m \in new : g = Bundles!Compiled(m)
    BY <1>3, CompileAdds
  <2>2. \A m : Bundles!Compiled(m)[2] = m
    BY DEF Bundles!Compiled
  <2>3. UNCHANGED <<src, spoiled>>
    BY <1>3 DEF Bundles!Compile
  <2> QED
    BY <2>1, <2>2, <2>3, <1>1
<1>4. ASSUME NEW m \in Modules, Bundles!Copy(m)  PROVE  file'[f].edit = src'[f[2]].edit
  <2>1. /\ DOMAIN file' = DOMAIN file \cup {Bundles!Target(m)}
        /\ file'[Bundles!Target(m)].edit = Bundles!Source(m).edit
        /\ \A g \in DOMAIN file \ {Bundles!Target(m)} : file'[g] = file[g]
        /\ UNCHANGED <<src, spoiled>> /\ stage = "copy" /\ m \in todo
    BY <1>4 DEF Bundles!Copy, Bundles!Copies, Bundles!Write
  <2>2. Bundles!Target(m)[2] = m /\ Bundles!Source(m).edit = src[m].edit
    BY <2>1, SourceIsCurrent DEF Bundles!Target
  <2> QED
    BY <2>1, <2>2, <1>1
<1>5. ASSUME NEW m \in Modules, Bundles!Kill(m)  PROVE  FALSE
  BY <1>5 DEF Bundles!Kill
<1>6. ASSUME NEW m \in Modules, Bundles!Edit(m)  PROVE  file'[f].edit = src'[f[2]].edit
  <2>1. /\ UNCHANGED file /\ ~spoiled /\ src' = [src EXCEPT ![m] = [time |-> now, edit |-> @.edit + 1]]
        /\ ~ \E g \in DOMAIN file : g[2] = m /\ file[g].time = now
    BY <1>6 DEF Bundles!Edit
  <2> QED
    BY <2>1, <1>1 DEF Bundles!TypeOK
<1> QED
  BY <1>2, <1>3, <1>4, <1>5, <1>6
     DEF Bundles!Next, Bundles!Start, Bundles!Zip, Bundles!ZipRaises, Bundles!Finish, Bundles!Tick,
         Bundles!CopyRaises, Bundles!UpToDate

\* As long as it is the same run, a module has the same places.
LEMMA PlacesStay ==
  ASSUME UNCHANGED <<world, o>>
  PROVE  /\ \A m : Bundles!Compiled(m)' = Bundles!Compiled(m)
         /\ \A m : Bundles!Target(m)' = Bundles!Target(m)
         /\ \A m : Bundles!Wanted(m)' = Bundles!Wanted(m)
BY DEF Bundles!Compiled, Bundles!CompileDir, Bundles!Target, Bundles!Ext, Bundles!Wanted

\* A copy never replaces what was compiled, of this module or of another.
LEMMA CopiesGoElsewhere ==
  ASSUME NEW m, NEW n, ~Bundles!InPlace(m)
  PROVE  /\ Bundles!Target(m) # Bundles!Compiled(n)
         /\ m # n => Bundles!Target(m) # Bundles!Target(n)
BY DEF Bundles!InPlace, Bundles!Target, Bundles!Compiled

LEMMA CompiledStayNew ==
  ASSUME Bundles!IInv, Bundles!Next
  PROVE  Bundles!CompiledAreNew'
<1> USE DEF Bundles!CompiledAreNew
<1>1. UNCHANGED world /\ \A opt : Bundles!Selected(opt)' = Bundles!Selected(opt)
  BY WorldStays
<1>2. Bundles!TypeOK /\ Bundles!CompiledAreNew /\ Bundles!TakenIsCurrent
  BY DEF Bundles!IInv
<1>3. ASSUME stage' \notin {"zip", "copy", "done"} \/ spoiled'  PROVE  Bundles!CompiledAreNew'
  BY <1>3
<1>4. ASSUME UNCHANGED <<o, src, file, spoiled>>, stage \in {"zip", "copy", "done"} \/ UNCHANGED stage
      PROVE  Bundles!CompiledAreNew'
  BY <1>1, <1>2, <1>4, PlacesStay
<1>5. CASE Bundles!Compile
  <2> SUFFICES ASSUME ~spoiled, NEW m \in Bundles!Selected(o), o.compile, world.kind[m] = "src"
               PROVE  Bundles!Compiled(m) \in DOMAIN file' /\ file'[Bundles!Compiled(m)].time >= src[m].time
    BY <1>1, <1>5, PlacesStay DEF Bundles!Compile
  <2>1. PICK new \in SUBSET todo :
          /\ new = {n \in todo : /\ o.compile /\ world.kind[n] = "src"
                                 /\ o.always \/ Bundles!OutOfDate(src[n], Bundles!Compiled(n))}
          /\ DOMAIN file' = DOMAIN file \cup {Bundles!Compiled(n) : n \in new}
          /\ \A n \in new : file'[Bundles!Compiled(n)].time = now /\ file'[Bundles!Compiled(n)].edit = src[n].edit
          /\ \A f \in DOMAIN file : file'[f] = file[f] \/ \E n \in new : f = Bundles!Compiled(n)
    BY <1>5, CompileAdds
  <2>2. m \in todo /\ m \in Modules
    BY <1>2, <1>5 DEF Bundles!TakenIsCurrent, Bundles!TypeOK, Bundles!Compile
  <2>3. CASE m \in new
    BY <2>1, <2>2, <2>3, <1>2 DEF Bundles!TypeOK
  <2>4. CASE m \notin new
    <3>1. Bundles!Compiled(m) \in DOMAIN file /\ file[Bundles!Compiled(m)].time >= src[m].time
      <4>1. ~Bundles!OutOfDate(src[m], Bundles!Compiled(m))
        BY <2>1, <2>2, <2>4
      <4>2. Bundles!Compiled(m) \in DOMAIN file /\ ~ (src[m].time > file[Bundles!Compiled(m)].time)
        BY <4>1 DEF Bundles!OutOfDate
      <4> QED
        BY <4>2, <2>2, <1>2 DEF Bundles!TypeOK
    <3>2. ASSUME NEW n \in new, Bundles!Compiled(m) = Bundles!Compiled(n)  PROVE  FALSE
      BY <3>2, <2>4 DEF Bundles!Compiled
    <3> QED
      BY <3>1, <3>2, <2>1
  <2> QED
    BY <2>3, <2>4
<1>6. ASSUME NEW n \in Modules, Bundles!Copy(n)  PROVE  Bundles!CompiledAreNew'
  <2>1. /\ DOMAIN file' = DOMAIN file \cup {Bundles!Target(n)} /\ ~Bundles!InPlace(n)
        /\ \A g \in DOMAIN file \ {Bundles!Target(n)} : file'[g] = file[g]
        /\ UNCHANGED <<o, src, spoiled>> /\ UNCHANGED stage
    BY <1>6 DEF Bundles!Copy, Bundles!Write
  <2>2. \A m : Bundles!Compiled(m) # Bundles!Target(n)
    BY <2>1, CopiesGoElsewhere
  <2> QED
    BY <2>1, <2>2, <1>1, <1>2, PlacesStay
<1>7. ASSUME NEW n \in Modules, Bundles!Edit(n)  PROVE  stage' \notin {"zip", "copy", "done"} \/ spoiled'
  BY <1>7, <1>2 DEF Bundles!Edit
<1>8. ASSUME NEW n \in Modules, Bundles!CopyRaises(n) \/ Bundles!Kill(n) \/ Bundles!UpToDate(n)
      PROVE  Bundles!CompiledAreNew'
  BY <1>8, <1>3, <1>4 DEF Bundles!CopyRaises, Bundles!Kill, Bundles!UpToDate
<1>9. ASSUME NEW opt \in Options, Bundles!Start(opt)  PROVE  stage' \notin {"zip", "copy", "done"}
  BY <1>9 DEF Bundles!Start
<1>10. CASE Bundles!Zip \/ Bundles!ZipRaises \/ Bundles!Finish \/ Bundles!Tick
  BY <1>10, <1>3, <1>4 DEF Bundles!Zip, Bundles!ZipRaises, Bundles!Finish, Bundles!Tick
<1> QED
  BY <1>3, <1>5, <1>6, <1>7, <1>8, <1>9, <1>10 DEF Bundles!Next

\* What goes into the zip file is what the sources are.
LEMMA MembersAreCurrent ==
  ASSUME Bundles!IInv, stage \in {"zip", "copy", "done"}, ~spoiled, NEW m \in Bundles!Selected(o)
  PROVE  /\ "pyc" \in Bundles!Wanted(m) => Bundles!Compiled(m) \in DOMAIN file
         /\ \A f \in Bundles!Members(m) : f[3] = src[m].edit
<1>1. m \in Bundles!Found
  BY SelectedIsFound
<1>2. ASSUME "pyc" \in Bundles!Wanted(m)
      PROVE  Bundles!Compiled(m) \in DOMAIN file /\ file[Bundles!Compiled(m)].edit = src[m].edit
  <2>1. o.compile /\ world.kind[m] = "src"
    BY <1>1, <1>2 DEF Bundles!Wanted, Bundles!Found
  <2>2. Bundles!Compiled(m) \in DOMAIN file /\ file[Bundles!Compiled(m)].time >= src[m].time
    BY <2>1 DEF Bundles!IInv, Bundles!CompiledAreNew
  <2>3. Bundles!Compiled(m)[2] = m
    BY DEF Bundles!Compiled
  <2> QED
    BY <2>2, <2>3 DEF Bundles!IInv, Bundles!FilesAreRight
<1> QED
  BY <1>2 DEF Bundles!Members

LEMMA ViewStays ==
  ASSUME UNCHANGED <<world, o, src, file, zip>>
  PROVE  /\ Bundles!Selected(o)' = Bundles!Selected(o)
         /\ \A m : Bundles!Packed(m)' = Bundles!Packed(m)
         /\ \A m : Bundles!InLib(m)' = Bundles!InLib(m)
         /\ \A m : Bundles!Compiled(m)' = Bundles!Compiled(m)
<1>1. Bundles!Selected(o)' = Bundles!Selected(o)
  BY DEF Bundles!Selected, Bundles!Ensured, Bundles!Found
<1>2. ASSUME NEW m
      PROVE  /\ Bundles!Packed(m)' = Bundles!Packed(m) /\ Bundles!InLib(m)' = Bundles!InLib(m)
             /\ Bundles!Compiled(m)' = Bundles!Compiled(m)
  BY DEF Bundles!Packed, Bundles!InLib, Bundles!Members, Bundles!Wanted, Bundles!Compiled, Bundles!CompileDir,
         Bundles!Target, Bundles!Ext
<1> QED
  BY <1>1, <1>2

LEMMA TakenStaysCurrent ==
  ASSUME Bundles!IInv, Bundles!Next
  PROVE  Bundles!TakenIsCurrent'
<1>1. UNCHANGED world /\ \A opt : Bundles!Selected(opt)' = Bundles!Selected(opt)
  BY WorldStays
<1>2. Bundles!TypeOK /\ Bundles!CompiledAreNew /\ Bundles!TakenIsCurrent
  BY DEF Bundles!IInv
<1>3. ASSUME stage' \in {"idle", "raised"}  PROVE  Bundles!TakenIsCurrent'
  BY <1>3 DEF Bundles!TakenIsCurrent
<1>4. ASSUME UNCHANGED <<o, src, file, zip, spoiled, todo, stage>>  PROVE  Bundles!TakenIsCurrent'
  <2>1. UNCHANGED <<world, o, src, file, zip, spoiled, todo, stage>>
    BY <1>1, <1>4
  <2> QED
    BY <2>1, <1>2, ViewStays DEF Bundles!TakenIsCurrent
<1>5. ASSUME NEW opt \in Options, Bundles!Start(opt)  PROVE  Bundles!TakenIsCurrent'
  <2>1. /\ o' = opt /\ todo' = Bundles!Selected(opt)
        /\ \/ stage' = "raised"
           \/ stage' = "compile" /\ (opt.srcs \/ opt.compile)
    BY <1>5 DEF Bundles!Start
  <2>2. todo' = Bundles!Selected(o)'
    <3>1. Bundles!Selected(o)' = Bundles!Selected(o')
      BY <1>1 DEF Bundles!Selected, Bundles!Ensured, Bundles!Found
    <3> QED
      BY <2>1, <3>1
  <2> QED
    BY <2>1, <2>2 DEF Bundles!TakenIsCurrent
<1>6. CASE Bundles!Compile
  <2>1. /\ stage = "compile" /\ UNCHANGED <<o, todo>> /\ todo = Bundles!Selected(o) /\ (o.srcs \/ o.compile)
        /\ stage' = IF o.zip /\ todo # {} THEN "zip" ELSE "copy"
    BY <1>6, <1>2 DEF Bundles!Compile, Bundles!TakenIsCurrent
  <2>2. Bundles!Selected(o)' = Bundles!Selected(o)
    BY <1>1, <2>1 DEF Bundles!Selected, Bundles!Ensured, Bundles!Found
  <2> QED
    BY <2>1, <2>2 DEF Bundles!TakenIsCurrent
<1>7. CASE Bundles!Zip
  <2>1. /\ stage = "zip" /\ stage' = "copy" /\ UNCHANGED <<o, src, file, spoiled>> /\ o.zip
        /\ todo = Bundles!Selected(o) /\ todo' = todo \ (todo \ world.unzippable) /\ (o.srcs \/ o.compile)
        /\ zip' = UNION {Bundles!Members(m) : m \in todo \ world.unzippable}
    BY <1>7, <1>2 DEF Bundles!Zip, Bundles!TakenIsCurrent
  <2>2. Bundles!Selected(o)' = Bundles!Selected(o) /\ \A m : Bundles!Members(m)' = Bundles!Members(m)
    BY <1>1, <2>1
       DEF Bundles!Selected, Bundles!Ensured, Bundles!Found, Bundles!Members, Bundles!Wanted, Bundles!Compiled,
           Bundles!CompileDir
  <2>3. ASSUME NEW m \in Bundles!Selected(o) \ todo'
        PROVE  m \notin world.unzippable /\ Bundles!Packed(m)'
    BY <2>1, <2>2 DEF Bundles!Packed
  <2> QED
    BY <2>1, <2>2, <2>3, <1>1 DEF Bundles!TakenIsCurrent
<1>8. ASSUME NEW n \in Modules, Bundles!Copy(n) \/ Bundles!UpToDate(n)  PROVE  Bundles!TakenIsCurrent'
  <2>1. /\ stage = "copy" /\ n \in todo /\ todo' = todo \ {n} /\ UNCHANGED <<o, src, zip, spoiled, stage>>
        /\ todo \subseteq Bundles!Selected(o) /\ (o.srcs \/ o.compile)
        /\ o.zip => todo \subseteq world.unzippable
        /\ ~spoiled => \A m \in Bundles!Selected(o) \ todo :
                          IF o.zip /\ m \notin world.unzippable THEN Bundles!Packed(m) ELSE Bundles!InLib(m)
    BY <1>8, <1>2 DEF Bundles!Copy, Bundles!UpToDate, Bundles!Copies, Bundles!TakenIsCurrent
  <2>2. Bundles!Selected(o)' = Bundles!Selected(o)
    BY <1>1, <2>1 DEF Bundles!Selected, Bundles!Ensured, Bundles!Found
  <2>3. \A f \in DOMAIN file : f # Bundles!Target(n) => f \in DOMAIN file' /\ file'[f] = file[f]
    BY <1>8 DEF Bundles!Copy, Bundles!UpToDate, Bundles!Write
  <2>4. ASSUME ~spoiled  PROVE  Bundles!InLib(n)'
    <3>1. n \in Modules /\ src[n].time \in 0 .. now /\ now \in Nat /\ Bundles!Target(n)' = Bundles!Target(n)
      BY <1>1, <1>2, <2>1, PlacesStay DEF Bundles!TypeOK
    <3>2. CASE Bundles!Copy(n)
      <4>1. Bundles!Target(n) \in DOMAIN file' /\ file'[Bundles!Target(n)].time = now
        BY <3>2 DEF Bundles!Copy, Bundles!Write
      <4> QED
        BY <4>1, <3>1, <2>1 DEF Bundles!InLib
    <3>3. CASE Bundles!UpToDate(n)
      <4>1. /\ Bundles!Source(n).time >= src[n].time
            /\ Bundles!Ext(n) = "pyc" => Bundles!Compiled(n) \in DOMAIN file
        BY <2>1, <2>4, SourceIsCurrent
      <4>2. UNCHANGED file /\ ~Bundles!Copies(n)
        BY <3>3 DEF Bundles!UpToDate
      <4>3. CASE Bundles!InPlace(n)
        <5>1. Bundles!Target(n) \in DOMAIN file /\ file[Bundles!Target(n)].time >= src[n].time
          BY <4>1, <4>3 DEF Bundles!InPlace, Bundles!Source
        <5> QED
          BY <5>1, <4>2, <3>1, <2>1 DEF Bundles!InLib
      <4>4. CASE ~Bundles!InPlace(n)
        <5>1. ~Bundles!OutOfDate(Bundles!Source(n), Bundles!Target(n))
          BY <4>2, <4>4, <2>1 DEF Bundles!Copies
        <5>2. Bundles!Target(n) \in DOMAIN file /\ ~ (Bundles!Source(n).time > file[Bundles!Target(n)].time)
          BY <5>1 DEF Bundles!OutOfDate
        <5>3. Bundles!Source(n).time \in Nat /\ file[Bundles!Target(n)].time \in Nat
          BY <5>2, <4>1, <3>1, <1>2 DEF Bundles!TypeOK, Bundles!Source
        <5> QED
          BY <5>2, <5>3, <4>1, <4>2, <3>1, <2>1 DEF Bundles!InLib
      <4> QED
        BY <4>3, <4>4
    <3> QED
      BY <1>8, <3>2, <3>3
  <2>5. ASSUME ~spoiled, NEW m \in Bundles!Selected(o) \ todo, o.zip /\ m \notin world.unzippable
        PROVE  Bundles!Packed(m)'
    <3>1. Bundles!Members(m) \subseteq zip
      BY <2>1, <2>5 DEF Bundles!Packed
    <3>2. "pyc" \in Bundles!Wanted(m) => Bundles!Compiled(m) \in DOMAIN file
      BY <2>1, <2>5, MembersAreCurrent
    <3>3. Bundles!Compiled(m) # Bundles!Target(n)
      BY <2>5 DEF Bundles!Compiled, Bundles!CompileDir, Bundles!Target
    <3>4. "pyc" \in Bundles!Wanted(m) => file'[Bundles!Compiled(m)] = file[Bundles!Compiled(m)]
      BY <3>2, <3>3, <2>3
    <3>5. Bundles!Members(m)' = Bundles!Members(m)
      BY <3>4, <2>1, <1>1, PlacesStay DEF Bundles!Members
    <3> QED
      BY <3>1, <3>5, <2>1 DEF Bundles!Packed
  <2>6. ASSUME ~spoiled, NEW m \in Bundles!Selected(o) \ todo, Bundles!InLib(m), m # n
        PROVE  Bundles!InLib(m)'
    <3>1. Bundles!Target(m) # Bundles!Target(n)
      BY <2>6 DEF Bundles!Target
    <3>2. Bundles!Target(m)' = Bundles!Target(m)
      BY <1>1, <2>1, PlacesStay
    <3> QED
      BY <3>1, <3>2, <2>1, <2>3, <2>6 DEF Bundles!InLib
  <2>7. ASSUME ~spoiled, NEW m \in Bundles!Selected(o) \ todo'
        PROVE  IF o.zip /\ m \notin world.unzippable THEN Bundles!Packed(m)' ELSE Bundles!InLib(m)'
    <3>1. CASE m = n
      BY <3>1, <2>1, <2>4, <2>7
    <3>2. CASE m # n
      BY <3>2, <2>1, <2>5, <2>6, <2>7
    <3> QED
      BY <3>1, <3>2
  <2> QED
    BY <2>1, <2>2, <2>7, <1>1 DEF Bundles!TakenIsCurrent
<1>9. CASE Bundles!Finish
  <2>1. CASE stage' = "raised"
    BY <2>1, <1>3
  <2>2. CASE stage' = "done"
    <3>1. UNCHANGED <<o, src, file, zip, spoiled, todo>> /\ stage = "copy" /\ todo = {}
      BY <1>9 DEF Bundles!Finish
    <3>2. UNCHANGED <<world, o, src, file, zip, spoiled, todo>>
      BY <3>1, <1>1
    <3> QED
      BY <2>2, <3>1, <3>2, <1>2, ViewStays DEF Bundles!TakenIsCurrent
  <2> QED
    BY <1>9, <2>1, <2>2 DEF Bundles!Finish
<1>10. ASSUME NEW m \in Modules, Bundles!Edit(m)  PROVE  Bundles!TakenIsCurrent'
  <2>1. CASE stage \in {"idle", "raised", "done"}
    BY <2>1, <1>10, <1>3 DEF Bundles!Edit
  <2>2. CASE stage \in {"compile", "zip", "copy"}
    <3>1. spoiled' /\ UNCHANGED <<o, todo, stage>>
      BY <1>10, <2>2 DEF Bundles!Edit
    <3>2. Bundles!Selected(o)' = Bundles!Selected(o)
      BY <1>1, <3>1 DEF Bundles!Selected, Bundles!Ensured, Bundles!Found
    <3> QED
      BY <3>1, <3>2, <2>2, <1>1, <1>2 DEF Bundles!TakenIsCurrent
  <2> QED
    BY <2>1, <2>2, <1>2 DEF Bundles!TypeOK
<1>11. ASSUME NEW m \in Modules, Bundles!CopyRaises(m) \/ Bundles!Kill(m)  PROVE  stage' \in {"idle", "raised"}
  BY <1>11 DEF Bundles!CopyRaises, Bundles!Kill
<1>12. CASE Bundles!ZipRaises \/ Bundles!Tick
  BY <1>12, <1>3, <1>4 DEF Bundles!ZipRaises, Bundles!Tick
<1> QED
  BY <1>3, <1>5, <1>6, <1>7, <1>8, <1>9, <1>10, <1>11, <1>12 DEF Bundles!Next

LEMMA InitBundle == Bundles!Init => Bundles!IInv
<1> SUFFICES ASSUME Bundles!Init  PROVE Bundles!IInv
  OBVIOUS
<1>1. DOMAIN file = {} /\ stage = "idle" /\ todo = {} /\ now = 1 /\ world \in Collected
      /\ src = [m \in Modules |-> [time |-> 0, edit |-> 1]]
  BY DEF Bundles!Init, Bundles!Restrict
<1> QED
  BY <1>1 DEF Bundles!IInv, Bundles!TypeOK, Bundles!FilesAreRight, Bundles!CompiledAreNew, Bundles!TakenIsCurrent

LEMMA BundleStep == Bundles!IInv /\ [Bundles!Next]_Bundles!vars => Bundles!IInv'
<1>1. ASSUME Bundles!IInv, Bundles!Next  PROVE  Bundles!IInv'
  BY <1>1, BundleTypes, FilesStayRight, CompiledStayNew, TakenStaysCurrent DEF Bundles!IInv
<1>2. ASSUME Bundles!IInv, UNCHANGED Bundles!vars  PROVE  Bundles!IInv'
  <2>1. UNCHANGED <<world, o, stage, todo, src, file, zip, now, spoiled>>
    BY <1>2 DEF Bundles!vars
  <2>2. Bundles!TypeOK' /\ Bundles!FilesAreRight'
    BY <1>2, <2>1 DEF Bundles!IInv, Bundles!TypeOK, Bundles!FilesAreRight
  <2>3. Bundles!CompiledAreNew' /\ Bundles!TakenIsCurrent'
    BY <1>2, <2>1, ViewStays DEF Bundles!IInv, Bundles!CompiledAreNew, Bundles!TakenIsCurrent
  <2> QED
    BY <2>2, <2>3 DEF Bundles!IInv
<1> QED
  BY <1>1, <1>2

LEMMA BundleMeans == Bundles!IInv => Bundles!BundleIsCurrent
<1> SUFFICES ASSUME Bundles!IInv, stage = "done", ~spoiled, NEW m \in Bundles!Selected(o)
             PROVE  IF o.zip /\ m \notin world.unzippable
                    THEN Bundles!Members(m) \subseteq zip /\ \A f \in Bundles!Members(m) : f[3] = src[m].edit
                    ELSE Bundles!Target(m) \in DOMAIN file /\ file[Bundles!Target(m)].edit = src[m].edit
  BY DEF Bundles!BundleIsCurrent
<1>1. IF o.zip /\ m \notin world.unzippable THEN Bundles!Packed(m) ELSE Bundles!InLib(m)
  BY DEF Bundles!IInv, Bundles!TakenIsCurrent
<1>2. \A f \in Bundles!Members(m) : f[3] = src[m].edit
  BY MembersAreCurrent
<1>3. Bundles!InLib(m) => Bundles!Target(m) \in DOMAIN file /\ file[Bundles!Target(m)].edit = src[m].edit
  <2>1. Bundles!Target(m)[2] = m
    BY DEF Bundles!Target
  <2> QED
    BY <2>1 DEF Bundles!InLib, Bundles!IInv, Bundles!FilesAreRight
<1> QED
  BY <1>1, <1>2, <1>3 DEF Bundles!Packed

\* A run that ends well leaves every selected module, in the zip file or in lib/, as it is
\* by then, whatever the runs before it did and left, for any modules, collections, options
\* and times (bundle.py:560-860).
THEOREM BundlesAreCurrent == Bundles!Spec => []Bundles!BundleIsCurrent
BY InitBundle, BundleStep, BundleMeans, PTL DEF Bundles!Spec

-------------------------------------------------------------------------------
(* 4. nr.collections.OrderedSet, whose _index_map is called places here *)

places == x1
content == x2
shifted == x3
failed == x4
USE DEF places, content, shifted, failed

LEMMA CountsAreSame ==
  /\ \A S : Ordered!Cardinality(S) = Cardinality(S)
  /\ \A S : Ordered!IsFiniteSet(S) <=> IsFiniteSet(S)
<1>1. \A S : Ordered!IsFiniteSet(S) <=> IsFiniteSet(S)
  BY DEF Ordered!IsFiniteSet, IsFiniteSet
<1>2. \A S : Ordered!Cardinality(S) = Cardinality(S)
  BY DEF Ordered!Cardinality, Cardinality
<1> QED
  BY <1>1, <1>2

LEMMA Bounded ==
  ASSUME MaxLength \in Nat, NEW s
  PROVE  s \in Ordered!BoundedSeq(Elements, MaxLength) <=> s \in Seq(Elements) /\ Len(s) <= MaxLength
<1>1. ASSUME s \in Seq(Elements), Len(s) <= MaxLength
      PROVE  s \in Ordered!BoundedSeq(Elements, MaxLength)
  <2>1. Len(s) \in 0 .. MaxLength /\ s \in [1 .. Len(s) -> Elements]
    BY <1>1
  <2> QED
    BY <2>1 DEF Ordered!BoundedSeq, Ordered!SeqOf
<1>2. ASSUME s \in Ordered!BoundedSeq(Elements, MaxLength)
      PROVE  s \in Seq(Elements) /\ Len(s) <= MaxLength
  <2>1. PICK n \in 0 .. MaxLength : s \in [1 .. n -> Elements]
    BY <1>2 DEF Ordered!BoundedSeq, Ordered!SeqOf
  <2> QED
    BY <2>1
<1> QED
  BY <1>1, <1>2

\* Where a key stands, if none stands twice.
LEMMA PlacesAre ==
  ASSUME NEW s \in Seq(Elements), Ordered!NoneTwice(s), NEW f, f = [k \in DOMAIN f |-> f[k]]
  PROVE  f = Ordered!Positions(s) <=> /\ DOMAIN f = Ordered!ToSet(s)
                                      /\ \A i \in 1 .. Len(s) : f[s[i]] = i - 1
<1> DEFINE Where(k) == CHOOSE i \in DOMAIN s : s[i] = k
<1>1. \A i \in 1 .. Len(s) : s[i] \in Ordered!ToSet(s) /\ Where(s[i]) = i
  BY DEF Ordered!ToSet, Ordered!NoneTwice
<1>2. \A k \in Ordered!ToSet(s) : \E i \in 1 .. Len(s) : k = s[i]
  BY DEF Ordered!ToSet
<1>3. Ordered!Positions(s) = [k \in Ordered!ToSet(s) |-> Where(k) - 1]
  BY DEF Ordered!Positions
<1> HIDE DEF Where
<1> QED
  BY <1>1, <1>2, <1>3

\* A copy adds the keys one after the other.
LEMMA AddedIs ==
  ASSUME NEW s \in Seq(Elements)
  PROVE  /\ Ordered!Added(s)[0] = <<>>
         /\ \A i \in 1 .. Len(s) : Ordered!Added(s)[i] = Ordered!Once(Ordered!Added(s)[i - 1], s[i])
<1> DEFINE n == Len(s)
           Is(f) == f = [i \in 0 .. n |-> IF i = 0 THEN <<>> ELSE Ordered!Once(f[i - 1], s[i])]
           step == [i \in 1 .. n |-> [t \in Seq(Elements) |-> Ordered!Once(t, s[i])]]
           T == Seq(Elements)
<1>1. \A i \in 1 .. n : \A t \in T : step[i][t] = Ordered!Once(t, s[i])
  OBVIOUS
<1>2. step \in [1 .. n -> [T -> T]]
  BY DEF Ordered!Once
<1>3. PICK f \in [0 .. n -> T] : f[0] = <<>> /\ \A i \in 1 .. n : f[i] = step[i][f[i - 1]]
  <2> DEFINE base == <<>>
  <2>1. n \in Nat
    OBVIOUS
  <2>2. base \in T
    OBVIOUS
  <2> HIDE DEF step, n, T, base
  <2>3. \E f \in [0 .. n -> T] : IsLoop(f, n, base, step)
    BY <1>2, <2>1, <2>2, Loops
  <2> QED
    BY <2>3 DEF base, IsLoop
<1>4. Is(f)
  <2>1. /\ \A i \in 0 .. n : i # 0 => i \in 1 .. n
        /\ \A i \in 1 .. n : i - 1 \in 0 .. n
    OBVIOUS
  <2>2. \A i \in 1 .. n : f[i] = Ordered!Once(f[i - 1], s[i])
    <3> HIDE DEF step, T
    <3> QED
      BY <1>1, <1>3, <2>1
  <2> QED
    BY <1>3, <2>1, <2>2
<1> DEFINE g == Ordered!Added(s)
<1>5. Is(g)
  <2>1. Ordered!Added(s) = CHOOSE x : Is(x)
    BY DEF Ordered!Added
  <2> HIDE DEF Is
  <2> QED
    BY <1>4, <2>1
<1>6. g[0] = <<>> /\ \A i \in 1 .. n : g[i] = Ordered!Once(g[i - 1], s[i])
  <2> DEFINE F(i) == IF i = 0 THEN <<>> ELSE Ordered!Once(g[i - 1], s[i])
  <2>1. g = [i \in 0 .. n |-> F(i)]
    BY <1>5
  <2>2. F(0) = <<>> /\ \A i \in 1 .. n : i \in 0 .. n /\ F(i) = Ordered!Once(g[i - 1], s[i])
    OBVIOUS
  <2> HIDE DEF F, g
  <2> QED
    BY <2>1, <2>2
<1> QED
  BY <1>6

LEMMA EmptyIsExact ==
  ASSUME NEW c, c = <<>>
  PROVE  /\ c \in Seq(Elements) /\ Len(c) = 0 /\ Ordered!NoneTwice(c)
         /\ IsFiniteSet(Ordered!ToSet(c)) /\ Cardinality(Ordered!ToSet(c)) = 0 /\ Ordered!ToSet(c) = {}
<1>1. c \in Seq(Elements) /\ Len(c) = 0 /\ DOMAIN c = {}
  OBVIOUS
<1>2. Ordered!ToSet(c) = {} /\ Ordered!NoneTwice(c)
  BY <1>1 DEF Ordered!ToSet, Ordered!NoneTwice
<1> QED
  BY <1>1, <1>2, FS_EmptySet

\* A copy has each key once, in places of its own.
LEMMA CopyIsExact ==
  ASSUME MaxLength \in Nat, NEW s \in Seq(Elements), Len(s) <= MaxLength
  PROVE  LET c == Ordered!Added(s)[Len(s)] IN
         /\ c \in Seq(Elements) /\ Len(c) <= MaxLength /\ Ordered!NoneTwice(c)
         /\ IsFiniteSet(Ordered!ToSet(c)) /\ Cardinality(Ordered!ToSet(c)) = Len(c)
         /\ Ordered!ToSet(c) \subseteq Elements
<1> DEFINE n == Len(s)
           Good(c) == /\ c \in Seq(Elements) /\ Ordered!NoneTwice(c)
                      /\ IsFiniteSet(Ordered!ToSet(c)) /\ Cardinality(Ordered!ToSet(c)) = Len(c)
           Q == {i \in 0 .. n : Good(Ordered!Added(s)[i]) /\ Len(Ordered!Added(s)[i]) <= i}
<1>1. ASSUME NEW c, Good(c), NEW k \in Elements
      PROVE  Good(Ordered!Once(c, k)) /\ Len(Ordered!Once(c, k)) <= Len(c) + 1
  <2>1. CASE k \in Ordered!ToSet(c)
    BY <1>1, <2>1 DEF Ordered!Once
  <2>2. CASE k \notin Ordered!ToSet(c)
    <3> DEFINE d == Append(c, k)
    <3>1. d \in Seq(Elements) /\ Len(d) = Len(c) + 1 /\ d[Len(c) + 1] = k /\ \A i \in 1 .. Len(c) : d[i] = c[i]
      BY <1>1
    <3>2. DOMAIN c = 1 .. Len(c) /\ DOMAIN d = 1 .. Len(c) + 1 /\ Len(c) \in Nat
      BY <1>1, <3>1
    <3>3. \A i \in DOMAIN d : i \in DOMAIN c \/ i = Len(c) + 1
      BY <3>2
    <3> HIDE DEF d
    <3>4. Ordered!ToSet(d) = Ordered!ToSet(c) \cup {k}
      BY <3>1, <3>2, <3>3 DEF Ordered!ToSet
    <3>5. Ordered!NoneTwice(d)
      BY <1>1, <2>2, <3>1, <3>2, <3>3 DEF Ordered!NoneTwice, Ordered!ToSet
    <3>6. IsFiniteSet(Ordered!ToSet(d)) /\ Cardinality(Ordered!ToSet(d)) = Len(c) + 1
      BY <1>1, <2>2, <3>4, FS_AddElement
    <3>7. Ordered!Once(c, k) = d
      BY <2>2 DEF Ordered!Once, d
    <3> QED
      BY <3>1, <3>2, <3>5, <3>6, <3>7
  <2> QED
    BY <2>1, <2>2
<1>2. 0 \in Q
  <2>1. Ordered!Added(s)[0] = <<>>
    BY AddedIs
  <2>2. Good(Ordered!Added(s)[0]) /\ Len(Ordered!Added(s)[0]) = 0
    BY <2>1, EmptyIsExact
  <2> HIDE DEF Good
  <2> QED
    BY <2>2
<1>3. ASSUME NEW i \in 1 .. n, i - 1 \in Q  PROVE  i \in Q
  <2> DEFINE c == Ordered!Added(s)[i - 1]
  <2>1. Good(c) /\ Len(c) <= i - 1 /\ s[i] \in Elements
    BY <1>3
  <2>2. Ordered!Added(s)[i] = Ordered!Once(c, s[i])
    BY AddedIs
  <2> HIDE DEF c, Good
  <2>3. Good(Ordered!Once(c, s[i])) /\ Len(Ordered!Once(c, s[i])) <= Len(c) + 1
    BY <1>1, <2>1
  <2>4. Len(c) \in Nat /\ Len(Ordered!Once(c, s[i])) \in Nat
    BY <2>1, <2>3 DEF Good
  <2> QED
    BY <2>1, <2>2, <2>3, <2>4
<1>4. n \in Q
  <2>1. n \in Nat /\ n \in 0 .. n
    OBVIOUS
  <2> HIDE DEF Q, n
  <2> QED
    BY <1>2, <1>3, <2>1, UpTo
<1>5. Good(Ordered!Added(s)[n]) /\ Len(Ordered!Added(s)[n]) <= MaxLength
  BY <1>4
<1> QED
  BY <1>5 DEF Ordered!ToSet

LEMMA InitOrdered == MaxLength \in Nat /\ Ordered!Init => Ordered!IInv
<1> SUFFICES ASSUME MaxLength \in Nat, Ordered!Init  PROVE Ordered!IInv
  OBVIOUS
<1>1. Ordered!Known = {} /\ content = <<>> /\ shifted = FALSE /\ failed = FALSE
  BY DEF Ordered!Init, Ordered!Known, Ordered!Restrict
<1>2. /\ content \in Seq(Elements) /\ Len(content) = 0 /\ Ordered!NoneTwice(content)
      /\ Ordered!ToSet(content) = {}
  BY <1>1, EmptyIsExact
<1>3. content \in Ordered!BoundedSeq(Elements, MaxLength)
  <2>1. Len(content) <= MaxLength
    BY <1>2
  <2> QED
    BY <1>2, <2>1, Bounded, Zenon
<1>4. places = Ordered!Positions(content)
  <2>1. places = [k \in DOMAIN places |-> places[k]] /\ DOMAIN places = {}
    BY DEF Ordered!Init, Ordered!Restrict
  <2>2. \A i \in 1 .. Len(content) : places[content[i]] = i - 1
    BY <1>2
  <2> QED
    BY <1>2, <2>1, <2>2, PlacesAre, Zenon
<1> QED
  BY <1>1, <1>2, <1>3, <1>4, FS_EmptySet, CountsAreSame
     DEF Ordered!IInv, Ordered!TypeOK, Ordered!SizesAgree, Ordered!IndexIsPosition

\* What the actions do to the index: a key is forgotten, of which there is one less then.
LEMMA Forgotten ==
  ASSUME Ordered!IInv, NEW k, places' = Ordered!Forget(k)
  PROVE  /\ Ordered!Known' = Ordered!Known \ {k}
         /\ \A x \in Ordered!Known' : places'[x] = places[x]
         /\ places' = [x \in DOMAIN places' |-> places'[x]]
         /\ IsFiniteSet(Ordered!Known')
         /\ k \in Ordered!Known => Cardinality(Ordered!Known') = Cardinality(Ordered!Known) - 1
<1>1. /\ Ordered!Known' = Ordered!Known \ {k}
      /\ \A x \in Ordered!Known' : places'[x] = places[x]
      /\ places' = [x \in DOMAIN places' |-> places'[x]]
  BY DEF Ordered!Known, Ordered!Forget, Ordered!Restrict
<1>2. IsFiniteSet(Ordered!Known)
  BY CountsAreSame DEF Ordered!IInv
<1> QED
  BY <1>1, <1>2, FS_RemoveElement

\* An invariant of what a call leaves, by its parts.
LEMMA OrderedHolds ==
  ASSUME MaxLength \in Nat,
         Ordered!Known' \subseteq Elements, \A k \in Ordered!Known' : places'[k] \in 0 .. MaxLength - 1,
         content' \in Seq(Elements), Len(content') <= MaxLength, shifted' \in BOOLEAN, failed' \in BOOLEAN,
         IsFiniteSet(Ordered!Known'), ~failed' => Len(content') = Cardinality(Ordered!Known'),
         ~shifted' /\ ~failed' => Ordered!NoneTwice(content') /\ places' = Ordered!Positions(content')
  PROVE  Ordered!IInv'
<1>1. content' \in Ordered!BoundedSeq(Elements, MaxLength)
  BY Bounded
<1>2. /\ \A S : Ordered!Cardinality(S) = Cardinality(S)
      /\ \A S : Ordered!IsFiniteSet(S) <=> IsFiniteSet(S)
  BY CountsAreSame
<1>3. Ordered!TypeOK'
  BY <1>1 DEF Ordered!TypeOK
<1> QED
  BY <1>2, <1>3 DEF Ordered!IInv, Ordered!SizesAgree, Ordered!IndexIsPosition

\* What the invariant says, by the names of the library of proofs.
LEMMA OrderedMeans ==
  ASSUME MaxLength \in Nat, Ordered!IInv
  PROVE  /\ Ordered!Known \subseteq Elements /\ \A k \in Ordered!Known : places[k] \in 0 .. MaxLength - 1
         /\ content \in Seq(Elements) /\ Len(content) <= MaxLength /\ shifted \in BOOLEAN /\ failed \in BOOLEAN
         /\ IsFiniteSet(Ordered!Known) /\ (~failed => Len(content) = Cardinality(Ordered!Known))
         /\ ~shifted /\ ~failed => /\ Ordered!NoneTwice(content)
                                 /\ places = Ordered!Positions(content)
                                 /\ Ordered!Known = Ordered!ToSet(content)
                                 /\ \A i \in 1 .. Len(content) : places[content[i]] = i - 1
<1>1. /\ \A S : Ordered!Cardinality(S) = Cardinality(S)
      /\ \A S : Ordered!IsFiniteSet(S) <=> IsFiniteSet(S)
  BY CountsAreSame
<1>2. /\ Ordered!Known \subseteq Elements /\ \A k \in Ordered!Known : places[k] \in 0 .. MaxLength - 1
      /\ content \in Ordered!BoundedSeq(Elements, MaxLength) /\ shifted \in BOOLEAN /\ failed \in BOOLEAN
  BY DEF Ordered!IInv, Ordered!TypeOK
<1>3. content \in Seq(Elements) /\ Len(content) <= MaxLength
  BY <1>2, Bounded, Zenon
<1>4. IsFiniteSet(Ordered!Known) /\ (~failed => Len(content) = Cardinality(Ordered!Known))
  BY <1>1 DEF Ordered!IInv, Ordered!SizesAgree
<1>5. ASSUME ~shifted, ~failed
      PROVE  /\ Ordered!NoneTwice(content)
             /\ places = Ordered!Positions(content)
             /\ Ordered!Known = Ordered!ToSet(content)
             /\ \A i \in 1 .. Len(content) : places[content[i]] = i - 1
  <2>1. Ordered!NoneTwice(content) /\ places = Ordered!Positions(content)
    BY <1>5 DEF Ordered!IInv, Ordered!IndexIsPosition
  <2>2. places = [k \in DOMAIN places |-> places[k]]
    BY <2>1 DEF Ordered!Positions
  <2>3. DOMAIN places = Ordered!ToSet(content) /\ \A i \in 1 .. Len(content) : places[content[i]] = i - 1
    BY <2>1, <2>2, <1>3, PlacesAre, Zenon
  <2> QED
    BY <2>1, <2>3 DEF Ordered!Known
<1> QED
  BY <1>2, <1>3, <1>4, <1>5

LEMMA AddKeepsOrder ==
  ASSUME MaxLength \in Nat, Ordered!IInv, NEW k \in Elements, Ordered!Add(k)
  PROVE  Ordered!IInv'
<1> DEFINE d == Append(content, k)
<1>1. content \in Seq(Elements) /\ Len(content) <= MaxLength /\ IsFiniteSet(Ordered!Known)
  BY OrderedMeans
<1>2. /\ k \notin Ordered!Known /\ Len(content) < MaxLength /\ content' = d
      /\ places' = [x \in Ordered!Known \cup {k} |-> IF x = k THEN Len(content) ELSE places[x]]
      /\ shifted' = shifted /\ failed' = failed
  BY DEF Ordered!Add
<1>3. d \in Seq(Elements) /\ Len(d) = Len(content) + 1 /\ d[Len(content) + 1] = k
        /\ \A i \in 1 .. Len(content) : d[i] = content[i]
  BY <1>1
<1>4. DOMAIN content = 1 .. Len(content) /\ DOMAIN d = 1 .. Len(content) + 1 /\ Len(content) \in Nat
  BY <1>1, <1>3
<1> HIDE DEF d
<1>5. Ordered!Known' = Ordered!Known \cup {k} /\ places' = [x \in DOMAIN places' |-> places'[x]]
  BY <1>2 DEF Ordered!Known
<1>6. Ordered!Known' \subseteq Elements /\ \A x \in Ordered!Known' : places'[x] \in 0 .. MaxLength - 1
  BY <1>2, <1>4, <1>5, OrderedMeans
<1>7. IsFiniteSet(Ordered!Known') /\ Cardinality(Ordered!Known') = Cardinality(Ordered!Known) + 1
  BY <1>1, <1>2, <1>5, FS_AddElement
<1>8. ASSUME ~shifted, ~failed  PROVE  Ordered!NoneTwice(d) /\ places' = Ordered!Positions(d)
  <2>1. /\ Ordered!NoneTwice(content) /\ Ordered!Known = Ordered!ToSet(content)
        /\ \A i \in 1 .. Len(content) : places[content[i]] = i - 1
    BY <1>8, OrderedMeans
  <2>2. \A i \in DOMAIN d : i \in DOMAIN content \/ i = Len(content) + 1
    BY <1>4
  <2>3. Ordered!ToSet(d) = Ordered!ToSet(content) \cup {k}
    BY <1>3, <1>4, <2>2 DEF Ordered!ToSet
  <2>4. Ordered!NoneTwice(d)
    BY <1>2, <1>3, <1>4, <2>1, <2>2 DEF Ordered!NoneTwice, Ordered!ToSet
  <2>5. \A i \in 1 .. Len(content) : content[i] \in Ordered!Known
    BY <1>4, <2>1 DEF Ordered!ToSet
  <2>6. \A i \in 1 .. Len(d) : places'[d[i]] = i - 1
    BY <1>2, <1>3, <1>4, <2>1, <2>5
  <2>7. DOMAIN places' = Ordered!ToSet(d)
    BY <1>5, <2>1, <2>3 DEF Ordered!Known
  <2> QED
    BY <1>3, <1>5, <2>4, <2>6, <2>7, PlacesAre, Zenon
<1>9. /\ Len(content') <= MaxLength /\ content' \in Seq(Elements) /\ shifted' \in BOOLEAN /\ failed' \in BOOLEAN
      /\ ~failed' => Len(content') = Cardinality(Ordered!Known')
  BY <1>2, <1>3, <1>4, <1>7, OrderedMeans
<1> QED
  BY <1>2, <1>6, <1>7, <1>8, <1>9, OrderedHolds

\* A key goes from the index, and a place from the content; unless it was the last place, or
\* the only one, nothing is said of places any more.
LEMMA TakingKeepsOrder ==
  ASSUME MaxLength \in Nat, Ordered!IInv, NEW k, NEW d \in Seq(Elements),
         places' = Ordered!Forget(k), content' = d, content # <<>>, Len(d) = Len(content) - 1,
         shifted' \in BOOLEAN, failed' \in BOOLEAN, failed => failed',
         ~failed' => k \in Ordered!Known,
         ~shifted' /\ ~failed' => ~shifted /\ k = content[Len(content)] /\ \A i \in 1 .. Len(d) : d[i] = content[i]
  PROVE  Ordered!IInv'
<1>1. /\ Ordered!Known' = Ordered!Known \ {k}
      /\ \A x \in Ordered!Known' : places'[x] = places[x]
      /\ places' = [x \in DOMAIN places' |-> places'[x]]
      /\ IsFiniteSet(Ordered!Known')
      /\ k \in Ordered!Known => Cardinality(Ordered!Known') = Cardinality(Ordered!Known) - 1
  BY Forgotten
<1>2. /\ Ordered!Known \subseteq Elements /\ \A x \in Ordered!Known : places[x] \in 0 .. MaxLength - 1
      /\ content \in Seq(Elements) /\ Len(content) <= MaxLength
      /\ ~failed => Len(content) = Cardinality(Ordered!Known)
  BY OrderedMeans
<1>3. Len(content) \in Nat /\ Len(d) \in Nat /\ DOMAIN content = 1 .. Len(content) /\ DOMAIN d = 1 .. Len(d)
  BY <1>2
<1>4. ASSUME ~shifted', ~failed'  PROVE  Ordered!NoneTwice(d) /\ places' = Ordered!Positions(d)
  <2>1. /\ Ordered!NoneTwice(content) /\ Ordered!Known = Ordered!ToSet(content)
        /\ \A i \in 1 .. Len(content) : places[content[i]] = i - 1
    BY <1>4, OrderedMeans
  <2>2. k = content[Len(content)] /\ \A i \in 1 .. Len(d) : d[i] = content[i]
    BY <1>4
  <2>3. \A i \in DOMAIN content : i \in DOMAIN d \/ i = Len(content)
    BY <1>3
  <2>4. DOMAIN d \subseteq DOMAIN content /\ Len(content) \notin DOMAIN d /\ Len(content) \in DOMAIN content
    BY <1>3
  <2>5. Ordered!NoneTwice(d)
    BY <1>3, <2>1, <2>2, <2>4 DEF Ordered!NoneTwice
  <2>6. Ordered!ToSet(d) = Ordered!ToSet(content) \ {k}
    BY <1>3, <2>1, <2>2, <2>3, <2>4 DEF Ordered!NoneTwice, Ordered!ToSet
  <2>7. \A i \in 1 .. Len(d) : d[i] \in Ordered!Known'
    BY <1>1, <1>3, <2>1, <2>6 DEF Ordered!ToSet
  <2>8. \A i \in 1 .. Len(d) : places'[d[i]] = i - 1
    BY <1>1, <1>3, <2>1, <2>2, <2>7
  <2>9. DOMAIN places' = Ordered!ToSet(d)
    BY <1>1, <2>1, <2>6 DEF Ordered!Known
  <2> QED
    BY <1>1, <2>5, <2>8, <2>9, PlacesAre, Zenon
<1>5. /\ Ordered!Known' \subseteq Elements /\ \A x \in Ordered!Known' : places'[x] \in 0 .. MaxLength - 1
      /\ Len(content') <= MaxLength /\ content' \in Seq(Elements)
      /\ ~failed' => Len(content') = Cardinality(Ordered!Known')
  BY <1>1, <1>2, <1>3
<1> QED
  BY <1>1, <1>4, <1>5, OrderedHolds

LEMMA RemovedIs ==
  ASSUME NEW s \in Seq(Elements), NEW i \in 1 .. Len(s)
  PROVE  /\ Ordered!RemoveAt(s, i) \in Seq(Elements) /\ Len(Ordered!RemoveAt(s, i)) = Len(s) - 1
         /\ i = Len(s) => \A j \in 1 .. Len(s) - 1 : Ordered!RemoveAt(s, i)[j] = s[j]
<1> DEFINE a == SubSeq(s, 1, i - 1)
           b == SubSeq(s, i + 1, Len(s))
<1>1. a \in Seq(Elements) /\ Len(a) = i - 1 /\ \A j \in 1 .. i - 1 : a[j] = s[j]
  OBVIOUS
<1>2. b \in Seq(Elements) /\ Len(b) = Len(s) - i
  OBVIOUS
<1> HIDE DEF a, b
<1>3. a \o b \in Seq(Elements) /\ Len(a \o b) = Len(s) - 1 /\ \A j \in 1 .. i - 1 : (a \o b)[j] = s[j]
  BY <1>1, <1>2
<1> QED
  BY <1>3 DEF Ordered!RemoveAt, a, b

LEMMA EndsAre ==
  ASSUME NEW s \in Seq(Elements), s # <<>>
  PROVE  /\ Len(s) >= 1 /\ Head(s) = s[1]
         /\ Tail(s) \in Seq(Elements) /\ Len(Tail(s)) = Len(s) - 1
         /\ Ordered!Front(s) \in Seq(Elements) /\ Len(Ordered!Front(s)) = Len(s) - 1
         /\ \A i \in 1 .. Len(s) - 1 : Ordered!Front(s)[i] = s[i]
<1>1. Len(s) >= 1 /\ Len(s) \in Nat
  OBVIOUS
<1>2. Head(s) = s[1] /\ Tail(s) \in Seq(Elements) /\ Len(Tail(s)) = Len(s) - 1
  BY <1>1
<1> DEFINE n == Len(s) - 1
<1>3. n \in Nat /\ n <= Len(s) /\ \A i \in 1 .. n : i \in 1 .. Len(s)
  BY <1>1
<1>4. Ordered!Front(s) = SubSeq(s, 1, n)
  BY DEF Ordered!Front
<1> HIDE DEF n
<1>5. SubSeq(s, 1, n) \in Seq(Elements) /\ Len(SubSeq(s, 1, n)) = n /\ \A i \in 1 .. n : SubSeq(s, 1, n)[i] = s[i]
  BY <1>3
<1>6. /\ Ordered!Front(s) \in Seq(Elements) /\ Len(Ordered!Front(s)) = Len(s) - 1
      /\ \A i \in 1 .. Len(s) - 1 : Ordered!Front(s)[i] = s[i]
  BY <1>4, <1>5 DEF n
<1> QED
  BY <1>1, <1>2, <1>6

LEMMA OrderedStep == MaxLength \in Nat /\ Ordered!IInv /\ [Ordered!Next]_(Ordered!vars) => Ordered!IInv'
<1> SUFFICES ASSUME MaxLength \in Nat, Ordered!IInv, [Ordered!Next]_(Ordered!vars)  PROVE Ordered!IInv'
  OBVIOUS
<1>1. /\ Ordered!Known \subseteq Elements /\ \A k \in Ordered!Known : places[k] \in 0 .. MaxLength - 1
      /\ content \in Seq(Elements) /\ Len(content) <= MaxLength /\ shifted \in BOOLEAN /\ failed \in BOOLEAN
      /\ IsFiniteSet(Ordered!Known) /\ (~failed => Len(content) = Cardinality(Ordered!Known))
  BY OrderedMeans
<1>2. Len(content) \in Nat /\ DOMAIN content = 1 .. Len(content)
  BY <1>1
<1>3. ASSUME NEW k \in Elements, Ordered!Add(k)  PROVE Ordered!IInv'
  BY <1>3, AddKeepsOrder
<1>4. ASSUME NEW k \in Elements, Ordered!Discard(k)  PROVE Ordered!IInv'
  <2> DEFINE d == Ordered!RemoveAt(content, places[k] + 1)
  <2>1. /\ k \in Ordered!Known /\ places[k] < Len(content) /\ places' = Ordered!Forget(k) /\ content' = d
        /\ failed' = failed
    BY <1>4 DEF Ordered!Discard
  <2>2. shifted' \in BOOLEAN /\ (~shifted' => ~shifted /\ places[k] + 1 = Len(content))
    BY <1>4, Zenon DEF Ordered!Discard
  <2>3. places[k] \in Nat /\ places[k] + 1 \in 1 .. Len(content)
    BY <1>1, <1>2, <2>1
  <2>4. /\ d \in Seq(Elements) /\ Len(d) = Len(content) - 1 /\ content # <<>>
        /\ places[k] + 1 = Len(content) => \A j \in 1 .. Len(content) - 1 : d[j] = content[j]
    BY <1>1, <2>3, RemovedIs
  <2> HIDE DEF d
  <2>5. ASSUME ~shifted', ~failed'
        PROVE  ~shifted /\ k = content[Len(content)] /\ \A i \in 1 .. Len(d) : d[i] = content[i]
    <3>1. Ordered!Known = Ordered!ToSet(content) /\ \A i \in 1 .. Len(content) : places[content[i]] = i - 1
      BY <2>1, <2>2, <2>5, OrderedMeans
    <3>2. PICK i \in 1 .. Len(content) : k = content[i]
      BY <1>2, <2>1, <3>1 DEF Ordered!ToSet
    <3>3. places[k] = i - 1
      BY <3>1, <3>2
    <3> DEFINE p == places[k]
    <3> HIDE DEF p
    <3>4. p + 1 = Len(content) /\ p = i - 1
      BY <2>2, <2>5, <3>3 DEF p
    <3>5. i = Len(content)
      BY <3>4
    <3> QED
      BY <2>2, <2>4, <2>5, <3>2, <3>5
  <2> QED
    BY <1>1, <2>1, <2>2, <2>4, <2>5, TakingKeepsOrder
<1>5. ASSUME NEW k \in Elements, Ordered!DiscardFails(k)  PROVE Ordered!IInv'
  <2>1. places' = Ordered!Forget(k) /\ failed' = TRUE /\ content' = content /\ shifted' = shifted
    BY <1>5 DEF Ordered!DiscardFails
  <2>2. Ordered!Known' = Ordered!Known \ {k} /\ \A x \in Ordered!Known' : places'[x] = places[x]
    BY <2>1, Forgotten
  <2>3. IsFiniteSet(Ordered!Known')
    BY <2>1, Forgotten
  <2>4. Ordered!Known' \subseteq Elements /\ \A x \in Ordered!Known' : places'[x] \in 0 .. MaxLength - 1
    BY <1>1, <2>2
  <2> QED
    BY <1>1, <2>1, <2>3, <2>4, OrderedHolds
<1>6. CASE Ordered!PopLast
  <2> DEFINE d == Ordered!Front(content)
             k == content[Len(content)]
  <2>1. content # <<>> /\ content' = d /\ places' = Ordered!Forget(k) /\ shifted' = shifted
    BY <1>6 DEF Ordered!PopLast, Ordered!Last
  <2>2. failed' \in BOOLEAN /\ (failed => failed') /\ (~failed' => k \in Ordered!Known)
    BY <1>6, Zenon DEF Ordered!PopLast, Ordered!Last
  <2>3. d \in Seq(Elements) /\ Len(d) = Len(content) - 1 /\ \A i \in 1 .. Len(content) - 1 : d[i] = content[i]
    BY <1>1, <2>1, EndsAre
  <2>4. k = content[Len(content)]
    OBVIOUS
  <2> HIDE DEF d, k
  <2> QED
    BY <1>1, <2>1, <2>2, <2>3, <2>4, TakingKeepsOrder
<1>7. CASE Ordered!PopFirst
  <2> DEFINE d == Tail(content)
             k == Head(content)
  <2>1. content # <<>> /\ content' = d /\ places' = Ordered!Forget(k)
    BY <1>7 DEF Ordered!PopFirst
  <2>2. /\ failed' \in BOOLEAN /\ (failed => failed') /\ (~failed' => k \in Ordered!Known)
        /\ shifted' \in BOOLEAN /\ (~shifted' => ~shifted /\ ~(Len(content) > 1))
    BY <1>7, Zenon DEF Ordered!PopFirst
  <2>3. d \in Seq(Elements) /\ Len(d) = Len(content) - 1 /\ k = content[1] /\ Len(content) >= 1
    BY <1>1, <2>1, EndsAre
  <2> HIDE DEF d, k
  <2>4. ASSUME ~shifted'
        PROVE  ~shifted /\ k = content[Len(content)] /\ \A i \in 1 .. Len(d) : d[i] = content[i]
    <3>1. ~shifted /\ Len(content) = 1 /\ Len(d) = 0
      BY <1>2, <2>2, <2>3, <2>4
    <3> QED
      BY <2>3, <3>1
  <2> QED
    BY <1>1, <2>1, <2>2, <2>3, <2>4, TakingKeepsOrder
<1>8. CASE Ordered!Copy
  <2> DEFINE c == Ordered!Added(content)[Len(content)]
  <2>1. content' = c /\ places' = Ordered!Positions(c) /\ shifted' = FALSE /\ failed' = FALSE
    BY <1>8 DEF Ordered!Copy
  <2>2. /\ c \in Seq(Elements) /\ Len(c) <= MaxLength /\ Ordered!NoneTwice(c)
        /\ IsFiniteSet(Ordered!ToSet(c)) /\ Cardinality(Ordered!ToSet(c)) = Len(c)
        /\ Ordered!ToSet(c) \subseteq Elements
    BY <1>1, CopyIsExact
  <2> HIDE DEF c
  <2>3. places' = [x \in DOMAIN places' |-> places'[x]]
    BY <2>1 DEF Ordered!Positions
  <2>4. DOMAIN places' = Ordered!ToSet(c) /\ \A i \in 1 .. Len(c) : places'[c[i]] = i - 1
    BY <2>1, <2>2, <2>3, PlacesAre, Zenon
  <2>5. \A x \in Ordered!ToSet(c) : \E i \in 1 .. Len(c) : x = c[i]
    BY <2>2 DEF Ordered!ToSet
  <2>6. \A x \in Ordered!Known' : places'[x] \in 0 .. MaxLength - 1
    BY <2>2, <2>4, <2>5 DEF Ordered!Known
  <2>7. Ordered!Known' = Ordered!ToSet(c)
    BY <2>4 DEF Ordered!Known
  <2> QED
    BY <2>1, <2>2, <2>6, <2>7, OrderedHolds
<1>9. CASE UNCHANGED Ordered!vars
  BY <1>9 DEF Ordered!vars, Ordered!IInv, Ordered!TypeOK, Ordered!Known, Ordered!IndexIsPosition, Ordered!SizesAgree
<1> QED
  BY <1>3, <1>4, <1>5, <1>6, <1>7, <1>8, <1>9 DEF Ordered!Next

-------------------------------------------------------------------------------
(* 5. nr.parsing.core: Scanner *)

text == x1
pos == x2
cursor == x3
strayed == x4
USE DEF text, pos, cursor, strayed

Lines(i) == {n \in Scanning!Newlines : n < i}
NoneWithin(i, j) == \A n \in Scanning!Newlines : ~(i <= n /\ n < j)

LEMMA NewlinesAre ==
  ASSUME text \in Seq(BOOLEAN)
  PROVE  /\ Scanning!Size \in Nat /\ Scanning!Newlines \in SUBSET (0 .. Scanning!Size)
         /\ Scanning!Newlines \in SUBSET Nat
         /\ \A n \in Scanning!Newlines : n < Scanning!Size
         /\ \A i : IsFiniteSet(Lines(i)) /\ Cardinality(Lines(i)) \in Nat
         /\ \A S : Scanning!Cardinality(S) = Cardinality(S)
<1>1. Scanning!Size \in Nat /\ Scanning!Newlines \in SUBSET (0 .. Scanning!Size) /\ Scanning!Newlines \in SUBSET Nat
        /\ \A n \in Scanning!Newlines : n < Scanning!Size
  BY DEF Scanning!Size, Scanning!Newlines
<1>2. \A i : Lines(i) \in SUBSET (0 .. Scanning!Size)
  BY <1>1 DEF Lines
<1>3. IsFiniteSet(0 .. Scanning!Size)
  BY <1>1, FS_Interval
<1>4. \A i : IsFiniteSet(Lines(i)) /\ Cardinality(Lines(i)) \in Nat
  BY <1>2, <1>3, FS_Subset, FS_CardinalityType
<1>5. \A S : Scanning!Cardinality(S) = Cardinality(S)
  BY DEF Scanning!Cardinality, Cardinality
<1> QED
  BY <1>1, <1>4, <1>5

LEMMA ScanMinMax ==
  ASSUME text \in Seq(BOOLEAN), NEW S \in SUBSET Scanning!Newlines, S # {}
  PROVE  /\ Scanning!Min(S) \in S /\ \A x \in S : Scanning!Min(S) <= x
         /\ Scanning!Max(S) \in S /\ \A x \in S : x <= Scanning!Max(S)
<1>1. S \in SUBSET Nat /\ S \in SUBSET (0 .. Scanning!Size) /\ Scanning!Size \in Nat
  BY NewlinesAre
<1>2. \E x \in S : \A y \in S : x <= y
  BY <1>1, Least
<1>3. \E x \in S : \A y \in S : y <= x
  BY <1>1, Greatest
<1>4. \E x \in S : \A y \in S : x >= y
  BY <1>1, <1>3
<1>5. Scanning!Min(S) \in S /\ \A x \in S : Scanning!Min(S) <= x
  BY <1>2, Zenon DEF Scanning!Min
<1>6. Scanning!Max(S) \in S /\ \A x \in S : Scanning!Max(S) >= x
  BY <1>4, Zenon DEF Scanning!Max
<1> QED
  BY <1>1, <1>5, <1>6

\* find() and rfind() find the nearest newline.
LEMMA FindIs ==
  ASSUME text \in Seq(BOOLEAN), NEW i \in Nat
  PROVE  \/ Scanning!Find(i) = -1 /\ \A n \in Scanning!Newlines : n < i
         \/ /\ Scanning!Find(i) \in Scanning!Newlines /\ i <= Scanning!Find(i) /\ NoneWithin(i, Scanning!Find(i))
<1> DEFINE S == {n \in Scanning!Newlines : n >= i}
<1>1. Scanning!Newlines \in SUBSET Nat
  BY NewlinesAre
<1>2. CASE S = {}
  BY <1>1, <1>2 DEF Scanning!Find
<1>3. CASE S # {}
  <2>1. Scanning!Find(i) = Scanning!Min(S)
    BY <1>3 DEF Scanning!Find
  <2>2. Scanning!Min(S) \in S /\ \A x \in S : Scanning!Min(S) <= x
    <3>1. S \in SUBSET Scanning!Newlines
      OBVIOUS
    <3> HIDE DEF S
    <3> QED
      BY <1>3, <3>1, ScanMinMax
  <2> DEFINE m == Scanning!Min(S)
  <2> HIDE DEF m
  <2>3. m \in Scanning!Newlines /\ m >= i /\ \A n \in Scanning!Newlines : n >= i => m <= n
    BY <2>2 DEF m
  <2>4. m \in Nat /\ i <= m
    BY <1>1, <2>3
  <2>5. NoneWithin(i, m)
    BY <1>1, <2>3, <2>4 DEF NoneWithin
  <2>6. Scanning!Find(i) = m
    BY <2>1 DEF m
  <2> QED
    BY <2>3, <2>4, <2>5, <2>6
<1> QED
  BY <1>2, <1>3

LEMMA RFindIs ==
  ASSUME text \in Seq(BOOLEAN), NEW i \in Nat
  PROVE  /\ Scanning!RFind(i) \in Int /\ -1 <= Scanning!RFind(i) /\ Scanning!RFind(i) < i
         /\ Scanning!RFind(i) # -1 => Scanning!RFind(i) \in Scanning!Newlines
         /\ \A n \in Scanning!Newlines : n < i => n <= Scanning!RFind(i)
<1>1. Scanning!Newlines \in SUBSET Nat
  BY NewlinesAre
<1>2. CASE Lines(i) = {}
  BY <1>1, <1>2 DEF Scanning!RFind, Lines
<1>3. CASE Lines(i) # {}
  <2>1. Scanning!RFind(i) = Scanning!Max(Lines(i))
    BY <1>3 DEF Scanning!RFind, Lines
  <2>2. Lines(i) \in SUBSET Scanning!Newlines
    BY DEF Lines
  <2>3. Scanning!Max(Lines(i)) \in Lines(i) /\ \A x \in Lines(i) : x <= Scanning!Max(Lines(i))
    BY <1>3, <2>2, ScanMinMax
  <2> DEFINE m == Scanning!Max(Lines(i))
  <2> HIDE DEF m
  <2>4. m \in Scanning!Newlines /\ m < i /\ \A n \in Scanning!Newlines : n < i => n <= m
    BY <2>3 DEF m, Lines
  <2>5. m \in Nat
    BY <1>1, <2>4
  <2>6. Scanning!RFind(i) = m
    BY <2>1 DEF m
  <2> QED
    BY <2>4, <2>5, <2>6
<1> QED
  BY <1>2, <1>3

\* Where no newline is passed the line stays, and after one the next begins.
LEMMA LineStays ==
  ASSUME text \in Seq(BOOLEAN), NEW i \in Nat, NEW j \in Nat, i <= j, NoneWithin(i, j)
  PROVE  Lines(j) = Lines(i) /\ Scanning!RFind(j) = Scanning!RFind(i)
<1>1. \A n \in Scanning!Newlines : n < j <=> n < i
  BY NewlinesAre DEF NoneWithin
<1>2. Lines(j) = Lines(i)
  BY <1>1 DEF Lines
<1>3. ASSUME NEW k  PROVE Scanning!RFind(k) = IF Lines(k) # {} THEN Scanning!Max(Lines(k)) ELSE -1
  BY DEF Scanning!RFind, Lines
<1> QED
  BY <1>2, <1>3

LEMMA LineEnds ==
  ASSUME text \in Seq(BOOLEAN), NEW n \in Scanning!Newlines
  PROVE  /\ Lines(n + 1) = Lines(n) \cup {n} /\ Cardinality(Lines(n + 1)) = Cardinality(Lines(n)) + 1
         /\ Scanning!RFind(n + 1) = n
<1>1. Scanning!Newlines \in SUBSET Nat /\ IsFiniteSet(Lines(n))
  BY NewlinesAre
<1>2. Lines(n + 1) = Lines(n) \cup {n} /\ n \notin Lines(n)
  <2>1. n \in Nat /\ ~(n < n) /\ \A k \in Scanning!Newlines : k < n + 1 <=> (k < n \/ k = n)
    BY <1>1
  <2> QED
    BY <2>1 DEF Lines
<1>3. Cardinality(Lines(n + 1)) = Cardinality(Lines(n)) + 1
  BY <1>1, <1>2, FS_AddElement
<1>4. Scanning!RFind(n + 1) = n
  BY <1>1, RFindIs
<1> QED
  BY <1>2, <1>3, <1>4

\* Exactness by these names.
LEMMA ExactMeans ==
  ASSUME text \in Seq(BOOLEAN), NEW p
  PROVE  Scanning!Exact(p) <=> /\ p.lineno = 1 + Cardinality(Lines(p.index))
                               /\ p.colno = p.index - Scanning!RFind(p.index) - 1
BY NewlinesAre DEF Scanning!Exact, Lines

\* A place that moves on within a line, and one that moves on to the next line.
LEMMA WithinLine ==
  ASSUME text \in Seq(BOOLEAN), NEW p \in Scanning!Places, Scanning!Exact(p), NEW j \in Nat, p.index <= j,
         NoneWithin(p.index, j)
  PROVE  Scanning!Exact(Scanning!At(j, p.lineno, p.colno + (j - p.index)))
<1> DEFINE q == Scanning!At(j, p.lineno, p.colno + (j - p.index))
<1>1. q.index = j /\ q.lineno = p.lineno /\ q.colno = p.colno + (j - p.index)
  BY DEF Scanning!At
<1>2. p.index \in Nat /\ p.lineno \in Int /\ p.colno \in Int
  BY DEF Scanning!Places
<1>3. Lines(j) = Lines(p.index) /\ Scanning!RFind(j) = Scanning!RFind(p.index)
  BY <1>2, LineStays
<1>4. p.lineno = 1 + Cardinality(Lines(p.index)) /\ p.colno = p.index - Scanning!RFind(p.index) - 1
  BY ExactMeans, Zenon
<1>5. Scanning!RFind(p.index) \in Int
  BY <1>2, RFindIs
<1> HIDE DEF q
<1>6. q.lineno = 1 + Cardinality(Lines(q.index)) /\ q.colno = q.index - Scanning!RFind(q.index) - 1
  BY <1>1, <1>2, <1>3, <1>4, <1>5
<1> QED
  BY <1>6, ExactMeans, Zenon DEF q

LEMMA NextLine ==
  ASSUME text \in Seq(BOOLEAN), NEW p \in Scanning!Places, Scanning!Exact(p), NEW n \in Scanning!Newlines,
         p.index <= n, NoneWithin(p.index, n)
  PROVE  Scanning!Exact(Scanning!At(n + 1, p.lineno + 1, 0))
<1> DEFINE q == Scanning!At(n + 1, p.lineno + 1, 0)
<1>1. q.index = n + 1 /\ q.lineno = p.lineno + 1 /\ q.colno = 0
  BY DEF Scanning!At
<1>2. p.index \in Nat /\ p.lineno \in Int /\ n \in Nat
  BY NewlinesAre DEF Scanning!Places
<1>3. Lines(n) = Lines(p.index)
  BY <1>2, LineStays
<1>4. Cardinality(Lines(n + 1)) = Cardinality(Lines(n)) + 1 /\ Scanning!RFind(n + 1) = n
  BY LineEnds
<1>5. p.lineno = 1 + Cardinality(Lines(p.index)) /\ Cardinality(Lines(n)) \in Nat
  BY ExactMeans, NewlinesAre
<1> HIDE DEF q
<1>6. q.lineno = 1 + Cardinality(Lines(q.index)) /\ q.colno = q.index - Scanning!RFind(q.index) - 1
  BY <1>1, <1>2, <1>3, <1>4, <1>5
<1> QED
  BY <1>6, ExactMeans, Zenon DEF q

-------------------------------------------------------------------------------
\* seek(): a turn leads from a place to a place, or fails.
LEMMA TurnTypes ==
  ASSUME text \in Seq(BOOLEAN), NEW p \in Scanning!Places \cup {Absent}, NEW offset \in Nat, NEW way
  PROVE  Scanning!Turn(p, offset, way) \in Scanning!Places \cup {Absent}
<1>1. CASE p = Absent \/ p.index = offset
  BY <1>1 DEF Scanning!Turn
<1>2. ASSUME p # Absent, p.index # offset  PROVE Scanning!Turn(p, offset, way) \in Scanning!Places \cup {Absent}
  <2>1. p \in Scanning!Places /\ p.index \in Nat /\ p.lineno \in Int /\ p.colno \in Int
    BY <1>2 DEF Scanning!Places
  <2>2. /\ Scanning!Newlines \in SUBSET Nat
        /\ Scanning!Find(p.index) = -1 \/ Scanning!Find(p.index) \in Scanning!Newlines
        /\ Scanning!RFind(p.index) \in Int
    BY <2>1, NewlinesAre, FindIs, RFindIs
  <2>3. ASSUME NEW fromStart  PROVE Scanning!Forward(p, offset, fromStart) \in Scanning!Places
    <3>1. ASSUME NEW i \in Nat, NEW l \in Int, NEW c \in Int  PROVE Scanning!At(i, l, c) \in Scanning!Places
      BY DEF Scanning!At, Scanning!Places
    <3>2. CASE Scanning!Find(p.index) < 0 \/ Scanning!Find(p.index) >= offset
      <4>1. Scanning!Forward(p, offset, fromStart) = Scanning!At(offset, p.lineno, offset - p.index)
        BY <3>2 DEF Scanning!Forward
      <4>2. offset - p.index \in Int
        BY <2>1
      <4> QED
        BY <2>1, <3>1, <4>1, <4>2
    <3>3. CASE ~(Scanning!Find(p.index) < 0 \/ Scanning!Find(p.index) >= offset)
      <4> DEFINE nl == Scanning!Find(p.index)
                 c == IF fromStart THEN 0 ELSE p.colno
      <4>1. Scanning!Forward(p, offset, fromStart) = Scanning!At(nl + 1, p.lineno + 1, c)
        BY <3>3 DEF Scanning!Forward
      <4>2. c \in Int
        BY <2>1
      <4>3. nl = -1 \/ nl \in Nat
        BY <2>2
      <4>4. ~(nl < 0)
        BY <3>3
      <4> HIDE DEF nl, c
      <4>5. nl + 1 \in Nat /\ p.lineno + 1 \in Int
        BY <2>1, <4>3, <4>4
      <4> QED
        BY <3>1, <4>1, <4>2, <4>5
    <3> QED
      BY <3>2, <3>3
  <2>4. Scanning!Backward(p, offset) \in Scanning!Places \cup {Absent}
    <3> DEFINE nl == Scanning!RFind(p.index)
    <3>1. ASSUME NEW i \in Nat, NEW l \in Int, NEW c \in Int  PROVE Scanning!At(i, l, c) \in Scanning!Places
      BY DEF Scanning!At, Scanning!Places
    <3>2. CASE nl > offset
      <4>1. nl - 1 \in Nat /\ p.lineno - 1 \in Int
        BY <2>1, <2>2, <3>2
      <4> QED
        BY <2>1, <3>1, <3>2, <4>1 DEF Scanning!Backward
    <3>3. CASE ~(nl > offset) /\ offset = Scanning!Size
      BY <3>3 DEF Scanning!Backward
    <3>4. CASE ~(nl > offset) /\ offset # Scanning!Size /\ offset \notin Scanning!Newlines
      <4>1. offset - nl - 1 \in Int
        BY <2>2
      <4> QED
        BY <2>1, <3>1, <3>4, <4>1 DEF Scanning!Backward
    <3>5. CASE ~(nl > offset) /\ offset # Scanning!Size /\ offset \in Scanning!Newlines
      <4>1. CASE Scanning!RFind(p.index - 1) = offset
        BY <3>5, <4>1 DEF Scanning!Backward
      <4>2. CASE Scanning!RFind(p.index - 1) # offset
        <5>1. Scanning!RFind(p.index - 1) \in Int
          <6>1. CASE Lines(p.index - 1) = {}
            BY <6>1 DEF Scanning!RFind, Lines
          <6>2. CASE Lines(p.index - 1) # {}
            <7>1. Lines(p.index - 1) \in SUBSET Scanning!Newlines
              BY DEF Lines
            <7>2. Scanning!RFind(p.index - 1) = Scanning!Max(Lines(p.index - 1))
              BY <6>2 DEF Scanning!RFind, Lines
            <7>3. Scanning!Max(Lines(p.index - 1)) \in Lines(p.index - 1)
              BY <6>2, <7>1, ScanMinMax
            <7>4. Scanning!RFind(p.index - 1) \in Nat
              BY <2>2, <7>1, <7>2, <7>3, Zenon
            <7> QED
              BY <7>4
          <6> QED
            BY <6>1, <6>2
        <5>2. offset - Scanning!RFind(p.index - 1) - 1 \in Int /\ p.lineno - 1 \in Int
          BY <2>1, <5>1
        <5> QED
          BY <2>1, <3>1, <3>5, <4>2, <5>2 DEF Scanning!Backward
      <4> QED
        BY <4>1, <4>2
    <3> QED
      BY <3>2, <3>3, <3>4, <3>5
  <2> QED
    BY <1>2, <2>3, <2>4 DEF Scanning!Turn
<1> QED
  BY <1>1, <1>2

LEMMA TurnsAre ==
  ASSUME text \in Seq(BOOLEAN), NEW from \in Scanning!Places, NEW offset \in Nat, NEW way
  PROVE  LET g == Scanning!Turns(from, offset, way) IN
         /\ g[0] = from
         /\ \A i \in 1 .. Scanning!Size + 2 : g[i] = Scanning!Turn(g[i - 1], offset, way)
         /\ \A i \in 0 .. Scanning!Size + 2 : g[i] \in Scanning!Places \cup {Absent}
<1> DEFINE n == Scanning!Size + 2
           T == Scanning!Places \cup {Absent}
           Is(f) == f = [i \in 0 .. n |-> IF i = 0 THEN from ELSE Scanning!Turn(f[i - 1], offset, way)]
           step == [i \in 1 .. n |-> [t \in T |-> Scanning!Turn(t, offset, way)]]
<1>1. n \in Nat
  BY NewlinesAre
<1>2. \A t \in T : Scanning!Turn(t, offset, way) \in T
  BY TurnTypes
<1>3. step \in [1 .. n -> [T -> T]] /\ \A i \in 1 .. n : \A t \in T : step[i][t] = Scanning!Turn(t, offset, way)
  <2> HIDE DEF T
  <2> QED
    BY <1>2
<1>4. /\ \A i \in 0 .. n : i # 0 => i \in 1 .. n
      /\ \A i \in 1 .. n : i - 1 \in 0 .. n /\ i \in 0 .. n /\ i # 0
      /\ 0 \in 0 .. n
  BY <1>1
<1>5. PICK f \in [0 .. n -> T] : f[0] = from /\ \A i \in 1 .. n : f[i] = step[i][f[i - 1]]
  <2>1. from \in T
    OBVIOUS
  <2> HIDE DEF step, n, T
  <2>2. \E f \in [0 .. n -> T] : IsLoop(f, n, from, step)
    BY <1>1, <1>3, <2>1, Loops
  <2> QED
    BY <2>2 DEF IsLoop
<1>6. \A i \in 1 .. n : f[i] = Scanning!Turn(f[i - 1], offset, way)
  <2> HIDE DEF step, n, T
  <2> QED
    BY <1>3, <1>4, <1>5
<1>7. Is(f)
  <2> HIDE DEF step, n, T
  <2> QED
    BY <1>4, <1>5, <1>6
<1> DEFINE g == Scanning!Turns(from, offset, way)
<1>8. Is(g)
  <2>1. g = CHOOSE x : Is(x)
    BY DEF Scanning!Turns
  <2> HIDE DEF Is
  <2> QED
    BY <1>7, <2>1
<1>9. g[0] = from /\ \A i \in 1 .. n : g[i] = Scanning!Turn(g[i - 1], offset, way)
  <2> DEFINE F(i) == IF i = 0 THEN from ELSE Scanning!Turn(g[i - 1], offset, way)
  <2>1. g = [i \in 0 .. n |-> F(i)]
    BY <1>8
  <2>2. F(0) = from /\ \A i \in 1 .. n : F(i) = Scanning!Turn(g[i - 1], offset, way)
    BY <1>4
  <2> HIDE DEF F, g, n
  <2> QED
    BY <1>4, <2>1, <2>2
<1>10. \A i \in 0 .. n : g[i] \in T
  <2> DEFINE Q == {i \in 0 .. n : g[i] \in T}
  <2>1. 0 \in Q
    BY <1>4, <1>9
  <2>2. \A i \in 1 .. n : i - 1 \in Q => i \in Q
    <3> HIDE DEF T, g, n
    <3> QED
      BY <1>2, <1>4, <1>9
  <2>3. \A i \in 0 .. n : i \in Q
    <3> HIDE DEF Q, n
    <3> QED
      BY <1>1, <2>1, <2>2, UpTo
  <2> QED
    BY <2>3
<1> QED
  BY <1>9, <1>10

\* What counts from the start is exact after each turn, whether it has arrived or not.
LEMMA TurnIsExact ==
  ASSUME text \in Seq(BOOLEAN), NEW p \in Scanning!Places, Scanning!Exact(p), NEW offset \in Nat,
         p.index <= offset, p.index # offset => p.colno = 0
  PROVE  LET q == Scanning!Turn(p, offset, "start") IN
         q \in Scanning!Places /\ Scanning!Exact(q) /\ q.index <= offset /\ (q.index # offset => q.colno = 0)
<1> DEFINE q == Scanning!Turn(p, offset, "start")
           nl == Scanning!Find(p.index)
<1>1. CASE p = Absent \/ p.index = offset
  BY <1>1 DEF Scanning!Turn
<1>2. ASSUME p # Absent, p.index # offset
      PROVE  q \in Scanning!Places /\ Scanning!Exact(q) /\ q.index <= offset /\ (q.index # offset => q.colno = 0)
  <2>1. q = IF nl < 0 \/ nl >= offset THEN Scanning!At(offset, p.lineno, offset - p.index)
            ELSE Scanning!At(nl + 1, p.lineno + 1, 0)
    BY <1>2 DEF Scanning!Turn, Scanning!Forward
  <2>2. p.index \in Nat /\ p.lineno \in Int /\ p.colno = 0 /\ Scanning!Newlines \in SUBSET Nat
    BY <1>2, NewlinesAre DEF Scanning!Places
  <2>3. \/ nl = -1 /\ \A n \in Scanning!Newlines : n < p.index
        \/ nl \in Scanning!Newlines /\ p.index <= nl /\ NoneWithin(p.index, nl)
    BY <2>2, FindIs
  <2> HIDE DEF q, nl
  <2>4. nl = -1 \/ nl \in Nat
    BY <2>2, <2>3
  <2>5. CASE nl < 0 \/ nl >= offset
    <3>1. NoneWithin(p.index, offset)
      BY <2>2, <2>3, <2>4, <2>5 DEF NoneWithin
    <3>2. Scanning!Exact(Scanning!At(offset, p.lineno, p.colno + (offset - p.index)))
      BY <3>1, WithinLine
    <3>3. p.colno + (offset - p.index) = offset - p.index /\ offset - p.index \in Int
      BY <2>2
    <3>4. q = Scanning!At(offset, p.lineno, offset - p.index)
      BY <2>1, <2>5
    <3>5. q.index = offset /\ q \in Scanning!Places
      BY <2>2, <3>3, <3>4 DEF Scanning!At, Scanning!Places
    <3> QED
      BY <3>2, <3>3, <3>4, <3>5
  <2>6. CASE ~(nl < 0 \/ nl >= offset)
    <3>1. nl \in Scanning!Newlines /\ p.index <= nl /\ NoneWithin(p.index, nl) /\ nl \in Nat /\ nl + 1 <= offset
      BY <2>3, <2>4, <2>6
    <3>2. Scanning!Exact(Scanning!At(nl + 1, p.lineno + 1, 0))
      BY <3>1, NextLine
    <3>3. q = Scanning!At(nl + 1, p.lineno + 1, 0)
      BY <2>1, <2>6
    <3>4. q.index = nl + 1 /\ q.colno = 0 /\ q \in Scanning!Places
      BY <2>2, <3>1, <3>3 DEF Scanning!At, Scanning!Places
    <3> QED
      BY <3>1, <3>2, <3>3, <3>4
  <2> QED
    BY <2>5, <2>6
<1> QED
  BY <1>1, <1>2

LEMMA StartIsExact ==
  ASSUME text \in Seq(BOOLEAN)
  PROVE  Scanning!At(0, 1, 0) \in Scanning!Places /\ Scanning!Exact(Scanning!At(0, 1, 0))
           /\ Scanning!At(0, 1, 0).index = 0 /\ Scanning!At(0, 1, 0).colno = 0
<1> DEFINE p == Scanning!At(0, 1, 0)
<1>1. p \in Scanning!Places /\ p.index = 0 /\ p.lineno = 1 /\ p.colno = 0
  BY DEF Scanning!At, Scanning!Places
<1>2. Lines(0) = {}
  BY NewlinesAre DEF Lines
<1>3. Cardinality(Lines(0)) = 0 /\ Scanning!RFind(0) = -1
  BY <1>2, FS_EmptySet DEF Scanning!RFind, Lines
<1> HIDE DEF p
<1>4. p.lineno = 1 + Cardinality(Lines(p.index)) /\ p.colno = p.index - Scanning!RFind(p.index) - 1
  BY <1>1, <1>3
<1> QED
  BY <1>1, <1>4, ExactMeans, Zenon DEF p

LEMMA CountIsExact ==
  ASSUME text \in Seq(BOOLEAN), NEW offset \in Nat
  PROVE  LET q == Scanning!Counted(Scanning!At(0, 1, 0), offset, "start") IN
         q \in Scanning!Places /\ Scanning!Exact(q)
<1> DEFINE n == Scanning!Size + 2
           p == Scanning!At(0, 1, 0)
           g == Scanning!Turns(p, offset, "start")
           Good(q) == q \in Scanning!Places /\ Scanning!Exact(q) /\ q.index <= offset
                        /\ (q.index # offset => q.colno = 0)
           Q == {i \in 0 .. n : Good(g[i])}
<1>1. n \in Nat
  BY NewlinesAre
<1>2. p \in Scanning!Places
  BY StartIsExact
<1>3. g[0] = p /\ \A i \in 1 .. n : g[i] = Scanning!Turn(g[i - 1], offset, "start")
  <2> HIDE DEF p
  <2> QED
    BY <1>2, TurnsAre
<1> HIDE DEF g
<1>4. Good(p)
  BY StartIsExact
<1>5. 0 \in Q
  <2> HIDE DEF Good, n
  <2> QED
    BY <1>1, <1>3, <1>4
<1>6. ASSUME NEW i \in 1 .. n, i - 1 \in Q  PROVE i \in Q
  <2> DEFINE q == g[i - 1]
  <2>1. Good(q)
    BY <1>6
  <2>2. g[i] = Scanning!Turn(q, offset, "start")
    BY <1>3
  <2> HIDE DEF q
  <2>3. Good(Scanning!Turn(q, offset, "start"))
    BY <2>1, TurnIsExact
  <2>4. i \in 0 .. n
    BY <1>1
  <2> HIDE DEF Good
  <2> QED
    BY <2>2, <2>3, <2>4
<1>7. Good(g[n])
  <2>1. n \in 0 .. n
    BY <1>1
  <2>2. n \in Q
    <3> HIDE DEF Q, n
    <3> QED
      BY <1>1, <1>5, <1>6, <2>1, UpTo
  <2> HIDE DEF Good
  <2> QED
    BY <2>2
<1> QED
  BY <1>7 DEF Scanning!Counted, g

-------------------------------------------------------------------------------
LEMMA InitScanner == Scanning!TextsAreTexts /\ Scanning!Init => Scanning!IInv
<1> SUFFICES ASSUME Scanning!TextsAreTexts, Scanning!Init  PROVE Scanning!IInv
  OBVIOUS
<1>1. text \in Texts /\ text \in Seq(BOOLEAN) /\ pos = Scanning!At(0, 1, 0) /\ cursor = Absent
  BY DEF Scanning!Init, Scanning!TextsAreTexts
<1> QED
  BY <1>1, StartIsExact DEF Scanning!IInv

\* A move of the cursor, exact where it was.
LEMMA ScannerMoves ==
  ASSUME Scanning!IInv, UNCHANGED <<text, cursor>>, pos' \in Scanning!Places, ~strayed' => Scanning!Exact(pos')
  PROVE  Scanning!IInv'
<1>1. \A i : Scanning!RFind(i)' = Scanning!RFind(i)
  BY DEF Scanning!RFind, Scanning!Newlines, Scanning!Size
<1>2. Scanning!Newlines' = Scanning!Newlines
  BY DEF Scanning!Newlines, Scanning!Size
<1> QED
  BY <1>1, <1>2 DEF Scanning!IInv, Scanning!Exact

LEMMA ScannerTwo ==
  ASSUME NEW a \in Nat, NEW b \in Nat
  PROVE  Scanning!Max({a, b}) \in Nat /\ a <= Scanning!Max({a, b}) /\ b <= Scanning!Max({a, b})
<1>1. \E x \in {a, b} : \A y \in {a, b} : x >= y
  OBVIOUS
<1>2. Scanning!Max({a, b}) \in {a, b} /\ \A y \in {a, b} : Scanning!Max({a, b}) >= y
  BY <1>1, Zenon DEF Scanning!Max
<1> DEFINE m == Scanning!Max({a, b})
<1> HIDE DEF m
<1>3. (m = a \/ m = b) /\ m >= a /\ m >= b
  BY <1>2 DEF m
<1>4. m \in Nat /\ a <= m /\ b <= m
  BY <1>3
<1> QED
  BY <1>4 DEF m

LEMMA NextCharIsExact ==
  ASSUME text \in Seq(BOOLEAN), Scanning!IInv, Scanning!NextChar
  PROVE  pos' \in Scanning!Places /\ (~strayed' => Scanning!Exact(pos'))
<1>1. pos \in Scanning!Places /\ pos.index \in Nat /\ pos.lineno \in Int /\ pos.colno \in Int
  BY DEF Scanning!IInv, Scanning!Places
<1>2. strayed' = strayed /\ (~strayed => Scanning!Exact(pos))
  BY DEF Scanning!NextChar, Scanning!IInv
<1>3. CASE pos.index \in Scanning!Newlines
  <2>1. pos' = Scanning!At(pos.index + 1, pos.lineno + 1, 0)
    BY <1>3 DEF Scanning!NextChar
  <2>2. NoneWithin(pos.index, pos.index) /\ pos.index <= pos.index
    BY <1>1, NewlinesAre DEF NoneWithin
  <2>3. pos' \in Scanning!Places
    BY <1>1, <2>1 DEF Scanning!At, Scanning!Places
  <2> QED
    BY <1>1, <1>2, <1>3, <2>1, <2>2, <2>3, NextLine
<1>4. CASE pos.index \notin Scanning!Newlines
  <2> DEFINE j == pos.index + 1
  <2>1. pos' = Scanning!At(j, pos.lineno, pos.colno + 1)
    BY <1>4 DEF Scanning!NextChar
  <2>2. NoneWithin(pos.index, j) /\ pos.index <= j /\ j \in Nat /\ j - pos.index = 1
    BY <1>1, <1>4, NewlinesAre DEF NoneWithin
  <2> HIDE DEF j
  <2>3. ~strayed => Scanning!Exact(Scanning!At(j, pos.lineno, pos.colno + (j - pos.index)))
    BY <1>1, <1>2, <2>2, WithinLine
  <2>4. pos' \in Scanning!Places
    BY <1>1, <2>1, <2>2 DEF Scanning!At, Scanning!Places
  <2> QED
    BY <1>2, <2>1, <2>2, <2>3, <2>4
<1> QED
  BY <1>3, <1>4

LEMMA ReadLineIsExact ==
  ASSUME text \in Seq(BOOLEAN), Scanning!IInv, Scanning!ReadLine
  PROVE  pos' \in Scanning!Places /\ (~strayed' => Scanning!Exact(pos'))
<1> DEFINE nl == Scanning!Find(pos.index)
           end == Scanning!Max({Scanning!Size, pos.index})
<1>1. pos \in Scanning!Places /\ pos.index \in Nat /\ pos.lineno \in Int /\ pos.colno \in Int
  BY DEF Scanning!IInv, Scanning!Places
<1>2. strayed' = strayed /\ (~strayed => Scanning!Exact(pos))
  BY DEF Scanning!ReadLine, Scanning!IInv
<1>3. pos' = IF nl >= 0 THEN Scanning!At(nl + 1, pos.lineno + 1, 0)
             ELSE Scanning!At(end, pos.lineno, pos.colno + end - pos.index)
  BY DEF Scanning!ReadLine
<1>4. \/ nl = -1 /\ \A n \in Scanning!Newlines : n < pos.index
      \/ nl \in Scanning!Newlines /\ pos.index <= nl /\ NoneWithin(pos.index, nl)
  BY <1>1, FindIs
<1>5. Scanning!Newlines \in SUBSET Nat /\ Scanning!Size \in Nat
  BY NewlinesAre
<1>6. end \in Nat /\ pos.index <= end
  BY <1>1, <1>5, ScannerTwo
<1> HIDE DEF nl, end
<1>7. CASE nl \in Scanning!Newlines /\ pos.index <= nl /\ NoneWithin(pos.index, nl)
  <2>1. nl \in Nat /\ pos' = Scanning!At(nl + 1, pos.lineno + 1, 0)
    BY <1>3, <1>5, <1>7
  <2>2. pos' \in Scanning!Places
    BY <1>1, <2>1 DEF Scanning!At, Scanning!Places
  <2> QED
    BY <1>1, <1>2, <1>7, <2>1, <2>2, NextLine
<1>8. CASE nl = -1 /\ \A n \in Scanning!Newlines : n < pos.index
  <2>1. pos' = Scanning!At(end, pos.lineno, pos.colno + end - pos.index)
    BY <1>3, <1>8
  <2>2. NoneWithin(pos.index, end)
    BY <1>1, <1>5, <1>8 DEF NoneWithin
  <2>3. ~strayed => Scanning!Exact(Scanning!At(end, pos.lineno, pos.colno + (end - pos.index)))
    BY <1>1, <1>2, <1>6, <2>2, WithinLine
  <2>4. pos.colno + (end - pos.index) = pos.colno + end - pos.index /\ pos.colno + end - pos.index \in Int
    BY <1>1, <1>6
  <2>5. pos' \in Scanning!Places
    BY <1>1, <1>6, <2>1, <2>4 DEF Scanning!At, Scanning!Places
  <2> QED
    BY <1>2, <2>1, <2>3, <2>4, <2>5
<1> QED
  BY <1>4, <1>7, <1>8

LEMMA MatchIsExact ==
  ASSUME text \in Seq(BOOLEAN), Scanning!IInv, NEW n \in Nat, Scanning!Match(n)
  PROVE  pos' \in Scanning!Places /\ (~strayed' => Scanning!Exact(pos'))
<1> DEFINE end == pos.index + n
           lines == {nl \in Scanning!Newlines : pos.index <= nl /\ nl < end}
           last == Scanning!Max(lines)
<1>1. pos \in Scanning!Places /\ pos.index \in Nat /\ pos.lineno \in Int /\ pos.colno \in Int
  BY DEF Scanning!IInv, Scanning!Places
<1>2. strayed' = strayed /\ (~strayed => Scanning!Exact(pos))
  BY DEF Scanning!Match, Scanning!IInv
<1>3. pos' = IF lines = {} THEN Scanning!At(end, pos.lineno, pos.colno + n)
             ELSE Scanning!At(end, pos.lineno + Cardinality(lines), end - last - 1)
  <2>1. Scanning!Cardinality(lines) = Cardinality(lines)
    BY NewlinesAre
  <2> QED
    BY <2>1 DEF Scanning!Match
<1>4. end \in Nat /\ pos.index <= end /\ end - pos.index = n
  BY <1>1
<1>5. Scanning!Newlines \in SUBSET Nat
  BY NewlinesAre
<1>6. CASE lines = {}
  <2>1. pos' = Scanning!At(end, pos.lineno, pos.colno + n)
    BY <1>3, <1>6
  <2>2. NoneWithin(pos.index, end)
    BY <1>6 DEF NoneWithin
  <2> HIDE DEF end
  <2>3. ~strayed => Scanning!Exact(Scanning!At(end, pos.lineno, pos.colno + (end - pos.index)))
    BY <1>1, <1>2, <1>4, <2>2, WithinLine
  <2>4. pos' \in Scanning!Places
    BY <1>1, <1>4, <2>1 DEF Scanning!At, Scanning!Places
  <2> QED
    BY <1>2, <1>4, <2>1, <2>3, <2>4
<1>7. CASE lines # {}
  <2>1. pos' = Scanning!At(end, pos.lineno + Cardinality(lines), end - last - 1)
    BY <1>3, <1>7
  <2>2. last \in lines /\ \A x \in lines : x <= last
    <3>1. lines \in SUBSET Scanning!Newlines
      OBVIOUS
    <3> HIDE DEF lines
    <3> QED
      BY <1>7, <3>1, ScanMinMax
  <2>3. Lines(end) = Lines(pos.index) \cup lines /\ Lines(pos.index) \cap lines = {}
    <3>1. \A x \in Scanning!Newlines : /\ x < end <=> x < pos.index \/ (pos.index <= x /\ x < end)
                                    /\ ~(x < pos.index /\ pos.index <= x)
      BY <1>1, <1>4, <1>5
    <3> QED
      BY <3>1 DEF Lines
  <2>4. IsFiniteSet(lines) /\ IsFiniteSet(Lines(pos.index)) /\ Cardinality(Lines(pos.index)) \in Nat
    <3>1. lines \in SUBSET Lines(end)
      BY <2>3
    <3> HIDE DEF lines
    <3> QED
      BY <3>1, NewlinesAre, FS_Subset
  <2> HIDE DEF lines
  <2>5. Cardinality(lines) \in Nat
    BY <2>4, FS_CardinalityType
  <2>6. Cardinality(Lines(end)) = Cardinality(Lines(pos.index)) + Cardinality(lines)
    <3>1. Cardinality(Lines(pos.index) \cap lines) = 0
      BY <2>3, FS_EmptySet
    <3>2. Cardinality(Lines(pos.index) \cup lines)
            = Cardinality(Lines(pos.index)) + Cardinality(lines) - Cardinality(Lines(pos.index) \cap lines)
      BY <2>4, FS_Union
    <3>3. Cardinality(Lines(end)) = Cardinality(Lines(pos.index) \cup lines)
      BY <2>3, Zenon
    <3> DEFINE before == Cardinality(Lines(pos.index))
               whole == Cardinality(Lines(pos.index) \cup lines)
               both == Cardinality(Lines(pos.index) \cap lines)
               some == Cardinality(lines)
    <3>4. before \in Nat /\ some \in Nat /\ both = 0 /\ whole = before + some - both
      BY <2>4, <2>5, <3>1, <3>2, Zenon
    <3> HIDE DEF before, whole, both, some
    <3>5. whole = before + some
      BY <3>4
    <3> QED
      BY <3>3, <3>5, Zenon DEF before, whole, some
  <2> HIDE DEF last
  <2>7. last \in Scanning!Newlines /\ last \in Nat /\ pos.index <= last /\ last < end
          /\ \A x \in Scanning!Newlines : pos.index <= x /\ x < end => x <= last
    BY <1>5, <2>2 DEF lines
  <2> HIDE DEF end
  <2>8. Scanning!RFind(end) = last
    <3> DEFINE r == Scanning!RFind(end)
    <3>1. r \in Int /\ r < end /\ (r # -1 => r \in Scanning!Newlines) /\ last <= r
      BY <1>4, <2>7, RFindIs
    <3> HIDE DEF r
    <3>2. r # -1
      BY <2>7, <3>1
    <3>3. r \in Nat /\ pos.index <= r
      BY <1>1, <1>5, <2>7, <3>1, <3>2
    <3>4. r <= last
      BY <2>7, <3>1, <3>2, <3>3
    <3>5. r = last
      BY <2>7, <3>1, <3>3, <3>4
    <3> QED
      BY <3>5 DEF r
  <2> DEFINE q == Scanning!At(end, pos.lineno + Cardinality(lines), end - last - 1)
  <2>9. q.index = end /\ q.lineno = pos.lineno + Cardinality(lines) /\ q.colno = end - last - 1
    BY DEF Scanning!At
  <2>10. q \in Scanning!Places
    <3>1. pos.lineno + Cardinality(lines) \in Int /\ end - last - 1 \in Int
      BY <1>1, <1>4, <2>5, <2>7
    <3> QED
      BY <1>4, <3>1 DEF Scanning!At, Scanning!Places
  <2>11. pos' = q
    BY <2>1
  <2> HIDE DEF q
  <2>12. ASSUME ~strayed  PROVE Scanning!Exact(q)
    <3>1. pos.lineno = 1 + Cardinality(Lines(pos.index))
      BY <1>2, <2>12, ExactMeans, Zenon
    <3>2. q.lineno = 1 + Cardinality(Lines(q.index)) /\ q.colno = q.index - Scanning!RFind(q.index) - 1
      BY <2>4, <2>5, <2>6, <2>8, <2>9, <3>1
    <3> QED
      BY <3>2, ExactMeans, Zenon
  <2> QED
    BY <1>2, <2>10, <2>11, <2>12
<1> QED
  BY <1>6, <1>7

LEMMA SeekIsExact ==
  ASSUME text \in Seq(BOOLEAN), Scanning!IInv, NEW to \in Int, Scanning!Seek(to)
  PROVE  pos' \in Scanning!Places /\ (~strayed' => Scanning!Exact(pos'))
<1> DEFINE offset == Scanning!Clamp(to)
           fresh == Scanning!FromStart(offset) /\ offset # pos.index
           way == IF offset < pos.index THEN "backward" ELSE "forward"
           p == IF fresh THEN Scanning!Counted(Scanning!At(0, 1, 0), offset, "start")
                ELSE Scanning!Counted(pos, offset, way)
           fails == p = Absent \/ (p # Absent /\ p.lineno < 1)
<1>1. pos \in Scanning!Places /\ pos.index \in Nat /\ (~strayed => Scanning!Exact(pos))
  BY DEF Scanning!IInv, Scanning!Places
<1>2. offset \in Nat
  <2>1. Scanning!Size \in Nat
    BY NewlinesAre
  <2> QED
    BY <2>1 DEF Scanning!Clamp
<1>3. /\ ~fails => pos' = p
      /\ fails => pos' = pos
      /\ strayed' = IF fails \/ offset = pos.index THEN strayed ELSE ~Scanning!FromStart(offset)
  BY Zenon DEF Scanning!Seek
<1> HIDE DEF offset, way
<1>4. ASSUME NEW from \in Scanning!Places, NEW w  PROVE Scanning!Counted(from, offset, w) \in Scanning!Places \cup {Absent}
  <2>1. Scanning!Size + 2 \in 0 .. Scanning!Size + 2
    BY NewlinesAre
  <2>2. \A i \in 0 .. Scanning!Size + 2 : Scanning!Turns(from, offset, w)[i] \in Scanning!Places \cup {Absent}
    BY <1>2, TurnsAre
  <2> QED
    BY <2>1, <2>2 DEF Scanning!Counted
<1>5. p \in Scanning!Places \cup {Absent}
  <2>1. Scanning!At(0, 1, 0) \in Scanning!Places
    BY StartIsExact
  <2> QED
    BY <1>1, <1>4, <2>1
<1>6. fresh => Scanning!Exact(p)
  BY <1>2, CountIsExact
<1>7. CASE fails
  <2>1. pos' = pos /\ strayed' = strayed
    BY <1>3, <1>7, Zenon
  <2> QED
    BY <1>1, <2>1
<1>8. CASE ~fails /\ offset = pos.index
  <2>1. pos' = p /\ strayed' = strayed /\ ~fresh
    BY <1>3, <1>8, Zenon
  <2>2. p = pos
    <3> DEFINE n == Scanning!Size + 2
               g == Scanning!Turns(pos, offset, way)
               Q == {i \in 0 .. n : g[i] = pos}
    <3>1. n \in Nat
      BY NewlinesAre
    <3>2. g[0] = pos /\ \A i \in 1 .. n : g[i] = Scanning!Turn(g[i - 1], offset, way)
      <4>1. ASSUME NEW from \in Scanning!Places, NEW w
            PROVE  /\ Scanning!Turns(from, offset, w)[0] = from
                   /\ \A i \in 1 .. n : Scanning!Turns(from, offset, w)[i]
                                          = Scanning!Turn(Scanning!Turns(from, offset, w)[i - 1], offset, w)
        BY <1>2, TurnsAre
      <4> QED
        BY <1>1, <4>1, Zenon
    <3>3. Scanning!Turn(pos, offset, way) = pos
      BY <1>8 DEF Scanning!Turn
    <3> HIDE DEF g, n
    <3>4. 0 \in Q /\ \A i \in 1 .. n : i - 1 \in Q => i \in Q
      BY <3>1, <3>2, <3>3
    <3>5. n \in Q
      <4> HIDE DEF Q
      <4>1. n \in 0 .. n
        BY <3>1
      <4> QED
        BY <3>1, <3>4, <4>1, UpTo
    <3> QED
      BY <2>1, <3>5 DEF Scanning!Counted, g, n
  <2> QED
    BY <1>1, <2>1, <2>2
<1>9. CASE ~fails /\ offset # pos.index
  <2>1. pos' = p /\ (~strayed' => Scanning!FromStart(offset))
    BY <1>3, <1>9, Zenon
  <2>2. p \in Scanning!Places
    BY <1>5, <1>9
  <2> QED
    BY <1>6, <1>9, <2>1, <2>2
<1> QED
  BY <1>7, <1>8, <1>9

LEMMA ScannerStep == Scanning!TextsAreTexts /\ Scanning!IInv /\ [Scanning!Next]_(Scanning!vars) => Scanning!IInv'
<1> SUFFICES ASSUME Scanning!TextsAreTexts, Scanning!IInv, [Scanning!Next]_(Scanning!vars)  PROVE Scanning!IInv'
  OBVIOUS
<1>1. text \in Seq(BOOLEAN)
  BY DEF Scanning!TextsAreTexts, Scanning!IInv
<1>2. ASSUME Scanning!NextChar \/ Scanning!ReadLine \/ (\E n \in Steps : Scanning!Match(n))
               \/ \E to \in -1 .. Scanning!Size + 2 : Scanning!Seek(to)
      PROVE  Scanning!IInv'
  <2>1. UNCHANGED <<text, cursor>>
    BY <1>2 DEF Scanning!NextChar, Scanning!ReadLine, Scanning!Match, Scanning!Seek
  <2>2. pos' \in Scanning!Places /\ (~strayed' => Scanning!Exact(pos'))
    <3>1. ASSUME NEW n \in Steps, Scanning!Match(n)  PROVE pos' \in Scanning!Places /\ (~strayed' => Scanning!Exact(pos'))
      <4>1. n \in Nat
        BY DEF Scanning!TextsAreTexts
      <4> QED
        BY <1>1, <3>1, <4>1, MatchIsExact
    <3>2. ASSUME NEW to \in -1 .. Scanning!Size + 2, Scanning!Seek(to)
          PROVE  pos' \in Scanning!Places /\ (~strayed' => Scanning!Exact(pos'))
      <4>1. to \in Int
        BY <1>1, NewlinesAre
      <4> QED
        BY <1>1, <3>2, <4>1, SeekIsExact
    <3> QED
      BY <1>1, <1>2, <3>1, <3>2, NextCharIsExact, ReadLineIsExact
  <2> QED
    BY <2>1, <2>2, ScannerMoves
<1>3. CASE Scanning!Save
  <2>1. UNCHANGED <<text, pos, strayed>> /\ cursor'.at = pos /\ (cursor'.strayed <=> strayed)
    BY <1>3 DEF Scanning!Save
  <2>2. Scanning!Exact(pos)' <=> Scanning!Exact(pos)
    BY <2>1 DEF Scanning!Exact, Scanning!RFind, Scanning!Newlines, Scanning!Size
  <2>3. cursor'.at = pos' /\ pos' \in Scanning!Places /\ text' \in Texts /\ (~strayed' => Scanning!Exact(pos)')
    BY <2>1, <2>2 DEF Scanning!IInv
  <2> QED
    BY <2>1, <2>3 DEF Scanning!IInv, Scanning!Exact
<1>4. CASE Scanning!Restore
  <2>1. UNCHANGED <<text, cursor>> /\ cursor # Absent /\ pos' = cursor.at /\ strayed' = cursor.strayed
    BY <1>4 DEF Scanning!Restore
  <2> QED
    BY <2>1, ScannerMoves DEF Scanning!IInv
<1>5. CASE UNCHANGED Scanning!vars
  <2>1. UNCHANGED <<text, cursor, pos, strayed>>
    BY <1>5 DEF Scanning!vars
  <2> QED
    BY <2>1, ScannerMoves DEF Scanning!IInv
<1> QED
  BY <1>2, <1>3, <1>4, <1>5 DEF Scanning!Next

LEMMA ScannerIsExact == Scanning!TextsAreTexts /\ Scanning!IInv => Scanning!PositionIsExact
<1> SUFFICES ASSUME Scanning!TextsAreTexts, Scanning!IInv, ~strayed
             PROVE  Scanning!Exact(pos) /\ Scanning!LineStart(pos) = Scanning!RFind(pos.index) + 1
  BY DEF Scanning!PositionIsExact
<1>1. text \in Seq(BOOLEAN) /\ Scanning!Exact(pos) /\ pos.index \in Nat
  BY DEF Scanning!TextsAreTexts, Scanning!IInv, Scanning!Places
<1>2. pos.colno = pos.index - Scanning!RFind(pos.index) - 1 /\ Scanning!RFind(pos.index) \in Int
  BY <1>1, RFindIs DEF Scanning!Exact
<1> QED
  BY <1>1, <1>2 DEF Scanning!LineStart

-------------------------------------------------------------------------------
(* 6. The tokenizer *)

rules == x1
last == x3
once == x4
config == x5
ref == x6
checkpoint == x7
scopes == x8
still == x9
outcome == x10
loaded == x11
USE DEF rules, last, once, config, ref, checkpoint, scopes, still, outcome, loaded

\* Where one rule can be empty it is the same whenever a token is.
LEMMA OneIsEmpty ==
  ASSUME Tokens!RulesAreRules, rules \in RuleSets, Tokens!OneEmpty,
         NEW i \in Tokens!EmptyRules, NEW j \in Tokens!EmptyRules
  PROVE  i = j /\ rules[i].strings
<1>1. IsFiniteSet(Tokens!EmptyRules)
  <2>1. Tokens!EmptyRules \in SUBSET (DOMAIN rules)
    BY DEF Tokens!EmptyRules
  <2>2. Tokens!IsFiniteSet(DOMAIN rules)
    BY DEF Tokens!RulesAreRules
  <2>3. IsFiniteSet(DOMAIN rules)
    BY <2>2 DEF Tokens!IsFiniteSet, IsFiniteSet
  <2> QED
    BY <2>1, <2>3, FS_Subset
<1>2. Tokens!Cardinality(Tokens!EmptyRules) = Cardinality(Tokens!EmptyRules)
  BY DEF Tokens!Cardinality, Cardinality
<1> DEFINE E == Tokens!EmptyRules
           c == Cardinality(E)
<1>3. c \in Nat /\ c <= 1
  <2>1. c \in Nat
    BY <1>1, FS_CardinalityType
  <2>2. c <= 1
    BY <1>2 DEF Tokens!OneEmpty
  <2> QED
    BY <2>1, <2>2
<1>4. i = j
  <2>1. c # 0
    BY <1>1, FS_EmptySet
  <2>2. c = 1
    <3> HIDE DEF c
    <3> QED
      BY <1>3, <2>1
  <2>3. \E x : E = {x}
    BY <1>1, <2>2, FS_Singleton
  <2> QED
    BY <2>3
<1> QED
  BY <1>4 DEF Tokens!OneEmpty

\* What is taken at a place: at the end nothing that is skipped, and where nothing moves it
\* is the empty rule's, which was not taken before and is not taken again.
LEMMA ExtractIs ==
  ASSUME Tokens!RulesAreRules, rules \in RuleSets, Tokens!OneEmpty,
         NEW p \in 0 .. TextLength, NEW skipOnce, NEW types
  PROVE  LET e == Tokens!Extract(p, skipOnce, types) IN
         /\ e.pos \in p .. TextLength
         /\ p = TextLength => ~e.skip /\ (e.token # Absent => e.token.type = "eof")
         /\ p # TextLength /\ e.token # Absent /\ e.pos = p =>
              skipOnce \notin Tokens!EmptyRules /\ e.once \in Tokens!EmptyRules
<1> DEFINE e == Tokens!Extract(p, skipOnce, types)
           taking == {i \in DOMAIN rules : rules[i].type \in types /\ i # skipOnce /\ rules[i].takes[p + 1] # Absent}
           i == Tokens!Min(taking)
           n == rules[i].takes[p + 1]
<1>1. TextLength \in Nat /\ p \in Nat /\ p <= TextLength
  BY DEF Tokens!RulesAreRules
<1>2. CASE p = TextLength
  <2>1. e = [token |-> Tokens!Eof(p), skip |-> FALSE, pos |-> p, once |-> skipOnce]
    BY <1>1, <1>2 DEF Tokens!Extract
  <2>2. e.pos = p /\ e.skip = FALSE /\ e.token = Tokens!Eof(p)
    BY <2>1
  <2> QED
    BY <1>1, <1>2, <2>2 DEF Tokens!Eof
<1>3. CASE p # TextLength /\ taking = {}
  <2>1. ~(p >= TextLength)
    BY <1>1, <1>3
  <2>2. e = [token |-> Absent, skip |-> FALSE, pos |-> p, once |-> skipOnce]
    BY <1>3, <2>1 DEF Tokens!Extract
  <2>3. e.pos = p /\ e.token = Absent
    BY <2>2
  <2> QED
    BY <1>1, <1>3, <2>3
<1>4. CASE p # TextLength /\ taking # {}
  <2>1. ~(p >= TextLength) /\ p + 1 \in 1 .. TextLength
    BY <1>1, <1>4
  <2>2. i \in taking
    <3>1. taking \in SUBSET Nat
      BY DEF Tokens!RulesAreRules
    <3> HIDE DEF taking
    <3>2. \E x \in taking : \A y \in taking : x <= y
      BY <1>4, <3>1, Least
    <3> QED
      BY <3>2, Zenon DEF Tokens!Min
  <2> HIDE DEF i
  <2>3. n \in 0 .. TextLength - (p + 1) + 1
    BY <2>1, <2>2 DEF Tokens!RulesAreRules
  <2>4. n \in Nat /\ p + n <= TextLength /\ (n = 0 <=> p + n = p)
    BY <1>1, <2>3
  <2>5. n = 0 => i \in Tokens!EmptyRules
    BY <2>1, <2>2 DEF Tokens!EmptyRules
  <2>6. n = 0 => skipOnce \notin Tokens!EmptyRules /\ rules[i].strings
    BY <2>2, <2>5, OneIsEmpty
  <2>7. e.pos = p + n /\ e.once = IF n = 0 /\ rules[i].strings THEN i ELSE Absent
    <3>1. e = [token |-> [type |-> rules[i].type, from |-> p, to |-> p + n],
               skip |-> Tokens!Get("skipped", rules[i].type, rules[i].skip),
               pos |-> p + n, once |-> IF n = 0 /\ rules[i].strings THEN i ELSE Absent]
      BY <1>4, <2>1, Zenon DEF Tokens!Extract, i
    <3> QED
      BY <3>1
  <2> HIDE DEF n, e
  <2>8. e.pos \in p .. TextLength
    BY <1>1, <2>4, <2>7
  <2>9. e.pos = p => skipOnce \notin Tokens!EmptyRules /\ e.once \in Tokens!EmptyRules
    BY <2>4, <2>5, <2>6, <2>7
  <2> QED
    BY <1>4, <2>8, <2>9 DEF e
<1> QED
  BY <1>2, <1>3, <1>4

\* An attempt is a token that was extracted, or none; it goes on only after one it skips.
LEMMA AttemptIs ==
  ASSUME NEW p, NEW skipOnce, NEW select, NEW expect
  PROVE  LET a == Tokens!Attempt(p, skipOnce, select, expect) IN
         \E types : LET e == Tokens!Extract(p, skipOnce, types) IN
           /\ a.x = e
           /\ a.outcome = "again" => e.token # Absent /\ e.skip
           /\ a.outcome = "token" => e.token # Absent
           /\ a.outcome \in {"again", "token", "TokenizationError", "UnexpectedTokenError"}
<1> DEFINE active == {t \in Tokens!Types : ~Tokens!Get("ignored", t, FALSE)}
           one == IF select = Absent THEN active ELSE select
           two == active \ select
           first == Tokens!Extract(p, skipOnce, one)
           second == Tokens!Extract(p, skipOnce, two)
           Expected(x) == expect = Absent \/ x.token.type \in expect
           Result(x) == [x |-> x, outcome |-> IF x.token = Absent THEN "TokenizationError"
                                              ELSE IF Expected(x) THEN "token" ELSE "UnexpectedTokenError"]
           Again(x) == [x |-> x, outcome |-> "again"]
           a == Tokens!Attempt(p, skipOnce, select, expect)
<1>1. a = IF first.token = Absent /\ select # Absent
          THEN IF second.token # Absent /\ second.skip THEN Again(second) ELSE Result(second)
          ELSE IF first.token # Absent /\ first.skip /\ (expect = Absent \/ ~Expected(first)) THEN Again(first)
          ELSE Result(first)
  BY Zenon DEF Tokens!Attempt
<1> DEFINE Good(r, e) ==
             /\ r.x = e
             /\ r.outcome = "again" => e.token # Absent /\ e.skip
             /\ r.outcome = "token" => e.token # Absent
             /\ r.outcome \in {"again", "token", "TokenizationError", "UnexpectedTokenError"}
<1> HIDE DEF first, second, a
<1>2. ASSUME NEW x  PROVE Good(Result(x), x)
  <2> DEFINE how == IF x.token = Absent THEN "TokenizationError"
                    ELSE IF Expected(x) THEN "token" ELSE "UnexpectedTokenError"
  <2>1. how \in {"token", "TokenizationError", "UnexpectedTokenError"} /\ (how = "token" => x.token # Absent)
    OBVIOUS
  <2>2. Result(x).x = x /\ Result(x).outcome = how
    OBVIOUS
  <2> HIDE DEF Result, how
  <2> QED
    BY <2>1, <2>2
<1>3. ASSUME NEW x, x.token # Absent, x.skip  PROVE Good(Again(x), x)
  BY <1>3
<1> HIDE DEF Result, Again, Good
<1>4. Good(a, first) \/ Good(a, second)
  <2>1. \/ a = Result(first) \/ a = Result(second)
        \/ a = Again(first) /\ first.token # Absent /\ first.skip
        \/ a = Again(second) /\ second.token # Absent /\ second.skip
    BY <1>1
  <2> QED
    BY <1>2, <1>3, <2>1
<1> QED
  BY <1>4 DEF Good, first, second, a

\* The attempts are what they say.
LEMMA AttemptsAre ==
  ASSUME MaxRecursion \in Nat, NEW select, NEW expect
  PROVE  LET r == Tokens!Attempts(select, expect) IN
         /\ r[0] = Tokens!Begin
         /\ \A i \in 1 .. MaxRecursion + 1 : r[i] = Tokens!Goes(r[i - 1], select, expect)
<1> DEFINE n == MaxRecursion + 1
           Good(f, k) == DOMAIN f = 0 .. n /\ f[0] = Tokens!Begin
                         /\ \A i \in 1 .. k : f[i] = Tokens!Goes(f[i - 1], select, expect)
           Is(f) == f = [i \in 0 .. n |-> IF i = 0 THEN Tokens!Begin ELSE Tokens!Goes(f[i - 1], select, expect)]
           Q == {k \in 0 .. n : \E f : Good(f, k)}
<1>1. 0 \in Q
  <2>1. Good([i \in 0 .. n |-> Tokens!Begin], 0)
    OBVIOUS
  <2> HIDE DEF Good
  <2> QED
    BY <2>1
<1>2. ASSUME NEW k \in 1 .. n, k - 1 \in Q  PROVE  k \in Q
  <2>1. PICK f : Good(f, k - 1)
    BY <1>2
  <2> DEFINE g == [i \in 0 .. n |-> IF i = k THEN Tokens!Goes(f[k - 1], select, expect) ELSE f[i]]
  <2>2. \A i \in 1 .. k : i - 1 \in 0 .. n /\ i - 1 # k /\ i \in 0 .. n /\ (i # k => i \in 1 .. k - 1)
    OBVIOUS
  <2>3. DOMAIN g = 0 .. n /\ g[0] = Tokens!Begin
    BY <2>1
  <2>4. \A i \in 1 .. k : g[i] = Tokens!Goes(g[i - 1], select, expect)
    BY <2>1, <2>2
  <2> HIDE DEF g
  <2>5. Good(g, k)
    BY <2>3, <2>4
  <2> HIDE DEF Good
  <2> QED
    BY <2>5
<1>3. n \in Q
  <2>1. n \in Nat /\ n \in 0 .. n
    OBVIOUS
  <2> HIDE DEF Q, n
  <2>2. \A k \in 1 .. n : k - 1 \in Q => k \in Q
    BY <1>2
  <2> QED
    BY <1>1, <2>1, <2>2, UpTo
<1>4. PICK f : Good(f, n)
  BY <1>3
<1>5. \A i \in 0 .. n : i # 0 => i \in 1 .. n
  OBVIOUS
<1>6. Is([i \in 0 .. n |-> f[i]])
  BY <1>4, <1>5
<1>7. Is(Tokens!Attempts(select, expect))
  <2>1. Tokens!Attempts(select, expect) = CHOOSE x : Is(x)
    BY DEF Tokens!Attempts
  <2> HIDE DEF Is
  <2> QED
    BY <1>6, <2>1
<1>8. ASSUME NEW g, Is(g)
      PROVE  g[0] = Tokens!Begin /\ \A i \in 1 .. n : g[i] = Tokens!Goes(g[i - 1], select, expect)
  <2> DEFINE F(i) == IF i = 0 THEN Tokens!Begin ELSE Tokens!Goes(g[i - 1], select, expect)
  <2>1. g = [i \in 0 .. n |-> F(i)]
    BY <1>8
  <2>2. F(0) = Tokens!Begin
        /\ \A i \in 1 .. n : i \in 0 .. n /\ F(i) = Tokens!Goes(g[i - 1], select, expect)
    OBVIOUS
  <2> HIDE DEF F
  <2> QED
    BY <2>1, <2>2
<1> QED
  BY <1>7, <1>8

\* The characters that are left, twice, and one for something empty before the next one: it
\* is less after each attempt.
Left(x) == 2 * (TextLength - x.pos) + (IF x.once \in Tokens!EmptyRules THEN 0 ELSE 1)
Along(r, i) ==
  /\ r.x.pos \in pos .. TextLength
  /\ r.outcome = "again" =>
       /\ i <= 2 * TextLength /\ Left(r.x) + i <= 2 * TextLength + 1
       /\ r.x.pos = pos => \/ r.x.once = once
                           \/ once \notin Tokens!EmptyRules /\ r.x.once \in Tokens!EmptyRules
  /\ r.outcome = "token" /\ r.x.pos = pos /\ r.x.token.type # "eof" =>
       once \notin Tokens!EmptyRules /\ r.x.once \in Tokens!EmptyRules
  /\ r.outcome # "RecursionError"

LEMMA GoesAlong ==
  ASSUME Tokens!RulesAreRules, rules \in RuleSets, Tokens!OneEmpty, pos \in 0 .. TextLength,
         NEW select, NEW expect, NEW r, NEW i \in Nat, Along(r, i)
  PROVE  Along(Tokens!Goes(r, select, expect), i + 1)
<1> DEFINE E == Tokens!EmptyRules
           p == r.x.pos
           skipOnce == r.x.once
           a == Tokens!Attempt(p, skipOnce, select, expect)
<1>1. TextLength \in Nat /\ pos \in Nat /\ p \in 0 .. TextLength /\ p \in Nat /\ pos <= p /\ p <= TextLength
  BY DEF Tokens!RulesAreRules, Along
<1>2. CASE r.outcome # "again"
  <2>1. Tokens!Goes(r, select, expect) = r
    BY <1>2 DEF Tokens!Goes
  <2> QED
    BY <1>2, <2>1 DEF Along
<1>3. CASE r.outcome = "again"
  <2>1. Tokens!Goes(r, select, expect) = a
    BY <1>3 DEF Tokens!Goes
  <2>2. PICK types : LET e == Tokens!Extract(p, skipOnce, types) IN
           /\ a.x = e
           /\ a.outcome = "again" => e.token # Absent /\ e.skip
           /\ a.outcome = "token" => e.token # Absent
           /\ a.outcome \in {"again", "token", "TokenizationError", "UnexpectedTokenError"}
    BY AttemptIs
  <2> DEFINE e == Tokens!Extract(p, skipOnce, types)
             before == IF skipOnce \in E THEN 0 ELSE 1
             after == IF e.once \in E THEN 0 ELSE 1
             at == e.pos
  <2>3. /\ e.pos \in p .. TextLength
        /\ p = TextLength => ~e.skip /\ (e.token # Absent => e.token.type = "eof")
        /\ p # TextLength /\ e.token # Absent /\ e.pos = p => skipOnce \notin E /\ e.once \in E
    BY <1>1, ExtractIs
  <2>4. /\ i <= 2 * TextLength /\ 2 * (TextLength - p) + before + i <= 2 * TextLength + 1
        /\ p = pos => skipOnce = once \/ (once \notin E /\ skipOnce \in E)
    BY <1>3, Zenon DEF Along, Left
  <2>5. at \in Nat /\ p <= at /\ at <= TextLength /\ before \in 0 .. 1 /\ after \in 0 .. 1
    BY <1>1, <2>3
  <2>6. at \in pos .. TextLength
    BY <1>1, <2>5
  <2>7. ASSUME at = pos, e.token # Absent, p # TextLength  PROVE  once \notin E /\ e.once \in E
    <3>1. p = pos
      BY <1>1, <2>5, <2>7
    <3> QED
      BY <2>3, <2>4, <2>7, <3>1
  <2>8. ASSUME a.outcome = "again"
        PROVE  i + 1 <= 2 * TextLength /\ 2 * (TextLength - at) + after + (i + 1) <= 2 * TextLength + 1
    <3>1. p # TextLength /\ e.token # Absent
      BY <2>2, <2>3, <2>8
    <3>2. at = p => before = 1 /\ after = 0
      BY <2>3, <3>1
    <3> HIDE DEF at, before, after, p
    <3> QED
      BY <1>1, <2>4, <2>5, <3>1, <3>2
  <2>9. a.x = e /\ a.outcome # "RecursionError"
    BY <2>2
  <2>10. ASSUME a.outcome = "again", at = pos  PROVE once \notin E /\ e.once \in E
    <3>1. p # TextLength /\ e.token # Absent
      BY <2>2, <2>3, <2>10
    <3> QED
      BY <2>7, <2>10, <3>1
  <2>11. ASSUME a.outcome = "token", at = pos, e.token.type # "eof"  PROVE once \notin E /\ e.once \in E
    <3>1. p # TextLength /\ e.token # Absent
      BY <2>2, <2>3, <2>11
    <3> QED
      BY <2>7, <2>11, <3>1
  <2> HIDE DEF a, e, E
  <2>12. Along(a, i + 1)
    BY <2>6, <2>8, <2>9, <2>10, <2>11 DEF Along, Left, E
  <2> QED
    BY <2>1, <2>12
<1> QED
  BY <1>2, <1>3

\* A call of next() comes to its end, and has moved on unless it is the empty rule's turn.
LEMMA DoNextIs ==
  ASSUME Tokens!RulesAreRules, rules \in RuleSets, Tokens!OneEmpty, pos \in 0 .. TextLength,
         NEW select, NEW expect
  PROVE  LET r == Tokens!DoNext(select, expect) IN
         /\ r.x.pos \in pos .. TextLength /\ r.outcome # "RecursionError"
         /\ r.outcome = "token" /\ r.x.pos = pos /\ r.x.token.type # "eof" =>
              once \notin Tokens!EmptyRules /\ r.x.once \in Tokens!EmptyRules
<1> DEFINE n == MaxRecursion + 1
           f == Tokens!Attempts(select, expect)
           Q == {i \in 0 .. n : Along(f[i], i)}
<1>1. TextLength \in Nat /\ MaxRecursion \in Nat /\ MaxRecursion >= 2 * TextLength
  BY DEF Tokens!RulesAreRules
<1>2. f[0] = Tokens!Begin /\ \A i \in 1 .. n : f[i] = Tokens!Goes(f[i - 1], select, expect)
  BY <1>1, AttemptsAre
<1>3. n \in Nat /\ 0 \in 0 .. n /\ n \in 0 .. n /\ ~(n <= 2 * TextLength)
  BY <1>1
<1> HIDE DEF f, n
<1>4. Along(f[0], 0)
  <2> DEFINE b == Tokens!Begin
             one == IF once \in Tokens!EmptyRules THEN 0 ELSE 1
  <2>1. b.x.pos = pos /\ b.x.once = once /\ b.outcome = "again"
    BY DEF Tokens!Begin
  <2>2. pos \in pos .. TextLength /\ one \in 0 .. 1
    BY <1>1
  <2> HIDE DEF b, one
  <2>3. 0 <= 2 * TextLength /\ 2 * (TextLength - pos) + one + 0 <= 2 * TextLength + 1
    BY <1>1, <2>2
  <2>4. Left(b.x) = 2 * (TextLength - pos) + one
    BY <2>1 DEF Left, one
  <2>5. Along(b, 0)
    BY <2>1, <2>2, <2>3, <2>4 DEF Along
  <2> QED
    BY <1>2, <2>5 DEF b
<1>5. \A i \in 1 .. n : i - 1 \in Q => i \in Q
  <2> SUFFICES ASSUME NEW i \in 1 .. n, Along(f[i - 1], i - 1)  PROVE Along(f[i], i)
    BY <1>3
  <2> DEFINE j == i - 1
  <2>1. j \in Nat /\ j + 1 = i
    BY <1>3
  <2> HIDE DEF j
  <2>2. Along(Tokens!Goes(f[j], select, expect), j + 1)
    <3>1. Along(f[j], j)
      BY DEF j
    <3> QED
      BY <2>1, <3>1, GoesAlong
  <2> QED
    BY <1>2, <2>1, <2>2 DEF j
<1>6. Along(f[n], n)
  <2>1. 0 \in Q
    BY <1>3, <1>4
  <2> HIDE DEF Q
  <2>2. n \in Q
    BY <1>3, <1>5, <2>1, UpTo
  <2> QED
    BY <2>2 DEF Q
<1> DEFINE r == f[n]
<1> HIDE DEF r
<1>7. r.outcome # "again" /\ Along(r, n)
  BY <1>3, <1>6 DEF Along, r
<1>8. Tokens!DoNext(select, expect) = r
  BY <1>7, Zenon DEF Tokens!DoNext, r, f, n
<1> QED
  BY <1>7, <1>8 DEF Along

\* One flag is set, and nothing else of the configurations.
LEMMA SetsOne ==
  ASSUME NEW K, NEW T, NEW V, NEW s \in Seq([K -> [T -> V]]), NEW i \in DOMAIN s,
         NEW k \in K, NEW t \in T, NEW v \in V
  PROVE  LET u == [s EXCEPT ![i][k][t] = v] IN
         /\ u \in Seq([K -> [T -> V]]) /\ DOMAIN u = DOMAIN s /\ \A j \in DOMAIN s : j # i => u[j] = s[j]
         /\ \A a \in K, b \in T : u[i][a][b] = IF a = k /\ b = t THEN v ELSE s[i][a][b]
<1> DEFINE F == [K -> [T -> V]]
           was == s[i]
           now1 == [was EXCEPT ![k][t] = v]
           u == [s EXCEPT ![i][k][t] = v]
<1>1. was \in F
  OBVIOUS
<1> HIDE DEF was
<1>2. now1 \in F /\ \A a \in K, b \in T : now1[a][b] = IF a = k /\ b = t THEN v ELSE was[a][b]
  BY <1>1
<1>3. u = [s EXCEPT ![i] = now1]
  BY DEF was
<1> HIDE DEF now1, u, F
<1>4. u \in Seq(F) /\ DOMAIN u = DOMAIN s /\ u[i] = now1 /\ \A j \in DOMAIN s : j # i => u[j] = s[j]
  BY <1>2, <1>3 DEF F
<1> QED
  BY <1>2, <1>4 DEF was, u, F

LEMMA RulesStay ==
  ASSUME rules' = rules
  PROVE  /\ Tokens!Types' = Tokens!Types /\ Tokens!EmptyRules' = Tokens!EmptyRules
         /\ Tokens!OneEmpty' <=> Tokens!OneEmpty
<1>1. Tokens!Types' = Tokens!Types /\ Tokens!EmptyRules' = Tokens!EmptyRules
  BY DEF Tokens!Types, Tokens!EmptyRules
<1> QED
  BY <1>1 DEF Tokens!OneEmpty

\* What does not touch the configurations keeps what is known of them.
Configured ==
  /\ rules \in RuleSets /\ config \in Seq([Tokens!Kinds -> [Tokens!Types -> Tokens!Flags]])
  /\ scopes \in Seq(Tokens!Scopes)
  /\ 1 \in DOMAIN config /\ ref \in DOMAIN config
  /\ checkpoint # Absent => checkpoint.ref \in DOMAIN config
  /\ \A i \in DOMAIN scopes : scopes[i].ref \in DOMAIN config
  /\ ~loaded => /\ ref = 1 /\ \A i \in DOMAIN scopes : scopes[i].ref = 1
                /\ checkpoint # Absent => checkpoint.ref # 1 /\ config[checkpoint.ref] = checkpoint.config
                /\ Tokens!FoundNothing

LEMMA TokensInv == Tokens!IInv <=> Configured /\ (Tokens!OneEmpty => Tokens!MovesOn)
BY DEF Tokens!IInv, Configured

LEMMA ConfigStays ==
  ASSUME Configured, UNCHANGED <<rules, config, scopes>>,
         \/ UNCHANGED <<ref, checkpoint, loaded>>
         \/ checkpoint # Absent /\ ref' = checkpoint.ref /\ checkpoint' = checkpoint /\ loaded' = TRUE
  PROVE  Configured'
<1>1. Tokens!Types' = Tokens!Types
  BY RulesStay
<1>2. Tokens!FoundNothing' <=> Tokens!FoundNothing
  BY <1>1 DEF Tokens!FoundNothing, Tokens!Sets, Tokens!First
<1>3. Tokens!Scopes' = Tokens!Scopes
  BY <1>1 DEF Tokens!Scopes
<1> QED
  BY <1>1, <1>2, <1>3 DEF Configured

LEMMA InitTokens == Tokens!RulesAreRules /\ Tokens!Init => Tokens!IInv
<1> SUFFICES ASSUME Tokens!RulesAreRules, Tokens!Init  PROVE Tokens!IInv
  OBVIOUS
<1>1. Tokens!OneEmpty => Tokens!MovesOn
  BY DEF Tokens!Init, Tokens!MovesOn, Tokens!RulesAreRules
<1> DEFINE c == Tokens!Unset
           F == [Tokens!Kinds -> [Tokens!Types -> Tokens!Flags]]
<1>2. c \in F /\ \A kind \in Tokens!Kinds, type \in Tokens!Types : c[kind][type] = Absent
  BY DEF Tokens!Unset, Tokens!Flags
<1>3. rules \in RuleSets /\ config = <<c>> /\ ref = 1 /\ checkpoint = Absent /\ scopes = <<>> /\ loaded = FALSE
  BY DEF Tokens!Init
<1> HIDE DEF c, F
<1>4. config \in Seq(F) /\ DOMAIN config = {1} /\ config[1] = c
  BY <1>2, <1>3
<1>5. scopes \in Seq(Tokens!Scopes) /\ DOMAIN scopes = {}
  BY <1>3
<1>6. Tokens!FoundNothing
  BY <1>2, <1>4, <1>5 DEF Tokens!FoundNothing
<1>7. Configured
  BY <1>3, <1>4, <1>5, <1>6 DEF Configured, F
<1> QED
  BY <1>1, <1>7, TokensInv

LEMMA NextTokenKeeps ==
  ASSUME Tokens!RulesAreRules, Tokens!IInv, NEW select, NEW unselect, NEW expect,
         Tokens!NextToken(select, unselect, expect)
  PROVE  Tokens!IInv'
<1> DEFINE sel == IF unselect # Absent THEN Tokens!Types \ unselect ELSE select
           exp == IF sel = Absent THEN expect ELSE IF expect = Absent THEN sel ELSE expect \cup sel
           r == Tokens!DoNext(sel, exp)
           two == Tokens!Min({still + 1, 2})
<1>1. Configured'
  <2>1. UNCHANGED <<rules, config, ref, scopes, checkpoint, loaded>>
    BY DEF Tokens!NextToken
  <2> QED
    BY <2>1, ConfigStays, TokensInv
<1>2. /\ pos' = r.x.pos /\ once' = r.x.once /\ outcome' = r.outcome /\ UNCHANGED <<rules, checkpoint>>
      /\ still' = IF r.x.pos > pos \/ r.outcome # "token" \/ r.x.token.type = "eof" THEN 0 ELSE two
  BY Zenon DEF Tokens!NextToken
<1>3. ASSUME Tokens!OneEmpty'  PROVE Tokens!MovesOn'
  <2>1. Tokens!OneEmpty /\ Tokens!EmptyRules' = Tokens!EmptyRules
    BY <1>2, <1>3, RulesStay
  <2>2. /\ pos \in 0 .. TextLength /\ (checkpoint # Absent => checkpoint.pos \in 0 .. TextLength)
        /\ still \in 0 .. 1 /\ (still = 1 => once \in Tokens!EmptyRules)
    BY <2>1 DEF Tokens!IInv, Tokens!MovesOn
  <2>3. rules \in RuleSets /\ TextLength \in Nat
    BY DEF Tokens!IInv, Tokens!RulesAreRules
  <2>4. /\ r.x.pos \in pos .. TextLength /\ r.outcome # "RecursionError"
        /\ r.outcome = "token" /\ r.x.pos = pos /\ r.x.token.type # "eof" =>
             once \notin Tokens!EmptyRules /\ r.x.once \in Tokens!EmptyRules
    <3>1. ASSUME NEW s, NEW x
          PROVE  LET d == Tokens!DoNext(s, x) IN
                 /\ d.x.pos \in pos .. TextLength /\ d.outcome # "RecursionError"
                 /\ d.outcome = "token" /\ d.x.pos = pos /\ d.x.token.type # "eof" =>
                      once \notin Tokens!EmptyRules /\ d.x.once \in Tokens!EmptyRules
      BY <2>1, <2>2, <2>3, DoNextIs
    <3> HIDE DEF sel, exp
    <3> QED
      BY <3>1, Zenon
  <2> HIDE DEF r
  <2>5. pos' \in 0 .. TextLength
    BY <1>2, <2>2, <2>3, <2>4
  <2>6. CASE r.x.pos > pos \/ r.outcome # "token" \/ r.x.token.type = "eof"
    <3>1. still' = 0
      BY <1>2, <2>6, Zenon
    <3> QED
      BY <1>2, <2>1, <2>2, <2>4, <2>5, <3>1 DEF Tokens!MovesOn
  <2>7. CASE ~(r.x.pos > pos \/ r.outcome # "token" \/ r.x.token.type = "eof")
    <3>1. r.x.pos = pos
      BY <2>2, <2>3, <2>4, <2>7
    <3>2. once \notin Tokens!EmptyRules /\ r.x.once \in Tokens!EmptyRules
      BY <2>4, <2>7, <3>1
    <3>3. still = 0
      BY <2>2, <3>2
    <3>4. two = 1
      <4>1. 1 \in {still + 1, 2} /\ \A y \in {still + 1, 2} : 1 <= y
        BY <3>3
      <4>2. two \in {still + 1, 2} /\ \A y \in {still + 1, 2} : two <= y
        BY <4>1, Zenon DEF Tokens!Min
      <4> HIDE DEF two
      <4>3. two <= 1
        BY <4>1, <4>2
      <4> QED
        BY <3>3, <4>2, <4>3
    <3>5. still' = 1
      BY <1>2, <2>7, <3>4, Zenon
    <3> QED
      BY <1>2, <2>1, <2>2, <2>4, <2>5, <3>2, <3>5 DEF Tokens!MovesOn
  <2> QED
    BY <2>6, <2>7
<1>4. Tokens!IInv' <=> Configured' /\ (Tokens!OneEmpty' => Tokens!MovesOn')
  BY DEF Tokens!IInv, Configured
<1> QED
  BY <1>1, <1>3, <1>4

\* What does not move the tokenizer keeps what is known of its moves.
LEMMA MovesStay ==
  ASSUME Tokens!IInv, Configured', UNCHANGED <<rules, pos, once, still, outcome>>,
         checkpoint' = checkpoint \/ checkpoint'.pos = pos
  PROVE  Tokens!IInv'
<1>1. ASSUME Tokens!OneEmpty'  PROVE Tokens!MovesOn'
  <2>1. Tokens!OneEmpty /\ Tokens!EmptyRules' = Tokens!EmptyRules
    BY <1>1, RulesStay
  <2> QED
    BY <2>1 DEF Tokens!IInv, Tokens!MovesOn
<1>2. Tokens!IInv' <=> Configured' /\ (Tokens!OneEmpty' => Tokens!MovesOn')
  BY DEF Tokens!IInv, Configured
<1> QED
  BY <1>1, <1>2

LEMMA LoadKeeps ==
  ASSUME Tokens!IInv, Tokens!Load  PROVE Tokens!IInv'
<1>1. /\ checkpoint # Absent /\ pos' = checkpoint.pos /\ ref' = checkpoint.ref /\ loaded' = TRUE
      /\ still' = 0 /\ UNCHANGED <<rules, config, checkpoint, scopes, outcome>>
  BY DEF Tokens!Load
<1>2. Configured'
  BY <1>1, ConfigStays, TokensInv
<1>3. ASSUME Tokens!OneEmpty'  PROVE Tokens!MovesOn'
  <2>1. Tokens!OneEmpty
    BY <1>1, <1>3, RulesStay
  <2> QED
    BY <1>1, <2>1 DEF Tokens!IInv, Tokens!MovesOn
<1>4. Tokens!IInv' <=> Configured' /\ (Tokens!OneEmpty' => Tokens!MovesOn')
  BY DEF Tokens!IInv, Configured
<1> QED
  BY <1>2, <1>3, <1>4

LEMMA SaveKeeps ==
  ASSUME Tokens!IInv, Tokens!Save  PROVE Tokens!IInv'
<1> DEFINE F == [Tokens!Kinds -> [Tokens!Types -> Tokens!Flags]]
           n == Len(config)
<1>1. UNCHANGED <<rules, pos, once, still, outcome, ref, scopes, loaded>>
  BY DEF Tokens!Save, Tokens!tokenVars
<1>2. checkpoint'.pos = pos /\ checkpoint'.ref = n + 1 /\ checkpoint'.config = config[ref]
  BY DEF Tokens!Save, Tokens!Checkpoint
<1>3. config' = Append(config, config[ref])
  BY DEF Tokens!Save
<1>4. Configured /\ config \in Seq(F) /\ ref \in DOMAIN config /\ 1 \in DOMAIN config
  BY TokensInv DEF Configured
<1> HIDE DEF F
<1>5. /\ config' \in Seq(F) /\ n \in Nat /\ DOMAIN config = 1 .. n /\ DOMAIN config' = 1 .. n + 1
      /\ config'[n + 1] = config[ref] /\ \A j \in 1 .. n : config'[j] = config[j]
  BY <1>3, <1>4
<1> HIDE DEF n
<1>6. n + 1 \in 1 .. n + 1 /\ 1 \in 1 .. n /\ n + 1 # 1 /\ \A j \in 1 .. n : j \in 1 .. n + 1
  BY <1>4, <1>5
<1>7. Tokens!Types' = Tokens!Types
  BY <1>1, RulesStay
<1>8. config'[1] = config[1]
  BY <1>5, <1>6
<1>9. Tokens!FoundNothing' <=> Tokens!FoundNothing
  BY <1>1, <1>7, <1>8 DEF Tokens!FoundNothing, Tokens!Sets, Tokens!First
<1>10. Tokens!Scopes' = Tokens!Scopes
  BY <1>7 DEF Tokens!Scopes
<1>11. config' \in Seq([Tokens!Kinds -> [Tokens!Types' -> Tokens!Flags]])
  BY <1>5, <1>7 DEF F
<1>12. Configured'
  BY <1>1, <1>2, <1>4, <1>5, <1>6, <1>8, <1>9, <1>10, <1>11 DEF Configured
<1> QED
  BY <1>1, <1>2, <1>12, MovesStay

\* One flag of one configuration: the checkpoint's is another one while it is not loaded.
LEMMA FlagKeeps ==
  ASSUME Configured, UNCHANGED <<rules, ref, checkpoint, loaded>>,
         NEW i \in DOMAIN config, ~loaded => i = 1,
         NEW kind \in Tokens!Kinds, NEW type \in Tokens!Types, NEW value \in Tokens!Flags,
         config' = [config EXCEPT ![i][kind][type] = value],
         scopes' \in Seq(Tokens!Scopes), \A j \in DOMAIN scopes' : scopes'[j].ref \in DOMAIN config,
         ~loaded => (\A j \in DOMAIN scopes' : scopes'[j].ref = 1) /\ Tokens!FoundNothing'
  PROVE  Configured'
<1> DEFINE F == [Tokens!Kinds -> [Tokens!Types -> Tokens!Flags]]
<1>1. config \in Seq(F)
  BY DEF Configured
<1>2. config' \in Seq(F) /\ DOMAIN config' = DOMAIN config /\ \A j \in DOMAIN config : j # i => config'[j] = config[j]
  BY <1>1, SetsOne
<1>3. Tokens!Types' = Tokens!Types /\ Tokens!Scopes' = Tokens!Scopes
  BY RulesStay DEF Tokens!Scopes
<1>4. config' \in Seq([Tokens!Kinds -> [Tokens!Types' -> Tokens!Flags]])
  BY <1>2, <1>3
<1> HIDE DEF F
<1>5. /\ rules' \in RuleSets /\ 1 \in DOMAIN config' /\ ref' \in DOMAIN config'
      /\ checkpoint' # Absent => checkpoint'.ref \in DOMAIN config'
      /\ \A j \in DOMAIN scopes' : scopes'[j].ref \in DOMAIN config'
  BY <1>2 DEF Configured
<1>6. ASSUME ~loaded'
      PROVE  /\ ref' = 1 /\ \A j \in DOMAIN scopes' : scopes'[j].ref = 1
             /\ checkpoint' # Absent => checkpoint'.ref # 1 /\ config'[checkpoint'.ref] = checkpoint'.config
             /\ Tokens!FoundNothing'
  <2>1. ~loaded
    BY <1>6
  <2> QED
    BY <1>2, <2>1 DEF Configured
<1> QED
  BY <1>3, <1>4, <1>5, <1>6 DEF Configured

LEMMA SetKeeps ==
  ASSUME Tokens!IInv, NEW kind \in Tokens!Kinds, NEW type \in Tokens!Types, NEW value \in Tokens!Flags,
         Tokens!SetConfig(kind, type, value)
  PROVE  Tokens!IInv'
<1> DEFINE F == [Tokens!Kinds -> [Tokens!Types -> Tokens!Flags]]
           S == [ref |-> ref, kind |-> kind, type |-> type, old |-> config[ref][kind][type]]
           n == Len(scopes)
<1>1. /\ UNCHANGED <<rules, pos, once, still, outcome, ref, checkpoint, loaded>>
      /\ config' = [config EXCEPT ![ref][kind][type] = value] /\ scopes' = Append(scopes, S)
  BY DEF Tokens!SetConfig, Tokens!tokenVars
<1>2. /\ Configured /\ config \in Seq(F) /\ ref \in DOMAIN config /\ 1 \in DOMAIN config
      /\ scopes \in Seq(Tokens!Scopes) /\ (~loaded => ref = 1)
  BY TokensInv DEF Configured
<1>3. config[ref] \in F /\ config[ref][kind][type] \in Tokens!Flags /\ ref \in Nat
  BY <1>2
<1>4. S \in Tokens!Scopes
  BY <1>3 DEF Tokens!Scopes
<1>5. S.ref = ref /\ S.kind = kind /\ S.type = type /\ S.old = config[ref][kind][type]
  OBVIOUS
<1> HIDE DEF S
<1>6. /\ scopes' \in Seq(Tokens!Scopes) /\ n \in Nat /\ DOMAIN scopes = 1 .. n /\ DOMAIN scopes' = 1 .. n + 1
      /\ scopes'[n + 1] = S /\ \A j \in 1 .. n : scopes'[j] = scopes[j]
  BY <1>1, <1>2, <1>4
<1> HIDE DEF n
<1>7. \A j \in DOMAIN scopes' : j = n + 1 \/ j \in 1 .. n
  BY <1>6
<1>8. \A j \in DOMAIN scopes' : scopes'[j].ref \in DOMAIN config /\ (~loaded => scopes'[j].ref = 1)
  BY <1>2, <1>5, <1>6, <1>7 DEF Configured
<1>9. ASSUME ~loaded  PROVE Tokens!FoundNothing'
  <2>1. Tokens!FoundNothing /\ ref = 1 /\ Tokens!Types' = Tokens!Types
    BY <1>1, <1>2, <1>9, RulesStay DEF Configured
  <2>2. \A k \in Tokens!Kinds, t \in Tokens!Types :
          config'[1][k][t] = IF k = kind /\ t = type THEN value ELSE config[1][k][t]
    <3> DEFINE was == config[ref]
               now1 == [was EXCEPT ![kind][type] = value]
    <3>1. was \in F
      BY <1>2
    <3>2. config'[ref] = now1
      BY <1>1, <1>2
    <3> HIDE DEF was
    <3>3. \A k \in Tokens!Kinds, t \in Tokens!Types :
            now1[k][t] = IF k = kind /\ t = type THEN value ELSE was[k][t]
      BY <3>1
    <3> HIDE DEF now1
    <3> QED
      BY <2>1, <3>2, <3>3 DEF was
  <2>3. ASSUME NEW k \in Tokens!Kinds, NEW t \in Tokens!Types
        PROVE  /\ (\A j \in DOMAIN scopes' : ~(scopes'[j].kind = k /\ scopes'[j].type = t)) => config'[1][k][t] = Absent
               /\ \A i \in DOMAIN scopes' :
                    /\ scopes'[i].kind = k /\ scopes'[i].type = t
                    /\ \A j \in 1 .. i - 1 : ~(scopes'[j].kind = k /\ scopes'[j].type = t)
                    => scopes'[i].old = Absent
    <3>1. /\ (\A j \in 1 .. n : ~(scopes[j].kind = k /\ scopes[j].type = t)) => config[1][k][t] = Absent
          /\ \A i \in 1 .. n : /\ scopes[i].kind = k /\ scopes[i].type = t
                               /\ \A j \in 1 .. i - 1 : ~(scopes[j].kind = k /\ scopes[j].type = t)
                               => scopes[i].old = Absent
      BY <1>6, <2>1 DEF Tokens!FoundNothing, Tokens!First, Tokens!Sets
    <3>2. n + 1 \in DOMAIN scopes' /\ \A j \in 1 .. n : j \in DOMAIN scopes'
      BY <1>6
    <3>3. (\A j \in DOMAIN scopes' : ~(scopes'[j].kind = k /\ scopes'[j].type = t)) => config'[1][k][t] = Absent
      BY <1>5, <1>6, <2>2, <3>1, <3>2
    <3>4. ASSUME NEW i \in 1 .. n, scopes'[i].kind = k /\ scopes'[i].type = t,
                 \A j \in 1 .. i - 1 : ~(scopes'[j].kind = k /\ scopes'[j].type = t)
          PROVE  scopes'[i].old = Absent
      <4>1. \A j \in 1 .. i - 1 : j \in 1 .. n
        BY <1>6
      <4> QED
        BY <1>6, <3>1, <3>4, <4>1
    <3>5. ASSUME scopes'[n + 1].kind = k /\ scopes'[n + 1].type = t,
                 \A j \in 1 .. (n + 1) - 1 : ~(scopes'[j].kind = k /\ scopes'[j].type = t)
          PROVE  scopes'[n + 1].old = Absent
      <4>1. (n + 1) - 1 = n
        BY <1>6
      <4>2. config[1][k][t] = Absent
        BY <1>6, <3>1, <3>5, <4>1
      <4> QED
        BY <1>5, <1>6, <2>1, <3>5, <4>2
    <3> QED
      BY <1>7, <3>3, <3>4, <3>5
  <2> QED
    BY <2>1, <2>3 DEF Tokens!FoundNothing, Tokens!First, Tokens!Sets
<1>10. Configured'
  <2> HIDE DEF F
  <2> QED
    BY <1>1, <1>2, <1>6, <1>8, <1>9, FlagKeeps
<1> QED
  BY <1>1, <1>10, MovesStay

LEMMA RevertKeeps ==
  ASSUME Tokens!IInv, Tokens!Revert  PROVE Tokens!IInv'
<1> DEFINE F == [Tokens!Kinds -> [Tokens!Types -> Tokens!Flags]]
           n == Len(scopes)
           S == scopes[n]
<1>1. /\ UNCHANGED <<rules, pos, once, still, outcome, ref, checkpoint, loaded>>
      /\ config' = [config EXCEPT ![S.ref][S.kind][S.type] = S.old]
      /\ scopes' = SubSeq(scopes, 1, n - 1) /\ scopes # <<>>
  BY DEF Tokens!Revert, Tokens!tokenVars, Tokens!Last, Tokens!Front
<1>2. /\ Configured /\ config \in Seq(F) /\ 1 \in DOMAIN config /\ scopes \in Seq(Tokens!Scopes)
  BY TokensInv DEF Configured
<1>3. n \in Nat /\ n >= 1 /\ DOMAIN scopes = 1 .. n /\ n \in 1 .. n
  BY <1>1, <1>2
<1>4. S \in Tokens!Scopes /\ S.ref \in DOMAIN config /\ (~loaded => S.ref = 1)
  BY <1>2, <1>3 DEF Configured
<1>5. S.kind \in Tokens!Kinds /\ S.type \in Tokens!Types /\ S.old \in Tokens!Flags
  BY <1>4 DEF Tokens!Scopes
<1>6. /\ scopes' \in Seq(Tokens!Scopes) /\ DOMAIN scopes' = 1 .. n - 1
      /\ \A j \in 1 .. n - 1 : scopes'[j] = scopes[j] /\ j \in 1 .. n
  BY <1>1, <1>2, <1>3
<1> HIDE DEF n
<1>7. \A j \in DOMAIN scopes' : scopes'[j].ref \in DOMAIN config /\ (~loaded => scopes'[j].ref = 1)
  BY <1>2, <1>3, <1>6 DEF Configured
<1>8. ASSUME ~loaded  PROVE Tokens!FoundNothing'
  <2>1. Tokens!FoundNothing /\ S.ref = 1 /\ Tokens!Types' = Tokens!Types
    BY <1>1, <1>2, <1>4, <1>8, RulesStay DEF Configured
  <2>2. \A k \in Tokens!Kinds, t \in Tokens!Types :
          config'[1][k][t] = IF k = S.kind /\ t = S.type THEN S.old ELSE config[1][k][t]
    <3> DEFINE i == S.ref
               kind == S.kind
               type == S.type
               value == S.old
               was == config[i]
               now1 == [was EXCEPT ![kind][type] = value]
    <3>1. i \in DOMAIN config /\ i = 1 /\ kind \in Tokens!Kinds /\ type \in Tokens!Types /\ was \in F
      BY <1>2, <1>4, <1>5, <2>1
    <3>2. config'[i] = now1
      <4>1. config' = [config EXCEPT ![i][kind][type] = value]
        BY <1>1
      <4> HIDE DEF i, kind, type, value
      <4> QED
        BY <1>2, <3>1, <4>1
    <3> HIDE DEF i, was, kind, type, value
    <3>3. \A k \in Tokens!Kinds, t \in Tokens!Types :
            now1[k][t] = IF k = kind /\ t = type THEN value ELSE was[k][t]
      BY <3>1
    <3> HIDE DEF now1
    <3> QED
      BY <3>1, <3>2, <3>3 DEF was, kind, type, value
  <2>3. ASSUME NEW k \in Tokens!Kinds, NEW t \in Tokens!Types
        PROVE  /\ (\A j \in DOMAIN scopes' : ~(scopes'[j].kind = k /\ scopes'[j].type = t)) => config'[1][k][t] = Absent
               /\ \A i \in DOMAIN scopes' :
                    /\ scopes'[i].kind = k /\ scopes'[i].type = t
                    /\ \A j \in 1 .. i - 1 : ~(scopes'[j].kind = k /\ scopes'[j].type = t)
                    => scopes'[i].old = Absent
    <3>1. /\ (\A j \in 1 .. n : ~(scopes[j].kind = k /\ scopes[j].type = t)) => config[1][k][t] = Absent
          /\ \A i \in 1 .. n : /\ scopes[i].kind = k /\ scopes[i].type = t
                               /\ \A j \in 1 .. i - 1 : ~(scopes[j].kind = k /\ scopes[j].type = t)
                               => scopes[i].old = Absent
      BY <1>3, <2>1 DEF Tokens!FoundNothing, Tokens!First, Tokens!Sets
    <3>2. ASSUME \A j \in DOMAIN scopes' : ~(scopes'[j].kind = k /\ scopes'[j].type = t)
          PROVE  config'[1][k][t] = Absent
      <4>1. \A j \in 1 .. n - 1 : ~(scopes[j].kind = k /\ scopes[j].type = t)
        BY <1>6, <3>2
      <4>2. CASE S.kind = k /\ S.type = t
        <5>1. S.old = Absent
          BY <1>3, <3>1, <4>1, <4>2
        <5> QED
          BY <2>2, <4>2, <5>1
      <4>3. CASE ~(S.kind = k /\ S.type = t)
        <5>1. \A j \in 1 .. n : j = n \/ j \in 1 .. n - 1
          BY <1>3
        <5>2. config[1][k][t] = Absent
          BY <3>1, <4>1, <4>3, <5>1
        <5> QED
          BY <2>2, <4>3, <5>2
      <4> QED
        BY <4>2, <4>3
    <3>3. ASSUME NEW i \in 1 .. n - 1, scopes'[i].kind = k /\ scopes'[i].type = t,
                 \A j \in 1 .. i - 1 : ~(scopes'[j].kind = k /\ scopes'[j].type = t)
          PROVE  scopes'[i].old = Absent
      <4>1. \A j \in 1 .. i - 1 : j \in 1 .. n - 1
        BY <1>3
      <4> QED
        BY <1>6, <3>1, <3>3, <4>1
    <3> QED
      BY <1>6, <3>2, <3>3
  <2> QED
    BY <2>1, <2>3 DEF Tokens!FoundNothing, Tokens!First, Tokens!Sets
<1>9. Configured'
  <2> HIDE DEF F, S
  <2> QED
    BY <1>1, <1>2, <1>4, <1>5, <1>6, <1>7, <1>8, FlagKeeps
<1> QED
  BY <1>1, <1>9, MovesStay

LEMMA TokensStep == Tokens!RulesAreRules /\ Tokens!IInv /\ [Tokens!Next]_(Tokens!vars) => Tokens!IInv'
<1> SUFFICES ASSUME Tokens!RulesAreRules, Tokens!IInv, [Tokens!Next]_(Tokens!vars)  PROVE Tokens!IInv'
  OBVIOUS
<1>1. CASE \E t \in Tokens!Types : \/ Tokens!SetConfig("ignored", t, TRUE)
                                   \/ \E v \in BOOLEAN : Tokens!SetConfig("skipped", t, v)
  <2>1. "ignored" \in Tokens!Kinds /\ "skipped" \in Tokens!Kinds
    BY DEF Tokens!Kinds
  <2>2. TRUE \in Tokens!Flags /\ \A v \in BOOLEAN : v \in Tokens!Flags
    BY DEF Tokens!Flags
  <2> QED
    BY <1>1, <2>1, <2>2, SetKeeps
<1>2. CASE UNCHANGED Tokens!vars
  <2>1. UNCHANGED <<rules, pos, once, config, ref, checkpoint, scopes, still, outcome, loaded>>
    BY <1>2 DEF Tokens!vars
  <2>2. Configured'
    BY <2>1, ConfigStays, TokensInv
  <2> QED
    BY <2>1, <2>2, MovesStay
<1> QED
  BY <1>1, <1>2, NextTokenKeeps, RevertKeeps, SaveKeeps, LoadKeeps DEF Tokens!Next

LEMMA TokensAreTrue ==
  Tokens!IInv => Tokens!TokensMoveOn /\ Tokens!CheckpointIsKept /\ Tokens!ScopesLeaveNothing
<1> SUFFICES ASSUME Tokens!IInv
             PROVE  Tokens!TokensMoveOn /\ Tokens!CheckpointIsKept /\ Tokens!ScopesLeaveNothing
  OBVIOUS
<1>1. Tokens!TokensMoveOn
  BY DEF Tokens!IInv, Tokens!MovesOn, Tokens!TokensMoveOn
<1>2. Tokens!CheckpointIsKept
  BY DEF Tokens!IInv, Tokens!CheckpointIsKept
<1>3. ASSUME scopes = <<>>, ~loaded  PROVE config[ref] = Tokens!Unset
  <2> DEFINE c == config[1]
  <2>1. ref = 1 /\ c \in [Tokens!Kinds -> [Tokens!Types -> Tokens!Flags]] /\ Tokens!FoundNothing
    BY <1>3 DEF Tokens!IInv
  <2>2. DOMAIN scopes = {}
    BY <1>3
  <2> HIDE DEF c
  <2>3. \A kind \in Tokens!Kinds, type \in Tokens!Types : c[kind][type] = Absent
    BY <2>1, <2>2 DEF Tokens!FoundNothing, c
  <2>4. c = Tokens!Unset
    BY <2>1, <2>3 DEF Tokens!Unset
  <2> QED
    BY <2>1, <2>4 DEF c
<1> QED
  BY <1>1, <1>2, <1>3 DEF Tokens!ScopesLeaveNothing

-------------------------------------------------------------------------------
(* 7. The composition of these *)

ObjectsInv ==
  /\ part = "chaindict" => Chain!IInv
  /\ part = "orderedset" => Ordered!IInv
  /\ part = "scanner" => Scanning!IInv
  /\ part = "tokenizer" => Tokens!IInv
  /\ part = "git" => Repo!AnswersAreTrue
  /\ part = "bundle" => Bundles!IInv

LEMMA InitObjects == ObjectsInit => ObjectsInv
BY ObjectsAssumption, InitChain, InitOrdered, InitScanner, InitTokens, InitGit, InitBundle
   DEF ObjectsInit, ObjectsInv

LEMMA ObjectsStep == ObjectsInv /\ [ObjectsNext]_objectVars => ObjectsInv'
<1> SUFFICES ASSUME ObjectsInv, [ObjectsNext]_objectVars  PROVE ObjectsInv'
  OBVIOUS
<1>1. part' = part
  BY DEF ObjectsNext, objectVars, Keep
<1>2. CASE part = "chaindict"
  <2>1. [Chain!Next]_(Chain!vars)
    BY <1>2 DEF ObjectsNext, objectVars, pool, Chain!vars
  <2> QED
    BY <1>1, <1>2, <2>1, ObjectsAssumption, ChainIsAsMapping DEF ObjectsInv
<1>3. CASE part = "orderedset"
  <2>1. [Ordered!Next]_(Ordered!vars)
    BY <1>3 DEF ObjectsNext, objectVars, pool, Ordered!vars
  <2> QED
    BY <1>1, <1>3, <2>1, ObjectsAssumption, OrderedStep DEF ObjectsInv
<1>4. CASE part = "scanner"
  <2>1. [Scanning!Next]_(Scanning!vars)
    BY <1>4 DEF ObjectsNext, objectVars, pool, Scanning!vars
  <2> QED
    BY <1>1, <1>4, <2>1, ObjectsAssumption, ScannerStep DEF ObjectsInv
<1>5. CASE part = "tokenizer"
  <2>1. [Tokens!Next]_(Tokens!vars)
    BY <1>5 DEF ObjectsNext, objectVars, pool, Tokens!vars
  <2> QED
    BY <1>1, <1>5, <2>1, ObjectsAssumption, TokensStep DEF ObjectsInv
<1>6. CASE part = "git"
  <2>1. [Repo!Next]_(Repo!vars)
    BY <1>6 DEF ObjectsNext, objectVars, pool, Repo!vars
  <2> QED
    BY <1>1, <1>6, <2>1, GitStep DEF ObjectsInv
<1>7. CASE part = "bundle"
  <2>1. [Bundles!Next]_(Bundles!vars)
    BY <1>7 DEF ObjectsNext, objectVars, pool, Bundles!vars
  <2> QED
    BY <1>1, <1>7, <2>1, BundleStep DEF ObjectsInv
<1>8. CASE part \notin {"chaindict", "orderedset", "scanner", "tokenizer", "git", "bundle"}
  BY <1>1, <1>8 DEF ObjectsInv
<1> QED
  BY <1>2, <1>3, <1>4, <1>5, <1>6, <1>7, <1>8

\* The structures of a collection agree through any sequence of calls, for any keys, values
\* and lengths: the written and the deleted keys of a chain of any number of dictionaries,
\* the keys of an ordered set and their places (chaindict.py:40-140, orderedset.py:44-112).
THEOREM CollectionsStayExact == ObjectsSpec => []CollectionsAreExact
<1>1. ObjectsInv => CollectionsAreExact
  BY DEF ObjectsInv, CollectionsAreExact, Chain!IInv, Ordered!IInv
<1> QED
  BY <1>1, InitObjects, ObjectsStep, PTL DEF ObjectsSpec

\* What an object says of something else stays true of it through any mix of calls: for any
\* texts, any rules and any length of text that the recursion limit suffices for, any
\* repositories, modules and times (scanner.py:61-180, tokenizer.py:100-330,
\* git/__init__.py:140-304, bundle.py:560-860).
THEOREM AccountsStayTrue == ObjectsSpec => []AccountsAreTrue
<1>1. ObjectsInv => AccountsAreTrue
  BY ObjectsAssumption, ScannerIsExact, TokensAreTrue, BundleMeans DEF ObjectsInv, AccountsAreTrue
<1> QED
  BY <1>1, InitObjects, ObjectsStep, PTL DEF ObjectsSpec

\* A chain of any number of dictionaries implements the abstract mapping beside the other
\* objects (chaindict.py:40-140).
THEOREM ChainStaysMapping == ObjectsSpec => IsMapping
<1>1. ObjectsInit => (part = "chaindict" => Abstract!Init)
  BY ObjectsAssumption, InitChain DEF ObjectsInit
<1>2. ObjectsInv /\ [ObjectsNext]_objectVars
        => [part = "chaindict" => [Abstract!Next]_<<Chain!Contents, x4>>]_objectVars
  <2> SUFFICES ASSUME ObjectsInv, [ObjectsNext]_objectVars, part = "chaindict"
               PROVE  [Abstract!Next]_<<Chain!Contents, x4>>
    OBVIOUS
  <2>1. [Chain!Next]_(Chain!vars)
    BY DEF ObjectsNext, objectVars, pool, Chain!vars
  <2> QED
    BY <2>1, ObjectsAssumption, ChainIsAsMapping DEF ObjectsInv
<1> QED
  BY <1>1, <1>2, InitObjects, ObjectsStep, PTL DEF ObjectsSpec, IsMapping

\* No call but an edit and a checkout of the file changes work that was not staged, for any
\* repository beside the other objects (nr.utils.git/__init__.py:323-349).
THEOREM UnstagedStays == ObjectsSpec => UnstagedWorkSurvives
<1>1. [ObjectsNext]_objectVars => [part = "git" => Repo!KeepsUnstagedWork]_objectVars
  <2> SUFFICES ASSUME [ObjectsNext]_objectVars, part = "git"  PROVE Repo!KeepsUnstagedWork
    OBVIOUS
  <2>1. [Repo!Next]_(Repo!vars)
    BY DEF ObjectsNext, objectVars, pool, Repo!vars
  <2> QED
    BY <2>1, GitKeepsWork
<1> QED
  BY <1>1, PTL DEF ObjectsSpec, UnstagedWorkSurvives

================================================================================
