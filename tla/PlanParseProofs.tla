-------------------------- MODULE PlanParseProofs --------------------------
(***************************************************************************)
(* Theorems about PlanParse, for any names and decompositions, checked by  *)
(* TLAPS: counts and successor lists agree, so the state manager gets      *)
(* sound graphs; and the reduction that is appended comes last.            *)
(***************************************************************************)
EXTENDS PlanParse, FiniteSetTheorems, FunctionTheorems, SequenceTheorems, WellFoundedInduction,
        TLAPS

\* At first nothing has been read.
Unread == pc = "raw" => input = <<>>

\* Before the second loop there are no edges and no counts.
NothingLinked ==
    pc \in {"raw", "declare"} =>
        successors = [n \in Names |-> <<>>] /\ predNums = [n \in Names |-> 0]

\* Until the reduction is appended, nodes and roots are sub-tasks.
FromInput ==
    pc # "done" =>
        /\ \A n \in nodes : \E k \in DOMAIN input : input[k].id = n
        /\ \A k \in DOMAIN roots : \E l \in DOMAIN input :
               input[l].id = roots[k] /\ input[l].deps = <<>>

Counted ==
    \A n \in Names :
        /\ IsFiniteSet(EdgesInto(n))
        /\ predNums[n] = Cardinality(EdgesInto(n))

\* In the second loop only what depends on something has been counted.
LinkedSoFar ==
    pc = "link" /\ WellFormed =>
        /\ Counted
        /\ \A n \in Names : EdgesInto(n) # {} =>
               \E l \in DOMAIN input : input[l].id = n /\ input[l].deps # <<>>

Finished ==
    pc = "done" /\ WellFormed =>
        /\ Counted
        /\ \A n \in Elements(roots) : EdgesInto(n) = {}

ParseInv == ParseTypeOK /\ Unread /\ NothingLinked /\ FromInput /\ LinkedSoFar /\ Finished

-----------------------------------------------------------------------------
(* Edges.                                                                  *)

\* An edge is a name and a place in its list.
LEMMA EdgeShape ==
    ASSUME NEW n, NEW m \in Names, NEW k \in DOMAIN successors[m], successors[m][k] = n
    PROVE  <<m, k>> \in EdgesInto(n)
BY DEF EdgesInto

\* And every edge is one.
LEMMA EdgeOf ==
    ASSUME NEW n, NEW e \in EdgesInto(n)
    PROVE  \E m \in Names : \E k \in DOMAIN successors[m] :
               e = <<m, k>> /\ successors[m][k] = n
BY DEF EdgesInto

\* Where all lists are empty there are none.
LEMMA NoEdges ==
    ASSUME successors = [m \in Names |-> <<>>], NEW n
    PROVE  EdgesInto(n) = {}
<1>1. \A m \in Names : DOMAIN successors[m] = {}
  OBVIOUS
<1> QED
  BY <1>1, EdgeOf

\* The same lists have the same edges.
LEMMA SameEdges ==
    ASSUME successors' = successors, NEW n
    PROVE  EdgesInto(n)' = EdgesInto(n)
BY DEF EdgesInto

\* Appending to a list is one more edge, into what was appended.
LEMMA OneMoreEdge ==
    ASSUME ParseTypeOK, NEW m \in Names, NEW x \in Names, NEW n \in Names,
           successors' = [successors EXCEPT ![m] = Append(successors[m], x)]
    PROVE  \E e : /\ e \notin EdgesInto(n)
                  /\ EdgesInto(n)' = IF n = x THEN EdgesInto(n) \cup {e} ELSE EdgesInto(n)
<1> DEFINE len == Len(successors[m])
           e == <<m, len + 1>>
<1>1. /\ successors[m] \in Seq(Names) /\ len \in Nat /\ DOMAIN successors[m] = 1 .. len
      /\ successors'[m] = Append(successors[m], x)
      /\ \A o \in Names : o # m => successors'[o] = successors[o]
  BY DEF ParseTypeOK
<1>2. /\ DOMAIN successors'[m] = 1 .. len + 1
      /\ \A k \in 1 .. len : successors'[m][k] = successors[m][k]
      /\ successors'[m][len + 1] = x
  BY <1>1
<1>3. e \notin EdgesInto(n)
  <2> SUFFICES ASSUME e \in EdgesInto(n) PROVE FALSE
    OBVIOUS
  <2>1. PICK o \in Names : \E k \in DOMAIN successors[o] : e = <<o, k>>
    BY EdgeOf
  <2> QED
    BY <1>1, <2>1
<1> HIDE DEF len
<1>4. \A f : f \in EdgesInto(n)' <=> f \in EdgesInto(n) \/ (n = x /\ f = e)
  <2>1. \A f : f \in EdgesInto(n)' <=>
            \E o \in Names : \E k \in DOMAIN successors'[o] : f = <<o, k>> /\ successors'[o][k] = n
    BY DEF EdgesInto
  <2>2. \A f : f \in EdgesInto(n) <=>
            \E o \in Names : \E k \in DOMAIN successors[o] : f = <<o, k>> /\ successors[o][k] = n
    BY DEF EdgesInto
  <2>3. ASSUME NEW f, f \in EdgesInto(n)' PROVE f \in EdgesInto(n) \/ (n = x /\ f = e)
    <3>0. PICK o \in Names :
              \E k \in DOMAIN successors'[o] : f = <<o, k>> /\ successors'[o][k] = n
      BY <2>1, <2>3
    <3>1. PICK k \in DOMAIN successors'[o] : f = <<o, k>> /\ successors'[o][k] = n
      BY <3>0
    <3>2. CASE o # m
      BY <1>1, <2>2, <3>1, <3>2
    <3>3. CASE o = m
      <4>1. k \in 1 .. len \/ k = len + 1
        BY <1>1, <1>2, <3>1, <3>3
      <4> QED
        BY <1>1, <1>2, <2>2, <3>1, <3>3, <4>1
    <3> QED
      BY <3>2, <3>3
  <2>4. ASSUME NEW f, f \in EdgesInto(n) PROVE f \in EdgesInto(n)'
    <3>0. PICK o \in Names :
              \E k \in DOMAIN successors[o] : f = <<o, k>> /\ successors[o][k] = n
      BY <2>2, <2>4
    <3>1. PICK k \in DOMAIN successors[o] : f = <<o, k>> /\ successors[o][k] = n
      BY <3>0
    <3>2. k \in DOMAIN successors'[o] /\ successors'[o][k] = n
      BY <1>1, <1>2, <3>1
    <3> QED
      BY <2>1, <3>1, <3>2
  <2>5. n = x => e \in EdgesInto(n)'
    <3>1. len + 1 \in DOMAIN successors'[m]
      BY <1>1, <1>2
    <3> QED
      BY <1>2, <2>1, <3>1
  <2> QED
    BY <2>3, <2>4, <2>5
<1> HIDE DEF e
<1>5. EdgesInto(n)' = IF n = x THEN EdgesInto(n) \cup {e} ELSE EdgesInto(n)
  <2>1. CASE n = x
    BY <1>4, <2>1
  <2>2. CASE n # x
    BY <1>4, <2>2
  <2> QED
    BY <2>1, <2>2
<1> QED
  BY <1>3, <1>5

\* The reduction adds an edge for each leaf, and those are all that lead to it.
LEMMA ReductionEdges ==
    ASSUME ParseTypeOK, AppendReduce, NEW n \in Names
    PROVE  /\ n # Reduce => EdgesInto(n)' = EdgesInto(n)
           /\ EdgesInto(Reduce) = {} => /\ IsFiniteSet(EdgesInto(Reduce)')
                                        /\ Cardinality(EdgesInto(Reduce)') = Cardinality(Leaves)
<1> USE ParseAssumption
<1>1. \A m \in Leaves : /\ m \in Names /\ successors[m] = <<>>
                        /\ successors'[m] = Append(<<>>, Reduce)
  BY DEF AppendReduce, Leaves, ParseTypeOK
<1>2. \A m \in Names \ Leaves : successors'[m] = successors[m]
  BY DEF AppendReduce
<1>3. \A m \in Leaves : /\ DOMAIN successors[m] = {}
                        /\ DOMAIN successors'[m] = {1} /\ successors'[m][1] = Reduce
  BY <1>1
<1>4. \A f, o : f \in EdgesInto(o)' <=>
          \E m \in Names : \E k \in DOMAIN successors'[m] : f = <<m, k>> /\ successors'[m][k] = o
  BY DEF EdgesInto
<1>5. \A f, o : f \in EdgesInto(o) <=>
          \E m \in Names : \E k \in DOMAIN successors[m] : f = <<m, k>> /\ successors[m][k] = o
  BY DEF EdgesInto
<1>6. ASSUME n # Reduce PROVE EdgesInto(n)' = EdgesInto(n)
  <2>1. ASSUME NEW f, f \in EdgesInto(n)' PROVE f \in EdgesInto(n)
    <3>1. PICK m \in Names :
              \E k \in DOMAIN successors'[m] : f = <<m, k>> /\ successors'[m][k] = n
      BY <1>4, <2>1
    <3>2. m \notin Leaves
      BY <1>3, <1>6, <3>1
    <3> QED
      BY <1>2, <1>5, <3>1, <3>2
  <2>2. ASSUME NEW f, f \in EdgesInto(n) PROVE f \in EdgesInto(n)'
    <3>1. PICK m \in Names :
              \E k \in DOMAIN successors[m] : f = <<m, k>> /\ successors[m][k] = n
      BY <1>5, <2>2
    <3>2. m \notin Leaves
      BY <1>3, <3>1
    <3> QED
      BY <1>2, <1>4, <3>1, <3>2
  <2> QED
    BY <2>1, <2>2
<1>7. ASSUME EdgesInto(Reduce) = {}
      PROVE  /\ IsFiniteSet(EdgesInto(Reduce)')
             /\ Cardinality(EdgesInto(Reduce)') = Cardinality(Leaves)
  <2> DEFINE New == {<<m, 1>> : m \in Leaves}
             f == [m \in Leaves |-> <<m, 1>>]
  <2>1. EdgesInto(Reduce)' = New
    <3>1. ASSUME NEW g, g \in EdgesInto(Reduce)' PROVE g \in New
      <4>1. PICK m \in Names :
                \E k \in DOMAIN successors'[m] : g = <<m, k>> /\ successors'[m][k] = Reduce
        BY <1>4, <3>1
      <4>2. m \in Leaves
        <5> SUFFICES ASSUME m \notin Leaves PROVE FALSE
          OBVIOUS
        <5>1. g \in EdgesInto(Reduce)
          BY <1>2, <1>5, <4>1
        <5> QED
          BY <1>7, <5>1
      <4> QED
        BY <1>3, <4>1, <4>2
    <3>2. ASSUME NEW m \in Leaves PROVE <<m, 1>> \in EdgesInto(Reduce)'
      BY <1>1, <1>3, <1>4
    <3> QED
      BY <3>1, <3>2
  <2>2. f \in Bijection(Leaves, New)
    <3>1. f \in [Leaves -> New]
      OBVIOUS
    <3>2. \A l, m \in Leaves : f[l] = f[m] => l = m
      OBVIOUS
    <3>3. \A g \in New : \E m \in Leaves : f[m] = g
      OBVIOUS
    <3> HIDE DEF f, New
    <3> QED
      BY <3>1, <3>2, <3>3 DEF Bijection, Injection, Surjection, IsInjective
  <2>3. IsFiniteSet(Leaves)
    BY FS_Subset DEF Leaves, ParseTypeOK
  <2>4. ExistsBijection(Leaves, New)
    BY <2>2 DEF ExistsBijection
  <2> HIDE DEF New
  <2> QED
    BY <2>1, <2>3, <2>4, FS_Bijection
<1> QED
  BY <1>6, <1>7

-----------------------------------------------------------------------------
(* The invariant.                                                          *)

\* Before anything is read there is nothing.
LEMMA InitParseInv == Init => ParseInv
<1> SUFFICES ASSUME Init PROVE ParseInv
  OBVIOUS
<1>1. ParseTypeOK
  <2>1. <<>> \in Seq(Subtask) /\ <<>> \in Seq(Names) /\ 1 \in 1 .. Len(<<>>) + 1
    OBVIOUS
  <2> QED
    BY <2>1 DEF Init, ParseTypeOK
<1>2. Unread /\ NothingLinked /\ LinkedSoFar /\ Finished
  BY DEF Init, Unread, NothingLinked, LinkedSoFar, Finished
<1>3. FromInput
  <2>1. nodes = {} /\ DOMAIN roots = {}
    BY DEF Init
  <2> QED
    BY <2>1 DEF FromInput
<1> QED
  BY <1>1, <1>2, <1>3 DEF ParseInv

\* The variables keep their types.
LEMMA NextParseTypeOK == ParseTypeOK /\ Unread /\ [Next]_vars => ParseTypeOK'
<1> SUFFICES ASSUME ParseTypeOK, Unread, [Next]_vars PROVE ParseTypeOK'
  OBVIOUS
<1>1. CASE FallBack
  <2>1. <<Single>> \in Seq(Names) /\ {Single} \subseteq Names
    BY ParseAssumption
  <2> QED
    BY <1>1, <2>1 DEF FallBack, ParseTypeOK
<1>2. CASE Unmarshal
  <2>1. input' \in Seq(Subtask) /\ UNCHANGED <<i, j, nodes, roots, successors, predNums>>
    BY <1>2, ParseAssumption DEF Unmarshal
  <2>2. i \in 1 .. Len(input') + 1
    <3>1. Len(input) = 0
      BY <1>2 DEF Unmarshal, Unread
    <3>2. Len(input') \in Nat
      BY <2>1
    <3> QED
      BY <3>1, <3>2 DEF ParseTypeOK
  <2> QED
    BY <1>2, <2>1, <2>2 DEF Unmarshal, ParseTypeOK
<1>3. CASE Declare
  <2>1. input[i] \in Subtask
    BY <1>3 DEF Declare, ParseTypeOK
  <2>2. input[i].id \in Names
    BY <2>1 DEF Subtask
  <2>3. roots' \in Seq(Names) /\ predNums' \in [Names -> Nat]
    <3> DEFINE x == input[i].id
    <3>1. \/ roots' = Append(roots, x) /\ predNums' = [predNums EXCEPT ![x] = 0]
          \/ UNCHANGED <<roots, predNums>>
      BY <1>3 DEF Declare
    <3> HIDE DEF x
    <3>2. x \in Names
      BY <2>2 DEF x
    <3>3. Append(roots, x) \in Seq(Names) /\ [predNums EXCEPT ![x] = 0] \in [Names -> Nat]
      BY <3>2 DEF ParseTypeOK
    <3>4. roots \in Seq(Names) /\ predNums \in [Names -> Nat]
      BY DEF ParseTypeOK
    <3> QED
      BY <3>1, <3>3, <3>4
  <2>4. i + 1 \in 1 .. Len(input) + 1
    BY <1>3 DEF Declare, ParseTypeOK
  <2> QED
    BY <1>3, <2>2, <2>3, <2>4 DEF Declare, ParseTypeOK
<1>4. CASE Declared
  <2>1. 1 \in 1 .. Len(input) + 1
    BY DEF ParseTypeOK
  <2> QED
    BY <1>4, <2>1 DEF Declared, ParseTypeOK
<1>5. CASE Link
  <2>1. input[i] \in Subtask /\ j \in 1 .. Len(input[i].deps)
    BY <1>5 DEF Link, ParseTypeOK
  <2>2. input[i].id \in Names /\ input[i].deps[j] \in Names
    BY <2>1 DEF Subtask
  <2> DEFINE m == input[i].deps[j]
             x == input[i].id
  <2>3. /\ successors' = [successors EXCEPT ![m] = Append(successors[m], x)]
        /\ predNums' = [predNums EXCEPT ![x] = predNums[x] + 1]
    BY <1>5 DEF Link
  <2> HIDE DEF m, x
  <2>4. m \in Names /\ x \in Names
    BY <2>2 DEF m, x
  <2>5. successors' \in [Names -> Seq(Names)] /\ predNums' \in [Names -> Nat]
    BY <2>3, <2>4 DEF ParseTypeOK
  <2>6. UNCHANGED <<pc, input, i, nodes, roots>> /\ j' = j + 1
    BY <1>5 DEF Link
  <2>7. j' \in Nat \ {0}
    BY <2>6 DEF ParseTypeOK
  <2> QED
    BY <2>5, <2>6, <2>7 DEF ParseTypeOK
<1>6. CASE Linked
  BY <1>6 DEF Linked, ParseTypeOK
<1>7. CASE AppendReduce
  <2>1. Cardinality(Leaves) \in Nat
    BY ParseAssumption, FS_Subset, FS_CardinalityType DEF Leaves, ParseTypeOK
  <2>2. successors' \in [Names -> Seq(Names)] /\ predNums' \in [Names -> Nat]
    <3>1. predNums' \in [Names -> Nat]
      BY <1>7, <2>1, ParseAssumption DEF AppendReduce, ParseTypeOK
    <3>2. \A n \in Names : successors[n] \in Seq(Names) /\ Append(successors[n], Reduce) \in Seq(Names)
      BY ParseAssumption DEF ParseTypeOK
    <3> QED
      BY <1>7, <3>1, <3>2 DEF AppendReduce
  <2> QED
    BY <1>7, <2>2, ParseAssumption DEF AppendReduce, ParseTypeOK
<1>8. CASE UNCHANGED vars
  BY <1>8 DEF vars, ParseTypeOK
<1> QED
  BY <1>1, <1>2, <1>3, <1>4, <1>5, <1>6, <1>7, <1>8 DEF Next

\* Where no edge or count has been touched the sums still agree.
LEMMA SameCounts ==
    ASSUME successors' = successors, predNums' = predNums
    PROVE  Counted' <=> Counted
BY SameEdges DEF Counted

\* Empty lists and zero counts agree.
LEMMA NothingCounted ==
    ASSUME successors = [n \in Names |-> <<>>], predNums = [n \in Names |-> 0]
    PROVE  Counted /\ \A n : EdgesInto(n) = {}
<1>1. \A n : EdgesInto(n) = {}
  BY NoEdges
<1> QED
  BY <1>1, FS_EmptySet DEF Counted

\* The first loop finds each sub-task once, and the roots among them.
LEMMA DeclareKeepsInv ==
    ASSUME ParseInv, Declare
    PROVE  NothingLinked' /\ FromInput'
<1> DEFINE s == input[i]
<1>0. i \in DOMAIN input /\ roots \in Seq(Names) /\ s \in Subtask
  BY DEF Declare, ParseInv, ParseTypeOK
<1>1. i \in DOMAIN input /\ roots \in Seq(Names) /\ s.id \in Names
  BY <1>0 DEF Subtask
<1>2. /\ pc = "declare" /\ UNCHANGED <<pc, input, successors>>
      /\ nodes' = nodes \cup {s.id}
      /\ \/ /\ s.deps = <<>> /\ roots' = Append(roots, s.id)
            /\ predNums' = [predNums EXCEPT ![s.id] = 0]
         \/ UNCHANGED <<roots, predNums>>
  BY DEF Declare
<1> HIDE DEF s
<1>3. NothingLinked'
  BY <1>1, <1>2 DEF ParseInv, NothingLinked
<1>4. \A n \in nodes' : \E k \in DOMAIN input' : input'[k].id = n
  BY <1>1, <1>2 DEF ParseInv, FromInput, s
<1>5. \A k \in DOMAIN roots' : \E l \in DOMAIN input' :
          input'[l].id = roots'[k] /\ input'[l].deps = <<>>
  <2>1. CASE UNCHANGED <<roots, predNums>>
    BY <1>2, <2>1 DEF ParseInv, FromInput
  <2>2. CASE s.deps = <<>> /\ roots' = Append(roots, s.id)
    <3>1. \A k \in DOMAIN roots' :
              (k \in DOMAIN roots /\ roots'[k] = roots[k]) \/ roots'[k] = s.id
      BY <1>1, <2>2
    <3>2. \A k \in DOMAIN roots : \E l \in DOMAIN input :
              input[l].id = roots[k] /\ input[l].deps = <<>>
      BY <1>2 DEF ParseInv, FromInput
    <3> QED
      BY <1>1, <1>2, <2>2, <3>1, <3>2 DEF s
  <2> QED
    BY <1>2, <2>1, <2>2
<1> QED
  BY <1>3, <1>4, <1>5 DEF FromInput

\* The second loop adds one edge and one count, both to the same sub-task.
LEMMA LinkKeepsInv ==
    ASSUME ParseInv, Link
    PROVE  LinkedSoFar'
<1> SUFFICES ASSUME WellFormed' PROVE
        /\ Counted'
        /\ \A n \in Names : EdgesInto(n)' # {} =>
               \E l \in DOMAIN input' : input'[l].id = n /\ input'[l].deps # <<>>
  BY DEF LinkedSoFar
<1> DEFINE x == input[i].id
           m == input[i].deps[j]
<1>1. /\ i \in DOMAIN input /\ input[i] \in Subtask /\ j \in 1 .. Len(input[i].deps)
      /\ input[i].deps # <<>>
  BY DEF Link, ParseInv, ParseTypeOK
<1>2. m \in Names /\ x \in Names
  BY <1>1 DEF Subtask
<1>3. /\ successors' = [successors EXCEPT ![m] = Append(successors[m], x)]
      /\ predNums' = [predNums EXCEPT ![x] = predNums[x] + 1]
      /\ input' = input /\ pc = "link"
  BY DEF Link
<1>4. WellFormed
  BY <1>3 DEF WellFormed
<1>5. /\ Counted
      /\ \A n \in Names : EdgesInto(n) # {} =>
             \E l \in DOMAIN input : input[l].id = n /\ input[l].deps # <<>>
  BY <1>3, <1>4 DEF ParseInv, LinkedSoFar
<1>6. ASSUME NEW n \in Names
      PROVE  /\ IsFiniteSet(EdgesInto(n)') /\ predNums'[n] = Cardinality(EdgesInto(n)')
             /\ EdgesInto(n)' # {} =>
                    \E l \in DOMAIN input' : input'[l].id = n /\ input'[l].deps # <<>>
  <2> HIDE DEF m
  <2>1. PICK e : /\ e \notin EdgesInto(n)
                 /\ EdgesInto(n)' = IF n = x THEN EdgesInto(n) \cup {e} ELSE EdgesInto(n)
    <3> HIDE DEF x
    <3> QED
      BY <1>2, <1>3, OneMoreEdge DEF ParseInv
  <2>2. IsFiniteSet(EdgesInto(n)) /\ predNums[n] = Cardinality(EdgesInto(n))
    BY <1>5 DEF Counted
  <2>3. CASE n = x
    <3>1. IsFiniteSet(EdgesInto(n)') /\ Cardinality(EdgesInto(n)') = Cardinality(EdgesInto(n)) + 1
      BY <2>1, <2>2, <2>3, FS_AddElement
    <3>2. predNums'[n] = predNums[n] + 1
      BY <1>2, <1>3, <2>3 DEF ParseInv, ParseTypeOK
    <3> QED
      BY <1>1, <1>3, <2>2, <2>3, <3>1, <3>2
  <2>4. CASE n # x
    <3>1. predNums'[n] = predNums[n]
      BY <1>2, <1>3, <2>4 DEF ParseInv, ParseTypeOK
    <3> QED
      BY <1>3, <1>5, <2>1, <2>2, <2>4, <3>1
  <2> QED
    BY <2>3, <2>4
<1> QED
  BY <1>6 DEF Counted

\* The reduction's count is that of the leaves, and no root depends on anything.
LEMMA AppendReduceKeepsInv ==
    ASSUME ParseInv, AppendReduce
    PROVE  Finished'
<1> SUFFICES ASSUME WellFormed'
             PROVE  Counted' /\ (\A n \in Elements(roots) : EdgesInto(n) = {})'
  BY DEF Finished
<1>1. /\ pc = "link" /\ input' = input /\ roots' = roots
      /\ predNums' = [predNums EXCEPT ![Reduce] = Cardinality(Leaves)]
  BY DEF AppendReduce
<1>2. WellFormed
  BY <1>1 DEF WellFormed
<1>3. /\ Counted
      /\ \A n \in Names : EdgesInto(n) # {} =>
             \E l \in DOMAIN input : input[l].id = n /\ input[l].deps # <<>>
  BY <1>1, <1>2 DEF ParseInv, LinkedSoFar
<1>4. EdgesInto(Reduce) = {}
  BY <1>2, <1>3, ParseAssumption DEF WellFormed
<1>5. ASSUME NEW n \in Names
      PROVE  IsFiniteSet(EdgesInto(n)') /\ predNums'[n] = Cardinality(EdgesInto(n)')
  <2>1. CASE n = Reduce
    <3>1. predNums'[Reduce] = Cardinality(Leaves)
      BY <1>1, ParseAssumption DEF ParseInv, ParseTypeOK
    <3> QED
      BY <1>4, <2>1, <3>1, ReductionEdges DEF ParseInv
  <2>2. CASE n # Reduce
    <3>1. predNums'[n] = predNums[n]
      BY <1>1, <2>2 DEF ParseInv, ParseTypeOK
    <3>2. EdgesInto(n)' = EdgesInto(n)
      BY <2>2, ReductionEdges DEF ParseInv
    <3> QED
      BY <1>3, <3>1, <3>2 DEF Counted
  <2> QED
    BY <2>1, <2>2
<1>6. ASSUME NEW n \in Elements(roots) PROVE EdgesInto(n)' = {}
  <2>1. PICK l \in DOMAIN input : input[l].id = n /\ input[l].deps = <<>>
    BY <1>1 DEF ParseInv, FromInput, Elements
  <2>2. n \in Names /\ n # Reduce
    BY <1>2, <2>1 DEF WellFormed, ParseInv, ParseTypeOK, Elements
  <2>3. EdgesInto(n) = {}
    BY <1>2, <1>3, <2>1, <2>2 DEF WellFormed
  <2> QED
    BY <2>2, <2>3, ReductionEdges DEF ParseInv
<1>7. Elements(roots)' = Elements(roots)
  BY <1>1 DEF Elements
<1> QED
  BY <1>5, <1>6, <1>7 DEF Counted

\* All of this but the types is about six of the variables.
LEMMA Unchanged ==
    ASSUME ParseInv, UNCHANGED <<pc, input, nodes, roots, successors, predNums>>, ParseTypeOK'
    PROVE  ParseInv'
<1>1. WellFormed' <=> WellFormed
  BY DEF WellFormed
<1>2. Counted' <=> Counted
  BY SameCounts
<1>3. \A n : EdgesInto(n)' = EdgesInto(n)
  BY SameEdges
<1>4. LinkedSoFar'
  BY <1>1, <1>2, <1>3 DEF ParseInv, LinkedSoFar
<1>5. Finished'
  BY <1>1, <1>2, <1>3 DEF ParseInv, Finished, Elements
<1> QED
  BY <1>4, <1>5 DEF ParseInv, Unread, NothingLinked, FromInput

\* Every step keeps the invariant.
LEMMA NextParseInv == ParseInv /\ [Next]_vars => ParseInv'
<1> SUFFICES ASSUME ParseInv, [Next]_vars PROVE ParseInv'
  OBVIOUS
<1>0. ParseTypeOK'
  BY NextParseTypeOK DEF ParseInv
<1>1. CASE FallBack
  <2>1. /\ pc' = "done" /\ successors' = successors /\ predNums' = predNums
        /\ Counted /\ \A n : EdgesInto(n) = {}
    BY <1>1, NothingCounted DEF FallBack, ParseInv, NothingLinked
  <2>2. Counted' /\ \A n : EdgesInto(n)' = {}
    BY <2>1, SameCounts, SameEdges
  <2>3. Finished'
    BY <2>2 DEF Finished
  <2> QED
    BY <1>0, <2>1, <2>3 DEF ParseInv, Unread, NothingLinked, FromInput, LinkedSoFar
<1>2. CASE Unmarshal
  <2>1. /\ pc = "raw" /\ pc' = "declare"
        /\ UNCHANGED <<nodes, roots, successors, predNums>>
    BY <1>2 DEF Unmarshal
  <2>2. nodes' = {} /\ DOMAIN roots' = {}
    <3>1. DOMAIN input = {}
      BY <2>1 DEF ParseInv, Unread
    <3> QED
      BY <2>1, <3>1 DEF ParseInv, FromInput
  <2>3. FromInput' /\ NothingLinked'
    BY <2>1, <2>2 DEF FromInput, ParseInv, NothingLinked
  <2> QED
    BY <1>0, <2>1, <2>3 DEF ParseInv, Unread, LinkedSoFar, Finished
<1>3. CASE Declare
  <2>1. pc' = "declare"
    BY <1>3 DEF Declare
  <2> QED
    BY <1>0, <1>3, <2>1, DeclareKeepsInv DEF ParseInv, Unread, LinkedSoFar, Finished
<1>4. CASE Declared
  <2>1. /\ pc = "declare" /\ pc' = "link"
        /\ UNCHANGED <<input, nodes, roots, successors, predNums>>
        /\ Counted /\ \A n : EdgesInto(n) = {}
    BY <1>4, NothingCounted DEF Declared, ParseInv, NothingLinked
  <2>2. Counted' /\ \A n : EdgesInto(n)' = {}
    BY <2>1, SameCounts, SameEdges
  <2>3. LinkedSoFar'
    BY <2>2 DEF LinkedSoFar
  <2> QED
    BY <1>0, <2>1, <2>3 DEF ParseInv, Unread, NothingLinked, FromInput, Finished
<1>5. CASE Link
  <2>1. pc = "link" /\ UNCHANGED <<pc, input, nodes, roots>>
    BY <1>5 DEF Link
  <2> QED
    BY <1>0, <1>5, <2>1, LinkKeepsInv DEF ParseInv, Unread, NothingLinked, FromInput, Finished
<1>6. CASE Linked
  BY <1>0, <1>6, Unchanged DEF Linked
<1>7. CASE AppendReduce
  <2>1. pc' = "done"
    BY <1>7 DEF AppendReduce
  <2> QED
    BY <1>0, <1>7, <2>1, AppendReduceKeepsInv
       DEF ParseInv, Unread, NothingLinked, FromInput, LinkedSoFar
<1>8. CASE UNCHANGED vars
  BY <1>0, <1>8, Unchanged DEF vars
<1> QED
  BY <1>1, <1>2, <1>3, <1>4, <1>5, <1>6, <1>7, <1>8 DEF Next

\* The invariant holds throughout.
LEMMA ParseInvHolds == Spec => []ParseInv
BY InitParseInv, NextParseInv, PTL DEF Spec

-----------------------------------------------------------------------------
(* What follows from it.                                                   *)

\* Whatever a model answers, parse keeps its indexes inside the lists that it
\* walks and its maps hold what they are declared to hold.
THEOREM ParseTypesHold == Spec => []ParseTypeOK
BY ParseInvHolds, PTL DEF ParseInv

\* Whatever a model answers with distinct names that leave "reduce" alone, the
\* count that parse hands over for a node is the number of its entries in the
\* successor lists.
THEOREM CountsExact == Spec => []CountsAreExact
<1>1. ParseInv => CountsAreExact
  BY DEF ParseInv, ParseTypeOK, Finished, Counted, CountsAreExact
<1> QED
  BY <1>1, ParseInvHolds, PTL

\* A name has at most as many predecessors as there are edges into it.
LEMMA FewerPredecessors ==
    ASSUME ParseTypeOK, NEW n \in nodes, IsFiniteSet(EdgesInto(n))
    PROVE  Cardinality(PredsIn(Graph, n)) <= Cardinality(EdgesInto(n))
<1> DEFINE P == PredsIn(Graph, n)
           E == EdgesInto(n)
<1>1. \A m \in P : \E e \in E : e[1] = m
  <2> SUFFICES ASSUME NEW m \in P PROVE \E e \in E : e[1] = m
    OBVIOUS
  <2>1. m \in Names /\ n \in Elements(successors[m])
    BY DEF PredsIn, Graph, ParseTypeOK
  <2>2. PICK k \in DOMAIN successors[m] : successors[m][k] = n
    BY <2>1 DEF Elements
  <2>3. <<m, k>> \in E
    BY <2>1, <2>2, EdgeShape
  <2> QED
    BY <2>3
<1> HIDE DEF P, E
<1> DEFINE f == [m \in P |-> CHOOSE e \in E : e[1] = m]
<1>2. \A m \in P : f[m] \in E /\ f[m][1] = m
  BY <1>1
<1>3. f \in [P -> E]
  BY <1>2
<1>4. \A l, m \in P : f[l] = f[m] => l = m
  BY <1>2
<1> HIDE DEF f
<1>5. f \in Injection(P, E)
  BY <1>3, <1>4 DEF Injection, IsInjective
<1>6. IsFiniteSet(E)
  BY DEF E
<1>7. Cardinality(P) <= Cardinality(E)
  BY <1>5, <1>6, FS_Injection
<1> QED
  BY <1>7 DEF E, P

\* The graphs that parse makes of such answers are sound, as the state manager's
\* specification assumes of the graphs it is given.
THEOREM ParsedGraphsAreSound == Spec => []GraphIsSound
<1>1. ASSUME ParseInv, pc = "done", WellFormed, NEW n \in nodes
      PROVE  /\ n \in Elements(roots) => PredsIn(Graph, n) = {}
             /\ Cardinality(PredsIn(Graph, n)) <= predNums[n]
  <2>1. /\ n \in Names /\ IsFiniteSet(EdgesInto(n))
        /\ predNums[n] = Cardinality(EdgesInto(n))
    BY <1>1 DEF ParseInv, ParseTypeOK, Finished, Counted
  <2>2. Cardinality(PredsIn(Graph, n)) <= predNums[n]
    BY <1>1, <2>1, FewerPredecessors DEF ParseInv
  <2>3. ASSUME n \in Elements(roots), NEW m \in PredsIn(Graph, n) PROVE FALSE
    <3>1. EdgesInto(n) = {}
      BY <1>1, <2>3 DEF ParseInv, Finished
    <3>2. m \in Names /\ n \in Elements(successors[m])
      BY <1>1 DEF PredsIn, Graph, ParseInv, ParseTypeOK
    <3>3. PICK k \in DOMAIN successors[m] : successors[m][k] = n
      BY <3>2 DEF Elements
    <3> QED
      BY <3>1, <3>2, <3>3, EdgeShape
  <2> QED
    BY <2>2, <2>3
<1>2. ParseInv => GraphIsSound
  BY <1>1 DEF GraphIsSound, Sound, Graph
<1> QED
  BY <1>2, ParseInvHolds, PTL

-----------------------------------------------------------------------------
(* Sets that are built round by round.                                     *)

\* Among some numbers there is a least one.
LEMMA LeastNumber ==
    ASSUME NEW T, T \subseteq Nat, T # {}
    PROVE  \E x \in T : \A y \in T : ~(y < x)
<1> DEFINE R == OpToRel(<, Nat)
<1>1. \A x, y \in Nat : <<y, x>> \in R <=> y < x
  BY DEF OpToRel
<1>2. IsWellFoundedOn(R, Nat)
  BY NatLessThanWellFounded
<1> HIDE DEF R
<1>3. \E x \in T : \A y \in T : ~ (<<y, x>> \in R)
  BY <1>2, WFMin
<1> QED
  BY <1>1, <1>3

\* The first rounds of a construction that begins with nothing.
Rounds(A, F, n, g) ==
    /\ g \in [0 .. n -> SUBSET A]
    /\ \A k \in 0 .. n : g[k] = IF k = 0 THEN {} ELSE F[g[k - 1]]

\* Any number of first rounds can be made.
LEMMA RoundsExist ==
    ASSUME NEW A, NEW F \in [SUBSET A -> SUBSET A], NEW n \in Nat
    PROVE  \E g : Rounds(A, F, n, g)
<1> DEFINE T == {k \in Nat : ~\E g : Rounds(A, F, k, g)}
<1>1. SUFFICES ASSUME T # {} PROVE FALSE
  OBVIOUS
<1>2. PICK k \in T : \A l \in T : ~(l < k)
  <2>1. T \subseteq Nat
    OBVIOUS
  <2> HIDE DEF T
  <2> QED
    BY <1>1, <2>1, LeastNumber
<1>3. k \in Nat /\ ~\E g : Rounds(A, F, k, g)
  OBVIOUS
<1>4. CASE k = 0
  <2> DEFINE g == [l \in 0 .. 0 |-> {}]
  <2>1. g \in [0 .. 0 -> SUBSET A] /\ \A l \in 0 .. 0 : l = 0 /\ g[l] = {}
    OBVIOUS
  <2> HIDE DEF g
  <2>2. Rounds(A, F, 0, g)
    BY <2>1 DEF Rounds
  <2> QED
    BY <1>3, <1>4, <2>2
<1>5. CASE k # 0
  <2>1. k - 1 \in Nat /\ k - 1 < k
    BY <1>3, <1>5
  <2>2. k - 1 \notin T
    BY <1>2, <2>1
  <2>3. PICK g : Rounds(A, F, k - 1, g)
    BY <2>1, <2>2
  <2> DEFINE h == [l \in 0 .. k |-> IF l = k THEN F[g[k - 1]] ELSE g[l]]
  <2>4. \A l \in 0 .. k : l # k => l \in 0 .. k - 1
    BY <1>3
  <2>5. k - 1 \in 0 .. k - 1 /\ g[k - 1] \in SUBSET A
    BY <2>1, <2>3 DEF Rounds
  <2>6. h \in [0 .. k -> SUBSET A]
    BY <2>3, <2>4, <2>5 DEF Rounds
  <2>7. ASSUME NEW l \in 0 .. k PROVE h[l] = IF l = 0 THEN {} ELSE F[h[l - 1]]
    <3>1. CASE l = k
      <4>1. h[l] = F[g[k - 1]] /\ k - 1 \in 0 .. k /\ k - 1 # k
        BY <1>3, <2>1, <3>1
      <4>2. h[k - 1] = g[k - 1]
        BY <4>1
      <4> QED
        BY <1>5, <3>1, <4>1, <4>2
    <3>2. CASE l = 0
      BY <1>5, <2>3, <2>4, <3>2 DEF Rounds
    <3>3. CASE l # k /\ l # 0
      <4>1. l \in 0 .. k - 1 /\ l - 1 \in 0 .. k /\ l - 1 # k
        BY <1>3, <3>3
      <4>2. h[l] = g[l] /\ h[l - 1] = g[l - 1]
        BY <3>3, <4>1
      <4> QED
        BY <2>3, <3>3, <4>1, <4>2 DEF Rounds
    <3> QED
      BY <3>1, <3>2, <3>3
  <2> HIDE DEF h
  <2>8. Rounds(A, F, k, h)
    BY <2>6, <2>7 DEF Rounds
  <2> QED
    BY <1>3, <2>8
<1> QED
  BY <1>4, <1>5

\* However many rounds are made, the first are the same.
LEMMA RoundsAgree ==
    ASSUME NEW A, NEW F, NEW m \in Nat, NEW n \in Nat, NEW g, NEW h,
           Rounds(A, F, m, g), Rounds(A, F, n, h), NEW r \in 0 .. m, r \in 0 .. n
    PROVE  g[r] = h[r]
<1> DEFINE T == {k \in Nat : k <= m /\ k <= n /\ g[k] # h[k]}
<1>1. SUFFICES ASSUME T # {} PROVE FALSE
  OBVIOUS
<1>2. PICK k \in T : \A l \in T : ~(l < k)
  <2>1. T \subseteq Nat
    OBVIOUS
  <2> HIDE DEF T
  <2> QED
    BY <1>1, <2>1, LeastNumber
<1>3. k \in Nat /\ k \in 0 .. m /\ k \in 0 .. n /\ g[k] # h[k]
  OBVIOUS
<1>4. k # 0
  BY <1>3 DEF Rounds
<1>5. k - 1 \in Nat /\ k - 1 < k /\ k - 1 <= m /\ k - 1 <= n
  BY <1>3, <1>4
<1>6. g[k - 1] = h[k - 1]
  BY <1>2, <1>5
<1> QED
  BY <1>3, <1>4, <1>6 DEF Rounds

\* So there is one function with all the rounds.
LEMMA AllRounds ==
    ASSUME NEW A, NEW F \in [SUBSET A -> SUBSET A]
    PROVE  \E w \in [Nat -> SUBSET A] :
               \A k \in Nat : w[k] = IF k = 0 THEN {} ELSE F[w[k - 1]]
<1> DEFINE G(n) == CHOOSE g : Rounds(A, F, n, g)
           w == [n \in Nat |-> G(n)[n]]
<1>1. ASSUME NEW n \in Nat PROVE Rounds(A, F, n, G(n))
  BY RoundsExist
<1> HIDE DEF G
<1>2. ASSUME NEW n \in Nat
      PROVE  G(n)[n] \in SUBSET A /\ G(n)[n] = IF n = 0 THEN {} ELSE F[G(n)[n - 1]]
  BY <1>1 DEF Rounds
<1>3. ASSUME NEW n \in Nat, n # 0 PROVE G(n)[n - 1] = G(n - 1)[n - 1]
  <2>1. n - 1 \in Nat /\ n - 1 \in 0 .. n /\ n - 1 \in 0 .. n - 1
    BY <1>3
  <2>2. Rounds(A, F, n, G(n)) /\ Rounds(A, F, n - 1, G(n - 1))
    BY <1>1, <2>1
  <2> QED
    BY <2>1, <2>2, RoundsAgree
<1>4. w \in [Nat -> SUBSET A]
  BY <1>2
<1>5. ASSUME NEW k \in Nat PROVE w[k] = IF k = 0 THEN {} ELSE F[w[k - 1]]
  <2>1. CASE k = 0
    BY <1>2, <2>1
  <2>2. CASE k # 0
    <3>1. k - 1 \in Nat
      BY <2>2
    <3> QED
      BY <1>2, <1>3, <2>2, <3>1
  <2> QED
    BY <2>1, <2>2
<1> HIDE DEF w
<1> QED
  BY <1>4, <1>5

\* The rounds in which a decomposition can be worked off.
LEMMA WorkableRounds ==
    ASSUME ParseTypeOK
    PROVE  /\ Workable \in [Nat -> SUBSET Names]
           /\ \A k \in Nat : Workable[k] =
                  IF k = 0 THEN {}
                  ELSE {input[l].id : l \in {m \in DOMAIN input :
                            Elements(input[m].deps) \subseteq Workable[k - 1]}}
<1> DEFINE W(S) == {input[l].id : l \in {m \in DOMAIN input : Elements(input[m].deps) \subseteq S}}
           F == [S \in SUBSET Names |-> W(S)]
           P(g) == g = [k \in Nat |-> IF k = 0 THEN {} ELSE W(g[k - 1])]
<1>0. \A l \in DOMAIN input : input[l].id \in Names
  <2>1. \A l \in DOMAIN input : input[l] \in Subtask
    BY DEF ParseTypeOK
  <2> QED
    BY <2>1 DEF Subtask
<1>1. \A S : W(S) \in SUBSET Names
  BY <1>0
<1>2. F \in [SUBSET Names -> SUBSET Names]
  BY <1>1
<1>3. \A S \in SUBSET Names : F[S] = W(S)
  OBVIOUS
<1>4. Workable = CHOOSE g : P(g)
  BY DEF Workable
<1> HIDE DEF W, F
<1>5. PICK w \in [Nat -> SUBSET Names] :
          \A k \in Nat : w[k] = IF k = 0 THEN {} ELSE F[w[k - 1]]
  <2>1. PICK G \in [SUBSET Names -> SUBSET Names] : G = F
    BY <1>2
  <2> HIDE DEF P
  <2>2. \E w \in [Nat -> SUBSET Names] :
            \A k \in Nat : w[k] = IF k = 0 THEN {} ELSE G[w[k - 1]]
    BY AllRounds
  <2> QED
    BY <2>1, <2>2
<1>6. \A k \in Nat : w[k] = IF k = 0 THEN {} ELSE W(w[k - 1])
  <2> SUFFICES ASSUME NEW k \in Nat, k # 0 PROVE F[w[k - 1]] = W(w[k - 1])
    BY <1>5
  <2>1. k - 1 \in Nat
    OBVIOUS
  <2> QED
    BY <1>3, <1>5, <2>1
<1>7. P(w)
  BY <1>5, <1>6
<1>8. P(Workable)
  <2> HIDE DEF P
  <2> QED
    BY <1>4, <1>7
<1>9. \A k \in Nat : Workable[k] = IF k = 0 THEN {} ELSE W(Workable[k - 1])
  BY <1>8
<1>10. Workable \in [Nat -> SUBSET Names]
  BY <1>1, <1>8
<1> QED
  BY <1>9, <1>10 DEF W

\* And those in which the graph gets them done.
LEMMA ExecutedRounds ==
    ASSUME ParseTypeOK
    PROVE  /\ Executed \in [Nat -> SUBSET Names]
           /\ \A k \in Nat : Executed[k] =
                  IF k = 0 THEN {}
                  ELSE Elements(roots) \cup
                       {n \in nodes :
                            LET edges == {e \in EdgesInto(n) : e[1] \in Executed[k - 1]} IN
                            edges # {} /\ predNums[n] <= Cardinality(edges)}
<1> DEFINE W(S) == Elements(roots) \cup
                       {n \in nodes :
                            LET edges == {e \in EdgesInto(n) : e[1] \in S} IN
                            edges # {} /\ predNums[n] <= Cardinality(edges)}
           F == [S \in SUBSET Names |-> W(S)]
           P(g) == g = [k \in Nat |-> IF k = 0 THEN {} ELSE W(g[k - 1])]
<1>1. \A S : W(S) \in SUBSET Names
  <2>1. Elements(roots) \subseteq Names
    BY DEF ParseTypeOK, Elements
  <2> QED
    BY <2>1 DEF ParseTypeOK
<1>2. F \in [SUBSET Names -> SUBSET Names]
  BY <1>1
<1>3. \A S \in SUBSET Names : F[S] = W(S)
  OBVIOUS
<1>4. Executed = CHOOSE g : P(g)
  BY DEF Executed
<1> HIDE DEF W, F
<1>5. PICK w \in [Nat -> SUBSET Names] :
          \A k \in Nat : w[k] = IF k = 0 THEN {} ELSE F[w[k - 1]]
  <2>1. PICK G \in [SUBSET Names -> SUBSET Names] : G = F
    BY <1>2
  <2> HIDE DEF P
  <2>2. \E w \in [Nat -> SUBSET Names] :
            \A k \in Nat : w[k] = IF k = 0 THEN {} ELSE G[w[k - 1]]
    BY AllRounds
  <2> QED
    BY <2>1, <2>2
<1>6. \A k \in Nat : w[k] = IF k = 0 THEN {} ELSE W(w[k - 1])
  <2> SUFFICES ASSUME NEW k \in Nat, k # 0 PROVE F[w[k - 1]] = W(w[k - 1])
    BY <1>5
  <2>1. k - 1 \in Nat
    OBVIOUS
  <2> QED
    BY <1>3, <1>5, <2>1
<1>7. P(w)
  BY <1>5, <1>6
<1>8. P(Executed)
  <2> HIDE DEF P
  <2> QED
    BY <1>4, <1>7
<1>9. \A k \in Nat : Executed[k] = IF k = 0 THEN {} ELSE W(Executed[k - 1])
  BY <1>8
<1>10. Executed \in [Nat -> SUBSET Names]
  BY <1>1, <1>8
<1> QED
  BY <1>9, <1>10 DEF W

-----------------------------------------------------------------------------
(* What the two loops have written so far.                                 *)

\* The names of the first sub-tasks, and those of them that depend on nothing.
IdsTo(k) == {input[l].id : l \in 1 .. k}
RootsTo(k) == {input[l].id : l \in {m \in 1 .. k : input[m].deps = <<>>}}

\* A sub-task lists a name among its dependencies, and it does so where the second
\* loop has already been.
Depends(n, m) ==
    \E l \in DOMAIN input : input[l].id = n /\ m \in Elements(input[l].deps)
LinkedTo(n, m) ==
    \E l \in DOMAIN input : \E k \in DOMAIN input[l].deps :
        input[l].id = n /\ input[l].deps[k] = m /\ (l < i \/ (l = i /\ k < j))

\* The graph that parse makes: an edge for each dependency, and one to the reduction
\* from each sub-task that nothing depends on.
Parsed ==
    /\ nodes = IdsTo(Len(input)) \cup {Reduce}
    /\ Elements(roots) = RootsTo(Len(input))
    /\ \A n, m \in Names : n \in Elements(successors[m]) <=>
           IF n = Reduce THEN m \in IdsTo(Len(input)) /\ \A x \in Names : ~Depends(x, m)
           ELSE Depends(n, m)

Declaring ==
    pc \in {"raw", "declare"} =>
        /\ j = 1
        /\ pc = "raw" => i = 1
        /\ nodes = IdsTo(i - 1) /\ Elements(roots) = RootsTo(i - 1)
Linking ==
    pc = "link" =>
        /\ nodes = IdsTo(Len(input)) /\ Elements(roots) = RootsTo(Len(input))
        /\ \A n, m \in Names : n \in Elements(successors[m]) <=> LinkedTo(n, m)
ListsInv ==
    Declaring /\ Linking /\ (pc = "done" /\ WellFormed /\ input # <<>> => Parsed)

\* Appending adds one element.
LEMMA AppendElements ==
    ASSUME NEW T, NEW s \in Seq(T), NEW x \in T
    PROVE  Elements(Append(s, x)) = Elements(s) \cup {x}
<1> DEFINE t == Append(s, x)
           len == Len(s)
<1>1. /\ DOMAIN t = 1 .. len + 1 /\ DOMAIN s = 1 .. len /\ len \in Nat
      /\ \A k \in 1 .. len : t[k] = s[k]
      /\ t[len + 1] = x
  OBVIOUS
<1> HIDE DEF t, len
<1>2. \A k \in 1 .. len + 1 : k \in 1 .. len \/ k = len + 1
  BY <1>1
<1>3. 1 .. len \subseteq 1 .. len + 1 /\ len + 1 \in 1 .. len + 1
  BY <1>1
<1>4. ASSUME NEW y \in Elements(t) PROVE y \in Elements(s) \cup {x}
  BY <1>1, <1>2 DEF Elements
<1>5. ASSUME NEW y \in Elements(s) PROVE y \in Elements(t)
  BY <1>1, <1>3 DEF Elements
<1>6. x \in Elements(t)
  BY <1>1, <1>3 DEF Elements
<1>7. Elements(t) = Elements(s) \cup {x}
  BY <1>4, <1>5, <1>6
<1> QED
  BY <1>7 DEF t

\* An empty list has no elements, and no other.
LEMMA NoElements ==
    ASSUME NEW T, NEW s \in Seq(T)
    PROVE  s = <<>> <=> Elements(s) = {}
<1>1. s = <<>> => Elements(s) = {}
  BY DEF Elements
<1>2. s # <<>> => s[1] \in Elements(s)
  BY DEF Elements
<1> QED
  BY <1>1, <1>2

\* The next sub-task is one name more, and a root if it depends on nothing.
LEMMA OneMoreSubtask ==
    ASSUME NEW k \in Nat \ {0}
    PROVE  /\ IdsTo(k) = IdsTo(k - 1) \cup {input[k].id}
           /\ RootsTo(k) = IF input[k].deps = <<>> THEN RootsTo(k - 1) \cup {input[k].id}
                           ELSE RootsTo(k - 1)
<1>1. \A l : l \in 1 .. k <=> l \in 1 .. k - 1 \/ l = k
  OBVIOUS
<1> DEFINE first == 1 .. k
           before == 1 .. k - 1
           ind(l) == input[l].id
           free(l) == input[l].deps = <<>>
<1>2. \A l : l \in first <=> l \in before \/ l = k
  BY <1>1
<1> HIDE DEF first, before, ind, free
<1>3. {ind(l) : l \in first} = {ind(l) : l \in before} \cup {ind(k)}
  BY <1>2
<1>4. {ind(l) : l \in {m \in first : free(m)}} =
          IF free(k) THEN {ind(l) : l \in {m \in before : free(m)}} \cup {ind(k)}
          ELSE {ind(l) : l \in {m \in before : free(m)}}
  <2>1. CASE free(k)
    BY <1>2, <2>1
  <2>2. CASE ~free(k)
    BY <1>2, <2>2
  <2> QED
    BY <2>1, <2>2
<1> QED
  BY <1>3, <1>4 DEF IdsTo, RootsTo, first, before, ind, free

\* The names and dependencies are those of the input.
LEMMA InputShapes ==
    ASSUME ParseTypeOK
    PROVE  /\ Len(input) \in Nat /\ DOMAIN input = 1 .. Len(input)
           /\ \A l \in DOMAIN input : /\ input[l] \in Subtask /\ input[l].id \in Names
                                      /\ input[l].deps \in Seq(Names)
<1>1. \A l \in DOMAIN input : input[l] \in Subtask
  BY DEF ParseTypeOK
<1>2. Len(input) \in Nat /\ DOMAIN input = 1 .. Len(input)
  BY DEF ParseTypeOK
<1> QED
  BY <1>1, <1>2 DEF Subtask

\* Before anything is read nothing has been written.
LEMMA InitListsInv == Init => ListsInv
<1> SUFFICES ASSUME Init PROVE ListsInv
  OBVIOUS
<1>1. pc = "raw" /\ i = 1 /\ j = 1 /\ nodes = {} /\ roots = <<>>
  BY DEF Init
<1>2. IdsTo(i - 1) = {} /\ RootsTo(i - 1) = {}
  <2>1. \A l : l \notin 1 .. i - 1
    BY <1>1
  <2> QED
    BY <2>1 DEF IdsTo, RootsTo
<1>3. Elements(roots) = {}
  BY <1>1 DEF Elements
<1> QED
  BY <1>1, <1>2, <1>3 DEF ListsInv, Declaring, Linking

\* The first loop declares sub-tasks and roots one by one.
LEMMA DeclareKeepsLists ==
    ASSUME ParseInv, ListsInv, Declare
    PROVE  ListsInv'
<1> DEFINE s == input[i]
           n == s.id
<1>1. /\ i \in DOMAIN input /\ i \in Nat \ {0} /\ roots \in Seq(Names)
      /\ n \in Names
  BY InputShapes DEF Declare, ParseInv, ParseTypeOK
<1>2. /\ pc = "declare" /\ UNCHANGED <<pc, input, j, successors>>
      /\ nodes' = nodes \cup {n}
      /\ IF s.deps = <<>> THEN roots' = Append(roots, n) ELSE roots' = roots
      /\ i' = i + 1
  BY DEF Declare
<1>3. j = 1 /\ nodes = IdsTo(i - 1) /\ Elements(roots) = RootsTo(i - 1)
  BY <1>2 DEF ListsInv, Declaring
<1>4. /\ IdsTo(i) = IdsTo(i - 1) \cup {n}
      /\ RootsTo(i) = IF s.deps = <<>> THEN RootsTo(i - 1) \cup {n} ELSE RootsTo(i - 1)
  BY <1>1, OneMoreSubtask
<1>5. Elements(roots)' = RootsTo(i)
  <2> HIDE DEF n, s
  <2>1. CASE s.deps = <<>>
    <3>1. Elements(Append(roots, n)) = Elements(roots) \cup {n}
      BY <1>1, AppendElements
    <3>2. Elements(roots)' = Elements(Append(roots, n))
      BY <1>2, <2>1 DEF Elements
    <3> QED
      BY <1>3, <1>4, <2>1, <3>1, <3>2
  <2>2. CASE s.deps # <<>>
    <3>1. Elements(roots)' = Elements(roots)
      BY <1>2, <2>2 DEF Elements
    <3> QED
      BY <1>3, <1>4, <2>2, <3>1
  <2> QED
    BY <2>1, <2>2
<1>6. IdsTo(i - 1)' = IdsTo(i) /\ RootsTo(i - 1)' = RootsTo(i)
  <2>1. i' - 1 = i
    BY <1>1, <1>2
  <2> QED
    BY <1>2, <2>1 DEF IdsTo, RootsTo
<1>7. nodes' = IdsTo(i)
  BY <1>2, <1>3, <1>4
<1> HIDE DEF n, s
<1>8. Declaring'
  BY <1>2, <1>3, <1>5, <1>6, <1>7 DEF Declaring
<1> QED
  BY <1>2, <1>8 DEF ListsInv, Linking

\* Between the loops all sub-tasks have been declared and nothing is linked.
LEMMA DeclaredKeepsLists ==
    ASSUME ParseInv, ListsInv, Declared
    PROVE  ListsInv'
<1>1. /\ pc = "declare" /\ i > Len(input) /\ pc' = "link" /\ i' = 1
      /\ UNCHANGED <<input, j, nodes, roots, successors>>
  BY DEF Declared
<1>2. i - 1 = Len(input)
  BY <1>1, InputShapes DEF ParseInv, ParseTypeOK
<1>3. j = 1 /\ nodes = IdsTo(Len(input)) /\ Elements(roots) = RootsTo(Len(input))
  BY <1>1, <1>2 DEF ListsInv, Declaring
<1>4. ASSUME NEW n \in Names, NEW m \in Names
      PROVE  n \notin Elements(successors'[m]) /\ ~LinkedTo(n, m)'
  <2>1. successors'[m] = <<>>
    BY <1>1 DEF ParseInv, NothingLinked
  <2>2. Elements(<<>>) = {}
    BY DEF Elements
  <2>3. ~LinkedTo(n, m)'
    <3>1. \A l \in DOMAIN input : ~(l < 1)
      BY InputShapes DEF ParseInv
    <3>2. \A l \in DOMAIN input : \A k \in DOMAIN input[l].deps : ~(k < 1)
      <4> SUFFICES ASSUME NEW l \in DOMAIN input, NEW k \in DOMAIN input[l].deps
                   PROVE  ~(k < 1)
        OBVIOUS
      <4>1. input[l].deps \in Seq(Names)
        BY InputShapes DEF ParseInv
      <4> QED
        BY <4>1
    <3> QED
      BY <1>1, <1>3, <3>1, <3>2 DEF LinkedTo
  <2> QED
    BY <2>1, <2>2, <2>3
<1>5. Linking'
  <2>1. \A n, m \in Names : Elements(successors[m])' = Elements(successors'[m])
    BY DEF Elements
  <2>2. /\ IdsTo(Len(input))' = IdsTo(Len(input)) /\ RootsTo(Len(input))' = RootsTo(Len(input))
        /\ Elements(roots)' = Elements(roots)
    BY <1>1 DEF IdsTo, RootsTo, Elements
  <2>3. nodes' = IdsTo(Len(input))' /\ Elements(roots)' = RootsTo(Len(input))'
    BY <1>1, <1>3, <2>2
  <2> QED
    BY <1>4, <2>1, <2>3 DEF Linking
<1> QED
  BY <1>1, <1>5 DEF ListsInv, Declaring

\* The second loop puts one more entry behind the name that is depended on.
LEMMA LinkKeepsLists ==
    ASSUME ParseInv, ListsInv, Link
    PROVE  ListsInv'
<1> DEFINE x == input[i].id
           y == input[i].deps[j]
<1>1. /\ i \in DOMAIN input /\ i \in Nat /\ j \in Nat /\ j \in DOMAIN input[i].deps
      /\ input[i].deps \in Seq(Names) /\ x \in Names /\ y \in Names
  <2>1. /\ i \in DOMAIN input /\ i \in Nat /\ j \in Nat \ {0} /\ j <= Len(input[i].deps)
    BY InputShapes DEF Link, ParseInv, ParseTypeOK
  <2>2. input[i].deps \in Seq(Names) /\ x \in Names
    BY <2>1, InputShapes DEF ParseInv
  <2>3. j \in DOMAIN input[i].deps
    BY <2>1, <2>2
  <2> QED
    BY <2>1, <2>2, <2>3
<1>2. /\ pc = "link" /\ UNCHANGED <<pc, input, i, nodes, roots>> /\ j' = j + 1
      /\ successors' = [successors EXCEPT ![y] = Append(successors[y], x)]
  BY DEF Link
<1>3. ASSUME NEW n \in Names, NEW m \in Names
      PROVE  LinkedTo(n, m)' <=> LinkedTo(n, m) \/ (n = x /\ m = y)
  <2>1. ASSUME LinkedTo(n, m)', ~(n = x /\ m = y) PROVE LinkedTo(n, m)
    <3>1. PICK l \in DOMAIN input : \E k \in DOMAIN input[l].deps :
              input[l].id = n /\ input[l].deps[k] = m /\ (l < i \/ (l = i /\ k < j + 1))
      BY <1>2, <2>1 DEF LinkedTo
    <3>2. PICK k \in DOMAIN input[l].deps :
              input[l].id = n /\ input[l].deps[k] = m /\ (l < i \/ (l = i /\ k < j + 1))
      BY <3>1
    <3>3. k \in Nat
      <4>1. input[l].deps \in Seq(Names)
        BY InputShapes DEF ParseInv
      <4> QED
        BY <4>1
    <3>4. ~(l = i /\ k = j)
      BY <2>1, <3>2
    <3>5. l < i \/ (l = i /\ k < j)
      BY <1>1, <3>2, <3>3, <3>4
    <3> QED
      BY <3>2, <3>5 DEF LinkedTo
  <2>2. ASSUME LinkedTo(n, m) PROVE LinkedTo(n, m)'
    <3>1. PICK l \in DOMAIN input : \E k \in DOMAIN input[l].deps :
              input[l].id = n /\ input[l].deps[k] = m /\ (l < i \/ (l = i /\ k < j))
      BY <2>2 DEF LinkedTo
    <3>2. PICK k \in DOMAIN input[l].deps :
              input[l].id = n /\ input[l].deps[k] = m /\ (l < i \/ (l = i /\ k < j))
      BY <3>1
    <3>3. k \in Nat
      <4>1. input[l].deps \in Seq(Names)
        BY InputShapes DEF ParseInv
      <4> QED
        BY <4>1
    <3>4. l < i \/ (l = i /\ k < j + 1)
      BY <1>1, <3>2, <3>3
    <3> QED
      BY <1>2, <3>2, <3>4 DEF LinkedTo
  <2>3. ASSUME n = x, m = y PROVE LinkedTo(n, m)'
    <3>1. j < j + 1
      BY <1>1
    <3> QED
      BY <1>1, <1>2, <2>3, <3>1 DEF LinkedTo
  <2> QED
    BY <2>1, <2>2, <2>3
<1> HIDE DEF x, y
<1>4. ASSUME NEW n \in Names, NEW m \in Names
      PROVE  n \in Elements(successors[m])' <=>
                 n \in Elements(successors[m]) \/ (n = x /\ m = y)
  <2>1. CASE m = y
    <3>1. successors[m] \in Seq(Names) /\ successors'[m] = Append(successors[m], x)
      BY <1>1, <1>2, <2>1 DEF ParseInv, ParseTypeOK
    <3>2. Elements(Append(successors[m], x)) = Elements(successors[m]) \cup {x}
      BY <1>1, <3>1, AppendElements
    <3>3. Elements(successors[m])' = Elements(Append(successors[m], x))
      BY <3>1 DEF Elements
    <3> QED
      BY <2>1, <3>2, <3>3
  <2>2. CASE m # y
    <3>1. successors'[m] = successors[m]
      BY <1>1, <1>2, <2>2 DEF ParseInv, ParseTypeOK
    <3> QED
      BY <2>2, <3>1 DEF Elements
  <2> QED
    BY <2>1, <2>2
<1>5. /\ nodes = IdsTo(Len(input)) /\ Elements(roots) = RootsTo(Len(input))
      /\ \A n, m \in Names : n \in Elements(successors[m]) <=> LinkedTo(n, m)
  BY <1>2 DEF ListsInv, Linking
<1>6. /\ IdsTo(Len(input))' = IdsTo(Len(input)) /\ RootsTo(Len(input))' = RootsTo(Len(input))
      /\ Elements(roots)' = Elements(roots)
  BY <1>2 DEF IdsTo, RootsTo, Elements
<1>7. Linking'
  BY <1>2, <1>3, <1>4, <1>5, <1>6 DEF Linking
<1> QED
  BY <1>2, <1>7 DEF ListsInv, Declaring

\* At the end of a sub-task's dependencies nothing of it is left to link.
LEMMA LinkedKeepsLists ==
    ASSUME ParseInv, ListsInv, Linked
    PROVE  ListsInv'
<1>1. /\ pc = "link" /\ i <= Len(input) /\ j > Len(input[i].deps)
      /\ i' = i + 1 /\ j' = 1 /\ UNCHANGED <<pc, input, nodes, roots, successors>>
  BY DEF Linked
<1>2. i \in DOMAIN input /\ i \in Nat /\ j \in Nat
  BY <1>1, InputShapes DEF ParseInv, ParseTypeOK
<1>3. ASSUME NEW n, NEW m PROVE LinkedTo(n, m)' <=> LinkedTo(n, m)
  <2>1. ASSUME NEW l \in DOMAIN input, NEW k \in DOMAIN input[l].deps
        PROVE  (l < i + 1 \/ (l = i + 1 /\ k < 1)) <=> (l < i \/ (l = i /\ k < j))
    <3>1. /\ input[l].deps \in Seq(Names) /\ l \in Nat
      BY InputShapes DEF ParseInv
    <3>2. k \in Nat \ {0} /\ k <= Len(input[l].deps) /\ Len(input[l].deps) \in Nat
      BY <3>1
    <3>3. l = i => k < j
      BY <1>1, <1>2, <3>2
    <3> QED
      BY <1>2, <3>1, <3>2, <3>3
  <2> QED
    BY <1>1, <2>1 DEF LinkedTo
<1>4. /\ IdsTo(Len(input))' = IdsTo(Len(input)) /\ RootsTo(Len(input))' = RootsTo(Len(input))
      /\ Elements(roots)' = Elements(roots)
      /\ \A m : Elements(successors[m])' = Elements(successors[m])
  BY <1>1 DEF IdsTo, RootsTo, Elements
<1>5. Linking'
  BY <1>1, <1>3, <1>4 DEF ListsInv, Linking
<1> QED
  BY <1>1, <1>5 DEF ListsInv, Declaring

\* The appended reduction completes the graph.
LEMMA AppendReduceKeepsLists ==
    ASSUME ParseInv, ListsInv, AppendReduce
    PROVE  ListsInv'
<1> DEFINE ids == IdsTo(Len(input))
<1>1. /\ pc = "link" /\ i > Len(input) /\ pc' = "done" /\ UNCHANGED <<input, i, j, roots>>
      /\ nodes' = nodes \cup {Reduce}
      /\ successors' = [n \in Names |->
             IF n \in Leaves THEN Append(successors[n], Reduce) ELSE successors[n]]
  BY DEF AppendReduce
<1>2. SUFFICES ASSUME WellFormed' PROVE Parsed'
  BY <1>1 DEF ListsInv, Declaring, Linking
<1>3. WellFormed
  BY <1>1, <1>2 DEF WellFormed
<1>4. /\ nodes = ids /\ Elements(roots) = RootsTo(Len(input))
      /\ \A n, m \in Names : n \in Elements(successors[m]) <=> LinkedTo(n, m)
  BY <1>1 DEF ListsInv, Linking
<1>5. \A n, m \in Names : LinkedTo(n, m) <=> Depends(n, m)
  <2>1. \A l \in DOMAIN input : l < i
    BY <1>1, InputShapes DEF ParseInv, ParseTypeOK
  <2> QED
    BY <2>1 DEF LinkedTo, Depends, Elements
<1>6. \A m : ~Depends(Reduce, m)
  BY <1>3 DEF WellFormed, Depends
<1>7. \A m \in Names : m \in Leaves <=> m \in ids /\ \A x \in Names : ~Depends(x, m)
  <2> SUFFICES ASSUME NEW m \in Names
               PROVE  successors[m] = <<>> <=> \A x \in Names : ~Depends(x, m)
    BY <1>4 DEF Leaves
  <2>1. successors[m] \in Seq(Names)
    BY DEF ParseInv, ParseTypeOK
  <2>2. successors[m] = <<>> <=> Elements(successors[m]) = {}
    BY <2>1, NoElements
  <2>3. Elements(successors[m]) \subseteq Names
    BY <2>1 DEF Elements
  <2> QED
    BY <1>4, <1>5, <2>2, <2>3
<1>8. /\ IdsTo(Len(input))' = ids /\ RootsTo(Len(input))' = RootsTo(Len(input))
      /\ Elements(roots)' = Elements(roots)
      /\ \A n, m : Depends(n, m)' <=> Depends(n, m)
  BY <1>1 DEF IdsTo, RootsTo, Elements, Depends
<1> HIDE DEF ids
<1>9. ASSUME NEW n \in Names, NEW m \in Names
      PROVE  n \in Elements(successors[m])' <=>
                 IF n = Reduce THEN m \in ids /\ \A x \in Names : ~Depends(x, m)
                 ELSE Depends(n, m)
  <2>0. successors[m] \in Seq(Names) /\ Reduce \in Names
    BY ParseAssumption DEF ParseInv, ParseTypeOK
  <2>1. CASE m \in Leaves
    <3>1. successors'[m] = Append(successors[m], Reduce)
      BY <1>1, <2>1
    <3>2. Elements(successors[m])' = Elements(successors[m]) \cup {Reduce}
      <4>1. Elements(Append(successors[m], Reduce)) = Elements(successors[m]) \cup {Reduce}
        BY <2>0, AppendElements
      <4> QED
        BY <3>1, <4>1 DEF Elements
    <3> QED
      BY <1>4, <1>5, <1>7, <2>1, <3>2
  <2>2. CASE m \notin Leaves
    <3>1. successors'[m] = successors[m]
      BY <1>1, <2>2
    <3>2. Elements(successors[m])' = Elements(successors[m])
      BY <3>1 DEF Elements
    <3> QED
      BY <1>4, <1>5, <1>6, <1>7, <2>0, <2>2, <3>2
  <2> QED
    BY <2>1, <2>2
<1>10. nodes' = ids \cup {Reduce}
  BY <1>1, <1>4
<1> QED
  BY <1>4, <1>8, <1>9, <1>10 DEF Parsed

\* What has been written is about seven of the variables.
LEMMA SameLists ==
    ASSUME ListsInv, UNCHANGED vars
    PROVE  ListsInv'
<1>1. UNCHANGED <<pc, input, i, j, nodes, roots, successors>>
  BY DEF vars
<1>2. /\ \A k : IdsTo(k)' = IdsTo(k) /\ RootsTo(k)' = RootsTo(k)
      /\ \A s : Elements(s)' = Elements(s)
      /\ \A n, m : (LinkedTo(n, m)' <=> LinkedTo(n, m)) /\ (Depends(n, m)' <=> Depends(n, m))
      /\ WellFormed' <=> WellFormed
  BY <1>1 DEF IdsTo, RootsTo, Elements, LinkedTo, Depends, WellFormed
<1> QED
  BY <1>1, <1>2 DEF ListsInv, Declaring, Linking, Parsed

\* Every step keeps what has been written in order.
LEMMA NextListsInv == ParseInv /\ ListsInv /\ [Next]_vars => ListsInv'
<1> SUFFICES ASSUME ParseInv, ListsInv, [Next]_vars PROVE ListsInv'
  OBVIOUS
<1>1. CASE FallBack
  <2>1. pc = "raw" /\ pc' = "done" /\ input' = input
    BY <1>1 DEF FallBack
  <2>2. input' = <<>>
    BY <2>1 DEF ParseInv, Unread
  <2> QED
    BY <2>1, <2>2 DEF ListsInv, Declaring, Linking
<1>2. CASE Unmarshal
  <2>1. pc = "raw" /\ pc' = "declare" /\ UNCHANGED <<i, j, nodes, roots>>
    BY <1>2 DEF Unmarshal
  <2>2. i = 1 /\ j = 1 /\ nodes = IdsTo(i - 1) /\ Elements(roots) = RootsTo(i - 1)
    BY <2>1 DEF ListsInv, Declaring
  <2>3. \A l : l \notin 1 .. i - 1
    BY <2>2
  <2>4. /\ IdsTo(i - 1)' = IdsTo(i - 1) /\ RootsTo(i - 1)' = RootsTo(i - 1)
        /\ Elements(roots)' = Elements(roots)
    BY <2>1, <2>3 DEF IdsTo, RootsTo, Elements
  <2> QED
    BY <2>1, <2>2, <2>4 DEF ListsInv, Declaring, Linking
<1> QED
  BY <1>1, <1>2, DeclareKeepsLists, DeclaredKeepsLists, LinkKeepsLists, LinkedKeepsLists,
     AppendReduceKeepsLists, SameLists DEF Next

\* What has been written is in order throughout.
LEMMA ListsInvHolds == Spec => [](ParseInv /\ ListsInv)
<1>1. Init => ParseInv /\ ListsInv
  BY InitParseInv, InitListsInv
<1>2. (ParseInv /\ ListsInv) /\ [Next]_vars => (ParseInv /\ ListsInv)'
  BY NextParseInv, NextListsInv
<1> QED
  BY <1>1, <1>2, PTL DEF Spec

-----------------------------------------------------------------------------
(* The rounds of a parsed graph.                                           *)

\* A decomposition that has been made a graph, without using a name twice.
Complete == ParseInv /\ Parsed /\ pc = "done" /\ WellFormed /\ input # <<>>

\* All of its sub-tasks can be worked off.
AllWorkable == Workable[Len(input)] = nodes \ {Reduce}

\* The names of the sub-tasks.
Ids == IdsTo(Len(input))

\* Only sub-tasks depend on something, and the roots are those that do not.
LEMMA IdFacts ==
    ASSUME Complete
    PROVE  /\ Ids \subseteq Names /\ Reduce \notin Ids /\ Ids # {} /\ nodes = Ids \cup {Reduce}
           /\ \A n, m : Depends(n, m) => n \in Ids /\ m \in Names
           /\ \A n \in Ids : n \in Elements(roots) <=> \A m : ~Depends(n, m)
           /\ Elements(roots) \subseteq Ids
<1>0. /\ Len(input) \in Nat /\ DOMAIN input = 1 .. Len(input)
      /\ \A l \in DOMAIN input : input[l].id \in Names /\ input[l].deps \in Seq(Names)
  BY InputShapes DEF Complete, ParseInv
<1>1. Ids \subseteq Names /\ Reduce \notin Ids
  BY <1>0 DEF Ids, IdsTo, Complete, WellFormed
<1>2. Ids # {}
  <2>1. 1 \in 1 .. Len(input)
    BY <1>0 DEF Complete, ParseInv, ParseTypeOK
  <2> QED
    BY <2>1 DEF Ids, IdsTo
<1>3. nodes = Ids \cup {Reduce} /\ Elements(roots) = RootsTo(Len(input))
  BY DEF Complete, Parsed, Ids
<1>4. \A n, m : Depends(n, m) => n \in Ids /\ m \in Names
  <2> SUFFICES ASSUME NEW n, NEW m, Depends(n, m) PROVE n \in Ids /\ m \in Names
    OBVIOUS
  <2>1. PICK l \in DOMAIN input : input[l].id = n /\ m \in Elements(input[l].deps)
    BY DEF Depends
  <2>2. m \in Names
    BY <1>0, <2>1 DEF Elements
  <2> QED
    BY <1>0, <2>1, <2>2 DEF Ids, IdsTo
<1>5. Elements(roots) \subseteq Ids
  BY <1>3 DEF RootsTo, Ids, IdsTo
<1>6. ASSUME NEW n \in Ids PROVE n \in Elements(roots) <=> \A m : ~Depends(n, m)
  <2>1. PICK l \in DOMAIN input : input[l].id = n
    BY <1>0 DEF Ids, IdsTo
  <2>2. \A k \in DOMAIN input : input[k].id = n => k = l
    BY <2>1 DEF Complete, WellFormed
  <2>3. n \in Elements(roots) <=> input[l].deps = <<>>
    BY <1>0, <1>3, <2>1, <2>2 DEF RootsTo
  <2>4. \A m : Depends(n, m) <=> m \in Elements(input[l].deps)
    BY <2>1, <2>2 DEF Depends
  <2>5. input[l].deps = <<>> <=> Elements(input[l].deps) = {}
    BY <1>0, NoElements
  <2> QED
    BY <2>3, <2>4, <2>5
<1> QED
  BY <1>1, <1>2, <1>3, <1>4, <1>5, <1>6

\* A sub-task is workable in the round after all that it depends on.
LEMMA WorkableNext ==
    ASSUME Complete, NEW k \in Nat
    PROVE  /\ Workable[0] = {}
           /\ Workable[k] \subseteq Ids
           /\ \A n \in Ids : n \in Workable[k + 1] <=>
                  \A m : Depends(n, m) => m \in Workable[k]
<1>1. \A r \in Nat : Workable[r] =
          IF r = 0 THEN {}
          ELSE {input[l].id : l \in {m \in DOMAIN input :
                    Elements(input[m].deps) \subseteq Workable[r - 1]}}
  BY WorkableRounds DEF Complete, ParseInv
<1>2. Workable[0] = {}
  BY <1>1
<1>3. DOMAIN input = 1 .. Len(input)
  BY InputShapes DEF Complete, ParseInv
<1>4. Workable[k] \subseteq Ids
  <2>1. CASE k = 0
    BY <1>2, <2>1
  <2>2. CASE k # 0
    <3> DEFINE L == {m \in DOMAIN input : Elements(input[m].deps) \subseteq Workable[k - 1]}
    <3>1. Workable[k] = {input[l].id : l \in L} /\ L \subseteq 1 .. Len(input)
      BY <1>1, <1>3, <2>2
    <3> HIDE DEF L
    <3> QED
      BY <3>1 DEF Ids, IdsTo
  <2> QED
    BY <2>1, <2>2
<1>5. Workable[k + 1] =
          {input[l].id : l \in {m \in DOMAIN input : Elements(input[m].deps) \subseteq Workable[k]}}
  <2>1. k + 1 \in Nat /\ k + 1 # 0 /\ (k + 1) - 1 = k
    OBVIOUS
  <2> QED
    BY <1>1, <2>1
<1>6. ASSUME NEW n \in Ids
      PROVE  n \in Workable[k + 1] <=> \A m : Depends(n, m) => m \in Workable[k]
  <2>1. PICK l \in DOMAIN input : input[l].id = n
    BY <1>3 DEF Ids, IdsTo
  <2>2. \A r \in DOMAIN input : input[r].id = n => r = l
    BY <2>1 DEF Complete, WellFormed
  <2>3. \A m : Depends(n, m) <=> m \in Elements(input[l].deps)
    BY <2>1, <2>2 DEF Depends
  <2>4. n \in Workable[k + 1] <=> Elements(input[l].deps) \subseteq Workable[k]
    BY <1>5, <2>1, <2>2
  <2> QED
    BY <2>3, <2>4
<1> QED
  BY <1>2, <1>4, <1>6

\* What is workable in a round is so in the next.
LEMMA WorkableGrows ==
    ASSUME Complete, NEW k \in Nat
    PROVE  Workable[k] \subseteq Workable[k + 1]
<1> DEFINE T == {r \in Nat : ~(Workable[r] \subseteq Workable[r + 1])}
<1>1. SUFFICES ASSUME T # {} PROVE FALSE
  OBVIOUS
<1>2. PICK r \in T : \A l \in T : ~(l < r)
  <2>1. T \subseteq Nat
    OBVIOUS
  <2> HIDE DEF T
  <2> QED
    BY <1>1, <2>1, LeastNumber
<1>3. r \in Nat /\ r + 1 \in Nat
  OBVIOUS
<1>4. PICK n \in Workable[r] : n \notin Workable[r + 1]
  OBVIOUS
<1>5. r # 0
  BY <1>4, WorkableNext
<1>6. PICK q \in Nat : r = q + 1
  <2>1. r - 1 \in Nat /\ r = (r - 1) + 1
    BY <1>3, <1>5
  <2> QED
    BY <2>1
<1>7. Workable[q] \subseteq Workable[q + 1]
  <2>1. q < r
    BY <1>6
  <2> QED
    BY <1>2, <1>6, <2>1
<1>8. n \in Ids
  BY <1>3, <1>4, WorkableNext
<1>9. \A m : Depends(n, m) => m \in Workable[q]
  BY <1>4, <1>6, <1>8, WorkableNext
<1>10. n \in Workable[r + 1]
  BY <1>3, <1>6, <1>7, <1>8, <1>9, WorkableNext
<1> QED
  BY <1>4, <1>10

\* If all can be worked off, sub-tasks depend on sub-tasks only.
LEMMA DependsOnIds ==
    ASSUME Complete, AllWorkable, NEW n, NEW m, Depends(n, m)
    PROVE  m \in Ids
<1>1. n \in Ids /\ nodes \ {Reduce} = Ids
  BY IdFacts
<1>2. n \in Workable[Len(input)] /\ Len(input) \in Nat
  BY <1>1, InputShapes DEF AllWorkable, Complete, ParseInv
<1>3. Len(input) # 0
  BY <1>2, WorkableNext
<1>4. PICK q \in Nat : Len(input) = q + 1
  <2>1. Len(input) - 1 \in Nat /\ Len(input) = (Len(input) - 1) + 1
    BY <1>2, <1>3
  <2> QED
    BY <2>1
<1>5. m \in Workable[q]
  BY <1>1, <1>2, <1>4, WorkableNext
<1> QED
  BY <1>5, WorkableNext

\* Then of some sub-tasks there is one that none of them depends on: one that is not
\* workable before the last round in which one of them becomes so.
LEMMA LastOfSome ==
    ASSUME Complete, AllWorkable, NEW B, B \subseteq Ids, B # {}
    PROVE  \E b \in B : \A x \in B : ~Depends(x, b)
<1> DEFINE T == {r \in Nat : B \subseteq Workable[r]}
<1>1. Len(input) \in T
  BY IdFacts, InputShapes DEF AllWorkable, Complete, ParseInv
<1>2. PICK r \in T : \A l \in T : ~(l < r)
  <2>1. T \subseteq Nat /\ T # {}
    BY <1>1
  <2> HIDE DEF T
  <2> QED
    BY <2>1, LeastNumber
<1>3. r \in Nat /\ B \subseteq Workable[r]
  OBVIOUS
<1>4. r # 0
  BY <1>3, WorkableNext
<1>5. PICK q \in Nat : r = q + 1
  <2>1. r - 1 \in Nat /\ r = (r - 1) + 1
    BY <1>3, <1>4
  <2> QED
    BY <2>1
<1>6. PICK b \in B : b \notin Workable[q]
  <2>1. q < r
    BY <1>5
  <2> QED
    BY <1>2, <1>5, <2>1
<1>7. ASSUME NEW x \in B, Depends(x, b) PROVE FALSE
  BY <1>3, <1>5, <1>6, <1>7, WorkableNext
<1> QED
  BY <1>7

\* The edges into a node that come from some of the others are as many as its count
\* just if they are all.
LEMMA EnoughEdges ==
    ASSUME Complete, NEW n \in nodes, NEW X
    PROVE  LET edges == {e \in EdgesInto(n) : e[1] \in X} IN
           edges # {} /\ predNums[n] <= Cardinality(edges) <=>
               /\ \E m \in Names : n \in Elements(successors[m])
               /\ \A m \in Names : n \in Elements(successors[m]) => m \in X
<1> DEFINE E == EdgesInto(n)
           edges == {e \in E : e[1] \in X}
<1>1. n \in Names /\ IsFiniteSet(E) /\ predNums[n] = Cardinality(E)
  BY DEF Complete, ParseInv, ParseTypeOK, Finished, Counted
<1>2. ASSUME NEW e \in E
      PROVE  e[1] \in Names /\ n \in Elements(successors[e[1]])
  <2>1. PICK m \in Names : \E k \in DOMAIN successors[m] : e = <<m, k>> /\ successors[m][k] = n
    BY EdgeOf
  <2> QED
    BY <2>1 DEF Elements
<1>3. ASSUME NEW m \in Names, n \in Elements(successors[m])
      PROVE  \E e \in E : e[1] = m
  <2>1. PICK k \in DOMAIN successors[m] : successors[m][k] = n
    BY <1>3 DEF Elements
  <2>2. <<m, k>> \in E
    BY <2>1, EdgeShape
  <2> QED
    BY <2>2
<1> HIDE DEF E
<1>4. edges \subseteq E /\ IsFiniteSet(edges)
  BY <1>1, FS_Subset
<1>5. predNums[n] <= Cardinality(edges) <=> edges = E
  <2>1. Cardinality(edges) <= Cardinality(E) /\ Cardinality(edges) \in Nat /\ Cardinality(E) \in Nat
    BY <1>1, <1>4, FS_Subset, FS_CardinalityType
  <2>2. Cardinality(edges) = Cardinality(E) => edges = E
    BY <1>1, <1>4, FS_Subset
  <2> HIDE DEF edges
  <2> QED
    BY <1>1, <2>1, <2>2
<1>6. edges = E <=> \A m \in Names : n \in Elements(successors[m]) => m \in X
  BY <1>2, <1>3
<1>7. E # {} <=> \E m \in Names : n \in Elements(successors[m])
  BY <1>2, <1>3
<1>8. edges # {} /\ predNums[n] <= Cardinality(edges) <=>
          /\ \E m \in Names : n \in Elements(successors[m])
          /\ \A m \in Names : n \in Elements(successors[m]) => m \in X
  <2> HIDE DEF edges
  <2> QED
    BY <1>5, <1>6, <1>7
<1> QED
  BY <1>8 DEF E

\* A sub-task is executed in the round after all that it depends on, and the
\* reduction in the round after all that nothing depends on.
LEMMA ExecutedNext ==
    ASSUME Complete, NEW k \in Nat
    PROVE  /\ Executed[0] = {}
           /\ Executed[k] \subseteq nodes
           /\ \A n \in Ids : n \in Executed[k + 1] <=>
                  \A m : Depends(n, m) => m \in Executed[k]
           /\ Reduce \in Executed[k + 1] <=>
                  /\ \E m \in Ids : \A x : ~Depends(x, m)
                  /\ \A m \in Ids : (\A x : ~Depends(x, m)) => m \in Executed[k]
<1> DEFINE Ready(X) == {n \in nodes :
                            LET edges == {e \in EdgesInto(n) : e[1] \in X} IN
                            edges # {} /\ predNums[n] <= Cardinality(edges)}
<1>1. \A r \in Nat : Executed[r] =
          IF r = 0 THEN {} ELSE Elements(roots) \cup Ready(Executed[r - 1])
  BY ExecutedRounds DEF Complete, ParseInv
<1>2. \A X, n : n \in Ready(X) <=>
          /\ n \in nodes
          /\ \E m \in Names : n \in Elements(successors[m])
          /\ \A m \in Names : n \in Elements(successors[m]) => m \in X
  BY EnoughEdges
<1> HIDE DEF Ready
<1>3. Executed[0] = {}
  BY <1>1
<1>4. Elements(roots) \subseteq nodes
  BY IdFacts
<1>5. Executed[k] \subseteq nodes
  <2>1. CASE k = 0
    BY <1>3, <2>1
  <2>2. CASE k # 0
    <3>1. Executed[k] = Elements(roots) \cup Ready(Executed[k - 1])
      BY <1>1, <2>2
    <3>2. Ready(Executed[k - 1]) \subseteq nodes
      BY <1>2
    <3> QED
      BY <1>4, <3>1, <3>2
  <2> QED
    BY <2>1, <2>2
<1>6. Executed[k + 1] = Elements(roots) \cup Ready(Executed[k])
  <2>1. k + 1 \in Nat /\ k + 1 # 0 /\ (k + 1) - 1 = k
    OBVIOUS
  <2> QED
    BY <1>1, <2>1
<1>7. \A n, m \in Names : n \in Elements(successors[m]) <=>
          IF n = Reduce THEN m \in Ids /\ \A x \in Names : ~Depends(x, m) ELSE Depends(n, m)
  BY DEF Complete, Parsed, Ids
<1>8. ASSUME NEW n \in Ids
      PROVE  n \in Executed[k + 1] <=> \A m : Depends(n, m) => m \in Executed[k]
  <2>1. n \in nodes /\ n \in Names /\ n # Reduce
    BY IdFacts
  <2>2. n \in Elements(roots) <=> \A m : ~Depends(n, m)
    BY IdFacts
  <2>3. \A m : Depends(n, m) => m \in Names
    BY IdFacts
  <2>4. n \in Ready(Executed[k]) <=>
            /\ \E m \in Names : Depends(n, m)
            /\ \A m \in Names : Depends(n, m) => m \in Executed[k]
    BY <1>2, <1>7, <2>1
  <2> QED
    BY <1>6, <2>2, <2>3, <2>4
<1>9. Reduce \in Executed[k + 1] <=>
          /\ \E m \in Ids : \A x : ~Depends(x, m)
          /\ \A m \in Ids : (\A x : ~Depends(x, m)) => m \in Executed[k]
  <2>1. Reduce \in nodes /\ Reduce \in Names /\ Reduce \notin Elements(roots) /\ Ids \subseteq Names
    BY IdFacts, ParseAssumption
  <2>2. \A x, m : Depends(x, m) => x \in Names
    BY IdFacts
  <2>3. \A m : (\A x \in Names : ~Depends(x, m)) <=> (\A x : ~Depends(x, m))
    BY <2>2
  <2>4. Reduce \in Ready(Executed[k]) <=>
            /\ \E m \in Names : m \in Ids /\ \A x : ~Depends(x, m)
            /\ \A m \in Names : m \in Ids /\ (\A x : ~Depends(x, m)) => m \in Executed[k]
    BY <1>2, <1>7, <2>1, <2>3
  <2> QED
    BY <1>6, <2>1, <2>4
<1> QED
  BY <1>3, <1>5, <1>8, <1>9

\* Sub-tasks are executed round by round as they can be worked off.
LEMMA SameRounds ==
    ASSUME Complete, AllWorkable, NEW k \in Nat
    PROVE  Executed[k] \ {Reduce} = Workable[k]
<1> DEFINE T == {r \in Nat : Executed[r] \ {Reduce} # Workable[r]}
<1>1. SUFFICES ASSUME T # {} PROVE FALSE
  OBVIOUS
<1>2. PICK r \in T : \A l \in T : ~(l < r)
  <2>1. T \subseteq Nat
    OBVIOUS
  <2> HIDE DEF T
  <2> QED
    BY <1>1, <2>1, LeastNumber
<1>3. r \in Nat /\ Executed[r] \ {Reduce} # Workable[r]
  OBVIOUS
<1>4. r # 0
  BY <1>3, WorkableNext, ExecutedNext
<1>5. PICK q \in Nat : r = q + 1
  <2>1. r - 1 \in Nat /\ r = (r - 1) + 1
    BY <1>3, <1>4
  <2> QED
    BY <2>1
<1>6. Executed[q] \ {Reduce} = Workable[q]
  <2>1. q < r
    BY <1>5
  <2> QED
    BY <1>2, <1>5, <2>1
<1>7. \A n, m : Depends(n, m) => m # Reduce
  BY DependsOnIds, IdFacts
<1>8. ASSUME NEW n \in Ids PROVE n \in Executed[r] <=> n \in Workable[r]
  <2>1. n \in Executed[r] <=> \A m : Depends(n, m) => m \in Executed[q]
    BY <1>5, ExecutedNext
  <2>2. n \in Workable[r] <=> \A m : Depends(n, m) => m \in Workable[q]
    BY <1>5, WorkableNext
  <2> QED
    BY <1>6, <1>7, <2>1, <2>2
<1>9. Executed[r] \ {Reduce} \subseteq Ids /\ Workable[r] \subseteq Ids /\ Reduce \notin Ids
  BY <1>3, IdFacts, WorkableNext, ExecutedNext
<1> QED
  BY <1>3, <1>8, <1>9

\* The reduction waits for all the sub-tasks.
LEMMA ReductionWaits ==
    ASSUME Complete, AllWorkable, NEW k \in Nat, Reduce \in Executed[k + 1]
    PROVE  Workable[k] = Ids
<1>1. Workable[k] \subseteq Ids
  BY WorkableNext
<1>2. SUFFICES ASSUME Ids \ Workable[k] # {} PROVE FALSE
  BY <1>1
<1>3. PICK b \in Ids \ Workable[k] : \A x \in Ids \ Workable[k] : ~Depends(x, b)
  <2> DEFINE B == Ids \ Workable[k]
  <2>1. B \subseteq Ids /\ B # {}
    BY <1>2
  <2> HIDE DEF B
  <2>2. \E b \in B : \A x \in B : ~Depends(x, b)
    BY <2>1, LastOfSome
  <2> QED
    BY <2>2 DEF B
<1>4. b # Reduce
  BY IdFacts
<1>5. ~\A x : ~Depends(x, b)
  <2> SUFFICES ASSUME \A x : ~Depends(x, b) PROVE FALSE
    OBVIOUS
  <2>1. b \in Executed[k]
    BY ExecutedNext
  <2> QED
    BY <1>3, <1>4, <2>1, SameRounds
<1>6. PICK x : Depends(x, b)
  BY <1>5
<1>7. x \in Workable[k]
  BY <1>3, <1>6, IdFacts
<1>8. k # 0
  BY <1>7, WorkableNext
<1>9. PICK q \in Nat : k = q + 1
  <2>1. k - 1 \in Nat /\ k = (k - 1) + 1
    BY <1>8
  <2> QED
    BY <2>1
<1>10. b \in Workable[q]
  BY <1>6, <1>7, <1>9, IdFacts, WorkableNext
<1> QED
  BY <1>3, <1>9, <1>10, WorkableGrows

\* If every sub-task of a decomposition can be worked off then the graph that parse
\* makes of it gets all of them done, in the rounds in which they can be worked off,
\* and the reduction that it appends after all of them.
THEOREM ReductionComesLast == Spec => []ReductionIsLast
<1>1. ASSUME Complete, AllWorkable
      PROVE  LET rounds == Len(input) IN
             /\ \A k \in 0 .. rounds : Executed[k] \ {Reduce} = Workable[k]
             /\ Executed[rounds + 1] = nodes
             /\ \A k \in 0 .. rounds :
                    Reduce \in Executed[k + 1] => Workable[k] = nodes \ {Reduce}
  <2> DEFINE rounds == Len(input)
  <2>1. rounds \in Nat
    BY <1>1, InputShapes DEF Complete, ParseInv
  <2> HIDE DEF rounds
  <2>2. nodes \ {Reduce} = Ids /\ nodes = Ids \cup {Reduce}
    BY <1>1, IdFacts
  <2>3. Workable[rounds] = Ids
    BY <1>1, <2>2 DEF AllWorkable, rounds
  <2>4. \A k \in 0 .. rounds : Executed[k] \ {Reduce} = Workable[k]
    BY <1>1, SameRounds
  <2>5. \A k \in 0 .. rounds : Reduce \in Executed[k + 1] => Workable[k] = nodes \ {Reduce}
    BY <1>1, <2>2, ReductionWaits
  <2>6. Executed[rounds + 1] \subseteq nodes
    BY <1>1, <2>1, ExecutedNext
  <2>7. Ids \subseteq Executed[rounds + 1]
    <3>1. Ids \subseteq Workable[rounds + 1]
      BY <1>1, <2>1, <2>3, WorkableGrows
    <3> QED
      BY <1>1, <2>1, <3>1, SameRounds
  <2>8. Reduce \in Executed[rounds + 1]
    <3>1. \E m \in Ids : \A x : ~Depends(x, m)
      <4>1. Ids # {} /\ Ids \subseteq Ids
        BY <1>1, IdFacts
      <4>2. PICK m \in Ids : \A x \in Ids : ~Depends(x, m)
        BY <1>1, <4>1, LastOfSome
      <4> QED
        BY <1>1, <4>2, IdFacts
    <3>2. Ids \subseteq Executed[rounds]
      BY <1>1, <2>1, <2>3, SameRounds
    <3> QED
      BY <1>1, <2>1, <3>1, <3>2, ExecutedNext
  <2>9. Executed[rounds + 1] = nodes
    BY <2>2, <2>6, <2>7, <2>8
  <2> QED
    BY <2>4, <2>5, <2>9 DEF rounds
<1>2. ParseInv /\ ListsInv => ReductionIsLast
  BY <1>1 DEF ListsInv, Complete, AllWorkable, ReductionIsLast
<1> QED
  BY <1>2, ListsInvHolds, PTL

\* A graph whose sub-tasks can all be worked off leads to its reduction.
GraphLeadsToReduction ==
    pc = "done" /\ WellFormed /\ input # <<>> /\ Workable[Len(input)] = nodes \ {Reduce} =>
        EverythingLeadsTo(Graph, Reduce)

\* The graphs that parse makes of such answers have what the workflow's theorems assume
\* of the graphs that have a reduction (ReductionsComeLast of Workflow): it depends on
\* every sub-task, on some by way of others.
THEOREM ParsedGraphsLeadToReduction == Spec => []GraphLeadsToReduction
<1>1. ASSUME Complete, AllWorkable, NEW S \in SUBSET nodes,
             PredsIn(Graph, Reduce) \subseteq S,
             \A n \in S : PredsIn(Graph, n) \subseteq S
      PROVE  nodes \ {Reduce} \subseteq S
  <2>1. /\ nodes = Ids \cup {Reduce} /\ Ids \subseteq Names /\ Reduce \in Names /\ Reduce \notin Ids
        /\ nodes \ {Reduce} = Ids
    BY <1>1, IdFacts, ParseAssumption
  <2>2. \A n \in Names, m \in Ids : m \in PredsIn(Graph, n) <=>
            IF n = Reduce THEN \A x \in Names : ~Depends(x, m) ELSE Depends(n, m)
    <3>1. \A n, m \in Names : n \in Elements(successors[m]) <=>
              IF n = Reduce THEN m \in Ids /\ \A x \in Names : ~Depends(x, m) ELSE Depends(n, m)
      BY <1>1 DEF Complete, Parsed, Ids
    <3>2. \A n \in Names, m \in Ids : m \in PredsIn(Graph, n) <=> n \in Elements(successors[m])
      BY <2>1 DEF PredsIn, Graph
    <3> QED
      BY <2>1, <3>1, <3>2
  <2>3. SUFFICES ASSUME Ids \ S # {} PROVE FALSE
    BY <2>1
  <2>4. PICK b \in Ids \ S : \A x \in Ids \ S : ~Depends(x, b)
    <3> DEFINE B == Ids \ S
    <3>1. B \subseteq Ids /\ B # {}
      BY <2>3
    <3> HIDE DEF B
    <3>2. \E b \in B : \A x \in B : ~Depends(x, b)
      BY <1>1, <3>1, LastOfSome
    <3> QED
      BY <3>2 DEF B
  <2>5. PICK x \in Names : Depends(x, b)
    BY <1>1, <2>1, <2>2, <2>4
  <2>6. x \in Ids
    BY <1>1, <2>5, IdFacts
  <2>7. x \in S /\ b \in PredsIn(Graph, x)
    BY <2>1, <2>2, <2>4, <2>5, <2>6
  <2> QED
    BY <1>1, <2>4, <2>7
<1>2. Graph.nodes = nodes
  BY DEF Graph
<1>3. ParseInv /\ ListsInv => GraphLeadsToReduction
  <2> SUFFICES ASSUME Complete, AllWorkable PROVE EverythingLeadsTo(Graph, Reduce)
    BY DEF ListsInv, Complete, AllWorkable, GraphLeadsToReduction
  <2> QED
    BY <1>1, <1>2 DEF EverythingLeadsTo
<1> QED
  BY <1>3, ListsInvHolds, PTL

=============================================================================
