------------------------- MODULE ConversationProofs -------------------------
(***************************************************************************)
(* What the model is told and what can be found again, proved for every    *)
(* value of the constants: filters and sorts keep what they should         *)
(* (Enumeration), every request of the agent loop is whole (AgentLoop),    *)
(* every line of a text is in a chunk (Chunking).                          *)
(***************************************************************************)
EXTENDS Runtime, Enumeration, Integers, Sequences, FiniteSets, FiniteSetTheorems,
        FunctionTheorems, SequenceTheorems, WellFoundedInduction, TLAPS

(* The variables of each part, by their names there.                        *)

\* AgentLoop
LOCAL protocol == s1
LOCAL loopPhase == s2
LOCAL conversation == s3
LOCAL turnStart == s4
LOCAL modelStep == s5
LOCAL invalid == s6

\* Chunking
LOCAL text == s1
LOCAL format == s2
LOCAL chunks == s3
LOCAL failed == s4

USE DEF protocol, loopPhase, conversation, turnStart, modelStep, invalid,
        text, format, chunks, failed

-----------------------------------------------------------------------------
(* Filters and sorts.                                                       *)

(* A bounded set of numbers that is not empty has a last and a first one.   *)
LEMMA Latest ==
    ASSUME NEW m \in Nat, NEW S \in SUBSET (0..m), S # {}
    PROVE  \E x \in S : \A y \in S : y <= x
<1> DEFINE T == {n..m : n \in S}
<1>1. IsFiniteSet(0..m)
  BY FS_Interval
<1>2. T \subseteq FiniteSubsetsOf(0..m) /\ T # {}
  <2>1. FiniteSubsetsOf(0..m) = SUBSET (0..m)
    BY <1>1, FS_FiniteSubsetsOfFinite
  <2>2. \A n \in S : n..m \in SUBSET (0..m)
    OBVIOUS
  <2>3. T \in SUBSET SUBSET (0..m)
    BY <2>2
  <2>4. PICK n \in S : TRUE
    OBVIOUS
  <2>5. n..m \in T
    OBVIOUS
  <2>6. T # {}
    BY <2>5
  <2> HIDE DEF T
  <2>7. QED BY <2>1, <2>3, <2>6
<1>3. PICK U \in T : \A V \in T : <<V, U>> \notin StrictSubsetOrdering(0..m)
  BY <1>2, FS_StrictSubsetOrderingWellFounded, WFMin
<1>4. PICK x \in S : U = x..m
  BY <1>3
<1>5. ASSUME NEW y \in S, ~ y <= x PROVE FALSE
  <2>1. y..m \subseteq x..m /\ y..m # x..m
    <3>1. x \in x..m /\ x \notin y..m
      BY <1>5
    <3>2. QED BY <1>5, <3>1
  <2>2. <<y..m, U>> \in StrictSubsetOrdering(0..m)
    BY <1>4, <2>1 DEF StrictSubsetOrdering
  <2>3. QED BY <1>3, <2>2
<1>6. QED BY <1>5

LEMMA Earliest ==
    ASSUME NEW m \in Nat, NEW S \in SUBSET (0..m), S # {}
    PROVE  \E x \in S : \A y \in S : x <= y
<1> DEFINE T == {m - x : x \in S}
<1>1. T \in SUBSET (0..m) /\ T # {}
  <2>1. \A x \in S : m - x \in 0..m
    OBVIOUS
  <2>2. QED BY <2>1
<1>2. PICK t \in T : \A u \in T : u <= t
  <2> HIDE DEF T
  <2>1. QED BY <1>1, Latest
<1>3. PICK x \in S : t = m - x
  OBVIOUS
<1>4. ASSUME NEW y \in S PROVE x <= y
  <2>1. m - y \in T /\ x \in Nat /\ y \in Nat
    OBVIOUS
  <2>2. m - y <= m - x
    BY <1>2, <1>3, <2>1
  <2>3. QED BY <2>1, <2>2
<1>5. QED BY <1>4

(* Of two elements one comes before the other, with all that is before it.  *)
IsOrder(S, before) ==
    /\ before \in [S -> SUBSET S]
    /\ \A a \in S : a \notin before[a]
    /\ \A a, b \in S : a # b =>
          before[a] \cup {a} \subseteq before[b] \/ before[b] \cup {b} \subseteq before[a]

(* The number of elements before one is its place, and every place is taken.*)
LEMMA InOrderEnumerates ==
    ASSUME NEW S, IsFiniteSet(S), NEW before, IsOrder(S, before)
    PROVE  /\ Cardinality(S) \in Nat
           /\ InOrder(S, before) \in [1..Cardinality(S) -> S]
           /\ \A n \in 1..Cardinality(S) :
                 Cardinality(before[InOrder(S, before)[n]]) = n - 1
           /\ \A a \in S :
                 /\ Cardinality(before[a]) + 1 \in 1..Cardinality(S)
                 /\ InOrder(S, before)[Cardinality(before[a]) + 1] = a
<1> DEFINE N == Cardinality(S)
           rank == [a \in S |-> Cardinality(before[a]) + 1]
<1>1. N \in Nat
  BY FS_CardinalityType
<1>2. ASSUME NEW a \in S
      PROVE  IsFiniteSet(before[a]) /\ Cardinality(before[a]) + 1 \in 1..N
  <2>1. before[a] \in SUBSET S /\ a \notin before[a] /\ before[a] \cup {a} \in SUBSET S
    BY DEF IsOrder
  <2>2. IsFiniteSet(before[a])
    BY <2>1, FS_Subset
  <2>3. Cardinality(before[a]) \in Nat
    BY <2>2, FS_CardinalityType
  <2>4. Cardinality(before[a] \cup {a}) = Cardinality(before[a]) + 1
    BY <2>1, <2>2, FS_AddElement
  <2>5. Cardinality(before[a] \cup {a}) <= N
    BY <2>1, FS_Subset
  <2>6. QED BY <1>1, <2>2, <2>3, <2>4, <2>5
<1>3. ASSUME NEW a \in S, NEW b \in S, before[a] \cup {a} \subseteq before[b]
      PROVE  Cardinality(before[a]) < Cardinality(before[b])
  <2>1. IsFiniteSet(before[a]) /\ IsFiniteSet(before[b]) /\ a \notin before[a]
    BY <1>2 DEF IsOrder
  <2>2. Cardinality(before[a]) \in Nat /\ Cardinality(before[b]) \in Nat
    BY <2>1, FS_CardinalityType
  <2>3. Cardinality(before[a] \cup {a}) = Cardinality(before[a]) + 1
    BY <2>1, FS_AddElement
  <2>4. Cardinality(before[a] \cup {a}) <= Cardinality(before[b])
    BY <1>3, <2>1, FS_Subset
  <2>5. QED BY <2>2, <2>3, <2>4
<1>4. ASSUME NEW a \in S, NEW b \in S, Cardinality(before[a]) = Cardinality(before[b])
      PROVE  a = b
  <2>1. Cardinality(before[a]) + 1 \in Nat /\ Cardinality(before[b]) + 1 \in Nat
    BY <1>1, <1>2
  <2>2. CASE a # b
    <3>1. before[a] \cup {a} \subseteq before[b] \/ before[b] \cup {b} \subseteq before[a]
      BY <2>2 DEF IsOrder
    <3>2. Cardinality(before[a]) < Cardinality(before[b])
          \/ Cardinality(before[b]) < Cardinality(before[a])
      BY <1>3, <3>1
    <3>3. IsFiniteSet(before[a]) /\ IsFiniteSet(before[b])
      BY <1>2
    <3>4. Cardinality(before[a]) \in Nat /\ Cardinality(before[b]) \in Nat
      BY <3>3, FS_CardinalityType
    <3>5. QED BY <1>4, <3>2, <3>4
  <2>3. QED BY <2>2
<1>5. rank \in Injection(S, 1..N)
  <2>1. rank \in [S -> 1..N]
    BY <1>2
  <2>2. ASSUME NEW a \in S, NEW b \in S, rank[a] = rank[b] PROVE a = b
    <3>1. IsFiniteSet(before[a]) /\ IsFiniteSet(before[b])
      BY <1>2
    <3>2. Cardinality(before[a]) \in Nat /\ Cardinality(before[b]) \in Nat
      BY <3>1, FS_CardinalityType
    <3>3. Cardinality(before[a]) = Cardinality(before[b])
      BY <2>2, <3>2
    <3>4. QED BY <1>4, <3>3
  <2>3. QED BY <2>1, <2>2, Fun_IsInj
<1>6. rank \in Surjection(S, 1..N)
  <2>1. IsFiniteSet(1..N) /\ Cardinality(1..N) = N
    BY <1>1, FS_Interval
  <2>2. QED BY <1>5, <2>1, FS_Injection
<1>7. ASSUME NEW n \in 1..N
      PROVE  \E a \in S : Cardinality(before[a]) = n - 1
  <2>1. PICK a \in S : rank[a] = n
    <3> HIDE DEF rank
    <3>1. \A m \in 1..N : \E a \in S : rank[a] = m
      BY ONLY <1>6, Fun_SurjectionProperties
    <3>2. QED BY <3>1
  <2>2. IsFiniteSet(before[a])
    BY <1>2
  <2>3. Cardinality(before[a]) \in Nat
    BY <2>2, FS_CardinalityType
  <2>4. QED BY <1>1, <2>1, <2>3
<1>8. ASSUME NEW n \in 1..N
      PROVE  /\ InOrder(S, before)[n] \in S
             /\ Cardinality(before[InOrder(S, before)[n]]) = n - 1
  <2>1. InOrder(S, before)[n] = CHOOSE a \in S : Cardinality(before[a]) = n - 1
    BY DEF InOrder
  <2>2. QED BY <1>7, <2>1
<1>9. InOrder(S, before) \in [1..N -> S]
  <2>1. InOrder(S, before) = [n \in 1..N |-> InOrder(S, before)[n]]
    BY DEF InOrder
  <2>2. QED BY <1>8, <2>1
<1>10. ASSUME NEW a \in S
       PROVE  InOrder(S, before)[Cardinality(before[a]) + 1] = a
  <2> DEFINE n == Cardinality(before[a]) + 1
  <2>1. n \in 1..N /\ IsFiniteSet(before[a])
    BY <1>2
  <2>2. Cardinality(before[a]) \in Nat
    BY <2>1, FS_CardinalityType
  <2>3. InOrder(S, before)[n] \in S
        /\ Cardinality(before[InOrder(S, before)[n]]) = Cardinality(before[a])
    BY <1>8, <2>1, <2>2
  <2>4. QED BY <1>4, <2>3
<1>11. QED BY <1>1, <1>2, <1>8, <1>9, <1>10

(* The same for the indices of a sequence.                                  *)
Place(K, i) == Cardinality({j \in K : j < i}) + 1

LEMMA AscendingEnumerates ==
    ASSUME NEW m \in Nat, NEW K \in SUBSET (1..m)
    PROVE  /\ IsFiniteSet(K) /\ Cardinality(K) \in Nat
           /\ Ascending(K) \in [1..Cardinality(K) -> K]
           /\ \A n \in 1..Cardinality(K) : Place(K, Ascending(K)[n]) = n
           /\ \A i \in K :
                 Place(K, i) \in 1..Cardinality(K) /\ Ascending(K)[Place(K, i)] = i
<1> DEFINE before == [i \in K |-> {j \in K : j < i}]
<1>1. IsFiniteSet(1..m)
  BY FS_Interval
<1>2. IsFiniteSet(K)
  BY <1>1, FS_Subset
<1>3. IsOrder(K, before)
  <2>1. before \in [K -> SUBSET K] /\ \A i \in K : i \notin before[i]
    OBVIOUS
  <2>2. ASSUME NEW i \in K, NEW j \in K, i < j
        PROVE  before[i] \cup {i} \subseteq before[j]
    <3>1. \A x \in K : x \in Nat
      OBVIOUS
    <3>2. before[i] = {x \in K : x < i} /\ before[j] = {x \in K : x < j}
      OBVIOUS
    <3> HIDE DEF before
    <3>3. \A x \in K : x < i \/ x = i => x < j
      BY <2>2, <3>1
    <3>4. \A x \in before[i] \cup {i} : x \in K /\ (x < i \/ x = i)
      BY <3>2
    <3>5. \A x \in before[i] \cup {i} : x \in before[j]
      BY <3>2, <3>3, <3>4
    <3>6. QED BY <3>5
  <2>3. ASSUME NEW i \in K, NEW j \in K, i # j
        PROVE  before[i] \cup {i} \subseteq before[j] \/ before[j] \cup {j} \subseteq before[i]
    <3> HIDE DEF before
    <3>1. i < j \/ j < i
      BY <2>3
    <3>2. QED BY <2>2, <3>1
  <2> HIDE DEF before
  <2>4. QED BY <2>1, <2>3 DEF IsOrder
<1>4. \A i \in K : Place(K, i) = Cardinality(before[i]) + 1
  BY DEF Place
<1>5. Ascending(K) = InOrder(K, before)
  BY DEF Ascending
<1> HIDE DEF before
<1>6. /\ Cardinality(K) \in Nat
      /\ Ascending(K) \in [1..Cardinality(K) -> K]
      /\ \A n \in 1..Cardinality(K) : Cardinality(before[Ascending(K)[n]]) = n - 1
      /\ \A i \in K : /\ Cardinality(before[i]) + 1 \in 1..Cardinality(K)
                      /\ Ascending(K)[Cardinality(before[i]) + 1] = i
  BY <1>2, <1>3, <1>5, InOrderEnumerates
<1>7. ASSUME NEW n \in 1..Cardinality(K) PROVE Place(K, Ascending(K)[n]) = n
  <2>1. Ascending(K)[n] \in K
    BY <1>6
  <2>2. QED BY <1>4, <1>6, <2>1
<1>8. QED BY <1>2, <1>4, <1>6, <1>7

(* A filter keeps the elements at the chosen indices, each once and in the  *)
(* order in which they were.                                                *)
THEOREM SelectKeeps ==
    ASSUME NEW V, NEW s \in Seq(V), NEW K \in SUBSET DOMAIN s
    PROVE  /\ Select(s, K) \in Seq(V) /\ Len(Select(s, K)) = Cardinality(K)
           /\ Cardinality(K) \in Nat
           /\ \A n \in 1..Cardinality(K) :
                 /\ Ascending(K)[n] \in K /\ Place(K, Ascending(K)[n]) = n
                 /\ Select(s, K)[n] = s[Ascending(K)[n]]
           /\ \A i \in K :
                 /\ Place(K, i) \in 1..Cardinality(K) /\ Ascending(K)[Place(K, i)] = i
                 /\ Select(s, K)[Place(K, i)] = s[i]
<1>1. Len(s) \in Nat /\ DOMAIN s = 1..Len(s) /\ \A i \in DOMAIN s : s[i] \in V
  OBVIOUS
<1>2. /\ Cardinality(K) \in Nat
      /\ Ascending(K) \in [1..Cardinality(K) -> K]
      /\ \A n \in 1..Cardinality(K) : Place(K, Ascending(K)[n]) = n
      /\ \A i \in K :
            Place(K, i) \in 1..Cardinality(K) /\ Ascending(K)[Place(K, i)] = i
  BY <1>1, AscendingEnumerates
<1>3. Select(s, K) = [n \in 1..Cardinality(K) |-> s[Ascending(K)[n]]]
  BY <1>2 DEF Select
<1>4. Select(s, K) \in Seq(V) /\ Len(Select(s, K)) = Cardinality(K)
  <2>1. \A n \in 1..Cardinality(K) : Ascending(K)[n] \in K /\ s[Ascending(K)[n]] \in V
    BY <1>1, <1>2
  <2>2. Select(s, K) \in [1..Cardinality(K) -> V]
    BY <1>3, <2>1
  <2>3. QED BY <1>2, <2>2
<1>5. QED BY <1>2, <1>3, <1>4

(* What stands together stays together.                                     *)
LEMMA NeighboursStay ==
    ASSUME NEW m \in Nat, NEW K \in SUBSET (1..m), NEW i \in Nat, NEW k \in Nat,
           \A j \in i..(i + k) : j \in K
    PROVE  Place(K, i + k) = Place(K, i) + k
<1> DEFINE low == {j \in K : j < i}
           mid == i..(i + k - 1)
<1>1. IsFiniteSet(1..m)
  BY FS_Interval
<1>2. low \in SUBSET (1..m)
  OBVIOUS
<1>3. IsFiniteSet(low)
  BY <1>1, <1>2, FS_Subset
<1>4. Cardinality(low) \in Nat
  BY <1>3, FS_CardinalityType
<1>5. IsFiniteSet(mid) /\ Cardinality(mid) = k
  <2>1. i \in Int /\ i + k - 1 \in Int /\ (k = 0 => i > i + k - 1) /\ (k # 0 => ~ i > i + k - 1)
    OBVIOUS
  <2>2. QED BY <2>1, FS_Interval
<1>6. {j \in K : j < i + k} = low \cup mid /\ low \cap mid = {}
  <2>1. \A j \in K : j \in Nat
    OBVIOUS
  <2>2. \A j \in mid : j \in i..(i + k) /\ j < i + k /\ ~ j < i
    OBVIOUS
  <2>3. \A j \in mid : j \in K
    BY <2>2
  <2>4. \A j \in K : j < i + k <=> j < i \/ j \in mid
    BY <2>1
  <2> HIDE DEF mid
  <2>5. QED BY <2>2, <2>3, <2>4
<1>7. Cardinality(low \cap mid) = 0
  BY <1>6, FS_EmptySet
<1>8. Cardinality(low \cup mid) = Cardinality(low) + k
  <2> HIDE DEF low, mid
  <2>1. Cardinality(low \cup mid) = Cardinality(low) + Cardinality(mid) - Cardinality(low \cap mid)
    BY <1>3, <1>5, FS_Union
  <2>2. QED BY <1>4, <1>5, <1>7, <2>1
<1>9. QED BY <1>4, <1>6, <1>8 DEF Place

-----------------------------------------------------------------------------
(* The conversation.  Each call of an assistant has its results right       *)
(* behind it whenever the loop is to ask again; while a batch runs, all but *)
(* the last message is like that.                                           *)

LEMMA LoopSelects == \A s, K : Loop!Select(s, K) = Select(s, K)
<1>1. \A S : Loop!Cardinality(S) = Cardinality(S)
  BY DEF Loop!Cardinality, Cardinality
<1>2. \A S, before : Loop!InOrder(S, before) = InOrder(S, before)
  BY <1>1 DEF Loop!InOrder, InOrder
<1>3. \A K : Loop!Ascending(K) = Ascending(K)
  BY <1>2 DEF Loop!Ascending, Ascending
<1>4. QED BY <1>3 DEF Loop!Select, Select

Role == {"system", "user", "assistant", "tool"}
Kind == {"none", "session_state", "permission"}
Said == {x \in [role : Role, state : Kind, calls : 0..MaxCalls]
               \cup [role : Role, state : Kind, calls : 0..MaxCalls, place : Nat] :
            /\ x.state # "none" => x.role = "system"
            /\ x.calls # 0 => x.role = "assistant"}

LEMMA MessagesAreSaid ==
    ASSUME Loop!LoopAssumption
    PROVE  /\ \A role \in Role : Loop!Message(role) \in Said
                 /\ Loop!Message(role).role = role /\ Loop!Message(role).calls = 0
           /\ \A kind \in Kind : Loop!State(kind) \in Said
                 /\ Loop!State(kind).role = "system" /\ Loop!State(kind).calls = 0
                 /\ Loop!State(kind).state = kind
           /\ \A n \in 1..MaxCalls : Loop!Calling(n) \in Said
                 /\ Loop!Calling(n).role = "assistant" /\ Loop!Calling(n).calls = n
<1>1. MaxCalls \in Nat \ {0}
  BY DEF Loop!LoopAssumption
<1>2. ASSUME NEW role \in Role
      PROVE  Loop!Message(role) = [role |-> role, state |-> "none", calls |-> 0]
  BY DEF Loop!Message
<1>3. ASSUME NEW kind \in Kind
      PROVE  Loop!State(kind) = [role |-> "system", state |-> kind, calls |-> 0]
  <2>1. Loop!Message("system") = [role |-> "system", state |-> "none", calls |-> 0]
    BY DEF Loop!Message
  <2>2. Loop!State(kind) = [Loop!Message("system") EXCEPT !.state = kind]
    BY DEF Loop!State
  <2>3. QED BY <2>1, <2>2
<1>4. ASSUME NEW n \in 1..MaxCalls
      PROVE  Loop!Calling(n) = [role |-> "assistant", state |-> "none", calls |-> n]
  <2>1. Loop!Message("assistant") = [role |-> "assistant", state |-> "none", calls |-> 0]
    BY DEF Loop!Message
  <2>2. Loop!Calling(n) = [Loop!Message("assistant") EXCEPT !.calls = n]
    BY DEF Loop!Calling
  <2>3. QED BY <2>1, <2>2
<1>5. 0 \in 0..MaxCalls /\ \A n \in 1..MaxCalls : n \in 0..MaxCalls
  BY <1>1
<1>6. \A role \in Role : Loop!Message(role) \in Said
         /\ Loop!Message(role).role = role /\ Loop!Message(role).calls = 0
  BY <1>2, <1>5 DEF Said, Role, Kind
<1>7. \A kind \in Kind : Loop!State(kind) \in Said
         /\ Loop!State(kind).role = "system" /\ Loop!State(kind).calls = 0
         /\ Loop!State(kind).state = kind
  BY <1>3, <1>5 DEF Said, Role, Kind
<1>8. \A n \in 1..MaxCalls : Loop!Calling(n) \in Said
         /\ Loop!Calling(n).role = "assistant" /\ Loop!Calling(n).calls = n
  BY <1>4, <1>5 DEF Said, Role, Kind
<1>9. QED BY <1>6, <1>7, <1>8

LEMMA CallsAreCounted ==
    ASSUME Loop!LoopAssumption, NEW m \in Seq(Said)
    PROVE  /\ Len(m) \in Nat /\ DOMAIN m = 1..Len(m)
           /\ \A i \in 1..Len(m) : m[i] \in Said /\ m[i].calls \in Nat
<1>1. Len(m) \in Nat /\ DOMAIN m = 1..Len(m) /\ \A i \in 1..Len(m) : m[i] \in Said
  OBVIOUS
<1>2. \A x \in Said : x.calls \in 0..MaxCalls
  BY DEF Said
<1>3. QED BY <1>1, <1>2 DEF Loop!LoopAssumption

(* What calls nothing and answers nothing may stand anywhere.               *)
LEMMA InertIsWhole ==
    ASSUME NEW m \in Seq(Said),
           \A i \in DOMAIN m : m[i].calls = 0 /\ m[i].role # "tool"
    PROVE  Loop!WellFormed(m)
BY DEF Loop!WellFormed

LEMMA BatchIsWhole ==
    ASSUME Loop!LoopAssumption, NEW n \in 1..MaxCalls
    PROVE  /\ <<Loop!Calling(n)>> \o Loop!Results(n) \in Seq(Said)
           /\ Loop!WellFormed(<<Loop!Calling(n)>> \o Loop!Results(n))
<1> DEFINE m == <<Loop!Calling(n)>> \o Loop!Results(n)
<1>1. n \in Nat /\ 1 <= n /\ n <= MaxCalls /\ MaxCalls \in Nat
  BY DEF Loop!LoopAssumption
<1>2. /\ Loop!Calling(n) \in Said /\ Loop!Calling(n).role = "assistant"
      /\ Loop!Calling(n).calls = n
      /\ Loop!Message("tool") \in Said /\ Loop!Message("tool").role = "tool"
      /\ Loop!Message("tool").calls = 0
  BY MessagesAreSaid DEF Role
<1>3. Loop!Results(n) \in Seq(Said) /\ Len(Loop!Results(n)) = n
      /\ \A i \in 1..n : Loop!Results(n)[i] = Loop!Message("tool")
  BY <1>1, <1>2 DEF Loop!Results
<1>4. <<Loop!Calling(n)>> \in Seq(Said) /\ Len(<<Loop!Calling(n)>>) = 1
      /\ <<Loop!Calling(n)>>[1] = Loop!Calling(n)
  BY <1>2
<1>5. /\ m \in Seq(Said) /\ Len(m) = n + 1
      /\ m[1] = Loop!Calling(n)
      /\ \A i \in 2..(n + 1) : m[i] = Loop!Message("tool")
  <2>1. m \in Seq(Said) /\ Len(m) = 1 + n
    BY <1>1, <1>3, <1>4, ConcatProperties
  <2>2. \A i \in 1..Len(m) : m[i] = IF i <= 1 THEN <<Loop!Calling(n)>>[i]
                                   ELSE Loop!Results(n)[i - 1]
    BY <1>3, <1>4, ConcatProperties
  <2>3. \A i \in 2..(n + 1) : i - 1 \in 1..n /\ i \in 1..Len(m) /\ ~ i <= 1
    BY <1>1, <2>1
  <2> HIDE DEF m
  <2>4. QED BY <1>1, <1>3, <1>4, <2>1, <2>2, <2>3
<1> HIDE DEF m
<1>6. DOMAIN m = 1..(n + 1)
  BY <1>5
<1>7. ASSUME NEW i \in DOMAIN m
      PROVE  /\ i + m[i].calls <= Len(m)
             /\ \A k \in 1..m[i].calls : m[i + k].role = "tool"
             /\ m[i].role = "tool" =>
                   \E k \in 1..MaxCalls : i > k /\ m[i - k].calls >= k
  <2>1. CASE i = 1
    <3>1. m[i].calls = n /\ m[i].role # "tool"
      BY <1>2, <1>5, <2>1
    <3>2. \A k \in 1..n : 1 + k \in 2..(n + 1)
      BY <1>1
    <3>3. \A k \in 1..n : m[1 + k].role = "tool"
      BY <1>2, <1>5, <3>2
    <3>4. QED BY <1>1, <1>5, <2>1, <3>1, <3>3
  <2>2. CASE i # 1
    <3>1. i \in 2..(n + 1)
      BY <1>1, <1>6, <2>2
    <3>2. m[i].calls = 0
      BY <1>2, <1>5, <3>1
    <3>3. i - 1 \in 1..MaxCalls /\ i > i - 1 /\ i - (i - 1) = 1 /\ n >= i - 1
      BY <1>1, <3>1
    <3>4. m[i - (i - 1)].calls >= i - 1
      BY <1>2, <1>5, <3>3
    <3>5. QED BY <1>1, <1>5, <3>1, <3>2, <3>3, <3>4
  <2>3. QED BY <2>1, <2>2
<1>8. QED BY <1>5, <1>7 DEF Loop!WellFormed, m

LEMMA JoinIs ==
    ASSUME NEW V, NEW a \in Seq(V), NEW b \in Seq(V)
    PROVE  /\ a \o b \in Seq(V) /\ Len(a) \in Nat /\ Len(b) \in Nat
           /\ Len(a \o b) = Len(a) + Len(b)
           /\ \A i \in 1..Len(a) : (a \o b)[i] = a[i]
           /\ \A i \in 1..Len(b) : (a \o b)[Len(a) + i] = b[i]
<1>1. Len(a) \in Nat /\ Len(b) \in Nat
  OBVIOUS
<1>2. /\ a \o b \in Seq(V) /\ Len(a \o b) = Len(a) + Len(b)
      /\ \A i \in 1..(Len(a) + Len(b)) :
            (a \o b)[i] = IF i <= Len(a) THEN a[i] ELSE b[i - Len(a)]
  BY ConcatProperties
<1>3. \A i \in 1..Len(a) : i \in 1..(Len(a) + Len(b)) /\ i <= Len(a)
  BY <1>1
<1>4. \A i \in 1..Len(b) : /\ Len(a) + i \in 1..(Len(a) + Len(b))
                           /\ ~ Len(a) + i <= Len(a) /\ (Len(a) + i) - Len(a) = i
  BY <1>1
<1>5. QED BY <1>1, <1>2, <1>3, <1>4

LEMMA JoinIsWhole ==
    ASSUME Loop!LoopAssumption, NEW a \in Seq(Said), NEW b \in Seq(Said),
           Loop!WellFormed(a), Loop!WellFormed(b)
    PROVE  a \o b \in Seq(Said) /\ Loop!WellFormed(a \o b)
<1> DEFINE m == a \o b
<1>1. /\ m \in Seq(Said) /\ Len(m) = Len(a) + Len(b) /\ DOMAIN m = 1..Len(m)
      /\ \A i \in 1..Len(m) : m[i] = IF i <= Len(a) THEN a[i] ELSE b[i - Len(a)]
  BY ConcatProperties
<1>2. /\ Len(a) \in Nat /\ Len(b) \in Nat
      /\ DOMAIN a = 1..Len(a) /\ DOMAIN b = 1..Len(b)
      /\ \A i \in DOMAIN a : a[i].calls \in Nat
      /\ \A i \in DOMAIN b : b[i].calls \in Nat
  BY CallsAreCounted
<1> HIDE DEF m
<1>3. ASSUME NEW i \in DOMAIN m
      PROVE  /\ i + m[i].calls <= Len(m)
             /\ \A k \in 1..m[i].calls : m[i + k].role = "tool"
             /\ m[i].role = "tool" =>
                   \E k \in 1..MaxCalls : i > k /\ m[i - k].calls >= k
  <2>1. CASE i <= Len(a)
    <3>1. i \in DOMAIN a /\ m[i] = a[i] /\ i \in Nat
      BY <1>1, <1>2, <2>1
    <3>2. /\ i + a[i].calls <= Len(a)
          /\ \A k \in 1..a[i].calls : a[i + k].role = "tool"
          /\ a[i].role = "tool" =>
                \E k \in 1..MaxCalls : i > k /\ a[i - k].calls >= k
      BY <3>1 DEF Loop!WellFormed
    <3>3. \A k \in 1..a[i].calls : i + k \in 1..Len(m) /\ i + k <= Len(a)
      BY <1>1, <1>2, <3>1, <3>2
    <3>4. \A k \in 1..a[i].calls : m[i + k] = a[i + k]
      BY <1>1, <3>3
    <3>5. \A k \in 1..MaxCalls : i > k => i - k \in 1..Len(m) /\ i - k <= Len(a)
      BY <1>1, <1>2, <3>1, <2>1
    <3>6. \A k \in 1..MaxCalls : i > k => m[i - k] = a[i - k]
      BY <1>1, <3>5
    <3>7. i + a[i].calls <= Len(m)
      BY <1>1, <1>2, <3>1, <3>2
    <3>8. QED BY <3>1, <3>2, <3>4, <3>6, <3>7
  <2>2. CASE ~ i <= Len(a)
    <3> DEFINE j == i - Len(a)
    <3>1. j \in DOMAIN b /\ m[i] = b[j] /\ i \in Nat /\ i = Len(a) + j
      BY <1>1, <1>2, <2>2
    <3> HIDE DEF j
    <3>2. /\ j + b[j].calls <= Len(b)
          /\ \A k \in 1..b[j].calls : b[j + k].role = "tool"
          /\ b[j].role = "tool" =>
                \E k \in 1..MaxCalls : j > k /\ b[j - k].calls >= k
      BY <3>1 DEF Loop!WellFormed
    <3>3. ASSUME NEW k \in 1..b[j].calls
          PROVE  /\ i + k \in 1..Len(m) /\ ~ i + k <= Len(a)
                 /\ (i + k) - Len(a) = j + k
      <4>1. b[j].calls \in Nat /\ k \in Nat /\ 1 <= k /\ k <= b[j].calls /\ j \in Nat /\ j >= 1
        BY <1>2, <3>1
      <4>2. j + k <= Len(b)
        BY <1>2, <3>2, <4>1
      <4>3. /\ Len(m) = Len(a) + Len(b) /\ Len(a) \in Nat /\ Len(b) \in Nat
            /\ i = Len(a) + j
        BY <1>1, <1>2, <3>1
      <4>4. QED BY <4>1, <4>2, <4>3
    <3>4. \A k \in 1..b[j].calls : m[i + k] = b[j + k]
      BY <1>1, <3>3
    <3>5. \A k \in 1..MaxCalls : j > k => /\ i - k \in 1..Len(m) /\ ~ i - k <= Len(a)
                                         /\ (i - k) - Len(a) = j - k /\ i > k
      BY <1>1, <1>2, <3>1
    <3>6. \A k \in 1..MaxCalls : j > k => i > k /\ m[i - k] = b[j - k]
      BY <1>1, <3>5
    <3>7. i + b[j].calls <= Len(m)
      BY <1>1, <1>2, <3>1, <3>2
    <3>8. QED BY <3>1, <3>2, <3>4, <3>6, <3>7
  <2>3. QED BY <2>1, <2>2
<1>4. QED BY <1>1, <1>3 DEF Loop!WellFormed, m

(* A conversation may be cut in front of any message that is no answer.     *)
LEMMA CutIsWhole ==
    ASSUME Loop!LoopAssumption, NEW m \in Seq(Said), Loop!WellFormed(m),
           NEW b \in 1..(Len(m) + 1),
           b = Len(m) + 1 \/ m[b].role # "tool"
    PROVE  /\ SubSeq(m, 1, b - 1) \in Seq(Said) /\ Loop!WellFormed(SubSeq(m, 1, b - 1))
           /\ SubSeq(m, b, Len(m)) \in Seq(Said) /\ Loop!WellFormed(SubSeq(m, b, Len(m)))
<1> DEFINE p == SubSeq(m, 1, b - 1)
           s == SubSeq(m, b, Len(m))
<1>1. /\ Len(m) \in Nat /\ DOMAIN m = 1..Len(m) /\ b \in Nat /\ b >= 1
      /\ \A i \in DOMAIN m : m[i] \in Said /\ m[i].calls \in Nat
  <2>1. /\ Len(m) \in Nat /\ DOMAIN m = 1..Len(m)
        /\ \A i \in 1..Len(m) : m[i] \in Said /\ m[i].calls \in Nat
    BY CallsAreCounted
  <2>2. QED BY <2>1
<1>2. /\ p \in Seq(Said) /\ Len(p) = b - 1 /\ DOMAIN p = 1..(b - 1)
      /\ \A i \in 1..(b - 1) : p[i] = m[i]
  BY <1>1, SubSeqProperties
<1>3. /\ s \in Seq(Said) /\ Len(s) = Len(m) - b + 1 /\ DOMAIN s = 1..(Len(m) - b + 1)
      /\ \A i \in 1..(Len(m) - b + 1) : s[i] = m[b + i - 1]
  BY <1>1, SubSeqProperties
<1> HIDE DEF p, s
<1>4. \A i \in 1..Len(m) :
         /\ i + m[i].calls <= Len(m)
         /\ \A k \in 1..m[i].calls : m[i + k].role = "tool"
         /\ m[i].role = "tool" =>
               \E k \in 1..MaxCalls : i > k /\ m[i - k].calls >= k
  BY <1>1 DEF Loop!WellFormed
<1>5. ASSUME NEW i \in 1..(b - 1) PROVE i + m[i].calls < b
  <2>1. i \in 1..Len(m) /\ i \in Nat /\ i + m[i].calls <= Len(m) /\ m[i].calls \in Nat
    BY <1>1, <1>4
  <2>2. CASE i + m[i].calls >= b
    <3>1. b - i \in 1..m[i].calls /\ i + (b - i) = b
      BY <1>1, <2>1, <2>2
    <3>2. m[i + (b - i)].role = "tool"
      BY <1>4, <2>1, <3>1
    <3>3. QED BY <1>1, <2>1, <2>2, <3>1, <3>2
  <2>3. QED BY <1>1, <2>1, <2>2
<1>6. Loop!WellFormed(p)
  <2> SUFFICES ASSUME NEW i \in 1..(b - 1)
               PROVE  /\ i + p[i].calls <= Len(p)
                      /\ \A k \in 1..p[i].calls : p[i + k].role = "tool"
                      /\ p[i].role = "tool" =>
                            \E k \in 1..MaxCalls : i > k /\ p[i - k].calls >= k
    BY <1>2 DEF Loop!WellFormed
  <2>1. i \in 1..Len(m) /\ p[i] = m[i] /\ m[i].calls \in Nat /\ i + m[i].calls <= b - 1
    BY <1>1, <1>2, <1>5
  <2>2. \A k \in 1..m[i].calls : i + k \in 1..(b - 1)
    BY <1>1, <2>1
  <2>3. \A k \in 1..m[i].calls : p[i + k] = m[i + k]
    BY <1>2, <2>2
  <2>4. \A k \in 1..MaxCalls : i > k => i - k \in 1..(b - 1)
    BY <1>1, <2>1
  <2>5. \A k \in 1..MaxCalls : i > k => p[i - k] = m[i - k]
    BY <1>2, <2>4
  <2>6. QED BY <1>2, <1>4, <2>1, <2>3, <2>5
<1>7. Loop!WellFormed(s)
  <2> SUFFICES ASSUME NEW i \in 1..(Len(m) - b + 1)
               PROVE  /\ i + s[i].calls <= Len(s)
                      /\ \A k \in 1..s[i].calls : s[i + k].role = "tool"
                      /\ s[i].role = "tool" =>
                            \E k \in 1..MaxCalls : i > k /\ s[i - k].calls >= k
    BY <1>3 DEF Loop!WellFormed
  <2> DEFINE j == b + i - 1
  <2>0. j = b + i - 1 /\ i \in Nat /\ j \in 1..Len(m) /\ j >= b /\ s[i] = m[j]
    BY <1>1, <1>3
  <2> HIDE DEF j
  <2>1. /\ j \in 1..Len(m) /\ s[i] = m[j] /\ m[j].calls \in Nat
        /\ j + m[j].calls <= Len(m) /\ j >= b /\ i \in Nat /\ j = b + i - 1
    BY <1>1, <1>4, <2>0
  <2>2. \A k \in 1..m[j].calls : i + k \in 1..(Len(m) - b + 1) /\ b + (i + k) - 1 = j + k
    BY <1>1, <2>1
  <2>3. \A k \in 1..m[j].calls : s[i + k] = m[j + k]
    BY <1>3, <2>2
  <2>4. m[j].role = "tool" => \E k \in 1..MaxCalls : i > k /\ s[i - k].calls >= k
    <3>1. SUFFICES ASSUME m[j].role = "tool"
                   PROVE  \E k \in 1..MaxCalls : i > k /\ s[i - k].calls >= k
      OBVIOUS
    <3>2. PICK k \in 1..MaxCalls : j > k /\ m[j - k].calls >= k
      BY <1>4, <2>1, <3>1
    <3>3. k \in Nat /\ k >= 1 /\ j - k \in 1..Len(m)
      BY <2>1, <3>2
    <3>4. j - k >= b
      <4>1. CASE j - k < b
        <5>1. j - k \in 1..(b - 1) /\ m[j - k].calls \in Nat
          BY <1>1, <3>3, <4>1
        <5>2. (j - k) + m[j - k].calls < b
          BY <1>5, <5>1
        <5>3. QED BY <1>1, <2>1, <3>2, <3>3, <5>1, <5>2
      <4>2. QED BY <1>1, <2>1, <3>3, <4>1
    <3>5. i > k /\ i - k \in 1..(Len(m) - b + 1) /\ b + (i - k) - 1 = j - k
      BY <1>1, <2>1, <3>3, <3>4
    <3>6. s[i - k] = m[j - k]
      BY <1>3, <3>5
    <3>7. QED BY <3>2, <3>5, <3>6
  <2>5. i + m[j].calls <= Len(s)
    BY <1>1, <1>3, <2>1
  <2>6. QED BY <1>4, <2>1, <2>3, <2>4, <2>5
<1>8. QED BY <1>2, <1>3, <1>6, <1>7 DEF p, s

(* What a request carries.                                                  *)

LEMMA TurnIsFound ==
    ASSUME NEW m \in Seq(Said), NEW u \in 1..Len(m), m[u].role = "user"
    PROVE  /\ Loop!LatestUser(m) \in 1..Len(m) /\ u <= Loop!LatestUser(m)
           /\ m[Loop!LatestUser(m)].role = "user"
           /\ \A j \in (Loop!LatestUser(m) + 1)..Len(m) : m[j].role # "user"
<1> DEFINE S == {i \in 1..Len(m) : m[i].role = "user"}
           user == Loop!LatestUser(m)
<1>1. Len(m) \in Nat /\ DOMAIN m = 1..Len(m)
  OBVIOUS
<1>2. S \in SUBSET (0..Len(m)) /\ u \in S
  BY <1>1
<1>3. PICK x \in S : \A y \in S : y <= x
  <2> HIDE DEF S
  <2>1. QED BY <1>1, <1>2, Latest
<1>4. /\ x \in DOMAIN m /\ m[x].role = "user"
      /\ \A j \in (x + 1)..Len(m) : m[j].role # "user"
  BY <1>1, <1>3
<1>5. user = CHOOSE i \in DOMAIN m :
                m[i].role = "user" /\ \A j \in (i + 1)..Len(m) : m[j].role # "user"
  BY <1>4 DEF Loop!LatestUser
<1>6. /\ user \in DOMAIN m /\ m[user].role = "user"
      /\ \A j \in (user + 1)..Len(m) : m[j].role # "user"
  BY <1>4, <1>5
<1> HIDE DEF user
<1>7. u <= user
  <2>1. CASE user < u
    <3>1. u \in (user + 1)..Len(m)
      BY <1>1, <1>6, <2>1
    <3>2. QED BY <1>6, <3>1
  <2>2. QED BY <1>1, <1>6, <2>1
<1>8. QED BY <1>1, <1>6, <1>7 DEF user

(* The first message, and the newest state of every kind, are anchors.      *)
LEMMA AnchorsHoldStates ==
    ASSUME Loop!LoopAssumption, NEW m \in Seq(Said), NEW user \in 2..Len(m),
           m[1].role = "system"
    PROVE  /\ Loop!Anchors(m, user) \in SUBSET (1..(user - 1))
           /\ 1 \in Loop!Anchors(m, user)
           /\ \A i \in Loop!Anchors(m, user) : m[i].role = "system"
           /\ \A i \in 1..(user - 1) :
                 Loop!Newest(m, i) => i \in Loop!Anchors(m, user)
<1>1. Len(m) \in Nat /\ \A i \in 1..Len(m) : m[i] \in Said
  OBVIOUS
<1>2. user \in Nat /\ user - 1 \in Nat /\ 1..(user - 1) \subseteq 1..Len(m)
  BY <1>1
<1>3. 1 \in Loop!Anchors(m, user)
  BY <1>1, <1>2 DEF Loop!Anchors
<1>4. ASSUME NEW i \in 1..(user - 1), Loop!Newest(m, i)
      PROVE  i \in Loop!Anchors(m, user)
  <2>1. m[i].state # "none" /\ \A j \in (i + 1)..Len(m) : m[j].state # m[i].state
    BY <1>4 DEF Loop!Newest
  <2>2. m[i] \in Said
    BY <1>1, <1>2
  <2>3. m[i].role = "system"
    BY <2>1, <2>2 DEF Said
  <2>4. \A j \in (i + 1)..(user - 1) : j \in (i + 1)..Len(m)
    BY <1>1, <1>2
  <2>5. QED BY <2>1, <2>3, <2>4 DEF Loop!Anchors
<1>5. QED BY <1>3, <1>4 DEF Loop!Anchors

(* The messages of earlier turns are whole without the system messages: a   *)
(* call and its results stand together.                                     *)
LEMMA OlderIsWhole ==
    ASSUME Loop!LoopAssumption, NEW m \in Seq(Said), Loop!WellFormed(m),
           NEW user \in 2..Len(m), m[user].role = "user"
    PROVE  Loop!Older(m, user) \in Seq(Said) /\ Loop!WellFormed(Loop!Older(m, user))
<1> DEFINE K == {i \in 1..(user - 1) :
                    i \notin Loop!Anchors(m, user) /\ m[i].role # "system"}
           older == Loop!Older(m, user)
<1>1. /\ Len(m) \in Nat /\ DOMAIN m = 1..Len(m)
      /\ \A i \in 1..Len(m) : m[i] \in Said /\ m[i].calls \in Nat
  BY CallsAreCounted
<1>2. older = Select(m, K)
  BY LoopSelects DEF Loop!Older
<1>3. K \in SUBSET DOMAIN m /\ K \in SUBSET (1..Len(m)) /\ user \in Nat
  BY <1>1
<1>4. \A i \in 1..(user - 1) : i \in K <=> m[i].role # "system"
  BY DEF Loop!Anchors
<1>5. \A i \in K : i \in 1..(user - 1) /\ m[i].role # "system"
  OBVIOUS
<1> HIDE DEF K, older
<1>6. /\ older \in Seq(Said) /\ Len(older) = Cardinality(K) /\ Cardinality(K) \in Nat
      /\ \A n \in 1..Cardinality(K) :
            /\ Ascending(K)[n] \in K /\ Place(K, Ascending(K)[n]) = n
            /\ older[n] = m[Ascending(K)[n]]
      /\ \A i \in K : /\ Place(K, i) \in 1..Cardinality(K)
                      /\ older[Place(K, i)] = m[i]
  BY <1>2, <1>3, SelectKeeps
<1>7. ASSUME NEW i \in K
      PROVE  /\ m[i].calls \in Nat
             /\ \A k \in 1..m[i].calls :
                   /\ i + k \in K /\ Place(K, i + k) = Place(K, i) + k
                   /\ m[i + k].role = "tool"
  <2>1. i \in 1..Len(m) /\ i \in Nat /\ i < user /\ m[i].calls \in Nat
    BY <1>1, <1>3, <1>5
  <2>2. i + m[i].calls <= Len(m) /\ \A k \in 1..m[i].calls : m[i + k].role = "tool"
    BY <1>1, <2>1 DEF Loop!WellFormed
  <2>3. i + m[i].calls < user
    <3>1. CASE i + m[i].calls >= user
      <4>1. user - i \in 1..m[i].calls /\ i + (user - i) = user
        BY <1>3, <2>1, <3>1
      <4>2. m[i + (user - i)].role = "tool"
        BY <2>2, <4>1
      <4>3. m[user].role = "tool"
        BY <4>1, <4>2
      <4>4. QED BY <4>3
    <3>2. QED BY <1>3, <2>1, <3>1
  <2>4. ASSUME NEW k \in 1..m[i].calls PROVE i + k \in K
    <3>1. i + k \in 1..(user - 1) /\ m[i + k].role # "system"
      BY <1>3, <2>1, <2>2, <2>3
    <3>2. QED BY <1>4, <3>1
  <2>5. ASSUME NEW k \in 1..m[i].calls PROVE Place(K, i + k) = Place(K, i) + k
    <3>1. k \in Nat
      OBVIOUS
    <3>2. ASSUME NEW j \in i..(i + k) PROVE j \in K
      <4>1. CASE j = i
        BY <4>1
      <4>2. CASE j # i
        <5>1. j - i \in 1..m[i].calls /\ i + (j - i) = j
          BY <2>1, <4>2
        <5>2. QED BY <2>4, <5>1
      <4>3. QED BY <4>1, <4>2
    <3>3. QED BY <1>1, <1>3, <2>1, <3>1, <3>2, NeighboursStay
  <2>6. QED BY <2>1, <2>2, <2>4, <2>5
<1>8. ASSUME NEW n \in 1..Cardinality(K)
      PROVE  /\ n + older[n].calls <= Len(older)
             /\ \A k \in 1..older[n].calls : older[n + k].role = "tool"
             /\ older[n].role = "tool" =>
                   \E k \in 1..MaxCalls : n > k /\ older[n - k].calls >= k
  <2> DEFINE i == Ascending(K)[n]
  <2>1. i \in K /\ Place(K, i) = n /\ older[n] = m[i]
    BY <1>6
  <2> HIDE DEF i
  <2>2. /\ m[i].calls \in Nat
        /\ \A k \in 1..m[i].calls : /\ i + k \in K /\ Place(K, i + k) = n + k
                                    /\ m[i + k].role = "tool"
    BY <1>7, <2>1
  <2>3. \A k \in 1..m[i].calls : n + k \in 1..Cardinality(K) /\ older[n + k].role = "tool"
    BY <1>6, <2>2
  <2>4. n + m[i].calls <= Cardinality(K)
    <3>1. CASE m[i].calls = 0
      BY <1>6, <3>1
    <3>2. CASE m[i].calls # 0
      <4>1. m[i].calls \in 1..m[i].calls
        BY <2>2, <3>2
      <4>2. n + m[i].calls \in 1..Cardinality(K)
        BY <2>3, <4>1
      <4>3. QED BY <1>6, <4>2
    <3>3. QED BY <3>1, <3>2
  <2>5. ASSUME m[i].role = "tool"
        PROVE  \E k \in 1..MaxCalls : n > k /\ older[n - k].calls >= k
    <3>1. i \in DOMAIN m /\ i \in 1..(user - 1)
      BY <1>3, <1>5, <2>1
    <3>2. PICK k \in 1..MaxCalls : i > k /\ m[i - k].calls >= k
      BY <2>5, <3>1 DEF Loop!WellFormed
    <3>3. k \in Nat /\ k >= 1 /\ i - k \in 1..(user - 1) /\ i - k \in 1..Len(m)
          /\ (i - k) + k = i
      <4>1. /\ k \in Int /\ 1 <= k /\ i \in Int /\ i > k /\ i <= user - 1
            /\ user \in Nat /\ user <= Len(m) /\ Len(m) \in Nat
        BY <1>1, <1>3, <3>1, <3>2 DEF Loop!LoopAssumption
      <4>2. QED BY <4>1
    <3>4. m[i - k] \in Said /\ m[i - k].calls \in Nat /\ k \in 1..m[i - k].calls
      BY <1>1, <3>2, <3>3
    <3>5. m[i - k].role # "system"
      BY <3>3, <3>4 DEF Said
    <3>6. i - k \in K
      BY <1>4, <3>3, <3>5
    <3>7. Place(K, i) = Place(K, i - k) + k
      BY <1>7, <3>3, <3>4, <3>6
    <3>8. Place(K, i - k) \in 1..Cardinality(K) /\ older[Place(K, i - k)] = m[i - k]
      BY <1>6, <3>6
    <3>9. n > k /\ n - k = Place(K, i - k)
      BY <1>6, <2>1, <3>3, <3>7, <3>8
    <3>10. QED BY <3>2, <3>8, <3>9
  <2>6. QED BY <1>6, <2>1, <2>3, <2>4, <2>5
<1>9. DOMAIN older = 1..Cardinality(K)
  BY <1>6
<1>10. QED BY <1>6, <1>8, <1>9 DEF Loop!WellFormed, older

(* The oldest start of a turn from which on everything fits.                *)
LEMMA StartIsFound ==
    ASSUME Loop!LoopAssumption, NEW m \in Seq(Said), NEW user \in 2..Len(m),
           NEW limit \in 1..Len(m), m[1].role = "system",
           Loop!Older(m, user) \in Seq(Said), Loop!Mandatory(m, user) <= limit
    PROVE  /\ Cardinality(Loop!Anchors(m, user)) \in Nat
           /\ Loop!FirstKept(m, user, limit) \in Loop!ChunkStarts(Loop!Older(m, user))
           /\ Cardinality(Loop!Anchors(m, user)) + 1 + (Len(m) - user + 1)
              + (Len(Loop!Older(m, user)) - Loop!FirstKept(m, user, limit) + 1) <= limit
<1> DEFINE older == Loop!Older(m, user)
           mandatory == Loop!Mandatory(m, user)
           anchors == Cardinality(Loop!Anchors(m, user))
           starts == Loop!ChunkStarts(older)
           Size(i) == mandatory + Len(older) - i + 1
           S == {i \in starts : Size(i) <= limit}
<1>1. Len(m) \in Nat /\ user \in Nat /\ user <= Len(m) /\ user >= 2 /\ limit \in Nat
  OBVIOUS
<1>2. anchors \in Nat
  <2>1. Loop!Anchors(m, user) \in SUBSET (1..(user - 1))
    BY DEF Loop!Anchors
  <2>2. IsFiniteSet(1..(user - 1))
    BY <1>1, FS_Interval
  <2>3. IsFiniteSet(Loop!Anchors(m, user))
    BY <2>1, <2>2, FS_Subset
  <2>4. QED BY <2>3, FS_CardinalityType
<1>3. mandatory = anchors + 1 + (Len(m) - user + 1)
  <2>1. Loop!Cardinality(Loop!Anchors(m, user)) = anchors
    BY DEF Loop!Cardinality, Cardinality
  <2>2. QED BY <2>1 DEF Loop!Mandatory
<1>4. Len(older) \in Nat /\ starts \in SUBSET (0..(Len(older) + 1))
      /\ Len(older) + 1 \in starts
  BY DEF Loop!ChunkStarts
<1>5. mandatory <= limit
  OBVIOUS
<1> HIDE DEF older, mandatory, anchors, starts
<1>6. mandatory \in Nat
  BY <1>1, <1>2, <1>3
<1>7. S \in SUBSET (0..(Len(older) + 1)) /\ Len(older) + 1 \in S /\ Len(older) + 1 \in Nat
  <2>1. Size(Len(older) + 1) = mandatory
    BY <1>4, <1>6
  <2>2. Size(Len(older) + 1) <= limit
    BY <1>5, <2>1
  <2> HIDE DEF Size
  <2>3. S \subseteq starts
    OBVIOUS
  <2> HIDE DEF starts
  <2>4. Len(older) + 1 \in S
    BY <1>4, <2>2
  <2> HIDE DEF S
  <2>5. S \in SUBSET (0..(Len(older) + 1))
    BY <1>4, <2>3
  <2>6. Len(older) + 1 \in Nat
    <3> DEFINE n == Len(older)
    <3>1. n \in Nat
      BY <1>4
    <3> HIDE DEF n
    <3>2. n + 1 \in Nat
      BY <3>1
    <3>3. QED BY <3>2 DEF n
  <2>7. QED BY <2>4, <2>5, <2>6
<1>8. PICK x \in S : \A y \in S : x <= y
  <2> HIDE DEF S
  <2>1. QED BY <1>7, Earliest
<1>9. x \in starts /\ Size(x) <= limit /\ \A j \in starts : j < x => Size(j) > limit
  <2>1. ASSUME NEW j \in starts, j < x PROVE Size(j) > limit
    <3>1. j \notin S
      BY <1>4, <1>7, <1>8, <2>1
    <3>2. ~ Size(j) <= limit
      BY <3>1
    <3>3. j \in Nat /\ j <= Len(older) + 1
      BY <1>4
    <3>4. QED BY <1>1, <1>4, <1>6, <3>2, <3>3
  <2>2. QED BY <1>8, <2>1
<1>10. Loop!FirstKept(m, user, limit) =
          CHOOSE i \in starts : /\ Size(i) <= limit
                                /\ \A j \in starts : j < i => Size(j) > limit
  BY DEF Loop!FirstKept, starts, older, mandatory
<1>11. /\ Loop!FirstKept(m, user, limit) \in starts
       /\ Size(Loop!FirstKept(m, user, limit)) <= limit
  <2> HIDE DEF Size
  <2>1. QED BY <1>9, <1>10
<1>12. Loop!FirstKept(m, user, limit) \in Nat
       /\ Loop!FirstKept(m, user, limit) <= Len(older) + 1
  <2>1. Loop!FirstKept(m, user, limit) \in 0..(Len(older) + 1)
    BY <1>4, <1>11
  <2>2. QED BY <1>4, <2>1
<1>13. anchors + 1 + (Len(m) - user + 1)
         + (Len(older) - Loop!FirstKept(m, user, limit) + 1) <= limit
  BY <1>1, <1>2, <1>3, <1>4, <1>11, <1>12
<1>14. QED BY <1>2, <1>11, <1>13 DEF starts, older, anchors

(* A request as prepare_messages makes it of whole messages with a turn.    *)
LEMMA PreparedIsWhole ==
    ASSUME Loop!LoopAssumption, NEW m \in Seq(Said), Loop!WellFormed(m),
           NEW u \in 2..Len(m), m[1].role = "system", m[u].role = "user",
           NEW limit \in 1..Len(m), Loop!Fits(m, limit)
    PROVE  LET request == Loop!Prepared(m, limit)
           IN  /\ request \in Seq(Said) /\ Loop!WellFormed(request)
               /\ Len(request) <= limit /\ Len(request) >= 1
               /\ request[1] = m[1]
               /\ \A i \in 1..Len(m) : Loop!Newest(m, i) =>
                     \E k \in 1..Len(request) : request[k] = m[i]
               /\ \A i \in Loop!LatestUser(m)..Len(m) :
                     /\ Len(m) - i < Len(request)
                     /\ request[Len(request) - (Len(m) - i)] = m[i]
<1> DEFINE user == Loop!LatestUser(m)
           older == Loop!Older(m, user)
           from == Loop!FirstKept(m, user, limit)
           A == Select(m, Loop!Anchors(m, user))
           O == SubSeq(older, from, Len(older))
           S == <<Loop!Message("system")>>
           U == SubSeq(m, user, Len(m))
           request == Loop!Prepared(m, limit)
<1>1. Len(m) \in Nat /\ DOMAIN m = 1..Len(m) /\ limit \in Nat /\ limit >= 1 /\ Len(m) >= 1
      /\ \A i \in 1..Len(m) : m[i] \in Said
  OBVIOUS
<1>2. CASE Len(m) <= limit
  <2>1. request = m
    BY <1>2 DEF Loop!Prepared
  <2>2. user \in Nat /\ user >= 1
    <3>1. u \in 1..Len(m)
      BY <1>1
    <3>2. QED BY <3>1, TurnIsFound
  <2> HIDE DEF user, request
  <2>3. \A i \in user..Len(m) :
           Len(m) - i < Len(request) /\ request[Len(request) - (Len(m) - i)] = m[i]
    <3>1. \A i \in user..Len(m) : Len(m) - i < Len(m) /\ Len(m) - (Len(m) - i) = i
      BY <1>1, <2>2
    <3>2. QED BY <2>1, <3>1
  <2>4. /\ request \in Seq(Said) /\ Loop!WellFormed(request)
        /\ Len(request) <= limit /\ Len(request) >= 1 /\ request[1] = m[1]
        /\ \A i \in 1..Len(m) : i \in 1..Len(request) /\ request[i] = m[i]
    BY <1>1, <1>2, <2>1
  <2>5. QED BY <2>3, <2>4 DEF request, user
<1>3. CASE ~ Len(m) <= limit
  <2>1. user \in 2..Len(m) /\ m[user].role = "user"
    <3>1. u \in 1..Len(m) /\ u >= 2 /\ u \in Nat
      BY <1>1
    <3>2. user \in 1..Len(m) /\ u <= user /\ m[user].role = "user"
      BY <3>1, TurnIsFound
    <3>3. QED BY <1>1, <3>1, <3>2
  <2>2. Loop!Mandatory(m, user) <= limit
    BY <1>3 DEF Loop!Fits
  <2>3. request = A \o O \o S \o U
    BY <1>3, LoopSelects DEF Loop!Prepared
  <2> HIDE DEF user, request
  <2>4. /\ Loop!Anchors(m, user) \in SUBSET DOMAIN m
        /\ Loop!Anchors(m, user) \in SUBSET (1..(user - 1))
        /\ 1 \in Loop!Anchors(m, user)
        /\ \A i \in Loop!Anchors(m, user) : m[i].role = "system"
        /\ \A i \in 1..(user - 1) :
              Loop!Newest(m, i) => i \in Loop!Anchors(m, user)
    <3>1. /\ Loop!Anchors(m, user) \in SUBSET (1..(user - 1))
          /\ 1 \in Loop!Anchors(m, user)
          /\ \A i \in Loop!Anchors(m, user) : m[i].role = "system"
          /\ \A i \in 1..(user - 1) :
                Loop!Newest(m, i) => i \in Loop!Anchors(m, user)
      BY <2>1, AnchorsHoldStates
    <3>2. 1..(user - 1) \subseteq DOMAIN m
      BY <1>1, <2>1
    <3>3. QED BY <3>1, <3>2
  <2>5. older \in Seq(Said) /\ Loop!WellFormed(older)
    BY <2>1, OlderIsWhole
  <2>6. /\ Cardinality(Loop!Anchors(m, user)) \in Nat
        /\ from \in Loop!ChunkStarts(older)
        /\ Cardinality(Loop!Anchors(m, user)) + 1 + (Len(m) - user + 1)
              + (Len(older) - from + 1) <= limit
    BY <2>1, <2>2, <2>5, StartIsFound
  <2> HIDE DEF older, from
  <2>7. /\ A \in Seq(Said) /\ Len(A) = Cardinality(Loop!Anchors(m, user))
        /\ \A n \in 1..Len(A) :
              Ascending(Loop!Anchors(m, user))[n] \in Loop!Anchors(m, user)
              /\ A[n] = m[Ascending(Loop!Anchors(m, user))[n]]
        /\ \A i \in Loop!Anchors(m, user) :
              Place(Loop!Anchors(m, user), i) \in 1..Len(A)
              /\ A[Place(Loop!Anchors(m, user), i)] = m[i]
    BY <2>4, SelectKeeps
  <2> HIDE DEF A
  <2>8. Loop!WellFormed(A)
    <3>1. \A n \in DOMAIN A : A[n] \in Said /\ A[n].role = "system"
      BY <2>4, <2>7
    <3>2. \A n \in DOMAIN A : A[n].calls = 0 /\ A[n].role # "tool"
      BY <3>1 DEF Said
    <3>3. QED BY <2>7, <3>2, InertIsWhole
  <2>9. Len(A) \in Nat /\ Len(A) >= 1 /\ A[1] = m[1]
    <3>1. Place(Loop!Anchors(m, user), 1) = 1
      <4>1. {j \in Loop!Anchors(m, user) : j < 1} = {}
        BY <2>1, <2>4
      <4>2. Cardinality({j \in Loop!Anchors(m, user) : j < 1}) = 0
        BY <4>1, FS_EmptySet
      <4>3. QED BY <4>2 DEF Place
    <3>2. QED BY <2>4, <2>6, <2>7, <3>1
  <2>10. /\ O \in Seq(Said) /\ Loop!WellFormed(O) /\ Len(O) = Len(older) - from + 1
         /\ Len(O) \in Nat
    <3>1. /\ Len(older) \in Nat /\ DOMAIN older = 1..Len(older)
          /\ from \in 1..(Len(older) + 1)
          /\ from = Len(older) + 1 \/ from = 1 \/ older[from].role = "user"
      BY <2>5, <2>6 DEF Loop!ChunkStarts
    <3>2. from = Len(older) + 1 \/ older[from].role # "tool"
      <4>1. CASE from = 1 /\ from \in DOMAIN older
        <5>1. ~ \E k \in 1..MaxCalls : 1 > k
          BY DEF Loop!LoopAssumption
        <5>2. QED BY <2>5, <4>1, <5>1 DEF Loop!WellFormed
      <4>2. QED BY <3>1, <4>1
    <3>3. O \in Seq(Said) /\ Loop!WellFormed(O)
      BY <2>5, <3>1, <3>2, CutIsWhole
    <3>4. Len(O) = Len(older) - from + 1
      BY <2>5, <3>1, SubSeqProperties
    <3>5. QED BY <3>1, <3>3, <3>4
  <2>11. /\ U \in Seq(Said) /\ Loop!WellFormed(U) /\ Len(U) = Len(m) - user + 1
         /\ \A i \in 1..Len(U) : U[i] = m[user + i - 1]
    <3>1. user \in 1..(Len(m) + 1) /\ user \in Nat /\ m[user].role # "tool"
      BY <1>1, <2>1
    <3>2. U \in Seq(Said) /\ Loop!WellFormed(U)
      BY <3>1, CutIsWhole
    <3>3. /\ Len(U) = Len(m) - user + 1
          /\ \A i \in 1..(Len(m) - user + 1) : U[i] = m[user + i - 1]
      BY <1>1, <2>1, SubSeqProperties
    <3>4. QED BY <3>2, <3>3
  <2>12. S \in Seq(Said) /\ Loop!WellFormed(S) /\ Len(S) = 1
    <3>1. /\ Loop!Message("system") \in Said /\ Loop!Message("system").calls = 0
          /\ Loop!Message("system").role = "system"
      BY MessagesAreSaid DEF Role
    <3>2. S \in Seq(Said) /\ Len(S) = 1 /\ \A i \in DOMAIN S : S[i] = Loop!Message("system")
      BY <3>1
    <3>3. QED BY <3>1, <3>2, InertIsWhole
  <2> HIDE DEF O, S, U
  <2>13. A \o O \in Seq(Said) /\ Loop!WellFormed(A \o O)
         /\ Len(A \o O) = Len(A) + Len(O)
         /\ \A i \in 1..Len(A) : (A \o O)[i] = A[i]
    <3>1. A \o O \in Seq(Said) /\ Loop!WellFormed(A \o O)
      BY <2>7, <2>8, <2>10, JoinIsWhole
    <3>2. A \in Seq(Said) /\ O \in Seq(Said)
      BY <2>7, <2>10
    <3>3. QED BY <3>1, <3>2, JoinIs
  <2> DEFINE AO == A \o O
             AOS == AO \o S
  <2>14. AOS \in Seq(Said) /\ Loop!WellFormed(AOS) /\ Len(AOS) = Len(AO) + 1
         /\ \A i \in 1..Len(AO) : AOS[i] = AO[i]
    <3> HIDE DEF AO
    <3>1. AO \in Seq(Said) /\ Loop!WellFormed(AO)
      BY <2>13 DEF AO
    <3>2. AOS \in Seq(Said) /\ Loop!WellFormed(AOS)
      BY <2>12, <3>1, JoinIsWhole
    <3>3. AO \in Seq(Said) /\ S \in Seq(Said) /\ Len(S) = 1
      BY <2>12, <3>1
    <3>4. QED BY <3>2, <3>3, JoinIs
  <2>15. request = AOS \o U
    BY <2>3
  <2> HIDE DEF AOS
  <2>16. /\ request \in Seq(Said) /\ Loop!WellFormed(request)
         /\ Len(request) = Len(AOS) + Len(U)
         /\ \A i \in 1..Len(AOS) : request[i] = AOS[i]
         /\ \A i \in 1..Len(U) : request[Len(AOS) + i] = U[i]
    <3>1. request \in Seq(Said) /\ Loop!WellFormed(request)
      BY <2>11, <2>14, <2>15, JoinIsWhole
    <3>2. AOS \in Seq(Said) /\ U \in Seq(Said)
      BY <2>11, <2>14
    <3>3. QED BY <2>15, <3>1, <3>2, JoinIs
  <2>17. /\ Len(A) \in Nat /\ Len(O) \in Nat /\ Len(U) \in Nat /\ user \in Nat
         /\ Len(AOS) = Len(A) + Len(O) + 1 /\ Len(U) = Len(m) - user + 1 /\ Len(U) >= 1
         /\ Len(request) = Len(A) + Len(O) + 1 + Len(U)
    BY <1>1, <2>1, <2>9, <2>10, <2>11, <2>13, <2>14, <2>16
  <2>18. Len(request) <= limit
    <3>1. Len(A) + 1 + Len(U) + Len(O) <= limit
      BY <2>6, <2>7, <2>10, <2>11
    <3>2. QED BY <1>1, <2>17, <3>1
  <2>19. \A i \in 1..Len(A) : i \in 1..Len(AOS) /\ i \in 1..Len(AO) /\ request[i] = A[i]
    <3>1. \A i \in 1..Len(A) : i \in 1..Len(AOS) /\ i \in 1..Len(AO)
      BY <2>13, <2>17
    <3>2. QED BY <2>13, <2>14, <2>16, <3>1
  <2>20. request[1] = m[1]
    <3>1. 1 \in 1..Len(A)
      BY <2>9
    <3>2. QED BY <2>9, <2>19, <3>1
  <2>21. ASSUME NEW i \in user..Len(m)
         PROVE  /\ Len(m) - i < Len(request)
                /\ request[Len(request) - (Len(m) - i)] = m[i]
                /\ Len(request) - (Len(m) - i) \in 1..Len(request)
    <3> DEFINE n == i - user + 1
    <3>1. /\ n \in 1..Len(U) /\ user + n - 1 = i
          /\ Len(request) - (Len(m) - i) = Len(AOS) + n
          /\ Len(m) - i < Len(request) /\ Len(AOS) + n \in 1..Len(request)
      BY <1>1, <2>17
    <3> HIDE DEF n
    <3>2. request[Len(AOS) + n] = m[i]
      BY <2>11, <2>16, <3>1
    <3>3. QED BY <3>1, <3>2
  <2>22. ASSUME NEW i \in 1..Len(m), Loop!Newest(m, i)
         PROVE  \E k \in 1..Len(request) : request[k] = m[i]
    <3>1. CASE i < user
      <4>1. i \in 1..(user - 1)
        BY <1>1, <2>17, <3>1
      <4>2. i \in Loop!Anchors(m, user)
        BY <2>4, <2>22, <4>1
      <4> DEFINE n == Place(Loop!Anchors(m, user), i)
      <4>3. n \in 1..Len(A) /\ A[n] = m[i]
        BY <2>7, <4>2
      <4> HIDE DEF n
      <4>4. n \in 1..Len(request)
        BY <2>17, <4>3
      <4>5. QED BY <2>19, <4>3, <4>4
    <3>2. CASE ~ i < user
      <4>1. i \in user..Len(m)
        BY <1>1, <2>17, <3>2
      <4>2. QED BY <2>21, <4>1
    <3>3. QED BY <3>1, <3>2
  <2>23. Len(request) >= 1
    BY <2>17
  <2>24. QED BY <2>16, <2>18, <2>20, <2>21, <2>22, <2>23 DEF request, user
<1>4. QED BY <1>2, <1>3

(* Numbering the messages changes nothing of what a request is made by.     *)
LEMMA NumberedIs ==
    ASSUME Loop!LoopAssumption, NEW m \in Seq(Said)
    PROVE  LET n == Loop!Numbered(m)
           IN  /\ n \in Seq(Said) /\ Len(n) = Len(m) /\ DOMAIN n = 1..Len(m)
               /\ \A i \in 1..Len(m) : /\ n[i].role = m[i].role /\ n[i].state = m[i].state
                                       /\ n[i].calls = m[i].calls
               /\ Loop!WellFormed(m) => Loop!WellFormed(n)
<1> DEFINE n == Loop!Numbered(m)
           Entry(i) == [role |-> m[i].role, state |-> m[i].state, calls |-> m[i].calls,
                        place |-> i]
<1>1. Len(m) \in Nat /\ DOMAIN m = 1..Len(m) /\ \A i \in 1..Len(m) : m[i] \in Said
  OBVIOUS
<1>2. n = [i \in 1..Len(m) |-> Entry(i)]
  BY <1>1 DEF Loop!Numbered
<1>3. ASSUME NEW i \in 1..Len(m) PROVE Entry(i) \in Said
  <2>1. /\ m[i].role \in Role /\ m[i].state \in Kind /\ m[i].calls \in 0..MaxCalls
        /\ m[i].state # "none" => m[i].role = "system"
        /\ m[i].calls # 0 => m[i].role = "assistant"
    BY <1>1 DEF Said
  <2>2. i \in Nat
    BY <1>1
  <2>3. QED BY <2>1, <2>2 DEF Said
<1>4. n \in Seq(Said) /\ Len(n) = Len(m) /\ DOMAIN n = 1..Len(m)
      /\ \A i \in 1..Len(m) : n[i] = Entry(i)
  <2> HIDE DEF Entry, n
  <2>1. n \in [1..Len(m) -> Said]
    BY <1>2, <1>3
  <2>2. QED BY <1>1, <1>2, <2>1
<1>5. \A i \in 1..Len(m) :
         n[i].role = m[i].role /\ n[i].state = m[i].state /\ n[i].calls = m[i].calls
  BY <1>4
<1> HIDE DEF n, Entry
<1>6. ASSUME Loop!WellFormed(m) PROVE Loop!WellFormed(n)
  <2> SUFFICES ASSUME NEW i \in 1..Len(m)
               PROVE  /\ i + n[i].calls <= Len(n)
                      /\ \A k \in 1..n[i].calls : n[i + k].role = "tool"
                      /\ n[i].role = "tool" =>
                            \E k \in 1..MaxCalls : i > k /\ n[i - k].calls >= k
    BY <1>4 DEF Loop!WellFormed
  <2>1. /\ i + m[i].calls <= Len(m) /\ \A k \in 1..m[i].calls : m[i + k].role = "tool"
        /\ m[i].role = "tool" => \E k \in 1..MaxCalls : i > k /\ m[i - k].calls >= k
        /\ m[i].calls \in Nat /\ n[i].calls = m[i].calls /\ n[i].role = m[i].role
    BY <1>1, <1>5, <1>6, CallsAreCounted DEF Loop!WellFormed
  <2>2. \A k \in 1..m[i].calls : i + k \in 1..Len(m)
    BY <1>1, <2>1
  <2>3. \A k \in 1..MaxCalls : i > k => i - k \in 1..Len(m)
    BY <1>1 DEF Loop!LoopAssumption
  <2>4. QED BY <1>4, <1>5, <2>1, <2>2, <2>3
<1>7. QED BY <1>4, <1>5, <1>6 DEF n

LEMMA NumberedFits ==
    ASSUME Loop!LoopAssumption, NEW m \in Seq(Said),
           NEW u \in 1..Len(m), m[u].role = "user"
    PROVE  /\ Loop!LatestUser(Loop!Numbered(m)) = Loop!LatestUser(m)
           /\ \A limit \in Nat : Loop!Fits(m, limit) => Loop!Fits(Loop!Numbered(m), limit)
<1> DEFINE n == Loop!Numbered(m)
           user == Loop!LatestUser(m)
           late == Loop!LatestUser(n)
<1>1. Len(m) \in Nat /\ u \in 1..Len(m)
  OBVIOUS
<1>2. /\ n \in Seq(Said) /\ Len(n) = Len(m) /\ DOMAIN n = 1..Len(m)
      /\ \A i \in 1..Len(m) : n[i].role = m[i].role /\ n[i].state = m[i].state
  BY NumberedIs
<1> HIDE DEF n
<1>3. /\ user \in 1..Len(m) /\ m[user].role = "user"
      /\ \A j \in (user + 1)..Len(m) : m[j].role # "user"
  BY TurnIsFound
<1>4. /\ late \in 1..Len(m) /\ n[late].role = "user"
      /\ \A j \in (late + 1)..Len(m) : n[j].role # "user"
  <2>1. u \in 1..Len(n) /\ n[u].role = "user"
    BY <1>2
  <2>2. QED BY <1>2, <2>1, TurnIsFound
<1> HIDE DEF user, late
<1>5. late = user
  <2>1. m[late].role = "user" /\ n[user].role = "user"
    BY <1>2, <1>3, <1>4
  <2>2. late \notin (user + 1)..Len(m) /\ user \notin (late + 1)..Len(m)
    BY <1>3, <1>4, <2>1
  <2>3. QED BY <1>1, <1>3, <1>4, <2>2
<1>6. Loop!Anchors(n, user) = Loop!Anchors(m, user)
  <2>1. \A i \in 1..(user - 1) : i \in 1..Len(m)
    BY <1>1, <1>3
  <2>2. \A i \in 1..(user - 1) : \A j \in (i + 1)..(user - 1) : j \in 1..Len(m)
    BY <1>1, <1>3
  <2>3. QED BY <1>2, <2>1, <2>2 DEF Loop!Anchors
<1>7. Loop!Mandatory(n, user) = Loop!Mandatory(m, user)
  BY <1>2, <1>6 DEF Loop!Mandatory
<1>8. \A limit \in Nat : Loop!Fits(m, limit) => Loop!Fits(n, limit)
  BY <1>2, <1>5, <1>7 DEF Loop!Fits, user, late
<1>9. QED BY <1>5, <1>8 DEF n, user, late

(* The loop itself.                                                         *)

TurnTypes ==
    /\ protocol \in BOOLEAN
    /\ loopPhase \in {"prompt", "asking", "calling", "ended"}
    /\ conversation \in Seq(Said)
    /\ turnStart \in 0..MaxMessages
    /\ modelStep \in 0..(MaxSteps + MaxProtocol + 2)
    /\ invalid \in 0..(MaxProtocol + 1)

(* Everything is answered before the model is asked; while it is asked, its *)
(* turn stands where it began.                                              *)
TurnBook ==
    /\ Len(conversation) >= 2 /\ conversation[1].role = "system"
    /\ loopPhase \in {"prompt", "asking"} => Loop!WellFormed(conversation)
    /\ loopPhase = "calling" =>
          \E front \in Seq(Said), n \in 1..MaxCalls :
              Loop!WellFormed(front) /\ conversation = front \o <<Loop!Calling(n)>>
    /\ loopPhase \in {"asking", "calling"} =>
          /\ turnStart \in 2..(Len(conversation) - 1)
          /\ conversation[turnStart + 1].role = "user"
          /\ modelStep <= MaxSteps + MaxProtocol + 1
          /\ invalid <= MaxProtocol

LoopInv == TurnTypes /\ TurnBook

LEMMA LoopStart == Loop!LoopAssumption /\ Loop!Init => LoopInv
<1> SUFFICES ASSUME Loop!LoopAssumption, Loop!Init PROVE LoopInv
  OBVIOUS
<1> DEFINE a == Loop!Message("system")
           b == Loop!State("session_state")
<1>1. /\ a \in Said /\ a.role = "system" /\ a.calls = 0
      /\ b \in Said /\ b.role = "system" /\ b.calls = 0
  BY MessagesAreSaid DEF Role, Kind
<1>2. /\ protocol \in BOOLEAN /\ loopPhase = "prompt" /\ conversation = <<a, b>>
      /\ turnStart = 0 /\ modelStep = 0 /\ invalid = 0
  BY DEF Loop!Init
<1> HIDE DEF a, b
<1>3. /\ conversation \in Seq(Said) /\ Len(conversation) = 2 /\ conversation[1] = a
      /\ DOMAIN conversation = 1..2 /\ conversation[2] = b
  BY <1>1, <1>2
<1>4. \A i \in DOMAIN conversation : conversation[i].calls = 0 /\ conversation[i].role # "tool"
  BY <1>1, <1>3
<1>5. Loop!WellFormed(conversation)
  BY <1>3, <1>4, InertIsWhole
<1>6. 0 \in 0..MaxMessages /\ 0 \in 0..(MaxSteps + MaxProtocol + 2)
      /\ 0 \in 0..(MaxProtocol + 1)
  BY DEF Loop!LoopAssumption
<1>7. QED BY <1>1, <1>2, <1>3, <1>5, <1>6 DEF LoopInv, TurnTypes, TurnBook

(* The conversation grows by something whole, and the turn goes on or ends. *)
LEMMA GrowingKeeps ==
    ASSUME Loop!LoopAssumption, LoopInv, loopPhase \in {"asking", "calling"},
           conversation' \in Seq(Said), Loop!WellFormed(conversation'),
           Len(conversation') >= Len(conversation),
           \A i \in 1..Len(conversation) : conversation'[i] = conversation[i],
           protocol' = protocol, turnStart' = turnStart,
           loopPhase' \in {"prompt", "asking", "ended"},
           modelStep' \in 0..(MaxSteps + MaxProtocol + 2),
           invalid' \in 0..(MaxProtocol + 1),
           loopPhase' = "asking" => /\ modelStep' <= MaxSteps + MaxProtocol + 1
                                /\ invalid' <= MaxProtocol
    PROVE  LoopInv'
<1>1. /\ Len(conversation) \in Nat /\ Len(conversation) >= 2 /\ Len(conversation') \in Nat
      /\ turnStart \in 2..(Len(conversation) - 1) /\ conversation[1].role = "system"
      /\ conversation[turnStart + 1].role = "user"
  BY DEF LoopInv, TurnTypes, TurnBook
<1>2. 1 \in 1..Len(conversation) /\ turnStart + 1 \in 1..Len(conversation)
      /\ turnStart \in 2..(Len(conversation') - 1) /\ Len(conversation') >= 2
  BY <1>1
<1>3. conversation'[1].role = "system" /\ conversation'[turnStart + 1].role = "user"
  BY <1>1, <1>2
<1>4. TurnTypes'
  BY DEF LoopInv, TurnTypes
<1>5. TurnBook'
  BY <1>2, <1>3 DEF TurnBook
<1>6. QED BY <1>4, <1>5 DEF LoopInv

LEMMA MoreIsWhole ==
    ASSUME Loop!LoopAssumption, LoopInv, loopPhase = "asking", NEW more \in Seq(Said),
           Loop!WellFormed(more)
    PROVE  /\ conversation \o more \in Seq(Said) /\ Loop!WellFormed(conversation \o more)
           /\ Len(conversation \o more) >= Len(conversation)
           /\ \A i \in 1..Len(conversation) : (conversation \o more)[i] = conversation[i]
<1>1. conversation \in Seq(Said) /\ Loop!WellFormed(conversation)
  BY DEF LoopInv, TurnTypes, TurnBook
<1>2. conversation \o more \in Seq(Said) /\ Loop!WellFormed(conversation \o more)
  BY <1>1, JoinIsWhole
<1>3. /\ Len(conversation) \in Nat /\ Len(more) \in Nat
      /\ Len(conversation \o more) = Len(conversation) + Len(more)
      /\ \A i \in 1..Len(conversation) : (conversation \o more)[i] = conversation[i]
  BY <1>1, JoinIs
<1>4. QED BY <1>2, <1>3

LEMMA OneMoreIsWhole ==
    ASSUME Loop!LoopAssumption, NEW m \in Seq(Said), NEW x \in Said,
           x.calls = 0, x.role # "tool"
    PROVE  /\ Append(m, x) = m \o <<x>> /\ <<x>> \in Seq(Said)
           /\ Loop!WellFormed(<<x>>)
<1>1. <<x>> \in Seq(Said) /\ \A i \in DOMAIN <<x>> : <<x>>[i] = x
  OBVIOUS
<1>2. Append(m, x) = m \o <<x>>
  OBVIOUS
<1>3. QED BY <1>1, <1>2, InertIsWhole

(* What is left of a turn that is forgotten.                                *)
LEMMA ForgettingKeeps ==
    ASSUME Loop!LoopAssumption, LoopInv, loopPhase \in {"asking", "calling"},
           conversation' = SubSeq(conversation, 1, turnStart),
           protocol' = protocol, turnStart' = turnStart, modelStep' = modelStep,
           invalid' = invalid, loopPhase' \in {"prompt", "ended"}
    PROVE  LoopInv'
<1>1. /\ conversation \in Seq(Said) /\ Len(conversation) \in Nat
      /\ turnStart \in 2..(Len(conversation) - 1) /\ conversation[1].role = "system"
      /\ conversation[turnStart + 1].role = "user"
  BY DEF LoopInv, TurnTypes, TurnBook
<1>2. turnStart \in Nat /\ turnStart >= 2 /\ turnStart + 1 <= Len(conversation)
      /\ turnStart + 1 \in 1..(Len(conversation) + 1) /\ (turnStart + 1) - 1 = turnStart
  BY <1>1
<1>3. /\ conversation' \in Seq(Said) /\ Len(conversation') = turnStart
      /\ conversation'[1] = conversation[1]
  <2>1. /\ Len(SubSeq(conversation, 1, turnStart)) = turnStart
        /\ \A i \in 1..turnStart : SubSeq(conversation, 1, turnStart)[i] = conversation[i]
        /\ SubSeq(conversation, 1, turnStart) \in Seq(Said)
    BY <1>1, <1>2, SubSeqProperties
  <2>2. 1 \in 1..turnStart
    BY <1>2
  <2>3. QED BY <2>1, <2>2
<1>4. Loop!WellFormed(conversation')
  <2>1. CASE loopPhase = "asking"
    <3>1. Loop!WellFormed(conversation)
      BY <2>1 DEF LoopInv, TurnBook
    <3>2. Loop!WellFormed(SubSeq(conversation, 1, (turnStart + 1) - 1))
      BY <1>1, <1>2, <3>1, CutIsWhole
    <3>3. QED BY <1>2, <3>2
  <2>2. CASE loopPhase = "calling"
    <3>1. PICK front \in Seq(Said), n \in 1..MaxCalls :
             Loop!WellFormed(front) /\ conversation = front \o <<Loop!Calling(n)>>
      BY <2>2 DEF LoopInv, TurnBook
    <3>2. Loop!Calling(n) \in Said /\ Loop!Calling(n).role = "assistant"
      BY MessagesAreSaid
    <3>3. <<Loop!Calling(n)>> \in Seq(Said) /\ Len(<<Loop!Calling(n)>>) = 1
          /\ <<Loop!Calling(n)>>[1] = Loop!Calling(n) /\ 1 \in 1..1
      BY <3>2
    <3>4. /\ Len(front) \in Nat /\ Len(conversation) = Len(front) + 1
          /\ \A i \in 1..Len(front) : conversation[i] = front[i]
          /\ conversation[Len(front) + 1] = Loop!Calling(n)
      BY <3>1, <3>3, JoinIs
    <3>5. turnStart + 1 # Len(front) + 1
      BY <1>1, <3>2, <3>4
    <3>6. turnStart + 1 \in 1..Len(front) /\ turnStart + 1 \in 1..(Len(front) + 1)
      BY <1>2, <3>4, <3>5
    <3>7. front[turnStart + 1].role # "tool"
      BY <1>1, <3>4, <3>6
    <3>8. Loop!WellFormed(SubSeq(front, 1, (turnStart + 1) - 1))
      BY <3>1, <3>6, <3>7, CutIsWhole
    <3>9. SubSeq(front, 1, turnStart) = SubSeq(conversation, 1, turnStart)
      <4>1. \A i \in 1..turnStart : i \in 1..Len(front)
        BY <1>2, <3>6
      <4>2. SubSeq(front, 1, turnStart) = [i \in 1..turnStart |-> front[i]]
        BY <1>2, <3>6
      <4>3. SubSeq(conversation, 1, turnStart) = [i \in 1..turnStart |-> conversation[i]]
        BY <1>1, <1>2
      <4>4. QED BY <3>4, <4>1, <4>2, <4>3
    <3>10. QED BY <1>2, <3>8, <3>9
  <2>3. QED BY <2>1, <2>2
<1>5. TurnTypes'
  BY <1>3 DEF LoopInv, TurnTypes
<1>6. TurnBook'
  BY <1>1, <1>2, <1>3, <1>4 DEF TurnBook
<1>7. QED BY <1>5, <1>6 DEF LoopInv


(* A step on, or the end of the turn.                                       *)
LEMMA ContinueKeeps ==
    ASSUME Loop!LoopAssumption, LoopInv, loopPhase \in {"asking", "calling"}, Loop!Continue
    PROVE  /\ loopPhase' \in {"prompt", "asking", "ended"}
           /\ modelStep' \in 0..(MaxSteps + MaxProtocol + 2)
           /\ loopPhase' = "asking" => modelStep' <= MaxSteps + MaxProtocol + 1
<1>1. /\ MaxSteps \in Nat /\ MaxProtocol \in Nat /\ modelStep \in Nat
      /\ modelStep <= MaxSteps + MaxProtocol + 1
  BY DEF Loop!LoopAssumption, LoopInv, TurnTypes, TurnBook
<1>2. /\ modelStep' = modelStep + 1
      /\ IF Loop!LastStep THEN Loop!End ELSE loopPhase' = "asking"
  BY DEF Loop!Continue
<1>3. Loop!End => loopPhase' \in {"prompt", "ended"}
  BY DEF Loop!End
<1>4. ~Loop!LastStep => modelStep + 1 <= MaxSteps + MaxProtocol + 1
  BY <1>1 DEF Loop!LastStep
<1>5. modelStep + 1 \in 0..(MaxSteps + MaxProtocol + 2)
  BY <1>1
<1>6. QED BY <1>2, <1>3, <1>4, <1>5

(* The conversation between turns.                                          *)
LEMMA TurnBeginsKeeps == Loop!LoopAssumption /\ LoopInv /\ Loop!Begin => LoopInv'
<1> SUFFICES ASSUME Loop!LoopAssumption, LoopInv, Loop!Begin PROVE LoopInv'
  OBVIOUS
<1> DEFINE x == Loop!Message("user")
<1>1. x \in Said /\ x.role = "user" /\ x.calls = 0
  BY MessagesAreSaid DEF Role
<1>2. /\ loopPhase = "prompt" /\ conversation' = Append(conversation, x)
      /\ turnStart' = Len(conversation) /\ Len(conversation) < MaxMessages
      /\ loopPhase' = "asking" /\ modelStep' = 1 /\ invalid' = 0 /\ protocol' = protocol
  BY DEF Loop!Begin
<1> HIDE DEF x
<1>3. /\ conversation \in Seq(Said) /\ Len(conversation) \in Nat /\ Len(conversation) >= 2
      /\ Loop!WellFormed(conversation) /\ conversation[1].role = "system"
  BY <1>2 DEF LoopInv, TurnTypes, TurnBook
<1>4. /\ Append(conversation, x) = conversation \o <<x>> /\ <<x>> \in Seq(Said)
      /\ Loop!WellFormed(<<x>>) /\ Len(<<x>>) = 1 /\ <<x>>[1] = x /\ 1 \in 1..1
  BY <1>1, <1>3, OneMoreIsWhole
<1>5. conversation' \in Seq(Said) /\ Loop!WellFormed(conversation')
  BY <1>2, <1>3, <1>4, JoinIsWhole
<1>6. /\ Len(conversation') = Len(conversation) + 1
      /\ \A i \in 1..Len(conversation) : conversation'[i] = conversation[i]
      /\ conversation'[Len(conversation) + 1] = x
  BY <1>2, <1>3, <1>4, JoinIs
<1>7. /\ 1 \in 1..Len(conversation) /\ turnStart' \in 2..(Len(conversation') - 1)
      /\ Len(conversation') >= 2 /\ turnStart' \in 0..MaxMessages
  BY <1>2, <1>3, <1>6 DEF Loop!LoopAssumption
<1>8. /\ 1 \in 0..(MaxSteps + MaxProtocol + 2) /\ 0 \in 0..(MaxProtocol + 1)
      /\ 1 <= MaxSteps + MaxProtocol + 1 /\ 0 <= MaxProtocol
  BY DEF Loop!LoopAssumption
<1>9. TurnTypes'
  BY <1>2, <1>5, <1>7, <1>8 DEF LoopInv, TurnTypes
<1>10. TurnBook'
  BY <1>1, <1>2, <1>3, <1>5, <1>6, <1>7, <1>8 DEF TurnBook
<1>11. QED BY <1>9, <1>10 DEF LoopInv

LEMMA AnnounceKeeps == Loop!LoopAssumption /\ LoopInv /\ Loop!Announce => LoopInv'
<1> SUFFICES ASSUME Loop!LoopAssumption, LoopInv, Loop!Announce PROVE LoopInv'
  OBVIOUS
<1>1. PICK name \in {"none", "permission"} : conversation' = Append(conversation, Loop!State(name))
  BY DEF Loop!Announce
<1> DEFINE x == Loop!State(name)
<1>2. x \in Said /\ x.role = "system" /\ x.calls = 0
  BY MessagesAreSaid DEF Kind
<1>3. conversation' = Append(conversation, x)
  BY <1>1
<1> HIDE DEF x
<1>4. /\ loopPhase = "prompt" /\ protocol' = protocol /\ loopPhase' = loopPhase
      /\ turnStart' = turnStart /\ modelStep' = modelStep /\ invalid' = invalid
  BY DEF Loop!Announce
<1>5. /\ conversation \in Seq(Said) /\ Len(conversation) \in Nat /\ Len(conversation) >= 2
      /\ Loop!WellFormed(conversation) /\ conversation[1].role = "system"
  BY <1>4 DEF LoopInv, TurnTypes, TurnBook
<1>6. /\ Append(conversation, x) = conversation \o <<x>> /\ <<x>> \in Seq(Said)
      /\ Loop!WellFormed(<<x>>) /\ Len(<<x>>) = 1
  BY <1>2, <1>5, OneMoreIsWhole
<1>7. conversation' \in Seq(Said) /\ Loop!WellFormed(conversation')
  BY <1>3, <1>5, <1>6, JoinIsWhole
<1>8. /\ Len(conversation') = Len(conversation) + 1
      /\ \A i \in 1..Len(conversation) : conversation'[i] = conversation[i]
  BY <1>3, <1>5, <1>6, JoinIs
<1>9. 1 \in 1..Len(conversation) /\ Len(conversation') >= 2
  BY <1>5, <1>8
<1>10. TurnTypes'
  BY <1>4, <1>7 DEF LoopInv, TurnTypes
<1>11. TurnBook'
  BY <1>4, <1>5, <1>7, <1>8, <1>9 DEF TurnBook
<1>12. QED BY <1>10, <1>11 DEF LoopInv

(* What ends a turn.                                                        *)
LEMMA TurnEndsKeeps ==
    ASSUME Loop!LoopAssumption, LoopInv, loopPhase = "asking", Loop!End,
           NEW x \in Said, x.calls = 0, x.role # "tool",
           conversation' = Append(conversation, x),
           protocol' = protocol, turnStart' = turnStart, modelStep' = modelStep,
           invalid' \in 0..(MaxProtocol + 1)
    PROVE  LoopInv'
<1>1. conversation \in Seq(Said) /\ modelStep \in 0..(MaxSteps + MaxProtocol + 2)
  BY DEF LoopInv, TurnTypes
<1>2. /\ Append(conversation, x) = conversation \o <<x>> /\ <<x>> \in Seq(Said)
      /\ Loop!WellFormed(<<x>>)
  BY <1>1, OneMoreIsWhole
<1>3. /\ conversation' \in Seq(Said) /\ Loop!WellFormed(conversation')
      /\ Len(conversation') >= Len(conversation)
      /\ \A i \in 1..Len(conversation) : conversation'[i] = conversation[i]
  BY <1>2, MoreIsWhole
<1>4. loopPhase' \in {"prompt", "ended"}
  BY DEF Loop!End
<1>5. QED BY <1>1, <1>3, <1>4, GrowingKeeps

LEMMA TooLargeKeeps == Loop!LoopAssumption /\ LoopInv /\ Loop!TooLarge => LoopInv'
<1> SUFFICES ASSUME Loop!LoopAssumption, LoopInv, Loop!TooLarge PROVE LoopInv'
  OBVIOUS
<1>1. /\ loopPhase = "asking" /\ Loop!End /\ protocol' = protocol
      /\ turnStart' = turnStart /\ modelStep' = modelStep /\ invalid' = invalid
      /\ \/ conversation' = Append(conversation, Loop!Message("assistant"))
         \/ conversation' = SubSeq(conversation, 1, turnStart)
  BY DEF Loop!TooLarge
<1>2. CASE conversation' = Append(conversation, Loop!Message("assistant"))
  <2>1. /\ Loop!Message("assistant") \in Said /\ Loop!Message("assistant").calls = 0
        /\ Loop!Message("assistant").role = "assistant"
    BY MessagesAreSaid DEF Role
  <2>2. invalid' \in 0..(MaxProtocol + 1)
    BY <1>1 DEF LoopInv, TurnTypes
  <2>3. QED BY <1>1, <1>2, <2>1, <2>2, TurnEndsKeeps
<1>3. CASE conversation' = SubSeq(conversation, 1, turnStart)
  <2>1. loopPhase' \in {"prompt", "ended"}
    BY <1>1 DEF Loop!End
  <2>2. QED BY <1>1, <1>3, <2>1, ForgettingKeeps
<1>4. QED BY <1>1, <1>2, <1>3

LEMMA ModelFailsKeeps == Loop!LoopAssumption /\ LoopInv /\ Loop!ModelFails => LoopInv'
<1> SUFFICES ASSUME Loop!LoopAssumption, LoopInv, Loop!ModelFails PROVE LoopInv'
  OBVIOUS
<1>1. /\ loopPhase = "asking" /\ Loop!End /\ protocol' = protocol
      /\ turnStart' = turnStart /\ modelStep' = modelStep /\ invalid' = invalid
      /\ conversation' = Append(conversation, Loop!Message("system"))
  BY DEF Loop!ModelFails
<1>2. /\ Loop!Message("system") \in Said /\ Loop!Message("system").calls = 0
      /\ Loop!Message("system").role = "system"
  BY MessagesAreSaid DEF Role
<1>3. invalid' \in 0..(MaxProtocol + 1)
  BY <1>1 DEF LoopInv, TurnTypes
<1>4. QED BY <1>1, <1>2, <1>3, TurnEndsKeeps

LEMMA AnswersTextKeeps == Loop!LoopAssumption /\ LoopInv /\ Loop!AnswersText => LoopInv'
<1> SUFFICES ASSUME Loop!LoopAssumption, LoopInv, Loop!AnswersText PROVE LoopInv'
  OBVIOUS
<1> DEFINE a == Loop!Message("assistant")
           b == Loop!Message("user")
<1>1. /\ a \in Said /\ a.calls = 0 /\ a.role = "assistant"
      /\ b \in Said /\ b.calls = 0 /\ b.role = "user"
  BY MessagesAreSaid DEF Role
<1>2. /\ loopPhase = "asking" /\ protocol' = protocol /\ turnStart' = turnStart
      /\ invalid' = IF protocol THEN invalid + 1 ELSE invalid
      /\ \/ /\ protocol /\ invalid < MaxProtocol
            /\ conversation' = conversation \o <<a, b>> /\ Loop!Continue
         \/ /\ ~(protocol /\ invalid < MaxProtocol)
            /\ conversation' = Append(conversation, a) /\ Loop!End /\ modelStep' = modelStep
  BY DEF Loop!AnswersText
<1> HIDE DEF a, b
<1>3. invalid \in Nat /\ invalid <= MaxProtocol /\ MaxProtocol \in Nat
  BY <1>2 DEF LoopInv, TurnTypes, TurnBook, Loop!LoopAssumption
<1>4. invalid' \in 0..(MaxProtocol + 1)
  <2>1. invalid' = invalid + 1 \/ invalid' = invalid
    BY <1>2
  <2>2. QED BY <1>3, <2>1
<1>5. CASE protocol /\ invalid < MaxProtocol /\ conversation' = conversation \o <<a, b>>
           /\ Loop!Continue
  <2>1. <<a, b>> \in Seq(Said) /\ \A i \in DOMAIN <<a, b>> : <<a, b>>[i] \in {a, b}
    BY <1>1
  <2>2. Loop!WellFormed(<<a, b>>)
    BY <1>1, <2>1, InertIsWhole
  <2>3. /\ conversation' \in Seq(Said) /\ Loop!WellFormed(conversation')
        /\ Len(conversation') >= Len(conversation)
        /\ \A i \in 1..Len(conversation) : conversation'[i] = conversation[i]
    BY <1>2, <1>5, <2>1, <2>2, MoreIsWhole
  <2>4. /\ loopPhase' \in {"prompt", "asking", "ended"}
        /\ modelStep' \in 0..(MaxSteps + MaxProtocol + 2)
        /\ loopPhase' = "asking" => modelStep' <= MaxSteps + MaxProtocol + 1
    BY <1>2, <1>5, ContinueKeeps
  <2>5. invalid' = invalid + 1
    BY <1>2, <1>5
  <2>6. invalid' <= MaxProtocol
    BY <1>3, <1>5, <2>5
  <2>7. QED BY <1>2, <1>4, <2>3, <2>4, <2>6, GrowingKeeps
<1>6. CASE conversation' = Append(conversation, a) /\ Loop!End /\ modelStep' = modelStep
  <2>1. a.role # "tool"
    BY <1>1
  <2>2. QED BY <1>1, <1>2, <1>4, <1>6, <2>1, TurnEndsKeeps
<1>7. QED BY <1>2, <1>5, <1>6

LEMMA SubmitsInvalidKeeps ==
    Loop!LoopAssumption /\ LoopInv /\ Loop!SubmitsInvalid => LoopInv'
<1> SUFFICES ASSUME Loop!LoopAssumption, LoopInv, Loop!SubmitsInvalid PROVE LoopInv'
  OBVIOUS
<1>1. PICK n \in 1..MaxCalls :
         conversation' = conversation \o <<Loop!Calling(n)>> \o Loop!Results(n)
  BY DEF Loop!SubmitsInvalid
<1>2. /\ loopPhase = "asking" /\ protocol' = protocol /\ turnStart' = turnStart
      /\ invalid' = invalid + 1
      /\ \/ invalid < MaxProtocol /\ Loop!Continue
         \/ Loop!End /\ modelStep' = modelStep
  BY DEF Loop!SubmitsInvalid
<1>3. /\ conversation \in Seq(Said) /\ modelStep \in 0..(MaxSteps + MaxProtocol + 2)
      /\ invalid \in Nat /\ invalid <= MaxProtocol /\ MaxProtocol \in Nat
  BY <1>2 DEF LoopInv, TurnTypes, TurnBook, Loop!LoopAssumption
<1> DEFINE more == <<Loop!Calling(n)>> \o Loop!Results(n)
<1>4. more \in Seq(Said) /\ Loop!WellFormed(more)
  BY BatchIsWhole
<1>5. conversation' = conversation \o more
  <2>1. n \in Nat /\ Loop!Calling(n) \in Said /\ Loop!Message("tool") \in Said
    BY MessagesAreSaid DEF Role, Loop!LoopAssumption
  <2>2. <<Loop!Calling(n)>> \in Seq(Said) /\ Loop!Results(n) \in Seq(Said)
    BY <2>1 DEF Loop!Results
  <2>3. QED BY <1>1, <1>3, <2>2, ConcatAssociative
<1> HIDE DEF more
<1>6. /\ conversation' \in Seq(Said) /\ Loop!WellFormed(conversation')
      /\ Len(conversation') >= Len(conversation)
      /\ \A i \in 1..Len(conversation) : conversation'[i] = conversation[i]
  BY <1>2, <1>4, <1>5, MoreIsWhole
<1>7. invalid' \in 0..(MaxProtocol + 1) /\ (invalid < MaxProtocol => invalid' <= MaxProtocol)
  BY <1>2, <1>3
<1>8. CASE invalid < MaxProtocol /\ Loop!Continue
  <2>1. /\ loopPhase' \in {"prompt", "asking", "ended"}
        /\ modelStep' \in 0..(MaxSteps + MaxProtocol + 2)
        /\ loopPhase' = "asking" => modelStep' <= MaxSteps + MaxProtocol + 1
    BY <1>2, <1>8, ContinueKeeps
  <2>2. QED BY <1>2, <1>6, <1>7, <1>8, <2>1, GrowingKeeps
<1>9. CASE Loop!End /\ modelStep' = modelStep
  <2>1. loopPhase' \in {"prompt", "ended"}
    BY <1>9 DEF Loop!End
  <2>2. QED BY <1>2, <1>3, <1>6, <1>7, <1>9, <2>1, GrowingKeeps
<1>10. QED BY <1>2, <1>8, <1>9

(* A turn that ends with its result: only the result is left unanswered.    *)
LEMMA SubmitsKeeps == Loop!LoopAssumption /\ LoopInv /\ Loop!Submits => LoopInv'
<1> SUFFICES ASSUME Loop!LoopAssumption, LoopInv, Loop!Submits PROVE LoopInv'
  OBVIOUS
<1> DEFINE x == Loop!Calling(1)
<1>1. x \in Said
  <2>1. 1 \in 1..MaxCalls
    BY DEF Loop!LoopAssumption
  <2>2. QED BY <2>1, MessagesAreSaid
<1>2. /\ loopPhase = "asking" /\ loopPhase' = "ended" /\ protocol' = protocol
      /\ conversation' = Append(conversation, x) /\ turnStart' = turnStart
      /\ modelStep' = modelStep /\ invalid' = invalid
  BY DEF Loop!Submits, Loop!End
<1> HIDE DEF x
<1>3. conversation \in Seq(Said) /\ Len(conversation) >= 2 /\ conversation[1].role = "system"
  BY DEF LoopInv, TurnTypes, TurnBook
<1>4. /\ conversation' \in Seq(Said) /\ Len(conversation') = Len(conversation) + 1
      /\ conversation'[1] = conversation[1]
  BY <1>1, <1>2, <1>3
<1>5. TurnTypes'
  BY <1>2, <1>4 DEF LoopInv, TurnTypes
<1>6. TurnBook'
  BY <1>2, <1>3, <1>4 DEF TurnBook
<1>7. QED BY <1>5, <1>6 DEF LoopInv

LEMMA CallsKeeps == Loop!LoopAssumption /\ LoopInv /\ Loop!Calls => LoopInv'
<1> SUFFICES ASSUME Loop!LoopAssumption, LoopInv, Loop!Calls PROVE LoopInv'
  OBVIOUS
<1>1. PICK n \in 1..MaxCalls : conversation' = Append(conversation, Loop!Calling(n))
  BY DEF Loop!Calls
<1> DEFINE x == Loop!Calling(n)
<1>2. x \in Said
  BY MessagesAreSaid
<1>3. conversation' = Append(conversation, x)
  BY <1>1
<1>4. /\ loopPhase = "asking" /\ loopPhase' = "calling" /\ protocol' = protocol
      /\ turnStart' = turnStart /\ modelStep' = modelStep /\ invalid' = invalid
  BY DEF Loop!Calls
<1>5. /\ conversation \in Seq(Said) /\ Len(conversation) \in Nat /\ Len(conversation) >= 2
      /\ Loop!WellFormed(conversation) /\ conversation[1].role = "system"
      /\ turnStart \in 2..(Len(conversation) - 1) /\ conversation[turnStart + 1].role = "user"
      /\ modelStep <= MaxSteps + MaxProtocol + 1 /\ invalid <= MaxProtocol
  BY <1>4 DEF LoopInv, TurnTypes, TurnBook
<1>6. conversation' = conversation \o <<Loop!Calling(n)>>
  BY <1>2, <1>3, <1>5
<1> HIDE DEF x
<1>7. /\ conversation' \in Seq(Said) /\ Len(conversation') = Len(conversation) + 1
      /\ \A i \in 1..Len(conversation) : conversation'[i] = conversation[i]
  BY <1>2, <1>3, <1>5
<1>8. /\ 1 \in 1..Len(conversation) /\ turnStart + 1 \in 1..Len(conversation)
      /\ turnStart \in 2..(Len(conversation') - 1) /\ Len(conversation') >= 2
  BY <1>5, <1>7
<1>9. \E front \in Seq(Said), k \in 1..MaxCalls :
          Loop!WellFormed(front) /\ conversation' = front \o <<Loop!Calling(k)>>
  BY <1>5, <1>6
<1>10. TurnTypes'
  BY <1>4, <1>7 DEF LoopInv, TurnTypes
<1>11. conversation'[1].role = "system" /\ conversation'[turnStart + 1].role = "user"
  BY <1>5, <1>7, <1>8
<1>12. TurnBook'
  BY <1>4, <1>5, <1>8, <1>9, <1>11 DEF TurnBook
<1>13. QED BY <1>10, <1>12 DEF LoopInv

LEMMA ReturnsKeeps == Loop!LoopAssumption /\ LoopInv /\ Loop!Returns => LoopInv'
<1> SUFFICES ASSUME Loop!LoopAssumption, LoopInv, Loop!Returns PROVE LoopInv'
  OBVIOUS
<1>1. /\ loopPhase = "calling" /\ Loop!Continue /\ protocol' = protocol
      /\ turnStart' = turnStart /\ invalid' = invalid
      /\ conversation' = conversation \o Loop!Results(Loop!Last(conversation).calls)
  BY DEF Loop!Returns
<1>2. PICK front \in Seq(Said), n \in 1..MaxCalls :
         Loop!WellFormed(front) /\ conversation = front \o <<Loop!Calling(n)>>
  BY <1>1 DEF LoopInv, TurnBook
<1>3. /\ n \in Nat /\ Loop!Calling(n) \in Said /\ Loop!Calling(n).calls = n
      /\ Loop!Message("tool") \in Said
  BY MessagesAreSaid DEF Role, Loop!LoopAssumption
<1>4. /\ <<Loop!Calling(n)>> \in Seq(Said) /\ Len(<<Loop!Calling(n)>>) = 1
      /\ <<Loop!Calling(n)>>[1] = Loop!Calling(n) /\ 1 \in 1..1
      /\ Loop!Results(n) \in Seq(Said)
  BY <1>3 DEF Loop!Results
<1>5. /\ conversation \in Seq(Said) /\ Len(front) \in Nat
      /\ Len(conversation) = Len(front) + 1 /\ conversation[Len(front) + 1] = Loop!Calling(n)
  BY <1>2, <1>4, JoinIs
<1>6. Loop!Last(conversation).calls = n
  BY <1>3, <1>5 DEF Loop!Last
<1> DEFINE more == <<Loop!Calling(n)>> \o Loop!Results(n)
<1>7. more \in Seq(Said) /\ Loop!WellFormed(more)
  BY BatchIsWhole
<1>8. conversation' = front \o more
  <2> DEFINE c == <<Loop!Calling(n)>>
             r == Loop!Results(n)
  <2>1. conversation' = (front \o c) \o r
    BY <1>1, <1>2, <1>6
  <2>2. c \in Seq(Said) /\ r \in Seq(Said)
    BY <1>4
  <2>3. more = c \o r
    OBVIOUS
  <2> HIDE DEF c, r, more
  <2>4. (front \o c) \o r = front \o (c \o r)
    BY <2>2, ConcatAssociative
  <2>5. QED BY <2>1, <2>3, <2>4
<1>9. conversation' = conversation \o Loop!Results(n)
  BY <1>1, <1>6
<1> HIDE DEF more
<1>10. conversation' \in Seq(Said) /\ Loop!WellFormed(conversation')
  BY <1>2, <1>7, <1>8, JoinIsWhole
<1>11. /\ Len(conversation') >= Len(conversation)
       /\ \A i \in 1..Len(conversation) : conversation'[i] = conversation[i]
  <2>1. /\ Len(conversation') = Len(conversation) + Len(Loop!Results(n))
        /\ Len(conversation) \in Nat /\ Len(Loop!Results(n)) \in Nat
        /\ \A i \in 1..Len(conversation) : conversation'[i] = conversation[i]
    BY <1>4, <1>5, <1>9, JoinIs
  <2>2. QED BY <2>1
<1>12. /\ loopPhase' \in {"prompt", "asking", "ended"}
       /\ modelStep' \in 0..(MaxSteps + MaxProtocol + 2)
       /\ loopPhase' = "asking" => modelStep' <= MaxSteps + MaxProtocol + 1
  BY <1>1, ContinueKeeps
<1>13. invalid' \in 0..(MaxProtocol + 1) /\ invalid' <= MaxProtocol
  BY <1>1 DEF LoopInv, TurnTypes, TurnBook
<1>14. QED BY <1>1, <1>10, <1>11, <1>12, <1>13, GrowingKeeps

LEMMA ApprovalUnavailableKeeps ==
    Loop!LoopAssumption /\ LoopInv /\ Loop!ApprovalUnavailable => LoopInv'
<1> SUFFICES ASSUME Loop!LoopAssumption, LoopInv, Loop!ApprovalUnavailable PROVE LoopInv'
  OBVIOUS
<1>1. /\ loopPhase = "calling" /\ loopPhase' \in {"prompt", "ended"}
      /\ conversation' = SubSeq(conversation, 1, turnStart)
      /\ protocol' = protocol /\ turnStart' = turnStart /\ modelStep' = modelStep
      /\ invalid' = invalid
  BY DEF Loop!ApprovalUnavailable, Loop!End
<1>2. QED BY <1>1, ForgettingKeeps

LEMMA AnswersNothingKeeps ==
    Loop!LoopAssumption /\ LoopInv /\ Loop!AnswersNothing => LoopInv'
<1> SUFFICES ASSUME LoopInv, Loop!AnswersNothing PROVE LoopInv'
  OBVIOUS
<1>1. /\ loopPhase = "asking" /\ loopPhase' \in {"prompt", "ended"} /\ protocol' = protocol
      /\ conversation' = conversation /\ turnStart' = turnStart /\ modelStep' = modelStep
      /\ invalid' = invalid
  BY DEF Loop!AnswersNothing, Loop!End
<1>2. TurnTypes'
  BY <1>1 DEF LoopInv, TurnTypes
<1>3. TurnBook'
  BY <1>1 DEF LoopInv, TurnBook
<1>4. QED BY <1>2, <1>3 DEF LoopInv

LEMMA ExitKeeps == Loop!LoopAssumption /\ LoopInv /\ Loop!Exit => LoopInv'
<1> SUFFICES ASSUME LoopInv, Loop!Exit PROVE LoopInv'
  OBVIOUS
<1>1. /\ loopPhase' = "ended" /\ protocol' = protocol
      /\ conversation' = conversation /\ turnStart' = turnStart /\ modelStep' = modelStep
      /\ invalid' = invalid
  BY DEF Loop!Exit
<1>2. TurnTypes'
  BY <1>1 DEF LoopInv, TurnTypes
<1>3. TurnBook'
  BY <1>1 DEF LoopInv, TurnBook
<1>4. QED BY <1>2, <1>3 DEF LoopInv

LEMMA LoopStays == LoopInv /\ UNCHANGED Loop!vars => LoopInv'
<1> SUFFICES ASSUME LoopInv, UNCHANGED Loop!vars PROVE LoopInv'
  OBVIOUS
<1>1. /\ loopPhase' = loopPhase /\ protocol' = protocol /\ conversation' = conversation
      /\ turnStart' = turnStart /\ modelStep' = modelStep /\ invalid' = invalid
  BY DEF Loop!vars
<1>2. QED BY <1>1 DEF LoopInv, TurnTypes, TurnBook

(* The invariant of the loop: how far the conversation is whole between two *)
(* requests.                                                                *)
THEOREM LoopInvariant == Loop!LoopAssumption => (Loop!Spec => []LoopInv)
<1> SUFFICES ASSUME Loop!LoopAssumption PROVE Loop!Spec => []LoopInv
  OBVIOUS
<1>1. Loop!Init => LoopInv
  BY LoopStart
<1>2. LoopInv /\ [Loop!Next]_(Loop!vars) => LoopInv'
  BY TurnBeginsKeeps, AnnounceKeeps, TooLargeKeeps, ModelFailsKeeps, AnswersNothingKeeps,
     AnswersTextKeeps, SubmitsInvalidKeeps, SubmitsKeeps, CallsKeeps, ReturnsKeeps,
     ApprovalUnavailableKeeps, ExitKeeps, LoopStays DEF Loop!Next
<1>3. QED BY <1>1, <1>2, PTL DEF Loop!Spec

(* The loop stays within its types.                                         *)
LEMMA LoopIsTyped == Loop!LoopAssumption /\ LoopInv => Loop!TypeOK
<1> SUFFICES ASSUME LoopInv PROVE Loop!TypeOK
  OBVIOUS
<1>1. \A i \in DOMAIN conversation :
         /\ conversation[i].role \in Role /\ conversation[i].state \in Kind
         /\ conversation[i].calls \in 0..MaxCalls
  <2>1. \A i \in DOMAIN conversation : conversation[i] \in Said
    BY DEF LoopInv, TurnTypes
  <2>2. QED BY <2>1 DEF Said
<1>2. QED BY <1>1 DEF LoopInv, TurnTypes, Loop!TypeOK, Role, Kind

(* Within a turn the operator is asked nothing more.                        *)
OneQuestion ==
    loopPhase \in {"asking", "calling"} /\ ~protocol =>
        \A i \in (turnStart + 2)..Len(conversation) : conversation[i].role # "user"

LEMMA OneQuestionStays ==
    Loop!LoopAssumption /\ LoopInv /\ OneQuestion /\ [Loop!Next]_(Loop!vars)
        => OneQuestion'
<1> SUFFICES ASSUME Loop!LoopAssumption, LoopInv, OneQuestion, [Loop!Next]_(Loop!vars),
                    loopPhase' \in {"asking", "calling"}, ~protocol'
             PROVE  \A i \in (turnStart' + 2)..Len(conversation') :
                       conversation'[i].role # "user"
  BY DEF OneQuestion
<1>1. conversation \in Seq(Said) /\ Len(conversation) \in Nat
  BY DEF LoopInv, TurnTypes
<1>2. protocol' = protocol
  BY DEF Loop!Next, Loop!vars, Loop!Begin, Loop!Announce, Loop!TooLarge, Loop!ModelFails,
         Loop!AnswersNothing, Loop!AnswersText, Loop!SubmitsInvalid, Loop!Submits, Loop!Calls,
         Loop!Returns, Loop!ApprovalUnavailable, Loop!Exit
<1>3. ~protocol
  BY <1>2
<1>4. ASSUME loopPhase \in {"asking", "calling"}, turnStart' = turnStart,
             turnStart \in Nat, NEW more \in Seq(Said), conversation' = conversation \o more,
             \A i \in 1..Len(more) : more[i].role # "user"
      PROVE  \A i \in (turnStart' + 2)..Len(conversation') :
                conversation'[i].role # "user"
  <2>1. \A i \in (turnStart + 2)..Len(conversation) : conversation[i].role # "user"
    BY <1>3, <1>4 DEF OneQuestion
  <2>2. /\ Len(more) \in Nat /\ Len(conversation') = Len(conversation) + Len(more)
        /\ \A i \in 1..Len(conversation) : conversation'[i] = conversation[i]
        /\ \A i \in 1..Len(more) : conversation'[Len(conversation) + i] = more[i]
    BY <1>1, <1>4, JoinIs
  <2>3. ASSUME NEW i \in (turnStart + 2)..Len(conversation')
        PROVE  conversation'[i].role # "user"
    <3>1. CASE i <= Len(conversation)
      <4>1. i \in 1..Len(conversation) /\ i \in (turnStart + 2)..Len(conversation)
        BY <1>1, <1>4, <3>1
      <4>2. QED BY <2>1, <2>2, <4>1
    <3>2. CASE ~ i <= Len(conversation)
      <4>1. i - Len(conversation) \in 1..Len(more)
            /\ Len(conversation) + (i - Len(conversation)) = i
        BY <1>1, <1>4, <2>2, <3>2
      <4>2. conversation'[Len(conversation) + (i - Len(conversation))].role # "user"
        BY <1>4, <2>2, <4>1
      <4>3. QED BY <4>1, <4>2
    <3>3. QED BY <3>1, <3>2
  <2>4. QED BY <1>4, <2>3
<1>5. loopPhase \in {"asking", "calling"} => turnStart \in Nat
  BY DEF LoopInv, TurnTypes
<1>6. CASE Loop!Begin
  <2>1. Len(conversation') = Len(conversation) + 1 /\ turnStart' = Len(conversation)
    BY <1>1, <1>6 DEF Loop!Begin
  <2>2. (turnStart' + 2)..Len(conversation') = {}
    BY <1>1, <2>1
  <2>3. QED BY <2>2
<1>7. CASE Loop!Calls
  <2>1. PICK n \in 1..MaxCalls : conversation' = Append(conversation, Loop!Calling(n))
    BY <1>7 DEF Loop!Calls
  <2> DEFINE x == Loop!Calling(n)
  <2>2. x \in Said /\ x.role # "user"
    BY MessagesAreSaid
  <2>3. conversation' = Append(conversation, x)
    BY <2>1
  <2> HIDE DEF x
  <2>4. /\ conversation' = conversation \o <<x>> /\ <<x>> \in Seq(Said)
        /\ \A i \in 1..Len(<<x>>) : <<x>>[i].role # "user"
    BY <1>1, <2>2, <2>3
  <2>5. loopPhase = "asking" /\ turnStart' = turnStart
    BY <1>7 DEF Loop!Calls
  <2>6. QED BY <1>4, <1>5, <2>4, <2>5
<1>8. CASE Loop!Returns
  <2>1. PICK front \in Seq(Said), n \in 1..MaxCalls :
           Loop!WellFormed(front) /\ conversation = front \o <<Loop!Calling(n)>>
    BY <1>8 DEF Loop!Returns, LoopInv, TurnBook
  <2>2. /\ n \in Nat /\ Loop!Calling(n) \in Said /\ Loop!Calling(n).calls = n
        /\ Loop!Message("tool") \in Said /\ Loop!Message("tool").role = "tool"
    BY MessagesAreSaid DEF Role, Loop!LoopAssumption
  <2>3. /\ <<Loop!Calling(n)>> \in Seq(Said) /\ Len(<<Loop!Calling(n)>>) = 1
        /\ <<Loop!Calling(n)>>[1] = Loop!Calling(n) /\ 1 \in 1..1
    BY <2>2
  <2>4. Len(conversation) = Len(front) + 1 /\ conversation[Len(front) + 1] = Loop!Calling(n)
    BY <2>1, <2>3, JoinIs
  <2>5. Loop!Last(conversation).calls = n
    BY <2>2, <2>4 DEF Loop!Last
  <2>6. conversation' = conversation \o Loop!Results(n)
    BY <1>8, <2>5 DEF Loop!Returns
  <2>7. /\ Loop!Results(n) \in Seq(Said)
        /\ \A i \in 1..Len(Loop!Results(n)) : Loop!Results(n)[i].role # "user"
    BY <2>2 DEF Loop!Results
  <2>8. loopPhase = "calling" /\ turnStart' = turnStart
    BY <1>8 DEF Loop!Returns
  <2>9. QED BY <1>4, <1>5, <2>6, <2>7, <2>8
<1>9. CASE Loop!AnswersText
  BY <1>3, <1>9 DEF Loop!AnswersText, Loop!End
<1>10. CASE Loop!SubmitsInvalid
  BY <1>3, <1>10 DEF Loop!SubmitsInvalid
<1>11. CASE Loop!Submits
  BY <1>3, <1>11 DEF Loop!Submits
<1>12. CASE Loop!Announce
  BY <1>12 DEF Loop!Announce
<1>13. CASE Loop!TooLarge
  BY <1>13 DEF Loop!TooLarge, Loop!End
<1>14. CASE Loop!ModelFails
  BY <1>14 DEF Loop!ModelFails, Loop!End
<1>15. CASE Loop!AnswersNothing
  BY <1>15 DEF Loop!AnswersNothing, Loop!End
<1>16. CASE Loop!ApprovalUnavailable
  BY <1>16 DEF Loop!ApprovalUnavailable, Loop!End
<1>17. CASE Loop!Exit
  BY <1>17 DEF Loop!Exit
<1>18. CASE UNCHANGED Loop!vars
  BY <1>3, <1>18 DEF Loop!vars, OneQuestion
<1>19. QED
  BY <1>6, <1>7, <1>8, <1>9, <1>10, <1>11, <1>12, <1>13, <1>14, <1>15, <1>16, <1>17, <1>18
  DEF Loop!Next

(* Whatever a request leaves out, it is whole: every call with its results  *)
(* behind it, the first system message, the newest message of every kind of *)
(* state, and the active turn, message by message.  (prepare_messages.)     *)
LEMMA WholeRequests ==
    Loop!LoopAssumption /\ LoopInv /\ OneQuestion => Loop!RequestsAreWhole
<1> DEFINE said == Loop!Numbered(conversation)
           turn == IF protocol THEN Loop!LatestUser(conversation) ELSE turnStart + 1
           Request(limit) == Loop!Prepared(said, limit)
<1> SUFFICES ASSUME Loop!LoopAssumption, LoopInv, OneQuestion, loopPhase = "asking",
                    NEW limit \in DOMAIN conversation, Loop!Fits(conversation, limit)
             PROVE  /\ Loop!WellFormed(Request(limit))
                    /\ Len(Request(limit)) <= limit
                    /\ Request(limit)[1] = said[1]
                    /\ \A i \in DOMAIN said :
                          Loop!Newest(said, i) =>
                              \E k \in DOMAIN Request(limit) : Request(limit)[k] = said[i]
                    /\ \A i \in turn..Len(said) :
                          /\ Len(said) - i < Len(Request(limit))
                          /\ Request(limit)[Len(Request(limit)) - (Len(said) - i)] = said[i]
  BY DEF Loop!RequestsAreWhole
<1>1. /\ conversation \in Seq(Said) /\ Len(conversation) \in Nat
      /\ DOMAIN conversation = 1..Len(conversation)
      /\ turnStart \in 2..(Len(conversation) - 1) /\ conversation[1].role = "system"
      /\ conversation[turnStart + 1].role = "user" /\ Loop!WellFormed(conversation)
  BY DEF LoopInv, TurnTypes, TurnBook
<1>2. turnStart + 1 \in 2..Len(conversation) /\ turnStart + 1 \in 1..Len(conversation)
      /\ 1 \in 1..Len(conversation) /\ limit \in Nat
  BY <1>1
<1>3. /\ said \in Seq(Said) /\ Len(said) = Len(conversation)
      /\ DOMAIN said = 1..Len(conversation) /\ Loop!WellFormed(said)
      /\ said[1].role = "system" /\ said[turnStart + 1].role = "user"
  <2>1. /\ said \in Seq(Said) /\ Len(said) = Len(conversation)
        /\ DOMAIN said = 1..Len(conversation)
        /\ \A i \in 1..Len(conversation) : said[i].role = conversation[i].role
        /\ Loop!WellFormed(conversation) => Loop!WellFormed(said)
    BY <1>1, NumberedIs
  <2>2. QED BY <1>1, <1>2, <2>1
<1>4. /\ Loop!LatestUser(said) = Loop!LatestUser(conversation)
      /\ Loop!Fits(said, limit)
  BY <1>1, <1>2, NumberedFits
<1>5. turn = Loop!LatestUser(said)
  <2>1. CASE protocol
    BY <1>4, <2>1
  <2>2. CASE ~protocol
    <3> DEFINE user == Loop!LatestUser(conversation)
    <3>1. /\ user \in 1..Len(conversation) /\ turnStart + 1 <= user
          /\ conversation[user].role = "user"
      BY <1>1, <1>2, TurnIsFound
    <3>2. \A i \in (turnStart + 2)..Len(conversation) : conversation[i].role # "user"
      BY <2>2 DEF OneQuestion
    <3> HIDE DEF user
    <3>3. user \notin (turnStart + 2)..Len(conversation)
      BY <3>1, <3>2
    <3>4. user = turnStart + 1
      BY <1>1, <3>1, <3>3
    <3>5. QED BY <1>4, <2>2, <3>4 DEF user
  <2>3. QED BY <2>1, <2>2
<1> HIDE DEF said, turn
<1> DEFINE request == Loop!Prepared(said, limit)
<1>6. /\ request \in Seq(Said) /\ Loop!WellFormed(request)
      /\ Len(request) <= limit /\ Len(request) >= 1
      /\ request[1] = said[1]
      /\ \A i \in 1..Len(said) : Loop!Newest(said, i) =>
            \E k \in 1..Len(request) : request[k] = said[i]
      /\ \A i \in Loop!LatestUser(said)..Len(said) :
            /\ Len(said) - i < Len(request)
            /\ request[Len(request) - (Len(said) - i)] = said[i]
  <2>1. turnStart + 1 \in 2..Len(said) /\ limit \in 1..Len(said)
    BY <1>1, <1>2, <1>3
  <2>2. QED BY <1>3, <1>4, <2>1, PreparedIsWhole
<1> HIDE DEF request
<1>7. DOMAIN request = 1..Len(request) /\ DOMAIN said = 1..Len(said)
  BY <1>3, <1>6
<1>8. QED BY <1>5, <1>6, <1>7 DEF request

-----------------------------------------------------------------------------
(* The chunks.                                                              *)

LEMMA ChunksAreInOrder == \A S, before : Chunks!InOrder(S, before) = InOrder(S, before)
<1>1. \A S : Chunks!Cardinality(S) = Cardinality(S)
  BY DEF Chunks!Cardinality, Cardinality
<1>2. QED BY <1>1 DEF Chunks!InOrder, InOrder

(* The ranges of lines of a text of n lines that hold a line.               *)
Ranges(n) == {r \in (1..n) \X (1..(n + 1)) : r[1] < r[2]}

LEMMA PrecedesIsAnOrder ==
    ASSUME NEW n \in Nat
    PROVE  /\ \A u \in Ranges(n) : ~Chunks!Precedes(u, u)
           /\ \A u, v \in Ranges(n) :
                 u # v => Chunks!Precedes(u, v) \/ Chunks!Precedes(v, u)
           /\ \A u, v, w \in Ranges(n) :
                 Chunks!Precedes(u, v) /\ Chunks!Precedes(v, w) => Chunks!Precedes(u, w)
<1>1. \A u \in Ranges(n) : u = <<u[1], u[2]>> /\ u[1] \in Nat /\ u[2] \in Nat
  BY DEF Ranges
<1>2. \A u, v \in Ranges(n) : u # v => u[1] # v[1] \/ u[2] # v[2]
  BY <1>1
<1>3. QED BY <1>1, <1>2 DEF Chunks!Precedes

(* The units of a text come in one order, and so do the pieces of a unit.   *)
LEMMA CutsAreOrdered ==
    ASSUME NEW n \in Nat, NEW cuts \in SUBSET (Ranges(n) \X Ranges(n))
    PROVE  /\ IsFiniteSet(cuts)
           /\ IsOrder(cuts, [c \in cuts |-> Chunks!Before(cuts, c)])
<1> DEFINE Less(d, c) == \/ Chunks!Precedes(d[1], c[1])
                         \/ d[1] = c[1] /\ Chunks!Precedes(d[2], c[2])
           before == [c \in cuts |-> Chunks!Before(cuts, c)]
<1>1. IsFiniteSet(cuts)
  <2>1. IsFiniteSet(1..n) /\ IsFiniteSet(1..(n + 1))
    BY FS_Interval
  <2>2. IsFiniteSet((1..n) \X (1..(n + 1)))
    BY <2>1, FS_Product
  <2>3. Ranges(n) \in SUBSET ((1..n) \X (1..(n + 1)))
    BY DEF Ranges
  <2>4. IsFiniteSet(Ranges(n))
    BY <2>2, <2>3, FS_Subset
  <2>5. IsFiniteSet(Ranges(n) \X Ranges(n))
    BY <2>4, FS_Product
  <2>6. QED BY <2>5, FS_Subset
<1>2. \A c \in cuts : c = <<c[1], c[2]>> /\ c[1] \in Ranges(n) /\ c[2] \in Ranges(n)
  OBVIOUS
<1>3. \A c \in cuts : ~Less(c, c)
  BY <1>2, PrecedesIsAnOrder
<1>4. \A c, d \in cuts : c # d => Less(c, d) \/ Less(d, c)
  <2>1. \A c, d \in cuts : c # d => c[1] # d[1] \/ c[2] # d[2]
    BY <1>2
  <2>2. QED BY <1>2, <2>1, PrecedesIsAnOrder
<1>5. \A c, d, e \in cuts : Less(c, d) /\ Less(d, e) => Less(c, e)
  BY <1>2, PrecedesIsAnOrder
<1>6. \A c \in cuts : before[c] = {d \in cuts : Less(d, c)}
  BY DEF Chunks!Before
<1>7. DOMAIN before = cuts /\ before = [c \in cuts |-> before[c]]
  OBVIOUS
<1> HIDE DEF before, Less
<1>8. before \in [cuts -> SUBSET cuts]
  BY <1>6, <1>7
<1>9. \A c \in cuts : c \notin before[c]
  BY <1>3, <1>6
<1>10. \A c, d \in cuts : Less(c, d) => before[c] \cup {c} \subseteq before[d]
  BY <1>5, <1>6
<1>11. \A c, d \in cuts : c # d =>
          before[c] \cup {c} \subseteq before[d] \/ before[d] \cup {d} \subseteq before[c]
  BY <1>4, <1>10
<1>12. IsOrder(cuts, before)
  BY <1>8, <1>9, <1>11 DEF IsOrder
<1>13. QED BY <1>1, <1>12 DEF before

(* The chunks are the pieces of the units, all of them.                     *)
LEMMA ChunksArePieces ==
    ASSUME NEW n \in Nat, NEW units \in SUBSET Ranges(n),
           \A u \in units : Chunks!Pieces(u) \in SUBSET Ranges(n)
    PROVE  /\ Chunks!ChunksFromUnits(units) \in Seq(Ranges(n))
           /\ \A k \in DOMAIN Chunks!ChunksFromUnits(units) :
                 \E u \in units : Chunks!ChunksFromUnits(units)[k] \in Chunks!Pieces(u)
           /\ \A u \in units : \A p \in Chunks!Pieces(u) :
                 \E k \in DOMAIN Chunks!ChunksFromUnits(units) :
                    Chunks!ChunksFromUnits(units)[k] = p
<1> DEFINE cuts == Chunks!Cuts(units)
           before == [c \in cuts |-> Chunks!Before(cuts, c)]
           ordered == InOrder(cuts, before)
           result == Chunks!ChunksFromUnits(units)
<1>1. /\ \A c \in cuts : \E u \in units : c[1] = u /\ c[2] \in Chunks!Pieces(u)
      /\ \A u \in units : \A p \in Chunks!Pieces(u) : <<u, p>> \in cuts
  BY DEF Chunks!Cuts
<1>2. cuts \in SUBSET (Ranges(n) \X Ranges(n))
  <2>1. \A u \in units : {u} \X Chunks!Pieces(u) \in SUBSET (Ranges(n) \X Ranges(n))
    OBVIOUS
  <2>2. QED BY <2>1 DEF Chunks!Cuts
<1>3. result = [k \in DOMAIN ordered |-> ordered[k][2]]
  BY ChunksAreInOrder DEF Chunks!ChunksFromUnits
<1> HIDE DEF cuts, result
<1>4. IsFiniteSet(cuts) /\ IsOrder(cuts, before)
  BY <1>2, CutsAreOrdered
<1> HIDE DEF before
<1>5. /\ Cardinality(cuts) \in Nat
      /\ ordered \in [1..Cardinality(cuts) -> cuts]
      /\ \A a \in cuts :
            /\ Cardinality(before[a]) + 1 \in 1..Cardinality(cuts)
            /\ ordered[Cardinality(before[a]) + 1] = a
  BY <1>4, InOrderEnumerates
<1> HIDE DEF ordered
<1>6. DOMAIN ordered = 1..Cardinality(cuts) /\ \A k \in DOMAIN ordered : ordered[k] \in cuts
  BY <1>5
<1>7. result \in [1..Cardinality(cuts) -> Ranges(n)]
  <2>1. \A c \in cuts : c[2] \in Ranges(n)
    BY <1>2
  <2>2. QED BY <1>3, <1>6, <2>1
<1>8. result \in Seq(Ranges(n)) /\ DOMAIN result = DOMAIN ordered
  BY <1>5, <1>6, <1>7
<1>9. \A k \in DOMAIN result : \E u \in units : result[k] \in Chunks!Pieces(u)
  BY <1>1, <1>3, <1>6, <1>8
<1>10. ASSUME NEW u \in units, NEW p \in Chunks!Pieces(u)
       PROVE  \E k \in DOMAIN result : result[k] = p
  <2>1. <<u, p>> \in cuts /\ <<u, p>>[2] = p
    BY <1>1
  <2>2. PICK k \in DOMAIN ordered : ordered[k] = <<u, p>>
    BY <1>5, <1>6, <2>1
  <2>3. QED BY <1>3, <1>8, <2>1, <2>2
<1>11. QED BY <1>8, <1>9, <1>10 DEF result

(* A unit is cut into pieces that are not too long, without a gap.          *)
LEMMA PiecesCoverTheUnit ==
    ASSUME Chunks!LengthAssumption, NEW n \in Nat, NEW unit \in Ranges(n)
    PROVE  /\ Chunks!Pieces(unit) \in SUBSET Ranges(n)
           /\ \A p \in Chunks!Pieces(unit) : p[1] < p[2] /\ p[2] - p[1] <= MaxLength
           /\ \A i \in Nat : Chunks!Within(i, unit) =>
                 \E p \in Chunks!Pieces(unit) : Chunks!Within(i, p)
<1> DEFINE a == unit[1]
           b == unit[2]
           S == Chunks!Starts(unit)
           End(i) == IF i + MaxLength < b THEN i + MaxLength ELSE b
<1>1. a \in 1..n /\ b \in 1..(n + 1) /\ a < b /\ MaxLength \in Nat /\ MaxLength >= 1
  BY DEF Ranges, Chunks!LengthAssumption
<1>2. Chunks!Pieces(unit) = {<<i, End(i)>> : i \in S}
  BY DEF Chunks!Pieces
<1>3. \A i \in S : i \in a..(b - 1)
  BY DEF Chunks!Starts
<1>4. \A k \in 0..(b - a) : a + k * MaxLength \in a..(b - 1) => a + k * MaxLength \in S
  BY DEF Chunks!Starts
<1> HIDE DEF a, b, S
<1>5. ASSUME NEW i \in S
      PROVE  /\ i \in 1..n /\ End(i) \in 1..(n + 1) /\ i < End(i)
             /\ End(i) - i <= MaxLength
  BY <1>1, <1>3
<1>6. \A p \in Chunks!Pieces(unit) :
         p \in Ranges(n) /\ p[1] < p[2] /\ p[2] - p[1] <= MaxLength
  BY <1>2, <1>5 DEF Ranges
<1>7. ASSUME NEW i \in Nat, Chunks!Within(i, unit)
      PROVE  \E p \in Chunks!Pieces(unit) : Chunks!Within(i, p)
  <2>1. a <= i /\ i < b
    BY <1>7 DEF Chunks!Within, a, b
  <2> DEFINE T == {k \in 0..(b - a) : a + k * MaxLength <= i}
  <2>2. b - a \in Nat /\ T \in SUBSET (0..(b - a)) /\ 0 \in T
    <3>1. b - a \in Nat /\ 0 \in 0..(b - a) /\ 0 * MaxLength = 0
      BY <1>1
    <3>2. a + 0 * MaxLength <= i
      BY <1>1, <2>1, <3>1
    <3>3. QED BY <3>1, <3>2
  <2>3. PICK k \in T : \A j \in T : j <= k
    <3> HIDE DEF T
    <3>1. QED BY <2>2, Latest
  <2> DEFINE s == a + k * MaxLength
  <2>4. k \in Nat /\ k <= b - a /\ k * MaxLength \in Nat /\ s <= i /\ s \in Nat
        /\ (k + 1) * MaxLength \in Nat
        /\ (k + 1) * MaxLength = k * MaxLength + MaxLength /\ (k + 1) * MaxLength >= k + 1
    <3>1. k \in Nat /\ k <= b - a /\ a + k * MaxLength <= i
      BY <2>2
    <3>2. k * MaxLength \in Nat /\ (k + 1) * MaxLength \in Nat
      BY <1>1, <3>1
    <3>3. (k + 1) * MaxLength = k * MaxLength + MaxLength
      BY <1>1, <3>1
    <3>4. (k + 1) * MaxLength >= k + 1
      <4>1. PICK d \in Nat : MaxLength = d + 1
        <5>1. MaxLength - 1 \in Nat /\ MaxLength = (MaxLength - 1) + 1
          BY <1>1
        <5>2. QED BY <5>1
      <4>2. (k + 1) * (d + 1) = (k + 1) * d + (k + 1) /\ (k + 1) * d \in Nat
        BY <3>1
      <4>3. QED BY <3>1, <4>1, <4>2
    <3>5. QED BY <1>1, <3>1, <3>2, <3>3, <3>4
  <2>5. s \in S
    <3>1. s \in a..(b - 1)
      BY <1>1, <2>1, <2>4
    <3>2. k \in 0..(b - a)
      BY <1>1, <2>4
    <3>3. QED BY <1>4, <3>1, <3>2
  <2>6. i < s + MaxLength
    <3>1. SUFFICES ASSUME i >= s + MaxLength PROVE FALSE
      BY <1>1, <2>4
    <3>2. a + (k + 1) * MaxLength <= i
      BY <1>1, <2>4, <3>1
    <3>3. k + 1 \in 0..(b - a)
      BY <1>1, <2>1, <2>4, <3>2
    <3>4. k + 1 \in T
      BY <3>2, <3>3
    <3> HIDE DEF T
    <3>5. QED BY <2>3, <2>4, <3>4
  <2> HIDE DEF s
  <2>7. i < End(s) /\ s <= i
    BY <1>1, <2>1, <2>4, <2>6
  <2>8. <<s, End(s)>> \in Chunks!Pieces(unit)
    BY <1>2, <2>5
  <2>9. Chunks!Within(i, <<s, End(s)>>)
    BY <2>7 DEF Chunks!Within
  <2>10. QED BY <2>8, <2>9
<1>8. QED BY <1>6, <1>7

(* Units of a text.                                                         *)

LEMMA LeastIsFound ==
    ASSUME NEW n \in Nat, NEW S \in SUBSET (1..n), NEW default
    PROVE  /\ S = {} => Chunks!Least(S, default) = default
           /\ S # {} => /\ Chunks!Least(S, default) \in S
                        /\ \A i \in S : Chunks!Least(S, default) <= i
<1>1. S # {} => \E x \in S : \A y \in S : x <= y
  <2>1. S \in SUBSET (0..n)
    OBVIOUS
  <2>2. QED BY <2>1, Earliest
<1>2. QED BY <1>1 DEF Chunks!Least

LEMMA LeastIsWithin ==
    ASSUME NEW n \in Nat, NEW S \in SUBSET (1..(n + 1)), NEW default \in 1..(n + 1)
    PROVE  Chunks!Least(S, default) \in 1..(n + 1)
<1>1. n + 1 \in Nat
  OBVIOUS
<1>2. QED BY <1>1, LeastIsFound

(* Sections that begin at S and end where the next one does leave nothing   *)
(* out behind the first.                                                    *)
LEMMA SectionsAreDense ==
    ASSUME NEW n \in Nat, NEW S \in SUBSET (1..n), NEW i \in 1..n, NEW k \in S, k <= i
    PROVE  \E s \in S : s <= i /\ i < Chunks!Least({j \in S : j > s}, n + 1)
<1> DEFINE T == {j \in S : j <= i}
<1>1. T \in SUBSET (0..n) /\ k \in T
  <2>1. \A j \in S : j \in 0..n
    OBVIOUS
  <2>2. QED BY <2>1
<1>2. PICK s \in T : \A j \in T : j <= s
  <2> HIDE DEF T
  <2>1. QED BY <1>1, Latest
<1> DEFINE later == {j \in S : j > s}
           next == Chunks!Least(later, n + 1)
<1>3. s \in S /\ s <= i /\ s \in Nat /\ i \in Nat /\ i <= n
  OBVIOUS
<1>4. \A j \in later : j \in S /\ j > s /\ j \in Nat /\ j > i
  <2>1. ASSUME NEW j \in later, j <= i PROVE FALSE
    <3>1. j \in T
      BY <2>1
    <3>2. QED BY <1>2, <3>1
  <2>2. QED BY <1>3, <2>1
<1>5. later \in SUBSET (1..n)
  OBVIOUS
<1> HIDE DEF later
<1>6. i < next
  <2>1. CASE later = {}
    <3>1. next = n + 1
      BY <1>5, <2>1, LeastIsFound
    <3>2. QED BY <1>3, <3>1
  <2>2. CASE later # {}
    <3>1. next \in later
      BY <1>5, <2>2, LeastIsFound
    <3>2. next > i /\ next \in Nat
      BY <1>4, <3>1
    <3>3. QED BY <1>3, <3>2
  <2>3. QED BY <2>1, <2>2
<1>7. QED BY <1>3, <1>6 DEF later

(* Every plain line is in a paragraph.                                      *)
LEMMA ParagraphsAreDense ==
    ASSUME NEW t \in Seq(Chunks!Line), NEW i \in 1..Len(t), t[i] = "plain"
    PROVE  \E p \in Chunks!Paragraphs(t) : Chunks!Within(i, p)
<1> DEFINE n == Len(t)
           A == {j \in 1..i : t[j] # "plain"}
           B == {j \in i..n : t[j] # "plain"}
           b == Chunks!Least(B, n + 1)
<1>1. n \in Nat /\ i \in Nat /\ i >= 1 /\ i <= n
  OBVIOUS
<1>2. PICK a \in 1..i : /\ \A j \in a..i : t[j] = "plain"
                        /\ a = 1 \/ t[a - 1] # "plain"
  <2>1. CASE A = {}
    <3>1. 1 \in 1..i /\ \A j \in 1..i : t[j] = "plain"
      BY <1>1, <2>1
    <3>2. QED BY <3>1
  <2>2. CASE A # {}
    <3>1. A \in SUBSET (0..i)
      OBVIOUS
    <3>2. PICK x \in A : \A y \in A : y <= x
      <4> HIDE DEF A
      <4>1. QED BY <1>1, <2>2, <3>1, Latest
    <3>3. x \in 1..i /\ t[x] # "plain" /\ x # i
      OBVIOUS
    <3>4. x + 1 \in 1..i /\ (x + 1) - 1 = x
      BY <1>1, <3>3
    <3>5. ASSUME NEW j \in (x + 1)..i PROVE t[j] = "plain"
      <4>1. j \in 1..i /\ ~ j <= x
        BY <1>1, <3>3
      <4>2. j \notin A
        <5> HIDE DEF A
        <5>1. QED BY <3>2, <4>1
      <4>3. QED BY <4>1, <4>2
    <3>6. t[(x + 1) - 1] # "plain"
      BY <3>3, <3>4
    <3>7. QED BY <3>4, <3>5, <3>6
  <2>3. QED BY <2>1, <2>2
<1>3. B \in SUBSET (1..n) /\ \A j \in B : j > i
  <2>1. \A j \in B : j \in i..n /\ j # i
    OBVIOUS
  <2> HIDE DEF B
  <2>2. QED BY <1>1, <2>1
<1>4. /\ b \in (i + 1)..(n + 1) /\ (b = n + 1 \/ t[b] # "plain")
      /\ \A j \in i..(b - 1) : t[j] = "plain"
  <2>1. CASE B = {}
    <3>1. b = n + 1
      BY <1>1, <1>3, <2>1, LeastIsFound
    <3>2. \A j \in i..n : t[j] = "plain"
      BY <2>1
    <3>3. (n + 1) - 1 = n /\ n + 1 \in (i + 1)..(n + 1)
      BY <1>1
    <3>4. QED BY <3>1, <3>2, <3>3
  <2>2. CASE B # {}
    <3>1. b \in B /\ \A j \in B : b <= j
      <4> HIDE DEF B
      <4>1. QED BY <1>1, <1>3, <2>2, LeastIsFound
    <3>2. b \in i..n /\ t[b] # "plain" /\ b > i
      BY <1>3, <3>1
    <3>3. b \in (i + 1)..(n + 1)
      BY <1>1, <3>2
    <3>4. ASSUME NEW j \in i..(b - 1) PROVE t[j] = "plain"
      <4>1. j \in i..n /\ ~ b <= j
        BY <1>1, <3>2
      <4>2. j \notin B
        BY <3>1, <4>1
      <4>3. QED BY <4>1, <4>2
    <3>5. QED BY <3>2, <3>3, <3>4
  <2>3. QED BY <2>1, <2>2
<1> HIDE DEF A, B, b
<1>5. a \in 1..n /\ b \in 2..(n + 1) /\ a < b
  BY <1>1, <1>4
<1>6. \A j \in a..(b - 1) : t[j] = "plain"
  <2>1. \A j \in a..(b - 1) : j \in a..i \/ j \in i..(b - 1)
    BY <1>1, <1>4
  <2>2. QED BY <1>2, <1>4, <2>1
<1>7. <<a, b>> \in (1..Len(t)) \X (2..(Len(t) + 1)) /\ <<a, b>>[1] = a /\ <<a, b>>[2] = b
  BY <1>5
<1>8. <<a, b>> \in Chunks!Paragraphs(t)
  BY <1>2, <1>4, <1>5, <1>6, <1>7 DEF Chunks!Paragraphs, Chunks!EndOf
<1>9. Chunks!Within(i, <<a, b>>)
  BY <1>1, <1>4, <1>7 DEF Chunks!Within
<1>10. QED BY <1>8, <1>9

(* Every format's units are of the text.                                    *)
LEMMA UnitsAreOfTheText ==
    ASSUME NEW t \in Seq(Chunks!Line), Len(t) >= 1, NEW f, NEW refused \in BOOLEAN
    PROVE  Chunks!UnitsFor(t, f, refused) \in SUBSET Ranges(Len(t))
<1> DEFINE n == Len(t)
           R == (1..n) \X (1..(n + 1))
<1>1. n \in Nat /\ n >= 1 /\ DOMAIN t = 1..n /\ Chunks!EndOf(t) = n + 1
      /\ n + 1 \in 1..(n + 1) /\ 1 \in 1..n
  BY DEF Chunks!EndOf
<1>2. Chunks!Marks(t) \in SUBSET (1..n)
  BY <1>1 DEF Chunks!Marks
<1>3. \A i \in 1..n : Chunks!SectionEnd(t, i) \in 1..(n + 1)
  BY <1>1, <1>2, LeastIsWithin DEF Chunks!SectionEnd
<1>4. \A i \in 1..n : Chunks!NextMark(t, i) \in 1..(n + 1)
  BY <1>1, <1>2, LeastIsWithin DEF Chunks!NextMark
<1>5. \A i \in 1..n : i + 1 \in 1..(n + 1)
  BY <1>1
<1>6. Chunks!PythonUnits(t) \in SUBSET R
  BY <1>1, <1>2, <1>3 DEF Chunks!PythonUnits
<1>7. Chunks!CodeUnits(t) \in SUBSET R
  BY <1>1, <1>2, <1>4, <1>5 DEF Chunks!CodeUnits
<1>8. Chunks!MarkdownUnits(t) \in SUBSET R
  <2>1. Chunks!FlushedParagraphs(t) \in SUBSET R
    BY <1>1 DEF Chunks!FlushedParagraphs, Chunks!Paragraphs
  <2>2. QED BY <1>1, <1>2, <1>3, <1>5, <2>1 DEF Chunks!MarkdownUnits
<1>9. Chunks!JsonUnits(t) \in SUBSET R
  <2> DEFINE written == {i \in 1..n : t[i] # "blank"}
             ends == {i \in written : \A j \in written : j <= i}
             last == Chunks!Least(ends, n)
             end == 1 + last
  <2>1. written \in SUBSET (1..n) /\ ends \in SUBSET (1..n) /\ n \in 1..n
    BY <1>1
  <2>2. Chunks!JsonUnits(t) =
           {<<Chunks!Least(written, 1), end>>}
             \cup {<<i, Chunks!Least({Chunks!SectionEnd(t, i), end}, end)>> :
                      i \in Chunks!Marks(t)}
    BY <1>1 DEF Chunks!JsonUnits
  <2> HIDE DEF written, ends
  <2>3. last \in 1..n /\ Chunks!Least(written, 1) \in 1..n
    BY <1>1, <2>1, LeastIsFound
  <2> HIDE DEF last
  <2>4. end \in 1..(n + 1)
    BY <1>1, <2>3
  <2> HIDE DEF end
  <2>5. ASSUME NEW i \in 1..n
        PROVE  Chunks!Least({Chunks!SectionEnd(t, i), end}, end) \in 1..(n + 1)
    <3> DEFINE S == {Chunks!SectionEnd(t, i), end}
    <3>1. S \in SUBSET (1..(n + 1))
      BY <1>3, <2>4
    <3> HIDE DEF S
    <3>2. Chunks!Least(S, end) \in 1..(n + 1)
      BY <1>1, <2>4, <3>1, LeastIsWithin
    <3>3. QED BY <3>2 DEF S
  <2>6. <<Chunks!Least(written, 1), end>> \in R
    BY <2>3, <2>4
  <2> DEFINE End(i) == Chunks!Least({Chunks!SectionEnd(t, i), end}, end)
  <2>7. \A i \in Chunks!Marks(t) : End(i) \in 1..(n + 1)
    BY <1>2, <2>5
  <2>8. Chunks!JsonUnits(t) = {<<Chunks!Least(written, 1), end>>}
                                \cup {<<i, End(i)>> : i \in Chunks!Marks(t)}
    BY <2>2
  <2> HIDE DEF End
  <2>9. {<<i, End(i)>> : i \in Chunks!Marks(t)} \in SUBSET R
    BY <1>2, <2>7
  <2> HIDE DEF R
  <2>10. QED BY <2>6, <2>8, <2>9
<1>10. Chunks!TomlUnits(t) \in SUBSET R
  <2> DEFINE headers == {i \in 1..n : t[i] = "outer"}
             End(i) == Chunks!Least({j \in headers : j > i}, n + 1)
             inner == {j \in 1..n : t[j] = "inner"}
  <2>1. headers \in SUBSET (1..n) /\ headers \in SUBSET (1..(n + 1))
    BY <1>1
  <2>2. Chunks!TomlUnits(t) =
           {<<1, Chunks!Least(headers, n + 1)>>} \cup {<<i, End(i)>> : i \in headers}
             \cup {<<i, i + 1>> : i \in inner}
    BY <1>1 DEF Chunks!TomlUnits
  <2> HIDE DEF headers
  <2>3. Chunks!Least(headers, n + 1) \in 1..(n + 1)
    BY <1>1, <2>1, LeastIsWithin
  <2>4. \A i \in headers : End(i) \in 1..(n + 1)
    BY <1>1, <2>1, LeastIsWithin
  <2> HIDE DEF End
  <2>5. QED BY <1>1, <1>5, <2>1, <2>2, <2>3, <2>4
<1>11. Chunks!LogUnits(t) \in SUBSET R
  <2> DEFINE first == Chunks!Least({i \in 1..n : t[i] # "blank"}, n + 1)
             starts == {i \in 1..n : i = first \/ (i > first /\ Chunks!Mark(t[i]))}
             End(i) == Chunks!Least({j \in starts : j > i}, n + 1)
  <2>1. Chunks!LogUnits(t) = {<<i, End(i)>> : i \in starts}
    BY <1>1 DEF Chunks!LogUnits
  <2>2. starts \in SUBSET (1..n) /\ starts \in SUBSET (1..(n + 1))
    BY <1>1
  <2> HIDE DEF starts
  <2>3. \A i \in starts : End(i) \in 1..(n + 1)
    BY <1>1, <2>2, LeastIsWithin
  <2> HIDE DEF End
  <2>4. QED BY <2>1, <2>2, <2>3
<1>12. Chunks!YamlUnits(t) = Chunks!PythonUnits(t)
  BY DEF Chunks!YamlUnits
<1>13. Chunks!Structure(t, f) \in SUBSET R
  BY <1>6, <1>7, <1>8, <1>9, <1>10, <1>11, <1>12 DEF Chunks!Structure
<1>14. <<1, n + 1>> \in Ranges(n)
  BY <1>1 DEF Ranges
<1>15. {u \in Chunks!Structure(t, f) : u[1] < u[2]} \in SUBSET Ranges(n)
  BY <1>13 DEF Ranges
<1>16. QED BY <1>1, <1>14, <1>15 DEF Chunks!UnitsFor

(* Which lines are to be found again.                                       *)
Sought(t, f) ==
    {i \in DOMAIN t : t[i] # "blank" /\
        (f = "code" /\ Chunks!Marks(t) # {} => \E k \in Chunks!Marks(t) : k <= i)}

(* Every one of them is in a unit.                                          *)
LEMMA UnitsAreDense ==
    ASSUME NEW t \in Seq(Chunks!Line), Len(t) >= 1, NEW f \in Chunks!Format \ {"binary"},
           NEW refused \in BOOLEAN, NEW i \in Sought(t, f)
    PROVE  \E u \in Chunks!UnitsFor(t, f, refused) : Chunks!Within(i, u)
<1> DEFINE n == Len(t)
           M == Chunks!Marks(t)
           found(S) == \E u \in S : u[1] < u[2] /\ Chunks!Within(i, u)
<1>1. /\ n \in Nat /\ n >= 1 /\ DOMAIN t = 1..n /\ Chunks!EndOf(t) = n + 1
      /\ i \in 1..n /\ i \in Nat /\ 1 <= i /\ i < i + 1 /\ i < n + 1
      /\ t[i] # "blank" /\ t[i] \in Chunks!Line
  BY DEF Sought, Chunks!EndOf
<1>2. /\ M \in SUBSET (1..n)
      /\ \A j \in 1..n : j \in M <=> t[j] \in {"outer", "inner"}
  BY <1>1 DEF Chunks!Marks, Chunks!Mark
<1>3. ASSUME NEW a \in Nat, NEW b \in Nat, a <= i, i < b, NEW U, <<a, b>> \in U
      PROVE  found(U)
  <2>1. <<a, b>>[1] < <<a, b>>[2] /\ Chunks!Within(i, <<a, b>>)
    BY <1>1, <1>3 DEF Chunks!Within
  <2>2. QED BY <1>3, <2>1
<1>4. Chunks!Within(i, <<1, n + 1>>)
  BY <1>1 DEF Chunks!Within
<1>5. ASSUME NEW S \in SUBSET (1..n), NEW k \in S, k <= i, NEW U,
             \A s \in S : <<s, Chunks!Least({j \in S : j > s}, n + 1)>> \in U
      PROVE  found(U)
  <2>1. PICK s \in S : s <= i /\ i < Chunks!Least({j \in S : j > s}, n + 1)
    BY <1>1, <1>5, SectionsAreDense
  <2>2. Chunks!Least({j \in S : j > s}, n + 1) \in 1..(n + 1)
    BY <1>1, LeastIsWithin
  <2>3. s \in Nat /\ Chunks!Least({j \in S : j > s}, n + 1) \in Nat
    BY <1>1, <2>2
  <2>4. QED BY <1>3, <1>5, <2>1, <2>3
<1> DEFINE kept == Chunks!Structure(t, f)
<1> SUFFICES found(kept)
  BY <1>1, <1>4 DEF Chunks!UnitsFor
<1> HIDE DEF found
<1>6. CASE f \in {"python", "yaml"}
  <2>1. <<1, n + 1>> \in Chunks!PythonUnits(t) /\ <<1, n + 1>> \in Chunks!YamlUnits(t)
    BY <1>1 DEF Chunks!PythonUnits, Chunks!YamlUnits
  <2>2. <<1, n + 1>> \in kept
    BY <1>6, <2>1 DEF Chunks!Structure
  <2>3. 1 \in Nat /\ n + 1 \in Nat
    BY <1>1
  <2>4. QED BY <1>1, <1>3, <2>2, <2>3
<1>7. CASE f = "code"
  <2>1. kept = Chunks!CodeUnits(t)
    BY <1>7 DEF Chunks!Structure
  <2>2. CASE M # {}
    <3>1. PICK k \in M : k <= i
      BY <1>7, <2>2 DEF Sought
    <3>2. \A s \in M : <<s, Chunks!Least({j \in M : j > s}, n + 1)>> \in Chunks!CodeUnits(t)
      BY <1>1, <2>2 DEF Chunks!CodeUnits, Chunks!NextMark
    <3> HIDE DEF M
    <3>3. found(Chunks!CodeUnits(t))
      BY <1>2, <1>5, <3>1, <3>2
    <3>4. QED BY <2>1, <3>3
  <2>3. CASE M = {}
    <3>1. <<i, i + 1>> \in Chunks!CodeUnits(t)
      BY <1>1, <2>3 DEF Chunks!CodeUnits
    <3>2. i + 1 \in Nat /\ i <= i
      BY <1>1
    <3>3. QED BY <1>1, <1>3, <2>1, <3>1, <3>2
  <2>4. QED BY <2>2, <2>3
<1>8. CASE f \in {"markdown", "text"}
  <2>1. kept = Chunks!MarkdownUnits(t)
    BY <1>8 DEF Chunks!Structure
  <2>2. CASE i \in M
    <3>1. <<i, i + 1>> \in Chunks!MarkdownUnits(t)
      BY <2>2 DEF Chunks!MarkdownUnits
    <3>2. i + 1 \in Nat /\ i <= i
      BY <1>1
    <3>3. QED BY <1>1, <1>3, <2>1, <3>1, <3>2
  <2>3. CASE i \notin M
    <3>1. t[i] = "plain"
      BY <1>1, <1>2, <2>3 DEF Chunks!Line
    <3>2. PICK p \in Chunks!Paragraphs(t) : Chunks!Within(i, p)
      BY <1>1, <3>1, ParagraphsAreDense
    <3>3. p[1] < p[2]
      BY DEF Chunks!Paragraphs
    <3>4. p \in Chunks!MarkdownUnits(t)
      BY DEF Chunks!MarkdownUnits, Chunks!FlushedParagraphs
    <3>5. QED BY <2>1, <3>2, <3>3, <3>4 DEF found
  <2>4. QED BY <2>2, <2>3
<1>9. CASE f = "json"
  <2> DEFINE written == {j \in 1..n : t[j] # "blank"}
             ends == {j \in written : \A k \in written : k <= j}
             from == Chunks!Least(written, 1)
             last == Chunks!Least(ends, n)
  <2>1. kept = Chunks!JsonUnits(t)
    BY <1>9 DEF Chunks!Structure
  <2>2. <<from, 1 + last>> \in Chunks!JsonUnits(t)
    BY <1>1 DEF Chunks!JsonUnits
  <2>3. /\ i \in written /\ written \in SUBSET (1..n) /\ written \in SUBSET (0..n)
        /\ ends \in SUBSET (1..n)
    <3>1. \A j \in 1..n : j \in 0..n
      BY <1>1
    <3>2. QED BY <1>1, <3>1
  <2>4. ends # {}
    <3>1. \E x \in written : \A y \in written : y <= x
      <4> HIDE DEF written
      <4>1. QED BY <1>1, <2>3, Latest
    <3>2. QED BY <3>1
  <2>5. from \in written /\ from <= i
    <3> HIDE DEF written
    <3>1. QED BY <1>1, <2>3, LeastIsFound
  <2>6. last \in ends
    <3> HIDE DEF ends
    <3>1. QED BY <1>1, <2>3, <2>4, LeastIsFound
  <2>7. i <= last /\ last \in 1..n
    BY <2>3, <2>6
  <2>8. from \in 1..n
    BY <2>3, <2>5
  <2> HIDE DEF from, last, written, ends
  <2>9. from \in Nat /\ 1 + last \in Nat /\ i < 1 + last
    BY <1>1, <2>7, <2>8
  <2>10. QED BY <1>3, <2>1, <2>2, <2>5, <2>9
<1>10. CASE f = "toml"
  <2> DEFINE headers == {j \in 1..n : t[j] = "outer"}
             first == Chunks!Least(headers, n + 1)
  <2>1. kept = Chunks!TomlUnits(t)
    BY <1>10 DEF Chunks!Structure
  <2>2. /\ <<1, first>> \in Chunks!TomlUnits(t)
        /\ \A s \in headers :
              <<s, Chunks!Least({j \in headers : j > s}, n + 1)>> \in Chunks!TomlUnits(t)
    BY <1>1 DEF Chunks!TomlUnits
  <2>3. headers \in SUBSET (1..n)
    OBVIOUS
  <2> HIDE DEF headers
  <2>4. (headers # {} => first \in headers) /\ (headers = {} => first = n + 1)
    BY <1>1, <2>3, LeastIsFound
  <2> HIDE DEF first
  <2>5. CASE i < first
    <3>1. first \in Nat /\ 1 \in Nat
      <4>1. n + 1 \in Nat /\ \A j \in headers : j \in Nat
        BY <1>1, <2>3
      <4>2. QED BY <2>4, <4>1
    <3>2. QED BY <1>1, <1>3, <2>1, <2>2, <2>5, <3>1
  <2>6. CASE ~ i < first
    <3>1. headers # {}
      BY <1>1, <2>4, <2>6
    <3>2. first \in headers /\ first \in Nat
      <4>1. \A j \in headers : j \in Nat
        BY <1>1, <2>3
      <4>2. QED BY <2>4, <3>1, <4>1
    <3>3. first <= i
      BY <1>1, <2>6, <3>2
    <3>4. found(Chunks!TomlUnits(t))
      BY <1>5, <2>2, <2>3, <3>2, <3>3
    <3>5. QED BY <2>1, <3>4
  <2>7. QED BY <2>5, <2>6
<1>11. CASE f = "log"
  <2> DEFINE written == {j \in 1..n : t[j] # "blank"}
             first == Chunks!Least(written, n + 1)
             starts == {j \in 1..n : j = first \/ (j > first /\ Chunks!Mark(t[j]))}
  <2>1. kept = Chunks!LogUnits(t)
    BY <1>11 DEF Chunks!Structure
  <2>2. \A s \in starts :
           <<s, Chunks!Least({j \in starts : j > s}, n + 1)>> \in Chunks!LogUnits(t)
    BY <1>1 DEF Chunks!LogUnits
  <2>3. i \in written /\ written \in SUBSET (1..n)
    BY <1>1
  <2>4. first \in written /\ first <= i
    <3> HIDE DEF written
    <3>1. QED BY <1>1, <2>3, LeastIsFound
  <2>5. first \in starts /\ starts \in SUBSET (1..n)
    BY <2>4
  <2> HIDE DEF starts
  <2>6. found(Chunks!LogUnits(t))
    BY <1>5, <2>2, <2>4, <2>5
  <2>7. QED BY <2>1, <2>6
<1>12. QED BY <1>6, <1>7, <1>8, <1>9, <1>10, <1>11 DEF Chunks!Format

Unsought(t, f) ==
    {i \in DOMAIN t : f = "code" /\ Chunks!Marks(t) # {} /\ \A k \in Chunks!Marks(t) : i < k}

(* The units of a source file with declarations start at declarations.      *)
LEMMA UnitsStartAtDeclarations ==
    ASSUME NEW t \in Seq(Chunks!Line), Chunks!Marks(t) # {},
           NEW u \in Chunks!UnitsFor(t, "code", FALSE)
    PROVE  u[1] \in Chunks!Marks(t)
<1>1. Chunks!Structure(t, "code") = {<<i, Chunks!NextMark(t, i)>> : i \in Chunks!Marks(t)}
  BY DEF Chunks!Structure, Chunks!CodeUnits
<1>2. \A k \in Chunks!Marks(t) : k \in 1..Len(t) /\ Chunks!NextMark(t, k) > k
                                /\ Chunks!NextMark(t, k) \in Nat
  <2>1. Len(t) \in Nat /\ DOMAIN t = 1..Len(t) /\ Chunks!EndOf(t) = Len(t) + 1
    BY DEF Chunks!EndOf
  <2> SUFFICES ASSUME NEW k \in Chunks!Marks(t)
               PROVE  k \in 1..Len(t) /\ Chunks!NextMark(t, k) > k
                      /\ Chunks!NextMark(t, k) \in Nat
    OBVIOUS
  <2>2. k \in 1..Len(t) /\ Chunks!Marks(t) \in SUBSET (1..Len(t))
    BY <2>1 DEF Chunks!Marks
  <2> DEFINE S == {j \in Chunks!Marks(t) : j > k}
  <2>3. S \in SUBSET (1..Len(t)) /\ \A j \in S : j > k
    BY <2>2
  <2>4. Chunks!NextMark(t, k) = Chunks!Least(S, Chunks!EndOf(t))
    BY DEF Chunks!NextMark
  <2> HIDE DEF S
  <2>5. /\ S # {} => Chunks!Least(S, Chunks!EndOf(t)) \in S
        /\ S = {} => Chunks!Least(S, Chunks!EndOf(t)) = Chunks!EndOf(t)
    BY <2>1, <2>3, LeastIsFound
  <2> DEFINE next == Chunks!Least(S, Chunks!EndOf(t))
  <2>6. next \in Nat /\ next > k
    <3> HIDE DEF next
    <3>1. CASE S = {}
      <4>1. next = Len(t) + 1
        BY <2>1, <2>5, <3>1 DEF next
      <4>2. QED BY <2>1, <2>2, <4>1
    <3>2. CASE S # {}
      <4>1. next \in S
        BY <2>5, <3>2 DEF next
      <4>2. next \in 1..Len(t) /\ next > k
        BY <2>3, <4>1
      <4>3. QED BY <4>2
    <3>3. QED BY <3>1, <3>2
  <2>7. QED BY <2>2, <2>4, <2>6
<1>3. PICK k \in Chunks!Marks(t) : TRUE
  OBVIOUS
<1>4. <<k, Chunks!NextMark(t, k)>> \in {v \in Chunks!Structure(t, "code") : v[1] < v[2]}
  BY <1>1, <1>2
<1>5. u \in Chunks!Structure(t, "code")
  BY <1>4 DEF Chunks!UnitsFor
<1>6. QED BY <1>1, <1>5

(* Cutting a text by size and by structure: what is to be found is found,   *)
(* and the header of a source file is not.                                  *)
LEMMA CutTextIsWhole ==
    ASSUME Chunks!LengthAssumption, NEW t \in Seq(Chunks!Line), Len(t) >= 1,
           NEW f \in Chunks!Format \ {"binary"}, NEW refused \in BOOLEAN,
           refused => f # "code"
    PROVE  LET cut == Chunks!ChunksFromUnits(Chunks!UnitsFor(t, f, refused))
           IN  /\ cut \in Seq(Nat \X Nat)
               /\ \A i \in Sought(t, f) : \E k \in DOMAIN cut : Chunks!Within(i, cut[k])
               /\ \A i \in Unsought(t, f) : ~\E k \in DOMAIN cut : Chunks!Within(i, cut[k])
               /\ \A k \in DOMAIN cut :
                     /\ cut[k][1] < cut[k][2] /\ cut[k][2] - cut[k][1] <= MaxLength
                     /\ cut[k][2] <= Chunks!EndOf(t)
<1> DEFINE n == Len(t)
           units == Chunks!UnitsFor(t, f, refused)
           cut == Chunks!ChunksFromUnits(units)
<1>1. n \in Nat /\ Chunks!EndOf(t) = n + 1 /\ DOMAIN t = 1..n
  BY DEF Chunks!EndOf
<1>2. units \in SUBSET Ranges(n)
  BY UnitsAreOfTheText
<1>3. \A i \in Sought(t, f) : i \in Nat /\ \E u \in units : Chunks!Within(i, u)
  <2>1. \A i \in Sought(t, f) : i \in Nat
    BY <1>1 DEF Sought
  <2>2. QED BY <2>1, UnitsAreDense
<1>0. Unsought(t, f) # {} => \A u \in units : u[1] \in Chunks!Marks(t)
  <2> SUFFICES ASSUME Unsought(t, f) # {}, NEW u \in units PROVE u[1] \in Chunks!Marks(t)
    OBVIOUS
  <2>1. f = "code" /\ Chunks!Marks(t) # {} /\ refused = FALSE
    BY DEF Unsought
  <2>2. QED BY <2>1, UnitsStartAtDeclarations
<1> HIDE DEF units
<1>4. ASSUME NEW u \in units
      PROVE  /\ Chunks!Pieces(u) \in SUBSET Ranges(n)
             /\ \A p \in Chunks!Pieces(u) : p[1] < p[2] /\ p[2] - p[1] <= MaxLength
             /\ \A i \in Nat : Chunks!Within(i, u) =>
                   \E p \in Chunks!Pieces(u) : Chunks!Within(i, p)
  BY <1>1, <1>2, PiecesCoverTheUnit
<1>5. /\ cut \in Seq(Ranges(n))
      /\ \A k \in DOMAIN cut : \E u \in units : cut[k] \in Chunks!Pieces(u)
      /\ \A u \in units : \A p \in Chunks!Pieces(u) : \E k \in DOMAIN cut : cut[k] = p
  BY <1>1, <1>2, <1>4, ChunksArePieces
<1> HIDE DEF cut
<1>6. \A r \in Ranges(n) : r \in Nat \X Nat /\ r[2] <= n + 1
  BY <1>1 DEF Ranges
<1>7. cut \in Seq(Nat \X Nat)
  <2>1. Len(cut) \in Nat /\ cut \in [1..Len(cut) -> Ranges(n)]
    BY <1>5
  <2>2. cut \in [1..Len(cut) -> Nat \X Nat]
    BY <1>6, <2>1
  <2>3. QED BY <2>1, <2>2
<1>8. ASSUME NEW i \in Sought(t, f)
      PROVE  \E k \in DOMAIN cut : Chunks!Within(i, cut[k])
  <2>1. PICK u \in units : Chunks!Within(i, u)
    BY <1>3
  <2>2. PICK p \in Chunks!Pieces(u) : Chunks!Within(i, p)
    BY <1>3, <1>4, <2>1
  <2>3. QED BY <1>5, <2>2
<1>9. \A k \in DOMAIN cut :
         /\ cut[k][1] < cut[k][2] /\ cut[k][2] - cut[k][1] <= MaxLength
         /\ cut[k][2] <= n + 1
  <2>1. \A k \in DOMAIN cut : cut[k] \in Ranges(n)
    BY <1>5
  <2>2. QED BY <1>4, <1>5, <1>6, <2>1
<1>10. ASSUME NEW i \in Unsought(t, f), NEW k \in DOMAIN cut, Chunks!Within(i, cut[k])
       PROVE  FALSE
  <2>1. PICK u \in units : cut[k] \in Chunks!Pieces(u)
    BY <1>5
  <2>2. u[1] \in Chunks!Marks(t) /\ u[1] \in Nat /\ u[2] \in Nat
    BY <1>0, <1>1, <1>2, <2>1 DEF Ranges
  <2>3. cut[k][1] \in u[1]..(u[2] - 1)
    BY <2>1 DEF Chunks!Pieces, Chunks!Starts
  <2>4. i \in Nat /\ i < u[1]
    BY <1>1, <2>2 DEF Unsought
  <2>5. cut[k][1] <= i
    BY <1>10 DEF Chunks!Within
  <2>6. QED BY <2>2, <2>3, <2>4, <2>5
<1>11. QED BY <1>1, <1>7, <1>8, <1>9, <1>10 DEF cut, units

(* A text grows line by line, is cut once and stays as it is.               *)
ChunkInv == Chunks!TypeOK /\ Chunks!EveryLineIsInAChunk

LEMMA ChunkStart == Chunks!LengthAssumption /\ Chunks!Init => ChunkInv
<1> SUFFICES ASSUME Chunks!LengthAssumption, Chunks!Init PROVE ChunkInv
  OBVIOUS
<1>1. text = <<>> /\ format = "unknown" /\ chunks = <<>> /\ failed = FALSE
  BY DEF Chunks!Init
<1>2. Chunks!TypeOK
  <2>1. <<>> \in Seq(Chunks!Line) /\ Len(<<>>) = 0 /\ <<>> \in Seq(Nat \X Nat)
    OBVIOUS
  <2>2. 0 <= MaxLines
    BY DEF Chunks!LengthAssumption
  <2>3. QED BY <1>1, <2>1, <2>2 DEF Chunks!TypeOK
<1>3. QED BY <1>1, <1>2 DEF ChunkInv, Chunks!EveryLineIsInAChunk

LEMMA TypeKeeps ==
    ASSUME Chunks!LengthAssumption, ChunkInv, NEW line \in Chunks!Line, Chunks!Type(line)
    PROVE  ChunkInv'
<1>1. /\ format = "unknown" /\ Len(text) < MaxLines /\ text' = Append(text, line)
      /\ format' = format /\ chunks' = chunks /\ failed' = failed
  BY DEF Chunks!Type
<1>2. text \in Seq(Chunks!Line) /\ chunks \in Seq(Nat \X Nat) /\ failed \in BOOLEAN
  BY DEF ChunkInv, Chunks!TypeOK
<1>3. text' \in Seq(Chunks!Line) /\ Len(text') <= MaxLines
  BY <1>1, <1>2 DEF Chunks!LengthAssumption
<1>4. Chunks!TypeOK'
  BY <1>1, <1>2, <1>3 DEF Chunks!TypeOK
<1>5. Chunks!EveryLineIsInAChunk'
  BY <1>1 DEF Chunks!EveryLineIsInAChunk
<1>6. QED BY <1>4, <1>5 DEF ChunkInv

LEMMA IngestKeeps ==
    ASSUME Chunks!LengthAssumption, ChunkInv, NEW f \in Chunks!Format,
           NEW refused \in BOOLEAN, Chunks!Ingest(f, refused)
    PROVE  ChunkInv'
<1> DEFINE cut == Chunks!ChunksFromUnits(Chunks!UnitsFor(text, f, refused))
<1>1. /\ text # <<>> /\ format' = f /\ text' = text
      /\ text \in Seq(Chunks!Line) /\ Len(text) <= MaxLines
  BY DEF Chunks!Ingest, ChunkInv, Chunks!TypeOK
<1>2. Len(text) >= 1
  BY <1>1
<1>3. /\ failed' \in BOOLEAN
      /\ chunks' = IF failed' THEN <<>> ELSE IF f = "binary" THEN <<>> ELSE cut
  BY DEF Chunks!Ingest
<1>4. f # "binary" =>
         /\ cut \in Seq(Nat \X Nat)
         /\ \A i \in Sought(text, f) : \E k \in DOMAIN cut : Chunks!Within(i, cut[k])
         /\ \A i \in Unsought(text, f) : ~\E k \in DOMAIN cut : Chunks!Within(i, cut[k])
         /\ \A k \in DOMAIN cut :
               /\ cut[k][1] < cut[k][2] /\ cut[k][2] - cut[k][1] <= MaxLength
               /\ cut[k][2] <= Chunks!EndOf(text)
  <2>1. refused => f # "code"
    BY DEF Chunks!Ingest
  <2>2. QED BY <1>1, <1>2, <2>1, CutTextIsWhole
<1> HIDE DEF cut
<1>5. Chunks!TypeOK'
  <2>1. <<>> \in Seq(Nat \X Nat)
    OBVIOUS
  <2>2. chunks' \in Seq(Nat \X Nat)
    BY <1>3, <1>4, <2>1
  <2>3. QED BY <1>1, <1>3, <2>2 DEF Chunks!TypeOK
<1>6. Chunks!EveryLineIsInAChunk'
  <2>1. SUFFICES ASSUME f # "binary", ~failed'
                 PROVE  Chunks!EveryLineIsInAChunk'
    BY <1>1 DEF Chunks!EveryLineIsInAChunk
  <2>2. chunks' = cut
    BY <1>3, <2>1
  <2>3. Chunks!Lost' = Unsought(text, f)
    BY <1>1 DEF Chunks!Lost, Unsought
  <2>4. Chunks!Searchable' = Sought(text, f)
    <3>1. Chunks!Searchable' = {i \in DOMAIN text \ Unsought(text, f) : text[i] # "blank"}
      BY <1>1, <2>3 DEF Chunks!Searchable
    <3>2. \A i \in DOMAIN text, k \in Chunks!Marks(text) : ~ i < k <=> k <= i
      <4>1. DOMAIN text \in SUBSET Nat /\ Chunks!Marks(text) \in SUBSET DOMAIN text
        BY <1>1 DEF Chunks!Marks
      <4>2. QED BY <4>1
    <3>3. QED BY <3>1, <3>2 DEF Sought, Unsought
  <2>5. QED BY <1>1, <1>4, <2>1, <2>2, <2>3, <2>4 DEF Chunks!EveryLineIsInAChunk
<1>7. QED BY <1>5, <1>6 DEF ChunkInv

LEMMA ChunksStay == ChunkInv /\ UNCHANGED Chunks!vars => ChunkInv'
<1> SUFFICES ASSUME ChunkInv, UNCHANGED Chunks!vars PROVE ChunkInv'
  OBVIOUS
<1>1. text' = text /\ format' = format /\ chunks' = chunks /\ failed' = failed
  BY DEF Chunks!vars
<1>2. QED BY <1>1 DEF ChunkInv, Chunks!TypeOK, Chunks!EveryLineIsInAChunk, Chunks!Searchable,
                       Chunks!Lost

(* What is cut covers the text, whatever was ingested before.               *)
THEOREM ChunkInvariant == Chunks!LengthAssumption => (Chunks!Spec => []ChunkInv)
<1> SUFFICES ASSUME Chunks!LengthAssumption PROVE Chunks!Spec => []ChunkInv
  OBVIOUS
<1>1. Chunks!Init => ChunkInv
  BY ChunkStart
<1>2. ChunkInv /\ [Chunks!Next]_(Chunks!vars) => ChunkInv'
  BY TypeKeeps, IngestKeeps, ChunksStay DEF Chunks!Next
<1>3. QED BY <1>1, <1>2, PTL DEF Chunks!Spec

-----------------------------------------------------------------------------
(* The runtime.  A step of it is a step of the part that the behaviour      *)
(* belongs to, so that what holds of that part by itself holds here.        *)

Runs(p) == part = p

LEMMA OnePart ==
    ASSUME [RuntimeNext]_runtime
    PROVE  /\ part' = part
           /\ part = "checkpoints" => [Checks!Next]_(Checks!vars)
           /\ part = "convergence" => [Passes!Next]_(Passes!vars)
           /\ part = "goal" => [Goals!Next]_(Goals!vars)
           /\ part = "loop" => [Loop!Next]_(Loop!vars)
           /\ part = "delegation" => [Delegates!Next]_(Delegates!delegationVars)
           /\ part = "model" => [Model!Next]_(Model!modelRequestVars)
           /\ part = "board" => [Board!Next]_(Board!vars)
           /\ part = "context" => [Context!Next]_(Context!vars)
           /\ part = "chunks" => [Chunks!Next]_(Chunks!vars)
           /\ part = "index" => [Index!Next]_(Index!vars)
           /\ part = "prompt" => [Prompt!Next]_(Prompt!vars)
           /\ part = "tools" => [Tools!Next]_(Tools!vars)
           /\ part = "gates" => [Gates!Next]_(Gates!vars)
<1>1. CASE UNCHANGED runtime
  BY <1>1 DEF runtime, Checks!vars, Passes!vars, Passes!run, Passes!journal,
              Goals!vars, Goals!plan, Goals!execution, Loop!vars,
              Delegates!delegationVars, Model!modelRequestVars, Board!vars,
              Context!vars, Chunks!vars, Index!vars, Prompt!vars, Tools!vars,
              Gates!vars
<1>2. CASE RuntimeNext
  BY <1>2 DEF RuntimeNext, ChecksStep, PassesStep, GoalsStep, LoopStep,
              DelegatesStep, ModelStep, BoardStep, ContextStep, ChunksStep,
              IndexStep, PromptStep, ToolsStep, GatesStep
<1>3. QED BY <1>1, <1>2

LEMMA LoopBehaviour == RuntimeSpec => []~Runs("loop") \/ Loop!Spec
<1>1. RuntimeInit => ~Runs("loop") \/ Loop!Init
  BY DEF RuntimeInit, Runs
<1>2. [RuntimeNext]_runtime =>
        \/ ~Runs("loop") /\ ~Runs("loop")'
        \/ Runs("loop") /\ Runs("loop")' /\ [Loop!Next]_(Loop!vars)
  BY OnePart DEF Runs
<1>3. QED BY <1>1, <1>2, PTL DEF RuntimeSpec, Loop!Spec

LEMMA ChunksBehaviour == RuntimeSpec => []~Runs("chunks") \/ Chunks!Spec
<1>1. RuntimeInit => ~Runs("chunks") \/ Chunks!Init
  BY DEF RuntimeInit, Runs
<1>2. [RuntimeNext]_runtime =>
        \/ ~Runs("chunks") /\ ~Runs("chunks")'
        \/ Runs("chunks") /\ Runs("chunks")' /\ [Chunks!Next]_(Chunks!vars)
  BY OnePart DEF Runs
<1>3. QED BY <1>1, <1>2, PTL DEF RuntimeSpec, Chunks!Spec

(* However much of the conversation is left out, a request the model gets   *)
(* pairs every call with its results, and has the first system message, the *)
(* newest message of every kind of state and, at its end, the active turn,  *)
(* message by message: for any number of steps and calls, any length of the *)
(* conversation and of the request.                                         *)
(* (prepare_messages, _run_agent_until_final_impl.)                         *)
THEOREM RequestsStayWhole == RuntimeSpec => []RequestsAreWhole
<1>1. LoopInv /\ OneQuestion => Loop!RequestsAreWhole
  BY RuntimeAssumption, WholeRequests
<1>2. Loop!Spec => [](LoopInv /\ OneQuestion)
  <2>1. Loop!Spec => []LoopInv
    BY RuntimeAssumption, LoopInvariant
  <2>2. Loop!Init => OneQuestion
    BY DEF Loop!Init, OneQuestion
  <2>3. LoopInv /\ OneQuestion /\ [Loop!Next]_(Loop!vars) => OneQuestion'
    BY RuntimeAssumption, OneQuestionStays
  <2>4. QED BY <2>1, <2>2, <2>3, PTL DEF Loop!Spec
<1>3. ~Runs("loop") \/ Loop!RequestsAreWhole => RequestsAreWhole
  BY DEF RequestsAreWhole, Runs
<1>4. QED BY <1>1, <1>2, <1>3, LoopBehaviour, PTL

(* However a text is cut, every line of it with text is in a chunk, unless  *)
(* the ingestion fails, and no chunk is empty, longer than the limit or     *)
(* reaches beyond the text: for any text, and any limit.  The exception,    *)
(* and the only one, is what stands before the first declaration of a       *)
(* source file that is not Python, which is in no chunk.                    *)
(* (Ingestor, _chunks_from_units, _split_ranges.)                           *)
THEOREM LinesStayInChunks == RuntimeSpec => []EveryLineIsInAChunk
<1>1. Chunks!Spec => []ChunkInv
  BY RuntimeAssumption, ChunkInvariant
<1>2. ChunkInv => Chunks!EveryLineIsInAChunk
  BY DEF ChunkInv
<1>3. ~Runs("chunks") \/ Chunks!EveryLineIsInAChunk => EveryLineIsInAChunk
  BY DEF EveryLineIsInAChunk, Runs
<1>4. QED BY <1>1, <1>2, <1>3, ChunksBehaviour, PTL

=============================================================================
