--------------------------- MODULE UciPacketsProofs ---------------------------
(***************************************************************************)
(* What the HAL makes of a packet is what it should be, for any packet.    *)
(*                                                                         *)
(* The loops over the bytes are recursive functions, and nothing is known  *)
(* of a recursive function until one shows that a function satisfying its  *)
(* equation exists: a longest partial one is extended by a value.  What    *)
(* holds of each position is then shown for a least (or greatest) position *)
(* of which it would not.                                                  *)
(***************************************************************************)
EXTENDS UciPackets, SequenceTheorems, FiniteSetTheorems, WellFoundedInduction, TLAPS

LEMMA Least ==
  ASSUME NEW T, T \subseteq Nat, T # {}
  PROVE  \E x \in T : \A y \in T : x <= y
<1> DEFINE less == {ss \in Nat \X Nat : ss[1] < ss[2]}
<1>1. IsWellFoundedOn(less, Nat)
  BY NatLessThanWellFounded DEF OpToRel
<1> HIDE DEF less
<1>2. PICK x \in T : \A y \in T : ~ (<<y, x>> \in less)
  BY <1>1, WFMin
<1>3. ASSUME NEW y \in T PROVE x <= y
  <2>1. <<y, x>> \notin less
    BY <1>2
  <2> QED BY <2>1 DEF less
<1> QED BY <1>3

-----------------------------------------------------------------------------
(* CORE_SET_CONFIG refused.                                                 *)

\* What process_ext_rsp has found after k items.
Outcome(items, k) ==
  LET listed == {j \in 1..k : Listed(items[j])}
  IN  IF \E j \in listed : items[j].status # FEATURE_NOT_SUPPORTED THEN "FAILED"
      ELSE IF listed # {} THEN "SUCCESS" ELSE "as it was"

OneItem(items, k, before) ==
  IF k = 0 THEN "as it was"
  ELSE IF before = "FAILED" \/ ~Listed(items[k]) THEN before
  ELSE IF items[k].status = FEATURE_NOT_SUPPORTED THEN "SUCCESS"
  ELSE "FAILED"

LEMMA Refused ==
  ASSUME NEW items, Len(items) \in Nat
  PROVE  process_ext_rsp(items) = Outcome(items, Len(items))
<1> DEFINE n == Len(items)
           closed == [k \in 0..n |-> Outcome(items, k)]
           after == CHOOSE f : f = [k \in 0..n |-> OneItem(items, k, f[k - 1])]
<1>1. Outcome(items, 0) = "as it was"
  BY DEF Outcome
<1>2. ASSUME NEW k \in 1..n
      PROVE  Outcome(items, k) = OneItem(items, k, Outcome(items, k - 1))
  <2> DEFINE Known(j) == {i \in 1..j : Listed(items[i])}
             Failed(j) == {i \in Known(j) : items[i].status # FEATURE_NOT_SUPPORTED}
  <2>1. Known(k) = Known(k - 1) \cup (IF Listed(items[k]) THEN {k} ELSE {})
    OBVIOUS
  <2>2. Failed(k) =
          Failed(k - 1) \cup
            (IF Listed(items[k]) /\ items[k].status # FEATURE_NOT_SUPPORTED THEN {k} ELSE {})
    BY <2>1
  <2>3. \A j : Outcome(items, j) =
                 IF Failed(j) # {} THEN "FAILED"
                 ELSE IF Known(j) # {} THEN "SUCCESS" ELSE "as it was"
    BY DEF Outcome
  <2> HIDE DEF Known, Failed
  <2>4. \A j : Outcome(items, j) = "FAILED" <=> Failed(j) # {}
    BY <2>3
  <2>5. k # 0
    OBVIOUS
  <2>6. CASE ~Listed(items[k])
    <3>1. Known(k) = Known(k - 1) /\ Failed(k) = Failed(k - 1)
      BY <2>1, <2>2, <2>6
    <3>2. Outcome(items, k) = Outcome(items, k - 1)
      BY <2>3, <3>1
    <3> QED BY <2>5, <2>6, <3>2 DEF OneItem
  <2>7. CASE Failed(k - 1) # {}
    <3>1. Failed(k) # {}
      BY <2>2, <2>7
    <3> QED BY <2>4, <2>5, <2>7, <3>1 DEF OneItem
  <2>8. CASE Failed(k - 1) = {} /\ Listed(items[k])
    <3>1. Known(k) # {} /\ Outcome(items, k - 1) # "FAILED"
      BY <2>1, <2>4, <2>8
    <3>2. CASE items[k].status = FEATURE_NOT_SUPPORTED
      <4>1. Failed(k) = {}
        BY <2>2, <2>8, <3>2
      <4>2. Outcome(items, k) = "SUCCESS"
        BY <2>3, <3>1, <4>1
      <4> QED BY <2>5, <2>8, <3>1, <3>2, <4>2 DEF OneItem
    <3>3. CASE items[k].status # FEATURE_NOT_SUPPORTED
      <4>1. Failed(k) # {}
        BY <2>2, <2>8, <3>3
      <4>2. Outcome(items, k) = "FAILED"
        BY <2>4, <4>1
      <4> QED BY <2>5, <2>8, <3>1, <3>3, <4>2 DEF OneItem
    <3> QED BY <3>2, <3>3
  <2> QED BY <2>6, <2>7, <2>8
<1>3. closed = [k \in 0..n |-> OneItem(items, k, closed[k - 1])]
  <2>1. ASSUME NEW k \in 0..n PROVE Outcome(items, k) = OneItem(items, k, closed[k - 1])
    <3>1. CASE k = 0
      BY <1>1, <3>1 DEF OneItem
    <3>2. CASE k # 0
      <4>1. k \in 1..n /\ k - 1 \in 0..n
        BY <3>2
      <4> QED BY <1>2, <4>1
    <3> QED BY <3>1, <3>2
  <2> QED BY <2>1
<1>4. after = [k \in 0..n |-> OneItem(items, k, after[k - 1])]
  BY <1>3
<1> HIDE DEF closed, after
<1> DEFINE Wrong == {k \in 0..n : after[k] # Outcome(items, k)}
<1>5. Wrong = {}
  <2> SUFFICES ASSUME Wrong # {} PROVE FALSE
    OBVIOUS
  <2>1. PICK k \in Wrong : \A other \in Wrong : k <= other
    <3>1. Wrong \subseteq Nat
      OBVIOUS
    <3> HIDE DEF Wrong
    <3> QED BY <3>1, Least
  <2>2. k # 0
    BY <1>1, <1>4 DEF OneItem
  <2>3. after[k - 1] = Outcome(items, k - 1)
    BY <2>1, <2>2
  <2> QED BY <1>2, <1>4, <2>1, <2>2, <2>3
<1>6. process_ext_rsp(items) = after[n]
  BY DEF process_ext_rsp, after, OneItem
<1> QED BY <1>5, <1>6

\* A refused CORE_SET_CONFIG counts as done exactly when every parameter refused
\* that the HAL knows is one the firmware does not support, and there is one
\* (phNxpUciHal_process_ext_rsp), for any number of parameters.
THEOREM RefusalsCounted == Spec => []RefusalCounts
<1> USE DEF Nothing
<1>1. Init => RefusalCounts
  BY DEF Init, RefusalCounts
<1>2. RefusalCounts /\ [Next]_vars => RefusalCounts'
  <2> SUFFICES ASSUME RefusalCounts, [Next]_vars PROVE RefusalCounts'
    OBVIOUS
  <2>1. CASE \E config \in AppConfigs : WriteAppConfig(config)
    <3>1. PICK config \in AppConfigs : WriteAppConfig(config)
      BY <2>1
    <3>2. in' = [kind |-> "app config", tlvs |-> config.tlvs, cut |-> config.cut]
      BY <3>1, Zenon DEF WriteAppConfig
    <3>3. in'.kind # "set config"
      BY <3>2
    <3> QED BY <3>3 DEF RefusalCounts
  <2>2. CASE \E channels \in SUBSET {5, 9} : SetCountry(channels)
    <3>1. in'.kind = "none"
      BY <2>2 DEF SetCountry
    <3> QED BY <3>1 DEF RefusalCounts
  <2>3. CASE \E block \in AntennaBlocks : parseAntennaConfig(block)
    BY <2>3 DEF parseAntennaConfig, RefusalCounts
  <2>4. CASE \E status \in 0..1 : ReadCaps(status)
    <3>1. in'.kind = "caps"
      BY <2>4 DEF ReadCaps
    <3> QED BY <3>1 DEF RefusalCounts
  <2>5. CASE \E items \in Refusals : ReadSetConfig(items)
    <3>1. PICK items \in Refusals : ReadSetConfig(items)
      BY <2>5
    <3>2. Len(items) \in Nat /\ DOMAIN items = 1..Len(items)
      BY PacketAssumption
    <3>3. out'.result = Outcome(items, Len(items))
      BY <3>1, <3>2, Refused DEF ReadSetConfig
    <3> QED BY <3>1, <3>2, <3>3 DEF ReadSetConfig, RefusalCounts, Outcome
  <2>6. CASE UNCHANGED vars
    BY <2>6 DEF vars, RefusalCounts
  <2> QED BY <2>1, <2>2, <2>3, <2>4, <2>5, <2>6 DEF Next
<1> QED BY <1>1, <1>2, PTL DEF Spec
-----------------------------------------------------------------------------
(* Sequences joined and encoded.                                            *)

\* The parts of a sequence of sequences, joined one after the other.
Joined(f, s, k) ==
  \A i \in 1..k : f[i] = IF i = 1 THEN s[i] ELSE f[i - 1] \o s[i]

LEMMA FlattenJoins ==
  ASSUME NEW s, Len(s) \in Nat \ {0}
  PROVE  \E f : Joined(f, s, Len(s)) /\ FlattenSeq(s) = f[Len(s)]
<1> DEFINE n == Len(s)
           Body(f, i) == IF i = 1 THEN s[i] ELSE f[i - 1] \o s[i]
           flatten == CHOOSE f : f = [i \in 1..n |-> Body(f, i)]
           Short == {k \in 0..n : ~ \E f : Joined(f, s, k)}
<1>1. Short = {}
  <2> SUFFICES ASSUME Short # {} PROVE FALSE
    OBVIOUS
  <2>1. PICK k \in Short : \A other \in Short : k <= other
    <3>1. Short \subseteq Nat
      OBVIOUS
    <3> HIDE DEF Short
    <3> QED BY <3>1, Least
  <2>2. k # 0
    BY <2>1 DEF Joined
  <2>3. k - 1 \in 0..n /\ k - 1 \notin Short
    BY <2>1, <2>2
  <2>4. PICK f : Joined(f, s, k - 1)
    BY <2>3
  <2> DEFINE longer == [i \in 1..k |-> IF i = k THEN Body(f, k) ELSE f[i]]
  <2>5. ASSUME NEW i \in 1..k PROVE longer[i] = Body(longer, i)
    <3>1. CASE i = k
      BY <3>1
    <3>2. CASE i # k
      <4>1. i \in 1..(k - 1) /\ i \in 1..k
        BY <3>2
      <4>2. f[i] = Body(f, i)
        BY <2>4, <4>1 DEF Joined
      <4>3. longer[i] = f[i]
        BY <3>2
      <4>4. CASE i = 1
        BY <4>2, <4>3, <4>4
      <4>5. CASE i # 1
        <5>1. i - 1 \in 1..k /\ i - 1 # k
          BY <4>1, <4>5
        <5>2. longer[i - 1] = f[i - 1]
          BY <5>1
        <5> HIDE DEF longer
        <5> QED BY <4>2, <4>3, <4>5, <5>2
      <4> QED BY <4>4, <4>5
    <3> QED BY <3>1, <3>2
  <2>6. Joined(longer, s, k)
    BY <2>5 DEF Joined
  <2> QED BY <2>1, <2>6
<1>2. PICK f : Joined(f, s, n)
  <2>1. n \in 0..n /\ n \notin Short
    BY <1>1
  <2> QED BY <2>1
<1> DEFINE whole == [i \in 1..n |-> f[i]]
<1>3. whole = [i \in 1..n |-> Body(whole, i)]
  BY <1>2 DEF Joined
<1>4. flatten = [i \in 1..n |-> Body(flatten, i)]
  BY <1>3
<1> HIDE DEF flatten
<1>5. Joined(flatten, s, n)
  BY <1>4 DEF Joined
<1>6. FlattenSeq(s) = flatten[n]
  BY DEF FlattenSeq, flatten
<1> QED BY <1>5, <1>6

LEMMA ConcatParts ==
  ASSUME NEW S, NEW a \in Seq(S), NEW b \in Seq(S), NEW c, c = a \o b
  PROVE  /\ c \in Seq(S) /\ Len(a) \in Nat /\ Len(b) \in Nat
         /\ Len(c) = Len(a) + Len(b)
         /\ \A y \in 1..Len(a) : c[y] = a[y]
         /\ \A x \in 1..Len(b) : c[Len(a) + x] = b[x]
<1>1. /\ c \in Seq(S) /\ Len(a) \in Nat /\ Len(b) \in Nat
      /\ Len(c) = Len(a) + Len(b)
      /\ \A i \in 1..(Len(a) + Len(b)) :
           c[i] = IF i <= Len(a) THEN a[i] ELSE b[i - Len(a)]
  BY ConcatProperties, LenProperties
<1>2. ASSUME NEW y \in 1..Len(a) PROVE c[y] = a[y]
  BY <1>1
<1>3. ASSUME NEW x \in 1..Len(b) PROVE c[Len(a) + x] = b[x]
  <2>1. Len(a) + x \in 1..(Len(a) + Len(b)) /\ ~ (Len(a) + x <= Len(a)) /\ Len(a) + x - Len(a) = x
    BY <1>1
  <2> QED BY <1>1, <2>1
<1> QED BY <1>1, <1>2, <1>3

LEMMA JoinStep ==
  ASSUME NEW S, NEW s \in Seq(Seq(S)), NEW f, Joined(f, s, Len(s)), Len(s) # 0
  PROVE  /\ f[1] = s[1] /\ f[1] \in Seq(S)
         /\ \A k \in 1..Len(s) : f[k] \in Seq(S) /\ s[k] \in Seq(S)
         /\ \A k \in 2..Len(s) : f[k] = f[k - 1] \o s[k]
<1> DEFINE n == Len(s)
           Untyped == {k \in 1..n : f[k] \notin Seq(S)}
<1>1. n \in Nat \ {0}
  BY LenProperties
<1>2. \A k \in 1..n : s[k] \in Seq(S)
  BY ElementOfSeq
<1>3. f[1] = s[1]
  BY <1>1 DEF Joined
<1>4. ASSUME NEW k \in 2..n PROVE f[k] = f[k - 1] \o s[k]
  <2>1. k \in 1..n /\ k # 1
    OBVIOUS
  <2> HIDE DEF n
  <2> QED BY <2>1 DEF Joined, n
<1>5. Untyped = {}
  <2> SUFFICES ASSUME Untyped # {} PROVE FALSE
    OBVIOUS
  <2>1. PICK k \in Untyped : \A other \in Untyped : k <= other
    <3>1. Untyped \subseteq Nat
      BY <1>1
    <3> HIDE DEF Untyped
    <3> QED BY <3>1, Least
  <2>2. k \in 1..n /\ f[k] \notin Seq(S)
    OBVIOUS
  <2>3. k # 1
    BY <1>1, <1>2, <1>3, <2>2
  <2>4. k \in 2..n /\ k - 1 \in 1..n /\ ~ (k <= k - 1)
    BY <1>1, <2>2, <2>3
  <2>5. f[k - 1] \in Seq(S)
    BY <2>1, <2>4
  <2>6. f[k - 1] \o s[k] \in Seq(S)
    BY <1>2, <2>2, <2>5, ConcatParts
  <2> QED BY <1>4, <2>2, <2>4, <2>6
<1>6. \A k \in 1..n : f[k] \in Seq(S)
  BY <1>5
<1>7. f[1] \in Seq(S)
  BY <1>1, <1>6
<1> HIDE DEF Untyped
<1> QED BY <1>2, <1>3, <1>4, <1>6, <1>7

\* Where the parts begin, and that they stand there.
LEMMA Flat ==
  ASSUME NEW S, NEW s \in Seq(Seq(S))
  PROVE  /\ FlattenSeq(s) \in Seq(S)
         /\ \E at \in [0..Len(s) -> Nat] :
              /\ at[0] = 0 /\ at[Len(s)] = Len(FlattenSeq(s))
              /\ \A k \in 1..Len(s) :
                   /\ at[k] = at[k - 1] + Len(s[k])
                   /\ \A x \in 1..Len(s[k]) : FlattenSeq(s)[at[k - 1] + x] = s[k][x]
<1> DEFINE n == Len(s)
<1>1. n \in Nat
  OBVIOUS
<1>2. CASE n = 0
  <2>1. FlattenSeq(s) = s /\ s = <<>>
    BY <1>2, EmptySeq DEF FlattenSeq
  <2> DEFINE at == [k \in 0..0 |-> 0]
  <2>2. at \in [0..n -> Nat] /\ at[0] = 0 /\ at[n] = 0
    BY <1>2
  <2>3. 1..n = {} /\ Len(FlattenSeq(s)) = 0 /\ FlattenSeq(s) \in Seq(S)
    BY <1>2, <2>1
  <2> HIDE DEF at, n
  <2> QED BY <2>2, <2>3 DEF n
<1>3. CASE n # 0
  <2>1. PICK f : Joined(f, s, n) /\ FlattenSeq(s) = f[n]
    BY <1>1, <1>3, FlattenJoins
  <2>2. /\ f[1] = s[1] /\ f[1] \in Seq(S)
        /\ \A k \in 1..n : f[k] \in Seq(S) /\ s[k] \in Seq(S)
        /\ \A k \in 2..n : f[k] = f[k - 1] \o s[k]
    BY <1>3, <2>1, JoinStep, ZenonT(40)
  <2> DEFINE at == [k \in 0..n |-> IF k = 0 THEN 0 ELSE Len(f[k])]
  <2>3. /\ at \in [0..n -> Nat] /\ at[0] = 0
        /\ \A k \in 1..n : at[k] = Len(f[k]) /\ Len(s[k]) \in Nat
    BY <2>2, LenProperties
  <2> HIDE DEF at, n
  <2>4. ASSUME NEW k \in 2..n
        PROVE  /\ k - 1 \in 1..n /\ k - 1 \in 0..n /\ k \in 1..n
               /\ at[k] = at[k - 1] + Len(s[k])
               /\ \A y \in 1..at[k - 1] : f[k][y] = f[k - 1][y]
               /\ \A x \in 1..Len(s[k]) : f[k][at[k - 1] + x] = s[k][x]
    <3>1. k - 1 \in 1..n /\ k - 1 \in 0..n /\ k \in 1..n
      BY <1>1
    <3>2. f[k] = f[k - 1] \o s[k] /\ f[k - 1] \in Seq(S) /\ s[k] \in Seq(S)
      BY <2>2, <3>1
    <3>3. at[k] = Len(f[k]) /\ at[k - 1] = Len(f[k - 1])
      BY <2>3, <3>1
    <3>4. /\ Len(f[k]) = Len(f[k - 1]) + Len(s[k])
          /\ \A y \in 1..Len(f[k - 1]) : f[k][y] = f[k - 1][y]
          /\ \A x \in 1..Len(s[k]) : f[k][Len(f[k - 1]) + x] = s[k][x]
      <4> DEFINE a == f[k - 1]
                 b == s[k]
                 c == f[k]
      <4>1. a \in Seq(S) /\ b \in Seq(S) /\ c = a \o b
        BY <3>2
      <4> HIDE DEF a, b, c
      <4>2. /\ Len(c) = Len(a) + Len(b)
            /\ \A y \in 1..Len(a) : c[y] = a[y]
            /\ \A x \in 1..Len(b) : c[Len(a) + x] = b[x]
        BY <4>1, ConcatParts
      <4> QED BY <4>2 DEF a, b, c
    <3> QED BY <3>1, <3>3, <3>4
  <2>5. ASSUME NEW k \in 1..n
        PROVE  /\ at[k] = at[k - 1] + Len(s[k])
               /\ \A x \in 1..Len(s[k]) : f[k][at[k - 1] + x] = s[k][x]
    <3>1. CASE k = 1
      <4>1. at[1] = Len(s[1]) /\ k - 1 = 0 /\ Len(s[1]) \in Nat
        BY <2>2, <2>3, <3>1
      <4> QED BY <2>2, <2>3, <3>1, <4>1
    <3>2. CASE k # 1
      <4>1. k \in 2..n
        BY <1>1, <3>2
      <4> QED BY <2>4, <4>1
    <3> QED BY <3>1, <3>2
  <2>6. ASSUME NEW k \in 1..n
        PROVE  at[k] <= at[n] /\ \A y \in 1..at[k] : f[n][y] = f[k][y]
    <3> DEFINE Same(j) == at[k] <= at[j] /\ \A y \in 1..at[k] : f[j][y] = f[k][y]
               Differ == {j \in k..n : ~Same(j)}
    <3>1. Differ = {}
      <4> SUFFICES ASSUME Differ # {} PROVE FALSE
        OBVIOUS
      <4>1. PICK j \in Differ : \A other \in Differ : j <= other
        <5>1. Differ \subseteq Nat
          BY <1>1
        <5> HIDE DEF Differ
        <5> QED BY <5>1, Least
      <4>2. j \in k..n /\ ~Same(j)
        OBVIOUS
      <4>3. j # k
        BY <2>3, <4>2
      <4>4. j \in 2..n /\ j - 1 \in k..n /\ ~ (j <= j - 1)
        BY <1>1, <4>2, <4>3
      <4>5. Same(j - 1)
        <5>1. j - 1 \notin Differ
          <6> HIDE DEF Differ
          <6> QED BY <4>1, <4>4
        <5> QED BY <4>4, <5>1
      <4>6. at[k] \in Nat /\ at[j - 1] \in Nat /\ Len(s[j]) \in Nat
        <5>1. k \in 0..n /\ j \in 1..n /\ j - 1 \in 0..n
          BY <1>1, <2>4, <4>4
        <5> QED BY <2>3, <5>1
      <4>7. at[j] = at[j - 1] + Len(s[j]) /\ \A y \in 1..at[j - 1] : f[j][y] = f[j - 1][y]
        BY <2>4, <4>4
      <4>8. Same(j)
        <5>1. at[k] <= at[j - 1] /\ at[j - 1] <= at[j]
          BY <4>5, <4>6, <4>7
        <5>2. ASSUME NEW y \in 1..at[k] PROVE f[j][y] = f[k][y]
          <6>1. y \in 1..at[j - 1]
            BY <4>6, <5>1
          <6>2. f[j][y] = f[j - 1][y]
            BY <4>7, <6>1, Zenon
          <6>3. f[j - 1][y] = f[k][y]
            BY <4>5, Zenon
          <6> QED BY <6>2, <6>3
        <5>3. at[k] <= at[j]
          BY <4>6, <4>7, <5>1
        <5> QED BY <5>2, <5>3
      <4> QED BY <4>2, <4>8
    <3>2. n \in k..n
      BY <1>1
    <3> QED BY <3>1, <3>2
  <2>7. ASSUME NEW k \in 1..n, NEW x \in 1..Len(s[k])
        PROVE  f[n][at[k - 1] + x] = s[k][x]
    <3>1. k - 1 \in 0..n /\ k \in 0..n
      BY <1>1
    <3>2. Len(s[k]) \in Nat /\ at[k - 1] \in Nat /\ at[k] \in Nat
      BY <2>3, <3>1
    <3>3. at[k] = at[k - 1] + Len(s[k]) /\ f[k][at[k - 1] + x] = s[k][x]
      BY <2>5
    <3>4. at[k - 1] + x \in 1..at[k]
      BY <3>2, <3>3
    <3> QED BY <2>6, <3>3, <3>4
  <2>8. at[n] = Len(FlattenSeq(s)) /\ FlattenSeq(s) \in Seq(S)
    BY <1>1, <1>3, <2>1, <2>2, <2>3
  <2> QED BY <2>1, <2>3, <2>5, <2>7, <2>8, ZenonT(40) DEF n
<1> QED BY <1>2, <1>3

Head3(t) == IF t.tag > 255 THEN 3 ELSE 2

LEMMA ReadableParts ==
  ASSUME NEW wide, NEW t \in Readable(wide)
  PROVE  /\ t.tag \in Nat /\ t.tag < 65536 /\ t.value \in Seq(Byte) /\ Len(t.value) < 253
         /\ t.tag > 255 => t.tag \div 256 \in wide
         /\ t.tag < 256 => t.tag \notin wide
BY DEF Readable

LEMMA Digits ==
  ASSUME NEW n \in Nat, n < 65536
  PROVE  \E q, r \in Byte : q = n \div 256 /\ r = n % 256 /\ n = 256 * q + r
<1> DEFINE q == n \div 256  r == n % 256
<1>1. q \in Nat /\ q < 256 /\ r \in Nat /\ r < 256
  OBVIOUS
<1>2. r = n - 256 * q
  OBVIOUS
<1>3. q = n \div 256 /\ r = n % 256
  OBVIOUS
<1> HIDE DEF q, r
<1>4. q \in Byte /\ r \in Byte
  BY <1>1 DEF Byte
<1>5. n = 256 * q + r
  BY <1>1, <1>2
<1> QED BY <1>3, <1>4, <1>5

LEMMA TlvShape ==
  ASSUME NEW wide \in SUBSET Byte, NEW t \in Readable(wide)
  PROVE  LET b == TlvBytes(t) IN
         /\ b \in Seq(Byte) /\ Len(t.value) \in 0..252 /\ t.value \in Seq(Byte)
         /\ Len(b) = Head3(t) + Len(t.value)
         /\ b[1] \in wide <=> t.tag > 255
         /\ t.tag = IF t.tag > 255 THEN 256 * b[1] + b[2] ELSE b[1]
         /\ b[Head3(t)] = Len(t.value)
         /\ \A x \in 1..Len(t.value) : b[Head3(t) + x] = t.value[x]
<1> DEFINE tag == t.tag  value == t.value  head == TagBytes(tag)  n == Len(value)
<1>1. /\ tag \in Nat /\ tag < 65536 /\ value \in Seq(Byte) /\ n < 253
      /\ tag > 255 => tag \div 256 \in wide
      /\ tag < 256 => tag \notin wide
  BY ReadableParts
<1>2. n \in 0..252 /\ n \in Byte
  <2>1. n \in Nat
    BY <1>1, LenProperties
  <2> HIDE DEF n
  <2> QED BY <1>1, <2>1 DEF Byte
<1>3. PICK high, low \in Byte :
        high = tag \div 256 /\ low = tag % 256 /\ tag = 256 * high + low
  <2> HIDE DEF tag
  <2> QED BY <1>1, Digits
<1>4. /\ head \in Seq(Byte) /\ Len(head) = Head3(t) - 1
      /\ tag > 255 => head[1] = high /\ head[2] = low
      /\ tag < 256 => head[1] = tag
  <2>1. CASE tag > 255
    <3>1. head = <<high, low>>
      BY <1>3, <2>1 DEF TagBytes
    <3>2. Head3(t) = 3
      BY <2>1 DEF Head3
    <3> HIDE DEF head, tag
    <3>3. head \in Seq(Byte) /\ Len(head) = 2 /\ head[1] = high /\ head[2] = low
      BY <3>1
    <3> QED BY <1>1, <2>1, <3>2, <3>3
  <2>2. CASE ~ (tag > 255)
    <3>1. head = <<tag>> /\ Head3(t) = 2
      BY <2>2 DEF TagBytes, Head3
    <3> HIDE DEF head, tag
    <3>2. tag \in Byte
      BY <1>1, <2>2 DEF Byte
    <3> QED BY <2>2, <3>1, <3>2
  <2> HIDE DEF head, tag
  <2> QED BY <2>1, <2>2
<1> DEFINE size == <<n>>  front == head \o size  b == front \o value
<1>5. size \in Seq(Byte) /\ Len(size) = 1 /\ size[1] = n
  BY <1>2, SMTT(30)
<1>6. b = TlvBytes(t)
  BY DEF TlvBytes
<1> HIDE DEF tag, value, head, n, size, front, b
<1>7. /\ front \in Seq(Byte) /\ Len(front) = Len(head) + 1
      /\ \A y \in 1..Len(head) : front[y] = head[y]
      /\ front[Len(head) + 1] = n
  <2>1. head \in Seq(Byte) /\ size \in Seq(Byte) /\ front = head \o size
    BY <1>4, <1>5 DEF front
  <2>2. /\ front \in Seq(Byte) /\ Len(front) = Len(head) + Len(size)
        /\ \A y \in 1..Len(head) : front[y] = head[y]
        /\ \A x \in 1..Len(size) : front[Len(head) + x] = size[x]
    BY <2>1, ConcatParts
  <2> QED BY <1>5, <2>2
<1>8. /\ b \in Seq(Byte) /\ Len(b) = Len(front) + n
      /\ \A y \in 1..Len(front) : b[y] = front[y]
      /\ \A x \in 1..n : b[Len(front) + x] = value[x]
  <2>1. front \in Seq(Byte) /\ value \in Seq(Byte) /\ b = front \o value
    BY <1>1, <1>7 DEF b
  <2> QED BY <2>1, ConcatParts DEF n
<1>9. Head3(t) \in {2, 3} /\ (Head3(t) = 3 <=> tag > 255)
  BY DEF Head3, tag
<1>10. /\ b[1] = head[1] /\ b[Head3(t)] = n /\ Len(front) = Head3(t)
       /\ tag > 255 => b[2] = head[2]
  <2>1. Len(front) = Head3(t) /\ Len(head) = Head3(t) - 1
    BY <1>4, <1>7, <1>9
  <2>2. 1 \in 1..Len(head) /\ 1 \in 1..Len(front) /\ Head3(t) \in 1..Len(front)
        /\ Head3(t) = Len(head) + 1
        /\ (tag > 255 => 2 \in 1..Len(head) /\ 2 \in 1..Len(front))
    BY <1>9, <2>1
  <2> QED BY <1>7, <1>8, <2>1, <2>2
<1>11. /\ b \in Seq(Byte) /\ n \in 0..252 /\ value \in Seq(Byte)
       /\ Len(b) = Head3(t) + n
       /\ b[1] \in wide <=> tag > 255
       /\ tag = IF tag > 255 THEN 256 * b[1] + b[2] ELSE b[1]
       /\ b[Head3(t)] = n
       /\ \A x \in 1..n : b[Head3(t) + x] = value[x]
  <2>1. /\ b \in Seq(Byte) /\ n \in 0..252 /\ value \in Seq(Byte)
        /\ Len(b) = Head3(t) + n /\ b[Head3(t)] = n
        /\ \A x \in 1..n : b[Head3(t) + x] = value[x]
    BY <1>1, <1>2, <1>8, <1>10
  <2>2. CASE tag > 255
    BY <1>1, <1>3, <1>4, <1>10, <2>1, <2>2, SMTT(30)
  <2>3. CASE ~ (tag > 255)
    <3>1. tag < 256
      BY <1>1, <2>3
    <3> QED BY <1>1, <1>4, <1>10, <2>1, <2>3, <3>1
  <2> QED BY <2>2, <2>3
<1> QED BY <1>6, <1>11 DEF tag, value, n

\* How long a parameter is.
LEMMA TlvLength ==
  ASSUME NEW wide \in SUBSET Byte, NEW t \in Readable(wide)
  PROVE  /\ TlvBytes(t) \in Seq(Byte) /\ t.value \in Seq(Byte)
         /\ Len(TlvBytes(t)) = Head3(t) + Len(t.value)
         /\ Len(t.value) \in Nat /\ Len(t.value) \in 0..252 /\ Head3(t) \in {2, 3}
         /\ Len(TlvBytes(t)) \in Nat /\ Len(TlvBytes(t)) >= 2
<1> DEFINE length == Len(TlvBytes(t))  head == Head3(t)  n == Len(t.value)
<1>1. TlvBytes(t) \in Seq(Byte) /\ t.value \in Seq(Byte)
  BY TlvShape, ZenonT(40)
<1>2. n \in 0..252 /\ length = head + n
  BY TlvShape, ZenonT(40)
<1>3. head \in {2, 3}
  BY DEF Head3
<1> HIDE DEF length, head, n
<1>4. n \in Nat
  BY <1>2
<1>5. length \in Nat /\ length >= 2
  BY <1>2, <1>3, <1>4
<1> QED BY <1>1, <1>2, <1>3, <1>4, <1>5, Zenon DEF length, head, n

\* Where the parameters of an encoding begin.
LEMMA Encoded ==
  ASSUME NEW wide \in SUBSET Byte, NEW tlvs \in Seq(Readable(wide))
  PROVE  /\ Encode(tlvs) \in Seq(Byte)
         /\ \E at \in [0..Len(tlvs) -> Nat] :
              /\ at[0] = 0 /\ at[Len(tlvs)] = Len(Encode(tlvs))
              /\ \A k \in 1..Len(tlvs) :
                   /\ at[k] = at[k - 1] + Len(TlvBytes(tlvs[k]))
                   /\ \A x \in 1..Len(TlvBytes(tlvs[k])) :
                        Encode(tlvs)[at[k - 1] + x] = TlvBytes(tlvs[k])[x]
<1> DEFINE n == Len(tlvs)
           parts == [k \in DOMAIN tlvs |-> TlvBytes(tlvs[k])]
<1>1. n \in Nat /\ DOMAIN tlvs = 1..n
  BY LenProperties
<1>2. ASSUME NEW k \in 1..n PROVE TlvBytes(tlvs[k]) \in Seq(Byte)
  <2>1. tlvs[k] \in Readable(wide)
    BY ElementOfSeq
  <2> QED BY <2>1, TlvLength, Zenon
<1>3. /\ parts \in Seq(Seq(Byte)) /\ Len(parts) = n
      /\ \A k \in 1..n : parts[k] = TlvBytes(tlvs[k])
  <2>1. parts = [k \in 1..n |-> TlvBytes(tlvs[k])]
    BY <1>1
  <2> HIDE DEF n
  <2>2. parts \in [1..n -> Seq(Byte)]
    BY <1>2, <2>1
  <2> HIDE DEF parts
  <2>3. parts \in Seq(Seq(Byte)) /\ Len(parts) = n
    BY <1>1, <2>2
  <2> QED BY <2>1, <2>3
<1>4. Encode(tlvs) = FlattenSeq(parts)
  BY DEF Encode
<1> HIDE DEF parts, n
<1>5. /\ FlattenSeq(parts) \in Seq(Byte)
      /\ \E at \in [0..Len(parts) -> Nat] :
           /\ at[0] = 0 /\ at[Len(parts)] = Len(FlattenSeq(parts))
           /\ \A k \in 1..Len(parts) :
                /\ at[k] = at[k - 1] + Len(parts[k])
                /\ \A x \in 1..Len(parts[k]) : FlattenSeq(parts)[at[k - 1] + x] = parts[k][x]
  <2>1. parts \in Seq(Seq(Byte))
    BY <1>3
  <2> QED BY <2>1, Flat
<1>6. PICK at \in [0..n -> Nat] :
        /\ at[0] = 0 /\ at[n] = Len(FlattenSeq(parts))
        /\ \A k \in 1..n :
             /\ at[k] = at[k - 1] + Len(parts[k])
             /\ \A x \in 1..Len(parts[k]) : FlattenSeq(parts)[at[k - 1] + x] = parts[k][x]
  BY <1>3, <1>5
<1>7. /\ at[0] = 0 /\ at[n] = Len(Encode(tlvs))
      /\ \A k \in 1..n :
           /\ at[k] = at[k - 1] + Len(TlvBytes(tlvs[k]))
           /\ \A x \in 1..Len(TlvBytes(tlvs[k])) :
                Encode(tlvs)[at[k - 1] + x] = TlvBytes(tlvs[k])[x]
  BY <1>3, <1>4, <1>6
<1> QED BY <1>4, <1>5, <1>7 DEF n

-----------------------------------------------------------------------------
(* Reading it back.                                                         *)

Failure == [ok |-> FALSE, tlvs |-> <<>>]
End == [ok |-> TRUE, tlvs |-> <<>>]

HeadAt(p, wide, i) == IF At(p, i) \in wide THEN 3 ELSE 2
TagAt(p, wide, i) ==
  IF HeadAt(p, wide, i) = 3 THEN 256 * At(p, i) + At(p, i + 1) ELSE At(p, i)
NextAt(p, wide, i) == i + HeadAt(p, wide, i) + At(p, i + HeadAt(p, wide, i) - 1)

Walked(w, p, wide, slack, i) ==
  IF i = Len(p) THEN End
  ELSE IF i + HeadAt(p, wide, i) + slack > Len(p) \/ NextAt(p, wide, i) > Len(p) THEN Failure
  ELSE [ok   |-> w[NextAt(p, wide, i)].ok,
        tlvs |-> <<Tlv(TagAt(p, wide, i),
                       SubSeq(p, i + HeadAt(p, wide, i) + 1, NextAt(p, wide, i)))>>
                   \o w[NextAt(p, wide, i)].tlvs]

LEMMA WalkIsDefined ==
  ASSUME NEW p \in Seq(Nat), NEW wide, NEW from \in 0..Len(p), NEW slack \in Nat
  PROVE  \E w : /\ \A i \in from..Len(p) : w[i] = Walked(w, p, wide, slack, i)
                /\ Walk(p, wide, from, slack) = w[from]
<1> DEFINE n == Len(p)
           walk == CHOOSE w : w = [i \in from..n |-> Walked(w, p, wide, slack, i)]
           Upto(w, k) == \A i \in k..n : w[i] = Walked(w, p, wide, slack, i)
           Short == {d \in 0..(n - from) : ~ \E w : Upto(w, n - d)}
<1>1. n \in Nat
  BY LenProperties
<1>2. ASSUME NEW i \in from..n, ~ (NextAt(p, wide, i) > n)
      PROVE  NextAt(p, wide, i) \in (i + 1)..n
  <2>1. \A j \in Nat : At(p, j) \in Nat
    BY <1>1, ElementOfSeq DEF At
  <2>2. HeadAt(p, wide, i) \in {2, 3}
    BY DEF HeadAt
  <2>3. At(p, i + HeadAt(p, wide, i) - 1) \in Nat
    <3>1. i + HeadAt(p, wide, i) - 1 \in Nat
      BY <1>1, <2>2
    <3> QED BY <2>1, <3>1
  <2> QED BY <1>1, <1>2, <2>2, <2>3 DEF NextAt
<1>3. Short = {}
  <2> SUFFICES ASSUME Short # {} PROVE FALSE
    OBVIOUS
  <2>1. PICK d \in Short : \A other \in Short : d <= other
    <3>1. Short \subseteq Nat
      OBVIOUS
    <3> HIDE DEF Short
    <3> QED BY <3>1, Least
  <2>2. d \in 0..(n - from) /\ ~ \E w : Upto(w, n - d)
    OBVIOUS
  <2> DEFINE j == n - d
  <2>3. j \in from..n
    BY <1>1, <2>2
  <2>4. PICK w : \A i \in (j + 1)..n : w[i] = Walked(w, p, wide, slack, i)
    <3>1. CASE d = 0
      <4>1. (j + 1)..n = {}
        BY <1>1, <3>1
      <4> QED BY <4>1
    <3>2. CASE d # 0
      <4>1. d - 1 \in 0..(n - from) /\ ~ (d <= d - 1)
        BY <1>1, <2>2, <3>2
      <4>2. d - 1 \notin Short
        BY <2>1, <4>1
      <4>3. n - (d - 1) = j + 1
        BY <1>1, <2>2
      <4> QED BY <4>1, <4>2, <4>3
    <3> QED BY <3>1, <3>2
  <2> DEFINE longer == [i \in j..n |-> IF i = j THEN Walked(w, p, wide, slack, j) ELSE w[i]]
  <2> HIDE DEF j, n
  <2>5. ASSUME NEW i \in j..n PROVE longer[i] = Walked(longer, p, wide, slack, i)
    <3>1. longer[i] = Walked(w, p, wide, slack, i)
      BY <1>1, <2>3, <2>4
    <3>2. i \in from..n
      BY <1>1, <2>3
    <3>3. CASE i = n
      BY <3>1, <3>3 DEF Walked, n
    <3>4. CASE i # n /\ (i + HeadAt(p, wide, i) + slack > n \/ NextAt(p, wide, i) > n)
      BY <3>1, <3>4 DEF Walked, n
    <3>5. CASE i # n /\ ~ (i + HeadAt(p, wide, i) + slack > n \/ NextAt(p, wide, i) > n)
      <4>1. NextAt(p, wide, i) \in (i + 1)..n
        BY <1>2, <3>2, <3>5
      <4>2. longer[NextAt(p, wide, i)] = w[NextAt(p, wide, i)]
        <5>1. NextAt(p, wide, i) \in j..n /\ NextAt(p, wide, i) # j
          BY <1>1, <2>3, <4>1
        <5> QED BY <5>1
      <4> HIDE DEF longer
      <4> QED BY <3>1, <3>5, <4>2 DEF Walked, n
    <3> QED BY <3>3, <3>4, <3>5
  <2>6. Upto(longer, j)
    BY <2>5
  <2> QED BY <2>2, <2>6 DEF j
<1>4. PICK w : Upto(w, from)
  <2>1. n - from \in 0..(n - from) /\ n - (n - from) = from
    BY <1>1
  <2>2. n - from \notin Short
    BY <1>3
  <2> QED BY <2>1, <2>2
<1> DEFINE whole == [i \in from..n |-> w[i]]
<1>5. ASSUME NEW i \in from..n PROVE Walked(whole, p, wide, slack, i) = w[i]
  <2>1. w[i] = Walked(w, p, wide, slack, i)
    BY <1>4
  <2>2. CASE i = n
    BY <2>1, <2>2 DEF Walked
  <2>3. CASE i # n /\ (i + HeadAt(p, wide, i) + slack > n \/ NextAt(p, wide, i) > n)
    BY <2>1, <2>3 DEF Walked
  <2>4. CASE i # n /\ ~ (i + HeadAt(p, wide, i) + slack > n \/ NextAt(p, wide, i) > n)
    <3>1. NextAt(p, wide, i) \in (i + 1)..n
      BY <1>2, <2>4
    <3>2. whole[NextAt(p, wide, i)] = w[NextAt(p, wide, i)]
      BY <1>1, <3>1
    <3> HIDE DEF whole
    <3> QED BY <2>1, <2>4, <3>2 DEF Walked
  <2> QED BY <2>2, <2>3, <2>4
<1>6. whole = [i \in from..n |-> Walked(whole, p, wide, slack, i)]
  BY <1>5
<1>7. walk = [i \in from..n |-> Walked(walk, p, wide, slack, i)]
  <2> HIDE DEF whole, n
  <2> QED BY <1>6
<1>8. Walk(p, wide, from, slack) = walk[from]
  BY DEF Walk, walk, Walked, HeadAt, TagAt, NextAt, End, Failure
<1> HIDE DEF walk
<1>9. \A i \in from..n : walk[i] = Walked(walk, p, wide, slack, i)
  BY <1>7
<1> QED BY <1>8, <1>9

\* The bytes b stand in p from byte i on.
Stands(p, i, b) == i + Len(b) <= Len(p) /\ \A x \in 1..Len(b) : p[i + x] = b[x]

Before(t, rest) == [ok |-> rest.ok, tlvs |-> <<t>> \o rest.tlvs]

LEMMA OneTlv ==
  ASSUME NEW p \in Seq(Byte), NEW wide \in SUBSET Byte, NEW t \in Readable(wide),
         NEW slack \in Nat, NEW i \in Nat, NEW w,
         Stands(p, i, TlvBytes(t)), i + Head3(t) + slack <= Len(p)
  PROVE  Walked(w, p, wide, slack, i) = Before(t, w[i + Len(TlvBytes(t))])
<1> DEFINE b == TlvBytes(t)  head == Head3(t)  n == Len(t.value)  next == i + Len(b)  m == Len(p)
<1>1. /\ b \in Seq(Byte) /\ n \in 0..252 /\ t.value \in Seq(Byte)
      /\ Len(b) = head + n
      /\ b[1] \in wide <=> t.tag > 255
      /\ t.tag = IF t.tag > 255 THEN 256 * b[1] + b[2] ELSE b[1]
      /\ b[head] = n
      /\ \A x \in 1..n : b[head + x] = t.value[x]
  BY TlvShape
<1>2. head \in {2, 3} /\ (t.tag > 255 => head = 3) /\ (~ (t.tag > 255) => head = 2)
  BY DEF Head3
<1>3. next <= m /\ m \in Nat /\ \A x \in 1..Len(b) : p[i + x] = b[x]
  BY LenProperties DEF Stands
<1> HIDE DEF b, head, n, next, m
<1>12. n \in Nat /\ Len(b) = head + n
  <2>1. n \in 0..252 /\ Len(b) = head + n
    BY <1>1, Zenon
  <2> QED BY <2>1
<1>4. \A x \in 1..Len(b) : At(p, i + x - 1) = b[x]
  <2> SUFFICES ASSUME NEW x \in 1..Len(b) PROVE At(p, i + x - 1) = b[x]
    OBVIOUS
  <2>1. i + x - 1 < m /\ i + x - 1 + 1 = i + x
    BY <1>1, <1>2, <1>3 DEF next
  <2> QED BY <1>3, <2>1 DEF At, m
<1>5. At(p, i) = b[1] /\ At(p, i + head - 1) = n /\ (head = 3 => At(p, i + 1) = b[2])
  <2>1. 1 \in 1..Len(b) /\ head \in 1..Len(b) /\ 2 \in 1..Len(b)
    BY <1>1, <1>2
  <2>2. i + 1 - 1 = i /\ i + 2 - 1 = i + 1
    OBVIOUS
  <2> QED BY <1>1, <1>4, <2>1, <2>2
<1>6. HeadAt(p, wide, i) = head
  BY <1>1, <1>2, <1>5 DEF HeadAt
<1>7. TagAt(p, wide, i) = t.tag
  <2>1. CASE t.tag > 255
    BY <1>1, <1>2, <1>5, <1>6, <2>1 DEF TagAt
  <2>2. CASE ~ (t.tag > 255)
    BY <1>1, <1>2, <1>5, <1>6, <2>2 DEF TagAt
  <2> QED BY <2>1, <2>2
<1>8. NextAt(p, wide, i) = next
  BY <1>1, <1>2, <1>5, <1>6 DEF NextAt, next
<1>9. SubSeq(p, i + head + 1, next) = t.value
  <2> DEFINE s == SubSeq(p, i + head + 1, next)
  <2>1. /\ i + head + 1 \in Int /\ next \in Int /\ next - (i + head + 1) + 1 = n /\ next \in 0..m
        /\ n \in Nat
    BY <1>1, <1>2, <1>3 DEF next
  <2>2. \A j \in (i + head + 1)..next : p[j] \in Byte
    BY <1>2, <2>1, ElementOfSeq DEF m
  <2>3. s \in Seq(Byte) /\ Len(s) = n /\ \A x \in 1..n : s[x] = p[i + head + 1 + x - 1]
    <3>1. /\ s \in Seq(Byte)
          /\ Len(s) = IF i + head + 1 <= next THEN next - (i + head + 1) + 1 ELSE 0
          /\ \A x \in 1..(next - (i + head + 1) + 1) : s[x] = p[i + head + 1 + x - 1]
      BY <2>1, <2>2, SubSeqProperties
    <3> QED BY <1>1, <1>2, <2>1, <3>1
  <2> HIDE DEF s
  <2>4. ASSUME NEW x \in 1..n PROVE s[x] = t.value[x]
    <3>1. head + x \in 1..Len(b) /\ i + head + 1 + x - 1 = i + (head + x)
      BY <1>2, <1>12
    <3> DEFINE y == head + x
    <3>2. b[y] = t.value[x]
      BY <1>1, Zenon
    <3>3. s[x] = p[i + head + 1 + x - 1]
      BY <2>3, Zenon
    <3>4. y \in 1..Len(b) /\ i + head + 1 + x - 1 = i + y
      BY <3>1
    <3> HIDE DEF y
    <3>5. p[i + y] = b[y]
      BY <1>3, <3>4, Zenon
    <3> QED BY <3>2, <3>3, <3>4, <3>5
  <2>5. Len(s) = Len(t.value)
    BY <2>3 DEF n
  <2>6. s = t.value
    <3>1. \A x \in 1..Len(s) : s[x] = t.value[x]
      BY <2>3, <2>4
    <3>2. s \in Seq(Byte) /\ t.value \in Seq(Byte) /\ Len(s) = Len(t.value)
      BY <1>1, <2>3, <2>5
    <3> QED BY <3>1, <3>2, SeqEqual
  <2> QED BY <2>6 DEF s
<1>10. t = Tlv(t.tag, t.value)
  BY DEF Readable, Tlv
<1>11. i # m /\ ~ (i + head + slack > m \/ next > m)
  BY <1>1, <1>2, <1>3, SMTT(30) DEF next, m, head
<1> QED BY <1>6, <1>7, <1>8, <1>9, <1>10, <1>11 DEF Walked, Before, m, next, b

LEMMA Rising ==
  ASSUME NEW n \in Nat, NEW at \in [0..n -> Nat], \A k \in 1..n : at[k - 1] <= at[k],
         NEW j \in 0..n, NEW k \in 0..j
  PROVE  at[k] <= at[j]
<1> DEFINE Falls == {i \in k..n : ~ (at[k] <= at[i])}
<1>1. Falls = {}
  <2> SUFFICES ASSUME Falls # {} PROVE FALSE
    OBVIOUS
  <2>1. PICK i \in Falls : \A other \in Falls : i <= other
    <3>1. Falls \subseteq Nat
      OBVIOUS
    <3> HIDE DEF Falls
    <3> QED BY <3>1, Least
  <2>2. i \in k..n /\ ~ (at[k] <= at[i]) /\ k \in 0..n
    OBVIOUS
  <2>3. at[k] \in Nat /\ at[i] \in Nat
    BY <2>2
  <2>4. i # k
    BY <2>2, <2>3
  <2>5. i - 1 \in k..n /\ i - 1 \in 0..n /\ i \in 1..n /\ ~ (i <= i - 1)
    BY <2>2, <2>4
  <2>6. at[k] <= at[i - 1]
    BY <2>1, <2>5
  <2>7. at[i - 1] \in Nat /\ at[i - 1] <= at[i]
    BY <2>5
  <2> QED BY <2>2, <2>3, <2>6, <2>7
<1>2. j \in k..n
  OBVIOUS
<1> QED BY <1>1, <1>2

IsWalk(w, p, wide, from, slack) ==
  \A i \in from..Len(p) : w[i] = Walked(w, p, wide, slack, i)

\* The first j parameters stand in p where "at" says, from byte "from" on.
Written(p, tlvs, at, from, j, slack) ==
  \A k \in 1..j : /\ Stands(p, from + at[k - 1], TlvBytes(tlvs[k]))
                  /\ from + at[k - 1] + Head3(tlvs[k]) + slack <= Len(p)

Starts(at, tlvs) ==
  /\ at \in [0..Len(tlvs) -> Nat] /\ at[0] = 0
  /\ \A k \in 1..Len(tlvs) : at[k] = at[k - 1] + Len(TlvBytes(tlvs[k]))

\* The parameters up to the j-th are read as they are; what then follows
\* decides whether the loop comes to the end.
LEMMA ReadMany ==
  ASSUME NEW p \in Seq(Byte), NEW wide \in SUBSET Byte, NEW tlvs \in Seq(Readable(wide)),
         NEW slack \in Nat, NEW from \in 0..Len(p), NEW w,
         IsWalk(w, p, wide, from, slack), NEW at, Starts(at, tlvs),
         NEW j \in 0..Len(tlvs), Written(p, tlvs, at, from, j, slack)
  PROVE  /\ w[from + at[j]] = End =>
              \A k \in 0..j : w[from + at[k]] = [ok |-> TRUE, tlvs |-> SubSeq(tlvs, k + 1, j)]
         /\ ~w[from + at[j]].ok => \A k \in 0..j : ~w[from + at[k]].ok
<1> DEFINE m == Len(tlvs)
           Right(k) ==
             /\ w[from + at[j]] = End =>
                  w[from + at[k]] = [ok |-> TRUE, tlvs |-> SubSeq(tlvs, k + 1, j)]
             /\ ~w[from + at[j]].ok => ~w[from + at[k]].ok
           Wrong == {d \in 0..j : ~Right(j - d)}
<1>1. m \in Nat
  BY LenProperties
<1>2. Right(j)
  <2>1. SubSeq(tlvs, j + 1, j) = <<>>
    BY <1>1, SubSeqEmpty
  <2> QED BY <2>1 DEF End
<1>3. ASSUME NEW k \in 1..j, Right(k) PROVE Right(k - 1)
  <2> DEFINE pos == from + at[k - 1]  t == tlvs[k]
  <2>1. k \in 1..m /\ k - 1 \in 0..m /\ j \in k..m
    BY <1>1
  <2>2. t \in Readable(wide) /\ at[k - 1] \in Nat /\ pos \in Nat
    <3>1. t \in Readable(wide)
      BY <2>1, ElementOfSeq
    <3>2. at[k - 1] \in Nat
      BY <2>1 DEF Starts
    <3>3. from \in Nat
      OBVIOUS
    <3> QED BY <3>1, <3>2, <3>3
  <2>3. Stands(p, pos, TlvBytes(t)) /\ pos + Head3(t) + slack <= Len(p)
    BY DEF Written
  <2>4. pos \in from..Len(p) /\ Len(TlvBytes(t)) \in Nat
    <3>1. Len(TlvBytes(t)) \in Nat
      BY <2>2, TlvLength, Zenon
    <3>2. Len(p) \in Nat
      BY LenProperties
    <3>3. pos + Len(TlvBytes(t)) <= Len(p)
      BY <2>3 DEF Stands
    <3>4. from \in Nat /\ from <= pos
      BY <2>2
    <3> HIDE DEF pos, t
    <3> QED BY <2>2, <3>1, <3>2, <3>3, <3>4
  <2>5. pos + Len(TlvBytes(t)) = from + at[k]
    BY <2>1, <2>2, <2>4 DEF Starts
  <2>6. w[pos] = Walked(w, p, wide, slack, pos)
    BY <2>4 DEF IsWalk
  <2> HIDE DEF pos, t
  <2>7. w[pos] = Before(t, w[from + at[k]])
    <3>1. Walked(w, p, wide, slack, pos) = Before(t, w[pos + Len(TlvBytes(t))])
      BY <2>2, <2>3, OneTlv
    <3> QED BY <2>5, <2>6, <3>1
  <2>8. SubSeq(tlvs, k, j) = <<t>> \o SubSeq(tlvs, k + 1, j)
    BY <2>1, SubSeqRecursiveFirst DEF t
  <2>9. k - 1 + 1 = k
    OBVIOUS
  <2>10. w[from + at[k - 1]] = Before(t, w[from + at[k]])
    BY <2>7 DEF pos
  <2>11. ASSUME w[from + at[j]] = End
         PROVE  w[from + at[k - 1]] = [ok |-> TRUE, tlvs |-> SubSeq(tlvs, k, j)]
    <3>1. w[from + at[k]] = [ok |-> TRUE, tlvs |-> SubSeq(tlvs, k + 1, j)]
      BY <1>3, <2>11
    <3> QED BY <2>8, <2>10, <3>1 DEF Before
  <2>12. ASSUME ~w[from + at[j]].ok PROVE ~w[from + at[k - 1]].ok
    <3>1. ~w[from + at[k]].ok
      BY <1>3, <2>12
    <3> QED BY <2>10, <3>1 DEF Before
  <2> QED BY <2>9, <2>11, <2>12
<1> HIDE DEF Right
<1>4. Wrong = {}
  <2> SUFFICES ASSUME Wrong # {} PROVE FALSE
    OBVIOUS
  <2>1. PICK d \in Wrong : \A other \in Wrong : d <= other
    <3>1. Wrong \subseteq Nat
      OBVIOUS
    <3> HIDE DEF Wrong
    <3> QED BY <3>1, Least
  <2>2. d \in 0..j /\ ~Right(j - d)
    OBVIOUS
  <2>3. d # 0
    <3>1. j - 0 = j
      OBVIOUS
    <3> QED BY <1>2, <2>2, <3>1
  <2>4. d - 1 \in 0..j /\ ~ (d <= d - 1) /\ j - (d - 1) = j - d + 1 /\ j - d + 1 \in 1..j
        /\ j - d + 1 - 1 = j - d
    BY <2>2, <2>3
  <2>5. Right(j - (d - 1))
    BY <2>1, <2>4
  <2>6. Right(j - d + 1)
    BY <2>4, <2>5
  <2>7. Right(j - d + 1 - 1)
    BY <1>3, <2>4, <2>6
  <2> QED BY <2>2, <2>4, <2>7
<1>5. ASSUME NEW k \in 0..j PROVE Right(k)
  <2>1. j - k \in 0..j /\ j - (j - k) = k
    OBVIOUS
  <2>2. Right(j - (j - k))
    BY <1>4, <2>1
  <2> QED BY <2>1, <2>2
<1> QED BY <1>5 DEF Right

LEMMA EncodedAt ==
  ASSUME NEW wide \in SUBSET Byte, NEW tlvs \in Seq(Readable(wide))
  PROVE  /\ Encode(tlvs) \in Seq(Byte)
         /\ \E at : /\ Starts(at, tlvs) /\ at[Len(tlvs)] = Len(Encode(tlvs))
                    /\ \A k \in 1..Len(tlvs) : \A x \in 1..Len(TlvBytes(tlvs[k])) :
                         Encode(tlvs)[at[k - 1] + x] = TlvBytes(tlvs[k])[x]
<1>1. Encode(tlvs) \in Seq(Byte)
  BY Encoded
<1>2. PICK at \in [0..Len(tlvs) -> Nat] :
        /\ at[0] = 0 /\ at[Len(tlvs)] = Len(Encode(tlvs))
        /\ \A k \in 1..Len(tlvs) :
             /\ at[k] = at[k - 1] + Len(TlvBytes(tlvs[k]))
             /\ \A x \in 1..Len(TlvBytes(tlvs[k])) :
                  Encode(tlvs)[at[k - 1] + x] = TlvBytes(tlvs[k])[x]
  BY Encoded
<1>3. Starts(at, tlvs)
  BY <1>2 DEF Starts
<1> QED BY <1>1, <1>2, <1>3, ZenonT(40)

LEMMA StartsRise ==
  ASSUME NEW wide \in SUBSET Byte, NEW tlvs \in Seq(Readable(wide)), NEW at, Starts(at, tlvs)
  PROVE  /\ Len(tlvs) \in Nat
         /\ \A k \in 1..Len(tlvs) : tlvs[k] \in Readable(wide) /\ Len(TlvBytes(tlvs[k])) \in Nat
         /\ \A j \in 0..Len(tlvs) : \A k \in 0..j : at[k] <= at[j]
<1>1. Len(tlvs) \in Nat
  BY LenProperties
<1>2. ASSUME NEW k \in 1..Len(tlvs)
      PROVE  tlvs[k] \in Readable(wide) /\ Len(TlvBytes(tlvs[k])) \in Nat
  <2>1. tlvs[k] \in Readable(wide)
    BY ElementOfSeq
  <2> QED BY <2>1, TlvLength, Zenon
<1>3. /\ at \in [0..Len(tlvs) -> Nat]
      /\ \A k \in 1..Len(tlvs) : at[k] = at[k - 1] + Len(TlvBytes(tlvs[k]))
  BY DEF Starts
<1>4. ASSUME NEW k \in 1..Len(tlvs) PROVE at[k - 1] <= at[k]
  <2>1. k - 1 \in 0..Len(tlvs)
    BY <1>1
  <2>2. at[k - 1] \in Nat
    BY <1>3, <2>1
  <2> QED BY <1>2, <1>3, <2>2
<1>5. ASSUME NEW j \in 0..Len(tlvs), NEW k \in 0..j PROVE at[k] <= at[j]
  BY <1>1, <1>3, <1>4, Rising
<1> QED BY <1>1, <1>2, <1>5

LEMMA WalkExists ==
  ASSUME NEW p \in Seq(Byte), NEW wide, NEW from \in 0..Len(p), NEW slack \in Nat
  PROVE  \E w : IsWalk(w, p, wide, from, slack) /\ Walk(p, wide, from, slack) = w[from]
<1>1. p \in Seq(Nat)
  <2>1. Byte \subseteq Nat
    BY DEF Byte
  <2> QED BY <2>1, SeqMonotonic
<1>2. \E w : /\ \A i \in from..Len(p) : w[i] = Walked(w, p, wide, slack, i)
             /\ Walk(p, wide, from, slack) = w[from]
  BY <1>1, WalkIsDefined
<1> QED BY <1>2 DEF IsWalk

\* From byte "from" on, p is the encoding of tlvs without its last bytes.
Ends(p, from, tlvs, cut) ==
  /\ Len(p) + cut = from + Len(Encode(tlvs))
  /\ \A x \in 1..(Len(p) - from) : p[from + x] = Encode(tlvs)[x]

\* A loop that comes upon an encoding reads what was encoded.
LEMMA WalkReads ==
  ASSUME NEW p \in Seq(Byte), NEW wide \in SUBSET Byte, NEW tlvs \in Seq(Readable(wide)),
         NEW from \in 0..Len(p), Ends(p, from, tlvs, 0),
         NEW slack \in 0..1,
         slack = 1 /\ tlvs # <<>> => tlvs[Len(tlvs)].value # <<>>
  PROVE  Walk(p, wide, from, slack) = [ok |-> TRUE, tlvs |-> tlvs]
<1> DEFINE m == Len(tlvs)
<1>1. PICK at : /\ Starts(at, tlvs) /\ at[m] = Len(Encode(tlvs))
                /\ \A k \in 1..m : \A x \in 1..Len(TlvBytes(tlvs[k])) :
                     Encode(tlvs)[at[k - 1] + x] = TlvBytes(tlvs[k])[x]
  BY EncodedAt
<1>2. p \in Seq(Nat) /\ slack \in Nat /\ Len(p) \in Nat /\ from \in Nat
  <2>1. Byte \subseteq Nat
    BY DEF Byte
  <2>2. p \in Seq(Nat)
    BY <2>1, SeqMonotonic
  <2> QED BY <2>2, LenProperties
<1>3. PICK w : IsWalk(w, p, wide, from, slack) /\ Walk(p, wide, from, slack) = w[from]
  <2>1. p \in Seq(Byte) /\ from \in 0..Len(p) /\ slack \in Nat
    BY <1>2
  <2> QED BY <2>1, WalkExists, Zenon
<1>4. /\ m \in Nat
      /\ \A k \in 1..m : tlvs[k] \in Readable(wide) /\ Len(TlvBytes(tlvs[k])) \in Nat
      /\ \A j \in 0..m : \A k \in 0..j : at[k] <= at[j]
  BY <1>1, StartsRise
<1>5. /\ at \in [0..m -> Nat] /\ at[0] = 0
      /\ \A k \in 1..m : at[k] = at[k - 1] + Len(TlvBytes(tlvs[k]))
  BY <1>1 DEF Starts
<1> DEFINE last == Len(Encode(tlvs))
<1>6. last \in Nat /\ Len(p) = from + last /\ at[m] = last
      /\ \A x \in 1..last : p[from + x] = Encode(tlvs)[x]
  <2>1. last \in Nat /\ at[m] = last
    BY <1>1, <1>4, <1>5
  <2>2. Len(p) = from + last /\ Len(p) - from = last
    BY <1>2, <2>1 DEF Ends
  <2> QED BY <2>1, <2>2 DEF Ends
<1> HIDE DEF m, last
<1>7. ASSUME NEW k \in 1..m
      PROVE  /\ Stands(p, from + at[k - 1], TlvBytes(tlvs[k]))
             /\ from + at[k - 1] + Head3(tlvs[k]) + slack <= Len(p)
  <2> DEFINE b == TlvBytes(tlvs[k])  start == at[k - 1]  t == tlvs[k]
  <2>1. k - 1 \in 0..m /\ k \in 0..m /\ k \in 0..m /\ m \in 0..m
    BY <1>4
  <2>2. start \in Nat /\ Len(b) \in Nat /\ at[k] = start + Len(b) /\ at[k] <= last
        /\ t \in Readable(wide)
    BY <1>4, <1>5, <1>6, <2>1
  <2>3. \A x \in 1..Len(b) : p[from + start + x] = b[x]
    <3> SUFFICES ASSUME NEW x \in 1..Len(b) PROVE p[from + start + x] = b[x]
      OBVIOUS
    <3>1. Encode(tlvs)[start + x] = b[x]
      BY <1>1 DEF m
    <3> HIDE DEF start, b
    <3>2. start + x \in 1..last /\ from + (start + x) = from + start + x
      BY <1>2, <1>6, <2>2
    <3> QED BY <1>6, <3>1, <3>2
  <2>4. /\ Len(b) = Head3(t) + Len(t.value) /\ Len(t.value) \in Nat /\ Head3(t) \in {2, 3}
        /\ t.value \in Seq(Byte)
    BY <2>2, TlvLength, Zenon
  <2>5. k = m /\ slack = 1 => Len(t.value) # 0
    <3> SUFFICES ASSUME k = m, slack = 1 PROVE Len(t.value) # 0
      OBVIOUS
    <3>1. tlvs # <<>>
      <4>1. m # 0
        BY <1>4
      <4> QED BY <4>1 DEF m
    <3>2. t.value # <<>>
      BY <3>1 DEF m
    <3> QED BY <2>4, <3>2, EmptySeq
  <2>6. k # m => at[k] + 2 <= last
    <3> SUFFICES ASSUME k # m PROVE at[k] + 2 <= last
      OBVIOUS
    <3>1. k + 1 \in 1..m /\ k + 1 \in 0..m /\ k + 1 - 1 = k
      BY <1>4
    <3>2. at[k + 1] = at[k] + Len(TlvBytes(tlvs[k + 1])) /\ at[k + 1] <= last
      BY <1>4, <1>5, <1>6, <2>1, <3>1, SMTT(30)
    <3>3. tlvs[k + 1] \in Readable(wide)
      BY <1>4, <3>1
    <3>4. Len(TlvBytes(tlvs[k + 1])) \in Nat /\ Len(TlvBytes(tlvs[k + 1])) >= 2
      BY <3>3, TlvLength, Zenon
    <3>5. at[k] \in Nat /\ at[k + 1] \in Nat
      BY <1>5, <2>1, <3>1
    <3> QED BY <1>6, <3>2, <3>4, <3>5
  <2> HIDE DEF b, start, t
  <2>7. Stands(p, from + start, b)
    <3>1. from + start + Len(b) <= Len(p)
      BY <1>2, <1>6, <2>2
    <3> QED BY <2>3, <3>1 DEF Stands
  <2>8. from + start + Head3(t) + slack <= Len(p)
    <3> DEFINE head == Head3(t)  value == Len(t.value)  total == Len(p)  to == at[k]
    <3>1. /\ head \in Nat /\ value \in Nat /\ to = start + (head + value) /\ to <= last
          /\ total = from + last /\ start \in Nat /\ last \in Nat /\ from \in Nat
          /\ k # m => to + 2 <= last
          /\ k = m /\ slack = 1 => value # 0
          /\ slack \in {0, 1}
      <4>1. /\ to = start + Len(b) /\ to <= last /\ start \in Nat /\ Len(b) = head + value
            /\ head \in {2, 3} /\ value \in Nat
        BY <2>2, <2>4
      <4>2. total = from + last /\ last \in Nat /\ from \in Nat /\ slack \in {0, 1}
        BY <1>2, <1>6
      <4>3. (k # m => to + 2 <= last) /\ (k = m /\ slack = 1 => value # 0)
        BY <2>5, <2>6
      <4> HIDE DEF head, value, total, to
      <4> QED BY <4>1, <4>2, <4>3
    <3> HIDE DEF head, value, total, to
    <3>2. from + start + head + slack <= total
      BY <3>1
    <3> QED BY <3>2 DEF head, total
  <2> QED BY <2>7, <2>8 DEF b, start, t
<1>8. Written(p, tlvs, at, from, m, slack)
  BY <1>7 DEF Written
<1>9. w[from + at[m]] = End
  <2>1. from + at[m] = Len(p)
    BY <1>6
  <2>2. Len(p) \in from..Len(p)
    BY <1>2, <1>6
  <2> QED BY <1>3, <2>1, <2>2 DEF IsWalk, Walked
<1>10. m \in 0..m /\ 0 \in 0..m
  BY <1>4
<1>11. w[from + at[0]] = [ok |-> TRUE, tlvs |-> SubSeq(tlvs, 0 + 1, m)]
  <2>1. /\ m \in 0..Len(tlvs) /\ 0 \in 0..m
        /\ Starts(at, tlvs) /\ IsWalk(w, p, wide, from, slack)
        /\ Written(p, tlvs, at, from, m, slack) /\ slack \in Nat
    BY <1>1, <1>2, <1>3, <1>8, <1>10 DEF m
  <2>2. w[from + at[m]] = End =>
          \A k \in 0..m : w[from + at[k]] = [ok |-> TRUE, tlvs |-> SubSeq(tlvs, k + 1, m)]
    BY <2>1, ReadMany
  <2> QED BY <1>9, <2>1, <2>2
<1>12. SubSeq(tlvs, 0 + 1, m) = tlvs /\ from + at[0] = from
  BY <1>2, <1>5, SubSeqFull DEF m
<1> QED BY <1>3, <1>11, <1>12

\* A loop that comes upon an encoding whose last parameter is cut short fails.
LEMMA WalkFails ==
  ASSUME NEW p \in Seq(Byte), NEW wide \in SUBSET Byte, NEW tlvs \in Seq(Readable(wide)),
         tlvs # <<>>, NEW from \in 0..Len(p),
         NEW cut \in Nat \ {0}, cut < Len(TlvBytes(tlvs[Len(tlvs)])),
         Ends(p, from, tlvs, cut)
  PROVE  ~Walk(p, wide, from, 0).ok
<1>2. p \in Seq(Nat) /\ 0 \in Nat /\ Len(p) \in Nat /\ from \in Nat
  <2>1. Byte \subseteq Nat
    BY DEF Byte
  <2>2. p \in Seq(Nat)
    BY <2>1, SeqMonotonic
  <2> QED BY <2>2, LenProperties
<1>3. PICK w : IsWalk(w, p, wide, from, 0) /\ Walk(p, wide, from, 0) = w[from]
  <2>1. \A slack \in Nat :
          \E w : IsWalk(w, p, wide, from, slack) /\ Walk(p, wide, from, slack) = w[from]
    BY WalkExists
  <2>2. \E w : IsWalk(w, p, wide, from, 0) /\ Walk(p, wide, from, 0) = w[from]
    BY <1>2, <2>1
  <2> QED BY <2>2
<1> DEFINE m == Len(tlvs)  last == Len(Encode(tlvs))  t == tlvs[m]  b == TlvBytes(t)
<1>1. PICK at : /\ Starts(at, tlvs) /\ at[m] = last
                /\ \A k \in 1..m : \A x \in 1..Len(TlvBytes(tlvs[k])) :
                     Encode(tlvs)[at[k - 1] + x] = TlvBytes(tlvs[k])[x]
  BY EncodedAt
<1>4. /\ m \in Nat \ {0}
      /\ \A k \in 1..m : tlvs[k] \in Readable(wide) /\ Len(TlvBytes(tlvs[k])) \in Nat
      /\ \A j \in 0..m : \A k \in 0..j : at[k] <= at[j]
  BY <1>1, StartsRise, EmptySeq
<1>5. /\ at \in [0..m -> Nat] /\ at[0] = 0
      /\ \A k \in 1..m : at[k] = at[k - 1] + Len(TlvBytes(tlvs[k]))
  BY <1>1 DEF Starts
<1>6. /\ last \in Nat /\ Len(p) + cut = from + last /\ at[m] = last
      /\ \A x \in 1..(Len(p) - from) : p[from + x] = Encode(tlvs)[x]
      /\ cut < Len(b) /\ Len(b) \in Nat /\ cut \in Nat /\ cut > 0 /\ t \in Readable(wide)
      /\ b = TlvBytes(t)
  BY <1>1, <1>4, <1>5 DEF Ends
<1>7. \A x \in 1..Len(b) : Encode(tlvs)[at[m - 1] + x] = b[x]
  BY <1>1, <1>4
<1>8. /\ m - 1 \in 0..m /\ m \in 1..m /\ at[m - 1] \in Nat /\ at[m] = at[m - 1] + Len(b)
  <2>1. m - 1 \in 0..m /\ m \in 1..m
    BY <1>4
  <2> HIDE DEF m
  <2> QED BY <1>5, <2>1
<1> DEFINE start == at[m - 1]  head == Head3(t)  n == Len(t.value)
<1>9. start \in Nat /\ last = start + Len(b)
  BY <1>6, <1>8
<1>10. /\ Len(b) = head + n /\ n \in 0..252 /\ head \in {2, 3}
       /\ b[1] \in wide <=> t.tag > 255
       /\ b[head] = n
       /\ head = 3 <=> t.tag > 255
  <2>1. head \in {2, 3} /\ (head = 3 <=> t.tag > 255)
    BY DEF Head3
  <2>2. t \in Readable(wide)
    BY <1>6
  <2> HIDE DEF t
  <2>3. /\ Len(b) = Head3(t) + Len(t.value) /\ Len(t.value) \in 0..252
        /\ b[1] \in wide <=> t.tag > 255
        /\ b[Head3(t)] = Len(t.value)
    BY <2>2, TlvShape, ZenonT(40)
  <2> QED BY <2>1, <2>3
<1> HIDE DEF last, t, b, start, head, n
<1>11. Written(p, tlvs, at, from, m - 1, 0)
  <2> SUFFICES ASSUME NEW k \in 1..(m - 1)
               PROVE  /\ Stands(p, from + at[k - 1], TlvBytes(tlvs[k]))
                      /\ from + at[k - 1] + Head3(tlvs[k]) + 0 <= Len(p)
    BY DEF Written
  <2> DEFINE bk == TlvBytes(tlvs[k])  sk == at[k - 1]
             hk == Head3(tlvs[k])  nk == Len(tlvs[k].value)
  <2>1. k \in 1..m /\ k - 1 \in 0..m /\ k \in 0..(m - 1) /\ m - 1 \in 0..m
    BY <1>4
  <2>2. sk \in Nat /\ Len(bk) \in Nat /\ at[k] = sk + Len(bk) /\ at[k] <= start
        /\ tlvs[k] \in Readable(wide)
    BY <1>4, <1>5, <2>1 DEF start
  <2>3. Len(bk) = hk + nk /\ nk \in 0..252 /\ hk \in {2, 3}
    BY <2>2, TlvLength, Zenon
  <2>4. \A x \in 1..Len(bk) : Encode(tlvs)[sk + x] = bk[x]
    BY <1>1, <2>1
  <2> HIDE DEF bk, sk, hk, nk, m
  <2>5. from + start <= Len(p)
    BY <1>2, <1>6, <1>9
  <2>6. from + sk + Len(bk) <= Len(p)
    BY <1>2, <1>9, <2>2, <2>5
  <2>7. ASSUME NEW x \in 1..Len(bk) PROVE p[from + sk + x] = bk[x]
    <3>1. sk + x \in 1..(Len(p) - from) /\ from + (sk + x) = from + sk + x
      BY <1>2, <2>2, <2>6
    <3> QED BY <1>6, <2>4, <3>1
  <2>8. Stands(p, from + sk, bk)
    BY <2>6, <2>7 DEF Stands
  <2>9. from + sk + hk + 0 <= Len(p)
    BY <1>2, <2>2, <2>3, <2>6
  <2> QED BY <2>8, <2>9 DEF bk, sk, hk
<1> DEFINE i == from + start
<1>12. i \in from..Len(p) /\ i < Len(p) /\ i \in Nat /\ Len(p) < i + Len(b)
  BY <1>2, <1>6, <1>9
<1>13. \A x \in 1..(Len(p) - i) : At(p, i + x - 1) = b[x]
  <2> SUFFICES ASSUME NEW x \in 1..(Len(p) - i) PROVE At(p, i + x - 1) = b[x]
    OBVIOUS
  <2>1. i + x - 1 < Len(p) /\ i + x - 1 + 1 = from + (start + x) /\ start + x \in 1..(Len(p) - from)
        /\ x \in 1..Len(b)
    BY <1>2, <1>9, <1>12
  <2>2. p[from + (start + x)] = b[x]
    BY <1>6, <1>7, <2>1 DEF start
  <2> QED BY <2>1, <2>2 DEF At
<1> HIDE DEF i, m
<1>14. At(p, i) = b[1]
  <2>1. 1 \in 1..(Len(p) - i) /\ i + 1 - 1 = i
    BY <1>2, <1>12
  <2> QED BY <1>13, <2>1
<1>15. HeadAt(p, wide, i) = head
  BY <1>10, <1>14 DEF HeadAt
<1>16. i + head + 0 > Len(p) \/ NextAt(p, wide, i) > Len(p)
  <2> SUFFICES ASSUME i + head <= Len(p) PROVE NextAt(p, wide, i) > Len(p)
    BY <1>2, <1>10, <1>12
  <2>1. head \in 1..(Len(p) - i)
    BY <1>2, <1>10, <1>12
  <2>2. At(p, i + head - 1) = n
    BY <1>10, <1>13, <2>1
  <2>3. NextAt(p, wide, i) = i + head + n
    BY <1>15, <2>2 DEF NextAt
  <2>4. head \in Nat /\ n \in Nat /\ Len(b) = head + n
    BY <1>10
  <2> QED BY <1>2, <1>12, <2>3, <2>4
<1>17. ~w[i].ok
  <2>1. w[i] = Walked(w, p, wide, 0, i)
    BY <1>3, <1>12 DEF IsWalk
  <2>2. i # Len(p)
    BY <1>12
  <2>3. Walked(w, p, wide, 0, i) = Failure
    BY <1>15, <1>16, <2>2 DEF Walked
  <2> QED BY <2>1, <2>3 DEF Failure
<1>18. m - 1 \in 0..Len(tlvs) /\ 0 \in 0..(m - 1)
  BY <1>4 DEF m
<1>19. ~w[from + at[m - 1]].ok
  BY <1>17 DEF i, start
<1>20. ~w[from + at[0]].ok
  BY <1>1, <1>2, <1>3, <1>11, <1>18, <1>19, ReadMany
<1>21. from + at[0] = from
  BY <1>2, <1>5
<1> QED BY <1>3, <1>20, <1>21

-----------------------------------------------------------------------------
(* SESSION_SET_APP_CONFIG.                                                  *)

\* A configuration a command can hold.
Fits(tlvs) ==
  tlvs \in Seq(Readable(Extended)) /\ Len(Encode(tlvs)) < 4096 /\ Len(tlvs) < 256

LEMMA Extends == Extended \in SUBSET Byte
BY DEF Extended, Byte

LEMMA FitsParts ==
  ASSUME NEW tlvs, Fits(tlvs)
  PROVE  /\ Encode(tlvs) \in Seq(Byte) /\ Len(Encode(tlvs)) \in Nat /\ Len(Encode(tlvs)) < 4096
         /\ Len(tlvs) \in Byte
<1>1. tlvs \in Seq(Readable(Extended)) /\ Len(Encode(tlvs)) < 4096 /\ Len(tlvs) < 256
  BY DEF Fits
<1>2. Encode(tlvs) \in Seq(Byte)
  BY <1>1, Extends, Encoded
<1>3. Len(Encode(tlvs)) \in Nat
  BY <1>2, LenProperties
<1>4. Len(tlvs) \in Nat
  BY <1>1, LenProperties
<1> DEFINE n == Len(tlvs)
<1>5. n \in Nat /\ n < 256
  BY <1>1, <1>4
<1> HIDE DEF n
<1>6. n \in Byte
  BY <1>5 DEF Byte
<1> QED BY <1>1, <1>2, <1>3, <1>6 DEF n

\* The header, the session and the count of a command.
Opening(high, low, count) == <<33, 3>> \o <<high, low>> \o Session \o <<count>>

Opens(p, S, high, low, count) ==
  /\ p \in Seq(S) /\ Len(p) = 9
  /\ p[1] = 33 /\ p[2] = 3 /\ p[3] = high /\ p[4] = low /\ p[9] = count
  /\ \A x \in 1..4 : p[4 + x] = Session[x]

LEMMA OpeningParts ==
  ASSUME NEW S, Byte \subseteq S, NEW high \in S, NEW low \in S, NEW count \in S
  PROVE  Opens(Opening(high, low, count), S, high, low, count)
<1> DEFINE a == <<33, 3>>  b == <<high, low>>  n == <<count>>
           ab == a \o b  abs == ab \o Session  whole == abs \o n
<1>1. 33 \in S /\ 3 \in S /\ 1 \in S /\ 0 \in S
  BY DEF Byte
<1>2. /\ a \in Seq(S) /\ Len(a) = 2 /\ a[1] = 33 /\ a[2] = 3
      /\ b \in Seq(S) /\ Len(b) = 2 /\ b[1] = high /\ b[2] = low
      /\ n \in Seq(S) /\ Len(n) = 1 /\ n[1] = count
  BY <1>1
<1>3. Session \in Seq(S) /\ Len(Session) = 4
  BY <1>1 DEF Session
<1>4. Opening(high, low, count) = whole
  BY DEF Opening
<1>15. a \in Seq(S) /\ b \in Seq(S) /\ n \in Seq(S) /\ Session \in Seq(S)
  BY <1>2, <1>3
<1>16. ab = a \o b /\ abs = ab \o Session /\ whole = abs \o n
  OBVIOUS
<1> HIDE DEF a, b, n, ab, abs, whole
<1>5. /\ ab \in Seq(S) /\ Len(ab) = Len(a) + Len(b)
      /\ \A y \in 1..Len(a) : ab[y] = a[y]
      /\ \A x \in 1..Len(b) : ab[Len(a) + x] = b[x]
  BY <1>15, <1>16, ConcatParts
<1>17. /\ \A y \in 1..2 : ab[y] = a[y]
       /\ \A x \in 1..2 : ab[2 + x] = b[x]
  BY <1>2, <1>5
<1>6. Len(ab) = 4 /\ ab[1] = 33 /\ ab[2] = 3 /\ ab[3] = high /\ ab[4] = low
  BY <1>2, <1>5, <1>17
<1>7. /\ abs \in Seq(S) /\ Len(abs) = Len(ab) + Len(Session)
      /\ \A y \in 1..Len(ab) : abs[y] = ab[y]
      /\ \A x \in 1..Len(Session) : abs[Len(ab) + x] = Session[x]
  <2>1. ab \in Seq(S)
    BY <1>5
  <2> QED BY <1>15, <1>16, <2>1, ConcatParts
<1>18. /\ \A y \in 1..4 : abs[y] = ab[y]
       /\ \A x \in 1..4 : abs[4 + x] = Session[x]
  BY <1>3, <1>6, <1>7
<1>8. Len(abs) = 8 /\ abs[1] = 33 /\ abs[2] = 3 /\ abs[3] = high /\ abs[4] = low
  BY <1>3, <1>6, <1>7, <1>18
<1>9. /\ whole \in Seq(S) /\ Len(whole) = Len(abs) + Len(n)
      /\ \A y \in 1..Len(abs) : whole[y] = abs[y]
      /\ \A x \in 1..Len(n) : whole[Len(abs) + x] = n[x]
  <2>1. abs \in Seq(S)
    BY <1>7
  <2> QED BY <1>15, <1>16, <2>1, ConcatParts
<1>19. /\ \A y \in 1..8 : whole[y] = abs[y]
       /\ \A x \in 1..1 : whole[8 + x] = n[x]
  BY <1>2, <1>8, <1>9
<1>10. Len(whole) = 9 /\ whole[1] = 33 /\ whole[2] = 3 /\ whole[3] = high /\ whole[4] = low
       /\ whole[9] = count
  BY <1>2, <1>8, <1>9, <1>19
<1>11. \A x \in 1..4 : whole[4 + x] = Session[x]
  BY <1>18, <1>19
<1>14. whole \in Seq(S)
  BY <1>9
<1> QED BY <1>4, <1>10, <1>11, <1>14 DEF Opens

LEMMA Command ==
  ASSUME NEW tlvs, Len(Encode(tlvs)) \in Nat
  PROVE  SetAppConfig(tlvs, Session) =
           Opening((5 + Len(Encode(tlvs))) \div 256, (5 + Len(Encode(tlvs))) % 256, Len(tlvs))
             \o Encode(tlvs)
<1> DEFINE e == Encode(tlvs)
<1>1. Len(e) \in Nat
  OBVIOUS
<1>2. Len(Session) = 4
  BY DEF Session
<1>3. Len(Session) + 1 + Len(e) = 5 + Len(e)
  <2> HIDE DEF e
  <2> QED BY <1>1, <1>2
<1> QED BY <1>3, ZenonT(40) DEF SetAppConfig, Opening, e

\* The header of a command with these parameters says so.
Says(tlvs, high, low) ==
  /\ high = (5 + Len(Encode(tlvs))) \div 256
  /\ low = (5 + Len(Encode(tlvs))) % 256

Tells(p, S, tlvs, high, low) ==
  /\ p \in Seq(S) /\ Len(p) = 9 + Len(Encode(tlvs))
  /\ p[1] = 33 /\ p[2] = 3 /\ p[3] = high /\ p[4] = low /\ p[9] = Len(tlvs)
  /\ \A x \in 1..4 : p[4 + x] = Session[x]
  /\ \A x \in 1..Len(Encode(tlvs)) : p[9 + x] = Encode(tlvs)[x]

LEMMA CommandParts ==
  ASSUME NEW S, Byte \subseteq S, NEW tlvs, NEW high \in S, NEW low \in S,
         Encode(tlvs) \in Seq(Byte), Len(tlvs) \in S, Says(tlvs, high, low)
  PROVE  Tells(SetAppConfig(tlvs, Session), S, tlvs, high, low)
<1> DEFINE p == SetAppConfig(tlvs, Session)  e == Encode(tlvs)  n == Len(tlvs)
           h == Opening(high, low, n)
<1>1. e \in Seq(S) /\ n \in S
  BY SeqMonotonic
<1>2. Len(e) \in Nat
  BY LenProperties
<1>3. p = h \o e
  BY <1>2, Command DEF Says
<1> HIDE DEF e, n, p
<1>4. /\ h \in Seq(S) /\ Len(h) = 9
      /\ h[1] = 33 /\ h[2] = 3 /\ h[3] = high /\ h[4] = low /\ h[9] = n
      /\ \A x \in 1..4 : h[4 + x] = Session[x]
  <2>1. n \in S
    BY <1>1
  <2>2. Opens(h, S, high, low, n)
    BY <2>1, OpeningParts
  <2> QED BY <2>2 DEF Opens
<1> HIDE DEF h
<1>5. h \in Seq(S) /\ e \in Seq(S)
  BY <1>1, <1>4
<1>6. /\ p \in Seq(S) /\ Len(p) = Len(h) + Len(e)
      /\ \A y \in 1..Len(h) : p[y] = h[y]
      /\ \A x \in 1..Len(e) : p[Len(h) + x] = e[x]
  BY <1>3, <1>5, ConcatParts
<1>7. /\ p \in Seq(S) /\ Len(p) = 9 + Len(e)
      /\ \A y \in 1..9 : p[y] = h[y]
      /\ \A x \in 1..Len(e) : p[9 + x] = e[x]
  BY <1>4, <1>6
<1>8. p[1] = h[1] /\ p[2] = h[2] /\ p[3] = h[3] /\ p[4] = h[4] /\ p[9] = h[9]
  BY <1>7
<1>9. ASSUME NEW x \in 1..4 PROVE p[4 + x] = Session[x]
  <2>1. 4 + x \in 1..9 /\ h[4 + x] = Session[x]
    BY <1>4
  <2> QED BY <1>7, <2>1
<1> QED BY <1>4, <1>7, <1>8, <1>9 DEF p, e, n, Tells

LEMMA FittingParts ==
  ASSUME NEW tlvs, Fits(tlvs)
  PROVE  LET p == SetAppConfig(tlvs, Session) IN
         /\ p \in Seq(Byte) /\ Len(p) = 9 + Len(Encode(tlvs))
         /\ p[1] = 33 /\ p[2] = 3 /\ \A x \in 1..4 : p[4 + x] = Session[x]
         /\ p[4] + 256 * p[3] = 5 + Len(Encode(tlvs))
         /\ p[9] = Len(tlvs)
         /\ \A x \in 1..Len(Encode(tlvs)) : p[9 + x] = Encode(tlvs)[x]
<1> DEFINE p == SetAppConfig(tlvs, Session)  l == 5 + Len(Encode(tlvs))
<1>1. /\ Encode(tlvs) \in Seq(Byte) /\ Len(tlvs) \in Byte /\ Len(Encode(tlvs)) \in Nat
      /\ l \in Nat /\ l < 65536
  BY FitsParts
<1>2. PICK q, r \in Byte : q = l \div 256 /\ r = l % 256 /\ l = 256 * q + r
  <2>1. l \in Nat /\ l < 65536
    BY <1>1
  <2> HIDE DEF l
  <2> QED BY <2>1, Digits
<1>6. Says(tlvs, q, r)
  BY <1>2 DEF Says
<1>7. Encode(tlvs) \in Seq(Byte) /\ Len(tlvs) \in Byte /\ Byte \subseteq Byte
  BY <1>1
<1>3. /\ p \in Seq(Byte) /\ Len(p) = 9 + Len(Encode(tlvs))
      /\ p[1] = 33 /\ p[2] = 3 /\ p[3] = q /\ p[4] = r /\ p[9] = Len(tlvs)
      /\ \A x \in 1..4 : p[4 + x] = Session[x]
      /\ \A x \in 1..Len(Encode(tlvs)) : p[9 + x] = Encode(tlvs)[x]
  <2>1. Tells(p, Byte, tlvs, q, r)
    BY <1>6, <1>7, CommandParts
  <2> HIDE DEF p
  <2> QED BY <2>1 DEF Tells
<1>4. q \in Nat /\ r \in Nat
  BY DEF Byte
<1> HIDE DEF p
<1>5. r + 256 * q = l
  BY <1>2, <1>4
<1> QED BY <1>3, <1>5 DEF p

\* A command of as many parameters as may be: its length and what follows it.
Carries(p, tlvs) ==
  /\ p \in Seq(Nat) /\ Len(p) = 9 + Len(Encode(tlvs))
  /\ p[4] = (5 + Len(Encode(tlvs))) % 256
  /\ \A x \in 1..Len(Encode(tlvs)) : p[9 + x] = Encode(tlvs)[x]

LEMMA AnyCommand ==
  ASSUME NEW tlvs \in Seq(Readable(Extended))
  PROVE  Carries(SetAppConfig(tlvs, Session), tlvs)
<1> DEFINE l == 5 + Len(Encode(tlvs))  high == l \div 256  low == l % 256
           p == SetAppConfig(tlvs, Session)
<1>1. Encode(tlvs) \in Seq(Byte)
  BY Extends, Encoded
<1>2. Len(Encode(tlvs)) \in Nat
  BY <1>1, LenProperties
<1>3. Len(tlvs) \in Nat
  BY LenProperties
<1>4. high \in Nat /\ low \in Nat
  <2>1. l \in Nat
    BY <1>2
  <2> HIDE DEF l
  <2> QED BY <2>1
<1>5. Says(tlvs, high, low)
  BY DEF Says
<1>6. low = (5 + Len(Encode(tlvs))) % 256
  OBVIOUS
<1>7. Byte \subseteq Nat
  BY DEF Byte
<1> HIDE DEF high, low
<1>8. /\ p \in Seq(Nat) /\ Len(p) = 9 + Len(Encode(tlvs)) /\ p[4] = low
      /\ \A x \in 1..Len(Encode(tlvs)) : p[9 + x] = Encode(tlvs)[x]
  <2>1. Tells(p, Nat, tlvs, high, low)
    BY <1>1, <1>3, <1>4, <1>5, <1>7, CommandParts
  <2> HIDE DEF p
  <2> QED BY <2>1 DEF Tells
<1> HIDE DEF p
<1> QED BY <1>6, <1>8 DEF Carries, p

LEMMA WithoutKeeps ==
  ASSUME NEW S, NEW tlvs \in Seq(S), NEW tags
  PROVE  Without(tlvs, tags) \in Seq(S)
<1> DEFINE parts == [k \in DOMAIN tlvs |-> IF tlvs[k].tag \in tags THEN <<>> ELSE <<tlvs[k]>>]
<1>1. Len(tlvs) \in Nat /\ DOMAIN tlvs = 1..Len(tlvs)
  BY LenProperties
<1>2. ASSUME NEW k \in 1..Len(tlvs)
      PROVE  (IF tlvs[k].tag \in tags THEN <<>> ELSE <<tlvs[k]>>) \in Seq(S)
  <2>1. tlvs[k] \in S
    BY ElementOfSeq
  <2> DEFINE t == tlvs[k]
  <2> HIDE DEF t
  <2>2. <<t>> \in Seq(S) /\ <<>> \in Seq(S)
    BY <2>1 DEF t
  <2> QED BY <2>2 DEF t
<1>3. parts \in [1..Len(tlvs) -> Seq(S)]
  BY <1>1, <1>2
<1>4. Without(tlvs, tags) = FlattenSeq(parts)
  BY DEF Without
<1> HIDE DEF parts
<1>5. parts \in Seq(Seq(S))
  BY <1>1, <1>3
<1> QED BY <1>4, <1>5, Flat

Rebuilt(p, length, count, bytes) ==
  SubSeq(p, 1, 2) \o <<length \div 256, length % 256>> \o SubSeq(p, 5, 8) \o <<count>> \o bytes

\* What handlingVendorSpecificAppConfig makes of p, whose header says count and
\* length, once it has read and kept so many parameters, of so many bytes.
Stripped(p, count, length, read, kept, readBytes, keptBytes, bytes) ==
  IF count < read - kept \/ length - (readBytes - keptBytes) < 0 THEN p
  ELSE Rebuilt(p, length - (readBytes - keptBytes), count - (read - kept), bytes)

LEMMA StrippedIs ==
  ASSUME NEW p, NEW ek, NEW n \in Nat, NEW nk \in Nat, NEW le \in Nat, NEW lk \in Nat
  PROVE  Stripped(p, n, 5 + le, n, nk, le, lk, ek) = Rebuilt(p, 5 + lk, nk, ek)
<1>1. ~ (n < n - nk) /\ n - (n - nk) = nk /\ 5 + le - (le - lk) = 5 + lk /\ ~ (5 + lk < 0)
  OBVIOUS
<1> QED BY <1>1 DEF Stripped

LEMMA Handled ==
  ASSUME NEW p, NEW tlvs, Walk(p, Extended, 9, 0) = [ok |-> TRUE, tlvs |-> tlvs]
  PROVE  handlingVendorSpecificAppConfig(p) =
           Stripped(p, p[9], p[4] + 256 * p[3], Len(tlvs), Len(Without(tlvs, tags_to_del)),
                    Len(Encode(tlvs)), Len(Encode(Without(tlvs, tags_to_del))),
                    Encode(Without(tlvs, tags_to_del)))
<1> DEFINE read == Walk(p, Extended, 9, 0)
<1>1. handlingVendorSpecificAppConfig(p) =
        IF read.ok
        THEN Stripped(p, p[9], p[4] + 256 * p[3], Len(read.tlvs),
                      Len(Without(read.tlvs, tags_to_del)), Len(Encode(read.tlvs)),
                      Len(Encode(Without(read.tlvs, tags_to_del))),
                      Encode(Without(read.tlvs, tags_to_del)))
        ELSE p
  BY ZenonT(40) DEF handlingVendorSpecificAppConfig, Stripped, Rebuilt
<1>2. read.ok = TRUE /\ read.tlvs = tlvs
  OBVIOUS
<1> HIDE DEF read
<1> QED BY <1>1, <1>2

\* A whole command goes on as one without the parameters to be removed.
LEMMA Rewritten ==
  ASSUME NEW tlvs, Fits(tlvs)
  PROVE  handlingVendorSpecificAppConfig(SetAppConfig(tlvs, Session)) =
           SetAppConfig(Without(tlvs, tags_to_del), Session)
<1> DEFINE p == SetAppConfig(tlvs, Session)  e == Encode(tlvs)  n == Len(tlvs)
           kept == Without(tlvs, tags_to_del)  ek == Encode(kept)
<1>1. /\ p \in Seq(Byte) /\ Len(p) = 9 + Len(e)
      /\ p[1] = 33 /\ p[2] = 3 /\ \A x \in 1..4 : p[4 + x] = Session[x]
      /\ p[4] + 256 * p[3] = 5 + Len(e)
      /\ p[9] = n
      /\ \A x \in 1..Len(e) : p[9 + x] = e[x]
  BY FittingParts
<1>2. e \in Seq(Byte) /\ Len(e) \in Nat /\ n \in Byte
  BY FitsParts
<1>3. tlvs \in Seq(Readable(Extended))
  BY DEF Fits
<1>4. kept \in Seq(Readable(Extended))
  BY <1>3, WithoutKeeps
<1>5. ek \in Seq(Byte) /\ Len(ek) \in Nat /\ Len(kept) \in Nat
  <2>1. ek \in Seq(Byte)
    BY <1>4, Extends, Encoded
  <2>2. Len(ek) \in Nat
    BY <2>1, LenProperties
  <2>3. Len(kept) \in Nat
    BY <1>4, LenProperties
  <2> QED BY <2>1, <2>2, <2>3
<1>6. Walk(p, Extended, 9, 0) = [ok |-> TRUE, tlvs |-> tlvs]
  <2> HIDE DEF p
  <2>1. 9 \in 0..Len(p) /\ 0 \in 0..1 /\ Len(p) - 9 = Len(e) /\ Len(p) + 0 = 9 + Len(e)
    BY <1>1, <1>2
  <2>2. Ends(p, 9, tlvs, 0)
    BY <1>1, <2>1 DEF Ends
  <2>3. Extended \in SUBSET Byte
    BY Extends
  <2> QED BY <1>1, <1>3, <2>1, <2>2, <2>3, WalkReads, SMTT(30)
<1> DEFINE le == Len(e)  lk == Len(ek)  nk == Len(kept)
<1>7. handlingVendorSpecificAppConfig(p) = Stripped(p, p[9], p[4] + 256 * p[3], n, nk, le, lk, ek)
  BY <1>6, Handled
<1>13. /\ p[9] = n /\ p[4] + 256 * p[3] = 5 + le
       /\ le \in Nat /\ lk \in Nat /\ nk \in Nat /\ n \in Nat
  <2>1. n \in Nat
    BY <1>2 DEF Byte
  <2> HIDE DEF p, e, n, kept, ek
  <2> QED BY <1>1, <1>2, <1>5, <2>1
<1> HIDE DEF p, e, n, kept, ek, le, lk, nk
<1>8. handlingVendorSpecificAppConfig(p) = Rebuilt(p, 5 + lk, nk, ek)
  <2>1. handlingVendorSpecificAppConfig(p) = Stripped(p, n, 5 + le, n, nk, le, lk, ek)
    BY <1>7, <1>13
  <2> QED BY <1>13, <2>1, StrippedIs
<1>9. SubSeq(p, 1, 2) = <<33, 3>>
  <2> DEFINE s == SubSeq(p, 1, 2)  t == <<33, 3>>
  <2>1. t \in Seq(Byte) /\ Len(t) = 2 /\ t[1] = 33 /\ t[2] = 3
    BY DEF Byte
  <2>2. \A i \in 1..2 : p[i] \in Byte
    BY <1>1, <1>2, ElementOfSeq
  <2>3. s \in Seq(Byte) /\ Len(s) = 2 /\ \A i \in 1..2 : s[i] = p[i]
    BY <2>2, SubSeqProperties
  <2> HIDE DEF s, t
  <2>4. \A i \in 1..2 : s[i] = t[i]
    BY <1>1, <2>1, <2>3
  <2>5. Len(s) = Len(t)
    BY <2>1, <2>3
  <2>6. \A i \in 1..Len(s) : s[i] = t[i]
    BY <2>3, <2>4
  <2>7. s = t
    BY <2>1, <2>3, <2>5, <2>6, SeqEqual
  <2> QED BY <2>7 DEF s, t
<1>10. SubSeq(p, 5, 8) = Session
  <2> DEFINE s == SubSeq(p, 5, 8)
  <2>1. Session \in Seq(Byte) /\ Len(Session) = 4
    BY DEF Byte, Session
  <2>2. \A i \in 5..8 : p[i] \in Byte
    BY <1>1, <1>2, ElementOfSeq
  <2>3. s \in Seq(Byte) /\ Len(s) = 4 /\ \A i \in 1..4 : s[i] = p[5 + i - 1]
    BY <2>2, SubSeqProperties
  <2> HIDE DEF s
  <2>4. \A i \in 1..4 : s[i] = Session[i]
    <3>1. \A i \in 1..4 : 5 + i - 1 = 4 + i
      OBVIOUS
    <3> QED BY <1>1, <2>3, <3>1
  <2>5. Len(s) = Len(Session)
    BY <2>1, <2>3
  <2>6. \A i \in 1..Len(s) : s[i] = Session[i]
    BY <2>3, <2>4
  <2>7. s = Session
    BY <2>1, <2>3, <2>5, <2>6, SeqEqual
  <2> QED BY <2>7 DEF s
<1>11. handlingVendorSpecificAppConfig(p) =
         <<33, 3>> \o <<(5 + lk) \div 256, (5 + lk) % 256>> \o Session \o <<nk>> \o ek
  BY <1>8, <1>9, <1>10, ZenonT(40) DEF Rebuilt
<1>12. SetAppConfig(kept, Session) =
         <<33, 3>> \o <<(5 + lk) \div 256, (5 + lk) % 256>> \o Session \o <<nk>> \o ek
  <2>1. Len(Session) = 4
    BY DEF Session
  <2>2. Len(Session) + 1 + lk = 5 + lk
    BY <1>13, <2>1
  <2> QED BY <2>2, SMTT(30) DEF SetAppConfig, ek, lk, nk
<1> QED BY <1>11, <1>12 DEF p, kept

\* A command that is cut short goes on as it is.
LEMMA Untouched ==
  ASSUME NEW tlvs, Fits(tlvs), tlvs # <<>>, NEW cut \in Nat \ {0},
         cut < Len(TlvBytes(tlvs[Len(tlvs)]))
  PROVE  LET whole == SetAppConfig(tlvs, Session)
             short == SubSeq(whole, 1, Len(whole) - cut)
         IN  short \in Seq(Byte) /\ handlingVendorSpecificAppConfig(short) = short
<1> DEFINE whole == SetAppConfig(tlvs, Session)  e == Encode(tlvs)
           short == SubSeq(whole, 1, Len(whole) - cut)
<1>1. /\ whole \in Seq(Byte) /\ Len(whole) = 9 + Len(e)
      /\ \A x \in 1..Len(e) : whole[9 + x] = e[x]
  BY FittingParts
<1>2. e \in Seq(Byte) /\ Len(e) \in Nat
  BY FitsParts
<1>3. tlvs \in Seq(Readable(Extended))
  BY DEF Fits
<1>4. cut < Len(e)
  <2>1. PICK at : Starts(at, tlvs) /\ at[Len(tlvs)] = Len(e)
    BY <1>3, Extends, EncodedAt
  <2>2. Len(tlvs) \in Nat \ {0}
    BY <1>3, EmptySeq
  <2> DEFINE m == Len(tlvs)  last == TlvBytes(tlvs[m])
  <2>3. at \in [0..m -> Nat] /\ at[m] = at[m - 1] + Len(last) /\ at[m] = Len(e)
    BY <2>1, <2>2 DEF Starts
  <2>4. Len(last) \in Nat
    <3>1. tlvs[m] \in Readable(Extended)
      BY <1>3, <2>2, ElementOfSeq
    <3> QED BY <3>1, Extends, TlvLength, Zenon
  <2>5. m - 1 \in 0..m /\ cut < Len(last) /\ m \in Nat
    BY <2>2
  <2> HIDE DEF last, m
  <2>6. at[m - 1] \in Nat
    BY <2>3, <2>5
  <2> QED BY <2>3, <2>4, <2>5, <2>6
<1> HIDE DEF whole, e, short
<1>5. Len(whole) - cut \in 9..Len(whole) /\ Len(whole) \in Nat
  BY <1>1, <1>2, <1>4
<1>6. /\ short \in Seq(Byte) /\ Len(short) = Len(whole) - cut
      /\ \A i \in 1..(Len(whole) - cut) : short[i] = whole[i]
  <2> DEFINE to == Len(whole) - cut
  <2>1. to \in Nat /\ to >= 9
    BY <1>5
  <2>2. \A i \in 1..to : whole[i] \in Byte
    BY <1>1, <1>5, ElementOfSeq
  <2>3. short = SubSeq(whole, 1, to)
    BY DEF short
  <2> HIDE DEF to
  <2>4. /\ SubSeq(whole, 1, to) \in Seq(Byte)
        /\ Len(SubSeq(whole, 1, to)) = IF 1 <= to THEN to - 1 + 1 ELSE 0
        /\ \A i \in 1..(to - 1 + 1) : SubSeq(whole, 1, to)[i] = whole[1 + i - 1]
    BY <2>1, <2>2, SubSeqProperties
  <2>5. Len(short) = to /\ \A i \in 1..to : short[i] = whole[i]
    BY <2>1, <2>3, <2>4
  <2> QED BY <2>3, <2>4, <2>5 DEF to
<1>7. 9 \in 0..Len(short) /\ Len(short) + cut = 9 + Len(e) /\ Len(short) - 9 = Len(e) - cut
  BY <1>1, <1>2, <1>4, <1>5, <1>6
<1>8. ASSUME NEW x \in 1..(Len(short) - 9) PROVE short[9 + x] = e[x]
  <2>1. x \in 1..Len(e) /\ 9 + x \in 1..(Len(whole) - cut)
    BY <1>1, <1>2, <1>4, <1>7
  <2> QED BY <1>1, <1>6, <2>1
<1>9. Ends(short, 9, tlvs, cut)
  BY <1>7, <1>8 DEF Ends, e
<1>10. ~Walk(short, Extended, 9, 0).ok
  BY <1>3, <1>6, <1>7, <1>9, Extends, WalkFails
<1>11. handlingVendorSpecificAppConfig(short) = short
  BY <1>10 DEF handlingVendorSpecificAppConfig
<1> QED BY <1>6, <1>11 DEF whole, short

LEMMA Overwrites ==
  ASSUME NEW S, NEW buffer \in Seq(S), NEW p \in Seq(S)
  PROVE  /\ Overwrite(buffer, p) \in Seq(S)
         /\ SubSeq(Overwrite(buffer, p), 1, Len(p)) = p
         /\ Len(p) <= Len(Overwrite(buffer, p))
         /\ \A i \in 1..Len(p) : Overwrite(buffer, p)[i] = p[i]
<1> DEFINE rest == SubSeq(buffer, Len(p) + 1, Len(buffer))  whole == Overwrite(buffer, p)
<1>1. Len(p) \in Nat /\ Len(buffer) \in Nat
  BY LenProperties
<1>2. rest \in Seq(S)
  <2>1. Len(p) + 1 \in Int /\ Len(buffer) \in Int
    BY <1>1
  <2>2. \A i \in (Len(p) + 1)..Len(buffer) : buffer[i] \in S
    BY <1>1, ElementOfSeq
  <2> QED BY <2>1, <2>2, SubSeqProperties
<1>3. whole = p \o rest
  BY DEF Overwrite
<1> HIDE DEF rest, whole
<1>4. /\ whole \in Seq(S) /\ Len(rest) \in Nat /\ Len(whole) = Len(p) + Len(rest)
      /\ \A i \in 1..Len(p) : whole[i] = p[i]
  BY <1>2, <1>3, ConcatParts
<1>5. Len(p) <= Len(whole)
  BY <1>1, <1>4
<1> DEFINE s == SubSeq(whole, 1, Len(p))  n == Len(p)
<1>6. s = p
  <2>1. n \in Nat /\ n = Len(p)
    BY <1>1
  <2>2. \A i \in 1..n : whole[i] \in S
    BY <1>4, ElementOfSeq
  <2>3. s = SubSeq(whole, 1, n)
    OBVIOUS
  <2> HIDE DEF n, s
  <2>4. /\ SubSeq(whole, 1, n) \in Seq(S)
        /\ Len(SubSeq(whole, 1, n)) = IF 1 <= n THEN n - 1 + 1 ELSE 0
        /\ \A i \in 1..(n - 1 + 1) : SubSeq(whole, 1, n)[i] = whole[1 + i - 1]
    BY <2>1, <2>2, SubSeqProperties
  <2>5. s \in Seq(S) /\ Len(s) = n /\ \A i \in 1..n : s[i] = whole[i]
    BY <2>1, <2>3, <2>4
  <2>6. Len(s) = Len(p) /\ \A i \in 1..Len(s) : s[i] = p[i]
    BY <1>4, <2>1, <2>5
  <2> QED BY <2>5, <2>6, SeqEqual
<1> QED BY <1>4, <1>5, <1>6 DEF whole

LEMMA SentExactly ==
  ASSUME NEW config \in AppConfigs
  PROVE  LET command  == CutShort(config)
             stripped == handlingVendorSpecificAppConfig(command)
         IN  /\ command \in Seq(Nat) /\ stripped \in Seq(Nat)
             /\ config.cut = 0 =>
                  stripped = SetAppConfig(Without(config.tlvs, tags_to_del), Session)
             /\ config.cut # 0 => stripped = command
<1> DEFINE tlvs == config.tlvs  cut == config.cut  command == CutShort(config)
           stripped == handlingVendorSpecificAppConfig(command)
           whole == SetAppConfig(tlvs, Session)
<1>1. /\ Fits(tlvs) /\ cut \in Nat
      /\ cut > 0 => tlvs # <<>> /\ cut < Len(TlvBytes(tlvs[Len(tlvs)]))
  BY PacketAssumption DEF Fits, Last
<1>2. command = SubSeq(whole, 1, Len(whole) - cut)
  BY DEF CutShort
<1>3. Byte \subseteq Nat
  BY DEF Byte
<1>4. whole \in Seq(Byte) /\ Len(whole) \in Nat
  <2>1. whole \in Seq(Byte)
    BY <1>1, FittingParts
  <2> QED BY <2>1, LenProperties
<1>5. CASE cut = 0
  <2>1. command = whole
    <3>1. Len(whole) - cut = Len(whole)
      BY <1>4, <1>5
    <3>2. SubSeq(whole, 1, Len(whole)) = whole
      BY <1>4, SubSeqFull
    <3> QED BY <1>2, <3>1, <3>2
  <2>2. stripped = SetAppConfig(Without(tlvs, tags_to_del), Session)
    BY <1>1, <2>1, Rewritten
  <2>3. stripped \in Seq(Nat)
    <3>1. tlvs \in Seq(Readable(Extended))
      BY <1>1 DEF Fits
    <3>2. Without(tlvs, tags_to_del) \in Seq(Readable(Extended))
      BY <3>1, WithoutKeeps
    <3> QED BY <2>2, <3>2, AnyCommand DEF Carries
  <2>4. command \in Seq(Nat)
    BY <1>3, <1>4, <2>1, SeqMonotonic
  <2> QED BY <1>5, <2>2, <2>3, <2>4
<1>6. CASE cut # 0
  <2>1. cut \in Nat \ {0} /\ tlvs # <<>> /\ cut < Len(TlvBytes(tlvs[Len(tlvs)]))
    BY <1>1, <1>6
  <2>2. command \in Seq(Byte) /\ stripped = command
    BY <1>1, <1>2, <2>1, Untouched
  <2>3. command \in Seq(Nat)
    BY <1>3, <2>2, SeqMonotonic
  <2> QED BY <1>6, <2>2, <2>3
<1> QED BY <1>5, <1>6

-----------------------------------------------------------------------------
(* The loop for a blocked channel.                                          *)

\* A loop that may go round for ever still has a result.
Loop(f, D, go, hit, next) == f = [i \in D |-> (i \in go /\ (i \in hit \/ f[next[i]]))]

LEMMA LoopIsDefined ==
  ASSUME NEW D, NEW go, NEW hit, NEW next \in [D -> D]
  PROVE  \E f : Loop(f, D, go, hit, next)
<1> DEFINE Closed(X) == \A j \in X : j \in go /\ (j \in hit \/ next[j] \in X)
           G == {i \in D : \E X \in SUBSET D : i \in X /\ Closed(X)}
           f == [i \in D |-> i \in G]
<1>1. Closed(G) /\ G \subseteq D
  <2> SUFFICES ASSUME NEW j \in G PROVE j \in go /\ (j \in hit \/ next[j] \in G)
    OBVIOUS
  <2>1. PICK X \in SUBSET D : j \in X /\ Closed(X)
    OBVIOUS
  <2>2. j \in go /\ (j \in hit \/ next[j] \in X)
    BY <2>1
  <2>3. ASSUME next[j] \in X PROVE next[j] \in G
    BY <2>1, <2>3
  <2> QED BY <2>2, <2>3
<1>2. ASSUME NEW i \in D, i \in go, i \in hit \/ next[i] \in G PROVE i \in G
  <2> DEFINE X == G \cup {i}
  <2>1. X \in SUBSET D /\ i \in X
    BY <1>1
  <2>2. Closed(X)
    BY <1>1, <1>2
  <2> HIDE DEF X
  <2> QED BY <2>1, <2>2
<1> HIDE DEF G
<1>3. ASSUME NEW i \in D PROVE (i \in G) = (i \in go /\ (i \in hit \/ f[next[i]]))
  <2>1. next[i] \in D
    OBVIOUS
  <2>2. f[next[i]] = (next[i] \in G)
    BY <2>1
  <2>3. i \in G <=> (i \in go /\ (i \in hit \/ next[i] \in G))
    BY <1>1, <1>2
  <2> HIDE DEF f
  <2>4. f[next[i]] <=> next[i] \in G
    BY <2>2
  <2>5. i \in G <=> (i \in go /\ (i \in hit \/ f[next[i]]))
    BY <2>3, <2>4, Zenon
  <2> QED BY <2>5
<1>4. f = [i \in D |-> (i \in go /\ (i \in hit \/ f[next[i]]))]
  BY <1>3
<1> QED BY <1>4 DEF Loop

\* Where the loop of phNxpUciHal_parse goes from byte i of the buffer.
ScanLength(buffer) == (At(buffer, 3) + 4) % 256
AsksAt(buffer, i, denied) ==
  At(buffer, i) = CHANNEL_NUMBER /\ At(buffer, (i + 2) % 256) \in denied
ScanNext(buffer, i) == (((i + 2) % 256) + At(buffer, (i + 1) % 256)) % 256

IsScan(f, buffer, denied) ==
  \A i \in 0..255 :
    f[i] = (i < ScanLength(buffer) /\ (AsksAt(buffer, i, denied) \/ f[ScanNext(buffer, i)]))

LEMMA AtIsNumber ==
  ASSUME NEW p \in Seq(Nat), NEW i \in Nat
  PROVE  At(p, i) \in Nat
<1>1. Len(p) \in Nat
  BY LenProperties
<1>2. CASE i < Len(p)
  <2>1. i + 1 \in 1..Len(p)
    BY <1>1, <1>2
  <2> QED BY <1>2, <2>1, ElementOfSeq DEF At
<1>3. CASE ~ (i < Len(p))
  BY <1>3 DEF At
<1> QED BY <1>2, <1>3

LEMMA ScanIsDefined ==
  ASSUME NEW buffer \in Seq(Nat)
  PROVE  \E f : IsScan(f, buffer, restricted) /\ channelBlocked(buffer) = f[9]
<1> DEFINE D == 0..255
           len == ScanLength(buffer)
           go == {i \in D : i < len}
           hit == {i \in D : AsksAt(buffer, i, restricted)}
           next == [i \in D |-> ScanNext(buffer, i)]
           scan == CHOOSE f :
                     f = [i \in D |-> /\ i < len
                                      /\ AsksAt(buffer, i, restricted) \/ f[ScanNext(buffer, i)]]
<1>1. next \in [D -> D]
  <2> SUFFICES ASSUME NEW i \in D PROVE ScanNext(buffer, i) \in D
    OBVIOUS
  <2>1. (i + 2) % 256 \in Nat /\ (i + 1) % 256 \in Nat
    OBVIOUS
  <2>2. At(buffer, (i + 1) % 256) \in Nat
    BY <2>1, AtIsNumber
  <2>3. \A n \in Nat : n % 256 \in 0..255
    OBVIOUS
  <2>4. ((i + 2) % 256) + At(buffer, (i + 1) % 256) \in Nat
    BY <2>1, <2>2
  <2> QED BY <2>3, <2>4 DEF ScanNext
<1>2. PICK f : Loop(f, D, go, hit, next)
  <2> HIDE DEF D, go, hit, next
  <2> QED BY <1>1, LoopIsDefined
<1>3. f = [i \in D |-> /\ i < len
                       /\ AsksAt(buffer, i, restricted) \/ f[ScanNext(buffer, i)]]
  <2>1. ASSUME NEW i \in D
        PROVE  (i \in go /\ (i \in hit \/ f[next[i]])) =
                 (i < len /\ (AsksAt(buffer, i, restricted) \/ f[ScanNext(buffer, i)]))
    <3> HIDE DEF len, D
    <3> QED OBVIOUS
  <2> HIDE DEF len, D, go, hit, next
  <2> QED BY <1>2, <2>1 DEF Loop
<1>4. scan = [i \in D |-> /\ i < len
                          /\ AsksAt(buffer, i, restricted) \/ scan[ScanNext(buffer, i)]]
  <2> HIDE DEF len, D
  <2> QED BY <1>3
<1>5. channelBlocked(buffer) = scan[9]
  BY DEF channelBlocked, scan, len, D, ScanLength, AsksAt, ScanNext
<1> HIDE DEF scan
<1>6. IsScan(scan, buffer, restricted)
  BY <1>4 DEF IsScan
<1> QED BY <1>5, <1>6

Asks(t, denied) == t.tag = CHANNEL_NUMBER /\ t.value[1] \in denied

\* A parameter that the loop is right about.
Plain(t) == t.tag < 256 /\ (t.tag = CHANNEL_NUMBER => t.value # <<>>)

LEMMA ScanStep ==
  ASSUME NEW buffer \in Seq(Nat), NEW denied, NEW f, IsScan(f, buffer, denied),
         NEW t \in Readable(Extended), Plain(t), NEW i \in Nat,
         Stands(buffer, i, TlvBytes(t)), i + Len(TlvBytes(t)) < 256, i < ScanLength(buffer)
  PROVE  f[i] <=> (Asks(t, denied) \/ f[i + Len(TlvBytes(t))])
<1> DEFINE b == TlvBytes(t)  n == Len(t.value)  next == i + Len(b)  m == Len(buffer)
<1>1. /\ b \in Seq(Byte) /\ n \in 0..252 /\ t.value \in Seq(Byte)
      /\ Len(b) = Head3(t) + n
      /\ t.tag = IF t.tag > 255 THEN 256 * b[1] + b[2] ELSE b[1]
      /\ b[Head3(t)] = n
      /\ \A x \in 1..n : b[Head3(t) + x] = t.value[x]
  BY Extends, TlvShape, ZenonT(40)
<1>2. ~ (t.tag > 255)
  BY ReadableParts DEF Plain
<1>3. Head3(t) = 2
  BY <1>2 DEF Head3
<1>4. n \in Nat /\ Len(b) = 2 + n /\ t.tag = b[1] /\ b[2] = n /\ (n # 0 => b[3] = t.value[1])
  <2>1. n \in Nat /\ Len(b) = 2 + n /\ t.tag = b[1] /\ b[2] = n
    <3> HIDE DEF b, n
    <3>1. Len(b) = 2 + n /\ b[2] = n
      BY <1>1, <1>3, Zenon
    <3>2. t.tag = b[1]
      BY <1>1, <1>2, Zenon
    <3>3. n \in 0..252
      BY <1>1, Zenon
    <3> QED BY <3>1, <3>2, <3>3
  <2>2. ASSUME n # 0 PROVE b[3] = t.value[1]
    <3>1. 1 \in 1..n
      BY <2>1, <2>2
    <3>2. b[2 + 1] = t.value[1]
      BY <1>1, <1>3, <3>1
    <3> QED BY <3>2
  <2> QED BY <2>1, <2>2
<1>5. m \in Nat /\ next <= m /\ \A x \in 1..Len(b) : buffer[i + x] = b[x]
  BY LenProperties DEF Stands
<1>6. next < 256
  OBVIOUS
<1>7. t.tag = CHANNEL_NUMBER => n # 0
  BY <1>1, EmptySeq, ZenonT(40) DEF Plain
<1> HIDE DEF b, n, m
<1>8. next = i + 2 + n
  BY <1>4
<1>9. At(buffer, i) = t.tag /\ At(buffer, i + 1) = n /\ (n # 0 => At(buffer, i + 2) = t.value[1])
  <2>1. buffer[i + 1] = b[1] /\ buffer[i + 2] = b[2] /\ (n # 0 => buffer[i + 3] = b[3])
    <3>1. 1 \in 1..Len(b) /\ 2 \in 1..Len(b) /\ (n # 0 => 3 \in 1..Len(b))
      BY <1>4
    <3> QED BY <1>5, <3>1
  <2>2. i < m /\ i + 1 < m /\ (n # 0 => i + 2 < m)
    BY <1>4, <1>5, <1>8
  <2>3. i + 1 + 1 = i + 2 /\ i + 2 + 1 = i + 3
    OBVIOUS
  <2> QED BY <1>4, <2>1, <2>2, <2>3 DEF At, m
<1>10. (i + 2) % 256 = i + 2 /\ (i + 1) % 256 = i + 1 /\ next % 256 = next /\ i \in 0..255
       /\ i + 2 + n = next
  <2>1. next \in Nat /\ next < 256 /\ i + 2 \in Nat /\ i + 2 < 256 /\ i + 1 \in Nat /\ i + 1 < 256
        /\ i \in 0..255
    BY <1>4, <1>6, <1>8
  <2>2. \A x \in Nat : x < 256 => x % 256 = x
    OBVIOUS
  <2> HIDE DEF next
  <2> QED BY <1>8, <2>1, <2>2, SMTT(30)
<1>11. ScanNext(buffer, i) = next
  BY <1>9, <1>10 DEF ScanNext
<1>12. AsksAt(buffer, i, denied) <=> Asks(t, denied)
  BY <1>7, <1>9, <1>10 DEF AsksAt, Asks
<1>13. f[i] = (i < ScanLength(buffer) /\ (AsksAt(buffer, i, denied) \/ f[ScanNext(buffer, i)]))
  BY <1>10 DEF IsScan
<1>14. f[i] = (Asks(t, denied) \/ f[next])
  BY <1>11, <1>12, <1>13
<1> HIDE DEF next
<1> QED BY <1>14 DEF next, b

AllPlain(tlvs) == \A k \in 1..Len(tlvs) : Plain(tlvs[k])

\* The buffer begins with p, which fits the eight-bit length.
Covers(buffer, p) ==
  Len(p) < 256 /\ Len(p) <= Len(buffer) /\ \A i \in 1..Len(p) : buffer[i] = p[i]

\* When the buffer begins with a command whose parameters the loop can read, it
\* comes upon each of them and stops where they end.
LEMMA BlocksAsAsked ==
  ASSUME NEW buffer \in Seq(Nat), NEW tlvs \in Seq(Readable(Extended)), AllPlain(tlvs),
         NEW p, Carries(p, tlvs), Covers(buffer, p)
  PROVE  channelBlocked(buffer) <=> \E k \in 1..Len(tlvs) : Asks(tlvs[k], restricted)
<1> DEFINE m == Len(tlvs)  e == Len(Encode(tlvs))
<1>1. PICK at : /\ Starts(at, tlvs) /\ at[m] = e
                /\ \A k \in 1..m : \A x \in 1..Len(TlvBytes(tlvs[k])) :
                     Encode(tlvs)[at[k - 1] + x] = TlvBytes(tlvs[k])[x]
  BY Extends, EncodedAt
<1>2. PICK f : IsScan(f, buffer, restricted) /\ channelBlocked(buffer) = f[9]
  BY ScanIsDefined
<1>3. /\ m \in Nat
      /\ \A k \in 1..m : tlvs[k] \in Readable(Extended) /\ Len(TlvBytes(tlvs[k])) \in Nat
      /\ \A j \in 0..m : \A k \in 0..j : at[k] <= at[j]
  BY <1>1, Extends, StartsRise
<1>4. /\ at \in [0..m -> Nat] /\ at[0] = 0
      /\ \A k \in 1..m : at[k] = at[k - 1] + Len(TlvBytes(tlvs[k]))
  BY <1>1 DEF Starts
<1>5. e \in Nat /\ Len(p) = 9 + e /\ p[4] = (5 + e) % 256
      /\ \A x \in 1..e : p[9 + x] = Encode(tlvs)[x]
  <2>1. e \in Nat
    BY <1>1, <1>3, <1>4
  <2> QED BY <2>1 DEF Carries
<1>6. /\ 9 + e < 256 /\ Len(buffer) \in Nat /\ 9 + e <= Len(buffer)
      /\ \A i \in 1..(9 + e) : buffer[i] = p[i]
  BY <1>5, LenProperties DEF Covers
<1> HIDE DEF m, e
<1>7. ScanLength(buffer) = 9 + e
  <2>1. buffer[4] = p[4] /\ 3 < Len(buffer)
    BY <1>5, <1>6
  <2>2. \A x \in Nat : x < 256 => x % 256 = x
    OBVIOUS
  <2>3. 5 + e \in Nat /\ 5 + e < 256 /\ 9 + e \in Nat /\ 5 + e + 4 = 9 + e
    BY <1>5, <1>6
  <2>4. At(buffer, 3) = 5 + e
    BY <1>5, <2>1, <2>2, <2>3 DEF At
  <2>5. (5 + e + 4) % 256 = 9 + e
    BY <1>6, <2>2, <2>3
  <2> QED BY <2>4, <2>5 DEF ScanLength
<1>8. ASSUME NEW k \in 1..m
      PROVE  f[9 + at[k - 1]] <=> (Asks(tlvs[k], restricted) \/ f[9 + at[k]])
  <2> DEFINE t == tlvs[k]  b == TlvBytes(t)  start == at[k - 1]
  <2>1. k - 1 \in 0..m /\ k \in 0..m /\ m \in 0..m
    BY <1>3
  <2>2. /\ t \in Readable(Extended) /\ Len(b) \in Nat /\ start \in Nat
        /\ at[k] = start + Len(b) /\ at[k] <= e
    BY <1>1, <1>3, <1>4, <2>1 DEF m
  <2>3. Plain(t)
    BY DEF AllPlain, m
  <2>4. Len(b) > 0
    <3>1. t \in Readable(Extended)
      BY <2>2
    <3>2. Len(b) \in Nat /\ Len(b) >= 2
      BY <3>1, Extends, TlvLength, Zenon
    <3> HIDE DEF b
    <3> QED BY <3>2
  <2>5. \A x \in 1..Len(b) : Encode(tlvs)[start + x] = b[x]
    BY <1>1 DEF m
  <2> HIDE DEF t, b, start
  <2>6. ASSUME NEW x \in 1..Len(b) PROVE buffer[9 + start + x] = b[x]
    <3>1. start + x \in 1..e /\ 9 + (start + x) = 9 + start + x /\ 9 + (start + x) \in 1..(9 + e)
      BY <1>5, <2>2
    <3> QED BY <1>5, <1>6, <2>5, <3>1, ZenonT(40)
  <2>7. Stands(buffer, 9 + start, b)
    <3>1. 9 + start + Len(b) <= Len(buffer)
      BY <1>5, <1>6, <2>2
    <3> QED BY <2>6, <3>1 DEF Stands
  <2>8. 9 + start \in Nat /\ 9 + start + Len(b) < 256 /\ 9 + start < 9 + e
        /\ 9 + start + Len(b) = 9 + at[k]
    BY <1>5, <1>6, <2>2, <2>4
  <2>9. f[9 + start] <=> (Asks(t, restricted) \/ f[9 + start + Len(b)])
    <3> DEFINE i == 9 + start
    <3>1. i \in Nat /\ i + Len(b) < 256 /\ i < ScanLength(buffer) /\ Stands(buffer, i, b)
      BY <1>7, <2>7, <2>8
    <3> HIDE DEF i
    <3>2. f[i] <=> (Asks(t, restricted) \/ f[i + Len(b)])
      BY <1>2, <2>2, <2>3, <3>1, ScanStep DEF b
    <3> QED BY <3>2 DEF i
  <2> QED BY <2>8, <2>9 DEF t, start
<1>9. ~f[9 + at[m]]
  <2>1. 9 + e \in 0..255 /\ 9 + at[m] = 9 + e /\ ~ (9 + e < 9 + e)
    BY <1>1, <1>5, <1>6 DEF m
  <2>2. f[9 + e] = (/\ 9 + e < ScanLength(buffer)
                    /\ AsksAt(buffer, 9 + e, restricted) \/ f[ScanNext(buffer, 9 + e)])
    BY <1>2, <2>1 DEF IsScan
  <2> QED BY <1>7, <2>1, <2>2
<1> DEFINE Right(k) == f[9 + at[k]] <=> \E j \in (k + 1)..m : Asks(tlvs[j], restricted)
           Wrong == {d \in 0..m : ~Right(m - d)}
<1>10. Right(m)
  <2>1. (m + 1)..m = {}
    BY <1>3
  <2> QED BY <1>9, <2>1
<1>11. ASSUME NEW k \in 1..m, Right(k) PROVE Right(k - 1)
  <2>1. (k - 1 + 1)..m = {k} \cup (k + 1)..m
    BY <1>3
  <2>2. (\E j \in (k - 1 + 1)..m : Asks(tlvs[j], restricted)) <=>
          Asks(tlvs[k], restricted) \/ \E j \in (k + 1)..m : Asks(tlvs[j], restricted)
    BY <2>1
  <2> QED BY <1>8, <1>11, <2>2
<1> HIDE DEF Right
<1>12. Wrong = {}
  <2> SUFFICES ASSUME Wrong # {} PROVE FALSE
    OBVIOUS
  <2>1. PICK d \in Wrong : \A other \in Wrong : d <= other
    <3>1. Wrong \subseteq Nat
      OBVIOUS
    <3> HIDE DEF Wrong
    <3> QED BY <3>1, Least
  <2>2. d \in 0..m /\ ~Right(m - d)
    OBVIOUS
  <2>3. d # 0
    <3>1. m - 0 = m
      BY <1>3
    <3> QED BY <1>10, <2>2, <3>1
  <2>4. d - 1 \in 0..m /\ ~ (d <= d - 1) /\ m - (d - 1) \in 1..m /\ m - (d - 1) - 1 = m - d
    BY <1>3, <2>2, <2>3
  <2>5. Right(m - (d - 1))
    BY <2>1, <2>4
  <2>6. Right(m - (d - 1) - 1)
    BY <1>11, <2>4, <2>5
  <2> QED BY <2>2, <2>4, <2>6
<1>13. Right(0)
  <2>1. m \in 0..m /\ m - m = 0
    BY <1>3
  <2>2. Right(m - m)
    BY <1>12, <2>1
  <2> QED BY <2>1, <2>2
<1>14. f[9] <=> \E j \in 1..m : Asks(tlvs[j], restricted)
  <2>1. 9 + at[0] = 9 /\ 0 + 1 = 1
    BY <1>4
  <2> QED BY <1>13, <2>1 DEF Right
<1> QED BY <1>2, <1>14 DEF m

\* kept holds those of tlvs that "without" leaves.
Leaves(kept, tlvs, tags) ==
  /\ \A y \in 1..Len(kept) : \E k \in 1..Len(tlvs) : tlvs[k].tag \notin tags /\ kept[y] = tlvs[k]
  /\ \A k \in 1..Len(tlvs) :
       tlvs[k].tag \notin tags => \E y \in 1..Len(kept) : kept[y] = tlvs[k]

\* Each of kept is another one of tlvs.
Chosen(h, kept, tlvs) ==
  /\ h \in [1..Len(kept) -> 1..Len(tlvs)]
  /\ \A y, z \in 1..Len(kept) : h[y] = h[z] => y = z
  /\ \A y \in 1..Len(kept) : kept[y] = tlvs[h[y]]

LEMMA WithoutLeaves ==
  ASSUME NEW S, NEW tlvs \in Seq(S), NEW tags
  PROVE  /\ Leaves(Without(tlvs, tags), tlvs, tags)
         /\ \E h : Chosen(h, Without(tlvs, tags), tlvs)
<1> DEFINE n == Len(tlvs)
           parts == [k \in DOMAIN tlvs |-> IF tlvs[k].tag \in tags THEN <<>> ELSE <<tlvs[k]>>]
           kept == Without(tlvs, tags)
<1>1. n \in Nat /\ DOMAIN tlvs = 1..n
  BY LenProperties
<1>2. ASSUME NEW k \in 1..n
      PROVE  /\ parts[k] \in Seq(S)
             /\ tlvs[k].tag \in tags => Len(parts[k]) = 0
             /\ tlvs[k].tag \notin tags => Len(parts[k]) = 1 /\ parts[k][1] = tlvs[k]
  <2> DEFINE t == tlvs[k]
  <2>1. t \in S
    BY ElementOfSeq
  <2>2. parts[k] = IF t.tag \in tags THEN <<>> ELSE <<t>>
    BY <1>1
  <2> HIDE DEF t, parts
  <2>3. <<t>> \in Seq(S) /\ <<>> \in Seq(S) /\ Len(<<>>) = 0 /\ Len(<<t>>) = 1 /\ <<t>>[1] = t
    BY <2>1
  <2>4. CASE t.tag \in tags
    BY <2>2, <2>3, <2>4 DEF t
  <2>5. CASE t.tag \notin tags
    BY <2>2, <2>3, <2>5 DEF t
  <2> QED BY <2>4, <2>5
<1>3. parts \in Seq(Seq(S)) /\ Len(parts) = n
  <2>1. parts = [k \in 1..n |-> parts[k]]
    BY <1>1
  <2> HIDE DEF parts, n
  <2>2. parts \in [1..n -> Seq(S)]
    BY <1>2, <2>1
  <2> QED BY <1>1, <2>2
<1>4. kept = FlattenSeq(parts)
  BY DEF Without
<1> HIDE DEF parts, kept, n
<1>5. PICK at \in [0..n -> Nat] :
        /\ at[0] = 0 /\ at[n] = Len(kept)
        /\ \A k \in 1..n :
             /\ at[k] = at[k - 1] + Len(parts[k])
             /\ \A x \in 1..Len(parts[k]) : kept[at[k - 1] + x] = parts[k][x]
  <2>1. parts \in Seq(Seq(S))
    BY <1>3
  <2>2. \E at \in [0..Len(parts) -> Nat] :
          /\ at[0] = 0 /\ at[Len(parts)] = Len(FlattenSeq(parts))
          /\ \A k \in 1..Len(parts) :
               /\ at[k] = at[k - 1] + Len(parts[k])
               /\ \A x \in 1..Len(parts[k]) : FlattenSeq(parts)[at[k - 1] + x] = parts[k][x]
    BY <2>1, Flat
  <2> QED BY <1>3, <1>4, <2>2
<1>6. \A k \in 1..n : at[k - 1] \in Nat /\ at[k] \in Nat
  <2>1. \A k \in 1..n : k - 1 \in 0..n /\ k \in 0..n
    BY <1>1
  <2> QED BY <2>1
<1>7. ASSUME NEW y \in 1..Len(kept)
      PROVE  \E k \in 1..n : tlvs[k].tag \notin tags /\ kept[y] = tlvs[k] /\ at[k] = y
  <2> DEFINE Far == {k \in 0..n : y <= at[k]}
  <2>1. Far # {}
    <3>1. n \in 0..n /\ y <= at[n]
      BY <1>1, <1>5
    <3> QED BY <3>1
  <2>2. PICK k \in Far : \A other \in Far : k <= other
    <3>1. Far \subseteq Nat
      OBVIOUS
    <3> HIDE DEF Far
    <3> QED BY <2>1, <3>1, Least
  <2>3. k \in 0..n /\ y <= at[k] /\ y \in Nat /\ y > 0
    <3>1. Len(kept) \in Nat
      <4>1. n \in 0..n
        BY <1>1
      <4> QED BY <1>5, <4>1
    <3> QED BY <3>1
  <2>4. k # 0
    BY <1>5, <2>3
  <2>5. k \in 1..n /\ k - 1 \in 0..n /\ ~ (k <= k - 1)
    BY <1>1, <2>3, <2>4
  <2>6. ~ (y <= at[k - 1])
    BY <2>2, <2>5
  <2>7. at[k - 1] \in Nat /\ at[k] \in Nat /\ at[k] = at[k - 1] + Len(parts[k])
    BY <1>5, <1>6, <2>5
  <2>8. tlvs[k].tag \notin tags
    <3> SUFFICES ASSUME tlvs[k].tag \in tags PROVE FALSE
      OBVIOUS
    <3>1. Len(parts[k]) = 0
      BY <1>2, <2>5
    <3> QED BY <2>3, <2>6, <2>7, <3>1
  <2>9. Len(parts[k]) = 1 /\ parts[k][1] = tlvs[k]
    BY <1>2, <2>5, <2>8
  <2>10. y = at[k - 1] + 1 /\ at[k] = y
    BY <2>3, <2>6, <2>7, <2>9
  <2>11. 1 \in 1..Len(parts[k])
    BY <2>9
  <2>12. kept[at[k - 1] + 1] = parts[k][1]
    BY <1>5, <2>5, <2>11
  <2>13. kept[y] = tlvs[k]
    BY <2>9, <2>10, <2>12
  <2> QED BY <2>5, <2>8, <2>10, <2>13
<1>8. ASSUME NEW k \in 1..n, tlvs[k].tag \notin tags
      PROVE  \E y \in 1..Len(kept) : kept[y] = tlvs[k]
  <2>1. Len(parts[k]) = 1 /\ parts[k][1] = tlvs[k]
    BY <1>2, <1>8
  <2>2. 1 \in 1..Len(parts[k])
    BY <2>1
  <2>3. kept[at[k - 1] + 1] = tlvs[k]
    BY <1>5, <2>1, <2>2
  <2>4. at[k] = at[k - 1] + 1 /\ at[k - 1] \in Nat
    BY <1>5, <1>6, <2>1
  <2>5. at[k] <= at[n]
    <3>1. \A j \in 1..n : at[j - 1] <= at[j]
      <4> SUFFICES ASSUME NEW j \in 1..n PROVE at[j - 1] <= at[j]
        OBVIOUS
      <4>1. at[j] = at[j - 1] + Len(parts[j]) /\ at[j - 1] \in Nat
        BY <1>5, <1>6
      <4>2. Len(parts[j]) \in Nat
        BY <1>2, LenProperties
      <4> QED BY <4>1, <4>2
    <3>2. n \in 0..n /\ k \in 0..n
      BY <1>1
    <3> QED BY <1>1, <3>1, <3>2, Rising
  <2>6. at[k - 1] + 1 \in 1..Len(kept)
    <3>1. n \in 0..n
      BY <1>1
    <3>2. at[n] \in Nat
      BY <3>1
    <3> QED BY <1>5, <2>4, <2>5, <3>2
  <2> QED BY <2>3, <2>6
<1>9. Leaves(kept, tlvs, tags)
  BY <1>7, <1>8 DEF Leaves, n
<1> DEFINE h == [y \in 1..Len(kept) |-> CHOOSE k \in 1..n : kept[y] = tlvs[k] /\ at[k] = y]
<1>10. \A y \in 1..Len(kept) : h[y] \in 1..n /\ kept[y] = tlvs[h[y]] /\ at[h[y]] = y
  BY <1>7
<1>11. Chosen(h, kept, tlvs)
  <2>1. h = [y \in 1..Len(kept) |-> h[y]]
    OBVIOUS
  <2> HIDE DEF h
  <2> QED BY <1>10, <2>1 DEF Chosen, n
<1> HIDE DEF h
<1> QED BY <1>9, <1>11 DEF kept

\* What a command leaves in the buffer and what goes out of it: the command is
\* written over what earlier ones left, then written anew.
LEMMA WriteStep ==
  ASSUME p_cmd_data \in Seq(Nat), NEW config \in AppConfigs, WriteAppConfig(config)
  PROVE  LET command  == CutShort(config)
             stripped == handlingVendorSpecificAppConfig(command)
         IN  /\ p_cmd_data' \in Seq(Nat)
             /\ stripped \in Seq(Nat)
             /\ Len(stripped) <= Len(p_cmd_data')
             /\ \A i \in 1..Len(stripped) : p_cmd_data'[i] = stripped[i]
             /\ in' = [kind |-> "app config", tlvs |-> config.tlvs, cut |-> config.cut]
             /\ out'.bytes = stripped
             /\ out'.kind = IF channelBlocked(Overwrite(Overwrite(p_cmd_data, command), stripped))
                            THEN "blocked" ELSE "written"
             /\ p_cmd_data' = Overwrite(Overwrite(p_cmd_data, command), stripped)
             /\ restricted' = restricted
<1> DEFINE command  == CutShort(config)
           stripped == handlingVendorSpecificAppConfig(command)
           first    == Overwrite(p_cmd_data, command)
           buffer   == Overwrite(first, stripped)
<1>1. in' = [kind |-> "app config", tlvs |-> config.tlvs, cut |-> config.cut]
  BY Zenon DEF WriteAppConfig
<1>2. /\ out'.bytes = SubSeq(buffer, 1, Len(stripped)) /\ p_cmd_data' = buffer
      /\ out'.kind = IF channelBlocked(buffer) THEN "blocked" ELSE "written"
      /\ restricted' = restricted
  BY DEF WriteAppConfig, country
<1>3. command \in Seq(Nat) /\ stripped \in Seq(Nat)
  BY SentExactly
<1> HIDE DEF command, stripped, first, buffer
<1>4. first \in Seq(Nat)
  BY <1>3, Overwrites DEF first
<1>5. /\ buffer \in Seq(Nat) /\ SubSeq(buffer, 1, Len(stripped)) = stripped
      /\ Len(stripped) <= Len(buffer)
      /\ \A i \in 1..Len(stripped) : buffer[i] = stripped[i]
  BY <1>3, <1>4, Overwrites DEF buffer
<1>6. out'.bytes = stripped
  BY <1>2, <1>5
<1>7. buffer = Overwrite(Overwrite(p_cmd_data, command), stripped)
  BY DEF buffer, first
<1> QED BY <1>1, <1>2, <1>3, <1>5, <1>6, <1>7 DEF command, stripped

PacketInv == p_cmd_data \in Seq(Nat) /\ AppConfigExact

\* What goes to the chip of a SESSION_SET_APP_CONFIG is the command without the
\* parameters the firmware does not know, counted and with the right length, or,
\* when it is cut short, the command as it is (handlingVendorSpecificAppConfig),
\* for any parameters, whatever commands left in the buffer.
THEOREM AppConfigRewritten == Spec => []AppConfigExact
<1> USE DEF Nothing
<1>1. Init => PacketInv
  BY DEF Init, PacketInv, AppConfigExact
<1>2. PacketInv /\ [Next]_vars => PacketInv'
  <2> SUFFICES ASSUME PacketInv, [Next]_vars PROVE PacketInv'
    OBVIOUS
  <2>1. CASE \E config \in AppConfigs : WriteAppConfig(config)
    <3>1. PICK config \in AppConfigs : WriteAppConfig(config)
      BY <2>1
    <3> DEFINE command  == CutShort(config)
               stripped == handlingVendorSpecificAppConfig(command)
    <3>2. p_cmd_data \in Seq(Nat)
      BY DEF PacketInv
    <3>3. /\ p_cmd_data' \in Seq(Nat) /\ out'.bytes = stripped
          /\ in' = [kind |-> "app config", tlvs |-> config.tlvs, cut |-> config.cut]
      BY <3>1, <3>2, WriteStep
    <3>4. /\ config.cut = 0 =>
               stripped = SetAppConfig(Without(config.tlvs, tags_to_del), Session)
          /\ config.cut # 0 => stripped = command
      BY SentExactly
    <3>5. in'.tlvs = config.tlvs /\ in'.cut = config.cut /\ command = CutShort(in')
      BY <3>3 DEF CutShort
    <3> HIDE DEF command, stripped
    <3>6. AppConfigExact'
      BY <3>3, <3>4, <3>5 DEF AppConfigExact
    <3> QED BY <3>3, <3>6 DEF PacketInv
  <2>2. CASE \E channels \in SUBSET {5, 9} : SetCountry(channels)
    <3>1. in'.kind = "none" /\ p_cmd_data' = p_cmd_data
      BY <2>2 DEF SetCountry
    <3> QED BY <3>1 DEF PacketInv, AppConfigExact
  <2>3. CASE \E block \in AntennaBlocks : parseAntennaConfig(block)
    BY <2>3 DEF parseAntennaConfig, PacketInv, AppConfigExact
  <2>4. CASE \E status \in 0..1 : ReadCaps(status)
    <3>1. in'.kind = "caps" /\ p_cmd_data' = p_cmd_data
      BY <2>4 DEF ReadCaps
    <3> QED BY <3>1 DEF PacketInv, AppConfigExact
  <2>5. CASE \E items \in Refusals : ReadSetConfig(items)
    <3>1. PICK items \in Refusals : ReadSetConfig(items)
      BY <2>5
    <3>2. in' = [kind |-> "set config", items |-> items] /\ p_cmd_data' = p_cmd_data
      BY <3>1, Zenon DEF ReadSetConfig
    <3>3. in'.kind # "app config"
      BY <3>2
    <3> QED BY <3>2, <3>3 DEF PacketInv, AppConfigExact
  <2>6. CASE UNCHANGED vars
    BY <2>6 DEF vars, PacketInv, AppConfigExact
  <2> QED BY <2>1, <2>2, <2>3, <2>4, <2>5, <2>6 DEF Next
<1>3. PacketInv => AppConfigExact
  BY DEF PacketInv
<1> QED BY <1>1, <1>2, <1>3, PTL DEF Spec

BlockInv == p_cmd_data \in Seq(Nat) /\ BlockedExactly

\* A SESSION_SET_APP_CONFIG of one-byte tags that fits the eight-bit length is
\* blocked exactly when it asks for a channel the country denies, whatever
\* commands left in the buffer (phNxpUciHal_parse): any parameters, any number.
THEOREM BlockedAsAsked == Spec => []BlockedExactly
<1> USE DEF Nothing
<1>1. Init => BlockInv
  BY DEF Init, BlockInv, BlockedExactly
<1>2. BlockInv /\ [Next]_vars => BlockInv'
  <2> SUFFICES ASSUME BlockInv, [Next]_vars PROVE BlockInv'
    OBVIOUS
  <2>1. CASE \E config \in AppConfigs : WriteAppConfig(config)
    <3>1. PICK config \in AppConfigs : WriteAppConfig(config)
      BY <2>1
    <3> DEFINE command  == CutShort(config)
               stripped == handlingVendorSpecificAppConfig(command)
               buffer   == Overwrite(Overwrite(p_cmd_data, command), stripped)
               tlvs     == config.tlvs
               kept     == Without(tlvs, tags_to_del)
    <3>2. p_cmd_data \in Seq(Nat)
      BY DEF BlockInv
    <3>3. /\ p_cmd_data' = buffer /\ buffer \in Seq(Nat) /\ stripped \in Seq(Nat)
          /\ Len(stripped) <= Len(buffer) /\ \A i \in 1..Len(stripped) : buffer[i] = stripped[i]
          /\ in' = [kind |-> "app config", tlvs |-> tlvs, cut |-> config.cut]
          /\ out'.bytes = stripped
          /\ out'.kind = IF channelBlocked(buffer) THEN "blocked" ELSE "written"
          /\ restricted' = restricted
      BY <3>1, <3>2, WriteStep
    <3>4. /\ tlvs \in Seq(Readable(Extended))
          /\ \A k \in DOMAIN tlvs : tlvs[k].tag = CHANNEL_NUMBER => tlvs[k].value # <<>>
      BY PacketAssumption
    <3>5. config.cut = 0 => stripped = SetAppConfig(kept, Session)
      BY SentExactly
    <3>6. DOMAIN tlvs = 1..Len(tlvs)
      BY <3>4, LenProperties
    <3>7. kept \in Seq(Readable(Extended)) /\ Leaves(kept, tlvs, tags_to_del)
      BY <3>4, WithoutKeeps, WithoutLeaves
    <3>8. CHANNEL_NUMBER \notin tags_to_del
      BY DEF CHANNEL_NUMBER, tags_to_del
    <3> HIDE DEF command, stripped, buffer, tlvs, kept
    <3>9. ASSUME config.cut = 0, Len(stripped) < 256, \A k \in DOMAIN tlvs : tlvs[k].tag < 256
          PROVE  channelBlocked(buffer) <=> \E k \in DOMAIN tlvs : Asks(tlvs[k], restricted)
      <4>1. AllPlain(kept)
        <5> SUFFICES ASSUME NEW y \in 1..Len(kept) PROVE Plain(kept[y])
          BY DEF AllPlain
        <5>1. PICK k \in 1..Len(tlvs) : kept[y] = tlvs[k]
          BY <3>7 DEF Leaves
        <5> QED BY <3>4, <3>6, <3>9, <5>1 DEF Plain
      <4>2. Carries(stripped, kept)
        BY <3>5, <3>7, <3>9, AnyCommand
      <4>3. Covers(buffer, stripped)
        BY <3>3, <3>9 DEF Covers
      <4>4. channelBlocked(buffer) <=> \E y \in 1..Len(kept) : Asks(kept[y], restricted)
        BY <3>3, <3>7, <4>1, <4>2, <4>3, BlocksAsAsked
      <4>5. ASSUME NEW y \in 1..Len(kept), Asks(kept[y], restricted)
            PROVE  \E k \in DOMAIN tlvs : Asks(tlvs[k], restricted)
        <5>1. PICK k \in 1..Len(tlvs) : kept[y] = tlvs[k]
          BY <3>7 DEF Leaves
        <5> QED BY <3>6, <4>5, <5>1
      <4>6. ASSUME NEW k \in DOMAIN tlvs, Asks(tlvs[k], restricted)
            PROVE  \E y \in 1..Len(kept) : Asks(kept[y], restricted)
        <5>1. tlvs[k].tag \notin tags_to_del
          BY <3>8, <4>6 DEF Asks
        <5>2. PICK y \in 1..Len(kept) : kept[y] = tlvs[k]
          BY <3>6, <3>7, <5>1 DEF Leaves
        <5> QED BY <4>6, <5>2
      <4> QED BY <4>4, <4>5, <4>6
    <3>10. in'.tlvs = tlvs /\ in'.cut = config.cut
      BY <3>3
    <3>11. out'.kind = "blocked" <=> channelBlocked(buffer)
      BY <3>3
    <3>12. BlockedExactly'
      <4> SUFFICES ASSUME config.cut = 0, Len(stripped) < 256,
                          \A k \in DOMAIN tlvs : tlvs[k].tag < 256
                   PROVE  channelBlocked(buffer)
                            <=> \E k \in DOMAIN tlvs : Asks(tlvs[k], restricted)
        BY <3>3, <3>10, <3>11 DEF BlockedExactly, Asks
      <4> QED BY <3>9
    <3> QED BY <3>3, <3>12 DEF BlockInv
  <2>2. CASE \E channels \in SUBSET {5, 9} : SetCountry(channels)
    <3>1. in'.kind = "none" /\ p_cmd_data' = p_cmd_data
      BY <2>2 DEF SetCountry
    <3> QED BY <3>1 DEF BlockInv, BlockedExactly
  <2>3. CASE \E block \in AntennaBlocks : parseAntennaConfig(block)
    BY <2>3 DEF parseAntennaConfig, BlockInv, BlockedExactly, country
  <2>4. CASE \E status \in 0..1 : ReadCaps(status)
    <3>1. in'.kind = "caps" /\ p_cmd_data' = p_cmd_data
      BY <2>4 DEF ReadCaps
    <3> QED BY <3>1 DEF BlockInv, BlockedExactly
  <2>5. CASE \E items \in Refusals : ReadSetConfig(items)
    <3>1. PICK items \in Refusals : ReadSetConfig(items)
      BY <2>5
    <3>2. in' = [kind |-> "set config", items |-> items] /\ p_cmd_data' = p_cmd_data
      BY <3>1, Zenon DEF ReadSetConfig
    <3>3. in'.kind # "app config"
      BY <3>2
    <3> QED BY <3>2, <3>3 DEF BlockInv, BlockedExactly
  <2>6. CASE UNCHANGED vars
    BY <2>6 DEF vars, country, BlockInv, BlockedExactly
  <2> QED BY <2>1, <2>2, <2>3, <2>4, <2>5, <2>6 DEF Next
<1>3. BlockInv => BlockedExactly
  BY DEF BlockInv
<1> QED BY <1>1, <1>2, <1>3, PTL DEF Spec

-----------------------------------------------------------------------------
(* How long encodings are.                                                  *)

\* Parameter k of one is as long as parameter k of the other.
AsLong(a, b) ==
  /\ Len(a) = Len(b)
  /\ \A k \in 1..Len(a) : Len(TlvBytes(a[k])) = Len(TlvBytes(b[k]))

LEMMA SameStarts ==
  ASSUME NEW a, NEW b, Len(a) \in Nat, AsLong(a, b),
         NEW at, Starts(at, a), NEW bt, Starts(bt, b)
  PROVE  \A k \in 0..Len(a) : at[k] = bt[k]
<1> DEFINE n == Len(a)  Off == {k \in 0..n : at[k] # bt[k]}
<1>1. /\ at[0] = 0 /\ bt[0] = 0 /\ n \in Nat
      /\ \A k \in 1..n : at[k] = at[k - 1] + Len(TlvBytes(a[k]))
      /\ \A k \in 1..n : bt[k] = bt[k - 1] + Len(TlvBytes(a[k]))
  BY DEF Starts, AsLong
<1>2. Off = {}
  <2> SUFFICES ASSUME Off # {} PROVE FALSE
    OBVIOUS
  <2>1. PICK k \in Off : \A other \in Off : k <= other
    <3>1. Off \subseteq Nat
      OBVIOUS
    <3> HIDE DEF Off
    <3> QED BY <3>1, Least
  <2>2. k \in 0..n /\ at[k] # bt[k]
    OBVIOUS
  <2>3. k # 0
    BY <1>1, <2>2
  <2>4. k \in 1..n /\ k - 1 \in 0..n /\ ~ (k <= k - 1)
    BY <1>1, <2>2, <2>3
  <2>5. at[k - 1] = bt[k - 1]
    BY <2>1, <2>4
  <2> QED BY <1>1, <2>2, <2>4, <2>5
<1> QED BY <1>2

LEMMA AlikeLength ==
  ASSUME NEW wide \in SUBSET Byte, NEW other \in SUBSET Byte,
         NEW a \in Seq(Readable(wide)), NEW b \in Seq(Readable(other)), AsLong(a, b)
  PROVE  Len(Encode(a)) = Len(Encode(b))
<1>1. PICK at : Starts(at, a) /\ at[Len(a)] = Len(Encode(a))
  BY EncodedAt
<1>2. PICK bt : Starts(bt, b) /\ bt[Len(b)] = Len(Encode(b))
  BY EncodedAt
<1>3. Len(a) \in Nat /\ Len(a) = Len(b)
  BY LenProperties DEF AsLong
<1>4. at[Len(a)] = bt[Len(a)]
  <2>1. \A k \in 0..Len(a) : at[k] = bt[k]
    BY <1>1, <1>2, <1>3, SameStarts
  <2>2. Len(a) \in 0..Len(a)
    BY <1>3
  <2> QED BY <2>1, <2>2
<1> QED BY <1>1, <1>2, <1>3, <1>4

LEMMA ConcatLength ==
  ASSUME NEW wide \in SUBSET Byte, NEW a \in Seq(Readable(wide)), NEW b \in Seq(Readable(wide))
  PROVE  Len(Encode(a \o b)) = Len(Encode(a)) + Len(Encode(b))
<1> DEFINE c == a \o b  m == Len(a)  n == Len(b)
<1>1. /\ c \in Seq(Readable(wide)) /\ m \in Nat /\ n \in Nat /\ Len(c) = m + n
      /\ \A y \in 1..m : c[y] = a[y]
      /\ \A x \in 1..n : c[m + x] = b[x]
  BY ConcatParts
<1> HIDE DEF c
<1>2. PICK at : Starts(at, a) /\ at[Len(a)] = Len(Encode(a))
  BY EncodedAt
<1>3. PICK bt : Starts(bt, b) /\ bt[Len(b)] = Len(Encode(b))
  BY EncodedAt
<1>4. PICK ct : Starts(ct, c) /\ ct[Len(c)] = Len(Encode(c))
  BY <1>1, EncodedAt
<1>5. /\ ct[0] = 0 /\ ct \in [0..(m + n) -> Nat]
      /\ \A k \in 1..(m + n) : ct[k] = ct[k - 1] + Len(TlvBytes(c[k]))
  BY <1>1, <1>4 DEF Starts
<1> DEFINE first == [k \in 0..m |-> ct[k]]
           second == [k \in 0..n |-> ct[m + k] - ct[m]]
<1> HIDE DEF m, n
<1>6. Starts(first, a)
  <2>1. first \in [0..m -> Nat] /\ first[0] = 0
    BY <1>1, <1>5
  <2>2. ASSUME NEW k \in 1..m PROVE first[k] = first[k - 1] + Len(TlvBytes(a[k]))
    <3>1. k \in 1..(m + n) /\ k \in 0..m /\ k - 1 \in 0..m
      BY <1>1
    <3>2. c[k] = a[k]
      BY <1>1
    <3> QED BY <1>5, <3>1, <3>2
  <2> HIDE DEF first
  <2> QED BY <2>1, <2>2 DEF Starts, m
<1>7. ct[m] \in Nat /\ \A k \in 0..n : m + k \in 0..(m + n) /\ ct[m + k] \in Nat
  <2>1. \A k \in 0..n : m + k \in 0..(m + n)
    BY <1>1
  <2>2. m \in 0..(m + n)
    BY <1>1
  <2> QED BY <1>5, <2>1, <2>2
<1>8. \A k \in 1..n : ct[m + k] = ct[m + (k - 1)] + Len(TlvBytes(b[k]))
  <2> SUFFICES ASSUME NEW k \in 1..n PROVE ct[m + k] = ct[m + (k - 1)] + Len(TlvBytes(b[k]))
    OBVIOUS
  <2> DEFINE i == m + k
  <2>1. i \in 1..(m + n) /\ i - 1 = m + (k - 1)
    BY <1>1
  <2>2. c[i] = b[k]
    BY <1>1
  <2> HIDE DEF i
  <2>3. ct[i] = ct[i - 1] + Len(TlvBytes(c[i]))
    BY <1>5, <2>1
  <2>4. ct[i] = ct[m + (k - 1)] + Len(TlvBytes(b[k]))
    BY <2>1, <2>2, <2>3
  <2> QED BY <2>4 DEF i
<1>9. \A k \in 1..n : Len(TlvBytes(b[k])) \in Nat
  BY <1>3, StartsRise DEF n
<1>10. Starts(second, b)
  <2> DEFINE Below == {k \in 0..n : ~ (ct[m] <= ct[m + k])}
  <2>1. Below = {}
    <3> SUFFICES ASSUME Below # {} PROVE FALSE
      OBVIOUS
    <3>1. PICK k \in Below : \A other \in Below : k <= other
      <4>1. Below \subseteq Nat
        OBVIOUS
      <4> HIDE DEF Below
      <4> QED BY <4>1, Least
    <3>2. k \in 0..n /\ ~ (ct[m] <= ct[m + k])
      OBVIOUS
    <3>3. k # 0
      <4>1. m + 0 = m
        BY <1>1
      <4> QED BY <1>7, <3>2, <4>1
    <3>4. k \in 1..n /\ k - 1 \in 0..n /\ ~ (k <= k - 1)
      BY <1>1, <3>2, <3>3
    <3>5. ct[m] <= ct[m + (k - 1)]
      BY <3>1, <3>4
    <3> QED BY <1>7, <1>8, <1>9, <3>2, <3>4, <3>5
  <2>2. second \in [0..n -> Nat]
    <3> SUFFICES ASSUME NEW k \in 0..n PROVE ct[m + k] - ct[m] \in Nat
      OBVIOUS
    <3>1. ct[m] <= ct[m + k]
      BY <2>1
    <3> QED BY <1>7, <3>1
  <2>3. second[0] = 0
    <3>1. m + 0 = m /\ 0 \in 0..n
      BY <1>1
    <3> QED BY <1>7, <3>1
  <2>4. ASSUME NEW k \in 1..n PROVE second[k] = second[k - 1] + Len(TlvBytes(b[k]))
    <3>1. k \in 0..n /\ k - 1 \in 0..n
      BY <1>1
    <3>2. second[k] = ct[m + k] - ct[m] /\ second[k - 1] = ct[m + (k - 1)] - ct[m]
      BY <3>1
    <3> HIDE DEF second
    <3> QED BY <1>7, <1>8, <1>9, <3>1, <3>2
  <2> HIDE DEF second
  <2> QED BY <2>2, <2>3, <2>4 DEF Starts, n
<1>11. AsLong(a, a) /\ AsLong(b, b)
  BY DEF AsLong
<1>12. first[m] = at[m]
  <2>1. \A k \in 0..Len(a) : first[k] = at[k]
    <3> HIDE DEF first
    <3> QED BY <1>1, <1>2, <1>6, <1>11, SameStarts DEF m
  <2>2. m \in 0..Len(a)
    BY <1>1 DEF m
  <2> QED BY <2>1, <2>2
<1>13. second[n] = bt[n]
  <2>1. \A k \in 0..Len(b) : second[k] = bt[k]
    <3> HIDE DEF second
    <3> QED BY <1>1, <1>3, <1>10, <1>11, SameStarts DEF n
  <2>2. n \in 0..Len(b)
    BY <1>1 DEF n
  <2> QED BY <2>1, <2>2
<1>14. ct[m] = at[m] /\ ct[m + n] - ct[m] = bt[n]
  <2>1. m \in 0..m /\ n \in 0..n
    BY <1>1
  <2> QED BY <1>12, <1>13, <2>1
<1>15. ct[m + n] \in Nat /\ ct[m] \in Nat
  <2>1. n \in 0..n
    BY <1>1
  <2> QED BY <1>7, <2>1
<1>16. ct[m + n] = at[m] + bt[n]
  BY <1>14, <1>15
<1> QED BY <1>1, <1>2, <1>3, <1>4, <1>16 DEF m, n, c

\* Where position x of an encoding is: in parameter k, after so many bytes.
LEMMA Within ==
  ASSUME NEW n \in Nat, NEW at \in [0..n -> Nat], at[0] = 0, NEW x \in 1..at[n]
  PROVE  \E k \in 1..n : at[k - 1] < x /\ x <= at[k]
<1> DEFINE Far == {k \in 0..n : x <= at[k]}
<1>1. at[n] \in Nat /\ x \in Nat /\ 0 < x /\ x <= at[n] /\ n \in 0..n
  OBVIOUS
<1>2. PICK k \in Far : \A other \in Far : k <= other
  <2>1. Far \subseteq Nat
    OBVIOUS
  <2>2. Far # {}
    BY <1>1
  <2> HIDE DEF Far
  <2> QED BY <2>1, <2>2, Least
<1>3. k \in 0..n /\ x <= at[k]
  OBVIOUS
<1>4. k # 0
  BY <1>1, <1>3
<1>5. k \in 1..n /\ k - 1 \in 0..n /\ ~ (k <= k - 1)
  BY <1>3, <1>4
<1>6. ~ (x <= at[k - 1])
  BY <1>2, <1>5
<1>7. at[k - 1] \in Nat
  BY <1>5
<1> QED BY <1>1, <1>3, <1>5, <1>6, <1>7

\* Every parameter of one is, at its own place, one as long of the other.
Picks(h, a, b) ==
  /\ h \in [1..Len(a) -> 1..Len(b)]
  /\ \A j, k \in 1..Len(a) : h[j] = h[k] => j = k
  /\ \A k \in 1..Len(a) : Len(TlvBytes(a[k])) = Len(TlvBytes(b[h[k]]))

LEMMA NotLonger ==
  ASSUME NEW wide \in SUBSET Byte, NEW other \in SUBSET Byte,
         NEW a \in Seq(Readable(wide)), NEW b \in Seq(Readable(other)), NEW h, Picks(h, a, b)
  PROVE  Len(Encode(a)) <= Len(Encode(b))
<1> DEFINE m == Len(a)  n == Len(b)  la == Len(Encode(a))  lb == Len(Encode(b))
<1>1. PICK at : Starts(at, a) /\ at[Len(a)] = Len(Encode(a))
  BY EncodedAt
<1>2. PICK bt : Starts(bt, b) /\ bt[Len(b)] = Len(Encode(b))
  BY EncodedAt
<1>3. /\ m \in Nat /\ n \in Nat /\ la \in Nat /\ lb \in Nat /\ at[m] = la /\ bt[n] = lb
  <2>1. m \in Nat /\ n \in Nat
    BY LenProperties
  <2>2. Encode(a) \in Seq(Byte) /\ Encode(b) \in Seq(Byte)
    BY Encoded
  <2> QED BY <1>1, <1>2, <2>1, <2>2, LenProperties
<1>4. /\ at \in [0..m -> Nat] /\ at[0] = 0 /\ bt \in [0..n -> Nat] /\ bt[0] = 0
      /\ \A k \in 1..m : at[k] = at[k - 1] + Len(TlvBytes(a[k]))
      /\ \A k \in 1..n : bt[k] = bt[k - 1] + Len(TlvBytes(b[k]))
  BY <1>1, <1>2 DEF Starts
<1>5. /\ \A j \in 0..m : \A k \in 0..j : at[k] <= at[j]
      /\ \A j \in 0..n : \A k \in 0..j : bt[k] <= bt[j]
  BY <1>1, <1>2, StartsRise
<1>6. /\ h \in [1..m -> 1..n]
      /\ \A j, k \in 1..m : h[j] = h[k] => j = k
      /\ \A k \in 1..m : Len(TlvBytes(a[k])) = Len(TlvBytes(b[h[k]]))
  BY DEF Picks
<1> DEFINE In(x, k) == k \in 1..m /\ at[k - 1] < x /\ x <= at[k]
           home == [x \in 1..la |-> CHOOSE k \in 1..m : at[k - 1] < x /\ x <= at[k]]
           move == [x \in 1..la |-> bt[h[home[x]] - 1] + (x - at[home[x] - 1])]
<1> HIDE DEF m, n, la, lb
<1>7. ASSUME NEW x \in 1..la PROVE In(x, home[x])
  <2>1. \E k \in 1..m : at[k - 1] < x /\ x <= at[k]
    BY <1>3, <1>4, Within
  <2> QED BY <2>1
<1> HIDE DEF home
<1>8. ASSUME NEW k \in 1..m
      PROVE  /\ h[k] \in 1..n /\ at[k - 1] \in Nat /\ at[k] \in Nat
             /\ bt[h[k] - 1] \in Nat /\ bt[h[k]] \in Nat
             /\ bt[h[k]] - bt[h[k] - 1] = at[k] - at[k - 1]
             /\ bt[h[k]] <= lb
  <2>1. h[k] \in 1..n /\ h[k] \in 0..n /\ h[k] - 1 \in 0..n /\ k \in 0..m /\ k - 1 \in 0..m
    BY <1>3, <1>6
  <2>2. at[k - 1] \in Nat /\ at[k] \in Nat /\ bt[h[k] - 1] \in Nat /\ bt[h[k]] \in Nat
    BY <1>4, <2>1
  <2>3. bt[h[k]] <= lb
    <3>1. n \in 0..n /\ h[k] \in 0..n
      BY <1>3, <2>1
    <3> QED BY <1>3, <1>5, <3>1
  <2>4. Len(TlvBytes(a[k])) \in Nat
    BY <1>1, StartsRise DEF m
  <2>5. /\ at[k] = at[k - 1] + Len(TlvBytes(a[k]))
        /\ bt[h[k]] = bt[h[k] - 1] + Len(TlvBytes(a[k]))
    BY <1>4, <1>6, <2>1
  <2> QED BY <2>1, <2>2, <2>3, <2>4, <2>5, SMTT(30)
<1>9. ASSUME NEW x \in 1..la
      PROVE  LET k == home[x] IN
             /\ move[x] = bt[h[k] - 1] + (x - at[k - 1])
             /\ move[x] \in Nat /\ bt[h[k] - 1] < move[x] /\ move[x] <= bt[h[k]]
             /\ move[x] \in 1..lb
  <2> DEFINE k == home[x]  y == move[x]
  <2>1. k \in 1..m /\ at[k - 1] < x /\ x <= at[k]
    BY <1>7
  <2>2. y = bt[h[k] - 1] + (x - at[k - 1])
    OBVIOUS
  <2> HIDE DEF k, y
  <2>3. x \in Nat /\ x > 0
    BY <1>3
  <2>4. y \in Nat /\ bt[h[k] - 1] < y /\ y <= bt[h[k]]
    <3> DEFINE first == bt[h[k] - 1]  last == bt[h[k]]  start == at[k - 1]  end == at[k]
    <3>1. /\ first \in Nat /\ last \in Nat /\ start \in Nat /\ end \in Nat
          /\ last - first = end - start
      BY <1>8, <2>1
    <3>2. start < x /\ x <= end /\ y = first + (x - start)
      BY <2>1, <2>2
    <3> HIDE DEF first, last, start, end
    <3>3. y \in Nat /\ first < y /\ y <= last
      BY <2>3, <3>1, <3>2
    <3> QED BY <3>3 DEF first, last
  <2>5. y \in 1..lb
    BY <1>3, <1>8, <2>1, <2>4
  <2> QED BY <2>2, <2>4, <2>5 DEF k, y
<1>10. ASSUME NEW x \in 1..la, NEW z \in 1..la, move[x] = move[z] PROVE x = z
  <2> DEFINE j == home[x]  k == home[z]
  <2>1. /\ move[x] = bt[h[j] - 1] + (x - at[j - 1]) /\ move[x] \in Nat
        /\ bt[h[j] - 1] < move[x] /\ move[x] <= bt[h[j]]
        /\ move[z] = bt[h[k] - 1] + (z - at[k - 1])
        /\ bt[h[k] - 1] < move[z] /\ move[z] <= bt[h[k]]
    BY <1>9
  <2>2. j \in 1..m /\ k \in 1..m
    BY <1>7
  <2> HIDE DEF j, k, move
  <2>3. h[j] \in 1..n /\ h[k] \in 1..n
    BY <1>8, <2>2
  <2>4. h[j] = h[k]
    <3>1. \A u, v \in 1..n : u < v => bt[u] <= bt[v - 1] /\ bt[u] \in Nat /\ bt[v - 1] \in Nat
      <4> SUFFICES ASSUME NEW u \in 1..n, NEW v \in 1..n, u < v
                   PROVE  bt[u] <= bt[v - 1] /\ bt[u] \in Nat /\ bt[v - 1] \in Nat
        OBVIOUS
      <4>1. v - 1 \in 0..n /\ u \in 0..(v - 1) /\ u \in 0..n
        BY <1>3
      <4> QED BY <1>4, <1>5, <4>1
    <3>2. ~ (h[j] < h[k])
      <4> SUFFICES ASSUME h[j] < h[k] PROVE FALSE
        OBVIOUS
      <4>1. bt[h[j]] <= bt[h[k] - 1] /\ bt[h[j]] \in Nat /\ bt[h[k] - 1] \in Nat
        BY <2>3, <3>1
      <4> QED BY <1>10, <2>1, <4>1
    <3>3. ~ (h[k] < h[j])
      <4> SUFFICES ASSUME h[k] < h[j] PROVE FALSE
        OBVIOUS
      <4>1. bt[h[k]] <= bt[h[j] - 1] /\ bt[h[k]] \in Nat /\ bt[h[j] - 1] \in Nat
        BY <2>3, <3>1
      <4> QED BY <1>10, <2>1, <4>1
    <3> QED BY <2>3, <3>2, <3>3
  <2>5. j = k
    BY <1>6, <2>2, <2>4
  <2>6. at[j - 1] \in Nat /\ bt[h[j] - 1] \in Nat /\ x \in Nat /\ z \in Nat
    BY <1>3, <1>8, <2>2
  <2> DEFINE first == bt[h[j] - 1]  start == at[j - 1]
  <2>7. first + (x - start) = first + (z - start)
    BY <1>10, <2>1, <2>5
  <2>8. start \in Nat /\ first \in Nat
    BY <2>6
  <2> HIDE DEF first, start
  <2> QED BY <2>6, <2>7, <2>8
<1>11. move \in Injection(1..la, 1..lb)
  <2>1. move \in [1..la -> 1..lb]
    <3>1. \A x \in 1..la : bt[h[home[x]] - 1] + (x - at[home[x] - 1]) \in 1..lb
      BY <1>9
    <3> QED BY <3>1
  <2> HIDE DEF move
  <2> QED BY <1>10, <2>1 DEF Injection, IsInjective
<1>12. IsFiniteSet(1..lb) /\ Cardinality(1..lb) = lb /\ Cardinality(1..la) = la
  BY <1>3, FS_Interval
<1>13. Cardinality(1..la) <= Cardinality(1..lb)
  <2> HIDE DEF move
  <2> QED BY <1>11, <1>12, FS_Injection
<1> QED BY <1>12, <1>13 DEF la, lb

\* A parameter has two bytes or more.
LEMMA FewerThanBytes ==
  ASSUME NEW wide \in SUBSET Byte, NEW tlvs \in Seq(Readable(wide))
  PROVE  Len(tlvs) \in Nat /\ Len(Encode(tlvs)) \in Nat /\ Len(tlvs) <= Len(Encode(tlvs))
<1> DEFINE n == Len(tlvs)
<1>1. PICK at : Starts(at, tlvs) /\ at[n] = Len(Encode(tlvs))
  BY EncodedAt
<1>2. /\ at \in [0..n -> Nat] /\ at[0] = 0
      /\ \A k \in 1..n : at[k] = at[k - 1] + Len(TlvBytes(tlvs[k]))
  BY <1>1 DEF Starts
<1>3. n \in Nat
  BY LenProperties
<1>4. \A k \in 1..n : Len(TlvBytes(tlvs[k])) \in Nat /\ Len(TlvBytes(tlvs[k])) >= 2
  <2> SUFFICES ASSUME NEW k \in 1..n
               PROVE  Len(TlvBytes(tlvs[k])) \in Nat /\ Len(TlvBytes(tlvs[k])) >= 2
    OBVIOUS
  <2>1. tlvs[k] \in Readable(wide)
    BY ElementOfSeq
  <2> QED BY <2>1, TlvLength, Zenon
<1> DEFINE Few == {k \in 0..n : ~ (k <= at[k])}
<1> HIDE DEF n
<1>5. Few = {}
  <2> SUFFICES ASSUME Few # {} PROVE FALSE
    OBVIOUS
  <2>1. PICK k \in Few : \A other \in Few : k <= other
    <3>1. Few \subseteq Nat
      BY <1>3
    <3> HIDE DEF Few
    <3> QED BY <3>1, Least
  <2>2. k \in 0..n /\ ~ (k <= at[k])
    OBVIOUS
  <2>3. k # 0
    BY <1>2, <2>2
  <2>4. k \in 1..n /\ k - 1 \in 0..n /\ ~ (k <= k - 1)
    BY <1>3, <2>2, <2>3
  <2>5. k - 1 <= at[k - 1] /\ at[k - 1] \in Nat
    BY <1>2, <2>1, <2>4
  <2> DEFINE more == Len(TlvBytes(tlvs[k]))  here == at[k]  before == at[k - 1]
  <2>6. more \in Nat /\ more >= 2 /\ here = before + more
    BY <1>2, <1>4, <2>4
  <2>7. k - 1 <= before /\ before \in Nat /\ ~ (k <= here) /\ k \in Nat
    BY <1>3, <2>2, <2>5
  <2> HIDE DEF more, here, before
  <2> QED BY <2>6, <2>7
<1>6. n \in 0..n /\ at[n] \in Nat
  BY <1>2, <1>3
<1>7. n <= at[n]
  BY <1>5, <1>6
<1> QED BY <1>1, <1>3, <1>6, <1>7 DEF n

\* No tag comes twice.
Distinct(tlvs) == \A j, k \in 1..Len(tlvs) : tlvs[j].tag = tlvs[k].tag => j = k

\* What is left without some tags is no longer, and no tag comes twice.
LEMMA WithoutShortens ==
  ASSUME NEW wide \in SUBSET Byte, NEW other \in SUBSET Byte,
         NEW tlvs \in Seq(Readable(wide)), NEW tags,
         NEW kept \in Seq(Readable(other)), kept = Without(tlvs, tags), Distinct(tlvs)
  PROVE  Len(Encode(kept)) <= Len(Encode(tlvs)) /\ Len(kept) <= Len(tlvs) /\ Distinct(kept)
<1>1. PICK h : Chosen(h, kept, tlvs)
  BY WithoutLeaves
<1>2. Picks(h, kept, tlvs)
  BY <1>1 DEF Chosen, Picks
<1>3. Len(Encode(kept)) <= Len(Encode(tlvs))
  BY <1>2, NotLonger
<1>4. Distinct(kept)
  <2> SUFFICES ASSUME NEW j \in 1..Len(kept), NEW k \in 1..Len(kept), kept[j].tag = kept[k].tag
               PROVE  j = k
    BY DEF Distinct
  <2>1. h[j] \in 1..Len(tlvs) /\ h[k] \in 1..Len(tlvs)
        /\ tlvs[h[j]].tag = tlvs[h[k]].tag
    BY <1>1 DEF Chosen
  <2>2. h[j] = h[k]
    BY <2>1 DEF Distinct
  <2> QED BY <1>1, <2>2 DEF Chosen
<1>5. Len(kept) <= Len(tlvs)
  <2> DEFINE m == Len(kept)  n == Len(tlvs)
  <2>1. m \in Nat /\ n \in Nat
    BY LenProperties
  <2>2. h \in Injection(1..m, 1..n)
    BY <1>1 DEF Chosen, Injection, IsInjective
  <2> HIDE DEF m, n
  <2>3. IsFiniteSet(1..n) /\ Cardinality(1..n) = n /\ Cardinality(1..m) = m
    BY <2>1, FS_Interval
  <2>4. Cardinality(1..m) <= Cardinality(1..n)
    BY <2>2, <2>3, FS_Injection
  <2> QED BY <2>3, <2>4 DEF m, n
<1> QED BY <1>3, <1>4, <1>5

-----------------------------------------------------------------------------
(* Maps of tags.                                                            *)

Below(S, t) == {other \in S : other < t}

\* The k-th of a set of numbers is the one that has k - 1 below it.
LEMMA Ranked ==
  ASSUME NEW S \in SUBSET Nat, IsFiniteSet(S)
  PROVE  /\ \A k \in 1..Cardinality(S) : \E t \in S : Cardinality(Below(S, t)) = k - 1
         /\ \A t, u \in S : Cardinality(Below(S, t)) = Cardinality(Below(S, u)) => t = u
         /\ \A t \in S : Cardinality(Below(S, t)) + 1 \in 1..Cardinality(S)
<1> DEFINE n == Cardinality(S)
<1>1. n \in Nat
  BY FS_CardinalityType
<1>2. ASSUME NEW t \in S
      PROVE  /\ IsFiniteSet(Below(S, t)) /\ Cardinality(Below(S, t)) \in Nat
             /\ Cardinality(Below(S, t)) < n
  <2>1. Below(S, t) \in SUBSET S /\ t \notin Below(S, t)
    BY DEF Below
  <2>2. IsFiniteSet(Below(S, t)) /\ Cardinality(Below(S, t)) <= n /\ Cardinality(Below(S, t)) # n
    BY <2>1, FS_Subset
  <2>3. Cardinality(Below(S, t)) \in Nat
    BY <2>2, FS_CardinalityType
  <2> QED BY <1>1, <2>2, <2>3
<1>3. ASSUME NEW t \in S, NEW u \in S, t < u
      PROVE  Cardinality(Below(S, t)) < Cardinality(Below(S, u))
  <2>1. Below(S, t) \in SUBSET Below(S, u) /\ t \in Below(S, u) /\ t \notin Below(S, t)
    <3>1. t \in Nat /\ u \in Nat /\ \A other \in S : other \in Nat
      OBVIOUS
    <3>2. (\A other \in S : other < t => other < u) /\ ~ (t < t)
      BY <1>3, <3>1
    <3> QED BY <1>3, <3>2, Zenon DEF Below
  <2>2. /\ Cardinality(Below(S, t)) <= Cardinality(Below(S, u))
        /\ Cardinality(Below(S, t)) # Cardinality(Below(S, u))
    BY <1>2, <2>1, FS_Subset
  <2>3. Cardinality(Below(S, t)) \in Nat /\ Cardinality(Below(S, u)) \in Nat
    BY <1>2
  <2> QED BY <2>2, <2>3
<1>4. ASSUME NEW t \in S, NEW u \in S, Cardinality(Below(S, t)) = Cardinality(Below(S, u))
      PROVE  t = u
  <2>1. ~ (t < u) /\ ~ (u < t)
    BY <1>2, <1>3, <1>4
  <2> QED BY <2>1
<1> DEFINE rank == [t \in S |-> Cardinality(Below(S, t)) + 1]
<1> HIDE DEF n
<1>5. \A t \in S : rank[t] = Cardinality(Below(S, t)) + 1 /\ rank[t] \in 1..n
  BY <1>1, <1>2
<1>6. rank \in Injection(S, 1..n)
  <2>1. rank \in [S -> 1..n]
    <3>1. rank = [t \in S |-> rank[t]]
      OBVIOUS
    <3> HIDE DEF rank
    <3> QED BY <1>5, <3>1
  <2>2. \A t, u \in S : rank[t] = rank[u] => t = u
    <3> HIDE DEF rank
    <3> QED BY <1>2, <1>4, <1>5
  <2> HIDE DEF rank
  <2> QED BY <2>1, <2>2 DEF Injection, IsInjective
<1>7. IsFiniteSet(1..n) /\ Cardinality(1..n) = n
  BY <1>1, FS_Interval
<1>8. rank \in Surjection(S, 1..n)
  <2> HIDE DEF rank
  <2> QED BY <1>6, <1>7, FS_Injection DEF n
<1>9. ASSUME NEW k \in 1..n PROVE \E t \in S : Cardinality(Below(S, t)) = k - 1
  <2>1. PICK t \in S : rank[t] = k
    <3> HIDE DEF rank
    <3> QED BY <1>8 DEF Surjection
  <2>2. Cardinality(Below(S, t)) + 1 = k
    BY <1>5, <2>1
  <2>3. Cardinality(Below(S, t)) = k - 1
    BY <1>2, <2>2
  <2> QED BY <2>3
<1> QED BY <1>4, <1>5, <1>9 DEF n

\* tlvs holds what the map has, once each.
Lists(tlvs, map) ==
  /\ Len(tlvs) = Cardinality(DOMAIN map)
  /\ \A k \in 1..Len(tlvs) : /\ tlvs[k].tag \in DOMAIN map
                             /\ tlvs[k] = Tlv(tlvs[k].tag, map[tlvs[k].tag])
  /\ \A t \in DOMAIN map : \E k \in 1..Len(tlvs) : tlvs[k].tag = t
  /\ Distinct(tlvs)

LEMMA OrderLists ==
  ASSUME NEW map, DOMAIN map \in SUBSET Nat, IsFiniteSet(DOMAIN map), NEW S,
         \A t \in DOMAIN map : Tlv(t, map[t]) \in S
  PROVE  InOrder(map) \in Seq(S) /\ Lists(InOrder(map), map)
<1> DEFINE tags == DOMAIN map  n == Cardinality(tags)
           at(k) == CHOOSE tag \in tags : Cardinality({other \in tags : other < tag}) = k - 1
           tlvs == [k \in 1..n |-> Tlv(at(k), map[at(k)])]
<1>1. InOrder(map) = tlvs
  BY DEF InOrder
<1> HIDE DEF tags
<1>2. /\ \A k \in 1..n : \E t \in tags : Cardinality(Below(tags, t)) = k - 1
      /\ \A t, u \in tags : Cardinality(Below(tags, t)) = Cardinality(Below(tags, u)) => t = u
      /\ \A t \in tags : Cardinality(Below(tags, t)) + 1 \in 1..n
      /\ n \in Nat
  BY Ranked, FS_CardinalityType DEF tags
<1>3. ASSUME NEW k \in 1..n PROVE at(k) \in tags /\ Cardinality(Below(tags, at(k))) = k - 1
  <2>1. \E t \in tags : Cardinality({other \in tags : other < t}) = k - 1
    BY <1>2 DEF Below
  <2> QED BY <2>1 DEF Below
<1> HIDE DEF at, n
<1>4. /\ tlvs \in Seq(S) /\ Len(tlvs) = n
      /\ \A k \in 1..n : tlvs[k] = Tlv(at(k), map[at(k)]) /\ tlvs[k].tag = at(k)
  <2>1. \A k \in 1..n : Tlv(at(k), map[at(k)]) \in S
    BY <1>3 DEF tags
  <2>2. tlvs \in [1..n -> S]
    BY <2>1
  <2>3. \A k \in 1..n : tlvs[k] = Tlv(at(k), map[at(k)])
    OBVIOUS
  <2>4. \A k \in 1..n : Tlv(at(k), map[at(k)]).tag = at(k)
    BY DEF Tlv
  <2> HIDE DEF tlvs
  <2> QED BY <1>2, <2>2, <2>3, <2>4
<1> HIDE DEF tlvs
<1>5. ASSUME NEW t \in tags PROVE \E k \in 1..n : tlvs[k].tag = t
  <2> DEFINE k == Cardinality(Below(tags, t)) + 1
  <2>1. k \in 1..n
    BY <1>2
  <2>2. Cardinality(Below(tags, at(k))) + 1 = k
    BY <1>2, <1>3, <2>1
  <2>3. Cardinality(Below(tags, at(k))) = Cardinality(Below(tags, t))
    <3>1. Cardinality(Below(tags, at(k))) + 1 \in Nat /\ Cardinality(Below(tags, t)) + 1 \in Nat
      BY <2>1, <2>2
    <3>2. Cardinality(Below(tags, at(k))) = k - 1
      BY <1>3, <2>1
    <3>3. IsFiniteSet(Below(tags, t))
      <4>1. Below(tags, t) \in SUBSET tags
        BY DEF Below
      <4> QED BY <4>1, FS_Subset DEF tags
    <3>4. Cardinality(Below(tags, t)) \in Nat
      BY <3>3, FS_CardinalityType
    <3> QED BY <3>2, <3>4
  <2>4. at(k) = t
    BY <1>2, <1>3, <2>1, <2>3
  <2> HIDE DEF k
  <2> QED BY <1>4, <2>1, <2>4
<1>6. ASSUME NEW j \in 1..n, NEW k \in 1..n, at(j) = at(k) PROVE j = k
  BY <1>3, <1>6
<1>7. Distinct(tlvs)
  BY <1>4, <1>6 DEF Distinct
<1>8. \A k \in 1..n : tlvs[k].tag \in tags /\ tlvs[k] = Tlv(tlvs[k].tag, map[tlvs[k].tag])
  BY <1>3, <1>4
<1>9. Lists(tlvs, map)
  BY <1>4, <1>5, <1>7, <1>8 DEF Lists, tags, n
<1> QED BY <1>1, <1>4, <1>9

\* map has taken every one of tlvs, beside what was in old.
Took(map, old, tlvs) ==
  /\ DOMAIN map = DOMAIN old \cup {tlvs[k].tag : k \in 1..Len(tlvs)}
  /\ \A k \in 1..Len(tlvs) : /\ map[tlvs[k].tag] = tlvs[k].value
                             /\ tlvs[k].tag \in DOMAIN map

\* The one that is a tag's last is the only one.
LEMMA InsertsAll ==
  ASSUME NEW old, NEW S, NEW tlvs \in Seq(S), Distinct(tlvs)
  PROVE  Took(Insert(old, tlvs), old, tlvs)
<1> DEFINE n == Len(tlvs)
           Of(tag) == {i \in 1..n : tlvs[i].tag = tag}
           last(tag) == IF Of(tag) # {} THEN Max(Of(tag)) ELSE 0
           tags == DOMAIN old \cup {tlvs[k].tag : k \in 1..n}
           Value(tag) == IF last(tag) = 0 THEN old[tag] ELSE tlvs[last(tag)].value
<1>1. n \in Nat /\ DOMAIN tlvs = 1..n
  BY LenProperties
<1>2. Insert(old, tlvs) = [tag \in tags |-> Value(tag)]
  BY <1>1 DEF Insert, SelectLastInSeq
<1>3. ASSUME NEW k \in 1..n PROVE last(tlvs[k].tag) = k
  <2>1. Of(tlvs[k].tag) = {k}
    BY DEF Distinct
  <2>2. Max({k}) = k
    BY DEF Max
  <2> QED BY <2>1, <2>2
<1> HIDE DEF last
<1>4. ASSUME NEW k \in 1..n PROVE Value(tlvs[k].tag) = tlvs[k].value /\ tlvs[k].tag \in tags
  BY <1>1, <1>3
<1> HIDE DEF Value
<1>5. \A k \in 1..n : [tag \in tags |-> Value(tag)][tlvs[k].tag] = tlvs[k].value
  BY <1>4
<1> HIDE DEF n
<1>6. DOMAIN [tag \in tags |-> Value(tag)] = tags
  OBVIOUS
<1> QED BY <1>2, <1>4, <1>5, <1>6 DEF n, Took

-----------------------------------------------------------------------------
(* Bits.                                                                    *)

Powers == {1, 2, 4, 8, 16, 32, 64, 128}

LEMMA Halves ==
  ASSUME NEW n \in Nat
  PROVE  /\ n \div 1 = n /\ n \div 4 = (n \div 2) \div 2 /\ n \div 8 = (n \div 4) \div 2
         /\ n \div 16 = (n \div 8) \div 2 /\ n \div 32 = (n \div 16) \div 2
         /\ n \div 64 = (n \div 32) \div 2 /\ n \div 128 = (n \div 64) \div 2
         /\ n \div 2 \in Nat /\ n \div 4 \in Nat /\ n \div 8 \in Nat /\ n \div 16 \in Nat
         /\ n \div 32 \in Nat /\ n \div 64 \in Nat /\ n \div 128 \in Nat
<1>1. n \div 1 = n
  OBVIOUS
<1>2. n \div 4 = (n \div 2) \div 2
  OBVIOUS
<1>3. n \div 8 = (n \div 4) \div 2
  OBVIOUS
<1>4. n \div 16 = (n \div 8) \div 2
  OBVIOUS
<1>5. n \div 32 = (n \div 16) \div 2
  OBVIOUS
<1>6. n \div 64 = (n \div 32) \div 2
  OBVIOUS
<1>7. n \div 128 = (n \div 64) \div 2
  OBVIOUS
<1>8. n \div 2 \in Nat /\ n \div 4 \in Nat /\ n \div 8 \in Nat /\ n \div 16 \in Nat
      /\ n \div 32 \in Nat /\ n \div 64 \in Nat /\ n \div 128 \in Nat
  OBVIOUS
<1> QED BY <1>1, <1>2, <1>3, <1>4, <1>5, <1>6, <1>7, <1>8

\* Every set of bits is that of a byte.
LEMMA BitsOfSome ==
  ASSUME NEW bits \in SUBSET Powers
  PROVE  FromBits(bits) \in Byte /\ Bits(FromBits(bits)) = bits
<1> DEFINE d(bit) == IF bit \in bits THEN 1 ELSE 0
           n128 == d(128)
           n64 == d(64) + 2 * n128
           n32 == d(32) + 2 * n64
           n16 == d(16) + 2 * n32
           n8 == d(8) + 2 * n16
           n4 == d(4) + 2 * n8
           n2 == d(2) + 2 * n4
           n == d(1) + 2 * n2
<1>1. \A bit \in Powers : d(bit) \in 0..1 /\ (d(bit) = 1 <=> bit \in bits)
  OBVIOUS
<1>2. /\ d(1) \in 0..1 /\ d(2) \in 0..1 /\ d(4) \in 0..1 /\ d(8) \in 0..1
      /\ d(16) \in 0..1 /\ d(32) \in 0..1 /\ d(64) \in 0..1 /\ d(128) \in 0..1
  OBVIOUS
<1> HIDE DEF d
<1>3. /\ n128 \in 0..1 /\ n64 \in 0..3 /\ n32 \in 0..7 /\ n16 \in 0..15
      /\ n8 \in 0..31 /\ n4 \in 0..63 /\ n2 \in 0..127 /\ n \in 0..255
  BY <1>2
<1>4. /\ n % 2 = d(1) /\ n \div 2 = n2
      /\ n2 % 2 = d(2) /\ n2 \div 2 = n4
      /\ n4 % 2 = d(4) /\ n4 \div 2 = n8
      /\ n8 % 2 = d(8) /\ n8 \div 2 = n16
      /\ n16 % 2 = d(16) /\ n16 \div 2 = n32
      /\ n32 % 2 = d(32) /\ n32 \div 2 = n64
      /\ n64 % 2 = d(64) /\ n64 \div 2 = n128
      /\ n128 % 2 = d(128)
  BY <1>2, <1>3
<1> HIDE DEF n, n2, n4, n8, n16, n32, n64, n128
<1>5. /\ n \div 1 = n /\ n \div 2 = n2 /\ n \div 4 = n4 /\ n \div 8 = n8 /\ n \div 16 = n16
      /\ n \div 32 = n32 /\ n \div 64 = n64 /\ n \div 128 = n128
  <2>1. n \in Nat
    BY <1>3
  <2> QED BY <1>4, <2>1, Halves
<1>6. \A bit \in Powers : (n \div bit) % 2 = d(bit)
  BY <1>4, <1>5 DEF Powers
<1>7. Bits(n) = bits
  <2>1. Bits(n) = {bit \in Powers : (n \div bit) % 2 = 1}
    BY DEF Bits, Powers
  <2>2. \A bit \in Powers : (n \div bit) % 2 = 1 <=> bit \in bits
    BY <1>1, <1>6, Zenon
  <2> QED BY <2>1, <2>2, Zenon
<1>8. n \in Byte
  BY <1>3 DEF Byte
<1> QED BY <1>7, <1>8 DEF FromBits

\* The bytes of a country, and the bits that they deny.
ChannelByte(channels) ==
  255 - (IF 5 \in channels THEN 1 ELSE 0) - (IF 9 \in channels THEN 8 ELSE 0)
CccByte(channels) == (IF 5 \in channels THEN 0 ELSE 1) + (IF 9 \in channels THEN 0 ELSE 2)
ChannelsDenied(channels) ==
  (IF 5 \in channels THEN {1} ELSE {}) \cup (IF 9 \in channels THEN {8} ELSE {})
CccDenied(channels) ==
  {4, 8, 16, 32, 64, 128} \cup (IF 5 \in channels THEN {1} ELSE {})
                          \cup (IF 9 \in channels THEN {2} ELSE {})

LEMMA BitsOfBytes ==
  /\ Bits(255) = Powers /\ Bits(254) = Powers \ {1}
  /\ Bits(247) = Powers \ {8} /\ Bits(246) = Powers \ {1, 8}
  /\ Bits(3) = {1, 2} /\ Bits(2) = {2} /\ Bits(1) = {1} /\ Bits(0) = {}
<1> DEFINE Is(byte, bits) == \A bit \in Powers : (byte \div bit) % 2 = 1 <=> bit \in bits
<1>1. ASSUME NEW byte, NEW bits \in SUBSET Powers, Is(byte, bits) PROVE Bits(byte) = bits
  <2>1. Bits(byte) = {bit \in Powers : (byte \div bit) % 2 = 1}
    BY DEF Bits, Powers
  <2> QED BY <1>1, <2>1, Zenon
<1>2. Is(255, Powers) /\ Is(254, Powers \ {1}) /\ Is(247, Powers \ {8}) /\ Is(246, Powers \ {1, 8})
  BY DEF Powers
<1>3. Is(3, {1, 2}) /\ Is(2, {2}) /\ Is(1, {1}) /\ Is(0, {})
  BY DEF Powers
<1>4. /\ {1, 2} \in SUBSET Powers /\ {2} \in SUBSET Powers /\ {1} \in SUBSET Powers
      /\ {} \in SUBSET Powers
      /\ Powers \ {1} \in SUBSET Powers /\ Powers \ {8} \in SUBSET Powers
      /\ Powers \ {1, 8} \in SUBSET Powers /\ Powers \in SUBSET Powers
  BY DEF Powers
<1> HIDE DEF Is
<1>5. Bits(255) = Powers /\ Bits(254) = Powers \ {1}
  BY <1>1, <1>2, <1>4
<1>6. Bits(247) = Powers \ {8} /\ Bits(246) = Powers \ {1, 8}
  BY <1>1, <1>2, <1>4
<1>7. Bits(3) = {1, 2} /\ Bits(2) = {2}
  BY <1>1, <1>3, <1>4
<1>8. Bits(1) = {1} /\ Bits(0) = {}
  BY <1>1, <1>3, <1>4
<1> QED BY <1>5, <1>6, <1>7, <1>8

LEMMA CountryBytes ==
  ASSUME NEW channels \in SUBSET {5, 9}
  PROVE  /\ ChannelByte(channels) \in Byte /\ CccByte(channels) \in Byte
         /\ Bits(ChannelByte(channels)) = Powers \ ChannelsDenied(channels)
         /\ Bits(CccByte(channels)) = Powers \ CccDenied(channels)
<1>1. CASE 5 \in channels /\ 9 \in channels
  <2>1. ChannelByte(channels) = 246 /\ CccByte(channels) = 0
    BY <1>1 DEF ChannelByte, CccByte
  <2>2. ChannelsDenied(channels) = {1, 8} /\ CccDenied(channels) = Powers
    BY <1>1 DEF ChannelsDenied, CccDenied, Powers
  <2> QED BY <2>1, <2>2, BitsOfBytes DEF Byte
<1>2. CASE 5 \in channels /\ 9 \notin channels
  <2>1. ChannelByte(channels) = 254 /\ CccByte(channels) = 2
    BY <1>2 DEF ChannelByte, CccByte
  <2>2. ChannelsDenied(channels) = {1} /\ Powers \ CccDenied(channels) = {2}
    BY <1>2 DEF ChannelsDenied, CccDenied, Powers
  <2> QED BY <2>1, <2>2, BitsOfBytes DEF Byte
<1>3. CASE 5 \notin channels /\ 9 \in channels
  <2>1. ChannelByte(channels) = 247 /\ CccByte(channels) = 1
    BY <1>3 DEF ChannelByte, CccByte
  <2>2. ChannelsDenied(channels) = {8} /\ Powers \ CccDenied(channels) = {1}
    BY <1>3 DEF ChannelsDenied, CccDenied, Powers
  <2> QED BY <2>1, <2>2, BitsOfBytes DEF Byte
<1>4. CASE 5 \notin channels /\ 9 \notin channels
  <2>1. ChannelByte(channels) = 255 /\ CccByte(channels) = 3
    BY <1>4 DEF ChannelByte, CccByte
  <2>2. ChannelsDenied(channels) = {} /\ Powers \ CccDenied(channels) = {1, 2}
    BY <1>4 DEF ChannelsDenied, CccDenied, Powers
  <2> QED BY <2>1, <2>2, BitsOfBytes DEF Byte
<1> QED BY <1>1, <1>2, <1>3, <1>4

\* What the masks leave of a byte.
LEMMA Masks ==
  ASSUME NEW byte, NEW conf, NEW denied, Bits(conf) = Powers \ denied
  PROVE  /\ Bits(conf) \cap Bits(byte) = Bits(byte) \ denied
         /\ FromBits(Bits(conf) \cap Bits(byte)) \in Byte
<1>1. Bits(byte) \in SUBSET Powers
  BY DEF Bits, Powers
<1>2. Bits(conf) \cap Bits(byte) = Bits(byte) \ denied
  BY <1>1
<1>3. Bits(conf) \cap Bits(byte) \in SUBSET Powers
  BY <1>1
<1> QED BY <1>2, <1>3, BitsOfSome

\* What a country's data leaves in conf_map.
Denies(map, channels) ==
  /\ DOMAIN map = {UWB_CHANNELS, CCC_UWB_CHANNELS}
  /\ map[UWB_CHANNELS] = <<ChannelByte(channels)>>
  /\ map[CCC_UWB_CHANNELS] = <<CccByte(channels)>>

LEMMA PlainOnes ==
  ASSUME NEW tag \in Byte, tag \notin Extended, NEW value \in Seq(Byte), Len(value) < 253
  PROVE  Tlv(tag, value) \in Readable(Extended)
<1> DEFINE t == Tlv(tag, value)
<1>1. tag \in Nat /\ tag < 65536 /\ ~ (tag > 255)
  BY DEF Byte
<1>2. t.tag = tag /\ t.value = value /\ t \in [tag : Nat, value : Seq(Byte)]
  BY <1>1 DEF Tlv
<1> HIDE DEF t
<1>3. t \in Readable(Extended)
  BY <1>1, <1>2 DEF Readable
<1> QED BY <1>3 DEF t

\* The country's data is read as it was made.
LEMMA CountryRead ==
  ASSUME NEW channels \in SUBSET {5, 9}, get_conf_map(CountryData(channels)),
         DOMAIN conf_map \in SUBSET {UWB_CHANNELS, CCC_UWB_CHANNELS}
  PROVE  isCountryCodeMapCreated' = TRUE /\ Denies(conf_map', channels)
<1> DEFINE a == ChannelByte(channels)  b == CccByte(channels)
           s == Tlv(UWB_CHANNELS, <<a>>)  t == Tlv(CCC_UWB_CHANNELS, <<b>>)
           tlvs == <<s, t>>  data == Encode(tlvs)
<1>1. a \in Byte /\ b \in Byte
  BY CountryBytes
<1>2. CountryData(channels) = data
  BY DEF CountryData, ChannelByte, CccByte
<1> HIDE DEF a, b
<1>3. /\ <<a>> \in Seq(Byte) /\ Len(<<a>>) < 253 /\ <<b>> \in Seq(Byte) /\ Len(<<b>>) < 253
      /\ <<a>> # <<>> /\ <<b>> # <<>>
  BY <1>1
<1>4. s \in Readable(Extended) /\ t \in Readable(Extended)
  <2>1. UWB_CHANNELS \in Byte \ Extended /\ CCC_UWB_CHANNELS \in Byte \ Extended
    BY DEF UWB_CHANNELS, CCC_UWB_CHANNELS, Byte, Extended
  <2> QED BY <1>3, <2>1, PlainOnes
<1>5. /\ s.tag = UWB_CHANNELS /\ s.value = <<a>> /\ t.tag = CCC_UWB_CHANNELS /\ t.value = <<b>>
  BY DEF Tlv
<1> HIDE DEF s, t
<1>6. tlvs \in Seq(Readable(Extended)) /\ Len(tlvs) = 2 /\ tlvs[1] = s /\ tlvs[2] = t
  BY <1>4
<1> HIDE DEF tlvs
<1>7. data \in Seq(Byte) /\ Len(data) \in Nat
  <2>1. data \in Seq(Byte)
    BY <1>6, Extends, Encoded
  <2> QED BY <2>1, LenProperties
<1>8. Ends(data, 0, tlvs, 0)
  <2> DEFINE n == Len(data)
  <2>1. n + 0 = 0 + n /\ \A x \in 1..(n - 0) : data[0 + x] = data[x]
    BY <1>7
  <2> QED BY <2>1 DEF Ends
<1>9. Walk(data, Extended, 0, 1) = [ok |-> TRUE, tlvs |-> tlvs]
  <2>1. tlvs[Len(tlvs)].value # <<>>
    BY <1>3, <1>5, <1>6
  <2>2. 0 \in 0..Len(data) /\ 1 \in 0..1
    BY <1>7
  <2> HIDE DEF data
  <2> QED BY <1>6, <1>7, <1>8, <2>1, <2>2, Extends, WalkReads, SMTT(30)
<1>10. isCountryCodeMapCreated' = TRUE /\ conf_map' = Insert(conf_map, tlvs)
  <2> DEFINE read == Walk(data, Extended, 0, 1)
  <2>1. conf_map' = Insert(conf_map, read.tlvs) /\ isCountryCodeMapCreated' = read.ok
    BY <1>2 DEF get_conf_map
  <2>2. read.tlvs = tlvs /\ read.ok = TRUE
    BY <1>9
  <2> HIDE DEF read
  <2> QED BY <2>1, <2>2
<1>11. Distinct(tlvs)
  <2>1. UWB_CHANNELS # CCC_UWB_CHANNELS
    BY DEF UWB_CHANNELS, CCC_UWB_CHANNELS
  <2> QED BY <1>5, <1>6, <2>1 DEF Distinct
<1>12. /\ DOMAIN conf_map' = DOMAIN conf_map \cup {tlvs[k].tag : k \in 1..Len(tlvs)}
       /\ \A k \in 1..Len(tlvs) : conf_map'[tlvs[k].tag] = tlvs[k].value
  <2>1. tlvs \in Seq(Readable(Extended)) /\ Distinct(tlvs)
    BY <1>6, <1>11
  <2>2. Took(Insert(conf_map, tlvs), conf_map, tlvs)
    BY <2>1, InsertsAll
  <2> QED BY <1>10, <2>2 DEF Took
<1>13. {tlvs[k].tag : k \in 1..Len(tlvs)} = {UWB_CHANNELS, CCC_UWB_CHANNELS}
  BY <1>5, <1>6
<1>14. 1 \in 1..Len(tlvs) /\ 2 \in 1..Len(tlvs)
  BY <1>6
<1>15. conf_map'[UWB_CHANNELS] = <<a>> /\ conf_map'[CCC_UWB_CHANNELS] = <<b>>
  BY <1>5, <1>6, <1>12, <1>14
<1>16. DOMAIN conf_map' = {UWB_CHANNELS, CCC_UWB_CHANNELS}
  BY <1>12, <1>13
<1> QED BY <1>10, <1>15, <1>16 DEF Denies, a, b

-----------------------------------------------------------------------------
(* Responses.                                                               *)

\* p is a response with these capabilities, rightly counted and as long as it
\* says.
Bears(p, status, tlvs) ==
  /\ p \in Seq(Byte) /\ Len(p) = 6 + Len(Encode(tlvs))
  /\ p[4] = 2 + Len(Encode(tlvs)) /\ p[5] = status /\ p[6] = Len(tlvs)
  /\ \A x \in 1..Len(Encode(tlvs)) : p[6 + x] = Encode(tlvs)[x]

\* Capabilities that fit an eight-bit length.
Short(tlvs, wide) == tlvs \in Seq(Readable(wide)) /\ Len(Encode(tlvs)) < 254

LEMMA ShortParts ==
  ASSUME NEW wide \in SUBSET Byte, NEW tlvs, Short(tlvs, wide)
  PROVE  /\ Encode(tlvs) \in Seq(Byte) /\ Len(Encode(tlvs)) \in 0..253
         /\ Len(tlvs) \in 0..253 /\ 2 + Len(Encode(tlvs)) \in Byte /\ Len(tlvs) \in Byte
<1> DEFINE m == Len(Encode(tlvs))  n == Len(tlvs)
<1>1. tlvs \in Seq(Readable(wide)) /\ m < 254
  BY DEF Short
<1>2. Encode(tlvs) \in Seq(Byte)
  BY <1>1, Encoded
<1>3. m \in Nat /\ n \in Nat /\ n <= m
  BY <1>1, FewerThanBytes
<1> HIDE DEF m, n
<1>4. m \in 0..253 /\ n \in 0..253 /\ 2 + m \in 0..255 /\ n \in 0..255
  BY <1>1, <1>3
<1> QED BY <1>2, <1>4 DEF Byte, m, n

Heads(q, status, tlvs) ==
  /\ q \in Seq(Byte) /\ Len(q) = 6
  /\ q[4] = 2 + Len(Encode(tlvs)) /\ q[5] = status /\ q[6] = Len(tlvs)

LEMMA SaidAfter ==
  ASSUME NEW wide \in SUBSET Byte, NEW tlvs, Short(tlvs, wide), NEW q, NEW status,
         Heads(q, status, tlvs)
  PROVE  Bears(q \o Encode(tlvs), status, tlvs)
<1> DEFINE b == Encode(tlvs)  p == q \o b
<1>1. b \in Seq(Byte)
  BY ShortParts
<1>2. q \in Seq(Byte) /\ b \in Seq(Byte) /\ p = q \o b
  BY <1>1 DEF Heads
<1> HIDE DEF b, p
<1>3. /\ p \in Seq(Byte) /\ Len(p) = Len(q) + Len(b)
      /\ \A y \in 1..Len(q) : p[y] = q[y]
      /\ \A x \in 1..Len(b) : p[Len(q) + x] = b[x]
  BY <1>2, ConcatParts
<1>4. Len(q) = 6 /\ q[4] = 2 + Len(b) /\ q[5] = status /\ q[6] = Len(tlvs)
  BY DEF Heads, b
<1>5. p[4] = q[4] /\ p[5] = q[5] /\ p[6] = q[6]
  BY <1>3, <1>4
<1>6. Bears(p, status, tlvs)
  BY <1>3, <1>4, <1>5 DEF Bears, b
<1> QED BY <1>6 DEF p, b

LEMMA ResponseSays ==
  ASSUME NEW wide \in SUBSET Byte, NEW tlvs, Short(tlvs, wide), NEW status \in 0..1
  PROVE  Bears(CapsResponse(status, tlvs), status, tlvs)
<1> DEFINE b == Encode(tlvs)  front == <<status, Len(tlvs)>>  payload == front \o b
           start == <<64, 3, 0, Len(payload)>>  q == <<64, 3, 0, 2 + Len(b), status, Len(tlvs)>>
           n == Len(tlvs)  m == Len(b)
<1>1. /\ b \in Seq(Byte) /\ m \in 0..253 /\ n \in Byte /\ 2 + m \in Byte /\ status \in Byte
      /\ 64 \in Byte /\ 3 \in Byte /\ 0 \in Byte
  <2>1. b \in Seq(Byte) /\ m \in 0..253 /\ n \in Byte /\ 2 + m \in Byte
    BY ShortParts
  <2>2. status \in Byte /\ 64 \in Byte /\ 3 \in Byte /\ 0 \in Byte
    BY DEF Byte
  <2> QED BY <2>1, <2>2
<1>2. CapsResponse(status, tlvs) = start \o payload
  BY DEF CapsResponse
<1> HIDE DEF n, m
<1>3. /\ front \in Seq(Byte) /\ Len(front) = 2 /\ front[1] = status /\ front[2] = n
      /\ q \in Seq(Byte) /\ Len(q) = 6
      /\ q[1] = 64 /\ q[2] = 3 /\ q[3] = 0 /\ q[4] = 2 + m /\ q[5] = status /\ q[6] = n
  BY <1>1 DEF n, m
<1>9. front \in Seq(Byte) /\ b \in Seq(Byte) /\ payload = front \o b
  BY <1>1, <1>3
<1> HIDE DEF b, front, payload
<1>4. /\ payload \in Seq(Byte) /\ Len(payload) = 2 + m
      /\ \A y \in 1..2 : payload[y] = front[y]
      /\ \A x \in 1..m : payload[2 + x] = b[x]
  <2>1. /\ payload \in Seq(Byte) /\ Len(payload) = Len(front) + Len(b)
        /\ \A y \in 1..Len(front) : payload[y] = front[y]
        /\ \A x \in 1..Len(b) : payload[Len(front) + x] = b[x]
    BY <1>9, ConcatParts
  <2> QED BY <1>3, <2>1 DEF m
<1>5. start \in Seq(Byte) /\ Len(start) = 4 /\ start[4] = 2 + m
  BY <1>1, <1>4
<1> DEFINE p == start \o payload
<1>10. start \in Seq(Byte) /\ payload \in Seq(Byte) /\ p = start \o payload
  BY <1>4, <1>5
<1> HIDE DEF start, p
<1>6. /\ p \in Seq(Byte) /\ Len(p) = 4 + Len(payload)
      /\ \A y \in 1..4 : p[y] = start[y]
      /\ \A x \in 1..Len(payload) : p[4 + x] = payload[x]
  <2>1. /\ p \in Seq(Byte) /\ Len(p) = Len(start) + Len(payload)
        /\ \A y \in 1..Len(start) : p[y] = start[y]
        /\ \A x \in 1..Len(payload) : p[Len(start) + x] = payload[x]
    BY <1>10, ConcatParts
  <2> QED BY <1>5, <2>1
<1>7. p[4] = 2 + m /\ p[5] = status /\ p[6] = n /\ Len(p) = 6 + m
  <2>1. 1 \in 1..Len(payload) /\ 2 \in 1..Len(payload) /\ 4 \in 1..4 /\ 4 + 1 = 5 /\ 4 + 2 = 6
    BY <1>1, <1>4
  <2>2. p[4] = start[4] /\ p[4 + 1] = payload[1] /\ p[4 + 2] = payload[2]
    BY <1>6, <2>1
  <2>3. payload[1] = front[1] /\ payload[2] = front[2]
    BY <1>4
  <2>4. Len(p) = 6 + m
    BY <1>1, <1>4, <1>6
  <2> QED BY <1>3, <1>5, <2>1, <2>2, <2>3, <2>4
<1>8. ASSUME NEW x \in 1..m PROVE p[6 + x] = b[x]
  <2>1. 2 + x \in 1..Len(payload) /\ 4 + (2 + x) = 6 + x
    BY <1>1, <1>4
  <2>2. p[4 + (2 + x)] = payload[2 + x]
    BY <1>6, <2>1
  <2>3. payload[2 + x] = b[x]
    BY <1>4
  <2> QED BY <2>1, <2>2, <2>3
<1>11. CapsResponse(status, tlvs) = p
  BY <1>2, <1>10
<1> QED BY <1>6, <1>7, <1>8, <1>11 DEF Bears, b, m, n

\* A loop over a response reads what it says.
LEMMA ReadsBack ==
  ASSUME NEW wide \in SUBSET Byte, NEW tlvs \in Seq(Readable(wide)), NEW p, NEW status,
         Bears(p, status, tlvs), NEW slack \in 0..1,
         slack = 1 /\ tlvs # <<>> => tlvs[Len(tlvs)].value # <<>>
  PROVE  Walk(p, wide, 6, slack) = [ok |-> TRUE, tlvs |-> tlvs]
<1> DEFINE b == Encode(tlvs)  n == Len(b)
<1>1. b \in Seq(Byte) /\ n \in Nat
  <2>1. b \in Seq(Byte)
    BY Encoded
  <2> QED BY <2>1, LenProperties
<1>2. p \in Seq(Byte) /\ Len(p) = 6 + n /\ \A x \in 1..n : p[6 + x] = b[x]
  BY DEF Bears
<1> HIDE DEF n
<1>3. Len(p) + 0 = 6 + n /\ Len(p) - 6 = n /\ 6 \in 0..Len(p)
  BY <1>1, <1>2
<1>4. Ends(p, 6, tlvs, 0)
  BY <1>2, <1>3 DEF Ends, n
<1> QED BY <1>2, <1>3, <1>4, WalkReads

\* The chip's capabilities, and those configured for it.
LEMMA ChipParts ==
  ASSUME device \in Devices
  PROVE  /\ caps \in Seq(Readable(VendorSpecific)) /\ vendor \in Seq(Readable(Extended))
         /\ Len(Encode(caps)) + Len(Encode(vendor)) < 254
         /\ Distinct(caps) /\ Distinct(vendor)
         /\ \A j \in 1..Len(caps) : \A k \in 1..Len(vendor) : caps[j].tag # vendor[k].tag
         /\ vendor # <<>> => vendor[Len(vendor)].value # <<>>
         /\ vendor = <<>> /\ caps # <<>> => caps[Len(caps)].value # <<>>
<1> DEFINE m == Len(caps)  n == Len(vendor)  all == caps \o vendor
<1>1. Fitting(device)
  BY DeviceAssumption
<1>2. /\ caps \in Seq(Readable(VendorSpecific)) /\ vendor \in Seq(Readable(Extended))
      /\ Len(Encode(caps)) + Len(Encode(vendor)) < 254
  BY <1>1 DEF Fitting, caps, vendor
<1>3. /\ \A j, k \in DOMAIN all : all[j].tag = all[k].tag => j = k
      /\ all # <<>> => Last(all).value # <<>>
  BY <1>1 DEF Fitting, caps, vendor
<1> DEFINE T == Readable(VendorSpecific) \cup Readable(Extended)
<1>4. caps \in Seq(T) /\ vendor \in Seq(T) /\ all = caps \o vendor
  <2>1. Readable(VendorSpecific) \subseteq T /\ Readable(Extended) \subseteq T
    OBVIOUS
  <2> HIDE DEF T
  <2> QED BY <1>2, <2>1, SeqMonotonic
<1> HIDE DEF all, T
<1>5. /\ all \in Seq(T) /\ m \in Nat /\ n \in Nat /\ Len(all) = m + n
      /\ \A y \in 1..m : all[y] = caps[y]
      /\ \A x \in 1..n : all[m + x] = vendor[x]
  BY <1>4, ConcatParts
<1>6. DOMAIN all = 1..(m + n) /\ Last(all) = all[m + n]
  BY <1>5, LenProperties DEF Last
<1> HIDE DEF m, n
<1>7. \A j, k \in 1..(m + n) : all[j].tag = all[k].tag => j = k
  BY <1>3, <1>6
<1>8. Distinct(caps)
  <2> SUFFICES ASSUME NEW j \in 1..m, NEW k \in 1..m, caps[j].tag = caps[k].tag PROVE j = k
    BY DEF Distinct, m
  <2>1. j \in 1..(m + n) /\ k \in 1..(m + n)
    BY <1>5
  <2> QED BY <1>5, <1>7, <2>1
<1>9. Distinct(vendor)
  <2> SUFFICES ASSUME NEW j \in 1..n, NEW k \in 1..n, vendor[j].tag = vendor[k].tag PROVE j = k
    BY DEF Distinct, n
  <2>1. m + j \in 1..(m + n) /\ m + k \in 1..(m + n)
    BY <1>5
  <2>2. all[m + j].tag = all[m + k].tag
    BY <1>5
  <2>3. m + j = m + k
    BY <1>7, <2>1, <2>2
  <2> QED BY <1>5, <2>3
<1>10. ASSUME NEW j \in 1..m, NEW k \in 1..n PROVE caps[j].tag # vendor[k].tag
  <2>1. j \in 1..(m + n) /\ m + k \in 1..(m + n) /\ j # m + k
    BY <1>5
  <2>2. all[j].tag # all[m + k].tag
    BY <1>7, <2>1
  <2> QED BY <1>5, <2>2
<1>11. ASSUME vendor # <<>> PROVE vendor[n].value # <<>>
  <2>1. n # 0
    BY <1>2, <1>11, EmptySeq DEF n
  <2>2. n \in 1..n /\ Len(all) # 0
    BY <1>5, <2>1
  <2>3. all[m + n] = vendor[n] /\ all # <<>>
    BY <1>5, <2>2
  <2> QED BY <1>3, <1>6, <2>3
<1>12. ASSUME vendor = <<>>, caps # <<>> PROVE caps[m].value # <<>>
  <2>1. m # 0 /\ n = 0
    BY <1>2, <1>12, EmptySeq DEF m, n
  <2>2. m \in 1..m /\ Len(all) # 0 /\ m + n = m
    BY <1>5, <2>1
  <2>3. all[m + n] = caps[m] /\ all # <<>>
    BY <1>5, <2>2
  <2> QED BY <1>3, <1>6, <2>3
<1> QED BY <1>2, <1>8, <1>9, <1>10, <1>11, <1>12 DEF m, n

LEMMA ChipTags ==
  ASSUME device \in Devices
  PROVE  /\ \A k \in 1..Len(caps) :
              /\ vendor = <<>> \/ caps[k].tag < 256 => caps[k] \in Readable(Extended)
              /\ caps[k].tag \in {UWB_CHANNELS, CCC_UWB_CHANNELS, AOA_SUPPORT} =>
                   Len(caps[k].value) = 1
              /\ caps[k].tag = CCC_SUPPORTED_PROTOCOL_VERSIONS => Len(caps[k].value) = 2
         /\ \A k \in 1..Len(vendor) : vendor[k].tag \notin {UWB_CHANNELS, CCC_UWB_CHANNELS}
         /\ DOMAIN caps = 1..Len(caps) /\ DOMAIN vendor = 1..Len(vendor)
<1>1. Fitting(device)
  BY DeviceAssumption
<1>2. DOMAIN caps = 1..Len(caps) /\ DOMAIN vendor = 1..Len(vendor)
  BY ChipParts, LenProperties
<1>3. /\ \A k \in {k \in DOMAIN caps : vendor = <<>> \/ caps[k].tag < 256} :
           caps[k] \in Readable(Extended)
      /\ \A k \in DOMAIN caps :
           /\ caps[k].tag \in {UWB_CHANNELS, CCC_UWB_CHANNELS, AOA_SUPPORT} =>
                Len(caps[k].value) = 1
           /\ caps[k].tag = CCC_SUPPORTED_PROTOCOL_VERSIONS => Len(caps[k].value) = 2
      /\ \A k \in DOMAIN vendor : vendor[k].tag \notin {UWB_CHANNELS, CCC_UWB_CHANNELS}
  BY <1>1 DEF Fitting, caps, vendor
<1> QED BY <1>2, <1>3

Pairs == {NoPair} \cup (Byte \ {0})

\* Once the antennas are known, or known not to be, the old value is nothing.
LEMMA AoaKnown ==
  ASSUME antennas \in Pairs, NEW x, NEW y
  PROVE  aoa(x) = aoa(y) /\ aoa(x) \in Byte
<1>1. CASE antennas = NoPair
  <2>1. aoa(x) = 0 /\ aoa(y) = 0
    BY <1>1 DEF aoa, NoPair
  <2> QED BY <2>1 DEF Byte
<1>2. CASE antennas # NoPair
  <2>1. antennas \in 1..255
    BY <1>2 DEF Pairs, Byte
  <2>2. CASE antennas = 1
    <3>1. aoa(x) = 1 /\ aoa(y) = 1
      BY <2>2 DEF aoa, NoPair
    <3> QED BY <3>1 DEF Byte
  <2>3. CASE antennas # 1
    <3>1. antennas > 1
      BY <2>1, <2>3
    <3>2. aoa(x) = 5 /\ aoa(y) = 5
      BY <1>2, <2>3, <3>1 DEF aoa
    <3> QED BY <3>2 DEF Byte
  <2> QED BY <2>2, <2>3
<1> QED BY <1>1, <1>2

\* A parameter with another value as long.
LEMMA Revalued ==
  ASSUME NEW wide, NEW t \in Readable(wide), NEW value \in Seq(Byte), Len(value) = Len(t.value),
         NEW u, u = [t EXCEPT !.value = value]
  PROVE  u \in Readable(wide) /\ u.tag = t.tag /\ u.value = value
<1>1. /\ t \in [tag : Nat, value : Seq(Byte)] /\ t.tag < 65536 /\ Len(t.value) < 253
      /\ t.tag > 255 => t.tag \div 256 \in wide
      /\ t.tag < 256 => t.tag \notin wide
  BY DEF Readable
<1>2. u \in [tag : Nat, value : Seq(Byte)] /\ u.tag = t.tag /\ u.value = value
  BY <1>1
<1>3. /\ u.tag < 65536 /\ Len(u.value) < 253
      /\ u.tag > 255 => u.tag \div 256 \in wide
      /\ u.tag < 256 => u.tag \notin wide
  BY <1>1, <1>2
<1>4. u \in Readable(wide)
  BY <1>2, <1>3, SMTT(30) DEF Readable
<1> QED BY <1>2, <1>4

\* Each of a is one of b with a value as long.
Remade(a, b) ==
  /\ a \in Seq(Readable(Extended)) /\ Len(a) = Len(b)
  /\ \A k \in 1..Len(b) : a[k].tag = b[k].tag /\ Len(a[k].value) = Len(b[k].value)

LEMMA RemadeLength ==
  ASSUME NEW wide \in SUBSET Byte, NEW b \in Seq(Readable(wide)), NEW a, Remade(a, b)
  PROVE  Len(Encode(a)) = Len(Encode(b))
<1>1. a \in Seq(Readable(Extended)) /\ Len(a) = Len(b)
  BY DEF Remade
<1>2. ASSUME NEW k \in 1..Len(a) PROVE Len(TlvBytes(a[k])) = Len(TlvBytes(b[k]))
  <2> DEFINE s == a[k]  t == b[k]
  <2>1. s \in Readable(Extended) /\ t \in Readable(wide)
    BY <1>1, ElementOfSeq
  <2>2. s.tag = t.tag /\ Len(s.value) = Len(t.value)
    BY <1>1 DEF Remade
  <2> HIDE DEF s, t
  <2>3. Len(TlvBytes(s)) = Head3(s) + Len(s.value)
    BY <2>1, Extends, TlvLength, Zenon
  <2>4. Len(TlvBytes(t)) = Head3(t) + Len(t.value)
    BY <2>1, TlvLength, Zenon
  <2>5. Head3(s) = Head3(t)
    BY <2>2 DEF Head3
  <2> QED BY <2>2, <2>3, <2>4, <2>5 DEF s, t
<1>3. AsLong(a, b)
  BY <1>1, <1>2 DEF AsLong
<1> QED BY <1>1, <1>3, Extends, AlikeLength

LEMMA ByteOff ==
  ASSUME NEW v \in Seq(Byte), NEW byte \in Byte, NEW w, w = [v EXCEPT ![1] = byte]
  PROVE  w \in Seq(Byte) /\ Len(w) = Len(v)
<1> DEFINE n == Len(v)
<1>1. n \in Nat /\ v \in [1..n -> Byte]
  BY LenProperties
<1> HIDE DEF n
<1>2. w \in [1..n -> Byte]
  BY <1>1
<1>3. w \in Seq(Byte) /\ Len(w) = n
  BY <1>1, <1>2
<1> QED BY <1>3 DEF n

\* A response that is not written anew is one byte off at most.
LEMMA InPlaceIs ==
  ASSUME device \in Devices, vendor = <<>>, antennas \in Pairs
  PROVE  /\ Remade(inPlace(caps), caps)
         /\ \A k \in 1..Len(caps) : k \notin Overwritten(caps) => inPlace(caps)[k] = caps[k]
<1> DEFINE n == Len(caps)  over == Overwritten(caps)  made == inPlace(caps)
<1>1. n \in Nat /\ DOMAIN caps = 1..n
  BY ChipParts, LenProperties
<1>2. made = [k \in 1..n |-> IF k \in over THEN [caps[k] EXCEPT !.value[1] = aoa(@)] ELSE caps[k]]
  BY <1>1 DEF inPlace
<1> HIDE DEF made, over, n
<1>3. ASSUME NEW k \in 1..n
      PROVE  /\ made[k] \in Readable(Extended) /\ made[k].tag = caps[k].tag
             /\ Len(made[k].value) = Len(caps[k].value)
             /\ k \notin over => made[k] = caps[k]
  <2> DEFINE t == caps[k]  byte == aoa(t.value[1])
  <2>1. t \in Readable(Extended)
    BY ChipTags DEF n
  <2>2. made[k] = IF k \in over THEN [t EXCEPT !.value[1] = aoa(@)] ELSE t
    BY <1>2
  <2> HIDE DEF t
  <2>3. CASE k \notin over
    BY <2>1, <2>2, <2>3 DEF t
  <2>4. CASE k \in over
    <3> DEFINE value == [t.value EXCEPT ![1] = byte]
    <3>1. made[k] = [t EXCEPT !.value = value]
      BY <2>2, <2>4
    <3>2. byte \in Byte
      BY AoaKnown
    <3>3. t.value \in Seq(Byte)
      BY <2>1, ReadableParts
    <3> HIDE DEF byte
    <3>6. value = [t.value EXCEPT ![1] = byte]
      OBVIOUS
    <3> HIDE DEF value
    <3>4. value \in Seq(Byte) /\ Len(value) = Len(t.value)
      BY <3>2, <3>3, <3>6, ByteOff
    <3>5. made[k] \in Readable(Extended) /\ made[k].tag = t.tag /\ made[k].value = value
      BY <2>1, <3>1, <3>4, Revalued
    <3> QED BY <2>4, <3>4, <3>5 DEF t
  <2> QED BY <2>3, <2>4
<1>4. made \in Seq(Readable(Extended)) /\ Len(made) = n
  <2>1. \A k \in 1..n : made[k] \in Readable(Extended)
    BY <1>3
  <2>2. DOMAIN made = 1..n /\ made = [k \in 1..n |-> made[k]]
    BY <1>2
  <2>3. made \in [1..n -> Readable(Extended)]
    BY <2>1, <2>2
  <2> QED BY <1>1, <2>3
<1>5. Remade(made, caps)
  BY <1>3, <1>4 DEF Remade, n
<1> QED BY <1>3, <1>5 DEF made, over, n

\* What a parameter reads before the country masks it.
Rewrote(t) ==
  CASE t.tag = CCC_SUPPORTED_PROTOCOL_VERSIONS /\ vendor # <<>> -> <<t.value[2], t.value[1]>>
    [] t.tag = AOA_SUPPORT /\ vendor # <<>> -> <<aoa(t.value[1])>>
    [] OTHER -> t.value

\* Parameters of the chip that one finds in a response written anew.
Kept(kept) ==
  /\ kept \in Seq(Readable(Extended))
  /\ \A k \in 1..Len(kept) :
       /\ kept[k].tag = AOA_SUPPORT => Len(kept[k].value) = 1
       /\ kept[k].tag = CCC_SUPPORTED_PROTOCOL_VERSIONS => Len(kept[k].value) = 2

LEMMA RebuiltIs ==
  ASSUME vendor # <<>>, antennas \in Pairs, NEW kept, Kept(kept)
  PROVE  /\ Remade(rebuilt(kept), kept)
         /\ \A k \in 1..Len(kept) : rebuilt(kept)[k].value = Rewrote(kept[k])
<1> DEFINE n == Len(kept)  made == rebuilt(kept)
<1>1. kept \in Seq(Readable(Extended)) /\ n \in Nat /\ DOMAIN kept = 1..n
  BY LenProperties DEF Kept
<1>2. made = [k \in 1..n |->
        CASE kept[k].tag = AOA_SUPPORT ->
               [kept[k] EXCEPT !.value = <<aoa(kept[k - 1].value[1])>>]
          [] kept[k].tag = CCC_SUPPORTED_PROTOCOL_VERSIONS ->
               [kept[k] EXCEPT !.value = <<@[Len(@)], @[1]>>]
          [] OTHER -> kept[k]]
  BY <1>1 DEF rebuilt
<1> HIDE DEF made, n
<1>3. ASSUME NEW k \in 1..n
      PROVE  /\ made[k] \in Readable(Extended) /\ made[k].tag = kept[k].tag
             /\ Len(made[k].value) = Len(kept[k].value)
             /\ made[k].value = Rewrote(kept[k])
  <2> DEFINE t == kept[k]  last == t.value[Len(t.value)]  byte == aoa(kept[k - 1].value[1])
  <2>1. /\ t \in Readable(Extended)
        /\ t.tag = AOA_SUPPORT => Len(t.value) = 1
        /\ t.tag = CCC_SUPPORTED_PROTOCOL_VERSIONS => Len(t.value) = 2
    BY <1>1, ElementOfSeq DEF Kept, n
  <2>2. made[k] = CASE t.tag = AOA_SUPPORT -> [t EXCEPT !.value = <<byte>>]
                    [] t.tag = CCC_SUPPORTED_PROTOCOL_VERSIONS ->
                         [t EXCEPT !.value = <<last, t.value[1]>>]
                    [] OTHER -> t
    BY <1>2
  <2>3. t.value \in Seq(Byte)
    BY <2>1, ReadableParts
  <2>4. AOA_SUPPORT # CCC_SUPPORTED_PROTOCOL_VERSIONS
    BY DEF AOA_SUPPORT, CCC_SUPPORTED_PROTOCOL_VERSIONS
  <2>5. byte \in Byte /\ byte = aoa(t.value[1])
    BY AoaKnown
  <2> HIDE DEF t, byte, last
  <2>6. CASE t.tag = AOA_SUPPORT
    <3> DEFINE value == <<byte>>
    <3>1. made[k] = [t EXCEPT !.value = value]
      BY <2>2, <2>4, <2>6
    <3>2. value \in Seq(Byte) /\ Len(value) = Len(t.value)
      BY <2>1, <2>5, <2>6
    <3>4. Rewrote(t) = value
      BY <2>4, <2>5, <2>6 DEF Rewrote
    <3> HIDE DEF value
    <3>3. made[k] \in Readable(Extended) /\ made[k].tag = t.tag /\ made[k].value = value
      BY <2>1, <3>1, <3>2, Revalued
    <3> QED BY <3>2, <3>3, <3>4 DEF t
  <2>7. CASE t.tag = CCC_SUPPORTED_PROTOCOL_VERSIONS
    <3> DEFINE value == <<t.value[2], t.value[1]>>
    <3>1. made[k] = [t EXCEPT !.value = value]
      BY <2>1, <2>2, <2>4, <2>7 DEF last
    <3>2. t.value[1] \in Byte /\ t.value[2] \in Byte /\ Len(t.value) = 2
      BY <2>1, <2>3, <2>7, ElementOfSeq
    <3>3. value \in Seq(Byte) /\ Len(value) = Len(t.value)
      BY <3>2
    <3>5. Rewrote(t) = value
      BY <2>4, <2>7 DEF Rewrote
    <3> HIDE DEF value
    <3>4. made[k] \in Readable(Extended) /\ made[k].tag = t.tag /\ made[k].value = value
      BY <2>1, <3>1, <3>3, Revalued
    <3> QED BY <3>3, <3>4, <3>5 DEF t
  <2>8. CASE t.tag # AOA_SUPPORT /\ t.tag # CCC_SUPPORTED_PROTOCOL_VERSIONS
    <3>1. made[k] = t
      BY <2>2, <2>8
    <3>2. Rewrote(t) = t.value
      BY <2>8 DEF Rewrote
    <3> QED BY <2>1, <3>1, <3>2 DEF t
  <2> QED BY <2>6, <2>7, <2>8
<1>4. made \in Seq(Readable(Extended)) /\ Len(made) = n
  <2>1. \A k \in 1..n : made[k] \in Readable(Extended)
    BY <1>3
  <2>2. DOMAIN made = 1..n /\ made = [k \in 1..n |-> made[k]]
    BY <1>2
  <2>3. made \in [1..n -> Readable(Extended)]
    BY <2>1, <2>2
  <2> QED BY <1>1, <2>3
<1>5. Remade(made, kept)
  BY <1>3, <1>4 DEF Remade, n
<1> QED BY <1>3, <1>5 DEF made, n

Own == {k \in 1..Len(caps) : vendor = <<>> \/ caps[k].tag < 256}

\* tlvs are the capabilities of the chip without vendor tags and those of the
\* configuration, each with its value.
Gathers(tlvs) ==
  /\ \A j \in 1..Len(tlvs) : \/ \E k \in Own : tlvs[j].tag = caps[k].tag
                             \/ \E k \in 1..Len(vendor) : tlvs[j].tag = vendor[k].tag
  /\ \A k \in Own : \E j \in 1..Len(tlvs) :
       tlvs[j].tag = caps[k].tag /\ (k \in Spared => tlvs[j].value = Rewrote(caps[k]))
  /\ \A k \in 1..Len(vendor) : \E j \in 1..Len(tlvs) :
       tlvs[j].tag = vendor[k].tag /\ tlvs[j].value = vendor[k].value

\* What a loop that wants a byte of value reads to the end, and the country can mask.
Sound(tlvs) ==
  /\ Short(tlvs, Extended) /\ Distinct(tlvs)
  /\ tlvs # <<>> => tlvs[Len(tlvs)].value # <<>>
  /\ \A j \in 1..Len(tlvs) :
       tlvs[j].tag \in {UWB_CHANNELS, CCC_UWB_CHANNELS} => Len(tlvs[j].value) = 1

LEMMA VendorBytes == VendorSpecific \in SUBSET Byte
BY DEF VendorSpecific, Byte

LEMMA ChipShort ==
  ASSUME device \in Devices
  PROVE  /\ Short(caps, VendorSpecific) /\ Short(vendor, Extended)
         /\ Len(Encode(caps)) \in Nat /\ Len(Encode(vendor)) \in Nat
         /\ Len(caps) \in Nat /\ Len(vendor) \in Nat
         /\ Len(Encode(caps)) + Len(Encode(vendor)) < 254
<1> DEFINE m == Len(Encode(caps))  n == Len(Encode(vendor))
<1>1. /\ caps \in Seq(Readable(VendorSpecific)) /\ vendor \in Seq(Readable(Extended))
      /\ m + n < 254
  BY ChipParts
<1>2. m \in Nat /\ n \in Nat /\ Len(caps) \in Nat /\ Len(vendor) \in Nat
  BY <1>1, VendorBytes, Extends, FewerThanBytes
<1> HIDE DEF m, n
<1>3. m < 254 /\ n < 254
  BY <1>1, <1>2
<1> QED BY <1>1, <1>2, <1>3 DEF Short, m, n

\* No vendor capabilities: the response as it came, but for a byte.
LEMMA AsItCame ==
  ASSUME device \in Devices, vendor = <<>>, antennas \in Pairs
  PROVE  \E tlvs : /\ Bears(parse_get_capsInfo(CapsResponse(UCI_STATUS_OK, caps)), 0, tlvs)
                   /\ Gathers(tlvs) /\ Sound(tlvs)
<1> DEFINE p == CapsResponse(UCI_STATUS_OK, caps)  made == inPlace(caps)  n == Len(caps)
           read == Walk(p, VendorSpecific, 6, 0)
<1>1. caps \in Seq(Readable(VendorSpecific)) /\ Short(caps, VendorSpecific) /\ n \in Nat
  BY ChipParts, ChipShort
<1>2. Bears(p, 0, caps)
  <2>1. UCI_STATUS_OK = 0 /\ 0 \in 0..1
    BY DEF UCI_STATUS_OK
  <2> QED BY <1>1, <2>1, VendorBytes, ResponseSays
<1> HIDE DEF p
<1>3. read = [ok |-> TRUE, tlvs |-> caps]
  <2>1. 0 \in 0..1 /\ ~ (0 = 1)
    OBVIOUS
  <2> QED BY <1>1, <1>2, <2>1, VendorBytes, ReadsBack
<1>4. read.tlvs = caps
  BY <1>3
<1> HIDE DEF read
<1>5. /\ p \in Seq(Byte) /\ Len(p) = 6 + Len(Encode(caps)) /\ p[4] = 2 + Len(Encode(caps))
      /\ p[5] = 0 /\ p[6] = n
  BY <1>2 DEF Bears
<1>6. parse_get_capsInfo(p) = SubSeq(p, 1, 6) \o Encode(made)
  <2>1. p[5] = UCI_STATUS_OK
    BY <1>5 DEF UCI_STATUS_OK
  <2> HIDE DEF n, made
  <2>2. parse_get_capsInfo(p) = SubSeq(p, 1, 6) \o Encode(inPlace(read.tlvs))
    <3>1. read.tlvs = Walk(p, VendorSpecific, 6, 0).tlvs
      BY DEF read
    <3> QED BY <2>1, <3>1 DEF parse_get_capsInfo
  <2> QED BY <1>4, <2>2 DEF made
<1>7. /\ Remade(made, caps)
      /\ \A k \in 1..n : k \notin Overwritten(caps) => made[k] = caps[k]
  BY InPlaceIs
<1> HIDE DEF made
<1>8. /\ made \in Seq(Readable(Extended)) /\ Len(made) = n
      /\ \A k \in 1..n : made[k].tag = caps[k].tag /\ Len(made[k].value) = Len(caps[k].value)
  BY <1>7 DEF Remade
<1>9. Len(Encode(made)) = Len(Encode(caps)) /\ Short(made, Extended)
  <2>1. Len(Encode(made)) = Len(Encode(caps))
    BY <1>1, <1>7, VendorBytes, RemadeLength
  <2> QED BY <1>1, <1>8, <2>1 DEF Short
<1> DEFINE q == SubSeq(p, 1, 6)
<1>10. Heads(q, 0, made)
  <2>1. Len(Encode(caps)) \in Nat
    BY ChipShort
  <2>2. 6 \in 0..Len(p) /\ 1 \in 1..(Len(p) + 1)
    BY <1>5, <2>1
  <2>3. q \in Seq(Byte) /\ Len(q) = 6 /\ \A i \in 1..6 : q[i] = p[i]
    BY <1>5, <2>1, <2>2, SubSeqProperties
  <2>4. q[4] = p[4] /\ q[5] = p[5] /\ q[6] = p[6]
    BY <2>3
  <2> HIDE DEF q
  <2> QED BY <1>5, <1>8, <1>9, <2>3, <2>4 DEF Heads
<1> HIDE DEF q
<1>11. Bears(parse_get_capsInfo(p), 0, made)
  <2>1. Bears(q \o Encode(made), 0, made)
    BY <1>9, <1>10, Extends, SaidAfter
  <2> QED BY <1>6, <2>1 DEF q
<1>12. Gathers(made)
  <2>1. Own = 1..n /\ 1..Len(vendor) = {}
    BY ChipShort, EmptySeq DEF Own
  <2>2. DOMAIN caps = 1..n
    BY ChipTags
  <2>3. ASSUME NEW k \in 1..n, k \in Spared PROVE made[k].value = Rewrote(caps[k])
    <3>1. k \notin Overwritten(caps)
      BY <2>2, <2>3 DEF Spared
    <3>2. Rewrote(caps[k]) = caps[k].value
      BY DEF Rewrote
    <3> QED BY <1>7, <3>1, <3>2
  <2> QED BY <1>8, <2>1, <2>3 DEF Gathers
<1>13. Sound(made)
  <2>1. Distinct(made)
    BY <1>8, ChipParts DEF Distinct, n
  <2>2. ASSUME made # <<>> PROVE made[Len(made)].value # <<>>
    <3>1. n # 0
      BY <1>8, <2>2, EmptySeq
    <3>2. n \in 1..n /\ caps # <<>>
      BY <1>1, <3>1
    <3> DEFINE v == caps[n].value  w == made[n].value
    <3>3. v # <<>> /\ Len(w) = Len(v)
      BY <1>8, <3>2, ChipParts
    <3>4. v \in Seq(Byte) /\ w \in Seq(Byte)
      <4>1. caps[n] \in Readable(VendorSpecific) /\ made[n] \in Readable(Extended)
        BY <1>1, <1>8, <3>2, ElementOfSeq
      <4> QED BY <4>1, ReadableParts
    <3> HIDE DEF v, w
    <3>5. w # <<>>
      BY <3>3, <3>4, EmptySeq
    <3> QED BY <1>8, <3>5 DEF w
  <2>3. ASSUME NEW j \in 1..n, made[j].tag \in {UWB_CHANNELS, CCC_UWB_CHANNELS}
        PROVE  Len(made[j].value) = 1
    BY <1>8, <2>3, ChipTags
  <2> QED BY <1>8, <1>9, <2>1, <2>2, <2>3 DEF Sound
<1> QED BY <1>11, <1>12, <1>13 DEF p

LEMMA OverAByte ==
  ASSUME NEW tag \in Nat
  PROVE  tag \notin TwoByteTags <=> tag < 256
BY DEF TwoByteTags, Byte

KeptTags == Without(caps, TwoByteTags)

\* The parameters of the chip with one-byte tags.
LEMMA OneByteTags ==
  ASSUME device \in Devices
  PROVE  /\ Kept(KeptTags) /\ Distinct(KeptTags)
         /\ Len(Encode(KeptTags)) <= Len(Encode(caps)) /\ Len(KeptTags) <= Len(caps)
         /\ \A y \in 1..Len(KeptTags) : \E k \in 1..Len(caps) :
              caps[k].tag < 256 /\ KeptTags[y] = caps[k]
         /\ \A k \in 1..Len(caps) :
              caps[k].tag < 256 => \E y \in 1..Len(KeptTags) : KeptTags[y] = caps[k]
<1> DEFINE kept == KeptTags
<1>1. caps \in Seq(Readable(VendorSpecific)) /\ Distinct(caps)
  BY ChipParts
<1>2. Leaves(kept, caps, TwoByteTags) /\ kept \in Seq(Readable(VendorSpecific))
  BY <1>1, WithoutLeaves, WithoutKeeps DEF KeptTags
<1> HIDE DEF kept
<1>3. \A k \in 1..Len(caps) : caps[k].tag \notin TwoByteTags <=> caps[k].tag < 256
  <2> SUFFICES ASSUME NEW k \in 1..Len(caps)
               PROVE  caps[k].tag \notin TwoByteTags <=> caps[k].tag < 256
    OBVIOUS
  <2>1. caps[k] \in Readable(VendorSpecific)
    BY <1>1, ElementOfSeq
  <2>2. caps[k].tag \in Nat /\ caps[k].tag < 65536
    BY <2>1, ReadableParts
  <2> QED BY <2>2, OverAByte
<1>4. \A y \in 1..Len(kept) : \E k \in 1..Len(caps) : caps[k].tag < 256 /\ kept[y] = caps[k]
  BY <1>2, <1>3, Zenon DEF Leaves
<1>5. \A k \in 1..Len(caps) :
        caps[k].tag < 256 => \E y \in 1..Len(kept) : kept[y] = caps[k]
  BY <1>2, <1>3, Zenon DEF Leaves
<1>6. ASSUME NEW y \in 1..Len(kept)
      PROVE  /\ kept[y] \in Readable(Extended)
             /\ kept[y].tag = AOA_SUPPORT => Len(kept[y].value) = 1
             /\ kept[y].tag = CCC_SUPPORTED_PROTOCOL_VERSIONS => Len(kept[y].value) = 2
  <2>1. PICK k \in 1..Len(caps) : caps[k].tag < 256 /\ kept[y] = caps[k]
    BY <1>4
  <2> QED BY <2>1, ChipTags
<1>7. kept \in Seq(Readable(Extended)) /\ Len(kept) \in Nat
  <2>1. Len(kept) \in Nat /\ kept = [y \in 1..Len(kept) |-> kept[y]]
    BY <1>2, LenProperties
  <2> DEFINE n == Len(kept)
  <2> HIDE DEF n
  <2>2. kept \in [1..n -> Readable(Extended)]
    BY <1>6, <2>1 DEF n
  <2>3. n \in Nat
    BY <2>1 DEF n
  <2>4. kept \in Seq(Readable(Extended))
    BY <2>2, <2>3
  <2> QED BY <2>1, <2>4
<1>8. Kept(kept)
  BY <1>6, <1>7 DEF Kept
<1>9. Len(Encode(kept)) <= Len(Encode(caps)) /\ Len(kept) <= Len(caps) /\ Distinct(kept)
  <2>1. kept = Without(caps, TwoByteTags)
    BY DEF kept, KeptTags
  <2> QED BY <1>1, <1>7, <2>1, VendorBytes, Extends, WithoutShortens
<1> QED BY <1>4, <1>5, <1>8, <1>9 DEF kept

Anew == rebuilt(KeptTags) \o vendor

\* What is in a response that is written anew.
LEMMA AnewHas ==
  ASSUME device \in Devices, vendor # <<>>, antennas \in Pairs
  PROVE  /\ Anew \in Seq(Readable(Extended)) /\ Len(Anew) = Len(KeptTags) + Len(vendor)
         /\ \A y \in 1..Len(KeptTags) : /\ Anew[y].tag = KeptTags[y].tag
                                        /\ Len(Anew[y].value) = Len(KeptTags[y].value)
                                        /\ Anew[y].value = Rewrote(KeptTags[y])
         /\ \A x \in 1..Len(vendor) : Anew[Len(KeptTags) + x] = vendor[x]
         /\ Len(Encode(Anew)) = Len(Encode(KeptTags)) + Len(Encode(vendor))
         /\ Len(Encode(Anew)) < 254
<1> DEFINE kept == KeptTags  made == rebuilt(kept)
<1>1. kept \in Seq(Readable(Extended)) /\ Kept(kept) /\ Len(Encode(kept)) <= Len(Encode(caps))
  BY OneByteTags DEF Kept
<1>2. Remade(made, kept) /\ \A k \in 1..Len(kept) : made[k].value = Rewrote(kept[k])
  BY <1>1, RebuiltIs
<1>3. Anew = made \o vendor
  BY DEF Anew
<1> HIDE DEF kept, made
<1>4. /\ made \in Seq(Readable(Extended)) /\ Len(made) = Len(kept)
      /\ \A k \in 1..Len(kept) : made[k].tag = kept[k].tag /\ Len(made[k].value) = Len(kept[k].value)
  BY <1>2 DEF Remade
<1>5. vendor \in Seq(Readable(Extended))
  BY ChipParts
<1>6. /\ Anew \in Seq(Readable(Extended)) /\ Len(Anew) = Len(made) + Len(vendor)
      /\ \A y \in 1..Len(made) : Anew[y] = made[y]
      /\ \A x \in 1..Len(vendor) : Anew[Len(made) + x] = vendor[x]
  <2>1. made \in Seq(Readable(Extended)) /\ vendor \in Seq(Readable(Extended)) /\ Anew = made \o vendor
    BY <1>3, <1>4, <1>5
  <2> QED BY <2>1, ConcatParts
<1>7. Len(Encode(Anew)) = Len(Encode(kept)) + Len(Encode(vendor))
  <2>1. Len(Encode(made)) = Len(Encode(kept))
    BY <1>1, <1>2, Extends, RemadeLength
  <2>2. Len(Encode(made \o vendor)) = Len(Encode(made)) + Len(Encode(vendor))
    BY <1>4, <1>5, Extends, ConcatLength
  <2> QED BY <1>3, <2>1, <2>2
<1>8. Len(Encode(Anew)) < 254
  <2> DEFINE k == Len(Encode(kept))  m == Len(Encode(caps))  n == Len(Encode(vendor))
  <2>1. m \in Nat /\ n \in Nat /\ m + n < 254
    BY ChipShort
  <2>2. k \in Nat /\ k <= m
    BY <1>1, Extends, FewerThanBytes
  <2>3. Len(Encode(Anew)) = k + n
    BY <1>7
  <2> HIDE DEF k, m, n
  <2> QED BY <2>1, <2>2, <2>3
<1> QED BY <1>2, <1>4, <1>6, <1>7, <1>8 DEF kept

LEMMA AnewSound ==
  ASSUME device \in Devices, vendor # <<>>, antennas \in Pairs
  PROVE  Gathers(Anew) /\ Sound(Anew)
<1> DEFINE kept == KeptTags  m == Len(kept)  n == Len(vendor)
<1>1. /\ Anew \in Seq(Readable(Extended)) /\ Len(Anew) = m + n
      /\ \A y \in 1..m : /\ Anew[y].tag = kept[y].tag
                         /\ Len(Anew[y].value) = Len(kept[y].value)
                         /\ Anew[y].value = Rewrote(kept[y])
      /\ \A x \in 1..n : Anew[m + x] = vendor[x]
      /\ Len(Encode(Anew)) < 254
  BY AnewHas
<1>2. /\ \A y \in 1..m : \E k \in 1..Len(caps) : caps[k].tag < 256 /\ kept[y] = caps[k]
      /\ \A k \in 1..Len(caps) : caps[k].tag < 256 => \E y \in 1..m : kept[y] = caps[k]
      /\ kept \in Seq(Readable(Extended)) /\ Distinct(kept)
  BY OneByteTags DEF Kept
<1> HIDE DEF kept
<1>3. m \in Nat /\ n \in Nat
  BY <1>2, ChipShort, LenProperties
<1> HIDE DEF m, n
<1>4. ASSUME NEW j \in 1..(m + n)
      PROVE  j \in 1..m \/ \E x \in 1..n : j = m + x
  <2>1. CASE j <= m
    BY <1>3, <2>1
  <2>2. CASE ~ (j <= m)
    <3>1. j - m \in 1..n /\ j = m + (j - m)
      BY <1>3, <2>2
    <3> QED BY <3>1
  <2> QED BY <2>1, <2>2
<1>5. \A y \in 1..m : y \in 1..(m + n)
  BY <1>3
<1>6. \A x \in 1..n : m + x \in 1..(m + n)
  BY <1>3
<1>7. Gathers(Anew)
  <2>1. ASSUME NEW j \in 1..(m + n)
        PROVE  \/ \E k \in Own : Anew[j].tag = caps[k].tag
               \/ \E k \in 1..n : Anew[j].tag = vendor[k].tag
    <3>1. CASE j \in 1..m
      <4>1. PICK k \in 1..Len(caps) : caps[k].tag < 256 /\ kept[j] = caps[k]
        BY <1>2, <3>1
      <4>2. k \in Own
        BY <4>1 DEF Own
      <4> QED BY <1>1, <3>1, <4>1, <4>2
    <3>2. CASE \E x \in 1..n : j = m + x
      BY <1>1, <3>2
    <3> QED BY <1>4, <3>1, <3>2
  <2>2. ASSUME NEW k \in Own
        PROVE  \E j \in 1..(m + n) :
                 Anew[j].tag = caps[k].tag /\ (k \in Spared => Anew[j].value = Rewrote(caps[k]))
    <3>1. k \in 1..Len(caps) /\ caps[k].tag < 256
      BY DEF Own
    <3>2. PICK y \in 1..m : kept[y] = caps[k]
      BY <1>2, <3>1
    <3>3. y \in 1..(m + n)
      BY <1>5
    <3> QED BY <1>1, <3>2, <3>3
  <2>3. ASSUME NEW k \in 1..n
        PROVE  \E j \in 1..(m + n) : Anew[j].tag = vendor[k].tag /\ Anew[j].value = vendor[k].value
    BY <1>1, <1>6
  <2> QED BY <1>1, <2>1, <2>2, <2>3 DEF Gathers, n
<1>8. Distinct(Anew)
  <2> SUFFICES ASSUME NEW i \in 1..(m + n), NEW j \in 1..(m + n), Anew[i].tag = Anew[j].tag
               PROVE  i = j
    BY <1>1 DEF Distinct
  <2>1. \A y \in 1..m : \A x \in 1..n : Anew[y].tag # Anew[m + x].tag
    <3> SUFFICES ASSUME NEW y \in 1..m, NEW x \in 1..n PROVE Anew[y].tag # Anew[m + x].tag
      OBVIOUS
    <3>1. PICK k \in 1..Len(caps) : kept[y] = caps[k]
      BY <1>2
    <3>2. caps[k].tag # vendor[x].tag
      BY ChipParts DEF n
    <3> QED BY <1>1, <3>1, <3>2
  <2>2. CASE i \in 1..m /\ j \in 1..m
    <3>1. kept[i].tag = kept[j].tag
      BY <1>1, <2>2
    <3> QED BY <1>2, <2>2, <3>1 DEF Distinct, m
  <2>3. CASE \E x, y \in 1..n : i = m + x /\ j = m + y
    <3>1. PICK x, y \in 1..n : i = m + x /\ j = m + y
      BY <2>3
    <3>2. vendor[x].tag = vendor[y].tag
      BY <1>1, <3>1
    <3>3. x = y
      BY <3>2, ChipParts DEF Distinct, n
    <3> QED BY <3>1, <3>3
  <2>4. ~ (i \in 1..m /\ \E x \in 1..n : j = m + x)
    BY <2>1
  <2>5. ~ (j \in 1..m /\ \E x \in 1..n : i = m + x)
    BY <2>1
  <2> QED BY <1>4, <2>2, <2>3, <2>4, <2>5
<1>9. Anew[Len(Anew)].value # <<>>
  <2>1. n # 0 /\ vendor[n].value # <<>>
    BY ChipParts, EmptySeq DEF n
  <2>2. n \in 1..n
    BY <1>3, <2>1
  <2> QED BY <1>1, <2>1, <2>2
<1>10. ASSUME NEW j \in 1..(m + n), Anew[j].tag \in {UWB_CHANNELS, CCC_UWB_CHANNELS}
       PROVE  Len(Anew[j].value) = 1
  <2>1. CASE j \in 1..m
    <3>1. PICK k \in 1..Len(caps) : kept[j] = caps[k]
      BY <1>2, <2>1
    <3>2. caps[k].tag \in {UWB_CHANNELS, CCC_UWB_CHANNELS}
      BY <1>1, <1>10, <2>1, <3>1
    <3>3. Len(caps[k].value) = 1
      BY <3>2, ChipTags
    <3> QED BY <1>1, <2>1, <3>1, <3>3
  <2>2. CASE \E x \in 1..n : j = m + x
    <3>1. PICK x \in 1..n : j = m + x
      BY <2>2
    <3>2. vendor[x].tag \notin {UWB_CHANNELS, CCC_UWB_CHANNELS}
      BY ChipTags DEF n
    <3> QED BY <1>1, <1>10, <3>1, <3>2
  <2> QED BY <1>4, <2>1, <2>2
<1>11. Sound(Anew)
  BY <1>1, <1>8, <1>9, <1>10 DEF Sound, Short
<1> QED BY <1>7, <1>11

\* The header is that of what follows.
LEMMA AnewCounts ==
  ASSUME NEW lc \in Nat, NEW lk \in Nat, NEW lv \in Nat, lk <= lc, lc + lv < 254,
         NEW nc \in Nat, NEW nk \in Nat, nk <= nc
  PROVE  /\ ((2 + lc) - (lc - lk) + lv) % 256 = 2 + (lk + lv)
         /\ (2 + lc) - (lc - lk) + lv - 2 = lk + lv
         /\ nc - (nc - nk) = nk
<1> DEFINE n == (2 + lc) - (lc - lk) + lv
<1>1. n = 2 + (lk + lv) /\ n \in 0..255
  OBVIOUS
<1> HIDE DEF n
<1>2. n % 256 = n
  BY <1>1
<1>3. n - 2 = lk + lv /\ nc - (nc - nk) = nk
  BY <1>1
<1> QED BY <1>1, <1>2, <1>3 DEF n

LEMMA WrittenAnew ==
  ASSUME device \in Devices, vendor # <<>>, antennas \in Pairs
  PROVE  Bears(parse_get_capsInfo(CapsResponse(UCI_STATUS_OK, caps)), 0, Anew)
<1> DEFINE p == CapsResponse(UCI_STATUS_OK, caps)  kept == KeptTags
           read == Walk(p, VendorSpecific, 6, 0)  all == Encode(Anew)
           lc == Len(Encode(caps))  lk == Len(Encode(kept))  lv == Len(Encode(vendor))
           nc == Len(caps)  nk == Len(kept)  nv == Len(vendor)
<1>1. caps \in Seq(Readable(VendorSpecific)) /\ Short(caps, VendorSpecific)
  BY ChipParts, ChipShort
<1>2. Bears(p, 0, caps)
  <2>1. UCI_STATUS_OK = 0 /\ 0 \in 0..1
    BY DEF UCI_STATUS_OK
  <2> QED BY <1>1, <2>1, VendorBytes, ResponseSays
<1> HIDE DEF p
<1>3. read = [ok |-> TRUE, tlvs |-> caps]
  <2>1. 0 \in 0..1 /\ ~ (0 = 1)
    OBVIOUS
  <2> QED BY <1>1, <1>2, <2>1, VendorBytes, ReadsBack
<1>4. read.tlvs = caps
  BY <1>3
<1>5. p[4] = 2 + lc /\ p[5] = UCI_STATUS_OK /\ p[6] = nc
  BY <1>2 DEF Bears, UCI_STATUS_OK
<1>6. /\ lc \in Nat /\ lk \in Nat /\ lv \in Nat /\ lk <= lc /\ lc + lv < 254
      /\ nc \in Nat /\ nk \in Nat /\ nk <= nc /\ nv \in Nat
  <2>1. kept \in Seq(Readable(Extended)) /\ lk <= lc /\ nk <= nc
    BY OneByteTags DEF Kept
  <2>2. lk \in Nat /\ nk \in Nat
    BY <2>1, Extends, FewerThanBytes
  <2> QED BY <2>1, <2>2, ChipShort
<1>7. Short(Anew, Extended) /\ Len(all) = lk + lv /\ Len(Anew) = nk + nv
  BY AnewHas DEF Short
<1> DEFINE length == (2 + lc) - (lc - lk) + lv
           q == <<64, 3, 0, length % 256, UCI_STATUS_OK, nc - (nc - nk) + nv>>
<1>8. parse_get_capsInfo(p) = q \o SubSeq(all, 1, length - 2)
  <2> DEFINE tlvs == Walk(p, VendorSpecific, 6, 0).tlvs
             rest == Without(tlvs, TwoByteTags)
             bytes == Encode(rebuilt(rest) \o vendor)
             capsLen == p[6] - (Len(tlvs) - Len(rest))
             size == p[4] - (Len(Encode(tlvs)) - Len(Encode(rest))) + Len(Encode(vendor))
  <2>1. parse_get_capsInfo(p) =
          <<64, 3, 0, size % 256, UCI_STATUS_OK, capsLen + Len(vendor)>> \o SubSeq(bytes, 1, size - 2)
    BY <1>5 DEF parse_get_capsInfo
  <2>2. tlvs = caps
    BY <1>4
  <2> HIDE DEF tlvs
  <2>3. rest = kept
    BY <2>2 DEF KeptTags
  <2> HIDE DEF rest, kept
  <2>4. bytes = all
    BY <2>3 DEF Anew, kept
  <2> HIDE DEF bytes, all
  <2>5. size = length
    BY <1>5, <2>2, <2>3
  <2>6. capsLen = nc - (nc - nk)
    BY <1>5, <2>2, <2>3
  <2> HIDE DEF size, capsLen, length
  <2> QED BY <2>1, <2>4, <2>5, <2>6
<1>9. /\ length % 256 = 2 + (lk + lv) /\ length - 2 = lk + lv /\ nc - (nc - nk) = nk
  <2> HIDE DEF lc, lk, lv, nc, nk
  <2> QED BY <1>6, AnewCounts
<1>10. /\ all \in Seq(Byte) /\ Len(all) \in Nat
       /\ 2 + Len(all) \in Byte /\ Len(Anew) \in Byte
  <2>1. all \in Seq(Byte) /\ Len(all) \in 0..253 /\ 2 + Len(all) \in Byte /\ Len(Anew) \in Byte
    BY <1>7, Extends, ShortParts, ZenonT(40)
  <2> QED BY <2>1
<1>11. SubSeq(all, 1, length - 2) = all
  <2>1. length - 2 = Len(all)
    BY <1>7, <1>9
  <2> HIDE DEF all, length
  <2> QED BY <1>10, <2>1, SubSeqFull
<1>12. q = <<64, 3, 0, 2 + Len(all), UCI_STATUS_OK, Len(Anew)>>
  BY <1>7, <1>9
<1> HIDE DEF q, all, length
<1>13. Heads(q, 0, Anew)
  <2> DEFINE m == Len(all)  n == Len(Anew)
  <2>1. /\ 64 \in Byte /\ 3 \in Byte /\ 0 \in Byte /\ 2 + m \in Byte /\ n \in Byte
        /\ UCI_STATUS_OK = 0
    BY <1>10, SMTT(30) DEF Byte, UCI_STATUS_OK
  <2> HIDE DEF m, n
  <2>2. q = <<64, 3, 0, 2 + m, 0, n>>
    BY <1>12, <2>1 DEF m, n
  <2>3. q \in Seq(Byte) /\ Len(q) = 6 /\ q[4] = 2 + m /\ q[5] = 0 /\ q[6] = n
    BY <2>1, <2>2
  <2> QED BY <2>3 DEF Heads, m, n, all
<1>14. Bears(q \o Encode(Anew), 0, Anew)
  BY <1>7, <1>13, Extends, SaidAfter
<1>15. parse_get_capsInfo(p) = q \o Encode(Anew)
  BY <1>8, <1>11 DEF all
<1> QED BY <1>14, <1>15 DEF p

\* What phNxpUciHal_parse makes of a response.
LEMMA Prepared ==
  ASSUME device \in Devices, antennas \in Pairs
  PROVE  \E tlvs : /\ Bears(parse_get_capsInfo(CapsResponse(UCI_STATUS_OK, caps)), 0, tlvs)
                   /\ Gathers(tlvs) /\ Sound(tlvs)
<1>1. CASE vendor = <<>>
  BY <1>1, AsItCame
<1>2. CASE vendor # <<>>
  BY <1>2, WrittenAnew, AnewSound
<1> QED BY <1>1, <1>2

-----------------------------------------------------------------------------
(* The country's mask.                                                      *)

\* What the mask leaves of a value.
MaskedValue(tag, value) ==
  IF tag = UWB_CHANNELS THEN <<FromBits(Bits(value[1]) \ ChannelsDenied(restricted))>>
  ELSE IF tag = CCC_UWB_CHANNELS THEN <<FromBits(Bits(value[1]) \ CccDenied(restricted))>>
  ELSE value

Country == isCountryCodeMapCreated = TRUE /\ Denies(conf_map, restricted)
           /\ restricted \in SUBSET {5, 9}

LEMMA OneByte ==
  ASSUME NEW v \in Seq(Byte), Len(v) = 1, NEW byte \in Byte, NEW w,
         w = [j \in DOMAIN v |-> byte]
  PROVE  w = <<byte>> /\ <<byte>> \in Seq(Byte) /\ Len(<<byte>>) = 1
<1>1. DOMAIN v = 1..1
  BY LenProperties
<1> DEFINE u == <<byte>>
<1>2. w \in Seq(Byte) /\ Len(w) = 1 /\ w[1] = byte
  BY <1>1
<1>3. u \in Seq(Byte) /\ Len(u) = 1 /\ u[1] = byte
  OBVIOUS
<1> HIDE DEF u
<1>4. \A i \in 1..Len(w) : w[i] = u[i]
  BY <1>2, <1>3
<1>5. w = u
  BY <1>2, <1>3, <1>4, SeqEqual
<1> QED BY <1>3, <1>5 DEF u

IsMasked(w, v, c) == w = [j \in DOMAIN v |-> FromBits(Bits(c[j]) \cap Bits(v[j]))]

\* The masking of one byte of channels.
LEMMA MasksByte ==
  ASSUME NEW v \in Seq(Byte), Len(v) = 1, NEW conf, NEW denied,
         Bits(conf) = Powers \ denied, NEW c, c = <<conf>>, NEW w, IsMasked(w, v, c)
  PROVE  /\ w = <<FromBits(Bits(v[1]) \ denied)>>
         /\ w \in Seq(Byte) /\ Len(w) = 1
<1> DEFINE byte == FromBits(Bits(v[1]) \ denied)
<1>1. DOMAIN v = 1..1
  BY LenProperties
<1>2. c[1] = conf
  OBVIOUS
<1>3. FromBits(Bits(conf) \cap Bits(v[1])) = byte /\ byte \in Byte
  BY Masks
<1> HIDE DEF byte
<1>4. ASSUME NEW j \in DOMAIN v PROVE FromBits(Bits(c[j]) \cap Bits(v[j])) = byte
  <2>1. j = 1
    BY <1>1
  <2> QED BY <1>2, <1>3, <2>1
<1>5. w = [j \in DOMAIN v |-> byte]
  BY <1>4 DEF IsMasked
<1>6. w = <<byte>> /\ <<byte>> \in Seq(Byte) /\ Len(<<byte>>) = 1
  BY <1>3, <1>5, OneByte
<1> QED BY <1>6 DEF byte

LEMMA MaskedAt ==
  ASSUME Country, NEW map, NEW tag \in DOMAIN map, map[tag] \in Seq(Byte),
         tag \in {UWB_CHANNELS, CCC_UWB_CHANNELS} => Len(map[tag]) = 1
  PROVE  /\ DOMAIN Masked(map) = DOMAIN map
         /\ Masked(map)[tag] = MaskedValue(tag, map[tag])
         /\ Masked(map)[tag] \in Seq(Byte) /\ Len(Masked(map)[tag]) = Len(map[tag])
<1> DEFINE v == map[tag]
           w == [j \in DOMAIN v |-> FromBits(Bits(conf_map[tag][j]) \cap Bits(v[j]))]
<1>1. /\ DOMAIN conf_map = {UWB_CHANNELS, CCC_UWB_CHANNELS}
      /\ conf_map[UWB_CHANNELS] = <<ChannelByte(restricted)>>
      /\ conf_map[CCC_UWB_CHANNELS] = <<CccByte(restricted)>>
  BY DEF Country, Denies
<1>2. /\ Bits(ChannelByte(restricted)) = Powers \ ChannelsDenied(restricted)
      /\ Bits(CccByte(restricted)) = Powers \ CccDenied(restricted)
  BY CountryBytes DEF Country
<1>3. /\ DOMAIN Masked(map) = DOMAIN map
      /\ Masked(map)[tag] = IF tag \in {UWB_CHANNELS, CCC_UWB_CHANNELS} THEN w ELSE v
  BY <1>1 DEF Masked
<1>4. UWB_CHANNELS # CCC_UWB_CHANNELS
  BY DEF UWB_CHANNELS, CCC_UWB_CHANNELS
<1>5. v \in Seq(Byte) /\ (tag \in {UWB_CHANNELS, CCC_UWB_CHANNELS} => Len(v) = 1)
  OBVIOUS
<1>6. IsMasked(w, v, conf_map[tag])
  BY DEF IsMasked
<1> HIDE DEF v, w
<1>7. CASE tag = UWB_CHANNELS
  <2>1. w = <<FromBits(Bits(v[1]) \ ChannelsDenied(restricted))>> /\ w \in Seq(Byte) /\ Len(w) = 1
    <3> DEFINE c == conf_map[tag]  conf == ChannelByte(restricted)
               denied == ChannelsDenied(restricted)
    <3>1. /\ v \in Seq(Byte) /\ Len(v) = 1 /\ Bits(conf) = Powers \ denied /\ c = <<conf>>
          /\ IsMasked(w, v, c)
      BY <1>1, <1>2, <1>5, <1>6, <1>7
    <3> HIDE DEF c, conf, denied
    <3>2. w = <<FromBits(Bits(v[1]) \ denied)>> /\ w \in Seq(Byte) /\ Len(w) = 1
      BY <3>1, MasksByte
    <3> QED BY <3>2 DEF denied
  <2> QED BY <1>3, <1>5, <1>7, <2>1 DEF MaskedValue, v
<1>8. CASE tag = CCC_UWB_CHANNELS
  <2>1. w = <<FromBits(Bits(v[1]) \ CccDenied(restricted))>> /\ w \in Seq(Byte) /\ Len(w) = 1
    <3> DEFINE c == conf_map[tag]  conf == CccByte(restricted)  denied == CccDenied(restricted)
    <3>1. /\ v \in Seq(Byte) /\ Len(v) = 1 /\ Bits(conf) = Powers \ denied /\ c = <<conf>>
          /\ IsMasked(w, v, c)
      BY <1>1, <1>2, <1>5, <1>6, <1>8
    <3> HIDE DEF c, conf, denied
    <3>2. w = <<FromBits(Bits(v[1]) \ denied)>> /\ w \in Seq(Byte) /\ Len(w) = 1
      BY <3>1, MasksByte
    <3> QED BY <3>2 DEF denied
  <2> QED BY <1>3, <1>4, <1>5, <1>8, <2>1 DEF MaskedValue, v
<1>9. CASE tag \notin {UWB_CHANNELS, CCC_UWB_CHANNELS}
  <2>1. Masked(map)[tag] = v /\ MaskedValue(tag, v) = v
    BY <1>3, <1>9 DEF MaskedValue
  <2> QED BY <1>3, <1>5, <2>1 DEF v
<1> QED BY <1>7, <1>8, <1>9

LEMMA TlvOf ==
  ASSUME NEW t \in Readable(Extended), NEW value \in Seq(Byte), Len(value) = Len(t.value), NEW u,
         u = Tlv(t.tag, value)
  PROVE  /\ u \in Readable(Extended) /\ u.tag = t.tag /\ u.value = value
         /\ Len(TlvBytes(u)) = Len(TlvBytes(t))
<1>1. /\ t.tag \in Nat /\ t.tag < 65536 /\ Len(t.value) < 253
      /\ t.tag > 255 => t.tag \div 256 \in Extended
      /\ t.tag < 256 => t.tag \notin Extended
  BY ReadableParts
<1>2. u \in [tag : Nat, value : Seq(Byte)] /\ u.tag = t.tag /\ u.value = value
  BY <1>1 DEF Tlv
<1>3. u \in Readable(Extended)
  BY <1>1, <1>2 DEF Readable
<1>4. Len(TlvBytes(u)) = Head3(u) + Len(u.value) /\ Len(TlvBytes(t)) = Head3(t) + Len(t.value)
  BY <1>3, Extends, TlvLength, Zenon
<1>5. Head3(u) = Head3(t)
  BY <1>2 DEF Head3
<1> QED BY <1>2, <1>3, <1>4, <1>5

\* The tags a map took of distinct parameters are as many.
LEMMA TookFinite ==
  ASSUME NEW S, NEW tlvs \in Seq(S), Distinct(tlvs), NEW map, Took(map, NoTags, tlvs)
  PROVE  /\ IsFiniteSet(DOMAIN map) /\ Cardinality(DOMAIN map) = Len(tlvs)
         /\ \A tag \in DOMAIN map : \E k \in 1..Len(tlvs) : tag = tlvs[k].tag
<1> DEFINE n == Len(tlvs)  T == DOMAIN map  f == [k \in 1..n |-> tlvs[k].tag]
<1>1. T = {tlvs[k].tag : k \in 1..n}
  <2>1. DOMAIN NoTags = {}
    BY DEF NoTags
  <2> QED BY <2>1 DEF Took
<1>2. n \in Nat /\ \A j, k \in 1..n : tlvs[j].tag = tlvs[k].tag => j = k
  BY LenProperties DEF Distinct
<1> HIDE DEF n, T
<1>3. f \in Bijection(1..n, T)
  <2>1. f \in [1..n -> T]
    BY <1>1
  <2>2. \A t \in T : \E k \in 1..n : f[k] = t
    BY <1>1
  <2>3. \A j, k \in 1..n : f[j] = f[k] => j = k
    BY <1>2
  <2> HIDE DEF f
  <2>4. f \in Injection(1..n, T)
    BY <2>1, <2>3 DEF Injection, IsInjective
  <2>5. f \in Surjection(1..n, T)
    BY <2>1, <2>2 DEF Surjection
  <2> QED BY <2>4, <2>5 DEF Bijection
<1>4. IsFiniteSet(1..n) /\ Cardinality(1..n) = n
  BY <1>2, FS_Interval
<1>5. ExistsBijection(1..n, T)
  <2> HIDE DEF f
  <2> QED BY <1>3 DEF ExistsBijection
<1>6. IsFiniteSet(T) /\ Cardinality(T) = n
  BY <1>4, <1>5, FS_Bijection
<1> QED BY <1>1, <1>6 DEF n, T

\* fin has what new has, masked.
MaskedOf(fin, new) ==
  /\ \A j \in 1..Len(new) : \E k \in 1..Len(fin) :
       fin[k].tag = new[j].tag /\ fin[k].value = MaskedValue(new[j].tag, new[j].value)
  /\ \A k \in 1..Len(fin) : \E j \in 1..Len(new) : fin[k].tag = new[j].tag

\* A map that has taken sound parameters, masked and put in order.
LEMMA Ordered ==
  ASSUME Country, NEW new, Sound(new), NEW map, Took(map, NoTags, new),
         NEW fin, fin = InOrder(Masked(map))
  PROVE  /\ Short(fin, Extended) /\ Distinct(fin) /\ MaskedOf(fin, new)
         /\ Len(fin) = Cardinality(DOMAIN map)
<1> DEFINE n == Len(new)  masked == Masked(map)  T == DOMAIN map
<1>1. /\ new \in Seq(Readable(Extended)) /\ Distinct(new) /\ Len(Encode(new)) < 254
      /\ \A j \in 1..n :
           new[j].tag \in {UWB_CHANNELS, CCC_UWB_CHANNELS} => Len(new[j].value) = 1
  BY DEF Sound, Short
<1>2. /\ \A j \in 1..n : /\ map[new[j].tag] = new[j].value
                         /\ new[j].tag \in T
      /\ \A tag \in T : \E j \in 1..n : tag = new[j].tag
      /\ IsFiniteSet(T) /\ Cardinality(T) = n
  BY <1>1, TookFinite DEF Took
<1> HIDE DEF n, masked, T
<1>3. ASSUME NEW j \in 1..n
      PROVE  LET t == new[j] IN
             /\ t \in Readable(Extended) /\ DOMAIN masked = T
             /\ masked[t.tag] = MaskedValue(t.tag, t.value)
             /\ masked[t.tag] \in Seq(Byte) /\ Len(masked[t.tag]) = Len(t.value)
  <2> DEFINE t == new[j]  tag == t.tag
  <2>1. t \in Readable(Extended)
    BY <1>1, ElementOfSeq DEF n
  <2>2. t.value \in Seq(Byte) /\ map[tag] = t.value /\ tag \in DOMAIN map
        /\ (tag \in {UWB_CHANNELS, CCC_UWB_CHANNELS} => Len(t.value) = 1)
    BY <1>1, <1>2, <2>1, ReadableParts DEF T
  <2> HIDE DEF t, tag
  <2>3. /\ map[tag] \in Seq(Byte)
        /\ tag \in {UWB_CHANNELS, CCC_UWB_CHANNELS} => Len(map[tag]) = 1
    BY <2>2
  <2>4. /\ DOMAIN Masked(map) = DOMAIN map
        /\ Masked(map)[tag] = MaskedValue(tag, map[tag])
        /\ Masked(map)[tag] \in Seq(Byte) /\ Len(Masked(map)[tag]) = Len(map[tag])
    BY <2>2, <2>3, MaskedAt
  <2> QED BY <2>1, <2>2, <2>4 DEF masked, T, t, tag
<1>4. DOMAIN masked = T
  BY DEF masked, Masked, T
<1>5. ASSUME NEW tag \in T
      PROVE  /\ tag \in Nat /\ Tlv(tag, masked[tag]) \in Readable(Extended)
             /\ \E j \in 1..n : /\ tag = new[j].tag
                                /\ Len(TlvBytes(Tlv(tag, masked[tag]))) = Len(TlvBytes(new[j]))
                                /\ masked[tag] = MaskedValue(new[j].tag, new[j].value)
  <2>1. PICK j \in 1..n : tag = new[j].tag
    BY <1>2
  <2> DEFINE t == new[j]  value == masked[tag]  u == Tlv(t.tag, value)
  <2>2. /\ t \in Readable(Extended) /\ value = MaskedValue(t.tag, t.value)
        /\ value \in Seq(Byte) /\ Len(value) = Len(t.value) /\ t.tag = tag
    BY <1>3, <2>1
  <2>3. u = Tlv(t.tag, value) /\ u = Tlv(tag, value)
    BY <2>1
  <2> HIDE DEF t, value, u
  <2>4. u \in Readable(Extended) /\ Len(TlvBytes(u)) = Len(TlvBytes(t))
    BY <2>2, <2>3, TlvOf
  <2>5. t.tag \in Nat
    BY <2>2, ReadableParts
  <2> QED BY <2>1, <2>2, <2>3, <2>4, <2>5 DEF t, value
<1>6. fin \in Seq(Readable(Extended)) /\ Lists(fin, masked)
  <2>1. DOMAIN masked \in SUBSET Nat /\ IsFiniteSet(DOMAIN masked)
    BY <1>2, <1>4, <1>5
  <2>2. \A tag \in DOMAIN masked : Tlv(tag, masked[tag]) \in Readable(Extended)
    BY <1>4, <1>5
  <2>3. InOrder(masked) \in Seq(Readable(Extended)) /\ Lists(InOrder(masked), masked)
    BY <2>1, <2>2, OrderLists
  <2> QED BY <2>3 DEF masked
<1>7. /\ Len(fin) = n /\ Len(fin) = Cardinality(T) /\ Distinct(fin)
      /\ \A k \in 1..Len(fin) : fin[k].tag \in T /\ fin[k] = Tlv(fin[k].tag, masked[fin[k].tag])
      /\ \A tag \in T : \E k \in 1..Len(fin) : fin[k].tag = tag
  BY <1>2, <1>4, <1>6 DEF Lists
<1>8. ASSUME NEW k \in 1..n
      PROVE  \E j \in 1..n : fin[k].tag = new[j].tag /\ Len(TlvBytes(fin[k])) = Len(TlvBytes(new[j]))
  <2>1. fin[k].tag \in T /\ fin[k] = Tlv(fin[k].tag, masked[fin[k].tag])
    BY <1>7
  <2> QED BY <1>5, <2>1
<1> DEFINE h == [k \in 1..n |-> CHOOSE j \in 1..n :
                    fin[k].tag = new[j].tag /\ Len(TlvBytes(fin[k])) = Len(TlvBytes(new[j]))]
<1>9. ASSUME NEW k \in 1..n
      PROVE  /\ h[k] \in 1..n /\ fin[k].tag = new[h[k]].tag
             /\ Len(TlvBytes(fin[k])) = Len(TlvBytes(new[h[k]]))
  BY <1>8
<1>10. Picks(h, fin, new)
  <2>1. h \in [1..n -> 1..n]
    <3>1. h = [k \in 1..n |-> h[k]]
      OBVIOUS
    <3> HIDE DEF h
    <3> QED BY <1>9, <3>1
  <2> HIDE DEF h
  <2>2. \A j, k \in 1..n : h[j] = h[k] => j = k
    <3> SUFFICES ASSUME NEW j \in 1..n, NEW k \in 1..n, h[j] = h[k] PROVE j = k
      OBVIOUS
    <3>1. fin[j].tag = fin[k].tag
      BY <1>9
    <3> QED BY <1>7, <3>1 DEF Distinct
  <2> QED BY <1>7, <1>9, <2>1, <2>2 DEF Picks, n
<1> HIDE DEF h
<1>11. Short(fin, Extended)
  <2>1. Len(Encode(fin)) <= Len(Encode(new))
    BY <1>1, <1>6, <1>10, Extends, NotLonger
  <2>2. Len(Encode(fin)) \in Nat /\ Len(Encode(new)) \in Nat
    BY <1>1, <1>6, Extends, FewerThanBytes
  <2>3. Len(Encode(fin)) < 254
    BY <1>1, <2>1, <2>2
  <2> QED BY <1>6, <2>3 DEF Short
<1>12. MaskedOf(fin, new)
  <2>1. ASSUME NEW j \in 1..n
        PROVE  \E k \in 1..Len(fin) :
                 fin[k].tag = new[j].tag /\ fin[k].value = MaskedValue(new[j].tag, new[j].value)
    <3>1. new[j].tag \in T /\ masked[new[j].tag] = MaskedValue(new[j].tag, new[j].value)
      BY <1>2, <1>3
    <3>2. PICK k \in 1..Len(fin) : fin[k].tag = new[j].tag
      BY <1>7, <3>1
    <3>3. fin[k] = Tlv(fin[k].tag, masked[fin[k].tag])
      BY <1>7
    <3>4. fin[k].value = masked[fin[k].tag]
      BY <3>3 DEF Tlv
    <3> QED BY <3>1, <3>2, <3>4
  <2>2. \A k \in 1..Len(fin) : \E j \in 1..n : fin[k].tag = new[j].tag
    BY <1>7, <1>8
  <2> QED BY <2>1, <2>2 DEF MaskedOf, n
<1> QED BY <1>7, <1>11, <1>12 DEF T

\* tlvs are what the host should read.
Delivers(tlvs) ==
  /\ \A j \in 1..Len(tlvs) : \/ \E k \in Own : tlvs[j].tag = caps[k].tag
                             \/ \E k \in 1..Len(vendor) : tlvs[j].tag = vendor[k].tag
  /\ \A k \in Own : \E j \in 1..Len(tlvs) :
       tlvs[j].tag = caps[k].tag /\ (k \in Spared => tlvs[j].value = Promised(caps[k]))
  /\ \A k \in 1..Len(vendor) : \E j \in 1..Len(tlvs) :
       tlvs[j].tag = vendor[k].tag /\ tlvs[j].value = vendor[k].value

LEMMA PromisedIs ==
  ASSUME NEW t
  PROVE  Promised(t) = IF isCountryCodeMapCreated THEN MaskedValue(t.tag, Rewrote(t)) ELSE Rewrote(t)
<1> DEFINE tag == t.tag
<1>1. /\ UWB_CHANNELS # CCC_UWB_CHANNELS /\ UWB_CHANNELS # CCC_SUPPORTED_PROTOCOL_VERSIONS
      /\ UWB_CHANNELS # AOA_SUPPORT /\ CCC_UWB_CHANNELS # CCC_SUPPORTED_PROTOCOL_VERSIONS
      /\ CCC_UWB_CHANNELS # AOA_SUPPORT /\ AOA_SUPPORT # CCC_SUPPORTED_PROTOCOL_VERSIONS
  BY DEF UWB_CHANNELS, CCC_UWB_CHANNELS, AOA_SUPPORT, CCC_SUPPORTED_PROTOCOL_VERSIONS
<1>2. CASE tag = UWB_CHANNELS
  <2>1. Rewrote(t) = t.value
    BY <1>1, <1>2 DEF Rewrote
  <2>2. MaskedValue(t.tag, t.value) = <<FromBits(Bits(t.value[1]) \ ChannelsDenied(restricted))>>
    BY <1>2 DEF MaskedValue
  <2>3. CASE isCountryCodeMapCreated
    <3>1. Promised(t) = <<FromBits(Bits(t.value[1]) \ ChannelsDenied(restricted))>>
      BY <1>1, <1>2, <2>3 DEF Promised, ChannelsDenied
    <3> QED BY <2>1, <2>2, <2>3, <3>1
  <2>4. CASE ~isCountryCodeMapCreated
    <3>1. Promised(t) = t.value
      BY <1>1, <1>2, <2>4 DEF Promised
    <3> QED BY <2>1, <2>4, <3>1
  <2> QED BY <2>3, <2>4
<1>3. CASE tag = CCC_UWB_CHANNELS
  <2>1. Rewrote(t) = t.value
    BY <1>1, <1>3 DEF Rewrote
  <2>2. MaskedValue(t.tag, t.value) = <<FromBits(Bits(t.value[1]) \ CccDenied(restricted))>>
    BY <1>1, <1>3 DEF MaskedValue
  <2>3. CASE isCountryCodeMapCreated
    <3>1. Promised(t) = <<FromBits(Bits(t.value[1]) \ CccDenied(restricted))>>
      BY <1>1, <1>3, <2>3 DEF Promised, CccDenied
    <3> QED BY <2>1, <2>2, <2>3, <3>1
  <2>4. CASE ~isCountryCodeMapCreated
    <3>1. Promised(t) = t.value
      BY <1>1, <1>3, <2>4 DEF Promised
    <3> QED BY <2>1, <2>4, <3>1
  <2> QED BY <2>3, <2>4
<1>4. CASE tag # UWB_CHANNELS /\ tag # CCC_UWB_CHANNELS
  <2>1. MaskedValue(t.tag, Rewrote(t)) = Rewrote(t)
    BY <1>4 DEF MaskedValue
  <2>2. Promised(t) = Rewrote(t)
    BY <1>1, <1>4 DEF Promised, Rewrote
  <2> QED BY <2>1, <2>2
<1> QED BY <1>2, <1>3, <1>4

LEMMA DeliversUnmasked ==
  ASSUME ~isCountryCodeMapCreated, NEW tlvs, Gathers(tlvs)
  PROVE  Delivers(tlvs)
<1>1. \A k \in Own : Promised(caps[k]) = Rewrote(caps[k])
  BY PromisedIs
<1> QED BY <1>1 DEF Gathers, Delivers

LEMMA DeliversMasked ==
  ASSUME device \in Devices, Country, NEW new, Gathers(new), NEW fin, MaskedOf(fin, new)
  PROVE  Delivers(fin)
<1>1. ASSUME NEW k \in 1..Len(fin)
      PROVE  \/ \E i \in Own : fin[k].tag = caps[i].tag
             \/ \E i \in 1..Len(vendor) : fin[k].tag = vendor[i].tag
  <2>1. PICK j \in 1..Len(new) : fin[k].tag = new[j].tag
    BY DEF MaskedOf
  <2> QED BY <2>1 DEF Gathers
<1>2. ASSUME NEW i \in Own
      PROVE  \E k \in 1..Len(fin) :
               fin[k].tag = caps[i].tag /\ (i \in Spared => fin[k].value = Promised(caps[i]))
  <2>1. PICK j \in 1..Len(new) :
          new[j].tag = caps[i].tag /\ (i \in Spared => new[j].value = Rewrote(caps[i]))
    BY DEF Gathers
  <2>2. PICK k \in 1..Len(fin) :
          fin[k].tag = new[j].tag /\ fin[k].value = MaskedValue(new[j].tag, new[j].value)
    BY DEF MaskedOf
  <2>3. Promised(caps[i]) = MaskedValue(caps[i].tag, Rewrote(caps[i]))
    BY PromisedIs DEF Country
  <2> QED BY <2>1, <2>2, <2>3
<1>3. ASSUME NEW i \in 1..Len(vendor)
      PROVE  \E k \in 1..Len(fin) : fin[k].tag = vendor[i].tag /\ fin[k].value = vendor[i].value
  <2>1. PICK j \in 1..Len(new) : new[j].tag = vendor[i].tag /\ new[j].value = vendor[i].value
    BY DEF Gathers
  <2>2. PICK k \in 1..Len(fin) :
          fin[k].tag = new[j].tag /\ fin[k].value = MaskedValue(new[j].tag, new[j].value)
    BY DEF MaskedOf
  <2>3. vendor[i].tag \notin {UWB_CHANNELS, CCC_UWB_CHANNELS}
    BY ChipTags
  <2>4. MaskedValue(vendor[i].tag, vendor[i].value) = vendor[i].value
    BY <2>3 DEF MaskedValue
  <2> QED BY <2>1, <2>2, <2>4
<1> QED BY <1>1, <1>2, <1>3 DEF Delivers

\* What CapsExact asks of the bytes that the host reads.
Exact(bytes) ==
  LET read == Walk(bytes, Extended, 6, 0)
      got  == Insert(NoTags, read.tlvs)
      own  == {k \in DOMAIN caps : vendor = <<>> \/ caps[k].tag < 256}
  IN  /\ read.ok
      /\ bytes[4] = Len(bytes) - 4 /\ bytes[6] = Len(read.tlvs)
      /\ DOMAIN got = {caps[k].tag : k \in own} \cup {vendor[k].tag : k \in DOMAIN vendor}
      /\ \A k \in own \cap Spared : got[caps[k].tag] = Promised(caps[k])
      /\ \A k \in DOMAIN vendor : got[vendor[k].tag] = vendor[k].value

LEMMA Concluded ==
  ASSUME device \in Devices, NEW bytes, NEW tlvs, Bears(bytes, 0, tlvs),
         Short(tlvs, Extended), Distinct(tlvs), Delivers(tlvs)
  PROVE  Exact(bytes)
<1> DEFINE read == Walk(bytes, Extended, 6, 0)  got == Insert(NoTags, tlvs)
           own == {k \in DOMAIN caps : vendor = <<>> \/ caps[k].tag < 256}
<1>1. read.ok = TRUE /\ read.tlvs = tlvs
  <2>1. tlvs \in Seq(Readable(Extended)) /\ 0 \in 0..1 /\ ~ (0 = 1)
    BY DEF Short
  <2>2. read = [ok |-> TRUE, tlvs |-> tlvs]
    BY <2>1, Extends, ReadsBack
  <2> HIDE DEF read
  <2> QED BY <2>2
<1>2. bytes[4] = Len(bytes) - 4 /\ bytes[6] = Len(tlvs)
  <2> DEFINE n == Len(Encode(tlvs))
  <2>1. n \in 0..253
    BY Extends, ShortParts
  <2>2. Len(bytes) = 6 + n /\ bytes[4] = 2 + n /\ bytes[6] = Len(tlvs)
    BY DEF Bears
  <2> HIDE DEF n
  <2> QED BY <2>1, <2>2
<1>3. Took(got, NoTags, tlvs)
  <2>1. tlvs \in Seq(Readable(Extended))
    BY DEF Short
  <2> QED BY <2>1, InsertsAll
<1> HIDE DEF got
<1>4. /\ DOMAIN got = {tlvs[j].tag : j \in 1..Len(tlvs)}
      /\ \A j \in 1..Len(tlvs) : got[tlvs[j].tag] = tlvs[j].value
  <2>1. DOMAIN NoTags = {}
    BY DEF NoTags
  <2> QED BY <1>3, <2>1 DEF Took
<1>5. own = Own /\ DOMAIN vendor = 1..Len(vendor)
  BY ChipTags DEF Own
<1> HIDE DEF own
<1>6. DOMAIN got = {caps[k].tag : k \in own} \cup {vendor[k].tag : k \in DOMAIN vendor}
  <2> DEFINE A == {caps[k].tag : k \in Own}  B == {vendor[k].tag : k \in 1..Len(vendor)}
             C == {tlvs[j].tag : j \in 1..Len(tlvs)}
  <2>1. \A j \in 1..Len(tlvs) : tlvs[j].tag \in A \cup B
    BY DEF Delivers
  <2>2. \A k \in Own : caps[k].tag \in C
    BY DEF Delivers
  <2>3. \A k \in 1..Len(vendor) : vendor[k].tag \in C
    BY DEF Delivers
  <2>4. A \subseteq C /\ B \subseteq C
    BY <2>2, <2>3
  <2>5. C \subseteq A \cup B
    <3> HIDE DEF A, B
    <3> QED BY <2>1
  <2>6. C = A \cup B
    <3> HIDE DEF A, B, C
    <3> QED BY <2>4, <2>5
  <2> QED BY <1>4, <1>5, <2>6
<1>7. ASSUME NEW k \in own, k \in Spared PROVE got[caps[k].tag] = Promised(caps[k])
  <2>1. PICK j \in 1..Len(tlvs) : tlvs[j].tag = caps[k].tag /\ tlvs[j].value = Promised(caps[k])
    BY <1>5, <1>7 DEF Delivers
  <2> QED BY <1>4, <2>1
<1>8. ASSUME NEW k \in DOMAIN vendor PROVE got[vendor[k].tag] = vendor[k].value
  <2>1. PICK j \in 1..Len(tlvs) : tlvs[j].tag = vendor[k].tag /\ tlvs[j].value = vendor[k].value
    BY <1>5 DEF Delivers
  <2> QED BY <1>4, <2>1
<1>9. Insert(NoTags, read.tlvs) = got
  BY <1>1 DEF got
<1> HIDE DEF read
<1>10. /\ read.ok /\ bytes[4] = Len(bytes) - 4 /\ bytes[6] = Len(read.tlvs)
  BY <1>1, <1>2
<1> QED BY <1>6, <1>7, <1>8, <1>9, <1>10 DEF Exact, read, own

-----------------------------------------------------------------------------
(* CORE_GET_CAPS_INFO.                                                      *)

\* What ReadCaps has to rely on.
CapsState ==
  /\ device \in Devices /\ input_map = NoTags /\ antennas \in Pairs
  /\ restricted \in SUBSET {5, 9} /\ isCountryCodeMapCreated \in BOOLEAN
  /\ DOMAIN conf_map \in SUBSET {UWB_CHANNELS, CCC_UWB_CHANNELS}
  /\ isCountryCodeMapCreated => Denies(conf_map, restricted)

\* The response once it is masked, from p as phNxpUciHal_parse left it.
MaskedBytes(p, map, all) ==
  SubSeq(p, 1, 3) \o <<(Len(all) + 2) % 256, p[5]>> \o <<Cardinality(DOMAIN map)>> \o all

LEMMA FitsByte ==
  ASSUME NEW n \in 0..255
  PROVE  n % 256 = n
OBVIOUS

LEMMA MaskedSays ==
  ASSUME NEW p, NEW new, Short(new, Extended), Bears(p, 0, new), NEW map, NEW fin,
         Short(fin, Extended), Len(fin) = Cardinality(DOMAIN map)
  PROVE  Bears(MaskedBytes(p, map, Encode(fin)), 0, fin)
<1> DEFINE all == Encode(fin)  m == Len(all)  n == Cardinality(DOMAIN map)
           start == SubSeq(p, 1, 3)  middle == <<(m + 2) % 256, p[5]>>  end == <<n>>
           front == start \o middle  q == front \o end
<1>1. m \in 0..253 /\ n \in Byte /\ 2 + m \in Byte /\ 0 \in Byte
  <2>1. all \in Seq(Byte) /\ m \in 0..253 /\ 2 + m \in Byte
    BY Extends, ShortParts
  <2>2. Len(fin) \in Byte
    BY Extends, ShortParts
  <2>3. n \in Byte
    BY <2>2
  <2>4. 0 \in Byte
    BY DEF Byte
  <2> QED BY <2>1, <2>3, <2>4
<1>2. p \in Seq(Byte) /\ p[5] = 0 /\ Len(p) \in Nat /\ Len(p) >= 6
  <2> DEFINE size == Len(Encode(new))
  <2>1. size \in 0..253
    BY Extends, ShortParts
  <2>2. p \in Seq(Byte) /\ p[5] = 0 /\ Len(p) = 6 + size
    BY DEF Bears
  <2> HIDE DEF size
  <2>3. Len(p) \in Nat /\ Len(p) >= 6
    BY <2>1, <2>2
  <2> QED BY <2>2, <2>3
<1>3. start \in Seq(Byte) /\ Len(start) = 3
  <2>1. 3 \in 0..Len(p) /\ 1 \in 1..(Len(p) + 1)
    BY <1>2
  <2> QED BY <1>2, <2>1, SubSeqProperties
<1> HIDE DEF m, n, start
<1>4. (m + 2) % 256 = 2 + m
  <2> DEFINE k == m + 2
  <2>1. k \in 0..255 /\ k = 2 + m
    BY <1>1
  <2> HIDE DEF k
  <2>2. k % 256 = k
    BY <2>1, FitsByte
  <2> QED BY <2>1, <2>2 DEF k
<1>5. middle = <<2 + m, 0>>
  BY <1>2, <1>4
<1> HIDE DEF middle
<1>6. middle \in Seq(Byte) /\ Len(middle) = 2 /\ middle[1] = 2 + m /\ middle[2] = 0
  BY <1>1, <1>5
<1>7. end \in Seq(Byte) /\ Len(end) = 1 /\ end[1] = n
  BY <1>1
<1>8. start \in Seq(Byte) /\ middle \in Seq(Byte) /\ front = start \o middle
  BY <1>3, <1>6
<1> HIDE DEF end, front
<1>9. /\ front \in Seq(Byte) /\ Len(front) = Len(start) + Len(middle)
      /\ \A x \in 1..Len(middle) : front[Len(start) + x] = middle[x]
  BY <1>8, ConcatParts
<1>10. Len(front) = 5 /\ front[4] = 2 + m /\ front[5] = 0
  <2>1. 1 \in 1..Len(middle) /\ 2 \in 1..Len(middle) /\ Len(start) + 1 = 4 /\ Len(start) + 2 = 5
    BY <1>3, <1>6
  <2> QED BY <1>3, <1>6, <1>9, <2>1
<1>11. front \in Seq(Byte) /\ end \in Seq(Byte) /\ q = front \o end
  BY <1>7, <1>9
<1> HIDE DEF q
<1>12. /\ q \in Seq(Byte) /\ Len(q) = Len(front) + Len(end)
       /\ \A y \in 1..Len(front) : q[y] = front[y]
       /\ \A x \in 1..Len(end) : q[Len(front) + x] = end[x]
  BY <1>11, ConcatParts
<1>13. Len(q) = 6 /\ q[4] = 2 + m /\ q[5] = 0 /\ q[6] = n
  <2>1. 1 \in 1..Len(end) /\ 4 \in 1..Len(front) /\ 5 \in 1..Len(front) /\ Len(front) + 1 = 6
    BY <1>7, <1>10
  <2> QED BY <1>7, <1>10, <1>12, <2>1
<1>14. Heads(q, 0, fin)
  BY <1>12, <1>13 DEF Heads, m, n, all
<1>15. MaskedBytes(p, map, all) = q \o all
  BY DEF MaskedBytes, q, front, start, middle, end, m, n
<1>16. Bears(q \o all, 0, fin)
  BY <1>14, Extends, SaidAfter
<1> QED BY <1>15, <1>16

\* A response of the chip that is not UCI_STATUS_OK goes on as it is.
LEMMA RefusedCaps ==
  ASSUME device \in Devices, NEW status \in 0..1, status # UCI_STATUS_OK
  PROVE  parse_get_capsInfo(CapsResponse(status, caps))[5] # UCI_STATUS_OK
<1> DEFINE p == CapsResponse(status, caps)
<1>1. Short(caps, VendorSpecific)
  BY ChipShort
<1>2. Bears(p, status, caps)
  BY <1>1, VendorBytes, ResponseSays
<1> HIDE DEF p
<1>3. p[5] # UCI_STATUS_OK
  BY <1>2 DEF Bears
<1>4. parse_get_capsInfo(p) = p
  BY <1>3 DEF parse_get_capsInfo
<1> QED BY <1>3, <1>4 DEF p

\* What the host reads when the HAL has no country to mask with.
LEMMA PassedOn ==
  ASSUME CapsState, ~isCountryCodeMapCreated
  PROVE  Exact(parse_get_capsInfo(CapsResponse(UCI_STATUS_OK, caps)))
<1> DEFINE p == parse_get_capsInfo(CapsResponse(UCI_STATUS_OK, caps))
<1>1. device \in Devices /\ antennas \in Pairs
  BY DEF CapsState
<1>2. PICK tlvs : Bears(p, 0, tlvs) /\ Gathers(tlvs) /\ Sound(tlvs)
  BY <1>1, Prepared
<1> HIDE DEF p
<1>3. Delivers(tlvs)
  BY <1>2, DeliversUnmasked
<1>4. Short(tlvs, Extended) /\ Distinct(tlvs)
  BY <1>2 DEF Sound
<1>5. Exact(p)
  BY <1>1, <1>2, <1>3, <1>4, Concluded
<1> QED BY <1>5 DEF p

\* And what it reads when there is one: the loop of get_input_map comes to the
\* end of the response, and what is written from the map says the same, masked.
LEMMA Redone ==
  ASSUME CapsState, isCountryCodeMapCreated,
         NEW p, p = parse_get_capsInfo(CapsResponse(UCI_STATUS_OK, caps)),
         NEW read, read = Walk(p, Extended, 6, 1),
         NEW map, map = Insert(input_map, read.tlvs),
         NEW all, all = Encode(InOrder(Masked(map)))
  PROVE  p[5] = UCI_STATUS_OK /\ read.ok /\ Exact(MaskedBytes(p, map, all))
<1>1. device \in Devices /\ antennas \in Pairs /\ Country /\ input_map = NoTags
  BY DEF CapsState, Country
<1>2. PICK new : Bears(p, 0, new) /\ Gathers(new) /\ Sound(new)
  BY <1>1, Prepared
<1>3. /\ Short(new, Extended) /\ Distinct(new) /\ new \in Seq(Readable(Extended))
      /\ new # <<>> => new[Len(new)].value # <<>>
  BY <1>2 DEF Sound, Short
<1>4. read = [ok |-> TRUE, tlvs |-> new]
  <2>1. 1 \in 0..1
    OBVIOUS
  <2> QED BY <1>2, <1>3, <2>1, Extends, ReadsBack
<1>5. read.ok = TRUE /\ read.tlvs = new
  BY <1>4
<1>6. Took(map, NoTags, new)
  BY <1>1, <1>3, <1>5, InsertsAll
<1> DEFINE fin == InOrder(Masked(map))
<1>7. fin = InOrder(Masked(map))
  OBVIOUS
<1> HIDE DEF fin
<1>8. /\ Short(fin, Extended) /\ Distinct(fin) /\ MaskedOf(fin, new)
      /\ Len(fin) = Cardinality(DOMAIN map)
  BY <1>1, <1>2, <1>6, <1>7, Ordered
<1>9. Bears(MaskedBytes(p, map, all), 0, fin)
  BY <1>2, <1>3, <1>7, <1>8, MaskedSays
<1>10. Delivers(fin)
  BY <1>1, <1>2, <1>8, DeliversMasked
<1>11. Exact(MaskedBytes(p, map, all))
  BY <1>1, <1>8, <1>9, <1>10, Concluded
<1>12. p[5] = UCI_STATUS_OK
  BY <1>2 DEF Bears, UCI_STATUS_OK
<1> QED BY <1>5, <1>11, <1>12

LEMMA ReadCapsExact ==
  ASSUME CapsState, NEW status \in 0..1, ReadCaps(status)
  PROVE  /\ input_map' = NoTags /\ in' = [kind |-> "caps", status |-> status]
         /\ status = UCI_STATUS_OK => Exact(out'.bytes)
         /\ packets' = packets + 1 /\ UNCHANGED <<country, antennas, device>>
<1> DEFINE p    == parse_get_capsInfo(CapsResponse(status, caps))
           read == Walk(p, Extended, 6, 1)
           map  == Insert(input_map, read.tlvs)
           all  == Encode(InOrder(Masked(map)))
           redo == MaskedBytes(p, map, all)
<1>1. /\ in' = [kind |-> "caps", status |-> status] /\ packets' = packets + 1
      /\ UNCHANGED <<country, antennas, device>>
  BY Zenon DEF ReadCaps
<1>2. IF ~isCountryCodeMapCreated \/ p[5] # UCI_STATUS_OK
      THEN out' = [kind |-> "caps", bytes |-> p] /\ UNCHANGED input_map
      ELSE IF ~read.ok
      THEN out' = [kind |-> "caps", bytes |-> p] /\ input_map' = map
      ELSE out' = [kind |-> "caps", bytes |-> redo] /\ input_map' = NoTags
  BY Zenon DEF ReadCaps, MaskedBytes
<1>3. input_map = NoTags /\ device \in Devices
  BY DEF CapsState
<1>4. CASE status # UCI_STATUS_OK
  <2>1. p[5] # UCI_STATUS_OK
    BY <1>3, <1>4, RefusedCaps
  <2> HIDE DEF p, read, map, all, redo
  <2> QED BY <1>1, <1>2, <1>3, <1>4, <2>1
<1>5. CASE status = UCI_STATUS_OK /\ ~isCountryCodeMapCreated
  <2>1. Exact(p)
    BY <1>5, PassedOn
  <2> HIDE DEF p, read, map, all, redo
  <2>2. out' = [kind |-> "caps", bytes |-> p] /\ input_map' = NoTags
    BY <1>2, <1>3, <1>5
  <2>3. out'.bytes = p
    BY <2>2
  <2> QED BY <1>1, <2>1, <2>2, <2>3
<1>6. CASE status = UCI_STATUS_OK /\ isCountryCodeMapCreated
  <2>1. p[5] = UCI_STATUS_OK /\ read.ok /\ Exact(redo)
    BY <1>6, Redone
  <2> HIDE DEF p, read, map, all, redo
  <2>2. out' = [kind |-> "caps", bytes |-> redo] /\ input_map' = NoTags
    BY <1>2, <1>6, <2>1
  <2>3. out'.bytes = redo
    BY <2>2
  <2> QED BY <1>1, <2>1, <2>2, <2>3
<1> QED BY <1>4, <1>5, <1>6

LEMMA AntennasKnown ==
  ASSUME NEW block \in AntennaBlocks, parseAntennaConfig(block), antennas \in Pairs
  PROVE  antennas' \in Pairs
<1> DEFINE Defines(k) == block[k].tag = ANTENNA_RX_PAIR_DEFINE
           here  == {k \in 1..Len(block) : Defines(k)}
           first == SelectInSeq(block, LAMBDA t : t.tag = ANTENNA_RX_PAIR_DEFINE)
<1>1. antennas' = IF first = 0 THEN antennas ELSE block[first].value[1]
  BY DEF parseAntennaConfig
<1>2. first = IF here # {} THEN Min(here) ELSE 0
  BY DEF SelectInSeq
<1>3. CASE here = {}
  BY <1>1, <1>2, <1>3
<1>4. CASE here # {} /\ first # 0
  <2>1. first = CHOOSE k \in here : \A j \in here : k <= j
    BY <1>2, <1>4 DEF Min
  <2>2. Len(block) \in Nat
    BY DeviceAssumption, LenProperties
  <2>3. here \subseteq Nat
    BY <2>2
  <2> HIDE DEF here, first
  <2>4. \E k \in here : \A j \in here : k <= j
    BY <1>4, <2>3, Least
  <2>5. first \in here
    BY <2>1, <2>4
  <2>6. block[first].value[1] \in Byte \ {0}
    BY <2>5, DeviceAssumption DEF here
  <2> QED BY <1>1, <1>4, <2>6 DEF Pairs
<1>5. CASE here # {} /\ first = 0
  BY <1>1, <1>5
<1> QED BY <1>3, <1>4, <1>5

CapsInv == CapsState /\ packets \in Nat /\ (packets = 0 => in = Nothing) /\ CapsExact

\* What was exact stays so as long as the country, the antennas and the device do.
LEMMA StaysExact ==
  ASSUME NEW bytes, Exact(bytes), UNCHANGED <<country, antennas, device>>, out'.bytes = bytes
  PROVE  CapsExact'
<1>1. restricted' = restricted /\ isCountryCodeMapCreated' = isCountryCodeMapCreated
  BY DEF country
<1>2. caps' = caps /\ vendor' = vendor
  BY DEF caps, vendor
<1>3. antennas' = antennas
  OBVIOUS
<1>4. ASSUME NEW k PROVE Promised(caps[k])' = Promised(caps[k])
  BY <1>1, <1>2, <1>3 DEF Promised, aoa
<1>5. Spared' = Spared
  BY <1>2 DEF Spared, Overwritten
<1> QED BY <1>2, <1>4, <1>5 DEF Exact, CapsExact

\* The host reads the capabilities of the chip and the configured ones, each with
\* its value, in order, counted, with the right length and with the channels of
\* the country masked (phNxpUciHal_parse, phNxpUciHal_read_complete): for any
\* capabilities that are Fitting, in which the angle of arrival follows a tag
\* with a value, whatever countries were set and responses came before.
THEOREM CapsAsPromised == Spec => []CapsExact
<1> USE DEF Nothing
<1>1. Init => CapsInv
  <2> SUFFICES ASSUME Init PROVE CapsInv
    OBVIOUS
  <2>1. /\ device \in Devices /\ input_map = NoTags /\ antennas = NoPair /\ restricted = {}
        /\ isCountryCodeMapCreated = FALSE /\ conf_map = NoTags /\ packets = 0 /\ in = Nothing
    BY DEF Init
  <2>2. DOMAIN conf_map = {}
    BY <2>1 DEF NoTags
  <2>3. CapsState
    BY <2>1, <2>2 DEF CapsState, Pairs
  <2>4. in.kind # "caps"
    BY <2>1
  <2> QED BY <2>1, <2>3, <2>4 DEF CapsInv, CapsExact
<1>2. CapsInv /\ [Next]_vars => CapsInv'
  <2> SUFFICES ASSUME CapsInv, [Next]_vars PROVE CapsInv'
    OBVIOUS
  <2>0. CapsState /\ packets \in Nat /\ (packets = 0 => in = Nothing) /\ CapsExact
    BY DEF CapsInv
  <2>1. CASE \E config \in AppConfigs : WriteAppConfig(config)
    <3>1. PICK config \in AppConfigs : WriteAppConfig(config)
      BY <2>1
    <3>2. /\ in' = [kind |-> "app config", tlvs |-> config.tlvs, cut |-> config.cut]
          /\ packets' = packets + 1 /\ UNCHANGED <<country, input_map, antennas, device>>
      BY <3>1, Zenon DEF WriteAppConfig
    <3>3. in'.kind # "caps"
      BY <3>2
    <3>4. packets' \in Nat /\ packets' # 0
      <4>1. packets' = packets + 1 /\ packets \in Nat
        BY <2>0, <3>1 DEF WriteAppConfig
      <4> QED BY <4>1
    <3>5. CapsState'
      BY <2>0, <3>2 DEF CapsState, country, Denies
    <3> QED BY <3>3, <3>4, <3>5 DEF CapsInv, CapsExact
  <2>2. CASE \E channels \in SUBSET {5, 9} : SetCountry(channels)
    <3>1. PICK channels \in SUBSET {5, 9} : SetCountry(channels)
      BY <2>2
    <3>2. /\ restricted' = channels /\ in' = Nothing
          /\ UNCHANGED <<input_map, antennas, device, packets>>
      BY <3>1 DEF SetCountry
    <3>3. /\ isCountryCodeMapCreated' \in BOOLEAN
          /\ DOMAIN conf_map' \in SUBSET {UWB_CHANNELS, CCC_UWB_CHANNELS}
          /\ isCountryCodeMapCreated' => Denies(conf_map', channels)
      <4>1. CASE get_conf_map(CountryData(channels))
        <5>1. DOMAIN conf_map \in SUBSET {UWB_CHANNELS, CCC_UWB_CHANNELS}
          BY <2>0 DEF CapsState
        <5>2. isCountryCodeMapCreated' = TRUE /\ Denies(conf_map', channels)
          BY <4>1, <5>1, CountryRead
        <5>3. DOMAIN conf_map' = {UWB_CHANNELS, CCC_UWB_CHANNELS}
          BY <5>2 DEF Denies
        <5> QED BY <5>2, <5>3
      <4>2. CASE ~isCountryCodeMapCreated /\ UNCHANGED <<isCountryCodeMapCreated, conf_map>>
        BY <2>0, <4>2 DEF CapsState
      <4> QED BY <3>1, <4>1, <4>2 DEF SetCountry
    <3>4. CapsState'
      BY <2>0, <3>2, <3>3 DEF CapsState, Denies
    <3>5. in'.kind # "caps"
      BY <3>2
    <3> QED BY <2>0, <3>2, <3>4, <3>5 DEF CapsInv, CapsExact
  <2>3. CASE \E block \in AntennaBlocks : parseAntennaConfig(block)
    <3>1. PICK block \in AntennaBlocks : parseAntennaConfig(block)
      BY <2>3
    <3>2. packets = 0 /\ UNCHANGED <<country, input_map, device, packets, in>>
      BY <3>1 DEF parseAntennaConfig
    <3>3. antennas' \in Pairs
      BY <2>0, <3>1, AntennasKnown DEF CapsState
    <3>4. CapsState'
      BY <2>0, <3>2, <3>3 DEF CapsState, country, Denies
    <3>5. in' = Nothing
      BY <2>0, <3>2
    <3>6. in'.kind # "caps"
      BY <3>5
    <3> QED BY <2>0, <3>2, <3>4, <3>5, <3>6 DEF CapsInv, CapsExact
  <2>4. CASE \E status \in 0..1 : ReadCaps(status)
    <3>1. PICK status \in 0..1 : ReadCaps(status)
      BY <2>4
    <3>2. /\ input_map' = NoTags /\ in' = [kind |-> "caps", status |-> status]
          /\ status = UCI_STATUS_OK => Exact(out'.bytes)
          /\ packets' = packets + 1 /\ UNCHANGED <<country, antennas, device>>
      BY <2>0, <3>1, ReadCapsExact
    <3>3. CapsState'
      BY <2>0, <3>2 DEF CapsState, country, Denies
    <3>4. packets' \in Nat /\ packets' # 0
      BY <2>0, <3>2
    <3>5. CapsExact'
      <4>1. CASE status = UCI_STATUS_OK
        BY <3>2, <4>1, StaysExact
      <4>2. CASE status # UCI_STATUS_OK
        <5>1. in'.status # UCI_STATUS_OK
          BY <3>2, <4>2
        <5>2. UCI_STATUS_OK' = UCI_STATUS_OK
          BY DEF UCI_STATUS_OK
        <5> QED BY <5>1, <5>2 DEF CapsExact
      <4> QED BY <4>1, <4>2
    <3> QED BY <3>3, <3>4, <3>5 DEF CapsInv
  <2>5. CASE \E items \in Refusals : ReadSetConfig(items)
    <3>1. PICK items \in Refusals : ReadSetConfig(items)
      BY <2>5
    <3>2. /\ in' = [kind |-> "set config", items |-> items]
          /\ packets' = packets + 1 /\ UNCHANGED <<country, input_map, antennas, device>>
      BY <3>1, Zenon DEF ReadSetConfig
    <3>3. in'.kind # "caps"
      BY <3>2
    <3>4. packets' \in Nat /\ packets' # 0
      <4>1. packets' = packets + 1 /\ packets \in Nat
        BY <2>0, <3>1 DEF ReadSetConfig
      <4> QED BY <4>1
    <3>5. CapsState'
      BY <2>0, <3>2 DEF CapsState, country, Denies
    <3> QED BY <3>3, <3>4, <3>5 DEF CapsInv, CapsExact
  <2>6. CASE UNCHANGED vars
    <3>1. /\ UNCHANGED <<country, input_map, antennas, device, packets, in, out>>
      BY <2>6 DEF vars
    <3>2. CapsState'
      BY <2>0, <3>1 DEF CapsState, country, Denies
    <3>3. CapsExact'
      <4>1. CASE in.kind = "caps" /\ in.status = UCI_STATUS_OK
        <5>1. Exact(out.bytes)
          BY <2>0, <4>1 DEF CapsExact, Exact
        <5> QED BY <3>1, <5>1, StaysExact
      <4>2. CASE ~ (in.kind = "caps" /\ in.status = UCI_STATUS_OK)
        <5>1. in' = in
          BY <3>1
        <5> QED BY <4>2, <5>1 DEF CapsExact
      <4> QED BY <4>1, <4>2
    <3> QED BY <2>0, <3>1, <3>2, <3>3 DEF CapsInv
  <2> QED BY <2>1, <2>2, <2>3, <2>4, <2>5, <2>6 DEF Next
<1>3. CapsInv => CapsExact
  BY DEF CapsInv
<1> QED BY <1>1, <1>2, <1>3, PTL DEF Spec
=============================================================================
