----------------------------- MODULE PbftProofs -----------------------------
(***************************************************************************)
(* Proofs about PbftSim, as MCClassroom has it: for any number of nodes    *)
(* from four on, of which fewer than a third are faulty, and any requests  *)
(* and views, a quorum is behind whatever is committed, and without faults *)
(* every request gets through.  The inductive invariant is BftInv; its     *)
(* part BftTypeInv, with type correctness, needs no hypothesis.            *)
(***************************************************************************)
EXTENDS MCClassroom, FiniteSetTheorems, WellFoundedInduction, TLAPS

-----------------------------------------------------------------------------
(***************************************************************************)
(* PbftSim: the queue.                                                     *)
(***************************************************************************)
BftMessages ==
    [type : {"PRE-PREPARE", "PREPARE", "COMMIT"}, digest : Pbft!Digests,
     from : Pbft!Nodes, to : Pbft!Nodes \cup {0}, seq : 1 .. MaxSubmits]

Phase(t) == IF t = "PRE-PREPARE" THEN 1 ELSE IF t = "PREPARE" THEN 2 ELSE 3

(* Whom a proposal is for, and who sent a vote.                            *)
Who(m) == IF m.type = "PRE-PREPARE" THEN m.to ELSE m.from

(* The messages of a phase come before those of the next.                  *)
InPhases(q) ==
    \A i, j \in DOMAIN q : i < j => Phase(q[i].type) <= Phase(q[j].type)

OncePerPhase(q) ==
    \A i, j \in DOMAIN q : i # j /\ q[i].type = q[j].type => Who(q[i]) # Who(q[j])

Those(q, t) == {Who(q[i]) : i \in {k \in DOMAIN q : q[k].type = t}}
VotersIn(q, t, d) == {Who(q[i]) : i \in {k \in DOMAIN q : q[k].type = t /\ q[k].digest = d}}

LEMMA QueueTaken ==
    ASSUME NEW q \in Seq(BftMessages), q # <<>>, InPhases(q), OncePerPhase(q)
    PROVE  /\ Tail(q) \in Seq(BftMessages) /\ Head(q) \in BftMessages
           /\ InPhases(Tail(q)) /\ OncePerPhase(Tail(q))
           /\ \A i \in DOMAIN Tail(q) : i + 1 \in DOMAIN q /\ Tail(q)[i] = q[i + 1]
           /\ \A t : Those(Tail(q), t) =
                  IF t = Head(q).type THEN Those(q, t) \ {Who(Head(q))} ELSE Those(q, t)
           /\ \A t, d : VotersIn(Tail(q), t, d) =
                  IF t = Head(q).type /\ d = Head(q).digest
                  THEN VotersIn(q, t, d) \ {Who(Head(q))} ELSE VotersIn(q, t, d)
           /\ Who(Head(q)) \in Those(q, Head(q).type)
           /\ Who(Head(q)) \in VotersIn(q, Head(q).type, Head(q).digest)
           /\ \A t : Phase(t) < Phase(Head(q).type) => Those(q, t) = {}
<1> DEFINE r == Tail(q)
<1>1. /\ r \in Seq(BftMessages) /\ Head(q) \in BftMessages
      /\ 1 \in DOMAIN q /\ Head(q) = q[1]
      /\ \A i \in DOMAIN r : i + 1 \in DOMAIN q /\ r[i] = q[i + 1] /\ i \in Nat \ {0}
      /\ \A i \in DOMAIN q : i # 1 => i - 1 \in DOMAIN r /\ r[i - 1] = q[i]
      /\ DOMAIN q \subseteq Nat \ {0}
  OBVIOUS
<1> HIDE DEF r
<1>2. InPhases(r)
  <2> SUFFICES ASSUME NEW i \in DOMAIN r, NEW j \in DOMAIN r, i < j
               PROVE  Phase(r[i].type) <= Phase(r[j].type)
    BY DEF InPhases
  <2>1. i + 1 < j + 1
    BY <1>1
  <2>2. QED
    BY <1>1, <2>1 DEF InPhases
<1>3. OncePerPhase(r)
  <2> SUFFICES ASSUME NEW i \in DOMAIN r, NEW j \in DOMAIN r, i # j, r[i].type = r[j].type
               PROVE  Who(r[i]) # Who(r[j])
    BY DEF OncePerPhase
  <2>1. i \in Nat /\ j \in Nat
    BY <1>1
  <2>2. i + 1 # j + 1
    BY <2>1
  <2>3. /\ i + 1 \in DOMAIN q /\ j + 1 \in DOMAIN q
        /\ r[i] = q[i + 1] /\ r[j] = q[j + 1]
    BY <1>1
  <2>4. Who(q[i + 1]) # Who(q[j + 1])
    BY <2>2, <2>3 DEF OncePerPhase
  <2>5. QED
    BY <2>3, <2>4
<1>4. \A i \in DOMAIN r : r[i].type = Head(q).type => Who(r[i]) # Who(Head(q))
  <2> TAKE i \in DOMAIN r
  <2>1. i + 1 # 1
    BY <1>1
  <2>2. i + 1 \in DOMAIN q /\ 1 \in DOMAIN q /\ r[i] = q[i + 1] /\ Head(q) = q[1]
    BY <1>1
  <2>3. QED
    BY <2>1, <2>2 DEF OncePerPhase
<1>5. ASSUME NEW t
      PROVE  Those(r, t) =
                 IF t = Head(q).type THEN Those(q, t) \ {Who(Head(q))} ELSE Those(q, t)
  <2> DEFINE A == Those(r, t)  B == Those(q, t)  x == Who(Head(q))
  <2>1. \A w : w \in Those(r, t) => w \in Those(q, t)
    BY <1>1 DEF Those
  <2>2. \A w : w \in Those(r, t) /\ t = Head(q).type => w # Who(Head(q))
    BY <1>4 DEF Those
  <2>3. ASSUME NEW w, w \in Those(q, t), w \notin Those(r, t)
        PROVE  t = Head(q).type /\ w = x
    <3>1. PICK i \in DOMAIN q : q[i].type = t /\ w = Who(q[i])
      BY <2>3 DEF Those
    <3>2. i = 1
      BY <1>1, <2>3, <3>1 DEF Those
    <3>3. QED
      BY <1>1, <3>1, <3>2
  <2> HIDE DEF A, B, x
  <2>5. \A w \in A : w \in B
    BY <2>1 DEF A, B
  <2>6. \A w \in B : w \notin A => t = Head(q).type /\ w = x
    BY <2>3 DEF A, B
  <2>7. \A w \in A : t = Head(q).type => w # x
    BY <2>2 DEF A, x
  <2>8. A = IF t = Head(q).type THEN B \ {x} ELSE B
    BY <2>5, <2>6, <2>7
  <2>9. QED
    BY <2>8 DEF A, B, x
<1>6. ASSUME NEW t, NEW d
      PROVE  VotersIn(r, t, d) =
                 IF t = Head(q).type /\ d = Head(q).digest
                 THEN VotersIn(q, t, d) \ {Who(Head(q))} ELSE VotersIn(q, t, d)
  <2> DEFINE A == VotersIn(r, t, d)  B == VotersIn(q, t, d)  x == Who(Head(q))
  <2>1. \A w : w \in VotersIn(r, t, d) => w \in VotersIn(q, t, d)
    BY <1>1 DEF VotersIn
  <2>2. \A w : w \in VotersIn(r, t, d) /\ t = Head(q).type => w # Who(Head(q))
    BY <1>4 DEF VotersIn
  <2>3. ASSUME NEW w, w \in VotersIn(q, t, d), w \notin VotersIn(r, t, d)
        PROVE  t = Head(q).type /\ d = Head(q).digest /\ w = x
    <3>1. PICK i \in DOMAIN q : q[i].type = t /\ q[i].digest = d /\ w = Who(q[i])
      BY <2>3 DEF VotersIn
    <3>2. i = 1
      BY <1>1, <2>3, <3>1 DEF VotersIn
    <3>3. QED
      BY <1>1, <3>1, <3>2
  <2> HIDE DEF A, B, x
  <2>5. \A w \in A : w \in B
    BY <2>1 DEF A, B
  <2>6. \A w \in B : w \notin A => t = Head(q).type /\ d = Head(q).digest /\ w = x
    BY <2>3 DEF A, B
  <2>7. \A w \in A : t = Head(q).type => w # x
    BY <2>2 DEF A, x
  <2>8. A = IF t = Head(q).type /\ d = Head(q).digest THEN B \ {x} ELSE B
    BY <2>5, <2>6, <2>7
  <2>9. QED
    BY <2>8 DEF A, B, x
<1>7. Who(Head(q)) \in Those(q, Head(q).type) /\ Who(Head(q)) \in VotersIn(q, Head(q).type, Head(q).digest)
  BY <1>1 DEF Those, VotersIn
<1>8. ASSUME NEW t, Phase(t) < Phase(Head(q).type), Those(q, t) # {}
      PROVE  FALSE
  <2>1. PICK i \in DOMAIN q : q[i].type = t
    BY <1>8 DEF Those
  <2>2. Phase(q[1].type) <= Phase(q[i].type)
    <3>1. CASE i = 1
      BY <3>1 DEF Phase
    <3>2. CASE i # 1
      <4>1. 1 < i
        BY <1>1, <3>2
      <4>2. QED
        BY <1>1, <4>1 DEF InPhases
    <3>3. QED
      BY <3>1, <3>2
  <2>3. QED
    BY <1>1, <1>8, <2>1, <2>2 DEF Phase
<1>9. QED
  BY <1>1, <1>2, <1>3, <1>5, <1>6, <1>7, <1>8 DEF r

(* New messages of one phase, and of one digest, after the others.         *)
MayFollow(q, r, t, d) ==
    /\ q \in Seq(BftMessages) /\ r \in Seq(BftMessages)
    /\ InPhases(q) /\ OncePerPhase(q) /\ OncePerPhase(r)
    /\ \A i \in DOMAIN r : r[i].type = t /\ r[i].digest = d
    /\ \A i \in DOMAIN q : Phase(q[i].type) <= Phase(t)
    /\ Those(q, t) \cap Those(r, t) = {}

LEMMA QueueGrown ==
    ASSUME NEW q, NEW r, NEW t, NEW d, MayFollow(q, r, t, d)
    PROVE  /\ q \o r \in Seq(BftMessages)
           /\ \A i \in DOMAIN (q \o r) : \/ i \in DOMAIN q /\ (q \o r)[i] = q[i]
                                         \/ i - Len(q) \in DOMAIN r /\ (q \o r)[i] = r[i - Len(q)]
           /\ InPhases(q \o r) /\ OncePerPhase(q \o r)
           /\ \A u : Those(q \o r, u) = Those(q, u) \cup (IF u = t THEN Those(r, t) ELSE {})
           /\ \A u, e : VotersIn(q \o r, u, e) =
                  VotersIn(q, u, e) \cup (IF u = t /\ e = d THEN Those(r, t) ELSE {})
<1>0. /\ q \in Seq(BftMessages) /\ r \in Seq(BftMessages)
      /\ InPhases(q) /\ OncePerPhase(q) /\ OncePerPhase(r)
      /\ \A i \in DOMAIN r : r[i].type = t /\ r[i].digest = d
      /\ \A i \in DOMAIN q : Phase(q[i].type) <= Phase(t)
      /\ Those(q, t) \cap Those(r, t) = {}
  BY DEF MayFollow
<1> USE <1>0
<1> DEFINE s == q \o r
<1>1. /\ s \in Seq(BftMessages)
      /\ \A i \in DOMAIN s : \/ i \in DOMAIN q /\ s[i] = q[i]
                             \/ i - Len(q) \in DOMAIN r /\ s[i] = r[i - Len(q)]
      /\ DOMAIN s \subseteq Nat \ {0} /\ Len(q) \in Nat
      /\ DOMAIN q = 1 .. Len(q) /\ DOMAIN r \subseteq Nat \ {0}
      /\ \A i \in DOMAIN q : i \in DOMAIN s /\ s[i] = q[i]
      /\ \A i \in DOMAIN r : i + Len(q) \in DOMAIN s /\ s[i + Len(q)] = r[i]
  <2>1. s \in Seq(BftMessages) /\ Len(s) = Len(q) + Len(r)
    OBVIOUS
  <2>2. /\ Len(q) \in Nat /\ Len(r) \in Nat
        /\ DOMAIN s = 1 .. Len(s) /\ DOMAIN q = 1 .. Len(q) /\ DOMAIN r = 1 .. Len(r)
    BY <2>1
  <2>3. \A i \in 1 .. Len(q) : s[i] = q[i]
    OBVIOUS
  <2>4. ASSUME NEW i \in 1 .. Len(r) PROVE s[i + Len(q)] = r[i]
    BY <2>2
  <2>5. ASSUME NEW i \in DOMAIN s, i \notin DOMAIN q
        PROVE  i - Len(q) \in DOMAIN r /\ s[i] = r[i - Len(q)]
    <3>1. i - Len(q) \in 1 .. Len(r) /\ i = (i - Len(q)) + Len(q)
      BY <2>1, <2>2, <2>5
    <3>2. QED
      BY <2>2, <2>4, <3>1
  <2> HIDE DEF s
  <2>6. QED
    BY <2>1, <2>2, <2>3, <2>4, <2>5
<1>2. Phase(t) \in Nat /\ \A i \in DOMAIN q : Phase(q[i].type) \in Nat
  BY DEF Phase
<1> HIDE DEF s
<1>3. InPhases(s)
  <2> SUFFICES ASSUME NEW i \in DOMAIN s, NEW j \in DOMAIN s, i < j
               PROVE  Phase(s[i].type) <= Phase(s[j].type)
    BY DEF InPhases
  <2>1. CASE j \in DOMAIN q /\ s[j] = q[j]
    <3>1. i \in DOMAIN q /\ s[i] = q[i]
      BY <1>1, <2>1
    <3>2. QED
      BY <2>1, <3>1 DEF InPhases
  <2>2. CASE j - Len(q) \in DOMAIN r /\ s[j] = r[j - Len(q)]
    <3>1. s[j].type = t
      BY <2>2
    <3>2. s[i].type = t \/ Phase(s[i].type) <= Phase(t)
      BY <1>1
    <3>3. QED
      BY <1>2, <3>1, <3>2
  <2>3. QED
    BY <1>1, <2>1, <2>2
<1>4. OncePerPhase(s)
  <2> SUFFICES ASSUME NEW i \in DOMAIN s, NEW j \in DOMAIN s, i # j, s[i].type = s[j].type
               PROVE  Who(s[i]) # Who(s[j])
    BY DEF OncePerPhase
  <2>1. ASSUME NEW k \in DOMAIN q, NEW l \in DOMAIN r, q[k].type = r[l].type
        PROVE  Who(q[k]) # Who(r[l])
    BY <2>1 DEF Those
  <2>2. CASE i \in DOMAIN q /\ s[i] = q[i] /\ j \in DOMAIN q /\ s[j] = q[j]
    BY <2>2 DEF OncePerPhase
  <2>3. CASE i - Len(q) \in DOMAIN r /\ s[i] = r[i - Len(q)] /\ j - Len(q) \in DOMAIN r /\ s[j] = r[j - Len(q)]
    <3>1. i - Len(q) # j - Len(q)
      BY <1>1
    <3>2. QED
      BY <2>3, <3>1 DEF OncePerPhase
  <2>4. QED
    BY <1>1, <2>1, <2>2, <2>3
<1>5. ASSUME NEW u
      PROVE  Those(s, u) = Those(q, u) \cup (IF u = t THEN Those(r, t) ELSE {})
  <2>1. \A w \in Those(s, u) : w \in Those(q, u) \/ (u = t /\ w \in Those(r, t))
    BY <1>1 DEF Those
  <2>2. \A w \in Those(q, u) : w \in Those(s, u)
    BY <1>1 DEF Those
  <2>3. \A w \in Those(r, t) : w \in Those(s, t)
    BY <1>1 DEF Those
  <2>4. QED
    BY <2>1, <2>2, <2>3
<1>6. ASSUME NEW u, NEW e
      PROVE  VotersIn(s, u, e) = VotersIn(q, u, e) \cup (IF u = t /\ e = d THEN Those(r, t) ELSE {})
  <2>1. \A w \in VotersIn(s, u, e) : w \in VotersIn(q, u, e) \/ (u = t /\ e = d /\ w \in Those(r, t))
    BY <1>1 DEF VotersIn, Those
  <2>2. \A w \in VotersIn(q, u, e) : w \in VotersIn(s, u, e)
    BY <1>1 DEF VotersIn
  <2>3. \A w \in Those(r, t) : w \in VotersIn(s, t, d)
    BY <1>1 DEF Those, VotersIn
  <2>4. QED
    BY <2>1, <2>2, <2>3
<1>7. QED
  BY <1>1, <1>3, <1>4, <1>5, <1>6 DEF s

LEMMA PbftCounts ==
    ASSUME NEW S
    PROVE  Pbft!Cardinality(S) = Cardinality(S)
BY DEF Cardinality, Pbft!Cardinality

LEMMA GreatestOne ==
    ASSUME NEW n \in Nat, NEW S, S \subseteq 1 .. n, S # {}
    PROVE  \E m \in S : \A x \in S : x <= m
<1> DEFINE U == {i \in Nat : \A x \in S : x <= i}
<1>1. n \in U
  OBVIOUS
<1>2. PICK m \in U : \A y \in U : ~(<<y, m>> \in OpToRel(<, Nat))
  BY <1>1, NatLessThanWellFounded, WFMin
<1>3. ASSUME m \notin S PROVE FALSE
  <2>1. PICK x \in S : x \in 1 .. n
    OBVIOUS
  <2>2. m - 1 \in U
    BY <1>3, <2>1
  <2>3. <<m - 1, m>> \in OpToRel(<, Nat)
    BY <2>1, <2>2 DEF OpToRel
  <2>4. QED
    BY <1>2, <2>2, <2>3
<1>4. QED
  BY <1>3

(* Nodes can be put in order.                                              *)
Orders(S, s) ==
    /\ s \in [1 .. Cardinality(S) -> S]
    /\ \A i, j \in 1 .. Cardinality(S) : i < j => s[i] < s[j]
    /\ \A x \in S : \E i \in 1 .. Cardinality(S) : s[i] = x

LEMMA OrderExists ==
    ASSUME NEW n \in Nat, NEW S, S \subseteq 1 .. n
    PROVE  \E s : Orders(S, s)
<1> DEFINE Bad == {k \in Nat : \E T \in SUBSET (1 .. n) : Cardinality(T) = k /\ ~ \E s : Orders(T, s)}
<1>1. IsFiniteSet(1 .. n)
  BY FS_Interval
<1>2. \A T \in SUBSET (1 .. n) : IsFiniteSet(T) /\ Cardinality(T) \in Nat
  BY <1>1, FS_Subset, FS_CardinalityType
<1>3. ASSUME Bad # {} PROVE FALSE
  <2>1. PICK k \in Bad : \A y \in Bad : ~(<<y, k>> \in OpToRel(<, Nat))
    BY <1>3, NatLessThanWellFounded, WFMin
  <2>2. \A y \in Nat : y < k => y \notin Bad
    BY <2>1 DEF OpToRel
  <2>3. PICK T \in SUBSET (1 .. n) : Cardinality(T) = k /\ ~ \E s : Orders(T, s)
    BY <2>1
  <2>4. k \in Nat
    BY <2>1
  <2>5. CASE T = {}
    <3>1. k = 0
      BY <2>3, <2>5, FS_EmptySet
    <3>2. [i \in 1 .. 0 |-> 0] \in [1 .. Cardinality(T) -> T]
      BY <2>3, <3>1
    <3>3. Orders(T, [i \in 1 .. 0 |-> 0])
      BY <2>3, <2>5, <3>1, <3>2 DEF Orders
    <3>4. QED
      BY <2>3, <3>3
  <2>6. CASE T # {}
    <3>1. PICK m \in T : \A x \in T : x <= m
      BY <2>6, GreatestOne
    <3> DEFINE R == T \ {m}
    <3>2. Cardinality(R) = k - 1 /\ k - 1 \in Nat
      <4>1. Cardinality(R) = Cardinality(T) - 1
        BY <1>2, FS_RemoveElement
      <4>2. Cardinality(R) \in Nat
        BY <1>2
      <4>3. QED
        BY <2>3, <2>4, <4>1, <4>2
    <3>3. PICK s : Orders(R, s)
      BY <2>2, <2>4, <3>2
    <3> DEFINE t == [i \in 1 .. k |-> IF i = k THEN m ELSE s[i]]
    <3>4. /\ s \in [1 .. k - 1 -> R]
          /\ \A i, j \in 1 .. k - 1 : i < j => s[i] < s[j]
          /\ \A x \in R : \E i \in 1 .. k - 1 : s[i] = x
      BY <3>2, <3>3 DEF Orders
    <3>5. \A i \in 1 .. k : i # k => i \in 1 .. k - 1
      BY <2>4
    <3>6. t \in [1 .. k -> T]
      BY <3>4, <3>5
    <3>7. \A i, j \in 1 .. k : i < j => t[i] < t[j]
      <4> SUFFICES ASSUME NEW i \in 1 .. k, NEW j \in 1 .. k, i < j PROVE t[i] < t[j]
        OBVIOUS
      <4>1. i \in 1 .. k - 1 /\ t[i] = s[i] /\ s[i] \in R
        BY <2>4, <3>4
      <4>2. CASE j = k
        <5>1. t[j] = m /\ s[i] <= m /\ s[i] # m
          BY <3>1, <4>1, <4>2
        <5>2. s[i] \in Int /\ m \in Int
          <6>1. T \subseteq 1 .. n
            BY <2>3
          <6> HIDE DEF t
          <6>2. s[i] \in 1 .. n /\ m \in 1 .. n
            BY <3>1, <4>1, <6>1
          <6>3. QED
            BY <6>2
        <5> HIDE DEF t
        <5>3. QED
          BY <4>1, <5>1, <5>2
      <4>3. CASE j # k
        BY <3>4, <3>5, <4>1, <4>3
      <4>4. QED
        BY <4>2, <4>3
    <3>8. \A x \in T : \E i \in 1 .. k : t[i] = x
      <4> SUFFICES ASSUME NEW x \in T PROVE \E i \in 1 .. k : t[i] = x
        OBVIOUS
      <4>1. k \in 1 .. k /\ t[k] = m
        BY <2>4, <3>2
      <4>2. CASE x = m
        BY <4>1, <4>2
      <4>3. CASE x # m
        <5>1. PICK i \in 1 .. k - 1 : s[i] = x
          BY <3>4, <4>3
        <5>2. i \in 1 .. k /\ i # k
          BY <2>4
        <5>3. QED
          BY <5>1, <5>2
      <4>4. QED
        BY <4>2, <4>3
    <3> HIDE DEF t
    <3>9. Orders(T, t)
      BY <2>3, <3>6, <3>7, <3>8 DEF Orders
    <3>10. QED
      BY <2>3, <3>9
  <2>7. QED
    BY <2>5, <2>6
<1>4. QED
  BY <1>2, <1>3

LEMMA NodesInOrder ==
    ASSUME NEW S, S \subseteq Pbft!Nodes, BftNodes \in Nat
    PROVE  /\ Pbft!InOrder(S) \in [1 .. Cardinality(S) -> S]
           /\ \A i, j \in 1 .. Cardinality(S) : i # j => Pbft!InOrder(S)[i] # Pbft!InOrder(S)[j]
           /\ \A x \in S : \E i \in 1 .. Cardinality(S) : Pbft!InOrder(S)[i] = x
           /\ Cardinality(S) \in Nat /\ IsFiniteSet(S)
<1> DEFINE s == Pbft!InOrder(S)
<1>1. BftNodes \in Nat /\ S \subseteq 1 .. BftNodes
  BY DEF Pbft!Nodes
<1>2. Cardinality(S) \in Nat /\ IsFiniteSet(S)
  <2>1. IsFiniteSet(1 .. BftNodes)
    BY <1>1, FS_Interval
  <2>2. QED
    BY <1>1, <2>1, FS_Subset, FS_CardinalityType
<1>3. PICK o : Orders(S, o)
  BY <1>1, OrderExists
<1>4. s \in [1 .. Cardinality(S) -> S] /\ \A i, j \in DOMAIN s : i < j => s[i] < s[j]
  <2> DEFINE Good(f) == \A i, j \in DOMAIN f : i < j => f[i] < f[j]
  <2>1. o \in [1 .. Cardinality(S) -> S] /\ Good(o)
    BY <1>3 DEF Orders
  <2>2. s = CHOOSE f \in [1 .. Cardinality(S) -> S] : Good(f)
    BY PbftCounts DEF Pbft!InOrder
  <2> HIDE DEF Good, s
  <2>3. s \in [1 .. Cardinality(S) -> S] /\ Good(s)
    BY <2>1, <2>2
  <2>4. QED
    BY <2>3 DEF Good
<1> HIDE DEF s
<1>5. \A i, j \in 1 .. Cardinality(S) : i # j => s[i] # s[j]
  <2> SUFFICES ASSUME NEW i \in 1 .. Cardinality(S), NEW j \in 1 .. Cardinality(S), i < j
               PROVE  s[i] # s[j]
    BY <1>2
  <2>1. s[i] < s[j] /\ s[i] \in S /\ s[j] \in S
    BY <1>4
  <2>2. s[i] \in 1 .. BftNodes /\ s[j] \in 1 .. BftNodes
    BY <1>1, <2>1
  <2>3. QED
    BY <2>1, <2>2
<1>6. ASSUME NEW x \in S, \A i \in 1 .. Cardinality(S) : s[i] # x PROVE FALSE
  <2>1. s \in [1 .. Cardinality(S) -> S \ {x}]
    BY <1>4, <1>6
  <2>2. IsFiniteSet(S \ {x}) /\ Cardinality(S \ {x}) = Cardinality(S) - 1
    BY <1>2, FS_RemoveElement
  <2>3. IsFiniteSet(1 .. Cardinality(S)) /\ Cardinality(1 .. Cardinality(S)) = Cardinality(S)
    <3>1. IsFiniteSet(1 .. Cardinality(S))
      BY <1>2, FS_Interval
    <3>2. Cardinality(1 .. Cardinality(S)) = IF 1 > Cardinality(S) THEN 0 ELSE Cardinality(S) - 1 + 1
      BY <1>2, FS_Interval
    <3>3. QED
      BY <1>2, <3>1, <3>2
  <2>4. Cardinality(S \ {x}) < Cardinality(1 .. Cardinality(S))
    BY <1>2, <2>2, <2>3
  <2>5. \E i, j \in 1 .. Cardinality(S) : i # j /\ s[i] = s[j]
    <3> DEFINE D == 1 .. Cardinality(S)  R == S \ {x}
    <3>1. s \in [D -> R] /\ IsFiniteSet(D) /\ IsFiniteSet(R) /\ Cardinality(R) < Cardinality(D)
      BY <2>1, <2>2, <2>3, <2>4
    <3> HIDE DEF D, R
    <3>2. \E i, j \in D : i # j /\ s[i] = s[j]
      BY ONLY <3>1, FS_PigeonHole
    <3>3. QED
      BY <3>2 DEF D
  <2>6. QED
    BY <1>5, <2>5
<1>7. QED
  BY <1>2, <1>4, <1>5, <1>6 DEF s


-----------------------------------------------------------------------------
(***************************************************************************)
(* PbftSim: what each step does to the nodes and to the queue.             *)
(***************************************************************************)
BftReplicas ==
    [state : {"idle", "pre-prepare", "prepare", "commit"},
     seq : 0 .. MaxSubmits, done : 0 .. MaxSubmits,
     prepares : [Pbft!Digests -> Nat], commits : [Pbft!Digests -> Nat],
     byz : {"honest", "ignore", "equivocate"}]

Awaiting == {"pre-prepare", "prepare"}

(* Who commits, or replies, on the message at the head.                    *)
Committing ==
    {n \in Pbft!Reached(Pbft!Next1) :
        /\ pbftNode[n].state \in Awaiting
        /\ pbftNode[n].prepares[Pbft!Next1.digest] + 1 >= Pbft!Threshold}

Replying ==
    {n \in Pbft!Reached(Pbft!Next1) :
        /\ pbftNode[n].state = "commit"
        /\ pbftNode[n].commits[Pbft!Next1.digest] + 1 >= Pbft!Threshold}

LEMMA BftThreshold ==
    ASSUME Pbft!PbftAssumption
    PROVE  /\ Pbft!Threshold \in Nat /\ Pbft!Threshold = 2 * ((BftNodes - 1) \div 3) + 1
           /\ (BftNodes - 1) \div 3 \in Nat
           /\ BftNodes >= 4 => Pbft!Threshold >= 3 /\ Pbft!Threshold <= BftNodes - 1
BY DEF Pbft!PbftAssumption, Pbft!Threshold

LEMMA BftTyped ==
    ASSUME Pbft!TypeOK
    PROVE  /\ pbftNode \in [Pbft!Nodes -> BftReplicas] /\ pbftQueue \in Seq(BftMessages)
           /\ view \in 0 .. MaxViews /\ seq \in 0 .. MaxSubmits /\ pending \in 0 .. seq
           /\ committed \subseteq Pbft!Digests /\ asked \subseteq Payloads
           /\ committers \in [Pbft!Digests -> SUBSET Pbft!Nodes]
           /\ byzantine \in 0 .. MaxByzantine /\ overlapped \in BOOLEAN
BY DEF Pbft!TypeOK, BftReplicas, BftMessages, Pbft!All

Proposals(d) ==
    [i \in 1 .. BftNodes - 1 |->
        Pbft!Message("PRE-PREPARE", d, Pbft!Primary,
                     IF i < Pbft!Primary THEN i ELSE i + 1, seq + 1)]

LEMMA BftSubmits ==
    ASSUME Pbft!PbftAssumption, Pbft!TypeOK, NEW d \in Payloads, Pbft!SubmitRequest(d),
           ~Pbft!Deaf(Pbft!Primary)
    PROVE  /\ Pbft!Primary \in Pbft!Nodes /\ seq' = seq + 1 /\ seq' \in 1 .. MaxSubmits
           /\ pbftNode' \in [Pbft!Nodes -> BftReplicas]
           /\ \A n \in Pbft!Nodes : n # Pbft!Primary => pbftNode'[n] = pbftNode[n]
           /\ pbftNode'[Pbft!Primary].state = "pre-prepare" /\ pbftNode'[Pbft!Primary].byz = pbftNode[Pbft!Primary].byz
           /\ pbftNode'[Pbft!Primary].prepares = [pbftNode[Pbft!Primary].prepares EXCEPT ![d] = 1]
           /\ pbftNode'[Pbft!Primary].commits = [e \in Pbft!Digests |-> 0]
           /\ pbftQueue' = pbftQueue \o Proposals(d) /\ Proposals(d) \in Seq(BftMessages) /\ OncePerPhase(Proposals(d))
           /\ \A i \in DOMAIN Proposals(d) : Proposals(d)[i].type = "PRE-PREPARE" /\ Proposals(d)[i].digest = d
                                  /\ Proposals(d)[i].to # 0 /\ Proposals(d)[i].from = Pbft!Primary /\ Proposals(d)[i].seq = seq'
           /\ Those(Proposals(d), "PRE-PREPARE") = Pbft!Nodes \ {Pbft!Primary}
<1> DEFINE p == Pbft!Primary  r == Proposals(d)
<1>1. BftNodes \in Nat \ {0} /\ MaxSubmits \in Nat /\ d \in Pbft!Digests
  BY DEF Pbft!PbftAssumption, Pbft!Digests
<1>2. p \in Pbft!Nodes
  <2>1. view \in Nat
    BY BftTyped
  <2>2. view % BftNodes \in 0 .. BftNodes - 1
    BY <1>1, <2>1
  <2>3. QED
    BY <1>1, <2>2 DEF Pbft!Primary, Pbft!Nodes
<1>3. seq' = seq + 1 /\ seq' \in 1 .. MaxSubmits
  BY BftTyped, <1>1 DEF Pbft!SubmitRequest
<1>4. pbftNode[p] \in BftReplicas /\ pbftNode \in [Pbft!Nodes -> BftReplicas]
  BY <1>2, BftTyped
<1> DEFINE new == [pbftNode[p] EXCEPT !.state = "pre-prepare", !.seq = seq + 1,
                      !.prepares[d] = 1, !.commits = Pbft!NoVotes]
<1>5. pbftNode' = [pbftNode EXCEPT ![p] = new] /\ pbftQueue' = pbftQueue \o r
  BY DEF Pbft!SubmitRequest, Pbft!Deaf, Proposals
<1>6. /\ new \in BftReplicas /\ new.state = "pre-prepare" /\ new.byz = pbftNode[p].byz
      /\ new.prepares = [pbftNode[p].prepares EXCEPT ![d] = 1]
      /\ new.commits = [e \in Pbft!Digests |-> 0]
  <2> DEFINE o == pbftNode[p]
  <2>1. o \in BftReplicas
    BY <1>4
  <2> HIDE DEF o
  <2>2. /\ [o.prepares EXCEPT ![d] = 1] \in [Pbft!Digests -> Nat]
        /\ Pbft!NoVotes \in [Pbft!Digests -> Nat] /\ seq + 1 \in 0 .. MaxSubmits
    BY <1>1, <1>3, <2>1 DEF BftReplicas, Pbft!NoVotes
  <2>3. new = [o EXCEPT !.state = "pre-prepare", !.seq = seq + 1,
                  !.prepares = [@ EXCEPT ![d] = 1], !.commits = Pbft!NoVotes]
    BY <2>1 DEF o, BftReplicas
  <2> HIDE DEF new
  <2>4. new.state = "pre-prepare" /\ new.byz = o.byz /\ new.prepares = [o.prepares EXCEPT ![d] = 1]
        /\ new.commits = Pbft!NoVotes /\ new \in BftReplicas
    BY <2>1, <2>2, <2>3 DEF BftReplicas
  <2>5. QED
    BY <2>4 DEF o, Pbft!NoVotes
<1> HIDE DEF new
<1>7. /\ pbftNode' \in [Pbft!Nodes -> BftReplicas] /\ pbftNode'[p] = new
      /\ \A n \in Pbft!Nodes : n # p => pbftNode'[n] = pbftNode[n]
  BY <1>2, <1>4, <1>5, <1>6
<1>8. \A i \in 1 .. BftNodes - 1 : (IF i < p THEN i ELSE i + 1) \in Pbft!Nodes \ {p}
  BY <1>1, <1>2 DEF Pbft!Nodes
<1>9. /\ DOMAIN r = 1 .. BftNodes - 1
      /\ \A i \in DOMAIN r : r[i] = [type |-> "PRE-PREPARE", digest |-> d, from |-> p,
                                     to |-> IF i < p THEN i ELSE i + 1, seq |-> seq + 1]
  BY <1>1 DEF Pbft!Message, Proposals
<1>17. r = [i \in 1 .. BftNodes - 1 |-> r[i]]
  BY <1>1 DEF Proposals
<1> HIDE DEF p, r
<1> DEFINE To(i) == IF i < p THEN i ELSE i + 1
<1>16. ASSUME NEW i \in DOMAIN r
       PROVE  /\ r[i].type = "PRE-PREPARE" /\ r[i].digest = d /\ r[i].from = p
              /\ r[i].to = To(i) /\ r[i].seq = seq + 1
              /\ r[i] \in BftMessages /\ Who(r[i]) = To(i)
  <2>1. To(i) \in Pbft!Nodes \cup {0}
    BY <1>8, <1>9
  <2>2. r[i] = [type |-> "PRE-PREPARE", digest |-> d, from |-> p, to |-> To(i), seq |-> seq + 1]
    BY <1>9
  <2> HIDE DEF To
  <2>3. seq + 1 \in 1 .. MaxSubmits
    BY <1>3
  <2>4. r[i] \in BftMessages
    BY <1>1, <1>2, <2>1, <2>2, <2>3 DEF BftMessages
  <2>5. QED
    BY <2>2, <2>4 DEF Who
<1>10. \A i \in DOMAIN r : r[i] \in BftMessages
  BY <1>16
<1>11. r \in Seq(BftMessages)
  <2>1. r = [i \in 1 .. BftNodes - 1 |-> r[i]]
    BY <1>17
  <2>2. BftNodes - 1 \in Nat
    BY <1>1
  <2>3. QED
    BY <1>9, <1>10, <2>1, <2>2
<1>12. OncePerPhase(r)
  <2> SUFFICES ASSUME NEW i \in DOMAIN r, NEW j \in DOMAIN r, i # j PROVE Who(r[i]) # Who(r[j])
    BY DEF OncePerPhase
  <2>1. (IF i < p THEN i ELSE i + 1) # (IF j < p THEN j ELSE j + 1)
    BY <1>1, <1>2, <1>9 DEF Pbft!Nodes
  <2>2. QED
    BY <1>16, <2>1
<1>13. \A i \in DOMAIN r : r[i].type = "PRE-PREPARE" /\ r[i].digest = d
                           /\ r[i].to # 0 /\ r[i].from = p /\ r[i].seq = seq'
  <2> TAKE i \in DOMAIN r
  <2>1. (IF i < p THEN i ELSE i + 1) # 0
    BY <1>8, <1>9 DEF Pbft!Nodes
  <2>2. QED
    BY <1>3, <1>16, <2>1
<1>14. Those(r, "PRE-PREPARE") = Pbft!Nodes \ {p}
  <2>1. \A i \in DOMAIN r : Who(r[i]) = IF i < p THEN i ELSE i + 1
    BY <1>16
  <2>2. \A w \in Those(r, "PRE-PREPARE") : w \in Pbft!Nodes \ {p}
    BY <1>8, <1>9, <2>1 DEF Those
  <2>3. ASSUME NEW w \in Pbft!Nodes \ {p} PROVE w \in Those(r, "PRE-PREPARE")
    <3> DEFINE k == IF w < p THEN w ELSE w - 1
    <3>1. k \in 1 .. BftNodes - 1 /\ w = IF k < p THEN k ELSE k + 1
      BY <1>1, <1>2 DEF Pbft!Nodes
    <3> HIDE DEF k
    <3>2. k \in DOMAIN r /\ Who(r[k]) = w /\ r[k].type = "PRE-PREPARE"
      BY <1>9, <1>16, <2>1, <3>1
    <3>3. QED
      BY <3>2 DEF Those
  <2>4. QED
    BY <2>2, <2>3
<1>15. QED
  BY <1>2, <1>3, <1>5, <1>6, <1>7, <1>11, <1>12, <1>13, <1>14 DEF p, r


(* A proposal goes to one node and asks for what a client asked for; votes *)
(* go to all.                                                              *)
Proper(q) ==
    \A i \in DOMAIN q : IF q[i].type = "PRE-PREPARE"
                        THEN q[i].to \in Pbft!Nodes /\ q[i].digest \in Payloads
                        ELSE q[i].to = 0

LEMMA BftHead ==
    ASSUME Pbft!TypeOK, Proper(pbftQueue), pbftQueue # <<>>
    PROVE  /\ Head(pbftQueue) \in BftMessages /\ Tail(pbftQueue) \in Seq(BftMessages)
           /\ Head(pbftQueue).digest \in Pbft!Digests /\ Head(pbftQueue).seq \in 1 .. MaxSubmits
           /\ Head(pbftQueue).from \in Pbft!Nodes
           /\ Head(pbftQueue).type = "PRE-PREPARE" =>
                  Head(pbftQueue).to \in Pbft!Nodes /\ Head(pbftQueue).digest \in Payloads
           /\ Head(pbftQueue).type # "PRE-PREPARE" =>
                  /\ Head(pbftQueue).to = 0
                  /\ Pbft!Reached(Head(pbftQueue)) =
                         {n \in Pbft!Nodes : n # Head(pbftQueue).from /\ ~Pbft!Deaf(n)}
<1>1. pbftQueue \in Seq(BftMessages)
  BY BftTyped
<1>2. /\ Head(pbftQueue) \in BftMessages /\ Tail(pbftQueue) \in Seq(BftMessages)
      /\ 1 \in DOMAIN pbftQueue /\ pbftQueue[1] = Head(pbftQueue)
  BY <1>1
<1> DEFINE m == Head(pbftQueue)
<1>3. IF m.type = "PRE-PREPARE" THEN m.to \in Pbft!Nodes /\ m.digest \in Payloads ELSE m.to = 0
  BY <1>2 DEF Proper
<1> HIDE DEF m
<1>4. m.type # "PRE-PREPARE" =>
          Pbft!Reached(m) = {n \in Pbft!Nodes : n # m.from /\ ~Pbft!Deaf(n)}
  BY <1>3 DEF Pbft!Reached, Pbft!All
<1>5. m \in BftMessages
  BY <1>2 DEF m
<1>6. m.digest \in Pbft!Digests /\ m.seq \in 1 .. MaxSubmits /\ m.from \in Pbft!Nodes
  BY <1>5 DEF BftMessages
<1>7. QED
  BY <1>2, <1>3, <1>4, <1>6 DEF m

LEMMA BftPrepares ==
    ASSUME Pbft!PbftAssumption, Pbft!TypeOK, Proper(pbftQueue), Pbft!HandlePrePrepare
    PROVE  /\ pbftQueue # <<>> /\ Pbft!Next1.type = "PRE-PREPARE"
           /\ pbftNode' \in [Pbft!Nodes -> BftReplicas]
           /\ \A n \in Pbft!Nodes : n # Pbft!Next1.to \/ Pbft!Deaf(Pbft!Next1.to) => pbftNode'[n] = pbftNode[n]
           /\ Pbft!Deaf(Pbft!Next1.to) => pbftQueue' = Tail(pbftQueue)
           /\ ~Pbft!Deaf(Pbft!Next1.to) =>
                  /\ pbftNode'[Pbft!Next1.to].state = "prepare"
                  /\ pbftNode'[Pbft!Next1.to].byz = pbftNode[Pbft!Next1.to].byz
                  /\ pbftNode'[Pbft!Next1.to].done = pbftNode[Pbft!Next1.to].done
                  /\ pbftNode'[Pbft!Next1.to].commits = pbftNode[Pbft!Next1.to].commits
                  /\ pbftNode'[Pbft!Next1.to].prepares =
                         [pbftNode[Pbft!Next1.to].prepares EXCEPT ![Pbft!Next1.digest] = @ + 1]
                  /\ \E x \in BftMessages :
                         /\ pbftQueue' = Tail(pbftQueue) \o <<x>>
                         /\ x.type = "PREPARE" /\ x.from = Pbft!Next1.to /\ x.to = 0 /\ x.seq = Pbft!Next1.seq
                         /\ x.digest = IF pbftNode[Pbft!Next1.to].byz = "equivocate" THEN Fake ELSE Pbft!Next1.digest
<1> DEFINE m == Pbft!Next1  n == m.to  o == pbftNode[n]
           new == [o EXCEPT !.state = "prepare", !.seq = m.seq,
                      !.prepares = [o.prepares EXCEPT ![m.digest] = o.prepares[m.digest] + 1]]
           digest == IF o.byz = "equivocate" THEN Fake ELSE m.digest
           x == Pbft!Message("PREPARE", digest, n, Pbft!All, m.seq)
<1>1. pbftQueue # <<>> /\ m.type = "PRE-PREPARE"
  BY DEF Pbft!HandlePrePrepare, Pbft!Handle, Pbft!Next1
<1>2. /\ m \in BftMessages /\ Tail(pbftQueue) \in Seq(BftMessages)
      /\ n \in Pbft!Nodes /\ m.digest \in Pbft!Digests /\ m.seq \in 1 .. MaxSubmits
  BY <1>1, BftHead DEF Pbft!Next1
<1>3. o \in BftReplicas /\ pbftNode \in [Pbft!Nodes -> BftReplicas]
  BY <1>2, BftTyped
<1>4. n # 0 /\ digest \in Pbft!Digests /\ MaxSubmits \in Nat
  BY <1>2 DEF Pbft!Nodes, Pbft!Digests, Pbft!PbftAssumption
<1>5. Pbft!Reached(m) = {} <=> Pbft!Deaf(n)
  BY <1>2, <1>4 DEF Pbft!Reached, Pbft!All
<1>6. CASE Pbft!Deaf(n)
  <2>1. pbftQueue' = Tail(pbftQueue) /\ pbftNode' = pbftNode
    BY <1>5, <1>6 DEF Pbft!HandlePrePrepare
  <2>2. QED
    BY <1>1, <1>3, <1>6, <2>1
<1>7. CASE ~Pbft!Deaf(n)
  <2>1. pbftNode' = [pbftNode EXCEPT ![n] = new] /\ pbftQueue' = Append(Tail(pbftQueue), x)
    <3>1. /\ pbftNode' = [pbftNode EXCEPT ![n].state = "prepare", ![n].seq = m.seq,
                              ![n].prepares[m.digest] = @ + 1]
          /\ pbftQueue' = Append(Tail(pbftQueue), x)
      BY <1>5, <1>7 DEF Pbft!HandlePrePrepare
    <3> HIDE DEF m, x
    <3>2. [pbftNode EXCEPT ![n].state = "prepare", ![n].seq = m.seq,
              ![n].prepares[m.digest] = @ + 1] = [pbftNode EXCEPT ![n] = new]
      BY <1>2, <1>3 DEF BftReplicas
    <3>3. QED
      BY <3>1, <3>2
  <2>2. [o.prepares EXCEPT ![m.digest] = @ + 1] \in [Pbft!Digests -> Nat]
    BY <1>2, <1>3 DEF BftReplicas
  <2>3. /\ new.state = "prepare" /\ new.byz = o.byz /\ new.commits = o.commits /\ new.done = o.done
        /\ new.prepares = [o.prepares EXCEPT ![m.digest] = @ + 1] /\ new \in BftReplicas
    <3> HIDE DEF m
    <3>1. new = [o EXCEPT !.state = "prepare", !.seq = m.seq,
                    !.prepares = [o.prepares EXCEPT ![m.digest] = o.prepares[m.digest] + 1]]
      OBVIOUS
    <3> HIDE DEF new, o
    <3>2. m.seq \in 0 .. MaxSubmits
      BY <1>2, <1>4
    <3>3. QED
      BY <1>3, <2>2, <3>1, <3>2 DEF BftReplicas
  <2>4. /\ x \in BftMessages /\ x.type = "PREPARE" /\ x.from = n /\ x.to = 0 /\ x.seq = m.seq
        /\ x.digest = digest
    <3> HIDE DEF digest, n
    <3>1. x = [type |-> "PREPARE", digest |-> digest, from |-> n, to |-> 0, seq |-> m.seq]
      BY DEF Pbft!Message, Pbft!All
    <3> HIDE DEF x
    <3>2. QED
      BY <1>2, <1>4, <3>1 DEF BftMessages
  <2> HIDE DEF new, x
  <2>5. Append(Tail(pbftQueue), x) = Tail(pbftQueue) \o <<x>>
    BY <1>2, <2>4
  <2>6. pbftNode' \in [Pbft!Nodes -> BftReplicas] /\ pbftNode'[n] = new
        /\ \A k \in Pbft!Nodes : k # n => pbftNode'[k] = pbftNode[k]
    BY <1>2, <1>3, <2>1, <2>3
  <2>7. \E y \in BftMessages :
            /\ pbftQueue' = Tail(pbftQueue) \o <<y>>
            /\ y.type = "PREPARE" /\ y.from = n /\ y.to = 0 /\ y.seq = m.seq
            /\ y.digest = IF pbftNode[n].byz = "equivocate" THEN Fake ELSE m.digest
    BY <2>1, <2>4, <2>5
  <2>8. QED
    BY <1>1, <1>7, <2>3, <2>6, <2>7
<1>8. QED
  BY <1>6, <1>7


LEMMA BftCounts ==
    ASSUME Pbft!PbftAssumption, Pbft!TypeOK, Proper(pbftQueue), Pbft!HandlePrepare
    PROVE  /\ pbftQueue # <<>> /\ Pbft!Next1.type = "PREPARE"
           /\ Committing \subseteq Pbft!Reached(Pbft!Next1)
           /\ Pbft!Reached(Pbft!Next1) \subseteq Pbft!Nodes
           /\ pbftNode' \in [Pbft!Nodes -> BftReplicas]
           /\ \A n \in Pbft!Nodes : n \notin Pbft!Reached(Pbft!Next1) => pbftNode'[n] = pbftNode[n]
           /\ \A n \in Pbft!Reached(Pbft!Next1) :
                  /\ pbftNode'[n].byz = pbftNode[n].byz /\ pbftNode'[n].done = pbftNode[n].done
                  /\ pbftNode'[n].prepares =
                         [pbftNode[n].prepares EXCEPT ![Pbft!Next1.digest] = @ + 1]
                  /\ n \in Committing =>
                         /\ pbftNode'[n].state = "commit"
                         /\ pbftNode'[n].commits =
                                [pbftNode[n].commits EXCEPT ![Pbft!Next1.digest] = @ + 1]
                  /\ n \notin Committing =>
                         /\ pbftNode'[n].state = IF pbftNode[n].state = "pre-prepare" THEN "prepare"
                                                 ELSE pbftNode[n].state
                         /\ pbftNode'[n].commits = pbftNode[n].commits
           /\ \E r \in Seq(BftMessages) :
                  /\ pbftQueue' = Tail(pbftQueue) \o r /\ OncePerPhase(r)
                  /\ \A i \in DOMAIN r : /\ r[i].type = "COMMIT" /\ r[i].digest = Pbft!Next1.digest
                                         /\ r[i].to = 0 /\ r[i].seq = Pbft!Next1.seq
                  /\ Those(r, "COMMIT") = Committing
           /\ committers' = [committers EXCEPT ![Pbft!Next1.digest] = @ \cup Committing]
<1> DEFINE m == Pbft!Next1  d == m.digest
           Noted(n) == [pbftNode[n] EXCEPT
               !.state = IF @ = "pre-prepare" THEN "prepare" ELSE @,
               !.seq = Pbft!Higher(@, m.seq), !.prepares[d] = @ + 1]
           counted == [n \in Pbft!Nodes |-> Noted(n)]
           commits == {n \in Pbft!Reached(m) : Pbft!Prepared(counted[n], d)}
           order == Pbft!InOrder(commits)
           r == [i \in 1 .. Pbft!Cardinality(commits) |->
                    Pbft!Message("COMMIT", d, order[i], Pbft!All, m.seq)]
           Sent(n) == [Noted(n) EXCEPT !.state = "commit", !.seq = m.seq, !.commits[d] = @ + 1]
<1>1. pbftQueue # <<>> /\ m.type = "PREPARE"
  BY DEF Pbft!HandlePrepare, Pbft!Handle
<1>2. /\ m \in BftMessages /\ Tail(pbftQueue) \in Seq(BftMessages)
      /\ d \in Pbft!Digests /\ m.seq \in 1 .. MaxSubmits
  BY <1>1, BftHead DEF Pbft!Next1
<1>3. pbftNode \in [Pbft!Nodes -> BftReplicas] /\ committers \in [Pbft!Digests -> SUBSET Pbft!Nodes]
  BY BftTyped
<1>4. MaxSubmits \in Nat /\ BftNodes \in Nat
  BY DEF Pbft!PbftAssumption
<1>5. Pbft!Reached(m) \subseteq Pbft!Nodes
  BY DEF Pbft!Reached
<1>6. /\ pbftNode' = [n \in Pbft!Nodes |->
             IF n \in commits
             THEN [counted[n] EXCEPT !.state = "commit", !.seq = m.seq, !.commits[d] = @ + 1]
             ELSE IF n \in Pbft!Reached(m) THEN counted[n] ELSE pbftNode[n]]
      /\ pbftQueue' = Tail(pbftQueue) \o r
      /\ committers' = [committers EXCEPT ![d] = @ \cup commits]
  BY DEF Pbft!HandlePrepare
<1> HIDE DEF m, d
<1>7. ASSUME NEW n \in Pbft!Nodes
      PROVE  /\ Noted(n) \in BftReplicas
             /\ Noted(n).state = IF pbftNode[n].state = "pre-prepare" THEN "prepare"
                                   ELSE pbftNode[n].state
             /\ Noted(n).prepares = [pbftNode[n].prepares EXCEPT ![d] = @ + 1]
             /\ Noted(n).commits = pbftNode[n].commits
             /\ Noted(n).byz = pbftNode[n].byz /\ Noted(n).done = pbftNode[n].done
             /\ Noted(n).prepares[d] = pbftNode[n].prepares[d] + 1
             /\ Sent(n) \in BftReplicas /\ Sent(n).state = "commit"
             /\ Sent(n).prepares = [pbftNode[n].prepares EXCEPT ![d] = @ + 1]
             /\ Sent(n).commits = [pbftNode[n].commits EXCEPT ![d] = @ + 1]
             /\ Sent(n).byz = pbftNode[n].byz /\ Sent(n).done = pbftNode[n].done
  <2> DEFINE o == pbftNode[n]  c == Noted(n)
  <2>1. o \in BftReplicas
    BY <1>3
  <2>2. c = [o EXCEPT !.state = IF o.state = "pre-prepare" THEN "prepare" ELSE o.state,
                      !.seq = Pbft!Higher(o.seq, m.seq),
                      !.prepares = [o.prepares EXCEPT ![d] = o.prepares[d] + 1]]
    OBVIOUS
  <2>3. Sent(n) = [c EXCEPT !.state = "commit", !.seq = m.seq,
                             !.commits = [c.commits EXCEPT ![d] = c.commits[d] + 1]]
    OBVIOUS
  <2> DEFINE e == Sent(n)
  <2>4. e = Sent(n)
    OBVIOUS
  <2> HIDE DEF Sent, o, c, e
  <2>5. Pbft!Higher(o.seq, m.seq) \in 0 .. MaxSubmits /\ m.seq \in 0 .. MaxSubmits
    BY <1>2, <1>4, <2>1 DEF Pbft!Higher, BftReplicas
  <2>6. [o.prepares EXCEPT ![d] = o.prepares[d] + 1] \in [Pbft!Digests -> Nat]
    BY <1>2, <2>1 DEF BftReplicas
  <2>7. /\ c \in BftReplicas
        /\ c.state = IF o.state = "pre-prepare" THEN "prepare" ELSE o.state
        /\ c.prepares = [o.prepares EXCEPT ![d] = o.prepares[d] + 1]
        /\ c.commits = o.commits /\ c.byz = o.byz /\ c.done = o.done
    BY <2>1, <2>2, <2>5, <2>6 DEF BftReplicas
  <2>8. [c.commits EXCEPT ![d] = c.commits[d] + 1] \in [Pbft!Digests -> Nat]
    BY <1>2, <2>7 DEF BftReplicas
  <2>9. /\ e \in BftReplicas /\ e.state = "commit" /\ e.prepares = c.prepares
        /\ e.commits = [c.commits EXCEPT ![d] = c.commits[d] + 1]
        /\ e.byz = c.byz /\ e.done = c.done
    BY <2>3, <2>4, <2>5, <2>7, <2>8 DEF BftReplicas
  <2>10. c.prepares[d] = o.prepares[d] + 1
    BY <1>2, <2>1, <2>7 DEF BftReplicas
  <2>11. QED
    BY <2>4, <2>7, <2>9, <2>10 DEF o, c
<1>8. /\ \A n \in commits : pbftNode'[n] = Sent(n)
      /\ \A n \in Pbft!Reached(m) : n \notin commits => pbftNode'[n] = Noted(n)
      /\ \A n \in Pbft!Nodes : n \notin Pbft!Reached(m) => pbftNode'[n] = pbftNode[n]
  <2>1. \A n \in Pbft!Nodes : counted[n] = Noted(n)
    OBVIOUS
  <2>2. commits \subseteq Pbft!Reached(m)
    OBVIOUS
  <2> DEFINE sent(n) == [counted[n] EXCEPT !.state = "commit", !.seq = m.seq,
                                           !.commits[d] = @ + 1]
  <2>3. \A n \in Pbft!Nodes : sent(n) = Sent(n)
    BY <2>1
  <2>4. pbftNode' = [n \in Pbft!Nodes |-> IF n \in commits THEN sent(n)
                        ELSE IF n \in Pbft!Reached(m) THEN counted[n] ELSE pbftNode[n]]
    BY <1>6
  <2> HIDE DEF Noted, counted, Sent, sent, commits
  <2>5. QED
    BY <1>5, <2>1, <2>2, <2>3, <2>4
<1>9. \A n \in Pbft!Reached(m) : Pbft!Prepared(counted[n], d) <=>
          pbftNode[n].state \in Awaiting /\ pbftNode[n].prepares[d] + 1 >= Pbft!Threshold
  <2> TAKE n \in Pbft!Reached(m)
  <2>1. n \in Pbft!Nodes /\ counted[n] = Noted(n) /\ pbftNode[n] \in BftReplicas
    BY <1>3, <1>5
  <2>2. Noted(n).state = "prepare" <=> pbftNode[n].state \in Awaiting
    BY <1>7, <2>1 DEF Awaiting
  <2>3. Noted(n).prepares[d] = pbftNode[n].prepares[d] + 1
    BY <1>7, <2>1
  <2> HIDE DEF counted, Noted
  <2>4. QED
    BY <2>1, <2>2, <2>3 DEF Pbft!Prepared
<1>10. commits = Committing
  BY <1>9 DEF Committing, m, d
<1> DEFINE stepped(n) ==
               IF n \in commits
               THEN [counted[n] EXCEPT !.state = "commit", !.seq = m.seq, !.commits[d] = @ + 1]
               ELSE IF n \in Pbft!Reached(m) THEN counted[n] ELSE pbftNode[n]
<1>11. pbftNode' = [n \in Pbft!Nodes |-> stepped(n)]
  BY <1>6
<1> HIDE DEF Noted, counted, Sent, commits, order, stepped
<1>12. pbftNode' \in [Pbft!Nodes -> BftReplicas]
  <2>1. \A n \in Pbft!Nodes : pbftNode'[n] \in BftReplicas
    BY <1>3, <1>7, <1>8, ZenonT(60)
  <2>2. pbftNode' = [n \in Pbft!Nodes |-> pbftNode'[n]]
    BY <1>11
  <2>3. QED
    BY <2>1, <2>2
<1>13. commits \subseteq Pbft!Nodes /\ commits \subseteq Pbft!Reached(m)
  BY <1>5 DEF commits
<1>14. /\ order \in [1 .. Cardinality(commits) -> commits] /\ Cardinality(commits) \in Nat
       /\ \A i, j \in 1 .. Cardinality(commits) : i # j => order[i] # order[j]
       /\ \A x \in commits : \E i \in 1 .. Cardinality(commits) : order[i] = x
  BY <1>4, <1>13, NodesInOrder DEF order
<1>15. /\ DOMAIN r = 1 .. Cardinality(commits)
       /\ \A i \in DOMAIN r : r[i] = [type |-> "COMMIT", digest |-> d, from |-> order[i],
                                      to |-> 0, seq |-> m.seq]
  BY PbftCounts DEF Pbft!Message, Pbft!All
<1>16. ASSUME NEW i \in DOMAIN r
       PROVE  /\ r[i].type = "COMMIT" /\ r[i].digest = d /\ r[i].from = order[i]
              /\ r[i].to = 0 /\ r[i].seq = m.seq
              /\ r[i] \in BftMessages /\ Who(r[i]) = order[i]
  <2>1. order[i] \in Pbft!Nodes
    BY <1>13, <1>14, <1>15
  <2>2. r[i] = [type |-> "COMMIT", digest |-> d, from |-> order[i], to |-> 0, seq |-> m.seq]
    BY <1>15
  <2> HIDE DEF r
  <2>3. r[i] \in BftMessages
    BY <1>2, <2>1, <2>2 DEF BftMessages
  <2>4. QED
    BY <2>2, <2>3 DEF Who
<1>17. r \in Seq(BftMessages)
  <2>1. r = [i \in 1 .. Cardinality(commits) |-> r[i]]
    BY <1>15
  <2>2. \A i \in 1 .. Cardinality(commits) : r[i] \in BftMessages
    BY <1>15, <1>16
  <2> HIDE DEF r
  <2>3. QED
    BY <1>14, <2>1, <2>2
<1> HIDE DEF r
<1>18. OncePerPhase(r)
  BY <1>14, <1>15, <1>16 DEF OncePerPhase
<1>19. Those(r, "COMMIT") = commits
  <2>1. \A w \in Those(r, "COMMIT") : w \in commits
    BY <1>14, <1>15, <1>16 DEF Those
  <2>2. ASSUME NEW w \in commits PROVE w \in Those(r, "COMMIT")
    <3>1. PICK i \in DOMAIN r : order[i] = w
      BY <1>14, <1>15
    <3>2. Who(r[i]) = w /\ r[i].type = "COMMIT"
      BY <1>16, <3>1
    <3>3. QED
      BY <3>2 DEF Those
  <2>3. QED
    BY <2>1, <2>2
<1>20. \E q \in Seq(BftMessages) :
           /\ pbftQueue' = Tail(pbftQueue) \o q /\ OncePerPhase(q)
           /\ \A i \in DOMAIN q : /\ q[i].type = "COMMIT" /\ q[i].digest = d
                                  /\ q[i].to = 0 /\ q[i].seq = m.seq
           /\ Those(q, "COMMIT") = Committing
  BY <1>6, <1>10, <1>16, <1>17, <1>18, <1>19
<1>21. committers' = [committers EXCEPT ![d] = @ \cup Committing]
  BY <1>6, <1>10
<1>22. ASSUME NEW n \in Pbft!Reached(m)
       PROVE  /\ pbftNode'[n].byz = pbftNode[n].byz /\ pbftNode'[n].done = pbftNode[n].done
              /\ pbftNode'[n].prepares = [pbftNode[n].prepares EXCEPT ![d] = @ + 1]
              /\ n \in Committing =>
                     /\ pbftNode'[n].state = "commit"
                     /\ pbftNode'[n].commits = [pbftNode[n].commits EXCEPT ![d] = @ + 1]
              /\ n \notin Committing =>
                     /\ pbftNode'[n].state = IF pbftNode[n].state = "pre-prepare" THEN "prepare"
                                             ELSE pbftNode[n].state
                     /\ pbftNode'[n].commits = pbftNode[n].commits
  <2>1. n \in Pbft!Nodes
    BY <1>5
  <2>2. CASE n \in commits
    BY <1>7, <1>8, <1>10, <2>1, <2>2
  <2>3. CASE n \notin commits
    BY <1>7, <1>8, <1>10, <2>1, <2>3
  <2>4. QED
    BY <2>2, <2>3
<1>23. QED
  BY <1>1, <1>5, <1>8, <1>10, <1>12, <1>13, <1>20, <1>21, <1>22 DEF m, d


LEMMA BftCloses ==
    ASSUME Pbft!PbftAssumption, Pbft!TypeOK, Proper(pbftQueue), Pbft!HandleCommit
    PROVE  /\ pbftQueue # <<>> /\ Pbft!Next1.type = "COMMIT"
           /\ Replying \subseteq Pbft!Reached(Pbft!Next1)
           /\ Pbft!Reached(Pbft!Next1) \subseteq Pbft!Nodes
           /\ pbftNode' \in [Pbft!Nodes -> BftReplicas]
           /\ \A n \in Pbft!Nodes : n \notin Pbft!Reached(Pbft!Next1) => pbftNode'[n] = pbftNode[n]
           /\ \A n \in Pbft!Reached(Pbft!Next1) :
                  /\ pbftNode'[n].byz = pbftNode[n].byz
                  /\ n \in Replying =>
                         /\ pbftNode'[n].state = "idle" /\ pbftNode'[n].done = Pbft!Next1.seq
                         /\ pbftNode'[n].prepares = [e \in Pbft!Digests |-> 0]
                         /\ pbftNode'[n].commits = [e \in Pbft!Digests |-> 0]
                  /\ n \notin Replying =>
                         /\ pbftNode'[n].state = pbftNode[n].state
                         /\ pbftNode'[n].done = pbftNode[n].done
                         /\ pbftNode'[n].prepares = pbftNode[n].prepares
                         /\ pbftNode'[n].commits =
                                [pbftNode[n].commits EXCEPT ![Pbft!Next1.digest] = @ + 1]
           /\ pbftQueue' = Tail(pbftQueue)
           /\ committed' = IF Replying = {} THEN committed
                           ELSE committed \cup {Pbft!Next1.digest}
           /\ Cardinality(Replying) \in Nat
           /\ pending' = IF pending > Cardinality(Replying) THEN pending - Cardinality(Replying) ELSE 0
<1> DEFINE m == Pbft!Next1  d == m.digest
           Noted(n) == [pbftNode[n] EXCEPT
               !.seq = Pbft!Higher(@, m.seq), !.commits[d] = @ + 1]
           counted == [n \in Pbft!Nodes |-> Noted(n)]
           replies == {n \in Pbft!Reached(m) : Pbft!Committed(counted[n], d)}
           Done(n) == [Noted(n) EXCEPT !.state = "idle", !.seq = m.seq, !.done = m.seq,
                                         !.prepares = Pbft!NoVotes, !.commits = Pbft!NoVotes]
<1>1. pbftQueue # <<>> /\ m.type = "COMMIT"
  BY DEF Pbft!HandleCommit, Pbft!Handle
<1>2. /\ m \in BftMessages /\ Tail(pbftQueue) \in Seq(BftMessages)
      /\ d \in Pbft!Digests /\ m.seq \in 1 .. MaxSubmits
  BY <1>1, BftHead DEF Pbft!Next1
<1>3. pbftNode \in [Pbft!Nodes -> BftReplicas]
  BY BftTyped
<1>4. MaxSubmits \in Nat /\ BftNodes \in Nat
  BY DEF Pbft!PbftAssumption
<1>5. Pbft!Reached(m) \subseteq Pbft!Nodes
  BY DEF Pbft!Reached
<1>6. /\ pbftNode' = [n \in Pbft!Nodes |->
             IF n \in replies
             THEN [counted[n] EXCEPT !.state = "idle", !.seq = m.seq, !.done = m.seq,
                                     !.prepares = Pbft!NoVotes, !.commits = Pbft!NoVotes]
             ELSE IF n \in Pbft!Reached(m) THEN counted[n] ELSE pbftNode[n]]
      /\ pbftQueue' = Tail(pbftQueue)
      /\ committed' = IF replies = {} THEN committed ELSE committed \cup {d}
      /\ pending' = Pbft!PendingAfter(Pbft!Cardinality(replies))
  BY DEF Pbft!HandleCommit
<1> HIDE DEF m, d
<1>7. ASSUME NEW n \in Pbft!Nodes
      PROVE  /\ Noted(n) \in BftReplicas
             /\ Noted(n).state = pbftNode[n].state
             /\ Noted(n).prepares = pbftNode[n].prepares
             /\ Noted(n).commits = [pbftNode[n].commits EXCEPT ![d] = @ + 1]
             /\ Noted(n).byz = pbftNode[n].byz /\ Noted(n).done = pbftNode[n].done
             /\ Noted(n).commits[d] = pbftNode[n].commits[d] + 1
             /\ Done(n) \in BftReplicas /\ Done(n).state = "idle" /\ Done(n).done = m.seq
             /\ Done(n).prepares = [e \in Pbft!Digests |-> 0]
             /\ Done(n).commits = [e \in Pbft!Digests |-> 0]
             /\ Done(n).byz = pbftNode[n].byz
  <2> DEFINE o == pbftNode[n]  c == Noted(n)
  <2>1. o \in BftReplicas
    BY <1>3
  <2>2. c = [o EXCEPT !.seq = Pbft!Higher(o.seq, m.seq),
                      !.commits = [o.commits EXCEPT ![d] = o.commits[d] + 1]]
    OBVIOUS
  <2>3. Done(n) = [c EXCEPT !.state = "idle", !.seq = m.seq, !.done = m.seq,
                            !.prepares = Pbft!NoVotes, !.commits = Pbft!NoVotes]
    OBVIOUS
  <2> DEFINE e == Done(n)
  <2>4. e = Done(n)
    OBVIOUS
  <2> HIDE DEF Done, o, c, e
  <2>5. Pbft!Higher(o.seq, m.seq) \in 0 .. MaxSubmits /\ m.seq \in 0 .. MaxSubmits
    BY <1>2, <1>4, <2>1 DEF Pbft!Higher, BftReplicas
  <2>6. [o.commits EXCEPT ![d] = o.commits[d] + 1] \in [Pbft!Digests -> Nat]
    BY <1>2, <2>1 DEF BftReplicas
  <2>7. /\ c \in BftReplicas /\ c.state = o.state /\ c.prepares = o.prepares
        /\ c.commits = [o.commits EXCEPT ![d] = o.commits[d] + 1]
        /\ c.byz = o.byz /\ c.done = o.done
    BY <2>1, <2>2, <2>5, <2>6 DEF BftReplicas
  <2>8. Pbft!NoVotes \in [Pbft!Digests -> Nat] /\ Pbft!NoVotes = [x \in Pbft!Digests |-> 0]
    BY DEF Pbft!NoVotes
  <2>9. /\ e \in BftReplicas /\ e.state = "idle" /\ e.done = m.seq
        /\ e.prepares = Pbft!NoVotes /\ e.commits = Pbft!NoVotes /\ e.byz = c.byz
    BY <2>3, <2>4, <2>5, <2>7, <2>8 DEF BftReplicas
  <2>10. c.commits[d] = o.commits[d] + 1
    BY <1>2, <2>1, <2>7 DEF BftReplicas
  <2>11. QED
    BY <2>4, <2>7, <2>8, <2>9, <2>10 DEF o, c
<1>8. /\ \A n \in replies : pbftNode'[n] = Done(n)
      /\ \A n \in Pbft!Reached(m) : n \notin replies => pbftNode'[n] = Noted(n)
      /\ \A n \in Pbft!Nodes : n \notin Pbft!Reached(m) => pbftNode'[n] = pbftNode[n]
  BY <1>5, <1>6
<1>9. \A n \in Pbft!Reached(m) : Pbft!Committed(counted[n], d) <=>
          pbftNode[n].state = "commit" /\ pbftNode[n].commits[d] + 1 >= Pbft!Threshold
  <2> TAKE n \in Pbft!Reached(m)
  <2>1. n \in Pbft!Nodes /\ counted[n] = Noted(n)
    BY <1>5
  <2>2. Noted(n).state = pbftNode[n].state
    BY <1>7, <2>1
  <2>3. Noted(n).commits[d] = pbftNode[n].commits[d] + 1
    BY <1>7, <2>1
  <2> HIDE DEF counted, Noted
  <2>4. QED
    BY <2>1, <2>2, <2>3 DEF Pbft!Committed
<1>10. replies = Replying
  BY <1>9 DEF Replying, m, d
<1>11. pbftNode' = [n \in Pbft!Nodes |-> IF n \in replies THEN Done(n)
                       ELSE IF n \in Pbft!Reached(m) THEN Noted(n) ELSE pbftNode[n]]
  BY <1>6
<1> HIDE DEF Noted, counted, Done, replies
<1>12. pbftNode' \in [Pbft!Nodes -> BftReplicas]
  BY <1>3, <1>7, <1>11
<1>13. Replying \subseteq Pbft!Reached(m)
  BY DEF Replying, m
<1>14. Cardinality(Replying) \in Nat
  BY <1>4, <1>5, <1>13, NodesInOrder
<1>15. pending' = IF pending > Cardinality(Replying) THEN pending - Cardinality(Replying) ELSE 0
  BY <1>6, <1>10, PbftCounts DEF Pbft!PendingAfter
<1>16. ASSUME NEW n \in Pbft!Reached(m)
       PROVE  /\ pbftNode'[n].byz = pbftNode[n].byz
              /\ n \in Replying =>
                     /\ pbftNode'[n].state = "idle" /\ pbftNode'[n].done = m.seq
                     /\ pbftNode'[n].prepares = [e \in Pbft!Digests |-> 0]
                     /\ pbftNode'[n].commits = [e \in Pbft!Digests |-> 0]
              /\ n \notin Replying =>
                     /\ pbftNode'[n].state = pbftNode[n].state
                     /\ pbftNode'[n].done = pbftNode[n].done
                     /\ pbftNode'[n].prepares = pbftNode[n].prepares
                     /\ pbftNode'[n].commits = [pbftNode[n].commits EXCEPT ![d] = @ + 1]
  <2>1. n \in Pbft!Nodes
    BY <1>5
  <2>2. CASE n \in replies
    BY <1>7, <1>8, <1>10, <2>1, <2>2
  <2>3. CASE n \notin replies
    BY <1>7, <1>8, <1>10, <2>1, <2>3
  <2>4. QED
    BY <2>2, <2>3
<1>17. QED
  BY <1>1, <1>5, <1>6, <1>8, <1>10, <1>12, <1>13, <1>14, <1>15, <1>16 DEF m, d

-----------------------------------------------------------------------------
(***************************************************************************)
(* PbftSim: type correctness.                                              *)
(***************************************************************************)
BftTypeInv == Pbft!TypeOK /\ Proper(pbftQueue)

LEMMA BftTypedBack ==
    ASSUME pbftNode \in [Pbft!Nodes -> BftReplicas], pbftQueue \in Seq(BftMessages),
           view \in 0 .. MaxViews, seq \in 0 .. MaxSubmits, pending \in 0 .. seq,
           committed \subseteq Pbft!Digests, asked \subseteq Payloads,
           committers \in [Pbft!Digests -> SUBSET Pbft!Nodes],
           byzantine \in 0 .. MaxByzantine, overlapped \in BOOLEAN
    PROVE  Pbft!TypeOK
BY DEF Pbft!TypeOK, BftReplicas, BftMessages, Pbft!All

LEMMA BftTypeInit ==
    ASSUME Pbft!PbftAssumption, Pbft!Init
    PROVE  BftTypeInv
<1>1. MaxSubmits \in Nat /\ MaxViews \in Nat /\ MaxByzantine \in Nat
  BY DEF Pbft!PbftAssumption
<1>2. pbftNode \in [Pbft!Nodes -> BftReplicas]
  <2>1. Pbft!NoVotes \in [Pbft!Digests -> Nat]
    BY DEF Pbft!NoVotes
  <2>2. [state |-> "idle", seq |-> 0, done |-> 0, prepares |-> Pbft!NoVotes,
         commits |-> Pbft!NoVotes, byz |-> "honest"] \in BftReplicas
    BY <1>1, <2>1 DEF BftReplicas
  <2>3. QED
    BY <2>2 DEF Pbft!Init
<1>3. pbftQueue = <<>> /\ pbftQueue \in Seq(BftMessages) /\ Proper(pbftQueue)
  BY DEF Pbft!Init, Proper
<1>4. /\ view \in 0 .. MaxViews /\ seq \in 0 .. MaxSubmits /\ pending \in 0 .. seq
      /\ committed \subseteq Pbft!Digests /\ asked \subseteq Payloads
      /\ committers \in [Pbft!Digests -> SUBSET Pbft!Nodes]
      /\ byzantine \in 0 .. MaxByzantine /\ overlapped \in BOOLEAN
  <2>1. view = 0 /\ seq = 0 /\ pending = 0 /\ committed = {} /\ asked = {} /\ byzantine = 0
        /\ overlapped = FALSE
    BY DEF Pbft!Init
  <2>2. committers \in [Pbft!Digests -> SUBSET Pbft!Nodes]
    <3>1. committers = [d \in Pbft!Digests |-> {}]
      BY DEF Pbft!Init
    <3>2. QED
      BY <3>1
  <2>3. /\ view \in 0 .. MaxViews /\ seq \in 0 .. MaxSubmits /\ pending \in 0 .. seq
        /\ byzantine \in 0 .. MaxByzantine
    BY <1>1, <2>1
  <2>4. committed \subseteq Pbft!Digests /\ asked \subseteq Payloads
    BY <2>1
  <2>5. QED
    BY <2>1, <2>2, <2>3, <2>4
<1>5. QED
  BY <1>2, <1>3, <1>4, BftTypedBack DEF BftTypeInv


LEMMA ProperTail ==
    ASSUME NEW q \in Seq(BftMessages), q # <<>>, Proper(q)
    PROVE  Proper(Tail(q))
<1> SUFFICES ASSUME NEW i \in DOMAIN Tail(q)
             PROVE  IF Tail(q)[i].type = "PRE-PREPARE"
                    THEN Tail(q)[i].to \in Pbft!Nodes /\ Tail(q)[i].digest \in Payloads
                    ELSE Tail(q)[i].to = 0
  BY DEF Proper
<1>1. i + 1 \in DOMAIN q /\ Tail(q)[i] = q[i + 1]
  OBVIOUS
<1>2. QED
  BY <1>1 DEF Proper

LEMMA ProperMore ==
    ASSUME NEW q \in Seq(BftMessages), NEW r \in Seq(BftMessages), Proper(q), Proper(r)
    PROVE  q \o r \in Seq(BftMessages) /\ Proper(q \o r)
<1>1. q \o r \in Seq(BftMessages)
  OBVIOUS
<1>2. ASSUME NEW i \in DOMAIN (q \o r)
      PROVE  \/ i \in DOMAIN q /\ (q \o r)[i] = q[i]
             \/ i - Len(q) \in DOMAIN r /\ (q \o r)[i] = r[i - Len(q)]
  OBVIOUS
<1>3. QED
  BY <1>1, <1>2 DEF Proper

LEMMA BftInjects ==
    ASSUME Pbft!TypeOK, NEW n \in Pbft!Nodes, NEW b \in {"ignore", "equivocate"},
           Pbft!InjectFault(n, b)
    PROVE  /\ pbftNode' \in [Pbft!Nodes -> BftReplicas]
           /\ \A k \in Pbft!Nodes : k # n => pbftNode'[k] = pbftNode[k]
           /\ pbftNode'[n].byz = b /\ pbftNode'[n].state = pbftNode[n].state
           /\ pbftNode'[n].done = pbftNode[n].done
           /\ pbftNode'[n].prepares = pbftNode[n].prepares
           /\ pbftNode'[n].commits = pbftNode[n].commits
<1>1. pbftNode \in [Pbft!Nodes -> BftReplicas]
  BY BftTyped
<1> DEFINE o == pbftNode[n]  new == [o EXCEPT !.byz = b]
<1>2. o \in BftReplicas
  BY <1>1
<1>3. pbftNode' = [pbftNode EXCEPT ![n] = new]
  BY DEF Pbft!InjectFault
<1> HIDE DEF o
<1>4. /\ new \in BftReplicas /\ new.byz = b /\ new.state = o.state /\ new.done = o.done
      /\ new.prepares = o.prepares /\ new.commits = o.commits
  BY <1>2 DEF BftReplicas
<1> HIDE DEF new
<1>5. /\ pbftNode' \in [Pbft!Nodes -> BftReplicas] /\ pbftNode'[n] = new
      /\ \A k \in Pbft!Nodes : k # n => pbftNode'[k] = pbftNode[k]
  BY <1>1, <1>3, <1>4
<1>6. QED
  BY <1>4, <1>5 DEF o

LEMMA BftTypeNext ==
    ASSUME Pbft!PbftAssumption, BftTypeInv, [Pbft!Next]_pbftVars
    PROVE  BftTypeInv'
<1> USE DEF BftTypeInv
<1>1. /\ pbftNode \in [Pbft!Nodes -> BftReplicas] /\ pbftQueue \in Seq(BftMessages)
      /\ view \in 0 .. MaxViews /\ seq \in 0 .. MaxSubmits /\ pending \in 0 .. seq
      /\ committed \subseteq Pbft!Digests /\ asked \subseteq Payloads
      /\ committers \in [Pbft!Digests -> SUBSET Pbft!Nodes]
      /\ byzantine \in 0 .. MaxByzantine /\ overlapped \in BOOLEAN
      /\ Proper(pbftQueue)
  BY BftTyped
<1>2. MaxSubmits \in Nat /\ MaxViews \in Nat /\ MaxByzantine \in Nat /\ BftNodes \in Nat \ {0}
  BY DEF Pbft!PbftAssumption
<1> DEFINE Same == /\ view' \in 0 .. MaxViews /\ seq' \in 0 .. MaxSubmits /\ pending' \in 0 .. seq'
                   /\ committed' \subseteq Pbft!Digests /\ asked' \subseteq Payloads
                   /\ committers' \in [Pbft!Digests -> SUBSET Pbft!Nodes]
                   /\ byzantine' \in 0 .. MaxByzantine /\ overlapped' \in BOOLEAN
<1>3. ASSUME Same, pbftNode' \in [Pbft!Nodes -> BftReplicas], pbftQueue' \in Seq(BftMessages),
             Proper(pbftQueue')
      PROVE  BftTypeInv'
  <2>1. Pbft!TypeOK'
    BY <1>3, BftTypedBack DEF Pbft!TypeOK, BftReplicas, BftMessages, Pbft!All
  <2>2. Proper(pbftQueue)'
    BY <1>3 DEF Proper, Pbft!Nodes
  <2>3. QED
    BY <2>1, <2>2
<1> HIDE DEF BftTypeInv
<1>4. CASE UNCHANGED pbftVars
  <2>1. Same /\ pbftNode' = pbftNode /\ pbftQueue' = pbftQueue
    BY <1>1, <1>4 DEF pbftVars
  <2>2. QED
    BY <1>1, <1>3, <2>1
<1>5. ASSUME NEW d \in Payloads, Pbft!SubmitRequest(d) PROVE BftTypeInv'
  <2>1. Same
    BY <1>1, <1>2, <1>5 DEF Pbft!SubmitRequest
  <2>2. CASE Pbft!Deaf(Pbft!Primary)
    <3>1. pbftNode' = pbftNode /\ pbftQueue' = pbftQueue
      BY <1>5, <2>2 DEF Pbft!SubmitRequest
    <3>2. QED
      BY <1>1, <1>3, <2>1, <3>1
  <2>3. CASE ~Pbft!Deaf(Pbft!Primary)
    <3> DEFINE p == Pbft!Primary  r == Proposals(d)
    <3>1. Pbft!TypeOK
      BY DEF BftTypeInv
    <3>2. /\ pbftNode' \in [Pbft!Nodes -> BftReplicas]
          /\ pbftQueue' = pbftQueue \o r /\ r \in Seq(BftMessages)
          /\ \A i \in DOMAIN r : r[i].type = "PRE-PREPARE" /\ r[i].digest = d /\ r[i].to # 0
      BY <1>5, <2>3, <3>1, BftSubmits
    <3> HIDE DEF p, r
    <3>3. \A i \in DOMAIN r : r[i] \in BftMessages
      BY <3>2
    <3>4. \A i \in DOMAIN r : r[i].to \in Pbft!Nodes
      BY <3>2, <3>3 DEF BftMessages
    <3>5. Proper(r)
      BY <1>5, <3>2, <3>4 DEF Proper
    <3>6. QED
      BY <1>1, <1>3, <2>1, <3>2, <3>5, ProperMore
  <2>4. QED
    BY <2>2, <2>3
<1>6. ASSUME Pbft!HandlePrePrepare PROVE BftTypeInv'
  <2> DEFINE m == Pbft!Next1
  <2>1. Same
    BY <1>1, <1>6 DEF Pbft!HandlePrePrepare, Pbft!observers
  <2>2. Pbft!TypeOK /\ Proper(pbftQueue)
    BY DEF BftTypeInv
  <2> HIDE DEF m
  <2>3. /\ pbftQueue # <<>> /\ pbftNode' \in [Pbft!Nodes -> BftReplicas]
        /\ Pbft!Deaf(m.to) => pbftQueue' = Tail(pbftQueue)
        /\ ~Pbft!Deaf(m.to) =>
               \E x \in BftMessages :
                   /\ pbftQueue' = Tail(pbftQueue) \o <<x>>
                   /\ x.type = "PREPARE" /\ x.to = 0
    BY <1>6, <2>2, BftPrepares DEF m
  <2>4. Tail(pbftQueue) \in Seq(BftMessages) /\ Proper(Tail(pbftQueue))
    BY <1>1, <2>3, ProperTail
  <2>5. CASE Pbft!Deaf(m.to)
    BY <1>3, <2>1, <2>3, <2>4, <2>5
  <2>6. CASE ~Pbft!Deaf(m.to)
    <3>1. PICK x \in BftMessages : /\ pbftQueue' = Tail(pbftQueue) \o <<x>>
                                   /\ x.type = "PREPARE" /\ x.to = 0
      BY <2>3, <2>6
    <3>2. <<x>> \in Seq(BftMessages) /\ Proper(<<x>>)
      BY <3>1 DEF Proper
    <3>3. QED
      BY <1>3, <2>1, <2>3, <2>4, <3>1, <3>2, ProperMore
  <2>7. QED
    BY <2>5, <2>6
<1>7. ASSUME Pbft!HandlePrepare PROVE BftTypeInv'
  <2>1. Pbft!TypeOK /\ Proper(pbftQueue)
    BY DEF BftTypeInv
  <2>2. /\ pbftQueue # <<>> /\ pbftNode' \in [Pbft!Nodes -> BftReplicas]
        /\ Pbft!Next1.type = "PREPARE"
        /\ Committing \subseteq Pbft!Reached(Pbft!Next1)
        /\ Pbft!Reached(Pbft!Next1) \subseteq Pbft!Nodes
        /\ committers' = [committers EXCEPT ![Pbft!Next1.digest] = @ \cup Committing]
        /\ \E r \in Seq(BftMessages) :
               /\ pbftQueue' = Tail(pbftQueue) \o r
               /\ \A i \in DOMAIN r : r[i].type = "COMMIT" /\ r[i].to = 0
    BY <1>7, <2>1, BftCounts
  <2>3. Pbft!Next1.digest \in Pbft!Digests
    BY <2>1, <2>2, BftHead DEF Pbft!Next1
  <2>4. Same
    <3>1. UNCHANGED <<view, seq, pending, committed, asked, byzantine, overlapped>>
      BY <1>7 DEF Pbft!HandlePrepare
    <3>2. committers' \in [Pbft!Digests -> SUBSET Pbft!Nodes]
      BY <1>1, <2>2, <2>3
    <3>3. QED
      BY <1>1, <3>1, <3>2
  <2>5. Tail(pbftQueue) \in Seq(BftMessages) /\ Proper(Tail(pbftQueue))
    BY <1>1, <2>2, ProperTail
  <2>6. PICK r \in Seq(BftMessages) :
            /\ pbftQueue' = Tail(pbftQueue) \o r
            /\ \A i \in DOMAIN r : r[i].type = "COMMIT" /\ r[i].to = 0
    BY <2>2
  <2>7. Proper(r)
    BY <2>6 DEF Proper
  <2>8. QED
    BY <1>3, <2>2, <2>4, <2>5, <2>6, <2>7, ProperMore
<1>8. ASSUME Pbft!HandleCommit PROVE BftTypeInv'
  <2>1. Pbft!TypeOK /\ Proper(pbftQueue)
    BY DEF BftTypeInv
  <2>2. /\ pbftQueue # <<>> /\ pbftNode' \in [Pbft!Nodes -> BftReplicas]
        /\ pbftQueue' = Tail(pbftQueue)
        /\ committed' = IF Replying = {} THEN committed ELSE committed \cup {Pbft!Next1.digest}
        /\ Cardinality(Replying) \in Nat
        /\ pending' = IF pending > Cardinality(Replying) THEN pending - Cardinality(Replying) ELSE 0
    BY <1>8, <2>1, BftCloses
  <2>3. Pbft!Next1.digest \in Pbft!Digests
    BY <2>1, <2>2, BftHead DEF Pbft!Next1
  <2>4. Same
    <3>1. UNCHANGED <<view, seq, asked, committers, byzantine, overlapped>>
      BY <1>8 DEF Pbft!HandleCommit, Pbft!observers
    <3>2. pending' \in 0 .. seq'
      BY <1>1, <1>2, <2>2, <3>1
    <3>3. QED
      BY <1>1, <2>2, <2>3, <3>1, <3>2
  <2>5. Tail(pbftQueue) \in Seq(BftMessages) /\ Proper(Tail(pbftQueue))
    BY <1>1, <2>2, ProperTail
  <2>6. QED
    BY <1>3, <2>2, <2>4, <2>5
<1>9. ASSUME Pbft!TriggerViewChange PROVE BftTypeInv'
  <2>1. Same /\ pbftNode' = pbftNode /\ pbftQueue' = pbftQueue
    BY <1>1, <1>2, <1>9 DEF Pbft!TriggerViewChange, Pbft!observers
  <2>2. QED
    BY <1>1, <1>3, <2>1
<1>10. ASSUME NEW n \in Pbft!Nodes, NEW b \in {"ignore", "equivocate"}, Pbft!InjectFault(n, b)
       PROVE  BftTypeInv'
  <2>1. Same /\ pbftQueue' = pbftQueue
    BY <1>1, <1>2, <1>10 DEF Pbft!InjectFault
  <2>2. pbftNode' \in [Pbft!Nodes -> BftReplicas]
    BY <1>10, BftInjects DEF BftTypeInv
  <2>3. QED
    BY <1>1, <1>3, <2>1, <2>2
<1>11. QED
  BY <1>4, <1>5, <1>6, <1>7, <1>8, <1>9, <1>10 DEF Pbft!Next

-----------------------------------------------------------------------------
(***************************************************************************)
(* PbftSim: as long as requests do not overlap, proposals, prepares and    *)
(* commits follow each other, each at most once from a node.               *)
(***************************************************************************)
Proposed == Those(pbftQueue, "PRE-PREPARE")
Preparers == Those(pbftQueue, "PREPARE")
Closers == Those(pbftQueue, "COMMIT")

InRounds ==
    /\ InPhases(pbftQueue) /\ OncePerPhase(pbftQueue)
    /\ Proposed \cap Preparers = {}
    /\ Closers # {} => Proposed = {}
    /\ \A n \in Closers : n \in Pbft!Nodes /\ pbftNode[n].state \in {"commit", "idle"}

LEMMA EmptyQueue ==
    ASSUME NEW q, q = <<>>
    PROVE  /\ InPhases(q) /\ OncePerPhase(q)
           /\ \A t : Those(q, t) = {}
           /\ \A t, d : VotersIn(q, t, d) = {}
BY DEF InPhases, OncePerPhase, Those, VotersIn

LEMMA VotersAreThose ==
    ASSUME NEW q \in Seq(BftMessages), NEW t, NEW d
    PROVE  VotersIn(q, t, d) \subseteq Those(q, t)
BY DEF VotersIn, Those

LEMMA NoneOf ==
    ASSUME NEW q \in Seq(BftMessages), NEW t, Those(q, t) = {}
    PROVE  \A i \in DOMAIN q : q[i].type # t
BY DEF Those

LEMMA SubmitsQueue ==
    ASSUME Pbft!PbftAssumption, BftTypeInv, NEW d \in Payloads, Pbft!SubmitRequest(d),
           ~Pbft!Deaf(Pbft!Primary), pbftQueue = <<>>
    PROVE  /\ InRounds'
           /\ Proposed' = Pbft!Nodes \ {Pbft!Primary} /\ Preparers' = {} /\ Closers' = {}
           /\ \A t, e : VotersIn(pbftQueue', t, e) =
                  IF t = "PRE-PREPARE" /\ e = d THEN Pbft!Nodes \ {Pbft!Primary} ELSE {}
<1> DEFINE r == Proposals(d)
<1>1. Pbft!TypeOK /\ pbftQueue \in Seq(BftMessages)
  BY BftTyped DEF BftTypeInv
<1>2. /\ pbftQueue' = pbftQueue \o r /\ r \in Seq(BftMessages) /\ OncePerPhase(r)
      /\ \A i \in DOMAIN r : r[i].type = "PRE-PREPARE" /\ r[i].digest = d
      /\ Those(r, "PRE-PREPARE") = Pbft!Nodes \ {Pbft!Primary}
  BY <1>1, BftSubmits
<1>3. /\ InPhases(pbftQueue) /\ OncePerPhase(pbftQueue)
      /\ \A t : Those(pbftQueue, t) = {}
      /\ \A t, e : VotersIn(pbftQueue, t, e) = {}
  BY EmptyQueue
<1>4. \A i \in DOMAIN pbftQueue : Phase(pbftQueue[i].type) <= Phase("PRE-PREPARE")
  OBVIOUS
<1> HIDE DEF r
<1>5. /\ InPhases(pbftQueue') /\ OncePerPhase(pbftQueue')
      /\ \A u : Those(pbftQueue', u) = Those(pbftQueue, u) \cup (IF u = "PRE-PREPARE" THEN Those(r, "PRE-PREPARE") ELSE {})
      /\ \A u, e : VotersIn(pbftQueue', u, e) =
             VotersIn(pbftQueue, u, e) \cup (IF u = "PRE-PREPARE" /\ e = d THEN Those(r, "PRE-PREPARE") ELSE {})
  <2>1. Those(pbftQueue, "PRE-PREPARE") \cap Those(r, "PRE-PREPARE") = {}
    BY <1>3
  <2> DEFINE q == pbftQueue
  <2>2. q \in Seq(BftMessages) /\ InPhases(q) /\ OncePerPhase(q)
    BY <1>1, <1>3
  <2>3. /\ InPhases(q \o r) /\ OncePerPhase(q \o r)
        /\ \A u : Those(q \o r, u) = Those(q, u) \cup (IF u = "PRE-PREPARE" THEN Those(r, "PRE-PREPARE") ELSE {})
        /\ \A u, e : VotersIn(q \o r, u, e) =
               VotersIn(q, u, e) \cup (IF u = "PRE-PREPARE" /\ e = d THEN Those(r, "PRE-PREPARE") ELSE {})
    <3>1. MayFollow(q, r, "PRE-PREPARE", d)
      BY <1>2, <1>4, <2>1, <2>2 DEF MayFollow
    <3>2. QED
      BY ONLY <3>1, QueueGrown
  <2>4. QED
    BY <1>2, <2>3
<1>6. Proposed' = Pbft!Nodes \ {Pbft!Primary} /\ Preparers' = {} /\ Closers' = {}
  <2>1. Proposed' = Those(pbftQueue', "PRE-PREPARE") /\ Preparers' = Those(pbftQueue', "PREPARE")
        /\ Closers' = Those(pbftQueue', "COMMIT")
    BY DEF Proposed, Preparers, Closers
  <2>2. QED
    BY <1>2, <1>3, <1>5, <2>1
<1>7. InRounds'
  BY <1>5, <1>6 DEF InRounds
<1>8. QED
  BY <1>2, <1>3, <1>5, <1>6, <1>7

LEMMA HeadTaken ==
    ASSUME BftTypeInv, InRounds, pbftQueue # <<>>
    PROVE  /\ InPhases(Tail(pbftQueue)) /\ OncePerPhase(Tail(pbftQueue))
           /\ \A t : Those(Tail(pbftQueue), t) =
                  IF t = Pbft!Next1.type THEN Those(pbftQueue, t) \ {Who(Pbft!Next1)}
                  ELSE Those(pbftQueue, t)
           /\ \A t, d : VotersIn(Tail(pbftQueue), t, d) =
                  IF t = Pbft!Next1.type /\ d = Pbft!Next1.digest
                  THEN VotersIn(pbftQueue, t, d) \ {Who(Pbft!Next1)} ELSE VotersIn(pbftQueue, t, d)
           /\ Who(Pbft!Next1) \in Those(pbftQueue, Pbft!Next1.type)
           /\ Who(Pbft!Next1) \in VotersIn(pbftQueue, Pbft!Next1.type, Pbft!Next1.digest)
           /\ \A t : Phase(t) < Phase(Pbft!Next1.type) => Those(pbftQueue, t) = {}
<1>1. pbftQueue \in Seq(BftMessages) /\ InPhases(pbftQueue) /\ OncePerPhase(pbftQueue)
  BY BftTyped DEF BftTypeInv, InRounds
<1>2. QED
  BY <1>1, QueueTaken DEF Pbft!Next1

LEMMA PreparesQueue ==
    ASSUME Pbft!PbftAssumption, BftTypeInv, InRounds, Pbft!HandlePrePrepare, NEW n, n = Pbft!Next1.to
    PROVE  /\ InRounds' /\ n \in Pbft!Nodes
           /\ n \in Proposed /\ Closers = {} /\ n \notin Preparers
           /\ n \in VotersIn(pbftQueue, "PRE-PREPARE", Pbft!Next1.digest)
           /\ Proposed' = Proposed \ {n} /\ Closers' = {}
           /\ \A e : VotersIn(pbftQueue', "PRE-PREPARE", e) =
                  IF e = Pbft!Next1.digest THEN VotersIn(pbftQueue, "PRE-PREPARE", e) \ {n}
                  ELSE VotersIn(pbftQueue, "PRE-PREPARE", e)
           /\ \A e : VotersIn(pbftQueue', "COMMIT", e) = {}
           /\ Pbft!Deaf(n) =>
                  /\ Preparers' = Preparers
                  /\ \A e : VotersIn(pbftQueue', "PREPARE", e) = VotersIn(pbftQueue, "PREPARE", e)
           /\ ~Pbft!Deaf(n) =>
                  /\ Preparers' = Preparers \cup {n}
                  /\ \A e : VotersIn(pbftQueue', "PREPARE", e) = VotersIn(pbftQueue, "PREPARE", e)
                         \cup (IF e = (IF pbftNode[n].byz = "equivocate" THEN Fake
                                       ELSE Pbft!Next1.digest) THEN {n} ELSE {})
<1> DEFINE m == Pbft!Next1  q == Tail(pbftQueue)
<1>1. Pbft!TypeOK /\ Proper(pbftQueue) /\ pbftQueue \in Seq(BftMessages)
  BY BftTyped DEF BftTypeInv
<1>2. /\ pbftQueue # <<>> /\ m.type = "PRE-PREPARE"
      /\ Pbft!Deaf(n) => pbftQueue' = q
      /\ ~Pbft!Deaf(n) => \E x \in BftMessages :
             /\ pbftQueue' = q \o <<x>>
             /\ x.type = "PREPARE" /\ x.from = n
             /\ x.digest = IF pbftNode[n].byz = "equivocate" THEN Fake ELSE m.digest
  BY <1>1, BftPrepares
<1>3. q \in Seq(BftMessages) /\ n \in Pbft!Nodes
  BY <1>1, <1>2, BftHead DEF Pbft!Next1
<1>4. Who(m) = n
  BY <1>2 DEF Who
<1>5. /\ InPhases(q) /\ OncePerPhase(q)
      /\ \A t : Those(q, t) = IF t = "PRE-PREPARE" THEN Those(pbftQueue, t) \ {n} ELSE Those(pbftQueue, t)
      /\ \A t, e : VotersIn(q, t, e) = IF t = "PRE-PREPARE" /\ e = m.digest
             THEN VotersIn(pbftQueue, t, e) \ {n} ELSE VotersIn(pbftQueue, t, e)
      /\ n \in Those(pbftQueue, "PRE-PREPARE") /\ n \in VotersIn(pbftQueue, "PRE-PREPARE", m.digest)
  BY <1>2, <1>4, HeadTaken
<1> HIDE DEF m, q
<1>6. n \in Proposed /\ Closers = {} /\ n \notin Preparers /\ Proposed \cap Preparers = {}
  BY <1>5 DEF Proposed, InRounds
<1>7. \A e : VotersIn(pbftQueue, "COMMIT", e) = {}
  BY <1>1, <1>6, VotersAreThose DEF Closers
<1>8. CASE Pbft!Deaf(n)
  <2>1. pbftQueue' = q
    BY <1>2, <1>8
  <2>2. /\ Proposed' = Those(q, "PRE-PREPARE") /\ Preparers' = Those(q, "PREPARE")
        /\ Closers' = Those(q, "COMMIT")
    BY <2>1 DEF Proposed, Preparers, Closers
  <2>3. Proposed' = Proposed \ {n} /\ Preparers' = Preparers /\ Closers' = {}
    BY <1>5, <1>6, <2>2 DEF Proposed, Preparers, Closers
  <2>4. InRounds'
    BY <1>5, <1>6, <2>1, <2>3 DEF InRounds
  <2>5. QED
    BY <1>3, <1>5, <1>6, <1>7, <1>8, <2>1, <2>3, <2>4 DEF m
<1>9. CASE ~Pbft!Deaf(n)
  <2> DEFINE d == IF pbftNode[n].byz = "equivocate" THEN Fake ELSE m.digest
  <2>1. PICK x \in BftMessages : /\ pbftQueue' = q \o <<x>>
                                 /\ x.type = "PREPARE" /\ x.from = n /\ x.digest = d
    BY <1>2, <1>9
  <2> DEFINE r == <<x>>
  <2> HIDE DEF d
  <2>2. /\ r \in Seq(BftMessages) /\ OncePerPhase(r) /\ Those(r, "PREPARE") = {n}
        /\ \A i \in DOMAIN r : r[i].type = "PREPARE" /\ r[i].digest = d
    <3>1. r \in Seq(BftMessages) /\ DOMAIN r = {1} /\ r[1] = x
      OBVIOUS
    <3> HIDE DEF r
    <3>2. Who(r[1]) = n /\ r[1].type = "PREPARE"
      BY <2>1, <3>1 DEF Who
    <3>3. OncePerPhase(r)
      BY <3>1 DEF OncePerPhase
    <3>4. Those(r, "PREPARE") = {n}
      BY <3>1, <3>2 DEF Those
    <3>5. QED
      BY <2>1, <3>1, <3>3, <3>4
  <2> HIDE DEF r
  <2>3. Those(q, "PREPARE") \cap Those(r, "PREPARE") = {}
    BY <1>5, <1>6, <2>2 DEF Preparers
  <2>4. \A i \in DOMAIN q : Phase(q[i].type) <= Phase("PREPARE")
    <3>1. Those(q, "COMMIT") = {}
      BY <1>5, <1>6 DEF Closers
    <3>2. \A i \in DOMAIN q : q[i].type # "COMMIT"
      BY <1>3, <3>1, NoneOf
    <3>3. \A i \in DOMAIN q : q[i] \in BftMessages
      BY <1>3
    <3>4. QED
      BY <3>2, <3>3 DEF BftMessages, Phase
  <2>5. /\ InPhases(q \o r) /\ OncePerPhase(q \o r)
        /\ \A u : Those(q \o r, u) = Those(q, u) \cup (IF u = "PREPARE" THEN Those(r, "PREPARE") ELSE {})
        /\ \A u, e : VotersIn(q \o r, u, e) =
               VotersIn(q, u, e) \cup (IF u = "PREPARE" /\ e = d THEN Those(r, "PREPARE") ELSE {})
    <3>1. MayFollow(q, r, "PREPARE", d)
      BY <1>3, <1>5, <2>2, <2>3, <2>4 DEF MayFollow
    <3>2. QED
      BY ONLY <3>1, QueueGrown
  <2>6. pbftQueue' = q \o r
    BY <2>1 DEF r
  <2>7. /\ Proposed' = Those(q \o r, "PRE-PREPARE") /\ Preparers' = Those(q \o r, "PREPARE")
        /\ Closers' = Those(q \o r, "COMMIT")
    BY <2>6 DEF Proposed, Preparers, Closers
  <2>8. Proposed' = Proposed \ {n} /\ Preparers' = Preparers \cup {n} /\ Closers' = {}
    BY <1>5, <1>6, <2>2, <2>5, <2>7 DEF Proposed, Preparers, Closers
  <2>9. InRounds'
    BY <1>6, <2>5, <2>6, <2>8 DEF InRounds
  <2>12. \A u, e : VotersIn(pbftQueue', u, e) =
             VotersIn(q, u, e) \cup (IF u = "PREPARE" /\ e = d THEN {n} ELSE {})
    BY <2>2, <2>5, <2>6
  <2>10. /\ \A e : VotersIn(pbftQueue', "PRE-PREPARE", e) =
                IF e = m.digest THEN VotersIn(pbftQueue, "PRE-PREPARE", e) \ {n}
                ELSE VotersIn(pbftQueue, "PRE-PREPARE", e)
         /\ \A e : VotersIn(pbftQueue', "COMMIT", e) = {}
         /\ \A e : VotersIn(pbftQueue', "PREPARE", e) = VotersIn(pbftQueue, "PREPARE", e)
                       \cup (IF e = d THEN {n} ELSE {})
    <3>8. ASSUME NEW e
          PROVE  /\ VotersIn(pbftQueue', "PRE-PREPARE", e) = VotersIn(q, "PRE-PREPARE", e)
                 /\ VotersIn(pbftQueue', "COMMIT", e) = VotersIn(q, "COMMIT", e)
      <4>1. VotersIn(pbftQueue', "PRE-PREPARE", e) = VotersIn(q, "PRE-PREPARE", e) \cup
                (IF "PRE-PREPARE" = "PREPARE" /\ e = d THEN {n} ELSE {})
        BY ONLY <2>12
      <4>2. VotersIn(pbftQueue', "COMMIT", e) = VotersIn(q, "COMMIT", e) \cup
                (IF "COMMIT" = "PREPARE" /\ e = d THEN {n} ELSE {})
        BY ONLY <2>12
      <4>3. QED
        BY ONLY <4>1, <4>2
    <3>1. \A e : VotersIn(pbftQueue', "PRE-PREPARE", e) = VotersIn(q, "PRE-PREPARE", e)
      BY <3>8
    <3>2. \A e : VotersIn(pbftQueue', "COMMIT", e) = VotersIn(q, "COMMIT", e)
      BY <3>8
    <3>3. \A e : VotersIn(q, "COMMIT", e) = {}
      BY <1>5, <1>7
    <3>4. \A e : VotersIn(q, "PREPARE", e) = VotersIn(pbftQueue, "PREPARE", e)
      BY <1>5
    <3>5. \A e : VotersIn(q, "PRE-PREPARE", e) =
              IF e = m.digest THEN VotersIn(pbftQueue, "PRE-PREPARE", e) \ {n}
              ELSE VotersIn(pbftQueue, "PRE-PREPARE", e)
      BY <1>5
    <3>6. \A e : VotersIn(pbftQueue', "PREPARE", e) = VotersIn(pbftQueue, "PREPARE", e)
                     \cup (IF e = d THEN {n} ELSE {})
      BY <2>12, <3>4
    <3>7. QED
      BY <3>1, <3>2, <3>3, <3>5, <3>6
  <2>11. QED
    BY <1>3, <1>5, <1>6, <1>9, <2>8, <2>9, <2>10 DEF m, d
<1>10. QED
  BY <1>8, <1>9

LEMMA CountsQueue ==
    ASSUME Pbft!PbftAssumption, BftTypeInv, InRounds, Pbft!HandlePrepare
    PROVE  /\ InRounds' /\ Proposed = {} /\ Proposed' = {}
           /\ Pbft!Next1.from \in Preparers
           /\ Pbft!Next1.from \in VotersIn(pbftQueue, "PREPARE", Pbft!Next1.digest)
           /\ Committing \cap Closers = {}
           /\ Preparers' = Preparers \ {Pbft!Next1.from}
           /\ Closers' = Closers \cup Committing
           /\ \A e : VotersIn(pbftQueue', "PRE-PREPARE", e) = {}
           /\ \A e : VotersIn(pbftQueue', "PREPARE", e) =
                  IF e = Pbft!Next1.digest THEN VotersIn(pbftQueue, "PREPARE", e) \ {Pbft!Next1.from}
                  ELSE VotersIn(pbftQueue, "PREPARE", e)
           /\ \A e : VotersIn(pbftQueue', "COMMIT", e) =
                  IF e = Pbft!Next1.digest THEN VotersIn(pbftQueue, "COMMIT", e) \cup Committing
                  ELSE VotersIn(pbftQueue, "COMMIT", e)
<1> DEFINE m == Pbft!Next1  q == Tail(pbftQueue)
<1>1. Pbft!TypeOK /\ Proper(pbftQueue) /\ pbftQueue \in Seq(BftMessages)
  BY BftTyped DEF BftTypeInv
<1>2. /\ pbftQueue # <<>> /\ m.type = "PREPARE"
      /\ Committing \subseteq Pbft!Reached(m) /\ Pbft!Reached(m) \subseteq Pbft!Nodes
      /\ \A n \in Pbft!Nodes : n \notin Pbft!Reached(m) => pbftNode'[n] = pbftNode[n]
      /\ \A n \in Pbft!Reached(m) :
             /\ n \in Committing => pbftNode'[n].state = "commit"
             /\ n \notin Committing =>
                    pbftNode'[n].state = IF pbftNode[n].state = "pre-prepare" THEN "prepare"
                                         ELSE pbftNode[n].state
      /\ \E r \in Seq(BftMessages) :
             /\ pbftQueue' = q \o r /\ OncePerPhase(r)
             /\ \A i \in DOMAIN r : r[i].type = "COMMIT" /\ r[i].digest = m.digest
             /\ Those(r, "COMMIT") = Committing
  BY <1>1, BftCounts
<1>3. q \in Seq(BftMessages)
  BY <1>1, <1>2, BftHead DEF Pbft!Next1
<1>4. Who(m) = m.from
  BY <1>2 DEF Who
<1>5. /\ InPhases(q) /\ OncePerPhase(q)
      /\ \A t : Those(q, t) = IF t = "PREPARE" THEN Those(pbftQueue, t) \ {m.from} ELSE Those(pbftQueue, t)
      /\ \A t, e : VotersIn(q, t, e) = IF t = "PREPARE" /\ e = m.digest
             THEN VotersIn(pbftQueue, t, e) \ {m.from} ELSE VotersIn(pbftQueue, t, e)
      /\ m.from \in Those(pbftQueue, "PREPARE") /\ m.from \in VotersIn(pbftQueue, "PREPARE", m.digest)
      /\ Those(pbftQueue, "PRE-PREPARE") = {}
  BY <1>2, <1>4, HeadTaken DEF Phase
<1>6. Committing \cap Closers = {}
  BY DEF Committing, Awaiting, InRounds
<1> HIDE DEF m, q
<1>7. PICK r \in Seq(BftMessages) :
          /\ pbftQueue' = q \o r /\ OncePerPhase(r)
          /\ \A i \in DOMAIN r : r[i].type = "COMMIT" /\ r[i].digest = m.digest
          /\ Those(r, "COMMIT") = Committing
  BY <1>2
<1>8. MayFollow(q, r, "COMMIT", m.digest)
  <2>1. Those(q, "COMMIT") \cap Those(r, "COMMIT") = {}
    BY <1>5, <1>6, <1>7 DEF Closers
  <2>2. \A i \in DOMAIN q : Phase(q[i].type) <= Phase("COMMIT")
    BY DEF Phase
  <2>3. QED
    BY <1>3, <1>5, <1>7, <2>1, <2>2 DEF MayFollow
<1>9. /\ InPhases(q \o r) /\ OncePerPhase(q \o r)
      /\ \A u : Those(q \o r, u) = Those(q, u) \cup (IF u = "COMMIT" THEN Those(r, "COMMIT") ELSE {})
      /\ \A u, e : VotersIn(q \o r, u, e) =
             VotersIn(q, u, e) \cup (IF u = "COMMIT" /\ e = m.digest THEN Those(r, "COMMIT") ELSE {})
  BY ONLY <1>8, QueueGrown
<1>10. /\ Proposed' = Those(q \o r, "PRE-PREPARE") /\ Preparers' = Those(q \o r, "PREPARE")
       /\ Closers' = Those(q \o r, "COMMIT")
  BY <1>7 DEF Proposed, Preparers, Closers
<1>11. /\ Proposed = {} /\ Proposed' = {} /\ Preparers' = Preparers \ {m.from}
       /\ Closers' = Closers \cup Committing /\ m.from \in Preparers
  BY <1>5, <1>7, <1>9, <1>10 DEF Proposed, Preparers, Closers
<1>12. /\ \A e : VotersIn(pbftQueue', "PRE-PREPARE", e) = {}
       /\ \A e : VotersIn(pbftQueue', "PREPARE", e) =
              IF e = m.digest THEN VotersIn(pbftQueue, "PREPARE", e) \ {m.from}
              ELSE VotersIn(pbftQueue, "PREPARE", e)
       /\ \A e : VotersIn(pbftQueue', "COMMIT", e) =
              IF e = m.digest THEN VotersIn(pbftQueue, "COMMIT", e) \cup Committing
              ELSE VotersIn(pbftQueue, "COMMIT", e)
  <2>1. \A u, e : VotersIn(pbftQueue', u, e) =
            VotersIn(q, u, e) \cup (IF u = "COMMIT" /\ e = m.digest THEN Committing ELSE {})
    BY <1>7, <1>9
  <2>2. \A e : VotersIn(pbftQueue, "PRE-PREPARE", e) = {}
    BY <1>1, <1>5, VotersAreThose
  <2>8. \A u, e : u # "COMMIT" => VotersIn(pbftQueue', u, e) = VotersIn(q, u, e)
    BY <2>1
  <2>3. \A e : /\ VotersIn(pbftQueue', "PRE-PREPARE", e) = VotersIn(q, "PRE-PREPARE", e)
               /\ VotersIn(pbftQueue', "PREPARE", e) = VotersIn(q, "PREPARE", e)
    BY <2>8
  <2>4. \A e : VotersIn(pbftQueue', "COMMIT", e) =
            IF e = m.digest THEN VotersIn(q, "COMMIT", e) \cup Committing ELSE VotersIn(q, "COMMIT", e)
    BY <2>1
  <2>5. \A e : VotersIn(q, "PRE-PREPARE", e) = {} /\ VotersIn(q, "COMMIT", e) = VotersIn(pbftQueue, "COMMIT", e)
    BY <1>5, <2>2
  <2>6. \A e : VotersIn(q, "PREPARE", e) =
            IF e = m.digest THEN VotersIn(pbftQueue, "PREPARE", e) \ {m.from}
            ELSE VotersIn(pbftQueue, "PREPARE", e)
    BY <1>5
  <2>7. QED
    BY <2>3, <2>4, <2>5, <2>6
<1>13. ASSUME NEW n \in Closers' PROVE n \in Pbft!Nodes /\ pbftNode'[n].state \in {"commit", "idle"}
  <2>1. CASE n \in Committing
    BY <1>2, <2>1 DEF m
  <2>2. CASE n \notin Committing
    <3>1. n \in Closers
      BY <1>11, <2>2
    <3>2. n \in Pbft!Nodes /\ pbftNode[n].state \in {"commit", "idle"}
      BY <3>1 DEF InRounds
    <3>3. QED
      BY <1>2, <2>2, <3>2 DEF m
  <2>3. QED
    BY <2>1, <2>2
<1>14. InRounds'
  BY <1>7, <1>9, <1>11, <1>13 DEF InRounds, Pbft!Nodes
<1>15. QED
  BY <1>5, <1>6, <1>11, <1>12, <1>14 DEF m

LEMMA ClosesQueue ==
    ASSUME Pbft!PbftAssumption, BftTypeInv, InRounds, Pbft!HandleCommit
    PROVE  /\ InRounds' /\ Proposed = {} /\ Proposed' = {} /\ Preparers = {} /\ Preparers' = {}
           /\ Pbft!Next1.from \in Closers
           /\ Pbft!Next1.from \in VotersIn(pbftQueue, "COMMIT", Pbft!Next1.digest)
           /\ Closers' = Closers \ {Pbft!Next1.from}
           /\ \A e : VotersIn(pbftQueue', "PRE-PREPARE", e) = {}
           /\ \A e : VotersIn(pbftQueue', "PREPARE", e) = {}
           /\ \A e : VotersIn(pbftQueue', "COMMIT", e) =
                  IF e = Pbft!Next1.digest THEN VotersIn(pbftQueue, "COMMIT", e) \ {Pbft!Next1.from}
                  ELSE VotersIn(pbftQueue, "COMMIT", e)
<1> DEFINE m == Pbft!Next1  q == Tail(pbftQueue)
<1>1. Pbft!TypeOK /\ Proper(pbftQueue) /\ pbftQueue \in Seq(BftMessages)
  BY BftTyped DEF BftTypeInv
<1>2. /\ pbftQueue # <<>> /\ m.type = "COMMIT" /\ pbftQueue' = q
      /\ Replying \subseteq Pbft!Reached(m) /\ Pbft!Reached(m) \subseteq Pbft!Nodes
      /\ \A n \in Pbft!Nodes : n \notin Pbft!Reached(m) => pbftNode'[n] = pbftNode[n]
      /\ \A n \in Pbft!Reached(m) :
             /\ n \in Replying => pbftNode'[n].state = "idle"
             /\ n \notin Replying => pbftNode'[n].state = pbftNode[n].state
  BY <1>1, BftCloses
<1>3. q \in Seq(BftMessages)
  BY <1>1, <1>2, BftHead DEF Pbft!Next1
<1>4. Who(m) = m.from
  BY <1>2 DEF Who
<1>5. /\ InPhases(q) /\ OncePerPhase(q)
      /\ \A t : Those(q, t) = IF t = "COMMIT" THEN Those(pbftQueue, t) \ {m.from} ELSE Those(pbftQueue, t)
      /\ \A t, e : VotersIn(q, t, e) = IF t = "COMMIT" /\ e = m.digest
             THEN VotersIn(pbftQueue, t, e) \ {m.from} ELSE VotersIn(pbftQueue, t, e)
      /\ m.from \in Those(pbftQueue, "COMMIT") /\ m.from \in VotersIn(pbftQueue, "COMMIT", m.digest)
      /\ Those(pbftQueue, "PRE-PREPARE") = {} /\ Those(pbftQueue, "PREPARE") = {}
  BY <1>2, <1>4, HeadTaken DEF Phase
<1> HIDE DEF m, q
<1>6. /\ Proposed' = Those(q, "PRE-PREPARE") /\ Preparers' = Those(q, "PREPARE")
      /\ Closers' = Those(q, "COMMIT")
  BY <1>2 DEF Proposed, Preparers, Closers
<1>7. /\ Proposed = {} /\ Proposed' = {} /\ Preparers = {} /\ Preparers' = {}
      /\ Closers' = Closers \ {m.from} /\ m.from \in Closers
  BY <1>5, <1>6 DEF Proposed, Preparers, Closers
<1>8. \A e : VotersIn(pbftQueue, "PRE-PREPARE", e) = {} /\ VotersIn(pbftQueue, "PREPARE", e) = {}
  BY <1>1, <1>5, VotersAreThose
<1>9. /\ \A e : VotersIn(pbftQueue', "PRE-PREPARE", e) = {}
      /\ \A e : VotersIn(pbftQueue', "PREPARE", e) = {}
      /\ \A e : VotersIn(pbftQueue', "COMMIT", e) =
             IF e = m.digest THEN VotersIn(pbftQueue, "COMMIT", e) \ {m.from}
             ELSE VotersIn(pbftQueue, "COMMIT", e)
  BY <1>2, <1>5, <1>8
<1>10. ASSUME NEW n \in Closers' PROVE n \in Pbft!Nodes /\ pbftNode'[n].state \in {"commit", "idle"}
  <2>1. n \in Pbft!Nodes /\ pbftNode[n].state \in {"commit", "idle"}
    BY <1>7 DEF InRounds
  <2>2. QED
    BY <1>2, <2>1 DEF m
<1>11. InRounds'
  BY <1>2, <1>5, <1>7, <1>10 DEF InRounds, Pbft!Nodes
<1>12. QED
  BY <1>5, <1>7, <1>9, <1>11 DEF m

-----------------------------------------------------------------------------
(***************************************************************************)
(* PbftSim: the same steps, vote by vote.                                  *)
(***************************************************************************)
BftPhases == {"PRE-PREPARE", "PREPARE", "COMMIT"}

Arriving == Pbft!Reached(Pbft!Next1)

LEMMA SomeNodes ==
    ASSUME Pbft!PbftAssumption, NEW S, S \subseteq Pbft!Nodes
    PROVE  /\ IsFiniteSet(S) /\ Cardinality(S) \in Nat
           /\ \A R \in SUBSET S : Cardinality(R) \in Nat /\ Cardinality(R) <= Cardinality(S)
           /\ \A x : x \notin S => Cardinality(S \cup {x}) = Cardinality(S) + 1
           /\ \A x \in S : Cardinality(S \ {x}) = Cardinality(S) - 1
<1>1. BftNodes \in Nat
  BY DEF Pbft!PbftAssumption
<1>2. IsFiniteSet(S) /\ Cardinality(S) \in Nat
  BY <1>1, NodesInOrder
<1>3. ASSUME NEW R \in SUBSET S
      PROVE  Cardinality(R) \in Nat /\ Cardinality(R) <= Cardinality(S)
  <2>1. IsFiniteSet(R) /\ Cardinality(R) <= Cardinality(S)
    BY <1>2, FS_Subset
  <2>2. QED
    BY <2>1, FS_CardinalityType
<1>4. \A x : x \notin S => Cardinality(S \cup {x}) = Cardinality(S) + 1
  BY <1>2, FS_AddElement
<1>5. \A x \in S : Cardinality(S \ {x}) = Cardinality(S) - 1
  BY <1>2, FS_RemoveElement
<1>6. QED
  BY <1>2, <1>3, <1>4, <1>5

LEMMA SubmitsAt ==
    ASSUME Pbft!PbftAssumption, BftTypeInv, NEW d \in Payloads, Pbft!SubmitRequest(d),
           ~Pbft!Deaf(Pbft!Primary), NEW n \in Pbft!Nodes, NEW e \in Pbft!Digests
    PROVE  /\ pbftNode[n].prepares[e] \in Nat /\ pbftNode[n].commits[e] \in Nat
           /\ pbftNode'[n].state = IF n = Pbft!Primary THEN "pre-prepare" ELSE pbftNode[n].state
           /\ pbftNode'[n].byz = pbftNode[n].byz
           /\ pbftNode'[n].prepares[e] =
                  IF n = Pbft!Primary /\ e = d THEN 1 ELSE pbftNode[n].prepares[e]
           /\ pbftNode'[n].commits[e] = IF n = Pbft!Primary THEN 0 ELSE pbftNode[n].commits[e]
<1>1. Pbft!TypeOK /\ pbftNode \in [Pbft!Nodes -> BftReplicas]
  BY BftTyped DEF BftTypeInv
<1>2. /\ pbftNode[n].prepares \in [Pbft!Digests -> Nat]
      /\ pbftNode[n].commits \in [Pbft!Digests -> Nat]
  BY <1>1 DEF BftReplicas
<1>3. /\ \A k \in Pbft!Nodes : k # Pbft!Primary => pbftNode'[k] = pbftNode[k]
      /\ pbftNode'[Pbft!Primary].state = "pre-prepare"
      /\ pbftNode'[Pbft!Primary].byz = pbftNode[Pbft!Primary].byz
      /\ pbftNode'[Pbft!Primary].prepares = [pbftNode[Pbft!Primary].prepares EXCEPT ![d] = 1]
      /\ pbftNode'[Pbft!Primary].commits = [x \in Pbft!Digests |-> 0]
  BY <1>1, BftSubmits
<1>4. QED
  BY <1>2, <1>3

LEMMA PreparesAt ==
    ASSUME Pbft!PbftAssumption, BftTypeInv, Pbft!HandlePrePrepare,
           NEW n \in Pbft!Nodes, NEW e \in Pbft!Digests
    PROVE  /\ pbftNode[n].prepares[e] \in Nat /\ pbftNode[n].commits[e] \in Nat
           /\ pbftNode'[n].state = IF n = Pbft!Next1.to /\ ~Pbft!Deaf(n) THEN "prepare"
                                   ELSE pbftNode[n].state
           /\ pbftNode'[n].byz = pbftNode[n].byz /\ pbftNode'[n].done = pbftNode[n].done
           /\ pbftNode'[n].prepares[e] =
                  IF n = Pbft!Next1.to /\ ~Pbft!Deaf(n) /\ e = Pbft!Next1.digest
                  THEN pbftNode[n].prepares[e] + 1 ELSE pbftNode[n].prepares[e]
           /\ pbftNode'[n].commits[e] = pbftNode[n].commits[e]
<1>1. Pbft!TypeOK /\ Proper(pbftQueue) /\ pbftNode \in [Pbft!Nodes -> BftReplicas]
  BY BftTyped DEF BftTypeInv
<1>2. /\ pbftNode[n].prepares \in [Pbft!Digests -> Nat]
      /\ pbftNode[n].commits \in [Pbft!Digests -> Nat]
  BY <1>1 DEF BftReplicas
<1> DEFINE k == Pbft!Next1.to
<1>3. /\ n # k \/ Pbft!Deaf(k) => pbftNode'[n] = pbftNode[n]
      /\ ~Pbft!Deaf(k) =>
             /\ pbftNode'[k].state = "prepare"
             /\ pbftNode'[k].byz = pbftNode[k].byz /\ pbftNode'[k].done = pbftNode[k].done
             /\ pbftNode'[k].commits = pbftNode[k].commits
             /\ pbftNode'[k].prepares = [pbftNode[k].prepares EXCEPT ![Pbft!Next1.digest] = @ + 1]
  BY <1>1, BftPrepares
<1> HIDE DEF k
<1>4. CASE n # k \/ Pbft!Deaf(k)
  BY <1>2, <1>3, <1>4 DEF k
<1>5. CASE n = k /\ ~Pbft!Deaf(k)
  BY <1>2, <1>3, <1>5 DEF k
<1>6. QED
  BY <1>4, <1>5

LEMMA CountsAt ==
    ASSUME Pbft!PbftAssumption, BftTypeInv, Pbft!HandlePrepare,
           NEW n \in Pbft!Nodes, NEW e \in Pbft!Digests
    PROVE  /\ pbftNode[n].prepares[e] \in Nat /\ pbftNode[n].commits[e] \in Nat
           /\ n \in Arriving <=> n # Pbft!Next1.from /\ ~Pbft!Deaf(n)
           /\ n \in Committing <=>
                  /\ n \in Arriving /\ pbftNode[n].state \in Awaiting
                  /\ pbftNode[n].prepares[Pbft!Next1.digest] + 1 >= Pbft!Threshold
           /\ pbftNode'[n].state = IF n \in Committing THEN "commit"
                                   ELSE IF n \in Arriving /\ pbftNode[n].state = "pre-prepare"
                                        THEN "prepare" ELSE pbftNode[n].state
           /\ pbftNode'[n].byz = pbftNode[n].byz /\ pbftNode'[n].done = pbftNode[n].done
           /\ pbftNode'[n].prepares[e] =
                  IF n \in Arriving /\ e = Pbft!Next1.digest
                  THEN pbftNode[n].prepares[e] + 1 ELSE pbftNode[n].prepares[e]
           /\ pbftNode'[n].commits[e] =
                  IF n \in Committing /\ e = Pbft!Next1.digest
                  THEN pbftNode[n].commits[e] + 1 ELSE pbftNode[n].commits[e]
<1>1. Pbft!TypeOK /\ Proper(pbftQueue) /\ pbftNode \in [Pbft!Nodes -> BftReplicas]
  BY BftTyped DEF BftTypeInv
<1>2. /\ pbftNode[n].prepares \in [Pbft!Digests -> Nat]
      /\ pbftNode[n].commits \in [Pbft!Digests -> Nat]
  BY <1>1 DEF BftReplicas
<1>3. /\ pbftQueue # <<>> /\ Pbft!Next1.type = "PREPARE"
      /\ n \notin Arriving => pbftNode'[n] = pbftNode[n]
      /\ n \in Arriving =>
             /\ pbftNode'[n].byz = pbftNode[n].byz /\ pbftNode'[n].done = pbftNode[n].done
             /\ pbftNode'[n].prepares =
                    [pbftNode[n].prepares EXCEPT ![Pbft!Next1.digest] = @ + 1]
             /\ n \in Committing =>
                    /\ pbftNode'[n].state = "commit"
                    /\ pbftNode'[n].commits =
                           [pbftNode[n].commits EXCEPT ![Pbft!Next1.digest] = @ + 1]
             /\ n \notin Committing =>
                    /\ pbftNode'[n].state = IF pbftNode[n].state = "pre-prepare" THEN "prepare"
                                            ELSE pbftNode[n].state
                    /\ pbftNode'[n].commits = pbftNode[n].commits
  BY <1>1, BftCounts DEF Arriving
<1>4. n \in Arriving <=> n # Pbft!Next1.from /\ ~Pbft!Deaf(n)
  <2>1. Arriving = {k \in Pbft!Nodes : k # Pbft!Next1.from /\ ~Pbft!Deaf(k)}
    BY <1>1, <1>3, BftHead DEF Arriving, Pbft!Next1
  <2>2. QED
    BY <2>1
<1>5. n \in Committing <=>
          /\ n \in Arriving /\ pbftNode[n].state \in Awaiting
          /\ pbftNode[n].prepares[Pbft!Next1.digest] + 1 >= Pbft!Threshold
  BY DEF Committing, Arriving
<1>6. CASE n \notin Arriving
  BY <1>2, <1>3, <1>4, <1>5, <1>6
<1>7. CASE n \in Committing
  BY <1>2, <1>3, <1>4, <1>5, <1>7
<1>8. CASE n \in Arriving /\ n \notin Committing
  BY <1>2, <1>3, <1>4, <1>5, <1>8
<1>9. QED
  BY <1>6, <1>7, <1>8

LEMMA ClosesAt ==
    ASSUME Pbft!PbftAssumption, BftTypeInv, Pbft!HandleCommit,
           NEW n \in Pbft!Nodes, NEW e \in Pbft!Digests
    PROVE  /\ pbftNode[n].prepares[e] \in Nat /\ pbftNode[n].commits[e] \in Nat
           /\ n \in Arriving <=> n # Pbft!Next1.from /\ ~Pbft!Deaf(n)
           /\ n \in Replying <=>
                  /\ n \in Arriving /\ pbftNode[n].state = "commit"
                  /\ pbftNode[n].commits[Pbft!Next1.digest] + 1 >= Pbft!Threshold
           /\ pbftNode'[n].state = IF n \in Replying THEN "idle" ELSE pbftNode[n].state
           /\ pbftNode'[n].byz = pbftNode[n].byz
           /\ pbftNode'[n].done = IF n \in Replying THEN Pbft!Next1.seq ELSE pbftNode[n].done
           /\ pbftNode'[n].prepares[e] = IF n \in Replying THEN 0 ELSE pbftNode[n].prepares[e]
           /\ pbftNode'[n].commits[e] =
                  IF n \in Replying THEN 0
                  ELSE IF n \in Arriving /\ e = Pbft!Next1.digest
                       THEN pbftNode[n].commits[e] + 1 ELSE pbftNode[n].commits[e]
<1>1. Pbft!TypeOK /\ Proper(pbftQueue) /\ pbftNode \in [Pbft!Nodes -> BftReplicas]
  BY BftTyped DEF BftTypeInv
<1>2. /\ pbftNode[n].prepares \in [Pbft!Digests -> Nat]
      /\ pbftNode[n].commits \in [Pbft!Digests -> Nat]
  BY <1>1 DEF BftReplicas
<1>3. /\ pbftQueue # <<>> /\ Pbft!Next1.type = "COMMIT"
      /\ n \notin Arriving => pbftNode'[n] = pbftNode[n]
      /\ n \in Arriving =>
             /\ pbftNode'[n].byz = pbftNode[n].byz
             /\ n \in Replying =>
                    /\ pbftNode'[n].state = "idle" /\ pbftNode'[n].done = Pbft!Next1.seq
                    /\ pbftNode'[n].prepares = [x \in Pbft!Digests |-> 0]
                    /\ pbftNode'[n].commits = [x \in Pbft!Digests |-> 0]
             /\ n \notin Replying =>
                    /\ pbftNode'[n].state = pbftNode[n].state
                    /\ pbftNode'[n].done = pbftNode[n].done
                    /\ pbftNode'[n].prepares = pbftNode[n].prepares
                    /\ pbftNode'[n].commits =
                           [pbftNode[n].commits EXCEPT ![Pbft!Next1.digest] = @ + 1]
  BY <1>1, BftCloses DEF Arriving
<1>4. n \in Arriving <=> n # Pbft!Next1.from /\ ~Pbft!Deaf(n)
  <2>1. Arriving = {k \in Pbft!Nodes : k # Pbft!Next1.from /\ ~Pbft!Deaf(k)}
    BY <1>1, <1>3, BftHead DEF Arriving, Pbft!Next1
  <2>2. QED
    BY <2>1
<1>5. n \in Replying <=>
          /\ n \in Arriving /\ pbftNode[n].state = "commit"
          /\ pbftNode[n].commits[Pbft!Next1.digest] + 1 >= Pbft!Threshold
  BY DEF Replying, Arriving
<1>6. CASE n \notin Arriving
  BY <1>2, <1>3, <1>4, <1>5, <1>6
<1>7. CASE n \in Replying
  BY <1>2, <1>3, <1>4, <1>5, <1>7
<1>8. CASE n \in Arriving /\ n \notin Replying
  BY <1>2, <1>3, <1>4, <1>5, <1>8
<1>9. QED
  BY <1>6, <1>7, <1>8

LEMMA InjectsAt ==
    ASSUME Pbft!PbftAssumption, BftTypeInv, NEW x \in Pbft!Nodes,
           NEW b \in {"ignore", "equivocate"}, Pbft!InjectFault(x, b), NEW n \in Pbft!Nodes
    PROVE  /\ pbftNode'[n].state = pbftNode[n].state /\ pbftNode'[n].done = pbftNode[n].done
           /\ pbftNode'[n].byz = IF n = x THEN b ELSE pbftNode[n].byz
           /\ pbftNode'[n].prepares = pbftNode[n].prepares
           /\ pbftNode'[n].commits = pbftNode[n].commits
<1>1. Pbft!TypeOK
  BY DEF BftTypeInv
<1>2. /\ \A k \in Pbft!Nodes : k # x => pbftNode'[k] = pbftNode[k]
      /\ pbftNode'[x].byz = b /\ pbftNode'[x].state = pbftNode[x].state
      /\ pbftNode'[x].done = pbftNode[x].done
      /\ pbftNode'[x].prepares = pbftNode[x].prepares
      /\ pbftNode'[x].commits = pbftNode[x].commits
  BY <1>1, BftInjects
<1>3. QED
  BY <1>2

-----------------------------------------------------------------------------
(***************************************************************************)
(* PbftSim: who has voted for what a client asked for.                     *)
(***************************************************************************)
Busy(d) == \E t \in BftPhases : VotersIn(pbftQueue, t, d) # {}

(* Those whose COMMIT node n has counted, if it has not started again.     *)
CountedBy(n, d) == {c \in committers[d] : c = n \/ c \notin VotersIn(pbftQueue, "COMMIT", d)}

AskedOnly(d) == d \notin asked => committers[d] = {} /\ ~Busy(d)

(* A node commits once, and counts each of the others once.                *)
CommitsOnce(d) ==
    /\ VotersIn(pbftQueue, "PRE-PREPARE", d) # {} => committers[d] = {}
    /\ VotersIn(pbftQueue, "PREPARE", d) # {} =>
           \A n \in Pbft!Nodes : pbftNode[n].state \in Awaiting => n \notin committers[d]
    /\ VotersIn(pbftQueue, "COMMIT", d) \subseteq committers[d]
    /\ \A n \in Pbft!Nodes : pbftNode[n].commits[d] <= Cardinality(CountedBy(n, d))

Backed(d) == d \in committed => Cardinality(committers[d]) >= Pbft!Threshold

(* One request at a time is under way.                                     *)
VotesInv ==
    /\ \A d, e \in Payloads : Busy(d) /\ Busy(e) => d = e
    /\ \A d \in Payloads : AskedOnly(d) /\ CommitsOnce(d) /\ Backed(d)

(* A step that is about something else.                                    *)
Elsewhere(d) ==
    /\ \A t \in {"PRE-PREPARE", "PREPARE"} :
           VotersIn(pbftQueue', t, d) \subseteq VotersIn(pbftQueue, t, d)
    /\ VotersIn(pbftQueue', "COMMIT", d) = VotersIn(pbftQueue, "COMMIT", d)
    /\ committers'[d] = committers[d]
    /\ \A n \in Pbft!Nodes :
           /\ pbftNode'[n].state \in Awaiting => pbftNode[n].state \in Awaiting
           /\ pbftNode'[n].commits[d] \in {pbftNode[n].commits[d], 0}

LEMMA BehindMany ==
    ASSUME Pbft!PbftAssumption, BftTypeInv, NEW d \in Pbft!Digests, NEW n
    PROVE  /\ committers[d] \subseteq Pbft!Nodes
           /\ IsFiniteSet(CountedBy(n, d)) /\ Cardinality(CountedBy(n, d)) \in Nat
           /\ Cardinality(committers[d]) \in Nat
           /\ Cardinality(CountedBy(n, d)) <= Cardinality(committers[d])
<1>1. committers \in [Pbft!Digests -> SUBSET Pbft!Nodes]
  BY BftTyped DEF BftTypeInv
<1>2. committers[d] \subseteq Pbft!Nodes /\ CountedBy(n, d) \in SUBSET committers[d]
  BY <1>1 DEF CountedBy
<1>3. QED
  BY <1>2, SomeNodes

LEMMA CommitsElsewhere ==
    ASSUME Pbft!PbftAssumption, BftTypeInv, NEW d \in Payloads, CommitsOnce(d), Elsewhere(d)
    PROVE  CommitsOnce(d)'
<1>1. \A n : CountedBy(n, d)' = CountedBy(n, d)
  BY DEF CountedBy, Elsewhere
<1>2. \A n \in Pbft!Nodes : Cardinality(CountedBy(n, d)) \in Nat
  BY BehindMany DEF Pbft!Digests
<1>3. ASSUME NEW n \in Pbft!Nodes PROVE pbftNode'[n].commits[d] <= Cardinality(CountedBy(n, d))
  BY <1>2 DEF Elsewhere, CommitsOnce
<1>4. /\ VotersIn(pbftQueue', "PRE-PREPARE", d) # {} => VotersIn(pbftQueue, "PRE-PREPARE", d) # {}
      /\ VotersIn(pbftQueue', "PREPARE", d) # {} => VotersIn(pbftQueue, "PREPARE", d) # {}
  BY DEF Elsewhere
<1>5. QED
  BY <1>1, <1>3, <1>4 DEF CommitsOnce, Elsewhere, Pbft!Nodes

LEMMA BusyThen ==
    ASSUME NEW d
    PROVE  Busy(d) <=> \/ VotersIn(pbftQueue, "PRE-PREPARE", d) # {}
                       \/ VotersIn(pbftQueue, "PREPARE", d) # {}
                       \/ VotersIn(pbftQueue, "COMMIT", d) # {}
BY DEF Busy, BftPhases

LEMMA BusyLater ==
    ASSUME NEW d
    PROVE  Busy(d)' <=> \/ VotersIn(pbftQueue', "PRE-PREPARE", d) # {}
                        \/ VotersIn(pbftQueue', "PREPARE", d) # {}
                        \/ VotersIn(pbftQueue', "COMMIT", d) # {}
BY DEF Busy, BftPhases

LEMMA VotesSubmitted ==
    ASSUME Pbft!PbftAssumption, BftTypeInv, InRounds, VotesInv,
           NEW x \in Payloads, Pbft!SubmitRequest(x), ~overlapped'
    PROVE  VotesInv'
<1>1. /\ pbftQueue = <<>> /\ x \notin asked
      /\ asked' = asked \cup {x} /\ committers' = committers /\ committed' = committed
  BY DEF Pbft!SubmitRequest, Pbft!Through
<1>2. \A t, d : VotersIn(pbftQueue, t, d) = {}
  BY <1>1, EmptyQueue
<1>3. CASE Pbft!Deaf(Pbft!Primary)
  <2>1. pbftNode' = pbftNode /\ pbftQueue' = pbftQueue
    BY <1>3 DEF Pbft!SubmitRequest
  <2>2. \A d : Busy(d)' = Busy(d)
    BY <2>1 DEF Busy
  <2>3. ASSUME NEW d \in Payloads PROVE CommitsOnce(d)'
    <3>1. Elsewhere(d)
      BY <1>1, <2>1 DEF Elsewhere
    <3>2. QED
      BY <3>1, CommitsElsewhere DEF VotesInv
  <2>4. ASSUME NEW d \in Payloads PROVE AskedOnly(d)' /\ Backed(d)'
    <3>1. AskedOnly(d) /\ Backed(d)
      BY DEF VotesInv
    <3>2. QED
      BY <1>1, <2>2, <3>1 DEF AskedOnly, Backed, Pbft!Threshold
  <2>5. QED
    BY <2>2, <2>3, <2>4 DEF VotesInv
<1>4. CASE ~Pbft!Deaf(Pbft!Primary)
  <2>1. \A t, e : VotersIn(pbftQueue', t, e) =
            IF t = "PRE-PREPARE" /\ e = x THEN Pbft!Nodes \ {Pbft!Primary} ELSE {}
    BY <1>1, <1>4, SubmitsQueue
  <2>2. \A e : Busy(e)' => e = x
    BY <2>1 DEF Busy
  <2>3. committers[x] = {}
    BY <1>1 DEF VotesInv, AskedOnly
  <2>4. ASSUME NEW d \in Payloads PROVE CommitsOnce(d)'
    <3>1. d \in Pbft!Digests
      BY DEF Pbft!Digests
    <3>2. \A n : CountedBy(n, d) = committers[d] /\ CountedBy(n, d)' = committers[d]
      BY <1>1, <1>2, <2>1 DEF CountedBy
    <3>3. Cardinality(committers[d]) \in Nat
      BY <3>1, BehindMany
    <3>4. ASSUME NEW n \in Pbft!Nodes PROVE pbftNode'[n].commits[d] <= Cardinality(CountedBy(n, d)')
      <4>1. pbftNode'[n].commits[d] = IF n = Pbft!Primary THEN 0 ELSE pbftNode[n].commits[d]
        BY <1>4, <3>1, SubmitsAt
      <4>2. pbftNode[n].commits[d] <= Cardinality(committers[d])
        BY <3>2 DEF VotesInv, CommitsOnce
      <4>3. QED
        BY <3>2, <3>3, <4>1, <4>2
    <3>5. VotersIn(pbftQueue', "PRE-PREPARE", d) # {} => committers'[d] = {}
      BY <1>1, <2>1, <2>3
    <3>6. VotersIn(pbftQueue', "PREPARE", d) = {} /\ VotersIn(pbftQueue', "COMMIT", d) = {}
      <4>1. VotersIn(pbftQueue', "PREPARE", d) =
                IF "PREPARE" = "PRE-PREPARE" /\ d = x THEN Pbft!Nodes \ {Pbft!Primary} ELSE {}
        BY ONLY <2>1
      <4>2. VotersIn(pbftQueue', "COMMIT", d) =
                IF "COMMIT" = "PRE-PREPARE" /\ d = x THEN Pbft!Nodes \ {Pbft!Primary} ELSE {}
        BY ONLY <2>1
      <4>3. QED
        BY ONLY <4>1, <4>2
    <3>7. QED
      BY <3>4, <3>5, <3>6 DEF CommitsOnce, Pbft!Nodes
  <2>5. ASSUME NEW d \in Payloads PROVE AskedOnly(d)' /\ Backed(d)'
    <3>1. AskedOnly(d) /\ Backed(d)
      BY DEF VotesInv
    <3>2. QED
      BY <1>1, <2>2, <3>1 DEF AskedOnly, Backed, Pbft!Threshold
  <2>6. QED
    BY <2>2, <2>4, <2>5 DEF VotesInv
<1>5. QED
  BY <1>3, <1>4

LEMMA VotesPrepared ==
    ASSUME Pbft!PbftAssumption, BftTypeInv, InRounds, VotesInv, Pbft!HandlePrePrepare
    PROVE  VotesInv'
<1> DEFINE k == Pbft!Next1.to  x == Pbft!Next1.digest
           y == IF pbftNode[k].byz = "equivocate" THEN Fake ELSE x
<1>1. UNCHANGED <<asked, committers, committed>>
  BY DEF Pbft!HandlePrePrepare, Pbft!observers
<1>2. /\ k \in Pbft!Nodes /\ Closers = {}
      /\ VotersIn(pbftQueue, "PRE-PREPARE", x) # {}
      /\ \A e : VotersIn(pbftQueue', "PRE-PREPARE", e) \subseteq VotersIn(pbftQueue, "PRE-PREPARE", e)
      /\ \A e : VotersIn(pbftQueue', "COMMIT", e) = {}
      /\ \A e : VotersIn(pbftQueue', "PREPARE", e) # {} =>
             VotersIn(pbftQueue, "PREPARE", e) # {} \/ e = y
  <2>1. k = Pbft!Next1.to
    OBVIOUS
  <2>2. /\ k \in Pbft!Nodes /\ Closers = {}
        /\ k \in VotersIn(pbftQueue, "PRE-PREPARE", x)
        /\ \A e : VotersIn(pbftQueue', "PRE-PREPARE", e) =
               IF e = x THEN VotersIn(pbftQueue, "PRE-PREPARE", e) \ {k}
               ELSE VotersIn(pbftQueue, "PRE-PREPARE", e)
        /\ \A e : VotersIn(pbftQueue', "COMMIT", e) = {}
        /\ Pbft!Deaf(k) => \A e : VotersIn(pbftQueue', "PREPARE", e) = VotersIn(pbftQueue, "PREPARE", e)
        /\ ~Pbft!Deaf(k) =>
               \A e : VotersIn(pbftQueue', "PREPARE", e) = VotersIn(pbftQueue, "PREPARE", e)
                   \cup (IF e = y THEN {k} ELSE {})
    BY <2>1, PreparesQueue
  <2> HIDE DEF k, x, y
  <2>3. ASSUME NEW e, VotersIn(pbftQueue', "PREPARE", e) # {}, e # y
        PROVE  VotersIn(pbftQueue, "PREPARE", e) # {}
    BY <2>2, <2>3
  <2>4. QED
    BY <2>2, <2>3
<1>3. x \in Payloads /\ Fake \notin Payloads
  <2>1. pbftQueue # <<>> /\ Pbft!Next1.type = "PRE-PREPARE"
    BY DEF Pbft!HandlePrePrepare, Pbft!Handle, Pbft!Next1
  <2>2. QED
    BY <2>1, BftHead DEF BftTypeInv, Pbft!Next1, Pbft!PbftAssumption
<1>4. \A e : VotersIn(pbftQueue, "COMMIT", e) = {}
  BY <1>2, VotersAreThose, BftTyped DEF Closers, BftTypeInv
<1>5. y \in Payloads => y = x
  BY <1>3
<1> HIDE DEF k, x, y
<1>6. \A d \in Payloads : Busy(d)' => Busy(d)
  <2> TAKE d \in Payloads
  <2>1. Busy(x)
    BY <1>2, BusyThen
  <2>2. QED
    BY <1>2, <1>5, <2>1, BusyThen, BusyLater
<1>7. ASSUME NEW d \in Payloads PROVE CommitsOnce(d)'
  <2>1. d \in Pbft!Digests
    BY DEF Pbft!Digests
  <2>2. CommitsOnce(d)
    BY DEF VotesInv
  <2>3. VotersIn(pbftQueue', "PREPARE", d) # {} => committers[d] = {}
    <3> SUFFICES ASSUME VotersIn(pbftQueue', "PREPARE", d) # {} PROVE committers[d] = {}
      OBVIOUS
    <3>1. Busy(x) /\ Busy(d)
      BY <1>2, <1>5, BusyThen
    <3>2. d = x
      BY <1>3, <3>1 DEF VotesInv
    <3>3. QED
      BY <1>2, <2>2, <3>2 DEF CommitsOnce
  <2>4. VotersIn(pbftQueue', "PRE-PREPARE", d) # {} => committers[d] = {}
    BY <1>2, <2>2 DEF CommitsOnce
  <2>5. \A n : CountedBy(n, d)' = CountedBy(n, d)
    BY <1>1, <1>2, <1>4 DEF CountedBy
  <2>6. \A n \in Pbft!Nodes : pbftNode'[n].commits[d] = pbftNode[n].commits[d]
    BY <2>1, PreparesAt
  <2>7. \A n \in Pbft!Nodes : pbftNode'[n].commits[d] <= Cardinality(CountedBy(n, d)')
    BY <2>2, <2>5, <2>6 DEF CommitsOnce
  <2>8. QED
    BY <1>1, <1>2, <2>3, <2>4, <2>7 DEF CommitsOnce, Pbft!Nodes
<1>8. ASSUME NEW d \in Payloads PROVE AskedOnly(d)' /\ Backed(d)'
  <2>1. AskedOnly(d) /\ Backed(d)
    BY DEF VotesInv
  <2>2. QED
    BY <1>1, <1>6, <2>1 DEF AskedOnly, Backed, Pbft!Threshold
<1>9. QED
  BY <1>6, <1>7, <1>8 DEF VotesInv

LEMMA VotesCounted ==
    ASSUME Pbft!PbftAssumption, BftTypeInv, InRounds, VotesInv, Fake \notin committed,
           Pbft!HandlePrepare
    PROVE  VotesInv'
<1> DEFINE s == Pbft!Next1.from  x == Pbft!Next1.digest
<1>1. UNCHANGED <<asked, committed>>
  BY DEF Pbft!HandlePrepare
<1>2. /\ s \in VotersIn(pbftQueue, "PREPARE", x)
      /\ \A e : VotersIn(pbftQueue', "PRE-PREPARE", e) = {}
      /\ \A e : VotersIn(pbftQueue', "PREPARE", e) =
             IF e = x THEN VotersIn(pbftQueue, "PREPARE", e) \ {s} ELSE VotersIn(pbftQueue, "PREPARE", e)
      /\ \A e : VotersIn(pbftQueue', "COMMIT", e) =
             IF e = x THEN VotersIn(pbftQueue, "COMMIT", e) \cup Committing
             ELSE VotersIn(pbftQueue, "COMMIT", e)
  BY CountsQueue
<1>3. /\ committers' = [committers EXCEPT ![x] = @ \cup Committing]
      /\ Committing \subseteq Pbft!Nodes /\ x \in Pbft!Digests
      /\ committers \in [Pbft!Digests -> SUBSET Pbft!Nodes]
  <2>1. Pbft!TypeOK /\ Proper(pbftQueue) /\ committers \in [Pbft!Digests -> SUBSET Pbft!Nodes]
    BY BftTyped DEF BftTypeInv
  <2>2. /\ committers' = [committers EXCEPT ![x] = @ \cup Committing]
        /\ Committing \subseteq Pbft!Nodes /\ pbftQueue # <<>>
    BY <2>1, BftCounts
  <2>3. x \in Pbft!Digests
    BY <2>1, <2>2, BftHead DEF Pbft!Next1
  <2>4. QED
    BY <2>1, <2>2, <2>3
<1>4. \A n \in Pbft!Nodes : pbftNode'[n].state \in Awaiting =>
          pbftNode[n].state \in Awaiting /\ n \notin Committing
  <2>1. "commit" \notin Awaiting
    BY DEF Awaiting
  <2>2. QED
    BY <1>3, <2>1, CountsAt DEF Awaiting
<1>5. ASSUME NEW n \in Pbft!Nodes, NEW e \in Pbft!Digests
      PROVE  pbftNode[n].commits[e] \in Nat /\ pbftNode'[n].commits[e] =
                 IF n \in Committing /\ e = x THEN pbftNode[n].commits[e] + 1
                 ELSE pbftNode[n].commits[e]
  BY CountsAt
<1>6. \A n \in Committing : pbftNode[n].state \in Awaiting
  BY DEF Committing
<1> HIDE DEF s, x
<1>7. \A d : Busy(d)' => Busy(d)
  <2> TAKE d
  <2>1. d # x => (Busy(d)' => Busy(d))
    BY <1>2, BusyThen, BusyLater
  <2>2. Busy(x)
    BY <1>2, BusyThen
  <2>3. QED
    BY <2>1, <2>2
<1>8. ASSUME NEW d \in Payloads, d # x PROVE CommitsOnce(d)' /\ committers'[d] = committers[d]
  <2>1. committers'[d] = committers[d]
    BY <1>3, <1>8 DEF Pbft!Digests
  <2>2. Elsewhere(d)
    BY <1>2, <1>4, <1>5, <1>8, <2>1 DEF Elsewhere, Pbft!Digests
  <2>3. QED
    BY <2>1, <2>2, CommitsElsewhere DEF VotesInv
<1>9. ASSUME NEW d \in Payloads, d = x
      PROVE  /\ CommitsOnce(d)' /\ committers'[d] = committers[d] \cup Committing
             /\ d \in asked
  <2> USE <1>9
  <2>1. CommitsOnce(d) /\ AskedOnly(d) /\ Busy(d)
    BY <1>2, <1>9, BusyThen DEF VotesInv
  <2>2. committers'[d] = committers[d] \cup Committing
    BY <1>3
  <2>3. Committing \cap committers[d] = {}
    BY <1>2, <1>3, <1>6, <2>1 DEF CommitsOnce
  <2>4. \A n : CountedBy(n, d)' = CountedBy(n, d) \cup (IF n \in Committing THEN {n} ELSE {})
    <3> TAKE n
    <3>1. VotersIn(pbftQueue', "COMMIT", d) = VotersIn(pbftQueue, "COMMIT", d) \cup Committing
      BY <1>2, <1>9
    <3>2. ASSUME NEW c
          PROVE  c \in CountedBy(n, d)' <=> c \in CountedBy(n, d) \/ (n \in Committing /\ c = n)
      BY <2>2, <2>3, <3>1 DEF CountedBy
    <3>3. QED
      BY <3>2
  <2>5. ASSUME NEW n \in Pbft!Nodes PROVE pbftNode'[n].commits[d] <= Cardinality(CountedBy(n, d)')
    <3>1. /\ pbftNode[n].commits[d] <= Cardinality(CountedBy(n, d))
          /\ pbftNode[n].commits[d] \in Nat
      BY <1>3, <1>5, <2>1 DEF CommitsOnce
    <3>2. IsFiniteSet(CountedBy(n, d)) /\ Cardinality(CountedBy(n, d)) \in Nat
      BY <1>3, BehindMany
    <3>3. CASE n \in Committing
      <4>1. n \notin CountedBy(n, d)
        BY <2>3, <3>3 DEF CountedBy
      <4>2. Cardinality(CountedBy(n, d)') = Cardinality(CountedBy(n, d)) + 1
        <5>1. CountedBy(n, d)' = CountedBy(n, d) \cup {n}
          BY <2>4, <3>3
        <5>2. QED
          BY <3>2, <4>1, <5>1, FS_AddElement
      <4>3. pbftNode'[n].commits[d] = pbftNode[n].commits[d] + 1
        BY <1>3, <1>5, <3>3
      <4>4. QED
        BY <3>1, <3>2, <4>2, <4>3
    <3>4. CASE n \notin Committing
      <4>1. CountedBy(n, d)' = CountedBy(n, d) /\ pbftNode'[n].commits[d] = pbftNode[n].commits[d]
        BY <1>3, <1>5, <2>4, <3>4
      <4>2. QED
        BY <3>1, <4>1
    <3>5. QED
      BY <3>3, <3>4
  <2>6. \A n \in Pbft!Nodes : pbftNode'[n].state \in Awaiting => n \notin committers'[d]
    BY <1>2, <1>4, <2>1, <2>2 DEF CommitsOnce
  <2>7. VotersIn(pbftQueue', "COMMIT", d) \subseteq committers'[d]
    BY <1>2, <2>1, <2>2 DEF CommitsOnce
  <2>8. VotersIn(pbftQueue', "PRE-PREPARE", d) = {}
    BY <1>2
  <2>9. CommitsOnce(d)'
    BY <2>5, <2>6, <2>7, <2>8 DEF CommitsOnce, Pbft!Nodes
  <2>10. QED
    BY <2>1, <2>2, <2>9 DEF AskedOnly
<1>10. ASSUME NEW d \in Payloads PROVE AskedOnly(d)' /\ Backed(d)' /\ CommitsOnce(d)'
  <2>1. AskedOnly(d) /\ Backed(d)
    BY DEF VotesInv
  <2>2. committers[d] \subseteq committers'[d] /\ committers'[d] \subseteq Pbft!Nodes
    BY <1>3, <1>8, <1>9 DEF Pbft!Digests
  <2>3. Cardinality(committers[d]) <= Cardinality(committers'[d])
        /\ Cardinality(committers[d]) \in Nat /\ Cardinality(committers'[d]) \in Nat
    BY <2>2, SomeNodes
  <2>4. Backed(d)'
    BY <1>1, <2>1, <2>3, BftThreshold DEF Backed, Pbft!Threshold
  <2>5. AskedOnly(d)'
    BY <1>1, <1>7, <1>8, <1>9, <2>1 DEF AskedOnly
  <2>6. CommitsOnce(d)'
    BY <1>8, <1>9
  <2>7. QED
    BY <2>4, <2>5, <2>6
<1>11. QED
  BY <1>7, <1>10 DEF VotesInv

LEMMA VotesClosed ==
    ASSUME Pbft!PbftAssumption, BftTypeInv, InRounds, VotesInv, Pbft!HandleCommit
    PROVE  VotesInv'
<1> DEFINE s == Pbft!Next1.from  x == Pbft!Next1.digest
<1>1. UNCHANGED <<asked, committers>>
  BY DEF Pbft!HandleCommit, Pbft!observers
<1>2. /\ s \in VotersIn(pbftQueue, "COMMIT", x)
      /\ \A e : VotersIn(pbftQueue', "PRE-PREPARE", e) = {}
      /\ \A e : VotersIn(pbftQueue', "PREPARE", e) = {}
      /\ \A e : VotersIn(pbftQueue', "COMMIT", e) =
             IF e = x THEN VotersIn(pbftQueue, "COMMIT", e) \ {s} ELSE VotersIn(pbftQueue, "COMMIT", e)
  BY ClosesQueue
<1>3. /\ committed' = IF Replying = {} THEN committed ELSE committed \cup {x}
      /\ Replying \subseteq Pbft!Nodes /\ x \in Pbft!Digests
  <2>1. Pbft!TypeOK /\ Proper(pbftQueue)
    BY DEF BftTypeInv
  <2>2. /\ committed' = IF Replying = {} THEN committed ELSE committed \cup {x}
        /\ Replying \subseteq Pbft!Nodes /\ pbftQueue # <<>>
    BY <2>1, BftCloses
  <2>3. x \in Pbft!Digests
    BY <2>1, <2>2, BftHead DEF Pbft!Next1
  <2>4. QED
    BY <2>2, <2>3
<1>4. \A n \in Pbft!Nodes : pbftNode'[n].state \in Awaiting => pbftNode[n].state \in Awaiting
  <2>1. "idle" \notin Awaiting
    BY DEF Awaiting
  <2>2. QED
    BY <1>3, <2>1, ClosesAt
<1>5. ASSUME NEW n \in Pbft!Nodes, NEW e \in Pbft!Digests
      PROVE  /\ pbftNode[n].commits[e] \in Nat
             /\ n \in Arriving => n # s
             /\ n \in Replying => n \in Arriving /\ pbftNode[n].commits[x] + 1 >= Pbft!Threshold
             /\ pbftNode'[n].commits[e] =
                    IF n \in Replying THEN 0
                    ELSE IF n \in Arriving /\ e = x
                         THEN pbftNode[n].commits[e] + 1 ELSE pbftNode[n].commits[e]
  BY ClosesAt
<1> HIDE DEF s, x
<1>6. \A d : Busy(d)' => Busy(d)
  <2> TAKE d
  <2>1. d # x => (Busy(d)' => Busy(d))
    BY <1>2, BusyThen, BusyLater
  <2>2. Busy(x)
    BY <1>2, BusyThen
  <2>3. QED
    BY <2>1, <2>2
<1>7. ASSUME NEW d \in Payloads, d # x PROVE CommitsOnce(d)'
  <2>1. Elsewhere(d)
    <3>1. d \in Pbft!Digests
      BY DEF Pbft!Digests
    <3>2. \A n \in Pbft!Nodes : pbftNode'[n].commits[d] \in {pbftNode[n].commits[d], 0}
      BY <1>5, <1>7, <3>1
    <3>3. \A t \in {"PRE-PREPARE", "PREPARE"} :
              VotersIn(pbftQueue', t, d) \subseteq VotersIn(pbftQueue, t, d)
      BY <1>2
    <3>4. VotersIn(pbftQueue', "COMMIT", d) = VotersIn(pbftQueue, "COMMIT", d)
      BY <1>2, <1>7
    <3>5. QED
      BY <1>1, <1>4, <3>2, <3>3, <3>4 DEF Elsewhere
  <2>2. QED
    BY <2>1, CommitsElsewhere DEF VotesInv
<1>8. ASSUME NEW d \in Payloads, d = x
      PROVE  /\ CommitsOnce(d)'
             /\ Replying # {} => Cardinality(committers[d]) >= Pbft!Threshold
  <2> USE <1>8
  <2>1. CommitsOnce(d)
    BY <1>8 DEF VotesInv
  <2>2. s \in committers[d]
    BY <1>2, <2>1 DEF CommitsOnce
  <2>3. \A n : CountedBy(n, d)' = CountedBy(n, d) \cup {s}
    <3> TAKE n
    <3>1. VotersIn(pbftQueue', "COMMIT", d) = VotersIn(pbftQueue, "COMMIT", d) \ {s}
      BY <1>2, <1>8
    <3>2. ASSUME NEW c PROVE c \in CountedBy(n, d)' <=> c \in CountedBy(n, d) \/ c = s
      BY <1>1, <2>2, <3>1 DEF CountedBy
    <3>3. QED
      BY <3>2
  <2>4. ASSUME NEW n \in Pbft!Nodes
        PROVE  /\ pbftNode'[n].commits[d] <= Cardinality(CountedBy(n, d)')
               /\ n \in Replying => Cardinality(committers[d]) >= Pbft!Threshold
    <3>1. /\ pbftNode[n].commits[d] <= Cardinality(CountedBy(n, d))
          /\ pbftNode[n].commits[d] \in Nat
      BY <1>3, <1>5, <2>1 DEF CommitsOnce
    <3>2. IsFiniteSet(CountedBy(n, d)) /\ Cardinality(CountedBy(n, d)) \in Nat
          /\ committers[d] \subseteq Pbft!Nodes
      BY <1>3, BehindMany
    <3>3. CASE n \in Arriving
      <4>1. s \notin CountedBy(n, d)
        BY <1>2, <1>3, <1>5, <3>3 DEF CountedBy
      <4>2. Cardinality(CountedBy(n, d)') = Cardinality(CountedBy(n, d)) + 1
        <5>1. CountedBy(n, d)' = CountedBy(n, d) \cup {s}
          BY <2>3
        <5>2. QED
          BY <3>2, <4>1, <5>1, FS_AddElement
      <4>3. pbftNode'[n].commits[d] <= pbftNode[n].commits[d] + 1
        BY <1>3, <1>5, <3>1, <3>3
      <4>4. pbftNode'[n].commits[d] \in Nat
        BY <1>3, <1>5, <3>1, <3>3
      <4>5. CountedBy(n, d)' \in SUBSET committers[d]
        BY <2>2, <2>3 DEF CountedBy
      <4>6. Cardinality(CountedBy(n, d)') <= Cardinality(committers[d])
            /\ Cardinality(committers[d]) \in Nat
        BY <3>2, <4>5, SomeNodes
      <4>7. n \in Replying => Cardinality(committers[d]) >= Pbft!Threshold
        BY <1>3, <1>5, <3>1, <3>2, <4>2, <4>6, BftThreshold
      <4>8. QED
        BY <3>1, <3>2, <4>2, <4>3, <4>4, <4>7
    <3>4. CASE n \notin Arriving
      <4>1. pbftNode'[n].commits[d] = pbftNode[n].commits[d] /\ n \notin Replying
        BY <1>3, <1>5, <3>4
      <4>2. CountedBy(n, d)' \in SUBSET Pbft!Nodes /\ CountedBy(n, d) \subseteq CountedBy(n, d)'
        BY <2>2, <2>3, <3>2 DEF CountedBy
      <4>3. Cardinality(CountedBy(n, d)) <= Cardinality(CountedBy(n, d)')
            /\ Cardinality(CountedBy(n, d)') \in Nat
        <5> DEFINE B == CountedBy(n, d)'
        <5>1. B \subseteq Pbft!Nodes /\ CountedBy(n, d) \in SUBSET B
          BY <4>2
        <5> HIDE DEF B
        <5>2. Cardinality(CountedBy(n, d)) <= Cardinality(B) /\ Cardinality(B) \in Nat
          BY <5>1, SomeNodes
        <5>3. QED
          BY <5>2 DEF B
      <4>4. QED
        BY <3>1, <3>2, <4>1, <4>3
    <3>5. QED
      BY <3>3, <3>4
  <2>5. VotersIn(pbftQueue', "COMMIT", d) \subseteq committers'[d]
    BY <1>1, <1>2, <2>1 DEF CommitsOnce
  <2>6. VotersIn(pbftQueue', "PRE-PREPARE", d) = {} /\ VotersIn(pbftQueue', "PREPARE", d) = {}
    BY <1>2
  <2>7. CommitsOnce(d)'
    BY <2>4, <2>5, <2>6 DEF CommitsOnce, Pbft!Nodes
  <2>8. QED
    BY <1>3, <2>4, <2>7
<1>9. ASSUME NEW d \in Payloads PROVE AskedOnly(d)' /\ Backed(d)' /\ CommitsOnce(d)'
  <2>1. AskedOnly(d) /\ Backed(d)
    BY DEF VotesInv
  <2>2. Backed(d)'
    BY <1>1, <1>3, <1>8, <2>1 DEF Backed, Pbft!Threshold
  <2>3. AskedOnly(d)'
    BY <1>1, <1>6, <2>1 DEF AskedOnly
  <2>4. CommitsOnce(d)'
    BY <1>7, <1>8
  <2>5. QED
    BY <2>2, <2>3, <2>4
<1>10. QED
  BY <1>6, <1>9 DEF VotesInv

(* No step of a message, of a vote or of a request.                        *)
LEMMA VotesUntouched ==
    ASSUME Pbft!PbftAssumption, BftTypeInv, VotesInv,
           UNCHANGED <<pbftQueue, asked, committers, committed>>,
           \A n \in Pbft!Nodes : /\ pbftNode'[n].state = pbftNode[n].state
                                 /\ pbftNode'[n].commits = pbftNode[n].commits
    PROVE  VotesInv'
<1>1. \A d : Busy(d)' = Busy(d)
  BY DEF Busy
<1>2. ASSUME NEW d \in Payloads PROVE AskedOnly(d)' /\ Backed(d)' /\ CommitsOnce(d)'
  <2>1. AskedOnly(d) /\ Backed(d) /\ CommitsOnce(d)
    BY DEF VotesInv
  <2>2. Elsewhere(d)
    BY DEF Elsewhere
  <2>3. CommitsOnce(d)'
    BY <2>1, <2>2, CommitsElsewhere
  <2>4. QED
    BY <1>1, <2>1, <2>3 DEF AskedOnly, Backed, Pbft!Threshold
<1>3. QED
  BY <1>1, <1>2 DEF VotesInv

-----------------------------------------------------------------------------
(***************************************************************************)
(* PbftSim: what Byzantine nodes bring about.  Made Byzantine while the    *)
(* rest prepare, a node may come to an unlikely count of its own, and      *)
(* commit to what nobody asked for: such nodes are Irregular.  Each takes  *)
(* a fault of its own, so that there are too few of them.                  *)
(***************************************************************************)
BftFew == Pbft!PbftAssumption /\ MaxByzantine <= (BftNodes - 1) \div 3

Byzantines == {n \in Pbft!Nodes : pbftNode[n].byz # "honest"}

(* The nodes whose PREPARE for Fake may still come.                        *)
FakeOnTheWay == VotersIn(pbftQueue, "PREPARE", Fake) \cup Proposed

Regular(n) ==
    /\ pbftNode[n].state = "idle" =>
           /\ pbftNode[n].prepares[Fake] = 0
           /\ Proposed \cup Preparers # {} => n \in Proposed \/ Pbft!Deaf(n)
    /\ pbftNode[n].state \in Awaiting =>
           pbftNode[n].prepares[Fake] <= Cardinality(Byzantines \ FakeOnTheWay)

Irregular == {n \in Pbft!Nodes : ~Regular(n)}

(* The votes to commit to Fake that n has, or may get.                     *)
FakeVotes(n) ==
    pbftNode[n].commits[Fake] + Cardinality(VotersIn(pbftQueue, "COMMIT", Fake) \ {n})

FakeInv ==
    /\ Cardinality(Byzantines) <= byzantine
    /\ VotersIn(pbftQueue, "PREPARE", Fake) \subseteq Byzantines
    /\ \A n \in Proposed : pbftNode[n].state = "idle"
    /\ \A n \in Pbft!Nodes : FakeVotes(n) + Cardinality(Irregular) <= byzantine
    /\ Fake \notin committed

LEMMA OneMoreAtMost ==
    ASSUME NEW S, IsFiniteSet(S), NEW x, NEW R \in SUBSET (S \cup {x})
    PROVE  Cardinality(R) \in Nat /\ Cardinality(R) <= Cardinality(S) + 1
<1> DEFINE T == S \cup {x}
<1>1. Cardinality(S) \in Nat /\ IsFiniteSet(T) /\ Cardinality(T) <= Cardinality(S) + 1
  <2>1. Cardinality(S) \in Nat
    BY FS_CardinalityType
  <2>2. CASE x \in S
    <3>1. T = S
      BY <2>2
    <3> HIDE DEF T
    <3>2. QED
      BY <2>1, <3>1
  <2>3. CASE x \notin S
    <3>1. IsFiniteSet(T) /\ Cardinality(T) = Cardinality(S) + 1
      BY <2>3, FS_AddElement
    <3> HIDE DEF T
    <3>2. QED
      BY <2>1, <3>1
  <2>4. QED
    BY <2>2, <2>3, <2>1
<1>2. IsFiniteSet(R) /\ Cardinality(R) <= Cardinality(T)
  BY <1>1, FS_Subset
<1>3. Cardinality(R) \in Nat /\ Cardinality(T) \in Nat
  BY <1>1, <1>2, FS_CardinalityType
<1> HIDE DEF T
<1>4. QED
  BY <1>1, <1>2, <1>3

LEMMA ProposedNodes ==
    ASSUME BftTypeInv, NEW n \in Proposed
    PROVE  n \in Pbft!Nodes
<1>1. PICK i \in DOMAIN pbftQueue : pbftQueue[i].type = "PRE-PREPARE" /\ n = Who(pbftQueue[i])
  BY DEF Proposed, Those
<1>2. QED
  BY <1>1 DEF Who, Proper, BftTypeInv

LEMMA ByzantinesFew ==
    ASSUME BftFew, BftTypeInv, FakeInv
    PROVE  /\ Pbft!PbftAssumption /\ Fake \in Pbft!Digests /\ Fake \notin Payloads
           /\ byzantine \in Nat /\ byzantine < Pbft!Threshold /\ Pbft!Threshold \in Nat
           /\ Byzantines \subseteq Pbft!Nodes /\ IsFiniteSet(Byzantines)
           /\ Cardinality(Byzantines) \in Nat /\ Cardinality(Byzantines) <= byzantine
<1>1. Pbft!PbftAssumption /\ Fake \in Pbft!Digests /\ Fake \notin Payloads
  BY DEF BftFew, Pbft!PbftAssumption, Pbft!Digests
<1>2. byzantine \in Nat /\ byzantine < Pbft!Threshold /\ Pbft!Threshold \in Nat
  <2>1. byzantine \in 0 .. MaxByzantine /\ MaxByzantine \in Nat
    BY <1>1, BftTyped DEF BftTypeInv, Pbft!PbftAssumption
  <2>2. /\ Pbft!Threshold = 2 * ((BftNodes - 1) \div 3) + 1
        /\ (BftNodes - 1) \div 3 \in Nat /\ Pbft!Threshold \in Nat
    BY <1>1, BftThreshold
  <2>3. MaxByzantine <= (BftNodes - 1) \div 3
    BY DEF BftFew
  <2>4. QED
    BY <2>1, <2>2, <2>3
<1>3. Byzantines \subseteq Pbft!Nodes
  BY DEF Byzantines
<1>4. QED
  BY <1>1, <1>2, <1>3, SomeNodes DEF FakeInv

LEMMA FewerOnTheWay ==
    ASSUME Pbft!PbftAssumption,
           \A n \in Pbft!Nodes : pbftNode'[n].byz = "honest" => pbftNode[n].byz = "honest",
           \A n \in FakeOnTheWay' : n \in FakeOnTheWay
    PROVE  /\ Byzantines \subseteq Byzantines'
           /\ Cardinality(Byzantines \ FakeOnTheWay) \in Nat
           /\ Cardinality(Byzantines' \ FakeOnTheWay') \in Nat
           /\ Cardinality(Byzantines \ FakeOnTheWay) <= Cardinality(Byzantines' \ FakeOnTheWay')
<1> DEFINE A == Byzantines \ FakeOnTheWay  B == Byzantines' \ FakeOnTheWay'
<1>1. A \in SUBSET B /\ B \subseteq Pbft!Nodes /\ Byzantines \subseteq Byzantines'
  BY DEF Byzantines, Pbft!Nodes
<1> HIDE DEF A, B
<1>2. Cardinality(A) \in Nat /\ Cardinality(B) \in Nat /\ Cardinality(A) <= Cardinality(B)
  BY <1>1, SomeNodes
<1>3. QED
  BY <1>1, <1>2 DEF A, B

LEMMA FewerIrregular ==
    ASSUME Pbft!PbftAssumption, NEW S \in SUBSET Pbft!Nodes,
           \A n \in Pbft!Nodes : n \notin S /\ Regular(n) => Regular(n)'
    PROVE  /\ Irregular' \subseteq Irregular \cup S
           /\ Irregular \subseteq Pbft!Nodes /\ Irregular' \subseteq Pbft!Nodes
           /\ Cardinality(Irregular) \in Nat /\ Cardinality(Irregular') \in Nat
           /\ S = {} => Cardinality(Irregular') <= Cardinality(Irregular)
<1>1. /\ Irregular' \subseteq Irregular \cup S
      /\ Irregular \subseteq Pbft!Nodes /\ Irregular' \subseteq Pbft!Nodes
  BY DEF Irregular, Pbft!Nodes
<1>2. /\ Cardinality(Irregular) \in Nat /\ Cardinality(Irregular') \in Nat
      /\ Irregular' \in SUBSET Irregular => Cardinality(Irregular') <= Cardinality(Irregular)
  BY <1>1, SomeNodes
<1>3. QED
  BY <1>1, <1>2

LEMMA FakeVotesMany ==
    ASSUME Pbft!PbftAssumption, BftTypeInv, InRounds, NEW n \in Pbft!Nodes
    PROVE  /\ Fake \in Pbft!Digests /\ pbftNode[n].commits[Fake] \in Nat
           /\ pbftNode[n].prepares[Fake] \in Nat
           /\ VotersIn(pbftQueue, "COMMIT", Fake) \subseteq Pbft!Nodes
           /\ Cardinality(VotersIn(pbftQueue, "COMMIT", Fake) \ {n}) \in Nat
           /\ FakeVotes(n) \in Nat
<1>1. Fake \in Pbft!Digests
  BY DEF Pbft!Digests
<1>2. pbftQueue \in Seq(BftMessages) /\ pbftNode \in [Pbft!Nodes -> BftReplicas]
  BY BftTyped DEF BftTypeInv
<1>3. pbftNode[n].commits[Fake] \in Nat /\ pbftNode[n].prepares[Fake] \in Nat
  <2>1. pbftNode[n] \in BftReplicas
    BY <1>2
  <2>2. QED
    BY <1>1, <2>1 DEF BftReplicas
<1>4. VotersIn(pbftQueue, "COMMIT", Fake) \subseteq Closers
  BY <1>2, VotersAreThose DEF Closers
<1>5. VotersIn(pbftQueue, "COMMIT", Fake) \subseteq Pbft!Nodes
  BY <1>4 DEF InRounds
<1>6. Cardinality(VotersIn(pbftQueue, "COMMIT", Fake) \ {n}) \in Nat
  <2>1. VotersIn(pbftQueue, "COMMIT", Fake) \ {n} \subseteq Pbft!Nodes
    BY <1>5
  <2>2. QED
    BY <2>1, SomeNodes
<1>7. QED
  BY <1>1, <1>3, <1>5, <1>6 DEF FakeVotes

(* Enough for a step that makes no node faulty and adds no vote.           *)
Calm ==
    /\ \A n \in Pbft!Nodes : pbftNode'[n].byz = pbftNode[n].byz
    /\ \A n \in Pbft!Nodes : Regular(n) => Regular(n)'
    /\ byzantine' = byzantine
    /\ VotersIn(pbftQueue', "PREPARE", Fake) \subseteq Byzantines
    /\ \A n \in Proposed' : pbftNode'[n].state = "idle"
    /\ \A n \in Pbft!Nodes :
           /\ pbftNode'[n].commits[Fake] + Cardinality(VotersIn(pbftQueue', "COMMIT", Fake) \ {n})
                  \in Nat
           /\ pbftNode'[n].commits[Fake] + Cardinality(VotersIn(pbftQueue', "COMMIT", Fake) \ {n})
                  <= FakeVotes(n)
    /\ Fake \notin committed'

LEMMA FakeCalm ==
    ASSUME BftFew, BftTypeInv, InRounds, FakeInv, Calm
    PROVE  FakeInv'
<1>1. Pbft!PbftAssumption /\ byzantine \in Nat
  BY ByzantinesFew
<1>2. Byzantines' = Byzantines
  BY DEF Byzantines, Calm, Pbft!Nodes
<1>3. /\ Cardinality(Irregular) \in Nat /\ Cardinality(Irregular') \in Nat
      /\ Cardinality(Irregular') <= Cardinality(Irregular)
  <2>1. {} \in SUBSET Pbft!Nodes
    OBVIOUS
  <2>2. \A n \in Pbft!Nodes : n \notin {} /\ Regular(n) => Regular(n)'
    BY DEF Calm
  <2>3. QED
    BY ONLY <1>1, <2>1, <2>2, FewerIrregular
<1>4. ASSUME NEW n \in Pbft!Nodes PROVE FakeVotes(n)' + Cardinality(Irregular') <= byzantine'
  <2>1. FakeVotes(n) \in Nat /\ FakeVotes(n) + Cardinality(Irregular) <= byzantine
    BY <1>1, FakeVotesMany DEF FakeInv
  <2>2. FakeVotes(n)' \in Nat /\ FakeVotes(n)' <= FakeVotes(n)
    BY DEF Calm, FakeVotes
  <2>3. byzantine' = byzantine
    BY DEF Calm
  <2>4. QED
    BY <1>1, <1>3, <2>1, <2>2, <2>3
<1>5. /\ Cardinality(Byzantines') <= byzantine'
      /\ VotersIn(pbftQueue', "PREPARE", Fake) \subseteq Byzantines'
      /\ \A n \in Proposed' : pbftNode'[n].state = "idle"
      /\ Fake \notin committed'
  BY <1>2 DEF Calm, FakeInv
<1>6. QED
  BY <1>4, <1>5 DEF FakeInv, Pbft!Nodes

LEMMA FakeSubmitted ==
    ASSUME BftFew, BftTypeInv, InRounds, FakeInv,
           NEW x \in Payloads, Pbft!SubmitRequest(x), ~overlapped', ~Pbft!Deaf(Pbft!Primary)
    PROVE  FakeInv'
<1> DEFINE p == Pbft!Primary
<1>1. /\ pbftQueue = <<>> /\ \A n \in Pbft!Nodes : pbftNode[n].state = "idle"
      /\ committed' = committed /\ byzantine' = byzantine
  BY DEF Pbft!SubmitRequest, Pbft!Through
<1>2. /\ Pbft!PbftAssumption /\ Fake \in Pbft!Digests /\ Fake # x
  BY ByzantinesFew
<1>3. /\ Proposed' = Pbft!Nodes \ {p}
      /\ VotersIn(pbftQueue', "PREPARE", Fake) = {} /\ VotersIn(pbftQueue', "COMMIT", Fake) = {}
      /\ VotersIn(pbftQueue, "COMMIT", Fake) = {}
  <2>1. /\ Proposed' = Pbft!Nodes \ {p}
        /\ \A t, e : VotersIn(pbftQueue', t, e) =
               IF t = "PRE-PREPARE" /\ e = x THEN Pbft!Nodes \ {p} ELSE {}
    BY <1>1, <1>2, SubmitsQueue
  <2>2. \A t : VotersIn(pbftQueue', t, Fake) = {}
    BY <1>2, <2>1
  <2>3. QED
    BY <1>1, <2>1, <2>2, EmptyQueue
<1>4. ASSUME NEW n \in Pbft!Nodes
      PROVE  /\ pbftNode[n].commits[Fake] \in Nat
             /\ pbftNode'[n].state = IF n = p THEN "pre-prepare" ELSE "idle"
             /\ pbftNode'[n].byz = pbftNode[n].byz
             /\ pbftNode'[n].prepares[Fake] = pbftNode[n].prepares[Fake]
             /\ pbftNode'[n].commits[Fake] \in {0, pbftNode[n].commits[Fake]}
  BY <1>1, <1>2, SubmitsAt
<1> HIDE DEF p
<1>5. ASSUME NEW n \in Pbft!Nodes, Regular(n) PROVE Regular(n)'
  <2>1. pbftNode'[n].prepares[Fake] = 0
    BY <1>1, <1>4, <1>5 DEF Regular
  <2>2. Cardinality(Byzantines' \ FakeOnTheWay') \in Nat
    <3>1. Byzantines' \ FakeOnTheWay' \subseteq Pbft!Nodes
      BY DEF Byzantines, Pbft!Nodes
    <3>2. QED
      BY <1>2, <3>1, SomeNodes
  <2>3. n \notin Proposed' => pbftNode'[n].state # "idle"
    BY <1>3, <1>4
  <2>4. 0 <= Cardinality(Byzantines' \ FakeOnTheWay')
    BY <2>2
  <2>5. QED
    BY <2>1, <2>3, <2>4 DEF Regular
<1>6. ASSUME NEW n \in Pbft!Nodes
      PROVE  /\ pbftNode'[n].commits[Fake] + Cardinality(VotersIn(pbftQueue', "COMMIT", Fake) \ {n})
                    \in Nat
             /\ pbftNode'[n].commits[Fake] + Cardinality(VotersIn(pbftQueue', "COMMIT", Fake) \ {n})
                    <= FakeVotes(n)
  <2>1. /\ VotersIn(pbftQueue', "COMMIT", Fake) \ {n} = {}
        /\ VotersIn(pbftQueue, "COMMIT", Fake) \ {n} = {} /\ Cardinality({}) = 0
    BY <1>3, FS_EmptySet
  <2>2. /\ Cardinality(VotersIn(pbftQueue', "COMMIT", Fake) \ {n}) = 0
        /\ FakeVotes(n) = pbftNode[n].commits[Fake] + 0
    BY ONLY <2>1 DEF FakeVotes
  <2>3. QED
    BY <1>4, <2>2
<1>7. \A n \in Proposed' : pbftNode'[n].state = "idle"
  BY <1>3, <1>4
<1>8. Calm
  BY <1>1, <1>3, <1>4, <1>5, <1>6, <1>7 DEF Calm, FakeInv
<1>9. QED
  BY <1>8, FakeCalm

LEMMA FakePrepared ==
    ASSUME BftFew, BftTypeInv, InRounds, FakeInv, Pbft!HandlePrePrepare
    PROVE  FakeInv'
<1> DEFINE k == Pbft!Next1.to  x == Pbft!Next1.digest
           y == IF pbftNode[k].byz = "equivocate" THEN Fake ELSE x
<1>1. committed' = committed /\ byzantine' = byzantine
  BY DEF Pbft!HandlePrePrepare, Pbft!observers
<1>2. Pbft!PbftAssumption /\ Fake \in Pbft!Digests /\ Fake \notin Payloads
  BY ByzantinesFew
<1>3. /\ k \in Pbft!Nodes /\ k \in Proposed /\ Closers = {}
      /\ Proposed' = Proposed \ {k}
      /\ \A e : VotersIn(pbftQueue', "COMMIT", e) = {}
      /\ Pbft!Deaf(k) => \A e : VotersIn(pbftQueue', "PREPARE", e) = VotersIn(pbftQueue, "PREPARE", e)
      /\ ~Pbft!Deaf(k) =>
             \A e : VotersIn(pbftQueue', "PREPARE", e) = VotersIn(pbftQueue, "PREPARE", e)
                 \cup (IF e = y THEN {k} ELSE {})
  <2>1. k = Pbft!Next1.to
    OBVIOUS
  <2>2. QED
    BY <1>2, <2>1, PreparesQueue
<1>4. x \in Payloads
  <2>1. pbftQueue # <<>> /\ Pbft!Next1.type = "PRE-PREPARE"
    BY DEF Pbft!HandlePrePrepare, Pbft!Handle, Pbft!Next1
  <2>2. QED
    BY <2>1, BftHead DEF BftTypeInv, Pbft!Next1
<1>5. VotersIn(pbftQueue, "COMMIT", Fake) = {}
  BY <1>3, VotersAreThose, BftTyped DEF Closers, BftTypeInv
<1>6. ASSUME NEW n \in Pbft!Nodes
      PROVE  /\ pbftNode[n].commits[Fake] \in Nat
             /\ pbftNode'[n].state = IF n = k /\ ~Pbft!Deaf(n) THEN "prepare" ELSE pbftNode[n].state
             /\ pbftNode'[n].byz = pbftNode[n].byz
             /\ pbftNode[n].prepares[Fake] \in Nat
             /\ pbftNode'[n].prepares[Fake] = pbftNode[n].prepares[Fake]
             /\ pbftNode'[n].commits[Fake] = pbftNode[n].commits[Fake]
  BY <1>2, <1>4, PreparesAt
<1>7. y = Fake => pbftNode[k].byz # "honest"
  BY <1>2, <1>4
<1> HIDE DEF k, x, y
<1>8. /\ VotersIn(pbftQueue', "PREPARE", Fake) \subseteq Byzantines
      /\ VotersIn(pbftQueue', "PREPARE", Fake) \subseteq VotersIn(pbftQueue, "PREPARE", Fake) \cup {k}
  <2>1. VotersIn(pbftQueue', "PREPARE", Fake) \subseteq VotersIn(pbftQueue, "PREPARE", Fake)
            \cup (IF y = Fake THEN {k} ELSE {})
    BY <1>3
  <2>2. y = Fake => k \in Byzantines
    BY <1>3, <1>7 DEF Byzantines
  <2>3. QED
    BY <2>1, <2>2 DEF FakeInv
<1>9. \A n \in FakeOnTheWay' : n \in FakeOnTheWay
  BY <1>3, <1>8 DEF FakeOnTheWay
<1>10. /\ Cardinality(Byzantines \ FakeOnTheWay) \in Nat
       /\ Cardinality(Byzantines' \ FakeOnTheWay') \in Nat
       /\ Cardinality(Byzantines \ FakeOnTheWay) <= Cardinality(Byzantines' \ FakeOnTheWay')
  BY <1>2, <1>6, <1>9, FewerOnTheWay
<1>11. ASSUME NEW n \in Pbft!Nodes, Regular(n) PROVE Regular(n)'
  <2>1. Pbft!Deaf(n)' = Pbft!Deaf(n)
    BY <1>6 DEF Pbft!Deaf
  <2>2. CASE n = k /\ ~Pbft!Deaf(n)
    <3>1. pbftNode'[n].state = "prepare" /\ pbftNode'[n].prepares[Fake] = 0
      BY <1>3, <1>6, <1>11, <2>2 DEF FakeInv, Regular
    <3>2. QED
      BY <1>10, <3>1 DEF Regular
  <2>3. CASE n = k /\ Pbft!Deaf(n)
    BY <1>6, <1>10, <1>11, <2>1, <2>3 DEF Regular
  <2>4. CASE n # k
    <3>1. pbftNode'[n].state = "idle" => n \in Proposed' \/ Pbft!Deaf(n)'
      BY <1>3, <1>6, <1>11, <2>1, <2>4 DEF Regular
    <3>2. QED
      BY <1>6, <1>10, <1>11, <2>4, <3>1 DEF Regular
  <2>5. QED
    BY <2>2, <2>3, <2>4
<1>12. \A n \in Pbft!Nodes :
           /\ pbftNode'[n].commits[Fake] + Cardinality(VotersIn(pbftQueue', "COMMIT", Fake) \ {n})
                  \in Nat
           /\ pbftNode'[n].commits[Fake] + Cardinality(VotersIn(pbftQueue', "COMMIT", Fake) \ {n})
                  <= FakeVotes(n)
  <2> TAKE n \in Pbft!Nodes
  <2>1. /\ VotersIn(pbftQueue', "COMMIT", Fake) \ {n} = {}
        /\ VotersIn(pbftQueue, "COMMIT", Fake) \ {n} = {} /\ Cardinality({}) = 0
    BY <1>3, <1>5, FS_EmptySet
  <2>2. /\ Cardinality(VotersIn(pbftQueue', "COMMIT", Fake) \ {n}) = 0
        /\ FakeVotes(n) = pbftNode[n].commits[Fake] + 0
    BY ONLY <2>1 DEF FakeVotes
  <2>3. QED
    BY <1>6, <2>2
<1>13. \A n \in Proposed' : pbftNode'[n].state = "idle"
  <2> SUFFICES ASSUME NEW n \in Proposed' PROVE pbftNode'[n].state = "idle"
    OBVIOUS
  <2>1. n \in Proposed /\ n # k
    BY <1>3
  <2>2. n \in Pbft!Nodes
    BY <2>1, ProposedNodes DEF BftTypeInv
  <2>3. QED
    BY <1>6, <2>1, <2>2 DEF FakeInv
<1>14. Calm
  BY <1>1, <1>6, <1>8, <1>11, <1>12, <1>13 DEF Calm, FakeInv
<1>15. QED
  BY <1>14, FakeCalm

(* A node that has not been tampered with commits to no fake.              *)
LEMMA RegularWaits ==
    ASSUME BftFew, BftTypeInv, InRounds, FakeInv, Pbft!HandlePrepare,
           Pbft!Next1.digest = Fake, NEW n \in Committing
    PROVE  n \in Pbft!Nodes /\ ~Regular(n)
<1>1. Pbft!Next1.from \in Byzantines \cap FakeOnTheWay
  <2>1. Pbft!Next1.from \in VotersIn(pbftQueue, "PREPARE", Fake)
    BY CountsQueue DEF BftFew
  <2>2. QED
    BY <2>1 DEF FakeInv, FakeOnTheWay
<1>2. Cardinality(Byzantines \ FakeOnTheWay) + 1 <= Cardinality(Byzantines)
      /\ Cardinality(Byzantines \ FakeOnTheWay) \in Nat
  <2> DEFINE R == Byzantines \ {Pbft!Next1.from}
  <2>1. Cardinality(R) = Cardinality(Byzantines) - 1 /\ Cardinality(Byzantines) \in Nat
    BY <1>1, ByzantinesFew, SomeNodes
  <2>2. R \subseteq Pbft!Nodes /\ Byzantines \ FakeOnTheWay \in SUBSET R
    BY <1>1, ByzantinesFew
  <2> HIDE DEF R
  <2>3. Cardinality(Byzantines \ FakeOnTheWay) <= Cardinality(R)
        /\ Cardinality(Byzantines \ FakeOnTheWay) \in Nat
    BY <2>2, ByzantinesFew, SomeNodes
  <2>4. QED
    BY <2>1, <2>3
<1>3. n \in Pbft!Nodes
  BY DEF Committing, Pbft!Reached
<1>4. /\ pbftNode[n].state \in Awaiting /\ pbftNode[n].prepares[Fake] + 1 >= Pbft!Threshold
      /\ pbftNode[n].prepares[Fake] \in Nat
  BY <1>3, CountsAt, ByzantinesFew
<1>5. ASSUME Regular(n) PROVE FALSE
  <2>1. pbftNode[n].prepares[Fake] <= Cardinality(Byzantines \ FakeOnTheWay)
    BY <1>4, <1>5 DEF Regular
  <2>2. QED
    BY <1>2, <1>4, <2>1, ByzantinesFew
<1>6. QED
  BY <1>3, <1>5

LEMMA FakeCounted ==
    ASSUME BftFew, BftTypeInv, InRounds, FakeInv, Pbft!HandlePrepare
    PROVE  FakeInv'
<1> DEFINE s == Pbft!Next1.from  x == Pbft!Next1.digest  C == Committing  I == Irregular
           V == VotersIn(pbftQueue, "COMMIT", Fake)
<1>1. committed' = committed /\ byzantine' = byzantine
  BY DEF Pbft!HandlePrepare
<1>2. /\ Pbft!PbftAssumption /\ Fake \in Pbft!Digests /\ byzantine \in Nat
  BY ByzantinesFew
<1>3. /\ InRounds' /\ Proposed = {} /\ Proposed' = {} /\ s \in Preparers
      /\ s \in VotersIn(pbftQueue, "PREPARE", x)
      /\ Preparers' = Preparers \ {s}
      /\ VotersIn(pbftQueue', "PREPARE", Fake) =
             IF Fake = x THEN VotersIn(pbftQueue, "PREPARE", Fake) \ {s}
             ELSE VotersIn(pbftQueue, "PREPARE", Fake)
      /\ VotersIn(pbftQueue', "COMMIT", Fake) = IF Fake = x THEN V \cup C ELSE V
  BY <1>2, CountsQueue
<1>4. ASSUME NEW n \in Pbft!Nodes
      PROVE  /\ n \in Arriving <=> n # s /\ ~Pbft!Deaf(n)
             /\ pbftNode'[n].state = IF n \in C THEN "commit"
                                     ELSE IF n \in Arriving /\ pbftNode[n].state = "pre-prepare"
                                          THEN "prepare" ELSE pbftNode[n].state
             /\ pbftNode'[n].byz = pbftNode[n].byz
             /\ pbftNode[n].prepares[Fake] \in Nat /\ pbftNode[n].commits[Fake] \in Nat
             /\ pbftNode'[n].prepares[Fake] = IF n \in Arriving /\ Fake = x
                    THEN pbftNode[n].prepares[Fake] + 1 ELSE pbftNode[n].prepares[Fake]
             /\ pbftNode'[n].commits[Fake] = IF n \in C /\ Fake = x
                    THEN pbftNode[n].commits[Fake] + 1 ELSE pbftNode[n].commits[Fake]
  BY <1>2, CountsAt
<1>5. C \subseteq Pbft!Nodes
  BY DEF Committing, Pbft!Reached
<1>6. x = Fake => C \subseteq I
  BY RegularWaits DEF Irregular
<1> HIDE DEF s, x, C, V, I
<1>7. \A n \in FakeOnTheWay' : n \in FakeOnTheWay
  BY <1>3 DEF FakeOnTheWay
<1>8. /\ Cardinality(Byzantines \ FakeOnTheWay) \in Nat
      /\ Cardinality(Byzantines' \ FakeOnTheWay') \in Nat
      /\ Cardinality(Byzantines \ FakeOnTheWay) <= Cardinality(Byzantines' \ FakeOnTheWay')
  BY <1>2, <1>4, <1>7, FewerOnTheWay
<1>9. x = Fake => Cardinality(Byzantines \ FakeOnTheWay) + 1 <= Cardinality(Byzantines' \ FakeOnTheWay')
  <2> SUFFICES ASSUME x = Fake
               PROVE  Cardinality(Byzantines \ FakeOnTheWay) + 1 <= Cardinality(Byzantines' \ FakeOnTheWay')
    OBVIOUS
  <2> DEFINE A == Byzantines \ FakeOnTheWay  B == Byzantines' \ FakeOnTheWay'
  <2>1. s \in Byzantines /\ s \in FakeOnTheWay /\ s \notin FakeOnTheWay'
    BY <1>3 DEF FakeInv, FakeOnTheWay
  <2>2. Byzantines' = Byzantines
    BY <1>4 DEF Byzantines, Pbft!Nodes
  <2>3. A \cup {s} \in SUBSET B /\ s \notin A /\ A \subseteq Pbft!Nodes /\ B \subseteq Pbft!Nodes
    BY <1>7, <2>1, <2>2 DEF Byzantines
  <2> HIDE DEF A, B
  <2>4. Cardinality(A \cup {s}) = Cardinality(A) + 1 /\ Cardinality(A \cup {s}) <= Cardinality(B)
    BY <1>2, <2>3, SomeNodes
  <2>5. Cardinality(A) + 1 <= Cardinality(B)
    BY <2>4
  <2>6. QED
    BY <2>5 DEF A, B
<1>10. ASSUME NEW n \in Pbft!Nodes, Regular(n) \/ n \in C PROVE Regular(n)'
  <2>1. Pbft!Deaf(n)' = Pbft!Deaf(n)
    BY <1>4 DEF Pbft!Deaf
  <2>2. CASE n \in C
    BY <1>4, <2>2 DEF Regular, Awaiting
  <2>3. CASE n \notin C /\ pbftNode[n].state = "idle"
    <3>1. pbftNode[n].prepares[Fake] = 0 /\ Pbft!Deaf(n)
      BY <1>3, <1>10, <2>3 DEF Regular
    <3>2. pbftNode'[n].state = "idle" /\ pbftNode'[n].prepares[Fake] = 0 /\ Pbft!Deaf(n)'
      BY <1>4, <2>1, <2>3, <3>1
    <3>3. QED
      BY <3>2 DEF Regular, Awaiting
  <2>4. CASE n \notin C /\ pbftNode[n].state # "idle"
    <3>1. pbftNode'[n].state # "idle"
          /\ (pbftNode'[n].state \in Awaiting => pbftNode[n].state \in Awaiting)
      BY <1>4, <2>4 DEF Awaiting
    <3>2. pbftNode[n].state \in Awaiting =>
              pbftNode'[n].prepares[Fake] <= Cardinality(Byzantines' \ FakeOnTheWay')
      BY <1>4, <1>8, <1>9, <1>10, <2>4 DEF Regular
    <3>3. QED
      BY <3>1, <3>2 DEF Regular
  <2>5. QED
    BY <2>2, <2>3, <2>4
<1>11. /\ \A n \in Proposed' : pbftNode'[n].state = "idle"
       /\ VotersIn(pbftQueue', "PREPARE", Fake) \subseteq Byzantines
  BY <1>3 DEF FakeInv
<1>12. CASE x # Fake
  <2>1. \A n \in Pbft!Nodes :
            /\ pbftNode'[n].commits[Fake] + Cardinality(VotersIn(pbftQueue', "COMMIT", Fake) \ {n})
                   \in Nat
            /\ pbftNode'[n].commits[Fake] + Cardinality(VotersIn(pbftQueue', "COMMIT", Fake) \ {n})
                   <= FakeVotes(n)
    <3> TAKE n \in Pbft!Nodes
    <3>1. /\ pbftNode'[n].commits[Fake] = pbftNode[n].commits[Fake]
          /\ VotersIn(pbftQueue', "COMMIT", Fake) = V
      BY <1>3, <1>4, <1>12
    <3>2. pbftNode'[n].commits[Fake] + Cardinality(VotersIn(pbftQueue', "COMMIT", Fake) \ {n})
              = FakeVotes(n)
      BY <3>1 DEF FakeVotes, V
    <3>3. FakeVotes(n) \in Nat
      BY <1>2, FakeVotesMany
    <3>4. QED
      BY <3>2, <3>3
  <2>2. Calm
    BY <1>1, <1>4, <1>10, <1>11, <2>1 DEF Calm, FakeInv
  <2>3. QED
    BY <2>2, FakeCalm
<1>13. CASE x = Fake
  <2>1. C \subseteq I /\ I \subseteq Pbft!Nodes
    BY <1>6, <1>13 DEF I, Irregular
  <2>2. Irregular' \in SUBSET (I \ C)
    BY <1>10 DEF I, Irregular, Pbft!Nodes
  <2>3. /\ Cardinality(C) \in Nat /\ Cardinality(I) \in Nat
        /\ Cardinality(I \ C) = Cardinality(I) - Cardinality(C)
        /\ Cardinality(Irregular') \in Nat /\ Cardinality(Irregular') <= Cardinality(I \ C)
    <3>1. IsFiniteSet(I) /\ Cardinality(I) \in Nat /\ Cardinality(C) \in Nat
      BY <1>2, <1>5, <2>1, SomeNodes
    <3>2. Cardinality(I \ C) = Cardinality(I) - Cardinality(I \cap C)
      BY <3>1, FS_Difference
    <3>3. I \cap C = C
      BY <2>1
    <3>4. I \ C \subseteq Pbft!Nodes
      BY <2>1
    <3>5. Cardinality(Irregular') \in Nat /\ Cardinality(Irregular') <= Cardinality(I \ C)
      BY <1>2, <2>2, <3>4, SomeNodes
    <3>6. QED
      BY <3>1, <3>2, <3>3, <3>5
  <2>4. ASSUME NEW n \in Pbft!Nodes
        PROVE  FakeVotes(n)' + Cardinality(Irregular') <= byzantine
    <3> DEFINE A == V \ {n}  B == C \ {n}  W == VotersIn(pbftQueue', "COMMIT", Fake) \ {n}
    <3>1. W = A \cup B
      BY <1>3, <1>13
    <3>2. /\ V \subseteq Pbft!Nodes /\ Cardinality(A) \in Nat
          /\ pbftNode[n].commits[Fake] + Cardinality(A) + Cardinality(I) <= byzantine
          /\ pbftNode[n].commits[Fake] \in Nat
      BY <1>2, FakeVotesMany DEF FakeInv, FakeVotes, V, I
    <3>3. IsFiniteSet(A) /\ IsFiniteSet(B) /\ Cardinality(B) \in Nat
      <4>1. A \subseteq Pbft!Nodes /\ B \subseteq Pbft!Nodes
        BY <1>5, <3>2
      <4> HIDE DEF A, B
      <4>2. QED
        BY <1>2, <4>1, SomeNodes
    <3>4. Cardinality(W) <= Cardinality(A) + Cardinality(B) /\ Cardinality(W) \in Nat
      <4>1. Cardinality(A \cup B) = Cardinality(A) + Cardinality(B) - Cardinality(A \cap B)
        BY <3>3, FS_Union
      <4>2. IsFiniteSet(A \cap B) /\ IsFiniteSet(A \cup B)
        <5>1. IsFiniteSet(A \cap B)
          BY <3>3, FS_Intersection
        <5>2. QED
          BY <3>3, <5>1, FS_Union
      <4>3. Cardinality(A \cap B) \in Nat /\ Cardinality(A \cup B) \in Nat
        BY <4>2, FS_CardinalityType
      <4> HIDE DEF A, B, W
      <4>4. QED
        BY <3>1, <3>2, <3>3, <4>1, <4>3
    <3>5. n \in C => Cardinality(B) = Cardinality(C) - 1
      BY <1>2, <1>5, SomeNodes
    <3>6. n \notin C => Cardinality(B) = Cardinality(C)
      <4>1. n \notin C => B = C
        OBVIOUS
      <4>2. QED
        BY <4>1
    <3>7. FakeVotes(n)' = pbftNode'[n].commits[Fake] + Cardinality(W)
      BY DEF FakeVotes
    <3>8. pbftNode'[n].commits[Fake] =
              IF n \in C THEN pbftNode[n].commits[Fake] + 1 ELSE pbftNode[n].commits[Fake]
      BY <1>4, <1>13
    <3> HIDE DEF A, B, W
    <3>9. pbftNode'[n].commits[Fake] + Cardinality(B) = pbftNode[n].commits[Fake] + Cardinality(C)
      BY <2>3, <3>2, <3>3, <3>5, <3>6, <3>8
    <3>10. pbftNode'[n].commits[Fake] \in Nat
      BY <3>2, <3>8
    <3>11. QED
      BY <1>2, <2>3, <3>2, <3>3, <3>4, <3>7, <3>9, <3>10
  <2>5. Byzantines' = Byzantines
    BY <1>4 DEF Byzantines, Pbft!Nodes
  <2>6. QED
    BY <1>1, <1>11, <2>4, <2>5 DEF FakeInv, Pbft!Nodes
<1>14. QED
  BY <1>12, <1>13

LEMMA FakeClosed ==
    ASSUME BftFew, BftTypeInv, InRounds, FakeInv, Pbft!HandleCommit
    PROVE  FakeInv'
<1> DEFINE s == Pbft!Next1.from  x == Pbft!Next1.digest
           V == VotersIn(pbftQueue, "COMMIT", Fake)  W == VotersIn(pbftQueue', "COMMIT", Fake)
<1>1. byzantine' = byzantine
  BY DEF Pbft!HandleCommit, Pbft!observers
<1>2. /\ Pbft!PbftAssumption /\ Fake \in Pbft!Digests
      /\ byzantine \in Nat /\ byzantine < Pbft!Threshold /\ Pbft!Threshold \in Nat
  BY ByzantinesFew
<1>3. /\ Proposed = {} /\ Proposed' = {} /\ Preparers = {} /\ Preparers' = {}
      /\ s \in VotersIn(pbftQueue, "COMMIT", x)
      /\ VotersIn(pbftQueue', "PREPARE", Fake) = {}
      /\ W = IF Fake = x THEN V \ {s} ELSE V
  BY <1>2, ClosesQueue
<1>4. ASSUME NEW n \in Pbft!Nodes
      PROVE  /\ n \in Arriving => n # s
             /\ n \in Replying =>
                    n \in Arriving /\ pbftNode[n].commits[x] + 1 >= Pbft!Threshold
             /\ pbftNode'[n].state = IF n \in Replying THEN "idle" ELSE pbftNode[n].state
             /\ pbftNode'[n].byz = pbftNode[n].byz
             /\ pbftNode[n].prepares[Fake] \in Nat /\ pbftNode[n].commits[Fake] \in Nat
             /\ pbftNode'[n].prepares[Fake] =
                    IF n \in Replying THEN 0 ELSE pbftNode[n].prepares[Fake]
             /\ pbftNode'[n].commits[Fake] =
                    IF n \in Replying THEN 0
                    ELSE IF n \in Arriving /\ Fake = x
                         THEN pbftNode[n].commits[Fake] + 1 ELSE pbftNode[n].commits[Fake]
  BY <1>2, ClosesAt
<1>5. /\ committed' = IF Replying = {} THEN committed ELSE committed \cup {x}
      /\ Replying \subseteq Pbft!Nodes
  BY <1>2, BftCloses DEF BftTypeInv
<1>6. \A n \in Pbft!Nodes :
          /\ Cardinality(V \ {n}) \in Nat /\ V \subseteq Pbft!Nodes
          /\ FakeVotes(n) = pbftNode[n].commits[Fake] + Cardinality(V \ {n})
          /\ FakeVotes(n) \in Nat
          /\ FakeVotes(n) + Cardinality(Irregular) <= byzantine
  BY <1>2, FakeVotesMany DEF FakeInv, FakeVotes
<1> HIDE DEF s, x, V, W
<1>7. ASSUME NEW n \in Pbft!Nodes
      PROVE  /\ Cardinality(W \ {n}) \in Nat /\ Cardinality(W \ {n}) <= Cardinality(V \ {n})
             /\ Fake = x /\ n # s => Cardinality(W \ {n}) + 1 = Cardinality(V \ {n})
  <2> DEFINE A == V \ {n}  B == W \ {n}
  <2>1. A \subseteq Pbft!Nodes /\ B \in SUBSET A /\ Cardinality(A) \in Nat
    BY <1>3, <1>6
  <2>2. Fake = x /\ n # s => B = A \ {s} /\ s \in A
    BY <1>3 DEF V
  <2> HIDE DEF A, B
  <2>3. Cardinality(B) \in Nat /\ Cardinality(B) <= Cardinality(A)
    BY <1>2, <2>1, SomeNodes
  <2>4. Fake = x /\ n # s => Cardinality(B) = Cardinality(A) - 1
    BY <1>2, <2>1, <2>2, SomeNodes
  <2>5. Fake = x /\ n # s => Cardinality(B) + 1 = Cardinality(A)
    BY <2>1, <2>3, <2>4
  <2>6. QED
    BY <2>3, <2>5 DEF A, B
<1>8. ASSUME NEW n \in Pbft!Nodes
      PROVE  /\ pbftNode'[n].commits[Fake] + Cardinality(W \ {n}) \in Nat
             /\ pbftNode'[n].commits[Fake] + Cardinality(W \ {n}) <= FakeVotes(n)
  <2> DEFINE v == Cardinality(V \ {n})  w == Cardinality(W \ {n})
             old == pbftNode[n].commits[Fake]  new == pbftNode'[n].commits[Fake]
  <2>5. FakeVotes(n) = old + v /\ v \in Nat /\ old \in Nat
    BY <1>4, <1>6
  <2>6. w \in Nat /\ w <= v /\ (Fake = x /\ n # s => w + 1 = v)
    BY <1>7
  <2>7. /\ new = IF n \in Replying THEN 0
                 ELSE IF n \in Arriving /\ Fake = x THEN old + 1 ELSE old
        /\ n \in Arriving => n # s
    BY <1>4
  <2> HIDE DEF v, w, old, new
  <2>1. CASE n \in Replying
    <3>1. new + w \in Nat /\ new + w <= FakeVotes(n)
      BY <2>1, <2>5, <2>6, <2>7
    <3>2. QED
      BY <3>1 DEF w, new
  <2>2. CASE n \notin Replying /\ n \in Arriving /\ Fake = x
    <3>1. new + w \in Nat /\ new + w <= FakeVotes(n)
      BY <2>2, <2>5, <2>6, <2>7
    <3>2. QED
      BY <3>1 DEF w, new
  <2>3. CASE n \notin Replying /\ ~(n \in Arriving /\ Fake = x)
    <3>1. new + w \in Nat /\ new + w <= FakeVotes(n)
      BY <2>3, <2>5, <2>6, <2>7
    <3>2. QED
      BY <3>1 DEF w, new
  <2>4. QED
    BY <2>1, <2>2, <2>3
<1>9. Fake \notin committed'
  <2>1. ASSUME NEW n \in Replying, Fake = x PROVE FALSE
    <3>1. n \in Pbft!Nodes /\ n # s /\ pbftNode[n].commits[Fake] + 1 >= Pbft!Threshold
      BY <1>4, <1>5, <2>1
    <3>2. Cardinality(V \ {n}) >= 1
      <4>1. Cardinality(W \ {n}) \in Nat /\ Cardinality(W \ {n}) + 1 = Cardinality(V \ {n})
        BY <1>7, <2>1, <3>1
      <4>2. QED
        BY ONLY <4>1
    <3>3. Cardinality(Irregular) \in Nat
      <4>1. Irregular \subseteq Pbft!Nodes
        BY DEF Irregular
      <4>2. QED
        BY <1>2, <4>1, SomeNodes
    <3>4. QED
      BY <1>2, <1>4, <1>6, <3>1, <3>2, <3>3
  <2>2. QED
    BY <1>5, <2>1 DEF FakeInv
<1>10. ASSUME NEW n \in Pbft!Nodes, Regular(n) PROVE Regular(n)'
  <2>1. Cardinality(Byzantines \ FakeOnTheWay) \in Nat
        /\ Cardinality(Byzantines' \ FakeOnTheWay') \in Nat
        /\ Cardinality(Byzantines \ FakeOnTheWay) <= Cardinality(Byzantines' \ FakeOnTheWay')
    <3>1. \A k \in FakeOnTheWay' : k \in FakeOnTheWay
      BY <1>3 DEF FakeOnTheWay
    <3>2. QED
      BY <1>2, <1>4, <3>1, FewerOnTheWay
  <2>2. CASE n \in Replying
    BY <1>3, <1>4, <2>2 DEF Regular, Awaiting
  <2>3. CASE n \notin Replying
    <3>1. /\ pbftNode'[n].state = pbftNode[n].state
          /\ pbftNode'[n].prepares[Fake] = pbftNode[n].prepares[Fake]
          /\ pbftNode[n].prepares[Fake] \in Nat
      BY <1>4, <2>3
    <3>2. QED
      BY <1>3, <1>10, <2>1, <3>1 DEF Regular
  <2>4. QED
    BY <2>2, <2>3
<1>11. Calm
  BY <1>1, <1>3, <1>4, <1>8, <1>9, <1>10 DEF Calm, W
<1>12. QED
  BY <1>11, FakeCalm

LEMMA FakeInjected ==
    ASSUME BftFew, BftTypeInv, InRounds, FakeInv, NEW x \in Pbft!Nodes,
           NEW b \in {"ignore", "equivocate"}, Pbft!InjectFault(x, b)
    PROVE  FakeInv'
<1>1. byzantine' = byzantine + 1 /\ pbftQueue' = pbftQueue /\ committed' = committed
  BY DEF Pbft!InjectFault
<1>2. /\ Pbft!PbftAssumption /\ byzantine \in Nat /\ Byzantines \subseteq Pbft!Nodes
      /\ IsFiniteSet(Byzantines)
      /\ Cardinality(Byzantines) \in Nat /\ Cardinality(Byzantines) <= byzantine
  BY ByzantinesFew
<1>3. ASSUME NEW n \in Pbft!Nodes
      PROVE  /\ pbftNode'[n].state = pbftNode[n].state
             /\ pbftNode'[n].byz = IF n = x THEN b ELSE pbftNode[n].byz
             /\ pbftNode'[n].prepares = pbftNode[n].prepares
             /\ pbftNode'[n].commits = pbftNode[n].commits
             /\ pbftNode[n].prepares[Fake] \in Nat
  BY <1>2, InjectsAt, FakeVotesMany, ZenonT(60)
<1>4. Byzantines' \subseteq Byzantines \cup {x} /\ Byzantines \subseteq Byzantines'
  BY <1>3 DEF Byzantines, Pbft!Nodes
<1>5. Cardinality(Byzantines') <= byzantine + 1
  BY <1>2, <1>4, OneMoreAtMost
<1>6. /\ Proposed' = Proposed /\ Preparers' = Preparers /\ FakeOnTheWay' = FakeOnTheWay
  BY <1>1 DEF Proposed, Preparers, FakeOnTheWay
<1>7. /\ Cardinality(Byzantines \ FakeOnTheWay) \in Nat
      /\ Cardinality(Byzantines' \ FakeOnTheWay') \in Nat
      /\ Cardinality(Byzantines \ FakeOnTheWay) <= Cardinality(Byzantines' \ FakeOnTheWay')
  <2>1. \A n \in Pbft!Nodes : pbftNode'[n].byz = "honest" => pbftNode[n].byz = "honest"
    BY <1>3
  <2>2. QED
    BY <1>2, <1>6, <2>1, FewerOnTheWay
<1>8. ASSUME NEW n \in Pbft!Nodes, n \notin {x}, Regular(n) PROVE Regular(n)'
  <2>1. Pbft!Deaf(n)' = Pbft!Deaf(n)
    BY <1>3, <1>8 DEF Pbft!Deaf
  <2>2. QED
    BY <1>3, <1>6, <1>7, <1>8, <2>1 DEF Regular
<1>9. Irregular' \subseteq Irregular \cup {x} /\ Irregular \subseteq Pbft!Nodes
  BY <1>2, <1>8, FewerIrregular
<1>10. Cardinality(Irregular') <= Cardinality(Irregular) + 1
       /\ Cardinality(Irregular) \in Nat /\ Cardinality(Irregular') \in Nat
  <2>1. IsFiniteSet(Irregular) /\ Cardinality(Irregular) \in Nat
    BY <1>2, <1>9, SomeNodes
  <2>2. QED
    BY <1>9, <2>1, OneMoreAtMost
<1>11. ASSUME NEW n \in Pbft!Nodes PROVE FakeVotes(n)' + Cardinality(Irregular') <= byzantine'
  <2>1. FakeVotes(n)' = FakeVotes(n)
    BY <1>1, <1>3 DEF FakeVotes
  <2>2. FakeVotes(n) \in Nat /\ FakeVotes(n) + Cardinality(Irregular) <= byzantine
    BY <1>2, FakeVotesMany DEF FakeInv
  <2>3. QED
    BY <1>1, <1>2, <1>10, <2>1, <2>2
<1>12. \A n \in Proposed' : pbftNode'[n].state = "idle"
  <2> SUFFICES ASSUME NEW n \in Proposed' PROVE pbftNode'[n].state = "idle"
    OBVIOUS
  <2>1. n \in Proposed /\ n \in Pbft!Nodes
    BY <1>6, ProposedNodes
  <2>2. QED
    BY <1>3, <2>1 DEF FakeInv
<1>13. VotersIn(pbftQueue', "PREPARE", Fake) \subseteq Byzantines'
  BY <1>1, <1>4 DEF FakeInv
<1>14. Fake \notin committed'
  BY <1>1 DEF FakeInv
<1>15. QED
  BY <1>1, <1>5, <1>11, <1>12, <1>13, <1>14 DEF FakeInv, Pbft!Nodes

LEMMA FakeUntouched ==
    ASSUME FakeInv, UNCHANGED <<pbftNode, pbftQueue, byzantine, committed>>
    PROVE  FakeInv'
<1>1. /\ Byzantines' = Byzantines /\ Proposed' = Proposed /\ Preparers' = Preparers
      /\ FakeOnTheWay' = FakeOnTheWay
  BY DEF Byzantines, Proposed, Preparers, FakeOnTheWay, Pbft!Nodes
<1>2. \A n : Regular(n)' = Regular(n) /\ FakeVotes(n)' = FakeVotes(n)
  BY <1>1 DEF Regular, FakeVotes, Pbft!Deaf
<1>3. Irregular' = Irregular
  BY <1>2 DEF Irregular, Pbft!Nodes
<1>4. QED
  BY <1>1, <1>2, <1>3 DEF FakeInv, Pbft!Nodes

-----------------------------------------------------------------------------
(***************************************************************************)
(* PbftSim: a request without faults.  What each node has counted follows  *)
(* from whose messages are still to come.                                  *)
(***************************************************************************)
BftEnough == BftFew /\ BftNodes >= 4

AllOf(d) == \A i \in DOMAIN pbftQueue : pbftQueue[i].digest = d /\ pbftQueue[i].seq = seq

HasEnough(S, n) == Cardinality(S \cup {n}) >= Pbft!Threshold

Finished(n) ==
    /\ pbftNode[n].state = "idle" /\ pbftNode[n].done = seq
    /\ \A e \in Pbft!Digests : pbftNode[n].prepares[e] = 0

Settled ==
    /\ pbftQueue = <<>> /\ pending = 0 /\ committed = asked
    /\ \A n \in Pbft!Nodes : Finished(n)

(* The nodes whose PREPARE the others have counted; p made the proposal.   *)
Heard(p) == Pbft!Nodes \ (Proposed \cup Preparers \cup {p})

Unstarted(d, n) ==
    /\ pbftNode[n].state = "idle" /\ n \notin Closers
    /\ pbftNode[n].prepares[d] = 0 /\ pbftNode[n].commits[d] = 0

Started(S, d, n) ==
    /\ pbftNode[n].prepares[d] = Cardinality(S \cup {n})
    /\ pbftNode[n].state \in Awaiting \cup {"commit"}
    /\ pbftNode[n].state = "commit" <=> HasEnough(S, n)
    /\ n \in Closers <=> HasEnough(S, n)
    /\ pbftNode[n].commits[d] = IF HasEnough(S, n) THEN 1 ELSE 0

Preparing(d, p) ==
    /\ AllOf(d) /\ d \in asked /\ pending = 1 /\ committed \cup {d} = asked
    /\ Proposed \cup Preparers # {} /\ p \notin Proposed \cup Preparers
    /\ Proposed # {} => Heard(p) = {}
    /\ \A n \in Proposed : Unstarted(d, n)
    /\ \A n \in Pbft!Nodes : n \notin Proposed => Started(Heard(p), d, n)

(* The nodes whose COMMIT the others have counted.                         *)
CommitsHeard == Pbft!Nodes \ Closers

Finishing(S, d, n) ==
    /\ HasEnough(S, n) => Finished(n)
    /\ ~HasEnough(S, n) =>
           pbftNode[n].state = "commit" /\ pbftNode[n].commits[d] = Cardinality(S \cup {n})

SomeDone == \E n \in Pbft!Nodes : pbftNode[n].state = "idle"

Closing(d) ==
    /\ AllOf(d) /\ d \in asked
    /\ Proposed = {} /\ Preparers = {} /\ Closers # {}
    /\ SomeDone => pending = 0 /\ committed = asked
    /\ ~SomeDone => pending = 1 /\ committed \cup {d} = asked
    /\ \A n \in Pbft!Nodes : Finishing(CommitsHeard, d, n)

SmoothInv ==
    byzantine = 0 =>
        /\ \/ Settled
           \/ \E d \in Payloads, p \in Pbft!Nodes : Preparing(d, p)
           \/ \E d \in Payloads : Closing(d)
        /\ \A n \in Pbft!Nodes, d \in Payloads : d \notin asked => pbftNode[n].commits[d] = 0

LEMMA AllHonest ==
    ASSUME BftFew, BftTypeInv, FakeInv, byzantine = 0, NEW n \in Pbft!Nodes
    PROVE  pbftNode[n].byz = "honest" /\ ~Pbft!Deaf(n)
<1>1. Cardinality(Byzantines) = 0 /\ IsFiniteSet(Byzantines)
  BY ByzantinesFew
<1>2. Byzantines = {}
  BY <1>1, FS_EmptySet
<1>3. pbftNode[n].byz = "honest"
  BY <1>2 DEF Byzantines
<1>4. QED
  BY <1>3 DEF Pbft!Deaf

LEMMA AllOfMore ==
    ASSUME NEW q \in Seq(BftMessages), NEW r \in Seq(BftMessages), NEW d, NEW k, q # <<>>,
           \A i \in DOMAIN q : q[i].digest = d /\ q[i].seq = k,
           \A i \in DOMAIN r : r[i].digest = d /\ r[i].seq = k
    PROVE  /\ Head(q).digest = d /\ Head(q).seq = k
           /\ \A i \in DOMAIN (Tail(q) \o r) :
                  (Tail(q) \o r)[i].digest = d /\ (Tail(q) \o r)[i].seq = k
<1>1. 1 \in DOMAIN q /\ Head(q) = q[1] /\ Tail(q) \in Seq(BftMessages)
  OBVIOUS
<1>2. \A i \in DOMAIN Tail(q) : Tail(q)[i].digest = d /\ Tail(q)[i].seq = k
  <2> TAKE i \in DOMAIN Tail(q)
  <2>1. i + 1 \in DOMAIN q /\ Tail(q)[i] = q[i + 1]
    OBVIOUS
  <2>2. QED
    BY <2>1
<1> DEFINE t == Tail(q)
<1>3. t \in Seq(BftMessages) /\ \A i \in DOMAIN t : t[i].digest = d /\ t[i].seq = k
  BY <1>1, <1>2
<1> HIDE DEF t
<1>4. ASSUME NEW i \in DOMAIN (t \o r)
      PROVE  \/ i \in DOMAIN t /\ (t \o r)[i] = t[i]
             \/ i - Len(t) \in DOMAIN r /\ (t \o r)[i] = r[i - Len(t)]
  BY <1>3
<1>5. \A i \in DOMAIN (t \o r) : (t \o r)[i].digest = d /\ (t \o r)[i].seq = k
  BY <1>3, <1>4
<1>6. QED
  BY <1>1, <1>5 DEF t

LEMMA OneAdded ==
    ASSUME Pbft!PbftAssumption, NEW S, S \subseteq Pbft!Nodes, NEW s \in Pbft!Nodes, s \notin S,
           NEW n \in Pbft!Nodes
    PROVE  /\ Cardinality(S \cup {n}) \in Nat
           /\ n = s => Cardinality((S \cup {s}) \cup {n}) = Cardinality(S \cup {n})
           /\ n # s => Cardinality((S \cup {s}) \cup {n}) = Cardinality(S \cup {n}) + 1
<1> DEFINE A == S \cup {n}  B == (S \cup {s}) \cup {n}
<1>1. A \subseteq Pbft!Nodes /\ B = A \cup {s} /\ (n = s => B = A) /\ (n # s => s \notin A)
  OBVIOUS
<1> HIDE DEF A, B
<1>2. Cardinality(A) \in Nat /\ (s \notin A => Cardinality(A \cup {s}) = Cardinality(A) + 1)
  BY <1>1, SomeNodes
<1>3. QED
  BY <1>1, <1>2 DEF A, B

LEMMA SmallSets ==
    ASSUME BftEnough, NEW n \in Pbft!Nodes
    PROVE  /\ Pbft!PbftAssumption /\ Pbft!Threshold \in Nat /\ Pbft!Threshold >= 3
           /\ Cardinality({} \cup {n}) = 1 /\ ~HasEnough({}, n)
           /\ \A p \in Pbft!Nodes : HasEnough(Pbft!Nodes \ {p}, n)
           /\ HasEnough(Pbft!Nodes, n)
           /\ \A p \in Pbft!Nodes : Pbft!Nodes \ {p} # {}
<1>1. Pbft!PbftAssumption /\ BftNodes >= 4 /\ BftNodes \in Nat
  BY DEF BftEnough, BftFew, Pbft!PbftAssumption
<1>2. Pbft!Threshold \in Nat /\ Pbft!Threshold >= 3 /\ Pbft!Threshold <= BftNodes - 1
  BY <1>1, BftThreshold
<1>3. {} \cup {n} = {n} /\ Cardinality({n}) = 1
  BY FS_Singleton
<1>4. Cardinality(Pbft!Nodes) = BftNodes
  BY <1>1, FS_Interval DEF Pbft!Nodes
<1>5. ASSUME NEW p \in Pbft!Nodes
      PROVE  HasEnough(Pbft!Nodes \ {p}, n) /\ Pbft!Nodes \ {p} # {}
  <2> DEFINE A == Pbft!Nodes \ {p}  B == A \cup {n}
  <2>1. Cardinality(A) = BftNodes - 1
    BY <1>1, <1>4, SomeNodes
  <2>2. B \subseteq Pbft!Nodes /\ A \in SUBSET B
    OBVIOUS
  <2>3. A # {}
    BY <1>1, <2>1, FS_EmptySet
  <2> HIDE DEF A, B
  <2>4. Cardinality(A) <= Cardinality(B) /\ Cardinality(B) \in Nat
    BY <1>1, <2>2, SomeNodes
  <2>5. Cardinality(B) >= Pbft!Threshold
    BY <1>1, <1>2, <2>1, <2>4
  <2>6. QED
    BY <2>3, <2>5 DEF A, B, HasEnough
<1>6. HasEnough(Pbft!Nodes, n)
  <2>1. Pbft!Nodes \cup {n} = Pbft!Nodes
    OBVIOUS
  <2>2. QED
    BY <1>1, <1>2, <1>4, <2>1, SMTT(40) DEF HasEnough
<1>7. ~HasEnough({}, n) /\ Cardinality({} \cup {n}) = 1
  BY <1>2, <1>3 DEF HasEnough
<1>8. QED
  BY <1>1, <1>2, <1>5, <1>6, <1>7

LEMMA SettledWhenEmpty ==
    ASSUME SmoothInv, byzantine = 0, pbftQueue = <<>>
    PROVE  Settled
<1>1. \A t : Those(pbftQueue, t) = {}
  BY EmptyQueue
<1>2. Proposed = {} /\ Preparers = {} /\ Closers = {}
  BY <1>1 DEF Proposed, Preparers, Closers
<1>3. QED
  BY <1>2 DEF SmoothInv, Preparing, Closing

LEMMA EmptyWhenNone ==
    ASSUME NEW q \in Seq(BftMessages), Those(q, "PRE-PREPARE") = {}, Those(q, "PREPARE") = {},
           Those(q, "COMMIT") = {}
    PROVE  q = <<>>
<1>1. ASSUME q # <<>> PROVE FALSE
  <2>1. 1 \in DOMAIN q /\ q[1] \in BftMessages
    BY <1>1
  <2>2. Who(q[1]) \in Those(q, q[1].type)
    BY <2>1 DEF Those
  <2>3. q[1].type \in {"PRE-PREPARE", "PREPARE", "COMMIT"}
    BY <2>1 DEF BftMessages
  <2>4. QED
    BY <2>2, <2>3
<1>2. QED
  BY <1>1

LEMMA SmoothSubmitted ==
    ASSUME BftEnough, BftTypeInv, InRounds, FakeInv, SmoothInv,
           NEW x \in Payloads, Pbft!SubmitRequest(x), ~overlapped'
    PROVE  SmoothInv'
<1> SUFFICES ASSUME byzantine' = 0
             PROVE  /\ \E d \in Payloads, p \in Pbft!Nodes : Preparing(d, p)'
                    /\ \A n \in Pbft!Nodes, d \in Payloads :
                           d \notin asked' => pbftNode'[n].commits[d] = 0
  BY DEF SmoothInv, Pbft!Nodes
<1> DEFINE p == Pbft!Primary
<1>1. /\ pbftQueue = <<>> /\ x \notin asked
      /\ asked' = asked \cup {x} /\ committed' = committed /\ byzantine = 0
      /\ pending' = pending + 1
  BY DEF Pbft!SubmitRequest, Pbft!Through
<1>2. Pbft!PbftAssumption /\ BftFew
  BY DEF BftEnough, BftFew
<1>3. Settled
  BY <1>1, SettledWhenEmpty
<1>4. p \in Pbft!Nodes
  <2>1. BftNodes \in Nat \ {0} /\ view \in Nat
    BY <1>2, BftTyped DEF BftTypeInv, Pbft!PbftAssumption
  <2>2. view % BftNodes \in 0 .. BftNodes - 1
    BY <2>1
  <2>3. QED
    BY <2>1, <2>2 DEF Pbft!Primary, Pbft!Nodes
<1>5. ~Pbft!Deaf(p)
  BY <1>1, <1>2, <1>4, AllHonest
<1>6. x \in Pbft!Digests
  BY DEF Pbft!Digests
<1>7. /\ Proposed' = Pbft!Nodes \ {p} /\ Preparers' = {} /\ Closers' = {}
  BY <1>1, <1>2, <1>5, SubmitsQueue
<1>8. AllOf(x)'
  <2>1. /\ pbftQueue' = pbftQueue \o Proposals(x) /\ Proposals(x) \in Seq(BftMessages)
        /\ \A i \in DOMAIN Proposals(x) :
               Proposals(x)[i].digest = x /\ Proposals(x)[i].seq = seq'
    BY <1>2, <1>5, BftSubmits DEF BftTypeInv
  <2>2. pbftQueue' = Proposals(x)
    BY <1>1, <2>1
  <2>3. QED
    BY <2>1, <2>2 DEF AllOf
<1>9. ASSUME NEW n \in Pbft!Nodes, NEW e \in Pbft!Digests
      PROVE  /\ pbftNode'[n].state = IF n = p THEN "pre-prepare" ELSE pbftNode[n].state
             /\ pbftNode'[n].prepares[e] = IF n = p /\ e = x THEN 1 ELSE pbftNode[n].prepares[e]
             /\ pbftNode'[n].commits[e] = IF n = p THEN 0 ELSE pbftNode[n].commits[e]
  BY <1>2, <1>5, SubmitsAt
<1>10. \A n \in Pbft!Nodes, d \in Payloads : d \notin asked => pbftNode[n].commits[d] = 0
  BY <1>1 DEF SmoothInv
<1>11. ASSUME NEW c \in Pbft!Nodes, c = p
       PROVE  Preparing(x, c)'
  <2> HIDE DEF p
  <2>1. Heard(c)' = {}
    BY <1>7, <1>11 DEF Heard, Pbft!Nodes
  <2>2. Proposed' # {} /\ c \notin Proposed' \cup Preparers'
    BY <1>4, <1>7, <1>11, SmallSets
  <2>3. ASSUME NEW n \in Proposed' PROVE Unstarted(x, n)'
    <3>1. n \in Pbft!Nodes /\ n # p
      BY <1>7
    <3>2. pbftNode[n].state = "idle" /\ pbftNode[n].prepares[x] = 0
      BY <1>3, <1>6, <3>1 DEF Settled, Finished
    <3>3. pbftNode[n].commits[x] = 0
      BY <1>1, <1>10, <3>1
    <3>4. /\ pbftNode'[n].state = "idle"
          /\ pbftNode'[n].prepares[x] = 0 /\ pbftNode'[n].commits[x] = 0
      BY <1>6, <1>9, <3>1, <3>2, <3>3
    <3>5. QED
      BY <1>7, <3>4 DEF Unstarted
  <2>4. ASSUME NEW n \in Pbft!Nodes, n \notin Proposed' PROVE Started(Heard(c), x, n)'
    <3>1. n = p
      BY <1>7, <2>4
    <3>2. /\ pbftNode'[n].state = "pre-prepare" /\ pbftNode'[n].prepares[x] = 1
          /\ pbftNode'[n].commits[x] = 0
      BY <1>6, <1>9, <3>1
    <3>3. Cardinality({} \cup {n}) = 1 /\ ~HasEnough({}, n)
      BY SmallSets
    <3>4. Cardinality(Heard(c)' \cup {n}) = 1 /\ ~HasEnough(Heard(c), n)'
      BY <2>1, <3>3 DEF HasEnough, Pbft!Threshold
    <3>5. QED
      BY <1>7, <3>2, <3>4 DEF Started, Awaiting
  <2>5. pending' = 1 /\ committed' \cup {x} = asked' /\ x \in asked'
    BY <1>1, <1>3 DEF Settled
  <2>6. QED
    BY <1>8, <2>1, <2>2, <2>3, <2>4, <2>5 DEF Preparing, Pbft!Nodes
<1>12. \A n \in Pbft!Nodes, d \in Payloads : d \notin asked' => pbftNode'[n].commits[d] = 0
  BY <1>1, <1>9, <1>10 DEF Pbft!Digests
<1>13. QED
  BY <1>4, <1>11, <1>12

LEMMA SmoothPrepared ==
    ASSUME BftEnough, BftTypeInv, InRounds, FakeInv, SmoothInv, Pbft!HandlePrePrepare
    PROVE  SmoothInv'
<1> SUFFICES ASSUME byzantine' = 0
             PROVE  /\ \E d \in Payloads, p \in Pbft!Nodes : Preparing(d, p)'
                    /\ \A n \in Pbft!Nodes, d \in Payloads :
                           d \notin asked' => pbftNode'[n].commits[d] = 0
  BY DEF SmoothInv, Pbft!Nodes
<1> DEFINE k == Pbft!Next1.to  x == Pbft!Next1.digest
<1>1. UNCHANGED <<seq, pending, committed, asked>> /\ byzantine = 0
  BY DEF Pbft!HandlePrePrepare, Pbft!observers
<1>2. Pbft!PbftAssumption /\ BftFew
  BY DEF BftEnough, BftFew
<1>3. /\ k \in Pbft!Nodes /\ k \in Proposed /\ k \notin Preparers /\ Closers = {}
      /\ Proposed' = Proposed \ {k} /\ Closers' = {}
      /\ ~Pbft!Deaf(k) => Preparers' = Preparers \cup {k}
  <2>1. k = Pbft!Next1.to
    OBVIOUS
  <2>2. QED
    BY <1>2, <2>1, PreparesQueue
<1>4. ~Pbft!Deaf(k) /\ pbftNode[k].byz = "honest"
  BY <1>1, <1>2, <1>3, AllHonest
<1>5. PICK d \in Payloads, p \in Pbft!Nodes : Preparing(d, p)
  <2>1. pbftQueue # <<>>
    BY DEF Pbft!HandlePrePrepare, Pbft!Handle
  <2>2. QED
    BY <1>1, <1>3, <2>1 DEF SmoothInv, Settled, Closing
<1>6. d \in Pbft!Digests
  BY DEF Pbft!Digests
<1>7. x = d /\ AllOf(d)'
  <2>1. PICK m \in BftMessages : /\ pbftQueue' = Tail(pbftQueue) \o <<m>>
                                 /\ m.seq = Pbft!Next1.seq /\ m.digest = x
    BY <1>2, <1>4, BftPrepares DEF BftTypeInv
  <2>2. pbftQueue \in Seq(BftMessages) /\ pbftQueue # <<>>
    BY <1>2, BftPrepares, BftTyped DEF BftTypeInv
  <2>3. \A i \in DOMAIN pbftQueue : pbftQueue[i].digest = d /\ pbftQueue[i].seq = seq
    BY <1>5 DEF Preparing, AllOf
  <2>4. x = d /\ Pbft!Next1.seq = seq
    <3>1. 1 \in DOMAIN pbftQueue /\ Pbft!Next1 = pbftQueue[1]
      BY <2>2 DEF Pbft!Next1
    <3>2. QED
      BY <2>3, <3>1
  <2> DEFINE r == <<m>>
  <2>5. r \in Seq(BftMessages) /\ \A i \in DOMAIN r : r[i].digest = d /\ r[i].seq = seq
    BY <2>1, <2>4
  <2>6. pbftQueue' = Tail(pbftQueue) \o r
    BY <2>1
  <2> HIDE DEF r
  <2>7. \A i \in DOMAIN pbftQueue' : pbftQueue'[i].digest = d /\ pbftQueue'[i].seq = seq
    BY <2>2, <2>3, <2>5, <2>6, AllOfMore
  <2>8. QED
    BY <1>1, <2>4, <2>7 DEF AllOf
<1>8. ASSUME NEW n \in Pbft!Nodes, NEW e \in Pbft!Digests
      PROVE  /\ pbftNode'[n].state = IF n = k THEN "prepare" ELSE pbftNode[n].state
             /\ pbftNode'[n].prepares[e] = IF n = k /\ e = d THEN pbftNode[n].prepares[e] + 1
                                           ELSE pbftNode[n].prepares[e]
             /\ pbftNode'[n].commits[e] = pbftNode[n].commits[e]
  BY <1>2, <1>4, <1>7, PreparesAt
<1> HIDE DEF k, x
<1>9. Heard(p) = {} /\ Heard(p)' = {}
  BY <1>3, <1>4, <1>5 DEF Preparing, Heard, Pbft!Nodes
<1>10. ASSUME NEW n \in Proposed' PROVE Unstarted(d, n)'
  <2>1. n \in Proposed /\ n # k /\ n \in Pbft!Nodes
    BY <1>3, ProposedNodes
  <2>2. Unstarted(d, n)
    BY <1>5, <2>1 DEF Preparing
  <2>3. QED
    BY <1>3, <1>6, <1>8, <2>1, <2>2 DEF Unstarted
<1>11. ASSUME NEW n \in Pbft!Nodes, n \notin Proposed' PROVE Started(Heard(p), d, n)'
  <2>1. /\ Heard(p)' \cup {n} = {} \cup {n} /\ Cardinality({} \cup {n}) = 1
        /\ ~HasEnough({}, n)
    BY <1>9, SmallSets
  <2>2. Cardinality(Heard(p)' \cup {n}) = 1 /\ ~HasEnough(Heard(p), n)'
    BY <2>1 DEF HasEnough, Pbft!Threshold
  <2>3. CASE n = k
    <3>1. Unstarted(d, n)
      BY <1>3, <1>5, <2>3 DEF Preparing
    <3>2. /\ pbftNode'[n].state = "prepare" /\ pbftNode'[n].prepares[d] = 1
          /\ pbftNode'[n].commits[d] = 0
      BY <1>6, <1>8, <2>3, <3>1 DEF Unstarted
    <3>3. QED
      BY <1>3, <2>2, <3>2 DEF Started, Awaiting
  <2>4. CASE n # k
    <3>1. Started(Heard(p), d, n)
      BY <1>3, <1>5, <1>11, <2>4 DEF Preparing
    <3>2. ~HasEnough(Heard(p), n) /\ Cardinality(Heard(p) \cup {n}) = 1
      BY <1>9, <2>1 DEF HasEnough
    <3>3. /\ pbftNode[n].prepares[d] = 1 /\ pbftNode[n].state \in Awaiting
          /\ pbftNode[n].commits[d] = 0
      BY <3>1, <3>2 DEF Started
    <3>4. /\ pbftNode'[n].prepares[d] = 1 /\ pbftNode'[n].state \in Awaiting
          /\ pbftNode'[n].commits[d] = 0
      BY <1>6, <1>8, <2>4, <3>3
    <3>5. "commit" \notin Awaiting
      BY DEF Awaiting
    <3>6. QED
      BY <1>3, <2>2, <3>4, <3>5 DEF Started
  <2>5. QED
    BY <2>3, <2>4
<1>12. Proposed' \cup Preparers' # {} /\ p \notin Proposed' \cup Preparers'
  BY <1>3, <1>4, <1>5 DEF Preparing
<1>13. Preparing(d, p)'
  BY <1>1, <1>5, <1>7, <1>9, <1>10, <1>11, <1>12 DEF Preparing, Pbft!Nodes
<1>14. \A n \in Pbft!Nodes, e \in Payloads : e \notin asked' => pbftNode'[n].commits[e] = 0
  BY <1>1, <1>8 DEF SmoothInv, Pbft!Digests
<1>15. QED
  BY <1>13, <1>14

LEMMA SmoothCounted ==
    ASSUME BftEnough, BftTypeInv, InRounds, FakeInv, SmoothInv, Pbft!HandlePrepare
    PROVE  SmoothInv'
<1> SUFFICES ASSUME byzantine' = 0
             PROVE  /\ \/ \E d \in Payloads, p \in Pbft!Nodes : Preparing(d, p)'
                       \/ \E d \in Payloads : Closing(d)'
                    /\ \A n \in Pbft!Nodes, d \in Payloads :
                           d \notin asked' => pbftNode'[n].commits[d] = 0
  BY DEF SmoothInv, Pbft!Nodes
<1> DEFINE s == Pbft!Next1.from  x == Pbft!Next1.digest
<1>1. UNCHANGED <<seq, pending, committed, asked>> /\ byzantine = 0
  BY DEF Pbft!HandlePrepare
<1>2. Pbft!PbftAssumption /\ BftFew
  BY DEF BftEnough, BftFew
<1>3. /\ InRounds' /\ Proposed = {} /\ Proposed' = {} /\ s \in Preparers
      /\ Preparers' = Preparers \ {s} /\ Closers' = Closers \cup Committing
      /\ s \in Pbft!Nodes
  <2>1. pbftQueue # <<>>
    BY DEF Pbft!HandlePrepare, Pbft!Handle
  <2>2. s \in Pbft!Nodes
    BY <2>1, BftHead DEF BftTypeInv, Pbft!Next1
  <2>3. QED
    BY <1>2, <2>2, CountsQueue
<1>4. PICK d \in Payloads, p \in Pbft!Nodes : Preparing(d, p)
  <2>1. pbftQueue # <<>>
    BY DEF Pbft!HandlePrepare, Pbft!Handle
  <2>2. QED
    BY <1>1, <1>3, <2>1 DEF SmoothInv, Settled, Closing
<1>5. d \in Pbft!Digests
  BY DEF Pbft!Digests
<1>6. x = d /\ AllOf(d)'
  <2>1. PICK r \in Seq(BftMessages) :
            /\ pbftQueue' = Tail(pbftQueue) \o r
            /\ \A i \in DOMAIN r : r[i].digest = x /\ r[i].seq = Pbft!Next1.seq
    BY <1>2, BftCounts DEF BftTypeInv
  <2>2. pbftQueue \in Seq(BftMessages) /\ pbftQueue # <<>>
    BY <1>2, BftCounts, BftTyped DEF BftTypeInv
  <2>3. \A i \in DOMAIN pbftQueue : pbftQueue[i].digest = d /\ pbftQueue[i].seq = seq
    BY <1>4 DEF Preparing, AllOf
  <2>4. x = d /\ Pbft!Next1.seq = seq
    <3>1. 1 \in DOMAIN pbftQueue /\ Pbft!Next1 = pbftQueue[1]
      BY <2>2 DEF Pbft!Next1
    <3>2. QED
      BY <2>3, <3>1
  <2>5. \A i \in DOMAIN pbftQueue' : pbftQueue'[i].digest = d /\ pbftQueue'[i].seq = seq
    BY <2>1, <2>2, <2>3, <2>4, AllOfMore
  <2>6. QED
    BY <1>1, <2>4, <2>5 DEF AllOf
<1>7. ASSUME NEW n \in Pbft!Nodes, NEW e \in Pbft!Digests
      PROVE  /\ pbftNode[n].prepares[e] \in Nat /\ pbftNode[n].commits[e] \in Nat
             /\ n \in Arriving <=> n # s
             /\ n \in Committing <=>
                    /\ n \in Arriving /\ pbftNode[n].state \in Awaiting
                    /\ pbftNode[n].prepares[d] + 1 >= Pbft!Threshold
             /\ pbftNode'[n].state = IF n \in Committing THEN "commit"
                                     ELSE IF n \in Arriving /\ pbftNode[n].state = "pre-prepare"
                                          THEN "prepare" ELSE pbftNode[n].state
             /\ pbftNode'[n].prepares[e] =
                    IF n \in Arriving /\ e = d
                    THEN pbftNode[n].prepares[e] + 1 ELSE pbftNode[n].prepares[e]
             /\ pbftNode'[n].commits[e] =
                    IF n \in Committing /\ e = d
                    THEN pbftNode[n].commits[e] + 1 ELSE pbftNode[n].commits[e]
  <2>1. ~Pbft!Deaf(n)
    BY <1>1, <1>2, AllHonest
  <2>2. QED
    BY <1>2, <1>6, <2>1, CountsAt
<1> HIDE DEF s, x
<1>8. /\ Heard(p)' = Heard(p) \cup {s} /\ s \notin Heard(p) /\ Heard(p) \subseteq Pbft!Nodes
  BY <1>3, <1>4 DEF Preparing, Heard, Pbft!Nodes
<1>9. ASSUME NEW n \in Pbft!Nodes PROVE Started(Heard(p), d, n)'
  <2> DEFINE S == Heard(p)  c == Cardinality(S \cup {n})
  <2>1. Started(S, d, n)
    BY <1>3, <1>4 DEF Preparing
  <2>2. /\ c \in Nat
        /\ n = s => Cardinality((S \cup {s}) \cup {n}) = c
        /\ n # s => Cardinality((S \cup {s}) \cup {n}) = c + 1
    BY <1>2, <1>3, <1>8, OneAdded
  <2>3. Pbft!Threshold \in Nat /\ Pbft!Threshold >= 3 /\ Pbft!Threshold' = Pbft!Threshold
    BY SmallSets DEF Pbft!Threshold
  <2>4. Heard(p)' = S \cup {s}
    BY <1>8
  <2> DEFINE c2 == Cardinality(Heard(p)' \cup {n})
  <2>5. (n = s => c2 = c) /\ (n # s => c2 = c + 1)
    BY <2>2, <2>4
  <2>6. /\ pbftNode[n].prepares[d] = c /\ pbftNode[n].state \in Awaiting \cup {"commit"}
        /\ pbftNode[n].state = "commit" <=> c >= Pbft!Threshold
        /\ n \in Closers <=> c >= Pbft!Threshold
        /\ pbftNode[n].commits[d] = IF c >= Pbft!Threshold THEN 1 ELSE 0
    BY <2>1 DEF Started, HasEnough
  <2> HIDE DEF c, c2, S
  <2>7. /\ pbftNode'[n].prepares[d] = c2 /\ pbftNode'[n].state \in Awaiting \cup {"commit"}
        /\ pbftNode'[n].state = "commit" <=> c2 >= Pbft!Threshold
        /\ n \in Closers' <=> c2 >= Pbft!Threshold
        /\ pbftNode'[n].commits[d] = IF c2 >= Pbft!Threshold THEN 1 ELSE 0
    <3>1. CASE n = s
      BY <1>3, <1>5, <1>7, <2>5, <2>6, <3>1 DEF Awaiting
    <3>2. CASE n # s
      <4>1. n \in Committing <=> ~(c >= Pbft!Threshold) /\ c2 >= Pbft!Threshold
        BY <1>5, <1>7, <2>2, <2>3, <2>5, <2>6, <3>2 DEF Awaiting
      <4>2. c >= Pbft!Threshold => c2 >= Pbft!Threshold
        BY <2>2, <2>3, <2>5, <3>2
      <4>3. /\ n \in Arriving /\ pbftNode'[n].prepares[d] = c + 1
            /\ pbftNode'[n].state = IF n \in Committing THEN "commit"
                                    ELSE IF pbftNode[n].state = "pre-prepare"
                                         THEN "prepare" ELSE pbftNode[n].state
            /\ pbftNode'[n].commits[d] = IF n \in Committing
                                         THEN pbftNode[n].commits[d] + 1 ELSE pbftNode[n].commits[d]
        BY <1>5, <1>7, <2>6, <3>2
      <4>4. CASE n \in Committing
        BY <1>3, <2>5, <2>6, <3>2, <4>1, <4>2, <4>3, <4>4
      <4>5. CASE n \notin Committing
        BY <1>3, <2>5, <2>6, <3>2, <4>1, <4>2, <4>3, <4>5 DEF Awaiting
      <4>6. QED
        BY <4>4, <4>5
    <3>3. QED
      BY <3>1, <3>2
  <2>8. QED
    BY <2>3, <2>7 DEF Started, HasEnough, c2
<1>10. \A n \in Pbft!Nodes, e \in Payloads : e \notin asked' => pbftNode'[n].commits[e] = 0
  <2>1. d \in asked
    BY <1>4 DEF Preparing
  <2>2. QED
    BY <1>1, <1>7, <2>1 DEF SmoothInv, Pbft!Digests
<1>11. CASE Preparers' # {}
  <2>1. Preparing(d, p)'
    BY <1>1, <1>3, <1>4, <1>6, <1>9, <1>11 DEF Preparing, Pbft!Nodes
  <2>2. QED
    BY <1>10, <2>1
<1>12. CASE Preparers' = {}
  <2>1. Heard(p)' = Pbft!Nodes \ {p}
    BY <1>3, <1>12 DEF Heard, Pbft!Nodes
  <2>2. ASSUME NEW n \in Pbft!Nodes
        PROVE  n \in Closers' /\ pbftNode'[n].state = "commit" /\ pbftNode'[n].commits[d] = 1
    <3>1. HasEnough(Pbft!Nodes \ {p}, n)
      BY SmallSets
    <3>2. HasEnough(Heard(p), n)'
      BY <2>1, <3>1 DEF HasEnough, Pbft!Threshold
    <3>3. QED
      BY <1>9, <3>2 DEF Started
  <2>3. CommitsHeard' = {} /\ Closers' # {}
    BY <1>3, <2>2 DEF CommitsHeard, Pbft!Nodes
  <2>4. ASSUME NEW n \in Pbft!Nodes PROVE Finishing(CommitsHeard, d, n)'
    <3>1. Cardinality({} \cup {n}) = 1 /\ ~HasEnough({}, n)
      BY SmallSets
    <3>2. Cardinality(CommitsHeard' \cup {n}) = 1 /\ ~HasEnough(CommitsHeard, n)'
      BY <2>3, <3>1 DEF HasEnough, Pbft!Threshold
    <3>3. QED
      BY <2>2, <3>2 DEF Finishing
  <2>5. ~SomeDone'
    BY <2>2 DEF SomeDone, Pbft!Nodes
  <2>6. Closing(d)'
    BY <1>1, <1>3, <1>4, <1>6, <1>12, <2>3, <2>4, <2>5 DEF Closing, Preparing, Pbft!Nodes
  <2>7. QED
    BY <1>10, <2>6
<1>13. QED
  BY <1>11, <1>12

LEMMA SmoothClosed ==
    ASSUME BftEnough, BftTypeInv, InRounds, FakeInv, SmoothInv, Pbft!HandleCommit
    PROVE  SmoothInv'
<1> SUFFICES ASSUME byzantine' = 0
             PROVE  /\ Settled' \/ \E d \in Payloads : Closing(d)'
                    /\ \A n \in Pbft!Nodes, d \in Payloads :
                           d \notin asked' => pbftNode'[n].commits[d] = 0
  BY DEF SmoothInv, Pbft!Nodes
<1> DEFINE s == Pbft!Next1.from  x == Pbft!Next1.digest
<1>1. UNCHANGED <<seq, asked>> /\ byzantine = 0
  BY DEF Pbft!HandleCommit, Pbft!observers
<1>2. Pbft!PbftAssumption /\ BftFew
  BY DEF BftEnough, BftFew
<1>3. /\ InRounds' /\ Proposed = {} /\ Proposed' = {} /\ Preparers = {} /\ Preparers' = {}
      /\ s \in Closers /\ Closers' = Closers \ {s} /\ s \in Pbft!Nodes
  <2>1. pbftQueue # <<>>
    BY DEF Pbft!HandleCommit, Pbft!Handle
  <2>2. s \in Pbft!Nodes
    BY <2>1, BftHead DEF BftTypeInv, Pbft!Next1
  <2>3. QED
    BY <1>2, <2>2, ClosesQueue
<1>4. PICK d \in Payloads : Closing(d)
  <2>1. pbftQueue # <<>>
    BY DEF Pbft!HandleCommit, Pbft!Handle
  <2>2. QED
    BY <1>1, <1>3, <2>1 DEF SmoothInv, Settled, Preparing
<1>5. d \in Pbft!Digests
  BY DEF Pbft!Digests
<1>6. x = d /\ AllOf(d)' /\ Pbft!Next1.seq = seq /\ pbftQueue' \in Seq(BftMessages)
  <2>1. pbftQueue' = Tail(pbftQueue) /\ pbftQueue # <<>> /\ pbftQueue \in Seq(BftMessages)
    BY <1>2, BftCloses, BftTyped DEF BftTypeInv
  <2>2. \A i \in DOMAIN pbftQueue : pbftQueue[i].digest = d /\ pbftQueue[i].seq = seq
    BY <1>4 DEF Closing, AllOf
  <2>3. x = d /\ Pbft!Next1.seq = seq
    <3>1. 1 \in DOMAIN pbftQueue /\ Pbft!Next1 = pbftQueue[1]
      BY <2>1 DEF Pbft!Next1
    <3>2. QED
      BY <2>2, <3>1
  <2>4. Tail(pbftQueue) \in Seq(BftMessages)
    BY <2>1
  <2>5. \A i \in DOMAIN Tail(pbftQueue) :
            Tail(pbftQueue)[i].digest = d /\ Tail(pbftQueue)[i].seq = seq
    <3> TAKE i \in DOMAIN Tail(pbftQueue)
    <3>1. i + 1 \in DOMAIN pbftQueue /\ Tail(pbftQueue)[i] = pbftQueue[i + 1]
      BY <2>1
    <3>2. QED
      BY <2>2, <3>1
  <2>6. QED
    BY <1>1, <2>1, <2>3, <2>4, <2>5 DEF AllOf
<1>7. ASSUME NEW n \in Pbft!Nodes, NEW e \in Pbft!Digests
      PROVE  /\ pbftNode[n].prepares[e] \in Nat /\ pbftNode[n].commits[e] \in Nat
             /\ n \in Arriving <=> n # s
             /\ n \in Replying <=>
                    /\ n \in Arriving /\ pbftNode[n].state = "commit"
                    /\ pbftNode[n].commits[d] + 1 >= Pbft!Threshold
             /\ pbftNode'[n].state = IF n \in Replying THEN "idle" ELSE pbftNode[n].state
             /\ pbftNode'[n].done = IF n \in Replying THEN seq ELSE pbftNode[n].done
             /\ pbftNode'[n].prepares[e] = IF n \in Replying THEN 0 ELSE pbftNode[n].prepares[e]
             /\ pbftNode'[n].commits[e] =
                    IF n \in Replying THEN 0
                    ELSE IF n \in Arriving /\ e = d
                         THEN pbftNode[n].commits[e] + 1 ELSE pbftNode[n].commits[e]
  <2>1. ~Pbft!Deaf(n)
    BY <1>1, <1>2, AllHonest
  <2>2. QED
    BY <1>2, <1>6, <2>1, ClosesAt
<1>8. /\ committed' = IF Replying = {} THEN committed ELSE committed \cup {d}
      /\ Cardinality(Replying) \in Nat /\ Replying \subseteq Pbft!Nodes
      /\ pending' = IF pending > Cardinality(Replying) THEN pending - Cardinality(Replying) ELSE 0
  BY <1>2, <1>6, BftCloses DEF BftTypeInv
<1> HIDE DEF s, x
<1>9. /\ CommitsHeard' = CommitsHeard \cup {s} /\ s \notin CommitsHeard /\ CommitsHeard \subseteq Pbft!Nodes
  BY <1>3 DEF CommitsHeard, Pbft!Nodes
<1>10. ASSUME NEW n \in Pbft!Nodes PROVE Finishing(CommitsHeard, d, n)'
  <2> DEFINE S == CommitsHeard  c == Cardinality(S \cup {n})  c2 == Cardinality(CommitsHeard' \cup {n})
  <2>1. Finishing(S, d, n)
    BY <1>4 DEF Closing
  <2>2. /\ c \in Nat
        /\ n = s => Cardinality((S \cup {s}) \cup {n}) = c
        /\ n # s => Cardinality((S \cup {s}) \cup {n}) = c + 1
    BY <1>2, <1>3, <1>9, OneAdded
  <2>3. Pbft!Threshold \in Nat /\ Pbft!Threshold' = Pbft!Threshold
    BY SmallSets DEF Pbft!Threshold
  <2>4. (n = s => c2 = c) /\ (n # s => c2 = c + 1)
    BY <1>9, <2>2
  <2>5. /\ c >= Pbft!Threshold => Finished(n)
        /\ ~(c >= Pbft!Threshold) =>
               pbftNode[n].state = "commit" /\ pbftNode[n].commits[d] = c
    BY <2>1 DEF Finishing, HasEnough
  <2> HIDE DEF c, c2, S
  <2>6. /\ c2 >= Pbft!Threshold => Finished(n)'
        /\ ~(c2 >= Pbft!Threshold) =>
               pbftNode'[n].state = "commit" /\ pbftNode'[n].commits[d] = c2
    <3>1. CASE c >= Pbft!Threshold
      <4>1. n \notin Replying
        BY <1>5, <1>7, <2>5, <3>1 DEF Finished
      <4>2. Finished(n)'
        BY <1>1, <1>7, <2>5, <3>1, <4>1 DEF Finished, Pbft!Digests
      <4>3. c2 >= Pbft!Threshold
        BY <2>2, <2>3, <2>4, <3>1
      <4>4. QED
        BY <4>2, <4>3
    <3>2. CASE ~(c >= Pbft!Threshold) /\ n = s
      BY <1>5, <1>7, <2>4, <2>5, <3>2
    <3>3. CASE ~(c >= Pbft!Threshold) /\ n # s /\ c2 >= Pbft!Threshold
      <4>1. n \in Replying
        BY <1>5, <1>7, <2>4, <2>5, <3>3
      <4>2. QED
        BY <1>1, <1>5, <1>7, <3>3, <4>1 DEF Finished, Pbft!Digests
    <3>4. CASE ~(c >= Pbft!Threshold) /\ n # s /\ ~(c2 >= Pbft!Threshold)
      <4>1. n \notin Replying
        BY <1>5, <1>7, <2>4, <2>5, <3>4
      <4>2. QED
        BY <1>5, <1>7, <2>4, <2>5, <3>4, <4>1
    <3>5. QED
      BY <3>1, <3>2, <3>3, <3>4
  <2>7. QED
    BY <2>3, <2>6 DEF Finishing, HasEnough, c2
<1>11. /\ SomeDone' => pending' = 0 /\ committed' = asked'
       /\ ~SomeDone' => pending' = 1 /\ committed' \cup {d} = asked'
  <2>1. /\ d \in asked
        /\ SomeDone => pending = 0 /\ committed = asked
        /\ ~SomeDone => pending = 1 /\ committed \cup {d} = asked
    BY <1>4 DEF Closing
  <2>2. CASE Replying = {}
    <3>1. Cardinality(Replying) = 0
      BY <2>2, FS_EmptySet
    <3>2. pending' = pending /\ committed' = committed
      BY <1>8, <2>1, <2>2, <3>1
    <3>3. SomeDone' = SomeDone
      BY <1>5, <1>7, <2>2 DEF SomeDone, Pbft!Nodes
    <3>4. QED
      BY <1>1, <2>1, <3>2, <3>3
  <2>3. CASE Replying # {}
    <3>1. Cardinality(Replying) >= 1
      <4>1. IsFiniteSet(Replying)
        BY <1>2, <1>8, SomeNodes
      <4>2. Cardinality(Replying) # 0
        BY <2>3, <4>1, FS_EmptySet
      <4>3. QED
        BY <1>8, <4>2
    <3>2. pending' = 0 /\ committed' = asked
      BY <1>8, <2>1, <2>3, <3>1
    <3>3. SomeDone'
      BY <1>5, <1>7, <1>8, <2>3 DEF SomeDone, Pbft!Nodes
    <3>4. QED
      BY <1>1, <3>2, <3>3
  <2>4. QED
    BY <2>2, <2>3
<1>12. d \in asked
  BY <1>4 DEF Closing
<1>13. \A n \in Pbft!Nodes, e \in Payloads : e \notin asked' => pbftNode'[n].commits[e] = 0
  BY <1>1, <1>7, <1>12 DEF SmoothInv, Pbft!Digests
<1>14. CASE Closers' # {}
  <2>1. Closing(d)'
    BY <1>1, <1>3, <1>6, <1>10, <1>11, <1>12, <1>14 DEF Closing, Pbft!Nodes
  <2>2. QED
    BY <1>13, <2>1
<1>15. CASE Closers' = {}
  <2>1. CommitsHeard' = Pbft!Nodes
    BY <1>15 DEF CommitsHeard, Pbft!Nodes
  <2>2. ASSUME NEW n \in Pbft!Nodes PROVE Finished(n)'
    <3>1. HasEnough(Pbft!Nodes, n)
      BY SmallSets
    <3>2. HasEnough(CommitsHeard, n)'
      BY <2>1, <3>1 DEF HasEnough, Pbft!Threshold
    <3>3. QED
      BY <1>10, <3>2 DEF Finishing
  <2>3. pbftQueue' = <<>>
    BY <1>3, <1>6, <1>15, EmptyWhenNone DEF Proposed, Preparers, Closers
  <2>4. SomeDone'
    BY <1>3, <2>2 DEF SomeDone, Finished, Pbft!Nodes
  <2>5. Settled'
    BY <1>11, <2>2, <2>3, <2>4 DEF Settled, Pbft!Nodes
  <2>6. QED
    BY <1>13, <2>5
<1>16. QED
  BY <1>14, <1>15

LEMMA SmoothUntouched ==
    ASSUME SmoothInv,
           UNCHANGED <<pbftNode, pbftQueue, seq, pending, committed, asked, byzantine>>
    PROVE  SmoothInv'
<1>1. /\ Proposed' = Proposed /\ Preparers' = Preparers /\ Closers' = Closers
      /\ CommitsHeard' = CommitsHeard /\ SomeDone' = SomeDone
      /\ \A d : AllOf(d)' = AllOf(d)
      /\ \A n : Finished(n)' = Finished(n)
  BY DEF Proposed, Preparers, Closers, CommitsHeard, AllOf, Finished, Pbft!Nodes, Pbft!Digests, SomeDone
<1>2. /\ \A p : Heard(p)' = Heard(p)
      /\ \A S, n : HasEnough(S, n)' = HasEnough(S, n)
      /\ \A d, n : Unstarted(d, n)' = Unstarted(d, n)
  BY <1>1 DEF Heard, HasEnough, Unstarted, Pbft!Nodes, Pbft!Threshold
<1>3. ASSUME NEW d, NEW p, NEW n PROVE Started(Heard(p), d, n)' = Started(Heard(p), d, n)
  BY <1>1, <1>2 DEF Started, HasEnough, Pbft!Threshold
<1>4. ASSUME NEW d, NEW n PROVE Finishing(CommitsHeard, d, n)' = Finishing(CommitsHeard, d, n)
  BY <1>1, <1>2 DEF Finishing, HasEnough, Pbft!Threshold
<1>5. ASSUME NEW d, NEW p, Preparing(d, p) PROVE Preparing(d, p)'
  BY <1>1, <1>2, <1>3, <1>5 DEF Preparing, Pbft!Nodes
<1>6. ASSUME NEW d, Closing(d) PROVE Closing(d)'
  BY <1>1, <1>2, <1>4, <1>6 DEF Closing, Pbft!Nodes
<1>7. Settled => Settled'
  BY <1>1 DEF Settled, Pbft!Nodes
<1>8. QED
  BY <1>5, <1>6, <1>7 DEF SmoothInv, Pbft!Nodes

-----------------------------------------------------------------------------
(***************************************************************************)
(* PbftSim: the inductive invariant.                                       *)
(***************************************************************************)
BftInv ==
    /\ BftTypeInv
    /\ ~overlapped => InRounds /\ VotesInv /\ FakeInv /\ SmoothInv

LEMMA BftStarts ==
    ASSUME BftEnough, Pbft!Init
    PROVE  BftInv
<1>1. Pbft!PbftAssumption
  BY DEF BftEnough, BftFew
<1>2. BftTypeInv
  BY <1>1, BftTypeInit
<1>3. /\ pbftQueue = <<>> /\ pending = 0 /\ seq = 0 /\ committed = {} /\ asked = {}
      /\ byzantine = 0
      /\ \A d \in Pbft!Digests : committers[d] = {}
      /\ \A n \in Pbft!Nodes : /\ pbftNode[n].state = "idle" /\ pbftNode[n].done = 0
                               /\ pbftNode[n].byz = "honest"
                               /\ \A d \in Pbft!Digests : /\ pbftNode[n].prepares[d] = 0
                                                          /\ pbftNode[n].commits[d] = 0
  BY DEF Pbft!Init, Pbft!NoVotes
<1>4. /\ InPhases(pbftQueue) /\ OncePerPhase(pbftQueue)
      /\ Proposed = {} /\ Preparers = {} /\ Closers = {}
      /\ \A t, d : VotersIn(pbftQueue, t, d) = {}
  BY <1>3, EmptyQueue DEF Proposed, Preparers, Closers
<1>5. InRounds
  BY <1>4 DEF InRounds
<1>6. Cardinality({}) = 0 /\ \A S : S = {} => Cardinality(S) = 0
  BY FS_EmptySet
<1>7. VotesInv
  <2>1. \A d \in Payloads : d \in Pbft!Digests
    BY DEF Pbft!Digests
  <2>2. ASSUME NEW d \in Payloads
        PROVE  ~Busy(d) /\ AskedOnly(d) /\ CommitsOnce(d) /\ Backed(d)
    <3>1. committers[d] = {} /\ ~Busy(d)
      BY <1>3, <1>4, <2>1 DEF Busy
    <3>2. \A n \in Pbft!Nodes : CountedBy(n, d) = {}
      BY <3>1 DEF CountedBy
    <3>3. \A n \in Pbft!Nodes : pbftNode[n].commits[d] <= Cardinality(CountedBy(n, d))
      <4> SUFFICES ASSUME NEW n \in Pbft!Nodes
                   PROVE  pbftNode[n].commits[d] <= Cardinality(CountedBy(n, d))
        OBVIOUS
      <4>1. Cardinality(CountedBy(n, d)) = 0
        BY <1>6, <3>2
      <4>2. QED
        BY <1>3, <2>1, <4>1
    <3>4. QED
      BY <1>3, <1>4, <3>1, <3>3 DEF AskedOnly, CommitsOnce, Backed
  <2>3. QED
    BY <2>2 DEF VotesInv
<1>8. FakeInv
  <2>1. Byzantines = {}
    BY <1>3 DEF Byzantines
  <2>2. Irregular = {}
    <3>1. ASSUME NEW n \in Pbft!Nodes PROVE Regular(n)
      BY <1>3, <1>4 DEF Regular, Awaiting, Pbft!Digests
    <3>2. QED
      BY <3>1 DEF Irregular
  <2>3. ASSUME NEW n \in Pbft!Nodes PROVE FakeVotes(n) + Cardinality(Irregular) <= byzantine
    <3>1. VotersIn(pbftQueue, "COMMIT", Fake) \ {n} = {}
      BY <1>4
    <3>2. FakeVotes(n) = 0
      BY <1>3, <1>6, <3>1 DEF FakeVotes, Pbft!Digests
    <3>3. Cardinality(Irregular) = 0
      BY <1>6, <2>2
    <3>4. QED
      BY <1>3, <3>2, <3>3
  <2>4. Cardinality(Byzantines) <= byzantine
    <3>1. Cardinality(Byzantines) = 0
      BY <1>6, <2>1
    <3>2. QED
      BY <1>3, <3>1
  <2>5. QED
    BY <1>3, <1>4, <2>3, <2>4 DEF FakeInv
<1>9. SmoothInv
  <2>1. Settled
    BY <1>3 DEF Settled, Finished
  <2>2. QED
    BY <1>3, <2>1 DEF SmoothInv, Pbft!Digests
<1>10. QED
  BY <1>2, <1>5, <1>7, <1>8, <1>9 DEF BftInv

LEMMA BftRequested ==
    ASSUME BftEnough, BftInv, NEW d \in Payloads, Pbft!SubmitRequest(d), ~overlapped'
    PROVE  InRounds' /\ VotesInv' /\ FakeInv' /\ SmoothInv'
<1>1. /\ ~overlapped /\ pbftQueue = <<>>
      /\ \A n \in Pbft!Nodes : pbftNode[n].state = "idle"
  BY DEF Pbft!SubmitRequest, Pbft!Through
<1>2. Pbft!PbftAssumption /\ BftFew /\ BftTypeInv /\ InRounds /\ VotesInv /\ FakeInv /\ SmoothInv
  BY <1>1 DEF BftEnough, BftFew, BftInv
<1>3. VotesInv'
  BY <1>2, VotesSubmitted
<1>4. SmoothInv'
  BY <1>2, SmoothSubmitted
<1>5. CASE Pbft!Deaf(Pbft!Primary)
  <2>1. UNCHANGED <<pbftNode, pbftQueue, byzantine, committed>>
    BY <1>5 DEF Pbft!SubmitRequest
  <2>2. FakeInv'
    BY <1>2, <2>1, FakeUntouched
  <2>3. InRounds'
    BY <1>2, <2>1 DEF InRounds, Proposed, Preparers, Closers, Pbft!Nodes
  <2>4. QED
    BY <1>3, <1>4, <2>2, <2>3
<1>6. CASE ~Pbft!Deaf(Pbft!Primary)
  <2>1. InRounds'
    BY <1>1, <1>2, <1>6, SubmitsQueue
  <2>2. FakeInv'
    BY <1>2, <1>6, FakeSubmitted
  <2>3. QED
    BY <1>3, <1>4, <2>1, <2>2
<1>7. QED
  BY <1>5, <1>6

LEMMA BftInjected ==
    ASSUME BftEnough, BftInv, ~overlapped, NEW x \in Pbft!Nodes,
           NEW b \in {"ignore", "equivocate"}, Pbft!InjectFault(x, b)
    PROVE  InRounds' /\ VotesInv' /\ FakeInv' /\ SmoothInv'
<1>1. Pbft!PbftAssumption /\ BftFew /\ BftTypeInv /\ InRounds /\ VotesInv /\ FakeInv /\ SmoothInv
  BY DEF BftEnough, BftFew, BftInv
<1>2. /\ UNCHANGED <<pbftQueue, asked, committers, committed>>
      /\ byzantine' = byzantine + 1
  BY DEF Pbft!InjectFault
<1>3. \A n \in Pbft!Nodes : /\ pbftNode'[n].state = pbftNode[n].state
                            /\ pbftNode'[n].commits = pbftNode[n].commits
  BY <1>1, InjectsAt
<1>4. VotesInv'
  BY <1>1, <1>2, <1>3, VotesUntouched
<1>5. FakeInv'
  BY <1>1, FakeInjected
<1>6. InRounds'
  <2>1. UNCHANGED <<Proposed, Preparers, Closers>>
    BY <1>2 DEF Proposed, Preparers, Closers
  <2>2. QED
    BY <1>1, <1>2, <1>3, <2>1 DEF InRounds, Pbft!Nodes
<1>7. SmoothInv'
  <2>1. byzantine \in Nat
    BY <1>1, ByzantinesFew
  <2>2. byzantine' # 0
    BY <1>2, <2>1
  <2>3. QED
    BY <2>2 DEF SmoothInv
<1>8. QED
  BY <1>4, <1>5, <1>6, <1>7

LEMMA BftSteps ==
    ASSUME BftEnough, BftInv, [Pbft!Next]_pbftVars
    PROVE  BftInv'
<1>1. Pbft!PbftAssumption /\ BftFew /\ BftTypeInv
  BY DEF BftEnough, BftFew, BftInv
<1>2. BftTypeInv'
  BY <1>1, BftTypeNext
<1>3. ASSUME ~overlapped'
      PROVE  InRounds' /\ VotesInv' /\ FakeInv' /\ SmoothInv'
  <2>1. ASSUME NEW d \in Payloads, Pbft!SubmitRequest(d)
        PROVE  InRounds' /\ VotesInv' /\ FakeInv' /\ SmoothInv'
    BY <1>3, <2>1, BftRequested
  <2>2. ASSUME ~overlapped
        PROVE  InRounds /\ VotesInv /\ FakeInv /\ SmoothInv /\ Fake \notin committed
    BY <2>2 DEF BftInv, FakeInv
  <2>3. CASE Pbft!HandlePrePrepare
    <3>1. ~overlapped
      BY <1>3, <2>3 DEF Pbft!HandlePrePrepare, Pbft!observers
    <3>2. InRounds'
      <4>1. \E n : n = Pbft!Next1.to
        OBVIOUS
      <4>2. QED
        BY <1>1, <2>2, <2>3, <3>1, <4>1, PreparesQueue
    <3>3. VotesInv'
      BY <1>1, <2>2, <2>3, <3>1, VotesPrepared
    <3>4. FakeInv'
      BY <1>1, <2>2, <2>3, <3>1, FakePrepared
    <3>5. SmoothInv'
      BY <1>1, <2>2, <2>3, <3>1, SmoothPrepared
    <3>6. QED
      BY <3>2, <3>3, <3>4, <3>5
  <2>4. CASE Pbft!HandlePrepare
    <3>1. ~overlapped
      BY <1>3, <2>4 DEF Pbft!HandlePrepare
    <3>2. InRounds'
      BY <1>1, <2>2, <2>4, <3>1, CountsQueue
    <3>3. VotesInv'
      BY <1>1, <2>2, <2>4, <3>1, VotesCounted
    <3>4. FakeInv'
      BY <1>1, <2>2, <2>4, <3>1, FakeCounted
    <3>5. SmoothInv'
      BY <1>1, <2>2, <2>4, <3>1, SmoothCounted
    <3>6. QED
      BY <3>2, <3>3, <3>4, <3>5
  <2>5. CASE Pbft!HandleCommit
    <3>1. ~overlapped
      BY <1>3, <2>5 DEF Pbft!HandleCommit, Pbft!observers
    <3>2. InRounds'
      BY <1>1, <2>2, <2>5, <3>1, ClosesQueue
    <3>3. VotesInv'
      BY <1>1, <2>2, <2>5, <3>1, VotesClosed
    <3>4. FakeInv'
      BY <1>1, <2>2, <2>5, <3>1, FakeClosed
    <3>5. SmoothInv'
      BY <1>1, <2>2, <2>5, <3>1, SmoothClosed
    <3>6. QED
      BY <3>2, <3>3, <3>4, <3>5
  <2>6. ASSUME NEW n \in Pbft!Nodes, NEW b \in {"ignore", "equivocate"}, Pbft!InjectFault(n, b)
        PROVE  InRounds' /\ VotesInv' /\ FakeInv' /\ SmoothInv'
    <3>1. ~overlapped
      BY <1>3, <2>6 DEF Pbft!InjectFault
    <3>2. QED
      BY <2>6, <3>1, BftInjected
  <2>7. CASE Pbft!TriggerViewChange \/ UNCHANGED pbftVars
    <3>1. UNCHANGED <<pbftNode, pbftQueue, seq, pending, committed, asked, committers,
                      byzantine, overlapped>>
      BY <2>7 DEF Pbft!TriggerViewChange, Pbft!observers, pbftVars
    <3>2. InRounds /\ VotesInv /\ FakeInv /\ SmoothInv
      BY <1>3, <2>2, <3>1
    <3>3. InRounds'
      BY <3>1, <3>2 DEF InRounds, Proposed, Preparers, Closers, Pbft!Nodes
    <3>4. VotesInv'
      BY <1>1, <3>1, <3>2, VotesUntouched
    <3>5. FakeInv'
      BY <3>1, <3>2, FakeUntouched
    <3>6. SmoothInv'
      BY <3>1, <3>2, SmoothUntouched
    <3>7. QED
      BY <3>3, <3>4, <3>5, <3>6
  <2>8. QED
    BY <2>1, <2>3, <2>4, <2>5, <2>6, <2>7 DEF Pbft!Next
<1>4. QED
  BY <1>2, <1>3 DEF BftInv

LEMMA BftHolds ==
    ASSUME BftEnough, BftInv
    PROVE  Pbft!QuorumsBehindCommits
<1> SUFFICES ASSUME ~overlapped
             PROVE  /\ \A d \in committed : Cardinality(committers[d]) >= Pbft!Threshold
                    /\ byzantine = 0 /\ pbftQueue = <<>> =>
                           /\ pending = 0 /\ committed = asked
                           /\ \A n \in Pbft!Nodes : /\ pbftNode[n].state = "idle"
                                                    /\ pbftNode[n].done = seq
  BY PbftCounts DEF Pbft!QuorumsBehindCommits
<1>1. BftTypeInv /\ VotesInv /\ FakeInv /\ SmoothInv
  BY DEF BftInv
<1>2. committed \subseteq Payloads
  <2>1. committed \subseteq Pbft!Digests
    BY <1>1, BftTyped DEF BftTypeInv
  <2>2. QED
    BY <1>1, <2>1 DEF FakeInv, Pbft!Digests
<1>3. \A d \in committed : Cardinality(committers[d]) >= Pbft!Threshold
  BY <1>1, <1>2 DEF VotesInv, Backed
<1>4. byzantine = 0 /\ pbftQueue = <<>> => Settled
  BY <1>1, SettledWhenEmpty
<1>5. QED
  BY <1>3, <1>4 DEF Settled, Finished
=============================================================================
