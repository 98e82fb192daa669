--------------------------- MODULE SimulatorProofs ---------------------------
(***************************************************************************)
(* Proofs about seven of the simulators, each for any values of its        *)
(* constants: Tendermint (tendermint.go), proof of stake (pos.go),         *)
(* delegated proof of stake (dpos.go), chain synchronisation               *)
(* (chain_sync.go), the DAG (dag.go), fork choice (fork_choice.go) and     *)
(* HotStuff (hotstuff.go), which has four replicas at least.               *)
(* For each, an inductive invariant and from it the type invariant and the *)
(* property of the simulator.                                              *)
(*                                                                         *)
(* Several actions use recursive functions: sums over sets, passes over    *)
(* the nodes, ancestors, the descent in a tree.  That such a function      *)
(* exists, and what holds of its values, is shown of a least argument for  *)
(* which it could fail, with the well-foundedness of < and of proper       *)
(* inclusion.                                                              *)
(***************************************************************************)
EXTENDS HotStuffSim, MCSimulators, FiniteSetsExt, FiniteSetTheorems, WellFoundedInduction,
        TLAPS

-----------------------------------------------------------------------------
(***************************************************************************)
(* Numbers: least and greatest ones, and division.                         *)
(***************************************************************************)
LEMMA UpToFinite ==
    ASSUME NEW n \in Nat
    PROVE  IsFiniteSet(1 .. n) /\ Cardinality(1 .. n) = n
  BY FS_Interval

LEMMA MinOfNumbers ==
    ASSUME NEW S, S \subseteq Nat, S # {}
    PROVE  Min(S) \in S /\ \A x \in S : Min(S) <= x
<1>1. PICK m \in S : \A y \in S : ~(<<y, m>> \in OpToRel(<, Nat))
  BY NatLessThanWellFounded, WFMin
<1>2. \A y \in S : m <= y
  <2> SUFFICES ASSUME NEW y \in S, y < m PROVE FALSE
    OBVIOUS
  <2>1. <<y, m>> \in Nat \X Nat
    BY <1>1
  <2>2. <<y, m>> \in OpToRel(<, Nat)
    BY <2>1 DEF OpToRel
  <2>3. QED
    BY <1>1, <2>2
<1>3. QED
  BY <1>1, <1>2 DEF Min

LEMMA MaxOfRange ==
    ASSUME NEW n \in Nat, NEW S, S \subseteq 0 .. n, S # {}
    PROVE  Max(S) \in S /\ \A x \in S : Max(S) >= x
<1> DEFINE T == {n - x : x \in S}
<1>1. T \subseteq Nat /\ T # {}
  <2>1. \A x \in S : x \in Int /\ x <= n
    OBVIOUS
  <2>2. \A x \in S : n - x \in Nat
    BY <2>1
  <2>3. QED
    BY <2>2
<1> HIDE DEF T
<1>2. PICK m \in T : \A y \in T : ~(<<y, m>> \in OpToRel(<, Nat))
  BY <1>1, NatLessThanWellFounded, WFMin
<1>3. \A y \in T : ~(y < m)
  <2> SUFFICES ASSUME NEW y \in T, y < m PROVE FALSE
    OBVIOUS
  <2>1. <<y, m>> \in Nat \X Nat
    BY <1>1, <1>2
  <2>2. <<y, m>> \in OpToRel(<, Nat)
    BY <2>1 DEF OpToRel
  <2>3. QED
    BY <1>2, <2>2
<1>4. PICK z \in S : m = n - z
  BY <1>2 DEF T
<1>5. \A x \in S : z >= x
  <2> SUFFICES ASSUME NEW x \in S PROVE z >= x
    OBVIOUS
  <2>1. n - x \in T
    BY DEF T
  <2>2. ~(n - x < n - z)
    BY <1>3, <1>4, <2>1
  <2>3. QED
    BY <2>2
<1>6. QED
  BY <1>4, <1>5 DEF Max

(* Dividing a natural number by a positive one.                            *)
LEMMA MultiplyGrows ==
    ASSUME NEW d \in Nat, NEW a \in Int, NEW b \in Int, a < b
    PROVE  a * d + d <= b * d
<1>1. PICK k \in Nat : b = a + 1 + k
  <2>1. b - a - 1 \in Nat
    OBVIOUS
  <2>2. QED
    BY <2>1
<1>2. k * d \in Nat
  OBVIOUS
<1>3. b * d = a * d + d + k * d
  BY <1>1
<1>4. QED
  BY <1>2, <1>3

LEMMA DivideBy ==
    ASSUME NEW d \in Nat \ {0}, NEW e \in Nat, NEW s \in Nat, e * d <= s, s < e * d + d
    PROVE  s \div d = e /\ s % d = s - e * d
<1>1. PICK q \in Int : q = s \div d
  OBVIOUS
<1>2. PICK r \in Int : r = s % d
  OBVIOUS
<1>3. s = d * q + r /\ 0 <= r /\ r < d
  BY <1>1, <1>2
<1>4. d * q = q * d
  OBVIOUS
<1>5. ~(q < e) /\ ~(e < q)
  BY <1>3, <1>4, MultiplyGrows
<1>6. q = e
  BY <1>5
<1>7. s = e * d + r
  BY <1>3, <1>4, <1>6
<1>8. r = s - e * d
  <2>1. PICK p \in Int : p = e * d
    OBVIOUS
  <2>2. QED
    BY <1>2, <1>7, <2>1
<1>9. QED
  BY <1>1, <1>2, <1>6, <1>8

-----------------------------------------------------------------------------
(***************************************************************************)
(* Tendermint.  Once the validators have seen a valid value, every         *)
(* proposal is that value, except one that the user had made in the first  *)
(* height after the votes were cast; so no lock meets another proposal.    *)
(***************************************************************************)
Steps == {"propose", "prevote", "precommit"}

TmTyped ==
    /\ tmHeight \in 1 .. MaxHeight /\ round \in 0 .. MaxRounds
    /\ step \in Steps /\ stepTicks \in 0 .. Timeout - 1
    /\ fresh \in 0 .. MaxFresh
    /\ proposal \in 0 .. fresh /\ prevote \in 0 .. fresh /\ precommit \in 0 .. fresh
    /\ locked \in 0 .. fresh /\ valid \in 0 .. fresh
    /\ hashes \in Seq(1 .. fresh) /\ Len(hashes) = tmHeight - 1
    /\ nilVotes \in BOOLEAN /\ unvoted \subseteq 1 .. MaxHeight

TmInv ==
    /\ TmTyped
    /\ ~nilVotes /\ unvoted \subseteq {1}
    /\ \A h \in 2 .. Len(hashes) : hashes[h] = valid
    /\ locked \in {0, valid}
    /\ tmHeight > 1 => valid # 0
    /\ (valid # 0 /\ (tmHeight > 1 \/ step # "precommit")) => proposal \in {0, valid}
    /\ (step = "propose" /\ stepTicks = 0) \/ proposal # 0
    /\ step = "prevote" => prevote # 0 /\ (valid # 0 => prevote = valid)
    /\ step = "precommit" => precommit = valid /\ precommit # 0 

LEMMA SeqOfMore ==
    ASSUME NEW m \in Nat, NEW n \in Nat, m <= n, NEW s \in Seq(1 .. m)
    PROVE  s \in Seq(1 .. n)
<1>1. 1 .. m \subseteq 1 .. n
  OBVIOUS
<1>2. QED
  BY <1>1

LEMMA TmInit ==
    ASSUME Tendermint!TendermintAssumption
    PROVE  Tendermint!Init => TmInv
<1> SUFFICES ASSUME Tendermint!Init PROVE TmInv
  OBVIOUS
<1>1. hashes = <<>> /\ fresh = 0
  BY DEF Tendermint!Init
<1>2. hashes \in Seq(1 .. fresh) /\ Len(hashes) = 0
  BY <1>1
<1>3. /\ MaxHeight \in Nat \ {0} /\ MaxRounds \in Nat /\ MaxFresh \in Nat
      /\ Timeout \in Nat /\ Timeout > 1
  BY DEF Tendermint!TendermintAssumption
<1>4. /\ tmHeight = 1 /\ round = 0 /\ step = "propose" /\ stepTicks = 0 /\ proposal = 0
      /\ prevote = 0 /\ precommit = 0 /\ locked = 0 /\ valid = 0 /\ nilVotes = FALSE
      /\ unvoted = {}
  BY DEF Tendermint!Init, Tendermint!Nil
<1>5. TmTyped
  <2>1. tmHeight \in 1 .. MaxHeight /\ round \in 0 .. MaxRounds /\ stepTicks \in 0 .. Timeout - 1
    BY <1>3, <1>4
  <2>2. /\ fresh \in 0 .. MaxFresh /\ {proposal, prevote, precommit, locked, valid} \subseteq 0 .. fresh
        /\ Len(hashes) = tmHeight - 1
    BY <1>1, <1>2, <1>3, <1>4
  <2>3. QED
    BY <1>2, <1>4, <2>1, <2>2 DEF TmTyped, Steps
<1>6. \A h \in 2 .. Len(hashes) : hashes[h] = valid
  BY <1>2
<1>7. QED
  BY <1>4, <1>5, <1>6 DEF TmInv

LEMMA TmNext ==
    ASSUME Tendermint!TendermintAssumption
    PROVE  TmInv /\ [Tendermint!Next]_(Tendermint!vars) => TmInv'
<1> SUFFICES ASSUME TmInv, [Tendermint!Next]_(Tendermint!vars) PROVE TmInv'
  OBVIOUS
<1> USE DEF Tendermint!TendermintAssumption, Tendermint!Nil, Tendermint!votes,
            Tendermint!observers
<1>0. CASE UNCHANGED Tendermint!vars
  BY <1>0 DEF Tendermint!vars, TmInv, TmTyped
<1>1. ASSUME Tendermint!DoPropose,
             UNCHANGED <<tmHeight, round, step, prevote, precommit, locked, valid, hashes,
                         nilVotes, unvoted>>,
             stepTicks' \in 0 .. Timeout - 1, stepTicks = 0 => stepTicks' \in {0, 1},
             stepTicks # 0 => stepTicks' = stepTicks
      PROVE  TmInv'
  <2>1. /\ fresh' \in 0 .. MaxFresh /\ fresh <= fresh' /\ proposal' \in 1 .. fresh'
        /\ valid # 0 => proposal' = valid
    BY <1>1 DEF Tendermint!DoPropose, TmInv, TmTyped
  <2>2. hashes \in Seq(1 .. fresh')
    BY <2>1, SeqOfMore DEF TmInv, TmTyped
  <2>3. TmTyped'
    BY <1>1, <2>1, <2>2 DEF TmInv, TmTyped
  <2>4. QED
    BY <1>1, <2>1, <2>3 DEF TmInv
<1>2. ASSUME Tendermint!NextRound PROVE TmInv'
  BY <1>2 DEF Tendermint!NextRound, Tendermint!BeginRound, TmInv, TmTyped, Steps
<1>3. ASSUME Tendermint!Wait, ~Tendermint!TimedOut, stepTicks # 0 \/ step # "propose" PROVE TmInv'
  BY <1>3 DEF Tendermint!Wait, Tendermint!TimedOut, TmInv, TmTyped, Steps
<1>4. CASE Tendermint!TickPropose
  <2>1. CASE stepTicks = 0
    BY <1>1, <1>4, <2>1 DEF Tendermint!TickPropose, TmInv, TmTyped
  <2>2. CASE stepTicks # 0 /\ Tendermint!TimedOut
    <3>1. Tendermint!EnterPrevote /\ step = "propose"
      BY <1>4, <2>2 DEF Tendermint!TickPropose
    <3>2. QED
      BY <2>2, <3>1 DEF Tendermint!EnterPrevote, TmInv, TmTyped, Steps
  <2>3. CASE stepTicks # 0 /\ ~Tendermint!TimedOut
    BY <1>3, <1>4, <2>3 DEF Tendermint!TickPropose
  <2>4. QED
    BY <2>1, <2>2, <2>3
<1>5. CASE Tendermint!TickPrevote
  <2>1. Tendermint!EnterPrecommit /\ step = "prevote"
    BY <1>5 DEF Tendermint!TickPrevote, TmInv
  <2>2. QED
    BY <2>1 DEF Tendermint!EnterPrecommit, TmInv, TmTyped, Steps
<1>6. CASE Tendermint!TickPrecommit
  <2>1. Tendermint!CommitBlock /\ step = "precommit" /\ proposal # 0
    BY <1>6 DEF Tendermint!TickPrecommit, TmInv
  <2>2. /\ tmHeight < MaxHeight /\ tmHeight' = tmHeight + 1 /\ round' = 0
        /\ Tendermint!BeginRound /\ hashes' = Append(hashes, proposal) /\ locked' = 0
        /\ unvoted' = IF proposal = precommit THEN unvoted ELSE unvoted \cup {tmHeight}
        /\ UNCHANGED <<valid, fresh, nilVotes>>
    BY <2>1 DEF Tendermint!CommitBlock
  <2>3. proposal \in 1 .. fresh /\ hashes \in Seq(1 .. fresh) /\ Len(hashes) = tmHeight - 1
    BY <2>1 DEF TmInv, TmTyped
  <2>4. /\ hashes' \in Seq(1 .. fresh) /\ Len(hashes') = Len(hashes) + 1
        /\ \A h \in 1 .. Len(hashes) : hashes'[h] = hashes[h]
        /\ hashes'[Len(hashes) + 1] = proposal
    BY <2>2, <2>3
  <2>5. TmTyped'
    BY <2>2, <2>3, <2>4 DEF Tendermint!BeginRound, TmInv, TmTyped, Steps
  <2>6. tmHeight > 1 => proposal = valid
    BY <2>1 DEF TmInv
  <2>7. \A h \in 2 .. Len(hashes') : hashes'[h] = valid'
    BY <2>2, <2>3, <2>4, <2>6 DEF TmInv, TmTyped
  <2>8. QED
    BY <2>1, <2>2, <2>5, <2>6, <2>7 DEF Tendermint!BeginRound, TmInv, TmTyped
<1>7. CASE Tendermint!SubmitProposal
  <2>1. stepTicks \in 0 .. Timeout - 1
    BY DEF TmInv, TmTyped
  <2>2. QED
    BY <1>1, <1>7, <2>1 DEF Tendermint!SubmitProposal
<1>8. QED
  BY <1>0, <1>2, <1>4, <1>5, <1>6, <1>7 DEF Tendermint!Next

(* Tendermint's type invariant, and that no lock stands against a          *)
(* proposal (tendermint.go).                                               *)
LEMMA TendermintTypeCorrect ==
    ASSUME Tendermint!TendermintAssumption
    PROVE  Tendermint!Spec => [](Tendermint!TypeOK /\ Tendermint!LocksAgreeWithProposals)
<1>1. TmInv => Tendermint!TypeOK /\ Tendermint!LocksAgreeWithProposals
  BY DEF TmInv, TmTyped, Steps, Tendermint!TypeOK, Tendermint!LocksAgreeWithProposals
<1>2. QED
  BY <1>1, TmInit, TmNext, PTL DEF Tendermint!Spec
-----------------------------------------------------------------------------
(***************************************************************************)
(* Proof of stake.  What a committee of a quarter attested stays below two *)
(* thirds of the validators until most of them are slashed.                *)
(***************************************************************************)
PosBlock == [slot : 0 .. MaxSlot, attested : Nat, final : BOOLEAN]

PosTyped ==
    /\ validators \in Nat /\ slot \in 0 .. MaxSlot /\ epoch \in Nat
    /\ posChain \in Seq(PosBlock) /\ posChain # <<>>
    /\ finalized \in 0 .. MaxSlot /\ slashes \in 0 .. MaxSlashes

\* What holds of every block of chain c.
PosBlocks(c) ==
    /\ c[1].final
    /\ \A i \in 2 .. Len(c) :
           /\ c[i].final => 3 * c[i].attested >= 2 * validators /\ i <= Len(c) - 2
           /\ c[i - 1].slot < c[i].slot
           /\ validators >= 16 => 4 * c[i].attested <= validators + slashes
    /\ \E i \in DOMAIN c : c[i].final /\ c[i].slot = finalized

PosInv ==
    /\ PosTyped
    /\ PosBlocks(posChain)
    /\ posChain[Len(posChain)].slot <= slot
    /\ epoch * SlotsPerEpoch <= slot /\ slot < epoch * SlotsPerEpoch + SlotsPerEpoch

LEMMA PosInit ==
    ASSUME Pos!PosAssumption
    PROVE  Pos!Init => PosInv
<1> SUFFICES ASSUME Pos!Init PROVE PosInv
  OBVIOUS
<1>1. /\ validators \in Nat /\ slot = 0 /\ epoch = 0 /\ finalized = 0 /\ slashes = 0
      /\ posChain = <<[slot |-> 0, attested |-> 0, final |-> TRUE]>>
      /\ SlotsPerEpoch \in Nat \ {0} /\ MaxSlot \in Nat /\ MaxSlashes \in Nat
  BY DEF Pos!Init, Pos!PosAssumption
<1>2. /\ Len(posChain) = 1 /\ posChain[1] = [slot |-> 0, attested |-> 0, final |-> TRUE]
      /\ posChain \in Seq(PosBlock) /\ posChain # <<>> /\ DOMAIN posChain = {1}
  BY <1>1 DEF PosBlock
<1>3. QED
  BY <1>1, <1>2 DEF PosInv, PosTyped, PosBlocks

LEMMA PosFinalize ==
    ASSUME Pos!PosAssumption, PosTyped, NEW c \in Seq(PosBlock), c # <<>>, PosBlocks(c),
           Pos!Finalize(c), UNCHANGED <<validators, slashes>>
    PROVE  /\ posChain' \in Seq(PosBlock) /\ Len(posChain') = Len(c)
           /\ \A i \in DOMAIN c : posChain'[i].slot = c[i].slot
           /\ finalized' \in 0 .. MaxSlot
           /\ PosBlocks(posChain)'
<1> DEFINE final == {i \in DOMAIN c : c[i].final}
           bound == Pos!Max(final)
           found == {i \in bound + 1 .. Len(c) - 2 : Pos!Supermajority(c[i].attested)}
<1>1. /\ Len(c) \in Nat \ {0} /\ DOMAIN c = 1 .. Len(c)
      /\ \A i \in DOMAIN c : /\ c[i].slot \in 0 .. MaxSlot /\ c[i].attested \in Nat
                             /\ c[i].final \in BOOLEAN /\ c[i] \in PosBlock
  <2>1. Len(c) \in Nat \ {0} /\ DOMAIN c = 1 .. Len(c) /\ \A i \in DOMAIN c : c[i] \in PosBlock
    OBVIOUS
  <2>2. QED
    BY <2>1 DEF PosBlock
<1>2. bound \in 1 .. Len(c) /\ c[bound].final
  <2>1. final \subseteq 1 .. Len(c) /\ final \subseteq 0 .. Len(c) /\ 1 \in final
    BY <1>1 DEF PosBlocks
  <2>2. bound = Max(final)
    BY DEF Max, Pos!Max
  <2> HIDE DEF final, bound
  <2>3. bound \in final
    BY <1>1, <2>1, <2>2, MaxOfRange
  <2>4. QED
    BY <2>1, <2>3 DEF final
<1> HIDE DEF bound
<1>3. /\ found \subseteq Nat /\ found \subseteq 2 .. Len(c) - 2
      /\ \A i \in found : 3 * c[i].attested >= 2 * validators
  BY <1>1, <1>2 DEF Pos!Supermajority
<1>4. /\ posChain' = [i \in DOMAIN c |-> [c[i] EXCEPT !.final = @ \/ i \in found]]
      /\ finalized' = IF found = {} THEN finalized ELSE c[Min(found)].slot
  BY DEF Pos!Finalize, bound, Min, Pos!Min
<1> HIDE DEF found, final
<1>5. /\ \A i \in DOMAIN c : /\ posChain'[i] \in PosBlock /\ posChain'[i].slot = c[i].slot
                             /\ posChain'[i].attested = c[i].attested
                             /\ posChain'[i].final <=> c[i].final \/ i \in found
  BY <1>1, <1>4 DEF PosBlock
<1>6. posChain' \in Seq(PosBlock) /\ Len(posChain') = Len(c) /\ DOMAIN posChain' = DOMAIN c
  <2>1. posChain' \in [1 .. Len(c) -> PosBlock]
    BY <1>1, <1>4, <1>5
  <2>2. QED
    BY <1>1, <2>1
<1>7. /\ finalized' \in 0 .. MaxSlot
      /\ \E i \in DOMAIN c : posChain'[i].final /\ posChain'[i].slot = finalized'
  <2>1. CASE found = {}
    BY <1>4, <1>5, <2>1 DEF PosBlocks, PosTyped
  <2>2. CASE found # {}
    <3>1. Min(found) \in found
      BY <1>3, <2>2, MinOfNumbers
    <3>2. Min(found) \in DOMAIN c
      <4>1. Min(found) \in 2 .. Len(c) - 2
        BY <1>3, <3>1
      <4>2. QED
        BY <1>1, <4>1
    <3>3. QED
      BY <1>1, <1>4, <1>5, <2>2, <3>1, <3>2
  <2>3. QED
    BY <2>1, <2>2
<1>8. posChain'[1].final
  BY <1>1, <1>5 DEF PosBlocks
<1>9. \A i \in 2 .. Len(posChain') :
        /\ posChain'[i].final =>
               3 * posChain'[i].attested >= 2 * validators' /\ i <= Len(posChain') - 2
        /\ posChain'[i - 1].slot < posChain'[i].slot
        /\ validators' >= 16 => 4 * posChain'[i].attested <= validators' + slashes'
  <2> SUFFICES ASSUME NEW i \in 2 .. Len(posChain')
               PROVE  /\ posChain'[i].final =>
                             /\ 3 * posChain'[i].attested >= 2 * validators'
                             /\ i <= Len(posChain') - 2
                      /\ posChain'[i - 1].slot < posChain'[i].slot
                      /\ validators' >= 16 =>
                             4 * posChain'[i].attested <= validators' + slashes'
    OBVIOUS
  <2>1. i \in DOMAIN c /\ i - 1 \in DOMAIN c /\ i \in 2 .. Len(c)
    BY <1>1, <1>6
  <2>2. /\ c[i].final => 3 * c[i].attested >= 2 * validators /\ i <= Len(c) - 2
        /\ c[i - 1].slot < c[i].slot
        /\ validators >= 16 => 4 * c[i].attested <= validators + slashes
    BY <2>1 DEF PosBlocks
  <2>3. i \in found => i <= Len(c) - 2
    BY <1>1, <1>3
  <2>4. QED
    BY <1>3, <1>5, <1>6, <2>1, <2>2, <2>3
<1>10. PosBlocks(posChain)'
  BY <1>6, <1>7, <1>8, <1>9 DEF PosBlocks
<1>11. QED
  BY <1>5, <1>6, <1>7, <1>10

LEMMA PosNext ==
    ASSUME Pos!PosAssumption
    PROVE  PosInv /\ [Pos!Next]_(Pos!vars) => PosInv'
<1> SUFFICES ASSUME PosInv, [Pos!Next]_(Pos!vars) PROVE PosInv'
  OBVIOUS
<1>0. /\ SlotsPerEpoch \in Nat \ {0} /\ MaxSlot \in Nat /\ MaxSlashes \in Nat
      /\ validators \in Nat /\ slot \in Nat /\ epoch \in Nat /\ slashes \in Nat
      /\ PosTyped /\ PosBlocks(posChain) /\ posChain \in Seq(PosBlock) /\ posChain # <<>>
      /\ Len(posChain) \in Nat \ {0} /\ DOMAIN posChain = 1 .. Len(posChain)
  BY DEF Pos!PosAssumption, PosInv, PosTyped
<1>1. CASE UNCHANGED Pos!vars
  BY <1>1 DEF Pos!vars, PosInv, PosTyped, PosBlocks
<1>2. CASE Pos!Tick
  <2>1. /\ slot < MaxSlot /\ slot' = slot + 1 /\ UNCHANGED <<validators, slashes>>
        /\ epoch' = IF slot' % SlotsPerEpoch = 0 THEN epoch + 1 ELSE epoch
    BY <1>2 DEF Pos!Tick
  <2>2. /\ epoch' \in Nat /\ epoch' * SlotsPerEpoch <= slot'
        /\ slot' < epoch' * SlotsPerEpoch + SlotsPerEpoch
    <3>1. epoch * SlotsPerEpoch <= slot /\ slot < epoch * SlotsPerEpoch + SlotsPerEpoch
      BY DEF PosInv
    <3>2. /\ (epoch + 1) * SlotsPerEpoch = epoch * SlotsPerEpoch + SlotsPerEpoch
          /\ epoch * SlotsPerEpoch \in Nat /\ slot + 1 \in Nat
      BY <1>0
    <3>3. CASE slot + 1 < epoch * SlotsPerEpoch + SlotsPerEpoch
      <4>1. (slot + 1) % SlotsPerEpoch = slot + 1 - epoch * SlotsPerEpoch
        <5>1. epoch * SlotsPerEpoch <= slot + 1
          BY <1>0, <3>1, <3>2
        <5>2. slot + 1 \in Nat /\ slot + 1 < epoch * SlotsPerEpoch + SlotsPerEpoch
              /\ SlotsPerEpoch \in Nat \ {0} /\ epoch \in Nat
          BY <1>0, <3>2, <3>3
        <5>3. PICK t \in Nat : t = slot + 1
          BY <5>2
        <5>4. epoch * SlotsPerEpoch <= t /\ t < epoch * SlotsPerEpoch + SlotsPerEpoch
          BY <5>1, <5>2, <5>3
        <5>5. t % SlotsPerEpoch = t - epoch * SlotsPerEpoch
          BY <5>2, <5>4, DivideBy
        <5>6. QED
          BY <1>0, <5>3, <5>5
      <4>2. epoch' = epoch
        BY <1>0, <2>1, <3>1, <3>2, <4>1
      <4>3. QED
        BY <1>0, <2>1, <3>1, <3>3, <4>2
    <3>4. CASE slot + 1 = epoch * SlotsPerEpoch + SlotsPerEpoch
      <4>1. (slot + 1) % SlotsPerEpoch = slot + 1 - (epoch + 1) * SlotsPerEpoch
        <5>1. /\ (epoch + 1) * SlotsPerEpoch <= slot + 1 /\ epoch + 1 \in Nat
              /\ slot + 1 < (epoch + 1) * SlotsPerEpoch + SlotsPerEpoch
          BY <1>0, <3>2, <3>4
        <5>2. slot + 1 \in Nat /\ SlotsPerEpoch \in Nat \ {0}
          BY <1>0, <3>2
        <5>3. PICK t \in Nat, f \in Nat : t = slot + 1 /\ f = epoch + 1
          BY <5>1, <5>2
        <5>4. f * SlotsPerEpoch <= t /\ t < f * SlotsPerEpoch + SlotsPerEpoch
          BY <5>1, <5>2, <5>3
        <5>5. t % SlotsPerEpoch = t - f * SlotsPerEpoch
          BY <5>2, <5>4, DivideBy
        <5>6. QED
          BY <1>0, <5>3, <5>5
      <4>2. epoch' = epoch + 1
        BY <1>0, <2>1, <3>2, <3>4, <4>1
      <4>3. QED
        BY <1>0, <2>1, <3>2, <3>4, <4>2
    <3>5. QED
      BY <1>0, <3>1, <3>2, <3>3, <3>4
  <2>3. PICK c \in Seq(PosBlock) :
            /\ c # <<>> /\ PosBlocks(c) /\ Pos!Finalize(c) /\ c[Len(c)].slot <= slot'
    <3>1. CASE validators = 0
      <4>1. Pos!Finalize(posChain)
        BY <1>2, <3>1 DEF Pos!Tick
      <4>2. posChain[Len(posChain)].slot \in Nat /\ posChain[Len(posChain)].slot <= slot
        <5>1. posChain[Len(posChain)] \in PosBlock
          BY <1>0
        <5>2. QED
          BY <5>1 DEF PosBlock, PosInv
      <4>3. posChain[Len(posChain)].slot <= slot'
        BY <1>0, <2>1, <4>2
      <4>4. QED
        BY <1>0, <4>1, <4>3
    <3>2. CASE validators # 0
      <4>1. PICK n \in Pos!Turnouts : Pos!Finalize(Append(posChain,
                [slot |-> slot', attested |-> n, final |-> FALSE]))
        BY <1>2, <3>2 DEF Pos!Tick
      <4>2. n \in Nat /\ (validators >= 16 => 4 * n <= validators)
        <5>1. n \in 0 .. Pos!Committee
          BY <4>1 DEF Pos!Turnouts
        <5>2. CASE validators \div 4 < 4
          BY <1>0, <5>1, <5>2 DEF Pos!Committee
        <5>3. CASE ~(validators \div 4 < 4)
          BY <1>0, <5>1, <5>3 DEF Pos!Committee
        <5>4. QED
          BY <5>2, <5>3
      <4> DEFINE new == [slot |-> slot', attested |-> n, final |-> FALSE]
                 c == Append(posChain, new)
      <4>3. new \in PosBlock /\ new.slot = slot' /\ new.attested = n /\ ~new.final
        BY <1>0, <2>1, <4>2 DEF PosBlock
      <4> HIDE DEF new
      <4>4. /\ c \in Seq(PosBlock) /\ c # <<>> /\ Len(c) = Len(posChain) + 1
            /\ DOMAIN c = 1 .. Len(posChain) + 1 /\ c[Len(c)] = new
            /\ \A i \in DOMAIN posChain : c[i] = posChain[i]
        BY <1>0, <4>3
      <4> HIDE DEF c
      <4>5. posChain[Len(posChain)].slot \in Nat /\ posChain[Len(posChain)].slot <= slot
        <5>1. posChain[Len(posChain)] \in PosBlock
          BY <1>0
        <5>2. QED
          BY <5>1 DEF PosBlock, PosInv
      <4>6. \A i \in 2 .. Len(c) :
              /\ c[i].final => 3 * c[i].attested >= 2 * validators /\ i <= Len(c) - 2
              /\ c[i - 1].slot < c[i].slot
              /\ validators >= 16 => 4 * c[i].attested <= validators + slashes
        <5> SUFFICES ASSUME NEW i \in 2 .. Len(c)
                     PROVE  /\ c[i].final => /\ 3 * c[i].attested >= 2 * validators
                                             /\ i <= Len(c) - 2
                            /\ c[i - 1].slot < c[i].slot
                            /\ validators >= 16 => 4 * c[i].attested <= validators + slashes
          OBVIOUS
        <5>1. CASE i = Len(c)
          BY <1>0, <2>1, <4>2, <4>3, <4>4, <4>5, <5>1
        <5>2. CASE i # Len(c)
          <6>1. i \in 2 .. Len(posChain) /\ i - 1 \in DOMAIN posChain /\ i \in DOMAIN posChain
            BY <1>0, <4>4, <5>2
          <6>2. QED
            BY <1>0, <4>4, <6>1 DEF PosBlocks
        <5>3. QED
          BY <5>1, <5>2
      <4>7. PosBlocks(c)
        <5>1. PICK i \in DOMAIN posChain : posChain[i].final /\ posChain[i].slot = finalized
          BY <1>0 DEF PosBlocks
        <5>2. i \in DOMAIN c /\ c[i] = posChain[i] /\ c[1] = posChain[1]
          BY <1>0, <4>4, <5>1
        <5>3. QED
          BY <1>0, <4>6, <5>1, <5>2 DEF PosBlocks
      <4>8. c[Len(c)].slot <= slot'
        BY <1>0, <2>1, <4>3, <4>4
      <4>9. QED
        BY <4>1, <4>4, <4>7, <4>8 DEF c, new
    <3>3. QED
      BY <3>1, <3>2
  <2>4. /\ posChain' \in Seq(PosBlock) /\ Len(posChain') = Len(c)
        /\ \A i \in DOMAIN c : posChain'[i].slot = c[i].slot
        /\ finalized' \in 0 .. MaxSlot /\ PosBlocks(posChain)'
    BY <1>0, <2>1, <2>3, PosFinalize
  <2>5. /\ posChain' # <<>> /\ posChain'[Len(posChain')].slot <= slot'
    <3>1. Len(c) \in DOMAIN c /\ Len(c) # 0
      BY <2>3
    <3>2. QED
      BY <2>3, <2>4, <3>1
  <2>6. slot' \in 0 .. MaxSlot
    BY <1>0, <2>1
  <2>7. QED
    BY <2>1, <2>2, <2>4, <2>5, <2>6 DEF PosInv, PosTyped
<1>3. CASE Pos!AdvanceEpoch
  <2>1. /\ (epoch + 1) * SlotsPerEpoch - 1 <= MaxSlot
        /\ slot' = (epoch + 1) * SlotsPerEpoch - 1
        /\ UNCHANGED <<validators, epoch, posChain, finalized, slashes>>
    BY <1>3 DEF Pos!AdvanceEpoch
  <2>2. (epoch + 1) * SlotsPerEpoch = epoch * SlotsPerEpoch + SlotsPerEpoch
        /\ epoch * SlotsPerEpoch \in Nat
    BY <1>0
  <2>3. epoch * SlotsPerEpoch <= slot /\ slot < epoch * SlotsPerEpoch + SlotsPerEpoch
    BY DEF PosInv
  <2>4. slot <= slot' /\ slot' \in 0 .. MaxSlot
    BY <1>0, <2>1, <2>2, <2>3
  <2>5. posChain[Len(posChain)].slot \in Nat /\ posChain[Len(posChain)].slot <= slot
    <3>1. posChain[Len(posChain)] \in PosBlock
      BY <1>0
    <3>2. QED
      BY <3>1 DEF PosBlock, PosInv
  <2>6. QED
    BY <1>0, <2>1, <2>2, <2>4, <2>5 DEF PosInv, PosTyped, PosBlocks
<1>4. CASE Pos!SlashValidator
  <2>1. /\ validators > 0 /\ validators' = validators - 1 /\ slashes' = slashes + 1
        /\ slashes < MaxSlashes
        /\ UNCHANGED <<slot, epoch, posChain, finalized>>
    BY <1>4 DEF Pos!SlashValidator
  <2>2. validators' + slashes' = validators + slashes /\ 2 * validators' <= 2 * validators
    BY <1>0, <2>1
  <2>3. \A i \in 2 .. Len(posChain) : posChain[i].attested \in Nat
    <3>1. \A i \in 2 .. Len(posChain) : posChain[i] \in PosBlock
      BY <1>0
    <3>2. QED
      BY <3>1 DEF PosBlock
  <2>4. PosBlocks(posChain)'
    BY <1>0, <2>1, <2>2, <2>3 DEF PosBlocks
  <2>5. QED
    BY <1>0, <2>1, <2>4 DEF PosInv, PosTyped
<1>5. QED
  BY <1>1, <1>2, <1>3, <1>4 DEF Pos!Next

(* Proof of stake's type invariant, and that finality is backed (pos.go).  *)
LEMMA PosFinalityBacked ==
    ASSUME Pos!PosAssumption
    PROVE  Pos!Spec => [](Pos!TypeOK /\ Pos!FinalityIsBacked)
<1>1. PosInv => Pos!TypeOK /\ Pos!FinalityIsBacked
  <2> SUFFICES ASSUME PosInv PROVE Pos!TypeOK /\ Pos!FinalityIsBacked
    OBVIOUS
  <2>1. /\ SlotsPerEpoch \in Nat \ {0} /\ slot \in 0 .. MaxSlot /\ MaxSlot \in Nat /\ epoch \in Nat
        /\ epoch * SlotsPerEpoch <= slot /\ slot < epoch * SlotsPerEpoch + SlotsPerEpoch
        /\ validators \in Nat /\ slashes \in Nat
    BY DEF Pos!PosAssumption, PosInv, PosTyped
  <2>2. epoch = slot \div SlotsPerEpoch
    BY <2>1, DivideBy
  <2>3. epoch \in 0 .. MaxSlot
    <3>1. epoch <= epoch * SlotsPerEpoch
      <4>1. PICK k \in Nat : SlotsPerEpoch = k + 1
        BY <2>1
      <4>2. epoch * k \in Nat /\ epoch * (k + 1) = epoch * k + epoch
        BY <2>1
      <4>3. QED
        BY <2>1, <4>1, <4>2
    <3>2. QED
      BY <2>1, <3>1
  <2>4. \A i \in DOMAIN posChain : posChain[i] \in PosBlock
    BY DEF PosInv, PosTyped
  <2>5. Pos!TypeOK
    BY <2>3, <2>4 DEF PosInv, PosTyped, PosBlock, Pos!TypeOK
  <2>6. \A i \in 2 .. Len(posChain) :
          validators >= 16 /\ 3 * slashes < 5 * validators => ~posChain[i].final
    <3> SUFFICES ASSUME NEW i \in 2 .. Len(posChain), validators >= 16,
                        3 * slashes < 5 * validators, posChain[i].final
                 PROVE  FALSE
      OBVIOUS
    <3>1. posChain[i].attested \in Nat
      <4>1. i \in DOMAIN posChain
        BY DEF PosInv, PosTyped
      <4>2. QED
        BY <2>4, <4>1 DEF PosBlock
    <3>2. /\ 3 * posChain[i].attested >= 2 * validators
          /\ 4 * posChain[i].attested <= validators + slashes
      BY DEF PosInv, PosBlocks
    <3>3. QED
      BY <2>1, <3>1, <3>2
  <2>7. QED
    BY <2>2, <2>5, <2>6 DEF PosInv, PosBlocks, Pos!FinalityIsBacked
<1>2. QED
  BY <1>1, PosInit, PosNext, PTL DEF Pos!Spec

-----------------------------------------------------------------------------
(***************************************************************************)
(* Sums over finite sets.  MapThenSumSet is a recursive function over the  *)
(* subsets of its argument; every fact about it is shown of a smallest     *)
(* subset for which it could fail.                                         *)
(***************************************************************************)
Weigh(g, S) == MapThenSumSet(LAMBDA v : g[v], S)

Pick(S) == CHOOSE x \in S : TRUE

WeighsUp(h, S, g) ==
    h = [s \in SUBSET S |->
            IF s = {} THEN 0 ELSE g[Pick(s)] + h[s \ {Pick(s)}]]

LEMMA WeighDef ==
    ASSUME NEW g, NEW S
    PROVE  Weigh(g, S) = (CHOOSE h : WeighsUp(h, S, g))[S]
  BY DEF Weigh, MapThenSumSet, MapThenFoldSet, WeighsUp, Pick

LEMMA PickIn ==
    ASSUME NEW S, S # {}
    PROVE  Pick(S) \in S /\ S \ {Pick(S)} # S /\ S \ {Pick(S)} \subseteq S
  BY DEF Pick

LEMMA Smallest ==
    ASSUME NEW S, IsFiniteSet(S), NEW T, T \subseteq SUBSET S, T # {}
    PROVE  \E m \in T : \A s \in T : s \subseteq m => s = m
<1>1. IsWellFoundedOn(StrictSubsetOrdering(S), SUBSET S)
  BY FS_StrictSubsetOrderingWellFounded, FS_FiniteSubsetsOfFinite
<1>2. PICK m \in T : \A s \in T : ~(<<s, m>> \in StrictSubsetOrdering(S))
  BY <1>1, WFMin
<1>3. QED
  BY <1>2 DEF StrictSubsetOrdering

LEMMA WeighUnique ==
    ASSUME NEW S, IsFiniteSet(S), NEW g, NEW h, NEW k,
           WeighsUp(h, S, g), WeighsUp(k, S, g)
    PROVE  h = k
<1> DEFINE T == {s \in SUBSET S : h[s] # k[s]}
<1>1. ASSUME T # {} PROVE FALSE
  <2> HIDE DEF T
  <2>1. PICK m \in T : \A s \in T : s \subseteq m => s = m
    <3>1. T \subseteq SUBSET S
      BY DEF T
    <3>2. QED
      BY <1>1, <3>1, Smallest
  <2>2. m \in SUBSET S /\ h[m] # k[m]
    BY DEF T
  <2>3. m # {}
    BY <2>2 DEF WeighsUp
  <2>4. h[m \ {Pick(m)}] = k[m \ {Pick(m)}]
    BY <2>1, <2>2, <2>3, PickIn DEF T
  <2>5. QED
    BY <2>2, <2>3, <2>4 DEF WeighsUp
<1>2. QED
  BY <1>1 DEF WeighsUp

LEMMA WeighRestricts ==
    ASSUME NEW S, NEW g, NEW h, WeighsUp(h, S, g), NEW s \in SUBSET S
    PROVE  WeighsUp([u \in SUBSET s |-> h[u]], s, g)
<1> DEFINE k == [u \in SUBSET s |-> h[u]]
<1>1. \A u \in SUBSET s :
        h[u] = IF u = {} THEN 0 ELSE g[Pick(u)] + h[u \ {Pick(u)}]
  BY DEF WeighsUp
<1>2. \A u \in SUBSET s :
        k[u] = IF u = {} THEN 0 ELSE g[Pick(u)] + k[u \ {Pick(u)}]
  BY <1>1
<1>3. QED
  BY <1>2 DEF WeighsUp

LEMMA WeighExists ==
    ASSUME NEW S, IsFiniteSet(S), NEW g
    PROVE  \E h : WeighsUp(h, S, g)
<1> DEFINE T == {s \in SUBSET S : ~ \E h : WeighsUp(h, s, g)}
<1>1. ASSUME T # {} PROVE FALSE
  <2> HIDE DEF T
  <2>1. PICK m \in T : \A s \in T : s \subseteq m => s = m
    <3>1. T \subseteq SUBSET S
      BY DEF T
    <3>2. QED
      BY <1>1, <3>1, Smallest
  <2>2. m \in SUBSET S /\ ~ \E h : WeighsUp(h, m, g)
    BY DEF T
  <2> DEFINE H(v) == CHOOSE h : WeighsUp(h, v, g)
             k == [u \in SUBSET m |->
                      IF u = {} THEN 0
                      ELSE g[Pick(u)] + H(u \ {Pick(u)})[u \ {Pick(u)}]]
  <2>3. ASSUME NEW v \in SUBSET m, v # m PROVE WeighsUp(H(v), v, g)
    BY <2>1, <2>2, <2>3 DEF T
  <2> HIDE DEF H
  <2>4. ASSUME NEW v \in SUBSET m, v # m PROVE k[v] = H(v)[v]
    <3>1. WeighsUp(H(v), v, g) /\ IsFiniteSet(v)
      BY <2>2, <2>3, <2>4, FS_Subset
    <3>2. CASE v = {}
      BY <3>1, <3>2 DEF WeighsUp
    <3>3. CASE v # {}
      <4> DEFINE w == v \ {Pick(v)}
      <4>1. w \in SUBSET v /\ w # m /\ w \in SUBSET m /\ IsFiniteSet(w)
        BY <2>4, <3>1, <3>3, PickIn, FS_Subset
      <4>2. WeighsUp(H(w), w, g)
        BY <2>3, <4>1
      <4>3. WeighsUp([u \in SUBSET w |-> H(v)[u]], w, g)
        BY <3>1, <4>1, WeighRestricts
      <4>4. H(w) = [u \in SUBSET w |-> H(v)[u]]
        BY <4>1, <4>2, <4>3, WeighUnique
      <4>5. H(w)[w] = H(v)[w]
        BY <4>4
      <4>6. H(v)[v] = g[Pick(v)] + H(v)[w]
        BY <3>1, <3>3 DEF WeighsUp
      <4>7. k[v] = g[Pick(v)] + H(w)[w]
        BY <3>3
      <4>8. QED
        BY <4>5, <4>6, <4>7
    <3>4. QED
      BY <3>2, <3>3
  <2>5. \A u \in SUBSET m : u # {} =>
           k[u \ {Pick(u)}] = H(u \ {Pick(u)})[u \ {Pick(u)}]
    <3> SUFFICES ASSUME NEW u \in SUBSET m, u # {}
                 PROVE  k[u \ {Pick(u)}] = H(u \ {Pick(u)})[u \ {Pick(u)}]
      OBVIOUS
    <3>1. u \ {Pick(u)} \in SUBSET m /\ u \ {Pick(u)} # m
      BY PickIn
    <3> HIDE DEF k
    <3>2. QED
      BY <2>4, <3>1
  <2>6. WeighsUp(k, m, g)
    BY <2>5 DEF WeighsUp
  <2>7. QED
    BY <2>2, <2>6
<1>2. QED
  BY <1>1

(* The sum over nothing, and over something.                                 *)
LEMMA WeighStep ==
    ASSUME NEW S, IsFiniteSet(S), NEW g
    PROVE  /\ S = {} => Weigh(g, S) = 0
           /\ S # {} => Weigh(g, S) = g[Pick(S)] + Weigh(g, S \ {Pick(S)})
<1>1. PICK h : h = CHOOSE k : WeighsUp(k, S, g)
  OBVIOUS
<1>2. WeighsUp(h, S, g) /\ Weigh(g, S) = h[S]
  BY <1>1, WeighExists, WeighDef
<1>3. ASSUME S # {} PROVE Weigh(g, S) = g[Pick(S)] + Weigh(g, S \ {Pick(S)})
  <2> DEFINE v == S \ {Pick(S)}
  <2>1. v \in SUBSET S /\ IsFiniteSet(v)
    BY FS_Subset
  <2> HIDE DEF v
  <2>2. PICK k : k = CHOOSE j : WeighsUp(j, v, g)
    OBVIOUS
  <2>3. WeighsUp(k, v, g) /\ Weigh(g, v) = k[v]
    BY <2>1, <2>2, WeighExists, WeighDef
  <2>4. WeighsUp([u \in SUBSET v |-> h[u]], v, g)
    BY <1>2, <2>1, WeighRestricts
  <2>5. k = [u \in SUBSET v |-> h[u]]
    BY <2>1, <2>3, <2>4, WeighUnique
  <2>6. Weigh(g, v) = h[v]
    BY <2>3, <2>5
  <2>7. h[S] = g[Pick(S)] + h[v]
    BY <1>2, <1>3 DEF WeighsUp, v
  <2>8. QED
    BY <1>2, <2>6, <2>7 DEF v
<1>4. QED
  BY <1>2, <1>3 DEF WeighsUp

LEMMA WeighTyped ==
    ASSUME NEW S, IsFiniteSet(S), NEW g, \A r \in S : g[r] \in Nat
    PROVE  Weigh(g, S) \in Nat
<1> DEFINE T == {s \in SUBSET S : Weigh(g, s) \notin Nat}
<1>1. ASSUME T # {} PROVE FALSE
  <2> HIDE DEF T
  <2>1. PICK m \in T : \A s \in T : s \subseteq m => s = m
    <3>1. T \subseteq SUBSET S
      BY DEF T
    <3>2. QED
      BY <1>1, <3>1, Smallest
  <2>2. m \in SUBSET S /\ Weigh(g, m) \notin Nat /\ IsFiniteSet(m)
    BY FS_Subset DEF T
  <2>3. m # {}
    <3>1. Weigh(g, {}) = 0
      BY FS_EmptySet, WeighStep
    <3>2. QED
      BY <2>2, <3>1
  <2>4. Weigh(g, m \ {Pick(m)}) \in Nat /\ Pick(m) \in S
    BY <2>1, <2>2, <2>3, PickIn DEF T
  <2>5. Weigh(g, m) = g[Pick(m)] + Weigh(g, m \ {Pick(m)})
    BY <2>2, <2>3, WeighStep
  <2>6. QED
    BY <2>2, <2>4, <2>5
<1>2. QED
  BY <1>1

LEMMA WeighCongruent ==
    ASSUME NEW S, IsFiniteSet(S), NEW g, NEW f, \A r \in S : g[r] = f[r]
    PROVE  Weigh(g, S) = Weigh(f, S)
<1> DEFINE T == {s \in SUBSET S : Weigh(g, s) # Weigh(f, s)}
<1>1. ASSUME T # {} PROVE FALSE
  <2> HIDE DEF T
  <2>1. PICK m \in T : \A s \in T : s \subseteq m => s = m
    <3>1. T \subseteq SUBSET S
      BY DEF T
    <3>2. QED
      BY <1>1, <3>1, Smallest
  <2>2. m \in SUBSET S /\ Weigh(g, m) # Weigh(f, m) /\ IsFiniteSet(m)
    BY FS_Subset DEF T
  <2>3. m # {}
    BY <2>2, WeighStep
  <2>4. Weigh(g, m \ {Pick(m)}) = Weigh(f, m \ {Pick(m)}) /\ Pick(m) \in S
    BY <2>1, <2>2, <2>3, PickIn DEF T
  <2>5. /\ Weigh(g, m) = g[Pick(m)] + Weigh(g, m \ {Pick(m)})
        /\ Weigh(f, m) = f[Pick(m)] + Weigh(f, m \ {Pick(m)})
    BY <2>2, <2>3, WeighStep
  <2>6. QED
    BY <2>2, <2>4, <2>5
<1>2. QED
  BY <1>1

(* One element more, whichever the sum begins with.                          *)
LEMMA WeighAdds ==
    ASSUME NEW S, IsFiniteSet(S), NEW g, NEW x, x \notin S,
           \A r \in S \cup {x} : g[r] \in Nat
    PROVE  Weigh(g, S \cup {x}) = Weigh(g, S) + g[x]
<1> DEFINE T == {s \in SUBSET S : \E y \in S \cup {x} : y \notin s
                                  /\ Weigh(g, s \cup {y}) # Weigh(g, s) + g[y]}
<1>1. ASSUME T # {} PROVE FALSE
  <2> HIDE DEF T
  <2>1. PICK m \in T : \A s \in T : s \subseteq m => s = m
    <3>1. T \subseteq SUBSET S
      BY DEF T
    <3>2. QED
      BY <1>1, <3>1, Smallest
  <2>2. PICK y \in S \cup {x} : /\ m \in SUBSET S /\ y \notin m
                                /\ Weigh(g, m \cup {y}) # Weigh(g, m) + g[y]
    BY DEF T
  <2>3. /\ IsFiniteSet(m) /\ IsFiniteSet(m \cup {y})
        /\ Weigh(g, m) \in Nat /\ g[y] \in Nat
    BY <2>2, FS_Subset, FS_AddElement, WeighTyped
  <2> DEFINE z == Pick(m \cup {y})
  <2>4. Weigh(g, m \cup {y}) = g[z] + Weigh(g, (m \cup {y}) \ {z})
    BY <2>3, WeighStep
  <2>5. z \in m \cup {y}
    BY PickIn
  <2> HIDE DEF z
  <2>6. CASE z = y
    <3>1. (m \cup {y}) \ {z} = m
      BY <2>2, <2>6
    <3>2. Weigh(g, m \cup {y}) = g[y] + Weigh(g, m)
      BY <2>4, <2>6, <3>1
    <3>3. QED
      BY <2>2, <2>3, <3>2
  <2>7. CASE z # y
    <3> DEFINE n == m \ {z}
    <3>1. /\ z \in m /\ n \in SUBSET S /\ n \notin T
          /\ (m \cup {y}) \ {z} = n \cup {y} /\ n \cup {z} = m
          /\ y \notin n /\ z \notin n /\ z \in S
      BY <2>1, <2>2, <2>5, <2>7
    <3>2. IsFiniteSet(n) /\ Weigh(g, n) \in Nat /\ g[z] \in Nat
      <4>1. IsFiniteSet(n)
        BY <2>3, FS_Subset
      <4>2. QED
        BY <3>1, <4>1, WeighTyped
    <3> HIDE DEF n
    <3>3. Weigh(g, n \cup {y}) = Weigh(g, n) + g[y]
      BY <3>1 DEF T
    <3>4. Weigh(g, n \cup {z}) = Weigh(g, n) + g[z]
      BY <3>1 DEF T
    <3>5. Weigh(g, m \cup {y}) = g[z] + (Weigh(g, n) + g[y])
      BY <2>4, <3>1, <3>3
    <3>6. Weigh(g, m) = Weigh(g, n) + g[z]
      BY <3>1, <3>4
    <3>7. Weigh(g, m \cup {y}) = Weigh(g, m) + g[y]
      BY <2>3, <3>2, <3>5, <3>6
    <3>8. QED
      BY <2>2, <3>7
  <2>8. QED
    BY <2>6, <2>7
<1>2. QED
  BY <1>1

LEMMA WeighChanges ==
    ASSUME NEW S, IsFiniteSet(S), NEW g, NEW f, NEW x \in S,
           \A v \in S : g[v] \in Nat /\ f[v] \in Nat,
           \A v \in S \ {x} : g[v] = f[v]
    PROVE  Weigh(f, S) = Weigh(g, S) - g[x] + f[x]
<1> DEFINE R == S \ {x}
<1>1. /\ IsFiniteSet(R) /\ x \notin R /\ R \cup {x} = S
      /\ \A v \in R : g[v] = f[v]
      /\ \A v \in R \cup {x} : g[v] \in Nat /\ f[v] \in Nat
  BY FS_Subset
<1> HIDE DEF R
<1>2. /\ Weigh(g, R \cup {x}) = Weigh(g, R) + g[x]
      /\ Weigh(f, R \cup {x}) = Weigh(f, R) + f[x]
  <2>1. \A r \in R \cup {x} : g[r] \in Nat
    BY <1>1
  <2>2. \A r \in R \cup {x} : f[r] \in Nat
    BY <1>1
  <2>3. IsFiniteSet(R) /\ x \notin R
    BY <1>1
  <2>4. Weigh(g, R \cup {x}) = Weigh(g, R) + g[x]
    BY ONLY <2>1, <2>3, WeighAdds
  <2>5. Weigh(f, R \cup {x}) = Weigh(f, R) + f[x]
    BY ONLY <2>2, <2>3, WeighAdds
  <2>6. QED
    BY <2>4, <2>5
<1>3. Weigh(g, R) = Weigh(f, R)
  BY <1>1, WeighCongruent
<1>4. Weigh(g, R) \in Nat
  BY <1>1, WeighTyped
<1>5. g[x] \in Nat /\ f[x] \in Nat
  OBVIOUS
<1>6. /\ Weigh(g, S) = Weigh(f, R) + g[x]
      /\ Weigh(f, S) = Weigh(f, R) + f[x]
      /\ Weigh(f, R) \in Nat
  BY <1>1, <1>2, <1>3, <1>4
<1>7. QED
  BY <1>5, <1>6

\* What a set of voters pays to a delegate.
Paid(g, d, S) == Dpos!MapThenSumSet(LAMBDA v : Dpos!Credit(g, v, d), S)

Payments(g, d, S) == [v \in S |-> Dpos!Credit(g, v, d)]

PaysUp(h, S, g, d) ==
    h = [s \in SUBSET S |->
            IF s = {} THEN 0 ELSE Dpos!Credit(g, Pick(s), d) + h[s \ {Pick(s)}]]

LEMMA PaidIsWeighed ==
    ASSUME NEW S, IsFiniteSet(S), NEW g, NEW d
    PROVE  Paid(g, d, S) = Weigh(Payments(g, d, S), S)
<1>1. \A s \in SUBSET S : s # {} => Payments(g, d, S)[Pick(s)] = Dpos!Credit(g, Pick(s), d)
  BY PickIn DEF Payments
<1>2. ASSUME NEW h PROVE PaysUp(h, S, g, d) <=> WeighsUp(h, S, Payments(g, d, S))
  BY <1>1 DEF PaysUp, WeighsUp
<1>3. Paid(g, d, S) = (CHOOSE h : PaysUp(h, S, g, d))[S]
  BY DEF Paid, Dpos!MapThenSumSet, Dpos!MapThenFoldSet, PaysUp, Pick
<1>4. PICK h : h = CHOOSE k : PaysUp(k, S, g, d)
  OBVIOUS
<1>5. PICK k : k = CHOOSE j : WeighsUp(j, S, Payments(g, d, S))
  OBVIOUS
<1>6. \E j : WeighsUp(j, S, Payments(g, d, S))
  BY WeighExists
<1>7. WeighsUp(k, S, Payments(g, d, S))
  BY <1>5, <1>6
<1>8. PaysUp(h, S, g, d)
  BY <1>2, <1>4, <1>6
<1>9. h = k
  BY <1>2, <1>7, <1>8, WeighUnique
<1>10. QED
  BY <1>3, <1>4, <1>5, <1>9, WeighDef

LEMMA PaidTyped ==
    ASSUME NEW S, IsFiniteSet(S), NEW g, NEW d, \A r \in S : Dpos!Credit(g, r, d) \in Nat
    PROVE  Paid(g, d, S) \in Nat
<1>1. \A r \in S : Payments(g, d, S)[r] \in Nat
  BY DEF Payments
<1>2. QED
  BY <1>1, PaidIsWeighed, WeighTyped

(* A voter who votes anew changes what that voter pays.                    *)
LEMMA PaidChanges ==
    ASSUME NEW S, IsFiniteSet(S), NEW g, NEW f, NEW d, NEW x \in S,
           \A v \in S : Dpos!Credit(g, v, d) \in Nat /\ Dpos!Credit(f, v, d) \in Nat,
           \A v \in S \ {x} : Dpos!Credit(g, v, d) = Dpos!Credit(f, v, d)
    PROVE  Paid(f, d, S) = Paid(g, d, S) - Dpos!Credit(g, x, d) + Dpos!Credit(f, x, d)
<1> DEFINE old == Payments(g, d, S)
           new == Payments(f, d, S)
<1>1. /\ \A v \in S : old[v] = Dpos!Credit(g, v, d) /\ new[v] = Dpos!Credit(f, v, d)
      /\ \A v \in S : old[v] \in Nat /\ new[v] \in Nat
      /\ \A v \in S \ {x} : old[v] = new[v]
  BY DEF Payments
<1> HIDE DEF old, new
<1>2. Weigh(new, S) = Weigh(old, S) - old[x] + new[x]
  BY <1>1, WeighChanges
<1>3. Paid(f, d, S) = Weigh(new, S) /\ Paid(g, d, S) = Weigh(old, S)
  BY PaidIsWeighed DEF old, new
<1>4. QED
  BY <1>1, <1>2, <1>3

-----------------------------------------------------------------------------
(***************************************************************************)
(* Delegated proof of stake.  The tally follows every vote, and in a round *)
(* that is left alone the turns are the first seats, in their order.       *)
(***************************************************************************)
Ballot == Seq(Delegates \cup {Stranger}) \ {<<>>}

DposTyped ==
    /\ votedFor \in [Dpos!Voters -> FirstVotes \cup {<<d>> : d \in Delegates \cup {Stranger}}]
    /\ roundIndex \in 0 .. MaxTurns /\ dposTick \in 0 .. MaxSeats * Interval - 1
    /\ turns \in Seq(Delegates) /\ meddled \in BOOLEAN /\ skipped \in BOOLEAN

AllSeated(s) ==
    /\ s \in Seq(Delegates) /\ Len(s) > 0
    /\ \A i, j \in DOMAIN s : s[i] = s[j] => i = j
    /\ MaxSeats <= Cardinality(Delegates) => Len(s) = MaxSeats

TurnsInOrder ==
    /\ roundIndex = Len(turns)
    /\ roundIndex * Interval <= dposTick
    /\ dposTick < roundIndex * Interval + Interval
    /\ MaxSeats <= Cardinality(Delegates) =>
           \A i \in 1 .. Len(turns) : i \in DOMAIN seats /\ turns[i] = seats[i]

DposInv ==
    /\ DposTyped
    /\ delegateVotes = Dpos!Tally(votedFor)
    /\ AllSeated(seats)
    /\ ~meddled => TurnsInOrder
    /\ MaxSeats <= Cardinality(Delegates) => ~skipped

LEMMA DposCounts ==
    ASSUME NEW S
    PROVE  /\ Dpos!Cardinality(S) = Cardinality(S)
           /\ Dpos!IsFiniteSet(S) <=> IsFiniteSet(S)
  BY DEF Dpos!Cardinality, Cardinality, Dpos!IsFiniteSet, IsFiniteSet

LEMMA DposVoters ==
    ASSUME Dpos!DposAssumption
    PROVE  /\ Dpos!Voters = 1 .. Len(Balances) /\ IsFiniteSet(Dpos!Voters)
           /\ \A v \in Dpos!Voters : Balances[v] \in Nat
<1>1. Balances \in Seq(Nat)
  BY DEF Dpos!DposAssumption
<1>2. Dpos!Voters = 1 .. Len(Balances) /\ Len(Balances) \in Nat
  BY <1>1 DEF Dpos!Voters
<1>3. IsFiniteSet(1 .. Len(Balances))
  BY <1>2, UpToFinite
<1>4. QED
  BY <1>1, <1>2, <1>3

LEMMA CreditTyped ==
    ASSUME Dpos!DposAssumption, NEW v \in Dpos!Voters, NEW d, NEW g, g[v] \in Ballot
    PROVE  Dpos!Credit(g, v, d) \in Nat
<1>1. Balances[v] \in Nat /\ Len(g[v]) \in Nat \ {0} /\ DOMAIN g[v] = 1 .. Len(g[v])
  BY DposVoters DEF Ballot
<1>2. PICK a \in Nat : a = Balances[v] \div Len(g[v])
  BY <1>1
<1>3. PICK b \in Nat : b = Cardinality({i \in DOMAIN g[v] : g[v][i] = d})
  <2>1. IsFiniteSet(1 .. Len(g[v]))
    <3>1. PICK n \in Nat : n = Len(g[v])
      BY <1>1
    <3>2. IsFiniteSet(1 .. n)
      BY UpToFinite
    <3>3. QED
      BY <3>1, <3>2
  <2>2. IsFiniteSet({i \in DOMAIN g[v] : g[v][i] = d})
    BY <1>1, <2>1, FS_Subset
  <2>3. QED
    BY <2>2, FS_CardinalityType
<1>4. Dpos!Credit(g, v, d) = a * b
  BY <1>2, <1>3, DposCounts DEF Dpos!Credit
<1>5. a * b \in Nat
  OBVIOUS
<1>6. QED
  BY <1>4, <1>5

LEMMA VotesAreBallots ==
    ASSUME Dpos!DposAssumption, NEW s \in FirstVotes \cup {<<d>> : d \in Delegates \cup {Stranger}}
    PROVE  s \in Ballot
<1>1. CASE s \in FirstVotes
  <2>1. s \in Seq(Delegates) /\ s # <<>>
    BY <1>1 DEF Dpos!DposAssumption
  <2>2. QED
    BY <2>1 DEF Ballot
<1>2. CASE s \in {<<d>> : d \in Delegates \cup {Stranger}}
  <2>1. PICK d \in Delegates \cup {Stranger} : s = <<d>>
    BY <1>2
  <2>2. <<d>> \in Seq(Delegates \cup {Stranger}) /\ <<d>> # <<>>
    OBVIOUS
  <2>3. QED
    BY <2>1, <2>2 DEF Ballot
<1>3. QED
  BY <1>1, <1>2

LEMMA TallyIsPaid ==
    ASSUME Dpos!DposAssumption, NEW vf,
           vf \in [Dpos!Voters -> FirstVotes \cup {<<d>> : d \in Delegates \cup {Stranger}}]
    PROVE  /\ Dpos!Tally(vf) = [d \in Delegates |-> Paid(vf, d, Dpos!Voters)]
           /\ \A d \in Delegates : Paid(vf, d, Dpos!Voters) \in Nat
           /\ \A d \in Delegates, v \in Dpos!Voters : Dpos!Credit(vf, v, d) \in Nat
<1>1. \A d \in Delegates, v \in Dpos!Voters : Dpos!Credit(vf, v, d) \in Nat
  BY VotesAreBallots, CreditTyped
<1>2. \A d \in Delegates : Paid(vf, d, Dpos!Voters) \in Nat
  BY <1>1, DposVoters, PaidTyped
<1>3. QED
  BY <1>1, <1>2 DEF Dpos!Tally, Paid

LEMMA ElectedAreSeated ==
    ASSUME Dpos!DposAssumption, NEW vs, NEW s \in Dpos!Elected(vs)
    PROVE  AllSeated(s)
<1>1. /\ IsFiniteSet(Delegates) /\ Delegates # {} /\ MaxSeats \in Nat \ {0}
      /\ Cardinality(Delegates) \in Nat \ {0}
  <2>1. IsFiniteSet(Delegates) /\ Delegates # {} /\ MaxSeats \in Nat \ {0}
    BY DposCounts DEF Dpos!DposAssumption
  <2>2. QED
    BY <2>1, FS_CardinalityType, FS_EmptySet
<1>2. PICK T \in SUBSET Delegates : s \in Dpos!SetToSeqs(T)
  BY DEF Dpos!Elected, Dpos!SetToAllKPermutations
<1>3. Cardinality(T) \in Nat
  BY <1>1, <1>2, FS_Subset, FS_CardinalityType
<1>4. s \in [1 .. Cardinality(T) -> T] /\ \A i, j \in 1 .. Cardinality(T) : i # j => s[i] # s[j]
  BY <1>2, DposCounts DEF Dpos!SetToSeqs
<1>5. s \in Seq(Delegates) /\ DOMAIN s = 1 .. Cardinality(T)
  BY <1>3, <1>4
<1>6. Len(s) = Min({MaxSeats, Cardinality(Delegates)})
  BY DposCounts DEF Dpos!Elected, Dpos!Min, Min
<1>7. /\ Min({MaxSeats, Cardinality(Delegates)}) \in {MaxSeats, Cardinality(Delegates)}
      /\ Min({MaxSeats, Cardinality(Delegates)}) <= MaxSeats
  BY <1>1, MinOfNumbers
<1>8. MaxSeats <= Cardinality(Delegates) =>
          Min({MaxSeats, Cardinality(Delegates)}) = MaxSeats
  BY <1>1, <1>7
<1>9. QED
  BY <1>1, <1>4, <1>5, <1>6, <1>7, <1>8 DEF AllSeated

LEMMA SmallRemainder ==
    ASSUME NEW d \in Nat, NEW x \in Nat, x < d
    PROVE  x % d = x
<1>1. 0 * d = 0
  OBVIOUS
<1>2. 0 * d <= x /\ x < 0 * d + d /\ d \in Nat \ {0} /\ 0 \in Nat
  BY <1>1
<1>3. x % d = x - 0 * d
  BY <1>2, DivideBy
<1>4. QED
  BY <1>1, <1>3

LEMMA DposFacts ==
    ASSUME Dpos!DposAssumption
    PROVE  /\ MaxSeats \in Nat \ {0} /\ Interval \in Nat \ {0} /\ MaxTurns \in Nat \ {0}
           /\ MaxSeats * Interval \in Nat \ {0} /\ Cardinality(Delegates) \in Nat
           /\ Dpos!RoundLength = MaxSeats * Interval
<1>1. /\ MaxSeats \in Nat \ {0} /\ Interval \in Nat \ {0} /\ MaxTurns \in Nat \ {0}
      /\ IsFiniteSet(Delegates)
  BY DposCounts DEF Dpos!DposAssumption
<1>2. MaxSeats * Interval \in Nat \ {0}
  <2>1. PICK m \in Nat, i \in Nat : MaxSeats = m + 1 /\ Interval = i + 1
    BY <1>1
  <2>2. (m + 1) * (i + 1) = m * i + m + i + 1 /\ m * i \in Nat
    OBVIOUS
  <2>3. QED
    BY <2>1, <2>2
<1>3. QED
  BY <1>1, <1>2, FS_CardinalityType DEF Dpos!RoundLength

LEMMA DposInit ==
    ASSUME Dpos!DposAssumption
    PROVE  Dpos!Init => DposInv
<1> SUFFICES ASSUME Dpos!Init PROVE DposInv
  OBVIOUS
<1>1. /\ votedFor \in [Dpos!Voters -> FirstVotes] /\ delegateVotes = Dpos!Tally(votedFor)
      /\ seats \in Dpos!Elected(delegateVotes) /\ roundIndex = 0 /\ dposTick = 0
      /\ turns = <<>> /\ meddled = FALSE /\ skipped = FALSE
  BY DEF Dpos!Init
<1>2. AllSeated(seats)
  BY <1>1, ElectedAreSeated
<1>3. DposTyped
  <2>1. /\ roundIndex \in 0 .. MaxTurns /\ dposTick \in 0 .. MaxSeats * Interval - 1
        /\ turns \in Seq(Delegates) /\ meddled \in BOOLEAN /\ skipped \in BOOLEAN
    <3>1. 0 \in 0 .. MaxTurns /\ 0 \in 0 .. MaxSeats * Interval - 1
      <4>1. PICK n \in Nat \ {0} : n = MaxSeats * Interval
        BY DposFacts
      <4>2. 0 \in 0 .. n - 1
        OBVIOUS
      <4>3. QED
        BY <4>1, <4>2, DposFacts
    <3>2. <<>> \in Seq(Delegates)
      OBVIOUS
    <3>3. QED
      BY <1>1, <3>1, <3>2
  <2>2. QED
    BY <1>1, <2>1 DEF DposTyped
<1>4. TurnsInOrder
  <2>1. 0 * Interval = 0 /\ Interval \in Nat \ {0}
    BY DposFacts
  <2>2. Len(turns) = 0
    BY <1>1
  <2>3. QED
    BY <1>1, <2>1, <2>2 DEF TurnsInOrder
<1>5. QED
  BY <1>1, <1>2, <1>3, <1>4 DEF DposInv

LEMMA ProducerSits ==
    ASSUME AllSeated(seats), roundIndex \in Nat
    PROVE  /\ Dpos!Producer \in Delegates
           /\ roundIndex < Len(seats) =>
                  roundIndex + 1 \in DOMAIN seats /\ Dpos!Producer = seats[roundIndex + 1]
<1>1. Len(seats) \in Nat \ {0} /\ seats \in Seq(Delegates) /\ DOMAIN seats = 1 .. Len(seats)
  BY DEF AllSeated
<1>2. roundIndex % Len(seats) \in 0 .. Len(seats) - 1
  BY <1>1
<1>3. roundIndex < Len(seats) => roundIndex % Len(seats) = roundIndex
  BY <1>1, SmallRemainder
<1>4. QED
  BY <1>1, <1>2, <1>3 DEF Dpos!Producer

\* The turn that is taken is the next seat's.
LEMMA TurnTaken ==
    ASSUME Dpos!DposAssumption, DposInv
    PROVE  LET all == Append(turns, Dpos!Producer)
           IN  /\ all \in Seq(Delegates) /\ Len(all) = Len(turns) + 1
               /\ ~meddled /\ MaxSeats <= Cardinality(Delegates) =>
                      /\ Len(turns) < MaxSeats
                      /\ \A i \in 1 .. Len(turns) + 1 : i \in DOMAIN seats /\ all[i] = seats[i]
<1> DEFINE all == Append(turns, Dpos!Producer)
<1>1. /\ turns \in Seq(Delegates) /\ Len(turns) \in Nat /\ roundIndex \in Nat /\ AllSeated(seats)
      /\ dposTick \in Nat /\ dposTick < MaxSeats * Interval
  BY DposFacts DEF DposInv, DposTyped
<1>2. Dpos!Producer \in Delegates
  BY <1>1, ProducerSits
<1>3. /\ all \in Seq(Delegates) /\ Len(all) = Len(turns) + 1
      /\ \A i \in 1 .. Len(turns) : all[i] = turns[i]
      /\ all[Len(turns) + 1] = Dpos!Producer
  BY <1>1, <1>2
<1> HIDE DEF all
<1>4. ASSUME ~meddled, MaxSeats <= Cardinality(Delegates)
      PROVE  /\ Len(turns) < MaxSeats
             /\ \A i \in 1 .. Len(turns) + 1 : i \in DOMAIN seats /\ all[i] = seats[i]
  <2>1. /\ TurnsInOrder /\ roundIndex = Len(turns) /\ roundIndex * Interval <= dposTick
        /\ \A i \in 1 .. Len(turns) : i \in DOMAIN seats /\ turns[i] = seats[i]
        /\ Len(seats) = MaxSeats
    BY <1>1, <1>4 DEF DposInv, TurnsInOrder, AllSeated
  <2>2. roundIndex < MaxSeats
    <3>1. ~(MaxSeats < roundIndex)
      <4>1. MaxSeats < roundIndex => MaxSeats * Interval + Interval <= roundIndex * Interval
        BY <1>1, DposFacts, MultiplyGrows
      <4>2. MaxSeats * Interval \in Nat /\ roundIndex * Interval \in Nat /\ Interval \in Nat
        BY <1>1, DposFacts
      <4>3. QED
        BY <1>1, <2>1, <4>1, <4>2
    <3>2. ASSUME roundIndex = MaxSeats PROVE FALSE
      <4>1. roundIndex * Interval = MaxSeats * Interval
        BY <3>2
      <4>2. MaxSeats * Interval \in Nat
        BY DposFacts
      <4>3. QED
        BY <1>1, <2>1, <4>1, <4>2
    <3>3. QED
      BY <1>1, <3>1, <3>2, DposFacts
  <2>3. roundIndex + 1 \in DOMAIN seats /\ Dpos!Producer = seats[roundIndex + 1]
    BY <1>1, <2>1, <2>2, ProducerSits
  <2>4. QED
    BY <1>1, <1>3, <2>1, <2>2, <2>3
<1>5. QED
  BY <1>3, <1>4 DEF all

\* A turn, in a round that is left alone or not.
LEMMA DposProduce ==
    ASSUME Dpos!DposAssumption, DposInv, Dpos!Produce, meddled' \in BOOLEAN,
           UNCHANGED <<votedFor, delegateVotes>>,
           dposTick' \in 0 .. MaxSeats * Interval - 1,
           ~meddled' => /\ ~meddled
                        /\ (roundIndex + 1) * Interval <= dposTick'
                        /\ dposTick' < (roundIndex + 1) * Interval + Interval
    PROVE  DposInv'
<1>1. /\ roundIndex < MaxTurns /\ roundIndex' = roundIndex + 1
      /\ turns' = Append(turns, Dpos!Producer) /\ UNCHANGED <<seats, skipped>>
  BY DEF Dpos!Produce
<1>2. /\ turns' \in Seq(Delegates) /\ Len(turns') = Len(turns) + 1
      /\ ~meddled /\ MaxSeats <= Cardinality(Delegates) =>
             \A i \in 1 .. Len(turns) + 1 : i \in DOMAIN seats /\ turns'[i] = seats[i]
  BY <1>1, TurnTaken
<1>3. DposTyped'
  BY <1>1, <1>2, DposFacts DEF DposInv, DposTyped
<1>4. ~meddled' => TurnsInOrder'
  BY <1>1, <1>2 DEF TurnsInOrder, DposInv
<1>5. AllSeated(seats)'
  BY <1>1 DEF DposInv, AllSeated
<1>6. (delegateVotes = Dpos!Tally(votedFor))'
  BY DEF DposInv, Dpos!Tally, Dpos!Credit, Dpos!MapThenSumSet, Dpos!MapThenFoldSet, Dpos!Voters
<1>7. QED
  BY <1>1, <1>3, <1>4, <1>5, <1>6 DEF DposInv

\* A new round begins.
LEMMA DposEndRound ==
    ASSUME Dpos!DposAssumption, DposInv, Dpos!EndRound,
           UNCHANGED <<votedFor, delegateVotes>>,
           dposTick + 1 = MaxSeats * Interval, dposTick' = 0
    PROVE  DposInv'
<1>1. /\ seats' \in Dpos!Elected(delegateVotes) /\ roundIndex' = 0
      /\ turns' = <<>> /\ meddled' = FALSE
  BY DEF Dpos!EndRound
<1> DEFINE all == Append(turns, Dpos!Producer)
<1>2. skipped' = (skipped \/ (~meddled /\ ~(/\ Dpos!IsInjective(all)
                                            /\ Dpos!ToSet(all) = Dpos!ToSet(seats))))
  BY DEF Dpos!EndRound
<1>3. /\ all \in Seq(Delegates) /\ Len(all) = Len(turns) + 1
      /\ ~meddled /\ MaxSeats <= Cardinality(Delegates) =>
             /\ Len(turns) < MaxSeats
             /\ \A i \in 1 .. Len(turns) + 1 : i \in DOMAIN seats /\ all[i] = seats[i]
  BY TurnTaken
<1> HIDE DEF all
<1>4. AllSeated(seats)'
  BY <1>1, ElectedAreSeated
<1>5. skipped' \in BOOLEAN
  BY <1>2 DEF DposInv, DposTyped
<1>6. ASSUME MaxSeats <= Cardinality(Delegates) PROVE ~skipped'
  <2>1. ~skipped
    BY <1>6 DEF DposInv
  <2>2. CASE meddled
    BY <1>2, <2>1, <2>2
  <2>3. CASE ~meddled
    <3>1. /\ TurnsInOrder /\ AllSeated(seats) /\ Len(seats) = MaxSeats /\ seats \in Seq(Delegates)
          /\ \A i, j \in DOMAIN seats : seats[i] = seats[j] => i = j
          /\ roundIndex = Len(turns) /\ dposTick < roundIndex * Interval + Interval
          /\ dposTick \in Nat /\ roundIndex \in Nat /\ Len(turns) \in Nat
      BY <1>6, <2>3, DposFacts DEF DposInv, DposTyped, TurnsInOrder, AllSeated
    <3>2. MaxSeats <= Len(turns) + 1
      <4>1. roundIndex + 1 < MaxSeats =>
                (roundIndex + 1) * Interval + Interval <= MaxSeats * Interval
        BY <3>1, DposFacts, MultiplyGrows
      <4>2. (roundIndex + 1) * Interval = roundIndex * Interval + Interval
        <5>1. roundIndex \in Nat /\ Interval \in Nat
          BY <3>1, DposFacts
        <5>2. QED
          BY <5>1
      <4>3. MaxSeats * Interval \in Nat /\ roundIndex * Interval \in Nat /\ Interval \in Nat \ {0}
        BY <3>1, DposFacts
      <4>4. ~(roundIndex + 1 < MaxSeats)
        BY <3>1, <4>1, <4>2, <4>3
      <4>5. QED
        BY <3>1, <4>4, DposFacts
    <3>3. Len(all) = Len(seats) /\ \A i \in 1 .. Len(seats) : all[i] = seats[i]
      BY <1>3, <1>6, <2>3, <3>1, <3>2, DposFacts
    <3>4. all = seats
      BY <1>3, <3>1, <3>3
    <3>5. Dpos!IsInjective(all) /\ Dpos!ToSet(all) = Dpos!ToSet(seats)
      BY <3>1, <3>4 DEF Dpos!IsInjective
    <3>6. QED
      BY <1>2, <2>1, <3>5
  <2>4. QED
    BY <2>2, <2>3
<1>7. DposTyped'
  <2>1. /\ roundIndex' \in 0 .. MaxTurns /\ dposTick' \in 0 .. MaxSeats * Interval - 1
        /\ turns' \in Seq(Delegates) /\ meddled' \in BOOLEAN
    <3>1. 0 \in 0 .. MaxTurns /\ 0 \in 0 .. MaxSeats * Interval - 1
      <4>1. PICK n \in Nat \ {0} : n = MaxSeats * Interval
        BY DposFacts
      <4>2. 0 \in 0 .. n - 1
        OBVIOUS
      <4>3. QED
        BY <4>1, <4>2, DposFacts
    <3>2. <<>> \in Seq(Delegates)
      OBVIOUS
    <3>3. QED
      BY <1>1, <3>1, <3>2
  <2>2. QED
    BY <1>5, <2>1 DEF DposInv, DposTyped
<1>8. TurnsInOrder'
  <2>1. 0 * Interval = 0 /\ Interval \in Nat \ {0}
    BY DposFacts
  <2>2. Len(turns') = 0
    BY <1>1
  <2>3. QED
    BY <1>1, <2>1, <2>2 DEF TurnsInOrder
<1>9. (delegateVotes = Dpos!Tally(votedFor))'
  BY DEF DposInv, Dpos!Tally, Dpos!Credit, Dpos!MapThenSumSet, Dpos!MapThenFoldSet, Dpos!Voters
<1>10. QED
  BY <1>4, <1>6, <1>7, <1>8, <1>9 DEF DposInv

\* Taking back what a voter gave, and giving anew, keeps the tally.
LEMMA DposVote ==
    ASSUME Dpos!DposAssumption, DposInv,
           NEW v \in Dpos!Voters, NEW d \in Delegates \cup {Stranger}, Dpos!Vote(v, d)
    PROVE  DposInv'
<1>1. /\ votedFor' = [votedFor EXCEPT ![v] = <<d>>]
      /\ delegateVotes' = [e \in Delegates |-> delegateVotes[e] - Dpos!Credit(votedFor, v, e)
                                                 + Dpos!Credit(votedFor', v, e)]
      /\ UNCHANGED <<seats, roundIndex, dposTick, turns, meddled, skipped>>
  BY DEF Dpos!Vote, Dpos!observers
<1> DEFINE Vote == FirstVotes \cup {<<e>> : e \in Delegates \cup {Stranger}}
<1>2. votedFor \in [Dpos!Voters -> Vote] /\ delegateVotes = Dpos!Tally(votedFor)
  BY DEF DposInv, DposTyped
<1>3. votedFor' \in [Dpos!Voters -> Vote]
  BY <1>1, <1>2
<1>4. \A e \in Delegates : delegateVotes[e] = Paid(votedFor, e, Dpos!Voters)
  BY <1>2, TallyIsPaid
<1>5. \A e \in Delegates, w \in Dpos!Voters :
          /\ Dpos!Credit(votedFor, w, e) \in Nat /\ Dpos!Credit(votedFor', w, e) \in Nat
          /\ w # v => Dpos!Credit(votedFor, w, e) = Dpos!Credit(votedFor', w, e)
  <2>1. \A w \in Dpos!Voters \ {v} : votedFor'[w] = votedFor[w]
    BY <1>1, <1>2
  <2>2. \A e \in Delegates, w \in Dpos!Voters \ {v} :
            Dpos!Credit(votedFor, w, e) = Dpos!Credit(votedFor', w, e)
    BY <2>1 DEF Dpos!Credit
  <2>3. \A e \in Delegates, w \in Dpos!Voters : Dpos!Credit(votedFor, w, e) \in Nat
    BY <1>2, TallyIsPaid
  <2>4. \A e \in Delegates, w \in Dpos!Voters : Dpos!Credit(votedFor', w, e) \in Nat
    BY <1>3, TallyIsPaid
  <2>5. QED
    BY <2>2, <2>3, <2>4
<1>6. \A e \in Delegates : Paid(votedFor', e, Dpos!Voters)
          = Paid(votedFor, e, Dpos!Voters) - Dpos!Credit(votedFor, v, e)
                + Dpos!Credit(votedFor', v, e)
  <2> TAKE e \in Delegates
  <2>1. \A w \in Dpos!Voters : /\ Dpos!Credit(votedFor, w, e) \in Nat
                               /\ Dpos!Credit(votedFor', w, e) \in Nat
    BY <1>5
  <2>2. \A w \in Dpos!Voters \ {v} :
            Dpos!Credit(votedFor, w, e) = Dpos!Credit(votedFor', w, e)
    BY <1>5
  <2>3. QED
    BY <2>1, <2>2, DposVoters, PaidChanges, SMTT(40)
<1>7. delegateVotes' = [e \in Delegates |-> Paid(votedFor', e, Dpos!Voters)]
  BY <1>1, <1>4, <1>6
<1>8. (delegateVotes = Dpos!Tally(votedFor))'
  BY <1>3, <1>7, TallyIsPaid
<1>9. QED
  BY <1>1, <1>3, <1>8 DEF DposInv, DposTyped, AllSeated, TurnsInOrder

\* Where in the round the next tick is.
LEMMA NextTick ==
    ASSUME NEW d \in Nat \ {0}, NEW e \in Nat, NEW t \in Nat, e * d <= t, t < e * d + d
    PROVE  /\ (t + 1) % d = 0 => (e + 1) * d = t + 1
           /\ (t + 1) % d # 0 => t + 1 < e * d + d
<1>1. (e + 1) * d = e * d + d /\ e * d \in Nat
  OBVIOUS
<1>2. PICK p \in Nat : p = e * d
  BY <1>1
<1>3. PICK u \in Nat, f \in Nat : u = t + 1 /\ f = e + 1
  OBVIOUS
<1>4. CASE t + 1 < e * d + d
  <2>1. e * d <= u /\ u < e * d + d
    BY <1>2, <1>3, <1>4
  <2>2. u % d = u - e * d
    BY <2>1, DivideBy
  <2>3. u % d = t + 1 - p
    BY <1>2, <1>3, <2>2
  <2>4. t + 1 - p # 0
    BY <1>2
  <2>5. QED
    BY <1>3, <1>4, <2>3, <2>4
<1>5. CASE t + 1 = e * d + d
  <2>1. f * d <= u /\ u < f * d + d
    BY <1>1, <1>3, <1>5
  <2>2. u % d = u - f * d
    BY <2>1, DivideBy
  <2>3. u % d = 0
    BY <1>1, <1>3, <1>5, <2>2
  <2>4. QED
    BY <1>1, <1>3, <1>5, <2>3
<1>6. QED
  BY <1>1, <1>4, <1>5

LEMMA DposTick ==
    ASSUME Dpos!DposAssumption, DposInv, Dpos!Tick
    PROVE  DposInv'
<1> DEFINE L == MaxSeats * Interval
<1>1. /\ dposTick \in Nat /\ dposTick < L /\ L \in Nat \ {0} /\ Interval \in Nat \ {0}
      /\ roundIndex \in Nat
  BY DposFacts DEF DposInv, DposTyped
<1>2. /\ dposTick' = (dposTick + 1) % L
      /\ UNCHANGED <<votedFor, delegateVotes>>
      /\ IF dposTick' = 0 THEN Dpos!EndRound
         ELSE IF dposTick' % Interval = 0 THEN Dpos!Produce /\ UNCHANGED meddled
         ELSE UNCHANGED <<seats, roundIndex, turns, meddled, skipped>>
  BY DposFacts DEF Dpos!Tick, Dpos!observers
<1> HIDE DEF L
<1>3. CASE dposTick + 1 = L
  <2>1. dposTick' = 0
    <3>1. 1 * L = L /\ L <= 1 * L /\ L < 1 * L + L /\ 1 \in Nat
      BY <1>1
    <3>2. L % L = L - 1 * L
      BY <1>1, <3>1, DivideBy
    <3>3. QED
      BY <1>1, <1>2, <1>3, <3>1, <3>2
  <2>2. QED
    BY <1>2, <1>3, <2>1, DposEndRound DEF L
<1>4. CASE dposTick + 1 < L
  <2>1. dposTick' = dposTick + 1 /\ dposTick' # 0 /\ dposTick' \in 0 .. L - 1
    <3>1. PICK u \in Nat : u = dposTick + 1
      BY <1>1
    <3>2. u % L = u
      BY <1>1, <1>4, <3>1, SmallRemainder
    <3>3. QED
      BY <1>1, <1>2, <1>4, <3>1, <3>2
  <2>2. ~meddled => /\ dposTick' % Interval = 0 => (roundIndex + 1) * Interval = dposTick'
                    /\ dposTick' % Interval # 0 => dposTick' < roundIndex * Interval + Interval
    <3> SUFFICES ASSUME ~meddled
                 PROVE  /\ dposTick' % Interval = 0 => (roundIndex + 1) * Interval = dposTick'
                        /\ dposTick' % Interval # 0 =>
                               dposTick' < roundIndex * Interval + Interval
      OBVIOUS
    <3>1. /\ roundIndex * Interval <= dposTick
          /\ dposTick < roundIndex * Interval + Interval
      BY DEF DposInv, TurnsInOrder
    <3>2. QED
      BY <1>1, <2>1, <3>1, NextTick
  <2>3. CASE dposTick' % Interval = 0
    <3>1. Dpos!Produce /\ UNCHANGED meddled
      BY <1>2, <2>1, <2>3
    <3>2. ~meddled' => /\ ~meddled
                       /\ (roundIndex + 1) * Interval <= dposTick'
                       /\ dposTick' < (roundIndex + 1) * Interval + Interval
      BY <1>1, <2>1, <2>2, <2>3, <3>1
    <3>3. meddled' \in BOOLEAN
      BY <3>1 DEF DposInv, DposTyped
    <3>4. QED
      BY <1>2, <2>1, <3>1, <3>2, <3>3, DposProduce DEF L
  <2>4. CASE dposTick' % Interval # 0
    <3>1. UNCHANGED <<seats, roundIndex, turns, meddled, skipped>>
      BY <1>2, <2>1, <2>4
    <3>2. ~meddled => roundIndex * Interval <= dposTick'
      <4>1. PICK p \in Nat : p = roundIndex * Interval
        BY <1>1
      <4>2. QED
        BY <1>1, <2>1, <4>1 DEF DposInv, TurnsInOrder
    <3>3. ~meddled' => TurnsInOrder'
      BY <2>2, <2>4, <3>1, <3>2 DEF DposInv, TurnsInOrder
    <3>4. (delegateVotes = Dpos!Tally(votedFor))'
      BY <1>2 DEF DposInv, Dpos!Tally, Dpos!Credit, Dpos!MapThenSumSet,
                  Dpos!MapThenFoldSet, Dpos!Voters
    <3>5. DposTyped' /\ AllSeated(seats)'
      BY <1>2, <2>1, <3>1 DEF DposInv, DposTyped, AllSeated, L
    <3>6. QED
      BY <3>1, <3>3, <3>4, <3>5 DEF DposInv
  <2>5. QED
    BY <2>3, <2>4
<1>5. QED
  BY <1>1, <1>3, <1>4

LEMMA DposNext ==
    ASSUME Dpos!DposAssumption
    PROVE  DposInv /\ [Dpos!Next]_(Dpos!vars) => DposInv'
<1> SUFFICES ASSUME DposInv, [Dpos!Next]_(Dpos!vars) PROVE DposInv'
  OBVIOUS
<1>1. CASE UNCHANGED Dpos!vars
  <2>1. UNCHANGED <<votedFor, delegateVotes, seats, roundIndex, dposTick, turns, meddled,
                    skipped>>
    BY <1>1 DEF Dpos!vars, Dpos!observers
  <2>2. (delegateVotes = Dpos!Tally(votedFor))'
    BY <2>1 DEF DposInv, Dpos!Tally, Dpos!Credit, Dpos!MapThenSumSet,
                Dpos!MapThenFoldSet, Dpos!Voters
  <2>3. QED
    BY <2>1, <2>2 DEF DposInv, DposTyped, AllSeated, TurnsInOrder
<1>2. CASE Dpos!Tick
  BY <1>2, DposTick
<1>3. CASE Dpos!ProduceNow
  <2>1. Dpos!Produce /\ meddled' = TRUE /\ UNCHANGED <<votedFor, delegateVotes, dposTick>>
    BY <1>3 DEF Dpos!ProduceNow
  <2>2. dposTick' \in 0 .. MaxSeats * Interval - 1
    BY <2>1 DEF DposInv, DposTyped
  <2>3. QED
    BY <2>1, <2>2, DposProduce
<1>4. ASSUME NEW v \in Dpos!Voters, NEW d \in Delegates \cup {Stranger}, Dpos!Vote(v, d)
      PROVE  DposInv'
  BY <1>4, DposVote
<1>5. CASE Dpos!ReElect
  <2>1. /\ seats' \in Dpos!Elected(delegateVotes) /\ meddled' = TRUE
        /\ UNCHANGED <<votedFor, delegateVotes, roundIndex, dposTick, turns, skipped>>
    BY <1>5 DEF Dpos!ReElect
  <2>2. AllSeated(seats)'
    BY <2>1, ElectedAreSeated
  <2>3. (delegateVotes = Dpos!Tally(votedFor))'
    BY <2>1 DEF DposInv, Dpos!Tally, Dpos!Credit, Dpos!MapThenSumSet,
                Dpos!MapThenFoldSet, Dpos!Voters
  <2>4. DposTyped'
    BY <2>1 DEF DposInv, DposTyped
  <2>5. QED
    BY <2>1, <2>2, <2>3, <2>4 DEF DposInv
<1>6. QED
  BY <1>1, <1>2, <1>3, <1>4, <1>5 DEF Dpos!Next

(* The type invariant of the delegates' simulator, and that its votes and  *)
(* turns add up (dpos.go).                                                 *)
LEMMA DposAddsUp ==
    ASSUME Dpos!DposAssumption
    PROVE  Dpos!Spec => [](Dpos!TypeOK /\ Dpos!VotesAndTurnsAddUp)
<1>1. DposInv => Dpos!TypeOK /\ Dpos!VotesAndTurnsAddUp
  <2> SUFFICES ASSUME DposInv PROVE Dpos!TypeOK /\ Dpos!VotesAndTurnsAddUp
    OBVIOUS
  <2>1. delegateVotes \in [Delegates -> Nat]
    BY TallyIsPaid DEF DposInv, DposTyped
  <2>2. Dpos!TypeOK
    BY <2>1, DposFacts DEF DposInv, DposTyped, AllSeated, Dpos!TypeOK
  <2>3. Dpos!VotesAndTurnsAddUp
    BY DposCounts DEF DposInv, Dpos!VotesAndTurnsAddUp
  <2>4. QED
    BY <2>2, <2>3
<1>2. QED
  BY <1>1, DposInit, DposNext, PTL DEF Dpos!Spec

-----------------------------------------------------------------------------
(***************************************************************************)
(* Chain synchronisation.  What holds of the nodes before the pass reaches *)
(* a node holds after it: blocks are only copied.  The pass is a recursive *)
(* function; that there is one, and what it computes, is shown of a least  *)
(* node for which it could fail.                                           *)
(***************************************************************************)
\* Heights and synced nodes as they may be.
Copies(at) ==
    /\ at.heights \in [Sync!Nodes -> 0 .. MaxCanonical]
    /\ \A n \in Sync!Nodes : at.heights[n] <= first
    /\ at.synced \subseteq Sync!Nodes
    /\ at.synced # {} => first = SyncStart
    /\ \A n \in at.synced : at.heights[n] = SyncStart

SyncTyped ==
    /\ peers \in [Sync!Nodes -> SUBSET Sync!Nodes]
    /\ canonical \in SyncStart .. MaxCanonical
    /\ syncTick \in 0 .. SyncPeriod - 1 /\ first \in 0 .. SyncStart

SyncInv == SyncTyped /\ Copies([heights |-> heights, synced |-> synced])

NodePass(n, X) ==
    UNION {IF at.heights[n] = canonical \/ peers[n] = {} THEN {at}
           ELSE {Sync!Synced(at, n, p) : p \in peers[n]} : at \in X}

PassUpTo(f, k) ==
    f = [n \in 0 .. k |-> IF n = 0 THEN {[heights |-> heights, synced |-> synced]}
                         ELSE NodePass(n, f[n - 1])]

LEMMA PassDef == Sync!Passes = (CHOOSE f : PassUpTo(f, SyncNodes))[SyncNodes]
  BY DEF Sync!Passes, PassUpTo, NodePass

\* The least number in a set of numbers.
LEMMA LeastOne ==
    ASSUME NEW T, T \subseteq Nat, T # {}
    PROVE  \E m \in T : \A n \in T : m <= n
  BY MinOfNumbers

LEMMA PassExists ==
    ASSUME NEW k \in Nat
    PROVE  \E f : PassUpTo(f, k)
<1> DEFINE T == {m \in Nat : ~ \E f : PassUpTo(f, m)}
<1>1. ASSUME T # {} PROVE FALSE
  <2> HIDE DEF T
  <2>1. PICK m \in T : \A n \in T : m <= n
    <3>1. T \subseteq Nat
      BY DEF T
    <3>2. QED
      BY <1>1, <3>1, LeastOne
  <2>2. m \in Nat /\ ~ \E f : PassUpTo(f, m)
    BY DEF T
  <2> DEFINE now == {[heights |-> heights, synced |-> synced]}
  <2>3. CASE m = 0
    <3> DEFINE f == [n \in 0 .. m |-> now]
    <3>1. \A n \in 0 .. m : n = 0
      BY <2>3
    <3> HIDE DEF now
    <3>2. f = [n \in 0 .. m |-> IF n = 0 THEN now ELSE NodePass(n, f[n - 1])]
      BY <3>1
    <3>3. PassUpTo(f, m)
      BY <3>2 DEF PassUpTo, now
    <3>4. QED
      BY <2>2, <3>3
  <2>4. CASE m # 0
    <3>1. m - 1 \in Nat /\ m - 1 \notin T
      BY <2>1, <2>2, <2>4
    <3>2. PICK g : PassUpTo(g, m - 1)
      BY <3>1 DEF T
    <3> DEFINE f == [n \in 0 .. m |-> IF n = m THEN NodePass(m, g[m - 1]) ELSE g[n]]
    <3> HIDE DEF now
    <3>3. \A n \in 0 .. m - 1 : g[n] = IF n = 0 THEN now ELSE NodePass(n, g[n - 1])
      BY <3>2 DEF PassUpTo, now
    <3>4. \A n \in 0 .. m : n # 0 => n - 1 \in 0 .. m /\ n - 1 # m /\ f[n - 1] = g[n - 1]
      BY <2>2
    <3>5. \A n \in 0 .. m : f[n] = IF n = 0 THEN now ELSE NodePass(n, f[n - 1])
      <4> TAKE n \in 0 .. m
      <4>1. CASE n = m
        BY <2>4, <3>4, <4>1
      <4>2. CASE n # m
        <5>1. n \in 0 .. m - 1 /\ f[n] = g[n]
          BY <2>2, <4>2
        <5> HIDE DEF f
        <5>2. QED
          BY <3>3, <3>4, <5>1
      <4>3. QED
        BY <4>1, <4>2
    <3>6. f = [n \in 0 .. m |-> IF n = 0 THEN now ELSE NodePass(n, f[n - 1])]
      BY <3>5
    <3>7. PassUpTo(f, m)
      BY <3>6 DEF PassUpTo, now
    <3>8. QED
      BY <2>2, <3>7
  <2>5. QED
    BY <2>3, <2>4
<1>2. QED
  BY <1>1

LEMMA NodePassKeeps ==
    ASSUME Sync!ChainSyncAssumption, SyncTyped, NEW n \in Sync!Nodes, NEW X,
           \A at \in X : Copies(at)
    PROVE  \A at \in NodePass(n, X) : Copies(at)
<1> SUFFICES ASSUME NEW was \in X, NEW at,
                    at \in IF was.heights[n] = canonical \/ peers[n] = {} THEN {was}
                           ELSE {Sync!Synced(was, n, p) : p \in peers[n]}
             PROVE  Copies(at)
  BY DEF NodePass
<1>1. Copies(was)
  OBVIOUS
<1>2. CASE was.heights[n] = canonical \/ peers[n] = {}
  BY <1>1, <1>2
<1>3. CASE ~(was.heights[n] = canonical \/ peers[n] = {})
  <2>1. PICK p \in peers[n] : at = Sync!Synced(was, n, p)
    BY <1>3
  <2>2. /\ p \in Sync!Nodes /\ canonical \in SyncStart .. MaxCanonical /\ SyncStart \in Nat
        /\ MaxCanonical \in Nat /\ first \in 0 .. SyncStart
    BY DEF SyncTyped, Sync!ChainSyncAssumption
  <2> DEFINE h == IF was.heights[p] > was.heights[n]
                 THEN [was.heights EXCEPT ![n] = was.heights[n] + 1] ELSE was.heights
  <2>3. /\ at.heights = h
        /\ at.synced = was.synced \cup IF h[n] = canonical THEN {n} ELSE {}
    BY <2>1 DEF Sync!Synced, Sync!Ahead
  <2>4. /\ was.heights[n] \in 0 .. MaxCanonical /\ was.heights[p] \in 0 .. MaxCanonical
        /\ was.heights[n] <= first /\ was.heights[p] <= first
    BY <1>1, <2>2 DEF Copies
  <2>5. /\ h \in [Sync!Nodes -> 0 .. MaxCanonical]
        /\ \A m \in Sync!Nodes : h[m] <= first
        /\ \A m \in Sync!Nodes : was.heights[m] <= h[m]
    <3>1. CASE was.heights[p] > was.heights[n]
      BY <1>1, <2>2, <2>4, <3>1 DEF Copies
    <3>2. CASE ~(was.heights[p] > was.heights[n])
      BY <1>1, <2>2, <3>2 DEF Copies
    <3>3. QED
      BY <3>1, <3>2
  <2> HIDE DEF h
  <2>6. h[n] = canonical => first = SyncStart /\ h[n] = SyncStart
    BY <2>2, <2>5
  <2>7. \A m \in was.synced : h[m] = SyncStart
    BY <1>1, <2>2, <2>5 DEF Copies
  <2>8. QED
    BY <1>1, <2>3, <2>5, <2>6, <2>7 DEF Copies
<1>4. QED
  BY <1>2, <1>3

LEMMA PassKeeps ==
    ASSUME Sync!ChainSyncAssumption, SyncInv
    PROVE  \A at \in Sync!Passes : Copies(at)
<1>1. SyncNodes \in Nat
  BY DEF Sync!ChainSyncAssumption
<1>2. PICK f : f = CHOOSE g : PassUpTo(g, SyncNodes)
  OBVIOUS
<1>3. PassUpTo(f, SyncNodes) /\ Sync!Passes = f[SyncNodes]
  BY <1>1, <1>2, PassExists, PassDef
<1> DEFINE T == {n \in 0 .. SyncNodes : ~ \A at \in f[n] : Copies(at)}
<1>4. ASSUME T # {} PROVE FALSE
  <2> HIDE DEF T
  <2>1. PICK m \in T : \A n \in T : m <= n
    <3>1. T \subseteq Nat
      BY <1>1 DEF T
    <3>2. QED
      BY <1>4, <3>1, LeastOne
  <2>2. m \in 0 .. SyncNodes /\ ~ \A at \in f[m] : Copies(at)
    BY DEF T
  <2>3. f[m] = IF m = 0 THEN {[heights |-> heights, synced |-> synced]}
               ELSE NodePass(m, f[m - 1])
    BY <1>3, <2>2 DEF PassUpTo
  <2>4. m # 0
    BY <2>2, <2>3 DEF SyncInv
  <2>5. m - 1 \in 0 .. SyncNodes /\ m - 1 \notin T /\ m \in Sync!Nodes
    BY <1>1, <2>1, <2>2, <2>4 DEF Sync!Nodes
  <2>6. \A at \in f[m - 1] : Copies(at)
    BY <2>5 DEF T
  <2>7. QED
    BY <2>2, <2>3, <2>4, <2>5, <2>6, NodePassKeeps DEF SyncInv
<1>5. QED
  BY <1>1, <1>3, <1>4

LEMMA SyncInit ==
    ASSUME Sync!ChainSyncAssumption
    PROVE  Sync!Init => SyncInv
<1> SUFFICES ASSUME Sync!Init PROVE SyncInv
  OBVIOUS
<1>1. /\ SyncNodes \in Nat \ {0} /\ SyncStart \in Nat \ {0} /\ SyncPeriod \in Nat \ {0}
      /\ MaxCanonical \in Nat /\ SyncStart <= MaxCanonical /\ 1 \in Sync!Nodes
  BY DEF Sync!ChainSyncAssumption, Sync!Nodes
<1>2. /\ peers \in [Sync!Nodes -> SUBSET Sync!Nodes]
      /\ heights \in [Sync!Nodes -> 0 .. SyncStart] /\ synced = {} /\ canonical = SyncStart
      /\ syncTick = 0 /\ first = Sync!Max({heights[n] : n \in Sync!Nodes})
  BY DEF Sync!Init
<1> DEFINE H == {heights[n] : n \in Sync!Nodes}
<1>3. first = Max(H)
  BY <1>2 DEF Max, Sync!Max
<1>4. H \subseteq 0 .. SyncStart /\ H # {} /\ \A n \in Sync!Nodes : heights[n] \in H
  BY <1>1, <1>2
<1> HIDE DEF H
<1>5. first \in 0 .. SyncStart /\ \A h \in H : first >= h
  BY <1>1, <1>3, <1>4, MaxOfRange
<1>6. /\ heights \in [Sync!Nodes -> 0 .. MaxCanonical]
      /\ \A n \in Sync!Nodes : heights[n] <= first
  BY <1>1, <1>2, <1>4, <1>5
<1>7. QED
  BY <1>1, <1>2, <1>5, <1>6 DEF SyncInv, SyncTyped, Copies

LEMMA SyncNext ==
    ASSUME Sync!ChainSyncAssumption
    PROVE  SyncInv /\ [Sync!Next]_(Sync!vars) => SyncInv'
<1> SUFFICES ASSUME SyncInv, [Sync!Next]_(Sync!vars) PROVE SyncInv'
  OBVIOUS
<1>1. /\ SyncNodes \in Nat \ {0} /\ SyncStart \in Nat \ {0} /\ SyncPeriod \in Nat \ {0}
      /\ MaxCanonical \in Nat /\ SyncStart <= MaxCanonical
  BY DEF Sync!ChainSyncAssumption
<1>2. ASSUME Sync!Pass, UNCHANGED <<peers, first>> PROVE Copies([heights |-> heights, synced |-> synced])'
  <2>1. PICK at \in Sync!Passes : heights' = at.heights /\ synced' = at.synced
    BY <1>2 DEF Sync!Pass
  <2>2. Copies(at)
    BY <2>1, PassKeeps
  <2>3. QED
    BY <1>2, <2>1, <2>2 DEF Copies, Sync!Nodes
<1>3. CASE UNCHANGED Sync!vars
  BY <1>3 DEF Sync!vars, SyncInv, SyncTyped, Copies
<1>4. CASE Sync!Tick
  <2>1. /\ Sync!Pass /\ UNCHANGED <<peers, first>>
        /\ syncTick' = (syncTick + 1) % SyncPeriod
        /\ canonical' = canonical \/ (canonical < MaxCanonical /\ canonical' = canonical + 1)
    BY <1>4 DEF Sync!Tick
  <2>2. syncTick' \in 0 .. SyncPeriod - 1
    BY <1>1, <2>1 DEF SyncInv, SyncTyped
  <2>3. canonical' \in SyncStart .. MaxCanonical
    BY <1>1, <2>1 DEF SyncInv, SyncTyped
  <2>4. QED
    BY <1>2, <2>1, <2>2, <2>3 DEF SyncInv, SyncTyped
<1>5. CASE Sync!SyncRound
  BY <1>2, <1>5 DEF Sync!SyncRound, SyncInv, SyncTyped
<1>6. QED
  BY <1>3, <1>4, <1>5 DEF Sync!Next

(* The type invariant of chain synchronisation, and that nobody leads      *)
(* (chain_sync.go).                                                        *)
LEMMA SyncNobodyLeads ==
    ASSUME Sync!ChainSyncAssumption
    PROVE  Sync!Spec => [](Sync!TypeOK /\ Sync!NobodyLeads)
<1>1. SyncInv => Sync!TypeOK /\ Sync!NobodyLeads
  BY DEF SyncInv, SyncTyped, Copies, Sync!TypeOK, Sync!NobodyLeads
<1>2. QED
  BY <1>1, SyncInit, SyncNext, PTL DEF Sync!Spec

-----------------------------------------------------------------------------
(***************************************************************************)
(* The DAG.  A vertex refers to at least one tip and there is but one: the *)
(* graph is a chain, the ancestors of a vertex are those before it, and    *)
(* its confirmers those after it.                                          *)
(***************************************************************************)
Chain(d) ==
    /\ d.parents \in Seq(SUBSET Nat) /\ Len(d.parents) > 0
    /\ d.parents[1] = {} /\ \A v \in 2 .. Len(d.parents) : d.parents[v] = {v - 1}
    /\ d.tips = {Len(d.parents)}
    /\ limits[1] > 1 => Len(d.parents) = 1

ConfirmedOf(d) ==
    /\ confirmed \subseteq 1 .. Len(d.parents)
    /\ \A v \in confirmed : 1 .. v \subseteq confirmed
    /\ confirmedCount = Cardinality(confirmed)

DagInv ==
    /\ limits \in Limits /\ selection \in {"weighted", "mcmc"} /\ dagTick \in 0 .. 4
    /\ Chain(dag) /\ Len(dag.parents) <= MaxVertices
    /\ ConfirmedOf(dag)

LEMMA DagCounts ==
    ASSUME NEW S
    PROVE  Dag!Cardinality(S) = Cardinality(S)
  BY DEF Dag!Cardinality, Cardinality

LEMMA DagInit ==
    ASSUME Dag!DagAssumption
    PROVE  Dag!Init => DagInv
<1> SUFFICES ASSUME Dag!Init PROVE DagInv
  OBVIOUS
<1>1. /\ limits \in Limits /\ selection \in {"weighted", "mcmc"} /\ dagTick = 0
      /\ dag = [parents |-> <<{}>>, tips |-> {1}] /\ confirmed = {1} /\ confirmedCount = 1
      /\ MaxVertices \in Nat \ {0}
  BY DEF Dag!Init, Dag!Genesis, Dag!DagAssumption
<1>2. /\ dag.parents \in Seq(SUBSET Nat) /\ Len(dag.parents) = 1 /\ dag.parents[1] = {}
      /\ dag.tips = {1}
  BY <1>1
<1>3. Cardinality({1}) = 1
  BY FS_Singleton
<1>4. Chain(dag) /\ Len(dag.parents) <= MaxVertices
  BY <1>1, <1>2 DEF Chain
<1>5. ConfirmedOf(dag)
  BY <1>1, <1>2, <1>3 DEF ConfirmedOf
<1>6. QED
  BY <1>1, <1>4, <1>5 DEF DagInv

LEMMA CreatedIsChain ==
    ASSUME Dag!DagAssumption, limits \in Limits, NEW d, Chain(d), NEW e \in Dag!Created(d)
    PROVE  Chain(e) /\ Len(e.parents) = Len(d.parents) + 1
<1> DEFINE n == Len(d.parents)
<1>1. /\ d.parents \in Seq(SUBSET Nat) /\ n \in Nat \ {0} /\ DOMAIN d.parents = 1 .. n
      /\ d.tips = {n} /\ limits[1] \in Nat \ {0}
  BY DEF Chain, Dag!DagAssumption
<1>2. PICK ps \in Dag!Selections(d) :
          /\ Dag!Enough(ps)
          /\ e = [parents |-> Append(d.parents, ps), tips |-> (d.tips \ ps) \cup {n + 1}]
  BY DEF Dag!Created
<1> HIDE DEF n
<1>3. ps \subseteq {n}
  BY <1>1, <1>2 DEF Dag!Selections, Dag!kSubset
<1>4. Cardinality(ps) >= limits[1]
  BY <1>2, DagCounts DEF Dag!Enough
<1>5. ps = {n} /\ limits[1] = 1
  <2>1. CASE ps = {}
    <3>1. Cardinality(ps) = 0
      BY <2>1, FS_EmptySet
    <3>2. QED
      BY <1>1, <1>4, <3>1
  <2>2. CASE ps = {n}
    <3>1. Cardinality(ps) = 1
      BY <2>2, FS_Singleton
    <3>2. QED
      BY <1>1, <1>4, <2>2, <3>1
  <2>3. QED
    BY <1>3, <2>1, <2>2
<1>6. e.parents = Append(d.parents, {n}) /\ e.tips = {n + 1}
  BY <1>1, <1>2, <1>5
<1>7. /\ e.parents \in Seq(SUBSET Nat) /\ Len(e.parents) = n + 1
      /\ \A v \in 1 .. n : e.parents[v] = d.parents[v]
      /\ e.parents[n + 1] = {n}
  <2>1. {n} \in SUBSET Nat /\ Len(d.parents) = n
    BY <1>1 DEF n
  <2>2. QED
    BY <1>1, <1>6, <2>1
<1>8. \A v \in 2 .. n : d.parents[v] = {v - 1}
  BY DEF Chain, n
<1>9. d.parents[1] = {}
  BY DEF Chain
<1>10. e.parents[1] = {} /\ \A v \in 2 .. Len(e.parents) : e.parents[v] = {v - 1}
  BY <1>1, <1>7, <1>8, <1>9
<1>11. QED
  BY <1>1, <1>5, <1>6, <1>7, <1>10 DEF Chain, n

\* The graphs that some of the first n nodes may leave.
Grown(X) == X \cup UNION {Dag!Created(d) : d \in X}

GrownUpTo(f, k) == f = [n \in 0 .. k |-> IF n = 0 THEN {dag} ELSE Grown(f[n - 1])]

LEMMA GrownExists ==
    ASSUME NEW k \in Nat
    PROVE  \E f : GrownUpTo(f, k)
<1> DEFINE T == {m \in Nat : ~ \E f : GrownUpTo(f, m)}
<1>1. ASSUME T # {} PROVE FALSE
  <2> HIDE DEF T
  <2>1. PICK m \in T : \A n \in T : m <= n
    <3>1. T \subseteq Nat
      BY DEF T
    <3>2. QED
      BY <1>1, <3>1, LeastOne
  <2>2. m \in Nat /\ ~ \E f : GrownUpTo(f, m)
    BY DEF T
  <2>3. CASE m = 0
    <3> DEFINE f == [n \in 0 .. m |-> {dag}]
    <3>1. \A n \in 0 .. m : n = 0
      BY <2>3
    <3>2. f = [n \in 0 .. m |-> IF n = 0 THEN {dag} ELSE Grown(f[n - 1])]
      BY <3>1
    <3>3. GrownUpTo(f, m)
      BY <3>2 DEF GrownUpTo
    <3>4. QED
      BY <2>2, <3>3
  <2>4. CASE m # 0
    <3>1. m - 1 \in Nat /\ m - 1 \notin T
      BY <2>1, <2>2, <2>4
    <3>2. PICK g : GrownUpTo(g, m - 1)
      BY <3>1 DEF T
    <3> DEFINE f == [n \in 0 .. m |-> IF n = m THEN Grown(g[m - 1]) ELSE g[n]]
    <3>3. \A n \in 0 .. m - 1 : g[n] = IF n = 0 THEN {dag} ELSE Grown(g[n - 1])
      BY <3>2 DEF GrownUpTo
    <3>4. \A n \in 0 .. m : n # 0 => n - 1 \in 0 .. m /\ n - 1 # m /\ f[n - 1] = g[n - 1]
      BY <2>2
    <3>5. \A n \in 0 .. m : f[n] = IF n = 0 THEN {dag} ELSE Grown(f[n - 1])
      <4> TAKE n \in 0 .. m
      <4>1. CASE n = m
        BY <2>4, <3>4, <4>1
      <4>2. CASE n # m
        <5>1. n \in 0 .. m - 1 /\ f[n] = g[n]
          BY <2>2, <4>2
        <5> HIDE DEF f
        <5>2. QED
          BY <3>3, <3>4, <5>1
      <4>3. QED
        BY <4>1, <4>2
    <3>6. f = [n \in 0 .. m |-> IF n = 0 THEN {dag} ELSE Grown(f[n - 1])]
      BY <3>5
    <3>7. GrownUpTo(f, m)
      BY <3>6 DEF GrownUpTo
    <3>8. QED
      BY <2>2, <3>7
  <2>5. QED
    BY <2>3, <2>4
<1>2. QED
  BY <1>1

\* A chain no shorter than the one there was.
NotShorter(d) == Chain(d) /\ Len(dag.parents) <= Len(d.parents)

LEMMA GrownIsChain ==
    ASSUME Dag!DagAssumption, DagInv, NEW k \in Nat, NEW f, GrownUpTo(f, k), NEW d \in f[k]
    PROVE  NotShorter(d)
<1> DEFINE T == {n \in 0 .. k : ~ \A e \in f[n] : NotShorter(e)}
<1>1. ASSUME T # {} PROVE FALSE
  <2> HIDE DEF T
  <2>1. PICK m \in T : \A n \in T : m <= n
    <3>1. T \subseteq Nat
      BY DEF T
    <3>2. QED
      BY <1>1, <3>1, LeastOne
  <2>2. m \in 0 .. k /\ ~ \A e \in f[m] : NotShorter(e)
    BY DEF T
  <2>3. f[m] = IF m = 0 THEN {dag} ELSE Grown(f[m - 1])
    BY <2>2 DEF GrownUpTo
  <2>4. m # 0
    BY <2>2, <2>3 DEF DagInv, NotShorter, Chain
  <2>5. m - 1 \in 0 .. k /\ m - 1 \notin T
    BY <2>1, <2>2, <2>4
  <2>6. \A e \in f[m - 1] : NotShorter(e)
    BY <2>5 DEF T
  <2>7. \A g \in f[m - 1] : \A e \in Dag!Created(g) : NotShorter(e)
    <3> SUFFICES ASSUME NEW g \in f[m - 1], NEW e \in Dag!Created(g) PROVE NotShorter(e)
      OBVIOUS
    <3>1. NotShorter(g) /\ Chain(e) /\ Len(e.parents) = Len(g.parents) + 1
      BY <2>6, CreatedIsChain DEF DagInv, NotShorter
    <3>2. Len(dag.parents) \in Nat /\ Len(g.parents) \in Nat
      BY <3>1 DEF DagInv, NotShorter, Chain
    <3>3. QED
      BY <3>1, <3>2 DEF NotShorter
  <2>8. QED
    BY <2>2, <2>3, <2>4, <2>6, <2>7 DEF Grown
<1>2. QED
  BY <1>1

\* The function that Ancestors chooses.
Above(f, d) == f = [v \in DOMAIN d.parents |-> d.parents[v] \cup UNION {f[p] : p \in d.parents[v]}]

LEMMA AncestorsOfChain ==
    ASSUME NEW d, Chain(d), NEW v \in 1 .. Len(d.parents)
    PROVE  Dag!Ancestors(d)[v] = 1 .. v - 1
<1> DEFINE n == Len(d.parents)
           g == [u \in DOMAIN d.parents |-> 1 .. u - 1]
<1>1. /\ n \in Nat \ {0} /\ DOMAIN d.parents = 1 .. n /\ d.parents[1] = {}
      /\ \A u \in 2 .. n : d.parents[u] = {u - 1}
  BY DEF Chain
<1>2. Dag!Ancestors(d) = CHOOSE f : Above(f, d)
  BY DEF Dag!Ancestors, Above
<1> HIDE DEF n
<1>3. Above(g, d)
  <2>1. \A u \in DOMAIN d.parents :
            1 .. u - 1 = d.parents[u] \cup UNION {g[p] : p \in d.parents[u]}
    <3> TAKE u \in DOMAIN d.parents
    <3>1. CASE u = 1
      <4>1. d.parents[u] = {} /\ 1 .. u - 1 = {}
        BY <1>1, <3>1
      <4>2. UNION {g[p] : p \in d.parents[u]} = {}
        BY <4>1
      <4>3. QED
        BY <4>1, <4>2
    <3>2. CASE u # 1
      <4>1. d.parents[u] = {u - 1} /\ u - 1 \in DOMAIN d.parents /\ u \in Nat /\ u > 1
        BY <1>1, <3>2
      <4>2. UNION {g[p] : p \in d.parents[u]} = 1 .. (u - 1) - 1
        BY <4>1
      <4>3. 1 .. u - 1 = {u - 1} \cup 1 .. (u - 1) - 1
        BY <4>1
      <4>4. QED
        BY <4>1, <4>2, <4>3
    <3>3. QED
      BY <3>1, <3>2
  <2>2. QED
    BY <2>1 DEF Above
<1>4. PICK f : f = CHOOSE h : Above(h, d)
  OBVIOUS
<1>5. Above(f, d)
  BY <1>3, <1>4
<1> DEFINE T == {u \in 1 .. n : f[u] # 1 .. u - 1}
<1>6. ASSUME T # {} PROVE FALSE
  <2> HIDE DEF T
  <2>1. PICK m \in T : \A u \in T : m <= u
    <3>1. T \subseteq Nat
      BY <1>1 DEF T
    <3>2. QED
      BY <1>6, <3>1, LeastOne
  <2>2. m \in 1 .. n /\ f[m] # 1 .. m - 1
    BY DEF T
  <2>3. f[m] = d.parents[m] \cup UNION {f[p] : p \in d.parents[m]}
    BY <1>1, <1>5, <2>2 DEF Above
  <2>4. CASE m = 1
    BY <1>1, <2>2, <2>3, <2>4
  <2>5. CASE m # 1
    <3>1. d.parents[m] = {m - 1} /\ m - 1 \in 1 .. n /\ m - 1 \notin T /\ m \in Nat /\ m > 1
      BY <1>1, <2>1, <2>2, <2>5
    <3>2. f[m - 1] = 1 .. (m - 1) - 1
      BY <3>1 DEF T
    <3>3. 1 .. m - 1 = {m - 1} \cup 1 .. (m - 1) - 1
      BY <3>1
    <3>4. QED
      BY <2>2, <2>3, <3>1, <3>2, <3>3
  <2>6. QED
    BY <2>4, <2>5
<1>7. QED
  BY <1>2, <1>4, <1>6 DEF n

\* What is confirmed anew has confirmed ancestors, too.
LEMMA ConfirmKeeps ==
    ASSUME Dag!DagAssumption, NEW d, Chain(d), Dag!Confirm(d),
           confirmed \subseteq 1 .. Len(d.parents),
           \A v \in confirmed : 1 .. v \subseteq confirmed,
           confirmedCount = Cardinality(confirmed)
    PROVE  /\ confirmed' \subseteq 1 .. Len(d.parents)
           /\ \A v \in confirmed' : 1 .. v \subseteq confirmed'
           /\ confirmedCount' = Cardinality(confirmed')
<1> DEFINE n == Len(d.parents)
           C(v) == Dag!Confirmers(d, v)
           news == {v \in DOMAIN d.parents \ confirmed : Dag!Cardinality(C(v)) >= DagNodes \div 2}
<1>1. /\ confirmed' = confirmed \cup news
      /\ confirmedCount' = confirmedCount + Cardinality(news)
  BY DagCounts DEF Dag!Confirm
<1>2. n \in Nat \ {0} /\ DOMAIN d.parents = 1 .. n
  BY DEF Chain
<1>3. IsFiniteSet(1 .. n)
  BY <1>2, UpToFinite
<1>4. \A v \in 1 .. n : IsFiniteSet(C(v)) /\ Cardinality(C(v)) \in Nat
  <2> TAKE v \in 1 .. n
  <2>1. C(v) \subseteq 1 .. n
    BY <1>2 DEF Dag!Confirmers
  <2> HIDE DEF C
  <2>2. QED
    BY <1>3, <2>1, FS_Subset, FS_CardinalityType
<1>5. \A v \in 1 .. n, u \in 1 .. n : u <= v => C(v) \subseteq C(u)
  <2> SUFFICES ASSUME NEW v \in 1 .. n, NEW u \in 1 .. n, u <= v, NEW w \in C(v)
               PROVE  w \in C(u)
    OBVIOUS
  <2>1. w \in 1 .. n /\ v \in Dag!Ancestors(d)[w]
    BY <1>2 DEF Dag!Confirmers
  <2>2. Dag!Ancestors(d)[w] = 1 .. w - 1
    BY <2>1, AncestorsOfChain
  <2>3. u \in Dag!Ancestors(d)[w]
    BY <1>2, <2>1, <2>2
  <2>4. QED
    BY <1>2, <2>1, <2>3 DEF Dag!Confirmers
<1>6. DagNodes \div 2 \in Nat
  BY DEF Dag!DagAssumption
<1>7. news = {v \in (1 .. n) \ confirmed : Cardinality(C(v)) >= DagNodes \div 2}
  BY <1>2, DagCounts
<1> HIDE DEF news, C, n
<1>8. \A v \in news : \A u \in 1 .. v : u \in confirmed \cup news
  <2> SUFFICES ASSUME NEW v \in news, NEW u \in 1 .. v, u \notin confirmed
               PROVE  u \in news
    OBVIOUS
  <2>1. v \in 1 .. n /\ u \in 1 .. n /\ u <= v /\ Cardinality(C(v)) >= DagNodes \div 2
    BY <1>2, <1>7
  <2>2. Cardinality(C(v)) <= Cardinality(C(u))
    BY <1>4, <1>5, <2>1, FS_Subset
  <2>3. Cardinality(C(u)) >= DagNodes \div 2
    BY <1>4, <1>6, <2>1, <2>2
  <2>4. QED
    BY <1>7, <2>1, <2>3
<1>9. news \subseteq 1 .. n /\ IsFiniteSet(news) /\ news \cap confirmed = {}
  BY <1>3, <1>7, FS_Subset
<1>10. IsFiniteSet(confirmed)
  BY <1>3, FS_Subset DEF n
<1>11. Cardinality(confirmed \cup news) = Cardinality(confirmed) + Cardinality(news)
  <2>1. /\ Cardinality(confirmed \cup news)
           = Cardinality(confirmed) + Cardinality(news) - Cardinality(confirmed \cap news)
    BY <1>9, <1>10, FS_Union
  <2>2. confirmed \cap news = {} /\ Cardinality({}) = 0
    BY <1>9, FS_EmptySet
  <2>3. Cardinality(confirmed) \in Nat /\ Cardinality(news) \in Nat
    BY <1>9, <1>10, FS_CardinalityType
  <2>4. Cardinality(confirmed \cap news) = 0
    BY <2>2
  <2>5. QED
    BY <2>1, <2>3, <2>4
<1>12. QED
  BY <1>1, <1>8, <1>9, <1>11 DEF n

LEMMA DagNext ==
    ASSUME Dag!DagAssumption
    PROVE  DagInv /\ [Dag!Next]_(Dag!vars) => DagInv'
<1> SUFFICES ASSUME DagInv, [Dag!Next]_(Dag!vars) PROVE DagInv'
  OBVIOUS
<1>0. \A d : Chain(d) /\ UNCHANGED limits => Chain(d)'
  BY DEF Chain
<1>1. CASE UNCHANGED Dag!vars
  BY <1>1 DEF Dag!vars, DagInv, ConfirmedOf, Chain
<1>2. ASSUME NEW d, Chain(d), Len(d.parents) <= MaxVertices, dag' = d,
             Len(d.parents) >= Len(dag.parents), UNCHANGED <<limits, selection>>, dagTick' \in 0 .. 4,
             Dag!Confirm(d) \/ UNCHANGED <<confirmed, confirmedCount>>
      PROVE  DagInv'
  <2>1. Chain(dag)' /\ Len(dag'.parents) <= MaxVertices
    BY <1>2 DEF Chain
  <2>2. /\ confirmed \subseteq 1 .. Len(d.parents)
        /\ \A v \in confirmed : 1 .. v \subseteq confirmed
        /\ confirmedCount = Cardinality(confirmed)
    <3>1. Len(d.parents) \in Nat /\ Len(dag.parents) \in Nat
      BY <1>2 DEF DagInv, Chain
    <3>2. 1 .. Len(dag.parents) \subseteq 1 .. Len(d.parents)
      BY <1>2, <3>1
    <3>3. QED
      BY <3>2 DEF DagInv, ConfirmedOf
  <2>3. ConfirmedOf(dag)'
    <3>1. CASE Dag!Confirm(d)
      BY <1>2, <2>2, <3>1, ConfirmKeeps DEF ConfirmedOf
    <3>2. CASE UNCHANGED <<confirmed, confirmedCount>>
      BY <1>2, <2>2, <3>2 DEF ConfirmedOf
    <3>3. QED
      BY <1>2, <3>1, <3>2
  <2>4. QED
    BY <1>2, <2>1, <2>3 DEF DagInv
<1>3. CASE Dag!Tick
  <2>0. PICK f : f = CHOOSE g : GrownUpTo(g, DagNodes)
    OBVIOUS
  <2>1. PICK d \in f[DagNodes] :
            /\ Len(d.parents) <= MaxVertices /\ dag' = d
            /\ Dag!Confirm(d) \/ UNCHANGED <<confirmed, confirmedCount>>
    BY <1>3, <2>0 DEF Dag!Tick, GrownUpTo, Grown
  <2>2. DagNodes \in Nat
    BY DEF Dag!DagAssumption
  <2>3. NotShorter(d)
    BY <2>0, <2>1, <2>2, GrownExists, GrownIsChain
  <2>4. /\ UNCHANGED <<limits, selection>> /\ dagTick' \in 0 .. 4
    BY <1>3 DEF Dag!Tick, DagInv
  <2>5. Len(d.parents) >= Len(dag.parents)
    BY <2>3 DEF NotShorter, DagInv, Chain
  <2>6. QED
    BY <1>2, <2>1, <2>3, <2>4, <2>5 DEF NotShorter
<1>4. CASE Dag!CreateVertex
  <2>1. PICK d \in Dag!Created(dag) : Len(d.parents) <= MaxVertices /\ dag' = d
    BY <1>4 DEF Dag!CreateVertex
  <2>2. Chain(d) /\ Len(d.parents) = Len(dag.parents) + 1
    BY <2>1, CreatedIsChain DEF DagInv
  <2>3. Len(d.parents) >= Len(dag.parents)
    BY <2>2 DEF DagInv, Chain
  <2>4. /\ UNCHANGED <<limits, selection, confirmed, confirmedCount>> /\ dagTick' \in 0 .. 4
    BY <1>4 DEF Dag!CreateVertex, DagInv
  <2>5. QED
    BY <1>2, <2>1, <2>2, <2>3, <2>4
<1>5. CASE Dag!UpdateConfirmations
  <2>1. /\ Dag!Confirm(dag) /\ UNCHANGED <<limits, selection, dag>> /\ dagTick' \in 0 .. 4
    BY <1>5 DEF Dag!UpdateConfirmations, DagInv
  <2>2. Len(dag.parents) >= Len(dag.parents)
    BY DEF DagInv, Chain
  <2>3. Chain(dag) /\ Len(dag.parents) <= MaxVertices /\ dag' = dag
    BY <2>1 DEF DagInv
  <2>4. QED
    BY <1>2, <2>1, <2>2, <2>3
<1>6. QED
  BY <1>1, <1>3, <1>4, <1>5 DEF Dag!Next

(* The DAG's type invariant, and that it stays a chain (dag.go).           *)
LEMMA DagStaysChain ==
    ASSUME Dag!DagAssumption
    PROVE  Dag!Spec => [](Dag!TypeOK /\ Dag!OneTip)
<1>1. DagInv => Dag!TypeOK /\ Dag!OneTip
  <2> SUFFICES ASSUME DagInv PROVE Dag!TypeOK /\ Dag!OneTip
    OBVIOUS
  <2>1. /\ Len(dag.parents) \in Nat \ {0} /\ DOMAIN dag.parents = 1 .. Len(dag.parents)
        /\ dag.parents[1] = {} /\ \A v \in 2 .. Len(dag.parents) : dag.parents[v] = {v - 1}
        /\ dag.tips = {Len(dag.parents)} /\ MaxVertices \in Nat
        /\ Len(dag.parents) <= MaxVertices
    BY SMTT(40) DEF DagInv, Chain, Dag!DagAssumption
  <2>2. confirmed \subseteq 1 .. Len(dag.parents) /\ confirmedCount \in Nat
    <3>1. IsFiniteSet(confirmed)
      <4>1. IsFiniteSet(1 .. Len(dag.parents)) /\ confirmed \subseteq 1 .. Len(dag.parents)
        BY <2>1, UpToFinite DEF DagInv, ConfirmedOf
      <4>2. QED
        BY <4>1, FS_Subset
    <3>2. QED
      BY <3>1, FS_CardinalityType DEF DagInv, ConfirmedOf
  <2>3. \A v \in DOMAIN dag.parents : dag.parents[v] \subseteq 1 .. v - 1
    BY <2>1
  <2>4. Dag!TypeOK
    BY <2>1, <2>2, <2>3 DEF DagInv, Dag!TypeOK
  <2>5. \A v \in confirmed : Dag!Ancestors(dag)[v] \subseteq confirmed
    <3> TAKE v \in confirmed
    <3>1. v \in 1 .. Len(dag.parents) /\ 1 .. v \subseteq confirmed
      BY <2>2 DEF DagInv, ConfirmedOf
    <3>2. Dag!Ancestors(dag)[v] = 1 .. v - 1
      BY <3>1, AncestorsOfChain DEF DagInv
    <3>3. 1 .. v - 1 \subseteq 1 .. v
      BY <2>1, <3>1
    <3>4. QED
      BY <3>1, <3>2, <3>3
  <2>6. QED
    BY <2>4, <2>5, DagCounts DEF DagInv, ConfirmedOf, Chain, Dag!OneTip
<1>2. QED
  BY <1>1, DagInit, DagNext, PTL DEF Dag!Spec

-----------------------------------------------------------------------------
(***************************************************************************)
(* Fork choice: paths and heights in a tree whose blocks come after their  *)
(* parents.                                                                *)
(***************************************************************************)
Tree(t) ==
    /\ t.parent \in Seq(Nat) /\ Len(t.parent) > 0 /\ t.parent[1] = 0
    /\ \A b \in 2 .. Len(t.parent) : t.parent[b] \in 1 .. b - 1

Blocks(t) == 1 .. Len(t.parent)
Path(t, b) == Fork!Paths(t)[b]

PathsTo(f, t, k) ==
    f = [b \in 1 .. k |-> IF b = 1 THEN {b} ELSE {b} \cup f[t.parent[b]]]

LEMMA TreeBlocks ==
    ASSUME NEW t, Tree(t)
    PROVE  /\ DOMAIN t.parent = Blocks(t) /\ Len(t.parent) \in Nat \ {0} /\ 1 \in Blocks(t)
           /\ Blocks(t) \subseteq Nat \ {0}
           /\ \A b \in Blocks(t) : b # 1 => t.parent[b] \in Blocks(t) /\ t.parent[b] < b
<1>1. Len(t.parent) \in Nat \ {0} /\ DOMAIN t.parent = 1 .. Len(t.parent)
  BY DEF Tree
<1>2. ASSUME NEW b \in Blocks(t), b # 1 PROVE t.parent[b] \in Blocks(t) /\ t.parent[b] < b
  <2>1. b \in 2 .. Len(t.parent)
    BY <1>1, <1>2 DEF Blocks
  <2>2. t.parent[b] \in 1 .. b - 1
    BY <2>1 DEF Tree
  <2>3. QED
    BY <1>1, <2>1, <2>2 DEF Blocks
<1>3. QED
  BY <1>1, <1>2 DEF Blocks

LEMMA PathsExist ==
    ASSUME NEW t, Tree(t), NEW k \in 0 .. Len(t.parent)
    PROVE  \E f : PathsTo(f, t, k)
<1> DEFINE n == Len(t.parent)
           T == {m \in 0 .. n : ~ \E f : PathsTo(f, t, m)}
<1>0. n \in Nat \ {0} /\ \A b \in 2 .. n : t.parent[b] \in 1 .. b - 1
  BY DEF Tree
<1>1. ASSUME T # {} PROVE FALSE
  <2> HIDE DEF T, n
  <2>1. PICK m \in T : \A j \in T : m <= j
    <3>1. T \subseteq Nat
      BY <1>0 DEF T
    <3>2. QED
      BY <1>1, <3>1, LeastOne
  <2>2. m \in 0 .. n /\ ~ \E f : PathsTo(f, t, m)
    BY DEF T
  <2>3. CASE m = 0
    <3> DEFINE f == [b \in 1 .. m |-> {}]
    <3>1. \A b \in 1 .. m : FALSE
      BY <2>3
    <3>2. f = [b \in 1 .. m |-> IF b = 1 THEN {b} ELSE {b} \cup f[t.parent[b]]]
      BY <3>1
    <3>3. PathsTo(f, t, m)
      BY <3>2 DEF PathsTo
    <3>4. QED
      BY <2>2, <3>3
  <2>4. CASE m # 0
    <3>1. m - 1 \in 0 .. n /\ m - 1 \notin T
      BY <1>0, <2>1, <2>2, <2>4
    <3>2. PICK g : PathsTo(g, t, m - 1)
      BY <3>1 DEF T
    <3> DEFINE Onward(b, h) == IF b = 1 THEN {b} ELSE {b} \cup h[t.parent[b]]
               f == [b \in 1 .. m |-> IF b = m THEN Onward(b, g) ELSE g[b]]
    <3>3. \A b \in 1 .. m - 1 : g[b] = Onward(b, g) /\ f[b] = g[b]
      <4>1. \A b \in 1 .. m - 1 : b \in 1 .. m /\ b # m
        BY <1>0, <2>2, <2>4
      <4>2. QED
        BY <3>2, <4>1 DEF PathsTo
    <3>4. \A b \in 1 .. m : b # 1 => t.parent[b] \in 1 .. m - 1
      BY <1>0, <2>2
    <3>5. \A b \in 1 .. m : f[b] = Onward(b, f)
      <4> TAKE b \in 1 .. m
      <4>1. f[b] = Onward(b, g)
        <5>1. CASE b = m
          BY <5>1
        <5>2. CASE b # m
          <6>1. b \in 1 .. m - 1
            BY <1>0, <2>2, <5>2
          <6> HIDE DEF f, Onward
          <6>2. QED
            BY <3>3, <6>1
        <5>3. QED
          BY <5>1, <5>2
      <4>2. Onward(b, g) = Onward(b, f)
        <5>1. CASE b = 1
          BY <5>1
        <5>2. CASE b # 1
          <6>1. f[t.parent[b]] = g[t.parent[b]]
            BY <3>3, <3>4, <5>2
          <6> HIDE DEF f
          <6>2. QED
            BY <6>1
        <5>3. QED
          BY <5>1, <5>2
      <4> HIDE DEF f, Onward
      <4>3. QED
        BY <4>1, <4>2
    <3>6. f = [b \in 1 .. m |-> Onward(b, f)]
      BY <3>5, ZenonT(60)
    <3>7. PathsTo(f, t, m)
      BY <3>6 DEF PathsTo
    <3>8. QED
      BY <2>2, <3>7
  <2>5. QED
    BY <2>3, <2>4
<1>2. QED
  BY <1>1

LEMMA PathOf ==
    ASSUME NEW t, Tree(t), NEW b \in Blocks(t)
    PROVE  Path(t, b) = IF b = 1 THEN {1} ELSE {b} \cup Path(t, t.parent[b])
<1>1. DOMAIN t.parent = 1 .. Len(t.parent) /\ Len(t.parent) \in Nat
  BY DEF Tree
<1>2. Fork!Paths(t) = CHOOSE f : PathsTo(f, t, Len(t.parent))
  BY <1>1 DEF Fork!Paths, PathsTo, Fork!Genesis
<1>3. PICK f : f = CHOOSE g : PathsTo(g, t, Len(t.parent))
  OBVIOUS
<1>4. PathsTo(f, t, Len(t.parent))
  BY <1>1, <1>3, PathsExist
<1>5. Fork!Paths(t) = f
  BY <1>2, <1>3
<1>6. QED
  BY <1>4, <1>5 DEF PathsTo, Path, Blocks

LEMMA PathWithin ==
    ASSUME NEW t, Tree(t), NEW b \in Blocks(t)
    PROVE  b \in Path(t, b) /\ 1 \in Path(t, b) /\ Path(t, b) \subseteq 1 .. b
<1> DEFINE T == {c \in Blocks(t) : ~(1 \in Path(t, c) /\ Path(t, c) \subseteq 1 .. c)}
<1>1. ASSUME T # {} PROVE FALSE
  <2> HIDE DEF T
  <2>1. PICK m \in T : \A j \in T : m <= j
    <3>1. T \subseteq Nat
      BY TreeBlocks DEF T
    <3>2. QED
      BY <1>1, <3>1, LeastOne
  <2>2. m \in Blocks(t) /\ ~(1 \in Path(t, m) /\ Path(t, m) \subseteq 1 .. m) /\ m \in Nat \ {0}
    BY TreeBlocks DEF T
  <2>3. m # 1
    BY <2>2, PathOf
  <2>4. PICK a : a = t.parent[m]
    OBVIOUS
  <2>5. a \in Blocks(t) /\ a < m /\ a \in Nat \ {0}
    BY <2>2, <2>3, <2>4, TreeBlocks
  <2>6. a \notin T
    BY <2>1, <2>2, <2>5
  <2>7. 1 \in Path(t, a) /\ Path(t, a) \subseteq 1 .. a
    BY <2>5, <2>6 DEF T
  <2>8. Path(t, m) = {m} \cup Path(t, a)
    BY <2>2, <2>3, <2>4, PathOf
  <2>9. 1 .. a \subseteq 1 .. m
    BY <2>2, <2>5
  <2>10. QED
    BY <2>2, <2>7, <2>8, <2>9
<1>2. 1 \in Path(t, b) /\ Path(t, b) \subseteq 1 .. b
  BY <1>1
<1>3. b \in Path(t, b)
  BY PathOf
<1>4. QED
  BY <1>2, <1>3

LEMMA PathsNested ==
    ASSUME NEW t, Tree(t), NEW b \in Blocks(t), NEW a \in Path(t, b)
    PROVE  a \in Blocks(t) /\ a <= b /\ Path(t, a) \subseteq Path(t, b)
<1> DEFINE T == {c \in Blocks(t) : \E d \in Path(t, c) : ~(Path(t, d) \subseteq Path(t, c))}
<1>1. ASSUME T # {} PROVE FALSE
  <2> HIDE DEF T
  <2>1. PICK m \in T : \A j \in T : m <= j
    <3>1. T \subseteq Nat
      BY TreeBlocks DEF T
    <3>2. QED
      BY <1>1, <3>1, LeastOne
  <2>2. PICK d \in Path(t, m) : ~(Path(t, d) \subseteq Path(t, m))
    BY DEF T
  <2>3. m \in Blocks(t) /\ d # m
    BY <2>2 DEF T
  <2>4. m # 1
    BY <2>2, <2>3, PathOf
  <2>5. t.parent[m] \in Blocks(t) /\ t.parent[m] < m
    BY <2>3, <2>4, TreeBlocks
  <2>6. t.parent[m] \notin T
    BY <2>1, <2>3, <2>5, TreeBlocks
  <2>7. Path(t, m) = {m} \cup Path(t, t.parent[m])
    BY <2>3, <2>4, PathOf
  <2>8. QED
    BY <2>2, <2>3, <2>5, <2>6, <2>7 DEF T
<1>2. a \in 1 .. b /\ b \in Blocks(t)
  BY PathWithin
<1>3. a \in Blocks(t) /\ a <= b
  BY <1>2, TreeBlocks DEF Blocks
<1>4. QED
  BY <1>1, <1>3

LEMMA ForkCounts ==
    ASSUME NEW S
    PROVE  Fork!Cardinality(S) = Cardinality(S)
  BY DEF Fork!Cardinality, Cardinality

LEMMA Heights ==
    ASSUME NEW t, Tree(t), NEW b \in Blocks(t)
    PROVE  /\ Fork!Height(t, b) \in Nat /\ (b = 1 => Fork!Height(t, b) = 0)
           /\ b # 1 => Fork!Height(t, b) = Fork!Height(t, t.parent[b]) + 1
<1>1. \A c \in Blocks(t) : /\ IsFiniteSet(Path(t, c)) /\ Cardinality(Path(t, c)) \in Nat \ {0}
                           /\ Fork!Height(t, c) = Cardinality(Path(t, c)) - 1
  <2> TAKE c \in Blocks(t)
  <2>1. c \in Nat \ {0}
    BY TreeBlocks
  <2>2. IsFiniteSet(1 .. c) /\ Path(t, c) \subseteq 1 .. c /\ c \in Path(t, c)
    BY <2>1, PathWithin, UpToFinite
  <2>3. IsFiniteSet(Path(t, c))
    BY <2>2, FS_Subset
  <2>4. Cardinality(Path(t, c)) \in Nat /\ Cardinality(Path(t, c)) # 0
    BY <2>2, <2>3, FS_CardinalityType, FS_EmptySet
  <2>5. QED
    BY <2>3, <2>4, ForkCounts DEF Fork!Height, Path
<1>2. CASE b = 1
  <2>1. Path(t, b) = {1}
    BY <1>2, PathOf
  <2>2. Cardinality({1}) = 1
    BY FS_Singleton
  <2>3. QED
    BY <1>1, <1>2, <2>1, <2>2
<1>3. CASE b # 1
  <2>1. PICK a : a = t.parent[b]
    OBVIOUS
  <2>2. a \in Blocks(t) /\ a < b /\ a \in Nat /\ b \in Nat
    BY <1>3, <2>1, TreeBlocks
  <2>3. Path(t, b) = {b} \cup Path(t, a) /\ Path(t, a) \subseteq 1 .. a
    BY <1>3, <2>1, <2>2, PathOf, PathWithin
  <2>4. b \notin Path(t, a)
    BY <2>2, <2>3
  <2>5. Cardinality(Path(t, b)) = Cardinality(Path(t, a)) + 1
    <3>1. Path(t, b) = Path(t, a) \cup {b}
      BY <2>3
    <3>2. QED
      BY <1>1, <2>2, <2>4, <3>1, FS_AddElement
  <2>6. QED
    BY <1>1, <1>3, <2>1, <2>2, <2>5
<1>4. QED
  BY <1>2, <1>3

LEMMA HigherOnPath ==
    ASSUME NEW t, Tree(t), NEW b \in Blocks(t), NEW a \in Path(t, b), a # b
    PROVE  Fork!Height(t, a) < Fork!Height(t, b)
<1> DEFINE T == {c \in Blocks(t) : \E d \in Path(t, c) : d # c /\ ~(Fork!Height(t, d) < Fork!Height(t, c))}
<1>1. ASSUME T # {} PROVE FALSE
  <2> HIDE DEF T
  <2>1. PICK m \in T : \A j \in T : m <= j
    <3>1. T \subseteq Nat
      BY TreeBlocks DEF T
    <3>2. QED
      BY <1>1, <3>1, LeastOne
  <2>2. PICK d \in Path(t, m) : d # m /\ ~(Fork!Height(t, d) < Fork!Height(t, m))
    BY DEF T
  <2>3. m \in Blocks(t)
    BY DEF T
  <2>4. m # 1
    BY <2>2, <2>3, PathOf
  <2>5. PICK a1 : a1 = t.parent[m]
    OBVIOUS
  <2>6. a1 \in Blocks(t) /\ a1 < m /\ a1 \notin T
    BY <2>1, <2>3, <2>4, <2>5, TreeBlocks
  <2>7. d \in Path(t, a1)
    BY <2>2, <2>3, <2>4, <2>5, PathOf
  <2>8. d \in Blocks(t)
    BY <2>6, <2>7, PathsNested
  <2>9. /\ Fork!Height(t, d) \in Nat /\ Fork!Height(t, a1) \in Nat
        /\ Fork!Height(t, m) = Fork!Height(t, a1) + 1
    BY <2>3, <2>4, <2>5, <2>6, <2>8, Heights
  <2>10. Fork!Height(t, d) <= Fork!Height(t, a1)
    <3>1. CASE d = a1
      BY <2>9, <3>1
    <3>2. CASE d # a1
      BY <2>6, <2>7, <2>9, <3>2 DEF T
    <3>3. QED
      BY <3>1, <3>2
  <2>11. QED
    BY <2>2, <2>9, <2>10
<1>2. QED
  BY <1>1

LEMMA PathsGrow ==
    ASSUME NEW t, Tree(t), NEW u, NEW p \in Blocks(t), u.parent = Append(t.parent, p)
    PROVE  /\ Tree(u) /\ Len(u.parent) = Len(t.parent) + 1 /\ Blocks(t) \subseteq Blocks(u)
           /\ u.parent[Len(t.parent) + 1] = p
           /\ \A b \in Blocks(t) : /\ u.parent[b] = t.parent[b] /\ Path(u, b) = Path(t, b)
                                   /\ Fork!Height(u, b) = Fork!Height(t, b)
<1>1. PICK n : n = Len(t.parent)
  OBVIOUS
<1>2. n \in Nat \ {0} /\ p \in 1 .. n /\ t.parent \in Seq(Nat) /\ t.parent[1] = 0
  BY <1>1 DEF Tree, Blocks
<1>3. /\ u.parent \in Seq(Nat) /\ Len(u.parent) = n + 1 /\ u.parent[n + 1] = p
      /\ \A b \in 1 .. n : u.parent[b] = t.parent[b]
  BY <1>1, <1>2
<1>4. \A b \in 2 .. n + 1 : u.parent[b] \in 1 .. b - 1
  <2> TAKE b \in 2 .. n + 1
  <2>1. CASE b = n + 1
    BY <1>2, <1>3, <2>1
  <2>2. CASE b # n + 1
    <3>1. b \in 2 .. n /\ b \in 1 .. n
      BY <1>2, <2>2
    <3>2. QED
      BY <1>1, <1>3, <3>1 DEF Tree
  <2>3. QED
    BY <2>1, <2>2
<1>5. Tree(u) /\ Blocks(t) \subseteq Blocks(u)
  BY <1>1, <1>2, <1>3, <1>4 DEF Tree, Blocks
<1> DEFINE T == {b \in Blocks(t) : Path(u, b) # Path(t, b)}
<1>6. ASSUME T # {} PROVE FALSE
  <2> HIDE DEF T
  <2>1. PICK m \in T : \A j \in T : m <= j
    <3>1. T \subseteq Nat
      BY TreeBlocks DEF T
    <3>2. QED
      BY <1>6, <3>1, LeastOne
  <2>2. m \in Blocks(t) /\ m \in Blocks(u) /\ Path(u, m) # Path(t, m)
    BY <1>5 DEF T
  <2>3. m # 1
    BY <1>5, <2>2, PathOf
  <2>4. PICK a : a = t.parent[m]
    OBVIOUS
  <2>5. a \in Blocks(t) /\ a < m /\ u.parent[m] = a
    BY <1>1, <1>3, <2>2, <2>3, <2>4, TreeBlocks DEF Blocks
  <2>6. a \notin T
    BY <2>1, <2>2, <2>5, TreeBlocks
  <2>7. Path(u, a) = Path(t, a)
    BY <2>5, <2>6 DEF T
  <2>8. Path(u, m) = {m} \cup Path(u, a) /\ Path(t, m) = {m} \cup Path(t, a)
    <3>1. Path(u, m) = {m} \cup Path(u, u.parent[m])
      BY <1>5, <2>2, <2>3, PathOf
    <3>2. Path(t, m) = {m} \cup Path(t, t.parent[m])
      BY <2>2, <2>3, PathOf
    <3>3. QED
      BY <2>4, <2>5, <3>1, <3>2
  <2>9. QED
    BY <2>2, <2>7, <2>8
<1>7. \A b \in Blocks(t) : Path(u, b) = Path(t, b)
  BY <1>6
<1>8. \A b \in Blocks(t) : Fork!Height(u, b) = Fork!Height(t, b)
  BY <1>7 DEF Fork!Height, Path
<1>9. QED
  BY <1>1, <1>3, <1>5, <1>7, <1>8 DEF Blocks

\* The tree with its tips and the forks counted.
Rooted(t) ==
    /\ Tree(t) /\ t.tips = {b \in Blocks(t) : Fork!Children(t, b) = {}}
    /\ t.forkCount \in 0 .. Len(t.parent) - 1

\* The counters of the votes, and that nobody leaves genesis under lmd_ghost.
BallotsCount(b) ==
    /\ b.votedFor \in [Fork!Nodes -> 0 .. MaxTree] /\ b.votes \in [1 .. MaxTree -> Nat]
    /\ \A x \in 1 .. MaxTree : b.votes[x] = Cardinality({n \in Fork!Nodes : b.votedFor[n] = x})
    /\ rule = "lmd_ghost" => \A x \in 2 .. MaxTree : b.votes[x] = 0

\* While no fork was counted all blocks hang on the canonical chain.
Unforked(t, c) ==
    /\ c.reorgCount = 0
    /\ \A b \in 2 .. Len(t.parent) : t.parent[b] \in Path(t, c.head)
    /\ rule = "ghost" => \A s \in Path(t, c.head) \ {1} : \A b \in 2 .. Len(t.parent) :
                             t.parent[b] = t.parent[s] => s <= b

\* With the longest or the heaviest chain the head is the first of its height.
First(t, c) ==
    /\ c.reorgCount <= Fork!Height(t, c.head)
    /\ \A b \in Blocks(t) : b < c.head => Fork!Height(t, b) < Fork!Height(t, c.head)

Headed(t, c) ==
    /\ c.head \in Blocks(t) /\ c.canonical = Path(t, c.head) /\ c.reorgCount \in Nat
    /\ rule \in {"longest_chain", "heaviest"} => First(t, c)
    /\ rule = "lmd_ghost" => c.head = 1 /\ c.reorgCount = 0
    /\ t.forkCount = 0 => Unforked(t, c)

(* A block more, wherever.                                                 *)
LEMMA CreateKeeps ==
    ASSUME Rooted(tree), Headed(tree, canonicalChain), NEW p \in Blocks(tree),
           NEW u, u = Fork!Create(p)
    PROVE  Rooted(u) /\ Headed(u, canonicalChain) /\ Len(u.parent) = Len(tree.parent) + 1
<1>1. PICK n : n = Len(tree.parent)
  OBVIOUS
<1>2. PICK h : h = canonicalChain.head
  OBVIOUS
<1>3. /\ u.parent = Append(tree.parent, p) /\ u.tips = (tree.tips \ {p}) \cup {n + 1}
      /\ u.forkCount = tree.forkCount + IF p = h THEN 0 ELSE 1
  BY <1>1, <1>2 DEF Fork!Create
<1>4. Tree(tree) /\ n \in Nat \ {0} /\ p \in 1 .. n /\ h \in 1 .. n
  BY <1>1, <1>2, TreeBlocks DEF Rooted, Headed, Blocks
<1>5. /\ Tree(u) /\ Len(u.parent) = n + 1 /\ u.parent[n + 1] = p
      /\ \A b \in 1 .. n : /\ u.parent[b] = tree.parent[b] /\ Path(u, b) = Path(tree, b)
                           /\ Fork!Height(u, b) = Fork!Height(tree, b)
  <2>1. /\ Tree(u) /\ Len(u.parent) = Len(tree.parent) + 1 /\ u.parent[Len(tree.parent) + 1] = p
        /\ \A b \in Blocks(tree) : /\ u.parent[b] = tree.parent[b] /\ Path(u, b) = Path(tree, b)
                                   /\ Fork!Height(u, b) = Fork!Height(tree, b)
    <3>1. u.parent = Append(tree.parent, p)
      BY <1>3
    <3>2. Tree(tree)
      BY <1>4
    <3>0. p \in Blocks(tree)
      OBVIOUS
    <3>3. Tree(u) /\ Len(u.parent) = Len(tree.parent) + 1 /\ u.parent[Len(tree.parent) + 1] = p
      BY ONLY <3>0, <3>1, <3>2, PathsGrow
    <3>4. \A b \in Blocks(tree) : u.parent[b] = tree.parent[b]
      BY ONLY <3>0, <3>1, <3>2, PathsGrow
    <3>5. \A b \in Blocks(tree) : Path(u, b) = Path(tree, b)
      BY ONLY <3>0, <3>1, <3>2, PathsGrow
    <3>6. \A b \in Blocks(tree) : Fork!Height(u, b) = Fork!Height(tree, b)
      BY ONLY <3>0, <3>1, <3>2, PathsGrow
    <3>7. QED
      BY <3>3, <3>4, <3>5, <3>6
  <2>2. QED
    BY <1>1, <2>1 DEF Blocks
<1>6. Blocks(u) = 1 .. n + 1 /\ Blocks(tree) = 1 .. n
  BY <1>1, <1>5 DEF Blocks
<1>7. \A b \in 1 .. n : tree.parent[b] \in 0 .. n
  <2> TAKE b \in 1 .. n
  <2>1. CASE b = 1
    BY <1>4, <2>1 DEF Tree
  <2>2. CASE b # 1
    <3>1. tree.parent[b] \in Blocks(tree)
      BY <1>4, <1>6, <2>2, TreeBlocks
    <3>2. QED
      BY <1>4, <1>6, <3>1
  <2>3. QED
    BY <2>1, <2>2
<1>8. DOMAIN u.parent = 1 .. n + 1 /\ DOMAIN tree.parent = 1 .. n
  BY <1>4, <1>5, <1>6, TreeBlocks
<1>9. u.tips = {b \in Blocks(u) : Fork!Children(u, b) = {}}
  <2>1. Fork!Children(u, n + 1) = {}
    <3>1. \A c \in 1 .. n + 1 : u.parent[c] # n + 1
      BY <1>4, <1>5, <1>7
    <3>2. QED
      BY <1>8, <3>1 DEF Fork!Children
  <2>2. Fork!Children(u, p) # {}
    <3>1. n + 1 \in 1 .. n + 1
      BY <1>4
    <3>2. QED
      BY <1>5, <1>8, <3>1 DEF Fork!Children
  <2>3. \A b \in 1 .. n : b # p => Fork!Children(u, b) = Fork!Children(tree, b)
    <3> SUFFICES ASSUME NEW b \in 1 .. n, b # p
                 PROVE  Fork!Children(u, b) = Fork!Children(tree, b)
      OBVIOUS
    <3>1. \A c \in 1 .. n + 1 : u.parent[c] = b <=> c \in 1 .. n /\ tree.parent[c] = b
      <4> TAKE c \in 1 .. n + 1
      <4>1. CASE c = n + 1
        BY <1>4, <1>5, <4>1
      <4>2. CASE c # n + 1
        <5>1. c \in 1 .. n
          BY <1>4, <4>2
        <5>2. QED
          BY <1>5, <5>1
      <4>3. QED
        BY <4>1, <4>2
    <3>2. 1 .. n \subseteq 1 .. n + 1
      BY <1>4
    <3>3. QED
      BY <1>8, <3>1, <3>2 DEF Fork!Children
  <2>4. tree.tips = {b \in 1 .. n : Fork!Children(tree, b) = {}}
    BY <1>6 DEF Rooted
  <2>5. \A b \in 1 .. n + 1 : b \in (tree.tips \ {p}) \cup {n + 1} <=> Fork!Children(u, b) = {}
    <3> TAKE b \in 1 .. n + 1
    <3>1. CASE b = n + 1
      BY <2>1, <3>1
    <3>2. CASE b # n + 1
      <4>1. b \in 1 .. n
        BY <1>4, <3>2
      <4>2. QED
        BY <2>2, <2>3, <2>4, <3>2, <4>1
    <3>3. QED
      BY <3>1, <3>2
  <2>6. tree.tips \subseteq 1 .. n + 1 /\ n + 1 \in 1 .. n + 1
    BY <1>4, <2>4
  <2>7. u.tips = {b \in 1 .. n + 1 : Fork!Children(u, b) = {}}
    BY <1>3, <2>5, <2>6
  <2>8. QED
    BY <1>6, <2>7
<1>10. u.forkCount \in 0 .. Len(u.parent) - 1
  BY <1>1, <1>3, <1>4, <1>5 DEF Rooted
<1>11. Rooted(u)
  BY <1>5, <1>9, <1>10 DEF Rooted
<1>12. canonicalChain.head \in Blocks(u) /\ canonicalChain.canonical = Path(u, canonicalChain.head)
  BY <1>2, <1>4, <1>5, <1>6 DEF Headed
<1>13. ASSUME First(tree, canonicalChain) PROVE First(u, canonicalChain)
  <2>1. \A b \in 1 .. n + 1 : b < h => b \in 1 .. n
    BY <1>4
  <2>2. QED
    BY <1>2, <1>4, <1>5, <1>6, <1>13, <2>1 DEF First
<1>14. ASSUME u.forkCount = 0 PROVE Unforked(u, canonicalChain)
  <2>1. tree.forkCount = 0 /\ p = h
    BY <1>3, <1>14 DEF Rooted
  <2>2. Unforked(tree, canonicalChain)
    BY <2>1 DEF Headed
  <2>3. \A b \in 2 .. n + 1 : b = n + 1 \/ (b \in 2 .. n /\ b \in 1 .. n)
    BY <1>4
  <2>4. Path(u, h) = Path(tree, h) /\ h \in Path(tree, h) /\ Path(tree, h) \subseteq 1 .. h
    BY <1>4, <1>5, <1>6, PathWithin
  <2>5. \A b \in 2 .. n + 1 : u.parent[b] \in Path(u, h)
    BY <1>1, <1>2, <1>5, <2>1, <2>2, <2>3, <2>4 DEF Unforked
  <2>6. ASSUME rule = "ghost", NEW s \in Path(u, h) \ {1}, NEW b \in 2 .. n + 1, u.parent[b] = u.parent[s]
        PROVE  s <= b
    <3>1. s \in 1 .. n
      BY <1>4, <2>4
    <3>2. CASE b = n + 1
      BY <1>4, <3>1, <3>2
    <3>3. CASE b # n + 1
      BY <1>1, <1>2, <1>5, <2>2, <2>3, <2>4, <2>6, <3>1, <3>3 DEF Unforked
    <3>4. QED
      BY <3>2, <3>3
  <2>7. QED
    BY <1>2, <1>5, <2>2, <2>5, <2>6 DEF Unforked
<1>15. QED
  BY <1>1, <1>5, <1>11, <1>12, <1>13, <1>14 DEF Headed

LEMMA GreatestIn ==
    ASSUME NEW S, S \subseteq Nat \ {0}, NEW f, NEW g, g = Fork!Greatest(S, f)
    PROVE  /\ g = 0 \/ (g \in S /\ f[g] > 0 /\ \A c \in S : f[c] <= f[g])
           /\ \A c \in S : f[c] > 0 /\ (\A d \in S : f[d] <= f[c]) => g \in S /\ g <= c
<1> DEFINE best == {b \in S : f[b] > 0 /\ \A c \in S : f[c] <= f[b]}
<1>1. g = IF best = {} THEN 0 ELSE Fork!Min(best)
  BY DEF Fork!Greatest, Fork!FirstOf, Fork!None
<1>2. best # {} => Fork!Min(best) \in best /\ \A c \in best : Fork!Min(best) <= c
  <2>1. best \subseteq Nat
    OBVIOUS
  <2> HIDE DEF best
  <2>2. Fork!Min(best) = Min(best)
    BY DEF Fork!Min, Min
  <2>3. QED
    BY <2>1, <2>2, MinOfNumbers
<1>3. CASE best = {}
  BY <1>1, <1>3
<1>4. CASE best # {}
  BY <1>1, <1>2, <1>4
<1>5. QED
  BY <1>3, <1>4

\* The heights as Worth has them.
HeightsOf(t) == [b \in DOMAIN t.parent |-> Fork!Height(t, b)]

(* The weight of a chain is that of the numbers up to its height.          *)
LEMMA ChainWeight ==
    ASSUME NEW t, Tree(t), NEW b \in Blocks(t)
    PROVE  /\ Weigh(HeightsOf(t), Path(t, b)) \in Nat
           /\ 2 * Weigh(HeightsOf(t), Path(t, b)) = Fork!Height(t, b) * (Fork!Height(t, b) + 1)
<1> DEFINE hs == HeightsOf(t)
           Sum(c) == Weigh(hs, Path(t, c))
           h(c) == Fork!Height(t, c)
           T == {c \in Blocks(t) : ~(Sum(c) \in Nat /\ 2 * Sum(c) = h(c) * (h(c) + 1))}
<1>1. \A c \in Blocks(t) : hs[c] = h(c) /\ h(c) \in Nat
  BY TreeBlocks, Heights DEF HeightsOf
<1>2. \A c \in Blocks(t) : IsFiniteSet(Path(t, c)) /\ Path(t, c) \subseteq Blocks(t)
  <2> TAKE c \in Blocks(t)
  <2>1. IsFiniteSet(1 .. c) /\ Path(t, c) \subseteq 1 .. c
    BY TreeBlocks, PathWithin, UpToFinite
  <2>2. QED
    BY <2>1, PathsNested, FS_Subset
<1>3. ASSUME T # {} PROVE FALSE
  <2> HIDE DEF T, hs
  <2>1. PICK m \in T : \A j \in T : m <= j
    <3>1. T \subseteq Nat
      BY TreeBlocks DEF T
    <3>2. QED
      BY <1>3, <3>1, LeastOne
  <2>2. m \in Blocks(t) /\ ~(Sum(m) \in Nat /\ 2 * Sum(m) = h(m) * (h(m) + 1)) /\ m \in Nat \ {0}
    BY TreeBlocks DEF T
  <2>3. IsFiniteSet({}) /\ Weigh(hs, {}) = 0
    BY FS_EmptySet, WeighStep
  <2>4. CASE m = 1
    <3>1. Path(t, m) = {} \cup {m} /\ h(m) = 0 /\ hs[m] = 0
      BY <1>1, <2>2, <2>4, PathOf, Heights
    <3>2. Weigh(hs, {} \cup {m}) = Weigh(hs, {}) + hs[m]
      <4>1. m \notin {} /\ \A r \in {} \cup {m} : hs[r] \in Nat
        BY <3>1
      <4>2. QED
        BY ONLY <2>3, <4>1, WeighAdds
    <3>3. Sum(m) = 0
      BY <2>3, <3>1, <3>2
    <3>4. QED
      BY <2>2, <3>1, <3>3
  <2>5. CASE m # 1
    <3>1. PICK a : a = t.parent[m]
      OBVIOUS
    <3>2. a \in Blocks(t) /\ a < m /\ a \in Nat
      BY <2>2, <2>5, <3>1, TreeBlocks
    <3>3. a \notin T
      BY <2>1, <2>2, <3>2
    <3>4. Sum(a) \in Nat /\ 2 * Sum(a) = h(a) * (h(a) + 1)
      BY <3>2, <3>3 DEF T
    <3>5. Path(t, m) = Path(t, a) \cup {m} /\ h(m) = h(a) + 1 /\ h(a) \in Nat
      BY <1>1, <2>2, <2>5, <3>1, <3>2, PathOf, Heights
    <3>6. m \notin Path(t, a)
      BY <2>2, <3>2, PathWithin
    <3>7. Sum(m) = Sum(a) + h(m)
      <4>1. \A r \in Path(t, a) \cup {m} : hs[r] \in Nat
        BY <1>1, <1>2, <2>2, <3>2
      <4>2. IsFiniteSet(Path(t, a))
        BY <1>2, <3>2
      <4>3. Weigh(hs, Path(t, a) \cup {m}) = Weigh(hs, Path(t, a)) + hs[m]
        BY ONLY <3>6, <4>1, <4>2, WeighAdds
      <4>4. QED
        BY <1>1, <2>2, <3>5, <4>3
    <3>8. \A x, y \in Nat : 2 * x = y * (y + 1)
             => x + (y + 1) \in Nat /\ 2 * (x + (y + 1)) = (y + 1) * ((y + 1) + 1)
      OBVIOUS
    <3> HIDE DEF Sum, h
    <3>9. Sum(m) \in Nat /\ 2 * Sum(m) = h(m) * (h(m) + 1)
      BY <3>4, <3>5, <3>7, <3>8
    <3>10. QED
      BY <2>2, <3>9
  <2>6. QED
    BY <2>4, <2>5
<1>4. QED
  BY <1>3

LEMMA MoreIsMore ==
    ASSUME NEW a \in Nat, NEW b \in Nat
    PROVE  /\ a <= b <=> a * (a + 1) <= b * (b + 1)
           /\ a > 0 <=> a * (a + 1) > 0
<1>1. ASSUME NEW x \in Nat, NEW y \in Nat, x < y PROVE x * (x + 1) < y * (y + 1)
  <2>1. x * (x + 1) + (x + 1) <= y * (x + 1)
    BY <1>1, MultiplyGrows
  <2>2. PICK d \in Nat : y + 1 = (x + 1) + d
    <3>1. (y - x) \in Nat /\ y + 1 = (x + 1) + (y - x)
      BY <1>1
    <3>2. QED
      BY <3>1
  <2>3. y * (y + 1) = y * (x + 1) + y * d /\ y * d \in Nat
    BY <2>2
  <2>4. x * (x + 1) \in Nat /\ y * (x + 1) \in Nat /\ y * (y + 1) \in Nat
    OBVIOUS
  <2>5. QED
    BY <2>1, <2>3, <2>4
<1>2. a * (a + 1) \in Nat /\ b * (b + 1) \in Nat /\ 0 * (0 + 1) = 0
  OBVIOUS
<1>3. a < b => a * (a + 1) < b * (b + 1)
  BY <1>1
<1>4. b < a => b * (b + 1) < a * (a + 1)
  BY <1>1
<1>5. a > 0 => a * (a + 1) > 0
  <2> SUFFICES ASSUME 0 < a PROVE 0 * (0 + 1) < a * (a + 1)
    BY <1>2
  <2>1. QED
    BY <1>1
<1>6. a = b => a * (a + 1) = b * (b + 1)
  OBVIOUS
<1>7. a = 0 => a * (a + 1) = 0
  OBVIOUS
<1>8. PICK x \in Nat : x = a * (a + 1)
  BY <1>2
<1>9. PICK y \in Nat : y = b * (b + 1)
  BY <1>2
<1>10. QED
  BY <1>3, <1>4, <1>5, <1>6, <1>7, <1>8, <1>9

(* The longest chain is the heaviest one.                                  *)
LEMMA WorthRanks ==
    ASSUME NEW t, Tree(t), NEW polled, rule \in {"longest_chain", "heaviest"},
           NEW a \in Blocks(t), NEW b \in Blocks(t)
    PROVE  LET w == Fork!Worth(t, polled)
           IN  /\ w[a] <= w[b] <=> Fork!Height(t, a) <= Fork!Height(t, b)
               /\ w[a] > 0 <=> Fork!Height(t, a) > 0
<1> DEFINE w == Fork!Worth(t, polled)
           h(c) == Fork!Height(t, c)
<1>1. DOMAIN t.parent = Blocks(t) /\ h(a) \in Nat /\ h(b) \in Nat
  BY TreeBlocks, Heights
<1>2. CASE rule = "longest_chain"
  <2>1. w[a] = h(a) /\ w[b] = h(b)
    BY <1>1, <1>2 DEF Fork!Worth
  <2>2. QED
    BY <2>1
<1>3. CASE rule = "heaviest"
  <2>1. \A c \in Blocks(t) : w[c] = Weigh(HeightsOf(t), Path(t, c))
    BY <1>1, <1>3 DEF Fork!Worth, Weigh, Fork!MapThenSumSet, Fork!MapThenFoldSet, MapThenSumSet,
        MapThenFoldSet, HeightsOf, Path
  <2>2. /\ w[a] \in Nat /\ 2 * w[a] = h(a) * (h(a) + 1)
        /\ w[b] \in Nat /\ 2 * w[b] = h(b) * (h(b) + 1)
    BY <2>1, ChainWeight
  <2> HIDE DEF w, h
  <2>3. /\ h(a) <= h(b) <=> h(a) * (h(a) + 1) <= h(b) * (h(b) + 1)
        /\ h(a) > 0 <=> h(a) * (h(a) + 1) > 0
    BY <1>1, MoreIsMore
  <2>4. QED
    BY <2>2, <2>3 DEF w, h
<1>4. QED
  BY <1>2, <1>3

LEMMA HighestBlock ==
    ASSUME NEW t, Tree(t)
    PROVE  \E m \in Blocks(t) : /\ \A c \in Blocks(t) : Fork!Height(t, c) <= Fork!Height(t, m)
                                /\ Fork!Children(t, m) = {}
<1> DEFINE h(c) == Fork!Height(t, c)
           n == Len(t.parent)
           H == {h(c) : c \in Blocks(t)}
<1>1. \A c \in Blocks(t) : h(c) \in 0 .. n
  <2> TAKE c \in Blocks(t)
  <2>1. /\ IsFiniteSet(1 .. c) /\ Cardinality(1 .. c) = c /\ Path(t, c) \subseteq 1 .. c
        /\ c \in Nat /\ c <= n
    BY TreeBlocks, PathWithin, UpToFinite DEF Blocks
  <2>2. Cardinality(Path(t, c)) <= c /\ Cardinality(Path(t, c)) \in Nat
    BY <2>1, FS_Subset, FS_CardinalityType
  <2>3. h(c) = Cardinality(Path(t, c)) - 1 /\ h(c) \in Nat
    BY ForkCounts, Heights DEF Fork!Height, Path
  <2>4. QED
    BY <2>1, <2>2, <2>3, TreeBlocks
<1>2. n \in Nat /\ 1 \in Blocks(t)
  BY TreeBlocks
<1> HIDE DEF h, n
<1>3. H \subseteq 0 .. n /\ H # {}
  BY <1>1, <1>2
<1>4. Max(H) \in H /\ \A x \in H : Max(H) >= x
  BY <1>2, <1>3, MaxOfRange
<1>5. PICK m \in Blocks(t) : h(m) = Max(H)
  BY <1>4
<1>6. \A c \in Blocks(t) : h(c) <= h(m)
  BY <1>1, <1>4, <1>5
<1>7. ASSUME NEW c \in Fork!Children(t, m) PROVE FALSE
  <2>1. c \in Blocks(t) /\ t.parent[c] = m
    BY TreeBlocks DEF Fork!Children
  <2>2. c # 1
    BY <2>1, TreeBlocks DEF Tree
  <2>3. h(c) = h(m) + 1
    BY <2>1, <2>2, Heights DEF h
  <2>4. QED
    BY <1>1, <1>5, <1>6, <2>1, <2>3
<1>8. QED
  BY <1>6, <1>7 DEF h

(* The best tip by height is the first of the highest blocks.              *)
LEMMA HighestIsBest ==
    ASSUME NEW t, Rooted(t), NEW polled, rule \in {"longest_chain", "heaviest"},
           NEW g, g = Fork!Best(t, polled), g # 0
    PROVE  /\ g \in Blocks(t)
           /\ \A c \in Blocks(t) : Fork!Height(t, c) <= Fork!Height(t, g)
           /\ \A c \in Blocks(t) : c < g => Fork!Height(t, c) < Fork!Height(t, g)
<1> DEFINE w == Fork!Worth(t, polled)
           h(c) == Fork!Height(t, c)
<1>1. Tree(t) /\ t.tips = {b \in Blocks(t) : Fork!Children(t, b) = {}}
  BY DEF Rooted
<1>2. t.tips \subseteq Nat \ {0} /\ t.tips \subseteq Blocks(t)
  BY <1>1, TreeBlocks
<1>3. g = Fork!Greatest(t.tips, w)
  BY DEF Fork!Best
<1>4. \A a, b \in Blocks(t) : /\ w[a] <= w[b] <=> h(a) <= h(b)
                              /\ w[a] > 0 <=> h(a) > 0
  BY <1>1, WorthRanks
<1>5. \A c \in Blocks(t) : h(c) \in Nat
  BY <1>1, Heights
<1> HIDE DEF w, h
<1>6. /\ g \in t.tips /\ w[g] > 0 /\ \A c \in t.tips : w[c] <= w[g]
      /\ \A c \in t.tips : w[c] > 0 /\ (\A d \in t.tips : w[d] <= w[c]) => g <= c
  BY <1>2, <1>3, GreatestIn
<1>7. PICK m \in Blocks(t) : (\A c \in Blocks(t) : h(c) <= h(m)) /\ m \in t.tips
  BY <1>1, HighestBlock DEF h
<1>8. g \in Blocks(t) /\ h(g) = h(m) /\ h(g) > 0
  BY <1>2, <1>4, <1>5, <1>6, <1>7
<1>9. ASSUME NEW c \in Blocks(t), h(c) = h(m) PROVE g <= c
  <2>1. c \in t.tips
    <3>1. ASSUME NEW d \in Fork!Children(t, c) PROVE FALSE
      <4>1. d \in Blocks(t) /\ t.parent[d] = c
        BY <1>1, TreeBlocks DEF Fork!Children
      <4>2. d # 1
        BY <1>1, <4>1, TreeBlocks DEF Tree
      <4>3. h(d) = h(c) + 1
        BY <1>1, <4>1, <4>2, Heights DEF h
      <4>4. QED
        BY <1>5, <1>7, <1>9, <4>1, <4>3
    <3>2. QED
      BY <1>1, <3>1
  <2>2. w[c] > 0 /\ \A d \in t.tips : w[d] <= w[c]
    BY <1>2, <1>4, <1>5, <1>7, <1>8, <1>9
  <2>3. QED
    BY <1>6, <2>1, <2>2
<1>10. \A c \in Blocks(t) : c < g => h(c) < h(g)
  <2> SUFFICES ASSUME NEW c \in Blocks(t), c < g PROVE h(c) < h(g)
    OBVIOUS
  <2>1. c \in Nat /\ g \in Nat
    BY <1>1, <1>8, TreeBlocks
  <2>2. h(c) # h(m)
    BY <1>9, <2>1
  <2>3. QED
    BY <1>5, <1>7, <1>8, <2>2
<1>11. QED
  BY <1>7, <1>8, <1>10 DEF h

-----------------------------------------------------------------------------
(***************************************************************************)
(* The descent from genesis, as a function that calls itself on a child.   *)
(***************************************************************************)
\* The child to go to, if any.
Down(t, f, b) == Fork!Greatest(Fork!Children(t, b), f)

DescentFrom(g, t, f, k) ==
    g = [b \in k .. Len(t.parent) |-> IF Down(t, f, b) = 0 THEN b ELSE g[Down(t, f, b)]]

LEMMA ChildrenOf ==
    ASSUME NEW t, Tree(t), NEW b \in Blocks(t), NEW c \in Fork!Children(t, b)
    PROVE  c \in Blocks(t) /\ t.parent[c] = b /\ c # 1 /\ b < c
<1>1. c \in Blocks(t) /\ t.parent[c] = b
  BY TreeBlocks DEF Fork!Children
<1>2. c # 1
  BY <1>1, TreeBlocks DEF Tree
<1>3. QED
  BY <1>1, <1>2, TreeBlocks

LEMMA DownOf ==
    ASSUME NEW t, Tree(t), NEW f, NEW b \in Blocks(t)
    PROVE  \/ Down(t, f, b) = 0
           \/ /\ Down(t, f, b) \in Fork!Children(t, b) /\ Down(t, f, b) \in Blocks(t)
              /\ b < Down(t, f, b) /\ Down(t, f, b) # 0
<1>1. Fork!Children(t, b) \subseteq Nat \ {0}
  BY ChildrenOf, TreeBlocks
<1>2. Down(t, f, b) = 0 \/ Down(t, f, b) \in Fork!Children(t, b)
  BY <1>1, GreatestIn DEF Down
<1>3. QED
  BY <1>2, ChildrenOf, TreeBlocks

LEMMA DescentExists ==
    ASSUME NEW t, Tree(t), NEW f, NEW k \in Blocks(t)
    PROVE  \E g : DescentFrom(g, t, f, k)
<1> DEFINE n == Len(t.parent)
           T == {j \in 0 .. n - 1 : ~ \E g : DescentFrom(g, t, f, n - j)}
<1>0. n \in Nat \ {0} /\ Blocks(t) = 1 .. n
  BY TreeBlocks DEF Blocks
<1>1. ASSUME T # {} PROVE FALSE
  <2> HIDE DEF T, n
  <2>1. PICK j \in T : \A i \in T : j <= i
    <3>1. T \subseteq Nat
      BY <1>0 DEF T
    <3>2. QED
      BY <1>1, <3>1, LeastOne
  <2>2. j \in 0 .. n - 1 /\ ~ \E g : DescentFrom(g, t, f, n - j)
    BY DEF T
  <2>3. PICK m \in 1 .. n : m = n - j
    BY <1>0, <2>2
  <2>4. PICK old : m < n => DescentFrom(old, t, f, m + 1)
    <3>1. CASE m < n
      <4>1. j - 1 \in 0 .. n - 1 /\ j - 1 \notin T /\ n - (j - 1) = m + 1
        BY <1>0, <2>1, <2>2, <2>3, <3>1
      <4>2. \E g : DescentFrom(g, t, f, m + 1)
        BY <4>1 DEF T
      <4>3. QED
        BY <4>2
    <3>2. CASE ~(m < n)
      BY <3>2
    <3>3. QED
      BY <3>1, <3>2
  <2> DEFINE Onward(b, h) == IF Down(t, f, b) = 0 THEN b ELSE h[Down(t, f, b)]
             g == [b \in m .. n |-> IF b = m THEN Onward(b, old) ELSE old[b]]
  <2>5. \A b \in m + 1 .. n : old[b] = Onward(b, old) /\ g[b] = old[b]
    <3>1. \A b \in m + 1 .. n : b \in m .. n /\ b # m /\ m < n
      BY <1>0, <2>3
    <3>2. \A b \in m + 1 .. n : old[b] = Onward(b, old)
      BY <2>4, <3>1 DEF DescentFrom, n
    <3> HIDE DEF Onward
    <3>3. \A b \in m + 1 .. n : g[b] = old[b]
      BY <3>1
    <3>4. QED
      BY <3>2, <3>3
  <2>6. \A b \in m .. n : Down(t, f, b) # 0 => Down(t, f, b) \in m + 1 .. n
    <3> SUFFICES ASSUME NEW b \in m .. n, Down(t, f, b) # 0 PROVE Down(t, f, b) \in m + 1 .. n
      OBVIOUS
    <3>1. b \in 1 .. n
      BY <1>0, <2>3
    <3>2. Down(t, f, b) \in 1 .. n /\ b < Down(t, f, b)
      BY <1>0, <3>1, DownOf
    <3>3. QED
      BY <1>0, <2>3, <3>2
  <2>7. \A b \in m .. n : g[b] = Onward(b, g)
    <3> TAKE b \in m .. n
    <3>1. g[b] = Onward(b, old)
      <4>1. CASE b = m
        BY <4>1
      <4>2. CASE b # m
        <5>1. b \in m + 1 .. n
          BY <1>0, <2>3, <4>2
        <5> HIDE DEF g, Onward
        <5>2. QED
          BY <2>5, <5>1
      <4>3. QED
        BY <4>1, <4>2
    <3>2. Onward(b, old) = Onward(b, g)
      <4>1. CASE Down(t, f, b) = 0
        BY <4>1
      <4>2. CASE Down(t, f, b) # 0
        <5>1. g[Down(t, f, b)] = old[Down(t, f, b)]
          BY <2>5, <2>6, <4>2
        <5> HIDE DEF g
        <5>2. QED
          BY <5>1
      <4>3. QED
        BY <4>1, <4>2
    <3> HIDE DEF g, Onward
    <3>3. QED
      BY <3>1, <3>2
  <2>8. g = [b \in m .. n |-> Onward(b, g)]
    BY <2>7
  <2>9. DescentFrom(g, t, f, m)
    BY <2>8 DEF DescentFrom, n
  <2>10. QED
    BY <2>2, <2>3, <2>9
<1>2. PICK j : j = n - k
  OBVIOUS
<1>3. j \in 0 .. n - 1 /\ n - j = k
  BY <1>0, <1>2
<1>4. QED
  BY <1>1, <1>3

\* Where the descent ends that starts at b.
Below(t, f, b) == (CHOOSE g : DescentFrom(g, t, f, 1))[b]

LEMMA BelowOf ==
    ASSUME NEW t, Tree(t), NEW f, NEW b \in Blocks(t)
    PROVE  Below(t, f, b) = IF Down(t, f, b) = 0 THEN b ELSE Below(t, f, Down(t, f, b))
<1>1. PICK g : g = CHOOSE h : DescentFrom(h, t, f, 1)
  OBVIOUS
<1>2. DescentFrom(g, t, f, 1)
  BY <1>1, TreeBlocks, DescentExists
<1>3. g[b] = IF Down(t, f, b) = 0 THEN b ELSE g[Down(t, f, b)]
  BY <1>2 DEF DescentFrom, Blocks
<1>4. QED
  BY <1>1, <1>3 DEF Below

LEMMA DescentIsBelow ==
    ASSUME NEW t, Tree(t), NEW f
    PROVE  Fork!Descent(t, f) = Below(t, f, 1)
<1>1. DOMAIN t.parent = 1 .. Len(t.parent)
  BY TreeBlocks DEF Blocks
<1>2. QED
  BY <1>1 DEF Fork!Descent, Below, DescentFrom, Down, Fork!None, Fork!Genesis

LEMMA BelowTyped ==
    ASSUME NEW t, Tree(t), NEW f, NEW b \in Blocks(t)
    PROVE  Below(t, f, b) \in Blocks(t)
<1> DEFINE n == Len(t.parent)
           T == {j \in 0 .. n : \E c \in Blocks(t) : j = n - c /\ Below(t, f, c) \notin Blocks(t)}
<1>0. n \in Nat \ {0} /\ Blocks(t) = 1 .. n
  BY TreeBlocks DEF Blocks
<1>1. ASSUME T # {} PROVE FALSE
  <2> HIDE DEF T, n
  <2>1. PICK j \in T : \A i \in T : j <= i
    <3>1. T \subseteq Nat
      BY <1>0 DEF T
    <3>2. QED
      BY <1>1, <3>1, LeastOne
  <2>2. PICK c \in Blocks(t) : j = n - c /\ Below(t, f, c) \notin Blocks(t)
    BY DEF T
  <2>3. PICK d : d = Down(t, f, c)
    OBVIOUS
  <2>4. d # 0
    BY <2>2, <2>3, BelowOf
  <2>5. d \in Blocks(t) /\ c < d /\ Below(t, f, c) = Below(t, f, d)
    BY <2>3, <2>4, DownOf, BelowOf
  <2>6. n - d \in 0 .. n /\ n - d < j
    BY <1>0, <2>2, <2>5
  <2>7. n - d \notin T
    BY <1>0, <2>1, <2>2, <2>6
  <2>8. QED
    BY <2>2, <2>5, <2>6, <2>7 DEF T
<1>2. PICK j : j = n - b
  OBVIOUS
<1>3. j \in 0 .. n
  BY <1>0, <1>2
<1>4. QED
  BY <1>1, <1>2, <1>3

LEMMA BestTyped ==
    ASSUME NEW t, Rooted(t), NEW polled
    PROVE  Fork!Best(t, polled) = 0 \/ Fork!Best(t, polled) \in Blocks(t)
<1>1. Tree(t) /\ t.tips \subseteq Blocks(t) /\ t.tips \subseteq Nat \ {0} /\ 1 \in Blocks(t)
  <2>1. Tree(t) /\ t.tips \subseteq Blocks(t)
    BY DEF Rooted
  <2>2. QED
    BY <2>1, TreeBlocks
<1>2. PICK w : w = Fork!Worth(t, polled)
  OBVIOUS
<1>3. CASE rule \in {"longest_chain", "heaviest"}
  <2>1. Fork!Best(t, polled) = Fork!Greatest(t.tips, w)
    BY <1>2, <1>3 DEF Fork!Best
  <2>2. QED
    BY <1>1, <2>1, GreatestIn
<1>4. CASE rule \notin {"longest_chain", "heaviest"}
  <2>1. Fork!Best(t, polled) = Below(t, w, 1)
    BY <1>1, <1>2, <1>4, DescentIsBelow DEF Fork!Best
  <2>2. QED
    BY <1>1, <2>1, BelowTyped
<1>5. QED
  BY <1>3, <1>4

-----------------------------------------------------------------------------
(***************************************************************************)
(* What the two rules that descend find.                                   *)
(***************************************************************************)
LEMMA WeighNothing ==
    ASSUME NEW S, IsFiniteSet(S), NEW f, \A x \in S : f[x] = 0
    PROVE  Weigh(f, S) = 0
<1> DEFINE T == {s \in SUBSET S : Weigh(f, s) # 0}
<1>1. ASSUME T # {} PROVE FALSE
  <2> HIDE DEF T
  <2>1. PICK m \in T : \A s \in T : s \subseteq m => s = m
    <3>1. T \subseteq SUBSET S
      BY DEF T
    <3>2. QED
      BY <1>1, <3>1, Smallest
  <2>2. m \in SUBSET S /\ Weigh(f, m) # 0 /\ IsFiniteSet(m)
    BY FS_Subset DEF T
  <2>3. m # {}
    BY <2>2, WeighStep
  <2>4. Weigh(f, m \ {Pick(m)}) = 0 /\ Pick(m) \in S
    BY <2>1, <2>2, <2>3, PickIn DEF T
  <2>5. Weigh(f, m) = f[Pick(m)] + Weigh(f, m \ {Pick(m)})
    BY <2>2, <2>3, WeighStep
  <2>6. QED
    BY <2>2, <2>4, <2>5
<1>2. QED
  BY <1>1

LEMMA WeighAtLeast ==
    ASSUME NEW S, IsFiniteSet(S), NEW f, \A x \in S : f[x] \in Nat, NEW y \in S
    PROVE  f[y] <= Weigh(f, S)
<1> DEFINE R == S \ {y}
<1>1. IsFiniteSet(R) /\ y \notin R /\ R \cup {y} = S
  BY FS_Subset
<1>2. \A x \in R : f[x] \in Nat
  OBVIOUS
<1>3. \A x \in R \cup {y} : f[x] \in Nat
  OBVIOUS
<1> HIDE DEF R
<1>4. Weigh(f, R \cup {y}) = Weigh(f, R) + f[y]
  BY ONLY <1>1, <1>3, WeighAdds
<1>5. Weigh(f, R) \in Nat
  BY ONLY <1>1, <1>2, WeighTyped
<1>6. f[y] \in Nat
  OBVIOUS
<1>7. QED
  BY <1>1, <1>4, <1>5, <1>6

LEMMA SubtreeOf ==
    ASSUME NEW t, Tree(t), NEW b \in Blocks(t)
    PROVE  /\ Fork!Subtree(t, b) = {d \in Blocks(t) : b \in Path(t, d)}
           /\ IsFiniteSet(Fork!Subtree(t, b)) /\ b \in Fork!Subtree(t, b)
<1>1. Fork!Subtree(t, b) = {d \in Blocks(t) : b \in Path(t, d)}
  BY TreeBlocks DEF Fork!Subtree, Path
<1>2. IsFiniteSet(Blocks(t))
  BY TreeBlocks, UpToFinite DEF Blocks
<1>3. IsFiniteSet(Fork!Subtree(t, b))
  BY <1>1, <1>2, FS_Subset
<1>4. QED
  BY <1>1, <1>3, PathWithin

(* Votes for genesis outweigh nothing below it.                            *)
LEMMA GenesisIsBest ==
    ASSUME NEW t, Tree(t), rule = "lmd_ghost", NEW polled,
           \A x \in 2 .. Len(t.parent) : polled[x] = 0
    PROVE  Fork!Best(t, polled) = 1
<1> DEFINE w == Fork!Worth(t, polled)
<1>1. \A c \in Fork!Children(t, 1) : w[c] = 0
  <2> SUFFICES ASSUME NEW c \in Fork!Children(t, 1) PROVE w[c] = 0
    OBVIOUS
  <2>1. c \in Blocks(t) /\ c # 1
    BY TreeBlocks, ChildrenOf
  <2>2. w[c] = Weigh(polled, Fork!Subtree(t, c))
    <3>1. c \in DOMAIN t.parent
      BY <2>1, TreeBlocks
    <3>2. QED
      BY <3>1 DEF Fork!Worth, Weigh, Fork!MapThenSumSet, Fork!MapThenFoldSet, MapThenSumSet, MapThenFoldSet
  <2>3. \A d \in Fork!Subtree(t, c) : polled[d] = 0
    <3> SUFFICES ASSUME NEW d \in Fork!Subtree(t, c) PROVE polled[d] = 0
      OBVIOUS
    <3>1. d \in Blocks(t) /\ c \in Path(t, d)
      BY <2>1, SubtreeOf
    <3>2. d # 1
      BY <2>1, <3>1, PathOf
    <3>3. d \in 2 .. Len(t.parent)
      BY <3>1, <3>2, TreeBlocks DEF Blocks
    <3>4. QED
      BY <3>3
  <2>4. QED
    BY <2>1, <2>2, <2>3, SubtreeOf, WeighNothing
<1> HIDE DEF w
<1>2. Down(t, w, 1) = 0
  <2>1. Fork!Children(t, 1) \subseteq Nat \ {0}
    BY TreeBlocks, ChildrenOf
  <2>2. PICK g : g = Fork!Greatest(Fork!Children(t, 1), w)
    OBVIOUS
  <2>3. g = 0 \/ (g \in Fork!Children(t, 1) /\ w[g] > 0)
    BY ONLY <2>1, <2>2, GreatestIn
  <2>4. ~(0 > 0)
    OBVIOUS
  <2>5. QED
    BY <1>1, <2>2, <2>3, <2>4 DEF Down
<1>3. Fork!Best(t, polled) = Below(t, w, 1)
  BY DescentIsBelow DEF Fork!Best, w
<1>4. QED
  BY <1>2, <1>3, TreeBlocks, BelowOf

\* The block after a on the path to b.
LEMMA NextOnPath ==
    ASSUME NEW t, Tree(t), NEW b \in Blocks(t), NEW a \in Path(t, b), a # b
    PROVE  \E s \in Path(t, b) : s \in Blocks(t) /\ s # 1 /\ t.parent[s] = a
<1> DEFINE T == {c \in Blocks(t) : /\ a \in Path(t, c) /\ a # c
                                   /\ ~ \E s \in Path(t, c) : s \in Blocks(t) /\ s # 1 /\ t.parent[s] = a}
<1>1. ASSUME T # {} PROVE FALSE
  <2> HIDE DEF T
  <2>1. PICK m \in T : \A j \in T : m <= j
    <3>1. T \subseteq Nat
      BY TreeBlocks DEF T
    <3>2. QED
      BY <1>1, <3>1, LeastOne
  <2>2. /\ m \in Blocks(t) /\ a \in Path(t, m) /\ a # m
        /\ ~ \E s \in Path(t, m) : s \in Blocks(t) /\ s # 1 /\ t.parent[s] = a
    BY DEF T
  <2>3. m # 1
    BY <2>2, PathOf
  <2>4. PICK p : p = t.parent[m]
    OBVIOUS
  <2>5. Path(t, m) = {m} \cup Path(t, p) /\ p \in Blocks(t) /\ p < m
    BY <2>2, <2>3, <2>4, PathOf, TreeBlocks
  <2>6. p # a
    BY <2>2, <2>3, <2>4, <2>5
  <2>7. p \notin T
    BY <2>1, <2>2, <2>5, TreeBlocks
  <2>8. QED
    BY <2>2, <2>5, <2>6, <2>7 DEF T
<1>2. QED
  BY <1>1

\* Of two blocks on one path, one is on the path to the other.
LEMMA PathLinear ==
    ASSUME NEW t, Tree(t), NEW b \in Blocks(t), NEW x \in Path(t, b), NEW y \in Path(t, b)
    PROVE  x \in Path(t, y) \/ y \in Path(t, x)
<1> DEFINE T == {c \in Blocks(t) : /\ x \in Path(t, c) /\ y \in Path(t, c)
                                   /\ ~(x \in Path(t, y) \/ y \in Path(t, x))}
<1>1. ASSUME T # {} PROVE FALSE
  <2> HIDE DEF T
  <2>1. PICK m \in T : \A j \in T : m <= j
    <3>1. T \subseteq Nat
      BY TreeBlocks DEF T
    <3>2. QED
      BY <1>1, <3>1, LeastOne
  <2>2. /\ m \in Blocks(t) /\ x \in Path(t, m) /\ y \in Path(t, m)
        /\ ~(x \in Path(t, y) \/ y \in Path(t, x))
    BY DEF T
  <2>3. x # m /\ y # m
    BY <2>2
  <2>4. m # 1
    BY <2>2, <2>3, PathOf
  <2>5. PICK p : p = t.parent[m]
    OBVIOUS
  <2>6. Path(t, m) = {m} \cup Path(t, p) /\ p \in Blocks(t) /\ p < m
    BY <2>2, <2>4, <2>5, PathOf, TreeBlocks
  <2>7. p \notin T
    BY <2>1, <2>2, <2>6, TreeBlocks
  <2>8. QED
    BY <2>2, <2>3, <2>6, <2>7 DEF T
<1>2. QED
  BY <1>1

\* A block without children weighs what it is high.
LEMMA LeafWeighs ==
    ASSUME NEW t, Tree(t), NEW b \in Blocks(t), Fork!Children(t, b) = {}
    PROVE  Weigh(HeightsOf(t), Fork!Subtree(t, b)) = Fork!Height(t, b)
<1>1. Fork!Subtree(t, b) = {b}
  <2>1. ASSUME NEW d \in Blocks(t), b \in Path(t, d), d # b PROVE FALSE
    <3>1. PICK s \in Blocks(t) : s # 1 /\ t.parent[s] = b
      BY <2>1, NextOnPath
    <3>2. s \in Fork!Children(t, b)
      BY <3>1, TreeBlocks DEF Fork!Children
    <3>3. QED
      BY <3>2
  <2>2. QED
    BY <2>1, SubtreeOf
<1>2. HeightsOf(t)[b] = Fork!Height(t, b) /\ Fork!Height(t, b) \in Nat
  BY TreeBlocks, Heights DEF HeightsOf
<1>3. IsFiniteSet({}) /\ b \notin {} /\ Weigh(HeightsOf(t), {}) = 0
  BY FS_EmptySet, WeighStep
<1>4. \A r \in {} \cup {b} : HeightsOf(t)[r] \in Nat
  BY <1>2
<1>5. Weigh(HeightsOf(t), {} \cup {b}) = Weigh(HeightsOf(t), {}) + HeightsOf(t)[b]
  BY ONLY <1>3, <1>4, WeighAdds
<1>6. {} \cup {b} = {b}
  OBVIOUS
<1>7. QED
  BY <1>1, <1>2, <1>3, <1>5, <1>6

(* While no fork was counted, GHOST goes down the canonical chain and, if  *)
(* there is a block on its head, takes the first of these.                 *)
LEMMA GhostExtends ==
    ASSUME NEW t, Tree(t), rule = "ghost", NEW c, c.head \in Blocks(t), Unforked(t, c),
           NEW polled, NEW g, g = Fork!Best(t, polled)
    PROVE  \/ g = c.head
           \/ /\ g \in Blocks(t) /\ g # 1 /\ t.parent[g] = c.head
              /\ \A b \in 2 .. Len(t.parent) : t.parent[b] = c.head => g <= b
<1> DEFINE h == c.head
           w == Fork!Worth(t, polled)
           up(b) == Fork!Height(t, b)
<1>1. g = Below(t, w, 1)
  BY DescentIsBelow DEF Fork!Best
<1>2. \A b \in Blocks(t) : w[b] = Weigh(HeightsOf(t), Fork!Subtree(t, b))
  BY TreeBlocks DEF Fork!Worth, Weigh, Fork!MapThenSumSet, Fork!MapThenFoldSet, MapThenSumSet,
     MapThenFoldSet, HeightsOf
<1>3. \A b \in Blocks(t) : HeightsOf(t)[b] = up(b) /\ up(b) \in Nat
  BY TreeBlocks, Heights DEF HeightsOf
<1>4. \A b \in Blocks(t) : b # 1 => b \in 2 .. Len(t.parent) /\ t.parent[b] \in Path(t, h)
  <2> SUFFICES ASSUME NEW b \in Blocks(t), b # 1
               PROVE  b \in 2 .. Len(t.parent) /\ t.parent[b] \in Path(t, h)
    OBVIOUS
  <2>1. b \in 2 .. Len(t.parent)
    BY TreeBlocks DEF Blocks
  <2>2. QED
    BY <2>1 DEF Unforked
<1> HIDE DEF w, up
<1>5. \A b \in Blocks(t) : up(b) <= w[b] /\ (Fork!Children(t, b) = {} => w[b] = up(b)) /\ w[b] \in Nat
  <2> TAKE b \in Blocks(t)
  <2>1. IsFiniteSet(Fork!Subtree(t, b)) /\ b \in Fork!Subtree(t, b) /\ Fork!Subtree(t, b) \subseteq Blocks(t)
    BY SubtreeOf
  <2>2. \A x \in Fork!Subtree(t, b) : HeightsOf(t)[x] \in Nat
    BY <1>3, <2>1
  <2>3. HeightsOf(t)[b] <= Weigh(HeightsOf(t), Fork!Subtree(t, b))
    BY ONLY <2>1, <2>2, WeighAtLeast
  <2>4. Weigh(HeightsOf(t), Fork!Subtree(t, b)) \in Nat
    BY ONLY <2>1, <2>2, WeighTyped
  <2>5. Fork!Children(t, b) = {} => w[b] = up(b)
    BY <1>2, LeafWeighs DEF up
  <2>6. QED
    BY <1>2, <1>3, <2>3, <2>4, <2>5
<1>6. \A a \in Blocks(t) : \A b \in Fork!Children(t, a) : up(b) = up(a) + 1 /\ b \in Blocks(t)
  BY ChildrenOf, Heights DEF up
\* Blocks beside the canonical chain have no children.
<1>7. \A b \in Blocks(t) : b \notin Path(t, h) => Fork!Children(t, b) = {}
  <2> SUFFICES ASSUME NEW b \in Blocks(t), NEW d \in Fork!Children(t, b) PROVE b \in Path(t, h)
    OBVIOUS
  <2>1. d \in Blocks(t) /\ d # 1 /\ t.parent[d] = b
    BY ChildrenOf
  <2>2. QED
    BY <1>4, <2>1
<1>8. \A a \in Path(t, h) : a # h => /\ Down(t, w, a) \in Path(t, h) /\ a < Down(t, w, a)
                                     /\ Down(t, w, a) # 0 /\ a \in Blocks(t)
  <2> SUFFICES ASSUME NEW a \in Path(t, h), a # h
               PROVE  /\ Down(t, w, a) \in Path(t, h) /\ a < Down(t, w, a)
                      /\ Down(t, w, a) # 0 /\ a \in Blocks(t)
    OBVIOUS
  <2>1. PICK s \in Path(t, h) : s \in Blocks(t) /\ s # 1 /\ t.parent[s] = a
    BY NextOnPath
  <2>2. a \in Blocks(t) /\ s \in Fork!Children(t, a) /\ Fork!Children(t, a) \subseteq Nat \ {0}
    BY <2>1, TreeBlocks, PathsNested, ChildrenOf DEF Fork!Children
  <2>3. ASSUME NEW b \in Fork!Children(t, a) PROVE w[b] <= w[s] /\ s <= b
    <3>1. b \in Blocks(t) /\ t.parent[b] = a /\ b # 1 /\ up(b) = up(s) /\ up(s) \in Nat
      BY <1>3, <1>6, <2>2, <2>3, ChildrenOf
    <3>2. s <= b
      <4>1. b \in 2 .. Len(t.parent)
        BY <1>4, <3>1
      <4>2. QED
        BY <2>1, <3>1, <4>1 DEF Unforked
    <3>3. CASE b = s
      BY <1>5, <2>1, <3>2, <3>3
    <3>4. CASE b # s
      <4>1. b \notin Path(t, h)
        <5>1. ASSUME b \in Path(t, h) PROVE FALSE
          <6>1. b \in Path(t, s) \/ s \in Path(t, b)
            BY <2>1, <5>1, PathLinear
          <6>2. up(b) < up(s) \/ up(s) < up(b)
            BY <2>1, <3>1, <3>4, <6>1, HigherOnPath DEF up
          <6>3. QED
            BY <3>1, <6>2
        <5>2. QED
          BY <5>1
      <4>2. w[b] = up(b)
        BY <1>5, <1>7, <3>1, <4>1
      <4>3. QED
        BY <1>5, <2>1, <3>1, <3>2, <4>2
    <3>5. QED
      BY <3>3, <3>4
  <2>4. w[s] > 0
    <3>1. up(s) = up(a) + 1 /\ up(a) \in Nat /\ up(s) <= w[s] /\ w[s] \in Nat
      BY <1>3, <1>5, <1>6, <2>1, <2>2
    <3>2. QED
      BY <3>1
  <2>5. PICK d : d = Fork!Greatest(Fork!Children(t, a), w)
    OBVIOUS
  <2>6. \A b \in Fork!Children(t, a) : w[b] <= w[s]
    BY <2>3
  <2>7. d \in Fork!Children(t, a) /\ d <= s
    BY ONLY <2>2, <2>4, <2>5, <2>6, GreatestIn
  <2>8. d = s
    BY <2>2, <2>3, <2>7
  <2>9. a < s /\ s # 0
    BY <2>2, ChildrenOf, TreeBlocks
  <2>10. QED
    BY <2>1, <2>2, <2>5, <2>8, <2>9 DEF Down
<1>9. Below(t, w, 1) = Below(t, w, h)
  <2> DEFINE T == {j \in 0 .. h : \E a \in Path(t, h) : j = h - a /\ Below(t, w, a) # Below(t, w, h)}
  <2>0. h \in Nat /\ \A a \in Path(t, h) : a \in Nat /\ a <= h /\ a \in Blocks(t)
    BY TreeBlocks, PathsNested
  <2>1. ASSUME T # {} PROVE FALSE
    <3> HIDE DEF T
    <3>1. PICK j \in T : \A i \in T : j <= i
      <4>1. T \subseteq Nat
        BY <2>0 DEF T
      <4>2. QED
        BY <2>1, <4>1, LeastOne
    <3>2. PICK a \in Path(t, h) : j = h - a /\ Below(t, w, a) # Below(t, w, h)
      BY DEF T
    <3>3. a # h
      BY <3>2
    <3>4. PICK d : d = Down(t, w, a)
      OBVIOUS
    <3>5. d \in Path(t, h) /\ a < d /\ d # 0
      BY <1>8, <3>3, <3>4
    <3>6. Below(t, w, a) = Below(t, w, d)
      BY <2>0, <3>4, <3>5, BelowOf
    <3>7. h - d \in 0 .. h /\ h - d < j
      BY <2>0, <3>2, <3>5
    <3>8. h - d \notin T
      BY <2>0, <3>1, <3>2, <3>7
    <3>9. QED
      BY <3>2, <3>5, <3>6, <3>7, <3>8 DEF T
  <2>2. 1 \in Path(t, h) /\ h - 1 \in 0 .. h
    BY <2>0, PathWithin, TreeBlocks
  <2>3. QED
    BY <2>1, <2>2
\* The children of the head have none.
<1>10. \A b \in Fork!Children(t, h) : b \in Blocks(t) /\ Fork!Children(t, b) = {} /\ w[b] = up(h) + 1
  <2> TAKE b \in Fork!Children(t, h)
  <2>1. b \in Blocks(t) /\ h < b
    BY ChildrenOf
  <2>2. b \notin Path(t, h)
    BY <2>1, PathWithin, TreeBlocks
  <2>3. QED
    BY <1>5, <1>6, <1>7, <2>1, <2>2
<1>11. PICK d : d = Fork!Greatest(Fork!Children(t, h), w)
  OBVIOUS
<1>12. Fork!Children(t, h) \subseteq Nat \ {0}
  BY <1>10, TreeBlocks
<1>13. d = 0 \/ d \in Fork!Children(t, h)
  BY ONLY <1>11, <1>12, GreatestIn
<1>14. CASE d = 0
  BY <1>1, <1>9, <1>11, <1>14, BelowOf DEF Down
<1>15. CASE d # 0
  <2>1. d \in Blocks(t) /\ Fork!Children(t, d) = {} /\ t.parent[d] = h /\ d # 1
    BY <1>10, <1>13, <1>15, ChildrenOf
  <2>2. Below(t, w, h) = Below(t, w, d)
    BY <1>11, <1>15, BelowOf DEF Down
  <2>3. Down(t, w, d) = 0
    BY <2>1, DownOf
  <2>4. g = d
    BY <1>1, <1>9, <2>1, <2>2, <2>3, BelowOf
  <2>5. up(h) \in Nat
    BY <1>3
  <2>6. ASSUME NEW b \in 2 .. Len(t.parent), t.parent[b] = h PROVE d <= b
    <3>1. b \in Fork!Children(t, h)
      <4>1. b \in Blocks(t)
        BY TreeBlocks DEF Blocks
      <4>2. QED
        BY <2>6, <4>1, TreeBlocks DEF Fork!Children
    <3>2. w[b] > 0 /\ \A e \in Fork!Children(t, h) : w[e] <= w[b]
      BY <1>10, <2>5, <3>1
    <3>3. QED
      BY ONLY <1>11, <1>12, <3>1, <3>2, GreatestIn
  <2>7. QED
    BY <2>1, <2>4, <2>6
<1>16. QED
  BY <1>14, <1>15

(* The canonical chain computed anew.                                      *)
LEMMA CanonicalKeeps ==
    ASSUME NEW t, Rooted(t), Len(t.parent) <= MaxTree, MaxTree \in Nat, NEW b, BallotsCount(b),
           rule \in Fork!Rules, Headed(t, canonicalChain), NEW c, c = Fork!Canonical(t, b.votes)
    PROVE  Headed(t, c)
<1>1. PICK g : g = Fork!Best(t, b.votes)
  OBVIOUS
<1>2. PICK h : h = canonicalChain.head
  OBVIOUS
<1>3. Tree(t) /\ h \in Blocks(t) /\ t.forkCount \in Nat /\ canonicalChain.reorgCount \in Nat
  BY <1>2, TreeBlocks DEF Rooted, Headed
<1>4. CASE g = 0 \/ g = h
  BY <1>1, <1>2, <1>4 DEF Fork!Canonical, Fork!None
<1>5. CASE g # 0 /\ g # h
  <2>1. g \in Blocks(t)
    BY <1>1, <1>5, BestTyped
  <2>2. /\ c.head = g /\ c.canonical = Path(t, g)
        /\ c.reorgCount = canonicalChain.reorgCount + IF h \in Path(t, g) THEN 0 ELSE 1
    BY <1>1, <1>2, <1>5 DEF Fork!Canonical, Fork!None, Path
  <2>3. c.reorgCount \in Nat /\ c.reorgCount <= canonicalChain.reorgCount + 1
    BY <1>3, <2>2
  <2>4. rule # "lmd_ghost"
    <3> SUFFICES ASSUME rule = "lmd_ghost" PROVE FALSE
      OBVIOUS
    <3>1. \A x \in 2 .. Len(t.parent) : b.votes[x] = 0
      <4>1. \A x \in 2 .. Len(t.parent) : x \in 2 .. MaxTree
        BY <1>3, TreeBlocks
      <4>2. QED
        BY <4>1 DEF BallotsCount
    <3>2. g = 1
      BY <1>1, <1>3, <3>1, GenesisIsBest
    <3>3. h = 1
      BY <1>2 DEF Headed
    <3>4. QED
      BY <1>5, <3>2, <3>3
  <2>5. ASSUME rule \in {"longest_chain", "heaviest"}
        PROVE  First(t, c) /\ Fork!Height(t, h) < Fork!Height(t, g)
    <3>1. First(t, canonicalChain)
      BY <2>5 DEF Headed
    <3>2. /\ \A e \in Blocks(t) : Fork!Height(t, e) <= Fork!Height(t, g)
          /\ \A e \in Blocks(t) : e < g => Fork!Height(t, e) < Fork!Height(t, g)
      BY <1>1, <1>5, <2>5, HighestIsBest
    <3>3. /\ Fork!Height(t, h) \in Nat /\ Fork!Height(t, g) \in Nat /\ g \in Nat /\ h \in Nat
      BY <1>3, <2>1, Heights, TreeBlocks
    <3>4. Fork!Height(t, h) < Fork!Height(t, g)
      <4>1. CASE h < g
        BY <1>3, <3>2, <4>1
      <4>2. CASE g < h
        <5>1. Fork!Height(t, g) < Fork!Height(t, h)
          BY <1>2, <2>1, <3>1, <4>2 DEF First
        <5>2. QED
          BY <1>3, <3>2, <3>3, <5>1
      <4>3. QED
        BY <1>5, <3>3, <4>1, <4>2
    <3>5. canonicalChain.reorgCount <= Fork!Height(t, h)
      BY <1>2, <3>1 DEF First
    <3>6. c.reorgCount <= Fork!Height(t, g)
      BY <1>3, <2>3, <3>3, <3>4, <3>5
    <3>7. QED
      BY <2>2, <3>2, <3>4, <3>6 DEF First
  <2>6. ASSUME t.forkCount = 0 PROVE Unforked(t, c)
    <3>1. Unforked(t, canonicalChain)
      BY <2>6 DEF Headed
    <3>2. g # 1 /\ t.parent[g] = h
      <4>1. CASE rule = "ghost"
        BY <1>1, <1>2, <1>3, <1>5, <3>1, <4>1, GhostExtends
      <4>2. CASE rule \in {"longest_chain", "heaviest"}
        <5>1. Fork!Height(t, h) < Fork!Height(t, g)
          BY <2>5, <4>2
        <5>2. g # 1
          <6>1. Fork!Height(t, h) \in Nat /\ (g = 1 => Fork!Height(t, g) = 0)
            BY <1>3, <2>1, Heights
          <6>2. QED
            BY <5>1, <6>1
        <5>3. PICK p : p = t.parent[g]
          OBVIOUS
        <5>4. /\ p \in Path(t, h) /\ p \in Blocks(t)
              /\ Fork!Height(t, g) = Fork!Height(t, p) + 1
          <6>1. g \in 2 .. Len(t.parent)
            BY <1>3, <2>1, <5>2, TreeBlocks DEF Blocks
          <6>2. p \in Path(t, h)
            BY <1>2, <3>1, <5>3, <6>1 DEF Unforked
          <6>3. QED
            BY <1>3, <2>1, <5>2, <5>3, <6>2, TreeBlocks, Heights
        <5>5. /\ Fork!Height(t, h) \in Nat /\ Fork!Height(t, p) \in Nat
          BY <1>3, <5>4, Heights
        <5>6. p = h
          <6> SUFFICES ASSUME p # h PROVE FALSE
            OBVIOUS
          <6>1. Fork!Height(t, p) < Fork!Height(t, h)
            BY <1>3, <5>4, HigherOnPath
          <6>2. QED
            BY <5>1, <5>4, <5>5, <6>1
        <5>7. QED
          BY <5>2, <5>3, <5>6
      <4>3. CASE rule \notin {"ghost", "longest_chain", "heaviest"}
        BY <2>4, <4>3 DEF Fork!Rules
      <4>4. QED
        BY <4>1, <4>2, <4>3
    <3>3. Path(t, g) = {g} \cup Path(t, h) /\ h \in Path(t, g)
      BY <1>3, <2>1, <3>2, PathOf, PathWithin
    <3>4. c.reorgCount = 0
      BY <1>3, <2>2, <3>1, <3>3 DEF Unforked
    <3>5. \A e \in 2 .. Len(t.parent) : t.parent[e] \in Path(t, g)
      BY <1>2, <3>1, <3>3 DEF Unforked
    <3>6. ASSUME rule = "ghost", NEW s \in Path(t, g) \ {1}, NEW e \in 2 .. Len(t.parent),
                 t.parent[e] = t.parent[s]
          PROVE  s <= e
      <4>1. CASE s = g
        BY <1>1, <1>2, <1>3, <1>5, <3>1, <3>2, <3>6, <4>1, GhostExtends
      <4>2. CASE s # g
        BY <1>2, <3>1, <3>3, <3>6, <4>2 DEF Unforked
      <4>3. QED
        BY <4>1, <4>2
    <3>7. QED
      BY <2>2, <3>4, <3>5, <3>6 DEF Unforked
  <2>7. QED
    BY <2>1, <2>2, <2>3, <2>4, <2>5, <2>6 DEF Headed
<1>6. QED
  BY <1>4, <1>5

-----------------------------------------------------------------------------
(***************************************************************************)
(* The votes of the nodes, one after the other.                            *)
(***************************************************************************)
\* What a node's vote does to the ballots.
VoteCast(t, b, n) ==
    LET old == b.votedFor[n]
        new == Fork!Best(t, b.votes)
    IN  IF new \in {0, old} THEN b
        ELSE [votedFor |-> [b.votedFor EXCEPT ![n] = new],
              votes |-> [x \in DOMAIN b.votes |->
                  b.votes[x] + (IF x = new THEN 1 ELSE 0) - (IF x = old THEN 1 ELSE 0)]]

CastsTo(f, t, k) == f = [n \in 0 .. k |-> IF n = 0 THEN ballots ELSE VoteCast(t, f[n - 1], n)]

LEMMA CastKeeps ==
    ASSUME NEW t, Rooted(t), Len(t.parent) <= MaxTree, Fork!ForkChoiceAssumption,
           NEW b, BallotsCount(b), NEW n \in Fork!Nodes
    PROVE  BallotsCount(VoteCast(t, b, n))
<1>1. PICK new : new = Fork!Best(t, b.votes)
  OBVIOUS
<1>2. PICK old : old = b.votedFor[n]
  OBVIOUS
<1>3. CASE new \in {0, old}
  BY <1>1, <1>2, <1>3 DEF VoteCast
<1>4. CASE new \notin {0, old}
  <2>1. PICK c : c = VoteCast(t, b, n)
    OBVIOUS
  <2>2. b.votes \in [1 .. MaxTree -> Nat] /\ b.votedFor \in [Fork!Nodes -> 0 .. MaxTree]
    BY DEF BallotsCount
  <2>3. /\ c.votedFor = [b.votedFor EXCEPT ![n] = new]
        /\ c.votes = [x \in 1 .. MaxTree |->
               b.votes[x] + (IF x = new THEN 1 ELSE 0) - (IF x = old THEN 1 ELSE 0)]
    BY <1>1, <1>2, <1>4, <2>1, <2>2 DEF VoteCast
  <2>4. /\ new \in 1 .. MaxTree /\ old \in 0 .. MaxTree /\ MaxTree \in Nat /\ new # old
    <3>1. new \in Blocks(t) /\ Len(t.parent) \in Nat /\ MaxTree \in Nat
      BY <1>1, <1>4, BestTyped, TreeBlocks DEF Rooted, Fork!ForkChoiceAssumption
    <3>2. QED
      BY <1>2, <1>4, <2>2, <3>1 DEF Blocks
  <2>5. c.votedFor \in [Fork!Nodes -> 0 .. MaxTree]
    BY <2>2, <2>3, <2>4
  <2> DEFINE V(x) == {m \in Fork!Nodes : b.votedFor[m] = x}
             W(x) == {m \in Fork!Nodes : c.votedFor[m] = x}
  <2>6. \A x \in 1 .. MaxTree : /\ b.votes[x] = Cardinality(V(x)) /\ b.votes[x] \in Nat
                                /\ IsFiniteSet(V(x))
    <3> TAKE x \in 1 .. MaxTree
    <3>1. IsFiniteSet(Fork!Nodes)
      BY FS_Interval DEF Fork!Nodes, Fork!ForkChoiceAssumption
    <3>2. V(x) \subseteq Fork!Nodes
      OBVIOUS
    <3>3. IsFiniteSet(V(x))
      BY <3>1, <3>2, FS_Subset
    <3>4. QED
      BY <2>2, <3>3 DEF BallotsCount
  <2>7. \A x \in 1 .. MaxTree : W(x) = IF x = new THEN V(x) \cup {n}
                                       ELSE IF x = old THEN V(x) \ {n} ELSE V(x)
    <3> TAKE x \in 1 .. MaxTree
    <3>1. \A m \in Fork!Nodes : c.votedFor[m] = IF m = n THEN new ELSE b.votedFor[m]
      BY <2>2, <2>3
    <3>2. QED
      BY <1>2, <2>4, <3>1
  <2>8. n \notin V(new) /\ (\A x \in 1 .. MaxTree : x = old => n \in V(x))
    BY <1>2, <2>4
  <2> HIDE DEF V, W
  <2>9. \A x \in 1 .. MaxTree : c.votes[x] = Cardinality(W(x)) /\ c.votes[x] \in Nat
    <3> TAKE x \in 1 .. MaxTree
    <3>1. CASE x = new
      <4>1. Cardinality(V(x) \cup {n}) = Cardinality(V(x)) + 1
        BY <2>6, <2>8, <3>1, FS_AddElement
      <4>2. W(x) = V(x) \cup {n}
        BY <2>7, <3>1
      <4>3. c.votes[x] = b.votes[x] + 1 - 0
        BY <2>3, <2>4, <3>1
      <4>4. b.votes[x] = Cardinality(V(x)) /\ b.votes[x] \in Nat
        BY <2>6
      <4>5. QED
        BY <4>1, <4>2, <4>3, <4>4
    <3>2. CASE x = old /\ x # new
      <4>1. n \in V(x)
        BY <2>8, <3>2
      <4>2. Cardinality(V(x) \ {n}) = Cardinality(V(x)) - 1
        BY <2>6, <4>1, FS_RemoveElement
      <4>3. Cardinality(V(x) \ {n}) \in Nat
        BY <2>6, FS_RemoveElement, FS_CardinalityType
      <4>4. W(x) = V(x) \ {n}
        BY <2>7, <3>2
      <4>5. c.votes[x] = b.votes[x] + 0 - 1
        BY <2>3, <2>4, <3>2
      <4>6. b.votes[x] = Cardinality(V(x)) /\ b.votes[x] \in Nat
        BY <2>6
      <4>7. QED
        BY <4>2, <4>3, <4>4, <4>5, <4>6
    <3>3. CASE x # old /\ x # new
      BY <2>3, <2>4, <2>6, <2>7, <3>3
    <3>4. QED
      BY <3>1, <3>2, <3>3
  <2>10. ASSUME rule = "lmd_ghost", NEW x \in 2 .. MaxTree PROVE c.votes[x] = 0
    <3>1. \A y \in 2 .. MaxTree : b.votes[y] = 0
      BY <2>10 DEF BallotsCount
    <3>2. new = 1
      <4>1. \A y \in 2 .. Len(t.parent) : y \in 2 .. MaxTree
        BY <2>4, TreeBlocks DEF Rooted
      <4>2. QED
        BY <1>1, <2>10, <3>1, <4>1, GenesisIsBest DEF Rooted
    <3>3. x \in 1 .. MaxTree /\ x # 1
      BY <2>4
    <3>4. b.votes[x] = 0 /\ c.votes[x] \in Nat
      BY <2>9, <3>1, <3>3
    <3>5. c.votes[x] = b.votes[x] + 0 - (IF x = old THEN 1 ELSE 0)
      BY <2>3, <3>2, <3>3
    <3>6. x # old
      <4>1. ASSUME x = old PROVE FALSE
        <5>1. c.votes[x] = 0 + 0 - 1
          BY <3>4, <3>5, <4>1
        <5>2. QED
          BY <3>4, <5>1
      <4>2. QED
        BY <4>1
    <3>7. c.votes[x] = 0 + 0 - 0
      BY <3>4, <3>5, <3>6
    <3>8. QED
      BY <3>7
  <2>11. c.votes \in [1 .. MaxTree -> Nat]
    BY <2>3, <2>9
  <2>12. \A x \in 1 .. MaxTree : c.votes[x] = Cardinality({m \in Fork!Nodes : c.votedFor[m] = x})
    BY <2>9 DEF W
  <2>13. QED
    BY <2>1, <2>5, <2>10, <2>11, <2>12 DEF BallotsCount
<1>5. QED
  BY <1>3, <1>4

LEMMA CastsExist ==
    ASSUME NEW t, NEW k \in Nat
    PROVE  \E f : CastsTo(f, t, k)
<1> DEFINE T == {m \in Nat : ~ \E f : CastsTo(f, t, m)}
<1>1. ASSUME T # {} PROVE FALSE
  <2> HIDE DEF T
  <2>1. PICK m \in T : \A n \in T : m <= n
    <3>1. T \subseteq Nat
      BY DEF T
    <3>2. QED
      BY <1>1, <3>1, LeastOne
  <2>2. m \in Nat /\ ~ \E f : CastsTo(f, t, m)
    BY DEF T
  <2>3. CASE m = 0
    <3> DEFINE f == [n \in 0 .. m |-> ballots]
    <3>1. \A n \in 0 .. m : n = 0
      BY <2>3
    <3>2. f = [n \in 0 .. m |-> IF n = 0 THEN ballots ELSE VoteCast(t, f[n - 1], n)]
      BY <3>1
    <3>3. CastsTo(f, t, m)
      BY <3>2 DEF CastsTo
    <3>4. QED
      BY <2>2, <3>3
  <2>4. CASE m # 0
    <3>1. m - 1 \in Nat /\ m - 1 \notin T
      BY <2>1, <2>2, <2>4
    <3>2. PICK g : CastsTo(g, t, m - 1)
      BY <3>1 DEF T
    <3> DEFINE f == [n \in 0 .. m |-> IF n = m THEN VoteCast(t, g[m - 1], m) ELSE g[n]]
    <3>3. \A n \in 0 .. m - 1 : g[n] = IF n = 0 THEN ballots ELSE VoteCast(t, g[n - 1], n)
      BY <3>2 DEF CastsTo
    <3>4. \A n \in 0 .. m : n # 0 => n - 1 \in 0 .. m /\ n - 1 # m /\ f[n - 1] = g[n - 1]
      BY <2>2
    <3>5. \A n \in 0 .. m : f[n] = IF n = 0 THEN ballots ELSE VoteCast(t, f[n - 1], n)
      <4> TAKE n \in 0 .. m
      <4>1. CASE n = m
        BY <2>4, <3>4, <4>1
      <4>2. CASE n # m
        <5>1. n \in 0 .. m - 1 /\ f[n] = g[n]
          BY <2>2, <4>2
        <5> HIDE DEF f
        <5>2. QED
          BY <3>3, <3>4, <5>1
      <4>3. QED
        BY <4>1, <4>2
    <3>6. f = [n \in 0 .. m |-> IF n = 0 THEN ballots ELSE VoteCast(t, f[n - 1], n)]
      BY <3>5
    <3>7. CastsTo(f, t, m)
      BY <3>6 DEF CastsTo
    <3>8. QED
      BY <2>2, <3>7
  <2>5. QED
    BY <2>3, <2>4
<1>2. QED
  BY <1>1

LEMMA CastVotesKeeps ==
    ASSUME NEW t, Rooted(t), Len(t.parent) <= MaxTree, Fork!ForkChoiceAssumption, BallotsCount(ballots)
    PROVE  BallotsCount(Fork!CastVotes(t))
<1>0. ForkNodes \in Nat
  BY DEF Fork!ForkChoiceAssumption
<1>1. Fork!CastVotes(t) = (CHOOSE f : CastsTo(f, t, ForkNodes))[ForkNodes]
  BY DEF Fork!CastVotes, CastsTo, VoteCast, Fork!None
<1>2. PICK f : f = CHOOSE g : CastsTo(g, t, ForkNodes)
  OBVIOUS
<1>3. CastsTo(f, t, ForkNodes)
  BY <1>0, <1>2, CastsExist
<1> DEFINE T == {n \in 0 .. ForkNodes : ~BallotsCount(f[n])}
<1>4. ASSUME T # {} PROVE FALSE
  <2> HIDE DEF T
  <2>1. PICK m \in T : \A n \in T : m <= n
    <3>1. T \subseteq Nat
      BY DEF T
    <3>2. QED
      BY <1>4, <3>1, LeastOne
  <2>2. m \in 0 .. ForkNodes /\ ~BallotsCount(f[m])
    BY DEF T
  <2>3. f[m] = IF m = 0 THEN ballots ELSE VoteCast(t, f[m - 1], m)
    BY <1>3, <2>2 DEF CastsTo
  <2>4. m # 0
    BY <2>2, <2>3
  <2>5. m - 1 \in 0 .. ForkNodes /\ m - 1 \notin T /\ m \in Fork!Nodes
    BY <1>0, <2>1, <2>2, <2>4 DEF Fork!Nodes
  <2>6. BallotsCount(f[m - 1])
    BY <2>5 DEF T
  <2>7. QED
    BY <2>2, <2>3, <2>4, <2>5, <2>6, CastKeeps
<1>5. ForkNodes \in 0 .. ForkNodes
  BY <1>0
<1>6. BallotsCount(f[ForkNodes])
  BY <1>4, <1>5
<1>7. QED
  BY <1>1, <1>2, <1>6

-----------------------------------------------------------------------------
(***************************************************************************)
(* The inductive invariant of the fork-choice simulator.                   *)
(***************************************************************************)
ForkInv ==
    /\ rule \in Fork!Rules /\ forkTick \in 0 .. 14
    /\ Rooted(tree) /\ Len(tree.parent) <= MaxTree
    /\ BallotsCount(ballots)
    /\ Headed(tree, canonicalChain)

LEMMA ForkInit ==
    ASSUME Fork!ForkChoiceAssumption
    PROVE  Fork!Init => ForkInv
<1> SUFFICES ASSUME Fork!Init PROVE ForkInv
  OBVIOUS
<1>1. /\ rule \in Fork!Rules /\ forkTick = 0
      /\ tree.parent = <<0>> /\ tree.tips = {1} /\ tree.forkCount = 0
      /\ ballots.votedFor = [n \in Fork!Nodes |-> 0]
      /\ ballots.votes = [b \in 1 .. MaxTree |-> 0]
      /\ canonicalChain.head = 1 /\ canonicalChain.canonical = {1} /\ canonicalChain.reorgCount = 0
  BY DEF Fork!Init, Fork!None, Fork!Genesis
<1>2. /\ tree.parent \in Seq(Nat) /\ Len(tree.parent) = 1 /\ tree.parent[1] = 0
      /\ Blocks(tree) = {1} /\ DOMAIN tree.parent = {1}
  BY <1>1 DEF Blocks
<1>3. Tree(tree)
  BY <1>2 DEF Tree
<1>4. Fork!Children(tree, 1) = {}
  BY <1>2 DEF Fork!Children
<1>5. Rooted(tree)
  BY <1>1, <1>2, <1>3, <1>4 DEF Rooted
<1>6. BallotsCount(ballots)
  <2>1. \A x \in 1 .. MaxTree : {n \in Fork!Nodes : ballots.votedFor[n] = x} = {}
    BY <1>1
  <2>2. Cardinality({}) = 0
    BY FS_EmptySet
  <2>3. \A x \in 1 .. MaxTree : ballots.votes[x] = 0
    BY <1>1
  <2>4. \A x \in 2 .. MaxTree : x \in 1 .. MaxTree
    OBVIOUS
  <2>5. ballots.votedFor \in [Fork!Nodes -> 0 .. MaxTree] /\ ballots.votes \in [1 .. MaxTree -> Nat]
    BY <1>1 DEF Fork!ForkChoiceAssumption
  <2>6. QED
    BY <2>1, <2>2, <2>3, <2>4, <2>5 DEF BallotsCount
<1>7. Headed(tree, canonicalChain)
  <2>1. Path(tree, 1) = {1} /\ Fork!Height(tree, 1) = 0
    BY <1>2, <1>3, PathOf, Heights
  <2>2. First(tree, canonicalChain)
    BY <1>1, <1>2, <2>1 DEF First
  <2>3. Unforked(tree, canonicalChain)
    BY <1>1, <1>2, <2>1 DEF Unforked
  <2>4. QED
    BY <1>1, <1>2, <2>1, <2>2, <2>3 DEF Headed
<1>8. QED
  BY <1>1, <1>2, <1>5, <1>6, <1>7 DEF ForkInv, Fork!ForkChoiceAssumption

LEMMA ForkNext ==
    ASSUME Fork!ForkChoiceAssumption
    PROVE  ForkInv /\ [Fork!Next]_(Fork!vars) => ForkInv'
<1> SUFFICES ASSUME ForkInv, [Fork!Next]_(Fork!vars) PROVE ForkInv'
  OBVIOUS
<1>0. MaxTree \in Nat /\ Blocks(tree) = DOMAIN tree.parent
  BY TreeBlocks DEF Fork!ForkChoiceAssumption, ForkInv, Rooted
<1>1. ASSUME NEW t, NEW b, NEW c, Rooted(t), Len(t.parent) <= MaxTree, BallotsCount(b), Headed(t, c),
             UNCHANGED rule, tree' = t, ballots' = b, canonicalChain' = c, forkTick' \in 0 .. 14
      PROVE  ForkInv'
  <2>1. rule' \in Fork!Rules
    BY <1>1 DEF ForkInv
  <2>2. Rooted(tree)' /\ BallotsCount(ballots)' /\ Headed(tree, canonicalChain)'
    BY <1>1, <2>1 DEF Rooted, Tree, Blocks, BallotsCount, Headed, First, Unforked, Path
  <2>3. QED
    BY <1>1, <2>1, <2>2 DEF ForkInv, Fork!Rules
<1>2. CASE UNCHANGED Fork!vars
  BY <1>1, <1>2 DEF Fork!vars, ForkInv
<1>3. CASE Fork!Tick
  <2>1. PICK p \in IF forkTick' % 3 = 0 THEN {canonicalChain.head} \cup tree.tips ELSE {0} :
            LET t == IF p = 0 THEN tree ELSE Fork!Create(p)
                b == IF forkTick' % 5 = 0 THEN Fork!CastVotes(t) ELSE ballots
            IN  /\ Len(t.parent) <= MaxTree
                /\ tree' = t /\ ballots' = b
                /\ canonicalChain' = IF forkTick' % 5 = 0 THEN Fork!Canonical(t, b.votes)
                                     ELSE canonicalChain
    BY <1>3 DEF Fork!Tick, Fork!None
  <2>2. UNCHANGED rule /\ forkTick' \in 0 .. 14
    BY <1>3 DEF Fork!Tick, ForkInv
  <2>3. PICK t : t = IF p = 0 THEN tree ELSE Fork!Create(p)
    OBVIOUS
  <2>4. PICK b : b = IF forkTick' % 5 = 0 THEN Fork!CastVotes(t) ELSE ballots
    OBVIOUS
  <2>5. PICK c : c = IF forkTick' % 5 = 0 THEN Fork!Canonical(t, b.votes) ELSE canonicalChain
    OBVIOUS
  <2>6. Len(t.parent) <= MaxTree /\ tree' = t /\ ballots' = b /\ canonicalChain' = c
    BY <2>1, <2>3, <2>4, <2>5
  <2>7. p # 0 => p \in Blocks(tree)
    BY <2>1 DEF ForkInv, Rooted, Headed
  <2>8. Rooted(t) /\ Headed(t, canonicalChain)
    <3>1. CASE p = 0
      BY <2>3, <3>1 DEF ForkInv
    <3>2. CASE p # 0
      <4>1. t = Fork!Create(p) /\ p \in Blocks(tree) /\ Rooted(tree) /\ Headed(tree, canonicalChain)
        BY <2>3, <2>7, <3>2 DEF ForkInv
      <4>2. QED
        BY ONLY <4>1, CreateKeeps
    <3>3. QED
      BY <3>1, <3>2
  <2>9. BallotsCount(b)
    BY <2>4, <2>6, <2>8, CastVotesKeeps DEF ForkInv
  <2>10. Headed(t, c)
    <3>1. CASE forkTick' % 5 = 0
      BY <1>0, <2>5, <2>6, <2>8, <2>9, <3>1, CanonicalKeeps DEF ForkInv
    <3>2. CASE forkTick' % 5 # 0
      BY <2>5, <2>8, <3>2
    <3>3. QED
      BY <3>1, <3>2
  <2>11. QED
    BY <1>1, <2>2, <2>6, <2>8, <2>9, <2>10
<1>4. ASSUME NEW p \in DOMAIN tree.parent, Fork!CreateFork(p) PROVE ForkInv'
  <2>1. /\ Len(tree.parent) < MaxTree /\ tree' = Fork!Create(p)
        /\ UNCHANGED <<rule, forkTick, ballots, canonicalChain>>
    BY <1>4 DEF Fork!CreateFork
  <2>2. PICK t : t = Fork!Create(p)
    OBVIOUS
  <2>3. p \in Blocks(tree) /\ Rooted(tree) /\ Headed(tree, canonicalChain)
    BY <1>0, <1>4 DEF ForkInv
  <2>4. Rooted(t) /\ Headed(t, canonicalChain) /\ Len(t.parent) = Len(tree.parent) + 1
    BY ONLY <2>2, <2>3, CreateKeeps
  <2>5. Len(t.parent) <= MaxTree
    BY <1>0, <2>1, <2>3, <2>4, TreeBlocks DEF Rooted
  <2>6. QED
    BY <1>1, <2>1, <2>2, <2>4, <2>5 DEF ForkInv
<1>5. CASE Fork!Recompute
  <2>1. /\ canonicalChain' = Fork!Canonical(tree, ballots.votes)
        /\ UNCHANGED <<rule, forkTick, tree, ballots>>
    BY <1>5 DEF Fork!Recompute
  <2>2. PICK c : c = Fork!Canonical(tree, ballots.votes)
    OBVIOUS
  <2>3. Headed(tree, c)
    BY <1>0, <2>2, CanonicalKeeps DEF ForkInv
  <2>4. QED
    BY <1>1, <2>1, <2>2, <2>3 DEF ForkInv
<1>6. QED
  BY <1>2, <1>3, <1>4, <1>5 DEF Fork!Next

(* The type invariant of the fork-choice simulator, and that its head, its *)
(* tips and its counters follow the rule and the tree (fork_choice.go).    *)
LEMMA HeadFollows ==
    ASSUME Fork!ForkChoiceAssumption
    PROVE  Fork!Spec => [](Fork!TypeOK /\ Fork!HeadFollowsRule)
<1>1. ForkInv => Fork!TypeOK /\ Fork!HeadFollowsRule
  <2> SUFFICES ASSUME ForkInv PROVE Fork!TypeOK /\ Fork!HeadFollowsRule
    OBVIOUS
  <2>1. Rooted(tree) /\ Tree(tree) /\ BallotsCount(ballots) /\ Headed(tree, canonicalChain)
    BY DEF ForkInv, Rooted
  <2>2. /\ Blocks(tree) = DOMAIN tree.parent /\ Len(tree.parent) \in 1 .. MaxTree
        /\ ForkNodes \in Nat /\ MaxTree \in Nat
    BY <2>1, TreeBlocks DEF ForkInv, Fork!ForkChoiceAssumption
  <2>3. \A b \in DOMAIN tree.parent : tree.parent[b] \in 0 .. b - 1
    <3> TAKE b \in DOMAIN tree.parent
    <3>1. CASE b = 1
      BY <2>1, <3>1 DEF Tree
    <3>2. CASE b # 1
      BY <2>1, <2>2, <3>2, TreeBlocks
    <3>3. QED
      BY <3>1, <3>2
  <2>4. tree.tips \subseteq DOMAIN tree.parent /\ tree.forkCount \in 0 .. MaxTree
    BY <2>1, <2>2 DEF Rooted
  <2>5. \A b \in 1 .. MaxTree :
            ballots.votes[b] = Fork!Cardinality({n \in Fork!Nodes : ballots.votedFor[n] = b})
    BY <2>1, ForkCounts DEF BallotsCount
  <2>6. \A b \in 1 .. MaxTree : ballots.votes[b] \in 0 .. ForkNodes
    <3> TAKE b \in 1 .. MaxTree
    <3>1. IsFiniteSet(Fork!Nodes) /\ Cardinality(Fork!Nodes) = ForkNodes
      <4>1. Cardinality(1 .. ForkNodes) = ForkNodes
        <5>1. Cardinality(1 .. ForkNodes) = IF 1 > ForkNodes THEN 0 ELSE ForkNodes - 1 + 1
          BY <2>2, FS_Interval
        <5>2. QED
          BY <2>2, <5>1
      <4>2. QED
        BY <2>2, <4>1, UpToFinite DEF Fork!Nodes
    <3>2. Cardinality({n \in Fork!Nodes : ballots.votedFor[n] = b}) <= Cardinality(Fork!Nodes)
      BY <3>1, FS_Subset
    <3>3. ballots.votes[b] <= ForkNodes /\ ballots.votes[b] \in Nat
      BY <2>1, <3>1, <3>2 DEF BallotsCount
    <3>4. QED
      BY <2>2, <3>3
  <2>7. ballots.votes \in [1 .. MaxTree -> 0 .. ForkNodes]
    BY <2>1, <2>6 DEF BallotsCount
  <2>8. canonicalChain.canonical \subseteq DOMAIN tree.parent
    BY <2>1, <2>2, PathsNested DEF Headed
  <2>9. Fork!TypeOK
    BY <2>1, <2>2, <2>3, <2>4, <2>7, <2>8 DEF ForkInv, Headed, BallotsCount, Fork!TypeOK
  <2>10. canonicalChain.reorgCount > 0 => tree.forkCount > 0
    BY <2>1 DEF Headed, Unforked, Rooted
  <2>11. tree.tips = {b \in DOMAIN tree.parent : Fork!Children(tree, b) = {}}
    BY <2>1, <2>2 DEF Rooted
  <2>12. QED
    BY <2>1, <2>5, <2>9, <2>10, <2>11 DEF Headed, First, Path, Fork!HeadFollowsRule, Fork!Genesis
<1>2. QED
  BY <1>1, ForkInit, ForkNext, PTL DEF Fork!Spec

-----------------------------------------------------------------------------
(* What the votes decide in the stake-based simulators, each run for       *)
(* itself, for every number of validators, delegates, voters and rounds:   *)
(* no lock stands against a proposal (tendermint.go), final blocks keep    *)
(* their two thirds (pos.go), votes and turns add up (dpos.go).            *)
THEOREM StakeVotesDecide ==
    Tendermint!Spec /\ Pos!Spec /\ Dpos!Spec => []VotesDecide
<1>1. Tendermint!TendermintAssumption /\ Pos!PosAssumption /\ Dpos!DposAssumption
  BY SimulatorsAssumption
<1>2. Tendermint!LocksAgreeWithProposals /\ Pos!FinalityIsBacked /\ Dpos!VotesAndTurnsAddUp
      => VotesDecide
  BY DEF VotesDecide
<1>3. QED
  BY <1>1, <1>2, TendermintTypeCorrect, PosFinalityBacked, DposAddsUp, PTL

(* What the blocks form, in fork choice, in the DAG and in the             *)
(* synchronisation of chains, for any numbers of nodes and blocks: the     *)
(* head follows the rule (fork_choice.go), the graph stays a chain         *)
(* (dag.go), nobody leads (chain_sync.go).                                 *)
THEOREM BlocksFollowRules ==
    Fork!Spec /\ Dag!Spec /\ Sync!Spec => []StructuresFollowRules
<1>1. Fork!ForkChoiceAssumption /\ Dag!DagAssumption /\ Sync!ChainSyncAssumption
  BY SimulatorsAssumption
<1>2. Fork!HeadFollowsRule /\ Dag!OneTip /\ Sync!NobodyLeads => StructuresFollowRules
  BY DEF StructuresFollowRules
<1>3. QED
  BY <1>1, <1>2, HeadFollows, DagStaysChain, SyncNobodyLeads, PTL

-----------------------------------------------------------------------------
(* HotStuffSim: which votes are still to come for the pending block.       *)

\* The votes of a phase besides its leader's; those that a proposal brings.
Needed == (ReplicaCount * 2) \div 3
Turns == ReplicaCount - 1

\* Replica n casts vote number x for a block that replica c proposed.
Casts(c, x, n) == \E r \in Nat, i \in 1 .. Turns : x = r * Turns + i /\ n = Voters(c)[i]

\* What waits: old votes for older blocks, then the proposals left of the
\* block b of replica c, then more votes, those after number done.
Waiting(q, b, c, old, left, done, more) ==
    /\ Len(q) = old + left + more
    /\ \A k \in 1 .. old : q[k].type = "vote" /\ q[k].block # b
    /\ \A k \in old + 1 .. old + left :
           q[k].type = "propose" /\ q[k].block = b /\ q[k].from = c
    /\ \A k \in old + left + 1 .. old + left + more :
           /\ q[k].type = "vote" /\ q[k].block = b
           /\ Casts(c, done + (k - (old + left)), q[k].from)
    /\ old > 0 => left = Turns
    /\ left > 0 => done = 0
    /\ done + more = (Turns - left) * Turns

\* The votes vs are the leader's and the last ones cast.
InTurn(vs, c, done) ==
    /\ vs[1] = c
    /\ \A j \in 2 .. Len(vs) : Casts(c, done - Len(vs) + j, vs[j])

(* The sizes that count.                                                   *)
LEMMA Sizes ==
    ASSUME HotStuffAssumption
    PROVE  /\ Turns \in Nat /\ Turns >= 3 /\ ReplicaCount \in Nat /\ ReplicaCount = Turns + 1
           /\ Needed \in Nat /\ Needed >= 1 /\ Needed <= Turns
           /\ Threshold = Needed + 1
           /\ 4 * Needed <= Turns * Turns
<1>1. /\ Turns \in Nat /\ Turns >= 3 /\ ReplicaCount \in Nat /\ ReplicaCount = Turns + 1
      /\ Needed \in Nat /\ Needed >= 1 /\ Needed <= Turns
      /\ Threshold = Needed + 1
      /\ ReplicaCount = 4 => Needed = 2
  BY DEF HotStuffAssumption, Turns, Needed, Threshold
<1>2. CASE ReplicaCount = 4
  <2>1. Turns = 3 /\ Needed = 2
    BY <1>1, <1>2
  <2> QED
    BY <1>1, <2>1
<1>3. CASE ReplicaCount # 4
  <2>1. Turns >= 4
    BY <1>1, <1>3
  <2>2. 4 * Turns <= Turns * Turns
    BY <1>1, <2>1
  <2> QED
    BY <1>1, <2>2
<1> QED
  BY <1>2, <1>3

(* Everybody but the proposer, each of them once.                          *)
LEMMA VotersParts ==
    ASSUME HotStuffAssumption, NEW c \in Replicas
    PROVE  /\ DOMAIN Voters(c) = 1 .. Turns
           /\ \A i \in 1 .. Turns : Voters(c)[i] \in Replicas /\ Voters(c)[i] # c
           /\ \A i, j \in 1 .. Turns : Voters(c)[i] = Voters(c)[j] => i = j
<1>1. Turns \in Nat /\ ReplicaCount = Turns + 1
  BY Sizes
<1>2. /\ DOMAIN Voters(c) = 1 .. Turns
      /\ \A i \in 1 .. Turns : Voters(c)[i] = IF i < c THEN i ELSE i + 1
  BY DEF Voters, Turns
<1> QED
  BY <1>1, <1>2 DEF Replicas

(* The proposer does not vote for its own proposal.                        *)
LEMMA CastsParts ==
    ASSUME HotStuffAssumption, NEW c \in Replicas, NEW x, NEW n, Casts(c, x, n)
    PROVE  n \in Replicas /\ n # c
  BY VotersParts DEF Casts

(* Fewer votes in a row than there are voters come from different ones.    *)
LEMMA CastsDiffer ==
    ASSUME HotStuffAssumption, NEW c \in Replicas, NEW x \in Int, NEW y \in Int,
           x < y, y < x + Turns, NEW m, NEW n, Casts(c, x, m), Casts(c, y, n)
    PROVE  m # n
<1> SUFFICES ASSUME m = n PROVE FALSE
  OBVIOUS
<1>1. PICK r \in Nat, i \in 1 .. Turns : x = r * Turns + i /\ m = Voters(c)[i]
  BY DEF Casts
<1>2. PICK s \in Nat, j \in 1 .. Turns : y = s * Turns + j /\ n = Voters(c)[j]
  BY DEF Casts
<1>3. i = j
  BY <1>1, <1>2, VotersParts
<1>4. Turns \in Nat /\ Turns >= 3 /\ i \in Int
  BY Sizes
<1>5. y - x = s * Turns - r * Turns
  BY <1>1, <1>2, <1>3, <1>4
<1>6. CASE s <= r
  <2>1. s * Turns <= r * Turns
    BY <1>4, <1>6
  <2> QED
    BY <1>4, <1>5, <2>1
<1>7. CASE s >= r + 1
  <2>1. s * Turns >= (r + 1) * Turns
    BY <1>4, <1>7
  <2>2. (r + 1) * Turns = r * Turns + Turns
    BY <1>4
  <2> QED
    BY <1>4, <1>5, <2>1, <2>2
<1> QED
  BY <1>6, <1>7

(* The votes of a QC come from different nodes.                            *)
LEMMA QuorumIsReal ==
    ASSUME HotStuffAssumption, NEW c \in Replicas, NEW vs \in Seq(Replicas), NEW done \in Int,
           Len(vs) = Needed + 1, InTurn(vs, c, done)
    PROVE  Cardinality(ToSet(vs)) >= Threshold
<1>1. /\ Needed \in Nat /\ Needed <= Turns /\ Turns \in Nat /\ Threshold = Needed + 1
  BY Sizes
<1>2. /\ DOMAIN vs = 1 .. Needed + 1 /\ \A j \in 1 .. Needed + 1 : vs[j] \in Replicas
      /\ ToSet(vs) = {vs[j] : j \in 1 .. Needed + 1}
  BY <1>1 DEF ToSet
<1>3. \A j \in 2 .. Needed + 1 : vs[j] # vs[1]
  BY CastsParts DEF InTurn
<1>4. ASSUME NEW j \in 2 .. Needed + 1, NEW k \in 2 .. Needed + 1, j < k PROVE vs[j] # vs[k]
  <2> DEFINE x == done - Len(vs) + j
             y == done - Len(vs) + k
  <2>1. Casts(c, x, vs[j]) /\ Casts(c, y, vs[k])
    BY DEF InTurn
  <2>2. x \in Int /\ y \in Int /\ x < y /\ y < x + Turns
    BY <1>1, <1>4
  <2> QED
    BY <2>1, <2>2, CastsDiffer
<1>5. ASSUME NEW j \in 1 .. Needed + 1, NEW k \in 1 .. Needed + 1, vs[j] = vs[k] PROVE j = k
  BY <1>1, <1>3, <1>4, <1>5
<1>6. vs \in Bijection(1 .. Needed + 1, ToSet(vs))
  <2>1. vs \in [1 .. Needed + 1 -> ToSet(vs)]
    BY <1>2
  <2> QED
    BY <1>2, <1>5, <2>1 DEF Bijection, Injection, Surjection, IsInjective
<1>7. IsFiniteSet(1 .. Needed + 1) /\ Cardinality(1 .. Needed + 1) = Needed + 1
  BY <1>1, UpToFinite
<1>8. Cardinality(ToSet(vs)) = Needed + 1
  BY <1>6, <1>7, FS_Bijection DEF ExistsBijection
<1> QED
  BY <1>1, <1>8

Messages(n) == [type : {"propose", "vote"}, block : 1 .. n, from : Replicas]

(* A sequence of messages behind a queue.                                  *)
LEMMA Behind ==
    ASSUME NEW S, NEW q \in Seq(S), NEW m \in Nat, NEW f \in [1 .. m -> S]
    PROVE  /\ q \o f \in Seq(S) /\ Len(q \o f) = Len(q) + m
           /\ \A k \in 1 .. Len(q) : (q \o f)[k] = q[k]
           /\ \A i \in 1 .. m : (q \o f)[Len(q) + i] = f[i]
<1>1. f \in Seq(S) /\ Len(f) = m /\ DOMAIN f = 1 .. m
  OBVIOUS
<1> QED
  BY <1>1

(* Taking the first message.                                               *)
LEMMA TailParts ==
    ASSUME NEW S, NEW q \in Seq(S), q # <<>>
    PROVE  /\ Tail(q) \in Seq(S) /\ Head(q) = q[1] /\ Head(q) \in S
           /\ Len(q) \in Nat \ {0} /\ Len(Tail(q)) = Len(q) - 1
           /\ \A k \in 1 .. Len(q) - 1 : Tail(q)[k] = q[k + 1]
  OBVIOUS

(* A vote for an older block is passed over.                               *)
LEMMA OldVote ==
    ASSUME HotStuffAssumption, NEW S, NEW q \in Seq(S), q # <<>>, NEW b, NEW c,
           NEW old \in Nat, NEW left \in Nat, NEW done \in Nat, NEW more \in Nat,
           Waiting(q, b, c, old, left, done, more), old > 0
    PROVE  /\ Head(q).type = "vote" /\ Head(q).block # b
           /\ Waiting(Tail(q), b, c, old - 1, left, done, more)
<1>1. /\ Head(q) = q[1] /\ Len(Tail(q)) = Len(q) - 1
      /\ \A k \in 1 .. Len(q) - 1 : Tail(q)[k] = q[k + 1]
  BY TailParts
<1>2. Len(q) = old + left + more /\ Len(Tail(q)) = (old - 1) + left + more
  BY <1>1 DEF Waiting
<1>6. ASSUME NEW k \in 1 .. old - 1
      PROVE  Tail(q)[k].type = "vote" /\ Tail(q)[k].block # b
  <2>1. Tail(q)[k] = q[k + 1] /\ k + 1 \in 1 .. old
    BY <1>1, <1>2
  <2> QED
    BY <2>1 DEF Waiting
<1>7. ASSUME NEW k \in (old - 1) + 1 .. (old - 1) + left
      PROVE  Tail(q)[k].type = "propose" /\ Tail(q)[k].block = b /\ Tail(q)[k].from = c
  <2>1. Tail(q)[k] = q[k + 1] /\ k + 1 \in old + 1 .. old + left
    BY <1>1, <1>2
  <2> QED
    BY <2>1 DEF Waiting
<1>3. ASSUME NEW k \in (old - 1) + left + 1 .. (old - 1) + left + more
      PROVE  /\ Tail(q)[k].type = "vote" /\ Tail(q)[k].block = b
             /\ Casts(c, done + (k - ((old - 1) + left)), Tail(q)[k].from)
  <2>1. /\ k + 1 \in old + left + 1 .. old + left + more /\ Tail(q)[k] = q[k + 1]
        /\ done + ((k + 1) - (old + left)) = done + (k - ((old - 1) + left))
    BY <1>1, <1>2
  <2>2. /\ q[k + 1].type = "vote" /\ q[k + 1].block = b
        /\ Casts(c, done + ((k + 1) - (old + left)), q[k + 1].from)
    BY <2>1 DEF Waiting
  <2> QED
    BY <2>1, <2>2
<1>4. Head(q).type = "vote" /\ Head(q).block # b
  <2>1. 1 \in 1 .. old
    OBVIOUS
  <2> QED
    BY <1>1, <2>1 DEF Waiting
<1>5. /\ old - 1 > 0 => left = Turns
      /\ left > 0 => done = 0
      /\ done + more = (Turns - left) * Turns
  BY DEF Waiting
<1> QED
  BY <1>2, <1>3, <1>4, <1>5, <1>6, <1>7 DEF Waiting

(* No vote comes before the last proposal.                                 *)
LEMMA ProposalsFirst ==
    ASSUME HotStuffAssumption, NEW S, NEW q \in Seq(S), q # <<>>, NEW b, NEW c,
           NEW left \in Nat, NEW done \in Nat, NEW more \in Nat,
           Waiting(q, b, c, 0, left, done, more), left > 0
    PROVE  Head(q).type = "propose"
<1>1. Head(q) = q[1] /\ 1 \in 0 + 1 .. 0 + left
  BY TailParts
<1> QED
  BY <1>1 DEF Waiting

(* The votes that one proposal brings, by their places in the queue.       *)
LEMMA VotesBehind ==
    ASSUME HotStuffAssumption, NEW c, NEW left \in Nat, left <= Turns,
           NEW more \in Nat, more = (Turns - left) * Turns,
           NEW k \in Int, NEW l \in Int, l = (left - 1) + more, l < k, k <= l + Turns
    PROVE  k - l \in 1 .. Turns /\ Casts(c, k - left + 1, Voters(c)[k - l])
<1>1. Turns \in Nat
  BY Sizes
<1>2. k - l \in 1 .. Turns /\ Turns - left \in Nat
  BY <1>1
<1>3. k - left + 1 = more + (k - l)
  OBVIOUS
<1>4. k - left + 1 = (Turns - left) * Turns + (k - l)
  BY <1>3
<1> QED
  BY <1>2, <1>4 DEF Casts

(* A proposal brings a vote of everybody else.                             *)
LEMMA NextProposal ==
    ASSUME HotStuffAssumption, NEW n \in Nat, NEW q \in Seq(Messages(n)), q # <<>>,
           NEW b \in 1 .. n, NEW c \in Replicas,
           NEW left \in Nat, NEW done \in Nat, NEW more \in Nat,
           Waiting(q, b, c, 0, left, done, more), left > 0,
           NEW new, new = [i \in DOMAIN Voters(c) |->
                              [type |-> "vote", block |-> b, from |-> Voters(c)[i]]]
    PROVE  /\ Head(q).type = "propose" /\ Head(q).block = b /\ Head(q).from = c
           /\ Tail(q) \o new \in Seq(Messages(n))
           /\ left <= Turns => Waiting(Tail(q) \o new, b, c, 0, left - 1, 0, more + Turns)
<1> DEFINE r == Tail(q) \o new
<1>1. /\ Head(q) = q[1] /\ Len(Tail(q)) = Len(q) - 1 /\ Tail(q) \in Seq(Messages(n))
      /\ \A k \in 1 .. Len(q) - 1 : Tail(q)[k] = q[k + 1]
  BY TailParts
<1>2. Turns \in Nat
  BY Sizes
<1>3. /\ new \in [1 .. Turns -> Messages(n)]
      /\ \A i \in 1 .. Turns : new[i].type = "vote" /\ new[i].block = b
                               /\ new[i].from = Voters(c)[i]
  BY VotersParts DEF Messages
<1>4. /\ r \in Seq(Messages(n)) /\ Len(r) = Len(Tail(q)) + Turns
      /\ \A k \in 1 .. Len(Tail(q)) : r[k] = Tail(q)[k]
      /\ \A i \in 1 .. Turns : r[Len(Tail(q)) + i] = new[i]
  <2> DEFINE S == Messages(n)
             t == Tail(q)
  <2>1. t \in Seq(S) /\ new \in [1 .. Turns -> S]
    BY <1>1, <1>3
  <2> HIDE DEF S, t
  <2>2. /\ t \o new \in Seq(S) /\ Len(t \o new) = Len(t) + Turns
        /\ \A k \in 1 .. Len(t) : (t \o new)[k] = t[k]
        /\ \A i \in 1 .. Turns : (t \o new)[Len(t) + i] = new[i]
    BY <1>2, <2>1, Behind
  <2> QED
    BY <2>2 DEF S, t
<1> HIDE DEF r
<1>5. /\ Len(q) = left + more /\ done = 0 /\ more = (Turns - left) * Turns
      /\ \A k \in 1 .. left : q[k].type = "propose" /\ q[k].block = b /\ q[k].from = c
      /\ \A k \in left + 1 .. left + more :
             q[k].type = "vote" /\ q[k].block = b /\ Casts(c, k - left, q[k].from)
  <2>1. /\ Len(q) = 0 + left + more /\ done = 0 /\ done + more = (Turns - left) * Turns
        /\ \A k \in 0 + 1 .. 0 + left : q[k].type = "propose" /\ q[k].block = b /\ q[k].from = c
        /\ \A k \in 0 + left + 1 .. 0 + left + more :
               q[k].type = "vote" /\ q[k].block = b
               /\ Casts(c, done + (k - (0 + left)), q[k].from)
    BY DEF Waiting
  <2>2. ASSUME NEW k \in left + 1 .. left + more PROVE done + (k - (0 + left)) = k - left
    BY <2>1
  <2> QED
    BY <2>1, <2>2
<1>6. Head(q).type = "propose" /\ Head(q).block = b /\ Head(q).from = c
  BY <1>1, <1>5
<1> SUFFICES ASSUME left <= Turns PROVE Waiting(r, b, c, 0, left - 1, 0, more + Turns)
  BY <1>4, <1>6 DEF r
<1>7. Len(r) = 0 + (left - 1) + (more + Turns) /\ Len(Tail(q)) = (left - 1) + more
  BY <1>1, <1>2, <1>4, <1>5
<1>8. ASSUME NEW k \in 0 + 1 .. 0 + (left - 1)
      PROVE  r[k].type = "propose" /\ r[k].block = b /\ r[k].from = c
  <2>1. k \in 1 .. Len(Tail(q)) /\ r[k] = q[k + 1] /\ k + 1 \in 1 .. left
    BY <1>1, <1>4, <1>5, <1>7, SMTT(40)
  <2> QED
    BY <2>1, <1>5
<1>9. ASSUME NEW k \in 0 + (left - 1) + 1 .. 0 + (left - 1) + (more + Turns)
      PROVE  /\ r[k].type = "vote" /\ r[k].block = b
             /\ Casts(c, 0 + (k - (0 + (left - 1))), r[k].from)
  <2> DEFINE x == 0 + (k - (0 + (left - 1)))
  <2>1. x \in Int /\ x = k - left + 1 /\ k \in Int
    OBVIOUS
  <2>2. CASE k <= Len(Tail(q))
    <3>1. r[k] = q[k + 1] /\ k + 1 \in left + 1 .. left + more /\ (k + 1) - left = x
      BY <1>1, <1>4, <1>5, <1>7, <2>2, SMTT(40)
    <3> QED
      BY <3>1, <1>5
  <2>3. CASE k > Len(Tail(q))
    <3> DEFINE l == Len(Tail(q))
    <3>1. /\ l \in Int /\ l = (left - 1) + more /\ l < k /\ k <= l + Turns
          /\ more = (Turns - left) * Turns
      BY <1>2, <1>5, <1>7, <2>3
    <3> HIDE DEF l
    <3>2. k - l \in 1 .. Turns /\ Casts(c, k - left + 1, Voters(c)[k - l])
      BY <2>1, <3>1, VotesBehind
    <3>3. k = l + (k - l)
      BY <2>1, <3>1
    <3>4. r[k] = new[k - l]
      BY <1>4, <3>2, <3>3 DEF l
    <3> QED
      BY <1>3, <2>1, <3>2, <3>4
  <2> QED
    BY <1>7, <2>2, <2>3
<1>10. 0 + (more + Turns) = (Turns - (left - 1)) * Turns
  <2>1. (Turns - (left - 1)) * Turns = (Turns - left) * Turns + Turns
    BY <1>2
  <2> QED
    BY <1>2, <1>5, <2>1
<1>11. /\ \A k \in 1 .. 0 : FALSE
       /\ ~(0 > 0)
  OBVIOUS
<1> QED
  BY <1>5, <1>7, <1>8, <1>11, <1>9, <1>10 DEF Waiting

(* The next vote for the pending block.                                    *)
LEMMA NextVote ==
    ASSUME HotStuffAssumption, NEW S, NEW q \in Seq(S), q # <<>>, NEW b, NEW c,
           NEW done \in Nat, NEW more \in Nat, Waiting(q, b, c, 0, 0, done, more)
    PROVE  /\ Head(q).type = "vote" /\ Head(q).block = b /\ Casts(c, done + 1, Head(q).from)
           /\ more > 0 /\ Waiting(Tail(q), b, c, 0, 0, done + 1, more - 1)
           /\ \A k \in 1 .. Len(Tail(q)) : Tail(q)[k].type = "vote"
<1>1. /\ Head(q) = q[1] /\ Len(Tail(q)) = Len(q) - 1 /\ Len(q) \in Nat \ {0}
      /\ \A k \in 1 .. Len(q) - 1 : Tail(q)[k] = q[k + 1]
  BY TailParts
<1>2. /\ Len(q) = 0 + 0 + more /\ done + more = (Turns - 0) * Turns
      /\ \A k \in 0 + 0 + 1 .. 0 + 0 + more :
             /\ q[k].type = "vote" /\ q[k].block = b
             /\ Casts(c, done + (k - (0 + 0)), q[k].from)
  BY DEF Waiting
<1>3. Len(q) = more /\ more > 0
  BY <1>1, <1>2
<1>4. ASSUME NEW k \in 1 .. more
      PROVE  q[k].type = "vote" /\ q[k].block = b /\ Casts(c, done + k, q[k].from)
  <2>1. k \in 0 + 0 + 1 .. 0 + 0 + more /\ done + (k - (0 + 0)) = done + k
    OBVIOUS
  <2> QED
    BY <2>1, <1>2
<1>5. 1 \in 1 .. more
  BY <1>3
<1>6. Head(q).type = "vote" /\ Head(q).block = b /\ Casts(c, done + 1, Head(q).from)
  BY <1>1, <1>4, <1>5
<1>7. ASSUME NEW k \in 1 .. more - 1
      PROVE  /\ Tail(q)[k].type = "vote" /\ Tail(q)[k].block = b
             /\ Casts(c, (done + 1) + (k - (0 + 0)), Tail(q)[k].from)
  <2>1. Tail(q)[k] = q[k + 1] /\ k + 1 \in 1 .. more
        /\ (done + 1) + (k - (0 + 0)) = done + (k + 1)
    BY <1>1, <1>3
  <2> QED
    BY <2>1, <1>4
<1>8. Waiting(Tail(q), b, c, 0, 0, done + 1, more - 1)
  <2>1. (done + 1) + (more - 1) = (Turns - 0) * Turns /\ Len(Tail(q)) = 0 + 0 + (more - 1)
    BY <1>1, <1>2, <1>3
  <2>2. \A k \in 0 + 0 + 1 .. 0 + 0 + (more - 1) : k \in 1 .. more - 1
    OBVIOUS
  <2>3. \A k \in 1 .. 0 : FALSE
    OBVIOUS
  <2>4. \A k \in 0 + 1 .. 0 + 0 : FALSE
    OBVIOUS
  <2> QED
    BY <2>1, <2>2, <2>3, <2>4, <1>7 DEF Waiting
<1> QED
  BY <1>1, <1>3, <1>6, <1>7, <1>8

(* A proposal behind votes for older blocks.                               *)
LEMMA FreshProposal ==
    ASSUME HotStuffAssumption, NEW n \in Nat, NEW q \in Seq(Messages(n)), NEW c \in Replicas,
           \A k \in 1 .. Len(q) : q[k].type = "vote",
           NEW new, new = [i \in 1 .. ReplicaCount - 1 |->
                              [type |-> "propose", block |-> n + 1, from |-> c]]
    PROVE  /\ q \o new \in Seq(Messages(n + 1))
           /\ Waiting(q \o new, n + 1, c, Len(q), Turns, 0, 0)
<1> DEFINE r == q \o new
           S == Messages(n + 1)
<1>1. Turns \in Nat
  BY Sizes
<1>2. /\ q \in Seq(S) /\ \A k \in 1 .. Len(q) : q[k].block \in 1 .. n
  <2>1. \A m \in Messages(n) : m \in S /\ m.block \in 1 .. n
    BY DEF Messages
  <2>2. \A k \in 1 .. Len(q) : q[k] \in Messages(n)
    OBVIOUS
  <2> HIDE DEF S
  <2>3. q \in Seq(S)
    BY <2>1, <2>2
  <2> QED
    BY <2>1, <2>2, <2>3
<1>3. /\ new \in [1 .. Turns -> S]
      /\ \A i \in 1 .. Turns : new[i].type = "propose" /\ new[i].block = n + 1
                               /\ new[i].from = c
  BY DEF Messages, Turns
<1>4. /\ r \in Seq(S) /\ Len(r) = Len(q) + Turns
      /\ \A k \in 1 .. Len(q) : r[k] = q[k]
      /\ \A i \in 1 .. Turns : r[Len(q) + i] = new[i]
  <2> DEFINE g == new
  <2>1. q \in Seq(S) /\ g \in [1 .. Turns -> S]
    BY <1>2, <1>3
  <2> HIDE DEF S, g
  <2>2. /\ q \o g \in Seq(S) /\ Len(q \o g) = Len(q) + Turns
        /\ \A k \in 1 .. Len(q) : (q \o g)[k] = q[k]
        /\ \A i \in 1 .. Turns : (q \o g)[Len(q) + i] = g[i]
    BY <1>1, <2>1, Behind
  <2> QED
    BY <2>2 DEF g
<1> HIDE DEF S, r
<1>5. Len(q) \in Nat /\ n + 1 \notin 1 .. n
  OBVIOUS
<1>6. ASSUME NEW k \in Len(q) + 1 .. Len(q) + Turns
      PROVE  r[k].type = "propose" /\ r[k].block = n + 1 /\ r[k].from = c
  <2>1. PICK i \in 1 .. Turns : k = Len(q) + i
    <3>1. k - Len(q) \in 1 .. Turns /\ k = Len(q) + (k - Len(q))
      BY <1>1, <1>5
    <3> QED
      BY <3>1
  <2>2. r[k] = new[i]
    BY <2>1, <1>4
  <2> QED
    BY <2>2, <1>3
<1>7. Waiting(r, n + 1, c, Len(q), Turns, 0, 0)
  <2>1. /\ Len(r) = Len(q) + Turns + 0 /\ 0 + 0 = (Turns - Turns) * Turns
        /\ \A k \in Len(q) + Turns + 1 .. Len(q) + Turns + 0 : FALSE
    BY <1>1, <1>4, <1>5
  <2>2. \A k \in 1 .. Len(q) : r[k].type = "vote" /\ r[k].block # n + 1
    BY <1>2, <1>4, <1>5
  <2> QED
    BY <2>1, <2>2, <1>6 DEF Waiting
<1> QED
  BY <1>4, <1>7 DEF r, S

(* The votes so far, and one more of them.                                 *)
Cast(vs, ph, done) == Len(vs) \in 1 .. Needed /\ done = (ph - 1) * Needed + (Len(vs) - 1)

LEMMA OneMoreInTurn ==
    ASSUME HotStuffAssumption, NEW c \in Replicas, NEW vs \in Seq(Replicas), NEW done \in Nat,
           vs # <<>>, InTurn(vs, c, done), NEW n \in Replicas, Casts(c, done + 1, n)
    PROVE  InTurn(Append(vs, n), c, done + 1)
<1> DEFINE cast == Append(vs, n)
           l == Len(vs)
<1>1. /\ l \in Nat \ {0} /\ Len(cast) = l + 1 /\ cast[l + 1] = n
      /\ \A j \in 1 .. l : cast[j] = vs[j]
  OBVIOUS
<1> HIDE DEF cast, l
<1>2. ASSUME NEW j \in 2 .. l + 1 PROVE Casts(c, (done + 1) - (l + 1) + j, cast[j])
  <2>1. CASE j = l + 1
    <3>1. (done + 1) - (l + 1) + j = done + 1
      BY <1>1, <2>1
    <3> QED
      BY <1>1, <2>1, <3>1
  <2>2. CASE j # l + 1
    <3>1. j \in 2 .. l /\ (done + 1) - (l + 1) + j = done - l + j /\ cast[j] = vs[j]
      BY <1>1, <2>2
    <3>2. Casts(c, done - l + j, vs[j])
      BY <3>1 DEF InTurn, l
    <3> QED
      BY <3>1, <3>2
  <2> QED
    BY <2>1, <2>2
<1>3. cast[1] = c
  BY <1>1 DEF InTurn
<1> QED
  BY <1>1, <1>2, <1>3 DEF InTurn, cast, l

(* The leader of a view.                                                   *)
LEMMA LeaderIsReplica ==
    ASSUME HotStuffAssumption, NEW v \in Nat \ {0}
    PROVE  Leader(v) \in Replicas
<1>1. ReplicaCount \in Nat \ {0} /\ v - 1 \in Int
  BY DEF HotStuffAssumption
<1>2. (v - 1) % ReplicaCount \in 0 .. ReplicaCount - 1
  BY <1>1
<1> QED
  BY <1>1, <1>2 DEF Leader, Replicas

\* The pending block: what waits, and what has been cast.
Underway(q, b, vs, ph, vw, rot) ==
    \E c \in Replicas, old, left, done, more \in Nat :
        /\ left <= Turns /\ Waiting(q, b, c, old, left, done, more)
        /\ Cast(vs, ph, done)
        /\ ~rot => c = Leader(vw) /\ InTurn(vs, c, done)

HotStuffInv ==
    /\ HotStuffTypeOK
    /\ block = 0 => ~rotated /\ \A k \in 1 .. Len(msgQueue) : msgQueue[k].type = "vote"
    /\ block # 0 =>
        /\ block = proposed /\ height < proposed
        /\ Underway(msgQueue, block, votes, phase, viewNum, rotated)
    /\ \A q \in quorums : Cardinality(ToSet(q)) >= Threshold

(* The actions.                                                            *)
LEMMA ProposeKept ==
    ASSUME HotStuffAssumption, HotStuffInv, Propose
    PROVE  HotStuffInv'
<1> DEFINE c == Leader(viewNum)
           new == [i \in 1 .. ReplicaCount - 1 |->
                      [type |-> "propose", block |-> proposed + 1, from |-> c]]
<1>1. /\ proposed \in Nat /\ msgQueue \in Seq(Messages(proposed)) /\ viewNum \in Nat \ {0}
      /\ height \in 0 .. proposed /\ quorums \subseteq Seq(Replicas) /\ rotated \in BOOLEAN
      /\ block = 0 /\ MaxBlocks \in Nat /\ proposed < MaxBlocks
      /\ rotations \in 0 .. MaxRotations
  BY DEF HotStuffInv, HotStuffTypeOK, Messages, Propose, HotStuffAssumption
<1>2. c \in Replicas /\ \A k \in 1 .. Len(msgQueue) : msgQueue[k].type = "vote"
  BY <1>1, LeaderIsReplica DEF HotStuffInv
<1>3. /\ msgQueue \o new \in Seq(Messages(proposed + 1))
      /\ Waiting(msgQueue \o new, proposed + 1, c, Len(msgQueue), Turns, 0, 0)
  <2> HIDE DEF c
  <2> QED
    BY <1>1, <1>2, FreshProposal
<1>4. /\ block' = proposed + 1 /\ proposed' = proposed + 1 /\ phase' = 1 /\ votes' = <<c>>
      /\ msgQueue' = msgQueue \o new
      /\ viewNum' = viewNum /\ height' = height /\ rotations' = rotations
      /\ rotated' = rotated /\ quorums' = quorums
  BY DEF Propose
<1> HIDE DEF new
<1>5. Underway(msgQueue', block', votes', phase', viewNum', rotated')
  <2>1. Turns \in Nat /\ Needed \in Nat /\ Needed >= 1
    BY Sizes
  <2> HIDE DEF c
  <2>2. Cast(<<c>>, 1, 0) /\ InTurn(<<c>>, c, 0)
    <3>1. Len(<<c>>) = 1 /\ <<c>>[1] = c /\ \A j \in 2 .. 1 : FALSE
      OBVIOUS
    <3>2. 0 = (1 - 1) * Needed + (1 - 1) /\ 1 \in 1 .. Needed
      BY <2>1
    <3> QED
      BY <3>1, <3>2 DEF Cast, InTurn
  <2>3. Len(msgQueue) \in Nat
    BY <1>1
  <2>4. c = Leader(viewNum')
    BY <1>4 DEF c
  <2> QED
    BY <1>2, <1>3, <1>4, <2>1, <2>2, <2>3, <2>4 DEF Underway
<1>6. HotStuffTypeOK'
  <2>1. votes' \in Seq(Replicas)
    BY <1>2, <1>4
  <2>2. phase' \in DOMAIN Phases
    BY <1>4 DEF Phases
  <2>3. msgQueue' \in Seq([type : {"propose", "vote"}, block : 1 .. proposed', from : Replicas])
    BY <1>3, <1>4 DEF Messages
  <2> HIDE DEF c
  <2> QED
    BY <1>1, <1>4, <2>1, <2>2, <2>3 DEF HotStuffTypeOK
<1> QED
  BY <1>1, <1>4, <1>5, <1>6 DEF HotStuffInv

LEMMA HandleProposeKept ==
    ASSUME HotStuffAssumption, HotStuffInv, HandlePropose
    PROVE  HotStuffInv'
<1> DEFINE m == Head(msgQueue)
           New(c) == [i \in DOMAIN Voters(c) |->
                          [type |-> "vote", block |-> block, from |-> Voters(c)[i]]]
<1>1. /\ proposed \in Nat /\ msgQueue \in Seq(Messages(proposed)) /\ msgQueue # <<>>
      /\ m.type = "propose" /\ block \in 0 .. proposed
  BY DEF HotStuffInv, HotStuffTypeOK, Messages, HandlePropose
<1>2. m = msgQueue[1] /\ 1 \in 1 .. Len(msgQueue) /\ Turns \in Nat
  BY <1>1, Sizes
<1>3. block # 0 /\ block \in 1 .. proposed
  BY <1>1, <1>2 DEF HotStuffInv
<1>4. PICK c \in Replicas, old, left, done, more \in Nat :
        /\ left <= Turns /\ Waiting(msgQueue, block, c, old, left, done, more)
        /\ Cast(votes, phase, done)
        /\ ~rotated => c = Leader(viewNum) /\ InTurn(votes, c, done)
  BY <1>3 DEF HotStuffInv, Underway
<1>5. old = 0
  <2>1. CASE old > 0
    <3>1. m.type = "vote"
      BY <1>1, <1>4, <2>1, OldVote
    <3> QED
      BY <1>1, <3>1
  <2> QED
    BY <2>1
<1>6. left > 0
  <2>1. CASE left = 0
    <3>1. m.type = "vote"
      BY <1>1, <1>4, <1>5, <2>1, NextVote
    <3> QED
      BY <1>1, <3>1
  <2> QED
    BY <2>1
<1>7. /\ m.block = block /\ m.from = c
      /\ Tail(msgQueue) \o New(c) \in Seq(Messages(proposed))
      /\ Waiting(Tail(msgQueue) \o New(c), block, c, 0, left - 1, 0, more + Turns)
  <2> DEFINE new == New(c)
  <2>1. new = [i \in DOMAIN Voters(c) |->
                  [type |-> "vote", block |-> block, from |-> Voters(c)[i]]]
    OBVIOUS
  <2> HIDE DEF new
  <2>2. /\ m.block = block /\ m.from = c /\ Tail(msgQueue) \o new \in Seq(Messages(proposed))
        /\ Waiting(Tail(msgQueue) \o new, block, c, 0, left - 1, 0, more + Turns)
    BY <1>1, <1>3, <1>4, <1>5, <1>6, <2>1, NextProposal
  <2> QED
    BY <2>2 DEF new
<1>8. /\ msgQueue' = Tail(msgQueue) \o New(c)
      /\ viewNum' = viewNum /\ phase' = phase /\ block' = block /\ votes' = votes
      /\ height' = height /\ proposed' = proposed /\ rotations' = rotations
      /\ rotated' = rotated /\ quorums' = quorums
  BY <1>7 DEF HandlePropose, hotStuffObservers
<1>9. done = 0
  BY <1>4, <1>6 DEF Waiting
<1> HIDE DEF New
<1>10. Underway(msgQueue', block', votes', phase', viewNum', rotated')
  <2>1. left - 1 \in Nat /\ left - 1 <= Turns /\ more + Turns \in Nat
    BY <1>2, <1>4, <1>6
  <2> QED
    BY <1>4, <1>7, <1>8, <1>9, <2>1 DEF Underway
<1>11. HotStuffTypeOK'
  BY <1>7, <1>8 DEF HotStuffInv, HotStuffTypeOK, Messages
<1> QED
  BY <1>3, <1>8, <1>10, <1>11 DEF HotStuffInv

(* A vote for no pending block, or for another one.                        *)
LEMMA HandleVoteIdle ==
    ASSUME HotStuffAssumption, HotStuffInv, HandleVote,
           ~(block # 0 /\ Head(msgQueue).block = block)
    PROVE  HotStuffInv'
<1> DEFINE m == Head(msgQueue)
<1>1. /\ proposed \in Nat /\ msgQueue \in Seq(Messages(proposed)) /\ msgQueue # <<>>
      /\ m.type = "vote"
  BY DEF HotStuffInv, HotStuffTypeOK, Messages, HandleVote
<1>2. /\ msgQueue' = Tail(msgQueue)
      /\ viewNum' = viewNum /\ phase' = phase /\ block' = block /\ votes' = votes
      /\ height' = height /\ proposed' = proposed /\ rotations' = rotations
      /\ rotated' = rotated /\ quorums' = quorums
  BY DEF HandleVote, HotStuffInv, HotStuffTypeOK
<1>3. /\ Tail(msgQueue) \in Seq(Messages(proposed)) /\ Len(Tail(msgQueue)) = Len(msgQueue) - 1
      /\ \A k \in 1 .. Len(msgQueue) - 1 : Tail(msgQueue)[k] = msgQueue[k + 1]
      /\ Len(msgQueue) \in Nat \ {0}
  BY <1>1, TailParts
<1>4. HotStuffTypeOK'
  BY <1>2, <1>3 DEF HotStuffInv, HotStuffTypeOK, Messages
<1>5. CASE block = 0
  <2>1. ASSUME NEW k \in 1 .. Len(Tail(msgQueue)) PROVE Tail(msgQueue)[k].type = "vote"
    <3>1. k + 1 \in 1 .. Len(msgQueue) /\ Tail(msgQueue)[k] = msgQueue[k + 1]
      BY <1>3
    <3> QED
      BY <1>5, <3>1 DEF HotStuffInv
  <2> QED
    BY <1>2, <1>4, <1>5, <2>1 DEF HotStuffInv
<1>6. CASE block # 0
  <2>1. PICK c \in Replicas, old, left, done, more \in Nat :
          /\ left <= Turns /\ Waiting(msgQueue, block, c, old, left, done, more)
          /\ Cast(votes, phase, done)
          /\ ~rotated => c = Leader(viewNum) /\ InTurn(votes, c, done)
    BY <1>6 DEF HotStuffInv, Underway
  <2>3. old > 0
    <3>1. CASE old = 0 /\ left > 0
      <4>1. m.type = "propose"
        BY <1>1, <2>1, <3>1, ProposalsFirst
      <4> QED
        BY <1>1, <4>1
    <3>2. CASE old = 0 /\ left = 0
      <4>1. m.block = block
        BY <1>1, <2>1, <3>2, NextVote
      <4> QED
        BY <1>6, <4>1
    <3> QED
      BY <3>1, <3>2
  <2>4. Waiting(Tail(msgQueue), block, c, old - 1, left, done, more) /\ old - 1 \in Nat
    BY <1>1, <2>1, <2>3, OldVote
  <2>5. Underway(msgQueue', block', votes', phase', viewNum', rotated')
    BY <1>2, <2>1, <2>4 DEF Underway
  <2> QED
    BY <1>2, <1>4, <1>6, <2>5 DEF HotStuffInv
<1> QED
  BY <1>5, <1>6

(* A vote that counts: one more, a new phase, or the decision.             *)
LEMMA HandleVoteCounts ==
    ASSUME HotStuffAssumption, HotStuffInv, HandleVote,
           block # 0, Head(msgQueue).block = block
    PROVE  HotStuffInv'
<1> DEFINE m == Head(msgQueue)
           cast == Append(votes, m.from)
<1>1. /\ proposed \in Nat /\ msgQueue \in Seq(Messages(proposed)) /\ msgQueue # <<>>
      /\ m.type = "vote" /\ votes \in Seq(Replicas) /\ phase \in 1 .. 4
      /\ viewNum \in Nat \ {0} /\ rotated \in BOOLEAN /\ quorums \subseteq Seq(Replicas)
      /\ height \in 0 .. proposed /\ height < proposed /\ block = proposed
      /\ proposed \in 0 .. MaxBlocks /\ rotations \in 0 .. MaxRotations
      /\ Len(Phases) = 4 /\ DOMAIN Phases = 1 .. 4
  BY DEF HotStuffInv, HotStuffTypeOK, Messages, HandleVote, Phases
<1>2. PICK c \in Replicas, old, left, done, more \in Nat :
        /\ left <= Turns /\ Waiting(msgQueue, block, c, old, left, done, more)
        /\ Cast(votes, phase, done)
        /\ ~rotated => c = Leader(viewNum) /\ InTurn(votes, c, done)
  BY DEF HotStuffInv, Underway
<1>3. block \in 1 .. proposed /\ Turns \in Nat /\ Needed \in Nat /\ Needed >= 1
      /\ Threshold = Needed + 1
  BY <1>1, Sizes
<1>4. old = 0
  <2>1. CASE old > 0
    <3>1. m.block # block
      BY <1>1, <1>2, <2>1, OldVote
    <3> QED
      BY <3>1
  <2> QED
    BY <2>1
<1>5. left = 0
  <2>1. CASE left > 0
    <3>1. m.type = "propose"
      BY <1>1, <1>2, <1>4, <2>1, ProposalsFirst
    <3> QED
      BY <1>1, <3>1
  <2> QED
    BY <2>1
<1>6. /\ Casts(c, done + 1, m.from) /\ more > 0
      /\ Waiting(Tail(msgQueue), block, c, 0, 0, done + 1, more - 1)
      /\ \A k \in 1 .. Len(Tail(msgQueue)) : Tail(msgQueue)[k].type = "vote"
  BY <1>1, <1>2, <1>4, <1>5, NextVote
<1>7. m.from \in Replicas /\ Tail(msgQueue) \in Seq(Messages(proposed))
  BY <1>1, <1>6, CastsParts, TailParts
<1>8. /\ cast \in Seq(Replicas) /\ Len(cast) = Len(votes) + 1 /\ votes # <<>>
      /\ Len(votes) \in 1 .. Needed /\ done = (phase - 1) * Needed + (Len(votes) - 1)
  BY <1>1, <1>2, <1>7 DEF Cast
<1>9. ~rotated => InTurn(cast, c, done + 1)
  BY <1>1, <1>2, <1>6, <1>7, <1>8, OneMoreInTurn
<1>10. ~rotated /\ Len(cast) >= Threshold => Cardinality(ToSet(cast)) >= Threshold
  <2> SUFFICES ASSUME ~rotated, Len(cast) >= Threshold
               PROVE  Cardinality(ToSet(cast)) >= Threshold
    OBVIOUS
  <2> HIDE DEF cast
  <2>1. Len(cast) = Needed + 1
    BY <1>3, <1>8
  <2> QED
    BY <1>8, <1>9, <2>1, QuorumIsReal
<1>11. /\ msgQueue' = Tail(msgQueue) /\ proposed' = proposed /\ rotations' = rotations
       /\ quorums' = IF Len(cast) >= Threshold /\ ~rotated THEN quorums \cup {cast} ELSE quorums
  BY DEF HandleVote
<1>12. /\ quorums' \subseteq Seq(Replicas)
       /\ \A q \in quorums' : Cardinality(ToSet(q)) >= Threshold
  BY <1>1, <1>8, <1>10, <1>11 DEF HotStuffInv
<1>13. done + 1 \in Nat /\ more - 1 \in Nat /\ 0 \in Nat /\ 0 <= Turns
  BY <1>3, <1>6
<1>14. CASE Len(cast) < Threshold
  <2>1. /\ votes' = cast /\ phase' = phase /\ block' = block /\ height' = height
        /\ viewNum' = viewNum /\ rotated' = rotated
    BY <1>1, <1>3, <1>8, <1>14 DEF HandleVote
  <2>2. Cast(cast, phase, done + 1)
    BY <1>1, <1>3, <1>8, <1>14 DEF Cast
  <2> HIDE DEF cast
  <2>3. Underway(msgQueue', block', votes', phase', viewNum', rotated')
    BY <1>2, <1>6, <1>9, <1>11, <1>13, <2>1, <2>2 DEF Underway
  <2>4. HotStuffTypeOK'
    BY <1>1, <1>3, <1>7, <1>8, <1>11, <1>12, <2>1 DEF HotStuffTypeOK, Messages
  <2> QED
    BY <1>1, <1>11, <1>12, <2>1, <2>3, <2>4 DEF HotStuffInv
<1>15. CASE Len(cast) >= Threshold /\ phase # 4
  <2>1. /\ votes' = <<Leader(viewNum)>> /\ phase' = phase + 1 /\ block' = block
        /\ height' = height /\ viewNum' = viewNum /\ rotated' = rotated
    BY <1>1, <1>3, <1>8, <1>15 DEF HandleVote
  <2> DEFINE d == Leader(viewNum)
  <2>2. d \in Replicas
    BY <1>1, LeaderIsReplica
  <2> HIDE DEF d
  <2>3. Len(<<d>>) = 1 /\ <<d>>[1] = d /\ <<d>> \in Seq(Replicas) /\ \A j \in 2 .. 1 : FALSE
    BY <2>2
  <2>4. Cast(<<d>>, phase + 1, done + 1)
    <3>1. Len(votes) = Needed
      BY <1>3, <1>8, <1>15
    <3>2. done + 1 = (phase - 1) * Needed + Needed
      BY <1>1, <1>3, <1>8, <3>1
    <3>3. ((phase + 1) - 1) * Needed + (1 - 1) = (phase - 1) * Needed + Needed
      BY <1>1, <1>3
    <3> QED
      BY <1>3, <2>3, <3>2, <3>3 DEF Cast
  <2>5. ~rotated => c = d /\ InTurn(<<d>>, c, done + 1)
    BY <1>2, <2>3 DEF InTurn, d
  <2>6. Underway(msgQueue', block', votes', phase', viewNum', rotated')
    <3>1. votes' = <<d>> /\ Leader(viewNum') = d
      BY <2>1 DEF d
    <3> QED
      BY <1>2, <1>6, <1>11, <1>13, <2>1, <2>4, <2>5, <3>1 DEF Underway
  <2>7. phase' \in DOMAIN Phases /\ votes' \in Seq(Replicas)
    BY <1>1, <1>15, <2>1, <2>3 DEF d
  <2>8. HotStuffTypeOK'
    BY <1>1, <1>3, <1>7, <1>11, <1>12, <2>1, <2>7 DEF HotStuffTypeOK, Messages
  <2> QED
    BY <1>1, <1>11, <1>12, <2>1, <2>6, <2>8 DEF HotStuffInv
<1>16. CASE Len(cast) >= Threshold /\ phase = 4
  <2>1. /\ votes' = <<>> /\ phase' = 1 /\ block' = 0 /\ height' = height + 1
        /\ viewNum' = viewNum + 1 /\ rotated' = FALSE
    BY <1>1, <1>16 DEF HandleVote
  <2>2. HotStuffTypeOK'
    <3>1. /\ viewNum' \in Nat \ {0} /\ phase' \in DOMAIN Phases /\ block' \in 0 .. proposed'
          /\ height' \in 0 .. proposed' /\ rotated' \in BOOLEAN
      <4>1. viewNum + 1 \in Nat \ {0} /\ height + 1 \in 0 .. proposed /\ 0 \in 0 .. proposed
            /\ 1 \in DOMAIN Phases
        BY <1>1
      <4> QED
        BY <1>11, <2>1, <4>1
    <3>2. votes' \in Seq(Replicas)
      BY <2>1
    <3> QED
      BY <1>1, <1>7, <1>11, <1>12, <3>1, <3>2 DEF HotStuffTypeOK, Messages
  <2> QED
    BY <1>6, <1>11, <1>12, <2>1, <2>2 DEF HotStuffInv
<1>17. Len(cast) \in Nat /\ Threshold \in Nat
  BY <1>3, <1>8
<1> HIDE DEF cast
<1> QED
  BY <1>14, <1>15, <1>16, <1>17

LEMMA RotateLeaderKept ==
    ASSUME HotStuffAssumption, HotStuffInv, RotateLeader
    PROVE  HotStuffInv'
<1>1. /\ phase' = phase /\ block' = block /\ votes' = votes /\ msgQueue' = msgQueue
      /\ height' = height /\ proposed' = proposed /\ quorums' = quorums
      /\ viewNum' = viewNum + 1 /\ rotated' = (block # 0) /\ rotations' = rotations + 1
      /\ rotations < MaxRotations
  BY DEF RotateLeader
<1>2. HotStuffTypeOK'
  BY <1>1 DEF HotStuffInv, HotStuffTypeOK, HotStuffAssumption
<1>3. block # 0 => Underway(msgQueue', block', votes', phase', viewNum', rotated')
  BY <1>1 DEF HotStuffInv, Underway
<1> QED
  BY <1>1, <1>2, <1>3 DEF HotStuffInv

LEMMA HotStuffInvHolds ==
    ASSUME HotStuffAssumption
    PROVE  HotStuffSpec => []HotStuffInv
<1>1. HotStuffInit => HotStuffInv
  <2> SUFFICES ASSUME HotStuffInit PROVE HotStuffInv
    OBVIOUS
  <2>1. HotStuffTypeOK
    <3>1. <<>> \in Seq(Replicas) /\ {} \subseteq Seq(Replicas) /\ 1 \in DOMAIN Phases
          /\ <<>> \in Seq([type : {"propose", "vote"}, block : 1 .. proposed, from : Replicas])
      BY DEF Phases
    <3>2. MaxBlocks \in Nat /\ MaxRotations \in Nat
      BY DEF HotStuffAssumption
    <3>3. /\ viewNum \in Nat \ {0} /\ block \in 0 .. proposed /\ height \in 0 .. proposed
          /\ proposed \in 0 .. MaxBlocks /\ rotations \in 0 .. MaxRotations
      <4>1. /\ viewNum = 1 /\ block = 0 /\ height = 0 /\ proposed = 0 /\ rotations = 0
        BY DEF HotStuffInit
      <4> QED
        BY <3>2, <4>1
    <3>4. /\ phase \in DOMAIN Phases /\ votes \in Seq(Replicas)
          /\ quorums \subseteq Seq(Replicas)
          /\ msgQueue \in Seq([type : {"propose", "vote"}, block : 1 .. proposed, from : Replicas])
      BY <3>1 DEF HotStuffInit
    <3> QED
      BY <3>3, <3>4 DEF HotStuffInit, HotStuffTypeOK
  <2>2. \A k \in 1 .. Len(msgQueue) : FALSE
    BY DEF HotStuffInit
  <2> QED
    BY <2>1, <2>2 DEF HotStuffInit, HotStuffInv
<1>2. HotStuffInv /\ [HotStuffNext]_hotStuffVars => HotStuffInv'
  <2> SUFFICES ASSUME HotStuffInv, [HotStuffNext]_hotStuffVars PROVE HotStuffInv'
    OBVIOUS
  <2>1. CASE Propose
    BY <2>1, ProposeKept
  <2>2. CASE HandlePropose
    BY <2>2, HandleProposeKept
  <2>3. CASE HandleVote
    BY <2>3, HandleVoteIdle, HandleVoteCounts
  <2>4. CASE RotateLeader
    BY <2>4, RotateLeaderKept
  <2>5. CASE UNCHANGED hotStuffVars
    BY <2>5 DEF hotStuffVars, hotStuffObservers, HotStuffInv, HotStuffTypeOK
  <2> QED
    BY <2>1, <2>2, <2>3, <2>4, <2>5 DEF HotStuffNext
<1> QED
  BY <1>1, <1>2, PTL DEF HotStuffSpec

(* Type correctness of HotStuff: no block is proposed while one is         *)
(* pending, and every block that is decided was proposed.                  *)
THEOREM HotStuffTypeCorrect ==
    ASSUME HotStuffAssumption
    PROVE  HotStuffSpec => []HotStuffTypeOK
<1>1. HotStuffInv => HotStuffTypeOK
  BY DEF HotStuffInv
<1> QED
  BY <1>1, HotStuffInvHolds, PTL

(* Every QC has the votes of a quorum of different nodes, although votes   *)
(* are not checked, and no block is stuck (hotstuff.go, handleVote and     *)
(* handlePropose).                                                         *)
THEOREM QuorumsReal ==
    ASSUME HotStuffAssumption
    PROVE  HotStuffSpec => []QuorumsAreReal
<1>1. HotStuffInv => QuorumsAreReal
  <2> SUFFICES ASSUME HotStuffInv, msgQueue = <<>>, block # 0 PROVE FALSE
    BY DEF HotStuffInv, QuorumsAreReal
  <2>1. PICK c \in Replicas, old, left, done, more \in Nat :
          Waiting(msgQueue, block, c, old, left, done, more) /\ Cast(votes, phase, done)
    BY DEF HotStuffInv, Underway
  <2>2. /\ Turns \in Nat /\ Needed \in Nat /\ 4 * Needed <= Turns * Turns
        /\ phase \in 1 .. 4
    BY Sizes DEF HotStuffInv, HotStuffTypeOK, Phases
  <2>3. old = 0 /\ left = 0 /\ more = 0
    BY <2>1 DEF Waiting
  <2>4. done = Turns * Turns
    <3>1. done + more = (Turns - left) * Turns
      BY <2>1 DEF Waiting
    <3> QED
      BY <2>2, <2>3, <3>1
  <2>5. done < phase * Needed
    <3>1. done = (phase - 1) * Needed + (Len(votes) - 1) /\ Len(votes) \in 1 .. Needed
      BY <2>1 DEF Cast
    <3>2. (phase - 1) * Needed = phase * Needed - Needed
      BY <2>2
    <3> QED
      BY <2>2, <3>1, <3>2
  <2>6. phase * Needed <= 4 * Needed
    BY <2>2
  <2> QED
    BY <2>1, <2>2, <2>4, <2>5, <2>6
<1> QED
  BY <1>1, HotStuffInvHolds, PTL
=============================================================================
