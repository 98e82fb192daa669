--------------------------------- MODULE PosSim -------------------------------
(***************************************************************************)
(* The proof-of-stake simulator (simulations/modules/consensus/pos.go):    *)
(* slots and epochs, a committee that attests the newest block, finality,  *)
(* and slashing.                                                           *)
(*                                                                         *)
(* Validators differ by a stake, which biases the lottery of proposers and *)
(* collects rewards; nothing modelled here reads it.  They are represented *)
(* by the number of those that are active: slashing is for good.           *)
(***************************************************************************)
EXTENDS Naturals, Sequences, FiniteSets, FiniteSetsExt

CONSTANTS
    Counts,        \* choices of validator_count
    S,             \* s.slotsPerEpoch
    MaxSlot,       \* bound: slots
    MaxSlashes     \* bound: validators slashed

PosAssumption ==
    /\ Counts \subseteq Nat \ {0}
    /\ S \in Nat \ {0}
    /\ {MaxSlot, MaxSlashes} \subseteq Nat

VARIABLES
    active,        \* len(getActiveValidators())
    slot, epoch,   \* s.currentSlot, s.currentEpoch
    chain,         \* s.chain: slot, number of attestations, Finalized
    finalized,     \* s.finalized
    slashes        \* observer: validators slashed

vars == <<active, slot, epoch, chain, finalized, slashes>>

Init ==
    /\ active \in Counts
    /\ slot = 0 /\ epoch = 0
    /\ chain = <<[slot |-> 0, attested |-> 0, final |-> TRUE]>>
    /\ finalized = 0
    /\ slashes = 0

-----------------------------------------------------------------------------
\* getCommittee: a quarter of the validators, but everyone if that makes less than four.
Committee == IF active \div 4 < 4 THEN active ELSE active \div 4

\* Each member of the committee attests with probability 0.95: these numbers stand
\* for all, most, few.
Turnouts == {n \in {Committee, Committee - 2, 1} : n \in 0 .. Committee}

Supermajority(n) == 3 * n >= 2 * active

(* updateFinality: from the third newest block down to the newest that is  *)
(* final; s.finalized is left at the last one found, the oldest.           *)
Finalize(c) ==
    LET bound == Max({i \in DOMAIN c : c[i].final})
        found == {i \in bound + 1 .. Len(c) - 2 : Supermajority(c[i].attested)}
    IN  /\ chain' = [i \in DOMAIN c |-> [c[i] EXCEPT !.final = @ \/ i \in found]]
        /\ finalized' = IF found = {} THEN finalized ELSE c[Min(found)].slot

(* onTick.                                                                 *)
Tick ==
    /\ slot < MaxSlot /\ slot' = slot + 1
    /\ epoch' = IF slot' % S = 0 THEN epoch + 1 ELSE epoch
    /\ IF active = 0 THEN Finalize(chain)
       ELSE \E n \in Turnouts :
               Finalize(Append(chain, [slot |-> slot', attested |-> n, final |-> FALSE]))
    /\ UNCHANGED <<active, slashes>>

(* advance_epoch: to the last slot of this epoch.                          *)
AdvanceEpoch ==
    /\ (epoch + 1) * S - 1 <= MaxSlot
    /\ slot' = (epoch + 1) * S - 1
    /\ UNCHANGED <<active, epoch, chain, finalized, slashes>>

(* SlashValidator, of one that is active.                                  *)
SlashValidator ==
    /\ active > 0
    /\ slashes < MaxSlashes /\ slashes' = slashes + 1
    /\ active' = active - 1
    /\ UNCHANGED <<slot, epoch, chain, finalized>>

Next == Tick \/ AdvanceEpoch \/ SlashValidator

Spec == Init /\ [][Next]_vars

-----------------------------------------------------------------------------
(* Type correctness.                                                       *)
TypeOK ==
    /\ active \in Nat
    /\ slot \in 0 .. MaxSlot
    /\ epoch \in 0 .. MaxSlot
    /\ \A i \in DOMAIN chain :
           chain[i] \in [slot : 0 .. MaxSlot, attested : Nat, final : BOOLEAN]
    /\ finalized \in 0 .. MaxSlot
    /\ slashes \in 0 .. MaxSlashes

(* A final block keeps its two thirds, counted among those active now: the *)
(* set only shrinks.  The reported slot is one of a final block.  The two  *)
(* newest blocks are open, slots go up and stay in step with the epoch,    *)
(* although the user moves both.  And while there are sixteen validators   *)
(* the committee is a quarter of them, so nothing is ever final, unless    *)
(* five eighths of those there were have been slashed since.               *)
FinalityIsBacked ==
    /\ \A i \in 2 .. Len(chain) :
           /\ chain[i].final => 3 * chain[i].attested >= 2 * active /\ i <= Len(chain) - 2
           /\ chain[i - 1].slot < chain[i].slot
           /\ active >= 16 /\ 3 * slashes < 5 * active => ~chain[i].final
    /\ \E i \in DOMAIN chain : chain[i].final /\ chain[i].slot = finalized
    /\ chain[Len(chain)].slot <= slot /\ epoch = slot \div S
=============================================================================
