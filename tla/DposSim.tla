-------------------------------- MODULE DposSim -------------------------------
(***************************************************************************)
(* The delegated proof-of-stake simulator (simulations/modules/consensus/  *)
(* dpos.go): votes weighted by balance, the election of the active         *)
(* delegates, and their turns to produce a block.                          *)
(*                                                                         *)
(* The order of the active delegates is shuffled, equal votes are ordered  *)
(* at random (the delegates come out of a map), and a delegate misses its  *)
(* turn at random.  The blocks and the counters of a delegate are left     *)
(* out: nothing reads them.                                                *)
(***************************************************************************)
EXTENDS Integers, Sequences, FiniteSets, SequencesExt, FiniteSetsExt, Functions

CONSTANTS
    Delegates,     \* delegates
    Stranger,      \* a name that is no delegate
    Balances,      \* the balance of each voter
    FirstVotes,    \* the first votes: sequences of delegates
    A,             \* active_delegates (s.maxDelegates)
    Interval,      \* block_interval
    MaxTurns       \* bound: turns in a round

DposAssumption ==
    /\ IsFiniteSet(Delegates) /\ Delegates # {} /\ Stranger \notin Delegates
    /\ Balances \in Seq(Nat) /\ FirstVotes \subseteq Seq(Delegates) \ {<<>>}
    /\ {A, Interval, MaxTurns} \subseteq Nat \ {0}

VARIABLES
    votedFor,      \* voter.VotedFor
    votes,         \* delegate.Votes
    seats,         \* s.activeDelegates
    roundIndex,    \* s.roundIndex
    tick,          \* the tick, modulo s.roundLength
    \* observers
    turns,         \* the delegates whose turn it was in this round
    meddled,       \* the user elected or produced in this round
    skipped        \* a round was left alone, yet a delegate had no turn or two

observers == <<turns, meddled, skipped>>
vars == <<votedFor, votes, seats, roundIndex, tick, observers>>

Voters == DOMAIN Balances
RoundLength == A * Interval

\* What voter v gives delegate d: its share for every time d is named.
Credit(vf, v, d) == (Balances[v] \div Len(vf[v])) * Cardinality({i \in DOMAIN vf[v] : vf[v][i] = d})

Tally(vf) == [d \in Delegates |-> MapThenSumSet(LAMBDA v : Credit(vf, v, d), Voters)]

\* electDelegates: the A delegates with the most votes, in any order.
Elected(vs) ==
    {s \in SetToAllKPermutations(Delegates) :
        /\ Len(s) = Min({A, Cardinality(Delegates)})
        /\ \A d \in Delegates \ ToSet(s), e \in ToSet(s) : vs[e] >= vs[d]}

Init ==
    /\ votedFor \in [Voters -> FirstVotes]
    /\ votes = Tally(votedFor)
    /\ seats \in Elected(votes)
    /\ roundIndex = 0
    /\ tick = 0
    /\ turns = <<>> /\ meddled = FALSE /\ skipped = FALSE

-----------------------------------------------------------------------------
Producer == seats[(roundIndex % Len(seats)) + 1]

(* The last turn of a round and the election of the next.                  *)
EndRound ==
    /\ seats' \in Elected(votes)
    /\ roundIndex' = 0
    /\ turns' = <<>> /\ meddled' = FALSE
    /\ LET all == Append(turns, Producer)
       IN  skipped' = (skipped \/ (~meddled /\ ~(IsInjective(all) /\ ToSet(all) = ToSet(seats))))

(* produceBlock: the turn is over whether the block was missed or not.     *)
Produce ==
    /\ roundIndex < MaxTurns /\ roundIndex' = roundIndex + 1
    /\ turns' = Append(turns, Producer)
    /\ UNCHANGED <<seats, skipped>>

(* onTick: a turn every Interval ticks, the last of them ends the round.   *)
Tick ==
    /\ tick' = (tick + 1) % RoundLength
    /\ UNCHANGED <<votedFor, votes>>
    /\ IF tick' = 0 THEN EndRound
       ELSE IF tick' % Interval = 0 THEN Produce /\ UNCHANGED meddled
       ELSE UNCHANGED <<seats, roundIndex, observers>>

(* produce_block_now.                                                      *)
ProduceNow ==
    /\ Produce
    /\ meddled' = TRUE
    /\ UNCHANGED <<votedFor, votes, tick>>

(* Vote (cast_vote): the old shares are taken back, the new ones given.    *)
Vote(v, d) ==
    /\ votedFor' = [votedFor EXCEPT ![v] = <<d>>]
    /\ votes' = [e \in Delegates |-> votes[e] - Credit(votedFor, v, e) + Credit(votedFor', v, e)]
    /\ UNCHANGED <<seats, roundIndex, tick, observers>>

(* re_elect_delegates: the round and its index go on.                      *)
ReElect ==
    /\ seats' \in Elected(votes)
    /\ meddled' = TRUE
    /\ UNCHANGED <<votedFor, votes, roundIndex, tick, turns, skipped>>

Next ==
    \/ Tick
    \/ ProduceNow
    \/ \E v \in Voters, d \in Delegates \cup {Stranger} : Vote(v, d)
    \/ ReElect

Spec == Init /\ [][Next]_vars

-----------------------------------------------------------------------------
(* Type correctness.                                                       *)
TypeOK ==
    /\ votedFor \in [Voters -> FirstVotes \cup {<<d>> : d \in Delegates \cup {Stranger}}]
    /\ votes \in [Delegates -> Nat]
    /\ seats \in Seq(Delegates)
    /\ roundIndex \in 0 .. MaxTurns
    /\ tick \in 0 .. RoundLength - 1
    /\ turns \in Seq(Delegates)
    /\ meddled \in BOOLEAN /\ skipped \in BOOLEAN

(* The votes of the delegates, moved about by taking back and giving, are  *)
(* what the voters' present choices come to; they are unsigned and must    *)
(* not be taken back twice.  And every seat has exactly one turn in a      *)
(* round the user leaves alone, whatever happened in the round before,     *)
(* unless there are fewer delegates than seats.                            *)
VotesAndTurnsAddUp ==
    /\ votes = Tally(votedFor)
    /\ A <= Cardinality(Delegates) => ~skipped
=============================================================================
