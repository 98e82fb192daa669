-------------------------------- MODULE RaftSim --------------------------------
(***************************************************************************)
(* The Raft teaching simulator (simulations/modules/consensus/raft.go).    *)
(* One process plays all the nodes: their messages wait in one queue, of   *)
(* which every tick handles the first, and every operation holds one       *)
(* mutex.  What is left of the protocol's concurrency is the order of      *)
(* ticks, timeouts and the actions of the user.                            *)
(*                                                                         *)
(* The timers are left out: they may expire at any tick.  A tick that      *)
(* handles a message and one at which a timer expires are separate steps;  *)
(* a user may trigger an election between any two of them.                 *)
(***************************************************************************)
EXTENDS Naturals, Sequences, FiniteSets, SequencesExt

CONSTANTS
    NodeCount,    \* s.nodeCount
    MaxTerm,      \* bound: terms reached by elections
    MaxCommands,  \* bound: submitted commands (see Overwrite)
    MaxFailures,  \* bound: leaders taken offline
    MaxQueue      \* bound: queue length at which a heartbeat is put off

RaftAssumption ==
    /\ NodeCount \in Nat \ {0}
    /\ {MaxTerm, MaxFailures, MaxQueue} \subseteq Nat
    /\ MaxCommands \in 0 .. 2

VARIABLES
    raftNode,     \* s.nodes
    raftQueue,    \* s.messageQueue
    leaderID,     \* s.leaderID; 0 for none
    \* observers
    elected,      \* <<term, node>> for every becomeLeader
    commands,     \* submitted commands
    failures      \* leaders taken offline

raftObservers == <<elected, commands, failures>>
raftVars == <<raftNode, raftQueue, leaderID, raftObservers>>

Nodes == 1 .. NodeCount
None == 0

\* A log entry is the number of its command and the term it was given.
Entry == [term : 0 .. MaxTerm, cmd : 1 .. MaxCommands]

NewNode == [role |-> "follower", term |-> 0, votedFor |-> None, votes |-> 0,
            log |-> <<>>, commit |-> 0, next |-> [i \in Nodes |-> 0],
            match |-> [i \in Nodes |-> 0], online |-> TRUE]

RaftInit ==
    /\ raftNode = [n \in Nodes |-> NewNode]
    /\ raftQueue = <<>>
    /\ leaderID = None
    /\ elected = {}
    /\ commands = 0
    /\ failures = 0

-----------------------------------------------------------------------------
Majority(k) == k > NodeCount \div 2

\* The other nodes in the order of s.nodeList.
Others(n) == [i \in 1 .. NodeCount - 1 |-> IF i < n THEN i ELSE i + 1]

LastTerm(log) == IF log = <<>> THEN 0 ELSE Last(log).term

VoteRequests(n, st) ==
    [i \in 1 .. NodeCount - 1 |-> [type |-> "RequestVote", from |-> n, to |-> Others(n)[i],
        term |-> st.term, lastIndex |-> Len(st.log), lastTerm |-> LastTerm(st.log)]]

(* sendHeartbeats: to every other node what follows its next index.        *)
Heartbeats(n, st) ==
    IF st.role # "leader" THEN <<>>
    ELSE [i \in 1 .. NodeCount - 1 |->
            LET to == Others(n)[i]
                prev == st.next[to] - 1
            IN  [type |-> "AppendEntries", from |-> n, to |-> to, term |-> st.term,
                 prev |-> prev,
                 prevTerm |-> IF prev \in DOMAIN st.log THEN st.log[prev].term ELSE 0,
                 entries |-> SubSeq(st.log, prev + 1, Len(st.log)), commit |-> st.commit]]

(* dropPendingAppendEntries: what is kept stays in its order.              *)
WithoutAppends(q, n) ==
    LET kept == {k \in DOMAIN q : q[k].type # "AppendEntries" \/ q[k].from # n}
        place(k) == Cardinality({j \in kept : j <= k})
    IN  [i \in 1 .. Cardinality(kept) |-> q[CHOOSE k \in kept : place(k) = i]]

(* A message holds a slice of its sender's log.  A log that is overwritten *)
(* at its old length keeps its array, and with it changes what the pending *)
(* messages say.  (One that grows gets a new array: with two commands at   *)
(* most, no log is longer than its array was ever.)                        *)
Overwrite(q, n, old, new) ==
    IF Len(old) # Len(new) THEN q
    ELSE [k \in DOMAIN q |->
            IF q[k].type = "AppendEntries" /\ q[k].from = n
            THEN [q[k] EXCEPT !.entries =
                    [i \in DOMAIN @ |-> IF q[k].prev + i \in DOMAIN new
                                        THEN new[q[k].prev + i] ELSE @[i]]]
            ELSE q[k]]

-----------------------------------------------------------------------------
(* startElection, of an expired timer or of the user: the latter may name  *)
(* any node, a leader and one that is offline, too.                        *)
StartElection(n) ==
    LET st == [raftNode[n] EXCEPT !.term = @ + 1, !.role = "candidate",
                              !.votedFor = n, !.votes = 1]
    IN  /\ st.term <= MaxTerm
        /\ raftNode' = [raftNode EXCEPT ![n] = st]
        /\ raftQueue' = raftQueue \o VoteRequests(n, st)
        /\ UNCHANGED <<leaderID, raftObservers>>

ElectionTimeout(n) ==
    /\ raftNode[n].online /\ raftNode[n].role # "leader"
    /\ StartElection(n)

TriggerElection(n) == StartElection(n)

HeartbeatTimeout(n) ==
    /\ raftNode[n].online /\ raftNode[n].role = "leader"
    /\ Len(raftQueue) < MaxQueue
    /\ raftQueue' = raftQueue \o Heartbeats(n, raftNode[n])
    /\ UNCHANGED <<raftNode, leaderID, raftObservers>>

-----------------------------------------------------------------------------
(* processMessages: the first message is taken out, and lost if its target *)
(* is offline.                                                             *)
Handle(type) ==
    /\ raftQueue # <<>> /\ Head(raftQueue).type = type
    /\ raftNode[Head(raftQueue).to].online

LoseMessage ==
    /\ raftQueue # <<>> /\ ~raftNode[Head(raftQueue).to].online
    /\ raftQueue' = Tail(raftQueue)
    /\ UNCHANGED <<raftNode, leaderID, raftObservers>>

Follow(st, term) == [st EXCEPT !.term = term, !.role = "follower", !.votedFor = None]

\* Mutant: a vote already given does not count.
MayVoteAlways(m, st) ==
    /\ m.term >= st.term
    /\ \/ m.lastTerm > LastTerm(st.log)
       \/ m.lastTerm = LastTerm(st.log) /\ m.lastIndex >= Len(st.log)

MayVote(m, st) ==
    /\ m.term >= st.term
    /\ st.votedFor \in {None, m.from}
    /\ \/ m.lastTerm > LastTerm(st.log)
       \/ m.lastTerm = LastTerm(st.log) /\ m.lastIndex >= Len(st.log)

HandleRequestVote ==
    /\ Handle("RequestVote")
    /\ LET m == Head(raftQueue)
           old == raftNode[m.to]
           st == IF m.term > old.term THEN Follow(old, m.term) ELSE old
           granted == MayVote(m, st)
       IN  /\ raftNode' = [raftNode EXCEPT ![m.to] =
                          IF granted THEN [st EXCEPT !.votedFor = m.from] ELSE st]
           /\ raftQueue' = Append(Tail(raftQueue), [type |-> "RequestVoteReply", from |-> m.to,
                          to |-> m.from, term |-> st.term, granted |-> granted])
    /\ UNCHANGED <<leaderID, raftObservers>>

Lead(st) ==
    [st EXCEPT !.role = "leader", !.next = [i \in Nodes |-> Len(st.log) + 1],
               !.match = [i \in Nodes |-> 0]]

(* The votes are counted; a majority makes the candidate a leader.         *)
HandleRequestVoteReply ==
    /\ Handle("RequestVoteReply")
    /\ LET m == Head(raftQueue)
           n == m.to
           st == raftNode[n]
           more == [st EXCEPT !.votes = @ + 1]
           counted == st.role = "candidate" /\ m.granted /\ m.term = st.term
           wins == counted /\ Majority(more.votes)
       IN  /\ raftNode' = [raftNode EXCEPT ![n] =
                  IF st.role = "candidate" /\ m.term > st.term THEN Follow(st, m.term)
                  ELSE IF wins THEN Lead(more)
                  ELSE IF counted THEN more ELSE st]
           /\ raftQueue' = Tail(raftQueue) \o (IF wins THEN Heartbeats(n, Lead(more)) ELSE <<>>)
           /\ leaderID' = IF wins THEN n ELSE leaderID
           /\ elected' = IF wins THEN elected \cup {<<st.term, n>>} ELSE elected
    /\ UNCHANGED <<commands, failures>>

(* Every AppendEntries of a term not older makes a follower that may vote  *)
(* again, in the same term, too.                                           *)
HandleAppendEntries ==
    /\ Handle("AppendEntries")
    /\ LET m == Head(raftQueue)
           st == raftNode[m.to]
           follower == Follow(st, m.term)
           accepted ==
               /\ m.term >= st.term
               /\ m.prev > 0 =>
                      m.prev \in DOMAIN st.log /\ st.log[m.prev].term = m.prevTerm
           log == IF accepted /\ m.entries # <<>>
                  THEN SubSeq(st.log, 1, m.prev) \o m.entries ELSE st.log
           known == IF m.commit < Len(log) THEN m.commit ELSE Len(log)
       IN  /\ raftNode' = [raftNode EXCEPT ![m.to] =
                  IF m.term < st.term THEN st
                  ELSE IF ~accepted THEN follower
                  ELSE [follower EXCEPT !.log = log,
                            !.commit = IF m.commit > @ THEN known ELSE @]]
           /\ raftQueue' = Append(Overwrite(Tail(raftQueue), m.to, st.log, log),
                  [type |-> "AppendEntriesReply", from |-> m.to, to |-> m.from,
                   term |-> IF m.term < st.term THEN st.term ELSE m.term,
                   success |-> accepted])
    /\ UNCHANGED <<leaderID, raftObservers>>

(* A success counts for the whole log the leader has by now, whatever the  *)
(* follower was sent.                                                      *)
HandleAppendEntriesReply ==
    /\ Handle("AppendEntriesReply")
    /\ LET m == Head(raftQueue)
           n == m.to
           st == raftNode[n]
           leads == st.role = "leader"
           last == Len(st.log)
           acked == [st EXCEPT !.next[m.from] = last + 1, !.match[m.from] = last]
           copies == 1 + Cardinality({i \in Nodes \ {n} : acked.match[i] >= last})
           commits == leads /\ m.term <= st.term /\ m.success /\ last > 0
                      /\ Majority(copies) /\ st.commit < last
           new == IF commits THEN [acked EXCEPT !.commit = last] ELSE acked
       IN  /\ raftNode' = [raftNode EXCEPT ![n] =
                  IF ~leads THEN st
                  ELSE IF m.term > st.term THEN Follow(st, m.term)
                  ELSE IF m.success THEN new
                  ELSE IF st.next[m.from] > 1 THEN [st EXCEPT !.next[m.from] = @ - 1]
                  ELSE st]
           /\ leaderID' = IF leads /\ m.term > st.term THEN None ELSE leaderID
           /\ raftQueue' = IF commits
                       THEN WithoutAppends(Tail(raftQueue), n) \o Heartbeats(n, new)
                       ELSE Tail(raftQueue)
    /\ UNCHANGED raftObservers

-----------------------------------------------------------------------------
(* SubmitCommand: to the node the simulator holds for the leader.          *)
SubmitCommand ==
    /\ leaderID # None
    /\ commands < MaxCommands
    /\ commands' = commands + 1
    /\ LET st == [raftNode[leaderID] EXCEPT !.log =
                      Append(@, [term |-> raftNode[leaderID].term, cmd |-> commands + 1])]
       IN  /\ raftNode' = [raftNode EXCEPT ![leaderID] = st]
           /\ raftQueue' = WithoutAppends(raftQueue, leaderID) \o Heartbeats(leaderID, st)
    /\ UNCHANGED <<leaderID, elected, failures>>

(* simulate_leader_failure and restore_node.                               *)
FailLeader ==
    /\ leaderID # None
    /\ failures < MaxFailures /\ failures' = failures + 1
    /\ raftNode' = [raftNode EXCEPT ![leaderID].online = FALSE]
    /\ leaderID' = None
    /\ UNCHANGED <<raftQueue, elected, commands>>

RestoreNode(n) ==
    /\ ~raftNode[n].online
    /\ raftNode' = [raftNode EXCEPT ![n].online = TRUE]
    /\ UNCHANGED <<raftQueue, leaderID, raftObservers>>

-----------------------------------------------------------------------------
RaftNext ==
    \/ \E n \in Nodes :
        \/ ElectionTimeout(n)
        \/ TriggerElection(n)
        \/ HeartbeatTimeout(n)
        \/ RestoreNode(n)
    \/ LoseMessage
    \/ HandleRequestVote
    \/ HandleRequestVoteReply
    \/ HandleAppendEntries
    \/ HandleAppendEntriesReply
    \/ SubmitCommand
    \/ FailLeader

RaftSpec == RaftInit /\ [][RaftNext]_raftVars

-----------------------------------------------------------------------------
(* Type correctness.                                                       *)
RaftTypeOK ==
    /\ raftNode \in [Nodes -> [role : {"follower", "candidate", "leader"},
           term : 0 .. MaxTerm, votedFor : Nodes \cup {None}, votes : 0 .. NodeCount,
           log : Seq(Entry), commit : 0 .. MaxCommands,
           next : [Nodes -> 0 .. MaxCommands + 1], match : [Nodes -> 0 .. MaxCommands],
           online : BOOLEAN]]
    /\ \A k \in DOMAIN raftQueue : raftQueue[k].from \in Nodes /\ raftQueue[k].to \in Nodes
    /\ leaderID \in Nodes \cup {None}
    /\ elected \subseteq (1 .. MaxTerm) \X Nodes
    /\ commands \in 0 .. MaxCommands
    /\ failures \in 0 .. MaxFailures

(* One leader per term, as long as no node was offline: although followers *)
(* forget their vote, nobody asks for it any more.                         *)
OneLeaderPerTerm ==
    failures = 0 => \A a, b \in elected : a[1] = b[1] => a = b

(* visualizationConsensusContent.ts: the leader moves the commit index     *)
(* when a majority has the entry.                                          *)
CommittedOnMajority ==
    \A n \in Nodes : raftNode[n].role = "leader" =>
        \A i \in 1 .. raftNode[n].commit :
            Majority(Cardinality({m \in Nodes :
                i \in DOMAIN raftNode[m].log /\ raftNode[m].log[i] = raftNode[n].log[i]}))
=============================================================================
