------------------------------- MODULE PbftSim --------------------------------
(***************************************************************************)
(* The PBFT teaching simulator (simulations/modules/consensus/pbft.go).    *)
(* Every tick handles the first message of one queue; one mutex is held    *)
(* by every operation.  A message without a target is delivered to all the *)
(* other nodes at once.  Votes are counted per node and digest: neither    *)
(* the view nor the sequence number of a vote is looked at.                *)
(*                                                                         *)
(* A request of the timer and one of the user are the same step: the timer *)
(* only waits until no request is pending.                                 *)
(***************************************************************************)
EXTENDS Naturals, Sequences, FiniteSets

CONSTANTS
    N,            \* s.nodeCount
    Payloads,     \* what clients ask for; stands for its digest, too
    Fake,         \* the digest of "fake"
    MaxRequests,  \* bound: requests submitted
    MaxViews,     \* bound: view changes
    MaxFaults     \* bound: nodes made Byzantine

PbftAssumption ==
    /\ N \in Nat \ {0}
    /\ {MaxRequests, MaxViews, MaxFaults} \subseteq Nat
    /\ Fake \notin Payloads

VARIABLES
    node,         \* s.nodes
    queue,        \* s.messageQueue
    view,         \* s.currentView
    seq,          \* s.currentSeq
    pending,      \* len(s.pendingReqs)
    committed,    \* s.committed
    \* observers
    asked,        \* the payloads submitted
    committers,   \* who has sent a COMMIT for a digest
    faults,
    overlapped    \* a request came before the last one was through, or again

observers == <<asked, committers, faults, overlapped>>
vars == <<node, queue, view, seq, pending, committed, observers>>

Nodes == 1 .. N
Digests == Payloads \cup {Fake}
All == 0                     \* the target of a broadcast

\* 2*s.faultCount + 1, with s.faultCount = (n - 1) / 3.
Threshold == 2 * ((N - 1) \div 3) + 1

\* getPrimaryID; IsPrimary is set for this node only.
Primary == (view % N) + 1

NoVotes == [d \in Digests |-> 0]

Init ==
    /\ node = [n \in Nodes |-> [state |-> "idle", seq |-> 0, done |-> 0,
                  prepares |-> NoVotes, commits |-> NoVotes, byz |-> "honest"]]
    /\ queue = <<>>
    /\ view = 0 /\ seq = 0 /\ pending = 0
    /\ committed = {}
    /\ asked = {}
    /\ committers = [d \in Digests |-> {}]
    /\ faults = 0
    /\ overlapped = FALSE

-----------------------------------------------------------------------------
Deaf(n) == node[n].byz = "ignore"

Message(type, digest, from, to, s) ==
    [type |-> type, digest |-> digest, from |-> from, to |-> to, seq |-> s]

Higher(a, b) == IF a > b THEN a ELSE b

Through == queue = <<>> /\ \A n \in Nodes : node[n].state = "idle"

(* submitRequest, and handlePrePrepare at the primary: the request waits   *)
(* even when the primary ignores it.                                       *)
SubmitRequest(d) ==
    /\ seq < MaxRequests
    /\ seq' = seq + 1
    /\ pending' = pending + 1
    /\ IF Deaf(Primary) THEN UNCHANGED <<node, queue>>
       ELSE /\ node' = [node EXCEPT ![Primary] = [@ EXCEPT !.state = "pre-prepare",
                  !.seq = seq + 1, !.prepares[d] = 1, !.commits = NoVotes]]
            /\ queue' = queue \o [i \in 1 .. N - 1 |->
                  Message("PRE-PREPARE", d, Primary,
                          IF i < Primary THEN i ELSE i + 1, seq + 1)]
    /\ asked' = asked \cup {d}
    /\ overlapped' = (overlapped \/ ~Through \/ d \in asked)
    /\ UNCHANGED <<view, committed, committers, faults>>

-----------------------------------------------------------------------------
Next1 == Head(queue)
Handle(type) == queue # <<>> /\ Next1.type = type

\* Those a message reaches.
Reached(m) ==
    {n \in Nodes : (IF m.to = All THEN n # m.from ELSE n = m.to) /\ ~Deaf(n)}

(* handlePrepare: a backup takes up the proposal and says so to all.       *)
HandlePrePrepare ==
    /\ Handle("PRE-PREPARE")
    /\ LET m == Next1
           n == m.to
           digest == IF node[n].byz = "equivocate" THEN Fake ELSE m.digest
       IN  IF Reached(m) = {} THEN queue' = Tail(queue) /\ UNCHANGED node
           ELSE /\ node' = [node EXCEPT ![n].state = "prepare", ![n].seq = m.seq,
                                        ![n].prepares[m.digest] = @ + 1]
                /\ queue' = Append(Tail(queue), Message("PREPARE", digest, n, All, m.seq))
    /\ UNCHANGED <<view, seq, pending, committed, observers>>

\* The nodes of S as the node list has them.
InOrder(S) ==
    CHOOSE s \in [1 .. Cardinality(S) -> S] : \A i, j \in DOMAIN s : i < j => s[i] < s[j]

Prepared(st, d) == st.prepares[d] >= Threshold /\ st.state = "prepare"

(* handlePrepareReceive and handleCommit, at every node that is reached.   *)
HandlePrepare ==
    /\ Handle("PREPARE")
    /\ LET m == Next1
           counted == [n \in Nodes |-> [node[n] EXCEPT
               !.state = IF @ = "pre-prepare" THEN "prepare" ELSE @,
               !.seq = Higher(@, m.seq), !.prepares[m.digest] = @ + 1]]
           commits == {n \in Reached(m) : Prepared(counted[n], m.digest)}
       IN  /\ node' = [n \in Nodes |->
                  IF n \in commits
                  THEN [counted[n] EXCEPT !.state = "commit", !.seq = m.seq,
                                          !.commits[m.digest] = @ + 1]
                  ELSE IF n \in Reached(m) THEN counted[n] ELSE node[n]]
           /\ queue' = Tail(queue) \o
                  [i \in 1 .. Cardinality(commits) |->
                      Message("COMMIT", m.digest, InOrder(commits)[i], All, m.seq)]
           /\ committers' = [committers EXCEPT ![m.digest] = @ \cup commits]
    /\ UNCHANGED <<view, seq, pending, committed, asked, faults, overlapped>>

\* Mutant: one vote too few is enough.
CommittedEarly(st, d) == st.commits[d] >= Threshold - 1 /\ st.state = "commit"

Committed(st, d) == st.commits[d] >= Threshold /\ st.state = "commit"

\* Mutant: the list is cut without a look at its length.
PendingUnchecked(replies) == pending - replies

PendingAfter(replies) == IF pending > replies THEN pending - replies ELSE 0

(* handleCommitReceive and handleReply: the node forgets all its votes,    *)
(* and each node that replies takes one request off the list.              *)
HandleCommit ==
    /\ Handle("COMMIT")
    /\ LET m == Next1
           counted == [n \in Nodes |-> [node[n] EXCEPT
               !.seq = Higher(@, m.seq), !.commits[m.digest] = @ + 1]]
           replies == {n \in Reached(m) : Committed(counted[n], m.digest)}
       IN  /\ node' = [n \in Nodes |->
                  IF n \in replies
                  THEN [counted[n] EXCEPT !.state = "idle", !.seq = m.seq, !.done = m.seq,
                                          !.prepares = NoVotes, !.commits = NoVotes]
                  ELSE IF n \in Reached(m) THEN counted[n] ELSE node[n]]
           /\ queue' = Tail(queue)
           /\ committed' = IF replies = {} THEN committed ELSE committed \cup {m.digest}
           /\ pending' = PendingAfter(Cardinality(replies))
    /\ UNCHANGED <<view, seq, observers>>

-----------------------------------------------------------------------------
(* TriggerViewChange: nothing but the view and its primary changes.        *)
TriggerViewChange ==
    /\ view < MaxViews
    /\ view' = view + 1
    /\ UNCHANGED <<node, queue, seq, pending, committed, observers>>

InjectFault(n, behavior) ==
    /\ faults < MaxFaults /\ faults' = faults + 1
    /\ node' = [node EXCEPT ![n].byz = behavior]
    /\ UNCHANGED <<queue, view, seq, pending, committed, asked, committers, overlapped>>

Next ==
    \/ \E d \in Payloads : SubmitRequest(d)
    \/ HandlePrePrepare
    \/ HandlePrepare
    \/ HandleCommit
    \/ TriggerViewChange
    \/ \E n \in Nodes, behavior \in {"ignore", "equivocate"} : InjectFault(n, behavior)

Spec == Init /\ [][Next]_vars

-----------------------------------------------------------------------------
(* Type correctness.                                                       *)
TypeOK ==
    /\ node \in [Nodes -> [state : {"idle", "pre-prepare", "prepare", "commit"},
           seq : 0 .. MaxRequests, done : 0 .. MaxRequests,
           prepares : [Digests -> Nat], commits : [Digests -> Nat],
           byz : {"honest", "ignore", "equivocate"}]]
    /\ queue \in Seq([type : {"PRE-PREPARE", "PREPARE", "COMMIT"}, digest : Digests,
           from : Nodes, to : Nodes \cup {All}, seq : 1 .. MaxRequests])
    /\ view \in 0 .. MaxViews
    /\ seq \in 0 .. MaxRequests /\ pending \in 0 .. seq
    /\ committed \subseteq Digests /\ asked \subseteq Payloads
    /\ committers \in [Digests -> SUBSET Nodes]
    /\ faults \in 0 .. MaxFaults
    /\ overlapped \in BOOLEAN

(* What is committed has a quorum of different nodes behind it, whatever a *)
(* faulty node, or a change of view between any two messages, does; and    *)
(* without faults every request gets through, at every node, and leaves no *)
(* one waiting.  Requests that overlap, or that ask for the same again,    *)
(* meet each other's votes: nothing is claimed of them.                    *)
QuorumsBehindCommits ==
    ~overlapped =>
        /\ \A d \in committed : Cardinality(committers[d]) >= Threshold
        /\ faults = 0 /\ queue = <<>> =>
               /\ pending = 0 /\ committed = asked
               /\ \A n \in Nodes : node[n].state = "idle" /\ node[n].done = seq
=============================================================================
