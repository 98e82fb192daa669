--------------------------- MODULE RuntimesProofs ---------------------------
(***************************************************************************)
(* Proofs about the runtimes of contests, part by part and together.       *)
(* MQConsumer, for any sets of queues and messages, and any numbers of     *)
(* lost connections, restarts and failed dials: type correctness, that     *)
(* nothing is lost, and how often a message is tried.                      *)
(* ChallengeEnv, for any number of requests, environments and faults: type *)
(* correctness, and what becomes of the pods.  BattleRounds, for any       *)
(* finite set of readers, any plan and any number of rounds an             *)
(* administrator adds: type correctness, with the bound on the rounds that *)
(* unguarded readers create, and the single file of the rounds while one   *)
(* reader at a time synchronises them.  And type correctness of the three  *)
(* together.                                                               *)
(***************************************************************************)
EXTENDS MCRuntimes, FiniteSetTheorems, WellFoundedInduction, TLAPS

-----------------------------------------------------------------------------
(***************************************************************************)
(* Queues as sets of what is in them, and what is in them once.            *)
(***************************************************************************)
Holds(s, D) == \E i \in DOMAIN s : s[i] \in D
Once(s, D) == \A i, j \in DOMAIN s : s[i] \in D /\ s[j] \in D => i = j

LEMMA Empty ==
    ASSUME NEW S, NEW D
    PROVE  /\ <<>> \in Seq(S) /\ Len(<<>>) = 0 /\ ToSet(<<>>) = {}
           /\ ~Holds(<<>>, D) /\ Once(<<>>, D)
  BY DEF ToSet, Holds, Once

LEMMA Elements ==
    ASSUME NEW S, NEW s \in Seq(S), NEW D
    PROVE  /\ ToSet(s) \subseteq S
           /\ Holds(s, D) <=> \E x \in ToSet(s) : x \in D
  BY DEF ToSet, Holds

LEMMA Appended ==
    ASSUME NEW S, NEW s \in Seq(S), NEW x \in S, NEW D
    PROVE  /\ Append(s, x) \in Seq(S) /\ Len(Append(s, x)) = Len(s) + 1
           /\ \A i \in 1 .. Len(s) : Append(s, x)[i] = s[i]
           /\ Append(s, x)[Len(s) + 1] = x
           /\ ToSet(Append(s, x)) = ToSet(s) \cup {x}
           /\ Holds(Append(s, x), D) <=> Holds(s, D) \/ x \in D
           /\ Once(s, D) /\ (x \in D => ~Holds(s, D)) => Once(Append(s, x), D)
<1>1. /\ Append(s, x) \in Seq(S) /\ Len(Append(s, x)) = Len(s) + 1 /\ Len(s) \in Nat
      /\ \A i \in 1 .. Len(s) : Append(s, x)[i] = s[i]
      /\ Append(s, x)[Len(s) + 1] = x
      /\ DOMAIN s = 1 .. Len(s)
      /\ DOMAIN Append(s, x) = 1 .. (Len(s) + 1)
  OBVIOUS
<1> DEFINE t == Append(s, x)
<1> HIDE DEF t
<1>2. \A i \in DOMAIN t : (i \in DOMAIN s /\ t[i] = s[i]) \/ (i = Len(s) + 1 /\ t[i] = x)
  BY <1>1 DEF t
<1>3. \A i \in DOMAIN s : i \in DOMAIN t /\ t[i] = s[i]
  BY <1>1 DEF t
<1>4. Len(s) + 1 \in DOMAIN t /\ t[Len(s) + 1] = x
  BY <1>1 DEF t
<1>5. ToSet(t) = ToSet(s) \cup {x}
  BY <1>2, <1>3, <1>4 DEF ToSet
<1>6. Holds(t, D) <=> Holds(s, D) \/ x \in D
  BY <1>2, <1>3, <1>4 DEF Holds
<1>7. Once(s, D) /\ (x \in D => ~Holds(s, D)) => Once(t, D)
  BY <1>2 DEF Once, Holds
<1>8. QED
  BY <1>1, <1>5, <1>6, <1>7 DEF t

LEMMA Behead ==
    ASSUME NEW S, NEW s \in Seq(S), s # <<>>, NEW D
    PROVE  /\ Head(s) \in S /\ Tail(s) \in Seq(S) /\ s[1] = Head(s)
           /\ Len(s) \in Nat \ {0} /\ Len(Tail(s)) = Len(s) - 1
           /\ \A i \in 1 .. Len(Tail(s)) : Tail(s)[i] = s[i + 1]
           /\ ToSet(s) = ToSet(Tail(s)) \cup {Head(s)}
           /\ Holds(s, D) <=> Holds(Tail(s), D) \/ Head(s) \in D
           /\ Once(s, D) => Once(Tail(s), D) /\ (Head(s) \in D => ~Holds(Tail(s), D))
<1>1. /\ Head(s) \in S /\ Tail(s) \in Seq(S) /\ s[1] = Head(s)
      /\ Len(s) \in Nat \ {0} /\ Len(Tail(s)) = Len(s) - 1
      /\ \A i \in 1 .. Len(Tail(s)) : Tail(s)[i] = s[i + 1]
      /\ DOMAIN s = 1 .. Len(s) /\ DOMAIN Tail(s) = 1 .. (Len(s) - 1)
  OBVIOUS
<1> DEFINE t == Tail(s)
<1> HIDE DEF t
<1>2. \A i \in DOMAIN t : i + 1 \in DOMAIN s /\ t[i] = s[i + 1] /\ i + 1 # 1
  BY <1>1 DEF t
<1>3. \A i \in DOMAIN s : i = 1 \/ (i - 1 \in DOMAIN t /\ t[i - 1] = s[i])
  <2> SUFFICES ASSUME NEW i \in DOMAIN s, i # 1 PROVE i - 1 \in DOMAIN t /\ t[i - 1] = s[i]
    OBVIOUS
  <2>1. i \in Int /\ i - 1 \in 1 .. Len(t) /\ (i - 1) + 1 = i
    BY <1>1 DEF t
  <2>2. QED
    BY <1>1, <2>1 DEF t
<1>4. 1 \in DOMAIN s
  BY <1>1
<1>5. ToSet(s) = ToSet(t) \cup {Head(s)}
  BY <1>1, <1>2, <1>3, <1>4 DEF ToSet
<1>6. Holds(s, D) <=> Holds(t, D) \/ Head(s) \in D
  BY <1>1, <1>2, <1>3, <1>4 DEF Holds
<1>7. Once(s, D) => Once(t, D) /\ (Head(s) \in D => ~Holds(t, D))
  <2>1. \A i, j \in DOMAIN t : i + 1 = j + 1 => i = j
    BY <1>1 DEF t
  <2>2. QED
    BY <1>1, <1>2, <1>4, <2>1 DEF Once, Holds
<1>8. QED
  BY <1>1, <1>5, <1>6, <1>7 DEF t

LEMMA Joined ==
    ASSUME NEW S, NEW s \in Seq(S), NEW t \in Seq(S), NEW D
    PROVE  /\ s \o t \in Seq(S)
           /\ ToSet(s \o t) = ToSet(s) \cup ToSet(t)
           /\ Holds(s \o t, D) <=> Holds(s, D) \/ Holds(t, D)
           /\ Once(t, D) /\ ~Holds(s, D) => Once(s \o t, D)
<1>1. /\ s \o t \in Seq(S) /\ Len(s) \in Nat /\ Len(t) \in Nat
      /\ DOMAIN s = 1 .. Len(s) /\ DOMAIN t = 1 .. Len(t)
      /\ DOMAIN (s \o t) = 1 .. (Len(s) + Len(t))
      /\ \A i \in 1 .. Len(s) + Len(t) :
             (s \o t)[i] = IF i <= Len(s) THEN s[i] ELSE t[i - Len(s)]
  OBVIOUS
<1> DEFINE u == s \o t
           n == Len(s)
<1>2. DOMAIN u = 1 .. (n + Len(t)) /\ n \in Nat /\ Len(t) \in Nat
      /\ DOMAIN s = 1 .. n /\ DOMAIN t = 1 .. Len(t)
      /\ \A i \in 1 .. n + Len(t) : u[i] = IF i <= n THEN s[i] ELSE t[i - n]
  BY <1>1
<1> HIDE DEF u, n
<1>3. \A i \in DOMAIN u : \/ i \in DOMAIN s /\ u[i] = s[i]
                          \/ i - n \in DOMAIN t /\ u[i] = t[i - n]
  BY <1>2
<1>4. /\ \A i \in DOMAIN s : i \in DOMAIN u /\ u[i] = s[i]
      /\ \A i \in DOMAIN t : \E j \in DOMAIN u : u[j] = t[i]
  <2>1. ASSUME NEW i \in DOMAIN s PROVE i \in DOMAIN u /\ u[i] = s[i]
    BY <1>2
  <2>2. ASSUME NEW i \in DOMAIN t PROVE \E j \in DOMAIN u : u[j] = t[i]
    <3>1. PICK j \in 1 .. n + Len(t) : j = n + i /\ j - n = i /\ ~(j <= n)
      BY <1>2
    <3>2. QED
      BY <1>2, <3>1
  <2>3. QED
    BY <2>1, <2>2
<1>5. ToSet(u) = ToSet(s) \cup ToSet(t)
  BY <1>3, <1>4 DEF ToSet
<1>6. Holds(u, D) <=> Holds(s, D) \/ Holds(t, D)
  BY <1>3, <1>4 DEF Holds
<1>7. Once(t, D) /\ ~Holds(s, D) => Once(u, D)
  <2> SUFFICES ASSUME Once(t, D), ~Holds(s, D), NEW i \in DOMAIN u, NEW j \in DOMAIN u,
                      u[i] \in D, u[j] \in D
               PROVE  i = j
    BY DEF Once
  <2>1. i - n \in DOMAIN t /\ t[i - n] \in D /\ j - n \in DOMAIN t /\ t[j - n] \in D
    BY <1>3 DEF Holds
  <2>2. i - n = j - n
    BY <2>1 DEF Once
  <2>3. QED
    BY <1>2, <2>2
<1>8. QED
  BY <1>1, <1>5, <1>6, <1>7 DEF u

(* RemoveFirst takes out one element and no other one.                     *)
LEMMA LeastOf ==
    ASSUME NEW S, S \subseteq Nat, S # {}
    PROVE  Min(S) \in S /\ \A x \in S : Min(S) <= x
<1>1. PICK m \in S : \A y \in S : ~(<<y, m>> \in OpToRel(<, Nat))
  BY NatLessThanWellFounded, WFMin
<1>2. \A y \in S : m <= y
  <2> SUFFICES ASSUME NEW y \in S, y < m PROVE FALSE
    OBVIOUS
  <2>1. <<y, m>> \in Nat \X Nat
    BY <1>1
  <2>2. <<y, m>> \in OpToRel(<, Nat)
    BY <2>1 DEF OpToRel
  <2>3. QED
    BY <1>1, <2>2
<1>3. QED
  BY <1>1, <1>2 DEF Min

LEMMA Removed ==
    ASSUME NEW S, NEW s \in Seq(S), NEW e
    PROVE  /\ RemoveFirst(s, e) \in Seq(S)
           /\ ToSet(RemoveFirst(s, e)) \subseteq ToSet(s)
           /\ ToSet(s) \ {e} \subseteq ToSet(RemoveFirst(s, e))
<1>1. CASE ~\E i \in 1 .. Len(s) : s[i] = e
  BY <1>1 DEF RemoveFirst
<1>2. CASE \E i \in 1 .. Len(s) : s[i] = e
  <2> DEFINE I == {i \in 1 .. Len(s) : s[i] = e}
             k == Min(I)
  <2>1. k \in I
    BY <1>2, LeastOf
  <2>2. RemoveFirst(s, e) = SubSeq(s, 1, k - 1) \o SubSeq(s, k + 1, Len(s))
    BY <1>2 DEF RemoveFirst, RemoveAt, SelectInSeq
  <2> HIDE DEF k
  <2>3. k \in 1 .. Len(s) /\ s[k] = e /\ Len(s) \in Nat
    BY <2>1
  <2> DEFINE a == SubSeq(s, 1, k - 1)
             b == SubSeq(s, k + 1, Len(s))
  <2>4. /\ a \in Seq(S) /\ Len(a) = k - 1 /\ \A i \in 1 .. k - 1 : a[i] = s[i]
        /\ b \in Seq(S) /\ Len(b) = Len(s) - k
        /\ \A i \in 1 .. Len(s) - k : b[i] = s[k + i]
    BY <2>3
  <2>5. RemoveFirst(s, e) = a \o b
    BY <2>2
  <2> HIDE DEF a, b
  <2>6. RemoveFirst(s, e) \in Seq(S) /\ ToSet(RemoveFirst(s, e)) = ToSet(a) \cup ToSet(b)
    BY <2>4, <2>5, Joined
  <2>7. DOMAIN a = 1 .. k - 1 /\ DOMAIN b = 1 .. Len(s) - k /\ DOMAIN s = 1 .. Len(s)
    BY <2>4
  <2>8. \A i \in DOMAIN b : k + i \in DOMAIN s /\ b[i] = s[k + i]
    BY <2>3, <2>4, <2>7
  <2>9. \A i \in DOMAIN a : i \in DOMAIN s /\ a[i] = s[i]
    BY <2>3, <2>4, <2>7
  <2>10. \A i \in DOMAIN s : \/ i \in DOMAIN a /\ a[i] = s[i]
                             \/ s[i] = e
                             \/ i - k \in DOMAIN b /\ b[i - k] = s[i]
    <3> SUFFICES ASSUME NEW i \in DOMAIN s, i \notin DOMAIN a, i # k
                 PROVE  i - k \in DOMAIN b /\ b[i - k] = s[i]
      BY <2>3, <2>4, <2>7
    <3>1. i \in Int /\ i - k \in 1 .. Len(s) - k /\ k + (i - k) = i
      BY <2>3, <2>7
    <3>2. QED
      BY <2>4, <2>7, <3>1
  <2>11. ToSet(a) \subseteq ToSet(s) /\ ToSet(b) \subseteq ToSet(s)
    BY <2>8, <2>9 DEF ToSet
  <2>12. ToSet(s) \ {e} \subseteq ToSet(a) \cup ToSet(b)
    BY <2>10 DEF ToSet
  <2>13. QED
    BY <2>6, <2>11, <2>12
<1>3. QED
  BY <1>1, <1>2

-----------------------------------------------------------------------------
(***************************************************************************)
(* The inductive invariant, first part: what a message found anywhere says *)
(* of the past.                                                            *)
(***************************************************************************)
\* A message of queue q: the broker has received it, and the handler has
\* failed as often as its retry count says.
Mail(q) ==
    {m \in Message : QueueOf[m.id] = q /\ m.id \in accepted /\ m.retry <= failures[m.id]}

Hopeless(id) == id \in Malformed \/ failures[id] >= RetryLimit

Mailed(f) ==
    /\ f.op = "publish" => f.msg.id \in submitted /\ f.msg.retry <= failures[f.msg.id]
    /\ f.op # "publish" => f.msg \in Mail(QueueOf[f.msg.id])
    /\ f.op = "nack" => Hopeless(f.msg.id)

Frames == {f \in Frame : Mailed(f)}

Holding == {"handling", "retrying", "acking", "nacking"}

HeldWell(q) ==
    /\ consumer[q].at \in Holding => consumer[q].held \in Mail(q)
    /\ consumer[q].at = "retrying" =>
          MayRetry(consumer[q].held) /\ consumer[q].held.retry < failures[consumer[q].held.id]
    /\ consumer[q].at = "nacking" => Hopeless(consumer[q].held.id)
    /\ consumer[q].subscribed => channel = "open"

Mails ==
    /\ ready \in [Queues -> Seq(Message)] /\ \A q \in Queues : ready[q] \in Seq(Mail(q))
    /\ unacked \in [Queues -> Seq(Message)] /\ \A q \in Queues : unacked[q] \in Seq(Mail(q))
    /\ inbox \in [Queues -> Seq(Message)] /\ \A q \in Queues : inbox[q] \in Seq(Mail(q))
    /\ wire \in Seq(Frames)

Watching ==
    /\ channel \in {"open", "closed", "nil"}
    /\ watcher \in [at : {"watching", "dialling", "abandoned", "none"}, dials : 0 .. MaxDials - 1]
    /\ watcher.at = "dialling" => channel # "open"

Consuming ==
    /\ starting \subseteq Queues
    /\ consumer \in [Queues -> Consumer]
    /\ \A q \in Queues : HeldWell(q)

Observing ==
    /\ dead \subseteq accepted /\ \A id \in dead : Hopeless(id)
    /\ redelivered \subseteq accepted /\ accepted \subseteq submitted /\ submitted \subseteq Msgs
    /\ effects \in [Msgs -> Nat] /\ failures \in [Msgs -> Nat]
    /\ \A id \in Msgs \ accepted : effects[id] = 0 /\ failures[id] = 0
    /\ drops \in 0 .. MaxDrops /\ outage \in 0 .. MaxOutage

TypeInv == Mails /\ Watching /\ Consuming /\ Observing

\* What messages say of the past stays true.
Onward ==
    /\ submitted \subseteq submitted' /\ accepted \subseteq accepted'
    /\ \A id \in Msgs : failures[id] <= failures'[id]
    /\ failures' \in [Msgs -> Nat]

LEMMA Lasting ==
    ASSUME Observing, Onward
    PROVE  /\ \A q \in Queues : Mail(q) \subseteq Mail(q)'
           /\ \A id \in Msgs : Hopeless(id) => Hopeless(id)'
           /\ Frames \subseteq Frames'
           /\ \A q \in Queues : \A s \in Seq(Mail(q)) : s \in Seq(Mail(q)')
           /\ \A s \in Seq(Frames) : s \in Seq(Frames')
<1>1. \A m \in Message : m.id \in Msgs /\ m.retry \in Nat
  BY DEF Message, RetryLimit
<1>2. \A id \in Msgs : failures[id] \in Nat /\ failures'[id] \in Nat
  BY DEF Observing, Onward
<1>3. \A m \in Message : m.retry <= failures[m.id] => m.retry <= failures'[m.id]
  BY <1>1, <1>2 DEF Onward
<1>4. \A q : Mail(q) \subseteq Mail(q)'
  BY <1>3 DEF Mail, Onward
<1>5. \A id \in Msgs : Hopeless(id) => Hopeless(id)'
  BY <1>2 DEF Hopeless, Onward, RetryLimit
<1>6. Frames \subseteq Frames'
  <2> SUFFICES ASSUME NEW f \in Frame, Mailed(f) PROVE Mailed(f)'
    BY DEF Frames
  <2>1. f.msg \in Message /\ f.msg.id \in Msgs
    BY <1>1 DEF Frame
  <2>2. QED
    BY <1>3, <1>4, <1>5, <2>1 DEF Mailed, Onward
<1>7. ASSUME NEW S, NEW T, S \subseteq T, NEW s \in Seq(S) PROVE s \in Seq(T)
  BY <1>7
<1>8. QED
  BY <1>4, <1>5, <1>6, <1>7

LEMMA MQTypeParts == TypeInv => MQTypeOK
<1> SUFFICES ASSUME TypeInv PROVE MQTypeOK
  OBVIOUS
<1>1. wire \in Seq(Frame)
  BY DEF TypeInv, Mails, Frames
<1>2. QED
  BY <1>1 DEF TypeInv, Mails, Watching, Consuming, Observing, MQTypeOK

-----------------------------------------------------------------------------
(***************************************************************************)
(* What the steps are made of.                                             *)
(***************************************************************************)
LEMMA MessageValues ==
    /\ \A id \in Msgs : [id |-> id, retry |-> 0] \in Message
    /\ \A m \in Message :
        /\ m.id \in Msgs /\ m.retry \in 0 .. 2
        /\ \A op \in {"publish", "ack", "nack"} :
              /\ [op |-> op, msg |-> m] \in Frame
              /\ [op |-> op, msg |-> m].op = op /\ [op |-> op, msg |-> m].msg = m
  BY DEF Message, Frame, RetryLimit

\* The message of the next attempt.
Again(m) == [m EXCEPT !.retry = @ + 1]

LEMMA RetriedValues ==
    ASSUME NEW m \in Message, MayRetry(m)
    PROVE  Again(m) \in Message /\ Again(m).id = m.id /\ Again(m).retry = m.retry + 1
  BY DEF Message, MayRetry, RetryLimit, Again

\* Consumer q goes on; the others stay.
Turns(q, at, held) ==
    /\ consumer' \in [Queues -> Consumer]
    /\ consumer'[q].at = at /\ consumer'[q].held = held
    /\ consumer'[q].subscribed = consumer[q].subscribed
    /\ \A p \in Queues \ {q} : consumer'[p] = consumer[p]

Points == {"absent", "receiving", "handling", "retrying", "acking", "nacking",
           "sleeping", "stopped"}

LEMMA ConsumerTurns ==
    ASSUME consumer \in [Queues -> Consumer], NEW q \in Queues, NEW at \in Points,
           NEW held \in Message \cup {NoMessage},
           consumer' = [consumer EXCEPT ![q].at = at, ![q].held = held]
    PROVE  Turns(q, at, held)
<1> DEFINE v == [consumer[q] EXCEPT !.at = at, !.held = held]
<1>1. consumer[q] \in Consumer
  OBVIOUS
<1>2. /\ v \in Consumer /\ v.at = at /\ v.held = held
      /\ v.subscribed = consumer[q].subscribed
  BY <1>1 DEF Consumer, Points
<1>3. consumer' = [consumer EXCEPT ![q] = v]
  OBVIOUS
<1> HIDE DEF v
<1>4. QED
  BY <1>2, <1>3 DEF Turns

LEMMA ConsumerTakes ==
    ASSUME consumer \in [Queues -> Consumer], NEW q \in Queues, NEW at \in Points,
           NEW held \in Message \cup {NoMessage},
           consumer' = [consumer EXCEPT ![q].held = held, ![q].at = at]
    PROVE  Turns(q, at, held)
<1> DEFINE v == [consumer[q] EXCEPT !.held = held, !.at = at]
<1>1. consumer[q] \in Consumer
  OBVIOUS
<1>2. /\ v \in Consumer /\ v.at = at /\ v.held = held
      /\ v.subscribed = consumer[q].subscribed
  BY <1>1 DEF Consumer, Points
<1>3. consumer' = [consumer EXCEPT ![q] = v]
  OBVIOUS
<1> HIDE DEF v
<1>4. QED
  BY <1>2, <1>3 DEF Turns

LEMMA ConsumerGoes ==
    ASSUME consumer \in [Queues -> Consumer], NEW q \in Queues, NEW at \in Points,
           consumer' = [consumer EXCEPT ![q].at = at]
    PROVE  Turns(q, at, consumer[q].held)
<1> DEFINE v == [consumer[q] EXCEPT !.at = at]
<1>1. consumer[q] \in Consumer
  OBVIOUS
<1>2. /\ v \in Consumer /\ v.at = at /\ v.held = consumer[q].held
      /\ v.subscribed = consumer[q].subscribed
  BY <1>1 DEF Consumer, Points
<1>3. consumer' = [consumer EXCEPT ![q] = v]
  OBVIOUS
<1> HIDE DEF v
<1>4. QED
  BY <1>2, <1>3 DEF Turns

LEMMA ConsumerValues ==
    /\ Receiving \in Consumer /\ Receiving.at = "receiving" /\ Receiving.subscribed
    /\ Absent \in Consumer /\ Absent.at = "absent" /\ ~Absent.subscribed
    /\ [Absent EXCEPT !.at = "stopped"] \in Consumer
    /\ [Absent EXCEPT !.at = "stopped"].at = "stopped"
    /\ ~[Absent EXCEPT !.at = "stopped"].subscribed
    /\ \A c \in Consumer : /\ [c EXCEPT !.subscribed = FALSE] \in Consumer
                           /\ [c EXCEPT !.subscribed = FALSE].at = c.at
                           /\ [c EXCEPT !.subscribed = FALSE].held = c.held
                           /\ ~[c EXCEPT !.subscribed = FALSE].subscribed
  BY DEF Receiving, Absent, Consumer, NoMessage

\* A queue is put in place of another one.
LEMMA QueueSet ==
    ASSUME NEW f \in [Queues -> Seq(Message)], NEW q \in Queues, NEW v \in Seq(Message)
    PROVE  /\ [f EXCEPT ![q] = v] \in [Queues -> Seq(Message)]
           /\ [f EXCEPT ![q] = v][q] = v
           /\ \A p \in Queues \ {q} : [f EXCEPT ![q] = v][p] = f[p]
  OBVIOUS

LEMMA MailTyped ==
    /\ \A q : Mail(q) \subseteq Message
    /\ \A q : \A s \in Seq(Mail(q)) : s \in Seq(Message)
    /\ \A q : \A m \in Mail(q) : m.id \in Msgs /\ m.retry \in Nat
<1>1. \A m \in Message : m.id \in Msgs /\ m.retry \in Nat
  BY DEF Message, RetryLimit
<1>2. \A q : Mail(q) \subseteq Message
  BY DEF Mail
<1>3. QED
  BY <1>1, <1>2

\* What holds of the consumers goes on to hold of those that do not move.
LEMMA ConsumersStay ==
    ASSUME TypeInv, Onward, channel' = channel \/ channel # "open"
    PROVE  \A q \in Queues : consumer'[q] = consumer[q] => HeldWell(q)'
<1> SUFFICES ASSUME NEW q \in Queues, consumer'[q] = consumer[q] PROVE HeldWell(q)'
  OBVIOUS
<1>1. Observing /\ HeldWell(q)
  BY DEF TypeInv, Consuming
<1>2. Mail(q) \subseteq Mail(q)' /\ \A id \in Msgs : Hopeless(id) => Hopeless(id)'
  BY <1>1, Lasting
<1>3. \A m \in Mail(q) : m.id \in Msgs /\ m.retry \in Nat
  BY MailTyped
<1>4. \A id \in Msgs : failures[id] \in Nat /\ failures'[id] \in Nat /\ failures[id] <= failures'[id]
  BY DEF TypeInv, Observing, Onward
<1>5. consumer[q].at \in Holding => consumer[q].held \in Mail(q)'
  BY <1>1, <1>2 DEF HeldWell
<1>6. consumer[q].at = "retrying" =>
          MayRetry(consumer[q].held) /\ consumer[q].held.retry < failures'[consumer[q].held.id]
  <2> SUFFICES ASSUME consumer[q].at = "retrying"
               PROVE  /\ MayRetry(consumer[q].held)
                      /\ consumer[q].held.retry < failures'[consumer[q].held.id]
    OBVIOUS
  <2> DEFINE m == consumer[q].held
  <2>1. m \in Mail(q) /\ MayRetry(m) /\ m.retry < failures[m.id]
    BY <1>1 DEF HeldWell, Holding
  <2> HIDE DEF m
  <2>2. m.retry < failures'[m.id]
    BY <1>3, <1>4, <2>1
  <2>3. QED
    BY <2>1, <2>2 DEF m
<1>7. consumer[q].at = "nacking" => Hopeless(consumer[q].held.id)'
  BY <1>1, <1>2, <1>3 DEF HeldWell, Holding
<1>8. consumer[q].subscribed => channel' = "open"
  BY <1>1 DEF HeldWell
<1>9. QED
  BY <1>5, <1>6, <1>7, <1>8 DEF HeldWell

\* What holds of the queues goes on to hold of those that do not change.
LEMMA MailsStay ==
    ASSUME TypeInv, Onward
    PROVE  /\ \A q \in Queues : /\ ready[q] \in Seq(Mail(q)')
                                /\ unacked[q] \in Seq(Mail(q)')
                                /\ inbox[q] \in Seq(Mail(q)')
           /\ wire \in Seq(Frames')
           /\ UNCHANGED <<ready, unacked, inbox, wire>> => Mails'
<1>1. /\ \A q \in Queues : /\ ready[q] \in Seq(Mail(q)')
                           /\ unacked[q] \in Seq(Mail(q)')
                           /\ inbox[q] \in Seq(Mail(q)')
      /\ wire \in Seq(Frames')
  BY Lasting DEF TypeInv, Mails
<1>2. UNCHANGED <<ready, unacked, inbox, wire>> => Mails'
  BY <1>1 DEF TypeInv, Mails
<1>3. QED
  BY <1>1, <1>2

LEMMA Still ==
    ASSUME TypeInv, UNCHANGED <<submitted, accepted, failures>>
    PROVE  /\ Onward
           /\ \A q : Mail(q)' = Mail(q)
           /\ Frames' = Frames
           /\ \A id : Hopeless(id)' <=> Hopeless(id)
<1>1. Onward
  BY DEF TypeInv, Observing, Onward
<1>2. QED
  BY <1>1 DEF Mail, Frames, Mailed, Hopeless

LEMMA SubmitTypes == ASSUME TypeInv, NEW id \in Msgs, Submit(id) PROVE TypeInv'
<1> DEFINE f == [op |-> "publish", msg |-> [id |-> id, retry |-> 0]]
<1>1. /\ wire' = Append(wire, f) /\ submitted' = submitted \cup {id}
      /\ UNCHANGED <<broker, inbox, process, accepted, effects, failures, redelivered,
                     drops, outage>>
  BY DEF Submit, Publish
<1>2. Onward
  BY <1>1 DEF Onward, TypeInv, Observing
<1>3. f \in Frames'
  <2>1. f \in Frame /\ f.op = "publish" /\ f.msg.id = id /\ f.msg.retry = 0
    BY MessageValues
  <2>2. failures[id] \in Nat
    BY DEF TypeInv, Observing
  <2>3. Mailed(f)'
    BY <1>1, <2>1, <2>2 DEF Mailed
  <2>4. QED
    BY <2>1, <2>3 DEF Frames
<1> HIDE DEF f
<1>4. Mails'
  BY <1>1, <1>2, <1>3, MailsStay DEF TypeInv, Mails, broker
<1>5. Watching' /\ Consuming'
  BY <1>1, <1>2, ConsumersStay DEF TypeInv, Watching, Consuming, process
<1>6. Observing'
  BY <1>1 DEF TypeInv, Observing, broker, Hopeless
<1>7. QED
  BY <1>4, <1>5, <1>6 DEF TypeInv

\* Consumer q moves, and nothing else.
LEMMA TurnTypes ==
    ASSUME TypeInv, NEW q \in Queues, NEW at, NEW held, Turns(q, at, held), Onward,
           channel' = channel,
           at \in Holding => held \in Mail(q)',
           at = "retrying" => MayRetry(held) /\ held.retry < failures'[held.id],
           at = "nacking" => Hopeless(held.id)',
           starting' = starting
    PROVE  Consuming'
<1>1. HeldWell(q)'
  BY DEF Turns, HeldWell, TypeInv, Consuming
<1>2. \A p \in Queues \ {q} : HeldWell(p)'
  BY ConsumersStay DEF Turns
<1>3. QED
  BY <1>1, <1>2 DEF Turns, TypeInv, Consuming

LEMMA StartTypes == ASSUME TypeInv, NEW q \in Queues, Start(q) PROVE TypeInv'
<1>1. UNCHANGED <<broker, wire, inbox, channel, watcher, mqObservers>>
  BY DEF Start
<1>2. Onward
  BY <1>1, Still DEF mqObservers
<1>3. Mails' /\ Watching'
  BY <1>1, <1>2, MailsStay DEF TypeInv, Watching, broker
<1>4. Observing'
  BY <1>1 DEF TypeInv, Observing, Hopeless, broker, mqObservers
<1>5. starting' \subseteq Queues
  BY DEF Start, TypeInv, Consuming
<1>6. CASE channel = "open" /\ consumer' = [consumer EXCEPT ![q] = Receiving]
  <2>1. /\ consumer' \in [Queues -> Consumer] /\ consumer'[q] = Receiving
        /\ \A p \in Queues \ {q} : consumer'[p] = consumer[p]
    BY <1>6, ConsumerValues DEF TypeInv, Consuming
  <2>2. HeldWell(q)'
    BY <1>1, <1>6, <2>1, ConsumerValues DEF HeldWell, Holding
  <2>3. QED
    BY <1>1, <1>2, <1>3, <1>4, <1>5, <2>1, <2>2, ConsumersStay DEF TypeInv, Consuming
<1>7. CASE consumer' = consumer
  BY <1>1, <1>2, <1>3, <1>4, <1>5, <1>7, ConsumersStay DEF TypeInv, Consuming
<1>8. QED
  BY <1>6, <1>7 DEF Start

LEMMA ReadTypes == ASSUME MQAssumption, TypeInv, BrokerReads PROVE TypeInv'
<1>0. wire # <<>> /\ wire' = Tail(wire) /\ Tail(wire) \in Seq(Frames) /\ Head(wire) \in Frames
  BY Behead DEF BrokerReads, TypeInv, Mails
<1>1. PICK f \in Frame : f = Head(wire) /\ Mailed(f)
  BY <1>0 DEF Frames
<1>m. PICK m \in Message : m = f.msg
  BY DEF Frame
<1>q. PICK q \in Queues : q = QueueOf[m.id]
  BY MessageValues DEF MQAssumption
<1>2. /\ ready' = IF f.op = "publish" THEN [ready EXCEPT ![q] = Append(ready[q], m)] ELSE ready
      /\ accepted' = IF f.op = "publish" THEN accepted \cup {m.id} ELSE accepted
      /\ unacked' = IF f.op = "publish" THEN unacked
                    ELSE [unacked EXCEPT ![q] = RemoveFirst(unacked[q], m)]
      /\ dead' = IF f.op = "nack" THEN dead \cup {m.id} ELSE dead
      /\ UNCHANGED <<inbox, process, submitted, effects, failures, redelivered, drops, outage>>
  BY <1>1, <1>m, <1>q DEF BrokerReads
<1>3. f.op \in {"publish", "ack", "nack"} /\ m.id \in Msgs
  BY MessageValues DEF Frame
<1>4. /\ f.op = "publish" => m.id \in submitted /\ m.retry <= failures[m.id]
      /\ f.op # "publish" => m \in Mail(q)
      /\ f.op = "nack" => Hopeless(m.id)
  BY <1>1, <1>m, <1>q, <1>3 DEF Mailed
<1>5. Onward
  BY <1>2 DEF Onward, TypeInv, Observing
<1>6. Mails'
  <2>1. wire' \in Seq(Frames')
    BY <1>0, <1>5, Lasting DEF TypeInv
  <2>2. ASSUME f.op = "publish" PROVE Mails'
    <3>1. m \in Mail(q)'
      BY <1>2, <1>3, <1>4, <1>q, <2>2 DEF Mail
    <3>2. Append(ready[q], m) \in Seq(Mail(q)') /\ Append(ready[q], m) \in Seq(Message)
      BY <1>3, <1>5, <3>1, MailsStay, Appended DEF TypeInv, Mails
    <3>3. /\ ready' \in [Queues -> Seq(Message)] /\ ready'[q] \in Seq(Mail(q)')
          /\ \A p \in Queues \ {q} : ready'[p] = ready[p]
      BY <1>2, <1>3, <2>2, <3>2, QueueSet DEF TypeInv, Mails
    <3>4. QED
      BY <1>2, <1>5, <2>1, <2>2, <3>3, MailsStay DEF TypeInv, Mails
  <2>3. ASSUME f.op # "publish" PROVE Mails'
    <3>1. unacked[q] \in Seq(Mail(q)') /\ unacked[q] \in Seq(Message)
      BY <1>3, <1>5, MailsStay DEF TypeInv, Mails
    <3>2. RemoveFirst(unacked[q], m) \in Seq(Mail(q)') /\ RemoveFirst(unacked[q], m) \in Seq(Message)
      BY <3>1, Removed
    <3>3. /\ unacked' \in [Queues -> Seq(Message)] /\ unacked'[q] \in Seq(Mail(q)')
          /\ \A p \in Queues \ {q} : unacked'[p] = unacked[p]
      BY <1>2, <1>3, <2>3, <3>2, QueueSet DEF TypeInv, Mails
    <3>4. QED
      BY <1>2, <1>5, <2>1, <2>3, <3>3, MailsStay DEF TypeInv, Mails
  <2>4. QED
    BY <2>2, <2>3
<1>7. Watching' /\ Consuming'
  BY <1>2, <1>5, ConsumersStay DEF TypeInv, Watching, Consuming, process
<1>8. Observing'
  <2>1. \A id : Hopeless(id)' <=> Hopeless(id)
    BY <1>2 DEF Hopeless
  <2>2. m \in Mail(q) => m.id \in accepted
    BY DEF Mail
  <2>3. QED
    BY <1>2, <1>3, <1>4, <2>1, <2>2 DEF TypeInv, Observing
<1>9. QED
  BY <1>6, <1>7, <1>8 DEF TypeInv

LEMMA DeliverTypes == ASSUME TypeInv, NEW q \in Queues, Deliver(q) PROVE TypeInv'
<1> DEFINE m == Head(ready[q])
<1>1. /\ ready[q] # <<>>
      /\ unacked' = [unacked EXCEPT ![q] = Append(unacked[q], m)]
      /\ inbox' = [inbox EXCEPT ![q] = Append(inbox[q], m)]
      /\ ready' = [ready EXCEPT ![q] = Tail(ready[q])]
      /\ UNCHANGED <<dead, wire, process, mqObservers>>
  BY DEF Deliver
<1>2. Onward /\ Mail(q)' = Mail(q)
  BY <1>1, Still DEF mqObservers
<1>3. /\ m \in Mail(q) /\ m \in Message /\ Tail(ready[q]) \in Seq(Mail(q))
      /\ Tail(ready[q]) \in Seq(Message)
  BY <1>1, Behead, MailTyped DEF TypeInv, Mails
<1> HIDE DEF m
<1>4. /\ Append(unacked[q], m) \in Seq(Mail(q)) /\ Append(unacked[q], m) \in Seq(Message)
      /\ Append(inbox[q], m) \in Seq(Mail(q)) /\ Append(inbox[q], m) \in Seq(Message)
  BY <1>3, Appended DEF TypeInv, Mails
<1>5. /\ \A p \in Queues \ {q} : /\ ready'[p] = ready[p] /\ unacked'[p] = unacked[p]
                                 /\ inbox'[p] = inbox[p]
      /\ ready' \in [Queues -> Seq(Message)] /\ ready'[q] \in Seq(Mail(q))
      /\ unacked' \in [Queues -> Seq(Message)] /\ unacked'[q] \in Seq(Mail(q))
      /\ inbox' \in [Queues -> Seq(Message)] /\ inbox'[q] \in Seq(Mail(q))
  BY <1>1, <1>3, <1>4, QueueSet DEF TypeInv, Mails
<1>6. Mails'
  BY <1>1, <1>2, <1>5, MailsStay DEF TypeInv, Mails
<1>7. Watching' /\ Consuming'
  BY <1>1, <1>2, ConsumersStay DEF TypeInv, Watching, Consuming, process
<1>8. Observing'
  BY <1>1 DEF TypeInv, Observing, Hopeless, mqObservers
<1>9. QED
  BY <1>6, <1>7, <1>8 DEF TypeInv

\* What the end of a connection leaves of the queues.
LEMMA DisconnectTypes ==
    ASSUME MQAssumption, TypeInv, Disconnect
    PROVE  /\ ready' \in [Queues -> Seq(Message)] /\ unacked' \in [Queues -> Seq(Message)]
           /\ \A q \in Queues : ready'[q] \in Seq(Mail(q)') /\ unacked'[q] = <<>>
           /\ Onward /\ Observing'
           /\ wire' = <<>>
<1>1. /\ ready' = [q \in Queues |-> unacked[q] \o ready[q]]
      /\ unacked' = [q \in Queues |-> <<>>] /\ wire' = <<>>
      /\ drops < MaxDrops /\ drops' = drops + 1
      /\ redelivered' = redelivered \cup UNION {{m.id : m \in ToSet(unacked[q])} : q \in Queues}
      /\ UNCHANGED <<dead, submitted, accepted, effects, failures, outage>>
  BY DEF Disconnect
<1>2. Onward /\ (\A q : Mail(q)' = Mail(q)) /\ (\A id : Hopeless(id)' <=> Hopeless(id))
  BY <1>1, Still
<1>3. \A q \in Queues : /\ unacked[q] \o ready[q] \in Seq(Mail(q))
                        /\ unacked[q] \o ready[q] \in Seq(Message)
  BY Joined DEF TypeInv, Mails
<1>4. /\ ready' \in [Queues -> Seq(Message)] /\ unacked' \in [Queues -> Seq(Message)]
      /\ \A q \in Queues : ready'[q] \in Seq(Mail(q)') /\ unacked'[q] = <<>>
  BY <1>1, <1>2, <1>3
<1>5. \A q \in Queues : ToSet(unacked[q]) \subseteq Mail(q)
  BY Elements DEF TypeInv, Mails
<1>6. \A q \in Queues : {m.id : m \in ToSet(unacked[q])} \subseteq accepted
  BY <1>5 DEF Mail
<1>7. redelivered' \subseteq accepted
  BY <1>1, <1>6 DEF TypeInv, Observing
<1>8. drops' \in 0 .. MaxDrops
  BY <1>1 DEF TypeInv, Observing, MQAssumption
<1>9. Observing'
  BY <1>1, <1>2, <1>7, <1>8 DEF TypeInv, Observing
<1>10. QED
  BY <1>1, <1>2, <1>4, <1>9

LEMMA DropTypes == ASSUME MQAssumption, TypeInv, Drop PROVE TypeInv'
<1>1. /\ channel' = "closed" /\ UNCHANGED <<inbox, watcher, starting>> /\ Disconnect
      /\ consumer' = [q \in Queues |-> [consumer[q] EXCEPT !.subscribed = FALSE]]
      /\ channel = "open"
  BY DEF Drop
<1>2. /\ Onward /\ Observing' /\ wire' \in Seq(Frames')
      /\ ready' \in [Queues -> Seq(Message)] /\ unacked' \in [Queues -> Seq(Message)]
      /\ \A q \in Queues : ready'[q] \in Seq(Mail(q)') /\ unacked'[q] = <<>>
  BY <1>1, DisconnectTypes, Empty
<1>3. Mails'
  BY <1>1, <1>2, MailsStay, Empty DEF TypeInv, Mails
<1>4. Watching'
  BY <1>1 DEF TypeInv, Watching
<1>5. Consuming'
  <2>1. \A q \in Queues : consumer[q] \in Consumer
    BY DEF TypeInv, Consuming
  <2>2. /\ consumer' \in [Queues -> Consumer]
        /\ \A q \in Queues : /\ consumer'[q].at = consumer[q].at
                             /\ consumer'[q].held = consumer[q].held
                             /\ ~consumer'[q].subscribed
    BY <1>1, <2>1, ConsumerValues
  <2>3. UNCHANGED <<accepted, failures, submitted>>
    BY <1>1 DEF Disconnect
  <2>4. (\A q : Mail(q)' = Mail(q)) /\ (\A id : Hopeless(id)' <=> Hopeless(id))
    BY <2>3, Still
  <2>5. \A q \in Queues : HeldWell(q)'
    BY <2>2, <2>3, <2>4 DEF TypeInv, Consuming, HeldWell
  <2>6. QED
    BY <1>1, <2>2, <2>5 DEF TypeInv, Consuming
<1>6. QED
  BY <1>2, <1>3, <1>4, <1>5 DEF TypeInv

LEMMA RestartTypes == ASSUME MQAssumption, TypeInv, Restart PROVE TypeInv'
<1>1. /\ Disconnect /\ inbox' = [q \in Queues |-> <<>>]
      /\ consumer' = [q \in Queues |-> Absent]
  BY DEF Restart
<1>2. /\ Onward /\ Observing' /\ wire' \in Seq(Frames')
      /\ ready' \in [Queues -> Seq(Message)] /\ unacked' \in [Queues -> Seq(Message)]
      /\ \A q \in Queues : ready'[q] \in Seq(Mail(q)') /\ unacked'[q] = <<>>
  BY <1>1, DisconnectTypes, Empty
<1>3. Mails'
  <2>1. inbox' \in [Queues -> Seq(Message)] /\ \A q \in Queues : inbox'[q] = <<>>
    BY <1>1
  <2>2. QED
    BY <1>2, <2>1, Empty DEF Mails
<1>4. starting' \subseteq Queues /\ Watching'
  <2>1. [at |-> "watching", dials |-> 0] \in
            [at : {"watching", "dialling", "abandoned", "none"}, dials : 0 .. MaxDials - 1]
        /\ [at |-> "none", dials |-> 0] \in
            [at : {"watching", "dialling", "abandoned", "none"}, dials : 0 .. MaxDials - 1]
    BY DEF MQAssumption
  <2>2. CASE WithClient(channel', watcher', starting')
    BY <2>1, <2>2 DEF WithClient, Watching
  <2>3. CASE WithoutClient(channel', watcher', starting')
    BY <2>1, <2>3 DEF WithoutClient, Watching
  <2>4. QED
    BY <2>2, <2>3 DEF Restart
<1>5. Consuming'
  BY <1>1, <1>4, ConsumerValues DEF Consuming, HeldWell, Holding
<1>6. QED
  BY <1>2, <1>3, <1>4, <1>5 DEF TypeInv

LEMMA WatcherTypes == ASSUME MQAssumption, TypeInv, WatcherStep PROVE TypeInv'
<1>1. /\ UNCHANGED <<broker, wire, inbox, starting, consumer, submitted, accepted, effects,
                     failures, redelivered, drops>>
      /\ outage' \in 0 .. MaxOutage
  BY DEF WatcherStep, NoticeClosed, Reconnect, DialFails, mqObservers, TypeInv, Observing,
         MQAssumption
<1>2. Onward
  BY <1>1, Still
<1>3. Mails'
  BY <1>1, <1>2, MailsStay DEF broker
<1>4. Observing'
  BY <1>1 DEF TypeInv, Observing, Hopeless, broker
<1>5. (channel' = channel \/ channel # "open") /\ Watching'
  <2> DEFINE W == [at : {"watching", "dialling", "abandoned", "none"}, dials : 0 .. MaxDials - 1]
  <2>0. channel \in {"open", "closed", "nil"} /\ watcher \in W
        /\ (watcher.at = "dialling" => channel # "open") /\ MaxDials \in Nat \ {0}
    BY DEF TypeInv, Watching, MQAssumption
  <2>1. CASE NoticeClosed
    BY <2>0, <2>1 DEF NoticeClosed, Watching
  <2>2. CASE Reconnect
    BY <2>0, <2>2 DEF Reconnect, Watching
  <2>3. ASSUME NEW stage \in {"dial", "channel"}, DialFails(stage)
        PROVE (channel' = channel \/ channel # "open") /\ Watching'
    <3>1. channel # "open" /\ channel' # "open" /\ channel' \in {"closed", "nil"}
      BY <2>0, <2>3 DEF DialFails
    <3>2. watcher' \in W
      <4>1. CASE watcher.dials + 1 < MaxDials
        <5>1. watcher' = [watcher EXCEPT !.dials = watcher.dials + 1]
          BY <2>3, <4>1 DEF DialFails
        <5>2. QED
          BY <2>0, <4>1, <5>1
      <4>2. CASE ~(watcher.dials + 1 < MaxDials)
        BY <2>0, <2>3, <4>2 DEF DialFails
      <4>3. QED
        BY <4>1, <4>2
    <3>3. QED
      BY <3>1, <3>2 DEF Watching
  <2>4. QED
    BY <2>1, <2>2, <2>3 DEF WatcherStep
<1>6. Consuming'
  BY <1>1, <1>2, <1>5, ConsumersStay DEF TypeInv, Consuming
<1>7. QED
  BY <1>3, <1>4, <1>5, <1>6 DEF TypeInv

LEMMA HeldTyped ==
    ASSUME TypeInv, NEW q \in Queues
    PROVE  /\ consumer[q].held \in Message \cup {NoMessage} /\ HeldWell(q)
           /\ consumer[q].at \in Holding =>
                 /\ consumer[q].held \in Message /\ consumer[q].held.id \in Msgs
                 /\ consumer[q].held \in Mail(q)
<1>1. consumer[q] \in Consumer /\ HeldWell(q)
  BY DEF TypeInv, Consuming
<1>2. consumer[q].held \in Message \cup {NoMessage}
  BY <1>1 DEF Consumer
<1>3. QED
  BY <1>1, <1>2, MailTyped DEF HeldWell

LEMMA ReceiveTypes ==
    ASSUME TypeInv, NEW q \in Queues, Receive(q)
    PROVE  /\ TypeInv'
           /\ Head(inbox[q]) \in Message
           /\ Turns(q, IF Head(inbox[q]).id \in Malformed THEN "nacking" ELSE "handling",
                    Head(inbox[q]))
<1>0. inbox[q] # <<>> /\ inbox[q] \in Seq(Mail(q))
  BY DEF Receive, TypeInv, Mails
<1>1. PICK m \in Mail(q) : m = Head(inbox[q])
  BY <1>0, Behead
<1>2. /\ Tail(inbox[q]) \in Seq(Mail(q)) /\ Tail(inbox[q]) \in Seq(Message)
      /\ m \in Message
  BY <1>0, Behead, MailTyped
<1>3. PICK at \in Points : at = IF m.id \in Malformed THEN "nacking" ELSE "handling"
  BY DEF Points
<1>4. /\ consumer' = [consumer EXCEPT ![q].held = m, ![q].at = at]
      /\ inbox' = [inbox EXCEPT ![q] = Tail(inbox[q])]
      /\ UNCHANGED <<broker, wire, channel, watcher, starting, mqObservers>>
  BY <1>1, <1>3 DEF Receive
<1>5. Turns(q, at, m)
  BY <1>2, <1>4, ConsumerTakes DEF TypeInv, Consuming
<1>6. Onward /\ Mail(q)' = Mail(q) /\ (\A id : Hopeless(id)' <=> Hopeless(id))
  BY <1>4, Still DEF mqObservers
<1>7. Mails'
  <2>1. /\ inbox' \in [Queues -> Seq(Message)] /\ inbox'[q] = Tail(inbox[q])
        /\ \A p \in Queues \ {q} : inbox'[p] = inbox[p]
    BY <1>2, <1>4, QueueSet DEF TypeInv, Mails
  <2>2. QED
    BY <1>2, <1>4, <1>6, <2>1, MailsStay DEF TypeInv, Mails, broker
<1>8. Consuming'
  BY <1>3, <1>4, <1>5, <1>6, TurnTypes DEF Hopeless
<1>9. Watching' /\ Observing'
  BY <1>4 DEF TypeInv, Watching, Observing, Hopeless, broker, mqObservers
<1>10. QED
  BY <1>1, <1>2, <1>3, <1>5, <1>7, <1>8, <1>9 DEF TypeInv

LEMMA SucceedTypes ==
    ASSUME TypeInv, NEW q \in Queues, HandlerSucceeds(q)
    PROVE  TypeInv' /\ Turns(q, "acking", consumer[q].held)
<1>1. PICK m \in Message : /\ m = consumer[q].held /\ m.id \in Msgs /\ m.id \in accepted
                           /\ m \in Mail(q)
  BY HeldTyped DEF HandlerSucceeds, Holding, Mail
<1>2. /\ effects' = [effects EXCEPT ![m.id] = effects[m.id] + 1]
      /\ consumer' = [consumer EXCEPT ![q].at = "acking"]
      /\ UNCHANGED <<broker, wire, inbox, channel, watcher, starting, submitted,
                     accepted, failures, redelivered, drops, outage>>
  BY <1>1 DEF HandlerSucceeds
<1>3. Turns(q, "acking", m)
  BY <1>1, <1>2, ConsumerGoes DEF TypeInv, Consuming, Points
<1>4. Onward /\ Mail(q)' = Mail(q) /\ (\A id : Hopeless(id)' <=> Hopeless(id))
  BY <1>2, Still
<1>5. Consuming'
  BY <1>1, <1>2, <1>3, <1>4, TurnTypes
<1>6. Mails' /\ Watching'
  BY <1>2, <1>4, MailsStay DEF TypeInv, Watching, broker
<1>7. Observing'
  BY <1>1, <1>2, <1>4 DEF TypeInv, Observing, broker
<1>8. QED
  BY <1>1, <1>3, <1>5, <1>6, <1>7 DEF TypeInv

LEMMA FailTypes ==
    ASSUME TypeInv, NEW q \in Queues, HandlerFails(q)
    PROVE  /\ TypeInv'
           /\ Turns(q, IF MayRetry(consumer[q].held) THEN "retrying" ELSE "nacking",
                    consumer[q].held)
<1>1. PICK m \in Message : /\ m = consumer[q].held /\ m.id \in Msgs /\ m.id \in accepted
                           /\ m \in Mail(q) /\ m.retry \in Nat /\ m.retry <= failures[m.id]
  BY HeldTyped, MailTyped DEF HandlerFails, Holding, Mail
<1>2. PICK at \in Points : at = IF MayRetry(m) THEN "retrying" ELSE "nacking"
  BY DEF Points
<1>3. /\ failures' = [failures EXCEPT ![m.id] = failures[m.id] + 1]
      /\ consumer' = [consumer EXCEPT ![q].at = at]
      /\ UNCHANGED <<broker, wire, inbox, channel, watcher, starting, submitted,
                     accepted, effects, redelivered, drops, outage>>
  BY <1>1, <1>2 DEF HandlerFails
<1>4. Turns(q, at, m)
  BY <1>1, <1>3, ConsumerGoes DEF TypeInv, Consuming
<1>5. /\ failures \in [Msgs -> Nat] /\ failures' \in [Msgs -> Nat]
      /\ failures'[m.id] = failures[m.id] + 1
      /\ \A id \in Msgs : failures[id] <= failures'[id]
      /\ \A id \in Msgs \ {m.id} : failures[id] = failures'[id]
  BY <1>1, <1>3 DEF TypeInv, Observing
<1>6. Onward
  BY <1>3, <1>5 DEF Onward
<1>7. Consuming'
  <2>1. m \in Mail(q)' /\ m.retry < failures'[m.id]
    BY <1>1, <1>5, <1>6, Lasting DEF TypeInv
  <2>2. ~MayRetry(m) => Hopeless(m.id)'
    BY <1>1, <1>5, <2>1 DEF MayRetry, RetryLimit, Hopeless
  <2>3. QED
    BY <1>2, <1>3, <1>4, <1>6, <2>1, <2>2, TurnTypes
<1>8. Mails' /\ Watching'
  BY <1>3, <1>6, MailsStay DEF TypeInv, Watching, broker
<1>9. Observing'
  <2>1. \A id \in dead : Hopeless(id)'
    BY <1>6, Lasting DEF TypeInv, Observing
  <2>2. QED
    BY <1>1, <1>3, <1>5, <2>1 DEF TypeInv, Observing, broker
<1>10. QED
  BY <1>1, <1>2, <1>4, <1>7, <1>8, <1>9 DEF TypeInv

LEMMA RepublishTypes ==
    ASSUME TypeInv, NEW q \in Queues, Republish(q)
    PROVE  TypeInv' /\ Turns(q, "acking", consumer[q].held)
<1>1. PICK m \in Message : /\ m = consumer[q].held /\ m.id \in Msgs /\ m.id \in accepted
                           /\ m \in Mail(q) /\ m.retry \in Nat
                           /\ MayRetry(m) /\ m.retry < failures[m.id]
  BY HeldTyped, MailTyped DEF Republish, Holding, Mail, HeldWell
<1>2. /\ wire' = IF channel = "open" THEN Append(wire, [op |-> "publish", msg |-> Again(m)])
                 ELSE wire
      /\ consumer' = [consumer EXCEPT ![q].at = "acking"]
      /\ UNCHANGED <<broker, inbox, channel, watcher, starting, mqObservers>>
  BY <1>1 DEF Republish, Publish, Again
<1>3. Turns(q, "acking", m)
  BY <1>1, <1>2, ConsumerGoes DEF TypeInv, Consuming, Points
<1>4. Onward /\ Mail(q)' = Mail(q) /\ Frames' = Frames
  BY <1>2, Still DEF mqObservers
<1>5. Consuming'
  BY <1>1, <1>2, <1>3, <1>4, TurnTypes
<1>6. Mails'
  <2>1. [op |-> "publish", msg |-> Again(m)] \in Frames
    <3>1. Again(m) \in Message /\ Again(m).id = m.id /\ Again(m).retry = m.retry + 1
      BY <1>1, RetriedValues
    <3>2. PICK f \in Frame : /\ f = [op |-> "publish", msg |-> Again(m)]
                             /\ f.op = "publish" /\ f.msg = Again(m)
      BY <3>1, MessageValues
    <3>3. failures[m.id] \in Nat /\ m.id \in submitted
      BY <1>1 DEF TypeInv, Observing
    <3>4. Mailed(f)
      BY <1>1, <3>1, <3>2, <3>3 DEF Mailed
    <3>5. QED
      BY <3>2, <3>4 DEF Frames
  <2>2. wire' \in Seq(Frames)
    BY <1>2, <2>1, Appended DEF TypeInv, Mails
  <2>3. QED
    BY <1>2, <1>4, <2>2, MailsStay DEF TypeInv, Mails, broker
<1>7. Watching' /\ Observing'
  BY <1>2 DEF TypeInv, Watching, Observing, Hopeless, broker, mqObservers
<1>8. QED
  BY <1>1, <1>3, <1>5, <1>6, <1>7 DEF TypeInv

LEMMA AnswerTypes ==
    ASSUME TypeInv, NEW q \in Queues, Answer(q)
    PROVE  /\ TypeInv' /\ Turns(q, "receiving", NoMessage)
           /\ consumer[q].held \in Message
<1>1. PICK m \in Message : /\ m = consumer[q].held /\ m.id \in Msgs /\ m.id \in accepted
                           /\ m \in Mail(q) /\ QueueOf[m.id] = q
                           /\ consumer[q].at = "nacking" => Hopeless(m.id)
  BY HeldTyped, MailTyped DEF Answer, Holding, Mail, HeldWell
<1>2. PICK op \in {"ack", "nack"} : op = IF consumer[q].at = "acking" THEN "ack" ELSE "nack"
  OBVIOUS
<1>3. /\ wire' = IF consumer[q].subscribed THEN Append(wire, [op |-> op, msg |-> m]) ELSE wire
      /\ consumer' = [consumer EXCEPT ![q].at = "receiving", ![q].held = NoMessage]
      /\ UNCHANGED <<broker, inbox, channel, watcher, starting, mqObservers>>
      /\ consumer[q].at \in {"acking", "nacking"}
  BY <1>1, <1>2 DEF Answer
<1>4. Turns(q, "receiving", NoMessage)
  BY <1>3, ConsumerTurns DEF TypeInv, Consuming, Points
<1>5. Onward /\ Mail(q)' = Mail(q) /\ Frames' = Frames
  BY <1>3, Still DEF mqObservers
<1>6. Consuming'
  BY <1>3, <1>4, <1>5, TurnTypes DEF Holding
<1>7. Mails'
  <2>1. [op |-> op, msg |-> m] \in Frames
    <3>1. PICK f \in Frame : f = [op |-> op, msg |-> m] /\ f.op = op /\ f.msg = m
      BY MessageValues
    <3>2. Mailed(f)
      BY <1>1, <1>2, <1>3, <3>1 DEF Mailed
    <3>3. QED
      BY <3>1, <3>2 DEF Frames
  <2>2. wire' \in Seq(Frames)
    BY <1>3, <2>1, Appended DEF TypeInv, Mails
  <2>3. QED
    BY <1>3, <1>5, <2>2, MailsStay DEF TypeInv, Mails, broker
<1>8. Watching' /\ Observing'
  BY <1>3 DEF TypeInv, Watching, Observing, Hopeless, broker, mqObservers
<1>9. QED
  BY <1>1, <1>4, <1>6, <1>7, <1>8 DEF TypeInv

LEMMA ClosedTypes ==
    ASSUME TypeInv, NEW q \in Queues, SeeClosed(q)
    PROVE  TypeInv' /\ Turns(q, "sleeping", consumer[q].held)
<1>1. /\ consumer' = [consumer EXCEPT ![q].at = "sleeping"]
      /\ inbox' = [inbox EXCEPT ![q] = <<>>]
      /\ UNCHANGED <<broker, wire, channel, watcher, starting, mqObservers>>
  BY DEF SeeClosed
<1>2. Turns(q, "sleeping", consumer[q].held)
  BY <1>1, ConsumerGoes DEF TypeInv, Consuming, Points
<1>3. Onward
  BY <1>1, Still DEF mqObservers
<1>4. Consuming'
  BY <1>1, <1>2, <1>3, TurnTypes DEF Holding
<1>5. Mails'
  <2>1. /\ inbox' \in [Queues -> Seq(Message)] /\ inbox'[q] = <<>>
        /\ \A p \in Queues \ {q} : inbox'[p] = inbox[p]
    BY <1>1, Empty, QueueSet DEF TypeInv, Mails
  <2>2. QED
    BY <1>1, <1>3, <2>1, Empty, MailsStay DEF TypeInv, Mails, broker
<1>6. Watching' /\ Observing'
  BY <1>1 DEF TypeInv, Watching, Observing, Hopeless, broker, mqObservers
<1>7. QED
  BY <1>2, <1>4, <1>5, <1>6 DEF TypeInv

LEMMA ResubscribeTypes == ASSUME TypeInv, NEW q \in Queues, Resubscribe(q) PROVE TypeInv'
<1>1. UNCHANGED <<broker, wire, inbox, channel, watcher, starting, mqObservers>>
  BY DEF Resubscribe
<1>2. Onward
  BY <1>1, Still DEF mqObservers
<1>3. PICK c \in Consumer : /\ consumer' = [consumer EXCEPT ![q] = c]
                            /\ c.at \notin Holding /\ (c.subscribed => channel = "open")
  BY ConsumerValues DEF Resubscribe, Holding
<1>4. /\ consumer' \in [Queues -> Consumer] /\ consumer'[q] = c
      /\ \A p \in Queues \ {q} : consumer'[p] = consumer[p]
  BY <1>3 DEF TypeInv, Consuming
<1>5. HeldWell(q)'
  BY <1>1, <1>3, <1>4 DEF HeldWell, Holding
<1>6. Consuming'
  BY <1>1, <1>2, <1>4, <1>5, ConsumersStay DEF TypeInv, Consuming
<1>7. Mails' /\ Watching' /\ Observing'
  BY <1>1, <1>2, MailsStay DEF TypeInv, Watching, Observing, Hopeless, broker, mqObservers
<1>8. QED
  BY <1>6, <1>7 DEF TypeInv

LEMMA InitTypes == ASSUME MQAssumption PROVE MQInit => TypeInv
<1> SUFFICES ASSUME MQInit PROVE TypeInv
  OBVIOUS
<1>1. Mails
  BY Empty DEF MQInit, Mails
<1>2. Consuming
  <2>1. starting \subseteq Queues
    BY DEF MQInit, WithClient, WithoutClient
  <2>2. QED
    BY <2>1, ConsumerValues DEF MQInit, Consuming, HeldWell, Holding
<1>3. Watching
  <2>1. CASE WithClient(channel, watcher, starting)
    BY <2>1 DEF WithClient, Watching, MQAssumption
  <2>2. CASE WithoutClient(channel, watcher, starting)
    BY <2>2 DEF WithoutClient, Watching, MQAssumption
  <2>3. QED
    BY <2>1, <2>2 DEF MQInit
<1>4. Observing
  BY DEF MQInit, Observing, MQAssumption
<1>5. QED
  BY <1>1, <1>2, <1>3, <1>4 DEF TypeInv

LEMMA StepTypes == ASSUME MQAssumption PROVE TypeInv /\ [MQNext]_mqVars => TypeInv'
<1> SUFFICES ASSUME TypeInv, [MQNext]_mqVars PROVE TypeInv'
  OBVIOUS
<1>1. CASE MQNext
  BY <1>1, SubmitTypes, DeliverTypes, StartTypes, ReceiveTypes, SucceedTypes, FailTypes,
     RepublishTypes, AnswerTypes, ClosedTypes, ResubscribeTypes, WatcherTypes, ReadTypes,
     DropTypes, RestartTypes DEF MQNext, ConsumerStep
<1>2. CASE UNCHANGED mqVars
  <2>1. UNCHANGED <<broker, wire, inbox, channel, watcher, starting, consumer, mqObservers>>
    BY <1>2 DEF mqVars, process
  <2>2. Onward
    BY <2>1, Still DEF mqObservers
  <2>3. Mails' /\ Watching' /\ Observing'
    BY <2>1, <2>2, MailsStay DEF TypeInv, Watching, Observing, Hopeless, broker, mqObservers
  <2>4. Consuming'
    BY <2>1, <2>2, ConsumersStay DEF TypeInv, Consuming
  <2>5. QED
    BY <2>3, <2>4 DEF TypeInv
<1>3. QED
  BY <1>1, <1>2

(* Type correctness: queues, frames, goroutines and observers keep their   *)
(* shapes, only messages the broker received are dead-lettered, and retry  *)
(* counts stay below the limit (rabbitmq.go, consumer.go).                 *)
THEOREM MQTypeCorrect == ASSUME MQAssumption PROVE MQSpec => []MQTypeOK
<1>1. TypeInv => MQTypeOK
  BY MQTypeParts
<1>2. QED
  BY <1>1, InitTypes, StepTypes, PTL DEF MQSpec

-----------------------------------------------------------------------------
(***************************************************************************)
(* Second part: an acknowledgement of what was not handled comes after its *)
(* retry.                                                                  *)
(***************************************************************************)
\* The broker has m, in the queue of m.
Arrived(m) ==
    m \in ToSet(ready[QueueOf[m.id]]) \/ m \in ToSet(unacked[QueueOf[m.id]])

\* m is published in one of the first n frames.
Published(m, n) == \E i \in 1 .. n : wire[i].op = "publish" /\ wire[i].msg = m

\* A later attempt of m is at the broker, or will be when it has read n frames.
Later(m, n) ==
    \E l \in Message : l.id = m.id /\ l.retry > m.retry /\ (Arrived(l) \/ Published(l, n))

Unsettled(id) == id \notin dead /\ effects[id] = 0

\* Consumer q will acknowledge m.
Acking(q, m) == consumer[q].at = "acking" /\ consumer[q].subscribed /\ consumer[q].held = m

IsAck(j, m) == wire[j].op = "ack" /\ wire[j].msg = m

AcksCovered ==
    \A m \in Message, j \in DOMAIN wire : IsAck(j, m) /\ Unsettled(m.id) => Later(m, j - 1)

AckersCovered ==
    \A m \in Message, q \in Queues :
        Acking(q, m) /\ Unsettled(m.id) => Later(m, Len(wire))

Present ==
    \A id \in accepted : Unsettled(id) => \E l \in Message : l.id = id /\ Arrived(l)

Covered == AcksCovered /\ AckersCovered /\ Present

\* Steps that take nothing away from the broker.
LEMMA CoveredGrows ==
    ASSUME TypeInv, Covered,
           \A l \in Message : Arrived(l) => Arrived(l)',
           wire' \in Seq(Frames'), Len(wire) <= Len(wire'),
           \A i \in 1 .. Len(wire) : wire'[i] = wire[i],
           \A m \in Message : \A j \in Len(wire) + 1 .. Len(wire') :
               IsAck(j, m)' /\ Unsettled(m.id) => Later(m, Len(wire)),
           \A id \in Msgs : Unsettled(id)' => Unsettled(id),
           accepted' = accepted,
           \A m \in Message, q \in Queues :
               Acking(q, m)' /\ Unsettled(m.id)' => Acking(q, m) \/ Later(m, Len(wire))'
    PROVE  Covered'
<1>0. /\ Len(wire) \in Nat /\ Len(wire') \in Nat /\ DOMAIN wire = 1 .. Len(wire)
      /\ DOMAIN wire' = 1 .. Len(wire')
      /\ accepted \subseteq Msgs
      /\ \A m \in Message : m.id \in Msgs
  <2>1. wire \in Seq(Frames) /\ accepted \subseteq Msgs
    BY DEF TypeInv, Mails, Observing
  <2>2. \A m \in Message : m.id \in Msgs
    BY MessageValues
  <2>3. QED
    BY <2>1, <2>2
<1>1. PICK n \in Nat : n = Len(wire)
  BY <1>0
<1>2. PICK n2 \in Nat : n2 = Len(wire') /\ n <= n2
  BY <1>0, <1>1
<1>3. ASSUME NEW m \in Message, NEW k \in 0 .. n, NEW k2 \in k .. n2, Later(m, k)
      PROVE  Later(m, k2)'
  <2>1. PICK l \in Message : l.id = m.id /\ l.retry > m.retry /\ (Arrived(l) \/ Published(l, k))
    BY <1>3 DEF Later
  <2>2. Arrived(l) => Arrived(l)'
    OBVIOUS
  <2>3. Published(l, k) => Published(l, k2)'
    <3>1. \A i \in 1 .. k : i \in 1 .. k2 /\ i \in 1 .. n
      BY <1>1, <1>2
    <3>2. \A i \in 1 .. k : wire'[i] = wire[i]
      BY <1>1, <3>1
    <3>3. QED
      BY <3>1, <3>2 DEF Published
  <2>4. QED
    BY <2>1, <2>2, <2>3 DEF Later
<1>4. AcksCovered'
  <2> SUFFICES ASSUME NEW m \in Message, NEW j \in DOMAIN wire', IsAck(j, m)', Unsettled(m.id)'
               PROVE  Later(m, j - 1)'
    BY DEF AcksCovered
  <2>1. j \in 1 .. n2 /\ Unsettled(m.id)
    BY <1>0, <1>2
  <2>2. CASE j <= n
    <3>1. j \in DOMAIN wire /\ IsAck(j, m)
      BY <1>0, <1>1, <2>1, <2>2 DEF IsAck
    <3>2. PICK k \in 0 .. n : k = j - 1
      BY <2>1, <2>2
    <3>3. Later(m, k)
      BY <2>1, <3>1, <3>2 DEF Covered, AcksCovered
    <3>4. Later(m, k)'
      <4>1. k \in k .. n2
        BY <1>2, <3>2
      <4>2. QED
        BY <1>3, <3>3, <4>1
    <3>5. QED
      BY <3>2, <3>4
  <2>3. CASE ~(j <= n)
    <3>1. j \in Len(wire) + 1 .. Len(wire')
      BY <1>1, <1>2, <2>1, <2>3
    <3>2. Later(m, n)
      BY <1>1, <2>1, <3>1
    <3>3. PICK k2 \in n .. n2 : k2 = j - 1
      BY <2>1, <2>3
    <3>4. Later(m, k2)'
      <4>1. n \in 0 .. n
        OBVIOUS
      <4>2. QED
        BY <1>3, <3>2, <4>1
    <3>5. QED
      BY <3>3, <3>4
  <2>4. QED
    BY <2>2, <2>3
<1>5. AckersCovered'
  <2> SUFFICES ASSUME NEW m \in Message, NEW q \in Queues, Acking(q, m)', Unsettled(m.id)'
               PROVE  Later(m, n2)'
    BY <1>2 DEF AckersCovered
  <2>0. m.id \in Msgs /\ (Acking(q, m) \/ Later(m, Len(wire))')
    BY <1>0
  <2>1. CASE Acking(q, m)
    <3>1. Later(m, n)
      BY <1>0, <1>1, <2>1 DEF Covered, AckersCovered
    <3>2. n \in 0 .. n /\ n2 \in n .. n2
      BY <1>2
    <3>3. QED
      BY <1>3, <3>1, <3>2
  <2>2. QED
    BY <1>2, <2>0, <2>1
<1>6. Present'
  BY <1>0 DEF Covered, Present
<1>7. QED
  BY <1>4, <1>5, <1>6 DEF Covered

\* Steps that leave the broker and the wire alone.
LEMMA CoveredStays ==
    ASSUME TypeInv, Covered, UNCHANGED <<ready, unacked, dead, wire, accepted>>,
           \A id \in Msgs : effects'[id] = 0 => effects[id] = 0,
           \A m \in Message, q \in Queues :
               Acking(q, m)' /\ Unsettled(m.id)' => Acking(q, m)
    PROVE  Covered'
<1>1. \A m, n : Later(m, n)' <=> Later(m, n)
  BY DEF Later, Arrived, Published
<1>2. /\ \A id \in Msgs : Unsettled(id)' => Unsettled(id)
      /\ accepted \subseteq Msgs /\ \A m \in Message : m.id \in Msgs
  BY MessageValues DEF Unsettled, TypeInv, Observing
<1>3. AcksCovered'
  BY <1>1, <1>2 DEF Covered, AcksCovered, IsAck
<1>4. AckersCovered'
  BY <1>1, <1>2 DEF Covered, AckersCovered
<1>5. Present'
  BY <1>2 DEF Covered, Present, Arrived
<1>6. QED
  BY <1>3, <1>4, <1>5 DEF Covered

\* The broker reads a frame: what leaves it was settled or tried again.
LEMMA ReadCovers == ASSUME MQAssumption, TypeInv, Covered, BrokerReads PROVE Covered'
<1>0. /\ wire # <<>> /\ wire' = Tail(wire) /\ Head(wire) \in Frames
      /\ wire[1] = Head(wire) /\ Len(wire) \in Nat \ {0} /\ Len(wire') = Len(wire) - 1
      /\ \A i \in 1 .. Len(wire') : wire'[i] = wire[i + 1]
      /\ DOMAIN wire = 1 .. Len(wire) /\ DOMAIN wire' = 1 .. Len(wire')
  <2>1. wire \in Seq(Frames) /\ wire # <<>> /\ wire' = Tail(wire)
    BY DEF BrokerReads, TypeInv, Mails
  <2>2. QED
    BY <2>1, Behead
<1>1. PICK f \in Frame : f = Head(wire)
  BY <1>0 DEF Frames
<1>m. PICK h \in Message : h = f.msg
  BY DEF Frame
<1>q. PICK q \in Queues : q = QueueOf[h.id]
  BY MessageValues DEF MQAssumption
<1>2. /\ ready' = IF f.op = "publish" THEN [ready EXCEPT ![q] = Append(ready[q], h)] ELSE ready
      /\ accepted' = IF f.op = "publish" THEN accepted \cup {h.id} ELSE accepted
      /\ unacked' = IF f.op = "publish" THEN unacked
                    ELSE [unacked EXCEPT ![q] = RemoveFirst(unacked[q], h)]
      /\ dead' = IF f.op = "nack" THEN dead \cup {h.id} ELSE dead
      /\ consumer' = consumer /\ effects' = effects
  BY <1>1, <1>m, <1>q DEF BrokerReads, process
<1>3. f.op \in {"publish", "ack", "nack"}
  BY DEF Frame
<1>4. \A id : Unsettled(id)' => Unsettled(id)
  BY <1>2 DEF Unsettled
<1>5. /\ \A p \in Queues : ToSet(ready[p]) \subseteq ToSet(ready'[p])
      /\ f.op = "publish" => h \in ToSet(ready'[q])
  <2>1. ToSet(Append(ready[q], h)) = ToSet(ready[q]) \cup {h}
    BY Appended DEF TypeInv, Mails
  <2>2. CASE f.op = "publish"
    <3>1. ready'[q] = Append(ready[q], h) /\ \A p \in Queues \ {q} : ready'[p] = ready[p]
      BY <1>2, <2>2 DEF TypeInv, Mails
    <3>2. QED
      BY <2>1, <3>1
  <2>3. QED
    BY <1>2, <2>2
<1>6. \A p \in Queues : ToSet(unacked[p]) \ {h} \subseteq ToSet(unacked'[p])
  <2>1. ToSet(unacked[q]) \ {h} \subseteq ToSet(RemoveFirst(unacked[q], h))
    BY Removed DEF TypeInv, Mails
  <2>2. CASE f.op # "publish"
    <3>1. unacked'[q] = RemoveFirst(unacked[q], h) /\ \A p \in Queues \ {q} : unacked'[p] = unacked[p]
      BY <1>2, <2>2 DEF TypeInv, Mails
    <3>2. QED
      BY <2>1, <3>1
  <2>3. QED
    BY <1>2, <2>2
<1>7. \A l \in Message : l.id \in Msgs /\ QueueOf[l.id] \in Queues /\ l.retry \in Int
  <2>1. ASSUME NEW l \in Message PROVE l.id \in Msgs /\ l.retry \in Int
    BY DEF Message, RetryLimit
  <2>2. QED
    BY <2>1 DEF MQAssumption
<1>8. ASSUME NEW l \in Message, Arrived(l), l # h \/ f.op = "publish" PROVE Arrived(l)'
  <2>1. CASE l # h
    BY <1>5, <1>6, <1>7, <1>8, <2>1 DEF Arrived
  <2>2. CASE f.op = "publish"
    <3>1. unacked' = unacked
      BY <1>2, <2>2
    <3>2. QED
      BY <1>5, <1>7, <1>8, <3>1 DEF Arrived
  <2>3. QED
    BY <1>8, <2>1, <2>2
<1>9. ASSUME NEW l \in Message, Arrived(l), Unsettled(l.id)'
      PROVE  \E k \in Message : k.id = l.id /\ k.retry >= l.retry /\ Arrived(k)'
  <2>1. CASE l # h \/ f.op = "publish"
    BY <1>7, <1>8, <1>9, <2>1
  <2>2. CASE l = h /\ f.op = "nack"
    BY <1>2, <1>9, <2>2 DEF Unsettled
  <2>3. CASE l = h /\ f.op = "ack"
    <3>1. IsAck(1, h) /\ 1 \in DOMAIN wire
      BY <1>0, <1>1, <1>m, <2>3 DEF IsAck
    <3>2. Later(h, 1 - 1)
      BY <1>4, <1>9, <2>3, <3>1 DEF Covered, AcksCovered
    <3>3. PICK k \in Message : k.id = h.id /\ k.retry > h.retry /\ (Arrived(k) \/ Published(k, 0))
      BY <3>2 DEF Later
    <3>4. Arrived(k) /\ k # h
      BY <1>7, <3>3 DEF Published
    <3>5. QED
      BY <1>7, <1>8, <2>3, <3>3, <3>4
  <2>4. QED
    BY <1>3, <2>1, <2>2, <2>3
<1>10. ASSUME NEW m \in Message, NEW k \in Nat, k < Len(wire), Later(m, k + 1), Unsettled(m.id)'
       PROVE  Later(m, k)'
  <2>1. PICK l \in Message : l.id = m.id /\ l.retry > m.retry /\ (Arrived(l) \/ Published(l, k + 1))
    BY <1>10 DEF Later
  <2>2. CASE Arrived(l)
    <3>1. PICK g \in Message : g.id = l.id /\ g.retry >= l.retry /\ Arrived(g)'
      BY <1>9, <1>10, <2>1, <2>2
    <3>2. g.retry > m.retry
      BY <1>7, <2>1, <3>1
    <3>3. QED
      BY <2>1, <3>1, <3>2 DEF Later
  <2>3. ASSUME NEW i \in 1 .. k + 1, wire[i].op = "publish", wire[i].msg = l
        PROVE  Later(m, k)'
    <3>1. CASE i = 1
      <4>1. f.op = "publish" /\ l = h
        BY <1>0, <1>1, <1>m, <2>3, <3>1
      <4>2. Arrived(l)'
        BY <1>5, <1>q, <4>1 DEF Arrived
      <4>3. QED
        BY <2>1, <4>2 DEF Later
    <3>2. CASE i # 1
      <4>1. PICK j \in 1 .. k : j + 1 = i
        <5>1. i - 1 \in 1 .. k /\ (i - 1) + 1 = i
          BY <3>2
        <5>2. QED
          BY <5>1
      <4>2. j \in 1 .. Len(wire')
        BY <1>0, <1>10
      <4>3. wire'[j] = wire[i]
        BY <1>0, <4>1, <4>2
      <4>4. Published(l, k)'
        BY <2>3, <4>3 DEF Published
      <4>5. QED
        BY <2>1, <4>4 DEF Later
    <3>3. QED
      BY <3>1, <3>2
  <2>4. QED
    BY <2>1, <2>2, <2>3 DEF Published
<1>11. AcksCovered'
  <2> SUFFICES ASSUME NEW m \in Message, NEW j \in DOMAIN wire', IsAck(j, m)', Unsettled(m.id)'
               PROVE  Later(m, j - 1)'
    BY DEF AcksCovered
  <2>1. j \in 1 .. Len(wire') /\ j + 1 \in DOMAIN wire /\ wire'[j] = wire[j + 1]
    BY <1>0
  <2>2. PICK k \in Nat : k = j - 1 /\ k < Len(wire) /\ j = k + 1
    BY <1>0, <2>1
  <2>3. PICK i \in DOMAIN wire : i = j + 1 /\ wire'[j] = wire[i] /\ i - 1 = k + 1
    BY <2>1, <2>2
  <2>4. IsAck(i, m) /\ Unsettled(m.id)
    BY <1>4, <2>3 DEF IsAck
  <2>5. Later(m, k + 1)
    BY <2>3, <2>4 DEF Covered, AcksCovered
  <2>6. QED
    BY <1>10, <2>2, <2>5
<1>12. AckersCovered'
  <2> SUFFICES ASSUME NEW m \in Message, NEW p \in Queues, Acking(p, m)', Unsettled(m.id)'
               PROVE  Later(m, Len(wire))'
    BY DEF AckersCovered
  <2>1. Acking(p, m) /\ Unsettled(m.id)
    BY <1>2, <1>4 DEF Acking
  <2>2. Later(m, Len(wire))
    BY <2>1 DEF Covered, AckersCovered
  <2>3. PICK k \in Nat : k = Len(wire') /\ k < Len(wire) /\ Len(wire) = k + 1
    <3>1. /\ Len(wire') \in Nat /\ Len(wire') < Len(wire)
          /\ Len(wire) = Len(wire') + 1
      BY <1>0
    <3>2. QED
      BY <3>1
  <2>4. Later(m, k)'
    BY <1>10, <2>2, <2>3
  <2>5. QED
    BY <2>3, <2>4
<1>13. Present'
  <2> SUFFICES ASSUME NEW id \in accepted', Unsettled(id)'
               PROVE  \E l \in Message : l.id = id /\ Arrived(l)'
    BY DEF Present
  <2>1. CASE f.op = "publish" /\ id = h.id
    <3>1. Arrived(h)'
      BY <1>5, <1>q, <2>1 DEF Arrived
    <3>2. QED
      BY <2>1, <3>1
  <2>2. CASE ~(f.op = "publish" /\ id = h.id)
    <3>1. id \in accepted /\ Unsettled(id)
      BY <1>2, <1>4, <2>2
    <3>2. PICK l \in Message : l.id = id /\ Arrived(l)
      BY <3>1 DEF Covered, Present
    <3>3. QED
      BY <1>9, <3>2
  <2>3. QED
    BY <2>1, <2>2
<1>14. QED
  BY <1>11, <1>12, <1>13 DEF Covered

LEMMA InitCovers == ASSUME MQAssumption PROVE MQInit => Covered
<1> SUFFICES ASSUME MQInit PROVE Covered
  OBVIOUS
<1>1. DOMAIN wire = {} /\ accepted = {}
  BY DEF MQInit
<1>2. \A q \in Queues : ~consumer[q].subscribed
  BY ConsumerValues DEF MQInit
<1>3. QED
  BY <1>1, <1>2 DEF Covered, AcksCovered, AckersCovered, Present, Acking

\* A connection ends: what was on the wire is gone, acknowledgements too.
LEMMA DisconnectCovers ==
    ASSUME MQAssumption, TypeInv, Covered, Disconnect,
           \A q \in Queues : ~consumer'[q].subscribed
    PROVE  Covered'
<1>1. /\ ready' = [q \in Queues |-> unacked[q] \o ready[q]]
      /\ wire' = <<>> /\ UNCHANGED <<dead, accepted, effects>>
  BY DEF Disconnect
<1>2. \A q \in Queues : ToSet(ready'[q]) = ToSet(unacked[q]) \cup ToSet(ready[q])
  BY <1>1, Joined, ZenonT(60) DEF TypeInv, Mails
<1>3. AcksCovered' /\ AckersCovered'
  <2>1. DOMAIN wire' = {}
    BY <1>1
  <2>2. QED
    BY <2>1 DEF AcksCovered, AckersCovered, Acking
<1>4. Present'
  <2>1. \A q \in Queues : ready[q] \in Seq(Mail(q)) /\ unacked[q] \in Seq(Mail(q))
    BY DEF TypeInv, Mails
  <2>2. ASSUME NEW id \in accepted, Unsettled(id)
        PROVE  \E l \in Message : l.id = id /\ Arrived(l)'
    <3>1. PICK l \in Message : l.id = id /\ Arrived(l)
      BY <2>2 DEF Covered, Present
    <3>2. QueueOf[l.id] \in Queues
      BY MessageValues DEF MQAssumption
    <3>3. QED
      BY <1>2, <3>1, <3>2 DEF Arrived
  <2>3. QED
    BY <1>1, <2>2 DEF Present, Unsettled
<1>5. QED
  BY <1>3, <1>4 DEF Covered

LEMMA StepCovers == ASSUME MQAssumption PROVE TypeInv /\ Covered /\ [MQNext]_mqVars => Covered'
<1> SUFFICES ASSUME TypeInv, Covered, [MQNext]_mqVars PROVE Covered'
  OBVIOUS
<1>0. TypeInv'
  BY StepTypes
<1>w. /\ Len(wire) \in Nat /\ wire' \in Seq(Frames') /\ wire \in Seq(Frames)
      /\ \A id \in Msgs : effects[id] \in Nat
  BY <1>0 DEF TypeInv, Mails, Observing
\* One more frame.
<1>a. ASSUME NEW f \in Frames', wire' = Append(wire, f)
      PROVE  /\ Len(wire) <= Len(wire')
             /\ \A i \in 1 .. Len(wire) : wire'[i] = wire[i]
             /\ \A j \in Len(wire) + 1 .. Len(wire') : wire'[j] = f /\ j = Len(wire')
             /\ Len(wire') \in Nat /\ wire'[Len(wire')] = f
  <2>1. PICK n \in Nat : n = Len(wire)
    BY <1>w
  <2>2. Len(wire') = n + 1 /\ (\A i \in 1 .. n : wire'[i] = wire[i]) /\ wire'[n + 1] = f
    BY <1>a, <1>w, <2>1
  <2>3. \A j \in n + 1 .. n + 1 : j = n + 1
    OBVIOUS
  <2>4. QED
    BY <2>1, <2>2, <2>3
<1>1. ASSUME NEW id \in Msgs, Submit(id) PROVE Covered'
  <2> DEFINE f == [op |-> "publish", msg |-> [id |-> id, retry |-> 0]]
  <2>1. /\ wire' = Append(wire, f) /\ f.op = "publish"
        /\ UNCHANGED <<ready, unacked, dead, consumer, accepted, effects>>
    BY <1>1 DEF Submit, Publish, broker, process
  <2>2. wire'[Len(wire) + 1] = f /\ Len(wire') = Len(wire) + 1
    BY <1>w, <2>1
  <2>3. f \in Frames'
    BY <1>w, <2>2, Elements
  <2>4. QED
    BY <1>1, <1>a, <1>w, <2>1, <2>3, CoveredGrows DEF Arrived, IsAck, Unsettled, Acking
<1>2. ASSUME NEW q \in Queues, Deliver(q) PROVE Covered'
  <2>1. /\ ready[q] # <<>> /\ unacked' = [unacked EXCEPT ![q] = Append(unacked[q], Head(ready[q]))]
        /\ ready' = [ready EXCEPT ![q] = Tail(ready[q])]
        /\ UNCHANGED <<dead, wire, consumer, accepted, effects>>
    BY <1>2 DEF Deliver, process, mqObservers
  <2>2. /\ ToSet(ready[q]) = ToSet(Tail(ready[q])) \cup {Head(ready[q])}
        /\ Head(ready[q]) \in Message
    BY <2>1, Behead DEF TypeInv, Mails
  <2>3. ToSet(Append(unacked[q], Head(ready[q]))) = ToSet(unacked[q]) \cup {Head(ready[q])}
    BY <2>2, Appended DEF TypeInv, Mails
  <2>4. /\ ToSet(ready'[q]) \cup ToSet(unacked'[q]) = ToSet(ready[q]) \cup ToSet(unacked[q])
        /\ \A p \in Queues \ {q} : ready'[p] = ready[p] /\ unacked'[p] = unacked[p]
    BY <2>1, <2>2, <2>3 DEF TypeInv, Mails
  <2>5. \A l \in Message : Arrived(l) => Arrived(l)'
    <3>1. \A l \in Message : QueueOf[l.id] \in Queues
      BY MessageValues DEF MQAssumption
    <3>2. QED
      BY <2>4, <3>1 DEF Arrived
  <2>6. QED
    BY <1>w, <2>1, <2>5, CoveredGrows DEF Unsettled, Acking
<1>3. ASSUME NEW q \in Queues, Start(q) \/ Resubscribe(q) PROVE Covered'
  <2>1. UNCHANGED <<ready, unacked, dead, wire, accepted, effects>>
    BY <1>3 DEF Start, Resubscribe, broker, mqObservers
  <2>2. \A p \in Queues : consumer'[p] = consumer[p] \/ consumer'[p].at # "acking"
    BY <1>3, ConsumerValues DEF Start, Resubscribe, TypeInv, Consuming
  <2>3. QED
    BY <2>1, <2>2, CoveredStays DEF Acking
<1>4. ASSUME NEW q \in Queues, Receive(q) \/ HandlerFails(q) \/ SeeClosed(q) PROVE Covered'
  <2>1. UNCHANGED <<ready, unacked, dead, wire, accepted, effects>>
    BY <1>4 DEF Receive, HandlerFails, SeeClosed, broker, mqObservers
  <2>2. consumer'[q].at # "acking" /\ \A p \in Queues \ {q} : consumer'[p] = consumer[p]
    BY <1>4, ReceiveTypes, FailTypes, ClosedTypes DEF Turns
  <2>3. QED
    BY <2>1, <2>2, CoveredStays DEF Acking
<1>5. ASSUME NEW q \in Queues, HandlerSucceeds(q) PROVE Covered'
  <2>1. PICK m \in Message : m = consumer[q].held /\ m.id \in Msgs
    BY <1>5, HeldTyped DEF HandlerSucceeds, Holding
  <2>2. /\ UNCHANGED <<ready, unacked, dead, wire, accepted>>
        /\ effects' = [effects EXCEPT ![m.id] = effects[m.id] + 1]
    BY <1>5, <2>1 DEF HandlerSucceeds, broker
  <2>3. effects'[m.id] # 0 /\ \A id \in Msgs : effects'[id] = 0 => effects[id] = 0
    BY <1>w, <2>1, <2>2 DEF TypeInv, Observing
  <2>4. consumer'[q].held = m /\ \A p \in Queues \ {q} : consumer'[p] = consumer[p]
    BY <1>5, <2>1, SucceedTypes DEF Turns
  <2>5. QED
    BY <2>2, <2>3, <2>4, CoveredStays DEF Acking, Unsettled
<1>6. ASSUME NEW q \in Queues, Republish(q) PROVE Covered'
  <2>1. PICK m \in Message : m = consumer[q].held /\ MayRetry(m)
    BY <1>6, HeldTyped DEF Republish, Holding, HeldWell
  <2>2. /\ wire' = IF channel = "open" THEN Append(wire, [op |-> "publish", msg |-> Again(m)])
                   ELSE wire
        /\ UNCHANGED <<ready, unacked, dead, accepted, effects>>
    BY <1>6, <2>1 DEF Republish, Publish, Again, broker, mqObservers
  <2>3. /\ consumer'[q].held = m /\ consumer'[q].subscribed = consumer[q].subscribed
        /\ consumer[q].subscribed => channel = "open"
        /\ \A p \in Queues \ {q} : consumer'[p] = consumer[p]
    BY <1>6, <2>1, RepublishTypes DEF Turns, TypeInv, Consuming, HeldWell
  <2>4. CASE channel # "open"
    BY <2>2, <2>3, <2>4, CoveredStays DEF Acking
  <2>5. CASE channel = "open"
    <3>1. PICK f : f = [op |-> "publish", msg |-> Again(m)]
      OBVIOUS
    <3>2. f.op = "publish" /\ f.msg = Again(m)
      BY <3>1
    <3>3. wire' = Append(wire, f)
      BY <2>2, <2>5, <3>1
    <3>4. f \in Frames'
      <4>1. wire'[Len(wire) + 1] = f /\ Len(wire') = Len(wire) + 1
        BY <1>w, <3>3
      <4>2. QED
        BY <1>w, <4>1, Elements
    <3>5. Later(m, Len(wire))'
      <4>1. /\ Again(m) \in Message /\ Again(m).id = m.id /\ Again(m).retry = m.retry + 1
            /\ m.retry \in Int
        BY <2>1, RetriedValues DEF Message, RetryLimit
      <4>2. PICK n \in Nat : n = Len(wire') /\ n \in 1 .. n /\ wire'[n] = f
        BY <1>a, <1>w, <3>3, <3>4
      <4>3. Published(Again(m), n)'
        BY <3>2, <4>2 DEF Published
      <4>4. Later(m, n)'
        BY <4>1, <4>3 DEF Later
      <4>5. QED
        BY <4>2, <4>4
    <3>6. \A p \in Queues, k \in Message : Acking(p, k)' => Acking(p, k) \/ k = m
      BY <2>3 DEF Acking
    <3>7. QED
      BY <1>a, <1>w, <2>2, <3>2, <3>3, <3>4, <3>5, <3>6, CoveredGrows DEF Arrived, IsAck, Unsettled
  <2>6. QED
    BY <2>4, <2>5
<1>7. ASSUME NEW q \in Queues, Answer(q) PROVE Covered'
  <2>1. PICK m \in Message : m = consumer[q].held
    BY <1>7, AnswerTypes
  <2>2. PICK op \in {"ack", "nack"} : op = IF consumer[q].at = "acking" THEN "ack" ELSE "nack"
    OBVIOUS
  <2>3. /\ wire' = IF consumer[q].subscribed THEN Append(wire, [op |-> op, msg |-> m]) ELSE wire
        /\ UNCHANGED <<ready, unacked, dead, accepted, effects>>
    BY <1>7, <2>1, <2>2 DEF Answer, broker, mqObservers
  <2>4. /\ consumer'[q].at # "acking" /\ \A p \in Queues \ {q} : consumer'[p] = consumer[p]
    BY <1>7, AnswerTypes DEF Turns
  <2>5. CASE ~consumer[q].subscribed
    BY <2>3, <2>4, <2>5, CoveredStays DEF Acking
  <2>6. CASE consumer[q].subscribed
    <3>1. PICK f : f = [op |-> op, msg |-> m]
      OBVIOUS
    <3>2. f.op = op /\ f.msg = m
      BY <3>1
    <3>3. wire' = Append(wire, f)
      BY <2>3, <2>6, <3>1
    <3>4. f \in Frames'
      <4>1. wire'[Len(wire) + 1] = f /\ Len(wire') = Len(wire) + 1
        BY <1>w, <3>3
      <4>2. QED
        BY <1>w, <4>1, Elements
    <3>5. op = "ack" /\ Unsettled(m.id) => Later(m, Len(wire))
      BY <2>1, <2>2, <2>6 DEF Covered, AckersCovered, Acking
    <3>6. QED
      BY <1>a, <1>w, <2>3, <2>4, <3>2, <3>3, <3>4, <3>5, CoveredGrows DEF Arrived, IsAck, Unsettled, Acking
  <2>7. QED
    BY <2>5, <2>6
<1>8. CASE WatcherStep
  BY <1>8, CoveredStays DEF WatcherStep, NoticeClosed, Reconnect, DialFails, broker, mqObservers, Acking
<1>9. CASE BrokerReads
  BY <1>9, ReadCovers
<1>10. CASE Drop
  <2>1. Disconnect /\ \A q \in Queues : ~consumer'[q].subscribed
    BY <1>10, ConsumerValues DEF Drop, TypeInv, Consuming
  <2>2. QED
    BY <2>1, DisconnectCovers
<1>11. CASE Restart
  <2>1. Disconnect /\ \A q \in Queues : ~consumer'[q].subscribed
    BY <1>11, ConsumerValues DEF Restart
  <2>2. QED
    BY <2>1, DisconnectCovers
<1>12. CASE UNCHANGED mqVars
  BY <1>12, CoveredStays DEF mqVars, broker, process, mqObservers, Acking
<1>13. QED
  BY <1>1, <1>2, <1>3, <1>4, <1>5, <1>6, <1>7, <1>8, <1>9, <1>10, <1>11, <1>12
     DEF MQNext, ConsumerStep

(* Nothing the broker received is lost, whatever connections, restarts and *)
(* failed dials do: on every connection the retry precedes the             *)
(* acknowledgement of what it replaces (startQueueConsumer).               *)
THEOREM KeepsMessages == ASSUME MQAssumption PROVE MQSpec => []NothingLost
<1>1. TypeInv /\ Covered => NothingLost
  <2> SUFFICES ASSUME TypeInv, Covered, NEW id \in accepted, Unsettled(id) PROVE AtBroker(id)
    BY DEF NothingLost, Unsettled, TypeInv, Observing
  <2>1. PICK l \in Message : l.id = id /\ Arrived(l)
    BY DEF Covered, Present
  <2>2. QED
    BY <2>1 DEF Arrived, AtBroker
<1>2. QED
  BY <1>1, InitTypes, StepTypes, InitCovers, StepCovers, PTL DEF MQSpec

-----------------------------------------------------------------------------
(***************************************************************************)
(* Third part: a message that no lost connection gave back is in one place *)
(* only, and its handler is only asked there.                              *)
(***************************************************************************)
Of(id) == {m \in Message : m.id = id}
Publishing(id) == {f \in Frame : f.op = "publish" /\ f.msg.id = id}
Rejecting(id) == {f \in Frame : f.op = "nack" /\ f.msg.id = id}

InWire(id) == Holds(wire, Publishing(id))
InReady(id) == Holds(ready[QueueOf[id]], Of(id))
InInbox(id) == Holds(inbox[QueueOf[id]], Of(id))
InHand(id) ==
    /\ consumer[QueueOf[id]].at \in {"handling", "retrying", "nacking"}
    /\ consumer[QueueOf[id]].held.id = id
Rejected(id) == id \in dead \/ Holds(wire, Rejecting(id))

Places(id) ==
    {p \in {"wire", "ready", "inbox", "hand", "settled"} :
        \/ p = "wire" /\ InWire(id)
        \/ p = "ready" /\ InReady(id)
        \/ p = "inbox" /\ InInbox(id)
        \/ p = "hand" /\ InHand(id)
        \/ p = "settled" /\ (Rejected(id) \/ effects[id] > 0)}

Alone(id) ==
    /\ \A x, y \in Places(id) : x = y
    /\ Once(wire, Publishing(id))
    /\ Once(ready[QueueOf[id]], Of(id))
    /\ Once(inbox[QueueOf[id]], Of(id))

\* A handler that is still to be asked has failed no more often than the
\* retry count says.
Bounded(id) ==
    /\ effects[id] <= 1 /\ failures[id] <= RetryLimit
    /\ Rejected(id) => effects[id] = 0
    /\ \A f \in ToSet(wire) : f \in Publishing(id) => failures[id] <= f.msg.retry
    /\ \A m \in ToSet(ready[QueueOf[id]]) : m.id = id => failures[id] <= m.retry
    /\ \A m \in ToSet(inbox[QueueOf[id]]) : m.id = id => failures[id] <= m.retry
    /\ LET c == consumer[QueueOf[id]] IN
       c.held.id = id =>
           /\ c.at = "handling" => failures[id] <= c.held.retry
           /\ c.at = "retrying" => failures[id] <= c.held.retry + 1

Single == \A id \in Msgs \ redelivered : Alone(id) /\ Bounded(id)

LEMMA FoundPlaces ==
    ASSUME NEW id
    PROVE  /\ InWire(id) <=> "wire" \in Places(id)
           /\ InReady(id) <=> "ready" \in Places(id)
           /\ InInbox(id) <=> "inbox" \in Places(id)
           /\ InHand(id) <=> "hand" \in Places(id)
           /\ (Rejected(id) \/ effects[id] > 0) <=> "settled" \in Places(id)
  BY DEF Places

\* The one place of a message is left for another one.
LEMMA Leaves ==
    ASSUME NEW id, NEW from, NEW to,
           \A x, y \in Places(id) : x = y, from \in Places(id),
           \A p \in Places(id)' : p = to \/ (p \in Places(id) /\ p # from)
    PROVE  \A x, y \in Places(id)' : x = y
  OBVIOUS

LEMMA MailIds ==
    ASSUME MQAssumption, TypeInv, NEW id \in Msgs
    PROVE  /\ QueueOf[id] \in Queues
           /\ ready[QueueOf[id]] \in Seq(Message) /\ unacked[QueueOf[id]] \in Seq(Message)
           /\ inbox[QueueOf[id]] \in Seq(Message) /\ wire \in Seq(Frame)
           /\ effects[id] \in Nat /\ failures[id] \in Nat
           /\ InHand(id) => consumer[QueueOf[id]].held \in Of(id)
<1>1. QueueOf[id] \in Queues
  BY DEF MQAssumption
<1>2. wire \in Seq(Frame)
  BY DEF TypeInv, Mails, Frames
<1>3. InHand(id) => consumer[QueueOf[id]].held \in Of(id)
  BY <1>1, HeldTyped DEF InHand, Of, Holding
<1>4. QED
  BY <1>1, <1>2, <1>3 DEF TypeInv, Mails, Observing

\* Who was never submitted is nowhere.
LEMMA NotYet ==
    ASSUME MQAssumption, TypeInv, NEW id \in Msgs \ submitted
    PROVE  Places(id) = {} /\ effects[id] = 0 /\ failures[id] = 0 /\ ~Rejected(id)
<1>1. id \notin accepted /\ id \notin dead /\ effects[id] = 0 /\ failures[id] = 0
  BY DEF TypeInv, Observing
<1>2. \A q \in Queues : \A m \in Mail(q) : m.id # id
  BY <1>1 DEF Mail
<1>3. QueueOf[id] \in Queues
  BY MailIds
<1>4. ~InReady(id) /\ ~InInbox(id)
  <2>1. ready[QueueOf[id]] \in Seq(Mail(QueueOf[id])) /\ inbox[QueueOf[id]] \in Seq(Mail(QueueOf[id]))
    BY <1>3 DEF TypeInv, Mails
  <2>2. \A x \in Mail(QueueOf[id]) : x \notin Of(id)
    BY <1>2, <1>3 DEF Of
  <2>3. QED
    BY <2>1, <2>2 DEF InReady, InInbox, Holds
<1>5. ~InHand(id)
  BY <1>2, <1>3, HeldTyped DEF InHand, Holding
<1>6. ~InWire(id) /\ ~Holds(wire, Rejecting(id))
  <2>1. \A f \in Frames : f \notin Publishing(id) /\ f \notin Rejecting(id)
    <3>1. ASSUME NEW f \in Frames PROVE f \notin Publishing(id) /\ f \notin Rejecting(id)
      <4>1. f.op = "publish" => f.msg.id \in submitted
        BY DEF Frames, Mailed
      <4>2. f.op = "nack" => f.msg.id \in accepted
        BY DEF Frames, Mailed, Mail
      <4>3. QED
        BY <1>1, <4>1, <4>2 DEF Publishing, Rejecting
    <3>2. QED
      BY <3>1
  <2>2. wire \in Seq(Frames)
    BY DEF TypeInv, Mails
  <2>3. QED
    BY <2>1, <2>2 DEF InWire, Holds
<1>7. ~Rejected(id)
  BY <1>1, <1>6 DEF Rejected
<1>8. QED
  BY <1>1, <1>4, <1>5, <1>6, <1>7 DEF Places

LEMMA InitSingle == ASSUME MQAssumption PROVE MQInit => Single
<1> SUFFICES ASSUME MQInit, NEW id \in Msgs PROVE Alone(id) /\ Bounded(id)
  BY DEF Single
<1>1. TypeInv /\ QueueOf[id] \in Queues /\ submitted = {}
  BY InitTypes DEF MQAssumption, MQInit
<1>2. Places(id) = {} /\ effects[id] = 0 /\ failures[id] = 0 /\ ~Rejected(id)
  BY <1>1, NotYet
<1>3. wire = <<>> /\ ready[QueueOf[id]] = <<>> /\ inbox[QueueOf[id]] = <<>>
      /\ consumer[QueueOf[id]].at = "absent"
  BY <1>1, ConsumerValues DEF MQInit
<1>4. QED
  BY <1>2, <1>3, Empty DEF Alone, Bounded, RetryLimit

\* The places of a message that a step does not put it in.
WireKept(id) ==
    /\ InWire(id)' => InWire(id)
    /\ Once(wire', Publishing(id))
    /\ Holds(wire', Rejecting(id)) => Holds(wire, Rejecting(id))
    /\ \A f \in ToSet(wire') : f \in Publishing(id) => f \in ToSet(wire)

ReadyKept(id) ==
    /\ InReady(id)' => InReady(id)
    /\ Once(ready'[QueueOf[id]], Of(id))
    /\ \A m \in ToSet(ready'[QueueOf[id]]) : m.id = id => m \in ToSet(ready[QueueOf[id]])

InboxKept(id) ==
    /\ InInbox(id)' => InInbox(id)
    /\ Once(inbox'[QueueOf[id]], Of(id))
    /\ \A m \in ToSet(inbox'[QueueOf[id]]) : m.id = id => m \in ToSet(inbox[QueueOf[id]])

HandKept(id) ==
    \/ /\ consumer'[QueueOf[id]].at = consumer[QueueOf[id]].at
       /\ consumer'[QueueOf[id]].held = consumer[QueueOf[id]].held
    \/ consumer'[QueueOf[id]].at \notin {"handling", "retrying", "nacking"}
    \/ consumer'[QueueOf[id]].held.id # id

LEMMA WireKeeps ==
    ASSUME MQAssumption, TypeInv, NEW id \in Msgs, Alone(id),
           \/ wire' = wire
           \/ wire' = <<>>
           \/ wire # <<>> /\ wire' = Tail(wire)
           \/ \E f \in Frame : /\ wire' = Append(wire, f)
                               /\ f \notin Publishing(id) \cup Rejecting(id)
    PROVE  WireKept(id)
<1>1. wire \in Seq(Frame) /\ Once(wire, Publishing(id))
  BY MailIds DEF Alone
<1>2. CASE wire' = wire
  BY <1>1, <1>2 DEF WireKept, InWire
<1>3. CASE wire' = <<>>
  BY <1>3, Empty DEF WireKept, InWire
<1>4. CASE wire # <<>> /\ wire' = Tail(wire)
  <2>1. /\ ToSet(wire') \subseteq ToSet(wire) /\ Once(wire', Publishing(id))
        /\ Holds(wire', Publishing(id)) => Holds(wire, Publishing(id))
        /\ Holds(wire', Rejecting(id)) => Holds(wire, Rejecting(id))
    BY <1>1, <1>4, Behead
  <2>2. QED
    BY <2>1 DEF WireKept, InWire
<1>5. ASSUME NEW f \in Frame, wire' = Append(wire, f), f \notin Publishing(id) \cup Rejecting(id)
      PROVE  WireKept(id)
  <2>1. /\ ToSet(wire') = ToSet(wire) \cup {f} /\ Once(wire', Publishing(id))
        /\ Holds(wire', Publishing(id)) => Holds(wire, Publishing(id))
        /\ Holds(wire', Rejecting(id)) => Holds(wire, Rejecting(id))
    BY <1>1, <1>5, Appended
  <2>2. QED
    BY <1>5, <2>1 DEF WireKept, InWire
<1>6. QED
  BY <1>2, <1>3, <1>4, <1>5

\* A queue of messages loses some, or takes in another message.
LEMMA QueueKeeps ==
    ASSUME NEW s \in Seq(Message), NEW t, NEW id, Once(s, Of(id)),
           \/ t = s
           \/ t = <<>>
           \/ s # <<>> /\ t = Tail(s)
           \/ \E m \in Message : t = Append(s, m) /\ m.id # id
           \/ \E u \in Seq(Message) : t = u \o s /\ ~Holds(u, Of(id))
    PROVE  /\ Holds(t, Of(id)) => Holds(s, Of(id))
           /\ Once(t, Of(id))
           /\ \A m \in ToSet(t) : m.id = id => m \in ToSet(s)
<1>1. CASE t = s
  BY <1>1
<1>2. CASE t = <<>>
  BY <1>2, Empty
<1>3. CASE s # <<>> /\ t = Tail(s)
  BY <1>3, Behead
<1>4. ASSUME NEW m \in Message, t = Append(s, m), m.id # id
      PROVE  /\ Holds(t, Of(id)) => Holds(s, Of(id))
             /\ Once(t, Of(id))
             /\ \A x \in ToSet(t) : x.id = id => x \in ToSet(s)
  <2>1. m \notin Of(id)
    BY <1>4 DEF Of
  <2>2. QED
    BY <1>4, <2>1, Appended
<1>5. ASSUME NEW u \in Seq(Message), t = u \o s, ~Holds(u, Of(id))
      PROVE  /\ Holds(t, Of(id)) => Holds(s, Of(id))
             /\ Once(t, Of(id))
             /\ \A m \in ToSet(t) : m.id = id => m \in ToSet(s)
  <2>1. ToSet(t) = ToSet(u) \cup ToSet(s) /\ Once(t, Of(id))
        /\ (Holds(t, Of(id)) => Holds(s, Of(id)))
    BY <1>5, Joined
  <2>2. \A m \in ToSet(u) : m.id # id
    BY <1>5, Elements DEF Of
  <2>3. QED
    BY <2>1, <2>2
<1>6. QED
  BY <1>1, <1>2, <1>3, <1>4, <1>5

LEMMA ReadyKeeps ==
    ASSUME MQAssumption, TypeInv, NEW id \in Msgs, Alone(id), NEW t,
           ready'[QueueOf[id]] = t,
           \/ t = ready[QueueOf[id]]
           \/ ready[QueueOf[id]] # <<>> /\ t = Tail(ready[QueueOf[id]])
           \/ \E m \in Message : t = Append(ready[QueueOf[id]], m) /\ m.id # id
           \/ \E u \in Seq(Message) : t = u \o ready[QueueOf[id]] /\ ~Holds(u, Of(id))
    PROVE  ReadyKept(id)
<1>1. ready[QueueOf[id]] \in Seq(Message) /\ Once(ready[QueueOf[id]], Of(id))
  BY MailIds DEF Alone
<1>2. QED
  BY <1>1, QueueKeeps DEF ReadyKept, InReady

LEMMA InboxKeeps ==
    ASSUME MQAssumption, TypeInv, NEW id \in Msgs, Alone(id), NEW t,
           inbox'[QueueOf[id]] = t,
           \/ t = inbox[QueueOf[id]]
           \/ t = <<>>
           \/ inbox[QueueOf[id]] # <<>> /\ t = Tail(inbox[QueueOf[id]])
           \/ \E m \in Message : t = Append(inbox[QueueOf[id]], m) /\ m.id # id
    PROVE  InboxKept(id)
<1>1. inbox[QueueOf[id]] \in Seq(Message) /\ Once(inbox[QueueOf[id]], Of(id))
  BY MailIds DEF Alone
<1>2. QED
  BY <1>1, QueueKeeps DEF InboxKept, InInbox

\* A step that puts the message nowhere.
LEMMA AllKept ==
    ASSUME NEW id \in Msgs, Alone(id), Bounded(id),
           WireKept(id), ReadyKept(id), InboxKept(id), HandKept(id),
           effects'[id] = effects[id], failures'[id] = failures[id],
           id \in dead' => Rejected(id)
    PROVE  Alone(id)' /\ Bounded(id)'
<1>1. InHand(id)' => InHand(id)
  BY DEF HandKept, InHand
<1>2. Rejected(id)' => Rejected(id)
  BY DEF Rejected, WireKept
<1>3. Places(id)' \subseteq Places(id)
  BY <1>1, <1>2 DEF Places, WireKept, ReadyKept, InboxKept
<1>4. Alone(id)'
  BY <1>3 DEF Alone, WireKept, ReadyKept, InboxKept
<1>5. \A f \in ToSet(wire') : f \in Publishing(id) => failures'[id] <= f.msg.retry
  BY DEF WireKept, Bounded
<1>6. /\ \A m \in ToSet(ready'[QueueOf[id]]) : m.id = id => failures'[id] <= m.retry
      /\ \A m \in ToSet(inbox'[QueueOf[id]]) : m.id = id => failures'[id] <= m.retry
  BY DEF ReadyKept, InboxKept, Bounded
<1>7. LET c == consumer'[QueueOf[id]] IN
      c.held.id = id =>
           /\ c.at = "handling" => failures'[id] <= c.held.retry
           /\ c.at = "retrying" => failures'[id] <= c.held.retry + 1
  BY DEF HandKept, Bounded
<1>8. QED
  BY <1>2, <1>4, <1>5, <1>6, <1>7 DEF Bounded

\* A message in one place is in no other one.
LEMMA Only ==
    ASSUME NEW id, Alone(id), NEW p, p \in Places(id)
    PROVE  /\ Places(id) = {p}
           /\ p # "wire" => ~InWire(id)
           /\ p # "ready" => ~InReady(id)
           /\ p # "inbox" => ~InInbox(id)
           /\ p # "hand" => ~InHand(id)
           /\ p # "settled" => ~Rejected(id) /\ ~(effects[id] > 0)
<1>1. Places(id) = {p}
  BY DEF Alone
<1>2. QED
  BY <1>1, FoundPlaces

LEMMA NoneOnce ==
    ASSUME NEW s, NEW D, ~Holds(s, D)
    PROVE  Once(s, D)
  BY DEF Once, Holds

\* Steps that leave the wire, the queue and the library's buffer alone.
LEMMA QuietSingle ==
    ASSUME MQAssumption, TypeInv, NEW id \in Msgs, Alone(id), Bounded(id),
           UNCHANGED <<wire, ready, dead>>,
           inbox'[QueueOf[id]] = inbox[QueueOf[id]] \/ inbox'[QueueOf[id]] = <<>>,
           effects'[id] = effects[id], failures'[id] = failures[id], HandKept(id)
    PROVE  Alone(id)' /\ Bounded(id)'
<1>1. WireKept(id)
  BY WireKeeps
<1>2. ReadyKept(id)
  BY ReadyKeeps
<1>3. InboxKept(id)
  BY InboxKeeps
<1>4. id \in dead' => Rejected(id)
  BY DEF Rejected
<1>5. QED
  BY <1>1, <1>2, <1>3, <1>4, AllKept

LEMMA SubmitSingle ==
    ASSUME MQAssumption, TypeInv, NEW id \in Msgs, Alone(id), Bounded(id),
           NEW i \in Msgs, Submit(i)
    PROVE  Alone(id)' /\ Bounded(id)'
<1>1. PICK f \in Frame : f.op = "publish" /\ f.msg.id = i /\ f.msg.retry = 0
                         /\ wire' = Append(wire, f)
  <2>1. [id |-> i, retry |-> 0] \in Message
    BY MessageValues
  <2>2. PICK m \in Message : m = [id |-> i, retry |-> 0]
    BY <2>1
  <2>3. wire' = Append(wire, [op |-> "publish", msg |-> m])
    BY <2>2 DEF Submit, Publish
  <2>4. m.id = i /\ m.retry = 0
    BY <2>2
  <2>5. QED
    BY <2>3, <2>4, MessageValues
<1>2. /\ i \notin submitted
      /\ UNCHANGED <<ready, dead, inbox, consumer, effects, failures>>
  BY DEF Submit, broker, process
<1>3. CASE i # id
  <2>1. f \notin Publishing(id) \cup Rejecting(id)
    BY <1>1, <1>3 DEF Publishing, Rejecting
  <2>2. WireKept(id)
    BY <1>1, <2>1, WireKeeps
  <2>3. ReadyKept(id) /\ InboxKept(id)
    BY <1>2, ReadyKeeps, InboxKeeps
  <2>4. HandKept(id) /\ (id \in dead' => Rejected(id))
    BY <1>2 DEF HandKept, Rejected
  <2>5. QED
    BY <1>2, <2>2, <2>3, <2>4, AllKept
<1>4. CASE i = id
  <2>1. Places(id) = {} /\ effects[id] = 0 /\ failures[id] = 0 /\ ~Rejected(id)
    BY <1>2, <1>4, NotYet
  <2>2. ~InWire(id) /\ ~InReady(id) /\ ~InInbox(id) /\ ~InHand(id)
    BY <2>1, FoundPlaces
  <2>3. f \in Publishing(id) /\ f \notin Rejecting(id)
    BY <1>1, <1>4 DEF Publishing, Rejecting
  <2>4. wire \in Seq(Frame)
    BY MailIds
  <2>5. /\ Once(wire', Publishing(id)) /\ ToSet(wire') = ToSet(wire) \cup {f}
        /\ Holds(wire', Rejecting(id)) <=> Holds(wire, Rejecting(id))
    BY <1>1, <2>2, <2>3, <2>4, Appended, NoneOnce DEF InWire
  <2>6. ~InReady(id)' /\ ~InInbox(id)' /\ ~InHand(id)' /\ ~Rejected(id)'
    BY <1>2, <2>1, <2>2, <2>5 DEF InReady, InInbox, InHand, Rejected
  <2>7. Alone(id)'
    BY <1>2, <2>1, <2>5, <2>6 DEF Alone, Places
  <2>8. \A x \in ToSet(wire') : x \in Publishing(id) => failures'[id] <= x.msg.retry
    BY <1>1, <1>2, <2>1, <2>5 DEF Bounded
  <2>9. QED
    BY <1>2, <2>6, <2>7, <2>8 DEF Bounded
<1>5. QED
  BY <1>3, <1>4

LEMMA DeliverSingle ==
    ASSUME MQAssumption, TypeInv, NEW id \in Msgs, Alone(id), Bounded(id),
           NEW q \in Queues, Deliver(q)
    PROVE  Alone(id)' /\ Bounded(id)'
<1>1. /\ ready[q] # <<>> /\ ready[q] \in Seq(Message) /\ inbox[q] \in Seq(Message)
      /\ UNCHANGED <<dead, wire, consumer, effects, failures>>
  BY DEF Deliver, process, mqObservers, TypeInv, Mails
<1>2. PICK m \in Message : m = Head(ready[q])
  BY <1>1, Behead
<1>3. /\ ready'[q] = Tail(ready[q]) /\ inbox'[q] = Append(inbox[q], m)
      /\ \A p \in Queues \ {q} : ready'[p] = ready[p] /\ inbox'[p] = inbox[p]
  BY <1>2 DEF Deliver, TypeInv, Mails
<1>4. /\ QueueOf[id] \in Queues /\ WireKept(id) /\ HandKept(id)
      /\ id \in dead' => Rejected(id)
  BY <1>1, MailIds, WireKeeps DEF HandKept, Rejected
<1>5. CASE ~(q = QueueOf[id] /\ m.id = id)
  <2>1. CASE q # QueueOf[id]
    <3>1. ReadyKept(id) /\ InboxKept(id)
      BY <1>3, <1>4, <2>1, ReadyKeeps, InboxKeeps
    <3>2. QED
      BY <1>1, <1>4, <3>1, AllKept
  <2>2. CASE q = QueueOf[id] /\ m.id # id
    <3>1. ReadyKept(id) /\ InboxKept(id)
      BY <1>1, <1>3, <2>2, ReadyKeeps, InboxKeeps
    <3>2. QED
      BY <1>1, <1>4, <3>1, AllKept
  <2>3. QED
    BY <1>5, <2>1, <2>2
<1>6. CASE q = QueueOf[id] /\ m.id = id
  <2>1. m \in Of(id)
    BY <1>6 DEF Of
  <2>2. /\ Holds(ready[q], Of(id)) /\ Once(ready'[q], Of(id)) /\ ~Holds(ready'[q], Of(id))
        /\ ToSet(ready[q]) = ToSet(ready'[q]) \cup {m}
    BY <1>1, <1>2, <1>3, <1>6, <2>1, Behead DEF Alone
  <2>3. /\ ~InWire(id) /\ ~InInbox(id) /\ ~InHand(id) /\ ~Rejected(id) /\ ~(effects[id] > 0)
    <3>1. "ready" \in Places(id)
      BY <1>6, <2>2, FoundPlaces DEF InReady
    <3>2. QED
      BY <3>1, Only
  <2>4. Once(inbox'[q], Of(id)) /\ ToSet(inbox'[q]) = ToSet(inbox[q]) \cup {m}
    BY <1>1, <1>3, <1>6, <2>3, Appended, NoneOnce DEF InInbox
  <2>5. ~InWire(id)' /\ ~InReady(id)' /\ ~InHand(id)' /\ ~Rejected(id)' /\ ~(effects'[id] > 0)
    BY <1>1, <1>6, <2>2, <2>3 DEF InWire, InReady, InHand, Rejected
  <2>6. Alone(id)'
    BY <1>1, <1>6, <2>2, <2>4, <2>5 DEF Alone, Places
  <2>7. /\ \A x \in ToSet(ready'[q]) : x.id = id => failures'[id] <= x.retry
        /\ \A x \in ToSet(inbox'[q]) : x.id = id => failures'[id] <= x.retry
    BY <1>1, <1>6, <2>2, <2>4 DEF Bounded
  <2>8. QED
    BY <1>1, <1>6, <2>5, <2>6, <2>7 DEF Bounded
<1>7. QED
  BY <1>5, <1>6

LEMMA ReceiveSingle ==
    ASSUME MQAssumption, TypeInv, NEW id \in Msgs, Alone(id), Bounded(id),
           NEW q \in Queues, Receive(q)
    PROVE  Alone(id)' /\ Bounded(id)'
<1>1. PICK m \in Message : m = Head(inbox[q])
  BY ReceiveTypes
<1>2. PICK at \in {"nacking", "handling"} : Turns(q, at, m)
  BY <1>1, ReceiveTypes
<1>3. /\ inbox[q] # <<>> /\ inbox[q] \in Seq(Message)
      /\ inbox'[q] = Tail(inbox[q])
      /\ \A p \in Queues \ {q} : inbox'[p] = inbox[p]
      /\ UNCHANGED <<wire, ready, dead, effects, failures>>
  BY DEF Receive, TypeInv, Mails, broker, mqObservers
<1>4. /\ QueueOf[id] \in Queues /\ WireKept(id) /\ ReadyKept(id)
      /\ id \in dead' => Rejected(id)
  BY <1>3, MailIds, WireKeeps, ReadyKeeps DEF Rejected
<1>5. CASE ~(q = QueueOf[id] /\ m.id = id)
  <2>1. InboxKept(id)
    BY <1>3, <1>4, InboxKeeps
  <2>2. HandKept(id)
    BY <1>2, <1>4, <1>5 DEF HandKept, Turns
  <2>3. QED
    BY <1>3, <1>4, <2>1, <2>2, AllKept
<1>6. CASE q = QueueOf[id] /\ m.id = id
  <2>1. m \in Of(id)
    BY <1>6 DEF Of
  <2>2. /\ Holds(inbox[q], Of(id)) /\ Once(inbox'[q], Of(id)) /\ ~Holds(inbox'[q], Of(id))
        /\ ToSet(inbox[q]) = ToSet(inbox'[q]) \cup {m}
    BY <1>1, <1>3, <1>6, <2>1, Behead DEF Alone
  <2>3. /\ ~InWire(id) /\ ~InReady(id) /\ ~Rejected(id) /\ ~(effects[id] > 0)
    <3>1. "inbox" \in Places(id)
      BY <1>6, <2>2, FoundPlaces DEF InInbox
    <3>2. QED
      BY <3>1, Only
  <2>4. ~InWire(id)' /\ ~InReady(id)' /\ ~InInbox(id)' /\ ~Rejected(id)' /\ ~(effects'[id] > 0)
    BY <1>3, <1>6, <2>2, <2>3 DEF InWire, InReady, InInbox, Rejected
  <2>5. Alone(id)'
    BY <1>3, <1>6, <2>2, <2>4 DEF Alone, Places
  <2>6. /\ \A x \in ToSet(inbox'[q]) : x.id = id => failures'[id] <= x.retry
        /\ failures'[id] <= m.retry
    BY <1>3, <1>6, <2>2 DEF Bounded
  <2>7. consumer'[q].at # "retrying" /\ consumer'[q].held = m
    BY <1>2 DEF Turns
  <2>8. QED
    BY <1>3, <1>6, <2>4, <2>5, <2>6, <2>7 DEF Bounded
<1>7. QED
  BY <1>5, <1>6

LEMMA SucceedSingle ==
    ASSUME MQAssumption, TypeInv, NEW id \in Msgs, Alone(id), Bounded(id),
           NEW q \in Queues, HandlerSucceeds(q)
    PROVE  Alone(id)' /\ Bounded(id)'
<1>1. PICK m \in Message : m = consumer[q].held /\ m \in Mail(q)
  BY HeldTyped DEF HandlerSucceeds, Holding
<1>2. /\ consumer[q].at = "handling" /\ Turns(q, "acking", m)
      /\ effects' = [effects EXCEPT ![m.id] = effects[m.id] + 1]
      /\ UNCHANGED <<wire, ready, dead, inbox, failures>>
  BY <1>1, SucceedTypes DEF HandlerSucceeds, broker
<1>3. QueueOf[id] \in Queues /\ QueueOf[m.id] = q /\ m.id \in Msgs
  BY <1>1, MailIds, MessageValues DEF Mail
<1>4. HandKept(id)
  BY <1>2, <1>3 DEF HandKept, Turns
<1>5. CASE m.id # id
  <2>1. effects'[id] = effects[id] /\ failures'[id] = failures[id]
    BY <1>2, <1>5 DEF TypeInv, Observing
  <2>2. QED
    BY <1>2, <1>4, <2>1, QuietSingle
<1>6. CASE m.id = id
  <2>1. InHand(id)
    BY <1>1, <1>2, <1>3, <1>6 DEF InHand
  <2>2. ~InWire(id) /\ ~InReady(id) /\ ~InInbox(id) /\ ~Rejected(id) /\ effects[id] = 0
    <3>1. "hand" \in Places(id)
      BY <2>1, FoundPlaces
    <3>2. QED
      BY <3>1, Only, MailIds
  <2>3. effects'[id] = 1
    BY <1>2, <1>3, <1>6, <2>2 DEF TypeInv, Observing
  <2>4. consumer'[q].at = "acking" /\ ~InHand(id)'
    BY <1>2, <1>3, <1>6 DEF InHand, Turns
  <2>5. ~InWire(id)' /\ ~InReady(id)' /\ ~InInbox(id)' /\ ~Rejected(id)'
    BY <1>2, <2>2 DEF InWire, InReady, InInbox, Rejected
  <2>6. Alone(id)'
    BY <1>2, <2>4, <2>5 DEF Alone, Places
  <2>7. QED
    BY <1>2, <1>3, <1>6, <2>3, <2>4, <2>5, <2>6 DEF Bounded
<1>7. QED
  BY <1>5, <1>6

LEMMA FailSingle ==
    ASSUME MQAssumption, TypeInv, NEW id \in Msgs, Alone(id), Bounded(id),
           NEW q \in Queues, HandlerFails(q)
    PROVE  Alone(id)' /\ Bounded(id)'
<1>1. PICK m \in Message : m = consumer[q].held /\ m \in Mail(q)
  BY HeldTyped DEF HandlerFails, Holding
<1>2. PICK at \in {"retrying", "nacking"} : at = IF MayRetry(m) THEN "retrying" ELSE "nacking"
  OBVIOUS
<1>3. /\ consumer[q].at = "handling" /\ Turns(q, at, m)
      /\ failures' = [failures EXCEPT ![m.id] = failures[m.id] + 1]
      /\ UNCHANGED <<wire, ready, dead, inbox, effects>>
  BY <1>1, <1>2, FailTypes DEF HandlerFails, broker
<1>4. QueueOf[id] \in Queues /\ QueueOf[m.id] = q /\ m.id \in Msgs
  BY <1>1, MailIds, MessageValues DEF Mail
<1>5. CASE m.id # id
  <2>1. effects'[id] = effects[id] /\ failures'[id] = failures[id]
    BY <1>3, <1>5 DEF TypeInv, Observing
  <2>2. HandKept(id)
    BY <1>3, <1>4, <1>5 DEF HandKept, Turns
  <2>3. QED
    BY <1>3, <2>1, <2>2, QuietSingle
<1>6. CASE m.id = id
  <2>1. InHand(id)
    BY <1>1, <1>3, <1>4, <1>6 DEF InHand
  <2>2. ~InWire(id) /\ ~InReady(id) /\ ~InInbox(id) /\ ~Rejected(id) /\ ~(effects[id] > 0)
    <3>1. "hand" \in Places(id)
      BY <2>1, FoundPlaces
    <3>2. QED
      BY <3>1, Only
  <2>3. /\ ~InWire(id)' /\ ~InReady(id)' /\ ~InInbox(id)' /\ ~Rejected(id)'
        /\ ~(effects'[id] > 0)
    BY <1>3, <2>2 DEF InWire, InReady, InInbox, Rejected
  <2>4. Alone(id)'
    BY <1>3, <2>3 DEF Alone, Places
  <2>5. failures[id] <= m.retry
    BY <1>1, <1>3, <1>4, <1>6 DEF Bounded
  <2>6. m.retry \in 0 .. 2 /\ failures[id] \in Nat /\ failures'[id] = failures[id] + 1
    BY <1>3, <1>6, MessageValues, MailIds DEF TypeInv, Observing
  <2>7. failures'[id] <= m.retry + 1 /\ failures'[id] <= RetryLimit
    BY <2>5, <2>6 DEF RetryLimit
  <2>8. consumer'[q].at # "handling" /\ consumer'[q].held = m
    BY <1>3 DEF Turns
  <2>9. \A x \in ToSet(wire') : x \notin Publishing(id)
    BY <2>3, MailIds, <1>3, Elements DEF InWire
  <2>10. /\ \A x \in ToSet(ready'[q]) : x.id # id
         /\ \A x \in ToSet(inbox'[q]) : x.id # id
    BY <1>3, <1>4, <1>6, <2>3, MailIds, Elements DEF InReady, InInbox, Of
  <2>11. effects'[id] <= 1
    BY <1>3 DEF Bounded
  <2>12. QED
    BY <1>4, <1>6, <2>3, <2>4, <2>7, <2>8, <2>9, <2>10, <2>11 DEF Bounded
<1>7. QED
  BY <1>5, <1>6

LEMMA RepublishSingle ==
    ASSUME MQAssumption, TypeInv, NEW id \in Msgs, Alone(id), Bounded(id),
           NEW q \in Queues, Republish(q)
    PROVE  Alone(id)' /\ Bounded(id)'
<1>1. PICK m \in Message : m = consumer[q].held /\ m \in Mail(q) /\ MayRetry(m)
  BY HeldTyped DEF Republish, Holding, HeldWell
<1>2. /\ consumer[q].at = "retrying" /\ Turns(q, "acking", m)
      /\ wire' = IF channel = "open" THEN Append(wire, [op |-> "publish", msg |-> Again(m)])
                 ELSE wire
      /\ UNCHANGED <<ready, dead, inbox, effects, failures>>
  BY <1>1, RepublishTypes DEF Republish, Publish, Again, broker, mqObservers
<1>3. PICK f \in Frame : /\ f.op = "publish" /\ f.msg.id = m.id /\ f.msg.retry = m.retry + 1
                         /\ wire' = IF channel = "open" THEN Append(wire, f) ELSE wire
  <2>1. PICK n \in Message : n = Again(m) /\ n.id = m.id /\ n.retry = m.retry + 1
    BY <1>1, RetriedValues
  <2>2. QED
    BY <1>2, <2>1, MessageValues
<1>4. QueueOf[id] \in Queues /\ QueueOf[m.id] = q /\ m.id \in Msgs
  BY <1>1, MailIds, MessageValues DEF Mail
<1>5. /\ HandKept(id) /\ ReadyKept(id) /\ InboxKept(id) /\ (id \in dead' => Rejected(id))
      /\ effects'[id] = effects[id] /\ failures'[id] = failures[id]
  BY <1>2, <1>4, ReadyKeeps, InboxKeeps DEF HandKept, Turns, Rejected
<1>6. CASE m.id # id \/ channel # "open"
  <2>1. f \notin Publishing(id) \cup Rejecting(id) \/ channel # "open"
    BY <1>3, <1>6 DEF Publishing, Rejecting
  <2>2. WireKept(id)
    BY <1>3, <2>1, WireKeeps
  <2>3. QED
    BY <1>5, <2>2, AllKept
<1>7. CASE m.id = id /\ channel = "open"
  <2>1. InHand(id)
    BY <1>1, <1>2, <1>4, <1>7 DEF InHand
  <2>2. ~InWire(id) /\ ~InReady(id) /\ ~InInbox(id) /\ ~Rejected(id) /\ ~(effects[id] > 0)
    <3>1. "hand" \in Places(id)
      BY <2>1, FoundPlaces
    <3>2. QED
      BY <3>1, Only
  <2>3. f \in Publishing(id) /\ f \notin Rejecting(id)
    BY <1>3, <1>7 DEF Publishing, Rejecting
  <2>4. wire \in Seq(Frame)
    BY MailIds
  <2>5. /\ Once(wire', Publishing(id)) /\ ToSet(wire') = ToSet(wire) \cup {f}
        /\ Holds(wire', Rejecting(id)) <=> Holds(wire, Rejecting(id))
    BY <1>3, <1>7, <2>2, <2>3, <2>4, Appended, NoneOnce DEF InWire
  <2>6. consumer'[q].at = "acking" /\ ~InHand(id)'
    BY <1>2, <1>4, <1>7 DEF InHand, Turns
  <2>7. ~InReady(id)' /\ ~InInbox(id)' /\ ~Rejected(id)' /\ ~(effects'[id] > 0)
    BY <1>2, <2>2, <2>5 DEF InReady, InInbox, Rejected
  <2>8. Alone(id)'
    BY <1>2, <2>2, <2>5, <2>6, <2>7 DEF Alone, Places
  <2>9. failures'[id] <= f.msg.retry
    <3>1. failures[id] <= m.retry + 1
      BY <1>1, <1>2, <1>4, <1>7 DEF Bounded
    <3>2. QED
      BY <1>3, <1>5, <3>1
  <2>10. \A x \in ToSet(wire') : x \in Publishing(id) => failures'[id] <= x.msg.retry
    BY <1>5, <2>5, <2>9 DEF Bounded
  <2>11. QED
    BY <1>2, <1>4, <1>7, <2>6, <2>7, <2>8, <2>10 DEF Bounded
<1>8. QED
  BY <1>6, <1>7

LEMMA AnswerSingle ==
    ASSUME MQAssumption, TypeInv, NEW id \in Msgs, Alone(id), Bounded(id),
           NEW q \in Queues, Answer(q)
    PROVE  Alone(id)' /\ Bounded(id)'
<1>1. PICK m \in Message : m = consumer[q].held /\ m \in Mail(q)
  BY HeldTyped DEF Answer, Holding
<1>2. PICK op \in {"ack", "nack"} : op = IF consumer[q].at = "acking" THEN "ack" ELSE "nack"
  OBVIOUS
<1>3. PICK f \in Frame : f.op = op /\ f.msg = m
  BY <1>2, MessageValues
<1>4. /\ consumer[q].at \in {"acking", "nacking"}
      /\ wire' = IF consumer[q].subscribed THEN Append(wire, f) ELSE wire
      /\ Turns(q, "receiving", NoMessage)
      /\ UNCHANGED <<ready, dead, inbox, effects, failures>>
  <2>1. wire' = IF consumer[q].subscribed THEN Append(wire, [op |-> op, msg |-> m]) ELSE wire
    BY <1>1, <1>2 DEF Answer
  <2>2. f = [op |-> op, msg |-> m]
    BY <1>3 DEF Frame
  <2>3. QED
    BY <2>1, <2>2, AnswerTypes DEF Answer, broker, mqObservers
<1>5. QueueOf[id] \in Queues /\ QueueOf[m.id] = q /\ m.id \in Msgs
  BY <1>1, MailIds, MessageValues DEF Mail
<1>6. /\ HandKept(id) /\ ReadyKept(id) /\ InboxKept(id) /\ (id \in dead' => Rejected(id))
      /\ effects'[id] = effects[id] /\ failures'[id] = failures[id]
  BY <1>4, <1>5, ReadyKeeps, InboxKeeps DEF HandKept, Turns, Rejected
<1>7. CASE m.id # id \/ op = "ack" \/ ~consumer[q].subscribed
  <2>1. f \notin Publishing(id) \cup Rejecting(id) \/ ~consumer[q].subscribed
    BY <1>3, <1>7 DEF Publishing, Rejecting
  <2>2. WireKept(id)
    BY <1>4, <2>1, WireKeeps
  <2>3. QED
    BY <1>6, <2>2, AllKept
<1>8. CASE m.id = id /\ op = "nack" /\ consumer[q].subscribed
  <2>1. InHand(id)
    BY <1>1, <1>2, <1>4, <1>5, <1>8 DEF InHand
  <2>2. ~InWire(id) /\ ~InReady(id) /\ ~InInbox(id) /\ effects[id] = 0
    <3>1. "hand" \in Places(id)
      BY <2>1, FoundPlaces
    <3>2. QED
      BY <3>1, Only, MailIds
  <2>3. f \notin Publishing(id)
    BY <1>3, <1>8 DEF Publishing
  <2>4. wire \in Seq(Frame)
    BY MailIds
  <2>5. ~InWire(id)' /\ ToSet(wire') = ToSet(wire) \cup {f} /\ Once(wire', Publishing(id))
    BY <1>4, <1>8, <2>2, <2>3, <2>4, Appended, NoneOnce DEF InWire
  <2>6. consumer'[q].at = "receiving" /\ ~InHand(id)'
    BY <1>4, <1>5, <1>8 DEF InHand, Turns
  <2>7. ~InReady(id)' /\ ~InInbox(id)'
    BY <1>4, <2>2 DEF InReady, InInbox
  <2>8. Alone(id)'
    BY <1>4, <2>5, <2>6, <2>7 DEF Alone, Places
  <2>9. \A x \in ToSet(wire') : x \in Publishing(id) => failures'[id] <= x.msg.retry
    BY <1>6, <2>3, <2>5 DEF Bounded
  <2>10. QED
    BY <1>4, <1>5, <1>8, <2>2, <2>6, <2>8, <2>9 DEF Bounded
<1>9. QED
  BY <1>2, <1>7, <1>8

LEMMA ReadSingle ==
    ASSUME MQAssumption, TypeInv, NEW id \in Msgs, Alone(id), Bounded(id), BrokerReads
    PROVE  Alone(id)' /\ Bounded(id)'
<1>0. wire # <<>> /\ wire \in Seq(Frame) /\ wire' = Tail(wire)
  BY MailIds DEF BrokerReads
<1>1. PICK f \in Frame : f = Head(wire)
  BY <1>0, Behead
<1>m. PICK m \in Message : m = f.msg
  BY DEF Frame
<1>q. PICK q \in Queues : q = QueueOf[m.id]
  BY MessageValues DEF MQAssumption
<1>2. /\ ready' = IF f.op = "publish" THEN [ready EXCEPT ![q] = Append(ready[q], m)] ELSE ready
      /\ dead' = IF f.op = "nack" THEN dead \cup {m.id} ELSE dead
      /\ UNCHANGED <<inbox, consumer, effects, failures>>
  BY <1>1, <1>m, <1>q DEF BrokerReads, process
<1>3. /\ QueueOf[id] \in Queues /\ WireKept(id) /\ InboxKept(id) /\ HandKept(id)
  BY <1>0, <1>2, MailIds, WireKeeps, InboxKeeps DEF HandKept
<1>4. /\ f.op = "publish" => ready'[q] = Append(ready[q], m)
      /\ f.op # "publish" => ready'[q] = ready[q]
      /\ \A p \in Queues \ {q} : ready'[p] = ready[p]
      /\ ready[q] \in Seq(Message)
  BY <1>2 DEF TypeInv, Mails
<1>5. CASE ~(f.op = "publish" /\ m.id = id)
  <2>1. ReadyKept(id)
    BY <1>3, <1>4, <1>5, ReadyKeeps
  <2>2. id \in dead' => Rejected(id)
    <3>1. CASE f.op = "nack" /\ m.id = id
      <4>1. f \in Rejecting(id)
        BY <1>m, <3>1 DEF Rejecting
      <4>2. Holds(wire, Rejecting(id))
        BY <1>0, <1>1, <4>1, Behead
      <4>3. QED
        BY <4>2 DEF Rejected
    <3>2. CASE ~(f.op = "nack" /\ m.id = id)
      BY <1>2, <3>2 DEF Rejected
    <3>3. QED
      BY <3>1, <3>2
  <2>3. QED
    BY <1>2, <1>3, <2>1, <2>2, AllKept
<1>6. CASE f.op = "publish" /\ m.id = id
  <2>1. f \in Publishing(id) /\ m \in Of(id) /\ q = QueueOf[id]
    BY <1>m, <1>q, <1>6 DEF Publishing, Of
  <2>2. /\ InWire(id) /\ ~Holds(wire', Publishing(id)) /\ f \in ToSet(wire)
    <3>1. /\ Holds(wire, Publishing(id)) /\ ~Holds(wire', Publishing(id))
          /\ ToSet(wire) = ToSet(wire') \cup {f}
      BY <1>0, <1>1, <2>1, Behead DEF Alone
    <3>2. QED
      BY <3>1 DEF InWire
  <2>3. ~InReady(id) /\ ~InInbox(id) /\ ~InHand(id) /\ ~Rejected(id) /\ ~(effects[id] > 0)
    <3>1. "wire" \in Places(id)
      BY <2>2, FoundPlaces
    <3>2. QED
      BY <3>1, Only
  <2>4. Once(ready'[q], Of(id)) /\ ToSet(ready'[q]) = ToSet(ready[q]) \cup {m}
    <3>1. ready'[q] = Append(ready[q], m) /\ ready[q] \in Seq(Message)
      BY <1>4, <1>6
    <3>2. ~Holds(ready[q], Of(id)) /\ Once(ready[q], Of(id))
      BY <2>1, <2>3, NoneOnce DEF InReady
    <3>3. QED
      BY <2>1, <3>1, <3>2, Appended
  <2>5. ~InWire(id)' /\ ~InInbox(id)' /\ ~InHand(id)' /\ ~Rejected(id)' /\ ~(effects'[id] > 0)
    BY <1>2, <1>3, <1>6, <2>2, <2>3 DEF InWire, InInbox, InHand, Rejected, WireKept
  <2>6. Alone(id)'
    BY <1>3, <2>1, <2>4, <2>5 DEF Alone, Places, WireKept, InboxKept
  <2>7. failures'[id] <= m.retry
    BY <1>2, <1>m, <2>1, <2>2 DEF Bounded
  <2>8. \A x \in ToSet(ready'[q]) : x.id = id => failures'[id] <= x.retry
    BY <1>2, <2>1, <2>4, <2>7 DEF Bounded
  <2>9. \A x \in ToSet(wire') : x \in Publishing(id) => failures'[id] <= x.msg.retry
    BY <1>2, <1>3 DEF WireKept, Bounded
  <2>10. QED
    BY <1>2, <2>1, <2>5, <2>6, <2>8, <2>9 DEF Bounded
<1>7. QED
  BY <1>5, <1>6

\* A connection ends, and the message was not given back by it.
LEMMA DisconnectSingle ==
    ASSUME MQAssumption, TypeInv, NEW id \in Msgs \ redelivered', Alone(id), Bounded(id),
           Disconnect,
           inbox'[QueueOf[id]] = inbox[QueueOf[id]] \/ inbox'[QueueOf[id]] = <<>>,
           HandKept(id)
    PROVE  Alone(id)' /\ Bounded(id)'
<1> DEFINE q == QueueOf[id]
<1>1. q \in Queues /\ unacked[q] \in Seq(Message)
  BY MailIds
<1>2. /\ ready'[q] = unacked[q] \o ready[q] /\ wire' = <<>>
      /\ redelivered' = redelivered \cup UNION {{m.id : m \in ToSet(unacked[p])} : p \in Queues}
      /\ UNCHANGED <<dead, effects, failures>>
  BY <1>1 DEF Disconnect
<1>3. ~Holds(unacked[q], Of(id))
  <2>1. \A m \in ToSet(unacked[q]) : m.id \in redelivered'
    BY <1>1, <1>2
  <2>2. QED
    BY <1>1, <2>1, Elements DEF Of
<1>4. WireKept(id)
  BY <1>2, WireKeeps
<1>5. ReadyKept(id)
  BY <1>1, <1>2, <1>3, ReadyKeeps
<1>6. InboxKept(id)
  BY InboxKeeps
<1>7. id \in dead' => Rejected(id)
  BY <1>2 DEF Rejected
<1>8. QED
  BY <1>2, <1>4, <1>5, <1>6, <1>7, AllKept

LEMMA StepSingle == ASSUME MQAssumption PROVE TypeInv /\ Single /\ [MQNext]_mqVars => Single'
<1> SUFFICES ASSUME TypeInv, Single, [MQNext]_mqVars, NEW id \in Msgs \ redelivered'
             PROVE  Alone(id)' /\ Bounded(id)'
  BY DEF Single
<1>0. redelivered \subseteq redelivered'
  <2>1. CASE MQNext
    BY <2>1 DEF MQNext, Submit, Deliver, ConsumerStep, Start, Receive, HandlerSucceeds, HandlerFails,
       Republish, Answer, SeeClosed, Resubscribe, WatcherStep, NoticeClosed, Reconnect, DialFails,
       BrokerReads, Drop, Restart, Disconnect, mqObservers
  <2>2. CASE UNCHANGED mqVars
    BY <2>2 DEF mqVars, mqObservers
  <2>3. QED
    BY <2>1, <2>2
<1>1. id \in Msgs /\ Alone(id) /\ Bounded(id) /\ QueueOf[id] \in Queues
  BY <1>0, MailIds DEF Single
<1>2. ASSUME NEW i \in Msgs, Submit(i) PROVE Alone(id)' /\ Bounded(id)'
  BY <1>1, <1>2, SubmitSingle
<1>3. ASSUME NEW q \in Queues, Deliver(q) PROVE Alone(id)' /\ Bounded(id)'
  BY <1>1, <1>3, DeliverSingle
<1>4. ASSUME NEW q \in Queues, Start(q) \/ Resubscribe(q) PROVE Alone(id)' /\ Bounded(id)'
  <2>1. UNCHANGED <<wire, ready, dead, inbox, effects, failures>>
    BY <1>4 DEF Start, Resubscribe, broker, mqObservers
  <2>2. \A p \in Queues : \/ consumer'[p] = consumer[p]
                          \/ consumer'[p].at \in {"receiving", "stopped"}
    BY <1>4, ConsumerValues DEF Start, Resubscribe, TypeInv, Consuming
  <2>3. HandKept(id)
    BY <1>1, <2>2 DEF HandKept
  <2>4. QED
    BY <1>1, <2>1, <2>3, QuietSingle
<1>5. ASSUME NEW q \in Queues, Receive(q) PROVE Alone(id)' /\ Bounded(id)'
  BY <1>1, <1>5, ReceiveSingle
<1>6. ASSUME NEW q \in Queues, HandlerSucceeds(q) PROVE Alone(id)' /\ Bounded(id)'
  BY <1>1, <1>6, SucceedSingle
<1>7. ASSUME NEW q \in Queues, HandlerFails(q) PROVE Alone(id)' /\ Bounded(id)'
  BY <1>1, <1>7, FailSingle
<1>8. ASSUME NEW q \in Queues, Republish(q) PROVE Alone(id)' /\ Bounded(id)'
  BY <1>1, <1>8, RepublishSingle
<1>9. ASSUME NEW q \in Queues, Answer(q) PROVE Alone(id)' /\ Bounded(id)'
  BY <1>1, <1>9, AnswerSingle
<1>10. ASSUME NEW q \in Queues, SeeClosed(q) PROVE Alone(id)' /\ Bounded(id)'
  <2>1. /\ UNCHANGED <<wire, ready, dead, effects, failures>>
        /\ inbox'[QueueOf[id]] = inbox[QueueOf[id]] \/ inbox'[QueueOf[id]] = <<>>
    BY <1>1, <1>10 DEF SeeClosed, broker, mqObservers, TypeInv, Mails
  <2>2. HandKept(id)
    BY <1>1, <1>10, ClosedTypes DEF HandKept, Turns
  <2>3. QED
    BY <1>1, <2>1, <2>2, QuietSingle
<1>11. CASE WatcherStep \/ UNCHANGED mqVars
  <2>1. UNCHANGED <<wire, ready, dead, inbox, effects, failures, consumer>>
    BY <1>11 DEF WatcherStep, NoticeClosed, Reconnect, DialFails, mqVars, broker, process, mqObservers
  <2>2. QED
    BY <1>1, <2>1, QuietSingle DEF HandKept
<1>12. CASE BrokerReads
  BY <1>1, <1>12, ReadSingle
<1>13. CASE Drop
  <2>1. /\ Disconnect /\ inbox' = inbox
        /\ consumer' = [q \in Queues |-> [consumer[q] EXCEPT !.subscribed = FALSE]]
    BY <1>13 DEF Drop
  <2>2. consumer[QueueOf[id]] \in Consumer
    BY <1>1 DEF TypeInv, Consuming
  <2>3. HandKept(id)
    BY <1>1, <2>1, <2>2, ConsumerValues DEF HandKept
  <2>4. QED
    BY <1>1, <2>1, <2>3, DisconnectSingle
<1>14. CASE Restart
  <2>1. /\ Disconnect /\ inbox'[QueueOf[id]] = <<>>
        /\ consumer'[QueueOf[id]] = Absent
    BY <1>1, <1>14 DEF Restart
  <2>2. HandKept(id)
    BY <2>1, ConsumerValues DEF HandKept
  <2>3. QED
    BY <1>1, <2>1, <2>2, DisconnectSingle
<1>15. QED
  BY <1>2, <1>3, <1>4, <1>5, <1>6, <1>7, <1>8, <1>9, <1>10, <1>11, <1>12, <1>13, <1>14
     DEF MQNext, ConsumerStep

(* Only a message whose handler failed three times is dead-lettered, and   *)
(* one that no lost connection gave back is handled at most once, fails at *)
(* most three times, and is not both handled and dead-lettered: there is   *)
(* one copy of it, which moves on (startQueueConsumer).                    *)
THEOREM AttemptsCounted == ASSUME MQAssumption PROVE MQSpec => []AttemptsAccounted
<1>1. TypeInv /\ Single => AttemptsAccounted
  <2> SUFFICES ASSUME TypeInv, Single PROVE AttemptsAccounted
    OBVIOUS
  <2>1. \A id \in dead \ Malformed : failures[id] >= RetryLimit
    BY DEF TypeInv, Observing, Hopeless
  <2>2. ASSUME NEW id \in Msgs \ redelivered
        PROVE  /\ effects[id] <= 1 /\ failures[id] <= RetryLimit
               /\ id \in dead => effects[id] = 0
    BY DEF Single, Bounded, Rejected
  <2>3. QED
    BY <2>1, <2>2 DEF AttemptsAccounted
<1>2. QED
  BY <1>1, InitTypes, StepTypes, InitSingle, StepSingle, PTL DEF MQSpec

-----------------------------------------------------------------------------
(***************************************************************************)
(* Challenge environments.                                                 *)
(***************************************************************************)
Phase == {"new", "booting", "checking", "updating", "cleaning", "failing", "done"}
RowStatus == {"creating", "running", "failed", "terminated", "expired"}
Errand == {"idle", "replacing", "closing", "creating", "expiring", "stopping",
           "terminating"}

(* The newest of several environments.                                     *)
LEMMA MaxIsNewest ==
    ASSUME NEW n \in Nat, NEW S, S \subseteq 1 .. n, S # {}
    PROVE  Max(S) \in S /\ \A x \in S : Max(S) >= x
<1> DEFINE T == {n - x : x \in S}
<1>1. T \subseteq Nat /\ T # {}
  <2>1. \A x \in S : x \in Int /\ x <= n
    OBVIOUS
  <2>2. \A x \in S : n - x \in Nat
    BY <2>1
  <2>3. QED
    BY <2>2
<1> HIDE DEF T
<1>2. PICK m \in T : \A y \in T : ~(<<y, m>> \in OpToRel(<, Nat))
  BY <1>1, NatLessThanWellFounded, WFMin
<1>3. \A y \in T : ~(y < m)
  <2> SUFFICES ASSUME NEW y \in T, y < m PROVE FALSE
    OBVIOUS
  <2>1. <<y, m>> \in Nat \X Nat
    BY <1>1, <1>2
  <2>2. <<y, m>> \in OpToRel(<, Nat)
    BY <2>1 DEF OpToRel
  <2>3. QED
    BY <1>2, <2>2
<1>4. PICK z \in S : m = n - z
  BY <1>2 DEF T
<1>5. \A x \in S : z >= x
  <2> SUFFICES ASSUME NEW x \in S PROVE z >= x
    OBVIOUS
  <2>1. n - x \in T
    BY DEF T
  <2>2. ~(n - x < n - z)
    BY <1>3, <1>4, <2>1
  <2>3. QED
    BY <2>2
<1>6. QED
  BY <1>4, <1>5 DEF Max

(* What the requests and the provisioner do to the table, one write at a   *)
(* time.                                                                   *)
LEMMA RowUpdate ==
    ASSUME NEW q \in Seq(Row), NEW i \in DOMAIN q, NEW v \in Row
    PROVE  /\ [q EXCEPT ![i] = v] \in Seq(Row)
           /\ DOMAIN [q EXCEPT ![i] = v] = DOMAIN q
           /\ Len([q EXCEPT ![i] = v]) = Len(q)
           /\ [q EXCEPT ![i] = v][i] = v
           /\ \A j \in DOMAIN q \ {i} : [q EXCEPT ![i] = v][j] = q[j]
  OBVIOUS

\* Environment i's row gets this status; the other rows stay.
RowSaved(i, status) ==
    /\ rows' \in Seq(Row) /\ Len(rows') = Len(rows) /\ DOMAIN rows' = DOMAIN rows
    /\ \A j \in DOMAIN rows \ {i} : rows'[j] = rows[j]
    /\ rows'[i].status = status

LEMMA StatusSaved ==
    ASSUME TypeOK, NEW i \in DOMAIN rows, NEW s \in RowStatus, SaveStatus(i, s)
    PROVE  /\ RowSaved(i, s)
           /\ rows'[i].hasPod = rows[i].hasPod /\ rows'[i].lapsed = rows[i].lapsed
<1> DEFINE v == [rows[i] EXCEPT !.status = s]
<1>1. rows \in Seq(Row) /\ rows[i] \in Row
  BY DEF TypeOK
<1>2. /\ v \in Row /\ v.status = s
      /\ v.hasPod = rows[i].hasPod /\ v.lapsed = rows[i].lapsed
  BY <1>1 DEF Row, RowStatus
<1>3. rows' = [rows EXCEPT ![i] = v]
  BY DEF SaveStatus
<1> HIDE DEF v
<1>4. QED
  BY <1>1, <1>2, <1>3, RowUpdate DEF RowSaved

\* Provisioner i moves from one phase to another.
RowMoved(i, from, to) ==
    /\ provisioner[i] = from
    /\ provisioner' \in Seq(Phase) /\ Len(provisioner') = Len(rows)
    /\ provisioner'[i] = to
    /\ \A j \in DOMAIN rows \ {i} : provisioner'[j] = provisioner[j]

LEMMA PhaseMoved ==
    ASSUME TypeOK, NEW i \in DOMAIN rows, NEW to \in Phase,
           provisioner' = [provisioner EXCEPT ![i] = to]
    PROVE  RowMoved(i, provisioner[i], to)
<1>1. provisioner \in Seq(Phase) /\ Len(provisioner) = Len(rows)
      /\ DOMAIN provisioner = DOMAIN rows
  BY DEF TypeOK, Phase
<1>2. QED
  BY <1>1 DEF RowMoved

\* Request r goes on to an errand; the others stay.
Goes(r, at, env) ==
    /\ request' \in [Requests -> Request]
    /\ request'[r].at = at /\ request'[r].env = env
    /\ \A q \in Requests \ {r} : request'[q] = request[q]

LEMMA RequestGoes ==
    ASSUME ChallengeAssumption, TypeOK, NEW r \in Requests, NEW at \in Errand, NEW env \in DOMAIN rows \cup {0},
           GoTo(r, at, env)
    PROVE  Goes(r, at, env)
<1>1. env \in 0 .. MaxEnvs
  <2>1. Len(rows) \in Nat /\ Len(rows) <= MaxEnvs /\ DOMAIN rows = 1 .. Len(rows)
    BY DEF TypeOK
  <2>2. QED
    BY <2>1 DEF ChallengeAssumption
<1>2. [at |-> at, env |-> env] \in Request
  BY <1>1 DEF Request, Errand
<1>3. QED
  BY <1>2 DEF GoTo, Goes, TypeOK

LEMMA PodsDeleted ==
    ASSUME TypeOK, ChallengeAssumption, NEW i \in DOMAIN rows, DeletePods(i)
    PROVE  /\ pods' \subseteq pods /\ \A j \in DOMAIN rows \ {i} : j \in pods <=> j \in pods'
           /\ lost \subseteq lost' /\ lost' \subseteq lost \cup {i}
           /\ i \notin pods' \/ i \in lost'
           /\ faults' \in 0 .. MaxFaults
  BY DEF DeletePods, TypeOK, ChallengeAssumption

LEMMA ActiveIsNewest ==
    ASSUME TypeOK
    PROVE  /\ ActiveEnv \in DOMAIN rows \cup {0}
           /\ ActiveEnv # 0 => rows[ActiveEnv].status \in ActiveStatuses
           /\ \A j \in DOMAIN rows : rows[j].status \in ActiveStatuses =>
                 ActiveEnv # 0 /\ ActiveEnv >= j
<1> DEFINE active == {i \in DOMAIN rows : rows[i].status \in ActiveStatuses}
<1>1. Len(rows) \in Nat /\ DOMAIN rows = 1 .. Len(rows)
  BY DEF TypeOK
<1>2. ActiveEnv = IF active = {} THEN 0 ELSE Max(active)
  BY DEF ActiveEnv
<1>3. active # {} => Max(active) \in active /\ \A x \in active : Max(active) >= x
  BY <1>1, MaxIsNewest
<1>4. QED
  BY <1>1, <1>2, <1>3

-----------------------------------------------------------------------------
(***************************************************************************)
(* The inductive invariant.                                                *)
(***************************************************************************)
\* What the row, the provisioner and the pods of an environment say of each
\* other.
RowAt(i) ==
    /\ provisioner[i] \in {"new", "failing"} => i \notin pods
    /\ provisioner[i] # "done" =>
          /\ rows[i].status \in {"creating", "terminated"}
          /\ ~rows[i].hasPod /\ ~rows[i].lapsed
    /\ rows[i].status = "failed" => i \notin pods
    /\ rows[i].status = "running" => rows[i].hasPod
    /\ provisioner[i] = "updating" => rows[i].status = "creating" \/ i \in crossed
    /\ i \in pods /\ provisioner[i] = "done" =>
          rows[i].status \in {"running", "expired"} \/ i \in crossed \cup lost

RowSound == \A i \in DOMAIN rows : RowAt(i)

\* What a request that is to write the row of environment i knows of it.
ErrandAt(r, i) ==
    /\ request[r].at \notin {"idle", "creating"} => i \in DOMAIN rows
    /\ request[r].at \in {"expiring", "replacing", "closing", "stopping"} =>
          provisioner[i] = "done"
    /\ request[r].at = "closing" => i \notin pods \/ i \in crossed \cup lost
    /\ request[r].at = "terminating" =>
          /\ provisioner[i] = "updating" => i \in crossed
          /\ provisioner[i] = "done" => i \notin pods \/ i \in crossed \cup lost

ErrandSound ==
    \A r \in Requests, i \in DOMAIN rows \cup {0} : request[r].env = i => ErrandAt(r, i)

Live(i) == rows[i].status \in {"creating", "running"}

\* Only the newest environment is live, and none where one is to be created.
SingleLive ==
    ~overlapped /\ crossed = {} =>
        /\ \A r, q \in Requests : request[r].at # "idle" /\ request[q].at # "idle" => r = q
        /\ \A j \in DOMAIN rows : Live(j) => j = Len(rows)
        /\ \A r \in Requests, j \in DOMAIN rows : Live(j) =>
              /\ request[r].at # "creating"
              /\ request[r].at \in {"replacing", "closing"} => request[r].env = j

IInv == TypeOK /\ RowSound /\ ErrandSound /\ SingleLive

ChallengeTyped ==
    /\ ongoing \in BOOLEAN
    /\ rows \in Seq(Row) /\ Len(rows) <= MaxEnvs
    /\ pods \subseteq DOMAIN rows /\ crossed \subseteq DOMAIN rows /\ lost \subseteq DOMAIN rows
    /\ provisioner \in Seq(Phase) /\ Len(provisioner) = Len(rows)
    /\ request \in [Requests -> Request]
    /\ \A r \in Requests : request[r].env \in DOMAIN rows \cup {0}
    /\ overlapped \in BOOLEAN
    /\ faults \in 0 .. MaxFaults

LEMMA TypeParts == (TypeOK <=> ChallengeTyped) /\ (TypeOK' <=> ChallengeTyped')
<1>1. TypeOK <=> ChallengeTyped
  BY DEF TypeOK, ChallengeTyped, Phase
<1>2. TypeOK' <=> ChallengeTyped'
  BY DEF TypeOK, ChallengeTyped, Phase
<1>3. QED
  BY <1>1, <1>2

LEMMA InitHolds == ASSUME ChallengeAssumption PROVE Init => IInv
<1> SUFFICES ASSUME Init PROVE IInv
  OBVIOUS
<1>1. Idle \in Request /\ Idle.at = "idle" /\ Idle.env = 0
  BY DEF Idle, Request, ChallengeAssumption
<1>2. rows = <<>> /\ provisioner = <<>> /\ DOMAIN rows = {} /\ Len(rows) = 0 /\ Len(provisioner) = 0
  BY DEF Init
<1>3. ChallengeTyped
  <2>1. rows \in Seq(Row) /\ provisioner \in Seq(Phase)
    BY <1>2
  <2>2. request \in [Requests -> Request] /\ \A r \in Requests : request[r].env = 0
    BY <1>1 DEF Init
  <2>3. Len(rows) <= MaxEnvs /\ faults \in 0 .. MaxFaults
    BY <1>2 DEF Init, ChallengeAssumption
  <2>4. QED
    BY <1>2, <2>1, <2>2, <2>3 DEF Init, ChallengeTyped
<1>4. RowSound /\ ErrandSound /\ SingleLive
  BY <1>1, <1>2 DEF Init, RowSound, ErrandSound, ErrandAt, SingleLive
<1>5. QED
  BY <1>3, <1>4, TypeParts DEF IInv

\* Entering while another request is under way is an overlap.
LEMMA Enters ==
    ASSUME IInv, NEW r \in Requests, Enter(r)
    PROVE  /\ request[r].at = "idle" /\ overlapped' \in BOOLEAN
           /\ ~overlapped' => ~overlapped /\ \A q \in Requests : request[q].at = "idle"
  BY DEF Enter, IInv, TypeOK

\* A request that reads the newest active environment and takes note of it.
LEMMA ReadsKeep ==
    ASSUME ChallengeAssumption, IInv, NEW r \in Requests, Enter(r),
           NEW at \in Errand, NEW i \in DOMAIN rows \cup {0}, Goes(r, at, i),
           UNCHANGED <<ongoing, rows, pods, provisioner, lost, faults>>,
           crossed \subseteq crossed', crossed' \subseteq DOMAIN rows,
           at # "idle", at # "creating" => i # 0,
           at \in {"expiring", "replacing", "closing", "stopping"} => provisioner[i] = "done",
           at = "closing" => i \notin pods,
           at = "terminating" =>
                 /\ provisioner[i] = "updating" => i \in crossed'
                 /\ provisioner[i] = "done" => i \notin pods \/ i \in crossed \cup lost,
           \A j \in DOMAIN rows : Live(j) =>
                 at # "creating" /\ (at \in {"replacing", "closing"} /\ j = Len(rows) => i = j)
    PROVE  IInv'
<1>0. ChallengeTyped /\ RowSound /\ ErrandSound /\ SingleLive
  BY TypeParts DEF IInv
<1>1. ChallengeTyped'
  BY <1>0, Enters DEF ChallengeTyped, Goes
<1>2. RowSound'
  BY <1>0 DEF RowSound, RowAt
<1>3. ErrandSound'
  BY <1>0 DEF ErrandSound, ErrandAt, Goes
<1>4. SingleLive'
  <2> SUFFICES ASSUME ~overlapped', crossed' = {} PROVE SingleLive'
    BY DEF SingleLive
  <2>1. /\ ~overlapped /\ crossed = {} /\ \A q \in Requests : request[q].at = "idle"
        /\ \A j \in DOMAIN rows : Live(j) => j = Len(rows)
    BY <1>0, Enters DEF SingleLive
  <2>2. \A q \in Requests \ {r} : request'[q].at = "idle"
    BY <2>1 DEF Goes
  <2>3. request'[r].at = at /\ request'[r].env = i /\ \A j : Live(j)' <=> Live(j)
    BY DEF Goes, Live
  <2>4. QED
    BY <2>1, <2>2, <2>3 DEF SingleLive
<1>5. QED
  BY <1>1, <1>2, <1>3, <1>4, TypeParts DEF IInv

\* A request that deletes the pods of its environment.
LEMMA CleansKeep ==
    ASSUME ChallengeAssumption, IInv, NEW r \in Requests, NEW i \in DOMAIN rows,
           request[r].env = i, DeletePods(i),
           \/ request[r].at = "replacing" /\ Goes(r, "closing", i)
           \/ request[r].at = "stopping" /\ Goes(r, "terminating", i),
           UNCHANGED <<ongoing, rows, provisioner, crossed, overlapped>>
    PROVE  IInv'
<1>0. ChallengeTyped /\ RowSound /\ ErrandSound /\ SingleLive
  BY TypeParts DEF IInv
<1>1. /\ pods' \subseteq pods /\ \A j \in DOMAIN rows \ {i} : j \in pods <=> j \in pods'
      /\ lost \subseteq lost' /\ lost' \subseteq lost \cup {i}
      /\ i \notin pods' \/ i \in lost'
      /\ faults' \in 0 .. MaxFaults
  BY PodsDeleted DEF IInv
<1>2. provisioner[i] = "done"
  BY <1>0 DEF ErrandSound, ErrandAt
<1>3. ChallengeTyped'
  BY <1>0, <1>1 DEF ChallengeTyped, Goes
<1>4. RowSound'
  BY <1>0, <1>1 DEF RowSound, RowAt
<1>5. ErrandSound'
  BY <1>0, <1>1, <1>2 DEF ErrandSound, ErrandAt, Goes
<1>6. SingleLive'
  BY <1>0 DEF SingleLive, Live, Goes
<1>7. QED
  BY <1>3, <1>4, <1>5, <1>6, TypeParts DEF IInv

\* A request that ends its environment.
LEMMA EndsKeep ==
    ASSUME ChallengeAssumption, IInv, NEW r \in Requests, NEW i \in DOMAIN rows,
           NEW s, SaveStatus(i, s), request[r].env = i,
           \/ request[r].at = "closing" /\ s = "terminated" /\ Goes(r, "creating", 0)
           \/ request[r].at = "terminating" /\ s = "terminated" /\ Goes(r, "idle", 0)
           \/ request[r].at = "expiring" /\ s = "expired" /\ Goes(r, "idle", 0),
           UNCHANGED <<ongoing, pods, provisioner, observers>>
    PROVE  IInv'
<1>0. ChallengeTyped /\ RowSound /\ ErrandSound /\ SingleLive /\ TypeOK
  BY TypeParts DEF IInv
<1>1. /\ RowSaved(i, s)
      /\ rows'[i].hasPod = rows[i].hasPod /\ rows'[i].lapsed = rows[i].lapsed
  BY <1>0, StatusSaved DEF RowStatus
<1>2. ErrandAt(r, i) /\ RowAt(i)
  BY <1>0 DEF ErrandSound, RowSound
<1>3. ChallengeTyped'
  BY <1>0, <1>1 DEF ChallengeTyped, Goes, RowSaved, observers
<1>4. RowSound'
  <2>1. RowAt(i)'
    BY <1>0, <1>1, <1>2 DEF RowAt, ErrandAt, RowSaved, observers
  <2>2. \A j \in DOMAIN rows \ {i} : RowAt(j)'
    BY <1>0, <1>1 DEF RowSound, RowAt, RowSaved, observers
  <2>3. QED
    BY <1>1, <2>1, <2>2 DEF RowSound, RowSaved
<1>5. ErrandSound'
  BY <1>0, <1>1 DEF ErrandSound, ErrandAt, Goes, RowSaved, observers
<1>6. SingleLive'
  <2> SUFFICES ASSUME ~overlapped', crossed' = {} PROVE SingleLive'
    BY DEF SingleLive
  <2>1. ~overlapped /\ crossed = {}
    BY DEF observers
  <2>2. \A j \in DOMAIN rows : Live(j)' => Live(j) /\ j # i
    BY <1>1 DEF Live, RowSaved
  <2>3. QED
    BY <1>0, <1>1, <2>1, <2>2 DEF SingleLive, Goes, RowSaved
<1>7. QED
  BY <1>3, <1>4, <1>5, <1>6, TypeParts DEF IInv

\* A step of provisioner i, with what it does to the pods and to the row.
LEMMA ProvisionKeeps ==
    ASSUME ChallengeAssumption, IInv, NEW i \in DOMAIN rows,
           NEW to \in Phase, RowMoved(i, provisioner[i], to), provisioner[i] # "done",
           UNCHANGED <<ongoing, request, overlapped>>,
           rows' \in Seq(Row), Len(rows') = Len(rows), DOMAIN rows' = DOMAIN rows,
           \A j \in DOMAIN rows \ {i} : rows'[j] = rows[j],
           pods' \subseteq pods \cup {i},
           \A j \in DOMAIN rows \ {i} : j \in pods <=> j \in pods',
           crossed \subseteq crossed', crossed' \subseteq crossed \cup {i},
           lost \subseteq lost', lost' \subseteq lost \cup {i},
           faults' \in 0 .. MaxFaults,
           RowAt(i)',
           to = "updating" => \A r \in Requests :
               request[r].env = i /\ request[r].at = "terminating" => i \in crossed',
           to = "done" => i \notin pods' \/ provisioner[i] = "updating" \/ i \in crossed' \cup lost',
           Live(i)' => Live(i) \/ i \in crossed'
    PROVE  IInv'
<1>0. ChallengeTyped /\ RowSound /\ ErrandSound /\ SingleLive
  BY TypeParts DEF IInv
<1>1. ChallengeTyped'
  BY <1>0 DEF ChallengeTyped, RowMoved
<1>2. RowSound'
  <2>1. \A j \in DOMAIN rows \ {i} : RowAt(j)'
    BY <1>0 DEF RowSound, RowAt, RowMoved
  <2>2. QED
    BY <2>1 DEF RowSound
<1>3. ErrandSound'
  <2> SUFFICES ASSUME NEW r \in Requests, NEW j \in DOMAIN rows \cup {0}, request[r].env = j
               PROVE  ErrandAt(r, j)'
    BY DEF ErrandSound
  <2>1. ErrandAt(r, j)
    BY <1>0 DEF ErrandSound
  <2>2. CASE j = i
    BY <2>1, <2>2 DEF ErrandAt, RowMoved
  <2>3. CASE j # i /\ j \in DOMAIN rows
    BY <2>1, <2>3 DEF ErrandAt, RowMoved
  <2>4. CASE j \notin DOMAIN rows
    BY <2>1, <2>4 DEF ErrandAt
  <2>5. QED
    BY <2>2, <2>3, <2>4
<1>4. SingleLive'
  <2> SUFFICES ASSUME ~overlapped', crossed' = {} PROVE SingleLive'
    BY DEF SingleLive
  <2>1. ~overlapped /\ crossed = {}
    OBVIOUS
  <2>2. \A j \in DOMAIN rows : Live(j)' => Live(j)
    BY DEF Live
  <2>3. QED
    BY <1>0, <2>1, <2>2 DEF SingleLive
<1>5. QED
  BY <1>1, <1>2, <1>3, <1>4, TypeParts DEF IInv

LEMMA RowValues ==
    /\ Creating \in Row /\ Creating.status = "creating" /\ ~Creating.hasPod /\ ~Creating.lapsed
    /\ [Creating EXCEPT !.status = "failed"] \in Row
    /\ [Creating EXCEPT !.status = "failed"].status = "failed"
    /\ [status |-> "running", hasPod |-> TRUE, lapsed |-> FALSE] \in Row
    /\ \A q \in Row : /\ [q EXCEPT !.lapsed = TRUE] \in Row
                      /\ [q EXCEPT !.lapsed = TRUE].status = q.status
                      /\ [q EXCEPT !.lapsed = TRUE].hasPod = q.hasPod
  BY DEF Creating, Row

LEMMA NextKeeps == ASSUME ChallengeAssumption PROVE IInv /\ [Next]_vars => IInv'
<1> SUFFICES ASSUME IInv, [Next]_vars PROVE IInv'
  OBVIOUS
<1>0. /\ ChallengeTyped /\ TypeOK /\ RowSound /\ ErrandSound /\ SingleLive
      /\ DOMAIN rows = 1 .. Len(rows) /\ Len(rows) \in Nat
  BY TypeParts DEF IInv, ChallengeTyped
<1>a. /\ ActiveEnv \in DOMAIN rows \cup {0}
      /\ ActiveEnv # 0 => rows[ActiveEnv].status \in ActiveStatuses /\ RowAt(ActiveEnv)
      /\ \A j \in DOMAIN rows : Live(j) => ActiveEnv # 0 /\ ActiveEnv >= j
      /\ \A j \in DOMAIN rows : Live(j) /\ j = Len(rows) => ActiveEnv = j
  BY <1>0, ActiveIsNewest DEF Live, ActiveStatuses, RowSound
\* A request that reads and stops there.
<1>b. ASSUME NEW r \in Requests, Enter(r), UNCHANGED request, crossed \subseteq crossed',
             crossed' \subseteq DOMAIN rows,
             UNCHANGED <<ongoing, rows, pods, provisioner, lost, faults>>
      PROVE  IInv'
  <2>1. ChallengeTyped'
    BY <1>0, <1>b, Enters DEF ChallengeTyped
  <2>2. RowSound' /\ ErrandSound'
    BY <1>0, <1>b DEF RowSound, RowAt, ErrandSound, ErrandAt
  <2>3. SingleLive'
    BY <1>0, <1>b, Enters DEF SingleLive, Live
  <2>4. QED
    BY <2>1, <2>2, <2>3, TypeParts DEF IInv
<1>1. ASSUME NEW r \in Requests, StartReads(r) PROVE IInv'
  <2>1. /\ Enter(r) /\ UNCHANGED <<ongoing, rows, pods, provisioner, crossed, lost, faults>>
        /\ crossed' \subseteq DOMAIN rows
    BY <1>0, <1>1 DEF StartReads, ChallengeTyped
  <2>2. PICK i \in DOMAIN rows \cup {0} : i = ActiveEnv
    BY <1>a
  <2>3. CASE UNCHANGED request
    BY <1>b, <2>1, <2>3
  <2>4. CASE i = 0
    <3>1. Goes(r, "creating", 0)
      BY <1>0, <1>1, <2>2, <2>4, RequestGoes DEF StartReads, Errand
    <3>2. QED
      BY <1>a, <2>1, <2>2, <2>4, <3>1, ReadsKeep DEF Errand
  <2>5. CASE i # 0 /\ request' # request
    <3>1. /\ i \in DOMAIN rows /\ RowAt(i)
          /\ rows[i].status = "failed" \/ rows[i].status = "running"
      BY <1>1, <1>a, <2>2, <2>5 DEF StartReads, ActiveStatuses
    <3>2. provisioner[i] = "done"
      BY <3>1 DEF RowAt
    <3>3. CASE rows[i].hasPod
      <4>1. Goes(r, "replacing", i)
        BY <1>0, <1>1, <2>2, <2>5, <3>3, RequestGoes DEF StartReads, Errand
      <4>2. QED
        BY <1>a, <2>1, <2>2, <2>5, <3>2, <4>1, ReadsKeep DEF Errand
    <3>4. CASE ~rows[i].hasPod
      <4>1. Goes(r, "closing", i)
        BY <1>0, <1>1, <2>2, <2>5, <3>4, RequestGoes DEF StartReads, Errand
      <4>2. i \notin pods
        BY <3>1, <3>4 DEF RowAt
      <4>3. QED
        BY <1>a, <2>1, <2>2, <2>5, <3>2, <4>1, <4>2, ReadsKeep DEF Errand
    <3>5. QED
      BY <3>3, <3>4
  <2>6. QED
    BY <2>3, <2>4, <2>5
<1>2. ASSUME NEW r \in Requests, StartCleansUp(r) PROVE IInv'
  <2>1. PICK i \in DOMAIN rows : i = request[r].env
    BY <1>0, <1>2 DEF StartCleansUp, ErrandSound, ErrandAt, ChallengeTyped
  <2>2. Goes(r, "closing", i)
    BY <1>0, <1>2, <2>1, RequestGoes DEF StartCleansUp, Errand
  <2>3. QED
    BY <1>2, <2>1, <2>2, CleansKeep DEF StartCleansUp
<1>3. ASSUME NEW r \in Requests, StartTerminates(r) PROVE IInv'
  <2>1. PICK i \in DOMAIN rows : i = request[r].env
    BY <1>0, <1>3 DEF StartTerminates, ErrandSound, ErrandAt, ChallengeTyped
  <2>2. Goes(r, "creating", 0)
    BY <1>0, <1>3, <2>1, RequestGoes DEF StartTerminates, Errand
  <2>3. QED
    BY <1>3, <2>1, <2>2, EndsKeep DEF StartTerminates
<1>4. ASSUME NEW r \in Requests, StartCreates(r) PROVE IInv'
  <2>0. PICK n \in Nat : n = Len(rows) + 1
    BY <1>0 DEF ChallengeTyped
  <2>1. /\ rows' \in Seq(Row) /\ Len(rows') = n /\ DOMAIN rows' = DOMAIN rows \cup {n}
        /\ rows'[n] = Creating /\ \A j \in DOMAIN rows : rows'[j] = rows[j]
        /\ n \notin DOMAIN rows
    BY <1>0, <1>4, <2>0, RowValues DEF StartCreates, ChallengeTyped
  <2>2. /\ provisioner' \in Seq(Phase) /\ Len(provisioner') = n /\ provisioner'[n] = "new"
        /\ \A j \in DOMAIN rows : provisioner'[j] = provisioner[j]
    <3>1. provisioner \in Seq(Phase) /\ Len(provisioner) = Len(rows) /\ "new" \in Phase
      BY <1>0 DEF ChallengeTyped, Phase
    <3>2. QED
      BY <1>0, <1>4, <2>0, <3>1 DEF StartCreates
  <2>3. Goes(r, "idle", 0) /\ request[r].at = "creating"
    BY <1>0, <1>4, RequestGoes DEF StartCreates, Errand
  <2>4. Len(rows) < MaxEnvs /\ UNCHANGED <<ongoing, pods, observers>>
    BY <1>4 DEF StartCreates
  <2>5. n \in Nat /\ n <= MaxEnvs /\ n # 0 /\ n \notin pods
    BY <1>0, <2>0, <2>1, <2>4 DEF ChallengeAssumption, ChallengeTyped
  <2>6. ChallengeTyped'
    BY <1>0, <2>1, <2>2, <2>3, <2>4, <2>5 DEF ChallengeTyped, Goes, observers
  <2>7. RowSound'
    <3>1. RowAt(n)'
      BY <2>1, <2>2, <2>4, <2>5, RowValues DEF RowAt, observers
    <3>2. \A j \in DOMAIN rows : RowAt(j)'
      BY <1>0, <2>1, <2>2, <2>4 DEF RowSound, RowAt, observers
    <3>3. QED
      BY <2>1, <3>1, <3>2 DEF RowSound
  <2>8. ErrandSound'
    <3> SUFFICES ASSUME NEW q \in Requests, NEW j \in DOMAIN rows' \cup {0}, request'[q].env = j
                 PROVE  ErrandAt(q, j)'
      BY DEF ErrandSound
    <3>1. CASE q = r
      BY <2>3, <3>1 DEF ErrandAt, Goes
    <3>2. CASE q # r
      <4>1. request[q].env = j /\ request'[q] = request[q] /\ j \in DOMAIN rows \cup {0}
        BY <1>0, <2>3, <3>2 DEF Goes, ChallengeTyped
      <4>2. ErrandAt(q, j)
        BY <1>0, <4>1 DEF ErrandSound
      <4>3. QED
        BY <2>1, <2>2, <2>4, <4>1, <4>2 DEF ErrandAt, observers
    <3>3. QED
      BY <3>1, <3>2
  <2>9. SingleLive'
    <3> SUFFICES ASSUME ~overlapped', crossed' = {} PROVE SingleLive'
      BY DEF SingleLive
    <3>1. ~overlapped /\ crossed = {}
      BY <2>4 DEF observers
    <3>2. \A j \in DOMAIN rows : ~Live(j)'
      BY <1>0, <2>1, <2>3, <3>1 DEF SingleLive, Live
    <3>3. \A q \in Requests : request'[q].at = "idle"
      BY <1>0, <2>3, <3>1 DEF SingleLive, Goes
    <3>4. QED
      BY <2>1, <3>2, <3>3 DEF SingleLive
  <2>10. QED
    BY <2>6, <2>7, <2>8, <2>9, TypeParts DEF IInv
<1>5. ASSUME NEW r \in Requests, StatusReads(r) PROVE IInv'
  <2>1. /\ Enter(r) /\ UNCHANGED <<ongoing, rows, pods, provisioner, crossed, lost, faults>>
        /\ crossed' \subseteq DOMAIN rows
    BY <1>0, <1>5 DEF StatusReads, ChallengeTyped
  <2>2. PICK i \in DOMAIN rows \cup {0} : i = ActiveEnv
    BY <1>a
  <2>3. CASE UNCHANGED request
    BY <1>b, <2>1, <2>3
  <2>4. CASE i # 0 /\ rows[i].lapsed
    <3>1. Goes(r, "expiring", i)
      BY <1>0, <1>5, <2>2, <2>4, RequestGoes DEF StatusReads, Errand
    <3>2. provisioner[i] = "done"
      BY <1>a, <2>2, <2>4 DEF RowAt
    <3>3. QED
      BY <2>1, <2>2, <2>4, <3>1, <3>2, ReadsKeep DEF Errand
  <2>5. QED
    BY <1>5, <2>2, <2>3, <2>4 DEF StatusReads
<1>6. ASSUME NEW r \in Requests, StatusExpires(r) PROVE IInv'
  <2>1. PICK i \in DOMAIN rows : i = request[r].env
    BY <1>0, <1>6 DEF StatusExpires, ErrandSound, ErrandAt, ChallengeTyped
  <2>2. Goes(r, "idle", 0)
    BY <1>0, <1>6, <2>1, RequestGoes DEF StatusExpires, Errand
  <2>3. QED
    BY <1>6, <2>1, <2>2, EndsKeep DEF StatusExpires
<1>7. ASSUME NEW r \in Requests, StopReads(r) PROVE IInv'
  <2>2. PICK i \in DOMAIN rows \cup {0} : i = ActiveEnv
    BY <1>a
  <2>1. /\ Enter(r) /\ UNCHANGED <<ongoing, rows, pods, provisioner, lost, faults>>
        /\ crossed \subseteq crossed' /\ crossed' \subseteq DOMAIN rows
        /\ i # 0 /\ provisioner[i] = "updating" => i \in crossed'
    BY <1>0, <1>7, <2>2 DEF StopReads, ChallengeTyped
  <2>3. CASE i = 0
    BY <1>7, <1>b, <2>1, <2>2, <2>3 DEF StopReads
  <2>4. CASE i # 0 /\ rows[i].hasPod
    <3>1. Goes(r, "stopping", i)
      BY <1>0, <1>7, <2>2, <2>4, RequestGoes DEF StopReads, Errand
    <3>2. provisioner[i] = "done"
      BY <1>a, <2>2, <2>4 DEF RowAt
    <3>3. QED
      BY <2>1, <2>2, <2>4, <3>1, <3>2, ReadsKeep DEF Errand
  <2>5. CASE i # 0 /\ ~rows[i].hasPod
    <3>1. Goes(r, "terminating", i)
      BY <1>0, <1>7, <2>2, <2>5, RequestGoes DEF StopReads, Errand
    <3>2. provisioner[i] = "done" => i \notin pods \/ i \in crossed \cup lost
      BY <1>a, <2>2, <2>5 DEF RowAt, ActiveStatuses
    <3>3. QED
      BY <2>1, <2>2, <2>5, <3>1, <3>2, ReadsKeep DEF Errand
  <2>6. QED
    BY <2>3, <2>4, <2>5
<1>8. ASSUME NEW r \in Requests, StopCleansUp(r) PROVE IInv'
  <2>1. PICK i \in DOMAIN rows : i = request[r].env
    BY <1>0, <1>8 DEF StopCleansUp, ErrandSound, ErrandAt, ChallengeTyped
  <2>2. Goes(r, "terminating", i)
    BY <1>0, <1>8, <2>1, RequestGoes DEF StopCleansUp, Errand
  <2>3. QED
    BY <1>8, <2>1, <2>2, CleansKeep DEF StopCleansUp
<1>9. ASSUME NEW r \in Requests, StopTerminates(r) PROVE IInv'
  <2>1. PICK i \in DOMAIN rows : i = request[r].env
    BY <1>0, <1>9 DEF StopTerminates, ErrandSound, ErrandAt, ChallengeTyped
  <2>2. Goes(r, "idle", 0)
    BY <1>0, <1>9, <2>1, RequestGoes DEF StopTerminates, Errand
  <2>3. QED
    BY <1>9, <2>1, <2>2, EndsKeep DEF StopTerminates
<1>p. ASSUME NEW i \in DOMAIN rows, NEW from, NEW to \in Phase, Provision(i, from, to)
      PROVE  provisioner[i] = from /\ RowMoved(i, provisioner[i], to) /\ RowAt(i)
  BY <1>0, <1>p, PhaseMoved DEF Provision, RowSound
<1>t. /\ faults \in 0 .. MaxFaults /\ pods \subseteq DOMAIN rows
      /\ crossed \subseteq DOMAIN rows /\ lost \subseteq DOMAIN rows /\ rows \in Seq(Row)
      /\ \A j \in DOMAIN rows : rows[j] \in Row
  BY <1>0 DEF ChallengeTyped
<1>10. ASSUME NEW i \in DOMAIN rows, CreatePods(i) PROVE IInv'
  <2>1. /\ RowMoved(i, provisioner[i], "booting") /\ provisioner[i] = "new" /\ RowAt(i)
        /\ pods' = pods \cup {i} /\ UNCHANGED <<ongoing, rows, request, observers>>
    BY <1>10, <1>p DEF CreatePods, Phase
  <2>2. RowAt(i)'
    BY <2>1 DEF RowAt, RowMoved, observers
  <2>3. QED
    BY <1>t, <2>1, <2>2, ProvisionKeeps DEF Phase, Live, observers
<1>11. ASSUME NEW i \in DOMAIN rows, PodsReady(i) PROVE IInv'
  <2>1. /\ RowMoved(i, provisioner[i], "checking") /\ provisioner[i] = "booting" /\ RowAt(i)
        /\ UNCHANGED <<ongoing, rows, pods, request, observers>>
    BY <1>11, <1>p DEF PodsReady, Phase
  <2>2. RowAt(i)'
    BY <2>1 DEF RowAt, RowMoved, observers
  <2>3. QED
    BY <1>t, <2>1, <2>2, ProvisionKeeps DEF Phase, Live, observers
<1>12. ASSUME NEW i \in DOMAIN rows, PodsFail(i) PROVE IInv'
  <2>1. /\ RowMoved(i, provisioner[i], "failing") /\ provisioner[i] = "booting" /\ RowAt(i)
        /\ pods' = pods \ {i} /\ UNCHANGED <<ongoing, rows, request, observers>>
    BY <1>12, <1>p DEF PodsFail, Phase
  <2>2. RowAt(i)'
    BY <2>1 DEF RowAt, RowMoved, observers
  <2>3. QED
    BY <1>t, <2>1, <2>2, ProvisionKeeps DEF Phase, Live, observers
<1>13. ASSUME NEW i \in DOMAIN rows, Check(i) PROVE IInv'
  <2>1. PICK to \in {"cleaning", "updating"} :
            /\ to = "updating" <=> rows[i].status # "terminated"
            /\ Provision(i, "checking", to)
    BY <1>13 DEF Check
  <2>2. RowMoved(i, provisioner[i], to) /\ provisioner[i] = "checking" /\ RowAt(i)
    BY <1>p, <2>1 DEF Phase
  <2>3. /\ crossed \subseteq crossed' /\ crossed' \subseteq crossed \cup {i}
        /\ to = "updating" => \A r \in Requests :
               request[r].env = i /\ request[r].at = "terminating" => i \in crossed'
        /\ UNCHANGED <<ongoing, rows, pods, request, lost, overlapped, faults>>
    BY <1>13, <2>1 DEF Check
  <2>4. RowAt(i)'
    BY <2>1, <2>2, <2>3 DEF RowAt, RowMoved
  <2>5. QED
    BY <1>t, <2>1, <2>2, <2>3, <2>4, ProvisionKeeps DEF Phase, Live
<1>14. ASSUME NEW i \in DOMAIN rows, CleanUpStopped(i) PROVE IInv'
  <2>1. /\ RowMoved(i, provisioner[i], "done") /\ provisioner[i] = "cleaning" /\ RowAt(i)
        /\ pods' = pods \ {i} /\ UNCHANGED <<ongoing, rows, request, observers>>
    BY <1>14, <1>p DEF CleanUpStopped, Phase
  <2>2. RowAt(i)'
    BY <2>1 DEF RowAt, RowMoved, observers
  <2>3. QED
    BY <1>t, <2>1, <2>2, ProvisionKeeps DEF Phase, Live, observers
<1>15. ASSUME NEW i \in DOMAIN rows, UpdateRunning(i) PROVE IInv'
  <2>1. /\ RowMoved(i, provisioner[i], "done") /\ provisioner[i] = "updating" /\ RowAt(i)
        /\ UNCHANGED <<ongoing, pods, request, observers>>
    BY <1>15, <1>p DEF UpdateRunning, Phase
  <2> DEFINE v == [status |-> "running", hasPod |-> TRUE, lapsed |-> FALSE]
  <2>2. rows' = [rows EXCEPT ![i] = v] /\ v \in Row /\ v.status = "running" /\ v.hasPod
    BY <1>15, RowValues DEF UpdateRunning
  <2> HIDE DEF v
  <2>3. /\ rows' \in Seq(Row) /\ DOMAIN rows' = DOMAIN rows /\ Len(rows') = Len(rows)
        /\ rows'[i] = v /\ \A j \in DOMAIN rows \ {i} : rows'[j] = rows[j]
    BY <1>t, <2>2, RowUpdate
  <2>4. RowAt(i)'
    BY <2>1, <2>2, <2>3 DEF RowAt, RowMoved, observers
  <2>5. Live(i)' => Live(i) \/ i \in crossed'
    BY <2>1 DEF RowAt, Live, observers
  <2>6. QED
    BY <1>t, <2>1, <2>3, <2>4, <2>5, ProvisionKeeps DEF Phase, observers
<1>16. ASSUME NEW i \in DOMAIN rows, MarkFailed(i) PROVE IInv'
  <2>1. /\ RowMoved(i, provisioner[i], "done") /\ provisioner[i] = "failing" /\ RowAt(i)
        /\ UNCHANGED <<ongoing, pods, request, observers>>
    BY <1>16, <1>p DEF MarkFailed, Phase
  <2> DEFINE v == [Creating EXCEPT !.status = "failed"]
  <2>2. rows' = [rows EXCEPT ![i] = v] /\ v \in Row /\ v.status = "failed"
    BY <1>16, RowValues DEF MarkFailed
  <2> HIDE DEF v
  <2>3. /\ rows' \in Seq(Row) /\ DOMAIN rows' = DOMAIN rows /\ Len(rows') = Len(rows)
        /\ rows'[i] = v /\ \A j \in DOMAIN rows \ {i} : rows'[j] = rows[j]
    BY <1>t, <2>2, RowUpdate
  <2>4. RowAt(i)' /\ i \notin pods
    BY <2>1, <2>2, <2>3 DEF RowAt, RowMoved, observers
  <2>5. ~Live(i)'
    BY <2>2, <2>3 DEF Live
  <2>6. QED
    BY <1>t, <2>1, <2>3, <2>4, <2>5, ProvisionKeeps DEF Phase, observers
<1>17. ASSUME NEW i \in DOMAIN rows, CutOff(i) PROVE IInv'
  <2>1. /\ RowMoved(i, provisioner[i], "done") /\ provisioner[i] # "done" /\ RowAt(i)
        /\ faults' \in 0 .. MaxFaults /\ lost' = lost \cup {i}
        /\ UNCHANGED <<ongoing, rows, pods, request, crossed, overlapped>>
    <3>1. RowMoved(i, provisioner[i], "done")
      BY <1>0, <1>17, PhaseMoved DEF CutOff, Phase
    <3>2. QED
      BY <1>0, <1>17, <1>t, <3>1 DEF CutOff, RowSound, ChallengeAssumption
  <2>2. RowAt(i)'
    BY <2>1 DEF RowAt, RowMoved
  <2>3. QED
    BY <1>t, <2>1, <2>2, ProvisionKeeps DEF Phase, Live
<1>18. ASSUME NEW i \in DOMAIN rows, Lapse(i) PROVE IInv'
  <2> DEFINE v == [rows[i] EXCEPT !.lapsed = TRUE]
  <2>1. /\ rows' = [rows EXCEPT ![i] = v] /\ v \in Row /\ v.status = rows[i].status
        /\ v.hasPod = rows[i].hasPod /\ rows[i].status = "running"
    BY <1>18, <1>t, RowValues DEF Lapse
  <2> HIDE DEF v
  <2>2. /\ rows' \in Seq(Row) /\ DOMAIN rows' = DOMAIN rows /\ Len(rows') = Len(rows)
        /\ rows'[i] = v /\ \A j \in DOMAIN rows \ {i} : rows'[j] = rows[j]
    BY <1>t, <2>1, RowUpdate
  <2>3. UNCHANGED <<ongoing, pods, provisioner, request, observers>>
    BY <1>18 DEF Lapse
  <2>4. ChallengeTyped'
    BY <1>0, <2>2, <2>3 DEF ChallengeTyped, observers
  <2>5. RowSound'
    <3>1. RowAt(i)'
      BY <1>0, <2>1, <2>2, <2>3 DEF RowSound, RowAt, observers
    <3>2. \A j \in DOMAIN rows \ {i} : RowAt(j)'
      BY <1>0, <2>2, <2>3 DEF RowSound, RowAt, observers
    <3>3. QED
      BY <2>2, <3>1, <3>2 DEF RowSound
  <2>6. ErrandSound'
    BY <1>0, <2>2, <2>3 DEF ErrandSound, ErrandAt, observers
  <2>7. SingleLive'
    <3>1. \A j \in DOMAIN rows : Live(j)' <=> Live(j)
      BY <2>1, <2>2 DEF Live
    <3>2. QED
      BY <1>0, <2>2, <2>3, <3>1 DEF SingleLive, observers
  <2>8. QED
    BY <2>4, <2>5, <2>6, <2>7, TypeParts DEF IInv
<1>19. CASE ContestEnds \/ UNCHANGED vars
  <2>1. /\ ongoing' \in {FALSE, ongoing}
        /\ UNCHANGED <<rows, pods, provisioner, request, crossed, lost, overlapped, faults>>
    BY <1>19 DEF ContestEnds, vars, observers
  <2>2. ChallengeTyped'
    BY <1>0, <2>1 DEF ChallengeTyped
  <2>3. RowSound' /\ ErrandSound' /\ SingleLive'
    BY <1>0, <2>1 DEF RowSound, RowAt, ErrandSound, ErrandAt, SingleLive, Live
  <2>4. QED
    BY <2>2, <2>3, TypeParts DEF IInv
<1>20. QED
  BY <1>1, <1>2, <1>3, <1>4, <1>5, <1>6, <1>7, <1>8, <1>9, <1>10, <1>11, <1>12,
     <1>13, <1>14, <1>15, <1>16, <1>17, <1>18, <1>19
     DEF Next, StartStep, StopStep, ProvisionStep

(* Type correctness: every request, provisioner and observer refers to a   *)
(* row that exists, for any number of requests and environments            *)
(* (contest_env_service.go).                                               *)
THEOREM ChallengeTypeCorrect == ASSUME ChallengeAssumption PROVE Spec => []TypeOK
<1>1. IInv => TypeOK
  BY DEF IInv
<1>2. QED
  BY <1>1, InitHolds, NextKeeps, PTL DEF Spec

(* The pods that nobody accounts for are those of a stop that met the      *)
(* provisioner between its check and its update, or of a failed call; and  *)
(* without such a stop and without overlapping requests a participant has  *)
(* one live environment at most, the newest (contest_env_service.go).      *)
THEOREM PodsAccounted ==
    ASSUME ChallengeAssumption PROVE Spec => []ChallengePodsAccounted
<1>1. IInv => ChallengePodsAccounted
  <2> SUFFICES ASSUME IInv PROVE ChallengePodsAccounted
    OBVIOUS
  <2>1. \A i \in pods : \/ rows[i].status \in {"running", "expired"}
                        \/ provisioner[i] # "done"
                        \/ i \in crossed \cup lost
    BY DEF IInv, TypeOK, RowSound, RowAt
  <2>2. ASSUME ~overlapped, crossed = {}
        PROVE  Cardinality(WithStatus("creating") \cup WithStatus("running")) <= 1
    <3> DEFINE S == WithStatus("creating") \cup WithStatus("running")
    <3>1. \A x \in S : x = Len(rows)
      BY <2>2 DEF IInv, SingleLive, Live, WithStatus
    <3>2. S = {} \/ S = {Len(rows)}
      BY <3>1
    <3> HIDE DEF S
    <3>3. Cardinality({}) = 0 /\ Cardinality({Len(rows)}) = 1
      BY FS_EmptySet, FS_Singleton
    <3>4. Cardinality(S) = 0 \/ Cardinality(S) = 1
      BY <3>2, <3>3
    <3>5. Cardinality(S) <= 1
      BY <3>4
    <3>6. QED
      BY <3>5 DEF S
  <2>3. QED
    BY <2>1, <2>2 DEF ChallengePodsAccounted
<1>2. QED
  BY <1>1, InitHolds, NextKeeps, PTL DEF Spec

-----------------------------------------------------------------------------
(***************************************************************************)
(* Battle rounds: the inductive invariant.  The first part holds whatever  *)
(* the readers do.                                                         *)
(***************************************************************************)
Working == {"starting", "booting", "saving", "aborting"}
Ending == {"stopping", "finishing"}
Stage == [at : {"idle", "creating"} \cup Ending \cup Working, run : Nat, due : Nat]

Tables ==
    /\ isBattle \in BOOLEAN
    /\ rounds \in Seq(Round)
    /\ begun \in 0 .. MaxNumber
    /\ chain \subseteq DOMAIN rounds
    /\ admins \in 0 .. MaxAdmin
    /\ roundFaults \in 0 .. MaxRoundFaults
    /\ raced \in BOOLEAN
    /\ \A i \in DOMAIN rounds : rounds[i].number <= Planned + admins

\* A round has no time that has passed exactly while it is pending.
PastStarts ==
    \A i \in DOMAIN rounds : rounds[i].status = "pending" <=> rounds[i].start # "past"

Stages ==
    /\ reader \in [Readers -> Stage]
    /\ \A p \in Readers :
        /\ reader[p].run \in DOMAIN rounds \cup {0}
        /\ reader[p].due \in DOMAIN rounds \cup {0}
        /\ reader[p].at \in {"idle", "creating"} => reader[p].run = 0 /\ reader[p].due = 0
        /\ reader[p].at \in Ending => reader[p].run # 0
        /\ reader[p].at \in Working => reader[p].run = 0 /\ reader[p].due # 0

\* A reader that creates rounds still misses one of the plan.
Copies ==
    /\ seen = [p \in Readers |-> seen[p]]
    /\ \A p \in Readers :
        /\ seen[p] = [i \in DOMAIN seen[p] |-> seen[p][i]]
        /\ DOMAIN seen[p] \subseteq DOMAIN rounds
        /\ \A i \in DOMAIN seen[p] : seen[p][i] \in Round
        /\ reader[p].at = "creating" => Missing(seen[p]) # {}

(***************************************************************************)
(* Every round is an administrator's or a reader's, and a reader creates   *)
(* each planned number once: it only creates what it misses, and it reads  *)
(* the table again before it misses anything anew.                         *)
(***************************************************************************)
Creators ==
    \E A \in SUBSET DOMAIN rounds :
        /\ Cardinality(A) <= admins
        /\ \E by \in [DOMAIN rounds \ A -> Readers] :
            \A i \in DOMAIN rounds \ A :
                /\ rounds[i].number <= Planned
                /\ reader[by[i]].at = "creating" => rounds[i].number \notin Missing(seen[by[i]])
                /\ \A j \in DOMAIN rounds \ A :
                       by[i] = by[j] /\ rounds[i].number = rounds[j].number => i = j

Base == Tables /\ PastStarts /\ Stages /\ Copies /\ Creators

-----------------------------------------------------------------------------
(***************************************************************************)
(* Lemmas about least and greatest numbers.                                *)
(***************************************************************************)
LEMMA LeastNumber ==
    ASSUME NEW S, S \subseteq Nat, S # {}
    PROVE  Min(S) \in S /\ \A x \in S : Min(S) <= x
<1>1. PICK m \in S : \A y \in S : ~(<<y, m>> \in OpToRel(<, Nat))
  BY NatLessThanWellFounded, WFMin
<1>2. \A y \in S : m <= y
  <2> SUFFICES ASSUME NEW y \in S, y < m PROVE FALSE
    OBVIOUS
  <2>1. <<y, m>> \in Nat \X Nat
    BY <1>1
  <2>2. <<y, m>> \in OpToRel(<, Nat)
    BY <2>1 DEF OpToRel
  <2>3. QED
    BY <1>1, <2>2
<1>3. QED
  BY <1>1, <1>2 DEF Min

LEMMA GreatestNumber ==
    ASSUME NEW S, S \subseteq Nat, S # {}, NEW b \in Nat, \A x \in S : x <= b
    PROVE  Max(S) \in S /\ \A x \in S : x <= Max(S)
<1> DEFINE U == {u \in Nat : \A x \in S : x <= u}
<1>1. U \subseteq Nat /\ U # {}
  OBVIOUS
<1>2. Min(U) \in U /\ \A u \in U : Min(U) <= u
  <2> HIDE DEF U
  <2>1. QED
    BY <1>1, LeastNumber
<1>3. PICK m \in Nat : m \in U /\ \A u \in U : m <= u
  BY <1>1, <1>2
<1>4. m \in S
  <2> SUFFICES ASSUME m \notin S PROVE FALSE
    OBVIOUS
  <2>1. \A x \in S : x < m
    BY <1>3
  <2>2. m # 0
    <3>1. PICK x \in S : TRUE
      OBVIOUS
    <3>2. x \in Nat /\ x < m
      BY <2>1, <3>1
    <3>3. QED
      BY <3>2
  <2>3. m - 1 \in U
    BY <1>3, <2>1, <2>2
  <2>4. QED
    BY <1>3, <2>3
<1>5. \A x \in S : m >= x
  BY <1>3
<1>6. QED
  BY <1>4, <1>5 DEF Max

-----------------------------------------------------------------------------
(***************************************************************************)
(* Lemmas about the table of rounds and the stages of the readers.         *)
(***************************************************************************)
LEMMA TableFacts ==
    ASSUME NEW s \in Seq(Round)
    PROVE  /\ Len(s) \in Nat /\ DOMAIN s = 1 .. Len(s) /\ 0 \notin DOMAIN s
           /\ \A i \in DOMAIN s : i \in Nat /\ s[i] \in Round
           /\ IsFiniteSet(DOMAIN s) /\ Cardinality(DOMAIN s) = Len(s)
<1>1. Len(s) \in Nat /\ DOMAIN s = 1 .. Len(s)
  OBVIOUS
<1>2. IsFiniteSet(1 .. Len(s)) /\ Cardinality(1 .. Len(s)) = Len(s)
  BY <1>1, FS_Interval
<1>3. QED
  BY <1>1, <1>2

LEMMA RowFacts ==
    ASSUME BattleAssumption, NEW r \in Round
    PROVE  /\ r.number \in Nat /\ r.number > 0 /\ r.number <= MaxNumber
           /\ r.status \in {"pending", "running", "finished"}
           /\ r.start \in {"zero", "plan", "past"}
           /\ r.over \in BOOLEAN
  BY DEF Round, BattleAssumption, MaxNumber

LEMMA Added ==
    ASSUME NEW s \in Seq(Round), NEW row \in Round
    PROVE  /\ Append(s, row) \in Seq(Round) /\ Len(Append(s, row)) = Len(s) + 1
           /\ DOMAIN Append(s, row) = DOMAIN s \cup {Len(s) + 1}
           /\ Len(s) + 1 \notin DOMAIN s
           /\ \A i \in DOMAIN s : Append(s, row)[i] = s[i]
           /\ Append(s, row)[Len(s) + 1] = row
  OBVIOUS

LEMMA Replaced ==
    ASSUME NEW s \in Seq(Round), NEW i \in DOMAIN s, NEW r \in Round,
           NEW t, t = [s EXCEPT ![i] = r]
    PROVE  t \in Seq(Round) /\ Len(t) = Len(s) /\ DOMAIN t = DOMAIN s
<1>1. /\ Len(s) \in Nat /\ DOMAIN s = 1 .. Len(s) /\ DOMAIN t = 1 .. Len(s)
      /\ \A j \in 1 .. Len(s) : s[j] \in Round
  OBVIOUS
<1>2. \A j \in 1 .. Len(s) : t[j] \in Round
  BY <1>1
<1>3. t \in [1 .. Len(s) -> Round]
  BY <1>1, <1>2
<1>4. t \in Seq(Round) /\ Len(t) = Len(s)
  BY <1>1, <1>3
<1>5. QED
  BY <1>1, <1>4

\* What Save does to the table, what the end of a round's time does to it,
\* and what it is for a reader to go to its next stage.
Writes(s, i, status, start, over, t) ==
    t = [s EXCEPT ![i].status = status, ![i].start = start, ![i].over = over]
Ends(s, i, t) == t = [s EXCEPT ![i].over = TRUE]
Moves(f, p, at, g) == g = [f EXCEPT ![p].at = at]

LEMMA Saved ==
    ASSUME NEW s \in Seq(Round), NEW i \in DOMAIN s,
           NEW status \in {"pending", "running", "finished"},
           NEW start \in {"zero", "plan", "past"}, NEW over \in BOOLEAN,
           NEW t, Writes(s, i, status, start, over, t)
    PROVE  /\ t \in Seq(Round) /\ Len(t) = Len(s) /\ DOMAIN t = DOMAIN s
           /\ \A j \in DOMAIN s \ {i} : t[j] = s[j]
           /\ t[i].number = s[i].number /\ t[i].status = status
           /\ t[i].start = start /\ t[i].over = over
<1>1. s[i] \in Round
  OBVIOUS
<1> DEFINE r == [number |-> s[i].number, status |-> status, start |-> start, over |-> over]
<1>2. r \in Round
  BY <1>1 DEF Round
<1>3. t = [s EXCEPT ![i] = r]
  <2> DEFINE e1 == [s[i] EXCEPT !.status = status]
             e2 == [e1 EXCEPT !.start = start]
             e == [e2 EXCEPT !.over = over]
  <2>1. t = [s EXCEPT ![i] = e]
    BY DEF Writes
  <2> DEFINE r1 == [number |-> s[i].number, status |-> status, start |-> s[i].start,
                    over |-> s[i].over]
             r2 == [number |-> s[i].number, status |-> status, start |-> start,
                    over |-> s[i].over]
  <2>2. e = r
    <3>1. e1 = r1
      BY <1>1 DEF Round
    <3>2. [r1 EXCEPT !.start = start] = r2
      BY <1>1 DEF Round
    <3>3. [r2 EXCEPT !.over = over] = r
      BY <1>1 DEF Round
    <3> HIDE DEF e1, r1, r2, r
    <3>4. QED
      BY <3>1, <3>2, <3>3
  <2> HIDE DEF e, r
  <2>3. QED
    BY <2>1, <2>2
<1>4. r.number = s[i].number /\ r.status = status /\ r.start = start /\ r.over = over
  OBVIOUS
<1> HIDE DEF r
<1>5. t \in Seq(Round) /\ Len(t) = Len(s) /\ DOMAIN t = DOMAIN s
  BY <1>2, <1>3, Replaced
<1>6. t[i] = r /\ \A j \in DOMAIN s \ {i} : t[j] = s[j]
  BY <1>3
<1>7. QED
  BY <1>4, <1>5, <1>6

LEMMA Ended ==
    ASSUME NEW s \in Seq(Round), NEW i \in DOMAIN s, NEW t, Ends(s, i, t)
    PROVE  /\ t \in Seq(Round) /\ Len(t) = Len(s) /\ DOMAIN t = DOMAIN s
           /\ \A j \in DOMAIN s \ {i} : t[j] = s[j]
           /\ t[i].number = s[i].number /\ t[i].status = s[i].status
           /\ t[i].start = s[i].start /\ t[i].over = TRUE
<1>1. s[i] \in Round
  OBVIOUS
<1> DEFINE r == [s[i] EXCEPT !.over = TRUE]
<1>2. r \in Round
  BY <1>1 DEF Round
<1>3. t = [s EXCEPT ![i] = r]
  BY DEF Ends
<1>4. /\ r.number = s[i].number /\ r.status = s[i].status
      /\ r.start = s[i].start /\ r.over = TRUE
  BY <1>1 DEF Round
<1> HIDE DEF r
<1>5. t \in Seq(Round) /\ Len(t) = Len(s) /\ DOMAIN t = DOMAIN s
  BY <1>2, <1>3, Replaced
<1>6. t[i] = r /\ \A j \in DOMAIN s \ {i} : t[j] = s[j]
  BY <1>3
<1>7. QED
  BY <1>4, <1>5, <1>6

LEMMA Moved ==
    ASSUME NEW f \in [Readers -> Stage], NEW p \in Readers,
           NEW at \in {"idle", "creating"} \cup Ending \cup Working,
           NEW g, Moves(f, p, at, g)
    PROVE  /\ g \in [Readers -> Stage]
           /\ \A q \in Readers \ {p} : g[q] = f[q]
           /\ g[p].at = at /\ g[p].run = f[p].run /\ g[p].due = f[p].due
<1>1. f[p] \in Stage
  OBVIOUS
<1> DEFINE r == [at |-> at, run |-> f[p].run, due |-> f[p].due]
<1>2. r \in Stage
  BY <1>1 DEF Stage
<1>3. g = [f EXCEPT ![p] = r]
  <2> DEFINE e == [f[p] EXCEPT !.at = at]
  <2>1. g = [f EXCEPT ![p] = e]
    BY DEF Moves
  <2>2. e = r
    BY <1>1 DEF Stage
  <2> HIDE DEF e, r
  <2>3. QED
    BY <2>1, <2>2
<1>4. r.at = at /\ r.run = f[p].run /\ r.due = f[p].due
  OBVIOUS
<1> HIDE DEF r
<1>5. QED
  BY <1>2, <1>3, <1>4

LEMMA Placed ==
    ASSUME NEW f \in [Readers -> Stage], NEW p \in Readers, NEW r \in Stage,
           NEW g, g = [f EXCEPT ![p] = r]
    PROVE  /\ g \in [Readers -> Stage]
           /\ \A q \in Readers \ {p} : g[q] = f[q]
           /\ g[p] = r
  OBVIOUS

LEMMA IdleStage ==
    IdleReader \in Stage /\ IdleReader.at = "idle" /\ IdleReader.run = 0 /\ IdleReader.due = 0
  BY DEF IdleReader, Stage

-----------------------------------------------------------------------------
(***************************************************************************)
(* How the parts of Base are kept.                                         *)
(***************************************************************************)
LEMMA CreatorsKept ==
    ASSUME Base, DOMAIN rounds' = DOMAIN rounds, admins' = admins,
           \A i \in DOMAIN rounds : rounds'[i].number = rounds[i].number,
           \A q \in Readers : reader'[q].at = "creating" =>
               \/ reader[q].at = "creating" /\ seen'[q] = seen[q]
               \/ \A i \in DOMAIN rounds : rounds[i].number \notin Missing(seen'[q])
    PROVE  Creators'
<1>1. PICK A \in SUBSET DOMAIN rounds :
        /\ Cardinality(A) <= admins
        /\ \E by \in [DOMAIN rounds \ A -> Readers] :
            \A i \in DOMAIN rounds \ A :
                /\ rounds[i].number <= Planned
                /\ reader[by[i]].at = "creating" => rounds[i].number \notin Missing(seen[by[i]])
                /\ \A j \in DOMAIN rounds \ A :
                       by[i] = by[j] /\ rounds[i].number = rounds[j].number => i = j
  BY DEF Base, Creators
<1>2. PICK by \in [DOMAIN rounds \ A -> Readers] :
        \A i \in DOMAIN rounds \ A :
            /\ rounds[i].number <= Planned
            /\ reader[by[i]].at = "creating" => rounds[i].number \notin Missing(seen[by[i]])
            /\ \A j \in DOMAIN rounds \ A :
                   by[i] = by[j] /\ rounds[i].number = rounds[j].number => i = j
  BY <1>1
<1>3. ASSUME NEW i \in DOMAIN rounds \ A
      PROVE  /\ rounds'[i].number <= Planned
             /\ reader'[by[i]].at = "creating" => rounds'[i].number \notin Missing(seen'[by[i]])
             /\ \A j \in DOMAIN rounds \ A :
                    by[i] = by[j] /\ rounds'[i].number = rounds'[j].number => i = j
  <2>1. by[i] \in Readers
    OBVIOUS
  <2>2. QED
    BY <1>2, <2>1
<1>4. A \in SUBSET DOMAIN rounds' /\ Cardinality(A) <= admins' /\ by \in [DOMAIN rounds' \ A -> Readers]
  BY <1>1
<1>5. \A i \in DOMAIN rounds' \ A :
          /\ rounds'[i].number <= Planned
          /\ reader'[by[i]].at = "creating" => rounds'[i].number \notin Missing(seen'[by[i]])
          /\ \A j \in DOMAIN rounds' \ A :
                 by[i] = by[j] /\ rounds'[i].number = rounds'[j].number => i = j
  BY <1>3
<1>6. \E g \in [DOMAIN rounds' \ A -> Readers] :
        \A i \in DOMAIN rounds' \ A :
            /\ rounds'[i].number <= Planned
            /\ reader'[g[i]].at = "creating" => rounds'[i].number \notin Missing(seen'[g[i]])
            /\ \A j \in DOMAIN rounds' \ A :
                   g[i] = g[j] /\ rounds'[i].number = rounds'[j].number => i = j
  <2> WITNESS by \in [DOMAIN rounds' \ A -> Readers]
  <2> QED
    BY <1>5
<1>7. QED
  BY <1>4, <1>6 DEF Creators

LEMMA StagesKept ==
    ASSUME Stages, DOMAIN rounds \subseteq DOMAIN rounds',
           reader' \in [Readers -> Stage], NEW p \in Readers,
           \A q \in Readers \ {p} : reader'[q] = reader[q],
           reader'[p].run \in DOMAIN rounds' \cup {0},
           reader'[p].due \in DOMAIN rounds' \cup {0},
           reader'[p].at \in {"idle", "creating"} => reader'[p].run = 0 /\ reader'[p].due = 0,
           reader'[p].at \in Ending => reader'[p].run # 0,
           reader'[p].at \in Working => reader'[p].run = 0 /\ reader'[p].due # 0
    PROVE  Stages'
  BY DEF Stages

LEMMA StagesSame ==
    ASSUME Stages, DOMAIN rounds \subseteq DOMAIN rounds', reader' = reader
    PROVE  Stages'
  BY DEF Stages

LEMMA CopiesKept ==
    ASSUME Copies, DOMAIN rounds \subseteq DOMAIN rounds', seen' = seen,
           \A q \in Readers : reader'[q].at = "creating" => reader[q].at = "creating"
    PROVE  Copies'
<1>1. ASSUME NEW q \in Readers
      PROVE  /\ seen'[q] = [i \in DOMAIN seen'[q] |-> seen'[q][i]]
             /\ DOMAIN seen'[q] \subseteq DOMAIN rounds'
             /\ \A i \in DOMAIN seen'[q] : seen'[q][i] \in Round
             /\ reader'[q].at = "creating" => Missing(seen'[q]) # {}
  BY DEF Copies
<1>2. seen' = [q \in Readers |-> seen'[q]]
  BY DEF Copies
<1>3. QED
  BY <1>1, <1>2 DEF Copies

LEMMA CopyTaken ==
    ASSUME Copies, DOMAIN rounds \subseteq DOMAIN rounds', NEW p \in Readers, NEW s,
           seen' = [seen EXCEPT ![p] = s],
           s = [i \in DOMAIN s |-> s[i]], DOMAIN s \subseteq DOMAIN rounds',
           \A i \in DOMAIN s : s[i] \in Round,
           reader'[p].at = "creating" => Missing(s) # {},
           \A q \in Readers \ {p} : reader'[q].at = "creating" => reader[q].at = "creating"
    PROVE  Copies' /\ seen'[p] = s /\ \A q \in Readers \ {p} : seen'[q] = seen[q]
<1>1. /\ seen' = [q \in Readers |-> seen'[q]] /\ seen'[p] = s
      /\ \A q \in Readers \ {p} : seen'[q] = seen[q]
  BY DEF Copies
<1>2. ASSUME NEW q \in Readers
      PROVE  /\ seen'[q] = [i \in DOMAIN seen'[q] |-> seen'[q][i]]
             /\ DOMAIN seen'[q] \subseteq DOMAIN rounds'
             /\ \A i \in DOMAIN seen'[q] : seen'[q][i] \in Round
             /\ reader'[q].at = "creating" => Missing(seen'[q]) # {}
  <2>1. CASE q = p
    BY <1>1, <2>1
  <2>2. CASE q # p
    BY <1>1, <2>2 DEF Copies
  <2>3. QED
    BY <2>1, <2>2
<1>3. QED
  BY <1>1, <1>2 DEF Copies

\* A row is saved or nothing is; nobody begins to create rounds.
LEMMA BaseKept ==
    ASSUME Base, isBattle' = isBattle, begun' \in 0 .. MaxNumber, admins' = admins,
           chain' \subseteq DOMAIN rounds, roundFaults' \in 0 .. MaxRoundFaults,
           raced' \in BOOLEAN, seen' = seen,
           rounds' \in Seq(Round), DOMAIN rounds' = DOMAIN rounds,
           \A i \in DOMAIN rounds : rounds'[i].number = rounds[i].number,
           PastStarts', Stages',
           \A q \in Readers : reader'[q].at = "creating" => reader[q].at = "creating"
    PROVE  Base'
<1>1. Tables'
  BY DEF Base, Tables
<1>2. Copies'
  BY CopiesKept DEF Base
<1>3. Creators'
  BY CreatorsKept
<1>4. QED
  BY <1>1, <1>2, <1>3 DEF Base

-----------------------------------------------------------------------------
(***************************************************************************)
(* What a reader decides about the rows s.                                 *)
(***************************************************************************)
FirstDue(s, d) ==
    d \in DOMAIN s /\ Due(s[d]) /\ \A j \in DOMAIN s : Due(s[j]) => s[d].number <= s[j].number

LEMMA Decided ==
    ASSUME reader \in [Readers -> Stage], NEW p \in Readers,
           NEW s, DOMAIN s \subseteq Nat \ {0}, Decide(p, s)
    PROVE  /\ reader' \in [Readers -> Stage]
           /\ \A q \in Readers \ {p} : reader'[q] = reader[q]
           /\ \/ reader'[p].at = "idle" /\ reader'[p].run = 0 /\ reader'[p].due = 0
              \/ /\ reader'[p].at = "stopping"
                 /\ reader'[p].run \in DOMAIN s
                 /\ s[reader'[p].run].status = "running" /\ s[reader'[p].run].over
                 /\ reader'[p].due = 0 \/ FirstDue(s, reader'[p].due)
              \/ /\ reader'[p].at = "starting"
                 /\ reader'[p].run = 0 /\ FirstDue(s, reader'[p].due)
                 /\ \A j \in DOMAIN s : s[j].status # "running"
<1>1. PICK run \in Lowest(s, {i \in DOMAIN s : s[i].status = "running"}),
           due \in Lowest(s, {i \in DOMAIN s : Due(s[i])}) :
        reader' = [reader EXCEPT ![p] =
            IF run # 0 /\ s[run].over THEN [at |-> "stopping", run |-> run, due |-> due]
            ELSE IF run = 0 /\ due # 0 THEN [at |-> "starting", run |-> 0, due |-> due]
            ELSE IdleReader]
  BY DEF Decide
<1>2. /\ run = 0 => \A j \in DOMAIN s : s[j].status # "running"
      /\ run # 0 => run \in DOMAIN s /\ s[run].status = "running"
      /\ run \in Nat
  BY DEF Lowest
<1>3. due \in Nat /\ (due = 0 \/ FirstDue(s, due))
  <2>1. CASE {i \in DOMAIN s : Due(s[i])} = {}
    BY <2>1 DEF Lowest
  <2>2. CASE {i \in DOMAIN s : Due(s[i])} # {}
    <3>1. due \in DOMAIN s /\ Due(s[due])
      BY <2>2 DEF Lowest
    <3>2. \A j \in {i \in DOMAIN s : Due(s[i])} : s[due].number <= s[j].number
      BY <2>2 DEF Lowest
    <3>3. QED
      BY <3>1, <3>2 DEF FirstDue
  <2>3. QED
    BY <2>1, <2>2
<1>4. CASE run # 0 /\ s[run].over
  <2>1. [at |-> "stopping", run |-> run, due |-> due] \in Stage
    BY <1>2, <1>3 DEF Stage, Ending
  <2>2. reader' = [reader EXCEPT ![p] = [at |-> "stopping", run |-> run, due |-> due]]
    BY <1>1, <1>4
  <2>3. QED
    BY <1>2, <1>3, <1>4, <2>1, <2>2, Placed
<1>5. CASE ~(run # 0 /\ s[run].over) /\ run = 0 /\ due # 0
  <2>1. [at |-> "starting", run |-> 0, due |-> due] \in Stage
    BY <1>3 DEF Stage, Working
  <2>2. reader' = [reader EXCEPT ![p] = [at |-> "starting", run |-> 0, due |-> due]]
    BY <1>1, <1>5
  <2>3. QED
    BY <1>2, <1>3, <1>5, <2>1, <2>2, Placed
<1>6. CASE ~(run # 0 /\ s[run].over) /\ ~(run = 0 /\ due # 0)
  <2>1. reader' = [reader EXCEPT ![p] = IdleReader]
    BY <1>1, <1>6
  <2>2. QED
    BY <2>1, IdleStage, Placed
<1>7. QED
  BY <1>4, <1>5, <1>6

LEMMA DecidedStages ==
    ASSUME Stages, NEW p \in Readers, NEW s, DOMAIN s \subseteq DOMAIN rounds',
           DOMAIN rounds \subseteq DOMAIN rounds',
           DOMAIN rounds' \subseteq Nat \ {0}, Decide(p, s)
    PROVE  Stages' /\ reader'[p].at # "creating" /\ \A q \in Readers \ {p} : reader'[q] = reader[q]
<1>1. /\ reader' \in [Readers -> Stage]
      /\ \A q \in Readers \ {p} : reader'[q] = reader[q]
      /\ \/ reader'[p].at = "idle" /\ reader'[p].run = 0 /\ reader'[p].due = 0
         \/ /\ reader'[p].at = "stopping"
            /\ reader'[p].run \in DOMAIN s
            /\ reader'[p].due = 0 \/ FirstDue(s, reader'[p].due)
         \/ /\ reader'[p].at = "starting"
            /\ reader'[p].run = 0 /\ FirstDue(s, reader'[p].due)
  BY Decided DEF Stages
<1>2. \A d : FirstDue(s, d) => d \in DOMAIN rounds' /\ d # 0
  BY DEF FirstDue
<1>3. QED
  BY <1>1, <1>2, StagesKept DEF Ending, Working

-----------------------------------------------------------------------------
(***************************************************************************)
(* Base holds initially and each action keeps it.                          *)
(***************************************************************************)
LEMMA BaseFacts ==
    ASSUME BattleAssumption, Base
    PROVE  /\ rounds \in Seq(Round) /\ Len(rounds) \in Nat /\ DOMAIN rounds = 1 .. Len(rounds)
           /\ 0 \notin DOMAIN rounds /\ DOMAIN rounds \subseteq Nat \ {0}
           /\ \A i \in DOMAIN rounds : rounds[i] \in Round
           /\ IsFiniteSet(DOMAIN rounds)
           /\ reader \in [Readers -> Stage]
           /\ admins \in Nat /\ admins <= MaxAdmin /\ Planned \in Nat /\ MaxAdmin \in Nat
           /\ MaxRoundFaults \in Nat /\ MaxNumber \in Nat
  BY TableFacts DEF Base, Tables, Stages, BattleAssumption, MaxNumber

LEMMA BaseInit ==
    ASSUME BattleAssumption, BattleInit
    PROVE  Base
<1> USE DEF BattleInit
<1>1. Tables
  <2>1. rounds \in Seq(Round) /\ DOMAIN rounds = {}
    OBVIOUS
  <2>2. 0 \in 0 .. MaxNumber /\ 0 \in 0 .. MaxAdmin /\ 0 \in 0 .. MaxRoundFaults
    BY DEF BattleAssumption, MaxNumber
  <2>3. QED
    BY <2>1, <2>2 DEF Tables
<1>2. PastStarts
  BY DEF PastStarts
<1>3. \A p \in Readers : reader[p] = IdleReader /\ seen[p] = Nothing
  OBVIOUS
<1>4. reader \in [Readers -> Stage]
  BY IdleStage
<1>5. Stages
  BY <1>3, <1>4, IdleStage DEF Stages, Ending, Working
<1>6. Copies
  BY <1>3, IdleStage DEF Copies, Nothing
<1>7. Creators
  <2>1. {} \in SUBSET DOMAIN rounds /\ Cardinality({}) <= admins
    BY FS_EmptySet
  <2> DEFINE by == [i \in {} |-> i]
  <2>2. by \in [DOMAIN rounds \ {} -> Readers]
    OBVIOUS
  <2>3. QED
    BY <2>1, <2>2 DEF Creators
<1>8. QED
  BY <1>1, <1>2, <1>5, <1>6, <1>7 DEF Base

LEMMA BaseRoundDue ==
    ASSUME BattleAssumption, Base, RoundDue
    PROVE  Base'
<1> USE DEF RoundDue
<1>1. begun' \in 0 .. MaxNumber
  BY BaseFacts DEF Base, Tables
<1>2. PastStarts' /\ Stages'
  BY StagesSame DEF Base, PastStarts
<1>3. QED
  BY <1>1, <1>2, BaseKept, BaseFacts DEF Base, Tables

LEMMA BaseRoundEnds ==
    ASSUME BattleAssumption, Base, NEW i \in DOMAIN rounds, RoundEnds(i)
    PROVE  Base'
<1> USE DEF RoundEnds
<1>1. rounds \in Seq(Round) /\ Ends(rounds, i, rounds')
  BY BaseFacts DEF Ends
<1> HIDE DEF RoundEnds
<1>2. /\ rounds' \in Seq(Round) /\ DOMAIN rounds' = DOMAIN rounds
      /\ \A j \in DOMAIN rounds \ {i} : rounds'[j] = rounds[j]
      /\ rounds'[i].number = rounds[i].number /\ rounds'[i].status = rounds[i].status
      /\ rounds'[i].start = rounds[i].start
  BY <1>1, Ended, ZenonT(60)
<1>3. PastStarts' /\ Stages'
  BY <1>2, StagesSame DEF Base, PastStarts, RoundEnds
<1>4. QED
  BY <1>2, <1>3, BaseKept, BaseFacts DEF Base, Tables, RoundEnds

\* What the three steps that save a row have in common.
LEMMA BaseSaved ==
    ASSUME BattleAssumption, Base, NEW p \in Readers, NEW i \in DOMAIN rounds,
           NEW status \in {"pending", "running", "finished"},
           NEW start \in {"zero", "plan", "past"}, NEW over \in BOOLEAN,
           status = "pending" <=> start # "past",
           Save(i, status, start, over),
           reader' \in [Readers -> Stage], \A q \in Readers \ {p} : reader'[q] = reader[q],
           \/ reader'[p].at = "idle" /\ reader'[p].run = 0 /\ reader'[p].due = 0
           \/ /\ reader'[p].at = "starting" /\ reader'[p].run = 0
              /\ reader'[p].due \in DOMAIN rounds,
           UNCHANGED <<isBattle, begun, chain, seen, admins, roundFaults, raced>>
    PROVE  Base'
<1>1. /\ rounds \in Seq(Round) /\ 0 \notin DOMAIN rounds
      /\ Writes(rounds, i, status, start, over, rounds')
  BY BaseFacts DEF Writes, Save
<1>2. /\ rounds' \in Seq(Round) /\ DOMAIN rounds' = DOMAIN rounds
      /\ \A j \in DOMAIN rounds \ {i} : rounds'[j] = rounds[j]
      /\ rounds'[i].number = rounds[i].number /\ rounds'[i].status = status
      /\ rounds'[i].start = start
  BY <1>1, Saved
<1>3. PastStarts'
  BY <1>2 DEF Base, PastStarts
<1>4. Stages'
  BY <1>1, <1>2, StagesKept DEF Base, Ending, Working
<1>5. QED
  BY <1>2, <1>3, <1>4, BaseKept, BaseFacts DEF Base, Tables

\* What the four steps that touch the cluster have in common.
LEMMA BaseMoved ==
    ASSUME BattleAssumption, Base, NEW p \in Readers,
           NEW at, \/ reader[p].at \in Ending /\ at \in Ending
                   \/ reader[p].at \in Working /\ at \in Working,
           Moves(reader, p, at, reader'),
           chain' \subseteq DOMAIN rounds, roundFaults' \in 0 .. MaxRoundFaults,
           UNCHANGED <<isBattle, rounds, begun, seen, admins, raced>>
    PROVE  Base'
<1>1. /\ reader' \in [Readers -> Stage]
      /\ \A q \in Readers \ {p} : reader'[q] = reader[q]
      /\ reader'[p].at = at /\ reader'[p].run = reader[p].run /\ reader'[p].due = reader[p].due
  BY BaseFacts, Moved
<1>2. Stages'
  <2>1. Stages
    BY DEF Base
  <2>2. QED
    BY <1>1, <2>1, StagesKept DEF Stages, Ending, Working
<1>3. PastStarts'
  BY DEF Base, PastStarts
<1>4. \A q \in Readers : reader'[q].at = "creating" => reader[q].at = "creating"
  BY <1>1 DEF Ending, Working
<1>5. QED
  BY <1>2, <1>3, <1>4, BaseKept, BaseFacts DEF Base, Tables

LEMMA BaseWork ==
    ASSUME BattleAssumption, Base, NEW p \in Readers,
           \/ StopChain(p) \/ SaveFinished(p) \/ CreateChain(p) \/ ChainReady(p)
           \/ ChainFails(p) \/ SaveStarted(p) \/ SaveAborted(p)
    PROVE  Base'
<1>1. /\ reader \in [Readers -> Stage] /\ 0 \notin DOMAIN rounds
      /\ reader[p].run \in DOMAIN rounds \cup {0} /\ reader[p].due \in DOMAIN rounds \cup {0}
      /\ reader[p].at \in Ending => reader[p].run # 0
      /\ reader[p].at \in Working => reader[p].run = 0 /\ reader[p].due # 0
      /\ chain \subseteq DOMAIN rounds /\ roundFaults \in 0 .. MaxRoundFaults
      /\ MaxRoundFaults \in Nat /\ DOMAIN rounds \subseteq Nat \ {0}
  BY BaseFacts DEF Base, Stages, Tables
<1>2. CASE StopChain(p)
  <2>1. Moves(reader, p, "finishing", reader')
    BY <1>2 DEF StopChain, Moves
  <2>2. chain' \subseteq DOMAIN rounds /\ roundFaults' \in 0 .. MaxRoundFaults
    BY <1>1, <1>2 DEF StopChain
  <2>3. QED
    BY <1>2, <2>1, <2>2, BaseMoved DEF StopChain, Ending
<1>3. CASE SaveFinished(p)
  <2>1. reader[p].run \in DOMAIN rounds
    BY <1>1, <1>3 DEF SaveFinished, Ending
  <2>2. /\ Save(reader[p].run, "finished", "past", TRUE)
        /\ UNCHANGED <<isBattle, begun, chain, seen, admins, roundFaults, raced>>
    BY <1>3 DEF SaveFinished
  <2>3. CASE reader[p].due = 0
    <3>1. reader' = [reader EXCEPT ![p] = IdleReader]
      BY <1>3, <2>3 DEF SaveFinished
    <3>2. /\ reader' \in [Readers -> Stage] /\ reader'[p] = IdleReader
          /\ \A q \in Readers \ {p} : reader'[q] = reader[q]
      BY <1>1, <3>1, IdleStage, Placed
    <3>3. QED
      BY <2>1, <2>2, <3>2, IdleStage, BaseSaved
  <2>4. CASE reader[p].due # 0
    <3> DEFINE r == [at |-> "starting", run |-> 0, due |-> reader[p].due]
    <3>1. reader' = [reader EXCEPT ![p] = r]
      BY <1>3, <2>4 DEF SaveFinished
    <3>2. r \in Stage /\ r.at = "starting" /\ r.run = 0 /\ r.due = reader[p].due
      BY <1>1 DEF Stage, Working
    <3> HIDE DEF r
    <3>3. /\ reader' \in [Readers -> Stage] /\ reader'[p] = r
          /\ \A q \in Readers \ {p} : reader'[q] = reader[q]
      BY <1>1, <3>1, <3>2, Placed
    <3>4. QED
      BY <1>1, <2>1, <2>4, <2>2, <3>2, <3>3, BaseSaved
  <2>5. QED
    BY <2>3, <2>4
<1>4. CASE CreateChain(p)
  <2>1. reader[p].due \in DOMAIN rounds
    BY <1>1, <1>4 DEF CreateChain, Working
  <2>2. PICK at \in {"aborting", "booting"} : Moves(reader, p, at, reader')
    BY <1>4 DEF CreateChain, Moves
  <2>3. QED
    BY <1>1, <1>4, <2>1, <2>2, BaseMoved DEF CreateChain, Working
<1>5. CASE ChainReady(p)
  <2>1. Moves(reader, p, "saving", reader')
    BY <1>5 DEF ChainReady, Moves
  <2>2. QED
    BY <1>1, <1>5, <2>1, BaseMoved DEF ChainReady, Working
<1>6. CASE ChainFails(p)
  <2>1. Moves(reader, p, "aborting", reader')
    BY <1>6 DEF ChainFails, Moves
  <2>2. QED
    BY <1>1, <1>6, <2>1, BaseMoved DEF ChainFails, Working
<1>7. CASE SaveStarted(p)
  <2>1. reader[p].due \in DOMAIN rounds
    BY <1>1, <1>7 DEF SaveStarted, Working
  <2>2. QED
    BY <1>1, <1>7, <2>1, IdleStage, Placed, BaseSaved, ZenonT(60) DEF SaveStarted
<1>8. CASE SaveAborted(p)
  <2>1. reader[p].due \in DOMAIN rounds
    BY <1>1, <1>8 DEF SaveAborted, Working
  <2>2. QED
    BY <1>1, <1>8, <2>1, IdleStage, Placed, BaseSaved, ZenonT(60) DEF SaveAborted
<1>9. QED
  BY <1>2, <1>3, <1>4, <1>5, <1>6, <1>7, <1>8

LEMMA BaseAbandon ==
    ASSUME BattleAssumption, Base, NEW p \in Readers, Abandon(p)
    PROVE  Base'
<1> USE DEF Abandon
<1>1. /\ reader' \in [Readers -> Stage] /\ reader'[p] = IdleReader
      /\ \A q \in Readers \ {p} : reader'[q] = reader[q]
  BY BaseFacts, Placed, IdleStage
<1>2. Stages'
  BY <1>1, StagesKept, IdleStage DEF Base, Ending, Working
<1>3. Copies' /\ seen'[p] = Nothing /\ \A q \in Readers \ {p} : seen'[q] = seen[q]
  <2>1. Nothing = [i \in DOMAIN Nothing |-> Nothing[i]] /\ DOMAIN Nothing = {}
    BY DEF Nothing
  <2>2. QED
    BY <1>1, <2>1, CopyTaken, IdleStage DEF Base
<1>4. Creators'
  <2>1. \A q \in Readers : reader'[q].at = "creating" => reader[q].at = "creating" /\ seen'[q] = seen[q]
    BY <1>1, <1>3, IdleStage
  <2>2. QED
    BY <2>1, CreatorsKept
<1>5. Tables' /\ PastStarts'
  BY BaseFacts DEF Base, Tables, PastStarts
<1>6. QED
  BY <1>2, <1>3, <1>4, <1>5 DEF Base

(***************************************************************************)
(* The steps that add a round.                                             *)
(***************************************************************************)
LEMMA NewRowFacts ==
    ASSUME BattleAssumption, NEW n \in Nat, n > 0, n <= MaxNumber, NEW start \in {"zero", "plan"}
    PROVE  /\ NewRow(n, start) \in Round
           /\ NewRow(n, start).number = n /\ NewRow(n, start).status = "pending"
           /\ NewRow(n, start).start = start /\ NewRow(n, start).over = FALSE
  BY DEF NewRow, Round, BattleAssumption, MaxNumber

\* The number CreateRound gives is above those of the rounds it looks at.
LEMMA NewNumber ==
    ASSUME BattleAssumption, Base, CreateRound
    PROVE  \E n \in Nat, start \in {"zero", "plan"} :
             /\ n > 0 /\ n <= Planned + admins + 1
             /\ rounds' = Append(rounds, NewRow(n, start))
             /\ \A i \in DOMAIN rounds : rounds[i].status # "finished" => rounds[i].number < n
             /\ (\A i \in DOMAIN rounds : rounds[i].status = "finished") =>
                    \A i \in DOMAIN rounds : rounds[i].number < n
<1> DEFINE open == Numbers({"pending", "running"})
           all == Numbers({"pending", "running", "finished"})
           n == IF open # {} THEN Max(open) + 1 ELSE IF all # {} THEN Max(all) + 1 ELSE 1
<1>1. PICK start \in {"zero", "plan"} : rounds' = Append(rounds, NewRow(n, start))
  BY DEF CreateRound
<1>2. /\ \A x \in open : \E i \in DOMAIN rounds : x = rounds[i].number
      /\ \A x \in all : \E i \in DOMAIN rounds : x = rounds[i].number
      /\ \A i \in DOMAIN rounds : rounds[i].status \in {"pending", "running"} => rounds[i].number \in open
      /\ \A i \in DOMAIN rounds :
             rounds[i].status \in {"pending", "running", "finished"} => rounds[i].number \in all
  BY DEF Numbers
<1> HIDE DEF open, all
<1>3. Planned + admins \in Nat
  BY BaseFacts
<1>4. \A i \in DOMAIN rounds :
        /\ rounds[i].number \in Nat /\ rounds[i].number <= Planned + admins
        /\ rounds[i].status \in {"pending", "running", "finished"}
  BY BaseFacts, RowFacts DEF Base, Tables
<1>5. /\ open \subseteq Nat /\ \A x \in open : x <= Planned + admins
      /\ all \subseteq Nat /\ \A x \in all : x <= Planned + admins
  BY <1>2, <1>4
<1>6. open # {} => Max(open) \in open /\ \A x \in open : x <= Max(open)
  BY <1>3, <1>5, GreatestNumber
<1>7. all # {} => Max(all) \in all /\ \A x \in all : x <= Max(all)
  BY <1>3, <1>5, GreatestNumber
<1>8. /\ open # {} => Max(open) \in Nat /\ Max(open) <= Planned + admins /\ n = Max(open) + 1
      /\ open = {} /\ all # {} => Max(all) \in Nat /\ Max(all) <= Planned + admins /\ n = Max(all) + 1
      /\ open = {} /\ all = {} => n = 1
  BY <1>5, <1>6, <1>7
<1> HIDE DEF n
<1>9. n \in Nat /\ n > 0 /\ n <= Planned + admins + 1
  BY <1>3, <1>8
<1>10. ASSUME NEW i \in DOMAIN rounds, rounds[i].status # "finished"
       PROVE  rounds[i].number < n
  <2>1. rounds[i].number \in open
    BY <1>2, <1>4, <1>10
  <2>2. rounds[i].number <= Max(open) /\ Max(open) \in Nat /\ n = Max(open) + 1
    BY <1>6, <1>8, <2>1
  <2>3. QED
    BY <1>4, <2>2
<1>11. ASSUME \A i \in DOMAIN rounds : rounds[i].status = "finished", NEW i \in DOMAIN rounds
       PROVE  rounds[i].number < n
  <2>1. open = {}
    <3> SUFFICES ASSUME NEW x \in open PROVE FALSE
      OBVIOUS
    <3>1. QED
      BY <1>11 DEF open, Numbers
  <2>2. rounds[i].number \in all
    BY <1>2, <1>4
  <2>3. rounds[i].number <= Max(all) /\ Max(all) \in Nat /\ n = Max(all) + 1
    BY <1>7, <1>8, <2>1, <2>2
  <2>4. QED
    BY <1>4, <2>3
<1>12. QED
  BY <1>1, <1>9, <1>10, <1>11

LEMMA BaseCreateRound ==
    ASSUME BattleAssumption, Base, CreateRound
    PROVE  Base'
<1>1. PICK n \in Nat, start \in {"zero", "plan"} :
        /\ n > 0 /\ n <= Planned + admins + 1
        /\ rounds' = Append(rounds, NewRow(n, start))
  BY NewNumber
<1>2. /\ admins < MaxAdmin /\ admins' = admins + 1 /\ raced' \in BOOLEAN
      /\ UNCHANGED <<isBattle, begun, chain, reader, seen, roundFaults>>
  BY BaseFacts DEF CreateRound, Base, Tables
<1> DEFINE new == Len(rounds) + 1
           row == NewRow(n, start)
<1>3. n <= MaxNumber /\ admins' \in 0 .. MaxAdmin
  BY <1>1, <1>2, BaseFacts DEF MaxNumber
<1>4. row \in Round /\ row.number = n /\ row.status = "pending" /\ row.start = start
  BY <1>1, <1>3, NewRowFacts
<1> HIDE DEF row
<1>5. /\ rounds' \in Seq(Round)
      /\ DOMAIN rounds' = DOMAIN rounds \cup {new}
      /\ new \notin DOMAIN rounds
      /\ \A i \in DOMAIN rounds : rounds'[i] = rounds[i]
      /\ rounds'[new] = row
  BY <1>1, <1>4, BaseFacts, Added DEF row
<1> HIDE DEF new
<1>6. Tables'
  <2>1. \A i \in DOMAIN rounds : rounds[i].number <= Planned + admins' 
    <3>1. \A i \in DOMAIN rounds : rounds[i].number \in Nat
      BY BaseFacts, RowFacts
    <3>2. QED
      BY <1>2, <3>1, BaseFacts DEF Base, Tables
  <2>2. n <= Planned + admins'
    BY <1>1, <1>2, BaseFacts
  <2>3. QED
    BY <1>2, <1>3, <1>4, <1>5, <2>1, <2>2 DEF Base, Tables
<1>7. PastStarts'
  BY <1>4, <1>5 DEF Base, PastStarts
<1>8. Stages' /\ Copies'
  BY <1>2, <1>5, StagesSame, CopiesKept DEF Base
<1>9. Creators'
  <2>1. PICK A \in SUBSET DOMAIN rounds :
          /\ Cardinality(A) <= admins
          /\ \E by \in [DOMAIN rounds \ A -> Readers] :
              \A i \in DOMAIN rounds \ A :
                  /\ rounds[i].number <= Planned
                  /\ reader[by[i]].at = "creating" => rounds[i].number \notin Missing(seen[by[i]])
                  /\ \A j \in DOMAIN rounds \ A :
                         by[i] = by[j] /\ rounds[i].number = rounds[j].number => i = j
    BY DEF Base, Creators
  <2>2. PICK by \in [DOMAIN rounds \ A -> Readers] :
          \A i \in DOMAIN rounds \ A :
              /\ rounds[i].number <= Planned
              /\ reader[by[i]].at = "creating" => rounds[i].number \notin Missing(seen[by[i]])
              /\ \A j \in DOMAIN rounds \ A :
                     by[i] = by[j] /\ rounds[i].number = rounds[j].number => i = j
    BY <2>1
  <2> DEFINE B == A \cup {new}
  <2>3. IsFiniteSet(A) /\ Cardinality(A) \in Nat
    BY BaseFacts, FS_Subset, FS_CardinalityType
  <2>4. Cardinality(B) = Cardinality(A) + 1
    BY <1>5, <2>3, FS_AddElement
  <2>5. B \in SUBSET DOMAIN rounds' /\ Cardinality(B) <= admins'
    BY <1>2, <1>5, <2>1, <2>3, <2>4, BaseFacts
  <2>6. DOMAIN rounds' \ B = DOMAIN rounds \ A
    BY <1>5
  <2> HIDE DEF B
  <2>7. by \in [DOMAIN rounds' \ B -> Readers]
    BY <2>6
  <2>8. ASSUME NEW i \in DOMAIN rounds' \ B
        PROVE  /\ rounds'[i].number <= Planned
               /\ reader'[by[i]].at = "creating" => rounds'[i].number \notin Missing(seen'[by[i]])
               /\ \A j \in DOMAIN rounds' \ B :
                      by[i] = by[j] /\ rounds'[i].number = rounds'[j].number => i = j
    BY <1>2, <1>5, <2>2, <2>6
  <2>9. QED
    BY <2>5, <2>7, <2>8 DEF Creators
<1>10. QED
  BY <1>6, <1>7, <1>8, <1>9 DEF Base

LEMMA BaseLoad ==
    ASSUME BattleAssumption, Base, NEW p \in Readers, Load(p)
    PROVE  Base'
<1>1. /\ reader[p].at = "idle" /\ raced' \in BOOLEAN
      /\ UNCHANGED <<isBattle, rounds, begun, chain, admins, roundFaults>>
  BY DEF Load, Base, Tables
<1>2. Tables' /\ PastStarts'
  BY <1>1 DEF Base, Tables, PastStarts
<1>3. CASE /\ Missing(rounds) # {}
           /\ reader' = [reader EXCEPT ![p].at = "creating"]
           /\ seen' = [seen EXCEPT ![p] = rounds]
  <2>1. Moves(reader, p, "creating", reader')
    BY <1>3 DEF Moves
  <2>2. /\ reader' \in [Readers -> Stage]
        /\ \A q \in Readers \ {p} : reader'[q] = reader[q]
        /\ reader'[p].at = "creating"
        /\ reader'[p].run = reader[p].run /\ reader'[p].due = reader[p].due
    <3>1. PICK at \in {"idle", "creating"} \cup Ending \cup Working : at = "creating"
      OBVIOUS
    <3>2. reader \in [Readers -> Stage]
      BY BaseFacts
    <3>3. Moves(reader, p, at, reader')
      BY <2>1, <3>1
    <3>4. QED
      BY <3>1, <3>2, <3>3, Moved
  <2>3. Stages'
    <3>1. Stages /\ reader[p].run = 0 /\ reader[p].due = 0
      BY <1>1 DEF Base, Stages
    <3>2. QED
      BY <1>1, <2>2, <3>1, StagesKept DEF Ending, Working
  <2>4. Copies' /\ seen'[p] = rounds /\ \A q \in Readers \ {p} : seen'[q] = seen[q]
    <3>1. rounds = [i \in DOMAIN rounds |-> rounds[i]]
      BY BaseFacts
    <3>2. QED
      BY <1>1, <1>3, <2>2, <3>1, BaseFacts, CopyTaken DEF Base
  <2>5. \A i \in DOMAIN rounds : rounds[i].number \notin Missing(seen'[p])
    BY <2>4 DEF Missing
  <2>6. Creators'
    BY <1>1, <2>2, <2>4, <2>5, CreatorsKept
  <2>7. QED
    BY <1>2, <2>3, <2>4, <2>6 DEF Base
<1>4. CASE Decide(p, rounds) /\ UNCHANGED seen
  <2>1. /\ Stages' /\ reader'[p].at # "creating"
        /\ \A q \in Readers \ {p} : reader'[q] = reader[q]
    BY <1>1, <1>4, DecidedStages, BaseFacts DEF Base
  <2>2. \A q \in Readers : reader'[q].at = "creating" => reader[q].at = "creating"
    BY <2>1
  <2>3. Copies'
    BY <1>1, <1>4, <2>2, CopiesKept DEF Base
  <2>4. Creators'
    BY <1>1, <1>4, <2>2, CreatorsKept
  <2>5. QED
    BY <1>2, <2>1, <2>3, <2>4 DEF Base
<1>5. QED
  BY <1>3, <1>4 DEF Load

\* The row CreateNext adds, to the table and to the reader's copy s.
LEMMA NextRow ==
    ASSUME BattleAssumption, Base, NEW p \in Readers, CreateNext(p)
    PROVE  \E n \in 1 .. Planned, s \in [DOMAIN seen[p] \cup {Len(rounds) + 1} -> Round] :
             /\ n \in Missing(seen[p])
             /\ NewRow(n, "plan") \in Round
             /\ rounds' = Append(rounds, NewRow(n, "plan"))
             /\ s = [i \in DOMAIN s |-> s[i]] /\ DOMAIN s = DOMAIN seen[p] \cup {Len(rounds) + 1}
             /\ \A i \in DOMAIN seen[p] : s[i] = seen[p][i]
             /\ s[Len(rounds) + 1] = NewRow(n, "plan")
             /\ \/ Missing(s) # {} /\ seen' = [seen EXCEPT ![p] = s] /\ UNCHANGED reader
                \/ Missing(s) = {} /\ seen' = [seen EXCEPT ![p] = Nothing] /\ Decide(p, s)
<1> DEFINE n == Min(Missing(seen[p]))
           row == NewRow(n, "plan")
           new == Len(rounds) + 1
           s == [i \in DOMAIN seen[p] \cup {new} |-> IF i = new THEN row ELSE seen[p][i]]
<1>1. /\ rounds' = Append(rounds, row)
      /\ \/ Missing(s) # {} /\ seen' = [seen EXCEPT ![p] = s] /\ UNCHANGED reader
         \/ Missing(s) = {} /\ seen' = [seen EXCEPT ![p] = Nothing] /\ Decide(p, s)
  BY DEF CreateNext
<1>2. Missing(seen[p]) # {} /\ Missing(seen[p]) \subseteq 1 .. Planned
  BY DEF CreateNext, Base, Copies, Missing
<1>3. n \in Missing(seen[p]) /\ n \in 1 .. Planned
  <2>1. Missing(seen[p]) \subseteq Nat
    BY <1>2, BaseFacts
  <2>2. QED
    BY <1>2, <2>1, LeastNumber
<1> HIDE DEF n
<1>4. row \in Round
  <2>1. n \in Nat /\ n > 0 /\ n <= MaxNumber
    BY <1>3, BaseFacts DEF MaxNumber
  <2>2. PICK start \in {"zero", "plan"} : start = "plan"
    OBVIOUS
  <2>3. NewRow(n, start) \in Round
    BY <2>1, NewRowFacts
  <2>4. QED
    BY <2>2, <2>3
<1>5. new \notin DOMAIN seen[p]
  BY BaseFacts DEF Base, Copies
<1> HIDE DEF new, row
<1>6. /\ s = [i \in DOMAIN s |-> s[i]] /\ DOMAIN s = DOMAIN seen[p] \cup {new}
      /\ \A i \in DOMAIN seen[p] : s[i] = seen[p][i]
      /\ s[new] = row
  BY <1>5
<1> HIDE DEF s
<1>7. s \in [DOMAIN seen[p] \cup {new} -> Round]
  BY <1>4, <1>6 DEF Base, Copies
<1>8. QED
  BY <1>1, <1>3, <1>4, <1>6, <1>7 DEF new, row

LEMMA BaseCreateNext ==
    ASSUME BattleAssumption, Base, NEW p \in Readers, CreateNext(p)
    PROVE  Base'
<1>1. PICK n \in 1 .. Planned, s \in [DOMAIN seen[p] \cup {Len(rounds) + 1} -> Round] :
        /\ n \in Missing(seen[p])
        /\ NewRow(n, "plan") \in Round
        /\ rounds' = Append(rounds, NewRow(n, "plan"))
        /\ s = [i \in DOMAIN s |-> s[i]] /\ DOMAIN s = DOMAIN seen[p] \cup {Len(rounds) + 1}
        /\ \A i \in DOMAIN seen[p] : s[i] = seen[p][i]
        /\ s[Len(rounds) + 1] = NewRow(n, "plan")
        /\ \/ Missing(s) # {} /\ seen' = [seen EXCEPT ![p] = s] /\ UNCHANGED reader
           \/ Missing(s) = {} /\ seen' = [seen EXCEPT ![p] = Nothing] /\ Decide(p, s)
  BY NextRow
<1>2. /\ reader[p].at = "creating"
      /\ UNCHANGED <<isBattle, begun, chain, admins, roundFaults, raced>>
  BY DEF CreateNext
<1> DEFINE new == Len(rounds) + 1
           row == NewRow(n, "plan")
<1>3. row.number = n /\ row.status = "pending" /\ row.start = "plan"
  BY DEF NewRow
<1> HIDE DEF row
<1>4. /\ rounds' \in Seq(Round)
      /\ DOMAIN rounds' = DOMAIN rounds \cup {new}
      /\ new \notin DOMAIN rounds
      /\ \A i \in DOMAIN rounds : rounds'[i] = rounds[i]
      /\ rounds'[new] = row
  BY <1>1, BaseFacts, Added DEF row
<1>5. DOMAIN rounds' \subseteq Nat \ {0}
  BY <1>4, BaseFacts
<1>6. /\ DOMAIN s = DOMAIN seen[p] \cup {new} /\ s[new] = row
      /\ \A i \in DOMAIN s : s[i] \in Round
      /\ DOMAIN s \subseteq DOMAIN rounds'
  BY <1>1, <1>4 DEF Base, Copies, row
<1> HIDE DEF new
<1>7. Missing(s) \subseteq Missing(seen[p]) /\ n \notin Missing(s)
  <2>1. \A i \in DOMAIN seen[p] : i \in DOMAIN s /\ s[i].number = seen[p][i].number
    BY <1>1, <1>6
  <2>2. new \in DOMAIN s /\ s[new].number = n
    BY <1>3, <1>6
  <2>3. QED
    BY <2>1, <2>2 DEF Missing
<1>8. Tables'
  <2>1. n <= Planned + admins
    BY <1>1, BaseFacts
  <2>2. QED
    BY <1>2, <1>3, <1>4, <2>1 DEF Base, Tables
<1>9. PastStarts'
  BY <1>3, <1>4 DEF Base, PastStarts
<1>10. Stages' /\ Copies' /\ \A q \in Readers : reader'[q].at = "creating" =>
           /\ reader[q].at = "creating"
           /\ IF q = p THEN seen'[q] = s ELSE seen'[q] = seen[q]
  <2>1. CASE Missing(s) # {} /\ seen' = [seen EXCEPT ![p] = s] /\ UNCHANGED reader
    <3>1. Stages'
      BY <1>4, <2>1, StagesSame DEF Base
    <3>2. Copies' /\ seen'[p] = s /\ \A q \in Readers \ {p} : seen'[q] = seen[q]
      BY <1>1, <1>4, <1>6, <2>1, CopyTaken DEF Base
    <3>3. QED
      BY <2>1, <3>1, <3>2
  <2>2. CASE Missing(s) = {} /\ seen' = [seen EXCEPT ![p] = Nothing] /\ Decide(p, s)
    <3>1. /\ Stages' /\ reader'[p].at # "creating"
          /\ \A q \in Readers \ {p} : reader'[q] = reader[q]
      BY <1>4, <1>5, <1>6, <2>2, DecidedStages DEF Base
    <3>2. Nothing = [i \in DOMAIN Nothing |-> Nothing[i]] /\ DOMAIN Nothing = {}
      BY DEF Nothing
    <3>3. Copies' /\ \A q \in Readers \ {p} : seen'[q] = seen[q]
      BY <1>4, <2>2, <3>1, <3>2, CopyTaken DEF Base
    <3>4. QED
      BY <3>1, <3>3
  <2>3. QED
    BY <1>1, <2>1, <2>2
<1>11. Creators'
  <2>1. PICK A \in SUBSET DOMAIN rounds :
          /\ Cardinality(A) <= admins
          /\ \E by \in [DOMAIN rounds \ A -> Readers] :
              \A i \in DOMAIN rounds \ A :
                  /\ rounds[i].number <= Planned
                  /\ reader[by[i]].at = "creating" => rounds[i].number \notin Missing(seen[by[i]])
                  /\ \A j \in DOMAIN rounds \ A :
                         by[i] = by[j] /\ rounds[i].number = rounds[j].number => i = j
    BY DEF Base, Creators
  <2>2. PICK by \in [DOMAIN rounds \ A -> Readers] :
          \A i \in DOMAIN rounds \ A :
              /\ rounds[i].number <= Planned
              /\ reader[by[i]].at = "creating" => rounds[i].number \notin Missing(seen[by[i]])
              /\ \A j \in DOMAIN rounds \ A :
                     by[i] = by[j] /\ rounds[i].number = rounds[j].number => i = j
    BY <2>1
  <2> DEFINE D == (DOMAIN rounds \ A) \cup {new}
             b == [i \in D |-> IF i = new THEN p ELSE by[i]]
  <2>3. DOMAIN rounds' \ A = D
    BY <1>4, <2>1
  <2>4. b \in [D -> Readers] /\ b[new] = p /\ \A i \in DOMAIN rounds \ A : b[i] = by[i]
    BY <1>4
  <2>5. \A i \in D : i = new \/ i \in DOMAIN rounds \ A
    OBVIOUS
  <2> HIDE DEF D, b
  <2>6. ASSUME NEW i \in DOMAIN rounds \ A
        PROVE  /\ rounds'[i].number = rounds[i].number /\ by[i] \in Readers /\ b[i] = by[i]
               /\ by[i] = p => rounds[i].number # n
    BY <1>1, <1>2, <1>4, <2>2, <2>4
  <2>7. ASSUME NEW i \in D
        PROVE  /\ rounds'[i].number <= Planned
               /\ reader'[b[i]].at = "creating" => rounds'[i].number \notin Missing(seen'[b[i]])
               /\ \A j \in D : b[i] = b[j] /\ rounds'[i].number = rounds'[j].number => i = j
    <3>1. CASE i = new
      <4>1. rounds'[i].number = n /\ b[i] = p
        BY <1>3, <1>4, <2>4, <3>1
      <4>2. n <= Planned
        BY <1>1
      <4>3. reader'[p].at = "creating" => n \notin Missing(seen'[p])
        BY <1>7, <1>10
      <4>4. ASSUME NEW j \in D, b[j] = p, rounds'[j].number = n PROVE i = j
        BY <2>5, <2>6, <3>1, <4>4
      <4>5. QED
        BY <4>1, <4>2, <4>3, <4>4
    <3>2. CASE i \in DOMAIN rounds \ A
      <4>1. rounds'[i].number <= Planned
        BY <2>2, <2>6, <3>2
      <4>2. ASSUME reader'[b[i]].at = "creating" PROVE rounds'[i].number \notin Missing(seen'[b[i]])
        BY <1>7, <1>10, <2>2, <2>6, <3>2, <4>2
      <4>3. ASSUME NEW j \in D, b[i] = b[j], rounds'[i].number = rounds'[j].number PROVE i = j
        <5>1. CASE j = new
          BY <1>3, <1>4, <2>4, <2>6, <3>2, <4>3, <5>1
        <5>2. CASE j \in DOMAIN rounds \ A
          BY <2>2, <2>6, <3>2, <4>3, <5>2
        <5>3. QED
          BY <2>5, <5>1, <5>2
      <4>4. QED
        BY <4>1, <4>2, <4>3
    <3>3. QED
      BY <2>5, <3>1, <3>2
  <2>8. A \in SUBSET DOMAIN rounds' /\ Cardinality(A) <= admins'
    BY <1>2, <1>4, <2>1
  <2>9. /\ b \in [DOMAIN rounds' \ A -> Readers]
        /\ \A i \in DOMAIN rounds' \ A :
            /\ rounds'[i].number <= Planned
            /\ reader'[b[i]].at = "creating" => rounds'[i].number \notin Missing(seen'[b[i]])
            /\ \A j \in DOMAIN rounds' \ A :
                   b[i] = b[j] /\ rounds'[i].number = rounds'[j].number => i = j
    BY <2>3, <2>4, <2>7
  <2>10. QED
    BY <2>8, <2>9 DEF Creators
<1>12. QED
  BY <1>8, <1>9, <1>10, <1>11 DEF Base

LEMMA BaseStep ==
    ASSUME BattleAssumption, Base, [BattleNext]_battleVars
    PROVE  Base'
<1>1. CASE RoundDue
  BY <1>1, BaseRoundDue
<1>2. CASE \E i \in DOMAIN rounds : RoundEnds(i)
  BY <1>2, BaseRoundEnds
<1>3. CASE CreateRound
  BY <1>3, BaseCreateRound
<1>4. ASSUME NEW p \in Readers, ReaderStep(p) PROVE Base'
  BY <1>4, BaseLoad, BaseCreateNext, BaseWork DEF ReaderStep
<1>5. CASE \E p \in Readers : Abandon(p)
  BY <1>5, BaseAbandon
<1>6. CASE UNCHANGED battleVars
  <2>1. PastStarts' /\ Stages'
    BY <1>6, StagesSame DEF battleVars, Base, PastStarts
  <2>2. QED
    BY <1>6, <2>1, BaseKept, BaseFacts DEF battleVars, Base, Tables
<1>7. QED
  BY <1>1, <1>2, <1>3, <1>4, <1>5, <1>6 DEF BattleNext

-----------------------------------------------------------------------------
(***************************************************************************)
(* The table has at most one row per administrator's round, and one per    *)
(* reader and planned number: the rows that are not an administrator's are *)
(* mapped one to one to pairs of a reader and a number of the plan.        *)
(***************************************************************************)
LEMMA RowsBounded ==
    ASSUME BattleAssumption, Base
    PROVE  Len(rounds) <= MaxRows /\ MaxRows \in Nat
<1>1. PICK A \in SUBSET DOMAIN rounds :
        /\ Cardinality(A) <= admins
        /\ \E by \in [DOMAIN rounds \ A -> Readers] :
            \A i \in DOMAIN rounds \ A :
                /\ rounds[i].number <= Planned
                /\ \A j \in DOMAIN rounds \ A :
                       by[i] = by[j] /\ rounds[i].number = rounds[j].number => i = j
  BY DEF Base, Creators
<1>2. PICK by \in [DOMAIN rounds \ A -> Readers] :
        \A i \in DOMAIN rounds \ A :
            /\ rounds[i].number <= Planned
            /\ \A j \in DOMAIN rounds \ A :
                   by[i] = by[j] /\ rounds[i].number = rounds[j].number => i = j
  BY <1>1
<1> DEFINE D == DOMAIN rounds \ A
           T == Readers \X (1 .. Planned)
           f == [i \in D |-> <<by[i], rounds[i].number>>]
<1>3. f \in Injection(D, T)
  <2>1. \A i \in D : by[i] \in Readers /\ rounds[i].number \in 1 .. Planned
    <3>1. \A i \in DOMAIN rounds : rounds[i].number \in Nat /\ rounds[i].number > 0
      BY BaseFacts, RowFacts
    <3>2. QED
      BY <1>2, <3>1, BaseFacts
  <2>2. f \in [D -> T]
    BY <2>1
  <2>3. \A i, j \in D : f[i] = f[j] => i = j
    BY <1>2
  <2>4. QED
    BY <2>2, <2>3 DEF Injection, IsInjective
<1>4. /\ IsFiniteSet(Readers) /\ IsFiniteSet(1 .. Planned) /\ Cardinality(1 .. Planned) = Planned
      /\ Planned \in Nat
  BY FS_Interval DEF BattleAssumption
<1>5. IsFiniteSet(T) /\ Cardinality(T) = Cardinality(Readers) * Planned
  BY <1>4, FS_Product
<1>6. Cardinality(D) <= Cardinality(T)
  <2> HIDE DEF f, D, T
  <2>1. QED
    BY <1>3, <1>5, FS_Injection
<1>7. IsFiniteSet(A) /\ IsFiniteSet(D)
  BY BaseFacts, FS_Subset
<1>8. Cardinality(DOMAIN rounds) = Cardinality(A) + Cardinality(D)
  <2>1. A \cup D = DOMAIN rounds /\ A \cap D = {}
    OBVIOUS
  <2>2. Cardinality(A \cup D) = Cardinality(A) + Cardinality(D) - Cardinality(A \cap D)
    BY <1>7, FS_Union
  <2>3. Cardinality(A) \in Nat /\ Cardinality(D) \in Nat /\ Cardinality({}) = 0
    BY <1>7, FS_CardinalityType, FS_EmptySet
  <2> HIDE DEF D
  <2>4. Cardinality(A \cup D) = Cardinality(DOMAIN rounds) /\ Cardinality(A \cap D) = 0
    BY <2>1, <2>3, Zenon
  <2>5. QED
    BY <2>2, <2>3, <2>4
<1>9. /\ Cardinality(Readers) \in Nat /\ Cardinality(A) \in Nat /\ Cardinality(D) \in Nat
      /\ Cardinality(T) \in Nat
  BY <1>4, <1>5, <1>7, FS_CardinalityType
<1>10. Cardinality(T) = Planned * Cardinality(Readers)
  BY <1>4, <1>5, <1>9
<1>11. Len(rounds) = Cardinality(DOMAIN rounds)
  BY TableFacts DEF Base, Tables
<1> HIDE DEF D, T, f
<1>12. QED
  BY <1>1, <1>6, <1>8, <1>9, <1>10, <1>11, BaseFacts DEF MaxRows

LEMMA BaseTypes ==
    ASSUME BattleAssumption, Base
    PROVE  BattleTypeOK
<1>1. reader \in [Readers -> Reader]
  <2>1. DOMAIN rounds \subseteq 0 .. MaxRows
    BY BaseFacts, RowsBounded
  <2>2. 0 \in 0 .. MaxRows
    BY RowsBounded
  <2>3. ASSUME NEW p \in Readers PROVE reader[p] \in Reader
    <3>1. reader[p] \in Stage /\ reader[p].run \in 0 .. MaxRows /\ reader[p].due \in 0 .. MaxRows
      BY <2>1, <2>2, BaseFacts DEF Base, Stages
    <3> DEFINE bound == 0 .. MaxRows
    <3> HIDE DEF bound
    <3>2. reader[p].run \in bound /\ reader[p].due \in bound
      BY <3>1 DEF bound
    <3>3. reader[p] \in [at : {"idle", "creating", "stopping", "finishing", "starting",
                              "booting", "saving", "aborting"}, run : bound, due : bound]
      BY <3>1, <3>2 DEF Stage, Ending, Working
    <3>4. QED
      BY <3>3 DEF Reader, bound
  <2>4. QED
    BY <2>3, BaseFacts
<1>2. QED
  BY <1>1, RowsBounded DEF Base, Tables, Copies, BattleTypeOK

LEMMA BaseCorrect ==
    ASSUME BattleAssumption
    PROVE  BattleSpec => []Base
<1>1. BattleInit => Base
  BY BaseInit
<1>2. Base /\ [BattleNext]_battleVars => Base'
  BY BaseStep
<1>3. QED
  BY <1>1, <1>2, PTL DEF BattleSpec

(***************************************************************************)
(* Type correctness of the rounds: whatever the interleaving of readers,   *)
(* the table stays within one row per reader and planned number plus the   *)
(* administrator's, and every reader works on rows that exist              *)
(* (AgentBattleService.SyncContestRoundLifecycle).                         *)
(***************************************************************************)
THEOREM BattleTypeCorrect ==
    ASSUME BattleAssumption
    PROVE  BattleSpec => []BattleTypeOK
<1>1. Base => BattleTypeOK
  BY BaseTypes
<1>2. QED
  BY <1>1, BaseCorrect, PTL

-----------------------------------------------------------------------------
(***************************************************************************)
(* The rest of the inductive invariant: what holds as long as no two       *)
(* readers were in the synchronisation at once.  SingleFileBattle is not   *)
(* inductive: that a round runs after those below it depends on what the   *)
(* reader that starts it had decided about the others, and on nobody       *)
(* having changed them since.                                              *)
(***************************************************************************)
Zero == \E k \in DOMAIN rounds : rounds[k].start = "zero"
Gone(j) == rounds[j].status = "finished" \/ rounds[j].start = "zero"
PlanDone == Len(rounds) >= Planned \/ Missing(rounds) = {}

AloneInside == \A p, q \in Readers : reader[p].at # "idle" /\ reader[q].at # "idle" => p = q

TableInOrder ==
    /\ Zero \/ \A i, j \in DOMAIN rounds : rounds[i].number = rounds[j].number => i = j
    /\ Zero \/ \A i, j \in DOMAIN rounds :
           rounds[i].status = "finished" /\ rounds[j].status # "finished" =>
               rounds[i].number < rounds[j].number
    /\ \A i \in Running, j \in DOMAIN rounds : rounds[j].number < rounds[i].number => Gone(j)
    /\ \A i, j \in Running : i = j
    /\ \A i \in Running : rounds[i].over \/ i \in chain

PlanFirst == (\E i \in DOMAIN rounds : rounds[i].status # "pending") => PlanDone

\* The rows p knows are those of the table, and what it decided still holds.
InStep(p) ==
    /\ reader[p].at = "creating" =>
           seen[p] = rounds /\ \A i \in DOMAIN rounds : rounds[i].status = "pending"
    /\ reader[p].at \in Ending \cup Working => PlanDone
    /\ reader[p].at \in Ending => reader[p].run \in Running /\ rounds[reader[p].run].over
    /\ reader[p].at \in Working => Running = {}
    /\ reader[p].at \in {"booting", "saving"} => reader[p].due \in chain
    /\ reader[p].due # 0 =>
        /\ rounds[reader[p].due].status = "pending" /\ rounds[reader[p].due].start = "plan"
        /\ \A j \in DOMAIN rounds :
               rounds[j].number < rounds[reader[p].due].number => Gone(j) \/ j = reader[p].run

\* Without a fault a chain has a running round, or a reader at work on it.
NoStrayChain ==
    roundFaults = 0 =>
        /\ \A i \in chain : i \in Running \/ \E p \in Readers : reader[p].due = i
        /\ \A p \in Readers :
            /\ reader[p].at = "finishing" => reader[p].run \notin chain
            /\ reader[p].at \in Ending \cup {"starting", "aborting"} => reader[p].due \notin chain

SingleFile == AloneInside /\ TableInOrder /\ PlanFirst /\ (\A p \in Readers : InStep(p)) /\ NoStrayChain

BattleInv == Base /\ (~raced => SingleFile)

-----------------------------------------------------------------------------
(***************************************************************************)
(* How its parts are kept.                                                 *)
(***************************************************************************)
LEMMA PlanDoneKept ==
    ASSUME rounds \in Seq(Round), rounds' \in Seq(Round), DOMAIN rounds \subseteq DOMAIN rounds',
           Planned \in Nat, \A i \in DOMAIN rounds : rounds'[i].number = rounds[i].number
    PROVE  PlanDone => PlanDone'
<1>1. Len(rounds) <= Len(rounds') /\ Len(rounds) \in Nat /\ Len(rounds') \in Nat
  <2>1. Len(rounds) \in Nat /\ DOMAIN rounds = 1 .. Len(rounds)
    OBVIOUS
  <2>2. Len(rounds') \in Nat /\ DOMAIN rounds' = 1 .. Len(rounds')
    OBVIOUS
  <2>3. CASE Len(rounds) = 0
    BY <2>2, <2>3
  <2>4. CASE Len(rounds) # 0
    <3>1. Len(rounds) \in DOMAIN rounds
      BY <2>1, <2>4
    <3>2. QED
      BY <2>1, <2>2, <3>1
  <2>5. QED
    BY <2>3, <2>4
<1>2. Missing(rounds) = {} => Missing(rounds') = {}
  BY DEF Missing
<1>3. QED
  BY <1>1, <1>2 DEF PlanDone

LEMMA SingleFileKept ==
    ASSUME NEW p \in Readers,
           \A q \in Readers \ {p} :
               reader'[q].at = "idle" /\ reader'[q].run = 0 /\ reader'[q].due = 0,
           TableInOrder', PlanFirst', InStep(p)', NoStrayChain'
    PROVE  SingleFile'
<1>1. ASSUME NEW q \in Readers PROVE InStep(q)'
  <2>1. CASE q = p
    BY <2>1
  <2>2. CASE q # p
    BY <2>2 DEF InStep, Ending, Working
  <2>3. QED
    BY <2>1, <2>2
<1>2. AloneInside'
  BY DEF AloneInside
<1>3. QED
  BY <1>1, <1>2 DEF SingleFile

\* The other readers are idle while p is not.
LEMMA OthersIdle ==
    ASSUME Base, SingleFile, NEW p \in Readers, reader[p].at # "idle"
    PROVE  \A q \in Readers \ {p} : reader[q].at = "idle" /\ reader[q].run = 0 /\ reader[q].due = 0
  BY DEF SingleFile, AloneInside, Base, Stages

\* What is read of the table is unchanged.
LEMMA TableSame ==
    ASSUME TableInOrder, PlanFirst, rounds' = rounds,
           \A i \in Running : rounds[i].over \/ i \in chain'
    PROVE  TableInOrder' /\ PlanFirst' /\ Running' = Running /\ (PlanDone' <=> PlanDone)
<1>1. Running' = Running /\ (Zero' <=> Zero) /\ (PlanDone' <=> PlanDone)
  BY DEF Running, Zero, PlanDone
<1>2. \A j : Gone(j)' <=> Gone(j)
  BY DEF Gone
<1>3. QED
  BY <1>1, <1>2 DEF TableInOrder, PlanFirst

(***************************************************************************)
(* A decision about the rows of the table keeps the single file: the due   *)
(* round it takes is below every other round that may still run.           *)
(***************************************************************************)
LEMMA DecisionInStep ==
    ASSUME BattleAssumption, Base, Base', NEW p \in Readers, NEW s, s = rounds', Decide(p, s),
           begun' = begun,
           \A q \in Readers \ {p} : reader[q].at = "idle" /\ reader[q].run = 0 /\ reader[q].due = 0,
           TableInOrder', PlanFirst', PlanDone',
           roundFaults' = 0 => chain' \subseteq Running'
    PROVE  SingleFile'
<1>1. /\ \A q \in Readers \ {p} : reader'[q] = reader[q]
      /\ \/ reader'[p].at = "idle" /\ reader'[p].run = 0 /\ reader'[p].due = 0
         \/ /\ reader'[p].at = "stopping"
            /\ reader'[p].run \in DOMAIN s
            /\ s[reader'[p].run].status = "running" /\ s[reader'[p].run].over
            /\ reader'[p].due = 0 \/ FirstDue(s, reader'[p].due)
         \/ /\ reader'[p].at = "starting"
            /\ reader'[p].run = 0 /\ FirstDue(s, reader'[p].due)
            /\ \A j \in DOMAIN s : s[j].status # "running"
  <2>1. rounds' \in Seq(Round)
    BY DEF Base, Tables
  <2>2. DOMAIN s \subseteq Nat \ {0} /\ reader \in [Readers -> Stage]
    BY <2>1, BaseFacts
  <2>3. QED
    BY <2>2, Decided
<1>2. /\ 0 \notin DOMAIN s
      /\ \A i \in DOMAIN s : /\ s[i] \in Round
                             /\ s[i].status = "pending" <=> s[i].start # "past"
      /\ chain' \subseteq DOMAIN s
  BY DEF Base, Tables, PastStarts
<1>3. Running' = {i \in DOMAIN s : s[i].status = "running"}
  BY DEF Running
<1>4. ASSUME NEW d, FirstDue(s, d)
      PROVE  /\ d \in DOMAIN s /\ d # 0 /\ s[d].status = "pending" /\ s[d].start = "plan"
             /\ \A j \in DOMAIN s : s[j].number < s[d].number =>
                    \/ s[j].status = "finished" \/ s[j].start = "zero"
                    \/ s[j].status = "running"
  <2>1. d \in DOMAIN s /\ s[d].status = "pending" /\ s[d].start = "plan" /\ s[d].number <= begun
    BY <1>2, <1>4 DEF FirstDue, Due
  <2>2. ASSUME NEW j \in DOMAIN s, s[j].number < s[d].number, s[j].status = "pending",
               s[j].start # "zero"
        PROVE  FALSE
    <3>1. s[j].start = "plan"
      BY <1>2, <2>2, RowFacts
    <3>2. s[j].number \in Nat /\ s[d].number \in Nat /\ begun \in Nat
      BY <1>2, <2>1, RowFacts, BaseFacts DEF Base, Tables
    <3>3. Due(s[j])
      BY <2>1, <2>2, <3>1, <3>2 DEF Due
    <3>4. s[d].number <= s[j].number
      BY <1>4, <3>3 DEF FirstDue
    <3>5. QED
      BY <2>2, <3>2, <3>4
  <2>3. \A j \in DOMAIN s : s[j].status \in {"pending", "running", "finished"}
    BY <1>2, RowFacts
  <2>4. QED
    BY <1>2, <2>1, <2>2, <2>3
<1>5. \A j \in DOMAIN s : Gone(j)' <=> s[j].status = "finished" \/ s[j].start = "zero"
  BY DEF Gone
<1>6. \A i, j \in Running' : i = j
  BY DEF TableInOrder
<1>7. InStep(p)'
  <2>1. CASE reader'[p].at = "idle" /\ reader'[p].run = 0 /\ reader'[p].due = 0
    BY <2>1 DEF InStep, Ending, Working
  <2>2. CASE /\ reader'[p].at = "stopping"
             /\ reader'[p].run \in DOMAIN s
             /\ s[reader'[p].run].status = "running" /\ s[reader'[p].run].over
             /\ reader'[p].due = 0 \/ FirstDue(s, reader'[p].due)
    <3>1. reader'[p].run \in Running' /\ rounds'[reader'[p].run].over
      BY <1>3, <2>2
    <3>2. ASSUME reader'[p].due # 0
          PROVE  /\ rounds'[reader'[p].due].status = "pending"
                 /\ rounds'[reader'[p].due].start = "plan"
                 /\ \A j \in DOMAIN rounds' :
                        rounds'[j].number < rounds'[reader'[p].due].number =>
                            Gone(j)' \/ j = reader'[p].run
      BY <1>3, <1>4, <1>5, <1>6, <2>2, <3>1, <3>2
    <3>3. QED
      BY <2>2, <3>1, <3>2 DEF InStep, Ending, Working
  <2>3. CASE /\ reader'[p].at = "starting"
             /\ reader'[p].run = 0 /\ FirstDue(s, reader'[p].due)
             /\ \A j \in DOMAIN s : s[j].status # "running"
    <3>1. Running' = {}
      BY <1>3, <2>3
    <3>2. /\ rounds'[reader'[p].due].status = "pending"
          /\ rounds'[reader'[p].due].start = "plan"
          /\ \A j \in DOMAIN rounds' :
                 rounds'[j].number < rounds'[reader'[p].due].number => Gone(j)'
      BY <1>4, <1>5, <2>3
    <3>3. QED
      BY <2>3, <3>1, <3>2 DEF InStep, Ending, Working
  <2>4. QED
    BY <1>1, <2>1, <2>2, <2>3
<1>8. NoStrayChain'
  <2>1. ASSUME roundFaults' = 0, NEW d, FirstDue(s, d) PROVE d \notin chain'
    BY <1>3, <1>4, <2>1
  <2>2. reader'[p].at # "finishing" /\ \A q \in Readers \ {p} : reader'[q].at = "idle"
    BY <1>1
  <2>3. ASSUME roundFaults' = 0, NEW q \in Readers,
               reader'[q].at \in Ending \cup {"starting", "aborting"}
        PROVE  reader'[q].due \notin chain'
    <3>1. q = p /\ (reader'[p].due = 0 \/ FirstDue(s, reader'[p].due))
      BY <1>1, <2>2, <2>3 DEF Ending
    <3>2. 0 \notin chain'
      BY <1>2
    <3>3. QED
      BY <2>1, <2>3, <3>1, <3>2
  <2>4. QED
    BY <2>2, <2>3 DEF NoStrayChain
<1>9. QED
  BY <1>1, <1>7, <1>8, SingleFileKept

-----------------------------------------------------------------------------
(***************************************************************************)
(* Each action keeps the single file.                                      *)
(***************************************************************************)
LEMMA ChainOwners ==
    ASSUME BattleAssumption, Base, SingleFile, NEW p \in Readers, reader[p].at # "idle", roundFaults = 0
    PROVE  \A i \in chain : i \in Running \/ i = reader[p].due
<1>1. 0 \notin chain
  BY BaseFacts DEF Base, Tables
<1>2. QED
  BY <1>1, OthersIdle DEF SingleFile, NoStrayChain

LEMMA NoStrayKept ==
    ASSUME NEW p \in Readers,
           \A q \in Readers \ {p} : reader'[q].at = "idle",
           roundFaults' = 0 =>
               /\ \A i \in chain' : i \in Running' \/ i = reader'[p].due
               /\ reader'[p].at = "finishing" => reader'[p].run \notin chain'
               /\ reader'[p].at \in Ending \cup {"starting", "aborting"} =>
                      reader'[p].due \notin chain'
    PROVE  NoStrayChain'
  BY DEF NoStrayChain, Ending

LEMMA FileRoundDue ==
    ASSUME BattleAssumption, Base, SingleFile, RoundDue
    PROVE  SingleFile'
<1> USE DEF RoundDue
<1>1. /\ TableInOrder' /\ PlanFirst' /\ Running' = Running /\ (PlanDone' <=> PlanDone)
  BY TableSame DEF SingleFile, TableInOrder
<1>2. \A j : Gone(j)' <=> Gone(j)
  BY DEF Gone
<1>3. \A p \in Readers : InStep(p)'
  BY <1>1, <1>2 DEF SingleFile, InStep
<1>4. QED
  BY <1>1, <1>3 DEF SingleFile, AloneInside, NoStrayChain

LEMMA FileRoundEnds ==
    ASSUME BattleAssumption, Base, SingleFile, NEW i \in DOMAIN rounds, RoundEnds(i)
    PROVE  SingleFile'
<1>1. /\ rounds \in Seq(Round) /\ Ends(rounds, i, rounds') /\ rounds[i].status = "running"
      /\ UNCHANGED <<isBattle, begun, chain, reader, seen, admins, roundFaults, raced>>
  BY BaseFacts DEF Ends, RoundEnds
<1>2. /\ rounds' \in Seq(Round) /\ DOMAIN rounds' = DOMAIN rounds
      /\ rounds'[i].over = TRUE
      /\ \A j \in DOMAIN rounds : /\ rounds'[j].number = rounds[j].number
                                  /\ rounds'[j].status = rounds[j].status
                                  /\ rounds'[j].start = rounds[j].start
                                  /\ j # i => rounds'[j].over = rounds[j].over
  <2>1. /\ rounds' \in Seq(Round) /\ DOMAIN rounds' = DOMAIN rounds
        /\ \A j \in DOMAIN rounds \ {i} : rounds'[j] = rounds[j]
        /\ rounds'[i].number = rounds[i].number /\ rounds'[i].status = rounds[i].status
        /\ rounds'[i].start = rounds[i].start /\ rounds'[i].over = TRUE
    BY <1>1, Ended
  <2>2. QED
    BY <2>1
<1>3. Running' = Running /\ (Zero' <=> Zero) /\ (\A j \in DOMAIN rounds : Gone(j)' <=> Gone(j))
  BY <1>2 DEF Running, Zero, Gone
<1>4. PlanDone => PlanDone'
  BY <1>1, <1>2, PlanDoneKept, BaseFacts
<1>5. TableInOrder'
  <2>1. TableInOrder
    BY DEF SingleFile
  <2>2. /\ Running \subseteq DOMAIN rounds
        /\ \A j \in Running : rounds'[j].over \/ j \in chain'
    BY <1>1, <1>2, <2>1 DEF TableInOrder, Running
  <2>3. QED
    BY <1>2, <1>3, <2>1, <2>2 DEF TableInOrder
<1>6. PlanFirst'
  BY <1>2, <1>4 DEF SingleFile, PlanFirst
<1>7. ASSUME NEW p \in Readers PROVE InStep(p)'
  <2>1. InStep(p) /\ reader'[p] = reader[p] /\ seen'[p] = seen[p]
    BY <1>1 DEF SingleFile
  <2>2. reader[p].at # "creating"
    BY <1>1, <2>1 DEF InStep
  <2>3. /\ reader[p].due \in DOMAIN rounds \cup {0}
        /\ Running \subseteq DOMAIN rounds
    BY DEF Base, Stages, Running
  <2>4. reader[p].at \in Ending => reader[p].run \in Running' /\ rounds'[reader[p].run].over
    BY <1>2, <1>3, <2>1, <2>3 DEF InStep
  <2>5. reader[p].due # 0 =>
          /\ rounds'[reader[p].due].status = "pending" /\ rounds'[reader[p].due].start = "plan"
          /\ \A j \in DOMAIN rounds' :
                 rounds'[j].number < rounds'[reader[p].due].number => Gone(j)' \/ j = reader[p].run
    BY <1>2, <1>3, <2>1, <2>3 DEF InStep
  <2>6. QED
    BY <1>1, <1>3, <1>4, <2>1, <2>2, <2>4, <2>5 DEF InStep
<1>8. AloneInside' /\ NoStrayChain'
  BY <1>1, <1>3 DEF SingleFile, AloneInside, NoStrayChain
<1>9. QED
  BY <1>5, <1>6, <1>7, <1>8 DEF SingleFile

LEMMA FileCreateRound ==
    ASSUME BattleAssumption, Base, SingleFile, CreateRound, ~raced'
    PROVE  SingleFile'
<1>1. PICK n \in Nat, start \in {"zero", "plan"} :
        /\ n > 0 /\ n <= Planned + admins + 1
        /\ rounds' = Append(rounds, NewRow(n, start))
        /\ \A i \in DOMAIN rounds : rounds[i].status # "finished" => rounds[i].number < n
        /\ (\A i \in DOMAIN rounds : rounds[i].status = "finished") =>
               \A i \in DOMAIN rounds : rounds[i].number < n
  BY NewNumber
<1>2. /\ admins < MaxAdmin /\ \A p \in Readers : reader[p].at # "creating"
      /\ UNCHANGED <<isBattle, begun, chain, reader, seen, roundFaults>>
  BY DEF CreateRound
<1> DEFINE new == Len(rounds) + 1
           row == NewRow(n, start)
<1>3. n <= MaxNumber
  BY <1>1, <1>2, BaseFacts DEF MaxNumber
<1>4. row \in Round /\ row.number = n /\ row.status = "pending" /\ row.start = start
  BY <1>1, <1>3, NewRowFacts
<1> HIDE DEF row
<1>5. /\ rounds' \in Seq(Round) /\ rounds \in Seq(Round)
      /\ DOMAIN rounds' = DOMAIN rounds \cup {new}
      /\ new \notin DOMAIN rounds
      /\ \A i \in DOMAIN rounds : rounds'[i] = rounds[i]
      /\ rounds'[new] = row
  BY <1>1, <1>4, BaseFacts, Added DEF row
<1> HIDE DEF new
<1>6. /\ Running' = Running /\ Running \subseteq DOMAIN rounds
      /\ Zero => Zero'
      /\ \A j \in DOMAIN rounds : Gone(j)' <=> Gone(j)
  BY <1>4, <1>5 DEF Running, Zero, Gone
<1>7. PlanDone => PlanDone'
  BY <1>5, PlanDoneKept, BaseFacts
<1>8. TableInOrder
  BY DEF SingleFile
<1>9. \A i \in DOMAIN rounds : rounds[i].number \in Nat
  BY BaseFacts, RowFacts
\* Without a round that lost its time, the new number is above all of them.
<1>10. ASSUME ~Zero, NEW i \in DOMAIN rounds PROVE rounds[i].number < n
  <2>1. CASE \A j \in DOMAIN rounds : rounds[j].status = "finished"
    BY <1>1, <2>1
  <2>2. CASE rounds[i].status # "finished"
    BY <1>1, <2>2
  <2>3. CASE rounds[i].status = "finished" /\ \E j \in DOMAIN rounds : rounds[j].status # "finished"
    <3>1. PICK j \in DOMAIN rounds : rounds[j].status # "finished"
      BY <2>3
    <3>2. rounds[i].number < rounds[j].number /\ rounds[j].number < n
      BY <1>1, <1>8, <1>10, <2>3, <3>1 DEF TableInOrder
    <3>3. QED
      BY <1>9, <3>2
  <2>4. QED
    BY <2>1, <2>2, <2>3
<1>11. TableInOrder'
  <2>1. ASSUME ~Zero', NEW i \in DOMAIN rounds', NEW j \in DOMAIN rounds',
               rounds'[i].number = rounds'[j].number
        PROVE  i = j
    BY <1>4, <1>5, <1>6, <1>8, <1>9, <1>10, <2>1 DEF TableInOrder
  <2>2. ASSUME ~Zero', NEW i \in DOMAIN rounds', NEW j \in DOMAIN rounds',
               rounds'[i].status = "finished", rounds'[j].status # "finished"
        PROVE  rounds'[i].number < rounds'[j].number
    BY <1>4, <1>5, <1>6, <1>8, <1>9, <1>10, <2>2 DEF TableInOrder
  <2>3. ASSUME NEW i \in Running', NEW j \in DOMAIN rounds', rounds'[j].number < rounds'[i].number
        PROVE  Gone(j)'
    <3>1. i \in DOMAIN rounds /\ rounds[i].number < n /\ rounds[i].number \in Nat
      BY <1>1, <1>6, <1>9 DEF Running
    <3>2. j \in DOMAIN rounds
      BY <1>4, <1>5, <2>3, <3>1
    <3>3. QED
      BY <1>5, <1>6, <1>8, <2>3, <3>1, <3>2 DEF TableInOrder
  <2>4. \A i \in Running' : rounds'[i].over \/ i \in chain'
    BY <1>2, <1>5, <1>6, <1>8 DEF TableInOrder
  <2>5. \A i, j \in Running' : i = j
    BY <1>6, <1>8 DEF TableInOrder
  <2>6. QED
    BY <2>1, <2>2, <2>3, <2>4, <2>5 DEF TableInOrder
<1>12. PlanFirst'
  BY <1>4, <1>5, <1>7 DEF SingleFile, PlanFirst
<1>13. ASSUME NEW p \in Readers PROVE InStep(p)'
  <2>1. InStep(p) /\ reader'[p] = reader[p] /\ reader[p].at # "creating"
    BY <1>2 DEF SingleFile
  <2>2. reader[p].due \in DOMAIN rounds \cup {0}
    BY DEF Base, Stages
  <2>3. ASSUME reader[p].due # 0
        PROVE  /\ rounds'[reader[p].due].status = "pending"
               /\ rounds'[reader[p].due].start = "plan"
               /\ \A j \in DOMAIN rounds' :
                      rounds'[j].number < rounds'[reader[p].due].number =>
                          Gone(j)' \/ j = reader[p].run
    <3> DEFINE d == reader[p].due
    <3>1. d \in DOMAIN rounds /\ rounds[d].status = "pending" /\ rounds[d].start = "plan"
      BY <2>1, <2>2, <2>3 DEF InStep
    <3>2. \A j \in DOMAIN rounds : rounds[j].number < rounds[d].number => Gone(j) \/ j = reader[p].run
      BY <2>1, <2>3 DEF InStep
    <3> HIDE DEF d
    <3>3. rounds'[d] = rounds[d] /\ rounds[d].number < n /\ rounds[d].number \in Nat
      BY <1>1, <1>5, <1>9, <3>1
    <3>4. ASSUME NEW j \in DOMAIN rounds', rounds'[j].number < rounds'[d].number
          PROVE  Gone(j)' \/ j = reader[p].run
      <4>1. j \in DOMAIN rounds
        BY <1>4, <1>5, <3>3, <3>4
      <4>2. QED
        BY <1>5, <1>6, <3>2, <3>3, <3>4, <4>1
    <3>5. QED
      BY <3>1, <3>3, <3>4 DEF d
  <2>4. reader[p].at \in Ending => reader[p].run \in Running' /\ rounds'[reader[p].run].over
    BY <1>5, <1>6, <2>1 DEF InStep
  <2>5. QED
    BY <1>2, <1>6, <1>7, <2>1, <2>3, <2>4 DEF InStep
<1>14. AloneInside' /\ NoStrayChain'
  BY <1>2, <1>6 DEF SingleFile, AloneInside, NoStrayChain
<1>15. QED
  BY <1>11, <1>12, <1>13, <1>14 DEF SingleFile

LEMMA FileLoad ==
    ASSUME BattleAssumption, Base, Base', SingleFile, NEW p \in Readers, Load(p), ~raced'
    PROVE  SingleFile'
<1>1. /\ reader[p].at = "idle" /\ rounds' = rounds /\ begun' = begun
      /\ UNCHANGED <<chain, admins, roundFaults>>
      /\ \A q \in Readers \ {p} : reader[q].at = "idle"
  BY DEF Load
<1>2. \A q \in Readers : reader[q].at = "idle" /\ reader[q].run = 0 /\ reader[q].due = 0
  BY <1>1 DEF Base, Stages
<1>3. /\ TableInOrder' /\ PlanFirst' /\ Running' = Running /\ (PlanDone' <=> PlanDone)
  BY <1>1, TableSame DEF SingleFile, TableInOrder
<1>4. roundFaults = 0 => chain \subseteq Running
  <2>1. 0 \notin chain
    BY BaseFacts DEF Base, Tables
  <2>2. QED
    BY <1>2, <2>1 DEF SingleFile, NoStrayChain
<1>5. CASE /\ Len(rounds) < Planned /\ Missing(rounds) # {}
           /\ reader' = [reader EXCEPT ![p].at = "creating"]
           /\ seen' = [seen EXCEPT ![p] = rounds]
  <2>1. PICK at \in {"idle", "creating"} \cup Ending \cup Working : at = "creating"
    OBVIOUS
  <2>2. Moves(reader, p, at, reader') /\ reader \in [Readers -> Stage]
    BY <1>5, <2>1, BaseFacts DEF Moves
  <2>3. /\ \A q \in Readers \ {p} : reader'[q] = reader[q]
        /\ reader'[p].at = "creating" /\ reader'[p].run = 0 /\ reader'[p].due = 0
    BY <1>2, <2>1, <2>2, Moved
  <2>4. seen'[p] = rounds
    BY <1>5 DEF Base, Copies
  <2>5. \A i \in DOMAIN rounds : rounds[i].status = "pending"
    <3>1. ~PlanDone
      BY <1>5, BaseFacts DEF PlanDone
    <3>2. QED
      BY <3>1 DEF SingleFile, PlanFirst
  <2>6. InStep(p)'
    BY <1>1, <2>3, <2>4, <2>5 DEF InStep, Ending, Working
  <2>7. NoStrayChain'
    BY <1>1, <1>2, <1>3, <1>4, <2>3, NoStrayKept DEF Ending
  <2>8. QED
    BY <1>2, <1>3, <2>3, <2>6, <2>7, SingleFileKept
<1>6. CASE /\ ~(Len(rounds) < Planned /\ Missing(rounds) # {})
           /\ Decide(p, rounds)
  <2>1. PlanDone'
    BY <1>3, <1>6, BaseFacts DEF PlanDone
  <2>2. PICK s : s = rounds
    OBVIOUS
  <2>3. Decide(p, s) /\ s = rounds'
    BY <1>1, <1>6, <2>2
  <2>4. roundFaults' = 0 => chain' \subseteq Running'
    BY <1>1, <1>3, <1>4
  <2>5. QED
    BY <1>1, <1>2, <1>3, <2>1, <2>3, <2>4, DecisionInStep
<1>7. QED
  BY <1>5, <1>6 DEF Load

LEMMA FileCreateNext ==
    ASSUME BattleAssumption, Base, Base', SingleFile, NEW p \in Readers, CreateNext(p), ~raced'
    PROVE  SingleFile'
<1>1. PICK n \in 1 .. Planned, s \in [DOMAIN seen[p] \cup {Len(rounds) + 1} -> Round] :
        /\ n \in Missing(seen[p])
        /\ NewRow(n, "plan") \in Round
        /\ rounds' = Append(rounds, NewRow(n, "plan"))
        /\ s = [i \in DOMAIN s |-> s[i]] /\ DOMAIN s = DOMAIN seen[p] \cup {Len(rounds) + 1}
        /\ \A i \in DOMAIN seen[p] : s[i] = seen[p][i]
        /\ s[Len(rounds) + 1] = NewRow(n, "plan")
        /\ \/ Missing(s) # {} /\ seen' = [seen EXCEPT ![p] = s] /\ UNCHANGED reader
           \/ Missing(s) = {} /\ seen' = [seen EXCEPT ![p] = Nothing] /\ Decide(p, s)
  BY NextRow
<1>2. /\ reader[p].at = "creating"
      /\ UNCHANGED <<isBattle, begun, chain, admins, roundFaults, raced>>
  BY DEF CreateNext
<1> DEFINE new == Len(rounds) + 1
           row == NewRow(n, "plan")
<1>3. row.number = n /\ row.status = "pending" /\ row.start = "plan"
  BY DEF NewRow
<1> HIDE DEF row
<1>4. /\ rounds' \in Seq(Round) /\ rounds \in Seq(Round)
      /\ DOMAIN rounds' = DOMAIN rounds \cup {new}
      /\ new \notin DOMAIN rounds
      /\ \A i \in DOMAIN rounds : rounds'[i] = rounds[i]
      /\ rounds'[new] = row
  BY <1>1, BaseFacts, Added DEF row
<1>5. seen[p] = rounds /\ \A i \in DOMAIN rounds : rounds[i].status = "pending"
  BY <1>2 DEF SingleFile, InStep
<1>6. \A q \in Readers \ {p} : reader[q].at = "idle" /\ reader[q].run = 0 /\ reader[q].due = 0
  BY <1>2, OthersIdle
<1>7. reader[p].run = 0 /\ reader[p].due = 0
  BY <1>2 DEF Base, Stages
<1>8. s = rounds'
  <2>1. DOMAIN s = DOMAIN rounds' /\ \A i \in DOMAIN rounds' : s[i] = rounds'[i]
    BY <1>1, <1>4, <1>5 DEF row
  <2>2. rounds' = [i \in DOMAIN rounds' |-> rounds'[i]]
    BY <1>4
  <2>3. QED
    BY <1>1, <2>1, <2>2
<1> HIDE DEF new
<1>9. Running = {} /\ Running' = {} /\ \A i \in DOMAIN rounds' : rounds'[i].status = "pending"
  BY <1>3, <1>4, <1>5 DEF Running
<1>10. n \notin {rounds[i].number : i \in DOMAIN rounds}
  BY <1>1, <1>5 DEF Missing
<1>11. TableInOrder'
  <2>1. Zero => Zero'
    BY <1>4 DEF Zero
  <2>2. ASSUME ~Zero', NEW i \in DOMAIN rounds', NEW j \in DOMAIN rounds',
               rounds'[i].number = rounds'[j].number
        PROVE  i = j
    BY <1>3, <1>4, <1>10, <2>1, <2>2 DEF SingleFile, TableInOrder
  <2>3. QED
    BY <1>9, <2>2 DEF TableInOrder
<1>12. PlanFirst'
  BY <1>9 DEF PlanFirst
<1>13. roundFaults = 0 => chain = {}
  <2>1. roundFaults = 0 => \A i \in chain : i \in Running \/ i = reader[p].due
    BY <1>2, ChainOwners
  <2>2. 0 \notin chain
    BY BaseFacts DEF Base, Tables
  <2>3. QED
    BY <1>7, <1>9, <2>1, <2>2
<1>14. CASE Missing(s) # {} /\ seen' = [seen EXCEPT ![p] = s] /\ UNCHANGED reader
  <2>1. seen'[p] = s
    BY <1>14 DEF Base, Copies
  <2>2. InStep(p)'
    BY <1>2, <1>7, <1>8, <1>9, <1>14, <2>1 DEF InStep, Ending, Working
  <2>3. NoStrayChain'
    BY <1>2, <1>6, <1>13, <1>14, NoStrayKept DEF Ending
  <2>4. QED
    BY <1>6, <1>11, <1>12, <1>14, <2>2, <2>3, SingleFileKept
<1>15. CASE Missing(s) = {} /\ Decide(p, s)
  <2>1. PlanDone'
    BY <1>8, <1>15 DEF PlanDone
  <2>2. QED
    BY <1>2, <1>6, <1>8, <1>11, <1>12, <1>13, <1>15, <2>1, DecisionInStep
<1>16. QED
  BY <1>1, <1>14, <1>15

LEMMA FileStopChain ==
    ASSUME BattleAssumption, Base, SingleFile, NEW p \in Readers, StopChain(p)
    PROVE  SingleFile'
<1>1. /\ reader[p].at = "stopping" /\ rounds' = rounds /\ seen' = seen
      /\ \/ chain' = chain \ {reader[p].run} /\ roundFaults' = roundFaults
         \/ roundFaults' = roundFaults + 1 /\ chain' = chain
      /\ reader' = [reader EXCEPT ![p].at = "finishing"]
  BY DEF StopChain
<1>2. \A q \in Readers \ {p} : reader[q].at = "idle" /\ reader[q].run = 0 /\ reader[q].due = 0
  BY <1>1, OthersIdle
<1>3. PICK at \in {"idle", "creating"} \cup Ending \cup Working : at = "finishing"
  BY DEF Ending
<1>4. /\ \A q \in Readers \ {p} : reader'[q] = reader[q]
      /\ reader'[p].at = "finishing"
      /\ reader'[p].run = reader[p].run /\ reader'[p].due = reader[p].due
  <2>1. Moves(reader, p, at, reader') /\ reader \in [Readers -> Stage]
    BY <1>1, <1>3, BaseFacts DEF Moves
  <2>2. QED
    BY <1>3, <2>1, Moved
<1>5. InStep(p) /\ TableInOrder /\ PlanFirst /\ NoStrayChain
  BY DEF SingleFile
<1>6. reader[p].run \in Running /\ rounds[reader[p].run].over
  BY <1>1, <1>5 DEF InStep, Ending
<1>7. TableInOrder' /\ PlanFirst' /\ Running' = Running /\ (PlanDone' <=> PlanDone)
  <2>1. \A i \in Running : rounds[i].over \/ i \in chain'
    BY <1>1, <1>5, <1>6 DEF TableInOrder
  <2>2. QED
    BY <1>1, <1>5, <2>1, TableSame
<1>8. \A j : Gone(j)' <=> Gone(j)
  BY <1>1 DEF Gone
<1>9. InStep(p)'
  BY <1>1, <1>4, <1>5, <1>7, <1>8 DEF InStep, Ending, Working
<1>10. NoStrayChain'
  <2>1. roundFaults \in Nat
    BY BaseFacts DEF Base, Tables
  <2>2. ASSUME roundFaults' = 0
        PROVE  /\ chain' = chain \ {reader[p].run} /\ roundFaults = 0
               /\ \A i \in chain : i \in Running \/ i = reader[p].due
               /\ reader[p].due \notin chain
    <3>1. chain' = chain \ {reader[p].run} /\ roundFaults = 0
      BY <1>1, <2>1, <2>2
    <3>2. QED
      BY <1>1, <1>5, <3>1, ChainOwners DEF NoStrayChain, Ending
  <2>3. QED
    BY <1>2, <1>4, <1>7, <2>2, NoStrayKept
<1>11. QED
  BY <1>2, <1>4, <1>7, <1>9, <1>10, SingleFileKept

LEMMA FileSaveFinished ==
    ASSUME BattleAssumption, Base, SingleFile, NEW p \in Readers, SaveFinished(p)
    PROVE  SingleFile'
<1> DEFINE i == reader[p].run
           d == reader[p].due
<1>1. /\ reader[p].at = "finishing" /\ Save(i, "finished", "past", TRUE)
      /\ reader' = [reader EXCEPT ![p] =
             IF d = 0 THEN IdleReader ELSE [at |-> "starting", run |-> 0, due |-> d]]
      /\ UNCHANGED <<isBattle, begun, chain, seen, admins, roundFaults, raced>>
  BY DEF SaveFinished
<1>2. \A q \in Readers \ {p} : reader[q].at = "idle" /\ reader[q].run = 0 /\ reader[q].due = 0
  BY <1>1, OthersIdle
<1>3. InStep(p) /\ TableInOrder /\ PlanFirst /\ NoStrayChain
  BY DEF SingleFile
<1>4. i \in Running /\ PlanDone
  BY <1>1, <1>3 DEF InStep, Ending
<1>5. /\ d # 0 => /\ d \in DOMAIN rounds
                  /\ rounds[d].status = "pending" /\ rounds[d].start = "plan"
                  /\ \A j \in DOMAIN rounds : rounds[j].number < rounds[d].number => Gone(j) \/ j = i
      /\ d \in Nat
  <2>1. d \in DOMAIN rounds \cup {0}
    BY DEF Base, Stages
  <2>2. QED
    BY <1>3, <2>1, BaseFacts DEF InStep
<1> HIDE DEF i, d
<1>6. /\ \A q \in Readers \ {p} : reader'[q] = reader[q]
      /\ IF d = 0 THEN reader'[p].at = "idle" /\ reader'[p].run = 0 /\ reader'[p].due = 0
         ELSE reader'[p].at = "starting" /\ reader'[p].run = 0 /\ reader'[p].due = d
  <2>1. reader \in [Readers -> Stage]
    BY BaseFacts
  <2>2. CASE d = 0
    <3>1. reader' = [reader EXCEPT ![p] = IdleReader]
      BY <1>1, <2>2
    <3>2. QED
      BY <2>1, <2>2, <3>1, IdleStage, Placed
  <2>3. CASE d # 0
    <3> DEFINE r == [at |-> "starting", run |-> 0, due |-> d]
    <3>1. reader' = [reader EXCEPT ![p] = r]
      BY <1>1, <2>3
    <3>2. r \in Stage /\ r.at = "starting" /\ r.run = 0 /\ r.due = d
      BY <1>5 DEF Stage, Working
    <3> HIDE DEF r
    <3>3. QED
      BY <2>1, <2>3, <3>1, <3>2, Placed
  <2>4. QED
    BY <2>2, <2>3
<1>7. i \in DOMAIN rounds /\ rounds[i].status = "running" /\ rounds[i].start # "zero"
  BY <1>4 DEF Running, Base, PastStarts
<1>8. /\ rounds' \in Seq(Round) /\ rounds \in Seq(Round) /\ DOMAIN rounds' = DOMAIN rounds
      /\ \A j \in DOMAIN rounds \ {i} : rounds'[j] = rounds[j]
      /\ rounds'[i].number = rounds[i].number /\ rounds'[i].status = "finished"
      /\ rounds'[i].start = "past"
  <2>1. PICK st \in {"pending", "running", "finished"}, t \in {"zero", "plan", "past"},
             o \in BOOLEAN : st = "finished" /\ t = "past" /\ o = TRUE
    OBVIOUS
  <2>2. Writes(rounds, i, st, t, o, rounds') /\ rounds \in Seq(Round)
    BY <1>1, <2>1, BaseFacts DEF Writes, Save
  <2>3. /\ rounds' \in Seq(Round) /\ DOMAIN rounds' = DOMAIN rounds
        /\ \A j \in DOMAIN rounds \ {i} : rounds'[j] = rounds[j]
        /\ rounds'[i].number = rounds[i].number /\ rounds'[i].status = st
        /\ rounds'[i].start = t
    BY <1>7, <2>2, Saved
  <2>4. QED
    BY <2>1, <2>2, <2>3
<1>9. \A j \in DOMAIN rounds : rounds'[j].number = rounds[j].number
  BY <1>8
<1>10. PlanDone'
  BY <1>4, <1>8, <1>9, PlanDoneKept, BaseFacts
<1>11. Running' = {}
  BY <1>3, <1>4, <1>7, <1>8 DEF Running, TableInOrder
<1>12. (Zero' <=> Zero) /\ \A j \in DOMAIN rounds : Gone(j) \/ j = i => Gone(j)'
  BY <1>7, <1>8 DEF Zero, Gone
<1>13. TableInOrder'
  <2>1. ASSUME ~Zero', NEW a \in DOMAIN rounds', NEW b \in DOMAIN rounds',
               rounds'[a].status = "finished", rounds'[b].status # "finished"
        PROVE  rounds'[a].number < rounds'[b].number
    <3>1. CASE a # i
      BY <1>3, <1>8, <1>12, <2>1, <3>1 DEF TableInOrder
    <3>2. CASE a = i
      <4>1. b # i /\ rounds[b].status # "finished" /\ rounds[b].start # "zero"
        BY <1>8, <1>12, <2>1 DEF Zero
      <4>2. rounds[b].number # rounds[i].number
        BY <1>3, <1>7, <1>8, <1>12, <2>1, <4>1 DEF TableInOrder
      <4>3. ~(rounds[b].number < rounds[i].number)
        BY <1>3, <1>4, <1>8, <4>1 DEF TableInOrder, Gone
      <4>4. rounds[b].number \in Nat /\ rounds[i].number \in Nat
        BY <1>7, <1>8, BaseFacts, RowFacts
      <4>5. QED
        BY <1>8, <1>9, <3>2, <4>2, <4>3, <4>4
    <3>3. QED
      BY <3>1, <3>2
  <2>2. Zero' \/ \A a, b \in DOMAIN rounds' : rounds'[a].number = rounds'[b].number => a = b
    BY <1>3, <1>8, <1>9, <1>12 DEF TableInOrder
  <2>3. QED
    BY <1>11, <2>1, <2>2 DEF TableInOrder
<1>14. PlanFirst'
  BY <1>10 DEF PlanFirst
<1>15. InStep(p)'
  <2>1. CASE d = 0
    BY <1>6, <2>1 DEF InStep, Ending, Working
  <2>2. CASE d # 0
    <3>1. d # i
      BY <1>5, <1>7, <2>2
    <3>2. /\ rounds'[d].status = "pending" /\ rounds'[d].start = "plan"
          /\ \A j \in DOMAIN rounds' : rounds'[j].number < rounds'[d].number => Gone(j)'
      BY <1>5, <1>8, <1>9, <1>12, <2>2, <3>1
    <3>3. QED
      BY <1>6, <1>10, <1>11, <2>2, <3>2 DEF InStep, Ending, Working
  <2>3. QED
    BY <2>1, <2>2
<1>16. NoStrayChain'
  <2>1. ASSUME roundFaults' = 0 PROVE chain = {}
    <3>1. \A c \in chain : c \in Running \/ c = d
      BY <1>1, <2>1, ChainOwners DEF d
    <3>2. i \notin chain /\ d \notin chain
      BY <1>1, <1>3, <2>1 DEF NoStrayChain, Ending, i, d
    <3>3. \A c \in Running : c = i
      BY <1>3, <1>4 DEF TableInOrder
    <3>4. QED
      BY <3>1, <3>2, <3>3
  <2>2. QED
    BY <1>1, <1>2, <1>6, <2>1, NoStrayKept DEF Ending
<1>17. QED
  BY <1>2, <1>6, <1>13, <1>14, <1>15, <1>16, SingleFileKept

\* What CreateChain, ChainReady and ChainFails have in common: no round runs,
\* and the table stays as it is.
LEMMA FileWorks ==
    ASSUME BattleAssumption, Base, SingleFile, NEW p \in Readers,
           reader[p].at \in {"starting", "booting"},
           NEW at \in {"booting", "saving", "aborting"}, Moves(reader, p, at, reader'),
           at \in {"booting", "saving"} => reader[p].due \in chain',
           rounds' = rounds, seen' = seen, roundFaults' = roundFaults,
           chain' \subseteq chain \cup {reader[p].due},
           at = "aborting" /\ roundFaults = 0 => reader[p].due \notin chain'
    PROVE  SingleFile'
<1>1. reader[p].at # "idle" /\ reader[p].at \in Working
  BY DEF Working
<1>2. \A q \in Readers \ {p} : reader[q].at = "idle" /\ reader[q].run = 0 /\ reader[q].due = 0
  BY <1>1, OthersIdle
<1>3. /\ \A q \in Readers \ {p} : reader'[q] = reader[q]
      /\ reader'[p].at = at
      /\ reader'[p].run = reader[p].run /\ reader'[p].due = reader[p].due
  <2>1. at \in {"idle", "creating"} \cup Ending \cup Working /\ reader \in [Readers -> Stage]
    BY BaseFacts DEF Working
  <2>2. QED
    BY <2>1, Moved
<1>4. InStep(p) /\ TableInOrder /\ PlanFirst
  BY DEF SingleFile
<1>5. Running = {}
  BY <1>1, <1>4 DEF InStep
<1>6. TableInOrder' /\ PlanFirst' /\ Running' = Running /\ (PlanDone' <=> PlanDone)
  BY <1>4, <1>5, TableSame
<1>7. \A j : Gone(j)' <=> Gone(j)
  BY DEF Gone
<1>8. InStep(p)'
  BY <1>1, <1>3, <1>4, <1>5, <1>6, <1>7 DEF InStep, Ending, Working
<1>9. NoStrayChain'
  BY <1>1, <1>2, <1>3, <1>5, ChainOwners, NoStrayKept DEF Ending
<1>10. QED
  BY <1>2, <1>3, <1>6, <1>8, <1>9, SingleFileKept

LEMMA FileCreateChain ==
    ASSUME BattleAssumption, Base, SingleFile, NEW p \in Readers, CreateChain(p)
    PROVE  SingleFile'
<1>1. /\ reader[p].at = "starting" /\ chain' = chain \cup {reader[p].due}
      /\ reader' = [reader EXCEPT ![p].at = IF reader[p].due \in chain THEN "aborting" ELSE "booting"]
      /\ UNCHANGED <<rounds, seen, roundFaults>>
  BY DEF CreateChain
<1>2. roundFaults = 0 => reader[p].due \notin chain
  BY <1>1 DEF SingleFile, NoStrayChain
<1>3. PICK at \in {"booting", "saving", "aborting"} :
        at = IF reader[p].due \in chain THEN "aborting" ELSE "booting"
  OBVIOUS
<1>4. Moves(reader, p, at, reader')
  BY <1>1, <1>3 DEF Moves
<1>5. at = "aborting" => reader[p].due \in chain
  BY <1>3
<1>6. QED
  BY <1>1, <1>2, <1>4, <1>5, FileWorks

LEMMA FileChainReady ==
    ASSUME BattleAssumption, Base, SingleFile, NEW p \in Readers, ChainReady(p)
    PROVE  SingleFile'
<1>1. /\ reader[p].at = "booting" /\ reader' = [reader EXCEPT ![p].at = "saving"]
      /\ UNCHANGED <<rounds, chain, seen, roundFaults>>
  BY DEF ChainReady
<1>2. reader[p].due \in chain
  BY <1>1 DEF SingleFile, InStep
<1>3. PICK at \in {"booting", "saving", "aborting"} : at = "saving"
  OBVIOUS
<1>4. Moves(reader, p, at, reader')
  BY <1>1, <1>3 DEF Moves
<1>5. QED
  BY <1>1, <1>2, <1>3, <1>4, FileWorks

LEMMA FileChainFails ==
    ASSUME BattleAssumption, Base, SingleFile, NEW p \in Readers, ChainFails(p)
    PROVE  SingleFile'
<1>1. /\ reader[p].at = "booting" /\ reader' = [reader EXCEPT ![p].at = "aborting"]
      /\ chain' = chain \ {reader[p].due}
      /\ UNCHANGED <<rounds, seen, roundFaults>>
  BY DEF ChainFails
<1>2. PICK at \in {"booting", "saving", "aborting"} : at = "aborting"
  OBVIOUS
<1>3. Moves(reader, p, at, reader')
  BY <1>1, <1>2 DEF Moves
<1>4. QED
  BY <1>1, <1>2, <1>3, FileWorks

\* What SaveStarted and SaveAborted have in common.
LEMMA DueSaved ==
    ASSUME BattleAssumption, Base, SingleFile, NEW p \in Readers, NEW d, d = reader[p].due,
           reader[p].at \in Working,
           NEW status \in {"pending", "running"}, NEW start \in {"zero", "past"}, NEW over \in BOOLEAN,
           Save(d, status, start, over), reader' = [reader EXCEPT ![p] = IdleReader]
    PROVE  /\ \A q \in Readers \ {p} : /\ reader[q].at = "idle" /\ reader'[q].at = "idle"
                                       /\ reader'[q].run = 0 /\ reader'[q].due = 0
           /\ reader'[p].at = "idle" /\ reader'[p].run = 0 /\ reader'[p].due = 0
           /\ d \in DOMAIN rounds
           /\ rounds[d].status = "pending" /\ rounds[d].start = "plan"
           /\ \A j \in DOMAIN rounds : rounds[j].number < rounds[d].number => Gone(j)
           /\ DOMAIN rounds' = DOMAIN rounds
           /\ \A j \in DOMAIN rounds \ {d} : rounds'[j] = rounds[j]
           /\ \A j \in DOMAIN rounds : rounds'[j].number = rounds[j].number
           /\ rounds'[d].status = status /\ rounds'[d].start = start
           /\ PlanDone' /\ Running = {}
<1>1. reader[p].at # "idle"
  BY DEF Working
<1>2. \A q \in Readers \ {p} : reader[q].at = "idle" /\ reader[q].run = 0 /\ reader[q].due = 0
  BY <1>1, OthersIdle
<1>3. /\ \A q \in Readers \ {p} : reader'[q] = reader[q]
      /\ reader'[p].at = "idle" /\ reader'[p].run = 0 /\ reader'[p].due = 0
  BY BaseFacts, IdleStage, Placed
<1>4. d \in DOMAIN rounds /\ d # 0 /\ reader[p].run = 0
  BY DEF Base, Stages
<1>5. /\ rounds[d].status = "pending" /\ rounds[d].start = "plan"
      /\ \A j \in DOMAIN rounds : rounds[j].number < rounds[d].number => Gone(j)
      /\ PlanDone /\ Running = {}
  <2>1. InStep(p) /\ 0 \notin DOMAIN rounds
    BY BaseFacts DEF SingleFile
  <2>2. QED
    BY <1>4, <2>1 DEF InStep
<1>6. /\ rounds' \in Seq(Round) /\ rounds \in Seq(Round) /\ DOMAIN rounds' = DOMAIN rounds
      /\ \A j \in DOMAIN rounds \ {d} : rounds'[j] = rounds[j]
      /\ rounds'[d].number = rounds[d].number /\ rounds'[d].status = status
      /\ rounds'[d].start = start
  <2>1. Writes(rounds, d, status, start, over, rounds') /\ rounds \in Seq(Round)
    BY BaseFacts DEF Writes, Save
  <2>2. /\ status \in {"pending", "running", "finished"} /\ start \in {"zero", "plan", "past"}
    OBVIOUS
  <2>3. QED
    BY <1>4, <2>1, <2>2, Saved
<1>7. \A j \in DOMAIN rounds : rounds'[j].number = rounds[j].number
  BY <1>6
<1>8. PlanDone'
  BY <1>5, <1>6, <1>7, PlanDoneKept, BaseFacts
<1>9. QED
  BY <1>2, <1>3, <1>4, <1>5, <1>6, <1>7, <1>8

LEMMA FileSaveStarted ==
    ASSUME BattleAssumption, Base, SingleFile, NEW p \in Readers, SaveStarted(p)
    PROVE  SingleFile'
<1>1. PICK d : d = reader[p].due
  OBVIOUS
<1>2. /\ reader[p].at = "saving" /\ reader[p].at \in Working
      /\ Save(d, "running", "past", FALSE)
      /\ reader' = [reader EXCEPT ![p] = IdleReader]
      /\ UNCHANGED <<isBattle, begun, chain, seen, admins, roundFaults, raced>>
  BY <1>1 DEF SaveStarted, Working
<1>3. /\ \A q \in Readers \ {p} : /\ reader[q].at = "idle" /\ reader'[q].at = "idle"
                                  /\ reader'[q].run = 0 /\ reader'[q].due = 0
      /\ reader'[p].at = "idle" /\ reader'[p].run = 0 /\ reader'[p].due = 0
      /\ d \in DOMAIN rounds
      /\ rounds[d].status = "pending" /\ rounds[d].start = "plan"
      /\ \A j \in DOMAIN rounds : rounds[j].number < rounds[d].number => Gone(j)
      /\ DOMAIN rounds' = DOMAIN rounds
      /\ \A j \in DOMAIN rounds \ {d} : rounds'[j] = rounds[j]
      /\ \A j \in DOMAIN rounds : rounds'[j].number = rounds[j].number
      /\ rounds'[d].status = "running" /\ rounds'[d].start = "past"
      /\ PlanDone' /\ Running = {}
  <2>1. PICK st \in {"pending", "running"}, t \in {"zero", "past"}, o \in BOOLEAN :
          st = "running" /\ t = "past" /\ o = FALSE
    OBVIOUS
  <2>2. Save(d, st, t, o)
    BY <1>2, <2>1
  <2>3. QED
    BY <1>1, <1>2, <2>1, <2>2, DueSaved
<1>4. Running' = {d}
  BY <1>3 DEF Running
<1>5. (Zero' <=> Zero) /\ \A j \in DOMAIN rounds \ {d} : Gone(j) => Gone(j)'
  BY <1>3 DEF Zero, Gone
<1>6. d \in chain
  BY <1>1, <1>2 DEF SingleFile, InStep
<1>7. TableInOrder'
  <2>1. TableInOrder /\ rounds[d].number \in Nat
    BY <1>3, BaseFacts, RowFacts DEF SingleFile
  <2>2. \A j \in DOMAIN rounds' : rounds'[j].number < rounds'[d].number => Gone(j)'
    BY <1>3, <1>5, <2>1
  <2>3. Zero' \/ \A i, j \in DOMAIN rounds' : rounds'[i].number = rounds'[j].number => i = j
    BY <1>3, <1>5, <2>1 DEF TableInOrder
  <2>4. Zero' \/ \A i, j \in DOMAIN rounds' :
            rounds'[i].status = "finished" /\ rounds'[j].status # "finished" =>
                rounds'[i].number < rounds'[j].number
    BY <1>3, <1>5, <2>1 DEF TableInOrder
  <2>5. QED
    BY <1>2, <1>4, <1>6, <2>2, <2>3, <2>4 DEF TableInOrder
<1>8. PlanFirst'
  BY <1>3 DEF PlanFirst
<1>9. InStep(p)'
  BY <1>3 DEF InStep, Ending, Working
<1>10. NoStrayChain'
  <2>1. roundFaults = 0 => \A i \in chain : i \in Running \/ i = d
    BY <1>1, <1>2, ChainOwners
  <2>2. QED
    BY <1>2, <1>3, <1>4, <2>1, NoStrayKept DEF Ending
<1>11. QED
  BY <1>3, <1>7, <1>8, <1>9, <1>10, SingleFileKept

LEMMA FileSaveAborted ==
    ASSUME BattleAssumption, Base, SingleFile, NEW p \in Readers, SaveAborted(p)
    PROVE  SingleFile'
<1>1. PICK d : d = reader[p].due
  OBVIOUS
<1>2. /\ reader[p].at = "aborting" /\ reader[p].at \in Working
      /\ Save(d, "pending", "zero", FALSE)
      /\ reader' = [reader EXCEPT ![p] = IdleReader]
      /\ UNCHANGED <<isBattle, begun, chain, seen, admins, roundFaults, raced>>
  BY <1>1 DEF SaveAborted, Working
<1>3. /\ \A q \in Readers \ {p} : /\ reader[q].at = "idle" /\ reader'[q].at = "idle"
                                  /\ reader'[q].run = 0 /\ reader'[q].due = 0
      /\ reader'[p].at = "idle" /\ reader'[p].run = 0 /\ reader'[p].due = 0
      /\ d \in DOMAIN rounds /\ DOMAIN rounds' = DOMAIN rounds
      /\ \A j \in DOMAIN rounds \ {d} : rounds'[j] = rounds[j]
      /\ rounds'[d].status = "pending" /\ rounds'[d].start = "zero"
      /\ PlanDone' /\ Running = {}
  <2>1. PICK st \in {"pending", "running"}, t \in {"zero", "past"}, o \in BOOLEAN :
          st = "pending" /\ t = "zero" /\ o = FALSE
    OBVIOUS
  <2>2. Save(d, st, t, o)
    BY <1>2, <2>1
  <2>3. QED
    BY <1>1, <1>2, <2>1, <2>2, DueSaved
<1>4. Running' = {} /\ Zero'
  BY <1>3 DEF Running, Zero
<1>5. TableInOrder'
  BY <1>4 DEF TableInOrder
<1>6. PlanFirst'
  BY <1>3 DEF PlanFirst
<1>7. InStep(p)'
  BY <1>3 DEF InStep, Ending, Working
<1>8. NoStrayChain'
  <2>1. roundFaults = 0 => (\A i \in chain : i \in Running \/ i = d) /\ d \notin chain
    BY <1>1, <1>2, ChainOwners DEF SingleFile, NoStrayChain
  <2>2. QED
    BY <1>2, <1>3, <2>1, NoStrayKept DEF Ending
<1>9. QED
  BY <1>3, <1>5, <1>6, <1>7, <1>8, SingleFileKept

LEMMA FileAbandon ==
    ASSUME BattleAssumption, Base, SingleFile, NEW p \in Readers, Abandon(p)
    PROVE  SingleFile'
<1>1. /\ reader[p].at # "idle" /\ roundFaults' = roundFaults + 1
      /\ reader' = [reader EXCEPT ![p] = IdleReader]
      /\ rounds' = rounds /\ chain' = chain
  BY DEF Abandon
<1>2. \A q \in Readers \ {p} : reader[q].at = "idle" /\ reader[q].run = 0 /\ reader[q].due = 0
  BY <1>1, OthersIdle
<1>3. /\ \A q \in Readers \ {p} : reader'[q] = reader[q]
      /\ reader'[p].at = "idle" /\ reader'[p].run = 0 /\ reader'[p].due = 0
  BY <1>1, BaseFacts, IdleStage, Placed
<1>4. TableInOrder' /\ PlanFirst'
  BY <1>1, TableSame DEF SingleFile, TableInOrder
<1>5. InStep(p)'
  BY <1>3 DEF InStep, Ending, Working
<1>6. NoStrayChain'
  <2>1. roundFaults' # 0
    BY <1>1, BaseFacts DEF Base, Tables
  <2>2. QED
    BY <2>1 DEF NoStrayChain
<1>7. QED
  BY <1>2, <1>3, <1>4, <1>5, <1>6, SingleFileKept

LEMMA FileInit ==
    ASSUME BattleInit
    PROVE  SingleFile
<1>1. /\ DOMAIN rounds = {} /\ chain = {} /\ \A p \in Readers : reader[p] = IdleReader
  BY DEF BattleInit
<1>2. \A p \in Readers : InStep(p)
  BY <1>1, IdleStage DEF InStep, Ending, Working
<1>3. AloneInside /\ NoStrayChain
  BY <1>1, IdleStage DEF AloneInside, NoStrayChain, Ending
<1>4. TableInOrder /\ PlanFirst
  BY <1>1 DEF TableInOrder, PlanFirst, Running
<1>5. QED
  BY <1>2, <1>3, <1>4 DEF SingleFile

LEMMA BattleStep ==
    ASSUME BattleAssumption, BattleInv, [BattleNext]_battleVars
    PROVE  BattleInv'
<1>1. Base /\ Base'
  BY BaseStep DEF BattleInv
<1>2. SUFFICES ASSUME ~raced' PROVE SingleFile'
  BY <1>1 DEF BattleInv
<1>3. ~raced
  BY <1>2 DEF BattleNext, battleVars, RoundDue, RoundEnds, CreateRound, ReaderStep, Load,
              CreateNext, StopChain, SaveFinished, CreateChain, ChainReady, ChainFails,
              SaveStarted, SaveAborted, Abandon
<1>4. SingleFile
  BY <1>3 DEF BattleInv
<1>5. CASE RoundDue
  BY <1>1, <1>4, <1>5, FileRoundDue
<1>6. CASE \E i \in DOMAIN rounds : RoundEnds(i)
  BY <1>1, <1>4, <1>6, FileRoundEnds
<1>7. CASE CreateRound
  BY <1>1, <1>2, <1>4, <1>7, FileCreateRound
<1>8. ASSUME NEW p \in Readers, ReaderStep(p) PROVE SingleFile'
  BY <1>1, <1>2, <1>4, <1>8, FileLoad, FileCreateNext, FileStopChain, FileSaveFinished,
     FileCreateChain, FileChainReady, FileChainFails, FileSaveStarted, FileSaveAborted
     DEF ReaderStep
<1>9. CASE \E p \in Readers : Abandon(p)
  BY <1>1, <1>4, <1>9, FileAbandon
<1>10. CASE UNCHANGED battleVars
  <2>1. TableInOrder' /\ PlanFirst' /\ Running' = Running /\ (PlanDone' <=> PlanDone)
    BY <1>4, <1>10, TableSame DEF battleVars, SingleFile, TableInOrder
  <2>2. \A j : Gone(j)' <=> Gone(j)
    BY <1>10 DEF battleVars, Gone
  <2>3. \A p \in Readers : InStep(p)'
    BY <1>4, <1>10, <2>1, <2>2 DEF battleVars, SingleFile, InStep
  <2>4. QED
    BY <1>4, <1>10, <2>1, <2>3 DEF battleVars, SingleFile, AloneInside, NoStrayChain
<1>11. QED
  BY <1>5, <1>6, <1>7, <1>8, <1>9, <1>10 DEF BattleNext

\* The invariant implies what the run checks.
LEMMA FileIsSingle ==
    ASSUME BattleAssumption, BattleInv
    PROVE  SingleFileBattle
<1>1. SUFFICES ASSUME ~raced PROVE
        /\ \A i, j \in DOMAIN rounds : rounds[i].number = rounds[j].number =>
               i = j \/ \E k \in DOMAIN rounds : rounds[k].start = "zero"
        /\ Cardinality(Running) <= 1
        /\ \A i \in Running :
            /\ rounds[i].over \/ i \in chain
            /\ \A j \in DOMAIN rounds : rounds[j].number < rounds[i].number =>
                   rounds[j].status = "finished" \/ rounds[j].start = "zero"
        /\ roundFaults = 0 =>
               \A i \in chain : i \in Running \/ \E p \in Readers : reader[p].due = i
  BY DEF SingleFileBattle
<1>2. TableInOrder /\ NoStrayChain
  BY <1>1 DEF BattleInv, SingleFile
<1>3. Cardinality(Running) <= 1
  <2>1. CASE Running = {}
    BY <2>1, FS_EmptySet
  <2>2. CASE Running # {}
    <3>1. PICK i \in Running : TRUE
      BY <2>2
    <3>2. Running = {i}
      BY <1>2, <3>1 DEF TableInOrder
    <3>3. Cardinality({i}) = 1
      BY FS_Singleton
    <3>4. QED
      BY <3>2, <3>3
  <2>3. QED
    BY <2>1, <2>2
<1>4. QED
  BY <1>2, <1>3 DEF TableInOrder, NoStrayChain, Zero, Gone

(***************************************************************************)
(* As long as no two readers synchronise a battle at once, whatever is     *)
(* abandoned or fails, its rounds run in single file: one at a time, with  *)
(* its chain up, after every round below it, and without a fault no chain  *)
(* is left behind (AgentBattleService.SyncContestRoundLifecycle).          *)
(***************************************************************************)
THEOREM SingleFileRounds ==
    ASSUME BattleAssumption
    PROVE  BattleSpec => []SingleFileBattle
<1>1. BattleInit => BattleInv
  BY BaseInit, FileInit DEF BattleInv
<1>2. BattleInv /\ [BattleNext]_battleVars => BattleInv'
  BY BattleStep
<1>3. BattleInv => SingleFileBattle
  BY FileIsSingle
<1>4. QED
  BY <1>1, <1>2, <1>3, PTL DEF BattleSpec

-----------------------------------------------------------------------------
(* Of whichever of the three moves.                                        *)
THEOREM PartsTypeCorrect == MCSpec => []PartsTyped
<1>1. MCInit => MQInit /\ BattleInit /\ Init
  BY DEF MCInit
<1>2. MCNext => [MQNext]_mqVars /\ [BattleNext]_battleVars /\ [Next]_vars
  <2>1. /\ \A id \in Msgs : Submit(id) => MQNext
        /\ \A q \in Queues : Deliver(q) => MQNext
        /\ NoticeClosed \/ Reconnect \/ DialFails("dial") \/ DialFails("channel") => MQNext
        /\ BrokerReads \/ Drop \/ Restart => MQNext
    BY DEF MQNext, WatcherStep
  <2>2. /\ \A q \in Queues : Start(q) \/ Receive(q) \/ HandlerSucceeds(q) => MQNext
        /\ \A q \in Queues : HandlerFails(q) \/ Republish(q) \/ Answer(q) => MQNext
        /\ \A q \in Queues : SeeClosed(q) \/ Resubscribe(q) => MQNext
    BY DEF MQNext, ConsumerStep
  <2>3. /\ \A i \in DOMAIN rounds : RoundEnds(i) => BattleNext
        /\ RoundDue \/ CreateRound => BattleNext
    BY DEF BattleNext
  <2>4. /\ \A p \in Readers : Load(p) \/ CreateNext(p) \/ StopChain(p) => BattleNext
        /\ \A p \in Readers : SaveFinished(p) \/ CreateChain(p) \/ ChainReady(p) => BattleNext
        /\ \A p \in Readers : ChainFails(p) \/ SaveStarted(p) \/ SaveAborted(p) => BattleNext
        /\ \A p \in Readers : Abandon(p) => BattleNext
    BY DEF BattleNext, ReaderStep
  <2>5. /\ ContestEnds => Next
        /\ \A r \in Requests : StartReads(r) \/ StartCleansUp(r) \/ StartTerminates(r) => Next
        /\ \A r \in Requests : StartCreates(r) \/ StatusReads(r) \/ StatusExpires(r) => Next
        /\ \A r \in Requests : StopReads(r) \/ StopCleansUp(r) \/ StopTerminates(r) => Next
    BY DEF Next, StartStep, StopStep
  <2>6. /\ \A i \in DOMAIN rows : CreatePods(i) \/ PodsReady(i) \/ PodsFail(i) => Next
        /\ \A i \in DOMAIN rows : Check(i) \/ CleanUpStopped(i) \/ UpdateRunning(i) => Next
        /\ \A i \in DOMAIN rows : MarkFailed(i) \/ CutOff(i) \/ Lapse(i) => Next
    BY DEF Next, ProvisionStep
  <2>10. MCNext => \/ MQNext /\ NotMQ
                   \/ BattleNext /\ NotBattle
                   \/ Next /\ NotJeopardy
    BY <2>1, <2>2, <2>3, <2>4, <2>5, <2>6, Zenon DEF MCNext
  <2>11. /\ NotMQ => UNCHANGED battleVars /\ UNCHANGED vars
         /\ NotBattle => UNCHANGED mqVars /\ UNCHANGED vars
         /\ NotJeopardy => UNCHANGED mqVars /\ UNCHANGED battleVars
    BY DEF NotMQ, NotBattle, NotJeopardy
  <2>12. QED
    BY <2>10, <2>11
<1>3. UNCHANGED MCVars => UNCHANGED mqVars /\ UNCHANGED battleVars /\ UNCHANGED vars
  BY DEF MCVars
<1>4. MQTypeOK /\ BattleTypeOK /\ TypeOK => PartsTyped
  BY DEF PartsTyped
<1>5. QED
  BY <1>1, <1>2, <1>3, <1>4, RuntimesAssumption, MQTypeCorrect, BattleTypeCorrect,
     ChallengeTypeCorrect, PTL DEF MCSpec, MQSpec, BattleSpec, Spec
=============================================================================
