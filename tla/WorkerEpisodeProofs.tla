------------------------- MODULE WorkerEpisodeProofs -------------------------
(***************************************************************************)
(* Proofs about WorkerEpisode, for any guidance, calls, bodies and bounds. *)
(*                                                                         *)
(* reduce() is a fold over the journal, so the first part shows that the   *)
(* fold exists, is unique and takes one Apply per appended record; the     *)
(* induction is by least counterexample over the natural numbers.  The     *)
(* second part says what each journal method does to the folded state.     *)
(* The third is the inductive invariant EpisodeInv: what the process       *)
(* believes is what the journal replays to (JournalInv), where the process *)
(* stands bounds what that can be (ControlInv), and every guidance row     *)
(* still to be written is newer than all rows in the transcript            *)
(* (GuidanceInv).                                                          *)
(***************************************************************************)
EXTENDS WorkerEpisode, FiniteSetTheorems, WellFoundedInduction, TLAPS

-----------------------------------------------------------------------------
(* Numbers and enumerations.                                               *)

\* A nonempty set of numbers has a least element: the form of induction used
\* here (a least counterexample).
LEMMA HasMin == ASSUME NEW S, S \subseteq Nat, S # {} PROVE \E m \in S : \A n \in S : m <= n
<1>1. PICK x \in S : \A y \in S : ~(<<y, x>> \in OpToRel(<, Nat))
  BY NatLessThanWellFounded, WFMin, Zenon
<1>2. \A y \in S : y \in Nat /\ x \in Nat /\ ~(y < x)
  BY <1>1, Zenon DEF OpToRel
<1>3. \A y \in S : x <= y
  <2> TAKE y \in S
  <2> QED
    BY <1>2
<1> QED
  BY <1>1, <1>3, Zenon

Increasing(q) == \A i, j \in DOMAIN q : i < j => q[i] < q[j]
Enumerates(q, n, S) == q \in [1..n -> S] /\ Increasing(q)

\* An enumeration of the rest, with the least element put in front.
LEMMA EnumerateOneMore ==
  ASSUME NEW S, S \subseteq Nat, NEW n \in Nat, NEW m \in S, \A k \in S : m <= k,
         NEW q, Enumerates(q, n, S \ {m})
  PROVE  \E p : Enumerates(p, n + 1, S)
<1> DEFINE p == [i \in 1..(n + 1) |-> IF i = 1 THEN m ELSE q[i - 1]]
<1>1. \A i \in 1..n : q[i] \in S /\ q[i] # m
  BY Zenon DEF Enumerates
<1>2. DOMAIN q = 1..n
  BY Zenon DEF Enumerates
<1>3. \A i \in 1..(n + 1) : i # 1 => i - 1 \in 1..n
  OBVIOUS
<1>4. p \in [1..(n + 1) -> S]
  BY <1>1, <1>3, Zenon
<1>5. ASSUME NEW i \in 1..(n + 1), NEW j \in 1..(n + 1), i < j PROVE p[i] < p[j]
  <2>1. j # 1 /\ p[j] = q[j - 1] /\ j - 1 \in 1..n
    BY <1>5
  <2>2. CASE i = 1
    <3>1. p[i] = m /\ q[j - 1] \in S /\ q[j - 1] # m
      BY <1>1, <2>1, <2>2, Zenon
    <3>2. m <= q[j - 1]
      BY <3>1, Zenon
    <3>3. m < q[j - 1]
      <4>1. m \in Nat /\ q[j - 1] \in Nat
        BY <3>1, Zenon
      <4> HIDE DEF p
      <4>. QED
        BY <3>1, <3>2, <4>1
    <3>. QED
      BY <2>1, <3>1, <3>3, Zenon
  <2>3. CASE i # 1
    <3>1. p[i] = q[i - 1] /\ i - 1 \in 1..n
      BY <1>3, <2>3, Zenon
    <3>2. i - 1 < j - 1
      BY <1>5
    <3>3. q[i - 1] < q[j - 1]
      BY <1>2, <2>1, <3>1, <3>2, Zenon DEF Enumerates, Increasing
    <3>. QED
      BY <2>1, <3>1, <3>3, Zenon
  <2>. QED
    BY <2>2, <2>3, Zenon
<1>6. DOMAIN p = 1..(n + 1)
  BY Zenon
<1> HIDE DEF p
<1>. QED
  BY <1>4, <1>5, <1>6, Zenon DEF Enumerates, Increasing

\* Every finite set of numbers can be listed in order.
LEMMA EnumerationExists ==
  ASSUME NEW S, S \subseteq Nat, IsFiniteSet(S)
  PROVE  \E q : Enumerates(q, Cardinality(S), S)
<1> DEFINE Sorts(A) == A \subseteq Nat /\ IsFiniteSet(A) => \E q : Enumerates(q, Cardinality(A), A)
           Bad == {n \in Nat : \E A : A \subseteq Nat /\ IsFiniteSet(A) /\ Cardinality(A) = n
                                      /\ ~\E q : Enumerates(q, Cardinality(A), A)}
<1>1. SUFFICES Bad = {}
  <2>1. Cardinality(S) \in Nat
    BY FS_CardinalityType, Zenon
  <2>. QED
    BY <2>1, Zenon
<1>2. SUFFICES ASSUME Bad # {} PROVE FALSE
  BY Zenon
<1>3. PICK n \in Bad : \A k \in Bad : n <= k
  <2>1. Bad \subseteq Nat
    BY Zenon
  <2> HIDE DEF Bad
  <2>. QED
    BY <1>2, <2>1, HasMin, Zenon
<1>4. PICK A : /\ A \subseteq Nat /\ IsFiniteSet(A) /\ Cardinality(A) = n
               /\ ~\E q : Enumerates(q, n, A)
  BY <1>3, Zenon
<1>5. n \in Nat
  BY <1>3, Zenon
<1>6. CASE A = {}
  <2>1. n = 0
    BY <1>4, <1>6, FS_EmptySet, Zenon
  <2>2. Enumerates(<<>>, 0, A)
    BY <1>6 DEF Enumerates, Increasing
  <2>. QED
    BY <1>4, <2>1, <2>2, Zenon
<1>7. CASE A # {}
  <2>1. PICK m \in A : \A k \in A : m <= k
    BY <1>4, <1>7, HasMin, Zenon
  <2>2. IsFiniteSet(A \ {m}) /\ Cardinality(A \ {m}) = n - 1
    BY <1>4, FS_RemoveElement, Zenon
  <2>3. n - 1 \in Nat
    BY <2>2, FS_CardinalityType, Zenon
  <2>4. n - 1 \notin Bad
    <3>1. ~(n <= n - 1)
      BY <1>5
    <3> HIDE DEF Bad
    <3>. QED
      BY <1>3, <3>1, Zenon
  <2>5. PICK q : Enumerates(q, n - 1, A \ {m})
    BY <1>4, <2>2, <2>3, <2>4, Zenon
  <2>6. \E p : Enumerates(p, (n - 1) + 1, A)
    BY <1>4, <2>1, <2>3, <2>5, EnumerateOneMore, Zenon
  <2>7. (n - 1) + 1 = n
    BY <1>5
  <2>. QED
    BY <1>4, <2>6, <2>7, Zenon
<1>. QED
  BY <1>6, <1>7, Zenon

\* InOrder lists exactly the ids of its set, in increasing order.
LEMMA InOrderIs ==
  ASSUME NEW S, S \subseteq Nat, IsFiniteSet(S)
  PROVE  /\ InOrder(S) \in Seq(S) /\ Increasing(InOrder(S))
         /\ \A g \in S : \E i \in DOMAIN InOrder(S) : InOrder(S)[i] = g
<1> DEFINE q == InOrder(S)
<1>1. q \in [1..Cardinality(S) -> S] /\ Increasing(q)
  <2>1. PICK p : Enumerates(p, Cardinality(S), S)
    BY EnumerationExists, Zenon
  <2>2. /\ p \in [1..Cardinality(S) -> S]
        /\ \A i, j \in DOMAIN p : i < j => p[i] < p[j]
    BY <2>1, Zenon DEF Enumerates, Increasing
  <2>. QED
    BY <2>2, Zenon DEF InOrder, Increasing
<1> HIDE DEF q
<1>2. Cardinality(S) \in Nat /\ 1..Cardinality(S) \subseteq Nat
  <2>1. Cardinality(S) \in Nat
    BY FS_CardinalityType, Zenon
  <2>. QED
    BY <2>1
<1>3. q \in Seq(S)
  BY <1>1, <1>2
<1>4. \A i, j \in 1..Cardinality(S) : q[i] = q[j] => i = j
  <2> SUFFICES ASSUME NEW i \in 1..Cardinality(S), NEW j \in 1..Cardinality(S), q[i] = q[j], i # j
               PROVE  FALSE
    BY Zenon
  <2>1. i < j \/ j < i
    BY <1>2
  <2>2. q[i] < q[j] \/ q[j] < q[i]
    BY <1>1, <2>1, Zenon DEF Increasing
  <2>3. q[i] \in Nat /\ q[j] \in Nat
    BY <1>1, Zenon
  <2>. QED
    BY <2>2, <2>3
<1>5. q \in Injection(1..Cardinality(S), S)
  BY <1>1, <1>4, Zenon DEF Injection, IsInjective
<1>6. Cardinality(1..Cardinality(S)) = Cardinality(S)
  <2>1. Cardinality(1..Cardinality(S)) = IF 1 > Cardinality(S) THEN 0 ELSE Cardinality(S) - 1 + 1
    BY SMTT(30), <1>2, FS_Interval
  <2>. QED
    BY <1>2, <2>1
<1>7. q \in Surjection(1..Cardinality(S), S)
  BY <1>5, <1>6, FS_Injection, Zenon
<1>. QED
  BY <1>1, <1>3, <1>7, Zenon DEF q, Surjection

-----------------------------------------------------------------------------
(* The journal's replay.                                                   *)

\* f is the replay of the first n records.
Replays(f, s, n) == f = [i \in 0..n |-> IF i = 0 THEN Blank ELSE Replay(f[i - 1], s[i])]

\* What a replay is, point by point.
LEMMA ReplayPoints ==
  ASSUME NEW f, NEW s, NEW n \in Nat, Replays(f, s, n)
  PROVE  f[0] = Blank /\ \A i \in 1..n : f[i] = Replay(f[i - 1], s[i])
<1> DEFINE g == [i \in 0..n |-> IF i = 0 THEN Blank ELSE Replay(f[i - 1], s[i])]
<1>1. 0 \in 0..n /\ (\A i \in 1..n : i \in 0..n /\ i # 0)
  OBVIOUS
<1>2. f = g
  BY Zenon DEF Replays
<1>3. \A i \in 0..n : g[i] = IF i = 0 THEN Blank ELSE Replay(f[i - 1], s[i])
  BY Zenon
<1> HIDE DEF g
<1>. QED
  BY <1>1, <1>2, <1>3, Zenon

\* A replay goes on by one record.
LEMMA ReplayOneMore ==
  ASSUME NEW s, NEW n \in Nat, NEW f, Replays(f, s, n)
  PROVE  \E g : Replays(g, s, n + 1)
<1> DEFINE F(i) == IF i = n + 1 THEN Replay(f[n], s[n + 1]) ELSE f[i]
           g == [i \in 0..(n + 1) |-> F(i)]
<1>1. n + 1 \in Nat /\ n + 1 # 0 /\ 0 # n + 1
  OBVIOUS
<1>2. \A i \in 1..(n + 1) : i - 1 # n + 1 /\ (i = n + 1 => i - 1 = n) /\ (i # n + 1 => i \in 1..n)
  OBVIOUS
<1>3. f[0] = Blank /\ \A i \in 1..n : f[i] = Replay(f[i - 1], s[i])
  BY ReplayPoints, ZenonT(30)
<1>4. \A i \in 1..(n + 1) : F(i) = Replay(F(i - 1), s[i])
  BY <1>2, <1>3, Zenon
<1>5. \A i \in 0..(n + 1) : i # 0 => i \in 1..(n + 1) /\ i - 1 \in 0..(n + 1)
  OBVIOUS
<1>6. \A i \in 0..(n + 1) : i # 0 => g[i - 1] = F(i - 1)
  BY <1>5, Zenon
<1>7. F(0) = Blank
  BY <1>1, <1>3, Zenon
<1> HIDE DEF F
<1>8. \A i \in 0..(n + 1) : F(i) = IF i = 0 THEN Blank ELSE Replay(g[i - 1], s[i])
  BY <1>4, <1>5, <1>6, <1>7, Zenon
<1>9. Replays(g, s, n + 1)
  BY <1>8, Zenon DEF Replays
<1>. QED
  BY <1>9, Zenon

\* Every journal has a replay.
LEMMA ReplayExists == ASSUME NEW s, NEW n \in Nat PROVE \E f : Replays(f, s, n)
<1> DEFINE Bad == {k \in Nat : ~\E f : Replays(f, s, k)}
<1>1. SUFFICES ASSUME Bad # {} PROVE FALSE
  BY Zenon
<1>2. PICK k \in Bad : \A j \in Bad : k <= j
  <2>1. Bad \subseteq Nat
    BY Zenon
  <2> HIDE DEF Bad
  <2>. QED
    BY <1>1, <2>1, HasMin, Zenon
<1>3. k \in Nat /\ ~\E f : Replays(f, s, k)
  BY <1>2, Zenon
<1>4. k # 0
  <2> DEFINE f == [i \in 0..0 |-> Blank]
  <2>1. \A i \in 0..0 : i = 0
    OBVIOUS
  <2>2. Replays(f, s, 0)
    BY <2>1, Zenon DEF Replays
  <2>. QED
    BY <1>3, <2>2, Zenon
<1>5. k - 1 \in Nat /\ (k - 1) + 1 = k /\ ~(k <= k - 1)
  BY <1>3, <1>4
<1>6. k - 1 \notin Bad
  <2> HIDE DEF Bad
  <2>. QED
    BY <1>2, <1>5, Zenon
<1>7. PICK f : Replays(f, s, k - 1)
  BY <1>5, <1>6, Zenon
<1>8. \E g : Replays(g, s, (k - 1) + 1)
  BY <1>5, <1>7, ReplayOneMore, Zenon
<1>. QED
  BY <1>3, <1>5, <1>8, Zenon

SamePrefix(s, t, m) == \A i \in 1..m : s[i] = t[i]
AgreeAt(f, g, m) == f[m] = g[m]

\* Two replays of journals with a common prefix agree on it.
LEMMA ReplaysAgree ==
  ASSUME NEW s, NEW t, NEW m \in Nat, SamePrefix(s, t, m),
         NEW f, Replays(f, s, m), NEW g, Replays(g, t, m + 1)
  PROVE  AgreeAt(f, g, m)
<1> DEFINE Bad == {k \in 0..m : f[k] # g[k]}
<1>0. m + 1 \in Nat
  OBVIOUS
<1>1. SUFFICES ASSUME Bad # {} PROVE FALSE
  <2>1. m \in 0..m
    OBVIOUS
  <2>. QED
    BY <2>1, Zenon DEF AgreeAt
<1>2. PICK k \in Bad : \A j \in Bad : k <= j
  <2>1. 0..m \subseteq Nat
    OBVIOUS
  <2>2. Bad \subseteq Nat
    BY <2>1, Zenon
  <2> HIDE DEF Bad
  <2>. QED
    BY <1>1, <2>2, HasMin, Zenon
<1>3. k \in 0..m /\ f[k] # g[k]
  BY <1>2, Zenon
<1>4. /\ f[0] = Blank /\ g[0] = Blank
      /\ \A i \in 1..m : f[i] = Replay(f[i - 1], s[i])
      /\ \A i \in 1..(m + 1) : g[i] = Replay(g[i - 1], t[i])
  <2>1. f[0] = Blank /\ \A i \in 1..m : f[i] = Replay(f[i - 1], s[i])
    BY ReplayPoints, ZenonT(30)
  <2>2. g[0] = Blank /\ \A i \in 1..(m + 1) : g[i] = Replay(g[i - 1], t[i])
    BY <1>0, ReplayPoints, ZenonT(30)
  <2>. QED
    BY <2>1, <2>2, Zenon
<1>5. k # 0
  BY <1>3, <1>4, Zenon
<1>6. k \in 1..m /\ k \in 1..(m + 1) /\ k - 1 \in 0..m /\ ~(k <= k - 1)
  BY <1>3, <1>5
<1>7. k - 1 \notin Bad
  <2> HIDE DEF Bad
  <2>. QED
    BY <1>2, <1>6, Zenon
<1>8. f[k - 1] = g[k - 1]
  BY <1>6, <1>7, Zenon
<1>. QED
  BY <1>3, <1>4, <1>6, <1>8, Zenon DEF SamePrefix

\* reduce() is the last state of the replay.
LEMMA ReduceIs ==
  ASSUME NEW s, Len(s) \in Nat
  PROVE  \E f : Replays(f, s, Len(s)) /\ reduce(s) = f[Len(s)]
<1> DEFINE f == CHOOSE f : Replays(f, s, Len(s))
<1>1. Replays(f, s, Len(s))
  BY ReplayExists, Zenon
<1>2. reduce(s) = f[Len(s)]
  BY Zenon DEF reduce, Replays
<1>. QED
  BY <1>1, <1>2, Zenon

\* An empty journal reads as a fresh state.
LEMMA ReduceEmpty == reduce(<<>>) = Blank
<1>1. Len(<<>>) = 0 /\ 0 \in Nat
  OBVIOUS
<1>2. PICK f : Replays(f, <<>>, 0) /\ reduce(<<>>) = f[0]
  BY <1>1, ReduceIs, Zenon
<1>. QED
  BY <1>1, <1>2, ReplayPoints, Zenon

\* A journal with one more record reads as that record applied to what it read
\* as before: what append() and a later reduce() have in common.
LEMMA ReduceAppend ==
  ASSUME NEW R, NEW s \in Seq(R), NEW r
  PROVE  reduce(Append(s, r)) = Replay(reduce(s), r)
<1> DEFINE t == Append(s, r)
           n == Len(s)
<1>1. n \in Nat /\ n + 1 \in Nat /\ n <= n + 1 /\ n + 1 \in 1..(n + 1) /\ (n + 1) - 1 = n
  OBVIOUS
<1>2. Len(t) = n + 1 /\ (\A i \in 1..n : s[i] = t[i]) /\ t[n + 1] = r
  OBVIOUS
<1> HIDE DEF t, n
<1>3. PICK f : Replays(f, s, n) /\ reduce(s) = f[n]
  BY <1>1, ReduceIs, Zenon DEF n
<1>4. PICK g : Replays(g, t, n + 1) /\ reduce(t) = g[n + 1]
  BY <1>1, <1>2, ReduceIs, Zenon
<1>5. f[n] = g[n]
  <2>1. n \in Nat /\ SamePrefix(s, t, n)
    BY <1>1, <1>2, Zenon DEF SamePrefix
  <2>2. Replays(f, s, n) /\ Replays(g, t, n + 1)
    BY <1>3, <1>4, Zenon
  <2>3. AgreeAt(f, g, n)
    BY <2>1, <2>2, ReplaysAgree, Zenon
  <2>. QED
    BY <2>3, Zenon DEF AgreeAt
<1>6. g[n + 1] = Replay(g[(n + 1) - 1], t[n + 1])
  BY <1>1, <1>4, ReplayPoints, Zenon
<1>. QED
  BY <1>1, <1>2, <1>3, <1>4, <1>5, <1>6, Zenon DEF t

-----------------------------------------------------------------------------
(* The inductive invariant.                                                *)

\* What the journal on disk reads as.
J == reduce(log)

Msg == [kind : {"system", "mandate"}] \cup [kind : {"guidance"}, id : Guidance]
       \cup [kind : {"assistant"}, calls : Seq(Request)] \cup [kind : {"tool"}, id : Call]
MaybeBody == Body \cup {NoBody}
State == [valid : BOOLEAN, messages : Seq(Msg), guidanceIds : SUBSET Guidance,
          pendingTools : SUBSET Call, pendingFinish : MaybeBody, finished : MaybeBody]
Record == [type : {"initialized"}, messages : Seq(Msg)]
          \cup [type : {"message"}, message : Msg]
          \cup [type : {"guidance"}, id : Guidance, message : Msg]
          \cup [type : {"tool_prepared"}, id : Call]
          \cup [type : {"tool_completed"}, id : Call, message : Msg]
          \cup [type : {"finish_prepared", "finished"}, body : MaybeBody]

\* The episode loop is under way.
Live == pc \notin {"down", "source", "exit"}

\* The journal reads back, and memory agrees with it.
JournalInv ==
  /\ log \in Seq(Record) /\ J \in State /\ J.valid
  /\ pc # "down" => mem = J
  /\ messages = <<>> \/ messages = J.messages
  /\ Live => messages = J.messages

\* Where the loop stands agrees with what the journal says is open.
ControlInv ==
  /\ calls \in Seq(Request) /\ answer \in MaybeBody
  /\ pc = "mandate" => J.messages = <<>>
  /\ pc \in {"dispatch", "running", "ran"} => calls # <<>>
  /\ Live => J.finished = NoBody
  /\ Live /\ pc \notin {"running", "ran"} => J.pendingTools = {}
  /\ pc \in {"running", "ran"} => J.pendingTools = {Head(calls).id}

Closed(ids) == \A g \in ids, h \in Guidance : h < g => h \in ids
In(g, q) == \E i \in DOMAIN q : q[i] = g
Ordered(t) ==
  \A i, j \in DOMAIN t :
    i < j /\ t[i].kind = "guidance" /\ t[j].kind = "guidance" => t[i].id < t[j].id
Known(t, ids) == \A i \in DOMAIN t : t[i].kind = "guidance" => t[i].id \in ids

\* Rows enter the mailbox, the journal and the transcript in id order and
\* without gaps.
GuidanceInv ==
  /\ sent \subseteq Guidance /\ Closed(sent)
  /\ acked \subseteq J.guidanceIds /\ Closed(J.guidanceIds)
  /\ Known(J.messages, J.guidanceIds) /\ Ordered(J.messages)
  /\ batch \in Seq(Guidance)
  /\ pc = "journal" =>
       /\ Increasing(batch)
       /\ \A g \in pulled : g \in J.guidanceIds \/ In(g, batch)
       /\ \A i \in DOMAIN batch : \A h \in Guidance :
            h < batch[i] => h \in J.guidanceIds \/ In(h, batch)
  /\ pc = "ack" => pulled \subseteq J.guidanceIds

EpisodeInv == JournalInv /\ ControlInv /\ GuidanceInv

-----------------------------------------------------------------------------
(* What each method of the journal does to what it reads as.               *)

\* A record the state accepts is applied.
LEMMA AppendIs ==
  ASSUME JournalInv, NEW r \in Record, append(r), Accepts(J, r)
  PROVE  log' \in Seq(Record) /\ J' = Apply(J, r)
<1>1. log' = Append(log, r) /\ log \in Seq(Record) /\ J.valid
  BY Zenon DEF append, JournalInv
<1>2. log' \in Seq(Record)
  BY <1>1
<1>3. J' = Replay(J, r)
  BY <1>1, ReduceAppend, Zenon DEF J
<1>. QED
  BY <1>1, <1>2, <1>3, Zenon DEF Replay

\* The messages the episode writes.
LEMMA MessageTypes ==
  /\ Mandate \in Seq(Msg) /\ \A i \in DOMAIN Mandate : Mandate[i].kind # "guidance"
  /\ \A g \in Guidance : Guide(g) \in Msg /\ Guide(g).kind = "guidance" /\ Guide(g).id = g
  /\ \A c \in Seq(Request) : Assistant(c) \in Msg /\ Assistant(c).kind # "guidance"
  /\ \A i \in Call : Tool(i) \in Msg /\ Tool(i).kind # "guidance"
<1>1. \A g \in Guidance : Guide(g) \in Msg /\ Guide(g).kind = "guidance" /\ Guide(g).id = g
  BY DEF Guide, Msg
<1>2. \A c \in Seq(Request) : Assistant(c) \in Msg /\ Assistant(c).kind # "guidance"
  BY DEF Assistant, Msg
<1>3. \A i \in Call : Tool(i) \in Msg /\ Tool(i).kind # "guidance"
  BY DEF Tool, Msg
<1>4. [kind |-> "system"] \in Msg /\ [kind |-> "mandate"] \in Msg
  BY DEF Msg
<1>5. Mandate \in Seq(Msg) /\ \A i \in DOMAIN Mandate : Mandate[i].kind # "guidance"
  BY <1>4 DEF Mandate
<1>. QED
  BY <1>1, <1>2, <1>3, <1>5, Zenon

\* initialize() on an empty journal.
LEMMA InitializeIs ==
  ASSUME JournalInv, mem = J, J.messages = <<>>, messages = <<>>, initialize
  PROVE  /\ log' \in Seq(Record) /\ J' = [J EXCEPT !.messages = Mandate]
         /\ mem' = J' /\ messages' = J'.messages
<1> DEFINE r == [type |-> "initialized", messages |-> Mandate]
<1>1. r \in Record /\ r.type = "initialized" /\ r.messages = Mandate
  BY MessageTypes DEF Record
<1>2. append(r)
  BY Zenon DEF initialize
<1> HIDE DEF r
<1>3. Accepts(J, r) /\ Apply(J, r) = [J EXCEPT !.messages = Mandate]
  BY <1>1 DEF Accepts, Apply
<1>4. log' \in Seq(Record) /\ J' = [J EXCEPT !.messages = Mandate]
  BY <1>1, <1>2, <1>3, AppendIs, Zenon
<1>5. <<>> \o Mandate = Mandate
  BY MessageTypes
<1>6. mem' = [J EXCEPT !.messages = @ \o Mandate] /\ messages' = <<>> \o Mandate
  BY Zenon DEF initialize
<1>7. J \in State
  BY Zenon DEF JournalInv
<1>. QED
  BY <1>4, <1>5, <1>6, <1>7 DEF State

\* appendMessage().
LEMMA AppendMessageIs ==
  ASSUME JournalInv, mem = J, messages = J.messages, NEW m \in Msg, appendMessage(m)
  PROVE  /\ log' \in Seq(Record) /\ J' = [J EXCEPT !.messages = Append(@, m)]
         /\ mem' = J' /\ messages' = J'.messages
<1> DEFINE r == [type |-> "message", message |-> m]
<1>1. r \in Record /\ r.type = "message" /\ r.message = m
  BY DEF Record
<1>2. append(r)
  BY Zenon DEF appendMessage
<1> HIDE DEF r
<1>3. Accepts(J, r) /\ Apply(J, r) = [J EXCEPT !.messages = Append(@, m)]
  BY <1>1 DEF Accepts, Apply
<1>4. log' \in Seq(Record) /\ J' = [J EXCEPT !.messages = Append(@, m)]
  BY <1>1, <1>2, <1>3, AppendIs, Zenon
<1>5. mem' = [J EXCEPT !.messages = Append(@, m)] /\ messages' = Append(J.messages, m)
  BY Zenon DEF appendMessage
<1>6. J \in State
  BY Zenon DEF JournalInv
<1>. QED
  BY <1>4, <1>5, <1>6 DEF State

\* appendGuidance() of a row that is not in the journal.
LEMMA AppendGuidanceIs ==
  ASSUME JournalInv, mem = J, messages = J.messages, NEW g \in Guidance, g \notin J.guidanceIds,
         appendGuidance(g)
  PROVE  /\ log' \in Seq(Record)
         /\ J' = [J EXCEPT !.guidanceIds = @ \cup {g}, !.messages = Append(@, Guide(g))]
         /\ mem' = J' /\ messages' = J'.messages
<1> DEFINE r == [type |-> "guidance", id |-> g, message |-> Guide(g)]
<1>1. r \in Record /\ r.type = "guidance" /\ r.id = g /\ r.message = Guide(g)
  BY MessageTypes DEF Record
<1>2. append(r)
  BY Zenon DEF appendGuidance
<1> HIDE DEF r
<1>3. /\ Accepts(J, r)
      /\ Apply(J, r) = [J EXCEPT !.guidanceIds = @ \cup {g}, !.messages = Append(@, Guide(g))]
  BY <1>1 DEF Accepts, Apply
<1>4. /\ log' \in Seq(Record)
      /\ J' = [J EXCEPT !.guidanceIds = @ \cup {g}, !.messages = Append(@, Guide(g))]
  BY <1>1, <1>2, <1>3, AppendIs, Zenon
<1>5. /\ mem' = [J EXCEPT !.guidanceIds = @ \cup {g}, !.messages = Append(@, Guide(g))]
      /\ messages' = Append(J.messages, Guide(g))
  BY Zenon DEF appendGuidance
<1>6. J \in State
  BY Zenon DEF JournalInv
<1>. QED
  BY <1>4, <1>5, <1>6 DEF State

\* prepareTool() of an id that is not pending.
LEMMA PrepareToolIs ==
  ASSUME JournalInv, mem = J, NEW i \in Call, i \notin J.pendingTools, prepareTool(i)
  PROVE  /\ log' \in Seq(Record) /\ J' = [J EXCEPT !.pendingTools = @ \cup {i}]
         /\ mem' = J' /\ messages' = messages
<1> DEFINE r == [type |-> "tool_prepared", id |-> i]
<1>1. r \in Record /\ r.type = "tool_prepared" /\ r.id = i
  BY DEF Record
<1>2. append(r)
  BY Zenon DEF prepareTool
<1> HIDE DEF r
<1>3. Accepts(J, r) /\ Apply(J, r) = [J EXCEPT !.pendingTools = @ \cup {i}]
  BY <1>1 DEF Accepts, Apply
<1>4. log' \in Seq(Record) /\ J' = [J EXCEPT !.pendingTools = @ \cup {i}]
  BY <1>1, <1>2, <1>3, AppendIs, Zenon
<1>. QED
  BY <1>4, Zenon DEF prepareTool

\* completeTool() of a pending id.
LEMMA CompleteToolIs ==
  ASSUME JournalInv, mem = J, messages = J.messages, NEW i \in Call, i \in J.pendingTools,
         completeTool(i)
  PROVE  /\ log' \in Seq(Record)
         /\ J' = [J EXCEPT !.pendingTools = @ \ {i}, !.messages = Append(@, Tool(i))]
         /\ mem' = J' /\ messages' = J'.messages
<1> DEFINE r == [type |-> "tool_completed", id |-> i, message |-> Tool(i)]
<1>1. r \in Record /\ r.type = "tool_completed" /\ r.id = i /\ r.message = Tool(i)
  BY MessageTypes DEF Record
<1>2. append(r)
  BY Zenon DEF completeTool
<1> HIDE DEF r
<1>3. /\ Accepts(J, r)
      /\ Apply(J, r) = [J EXCEPT !.pendingTools = @ \ {i}, !.messages = Append(@, Tool(i))]
  BY <1>1 DEF Accepts, Apply
<1>4. /\ log' \in Seq(Record)
      /\ J' = [J EXCEPT !.pendingTools = @ \ {i}, !.messages = Append(@, Tool(i))]
  BY <1>1, <1>2, <1>3, AppendIs, Zenon
<1>5. /\ mem' = [J EXCEPT !.pendingTools = @ \ {i}, !.messages = Append(@, Tool(i))]
      /\ messages' = Append(J.messages, Tool(i))
  BY Zenon DEF completeTool
<1>6. J \in State
  BY Zenon DEF JournalInv
<1>. QED
  BY <1>4, <1>5, <1>6 DEF State

\* prepareFinish() where it does not throw: the body is pending, or was before.
LEMMA PrepareFinishIs ==
  ASSUME JournalInv, mem = J, NEW b \in MaybeBody, ~Conflicting(b), prepareFinish(b)
  PROVE  /\ log' \in Seq(Record) /\ J' \in State /\ mem' = J' /\ messages' = messages
         /\ J' = J \/ J' = [J EXCEPT !.pendingFinish = b]
<1>0. J \in State /\ log \in Seq(Record)
  BY Zenon DEF JournalInv
<1>1. CASE mem.pendingFinish = b \/ mem.finished = b
  <2>1. UNCHANGED <<log, mem, messages>>
    BY <1>1, Zenon DEF prepareFinish, journal
  <2>. QED
    BY <1>0, <2>1, Zenon DEF J
<1>2. CASE ~(mem.pendingFinish = b \/ mem.finished = b)
  <2> DEFINE r == [type |-> "finish_prepared", body |-> b]
  <2>1. r \in Record /\ r.type = "finish_prepared" /\ r.body = b
    BY DEF Record
  <2>2. append(r)
    BY <1>2, Zenon DEF prepareFinish
  <2> HIDE DEF r
  <2>3. J.pendingFinish \in {NoBody, b}
    BY Zenon DEF Conflicting
  <2>4. Accepts(J, r) /\ Apply(J, r) = [J EXCEPT !.pendingFinish = b]
    BY <2>1, <2>3 DEF Accepts, Apply
  <2>5. log' \in Seq(Record) /\ J' = [J EXCEPT !.pendingFinish = b]
    BY <2>1, <2>2, <2>4, AppendIs, Zenon
  <2>6. J' \in State
    BY ZenonT(30), <1>0, <2>5 DEF State
  <2>. QED
    BY <1>2, <2>5, <2>6, Zenon DEF prepareFinish
<1>. QED
  BY <1>1, <1>2, Zenon

\* completeFinish() of an episode that is not finished.
LEMMA CompleteFinishIs ==
  ASSUME JournalInv, mem = J, J.finished = NoBody, completeFinish
  PROVE  /\ log' \in Seq(Record)
         /\ J' = [J EXCEPT !.pendingFinish = NoBody, !.finished = J.pendingFinish]
         /\ mem' = J' /\ messages' = messages
<1> DEFINE r == [type |-> "finished", body |-> J.pendingFinish]
<1>0. J \in State
  BY Zenon DEF JournalInv
<1>1. r \in Record /\ r.type = "finished" /\ r.body = J.pendingFinish
  BY <1>0 DEF Record, State
<1>2. append(r)
  BY Zenon DEF completeFinish
<1> HIDE DEF r
<1>3. /\ Accepts(J, r)
      /\ Apply(J, r) = [J EXCEPT !.pendingFinish = NoBody, !.finished = J.pendingFinish]
  BY <1>1 DEF Accepts, Apply
<1>4. log' \in Seq(Record) /\ J' = [J EXCEPT !.pendingFinish = NoBody, !.finished = J.pendingFinish]
  BY <1>1, <1>2, <1>3, AppendIs, Zenon
<1>. QED
  BY <1>4, Zenon DEF completeFinish

-----------------------------------------------------------------------------
(* Steps that do not write, and steps that do.                             *)

\* The journal is left alone.
LEMMA JournalStill ==
  ASSUME JournalInv, log' = log, pc' # "down" => mem' = J,
         messages' = <<>> \/ messages' = J.messages, Live' => messages' = J.messages
  PROVE  JournalInv' /\ J' = J
<1>1. J' = J
  BY Zenon DEF J
<1>. QED
  BY <1>1, Zenon DEF JournalInv

\* Guidance is left alone.
LEMMA GuidanceStill ==
  ASSUME GuidanceInv, J' = J, sent' = sent, acked' = acked, batch' \in Seq(Guidance),
         pc' \notin {"journal", "ack"}
  PROVE  GuidanceInv'
  BY Zenon DEF GuidanceInv

\* A journaled step leaves memory and disk in agreement.
LEMMA JournalWrites ==
  ASSUME log' \in Seq(Record), J' \in State, J'.valid, mem' = J', messages' = J'.messages
  PROVE  JournalInv'
  BY Zenon DEF JournalInv

\* A message that is not guidance keeps the order of the guidance.
LEMMA OtherMessage ==
  ASSUME NEW t \in Seq(Msg), NEW m \in Msg, m.kind # "guidance", NEW ids,
         Known(t, ids), Ordered(t)
  PROVE  Append(t, m) \in Seq(Msg) /\ Known(Append(t, m), ids) /\ Ordered(Append(t, m))
<1> DEFINE u == Append(t, m)
<1>1. u \in Seq(Msg) /\ \A i \in DOMAIN u : (i \in DOMAIN t /\ u[i] = t[i]) \/ u[i] = m
  OBVIOUS
<1> HIDE DEF u
<1>2. Known(u, ids)
  BY <1>1, Zenon DEF Known
<1>3. Ordered(u)
  BY <1>1, Zenon DEF Ordered
<1>. QED
  BY <1>1, <1>2, <1>3, Zenon DEF u

\* Guidance that is newer than all there is goes to the end.
LEMMA NewestGuidance ==
  ASSUME NEW t \in Seq(Msg), NEW g \in Guidance, NEW ids \in SUBSET Guidance,
         Known(t, ids), Ordered(t), \A h \in ids : h < g
  PROVE  /\ Append(t, Guide(g)) \in Seq(Msg) /\ Known(Append(t, Guide(g)), ids \cup {g})
         /\ Ordered(Append(t, Guide(g)))
<1> DEFINE u == Append(t, Guide(g))
           n == Len(t)
<1>1. Guide(g) \in Msg /\ Guide(g).kind = "guidance" /\ Guide(g).id = g
  BY MessageTypes, Zenon
<1>2. u \in Seq(Msg)
  BY <1>1
<1>3. \A i \in DOMAIN u : (i \in DOMAIN t /\ u[i] = t[i]) \/ (i = n + 1 /\ u[i] = Guide(g))
  BY <1>1
<1>4. \A i, j \in DOMAIN u : i < j => i # n + 1
  BY <1>1
<1> HIDE DEF u, n
<1>5. Known(u, ids \cup {g})
  BY <1>1, <1>3, Zenon DEF Known
<1>6. ASSUME NEW i \in DOMAIN u, NEW j \in DOMAIN u, i < j, u[i].kind = "guidance", u[j].kind = "guidance"
      PROVE  u[i].id < u[j].id
  <2>1. i \in DOMAIN t /\ u[i] = t[i]
    BY <1>3, <1>4, <1>6, Zenon
  <2>2. t[i].id \in ids
    BY <1>6, <2>1, Zenon DEF Known
  <2>3. CASE j \in DOMAIN t /\ u[j] = t[j]
    BY <1>6, <2>1, <2>3, Zenon DEF Ordered
  <2>4. CASE u[j] = Guide(g)
    BY <1>1, <2>1, <2>2, <2>4, Zenon
  <2>. QED
    BY <1>3, <2>3, <2>4, Zenon
<1>7. Ordered(u)
  BY <1>6, Zenon DEF Ordered
<1>. QED
  BY <1>2, <1>5, <1>7, Zenon DEF u

\* A journaled message that is not guidance.
LEMMA MessageWritten ==
  ASSUME JournalInv, GuidanceInv, NEW m \in Msg, m.kind # "guidance", NEW tools \in SUBSET Call,
         J' = [J EXCEPT !.pendingTools = tools, !.messages = Append(@, m)],
         sent' = sent, acked' = acked, batch' \in Seq(Guidance), pc' \notin {"journal", "ack"}
  PROVE  J' \in State /\ J'.valid /\ GuidanceInv'
<1>1. J \in State /\ J.valid /\ J.messages \in Seq(Msg)
  BY DEF JournalInv, State
<1>2. /\ Append(J.messages, m) \in Seq(Msg) /\ Known(Append(J.messages, m), J.guidanceIds)
      /\ Ordered(Append(J.messages, m))
  BY <1>1, OtherMessage, Zenon DEF GuidanceInv
<1>3. /\ J' \in State /\ J'.valid /\ J'.guidanceIds = J.guidanceIds
      /\ J'.messages = Append(J.messages, m)
  BY ZenonT(30), <1>1, <1>2 DEF State
<1>. QED
  BY <1>2, <1>3, Zenon DEF GuidanceInv

\* A record that changes only what is open.
LEMMA OpenWritten ==
  ASSUME JournalInv, GuidanceInv, J' \in State, J'.messages = J.messages,
         J'.guidanceIds = J.guidanceIds,
         sent' = sent, acked' = acked, batch' \in Seq(Guidance), pc' \notin {"journal", "ack"}
  PROVE  GuidanceInv'
  BY Zenon DEF GuidanceInv

-----------------------------------------------------------------------------
(* One lemma per step.                                                     *)

\* What a step of the loop finds.
LEMMA AtLive ==
  ASSUME EpisodeInv, Live
  PROVE  mem = J /\ messages = J.messages /\ J \in State /\ J.valid /\ J.finished = NoBody
  BY Zenon DEF EpisodeInv, JournalInv, ControlInv, Live

\* A boot reads the journal back.
LEMMA BootInv == ASSUME EpisodeInv, Boot PROVE EpisodeInv'
<1>1. /\ log' = log /\ mem' = J /\ pc' = "source" /\ messages' = messages
      /\ calls' = calls /\ answer' = answer /\ batch' = batch /\ sent' = sent /\ acked' = acked
  BY Zenon DEF Boot, J, journal, loop, broker
<1>2. JournalInv' /\ J' = J
  BY <1>1, JournalStill, Zenon DEF EpisodeInv, JournalInv, Live
<1>3. ControlInv'
  BY <1>1, <1>2, Zenon DEF EpisodeInv, ControlInv, Live
<1>4. GuidanceInv'
  BY <1>1, <1>2, GuidanceStill, Zenon DEF EpisodeInv, GuidanceInv
<1>. QED
  BY <1>2, <1>3, <1>4, Zenon DEF EpisodeInv

\* A process that is gone leaves the journal.
LEMMA ForgetInv ==
  ASSUME EpisodeInv, Forget, pc' = "down", log' = log, sent' = sent, acked' = acked
  PROVE  EpisodeInv'
<1>1. messages' = <<>> /\ calls' = <<>> /\ answer' = NoBody /\ batch' = <<>>
  BY Zenon DEF Forget
<1>2. JournalInv' /\ J' = J
  BY <1>1, JournalStill, Zenon DEF EpisodeInv, Live
<1>3. <<>> \in Seq(Request) /\ <<>> \in Seq(Guidance)
  OBVIOUS
<1>4. ControlInv'
  BY <1>1, <1>2, <1>3, Zenon DEF ControlInv, Live, MaybeBody
<1>5. GuidanceInv'
  BY <1>1, <1>2, <1>3, GuidanceStill, Zenon DEF EpisodeInv
<1>. QED
  BY <1>2, <1>4, <1>5, Zenon DEF EpisodeInv

\* run() decides by the journal where it goes on.
LEMMA SourceReturnsInv == ASSUME EpisodeInv, SourceReturns PROVE EpisodeInv'
<1>1. /\ log' = log /\ mem' = mem /\ pc' = Enter /\ messages' = mem.messages
      /\ calls' = calls /\ answer' = answer /\ batch' = batch /\ sent' = sent /\ acked' = acked
  BY Zenon DEF SourceReturns, journal, broker
<1>2. mem = J
  BY Zenon DEF SourceReturns, EpisodeInv, JournalInv
<1>3. /\ pc' \in {"exit", "finish", "mandate", "pull"}
      /\ pc' # "exit" => J.pendingTools = {} /\ J.finished = NoBody
      /\ pc' = "mandate" => J.messages = <<>>
  BY <1>1, <1>2, Zenon DEF Enter
<1>4. JournalInv' /\ J' = J
  BY <1>1, <1>2, JournalStill, Zenon DEF EpisodeInv
<1>5. ControlInv'
  BY <1>1, <1>3, <1>4, Zenon DEF EpisodeInv, ControlInv, Live
<1>6. GuidanceInv'
  BY <1>1, <1>3, <1>4, GuidanceStill, Zenon DEF EpisodeInv, GuidanceInv
<1>. QED
  BY <1>4, <1>5, <1>6, Zenon DEF EpisodeInv

\* The mandate opens the journal.
LEMMA MandateReturnsInv == ASSUME EpisodeInv, MandateReturns PROVE EpisodeInv'
<1>1. /\ pc = "mandate" /\ initialize /\ pc' = "pull"
      /\ calls' = calls /\ answer' = answer /\ batch' = batch /\ sent' = sent /\ acked' = acked
  BY Zenon DEF MandateReturns, loop, broker
<1>2. Live /\ J.messages = <<>> /\ J.pendingTools = {}
  BY <1>1, Zenon DEF Live, EpisodeInv, ControlInv
<1>3. mem = J /\ messages = <<>> /\ J \in State /\ J.valid /\ J.finished = NoBody
  BY <1>2, AtLive, Zenon
<1>4. /\ log' \in Seq(Record) /\ J' = [J EXCEPT !.messages = Mandate]
      /\ mem' = J' /\ messages' = J'.messages
  BY <1>1, <1>2, <1>3, InitializeIs, Zenon DEF EpisodeInv
<1>5. /\ J' \in State /\ J'.valid /\ J'.messages = Mandate /\ J'.guidanceIds = J.guidanceIds
      /\ J'.pendingTools = {} /\ J'.finished = NoBody
  BY SMTT(30), <1>2, <1>3, <1>4, MessageTypes DEF State
<1>6. JournalInv'
  BY <1>4, <1>5, JournalWrites, Zenon
<1>7. ControlInv'
  BY <1>1, <1>5, Zenon DEF EpisodeInv, ControlInv
<1>8. Known(Mandate, J.guidanceIds) /\ Ordered(Mandate)
  BY MessageTypes, Zenon DEF Known, Ordered
<1>9. GuidanceInv'
  BY <1>1, <1>5, <1>8, Zenon DEF EpisodeInv, GuidanceInv
<1>. QED
  BY <1>6, <1>7, <1>9, Zenon DEF EpisodeInv

\* A pull takes the oldest rows that are not acknowledged, and misses none
\* before the last it takes.
LEMMA PendingIs ==
  ASSUME GuidanceInv
  PROVE  /\ Pending \subseteq Guidance /\ Pending \subseteq Nat /\ IsFiniteSet(Pending)
         /\ \A g \in Pending, h \in Guidance : h < g => h \in acked \/ h \in Pending
<1>1. sent \subseteq Guidance /\ Closed(sent)
  BY Zenon DEF GuidanceInv
<1>2. Pending \subseteq Guidance
  BY <1>1, Zenon DEF Pending
<1>3. Pending \subseteq Nat /\ IsFiniteSet(Pending)
  BY <1>2, GuidanceAssumption, FS_Subset, Zenon
<1>4. ASSUME NEW g \in Pending, NEW h \in Guidance, h < g, h \notin acked PROVE h \in Pending
  <2> DEFINE before(x) == {y \in sent \ acked : y < x}
  <2>1. g \in sent \ acked /\ Cardinality(before(g)) < PullLimit
    BY Zenon DEF Pending
  <2>2. h \in sent \ acked
    BY <1>1, <1>4, <2>1, Zenon DEF Closed
  <2>3. before(h) \subseteq before(g)
    <3> SUFFICES ASSUME NEW y \in before(h) PROVE y \in before(g)
      BY Zenon
    <3>1. y \in sent \ acked /\ y < h /\ y \in Nat /\ h \in Nat /\ g \in Nat
      BY <1>1, <1>2, GuidanceAssumption, Zenon
    <3>2. y < g
      BY <1>4, <3>1
    <3>. QED
      BY <3>1, <3>2, Zenon
  <2>4. before(g) \subseteq Guidance
    BY <1>1, Zenon
  <2> HIDE DEF before
  <2>5. IsFiniteSet(before(g))
    BY <2>4, GuidanceAssumption, FS_Subset, Zenon
  <2>6. Cardinality(before(h)) <= Cardinality(before(g)) /\ IsFiniteSet(before(h))
    BY <2>3, <2>5, FS_Subset, Zenon
  <2>7. Cardinality(before(h)) \in Nat /\ Cardinality(before(g)) \in Nat
    BY <2>5, <2>6, FS_CardinalityType, Zenon
  <2>8. Cardinality(before(h)) < PullLimit
    BY <2>1, <2>6, <2>7, LimitAssumption
  <2>. QED
    BY <2>2, <2>8, Zenon DEF Pending, before
<1>. QED
  BY <1>2, <1>3, <1>4, Zenon

\* A sequence over a subset.
LEMMA SeqOfSubset ==
  ASSUME NEW S, NEW T, S \subseteq T, NEW q \in Seq(S)
  PROVE  q \in Seq(T) /\ \A i \in DOMAIN q : q[i] \in S
  OBVIOUS

\* The pulled rows wait for the journal in id order.
LEMMA PullReturnsInv == ASSUME EpisodeInv, PullReturns PROVE EpisodeInv'
<1>1. /\ log' = log /\ mem' = mem /\ messages' = messages /\ pc = "pull" /\ pc' = "journal"
      /\ calls' = calls /\ answer' = answer /\ sent' = sent /\ acked' = acked
      /\ batch' = InOrder(Pending) /\ pulled' = Pending
  BY Zenon DEF PullReturns, journal, broker
<1>2. mem = J /\ messages = J.messages
  BY <1>1, AtLive, Zenon DEF Live
<1>3. JournalInv' /\ J' = J
  BY <1>1, <1>2, JournalStill, Zenon DEF EpisodeInv
<1>4. ControlInv'
  BY <1>1, <1>3, Zenon DEF EpisodeInv, ControlInv, Live
<1>5. /\ Pending \subseteq Guidance /\ Pending \subseteq Nat /\ IsFiniteSet(Pending)
      /\ \A g \in Pending, h \in Guidance : h < g => h \in acked \/ h \in Pending
  BY PendingIs, Zenon DEF EpisodeInv
<1>6. /\ batch' \in Seq(Pending) /\ Increasing(batch')
      /\ \A g \in Pending : In(g, batch')
  BY <1>1, <1>5, InOrderIs, Zenon DEF In
<1>7. batch' \in Seq(Guidance) /\ \A i \in DOMAIN batch' : batch'[i] \in Pending
  BY <1>5, <1>6, SeqOfSubset, Zenon
<1>8. \A i \in DOMAIN batch' : \A h \in Guidance :
        h < batch'[i] => h \in J.guidanceIds \/ In(h, batch')
  BY <1>5, <1>6, <1>7, Zenon DEF EpisodeInv, GuidanceInv
<1>9. GuidanceInv'
  BY <1>1, <1>3, <1>6, <1>7, <1>8, Zenon DEF EpisodeInv, GuidanceInv
<1>. QED
  BY <1>3, <1>4, <1>9, Zenon DEF EpisodeInv

\* The first of a batch, and the rest.
LEMMA BatchSplits ==
  ASSUME NEW q \in Seq(Guidance), q # <<>>, Increasing(q)
  PROVE  /\ Head(q) \in Guidance /\ Tail(q) \in Seq(Guidance) /\ Increasing(Tail(q))
         /\ \A g : In(g, q) <=> g = Head(q) \/ In(g, Tail(q))
         /\ \A i \in DOMAIN q : ~(q[i] < Head(q))
         /\ \A i \in DOMAIN Tail(q) : \E j \in DOMAIN q : Tail(q)[i] = q[j]
         /\ In(Head(q), q) /\ \E i \in DOMAIN q : q[i] = Head(q)
<1> DEFINE t == Tail(q)
           n == Len(q)
<1>1. /\ n \in Nat /\ n > 0 /\ DOMAIN q = 1..n /\ Head(q) = q[1] /\ 1 \in DOMAIN q
      /\ \A i \in DOMAIN q : q[i] \in Guidance
  OBVIOUS
<1>2. t \in Seq(Guidance) /\ DOMAIN t = 1..(n - 1) /\ \A i \in 1..(n - 1) : t[i] = q[i + 1]
  OBVIOUS
<1> HIDE DEF t, n
<1>3. \A i \in 1..(n - 1) : i + 1 \in 1..n
  BY <1>1
<1>4. \A i \in 1..n : i # 1 => i - 1 \in 1..(n - 1) /\ (i - 1) + 1 = i
  BY <1>1
<1>5. \A i, j \in 1..(n - 1) : i < j => i + 1 < j + 1
  BY <1>1
<1>6. Increasing(t)
  BY <1>1, <1>2, <1>3, <1>5, Zenon DEF Increasing
<1>7. \A g : In(g, q) <=> g = Head(q) \/ In(g, t)
  <2> TAKE g
  <2>1. In(g, q) => g = Head(q) \/ In(g, t)
    <3> SUFFICES ASSUME NEW i \in 1..n, q[i] = g, i # 1 PROVE \E j \in DOMAIN t : t[j] = g
      BY <1>1, Zenon DEF In
    <3>1. i - 1 \in DOMAIN t /\ t[i - 1] = q[(i - 1) + 1] /\ (i - 1) + 1 = i
      BY <1>2, <1>4, Zenon
    <3>. QED
      BY <3>1, Zenon
  <2>2. g = Head(q) \/ In(g, t) => In(g, q)
    BY <1>1, <1>2, <1>3, Zenon DEF In
  <2>. QED
    BY <2>1, <2>2, Zenon
<1>8. \A i \in DOMAIN q : ~(q[i] < Head(q))
  <2> TAKE i \in DOMAIN q
  <2>1. q[i] \in Nat /\ q[1] \in Nat
    BY <1>1, GuidanceAssumption, Zenon
  <2>2. i = 1 \/ 1 < i
    BY <1>1
  <2>3. q[i] = q[1] \/ q[1] < q[i]
    BY <1>1, <2>2, Zenon DEF Increasing
  <2>. QED
    BY <1>1, <2>1, <2>3
<1>9. \A i \in DOMAIN t : \E j \in DOMAIN q : t[i] = q[j]
  BY <1>1, <1>2, <1>3, Zenon
<1>. QED
  BY <1>1, <1>2, <1>6, <1>7, <1>8, <1>9, Zenon DEF t, In

\* A row that is journaled already is skipped.
LEMMA SkipGuidanceInv ==
  ASSUME EpisodeInv, JournalGuidance, Head(batch) \in mem.guidanceIds
  PROVE  EpisodeInv'
<1>1. /\ log' = log /\ mem' = mem /\ messages' = messages /\ pc = "journal" /\ pc' = pc
      /\ calls' = calls /\ answer' = answer /\ sent' = sent /\ acked' = acked
      /\ batch # <<>> /\ batch' = Tail(batch) /\ pulled' = pulled
  BY Zenon DEF JournalGuidance, appendGuidance, journal, broker
<1>2. mem = J /\ messages = J.messages
  BY <1>1, AtLive, Zenon DEF Live
<1>3. JournalInv' /\ J' = J
  BY <1>1, <1>2, JournalStill, Zenon DEF EpisodeInv
<1>4. ControlInv'
  BY <1>1, <1>3, Zenon DEF EpisodeInv, ControlInv, Live
<1>5. /\ batch \in Seq(Guidance) /\ Increasing(batch)
      /\ \A g \in pulled : g \in J.guidanceIds \/ In(g, batch)
      /\ \A i \in DOMAIN batch : \A h \in Guidance :
           h < batch[i] => h \in J.guidanceIds \/ In(h, batch)
  BY <1>1, Zenon DEF EpisodeInv, GuidanceInv
<1>6. /\ Head(batch) \in Guidance /\ Tail(batch) \in Seq(Guidance) /\ Increasing(Tail(batch))
      /\ \A g : In(g, batch) <=> g = Head(batch) \/ In(g, Tail(batch))
      /\ \A i \in DOMAIN Tail(batch) : \E j \in DOMAIN batch : Tail(batch)[i] = batch[j]
  BY <1>1, <1>5, BatchSplits, Zenon
<1>7. /\ \A g \in pulled : g \in J.guidanceIds \/ In(g, batch')
      /\ \A i \in DOMAIN batch' : \A h \in Guidance :
           h < batch'[i] => h \in J.guidanceIds \/ In(h, batch')
  BY <1>1, <1>2, <1>5, <1>6, Zenon
<1>8. GuidanceInv'
  BY <1>1, <1>3, <1>6, <1>7, Zenon DEF EpisodeInv, GuidanceInv
<1>. QED
  BY <1>3, <1>4, <1>8, Zenon DEF EpisodeInv

\* A row that is not journaled yet is newer than all that are.
LEMMA WriteGuidanceInv ==
  ASSUME EpisodeInv, JournalGuidance, Head(batch) \notin mem.guidanceIds
  PROVE  EpisodeInv'
<1> DEFINE g == Head(batch)
           ids == J.guidanceIds
<1>1. /\ pc = "journal" /\ pc' = pc /\ appendGuidance(g)
      /\ calls' = calls /\ answer' = answer /\ sent' = sent /\ acked' = acked
      /\ batch # <<>> /\ batch' = Tail(batch) /\ pulled' = pulled
  BY Zenon DEF JournalGuidance, broker
<1>2. /\ mem = J /\ messages = J.messages /\ J \in State /\ J.valid /\ J.finished = NoBody
      /\ J.pendingTools = {}
  BY <1>1, AtLive, Zenon DEF Live, EpisodeInv, ControlInv
<1>3. /\ batch \in Seq(Guidance) /\ Increasing(batch)
      /\ \A x \in pulled : x \in ids \/ In(x, batch)
      /\ \A i \in DOMAIN batch : \A h \in Guidance : h < batch[i] => h \in ids \/ In(h, batch)
  BY <1>1, Zenon DEF EpisodeInv, GuidanceInv
<1>4. /\ g \in Guidance /\ Tail(batch) \in Seq(Guidance) /\ Increasing(Tail(batch))
      /\ \A x : In(x, batch) <=> x = g \/ In(x, Tail(batch))
      /\ \A i \in DOMAIN batch : ~(batch[i] < g)
      /\ \A i \in DOMAIN Tail(batch) : \E j \in DOMAIN batch : Tail(batch)[i] = batch[j]
      /\ \E i \in DOMAIN batch : batch[i] = g
  BY <1>1, <1>3, BatchSplits, Zenon
<1>5. g \notin ids /\ ids \in SUBSET Guidance /\ J.messages \in Seq(Msg)
  BY <1>2 DEF State
<1> HIDE DEF g
<1>6. /\ log' \in Seq(Record)
      /\ J' = [J EXCEPT !.guidanceIds = @ \cup {g}, !.messages = Append(@, Guide(g))]
      /\ mem' = J' /\ messages' = J'.messages
  BY <1>1, <1>2, <1>4, <1>5, AppendGuidanceIs, Zenon DEF EpisodeInv
<1>7. \A h \in ids : h < g
  <2> TAKE h \in ids
  <2>1. h \in Nat /\ g \in Nat /\ h # g
    BY <1>4, <1>5, GuidanceAssumption, Zenon
  <2>2. ~(g < h)
    BY <1>4, <1>5, Zenon DEF EpisodeInv, GuidanceInv, Closed
  <2>. QED
    BY <2>1, <2>2
<1>8. \A h \in Guidance : h < g => h \in ids
  <2> SUFFICES ASSUME NEW h \in Guidance, h < g PROVE h \in ids
    BY Zenon
  <2>1. h \in ids \/ In(h, batch)
    BY <1>3, <1>4, Zenon
  <2>2. ~In(h, batch)
    BY <1>4, Zenon DEF In
  <2>. QED
    BY <2>1, <2>2, Zenon
<1>9. /\ Append(J.messages, Guide(g)) \in Seq(Msg)
      /\ Known(Append(J.messages, Guide(g)), ids \cup {g})
      /\ Ordered(Append(J.messages, Guide(g)))
  BY <1>4, <1>5, <1>7, NewestGuidance, Zenon DEF EpisodeInv, GuidanceInv
<1>10. /\ J' \in State /\ J'.valid /\ J'.messages = Append(J.messages, Guide(g))
       /\ J'.guidanceIds = ids \cup {g} /\ J'.pendingTools = {} /\ J'.finished = NoBody
  BY ZenonT(30), <1>2, <1>4, <1>6, <1>9 DEF State
<1>11. JournalInv'
  BY <1>6, <1>10, JournalWrites, Zenon
<1>12. ControlInv'
  BY <1>1, <1>10, Zenon DEF EpisodeInv, ControlInv, Live
<1>13. Closed(ids \cup {g})
  BY <1>8, Zenon DEF EpisodeInv, GuidanceInv, Closed
<1>14. /\ \A x \in pulled : x \in ids \cup {g} \/ In(x, batch')
       /\ \A i \in DOMAIN batch' : \A h \in Guidance :
            h < batch'[i] => h \in ids \cup {g} \/ In(h, batch')
  BY <1>1, <1>3, <1>4, Zenon
<1>15. acked \subseteq ids /\ sent \subseteq Guidance /\ Closed(sent)
  BY Zenon DEF EpisodeInv, GuidanceInv
<1> HIDE DEF ids
<1>16. GuidanceInv'
  BY <1>1, <1>4, <1>9, <1>10, <1>13, <1>14, <1>15, Zenon DEF GuidanceInv
<1>. QED
  BY <1>11, <1>12, <1>16, Zenon DEF EpisodeInv

\* Steps that change only where the loop stands.
LEMMA MoveInv ==
  ASSUME EpisodeInv, Live, pc' # "down", log' = log, mem' = mem, messages' = messages, calls' = calls,
         answer' = answer, batch' = batch, sent' = sent, acked' = acked,
         pc' \notin {"mandate", "journal", "ack"},
         pc' \in {"running", "ran"} => pc \in {"running", "ran"},
         pc' = "dispatch" => pc = "dispatch",
         pc \in {"running", "ran"} => pc' \in {"running", "ran", "exit"}
  PROVE  EpisodeInv'
<1>1. mem = J /\ messages = J.messages
  BY AtLive, Zenon
<1>2. JournalInv' /\ J' = J
  BY <1>1, JournalStill, Zenon DEF EpisodeInv
<1>3. ControlInv'
  BY <1>2, Zenon DEF EpisodeInv, ControlInv, Live
<1>4. GuidanceInv'
  BY <1>2, GuidanceStill, Zenon DEF EpisodeInv, GuidanceInv
<1>. QED
  BY <1>2, <1>3, <1>4, Zenon DEF EpisodeInv

\* The batch is journaled: what was pulled may be acknowledged.
LEMMA GuidanceJournaledInv == ASSUME EpisodeInv, GuidanceJournaled PROVE EpisodeInv'
<1>1. /\ log' = log /\ mem' = mem /\ messages' = messages /\ pc = "journal"
      /\ calls' = calls /\ answer' = answer /\ sent' = sent /\ acked' = acked
      /\ batch = <<>> /\ batch' = batch /\ pulled' = pulled
  BY Zenon DEF GuidanceJournaled, journal, broker, loop
<1>2. pc' \in {"ack", "exit", "complete"}
  BY Zenon DEF GuidanceJournaled, AfterGuidance
<1>3. CASE pc' # "ack"
  BY <1>1, <1>2, <1>3, MoveInv, Zenon DEF Live
<1>4. CASE pc' = "ack"
  <2>1. mem = J /\ messages = J.messages
    BY <1>1, AtLive, Zenon DEF Live
  <2>2. JournalInv' /\ J' = J
    BY <1>1, <2>1, JournalStill, Zenon DEF EpisodeInv
  <2>3. ControlInv'
    BY <1>1, <1>4, <2>2, Zenon DEF EpisodeInv, ControlInv, Live
  <2>4. \A g : ~In(g, <<>>)
    BY DEF In
  <2>5. pulled \subseteq J.guidanceIds
    BY <1>1, <2>4, Zenon DEF EpisodeInv, GuidanceInv
  <2>6. GuidanceInv'
    BY <1>1, <1>4, <2>2, <2>5, Zenon DEF EpisodeInv, GuidanceInv
  <2>. QED
    BY <2>2, <2>3, <2>6, Zenon DEF EpisodeInv
<1>. QED
  BY <1>3, <1>4, Zenon

\* Only journaled rows are acknowledged.
LEMMA AckReturnsInv == ASSUME EpisodeInv, NEW r \in BOOLEAN, AckReturns(r) PROVE EpisodeInv'
<1>1. /\ log' = log /\ mem' = mem /\ messages' = messages /\ pc = "ack"
      /\ calls' = calls /\ answer' = answer /\ sent' = sent /\ acked' = acked \cup pulled
      /\ batch' = batch /\ pc' \in {"exit", "complete"}
  BY Zenon DEF AckReturns, AfterGuidance, journal, loop
<1>2. mem = J /\ messages = J.messages
  BY <1>1, AtLive, Zenon DEF Live
<1>3. JournalInv' /\ J' = J
  BY <1>1, <1>2, JournalStill, Zenon DEF EpisodeInv
<1>4. ControlInv'
  BY <1>1, <1>3, Zenon DEF EpisodeInv, ControlInv, Live
<1>5. acked' \subseteq J.guidanceIds
  BY <1>1, Zenon DEF EpisodeInv, GuidanceInv
<1>6. GuidanceInv'
  BY <1>1, <1>3, <1>5, Zenon DEF EpisodeInv, GuidanceInv
<1>. QED
  BY <1>3, <1>4, <1>6, Zenon DEF EpisodeInv

\* A list of calls is a sequence of them.
LEMMA RequestsAre == \A c \in Requests : c \in Seq(Request)
<1> SUFFICES ASSUME NEW n \in 0..MaxCalls, NEW c \in [1..n -> Request] PROVE c \in Seq(Request)
  BY Zenon DEF Requests
<1>1. n \in Nat
  BY LimitAssumption
<1>. QED
  BY <1>1

\* The assistant message is journaled before any of it is acted on.
LEMMA CompleteReturnsInv ==
  ASSUME EpisodeInv, NEW c \in Requests, NEW b \in Body \cup {NoBody}, CompleteReturns(c, b)
  PROVE  EpisodeInv'
<1>1. /\ pc = "complete" /\ appendMessage(Assistant(c)) /\ calls' = c /\ answer' = b
      /\ batch' = batch /\ sent' = sent /\ acked' = acked
      /\ pc' \in {"dispatch", "exit", "custody"} /\ (pc' = "dispatch" => c # <<>>)
  BY Zenon DEF CompleteReturns, broker
<1>2. /\ mem = J /\ messages = J.messages /\ J \in State /\ J.valid /\ J.finished = NoBody
      /\ J.pendingTools = {}
  BY <1>1, AtLive, Zenon DEF Live, EpisodeInv, ControlInv
<1>3. c \in Seq(Request)
  BY RequestsAre, Zenon
<1>4. Assistant(c) \in Msg /\ Assistant(c).kind # "guidance"
  BY <1>3, MessageTypes, Zenon
<1>5. /\ log' \in Seq(Record) /\ J' = [J EXCEPT !.messages = Append(@, Assistant(c))]
      /\ mem' = J' /\ messages' = J'.messages
  BY <1>1, <1>2, <1>4, AppendMessageIs, Zenon DEF EpisodeInv
<1>6. /\ J' = [J EXCEPT !.pendingTools = {}, !.messages = Append(@, Assistant(c))]
      /\ J'.finished = NoBody /\ J'.pendingTools = {}
  BY ZenonT(30), <1>2, <1>5 DEF State
<1>7. batch' \in Seq(Guidance) /\ {} \in SUBSET Call
  BY <1>1, Zenon DEF EpisodeInv, GuidanceInv
<1>8. J' \in State /\ J'.valid /\ GuidanceInv'
  BY <1>1, <1>4, <1>6, <1>7, MessageWritten, Zenon DEF EpisodeInv
<1>9. JournalInv'
  BY <1>5, <1>8, JournalWrites, Zenon
<1>10. ControlInv'
  BY <1>1, <1>3, <1>6, Zenon DEF ControlInv, MaybeBody
<1>. QED
  BY <1>8, <1>9, <1>10, Zenon DEF EpisodeInv

\* The first of a sequence, and the rest.
LEMMA SeqSplits ==
  ASSUME NEW S, NEW q \in Seq(S), q # <<>>
  PROVE  Head(q) \in S /\ Tail(q) \in Seq(S) /\ (Len(q) > 1 => Tail(q) # <<>>)
<1>1. Head(q) \in S
  OBVIOUS
<1>2. Tail(q) \in Seq(S) /\ Len(Tail(q)) = Len(q) - 1
  OBVIOUS
<1>3. Len(q) \in Nat /\ Len(<<>>) = 0
  OBVIOUS
<1>4. \A n \in Nat : n > 1 => n - 1 # 0
  OBVIOUS
<1>. QED
  BY <1>1, <1>2, <1>3, <1>4, Zenon

\* After a call comes the next one, the next turn, or the end.
LEMMA PopIs ==
  ASSUME calls \in Seq(Request), calls # <<>>, PopCall
  PROVE  /\ calls' \in Seq(Request) /\ pc' \in {"dispatch", "pull", "exit"}
         /\ pc' = "dispatch" => calls' # <<>>
<1>1. Tail(calls) \in Seq(Request) /\ (Len(calls) > 1 => Tail(calls) # <<>>)
  BY SeqSplits, Zenon
<1>. QED
  BY <1>1, Zenon DEF PopCall, NextTurn

\* The call at the head.
LEMMA HeadCall ==
  ASSUME calls \in Seq(Request), calls # <<>>
  PROVE  Head(calls).id \in Call
<1>1. Head(calls) \in Request
  BY SeqSplits, Zenon
<1>. QED
  BY <1>1 DEF Request

\* A call that only answers.
LEMMA DispatchOtherInv == ASSUME EpisodeInv, DispatchOther PROVE EpisodeInv'
<1> DEFINE i == Head(calls).id
<1>1. /\ pc = "dispatch" /\ appendMessage(Tool(i)) /\ PopCall /\ answer' = answer
      /\ batch' = batch /\ sent' = sent /\ acked' = acked
  BY Zenon DEF DispatchOther, broker
<1>2. /\ mem = J /\ messages = J.messages /\ J \in State /\ J.valid /\ J.finished = NoBody
      /\ J.pendingTools = {}
  BY <1>1, AtLive, Zenon DEF Live, EpisodeInv, ControlInv
<1>3. calls \in Seq(Request) /\ calls # <<>>
  BY <1>1, Zenon DEF EpisodeInv, ControlInv
<1>4. /\ calls' \in Seq(Request) /\ pc' \in {"dispatch", "pull", "exit"}
      /\ pc' = "dispatch" => calls' # <<>>
  BY <1>1, <1>3, PopIs, Zenon
<1>5. Tool(i) \in Msg /\ Tool(i).kind # "guidance"
  BY <1>3, HeadCall, MessageTypes, Zenon
<1> HIDE DEF i
<1>6. /\ log' \in Seq(Record) /\ J' = [J EXCEPT !.messages = Append(@, Tool(i))]
      /\ mem' = J' /\ messages' = J'.messages
  BY <1>1, <1>2, <1>5, AppendMessageIs, Zenon DEF EpisodeInv
<1>7. /\ J' = [J EXCEPT !.pendingTools = {}, !.messages = Append(@, Tool(i))]
      /\ J'.finished = NoBody /\ J'.pendingTools = {}
  BY ZenonT(30), <1>2, <1>6 DEF State
<1>8. batch' \in Seq(Guidance) /\ {} \in SUBSET Call
  BY <1>1, Zenon DEF EpisodeInv, GuidanceInv
<1>9. J' \in State /\ J'.valid /\ GuidanceInv'
  BY <1>1, <1>4, <1>5, <1>7, <1>8, MessageWritten, Zenon DEF EpisodeInv
<1>10. JournalInv'
  BY <1>6, <1>9, JournalWrites, Zenon
<1>11. ControlInv'
  BY <1>1, <1>4, <1>7, Zenon DEF EpisodeInv, ControlInv
<1>. QED
  BY <1>9, <1>10, <1>11, Zenon DEF EpisodeInv

\* A run is journaled as prepared before it executes.
LEMMA DispatchRunInv == ASSUME EpisodeInv, DispatchRun PROVE EpisodeInv'
<1> DEFINE i == Head(calls).id
<1>1. /\ pc = "dispatch" /\ i \notin mem.pendingTools /\ prepareTool(i) /\ pc' = "running"
      /\ calls' = calls /\ answer' = answer /\ batch' = batch /\ sent' = sent /\ acked' = acked
  BY Zenon DEF DispatchRun, broker, loop
<1>2. /\ mem = J /\ messages = J.messages /\ J \in State /\ J.valid /\ J.finished = NoBody
      /\ J.pendingTools = {}
  BY <1>1, AtLive, Zenon DEF Live, EpisodeInv, ControlInv
<1>3. calls \in Seq(Request) /\ calls # <<>> /\ answer \in MaybeBody
  BY <1>1, Zenon DEF EpisodeInv, ControlInv
<1>4. i \in Call
  BY <1>3, HeadCall, Zenon
<1>5. /\ log' \in Seq(Record) /\ J' = [J EXCEPT !.pendingTools = @ \cup {i}]
      /\ mem' = J' /\ messages' = messages
  BY <1>1, <1>2, <1>4, PrepareToolIs, Zenon DEF EpisodeInv
<1>6. /\ J' \in State /\ J'.valid /\ J'.messages = J.messages /\ J'.guidanceIds = J.guidanceIds
      /\ J'.finished = NoBody /\ J'.pendingTools = {i}
  <2> HIDE DEF i
  <2>. QED
    BY ZenonT(30), <1>2, <1>4, <1>5 DEF State
<1>7. JournalInv'
  BY <1>2, <1>5, <1>6, JournalWrites, Zenon
<1>8. ControlInv'
  BY <1>1, <1>3, <1>6, Zenon DEF ControlInv
<1>9. batch' \in Seq(Guidance)
  BY <1>1, Zenon DEF EpisodeInv, GuidanceInv
<1>10. GuidanceInv'
  BY <1>1, <1>6, <1>9, OpenWritten, Zenon DEF EpisodeInv
<1>. QED
  BY <1>7, <1>8, <1>10, Zenon DEF EpisodeInv

\* The result of a run closes its preparation.
LEMMA ToolReturnsInv == ASSUME EpisodeInv, ToolReturns PROVE EpisodeInv'
<1> DEFINE i == Head(calls).id
<1>1. /\ pc = "ran" /\ completeTool(i) /\ PopCall /\ answer' = answer
      /\ batch' = batch /\ sent' = sent /\ acked' = acked
  BY Zenon DEF ToolReturns, broker
<1>2. /\ mem = J /\ messages = J.messages /\ J \in State /\ J.valid /\ J.finished = NoBody
      /\ J.pendingTools = {i}
  BY <1>1, AtLive, Zenon DEF Live, EpisodeInv, ControlInv
<1>3. calls \in Seq(Request) /\ calls # <<>>
  BY <1>1, Zenon DEF EpisodeInv, ControlInv
<1>4. /\ calls' \in Seq(Request) /\ pc' \in {"dispatch", "pull", "exit"}
      /\ pc' = "dispatch" => calls' # <<>>
  BY <1>1, <1>3, PopIs, Zenon
<1>5. i \in Call
  BY <1>3, HeadCall, Zenon
<1> HIDE DEF i
<1>6. Tool(i) \in Msg /\ Tool(i).kind # "guidance"
  BY <1>5, MessageTypes, Zenon
<1>7. /\ log' \in Seq(Record)
      /\ J' = [J EXCEPT !.pendingTools = @ \ {i}, !.messages = Append(@, Tool(i))]
      /\ mem' = J' /\ messages' = J'.messages
  BY <1>1, <1>2, <1>5, CompleteToolIs, Zenon DEF EpisodeInv
<1>8. /\ J' = [J EXCEPT !.pendingTools = {}, !.messages = Append(@, Tool(i))]
      /\ J'.finished = NoBody /\ J'.pendingTools = {}
  BY ZenonT(30), <1>2, <1>7 DEF State
<1>9. batch' \in Seq(Guidance) /\ {} \in SUBSET Call
  BY <1>1, Zenon DEF EpisodeInv, GuidanceInv
<1>10. J' \in State /\ J'.valid /\ GuidanceInv'
  BY <1>1, <1>4, <1>6, <1>8, <1>9, MessageWritten, Zenon DEF EpisodeInv
<1>11. JournalInv'
  BY <1>7, <1>10, JournalWrites, Zenon
<1>12. ControlInv'
  BY <1>1, <1>4, <1>8, Zenon DEF EpisodeInv, ControlInv
<1>. QED
  BY <1>10, <1>11, <1>12, Zenon DEF EpisodeInv

\* A finish is journaled before it is delivered.
LEMMA PrepareFinishInv == ASSUME EpisodeInv, PrepareFinish PROVE EpisodeInv'
<1>1. /\ pc \in {"prepare", "custody"} /\ calls' = calls /\ answer' = answer /\ batch' = batch
      /\ sent' = sent /\ acked' = acked
  BY Zenon DEF PrepareFinish, ReadyToPrepare, broker, loop
<1>2. CASE Conflicting(answer)
  <2>1. pc' = "exit" /\ log' = log /\ mem' = mem /\ messages' = messages
    BY <1>2, Zenon DEF PrepareFinish, journal
  <2>. QED
    BY <1>1, <2>1, MoveInv, Zenon DEF Live
<1>3. CASE ~Conflicting(answer)
  <2>1. pc' = "finish" /\ prepareFinish(answer)
    BY <1>3, Zenon DEF PrepareFinish
  <2>2. /\ mem = J /\ messages = J.messages /\ J \in State /\ J.valid /\ J.finished = NoBody
        /\ J.pendingTools = {} /\ answer \in MaybeBody /\ calls \in Seq(Request)
    BY <1>1, AtLive, Zenon DEF Live, EpisodeInv, ControlInv
  <2>3. /\ log' \in Seq(Record) /\ J' \in State /\ mem' = J' /\ messages' = messages
        /\ J' = J \/ J' = [J EXCEPT !.pendingFinish = answer]
    BY <1>3, <2>1, <2>2, PrepareFinishIs, Zenon DEF EpisodeInv
  <2>4. /\ J'.valid /\ J'.messages = J.messages /\ J'.guidanceIds = J.guidanceIds
        /\ J'.finished = NoBody /\ J'.pendingTools = {}
    BY <2>2, <2>3 DEF State
  <2>5. JournalInv'
    BY <2>2, <2>3, <2>4, JournalWrites, Zenon
  <2>6. ControlInv'
    BY <1>1, <2>1, <2>2, <2>4, Zenon DEF ControlInv
  <2>7. batch' \in Seq(Guidance)
    BY <1>1, Zenon DEF EpisodeInv, GuidanceInv
  <2>8. GuidanceInv'
    BY <1>1, <2>1, <2>3, <2>4, <2>7, OpenWritten, Zenon DEF EpisodeInv
  <2>. QED
    BY <2>5, <2>6, <2>8, Zenon DEF EpisodeInv
<1>. QED
  BY <1>2, <1>3, Zenon

\* A delivered finish is journaled, or left to the next life.
LEMMA FinishReturnsInv == ASSUME EpisodeInv, NEW r \in BOOLEAN, FinishReturns(r) PROVE EpisodeInv'
<1>1. /\ pc = "finish" /\ pc' = "exit" /\ calls' = calls /\ answer' = answer /\ batch' = batch
      /\ sent' = sent /\ acked' = acked
  BY Zenon DEF FinishReturns, loop
<1>2. CASE ~(r /\ mem.pendingFinish = Delivering)
  <2>1. log' = log /\ mem' = mem /\ messages' = messages
    BY <1>2, Zenon DEF FinishReturns, journal
  <2>. QED
    BY <1>1, <2>1, MoveInv, Zenon DEF Live
<1>3. CASE r /\ mem.pendingFinish = Delivering
  <2>1. completeFinish
    BY <1>3, Zenon DEF FinishReturns
  <2>2. /\ mem = J /\ messages = J.messages /\ J \in State /\ J.valid /\ J.finished = NoBody
        /\ J.pendingTools = {} /\ answer \in MaybeBody /\ calls \in Seq(Request)
    BY <1>1, AtLive, Zenon DEF Live, EpisodeInv, ControlInv
  <2>3. /\ log' \in Seq(Record)
        /\ J' = [J EXCEPT !.pendingFinish = NoBody, !.finished = J.pendingFinish]
        /\ mem' = J' /\ messages' = messages
    BY <2>1, <2>2, CompleteFinishIs, Zenon DEF EpisodeInv
  <2>4. /\ J' \in State /\ J'.valid /\ J'.messages = J.messages
        /\ J'.guidanceIds = J.guidanceIds
    BY ZenonT(30), <2>2, <2>3 DEF State, MaybeBody
  <2>5. JournalInv'
    BY <2>2, <2>3, <2>4, JournalWrites, Zenon
  <2>6. ControlInv'
    BY <1>1, <2>2, Zenon DEF ControlInv, Live
  <2>7. batch' \in Seq(Guidance)
    BY <1>1, Zenon DEF EpisodeInv, GuidanceInv
  <2>8. GuidanceInv'
    BY <1>1, <2>4, <2>7, OpenWritten, Zenon DEF EpisodeInv
  <2>. QED
    BY <2>5, <2>6, <2>8, Zenon DEF EpisodeInv
<1>. QED
  BY <1>2, <1>3, Zenon

\* Steps of the loop that write nothing.
LEMMA QuietInv ==
  ASSUME EpisodeInv, CallFails \/ Execute \/ \E r \in BOOLEAN : Upload(r)
  PROVE  EpisodeInv'
<1>1. CASE Execute
  BY <1>1, MoveInv, Zenon DEF Execute, Live, journal, loop, broker
<1>2. ASSUME NEW r \in BOOLEAN, Upload(r) PROVE EpisodeInv'
  <2>1. /\ pc = "custody" /\ pc' \in {"prepare", "exit"} /\ log' = log /\ mem' = mem
        /\ messages' = messages /\ calls' = calls /\ answer' = answer /\ batch' = batch
        /\ sent' = sent /\ acked' = acked
    BY <1>2, Zenon DEF Upload, journal, loop
  <2>. QED
    BY <2>1, MoveInv, Zenon DEF Live
<1>3. CASE CallFails
  <2>1. /\ pc \in Awaiting /\ pc' = "exit" /\ log' = log /\ mem' = mem
        /\ messages' = messages /\ calls' = calls /\ answer' = answer /\ batch' = batch
        /\ sent' = sent /\ acked' = acked
    BY <1>3, Zenon DEF CallFails, journal, loop, broker
  <2>2. CASE pc # "source"
    BY <2>1, <2>2, MoveInv, Zenon DEF Live, Awaiting
  <2>3. CASE pc = "source"
    <3>1. JournalInv' /\ J' = J
      BY <2>1, <2>3, JournalStill, Zenon DEF EpisodeInv, JournalInv, Live
    <3>2. ControlInv' /\ GuidanceInv'
      BY <2>1, <3>1, GuidanceStill, Zenon DEF EpisodeInv, ControlInv, GuidanceInv, Live
    <3>. QED
      BY <3>1, <3>2, Zenon DEF EpisodeInv
  <2>. QED
    BY <2>2, <2>3, Zenon
<1>. QED
  BY <1>1, <1>2, <1>3, Zenon

\* The dispatcher's steps.
LEMMA DispatcherInv ==
  ASSUME EpisodeInv,
         (\E g \in Guidance : sendToWorker(g)) \/ (\E x \in {"dismissed", "failed"} : Revoke(x))
  PROVE  EpisodeInv'
<1>1. /\ log' = log /\ mem' = mem /\ messages' = messages /\ calls' = calls /\ answer' = answer
      /\ batch' = batch /\ acked' = acked /\ pc' = pc /\ pulled' = pulled
  BY Zenon DEF sendToWorker, Revoke, journal, loop
<1>2. sent' \subseteq Guidance /\ Closed(sent')
  <2>1. sent \subseteq Guidance /\ Closed(sent)
    BY Zenon DEF EpisodeInv, GuidanceInv
  <2>2. ASSUME NEW g \in Guidance, sendToWorker(g) PROVE sent' \subseteq Guidance /\ Closed(sent')
    BY <2>1, <2>2, Zenon DEF sendToWorker, Closed
  <2>3. ASSUME NEW x \in {"dismissed", "failed"}, Revoke(x) PROVE sent' = sent
    BY <2>3, Zenon DEF Revoke
  <2>. QED
    BY <2>1, <2>2, <2>3, Zenon
<1>3. J' = J /\ Live' = Live
  BY <1>1, Zenon DEF J, Live
<1>4. JournalInv' /\ ControlInv'
  BY <1>1, <1>3, Zenon DEF EpisodeInv, JournalInv, ControlInv
<1>5. GuidanceInv'
  BY <1>1, <1>2, <1>3, Zenon DEF EpisodeInv, GuidanceInv
<1>. QED
  BY <1>4, <1>5, Zenon DEF EpisodeInv

\* A step that leaves the episode alone.
LEMMA StutterInv == ASSUME EpisodeInv, UNCHANGED vars PROVE EpisodeInv'
<1>1. /\ log' = log /\ mem' = mem /\ messages' = messages /\ calls' = calls /\ answer' = answer
      /\ batch' = batch /\ acked' = acked /\ pc' = pc /\ pulled' = pulled /\ sent' = sent
  BY Zenon DEF vars, journal, loop, broker
<1>2. J' = J /\ Live' = Live
  BY <1>1, Zenon DEF J, Live
<1>. QED
  BY <1>1, <1>2, Zenon DEF EpisodeInv, JournalInv, ControlInv, GuidanceInv

\* Every step keeps the invariant.
LEMMA StepInv == ASSUME EpisodeInv, [Next]_vars PROVE EpisodeInv'
<1>1. CASE Boot
  BY <1>1, BootInv, Zenon
<1>2. CASE Process
  <2>1. CASE Exit
    BY <2>1, ForgetInv, Zenon DEF Exit, journal, broker
  <2>2. CASE JournalGuidance
    BY <2>2, SkipGuidanceInv, WriteGuidanceInv, Zenon
  <2>3. ASSUME NEW r \in BOOLEAN, AckReturns(r) \/ Upload(r) \/ FinishReturns(r) PROVE EpisodeInv'
    BY <2>3, AckReturnsInv, QuietInv, FinishReturnsInv, Zenon
  <2>4. ASSUME NEW c \in Requests, NEW b \in Body \cup {NoBody}, CompleteReturns(c, b)
        PROVE  EpisodeInv'
    BY <2>4, CompleteReturnsInv, Zenon
  <2>. QED
    BY <1>2, <2>1, <2>2, <2>3, <2>4, SourceReturnsInv, MandateReturnsInv, PullReturnsInv,
       GuidanceJournaledInv, DispatchOtherInv, DispatchRunInv, QuietInv, ToolReturnsInv,
       PrepareFinishInv, ZenonT(30) DEF Process
<1>3. ASSUME NEW p \in BOOLEAN, Crash(p) PROVE EpisodeInv'
  BY <1>3, ForgetInv, Zenon DEF Crash, broker
<1>. QED
  BY <1>1, <1>2, <1>3, DispatcherInv, StutterInv, Zenon DEF Next

\* A fresh mailbox and no journal.
LEMMA InitInv == ASSUME Init PROVE EpisodeInv
<1>1. J = Blank
  BY ReduceEmpty, Zenon DEF Init, J
<1>2. Blank \in State /\ Blank.valid /\ Blank.messages = <<>> /\ Blank.guidanceIds = {}
  BY DEF Blank, State, MaybeBody
<1>3. <<>> \in Seq(Record) /\ <<>> \in Seq(Request) /\ <<>> \in Seq(Guidance)
  OBVIOUS
<1>4. Known(<<>>, {}) /\ Ordered(<<>>)
  BY DEF Known, Ordered
<1>5. JournalInv
  BY <1>1, <1>2, <1>3, Zenon DEF Init, JournalInv, Live
<1>6. ControlInv
  BY <1>1, <1>2, <1>3, Zenon DEF Init, ControlInv, Live, MaybeBody
<1>7. GuidanceInv
  BY <1>1, <1>2, <1>3, <1>4, Zenon DEF Init, GuidanceInv, Closed
<1>. QED
  BY <1>5, <1>6, <1>7, Zenon DEF EpisodeInv

-----------------------------------------------------------------------------
(* The theorems.                                                           *)

\* The inductive invariant of the episode holds in every reachable state.
THEOREM EpisodeInvariance == Spec => []EpisodeInv
<1>1. Init => EpisodeInv
  BY InitInv, Zenon
<1>2. EpisodeInv /\ [Next]_vars => EpisodeInv'
  BY StepInv, Zenon
<1>. QED
  BY <1>1, <1>2, PTL DEF Spec

\* reduce() accepts every journal that append() wrote, torn tail aside, and
\* what a running process holds is what a restart would read back: for every
\* number of messages, tool calls, turns, lives and failures.
THEOREM EpisodeJournalReplays == Spec => []JournalReplays
<1>1. EpisodeInv => JournalReplays
  <2> SUFFICES ASSUME EpisodeInv PROVE JournalReplays
    BY Zenon
  <2>1. reduce(log) = J
    BY Zenon DEF J
  <2>. QED
    BY <2>1, Zenon DEF JournalReplays, EpisodeInv, JournalInv, Live
<1>. QED
  BY <1>1, EpisodeInvariance, PTL

\* Guidance is acknowledged only once it is journaled, and reaches the
\* transcript once and in mailbox order, however often a pull repeats it.
THEOREM EpisodeGuidanceOnce == Spec => []GuidanceOnce
<1>1. EpisodeInv => GuidanceOnce
  <2> SUFFICES ASSUME EpisodeInv PROVE GuidanceOnce
    BY Zenon
  <2>1. reduce(log) = J
    BY Zenon DEF J
  <2>2. Ordered(<<>>)
    BY DEF Ordered
  <2>3. Ordered(messages) /\ Ordered(J.messages) /\ acked \subseteq J.guidanceIds
    BY <2>2, Zenon DEF EpisodeInv, JournalInv, GuidanceInv
  <2>. QED
    BY <2>1, <2>3, Zenon DEF GuidanceOnce, Ordered
<1>. QED
  BY <1>1, EpisodeInvariance, PTL

\* A tool that was prepared and has no result ends the episode for good: the
\* process that finds it neither writes to the journal nor executes anything.
THEOREM EpisodeAmbiguityStops == Spec => AmbiguityStops
<1> DEFINE Stops == reduce(log).pendingTools # {} /\ pc \notin {"running", "ran"}
                      => UNCHANGED <<log, runs>>
<1>1. EpisodeInv /\ [Next]_vars => [Stops]_vars
  <2> SUFFICES ASSUME EpisodeInv, Next, J.pendingTools # {}, pc \notin {"running", "ran"}
               PROVE  log' = log /\ runs' = runs
    BY Zenon DEF J
  <2>1. pc \in {"down", "source", "exit"}
    BY Zenon DEF EpisodeInv, ControlInv, Live
  <2>2. CASE Process
    <3>1. Exit \/ SourceReturns \/ CallFails
      BY <2>1, <2>2, Zenon DEF Process, MandateReturns, PullReturns, JournalGuidance,
         GuidanceJournaled, DispatchOther, DispatchRun, Execute, ToolReturns, PrepareFinish,
         ReadyToPrepare, AckReturns, Upload, FinishReturns, CompleteReturns
    <3>. QED
      BY <3>1, Zenon DEF Exit, SourceReturns, CallFails, journal, history
  <2>3. CASE ~Process
    BY <2>3, Zenon DEF Next, Boot, Crash, sendToWorker, Revoke, journal, history
  <2>. QED
    BY <2>2, <2>3, Zenon
<1>. QED
  BY <1>1, EpisodeInvariance, PTL DEF Spec, AmbiguityStops
=============================================================================
