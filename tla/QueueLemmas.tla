---------------------------- MODULE QueueLemmas ----------------------------
(* Facts about a queue of distinct entries kept as a sequence: what joining *)
(* it and popping it do to the set of entries.                              *)
EXTENDS Naturals, Sequences, Functions, TLAPS

\* Joining the queue adds one entry to it.
LEMMA RangeAppend ==
    ASSUME NEW S, NEW q \in Seq(S), NEW e \in S
    PROVE  /\ Append(q, e) \in Seq(S)
           /\ Range(Append(q, e)) = Range(q) \cup {e}
           /\ IsInjective(q) /\ e \notin Range(q) => IsInjective(Append(q, e))
<1>1. \A i \in DOMAIN q : i \in 1..Len(q) /\ Append(q, e)[i] = q[i]
  OBVIOUS
<1>2. DOMAIN Append(q, e) = DOMAIN q \cup {Len(q) + 1} /\ Append(q, e)[Len(q) + 1] = e
  OBVIOUS
<1>3. Range(Append(q, e)) = Range(q) \cup {e}
  BY <1>1, <1>2 DEF Range
<1>4. IsInjective(q) /\ e \notin Range(q) => IsInjective(Append(q, e))
  BY <1>1, <1>2 DEF IsInjective, Range
<1> QED
  BY <1>3, <1>4

\* Popping the queue removes its front and nothing else.
LEMMA RangeTail ==
    ASSUME NEW S, NEW q \in Seq(S), q # <<>>
    PROVE  /\ Tail(q) \in Seq(S)
           /\ Head(q) = q[1] /\ Head(q) \in Range(q) /\ Head(q) \in S
           /\ Len(Tail(q)) = Len(q) - 1
           /\ Range(Tail(q)) \subseteq Range(q)
           /\ IsInjective(q) => /\ IsInjective(Tail(q))
                                /\ Range(Tail(q)) = Range(q) \ {Head(q)}
<1>1. Len(q) \in Nat /\ Len(q) > 0 /\ DOMAIN q = 1..Len(q) /\ Head(q) = q[1]
  OBVIOUS
<1>2. /\ Tail(q) \in Seq(S) /\ Len(Tail(q)) = Len(q) - 1
      /\ DOMAIN Tail(q) = 1..(Len(q) - 1)
      /\ \A i \in 1..(Len(q) - 1) : Tail(q)[i] = q[i + 1]
  BY <1>1
<1>3. Range(Tail(q)) \subseteq Range(q)
  BY <1>1, <1>2 DEF Range
<1>4. ASSUME IsInjective(q)
      PROVE  IsInjective(Tail(q)) /\ Range(Tail(q)) = Range(q) \ {Head(q)}
  <2>1. IsInjective(Tail(q))
    BY <1>1, <1>2, <1>4 DEF IsInjective
  <2>2. \A i \in 2..Len(q) : q[i] = Tail(q)[i - 1] /\ i - 1 \in DOMAIN Tail(q) /\ q[i] # q[1]
    BY <1>1, <1>2, <1>4 DEF IsInjective
  <2>3. ASSUME NEW e \in Range(q) \ {Head(q)}
        PROVE  e \in Range(Tail(q))
    <3>1. PICK i \in DOMAIN q : e = q[i]
      BY DEF Range
    <3>2. i \in 2..Len(q)
      BY <1>1, <3>1, <2>3
    <3> QED
      BY <2>2, <3>1, <3>2 DEF Range
  <2>4. Head(q) \notin Range(Tail(q))
    BY <1>1, <1>2, <1>4 DEF Range, IsInjective
  <2> QED
    BY <1>3, <2>1, <2>3, <2>4
<1>5. Head(q) \in Range(q) /\ Head(q) \in S
  BY <1>1 DEF Range
<1> QED
  BY <1>1, <1>2, <1>3, <1>4, <1>5

\* An empty queue has no entries.
LEMMA EmptySeq == ASSUME NEW S PROVE <<>> \in Seq(S) /\ Range(<<>>) = {} /\ IsInjective(<<>>)
BY DEF Range, IsInjective

\* A queue is empty exactly if its length is 0 and exactly if it has no entries.
LEMMA NonEmptySeq ==
    ASSUME NEW S, NEW q \in Seq(S)
    PROVE  Len(q) \in Nat /\ (Len(q) > 0 <=> q # <<>>) /\ (q = <<>> <=> Range(q) = {})
<1>1. Len(q) \in Nat /\ DOMAIN q = 1..Len(q) /\ (Len(q) > 0 <=> q # <<>>)
  OBVIOUS
<1>2. ASSUME q # <<>> PROVE Range(q) # {}
  <2>1. q[1] \in Range(q)
    BY <1>1, <1>2 DEF Range
  <2> QED
    BY <2>1
<1>3. ASSUME q = <<>> PROVE Range(q) = {}
  BY <1>1, <1>3, EmptySeq
<1> QED
  BY <1>1, <1>2, <1>3

\* Popping it twice removes its two oldest entries.
LEMMA RangePop2 ==
    ASSUME NEW S, NEW q \in Seq(S), Len(q) >= 2
    PROVE  LET r == Tail(Tail(q)) IN
           /\ r \in Seq(S) /\ q # <<>>
           /\ q[1] \in S /\ q[2] \in S
           /\ {q[1], q[2]} \subseteq Range(q)
           /\ IsInjective(q) => /\ q[1] # q[2]
                                /\ IsInjective(r)
                                /\ Range(r) = Range(q) \ {q[1], q[2]}
<1> DEFINE t == Tail(q)
<1>1. q # <<>> /\ t \in Seq(S)
  OBVIOUS
<1>2. Len(t) = Len(q) - 1
  OBVIOUS
<1>3. t[1] = q[2]
  OBVIOUS
<1> HIDE DEF t
<1>4. t # <<>>
  BY <1>1, <1>2, NonEmptySeq
<1>5. Head(t) = t[1] /\ Head(t) \in Range(t) /\ Head(t) \in S /\ Tail(t) \in Seq(S)
  BY <1>1, <1>4, RangeTail
<1>6. Head(q) = q[1] /\ Head(q) \in Range(q) /\ Head(q) \in S /\ Range(t) \subseteq Range(q)
  BY <1>1, RangeTail DEF t
<1>7. IsInjective(q) => IsInjective(t) /\ Range(t) = Range(q) \ {q[1]}
  BY <1>1, <1>6, RangeTail DEF t
<1>8. IsInjective(t) => IsInjective(Tail(t)) /\ Range(Tail(t)) = Range(t) \ {t[1]}
  BY <1>1, <1>4, <1>5, RangeTail
<1> QED
  BY <1>1, <1>3, <1>5, <1>6, <1>7, <1>8 DEF t
=============================================================================
