---------------------------- MODULE EngineProofs ----------------------------
(***************************************************************************)
(* What Engine promises, for any sessions, prompts, queue and step limits, *)
(* providers and client.                                                   *)
(***************************************************************************)
EXTENDS Engine, FiniteSetTheorems, SequenceTheorems, TLAPS

-----------------------------------------------------------------------------
(* The operators of History, over any conversation: which messages a load   *)
(* adds, and which steps keep every call paired with its result.            *)

\* A result belongs to a call of the reply before it.
Answers(h, i) ==
  \E j \in 1 .. (i - 1) : h[i].call \in Calls(h[j]) /\ \A m \in (j + 1) .. i : h[m].role = "toolResult"

\* Every call that is not in L has its result, except calls of a reply that only
\* results follow.
Repairable(h, L) ==
  /\ \A i \in DOMAIN h : h[i].role = "toolResult" => h[i].call \in L \/ Answers(h, i)
  /\ \A i \in DOMAIN h : h[i].role = "assistant" =>
       \/ AnswersAt(h, i) \ L = Calls(h[i]) \ L
       \/ \A k \in (i + 1) .. Len(h) : h[k].role = "toolResult"

\* The last reply of h waits for the results of cs, and has all its others.
Awaits(h, cs) ==
  /\ cs # <<>>
  /\ \A i, j \in DOMAIN cs : cs[i] = cs[j] => i = j
  /\ \E i \in DOMAIN h :
       /\ h[i].role = "assistant"
       /\ \A k \in (i + 1) .. Len(h) : h[k].role = "toolResult"
       /\ Calls(h[i]) = ToSet(cs) \cup {h[k].call : k \in (i + 1) .. Len(h)}
       /\ \A k \in DOMAIN cs, m \in (i + 1) .. Len(h) : cs[k] # h[m].call

\* A prompt is in h; none of the prompts of P is in h twice.
Holds(h, p) == \E i \in DOMAIN h : h[i] = User(p)
HoldsOnce(h, P) == \A p \in P : \A i, j \in DOMAIN h : h[i] = User(p) /\ h[j] = User(p) => i = j

-----------------------------------------------------------------------------
(* Sequences and sets.                                                     *)

\* The elements of a sequence are finitely many.
LEMMA ToSetFinite ==
  ASSUME NEW S, NEW s \in Seq(S)
  PROVE  IsFiniteSet(ToSet(s))
<1>1. s \in Surjection(1 .. Len(s), ToSet(s))
  BY DEF Surjection, ToSet
<1>2. IsFiniteSet(1 .. Len(s))
  BY FS_Interval
<1>3. QED
  BY <1>1, <1>2, FS_Surjection, Zenon

\* SetToSeq lists the elements of a finite set.
LEMMA SetToSeqLists ==
  ASSUME NEW S, IsFiniteSet(S)
  PROVE  SetToSeq(S) \in Seq(S) /\ ToSet(SetToSeq(S)) = S
<1> DEFINE n == Cardinality(S)
           f == SetToSeq(S)
<1>1. n \in Nat /\ \E g \in [1 .. n -> S] : IsInjective(g)
  BY FS_CardinalityType DEF ExistsBijection, Bijection, Injection
<1>2. f \in [1 .. n -> S] /\ IsInjective(f)
  BY <1>1 DEF SetToSeq
<1>3. f \in Injection(1 .. n, S)
  BY <1>2 DEF Injection
<1>4. Cardinality(1 .. n) = n
  BY <1>1, FS_Interval
<1>5. f \in Surjection(1 .. n, S)
  BY <1>3, <1>4, FS_Injection
<1> HIDE DEF n, f
<1>6. f \in Seq(S)
  BY <1>1, <1>2
<1>7. ToSet(f) = S
  BY <1>2, <1>5 DEF Surjection, ToSet
<1>8. QED
  BY <1>6, <1>7 DEF f

\* A sequence with one more element at its front.
LEMMA PutFirst ==
  ASSUME NEW S, NEW x \in S, NEW t \in Seq(S)
  PROVE  /\ <<x>> \o t \in Seq(S) /\ Len(<<x>> \o t) = Len(t) + 1 /\ (<<x>> \o t)[1] = x
         /\ \A i \in 2 .. (Len(t) + 1) : (<<x>> \o t)[i] = t[i - 1]
<1>1. <<x>> \in Seq(S) /\ Len(<<x>>) = 1 /\ <<x>>[1] = x
  OBVIOUS
<1>2. QED
  BY <1>1, ConcatProperties

-----------------------------------------------------------------------------
(* What a load adds.                                                       *)

\* Calls are numbers.
LEMMA CallsType == \A m \in Message : Calls(m) \in SUBSET Nat
  BY DEF Message, Calls, ToSet

\* A history has finitely many calls without a result.
LEMMA UnansweredFinite ==
  ASSUME NEW h \in Seq(Message)
  PROVE  IsFiniteSet(Unanswered(h)) /\ Unanswered(h) \subseteq Nat
<1> DEFINE Made == {Calls(h[i]) : i \in DOMAIN h}
           made == [i \in DOMAIN h |-> Calls(h[i])]
<1>1. made \in Surjection(DOMAIN h, Made)
  BY DEF Surjection
<1>2. IsFiniteSet(DOMAIN h)
  BY FS_Interval
<1>3. IsFiniteSet(Made)
  BY <1>1, <1>2, FS_Surjection, Zenon
<1>4. ASSUME NEW m \in Message PROVE IsFiniteSet(Calls(m))
  <2>1. CASE m.role = "assistant"
    BY <2>1, ToSetFinite DEF Calls, Message
  <2>2. CASE m.role # "assistant"
    BY <2>2, FS_EmptySet DEF Calls
  <2>3. QED
    BY <2>1, <2>2
<1>5. \A T \in Made : IsFiniteSet(T)
  BY <1>4
<1>6. IsFiniteSet(UNION Made)
  BY <1>3, <1>5, FS_UNION
<1>7. Unanswered(h) \subseteq UNION Made
  BY DEF Unanswered
<1>8. UNION Made \subseteq Nat
  BY CallsType
<1>9. QED
  BY <1>6, <1>7, <1>8, FS_Subset

\* A load keeps the messages and adds results of unanswered calls, all of them.
LEMMA RepairAdds ==
  ASSUME NEW h \in Seq(Message)
  PROVE  /\ Repair(h) \in Seq(Message) /\ Len(Repair(h)) >= Len(h)
         /\ \A i \in 1 .. Len(h) : Repair(h)[i] = h[i]
         /\ \A i \in (Len(h) + 1) .. Len(Repair(h)) :
              \E c \in Unanswered(h) : Repair(h)[i] = ToolResult(c)
         /\ \A c \in Unanswered(h) :
              \E i \in (Len(h) + 1) .. Len(Repair(h)) : Repair(h)[i] = ToolResult(c)
<1> DEFINE missing == SetToSeq(Unanswered(h))
           added == [i \in DOMAIN missing |-> ToolResult(missing[i])]
<1>1. missing \in Seq(Nat) /\ ToSet(missing) = Unanswered(h)
  BY UnansweredFinite, SetToSeqLists
<1>2. Repair(h) = h \o added
  BY DEF Repair
<1> HIDE DEF missing
<1>3. /\ added \in Seq(Message) /\ Len(added) = Len(missing)
      /\ \A i \in 1 .. Len(added) : added[i] = ToolResult(missing[i])
  <2>1. DOMAIN missing = 1 .. Len(missing) /\ \A i \in DOMAIN missing : missing[i] \in Nat
    BY <1>1
  <2>2. \A c \in Nat : ToolResult(c) \in Message
    BY DEF ToolResult, Message
  <2>3. QED
    BY <1>1, <2>1, <2>2
<1>4. \A i \in 1 .. Len(added) : missing[i] \in Unanswered(h)
  BY <1>1, <1>3 DEF ToSet
<1>5. \A c \in Unanswered(h) : \E i \in 1 .. Len(added) : added[i] = ToolResult(c)
  BY <1>1, <1>3 DEF ToSet
<1> HIDE DEF added
<1>6. /\ h \o added \in Seq(Message) /\ Len(h \o added) = Len(h) + Len(added)
      /\ \A i \in 1 .. Len(h) : (h \o added)[i] = h[i]
      /\ \A i \in 1 .. Len(added) : (h \o added)[Len(h) + i] = added[i]
  BY <1>3
<1>7. \A i \in (Len(h) + 1) .. Len(h \o added) : \E c \in Unanswered(h) : (h \o added)[i] = ToolResult(c)
  <2> TAKE i \in (Len(h) + 1) .. Len(h \o added)
  <2>1. i - Len(h) \in 1 .. Len(added) /\ i = Len(h) + (i - Len(h))
    BY <1>3, <1>6
  <2>2. QED
    BY <2>1, <1>3, <1>4, <1>6
<1>8. \A c \in Unanswered(h) : \E i \in (Len(h) + 1) .. Len(h \o added) : (h \o added)[i] = ToolResult(c)
  <2> TAKE c \in Unanswered(h)
  <2>1. PICK i \in 1 .. Len(added) : added[i] = ToolResult(c)
    BY <1>5
  <2>2. WITNESS Len(h) + i \in (Len(h) + 1) .. Len(h \o added)
  <2>3. QED
    BY <2>1, <1>6
<1>9. Len(h \o added) >= Len(h)
  BY <1>3
<1>10. QED
  BY <1>2, <1>6, <1>7, <1>8, <1>9, Zenon

\* A load adds no prompt and no reply.
LEMMA RepairKeeps ==
  ASSUME NEW h \in Seq(Message), NEW P \in SUBSET (Nat \ {SummaryText})
  PROVE  /\ \A p \in Nat : Holds(Repair(h), p) <=> Holds(h, p)
         /\ HoldsOnce(h, P) => HoldsOnce(Repair(h), P)
         /\ IsPrefix(h, Repair(h))
<1>1. \A c : \A p \in Nat : ToolResult(c) # User(p)
  BY DEF ToolResult, User
<1>2. \A p \in Nat : \A i \in DOMAIN Repair(h) : Repair(h)[i] = User(p) => i \in DOMAIN h /\ h[i] = User(p)
  BY <1>1, RepairAdds
<1>3. \A i \in DOMAIN h : i \in DOMAIN Repair(h) /\ Repair(h)[i] = h[i]
  BY RepairAdds
<1>4. SubSeq(h, 1, Len(h)) = SubSeq(Repair(h), 1, Len(h))
  BY RepairAdds
<1>5. QED
  BY <1>2, <1>3, <1>4, RepairAdds DEF Holds, HoldsOnce, IsPrefix

-----------------------------------------------------------------------------
(* Calls and their results.                                                *)

\* What it is to be answered by the results that follow message i.
LEMMA AnswersAtIs ==
  ASSUME NEW h \in Seq(Message), NEW i \in Nat, NEW c
  PROVE  c \in AnswersAt(h, i) <=>
           \E j \in (i + 1) .. Len(h) : h[j].call = c /\ \A m \in (i + 1) .. j : h[m].role = "toolResult"
  BY DEF AnswersAt

\* When only results follow a message, all of them answer it.
LEMMA AllAnswer ==
  ASSUME NEW h \in Seq(Message), NEW i \in Nat,
         \A k \in (i + 1) .. Len(h) : h[k].role = "toolResult"
  PROVE  AnswersAt(h, i) = {h[k].call : k \in (i + 1) .. Len(h)}
  BY DEF AnswersAt

\* What follows a message that is not a result adds no answer before it.
LEMMA AnswersStay ==
  ASSUME NEW h \in Seq(Message), NEW g \in Seq(Message), NEW i \in Nat,
         Len(g) >= Len(h), \A m \in 1 .. Len(h) : g[m] = h[m],
         NEW k \in (i + 1) .. (Len(h) + 1), k <= Len(g), g[k].role # "toolResult"
  PROVE  AnswersAt(g, i) = AnswersAt(h, i)
<1>1. ASSUME NEW c PROVE c \in AnswersAt(g, i) => c \in AnswersAt(h, i)
  <2>1. ASSUME NEW j \in (i + 1) .. Len(g), \A m \in (i + 1) .. j : g[m].role = "toolResult"
        PROVE  j < k
    BY <2>1
  <2>2. SUFFICES ASSUME c \in AnswersAt(g, i) PROVE c \in AnswersAt(h, i)
    OBVIOUS
  <2>3. PICK j \in (i + 1) .. Len(g) : g[j].call = c /\ \A m \in (i + 1) .. j : g[m].role = "toolResult"
    BY <2>2, AnswersAtIs
  <2>4. j < k
    BY <2>1, <2>3
  <2>5. j \in (i + 1) .. Len(h) /\ \A m \in (i + 1) .. j : g[m] = h[m]
    BY <2>4
  <2>6. h[j].call = c /\ \A m \in (i + 1) .. j : h[m].role = "toolResult"
    BY <2>3, <2>5
  <2>7. QED
    BY <2>5, <2>6, AnswersAtIs
<1>2. ASSUME NEW c PROVE c \in AnswersAt(h, i) => c \in AnswersAt(g, i)
  <2>1. SUFFICES ASSUME c \in AnswersAt(h, i) PROVE c \in AnswersAt(g, i)
    OBVIOUS
  <2>2. PICK j \in (i + 1) .. Len(h) : h[j].call = c /\ \A m \in (i + 1) .. j : h[m].role = "toolResult"
    BY <2>1, AnswersAtIs
  <2>3. j \in (i + 1) .. Len(g) /\ \A m \in (i + 1) .. j : g[m] = h[m]
    OBVIOUS
  <2>4. g[j].call = c /\ \A m \in (i + 1) .. j : g[m].role = "toolResult"
    BY <2>2, <2>3
  <2>5. QED
    BY <2>3, <2>4, AnswersAtIs
<1>3. QED
  BY <1>1, <1>2

\* A result is the result of the call it names, and makes no calls.
LEMMA ResultIs == \A m \in Message : m.role = "toolResult" => m = ToolResult(m.call) /\ Calls(m) = {}
  BY DEF Message, ToolResult, Calls

\* A history in which every call has its result has none to repair.
LEMMA PairedIsRepairable == \A h, L : PairedBut(h, L) => Repairable(h, L)
  BY DEF PairedBut, Repairable, Answers

\* More calls may be excepted.
LEMMA MoreExcepted ==
  ASSUME NEW L, NEW M, L \subseteq M
  PROVE  /\ \A h : PairedBut(h, L) => PairedBut(h, M)
         /\ \A h : Repairable(h, L) => Repairable(h, M)
<1>1. \A S, T : S \ L = T \ L => S \ M = T \ M
  OBVIOUS
<1>2. ASSUME NEW h, PairedBut(h, L) PROVE PairedBut(h, M)
  BY <1>1, <1>2 DEF PairedBut
<1>3. ASSUME NEW h, Repairable(h, L) PROVE Repairable(h, M)
  BY <1>1, <1>3 DEF Repairable
<1>4. QED
  BY <1>2, <1>3

\* An unanswered call of a repairable history is one of its last reply.
LEMMA UnansweredIsLast ==
  ASSUME NEW h \in Seq(Message), NEW L, Repairable(h, L), NEW c \in Unanswered(h), c \notin L
  PROVE  \E i \in DOMAIN h : /\ c \in Calls(h[i]) /\ h[i].role = "assistant"
                            /\ \A k \in (i + 1) .. Len(h) : h[k].role = "toolResult"
<1>1. PICK i \in DOMAIN h : c \in Calls(h[i]) /\ \A j \in DOMAIN h : j > i => h[j] # ToolResult(c)
  BY DEF Unanswered
<1>2. h[i].role = "assistant"
  BY <1>1 DEF Calls
<1>3. c \notin AnswersAt(h, i)
  <2>1. ASSUME NEW j \in (i + 1) .. Len(h), h[j].call = c, \A m \in (i + 1) .. j : h[m].role = "toolResult"
        PROVE  FALSE
    BY <1>1, <2>1, ResultIs
  <2>2. QED
    BY <2>1, AnswersAtIs
<1>4. QED
  BY <1>1, <1>2, <1>3 DEF Repairable

\* A result that answers a call before it answers the last reply.
LEMMA AnswersLast ==
  ASSUME NEW h \in Seq(Message), NEW i \in DOMAIN h, h[i].role = "assistant",
         NEW k \in (i + 1) .. Len(h), \A m \in (i + 1) .. k : h[m].role = "toolResult", Answers(h, k)
  PROVE  h[k].call \in Calls(h[i])
<1>1. PICK j \in 1 .. (k - 1) : h[k].call \in Calls(h[j]) /\ \A m \in (j + 1) .. k : h[m].role = "toolResult"
  BY DEF Answers
<1>2. ~(j < i)
  BY <1>1
<1>3. ~(j > i)
  BY <1>1, ResultIs
<1>4. QED
  BY <1>1, <1>2, <1>3

\* A load pairs every call with a result.
LEMMA RepairPairs ==
  ASSUME NEW h \in Seq(Message), NEW L, Repairable(h, L)
  PROVE  PairedBut(Repair(h), L)
<1> DEFINE g == Repair(h)
<1>1. /\ g \in Seq(Message) /\ Len(g) >= Len(h)
      /\ \A i \in 1 .. Len(h) : g[i] = h[i]
      /\ \A i \in (Len(h) + 1) .. Len(g) : \E c \in Unanswered(h) : g[i] = ToolResult(c)
      /\ \A c \in Unanswered(h) : \E i \in (Len(h) + 1) .. Len(g) : g[i] = ToolResult(c)
  BY RepairAdds
<1> HIDE DEF g
<1>2. \A c : ToolResult(c).role = "toolResult" /\ ToolResult(c).call = c
  BY DEF ToolResult
<1>3. \A k \in (Len(h) + 1) .. Len(g) : g[k].role = "toolResult"
  BY <1>2, <1>1
<1>4. ASSUME NEW i \in DOMAIN g, g[i].role = "toolResult", g[i].call \notin L PROVE Answers(g, i)
  <2>1. CASE i <= Len(h)
    <3>1. i \in DOMAIN h /\ h[i].role = "toolResult" /\ h[i].call \notin L
      BY <1>1, <1>4, <2>1
    <3>2. PICK j \in 1 .. (i - 1) : h[i].call \in Calls(h[j]) /\ \A m \in (j + 1) .. i : h[m].role = "toolResult"
      BY <3>1 DEF Repairable, Answers
    <3>3. g[i].call \in Calls(g[j]) /\ \A m \in (j + 1) .. i : g[m].role = "toolResult"
      <4>1. g[j] = h[j] /\ g[i] = h[i] /\ \A m \in (j + 1) .. i : g[m] = h[m]
        BY <1>1, <2>1, <3>1
      <4>2. QED
        BY <3>2, <4>1
    <3>4. QED
      BY <3>3 DEF Answers
  <2>2. CASE i > Len(h)
    <3>1. PICK c \in Unanswered(h) : g[i] = ToolResult(c)
      BY <1>1, <2>2
    <3>2. PICK j \in DOMAIN h : c \in Calls(h[j]) /\ \A k \in (j + 1) .. Len(h) : h[k].role = "toolResult"
      <4>1. c \notin L
        BY <1>2, <1>4, <3>1
      <4>2. QED
        BY <4>1, UnansweredIsLast
    <3>3. \A m \in (j + 1) .. i : g[m].role = "toolResult"
      <4> TAKE m \in (j + 1) .. i
      <4>1. CASE m <= Len(h)
        <5>1. m \in (j + 1) .. Len(h) /\ m \in 1 .. Len(h)
          BY <4>1
        <5>2. QED
          BY <1>1, <3>2, <5>1
      <4>2. CASE m > Len(h)
        <5>1. m \in (Len(h) + 1) .. Len(g)
          BY <1>1, <4>2
        <5>2. QED
          BY <1>3, <5>1
      <4>3. QED
        BY <1>1, <4>1, <4>2
    <3>4. g[i].call \in Calls(g[j]) /\ j \in 1 .. (i - 1)
      BY <1>1, <2>2, <3>1, <3>2 DEF ToolResult
    <3>5. QED
      BY <3>3, <3>4 DEF Answers
  <2>3. QED
    BY <1>1, <2>1, <2>2
<1>5. ASSUME NEW i \in DOMAIN g, g[i].role = "assistant" PROVE AnswersAt(g, i) \ L = Calls(g[i]) \ L
  <2>1. i \in DOMAIN h /\ g[i] = h[i]
    BY <1>1, <1>3, <1>5
  <2>2. CASE \A k \in (i + 1) .. Len(h) : h[k].role = "toolResult"
    <3>1. \A k \in (i + 1) .. Len(g) : g[k].role = "toolResult"
      BY <1>1, <1>3, <2>2
    <3>2. AnswersAt(g, i) = {g[k].call : k \in (i + 1) .. Len(g)}
      <4>1. i \in Nat /\ g \in Seq(Message)
        BY <1>1
      <4>2. QED
        BY <4>1, <3>1, AllAnswer
    <3>3. ASSUME NEW k \in (i + 1) .. Len(g), g[k].call \notin L PROVE g[k].call \in Calls(g[i])
      <4>1. k \in DOMAIN g /\ g[k].role = "toolResult" /\ \A m \in (i + 1) .. k : g[m].role = "toolResult"
        BY <1>1, <3>1
      <4>2. Answers(g, k)
        BY <1>4, <3>3, <4>1
      <4>3. QED
        BY <1>1, <1>5, <4>1, <4>2, AnswersLast
    <3>4. ASSUME NEW c \in Calls(g[i]) PROVE \E k \in (i + 1) .. Len(g) : g[k].call = c
      <4>1. CASE c \in Unanswered(h)
        <5>1. PICK k \in (Len(h) + 1) .. Len(g) : g[k] = ToolResult(c)
          BY <1>1, <4>1
        <5>2. QED
          BY <1>2, <2>1, <5>1
      <4>2. CASE c \notin Unanswered(h)
        <5>1. PICK j \in DOMAIN h : j > i /\ h[j] = ToolResult(c)
          BY <2>1, <4>2 DEF Unanswered
        <5>2. QED
          BY <1>1, <5>1 DEF ToolResult
      <4>3. QED
        BY <4>1, <4>2
    <3>5. QED
      BY <3>2, <3>3, <3>4
  <2>3. CASE \E k \in (i + 1) .. Len(h) : h[k].role # "toolResult"
    <3>1. PICK k \in (i + 1) .. Len(h) : h[k].role # "toolResult"
      BY <2>3
    <3>2. AnswersAt(g, i) = AnswersAt(h, i)
      BY <1>1, <2>1, <3>1, AnswersStay
    <3>3. QED
      BY <1>5, <2>1, <3>1, <3>2 DEF Repairable
  <2>4. QED
    BY <2>2, <2>3
<1>6. QED
  BY <1>4, <1>5 DEF PairedBut, Answers, g

-----------------------------------------------------------------------------
(* What a run adds.                                                        *)

\* A message that is not a result goes after paired messages.
LEMMA AppendPaired ==
  ASSUME NEW h \in Seq(Message), NEW L, PairedBut(h, L), NEW m \in Message, m.role # "toolResult"
  PROVE  /\ m.role = "user" => PairedBut(Append(h, m), L)
         /\ PairedBut(Append(h, m), L \cup Calls(m))
         /\ Repairable(Append(h, m), L)
<1> DEFINE g == Append(h, m)
           n == Len(h) + 1
<1>1. /\ g \in Seq(Message) /\ Len(g) = n /\ n \in Nat /\ g[n] = m
      /\ \A i \in 1 .. Len(h) : g[i] = h[i]
  OBVIOUS
<1> HIDE DEF g
<1>2. ASSUME NEW i \in DOMAIN g, g[i].role = "toolResult", g[i].call \notin L PROVE Answers(g, i)
  <2>1. i \in DOMAIN h /\ g[i] = h[i]
    BY <1>1, <1>2
  <2>2. PICK j \in 1 .. (i - 1) : h[i].call \in Calls(h[j]) /\ \A k \in (j + 1) .. i : h[k].role = "toolResult"
    BY <1>2, <2>1 DEF PairedBut
  <2>3. g[j] = h[j] /\ \A k \in (j + 1) .. i : g[k] = h[k]
    BY <1>1, <2>1
  <2>4. QED
    BY <2>1, <2>2, <2>3 DEF Answers
<1>3. ASSUME NEW i \in DOMAIN h, g[i].role = "assistant" PROVE AnswersAt(g, i) \ L = Calls(g[i]) \ L
  <2>1. AnswersAt(g, i) = AnswersAt(h, i)
    <3>1. n \in (i + 1) .. (Len(h) + 1) /\ n <= Len(g) /\ g[n].role # "toolResult" /\ i \in Nat
      BY <1>1
    <3>2. QED
      BY <1>1, <3>1, AnswersStay
  <2>2. QED
    BY <1>1, <1>3, <2>1 DEF PairedBut
<1>4. AnswersAt(g, n) = {}
  BY <1>1 DEF AnswersAt
<1>5. DOMAIN g = DOMAIN h \cup {n} /\ (m.role = "user" => Calls(m) = {})
  BY <1>1 DEF Calls
<1>6. PairedBut(g, L \cup Calls(m))
  <2>1. ASSUME NEW i \in DOMAIN g, g[i].role = "assistant"
        PROVE  AnswersAt(g, i) \ (L \cup Calls(m)) = Calls(g[i]) \ (L \cup Calls(m))
    <3>1. CASE i = n
      BY <1>1, <1>4, <3>1
    <3>2. CASE i \in DOMAIN h
      <4>1. AnswersAt(g, i) \ L = Calls(g[i]) \ L
        BY <1>3, <2>1, <3>2
      <4>2. QED
        BY <4>1
    <3>3. QED
      BY <1>5, <3>1, <3>2
  <2>2. QED
    BY <1>2, <2>1 DEF PairedBut, Answers
<1>7. Repairable(g, L)
  <2>1. \A k \in (n + 1) .. Len(g) : g[k].role = "toolResult"
    BY <1>1
  <2>2. QED
    BY <1>1, <1>2, <1>3, <1>5, <2>1 DEF Repairable
<1>8. m.role = "user" => PairedBut(g, L)
  <2>1. m.role = "user" => L \cup Calls(m) = L
    BY <1>5
  <2>2. QED
    BY <1>6, <2>1
<1>9. QED
  BY <1>6, <1>7, <1>8 DEF g

\* A reply waits for the results of the calls it makes.
LEMMA ReplyAwaits ==
  ASSUME NEW h \in Seq(Message), NEW cs \in Seq(Nat), cs # <<>>,
         \A i, j \in DOMAIN cs : cs[i] = cs[j] => i = j
  PROVE  Awaits(Append(h, Assistant(cs)), cs)
<1> DEFINE m == Assistant(cs)
           g == Append(h, m)
           n == Len(h) + 1
<1>1. m \in Message /\ m.role = "assistant" /\ Calls(m) = ToSet(cs)
  BY DEF Assistant, Message, Calls
<1>2. g \in Seq(Message) /\ Len(g) = n /\ n \in Nat /\ g[n] = m /\ n \in DOMAIN g
  BY <1>1
<1>3. \A k : k \notin (n + 1) .. Len(g)
  BY <1>2
<1> HIDE DEF g, n, m
<1>4. {g[k].call : k \in (n + 1) .. Len(g)} = {}
  BY <1>3
<1>5. Awaits(g, cs)
  BY <1>1, <1>2, <1>3, <1>4 DEF Awaits
<1>6. QED
  BY <1>5 DEF g, m

\* The calls of a list are the first one and the rest.
LEMMA ToSetHeadTail ==
  ASSUME NEW cs \in Seq(Nat), cs # <<>>
  PROVE  ToSet(cs) = {Head(cs)} \cup ToSet(Tail(cs))
<1>1. \A k \in DOMAIN cs : k = 1 \/ (k - 1 \in DOMAIN Tail(cs) /\ Tail(cs)[k - 1] = cs[k])
  OBVIOUS
<1>2. 1 \in DOMAIN cs /\ Head(cs) = cs[1]
  OBVIOUS
<1>3. \A k \in DOMAIN Tail(cs) : k + 1 \in DOMAIN cs /\ Tail(cs)[k] = cs[k + 1]
  OBVIOUS
<1>4. ToSet(cs) \subseteq {Head(cs)} \cup ToSet(Tail(cs))
  <2> SUFFICES ASSUME NEW k \in DOMAIN cs PROVE cs[k] \in {Head(cs)} \cup ToSet(Tail(cs))
    BY DEF ToSet
  <2> QED
    BY <1>1, <1>2 DEF ToSet
<1>5. {Head(cs)} \cup ToSet(Tail(cs)) \subseteq ToSet(cs)
  BY <1>2, <1>3 DEF ToSet
<1>6. QED
  BY <1>4, <1>5

\* The next result leaves the other calls of the reply waiting, or none.
LEMMA ResultAnswers ==
  ASSUME NEW h \in Seq(Message), NEW L, NEW cs \in Seq(Nat), Awaits(h, cs)
  PROVE  LET g == Append(h, ToolResult(Head(cs)))
         IN  /\ Tail(cs) # <<>> => Awaits(g, Tail(cs))
             /\ Repairable(h, L) => Repairable(g, L) /\ PairedBut(g, L \cup ToSet(Tail(cs)))
             /\ Head(cs) \in Unanswered(h)
<1> DEFINE c == Head(cs)
           m == ToolResult(c)
           g == Append(h, m)
           n == Len(h) + 1
<1>1. cs # <<>> /\ c \in Nat /\ c \in ToSet(cs) /\ Tail(cs) \in Seq(Nat)
  <2>1. cs # <<>>
    BY DEF Awaits
  <2>2. QED
    BY <2>1 DEF ToSet
<1>2. m \in Message /\ m.role = "toolResult" /\ m.call = c
  BY <1>1 DEF ToolResult, Message
<1>3. /\ g \in Seq(Message) /\ Len(g) = n /\ n \in Nat /\ g[n] = m /\ n \in DOMAIN g
      /\ \A k \in DOMAIN h : g[k] = h[k] /\ k \in DOMAIN g
      /\ \A k \in DOMAIN g : k = n \/ k \in DOMAIN h
  BY <1>2
<1>4. PICK i \in DOMAIN h :
        /\ h[i].role = "assistant"
        /\ \A k \in (i + 1) .. Len(h) : h[k].role = "toolResult"
        /\ Calls(h[i]) = ToSet(cs) \cup {h[k].call : k \in (i + 1) .. Len(h)}
        /\ \A k \in DOMAIN cs, j \in (i + 1) .. Len(h) : cs[k] # h[j].call
  BY DEF Awaits
<1> HIDE DEF g, n, m, c
<1>5. g[i] = h[i] /\ i \in Nat /\ i < n
  BY <1>3 DEF n
<1>6. \A k \in (i + 1) .. Len(g) : k = n \/ k \in (i + 1) .. Len(h)
  BY <1>3 DEF n
<1>7. \A k \in (i + 1) .. Len(g) : g[k].role = "toolResult"
  BY <1>2, <1>3, <1>4, <1>6
<1>8. {g[k].call : k \in (i + 1) .. Len(g)} = {h[k].call : k \in (i + 1) .. Len(h)} \cup {c}
  <2>1. \A k \in (i + 1) .. Len(h) : k \in (i + 1) .. Len(g) /\ g[k] = h[k]
    BY <1>3 DEF n
  <2>2. n \in (i + 1) .. Len(g)
    BY <1>3, <1>5
  <2>3. QED
    BY <1>2, <1>3, <1>6, <2>1, <2>2
<1>9. Calls(g[i]) = ToSet(Tail(cs)) \cup {g[k].call : k \in (i + 1) .. Len(g)}
  BY <1>1, <1>4, <1>5, <1>8, ToSetHeadTail DEF c
<1>10. \A j, k \in DOMAIN cs : cs[j] = cs[k] => j = k
  BY DEF Awaits
<1>11. \A k \in DOMAIN Tail(cs) : Tail(cs)[k] = cs[k + 1] /\ k + 1 \in DOMAIN cs /\ cs[k + 1] # c
  BY <1>1, <1>10 DEF c
<1>12. \A k \in DOMAIN Tail(cs), j \in (i + 1) .. Len(g) : Tail(cs)[k] # g[j].call
  <2> TAKE k \in DOMAIN Tail(cs), j \in (i + 1) .. Len(g)
  <2>1. Tail(cs)[k] = cs[k + 1] /\ k + 1 \in DOMAIN cs /\ cs[k + 1] # c
    BY <1>11
  <2>2. CASE j = n
    BY <1>2, <1>3, <2>1, <2>2
  <2>3. CASE j \in (i + 1) .. Len(h)
    <3>1. g[j] = h[j]
      BY <1>3, <1>5, <2>3
    <3>2. QED
      BY <1>4, <2>1, <2>3, <3>1
  <2>4. QED
    BY <1>6, <2>2, <2>3
<1>13. \A j, k \in DOMAIN Tail(cs) : Tail(cs)[j] = Tail(cs)[k] => j = k
  BY <1>1, <1>10, <1>11
<1>14. Tail(cs) # <<>> => Awaits(g, Tail(cs))
  <2>1. i \in DOMAIN g /\ g[i].role = "assistant"
    BY <1>3, <1>4, <1>5
  <2>2. QED
    BY <1>7, <1>9, <1>12, <1>13, <2>1 DEF Awaits
<1>15. ASSUME Repairable(h, L), NEW k \in DOMAIN g, g[k].role = "toolResult", g[k].call \notin L
       PROVE  Answers(g, k)
  <2>1. CASE k = n
    <3>1. g[k].call \in Calls(g[i])
      BY <1>1, <1>2, <1>3, <1>4, <1>5, <2>1
    <3>2. i \in 1 .. (k - 1) /\ \A j \in (i + 1) .. k : g[j].role = "toolResult"
      BY <1>3, <1>5, <1>7, <2>1
    <3>3. QED
      BY <3>1, <3>2 DEF Answers
  <2>2. CASE k # n
    <3>1. k \in DOMAIN h /\ g[k] = h[k]
      BY <1>3, <2>2
    <3>2. PICK j \in 1 .. (k - 1) : h[k].call \in Calls(h[j]) /\ \A l \in (j + 1) .. k : h[l].role = "toolResult"
      BY <1>15, <3>1 DEF Repairable, Answers
    <3>3. g[j] = h[j] /\ \A l \in (j + 1) .. k : g[l] = h[l]
      BY <1>3, <3>1
    <3>4. QED
      BY <3>1, <3>2, <3>3 DEF Answers
  <2>3. QED
    BY <2>1, <2>2
<1>16. ASSUME Repairable(h, L), NEW k \in DOMAIN g, g[k].role = "assistant", k # i
       PROVE  AnswersAt(g, k) \ L = Calls(g[k]) \ L
  <2>1. k \in DOMAIN h /\ g[k] = h[k] /\ k < i
    <3>1. k # n
      BY <1>2, <1>3, <1>16
    <3>2. k \in DOMAIN h /\ g[k] = h[k]
      BY <1>3, <3>1
    <3>3. k \notin (i + 1) .. Len(h)
      BY <1>4, <1>16, <3>2
    <3>4. QED
      BY <1>16, <3>2, <3>3
  <2>2. i \in (k + 1) .. (Len(h) + 1) /\ i <= Len(g) /\ g[i].role # "toolResult" /\ k \in Nat
    BY <1>3, <1>4, <1>5, <2>1
  <2>3. AnswersAt(g, k) = AnswersAt(h, k)
    <3>1. g \in Seq(Message) /\ Len(g) >= Len(h)
      BY <1>3 DEF n
    <3>2. \A j \in 1 .. Len(h) : g[j] = h[j]
      BY <1>3
    <3>3. QED
      BY <2>2, <3>1, <3>2, AnswersStay
  <2>4. i \in (k + 1) .. Len(h) /\ h[i].role # "toolResult"
    BY <1>4, <2>1
  <2>5. QED
    BY <1>16, <2>1, <2>3, <2>4 DEF Repairable
<1>17. Repairable(h, L) => Repairable(g, L)
  BY <1>7, <1>15, <1>16 DEF Repairable
<1>18. ASSUME Repairable(h, L) PROVE PairedBut(g, L \cup ToSet(Tail(cs)))
  <2> DEFINE M == L \cup ToSet(Tail(cs))
  <2>1. AnswersAt(g, i) = {g[k].call : k \in (i + 1) .. Len(g)}
    BY <1>3, <1>5, <1>7, AllAnswer
  <2>2. AnswersAt(g, i) \ M = Calls(g[i]) \ M
    BY <1>9, <2>1
  <2>3. ASSUME NEW k \in DOMAIN g, g[k].role = "assistant", k # i PROVE AnswersAt(g, k) \ M = Calls(g[k]) \ M
    <3>1. AnswersAt(g, k) \ L = Calls(g[k]) \ L
      BY <1>16, <1>18, <2>3
    <3>2. QED
      BY <3>1
  <2>4. ASSUME NEW k \in DOMAIN g, g[k].role = "toolResult", g[k].call \notin M PROVE Answers(g, k)
    BY <1>15, <1>18, <2>4
  <2> HIDE DEF M
  <2>5. PairedBut(g, M)
    BY <2>2, <2>3, <2>4 DEF PairedBut, Answers
  <2>6. QED
    BY <2>5 DEF M
<1>19. c \in Unanswered(h)
  <2>1. c \in Calls(h[i])
    BY <1>1, <1>4
  <2>2. ASSUME NEW j \in DOMAIN h, j > i PROVE h[j] # ToolResult(c)
    <3>1. j \in (i + 1) .. Len(h) /\ 1 \in DOMAIN cs /\ c = cs[1]
      BY <1>1, <2>2 DEF c
    <3>2. h[j].call # c
      BY <1>4, <3>1
    <3>3. QED
      BY <1>2, <3>2 DEF m
  <2>3. QED
    BY <2>1, <2>2 DEF Unanswered
<1>20. QED
  BY <1>14, <1>17, <1>18, <1>19 DEF g, m, c

\* A message adds its own prompt, and no other.
LEMMA AppendHolds ==
  ASSUME NEW h \in Seq(Message), NEW m \in Message, NEW P \in SUBSET (Nat \ {SummaryText})
  PROVE  /\ Append(h, m) \in Seq(Message)
         /\ \A p \in Nat : Holds(Append(h, m), p) <=> Holds(h, p) \/ m = User(p)
         /\ HoldsOnce(h, P) /\ (\A p \in P : m = User(p) => ~Holds(h, p)) => HoldsOnce(Append(h, m), P)
         /\ IsPrefix(h, Append(h, m))
<1> DEFINE g == Append(h, m)
           n == Len(h) + 1
<1>1. /\ g \in Seq(Message) /\ Len(g) = n /\ g[n] = m /\ n \in DOMAIN g
      /\ \A k \in DOMAIN h : g[k] = h[k] /\ k \in DOMAIN g
      /\ \A k \in DOMAIN g : k = n \/ k \in DOMAIN h
      /\ SubSeq(h, 1, Len(h)) = SubSeq(g, 1, Len(h)) /\ Len(h) <= Len(g)
  OBVIOUS
<1> HIDE DEF g, n
<1>2. \A p \in Nat : Holds(g, p) <=> Holds(h, p) \/ m = User(p)
  BY <1>1 DEF Holds
<1>3. ASSUME HoldsOnce(h, P), \A p \in P : m = User(p) => ~Holds(h, p)
      PROVE  HoldsOnce(g, P)
  <2> SUFFICES ASSUME NEW p \in P, NEW i \in DOMAIN g, NEW j \in DOMAIN g,
                      g[i] = User(p), g[j] = User(p)
               PROVE  i = j
    BY DEF HoldsOnce
  <2>1. CASE i \in DOMAIN h /\ j \in DOMAIN h
    BY <1>1, <1>3, <2>1 DEF HoldsOnce
  <2>2. CASE i = n \/ j = n
    BY <1>1, <1>3, <2>2 DEF Holds
  <2>3. QED
    BY <1>1, <2>1, <2>2
<1>4. QED
  BY <1>1, <1>2, <1>3 DEF g, IsPrefix

\* A summary takes the place of a beginning of the history that ends before a
\* message that is not a result.
LEMMA SummaryKeeps ==
  ASSUME NEW h \in Seq(Message), NEW P \in SUBSET (Nat \ {SummaryText}), NEW L, NEW k \in 1 .. (Len(h) + 1),
         k <= Len(h) => h[k].role # "toolResult"
  PROVE  LET g == <<User(SummaryText)>> \o SubSeq(h, k, Len(h))
         IN  /\ g \in Seq(Message)
             /\ \A p \in Nat \ {SummaryText} : Holds(g, p) => Holds(h, p)
             /\ HoldsOnce(h, P) => HoldsOnce(g, P)
             /\ PairedBut(h, L) => PairedBut(g, L)
<1> DEFINE t == SubSeq(h, k, Len(h))
           g == <<User(SummaryText)>> \o t
           d == k - 2
<1>1. /\ t \in Seq(Message) /\ Len(t) = Len(h) - k + 1
      /\ \A i \in 1 .. Len(t) : t[i] = h[i + k - 1]
  OBVIOUS
<1>2. User(SummaryText) \in Message /\ User(SummaryText).role = "user"
  BY DEF User, Message, SummaryText
<1> HIDE DEF t
<1>3. /\ g \in Seq(Message) /\ Len(g) = Len(t) + 1 /\ g[1] = User(SummaryText)
      /\ \A i \in 2 .. Len(g) : g[i] = t[i - 1]
  <2> DEFINE u == User(SummaryText)
  <2> HIDE DEF u
  <2>1. u \in Message
    BY <1>2 DEF u
  <2>2. /\ <<u>> \o t \in Seq(Message) /\ Len(<<u>> \o t) = Len(t) + 1 /\ (<<u>> \o t)[1] = u
        /\ \A i \in 2 .. Len(<<u>> \o t) : (<<u>> \o t)[i] = t[i - 1]
    <3>1. t \in Seq(Message)
      BY <1>1
    <3>2. QED
      BY <2>1, <3>1, PutFirst
  <2>3. QED
    BY <2>2 DEF u
<1> HIDE DEF g
<1>4. /\ d \in Int /\ d >= -1 /\ Len(h) \in Nat /\ DOMAIN h = 1 .. Len(h)
      /\ DOMAIN g = 1 .. Len(g) /\ Len(g) = Len(h) - d /\ Len(g) \in Nat
  BY <1>1, <1>3
<1>5. \A i \in 2 .. Len(g) : g[i] = h[i + d] /\ i + d \in DOMAIN h
  <2> TAKE i \in 2 .. Len(g)
  <2>1. g[i] = t[i - 1] /\ i - 1 \in 1 .. Len(t) /\ (i - 1) + k - 1 = i + d
    BY <1>3
  <2>2. t[i - 1] = h[i + d]
    BY <1>1, <2>1
  <2>3. i + d \in DOMAIN h
    BY <1>4
  <2>4. QED
    BY <2>1, <2>2, <2>3
<1> HIDE DEF d
<1>6. \A p \in Nat \ {SummaryText} : g[1] # User(p)
  BY <1>3 DEF User, SummaryText
<1>7. \A p \in Nat \ {SummaryText} : Holds(g, p) => Holds(h, p)
  <2> SUFFICES ASSUME NEW p \in Nat \ {SummaryText}, NEW i \in DOMAIN g, g[i] = User(p) PROVE Holds(h, p)
    BY DEF Holds
  <2>1. i \in 2 .. Len(g)
    BY <1>4, <1>6
  <2>2. QED
    BY <1>5, <2>1 DEF Holds
<1>8. HoldsOnce(h, P) => HoldsOnce(g, P)
  <2> SUFFICES ASSUME HoldsOnce(h, P), NEW p \in P, NEW i \in DOMAIN g, NEW j \in DOMAIN g,
                      g[i] = User(p), g[j] = User(p)
               PROVE  i = j
    BY DEF HoldsOnce
  <2>1. i \in 2 .. Len(g) /\ j \in 2 .. Len(g)
    BY <1>4, <1>6
  <2>2. h[i + d] = User(p) /\ h[j + d] = User(p) /\ i + d \in DOMAIN h /\ j + d \in DOMAIN h
    BY <1>5, <2>1
  <2>3. i + d = j + d
    BY <2>2 DEF HoldsOnce
  <2>4. QED
    BY <1>4, <2>1, <2>3
<1>9. ASSUME PairedBut(h, L) PROVE PairedBut(g, L)
  <2>1. Len(g) >= 2 => g[2].role # "toolResult"
    <3>1. 2 + d = k
      BY DEF d
    <3>2. QED
      BY <1>4, <1>5, <3>1
  <2>2. ASSUME NEW i \in DOMAIN g, g[i].role = "toolResult", g[i].call \notin L
        PROVE  \E j \in 1 .. (i - 1) : g[i].call \in Calls(g[j]) /\ \A m \in (j + 1) .. i : g[m].role = "toolResult"
    <3>1. i \in 2 .. Len(g) /\ h[i + d].role = "toolResult" /\ i + d \in DOMAIN h /\ h[i + d] = g[i]
      BY <1>2, <1>3, <1>4, <1>5, <2>2
    <3>2. PICK j \in 1 .. ((i + d) - 1) : h[i + d].call \in Calls(h[j]) /\ \A m \in (j + 1) .. (i + d) : h[m].role = "toolResult"
      <4>1. \A x \in DOMAIN h : h[x].role = "toolResult" /\ h[x].call \notin L =>
              \E j \in 1 .. (x - 1) : h[x].call \in Calls(h[j]) /\ \A m \in (j + 1) .. x : h[m].role = "toolResult"
        BY <1>9 DEF PairedBut
      <4> DEFINE x == i + d
      <4>2. x \in DOMAIN h /\ h[x].role = "toolResult" /\ h[x].call \notin L
        BY <2>2, <3>1
      <4> HIDE DEF x
      <4>3. \E j \in 1 .. (x - 1) : h[x].call \in Calls(h[j]) /\ \A m \in (j + 1) .. x : h[m].role = "toolResult"
        BY <4>1, <4>2
      <4>4. QED
        BY <4>3 DEF x
    <3>3. j \in 2 + d .. ((i + d) - 1)
      <4>1. 2 \in 2 .. Len(g) /\ h[2 + d].role # "toolResult"
        <5>1. Len(g) >= 2 /\ 2 \in 2 .. Len(g)
          BY <1>4, <3>1
        <5>2. g[2] = h[2 + d] /\ g[2].role # "toolResult"
          BY <1>5, <2>1, <5>1
        <5>3. QED
          BY <5>1, <5>2
      <4>2. QED
        BY <1>4, <3>1, <3>2, <4>1
    <3>4. j - d \in 2 .. (i - 1) /\ j - d \in 2 .. Len(g) /\ (j - d) + d = j
      BY <1>4, <3>1, <3>3
    <3>5. g[j - d] = h[j]
      BY <1>5, <3>4
    <3>6. \A m \in (j - d + 1) .. i : g[m].role = "toolResult"
      <4> TAKE m \in (j - d + 1) .. i
      <4>1. m \in 2 .. Len(g) /\ m + d \in (j + 1) .. (i + d)
        BY <1>4, <3>1, <3>4
      <4>2. QED
        BY <1>5, <3>2, <4>1
    <3> DEFINE b == j - d
    <3>7. b \in 1 .. (i - 1)
      BY <1>4, <3>1, <3>4
    <3>8. g[i].call \in Calls(g[b])
      BY <3>1, <3>2, <3>5
    <3>9. \A m \in (b + 1) .. i : g[m].role = "toolResult"
      BY <3>6
    <3> HIDE DEF b
    <3>10. QED
      BY <3>7, <3>8, <3>9
  <2>3. ASSUME NEW i \in DOMAIN g, g[i].role = "assistant" PROVE AnswersAt(g, i) \ L = Calls(g[i]) \ L
    <3>1. i \in 2 .. Len(g) /\ i + d \in DOMAIN h /\ h[i + d] = g[i]
      BY <1>2, <1>3, <1>4, <1>5, <2>3
    <3>2. AnswersAt(h, i + d) \ L = Calls(h[i + d]) \ L
      BY <1>9, <2>3, <3>1 DEF PairedBut
    <3>3. ASSUME NEW c, c \in AnswersAt(g, i) PROVE c \in AnswersAt(h, i + d)
      <4>1. i \in Nat
        BY <1>4, <3>1
      <4>2. PICK j \in (i + 1) .. Len(g) : g[j].call = c /\ \A m \in (i + 1) .. j : g[m].role = "toolResult"
        BY <3>3, <4>1 DEF AnswersAt
      <4>3. j \in 2 .. Len(g) /\ j + d \in (i + d + 1) .. Len(h)
        BY <1>4, <3>1
      <4>4. \A m \in (i + d + 1) .. (j + d) : h[m].role = "toolResult"
        <5> TAKE m \in (i + d + 1) .. (j + d)
        <5>1. m - d \in (i + 1) .. j /\ m - d \in 2 .. Len(g) /\ (m - d) + d = m
          <6>1. m \in Int /\ d \in Int /\ i \in Int /\ j \in Int /\ Len(g) \in Int
            BY <1>4, <3>1
          <6>2. i + d + 1 <= m /\ m <= j + d /\ 2 <= i /\ j <= Len(g)
            BY <3>1, <4>3
          <6>3. QED
            BY <6>1, <6>2
        <5>2. QED
          BY <1>5, <4>2, <5>1
      <4>5. h[j + d].call = c
        BY <1>5, <4>2, <4>3
      <4> DEFINE a == i + d
                 b == j + d
      <4>6. a \in Nat
        BY <1>4, <3>1
      <4>7. b \in (a + 1) .. Len(h)
        BY <4>3
      <4>8. h[b].call = c /\ \A m \in (a + 1) .. b : h[m].role = "toolResult"
        BY <4>4, <4>5
      <4> HIDE DEF a, b
      <4>9. c \in AnswersAt(h, a)
        BY <4>6, <4>7, <4>8, AnswersAtIs
      <4>10. QED
        BY <4>9 DEF a
    <3>4. ASSUME NEW c, c \in AnswersAt(h, i + d) PROVE c \in AnswersAt(g, i)
      <4>1. i + d \in Nat /\ i \in Nat
        BY <1>4, <3>1
      <4>2. PICK j \in (i + d + 1) .. Len(h) : h[j].call = c /\ \A m \in (i + d + 1) .. j : h[m].role = "toolResult"
        BY <3>4, <4>1, AnswersAtIs
      <4>3. j - d \in (i + 1) .. Len(g) /\ j - d \in 2 .. Len(g) /\ (j - d) + d = j
        BY <1>4, <3>1
      <4>4. \A m \in (i + 1) .. (j - d) : g[m].role = "toolResult"
        <5> TAKE m \in (i + 1) .. (j - d)
        <5>1. m \in 2 .. Len(g)
          <6>1. i \in Int /\ m \in Int /\ 2 <= i /\ i + 1 <= m
            BY <3>1
          <6>2. m <= j - d /\ j - d \in Int /\ j - d <= Len(g) /\ Len(g) \in Int
            BY <1>4, <4>3
          <6>3. QED
            BY <6>1, <6>2
        <5>2. m + d \in (i + d + 1) .. j
          <6>1. i \in Int /\ d \in Int /\ j \in Int /\ m \in Int /\ i + 1 <= m /\ m <= j - d
            BY <1>4, <4>1, <4>2
          <6>2. QED
            BY <6>1
        <5>3. QED
          BY <1>5, <4>2, <5>1, <5>2
      <4>5. g[j - d].call = c
        BY <1>5, <4>2, <4>3
      <4>6. QED
        BY <1>3, <4>1, <4>3, <4>4, <4>5, AnswersAtIs
    <3>5. QED
      BY <3>1, <3>2, <3>3, <3>4
  <2>4. QED
    BY <2>2, <2>3 DEF PairedBut
<1>10. QED
  BY <1>3, <1>7, <1>8, <1>9 DEF g, t

-----------------------------------------------------------------------------
(* The inductive invariant.                                                *)

InOrder(q) ==
  \A i, j \in DOMAIN q :
    i < j => /\ q[j].steer => q[i].steer
             /\ q[i].steer = q[j].steer => q[i].id < q[j].id

\* Where a prompt that has arrived may be.
Waiting(q) == {q[i].id : i \in DOMAIN q}
Distinct(q) == \A i, j \in DOMAIN q : q[i].id = q[j].id => i = j
Told == {p \in Prompts : Holds(mem, p) \/ \E s \in Session : Holds(files[s], p)}
Known == Waiting(items) \cup Told \cup Undelivered

\* Inside an iteration of the step loop.
Stepping == \/ pc \in {"steer", "request", "recheck", "model", "call", "tool"}
            \/ pc = "summary" /\ resume \in {"steer", "recheck"}

\* What the place of the task says of its locals and of the queue.
Control ==
  /\ Undelivered \subseteq Prompts
  /\ Stepping => step < MaxSteps
  /\ pc \notin {"none", "settle"} => running
  /\ pc = "settle" => cancel \/ (items = <<>> /\ ~running)

\* Prompts arrive in the order of their numbers.
Arriving ==
  /\ Known \subseteq 1 .. sent
  /\ \A i \in DOMAIN commands : commands[i].kind = "prompt" =>
       /\ commands[i].id[1] \in 1 .. sent
       /\ \A p \in Known : p < commands[i].id[1]
       /\ \A j \in 1 .. (i - 1) : commands[j].kind = "prompt" => commands[j].id[1] < commands[i].id[1]

\* A prompt is in one place, and there once.
OnePlace ==
  /\ Distinct(items)
  /\ Waiting(items) \cap Told = {} /\ Waiting(items) \cap Undelivered = {}
  /\ Told \cap Undelivered = {}
  /\ HoldsOnce(mem, Prompts) /\ \A s \in Session : HoldsOnce(files[s], Prompts)

\* From the first save of a turn on, what is in memory is in the file; what is
\* not in memory any more is in the archive.
Saved == pc = "step" \/ Stepping => files[current] = mem
Retained == IsPrefix(files[current], mem) \/ archive = files[current]

\* The calls that are left are those the latest reply waits for.
Requested == pc \in {"call", "tool"} => Awaits(mem, calls)

\* But for the calls that a failed save has lost, a history is never left with a gap.
Whole ==
  /\ Repairable(mem, lost) /\ \A s \in Session : Repairable(files[s], lost)
  /\ pc \notin {"call", "tool"} => PairedBut(mem, lost)
  /\ lost # {} => SaveMayFail

IInv == /\ TypeOK /\ Control /\ Arriving /\ OnePlace /\ InOrder(items)
        /\ Saved /\ Retained /\ Requested /\ Whole

-----------------------------------------------------------------------------
(* The queue.                                                              *)

\* Numbers are well founded, so that every set of them has a least.
LEMMA LeastNumber ==
  ASSUME NEW T \in SUBSET Nat, T # {}
  PROVE  Min(T) \in T /\ \A y \in T : Min(T) <= y
<1> DEFINE Less == {s \in Nat \X Nat : s[1] < s[2]}
<1>1. IsWellFoundedOn(Less, Nat)
  <2>1. OpToRel(<, Nat) = Less
    BY DEF OpToRel
  <2>2. QED
    BY <2>1, NatLessThanWellFounded
<1>2. PICK x \in T : \A y \in T : ~(<<y, x>> \in Less)
  BY <1>1, WFMin
<1>3. ASSUME NEW y \in T PROVE x <= y
  <2>1. x \in Nat /\ y \in Nat
    OBVIOUS
  <2>2. ~(<<y, x>> \in Less)
    BY <1>2
  <2>3. ~(y < x)
    BY <2>1, <2>2
  <2>4. QED
    BY <2>1, <2>3
<1>4. QED
  BY <1>3 DEF Min

\* Where Insert puts a submission.
LEMMA InsertAtPlace ==
  ASSUME NEW q \in Seq(Queued), NEW p \in Queued
  PROVE  /\ Insert(q, p) \in Seq(Queued) /\ Len(Insert(q, p)) = Len(q) + 1
         /\ \E k \in 1 .. (Len(q) + 1) :
              /\ Insert(q, p)[k] = p
              /\ \A i \in 1 .. (k - 1) : Insert(q, p)[i] = q[i]
              /\ \A i \in (k + 1) .. (Len(q) + 1) : Insert(q, p)[i] = q[i - 1]
              /\ p.steer => /\ \A i \in 1 .. (k - 1) : q[i].steer
                            /\ k <= Len(q) => ~q[k].steer
              /\ ~p.steer => k = Len(q) + 1
<1>1. CASE p.steer
  <2> DEFINE T == {i \in DOMAIN q : ~q[i].steer} \cup {Len(q) + 1}
             k == Min(T)
  <2>1. T \in SUBSET Nat /\ T # {}
    OBVIOUS
  <2>2. k \in T /\ \A y \in T : k <= y
    BY <2>1, LeastNumber
  <2> HIDE DEF k
  <2>3. k \in 1 .. (Len(q) + 1) /\ (k <= Len(q) => ~q[k].steer)
    BY <2>2
  <2>4. \A i \in 1 .. (k - 1) : q[i].steer
    BY <2>2, <2>3
  <2>5. Insert(q, p) = SubSeq(q, 1, k - 1) \o <<p>> \o SubSeq(q, k, Len(q))
    BY <1>1 DEF Insert, InsertAt, k
  <2> DEFINE a == SubSeq(q, 1, k - 1)
             b == SubSeq(q, k, Len(q))
  <2>6. /\ a \in Seq(Queued)
        /\ Len(a) = k - 1 /\ \A i \in 1 .. (k - 1) : a[i] = q[i]
    BY <2>3
  <2>7. /\ b \in Seq(Queued)
        /\ Len(b) = Len(q) - k + 1 /\ \A i \in 1 .. Len(b) : b[i] = q[(k + i) - 1]
    BY <2>3
  <2> HIDE DEF a, b
  <2>8. /\ a \o <<p>> \in Seq(Queued) /\ Len(a \o <<p>>) = k /\ (a \o <<p>>)[k] = p
        /\ \A i \in 1 .. (k - 1) : (a \o <<p>>)[i] = q[i]
    BY <2>3, <2>6
  <2> DEFINE c == a \o <<p>>
  <2> HIDE DEF c
  <2>9. /\ c \in Seq(Queued) /\ Len(c) = k /\ c[k] = p
        /\ \A i \in 1 .. (k - 1) : c[i] = q[i]
    BY <2>8 DEF c
  <2>10. /\ c \o b \in Seq(Queued) /\ Len(c \o b) = Len(q) + 1
         /\ \A i \in 1 .. k : (c \o b)[i] = c[i]
         /\ \A i \in (k + 1) .. (Len(q) + 1) : (c \o b)[i] = b[i - k]
    <3>1. c \in Seq(Queued) /\ b \in Seq(Queued)
      BY <2>7, <2>9
    <3>2. /\ c \o b \in Seq(Queued) /\ Len(c \o b) = Len(c) + Len(b)
          /\ \A i \in 1 .. Len(c) + Len(b) : (c \o b)[i] = IF i <= Len(c) THEN c[i] ELSE b[i - Len(c)]
      BY <3>1, ConcatProperties
    <3>3. Len(c) = k /\ Len(c) + Len(b) = Len(q) + 1 /\ k \in Nat
      BY <2>3, <2>7, <2>9
    <3>4. QED
      BY <2>3, <3>2, <3>3
  <2>11. \A i \in (k + 1) .. (Len(q) + 1) : (c \o b)[i] = q[i - 1]
    <3> TAKE i \in (k + 1) .. (Len(q) + 1)
    <3>1. i - k \in 1 .. Len(b) /\ (k + (i - k)) - 1 = i - 1
      BY <2>3, <2>7
    <3>2. QED
      BY <2>7, <2>10, <3>1
  <2>12. Insert(q, p) = c \o b
    BY <2>5 DEF a, b, c
  <2>13. (c \o b)[k] = p /\ \A i \in 1 .. (k - 1) : (c \o b)[i] = q[i]
    BY <2>3, <2>9, <2>10
  <2>14. QED
    BY <1>1, <2>3, <2>4, <2>10, <2>11, <2>12, <2>13
<1>2. CASE ~p.steer
  <2>1. Insert(q, p) = Append(q, p)
    BY <1>2 DEF Insert
  <2>2. Len(q) + 1 \in 1 .. (Len(q) + 1)
    OBVIOUS
  <2>3. QED
    BY <1>2, <2>1, <2>2
<1>3. QED
  BY <1>1, <1>2

\* The newest submission keeps the order.
LEMMA InsertInOrder ==
  ASSUME NEW q \in Seq(Queued), NEW p \in Queued, InOrder(q), \A x \in Waiting(q) : x < p.id
  PROVE  InOrder(Insert(q, p))
<1> DEFINE g == Insert(q, p)
<1>1. g \in Seq(Queued) /\ Len(g) = Len(q) + 1
  BY InsertAtPlace
<1>2. PICK k \in 1 .. (Len(q) + 1) :
              /\ g[k] = p
              /\ \A i \in 1 .. (k - 1) : g[i] = q[i]
              /\ \A i \in (k + 1) .. (Len(q) + 1) : g[i] = q[i - 1]
              /\ p.steer => /\ \A i \in 1 .. (k - 1) : q[i].steer
                            /\ k <= Len(q) => ~q[k].steer
              /\ ~p.steer => k = Len(q) + 1
  BY InsertAtPlace
<1> HIDE DEF g
<1>3. \A i \in DOMAIN q : q[i].id < p.id
  BY DEF Waiting
<1>4. p.steer \in BOOLEAN /\ \A i \in DOMAIN q : q[i].steer \in BOOLEAN
  <2>1. \A i \in DOMAIN q : q[i] \in Queued
    OBVIOUS
  <2>2. QED
    BY <2>1 DEF Queued
<1>5. p.steer => \A i \in k .. Len(q) : ~q[i].steer
  BY <1>2, <1>4 DEF InOrder
<1>6. SUFFICES ASSUME NEW i \in DOMAIN g, NEW j \in DOMAIN g, i < j
               PROVE  /\ g[j].steer => g[i].steer
                      /\ g[i].steer = g[j].steer => g[i].id < g[j].id
  BY DEF InOrder, g
<1>7. i \in 1 .. (Len(q) + 1) /\ j \in 1 .. (Len(q) + 1)
  BY <1>1
<1>8. CASE j < k
  BY <1>2, <1>6, <1>7, <1>8 DEF InOrder
<1>9. CASE j = k
  BY <1>3, <1>2, <1>4, <1>6, <1>7, <1>9
<1>10. CASE i = k
  <2>1. p.steer /\ g[j] = q[j - 1] /\ j - 1 \in k .. Len(q)
    <3>1. k # Len(q) + 1 /\ k \in Nat /\ j - 1 \in k .. Len(q) /\ j \in (k + 1) .. (Len(q) + 1)
      BY <1>6, <1>7, <1>10
    <3>2. QED
      BY <1>2, <1>4, <3>1
  <2>2. QED
    BY <1>2, <1>5, <1>10, <2>1
<1>11. CASE i < k /\ k < j
  BY <1>2, <1>6, <1>7, <1>11 DEF InOrder
<1>12. CASE k < i
  <2>1. i - 1 \in DOMAIN q /\ j - 1 \in DOMAIN q /\ i - 1 < j - 1
    BY <1>6, <1>7, <1>12
  <2>2. g[i] = q[i - 1] /\ g[j] = q[j - 1]
    BY <1>2, <1>6, <1>7, <1>12
  <2>3. QED
    BY <2>1, <2>2 DEF InOrder
<1>13. QED
  BY <1>6, <1>7, <1>8, <1>9, <1>10, <1>11, <1>12

-----------------------------------------------------------------------------
(* Types.                                                                  *)

\* What the runtime emits are records.
LEMMA RecordTypes ==
  /\ \A id \in Ids, ok \in BOOLEAN : Response(id, ok) \in Record
  /\ \A q \in Seq(Queued) : QueueUpdate(q) \in Record
  /\ \A p \in Prompts : MessageStart(p) \in Record /\ QueueRejected(p) \in Record
  /\ AgentStart \in Record /\ Failed \in Record /\ Settled \in Record
  BY DEF Record, Response, QueueUpdate, MessageStart, QueueRejected, AgentStart, Failed, Settled

\* Emitting records leaves records in the socket.
LEMMA EmitType ==
  ASSUME records \in Seq(Record), NEW rs \in Seq(Record), Emit(rs)
  PROVE  records' \in Seq(Record)
  BY ConcatProperties, EmptySeq DEF Emit

\* A command that is taken is a command, and so are the others.
LEMMA TakeType ==
  ASSUME commands \in Seq(Command), NEW kind, Take(kind)
  PROVE  /\ commands' \in Seq(Command) /\ Head(commands) \in Command
         /\ Head(commands).id \in Ids /\ Head(commands).mode \in Modes /\ Head(commands).kind = kind
<1>1. commands' \in Seq(Command)
  BY DEF Take
<1>2. Head(commands) \in Command
  BY DEF Take
<1>3. QED
  BY <1>1, <1>2 DEF Take, Command

\* A failed run emits records.
LEMMA FailureType ==
  ASSUME records \in Seq(Record), NEW q \in Seq(Queued), RunFails(q)
  PROVE  records' \in Seq(Record)
<1> DEFINE rs == <<Failed>> \o IF q = <<>> THEN <<>> ELSE <<QueueRejected(Last(q).id)>>
<1>1. CASE q = <<>>
  <2>1. rs \in Seq(Record)
    BY <1>1, RecordTypes
  <2>2. QED
    BY <2>1, EmitType DEF RunFails
<1>2. CASE q # <<>>
  <2>1. Last(q) \in Queued
    BY <1>2 DEF Last
  <2>2. QueueRejected(Last(q).id) \in Record
    BY <2>1, RecordTypes DEF Queued
  <2>3. rs \in Seq(Record)
    BY <1>2, <2>2, RecordTypes
  <2>4. QED
    BY <2>3, EmitType DEF RunFails
<1>3. QED
  BY <1>1, <1>2

-----------------------------------------------------------------------------
\* What a step does to the history in memory and to the files; it may add a
\* message of M.
HistoryStep(M) ==
  \/ UNCHANGED <<current, mem, files, archive>>
  \/ Save(mem) /\ UNCHANGED <<current, mem, archive>>
  \/ /\ \E m \in M : mem' = Append(mem, m)
     /\ Save(mem') \/ SaveFails
     /\ UNCHANGED <<current, archive>>
  \/ \E s \in Session : current' = s /\ mem' = Repair(files[s]) /\ UNCHANGED <<files, archive>>
  \/ /\ \E tail \in Tails : mem' = <<User(SummaryText)>> \o tail
     /\ ArchiveFile
     /\ Save(mem') \/ SaveFails
     /\ UNCHANGED current

\* What the runtime adds to a history are messages.
LEMMA MessageTypes ==
  /\ \A p \in Nat : User(p) \in Message
  /\ \A cs \in Seq(Nat) : Assistant(cs) \in Message
  /\ \A c \in Nat : ToolResult(c) \in Message
  BY DEF Message, User, Assistant, ToolResult

\* The messages a compaction keeps.
LEMMA TailsAre ==
  ASSUME TypeOK, NEW tail \in Tails
  PROVE  \E k \in 1 .. (Len(mem) + 1) :
           tail = SubSeq(mem, k, Len(mem)) /\ (k <= Len(mem) => mem[k].role # "toolResult")
<1>1. mem \in Seq(Message)
  BY DEF TypeOK
<1>2. CASE tail = <<>>
  <2>1. SubSeq(mem, Len(mem) + 1, Len(mem)) = <<>>
    BY <1>1, SubSeqEmpty
  <2>2. Len(mem) + 1 \in 1 .. (Len(mem) + 1) /\ ~(Len(mem) + 1 <= Len(mem))
    BY <1>1
  <2>3. QED
    BY <1>2, <2>1, <2>2
<1>3. CASE tail # <<>>
  <2>1. PICK k \in 2 .. Len(mem) : tail = SubSeq(mem, k, Len(mem)) /\ mem[k].role # "toolResult"
    BY <1>3 DEF Tails
  <2>2. k \in 1 .. (Len(mem) + 1)
    BY <1>1
  <2>3. QED
    BY <2>1, <2>2
<1>4. QED
  BY <1>2, <1>3

\* What a compaction leaves.
LEMMA SummaryStep ==
  ASSUME TypeOK, NEW tail \in Tails, NEW L
  PROVE  LET g == <<User(SummaryText)>> \o tail
         IN  /\ g \in Seq(Message)
             /\ \A p \in Prompts : Holds(g, p) => Holds(mem, p)
             /\ HoldsOnce(mem, Prompts) => HoldsOnce(g, Prompts)
             /\ PairedBut(mem, L) => PairedBut(g, L)
<1>1. PICK k \in 1 .. (Len(mem) + 1) :
        tail = SubSeq(mem, k, Len(mem)) /\ (k <= Len(mem) => mem[k].role # "toolResult")
  BY TailsAre
<1>2. mem \in Seq(Message) /\ Prompts \in SUBSET (Nat \ {SummaryText})
  BY DEF TypeOK, Prompts, SummaryText
<1>3. QED
  BY <1>1, <1>2, SummaryKeeps

\* A step on the history keeps its types.
LEMMA HistoryTypes ==
  ASSUME TypeOK, HistoryStep(Message)
  PROVE  /\ current' \in Session /\ mem' \in Seq(Message)
         /\ files' \in [Session -> Seq(Message)] /\ archive' \in Seq(Message)
<1>1. /\ current \in Session /\ mem \in Seq(Message)
      /\ files \in [Session -> Seq(Message)] /\ archive \in Seq(Message)
  BY DEF TypeOK
<1>2. CASE UNCHANGED <<current, mem, files, archive>>
  BY <1>1, <1>2
<1>3. CASE Save(mem) /\ UNCHANGED <<current, mem, archive>>
  BY <1>1, <1>3 DEF Save
<1>4. CASE /\ \E m \in Message : mem' = Append(mem, m)
           /\ Save(mem') \/ SaveFails
           /\ UNCHANGED <<current, archive>>
  <2>1. mem' \in Seq(Message)
    BY <1>1, <1>4
  <2>2. QED
    BY <1>1, <1>4, <2>1 DEF Save, SaveFails
<1>5. CASE \E s \in Session : current' = s /\ mem' = Repair(files[s]) /\ UNCHANGED <<files, archive>>
  BY <1>1, <1>5, RepairAdds
<1>6. CASE /\ \E tail \in Tails : mem' = <<User(SummaryText)>> \o tail
           /\ ArchiveFile
           /\ Save(mem') \/ SaveFails
           /\ UNCHANGED current
  <2>1. mem' \in Seq(Message)
    BY <1>6, SummaryStep
  <2>2. QED
    BY <1>1, <1>6, <2>1 DEF Save, SaveFails, ArchiveFile
<1>7. QED
  BY <1>2, <1>3, <1>4, <1>5, <1>6 DEF HistoryStep

-----------------------------------------------------------------------------
\* Emitting one record or two.
LEMMA EmitsRecords ==
  ASSUME TypeOK
  PROVE  /\ \A r \in Record : Emit(<<r>>) => records' \in Seq(Record)
         /\ \A r, t \in Record : Emit(<<r, t>>) => records' \in Seq(Record)
<1>1. records \in Seq(Record)
  BY DEF TypeOK
<1>2. \A r \in Record : <<r>> \in Seq(Record)
  OBVIOUS
<1>3. \A r, t \in Record : <<r, t>> \in Seq(Record)
  OBVIOUS
<1>4. QED
  BY <1>1, <1>2, <1>3, EmitType

\* Answering a command emits a record.
LEMMA AnswerType ==
  ASSUME TypeOK, NEW kind, Take(kind), NEW ok \in BOOLEAN, Answer(ok)
  PROVE  records' \in Seq(Record)
<1>1. Head(commands).id \in Ids
  BY TakeType DEF TypeOK
<1>2. Response(Head(commands).id, ok) \in Record
  BY <1>1, RecordTypes
<1>3. QED
  BY <1>2, EmitsRecords DEF Answer

\* A task of its own ends with a record.
LEMMA EndTaskType ==
  ASSUME TypeOK, NEW ok \in BOOLEAN, EndTask(ok)
  PROVE  records' \in Seq(Record)
<1>1. Response(caller, ok) \in Record
  BY RecordTypes DEF TypeOK
<1>2. QED
  BY <1>1, EmitsRecords DEF EndTask

\* A failure emits records, whatever queue it drops.
LEMMA RunFailsType ==
  ASSUME TypeOK, NEW q \in Seq(Queued), RunFails(q)
  PROVE  records' \in Seq(Record)
  BY FailureType DEF TypeOK

\* The prompt that arrives is a submission.
LEMMA ArrivesQueued ==
  ASSUME TypeOK, Arriving, Take("prompt")
  PROVE  /\ Submission(Head(commands)) \in Queued
         /\ Head(commands).id[1] \in Prompts /\ Head(commands).id[1] \in 1 .. sent
         /\ \A p \in Known : p < Head(commands).id[1]
<1>1. commands # <<>> /\ Head(commands).kind = "prompt"
  BY DEF Take
<1>2. Head(commands) = commands[1] /\ 1 \in DOMAIN commands
  BY <1>1 DEF TypeOK
<1>3. Head(commands).id[1] \in 1 .. sent /\ \A p \in Known : p < Head(commands).id[1]
  BY <1>1, <1>2 DEF Arriving
<1>4. Head(commands).id[1] \in Prompts
  BY <1>3, WireAssumption DEF Prompts, TypeOK
<1>5. QED
  BY <1>3, <1>4 DEF Submission, Queued

\* Every step leaves records in the socket.
LEMMA RecordsTypes ==
  ASSUME TypeOK, Control, Arriving, Next
  PROVE  records' \in Seq(Record)
<1>1. CASE Abort
  <2>1. Take("abort") /\ \E ok \in BOOLEAN : Answer(ok)
    BY <1>1 DEF Abort
  <2>2. QED
    BY <2>1, AnswerType
<1>2. CASE ClearQueue
  <2>1. QueueUpdate(<<>>) \in Record
    BY RecordTypes, EmptySeq
  <2>2. Head(commands).id \in Ids
    BY <1>2, TakeType DEF ClearQueue, TypeOK
  <2>3. Response(Head(commands).id, TRUE) \in Record
    BY <2>2, RecordTypes
  <2>4. QED
    BY <1>2, <2>1, <2>3, EmitsRecords DEF ClearQueue
<1>3. CASE RefusePrompt
  <2>1. Take("prompt") /\ \E ok \in BOOLEAN : Answer(ok)
    BY <1>3 DEF RefusePrompt
  <2>2. QED
    BY <2>1, AnswerType
<1>4. CASE QueuePrompt
  <2>1. Head(commands).id \in Ids
    BY <1>4, TakeType DEF QueuePrompt, TypeOK
  <2>2. Insert(items, Submission(Head(commands))) \in Seq(Queued)
    BY <1>4, ArrivesQueued, InsertAtPlace DEF QueuePrompt, TypeOK
  <2>3. Response(Head(commands).id, TRUE) \in Record /\ QueueUpdate(Insert(items, Submission(Head(commands)))) \in Record
    BY <2>1, <2>2, RecordTypes
  <2>4. QED
    BY <1>4, <2>3, EmitsRecords DEF QueuePrompt
<1>5. CASE StartPrompt
  <2>1. Take("prompt") /\ \E ok \in BOOLEAN : Answer(ok)
    BY <1>5 DEF StartPrompt
  <2>2. QED
    BY <2>1, AnswerType
<1>6. CASE StartCompact
  BY <1>6 DEF StartCompact, TypeOK
<1>7. CASE StartExtension
  BY <1>7 DEF StartExtension, TypeOK
<1>8. CASE NewSession
  <2>1. Take("new_session") /\ \E ok \in BOOLEAN : Answer(ok)
    BY <1>8 DEF NewSession
  <2>2. QED
    BY <2>1, AnswerType
<1>9. CASE SwitchSession
  <2>1. Take("switch_session") /\ \E ok \in BOOLEAN : Answer(ok)
    BY <1>9 DEF SwitchSession
  <2>2. QED
    BY <2>1, AnswerType
<1>10. CASE SetModel
  <2>1. Take("set_model") /\ \E ok \in BOOLEAN : Answer(ok)
    BY <1>10 DEF SetModel
  <2>2. QED
    BY <2>1, AnswerType
<1>11. CASE RefuseCommand
  <2>1. \E kind \in Kinds : Take(kind) /\ Answer(FALSE)
    BY <1>11 DEF RefuseCommand, Kinds
  <2>2. QED
    BY <2>1, AnswerType
<1>12. CASE GetState
  <2>1. Take("get_state") /\ \E ok \in BOOLEAN : Answer(ok)
    BY <1>12 DEF GetState
  <2>2. QED
    BY <2>1, AnswerType
<1>13. CASE Begin
  <2>1. AgentStart \in Record
    BY RecordTypes
  <2>2. QED
    BY <1>13, <2>1, EmitsRecords DEF Begin
<1>14. CASE StartSummary
  BY <1>14 DEF StartSummary, wire, TypeOK
<1>15. CASE PushPrompt
  <2>1. turn \in Prompts
    BY <1>15 DEF PushPrompt, Control, Undelivered
  <2>2. MessageStart(turn) \in Record
    BY <2>1, RecordTypes
  <2>3. Emit(<<MessageStart(turn)>>) \/ RunFails(items)
    BY <1>15 DEF PushPrompt
  <2>4. QED
    BY <2>2, <2>3, EmitsRecords, RunFailsType DEF TypeOK
<1>16. CASE LeaveSteps
  BY <1>16 DEF LeaveSteps, wire, TypeOK
<1>17. CASE TakeSteering
  <2>1. Head(items) \in Queued
    BY <1>17 DEF TakeSteering, TypeOK
  <2>2. Tail(items) \in Seq(Queued)
    BY <1>17 DEF TakeSteering, TypeOK
  <2>3. MessageStart(Head(items).id) \in Record /\ QueueUpdate(Tail(items)) \in Record
    BY <2>1, <2>2, RecordTypes DEF Queued
  <2>4. Emit(<<MessageStart(Head(items).id), QueueUpdate(Tail(items))>>) \/ RunFails(Tail(items))
    BY <1>17 DEF TakeSteering
  <2>5. QED
    BY <2>2, <2>3, <2>4, EmitsRecords, RunFailsType
<1>18. CASE NoSteering
  BY <1>18 DEF NoSteering, wire, TypeOK
<1>19. CASE Pressure
  <2>1. UNCHANGED records \/ RunFails(items)
    BY <1>19 DEF Pressure
  <2>2. QED
    BY <2>1, RunFailsType DEF TypeOK
<1>20. CASE StillTooLarge
  BY <1>20, RunFailsType DEF StillTooLarge, TypeOK
<1>21. CASE CallModel
  BY <1>21 DEF CallModel, wire, TypeOK
<1>22. CASE Reply
  <2>1. UNCHANGED records \/ RunFails(items)
    BY <1>22 DEF Reply
  <2>2. QED
    BY <2>1, RunFailsType DEF TypeOK
<1>23. CASE ModelFails
  BY <1>23, RunFailsType DEF ModelFails, TypeOK
<1>24. CASE ModelCancelled
  BY <1>24 DEF ModelCancelled, wire, TypeOK
<1>25. CASE StartTool
  BY <1>25 DEF StartTool, wire, TypeOK
<1>26. CASE SkipTool
  <2>1. UNCHANGED records \/ RunFails(items)
    BY <1>26 DEF SkipTool, RecordResult
  <2>2. QED
    BY <2>1, RunFailsType DEF TypeOK
<1>27. CASE ToolReturns
  <2>1. UNCHANGED records \/ RunFails(items)
    BY <1>27 DEF ToolReturns, RecordResult
  <2>2. QED
    BY <2>1, RunFailsType DEF TypeOK
<1>28. CASE OutOfSteps
  BY <1>28, RunFailsType DEF OutOfSteps, TypeOK
<1>29. CASE StopCancelled
  BY <1>29 DEF StopCancelled, wire, TypeOK
<1>30. CASE NextTurn
  <2>1. Tail(items) \in Seq(Queued)
    BY <1>30 DEF NextTurn, TypeOK
  <2>2. QueueUpdate(Tail(items)) \in Record
    BY <2>1, RecordTypes
  <2>3. QED
    BY <1>30, <2>2, EmitsRecords DEF NextTurn
<1>31. CASE LastTurn
  <2>1. QueueUpdate(<<>>) \in Record
    BY RecordTypes, EmptySeq
  <2>2. QED
    BY <1>31, <2>1, EmitsRecords DEF LastTurn
<1>32. CASE Settle
  <2>1. QueueUpdate(<<>>) \in Record /\ Settled \in Record
    BY RecordTypes, EmptySeq
  <2>2. QED
    BY <1>32, <2>1, EmitsRecords DEF Settle
<1>33. CASE ManualSummary
  <2>1. UNCHANGED records \/ EndTask(FALSE)
    BY <1>33 DEF ManualSummary
  <2>2. QED
    BY <2>1, EndTaskType DEF TypeOK
<1>34. CASE SummaryArrives
  <2>1. UNCHANGED records \/ EndTask(TRUE) \/ EndTask(FALSE) \/ RunFails(items)
    BY <1>34 DEF SummaryArrives, SummaryContinues, SummaryEnds
  <2>2. QED
    BY <2>1, EndTaskType, RunFailsType DEF TypeOK
<1>35. CASE SummaryFails
  <2>1. EndTask(FALSE) \/ RunFails(items)
    BY <1>35 DEF SummaryFails, SummaryEnds
  <2>2. QED
    BY <2>1, EndTaskType, RunFailsType DEF TypeOK
<1>36. CASE ExtensionReturns
  BY <1>36, EndTaskType DEF ExtensionReturns
<1>37. CASE Restart
  BY <1>37 DEF Restart
<1>38. CASE SendPrompt
  BY <1>38 DEF SendPrompt, TypeOK
<1>39. CASE SendCommand
  BY <1>39 DEF SendCommand, TypeOK
<1>40. QED
  BY <1>1, <1>2, <1>3, <1>4, <1>5, <1>6, <1>7, <1>8, <1>9, <1>10, <1>11, <1>12, <1>13, <1>14,
     <1>15, <1>16, <1>17, <1>18, <1>19, <1>20, <1>21, <1>22, <1>23, <1>24, <1>25, <1>26, <1>27,
     <1>28, <1>29, <1>30, <1>31, <1>32, <1>33, <1>34, <1>35, <1>36, <1>37, <1>38, <1>39 DEF Next,
     Loop, Task, Environment


-----------------------------------------------------------------------------
(* What a step does to the task, the queue and the history.                *)

\* Where the task is, its signals and what it knows of the provider.
LEMMA PlaceTypes ==
  ASSUME TypeOK, Next
  PROVE  /\ pc' \in Places /\ resume' \in {"none", "push", "steer", "recheck", "reply"}
         /\ running' \in BOOLEAN /\ cancel' \in BOOLEAN /\ changed' \in BOOLEAN
         /\ provider' \in Providers /\ context' \in BOOLEAN
<1>1. CASE Abort
  BY <1>1 DEF Abort, queue, session, task, TypeOK
<1>2. CASE ClearQueue
  BY <1>2 DEF ClearQueue, signal, session, task, TypeOK
<1>3. CASE RefusePrompt
  BY <1>3 DEF RefusePrompt, queue, signal, session, task, TypeOK
<1>4. CASE QueuePrompt
  BY <1>4 DEF QueuePrompt, signal, session, task, TypeOK
<1>5. CASE StartPrompt
  BY <1>5 DEF StartPrompt, Spawn, session, Places, TypeOK
<1>6. CASE StartCompact
  BY <1>6 DEF StartCompact, Spawn, session, Places, TypeOK
<1>7. CASE StartExtension
  BY <1>7 DEF StartExtension, Spawn, session, Places, TypeOK
<1>8. CASE NewSession
  BY <1>8 DEF NewSession, Load, queue, signal, task, TypeOK
<1>9. CASE SwitchSession
  BY <1>9 DEF SwitchSession, Load, Usage, queue, signal, task, TypeOK
<1>10. CASE SetModel
  BY <1>10 DEF SetModel, queue, signal, task, TypeOK
<1>11. CASE RefuseCommand
  BY <1>11 DEF RefuseCommand, queue, signal, session, task, TypeOK
<1>12. CASE GetState
  BY <1>12 DEF GetState, queue, signal, session, task, TypeOK
<1>13. CASE Begin
  BY <1>13 DEF Begin, queue, signal, session, Places, TypeOK
<1>14. CASE StartSummary
  BY <1>14 DEF StartSummary, queue, signal, session, Places, TypeOK
<1>15. CASE PushPrompt
  BY <1>15 DEF PushPrompt, queue, RunFails, signal, Places, TypeOK
<1>16. CASE LeaveSteps
  BY <1>16 DEF LeaveSteps, queue, signal, session, Places, TypeOK
<1>17. CASE TakeSteering
  BY <1>17 DEF TakeSteering, RunFails, signal, Places, TypeOK
<1>18. CASE NoSteering
  BY <1>18 DEF NoSteering, queue, signal, session, Places, TypeOK
<1>19. CASE Pressure
  BY <1>19 DEF Pressure, queue, RunFails, signal, Places, TypeOK
<1>20. CASE StillTooLarge
  BY <1>20 DEF StillTooLarge, RunFails, signal, session, Places, TypeOK
<1>21. CASE CallModel
  BY <1>21 DEF CallModel, queue, signal, session, Places, TypeOK
<1>22. CASE Reply
  BY <1>22 DEF Reply, queue, RunFails, Usage, signal, Places, TypeOK
<1>23. CASE ModelFails
  BY <1>23 DEF ModelFails, RunFails, signal, session, Places, TypeOK
<1>24. CASE ModelCancelled
  BY <1>24 DEF ModelCancelled, queue, session, Places, TypeOK
<1>25. CASE StartTool
  BY <1>25 DEF StartTool, queue, signal, session, Places, TypeOK
<1>26. CASE SkipTool
  BY <1>26 DEF SkipTool, RecordResult, queue, RunFails, Places, TypeOK
<1>27. CASE ToolReturns
  BY <1>27 DEF ToolReturns, RecordResult, queue, RunFails, Places, TypeOK
<1>28. CASE OutOfSteps
  BY <1>28 DEF OutOfSteps, RunFails, signal, session, Places, TypeOK
<1>29. CASE StopCancelled
  BY <1>29 DEF StopCancelled, signal, session, Places, TypeOK
<1>30. CASE NextTurn
  BY <1>30 DEF NextTurn, signal, session, Places, TypeOK
<1>31. CASE LastTurn
  BY <1>31 DEF LastTurn, signal, session, Places, TypeOK
<1>32. CASE Settle
  BY <1>32 DEF Settle, Drop, session, Places, TypeOK
<1>33. CASE ManualSummary
  BY <1>33 DEF ManualSummary, EndTask, Drop, queue, Places, TypeOK
<1>34. CASE SummaryArrives
  BY <1>34 DEF SummaryArrives, SummaryContinues, EndTask, Drop, queue, SummaryEnds, RunFails,
     Places, TypeOK
<1>35. CASE SummaryFails
  BY <1>35 DEF SummaryFails, SummaryEnds, EndTask, Drop, RunFails, session, Places, TypeOK
<1>36. CASE ExtensionReturns
  BY <1>36 DEF ExtensionReturns, EndTask, Drop, session, Places, TypeOK
<1>37. CASE Restart
  BY <1>37 DEF Restart, Load, Usage, Places
<1>38. CASE SendPrompt
  BY <1>38 DEF SendPrompt, queue, signal, session, task, TypeOK
<1>39. CASE SendCommand
  BY <1>39 DEF SendCommand, queue, signal, session, task, TypeOK
<1>40. QED
  BY <1>1, <1>2, <1>3, <1>4, <1>5, <1>6, <1>7, <1>8, <1>9, <1>10, <1>11, <1>12, <1>13, <1>14,
     <1>15, <1>16, <1>17, <1>18, <1>19, <1>20, <1>21, <1>22, <1>23, <1>24, <1>25, <1>26, <1>27,
     <1>28, <1>29, <1>30, <1>31, <1>32, <1>33, <1>34, <1>35, <1>36, <1>37, <1>38, <1>39 DEF Next,
     Loop, Task, Environment

\* What a step does to the locals of the task.
LEMMA LocalSteps ==
  ASSUME Next
  PROVE  /\ \/ UNCHANGED turn
            \/ turn' = 0
            \/ Take("prompt") /\ turn' = Head(commands).id[1]
            \/ items # <<>> /\ turn' = Head(items).id
         /\ \/ UNCHANGED <<calls, nextCall>>
            \/ calls' = <<>> /\ UNCHANGED nextCall
            \/ Reply
            \/ calls' = Tail(calls) /\ UNCHANGED nextCall /\ pc \in {"call", "tool"}
         /\ \/ UNCHANGED step
            \/ step' = 0
            \/ step' = step + 1 /\ pc \in {"call", "tool"}
         /\ \/ UNCHANGED caller
            \/ caller' = <<0, "main">>
            \/ \E kind \in Kinds : Take(kind) /\ caller' = Head(commands).id
<1>1. CASE Abort
  BY <1>1 DEF Abort, task
<1>2. CASE ClearQueue
  BY <1>2 DEF ClearQueue, task
<1>3. CASE RefusePrompt
  BY <1>3 DEF RefusePrompt, task
<1>4. CASE QueuePrompt
  BY <1>4 DEF QueuePrompt, task
<1>5. CASE StartPrompt
  BY <1>5 DEF StartPrompt
<1>6. CASE StartCompact
  BY <1>6 DEF StartCompact, Kinds
<1>7. CASE StartExtension
  BY <1>7 DEF StartExtension, Kinds
<1>8. CASE NewSession
  BY <1>8 DEF NewSession, task
<1>9. CASE SwitchSession
  BY <1>9 DEF SwitchSession, task
<1>10. CASE SetModel
  BY <1>10 DEF SetModel, task
<1>11. CASE RefuseCommand
  BY <1>11 DEF RefuseCommand, task
<1>12. CASE GetState
  BY <1>12 DEF GetState, task
<1>13. CASE Begin
  BY <1>13 DEF Begin
<1>14. CASE StartSummary
  BY <1>14 DEF StartSummary
<1>15. CASE PushPrompt
  BY <1>15 DEF PushPrompt
<1>16. CASE LeaveSteps
  BY <1>16 DEF LeaveSteps
<1>17. CASE TakeSteering
  BY <1>17 DEF TakeSteering
<1>18. CASE NoSteering
  BY <1>18 DEF NoSteering
<1>19. CASE Pressure
  BY <1>19 DEF Pressure
<1>20. CASE StillTooLarge
  BY <1>20 DEF StillTooLarge
<1>21. CASE CallModel
  BY <1>21 DEF CallModel
<1>22. CASE Reply
  BY <1>22 DEF Reply
<1>23. CASE ModelFails
  BY <1>23 DEF ModelFails
<1>24. CASE ModelCancelled
  BY <1>24 DEF ModelCancelled
<1>25. CASE StartTool
  BY <1>25 DEF StartTool
<1>26. CASE SkipTool
  BY <1>26 DEF SkipTool, RecordResult
<1>27. CASE ToolReturns
  BY <1>27 DEF ToolReturns, RecordResult
<1>28. CASE OutOfSteps
  BY <1>28 DEF OutOfSteps
<1>29. CASE StopCancelled
  BY <1>29 DEF StopCancelled
<1>30. CASE NextTurn
  BY <1>30 DEF NextTurn
<1>31. CASE LastTurn
  BY <1>31 DEF LastTurn
<1>32. CASE Settle
  BY <1>32 DEF Settle, Drop
<1>33. CASE ManualSummary
  BY <1>33 DEF ManualSummary, EndTask, Drop
<1>34. CASE SummaryArrives
  BY <1>34 DEF SummaryArrives, SummaryContinues, EndTask, Drop, SummaryEnds
<1>35. CASE SummaryFails
  BY <1>35 DEF SummaryFails, SummaryEnds, EndTask, Drop
<1>36. CASE ExtensionReturns
  BY <1>36 DEF ExtensionReturns, EndTask, Drop
<1>37. CASE Restart
  BY <1>37 DEF Restart
<1>38. CASE SendPrompt
  BY <1>38 DEF SendPrompt, task
<1>39. CASE SendCommand
  BY <1>39 DEF SendCommand, task
<1>40. QED
  BY <1>1, <1>2, <1>3, <1>4, <1>5, <1>6, <1>7, <1>8, <1>9, <1>10, <1>11, <1>12, <1>13, <1>14,
     <1>15, <1>16, <1>17, <1>18, <1>19, <1>20, <1>21, <1>22, <1>23, <1>24, <1>25, <1>26, <1>27,
     <1>28, <1>29, <1>30, <1>31, <1>32, <1>33, <1>34, <1>35, <1>36, <1>37, <1>38, <1>39 DEF Next,
     Loop, Task, Environment

\* Messages that carry no prompt.
Silent == {m \in Message : m.role # "user"}

\* Replies and results carry no prompt.
LEMMA SilentTypes ==
  /\ \A cs \in Seq(Nat) : Assistant(cs) \in Silent
  /\ \A c \in Nat : ToolResult(c) \in Silent
  BY DEF Silent, Message, Assistant, ToolResult

\* A result is added to the history, and carries no prompt.
LEMMA ResultStep ==
  ASSUME TypeOK, Requested, pc \in {"call", "tool"}, RecordResult
  PROVE  HistoryStep(Silent)
<1>1. calls \in Seq(Nat) /\ calls # <<>>
  BY DEF TypeOK, Requested, Awaits
<1>2. Head(calls) \in Nat
  BY <1>1
<1>3. ToolResult(Head(calls)) \in Silent
  BY <1>2, SilentTypes
<1>4. QED
  BY <1>3 DEF RecordResult, HistoryStep

\* A reply is added to the history with calls that differ from each other, and is
\* followed by its calls, if it makes any.
LEMMA ReplyStep ==
  ASSUME TypeOK, Reply
  PROVE  /\ HistoryStep(Silent)
         /\ \E cs \in Seq(Nat) : /\ calls' = cs /\ mem' = Append(mem, Assistant(cs))
                                 /\ \A i, j \in DOMAIN cs : cs[i] = cs[j] => i = j
                                 /\ \/ /\ (cs = <<>> /\ pc' = "completed") \/ (cs # <<>> /\ pc' = "call")
                                       /\ Save(mem') /\ UNCHANGED lost
                                    \/ /\ pc' = "settle"
                                       /\ SaveFails /\ lost' = lost \cup ToSet(cs)
         /\ nextCall' \in Nat
<1>1. PICK n \in 0 .. MaxCalls :
        /\ mem' = Append(mem, Assistant([i \in 1 .. n |-> nextCall + i - 1]))
        /\ calls' = [i \in 1 .. n |-> nextCall + i - 1]
        /\ nextCall' = nextCall + n
        /\ \/ /\ Save(mem') /\ pc' = IF n = 0 THEN "completed" ELSE "call"
              /\ UNCHANGED lost
           \/ /\ SaveFails /\ pc' = "settle"
              /\ lost' = lost \cup ToSet([i \in 1 .. n |-> nextCall + i - 1])
  BY DEF Reply, RunFails
<1>2. nextCall \in Nat /\ n \in Nat
  BY <1>1, EngineAssumption DEF TypeOK
<1>3. \A i \in 1 .. n : nextCall + i - 1 \in Nat
  BY <1>2
<1> DEFINE cs == [i \in 1 .. n |-> nextCall + i - 1]
<1>4. cs \in Seq(Nat) /\ Len(cs) = n /\ DOMAIN cs = 1 .. n /\ (cs = <<>> <=> n = 0)
  BY <1>2, <1>3
<1>5. \A i, j \in DOMAIN cs : cs[i] = cs[j] => i = j
  BY <1>2
<1>6. calls' = cs /\ mem' = Append(mem, Assistant(cs))
  BY <1>1
<1> HIDE DEF cs
<1>7. UNCHANGED <<current, archive>>
  BY DEF Reply
<1>8. HistoryStep(Silent)
  BY <1>1, <1>4, <1>6, <1>7, SilentTypes DEF HistoryStep
<1>9. nextCall' \in Nat
  BY <1>1, <1>2
<1>10. \/ /\ (cs = <<>> /\ pc' = "completed") \/ (cs # <<>> /\ pc' = "call")
          /\ Save(mem') /\ UNCHANGED lost
       \/ /\ pc' = "settle"
          /\ SaveFails /\ lost' = lost \cup ToSet(cs)
  BY <1>1, <1>4 DEF cs
<1>11. QED
  BY <1>4, <1>5, <1>6, <1>8, <1>9, <1>10

\* Nothing is delivered, and nothing waits that did not.
Keeps == /\ items' \in {items, <<>>}
         /\ Undelivered' \subseteq Undelivered
         /\ HistoryStep(Silent)

\* A step moves at most one submission.
LEMMA Moves ==
  ASSUME TypeOK, Requested, Next
  PROVE  Keeps \/ QueuePrompt \/ StartPrompt \/ PushPrompt \/ TakeSteering \/ NextTurn
<1>1. CASE Abort
  BY <1>1 DEF Abort, queue, session, task, Keeps, Undelivered, HistoryStep
<1>2. CASE ClearQueue
  BY <1>2 DEF ClearQueue, session, task, Keeps, Undelivered, HistoryStep
<1>3. CASE RefusePrompt
  BY <1>3 DEF RefusePrompt, queue, session, task, Keeps, Undelivered, HistoryStep
<1>4. CASE QueuePrompt
  BY <1>4
<1>5. CASE StartPrompt
  BY <1>5
<1>6. CASE StartCompact
  BY <1>6 DEF StartCompact, Spawn, session, Keeps, Undelivered, HistoryStep
<1>7. CASE StartExtension
  BY <1>7 DEF StartExtension, Spawn, session, Keeps, Undelivered, HistoryStep
<1>8. CASE NewSession
  BY <1>8 DEF NewSession, Load, queue, task, Keeps, Undelivered, HistoryStep
<1>9. CASE SwitchSession
  BY <1>9 DEF SwitchSession, Load, queue, task, Keeps, Undelivered, HistoryStep
<1>10. CASE SetModel
  BY <1>10 DEF SetModel, queue, task, Keeps, Undelivered, HistoryStep, SaveFails
<1>11. CASE RefuseCommand
  BY <1>11 DEF RefuseCommand, queue, session, task, Keeps, Undelivered, HistoryStep
<1>12. CASE GetState
  BY <1>12 DEF GetState, queue, session, task, Keeps, Undelivered, HistoryStep
<1>13. CASE Begin
  BY <1>13 DEF Begin, queue, session, Keeps, Undelivered, HistoryStep
<1>14. CASE StartSummary
  BY <1>14 DEF StartSummary, queue, session, Keeps, Undelivered, HistoryStep
<1>15. CASE PushPrompt
  BY <1>15
<1>16. CASE LeaveSteps
  BY <1>16 DEF LeaveSteps, queue, session, Keeps, Undelivered, HistoryStep
<1>17. CASE TakeSteering
  BY <1>17
<1>18. CASE NoSteering
  BY <1>18 DEF NoSteering, queue, session, Keeps, Undelivered, HistoryStep
<1>19. CASE Pressure
  BY <1>19 DEF Pressure, queue, RunFails, Keeps, Undelivered, HistoryStep, SaveFails
<1>20. CASE StillTooLarge
  BY <1>20 DEF StillTooLarge, RunFails, session, Keeps, Undelivered, HistoryStep
<1>21. CASE CallModel
  BY <1>21 DEF CallModel, queue, session, Keeps, Undelivered, HistoryStep
<1>22. CASE Reply
  <2>1. items' \in {items, <<>>} /\ pc' \in {"settle", "completed", "call"}
    BY <1>22 DEF Reply, queue, RunFails
  <2>2. QED
    BY <1>22, <2>1, ReplyStep DEF Keeps, Undelivered
<1>23. CASE ModelFails
  BY <1>23 DEF ModelFails, RunFails, session, Keeps, Undelivered, HistoryStep
<1>24. CASE ModelCancelled
  BY <1>24 DEF ModelCancelled, queue, session, Keeps, Undelivered, HistoryStep
<1>25. CASE StartTool
  BY <1>25 DEF StartTool, queue, session, Keeps, Undelivered, HistoryStep
<1>26. CASE SkipTool
  <2>1. items' \in {items, <<>>} /\ pc' \in {"settle", "step", "call"}
    BY <1>26 DEF SkipTool, RecordResult, queue, RunFails
  <2>2. QED
    BY <1>26, <2>1, ResultStep DEF SkipTool, Keeps, Undelivered
<1>27. CASE ToolReturns
  <2>1. items' \in {items, <<>>} /\ pc' \in {"settle", "step", "call"}
    BY <1>27 DEF ToolReturns, RecordResult, queue, RunFails
  <2>2. QED
    BY <1>27, <2>1, ResultStep DEF ToolReturns, Keeps, Undelivered
<1>28. CASE OutOfSteps
  BY <1>28 DEF OutOfSteps, RunFails, session, Keeps, Undelivered, HistoryStep
<1>29. CASE StopCancelled
  BY <1>29 DEF StopCancelled, session, Keeps, Undelivered, HistoryStep
<1>30. CASE NextTurn
  BY <1>30
<1>31. CASE LastTurn
  BY <1>31 DEF LastTurn, session, Keeps, Undelivered, HistoryStep
<1>32. CASE Settle
  BY <1>32 DEF Settle, Drop, session, Keeps, Undelivered, HistoryStep
<1>33. CASE ManualSummary
  BY <1>33 DEF ManualSummary, EndTask, Drop, queue, Keeps, Undelivered, HistoryStep, SaveFails
<1>34. CASE SummaryArrives
  BY <1>34 DEF SummaryArrives, SummaryContinues, EndTask, Drop, queue, SummaryEnds, RunFails,
     Keeps, Undelivered, HistoryStep, TypeOK
<1>35. CASE SummaryFails
  BY <1>35 DEF SummaryFails, SummaryEnds, EndTask, Drop, RunFails, session, Keeps, Undelivered,
     HistoryStep
<1>36. CASE ExtensionReturns
  BY <1>36 DEF ExtensionReturns, EndTask, Drop, session, Keeps, Undelivered, HistoryStep
<1>37. CASE Restart
  BY <1>37 DEF Restart, Load, Keeps, Undelivered, HistoryStep
<1>38. CASE SendPrompt
  BY <1>38 DEF SendPrompt, queue, session, task, Keeps, Undelivered, HistoryStep
<1>39. CASE SendCommand
  BY <1>39 DEF SendCommand, queue, session, task, Keeps, Undelivered, HistoryStep
<1>40. QED
  BY <1>1, <1>2, <1>3, <1>4, <1>5, <1>6, <1>7, <1>8, <1>9, <1>10, <1>11, <1>12, <1>13, <1>14,
     <1>15, <1>16, <1>17, <1>18, <1>19, <1>20, <1>21, <1>22, <1>23, <1>24, <1>25, <1>26, <1>27,
     <1>28, <1>29, <1>30, <1>31, <1>32, <1>33, <1>34, <1>35, <1>36, <1>37, <1>38, <1>39 DEF Next,
     Loop, Task, Environment

\* What a step does to the commands that wait and to the queue.
LEMMA WireSteps ==
  ASSUME Next
  PROVE  /\ \/ UNCHANGED commands
            \/ commands' = <<>>
            \/ \E kind \in Kinds : Take(kind)
            \/ SendPrompt
            \/ SendCommand
         /\ UNCHANGED sent \/ SendPrompt
         /\ \/ UNCHANGED items
            \/ items' = <<>>
            \/ items # <<>> /\ items' = Tail(items)
            \/ QueuePrompt
<1>1. CASE Abort
  BY <1>1 DEF Abort, queue, Kinds
<1>2. CASE ClearQueue
  BY <1>2 DEF ClearQueue, Kinds
<1>3. CASE RefusePrompt
  BY <1>3 DEF RefusePrompt, queue, Kinds
<1>4. CASE QueuePrompt
  BY <1>4 DEF QueuePrompt, Kinds
<1>5. CASE StartPrompt
  BY <1>5 DEF StartPrompt, Kinds
<1>6. CASE StartCompact
  BY <1>6 DEF StartCompact, Kinds
<1>7. CASE StartExtension
  BY <1>7 DEF StartExtension, Kinds
<1>8. CASE NewSession
  BY <1>8 DEF NewSession, queue, Kinds
<1>9. CASE SwitchSession
  BY <1>9 DEF SwitchSession, queue, Kinds
<1>10. CASE SetModel
  BY <1>10 DEF SetModel, queue, Kinds
<1>11. CASE RefuseCommand
  BY <1>11 DEF RefuseCommand, queue, Kinds
<1>12. CASE GetState
  BY <1>12 DEF GetState, queue, Kinds
<1>13. CASE Begin
  BY <1>13 DEF Begin, queue
<1>14. CASE StartSummary
  BY <1>14 DEF StartSummary, wire, queue
<1>15. CASE PushPrompt
  BY <1>15 DEF PushPrompt, queue, RunFails
<1>16. CASE LeaveSteps
  BY <1>16 DEF LeaveSteps, wire, queue
<1>17. CASE TakeSteering
  BY <1>17 DEF TakeSteering, RunFails
<1>18. CASE NoSteering
  BY <1>18 DEF NoSteering, wire, queue
<1>19. CASE Pressure
  BY <1>19 DEF Pressure, queue, RunFails
<1>20. CASE StillTooLarge
  BY <1>20 DEF StillTooLarge, RunFails
<1>21. CASE CallModel
  BY <1>21 DEF CallModel, wire, queue
<1>22. CASE Reply
  BY <1>22 DEF Reply, queue, RunFails
<1>23. CASE ModelFails
  BY <1>23 DEF ModelFails, RunFails
<1>24. CASE ModelCancelled
  BY <1>24 DEF ModelCancelled, wire, queue
<1>25. CASE StartTool
  BY <1>25 DEF StartTool, wire, queue
<1>26. CASE SkipTool
  BY <1>26 DEF SkipTool, RecordResult, queue, RunFails
<1>27. CASE ToolReturns
  BY <1>27 DEF ToolReturns, RecordResult, queue, RunFails
<1>28. CASE OutOfSteps
  BY <1>28 DEF OutOfSteps, RunFails
<1>29. CASE StopCancelled
  BY <1>29 DEF StopCancelled, wire
<1>30. CASE NextTurn
  BY <1>30 DEF NextTurn
<1>31. CASE LastTurn
  BY <1>31 DEF LastTurn
<1>32. CASE Settle
  BY <1>32 DEF Settle
<1>33. CASE ManualSummary
  BY <1>33 DEF ManualSummary, EndTask, queue
<1>34. CASE SummaryArrives
  BY <1>34 DEF SummaryArrives, SummaryContinues, EndTask, queue, SummaryEnds, RunFails
<1>35. CASE SummaryFails
  BY <1>35 DEF SummaryFails, SummaryEnds, EndTask, RunFails
<1>36. CASE ExtensionReturns
  BY <1>36 DEF ExtensionReturns, EndTask
<1>37. CASE Restart
  BY <1>37 DEF Restart
<1>38. CASE SendPrompt
  BY <1>38 DEF SendPrompt, queue
<1>39. CASE SendCommand
  BY <1>39 DEF SendCommand, queue
<1>40. QED
  BY <1>1, <1>2, <1>3, <1>4, <1>5, <1>6, <1>7, <1>8, <1>9, <1>10, <1>11, <1>12, <1>13, <1>14,
     <1>15, <1>16, <1>17, <1>18, <1>19, <1>20, <1>21, <1>22, <1>23, <1>24, <1>25, <1>26, <1>27,
     <1>28, <1>29, <1>30, <1>31, <1>32, <1>33, <1>34, <1>35, <1>36, <1>37, <1>38, <1>39 DEF Next,
     Loop, Task, Environment

\* Every step leaves commands in the socket.
LEMMA CommandsTyped ==
  ASSUME TypeOK, Next
  PROVE  commands' \in Seq(Command) /\ sent' \in 0 .. MaxPrompts
<1>1. commands \in Seq(Command) /\ sent \in 0 .. MaxPrompts
  BY DEF TypeOK
<1>2. CASE SendPrompt
  <2>1. PICK mode \in Modes :
          commands' = Append(commands, [kind |-> "prompt", id |-> <<sent + 1, "main">>, mode |-> mode])
    BY <1>2 DEF SendPrompt
  <2>2. [kind |-> "prompt", id |-> <<sent + 1, "main">>, mode |-> mode] \in Command
    BY <1>1 DEF Command, Kinds, Ids
  <2>3. commands' \in Seq(Command)
    BY <1>1, <2>1, <2>2
  <2>4. sent' \in 0 .. MaxPrompts
    BY <1>1, <1>2, WireAssumption DEF SendPrompt
  <2>5. QED
    BY <2>3, <2>4
<1>3. CASE SendCommand
  <2>1. PICK kind \in Offered :
          commands' = Append(commands, [kind |-> kind, id |-> <<0, "main">>, mode |-> "none"])
    BY <1>3 DEF SendCommand
  <2>2. [kind |-> kind, id |-> <<0, "main">>, mode |-> "none"] \in Command
    BY <2>1, EngineAssumption DEF Command, Ids, Modes
  <2>3. QED
    BY <1>1, <1>3, <2>1, <2>2 DEF SendCommand
<1>4. CASE ~SendPrompt /\ ~SendCommand
  <2>1. UNCHANGED sent
    BY <1>4, WireSteps
  <2>2. UNCHANGED commands \/ commands' = <<>> \/ \E kind \in Kinds : Take(kind)
    BY <1>4, WireSteps
  <2>3. \A kind \in Kinds : Take(kind) => commands' \in Seq(Command)
    <3>1. commands \in Seq(Command)
      BY <1>1
    <3>2. QED
      BY <3>1, TakeType
  <2>4. <<>> \in Seq(Command)
    OBVIOUS
  <2>5. QED
    BY <1>1, <2>1, <2>2, <2>3, <2>4
<1>5. QED
  BY <1>2, <1>3, <1>4

\* Every step keeps the queue within its limit.
LEMMA QueueTyped ==
  ASSUME TypeOK, Arriving, Next
  PROVE  items' \in Seq(Queued) /\ Len(items') <= QueueLimit
<1>1. items \in Seq(Queued) /\ Len(items) <= QueueLimit /\ QueueLimit \in Nat
  BY WireAssumption DEF TypeOK
<1>2. CASE QueuePrompt
  <2>1. Submission(Head(commands)) \in Queued
    BY <1>2, ArrivesQueued DEF QueuePrompt
  <2>2. items' = Insert(items, Submission(Head(commands))) /\ Len(items) < QueueLimit
    BY <1>2 DEF QueuePrompt, MayWait
  <2>3. items' \in Seq(Queued) /\ Len(items') = Len(items) + 1
    BY <1>1, <2>1, <2>2, InsertAtPlace
  <2>4. QED
    BY <1>1, <2>2, <2>3
<1>3. CASE UNCHANGED items
  BY <1>1, <1>3
<1>4. CASE items' = <<>>
  BY <1>1, <1>4
<1>5. CASE items # <<>> /\ items' = Tail(items)
  BY <1>1, <1>5
<1>6. QED
  BY <1>2, <1>3, <1>4, <1>5, WireSteps

\* Calls are lost only where a save of a reply or of a result fails.
LEMMA LostSteps ==
  ASSUME Next
  PROVE  UNCHANGED lost \/ Reply \/ (RecordResult /\ pc \in {"call", "tool"})
<1>1. CASE Abort
  BY <1>1 DEF Abort, session
<1>2. CASE ClearQueue
  BY <1>2 DEF ClearQueue, session
<1>3. CASE RefusePrompt
  BY <1>3 DEF RefusePrompt, session
<1>4. CASE QueuePrompt
  BY <1>4 DEF QueuePrompt, session
<1>5. CASE StartPrompt
  BY <1>5 DEF StartPrompt, session
<1>6. CASE StartCompact
  BY <1>6 DEF StartCompact, session
<1>7. CASE StartExtension
  BY <1>7 DEF StartExtension, session
<1>8. CASE NewSession
  BY <1>8 DEF NewSession, Load
<1>9. CASE SwitchSession
  BY <1>9 DEF SwitchSession, Load
<1>10. CASE SetModel
  BY <1>10 DEF SetModel
<1>11. CASE RefuseCommand
  BY <1>11 DEF RefuseCommand, session
<1>12. CASE GetState
  BY <1>12 DEF GetState, session
<1>13. CASE Begin
  BY <1>13 DEF Begin, session
<1>14. CASE StartSummary
  BY <1>14 DEF StartSummary, session
<1>15. CASE PushPrompt
  BY <1>15 DEF PushPrompt
<1>16. CASE LeaveSteps
  BY <1>16 DEF LeaveSteps, session
<1>17. CASE TakeSteering
  BY <1>17 DEF TakeSteering
<1>18. CASE NoSteering
  BY <1>18 DEF NoSteering, session
<1>19. CASE Pressure
  BY <1>19 DEF Pressure
<1>20. CASE StillTooLarge
  BY <1>20 DEF StillTooLarge, session
<1>21. CASE CallModel
  BY <1>21 DEF CallModel, session
<1>22. CASE Reply
  BY <1>22
<1>23. CASE ModelFails
  BY <1>23 DEF ModelFails, session
<1>24. CASE ModelCancelled
  BY <1>24 DEF ModelCancelled, session
<1>25. CASE StartTool
  BY <1>25 DEF StartTool, session
<1>26. CASE SkipTool
  BY <1>26 DEF SkipTool
<1>27. CASE ToolReturns
  BY <1>27 DEF ToolReturns
<1>28. CASE OutOfSteps
  BY <1>28 DEF OutOfSteps, session
<1>29. CASE StopCancelled
  BY <1>29 DEF StopCancelled, session
<1>30. CASE NextTurn
  BY <1>30 DEF NextTurn, session
<1>31. CASE LastTurn
  BY <1>31 DEF LastTurn, session
<1>32. CASE Settle
  BY <1>32 DEF Settle, session
<1>33. CASE ManualSummary
  BY <1>33 DEF ManualSummary
<1>34. CASE SummaryArrives
  BY <1>34 DEF SummaryArrives
<1>35. CASE SummaryFails
  BY <1>35 DEF SummaryFails, session
<1>36. CASE ExtensionReturns
  BY <1>36 DEF ExtensionReturns, session
<1>37. CASE Restart
  BY <1>37 DEF Restart, Load
<1>38. CASE SendPrompt
  BY <1>38 DEF SendPrompt, session
<1>39. CASE SendCommand
  BY <1>39 DEF SendCommand, session
<1>40. QED
  BY <1>1, <1>2, <1>3, <1>4, <1>5, <1>6, <1>7, <1>8, <1>9, <1>10, <1>11, <1>12, <1>13, <1>14,
     <1>15, <1>16, <1>17, <1>18, <1>19, <1>20, <1>21, <1>22, <1>23, <1>24, <1>25, <1>26, <1>27,
     <1>28, <1>29, <1>30, <1>31, <1>32, <1>33, <1>34, <1>35, <1>36, <1>37, <1>38, <1>39 DEF Next,
     Loop, Task, Environment

\* More calls may be lost, if saves may fail.
LEMMA LostTyped ==
  ASSUME TypeOK, Requested, Next
  PROVE  /\ lost' \in SUBSET Nat /\ lost \subseteq lost'
         /\ lost' # lost => SaveMayFail
<1>1. lost \in SUBSET Nat /\ calls \in Seq(Nat)
  BY DEF TypeOK
<1>2. \A cs \in Seq(Nat) : ToSet(cs) \in SUBSET Nat
  BY DEF ToSet
<1>3. CASE UNCHANGED lost
  BY <1>1, <1>3
<1>4. CASE Reply
  <2>1. PICK cs \in Seq(Nat) : UNCHANGED lost \/ (SaveFails /\ lost' = lost \cup ToSet(cs))
    BY <1>4, ReplyStep
  <2>2. QED
    BY <1>1, <1>2, <2>1 DEF SaveFails
<1>5. CASE RecordResult /\ pc \in {"call", "tool"}
  <2>1. calls # <<>>
    BY <1>5 DEF Requested, Awaits
  <2>2. Tail(calls) \in Seq(Nat)
    BY <1>1, <2>1
  <2>3. UNCHANGED lost \/ (SaveFails /\ lost' = lost \cup ToSet(Tail(calls)))
    BY <1>5 DEF RecordResult
  <2>4. QED
    BY <1>1, <1>2, <2>2, <2>3 DEF SaveFails
<1>6. QED
  BY <1>3, <1>4, <1>5, LostSteps

\* Every step keeps the types of the locals of the task.
LEMMA LocalsTyped ==
  ASSUME TypeOK, Control, Arriving, Requested, Next
  PROVE  /\ turn' \in 0 .. MaxPrompts /\ step' \in 0 .. MaxSteps
         /\ calls' \in Seq(Nat) /\ nextCall' \in Nat /\ caller' \in Ids
<1>1. turn' \in 0 .. MaxPrompts
  <2>1. turn \in 0 .. MaxPrompts /\ MaxPrompts \in Nat
    BY WireAssumption DEF TypeOK
  <2>2. Take("prompt") => Head(commands).id[1] \in Prompts
    BY ArrivesQueued
  <2>3. items # <<>> => Head(items).id \in Prompts
    <3>1. items # <<>> => Head(items) \in Queued
      BY DEF TypeOK
    <3>2. QED
      BY <3>1 DEF Queued
  <2>4. QED
    BY <2>1, <2>2, <2>3, LocalSteps DEF Prompts
<1>2. step' \in 0 .. MaxSteps
  <2>1. step \in 0 .. MaxSteps /\ MaxSteps \in Nat
    BY EngineAssumption DEF TypeOK
  <2>2. pc \in {"call", "tool"} => step < MaxSteps
    BY DEF Control, Stepping
  <2>3. QED
    BY <2>1, <2>2, LocalSteps
<1>3. calls' \in Seq(Nat) /\ nextCall' \in Nat
  <2>1. calls \in Seq(Nat) /\ nextCall \in Nat
    BY DEF TypeOK
  <2>2. pc \in {"call", "tool"} => calls # <<>>
    BY DEF Requested, Awaits
  <2>3. calls # <<>> => Tail(calls) \in Seq(Nat)
    <3>1. calls \in Seq(Nat)
      BY <2>1
    <3>2. QED
      BY <3>1
  <2>4. Reply => calls' \in Seq(Nat) /\ nextCall' \in Nat
    BY ReplyStep
  <2>5. <<>> \in Seq(Nat)
    OBVIOUS
  <2>6. QED
    BY <2>1, <2>2, <2>3, <2>4, <2>5, LocalSteps
<1>4. caller' \in Ids
  <2>1. caller \in Ids /\ <<0, "main">> \in Ids
    BY DEF TypeOK, Ids
  <2>2. \A kind \in Kinds : Take(kind) => Head(commands).id \in Ids
    BY TakeType DEF TypeOK
  <2>3. QED
    BY <2>1, <2>2, LocalSteps
<1>5. QED
  BY <1>1, <1>2, <1>3, <1>4

\* A submission that waits is one, and no prompt has the number of a summary.
LEMMA PromptTyped ==
  ASSUME TypeOK
  PROVE  /\ items # <<>> => Head(items) \in Queued /\ Head(items).id \in Prompts /\ Tail(items) \in Seq(Queued)
         /\ Prompts \in SUBSET (Nat \ {SummaryText})
<1>1. items # <<>> => Head(items) \in Queued /\ Tail(items) \in Seq(Queued)
  BY DEF TypeOK
<1>2. QED
  BY <1>1 DEF Queued, Prompts, SummaryText

\* Any step writes a history of messages.
LEMMA HistorySteps ==
  ASSUME TypeOK, Control, Requested, Next
  PROVE  HistoryStep(Message)
<1>1. CASE Keeps
  <2>1. Silent \subseteq Message
    BY DEF Silent
  <2>2. QED
    BY <1>1, <2>1 DEF Keeps, HistoryStep
<1>2. CASE QueuePrompt
  BY <1>2 DEF QueuePrompt, session, HistoryStep
<1>3. CASE StartPrompt
  BY <1>3 DEF StartPrompt, session, HistoryStep
<1>4. CASE PushPrompt
  <2>1. turn \in Prompts
    BY <1>4 DEF PushPrompt, Control, Undelivered
  <2>2. User(turn) \in Message
    BY <2>1, MessageTypes, PromptTyped
  <2>3. QED
    BY <1>4, <2>2 DEF PushPrompt, HistoryStep
<1>5. CASE TakeSteering
  <2>1. Head(items).id \in Nat
    BY <1>5, PromptTyped DEF TakeSteering
  <2>2. User(Head(items).id) \in Message
    BY <2>1, MessageTypes
  <2>3. QED
    BY <1>5, <2>2 DEF TakeSteering, HistoryStep
<1>6. CASE NextTurn
  BY <1>6 DEF NextTurn, session, HistoryStep
<1>7. QED
  BY <1>1, <1>2, <1>3, <1>4, <1>5, <1>6, Moves

\* Every step keeps every type.
LEMMA TypeStep ==
  ASSUME TypeOK, Control, Arriving, Requested, Next
  PROVE  TypeOK'
<1>1. commands' \in Seq(Command) /\ sent' \in 0 .. MaxPrompts
  BY CommandsTyped
<1>2. records' \in Seq(Record)
  BY RecordsTypes
<1>3. items' \in Seq(Queued) /\ Len(items') <= QueueLimit
  BY QueueTyped
<1>4. /\ current' \in Session /\ mem' \in Seq(Message)
      /\ files' \in [Session -> Seq(Message)] /\ archive' \in Seq(Message)
  BY HistorySteps, HistoryTypes
<1>5. QED
  BY <1>1, <1>2, <1>3, <1>4, PlaceTypes, LocalsTyped, LostTyped DEF TypeOK


-----------------------------------------------------------------------------
(* The invariant, part by part.                                            *)

\* Where the task is says that the run is on, and that its steps are bounded.
LEMMA RunSteps ==
  ASSUME TypeOK, Control, Next
  PROVE  /\ Stepping' => step' < MaxSteps
         /\ pc' \notin {"none", "settle"} => running'
         /\ pc' = "settle" => cancel' \/ (items' = <<>> /\ ~running')
<1>1. step \in 0 .. MaxSteps /\ MaxSteps \in Nat \ {0} /\ resume \in {"none", "push", "steer", "recheck", "reply"}
  BY EngineAssumption DEF TypeOK
<1>2. CASE Abort
  BY <1>2, <1>1 DEF Abort, queue, task, Stepping, Control
<1>3. CASE ClearQueue
  BY <1>3, <1>1 DEF ClearQueue, signal, task, Stepping, Control
<1>4. CASE RefusePrompt
  BY <1>4, <1>1 DEF RefusePrompt, queue, signal, task, Stepping, Control
<1>5. CASE QueuePrompt
  BY <1>5, <1>1 DEF QueuePrompt, signal, task, Stepping, Control
<1>6. CASE StartPrompt
  BY <1>6, <1>1 DEF StartPrompt, Spawn, Stepping
<1>7. CASE StartCompact
  BY <1>7, <1>1 DEF StartCompact, Spawn, Stepping
<1>8. CASE StartExtension
  BY <1>8, <1>1 DEF StartExtension, Spawn, Stepping
<1>9. CASE NewSession
  BY <1>9, <1>1 DEF NewSession, queue, signal, task, Stepping, Control
<1>10. CASE SwitchSession
  BY <1>10, <1>1 DEF SwitchSession, queue, signal, task, Stepping, Control
<1>11. CASE SetModel
  BY <1>11, <1>1 DEF SetModel, queue, signal, task, Stepping, Control
<1>12. CASE RefuseCommand
  BY <1>12, <1>1 DEF RefuseCommand, queue, signal, task, Stepping, Control
<1>13. CASE GetState
  BY <1>13, <1>1 DEF GetState, queue, signal, task, Stepping, Control
<1>14. CASE Begin
  BY <1>14, <1>1 DEF Begin, queue, Stepping, Control
<1>15. CASE StartSummary
  BY <1>15, <1>1 DEF StartSummary, queue, Stepping, Control
<1>16. CASE PushPrompt
  BY <1>16, <1>1 DEF PushPrompt, queue, RunFails, Control
<1>17. CASE LeaveSteps
  BY <1>17, <1>1 DEF LeaveSteps, queue, Stepping, Control
<1>18. CASE TakeSteering
  BY <1>18, <1>1 DEF TakeSteering, AtSteer, RunFails, Stepping, Control
<1>19. CASE NoSteering
  BY <1>19, <1>1 DEF NoSteering, AtSteer, queue, Stepping, Control
<1>20. CASE Pressure
  <2>1. \/ pc' = "summary" /\ UNCHANGED <<running, step>>
        \/ pc' = "settle" /\ items' = <<>> /\ running' = FALSE
    BY <1>20 DEF Pressure, RunFails, queue
  <2>2. running /\ step < MaxSteps
    BY <1>20 DEF Pressure, Control, Stepping
  <2>3. QED
    BY <2>1, <2>2 DEF Stepping
<1>21. CASE StillTooLarge
  BY <1>21, <1>1 DEF StillTooLarge, RunFails, Stepping
<1>22. CASE CallModel
  BY <1>22, <1>1 DEF CallModel, queue, Stepping, Control
<1>23. CASE Reply
  <2>1. \/ pc' \in {"completed", "call"} /\ UNCHANGED <<running, step>>
        \/ pc' = "settle" /\ items' = <<>> /\ running' = FALSE
    BY <1>23 DEF Reply, RunFails, queue
  <2>2. running /\ step < MaxSteps
    BY <1>23 DEF Reply, Control, Stepping
  <2>3. QED
    BY <2>1, <2>2 DEF Stepping
<1>24. CASE ModelFails
  BY <1>24, <1>1 DEF ModelFails, RunFails, Stepping
<1>25. CASE ModelCancelled
  BY <1>25, <1>1 DEF ModelCancelled, queue, Stepping, Control
<1>26. CASE StartTool
  BY <1>26, <1>1 DEF StartTool, queue, Stepping, Control
<1>27. CASE SkipTool
  <2>1. \/ UNCHANGED running /\ (pc' = "step" \/ (pc' = "call" /\ UNCHANGED step))
        \/ pc' = "settle" /\ items' = <<>> /\ running' = FALSE
    BY <1>27 DEF SkipTool, RecordResult, RunFails, queue
  <2>2. running /\ step < MaxSteps
    BY <1>27 DEF SkipTool, Control, Stepping
  <2>3. QED
    BY <2>1, <2>2 DEF Stepping
<1>28. CASE ToolReturns
  <2>1. \/ UNCHANGED running /\ (pc' = "step" \/ (pc' = "call" /\ UNCHANGED step))
        \/ pc' = "settle" /\ items' = <<>> /\ running' = FALSE
    BY <1>28 DEF ToolReturns, RecordResult, RunFails, queue
  <2>2. running /\ step < MaxSteps
    BY <1>28 DEF ToolReturns, Control, Stepping
  <2>3. QED
    BY <2>1, <2>2 DEF Stepping
<1>29. CASE OutOfSteps
  BY <1>29, <1>1 DEF OutOfSteps, RunFails, Stepping
<1>30. CASE StopCancelled
  BY <1>30, <1>1 DEF StopCancelled, signal, Stepping
<1>31. CASE NextTurn
  BY <1>31, <1>1 DEF NextTurn, Stepping, Control
<1>32. CASE LastTurn
  BY <1>32, <1>1 DEF LastTurn, Stepping
<1>33. CASE Settle
  BY <1>33, <1>1 DEF Settle, Drop
<1>34. CASE ManualSummary
  BY <1>34, <1>1 DEF ManualSummary, EndTask, Drop, queue, Stepping, Control
<1>35. CASE SummaryArrives
  <2>1. \/ pc' = "none"
        \/ pc' = resume /\ UNCHANGED <<running, step>>
        \/ pc' = "settle" /\ items' = <<>> /\ running' = FALSE
    BY <1>35 DEF SummaryArrives, SummaryContinues, SummaryEnds, EndTask, Drop, RunFails, queue
  <2>2. running /\ pc = "summary" /\ (resume \in {"steer", "recheck"} => step < MaxSteps)
    BY <1>35 DEF SummaryArrives, Control, Stepping
  <2>3. QED
    BY <1>1, <2>1, <2>2 DEF Stepping
<1>36. CASE SummaryFails
  BY <1>36, <1>1 DEF SummaryFails, SummaryEnds, EndTask, Drop, RunFails, Stepping
<1>37. CASE ExtensionReturns
  BY <1>37, <1>1 DEF ExtensionReturns, EndTask, Drop
<1>38. CASE Restart
  BY <1>38, <1>1 DEF Restart
<1>39. CASE SendPrompt
  BY <1>39, <1>1 DEF SendPrompt, queue, signal, task, Stepping, Control
<1>40. CASE SendCommand
  BY <1>40, <1>1 DEF SendCommand, queue, signal, task, Stepping, Control
<1>41. QED
  BY <1>2, <1>3, <1>4, <1>5, <1>6, <1>7, <1>8, <1>9, <1>10, <1>11, <1>12, <1>13, <1>14, <1>15,
     <1>16, <1>17, <1>18, <1>19, <1>20, <1>21, <1>22, <1>23, <1>24, <1>25, <1>26, <1>27, <1>28,
     <1>29, <1>30, <1>31, <1>32, <1>33, <1>34, <1>35, <1>36, <1>37, <1>38, <1>39, <1>40 DEF Next,
     Loop, Task, Environment


\* A step delivers a prompt only by adding its message.
LEMMA HistoryMoves ==
  ASSUME TypeOK, OnePlace, NEW M \in SUBSET Message, HistoryStep(M),
         \A p \in Prompts : User(p) \in M => p \notin Told
  PROVE  /\ Told' \subseteq Told \cup {p \in Prompts : User(p) \in M}
         /\ HoldsOnce(mem', Prompts) /\ \A s \in Session : HoldsOnce(files'[s], Prompts)
<1>1. mem \in Seq(Message) /\ \A s \in Session : files[s] \in Seq(Message)
  BY DEF TypeOK
<1>2. current \in Session /\ files \in [Session -> Seq(Message)]
  BY DEF TypeOK
<1>3. Prompts \in SUBSET (Nat \ {SummaryText})
  BY PromptTyped
<1>4. HoldsOnce(mem, Prompts) /\ \A s \in Session : HoldsOnce(files[s], Prompts)
  BY DEF OnePlace
<1>5. \A p \in Prompts : Holds(mem, p) => p \in Told
  BY DEF Told
<1>6. \A s \in Session, p \in Prompts : Holds(files[s], p) => p \in Told
  BY DEF Told
<1> DEFINE New == {p \in Prompts : User(p) \in M}
<1>7. /\ \A p \in Prompts : Holds(mem', p) => p \in Told \cup New
      /\ HoldsOnce(mem', Prompts)
      /\ UNCHANGED files \/ Save(mem) \/ Save(mem')
  <2>1. CASE UNCHANGED <<current, mem, files, archive>>
    BY <1>4, <1>5, <2>1
  <2>2. CASE Save(mem) /\ UNCHANGED <<current, mem, archive>>
    BY <1>4, <1>5, <2>2
  <2>3. CASE /\ \E m \in M : mem' = Append(mem, m)
             /\ Save(mem') \/ SaveFails
             /\ UNCHANGED <<current, archive>>
    <3>1. PICK m \in M : mem' = Append(mem, m)
      BY <2>3
    <3>2. m \in Message
      OBVIOUS
    <3>3. \A p \in Prompts : Holds(mem', p) => Holds(mem, p) \/ m = User(p)
      BY <1>1, <1>3, <3>1, <3>2, AppendHolds
    <3>4. \A p \in Prompts : m = User(p) => ~Holds(mem, p)
      BY <1>5
    <3>5. HoldsOnce(mem', Prompts)
      BY <1>1, <1>3, <1>4, <3>1, <3>2, <3>4, AppendHolds
    <3>6. QED
      BY <1>5, <2>3, <3>3, <3>5 DEF SaveFails
  <2>4. CASE \E s \in Session : current' = s /\ mem' = Repair(files[s]) /\ UNCHANGED <<files, archive>>
    <3>1. PICK s \in Session : mem' = Repair(files[s]) /\ UNCHANGED files
      BY <2>4
    <3>2. files[s] \in Seq(Message)
      BY <1>1
    <3>3. \A p \in Prompts : Holds(mem', p) => Holds(files[s], p)
      BY <1>3, <3>1, <3>2, RepairKeeps
    <3>4. HoldsOnce(mem', Prompts)
      BY <1>3, <1>4, <3>1, <3>2, RepairKeeps
    <3>5. QED
      BY <1>6, <3>1, <3>3, <3>4
  <2>5. CASE /\ \E tail \in Tails : mem' = <<User(SummaryText)>> \o tail
             /\ ArchiveFile
             /\ Save(mem') \/ SaveFails
             /\ UNCHANGED current
    <3>1. PICK tail \in Tails : mem' = <<User(SummaryText)>> \o tail
      BY <2>5
    <3>2. /\ \A p \in Prompts : Holds(mem', p) => Holds(mem, p)
          /\ HoldsOnce(mem', Prompts)
      BY <1>4, <3>1, SummaryStep
    <3>3. QED
      BY <1>5, <2>5, <3>2 DEF SaveFails
  <2>6. QED
    BY <2>1, <2>2, <2>3, <2>4, <2>5 DEF HistoryStep
<1>8. \A s \in Session : files'[s] \in {files[s], mem, mem'}
  BY <1>2, <1>7 DEF Save
<1>9. \A s \in Session : HoldsOnce(files'[s], Prompts)
  BY <1>4, <1>7, <1>8
<1>10. \A s \in Session, p \in Prompts : Holds(files'[s], p) => p \in Told \cup New
  BY <1>5, <1>6, <1>7, <1>8
<1>11. QED
  BY <1>7, <1>9, <1>10 DEF Told

\* Taking the first submission of a queue.
LEMMA TailWaits ==
  ASSUME NEW q \in Seq(Queued), q # <<>>, Distinct(q)
  PROVE  /\ Waiting(Tail(q)) \subseteq Waiting(q) /\ Head(q).id \in Waiting(q)
         /\ Head(q).id \notin Waiting(Tail(q))
         /\ Distinct(Tail(q))
         /\ InOrder(q) => InOrder(Tail(q))
<1>1. Len(q) \in Nat /\ Len(q) >= 1
  OBVIOUS
<1>2. DOMAIN Tail(q) = 1 .. (Len(q) - 1) /\ \A i \in 1 .. (Len(q) - 1) : Tail(q)[i] = q[i + 1]
  BY <1>1
<1>3. DOMAIN q = 1 .. Len(q) /\ Head(q) = q[1]
  BY <1>1
<1>4. \A i \in DOMAIN Tail(q) : i + 1 \in DOMAIN q /\ i + 1 # 1 /\ Tail(q)[i] = q[i + 1]
  BY <1>1, <1>2, <1>3
<1>5. 1 \in DOMAIN q
  BY <1>1, <1>3
<1>6. \A i, j \in DOMAIN Tail(q) : i \in Nat /\ j \in Nat /\ (i + 1 = j + 1 => i = j) /\ (i < j => i + 1 < j + 1)
  BY <1>1, <1>2
<1>7. Distinct(Tail(q))
  BY <1>4, <1>6 DEF Distinct
<1>8. Waiting(Tail(q)) \subseteq Waiting(q) /\ Head(q).id \in Waiting(q)
  BY <1>3, <1>4, <1>5 DEF Waiting
<1>9. Head(q).id \notin Waiting(Tail(q))
  BY <1>3, <1>4, <1>5 DEF Waiting, Distinct
<1>10. InOrder(q) => InOrder(Tail(q))
  BY <1>4, <1>6 DEF InOrder
<1>11. QED
  BY <1>7, <1>8, <1>9, <1>10

\* Adding a submission to a queue.
LEMMA InsertWaits ==
  ASSUME NEW q \in Seq(Queued), NEW p \in Queued, Distinct(q), p.id \notin Waiting(q)
  PROVE  /\ Waiting(Insert(q, p)) = Waiting(q) \cup {p.id}
         /\ Distinct(Insert(q, p))
<1> DEFINE g == Insert(q, p)
<1>1. g \in Seq(Queued) /\ Len(g) = Len(q) + 1
  BY InsertAtPlace
<1>2. PICK k \in 1 .. (Len(q) + 1) :
              /\ g[k] = p
              /\ \A i \in 1 .. (k - 1) : g[i] = q[i]
              /\ \A i \in (k + 1) .. (Len(q) + 1) : g[i] = q[i - 1]
              /\ p.steer => /\ \A i \in 1 .. (k - 1) : q[i].steer
                            /\ k <= Len(q) => ~q[k].steer
              /\ ~p.steer => k = Len(q) + 1
  BY InsertAtPlace
<1> HIDE DEF g
<1>3. DOMAIN g = 1 .. (Len(q) + 1) /\ DOMAIN q = 1 .. Len(q) /\ Len(q) \in Nat /\ k \in Nat
  BY <1>1
<1>4. \A i \in DOMAIN g :
        \/ i = k
        \/ i < k /\ i \in DOMAIN q /\ g[i] = q[i]
        \/ k < i /\ i - 1 \in DOMAIN q /\ g[i] = q[i - 1]
  BY <1>2, <1>3
<1>5. \A i \in DOMAIN q :
        \/ i \in DOMAIN g /\ g[i] = q[i]
        \/ i + 1 \in DOMAIN g /\ g[i + 1] = q[i]
  <2> TAKE i \in DOMAIN q
  <2>1. CASE i < k
    BY <1>2, <1>3, <2>1
  <2>2. CASE i >= k
    <3>1. i + 1 \in (k + 1) .. (Len(q) + 1) /\ (i + 1) - 1 = i
      BY <1>3, <2>2
    <3>2. QED
      BY <1>2, <1>3, <3>1
  <2>3. QED
    BY <1>3, <2>1, <2>2
<1>6. \A i \in DOMAIN q : q[i].id # p.id
  BY DEF Waiting
<1>7. Waiting(g) = Waiting(q) \cup {p.id}
  <2>1. k \in DOMAIN g
    BY <1>3
  <2>2. Waiting(g) \subseteq Waiting(q) \cup {p.id}
    BY <1>2, <1>4 DEF Waiting
  <2>3. \A i \in DOMAIN q : q[i].id \in Waiting(g)
    BY <1>5 DEF Waiting
  <2>4. p.id \in Waiting(g)
    BY <1>2, <2>1 DEF Waiting
  <2>5. QED
    BY <2>2, <2>3, <2>4 DEF Waiting
<1>8. Distinct(g)
  <2> SUFFICES ASSUME NEW i \in DOMAIN g, NEW j \in DOMAIN g, g[i].id = g[j].id
               PROVE  i = j
    BY DEF Distinct
  <2>1. i = k \/ j = k => i = j
    BY <1>2, <1>4, <1>6
  <2>2. i < k /\ j < k => i = j
    BY <1>3, <1>4 DEF Distinct
  <2>3. k < i /\ k < j => i = j
    BY <1>3, <1>4 DEF Distinct
  <2>4. ~(i < k /\ k < j) /\ ~(j < k /\ k < i)
    BY <1>3, <1>4 DEF Distinct
  <2>5. QED
    BY <1>3, <2>1, <2>2, <2>3, <2>4
<1>9. QED
  BY <1>7, <1>8 DEF g

\* A prompt arrives, and waits or starts the run.
Arrives ==
  LET p == Head(commands).id[1]
  IN  /\ Take("prompt") /\ UNCHANGED <<session, sent>>
      /\ \/ items' = Insert(items, Submission(Head(commands))) /\ UNCHANGED Undelivered
         \/ UNCHANGED items /\ Undelivered = {} /\ Undelivered' = {p}

\* The next submission becomes the prompt of the next turn.
Advances == /\ items # <<>> /\ items' = Tail(items)
            /\ Undelivered = {} /\ Undelivered' = {Head(items).id}
            /\ UNCHANGED <<session, sent, commands>>

\* A prompt goes from its place into the history.
Delivers(p) ==
  /\ HistoryStep({User(p)}) /\ Undelivered' = {} /\ UNCHANGED <<sent, commands>>
  /\ \/ Undelivered = {p} /\ items' \in {items, <<>>}
     \/ items # <<>> /\ p = Head(items).id /\ items' \in {Tail(items), <<>>}

\* A step does one of these.
LEMMA OneMove ==
  ASSUME TypeOK, Control, Requested, Next
  PROVE  Keeps \/ Arrives \/ Advances \/ \E p \in Prompts : Delivers(p)
<1>1. CASE QueuePrompt
  BY <1>1 DEF QueuePrompt, Arrives, task, Undelivered
<1>2. CASE StartPrompt
  BY <1>2 DEF StartPrompt, Spawn, Arrives, Undelivered
<1>3. CASE PushPrompt
  <2>1. turn \in Prompts
    BY <1>3 DEF PushPrompt, Control, Undelivered
  <2>2. Undelivered = {turn}
    BY <1>3 DEF PushPrompt, Undelivered
  <2>3. pc' \in {"step", "settle"} /\ items' \in {items, <<>>}
    BY <1>3 DEF PushPrompt, RunFails, queue
  <2>4. HistoryStep({User(turn)}) /\ UNCHANGED <<sent, commands>>
    BY <1>3 DEF PushPrompt, HistoryStep
  <2>5. Undelivered' = {}
    BY <2>3 DEF Undelivered
  <2>6. QED
    BY <2>1, <2>2, <2>3, <2>4, <2>5 DEF Delivers
<1>4. CASE TakeSteering
  <2>1. items # <<>> /\ Head(items).id \in Prompts
    BY <1>4, PromptTyped DEF TakeSteering
  <2>2. pc' \in {"request", "settle"} /\ items' \in {Tail(items), <<>>}
    BY <1>4 DEF TakeSteering, RunFails
  <2>3. HistoryStep({User(Head(items).id)}) /\ UNCHANGED <<sent, commands>>
    BY <1>4 DEF TakeSteering, HistoryStep
  <2>4. Undelivered' = {}
    BY <2>2 DEF Undelivered
  <2>5. QED
    BY <2>1, <2>2, <2>3, <2>4 DEF Delivers
<1>5. CASE NextTurn
  BY <1>5 DEF NextTurn, Advances, Undelivered
<1>6. QED
  BY <1>1, <1>2, <1>3, <1>4, <1>5, Moves

\* Where prompts may be after a step, and that each is in one place.
LEMMA OnePlaceStep ==
  ASSUME TypeOK, Control, Arriving, OnePlace, InOrder(items), Requested, Next
  PROVE  /\ OnePlace' /\ InOrder(items') /\ Undelivered' \subseteq Prompts
         /\ Known' \subseteq Known \/ (Take("prompt") /\ UNCHANGED sent /\ Known' \subseteq Known \cup {Head(commands).id[1]})
<1>1. /\ items \in Seq(Queued) /\ Distinct(items)
      /\ Waiting(items) \cap Told = {} /\ Waiting(items) \cap Undelivered = {}
      /\ Told \cap Undelivered = {} /\ Undelivered \subseteq Prompts
  BY DEF TypeOK, OnePlace, Control
<1>2. Distinct(<<>>) /\ Waiting(<<>>) = {} /\ InOrder(<<>>)
  BY DEF Distinct, Waiting, InOrder
<1>3. CASE Keeps
  <2>1. Silent \in SUBSET Message /\ \A p \in Prompts : User(p) \notin Silent
    BY DEF Silent, User
  <2>2. Told' \subseteq Told /\ HoldsOnce(mem', Prompts) /\ \A s \in Session : HoldsOnce(files'[s], Prompts)
    BY <1>3, <2>1, HistoryMoves DEF Keeps
  <2>3. Waiting(items') \subseteq Waiting(items) /\ Distinct(items') /\ InOrder(items')
    BY <1>1, <1>2, <1>3 DEF Keeps
  <2>4. Undelivered' \subseteq Undelivered
    BY <1>3 DEF Keeps
  <2>5. QED
    BY <1>1, <2>2, <2>3, <2>4 DEF OnePlace, Known
<1>4. CASE Arrives
  <2> DEFINE p == Head(commands).id[1]
  <2>1. Submission(Head(commands)) \in Queued /\ p \in Prompts /\ p \in Nat /\ \A x \in Known : x < p
    BY <1>4, ArrivesQueued, PromptTyped DEF Arrives
  <2>2. p \notin Known
    BY <2>1
  <2>3. Submission(Head(commands)).id = p
    BY DEF Submission
  <2>4. Told' = Told /\ HoldsOnce(mem', Prompts) /\ \A s \in Session : HoldsOnce(files'[s], Prompts)
    BY <1>4 DEF Arrives, session, Told, OnePlace
  <2>5. p \notin Waiting(items) /\ p \notin Told /\ p \notin Undelivered /\ \A x \in Waiting(items) : x < p
    BY <2>1, <2>2 DEF Known
  <2> HIDE DEF p
  <2>6. CASE items' = Insert(items, Submission(Head(commands))) /\ UNCHANGED Undelivered
    <3>1. Waiting(items') = Waiting(items) \cup {p} /\ Distinct(items')
      BY <1>1, <2>1, <2>3, <2>5, <2>6, InsertWaits
    <3>2. InOrder(items')
      BY <1>1, <2>1, <2>3, <2>5, <2>6, InsertInOrder
    <3>3. QED
      BY <1>1, <1>4, <2>4, <2>5, <2>6, <3>1, <3>2 DEF OnePlace, Known, Arrives, p
  <2>7. CASE UNCHANGED items /\ Undelivered = {} /\ Undelivered' = {p}
    BY <1>1, <1>4, <2>1, <2>4, <2>5, <2>7 DEF OnePlace, Known, Arrives, p
  <2>8. QED
    BY <1>4, <2>6, <2>7 DEF Arrives, p
<1>5. CASE Advances
  <2>1. /\ Waiting(items') \subseteq Waiting(items) /\ Head(items).id \in Waiting(items)
        /\ Head(items).id \notin Waiting(items') /\ Distinct(items') /\ InOrder(items')
    BY <1>1, <1>5, TailWaits DEF Advances
  <2>2. Told' = Told /\ HoldsOnce(mem', Prompts) /\ \A s \in Session : HoldsOnce(files'[s], Prompts)
    BY <1>5 DEF Advances, session, Told, OnePlace
  <2>3. Undelivered' = {Head(items).id} /\ Head(items).id \in Prompts
    BY <1>5, PromptTyped DEF Advances
  <2>4. QED
    BY <1>1, <2>1, <2>2, <2>3 DEF OnePlace, Known
<1>6. CASE \E p \in Prompts : Delivers(p)
  <2>1. PICK p \in Prompts : Delivers(p)
    BY <1>6
  <2>2. {User(p)} \in SUBSET Message
    BY MessageTypes, PromptTyped
  <2>3. \A x \in Prompts : User(x) \in {User(p)} => x = p
    BY DEF User
  <2>4. items # <<>> => /\ Waiting(Tail(items)) \subseteq Waiting(items) /\ Head(items).id \in Waiting(items)
                        /\ Head(items).id \notin Waiting(Tail(items))
                        /\ Distinct(Tail(items)) /\ InOrder(Tail(items))
    BY <1>1, TailWaits
  <2>5. p \in Waiting(items) \cup Undelivered /\ p \notin Waiting(items')
    BY <1>1, <1>2, <2>1, <2>4 DEF Delivers
  <2>6. p \notin Told
    BY <1>1, <2>5
  <2>7. /\ Told' \subseteq Told \cup {x \in Prompts : User(x) \in {User(p)}}
        /\ HoldsOnce(mem', Prompts) /\ \A s \in Session : HoldsOnce(files'[s], Prompts)
    BY <2>1, <2>2, <2>3, <2>6, HistoryMoves DEF Delivers
  <2>8. Told' \subseteq Told \cup {p}
    BY <2>3, <2>7
  <2>9. Waiting(items') \subseteq Waiting(items) /\ Distinct(items') /\ InOrder(items')
    BY <1>1, <1>2, <2>1, <2>4 DEF Delivers
  <2>10. Undelivered' = {}
    BY <2>1 DEF Delivers
  <2>11. QED
    BY <1>1, <2>5, <2>7, <2>8, <2>9, <2>10 DEF OnePlace, Known
<1>7. QED
  BY <1>3, <1>4, <1>5, <1>6, OneMove

\* Where the task is keeps its meaning.
LEMMA ControlStep ==
  ASSUME TypeOK, Control, Arriving, OnePlace, InOrder(items), Requested, Next
  PROVE  Control'
  BY RunSteps, OnePlaceStep DEF Control

\* Prompts go on arriving in the order of their numbers.
LEMMA ArrivingStep ==
  ASSUME TypeOK, Control, Arriving, OnePlace, InOrder(items), Requested, Next
  PROVE  Arriving'
<1> DEFINE Before(cs, n, K) ==
             \A i \in DOMAIN cs : cs[i].kind = "prompt" =>
               /\ cs[i].id[1] \in 1 .. n
               /\ \A p \in K : p < cs[i].id[1]
               /\ \A j \in 1 .. (i - 1) : cs[j].kind = "prompt" => cs[j].id[1] < cs[i].id[1]
<1>1. commands \in Seq(Command) /\ sent \in Nat
  BY WireAssumption DEF TypeOK
<1>2. Known \subseteq 1 .. sent /\ Before(commands, sent, Known)
  BY DEF Arriving
<1>3. SUFFICES Known' \subseteq 1 .. sent' /\ Before(commands', sent', Known')
  BY DEF Arriving
<1>4. ASSUME commands # <<>>, commands' = Tail(commands), UNCHANGED sent,
             Known' \subseteq Known
               \/ (Head(commands).kind = "prompt" /\ Known' \subseteq Known \cup {Head(commands).id[1]})
      PROVE  Known' \subseteq 1 .. sent' /\ Before(commands', sent', Known')
  <2>1. 1 \in DOMAIN commands /\ Head(commands) = commands[1]
    BY <1>1, <1>4
  <2>2. \A i \in DOMAIN commands' :
          /\ i + 1 \in DOMAIN commands /\ commands'[i] = commands[i + 1] /\ 1 \in 1 .. ((i + 1) - 1)
          /\ \A j \in 1 .. (i - 1) : j + 1 \in 1 .. ((i + 1) - 1) /\ commands'[j] = commands[j + 1]
    BY <1>1, <1>4
  <2>3. Known' \subseteq 1 .. sent'
    BY <1>2, <1>4, <2>1
  <2>4. \A i \in DOMAIN commands' : commands'[i].kind = "prompt" =>
          /\ commands'[i].id[1] \in 1 .. sent'
          /\ \A p \in Known' : p < commands'[i].id[1]
    <3> TAKE i \in DOMAIN commands'
    <3> HAVE commands'[i].kind = "prompt"
    <3>1. commands[i + 1].kind = "prompt" /\ i + 1 \in DOMAIN commands /\ commands'[i] = commands[i + 1]
      BY <2>2
    <3>2. commands[i + 1].id[1] \in 1 .. sent /\ \A p \in Known : p < commands[i + 1].id[1]
      BY <1>2, <3>1
    <3>3. commands[1].kind = "prompt" => commands[1].id[1] < commands[i + 1].id[1]
      BY <1>2, <2>2, <3>1
    <3>4. QED
      BY <1>4, <2>1, <3>1, <3>2, <3>3
  <2>5. \A i \in DOMAIN commands' : commands'[i].kind = "prompt" =>
          \A j \in 1 .. (i - 1) : commands'[j].kind = "prompt" => commands'[j].id[1] < commands'[i].id[1]
    BY <1>2, <2>2
  <2>6. QED
    BY <2>3, <2>4, <2>5
<1>5. CASE Take("prompt") /\ UNCHANGED sent /\ Known' \subseteq Known \cup {Head(commands).id[1]}
  BY <1>4, <1>5 DEF Take
<1>6. CASE Known' \subseteq Known
  <2>1. CASE SendPrompt
    <3>1. sent' = sent + 1
      BY <2>1 DEF SendPrompt
    <3>2. PICK mode \in Modes : commands' = Append(commands, [kind |-> "prompt", id |-> <<sent + 1, "main">>, mode |-> mode])
      BY <2>1 DEF SendPrompt
    <3> DEFINE c == [kind |-> "prompt", id |-> <<sent + 1, "main">>, mode |-> mode]
    <3>3. c.kind = "prompt" /\ c.id[1] = sent + 1
      OBVIOUS
    <3> HIDE DEF c
    <3>4. commands' = Append(commands, c)
      BY <3>2 DEF c
    <3>5. /\ \A i \in DOMAIN commands' : i \in DOMAIN commands \/ i = Len(commands) + 1
          /\ \A i \in DOMAIN commands : commands'[i] = commands[i]
          /\ commands'[Len(commands) + 1] = c
          /\ DOMAIN commands = 1 .. Len(commands) /\ Len(commands) \in Nat
      BY <1>1, <3>4
    <3>6. Known' \subseteq 1 .. sent'
      BY <1>1, <1>2, <1>6, <3>1
    <3>7. \A p \in Known' : p < sent + 1
      <4>1. \A p \in 1 .. sent : p < sent + 1
        BY <1>1
      <4>2. Known' \subseteq 1 .. sent
        BY <1>2, <1>6
      <4>3. QED
        BY <4>1, <4>2
    <3>8. ASSUME NEW i \in DOMAIN commands', commands'[i].kind = "prompt"
          PROVE  /\ commands'[i].id[1] \in 1 .. sent'
                 /\ \A p \in Known' : p < commands'[i].id[1]
                 /\ \A j \in 1 .. (i - 1) : commands'[j].kind = "prompt" => commands'[j].id[1] < commands'[i].id[1]
      <4>1. CASE i \in DOMAIN commands
        <5>1. \A j \in 1 .. (i - 1) : j \in DOMAIN commands
          BY <3>5, <4>1
        <5>2. commands[i].kind = "prompt" /\ commands[i].id[1] \in 1 .. sent
          BY <1>2, <3>5, <3>8, <4>1
        <5>3. QED
          BY <1>1, <1>2, <1>6, <3>1, <3>5, <3>8, <4>1, <5>1, <5>2
      <4>2. CASE i = Len(commands) + 1
        <5>1. \A j \in 1 .. (i - 1) : j \in DOMAIN commands
          BY <3>5, <4>2
        <5>2. \A j \in 1 .. (i - 1) : commands'[j].kind = "prompt" => commands'[j].id[1] < sent + 1
          BY <1>1, <1>2, <3>5, <5>1
        <5>3. commands'[i].id[1] = sent + 1
          BY <3>3, <3>5, <4>2
        <5>4. QED
          BY <1>1, <3>1, <3>7, <5>2, <5>3
      <4>3. QED
        BY <3>5, <4>1, <4>2
    <3>9. QED
      BY <3>6, <3>8
  <2>2. CASE SendCommand
    <3>1. UNCHANGED sent
      BY <2>2 DEF SendCommand
    <3>2. PICK kind \in Offered : commands' = Append(commands, [kind |-> kind, id |-> <<0, "main">>, mode |-> "none"])
      BY <2>2 DEF SendCommand
    <3>3. kind # "prompt"
      BY <3>2, EngineAssumption
    <3>4. /\ \A i \in DOMAIN commands' : i \in DOMAIN commands \/ i = Len(commands) + 1
          /\ \A i \in DOMAIN commands : commands'[i] = commands[i] /\ \A j \in 1 .. (i - 1) : j \in DOMAIN commands
          /\ commands'[Len(commands) + 1].kind # "prompt"
      BY <1>1, <3>2, <3>3
    <3>5. QED
      BY <1>2, <1>6, <3>1, <3>4
  <2>3. CASE UNCHANGED commands /\ UNCHANGED sent
    BY <1>2, <1>6, <2>3
  <2>4. CASE commands' = <<>> /\ UNCHANGED sent
    BY <1>2, <1>6, <2>4
  <2>5. CASE (\E kind \in Kinds : Take(kind)) /\ UNCHANGED sent
    BY <1>4, <1>6, <2>5 DEF Take
  <2>6. QED
    BY <2>1, <2>2, <2>3, <2>4, <2>5, WireSteps
<1>7. QED
  BY <1>5, <1>6, OnePlaceStep

\* The model is asked, and calls are run, on a history that is saved.
LEMMA SavedStep ==
  ASSUME TypeOK, Control, Saved, Next
  PROVE  Saved'
<1>1. current \in Session /\ files \in [Session -> Seq(Message)]
  BY DEF TypeOK
<1>2. CASE Abort
  BY <1>2, <1>1 DEF Abort, session, task, Saved, Stepping
<1>3. CASE ClearQueue
  BY <1>3, <1>1 DEF ClearQueue, session, task, Saved, Stepping
<1>4. CASE RefusePrompt
  BY <1>4, <1>1 DEF RefusePrompt, session, task, Saved, Stepping
<1>5. CASE QueuePrompt
  BY <1>5, <1>1 DEF QueuePrompt, session, task, Saved, Stepping
<1>6. CASE StartPrompt
  BY <1>6, <1>1 DEF StartPrompt, Spawn, Saved, Stepping
<1>7. CASE StartCompact
  BY <1>7, <1>1 DEF StartCompact, Spawn, Saved, Stepping
<1>8. CASE StartExtension
  BY <1>8, <1>1 DEF StartExtension, Spawn, Saved, Stepping
<1>9. CASE NewSession
  BY <1>9, <1>1 DEF NewSession, task, Saved, Stepping, Control
<1>10. CASE SwitchSession
  BY <1>10, <1>1 DEF SwitchSession, task, Saved, Stepping, Control
<1>11. CASE SetModel
  BY <1>11, <1>1 DEF SetModel, task, Saved, Stepping, Control
<1>12. CASE RefuseCommand
  BY <1>12, <1>1 DEF RefuseCommand, session, task, Saved, Stepping
<1>13. CASE GetState
  BY <1>13, <1>1 DEF GetState, session, task, Saved, Stepping
<1>14. CASE Begin
  BY <1>14, <1>1 DEF Begin, Saved, Stepping
<1>15. CASE StartSummary
  BY <1>15, <1>1 DEF StartSummary, session, Saved, Stepping
<1>16. CASE PushPrompt
  BY <1>16, <1>1 DEF PushPrompt, Save, RunFails, Saved, Stepping
<1>17. CASE LeaveSteps
  BY <1>17, <1>1 DEF LeaveSteps, Saved, Stepping
<1>18. CASE TakeSteering
  BY <1>18, <1>1 DEF TakeSteering, Save, RunFails, Saved, Stepping
<1>19. CASE NoSteering
  BY <1>19, <1>1 DEF NoSteering, AtSteer, session, Saved, Stepping
<1>20. CASE Pressure
  BY <1>20, <1>1 DEF Pressure, Save, Saved, Stepping, SaveFails
<1>21. CASE StillTooLarge
  BY <1>21, <1>1 DEF StillTooLarge, session, Saved, Stepping
<1>22. CASE CallModel
  BY <1>22, <1>1 DEF CallModel, session, Saved, Stepping
<1>23. CASE Reply
  BY <1>23, <1>1 DEF Reply, Save, RunFails, Saved, Stepping
<1>24. CASE ModelFails
  BY <1>24, <1>1 DEF ModelFails, session, Saved, Stepping
<1>25. CASE ModelCancelled
  BY <1>25, <1>1 DEF ModelCancelled, Saved, Stepping
<1>26. CASE StartTool
  BY <1>26, <1>1 DEF StartTool, session, Saved, Stepping
<1>27. CASE SkipTool
  BY <1>27, <1>1 DEF SkipTool, RecordResult, Save, RunFails, Saved, Stepping
<1>28. CASE ToolReturns
  BY <1>28, <1>1 DEF ToolReturns, RecordResult, Save, RunFails, Saved, Stepping
<1>29. CASE OutOfSteps
  BY <1>29, <1>1 DEF OutOfSteps, RunFails, Saved, Stepping
<1>30. CASE StopCancelled
  BY <1>30, <1>1 DEF StopCancelled, Saved, Stepping
<1>31. CASE NextTurn
  BY <1>31, <1>1 DEF NextTurn, Saved, Stepping
<1>32. CASE LastTurn
  BY <1>32, <1>1 DEF LastTurn, Saved, Stepping
<1>33. CASE Settle
  BY <1>33, <1>1 DEF Settle, Drop, Saved, Stepping
<1>34. CASE ManualSummary
  BY <1>34, <1>1 DEF ManualSummary, EndTask, Drop, Saved, Stepping
<1>35. CASE SummaryArrives
  BY <1>35, <1>1 DEF SummaryArrives, Save, EndTask, Drop, SummaryEnds, RunFails, Saved, Stepping
<1>36. CASE SummaryFails
  BY <1>36, <1>1 DEF SummaryFails, SummaryEnds, EndTask, Drop, RunFails, Saved, Stepping
<1>37. CASE ExtensionReturns
  BY <1>37, <1>1 DEF ExtensionReturns, EndTask, Drop, Saved, Stepping
<1>38. CASE Restart
  BY <1>38, <1>1 DEF Restart, Saved, Stepping
<1>39. CASE SendPrompt
  BY <1>39, <1>1 DEF SendPrompt, session, task, Saved, Stepping
<1>40. CASE SendCommand
  BY <1>40, <1>1 DEF SendCommand, session, task, Saved, Stepping
<1>41. QED
  BY <1>2, <1>3, <1>4, <1>5, <1>6, <1>7, <1>8, <1>9, <1>10, <1>11, <1>12, <1>13, <1>14, <1>15,
     <1>16, <1>17, <1>18, <1>19, <1>20, <1>21, <1>22, <1>23, <1>24, <1>25, <1>26, <1>27, <1>28,
     <1>29, <1>30, <1>31, <1>32, <1>33, <1>34, <1>35, <1>36, <1>37, <1>38, <1>39, <1>40 DEF Next,
     Loop, Task, Environment

\* Prefixes of a history.
LEMMA PrefixStays ==
  ASSUME NEW h \in Seq(Message), NEW s \in Seq(Message)
  PROVE  /\ IsPrefix(h, h) /\ IsPrefix(<<>>, h)
         /\ \A m \in Message : IsPrefix(s, h) => IsPrefix(s, Append(h, m))
<1>1. IsPrefix(h, h)
  BY DEF IsPrefix
<1>2. IsPrefix(<<>>, h)
  <2>1. SubSeq(<<>>, 1, Len(<<>>)) = SubSeq(h, 1, Len(<<>>))
    BY SubSeqEmpty
  <2>2. QED
    BY <2>1 DEF IsPrefix
<1>3. ASSUME NEW m \in Message, IsPrefix(s, h)
      PROVE  IsPrefix(s, Append(h, m))
  <2>1. Len(s) <= Len(h) /\ SubSeq(s, 1, Len(s)) = SubSeq(h, 1, Len(s))
    BY <1>3 DEF IsPrefix
  <2>2. SubSeq(Append(h, m), 1, Len(s)) = SubSeq(h, 1, Len(s)) /\ Len(s) <= Len(Append(h, m))
    BY <2>1
  <2>3. QED
    BY <2>1, <2>2 DEF IsPrefix
<1>4. QED
  BY <1>1, <1>2, <1>3

\* What is lost from memory is in the archive.
LEMMA RetainedStep ==
  ASSUME TypeOK, Control, Requested, Retained, Next
  PROVE  Retained'
<1>1. /\ current \in Session /\ files \in [Session -> Seq(Message)]
      /\ \A s \in Session : files[s] \in Seq(Message)
  BY DEF TypeOK
<1>2. mem' \in Seq(Message) /\ mem \in Seq(Message)
  BY HistorySteps, HistoryTypes DEF TypeOK
<1>3. IsPrefix(mem, mem) /\ IsPrefix(mem', mem') /\ IsPrefix(<<>>, mem')
  BY <1>2, PrefixStays
<1>4. CASE UNCHANGED <<current, mem, files, archive>>
  BY <1>4 DEF Retained
<1>5. CASE Save(mem) /\ UNCHANGED <<current, mem, archive>>
  BY <1>1, <1>3, <1>5 DEF Retained, Save
<1>6. CASE /\ \E m \in Message : mem' = Append(mem, m)
           /\ Save(mem') \/ SaveFails
           /\ UNCHANGED <<current, archive>>
  <2>1. CASE Save(mem')
    BY <1>1, <1>3, <1>6, <2>1 DEF Retained, Save
  <2>2. CASE SaveFails
    <3>1. PICK m \in Message : mem' = Append(mem, m)
      BY <1>6
    <3>2. files[current] \in Seq(Message)
      BY <1>1
    <3>3. IsPrefix(files[current], mem) => IsPrefix(files[current], mem')
      BY <1>2, <3>1, <3>2, PrefixStays
    <3>4. QED
      BY <1>6, <2>2, <3>3 DEF Retained, SaveFails
  <2>3. QED
    BY <1>6, <2>1, <2>2
<1>7. CASE \E s \in Session : current' = s /\ mem' = Repair(files[s]) /\ UNCHANGED <<files, archive>>
  <2>1. PICK s \in Session : current' = s /\ mem' = Repair(files[s]) /\ UNCHANGED files
    BY <1>7
  <2>2. files[s] \in Seq(Message) /\ Prompts \in SUBSET (Nat \ {SummaryText})
    BY <1>1, PromptTyped
  <2>3. IsPrefix(files[s], Repair(files[s]))
    BY <2>2, RepairKeeps
  <2>4. QED
    BY <2>1, <2>3 DEF Retained
<1>8. CASE /\ \E tail \in Tails : mem' = <<User(SummaryText)>> \o tail
           /\ ArchiveFile
           /\ Save(mem') \/ SaveFails
           /\ UNCHANGED current
  <2>1. CASE Save(mem')
    BY <1>1, <1>3, <1>8, <2>1 DEF Retained, Save
  <2>2. CASE SaveFails
    BY <1>3, <1>8, <2>2 DEF Retained, SaveFails, ArchiveFile
  <2>3. QED
    BY <1>8, <2>1, <2>2
<1>9. QED
  BY <1>4, <1>5, <1>6, <1>7, <1>8, HistorySteps DEF HistoryStep

\* Inside a reply's calls.
Calling == pc \in {"call", "tool"}

\* What a step does to the calls, with what it does to the history.
CallStep ==
  \/ /\ UNCHANGED <<current, mem, archive, lost>>
     /\ UNCHANGED files \/ Save(mem)
     /\ Calling' = Calling /\ (Calling => UNCHANGED calls)
  \/ /\ \E p \in Prompts : mem' = Append(mem, User(p))
     /\ Save(mem') \/ SaveFails
     /\ UNCHANGED <<current, archive, lost>>
     /\ ~Calling /\ ~Calling'
  \/ /\ Reply
     /\ ~Calling
  \/ /\ RecordResult
     /\ Calling
  \/ /\ \E s \in Session : Load(s)
     /\ ~Calling'
  \/ /\ SummaryArrives
     /\ ~Calling'

\* A step does one of these to the calls.
LEMMA CallSteps ==
  ASSUME TypeOK, Control, Next
  PROVE  CallStep
<1>1. resume \in {"none", "push", "steer", "recheck", "reply"}
  BY DEF TypeOK
<1>2. CASE Abort
  BY <1>2 DEF Abort, session, task, CallStep, Calling
<1>3. CASE ClearQueue
  BY <1>3 DEF ClearQueue, session, task, CallStep, Calling
<1>4. CASE RefusePrompt
  BY <1>4 DEF RefusePrompt, session, task, CallStep, Calling
<1>5. CASE QueuePrompt
  BY <1>5 DEF QueuePrompt, session, task, CallStep, Calling
<1>6. CASE StartPrompt
  BY <1>6 DEF StartPrompt, Spawn, session, CallStep, Calling
<1>7. CASE StartCompact
  BY <1>7 DEF StartCompact, Spawn, session, CallStep, Calling
<1>8. CASE StartExtension
  BY <1>8 DEF StartExtension, Spawn, session, CallStep, Calling
<1>9. CASE NewSession
  <2>1. ~Calling'
    BY <1>9 DEF NewSession, task, Control, Calling
  <2>2. QED
    BY <1>9, <2>1 DEF NewSession, CallStep
<1>10. CASE SwitchSession
  <2>1. ~Calling'
    BY <1>10 DEF SwitchSession, task, Control, Calling
  <2>2. QED
    BY <1>10, <2>1 DEF SwitchSession, CallStep
<1>11. CASE SetModel
  BY <1>11 DEF SetModel, task, CallStep, Calling, SaveFails
<1>12. CASE RefuseCommand
  BY <1>12 DEF RefuseCommand, session, task, CallStep, Calling
<1>13. CASE GetState
  BY <1>13 DEF GetState, session, task, CallStep, Calling
<1>14. CASE Begin
  BY <1>14 DEF Begin, session, CallStep, Calling
<1>15. CASE StartSummary
  BY <1>15 DEF StartSummary, session, CallStep, Calling
<1>16. CASE PushPrompt
  <2>1. turn \in Prompts
    BY <1>16 DEF PushPrompt, Control, Undelivered
  <2>2. ~Calling /\ ~Calling'
    BY <1>16 DEF PushPrompt, RunFails, Calling
  <2>3. QED
    BY <1>16, <2>1, <2>2 DEF PushPrompt, CallStep
<1>17. CASE LeaveSteps
  BY <1>17 DEF LeaveSteps, session, CallStep, Calling
<1>18. CASE TakeSteering
  <2>1. Head(items).id \in Prompts
    BY <1>18, PromptTyped DEF TakeSteering
  <2>2. ~Calling /\ ~Calling'
    BY <1>18 DEF TakeSteering, AtSteer, RunFails, Calling
  <2>3. QED
    BY <1>18, <2>1, <2>2 DEF TakeSteering, CallStep
<1>19. CASE NoSteering
  BY <1>19 DEF NoSteering, AtSteer, session, CallStep, Calling
<1>20. CASE Pressure
  BY <1>20 DEF Pressure, RunFails, CallStep, Calling, SaveFails
<1>21. CASE StillTooLarge
  BY <1>21 DEF StillTooLarge, RunFails, session, CallStep, Calling
<1>22. CASE CallModel
  BY <1>22 DEF CallModel, session, CallStep, Calling
<1>23. CASE Reply
  BY <1>23 DEF Reply, CallStep, Calling
<1>24. CASE ModelFails
  BY <1>24 DEF ModelFails, RunFails, session, CallStep, Calling
<1>25. CASE ModelCancelled
  BY <1>25 DEF ModelCancelled, session, CallStep, Calling
<1>26. CASE StartTool
  BY <1>26 DEF StartTool, session, CallStep, Calling
<1>27. CASE SkipTool
  BY <1>27 DEF SkipTool, CallStep, Calling
<1>28. CASE ToolReturns
  BY <1>28 DEF ToolReturns, CallStep, Calling
<1>29. CASE OutOfSteps
  BY <1>29 DEF OutOfSteps, RunFails, session, CallStep, Calling
<1>30. CASE StopCancelled
  BY <1>30 DEF StopCancelled, session, CallStep, Calling
<1>31. CASE NextTurn
  BY <1>31 DEF NextTurn, session, CallStep, Calling
<1>32. CASE LastTurn
  BY <1>32 DEF LastTurn, session, CallStep, Calling
<1>33. CASE Settle
  BY <1>33 DEF Settle, Drop, session, CallStep, Calling
<1>34. CASE ManualSummary
  BY <1>34 DEF ManualSummary, EndTask, Drop, CallStep, Calling, SaveFails
<1>35. CASE SummaryArrives
  <2>1. ~Calling'
    BY <1>1, <1>35 DEF SummaryArrives, SummaryContinues, SummaryEnds, EndTask, Drop, RunFails,
       Calling
  <2>2. QED
    BY <1>35, <2>1 DEF CallStep
<1>36. CASE SummaryFails
  <2>1. ~Calling /\ ~Calling'
    BY <1>36 DEF SummaryFails, SummaryEnds, EndTask, Drop, RunFails, Calling
  <2>2. Calling' = Calling
    BY <2>1 DEF Calling
  <2>3. UNCHANGED <<current, mem, archive, files, lost>>
    BY <1>36 DEF SummaryFails, session
  <2>4. QED
    BY <2>1, <2>2, <2>3 DEF CallStep
<1>37. CASE ExtensionReturns
  BY <1>37 DEF ExtensionReturns, EndTask, Drop, session, CallStep, Calling
<1>38. CASE Restart
  BY <1>38 DEF Restart, CallStep, Calling
<1>39. CASE SendPrompt
  BY <1>39 DEF SendPrompt, session, task, CallStep, Calling
<1>40. CASE SendCommand
  BY <1>40 DEF SendCommand, session, task, CallStep, Calling
<1>41. QED
  BY <1>2, <1>3, <1>4, <1>5, <1>6, <1>7, <1>8, <1>9, <1>10, <1>11, <1>12, <1>13, <1>14, <1>15,
     <1>16, <1>17, <1>18, <1>19, <1>20, <1>21, <1>22, <1>23, <1>24, <1>25, <1>26, <1>27, <1>28,
     <1>29, <1>30, <1>31, <1>32, <1>33, <1>34, <1>35, <1>36, <1>37, <1>38, <1>39, <1>40 DEF Next,
     Loop, Task, Environment

\* The calls that are left are the ones the reply waits for.
LEMMA RequestedStep ==
  ASSUME TypeOK, Control, Requested, Next
  PROVE  Requested'
<1>1. mem \in Seq(Message)
  BY DEF TypeOK
<1>2. calls \in Seq(Nat)
  BY DEF TypeOK
<1>3. SUFFICES Calling' => Awaits(mem', calls')
  BY DEF Requested, Calling
<1>4. Calling => Awaits(mem, calls)
  BY DEF Requested, Calling
<1>5. CASE UNCHANGED mem /\ Calling' = Calling /\ (Calling => UNCHANGED calls)
  BY <1>4, <1>5
<1>6. CASE Reply
  <2>1. PICK cs \in Seq(Nat) : /\ calls' = cs /\ mem' = Append(mem, Assistant(cs))
                               /\ \A i, j \in DOMAIN cs : cs[i] = cs[j] => i = j
                               /\ pc' = "settle" \/ (cs = <<>> /\ pc' = "completed")
                                    \/ (cs # <<>> /\ pc' = "call")
    BY <1>6, ReplyStep
  <2>2. cs # <<>> => Awaits(mem', calls')
    BY <1>1, <2>1, ReplyAwaits
  <2>3. QED
    BY <2>1, <2>2 DEF Calling
<1>7. CASE RecordResult /\ Calling
  <2>1. Awaits(mem, calls)
    BY <1>4, <1>7
  <2>2. Tail(calls) # <<>> => Awaits(Append(mem, ToolResult(Head(calls))), Tail(calls))
    BY <1>1, <1>2, <2>1, ResultAnswers
  <2>3. mem' = Append(mem, ToolResult(Head(calls))) /\ calls' = Tail(calls)
    BY <1>7 DEF RecordResult
  <2>4. pc' = "settle" \/ (Tail(calls) = <<>> /\ pc' = "step") \/ Tail(calls) # <<>>
    BY <1>7 DEF RecordResult, RunFails
  <2>5. QED
    BY <2>2, <2>3, <2>4 DEF Calling
<1>8. CASE ~Calling'
  BY <1>8
<1>9. QED
  BY <1>5, <1>6, <1>7, <1>8, CallSteps DEF CallStep

\* But for the lost calls no history is left with a gap.
LEMMA WholeStep ==
  ASSUME TypeOK, Control, Requested, Whole, Next
  PROVE  Whole'
<1>1. mem \in Seq(Message)
  BY DEF TypeOK
<1>2. calls \in Seq(Nat)
  BY DEF TypeOK
<1>3. current \in Session /\ files \in [Session -> Seq(Message)]
  BY DEF TypeOK
<1>4. lost \subseteq lost' /\ (lost' # {} => SaveMayFail)
  BY LostTyped DEF Whole
<1>5. SUFFICES /\ Repairable(mem', lost') /\ \A s \in Session : Repairable(files'[s], lost')
               /\ ~Calling' => PairedBut(mem', lost')
  BY <1>4 DEF Whole, Calling
<1>6. /\ Repairable(mem, lost) /\ \A s \in Session : Repairable(files[s], lost)
      /\ ~Calling => PairedBut(mem, lost)
  BY DEF Whole, Calling
<1>7. /\ Repairable(mem, lost') /\ \A s \in Session : Repairable(files[s], lost')
      /\ ~Calling => PairedBut(mem, lost')
  BY <1>4, <1>6, MoreExcepted
<1>8. ASSUME UNCHANGED files \/ Save(mem) \/ Save(mem'), Repairable(mem', lost')
      PROVE  \A s \in Session : Repairable(files'[s], lost')
  <2>1. \A s \in Session : files'[s] \in {files[s], mem, mem'}
    BY <1>3, <1>8 DEF Save
  <2>2. QED
    BY <1>7, <1>8, <2>1
<1>9. CASE /\ UNCHANGED <<current, mem, archive, lost>>
           /\ UNCHANGED files \/ Save(mem)
           /\ Calling' = Calling /\ (Calling => UNCHANGED calls)
  BY <1>7, <1>8, <1>9
<1>10. CASE /\ \E p \in Prompts : mem' = Append(mem, User(p))
            /\ Save(mem') \/ SaveFails
            /\ UNCHANGED <<current, archive, lost>>
            /\ ~Calling /\ ~Calling'
  <2>1. PICK p \in Prompts : mem' = Append(mem, User(p))
    BY <1>10
  <2>2. User(p) \in Message /\ User(p).role = "user" /\ User(p).role # "toolResult"
    BY MessageTypes, PromptTyped DEF User
  <2>3. PairedBut(mem', lost')
    BY <1>1, <1>7, <1>10, <2>1, <2>2, AppendPaired
  <2>4. QED
    BY <1>8, <1>10, <2>3, PairedIsRepairable DEF SaveFails
<1>11. CASE Reply /\ ~Calling
  <2>1. PICK cs \in Seq(Nat) :
          /\ calls' = cs /\ mem' = Append(mem, Assistant(cs))
          /\ \A i, j \in DOMAIN cs : cs[i] = cs[j] => i = j
          /\ \/ /\ (cs = <<>> /\ pc' = "completed") \/ (cs # <<>> /\ pc' = "call")
                /\ Save(mem') /\ UNCHANGED lost
             \/ /\ pc' = "settle"
                /\ SaveFails /\ lost' = lost \cup ToSet(cs)
    BY <1>11, ReplyStep
  <2>2. /\ Assistant(cs) \in Message /\ Assistant(cs).role # "toolResult"
        /\ Calls(Assistant(cs)) = ToSet(cs)
    BY MessageTypes DEF Assistant, Calls
  <2>3. PairedBut(mem, lost)
    BY <1>6, <1>11
  <2>4. Repairable(mem', lost) /\ PairedBut(mem', lost \cup ToSet(cs))
    BY <1>1, <2>1, <2>2, <2>3, AppendPaired
  <2>5. cs = <<>> => lost \cup ToSet(cs) = lost
    BY DEF ToSet
  <2>6. Repairable(mem', lost')
    BY <1>4, <2>4, MoreExcepted
  <2>7. ~Calling' => PairedBut(mem', lost')
    BY <2>1, <2>4, <2>5 DEF Calling
  <2>8. QED
    BY <1>8, <2>1, <2>6, <2>7 DEF SaveFails
<1>12. CASE RecordResult /\ Calling
  <2>1. Awaits(mem, calls)
    BY <1>12 DEF Requested, Calling
  <2>2. mem' = Append(mem, ToolResult(Head(calls)))
    BY <1>12 DEF RecordResult
  <2>3. \/ Save(mem') /\ (Tail(calls) = <<>> \/ pc' = "call") /\ UNCHANGED lost
        \/ SaveFails /\ lost' = lost \cup ToSet(Tail(calls))
    BY <1>12 DEF RecordResult
  <2>4. Repairable(mem', lost) /\ PairedBut(mem', lost \cup ToSet(Tail(calls)))
    BY <1>1, <1>2, <1>6, <2>1, <2>2, ResultAnswers
  <2>5. Tail(calls) = <<>> => lost \cup ToSet(Tail(calls)) = lost
    BY DEF ToSet
  <2>6. Repairable(mem', lost')
    BY <1>4, <2>4, MoreExcepted
  <2>7. ~Calling' => PairedBut(mem', lost')
    BY <2>3, <2>4, <2>5 DEF Calling
  <2>8. QED
    BY <1>8, <2>3, <2>6, <2>7 DEF SaveFails
<1>13. CASE (\E s \in Session : Load(s)) /\ ~Calling'
  <2>1. PICK s \in Session : mem' = Repair(files[s]) /\ UNCHANGED files
    BY <1>13 DEF Load
  <2>2. files[s] \in Seq(Message)
    BY <1>3
  <2>3. PairedBut(mem', lost')
    BY <1>7, <2>1, <2>2, RepairPairs
  <2>4. QED
    BY <1>8, <2>1, <2>3, PairedIsRepairable
<1>14. CASE SummaryArrives /\ ~Calling'
  <2>1. PairedBut(mem, lost')
    BY <1>7, <1>14 DEF SummaryArrives, Calling
  <2>2. PICK tail \in Tails : mem' = <<User(SummaryText)>> \o tail
    BY <1>14 DEF SummaryArrives
  <2>3. PairedBut(mem', lost')
    BY <2>1, <2>2, SummaryStep
  <2>4. Save(mem') \/ UNCHANGED files
    BY <1>14 DEF SummaryArrives, SaveFails
  <2>5. QED
    BY <1>8, <2>3, <2>4, PairedIsRepairable
<1>15. QED
  BY <1>9, <1>10, <1>11, <1>12, <1>13, <1>14, CallSteps DEF CallStep

-----------------------------------------------------------------------------
\* The runtime starts with nothing to say, nothing to do and nothing saved.
LEMMA InitInductive ==
  ASSUME Init
  PROVE  IInv
<1>1. <<>> \in Seq(Message)
  OBVIOUS
<1>2. TypeOK
  <2>1. /\ <<>> \in Seq(Command) /\ <<>> \in Seq(Record) /\ <<>> \in Seq(Queued) /\ <<>> \in Seq(Nat)
        /\ Len(<<>>) <= QueueLimit /\ 0 \in 0 .. MaxPrompts /\ 0 \in 0 .. MaxSteps /\ 1 \in Nat
    BY WireAssumption, EngineAssumption
  <2>2. <<0, "main">> \in Ids
    BY DEF Ids
  <2>3. files \in [Session -> Seq(Message)]
    BY <1>1 DEF Init
  <2>4. pc \in Places /\ resume \in {"none", "push", "steer", "recheck", "reply"}
    BY DEF Init, Places
  <2>5. QED
    BY <1>1, <2>1, <2>2, <2>3, <2>4 DEF Init, WireInit, TypeOK
<1>3. Undelivered = {} /\ Waiting(items) = {}
  BY DEF Init, Undelivered, Waiting
<1>4. \A p : ~Holds(<<>>, p)
  BY DEF Holds
<1>5. \A s \in Session : files[s] = <<>>
  BY DEF Init
<1>6. Told = {}
  BY <1>4, <1>5 DEF Init, Told
<1>7. Control
  BY <1>3 DEF Init, Control, Stepping
<1>8. Arriving
  BY <1>3, <1>6 DEF Init, WireInit, Arriving, Known
<1>9. HoldsOnce(<<>>, Prompts)
  BY DEF HoldsOnce
<1>10. OnePlace
  BY <1>3, <1>5, <1>6, <1>9 DEF Init, OnePlace, Distinct
<1>11. InOrder(items) /\ Saved /\ Requested
  BY DEF Init, InOrder, Saved, Stepping, Requested
<1>12. Retained
  BY <1>1, <1>5, PrefixStays DEF Init, Retained
<1>13. PairedBut(<<>>, {})
  BY DEF PairedBut
<1>14. Whole
  BY <1>5, <1>13, PairedIsRepairable DEF Init, Whole
<1>15. QED
  BY <1>2, <1>7, <1>8, <1>10, <1>11, <1>12, <1>14 DEF IInv

\* Every step keeps the invariant.
LEMMA StepInductive ==
  ASSUME IInv, [Next]_vars
  PROVE  IInv'
<1>1. CASE Next
  BY <1>1, TypeStep, ControlStep, ArrivingStep, OnePlaceStep, SavedStep, RetainedStep, RequestedStep,
     WholeStep DEF IInv
<1>2. CASE UNCHANGED vars
  <2>1. UNCHANGED <<wire, queue, signal, session, task, sent>>
    BY <1>2 DEF vars
  <2>2. TypeOK'
    BY <2>1 DEF IInv, TypeOK, wire, queue, signal, session, task
  <2>3. UNCHANGED <<Undelivered, Told, Stepping>> /\ UNCHANGED <<items, commands, sent, mem, files, current>>
    BY <2>1 DEF Undelivered, Told, Stepping, wire, queue, signal, session, task
  <2>4. Control' /\ OnePlace' /\ InOrder(items)'
    BY <2>1, <2>3 DEF IInv, Control, OnePlace, queue, signal, session, task
  <2>5. Arriving'
    BY <2>3 DEF IInv, Arriving, Known
  <2>6. Saved' /\ Retained' /\ Requested' /\ Whole'
    BY <2>1, <2>3 DEF IInv, Saved, Retained, Requested, Whole, session, task
  <2>7. QED
    BY <2>2, <2>4, <2>5, <2>6 DEF IInv
<1>3. QED
  BY <1>1, <1>2

\* The invariant always holds.
THEOREM AlwaysInductive == Spec => []IInv
<1>1. Init => IInv
  BY InitInductive
<1>2. IInv /\ [Next]_vars => IInv'
  BY StepInductive
<1>3. QED
  BY <1>1, <1>2, PTL DEF Spec


\* At most one element.
LEMMA AtMostOne ==
  ASSUME NEW S, \A x, y \in S : x = y
  PROVE  /\ Cardinality(S) \in {0, 1}
         /\ S = {} => Cardinality(S) = 0
<1>1. CASE S = {}
  BY <1>1, FS_EmptySet
<1>2. CASE S # {}
  <2>1. PICK x \in S : TRUE
    BY <1>2
  <2>2. S = {x}
    BY <2>1
  <2>3. QED
    BY <2>2, FS_Singleton
<1>3. QED
  BY <1>1, <1>2

\* TypeOK: every variable of the runtime keeps its type, and the queue its limit
\* (serve_async and run_turns, engine.rs).
THEOREM TypeCorrect == Spec => []TypeOK
<1>1. IInv => TypeOK
  BY DEF IInv
<1>2. QED
  BY <1>1, AlwaysInductive, PTL

\* SteersFirst: whatever is sent, taken or handed back, steering submissions come
\* first and each kind waits in the order of submission (serve_async, engine.rs).
THEOREM SteersAlwaysFirst == Spec => []SteersFirst
<1>1. IInv => SteersFirst
  BY DEF IInv, InOrder, SteersFirst
<1>2. QED
  BY <1>1, AlwaysInductive, PTL

\* DeliveredOnce: through failures, cancellations, compactions, changes of session
\* and lost threads, no path delivers a submission twice (run_turns, engine.rs).
THEOREM AlwaysDeliveredOnce == Spec => []DeliveredOnce
<1>1. ASSUME IInv PROVE DeliveredOnce
  <2> SUFFICES ASSUME NEW p \in Prompts
               PROVE  Cardinality({i \in DOMAIN mem : mem[i] = User(p)})
                        + Cardinality({i \in DOMAIN items : items[i].id = p})
                        + Cardinality({p} \cap Undelivered) <= 1
    BY DEF DeliveredOnce
  <2> DEFINE A == {i \in DOMAIN mem : mem[i] = User(p)}
             B == {i \in DOMAIN items : items[i].id = p}
             C == {p} \cap Undelivered
  <2>1. OnePlace
    BY <1>1 DEF IInv
  <2>2. \A x, y \in A : x = y
    BY <2>1 DEF OnePlace, HoldsOnce
  <2>3. \A x, y \in B : x = y
    BY <2>1 DEF OnePlace, Distinct
  <2>4. \A x, y \in C : x = y
    OBVIOUS
  <2>5. A # {} => p \in Told
    BY DEF Told, Holds
  <2>6. B # {} => p \in Waiting(items)
    BY DEF Waiting
  <2>7. C # {} => p \in Undelivered
    OBVIOUS
  <2> HIDE DEF A, B, C
  <2>8. \/ A = {} /\ B = {}
        \/ A = {} /\ C = {}
        \/ B = {} /\ C = {}
    BY <2>1, <2>5, <2>6, <2>7 DEF OnePlace
  <2>9. Cardinality(A) \in {0, 1} /\ (A = {} => Cardinality(A) = 0)
    BY <2>2, AtMostOne
  <2>10. Cardinality(B) \in {0, 1} /\ (B = {} => Cardinality(B) = 0)
    BY <2>3, AtMostOne
  <2>11. Cardinality(C) \in {0, 1} /\ (C = {} => Cardinality(C) = 0)
    BY <2>4, AtMostOne
  <2>12. Cardinality(A) + Cardinality(B) + Cardinality(C) <= 1
    BY <2>8, <2>9, <2>10, <2>11
  <2>13. QED
    BY <2>12 DEF A, B, C
<1>2. QED
  BY <1>1, AlwaysInductive, PTL

\* ActOnSaved: the model is asked and a tool is run only on a saved history, and a
\* load would report the call that runs as interrupted (run_turns, engine.rs).
THEOREM AlwaysActOnSaved == Spec => []ActOnSaved
<1>1. ASSUME IInv PROVE ActOnSaved
  <2>1. pc \in {"model", "tool"} => files[current] = mem
    BY <1>1 DEF IInv, Saved, Stepping
  <2>2. ASSUME pc = "tool" PROVE Head(calls) \in Unanswered(files[current])
    <3>1. mem \in Seq(Message)
      BY <1>1 DEF IInv, TypeOK
    <3>2. calls \in Seq(Nat)
      BY <1>1 DEF IInv, TypeOK
    <3>3. Awaits(mem, calls)
      BY <1>1, <2>2 DEF IInv, Requested
    <3>4. Head(calls) \in Unanswered(mem)
      BY <3>1, <3>2, <3>3, ResultAnswers
    <3>5. QED
      BY <2>1, <2>2, <3>4
  <2>3. QED
    BY <2>1, <2>2 DEF ActOnSaved
<1>2. QED
  BY <1>1, AlwaysInductive, PTL

\* CallsAnswered: what the provider gets and what any session file loads into pairs
\* every call with its result, whatever saves fail, but for the calls that a failed
\* save has left in memory without one (Session::load and run_turns).
THEOREM CallsAlwaysAnswered == Spec => []CallsAnswered
<1>1. ASSUME IInv PROVE CallsAnswered
  <2>1. /\ pc \notin {"call", "tool"} => PairedBut(mem, lost)
        /\ \A s \in Session : Repairable(files[s], lost)
        /\ lost # {} => SaveMayFail
    BY <1>1 DEF IInv, Whole
  <2>2. ASSUME NEW s \in Session PROVE PairedBut(Repair(files[s]), lost)
    <3>1. files[s] \in Seq(Message)
      BY <1>1 DEF IInv, TypeOK
    <3>2. QED
      BY <2>1, <3>1, RepairPairs
  <2>3. QED
    BY <2>1, <2>2 DEF CallsAnswered
<1>2. QED
  BY <1>1, AlwaysInductive, PTL

-----------------------------------------------------------------------------
\* What ends a run, and what changes the session.
LEMMA LeavesStep ==
  ASSUME IInv, Next
  PROVE  /\ pc = "completed" /\ pc' # pc => cancel \/ NextTurn \/ LastTurn \/ Restart
         /\ current' # current \/ provider' # provider => Restart \/ ~running
<1>1. CASE Abort
  BY <1>1 DEF Abort, session, task
<1>2. CASE ClearQueue
  BY <1>2 DEF ClearQueue, session, task
<1>3. CASE RefusePrompt
  BY <1>3 DEF RefusePrompt, session, task
<1>4. CASE QueuePrompt
  BY <1>4 DEF QueuePrompt, session, task
<1>5. CASE StartPrompt
  BY <1>5 DEF StartPrompt, Spawn
<1>6. CASE StartCompact
  BY <1>6 DEF StartCompact, Spawn
<1>7. CASE StartExtension
  BY <1>7 DEF StartExtension, Spawn
<1>8. CASE NewSession
  BY <1>8 DEF NewSession, task
<1>9. CASE SwitchSession
  BY <1>9 DEF SwitchSession, task
<1>10. CASE SetModel
  BY <1>10 DEF SetModel, task
<1>11. CASE RefuseCommand
  BY <1>11 DEF RefuseCommand, session, task
<1>12. CASE GetState
  BY <1>12 DEF GetState, session, task
<1>13. CASE Begin
  BY <1>13 DEF Begin, session
<1>14. CASE StartSummary
  BY <1>14 DEF StartSummary, session
<1>15. CASE PushPrompt
  BY <1>15 DEF PushPrompt
<1>16. CASE LeaveSteps
  BY <1>16 DEF LeaveSteps, session
<1>17. CASE TakeSteering
  BY <1>17 DEF TakeSteering, AtSteer
<1>18. CASE NoSteering
  BY <1>18 DEF NoSteering, AtSteer, session
<1>19. CASE Pressure
  BY <1>19 DEF Pressure
<1>20. CASE StillTooLarge
  BY <1>20 DEF StillTooLarge, session
<1>21. CASE CallModel
  BY <1>21 DEF CallModel, session
<1>22. CASE Reply
  BY <1>22 DEF Reply
<1>23. CASE ModelFails
  BY <1>23 DEF ModelFails, session
<1>24. CASE ModelCancelled
  BY <1>24 DEF ModelCancelled, session
<1>25. CASE StartTool
  BY <1>25 DEF StartTool, session
<1>26. CASE SkipTool
  BY <1>26 DEF SkipTool, RecordResult
<1>27. CASE ToolReturns
  BY <1>27 DEF ToolReturns, RecordResult
<1>28. CASE OutOfSteps
  BY <1>28 DEF OutOfSteps, session
<1>29. CASE StopCancelled
  BY <1>29 DEF StopCancelled, session
<1>30. CASE NextTurn
  BY <1>30 DEF NextTurn, session
<1>31. CASE LastTurn
  BY <1>31 DEF LastTurn, session
<1>32. CASE Settle
  BY <1>32 DEF Settle, session
<1>33. CASE ManualSummary
  BY <1>33 DEF ManualSummary
<1>34. CASE SummaryArrives
  BY <1>34 DEF SummaryArrives
<1>35. CASE SummaryFails
  BY <1>35 DEF SummaryFails, session
<1>36. CASE ExtensionReturns
  BY <1>36 DEF ExtensionReturns, session
<1>37. CASE Restart
  BY <1>37
<1>38. CASE SendPrompt
  BY <1>38 DEF SendPrompt, session, task
<1>39. CASE SendCommand
  BY <1>39 DEF SendCommand, session, task
<1>40. QED
  BY <1>1, <1>2, <1>3, <1>4, <1>5, <1>6, <1>7, <1>8, <1>9, <1>10, <1>11, <1>12, <1>13, <1>14,
     <1>15, <1>16, <1>17, <1>18, <1>19, <1>20, <1>21, <1>22, <1>23, <1>24, <1>25, <1>26, <1>27,
     <1>28, <1>29, <1>30, <1>31, <1>32, <1>33, <1>34, <1>35, <1>36, <1>37, <1>38, <1>39 DEF Next,
     Loop, Task, Environment

\* WaitingTaken: a run that is over without a failure or a cancellation leaves no
\* accepted submission behind (run_turns and its wrapper, engine.rs).
THEOREM WaitingAlwaysTaken == Spec => WaitingTaken
<1>1. ASSUME IInv, Next, ~cancel, pc \in {"completed", "settle"}, pc' # pc, ~Restart,
             NEW i \in DOMAIN items
      PROVE  turn' = items[i].id \/ \E j \in DOMAIN items' : items'[j].id = items[i].id
  <2>1. items \in Seq(Queued)
    BY <1>1 DEF IInv, TypeOK
  <2>2. items # <<>>
    BY <2>1
  <2>3. pc = "completed"
    BY <1>1, <2>2 DEF IInv, Control
  <2>4. NextTurn
    BY <1>1, <2>2, <2>3, LeavesStep DEF LastTurn
  <2>5. turn' = Head(items).id /\ items' = Tail(items)
    BY <2>4 DEF NextTurn
  <2>6. CASE i = 1
    BY <2>1, <2>2, <2>5, <2>6
  <2>7. CASE i # 1
    <3>1. i - 1 \in DOMAIN items' /\ items'[i - 1] = items[i]
      BY <2>1, <2>5, <2>7
    <3>2. QED
      BY <3>1
  <2>8. QED
    BY <2>6, <2>7
<1>2. IInv /\ [Next]_vars =>
        [~cancel /\ pc \in {"completed", "settle"} /\ pc' # pc =>
           \/ Restart
           \/ \A i \in DOMAIN items :
                turn' = items[i].id \/ \E j \in DOMAIN items' : items'[j].id = items[i].id]_vars
  BY <1>1
<1>3. QED
  BY <1>2, AlwaysInductive, PTL DEF Spec, WaitingTaken

\* SessionStable: while a task works on the session, no command replaces it or its
\* model (the checks of `running` in serve_async, engine.rs).
THEOREM SessionAlwaysStable == Spec => SessionStable
<1>1. IInv /\ [Next]_vars => [current' # current \/ provider' # provider => pc \in {"none", "settle"} \/ Restart]_vars
  BY LeavesStep DEF IInv, Control
<1>2. QED
  BY <1>1, AlwaysInductive, PTL DEF Spec, SessionStable

\* HistoryRetained: a session file only grows, or its old contents have just been
\* archived (Session::save, archive and the compaction of engine.rs).
THEOREM HistoryAlwaysRetained == Spec => HistoryRetained
<1>1. ASSUME IInv, Next, NEW s \in Session, files'[s] # files[s]
      PROVE  IsPrefix(files[s], files'[s]) \/ archive' = files[s]
  <2>1. /\ current \in Session /\ files \in [Session -> Seq(Message)]
        /\ mem \in Seq(Message) /\ files[s] \in Seq(Message)
    BY <1>1 DEF IInv, TypeOK
  <2>2. TypeOK'
    BY <1>1, TypeStep DEF IInv
  <2>3. mem' \in Seq(Message)
    BY <2>2 DEF TypeOK
  <2>4. HistoryStep(Message) /\ Retained
    BY <1>1, HistorySteps DEF IInv
  <2>5. CASE Save(mem) /\ UNCHANGED <<current, mem, archive>>
    <3>1. s = current /\ files'[s] = mem
      BY <1>1, <2>1, <2>5 DEF Save
    <3>2. QED
      BY <2>4, <2>5, <3>1 DEF Retained
  <2>6. CASE /\ \E m \in Message : mem' = Append(mem, m)
             /\ Save(mem') \/ SaveFails
             /\ UNCHANGED <<current, archive>>
    <3>1. s = current /\ files'[s] = mem'
      BY <1>1, <2>1, <2>6 DEF Save, SaveFails
    <3>2. PICK m \in Message : mem' = Append(mem, m)
      BY <2>6
    <3>3. IsPrefix(files[s], mem) => IsPrefix(files[s], mem')
      BY <2>1, <3>2, PrefixStays
    <3>4. QED
      BY <2>4, <2>6, <3>1, <3>3 DEF Retained
  <2>7. CASE /\ \E tail \in Tails : mem' = <<User(SummaryText)>> \o tail
             /\ ArchiveFile
             /\ Save(mem') \/ SaveFails
             /\ UNCHANGED current
    <3>1. s = current /\ files'[s] = mem'
      BY <1>1, <2>1, <2>7 DEF Save, SaveFails
    <3>2. files[s] = <<>> => IsPrefix(files[s], files'[s])
      BY <2>3, <3>1, PrefixStays
    <3>3. QED
      BY <2>7, <3>1, <3>2 DEF ArchiveFile
  <2>8. QED
    BY <1>1, <2>4, <2>5, <2>6, <2>7 DEF HistoryStep
<1>2. IInv /\ [Next]_vars =>
        [\A s \in Session :
           files'[s] # files[s] => IsPrefix(files[s], files'[s]) \/ archive' = files[s]]_vars
  BY <1>1
<1>3. QED
  BY <1>2, AlwaysInductive, PTL DEF Spec, HistoryRetained
=============================================================================
