----------------------------- MODULE StepProofs -----------------------------
(***************************************************************************)
(* What compaction by steps keeps, for any files, tools, limits and        *)
(* however long a conversation.                                            *)
(***************************************************************************)
EXTENDS StepCompaction, SequenceLemmas

\* The provers do not know that "none" is a string.
ToolNames == STRING \cup {"none"}
Calls == [id : Nat, tool : ToolNames, file : Nat]
PartSet == [text : Nat, reason : Nat, call : Calls, result : Calls, out : Nat]
Messages == [role : {"system", "user", "assistant"}, parts : Seq(PartSet), prompt : Nat, file : Nat]

\* Messages of a session: a prompt is nothing but its text.
Conversation(h) ==
    h \in Seq(Messages) /\ \A m \in ToSet(h) : m.prompt # 0 => m = PromptMessage(m.prompt)

LEMMA Elements ==
    ASSUME NEW S, NEW s \in Seq(S)
    PROVE  /\ Len(s) \in Nat /\ DOMAIN s = 1 .. Len(s)
           /\ \A i \in 1 .. Len(s) : s[i] \in S /\ s[i] \in ToSet(s)
           /\ \A x \in ToSet(s) : x \in S /\ \E i \in 1 .. Len(s) : s[i] = x
<1>1. Len(s) \in Nat /\ DOMAIN s = 1 .. Len(s) /\ \A i \in 1 .. Len(s) : s[i] \in S
  BY LenProperties, ElementOfSeq
<1> QED
  BY <1>1 DEF ToSet

-----------------------------------------------------------------------------
(* Prompts.                                                                *)

\* The numbers of the prompts, each in a sequence of its own.
Numbers(h) == [i \in DOMAIN h |-> PromptOf(h[i])]

LEMMA NumbersType ==
    ASSUME NEW h \in Seq(Messages)
    PROVE  /\ Numbers(h) \in Seq(Seq(Nat)) /\ Len(Numbers(h)) = Len(h) /\ PromptsOf(h) = Flat(Numbers(h))
           /\ \A i \in 1 .. Len(h) : Numbers(h)[i] = PromptOf(h[i])
           /\ PromptsOf(h) \in Seq(Nat)
<1>1. Len(h) \in Nat /\ DOMAIN h = 1 .. Len(h) /\ \A i \in 1 .. Len(h) : h[i] \in Messages
  BY Elements
<1>2. \A i \in 1 .. Len(h) : PromptOf(h[i]) \in Seq(Nat)
  <2>1. ASSUME NEW i \in 1 .. Len(h) PROVE PromptOf(h[i]) \in Seq(Nat)
    <3>1. h[i].prompt \in Nat
      BY <1>1 DEF Messages
    <3> QED
      BY <3>1 DEF PromptOf
  <2> QED
    BY <2>1
<1>3. Numbers(h) = [i \in 1 .. Len(h) |-> PromptOf(h[i])]
  BY <1>1 DEF Numbers
<1>4. Numbers(h) \in Seq(Seq(Nat)) /\ Len(Numbers(h)) = Len(h)
  BY <1>1, <1>2, <1>3
<1>5. PromptsOf(h) = Flat(Numbers(h))
  BY DEF PromptsOf, Numbers
<1> QED
  BY <1>3, <1>4, <1>5, FlatType

LEMMA PromptsConcat ==
    ASSUME NEW a \in Seq(Messages), NEW b \in Seq(Messages)
    PROVE  PromptsOf(a \o b) = PromptsOf(a) \o PromptsOf(b)
<1> DEFINE c == a \o b
<1>1. /\ c \in Seq(Messages) /\ Len(c) = Len(a) + Len(b) /\ Len(a) \in Nat /\ Len(b) \in Nat
      /\ \A i \in 1 .. Len(c) : c[i] = IF i <= Len(a) THEN a[i] ELSE b[i - Len(a)]
  BY ConcatProperties, LenProperties
<1> HIDE DEF c
<1> DEFINE p == Numbers(a)
<1> DEFINE q == Numbers(b)
<1> DEFINE r == Numbers(c)
<1> DEFINE z == p \o q
<1>2. /\ p \in Seq(Seq(Nat)) /\ Len(p) = Len(a) /\ PromptsOf(a) = Flat(p)
      /\ \A i \in 1 .. Len(a) : p[i] = PromptOf(a[i])
  BY NumbersType
<1>3. /\ q \in Seq(Seq(Nat)) /\ Len(q) = Len(b) /\ PromptsOf(b) = Flat(q)
      /\ \A i \in 1 .. Len(b) : q[i] = PromptOf(b[i])
  BY NumbersType
<1>4. /\ r \in Seq(Seq(Nat)) /\ Len(r) = Len(c) /\ PromptsOf(c) = Flat(r)
      /\ \A i \in 1 .. Len(c) : r[i] = PromptOf(c[i])
  BY <1>1, NumbersType
<1> HIDE DEF p, q, r
<1>5. /\ z \in Seq(Seq(Nat)) /\ Len(z) = Len(c)
      /\ \A i \in 1 .. Len(c) : z[i] = IF i <= Len(a) THEN p[i] ELSE q[i - Len(a)]
  BY <1>1, <1>2, <1>3, ConcatProperties
<1>6. Flat(z) = Flat(p) \o Flat(q)
  BY <1>2, <1>3, FlatConcat
<1> HIDE DEF z
<1>7. ASSUME NEW i \in 1 .. Len(c) PROVE z[i] = r[i]
  <2>1. CASE i <= Len(a)
    <3>1. i \in 1 .. Len(a)
      BY <1>1, <2>1
    <3> QED
      BY <1>1, <1>2, <1>4, <1>5, <2>1, <3>1
  <2>2. CASE ~(i <= Len(a))
    <3>1. i - Len(a) \in 1 .. Len(b)
      BY <1>1, <2>2
    <3> QED
      BY <1>1, <1>3, <1>4, <1>5, <2>2, <3>1
  <2> QED
    BY <2>1, <2>2
<1>8. z = r
  BY <1>4, <1>5, <1>7, SeqEqual
<1> QED
  BY <1>2, <1>3, <1>4, <1>6, <1>8 DEF c

\* Each message replaced by messages with its prompt.
LEMMA PromptsFlat ==
    ASSUME NEW h \in Seq(Messages), NEW gs \in Seq(Seq(Messages)), Len(gs) = Len(h),
           \A i \in 1 .. Len(h) : PromptsOf(gs[i]) = PromptOf(h[i])
    PROVE  PromptsOf(Flat(gs)) = PromptsOf(h)
<1> DEFINE N == Len(h)
<1> DEFINE p == Numbers(h)
<1>1. N \in Nat /\ \A i \in 1 .. N : gs[i] \in Seq(Messages)
  BY Elements
<1>2. /\ p \in Seq(Seq(Nat)) /\ Len(p) = N /\ PromptsOf(h) = Flat(p)
      /\ \A i \in 1 .. N : p[i] = PromptOf(h[i])
  BY NumbersType
<1> HIDE DEF p
<1>3. PICK f : FlatRun(f, gs, Messages)
  BY FlatSteps
<1>4. PICK g : FlatRun(g, p, Nat)
  BY <1>2, FlatSteps
<1>5. /\ f[0] = <<>> /\ Flat(gs) = f[N] /\ \A n \in 1 .. N : f[n] = f[n - 1] \o gs[n]
      /\ \A n \in 0 .. N : f[n] \in Seq(Messages)
  BY <1>3 DEF FlatRun
<1>6. /\ g[0] = <<>> /\ Flat(p) = g[N] /\ \A n \in 1 .. N : g[n] = g[n - 1] \o p[n]
  BY <1>2, <1>4 DEF FlatRun
<1> DEFINE T == {m \in Nat : m <= N => PromptsOf(f[m]) = g[m]}
<1>7. 0 \in T
  <2>1. Numbers(<<>>) = <<>>
    BY DEF Numbers
  <2>2. <<>> \in Seq(Messages)
    OBVIOUS
  <2>3. PromptsOf(<<>>) = <<>>
    BY <2>1, <2>2, NumbersType, FlatEmpty
  <2> QED
    BY <1>5, <1>6, <2>3
<1>8. ASSUME NEW m \in Nat, m \in T PROVE m + 1 \in T
  <2>1. SUFFICES ASSUME m + 1 <= N PROVE PromptsOf(f[m + 1]) = g[m + 1]
    OBVIOUS
  <2>2. PromptsOf(f[m]) = g[m] /\ m + 1 \in 1 .. N /\ (m + 1) - 1 = m /\ m \in 0 .. N
    BY <1>1, <1>8, <2>1
  <2>3. /\ f[m + 1] = f[m] \o gs[m + 1] /\ g[m + 1] = g[m] \o p[m + 1]
        /\ f[m] \in Seq(Messages) /\ gs[m + 1] \in Seq(Messages)
        /\ PromptsOf(gs[m + 1]) = p[m + 1]
    BY <1>1, <1>2, <1>5, <1>6, <2>2
  <2>4. PromptsOf(f[m] \o gs[m + 1]) = PromptsOf(f[m]) \o PromptsOf(gs[m + 1])
    BY <2>3, PromptsConcat
  <2> QED
    BY <2>2, <2>3, <2>4
<1>9. N \in T
  <2> HIDE DEF T
  <2> QED
    BY <1>1, <1>7, <1>8, InductionOnSets
<1> QED
  BY <1>1, <1>2, <1>5, <1>6, <1>9

LEMMA PromptsNone ==
    ASSUME NEW s \in Seq(Messages), \A x \in ToSet(s) : x.prompt = 0
    PROVE  PromptsOf(s) = <<>>
<1> DEFINE n == Numbers(s)
<1>1. n \in Seq(Seq(Nat)) /\ Len(n) = Len(s) /\ PromptsOf(s) = Flat(n)
      /\ \A i \in 1 .. Len(s) : n[i] = PromptOf(s[i])
  BY NumbersType
<1> HIDE DEF n
<1>2. ASSUME NEW i \in DOMAIN n PROVE ToSet(n[i]) = {}
  <2>1. i \in 1 .. Len(s)
    BY <1>1, Elements
  <2>2. s[i] \in ToSet(s)
    BY <2>1, Elements
  <2>3. n[i] = <<>>
    BY <1>1, <2>1, <2>2 DEF PromptOf
  <2> QED
    BY <2>3 DEF ToSet
<1>3. ToSet(Flat(n)) = {} /\ Flat(n) \in Seq(Nat)
  <2>1. ToSet(Flat(n)) = UNION {ToSet(n[i]) : i \in DOMAIN n}
    BY <1>1, FlatElements
  <2> QED
    BY <1>1, <1>2, <2>1, FlatType
<1> DEFINE z == Flat(n)
<1> HIDE DEF z
<1>4. z = <<>>
  <2>1. z \in Seq(Nat) /\ ToSet(z) = {}
    BY <1>3 DEF z
  <2>2. Len(z) = 0
    BY <2>1, Elements
  <2> QED
    BY <2>1, <2>2, EmptySeq
<1> QED
  BY <1>1, <1>4 DEF z

LEMMA PromptsOne ==
    ASSUME NEW m \in Messages
    PROVE  PromptsOf(<<m>>) = PromptOf(m)
<1>1. Numbers(<<m>>) = <<PromptOf(m)>>
  BY DEF Numbers
<1>2. <<m>> \in Seq(Messages)
  OBVIOUS
<1>3. PromptsOf(<<m>>) = Flat(<<PromptOf(m)>>)
  BY <1>1, <1>2, NumbersType
<1>4. PromptOf(m) \in Seq(Nat)
  <2>1. m.prompt \in Nat
    BY DEF Messages
  <2> QED
    BY <2>1 DEF PromptOf
<1> QED
  BY <1>3, <1>4, FlatOne

\* A conversation whose prompts stay, with messages without prompts behind each.
LEMMA FlatKeeps ==
    ASSUME NEW h, Conversation(h), NEW gs \in Seq(Seq(Messages)), Len(gs) = Len(h),
           \A i \in 1 .. Len(h) : h[i].prompt # 0 =>
              \E t \in Seq(Messages) : gs[i] = <<h[i]>> \o t /\ \A x \in ToSet(t) : x.prompt = 0,
           \A i \in 1 .. Len(h) : h[i].prompt = 0 => \A x \in ToSet(gs[i]) : x.prompt = 0
    PROVE  Conversation(Flat(gs)) /\ PromptsOf(Flat(gs)) = PromptsOf(h)
<1>1. /\ h \in Seq(Messages) /\ Len(h) \in Nat
      /\ \A i \in 1 .. Len(h) : /\ h[i] \in Messages /\ gs[i] \in Seq(Messages)
                                /\ h[i].prompt # 0 => h[i] = PromptMessage(h[i].prompt)
  BY Elements DEF Conversation
<1>2. ASSUME NEW i \in 1 .. Len(h)
      PROVE  /\ PromptsOf(gs[i]) = PromptOf(h[i])
             /\ \A x \in ToSet(gs[i]) : x.prompt # 0 => x = PromptMessage(x.prompt)
  <2>1. CASE h[i].prompt = 0
    <3>1. PromptsOf(gs[i]) = <<>>
      BY <1>1, <2>1, PromptsNone
    <3> QED
      BY <2>1, <3>1 DEF PromptOf
  <2>2. CASE h[i].prompt # 0
    <3>1. PICK t \in Seq(Messages) : gs[i] = <<h[i]>> \o t /\ \A x \in ToSet(t) : x.prompt = 0
      BY <2>2
    <3> DEFINE m == h[i]
    <3>2. m \in Messages /\ m = PromptMessage(m.prompt)
      BY <1>1, <2>2
    <3> HIDE DEF m
    <3>3. <<m>> \in Seq(Messages) /\ ToSet(<<m>>) = {m}
      BY <3>2 DEF ToSet
    <3>4. PromptsOf(<<m>> \o t) = PromptOf(m) \o <<>>
      BY <3>1, <3>2, <3>3, PromptsConcat, PromptsOne, PromptsNone
    <3>5. PromptOf(m) \o <<>> = PromptOf(m)
      <4>1. m.prompt \in Nat
        BY <3>2 DEF Messages
      <4>2. PromptOf(m) \in Seq(Nat)
        BY <4>1 DEF PromptOf
      <4> QED
        BY <4>2, ConcatEmptySeq
    <3>6. ToSet(<<m>> \o t) = {m} \cup ToSet(t)
      <4> DEFINE one == <<m>>
      <4>1. one \in Seq(Messages) /\ ToSet(one) = {m}
        BY <3>3
      <4> HIDE DEF one
      <4>2. ToSet(one \o t) = ToSet(one) \cup ToSet(t)
        BY <4>1, ToSetConcat
      <4> QED
        BY <4>1, <4>2 DEF one
    <3>7. \A x \in ToSet(<<m>> \o t) : x.prompt # 0 => x = PromptMessage(x.prompt)
      BY <3>1, <3>2, <3>6
    <3> QED
      BY <3>1, <3>4, <3>5, <3>7 DEF m
  <2> QED
    BY <2>1, <2>2
<1>3. PromptsOf(Flat(gs)) = PromptsOf(h)
  BY <1>1, <1>2, PromptsFlat
<1>4. Flat(gs) \in Seq(Messages) /\ ToSet(Flat(gs)) = UNION {ToSet(gs[i]) : i \in DOMAIN gs}
  BY FlatType, FlatElements
<1>5. DOMAIN gs = 1 .. Len(h)
  BY Elements
<1> QED
  BY <1>2, <1>3, <1>4, <1>5 DEF Conversation

\* Messages put in the place of others, and some of them left out, where every
\* prompt stays and nothing else becomes one.
LEMMA KeptKeeps ==
    ASSUME NEW h, Conversation(h), NEW ms \in Seq(Messages), Len(ms) = Len(h),
           NEW K \in SUBSET DOMAIN ms,
           \A i \in 1 .. Len(h) : h[i].prompt # 0 => i \in K /\ ms[i] = h[i],
           \A i \in 1 .. Len(h) : h[i].prompt = 0 => ms[i].prompt = 0
    PROVE  Conversation(Kept(ms, K)) /\ PromptsOf(Kept(ms, K)) = PromptsOf(h)
<1> DEFINE N == Len(h)
<1> DEFINE gs == [i \in 1 .. N |-> IF i \in K THEN <<ms[i]>> ELSE <<>>]
<1>1. N \in Nat /\ \A i \in 1 .. N : ms[i] \in Messages /\ h[i] \in Messages
  BY Elements DEF Conversation
<1>2. /\ gs \in Seq(Seq(Messages)) /\ Len(gs) = N
      /\ \A i \in 1 .. N : gs[i] = IF i \in K THEN <<ms[i]>> ELSE <<>>
  <2>1. \A i \in 1 .. N : (IF i \in K THEN <<ms[i]>> ELSE <<>>) \in Seq(Messages)
    BY <1>1
  <2> QED
    BY <1>1, <2>1
<1> HIDE DEF gs
<1>3. Kept(ms, K) = Flat(gs)
  BY <1>2, KeptFlat
<1>4. ASSUME NEW i \in 1 .. N, h[i].prompt # 0
      PROVE  \E t \in Seq(Messages) : gs[i] = <<h[i]>> \o t /\ \A x \in ToSet(t) : x.prompt = 0
  <2> DEFINE m == h[i]
  <2>1. gs[i] = <<m>> /\ m \in Messages
    BY <1>1, <1>2, <1>4
  <2> HIDE DEF m
  <2>2. <<m>> \in Seq(Messages)
    BY <2>1
  <2>3. <<m>> \o <<>> = <<m>>
    BY <2>2, ConcatEmptySeq
  <2>4. \A x \in ToSet(<<>>) : x.prompt = 0
    BY DEF ToSet
  <2>5. <<>> \in Seq(Messages)
    OBVIOUS
  <2>6. gs[i] = <<m>> \o <<>>
    BY <2>1, <2>3
  <2> QED
    BY <2>4, <2>5, <2>6 DEF m
<1>5. ASSUME NEW i \in 1 .. N, h[i].prompt = 0
      PROVE  \A x \in ToSet(gs[i]) : x.prompt = 0
  <2> DEFINE m == ms[i]
  <2>1. CASE i \in K
    <3>1. m.prompt = 0 /\ gs[i] = <<m>>
      BY <1>2, <1>5, <2>1
    <3> HIDE DEF m
    <3> QED
      BY <3>1 DEF ToSet
  <2>2. CASE i \notin K
    <3>1. gs[i] = <<>>
      BY <1>2, <2>2
    <3> QED
      BY <3>1 DEF ToSet
  <2> QED
    BY <2>1, <2>2
<1>6. Conversation(Flat(gs)) /\ PromptsOf(Flat(gs)) = PromptsOf(h)
  BY <1>2, <1>4, <1>5, FlatKeeps
<1> QED
  BY <1>3, <1>6

-----------------------------------------------------------------------------
(* Messages with new parts.                                                *)

LEMMA PromptParts ==
    ASSUME NEW n \in Nat
    PROVE  /\ PromptMessage(n) \in Messages /\ PromptMessage(n).prompt = n
           /\ PromptMessage(n).role = "user" /\ PromptMessage(n).file = 0
           /\ PromptMessage(n).parts = <<[Empty EXCEPT !.text = 1]>>
           /\ [Empty EXCEPT !.text = 1] \in PartSet
<1>1. [Empty EXCEPT !.text = 1] \in PartSet
  <2>1. NoTool \in Calls
    BY DEF NoTool, Calls, ToolNames
  <2>2. [Empty EXCEPT !.text = 1] =
            [text |-> 1, reason |-> 0, call |-> NoTool, result |-> NoTool, out |-> 0]
    BY DEF Empty
  <2> QED
    BY <2>1, <2>2 DEF PartSet
<1> DEFINE p == [Empty EXCEPT !.text = 1]
<1>2. <<p>> \in Seq(PartSet)
  BY <1>1
<1>3. PromptMessage(n) = [role |-> "user", parts |-> <<p>>, prompt |-> n, file |-> 0]
  BY DEF PromptMessage, StepMessage
<1> HIDE DEF p
<1>4. PromptMessage(n) \in Messages
  <2> DEFINE s == <<p>>
  <2>1. s \in Seq(PartSet)
    BY <1>2
  <2> HIDE DEF s
  <2>2. [role |-> "user", parts |-> s, prompt |-> n, file |-> 0] \in Messages
    BY <2>1 DEF Messages
  <2> QED
    BY <1>3, <2>2 DEF s
<1> QED
  BY <1>1, <1>3, <1>4 DEF p

LEMMA WithPartsType ==
    ASSUME NEW m \in Messages, NEW new \in Seq(PartSet)
    PROVE  /\ WithParts(m, new) \in Messages
           /\ WithParts(m, new).prompt = m.prompt /\ WithParts(m, new).file = m.file
           /\ WithParts(m, new).role = m.role
           /\ ToSet(WithParts(m, new).parts) = {p \in ToSet(new) : ~IsEmptyPart(p)}
<1> DEFINE K == {j \in DOMAIN new : ~IsEmptyPart(new[j])}
<1> DEFINE kept == Kept(new, K)
<1>1. kept \in Seq(PartSet) /\ ToSet(kept) = {new[j] : j \in K}
  BY KeptElements
<1>2. WithParts(m, new) = [m EXCEPT !.parts = kept]
  BY DEF WithParts, KeptIf
<1>3. {new[j] : j \in K} = {p \in ToSet(new) : ~IsEmptyPart(p)}
  BY DEF ToSet
<1> HIDE DEF kept, K
<1> QED
  BY <1>1, <1>2, <1>3 DEF Messages

LEMMA OnePartUnchanged ==
    ASSUME NEW m \in Messages, NEW p \in PartSet, m.parts = <<p>>, ~IsEmptyPart(p)
    PROVE  WithParts(m, m.parts) = m /\ m.parts # <<>>
<1> DEFINE K == {j \in DOMAIN <<p>> : ~IsEmptyPart(<<p>>[j])}
<1>1. <<p>> \in Seq(PartSet) /\ K = {1} /\ Len(<<p>>) = 1
  OBVIOUS
<1> DEFINE s == <<p>>
<1> HIDE DEF s
<1> DEFINE kept == Kept(s, K)
<1>2. kept \in Seq(PartSet) /\ Len(kept) <= 1 /\ ToSet(kept) = {s[i] : i \in K}
  <2>1. s \in Seq(PartSet) /\ K \in SUBSET DOMAIN s /\ Len(s) = 1
    BY <1>1 DEF s
  <2> HIDE DEF K
  <2> QED
    BY <2>1, KeptElements, KeptPlaces
<1>3. ToSet(kept) = {p}
  BY <1>1, <1>2 DEF s
<1> HIDE DEF kept, K
<1>4. Len(kept) = 1 /\ kept[1] = p
  <2>1. Len(kept) \in Nat /\ \A x \in ToSet(kept) : \E i \in 1 .. Len(kept) : kept[i] = x
    <3>1. kept \in Seq(PartSet)
      BY <1>2
    <3> QED
      BY <3>1, Elements
  <2>2. PICK i \in 1 .. Len(kept) : kept[i] = p
    BY <1>3, <2>1
  <2>3. Len(kept) <= 1
    BY <1>2
  <2> DEFINE M == Len(kept)
  <2>5. M \in Nat /\ i \in 1 .. M /\ M <= 1
    BY <2>1, <2>3
  <2> HIDE DEF M
  <2>6. M = 1 /\ i = 1
    BY <2>5
  <2>4. Len(kept) = 1 /\ i = 1
    BY <2>6 DEF M
  <2> QED
    BY <2>2, <2>4
<1>5. kept = <<p>>
  BY <1>1, <1>2, <1>4, SeqEqual
<1>6. WithParts(m, m.parts) = [m EXCEPT !.parts = kept]
  BY DEF WithParts, KeptIf, kept, K, s
<1>7. [m EXCEPT !.parts = <<p>>] = m
  BY DEF Messages
<1>8. <<p>> # <<>>
  BY <1>1
<1> QED
  BY <1>5, <1>6, <1>7, <1>8

\* The text of a prompt is not an empty part.
LEMMA PromptUnchanged ==
    ASSUME NEW n \in Nat
    PROVE  /\ WithParts(PromptMessage(n), PromptMessage(n).parts) = PromptMessage(n)
           /\ PromptMessage(n).parts # <<>>
<1>1. ~IsEmptyPart([Empty EXCEPT !.text = 1])
  BY DEF IsEmptyPart, Empty
<1> QED
  BY <1>1, PromptParts, OnePartUnchanged

LEMMA PartsOfMessages ==
    ASSUME NEW h \in Seq(Messages)
    PROVE  /\ PartsOf(h) \subseteq PartSet
           /\ \A i \in 1 .. Len(h) : ToSet(h[i].parts) \subseteq PartsOf(h)
           /\ \A p \in PartsOf(h) : \E i \in 1 .. Len(h) : p \in ToSet(h[i].parts)
           /\ \A i \in 1 .. Len(h) : h[i] \in Messages /\ h[i].parts \in Seq(PartSet)
           /\ \A m \in ToSet(h) : ToSet(m.parts) \subseteq PartsOf(h)
           /\ \A p \in PartsOf(h) : \E m \in ToSet(h) : p \in ToSet(m.parts)
<1>1. DOMAIN h = 1 .. Len(h) /\ \A i \in 1 .. Len(h) : h[i] \in Messages /\ h[i] \in ToSet(h)
  BY Elements
<1>2. \A m \in ToSet(h) : \E i \in 1 .. Len(h) : h[i] = m
  BY Elements
<1>3. \A i \in 1 .. Len(h) : h[i].parts \in Seq(PartSet)
  BY <1>1 DEF Messages
<1>4. \A i \in 1 .. Len(h) : ToSet(h[i].parts) \subseteq PartSet
  BY <1>3, Elements
<1>5. PartsOf(h) = UNION {ToSet(h[i].parts) : i \in 1 .. Len(h)}
  BY <1>1 DEF PartsOf
<1>6. /\ PartsOf(h) \subseteq PartSet
      /\ \A i \in 1 .. Len(h) : ToSet(h[i].parts) \subseteq PartsOf(h)
      /\ \A p \in PartsOf(h) : \E i \in 1 .. Len(h) : p \in ToSet(h[i].parts)
  BY <1>4, <1>5
<1> QED
  BY <1>1, <1>2, <1>3, <1>6

LEMMA RewriteParts ==
    ASSUME NEW h \in Seq(Messages), NEW new \in Seq(Seq(PartSet)), Len(new) = Len(h)
    PROVE  /\ Rewrite(h, new) \in Seq(Messages)
           /\ PartsOf(Rewrite(h, new)) =
                 {p \in UNION {ToSet(new[i]) : i \in 1 .. Len(h)} : ~IsEmptyPart(p)}
           /\ \A x \in ToSet(Rewrite(h, new)) : \E i \in 1 .. Len(h) : x = WithParts(h[i], new[i])
           /\ \A i \in 1 .. Len(h) : WithParts(h[i], new[i]).parts # <<>>
                                        => WithParts(h[i], new[i]) \in ToSet(Rewrite(h, new))
<1> DEFINE N == Len(h)
<1> DEFINE ms == [i \in 1 .. N |-> WithParts(h[i], new[i])]
<1> DEFINE K == {i \in 1 .. N : ms[i].parts # <<>>}
<1> DEFINE g == Kept(ms, K)
<1>1. N \in Nat /\ DOMAIN h = 1 .. N /\ \A i \in 1 .. N : h[i] \in Messages /\ new[i] \in Seq(PartSet)
  BY Elements
<1>2. \A i \in 1 .. N : WithParts(h[i], new[i]) \in Messages
  BY <1>1, WithPartsType
<1>3. ms \in Seq(Messages) /\ Len(ms) = N /\ DOMAIN ms = 1 .. N
  BY <1>1, <1>2
<1>4. \A i \in 1 .. N : ToSet(ms[i].parts) = {p \in ToSet(new[i]) : ~IsEmptyPart(p)}
  BY <1>1, WithPartsType
<1>5. Rewrite(h, new) = g
  <2>1. [i \in DOMAIN h |-> WithParts(h[i], new[i])] = ms
    BY <1>1
  <2>2. {i \in DOMAIN ms : ms[i].parts # <<>>} = K
    BY <1>3
  <2> HIDE DEF ms, K
  <2> QED
    BY <2>1, <2>2 DEF Rewrite, KeptIf
<1>0. \A i \in 1 .. N : ms[i] = WithParts(h[i], new[i])
  OBVIOUS
<1> HIDE DEF ms
<1>6. g \in Seq(Messages) /\ ToSet(g) = {ms[i] : i \in K}
  <2>1. K \in SUBSET DOMAIN ms
    BY <1>3
  <2> HIDE DEF K
  <2> QED
    BY <1>3, <2>1, KeptElements
<1>7. \A i \in 1 .. N : i \notin K => ToSet(ms[i].parts) = {}
  <2>1. ToSet(<<>>) = {}
    BY DEF ToSet
  <2> QED
    BY <2>1
<1> HIDE DEF g
<1>8. PartsOf(g) = UNION {ToSet(ms[i].parts) : i \in 1 .. N}
  <2>1. ASSUME NEW p \in PartsOf(g) PROVE \E i \in 1 .. N : p \in ToSet(ms[i].parts)
    <3>1. PICK m \in ToSet(g) : p \in ToSet(m.parts)
      BY <1>6, PartsOfMessages
    <3> QED
      BY <1>6, <3>1
  <2>2. ASSUME NEW i \in 1 .. N, NEW p \in ToSet(ms[i].parts) PROVE p \in PartsOf(g)
    <3>1. ms[i] \in ToSet(g)
      BY <1>6, <1>7, <2>2
    <3> QED
      BY <1>6, <3>1, PartsOfMessages
  <2> QED
    BY <2>1, <2>2
<1>9. UNION {ToSet(ms[i].parts) : i \in 1 .. N} =
          {p \in UNION {ToSet(new[i]) : i \in 1 .. N} : ~IsEmptyPart(p)}
  <2>1. \A p : (\E i \in 1 .. N : p \in ToSet(ms[i].parts)) <=>
              ((\E i \in 1 .. N : p \in ToSet(new[i])) /\ ~IsEmptyPart(p))
    BY <1>4
  <2> QED
    BY <2>1
<1>10. /\ \A x \in ToSet(g) : \E i \in 1 .. N : x = WithParts(h[i], new[i])
       /\ \A i \in 1 .. N : WithParts(h[i], new[i]).parts # <<>> => WithParts(h[i], new[i]) \in ToSet(g)
  BY <1>0, <1>6
<1> QED
  BY <1>5, <1>6, <1>8, <1>9, <1>10

LEMMA RewriteKeeps ==
    ASSUME NEW h, Conversation(h), NEW new \in Seq(Seq(PartSet)), Len(new) = Len(h),
           \A i \in 1 .. Len(h) : h[i].prompt # 0 => new[i] = h[i].parts
    PROVE  Conversation(Rewrite(h, new)) /\ PromptsOf(Rewrite(h, new)) = PromptsOf(h)
<1> DEFINE N == Len(h)
<1> DEFINE ms == [i \in 1 .. N |-> WithParts(h[i], new[i])]
<1> DEFINE K == {i \in 1 .. N : ms[i].parts # <<>>}
<1>1. /\ h \in Seq(Messages) /\ N \in Nat /\ DOMAIN h = 1 .. N
      /\ \A i \in 1 .. N : h[i] \in Messages /\ new[i] \in Seq(PartSet) /\ h[i] \in ToSet(h)
  BY Elements DEF Conversation
<1>2. \A i \in 1 .. N : WithParts(h[i], new[i]) \in Messages /\ WithParts(h[i], new[i]).prompt = h[i].prompt
  BY <1>1, WithPartsType
<1>3. ms \in Seq(Messages) /\ Len(ms) = N /\ DOMAIN ms = 1 .. N
  BY <1>1, <1>2
<1>4. ASSUME NEW i \in 1 .. N, h[i].prompt # 0 PROVE i \in K /\ ms[i] = h[i]
  <2>1. h[i] = PromptMessage(h[i].prompt) /\ h[i].prompt \in Nat /\ new[i] = h[i].parts
    BY <1>1, <1>4 DEF Conversation, Messages
  <2>2. WithParts(h[i], new[i]) = h[i] /\ h[i].parts # <<>>
    BY <2>1, PromptUnchanged
  <2> QED
    BY <2>2
<1>5. \A i \in 1 .. N : h[i].prompt = 0 => ms[i].prompt = 0
  BY <1>2
<1>6. K \in SUBSET DOMAIN ms
  BY <1>3
<1>7. Rewrite(h, new) = Kept(ms, K)
  <2>1. [i \in DOMAIN h |-> WithParts(h[i], new[i])] = ms
    BY <1>1
  <2>2. {i \in DOMAIN ms : ms[i].parts # <<>>} = K
    BY <1>3
  <2> HIDE DEF ms, K
  <2> QED
    BY <2>1, <2>2 DEF Rewrite, KeptIf
<1> HIDE DEF ms, K
<1> QED
  BY <1>3, <1>4, <1>5, <1>6, <1>7, KeptKeeps

-----------------------------------------------------------------------------
(* What a step may do.                                                     *)

\* Every call and every result was there before.
Derived(h, g) ==
    \A q \in PartsOf(g) :
        \/ q.call = NoTool /\ q.result = NoTool
        \/ \E p \in PartsOf(h) : q.call \in {p.call, NoTool} /\ q.result \in {p.result, NoTool}

Cuts(h, g) == Conversation(g) /\ PromptsOf(g) = PromptsOf(h) /\ Derived(h, g)

LEMMA CutsAgain ==
    ASSUME NEW a, NEW b, NEW c, Cuts(a, b), Cuts(b, c)
    PROVE  Cuts(a, c)
BY DEF Cuts, Derived

LEMMA CutsNothing ==
    ASSUME NEW h, Conversation(h)
    PROVE  Cuts(h, h)
BY DEF Cuts, Derived

\* Each part changed by a function.
Mapped(h, F) == [i \in DOMAIN h |-> [j \in DOMAIN h[i].parts |-> F[h[i].parts[j]]]]

PromptPart == [Empty EXCEPT !.text = 1]

\* Such a function may take calls and results away, and leaves the text of prompts.
Cutter(F) ==
    /\ F \in [PartSet -> PartSet] /\ F[PromptPart] = PromptPart
    /\ \A p \in PartSet : F[p].call \in {p.call, NoTool} /\ F[p].result \in {p.result, NoTool}

LEMMA MappedType ==
    ASSUME NEW h \in Seq(Messages), NEW F \in [PartSet -> PartSet]
    PROVE  /\ Mapped(h, F) \in Seq(Seq(PartSet)) /\ Len(Mapped(h, F)) = Len(h)
           /\ \A i \in 1 .. Len(h) : ToSet(Mapped(h, F)[i]) = {F[p] : p \in ToSet(h[i].parts)}
           /\ UNION {ToSet(Mapped(h, F)[i]) : i \in 1 .. Len(h)} = {F[p] : p \in PartsOf(h)}
<1>1. Len(h) \in Nat /\ DOMAIN h = 1 .. Len(h) /\ \A i \in 1 .. Len(h) : h[i].parts \in Seq(PartSet)
  BY Elements, PartsOfMessages
<1> DEFINE row(i) == [j \in DOMAIN h[i].parts |-> F[h[i].parts[j]]]
<1>2. ASSUME NEW i \in 1 .. Len(h)
      PROVE  row(i) \in Seq(PartSet) /\ ToSet(row(i)) = {F[p] : p \in ToSet(h[i].parts)}
  <2> DEFINE ps == h[i].parts
  <2>1. /\ ps \in Seq(PartSet) /\ Len(ps) \in Nat /\ DOMAIN ps = 1 .. Len(ps)
        /\ \A j \in 1 .. Len(ps) : ps[j] \in PartSet
    BY <1>1, Elements
  <2> HIDE DEF ps
  <2> DEFINE r == [j \in DOMAIN ps |-> F[ps[j]]]
  <2>2. r \in Seq(PartSet)
    BY <2>1
  <2>3. ToSet(r) = {F[p] : p \in ToSet(ps)}
    BY DEF ToSet
  <2> QED
    BY <2>2, <2>3 DEF ps
<1>3. Mapped(h, F) = [i \in 1 .. Len(h) |-> row(i)]
  BY <1>1 DEF Mapped
<1> HIDE DEF row
<1>4. /\ Mapped(h, F) \in Seq(Seq(PartSet)) /\ Len(Mapped(h, F)) = Len(h)
      /\ \A i \in 1 .. Len(h) : ToSet(Mapped(h, F)[i]) = {F[p] : p \in ToSet(h[i].parts)}
  BY <1>1, <1>2, <1>3
<1>5. \A q : (\E i \in 1 .. Len(h) : q \in ToSet(Mapped(h, F)[i])) <=> \E p \in PartsOf(h) : q = F[p]
  <2>1. \A q : (\E i \in 1 .. Len(h) : q \in ToSet(Mapped(h, F)[i])) <=>
                \E i \in 1 .. Len(h) : \E p \in ToSet(h[i].parts) : q = F[p]
    BY <1>4
  <2>2. \A p : (\E i \in 1 .. Len(h) : p \in ToSet(h[i].parts)) <=> p \in PartsOf(h)
    BY PartsOfMessages
  <2> QED
    BY <2>1, <2>2
<1> QED
  BY <1>4, <1>5

LEMMA MappedCuts ==
    ASSUME NEW h, Conversation(h), NEW F, Cutter(F)
    PROVE  /\ Cuts(h, Rewrite(h, Mapped(h, F)))
           /\ PartsOf(Rewrite(h, Mapped(h, F))) = {q \in {F[p] : p \in PartsOf(h)} : ~IsEmptyPart(q)}
<1> DEFINE new == Mapped(h, F)
<1> DEFINE g == Rewrite(h, new)
<1>1. h \in Seq(Messages) /\ F \in [PartSet -> PartSet] /\ PartsOf(h) \subseteq PartSet
  BY PartsOfMessages DEF Conversation, Cutter
<1>2. /\ new \in Seq(Seq(PartSet)) /\ Len(new) = Len(h)
      /\ UNION {ToSet(new[i]) : i \in 1 .. Len(h)} = {F[p] : p \in PartsOf(h)}
  BY <1>1, MappedType
<1>3. ASSUME NEW i \in 1 .. Len(h), h[i].prompt # 0 PROVE new[i] = h[i].parts
  <2>1. h[i] \in Messages /\ h[i] \in ToSet(h) /\ DOMAIN h = 1 .. Len(h)
    BY <1>1, Elements
  <2>2. h[i] = PromptMessage(h[i].prompt) /\ h[i].prompt \in Nat
    BY <1>3, <2>1 DEF Conversation, Messages
  <2>3. h[i].parts = <<PromptPart>>
    BY <2>2, PromptParts DEF PromptPart
  <2>4. new[i] = [j \in DOMAIN h[i].parts |-> F[h[i].parts[j]]]
    BY <2>1 DEF Mapped
  <2> DEFINE x == PromptPart
  <2>5. F[x] = x
    BY DEF Cutter
  <2> HIDE DEF x
  <2>6. new[i] = [j \in DOMAIN <<x>> |-> F[<<x>>[j]]]
    BY <2>3, <2>4 DEF x
  <2> HIDE DEF new
  <2>7. new[i] = <<x>>
    BY <2>5, <2>6
  <2> QED
    BY <2>3, <2>7 DEF x
<1> HIDE DEF new
<1>4. Conversation(g) /\ PromptsOf(g) = PromptsOf(h)
  BY <1>2, <1>3, RewriteKeeps
<1>5. PartsOf(g) = {q \in {F[p] : p \in PartsOf(h)} : ~IsEmptyPart(q)}
  BY <1>1, <1>2, RewriteParts
<1> HIDE DEF g
<1>6. Derived(h, g)
  BY <1>1, <1>5 DEF Derived, Cutter
<1> QED
  BY <1>4, <1>5, <1>6 DEF Cuts, new, g

-----------------------------------------------------------------------------
(* Each step cuts.                                                         *)

\* Calls that are not among these go, and results.
Strip(KC, KR) == [p \in PartSet |-> Stripped(p, p.call \in KC, p.result \in KR)]

LEMMA StripCutter ==
    ASSUME NEW KC, NEW KR
    PROVE  Cutter(Strip(KC, KR))
<1>1. NoTool \in Calls
  BY DEF NoTool, Calls, ToolNames
<1>2. ASSUME NEW p \in PartSet
      PROVE  /\ Stripped(p, p.call \in KC, p.result \in KR) \in PartSet
             /\ Stripped(p, p.call \in KC, p.result \in KR).call \in {p.call, NoTool}
             /\ Stripped(p, p.call \in KC, p.result \in KR).result \in {p.result, NoTool}
  BY <1>1 DEF Stripped, PartSet
<1>3. Stripped(PromptPart, PromptPart.call \in KC, PromptPart.result \in KR) = PromptPart
  <2>1. PromptPart = [text |-> 1, reason |-> 0, call |-> NoTool, result |-> NoTool, out |-> 0]
    BY DEF PromptPart, Empty
  <2> DEFINE x == PromptPart
  <2>2. x.call = NoTool /\ x.result = NoTool /\ x.out = 0
    BY <2>1
  <2>5. x \in PartSet
    BY PromptParts DEF PromptPart
  <2> HIDE DEF x
  <2>3. [x EXCEPT !.call = NoTool, !.result = NoTool, !.out = 0] = x
    BY <2>2, <2>5 DEF PartSet
  <2>4. Stripped(x, x.call \in KC, x.result \in KR) = [x EXCEPT !.call = NoTool, !.result = NoTool, !.out = 0]
    BY <2>2 DEF Stripped
  <2> QED
    BY <2>3, <2>4 DEF x
<1>4. PromptPart \in PartSet
  BY PromptParts DEF PromptPart
<1> QED
  BY <1>2, <1>3, <1>4 DEF Cutter, Strip

LEMMA KeepOnlyStrips ==
    ASSUME NEW h \in Seq(Messages), NEW tools, NEW ids
    PROVE  LET KC == {c \in Calls : c.tool \notin tools \/ c.id \in ids}
           IN  KeepOnly(h, tools, ids) = Rewrite(h, Mapped(h, Strip(KC, KC)))
<1> DEFINE KC == {c \in Calls : c.tool \notin tools \/ c.id \in ids}
<1>1. \A i \in DOMAIN h : \A j \in DOMAIN h[i].parts : h[i].parts[j] \in PartSet
  BY PartsOfMessages, Elements
<1>2. ASSUME NEW p \in PartSet
      PROVE  Strip(KC, KC)[p] = Stripped(p, p.call.tool \notin tools \/ p.call.id \in ids,
                                         p.result.tool \notin tools \/ p.result.id \in ids)
  <2>1. /\ (p.call \in KC) = (p.call.tool \notin tools \/ p.call.id \in ids)
        /\ (p.result \in KC) = (p.result.tool \notin tools \/ p.result.id \in ids)
    BY DEF PartSet
  <2> HIDE DEF KC
  <2> QED
    BY <2>1 DEF Strip, Stripped
<1> HIDE DEF KC
<1> DEFINE new(p) == Stripped(p, p.call.tool \notin tools \/ p.call.id \in ids,
                              p.result.tool \notin tools \/ p.result.id \in ids)
<1>3. KeepOnly(h, tools, ids) =
          Rewrite(h, [i \in DOMAIN h |-> [j \in DOMAIN h[i].parts |-> new(h[i].parts[j])]])
  BY DEF KeepOnly, EachPart
<1> HIDE DEF new
<1>4. \A p \in PartSet : Strip(KC, KC)[p] = new(p)
  BY <1>2 DEF new
<1>5. [i \in DOMAIN h |-> [j \in DOMAIN h[i].parts |-> new(h[i].parts[j])]] = Mapped(h, Strip(KC, KC))
  BY <1>1, <1>4 DEF Mapped
<1> QED
  BY <1>3, <1>5 DEF KC

LEMMA KeepOnlyCuts ==
    ASSUME NEW h, Conversation(h), NEW tools, NEW ids
    PROVE  Cuts(h, KeepOnly(h, tools, ids))
<1> DEFINE KC == {c \in Calls : c.tool \notin tools \/ c.id \in ids}
<1>1. KeepOnly(h, tools, ids) = Rewrite(h, Mapped(h, Strip(KC, KC)))
  BY KeepOnlyStrips DEF Conversation
<1> HIDE DEF KC
<1> QED
  BY <1>1, StripCutter, MappedCuts

LEMMA KeepLastTodoCuts ==
    ASSUME NEW h, Conversation(h)
    PROVE  Cuts(h, KeepLastTodo(h))
BY KeepOnlyCuts, CutsNothing DEF KeepLastTodo

LEMMA PruneGrepFindCuts ==
    ASSUME NEW h, Conversation(h)
    PROVE  Cuts(h, PruneGrepFind(h))
BY KeepOnlyCuts, CutsNothing DEF PruneGrepFind

\* Outputs of commands no longer than they may be.
ClipPart == [p \in PartSet |->
    [p EXCEPT !.out = IF p.result.tool = "runBash" /\ @ > ClipTo THEN ClipTo ELSE @]]

LEMMA ClipIsMapped ==
    ASSUME NEW h \in Seq(Messages)
    PROVE  ClipRunBashResponses(h) = Rewrite(h, Mapped(h, ClipPart))
<1>1. \A i \in DOMAIN h : \A j \in DOMAIN h[i].parts : h[i].parts[j] \in PartSet
  BY PartsOfMessages, Elements
<1> DEFINE new(p) == [p EXCEPT !.out = IF p.result.tool = "runBash" /\ @ > ClipTo THEN ClipTo ELSE @]
<1>2. ClipRunBashResponses(h) =
          Rewrite(h, [i \in DOMAIN h |-> [j \in DOMAIN h[i].parts |-> new(h[i].parts[j])]])
  BY DEF ClipRunBashResponses, EachPart
<1>3. \A p \in PartSet : ClipPart[p] = new(p)
  BY DEF ClipPart
<1> HIDE DEF new
<1>4. [i \in DOMAIN h |-> [j \in DOMAIN h[i].parts |-> new(h[i].parts[j])]] = Mapped(h, ClipPart)
  BY <1>1, <1>3 DEF Mapped
<1> QED
  BY <1>2, <1>4

LEMMA ClipCutter ==
    ASSUME StepAssumption
    PROVE  Cutter(ClipPart)
<1>1. ASSUME NEW p \in PartSet
      PROVE  /\ ClipPart[p] \in PartSet /\ ClipPart[p].call = p.call /\ ClipPart[p].result = p.result
  BY DEF ClipPart, PartSet, StepAssumption
<1>2. PromptPart \in PartSet
  BY PromptParts DEF PromptPart
<1>3. ClipPart[PromptPart] = PromptPart
  <2>1. PromptPart = [text |-> 1, reason |-> 0, call |-> NoTool, result |-> NoTool, out |-> 0]
    BY DEF PromptPart, Empty
  <2> QED
    BY <1>2, <2>1 DEF ClipPart, NoTool
<1>4. ClipPart \in [PartSet -> PartSet]
  BY <1>1 DEF ClipPart
<1> QED
  BY <1>1, <1>3, <1>4 DEF Cutter

LEMMA ClipCuts ==
    ASSUME StepAssumption, NEW h, Conversation(h)
    PROVE  Cuts(h, ClipRunBashResponses(h))
BY ClipIsMapped, ClipCutter, MappedCuts DEF Conversation

LEMMA PairsStrips ==
    ASSUME NEW h \in Seq(Messages)
    PROVE  LET KC == {c \in Calls : c.id \in AnsweredIDs(h)}
               KR == {c \in Calls : c.id \in CalledIDs(h)}
           IN  EnsureToolCallResponsePairs(h) = Rewrite(h, Mapped(h, Strip(KC, KR)))
<1> DEFINE called == CalledIDs(h)
<1> DEFINE answered == AnsweredIDs(h)
<1> DEFINE KC == {c \in Calls : c.id \in answered}
<1> DEFINE KR == {c \in Calls : c.id \in called}
<1>1. \A i \in DOMAIN h : \A j \in DOMAIN h[i].parts : h[i].parts[j] \in PartSet
  BY PartsOfMessages, Elements
<1> DEFINE new(p) == Stripped(p, p.call.id \in answered, p.result.id \in called)
<1>2. EnsureToolCallResponsePairs(h) =
          Rewrite(h, [i \in DOMAIN h |-> [j \in DOMAIN h[i].parts |-> new(h[i].parts[j])]])
  BY DEF EnsureToolCallResponsePairs, EachPart
<1> HIDE DEF called, answered
<1>3. ASSUME NEW p \in PartSet PROVE Strip(KC, KR)[p] = new(p)
  <2>1. (p.call \in KC) = (p.call.id \in answered) /\ (p.result \in KR) = (p.result.id \in called)
    BY DEF PartSet
  <2> HIDE DEF KC, KR
  <2> QED
    BY <2>1 DEF Strip, Stripped
<1> HIDE DEF new, KC, KR
<1>4. [i \in DOMAIN h |-> [j \in DOMAIN h[i].parts |-> new(h[i].parts[j])]] = Mapped(h, Strip(KC, KR))
  BY <1>1, <1>3 DEF Mapped
<1> QED
  BY <1>2, <1>4 DEF KC, KR, called, answered

LEMMA PairsCuts ==
    ASSUME NEW h, Conversation(h)
    PROVE  Cuts(h, EnsureToolCallResponsePairs(h))
<1> DEFINE KC == {c \in Calls : c.id \in AnsweredIDs(h)}
<1> DEFINE KR == {c \in Calls : c.id \in CalledIDs(h)}
<1>1. EnsureToolCallResponsePairs(h) = Rewrite(h, Mapped(h, Strip(KC, KR)))
  BY PairsStrips DEF Conversation
<1> HIDE DEF KC, KR
<1> QED
  BY <1>1, StripCutter, MappedCuts

\* Messages left out, none of them a prompt.
LEMMA WithoutCuts ==
    ASSUME NEW h, Conversation(h), NEW gone, \A i \in 1 .. Len(h) : i \in gone => h[i].prompt = 0
    PROVE  Cuts(h, Without(h, gone)) /\ ToSet(Without(h, gone)) \subseteq ToSet(h)
<1> DEFINE K == DOMAIN h \ gone
<1> DEFINE g == Kept(h, K)
<1>1. h \in Seq(Messages) /\ DOMAIN h = 1 .. Len(h) /\ K \in SUBSET DOMAIN h
  BY Elements DEF Conversation
<1>2. \A i \in 1 .. Len(h) : h[i].prompt # 0 => i \in K
  BY <1>1
<1>3. Without(h, gone) = g
  BY DEF Without
<1>4. ToSet(g) = {h[i] : i \in K}
  <2> HIDE DEF K
  <2> QED
    BY <1>1, KeptElements
<1>5. ToSet(g) \subseteq ToSet(h)
  BY <1>1, <1>4 DEF ToSet
<1>6. Conversation(g) /\ PromptsOf(g) = PromptsOf(h)
  <2> HIDE DEF K
  <2> QED
    BY <1>1, <1>2, KeptKeeps
<1> HIDE DEF g
<1>7. PartsOf(g) \subseteq PartsOf(h)
  <2>1. g \in Seq(Messages)
    BY <1>6 DEF Conversation
  <2> QED
    BY <1>1, <1>5, <2>1, PartsOfMessages
<1>8. Derived(h, g)
  BY <1>7 DEF Derived
<1> QED
  BY <1>3, <1>5, <1>6, <1>8 DEF Cuts

LEMMA ExplicitPrompts ==
    ASSUME NEW h, Conversation(h), NEW i \in 1 .. Len(h), h[i].prompt # 0
    PROVE  /\ h[i].role = "user" /\ ~IsCompactedFile(h[i]) /\ IsExplicitUserText(h[i])
<1>1. h[i] \in Messages /\ h[i] \in ToSet(h)
  BY Elements DEF Conversation
<1>2. h[i] = PromptMessage(h[i].prompt) /\ h[i].prompt \in Nat
  BY <1>1 DEF Conversation, Messages
<1>3. h[i].role = "user" /\ h[i].file = 0 /\ h[i].parts = <<PromptPart>>
  BY <1>2, PromptParts DEF PromptPart
<1>4. PromptPart.text = 1 /\ PromptPart.call = NoTool /\ PromptPart.result = NoTool
  BY DEF PromptPart, Empty
<1> DEFINE x == PromptPart
<1> HIDE DEF x
<1> DEFINE ps == <<x>>
<1>5. DOMAIN ps = {1} /\ ps[1] = x
  OBVIOUS
<1> HIDE DEF ps
<1>6. h[i].parts = ps /\ x.text = 1 /\ x.call = NoTool /\ x.result = NoTool
  BY <1>3, <1>4 DEF x, ps
<1> QED
  BY <1>3, <1>5, <1>6 DEF IsCompactedFile, IsExplicitUserText

LEMMA DropOldMessagesCuts ==
    ASSUME NEW h, Conversation(h)
    PROVE  Cuts(h, DropOldMessages(h))
<1>1. \A i \in 1 .. Len(h) : MayDrop(h, i) => h[i].prompt = 0
  BY ExplicitPrompts DEF MayDrop
<1>2. CASE ~IsAboveThreshold(h)
  BY <1>2, CutsNothing DEF DropOldMessages
<1>3. CASE IsAboveThreshold(h)
  <2> DEFINE gone == DroppedUntil(h, Limit \div 2, LAMBDA i : MayDrop(h, i),
                                  LAMBDA i : MessageSize(h[i]))
  <2>1. \A i \in gone : MayDrop(h, i)
    BY DEF DroppedUntil
  <2>2. DropOldMessages(h) = Without(h, gone)
    BY <1>3 DEF DropOldMessages
  <2> HIDE DEF gone
  <2> QED
    BY <1>1, <2>1, <2>2, WithoutCuts
<1> QED
  BY <1>2, <1>3

LEMMA DropOldCompactedCuts ==
    ASSUME NEW h, Conversation(h)
    PROVE  Cuts(h, DropOldCompactedMessages(h))
<1>1. \A i \in 1 .. Len(h) : IsCompactedFile(h[i]) => h[i].prompt = 0
  BY ExplicitPrompts
<1>2. CASE ~IsAboveThreshold(h)
  BY <1>2, CutsNothing DEF DropOldCompactedMessages
<1>3. CASE IsAboveThreshold(h)
  <2> DEFINE latest == SelectLastInSeq(h, IsCompactedFile)
  <2> DEFINE gone == DroppedUntil(h, (65 * Limit) \div 100,
                                  LAMBDA i : IsCompactedFile(h[i]) /\ i # latest,
                                  LAMBDA i : MessageSize(h[i]))
  <2>1. \A i \in gone : IsCompactedFile(h[i])
    <3> HIDE DEF latest
    <3> QED
      BY DEF DroppedUntil
  <2>2. DropOldCompactedMessages(h) = Without(h, gone)
    BY <1>3 DEF DropOldCompactedMessages
  <2> HIDE DEF gone
  <2> QED
    BY <1>1, <2>1, <2>2, WithoutCuts
<1> QED
  BY <1>2, <1>3

\* Reasoning taken out of single messages.
Thoughtless == [p \in PartSet |-> [p EXCEPT !.reason = 0]]

LEMMA ThoughtlessCutter == Cutter(Thoughtless)
<1>1. \A p \in PartSet : /\ Thoughtless[p] \in PartSet
                         /\ Thoughtless[p].call = p.call /\ Thoughtless[p].result = p.result
  BY DEF Thoughtless, PartSet
<1>2. PromptPart \in PartSet
  BY PromptParts DEF PromptPart
<1>3. Thoughtless[PromptPart] = PromptPart
  <2>1. PromptPart = [text |-> 1, reason |-> 0, call |-> NoTool, result |-> NoTool, out |-> 0]
    BY DEF PromptPart, Empty
  <2> QED
    BY <1>2, <2>1 DEF Thoughtless
<1>4. Thoughtless \in [PartSet -> PartSet]
  BY <1>1 DEF Thoughtless
<1> QED
  BY <1>1, <1>3, <1>4 DEF Cutter

\* Each message replaced by messages with its prompt and some of its calls.
LEMMA FlatCuts ==
    ASSUME NEW h, Conversation(h), NEW gs \in Seq(Seq(Messages)), Len(gs) = Len(h),
           \A i \in 1 .. Len(h) : h[i].prompt # 0 =>
              \E t \in Seq(Messages) : gs[i] = <<h[i]>> \o t /\ \A x \in ToSet(t) : x.prompt = 0,
           \A i \in 1 .. Len(h) : h[i].prompt = 0 => \A x \in ToSet(gs[i]) : x.prompt = 0,
           \A i \in 1 .. Len(h) : \A x \in ToSet(gs[i]) : \A q \in ToSet(x.parts) :
              \/ q.call = NoTool /\ q.result = NoTool
              \/ \E p \in ToSet(h[i].parts) : q.call \in {p.call, NoTool} /\ q.result \in {p.result, NoTool}
    PROVE  Cuts(h, Flat(gs))
<1> DEFINE g == Flat(gs)
<1>1. Conversation(g) /\ PromptsOf(g) = PromptsOf(h)
  BY FlatKeeps
<1>2. ToSet(g) = UNION {ToSet(gs[i]) : i \in DOMAIN gs} /\ DOMAIN gs = 1 .. Len(h)
  BY FlatElements, Elements
<1> HIDE DEF g
<1>3. h \in Seq(Messages) /\ g \in Seq(Messages)
  BY <1>1 DEF Conversation
<1>4. ASSUME NEW q \in PartsOf(g), ~(q.call = NoTool /\ q.result = NoTool)
      PROVE  \E p \in PartsOf(h) : q.call \in {p.call, NoTool} /\ q.result \in {p.result, NoTool}
  <2>1. PICK x \in ToSet(g) : q \in ToSet(x.parts)
    BY <1>3, PartsOfMessages
  <2>2. PICK i \in 1 .. Len(h) : x \in ToSet(gs[i])
    BY <1>2, <2>1
  <2>3. PICK p \in ToSet(h[i].parts) : q.call \in {p.call, NoTool} /\ q.result \in {p.result, NoTool}
    BY <1>4, <2>1, <2>2
  <2>4. p \in PartsOf(h)
    BY <1>3, <2>3, PartsOfMessages
  <2> QED
    BY <2>3, <2>4
<1> QED
  BY <1>1, <1>4 DEF Cuts, Derived, g

LEMMA OneMessage ==
    ASSUME NEW m \in Messages
    PROVE  /\ <<m>> \in Seq(Messages) /\ Len(<<m>>) = 1 /\ DOMAIN <<m>> = {1} /\ <<m>>[1] = m
           /\ ToSet(<<m>>) = {m} /\ PartsOf(<<m>>) = ToSet(m.parts)
           /\ <<m>> \o <<>> = <<m>>
<1> DEFINE s == <<m>>
<1>1. s \in Seq(Messages) /\ Len(s) = 1 /\ DOMAIN s = {1} /\ s[1] = m
  OBVIOUS
<1> HIDE DEF s
<1>2. ToSet(s) = {m}
  BY <1>1 DEF ToSet
<1>3. PartsOf(s) = ToSet(m.parts)
  BY <1>1 DEF PartsOf
<1>4. s \o <<>> = s
  BY <1>1, ConcatEmptySeq
<1> QED
  BY <1>1, <1>2, <1>3, <1>4 DEF s

\* What is left of an assistant's message without its reasoning.
LEMMA TrimOne ==
    ASSUME NEW m \in Messages, m.prompt = 0
    PROVE  LET g == Rewrite(<<m>>, EachPart(<<m>>, LAMBDA p : [p EXCEPT !.reason = 0]))
           IN  /\ g \in Seq(Messages) /\ \A x \in ToSet(g) : x.prompt = 0
               /\ \A x \in ToSet(g) : \A q \in ToSet(x.parts) :
                    \/ q.call = NoTool /\ q.result = NoTool
                    \/ \E p \in ToSet(m.parts) : q.call \in {p.call, NoTool} /\ q.result \in {p.result, NoTool}
<1> DEFINE h == <<m>>
<1> DEFINE new(p) == [p EXCEPT !.reason = 0]
<1> DEFINE all == [i \in DOMAIN h |-> [j \in DOMAIN h[i].parts |-> new(h[i].parts[j])]]
<1> DEFINE g == Rewrite(h, all)
<1>1. EachPart(h, LAMBDA p : [p EXCEPT !.reason = 0]) = all
  BY DEF EachPart
<1>2. /\ h \in Seq(Messages) /\ Len(h) = 1 /\ DOMAIN h = 1 .. 1 /\ h[1] = m
      /\ ToSet(h) = {m} /\ PartsOf(h) = ToSet(m.parts)
  BY OneMessage
<1> HIDE DEF h
<1>3. Conversation(h)
  BY <1>2 DEF Conversation
<1>4. all = Mapped(h, Thoughtless)
  <2>1. \A i \in DOMAIN h : \A j \in DOMAIN h[i].parts : h[i].parts[j] \in PartSet
    BY <1>2, PartsOfMessages, Elements
  <2>2. \A p \in PartSet : Thoughtless[p] = new(p)
    BY DEF Thoughtless
  <2> HIDE DEF new
  <2> QED
    BY <2>1, <2>2 DEF Mapped
<1> HIDE DEF all
<1>5. Cuts(h, g)
  BY <1>3, <1>4, ThoughtlessCutter, MappedCuts
<1>6. \A x \in ToSet(g) : x.prompt = 0
  <2>1. all \in Seq(Seq(PartSet)) /\ Len(all) = Len(h) /\ all[1] \in Seq(PartSet)
    <3>1. all \in Seq(Seq(PartSet)) /\ Len(all) = Len(h)
      BY <1>2, <1>4, MappedType, ThoughtlessCutter DEF Cutter
    <3> QED
      BY <1>2, <3>1, Elements
  <2>2. \A x \in ToSet(g) : \E i \in 1 .. Len(h) : x = WithParts(h[i], all[i])
    BY <1>2, <2>1, RewriteParts
  <2>3. WithParts(m, all[1]).prompt = 0
    BY <2>1, WithPartsType
  <2> QED
    BY <1>2, <2>2, <2>3
<1> HIDE DEF g
<1>7. g \in Seq(Messages)
  BY <1>5 DEF Cuts, Conversation
<1>8. ASSUME NEW x \in ToSet(g), NEW q \in ToSet(x.parts), ~(q.call = NoTool /\ q.result = NoTool)
      PROVE  \E p \in ToSet(m.parts) : q.call \in {p.call, NoTool} /\ q.result \in {p.result, NoTool}
  <2>1. q \in PartsOf(g)
    BY <1>7, PartsOfMessages
  <2> QED
    BY <1>2, <1>5, <1>8, <2>1 DEF Cuts, Derived
<1> QED
  BY <1>1, <1>6, <1>7, <1>8 DEF g, h

LEMMA TrimCuts ==
    ASSUME NEW h, Conversation(h)
    PROVE  Cuts(h, TrimAssistantThinking(h))
<1> DEFINE reasoning(i) == Total([j \in DOMAIN h[i].parts |-> h[i].parts[j].reason])
<1> DEFINE gone == DroppedUntil(h, Limit \div 2,
                                LAMBDA i : h[i].role = "assistant" /\ reasoning(i) > 0, reasoning)
<1> DEFINE without(m) == Rewrite(<<m>>, EachPart(<<m>>, LAMBDA p : [p EXCEPT !.reason = 0]))
<1>1. CASE ~IsAboveThreshold(h)
  BY <1>1, CutsNothing DEF TrimAssistantThinking
<1>2. CASE IsAboveThreshold(h)
  <2>1. \A i \in gone : h[i].role = "assistant"
    BY DEF DroppedUntil
  <2>2. TrimAssistantThinking(h) =
            Flat([i \in DOMAIN h |-> IF i \notin gone THEN <<h[i]>> ELSE without(h[i])])
    BY <1>2 DEF TrimAssistantThinking
  <2> HIDE DEF gone
  <2>3. /\ h \in Seq(Messages) /\ Len(h) \in Nat /\ DOMAIN h = 1 .. Len(h)
        /\ \A i \in 1 .. Len(h) : h[i] \in Messages
    BY Elements DEF Conversation
  <2>4. \A i \in 1 .. Len(h) : i \in gone => h[i].prompt = 0
    BY <2>1, ExplicitPrompts
  <2>5. ASSUME NEW m \in Messages, m.prompt = 0
        PROVE  /\ without(m) \in Seq(Messages) /\ \A x \in ToSet(without(m)) : x.prompt = 0
               /\ \A x \in ToSet(without(m)) : \A q \in ToSet(x.parts) :
                    \/ q.call = NoTool /\ q.result = NoTool
                    \/ \E p \in ToSet(m.parts) : q.call \in {p.call, NoTool} /\ q.result \in {p.result, NoTool}
    BY <2>5, TrimOne
  <2> HIDE DEF without
  <2> DEFINE gs == [i \in 1 .. Len(h) |-> IF i \notin gone THEN <<h[i]>> ELSE without(h[i])]
  <2>6. /\ gs \in Seq(Seq(Messages)) /\ Len(gs) = Len(h)
        /\ \A i \in 1 .. Len(h) : gs[i] = IF i \notin gone THEN <<h[i]>> ELSE without(h[i])
    <3>1. \A i \in 1 .. Len(h) : (IF i \notin gone THEN <<h[i]>> ELSE without(h[i])) \in Seq(Messages)
      BY <2>3, <2>4, <2>5, OneMessage
    <3> QED
      BY <2>3, <3>1
  <2>7. TrimAssistantThinking(h) = Flat(gs)
    BY <2>2, <2>3
  <2> HIDE DEF gs
  <2>8. ASSUME NEW i \in 1 .. Len(h), h[i].prompt # 0
        PROVE  \E t \in Seq(Messages) : gs[i] = <<h[i]>> \o t /\ \A x \in ToSet(t) : x.prompt = 0
    <3>1. gs[i] = <<h[i]>> \o <<>>
      BY <2>3, <2>4, <2>6, <2>8, OneMessage
    <3>2. <<>> \in Seq(Messages) /\ \A x \in ToSet(<<>>) : x.prompt = 0
      BY DEF ToSet
    <3> QED
      BY <3>1, <3>2
  <2>9. ASSUME NEW i \in 1 .. Len(h), h[i].prompt = 0
        PROVE  \A x \in ToSet(gs[i]) : x.prompt = 0
    <3>1. CASE i \in gone
      BY <2>3, <2>5, <2>6, <2>9, <3>1
    <3>2. CASE i \notin gone
      <4>1. gs[i] = <<h[i]>> /\ h[i] \in Messages
        BY <2>3, <2>6, <3>2
      <4>2. ToSet(gs[i]) = {h[i]}
        BY <4>1, OneMessage
      <4> QED
        BY <2>9, <4>2
    <3> QED
      BY <3>1, <3>2
  <2>10. ASSUME NEW i \in 1 .. Len(h), NEW x \in ToSet(gs[i]), NEW q \in ToSet(x.parts)
         PROVE  \/ q.call = NoTool /\ q.result = NoTool
                \/ \E p \in ToSet(h[i].parts) : q.call \in {p.call, NoTool} /\ q.result \in {p.result, NoTool}
    <3>1. CASE i \in gone
      BY <2>3, <2>4, <2>5, <2>6, <3>1
    <3>2. CASE i \notin gone
      <4>1. x = h[i]
        BY <2>3, <2>6, <3>2, OneMessage
      <4> QED
        BY <4>1
    <3> QED
      BY <3>1, <3>2
  <2>11. Cuts(h, Flat(gs))
    BY <2>6, <2>8, <2>9, <2>10, FlatCuts
  <2> QED
    BY <2>7, <2>11
<1> QED
  BY <1>1, <1>2

\* Files take the place of parts of messages, which prompts do not have.
LEMMA FileMessage ==
    ASSUME NEW f \in Nat, NEW length \in Nat \cup {-1}
    PROVE  /\ CompactedFile(f, length) \in Messages /\ CompactedFile(f, length).prompt = 0
           /\ CompactedFile(f, length).parts = <<[Empty EXCEPT !.text = length + 1]>>
           /\ \A q \in ToSet(CompactedFile(f, length).parts) :
                 q.call = NoTool /\ q.result = NoTool /\ q.text = length + 1
<1> DEFINE x == [Empty EXCEPT !.text = length + 1]
<1>1. x = [text |-> length + 1, reason |-> 0, call |-> NoTool, result |-> NoTool, out |-> 0]
  BY DEF Empty
<1>2. NoTool \in Calls
  BY DEF NoTool, Calls, ToolNames
<1>3. x \in PartSet /\ x.call = NoTool /\ x.result = NoTool /\ x.text = length + 1
  BY <1>1, <1>2 DEF PartSet
<1>4. CompactedFile(f, length) = [role |-> "user", parts |-> <<x>>, prompt |-> 0, file |-> f]
  BY DEF CompactedFile, StepMessage
<1> HIDE DEF x
<1> DEFINE ps == <<x>>
<1>5. ps \in Seq(PartSet)
  BY <1>3
<1>6. ToSet(ps) = {x}
  BY DEF ToSet
<1> HIDE DEF ps
<1>7. CompactedFile(f, length) = [role |-> "user", parts |-> ps, prompt |-> 0, file |-> f]
  BY <1>4 DEF ps
<1>8. CompactedFile(f, length) \in Messages
  BY <1>5, <1>7 DEF Messages
<1> DEFINE m == CompactedFile(f, length)
<1>9. m \in Messages /\ m.prompt = 0 /\ m.parts = ps
  BY <1>7, <1>8
<1> HIDE DEF m
<1>10. \A q \in ToSet(m.parts) : q.call = NoTool /\ q.result = NoTool /\ q.text = length + 1
  BY <1>3, <1>6, <1>9
<1> QED
  BY <1>9, <1>10 DEF ps, x, m

LEMMA PromptsReferToNothing ==
    ASSUME NEW h, Conversation(h), NEW i \in 1 .. Len(h), h[i].prompt # 0, NEW j \in DOMAIN h[i].parts
    PROVE  PathsOf(h[i], j) = {}
<1>1. h[i] \in Messages /\ h[i] \in ToSet(h)
  BY Elements DEF Conversation
<1>2. h[i] = PromptMessage(h[i].prompt) /\ h[i].prompt \in Nat
  BY <1>1 DEF Conversation, Messages
<1>3. h[i].role = "user" /\ h[i].parts = <<PromptPart>>
  BY <1>2, PromptParts DEF PromptPart
<1> DEFINE x == PromptPart
<1>4. x.call = NoTool /\ x.result = NoTool
  BY DEF PromptPart, Empty
<1> HIDE DEF x
<1>5. h[i].parts[j] = x
  BY <1>3 DEF x
<1>6. FilePathsForPart(h[i].parts[j]) = {}
  <2>1. NoTool.tool \notin FileTools
    BY DEF NoTool, FileTools
  <2> QED
    BY <1>4, <1>5, <2>1 DEF FilePathsForPart
<1> QED
  BY <1>3, <1>6 DEF PathsOf

\* What takes the place of one message: its parts that are kept, and files.
RestOf(h, content, i) ==
    Kept(h[i].parts, {j \in DOMAIN h[i].parts :
                         <<i, j>> \notin UNION {References(h, f) : f \in Replaced(h, content)}})
MessageLeft(h, content, i) ==
    IF RestOf(h, content, i) = <<>> THEN <<>> ELSE <<[h[i] EXCEPT !.parts = RestOf(h, content, i)]>>
LastMention(h, f) == CHOOSE i \in DOMAIN h :
    /\ \E r \in References(h, f) : r[1] = i
    /\ \A r \in References(h, f) : r[1] <= i
Inserted(h, content, i) ==
    Kept([f \in Files |-> CompactedFile(f, content[f])],
         {f \in Replaced(h, content) : LastMention(h, f) = i})

LEMMA ReplaceUnfolds ==
    ASSUME NEW h, NEW content, Replaced(h, content) # {}
    PROVE  ReplaceFileParts(h, content) =
               Flat([i \in DOMAIN h |-> MessageLeft(h, content, i) \o Inserted(h, content, i)])
BY DEF ReplaceFileParts, MessageLeft, Inserted, RestOf, LastMention

DiskOf == [Files -> Nat \cup {-1}]

LEMMA InsertedFiles ==
    ASSUME StepAssumption, NEW h \in Seq(Messages), NEW content \in DiskOf, NEW i
    PROVE  /\ Inserted(h, content, i) \in Seq(Messages)
           /\ ToSet(Inserted(h, content, i)) =
                {CompactedFile(f, content[f]) : f \in {g \in Replaced(h, content) : LastMention(h, g) = i}}
           /\ \A x \in ToSet(Inserted(h, content, i)) : x.prompt = 0
           /\ \A x \in ToSet(Inserted(h, content, i)) : \A q \in ToSet(x.parts) :
                 q.call = NoTool /\ q.result = NoTool
<1> DEFINE all == [f \in Files |-> CompactedFile(f, content[f])]
<1> DEFINE K == {f \in Replaced(h, content) : LastMention(h, f) = i}
<1>1. \A f \in Files : f \in Nat /\ content[f] \in Nat \cup {-1}
  BY DEF Files, DiskOf, StepAssumption
<1>2. all \in Seq(Messages) /\ DOMAIN all = Files
  <2>1. \A f \in Files : CompactedFile(f, content[f]) \in Messages
    BY <1>1, FileMessage
  <2>2. NumFiles \in Nat /\ Files = 1 .. NumFiles
    BY DEF Files, StepAssumption
  <2> QED
    BY <2>1, <2>2
<1>3. \A f \in Files : all[f] = CompactedFile(f, content[f])
  OBVIOUS
<1>4. K \in SUBSET Files
  BY DEF Replaced
<1>5. Inserted(h, content, i) = Kept(all, K)
  BY DEF Inserted
<1> HIDE DEF all, K
<1>6. Kept(all, K) \in Seq(Messages) /\ ToSet(Kept(all, K)) = {all[f] : f \in K}
  BY <1>2, <1>4, KeptElements
<1>7. ToSet(Kept(all, K)) = {CompactedFile(f, content[f]) : f \in K}
  BY <1>3, <1>4, <1>6
<1>8. \A f \in K : /\ CompactedFile(f, content[f]).prompt = 0
                   /\ \A q \in ToSet(CompactedFile(f, content[f]).parts) : q.call = NoTool /\ q.result = NoTool
  BY <1>1, <1>4, FileMessage
<1> QED
  BY <1>5, <1>6, <1>7, <1>8 DEF K

LEMMA RestParts ==
    ASSUME NEW h \in Seq(Messages), NEW content, NEW i \in 1 .. Len(h)
    PROVE  LET gone == UNION {References(h, f) : f \in Replaced(h, content)}
           IN  /\ RestOf(h, content, i) \in Seq(PartSet)
               /\ ToSet(RestOf(h, content, i)) =
                    {h[i].parts[j] : j \in {k \in DOMAIN h[i].parts : <<i, k>> \notin gone}}
<1> DEFINE gone == UNION {References(h, f) : f \in Replaced(h, content)}
<1> DEFINE ps == h[i].parts
<1> DEFINE K == {j \in DOMAIN ps : <<i, j>> \notin gone}
<1>1. ps \in Seq(PartSet) /\ K \in SUBSET DOMAIN ps
  BY PartsOfMessages
<1>2. RestOf(h, content, i) = Kept(ps, K)
  BY DEF RestOf
<1> HIDE DEF K, ps
<1>3. RestOf(h, content, i) \in Seq(PartSet) /\ ToSet(RestOf(h, content, i)) = {ps[j] : j \in K}
  BY <1>1, <1>2, KeptElements
<1> QED
  BY <1>3 DEF K, ps

LEMMA RestOfPrompt ==
    ASSUME NEW h, Conversation(h), NEW content, NEW i \in 1 .. Len(h), h[i].prompt # 0
    PROVE  MessageLeft(h, content, i) = <<h[i]>>
<1> DEFINE gone == UNION {References(h, f) : f \in Replaced(h, content)}
<1> DEFINE ps == h[i].parts
<1> DEFINE K == {j \in DOMAIN ps : <<i, j>> \notin gone}
<1>1. h \in Seq(Messages) /\ h[i] \in Messages /\ h[i] \in ToSet(h) /\ DOMAIN h = 1 .. Len(h)
  BY Elements DEF Conversation
<1>2. h[i] = PromptMessage(h[i].prompt) /\ h[i].prompt \in Nat
  BY <1>1 DEF Conversation, Messages
<1>3. \A j \in DOMAIN ps : PathsOf(h[i], j) = {}
  BY PromptsReferToNothing
<1>4. \A j \in DOMAIN ps : <<i, j>> \notin gone
  <2>1. ASSUME NEW j \in DOMAIN ps, NEW f, <<i, j>> \in References(h, f) PROVE FALSE
    <3>1. f \in PathsOf(h[<<i, j>>[1]], <<i, j>>[2])
      BY <2>1 DEF References
    <3> QED
      BY <1>3, <3>1
  <2> QED
    BY <2>1
<1>5. K = DOMAIN ps
  BY <1>4
<1>6. RestOf(h, content, i) = Kept(ps, K)
  BY DEF RestOf
<1>7. ps = <<PromptPart>>
  BY <1>2, PromptParts DEF PromptPart
<1>8. ~IsEmptyPart(PromptPart)
  BY DEF IsEmptyPart, PromptPart, Empty
<1>9. {j \in DOMAIN ps : ~IsEmptyPart(ps[j])} = DOMAIN ps
  BY <1>7, <1>8
<1>10. WithParts(h[i], ps) = h[i] /\ ps # <<>>
  BY <1>2, PromptUnchanged
<1>11. WithParts(h[i], ps) = [h[i] EXCEPT !.parts = Kept(ps, DOMAIN ps)]
  BY <1>9 DEF WithParts, KeptIf
<1>12. Kept(ps, DOMAIN ps) = ps
  <2> DEFINE k == Kept(ps, DOMAIN ps)
  <2>1. h[i] = [h[i] EXCEPT !.parts = k]
    BY <1>10, <1>11
  <2> HIDE DEF k
  <2>2. [h[i] EXCEPT !.parts = k].parts = k
    BY <1>1 DEF Messages
  <2> QED
    BY <2>1, <2>2 DEF k
<1> HIDE DEF K
<1>13. RestOf(h, content, i) = ps
  BY <1>5, <1>6, <1>12
<1>14. [h[i] EXCEPT !.parts = ps] = h[i]
  BY <1>1 DEF Messages
<1> QED
  BY <1>10, <1>13, <1>14 DEF MessageLeft

LEMMA LeftOfMessage ==
    ASSUME NEW h \in Seq(Messages), NEW content, NEW i \in 1 .. Len(h)
    PROVE  LET gone == UNION {References(h, f) : f \in Replaced(h, content)}
               left == MessageLeft(h, content, i)
           IN  /\ left \in Seq(Messages)
               /\ \A x \in ToSet(left) : x.prompt = h[i].prompt /\ ToSet(x.parts) \subseteq ToSet(h[i].parts)
               /\ \A j \in DOMAIN h[i].parts : <<i, j>> \notin gone
                     => \E x \in ToSet(left) : h[i].parts[j] \in ToSet(x.parts)
<1> DEFINE gone == UNION {References(h, f) : f \in Replaced(h, content)}
<1> DEFINE rest == RestOf(h, content, i)
<1> DEFINE m == [h[i] EXCEPT !.parts = rest]
<1> DEFINE left == MessageLeft(h, content, i)
<1>1. h[i] \in Messages /\ h[i].parts \in Seq(PartSet)
  BY PartsOfMessages
<1>2. rest \in Seq(PartSet) /\ ToSet(rest) = {h[i].parts[j] : j \in {k \in DOMAIN h[i].parts : <<i, k>> \notin gone}}
  BY RestParts
<1>3. left = IF rest = <<>> THEN <<>> ELSE <<m>>
  BY DEF MessageLeft
<1> HIDE DEF gone, rest, left
<1>4. m \in Messages /\ m.prompt = h[i].prompt /\ m.parts = rest
  BY <1>1, <1>2 DEF Messages
<1> HIDE DEF m
<1>5. ToSet(rest) \subseteq ToSet(h[i].parts)
  BY <1>2 DEF ToSet
<1>6. CASE rest = <<>>
  <2>1. ToSet(rest) = {} /\ left = <<>> /\ left \in Seq(Messages) /\ ToSet(left) = {}
    BY <1>3, <1>6 DEF ToSet
  <2>2. \A j \in DOMAIN h[i].parts : <<i, j>> \in gone
    BY <1>2, <2>1
  <2> QED
    BY <2>1, <2>2 DEF left, gone
<1>7. CASE rest # <<>>
  <2>1. left \in Seq(Messages) /\ ToSet(left) = {m}
    BY <1>3, <1>4, <1>7, OneMessage
  <2>2. \A j \in DOMAIN h[i].parts : <<i, j>> \notin gone => h[i].parts[j] \in ToSet(m.parts)
    BY <1>2, <1>4
  <2> QED
    BY <1>4, <1>5, <2>1, <2>2 DEF left, gone
<1> QED
  BY <1>6, <1>7

\* The sequences put together by ReplaceFileParts.
Pieces(h, content) == [i \in 1 .. Len(h) |-> MessageLeft(h, content, i) \o Inserted(h, content, i)]

LEMMA PieceElements ==
    ASSUME StepAssumption, NEW h \in Seq(Messages), NEW content \in DiskOf
    PROVE  /\ Pieces(h, content) \in Seq(Seq(Messages)) /\ Len(Pieces(h, content)) = Len(h)
           /\ \A i \in 1 .. Len(h) :
                 /\ Pieces(h, content)[i] = MessageLeft(h, content, i) \o Inserted(h, content, i)
                 /\ ToSet(Pieces(h, content)[i]) =
                        ToSet(MessageLeft(h, content, i)) \cup ToSet(Inserted(h, content, i))
           /\ Replaced(h, content) # {} => ReplaceFileParts(h, content) = Flat(Pieces(h, content))
<1>1. Len(h) \in Nat /\ DOMAIN h = 1 .. Len(h)
  BY Elements
<1>2. ASSUME NEW i \in 1 .. Len(h)
      PROVE  /\ MessageLeft(h, content, i) \o Inserted(h, content, i) \in Seq(Messages)
             /\ ToSet(MessageLeft(h, content, i) \o Inserted(h, content, i)) =
                    ToSet(MessageLeft(h, content, i)) \cup ToSet(Inserted(h, content, i))
  <2>1. MessageLeft(h, content, i) \in Seq(Messages) /\ Inserted(h, content, i) \in Seq(Messages)
    BY LeftOfMessage, InsertedFiles
  <2> QED
    BY <2>1, ToSetConcat, ConcatProperties
<1>3. /\ Pieces(h, content) \in Seq(Seq(Messages)) /\ Len(Pieces(h, content)) = Len(h)
      /\ \A i \in 1 .. Len(h) :
            Pieces(h, content)[i] = MessageLeft(h, content, i) \o Inserted(h, content, i)
  BY <1>1, <1>2 DEF Pieces
<1>4. Replaced(h, content) # {} => ReplaceFileParts(h, content) = Flat(Pieces(h, content))
  BY <1>1, ReplaceUnfolds DEF Pieces
<1> QED
  BY <1>2, <1>3, <1>4

LEMMA ReplaceCuts ==
    ASSUME StepAssumption, NEW h, Conversation(h), NEW content \in DiskOf
    PROVE  Cuts(h, ReplaceFileParts(h, content))
<1>1. h \in Seq(Messages)
  BY DEF Conversation
<1>2. CASE Replaced(h, content) = {}
  BY <1>2, CutsNothing DEF ReplaceFileParts
<1>3. CASE Replaced(h, content) # {}
  <2> DEFINE gs == Pieces(h, content)
  <2>1. /\ gs \in Seq(Seq(Messages)) /\ Len(gs) = Len(h)
        /\ \A i \in 1 .. Len(h) :
              /\ gs[i] = MessageLeft(h, content, i) \o Inserted(h, content, i)
              /\ ToSet(gs[i]) = ToSet(MessageLeft(h, content, i)) \cup ToSet(Inserted(h, content, i))
        /\ ReplaceFileParts(h, content) = Flat(gs)
    BY <1>1, <1>3, PieceElements
  <2> HIDE DEF gs
  <2>2. \A i \in 1 .. Len(h) :
           /\ Inserted(h, content, i) \in Seq(Messages)
           /\ \A x \in ToSet(Inserted(h, content, i)) : x.prompt = 0
           /\ \A x \in ToSet(Inserted(h, content, i)) : \A q \in ToSet(x.parts) :
                 q.call = NoTool /\ q.result = NoTool
    BY <1>1, InsertedFiles
  <2>3. \A i \in 1 .. Len(h) :
           \A x \in ToSet(MessageLeft(h, content, i)) :
              x.prompt = h[i].prompt /\ ToSet(x.parts) \subseteq ToSet(h[i].parts)
    BY <1>1, LeftOfMessage
  <2>4. ASSUME NEW i \in 1 .. Len(h), h[i].prompt # 0
        PROVE  \E t \in Seq(Messages) : gs[i] = <<h[i]>> \o t /\ \A x \in ToSet(t) : x.prompt = 0
    <3> DEFINE t == Inserted(h, content, i)
    <3>1. t \in Seq(Messages) /\ \A x \in ToSet(t) : x.prompt = 0
      BY <2>2
    <3>2. MessageLeft(h, content, i) = <<h[i]>>
      BY <2>4, RestOfPrompt
    <3>3. gs[i] = <<h[i]>> \o t
      BY <2>1, <3>2
    <3> HIDE DEF t
    <3> QED
      BY <3>1, <3>3
  <2>5. \A i \in 1 .. Len(h) : h[i].prompt = 0 => \A x \in ToSet(gs[i]) : x.prompt = 0
    BY <2>1, <2>2, <2>3
  <2>6. ASSUME NEW i \in 1 .. Len(h), NEW x \in ToSet(gs[i]), NEW q \in ToSet(x.parts)
        PROVE  \/ q.call = NoTool /\ q.result = NoTool
               \/ \E p \in ToSet(h[i].parts) : q.call \in {p.call, NoTool} /\ q.result \in {p.result, NoTool}
    BY <2>1, <2>2, <2>3
  <2>7. Cuts(h, Flat(gs))
    BY <2>1, <2>4, <2>5, <2>6, FlatCuts
  <2> QED
    BY <2>1, <2>7
<1> QED
  BY <1>2, <1>3

LEMMA CompactedCuts ==
    ASSUME StepAssumption, NEW h, Conversation(h), NEW content \in DiskOf
    PROVE  Cuts(h, CompactedMessages(h, content))
<1> DEFINE a == ReplaceFileParts(h, content)
<1> DEFINE b == KeepLastTodo(a)
<1> DEFINE c == ClipRunBashResponses(b)
<1> DEFINE d == PruneGrepFind(c)
<1> DEFINE e == TrimAssistantThinking(d)
<1> DEFINE f == DropOldMessages(e)
<1> DEFINE g == DropOldCompactedMessages(f)
<1> DEFINE z == EnsureToolCallResponsePairs(g)
<1> HIDE DEF a, b, c, d, e, f, g, z
<1>1. Cuts(h, a)
  BY ReplaceCuts DEF a
<1>2. Conversation(a)
  BY <1>1 DEF Cuts
<1>3. Cuts(a, b)
  BY <1>2, KeepLastTodoCuts DEF b
<1>4. Conversation(b)
  BY <1>3 DEF Cuts
<1>5. Cuts(b, c)
  BY <1>4, ClipCuts DEF c
<1>6. Conversation(c)
  BY <1>5 DEF Cuts
<1>7. Cuts(c, d)
  BY <1>6, PruneGrepFindCuts DEF d
<1>8. Conversation(d)
  BY <1>7 DEF Cuts
<1>9. Cuts(d, e)
  BY <1>8, TrimCuts DEF e
<1>10. Conversation(e)
  BY <1>9 DEF Cuts
<1>11. Cuts(e, f)
  BY <1>10, DropOldMessagesCuts DEF f
<1>12. Conversation(f)
  BY <1>11 DEF Cuts
<1>13. Cuts(f, g)
  BY <1>12, DropOldCompactedCuts DEF g
<1>14. Conversation(g)
  BY <1>13 DEF Cuts
<1>15. Cuts(g, z)
  BY <1>14, PairsCuts DEF z
<1>16. CompactedMessages(h, content) = z
  BY DEF CompactedMessages, a, b, c, d, e, f, g, z
<1>17. Cuts(h, b)
  BY <1>1, <1>3, CutsAgain
<1>18. Cuts(h, c)
  BY <1>5, <1>17, CutsAgain
<1>19. Cuts(h, d)
  BY <1>7, <1>18, CutsAgain
<1>20. Cuts(h, e)
  BY <1>9, <1>19, CutsAgain
<1>21. Cuts(h, f)
  BY <1>11, <1>20, CutsAgain
<1>22. Cuts(h, g)
  BY <1>13, <1>21, CutsAgain
<1> QED
  BY <1>15, <1>16, <1>22, CutsAgain

-----------------------------------------------------------------------------
(* Calls with their results.                                               *)

\* Whatever went before, the last step leaves no call without its result and no
\* result without its call.
LEMMA PairsPaired ==
    ASSUME NEW h, Conversation(h)
    PROVE  LET g == EnsureToolCallResponsePairs(h) IN CalledIDs(g) = AnsweredIDs(g)
<1> DEFINE called == CalledIDs(h)
<1> DEFINE answered == AnsweredIDs(h)
<1> DEFINE KC == {c \in Calls : c.id \in answered}
<1> DEFINE KR == {c \in Calls : c.id \in called}
<1> DEFINE F == Strip(KC, KR)
<1> DEFINE g == EnsureToolCallResponsePairs(h)
<1>1. h \in Seq(Messages) /\ PartsOf(h) \subseteq PartSet
  BY PartsOfMessages DEF Conversation
<1>2. g = Rewrite(h, Mapped(h, F))
  BY <1>1, PairsStrips
<1>3. Cutter(F)
  BY StripCutter
<1> HIDE DEF g
<1>4. PartsOf(g) = {q \in {F[p] : p \in PartsOf(h)} : ~IsEmptyPart(q)}
  <2> HIDE DEF F
  <2> QED
    BY <1>2, <1>3, MappedCuts
<1>5. NoTool.id = 0
  BY DEF NoTool
<1> HIDE DEF called, answered
<1>6. ASSUME NEW p \in PartSet
      PROVE  /\ F[p].call = IF p.call.id \in answered THEN p.call ELSE NoTool
             /\ F[p].result = IF p.result.id \in called THEN p.result ELSE NoTool
             /\ p.call.id \in Nat /\ p.result.id \in Nat
  <2>1. p.call \in Calls /\ p.result \in Calls
    BY DEF PartSet
  <2>2. F[p] = Stripped(p, p.call \in KC, p.result \in KR)
    BY DEF Strip
  <2>3. (p.call \in KC) = (p.call.id \in answered) /\ (p.result \in KR) = (p.result.id \in called)
    BY <2>1
  <2> HIDE DEF F, KC, KR
  <2>4. /\ F[p].call = IF p.call \in KC THEN p.call ELSE NoTool
        /\ F[p].result = IF p.result \in KR THEN p.result ELSE NoTool
    BY <2>2 DEF Stripped, PartSet
  <2>5. p.call.id \in Nat /\ p.result.id \in Nat
    BY <2>1 DEF Calls
  <2> QED
    BY <2>3, <2>4, <2>5
<1> HIDE DEF F
<1>7. /\ called = {p.call.id : p \in PartsOf(h)} \ {0} /\ answered = {p.result.id : p \in PartsOf(h)} \ {0}
      /\ CalledIDs(g) = {p.call.id : p \in PartsOf(g)} \ {0}
      /\ AnsweredIDs(g) = {p.result.id : p \in PartsOf(g)} \ {0}
  BY DEF called, answered, CalledIDs, AnsweredIDs
<1>8. \A q \in PartsOf(g) : \E p \in PartsOf(h) : q = F[p]
  BY <1>4
<1>9. \A p \in PartsOf(h) : F[p].call.id # 0 \/ F[p].result.id # 0 => F[p] \in PartsOf(g)
  BY <1>4, <1>5 DEF IsEmptyPart
<1>10. ASSUME NEW x PROVE x \in CalledIDs(g) <=> x \in called /\ x \in answered
  <2>1. ASSUME x \in CalledIDs(g) PROVE x \in called /\ x \in answered
    <3>1. PICK q \in PartsOf(g) : x = q.call.id /\ x # 0
      BY <1>7, <2>1
    <3>2. PICK p \in PartsOf(h) : q = F[p]
      BY <1>8
    <3>3. x = p.call.id /\ p.call.id \in answered
      BY <1>1, <1>5, <1>6, <3>1, <3>2
    <3> QED
      BY <1>7, <3>1, <3>3
  <2>2. ASSUME x \in called, x \in answered PROVE x \in CalledIDs(g)
    <3>1. PICK p \in PartsOf(h) : x = p.call.id /\ x # 0
      BY <1>7, <2>2
    <3>2. F[p].call.id = x
      BY <1>1, <1>6, <2>2, <3>1
    <3> QED
      BY <1>7, <1>9, <3>1, <3>2
  <2> QED
    BY <2>1, <2>2
<1>11. ASSUME NEW x PROVE x \in AnsweredIDs(g) <=> x \in called /\ x \in answered
  <2>1. ASSUME x \in AnsweredIDs(g) PROVE x \in called /\ x \in answered
    <3>1. PICK q \in PartsOf(g) : x = q.result.id /\ x # 0
      BY <1>7, <2>1
    <3>2. PICK p \in PartsOf(h) : q = F[p]
      BY <1>8
    <3>3. x = p.result.id /\ p.result.id \in called
      BY <1>1, <1>5, <1>6, <3>1, <3>2
    <3> QED
      BY <1>7, <3>1, <3>3
  <2>2. ASSUME x \in called, x \in answered PROVE x \in AnsweredIDs(g)
    <3>1. PICK p \in PartsOf(h) : x = p.result.id /\ x # 0
      BY <1>7, <2>2
    <3>2. F[p].result.id = x
      BY <1>1, <1>6, <2>2, <3>1
    <3> QED
      BY <1>7, <1>9, <3>1, <3>2
  <2> QED
    BY <2>1, <2>2
<1>12. CalledIDs(g) = AnsweredIDs(g)
  BY <1>10, <1>11
<1> QED
  BY <1>12 DEF g

-----------------------------------------------------------------------------
(* Sizes: taking calls and output away makes no conversation longer.       *)

LengthsOf(ps) == [j \in DOMAIN ps |-> PartLength(ps[j])]
SizesOf(h) == [i \in DOMAIN h |-> MessageSize(h[i])]
AllLengths == [p \in PartSet |-> PartLength(p)]
AllSizes == [m \in Messages |-> MessageSize(m)]

LEMMA LengthIsNat ==
    ASSUME NEW p \in PartSet
    PROVE  PartLength(p) \in Nat
<1>1. p.text \in Nat /\ p.reason \in Nat /\ p.out \in Nat
  BY DEF PartSet
<1>2. ResultLength(p) \in Nat
  BY <1>1 DEF ResultLength
<1> QED
  BY <1>1, <1>2 DEF PartLength

LEMMA LengthsType ==
    ASSUME NEW ps \in Seq(PartSet)
    PROVE  /\ LengthsOf(ps) \in Seq(Nat) /\ Len(LengthsOf(ps)) = Len(ps) /\ DOMAIN LengthsOf(ps) = DOMAIN ps
           /\ \A j \in 1 .. Len(ps) : LengthsOf(ps)[j] = PartLength(ps[j])
           /\ LengthsOf(ps) = Through(AllLengths, ps)
<1>1. Len(ps) \in Nat /\ DOMAIN ps = 1 .. Len(ps) /\ \A j \in 1 .. Len(ps) : ps[j] \in PartSet
  BY Elements
<1>2. \A j \in 1 .. Len(ps) : PartLength(ps[j]) \in Nat
  BY <1>1, LengthIsNat
<1>3. LengthsOf(ps) = [j \in 1 .. Len(ps) |-> PartLength(ps[j])]
  BY <1>1 DEF LengthsOf
<1>4. LengthsOf(ps) = Through(AllLengths, ps)
  BY <1>1, <1>3 DEF AllLengths, Through
<1> QED
  BY <1>1, <1>2, <1>3, <1>4

LEMMA SizeIsNat ==
    ASSUME NEW m \in Messages
    PROVE  MessageSize(m) \in Nat /\ MessageSize(m) = 1 + Total(LengthsOf(m.parts)) /\ Total(LengthsOf(m.parts)) \in Nat
<1>1. m.parts \in Seq(PartSet)
  BY DEF Messages
<1>2. MessageSize(m) = 1 + Total(LengthsOf(m.parts))
  BY DEF MessageSize, LengthsOf
<1>3. Total(LengthsOf(m.parts)) \in Nat
  BY <1>1, LengthsType, TotalType
<1> QED
  BY <1>2, <1>3

LEMMA SizesType ==
    ASSUME NEW h \in Seq(Messages)
    PROVE  /\ SizesOf(h) \in Seq(Nat) /\ Len(SizesOf(h)) = Len(h) /\ DOMAIN SizesOf(h) = DOMAIN h
           /\ \A i \in 1 .. Len(h) : SizesOf(h)[i] = MessageSize(h[i])
           /\ SizesOf(h) = Through(AllSizes, h)
           /\ EstimateSize(h) = Total(SizesOf(h)) /\ EstimateSize(h) \in Nat
<1>1. Len(h) \in Nat /\ DOMAIN h = 1 .. Len(h) /\ \A i \in 1 .. Len(h) : h[i] \in Messages
  BY Elements
<1>2. \A i \in 1 .. Len(h) : MessageSize(h[i]) \in Nat
  BY <1>1, SizeIsNat
<1>3. SizesOf(h) = [i \in 1 .. Len(h) |-> MessageSize(h[i])]
  BY <1>1 DEF SizesOf
<1>4. SizesOf(h) = Through(AllSizes, h)
  BY <1>1, <1>3 DEF AllSizes, Through
<1>5. /\ SizesOf(h) \in Seq(Nat) /\ Len(SizesOf(h)) = Len(h) /\ DOMAIN SizesOf(h) = DOMAIN h
      /\ \A i \in 1 .. Len(h) : SizesOf(h)[i] = MessageSize(h[i])
  BY <1>1, <1>2, <1>3
<1>6. EstimateSize(h) = Total(SizesOf(h))
  BY DEF EstimateSize, SizesOf
<1> QED
  BY <1>4, <1>5, <1>6, TotalType

LEMMA WithPartsShorter ==
    ASSUME NEW m \in Messages, NEW new \in Seq(PartSet), Len(new) = Len(m.parts),
           \A j \in 1 .. Len(new) : PartLength(new[j]) <= PartLength(m.parts[j])
    PROVE  MessageSize(WithParts(m, new)) <= MessageSize(m)
<1> DEFINE K == {j \in DOMAIN new : ~IsEmptyPart(new[j])}
<1> DEFINE kept == Kept(new, K)
<1> DEFINE v == LengthsOf(m.parts)
<1> DEFINE w == LengthsOf(new)
<1>1. m.parts \in Seq(PartSet)
  BY DEF Messages
<1>2. WithParts(m, new) \in Messages
  BY WithPartsType
<1>3. WithParts(m, new).parts = kept
  <2>1. WithParts(m, new) = [m EXCEPT !.parts = kept]
    BY DEF WithParts, KeptIf
  <2> HIDE DEF kept
  <2> QED
    BY <2>1 DEF Messages
<1>4. v \in Seq(Nat) /\ Len(v) = Len(new) /\ \A j \in 1 .. Len(new) : v[j] = PartLength(m.parts[j])
  BY <1>1, LengthsType
<1>5. /\ w \in Seq(Nat) /\ Len(w) = Len(new) /\ DOMAIN w = DOMAIN new
      /\ \A j \in 1 .. Len(new) : w[j] = PartLength(new[j])
      /\ w = Through(AllLengths, new)
  BY LengthsType
<1>6. K \in SUBSET DOMAIN new
  OBVIOUS
<1> HIDE DEF K, v, w
<1>7. kept \in Seq(PartSet)
  BY <1>6, KeptElements
<1>8. LengthsOf(kept) = Kept(w, K)
  <2>1. AllLengths \in [PartSet -> Nat]
    BY LengthIsNat DEF AllLengths
  <2>2. Through(AllLengths, kept) = Kept(Through(AllLengths, new), K)
    BY <1>6, <2>1, KeptMapped
  <2> HIDE DEF kept
  <2>3. LengthsOf(kept) = Through(AllLengths, kept)
    BY <1>7, LengthsType
  <2> QED
    BY <1>5, <2>2, <2>3
<1>9. Total(Kept(w, K)) <= Total(v)
  <2>1. Len(w) = Len(v) /\ \A i \in 1 .. Len(v) : w[i] <= v[i]
    BY <1>4, <1>5
  <2> QED
    BY <1>4, <1>5, <1>6, <2>1, TotalKept
<1> HIDE DEF kept
<1>10. /\ MessageSize(WithParts(m, new)) = 1 + Total(LengthsOf(kept)) /\ Total(LengthsOf(kept)) \in Nat
       /\ MessageSize(m) = 1 + Total(v) /\ Total(v) \in Nat
  BY <1>2, <1>3, SizeIsNat DEF v
<1> QED
  BY <1>8, <1>9, <1>10

LEMMA RewriteShorter ==
    ASSUME NEW h \in Seq(Messages), NEW F \in [PartSet -> PartSet],
           \A p \in PartSet : PartLength(F[p]) <= PartLength(p)
    PROVE  EstimateSize(Rewrite(h, Mapped(h, F))) <= EstimateSize(h)
<1> DEFINE N == Len(h)
<1> DEFINE new == Mapped(h, F)
<1> DEFINE ms == [i \in 1 .. N |-> WithParts(h[i], new[i])]
<1> DEFINE K == {i \in 1 .. N : ms[i].parts # <<>>}
<1> DEFINE g == Kept(ms, K)
<1>1. /\ N \in Nat /\ DOMAIN h = 1 .. N /\ \A i \in 1 .. N : h[i] \in Messages
      /\ \A i \in 1 .. N : h[i].parts \in Seq(PartSet)
  BY Elements, PartsOfMessages
<1>2. new \in Seq(Seq(PartSet)) /\ Len(new) = N
  BY MappedType
<1>3. ASSUME NEW i \in 1 .. N
      PROVE  /\ new[i] \in Seq(PartSet) /\ Len(new[i]) = Len(h[i].parts)
             /\ \A j \in 1 .. Len(new[i]) : PartLength(new[i][j]) <= PartLength(h[i].parts[j])
  <2> DEFINE ps == h[i].parts
  <2>1. /\ ps \in Seq(PartSet) /\ Len(ps) \in Nat /\ DOMAIN ps = 1 .. Len(ps)
        /\ \A j \in 1 .. Len(ps) : ps[j] \in PartSet
    BY <1>1, Elements
  <2>2. new[i] = [j \in DOMAIN ps |-> F[ps[j]]]
    BY <1>1 DEF Mapped
  <2> HIDE DEF ps, new
  <2> QED
    BY <2>1, <2>2 DEF ps
<1> HIDE DEF new
<1>4. \A i \in 1 .. N : WithParts(h[i], new[i]) \in Messages /\ MessageSize(WithParts(h[i], new[i])) <= MessageSize(h[i])
  BY <1>1, <1>3, WithPartsType, WithPartsShorter
<1>5. ms \in Seq(Messages) /\ Len(ms) = N /\ DOMAIN ms = 1 .. N /\ \A i \in 1 .. N : MessageSize(ms[i]) <= MessageSize(h[i])
  BY <1>1, <1>4
<1>6. Rewrite(h, new) = g
  <2>1. [i \in DOMAIN h |-> WithParts(h[i], new[i])] = ms
    BY <1>1
  <2>2. {i \in DOMAIN ms : ms[i].parts # <<>>} = K
    BY <1>5
  <2> HIDE DEF ms, K
  <2> QED
    BY <2>1, <2>2 DEF Rewrite, KeptIf
<1>7. K \in SUBSET DOMAIN ms
  BY <1>5
<1> HIDE DEF ms, K
<1> DEFINE v == SizesOf(h)
<1> DEFINE w == SizesOf(ms)
<1>8. /\ v \in Seq(Nat) /\ Len(v) = N /\ \A i \in 1 .. N : v[i] = MessageSize(h[i])
      /\ EstimateSize(h) = Total(v)
  BY SizesType
<1>9. /\ w \in Seq(Nat) /\ Len(w) = N /\ DOMAIN w = DOMAIN ms /\ \A i \in 1 .. N : w[i] = MessageSize(ms[i])
      /\ w = Through(AllSizes, ms)
  BY <1>5, SizesType
<1>10. AllSizes \in [Messages -> Nat]
  BY SizeIsNat DEF AllSizes
<1>11. Through(AllSizes, g) = Kept(Through(AllSizes, ms), K)
  BY <1>5, <1>7, <1>10, KeptMapped
<1>12. g \in Seq(Messages)
  BY <1>5, <1>7, KeptElements
<1> HIDE DEF g, v, w
<1>13. SizesOf(g) = Through(AllSizes, g) /\ EstimateSize(g) = Total(SizesOf(g))
  BY <1>12, SizesType
<1>14. EstimateSize(g) = Total(Kept(w, K))
  BY <1>9, <1>11, <1>13
<1>15. Total(Kept(w, K)) <= Total(v)
  <2>1. Len(w) = Len(v) /\ \A i \in 1 .. Len(v) : w[i] <= v[i]
    BY <1>5, <1>8, <1>9
  <2>2. K \in SUBSET DOMAIN w
    BY <1>7, <1>9
  <2> QED
    BY <1>8, <1>9, <2>1, <2>2, TotalKept
<1> QED
  BY <1>6, <1>8, <1>14, <1>15 DEF new

LEMMA StripShortens ==
    ASSUME NEW KC, NEW KR, NEW p \in PartSet
    PROVE  PartLength(Strip(KC, KR)[p]) <= PartLength(p)
<1> DEFINE q == Strip(KC, KR)[p]
<1>1. /\ p.text \in Nat /\ p.reason \in Nat /\ p.out \in Nat
  BY DEF PartSet
<1>2. q = Stripped(p, p.call \in KC, p.result \in KR)
  BY DEF Strip
<1> HIDE DEF q
<1>3. /\ q.text = p.text /\ q.reason = p.reason
      /\ q.call = IF p.call \in KC THEN p.call ELSE NoTool
      /\ q.result = IF p.result \in KR THEN p.result ELSE NoTool
      /\ q.out = IF p.result \in KR THEN p.out ELSE 0
  BY <1>2 DEF Stripped, PartSet
<1>4. ResultLength(q) <= ResultLength(p) /\ ResultLength(q) \in Nat /\ ResultLength(p) \in Nat
  BY <1>1, <1>3 DEF ResultLength
<1> QED
  BY <1>1, <1>3, <1>4 DEF PartLength, q

LEMMA ClipShortens ==
    ASSUME StepAssumption, NEW p \in PartSet
    PROVE  PartLength(ClipPart[p]) <= PartLength(p)
<1> DEFINE q == ClipPart[p]
<1>1. p.text \in Nat /\ p.reason \in Nat /\ p.out \in Nat /\ ClipTo \in Nat
  BY DEF PartSet, StepAssumption
<1>2. q = [p EXCEPT !.out = IF p.result.tool = "runBash" /\ p.out > ClipTo THEN ClipTo ELSE p.out]
  BY DEF ClipPart
<1> HIDE DEF q
<1>3. /\ q.text = p.text /\ q.reason = p.reason /\ q.call = p.call /\ q.result = p.result
      /\ q.out <= p.out /\ q.out \in Nat
  BY <1>1, <1>2 DEF PartSet
<1>4. ResultLength(q) <= ResultLength(p) /\ ResultLength(q) \in Nat /\ ResultLength(p) \in Nat
  BY <1>1, <1>3 DEF ResultLength
<1> QED
  BY <1>1, <1>3, <1>4 DEF PartLength, q

-----------------------------------------------------------------------------
(* Files.                                                                  *)

\* Calls and their results are in different parts, an identifier names one call,
\* and every call has its result.
Numbered(p, n) ==
    /\ p.call = NoTool \/ p.result = NoTool
    /\ p.call = NoTool \/ p.call.id \in 1 .. n
    /\ p.result = NoTool \/ p.result.id \in 1 .. n

Answered(h, n) ==
    /\ \A p \in PartsOf(h) : Numbered(p, n)
    /\ \A p, q \in PartsOf(h) : p.call.id = q.result.id => p.call = q.result
    /\ CalledIDs(h) = AnsweredIDs(h)

LEMMA CutsAnswered ==
    ASSUME NEW h, NEW g, NEW n \in Nat, Answered(h, n), Cuts(h, g), CalledIDs(g) = AnsweredIDs(g)
    PROVE  Answered(g, n)
<1>1. NoTool.id = 0
  BY DEF NoTool
<1>2. ASSUME NEW q \in PartsOf(g)
      PROVE  /\ q.call = NoTool \/ (q.call.id \in 1 .. n /\ \E p \in PartsOf(h) : p.call = q.call)
             /\ q.result = NoTool \/ (q.result.id \in 1 .. n /\ \E p \in PartsOf(h) : p.result = q.result)
             /\ q.call = NoTool \/ q.result = NoTool
  <2>1. \A p \in PartsOf(h) : Numbered(p, n)
    BY DEF Answered
  <2>2. CASE q.call = NoTool /\ q.result = NoTool
    BY <2>2
  <2>3. CASE ~(q.call = NoTool /\ q.result = NoTool)
    <3>1. PICK p \in PartsOf(h) : q.call \in {p.call, NoTool} /\ q.result \in {p.result, NoTool}
      BY <2>3 DEF Cuts, Derived
    <3>2. /\ p.call = NoTool \/ p.result = NoTool
          /\ p.call = NoTool \/ p.call.id \in 1 .. n
          /\ p.result = NoTool \/ p.result.id \in 1 .. n
      BY <2>1 DEF Numbered
    <3> QED
      BY <3>1, <3>2
  <2> QED
    BY <2>2, <2>3
<1>3. ASSUME NEW p \in PartsOf(g), NEW q \in PartsOf(g), p.call.id = q.result.id PROVE p.call = q.result
  BY <1>1, <1>2, <1>3 DEF Answered
<1> QED
  BY <1>2, <1>3 DEF Answered, Numbered

LEMMA FileReferred ==
    ASSUME NEW h \in Seq(Messages), NEW f
    PROVE  References(h, f) # {} <=> \E p \in PartsOf(h) : f \in FilePathsForPart(p)
<1>1. /\ DOMAIN h = 1 .. Len(h)
      /\ \A i \in 1 .. Len(h) : h[i].parts \in Seq(PartSet) /\ ToSet(h[i].parts) \subseteq PartsOf(h)
      /\ \A p \in PartsOf(h) : \E i \in 1 .. Len(h) : p \in ToSet(h[i].parts)
  BY Elements, PartsOfMessages
<1>2. ASSUME NEW p \in PartsOf(h), f \in FilePathsForPart(p) PROVE References(h, f) # {}
  <2>1. PICK i \in 1 .. Len(h) : p \in ToSet(h[i].parts)
    BY <1>1
  <2>2. PICK j \in DOMAIN h[i].parts : p = h[i].parts[j]
    BY <2>1 DEF ToSet
  <2>3. f \in PathsOf(h[i], j)
    BY <1>2, <2>2 DEF PathsOf
  <2> DEFINE r == <<i, j>>
  <2>4. r \in UNION {{k} \X DOMAIN h[k].parts : k \in DOMAIN h}
    BY <1>1
  <2>5. f \in PathsOf(h[r[1]], r[2])
    BY <2>3
  <2> HIDE DEF r
  <2> QED
    BY <2>4, <2>5 DEF References
<1>3. ASSUME References(h, f) # {} PROVE \E p \in PartsOf(h) : f \in FilePathsForPart(p)
  <2>1. PICK r \in References(h, f) : TRUE
    BY <1>3
  <2>2. r[1] \in DOMAIN h /\ r[2] \in DOMAIN h[r[1]].parts /\ f \in PathsOf(h[r[1]], r[2])
    BY <2>1 DEF References
  <2> DEFINE m == h[r[1]]
  <2>3. \E j \in DOMAIN m.parts : f \in FilePathsForPart(m.parts[j])
    BY <2>2 DEF PathsOf, MessageFilePaths
  <2>4. PICK j \in DOMAIN m.parts : f \in FilePathsForPart(m.parts[j])
    BY <2>3
  <2>5. m.parts[j] \in ToSet(m.parts)
    BY DEF ToSet
  <2>6. ToSet(m.parts) \subseteq PartsOf(h)
    BY <1>1, <2>2
  <2> QED
    BY <2>4, <2>5, <2>6
<1> QED
  BY <1>2, <1>3

\* Some part has this call and this result.
Has(h, call, result) == \E p \in PartsOf(h) : p.call = call /\ p.result = result

\* The call is there and its result.
HasBoth(h, k) == Has(h, k, NoTool) /\ Has(h, NoTool, k)

FileCalls(f) == {k \in Calls : k.tool \in FileTools /\ k.file = f /\ k.id # 0}

LEMMA ReferredAnswered ==
    ASSUME NEW h \in Seq(Messages), NEW n \in Nat, Answered(h, n), NEW f, References(h, f) # {}
    PROVE  \E k \in FileCalls(f) : HasBoth(h, k)
<1>1. PICK p \in PartsOf(h) : f \in FilePathsForPart(p)
  BY FileReferred
<1>2. PartsOf(h) \subseteq PartSet
  BY PartsOfMessages
<1>3. \A q \in PartsOf(h) : q.call \in Calls /\ q.result \in Calls
  BY <1>2 DEF PartSet
<1>4. NoTool.tool \notin FileTools /\ NoTool.id = 0
  BY DEF NoTool, FileTools
<1>9. \A q \in PartsOf(h) : Numbered(q, n)
  BY DEF Answered
<1>5. PICK k \in {p.call, p.result} : k.tool \in FileTools /\ k.file = f
  BY <1>1 DEF FilePathsForPart
<1>6. k # NoTool /\ k \in Calls
  BY <1>3, <1>4, <1>5
<1>7. CASE k = p.call
  <2>1. p.result = NoTool /\ k.id # 0
    BY <1>4, <1>6, <1>7, <1>9 DEF Numbered
  <2>2. k.id \in CalledIDs(h)
    BY <1>7, <2>1 DEF CalledIDs
  <2>3. k.id \in AnsweredIDs(h)
    BY <2>2 DEF Answered
  <2>4. PICK q \in PartsOf(h) : q.result.id = k.id
    BY <2>3 DEF AnsweredIDs
  <2>5. q.result = k
    BY <1>7, <2>4 DEF Answered
  <2>6. q.call = NoTool
    BY <1>6, <1>9, <2>4, <2>5 DEF Numbered
  <2>7. k \in FileCalls(f)
    BY <1>5, <1>6, <2>1 DEF FileCalls
  <2> QED
    BY <1>7, <2>1, <2>5, <2>6, <2>7 DEF HasBoth, Has
<1>8. CASE k = p.result
  <2>1. p.call = NoTool /\ k.id # 0
    BY <1>4, <1>6, <1>8, <1>9 DEF Numbered
  <2>2. k.id \in AnsweredIDs(h)
    BY <1>8, <2>1 DEF AnsweredIDs
  <2>3. k.id \in CalledIDs(h)
    BY <2>2 DEF Answered
  <2>4. PICK q \in PartsOf(h) : q.call.id = k.id
    BY <2>3 DEF CalledIDs
  <2>5. q.call = k
    BY <1>8, <2>4 DEF Answered
  <2>6. q.result = NoTool
    BY <1>6, <1>9, <2>4, <2>5 DEF Numbered
  <2>7. k \in FileCalls(f)
    BY <1>5, <1>6, <2>1 DEF FileCalls
  <2> QED
    BY <1>8, <2>1, <2>5, <2>6, <2>7 DEF HasBoth, Has
<1> QED
  BY <1>5, <1>7, <1>8

LEMMA HasIsReferred ==
    ASSUME NEW h \in Seq(Messages), NEW f, NEW k \in FileCalls(f), HasBoth(h, k)
    PROVE  References(h, f) # {}
<1>1. PICK p \in PartsOf(h) : p.call = k
  BY DEF HasBoth, Has
<1>2. f \in FilePathsForPart(p)
  BY <1>1 DEF FilePathsForPart, FileCalls
<1> QED
  BY <1>2, FileReferred

\* A cutter that leaves the call and the result of a part leaves the part.
LEMMA MappedHas ==
    ASSUME NEW h, Conversation(h), NEW F, Cutter(F), NEW k \in Calls, k.id # 0, HasBoth(h, k),
           \A p \in PartSet :
              (p.call = k /\ p.result = NoTool) \/ (p.call = NoTool /\ p.result = k)
                 => F[p].call = p.call /\ F[p].result = p.result
    PROVE  HasBoth(Rewrite(h, Mapped(h, F)), k)
<1>1. PartsOf(Rewrite(h, Mapped(h, F))) = {q \in {F[p] : p \in PartsOf(h)} : ~IsEmptyPart(q)}
  BY MappedCuts
<1>2. PartsOf(h) \subseteq PartSet
  BY PartsOfMessages DEF Conversation
<1>3. k # NoTool
  BY DEF NoTool
<1>4. PICK p \in PartsOf(h) : p.call = k /\ p.result = NoTool
  BY DEF HasBoth, Has
<1>5. PICK q \in PartsOf(h) : q.call = NoTool /\ q.result = k
  BY DEF HasBoth, Has
<1>6. /\ F[p].call = k /\ F[p].result = NoTool /\ F[q].call = NoTool /\ F[q].result = k
  <2>1. F[p].call = p.call /\ F[p].result = p.result
    BY <1>2, <1>4
  <2>2. F[q].call = q.call /\ F[q].result = q.result
    BY <1>2, <1>5
  <2> QED
    BY <1>4, <1>5, <2>1, <2>2
<1>7. ~IsEmptyPart(F[p]) /\ ~IsEmptyPart(F[q])
  BY <1>3, <1>6 DEF IsEmptyPart
<1> QED
  BY <1>1, <1>6, <1>7 DEF HasBoth, Has

\* A message of one part that the cutter leaves stays.
LEMMA MappedMessage ==
    ASSUME NEW h, Conversation(h), NEW F, Cutter(F), NEW m \in ToSet(h), NEW x \in PartSet,
           m.parts = <<x>>, F[x] = x, ~IsEmptyPart(x)
    PROVE  m \in ToSet(Rewrite(h, Mapped(h, F)))
<1> DEFINE new == Mapped(h, F)
<1>1. h \in Seq(Messages) /\ F \in [PartSet -> PartSet] /\ m \in Messages /\ DOMAIN h = 1 .. Len(h)
  BY Elements DEF Conversation, Cutter
<1>2. new \in Seq(Seq(PartSet)) /\ Len(new) = Len(h)
  BY <1>1, MappedType
<1>3. PICK i \in 1 .. Len(h) : h[i] = m
  BY <1>1, Elements
<1>4. new[i] = [j \in DOMAIN <<x>> |-> F[<<x>>[j]]]
  BY <1>1, <1>3 DEF Mapped
<1> HIDE DEF new
<1>5. new[i] = <<x>>
  BY <1>4
<1>6. WithParts(h[i], new[i]) = m /\ m.parts # <<>>
  BY <1>1, <1>3, <1>5, OnePartUnchanged
<1>7. WithParts(h[i], new[i]).parts # <<>>
  BY <1>6
<1>8. WithParts(h[i], new[i]) \in ToSet(Rewrite(h, new))
  BY <1>1, <1>2, <1>7, RewriteParts
<1> QED
  BY <1>6, <1>8 DEF new

LEMMA GreatestOf ==
    ASSUME NEW N \in Nat, NEW K \in SUBSET (1 .. N), K # {}
    PROVE  \E m \in K : \A k \in K : k <= m
<1> DEFINE T == {n \in Nat : n <= N => (\E m \in K : \A k \in K : k <= m) \/ \A k \in K : k <= N - n}
<1>1. 0 \in T
  <2>1. \A k \in K : k \in Int /\ k <= N - 0
    OBVIOUS
  <2> QED
    BY <2>1
<1>2. ASSUME NEW n \in Nat, n \in T PROVE n + 1 \in T
  <2>1. SUFFICES ASSUME n + 1 <= N, ~\E m \in K : \A k \in K : k <= m
                 PROVE  \A k \in K : k <= N - (n + 1)
    OBVIOUS
  <2>2. \A k \in K : k <= N - n
    BY <1>2, <2>1
  <2>3. N - n \notin K
    BY <2>1, <2>2
  <2> QED
    BY <2>2, <2>3
<1>3. N \in T
  <2> HIDE DEF T
  <2> QED
    BY <1>1, <1>2, InductionOnSets
<1>4. ~\A k \in K : k <= N - N
  <2>1. PICK k \in K : TRUE
    OBVIOUS
  <2>2. k \in 1 .. N /\ N - N = 0
    OBVIOUS
  <2> QED
    BY <2>2
<1> QED
  BY <1>3, <1>4

LEMMA PartStays ==
    ASSUME StepAssumption, NEW h \in Seq(Messages), NEW content \in DiskOf,
           NEW f, f \notin Replaced(h, content), NEW p \in PartsOf(h), FilePathsForPart(p) = {f}
    PROVE  p \in PartsOf(ReplaceFileParts(h, content))
<1>1. CASE Replaced(h, content) = {}
  BY <1>1 DEF ReplaceFileParts
<1>2. CASE Replaced(h, content) # {}
  <2> DEFINE gs == Pieces(h, content)
  <2> DEFINE gone == UNION {References(h, g) : g \in Replaced(h, content)}
  <2>1. PICK i \in 1 .. Len(h) : p \in ToSet(h[i].parts)
    BY PartsOfMessages
  <2>2. PICK j \in DOMAIN h[i].parts : p = h[i].parts[j]
    BY <2>1 DEF ToSet
  <2>3. PathsOf(h[i], j) = {f}
    BY <2>2 DEF PathsOf
  <2>4. <<i, j>> \notin gone
    <3>1. ASSUME NEW g \in Replaced(h, content), <<i, j>> \in References(h, g) PROVE FALSE
      <4>1. g \in PathsOf(h[<<i, j>>[1]], <<i, j>>[2])
        BY <3>1 DEF References
      <4> QED
        BY <2>3, <3>1, <4>1
    <3> QED
      BY <3>1
  <2>5. PICK x \in ToSet(MessageLeft(h, content, i)) : p \in ToSet(x.parts)
    BY <2>2, <2>4, LeftOfMessage
  <2>6. /\ gs \in Seq(Seq(Messages)) /\ Len(gs) = Len(h) /\ ReplaceFileParts(h, content) = Flat(gs)
        /\ ToSet(gs[i]) = ToSet(MessageLeft(h, content, i)) \cup ToSet(Inserted(h, content, i))
    BY <1>2, PieceElements
  <2> HIDE DEF gs
  <2>7. DOMAIN gs = 1 .. Len(h) /\ ToSet(Flat(gs)) = UNION {ToSet(gs[k]) : k \in DOMAIN gs} /\ Flat(gs) \in Seq(Messages)
    BY <2>6, Elements, FlatElements, FlatType
  <2>8. x \in ToSet(Flat(gs))
    BY <2>5, <2>6, <2>7
  <2> QED
    BY <2>5, <2>6, <2>7, <2>8, PartsOfMessages
<1> QED
  BY <1>1, <1>2

LEMMA UnreplacedHas ==
    ASSUME StepAssumption, NEW h \in Seq(Messages), NEW content \in DiskOf,
           NEW f, f \notin Replaced(h, content), NEW k \in FileCalls(f), HasBoth(h, k)
    PROVE  HasBoth(ReplaceFileParts(h, content), k)
<1>1. NoTool.tool \notin FileTools
  BY DEF NoTool, FileTools
<1>2. ASSUME NEW p \in PartsOf(h),
             (p.call = k /\ p.result = NoTool) \/ (p.call = NoTool /\ p.result = k)
      PROVE  p \in PartsOf(ReplaceFileParts(h, content))
  <2>1. {d \in {p.call, p.result} : d.tool \in FileTools} = {k}
    BY <1>1, <1>2 DEF FileCalls
  <2>2. FilePathsForPart(p) = {f}
    BY <2>1 DEF FilePathsForPart, FileCalls
  <2> QED
    BY <2>2, PartStays
<1>3. Has(ReplaceFileParts(h, content), k, NoTool)
  BY <1>2 DEF HasBoth, Has
<1>4. Has(ReplaceFileParts(h, content), NoTool, k)
  BY <1>2 DEF HasBoth, Has
<1> QED
  BY <1>3, <1>4 DEF HasBoth

LEMMA ReplacedInserted ==
    ASSUME StepAssumption, NEW h \in Seq(Messages), NEW content \in DiskOf, NEW f \in Replaced(h, content)
    PROVE  CompactedFile(f, content[f]) \in ToSet(ReplaceFileParts(h, content))
<1> DEFINE gs == Pieces(h, content)
<1> DEFINE K == {r[1] : r \in References(h, f)}
<1>1. Len(h) \in Nat /\ DOMAIN h = 1 .. Len(h)
  BY Elements
<1>2. K \in SUBSET (1 .. Len(h)) /\ K # {}
  <2>1. \A r \in References(h, f) : r[1] \in DOMAIN h
    BY DEF References
  <2>2. References(h, f) # {}
    BY DEF Replaced
  <2> QED
    BY <1>1, <2>1, <2>2
<1>3. PICK m \in K : \A k \in K : k <= m
  <2> HIDE DEF K
  <2> QED
    BY <1>1, <1>2, GreatestOf
<1> DEFINE i == LastMention(h, f)
<1>4. i \in 1 .. Len(h)
  <2>1. m \in DOMAIN h /\ (\E r \in References(h, f) : r[1] = m) /\ \A r \in References(h, f) : r[1] <= m
    BY <1>1, <1>2, <1>3
  <2>2. i \in DOMAIN h
    BY <2>1 DEF LastMention
  <2> QED
    BY <1>1, <2>2
<1>5. CompactedFile(f, content[f]) \in ToSet(Inserted(h, content, i))
  BY InsertedFiles
<1> HIDE DEF i
<1>6. /\ gs \in Seq(Seq(Messages)) /\ Len(gs) = Len(h) /\ ReplaceFileParts(h, content) = Flat(gs)
      /\ ToSet(gs[i]) = ToSet(MessageLeft(h, content, i)) \cup ToSet(Inserted(h, content, i))
  BY <1>4, PieceElements
<1> HIDE DEF gs
<1>7. DOMAIN gs = 1 .. Len(h) /\ ToSet(Flat(gs)) = UNION {ToSet(gs[k]) : k \in DOMAIN gs}
  BY <1>6, Elements, FlatElements
<1> QED
  BY <1>4, <1>5, <1>6, <1>7

\* What is nothing but text no step touches.
LEMMA TextUntouched ==
    ASSUME NEW x \in PartSet, x.call = NoTool, x.result = NoTool, x.out = 0, NEW KC, NEW KR
    PROVE  Strip(KC, KR)[x] = x /\ ClipPart[x] = x
<1>1. [x EXCEPT !.call = NoTool, !.result = NoTool, !.out = 0] = x
  BY DEF PartSet
<1>2. Stripped(x, x.call \in KC, x.result \in KR) = [x EXCEPT !.call = NoTool, !.result = NoTool, !.out = 0]
  BY DEF Stripped
<1>3. Strip(KC, KR)[x] = x
  BY <1>1, <1>2 DEF Strip
<1>4. NoTool.tool # "runBash"
  BY DEF NoTool
<1>5. ClipPart[x] = [x EXCEPT !.out = x.out]
  BY <1>4 DEF ClipPart
<1>6. [x EXCEPT !.out = x.out] = x
  BY DEF PartSet
<1> QED
  BY <1>3, <1>5, <1>6

\* What no step but the first can take away: calls of files with their results,
\* and the files themselves.
Stays(h, g) ==
    /\ \A f \in Nat : \A k \in FileCalls(f) : HasBoth(h, k) => HasBoth(g, k)
    /\ \A f, length \in Nat : CompactedFile(f, length) \in ToSet(h) => CompactedFile(f, length) \in ToSet(g)

LEMMA MappedStays ==
    ASSUME NEW h, Conversation(h), NEW F, Cutter(F),
           \A f \in Nat : \A k \in FileCalls(f) : HasBoth(h, k) => \A p \in PartSet :
              (p.call = k /\ p.result = NoTool) \/ (p.call = NoTool /\ p.result = k)
                 => F[p].call = p.call /\ F[p].result = p.result,
           \A x \in PartSet : x.call = NoTool /\ x.result = NoTool /\ x.out = 0 => F[x] = x
    PROVE  Stays(h, Rewrite(h, Mapped(h, F)))
<1> DEFINE g == Rewrite(h, Mapped(h, F))
<1>1. ASSUME NEW f \in Nat, NEW k \in FileCalls(f), HasBoth(h, k) PROVE HasBoth(g, k)
  <2>1. k \in Calls /\ k.id # 0
    BY DEF FileCalls
  <2>2. \A p \in PartSet :
           (p.call = k /\ p.result = NoTool) \/ (p.call = NoTool /\ p.result = k)
              => F[p].call = p.call /\ F[p].result = p.result
    BY <1>1
  <2> QED
    BY <1>1, <2>1, <2>2, MappedHas
<1>2. ASSUME NEW f \in Nat, NEW length \in Nat, CompactedFile(f, length) \in ToSet(h)
      PROVE  CompactedFile(f, length) \in ToSet(g)
  <2> DEFINE m == CompactedFile(f, length)
  <2> DEFINE x == [Empty EXCEPT !.text = length + 1]
  <2>1. m \in ToSet(h) /\ m.parts = <<x>>
    BY <1>2, FileMessage
  <2>2. x = [text |-> length + 1, reason |-> 0, call |-> NoTool, result |-> NoTool, out |-> 0]
    BY DEF Empty
  <2>3. NoTool \in Calls
    BY DEF NoTool, Calls, ToolNames
  <2>4. x \in PartSet /\ x.call = NoTool /\ x.result = NoTool /\ x.out = 0 /\ x.text = length + 1
    BY <2>2, <2>3 DEF PartSet
  <2> HIDE DEF x, m
  <2>5. ~IsEmptyPart(x)
    BY <2>4 DEF IsEmptyPart
  <2>6. F[x] = x
    BY <2>4
  <2> QED
    BY <2>1, <2>4, <2>5, <2>6, MappedMessage DEF m
<1> QED
  BY <1>1, <1>2 DEF Stays

LEMMA StripLeaves ==
    ASSUME NEW KC, NEW KR, NEW p \in PartSet,
           p.call \in KC \/ p.call = NoTool, p.result \in KR \/ p.result = NoTool
    PROVE  Strip(KC, KR)[p].call = p.call /\ Strip(KC, KR)[p].result = p.result
<1>1. Strip(KC, KR)[p] = Stripped(p, p.call \in KC, p.result \in KR)
  BY DEF Strip
<1> QED
  BY <1>1 DEF Stripped, PartSet

LEMMA KeepLastTodoStays ==
    ASSUME NEW h, Conversation(h)
    PROVE  Stays(h, KeepLastTodo(h)) /\ EstimateSize(KeepLastTodo(h)) <= EstimateSize(h)
<1>1. h \in Seq(Messages)
  BY DEF Conversation
<1>2. ASSUME NEW ids
      PROVE  /\ Stays(h, KeepOnly(h, TodoTools, ids))
             /\ EstimateSize(KeepOnly(h, TodoTools, ids)) <= EstimateSize(h)
  <2> DEFINE KC == {c \in Calls : c.tool \notin TodoTools \/ c.id \in ids}
  <2> DEFINE F == Strip(KC, KC)
  <2>1. KeepOnly(h, TodoTools, ids) = Rewrite(h, Mapped(h, F))
    BY <1>1, KeepOnlyStrips
  <2>2. \A f : \A k \in FileCalls(f) : k \in KC
    BY DEF FileCalls, FileTools, TodoTools
  <2> HIDE DEF KC
  <2>3. Cutter(F)
    BY StripCutter
  <2>4. \A f \in Nat : \A k \in FileCalls(f) : HasBoth(h, k) => \A p \in PartSet :
           (p.call = k /\ p.result = NoTool) \/ (p.call = NoTool /\ p.result = k)
              => F[p].call = p.call /\ F[p].result = p.result
    BY <2>2, StripLeaves
  <2>5. \A x \in PartSet : x.call = NoTool /\ x.result = NoTool /\ x.out = 0 => F[x] = x
    BY TextUntouched
  <2>6. \A p \in PartSet : PartLength(F[p]) <= PartLength(p)
    BY StripShortens
  <2> HIDE DEF F
  <2>7. F \in [PartSet -> PartSet]
    BY <2>3 DEF Cutter
  <2> QED
    BY <1>1, <2>1, <2>3, <2>4, <2>5, <2>6, <2>7, MappedStays, RewriteShorter
<1>3. Stays(h, h) /\ EstimateSize(h) <= EstimateSize(h)
  BY <1>1, SizesType DEF Stays
<1> QED
  BY <1>2, <1>3 DEF KeepLastTodo

LEMMA ClipStays ==
    ASSUME StepAssumption, NEW h, Conversation(h)
    PROVE  Stays(h, ClipRunBashResponses(h)) /\ EstimateSize(ClipRunBashResponses(h)) <= EstimateSize(h)
<1>1. h \in Seq(Messages)
  BY DEF Conversation
<1> DEFINE F == ClipPart
<1>2. ClipRunBashResponses(h) = Rewrite(h, Mapped(h, F)) /\ Cutter(F)
  BY <1>1, ClipIsMapped, ClipCutter
<1>3. \A p \in PartSet : F[p].call = p.call /\ F[p].result = p.result
  BY DEF ClipPart, PartSet
<1>4. \A x \in PartSet : x.call = NoTool /\ x.result = NoTool /\ x.out = 0 => F[x] = x
  BY TextUntouched
<1>5. \A p \in PartSet : PartLength(F[p]) <= PartLength(p)
  BY ClipShortens
<1> HIDE DEF F
<1>6. F \in [PartSet -> PartSet]
  BY <1>2 DEF Cutter
<1> QED
  BY <1>1, <1>2, <1>3, <1>4, <1>5, <1>6, MappedStays, RewriteShorter

LEMMA PairsStays ==
    ASSUME NEW h, Conversation(h)
    PROVE  Stays(h, EnsureToolCallResponsePairs(h))
<1>1. h \in Seq(Messages)
  BY DEF Conversation
<1> DEFINE KC == {c \in Calls : c.id \in AnsweredIDs(h)}
<1> DEFINE KR == {c \in Calls : c.id \in CalledIDs(h)}
<1> DEFINE F == Strip(KC, KR)
<1>2. EnsureToolCallResponsePairs(h) = Rewrite(h, Mapped(h, F))
  BY <1>1, PairsStrips
<1>3. \A f : \A k \in FileCalls(f) : HasBoth(h, k) => k \in KC /\ k \in KR
  BY DEF FileCalls, HasBoth, Has, CalledIDs, AnsweredIDs
<1> HIDE DEF KC, KR
<1>4. Cutter(F)
  BY StripCutter
<1>5. \A f \in Nat : \A k \in FileCalls(f) : HasBoth(h, k) => \A p \in PartSet :
         (p.call = k /\ p.result = NoTool) \/ (p.call = NoTool /\ p.result = k)
            => F[p].call = p.call /\ F[p].result = p.result
  BY <1>3, StripLeaves
<1>6. \A x \in PartSet : x.call = NoTool /\ x.result = NoTool /\ x.out = 0 => F[x] = x
  BY TextUntouched
<1> HIDE DEF F
<1> QED
  BY <1>2, <1>4, <1>5, <1>6, MappedStays

\* While the first step leaves the conversation short enough, every file is
\* still there, or still called for.
LEMMA FilesStay ==
    ASSUME StepAssumption, NEW h, Conversation(h), NEW n \in Nat, Answered(h, n), NEW content \in DiskOf,
           ~IsAboveThreshold(ReplaceFileParts(h, content)), NEW f \in Files, References(h, f) # {}
    PROVE  LET z == CompactedMessages(h, content)
           IN  \/ References(z, f) # {}
               \/ CompactedFile(f, content[f]) \in ToSet(z) /\ content[f] # UnreadableFile
<1> DEFINE a == ReplaceFileParts(h, content)
<1> DEFINE b == KeepLastTodo(a)
<1> DEFINE c == ClipRunBashResponses(b)
<1> DEFINE z == EnsureToolCallResponsePairs(c)
<1> HIDE DEF a, b, c, z
<1>1. Conversation(a)
  BY ReplaceCuts DEF a, Cuts
<1>2. Conversation(b)
  BY <1>1, KeepLastTodoCuts DEF b, Cuts
<1>3. Conversation(c)
  BY <1>2, ClipCuts DEF c, Cuts
<1>4. Conversation(z)
  BY <1>3, PairsCuts DEF z, Cuts
<1>5. Stays(a, b) /\ EstimateSize(b) <= EstimateSize(a)
  BY <1>1, KeepLastTodoStays DEF b
<1>6. Stays(b, c) /\ EstimateSize(c) <= EstimateSize(b)
  BY <1>2, ClipStays DEF c
<1>7. Stays(c, z)
  BY <1>3, PairsStays DEF z
<1>8. ~IsAboveThreshold(c)
  <2>1. EstimateSize(a) \in Nat /\ EstimateSize(b) \in Nat /\ EstimateSize(c) \in Nat
    BY <1>1, <1>2, <1>3, SizesType DEF Conversation
  <2>2. Limit \in Nat /\ ~(10 * EstimateSize(a) > 8 * Limit)
    BY DEF IsAboveThreshold, StepAssumption, a
  <2> DEFINE x == EstimateSize(a)
  <2> DEFINE y == EstimateSize(c)
  <2>3. x \in Nat /\ y \in Nat /\ y <= x /\ ~(10 * x > 8 * Limit)
    BY <1>5, <1>6, <2>1, <2>2
  <2> HIDE DEF x, y
  <2>4. ~(10 * y > 8 * Limit)
    BY <2>2, <2>3
  <2> QED
    BY <2>4 DEF IsAboveThreshold, y
<1>9. CompactedMessages(h, content) = z
  <2>1. PruneGrepFind(c) = c
    BY <1>8 DEF PruneGrepFind
  <2>2. TrimAssistantThinking(c) = c
    BY <1>8 DEF TrimAssistantThinking
  <2>3. DropOldMessages(c) = c
    BY <1>8 DEF DropOldMessages
  <2>4. DropOldCompactedMessages(c) = c
    BY <1>8 DEF DropOldCompactedMessages
  <2>5. PruneGrepFind(ClipRunBashResponses(KeepLastTodo(ReplaceFileParts(h, content)))) = c
    BY <2>1 DEF a, b, c
  <2> QED
    BY <2>2, <2>3, <2>4, <2>5 DEF CompactedMessages, z
<1>10. f \in Nat /\ content[f] \in Nat \cup {-1} /\ h \in Seq(Messages) /\ z \in Seq(Messages)
  BY <1>4 DEF Files, StepAssumption, DiskOf, Conversation
<1>11. CASE f \in Replaced(h, content)
  <2>1. content[f] # UnreadableFile
    BY <1>11 DEF Replaced
  <2>2. content[f] \in Nat
    BY <1>10, <2>1 DEF UnreadableFile
  <2>3. CompactedFile(f, content[f]) \in ToSet(a)
    BY <1>10, <1>11, ReplacedInserted DEF a
  <2>4. CompactedFile(f, content[f]) \in ToSet(z)
    BY <1>5, <1>6, <1>7, <1>10, <2>2, <2>3 DEF Stays
  <2> QED
    BY <1>9, <2>1, <2>4
<1>12. CASE f \notin Replaced(h, content)
  <2>1. PICK k \in FileCalls(f) : HasBoth(h, k)
    BY <1>10, ReferredAnswered
  <2>2. HasBoth(a, k)
    BY <1>10, <1>12, <2>1, UnreplacedHas DEF a
  <2>3. HasBoth(z, k)
    BY <1>5, <1>6, <1>7, <1>10, <2>2 DEF Stays
  <2>4. References(z, f) # {}
    BY <1>10, <2>3, HasIsReferred
  <2> QED
    BY <1>9, <2>4
<1> QED
  BY <1>11, <1>12

-----------------------------------------------------------------------------
(* The conversation, compacted whenever and as often as it is.             *)

IInv ==
    /\ Conversation(history) /\ Answered(history, calls)
    /\ disk \in DiskOf /\ calls \in Nat /\ given \in Nat
    /\ StepsKeepPrompts
    /\ StepsKeepFiles

LEMMA PairIsConcat ==
    ASSUME NEW m \in Messages, NEW b \in Messages
    PROVE  <<m, b>> = <<m>> \o <<b>> /\ <<m>> \in Seq(Messages) /\ <<b>> \in Seq(Messages)
<1>1. <<m>> \in Seq(Messages) /\ <<b>> \in Seq(Messages)
  OBVIOUS
<1>2. <<m, b>> = Append(<<m>>, b)
  OBVIOUS
<1> QED
  BY <1>1, <1>2, AppendIsConcat

LEMMA InitInv ==
    ASSUME StepAssumption, StepsInit
    PROVE  IInv
<1> DEFINE t == [Empty EXCEPT !.text = 1]
<1> DEFINE s == StepMessage("system", <<t>>)
<1> DEFINE m == PromptMessage(1)
<1>1. m \in Messages /\ m.prompt = 1 /\ m.parts = <<t>> /\ t \in PartSet
  BY PromptParts
<1>2. s = [role |-> "system", parts |-> <<t>>, prompt |-> 0, file |-> 0]
  BY DEF StepMessage
<1>3. t.call = NoTool /\ t.result = NoTool
  BY DEF Empty
<1> HIDE DEF t, m
<1> DEFINE ps == <<t>>
<1>4. ps \in Seq(PartSet) /\ ToSet(ps) = {t}
  BY <1>1 DEF ToSet
<1> HIDE DEF ps
<1>5. s \in Messages /\ s.prompt = 0 /\ s.parts = ps
  <2>1. s = [role |-> "system", parts |-> ps, prompt |-> 0, file |-> 0]
    BY <1>2 DEF ps
  <2> QED
    BY <1>4, <2>1 DEF Messages
<1> HIDE DEF s
<1> DEFINE h == <<s, m>>
<1>6. h = <<s>> \o <<m>>
  BY <1>1, <1>5, PairIsConcat
<1> HIDE DEF h
<1>7. <<s>> \in Seq(Messages) /\ <<m>> \in Seq(Messages) /\ ToSet(<<s>>) = {s} /\ ToSet(<<m>>) = {m}
  BY <1>1, <1>5, OneMessage
<1>8. h \in Seq(Messages) /\ ToSet(h) = {s, m}
  <2>1. ToSet(<<s>> \o <<m>>) = ToSet(<<s>>) \cup ToSet(<<m>>) /\ <<s>> \o <<m>> \in Seq(Messages)
    BY <1>7, ToSetConcat, ConcatProperties
  <2> QED
    BY <1>6, <1>7, <2>1
<1>9. Conversation(h)
  BY <1>1, <1>5, <1>8 DEF Conversation, m
<1>10. PromptsOf(h) = <<1>>
  <2>1. PromptsOf(h) = PromptsOf(<<s>>) \o PromptsOf(<<m>>)
    BY <1>6, <1>7, PromptsConcat
  <2>2. PromptOf(s) = <<>> /\ PromptOf(m) = <<1>>
    BY <1>1, <1>5 DEF PromptOf
  <2>3. PromptsOf(<<s>>) = <<>> /\ PromptsOf(<<m>>) = <<1>>
    BY <1>1, <1>5, <2>2, PromptsOne
  <2>4. <<1>> \in Seq(Nat)
    OBVIOUS
  <2>5. <<>> \o <<1>> = <<1>>
    BY <2>4, ConcatEmptySeq
  <2> QED
    BY <2>1, <2>3, <2>5
<1>11. PartsOf(h) \subseteq {t}
  BY <1>1, <1>4, <1>5, <1>8, PartsOfMessages DEF ps
<1>12. Answered(h, 0)
  <2>1. \A p \in PartsOf(h) : p.call = NoTool /\ p.result = NoTool
    BY <1>3, <1>11
  <2>2. CalledIDs(h) = {} /\ AnsweredIDs(h) = {}
    BY <2>1 DEF CalledIDs, AnsweredIDs, NoTool
  <2> QED
    BY <2>1, <2>2 DEF Answered, Numbered
<1>13. history = h /\ disk \in [Files -> FileContents] /\ calls = 0 /\ given = 1 /\ before = <<>>
  BY DEF StepsInit, h, s, m, t
<1>14. disk \in DiskOf
  BY <1>13 DEF DiskOf, StepAssumption
<1>15. <<1>> = [i \in 1 .. 1 |-> i]
  OBVIOUS
<1>16. StepsKeepPrompts /\ StepsKeepFiles
  BY <1>10, <1>13, <1>15 DEF StepsKeepPrompts, StepsKeepFiles
<1> QED
  BY <1>9, <1>12, <1>13, <1>14, <1>16 DEF IInv

LEMMA CompactKeeps ==
    ASSUME StepAssumption, IInv, CompactMessages
    PROVE  IInv'
<1> DEFINE z == CompactedMessages(history, disk)
<1>1. /\ history' = z /\ before' = history /\ disk' = disk /\ calls' = calls /\ given' = given
  BY DEF CompactMessages
<1>2. Conversation(history) /\ Answered(history, calls) /\ disk \in DiskOf /\ calls \in Nat /\ given \in Nat
  BY DEF IInv
<1>3. Cuts(history, z)
  BY <1>2, CompactedCuts
<1>4. CalledIDs(z) = AnsweredIDs(z)
  <2> DEFINE results == PruneGrepFind(ClipRunBashResponses(KeepLastTodo(ReplaceFileParts(history, disk))))
  <2> DEFINE short == DropOldCompactedMessages(DropOldMessages(TrimAssistantThinking(results)))
  <2>1. Conversation(results)
    BY <1>2, ReplaceCuts, KeepLastTodoCuts, ClipCuts, PruneGrepFindCuts DEF Cuts
  <2>2. Conversation(short)
    <3> HIDE DEF results
    <3> QED
      BY <2>1, TrimCuts, DropOldMessagesCuts, DropOldCompactedCuts DEF Cuts
  <2>3. z = EnsureToolCallResponsePairs(short)
    BY DEF CompactedMessages
  <2> HIDE DEF short, z
  <2> QED
    BY <2>2, <2>3, PairsPaired
<1>5. \A f \in Files : ~IsAboveThreshold(ReplaceFileParts(history, disk)) /\ References(history, f) # {} =>
         \/ References(z, f) # {}
         \/ CompactedFile(f, disk[f]) \in ToSet(z) /\ disk[f] # UnreadableFile
  BY <1>2, FilesStay
<1> HIDE DEF z
<1>6. Answered(z, calls) /\ Conversation(z)
  BY <1>2, <1>3, <1>4, CutsAnswered DEF Cuts
<1>7. StepsKeepPrompts'
  BY <1>1, <1>3 DEF IInv, StepsKeepPrompts, Cuts
<1>8. \A m \in ToSet(z) : \E i \in DOMAIN z : z[i] = m
  BY DEF ToSet
<1>9. StepsKeepFiles'
  BY <1>1, <1>5, <1>8 DEF StepsKeepFiles
<1> QED
  BY <1>1, <1>2, <1>6, <1>7, <1>9 DEF IInv

LEMMA Extended ==
    ASSUME NEW h, Conversation(h), NEW t, Conversation(t)
    PROVE  /\ Conversation(h \o t) /\ PromptsOf(h \o t) = PromptsOf(h) \o PromptsOf(t)
           /\ PartsOf(h \o t) = PartsOf(h) \cup PartsOf(t)
<1> DEFINE g == h \o t
<1>1. h \in Seq(Messages) /\ t \in Seq(Messages)
  BY DEF Conversation
<1>2. g \in Seq(Messages) /\ ToSet(g) = ToSet(h) \cup ToSet(t)
  BY <1>1, ToSetConcat, ConcatProperties
<1>3. PromptsOf(g) = PromptsOf(h) \o PromptsOf(t)
  BY <1>1, PromptsConcat
<1> HIDE DEF g
<1>4. Conversation(g)
  BY <1>2 DEF Conversation
<1>5. ASSUME NEW p PROVE p \in PartsOf(g) <=> p \in PartsOf(h) \/ p \in PartsOf(t)
  <2>1. p \in PartsOf(g) <=> \E m \in ToSet(g) : p \in ToSet(m.parts)
    BY <1>2, PartsOfMessages
  <2>2. p \in PartsOf(h) <=> \E m \in ToSet(h) : p \in ToSet(m.parts)
    BY <1>1, PartsOfMessages
  <2>3. p \in PartsOf(t) <=> \E m \in ToSet(t) : p \in ToSet(m.parts)
    BY <1>1, PartsOfMessages
  <2> QED
    BY <1>2, <2>1, <2>2, <2>3
<1> QED
  BY <1>3, <1>4, <1>5 DEF g

\* Further calls, numbered from n + 1, with their results.
Adds(h, g, P, call, n, L) ==
    /\ PartsOf(g) = PartsOf(h) \cup P
    /\ \A k \in 1 .. L : call[k].id = n + k
    /\ \A p \in P : \/ p.call = NoTool /\ p.result = NoTool
                    \/ \E k \in 1 .. L : p.call = call[k] /\ p.result = NoTool
                    \/ \E k \in 1 .. L : p.call = NoTool /\ p.result = call[k]
    /\ \A k \in 1 .. L : (\E p \in P : p.call = call[k]) /\ \E p \in P : p.result = call[k]

LEMMA AnsweredMore ==
    ASSUME NEW h, NEW g, NEW P, NEW call, NEW n \in Nat, NEW L \in Nat,
           Answered(h, n), Adds(h, g, P, call, n, L)
    PROVE  Answered(g, n + L)
<1>0. /\ PartsOf(g) = PartsOf(h) \cup P
      /\ \A k \in 1 .. L : call[k].id = n + k
      /\ \A p \in P : \/ p.call = NoTool /\ p.result = NoTool
                      \/ \E k \in 1 .. L : p.call = call[k] /\ p.result = NoTool
                      \/ \E k \in 1 .. L : p.call = NoTool /\ p.result = call[k]
      /\ \A k \in 1 .. L : (\E p \in P : p.call = call[k]) /\ \E p \in P : p.result = call[k]
  BY DEF Adds
<1>1. NoTool.id = 0
  BY DEF NoTool
<1>2. \A p \in PartsOf(h) : Numbered(p, n)
  BY DEF Answered
<1>3. ASSUME NEW p \in PartsOf(g)
      PROVE  /\ \/ p.call = NoTool
                \/ p \in PartsOf(h) /\ p.call.id \in 1 .. n
                \/ \E k \in 1 .. L : p.call = call[k]
             /\ \/ p.result = NoTool
                \/ p \in PartsOf(h) /\ p.result.id \in 1 .. n
                \/ \E k \in 1 .. L : p.result = call[k]
             /\ p.call = NoTool \/ p.result = NoTool
  <2>1. CASE p \in P
    BY <1>0, <2>1
  <2>2. CASE p \in PartsOf(h)
    BY <1>2, <2>2 DEF Numbered
  <2> QED
    BY <1>0, <2>1, <2>2
<1>4. \A k \in 1 .. L : call[k].id \in 1 .. n + L
  BY <1>0
<1>5. ASSUME NEW p \in PartsOf(g) PROVE Numbered(p, n + L)
  <2>1. \A i : i \in 1 .. n => i \in 1 .. n + L
    OBVIOUS
  <2>2. p.call = NoTool \/ p.call.id \in 1 .. n + L
    BY <1>3, <1>4, <2>1
  <2>3. p.result = NoTool \/ p.result.id \in 1 .. n + L
    BY <1>3, <1>4, <2>1
  <2> QED
    BY <1>3, <2>2, <2>3 DEF Numbered
<1>6. ASSUME NEW p \in PartsOf(g), NEW q \in PartsOf(g), p.call.id = q.result.id PROVE p.call = q.result
  <2>1. \/ p.call = NoTool
        \/ p \in PartsOf(h) /\ p.call.id \in 1 .. n
        \/ \E k \in 1 .. L : p.call = call[k]
    BY <1>3
  <2>2. \/ q.result = NoTool
        \/ q \in PartsOf(h) /\ q.result.id \in 1 .. n
        \/ \E k \in 1 .. L : q.result = call[k]
    BY <1>3
  <2>3. CASE p.call = NoTool
    BY <1>0, <1>1, <1>6, <2>2, <2>3
  <2>4. CASE p \in PartsOf(h) /\ p.call.id \in 1 .. n
    <3>1. CASE q \in PartsOf(h)
      BY <1>6, <2>4, <3>1 DEF Answered
    <3>2. CASE q.result = NoTool
      BY <1>1, <1>6, <2>4, <3>2
    <3>3. CASE \E k \in 1 .. L : q.result = call[k]
      BY <1>0, <1>6, <2>4, <3>3
    <3> QED
      BY <2>2, <3>1, <3>2, <3>3
  <2>5. CASE \E k \in 1 .. L : p.call = call[k]
    <3>1. PICK k \in 1 .. L : p.call = call[k]
      BY <2>5
    <3>2. CASE q.result = NoTool
      BY <1>0, <1>1, <1>6, <3>1, <3>2
    <3>3. CASE q.result.id \in 1 .. n
      BY <1>0, <1>6, <3>1, <3>3
    <3>4. CASE \E j \in 1 .. L : q.result = call[j]
      <4>1. PICK j \in 1 .. L : q.result = call[j]
        BY <3>4
      <4>2. n + k = n + j
        BY <1>0, <1>6, <3>1, <4>1
      <4> QED
        BY <3>1, <4>1, <4>2
    <3> QED
      BY <2>2, <3>2, <3>3, <3>4
  <2> QED
    BY <2>1, <2>3, <2>4, <2>5
<1>7. ASSUME NEW x, x # 0 PROVE x \in CalledIDs(g) <=> x \in AnsweredIDs(g)
  <2>1. (x \in CalledIDs(h) <=> x \in AnsweredIDs(h))
    BY DEF Answered
  <2>2. x \in CalledIDs(g) <=> x \in CalledIDs(h) \/ \E k \in 1 .. L : x = call[k].id
    <3>1. x \in CalledIDs(g) <=> \E p \in PartsOf(h) \cup P : x = p.call.id
      BY <1>0, <1>7 DEF CalledIDs
    <3>2. x \in CalledIDs(h) <=> \E p \in PartsOf(h) : x = p.call.id
      BY <1>0, <1>7 DEF CalledIDs
    <3>3. (\E p \in P : x = p.call.id) <=> \E k \in 1 .. L : x = call[k].id
      BY <1>0, <1>1, <1>7
    <3> QED
      BY <3>1, <3>2, <3>3
  <2>3. x \in AnsweredIDs(g) <=> x \in AnsweredIDs(h) \/ \E k \in 1 .. L : x = call[k].id
    <3>1. x \in AnsweredIDs(g) <=> \E p \in PartsOf(h) \cup P : x = p.result.id
      BY <1>0, <1>7 DEF AnsweredIDs
    <3>2. x \in AnsweredIDs(h) <=> \E p \in PartsOf(h) : x = p.result.id
      BY <1>0, <1>7 DEF AnsweredIDs
    <3>3. (\E p \in P : x = p.result.id) <=> \E k \in 1 .. L : x = call[k].id
      BY <1>0, <1>1, <1>7
    <3> QED
      BY <3>1, <3>2, <3>3
  <2> QED
    BY <2>1, <2>2, <2>3
<1>8. CalledIDs(g) = AnsweredIDs(g)
  <2>1. 0 \notin CalledIDs(g) /\ 0 \notin AnsweredIDs(g)
    BY DEF CalledIDs, AnsweredIDs
  <2> QED
    BY <1>7, <2>1
<1> QED
  BY <1>5, <1>6, <1>8 DEF Answered

LEMMA PromptKeeps ==
    ASSUME StepAssumption, IInv, NewPrompt
    PROVE  IInv'
<1> DEFINE m == PromptMessage(given + 1)
<1>1. /\ history' = Append(history, m) /\ given' = given + 1 /\ before' = <<>> /\ disk' = disk /\ calls' = calls
  BY DEF NewPrompt
<1>2. /\ Conversation(history) /\ Answered(history, calls) /\ disk \in DiskOf /\ calls \in Nat /\ given \in Nat
      /\ PromptsOf(history) = [i \in 1 .. given |-> i]
  BY DEF IInv, StepsKeepPrompts
<1>3. /\ m \in Messages /\ m.prompt = given + 1 /\ m.parts = <<PromptPart>>
  BY <1>2, PromptParts DEF PromptPart
<1>4. m = PromptMessage(m.prompt)
  BY <1>3
<1> HIDE DEF m
<1> DEFINE t == <<m>>
<1>5. /\ t \in Seq(Messages) /\ ToSet(t) = {m} /\ PartsOf(t) = ToSet(m.parts) /\ PromptsOf(t) = PromptOf(m)
  BY <1>3, OneMessage, PromptsOne
<1>6. Append(history, m) = history \o t
  BY <1>2, <1>3, AppendIsConcat DEF Conversation
<1> HIDE DEF t
<1>7. Conversation(t)
  BY <1>4, <1>5 DEF Conversation
<1> DEFINE g == history \o t
<1>8. /\ Conversation(g) /\ PromptsOf(g) = PromptsOf(history) \o PromptsOf(t)
      /\ PartsOf(g) = PartsOf(history) \cup PartsOf(t)
  BY <1>2, <1>7, Extended
<1>14. history' = g
  BY <1>1, <1>6
<1> HIDE DEF g
<1>9. PromptsOf(t) = <<given + 1>>
  BY <1>2, <1>3, <1>5 DEF PromptOf
<1>10. [i \in 1 .. given |-> i] \o <<given + 1>> = [i \in 1 .. given + 1 |-> i]
  <2> DEFINE a == [i \in 1 .. given |-> i]
  <2> DEFINE z == [i \in 1 .. given + 1 |-> i]
  <2>1. /\ a \in Seq(Nat) /\ Len(a) = given /\ \A i \in 1 .. given : a[i] = i
    BY <1>2
  <2>2. /\ z \in Seq(Nat) /\ Len(z) = given + 1 /\ \A i \in 1 .. given + 1 : z[i] = i
    BY <1>2
  <2> HIDE DEF a, z
  <2> DEFINE w == Append(a, given + 1)
  <2>3. /\ w \in Seq(Nat) /\ Len(w) = given + 1 /\ w[given + 1] = given + 1
        /\ \A i \in 1 .. given : w[i] = i
    BY <1>2, <2>1, AppendProperties
  <2>4. w = a \o <<given + 1>>
    BY <1>2, <2>1, AppendIsConcat
  <2> HIDE DEF w
  <2>5. \A i \in 1 .. given + 1 : w[i] = z[i]
    BY <1>2, <2>2, <2>3
  <2>6. w = z
    BY <2>2, <2>3, <2>5, SeqEqual
  <2> QED
    BY <2>4, <2>6 DEF a, z
<1>11. StepsKeepPrompts'
  BY <1>1, <1>2, <1>8, <1>9, <1>10, <1>14 DEF StepsKeepPrompts
<1>12. Answered(g, calls)
  <2> DEFINE x == PromptPart
  <2>1. x.call = NoTool /\ x.result = NoTool
    BY DEF PromptPart, Empty
  <2>2. ToSet(<<x>>) = {x}
    BY DEF ToSet
  <2>3. PartsOf(t) = {x}
    BY <1>3, <1>5, <2>2
  <2> HIDE DEF x
  <2> DEFINE P == PartsOf(t)
  <2>4. \A p \in P : p.call = NoTool /\ p.result = NoTool
    BY <2>1, <2>3
  <2>5. PartsOf(g) = PartsOf(history) \cup P
    BY <1>8
  <2> HIDE DEF P
  <2> DEFINE call == <<>>
  <2> DEFINE L == 0
  <2>6. \A k \in 1 .. L : call[k].id = calls + k
    OBVIOUS
  <2>8. \A k \in 1 .. L : (\E p \in P : p.call = call[k]) /\ \E p \in P : p.result = call[k]
    OBVIOUS
  <2>9. \A p \in P : \/ p.call = NoTool /\ p.result = NoTool
                     \/ \E k \in 1 .. L : p.call = call[k] /\ p.result = NoTool
                     \/ \E k \in 1 .. L : p.call = NoTool /\ p.result = call[k]
    BY <2>4
  <2>10. L \in Nat /\ L = 0
    OBVIOUS
  <2> HIDE DEF call, L
  <2>11. Adds(history, g, P, call, calls, L)
    BY <2>5, <2>6, <2>8, <2>9 DEF Adds
  <2>7. Answered(g, calls + L)
    BY <1>2, <2>10, <2>11, AnsweredMore
  <2> QED
    BY <1>2, <2>7, <2>10
<1>13. StepsKeepFiles'
  BY <1>1 DEF StepsKeepFiles
<1> QED
  BY <1>1, <1>2, <1>8, <1>11, <1>12, <1>13, <1>14 DEF IInv

LEMMA EmptyIs == Empty \in PartSet /\ Empty.call = NoTool /\ Empty.result = NoTool
<1>1. NoTool \in Calls
  BY DEF NoTool, Calls, ToolNames
<1> QED
  BY <1>1 DEF Empty, PartSet

LEMMA PartIs ==
    ASSUME NEW text \in Nat, NEW reason \in Nat, NEW call \in Calls, NEW result \in Calls, NEW out \in Nat,
           NEW p, p = [text |-> text, reason |-> reason, call |-> call, result |-> result, out |-> out]
    PROVE  p \in PartSet /\ p.call = call /\ p.result = result
BY DEF PartSet

LEMMA RoundKeeps ==
    ASSUME StepAssumption, IInv, NEW round \in Rounds, NEW reason \in {0, 2}, Round(round, reason)
    PROVE  IInv'
<1> DEFINE L == Len(round)
<1> DEFINE call == [k \in 1 .. L |-> [id |-> calls + k, tool |-> round[k].tool, file |-> round[k].file]]
<1> DEFINE asked == [k \in 1 .. L |-> [Empty EXCEPT !.call = call[k]]]
<1> DEFINE row(k) == [Empty EXCEPT !.result = call[k], !.out = round[k].out]
<1> DEFINE answered == [k \in 1 .. L |-> row(k)]
<1> DEFINE x == [Empty EXCEPT !.text = 1, !.reason = reason]
<1> DEFINE ps == <<x>> \o asked
<1> DEFINE a == StepMessage("assistant", ps)
<1> DEFINE b == StepMessage("user", answered)
<1> DEFINE t == <<a, b>>
<1> DEFINE g == history \o t
<1>1. /\ L \in Nat /\ DOMAIN round = 1 .. L
      /\ \A k \in 1 .. L : round[k].tool \in STRING /\ round[k].file \in Nat /\ round[k].out \in Nat
  <2>1. round \in Seq([tool : STRING, file : Nat, out : Nat])
    BY DEF StepAssumption
  <2>2. L \in Nat /\ DOMAIN round = 1 .. L /\ \A k \in 1 .. L : round[k] \in [tool : STRING, file : Nat, out : Nat]
    BY <2>1, Elements
  <2> QED
    BY <2>2
<1>2. /\ history' = g /\ before' = <<>> /\ calls' = calls + L /\ given' = given
  BY <1>1 DEF Round
<1>3. disk' \in DiskOf
  <2>1. disk \in DiskOf /\ FileContents \subseteq Nat \cup {-1}
    BY DEF IInv, StepAssumption
  <2> DEFINE written == {round[k].file : k \in {i \in DOMAIN round : round[i].tool = "vfsWrite"}}
  <2>2. \E length \in FileContents \ {UnreadableFile} :
           disk' = [f \in Files |-> IF f \in written THEN length ELSE disk[f]]
    BY DEF Round
  <2> HIDE DEF written
  <2> QED
    BY <2>1, <2>2 DEF DiskOf
<1>4. /\ Conversation(history) /\ Answered(history, calls) /\ calls \in Nat /\ given \in Nat
      /\ PromptsOf(history) = [i \in 1 .. given |-> i]
  BY DEF IInv, StepsKeepPrompts
<1>5. NoTool \in Calls
  BY DEF NoTool, Calls, ToolNames
<1>6. \A k \in 1 .. L : call[k] \in Calls /\ call[k].id = calls + k
  BY <1>1, <1>4 DEF Calls, ToolNames
<1> HIDE DEF call
<1>7. x \in PartSet /\ x.call = NoTool /\ x.result = NoTool
  <2>1. reason \in Nat
    OBVIOUS
  <2> QED
    BY <2>1, EmptyIs DEF PartSet
<1> HIDE DEF x
<1>8. asked \in Seq(PartSet) /\ \A k \in 1 .. L : asked[k].call = call[k] /\ asked[k].result = NoTool
  <2>1. ASSUME NEW k \in 1 .. L
        PROVE  asked[k] \in PartSet /\ asked[k].call = call[k] /\ asked[k].result = NoTool
    <3>1. asked[k] = [text |-> 0, reason |-> 0, call |-> call[k], result |-> NoTool, out |-> 0]
      BY DEF Empty
    <3> QED
      BY <1>5, <1>6, <3>1, PartIs
  <2> QED
    BY <1>1, <2>1
<1>9. answered \in Seq(PartSet) /\ \A k \in 1 .. L : answered[k].result = call[k] /\ answered[k].call = NoTool
  <2>1. ASSUME NEW k \in 1 .. L
        PROVE  row(k) \in PartSet /\ row(k).result = call[k] /\ row(k).call = NoTool
    <3> DEFINE out == round[k].out
    <3> DEFINE p == row(k)
    <3>1. out \in Nat /\ call[k] \in Calls /\ 0 \in Nat
      BY <1>1, <1>6
    <3>2. p = [Empty EXCEPT !.result = call[k], !.out = out]
      OBVIOUS
    <3> HIDE DEF out, p
    <3>4. p \in PartSet /\ p.call = NoTool /\ p.result = call[k]
      BY <3>1, <3>2, EmptyIs DEF PartSet
    <3> QED
      BY <3>4 DEF p
  <2> HIDE DEF row
  <2> QED
    BY <1>1, <2>1
<1>10. ToSet(asked) = {asked[k] : k \in 1 .. L} /\ ToSet(answered) = {answered[k] : k \in 1 .. L}
  BY DEF ToSet
<1> HIDE DEF asked, answered
<1>11. ps \in Seq(PartSet) /\ ToSet(ps) = {x} \cup ToSet(asked)
  <2> DEFINE one == <<x>>
  <2>1. one \in Seq(PartSet) /\ ToSet(one) = {x}
    BY <1>7 DEF ToSet
  <2> HIDE DEF one
  <2>2. one \o asked \in Seq(PartSet) /\ ToSet(one \o asked) = ToSet(one) \cup ToSet(asked)
    BY <1>8, <2>1, ToSetConcat, ConcatProperties
  <2> QED
    BY <2>1, <2>2 DEF one
<1> HIDE DEF ps
<1>12. /\ a \in Messages /\ a.prompt = 0 /\ a.parts = ps
       /\ b \in Messages /\ b.prompt = 0 /\ b.parts = answered
  BY <1>9, <1>11 DEF StepMessage, Messages
<1> HIDE DEF a, b
<1> DEFINE P == {x} \cup ToSet(asked) \cup ToSet(answered)
<1>13. Conversation(t) /\ PromptsOf(t) = <<>> /\ PartsOf(t) = P
  <2>1. <<a>> \in Seq(Messages) /\ <<b>> \in Seq(Messages) /\ t = <<a>> \o <<b>>
    BY <1>12, PairIsConcat
  <2>2. /\ ToSet(<<a>>) = {a} /\ ToSet(<<b>>) = {b}
        /\ PartsOf(<<a>>) = ToSet(ps) /\ PartsOf(<<b>>) = ToSet(answered)
    BY <1>12, OneMessage
  <2> HIDE DEF t
  <2>3. Conversation(<<a>>) /\ Conversation(<<b>>)
    BY <1>12, <2>1, <2>2 DEF Conversation
  <2>4. PromptsOf(<<a>>) = <<>> /\ PromptsOf(<<b>>) = <<>>
    BY <1>12, <2>1, <2>2, PromptsNone
  <2>5. /\ Conversation(t) /\ PromptsOf(t) = <<>> \o <<>>
        /\ PartsOf(t) = PartsOf(<<a>>) \cup PartsOf(<<b>>)
    BY <2>1, <2>3, <2>4, Extended
  <2>6. <<>> \o <<>> = <<>>
    OBVIOUS
  <2> QED
    BY <1>11, <2>2, <2>5, <2>6
<1> HIDE DEF t
<1>14. /\ Conversation(g) /\ PromptsOf(g) = PromptsOf(history) \o PromptsOf(t)
       /\ PartsOf(g) = PartsOf(history) \cup P
  BY <1>4, <1>13, Extended
<1> HIDE DEF g
<1>15. PromptsOf(g) = PromptsOf(history)
  <2>1. PromptsOf(history) \in Seq(Nat)
    BY <1>4, NumbersType DEF Conversation
  <2> QED
    BY <1>13, <1>14, <2>1, ConcatEmptySeq
<1>16. /\ \A p \in P : \/ p.call = NoTool /\ p.result = NoTool
                       \/ \E k \in 1 .. L : p.call = call[k] /\ p.result = NoTool
                       \/ \E k \in 1 .. L : p.call = NoTool /\ p.result = call[k]
       /\ \A k \in 1 .. L : (\E p \in P : p.call = call[k]) /\ \E p \in P : p.result = call[k]
  BY <1>7, <1>8, <1>9, <1>10
<1> HIDE DEF P, L
<1>17. Answered(g, calls + L)
  <2>1. L \in Nat /\ \A k \in 1 .. L : call[k].id = calls + k
    BY <1>1, <1>6
  <2>2. Adds(history, g, P, call, calls, L)
    BY <1>14, <1>16, <2>1 DEF Adds
  <2> QED
    BY <1>4, <2>1, <2>2, AnsweredMore
<1>18. StepsKeepPrompts'
  BY <1>2, <1>4, <1>15 DEF StepsKeepPrompts
<1>19. StepsKeepFiles'
  BY <1>2 DEF StepsKeepFiles
<1> QED
  BY <1>1, <1>2, <1>3, <1>4, <1>14, <1>17, <1>18, <1>19 DEF IInv

LEMMA NextKeeps ==
    ASSUME StepAssumption, IInv, [StepsNext]_stepsVars
    PROVE  IInv'
<1>1. CASE NewPrompt
  BY <1>1, PromptKeeps
<1>2. CASE CompactMessages
  BY <1>2, CompactKeeps
<1>3. CASE \E round \in Rounds, reason \in {0, 2} : Round(round, reason)
  BY <1>3, RoundKeeps
<1>4. CASE UNCHANGED stepsVars
  BY <1>4 DEF stepsVars, IInv, StepsKeepPrompts, StepsKeepFiles
<1> QED
  BY <1>1, <1>2, <1>3, <1>4 DEF StepsNext

\* Compaction by steps: every prompt stays, in order; a call always has its
\* result; and while nothing had to go for length every file is there or called
\* for (compact.go, compact_helpers.go).
THEOREM StepsSound ==
    ASSUME StepAssumption
    PROVE  StepsSpec => []StepsKeep
<1>1. StepsInit => IInv
  BY InitInv
<1>2. IInv /\ [StepsNext]_stepsVars => IInv'
  BY NextKeeps
<1>3. IInv => StepsKeep
  BY DEF IInv, Answered, StepsKeep, StepsKeepPairs
<1> QED
  BY <1>1, <1>2, <1>3, PTL DEF StepsSpec
=============================================================================
