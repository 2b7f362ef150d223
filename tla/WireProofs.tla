----------------------------- MODULE WireProofs -----------------------------
(***************************************************************************)
(* What the providers are sent, for any replies, refusals and failures and *)
(* however many rounds, and what a session gets of a reply, however the    *)
(* provider cuts it into events and wherever the stream breaks off.        *)
(***************************************************************************)
EXTENDS ProviderReplies, SequenceLemmas, FiniteSetTheorems

Kinds == {"text", "think", "call", "result"}
Parts == Part(Kinds)

\* The identifiers of the parts of a kind.
IDs(s, kind) == {p.id : p \in {q \in ToSet(s) : q.is = kind}}

LEMMA IDsAre ==
    ASSUME NEW s, NEW kind, NEW x
    PROVE  x \in IDs(s, kind) <=> \E p \in ToSet(s) : p.is = kind /\ p.id = x
BY DEF IDs

LEMMA ElementsOf ==
    ASSUME NEW S, NEW s \in Seq(S)
    PROVE  /\ \A p \in ToSet(s) : p \in S /\ \E i \in DOMAIN s : s[i] = p
           /\ \A i \in DOMAIN s : s[i] \in ToSet(s) /\ s[i] \in S
<1>1. \A i \in DOMAIN s : s[i] \in S
  BY ElementOfSeq, LenProperties
<1> QED
  BY <1>1 DEF ToSet

LEMMA OneElement ==
    ASSUME NEW x
    PROVE  ToSet(<<x>>) = {x}
BY DEF ToSet

LEMMA NoElement == ToSet(<<>>) = {}
BY DEF ToSet

\* The parts of some kinds.
LEMMA OfParts ==
    ASSUME NEW s \in Seq(Parts), NEW kinds
    PROVE  Of(s, kinds) \in Seq(Parts) /\ ToSet(Of(s, kinds)) = {p \in ToSet(s) : p.is \in kinds}
<1> DEFINE K == {i \in DOMAIN s : s[i].is \in kinds}
<1>1. Of(s, kinds) = Kept(s, K)
  BY DEF Of, KeptIf
<1>2. Kept(s, K) \in Seq(Parts) /\ ToSet(Kept(s, K)) = {s[i] : i \in K}
  <2>1. K \in SUBSET DOMAIN s
    OBVIOUS
  <2> HIDE DEF K
  <2> QED
    BY <2>1, KeptElements
<1>3. {s[i] : i \in K} = {p \in ToSet(s) : p.is \in kinds}
  BY DEF ToSet
<1> QED
  BY <1>1, <1>2, <1>3

\* The parts of some kinds written as one.
LEMMA JoinedParts ==
    ASSUME NEW s \in Seq(Parts), NEW kinds
    PROVE  /\ Joined(s, kinds) \in Seq(Parts)
           /\ \A p \in ToSet(Joined(s, kinds)) : p.is \in kinds
<1> DEFINE r == Of(s, kinds)
<1>1. r \in Seq(Parts) /\ ToSet(r) = {p \in ToSet(s) : p.is \in kinds}
  BY OfParts
<1>2. Joined(s, kinds) = IF r = <<>> THEN <<>>
         ELSE <<[r[1] EXCEPT !.id = Flat([i \in DOMAIN r |-> r[i].id]), !.good = TRUE]>>
  BY DEF Joined
<1> HIDE DEF r
<1>3. CASE r = <<>>
  BY <1>2, <1>3, NoElement
<1>4. CASE r # <<>>
  <2> DEFINE ids == [i \in DOMAIN r |-> r[i].id]
  <2>1. /\ DOMAIN r = 1 .. Len(r) /\ Len(r) \in Nat /\ \A i \in DOMAIN r : r[i] \in Parts
        /\ 1 \in DOMAIN r
    BY <1>1, <1>4, LenProperties, ElementOfSeq, EmptySeq
  <2>2. ids \in Seq(Seq(Contents))
    <3>1. \A i \in 1 .. Len(r) : r[i].id \in Seq(Contents)
      BY <2>1 DEF Parts, Part
    <3>2. ids = [i \in 1 .. Len(r) |-> r[i].id]
      BY <2>1
    <3> QED
      BY <2>1, <3>1, <3>2
  <2>3. Flat(ids) \in Seq(Contents)
    BY <2>2, FlatType
  <2> HIDE DEF ids
  <2> DEFINE q == [r[1] EXCEPT !.id = Flat(ids), !.good = TRUE]
  <2>4. q \in Parts /\ q.is = r[1].is
    BY <2>1, <2>3 DEF Parts, Part
  <2>5. r[1].is \in kinds
    BY <1>1, <2>1, ElementsOf
  <2>6. Joined(s, kinds) = <<q>>
    BY <1>2, <1>4 DEF ids
  <2> HIDE DEF q
  <2> QED
    BY <2>4, <2>5, <2>6, OneElement
<1> QED
  BY <1>3, <1>4

\* The last part of some kinds.
LEMMA LastParts ==
    ASSUME NEW s \in Seq(Parts), NEW kinds
    PROVE  /\ LastOf(s, kinds) \in Seq(Parts)
           /\ \A p \in ToSet(LastOf(s, kinds)) : p \in ToSet(s) /\ p.is \in kinds
           /\ (\E p \in ToSet(s) : p.is \in kinds) => ToSet(LastOf(s, kinds)) # {}
<1> DEFINE r == Of(s, kinds)
<1>1. r \in Seq(Parts) /\ ToSet(r) = {p \in ToSet(s) : p.is \in kinds}
  BY OfParts
<1>2. LastOf(s, kinds) = IF r = <<>> THEN <<>> ELSE <<r[Len(r)]>>
  BY DEF LastOf
<1> HIDE DEF r
<1>3. CASE r = <<>>
  BY <1>1, <1>2, <1>3, NoElement
<1>4. CASE r # <<>>
  <2>1. Len(r) \in DOMAIN r
    BY <1>1, <1>4, LenProperties, EmptySeq
  <2>2. r[Len(r)] \in ToSet(r) /\ r[Len(r)] \in Parts
    BY <1>1, <2>1, ElementsOf
  <2> DEFINE q == r[Len(r)]
  <2>3. LastOf(s, kinds) = <<q>>
    BY <1>2, <1>4
  <2> HIDE DEF q
  <2> QED
    BY <1>1, <2>2, <2>3, OneElement DEF q
<1> QED
  BY <1>3, <1>4

LEMMA UnsignedParts ==
    ASSUME NEW s \in Seq(Parts)
    PROVE  /\ Unsigned(s) \in Seq(Parts)
           /\ \A p \in ToSet(Unsigned(s)) : \E q \in ToSet(s) : q.is = p.is /\ q.id = p.id
<1> DEFINE u(i) == [s[i] EXCEPT !.good = FALSE]
<1>1. DOMAIN s = 1 .. Len(s) /\ Len(s) \in Nat /\ \A i \in DOMAIN s : s[i] \in Parts /\ s[i] \in ToSet(s)
  BY LenProperties, ElementsOf
<1>2. \A i \in DOMAIN s : u(i) \in Parts /\ u(i).is = s[i].is /\ u(i).id = s[i].id
  BY <1>1 DEF Parts, Part
<1>3. Unsigned(s) = [i \in 1 .. Len(s) |-> u(i)]
  BY <1>1 DEF Unsigned
<1> HIDE DEF u
<1>4. Unsigned(s) \in Seq(Parts)
  BY <1>1, <1>2, <1>3
<1>5. ASSUME NEW p \in ToSet(Unsigned(s)) PROVE \E q \in ToSet(s) : q.is = p.is /\ q.id = p.id
  <2>1. PICK i \in 1 .. Len(s) : p = u(i)
    BY <1>3, <1>5 DEF ToSet
  <2> QED
    BY <1>1, <1>2, <2>1
<1> QED
  BY <1>4, <1>5

\* The identifiers of two sequences.
LEMMA IDsConcat ==
    ASSUME NEW s \in Seq(Parts), NEW t \in Seq(Parts), NEW kind
    PROVE  s \o t \in Seq(Parts) /\ IDs(s \o t, kind) = IDs(s, kind) \cup IDs(t, kind)
<1>1. s \o t \in Seq(Parts)
  BY ConcatProperties
<1>2. ToSet(s \o t) = ToSet(s) \cup ToSet(t)
  BY ToSetConcat
<1> QED
  BY <1>1, <1>2 DEF IDs

\* The identifiers of parts of other kinds.
LEMMA IDsNone ==
    ASSUME NEW s, NEW kind, \A p \in ToSet(s) : p.is # kind
    PROVE  IDs(s, kind) = {}
BY DEF IDs

-----------------------------------------------------------------------------
(* What the conversions send of a message.                                 *)

Roles == {"system", "user", "assistant"}
IsSent == [role : Roles \cup {"tool", "item"}, blocks : Seq(Parts)]
WireIDs(w, kind) == UNION {IDs(w[i].blocks, kind) : i \in DOMAIN w}

LEMMA OneSent ==
    ASSUME NEW role \in Roles \cup {"tool", "item"}, NEW blocks \in Seq(Parts), NEW kind
    PROVE  One(role, blocks) \in Seq(IsSent) /\ WireIDs(One(role, blocks), kind) = IDs(blocks, kind)
<1> DEFINE m == [role |-> role, blocks |-> blocks]
<1>1. m \in IsSent /\ m.blocks = blocks
  BY DEF IsSent
<1>2. One(role, blocks) = <<m>>
  BY DEF One
<1> HIDE DEF m
<1>3. DOMAIN <<m>> = {1} /\ <<m>>[1] = m /\ <<m>> \in Seq(IsSent)
  BY <1>1
<1> DEFINE w == <<m>>
<1>4. WireIDs(w, kind) = IDs(w[1].blocks, kind)
  <2> HIDE DEF w
  <2>1. DOMAIN w = {1}
    BY <1>3 DEF w
  <2> QED
    BY <2>1 DEF WireIDs
<1> QED
  BY <1>1, <1>2, <1>3, <1>4

LEMMA NoneSent ==
    ASSUME NEW kind
    PROVE  <<>> \in Seq(IsSent) /\ WireIDs(<<>>, kind) = {}
BY DEF WireIDs

\* What is sent of several messages has the identifiers of each.
LEMMA EachSent ==
    ASSUME NEW cs \in Seq(Seq(IsSent)), NEW kind
    PROVE  /\ Flat(cs) \in Seq(IsSent)
           /\ WireIDs(Flat(cs), kind) = UNION {WireIDs(cs[i], kind) : i \in DOMAIN cs}
<1>1. Flat(cs) \in Seq(IsSent)
  BY FlatType
<1>2. ToSet(Flat(cs)) = UNION {ToSet(cs[i]) : i \in DOMAIN cs}
  BY FlatElements
<1>3. \A w : WireIDs(w, kind) = UNION {IDs(m.blocks, kind) : m \in ToSet(w)}
  BY DEF WireIDs, ToSet
<1> HIDE DEF WireIDs
<1>4. WireIDs(Flat(cs), kind) = UNION {IDs(m.blocks, kind) : m \in ToSet(Flat(cs))}
  BY <1>3
<1> DEFINE u(m) == IDs(m.blocks, kind)
<1> HIDE DEF u
<1>5. UNION {u(m) : m \in UNION {ToSet(cs[i]) : i \in DOMAIN cs}}
        = UNION {UNION {u(m) : m \in ToSet(cs[i])} : i \in DOMAIN cs}
  OBVIOUS
<1> QED
  BY <1>1, <1>2, <1>3, <1>4, <1>5 DEF u

Message == [role : Roles, parts : Seq(Parts)]

\* A message of a session: a result is in no message with other parts, and the
\* system has neither calls nor results.
Proper(m) ==
    /\ m.role = "system" => IDs(m.parts, "call") = {} /\ IDs(m.parts, "result") = {}
    /\ IDs(m.parts, "result") # {} => \A p \in ToSet(m.parts) : p.is = "result"

\* A message with one call, or with the results of one.
Single(m) == \A x, y \in IDs(m.parts, "call") \cup IDs(m.parts, "result") : x = y

\* The conversion c of a message m sends its calls and results.
Sends(c, m) ==
    c \in Seq(IsSent) /\ \A kind \in {"call", "result"} : WireIDs(c, kind) = IDs(m.parts, kind)

LEMMA HasIDs ==
    ASSUME NEW s \in Seq(Parts), NEW kinds
    PROVE  Has(s, kinds) <=> \E p \in ToSet(s) : p.is \in kinds
BY ElementsOf DEF Has

\* One message that holds the calls and results of m.
LEMMA OneSends ==
    ASSUME NEW m, NEW c, NEW role \in Roles \cup {"tool", "item"}, NEW blocks \in Seq(Parts),
           c = One(role, blocks),
           \A kind \in {"call", "result"} : IDs(blocks, kind) = IDs(m.parts, kind)
    PROVE  Sends(c, m)
<1>1. c \in Seq(IsSent)
  BY OneSent
<1>2. ASSUME NEW kind \in {"call", "result"} PROVE WireIDs(c, kind) = IDs(m.parts, kind)
  <2>1. WireIDs(c, kind) = IDs(blocks, kind)
    BY OneSent
  <2> QED
    BY <2>1
<1> QED
  BY <1>1, <1>2 DEF Sends

LEMMA AnthropicSends ==
    ASSUME NEW m \in Message, Proper(m)
    PROVE  Sends(ToAnthropic(m), m)
<1>1. m.parts \in Seq(Parts) /\ m.role \in Roles \cup {"tool", "item"}
  BY DEF Message
<1>2. CASE m.role = "system"
  BY <1>2, NoneSent DEF ToAnthropic, Sends, Proper
<1>3. CASE m.role # "system" /\ Has(m.parts, {"think", "call", "result"})
  <2>1. ToAnthropic(m) = One(m.role, m.parts)
    BY <1>3 DEF ToAnthropic
  <2> QED
    BY <1>1, <2>1, OneSent DEF Sends
<1>4. CASE m.role # "system" /\ ~Has(m.parts, {"think", "call", "result"})
  <2> DEFINE t == Joined(m.parts, {"text"})
  <2>1. ToAnthropic(m) = One(m.role, t)
    BY <1>4 DEF ToAnthropic
  <2>2. t \in Seq(Parts) /\ \A p \in ToSet(t) : p.is = "text"
    BY <1>1, JoinedParts
  <2>3. \A p \in ToSet(m.parts) : p.is \notin {"call", "result"}
    BY <1>1, <1>4, HasIDs
  <2> HIDE DEF t
  <2>4. ASSUME NEW kind \in {"call", "result"} PROVE IDs(t, kind) = {} /\ IDs(m.parts, kind) = {}
    BY <2>2, <2>3, IDsNone
  <2>5. \A kind \in {"call", "result"} : IDs(t, kind) = IDs(m.parts, kind)
    BY <2>4
  <2> QED
    BY <1>1, <2>1, <2>2, <2>5, OneSends
<1> QED
  BY <1>2, <1>3, <1>4

LEMMA OllamaSends ==
    ASSUME NEW m \in Message, Proper(m), Single(m)
    PROVE  Sends(ToOllama(m), m)
<1> DEFINE s == m.parts
<1> DEFINE text == Joined(s, {"text"})
<1> DEFINE asked == Of(s, {"call"})
<1> DEFINE answers == Of(s, {"result"})
<1>1. s \in Seq(Parts) /\ m.role \in Roles \cup {"tool", "item"}
  BY DEF Message
<1>2. /\ text \in Seq(Parts) /\ \A p \in ToSet(text) : p.is = "text"
      /\ asked \in Seq(Parts) /\ ToSet(asked) = {p \in ToSet(s) : p.is \in {"call"}}
      /\ answers \in Seq(Parts) /\ ToSet(answers) = {p \in ToSet(s) : p.is \in {"result"}}
  BY <1>1, JoinedParts, OfParts
<1>3. ToOllama(m) = IF Has(s, {"call"}) THEN One(m.role, text \o asked)
                    ELSE IF Has(s, {"result"}) THEN One("tool", <<answers[1]>>)
                    ELSE One(m.role, text)
  BY DEF ToOllama
<1>n. ASSUME NEW kind \in {"call", "result"}, ~\E p \in ToSet(s) : p.is = kind PROVE IDs(s, kind) = {}
  BY <1>n, IDsNone
<1>t. ASSUME NEW kind \in {"call", "result"} PROVE IDs(text, kind) = {}
  BY <1>2, IDsNone
<1> HIDE DEF text, asked, answers
<1>4. CASE Has(s, {"call"})
  <2>1. PICK p \in ToSet(s) : p.is = "call"
    BY <1>1, <1>4, HasIDs
  <2>2. IDs(s, "result") = {}
    BY <2>1 DEF Proper
  <2>3. ASSUME NEW kind \in {"call", "result"} PROVE IDs(text \o asked, kind) = IDs(s, kind)
    <3>1. IDs(text \o asked, kind) = IDs(text, kind) \cup IDs(asked, kind)
      BY <1>2, IDsConcat
    <3>2. IDs(asked, "call") = IDs(s, "call") /\ IDs(asked, "result") = {}
      BY <1>2 DEF IDs
    <3> QED
      BY <1>t, <2>2, <3>1, <3>2
  <2>4. text \o asked \in Seq(Parts) /\ ToOllama(m) = One(m.role, text \o asked)
    BY <1>2, <1>3, <1>4, IDsConcat
  <2> DEFINE b == text \o asked
  <2> HIDE DEF b
  <2>5. /\ ToOllama(m) = One(m.role, b) /\ b \in Seq(Parts)
        /\ \A kind \in {"call", "result"} : IDs(b, kind) = IDs(s, kind)
    BY <2>3, <2>4 DEF b
  <2> QED
    BY <1>1, <2>5, OneSends
<1>5. CASE ~Has(s, {"call"}) /\ Has(s, {"result"})
  <2>1. PICK p \in ToSet(s) : p.is = "result"
    BY <1>1, <1>5, HasIDs
  <2>2. answers # <<>>
    BY <1>2, <2>1, NoElement
  <2>3. 1 \in DOMAIN answers
    BY <1>2, <2>2, LenProperties, EmptySeq
  <2> DEFINE a == answers[1]
  <2>4. a \in ToSet(s) /\ a.is = "result" /\ a \in Parts
    BY <1>2, <2>3, ElementsOf
  <2>5. ToOllama(m) = One("tool", <<a>>)
    BY <1>3, <1>5
  <2> HIDE DEF a
  <2>6. ToSet(<<a>>) = {a} /\ <<a>> \in Seq(Parts)
    BY <2>4, OneElement
  <2>7. IDs(<<a>>, "call") = {} /\ IDs(s, "call") = {}
    <3>1. \A q \in ToSet(s) : q.is # "call"
      BY <1>1, <1>5, HasIDs
    <3> QED
      BY <2>4, <2>6, <3>1, IDsNone
  <2>8. IDs(<<a>>, "result") = IDs(s, "result")
    <3>1. a.id \in IDs(s, "result") /\ IDs(<<a>>, "result") = {a.id}
      BY <2>4, <2>6 DEF IDs
    <3> QED
      BY <3>1 DEF Single
  <2> DEFINE b == <<a>>
  <2> HIDE DEF b
  <2>9. /\ ToOllama(m) = One("tool", b) /\ b \in Seq(Parts)
        /\ \A kind \in {"call", "result"} : IDs(b, kind) = IDs(s, kind)
    BY <2>5, <2>6, <2>7, <2>8 DEF b
  <2> QED
    BY <1>1, <2>9, OneSends
<1>6. CASE ~Has(s, {"call"}) /\ ~Has(s, {"result"})
  <2>1. \A p \in ToSet(s) : p.is # "call" /\ p.is # "result"
    BY <1>1, <1>6, HasIDs
  <2>2. \A kind \in {"call", "result"} : IDs(text, kind) = IDs(s, kind)
    BY <1>t, <2>1, IDsNone
  <2>3. ToOllama(m) = One(m.role, text)
    BY <1>3, <1>6
  <2> QED
    BY <1>1, <1>2, <2>2, <2>3, OneSends
<1> QED
  BY <1>4, <1>5, <1>6

LEMMA OpenAISends ==
    ASSUME NEW m \in Message, Proper(m), Single(m)
    PROVE  Sends(ToOpenAI(m), m)
<1> DEFINE s == m.parts
<1> DEFINE thought == Joined(s, {"think"})
<1> DEFINE thoughts == Unsigned(thought)
<1> DEFINE last == LastOf(s, {"text", "result"})
<1> DEFINE text == Joined(s, {"text"})
<1> DEFINE middle == IF Has(s, {"call", "result"}) THEN last ELSE text
<1> DEFINE asked == Of(s, {"call"})
<1> DEFINE role == IF Has(s, {"result"}) THEN "tool" ELSE m.role
<1> DEFINE b == thoughts \o middle \o asked
<1>1. s \in Seq(Parts) /\ m.role \in Roles \cup {"tool", "item"}
  BY DEF Message
<1>2. thought \in Seq(Parts) /\ \A p \in ToSet(thought) : p.is \in {"think"}
  BY <1>1, JoinedParts
<1>3. thoughts \in Seq(Parts) /\ \A p \in ToSet(thoughts) : p.is = "think"
  BY <1>2, UnsignedParts
<1>4. /\ last \in Seq(Parts)
      /\ \A p \in ToSet(last) : p \in ToSet(s) /\ p.is \in {"text", "result"}
      /\ (\E p \in ToSet(s) : p.is \in {"text", "result"}) => ToSet(last) # {}
  BY <1>1, LastParts
<1>5. text \in Seq(Parts) /\ \A p \in ToSet(text) : p.is \in {"text"}
  BY <1>1, JoinedParts
<1>6. asked \in Seq(Parts) /\ ToSet(asked) = {p \in ToSet(s) : p.is \in {"call"}}
  BY <1>1, OfParts
<1>7. ToOpenAI(m) = One(role, b) /\ role \in Roles \cup {"tool", "item"}
  BY <1>1 DEF ToOpenAI
<1> HIDE DEF thought, thoughts, last, text, asked, role
<1>8. middle \in Seq(Parts) /\ \A p \in ToSet(middle) : p.is \in {"text", "result"}
  BY <1>4, <1>5
<1>9. IDs(middle, "result") = IDs(s, "result")
  <2>1. CASE \E p \in ToSet(s) : p.is = "result"
    <3>1. PICK p \in ToSet(s) : p.is = "result"
      BY <2>1
    <3>2. Has(s, {"call", "result"}) /\ middle = last
      BY <1>1, <3>1, HasIDs
    <3>3. PICK q \in ToSet(last) : TRUE
      BY <1>4, <3>1
    <3>4. q \in ToSet(s) /\ q.is = "result"
      <4>1. IDs(s, "result") # {}
        BY <3>1 DEF IDs
      <4> QED
        BY <1>4, <3>3, <4>1 DEF Proper
    <3>5. q.id \in IDs(last, "result")
      BY <3>4, IDsAre
    <3>6. IDs(last, "result") \subseteq IDs(s, "result")
      BY <1>4 DEF IDs
    <3> HIDE DEF middle
    <3> QED
      BY <3>2, <3>5, <3>6 DEF Single
  <2>2. CASE ~\E p \in ToSet(s) : p.is = "result"
    <3>1. \A p \in ToSet(middle) : p.is # "result"
      BY <1>4, <1>5, <2>2
    <3> HIDE DEF middle
    <3> QED
      BY <2>2, <3>1, IDsNone
  <2> QED
    BY <2>1, <2>2
<1> HIDE DEF middle
<1>10. IDs(middle, "call") = {} /\ IDs(thoughts, "call") = {} /\ IDs(thoughts, "result") = {}
  BY <1>3, <1>8, IDsNone
<1>11. IDs(asked, "call") = IDs(s, "call") /\ IDs(asked, "result") = {}
  BY <1>6 DEF IDs
<1>12. ASSUME NEW kind \in {"call", "result"}
       PROVE  b \in Seq(Parts) /\ IDs(b, kind) = IDs(s, kind)
  <2>1. thoughts \o middle \in Seq(Parts) /\ IDs(thoughts \o middle, kind) = IDs(thoughts, kind) \cup IDs(middle, kind)
    BY <1>3, <1>8, IDsConcat
  <2> DEFINE a == thoughts \o middle
  <2> HIDE DEF a
  <2>2. a \o asked \in Seq(Parts) /\ IDs(a \o asked, kind) = IDs(a, kind) \cup IDs(asked, kind)
    BY <1>6, <2>1, IDsConcat DEF a
  <2>3. b = a \o asked
    BY DEF a
  <2> HIDE DEF b
  <2> QED
    BY <1>9, <1>10, <1>11, <2>1, <2>2, <2>3 DEF a
<1> HIDE DEF b
<1> QED
  BY <1>7, <1>12, OneSends

\* A part of its own for each.
LEMMA ItemsSent ==
    ASSUME NEW s \in Seq(Parts)
    PROVE  LET w == [i \in DOMAIN s |-> [role |-> "item", blocks |-> <<s[i]>>]]
           IN  w \in Seq(IsSent) /\ \A kind : WireIDs(w, kind) = IDs(s, kind)
<1> DEFINE u(i) == [role |-> "item", blocks |-> <<s[i]>>]
<1> DEFINE w == [i \in DOMAIN s |-> u(i)]
<1>1. DOMAIN s = 1 .. Len(s) /\ Len(s) \in Nat /\ \A i \in DOMAIN s : s[i] \in Parts
  BY LenProperties, ElementsOf
<1>2. ASSUME NEW i \in DOMAIN s PROVE u(i) \in IsSent /\ ToSet(u(i).blocks) = {s[i]}
  <2>1. s[i] \in Parts
    BY <1>1
  <2>2. u(i).blocks = <<s[i]>> /\ u(i).role = "item"
    OBVIOUS
  <2>3. <<s[i]>> \in Seq(Parts)
    BY <2>1
  <2> QED
    BY <2>2, <2>3, OneElement DEF IsSent
<1>3. w = [i \in 1 .. Len(s) |-> u(i)]
  BY <1>1
<1>4. w \in Seq(IsSent) /\ DOMAIN w = DOMAIN s /\ \A i \in DOMAIN s : w[i] = u(i)
  <2> HIDE DEF u, w
  <2>1. \A i \in 1 .. Len(s) : u(i) \in IsSent
    BY <1>1, <1>2
  <2> QED
    BY <1>1, <1>3, <2>1
<1> HIDE DEF w, u
<1>5. ASSUME NEW kind PROVE WireIDs(w, kind) = IDs(s, kind)
  <2>1. \A x : x \in WireIDs(w, kind) <=> \E i \in DOMAIN s : \E p \in ToSet(u(i).blocks) : p.is = kind /\ p.id = x
    BY <1>4, IDsAre DEF WireIDs
  <2>2. ASSUME NEW x
        PROVE  x \in WireIDs(w, kind) <=> \E i \in DOMAIN s : s[i].is = kind /\ s[i].id = x
    <3>1. ASSUME NEW i \in DOMAIN s
          PROVE  (\E p \in ToSet(u(i).blocks) : p.is = kind /\ p.id = x) <=> s[i].is = kind /\ s[i].id = x
      <4>1. ToSet(u(i).blocks) = {s[i]}
        BY <1>2
      <4> QED
        BY <4>1
    <3>2. x \in WireIDs(w, kind) <=> \E i \in DOMAIN s : \E p \in ToSet(u(i).blocks) : p.is = kind /\ p.id = x
      BY <2>1
    <3> QED
      BY <3>1, <3>2
  <2>3. \A x : x \in IDs(s, kind) <=> \E i \in DOMAIN s : s[i].is = kind /\ s[i].id = x
    BY IDsAre DEF ToSet
  <2> QED
    BY <2>2, <2>3
<1> QED
  BY <1>4, <1>5 DEF w, u

LEMMA WireConcat ==
    ASSUME NEW v \in Seq(IsSent), NEW w \in Seq(IsSent), NEW kind
    PROVE  v \o w \in Seq(IsSent) /\ WireIDs(v \o w, kind) = WireIDs(v, kind) \cup WireIDs(w, kind)
<1>1. v \o w \in Seq(IsSent)
  BY ConcatProperties
<1>2. ToSet(v \o w) = ToSet(v) \cup ToSet(w)
  BY ToSetConcat
<1>3. \A z : WireIDs(z, kind) = UNION {IDs(m.blocks, kind) : m \in ToSet(z)}
  BY DEF WireIDs, ToSet
<1> QED
  BY <1>1, <1>2, <1>3

LEMMA ResponsesSends ==
    ASSUME NEW m \in Message, Proper(m)
    PROVE  Sends(ToResponses(m), m)
<1> DEFINE s == m.parts
<1> DEFINE texts == Of(s, {"text"})
<1> DEFINE asked == Of(s, {"call"})
<1> DEFINE answers == Of(s, {"result"})
<1> DEFINE items == asked \o answers
<1> DEFINE front == IF texts = <<>> THEN <<>> ELSE One(m.role, texts)
<1> DEFINE back == [i \in DOMAIN items |-> [role |-> "item", blocks |-> <<items[i]>>]]
<1>1. s \in Seq(Parts) /\ m.role \in Roles \cup {"tool", "item"}
  BY DEF Message
<1>2. CASE m.role = "system"
  BY <1>2, NoneSent DEF ToResponses, Sends, Proper
<1>3. CASE m.role # "system"
  <2>1. ToResponses(m) = front \o back
    BY <1>3 DEF ToResponses
  <2>2. /\ texts \in Seq(Parts) /\ ToSet(texts) = {p \in ToSet(s) : p.is \in {"text"}}
        /\ asked \in Seq(Parts) /\ ToSet(asked) = {p \in ToSet(s) : p.is \in {"call"}}
        /\ answers \in Seq(Parts) /\ ToSet(answers) = {p \in ToSet(s) : p.is \in {"result"}}
    BY <1>1, OfParts
  <2> HIDE DEF texts, asked, answers
  <2>3. /\ items \in Seq(Parts) /\ IDs(items, "call") = IDs(s, "call") /\ IDs(items, "result") = IDs(s, "result")
    <3>1. /\ IDs(asked, "call") = IDs(s, "call") /\ IDs(asked, "result") = {}
          /\ IDs(answers, "result") = IDs(s, "result") /\ IDs(answers, "call") = {}
      BY <2>2 DEF IDs
    <3>2. items \in Seq(Parts) /\ \A kind : IDs(items, kind) = IDs(asked, kind) \cup IDs(answers, kind)
      BY <2>2, IDsConcat
    <3> HIDE DEF items
    <3> QED
      BY <3>1, <3>2
  <2> HIDE DEF items
  <2>4. back \in Seq(IsSent) /\ \A kind : WireIDs(back, kind) = IDs(items, kind)
    BY <2>3, ItemsSent
  <2>5. ASSUME NEW kind \in {"call", "result"} PROVE front \in Seq(IsSent) /\ WireIDs(front, kind) = {}
    <3>1. IDs(texts, kind) = {}
      BY <2>2, IDsNone
    <3>2. CASE texts = <<>>
      BY <3>2, NoneSent
    <3>3. CASE texts # <<>>
      BY <1>1, <2>2, <3>1, <3>3, OneSent
    <3> QED
      BY <3>2, <3>3
  <2> HIDE DEF front, back
  <2>6. ASSUME NEW kind \in {"call", "result"}
        PROVE  ToResponses(m) \in Seq(IsSent) /\ WireIDs(ToResponses(m), kind) = IDs(s, kind)
    <3>1. front \o back \in Seq(IsSent) /\ WireIDs(front \o back, kind) = WireIDs(front, kind) \cup WireIDs(back, kind)
      BY <2>4, <2>5, WireConcat
    <3>2. WireIDs(back, kind) = IDs(s, kind)
      BY <2>3, <2>4
    <3> QED
      BY <2>1, <2>5, <3>1, <3>2
  <2> QED
    BY <2>6 DEF Sends
<1> QED
  BY <1>2, <1>3

-----------------------------------------------------------------------------
(* What a message of the model says: no results, and calls of one set.     *)

Says(s, calls) ==
    s \in Seq(Parts) /\ \A p \in ToSet(s) : p.is # "result" /\ (p.is = "call" => p \in calls)

LEMMA OfSays ==
    ASSUME NEW s, NEW calls, NEW kinds, Says(s, calls)
    PROVE  Says(Of(s, kinds), calls)
BY OfParts DEF Says

LEMMA JoinedSays ==
    ASSUME NEW s, NEW calls, NEW kind \in {"text", "think"}, s \in Seq(Parts)
    PROVE  Says(Joined(s, {kind}), calls) /\ Says(Unsigned(Joined(s, {kind})), calls)
<1>1. Joined(s, {kind}) \in Seq(Parts) /\ \A p \in ToSet(Joined(s, {kind})) : p.is = kind
  BY JoinedParts
<1> DEFINE j == Joined(s, {kind})
<1> HIDE DEF j
<1>2. Unsigned(j) \in Seq(Parts) /\ \A p \in ToSet(Unsigned(j)) : p.is = kind
  <2>1. j \in Seq(Parts) /\ \A p \in ToSet(j) : p.is = kind
    BY <1>1 DEF j
  <2> QED
    BY <2>1, UnsignedParts
<1> QED
  BY <1>1, <1>2 DEF Says, j

LEMMA ConcatSays ==
    ASSUME NEW s, NEW t, NEW calls, Says(s, calls), Says(t, calls)
    PROVE  Says(s \o t, calls)
<1>1. s \in Seq(Parts) /\ t \in Seq(Parts)
  BY DEF Says
<1>2. s \o t \in Seq(Parts) /\ ToSet(s \o t) = ToSet(s) \cup ToSet(t)
  BY <1>1, ConcatProperties, ToSetConcat
<1> QED
  BY <1>2 DEF Says

LEMMA WholeRepliesSay ==
    ASSUME NEW s, NEW calls, Says(s, calls)
    PROVE  /\ Says(FromOpenAI(s), calls) /\ Says(FromAnthropic(s), calls)
           /\ Says(FromOllama(s), calls) /\ Says(FromResponses(s), calls)
<1> DEFINE thought == Unsigned(Joined(s, {"think"}))
<1> DEFINE text == Joined(s, {"text"})
<1> DEFINE asked == Of(s, {"call"})
<1>1. s \in Seq(Parts)
  BY DEF Says
<1>2. Says(thought, calls) /\ Says(text, calls) /\ Says(asked, calls)
  BY <1>1, JoinedSays, OfSays
<1>3. FromOpenAI(s) = (thought \o text) \o asked /\ FromOllama(s) = text \o asked
  BY DEF FromOpenAI, FromOllama
<1> HIDE DEF thought, text, asked
<1>4. Says(thought \o text, calls) /\ Says(text \o asked, calls)
  BY <1>2, ConcatSays
<1> DEFINE front == thought \o text
<1> HIDE DEF front
<1>5. Says(front \o asked, calls)
  BY <1>2, <1>4, ConcatSays DEF front
<1>6. Says(FromResponses(s), calls)
  BY OfSays DEF FromResponses
<1> QED
  BY <1>3, <1>4, <1>5, <1>6 DEF FromAnthropic, front

LEMMA AggregateSays ==
    ASSUME NEW s, NEW calls, Says(s, calls)
    PROVE  /\ Says(Aggregate(s), calls)
           /\ IDs(Aggregate(s), "call") = IDs(s, "call")
<1> DEFINE thought == Unsigned(Joined(s, {"think"}))
<1> DEFINE text == Joined(s, {"text"})
<1> DEFINE asked == Of(s, {"call", "result"})
<1>1. s \in Seq(Parts)
  BY DEF Says
<1>2. Says(thought, {}) /\ Says(text, {}) /\ Says(thought, calls) /\ Says(text, calls) /\ Says(asked, calls)
  BY <1>1, JoinedSays, OfSays
<1>3. ToSet(asked) = {p \in ToSet(s) : p.is \in {"call", "result"}}
  BY <1>1, OfParts
<1>4. Aggregate(s) = (text \o asked) \o thought
  BY DEF Aggregate
<1> HIDE DEF thought, text, asked
<1>5. Says(text \o asked, calls)
  BY <1>2, ConcatSays
<1>6. IDs(text, "call") = {} /\ IDs(thought, "call") = {} /\ IDs(asked, "call") = IDs(s, "call")
  BY <1>2, <1>3 DEF IDs, Says
<1>7. IDs(text \o asked, "call") = IDs(s, "call")
  <2>1. IDs(text \o asked, "call") = IDs(text, "call") \cup IDs(asked, "call")
    BY <1>2, IDsConcat DEF Says
  <2> QED
    BY <1>6, <2>1
<1> DEFINE front == text \o asked
<1> HIDE DEF front
<1>8. Says(front \o thought, calls)
  BY <1>2, <1>5, ConcatSays DEF front
<1>9. IDs(front \o thought, "call") = IDs(s, "call")
  <2>1. front \in Seq(Parts) /\ thought \in Seq(Parts)
    BY <1>2, <1>5 DEF Says, front
  <2>2. IDs(front \o thought, "call") = IDs(front, "call") \cup IDs(thought, "call")
    BY <2>1, IDsConcat
  <2> QED
    BY <1>6, <1>7, <2>2 DEF front
<1> QED
  BY <1>4, <1>8, <1>9 DEF front

LEMMA RoundSays ==
    ASSUME WireAssumption, NEW reply \in Replies, rounds \in Nat
    PROVE  Says(ThisRound(reply), ToSet(Of(ThisRound(reply), {"call"})))
<1> DEFINE u(i) == [reply[i] EXCEPT !.id = <<rounds>> \o @]
<1>1. reply \in Seq(Part({"text", "think", "call"}))
  BY DEF WireAssumption
<1>2. DOMAIN reply = 1 .. Len(reply) /\ Len(reply) \in Nat
      /\ \A i \in DOMAIN reply : reply[i] \in Part({"text", "think", "call"})
  BY <1>1, LenProperties, ElementOfSeq
<1>3. ASSUME NEW i \in DOMAIN reply PROVE u(i) \in Parts /\ u(i).is # "result"
  <2>1. reply[i].id \in Seq(Contents) /\ <<rounds>> \in Seq(Contents)
    BY <1>2 DEF Part, Contents
  <2>2. <<rounds>> \o reply[i].id \in Seq(Contents)
    BY <2>1, ConcatProperties
  <2> QED
    BY <1>2, <2>2 DEF Parts, Part, Kinds
<1>4. ThisRound(reply) = [i \in 1 .. Len(reply) |-> u(i)]
  BY <1>2 DEF ThisRound
<1> HIDE DEF u
<1> DEFINE r == ThisRound(reply)
<1>5. r \in Seq(Parts) /\ \A i \in DOMAIN r : r[i].is # "result"
  <2>1. \A i \in 1 .. Len(reply) : u(i) \in Parts /\ u(i).is # "result"
    BY <1>2, <1>3
  <2> QED
    BY <1>2, <1>4, <2>1
<1> HIDE DEF r
<1>6. ToSet(Of(r, {"call"})) = {p \in ToSet(r) : p.is \in {"call"}}
  BY <1>5, OfParts
<1>7. \A p \in ToSet(r) : p.is # "result"
  BY <1>5 DEF ToSet
<1> QED
  BY <1>5, <1>6, <1>7 DEF Says, r

\* An event of a stream: a text event has a text.
Event == {e \in [event : {"text", "added", "arguments", "ended"}, part : Parts] :
             e.part.is # "result" /\ (e.event = "text" => e.part.is = "text")}

LEMMA EventsAre ==
    ASSUME NEW s, NEW calls, Says(s, calls)
    PROVE  Events(s) \in Seq(Event)
<1> DEFINE c(i) == CASE s[i].is = "text" -> <<[event |-> "text", part |-> s[i]]>>
                     [] s[i].is = "call" -> [j \in 1..3 |-> [event |-> <<"added", "arguments", "ended">>[j],
                                                            part |-> s[i]]]
                     [] OTHER -> <<>>
<1>1. DOMAIN s = 1 .. Len(s) /\ Len(s) \in Nat
      /\ \A i \in DOMAIN s : s[i] \in Parts /\ s[i].is # "result"
  BY LenProperties, ElementsOf DEF Says
<1>2. ASSUME NEW i \in DOMAIN s PROVE c(i) \in Seq(Event)
  <2>1. CASE s[i].is = "text"
    <3> DEFINE e == [event |-> "text", part |-> s[i]]
    <3>1. e \in Event
      BY <1>1, <2>1 DEF Event
    <3>2. c(i) = <<e>>
      BY <2>1
    <3> HIDE DEF e, c
    <3> QED
      BY <3>1, <3>2
  <2>2. CASE s[i].is = "call"
    <3> DEFINE f(j) == [event |-> <<"added", "arguments", "ended">>[j], part |-> s[i]]
    <3>1. \A j \in 1 .. 3 : f(j) \in Event
      BY <1>1, <2>2 DEF Event
    <3>2. c(i) = [j \in 1 .. 3 |-> f(j)]
      BY <2>2
    <3> HIDE DEF f, c
    <3> QED
      BY <3>1, <3>2
  <2>3. CASE s[i].is # "text" /\ s[i].is # "call"
    BY <2>3
  <2> QED
    BY <2>1, <2>2, <2>3
<1> HIDE DEF c
<1> DEFINE cs == [i \in DOMAIN s |-> c(i)]
<1>3. cs \in Seq(Seq(Event))
  <2>1. \A i \in 1 .. Len(s) : c(i) \in Seq(Event)
    BY <1>1, <1>2
  <2>2. cs = [i \in 1 .. Len(s) |-> c(i)]
    BY <1>1
  <2> QED
    BY <1>1, <2>1, <2>2
<1>4. Events(s) = Flat(cs)
  BY DEF Events, c
<1> HIDE DEF cs
<1> QED
  BY <1>3, <1>4, FlatType

LEMMA CutRepliesSay ==
    ASSUME NEW events \in Seq(Event)
    PROVE  Says(FromEvents(events),
                {events[i].part : i \in {j \in DOMAIN events : events[j].event = "ended"}})
<1> DEFINE K == {i \in DOMAIN events : events[i].event \in {"text", "ended"}}
<1> DEFINE kept == Kept(events, K)
<1> DEFINE calls == {events[i].part : i \in {j \in DOMAIN events : events[j].event = "ended"}}
<1> DEFINE u(i) == kept[i].part
<1>1. FromEvents(events) = [i \in DOMAIN kept |-> u(i)]
  BY DEF FromEvents, KeptIf
<1>2. kept \in Seq(Event) /\ ToSet(kept) = {events[i] : i \in K}
  <2>1. K \in SUBSET DOMAIN events
    OBVIOUS
  <2> HIDE DEF K
  <2> QED
    BY <2>1, KeptElements
<1> HIDE DEF kept
<1>3. DOMAIN kept = 1 .. Len(kept) /\ Len(kept) \in Nat /\ \A i \in DOMAIN kept : kept[i] \in ToSet(kept)
  BY <1>2, LenProperties, ElementsOf
<1>4. ASSUME NEW i \in DOMAIN kept
      PROVE  u(i) \in Parts /\ u(i).is # "result" /\ (u(i).is = "call" => u(i) \in calls)
  <2>1. PICK j \in K : kept[i] = events[j]
    BY <1>2, <1>3
  <2>2. events[j] \in Event
    BY <2>1, ElementsOf
  <2> QED
    BY <2>1, <2>2 DEF Event
<1> DEFINE f == [i \in 1 .. Len(kept) |-> u(i)]
<1> HIDE DEF u, calls
<1>5. f \in Seq(Parts) /\ ToSet(f) = {u(i) : i \in 1 .. Len(kept)}
  <2>1. \A i \in 1 .. Len(kept) : u(i) \in Parts
    BY <1>3, <1>4
  <2>2. f \in Seq(Parts)
    BY <1>3, <2>1
  <2> QED
    BY <2>2 DEF ToSet
<1>6. Says(f, calls)
  BY <1>3, <1>4, <1>5 DEF Says
<1> QED
  BY <1>1, <1>3, <1>6 DEF calls

-----------------------------------------------------------------------------
(* The conversation: the system prompt first and only there, no message of *)
(* results with anything else in it, and the results of a message the      *)
(* calls of the one before it, those of the last one still to come.        *)

Conversation ==
    /\ chat \in Seq(Message) /\ chat # <<>>
    /\ \A i \in 1 .. Len(chat) : Proper(chat[i]) /\ (chat[i].role = "system" <=> i = 1)
    /\ provider \in Streams =>
          \A i \in 1 .. Len(chat) : \A p \in ToSet(chat[i].parts) : p.is = "call" => p \in said
    /\ IDs(chat[1].parts, "result") = {}
    /\ \A i \in 1 .. Len(chat) - 1 :
          IDs(chat[i].parts, "call") = IDs(chat[i + 1].parts, "result")
    /\ phase # "tools" => IDs(chat[Len(chat)].parts, "call") = {}

\* What openai and anthropic are sent of a message, at most one each.
Lines == {ToOpenAI(x)[1] : x \in Message} \cup {ToAnthropic(x)[1] : x \in Message}

\* The request w is the beginning of the request r.
Begins(w, r) ==
    /\ w.messages \in Seq(Lines) /\ IsPrefix(w.messages, r.messages)
    /\ w.tools = r.tools /\ w.system = r.system

Ordered == {"openai", "anthropic"}

IInv ==
    /\ provider \in Providers /\ setting \in Settings /\ order \in ToolNames /\ rounds \in Nat
    /\ phase \in {"send", "asked", "tools", "done"}
    /\ Conversation
    /\ phase = "asked" => wire = Request
    /\ provider \in Ordered /\ wire # <<>> => Begins(wire, Request)

LEMMA InitInv ==
    ASSUME WireAssumption, WireInit
    PROVE  IInv
<1> DEFINE a == Text(<<"rules">>)
<1> DEFINE b == Text(<<"prompt">>)
<1> DEFINE m == [role |-> "system", parts |-> <<a>>]
<1> DEFINE n == [role |-> "user", parts |-> <<b>>]
<1>1. a \in Parts /\ b \in Parts /\ a.is = "text" /\ b.is = "text"
  <2>1. <<"rules">> \in Seq(Contents) /\ <<"prompt">> \in Seq(Contents)
    BY DEF Contents
  <2> QED
    BY <2>1 DEF Text, Parts, Part, Kinds
<1>2. chat = <<m, n>> /\ m.parts = <<a>> /\ n.parts = <<b>> /\ m.role = "system" /\ n.role = "user"
  BY DEF WireInit
<1> HIDE DEF a, b
<1>3. <<a>> \in Seq(Parts) /\ <<b>> \in Seq(Parts) /\ ToSet(<<a>>) = {a} /\ ToSet(<<b>>) = {b}
  <2>1. ToSet(<<a>>) = {a}
    BY OneElement
  <2>2. ToSet(<<b>>) = {b}
    BY OneElement
  <2> QED
    BY <1>1, <2>1, <2>2
<1>4. m \in Message /\ n \in Message
  BY <1>3 DEF Message, Roles
<1>5. \A kind \in {"call", "result"} : IDs(m.parts, kind) = {} /\ IDs(n.parts, kind) = {}
  BY <1>1, <1>2, <1>3, IDsNone
<1>6. Proper(m) /\ Proper(n)
  BY <1>5 DEF Proper
<1>7. \A p \in ToSet(m.parts) \cup ToSet(n.parts) : p.is # "call"
  BY <1>1, <1>2, <1>3
<1> HIDE DEF m, n
<1>8. /\ chat \in Seq(Message) /\ Len(chat) = 2 /\ chat # <<>>
      /\ chat[1] = m /\ chat[2] = n
  BY <1>2, <1>4
<1>9. Conversation
  <2>1. 1 .. Len(chat) = {1, 2} /\ 1 .. Len(chat) - 1 = {1}
    BY <1>8
  <2>2. \A i \in {1, 2} : /\ Proper(chat[i]) /\ (chat[i].role = "system" <=> i = 1)
                        /\ IDs(chat[i].parts, "call") = {} /\ IDs(chat[i].parts, "result") = {}
                        /\ \A p \in ToSet(chat[i].parts) : p.is # "call"
    BY <1>2, <1>5, <1>6, <1>7, <1>8
  <2> QED
    <3>1. /\ phase # "tools" => IDs(chat[Len(chat)].parts, "call") = {}
          /\ IDs(chat[1].parts, "result") = {}
      BY <1>8, <2>2
    <3>2. \A i \in {1} : IDs(chat[i].parts, "call") = IDs(chat[i + 1].parts, "result")
      <4>1. IDs(chat[1].parts, "call") = IDs(chat[1 + 1].parts, "result")
        BY <2>2
      <4> QED
        BY <4>1
    <3>3. \A i \in 1 .. Len(chat) - 1 : IDs(chat[i].parts, "call") = IDs(chat[i + 1].parts, "result")
      BY <2>1, <3>2
    <3>4. \A i \in 1 .. Len(chat) : Proper(chat[i]) /\ (chat[i].role = "system" <=> i = 1)
      BY <2>1, <2>2
    <3>5. \A i \in 1 .. Len(chat) : \A p \in ToSet(chat[i].parts) : p.is = "call" => p \in said
      BY <2>1, <2>2
    <3> QED
      BY <1>8, <3>1, <3>3, <3>4, <3>5 DEF Conversation
<1> QED
  BY <1>9 DEF IInv, WireInit

\* One more message.
LEMMA Continues ==
    ASSUME Conversation, NEW m \in Message, Proper(m), m.role # "system",
           chat' = Append(chat, m), said \subseteq said', provider' = provider,
           provider \in Streams => \A p \in ToSet(m.parts) : p.is = "call" => p \in said',
           IDs(m.parts, "result") = IDs(chat[Len(chat)].parts, "call"),
           phase' # "tools" => IDs(m.parts, "call") = {}
    PROVE  Conversation'
<1> DEFINE N == Len(chat)
<1>1. /\ chat \in Seq(Message) /\ N \in Nat /\ N > 0
      /\ \A i \in 1 .. N : chat[i] \in Message
  BY LenProperties, ElementOfSeq, EmptySeq DEF Conversation
<1>2. /\ chat' \in Seq(Message) /\ Len(chat') = N + 1 /\ chat'[N + 1] = m
      /\ \A i \in 1 .. N : chat'[i] = chat[i]
  BY <1>1, AppendProperties
<1>3. chat' # <<>>
  BY <1>1, <1>2, EmptySeq
<1>4. \A i \in 1 .. N + 1 : Proper(chat'[i]) /\ (chat'[i].role = "system" <=> i = 1)
  BY <1>1, <1>2 DEF Conversation
<1>5. provider' \in Streams =>
         \A i \in 1 .. N + 1 : \A p \in ToSet(chat'[i].parts) : p.is = "call" => p \in said'
  BY <1>1, <1>2 DEF Conversation
<1>6. IDs(chat'[1].parts, "result") = {}
  BY <1>1, <1>2 DEF Conversation
<1>7. \A i \in 1 .. N : IDs(chat'[i].parts, "call") = IDs(chat'[i + 1].parts, "result")
  BY <1>1, <1>2 DEF Conversation
<1> QED
  BY <1>1, <1>2, <1>3, <1>4, <1>5, <1>6, <1>7 DEF Conversation

\* Sequences with the same elements up to n.
LEMMA SameFront ==
    ASSUME NEW S, NEW s \in Seq(S), NEW t \in Seq(S), NEW n \in Nat, n <= Len(s), n <= Len(t)
    PROVE  SubSeq(s, 1, n) = SubSeq(t, 1, n) <=> \A i \in 1 .. n : s[i] = t[i]
<1>1. Len(s) \in Nat /\ Len(t) \in Nat
  BY LenProperties
<1>2. /\ SubSeq(s, 1, n) \in Seq(S) /\ Len(SubSeq(s, 1, n)) = n
      /\ \A i \in 1 .. n : SubSeq(s, 1, n)[i] = s[i]
  BY <1>1
<1>3. /\ SubSeq(t, 1, n) \in Seq(S) /\ Len(SubSeq(t, 1, n)) = n
      /\ \A i \in 1 .. n : SubSeq(t, 1, n)[i] = t[i]
  BY <1>1
<1> DEFINE a == SubSeq(s, 1, n)
<1> DEFINE b == SubSeq(t, 1, n)
<1> HIDE DEF a, b
<1>4. a = b <=> \A i \in 1 .. n : a[i] = b[i]
  BY <1>2, <1>3, SeqEqual DEF a, b
<1> QED
  BY <1>2, <1>3, <1>4 DEF a, b

\* A sequence begins each that it is continued to.
LEMMA PrefixOf ==
    ASSUME NEW S, NEW s \in Seq(S), NEW t \in Seq(S)
    PROVE  IsPrefix(s, s \o t)
<1> DEFINE u == s \o t
<1>1. u \in Seq(S) /\ Len(u) = Len(s) + Len(t) /\ \A i \in 1 .. Len(s) : u[i] = s[i]
  BY ConcatProperties
<1>2. Len(s) \in Nat /\ Len(t) \in Nat
  BY LenProperties
<1> HIDE DEF u
<1>3. SubSeq(s, 1, Len(s)) = SubSeq(u, 1, Len(s))
  BY <1>1, <1>2, SameFront
<1> QED
  BY <1>1, <1>2, <1>3 DEF IsPrefix, u

LEMMA PrefixesChain ==
    ASSUME NEW S, NEW s \in Seq(S), NEW t \in Seq(S), NEW u \in Seq(S),
           IsPrefix(s, t), IsPrefix(t, u)
    PROVE  IsPrefix(s, u)
<1>1. /\ Len(s) \in Nat /\ Len(t) \in Nat /\ Len(u) \in Nat
      /\ Len(s) <= Len(t) /\ Len(t) <= Len(u) /\ Len(s) <= Len(u)
  BY LenProperties DEF IsPrefix
<1>2. /\ SubSeq(s, 1, Len(s)) = SubSeq(t, 1, Len(s))
      /\ SubSeq(t, 1, Len(t)) = SubSeq(u, 1, Len(t))
  BY DEF IsPrefix
<1>3. \A i \in 1 .. Len(t) : t[i] = u[i]
  BY <1>1, <1>2, SameFront
<1>4. SubSeq(t, 1, Len(s)) = SubSeq(u, 1, Len(s))
  <2>1. \A i \in 1 .. Len(s) : t[i] = u[i]
    BY <1>1, <1>3
  <2> QED
    BY <1>1, <2>1, SameFront
<1> QED
  BY <1>1, <1>2, <1>4 DEF IsPrefix

\* What is sent of a longer conversation continues what was sent of it before.
LEMMA SentGrows ==
    ASSUME NEW S, NEW f \in Seq(Seq(S)), NEW g \in Seq(Seq(S)), Len(g) = Len(f) + 1,
           \A i \in 1 .. Len(f) : f[i] = g[i]
    PROVE  /\ Flat(f) \in Seq(S) /\ Flat(g) \in Seq(S)
           /\ Flat(g) = Flat(f) \o g[Len(g)] /\ IsPrefix(Flat(f), Flat(g))
<1> DEFINE N == Len(f)
<1> DEFINE t == g[N + 1]
<1> DEFINE h == Append(f, t)
<1>1. N \in Nat /\ DOMAIN g = 1 .. N + 1 /\ t \in Seq(S)
  BY LenProperties, ElementOfSeq
<1> HIDE DEF t
<1>2. /\ h \in Seq(Seq(S)) /\ Len(h) = N + 1 /\ h[N + 1] = t
      /\ \A i \in 1 .. N : h[i] = f[i]
  BY <1>1, AppendProperties
<1> HIDE DEF h
<1>3. \A i \in 1 .. N + 1 : g[i] = h[i]
  <2>1. g[N + 1] = h[N + 1]
    BY <1>2 DEF t
  <2>2. \A i \in 1 .. N : g[i] = h[i]
    BY <1>2
  <2> DEFINE M == Len(f)
  <2>3. \A i : i \in 1 .. M + 1 => i = M + 1 \/ i \in 1 .. M
    BY <1>1
  <2> HIDE DEF M
  <2> QED
    BY <2>1, <2>2, <2>3 DEF M
<1>4. g = h
  <2>1. DOMAIN h = DOMAIN g
    BY <1>1, <1>2, LenProperties
  <2> QED
    BY <1>1, <1>2, <1>3, <2>1, SeqEqual
<1>5. Flat(h) = Flat(f) \o t
  BY <1>1, FlatAppend DEF h
<1>6. Flat(f) \in Seq(S) /\ Flat(g) \in Seq(S)
  BY FlatType
<1>7. IsPrefix(Flat(f), Flat(f) \o t)
  BY <1>1, <1>6, PrefixOf
<1> QED
  BY <1>4, <1>5, <1>6, <1>7 DEF t

\* What is sent of a message.
LEMMA LinesOf ==
    ASSUME NEW x \in Message
    PROVE  ToOpenAI(x) \in Seq(Lines) /\ ToAnthropic(x) \in Seq(Lines)
<1>1. ToOpenAI(x) \in Seq(Lines)
  <2>1. PICK r : ToOpenAI(x) = <<r>>
    BY DEF ToOpenAI, One
  <2>2. r \in Lines
    BY <2>1 DEF Lines
  <2> QED
    BY <2>1, <2>2
<1>2. ToAnthropic(x) \in Seq(Lines)
  <2>1. CASE x.role = "system"
    BY <2>1 DEF ToAnthropic
  <2>2. CASE x.role # "system"
    <3>1. PICK r : ToAnthropic(x) = <<r>>
      BY <2>2 DEF ToAnthropic, One
    <3>2. r \in Lines
      BY <3>1 DEF Lines
    <3> QED
      BY <3>1, <3>2
  <2> QED
    BY <2>1, <2>2
<1> QED
  BY <1>1, <1>2

\* The request of a longer conversation begins as the one before it does.
LEMMA RequestGrows ==
    ASSUME WireAssumption, Conversation, provider \in Ordered, provider' = provider,
           NEW m \in Message, Proper(m), m.role # "system", chat' = Append(chat, m),
           order \in ToolNames, order' \in ToolNames
    PROVE  Begins(Request, Request') /\ Request'.messages \in Seq(Lines)
<1> DEFINE N == Len(chat)
<1>1. /\ chat \in Seq(Message) /\ N \in Nat /\ N > 0 /\ DOMAIN chat = 1 .. N
      /\ \A i \in 1 .. N : chat[i] \in Message /\ (chat[i].role = "system" <=> i = 1)
      /\ \A i \in 1 .. N : Proper(chat[i])
  BY LenProperties, ElementOfSeq, EmptySeq DEF Conversation
<1>2. /\ chat' \in Seq(Message) /\ Len(chat') = N + 1 /\ chat'[N + 1] = m
      /\ DOMAIN chat' = 1 .. N + 1 /\ \A i \in 1 .. N : chat'[i] = chat[i]
  BY <1>1, AppendProperties, LenProperties
<1>3. ToSet(order) = ToSet(order')
  BY DEF WireAssumption
<1>4. OpenAITools(order) = OpenAITools(order') /\ AnthropicTools(order) = AnthropicTools(order')
  BY <1>3 DEF OpenAITools, AnthropicTools
<1>5. CASE provider = "openai"
  <2> DEFINE f == [i \in DOMAIN chat |-> ToOpenAI(chat[i])]
  <2> DEFINE g == [i \in DOMAIN chat' |-> ToOpenAI(chat'[i])]
  <2>1. \A x \in Message : ToOpenAI(x) \in Seq(Lines)
    BY LinesOf
  <2>2. /\ f \in Seq(Seq(Lines)) /\ g \in Seq(Seq(Lines)) /\ Len(g) = Len(f) + 1
        /\ \A i \in 1 .. Len(f) : f[i] = g[i]
    <3> DEFINE F(x) == ToOpenAI(x)
    <3>1. \A x \in Message : F(x) \in Seq(Lines)
      BY <2>1
    <3>2. f = [i \in DOMAIN chat |-> F(chat[i])] /\ g = [i \in DOMAIN chat' |-> F(chat'[i])]
      OBVIOUS
    <3> HIDE DEF F
    <3>3. f = [i \in 1 .. N |-> F(chat[i])] /\ \A i \in 1 .. N : F(chat[i]) \in Seq(Lines)
      BY <1>1, <3>1, <3>2
    <3>4. /\ g = [i \in 1 .. N + 1 |-> F(chat'[i])]
          /\ \A i \in 1 .. N + 1 : F(chat'[i]) \in Seq(Lines)
      BY <1>1, <1>2, <3>1, <3>2
    <3> HIDE DEF f, g
    <3>5. f \in Seq(Seq(Lines)) /\ Len(f) = N
      BY <1>1, <3>3
    <3>6. g \in Seq(Seq(Lines)) /\ Len(g) = N + 1
      BY <1>1, <3>4
    <3> QED
      BY <1>1, <1>2, <3>3, <3>4, <3>5, <3>6
  <2>4. Request = OpenAIRequest /\ Request' = OpenAIRequest'
    BY <1>5 DEF Request
  <2>5. /\ OpenAIRequest.messages = Flat(f) /\ OpenAIRequest'.messages = Flat(g)
        /\ OpenAIRequest.tools = OpenAIRequest'.tools /\ OpenAIRequest.system = OpenAIRequest'.system
    BY <1>4 DEF OpenAIRequest, EachMessage
  <2> HIDE DEF f, g
  <2>6. IsPrefix(Flat(f), Flat(g)) /\ Flat(f) \in Seq(Lines) /\ Flat(g) \in Seq(Lines)
    BY <2>2, SentGrows
  <2> QED
    BY <2>4, <2>5, <2>6 DEF Begins
<1>6. CASE provider = "anthropic"
  <2> DEFINE f == [i \in DOMAIN chat |-> ToAnthropic(chat[i])]
  <2> DEFINE g == [i \in DOMAIN chat' |-> ToAnthropic(chat'[i])]
  <2>1. \A x \in Message : ToAnthropic(x) \in Seq(Lines)
    BY LinesOf
  <2>2. /\ f \in Seq(Seq(Lines)) /\ g \in Seq(Seq(Lines)) /\ Len(g) = Len(f) + 1
        /\ \A i \in 1 .. Len(f) : f[i] = g[i]
    <3> DEFINE F(x) == ToAnthropic(x)
    <3>1. \A x \in Message : F(x) \in Seq(Lines)
      BY <2>1
    <3>2. f = [i \in DOMAIN chat |-> F(chat[i])] /\ g = [i \in DOMAIN chat' |-> F(chat'[i])]
      OBVIOUS
    <3> HIDE DEF F
    <3>3. f = [i \in 1 .. N |-> F(chat[i])] /\ \A i \in 1 .. N : F(chat[i]) \in Seq(Lines)
      BY <1>1, <3>1, <3>2
    <3>4. /\ g = [i \in 1 .. N + 1 |-> F(chat'[i])]
          /\ \A i \in 1 .. N + 1 : F(chat'[i]) \in Seq(Lines)
      BY <1>1, <1>2, <3>1, <3>2
    <3> HIDE DEF f, g
    <3>5. f \in Seq(Seq(Lines)) /\ Len(f) = N
      BY <1>1, <3>3
    <3>6. g \in Seq(Seq(Lines)) /\ Len(g) = N + 1
      BY <1>1, <3>4
    <3> QED
      BY <1>1, <1>2, <3>3, <3>4, <3>5, <3>6
  <2>4. Request = AnthropicRequest /\ Request' = AnthropicRequest'
    BY <1>6 DEF Request
  <2>5. /\ AnthropicRequest.messages = Flat(f) /\ AnthropicRequest'.messages = Flat(g)
        /\ AnthropicRequest.tools = AnthropicRequest'.tools
        /\ AnthropicRequest.system = SystemPrompt /\ AnthropicRequest'.system = SystemPrompt'
    BY <1>4 DEF AnthropicRequest, EachMessage
  <2> HIDE DEF f, g
  <2>6. IsPrefix(Flat(f), Flat(g)) /\ Flat(f) \in Seq(Lines) /\ Flat(g) \in Seq(Lines)
    BY <2>2, SentGrows
  <2>7. SystemPrompt = SystemPrompt'
    <3> DEFINE F(x) == IF x.role \in {"system"} THEN Of(x.parts, {"text"}) ELSE <<>>
    <3> DEFINE a == [i \in DOMAIN chat |-> F(chat[i])]
    <3> DEFINE b == [i \in DOMAIN chat' |-> F(chat'[i])]
    <3>1. SystemPrompt = Joined(Flat(a), {"text"}) /\ SystemPrompt' = Joined(Flat(b), {"text"})
      BY DEF SystemPrompt, Instructions
    <3>2. ASSUME NEW x \in Message PROVE F(x) \in Seq(Parts)
      BY OfParts DEF Message
    <3>3. F(m) = <<>>
      OBVIOUS
    <3> HIDE DEF F
    <3>4. /\ a \in Seq(Seq(Parts)) /\ b \in Seq(Seq(Parts)) /\ Len(b) = Len(a) + 1
          /\ \A i \in 1 .. Len(a) : a[i] = b[i]
      <4>1. a = [i \in 1 .. N |-> F(chat[i])] /\ \A i \in 1 .. N : F(chat[i]) \in Seq(Parts)
        BY <1>1, <3>2
      <4>2. /\ b = [i \in 1 .. N + 1 |-> F(chat'[i])]
            /\ \A i \in 1 .. N + 1 : F(chat'[i]) \in Seq(Parts)
        BY <1>1, <1>2, <3>2
      <4> HIDE DEF a, b
      <4>3. a \in Seq(Seq(Parts)) /\ Len(a) = N
        BY <1>1, <4>1
      <4>4. b \in Seq(Seq(Parts)) /\ Len(b) = N + 1
        BY <1>1, <4>2
      <4> QED
        BY <1>1, <1>2, <4>1, <4>2, <4>3, <4>4
    <3>5. b[Len(b)] = <<>>
      <4>1. Len(b) = N + 1
        BY <1>1, <1>2
      <4> QED
        BY <1>1, <1>2, <3>3, <4>1
    <3> HIDE DEF a, b
    <3>6. Flat(b) = Flat(a) \o b[Len(b)] /\ Flat(a) \in Seq(Parts)
      BY <3>4, SentGrows
    <3>7. Flat(b) = Flat(a)
      BY <3>5, <3>6, ConcatEmptySeq
    <3> QED
      BY <3>1, <3>7
  <2> QED
    BY <2>4, <2>5, <2>6, <2>7 DEF Begins
<1> QED
  BY <1>5, <1>6 DEF Ordered

\* The request of a conversation sends its messages.
LEMMA RequestStays ==
    ASSUME chat' = chat, order' = order, provider' = provider, setting' = setting
    PROVE  Request' = Request
BY DEF Request, OpenAIRequest, AnthropicRequest, OllamaRequest, ResponsesRequest, JetBrainsRequest,
       SystemPrompt, ResponsesInstructions, Instructions, ResponsesOptions

LEMMA FrontStays ==
    ASSUME WireAssumption, Conversation, provider \in Ordered, provider' = provider,
           NEW m \in Message, Proper(m), m.role # "system", chat' = Append(chat, m),
           order \in ToolNames, order' \in ToolNames, Begins(wire, Request), wire' = wire
    PROVE  Begins(wire', Request')
<1>1. Begins(Request, Request') /\ Request'.messages \in Seq(Lines)
  BY RequestGrows
<1> DEFINE a == wire.messages
<1> DEFINE b == Request.messages
<1> DEFINE c == Request'.messages
<1>2. /\ a \in Seq(Lines) /\ b \in Seq(Lines) /\ c \in Seq(Lines)
      /\ IsPrefix(a, b) /\ IsPrefix(b, c)
  BY <1>1 DEF Begins
<1>3. /\ wire'.messages = a /\ wire'.tools = Request'.tools /\ wire'.system = Request'.system
  BY <1>1 DEF Begins
<1>4. IsPrefix(a, c)
  <2> HIDE DEF a, b, c
  <2> QED
    BY <1>2, PrefixesChain
<1> QED
  BY <1>2, <1>3, <1>4 DEF Begins

\* A request is the beginning of itself.
LEMMA FrontSelf ==
    ASSUME Conversation, provider \in Ordered
    PROVE  Begins(Request, Request)
<1> DEFINE N == Len(chat)
<1>1. N \in Nat /\ DOMAIN chat = 1 .. N /\ \A i \in 1 .. N : chat[i] \in Message
  BY LenProperties, ElementOfSeq DEF Conversation
<1>2. Request.messages \in Seq(Lines)
  <2>1. CASE provider = "openai"
    <3> DEFINE f == [i \in DOMAIN chat |-> ToOpenAI(chat[i])]
    <3>1. Request.messages = Flat(f)
      BY <2>1 DEF Request, OpenAIRequest, EachMessage
    <3>2. f = [i \in 1 .. N |-> ToOpenAI(chat[i])]
      BY <1>1
    <3>3. \A i \in 1 .. N : ToOpenAI(chat[i]) \in Seq(Lines)
      BY <1>1, LinesOf
    <3>4. f \in Seq(Seq(Lines))
      BY <1>1, <3>2, <3>3
    <3> HIDE DEF f
    <3> QED
      BY <3>1, <3>4, FlatType
  <2>2. CASE provider = "anthropic"
    <3> DEFINE f == [i \in DOMAIN chat |-> ToAnthropic(chat[i])]
    <3>1. Request.messages = Flat(f)
      BY <2>2 DEF Request, AnthropicRequest, EachMessage
    <3>2. f = [i \in 1 .. N |-> ToAnthropic(chat[i])]
      BY <1>1
    <3>3. \A i \in 1 .. N : ToAnthropic(chat[i]) \in Seq(Lines)
      BY <1>1, LinesOf
    <3>4. f \in Seq(Seq(Lines))
      BY <1>1, <3>2, <3>3
    <3> HIDE DEF f
    <3> QED
      BY <3>1, <3>4, FlatType
  <2> QED
    BY <2>1, <2>2 DEF Ordered
<1> DEFINE b == Request.messages
<1> HIDE DEF b
<1>3. IsPrefix(b, b)
  <2>1. b \in Seq(Lines)
    BY <1>2 DEF b
  <2>2. Len(b) \in Nat
    BY <2>1, LenProperties
  <2> QED
    BY <2>2 DEF IsPrefix
<1> QED
  BY <1>2, <1>3 DEF Begins, b

\* A step that adds nothing to the conversation.
LEMMA KeepsConversation ==
    ASSUME Conversation, chat' = chat, said \subseteq said', provider' = provider, phase # "tools"
    PROVE  Conversation'
BY DEF Conversation

\* An attempt that fails.
LEMMA FailsKeeps ==
    ASSUME WireAssumption, IInv, phase = "asked", rounds' = rounds + 1, said \subseteq said',
           chat' = chat, phase' \in {"send", "done"},
           UNCHANGED <<provider, setting, order, wire>>
    PROVE  IInv'
<1>1. Conversation'
  BY KeepsConversation DEF IInv
<1>2. Request' = Request
  BY RequestStays
<1> QED
  BY <1>1, <1>2 DEF IInv

\* An attempt that gets a reply.
LEMMA TakesKeeps ==
    ASSUME WireAssumption, IInv, phase = "asked", rounds' = rounds + 1,
           NEW calls, NEW parts, Says(parts, calls), Takes(parts), said \subseteq said',
           provider \in Streams => calls \subseteq said',
           UNCHANGED <<provider, setting, order, wire>>
    PROVE  IInv'
<1> DEFINE m == [role |-> "assistant", parts |-> Aggregate(parts)]
<1>1. Says(Aggregate(parts), calls) /\ IDs(Aggregate(parts), "call") = IDs(parts, "call")
  BY AggregateSays
<1>2. m \in Message /\ m.role = "assistant" /\ m.parts = Aggregate(parts)
  BY <1>1 DEF Says, Message, Roles
<1>3. chat' = Append(chat, m) /\ phase' = IF Has(parts, {"call"}) THEN "tools" ELSE "done"
  BY DEF Takes
<1> HIDE DEF m
<1>4. IDs(m.parts, "result") = {} /\ Proper(m)
  BY <1>1, <1>2 DEF Says, Proper, IDs
<1>5. phase' # "tools" => IDs(m.parts, "call") = {}
  <2>1. ASSUME ~Has(parts, {"call"}) PROVE IDs(parts, "call") = {}
    <3>1. parts \in Seq(Parts)
      BY DEF Says
    <3>2. \A p \in ToSet(parts) : p.is \notin {"call"}
      BY <2>1, <3>1, HasIDs
    <3> QED
      BY <3>2, IDsNone
  <2> QED
    BY <1>1, <1>2, <1>3, <2>1
<1>6. Conversation'
  <2>1. IDs(chat[Len(chat)].parts, "call") = {}
    BY DEF IInv, Conversation
  <2>2. provider \in Streams => \A p \in ToSet(m.parts) : p.is = "call" => p \in said'
    BY <1>1, <1>2 DEF Says
  <2>3. m.role # "system" /\ Conversation
    BY <1>2 DEF IInv
  <2> QED
    BY <1>2, <1>3, <1>4, <1>5, <2>1, <2>2, <2>3, Continues
<1>7. provider' \in Ordered /\ wire' # <<>> => Begins(wire', Request')
  <2>1. m.role # "system" /\ Conversation /\ order \in ToolNames /\ order' = order
    BY <1>2 DEF IInv
  <2>2. provider \in Ordered /\ wire # <<>> => Begins(wire, Request)
    BY DEF IInv
  <2> QED
    BY <1>2, <1>3, <1>4, <2>1, <2>2, FrontStays
<1> QED
  BY <1>3, <1>6, <1>7 DEF IInv

\* The results of a message's calls.
LEMMA RunToolsKeeps ==
    ASSUME WireAssumption, IInv, NEW failing \in BOOLEAN, RunTools(failing)
    PROVE  IInv'
<1> DEFINE last == chat[Len(chat)].parts
<1> DEFINE asked == Of(last, {"call"})
<1> DEFINE u(i) == [is |-> "result", id |-> asked[i].id, good |-> ~failing]
<1> DEFINE answers == [i \in DOMAIN asked |-> u(i)]
<1> DEFINE m == [role |-> "user", parts |-> answers]
<1>1. chat' = Append(chat, m) /\ phase' = "send"
  BY DEF RunTools
<1>2. last \in Seq(Parts)
  <2>1. chat \in Seq(Message) /\ Len(chat) \in 1 .. Len(chat)
    BY LenProperties, EmptySeq DEF IInv, Conversation
  <2>2. chat[Len(chat)] \in Message
    BY <2>1, ElementOfSeq
  <2> QED
    BY <2>2 DEF Message
<1>3. asked \in Seq(Parts) /\ ToSet(asked) = {p \in ToSet(last) : p.is \in {"call"}}
  BY <1>2, OfParts
<1> HIDE DEF asked
<1>4. DOMAIN asked = 1 .. Len(asked) /\ Len(asked) \in Nat /\ \A i \in DOMAIN asked : asked[i] \in Parts
  BY <1>3, LenProperties, ElementsOf
<1>5. \A i \in 1 .. Len(asked) : u(i) \in Parts /\ u(i).is = "result" /\ u(i).id = asked[i].id
  BY <1>4 DEF Parts, Part, Kinds
<1>6. answers = [i \in 1 .. Len(asked) |-> u(i)]
  BY <1>4
<1> HIDE DEF u, answers
<1>7. answers \in Seq(Parts) /\ ToSet(answers) = {u(i) : i \in 1 .. Len(asked)}
  <2>1. answers \in Seq(Parts)
    BY <1>4, <1>5, <1>6
  <2> QED
    BY <1>6, <2>1 DEF ToSet
<1>8. \A p \in ToSet(answers) : p.is = "result"
  BY <1>5, <1>7
<1>9. IDs(answers, "result") = IDs(last, "call")
  <2>1. \A x : x \in IDs(answers, "result") <=> \E i \in 1 .. Len(asked) : asked[i].id = x
    BY <1>5, <1>7, IDsAre
  <2>2. \A x : x \in IDs(last, "call") <=> \E p \in ToSet(asked) : p.id = x
    BY <1>3, IDsAre
  <2>3. ToSet(asked) = {asked[i] : i \in 1 .. Len(asked)}
    BY <1>4 DEF ToSet
  <2> QED
    BY <2>1, <2>2, <2>3
<1>10. IDs(answers, "call") = {}
  BY <1>8, IDsNone
<1>11. m \in Message /\ m.parts = answers /\ m.role = "user"
  BY <1>7 DEF Message, Roles
<1> HIDE DEF m
<1>12. Proper(m) /\ m.role # "system"
  BY <1>8, <1>10, <1>11 DEF Proper
<1>13. Conversation'
  <2>1. Conversation /\ said' = said /\ provider' = provider
    BY DEF IInv, RunTools
  <2>2. \A p \in ToSet(m.parts) : p.is = "call" => p \in said'
    BY <1>8, <1>11
  <2>3. IDs(m.parts, "result") = IDs(chat[Len(chat)].parts, "call") /\ IDs(m.parts, "call") = {}
    BY <1>9, <1>10, <1>11
  <2> QED
    BY <1>1, <1>11, <1>12, <2>1, <2>2, <2>3, Continues
<1>14. UNCHANGED <<provider, setting, order, wire, rounds>>
  BY DEF RunTools
<1>15. provider' \in Ordered /\ wire' # <<>> => Begins(wire', Request')
  <2>1. Conversation /\ order \in ToolNames /\ order' = order
    BY <1>14 DEF IInv
  <2>2. provider \in Ordered /\ wire # <<>> => Begins(wire, Request)
    BY DEF IInv
  <2> QED
    BY <1>1, <1>11, <1>12, <1>14, <2>1, <2>2, FrontStays
<1> QED
  BY <1>1, <1>13, <1>14, <1>15 DEF IInv

\* A new prompt, with the tools in any order.
LEMMA PromptKeeps ==
    ASSUME WireAssumption, IInv, NEW names \in ToolNames, NextPrompt(names)
    PROVE  IInv'
<1> DEFINE a == Text(<<"next">>)
<1> DEFINE m == [role |-> "user", parts |-> <<a>>]
<1>1. chat' = Append(chat, m) /\ phase' = "send" /\ order' = names /\ rounds' = rounds + 1
  BY DEF NextPrompt
<1>2. a \in Parts /\ a.is = "text"
  <2>1. <<"next">> \in Seq(Contents)
    BY DEF Contents
  <2> QED
    BY <2>1 DEF Text, Parts, Part, Kinds
<1> HIDE DEF a
<1>3. <<a>> \in Seq(Parts) /\ ToSet(<<a>>) = {a}
  BY <1>2, OneElement
<1>4. m \in Message /\ m.parts = <<a>> /\ m.role = "user"
  BY <1>3 DEF Message, Roles
<1> HIDE DEF m
<1>5. \A kind \in {"call", "result"} : IDs(m.parts, kind) = {}
  BY <1>2, <1>3, <1>4, IDsNone
<1>6. Proper(m) /\ m.role # "system"
  BY <1>4, <1>5 DEF Proper
<1>7. Conversation'
  <2>1. Conversation /\ said' = said /\ phase = "done" /\ provider' = provider
    BY DEF IInv, NextPrompt
  <2>2. IDs(chat[Len(chat)].parts, "call") = {}
    BY <2>1 DEF Conversation
  <2>3. \A p \in ToSet(m.parts) : p.is = "call" => p \in said'
    BY <1>2, <1>3, <1>4
  <2>4. IDs(m.parts, "result") = {} /\ IDs(m.parts, "call") = {}
    BY <1>5
  <2> QED
    BY <1>1, <1>4, <1>6, <2>1, <2>2, <2>3, <2>4, Continues
<1>8. UNCHANGED <<provider, setting, wire>>
  BY DEF NextPrompt
<1>9. provider' \in Ordered /\ wire' # <<>> => Begins(wire', Request')
  <2>1. Conversation /\ order \in ToolNames /\ order' \in ToolNames
    BY <1>1 DEF IInv
  <2>2. provider \in Ordered /\ wire # <<>> => Begins(wire, Request)
    BY DEF IInv
  <2> QED
    BY <1>1, <1>4, <1>6, <1>8, <2>1, <2>2, FrontStays
<1> QED
  BY <1>1, <1>7, <1>8, <1>9 DEF IInv

LEMMA SendKeeps ==
    ASSUME WireAssumption, IInv, Send
    PROVE  IInv'
<1>1. Conversation'
  BY KeepsConversation DEF IInv, Send
<1>2. Request' = Request /\ wire' = Request /\ provider' = provider
  BY RequestStays DEF Send
<1>3. provider \in Ordered => Begins(Request, Request)
  BY FrontSelf DEF IInv
<1> QED
  BY <1>1, <1>2, <1>3 DEF IInv, Send

LEMMA AnsweredKeeps ==
    ASSUME WireAssumption, IInv, NEW reply \in Replies, NEW cut \in BOOLEAN, Answered(reply, cut)
    PROVE  IInv'
<1> DEFINE parts == ThisRound(reply)
<1> DEFINE taken == CASE provider = "openai" -> FromOpenAI(parts)
                      [] provider = "anthropic" -> FromAnthropic(parts)
                      [] provider = "ollama" -> FromOllama(parts)
                      [] provider = "responses" -> FromResponses(parts)
<1> DEFINE started == ToSet(Of(parts, {"call"}))
<1>1. /\ AttemptFails(Error("unusable"), 0) \/ Takes(taken)
      /\ said \subseteq said' /\ rounds' = rounds + 1 /\ phase = "asked" /\ provider \notin Streams
      /\ UNCHANGED <<provider, setting, order, wire>>
  BY DEF Answered
<1>2. Says(parts, started)
  BY RoundSays DEF IInv
<1>3. provider \in {"openai", "anthropic", "ollama", "responses"}
  BY DEF IInv, Providers, Streams, Answered
<1> HIDE DEF parts, started
<1>4. Says(taken, started)
  BY <1>2, <1>3, WholeRepliesSay
<1> HIDE DEF taken
<1>5. CASE AttemptFails(Error("unusable"), 0)
  <2>1. chat' = chat /\ phase' \in {"send", "done"}
    BY <1>5 DEF AttemptFails
  <2>2. said \subseteq said'
    BY <1>1
  <2> QED
    BY <1>1, <2>1, <2>2, FailsKeeps
<1>6. CASE Takes(taken)
  BY <1>1, <1>4, <1>6, TakesKeeps
<1> QED
  BY <1>1, <1>5, <1>6

LEMMA StreamedKeeps ==
    ASSUME WireAssumption, IInv, NEW reply \in Replies, NEW n \in 0 .. Len(Events(ThisRound(reply))),
           Streamed(reply, n)
    PROVE  IInv'
<1> DEFINE whole == Events(ThisRound(reply))
<1> DEFINE events == SubSeq(whole, 1, n)
<1> DEFINE taken == FromEvents(events)
<1> DEFINE started == {events[i].part : i \in {j \in DOMAIN events : events[j].event = "ended"}}
<1>1. /\ AttemptFails(Network, 0) \/ Takes(taken)
      /\ said' = said \cup started /\ rounds' = rounds + 1 /\ phase = "asked"
      /\ UNCHANGED <<provider, setting, order, wire>>
  BY DEF Streamed
<1>2. whole \in Seq(Event)
  BY RoundSays, EventsAre DEF IInv
<1>3. events \in Seq(Event)
  <2>0. n \in 0 .. Len(whole)
    OBVIOUS
  <2> HIDE DEF whole
  <2>1. Len(whole) \in Nat /\ n \in Nat /\ n <= Len(whole)
    BY <1>2, <2>0, LenProperties
  <2>2. \A i \in 1 .. n : whole[i] \in Event
    BY <1>2, <2>1, ElementOfSeq
  <2> QED
    BY <1>2, <2>1, <2>2, SubSeqProperties
<1>4. Says(taken, started)
  <2> HIDE DEF events
  <2> QED
    BY <1>3, CutRepliesSay
<1> HIDE DEF taken, started
<1>5. CASE AttemptFails(Network, 0)
  <2>1. chat' = chat /\ phase' \in {"send", "done"}
    BY <1>5 DEF AttemptFails
  <2>2. said \subseteq said'
    BY <1>1
  <2> QED
    BY <1>1, <2>1, <2>2, FailsKeeps
<1>6. CASE Takes(taken)
  <2>1. said \subseteq said' /\ started \subseteq said'
    BY <1>1
  <2> QED
    BY <1>1, <1>4, <1>6, <2>1, TakesKeeps
<1> QED
  BY <1>1, <1>5, <1>6

\* An attempt without a reply.
LEMMA FailingKeeps ==
    ASSUME WireAssumption, IInv, NEW e, NEW resets, AttemptFails(e, resets), phase = "asked",
           rounds' = rounds + 1, UNCHANGED <<provider, setting, order, wire, said>>
    PROVE  IInv'
<1>1. chat' = chat /\ phase' \in {"send", "done"} /\ said \subseteq said'
  BY DEF AttemptFails
<1> QED
  BY <1>1, FailsKeeps

LEMMA NextKeeps ==
    ASSUME WireAssumption, IInv, [WireNext]_wireVars
    PROVE  IInv'
<1>1. CASE Send
  BY <1>1, SendKeeps
<1>2. ASSUME NEW reply \in Replies, NEW cut \in BOOLEAN, Answered(reply, cut) PROVE IInv'
  BY <1>2, AnsweredKeeps
<1>3. ASSUME NEW reply \in Replies, NEW n \in 0 .. Len(Events(ThisRound(reply))), Streamed(reply, n) PROVE IInv'
  BY <1>3, StreamedKeeps
<1>4. ASSUME NEW event \in StreamErrors, StreamFails(event) PROVE IInv'
  BY <1>4, FailingKeeps DEF StreamFails
<1>5. ASSUME NEW how \in {"early end", "reset", "no reply"}, BodyFails(how) PROVE IInv'
  BY <1>5, FailingKeeps DEF BodyFails
<1>6. ASSUME NEW refusal \in Refusals, Refused(refusal) PROVE IInv'
  BY <1>6, FailingKeeps DEF Refused
<1>7. ASSUME NEW e \in Failures, Broken(e) PROVE IInv'
  BY <1>7, FailingKeeps DEF Broken
<1>8. ASSUME NEW failing \in BOOLEAN, RunTools(failing) PROVE IInv'
  BY <1>8, RunToolsKeeps
<1>9. ASSUME NEW names \in ToolNames, NextPrompt(names) PROVE IInv'
  BY <1>9, PromptKeeps
<1>10. CASE UNCHANGED wireVars
  <2>1. Request' = Request
    BY <1>10, RequestStays DEF wireVars
  <2> QED
    BY <1>10, <2>1 DEF wireVars, IInv, Conversation
<1> QED
  BY <1>1, <1>2, <1>3, <1>4, <1>5, <1>6, <1>7, <1>8, <1>9, <1>10 DEF WireNext

\* The conversation stays paired, and the last request the beginning of the next.
THEOREM WireInvariant ==
    ASSUME WireAssumption
    PROVE  WireSpec => []IInv
<1>1. WireInit => IInv
  BY InitInv
<1>2. IInv /\ [WireNext]_wireVars => IInv'
  BY NextKeeps
<1> QED
  BY <1>1, <1>2, PTL DEF WireSpec

-----------------------------------------------------------------------------
(* The requests.                                                           *)

LEMMA BlocksAre ==
    ASSUME NEW request, NEW kind
    PROVE  Blocks(request, kind) = WireIDs(request.messages, kind)
<1> DEFINE w == request.messages
<1>1. \A x : x \in Blocks(request, kind) <=> \E i \in DOMAIN w : \E p \in ToSet(w[i].blocks) : p.is = kind /\ p.id = x
  BY DEF Blocks, ToSet
<1>2. \A x : x \in WireIDs(w, kind) <=> \E i \in DOMAIN w : \E p \in ToSet(w[i].blocks) : p.is = kind /\ p.id = x
  BY IDsAre DEF WireIDs
<1> QED
  BY <1>1, <1>2

\* Every call of a conversation whose last message asks for nothing has its result.
LEMMA ConversationPaired ==
    ASSUME Conversation, phase # "tools"
    PROVE  UNION {IDs(chat[i].parts, "call") : i \in DOMAIN chat}
             = UNION {IDs(chat[i].parts, "result") : i \in DOMAIN chat}
<1> DEFINE N == Len(chat)
<1> DEFINE c(i) == IDs(chat[i].parts, "call")
<1> DEFINE r(i) == IDs(chat[i].parts, "result")
<1>1. N \in Nat /\ N > 0 /\ DOMAIN chat = 1 .. N
  BY LenProperties, EmptySeq DEF Conversation
<1>2. c(N) = {} /\ r(1) = {} /\ \A i \in 1 .. N - 1 : c(i) = r(i + 1)
  BY DEF Conversation
<1> HIDE DEF c, r
<1>3. ASSUME NEW i \in 1 .. N PROVE c(i) = {} \/ \E j \in 1 .. N : c(i) = r(j)
  <2>1. CASE i = N
    BY <1>2, <2>1
  <2>2. CASE i # N
    <3> DEFINE M == N
    <3>0. M \in Nat /\ i \in 1 .. M
      BY <1>1
    <3>1. i # M
      BY <2>2
    <3> HIDE DEF M
    <3>2. i \in 1 .. M - 1 /\ i + 1 \in 1 .. M
      BY <3>0, <3>1
    <3> QED
      BY <1>2, <3>2 DEF M
  <2> QED
    BY <2>1, <2>2
<1>4. ASSUME NEW i \in 1 .. N PROVE r(i) = {} \/ \E j \in 1 .. N : r(i) = c(j)
  <2>1. CASE i = 1
    BY <1>2, <2>1
  <2>2. CASE i # 1
    <3> DEFINE M == N
    <3>0. M \in Nat /\ i \in 1 .. M
      BY <1>1
    <3> HIDE DEF M
    <3>1. i - 1 \in 1 .. M - 1 /\ i - 1 \in 1 .. M /\ (i - 1) + 1 = i
      BY <2>2, <3>0
    <3>2. c(i - 1) = r((i - 1) + 1)
      BY <1>2, <3>1 DEF M
    <3> QED
      BY <3>1, <3>2 DEF M
  <2> QED
    BY <2>1, <2>2
<1>5. UNION {c(i) : i \in 1 .. N} = UNION {r(i) : i \in 1 .. N}
  BY <1>3, <1>4
<1> QED
  BY <1>1, <1>5 DEF c, r

\* What is sent of a conversation has its calls and results.
LEMMA ConversationSent ==
    ASSUME Conversation, phase # "tools", NEW cs, DOMAIN cs = DOMAIN chat,
           cs = [i \in DOMAIN chat |-> cs[i]],
           \A i \in DOMAIN chat : Sends(cs[i], chat[i])
    PROVE  WireIDs(Flat(cs), "call") = WireIDs(Flat(cs), "result")
<1> DEFINE N == Len(chat)
<1>1. N \in Nat /\ DOMAIN chat = 1 .. N
  BY LenProperties DEF Conversation
<1>2. \A i \in 1 .. N : cs[i] \in Seq(IsSent)
  BY <1>1 DEF Sends
<1>3. cs \in Seq(Seq(IsSent))
  BY <1>1, <1>2
<1>4. ASSUME NEW kind \in {"call", "result"}
      PROVE  WireIDs(Flat(cs), kind) = UNION {IDs(chat[i].parts, kind) : i \in DOMAIN chat}
  <2> DEFINE W(i) == WireIDs(cs[i], kind)
  <2> DEFINE I(i) == IDs(chat[i].parts, kind)
  <2>1. WireIDs(Flat(cs), kind) = UNION {W(i) : i \in DOMAIN cs}
    BY <1>3, EachSent
  <2>2. \A i \in DOMAIN chat : W(i) = I(i)
    BY DEF Sends
  <2> HIDE DEF W, I
  <2>3. UNION {W(i) : i \in DOMAIN cs} = UNION {I(i) : i \in DOMAIN chat}
    BY <2>2
  <2> QED
    BY <2>1, <2>3 DEF I
<1> QED
  BY <1>4, ConversationPaired

LEMMA ElementsFinite ==
    ASSUME NEW S, NEW s \in Seq(S)
    PROVE  IsFiniteSet(ToSet(s))
<1>1. Len(s) \in Nat /\ DOMAIN s = 1 .. Len(s)
  BY LenProperties
<1>2. IsFiniteSet(1 .. Len(s))
  BY <1>1, FS_Interval
<1>3. s \in Surjection(1 .. Len(s), ToSet(s))
  <2>1. s = [i \in 1 .. Len(s) |-> s[i]]
    BY <1>1
  <2>2. s \in [1 .. Len(s) -> ToSet(s)]
    BY <1>1, <2>1 DEF ToSet
  <2> QED
    BY <1>1, <2>2 DEF Surjection, ToSet
<1> QED
  BY <1>2, <1>3, FS_Surjection

\* Without a reply of several calls, no message has several results either.
LEMMA OneByOne ==
    ASSUME Conversation, Batches \subseteq {0, 1}
    PROVE  \A i \in DOMAIN chat : Single(chat[i])
<1> DEFINE N == Len(chat)
<1>1. /\ N \in Nat /\ DOMAIN chat = 1 .. N
      /\ \A i \in 1 .. N : chat[i].parts \in Seq(Parts) /\ Proper(chat[i])
  <2>1. chat \in Seq(Message) /\ \A i \in 1 .. N : Proper(chat[i])
    BY DEF Conversation
  <2>2. N \in Nat /\ DOMAIN chat = 1 .. N /\ \A i \in 1 .. N : chat[i] \in Message
    BY <2>1, LenProperties, ElementOfSeq
  <2> QED
    BY <2>1, <2>2 DEF Message
<1>2. ASSUME NEW i \in 1 .. N, NEW x \in IDs(chat[i].parts, "call"), NEW y \in IDs(chat[i].parts, "call")
      PROVE  x = y
  <2> DEFINE a == Of(chat[i].parts, {"call"})
  <2>1. a \in Seq(Parts) /\ ToSet(a) = {p \in ToSet(chat[i].parts) : p.is \in {"call"}}
    BY <1>1, OfParts
  <2>2. Cardinality(ToSet(a)) \in {0, 1}
    BY <1>1 DEF Batches
  <2> HIDE DEF a
  <2>3. IsFiniteSet(ToSet(a))
    BY <2>1, ElementsFinite
  <2>4. \A p, q \in ToSet(a) : p = q
    BY <2>2, <2>3, FS_EmptySet, FS_Singleton
  <2>5. PICK p \in ToSet(a) : p.id = x
    BY <2>1, IDsAre
  <2>6. PICK q \in ToSet(a) : q.id = y
    BY <2>1, IDsAre
  <2> QED
    BY <2>4, <2>5, <2>6
<1>3. ASSUME NEW i \in 1 .. N, NEW x \in IDs(chat[i].parts, "result"), NEW y \in IDs(chat[i].parts, "result")
      PROVE  x = y
  <2>1. i # 1
    BY DEF Conversation
  <2>2. i - 1 \in 1 .. N - 1 /\ i - 1 \in 1 .. N /\ (i - 1) + 1 = i
    BY <1>1, <2>1
  <2>3. IDs(chat[i - 1].parts, "call") = IDs(chat[(i - 1) + 1].parts, "result")
    BY <2>2 DEF Conversation
  <2> QED
    BY <1>2, <2>2, <2>3
<1>4. ASSUME NEW i \in 1 .. N, IDs(chat[i].parts, "result") # {} PROVE IDs(chat[i].parts, "call") = {}
  BY <1>1, <1>4 DEF Proper, IDs
<1>5. ASSUME NEW i \in 1 .. N PROVE Single(chat[i])
  BY <1>2, <1>3, <1>4 DEF Single
<1> QED
  BY <1>1, <1>5

\* The thinking budget of an Anthropic request.
LEMMA BudgetBelow ==
    ASSUME NEW thoughts, NEW max \in Int, max > 0
    PROVE  /\ AnthropicBudget(thoughts, max) < max \/ AnthropicBudget(thoughts, max) = 0
           /\ max > MinBudget => \/ AnthropicBudget(thoughts, max) >= MinBudget
                                \/ AnthropicBudget(thoughts, max) = 0
<1>1. CASE thoughts \in {"", "false"}
  BY <1>1 DEF AnthropicBudget
<1>2. CASE thoughts \notin {"", "false"}
  <2> DEFINE tenths == CASE thoughts = "low" -> 1 [] thoughts = "high" -> 3
                         [] thoughts = "xhigh" -> 4 [] OTHER -> 2
  <2> DEFINE share == Max2(MinBudget, (max * tenths) \div 10)
  <2>1. AnthropicBudget(thoughts, max) = IF share >= max THEN max - 1 ELSE share
    BY <1>2 DEF AnthropicBudget
  <2>2. share \in Int /\ share >= MinBudget
    <3>1. tenths \in {1, 2, 3, 4}
      OBVIOUS
    <3> HIDE DEF tenths
    <3>2. (max * tenths) \div 10 \in Int
      BY <3>1
    <3> QED
      BY <3>2 DEF Max2, MinBudget
  <2> HIDE DEF share
  <2> QED
    BY <2>1, <2>2 DEF MinBudget
<1> QED
  BY <1>1, <1>2

\* Every call of the messages has its result among them, as they are sent.
LEMMA RequestPaired ==
    ASSUME IInv, phase = "asked", provider \notin {"openai", "ollama"} \/ Batches \subseteq {0, 1}
    PROVE  Blocks(wire, "call") = Blocks(wire, "result")
<1>1. /\ Conversation /\ wire = Request /\ phase # "tools"
      /\ provider \in {"openai", "anthropic", "ollama", "responses", "codex", "jetbrains"}
  BY DEF IInv, Providers
<1>2. \A i \in DOMAIN chat : chat[i] \in Message /\ Proper(chat[i])
  <2>1. chat \in Seq(Message) /\ \A i \in 1 .. Len(chat) : Proper(chat[i])
    BY <1>1 DEF Conversation
  <2> QED
    BY <2>1, LenProperties, ElementOfSeq
<1>3. SUFFICES WireIDs(wire.messages, "call") = WireIDs(wire.messages, "result")
  BY BlocksAre
<1>4. CASE provider = "openai"
  <2> DEFINE cs == [i \in DOMAIN chat |-> ToOpenAI(chat[i])]
  <2>1. wire.messages = Flat(cs)
    BY <1>1, <1>4 DEF Request, OpenAIRequest, EachMessage
  <2>2. \A i \in DOMAIN chat : Sends(cs[i], chat[i])
    BY <1>1, <1>2, <1>4, OneByOne, OpenAISends
  <2>3. DOMAIN cs = DOMAIN chat /\ cs = [i \in DOMAIN chat |-> cs[i]]
    OBVIOUS
  <2> HIDE DEF cs
  <2> QED
    BY <1>1, <2>1, <2>2, <2>3, ConversationSent
<1>5. CASE provider = "ollama"
  <2> DEFINE cs == [i \in DOMAIN chat |-> ToOllama(chat[i])]
  <2>1. wire.messages = Flat(cs)
    BY <1>1, <1>5 DEF Request, OllamaRequest, EachMessage
  <2>2. \A i \in DOMAIN chat : Sends(cs[i], chat[i])
    BY <1>1, <1>2, <1>5, OneByOne, OllamaSends
  <2>3. DOMAIN cs = DOMAIN chat /\ cs = [i \in DOMAIN chat |-> cs[i]]
    OBVIOUS
  <2> HIDE DEF cs
  <2> QED
    BY <1>1, <2>1, <2>2, <2>3, ConversationSent
<1>6. CASE provider = "anthropic"
  <2> DEFINE cs == [i \in DOMAIN chat |-> ToAnthropic(chat[i])]
  <2>1. wire.messages = Flat(cs)
    BY <1>1, <1>6 DEF Request, AnthropicRequest, EachMessage
  <2>2. \A i \in DOMAIN chat : Sends(cs[i], chat[i])
    BY <1>2, AnthropicSends
  <2>3. DOMAIN cs = DOMAIN chat /\ cs = [i \in DOMAIN chat |-> cs[i]]
    OBVIOUS
  <2> HIDE DEF cs
  <2> QED
    BY <1>1, <2>1, <2>2, <2>3, ConversationSent
<1>7. CASE provider \in {"responses", "codex", "jetbrains"}
  <2> DEFINE cs == [i \in DOMAIN chat |-> ToResponses(chat[i])]
  <2>1. wire.messages = Flat(cs)
    BY <1>1, <1>7 DEF Request, ResponsesRequest, JetBrainsRequest, EachMessage
  <2>2. \A i \in DOMAIN chat : Sends(cs[i], chat[i])
    BY <1>2, ResponsesSends
  <2>3. DOMAIN cs = DOMAIN chat /\ cs = [i \in DOMAIN chat |-> cs[i]]
    OBVIOUS
  <2> HIDE DEF cs
  <2> QED
    BY <1>1, <2>1, <2>2, <2>3, ConversationSent
<1> QED
  BY <1>1, <1>4, <1>5, <1>6, <1>7

\* The options of a request.
LEMMA OptionsFit ==
    ASSUME WireAssumption, IInv, phase = "asked"
    PROVE  /\ wire.options.budget < wire.options.max \/ wire.options.budget = 0
           /\ wire.options.max > MinBudget
                 => wire.options.budget >= MinBudget \/ wire.options.budget = 0
           /\ provider = "anthropic" => Cardinality(wire.options.sampling) <= 1
<1>1. wire = Request /\ provider \in Providers /\ setting.max \in Int
  BY DEF IInv, WireAssumption
<1>2. CASE provider = "anthropic"
  <2> DEFINE max == MaxTokens(setting.max)
  <2>1. /\ wire.options.max = max /\ wire.options.budget = AnthropicBudget(setting.thinking, max)
        /\ wire.options.sampling = IF setting.temperature THEN {"temperature"} ELSE Sampling(setting)
    BY <1>1, <1>2 DEF Request, AnthropicRequest, AnthropicOptions
  <2>2. max \in Int /\ max > 0
    BY <1>1 DEF MaxTokens, DefaultMaxTokens
  <2> HIDE DEF max
  <2>3. /\ wire.options.budget < wire.options.max \/ wire.options.budget = 0
        /\ wire.options.max > MinBudget
              => wire.options.budget >= MinBudget \/ wire.options.budget = 0
    BY <2>1, <2>2, BudgetBelow
  <2>4. wire.options.sampling \in {{}, {"topP"}, {"temperature"}}
    <3>1. CASE setting.temperature
      BY <2>1, <3>1
    <3>2. CASE ~setting.temperature
      <4>1. Sampling(setting) = {} \/ Sampling(setting) = {"topP"}
        BY <3>2 DEF Sampling
      <4> QED
        BY <2>1, <3>2, <4>1
    <3> QED
      BY <3>1, <3>2
  <2>5. Cardinality(wire.options.sampling) \in {0, 1}
    BY <2>4, FS_EmptySet, FS_Singleton
  <2> QED
    BY <2>3, <2>5
<1>3. CASE provider # "anthropic"
  <2>1. wire.options.budget = 0
    BY <1>1, <1>3 DEF Providers, Request, OpenAIRequest, OllamaRequest, ResponsesRequest,
       JetBrainsRequest, OpenAIOptions, OllamaOptions, ResponsesOptions, JetBrainsOptions
  <2> QED
    BY <1>3, <2>1
<1> QED
  BY <1>2, <1>3

\* The requests of a session have their form: every call shown has its result, thinking
\* stays below the output limit and has its minimum where the limit is above that,
\* Anthropic gets one sampling option (the *_conversion.go files, buildAnthropicThinking).
THEOREM WireRequestsWellFormed ==
    ASSUME WireAssumption
    PROVE  WireSpec => []RequestsWellFormed
<1>1. IInv => RequestsWellFormed
  BY RequestPaired, OptionsFit DEF RequestsWellFormed
<1> QED
  BY <1>1, WireInvariant, PTL

\* A call of a streamed reply that the session runs was sent to its last argument,
\* wherever the stream broke off (convertFromResponsesStreamBody).
THEOREM WireCallsWhole ==
    ASSUME WireAssumption
    PROVE  WireSpec => []RepliesWhole
<1>1. ASSUME IInv, provider \in Streams PROVE RepliesWhole
  <2>1. ASSUME NEW i \in DOMAIN chat PROVE ToSet(Of(chat[i].parts, {"call"})) \subseteq said
    <3>1. chat \in Seq(Message) /\ i \in 1 .. Len(chat)
      BY <1>1, LenProperties DEF IInv, Conversation
    <3>2. chat[i].parts \in Seq(Parts)
      <4>1. chat[i] \in Message
        BY <3>1, ElementOfSeq
      <4> QED
        BY <4>1 DEF Message
    <3>3. \A p \in ToSet(chat[i].parts) : p.is = "call" => p \in said
      BY <1>1, <3>1 DEF IInv, Conversation
    <3>4. ToSet(Of(chat[i].parts, {"call"})) = {p \in ToSet(chat[i].parts) : p.is \in {"call"}}
      BY <3>2, OfParts
    <3> QED
      BY <3>3, <3>4
  <2> QED
    BY <2>1 DEF RepliesWhole
<1>2. IInv => RepliesWhole
  BY <1>1 DEF RepliesWhole
<1> QED
  BY <1>2, WireInvariant, PTL

\* The cached prefix of a conversation stays valid: a request goes on where the one
\* before it ended, over runs and whatever order the registry lists the tools in
\* (convertToolsToOpenAI, convertToolsToAnthropic).
THEOREM WirePrefixStable ==
    ASSUME WireAssumption
    PROVE  WireSpec => PromptPrefixStable
<1>1. ASSUME IInv, [WireNext]_wireVars PROVE [PrefixKept]_wire
  <2>1. CASE wire' = wire
    BY <2>1
  <2>2. CASE wire' # wire
    <3>1. Send
      BY <1>1, <2>2 DEF WireNext, Answered, Streamed, StreamFails, BodyFails, Refused, Broken,
         RunTools, NextPrompt, wireVars
    <3>2. wire' = Request
      BY <3>1 DEF Send
    <3>3. provider \in Ordered /\ wire # <<>> => Begins(wire, Request)
      BY <1>1 DEF IInv
    <3>4. PrefixKept
      BY <3>2, <3>3 DEF PrefixKept, Begins, Ordered, CacheMark
    <3> QED
      BY <3>4
  <2> QED
    BY <2>1, <2>2
<1>2. IInv /\ [WireNext]_wireVars => [PrefixKept]_wire
  BY <1>1
<1> QED
  BY <1>2, WireInvariant, PTL DEF WireSpec, PromptPrefixStable

----------------------------------------------------------------------------
(* Replies that are streamed: whatever of them is read, unreadable or lost. *)
(* The text, the calls and the usage each need an invariant that says what  *)
(* the pieces read so far allow; the order of the pieces comes from how a    *)
(* server cuts a reply (Cut, Ended).                                        *)

----------------------------------------------------------------------------
(* What a server streams.                                                   *)

CallEvents == {"call", "whole", "called"}
EventsOf(c) ==
    CASE c = "openai" -> {"text", "think", "call", "arguments", "finish", "usage", "done"}
      [] c = "anthropic" -> {"text", "think", "call", "arguments", "finish", "stop"}
      [] c = "ollama" -> {"text", "think", "whole", "finish"}
      [] OTHER -> {"text", "think", "call", "arguments", "called", "completed", "done"}
Labels == STRING \cup {"", "usage"}
Pieces(c) == [event : EventsOf(c), id : Labels]
ReplyParts == [is : {"text", "think", "call"}, id : STRING]

\* An event of a call comes once, and the call itself right before its arguments.
Cut(s) ==
    /\ \A i, j \in 1 .. Len(s) :
          (s[i].event \in CallEvents /\ s[j].event = s[i].event /\ s[j].id = s[i].id) => i = j
    /\ \A j \in 1 .. Len(s) : s[j].event = "arguments" =>
          \E i \in 1 .. Len(s) : /\ i < j /\ j <= i + ArgumentPieces
                                 /\ s[i].event = "call" /\ s[i].id = s[j].id
    /\ \A i \in 1 .. Len(s) : s[i].event = "call" =>
          /\ i + ArgumentPieces <= Len(s)
          /\ \A j \in 1 .. Len(s) : (i < j /\ j <= i + ArgumentPieces) =>
                s[j].event = "arguments" /\ s[j].id = s[i].id

\* Its calls have these names.
IsNamed(s, ids) == \A i \in 1 .. Len(s) : s[i].event \in CallEvents => s[i].id \in ids

\* Nothing of it says what the reply cost.
Counted == {"finish", "usage", "completed"}
Uncounted(s) == \A i \in 1 .. Len(s) : s[i].event \notin Counted

LEMMA CutConcat ==
    ASSUME NEW S, NEW a \in Seq(S), NEW b \in Seq(S), Cut(a), Cut(b),
           NEW A, NEW B, IsNamed(a, A), IsNamed(b, B), A \cap B = {}
    PROVE  Cut(a \o b) /\ IsNamed(a \o b, A \cup B)
<1> DEFINE s == a \o b
           m == Len(a)
           n == Len(b)
<1>1. /\ m \in Nat /\ n \in Nat /\ Len(s) = m + n
      /\ \A i \in 1 .. m : s[i] = a[i] /\ i \in 1 .. m + n
      /\ \A i \in 1 .. m + n : ~(i <= m) => i - m \in 1 .. n /\ s[i] = b[i - m]
      /\ \A i \in 1 .. n : s[m + i] = b[i] /\ m + i \in 1 .. m + n
  BY ConcatProperties, LenProperties
<1> HIDE DEF s
<1>2. /\ Cut(a) /\ Cut(b) /\ IsNamed(a, A) /\ IsNamed(b, B)
  OBVIOUS
<1>3. ASSUME NEW i \in 1 .. m + n, NEW j \in 1 .. m + n,
             s[i].event \in CallEvents, s[j].event = s[i].event, s[j].id = s[i].id
      PROVE  i = j
  <2>1. CASE i <= m /\ j <= m
    BY <1>1, <1>2, <1>3, <2>1 DEF Cut
  <2>2. CASE ~(i <= m) /\ ~(j <= m)
    <3>1. /\ i - m \in 1 .. n /\ j - m \in 1 .. n /\ b[i - m].event \in CallEvents
          /\ b[j - m].event = b[i - m].event /\ b[j - m].id = b[i - m].id
      BY <1>1, <1>3, <2>2
    <3>2. i - m = j - m
      BY <1>2, <3>1 DEF Cut
    <3> QED
      BY <1>1, <3>2
  <2>3. CASE i <= m /\ ~(j <= m)
    <3>1. a[i].event \in CallEvents /\ b[j - m].event \in CallEvents /\ a[i].id = b[j - m].id
          /\ i \in 1 .. m /\ j - m \in 1 .. n
      BY <1>1, <1>3, <2>3
    <3> QED
      BY <1>2, <3>1 DEF IsNamed
  <2>4. CASE ~(i <= m) /\ j <= m
    <3>1. b[i - m].event \in CallEvents /\ a[j].event \in CallEvents /\ a[j].id = b[i - m].id
          /\ j \in 1 .. m /\ i - m \in 1 .. n
      BY <1>1, <1>3, <2>4
    <3> QED
      BY <1>2, <3>1 DEF IsNamed
  <2> QED
    BY <2>1, <2>2, <2>3, <2>4
<1>4. ASSUME NEW j \in 1 .. m + n, s[j].event = "arguments"
      PROVE  \E i \in 1 .. m + n : /\ i < j /\ j <= i + ArgumentPieces
                                   /\ s[i].event = "call" /\ s[i].id = s[j].id
  <2>1. CASE j <= m
    <3>1. PICK i \in 1 .. m : i < j /\ j <= i + ArgumentPieces /\ a[i].event = "call" /\ a[i].id = a[j].id
      BY <1>1, <1>2, <1>4, <2>1 DEF Cut
    <3> QED
      BY <1>1, <2>1, <3>1
  <2>2. CASE ~(j <= m)
    <3>1. PICK i \in 1 .. n : /\ i < j - m /\ j - m <= i + ArgumentPieces
                              /\ b[i].event = "call" /\ b[i].id = b[j - m].id
      BY <1>1, <1>2, <1>4, <2>2 DEF Cut
    <3>2. m + i \in 1 .. m + n /\ m + i < j /\ j <= (m + i) + ArgumentPieces
      BY <1>1, <3>1 DEF ArgumentPieces
    <3> QED
      BY <1>1, <2>2, <3>1, <3>2
  <2> QED
    BY <2>1, <2>2
<1>5. ASSUME NEW i \in 1 .. m + n, s[i].event = "call"
      PROVE  /\ i + ArgumentPieces <= m + n
             /\ \A j \in 1 .. m + n : (i < j /\ j <= i + ArgumentPieces) =>
                   s[j].event = "arguments" /\ s[j].id = s[i].id
  <2>1. CASE i <= m
    <3>1. /\ i + ArgumentPieces <= m
          /\ \A j \in 1 .. m : (i < j /\ j <= i + ArgumentPieces) =>
                a[j].event = "arguments" /\ a[j].id = a[i].id
      BY <1>1, <1>2, <1>5, <2>1 DEF Cut
    <3>2. ASSUME NEW j \in 1 .. m + n, i < j, j <= i + ArgumentPieces
          PROVE  s[j].event = "arguments" /\ s[j].id = s[i].id
      <4>1. j \in 1 .. m
        BY <1>1, <2>1, <3>1, <3>2 DEF ArgumentPieces
      <4> QED
        BY <1>1, <2>1, <3>1, <3>2, <4>1
    <3> QED
      BY <1>1, <2>1, <3>1, <3>2 DEF ArgumentPieces
  <2>2. CASE ~(i <= m)
    <3>1. /\ (i - m) + ArgumentPieces <= n
          /\ \A j \in 1 .. n : (i - m < j /\ j <= (i - m) + ArgumentPieces) =>
                b[j].event = "arguments" /\ b[j].id = b[i - m].id
      BY <1>1, <1>2, <1>5, <2>2 DEF Cut
    <3>2. ASSUME NEW j \in 1 .. m + n, i < j, j <= i + ArgumentPieces
          PROVE  s[j].event = "arguments" /\ s[j].id = s[i].id
      <4>1. ~(j <= m) /\ j - m \in 1 .. n /\ i - m < j - m /\ j - m <= (i - m) + ArgumentPieces
        BY <1>1, <2>2, <3>2 DEF ArgumentPieces
      <4> QED
        BY <1>1, <2>2, <3>1, <4>1
    <3> QED
      BY <1>1, <3>1, <3>2 DEF ArgumentPieces
  <2> QED
    BY <2>1, <2>2
<1>6. Cut(s)
  BY <1>1, <1>3, <1>4, <1>5 DEF Cut
<1>7. IsNamed(s, A \cup B)
  BY <1>1, <1>2 DEF IsNamed
<1> QED
  BY <1>6, <1>7 DEF s

LEMMA UncountedConcat ==
    ASSUME NEW S, NEW a \in Seq(S), NEW b \in Seq(S), Uncounted(a), Uncounted(b)
    PROVE  Uncounted(a \o b)
<1>1. /\ Len(a) \in Nat /\ Len(b) \in Nat /\ Len(a \o b) = Len(a) + Len(b)
      /\ \A i \in 1 .. Len(a) + Len(b) : (a \o b)[i] = IF i <= Len(a) THEN a[i] ELSE b[i - Len(a)]
  BY ConcatProperties, LenProperties
<1> HIDE DEF Uncounted
<1>2. ASSUME NEW i \in 1 .. Len(a) + Len(b) PROVE (a \o b)[i].event \notin Counted
  <2>1. CASE i <= Len(a)
    BY <1>1, <2>1 DEF Uncounted
  <2>2. CASE ~(i <= Len(a))
    <3>1. i - Len(a) \in 1 .. Len(b) /\ (a \o b)[i] = b[i - Len(a)]
      BY <1>1, <2>2
    <3> QED
      BY <3>1 DEF Uncounted
  <2> QED
    BY <2>1, <2>2
<1> QED
  BY <1>1, <1>2 DEF Uncounted

LEMMA OneCut ==
    ASSUME NEW s, Len(s) = 1, s[1].event \notin Counted \cup {"call", "arguments"}
    PROVE  Cut(s) /\ Uncounted(s)
<1>1. \A i \in 1 .. Len(s) : i = 1
  OBVIOUS
<1> QED
  BY <1>1 DEF Cut, Uncounted

LEMMA CallCut ==
    ASSUME NEW s, Len(s) = 3 \/ (Len(s) = 4 /\ s[4].event = "called"),
           s[1].event = "call", s[2].event = "arguments", s[3].event = "arguments",
           NEW id, \A i \in 1 .. Len(s) : s[i].id = id
    PROVE  Cut(s) /\ Uncounted(s)
<1> DEFINE n == Len(s)
<1>1. 1 \in 1 .. n /\ 3 <= n /\ \A i \in 1 .. n : i = 1 \/ i = 2 \/ i = 3 \/ (i = 4 /\ s[4].event = "called")
  <2>1. CASE n = 3
    <3>1. \A i \in 1 .. 3 : i = 1 \/ i = 2 \/ i = 3
      OBVIOUS
    <3> QED
      BY <2>1, <3>1
  <2>2. CASE n = 4 /\ s[4].event = "called"
    <3>1. \A i \in 1 .. 4 : i = 1 \/ i = 2 \/ i = 3 \/ i = 4
      OBVIOUS
    <3> QED
      BY <2>2, <3>1
  <2> QED
    BY <2>1, <2>2
<1> HIDE DEF n
<1>2. \A i \in 1 .. n : s[i].id = id
  BY DEF n
<1>3. \A i, j \in 1 .. n : (s[i].event \in CallEvents /\ s[j].event = s[i].event) => i = j
  BY <1>1 DEF CallEvents
<1>4. ASSUME NEW j \in 1 .. n, s[j].event = "arguments"
      PROVE  1 < j /\ j <= 1 + 2 /\ s[1].id = s[j].id
  <2>1. j = 2 \/ j = 3
    BY <1>1, <1>4
  <2> QED
    BY <1>1, <1>2, <2>1
<1>5. \A i \in 1 .. n : s[i].event = "call" => i = 1
  BY <1>1
<1>6. ASSUME NEW j \in 1 .. n, 1 < j, j <= 1 + 2
      PROVE  s[j].event = "arguments" /\ s[j].id = s[1].id
  <2>1. j = 2 \/ j = 3
    BY <1>1, <1>6
  <2> QED
    BY <1>1, <1>2, <2>1
<1>7. Cut(s)
  <2>1. \A j \in 1 .. n : s[j].event = "arguments" =>
           \E i \in 1 .. n : i < j /\ j <= i + 2 /\ s[i].event = "call" /\ s[i].id = s[j].id
    BY <1>1, <1>4
  <2> QED
    BY <1>1, <1>3, <1>5, <1>6, <2>1 DEF Cut, ArgumentPieces, n
<1>8. Uncounted(s)
  BY <1>1 DEF Uncounted, Counted, n
<1> QED
  BY <1>7, <1>8

\* The pieces of a part.
LEMMA PartCut ==
    ASSUME NEW c \in Clients, NEW part \in ReplyParts
    PROVE  LET s == PiecesOf(c, part)
           IN  /\ s \in Seq(Pieces(c)) /\ Cut(s) /\ Uncounted(s)
               /\ IsNamed(s, IF part.is = "call" THEN {part.id} ELSE {})
<1> DEFINE s == PiecesOf(c, part)
           call == Piece("call", part.id)
           argument == Piece("arguments", part.id)
           args == [i \in 1 .. ArgumentPieces |-> argument]
<1>1. part.is \in {"text", "think", "call"} /\ part.id \in STRING
  BY DEF ReplyParts
<1>2. \A e \in EventsOf(c) : Piece(e, part.id) \in Pieces(c)
  BY <1>1 DEF Piece, Pieces, Labels
<1>3. \A e : Piece(e, part.id).event = e /\ Piece(e, part.id).id = part.id
  BY DEF Piece
<1>4. CASE part.is # "call"
  <2>1. s = <<Piece(part.is, part.id)>> /\ part.is \in EventsOf(c)
    BY <1>1, <1>4 DEF PiecesOf, EventsOf, Clients
  <2>2. s \in Seq(Pieces(c)) /\ Len(s) = 1 /\ s[1] = Piece(part.is, part.id)
    BY <1>2, <2>1
  <2> HIDE DEF s
  <2>3. s[1].event = part.is
    BY <1>3, <2>2
  <2>4. Cut(s) /\ Uncounted(s)
    BY <1>1, <1>4, <2>2, <2>3, OneCut DEF Counted
  <2>5. IsNamed(s, {})
    <3>1. \A i \in 1 .. 1 : i = 1
      OBVIOUS
    <3> QED
      BY <1>1, <1>4, <2>2, <2>3, <3>1 DEF IsNamed, CallEvents
  <2> QED
    BY <1>4, <2>2, <2>4, <2>5 DEF s
<1>5. CASE part.is = "call" /\ c = "ollama"
  <2>1. s = <<Piece("whole", part.id)>> /\ "whole" \in EventsOf(c)
    BY <1>5 DEF PiecesOf, EventsOf, Clients
  <2>2. s \in Seq(Pieces(c)) /\ Len(s) = 1 /\ s[1] = Piece("whole", part.id)
    <3>1. Piece("whole", part.id) \in Pieces(c)
      BY <1>2, <2>1
    <3> QED
      BY <2>1, <3>1
  <2> HIDE DEF s
  <2>3. s[1].event = "whole" /\ s[1].id = part.id
    BY <1>3, <2>2
  <2>4. Cut(s) /\ Uncounted(s)
    BY <2>2, <2>3, OneCut DEF Counted
  <2>5. IsNamed(s, {part.id})
    <3>1. \A i \in 1 .. 1 : i = 1
      OBVIOUS
    <3> QED
      BY <2>2, <2>3, <3>1 DEF IsNamed
  <2> QED
    BY <1>5, <2>2, <2>4, <2>5 DEF s
<1> DEFINE t == <<call>> \o args
<1>6. ASSUME "call" \in EventsOf(c), "arguments" \in EventsOf(c)
      PROVE  t \in Seq(Pieces(c)) /\ Len(t) = 3 /\ t[1] = call /\ t[2] = argument /\ t[3] = argument
  <2>1. call \in Pieces(c) /\ argument \in Pieces(c)
    BY <1>2, <1>6
  <2> HIDE DEF call, argument
  <2>2. <<call>> \in Seq(Pieces(c)) /\ Len(<<call>>) = 1 /\ <<call>>[1] = call
        /\ args \in Seq(Pieces(c)) /\ Len(args) = 2 /\ args[1] = argument /\ args[2] = argument
    BY <2>1 DEF ArgumentPieces
  <2> DEFINE u == <<call>>
  <2> HIDE DEF args, u
  <2>3. u \o args \in Seq(Pieces(c)) /\ Len(u \o args) = 3
        /\ \A i \in 1 .. 3 : (u \o args)[i] = IF i <= 1 THEN u[i] ELSE args[i - 1]
    <3>1. u \in Seq(Pieces(c)) /\ Len(u) = 1
      BY <2>2 DEF u
    <3> QED
      BY <2>2, <3>1, ConcatProperties
  <2>4. (u \o args)[1] = call /\ (u \o args)[2] = argument /\ (u \o args)[3] = argument
    <3>1. (u \o args)[1] = u[1] /\ (u \o args)[2] = args[1] /\ (u \o args)[3] = args[2]
      BY <2>3
    <3>2. u[1] = call
      BY <2>2 DEF u
    <3> QED
      BY <2>2, <3>1, <3>2
  <2> QED
    BY <2>3, <2>4 DEF u
<1>7. CASE part.is = "call" /\ c \in {"openai", "anthropic"}
  <2>1. s = t /\ "call" \in EventsOf(c) /\ "arguments" \in EventsOf(c)
    BY <1>7 DEF PiecesOf, EventsOf, Clients
  <2>2. t \in Seq(Pieces(c)) /\ Len(t) = 3 /\ t[1] = call /\ t[2] = argument /\ t[3] = argument
    BY <1>6, <2>1
  <2> HIDE DEF t
  <2>3. /\ t[1].event = "call" /\ t[2].event = "arguments" /\ t[3].event = "arguments"
        /\ t[1].id = part.id /\ t[2].id = part.id /\ t[3].id = part.id
    BY <1>3, <2>2
  <2>4. \A i \in 1 .. 3 : t[i].id = part.id
    <3>1. \A i \in 1 .. 3 : i = 1 \/ i = 2 \/ i = 3
      OBVIOUS
    <3> QED
      BY <2>3, <3>1
  <2>5. Cut(t) /\ Uncounted(t)
    BY <2>2, <2>3, <2>4, CallCut
  <2>6. IsNamed(t, {part.id})
    BY <2>2, <2>4 DEF IsNamed
  <2> QED
    BY <1>7, <2>1, <2>2, <2>5, <2>6
<1>8. CASE part.is = "call" /\ c \in {"responses", "jetbrains"}
  <2> DEFINE done == Piece("called", part.id)
  <2>1. /\ s = t \o <<done>>
        /\ "call" \in EventsOf(c) /\ "arguments" \in EventsOf(c) /\ "called" \in EventsOf(c)
    BY <1>8 DEF PiecesOf, EventsOf, Clients
  <2>2. t \in Seq(Pieces(c)) /\ Len(t) = 3 /\ t[1] = call /\ t[2] = argument /\ t[3] = argument
    BY <1>6, <2>1
  <2>3. done \in Pieces(c) /\ done.event = "called" /\ done.id = part.id
    BY <1>2, <1>3, <2>1
  <2> HIDE DEF t, done, s
  <2>4. s = Append(t, done)
    BY <2>1, <2>2, <2>3, AppendIsConcat
  <2>5. s \in Seq(Pieces(c)) /\ Len(s) = 3 + 1 /\ s[3 + 1] = done /\ \A i \in 1 .. 3 : s[i] = t[i]
    <3>1. /\ s \in Seq(Pieces(c)) /\ Len(s) = Len(t) + 1 /\ s[Len(t) + 1] = done
          /\ \A i \in 1 .. Len(t) : s[i] = t[i]
      <4>1. t \in Seq(Pieces(c)) /\ done \in Pieces(c)
        BY <2>2, <2>3
      <4>2. /\ Append(t, done) \in Seq(Pieces(c)) /\ Len(Append(t, done)) = Len(t) + 1
            /\ Append(t, done)[Len(t) + 1] = done /\ \A i \in 1 .. Len(t) : Append(t, done)[i] = t[i]
        BY <4>1, AppendProperties
      <4> QED
        BY <2>4, <4>2
    <3>2. Len(t) = 3
      BY <2>2
    <3> QED
      BY <3>1, <3>2
  <2>6. /\ s[1].event = "call" /\ s[2].event = "arguments" /\ s[3].event = "arguments" /\ s[4].event = "called"
        /\ s[1].id = part.id /\ s[2].id = part.id /\ s[3].id = part.id /\ s[4].id = part.id
    <3>1. s[1] = t[1] /\ s[2] = t[2] /\ s[3] = t[3] /\ s[4] = done
      BY <2>5
    <3> QED
      BY <1>3, <2>2, <2>3, <3>1
  <2>7. \A i \in 1 .. 4 : s[i].id = part.id
    <3>1. \A i \in 1 .. 4 : i = 1 \/ i = 2 \/ i = 3 \/ i = 4
      OBVIOUS
    <3> QED
      BY <2>6, <3>1
  <2>8. Len(s) = 4
    BY <2>5
  <2>9. Cut(s) /\ Uncounted(s)
    BY <2>6, <2>7, <2>8, CallCut
  <2>10. IsNamed(s, {part.id})
    BY <2>7, <2>8 DEF IsNamed
  <2> QED
    BY <1>8, <2>5, <2>9, <2>10 DEF s
<1> QED
  BY <1>1, <1>4, <1>5, <1>7, <1>8 DEF Clients

\* The pieces of the parts of a reply.
LEMMA PartsCut ==
    ASSUME NEW c \in Clients, NEW parts \in Seq(ReplyParts),
           \A i, j \in DOMAIN parts :
               (parts[i].is = "call" /\ parts[j].is = "call" /\ parts[i].id = parts[j].id) => i = j
    PROVE  Reply(c, parts) \in Seq(Pieces(c)) /\ Cut(Reply(c, parts)) /\ Uncounted(Reply(c, parts))
<1> DEFINE N == Len(parts)
           ss == [i \in 1 .. N |-> PiecesOf(c, parts[i])]
           Called(n) == {parts[i].id : i \in {k \in 1 .. n : parts[k].is = "call"}}
           Good(s) == s \in Seq(Pieces(c)) /\ Cut(s) /\ Uncounted(s)
<1>1. N \in Nat /\ DOMAIN parts = 1 .. N /\ \A i \in 1 .. N : parts[i] \in ReplyParts
  BY LenProperties, ElementOfSeq
<1>2. \A i \in 1 .. N : ss[i] \in Seq(Pieces(c)) /\ Good(ss[i])
  BY <1>1, PartCut
<1>3. \A i \in 1 .. N : IsNamed(ss[i], IF parts[i].is = "call" THEN {parts[i].id} ELSE {})
  BY <1>1, PartCut
<1>4. ss \in Seq(Seq(Pieces(c))) /\ Len(ss) = N /\ Reply(c, parts) = Flat(ss)
  BY <1>1, <1>2 DEF Reply
<1> HIDE DEF ss
<1>5. PICK f : FlatRun(f, ss, Pieces(c))
  BY <1>4, FlatSteps
<1>6. f[0] = <<>> /\ Flat(ss) = f[N] /\ \A n \in 1 .. N : f[n] = f[n - 1] \o ss[n]
  BY <1>4, <1>5 DEF FlatRun
<1> DEFINE T == {n \in Nat : n <= N => Good(f[n]) /\ IsNamed(f[n], Called(n))}
<1>7. 0 \in T
  <2>1. <<>> \in Seq(Pieces(c)) /\ Len(<<>>) = 0
    OBVIOUS
  <2>2. Cut(<<>>) /\ Uncounted(<<>>) /\ IsNamed(<<>>, Called(0))
    BY <2>1 DEF Cut, Uncounted, IsNamed
  <2> QED
    BY <1>6, <2>1, <2>2
<1>8. ASSUME NEW n \in Nat, n \in T PROVE n + 1 \in T
  <2>1. SUFFICES ASSUME n + 1 <= N PROVE Good(f[n + 1]) /\ IsNamed(f[n + 1], Called(n + 1))
    OBVIOUS
  <2>2. /\ Good(f[n]) /\ IsNamed(f[n], Called(n)) /\ n + 1 \in 1 .. N
        /\ f[n + 1] = f[n] \o ss[n + 1]
    <3>1. n + 1 \in 1 .. N /\ (n + 1) - 1 = n /\ n <= N
      BY <1>1, <2>1
    <3>2. f[n + 1] = f[n] \o ss[n + 1]
      BY <1>6, <3>1
    <3>3. Good(f[n]) /\ IsNamed(f[n], Called(n))
      BY <1>8, <3>1
    <3> QED
      BY <3>1, <3>2, <3>3
  <2> DEFINE B == IF parts[n + 1].is = "call" THEN {parts[n + 1].id} ELSE {}
  <2>3. Good(ss[n + 1]) /\ IsNamed(ss[n + 1], B)
    BY <1>2, <1>3, <2>2
  <2>4. Called(n) \cap B = {}
    <3>1. ASSUME NEW k \in 1 .. n, parts[k].is = "call", parts[n + 1].is = "call", parts[k].id = parts[n + 1].id
          PROVE  FALSE
      <4>1. k \in DOMAIN parts /\ n + 1 \in DOMAIN parts /\ k # n + 1
        BY <1>1, <2>2
      <4> QED
        BY <3>1, <4>1
    <3> QED
      BY <3>1
  <2>5. Called(n) \cup B = Called(n + 1)
    <3>1. 1 .. n + 1 = (1 .. n) \cup {n + 1}
      OBVIOUS
    <3> QED
      BY <3>1
  <2> HIDE DEF Called, B
  <2> DEFINE x == f[n]
             y == ss[n + 1]
  <2>6. /\ x \in Seq(Pieces(c)) /\ Cut(x) /\ Uncounted(x) /\ IsNamed(x, Called(n))
        /\ y \in Seq(Pieces(c)) /\ Cut(y) /\ Uncounted(y) /\ IsNamed(y, B)
    BY <2>2, <2>3
  <2>7. f[n + 1] = x \o y
    BY <2>2
  <2> HIDE DEF x, y
  <2>8. Cut(x \o y) /\ IsNamed(x \o y, Called(n) \cup B)
    BY <2>4, <2>6, CutConcat
  <2>9. Uncounted(x \o y) /\ x \o y \in Seq(Pieces(c))
    BY <2>6, UncountedConcat, ConcatProperties
  <2> QED
    BY <2>5, <2>7, <2>8, <2>9
<1>9. N \in T
  <2> HIDE DEF T
  <2> QED
    BY <1>1, <1>7, <1>8, InductionOnSets
<1> QED
  BY <1>1, <1>4, <1>6, <1>9

\* The usage is not counted before the piece that finishes a reply.
Ended(s) ==
    \A i, j \in 1 .. Len(s) :
        (i < j /\ s[j].event \in {"finish", "completed"}) => s[i].event \notin Counted

GoodScript(c, s) == s \in Seq(Pieces(c)) /\ Cut(s) /\ Ended(s)

\* What the end of a reply is made of.
Closes(s, c) ==
    /\ s \in Seq(Pieces(c))
    /\ \A i \in 1 .. Len(s) : s[i].event \in {"finish", "completed", "usage", "done", "stop"}
    /\ \A i \in 1 .. Len(s) : i = 1 \/ s[i].event \in {"usage", "done", "stop"}

LEMMA OneCloses ==
    ASSUME NEW c \in Clients, NEW a \in Pieces(c), a.event \in {"finish", "completed"}
    PROVE  Closes(<<a>>, c)
<1> DEFINE s == <<a>>
<1>1. s \in Seq(Pieces(c)) /\ Len(s) = 1 /\ s[1] = a
  OBVIOUS
<1> HIDE DEF s
<1>2. \A i \in 1 .. Len(s) : i = 1
  BY <1>1
<1> QED
  BY <1>1, <1>2 DEF Closes, s

LEMMA TwoClose ==
    ASSUME NEW c \in Clients, NEW a \in Pieces(c), NEW b \in Pieces(c),
           a.event \in {"finish", "completed"}, b.event \in {"usage", "done", "stop"}
    PROVE  Closes(<<a, b>>, c)
<1> DEFINE s == <<a, b>>
<1>1. s \in Seq(Pieces(c)) /\ Len(s) = 2 /\ s[1] = a /\ s[2] = b
  OBVIOUS
<1> HIDE DEF s
<1>2. \A i \in 1 .. Len(s) : i = 1 \/ i = 2
  BY <1>1
<1> QED
  BY <1>1, <1>2 DEF Closes, s

LEMMA ThreeClose ==
    ASSUME NEW c \in Clients, NEW a \in Pieces(c), NEW b \in Pieces(c), NEW d \in Pieces(c),
           a.event \in {"finish", "completed"}, b.event \in {"usage", "done", "stop"},
           d.event \in {"usage", "done", "stop"}
    PROVE  Closes(<<a, b, d>>, c)
<1> DEFINE s == <<a, b, d>>
<1>1. s \in Seq(Pieces(c)) /\ Len(s) = 3 /\ s[1] = a /\ s[2] = b /\ s[3] = d
  OBVIOUS
<1> HIDE DEF s
<1>2. \A i \in 1 .. Len(s) : i = 1 \/ i = 2 \/ i = 3
  BY <1>1
<1> QED
  BY <1>1, <1>2 DEF Closes, s

LEMMA ClosingCut ==
    ASSUME NEW c \in Clients, NEW s \in Closing(c)
    PROVE  /\ s \in Seq(Pieces(c)) /\ Cut(s) /\ IsNamed(s, {})
           /\ \A i \in 1 .. Len(s) : s[i].event \in {"finish", "completed"} => i = 1
<1>1. \A e \in EventsOf(c) : /\ Piece(e, "") \in Pieces(c) /\ Piece(e, "").event = e
                              /\ Piece(e, "usage") \in Pieces(c) /\ Piece(e, "usage").event = e
  BY DEF Piece, Pieces, Labels
<1>2. Closes(s, c)
  <2>1. CASE c = "openai"
    <3> DEFINE a == Piece("finish", "usage")
               a0 == Piece("finish", "")
               b == Piece("usage", "usage")
               d == Piece("done", "")
    <3>1. s = <<a, d>> \/ s = <<a0, b, d>>
      BY <2>1 DEF Closing
    <3>2. "finish" \in EventsOf(c) /\ "done" \in EventsOf(c) /\ "usage" \in EventsOf(c)
      BY <2>1 DEF EventsOf
    <3>3. /\ a \in Pieces(c) /\ a0 \in Pieces(c) /\ b \in Pieces(c) /\ d \in Pieces(c)
          /\ a.event = "finish" /\ a0.event = "finish" /\ b.event = "usage" /\ d.event = "done"
      BY <1>1, <3>2
    <3> HIDE DEF a, a0, b, d
    <3>4. Closes(<<a, d>>, c) /\ Closes(<<a0, b, d>>, c)
      BY <3>3, TwoClose, ThreeClose
    <3> QED
      BY <3>1, <3>4
  <2>2. CASE c = "anthropic"
    <3> DEFINE a == Piece("finish", "usage")
               b == Piece("stop", "")
    <3>1. s = <<a, b>>
      BY <2>2 DEF Closing
    <3>2. "finish" \in EventsOf(c) /\ "stop" \in EventsOf(c)
      BY <2>2 DEF EventsOf
    <3>3. a \in Pieces(c) /\ b \in Pieces(c) /\ a.event = "finish" /\ b.event = "stop"
      BY <1>1, <3>2
    <3> HIDE DEF a, b
    <3> QED
      BY <3>1, <3>3, TwoClose
  <2>3. CASE c = "ollama"
    <3> DEFINE a == Piece("finish", "usage")
    <3>1. s = <<a>>
      BY <2>3 DEF Closing
    <3>2. "finish" \in EventsOf(c)
      BY <2>3 DEF EventsOf
    <3>3. a \in Pieces(c) /\ a.event = "finish"
      BY <1>1, <3>2
    <3> HIDE DEF a
    <3> QED
      BY <3>1, <3>3, OneCloses
  <2>4. CASE c \in {"responses", "jetbrains"}
    <3> DEFINE a == Piece("completed", "usage")
               b == Piece("done", "")
    <3>1. s = <<a, b>>
      BY <2>4 DEF Closing
    <3>2. "completed" \in EventsOf(c) /\ "done" \in EventsOf(c)
      BY <2>4 DEF EventsOf
    <3>3. a \in Pieces(c) /\ b \in Pieces(c) /\ a.event = "completed" /\ b.event = "done"
      BY <1>1, <3>2
    <3> HIDE DEF a, b
    <3> QED
      BY <3>1, <3>3, TwoClose
  <2> QED
    BY <2>1, <2>2, <2>3, <2>4 DEF Clients
<1>3. Cut(s) /\ IsNamed(s, {})
  BY <1>2 DEF Closes, Cut, IsNamed, CallEvents
<1> QED
  BY <1>2, <1>3 DEF Closes

LEMMA ScriptGood ==
    ASSUME NEW c \in Clients, NEW parts \in Seq(ReplyParts),
           \A i, j \in DOMAIN parts :
               (parts[i].is = "call" /\ parts[j].is = "call" /\ parts[i].id = parts[j].id) => i = j,
           NEW closing \in Closing(c)
    PROVE  GoodScript(c, Reply(c, parts) \o closing)
<1> DEFINE a == Reply(c, parts)
           s == a \o closing
<1>1. a \in Seq(Pieces(c)) /\ Cut(a) /\ Uncounted(a)
  BY PartsCut
<1>2. /\ closing \in Seq(Pieces(c)) /\ Cut(closing) /\ IsNamed(closing, {})
      /\ \A i \in 1 .. Len(closing) : closing[i].event \in {"finish", "completed"} => i = 1
  BY ClosingCut
<1> HIDE DEF a, s
<1>3. IsNamed(a, {a[i].id : i \in 1 .. Len(a)})
  BY DEF IsNamed
<1>4. Cut(s)
  BY <1>1, <1>2, <1>3, CutConcat DEF s
<1>5. /\ s \in Seq(Pieces(c)) /\ Len(s) = Len(a) + Len(closing) /\ Len(a) \in Nat /\ Len(closing) \in Nat
      /\ \A i \in 1 .. Len(a) + Len(closing) : s[i] = IF i <= Len(a) THEN a[i] ELSE closing[i - Len(a)]
  BY <1>1, <1>2, ConcatProperties, LenProperties DEF s
<1>6. ASSUME NEW i \in 1 .. Len(s), NEW j \in 1 .. Len(s), i < j, s[j].event \in {"finish", "completed"}
      PROVE  s[i].event \notin Counted
  <2>1. ~(j <= Len(a))
    <3>1. \A k \in 1 .. Len(a) : a[k].event \notin {"finish", "completed"}
      BY <1>1 DEF Uncounted, Counted
    <3> QED
      BY <1>5, <1>6, <3>1
  <2>2. j - Len(a) \in 1 .. Len(closing) /\ s[j] = closing[j - Len(a)]
    BY <1>5, <2>1
  <2>3. j - Len(a) = 1
    BY <1>2, <1>6, <2>2
  <2>4. i \in 1 .. Len(a) /\ s[i] = a[i]
    BY <1>5, <1>6, <2>3
  <2> QED
    BY <1>1, <2>4 DEF Uncounted
<1>7. Ended(s)
  BY <1>6 DEF Ended
<1>8. GoodScript(c, s)
  BY <1>4, <1>5, <1>7 DEF GoodScript
<1> QED
  BY <1>8 DEF s, a

----------------------------------------------------------------------------
(* What was yielded.                                                        *)

YieldedParts == [is : {"text", "call", "usage"}, id : Labels, read : Nat]
OfKind(y, kind) == KeptIf(y, LAMBDA part : part.is = kind)

LEMMA OfKindIs ==
    ASSUME NEW y \in Seq(YieldedParts), NEW kind
    PROVE  /\ OfKind(y, kind) = Picked(y, {x \in YieldedParts : x.is = kind})
           /\ OfKind(y, kind) \in Seq(YieldedParts)
<1> DEFINE K == {i \in DOMAIN y : y[i].is = kind}
<1>1. \A i \in DOMAIN y : y[i] \in YieldedParts
  BY ElementOfSeq, LenProperties
<1>2. K = {i \in DOMAIN y : y[i] \in {x \in YieldedParts : x.is = kind}}
  BY <1>1
<1>3. OfKind(y, kind) = Kept(y, K)
  BY DEF OfKind, KeptIf
<1>4. K \in SUBSET DOMAIN y
  OBVIOUS
<1> HIDE DEF K
<1>5. Kept(y, K) \in Seq(YieldedParts)
  BY <1>4, KeptPlaces
<1> QED
  BY <1>2, <1>3, <1>5 DEF Picked

LEMMA OfKindConcat ==
    ASSUME NEW y \in Seq(YieldedParts), NEW z \in Seq(YieldedParts), NEW kind
    PROVE  OfKind(y \o z, kind) = OfKind(y, kind) \o OfKind(z, kind)
<1> DEFINE Q == {x \in YieldedParts : x.is = kind}
<1>1. y \o z \in Seq(YieldedParts)
  BY ConcatProperties
<1>2. OfKind(y \o z, kind) = Picked(y \o z, Q) /\ OfKind(y, kind) = Picked(y, Q) /\ OfKind(z, kind) = Picked(z, Q)
  BY <1>1, OfKindIs
<1> HIDE DEF Q
<1>3. Picked(y \o z, Q) = Picked(y, Q) \o Picked(z, Q)
  BY PickedConcat
<1> QED
  BY <1>2, <1>3

LEMMA OfKindNone ==
    ASSUME NEW y \in Seq(YieldedParts), NEW kind, \A i \in DOMAIN y : y[i].is # kind
    PROVE  OfKind(y, kind) = <<>>
<1>1. {i \in DOMAIN y : y[i].is = kind} = {}
  OBVIOUS
<1>2. OfKind(y, kind) = Kept(y, {})
  BY <1>1 DEF OfKind, KeptIf
<1> QED
  BY <1>2, KeptNone

LEMMA OfKindOne ==
    ASSUME NEW x \in YieldedParts
    PROVE  OfKind(<<x>>, x.is) = <<x>>
<1> DEFINE y == <<x>>
<1>1. y \in Seq(YieldedParts) /\ DOMAIN y = {1} /\ y[1] = x
  OBVIOUS
<1> HIDE DEF y
<1>2. {i \in DOMAIN y : y[i].is = x.is} = {1}
  BY <1>1
<1>3. OfKind(y, x.is) = Kept(y, {1})
  BY <1>2 DEF OfKind, KeptIf
<1>4. Kept(y, {1}) = <<y[1]>>
  BY <1>1, KeptOne
<1> QED
  BY <1>1, <1>3, <1>4 DEF y

LEMMA LabelsConcat ==
    ASSUME NEW S, NEW a \in Seq(S), NEW b \in Seq(S)
    PROVE  IDsOf(a \o b) = IDsOf(a) \o IDsOf(b)
<1> DEFINE T == {x.id : x \in S}
           u == IDsOf(a)
           v == IDsOf(b)
           w == IDsOf(a \o b)
<1>1. /\ a \o b \in Seq(S) /\ Len(a) \in Nat /\ Len(b) \in Nat
      /\ Len(a \o b) = Len(a) + Len(b)
      /\ \A i \in 1 .. Len(a) + Len(b) : (a \o b)[i] = IF i <= Len(a) THEN a[i] ELSE b[i - Len(a)]
  BY ConcatProperties, LenProperties
<1>2. ASSUME NEW s \in Seq(S)
      PROVE  IDsOf(s) \in Seq(T) /\ Len(IDsOf(s)) = Len(s) /\ \A i \in 1 .. Len(s) : IDsOf(s)[i] = s[i].id
  <2>1. DOMAIN s = 1 .. Len(s) /\ Len(s) \in Nat /\ \A i \in 1 .. Len(s) : s[i].id \in T
    BY LenProperties, ElementOfSeq
  <2>2. IDsOf(s) = [i \in 1 .. Len(s) |-> s[i].id]
    BY <2>1 DEF IDsOf
  <2> HIDE DEF T
  <2> QED
    BY <2>1, <2>2
<1>3. /\ u \in Seq(T) /\ v \in Seq(T) /\ w \in Seq(T)
      /\ Len(u) = Len(a) /\ Len(v) = Len(b) /\ Len(w) = Len(a) + Len(b)
      /\ \A i \in 1 .. Len(a) : u[i] = a[i].id
      /\ \A i \in 1 .. Len(b) : v[i] = b[i].id
      /\ \A i \in 1 .. Len(a) + Len(b) : w[i] = (a \o b)[i].id
  BY <1>1, <1>2
<1> HIDE DEF T, u, v, w
<1>4. /\ u \o v \in Seq(T) /\ Len(u \o v) = Len(a) + Len(b)
      /\ \A i \in 1 .. Len(a) + Len(b) : (u \o v)[i] = IF i <= Len(a) THEN u[i] ELSE v[i - Len(a)]
  <2>1. /\ u \o v \in Seq(T) /\ Len(u \o v) = Len(u) + Len(v)
        /\ \A i \in 1 .. Len(u) + Len(v) : (u \o v)[i] = IF i <= Len(u) THEN u[i] ELSE v[i - Len(u)]
    <3>1. u \in Seq(T) /\ v \in Seq(T)
      BY <1>3
    <3> QED
      BY <3>1, ConcatProperties
  <2>2. Len(u) = Len(a) /\ Len(v) = Len(b)
    BY <1>3
  <2> QED
    BY <2>1, <2>2
<1>5. ASSUME NEW i \in 1 .. Len(a) + Len(b) PROVE w[i] = (u \o v)[i]
  <2>1. CASE i <= Len(a)
    BY <1>1, <1>3, <1>4, <2>1
  <2>2. CASE ~(i <= Len(a))
    <3>1. i - Len(a) \in 1 .. Len(b)
      BY <1>1, <2>2
    <3> QED
      BY <1>1, <1>3, <1>4, <2>2, <3>1
  <2> QED
    BY <2>1, <2>2
<1>6. w = u \o v
  BY <1>3, <1>4, <1>5, SeqEqual
<1> QED
  BY <1>6 DEF u, v, w

LEMMA LabelsOne ==
    ASSUME NEW x
    PROVE  IDsOf(<<x>>) = <<x.id>>
BY DEF IDsOf

\* The places of the texts among the first pieces that could be read.
TextsIn(s, g, n) == {i \in 1 .. n : s[i].event = "text" /\ i \notin g}

LEMMA TextsNext ==
    ASSUME NEW S, NEW s \in Seq(S), NEW n \in Nat, n + 1 \in 1 .. Len(s), NEW g
    PROVE  /\ (s[n + 1].event = "text" /\ n + 1 \notin g) =>
                 Kept(s, TextsIn(s, g, n + 1)) = Kept(s, TextsIn(s, g, n)) \o <<s[n + 1]>>
           /\ s[n + 1].event # "text" => TextsIn(s, g, n + 1) = TextsIn(s, g, n)
           /\ TextsIn(s, g \cup {n + 1}, n + 1) = TextsIn(s, g, n)
<1>1. 1 .. n + 1 = (1 .. n) \cup {n + 1} /\ n + 1 \notin 1 .. n
  OBVIOUS
<1>2. /\ s[n + 1].event # "text" => TextsIn(s, g, n + 1) = TextsIn(s, g, n)
      /\ TextsIn(s, g \cup {n + 1}, n + 1) = TextsIn(s, g, n)
  BY <1>1 DEF TextsIn
<1>3. ASSUME s[n + 1].event = "text", n + 1 \notin g
      PROVE  Kept(s, TextsIn(s, g, n + 1)) = Kept(s, TextsIn(s, g, n)) \o <<s[n + 1]>>
  <2> DEFINE K == TextsIn(s, g, n + 1)
  <2>1. DOMAIN s = 1 .. Len(s) /\ Len(s) \in Nat
    BY LenProperties
  <2>2. K \in SUBSET DOMAIN s
    BY <2>1 DEF TextsIn
  <2>3. K \cap (1 .. n) = TextsIn(s, g, n) /\ K \ (1 .. n) = {n + 1}
    BY <1>1, <1>3 DEF TextsIn
  <2> HIDE DEF K
  <2>4. Kept(s, K) = Kept(s, K \cap (1 .. n)) \o Kept(s, K \ (1 .. n))
    BY <2>2, KeptSplit
  <2>5. Kept(s, {n + 1}) = <<s[n + 1]>>
    BY <2>1, KeptOne
  <2> QED
    BY <2>3, <2>4, <2>5 DEF K
<1> QED
  BY <1>2, <1>3

----------------------------------------------------------------------------
(* The invariant of a stream.                                               *)

BegunCalls == [index : Labels, id : Labels, read : Nat]

\* The event on which a client yields a call, or begins it (OpenAI).
CallEvent(c) == IF c = "ollama" THEN "whole" ELSE IF c \in {"openai", "anthropic"} THEN "call" ELSE "called"

StreamTyped ==
    /\ client \in Clients /\ GoodScript(client, script)
    /\ at \in Nat /\ at <= Len(script) /\ garbled \in SUBSET (1 .. at)
    /\ usage \in Nat /\ open \in BOOLEAN /\ yielded \in Seq(YieldedParts)

\* The text is what could be read of it.
TextsYielded == IDsOf(OfKind(yielded, "text")) = IDsOf(Kept(script, TextsIn(script, garbled, at)))

\* A call was yielded once, with its arguments, on an event of its own; by OpenAI at the end.
CallsYielded ==
    /\ \A i, j \in 1 .. Len(yielded) :
          (yielded[i].is = "call" /\ yielded[j].is = "call" /\ yielded[i].id = yielded[j].id
           /\ yielded[i].id # "") => i = j
    /\ client # "anthropic" =>
          \A i \in 1 .. Len(yielded) :
             yielded[i].is = "call" => yielded[i].read = ArgumentPieces \/ garbled # {}
    /\ client # "openai" =>
          \A i \in 1 .. Len(yielded) : yielded[i].is = "call" =>
             \E k \in 1 .. at : script[k].event = CallEvent(client) /\ script[k].id = yielded[i].id
    /\ (client = "openai" /\ open) => \A i \in 1 .. Len(yielded) : yielded[i].is # "call"

\* The pieces of the arguments among the first n, of the call that begins with piece k.
Taken(k, n) == IF n - k > ArgumentPieces THEN ArgumentPieces ELSE n - k

\* The calls OpenAI has begun each have an index of their own and, while every
\* piece could be read, all the arguments sent so far.
CallsBegun ==
    (client = "openai" /\ open) =>
        /\ begun \in Seq(BegunCalls)
        /\ \A i, j \in 1 .. Len(begun) : begun[i].index = begun[j].index => i = j
        /\ \A i \in 1 .. Len(begun) :
              /\ begun[i].id \in {begun[i].index, ""}
              /\ \E k \in 1 .. at : script[k].event = "call" /\ script[k].id = begun[i].index
        /\ garbled = {} =>
              \A k \in 1 .. at : script[k].event = "call" =>
                 \E i \in 1 .. Len(begun) :
                    begun[i].index = script[k].id /\ begun[i].read = Taken(k, at)

\* The usage is counted and yielded once.
UsageYielded ==
    /\ \A i \in 1 .. Len(yielded) : yielded[i].is = "usage" => yielded[i].read <= 1
    /\ \A i, j \in 1 .. Len(yielded) : (yielded[i].is = "usage" /\ yielded[j].is = "usage") => i = j
    /\ (open /\ \A k \in 1 .. at : script[k].event \notin Counted) =>
          usage = 0 /\ \A i \in 1 .. Len(yielded) : yielded[i].is # "usage"
    /\ (open /\ client = "anthropic") => usage = 0
    /\ (open /\ client = "jetbrains") =>
          usage <= 1 /\ \A i \in 1 .. Len(yielded) : yielded[i].is # "usage"

StreamInv == StreamTyped /\ TextsYielded /\ CallsYielded /\ CallsBegun /\ UsageYielded

----------------------------------------------------------------------------
(* What a piece does.                                                       *)

\* Nothing is yielded.
Silent(p) ==
    /\ p.event # "text" /\ yielded' = yielded
    /\ usage' = usage \/ (p.event \in Counted /\ client # "anthropic" /\ usage' = usage + 1)

YieldsText(p) ==
    /\ p.event = "text" /\ yielded' = Append(yielded, TextPart(p.id)) /\ usage' = usage

YieldsCall(p) ==
    /\ client # "openai" /\ p.event = CallEvent(client) /\ usage' = usage
    /\ \E n \in Nat : /\ client # "anthropic" => n = ArgumentPieces
                      /\ yielded' = Append(yielded, [is |-> "call", id |-> p.id, read |-> n])

YieldsUsage(p) ==
    /\ p.event \in {"finish", "completed"} /\ usage' = usage + 1
    /\ client = "anthropic" => ~open'
    /\ client # "jetbrains"
    /\ yielded' = Append(yielded, UsagePart(usage + 1))

\* What a piece does to the calls OpenAI has begun.
BeginsCalls(p) ==
    /\ p.event = "call" =>
          begun' = Append(begun, [index |-> p.id, id |-> p.id, read |-> 0])
    /\ p.event = "arguments" =>
          begun' = IF Index(p.id) = {} THEN Append(begun, [index |-> p.id, id |-> "", read |-> 1])
                   ELSE [i \in DOMAIN begun |-> IF i \in Index(p.id)
                         THEN [begun[i] EXCEPT !.read = @ + 1] ELSE begun[i]]
    /\ p.event \notin {"call", "arguments"} => begun' = begun

Yielding(p) == Silent(p) \/ YieldsText(p) \/ YieldsCall(p) \/ YieldsUsage(p)

LEMMA YieldOne ==
    ASSUME yielded \in Seq(YieldedParts), NEW x \in YieldedParts, Yield(<<x>>)
    PROVE  yielded' = Append(yielded, x)
BY AppendIsConcat DEF Yield

LEMMA YieldNone ==
    ASSUME yielded \in Seq(YieldedParts), Yield(<<>>)
    PROVE  yielded' = yielded
BY ConcatEmptySeq DEF Yield

LEMMA PartsAre ==
    /\ \A id \in Labels : TextPart(id) \in YieldedParts
    /\ \A id \in Labels : \A n \in Nat : [is |-> "call", id |-> id, read |-> n] \in YieldedParts
    /\ \A n \in Nat : UsagePart(n) \in YieldedParts /\ UsagePart(n).is = "usage" /\ UsagePart(n).read = n
BY DEF TextPart, UsagePart, YieldedParts, Labels

LEMMA YieldFinished ==
    ASSUME yielded \in Seq(YieldedParts), NEW n \in Nat, Yield(Finished(n))
    PROVE  yielded' = IF n > 0 THEN Append(yielded, UsagePart(n)) ELSE yielded
<1>1. CASE n > 0
  <2>1. Yield(<<UsagePart(n)>>) /\ UsagePart(n) \in YieldedParts
    BY <1>1, PartsAre DEF Finished
  <2> QED
    BY <1>1, <2>1, YieldOne
<1>2. CASE ~(n > 0)
  <2>1. Yield(<<>>)
    BY <1>2 DEF Finished
  <2> QED
    BY <1>2, <2>1, YieldNone
<1> QED
  BY <1>1, <1>2

LEMMA OpenAIYields ==
    ASSUME StreamInv, client = "openai", NEW p \in Pieces("openai"), OpenAIStep(p)
    PROVE  \/ p.event = "finish" /\ OpenAIFinish(p)
           \/ p.event # "finish" /\ Yielding(p) /\ BeginsCalls(p) /\ open' \in BOOLEAN
<1>1. /\ p.event \in {"text", "think", "call", "arguments", "finish", "usage", "done"} /\ p.id \in Labels
      /\ yielded \in Seq(YieldedParts)
  BY DEF Pieces, EventsOf, StreamInv, StreamTyped
<1>2. CASE p.event = "text"
  <2>1. Yield(<<TextPart(p.id)>>) /\ begun' = begun /\ usage' = usage /\ open' = TRUE
    BY <1>2 DEF OpenAIStep, GoesOn
  <2>2. yielded' = Append(yielded, TextPart(p.id))
    BY <1>1, <2>1, PartsAre, YieldOne
  <2> QED
    BY <1>2, <2>1, <2>2 DEF Yielding, YieldsText, BeginsCalls
<1>3. CASE p.event \in {"think", "call", "arguments"}
  BY <1>3 DEF OpenAIStep, GoesOn, Yielding, Silent, BeginsCalls
<1>4. CASE p.event = "finish"
  BY <1>4 DEF OpenAIStep
<1>5. CASE p.event = "usage"
  BY <1>5 DEF OpenAIStep, GoesOn, Yielding, Silent, BeginsCalls, Counted
<1>6. CASE p.event = "done"
  BY <1>6 DEF OpenAIStep, Ends, KeepRest, Yielding, Silent, BeginsCalls
<1> QED
  BY <1>1, <1>2, <1>3, <1>4, <1>5, <1>6

LEMMA AnthropicYields ==
    ASSUME StreamInv, client = "anthropic", open, NEW p \in Pieces("anthropic"), AnthropicStep(p)
    PROVE  Yielding(p) /\ open' \in BOOLEAN
<1>1. /\ p.event \in {"text", "think", "call", "arguments", "finish", "stop"} /\ p.id \in Labels
      /\ yielded \in Seq(YieldedParts) /\ usage = 0
  BY DEF Pieces, EventsOf, StreamInv, StreamTyped, UsageYielded
<1>2. CASE p.event = "text"
  <2>1. Yield(<<TextPart(p.id)>>) /\ usage' = usage /\ open' = TRUE
    BY <1>2 DEF AnthropicStep, GoesOn, KeepRest
  <2>2. yielded' = Append(yielded, TextPart(p.id))
    BY <1>1, <2>1, PartsAre, YieldOne
  <2> QED
    BY <1>2, <2>1, <2>2 DEF Yielding, YieldsText
<1>3. CASE p.event = "call"
  <2> DEFINE x == [is |-> "call", id |-> p.id, read |-> 0]
  <2>1. Yield(<<x>>) /\ usage' = usage /\ open' = TRUE
    BY <1>3 DEF AnthropicStep, GoesOn, KeepRest, CallPart
  <2>2. x \in YieldedParts
    BY <1>1, PartsAre
  <2>3. yielded' = Append(yielded, x)
    BY <1>1, <2>1, <2>2, YieldOne
  <2> QED
    BY <1>3, <2>1, <2>3 DEF Yielding, YieldsCall, CallEvent
<1>4. CASE p.event \in {"think", "arguments"}
  BY <1>4 DEF AnthropicStep, GoesOn, KeepRest, Yielding, Silent
<1>5. CASE p.event = "finish"
  <2>1. Yield(Finished(1)) /\ usage' = 1 /\ open' = FALSE
    BY <1>1, <1>5 DEF AnthropicStep, Ends
  <2>2. yielded' = Append(yielded, UsagePart(1))
    BY <1>1, <2>1, YieldFinished
  <2>3. usage + 1 = 1
    BY <1>1
  <2> QED
    BY <1>5, <2>1, <2>2, <2>3 DEF Yielding, YieldsUsage
<1>6. CASE p.event = "stop"
  <2>1. Yield(Finished(0)) /\ usage' = usage /\ open' = FALSE
    BY <1>1, <1>6 DEF AnthropicStep, Ends, KeepRest
  <2>2. yielded' = yielded
    BY <1>1, <2>1, YieldFinished
  <2> QED
    BY <1>6, <2>1, <2>2 DEF Yielding, Silent
<1> QED
  BY <1>1, <1>2, <1>3, <1>4, <1>5, <1>6

LEMMA OllamaYields ==
    ASSUME StreamInv, client = "ollama", NEW p \in Pieces("ollama"), OllamaStep(p)
    PROVE  Yielding(p) /\ open' \in BOOLEAN
<1>1. /\ p.event \in {"text", "think", "whole", "finish"} /\ p.id \in Labels
      /\ yielded \in Seq(YieldedParts) /\ usage \in Nat
  BY DEF Pieces, EventsOf, StreamInv, StreamTyped
<1>2. CASE p.event = "text"
  <2>1. Yield(<<TextPart(p.id)>>) /\ usage' = usage /\ open' = TRUE
    BY <1>2 DEF OllamaStep, GoesOn, KeepRest
  <2>2. yielded' = Append(yielded, TextPart(p.id))
    BY <1>1, <2>1, PartsAre, YieldOne
  <2> QED
    BY <1>2, <2>1, <2>2 DEF Yielding, YieldsText
<1>3. CASE p.event = "whole"
  <2> DEFINE x == [is |-> "call", id |-> p.id, read |-> ArgumentPieces]
  <2>1. Yield(<<x>>) /\ usage' = usage /\ open' = TRUE
    BY <1>3 DEF OllamaStep, GoesOn, KeepRest, CallPart
  <2>2. x \in YieldedParts /\ ArgumentPieces \in Nat
    BY <1>1, PartsAre DEF ArgumentPieces
  <2>3. yielded' = Append(yielded, x)
    BY <1>1, <2>1, <2>2, YieldOne
  <2> QED
    BY <1>3, <2>1, <2>2, <2>3 DEF Yielding, YieldsCall, CallEvent
<1>4. CASE p.event = "think"
  BY <1>4 DEF OllamaStep, GoesOn, KeepRest, Yielding, Silent
<1>5. CASE p.event = "finish"
  <2>1. Yield(Finished(usage + 1)) /\ usage' = usage + 1 /\ open' = FALSE
    BY <1>1, <1>5 DEF OllamaStep, Ends
  <2>2. yielded' = Append(yielded, UsagePart(usage + 1))
    BY <1>1, <2>1, YieldFinished
  <2> QED
    BY <1>1, <1>5, <2>1, <2>2 DEF Yielding, YieldsUsage
<1> QED
  BY <1>1, <1>2, <1>3, <1>4, <1>5

LEMMA ResponsesYields ==
    ASSUME StreamInv, client \in {"responses", "jetbrains"}, NEW p \in Pieces(client), ResponsesStep(p)
    PROVE  Yielding(p) /\ open' \in BOOLEAN
<1>1. /\ p.event \in {"text", "think", "call", "arguments", "called", "completed", "done"} /\ p.id \in Labels
      /\ yielded \in Seq(YieldedParts) /\ usage \in Nat
  BY DEF Pieces, EventsOf, StreamInv, StreamTyped
<1>2. CASE p.event = "text"
  <2>1. Yield(<<TextPart(p.id)>>) /\ usage' = usage /\ open' = TRUE
    BY <1>2 DEF ResponsesStep, GoesOn, KeepRest
  <2>2. yielded' = Append(yielded, TextPart(p.id))
    BY <1>1, <2>1, PartsAre, YieldOne
  <2> QED
    BY <1>2, <2>1, <2>2 DEF Yielding, YieldsText
<1>3. CASE p.event \in {"think", "call", "arguments"}
  BY <1>3 DEF ResponsesStep, GoesOn, KeepRest, Yielding, Silent
<1>4. CASE p.event = "called" /\ Announced(p)
  <2> DEFINE x == [is |-> "call", id |-> p.id, read |-> ArgumentPieces]
  <2>1. Yield(<<x>>) /\ usage' = usage /\ open' = TRUE
    BY <1>4 DEF ResponsesStep, GoesOn, KeepRest, CallPart
  <2>2. x \in YieldedParts /\ ArgumentPieces \in Nat
    BY <1>1, PartsAre DEF ArgumentPieces
  <2>3. yielded' = Append(yielded, x)
    BY <1>1, <2>1, <2>2, YieldOne
  <2> QED
    BY <1>4, <2>1, <2>2, <2>3 DEF Yielding, YieldsCall, CallEvent
<1>5. CASE p.event = "called" /\ ~Announced(p)
  BY <1>5 DEF ResponsesStep, GoesOn, KeepRest, Yielding, Silent
<1>6. CASE p.event = "completed" /\ client = "responses"
  <2>1. Yield(Finished(usage + 1)) /\ usage' = usage + 1 /\ open' = TRUE
    BY <1>1, <1>6 DEF ResponsesStep, GoesOn
  <2>2. yielded' = Append(yielded, UsagePart(usage + 1))
    BY <1>1, <2>1, YieldFinished
  <2> QED
    BY <1>1, <1>6, <2>1, <2>2 DEF Yielding, YieldsUsage
<1>7. CASE p.event = "completed" /\ client = "jetbrains"
  <2>1. Yield(<<>>) /\ usage' = usage + 1 /\ open' = TRUE
    BY <1>1, <1>7 DEF ResponsesStep, GoesOn
  <2>2. yielded' = yielded
    BY <1>1, <2>1, YieldNone
  <2> QED
    BY <1>7, <2>1, <2>2 DEF Yielding, Silent, Counted
<1>8. CASE p.event = "done"
  BY <1>8 DEF ResponsesStep, Ends, KeepRest, Yielding, Silent
<1> QED
  BY <1>1, <1>2, <1>3, <1>4, <1>5, <1>6, <1>7, <1>8

----------------------------------------------------------------------------
(* A piece keeps the invariant.                                             *)

\* A piece was read.
Reading(p) ==
    /\ StreamInv /\ open /\ at + 1 \in 1 .. Len(script) /\ p = script[at + 1] /\ p \in Pieces(client)
    /\ at' = at + 1 /\ client' = client /\ script' = script /\ garbled' = garbled

\* It did not finish an OpenAI reply.
Goes(p) ==
    /\ Reading(p) /\ Yielding(p) /\ open' \in BOOLEAN
    /\ client = "openai" => BeginsCalls(p) /\ p.event # "finish"

Finishes(p) == Reading(p) /\ client = "openai" /\ p.event = "finish" /\ OpenAIFinish(p)

LEMMA ReadsAre ==
    ASSUME StreamInv, Reads
    PROVE  LET p == script[at + 1] IN Goes(p) \/ Finishes(p)
<1> DEFINE p == script[at + 1]
<1>1. Reading(p)
  <2>1. /\ script \in Seq(Pieces(client)) /\ at \in Nat /\ at < Len(script) /\ Len(script) \in Nat
    BY LenProperties DEF StreamInv, StreamTyped, GoodScript, Reads
  <2>2. at + 1 \in 1 .. Len(script)
    BY <2>1
  <2>3. p \in Pieces(client)
    BY <2>1, <2>2, ElementOfSeq
  <2> QED
    BY <2>2, <2>3 DEF Reads, Reading
<1>2. client \in Clients /\ open /\ p \in Pieces(client)
  BY <1>1 DEF Reading, StreamInv, StreamTyped
<1> HIDE DEF p
<1>3. CASE client = "openai"
  <2>1. OpenAIStep(p)
    BY <1>3 DEF Reads, p
  <2> QED
    BY <1>1, <1>2, <1>3, <2>1, OpenAIYields DEF Goes, Finishes, p
<1>4. CASE client = "anthropic"
  <2>1. AnthropicStep(p)
    BY <1>4 DEF Reads, p
  <2> QED
    BY <1>1, <1>2, <1>4, <2>1, AnthropicYields DEF Goes, p
<1>5. CASE client = "ollama"
  <2>1. OllamaStep(p)
    BY <1>5 DEF Reads, p
  <2> QED
    BY <1>1, <1>2, <1>5, <2>1, OllamaYields DEF Goes, p
<1>6. CASE client \in {"responses", "jetbrains"}
  <2>1. ResponsesStep(p)
    BY <1>6 DEF Reads, JetBrainsStep, p
  <2> QED
    BY <1>1, <1>2, <1>6, <2>1, ResponsesYields DEF Goes, p
<1> QED
  BY <1>2, <1>3, <1>4, <1>5, <1>6 DEF Clients

\* What a piece yields is of the kinds there are.
LEMMA GoesYields ==
    ASSUME NEW p, Goes(p)
    PROVE  \/ yielded' = yielded /\ p.event # "text"
           \/ \E x \in YieldedParts :
                 /\ yielded' = Append(yielded, x)
                 /\ (p.event = "text") <=> (x.is = "text")
                 /\ x.is = "text" => x = TextPart(p.id)
<1>1. p.id \in Labels /\ usage \in Nat /\ client \in Clients
  BY DEF Goes, Reading, Pieces, StreamInv, StreamTyped
<1>2. CASE Silent(p)
  BY <1>2 DEF Silent
<1>3. CASE YieldsText(p)
  BY <1>1, <1>3, PartsAre DEF YieldsText, TextPart
<1>4. CASE YieldsCall(p)
  <2>1. p.event # "text"
    BY <1>4 DEF YieldsCall, CallEvent
  <2>2. PICK n \in Nat : yielded' = Append(yielded, [is |-> "call", id |-> p.id, read |-> n])
    BY <1>4 DEF YieldsCall
  <2>3. [is |-> "call", id |-> p.id, read |-> n] \in YieldedParts
    BY <1>1, PartsAre
  <2> QED
    BY <2>1, <2>2, <2>3
<1>5. CASE YieldsUsage(p)
  <2>1. UsagePart(usage + 1) \in YieldedParts /\ UsagePart(usage + 1).is = "usage" /\ p.event # "text"
    <3>1. usage + 1 \in Nat
      BY <1>1
    <3> QED
      BY <1>5, <3>1, PartsAre DEF YieldsUsage
  <2>2. yielded' = Append(yielded, UsagePart(usage + 1))
    BY <1>5 DEF YieldsUsage
  <2> QED
    BY <2>1, <2>2
<1> QED
  BY <1>2, <1>3, <1>4, <1>5 DEF Goes, Yielding

LEMMA GoesTyped ==
    ASSUME NEW p, Goes(p)
    PROVE  StreamTyped'
<1>1. /\ client' = client /\ script' = script /\ at' = at + 1 /\ garbled' = garbled /\ open' \in BOOLEAN
      /\ client \in Clients /\ GoodScript(client, script) /\ at \in Nat /\ at + 1 \in 1 .. Len(script)
      /\ garbled \in SUBSET (1 .. at) /\ usage \in Nat /\ yielded \in Seq(YieldedParts)
  BY DEF Goes, Reading, StreamInv, StreamTyped
<1>2. yielded' \in Seq(YieldedParts)
  BY <1>1, GoesYields, AppendProperties
<1>3. usage' \in Nat
  BY <1>1 DEF Goes, Yielding, Silent, YieldsText, YieldsCall, YieldsUsage
<1>4. garbled \in SUBSET (1 .. at + 1) /\ at + 1 \in Nat /\ at + 1 <= Len(script)
  BY <1>1
<1> QED
  BY <1>1, <1>2, <1>3, <1>4 DEF StreamTyped

LEMMA GoesTexts ==
    ASSUME NEW p, Goes(p)
    PROVE  TextsYielded'
<1> DEFINE S == Pieces(client)
           old == Kept(script, TextsIn(script, garbled, at))
           new == Kept(script, TextsIn(script, garbled, at + 1))
<1>1. /\ script' = script /\ at' = at + 1 /\ garbled' = garbled
      /\ script \in Seq(S) /\ at \in Nat /\ at + 1 \in 1 .. Len(script) /\ p = script[at + 1] /\ p \in S
      /\ garbled \in SUBSET (1 .. at) /\ yielded \in Seq(YieldedParts)
      /\ IDsOf(OfKind(yielded, "text")) = IDsOf(old)
  BY DEF Goes, Reading, StreamInv, StreamTyped, GoodScript, TextsYielded
<1>2. at + 1 \notin garbled /\ old \in Seq(S)
  <2>1. TextsIn(script, garbled, at) \in SUBSET DOMAIN script
    <3>1. DOMAIN script = 1 .. Len(script) /\ Len(script) \in Nat
      BY <1>1, LenProperties
    <3> QED
      BY <1>1, <3>1 DEF TextsIn
  <2>2. old \in Seq(S)
    BY <1>1, <2>1, KeptPlaces
  <2> QED
    BY <1>1, <2>2
<1>3. /\ p.event = "text" => new = old \o <<p>>
      /\ p.event # "text" => new = old
  BY <1>1, <1>2, TextsNext
<1> HIDE DEF S, old, new
<1>4. SUFFICES IDsOf(OfKind(yielded', "text")) = IDsOf(new)
  BY <1>1 DEF TextsYielded, new
<1>5. CASE yielded' = yielded /\ p.event # "text"
  BY <1>1, <1>3, <1>5
<1>6. CASE \E x \in YieldedParts :
                 /\ yielded' = Append(yielded, x)
                 /\ (p.event = "text") <=> (x.is = "text")
                 /\ x.is = "text" => x = TextPart(p.id)
  <2>1. PICK x \in YieldedParts :
                 /\ yielded' = Append(yielded, x)
                 /\ (p.event = "text") <=> (x.is = "text")
                 /\ x.is = "text" => x = TextPart(p.id)
    BY <1>6
  <2>2. yielded' = yielded \o <<x>>
    BY <1>1, <2>1, AppendIsConcat
  <2>3. <<x>> \in Seq(YieldedParts) /\ DOMAIN <<x>> = {1} /\ <<x>>[1] = x
    OBVIOUS
  <2>4. OfKind(yielded', "text") = OfKind(yielded, "text") \o OfKind(<<x>>, "text")
    BY <1>1, <2>2, <2>3, OfKindConcat
  <2>5. OfKind(yielded, "text") \in Seq(YieldedParts)
    BY <1>1, OfKindIs
  <2>6. CASE p.event = "text"
    <3>1. OfKind(<<x>>, "text") = <<x>> /\ x.id = p.id
      BY <2>1, <2>6, OfKindOne DEF TextPart
    <3>2. IDsOf(OfKind(yielded', "text")) = IDsOf(old) \o <<p.id>>
      <4>1. IDsOf(OfKind(yielded', "text")) = IDsOf(OfKind(yielded, "text")) \o IDsOf(<<x>>)
        BY <2>3, <2>4, <2>5, <3>1, LabelsConcat
      <4>2. IDsOf(<<x>>) = <<p.id>>
        BY <3>1, LabelsOne
      <4> QED
        BY <1>1, <4>1, <4>2
    <3>3. IDsOf(new) = IDsOf(old) \o <<p.id>>
      <4>1. <<p>> \in Seq(S)
        BY <1>1
      <4> QED
        BY <1>2, <1>3, <2>6, <4>1, LabelsConcat, LabelsOne
    <3> QED
      BY <3>2, <3>3
  <2>7. CASE p.event # "text"
    <3>1. OfKind(<<x>>, "text") = <<>>
      BY <2>1, <2>3, <2>7, OfKindNone
    <3>2. OfKind(yielded', "text") = OfKind(yielded, "text")
      BY <2>4, <2>5, <3>1, ConcatEmptySeq
    <3> QED
      BY <1>1, <1>3, <2>7, <3>2
  <2> QED
    BY <2>6, <2>7
<1> QED
  BY <1>5, <1>6, GoesYields

LEMMA GoesCalls ==
    ASSUME NEW p, Goes(p)
    PROVE  CallsYielded'
<1>1. /\ client' = client /\ script' = script /\ at' = at + 1 /\ garbled' = garbled
      /\ Cut(script) /\ at \in Nat /\ at + 1 \in 1 .. Len(script) /\ p = script[at + 1]
      /\ yielded \in Seq(YieldedParts) /\ CallsYielded /\ Len(yielded) \in Nat /\ Len(script) \in Nat
      /\ client \in Clients /\ open
  BY LenProperties DEF Goes, Reading, StreamInv, StreamTyped, GoodScript
<1>2. CASE yielded' = yielded
  <2>1. \A k \in 1 .. at : k \in 1 .. at + 1
    BY <1>1
  <2>2. client # "openai" =>
          \A i \in 1 .. Len(yielded) : yielded[i].is = "call" =>
             \E k \in 1 .. at + 1 : script[k].event = CallEvent(client) /\ script[k].id = yielded[i].id
    BY <1>1, <2>1 DEF CallsYielded
  <2> QED
    BY <1>1, <1>2, <2>2 DEF CallsYielded
<1>3. ASSUME NEW x \in YieldedParts, yielded' = Append(yielded, x),
             x.is = "call" =>
                /\ client # "openai" /\ p.event = CallEvent(client) /\ x.id = p.id
                /\ client # "anthropic" => x.read = ArgumentPieces
      PROVE  CallsYielded'
  <2>1. /\ Len(yielded') = Len(yielded) + 1 /\ yielded'[Len(yielded) + 1] = x
        /\ \A i \in 1 .. Len(yielded) : yielded'[i] = yielded[i]
    BY <1>1, <1>3, AppendProperties
  <2>2. \A i \in 1 .. Len(yielded') : i \in 1 .. Len(yielded) \/ i = Len(yielded) + 1
    BY <1>1, <2>1
  <2>3. ASSUME x.is = "call", NEW i \in 1 .. Len(yielded), yielded[i].is = "call", yielded[i].id = x.id
        PROVE  FALSE
    <3>1. PICK k \in 1 .. at : script[k].event = CallEvent(client) /\ script[k].id = x.id
      BY <1>1, <1>3, <2>3 DEF CallsYielded
    <3>2. k \in 1 .. Len(script) /\ script[at + 1].event = CallEvent(client) /\ script[at + 1].id = x.id
      BY <1>1, <1>3, <2>3
    <3>3. CallEvent(client) \in CallEvents
      BY DEF CallEvent, CallEvents
    <3>4. k = at + 1
      BY <1>1, <3>1, <3>2, <3>3 DEF Cut
    <3> QED
      BY <1>1, <3>4
  <2>4. \A i, j \in 1 .. Len(yielded') :
           (yielded'[i].is = "call" /\ yielded'[j].is = "call" /\ yielded'[i].id = yielded'[j].id
            /\ yielded'[i].id # "") => i = j
    <3>1. SUFFICES ASSUME NEW i \in 1 .. Len(yielded'), NEW j \in 1 .. Len(yielded'),
                          yielded'[i].is = "call", yielded'[j].is = "call",
                          yielded'[i].id = yielded'[j].id, yielded'[i].id # ""
                   PROVE  i = j
      OBVIOUS
    <3>2. CASE i \in 1 .. Len(yielded) /\ j \in 1 .. Len(yielded)
      BY <1>1, <2>1, <3>1, <3>2 DEF CallsYielded
    <3>3. CASE i \in 1 .. Len(yielded) /\ j = Len(yielded) + 1
      BY <2>1, <2>3, <3>1, <3>3
    <3>4. CASE i = Len(yielded) + 1 /\ j \in 1 .. Len(yielded)
      BY <2>1, <2>3, <3>1, <3>4
    <3> QED
      BY <2>2, <3>2, <3>3, <3>4
  <2>5. client # "anthropic" =>
          \A i \in 1 .. Len(yielded') :
             yielded'[i].is = "call" => yielded'[i].read = ArgumentPieces \/ garbled # {}
    BY <1>1, <1>3, <2>1, <2>2 DEF CallsYielded
  <2>6. ASSUME client # "openai", NEW i \in 1 .. Len(yielded'), yielded'[i].is = "call"
        PROVE  \E k \in 1 .. at + 1 : script[k].event = CallEvent(client) /\ script[k].id = yielded'[i].id
    <3>1. CASE i = Len(yielded) + 1
      BY <1>1, <1>3, <2>1, <2>6, <3>1
    <3>2. CASE i \in 1 .. Len(yielded)
      <4>1. PICK k \in 1 .. at : script[k].event = CallEvent(client) /\ script[k].id = yielded[i].id
        BY <1>1, <2>1, <2>6, <3>2 DEF CallsYielded
      <4>2. k \in 1 .. at + 1
        BY <1>1
      <4> QED
        BY <2>1, <3>2, <4>1, <4>2
    <3> QED
      BY <2>2, <3>1, <3>2
  <2>7. (client = "openai" /\ open') => \A i \in 1 .. Len(yielded') : yielded'[i].is # "call"
    BY <1>1, <1>3, <2>1, <2>2 DEF CallsYielded
  <2> QED
    BY <1>1, <2>4, <2>5, <2>6, <2>7 DEF CallsYielded
<1>4. p.id \in Labels /\ usage \in Nat
  BY DEF Goes, Reading, Pieces, StreamInv, StreamTyped
<1>5. CASE Silent(p)
  BY <1>2, <1>5 DEF Silent
<1>6. CASE YieldsText(p)
  <2>1. TextPart(p.id) \in YieldedParts /\ TextPart(p.id).is = "text"
    BY <1>4, PartsAre DEF TextPart
  <2> QED
    BY <1>3, <1>6, <2>1 DEF YieldsText
<1>7. CASE YieldsCall(p)
  <2>1. PICK n \in Nat : /\ client # "anthropic" => n = ArgumentPieces
                         /\ yielded' = Append(yielded, [is |-> "call", id |-> p.id, read |-> n])
    BY <1>7 DEF YieldsCall
  <2> DEFINE x == [is |-> "call", id |-> p.id, read |-> n]
  <2>2. x \in YieldedParts /\ x.is = "call" /\ x.id = p.id /\ x.read = n
    BY <1>4, PartsAre
  <2> HIDE DEF x
  <2>3. yielded' = Append(yielded, x)
    BY <2>1 DEF x
  <2> QED
    BY <1>3, <1>7, <2>1, <2>2, <2>3 DEF YieldsCall
<1>8. CASE YieldsUsage(p)
  <2>1. UsagePart(usage + 1) \in YieldedParts /\ UsagePart(usage + 1).is = "usage"
    <3>1. usage + 1 \in Nat
      BY <1>4
    <3> QED
      BY <3>1, PartsAre
  <2> QED
    BY <1>3, <1>8, <2>1 DEF YieldsUsage
<1> QED
  BY <1>5, <1>6, <1>7, <1>8 DEF Goes, Yielding

LEMMA GoesUsage ==
    ASSUME NEW p, Goes(p)
    PROVE  UsageYielded'
<1>1. /\ client' = client /\ script' = script /\ at' = at + 1
      /\ Ended(script) /\ at \in Nat /\ at + 1 \in 1 .. Len(script) /\ p = script[at + 1]
      /\ yielded \in Seq(YieldedParts) /\ UsageYielded /\ Len(yielded) \in Nat /\ Len(script) \in Nat
      /\ client \in Clients /\ open /\ usage \in Nat /\ p.id \in Labels
  BY LenProperties DEF Goes, Reading, StreamInv, StreamTyped, GoodScript, Pieces
<1>2. /\ \A k \in 1 .. at : k \in 1 .. at + 1
      /\ at + 1 \in 1 .. at + 1
  BY <1>1
<1>3. (open' /\ \A k \in 1 .. at + 1 : script[k].event \notin Counted) =>
          /\ p.event \notin Counted
          /\ usage = 0 /\ \A i \in 1 .. Len(yielded) : yielded[i].is # "usage"
  BY <1>1, <1>2 DEF UsageYielded
<1>4. CASE yielded' = yielded /\ (usage' = usage \/ (p.event \in Counted /\ client # "anthropic" /\ usage' = usage + 1))
  <2>1. (open' /\ client = "jetbrains") => usage' <= 1
    <3>1. CASE usage' = usage
      BY <1>1, <3>1 DEF UsageYielded
    <3>2. CASE p.event \in Counted /\ usage' = usage + 1 /\ client = "jetbrains"
      <4>0. p.event = "completed"
        BY <3>2 DEF Goes, Reading, Pieces, EventsOf, Counted
      <4>1. \A k \in 1 .. at : script[k].event \notin Counted
        BY <1>1, <4>0 DEF Ended
      <4>2. usage = 0
        BY <1>1, <4>1 DEF UsageYielded
      <4> QED
        BY <3>2, <4>2
    <3> QED
      BY <1>4, <3>1, <3>2
  <2>2. (open' /\ client = "anthropic") => usage' = 0
    BY <1>1, <1>4 DEF UsageYielded
  <2>3. (open' /\ client = "jetbrains") => \A i \in 1 .. Len(yielded) : yielded[i].is # "usage"
    BY <1>1 DEF UsageYielded
  <2>4. (open' /\ \A k \in 1 .. at + 1 : script[k].event \notin Counted) => usage' = 0
    BY <1>3, <1>4
  <2> QED
    BY <1>1, <1>3, <1>4, <2>1, <2>2, <2>3, <2>4 DEF UsageYielded
<1>5. ASSUME NEW x \in YieldedParts, yielded' = Append(yielded, x), x.is # "usage", usage' = usage
      PROVE  UsageYielded'
  <2>1. /\ Len(yielded') = Len(yielded) + 1 /\ yielded'[Len(yielded) + 1] = x
        /\ \A i \in 1 .. Len(yielded) : yielded'[i] = yielded[i]
    BY <1>1, <1>5, AppendProperties
  <2>2. \A i \in 1 .. Len(yielded') : yielded'[i].is = "usage" => i \in 1 .. Len(yielded)
    BY <1>1, <1>5, <2>1
  <2> QED
    BY <1>1, <1>3, <1>5, <2>1, <2>2 DEF UsageYielded
<1>6. CASE YieldsText(p)
  <2>1. TextPart(p.id) \in YieldedParts /\ TextPart(p.id).is = "text"
    BY <1>1, PartsAre DEF TextPart
  <2> QED
    BY <1>5, <1>6, <2>1 DEF YieldsText
<1>7. CASE YieldsCall(p)
  <2>1. PICK n \in Nat : yielded' = Append(yielded, [is |-> "call", id |-> p.id, read |-> n])
    BY <1>7 DEF YieldsCall
  <2>2. [is |-> "call", id |-> p.id, read |-> n] \in YieldedParts
    BY <1>1, PartsAre
  <2> QED
    BY <1>5, <1>7, <2>1, <2>2 DEF YieldsCall
<1>8. CASE YieldsUsage(p)
  <2>1. p.event \in {"finish", "completed"} /\ p.event \in Counted
    BY <1>8 DEF YieldsUsage, Counted
  <2>2. \A k \in 1 .. at : script[k].event \notin Counted
    BY <1>1, <2>1 DEF Ended
  <2>3. usage = 0 /\ \A i \in 1 .. Len(yielded) : yielded[i].is # "usage"
    BY <1>1, <2>2 DEF UsageYielded
  <2> DEFINE x == UsagePart(usage + 1)
  <2>4. x \in YieldedParts /\ x.read = 1 /\ yielded' = Append(yielded, x)
    <3>1. usage + 1 = 1 /\ usage + 1 \in Nat
      BY <2>3
    <3>2. x \in YieldedParts /\ x.read = usage + 1
      BY <3>1, PartsAre
    <3> QED
      BY <1>8, <3>1, <3>2 DEF YieldsUsage
  <2> HIDE DEF x
  <2>5. /\ Len(yielded') = Len(yielded) + 1 /\ yielded'[Len(yielded) + 1] = x
        /\ \A i \in 1 .. Len(yielded) : yielded'[i] = yielded[i]
    BY <1>1, <2>4, AppendProperties
  <2>6. \A i \in 1 .. Len(yielded') : yielded'[i].is = "usage" => i = Len(yielded) + 1
    BY <1>1, <2>3, <2>5
  <2>7. \A i \in 1 .. Len(yielded') : yielded'[i].is = "usage" => yielded'[i].read <= 1
    BY <2>4, <2>5, <2>6
  <2>8. ~(open' /\ \A k \in 1 .. at' : script'[k].event \notin Counted)
    BY <1>1, <1>2, <2>1
  <2>9. ~(open' /\ client' = "anthropic") /\ client' # "jetbrains"
    BY <1>1, <1>8 DEF YieldsUsage
  <2> QED
    BY <2>6, <2>7, <2>8, <2>9 DEF UsageYielded
<1> QED
  BY <1>4, <1>6, <1>7, <1>8 DEF Goes, Yielding, Silent

\* One more piece of a call's arguments is taken when it comes next.
LEMMA TakenNext ==
    ASSUME NEW s, Cut(s), Len(s) \in Nat, NEW n \in Nat, n + 1 \in 1 .. Len(s), NEW k \in 1 .. n, s[k].event = "call"
    PROVE  /\ (s[n + 1].event = "arguments" /\ s[n + 1].id = s[k].id) => Taken(k, n + 1) = Taken(k, n) + 1
           /\ ~(s[n + 1].event = "arguments" /\ s[n + 1].id = s[k].id) => Taken(k, n + 1) = Taken(k, n)
<1>1. k \in 1 .. Len(s) /\ k \in Int
  OBVIOUS
<1>2. n + 1 <= k + ArgumentPieces => s[n + 1].event = "arguments" /\ s[n + 1].id = s[k].id
  BY <1>1 DEF Cut
<1>3. ASSUME s[n + 1].event = "arguments", s[n + 1].id = s[k].id
      PROVE  n + 1 <= k + ArgumentPieces
  <2>1. PICK i \in 1 .. Len(s) : /\ i < n + 1 /\ n + 1 <= i + ArgumentPieces
                                 /\ s[i].event = "call" /\ s[i].id = s[n + 1].id
    BY <1>3 DEF Cut
  <2>2. i = k
    BY <1>1, <1>3, <2>1 DEF Cut, CallEvents
  <2> QED
    BY <2>1, <2>2
<1>4. CASE n + 1 <= k + ArgumentPieces
  <2>1. Taken(k, n + 1) = Taken(k, n) + 1
    BY <1>1, <1>4 DEF Taken, ArgumentPieces
  <2> QED
    BY <1>2, <1>4, <2>1
<1>5. CASE ~(n + 1 <= k + ArgumentPieces)
  <2>1. Taken(k, n + 1) = Taken(k, n)
    BY <1>1, <1>5 DEF Taken, ArgumentPieces
  <2> QED
    BY <1>3, <1>5, <2>1
<1> QED
  BY <1>4, <1>5

LEMMA GoesBegun ==
    ASSUME NEW p, Goes(p)
    PROVE  CallsBegun'
<1>1. /\ client' = client /\ script' = script /\ at' = at + 1 /\ garbled' = garbled
      /\ Cut(script) /\ at \in Nat /\ at + 1 \in 1 .. Len(script) /\ p = script[at + 1]
      /\ Len(script) \in Nat /\ p.id \in Labels /\ open /\ CallsBegun
  BY LenProperties DEF Goes, Reading, StreamInv, StreamTyped, GoodScript, Pieces
<1>2. SUFFICES ASSUME client = "openai" PROVE CallsBegun'
  BY <1>1 DEF CallsBegun
<1> DEFINE N == Len(begun)
           M == Len(begun')
           SentBy(id, n) == \E k \in 1 .. n : script[k].event = "call" /\ script[k].id = id
<1>3. /\ begun \in Seq(BegunCalls) /\ N \in Nat /\ DOMAIN begun = 1 .. N
      /\ \A i \in 1 .. N : begun[i] \in BegunCalls
  BY <1>1, <1>2, LenProperties, ElementOfSeq DEF CallsBegun
<1>4. /\ \A i, j \in 1 .. N : begun[i].index = begun[j].index => i = j
      /\ \A i \in 1 .. N : begun[i].id \in {begun[i].index, ""}
      /\ \A i \in 1 .. N : SentBy(begun[i].index, at)
      /\ garbled = {} => \A k \in 1 .. at : script[k].event = "call" =>
            \E i \in 1 .. N : begun[i].index = script[k].id /\ begun[i].read = Taken(k, at)
  BY <1>1, <1>2 DEF CallsBegun
<1>5. /\ \A k \in 1 .. at + 1 : k \in 1 .. at \/ k = at + 1
      /\ \A k \in 1 .. at : k \in 1 .. at + 1 /\ k \in 1 .. Len(script)
  BY <1>1
<1>6. BeginsCalls(p)
  BY <1>2 DEF Goes
<1>7. SUFFICES
        /\ begun' \in Seq(BegunCalls)
        /\ \A i, j \in 1 .. M : begun'[i].index = begun'[j].index => i = j
        /\ \A i \in 1 .. M : begun'[i].id \in {begun'[i].index, ""}
        /\ \A i \in 1 .. M : SentBy(begun'[i].index, at + 1)
        /\ garbled = {} => \A k \in 1 .. at + 1 : script[k].event = "call" =>
              \E i \in 1 .. M : begun'[i].index = script[k].id /\ begun'[i].read = Taken(k, at + 1)
  BY <1>1 DEF CallsBegun
<1>12. \A id : SentBy(id, at) => SentBy(id, at + 1)
  BY <1>5
<1> HIDE DEF N, M, SentBy
<1>8. ASSUME NEW x \in BegunCalls, begun' = Append(begun, x), x.index = p.id, x.id \in {p.id, ""},
             \A i \in 1 .. N : begun[i].index # p.id
      PROVE  /\ begun' \in Seq(BegunCalls)
             /\ M = N + 1 /\ begun'[N + 1] = x /\ \A i \in 1 .. N : begun'[i] = begun[i]
             /\ \A i \in 1 .. M : i \in 1 .. N \/ i = N + 1
             /\ \A i, j \in 1 .. M : begun'[i].index = begun'[j].index => i = j
             /\ \A i \in 1 .. M : begun'[i].id \in {begun'[i].index, ""}
  <2>1. /\ begun' \in Seq(BegunCalls)
        /\ M = N + 1 /\ begun'[N + 1] = x /\ \A i \in 1 .. N : begun'[i] = begun[i]
    <3>1. begun \in Seq(BegunCalls) /\ x \in BegunCalls
      BY <1>3
    <3> QED
      <4>1. /\ Append(begun, x) \in Seq(BegunCalls) /\ Len(Append(begun, x)) = Len(begun) + 1
            /\ Append(begun, x)[Len(begun) + 1] = x
            /\ \A i \in 1 .. Len(begun) : Append(begun, x)[i] = begun[i]
        BY <3>1, AppendProperties
      <4> QED
        BY <1>8, <4>1 DEF M, N
  <2>2. \A i \in 1 .. M : i \in 1 .. N \/ i = N + 1
    BY <1>3, <2>1
  <2>3. \A i, j \in 1 .. M : begun'[i].index = begun'[j].index => i = j
    <3>1. SUFFICES ASSUME NEW i \in 1 .. M, NEW j \in 1 .. M, begun'[i].index = begun'[j].index
                   PROVE  i = j
      OBVIOUS
    <3>2. CASE i \in 1 .. N /\ j \in 1 .. N
      BY <1>4, <2>1, <3>1, <3>2
    <3>3. CASE i \in 1 .. N /\ j = N + 1
      BY <1>8, <2>1, <3>1, <3>3
    <3>4. CASE i = N + 1 /\ j \in 1 .. N
      BY <1>8, <2>1, <3>1, <3>4
    <3> QED
      BY <2>2, <3>2, <3>3, <3>4
  <2>4. \A i \in 1 .. M : begun'[i].id \in {begun'[i].index, ""}
    BY <1>4, <1>8, <2>1, <2>2
  <2> QED
    BY <2>1, <2>2, <2>3, <2>4
<1>9. CASE p.event = "call"
  <2> DEFINE x == [index |-> p.id, id |-> p.id, read |-> 0]
  <2>1. begun' = Append(begun, x) /\ x \in BegunCalls /\ x.index = p.id /\ x.id = p.id /\ x.read = 0
    BY <1>1, <1>6, <1>9 DEF BeginsCalls, BegunCalls
  <2> HIDE DEF x
  <2>2. ASSUME NEW i \in 1 .. N, begun[i].index = p.id PROVE FALSE
    <3>1. PICK k \in 1 .. at : script[k].event = "call" /\ script[k].id = p.id
      <4>1. SentBy(p.id, at)
        BY <1>4, <2>2
      <4> QED
        BY <4>1 DEF SentBy
    <3>2. k = at + 1
      BY <1>1, <1>5, <1>9, <3>1 DEF Cut, CallEvents
    <3> QED
      BY <1>1, <3>2
  <2>3. /\ begun' \in Seq(BegunCalls)
        /\ M = N + 1 /\ begun'[N + 1] = x /\ \A i \in 1 .. N : begun'[i] = begun[i]
        /\ \A i \in 1 .. M : i \in 1 .. N \/ i = N + 1
        /\ \A i, j \in 1 .. M : begun'[i].index = begun'[j].index => i = j
        /\ \A i \in 1 .. M : begun'[i].id \in {begun'[i].index, ""}
    BY <1>8, <2>1, <2>2
  <2>4. ASSUME NEW i \in 1 .. M
        PROVE  SentBy(begun'[i].index, at + 1)
    <3>1. CASE i \in 1 .. N
      BY <1>4, <1>12, <2>3, <3>1
    <3>2. CASE i = N + 1
      <4>1. at + 1 \in 1 .. at + 1
        BY <1>1
      <4> QED
        BY <1>1, <1>9, <2>1, <2>3, <3>2, <4>1 DEF SentBy
    <3> QED
      BY <2>3, <3>1, <3>2
  <2>5. ASSUME garbled = {}, NEW k \in 1 .. at + 1, script[k].event = "call"
        PROVE  \E i \in 1 .. M : begun'[i].index = script[k].id /\ begun'[i].read = Taken(k, at + 1)
    <3>1. CASE k \in 1 .. at
      <4>1. PICK i \in 1 .. N : begun[i].index = script[k].id /\ begun[i].read = Taken(k, at)
        BY <1>4, <2>5, <3>1
      <4>2. Taken(k, at + 1) = Taken(k, at)
        BY <1>1, <1>9, <2>5, <3>1, TakenNext
      <4>3. i \in 1 .. M
        <5>1. N \in Nat /\ M = N + 1
          BY <1>3, <2>3
        <5> QED
          BY <5>1
      <4> QED
        BY <2>3, <4>1, <4>2, <4>3
    <3>2. CASE k = at + 1
      <4>1. Taken(at + 1, at + 1) = 0
        BY <1>1 DEF Taken, ArgumentPieces
      <4>2. N + 1 \in 1 .. M
        <5>1. N \in Nat /\ M = N + 1
          BY <1>3, <2>3
        <5> QED
          BY <5>1
      <4> QED
        BY <1>1, <2>1, <2>3, <3>2, <4>1, <4>2
    <3> QED
      BY <1>5, <3>1, <3>2
  <2> QED
    BY <2>3, <2>4, <2>5
<1>10. CASE p.event = "arguments"
  <2>1. PICK k0 \in 1 .. at : script[k0].event = "call" /\ script[k0].id = p.id
    <3>1. PICK i \in 1 .. Len(script) : i < at + 1 /\ script[i].event = "call" /\ script[i].id = p.id
      BY <1>1, <1>10 DEF Cut
    <3>2. i \in 1 .. at
      BY <1>1, <3>1
    <3> QED
      BY <3>1, <3>2
  <2>2. CASE Index(p.id) = {}
    <3> DEFINE x == [index |-> p.id, id |-> "", read |-> 1]
    <3>1. begun' = Append(begun, x) /\ x \in BegunCalls /\ x.index = p.id /\ x.id = ""
      BY <1>1, <1>6, <1>10, <2>2 DEF BeginsCalls, BegunCalls, Labels
    <3> HIDE DEF x
    <3>2. \A i \in 1 .. N : begun[i].index # p.id
      BY <1>3, <2>2 DEF Index
    <3>3. /\ begun' \in Seq(BegunCalls)
          /\ M = N + 1 /\ begun'[N + 1] = x /\ \A i \in 1 .. N : begun'[i] = begun[i]
          /\ \A i \in 1 .. M : i \in 1 .. N \/ i = N + 1
          /\ \A i, j \in 1 .. M : begun'[i].index = begun'[j].index => i = j
          /\ \A i \in 1 .. M : begun'[i].id \in {begun'[i].index, ""}
      BY <1>8, <3>1, <3>2
    <3>4. \A i \in 1 .. M : SentBy(begun'[i].index, at + 1)
      <4>1. SentBy(p.id, at + 1)
        BY <1>12, <2>1 DEF SentBy
      <4>2. \A i \in 1 .. N : SentBy(begun[i].index, at + 1)
        BY <1>4, <1>12
      <4> QED
        BY <3>1, <3>3, <4>1, <4>2
    <3>5. garbled # {}
      <4>1. SUFFICES ASSUME garbled = {} PROVE FALSE
        OBVIOUS
      <4>2. \E i \in 1 .. N : begun[i].index = script[k0].id
        BY <1>4, <2>1, <4>1
      <4> QED
        BY <2>1, <3>2, <4>2
    <3> QED
      BY <3>3, <3>4, <3>5
  <2>3. CASE Index(p.id) # {}
    <3> DEFINE y(i) == IF begun[i].index = p.id THEN [begun[i] EXCEPT !.read = @ + 1] ELSE begun[i]
    <3>1. begun' = [i \in 1 .. N |-> y(i)]
      BY <1>3, <1>6, <1>10, <2>3 DEF BeginsCalls, Index
    <3>2. ASSUME NEW i \in 1 .. N
          PROVE  /\ y(i) \in BegunCalls /\ y(i).index = begun[i].index /\ y(i).id = begun[i].id
                 /\ y(i).read = IF begun[i].index = p.id THEN begun[i].read + 1 ELSE begun[i].read
      BY <1>3 DEF BegunCalls
    <3> HIDE DEF y
    <3>3. begun' \in Seq(BegunCalls) /\ M = N /\ \A i \in 1 .. N : begun'[i] = y(i)
      BY <1>3, <3>1, <3>2 DEF M
    <3>4. \A i, j \in 1 .. M : begun'[i].index = begun'[j].index => i = j
      <4>1. \A i \in 1 .. N : begun'[i].index = begun[i].index
        BY <3>2, <3>3
      <4> QED
        BY <1>4, <3>3, <4>1
    <3>5. \A i \in 1 .. M : begun'[i].id \in {begun'[i].index, ""} /\ SentBy(begun'[i].index, at + 1)
      <4>1. \A i \in 1 .. N : begun'[i].index = begun[i].index /\ begun'[i].id = begun[i].id
        BY <3>2, <3>3
      <4> QED
        BY <1>4, <1>12, <3>3, <4>1
    <3>6. ASSUME garbled = {}, NEW k \in 1 .. at + 1, script[k].event = "call"
          PROVE  \E i \in 1 .. M : begun'[i].index = script[k].id /\ begun'[i].read = Taken(k, at + 1)
      <4>1. k \in 1 .. at
        BY <1>1, <1>5, <1>10, <3>6
      <4>2. PICK i \in 1 .. N : begun[i].index = script[k].id /\ begun[i].read = Taken(k, at)
        BY <1>4, <3>6, <4>1
      <4>3. y(i).read = Taken(k, at + 1)
        BY <1>1, <1>10, <3>2, <3>6, <4>1, <4>2, TakenNext
      <4> QED
        BY <3>2, <3>3, <4>2, <4>3
    <3> QED
      BY <3>3, <3>4, <3>5, <3>6
  <2> QED
    BY <2>2, <2>3
<1>11. CASE p.event \notin {"call", "arguments"}
  <2>1. begun' = begun /\ M = N
    BY <1>6, <1>11 DEF BeginsCalls, M, N
  <2>2. ASSUME garbled = {}, NEW k \in 1 .. at + 1, script[k].event = "call"
        PROVE  \E i \in 1 .. N : begun[i].index = script[k].id /\ begun[i].read = Taken(k, at + 1)
    <3>1. k \in 1 .. at
      BY <1>1, <1>5, <1>11, <2>2
    <3>2. Taken(k, at + 1) = Taken(k, at)
      BY <1>1, <1>11, <2>2, <3>1, TakenNext
    <3>3. PICK i \in 1 .. N : begun[i].index = script[k].id /\ begun[i].read = Taken(k, at)
      BY <1>4, <2>2, <3>1
    <3> QED
      BY <3>2, <3>3
  <2>3. \A i \in 1 .. N : SentBy(begun[i].index, at + 1)
    BY <1>4, <1>12
  <2> QED
    BY <1>3, <1>4, <2>1, <2>2, <2>3
<1> QED
  BY <1>9, <1>10, <1>11

LEMMA GoesKeeps ==
    ASSUME NEW p, Goes(p)
    PROVE  StreamInv'
BY GoesTyped, GoesTexts, GoesCalls, GoesBegun, GoesUsage DEF StreamInv

\* What OpenAI yields when a reply is finished: every call it has begun, then the usage.
LEMMA FinishYields ==
    ASSUME NEW p, Finishes(p)
    PROVE  \E order1 \in Orders(Len(begun)), z \in Seq(YieldedParts), m \in Nat, u \in {0, 1} :
              /\ yielded' = yielded \o z /\ ~open' /\ usage' \in Nat /\ m = Len(begun)
              /\ Len(z) = IF u = 1 THEN m + 1 ELSE m
              /\ \A i \in 1 .. m : /\ z[i].is = "call" /\ z[i].id = begun[order1[i]].id
                                   /\ z[i].read = begun[order1[i]].read
              /\ u = 1 => z[m + 1].is = "usage" /\ z[m + 1].read = 1
<1> DEFINE N == Len(begun)
<1>1. /\ Ended(script) /\ at \in Nat /\ at + 1 \in 1 .. Len(script) /\ p = script[at + 1]
      /\ Len(script) \in Nat /\ open /\ CallsBegun /\ UsageYielded /\ client = "openai"
      /\ p.event = "finish" /\ OpenAIFinish(p)
  BY LenProperties DEF Finishes, Reading, StreamInv, StreamTyped, GoodScript
<1>2. usage = 0
  <2>1. \A k \in 1 .. at : script[k].event \notin Counted
    BY <1>1 DEF Ended
  <2> QED
    BY <1>1, <2>1 DEF UsageYielded
<1>3. usage' \in {0, 1} /\ ~open'
  BY <1>1, <1>2 DEF OpenAIFinish, Ends
<1>4. /\ begun \in Seq(BegunCalls) /\ N \in Nat /\ DOMAIN begun = 1 .. N
      /\ \A i \in 1 .. N : begun[i] \in BegunCalls
  BY <1>1, LenProperties, ElementOfSeq DEF CallsBegun
<1>5. PICK order1 \in Orders(N) :
         Yield([i \in DOMAIN begun |-> CallPart(begun[order1[i]])] \o Finished(usage'))
  BY <1>1 DEF OpenAIFinish
<1>6. \A i \in 1 .. N : order1[i] \in 1 .. N
  BY <1>5 DEF Orders
<1> DEFINE c == [i \in 1 .. N |-> CallPart(begun[order1[i]])]
           f == Finished(usage')
           z == c \o f
<1>7. ASSUME NEW i \in 1 .. N
      PROVE  /\ CallPart(begun[order1[i]]) \in YieldedParts
             /\ CallPart(begun[order1[i]]).is = "call"
             /\ CallPart(begun[order1[i]]).id = begun[order1[i]].id
             /\ CallPart(begun[order1[i]]).read = begun[order1[i]].read
  <2>1. begun[order1[i]] \in BegunCalls
    BY <1>4, <1>6
  <2> DEFINE b == begun[order1[i]]
  <2>2. b.id \in Labels /\ b.read \in Nat
    BY <2>1 DEF BegunCalls
  <2> HIDE DEF b
  <2>3. CallPart(b) \in YieldedParts /\ CallPart(b).is = "call" /\ CallPart(b).id = b.id /\ CallPart(b).read = b.read
    BY <2>2 DEF CallPart, YieldedParts
  <2> QED
    BY <2>3 DEF b
<1>8. c \in Seq(YieldedParts) /\ Len(c) = N /\ \A i \in 1 .. N : c[i] = CallPart(begun[order1[i]])
  BY <1>4, <1>7
<1>9. /\ f \in Seq(YieldedParts) /\ Len(f) = usage'
      /\ usage' = 1 => f[1].is = "usage" /\ f[1].read = 1
  <2> HIDE DEF f
  <2>1. CASE usage' = 0
    <3>1. f = <<>>
      BY <2>1 DEF Finished, f
    <3> QED
      BY <2>1, <3>1
  <2>2. CASE usage' = 1
    <3>1. f = <<UsagePart(1)>>
      BY <2>2 DEF Finished, f
    <3> DEFINE x == UsagePart(1)
    <3>2. x \in YieldedParts /\ x.is = "usage" /\ x.read = 1
      BY PartsAre
    <3> HIDE DEF x
    <3>3. f = <<x>>
      BY <3>1 DEF x
    <3> QED
      BY <2>2, <3>2, <3>3
  <2> QED
    BY <1>3, <2>1, <2>2
<1>10. yielded' = yielded \o z
  BY <1>4, <1>5 DEF Yield
<1> HIDE DEF c, f
<1>11. /\ z \in Seq(YieldedParts) /\ Len(z) = N + usage'
       /\ \A i \in 1 .. N + usage' : z[i] = IF i <= N THEN c[i] ELSE f[i - N]
  <2>1. c \in Seq(YieldedParts) /\ f \in Seq(YieldedParts)
    BY <1>8, <1>9
  <2>2. /\ z \in Seq(YieldedParts) /\ Len(z) = Len(c) + Len(f)
        /\ \A i \in 1 .. Len(c) + Len(f) : z[i] = IF i <= Len(c) THEN c[i] ELSE f[i - Len(c)]
    BY <2>1, ConcatProperties
  <2>3. Len(c) = N /\ Len(f) = usage'
    BY <1>8, <1>9
  <2> QED
    BY <2>2, <2>3
<1> HIDE DEF z
<1>12. \A i \in 1 .. N : z[i] = c[i]
  BY <1>3, <1>4, <1>11
<1>13. usage' = 1 => z[N + 1] = f[1]
  BY <1>4, <1>11
<1>14. Len(z) = IF usage' = 1 THEN N + 1 ELSE N
  BY <1>3, <1>4, <1>11
<1>15. /\ \A i \in 1 .. N : /\ z[i].is = "call" /\ z[i].id = begun[order1[i]].id
                            /\ z[i].read = begun[order1[i]].read
       /\ usage' = 1 => z[N + 1].is = "usage" /\ z[N + 1].read = 1
  BY <1>7, <1>8, <1>9, <1>12, <1>13
<1>16. usage' \in Nat
  BY <1>3
<1> HIDE DEF N
<1>17. N = Len(begun)
  BY DEF N
<1> QED
  BY <1>3, <1>4, <1>5, <1>10, <1>11, <1>14, <1>15, <1>16, <1>17

LEMMA FinishKeeps ==
    ASSUME NEW p, Finishes(p)
    PROVE  StreamInv'
<1> DEFINE L == Len(yielded)
<1>1. /\ client' = client /\ script' = script /\ at' = at + 1 /\ garbled' = garbled
      /\ GoodScript(client, script) /\ Cut(script) /\ Ended(script) /\ script \in Seq(Pieces(client))
      /\ at \in Nat /\ at + 1 \in 1 .. Len(script) /\ p = script[at + 1]
      /\ Len(script) \in Nat /\ open /\ client = "openai" /\ p.event = "finish"
      /\ yielded \in Seq(YieldedParts) /\ L \in Nat /\ garbled \in SUBSET (1 .. at) /\ client \in Clients
      /\ TextsYielded /\ CallsYielded /\ CallsBegun /\ UsageYielded
  BY LenProperties DEF Finishes, Reading, StreamInv, StreamTyped, GoodScript
<1>2. PICK order1 \in Orders(Len(begun)), z \in Seq(YieldedParts), m \in Nat, u \in {0, 1} :
              /\ yielded' = yielded \o z /\ ~open' /\ usage' \in Nat /\ m = Len(begun)
              /\ Len(z) = IF u = 1 THEN m + 1 ELSE m
              /\ \A i \in 1 .. m : /\ z[i].is = "call" /\ z[i].id = begun[order1[i]].id
                                   /\ z[i].read = begun[order1[i]].read
              /\ u = 1 => z[m + 1].is = "usage" /\ z[m + 1].read = 1
  BY FinishYields
<1>3. /\ \A i \in 1 .. m : order1[i] \in 1 .. m
      /\ \A i, j \in 1 .. m : order1[i] = order1[j] => i = j
  BY <1>2 DEF Orders
<1>4. /\ \A i, j \in 1 .. m : begun[i].index = begun[j].index => i = j
      /\ \A i \in 1 .. m : begun[i].id \in {begun[i].index, ""}
      /\ \A i \in 1 .. m : \E k \in 1 .. at : script[k].event = "call" /\ script[k].id = begun[i].index
      /\ garbled = {} => \A k \in 1 .. at : script[k].event = "call" =>
            \E i \in 1 .. m : begun[i].index = script[k].id /\ begun[i].read = Taken(k, at)
  BY <1>1, <1>2 DEF CallsBegun
<1>5. \A i \in 1 .. L : yielded[i].is \notin {"call", "usage"}
  <2>1. \A k \in 1 .. at : script[k].event \notin Counted
    BY <1>1 DEF Ended
  <2> QED
    BY <1>1, <2>1 DEF CallsYielded, UsageYielded
<1> DEFINE w == yielded'
<1>6. /\ w \in Seq(YieldedParts) /\ Len(z) \in Nat /\ Len(w) = L + Len(z)
      /\ \A i \in 1 .. L + Len(z) : w[i] = IF i <= L THEN yielded[i] ELSE z[i - L]
  <2>1. yielded \in Seq(YieldedParts) /\ z \in Seq(YieldedParts)
    BY <1>1
  <2>2. yielded' = yielded \o z
    BY <1>2
  <2> QED
    BY <2>1, <2>2, ConcatProperties, LenProperties
<1> HIDE DEF w, L
<1>7. /\ \A i \in 1 .. Len(z) : z[i].is = "call" <=> i \in 1 .. m
      /\ \A i \in 1 .. Len(z) : z[i].is = "usage" => i = m + 1 /\ z[i].read = 1
      /\ \A i \in 1 .. Len(z) : z[i].is # "text"
  <2>1. \A i \in 1 .. Len(z) : i \in 1 .. m \/ (u = 1 /\ i = m + 1)
    BY <1>2
  <2>2. m + 1 \notin 1 .. m
    BY <1>2
  <2> QED
    BY <1>2, <2>1, <2>2
<1>8. \A i \in 1 .. Len(w) : w[i].is \in {"call", "usage"} =>
         i - L \in 1 .. Len(z) /\ w[i] = z[i - L]
  BY <1>1, <1>5, <1>6
<1>9. StreamTyped'
  <2>1. garbled \in SUBSET (1 .. at + 1) /\ at + 1 \in Nat /\ at + 1 <= Len(script)
    BY <1>1
  <2>2. yielded' \in Seq(YieldedParts)
    BY <1>6 DEF w
  <2>3. open' \in BOOLEAN
    BY DEF Finishes, OpenAIFinish, Ends
  <2> QED
    BY <1>1, <1>2, <2>1, <2>2, <2>3 DEF StreamTyped
<1>10. TextsYielded'
  <2>1. OfKind(z, "text") = <<>>
    <3>1. DOMAIN z = 1 .. Len(z)
      BY LenProperties
    <3> QED
      BY <1>7, <3>1, OfKindNone
  <2>2. OfKind(yielded', "text") = OfKind(yielded, "text") \o OfKind(z, "text")
    BY <1>1, <1>2, OfKindConcat
  <2>3. OfKind(yielded, "text") \in Seq(YieldedParts)
    BY <1>1, OfKindIs
  <2>4. OfKind(yielded', "text") = OfKind(yielded, "text")
    BY <2>1, <2>2, <2>3, ConcatEmptySeq
  <2>5. TextsIn(script, garbled, at + 1) = TextsIn(script, garbled, at)
    BY <1>1, TextsNext
  <2> QED
    BY <1>1, <2>4, <2>5 DEF TextsYielded
<1>11. CallsYielded'
  <2>1. ASSUME NEW i \in 1 .. Len(w), NEW j \in 1 .. Len(w), w[i].is = "call", w[j].is = "call",
               w[i].id = w[j].id, w[i].id # ""
        PROVE  i = j
    <3> DEFINE a == i - L
               b == j - L
    <3>1. a \in 1 .. m /\ b \in 1 .. m /\ z[a].id = z[b].id /\ z[a].id # ""
      BY <1>7, <1>8, <2>1
    <3> HIDE DEF a, b
    <3>2. /\ order1[a] \in 1 .. m /\ order1[b] \in 1 .. m
          /\ z[a].id = begun[order1[a]].id /\ z[b].id = begun[order1[b]].id
      BY <1>2, <1>3, <3>1
    <3>3. begun[order1[a]].id = begun[order1[a]].index /\ begun[order1[b]].id = begun[order1[b]].index
      <4>1. begun[order1[a]].id # "" /\ begun[order1[b]].id # ""
        BY <3>1, <3>2
      <4> QED
        BY <1>4, <3>2, <4>1
    <3>4. a = b
      <4>1. begun[order1[a]].index = begun[order1[b]].index
        BY <3>1, <3>2, <3>3
      <4>2. order1[a] = order1[b]
        BY <1>4, <3>2, <4>1
      <4> QED
        BY <1>3, <3>1, <4>2
    <3> QED
      BY <1>1, <3>4 DEF a, b, L
  <2>2. ASSUME garbled = {}, NEW i \in 1 .. m PROVE begun[i].read = ArgumentPieces
    <3>1. PICK k \in 1 .. at : script[k].event = "call" /\ script[k].id = begun[i].index
      BY <1>4
    <3>2. PICK j \in 1 .. m : begun[j].index = script[k].id /\ begun[j].read = Taken(k, at)
      BY <1>4, <2>2, <3>1
    <3>3. i = j
      BY <1>4, <3>1, <3>2
    <3>4. /\ k + ArgumentPieces <= Len(script)
          /\ \A q \in 1 .. Len(script) : (k < q /\ q <= k + ArgumentPieces) => script[q].event = "arguments"
      <4>1. k \in 1 .. Len(script)
        BY <1>1
      <4> QED
        BY <1>1, <3>1, <4>1 DEF Cut
    <3>5. ~(at + 1 <= k + ArgumentPieces)
      BY <1>1, <3>4
    <3>6. Taken(k, at) = ArgumentPieces
      BY <1>1, <3>5 DEF Taken, ArgumentPieces
    <3> QED
      BY <3>2, <3>3, <3>6
  <2>3. ASSUME NEW i \in 1 .. Len(w), w[i].is = "call", garbled = {} PROVE w[i].read = ArgumentPieces
    <3>1. i - L \in 1 .. m /\ w[i] = z[i - L]
      BY <1>7, <1>8, <2>3
    <3> QED
      BY <1>2, <1>3, <2>2, <2>3, <3>1
  <2>4. \A i, j \in 1 .. Len(yielded') :
          (yielded'[i].is = "call" /\ yielded'[j].is = "call" /\ yielded'[i].id = yielded'[j].id
           /\ yielded'[i].id # "") => i = j
    BY <2>1 DEF w
  <2>5. \A i \in 1 .. Len(yielded') :
             yielded'[i].is = "call" => yielded'[i].read = ArgumentPieces \/ garbled # {}
    BY <2>3 DEF w
  <2> QED
    BY <1>1, <1>2, <2>4, <2>5 DEF CallsYielded
<1>12. CallsBegun'
  BY <1>2 DEF CallsBegun
<1>13. UsageYielded'
  <2>1. \A i \in 1 .. Len(w) : w[i].is = "usage" => i - L = m + 1 /\ w[i].read <= 1
    <3>1. ASSUME NEW i \in 1 .. Len(w), w[i].is = "usage" PROVE i - L = m + 1 /\ w[i].read <= 1
      <4>1. i - L \in 1 .. Len(z) /\ w[i] = z[i - L]
        BY <1>8, <3>1
      <4>2. i - L = m + 1 /\ w[i].read = 1
        BY <1>7, <3>1, <4>1
      <4> QED
        BY <4>2
    <3> QED
      BY <3>1
  <2>2. \A i, j \in 1 .. Len(w) : (w[i].is = "usage" /\ w[j].is = "usage") => i = j
    <3>1. L \in Nat /\ Len(w) \in Nat
      BY <1>1, <1>6 DEF L
    <3>2. \A i, j \in 1 .. Len(w) : i - L = j - L => i = j
      BY <3>1
    <3> QED
      BY <2>1, <3>2
  <2>3. /\ \A i \in 1 .. Len(yielded') : yielded'[i].is = "usage" => yielded'[i].read <= 1
        /\ \A i, j \in 1 .. Len(yielded') : (yielded'[i].is = "usage" /\ yielded'[j].is = "usage") => i = j
    BY <2>1, <2>2 DEF w
  <2> QED
    BY <1>2, <2>3 DEF UsageYielded
<1> QED
  BY <1>9, <1>10, <1>11, <1>12, <1>13 DEF StreamInv

----------------------------------------------------------------------------
(* The stream.                                                              *)

LEMMA StreamInitInv ==
    ASSUME StreamAssumption, StreamInit
    PROVE  StreamInv
<1>1. /\ client \in Clients /\ at = 0 /\ garbled = {} /\ begun = <<>> /\ usage = 0
      /\ yielded = <<>> /\ open = TRUE
  BY DEF StreamInit
<1>2. PICK parts \in Scripts : \E closing \in Closing(client) : script = Reply(client, parts) \o closing
  BY DEF StreamInit
<1>3. PICK closing \in Closing(client) : script = Reply(client, parts) \o closing
  BY <1>2
<1>4. /\ parts \in Seq(ReplyParts)
      /\ \A i, j \in DOMAIN parts :
            (parts[i].is = "call" /\ parts[j].is = "call" /\ parts[i].id = parts[j].id) => i = j
  BY DEF StreamAssumption, ReplyParts
<1>5. GoodScript(client, script)
  BY <1>1, <1>3, <1>4, ScriptGood
<1>6. script \in Seq(Pieces(client)) /\ Len(script) \in Nat
  BY <1>5, LenProperties DEF GoodScript
<1>7. yielded \in Seq(YieldedParts) /\ Len(yielded) = 0 /\ DOMAIN yielded = {}
      /\ begun \in Seq(BegunCalls) /\ Len(begun) = 0
  BY <1>1
<1>8. 1 .. at = {} /\ \A i \in 1 .. 0 : FALSE
  BY <1>1
<1>9. StreamTyped
  BY <1>1, <1>5, <1>6, <1>7 DEF StreamTyped
<1>10. TextsYielded
  <2>1. OfKind(yielded, "text") = <<>>
    BY <1>7, OfKindNone
  <2>2. TextsIn(script, garbled, at) = {}
    BY <1>8 DEF TextsIn
  <2>3. Kept(script, {}) = <<>>
    BY <1>6, KeptNone
  <2> QED
    BY <2>1, <2>2, <2>3 DEF TextsYielded
<1>11. CallsYielded
  BY <1>7, <1>8 DEF CallsYielded
<1>12. CallsBegun
  BY <1>7, <1>8 DEF CallsBegun
<1>13. UsageYielded
  BY <1>1, <1>7, <1>8 DEF UsageYielded
<1> QED
  BY <1>9, <1>10, <1>11, <1>12, <1>13 DEF StreamInv

LEMMA GarbledKeeps ==
    ASSUME StreamInv, Garbled
    PROVE  StreamInv'
<1>1. /\ open /\ at' = at + 1 /\ garbled' = garbled \cup {at + 1} /\ open' \in BOOLEAN
      /\ client' = client /\ script' = script /\ begun' = begun /\ usage' = usage /\ yielded' = yielded
      /\ at \in Nat /\ Len(script) \in Nat /\ at + 1 \in 1 .. Len(script) /\ at + 1 <= Len(script)
      /\ script \in Seq(Pieces(client)) /\ garbled \in SUBSET (1 .. at)
  <2>1. script \in Seq(Pieces(client)) /\ at \in Nat /\ garbled \in SUBSET (1 .. at)
    BY DEF StreamInv, StreamTyped, GoodScript
  <2>2. Len(script) \in Nat
    BY <2>1, LenProperties
  <2> QED
    BY <2>1, <2>2 DEF Garbled
<1>2. \A k \in 1 .. at : k \in 1 .. at + 1
  BY <1>1
<1>3. garbled \cup {at + 1} \in SUBSET (1 .. at + 1) /\ garbled \cup {at + 1} # {} /\ at + 1 \in Nat
  BY <1>1
<1>4. StreamTyped'
  BY <1>1, <1>3 DEF StreamInv, StreamTyped
<1>5. TextsYielded'
  <2>1. TextsIn(script, garbled \cup {at + 1}, at + 1) = TextsIn(script, garbled, at)
    BY <1>1, TextsNext
  <2> QED
    BY <1>1, <2>1 DEF StreamInv, TextsYielded
<1>6. CallsYielded'
  <2>1. CallsYielded
    BY DEF StreamInv
  <2>2. client # "openai" =>
          \A i \in 1 .. Len(yielded) : yielded[i].is = "call" =>
             \E k \in 1 .. at + 1 : script[k].event = CallEvent(client) /\ script[k].id = yielded[i].id
    BY <1>2, <2>1 DEF CallsYielded
  <2> QED
    BY <1>1, <1>3, <2>1, <2>2 DEF CallsYielded
<1>7. CallsBegun'
  <2>1. CallsBegun
    BY DEF StreamInv
  <2>2. (client = "openai" /\ open) => \A i \in 1 .. Len(begun) :
            \E k \in 1 .. at + 1 : script[k].event = "call" /\ script[k].id = begun[i].index
    BY <1>2, <2>1 DEF CallsBegun
  <2> QED
    BY <1>1, <1>3, <2>1, <2>2 DEF CallsBegun
<1>8. UsageYielded'
  BY <1>1, <1>2 DEF StreamInv, UsageYielded
<1> QED
  BY <1>4, <1>5, <1>6, <1>7, <1>8 DEF StreamInv

LEMMA StoppedKeeps ==
    ASSUME StreamInv, open' = FALSE,
           UNCHANGED <<client, script, at, garbled, begun, usage, yielded>>
    PROVE  StreamInv'
<1>1. /\ open' = FALSE /\ client' = client /\ script' = script /\ at' = at /\ garbled' = garbled
      /\ begun' = begun /\ usage' = usage /\ yielded' = yielded
  OBVIOUS
<1>2. StreamTyped' /\ TextsYielded'
  BY <1>1 DEF StreamInv, StreamTyped, TextsYielded
<1>3. CallsYielded'
  BY <1>1 DEF StreamInv, CallsYielded
<1>4. CallsBegun' /\ UsageYielded'
  BY <1>1 DEF StreamInv, CallsBegun, UsageYielded
<1> QED
  BY <1>2, <1>3, <1>4 DEF StreamInv

LEMMA BodyEndsKeeps ==
    ASSUME StreamInv, BodyEnds
    PROVE  StreamInv'
<1>1. /\ open /\ open' = FALSE /\ client' = client /\ script' = script /\ at' = at /\ garbled' = garbled
      /\ begun' = begun /\ usage' = usage /\ client = "jetbrains" /\ Yield(Finished(usage))
      /\ yielded \in Seq(YieldedParts) /\ usage \in Nat /\ Len(yielded) \in Nat
  BY LenProperties DEF BodyEnds, Ends, StreamInv, StreamTyped
<1>2. /\ usage <= 1
      /\ \A i \in 1 .. Len(yielded) : yielded[i].is # "usage"
  BY <1>1 DEF StreamInv, UsageYielded
<1>3. CASE usage = 0
  <2>1. yielded' = yielded
    BY <1>1, <1>3, YieldFinished
  <2> QED
    BY <1>1, <2>1, StoppedKeeps
<1>4. CASE usage = 1
  <2> DEFINE x == UsagePart(1)
  <2>1. x \in YieldedParts /\ x.is = "usage" /\ x.read = 1
    BY PartsAre
  <2>2. yielded' = Append(yielded, x)
    BY <1>1, <1>4, YieldFinished
  <2> HIDE DEF x
  <2>3. /\ yielded' \in Seq(YieldedParts) /\ Len(yielded') = Len(yielded) + 1
        /\ yielded'[Len(yielded) + 1] = x
        /\ \A i \in 1 .. Len(yielded) : yielded'[i] = yielded[i]
    BY <1>1, <2>1, <2>2, AppendProperties
  <2>4. \A i \in 1 .. Len(yielded') : i \in 1 .. Len(yielded) \/ i = Len(yielded) + 1
    BY <1>1, <2>3
  <2>5. StreamTyped'
    BY <1>1, <2>3 DEF StreamInv, StreamTyped
  <2>6. TextsYielded'
    <3>1. yielded' = yielded \o <<x>> /\ <<x>> \in Seq(YieldedParts)
      BY <1>1, <2>1, <2>2, AppendIsConcat
    <3>2. OfKind(<<x>>, "text") = <<>>
      <4> DEFINE z == <<x>>
      <4>1. z \in Seq(YieldedParts) /\ \A i \in DOMAIN z : z[i].is # "text"
        BY <2>1
      <4> HIDE DEF z
      <4>2. OfKind(z, "text") = <<>>
        BY <4>1, OfKindNone
      <4> QED
        BY <4>2 DEF z
    <3>3. OfKind(yielded', "text") = OfKind(yielded, "text") \o OfKind(<<x>>, "text")
      BY <1>1, <3>1, OfKindConcat
    <3>4. OfKind(yielded, "text") \in Seq(YieldedParts)
      BY <1>1, OfKindIs
    <3>5. OfKind(yielded', "text") = OfKind(yielded, "text")
      BY <3>2, <3>3, <3>4, ConcatEmptySeq
    <3> QED
      BY <1>1, <3>5 DEF StreamInv, TextsYielded
  <2>7. CallsYielded'
    <3>1. \A i \in 1 .. Len(yielded') : yielded'[i].is = "call" =>
             i \in 1 .. Len(yielded) /\ yielded'[i] = yielded[i]
      BY <2>1, <2>3, <2>4
    <3> QED
      BY <1>1, <3>1 DEF StreamInv, CallsYielded
  <2>8. CallsBegun'
    BY <1>1 DEF CallsBegun
  <2>9. UsageYielded'
    <3>1. \A i \in 1 .. Len(yielded') : yielded'[i].is = "usage" => i = Len(yielded) + 1
      BY <1>2, <2>3, <2>4
    <3>2. \A i \in 1 .. Len(yielded') : yielded'[i].is = "usage" => yielded'[i].read <= 1
      BY <2>1, <2>3, <3>1
    <3> QED
      BY <1>1, <3>1, <3>2 DEF UsageYielded
  <2> QED
    BY <2>5, <2>6, <2>7, <2>8, <2>9 DEF StreamInv
<1> QED
  BY <1>1, <1>2, <1>3, <1>4

\* What is read, yielded and counted of a stream fits together, wherever it breaks off.
THEOREM StreamInvariant ==
    ASSUME StreamAssumption
    PROVE  StreamSpec => []StreamInv
<1>1. StreamInit => StreamInv
  BY StreamInitInv
<1>2. StreamInv /\ [StreamNext]_streamVars => StreamInv'
  <2>1. SUFFICES ASSUME StreamInv, [StreamNext]_streamVars PROVE StreamInv'
    OBVIOUS
  <2>2. CASE Reads
    BY <2>1, <2>2, ReadsAre, GoesKeeps, FinishKeeps
  <2>3. CASE Garbled
    BY <2>1, <2>3, GarbledKeeps
  <2>4. CASE BodyEnds
    BY <2>1, <2>4, BodyEndsKeeps
  <2>6. CASE Stops
    BY <2>1, <2>6, StoppedKeeps DEF Stops, Ends
  <2>5. CASE UNCHANGED streamVars
    BY <2>1, <2>5 DEF streamVars, StreamInv, StreamTyped, TextsYielded, CallsYielded, CallsBegun, UsageYielded
  <2> QED
    BY <2>1, <2>2, <2>3, <2>4, <2>5, <2>6 DEF StreamNext
<1> QED
  BY <1>1, <1>2, PTL DEF StreamSpec

LEMMA TotalOfOne ==
    ASSUME NEW v \in Seq(Nat), Len(v) <= 1, \A i \in 1 .. Len(v) : v[i] <= 1
    PROVE  Total(v) <= 1
<1>1. Len(v) \in Nat /\ \A i \in 1 .. Len(v) : v[i] \in Nat
  BY LenProperties, ElementOfSeq
<1>2. PICK f : TotalRun(f, v)
  BY TotalSteps
<1>3. f[0] = 0 /\ Total(v) = f[Len(v)] /\ \A n \in 1 .. Len(v) : f[n] = f[n - 1] + v[n]
  BY <1>2 DEF TotalRun
<1>4. CASE Len(v) = 0
  BY <1>3, <1>4
<1>5. CASE Len(v) = 1
  <2>1. 1 \in 1 .. Len(v) /\ 1 - 1 = 0
    BY <1>5
  <2>2. f[1] = 0 + v[1] /\ v[1] <= 1 /\ v[1] \in Nat
    BY <1>1, <1>3, <2>1
  <2> QED
    BY <1>3, <1>5, <2>2
<1>6. \A n \in Nat : n <= 1 => n = 0 \/ n = 1
  OBVIOUS
<1>7. Len(v) \in Nat /\ Len(v) <= 1
  BY <1>1
<1> QED
  BY <1>4, <1>5, <1>6, <1>7

LEMMA StreamInvFaithful ==
    ASSUME StreamInv
    PROVE  StreamFaithful
<1>1. /\ script \in Seq(Pieces(client)) /\ at \in Nat /\ at <= Len(script) /\ Len(script) \in Nat
      /\ DOMAIN script = 1 .. Len(script)
      /\ yielded \in Seq(YieldedParts) /\ Len(yielded) \in Nat /\ DOMAIN yielded = 1 .. Len(yielded)
      /\ TextsYielded /\ CallsYielded /\ UsageYielded
  BY LenProperties DEF StreamInv, StreamTyped, GoodScript
<1>2. \A kind : Yields(kind) = OfKind(yielded, kind)
  BY DEF Yields, OfKind
<1>3. IsPrefix(IDsOf(Yields("text")), IDsOf(Sent("text")))
  <2> DEFINE K == {i \in DOMAIN script : script[i].event = "text" /\ i \notin garbled}
             a == Kept(script, K \cap (1 .. at))
             b == Kept(script, K \ (1 .. at))
  <2>1. K \in SUBSET DOMAIN script /\ K \cap (1 .. at) = TextsIn(script, garbled, at)
    BY <1>1 DEF TextsIn
  <2>2. Sent("text") = Kept(script, K)
    BY DEF Sent
  <2> HIDE DEF K
  <2>3. K \cap (1 .. at) \in SUBSET DOMAIN script /\ K \ (1 .. at) \in SUBSET DOMAIN script
    BY <2>1
  <2>4. a \in Seq(Pieces(client)) /\ b \in Seq(Pieces(client))
    BY <1>1, <2>3, KeptPlaces
  <2>5. Kept(script, K) = a \o b
    <3>1. script \in Seq(Pieces(client)) /\ at \in Nat /\ K \in SUBSET DOMAIN script
      BY <1>1, <2>1
    <3> QED
      BY <3>1, KeptSplit
  <2>6. IDsOf(Yields("text")) = IDsOf(a)
    BY <1>1, <1>2, <2>1 DEF TextsYielded
  <2> HIDE DEF a, b
  <2>7. IDsOf(a \o b) = IDsOf(a) \o IDsOf(b)
    BY <2>4, LabelsConcat
  <2>8. ASSUME NEW s \in Seq(Pieces(client)) PROVE IDsOf(s) \in Seq(Labels)
    <3>1. DOMAIN s = 1 .. Len(s) /\ Len(s) \in Nat /\ \A i \in 1 .. Len(s) : s[i] \in Pieces(client)
      BY LenProperties, ElementOfSeq
    <3>2. \A i \in 1 .. Len(s) : s[i].id \in Labels
      BY <3>1 DEF Pieces
    <3> QED
      BY <3>1, <3>2 DEF IDsOf
  <2>9. IsPrefix(IDsOf(a), IDsOf(a) \o IDsOf(b))
    BY <2>4, <2>8, PrefixOf
  <2> QED
    BY <2>2, <2>5, <2>6, <2>7, <2>9
<1>4. ASSUME NEW kind
      PROVE  \E e, n :
                /\ n = Len(Yields(kind)) /\ n \in Nat /\ DOMAIN Yields(kind) = 1 .. n
                /\ \A i, j \in 1 .. n : i < j => e[i] < e[j]
                /\ \A i \in 1 .. n : /\ e[i] \in 1 .. Len(yielded) /\ Yields(kind)[i] = yielded[e[i]]
                                     /\ yielded[e[i]].is = kind
  <2> DEFINE K == {i \in DOMAIN yielded : yielded[i].is = kind}
             r == Yields(kind)
  <2>1. r = Kept(yielded, K) /\ K \in SUBSET DOMAIN yielded
    BY DEF Yields, KeptIf
  <2>2. \A k \in K : k \in 1 .. Len(yielded) /\ yielded[k].is = kind
    BY <1>1
  <2> HIDE DEF K, r
  <2>3. r \in Seq(YieldedParts) /\ \E e : Places(e, r, yielded, K)
    BY <1>1, <2>1, KeptPlaces
  <2>4. PICK e : Places(e, r, yielded, K)
    BY <2>3
  <2>5. Len(r) \in Nat /\ DOMAIN r = 1 .. Len(r)
    BY <2>3, LenProperties
  <2>6. /\ \A i, j \in 1 .. Len(r) : i < j => e[i] < e[j]
        /\ \A i \in 1 .. Len(r) : /\ e[i] \in 1 .. Len(yielded) /\ r[i] = yielded[e[i]]
                                  /\ yielded[e[i]].is = kind
    BY <2>2, <2>4 DEF Places
  <2> QED
    BY <2>5, <2>6 DEF r
<1>5. /\ \A i, j \in DOMAIN Yields("call") :
            (Yields("call")[i].id = Yields("call")[j].id /\ Yields("call")[i].id # "") => i = j
      /\ client # "anthropic" => \A i \in DOMAIN Yields("call") :
            Yields("call")[i].read = ArgumentPieces \/ garbled # {}
  <2> DEFINE r == Yields("call")
  <2>1. PICK e, n : /\ n = Len(r) /\ n \in Nat /\ DOMAIN r = 1 .. n
                    /\ \A i, j \in 1 .. n : i < j => e[i] < e[j]
                    /\ \A i \in 1 .. n : /\ e[i] \in 1 .. Len(yielded) /\ r[i] = yielded[e[i]]
                                         /\ yielded[e[i]].is = "call"
    BY <1>4
  <2> HIDE DEF r
  <2>2. ASSUME NEW i \in 1 .. n, NEW j \in 1 .. n, r[i].id = r[j].id, r[i].id # "" PROVE i = j
    <3>1. e[i] = e[j]
      <4>1. /\ e[i] \in 1 .. Len(yielded) /\ e[j] \in 1 .. Len(yielded)
            /\ yielded[e[i]].is = "call" /\ yielded[e[j]].is = "call"
            /\ yielded[e[i]].id = yielded[e[j]].id /\ yielded[e[i]].id # ""
        BY <2>1, <2>2
      <4> QED
        BY <1>1, <4>1 DEF CallsYielded
    <3>2. ~(i < j) /\ ~(j < i)
      <4>1. i < j => e[i] < e[i]
        BY <2>1, <3>1
      <4>2. j < i => e[i] < e[i]
        BY <2>1, <3>1
      <4>3. e[i] \in Int
        BY <1>1, <2>1
      <4> QED
        BY <4>1, <4>2, <4>3
    <3> QED
      BY <2>1, <3>2
  <2>3. client # "anthropic" => \A i \in 1 .. n : r[i].read = ArgumentPieces \/ garbled # {}
    <3>1. SUFFICES ASSUME client # "anthropic", NEW i \in 1 .. n
                   PROVE  r[i].read = ArgumentPieces \/ garbled # {}
      OBVIOUS
    <3>2. e[i] \in 1 .. Len(yielded) /\ yielded[e[i]].is = "call" /\ r[i] = yielded[e[i]]
      BY <2>1
    <3>3. yielded[e[i]].read = ArgumentPieces \/ garbled # {}
      BY <1>1, <3>1, <3>2 DEF CallsYielded
    <3> QED
      BY <3>2, <3>3
  <2> QED
    BY <2>1, <2>2, <2>3 DEF r
<1>6. CollectedUsage <= 1
  <2> DEFINE r == Yields("usage")
             v == [i \in DOMAIN r |-> r[i].read]
  <2>1. PICK e, n : /\ n = Len(r) /\ n \in Nat /\ DOMAIN r = 1 .. n
                    /\ \A i, j \in 1 .. n : i < j => e[i] < e[j]
                    /\ \A i \in 1 .. n : /\ e[i] \in 1 .. Len(yielded) /\ r[i] = yielded[e[i]]
                                         /\ yielded[e[i]].is = "usage"
    BY <1>4
  <2> HIDE DEF r
  <2>2. n <= 1
    <3>1. SUFFICES ASSUME ~(n <= 1) PROVE FALSE
      OBVIOUS
    <3>2. 1 \in 1 .. n /\ 2 \in 1 .. n
      BY <2>1, <3>1
    <3>3. e[1] = e[2] /\ e[1] < e[2] /\ e[1] \in Int
      BY <1>1, <2>1, <3>2 DEF UsageYielded
    <3> QED
      BY <3>3
  <2>3. \A i \in 1 .. n : r[i].read \in Nat /\ r[i].read <= 1
    <3>1. \A i \in 1 .. Len(yielded) : yielded[i].read \in Nat
      <4>1. \A i \in 1 .. Len(yielded) : yielded[i] \in YieldedParts
        BY <1>1, ElementOfSeq
      <4> QED
        BY <4>1 DEF YieldedParts
    <3> QED
      BY <1>1, <2>1, <3>1 DEF UsageYielded
  <2>4. v = [i \in 1 .. n |-> r[i].read]
    BY <2>1
  <2>5. v \in Seq(Nat) /\ Len(v) = n /\ \A i \in 1 .. n : v[i] = r[i].read
    BY <2>1, <2>3, <2>4
  <2>6. CollectedUsage = Total(v)
    BY DEF CollectedUsage, r
  <2> HIDE DEF v
  <2>7. Total(v) <= 1
    BY <2>2, <2>3, <2>5, TotalOfOne
  <2> QED
    BY <2>6, <2>7
<1> QED
  BY <1>3, <1>5, <1>6 DEF StreamFaithful

\* However the reply is cut, its text comes in order and without a gap, a call comes
\* once and with every argument, and the usage is counted at most once (the ChatStream
\* loops).
THEOREM StreamIsFaithful ==
    ASSUME StreamAssumption
    PROVE  StreamSpec => []StreamFaithful
<1>1. StreamInv => StreamFaithful
  BY StreamInvFaithful
<1> QED
  BY <1>1, StreamInvariant, PTL

\* A call of a reply that comes as events reaches the session only whole, and a
\* stream's text, calls and usage are what the server sent: CallsWhole for any
\* replies, failures and scripts (convertFromResponsesStreamBody and the ChatStream
\* loops).
THEOREM CallsStayWhole ==
    ASSUME WireAssumption, StreamAssumption
    PROVE  WireSpec /\ StreamSpec => []CallsWhole
<1>1. RepliesWhole /\ StreamFaithful => CallsWhole
  BY DEF CallsWhole
<1> QED
  BY <1>1, WireCallsWhole, StreamIsFaithful, PTL
=============================================================================
