--------------------------- MODULE RequestsProofs ---------------------------
(***************************************************************************)
(* Theorems about what a request to a model goes through: the run that     *)
(* makes it and its configuration (RunStart, Config), the chain of models  *)
(* (ModelChain) and the compaction of the conversation it carries          *)
(* (Compaction).  Each has an inductive invariant of its own.              *)
(***************************************************************************)
EXTENDS ModelChain, RunStart, Compaction, SequenceLemmas, FiniteSetTheorems

\* A set of numbers with an element has a least one.
LEMMA LeastOf ==
    ASSUME NEW T \in SUBSET Nat, T # {}
    PROVE  Min(T) \in T /\ \A x \in T : Min(T) <= x
<1> DEFINE R == {ss \in Nat \X Nat : ss[1] < ss[2]}
<1>1. IsWellFoundedOn(R, Nat)
  BY NatLessThanWellFounded DEF OpToRel
<1>2. \A a, b \in Nat : a < b => <<a, b>> \in R
  OBVIOUS
<1> HIDE DEF R
<1>3. PICK x \in T : \A y \in T : ~(<<y, x>> \in R)
  BY <1>1, WFMin
<1>4. \A y \in T : x <= y
  <2>1. ASSUME NEW y \in T, ~(x <= y) PROVE FALSE
    <3>1. y < x /\ x \in Nat /\ y \in Nat
      BY <2>1
    <3> QED
      BY <3>1, <1>2, <1>3
  <2> QED
    BY <2>1
<1> QED
  BY <1>3, <1>4 DEF Min

-----------------------------------------------------------------------------
(***************************************************************************)
(* The chain of models: for every number of models, every retry policy and *)
(* every sequence of answers, limits, failures, compactions and            *)
(* cancellations of the requests of a session.                             *)
(***************************************************************************)

\* How often SwitchToNextModel leads from model a to model b, short of a round.
Ahead(a, b) == IF b >= a THEN b - a ELSE b + NModels - a

-----------------------------------------------------------------------------
(* The inductive invariant, in six parts beside the types.                 *)

\* Where the loops stand: the pass asks the selected model, waits come after
\* whole passes, and only a compaction has something to summarise.
Placed ==
    /\ phase = "ask" => call.index = selectedIndex
    /\ phase = "wait" => call.i = NModels /\ call.attempt <= MaxRetries
    /\ phase \in {"idle", "compact"} => remaining = << >>

\* The model that answered last is selected, but for the models the pass has
\* been through.
GoodSelected ==
    good # NoModel =>
        IF phase = "ask" /\ call.i < NModels
        THEN Ahead(good, selectedIndex) = call.i
        ELSE selectedIndex = good

\* The models of a sequence follow each other as in the chain, up to a round apart.
ModelsInOrder(seq) ==
    \A i, j \in 1 .. Len(seq) :
        i < j /\ j - i < NModels =>
            \/ seq[j] = seq[i] + (j - i)
            \/ seq[j] = seq[i] + (j - i) - NModels

\* Models are asked in the order of the chain, and those of the pass are in `asked'.
InTurn ==
    /\ ModelsInOrder(asked)
    /\ phase \in {"ask", "wait"} /\ asked # << >> =>
          selectedIndex = (asked[Len(asked)] + 1) % NModels
    /\ phase = "ask" => Len(asked) >= call.i
    /\ phase = "wait" => Len(asked) >= NModels

\* A request that compacts for its own sake, or was given up, has had an answer from
\* no model.
LastPassWhole ==
    /\ (phase \in {"compact", "summarise"} \/ remaining # << >>) /\ call.round > 0 =>
          lastPass = Models
    /\ phase = "idle" /\ outcome \in {"failed", "tooLong"} => lastPass = Models
    /\ phase = "ask" /\ remaining = << >> => call.round > 0
    /\ phase = "wait" /\ remaining = << >> => call.round > 0

\* After the context is done a pass ends, and neither a wait nor a compaction
\* leads to another: "too many tokens" is no answer to a cancelled request, and
\* what a compaction asks is asked with a context of its own.
LateInPass ==
    /\ ~interrupted => late = 0
    /\ phase \in {"idle", "compact", "summarise"} => late = 0
    /\ remaining # << >> => late = 0
    /\ phase = "ask" => late <= call.i
    /\ phase # "idle" /\ call.lastErr = "tooLong" => late = 0
    /\ late <= NModels

\* The shortest limit kept is that of a model which announced it in this pass,
\* and those models are behind the one that is asked next.
ShortestKnown ==
    /\ phase \in {"ask", "wait"} /\ known # {} =>
          /\ call.best.set /\ call.best.secs > 0
          /\ \E m \in known : reset[m] <= call.best.secs
    /\ phase \in {"ask", "wait"} /\ call.best.secs > 0 => known # {}
    /\ phase = "ask" /\ call.i < NModels =>
          \A m \in known : Ahead(m, call.index) \in 1 .. call.i

ChainInv ==
    /\ ChainTypeOK /\ Placed /\ GoodSelected /\ InTurn /\ LastPassWhole /\ LateInPass
    /\ ShortestKnown

-----------------------------------------------------------------------------
(* Facts about the operators.                                              *)

\* calculateDelay's 1 << (attempt - 1) is a number: it counts the subsets of a
\* finite set.
LEMMA PowerOfTwo == \A n \in Nat : 2 ^ n \in Nat
<1> SUFFICES ASSUME NEW n \in Nat PROVE 2 ^ n \in Nat
  OBVIOUS
<1>1. IsFiniteSet(1 .. n) /\ Cardinality(1 .. n) = n
  BY FS_Interval
<1>2. QED
  BY <1>1, FS_SUBSET, FS_CardinalityType

\* The locals of the loops, field by field.
LEMMA CallFields ==
    ASSUME NEW c \in CallLocals
    PROVE  /\ c.round \in Nat /\ c.round <= MaxRetries + 1
           /\ c.attempt \in Nat /\ c.attempt >= 1 /\ c.attempt <= MaxRetries + 1
           /\ c.i \in Nat /\ c.i <= NModels
           /\ c.index \in Models /\ c.best \in Limits /\ c.lastErr \in Errors
           /\ c.best.secs \in Nat
  BY ChainAssumption DEF CallLocals, Limits

LEMMA DelayTyped == ChainTypeOK => CalculateDelay \in Nat
<1> SUFFICES ASSUME ChainTypeOK PROVE CalculateDelay \in Nat
  OBVIOUS
<1>1. call.attempt - 1 \in Nat /\ call.best.secs \in Nat
  BY CallFields DEF ChainTypeOK
<1>2. InitialDelay * 2 ^ (call.attempt - 1) \in Nat
  <2>1. \A a, b \in Nat : a * b \in Nat
    OBVIOUS
  <2>2. QED
    BY <1>1, <2>1, PowerOfTwo, ChainAssumption
<1>3. QED
  BY <1>1, <1>2, ChainAssumption DEF CalculateDelay

LEMMA PassedTyped ==
    ASSUME reset \in [Models -> Nat], NEW d \in Nat
    PROVE  /\ Passed(d) \in [Models -> Nat]
           /\ \A m \in Models : Passed(d)[m] <= reset[m]
           /\ \A m \in Models : reset[m] <= d => Passed(d)[m] = 0
  BY DEF Passed

\* The next model of the chain, and what the arithmetic of indices is about.
LEMMA SwitchStep ==
    ASSUME NEW x \in Models
    PROVE  /\ (x + 1) % NModels = IF x + 1 = NModels THEN 0 ELSE x + 1
           /\ (x + 1) % NModels \in Models
  BY ChainAssumption DEF Models

LEMMA ModelsTyped == Models \subseteq Nat /\ NoModel \notin Models /\ 0 \in Models
  BY ChainAssumption DEF Models, NoModel

LEMMA NewCallTyped == NewCall \in CallLocals
<1>1. /\ NoLimit \in Limits /\ 1 \in 1 .. MaxRetries + 1 /\ 1 \in 0 .. MaxRetries + 1
      /\ 0 \in 0 .. NModels
  BY ChainAssumption DEF NoLimit, Limits
<1>2. "none" \in Errors
  BY DEF Errors
<1>3. QED
  BY <1>1, <1>2, ModelsTyped DEF NewCall, CallLocals

\* A pass begins with typed locals, of which nothing is asked yet.
LEMMA PassTyped ==
    ASSUME NEW r \in 0 .. MaxRetries + 1, NEW a \in 1 .. MaxRetries + 1, NEW x \in Models,
           BeginPass(r, a, x)
    PROVE  /\ call' \in CallLocals /\ call'.i = 0 /\ call'.index = x /\ call'.attempt = a
           /\ call'.lastErr = "none" /\ call'.best.secs = 0
           /\ call'.round = r /\ phase' = "ask" /\ known' = {}
<1>1. call'.best.secs = 0
  BY DEF BeginPass, NewCall, NoLimit
<1>2. QED
  BY <1>1, NewCallTyped DEF BeginPass, CallLocals, NewCall

-----------------------------------------------------------------------------
(* Types                                                                   *)

LEMMA TypeInit == ChainInit => ChainTypeOK
  <1> SUFFICES ASSUME ChainInit PROVE ChainTypeOK
    OBVIOUS
  <1>1. call \in CallLocals
    BY NewCallTyped DEF ChainInit
  <1>2. asked \in Seq(Models) /\ late \in Nat /\ reset \in [Models -> Nat]
        /\ remaining \in Seq(Nat \ {0})
    BY DEF ChainInit
  <1>3. QED
    BY <1>1, <1>2, ModelsTyped DEF ChainInit, ChainTypeOK

LEMMA FailsTyped ==
    ASSUME ChainTypeOK, Asking, NEW err \in Errors,
           NEW best \in Limits,
           ModelFails(err, best)
    PROVE  /\ phase' = phase /\ selectedIndex' \in Models /\ call' \in CallLocals
           /\ asked' \in Seq(Models) /\ late' \in Nat
           /\ UNCHANGED <<interrupted, remaining, outcome, lastPass, good>>
<1>1. SwitchToNextModel \in Models
  BY SwitchStep, CallFields DEF ChainTypeOK, SwitchToNextModel
<1>2. call.i + 1 \in 0 .. NModels
  BY ChainAssumption, CallFields DEF ChainTypeOK, Asking, PassIsOver
<1>3. call' \in CallLocals
  BY <1>1, <1>2 DEF ChainTypeOK, ModelFails, CallLocals
<1>4. asked' \in Seq(Models) /\ late' \in Nat
  BY CallFields DEF ChainTypeOK, ModelFails, Asked
<1>5. QED
  BY <1>1, <1>3, <1>4 DEF ModelFails

LEMMA ReturnTyped ==
    ASSUME NEW result, RequestReturns(result)
    PROVE  /\ phase' = "idle" /\ call' \in CallLocals /\ outcome' = result /\ interrupted' = FALSE
           /\ remaining' = << >> /\ remaining' \in Seq(Nat \ {0}) /\ late' = 0
<1>1. << >> \in Seq(Nat \ {0})
  OBVIOUS
<1>2. QED
  BY <1>1, NewCallTyped DEF RequestReturns

\* Halving and finishing remaining leaves remaining of a message at least.
LEMMA ChunksTyped ==
    ASSUME remaining \in Seq(Nat \ {0}), remaining # << >>
    PROVE  /\ Tail(remaining) \in Seq(Nat \ {0})
           /\ Head(remaining) >= 2 => Halved \in Seq(Nat \ {0})
<1>1. Tail(remaining) \in Seq(Nat \ {0}) /\ Head(remaining) \in Nat \ {0}
  OBVIOUS
<1> DEFINE half == Head(remaining) \div 2
<1>2. Head(remaining) >= 2 => half \in Nat \ {0} /\ Head(remaining) - half \in Nat \ {0}
  BY <1>1
<1>3. \A a, b \in Nat \ {0} : << a, b >> \in Seq(Nat \ {0})
  OBVIOUS
<1>4. \A t, u \in Seq(Nat \ {0}) : t \o u \in Seq(Nat \ {0})
  OBVIOUS
<1>5. QED
  BY <1>1, <1>2, <1>3, <1>4 DEF Halved

\* The end of a summary, or of the attempts to get one.
LEMMA SummaryTyped ==
    ASSUME ChainTypeOK, NEW rest \in Seq(Nat \ {0}), SummaryReturns(rest)
    PROVE  /\ phase' = "summarise" /\ remaining' \in Seq(Nat \ {0})
           /\ UNCHANGED <<call, outcome, interrupted, late>>
  BY DEF SummaryReturns

LEMMA TypeNext == ChainTypeOK /\ Placed /\ ChainNext => ChainTypeOK'
<1> SUFFICES ASSUME ChainTypeOK, Placed, ChainNext PROVE ChainTypeOK'
  OBVIOUS
<1> USE ModelsTyped
<1>0. switchDelay' \in SwitchDelays /\ switchDelay' = switchDelay /\ switchDelay \in Nat
  BY ChainAssumption DEF ChainNext, Step, Environment, ChainTypeOK
<1>1. CASE Request
  <2>1. reset' \in [Models -> Nat]
    <3>1. PICK d \in Resets \cup {0} : reset' = Passed(d)
      BY <1>1 DEF Request
    <3>2. d \in Nat
      BY ChainAssumption
    <3>3. QED
      BY <3>1, <3>2, PassedTyped DEF ChainTypeOK
  <2>2. asked' = << >> /\ lastPass' = {}
        /\ UNCHANGED <<selectedIndex, interrupted, remaining, outcome, good, late>>
    BY <1>1 DEF Request
  <2>3. call' \in CallLocals /\ phase' \in {"ask", "compact"} /\ known' \subseteq Models
    <3>1. 1 \in 0 .. MaxRetries + 1 /\ 1 \in 1 .. MaxRetries + 1 /\ selectedIndex \in Models
      BY ChainAssumption DEF ChainTypeOK
    <3>2. CASE BeginPass(1, 1, selectedIndex)
      BY <3>1, <3>2, PassTyped
    <3>3. CASE /\ phase' = "compact" /\ call' = [NewCall EXCEPT !.round = 0]
               /\ UNCHANGED known
      <4>1. NewCall \in CallLocals /\ 0 \in 0 .. MaxRetries + 1
        BY NewCallTyped, ChainAssumption
      <4>2. \A c \in CallLocals, r \in 0 .. MaxRetries + 1 : [c EXCEPT !.round = r] \in CallLocals
        BY DEF CallLocals
      <4>3. [NewCall EXCEPT !.round = 0] \in CallLocals
        BY <4>1, <4>2
      <4>4. QED
        BY <3>3, <4>3 DEF ChainTypeOK
    <3>4. QED
      BY <1>1, <3>2, <3>3 DEF Request
  <2>4. asked' \in Seq(Models)
    BY <2>2
  <2>5. QED
    BY <1>0, <2>1, <2>2, <2>3, <2>4 DEF ChainTypeOK
<1>2. CASE CancelRequest
  BY <1>0, <1>2 DEF CancelRequest, ChainTypeOK
<1>3. CASE Answer
  <2>1. call.index \in Models
    BY CallFields DEF ChainTypeOK
  <2>2. asked' \in Seq(Models)
    BY <1>3, <2>1 DEF Answer, ChainTypeOK
  <2>3. selectedIndex' = call.index /\ good' = call.index
        /\ UNCHANGED <<reset, known, lastPass>>
    BY <1>3 DEF Answer
  <2>4. CASE RequestReturns("answer")
    BY <1>0, <2>1, <2>2, <2>3, <2>4, ReturnTyped DEF ChainTypeOK
  <2>5. CASE Summarising /\ SummaryReturns(Tail(remaining))
    <3>1. Tail(remaining) \in Seq(Nat \ {0})
      BY <2>5, ChunksTyped DEF ChainTypeOK, Summarising
    <3>2. QED
      BY <1>0, <2>1, <2>2, <2>3, <2>5, <3>1, SummaryTyped DEF ChainTypeOK
  <2>6. QED
    BY <1>3, <2>4, <2>5 DEF Answer
<1>4. CASE AskLimited
  <2>0. call.index \in Models /\ call.best \in Limits /\ Asking
    BY <1>4, CallFields DEF AskLimited, ChainTypeOK
  <2>1. reset' \in [Models -> Nat]
    BY <1>4, <2>0, ChainAssumption DEF AskLimited, ChainTypeOK
  <2>2. PICK announced \in BOOLEAN, usage \in BOOLEAN :
           /\ ModelFails("limit", SelectShortestRateLimit(call.best,
                Limit(IF announced THEN reset'[call.index] ELSE 0, usage)))
           /\ known' = IF announced THEN known \cup {call.index} ELSE known
    BY <1>4 DEF AskLimited
  <2>3. SelectShortestRateLimit(call.best,
            Limit(IF announced THEN reset'[call.index] ELSE 0, usage)) \in Limits
    BY <2>0, <2>1 DEF SelectShortestRateLimit, Limit, Limits
  <2>4. "limit" \in Errors /\ known' \subseteq Models
    BY <2>0, <2>2 DEF Errors, ChainTypeOK
  <2>5. QED
    BY <1>0, <2>0, <2>1, <2>2, <2>3, <2>4, FailsTyped DEF ChainTypeOK
<1>5. CASE AskRefused
  <2>1. PICK err \in {"fatal", "tooLong"} : ModelFails(err, call.best)
    BY <1>5 DEF AskRefused
  <2>2. err \in Errors /\ call.best \in Limits /\ Asking /\ UNCHANGED <<reset, known>>
    BY <1>5, CallFields DEF AskRefused, ChainTypeOK, Errors
  <2>3. QED
    BY <1>0, <2>1, <2>2, FailsTyped DEF ChainTypeOK
<1>6. CASE AskUnreachable
  <2>0. /\ "network" \in Errors /\ call.best \in Limits /\ call.index \in Models
        /\ Asking /\ UNCHANGED known
    BY <1>6, CallFields DEF AskUnreachable, ChainTypeOK, Errors
  <2>1. CASE ModelFails("network", call.best) /\ reset' = Passed(switchDelay)
    <3>1. reset' \in [Models -> Nat]
      BY <1>0, <2>1, PassedTyped DEF ChainTypeOK
    <3>2. QED
      BY <1>0, <2>0, <2>1, <3>1, FailsTyped DEF ChainTypeOK
  <2>2. CASE /\ asked' = Append(asked, call.index)
             /\ RequestReturns("cancelled") /\ good' = NoModel
             /\ UNCHANGED <<selectedIndex, reset, lastPass>>
    <3>1. asked' \in Seq(Models)
      BY <2>0, <2>2 DEF ChainTypeOK
    <3>2. QED
      BY <1>0, <2>0, <2>2, <3>1, ReturnTyped DEF ChainTypeOK
  <2>3. QED
    BY <1>6, <2>1, <2>2 DEF AskUnreachable
<1>7. CASE PassFails
  <2>1. UNCHANGED <<selectedIndex, reset, asked, known, good>>
    BY <1>7 DEF PassFails
  <2>2. CASE RequestPassFails
    <3>1. lastPass' \subseteq Models
      <4>1. asked \in Seq(Models) /\ \A k \in DOMAIN asked : asked[k] \in Models
        BY DEF ChainTypeOK
      <4>2. QED
        BY <2>2, <4>1 DEF RequestPassFails
    <3>2. CASE RequestReturns("failed")
      BY <1>0, <2>1, <3>1, <3>2, ReturnTyped DEF ChainTypeOK
    <3>3. CASE phase' = "compact" /\ UNCHANGED <<call, remaining, outcome, interrupted, late>>
      BY <1>0, <2>1, <3>1, <3>3 DEF ChainTypeOK
    <3>4. QED
      BY <2>2, <3>2, <3>3 DEF RequestPassFails
  <2>3. CASE Summarising /\ SummaryPassFails
    <3>1. PICK rest \in Seq(Nat \ {0}) : SummaryReturns(rest)
      <4>1. << >> \in Seq(Nat \ {0})
        OBVIOUS
      <4>2. QED
        BY <2>3, <4>1, ChunksTyped DEF SummaryPassFails, Summarising, ChainTypeOK
    <3>2. lastPass' = lastPass
      BY <2>3 DEF SummaryPassFails
    <3>3. QED
      BY <1>0, <2>1, <3>1, <3>2, SummaryTyped DEF ChainTypeOK
  <2>4. CASE phase' = "wait" /\ UNCHANGED <<call, remaining, outcome, interrupted, lastPass, late>>
    BY <1>0, <2>1, <2>4 DEF ChainTypeOK
  <2>5. QED
    BY <1>7, <2>2, <2>3, <2>4 DEF PassFails
<1>8. CASE Wait
  <2>0. UNCHANGED <<selectedIndex, asked, lastPass, good>>
    BY <1>8 DEF Wait
  <2>1. CASE RequestReturns("cancelled") /\ UNCHANGED <<reset, known>>
    BY <1>0, <2>0, <2>1, ReturnTyped DEF ChainTypeOK
  <2>2. CASE /\ reset' = Passed(CalculateDelay)
             /\ BeginPass(call.round, call.attempt + 1, selectedIndex)
             /\ UNCHANGED <<remaining, outcome, interrupted, late>>
    <3>1. reset' \in [Models -> Nat]
      BY <2>2, DelayTyped, PassedTyped DEF ChainTypeOK
    <3>2. call.round \in 0 .. MaxRetries + 1 /\ call.attempt + 1 \in 1 .. MaxRetries + 1
      BY <1>8, ChainAssumption, CallFields DEF Wait, ChainTypeOK, Placed
    <3>3. call' \in CallLocals /\ phase' = "ask" /\ known' = {}
      BY <2>2, <3>2, PassTyped DEF ChainTypeOK
    <3>4. QED
      BY <1>0, <2>0, <2>2, <3>1, <3>3 DEF ChainTypeOK
  <2>3. QED
    BY <1>8, <2>1, <2>2 DEF Wait
<1>9. CASE CompactFails
  <2>1. /\ RequestReturns("uncompacted")
        /\ UNCHANGED <<selectedIndex, reset, asked, known, lastPass, good>>
    BY <1>9 DEF CompactFails
  <2>2. QED
    BY <1>0, <2>1, ReturnTyped DEF ChainTypeOK
<1>10. CASE CompactMessages
  <2>1. PICK n \in Compactable \cup {0} : remaining' = IF n = 0 THEN << >> ELSE << n >>
    BY <1>10 DEF CompactMessages
  <2>2. n \in Nat
    BY ChainAssumption
  <2>3. remaining' \in Seq(Nat \ {0})
    <3>1. << >> \in Seq(Nat \ {0}) /\ \A x \in Nat \ {0} : << x >> \in Seq(Nat \ {0})
      OBVIOUS
    <3>2. QED
      BY <2>1, <2>2, <3>1
  <2>4. QED
    BY <1>0, <1>10, <2>3 DEF CompactMessages, ChainTypeOK
<1>11. CASE Summarise \/ Compacted
  <2>1. UNCHANGED <<selectedIndex, reset, lastPass, good>>
    BY <1>11 DEF Summarise, Compacted
  <2>2. CASE RequestReturns("tooLong") /\ UNCHANGED <<asked, known>>
    BY <1>0, <2>1, <2>2, ReturnTyped DEF ChainTypeOK
  <2>3. CASE \E r \in 0 .. MaxRetries + 1 :
               /\ BeginPass(r, 1, selectedIndex) /\ asked' = << >>
               /\ UNCHANGED <<remaining, outcome, interrupted, late>>
    <3>1. PICK r \in 0 .. MaxRetries + 1 : BeginPass(r, 1, selectedIndex)
      BY <2>3
    <3>2. 1 \in 1 .. MaxRetries + 1 /\ selectedIndex \in Models
      BY ChainAssumption DEF ChainTypeOK
    <3>3. call' \in CallLocals /\ phase' = "ask" /\ known' = {}
      BY <3>1, <3>2, PassTyped
    <3>4. asked' \in Seq(Models)
      BY <2>3
    <3>5. QED
      BY <1>0, <2>1, <2>3, <3>3, <3>4 DEF ChainTypeOK
  <2>4. call.round \in 0 .. MaxRetries + 1
        /\ (call.round <= MaxRetries => call.round + 1 \in 0 .. MaxRetries + 1)
    BY ChainAssumption, CallFields DEF ChainTypeOK
  <2>5. QED
    BY <1>11, <2>2, <2>3, <2>4 DEF Summarise, Compacted
<1>12. QED
  BY <1>1, <1>2, <1>3, <1>4, <1>5, <1>6, <1>7, <1>8, <1>9, <1>10, <1>11
  DEF ChainNext, Step, Environment

-----------------------------------------------------------------------------
(* The actions by what they do to the loops.                               *)

GivesUp == /\ ContextDone /\ asked' = Append(asked, call.index)
           /\ RequestReturns("cancelled") /\ good' = NoModel
           /\ UNCHANGED <<selectedIndex, reset, lastPass, known>>

LEMMA FailingSteps ==
    ASSUME ChainTypeOK, AskLimited \/ AskRefused \/ AskUnreachable
    PROVE  /\ phase = "ask" /\ call.i < NModels
           /\ \/ \E err \in Errors, best \in Limits :
                    ModelFails(err, best) /\ (err = "tooLong" => ~ContextDone)
              \/ GivesUp
<1>0. call.best \in Limits /\ call.index \in Models /\ call.i \in Nat /\ call.i <= NModels
  BY CallFields DEF ChainTypeOK
<1>1. phase = "ask" /\ call.i < NModels
  BY <1>0, ChainAssumption DEF AskLimited, AskRefused, AskUnreachable, Asking, PassIsOver
<1>2. CASE AskLimited
  <2>1. PICK announced \in BOOLEAN, usage \in BOOLEAN :
           ModelFails("limit", SelectShortestRateLimit(call.best,
                Limit(IF announced THEN reset'[call.index] ELSE 0, usage)))
    BY <1>2 DEF AskLimited
  <2>2. PICK s \in (IF reset[call.index] > 0 THEN {reset[call.index]} ELSE Resets) :
           reset' = [reset EXCEPT ![call.index] = s]
    BY <1>2 DEF AskLimited
  <2>3. reset'[call.index] \in Nat
    BY <1>0, <2>2, ChainAssumption DEF ChainTypeOK
  <2>4. SelectShortestRateLimit(call.best,
            Limit(IF announced THEN reset'[call.index] ELSE 0, usage)) \in Limits
    BY <1>0, <2>3 DEF SelectShortestRateLimit, Limit, Limits
  <2>5. QED
    BY <1>1, <2>1, <2>4 DEF Errors
<1>3. CASE AskRefused
  BY <1>0, <1>1, <1>3 DEF AskRefused, Errors
<1>4. CASE AskUnreachable
  BY <1>0, <1>1, <1>4 DEF AskUnreachable, Errors, GivesUp
<1>5. QED
  BY <1>2, <1>3, <1>4

\* What one failed ask of a pass leaves behind.
LEMMA FailedAsk ==
    ASSUME ChainTypeOK, Placed, phase = "ask", call.i < NModels,
           NEW err \in Errors, NEW best \in Limits, ModelFails(err, best)
    PROVE  /\ phase' = "ask" /\ UNCHANGED <<interrupted, remaining, outcome, lastPass, good>>
           /\ selectedIndex' = (call.index + 1) % NModels
           /\ call'.i = call.i + 1 /\ call'.index = (call.index + 1) % NModels
           /\ call'.round = call.round /\ call'.best = best /\ call'.lastErr = err
           /\ asked' = Append(asked, call.index)
           /\ late' = IF ContextDone THEN late + 1 ELSE late
  BY DEF ModelFails, Asked, SwitchToNextModel, ChainTypeOK, CallLocals

\* What the loops do between two asks: a request ends, the next pass begins in
\* the same call of RetryChatModel.Chat or in a new one, a pass is waited after,
\* leads to a compaction, or leaves remaining to summarise.
Ends(result) == RequestReturns(result) /\ UNCHANGED asked
Rests == /\ phase = "ask" /\ call.i = NModels /\ phase' = "wait" /\ call.attempt <= MaxRetries
         /\ UNCHANGED <<asked, call, remaining, outcome, interrupted, lastPass, late>>
Overflows == /\ phase = "ask" /\ call.i = NModels /\ ~Summarising /\ phase' = "compact"
             /\ call.lastErr = "tooLong"
             /\ UNCHANGED <<asked, call, remaining, outcome, interrupted, late>>
Shortens == /\ \/ phase = "ask" /\ Summarising
               \/ phase = "compact"
            /\ phase' = "summarise"
            /\ UNCHANGED <<asked, call, outcome, interrupted, lastPass, late>>
Resumes == /\ phase = "wait" /\ ~ContextDone
           /\ BeginPass(call.round, call.attempt + 1, selectedIndex)
           /\ call.round \in 0 .. MaxRetries + 1 /\ call.attempt + 1 \in 1 .. MaxRetries + 1
           /\ UNCHANGED <<asked, remaining, outcome, interrupted, lastPass, late>>
Restarts == /\ phase = "summarise" /\ asked' = << >>
            /\ \E r \in 0 .. MaxRetries + 1 :
                  /\ BeginPass(r, 1, selectedIndex)
                  /\ r = IF remaining # << >> THEN call.round ELSE call.round + 1
            /\ UNCHANGED <<remaining, outcome, interrupted, lastPass, late>>

Between == PassFails \/ Wait \/ CompactMessages \/ Summarise \/ CompactFails \/ Compacted

LEMMA BetweenSteps ==
    ASSUME ChainTypeOK, Placed, Between
    PROVE  /\ phase # "idle" /\ ~(phase = "ask" /\ call.i < NModels)
           /\ UNCHANGED <<selectedIndex, good>>
           /\ \/ \E result \in {"cancelled", "uncompacted"} : Ends(result)
              \/ phase = "ask" /\ Ends("failed")
              \/ /\ phase = "summarise" /\ call.round > 0
                 /\ Ends("tooLong") /\ UNCHANGED lastPass
              \/ Rests \/ Overflows \/ Shortens \/ Resumes \/ Restarts
<1>0. /\ call.i \in Nat /\ NModels \in Nat /\ call.round \in 0 .. MaxRetries + 1
      /\ call.attempt \in Nat /\ 1 \in 1 .. MaxRetries + 1
      /\ call.round > MaxRetries => call.round > 0
      /\ call.round <= MaxRetries => call.round + 1 \in 0 .. MaxRetries + 1
  BY ChainAssumption, CallFields DEF ChainTypeOK
<1>1. CASE PassFails
  <2>1. phase = "ask" /\ call.i = NModels /\ UNCHANGED <<selectedIndex, good, asked>>
    BY <1>1 DEF PassFails, PassIsOver
  <2>2. CASE ~Summarising /\ RequestPassFails
    <3>1. PassError = "tooLong" => call.lastErr = "tooLong"
      BY DEF PassError
    <3>2. QED
      BY <1>0, <2>1, <2>2, <3>1 DEF RequestPassFails, Ends, Overflows
  <2>3. CASE Summarising /\ SummaryPassFails
    BY <1>0, <2>1, <2>3 DEF SummaryPassFails, SummaryReturns, Shortens
  <2>4. CASE /\ call.attempt <= MaxRetries /\ phase' = "wait"
             /\ UNCHANGED <<call, remaining, outcome, interrupted, lastPass, late>>
    BY <1>0, <2>1, <2>4 DEF Rests
  <2>5. QED
    BY <1>1, <2>2, <2>3, <2>4 DEF PassFails
<1>2. CASE Wait
  <2>1. CASE ContextDone
    BY <1>2, <2>1 DEF Wait, Ends
  <2>2. CASE ~ContextDone
    <3>1. call.attempt + 1 \in 1 .. MaxRetries + 1
      BY <1>0, <1>2, ChainAssumption DEF Wait, Placed
    <3>2. QED
      BY <1>0, <1>2, <2>2, <3>1 DEF Wait, Resumes
  <2>3. QED
    BY <2>1, <2>2
<1>3. CASE CompactMessages
  BY <1>3 DEF CompactMessages, Shortens
<1>4. CASE Summarise
  BY <1>0, <1>4 DEF Summarise, Restarts, Summarising
<1>5. CASE CompactFails
  BY <1>5 DEF CompactFails, Ends
<1>6. CASE Compacted
  BY <1>0, <1>6 DEF Compacted, Ends, Restarts, Summarising
<1>7. QED
  BY <1>1, <1>2, <1>3, <1>4, <1>5, <1>6 DEF Between

\* The pass that follows is one of nothing asked yet, from the selected model.
LEMMA BegunPass ==
    ASSUME ChainTypeOK, Resumes \/ Restarts
    PROVE  /\ phase' = "ask" /\ call'.i = 0 /\ call'.index = selectedIndex
           /\ call'.lastErr = "none" /\ call'.best.secs = 0 /\ known' = {}
<1>1. 1 \in 1 .. MaxRetries + 1 /\ selectedIndex \in Models
  BY ChainAssumption DEF ChainTypeOK
<1>2. CASE Resumes
  BY <1>1, <1>2, PassTyped DEF Resumes
<1>3. CASE Restarts
  <2>1. PICK r \in 0 .. MaxRetries + 1 : BeginPass(r, 1, selectedIndex)
    BY <1>3 DEF Restarts
  <2>2. QED
    BY <1>1, <2>1, PassTyped
<1>4. QED
  BY <1>2, <1>3

\* An answer ends the request, or is the summary of a chunk.
LEMMA AnswerSteps ==
    ASSUME Answer
    PROVE  /\ phase = "ask" /\ ~ContextDone /\ asked' = Append(asked, call.index)
           /\ selectedIndex' = call.index /\ good' = call.index
           /\ \/ ~Summarising /\ RequestReturns("answer")
              \/ /\ Summarising /\ phase' = "summarise"
                 /\ UNCHANGED <<call, outcome, interrupted, late>>
           /\ lastPass' = lastPass
  BY DEF Answer, Asking, SummaryReturns

\* A request begins a pass at the selected model, or a compaction.
LEMMA RequestStep ==
    ASSUME ChainTypeOK, Request
    PROVE  /\ phase = "idle" /\ asked' = << >> /\ call'.lastErr = "none"
           /\ UNCHANGED <<selectedIndex, interrupted, remaining, outcome, good, late>>
           /\ \/ phase' = "compact" /\ call'.round = 0
              \/ /\ phase' = "ask" /\ call'.i = 0 /\ call'.index = selectedIndex
                 /\ call'.round = 1 /\ call'.best.secs = 0 /\ known' = {}
<1>1. 1 \in 0 .. MaxRetries + 1 /\ 1 \in 1 .. MaxRetries + 1 /\ selectedIndex \in Models
  BY ChainAssumption DEF ChainTypeOK
<1>2. phase = "idle" /\ asked' = << >>
      /\ UNCHANGED <<selectedIndex, interrupted, remaining, outcome, good, late>>
  BY DEF Request
<1>3. CASE BeginPass(1, 1, selectedIndex)
  BY <1>1, <1>2, <1>3, PassTyped
<1>4. CASE phase' = "compact" /\ call' = [NewCall EXCEPT !.round = 0]
  BY <1>2, <1>4 DEF NewCall
<1>5. QED
  BY <1>3, <1>4 DEF Request

-----------------------------------------------------------------------------
(* Each part of the invariant is kept.                                     *)

LEMMA PlacedNext == ChainTypeOK /\ Placed /\ ChainNext => Placed'
<1> SUFFICES ASSUME ChainTypeOK, Placed, ChainNext PROVE Placed'
  OBVIOUS
<1>0. selectedIndex \in Models /\ call.i \in Nat /\ call.attempt \in Nat
  BY CallFields DEF ChainTypeOK
<1>1. CASE Request
  BY <1>1, RequestStep DEF Placed
<1>2. CASE CancelRequest
  BY <1>2 DEF CancelRequest, Placed
<1>3. CASE Answer
  BY <1>3, AnswerSteps DEF RequestReturns, Placed
<1>4. CASE AskLimited \/ AskRefused \/ AskUnreachable
  <2>1. CASE GivesUp
    BY <2>1 DEF GivesUp, RequestReturns, Placed
  <2>2. CASE ~GivesUp
    <3>1. PICK err \in Errors, best \in Limits : ModelFails(err, best)
      BY <1>4, <2>2, FailingSteps
    <3>2. phase = "ask" /\ call.i < NModels
      BY <1>4, FailingSteps
    <3>3. QED
      BY <3>1, <3>2, FailedAsk DEF Placed
  <2>3. QED
    BY <2>1, <2>2
<1>5. CASE Between
  <2>1. CASE \E result : Ends(result)
    BY <2>1 DEF Ends, RequestReturns, Placed
  <2>2. CASE Rests \/ Overflows \/ Shortens
    BY <2>2 DEF Rests, Overflows, Shortens, Summarising, Placed
  <2>3. CASE Resumes \/ Restarts
    BY <1>5, <2>3, BegunPass, BetweenSteps DEF Placed
  <2>4. QED
    BY <1>5, <2>1, <2>2, <2>3, BetweenSteps
<1>6. QED
  BY <1>1, <1>2, <1>3, <1>4, <1>5 DEF ChainNext, Step, Environment, Between

\* One switch further is one model further ahead, and a whole round is none.
LEMMA AheadStep ==
    ASSUME NEW a \in Models, NEW b \in Models
    PROVE  /\ Ahead(a, b) \in 0 .. NModels - 1
           /\ Ahead(a, b) = 0 <=> a = b
           /\ Ahead(a, (b + 1) % NModels) =
                  IF Ahead(a, b) + 1 = NModels THEN 0 ELSE Ahead(a, b) + 1
<1>1. NModels \in Nat \ {0} /\ a \in Nat /\ b \in Nat /\ a < NModels /\ b < NModels
  BY ChainAssumption DEF Models
<1>2. (b + 1) % NModels = IF b + 1 = NModels THEN 0 ELSE b + 1
  BY SwitchStep
<1>3. CASE b + 1 = NModels
  BY <1>1, <1>2, <1>3 DEF Ahead
<1>4. CASE b + 1 # NModels
  BY <1>1, <1>2, <1>4 DEF Ahead
<1>5. QED
  BY <1>3, <1>4

LEMMA GoodSelectedNext == ChainTypeOK /\ Placed /\ GoodSelected /\ ChainNext => GoodSelected'
<1> SUFFICES ASSUME ChainTypeOK, Placed, GoodSelected, ChainNext PROVE GoodSelected'
  OBVIOUS
<1>0. /\ selectedIndex \in Models /\ call.i \in Nat /\ call.i <= NModels
      /\ good \in Models \cup {NoModel} /\ NModels \in Nat /\ NModels > 0
  BY CallFields, ChainAssumption DEF ChainTypeOK
<1>1. CASE Request
  <2>1. phase = "idle" /\ selectedIndex' = selectedIndex /\ good' = good
    BY <1>1, RequestStep
  <2>2. phase' = "compact" \/ call'.i = 0
    BY <1>1, RequestStep
  <2>3. QED
    BY <1>0, <2>1, <2>2, AheadStep DEF GoodSelected
<1>2. CASE CancelRequest
  BY <1>2 DEF CancelRequest, GoodSelected
<1>3. CASE Answer
  BY <1>3, AnswerSteps DEF RequestReturns, GoodSelected
<1>4. CASE AskLimited \/ AskRefused \/ AskUnreachable
  <2>1. CASE GivesUp
    BY <2>1 DEF GivesUp, GoodSelected
  <2>2. CASE ~GivesUp
    <3>1. PICK err \in Errors, best \in Limits : ModelFails(err, best)
      BY <1>4, <2>2, FailingSteps
    <3>2. phase = "ask" /\ call.i < NModels /\ call.index = selectedIndex
      BY <1>4, FailingSteps DEF Placed
    <3>3. phase' = "ask" /\ good' = good /\ selectedIndex' = (selectedIndex + 1) % NModels
          /\ call'.i = call.i + 1
      BY <3>1, <3>2, FailedAsk
    <3>4. selectedIndex' \in Models
      BY <1>0, <3>3, SwitchStep
    <3>5. QED
      BY <1>0, <3>2, <3>3, <3>4, AheadStep DEF GoodSelected
  <2>3. QED
    BY <2>1, <2>2
<1>5. CASE Between
  <2>1. selectedIndex' = selectedIndex /\ good' = good
        /\ (selectedIndex = good \/ good = NoModel)
    BY <1>5, BetweenSteps DEF GoodSelected
  <2>2. phase' # "ask" \/ call'.i = 0
    <3>1. CASE \/ \E result : Ends(result)
               \/ Rests \/ Overflows \/ Shortens
      BY <3>1 DEF Ends, RequestReturns, Rests, Overflows, Shortens
    <3>2. QED
      BY <1>5, <3>1, BegunPass, BetweenSteps
  <2>3. QED
    BY <1>0, <2>1, <2>2, AheadStep DEF GoodSelected
<1>6. QED
  BY <1>1, <1>2, <1>3, <1>4, <1>5 DEF ChainNext, Step, Environment, Between

\* One switch further, with indices below NModels.
LEMMA NextInRound ==
    ASSUME NEW a \in Nat, NEW l \in Nat, NEW d \in Nat,
           a < NModels, l < NModels, d + 1 < NModels, l = a + d \/ l = a + d - NModels
    PROVE  IF l + 1 = NModels THEN 0 = a + (d + 1) - NModels
           ELSE l + 1 = a + (d + 1) \/ l + 1 = a + (d + 1) - NModels
  BY ChainAssumption

\* Asking the next model of the chain keeps the order.
LEMMA AppendInOrder ==
    ASSUME NEW seq \in Seq(Models), NEW x \in Models, ModelsInOrder(seq),
           seq # << >> => x = (seq[Len(seq)] + 1) % NModels
    PROVE  ModelsInOrder(Append(seq, x))
<1> DEFINE new == Append(seq, x)
           n == Len(seq)
<1>0. NModels \in Nat /\ NModels > 0 /\ n \in Nat
  BY ChainAssumption
<1>1. \A k \in 1 .. n : seq[k] \in Nat /\ seq[k] < NModels
  BY <1>0 DEF Models
<1>2. Len(new) = n + 1 /\ new[n + 1] = x /\ \A k \in 1 .. n : new[k] = seq[k]
  OBVIOUS
<1>3. n > 0 => x = IF seq[n] + 1 = NModels THEN 0 ELSE seq[n] + 1
  <2>1. n > 0 => seq # << >> /\ seq[n] \in Models
    BY <1>0
  <2>2. QED
    BY <2>1, SwitchStep
<1>4. \A i, j \in 1 .. n : i < j /\ j - i < NModels =>
          seq[j] = seq[i] + (j - i) \/ seq[j] = seq[i] + (j - i) - NModels
  BY DEF ModelsInOrder
<1> HIDE DEF new, n
<1>5. ASSUME NEW i \in 1 .. n + 1, NEW j \in 1 .. n + 1, i < j, j - i < NModels
      PROVE  new[j] = new[i] + (j - i) \/ new[j] = new[i] + (j - i) - NModels
  <2>1. CASE j <= n
    BY <1>0, <1>2, <1>4, <1>5, <2>1
  <2>2. CASE j = n + 1 /\ i = n
    BY <1>0, <1>1, <1>2, <1>3, <1>5, <2>2
  <2>3. CASE j = n + 1 /\ i < n
    <3>1. i \in 1 .. n /\ n \in 1 .. n /\ n - i < NModels
      BY <1>0, <1>5, <2>3
    <3>2. /\ seq[i] \in Nat /\ seq[i] < NModels /\ seq[n] \in Nat /\ seq[n] < NModels
          /\ new[i] = seq[i] /\ new[j] = x
      BY <1>1, <1>2, <2>3, <3>1
    <3>3. seq[n] = seq[i] + (n - i) \/ seq[n] = seq[i] + (n - i) - NModels
      BY <1>4, <2>3, <3>1
    <3>4. PICK d \in Nat : d = n - i
      BY <1>0, <1>5, <2>3
    <3>5. j - i = d + 1 /\ d + 1 < NModels /\ (seq[n] = seq[i] + d \/ seq[n] = seq[i] + d - NModels)
      BY <1>0, <1>5, <2>3, <3>3, <3>4
    <3>6. IF seq[n] + 1 = NModels THEN 0 = seq[i] + (d + 1) - NModels
          ELSE seq[n] + 1 = seq[i] + (d + 1) \/ seq[n] + 1 = seq[i] + (d + 1) - NModels
      BY <3>2, <3>5, NextInRound
    <3>7. QED
      BY <1>0, <1>3, <2>3, <3>1, <3>2, <3>5, <3>6
  <2>4. QED
    BY <1>0, <1>5, <2>1, <2>2, <2>3
<1>6. QED
  BY <1>2, <1>5 DEF ModelsInOrder, new

LEMMA InTurnNext == ChainTypeOK /\ Placed /\ InTurn /\ ChainNext => InTurn'
<1> SUFFICES ASSUME ChainTypeOK, Placed, InTurn, ChainNext PROVE InTurn'
  OBVIOUS
<1>0. /\ selectedIndex \in Models /\ call.i \in Nat /\ call.i <= NModels
      /\ NModels \in Nat /\ NModels > 0 /\ asked \in Seq(Models) /\ Len(asked) \in Nat
  BY CallFields, ChainAssumption DEF ChainTypeOK
<1>e. ModelsInOrder(<< >>) /\ Len(<< >>) = 0
  BY DEF ModelsInOrder
<1>1. CASE Request
  BY <1>0, <1>e, <1>1, RequestStep DEF InTurn
<1>2. CASE CancelRequest
  BY <1>2 DEF CancelRequest, InTurn
<1>a. ASSUME phase = "ask", asked' = Append(asked, call.index)
      PROVE  /\ ModelsInOrder(asked') /\ Len(asked') = Len(asked) + 1
             /\ asked'[Len(asked')] = call.index
  BY <1>0, <1>a, AppendInOrder DEF InTurn, Placed
<1>3. CASE Answer
  <2>1. phase = "ask" /\ asked' = Append(asked, call.index) /\ phase' \in {"idle", "summarise"}
    BY <1>3, AnswerSteps DEF RequestReturns
  <2>2. QED
    BY <1>a, <2>1 DEF InTurn
<1>4. CASE AskLimited \/ AskRefused \/ AskUnreachable
  <2>0. phase = "ask" /\ call.i < NModels /\ call.index = selectedIndex
    BY <1>4, FailingSteps DEF Placed
  <2>1. CASE GivesUp
    BY <1>a, <2>0, <2>1 DEF GivesUp, RequestReturns, InTurn
  <2>2. CASE ~GivesUp
    <3>1. PICK err \in Errors, best \in Limits : ModelFails(err, best)
      BY <1>4, <2>2, FailingSteps
    <3>2. phase' = "ask" /\ selectedIndex' = (call.index + 1) % NModels
          /\ call'.i = call.i + 1 /\ asked' = Append(asked, call.index)
      BY <2>0, <3>1, FailedAsk
    <3>3. QED
      BY <1>0, <1>a, <2>0, <3>2 DEF InTurn
  <2>3. QED
    BY <2>1, <2>2
<1>5. CASE Between
  <2>1. selectedIndex' = selectedIndex
    BY <1>5, BetweenSteps
  <2>2. CASE \E result : Ends(result)
    BY <2>2 DEF Ends, RequestReturns, InTurn
  <2>3. CASE Rests \/ Overflows \/ Shortens
    BY <2>1, <2>3 DEF Rests, Overflows, Shortens, InTurn
  <2>4. CASE Resumes \/ Restarts
    <3>1. phase' = "ask" /\ call'.i = 0
      BY <2>4, BegunPass
    <3>2. CASE Resumes
      BY <1>0, <2>1, <3>1, <3>2 DEF Resumes, InTurn
    <3>3. CASE Restarts
      BY <1>e, <3>1, <3>3 DEF Restarts, InTurn
    <3>4. QED
      BY <2>4, <3>2, <3>3
  <2>5. QED
    BY <1>5, <2>2, <2>3, <2>4, BetweenSteps
<1>6. QED
  BY <1>1, <1>2, <1>3, <1>4, <1>5 DEF ChainNext, Step, Environment, Between

\* The last NModels models asked are all the models of the chain.
LEMMA LastModels ==
    ASSUME NEW seq \in Seq(Models), ModelsInOrder(seq), Len(seq) >= NModels
    PROVE  {seq[k] : k \in {n \in DOMAIN seq : n + NModels > Len(seq)}} = Models
<1> DEFINE first == Len(seq) - NModels + 1
           last == {n \in DOMAIN seq : n + NModels > Len(seq)}
<1>1. NModels \in Nat /\ NModels > 0 /\ Len(seq) \in Nat
  BY ChainAssumption
<1>2. first \in 1 .. Len(seq) /\ \A k \in 1 .. Len(seq) : seq[k] \in Models
  BY <1>1
<1>3. seq[first] \in Models
  BY <1>2
<1>4. ASSUME NEW m \in Models PROVE \E k \in last : seq[k] = m
  <2> DEFINE k == first + Ahead(seq[first], m)
  <2>1. Ahead(seq[first], m) \in 0 .. NModels - 1
    BY <1>3, AheadStep
  <2>2. k \in 1 .. Len(seq) /\ k + NModels > Len(seq) /\ seq[k] \in Models
    BY <1>1, <1>2, <2>1
  <2>3. CASE Ahead(seq[first], m) = 0
    <3>1. k = first
      BY <1>1, <2>3
    <3>2. seq[first] = m
      BY <1>3, <2>3, AheadStep
    <3>3. QED
      BY <2>2, <3>1, <3>2
  <2>4. CASE Ahead(seq[first], m) > 0
    <3>1. first < k /\ k - first = Ahead(seq[first], m) /\ k - first < NModels
      BY <1>1, <2>1, <2>4
    <3>2. \/ seq[k] = seq[first] + (k - first)
          \/ seq[k] = seq[first] + (k - first) - NModels
      BY <1>2, <2>2, <3>1 DEF ModelsInOrder
    <3>3. \A a, b, x \in Models :
             x = a + Ahead(a, b) \/ x = a + Ahead(a, b) - NModels => x = b
      BY <1>1 DEF Ahead, Models
    <3>4. seq[k] = m
      BY <1>3, <2>2, <3>1, <3>2, <3>3
    <3>5. QED
      BY <1>1, <2>2, <3>4
  <2>5. QED
    BY <2>1, <2>3, <2>4
<1>5. QED
  BY <1>2, <1>4

LEMMA LastPassWholeNext ==
    ChainTypeOK /\ Placed /\ InTurn /\ LastPassWhole /\ ChainNext => LastPassWhole'
<1> SUFFICES ASSUME ChainTypeOK, Placed, InTurn, LastPassWhole, ChainNext
             PROVE  LastPassWhole'
  OBVIOUS
<1>0. call.round \in Nat
  BY CallFields DEF ChainTypeOK
<1>1. CASE Request
  <2>1. remaining' = << >>
    BY <1>1, RequestStep DEF Placed
  <2>2. QED
    BY <1>1, <2>1, RequestStep DEF LastPassWhole
<1>2. CASE CancelRequest
  BY <1>2 DEF CancelRequest, LastPassWhole
<1>3. CASE Answer
  BY <1>3, AnswerSteps DEF RequestReturns, Summarising, LastPassWhole
<1>4. CASE AskLimited \/ AskRefused \/ AskUnreachable
  <2>0. phase = "ask" /\ call.i < NModels
    BY <1>4, FailingSteps
  <2>1. CASE GivesUp
    BY <2>1 DEF GivesUp, RequestReturns, LastPassWhole
  <2>2. CASE ~GivesUp
    <3>1. PICK err \in Errors, best \in Limits : ModelFails(err, best)
      BY <1>4, <2>2, FailingSteps
    <3>2. phase' = "ask" /\ call'.round = call.round /\ UNCHANGED <<remaining, lastPass>>
      BY <2>0, <3>1, FailedAsk
    <3>3. QED
      BY <2>0, <3>2 DEF LastPassWhole
  <2>3. QED
    BY <2>1, <2>2
<1>5. CASE PassFails /\ ~Summarising /\ RequestPassFails
  <2>1. phase = "ask" /\ call.i = NModels
    BY <1>5 DEF PassFails, PassIsOver
  <2>2. Len(asked) >= NModels /\ ModelsInOrder(asked) /\ asked \in Seq(Models)
    BY <2>1 DEF InTurn, ChainTypeOK
  <2>3. lastPass' = Models
    BY <1>5, <2>2, LastModels DEF RequestPassFails
  <2>4. Models' = Models
    BY DEF Models
  <2>5. phase' \in {"idle", "compact"}
    BY <1>5 DEF RequestPassFails, RequestReturns
  <2>6. QED
    BY <2>3, <2>4, <2>5 DEF LastPassWhole
<1>6. CASE Between /\ ~(PassFails /\ ~Summarising /\ RequestPassFails)
  <2>1. CASE \E result \in {"cancelled", "uncompacted"} : Ends(result)
    BY <2>1 DEF Ends, RequestReturns, LastPassWhole
  <2>2. CASE phase = "summarise" /\ call.round > 0 /\ Ends("tooLong") /\ UNCHANGED lastPass
    BY <2>2 DEF Ends, RequestReturns, LastPassWhole
  <2>3. CASE Rests \/ Shortens
    BY <2>3 DEF Rests, Shortens, Summarising, LastPassWhole
  <2>r. CASE Resumes \/ Restarts
    <3>1. phase' = "ask" /\ UNCHANGED <<remaining, lastPass>>
      BY <2>r, BegunPass DEF Resumes, Restarts
    <3>2. call'.round = IF phase = "wait" \/ remaining # << >> THEN call.round ELSE call.round + 1
      <4>1. 1 \in 1 .. MaxRetries + 1 /\ selectedIndex \in Models
        BY ChainAssumption DEF ChainTypeOK
      <4>2. QED
        BY <2>r, <4>1, PassTyped DEF Resumes, Restarts
    <3>3. QED
      BY <1>0, <2>r, <3>1, <3>2 DEF Resumes, Restarts, LastPassWhole
  <2>4. CASE \/ phase = "ask" /\ Ends("failed")
             \/ Overflows
    <3>1. PassFails
      BY <1>6, <2>4 DEF Between, Overflows, Wait, CompactMessages, Summarise, CompactFails, Compacted,
                        Ends
    <3>2. phase' # "summarise" /\ phase' # "wait"
      BY <2>4 DEF Ends, RequestReturns, Overflows
    <3>3. QED
      BY <1>6, <3>1, <3>2 DEF PassFails, SummaryPassFails, SummaryReturns
  <2>5. QED
    BY <1>6, <2>1, <2>2, <2>3, <2>r, <2>4, BetweenSteps
<1>7. QED
  BY <1>1, <1>2, <1>3, <1>4, <1>5, <1>6 DEF ChainNext, Step, Environment, Between

LEMMA LateInPassNext == ChainTypeOK /\ Placed /\ LateInPass /\ ChainNext => LateInPass'
<1> SUFFICES ASSUME ChainTypeOK, Placed, LateInPass, ChainNext PROVE LateInPass'
  OBVIOUS
<1>0. /\ selectedIndex \in Models /\ call.i \in Nat /\ call.i <= NModels
      /\ NModels \in Nat /\ NModels > 0 /\ late \in Nat /\ interrupted \in BOOLEAN
  BY CallFields, ChainAssumption DEF ChainTypeOK
<1>1. CASE Request
  <2>1. late = 0
    BY <1>1, RequestStep DEF LateInPass
  <2>2. QED
    BY <1>0, <1>1, <2>1, RequestStep DEF LateInPass
<1>2. CASE CancelRequest
  BY <1>0, <1>2 DEF CancelRequest, LateInPass
<1>r. ASSUME NEW result, RequestReturns(result) PROVE LateInPass'
  BY <1>0, <1>r DEF RequestReturns, LateInPass
<1>3. CASE Answer
  <2>1. CASE RequestReturns("answer")
    BY <2>1, <1>r
  <2>2. CASE Summarising /\ phase' = "summarise" /\ UNCHANGED <<interrupted, late>>
    BY <1>0, <2>2 DEF Summarising, LateInPass
  <2>3. QED
    BY <1>3, <2>1, <2>2, AnswerSteps
<1>4. CASE AskLimited \/ AskRefused \/ AskUnreachable
  <2>1. CASE GivesUp
    BY <2>1, <1>r DEF GivesUp
  <2>2. CASE ~GivesUp
    <3>1. PICK err \in Errors, best \in Limits :
             ModelFails(err, best) /\ (err = "tooLong" => ~ContextDone)
      BY <1>4, <2>2, FailingSteps
    <3>2. phase = "ask" /\ call.i < NModels
      BY <1>4, FailingSteps
    <3>3. /\ phase' = "ask" /\ UNCHANGED <<interrupted, remaining>> /\ call'.i = call.i + 1
          /\ call'.lastErr = err /\ late' = IF ContextDone THEN late + 1 ELSE late
      BY <3>1, <3>2, FailedAsk
    <3>4. QED
      BY <1>0, <3>1, <3>2, <3>3 DEF ContextDone, Summarising, LateInPass
  <2>3. QED
    BY <2>1, <2>2
<1>5. CASE Between
  <2>1. CASE \E result : Ends(result)
    BY <2>1, <1>r DEF Ends
  <2>2. CASE Rests \/ Overflows \/ Shortens
    BY <1>0, <2>2 DEF Rests, Overflows, Shortens, Summarising, LateInPass
  <2>3. CASE Resumes \/ Restarts
    <3>1. phase' = "ask" /\ call'.lastErr = "none" /\ call'.i = 0
      BY <2>3, BegunPass
    <3>2. late = 0 /\ UNCHANGED <<interrupted, late>>
      BY <2>3 DEF Resumes, Restarts, ContextDone, Summarising, LateInPass
    <3>3. QED
      BY <1>0, <3>1, <3>2 DEF LateInPass
  <2>4. QED
    BY <1>5, <2>1, <2>2, <2>3, BetweenSteps
<1>6. QED
  BY <1>1, <1>2, <1>3, <1>4, <1>5 DEF ChainNext, Step, Environment, Between

\* The models known to be limited stay behind the one that is asked next.
LEMMA KnownStayBehind ==
    ASSUME ChainTypeOK, ShortestKnown, phase = "ask", call.i < NModels,
           NEW K \in SUBSET Models, K \subseteq known \cup {call.index},
           call'.i = call.i + 1, call'.index = (call.index + 1) % NModels,
           call'.i < NModels
    PROVE  \A m \in K : Ahead(m, call'.index) \in 1 .. call'.i
<1>0. call.index \in Models /\ call.i \in Nat /\ NModels \in Nat
  BY CallFields, ChainAssumption DEF ChainTypeOK
<1>1. ASSUME NEW m \in K PROVE Ahead(m, call.index) \in 0 .. call.i
  <2>1. CASE m = call.index
    BY <1>0, <2>1, AheadStep
  <2>2. CASE m \in known
    BY <1>0, <2>2 DEF ShortestKnown
  <2>3. QED
    BY <2>1, <2>2
<1>2. ASSUME NEW m \in K PROVE Ahead(m, call'.index) = Ahead(m, call.index) + 1
  BY <1>0, <1>1, <1>2, AheadStep
<1>3. QED
  BY <1>0, <1>1, <1>2

LEMMA ShortestKnownNext == ChainTypeOK /\ Placed /\ ShortestKnown /\ ChainNext => ShortestKnown'
<1> SUFFICES ASSUME ChainTypeOK, Placed, ShortestKnown, ChainNext PROVE ShortestKnown'
  OBVIOUS
<1>0. /\ selectedIndex \in Models /\ call.index \in Models /\ call.i \in Nat /\ call.i <= NModels
      /\ call.best \in Limits /\ call.best.secs \in Nat
      /\ NModels \in Nat /\ known \subseteq Models /\ reset \in [Models -> Nat]
      /\ switchDelay \in Nat
  BY CallFields, ChainAssumption DEF ChainTypeOK
<1>e. ASSUME phase' \notin {"ask", "wait"} PROVE ShortestKnown'
  BY <1>e DEF ShortestKnown
<1>b. ASSUME phase' = "ask", known' = {}, call'.best.secs = 0 PROVE ShortestKnown'
  BY <1>b DEF ShortestKnown
<1>1. CASE Request
  BY <1>1, <1>b, <1>e, RequestStep
<1>2. CASE CancelRequest
  BY <1>2 DEF CancelRequest, ShortestKnown
<1>3. CASE Answer
  BY <1>3, <1>e, AnswerSteps DEF RequestReturns
<1>f. ASSUME phase = "ask", call.i < NModels, NEW err \in Errors, NEW best \in Limits, ModelFails(err, best)
      PROVE  /\ phase' = "ask" /\ call'.i = call.i + 1 /\ call'.index = (call.index + 1) % NModels
             /\ call'.best = best
  BY <1>f, FailedAsk
<1>4. CASE AskLimited
  <2>1. phase = "ask" /\ call.i < NModels
    BY <1>4, FailingSteps
  <2>2. PICK s \in (IF reset[call.index] > 0 THEN {reset[call.index]} ELSE Resets) :
           reset' = [reset EXCEPT ![call.index] = s]
    BY <1>4 DEF AskLimited
  <2>3. s \in Nat /\ s > 0 /\ reset'[call.index] = s /\ reset' \in [Models -> Nat]
    <3>1. reset[call.index] \in Nat
      BY <1>0
    <3>2. s \in Nat /\ s > 0
      BY <2>2, <3>1, ChainAssumption
    <3>3. QED
      BY <1>0, <2>2, <3>2
  <2>4. PICK announced \in BOOLEAN, usage \in BOOLEAN :
           /\ ModelFails("limit", SelectShortestRateLimit(call.best,
                Limit(IF announced THEN reset'[call.index] ELSE 0, usage)))
           /\ known' = IF announced THEN known \cup {call.index} ELSE known
    BY <1>4 DEF AskLimited
  <2> DEFINE candidate == Limit(IF announced THEN s ELSE 0, usage)
             best == SelectShortestRateLimit(call.best, candidate)
  <2>5. candidate \in Limits /\ best \in Limits /\ "limit" \in Errors
    BY <1>0, <2>3 DEF Limit, Limits, SelectShortestRateLimit, Errors
  <2>6. /\ phase' = "ask" /\ call'.i = call.i + 1 /\ call'.index = (call.index + 1) % NModels
        /\ call'.best = best
    BY <1>f, <2>1, <2>3, <2>4, <2>5
  <2>7. known' \subseteq known \cup {call.index} /\ known' \in SUBSET Models
    BY <1>0, <2>4
  <2>8. call'.i < NModels => \A m \in known' : Ahead(m, call'.index) \in 1 .. call'.i
    BY <2>1, <2>6, <2>7, KnownStayBehind
  <2>9. \A m \in known : m # call.index
    BY <1>0, <2>1, AheadStep DEF ShortestKnown
  <2>10. \A m \in known : reset'[m] = reset[m]
    BY <1>0, <2>2, <2>9
  <2>11. known' # {} => best.set /\ best.secs > 0 /\ \E m \in known' : reset'[m] <= best.secs
    <3>1. CASE best = candidate
      <4>1. CASE announced
        <5>1. best.secs = s /\ best.set
          BY <3>1, <4>1 DEF Limit
        <5>2. call.index \in known'
          BY <2>4, <4>1
        <5>3. reset'[call.index] <= best.secs
          BY <2>3, <5>1
        <5>4. QED
          BY <2>3, <5>1, <5>2, <5>3
      <4>2. CASE ~announced
        <5>1. known' = known /\ candidate.secs = 0
          BY <2>4, <4>2 DEF Limit
        <5>2. known # {} => call.best.set /\ call.best.secs > 0
          BY <2>1 DEF ShortestKnown
        <5>3. best # call.best => ~call.best.set \/ candidate.secs > 0
          BY <3>1 DEF SelectShortestRateLimit, Shorter
        <5>4. known # {} => best = call.best
          BY <5>1, <5>2, <5>3
        <5>5. known # {} => \E m \in known : reset[m] <= call.best.secs
          BY <2>1 DEF ShortestKnown
        <5>6. QED
          BY <2>10, <5>1, <5>2, <5>4, <5>5
      <4>3. QED
        BY <4>1, <4>2
    <3>2. CASE best # candidate
      <4>1. best = call.best /\ call.best.set /\ ~Shorter(candidate, call.best)
        BY <3>2 DEF SelectShortestRateLimit
      <4>2. CASE known # {}
        <5>1. /\ call.best.set /\ call.best.secs > 0
              /\ \E m \in known : reset[m] <= call.best.secs
          BY <2>1, <4>2 DEF ShortestKnown
        <5>2. QED
          BY <2>4, <2>10, <4>1, <5>1
      <4>3. CASE known = {} /\ announced
        <5>1. candidate.secs = s /\ known' = {call.index}
          BY <2>4, <4>3 DEF Limit
        <5>2. ~(call.best.secs > 0)
          BY <2>1, <4>3 DEF ShortestKnown
        <5>3. Shorter(candidate, call.best)
          BY <1>0, <2>3, <5>1, <5>2 DEF Shorter
        <5>4. QED
          BY <4>1, <5>3
      <4>4. CASE known = {} /\ ~announced
        BY <2>4, <4>4
      <4>5. QED
        BY <4>2, <4>3, <4>4
    <3>3. QED
      BY <3>1, <3>2
  <2>12. best.secs > 0 => known' # {}
    <3>1. CASE announced
      BY <2>4, <3>1
    <3>2. CASE ~announced
      <4>1. candidate.secs = 0 /\ known' = known
        BY <2>4, <3>2 DEF Limit
      <4>2. best.secs > 0 => best = call.best
        BY <4>1 DEF SelectShortestRateLimit
      <4>3. QED
        BY <2>1, <4>1, <4>2 DEF ShortestKnown
    <3>3. QED
      BY <3>1, <3>2
  <2>13. QED
    BY <2>6, <2>8, <2>11, <2>12 DEF ShortestKnown
<1>g. ASSUME phase = "ask", call.i < NModels, NEW err \in Errors, ModelFails(err, call.best),
             known' = known, \A m \in Models : reset'[m] <= reset[m], reset' \in [Models -> Nat]
      PROVE  ShortestKnown'
  <2>1. /\ phase' = "ask" /\ call'.i = call.i + 1 /\ call'.index = (call.index + 1) % NModels
        /\ call'.best = call.best
    BY <1>0, <1>f, <1>g
  <2>2. call'.i < NModels => \A m \in known' : Ahead(m, call'.index) \in 1 .. call'.i
    BY <1>0, <1>g, <2>1, KnownStayBehind
  <2>3. known # {} => /\ call.best.set /\ call.best.secs > 0
                      /\ \E m \in known : reset[m] <= call.best.secs
    BY <1>g DEF ShortestKnown
  <2>4. \A m \in known : reset[m] <= call.best.secs => reset'[m] <= call.best.secs
    BY <1>0, <1>g
  <2>5. call.best.secs > 0 => known # {}
    BY <1>g DEF ShortestKnown
  <2>6. QED
    BY <1>g, <2>1, <2>2, <2>3, <2>4, <2>5 DEF ShortestKnown
<1>5. CASE AskRefused
  <2>1. phase = "ask" /\ call.i < NModels
    BY <1>5, FailingSteps
  <2>2. PICK err \in {"fatal", "tooLong"} : ModelFails(err, call.best)
    BY <1>5 DEF AskRefused
  <2>3. err \in Errors /\ known' = known /\ reset' = reset
    BY <1>5 DEF AskRefused, Errors
  <2>4. QED
    BY <1>0, <1>g, <2>1, <2>2, <2>3
<1>6. CASE AskUnreachable
  <2>1. phase = "ask" /\ call.i < NModels /\ known' = known
    BY <1>6, FailingSteps DEF AskUnreachable
  <2>2. CASE ModelFails("network", call.best) /\ reset' = Passed(switchDelay)
    BY <1>0, <1>g, <2>1, <2>2, PassedTyped DEF Errors
  <2>3. CASE RequestReturns("cancelled")
    BY <1>e, <2>3 DEF RequestReturns
  <2>4. QED
    BY <1>6, <2>2, <2>3 DEF AskUnreachable
<1>7. CASE Between
  <2>1. CASE \/ \E result : Ends(result)
             \/ Overflows \/ Shortens
    BY <1>e, <2>1 DEF Ends, RequestReturns, Overflows, Shortens
  <2>2. CASE Rests
    <3>1. UNCHANGED <<known, reset>>
      BY <1>7, <2>2 DEF Rests, Between, PassFails, Wait, CompactMessages, Summarise, CompactFails, Compacted
    <3>2. QED
      BY <2>2, <3>1 DEF Rests, ShortestKnown
  <2>3. CASE Resumes \/ Restarts
    BY <1>b, <2>3, BegunPass
  <2>4. QED
    BY <1>7, <2>1, <2>2, <2>3, BetweenSteps
<1>8. QED
  BY <1>1, <1>2, <1>3, <1>4, <1>5, <1>6, <1>7 DEF ChainNext, Step, Environment, Between

-----------------------------------------------------------------------------
(* The theorems.                                                           *)

LEMMA InvInit == ChainInit => ChainInv
<1> SUFFICES ASSUME ChainInit PROVE ChainInv
  OBVIOUS
<1>1. ChainTypeOK
  BY TypeInit
<1>2. ModelsInOrder(<< >>)
  BY DEF ModelsInOrder
<1>3. QED
  BY <1>1, <1>2, ChainAssumption, ModelsTyped
  DEF ChainInit, ChainInv, Placed, GoodSelected, InTurn, LastPassWhole, LateInPass, ShortestKnown, NewCall

LEMMA InvNext == ChainInv /\ [ChainNext]_chainVars => ChainInv'
<1>1. CASE ChainNext
  BY <1>1, TypeNext, PlacedNext, GoodSelectedNext, InTurnNext, LastPassWholeNext, LateInPassNext,
     ShortestKnownNext
  DEF ChainInv
<1>2. CASE UNCHANGED chainVars
  BY <1>2 DEF chainVars, ChainInv, ChainTypeOK, Placed, GoodSelected, InTurn, ModelsInOrder,
     LastPassWhole, LateInPass, ShortestKnown
<1>3. QED
  BY <1>1, <1>2

\* The index of the chain, the loops around it and the limits they remember stay
\* consistent with each other (fallback.go, retry.go, runNonStreamingChat).
THEOREM ChainConsistent == ChainSpec => []ChainInv
  BY InvInit, InvNext, PTL DEF ChainSpec

\* FallbackChatModel goes round: no model is asked again before all the others
\* were, and a request begins with the model that answered last.
THEOREM Rotates == ChainSpec => []RoundRobin
<1>1. ChainInv => RoundRobin
  <2> SUFFICES ASSUME ChainInv PROVE RoundRobin
    OBVIOUS
  <2>0. NModels \in Nat /\ asked \in Seq(Models) /\ call.i \in Nat
    BY ChainAssumption, CallFields DEF ChainInv, ChainTypeOK
  <2>1. ASSUME NEW i \in DOMAIN asked, NEW j \in DOMAIN asked, i < j, j - i < NModels
        PROVE  asked[i] # asked[j]
    <3>1. i \in 1 .. Len(asked) /\ j \in 1 .. Len(asked) /\ asked[i] \in Models
      <4>1. i \in 1 .. Len(asked) /\ j \in 1 .. Len(asked)
        BY <2>0, <2>1
      <4>2. QED
        BY <2>0, <4>1
    <3>2. asked[j] = asked[i] + (j - i) \/ asked[j] = asked[i] + (j - i) - NModels
      BY <2>1, <3>1 DEF ChainInv, InTurn, ModelsInOrder
    <3>3. asked[i] \in Nat /\ i \in Nat /\ j \in Nat
      BY <2>0, <3>1 DEF Models
    <3>4. QED
      BY <2>0, <2>1, <3>2, <3>3
  <2>2. ASSUME phase = "ask", asked = << >>, good # NoModel PROVE call.index = good
    <3>1. call.i = 0 /\ call.i < NModels /\ call.index = selectedIndex
      BY <2>0, <2>2, ChainAssumption DEF ChainInv, InTurn, Placed
    <3>2. Ahead(good, selectedIndex) = 0 /\ good \in Models /\ selectedIndex \in Models
      BY <2>2, <3>1 DEF ChainInv, GoodSelected, ChainTypeOK
    <3>3. QED
      BY <3>1, <3>2, AheadStep
  <2>3. QED
    BY <2>1, <2>2 DEF RoundRobin
<1>2. QED
  BY <1>1, ChainConsistent, PTL

\* The chain gives a request up only when every model failed in its last pass,
\* whatever its compactions asked in between.
THEOREM AllAsked == ChainSpec => []AllAskedBeforeGivingUp
<1>1. ChainInv => AllAskedBeforeGivingUp
  BY DEF ChainInv, LastPassWhole, AllAskedBeforeGivingUp
<1>2. QED
  BY <1>1, ChainConsistent, PTL

\* With a context that is done a request asks each model at most once; the
\* summaries a compaction asks for have another context and are not counted.
THEOREM CancelEnds == ChainSpec => []CancelEndsSoon
<1>1. ChainInv => CancelEndsSoon
  BY DEF ChainInv, LateInPass, CancelEndsSoon
<1>2. QED
  BY <1>1, ChainConsistent, PTL

\* calculateDelay waits until some model that announced its reset is free again.
THEOREM WaitsLongEnough == ChainSpec => WaitReachesAReset
<1>1. ChainInv /\ [ChainNext]_chainVars =>
        [phase = "wait" /\ phase' = "ask" /\ known # {} => \E m \in known : reset'[m] = 0]_chainVars
  <2> SUFFICES ASSUME ChainInv, ChainNext, phase = "wait", phase' = "ask", known # {}
               PROVE  \E m \in known : reset'[m] = 0
    BY DEF chainVars
  <2>1. Wait
    BY DEF ChainNext, Step, Environment, Request, CancelRequest, Answer, AskLimited, AskRefused,
           AskUnreachable, Asking, PassFails, CompactFails, CompactMessages, Summarise, Compacted
  <2>2. reset' = Passed(CalculateDelay)
    BY <2>1 DEF Wait, RequestReturns
  <2>3. PICK m \in known : reset[m] <= call.best.secs
    BY DEF ChainInv, ShortestKnown
  <2>4. /\ m \in Models /\ reset \in [Models -> Nat] /\ CalculateDelay \in Nat
        /\ call.best.secs \in Nat /\ call.best.secs > 0 /\ reset[m] \in Nat
    BY DelayTyped, CallFields DEF ChainInv, ChainTypeOK, ShortestKnown
  <2>5. call.best.secs <= CalculateDelay
    BY <2>4, ChainAssumption DEF CalculateDelay
  <2>6. QED
    BY <2>2, <2>3, <2>4, <2>5, PassedTyped
<1>2. QED
  BY <1>1, ChainConsistent, PTL DEF ChainSpec, WaitReachesAReset

-----------------------------------------------------------------------------
(***************************************************************************)
(* One `csw run', for any command lines, slash commands, tasks and sources *)
(* of configuration: what was asked for on the command line is followed    *)
(* through the flags, the frontmatter, the task and the second load of the *)
(* configuration, field by field.                                          *)
(***************************************************************************)

(* Merging parameters.                                                     *)

Switches(q) == q.merge \in BOOLEAN /\ q.noCommit \in BOOLEAN
IsConfig(q) == DOMAIN q = DOMAIN NoParameters /\ Switches(q)
IsRun(q) == DOMAIN q = DOMAIN NoRun /\ Switches(q)

ConfigNames == {"provider", "role", "model", "worktree", "merge", "noCommit", "enabled", "image",
                "threads", "allow"}
RunNames == ConfigNames \cup {"chosen", "chosenRole", "chosenModel", "noMerge", "on", "off"}

LEMMA NamesOfParameters == DOMAIN NoParameters = ConfigNames /\ DOMAIN NoRun = RunNames
  BY DEF NoParameters, NoRun, ConfigNames, RunNames

\* One configuration over another, or over the parameters of a run: a string is
\* the later one's if it gives one, a switch is on if either has it on, and what
\* only a run has stays.
LEMMA MergeKeeps ==
  ASSUME NEW a, NEW b, IsConfig(a) \/ IsRun(a), Switches(b)
  PROVE  /\ DOMAIN MergeFrom(a, b) = DOMAIN a
         /\ MergeFrom(a, b).merge = (a.merge \/ b.merge)
         /\ MergeFrom(a, b).noCommit = (a.noCommit \/ b.noCommit)
         /\ MergeFrom(a, b).worktree = Or(b.worktree, a.worktree)
         /\ IsRun(a) => /\ MergeFrom(a, b).chosen = a.chosen
                        /\ MergeFrom(a, b).chosenRole = a.chosenRole
         /\ Switches(MergeFrom(a, b))
<1> DEFINE c == MergeContainer(a, b)
<1>1. ConfigNames \subseteq DOMAIN a /\ (IsRun(a) => DOMAIN a = RunNames)
  BY NamesOfParameters DEF IsConfig, IsRun, RunNames
<1>2. /\ DOMAIN c = DOMAIN a
      /\ \A f \in DOMAIN a \ {"enabled", "image"} : c[f] = a[f]
  BY DEF MergeContainer
<1>3. /\ DOMAIN MergeFrom(a, b) = DOMAIN c
      /\ \A f \in DOMAIN c \ {"provider", "model", "worktree", "merge", "noCommit", "threads", "allow"} :
             MergeFrom(a, b)[f] = c[f]
      /\ "merge" \in DOMAIN c => MergeFrom(a, b).merge = (c.merge \/ b.merge)
      /\ "noCommit" \in DOMAIN c => MergeFrom(a, b).noCommit = (c.noCommit \/ b.noCommit)
      /\ "worktree" \in DOMAIN c => MergeFrom(a, b).worktree = Or(b.worktree, c.worktree)
  BY DEF MergeFrom
<1>4. {"merge", "noCommit", "worktree"} \subseteq DOMAIN a
  BY <1>1 DEF ConfigNames
<1>5. IsRun(a) => {"chosen", "chosenRole"} \subseteq DOMAIN a
  BY <1>1 DEF RunNames
<1> HIDE DEF c
<1>6. /\ MergeFrom(a, b).merge = (a.merge \/ b.merge)
      /\ MergeFrom(a, b).noCommit = (a.noCommit \/ b.noCommit)
      /\ MergeFrom(a, b).worktree = Or(b.worktree, a.worktree)
  BY <1>2, <1>3, <1>4
<1>7. IsRun(a) => /\ MergeFrom(a, b).chosen = a.chosen
                  /\ MergeFrom(a, b).chosenRole = a.chosenRole
  BY <1>2, <1>3, <1>5
<1> QED BY <1>2, <1>3, <1>6, <1>7 DEF Switches

LEMMA MergeKeepsNoMerge ==
  ASSUME NEW a, NEW b, IsRun(a)
  PROVE  MergeFrom(a, b).noMerge = a.noMerge
<1> DEFINE c == MergeContainer(a, b)
<1>1. "noMerge" \in DOMAIN a
  BY NamesOfParameters DEF IsRun, RunNames
<1>2. "noMerge" \in DOMAIN c /\ c.noMerge = a.noMerge
  BY <1>1 DEF MergeContainer
<1>3. MergeFrom(a, b).noMerge = c.noMerge
  BY <1>2 DEF MergeFrom
<1> QED BY <1>2, <1>3

\* The first load's parameters as those of a run.
LEMMA FreshRun ==
  ASSUME NEW c, IsConfig(c.parameters)
  PROVE  /\ IsRun(Fresh(c))
         /\ \A f \in {"merge", "noCommit", "worktree"} : Fresh(c)[f] = c.parameters[f]
<1>1. /\ DOMAIN Fresh(c) = DOMAIN NoRun
      /\ \A f \in ConfigNames : Fresh(c)[f] = c.parameters[f]
  BY NamesOfParameters DEF Fresh, RunNames
<1>2. {"merge", "noCommit", "worktree"} \subseteq ConfigNames
  BY DEF ConfigNames
<1> QED BY <1>1, <1>2 DEF IsRun, IsConfig, Switches

-----------------------------------------------------------------------------
(* What each part of the start does to the fields that are followed.       *)

FollowedNames == {"chosen", "chosenRole", "noCommit", "noMerge", "worktree", "merge"}

LEMMA FollowedAreNames == FollowedNames \subseteq DOMAIN NoRun
  BY NamesOfParameters DEF FollowedNames, RunNames, ConfigNames

LEMMA FlagsOver ==
  ASSUME NEW q, IsRun(q), NEW f \in CommandLines
  PROVE  /\ IsRun(ApplyFlags(q, f))
         /\ ApplyFlags(q, f).chosen = Or(f.role, "developer")
         /\ ApplyFlags(q, f).chosenRole = (f.role # "")
         /\ f.worktree # "" => ApplyFlags(q, f).worktree = f.worktree
         /\ ApplyFlags(q, f).merge => f.merge = "on" \/ q.merge
<1>1. /\ {"chosen", "chosenRole", "noCommit", "noMerge", "worktree", "merge"} \subseteq DOMAIN q
      /\ f.noCommit \in BOOLEAN
  BY FollowedAreNames, RunAssumption DEF IsRun, FollowedNames
<1>2. /\ DOMAIN ApplyFlags(q, f) = DOMAIN q
      /\ ApplyFlags(q, f).chosen = Or(f.role, "developer")
      /\ ApplyFlags(q, f).chosenRole = (f.role # "")
      /\ ApplyFlags(q, f).worktree = Or(f.worktree, q.worktree)
      /\ ApplyFlags(q, f).merge = (IF f.merge = "" THEN q.merge ELSE f.merge = "on")
      /\ ApplyFlags(q, f).noCommit = (q.noCommit \/ f.noCommit)
  BY <1>1 DEF ApplyFlags
<1>3. Switches(ApplyFlags(q, f))
  BY <1>1, <1>2 DEF IsRun, Switches
<1> QED BY <1>2, <1>3 DEF IsRun, Or, Switches

LEMMA FlagsForbid ==
  ASSUME NEW q, IsRun(q), NEW f
  PROVE  /\ ApplyFlags(q, f).noMerge = f.noMerge
         /\ ApplyFlags(q, f).noCommit = (q.noCommit \/ f.noCommit)
<1>1. {"noCommit", "noMerge"} \subseteq DOMAIN q
  BY FollowedAreNames DEF IsRun, FollowedNames
<1> QED BY <1>1 DEF ApplyFlags

\* The frontmatter and the template of a slash command, or of none.
LEMMA CommandOver ==
  ASSUME NEW q, IsRun(q), NEW c \in Commands
  PROVE  LET r == Populated(q, c) IN
         /\ IsRun(r)
         /\ r.chosen = (IF q.chosenRole \/ c.role = "" THEN q.chosen ELSE c.role)
         /\ r.chosenRole = q.chosenRole
         /\ r.noCommit = (q.noCommit \/ c.params.noCommit)
         /\ r.merge => ~q.noMerge /\ ~r.noCommit /\ (q.merge \/ c.params.merge)
         /\ ~r.noCommit /\ c.params.worktree = "" => r.worktree = q.worktree
<1>n. {"chosen", "chosenRole", "noCommit", "noMerge", "worktree", "merge"} \subseteq DOMAIN NoRun
  BY FollowedAreNames DEF FollowedNames
<1>b. Switches(c.params)
  BY RunAssumption DEF Parameters, Switches
<1> DEFINE a1 == [q EXCEPT !.enabled = @ \/ q.on]
           a2 == WithParameters(a1, c)
           a3 == WithoutMerge(a2)
           a4 == WithoutCommit(a3)
           a5 == WithModel(a4, c)
           a6 == WithRole(a5, c.role)
           a7 == [a6 EXCEPT !.enabled = Requested(a6, c)]
<1>1. /\ IsRun(a1)
      /\ \A f \in FollowedNames : a1[f] = q[f]
  BY <1>n DEF FollowedNames, IsRun, Switches
<1> HIDE DEF a1
<1>2. /\ IsRun(a2)
      /\ a2.chosen = a1.chosen /\ a2.chosenRole = a1.chosenRole
      /\ a2.noMerge = a1.noMerge /\ a2.noCommit = (a1.noCommit \/ c.params.noCommit)
      /\ a2.merge = (a1.merge \/ c.params.merge)
      /\ a2.worktree = Or(c.params.worktree, a1.worktree)
  <2> DEFINE m == MergeFrom(a1, c.params)
  <2>1. /\ DOMAIN m = DOMAIN NoRun /\ Switches(m)
        /\ m.chosen = a1.chosen /\ m.chosenRole = a1.chosenRole
        /\ m.noMerge = a1.noMerge /\ m.noCommit = (a1.noCommit \/ c.params.noCommit)
        /\ m.merge = (a1.merge \/ c.params.merge)
        /\ m.worktree = Or(c.params.worktree, a1.worktree)
    BY <1>1, <1>b, MergeKeeps, MergeKeepsNoMerge DEF IsRun, FollowedNames
  <2>2. a2 = [m EXCEPT !.off = @ /\ ~c.params.enabled]
    BY DEF WithParameters
  <2> HIDE DEF m, a2
  <2> QED BY <1>n, <2>1, <2>2 DEF IsRun, Switches
<1> HIDE DEF a2
<1>3. /\ IsRun(a3)
      /\ a3.chosen = a2.chosen /\ a3.chosenRole = a2.chosenRole
      /\ a3.noCommit = a2.noCommit
      /\ a3.merge => a2.merge /\ ~a2.noMerge
      /\ a3.worktree = a2.worktree
  BY <1>n, <1>2 DEF WithoutMerge, IsRun, Switches
<1> HIDE DEF a3
<1>4. /\ IsRun(a4)
      /\ a4.chosen = a3.chosen /\ a4.chosenRole = a3.chosenRole
      /\ a4.noCommit = a3.noCommit
      /\ a4.merge => a3.merge /\ ~a3.noCommit
      /\ ~a4.noCommit => a4.worktree = a3.worktree
  BY <1>n, <1>3 DEF WithoutCommit, IsRun, Switches
<1> HIDE DEF a4
<1>5. /\ IsRun(a5)
      /\ \A f \in FollowedNames : a5[f] = a4[f]
  BY <1>n, <1>4 DEF WithModel, IsRun, Switches, FollowedNames
<1> HIDE DEF a5
<1>6. /\ IsRun(a6)
      /\ a6.chosen = (IF a5.chosenRole \/ c.role = "" THEN a5.chosen ELSE c.role)
      /\ \A f \in FollowedNames \ {"chosen"} : a6[f] = a5[f]
  BY <1>n, <1>5 DEF WithRole, IsRun, Switches, FollowedNames
<1> HIDE DEF a6
<1>7. /\ IsRun(a7)
      /\ \A f \in FollowedNames : a7[f] = a6[f]
  BY <1>n, <1>6 DEF IsRun, Switches, FollowedNames
<1>8. Populated(q, c) = a7
  BY DEF Populated, a1, a2, a3, a4, a5, a6
<1> HIDE DEF a7
<1>9. /\ a7.chosen = (IF q.chosenRole \/ c.role = "" THEN q.chosen ELSE c.role)
      /\ a7.chosenRole = q.chosenRole
  BY <1>1, <1>2, <1>3, <1>4, <1>5, <1>6, <1>7 DEF FollowedNames
<1>10. /\ a7.noCommit = (q.noCommit \/ c.params.noCommit)
       /\ a7.merge => ~q.noMerge /\ ~a7.noCommit /\ (q.merge \/ c.params.merge)
  BY <1>1, <1>2, <1>3, <1>4, <1>5, <1>6, <1>7 DEF FollowedNames
<1>11. ~a7.noCommit /\ c.params.worktree = "" => a7.worktree = q.worktree
  BY <1>1, <1>2, <1>3, <1>4, <1>5, <1>6, <1>7 DEF FollowedNames, Or
<1> QED BY <1>7, <1>8, <1>9, <1>10, <1>11

\* The task's role and branch.
LEMMA TaskOver ==
  ASSUME NEW q, IsRun(q), NEW c, NEW t
  PROVE  LET r == WithTask(WithRole(q, t.role), c, t) IN
         /\ IsRun(r)
         /\ r.chosen = (IF q.chosenRole \/ t.role = "" THEN q.chosen ELSE t.role)
         /\ r.noCommit = q.noCommit
         /\ r.merge => q.merge
         /\ ~r.noCommit /\ ~Branchless(c, t) /\ q.worktree # "" => r.worktree = q.worktree
<1>n. {"chosen", "chosenRole", "noCommit", "noMerge", "worktree", "merge"} \subseteq DOMAIN NoRun
  BY FollowedAreNames DEF FollowedNames
<1> DEFINE w == WithRole(q, t.role)
<1>1. /\ IsRun(w)
      /\ w.chosen = (IF q.chosenRole \/ t.role = "" THEN q.chosen ELSE t.role)
      /\ w.noCommit = q.noCommit /\ w.merge = q.merge /\ w.worktree = q.worktree
  BY <1>n DEF WithRole, IsRun, Switches
<1> HIDE DEF w
<1>2. LET r == WithTask(w, c, t) IN
      /\ IsRun(r)
      /\ r.chosen = w.chosen /\ r.noCommit = w.noCommit
      /\ r.merge => w.merge
      /\ ~r.noCommit /\ ~Branchless(c, t) => r.worktree = Or(w.worktree, t.branch)
  BY <1>n, <1>1 DEF WithTask, IsRun, Switches
<1> QED BY <1>1, <1>2 DEF Or, w

\* The second load of the configuration, under the parameters there are.
LEMMA ReloadUnder ==
  ASSUME NEW c, IsConfig(c.parameters), NEW q, IsRun(q)
  PROVE  LET r == Reloaded(c, WithoutCommit(q)) IN
         /\ IsRun(r)
         /\ r.chosen = q.chosen
         /\ r.merge => c.parameters.merge \/ q.merge
         /\ r.noCommit = (q.noCommit \/ c.parameters.noCommit)
         /\ q.noCommit => r.worktree = c.parameters.worktree
         /\ ~r.noCommit /\ q.worktree # "" => r.worktree = q.worktree
<1>n. {"chosen", "chosenRole", "noCommit", "noMerge", "worktree", "merge"} \subseteq DOMAIN NoRun
  BY FollowedAreNames DEF FollowedNames
<1> DEFINE w == WithoutCommit(q)
           m == MergeFrom(Fresh(c), w)
<1>1. /\ IsRun(w)
      /\ w.chosen = q.chosen /\ w.noCommit = q.noCommit
      /\ w.merge => q.merge
      /\ w.worktree = (IF q.noCommit THEN "" ELSE q.worktree)
  BY <1>n DEF WithoutCommit, IsRun, Switches
<1> HIDE DEF w
<1>2. IsRun(Fresh(c))
  BY FreshRun
<1>3. /\ DOMAIN m = DOMAIN NoRun /\ Switches(m)
      /\ m.merge = (Fresh(c).merge \/ w.merge)
      /\ m.noCommit = (Fresh(c).noCommit \/ w.noCommit)
      /\ m.worktree = Or(w.worktree, Fresh(c).worktree)
  <2>1. Switches(w) /\ DOMAIN Fresh(c) = DOMAIN NoRun
    BY <1>1, <1>2 DEF IsRun
  <2> QED BY <1>2, <2>1, MergeKeeps
<1>7. /\ Fresh(c).merge = c.parameters.merge /\ Fresh(c).noCommit = c.parameters.noCommit
      /\ Fresh(c).worktree = c.parameters.worktree
  BY FreshRun
<1> HIDE DEF m
<1>4. Reloaded(c, w) =
        [m EXCEPT !.chosen = w.chosen, !.chosenRole = w.chosenRole, !.chosenModel = w.chosenModel,
                  !.noMerge = w.noMerge, !.on = w.on, !.off = w.off]
  BY DEF Reloaded, m
<1>5. LET r == Reloaded(c, w) IN
      /\ DOMAIN r = DOMAIN m /\ r.chosen = w.chosen
      /\ r.merge = m.merge /\ r.noCommit = m.noCommit /\ r.worktree = m.worktree
  BY <1>n, <1>3, <1>4
<1>6. Reloaded(c, WithoutCommit(q)) = Reloaded(c, w)
  BY DEF w
<1> HIDE DEF w
<1> QED BY <1>1, <1>2, <1>3, <1>5, <1>6, <1>7 DEF Or, IsRun, Switches

-----------------------------------------------------------------------------
(* Loading the configuration.                                              *)

ConfigLoads ==
    /\ sources \in Seq(Sources)
    /\ DOMAIN config = DOMAIN Nothing /\ IsConfig(config.parameters)

LEMMA ExistingIsPath == \A path \in Trees : Existing(path) \in Seq(Sources)
<1> SUFFICES ASSUME NEW path \in Trees PROVE Existing(path) \in Seq(Sources)
  OBVIOUS
<1> DEFINE K == {i \in DOMAIN path : ~path[i].missing}
<1>1. path \in Seq(Sources)
  BY ConfigAssumption
<1>2. Existing(path) = Kept(path, K) /\ K \in SUBSET DOMAIN path
  BY DEF Existing, KeptIf
<1> HIDE DEF K
<1> QED BY <1>1, <1>2, KeptElements

LEMMA NothingIsConfig == IsConfig(Nothing.parameters)
  BY DEF Nothing, IsConfig, Switches, NoParameters

LEMMA SourceOver ==
  ASSUME NEW c, DOMAIN c = DOMAIN Nothing, IsConfig(c.parameters), NEW s \in Sources
  PROVE  LET r == MergeSource(c, s)
         IN /\ DOMAIN r = DOMAIN Nothing /\ IsConfig(r.parameters)
            /\ r.parameters = MergeFrom(c.parameters, Global(s))
            /\ r.roles = MergeRoles(c.roles, Roles(s))
<1>1. s.global \in Parameters /\ s.legacy \in Parameters
  BY RunAssumption
<1>2. IsConfig(s.global) /\ IsConfig(s.legacy)
  BY <1>1, NamesOfParameters DEF Parameters, IsConfig, Switches, ConfigNames
<1>3. IsConfig(Global(s))
  BY <1>2, MergeKeeps DEF Global, IsConfig
<1>4. IsConfig(MergeFrom(c.parameters, Global(s)))
  BY <1>3, MergeKeeps DEF IsConfig
<1>5. /\ DOMAIN Nothing = {"parameters", "select", "tags", "providers", "aliases", "roles", "files"}
      /\ "parameters" \in DOMAIN c /\ "roles" \in DOMAIN c
  BY DEF Nothing
<1> DEFINE a == MergeGlobal(c, s)
           b == MergeProviders(a, s)
           d == MergeAliases(b, s)
           e == MergeFiles(d, s)
<1>6. DOMAIN a = DOMAIN c /\ a.parameters = MergeFrom(c.parameters, Global(s)) /\ a.roles = c.roles
  BY <1>5 DEF MergeGlobal
<1>7. DOMAIN b = DOMAIN a /\ b.parameters = a.parameters /\ b.roles = a.roles
  BY <1>5, <1>6 DEF MergeProviders
<1>8. DOMAIN d = DOMAIN b /\ d.parameters = b.parameters /\ d.roles = b.roles
  BY <1>5, <1>6, <1>7 DEF MergeAliases
<1>9. DOMAIN e = DOMAIN d /\ e.parameters = d.parameters /\ e.roles = d.roles
  BY <1>5, <1>6, <1>7, <1>8 DEF MergeFiles
<1>10. MergeSource(c, s) = [e EXCEPT !.roles = MergeRoles(@, Roles(s))]
  BY DEF MergeSource
<1> HIDE DEF a, b, d, e
<1>11. LET r == MergeSource(c, s) IN /\ DOMAIN r = DOMAIN e /\ r.parameters = e.parameters
                                 /\ r.roles = MergeRoles(e.roles, Roles(s))
  BY <1>5, <1>6, <1>7, <1>8, <1>9, <1>10
<1> QED BY <1>4, <1>6, <1>7, <1>8, <1>9, <1>11

LEMMA LoadKeeps == ConfigLoads /\ ConfigNext => ConfigLoads'
<1> SUFFICES ASSUME ConfigLoads, ConfigNext PROVE ConfigLoads'
  OBVIOUS
<1>1. CASE LoadSource
  <2>1. /\ sources # <<>> /\ sources \in Seq(Sources)
        /\ config' = MergeSource(config, Head(sources)) /\ sources' = Tail(sources)
    BY <1>1 DEF LoadSource, ConfigLoads
  <2>2. Head(sources) \in Sources /\ sources' \in Seq(Sources)
    BY <2>1
  <2> QED BY <2>1, <2>2, SourceOver DEF ConfigLoads
<1>2. CASE LoadFails
  BY <1>2, NothingIsConfig DEF LoadFails, ConfigLoads
<1>3. CASE LoadEnds
  BY <1>3 DEF LoadEnds, ConfigLoads
<1> QED BY <1>1, <1>2, <1>3 DEF ConfigNext

-----------------------------------------------------------------------------
(* The invariant of a run.                                                 *)

InputsGiven ==
    /\ line \in CommandLines /\ command \in Commands
    /\ IsConfig(files.parameters)
    /\ step \in {"load", "flags", "populate", "validate", "build", "render", "start", "session",
                 "summary", "returned"}

\* Before the session, the parameters are those of a run, and where what was asked
\* for has got to: the flags are in first, then the command's and the task's.
Reread == {"build", "render", "start", "session", "summary"}
Started == Reread \cup {"validate"}

WorktreeDue ==
    /\ line.worktree # "" /\ command.params.worktree = "" /\ ~NoCommit
    /\ InTaskMode => ~Branchless(command, task)

ParametersFollow ==
    /\ step \in Started \cup {"populate"} => IsRun(p)
    /\ step = "populate" =>
           /\ p.noMerge = line.noMerge /\ p.noCommit = (files.parameters.noCommit \/ line.noCommit)
           /\ p.merge => line.merge = "on" \/ files.parameters.merge
           /\ p.chosen = Or(line.role, "developer") /\ p.chosenRole = (line.role # "")
           /\ line.worktree # "" => p.worktree = line.worktree
    /\ step \in Started =>
           /\ p.chosen = Or(line.role, Or(task.role, Or(command.role, "developer")))
           /\ p.noCommit = NoCommit
           /\ p.merge => AskedToMerge \/ files.parameters.merge
           /\ WorktreeDue => p.worktree = line.worktree
    /\ step \in Reread => (NoCommit => p.worktree = files.parameters.worktree)

SessionStarts == session # <<>> => step \in {"session", "summary", "returned"}

\* There is a container only once the cleanup that closes it is deferred.
CleanupDeferred ==
    /\ container \in {"none", "lazy", "running", "closed"}
    /\ container # "none" => cleanup
    /\ step = "load" => container = "none"

RunInv ==
    /\ ConfigLoads /\ InputsGiven /\ ParametersFollow /\ SessionStarts /\ CleanupDeferred
    /\ RunsAsAsked

LEMMA RunBegins == RunInit => RunInv
<1> SUFFICES ASSUME RunInit PROVE RunInv
  OBVIOUS
<1>1. ConfigLoads
  <2>1. PICK path \in Trees : sources = Existing(path)
    BY DEF RunInit, ConfigInit, ConfigFrom
  <2>2. sources \in Seq(Sources)
    BY <2>1, ExistingIsPath
  <2>3. config = Nothing
    BY DEF RunInit, ConfigInit, ConfigFrom
  <2> QED BY <2>2, <2>3, NothingIsConfig DEF ConfigLoads
<1>2. step = "load" /\ session = <<>> /\ container = "none" /\ files = Nothing
  BY DEF RunInit
<1>3. InputsGiven
  BY <1>2, NothingIsConfig DEF RunInit, InputsGiven
<1>4. ParametersFollow /\ SessionStarts /\ CleanupDeferred
  BY <1>2 DEF ParametersFollow, SessionStarts, CleanupDeferred, Started, Reread
<1>5. RunsAsAsked
  BY <1>2 DEF RunsAsAsked, SessionAsAsked, ContainerGoneAtReturn, SuccessSettlesTask
<1> QED BY <1>1, <1>3, <1>4, <1>5 DEF RunInv

\* A step that does not touch the configuration, the inputs or the parameters.
LEMMA ParametersStay ==
  ASSUME ConfigLoads, InputsGiven, ParametersFollow,
         UNCHANGED cvars, UNCHANGED <<inputs, p>>,
         \/ step' = "returned"
         \/ step \in Reread /\ step' \in Reread
  PROVE  ConfigLoads' /\ InputsGiven' /\ ParametersFollow'
<1>1. ConfigLoads'
  BY DEF ConfigLoads, cvars, IsConfig, Switches
<1>2. InputsGiven'
  BY DEF InputsGiven, inputs, Reread, IsConfig, Switches
<1>3. ParametersFollow'
  <2>1. CASE step' = "returned"
    BY <2>1 DEF ParametersFollow, Started, Reread
  <2>2. CASE step \in Reread /\ step' \in Reread
    BY <2>2 DEF ParametersFollow, inputs, Started, Reread, IsRun, Switches, WorktreeDue, InTaskMode,
                NoCommit, AskedToMerge
  <2> QED BY <2>1, <2>2
<1> QED BY <1>1, <1>2, <1>3

\* What was asked of the session stays true while nothing of it changes.
LEMMA SessionStays ==
  ASSUME SessionAsAsked, UNCHANGED <<inputs, p, session>>
  PROVE  SessionAsAsked'
  BY DEF SessionAsAsked, inputs, InTaskMode, NoCommit, AskedToMerge

\* Wherever the run returns, the deferred cleanup has closed the container.
LEMMA ReturnSafe ==
  ASSUME RunInv, Return, UNCHANGED cvars, UNCHANGED <<inputs, p, cleanup, session>>,
         failed' \/ (InTaskMode => status' # "running")
  PROVE  RunInv'
<1>1. step' = "returned" /\ container' = IF cleanup /\ container # "none" THEN "closed" ELSE container
  BY DEF Return
<1>2. ConfigLoads' /\ InputsGiven' /\ ParametersFollow'
  BY <1>1, ParametersStay DEF RunInv
<1>3. CleanupDeferred' /\ ContainerGoneAtReturn'
  BY <1>1 DEF RunInv, CleanupDeferred, ContainerGoneAtReturn
<1>4. SessionStarts'
  BY <1>1 DEF SessionStarts
<1>5. SessionAsAsked'
  BY SessionStays DEF RunInv, RunsAsAsked
<1>6. SuccessSettlesTask'
  BY DEF SuccessSettlesTask, InTaskMode, inputs
<1> QED BY <1>2, <1>3, <1>4, <1>5, <1>6 DEF RunInv, RunsAsAsked

\* Before the session nothing is claimed of it.
LEMMA StartSafe ==
  ASSUME RunInv, step' \in {"flags", "populate"} \cup Started,
         step \notin {"session", "summary", "returned"}, UNCHANGED session,
         ConfigLoads', InputsGiven', ParametersFollow',
         container' = container \/ container' \in {"none", "lazy", "running"},
         container' # "none" => cleanup'
  PROVE  RunInv'
<1>1. session = <<>> /\ step' # "returned"
  BY DEF RunInv, SessionStarts, Started, Reread
<1>2. SessionStarts' /\ CleanupDeferred'
  BY <1>1 DEF SessionStarts, RunInv, CleanupDeferred, Started, Reread
<1>3. RunsAsAsked'
  BY <1>1 DEF RunsAsAsked, SessionAsAsked, ContainerGoneAtReturn, SuccessSettlesTask
<1> QED BY <1>2, <1>3 DEF RunInv

LEMMA RunStep == RunInv /\ [RunNext]_<<cvars, rvars>> => RunInv'
<1> SUFFICES ASSUME RunInv, [RunNext]_<<cvars, rvars>> PROVE RunInv'
  OBVIOUS
<1>i. /\ ConfigLoads /\ InputsGiven /\ ParametersFollow /\ SessionStarts /\ CleanupDeferred
      /\ RunsAsAsked
  BY DEF RunInv
<1>f. ASSUME NEW at, Fails(at), UNCHANGED cvars PROVE RunInv'
  BY <1>f, ReturnSafe DEF Fails
<1>1. CASE Load
  <2>1. /\ step = "load" /\ ConfigNext /\ UNCHANGED <<line, command, task, p, container, cleanup, session>>
        /\ files' = config' /\ failed' = (loading' = "failed")
        /\ step' = IF loading' = "loaded" THEN "flags" ELSE IF loading' = "failed" THEN "returned" ELSE step
    BY <1>1 DEF Load
  <2>2. ConfigLoads'
    BY <1>i, <2>1, LoadKeeps
  <2>3. InputsGiven'
    BY <1>i, <2>1, <2>2 DEF InputsGiven, ConfigLoads, IsConfig, Switches
  <2>4. ParametersFollow' /\ step' \in {"load", "flags", "returned"}
    BY <2>1 DEF ParametersFollow, Started, Reread
  <2>5. session' = <<>> /\ container' = "none"
    BY <1>i, <2>1 DEF SessionStarts, CleanupDeferred
  <2>6. SessionStarts' /\ CleanupDeferred' /\ SessionAsAsked' /\ ContainerGoneAtReturn'
    BY <2>5 DEF SessionStarts, CleanupDeferred, SessionAsAsked, ContainerGoneAtReturn
  <2>7. SuccessSettlesTask'
    BY <2>1 DEF SuccessSettlesTask
  <2> QED BY <2>2, <2>3, <2>4, <2>6, <2>7 DEF RunInv, RunsAsAsked
<1>2. CASE Flags /\ UNCHANGED cvars
  <2>1. /\ step = "flags" /\ step' = "populate" /\ p' = ApplyFlags(Fresh(files), line)
        /\ UNCHANGED <<files, line, command, task, container, cleanup, session>>
    BY <1>2 DEF Flags, inputs
  <2>2. ConfigLoads' /\ InputsGiven'
    BY <1>i, <1>2, <2>1 DEF ConfigLoads, InputsGiven, cvars, IsConfig, Switches
  <2>3. /\ IsRun(Fresh(files)) /\ Fresh(files).merge = files.parameters.merge
        /\ Fresh(files).noCommit = files.parameters.noCommit
    BY <1>i, FreshRun DEF InputsGiven
  <2>4. /\ IsRun(p') /\ p'.chosen = Or(line.role, "developer") /\ p'.chosenRole = (line.role # "")
        /\ line.worktree # "" => p'.worktree = line.worktree
        /\ p'.noMerge = line.noMerge /\ p'.noCommit = (files.parameters.noCommit \/ line.noCommit)
        /\ p'.merge => line.merge = "on" \/ files.parameters.merge
    <3>1. line \in CommandLines
      BY <1>i DEF InputsGiven
    <3>2. p'.noMerge = line.noMerge /\ p'.noCommit = (files.parameters.noCommit \/ line.noCommit)
      BY <2>1, <2>3, FlagsForbid
    <3>3. /\ IsRun(p') /\ p'.chosen = Or(line.role, "developer") /\ p'.chosenRole = (line.role # "")
          /\ line.worktree # "" => p'.worktree = line.worktree
          /\ p'.merge => line.merge = "on" \/ files.parameters.merge
      BY <2>1, <2>3, <3>1, FlagsOver
    <3> QED BY <3>2, <3>3
  <2>5. ParametersFollow'
    BY <2>1, <2>4 DEF ParametersFollow, Started, Reread, IsRun, Switches, Or
  <2> QED BY <1>i, <2>1, <2>2, <2>5, StartSafe DEF CleanupDeferred
<1>3. CASE PopulateFails /\ UNCHANGED cvars
  BY <1>f, <1>3 DEF PopulateFails
<1>4. ASSUME step = "populate", step' = "validate", UNCHANGED cvars,
             UNCHANGED <<files, line, command, task, container, cleanup, session>>,
             IsRun(p'),
             p'.chosen = Or(line.role, Or(task.role, Or(command.role, "developer"))),
             p'.noCommit = NoCommit,
             p'.merge => ~line.noMerge /\ ~NoCommit /\ (p.merge \/ command.params.merge),
             WorktreeDue => p'.worktree = p.worktree
      PROVE  RunInv'
  <2>1. ConfigLoads' /\ InputsGiven'
    BY <1>i, <1>4 DEF ConfigLoads, InputsGiven, cvars, IsConfig, Switches
  <2>2. p'.merge => AskedToMerge \/ files.parameters.merge
    BY <1>i, <1>4 DEF ParametersFollow, AskedToMerge
  <2>3. WorktreeDue => p'.worktree = line.worktree
    BY <1>i, <1>4 DEF ParametersFollow, WorktreeDue
  <2>4. ParametersFollow'
    BY <1>4, <2>2, <2>3 DEF ParametersFollow, Started, Reread, IsRun, Switches, Or, WorktreeDue,
                            InTaskMode, NoCommit, AskedToMerge
  <2> QED BY <1>i, <1>4, <2>1, <2>4, StartSafe DEF CleanupDeferred, Started, Reread
<1>5. ASSUME step = "populate"
      PROVE  /\ IsRun(p) /\ command \in Commands
             /\ p.chosen = Or(line.role, "developer") /\ p.chosenRole = (line.role # "")
             /\ p.noMerge = line.noMerge /\ p.noCommit = (files.parameters.noCommit \/ line.noCommit)
             /\ line.worktree # "" => p.worktree = line.worktree
  BY <1>i, <1>5 DEF ParametersFollow, InputsGiven, Started
<1>6. CASE PopulatePlain /\ UNCHANGED cvars
  <2>1. /\ step = "populate" /\ step' = "validate" /\ task = NoTask /\ p' = Populated(p, command)
        /\ UNCHANGED <<files, line, command, task, container, cleanup, session>>
    BY <1>6 DEF PopulatePlain, inputs, InTaskMode
  <2>2. /\ IsRun(p')
        /\ p'.chosen = (IF p.chosenRole \/ command.role = "" THEN p.chosen ELSE command.role)
        /\ p'.noCommit = (p.noCommit \/ command.params.noCommit)
        /\ p'.merge => ~p.noMerge /\ ~p'.noCommit /\ (p.merge \/ command.params.merge)
        /\ ~p'.noCommit /\ command.params.worktree = "" => p'.worktree = p.worktree
    BY <1>5, <2>1, CommandOver
  <2>3. p'.chosen = Or(line.role, Or(task.role, Or(command.role, "developer")))
    BY <1>5, <2>1, <2>2 DEF Or, NoTask
  <2>4. p'.noCommit = NoCommit
    BY <1>5, <2>1, <2>2 DEF NoCommit
  <2>5. WorktreeDue => p'.worktree = p.worktree
    BY <2>2, <2>4 DEF WorktreeDue
  <2>6. p'.merge => ~line.noMerge /\ ~NoCommit /\ (p.merge \/ command.params.merge)
    BY <1>5, <2>1, <2>2, <2>4
  <2> QED BY <1>4, <1>6, <2>1, <2>2, <2>3, <2>4, <2>5, <2>6
<1>7. CASE PopulateTask /\ UNCHANGED cvars
  <2> DEFINE q == Populated(p, command)
  <2>1. /\ step = "populate" /\ step' = "validate" /\ InTaskMode
        /\ p' = WithTask(WithRole(q, task.role), command, task)
        /\ UNCHANGED <<files, line, command, task, container, cleanup, session>>
    BY <1>7 DEF PopulateTask, inputs
  <2>2. /\ IsRun(q)
        /\ q.chosen = (IF p.chosenRole \/ command.role = "" THEN p.chosen ELSE command.role)
        /\ q.chosenRole = p.chosenRole
        /\ q.noCommit = (p.noCommit \/ command.params.noCommit)
        /\ q.merge => ~p.noMerge /\ ~q.noCommit /\ (p.merge \/ command.params.merge)
        /\ ~q.noCommit /\ command.params.worktree = "" => q.worktree = p.worktree
    BY <1>5, <2>1, CommandOver
  <2> HIDE DEF q
  <2>3. /\ IsRun(p')
        /\ p'.chosen = (IF q.chosenRole \/ task.role = "" THEN q.chosen ELSE task.role)
        /\ p'.noCommit = q.noCommit
        /\ p'.merge => q.merge
        /\ ~p'.noCommit /\ ~Branchless(command, task) /\ q.worktree # "" => p'.worktree = q.worktree
    <3>1. LET r == WithTask(WithRole(q, task.role), command, task) IN
          /\ IsRun(r)
          /\ r.chosen = (IF q.chosenRole \/ task.role = "" THEN q.chosen ELSE task.role)
          /\ r.noCommit = q.noCommit
          /\ r.merge => q.merge
          /\ ~r.noCommit /\ ~Branchless(command, task) /\ q.worktree # "" => r.worktree = q.worktree
      BY Zenon, <2>2, TaskOver
    <3> QED BY <2>1, <3>1
  <2>4. p'.chosen = Or(line.role, Or(task.role, Or(command.role, "developer")))
    BY <1>5, <2>1, <2>2, <2>3 DEF Or
  <2>5. p'.noCommit = NoCommit
    BY <1>5, <2>1, <2>2, <2>3 DEF NoCommit
  <2>6. WorktreeDue => p'.worktree = p.worktree
    BY <1>5, <2>1, <2>2, <2>3, <2>5 DEF WorktreeDue
  <2>7. p'.merge => ~line.noMerge /\ ~NoCommit /\ (p.merge \/ command.params.merge)
    BY <1>5, <2>1, <2>2, <2>3, <2>5
  <2> QED BY <1>4, <1>7, <2>1, <2>2, <2>3, <2>4, <2>5, <2>6, <2>7
<1>8. CASE ReloadFails /\ UNCHANGED cvars
  BY <1>f, <1>8 DEF ReloadFails
<1>9. CASE ReloadConfig /\ UNCHANGED cvars
  <2>1. /\ step = "validate" /\ step' = "build" /\ p' = Reloaded(files, WithoutCommit(p))
        /\ UNCHANGED <<files, line, command, task, container, cleanup, session>>
    BY <1>9 DEF ReloadConfig, inputs
  <2>2. /\ IsRun(p) /\ IsConfig(files.parameters)
        /\ p.noCommit = NoCommit
        /\ p.merge => AskedToMerge \/ files.parameters.merge
        /\ p.chosen = Or(line.role, Or(task.role, Or(command.role, "developer")))
        /\ WorktreeDue => p.worktree = line.worktree
    BY <1>i, <2>1 DEF ParametersFollow, InputsGiven, Started
  <2>3. /\ IsRun(p') /\ p'.chosen = p.chosen
        /\ p'.merge => files.parameters.merge \/ p.merge
        /\ p'.noCommit = (p.noCommit \/ files.parameters.noCommit)
        /\ p.noCommit => p'.worktree = files.parameters.worktree
        /\ ~p'.noCommit /\ p.worktree # "" => p'.worktree = p.worktree
    BY <2>1, <2>2, ReloadUnder
  <2>4. p'.noCommit = NoCommit /\ (WorktreeDue => p'.worktree = line.worktree)
    BY <2>2, <2>3 DEF WorktreeDue, NoCommit
  <2>5. ConfigLoads' /\ InputsGiven'
    BY <1>i, <1>9, <2>1 DEF ConfigLoads, InputsGiven, cvars, IsConfig, Switches
  <2>6. ParametersFollow'
    BY <2>1, <2>2, <2>3, <2>4 DEF ParametersFollow, Started, Reread, IsRun, Switches, Or, WorktreeDue,
                                  InTaskMode, NoCommit, AskedToMerge
  <2> QED BY <1>i, <2>1, <2>5, <2>6, StartSafe DEF CleanupDeferred, Started, Reread
<1>10. CASE BuildFails /\ UNCHANGED cvars
  BY <1>f, <1>10 DEF BuildFails
<1>11. ASSUME step \in {"build", "render", "start"}, step' \in {"render", "start"}, UNCHANGED cvars,
              UNCHANGED <<inputs, p, session>>,
              container' = container \/ container' \in {"none", "lazy", "running"},
              container' # "none" => cleanup'
       PROVE  RunInv'
  <2>1. ConfigLoads' /\ InputsGiven' /\ ParametersFollow'
    BY <1>i, <1>11, ParametersStay DEF Reread
  <2> QED BY <1>11, <2>1, StartSafe DEF Started, Reread
<1>12. CASE BuildSystem /\ UNCHANGED cvars
  BY <1>11, <1>12 DEF BuildSystem
<1>13. CASE RenderCommand /\ UNCHANGED cvars
  BY <1>i, <1>11, <1>13 DEF RenderCommand, Starts, CleanupDeferred
<1>14. CASE RenderFails /\ UNCHANGED cvars
  BY <1>f, <1>14 DEF RenderFails
<1>15. ASSUME step \in Reread, step' \in {"session", "summary"}, UNCHANGED cvars,
              UNCHANGED <<inputs, p>>, SessionAsAsked',
              container' \in {"none", "lazy", "running", "closed"},
              container' # "none" => cleanup'
       PROVE  RunInv'
  <2>1. ConfigLoads' /\ InputsGiven' /\ ParametersFollow'
    BY <1>i, <1>15, ParametersStay DEF Reread
  <2>2. SessionStarts' /\ CleanupDeferred' /\ ContainerGoneAtReturn' /\ SuccessSettlesTask'
    BY <1>15 DEF SessionStarts, CleanupDeferred, ContainerGoneAtReturn, SuccessSettlesTask
  <2> QED BY <1>15, <2>1, <2>2 DEF RunInv, RunsAsAsked
<1>16. SessionAsAsked /\ container \in {"none", "lazy", "running", "closed"} /\ (container # "none" => cleanup)
  BY <1>i DEF RunsAsAsked, CleanupDeferred
<1>17. CASE StartSession /\ UNCHANGED cvars
  <2>1. /\ step = "start" /\ step' = "session" /\ UNCHANGED <<inputs, p, container, cleanup>>
        /\ session' = [role |-> p.chosen, model |-> SessionModel(p), worktree |-> p.worktree, merge |-> p.merge]
    BY <1>17 DEF StartSession
  <2>2. /\ p.merge => AskedToMerge \/ files.parameters.merge
        /\ p.chosen = Or(line.role, Or(task.role, Or(command.role, "developer")))
        /\ WorktreeDue => p.worktree = line.worktree
        /\ NoCommit => p.worktree = files.parameters.worktree
    BY <1>i, <2>1 DEF ParametersFollow, Started, Reread
  <2>3. session'.role = p.chosen /\ session'.worktree = p.worktree /\ session'.merge = p.merge
    BY <2>1
  <2>4. SessionAsAsked'
    BY <2>1, <2>2, <2>3 DEF SessionAsAsked, WorktreeDue, inputs, InTaskMode, Or, Branchless,
                            NoCommit, AskedToMerge
  <2> QED BY <1>15, <1>16, <1>17, <2>1, <2>4 DEF Reread
<1>18. CASE SessionRunsCommand /\ UNCHANGED cvars
  BY <1>15, <1>16, <1>18, SessionStays DEF SessionRunsCommand, Starts, Reread
<1>19. CASE SessionSetsStatus /\ UNCHANGED cvars
  BY <1>15, <1>16, <1>19, SessionStays DEF SessionSetsStatus, Reread
<1>20. CASE Finalize /\ UNCHANGED cvars
  BY <1>15, <1>16, <1>20, SessionStays DEF Finalize, Reread
<1>21. CASE SummaryFails /\ UNCHANGED cvars
  BY <1>f, <1>21 DEF SummaryFails
<1>22. CASE Finish /\ UNCHANGED cvars
  <2>1. InTaskMode => status' # "running"
    BY <1>22 DEF Finish, FinalStatus
  <2> QED BY <1>22, <2>1, ReturnSafe DEF Finish
<1>23. CASE UNCHANGED <<cvars, rvars>>
  <2>1. UNCHANGED cvars /\ UNCHANGED <<inputs, p>> /\ UNCHANGED <<step, status, container, cleanup, session, failed>>
    BY <1>23 DEF rvars, inputs
  <2>2. ConfigLoads' /\ InputsGiven'
    BY <1>i, <2>1 DEF ConfigLoads, InputsGiven, cvars, inputs, IsConfig, Switches
  <2>3. ParametersFollow'
    BY <1>i, <2>1 DEF ParametersFollow, inputs, Started, Reread, IsRun, Switches, WorktreeDue,
                      InTaskMode, Or, NoCommit, AskedToMerge
  <2>4. SessionStarts' /\ CleanupDeferred' /\ ContainerGoneAtReturn' /\ SuccessSettlesTask'
    BY <1>i, <2>1 DEF SessionStarts, CleanupDeferred, RunsAsAsked, ContainerGoneAtReturn,
                      SuccessSettlesTask, InTaskMode, inputs
  <2>5. SessionAsAsked'
    BY <1>16, <2>1, SessionStays
  <2> QED BY <2>2, <2>3, <2>4, <2>5 DEF RunInv, RunsAsAsked
<1> QED
  BY <1>1, <1>2, <1>3, <1>6, <1>7, <1>8, <1>9, <1>10, <1>12, <1>13, <1>14, <1>17, <1>18, <1>19,
     <1>20, <1>21, <1>22, <1>23 DEF RunNext

\* Whatever the flags, the configuration, the command and the task: the session has
\* the role asked for, the branch of --worktree, the configuration's or none, and no
\* merging but what the flags, the command or the configuration say, where --no-merge
\* and --no-commit hold against all but the configuration; and wherever the run
\* returns its container is gone, and its task not left running if it succeeded
\* (pkg/system/run.go).
THEOREM RunIsAsAsked == RunSpec => []RunsAsAsked
<1>1. RunInv => RunsAsAsked
  BY DEF RunInv
<1> QED BY RunBegins, RunStep, <1>1, PTL DEF RunSpec

-----------------------------------------------------------------------------
(* Later sources win.  The invariant names the last source that says       *)
(* something of a parameter or a fragment where LaterSourceWins chooses it.*)

FragmentKinds == {"prompts", "tools"}

Says(text) == text # ""

\* The source has the fragment k of that kind for the role r.
HasFragment(s, f, r, k) == r \in DOMAIN s.roles /\ k \in DOMAIN Roles(s)[r][f]

Worktree(s) == Or(s.global.worktree, s.legacy.worktree)

LastFragment(l, f, r, k) ==
    /\ l \in 1 .. Len(read) /\ HasFragment(read[l], f, r, k)
    /\ \A j \in l + 1 .. Len(read) : ~HasFragment(read[j], f, r, k)

\* A fragment that is empty in the last source that has it is removed.
SaidLast(l, f, r, k) ==
    LET last == Roles(read[l])[r][f][k]
        now == config.roles[r][f]
    IN IF Says(last) THEN k \in DOMAIN now /\ now[k] = last
       ELSE k \in DOMAIN now => ~Says(now[k])

FragmentsSettled(f) ==
    \A i \in 1 .. Len(read) : \A r, k :
        HasFragment(read[i], f, r, k) =>
            \E l : LastFragment(l, f, r, k) /\ SaidLast(l, f, r, k)

WorktreeSettled ==
    \/ /\ ~Says(config.parameters.worktree)
       /\ \A i \in 1 .. Len(read) : ~Says(Worktree(read[i]))
    \/ \E l \in 1 .. Len(read) :
          /\ Says(Worktree(read[l])) /\ config.parameters.worktree = Worktree(read[l])
          /\ \A j \in l + 1 .. Len(read) : ~Says(Worktree(read[j]))

MergeSettled ==
    config.parameters.merge = \E i \in 1 .. Len(read) : read[i].global.merge \/ read[i].legacy.merge

RolesRead == \A i \in 1 .. Len(read) : DOMAIN read[i].roles \subseteq DOMAIN config.roles

LayersInv ==
    /\ ConfigLoads /\ read \in Seq(Sources)
    /\ loading # "failed" =>
          RolesRead /\ WorktreeSettled /\ MergeSettled /\ \A f \in FragmentKinds : FragmentsSettled(f)

\* There is one last source.
LEMMA LastIsOne ==
  ASSUME NEW n \in Nat, NEW Q, NEW l \in 1 .. n, l \in Q, \A j \in l + 1 .. n : j \notin Q
  PROVE  \A i \in 1 .. n : (i \in Q /\ \A j \in i + 1 .. n : j \notin Q) <=> i = l
<1>1. ASSUME NEW i \in 1 .. n, i \in Q, \A j \in i + 1 .. n : j \notin Q, i # l PROVE FALSE
  <2>1. i < l \/ l < i
    BY <1>1
  <2> QED BY <1>1, <2>1
<1> QED BY <1>1

LEMMA SettledIsMerged ==
  ASSUME NEW f \in FragmentKinds, FragmentsSettled(f), read \in Seq(Sources)
  PROVE  FragmentsMerged(LAMBDA r : r[f])
<1> DEFINE Has(r, k, s) == r \in DOMAIN s.roles /\ k \in DOMAIN Roles(s)[r][f]
           Newest(r, k) == CHOOSE i \in 1 .. Len(read) :
                             Has(r, k, read[i]) /\ \A j \in i + 1 .. Len(read) : ~Has(r, k, read[j])
           IsNow(r, k, l) == IF Roles(read[l])[r][f][k] = ""
                            THEN k \in DOMAIN config.roles[r][f] => config.roles[r][f][k] = ""
                            ELSE /\ k \in DOMAIN config.roles[r][f]
                                 /\ config.roles[r][f][k] = Roles(read[l])[r][f][k]
<1>1. ASSUME NEW i \in 1 .. Len(read), NEW r \in DOMAIN read[i].roles,
             NEW k \in DOMAIN Roles(read[i])[r][f]
      PROVE  IsNow(r, k, Newest(r, k))
  <2>1. PICK l : LastFragment(l, f, r, k) /\ SaidLast(l, f, r, k)
    BY <1>1 DEF FragmentsSettled, HasFragment
  <2> DEFINE Q == {j \in 1 .. Len(read) : Has(r, k, read[j])}
  <2>2. l \in 1 .. Len(read) /\ l \in Q /\ \A j \in l + 1 .. Len(read) : j \notin Q
    BY <2>1 DEF LastFragment, HasFragment
  <2>3. \A j \in 1 .. Len(read) : (j \in Q /\ \A m \in j + 1 .. Len(read) : m \notin Q) <=> j = l
    <3> HIDE DEF Q
    <3> QED BY <2>2, LastIsOne
  <2>4. \A j \in 1 .. Len(read) : \A m \in j + 1 .. Len(read) : m \in 1 .. Len(read)
    OBVIOUS
  <2>5. \A j \in 1 .. Len(read) :
            (Has(r, k, read[j]) /\ \A m \in j + 1 .. Len(read) : ~Has(r, k, read[m])) <=> j = l
    BY <2>3, <2>4
  <2>6. Newest(r, k) = l
    <3> HIDE DEF Has
    <3> QED BY <2>2, <2>5
  <2>7. IsNow(r, k, l)
    BY <2>1, Zenon DEF SaidLast, Says
  <2> HIDE DEF IsNow, Newest
  <2> QED BY <2>6, <2>7
<1> QED BY <1>1, Zenon DEF FragmentsMerged, LastWith

LEMMA SettledParametersMerged ==
  ASSUME WorktreeSettled, MergeSettled, read \in Seq(Sources)
  PROVE  ParametersMerged
<1> DEFINE worktree(s) == Or(s.global.worktree, s.legacy.worktree)
           Newest == CHOOSE i \in 1 .. Len(read) :
                       worktree(read[i]) # "" /\ \A j \in i + 1 .. Len(read) : ~(worktree(read[j]) # "")
<1>1. ASSUME NEW l \in 1 .. Len(read), Says(Worktree(read[l])),
             config.parameters.worktree = Worktree(read[l]),
             \A j \in l + 1 .. Len(read) : ~Says(Worktree(read[j]))
      PROVE  config.parameters.worktree # "" /\ config.parameters.worktree = worktree(read[Newest])
  <2> DEFINE Q == {j \in 1 .. Len(read) : Says(Worktree(read[j]))}
  <2>1. \A j \in 1 .. Len(read) : \A m \in j + 1 .. Len(read) : m \in 1 .. Len(read)
    OBVIOUS
  <2>2. l \in Q /\ \A j \in l + 1 .. Len(read) : j \notin Q
    BY <1>1, Zenon
  <2>3. \A j \in 1 .. Len(read) : (j \in Q /\ \A m \in j + 1 .. Len(read) : m \notin Q) <=> j = l
    <3> HIDE DEF Q
    <3> QED BY <2>2, LastIsOne
  <2>4. \A j \in 1 .. Len(read) :
            (Says(Worktree(read[j])) /\ \A m \in j + 1 .. Len(read) : ~Says(Worktree(read[m]))) <=> j = l
    BY <2>1, <2>3, Zenon
  <2>5. Newest = l
    BY <2>4, Zenon DEF Worktree, Says
  <2> HIDE DEF Newest
  <2> QED BY <1>1, <2>5, Zenon DEF Worktree, Says
<1>2. config.parameters.merge =
          \E i \in 1 .. Len(read) : read[i].global.merge \/ read[i].legacy.merge
  BY DEF MergeSettled
<1>3. \/ config.parameters.worktree = "" /\ \A i \in 1 .. Len(read) : worktree(read[i]) = ""
      \/ config.parameters.worktree # "" /\ config.parameters.worktree = worktree(read[Newest])
  <2> HIDE DEF Newest
  <2> QED BY <1>1, Zenon DEF WorktreeSettled, Worktree, Says
<1> QED BY <1>2, <1>3, Zenon DEF ParametersMerged, LastWith

LEMMA OrSays ==
  ASSUME NEW a, NEW b
  PROVE  /\ Says(a) => Or(a, b) = a
         /\ ~Says(a) => Or(a, b) = b
  BY Zenon DEF Or, Says

\* What reading one more source changes.
LEMMA SourceRead ==
  ASSUME LayersInv, LoadSource
  PROVE  LET s == Head(sources)
         IN /\ s \in Sources /\ read' = Append(read, s) /\ read' \in Seq(Sources)
            /\ config'.parameters.worktree = Or(Worktree(s), config.parameters.worktree)
            /\ config'.parameters.merge = (config.parameters.merge \/ s.legacy.merge \/ s.global.merge)
            /\ config'.roles = MergeRoles(config.roles, Roles(s))
<1> DEFINE s == Head(sources)
<1>1. /\ sources # <<>> /\ sources \in Seq(Sources) /\ read \in Seq(Sources)
      /\ DOMAIN config = DOMAIN Nothing /\ IsConfig(config.parameters)
      /\ config' = MergeSource(config, s) /\ read' = Append(read, s)
  BY DEF LoadSource, LayersInv, ConfigLoads
<1>2. s \in Sources /\ read' \in Seq(Sources)
  BY <1>1
<1>3. /\ config'.parameters = MergeFrom(config.parameters, Global(s))
      /\ config'.roles = MergeRoles(config.roles, Roles(s))
  <2> HIDE DEF s
  <2> QED BY <1>1, <1>2, SourceOver
<1>4. s.global \in Parameters /\ s.legacy \in Parameters
  BY <1>2, RunAssumption
<1>5. IsConfig(s.global) /\ IsConfig(s.legacy)
  <2> HIDE DEF s
  <2> QED BY <1>4, NamesOfParameters DEF Parameters, IsConfig, Switches, ConfigNames
<1>6. /\ Global(s).merge = (s.legacy.merge \/ s.global.merge)
      /\ Global(s).worktree = Worktree(s) /\ Switches(Global(s))
  BY <1>5, MergeKeeps, Zenon DEF Global, Worktree, IsConfig
<1>7. /\ config'.parameters.merge = (config.parameters.merge \/ Global(s).merge)
      /\ config'.parameters.worktree = Or(Global(s).worktree, config.parameters.worktree)
  BY <1>1, <1>3, <1>6, MergeKeeps
<1> HIDE DEF s
<1>8. config'.parameters.merge = (config.parameters.merge \/ s.legacy.merge \/ s.global.merge)
  BY <1>6, <1>7, Zenon
<1>9. config'.parameters.worktree = Or(Worktree(s), config.parameters.worktree)
  BY <1>6, <1>7, Zenon
<1> QED BY <1>1, <1>2, <1>3, <1>8, <1>9, Zenon DEF s

\* One more source at the end.
LEMMA AppendedSource ==
  ASSUME NEW q \in Seq(Sources), NEW s \in Sources
  PROVE  LET q2 == Append(q, s)
         IN /\ Len(q2) = Len(q) + 1 /\ q2[Len(q) + 1] = s
            /\ \A i \in 1 .. Len(q) : q2[i] = q[i] /\ i \in 1 .. Len(q) + 1
            /\ \A i \in 1 .. Len(q) + 1 : i \in 1 .. Len(q) \/ i = Len(q) + 1
            /\ Len(q) + 1 \in 1 .. Len(q) + 1
            /\ (Len(q) + 1) + 1 .. Len(q) + 1 = {}
            /\ \A l \in 1 .. Len(q) : \A j \in l + 1 .. Len(q) + 1 : j \in l + 1 .. Len(q) \/ j = Len(q) + 1
  OBVIOUS

LEMMA WorktreeStep ==
  ASSUME LayersInv, LoadSource, WorktreeSettled PROVE WorktreeSettled'
<1> DEFINE n == Len(read)
           s == Head(sources)
<1>1. /\ s \in Sources /\ read \in Seq(Sources) /\ read' = Append(read, s)
      /\ config'.parameters.worktree = Or(Worktree(s), config.parameters.worktree)
  BY SourceRead DEF LayersInv
<1>2. /\ Len(read') = n + 1 /\ read'[n + 1] = s
      /\ \A i \in 1 .. n : read'[i] = read[i] /\ i \in 1 .. n + 1
      /\ \A i \in 1 .. n + 1 : i \in 1 .. n \/ i = n + 1
      /\ n + 1 \in 1 .. n + 1
      /\ (n + 1) + 1 .. n + 1 = {}
      /\ \A l \in 1 .. n : \A j \in l + 1 .. n + 1 : j \in l + 1 .. n \/ j = n + 1
  <2> HIDE DEF s
  <2> QED BY <1>1, AppendedSource
<1> HIDE DEF s, n
<1>3. CASE Says(Worktree(s))
  BY <1>1, <1>2, <1>3, OrSays DEF WorktreeSettled, Worktree
<1>4. CASE ~Says(Worktree(s))
  <2>1. config'.parameters.worktree = config.parameters.worktree
    BY <1>1, <1>4, OrSays
  <2>2. \A i \in 1 .. n : \A j \in i + 1 .. n : j \in 1 .. n
    BY <1>1 DEF n
  <2> QED BY <1>1, <1>2, <1>4, <2>1, <2>2 DEF WorktreeSettled, Worktree, n
<1> QED BY <1>3, <1>4

LEMMA MergeStep ==
  ASSUME LayersInv, LoadSource, MergeSettled PROVE MergeSettled'
<1> DEFINE n == Len(read)
           s == Head(sources)
<1>1. /\ s \in Sources /\ read \in Seq(Sources) /\ read' = Append(read, s)
      /\ config'.parameters.merge = (config.parameters.merge \/ s.legacy.merge \/ s.global.merge)
  BY SourceRead DEF LayersInv
<1>2. /\ Len(read') = n + 1 /\ read'[n + 1] = s
      /\ \A i \in 1 .. n : read'[i] = read[i] /\ i \in 1 .. n + 1
      /\ \A i \in 1 .. n + 1 : i \in 1 .. n \/ i = n + 1
      /\ n + 1 \in 1 .. n + 1
  <2> HIDE DEF s
  <2> QED BY <1>1, AppendedSource
<1>3. config.parameters.merge = \E i \in 1 .. n : read[i].global.merge \/ read[i].legacy.merge
  BY DEF MergeSettled
<1> HIDE DEF s, n
<1>4. config'.parameters.merge = \E i \in 1 .. n + 1 : read'[i].global.merge \/ read'[i].legacy.merge
  BY <1>1, <1>2, <1>3, Zenon
<1> QED BY <1>2, <1>4 DEF MergeSettled

LEMMA FragmentsOver ==
  ASSUME NEW t, NEW u, NEW k
  PROVE  /\ k \in DOMAIN u /\ Says(u[k]) =>
                k \in DOMAIN MergeFragments(t, u) /\ MergeFragments(t, u)[k] = u[k]
         /\ k \in DOMAIN u /\ ~Says(u[k]) => k \notin DOMAIN MergeFragments(t, u)
         /\ k \notin DOMAIN u =>
                /\ k \in DOMAIN MergeFragments(t, u) <=> k \in DOMAIN t
                /\ k \in DOMAIN t => MergeFragments(t, u)[k] = t[k]
<1> DEFINE given == {j \in DOMAIN u : Says(u[j])}
           names == (DOMAIN t \ (DOMAIN u \ given)) \cup given
<1>1. MergeFragments(t, u) = [j \in names |-> IF j \in given THEN u[j] ELSE t[j]]
  BY Zenon DEF MergeFragments, Says
<1> QED BY <1>1

\* The fragments of a role, after one more source has been merged: those the source
\* does not have are as they were, its own are what it says.
LEMMA MergedFragments ==
  ASSUME NEW roles, NEW s, NEW f \in FragmentKinds, NEW r
  PROVE  /\ \A k : HasFragment(s, f, r, k) =>
                IF Says(Roles(s)[r][f][k])
                THEN /\ k \in DOMAIN MergeRoles(roles, Roles(s))[r][f]
                     /\ MergeRoles(roles, Roles(s))[r][f][k] = Roles(s)[r][f][k]
                ELSE k \in DOMAIN MergeRoles(roles, Roles(s))[r][f] =>
                         ~Says(MergeRoles(roles, Roles(s))[r][f][k])
         /\ \A k : r \in DOMAIN roles /\ ~HasFragment(s, f, r, k) =>
                /\ k \in DOMAIN MergeRoles(roles, Roles(s))[r][f] <=> k \in DOMAIN roles[r][f]
                /\ k \in DOMAIN roles[r][f] =>
                       MergeRoles(roles, Roles(s))[r][f][k] = roles[r][f][k]
<1> DEFINE new == MergeRoles(roles, Roles(s))
           o == Roles(s)[r]
<1>1. DOMAIN Roles(s) = DOMAIN s.roles
  BY DEF Roles
<1>2. /\ DOMAIN new = DOMAIN roles \cup DOMAIN s.roles
      /\ r \in DOMAIN new =>
             new[r] = IF r \notin DOMAIN roles THEN o
                      ELSE IF r \notin DOMAIN s.roles THEN roles[r] ELSE MergeRole(roles[r], o)
  <2> HIDE DEF o
  <2> QED BY <1>1 DEF MergeRoles, o
<1>3. r \in DOMAIN s.roles => DOMAIN o = {"model", "hidden", "aliases", "prompts", "tools"}
  BY DEF Roles, ReadRole
<1>4. r \in DOMAIN s.roles => MergeRole(roles[r], o)[f] = MergeFragments(roles[r][f], o[f])
  <2> HIDE DEF o
  <2>1. CASE f = "prompts"
    BY <1>3, <2>1 DEF MergeRole
  <2>2. CASE f = "tools"
    BY <1>3, <2>2 DEF MergeRole
  <2> QED BY <2>1, <2>2 DEF FragmentKinds
<1> HIDE DEF new, o
<1>5. \A k : HasFragment(s, f, r, k) <=> r \in DOMAIN s.roles /\ k \in DOMAIN o[f]
  BY DEF HasFragment, o
<1>6. ASSUME NEW k, HasFragment(s, f, r, k)
      PROVE  IF Says(o[f][k]) THEN k \in DOMAIN new[r][f] /\ new[r][f][k] = o[f][k]
             ELSE k \in DOMAIN new[r][f] => ~Says(new[r][f][k])
  <2>1. CASE r \in DOMAIN roles
    <3>1. new[r][f] = MergeFragments(roles[r][f], o[f]) /\ k \in DOMAIN o[f]
      BY <1>2, <1>4, <1>5, <1>6, <2>1, Zenon
    <3> QED BY <3>1, FragmentsOver
  <2>2. CASE r \notin DOMAIN roles
    <3>1. new[r] = o /\ k \in DOMAIN o[f]
      BY <1>2, <1>5, <1>6, <2>2, Zenon
    <3> QED BY <3>1, Zenon
  <2> QED BY <2>1, <2>2
<1>7. ASSUME NEW k, r \in DOMAIN roles, ~HasFragment(s, f, r, k)
      PROVE  /\ k \in DOMAIN new[r][f] <=> k \in DOMAIN roles[r][f]
             /\ k \in DOMAIN roles[r][f] => new[r][f][k] = roles[r][f][k]
  <2>1. CASE r \in DOMAIN s.roles
    <3>1. new[r][f] = MergeFragments(roles[r][f], o[f]) /\ k \notin DOMAIN o[f]
      BY <1>2, <1>4, <1>5, <1>7, <2>1, Zenon
    <3> QED BY <3>1, FragmentsOver
  <2>2. CASE r \notin DOMAIN s.roles
    BY <1>2, <1>7, <2>2, Zenon
  <2> QED BY <2>1, <2>2
<1> QED BY <1>6, <1>7, Zenon DEF new, o

LEMMA MergedRoles ==
  \A roles, s : DOMAIN MergeRoles(roles, Roles(s)) = DOMAIN roles \cup DOMAIN s.roles
  BY DEF MergeRoles, Roles

LEMMA FragmentsStep ==
  ASSUME LayersInv, LoadSource, RolesRead, NEW f \in FragmentKinds, FragmentsSettled(f)
  PROVE  FragmentsSettled(f)' /\ RolesRead'
<1> DEFINE s == Head(sources)
<1>0. PICK n \in Nat : n = Len(read)
  BY DEF LayersInv
<1>1. /\ s \in Sources /\ read \in Seq(Sources) /\ read' = Append(read, s)
      /\ config'.roles = MergeRoles(config.roles, Roles(s))
  BY SourceRead DEF LayersInv
<1>2. /\ Len(read') = n + 1 /\ read'[n + 1] = s
      /\ \A i \in 1 .. n : read'[i] = read[i] /\ i \in 1 .. n + 1
      /\ \A i \in 1 .. n + 1 : i \in 1 .. n \/ i = n + 1
      /\ n + 1 \in 1 .. n + 1
      /\ (n + 1) + 1 .. n + 1 = {}
      /\ \A l \in 1 .. n : \A j \in l + 1 .. n + 1 : j \in l + 1 .. n \/ j = n + 1
  <2> HIDE DEF s
  <2> QED BY <1>0, <1>1, AppendedSource
<1> HIDE DEF s
<1>3. RolesRead'
  <2>1. DOMAIN config'.roles = DOMAIN config.roles \cup DOMAIN s.roles
    BY <1>1, MergedRoles
  <2> QED BY <1>0, <1>2, <2>1 DEF RolesRead
<1>4. ASSUME NEW i \in 1 .. n + 1, NEW r, NEW k, HasFragment(read'[i], f, r, k)
      PROVE  \E l : LastFragment(l, f, r, k)' /\ SaidLast(l, f, r, k)'
  <2> DEFINE now == config.roles[r][f]
             new == config'.roles[r][f]
  <2>1. CASE HasFragment(s, f, r, k)
    <3>1. IF Says(Roles(s)[r][f][k]) THEN k \in DOMAIN new /\ new[k] = Roles(s)[r][f][k]
          ELSE k \in DOMAIN new => ~Says(new[k])
      <4>1. LET all == MergeRoles(config.roles, Roles(s))
            IN IF Says(Roles(s)[r][f][k])
               THEN k \in DOMAIN all[r][f] /\ all[r][f][k] = Roles(s)[r][f][k]
               ELSE k \in DOMAIN all[r][f] => ~Says(all[r][f][k])
        BY <2>1, Zenon, MergedFragments
      <4> QED BY <1>1, <4>1
    <3>2. LastFragment(n + 1, f, r, k)'
      BY <1>2, <2>1 DEF LastFragment, HasFragment, Roles, ReadRole, ToolFragments
    <3>3. SaidLast(n + 1, f, r, k)'
      <4> HIDE DEF new
      <4> QED BY <1>2, <3>1 DEF SaidLast, new, Roles, ReadRole, ToolFragments
    <3> QED BY <3>2, <3>3
  <2>2. CASE ~HasFragment(s, f, r, k)
    <3>1. i \in 1 .. n /\ HasFragment(read[i], f, r, k)
      BY <1>2, <1>4, <2>2
    <3>2. PICK l : LastFragment(l, f, r, k) /\ SaidLast(l, f, r, k)
      BY <1>0, <3>1 DEF FragmentsSettled
    <3>3. l \in 1 .. n /\ HasFragment(read[l], f, r, k) /\ r \in DOMAIN read[l].roles
          /\ \A j \in l + 1 .. n : ~HasFragment(read[j], f, r, k)
      BY <1>0, <3>2 DEF LastFragment, HasFragment
    <3>4. r \in DOMAIN config.roles
      BY <1>0, <3>3 DEF RolesRead
    <3>5. /\ k \in DOMAIN new <=> k \in DOMAIN now
          /\ k \in DOMAIN now => new[k] = now[k]
      <4>1. LET all == MergeRoles(config.roles, Roles(s))
            IN /\ k \in DOMAIN all[r][f] <=> k \in DOMAIN now
               /\ k \in DOMAIN now => all[r][f][k] = now[k]
        BY <2>2, <3>4, MergedFragments
      <4> QED BY <1>1, <4>1
    <3>6. read'[l] = read[l] /\ l \in 1 .. n + 1
      BY <1>2, <3>3
    <3>7. SaidLast(l, f, r, k)'
      <4>1. IF Says(Roles(read[l])[r][f][k]) THEN k \in DOMAIN now /\ now[k] = Roles(read[l])[r][f][k]
            ELSE k \in DOMAIN now => ~Says(now[k])
        BY <3>2 DEF SaidLast
      <4> HIDE DEF new, now
      <4>2. IF Says(Roles(read[l])[r][f][k]) THEN k \in DOMAIN new /\ new[k] = Roles(read[l])[r][f][k]
            ELSE k \in DOMAIN new => ~Says(new[k])
        BY <3>5, <4>1
      <4> QED BY <3>6, <4>2 DEF SaidLast, new, Roles, ReadRole, ToolFragments
    <3>8. \A j \in l + 1 .. n + 1 : ~HasFragment(read'[j], f, r, k)
      <4>1. \A j \in l + 1 .. n : j \in 1 .. n
        BY <1>0, <1>1, <3>3
      <4> QED BY <1>2, <2>2, <3>3, <4>1
    <3>9. LastFragment(l, f, r, k)'
      BY <1>2, <3>3, <3>6, <3>8 DEF LastFragment, HasFragment, Roles, ReadRole, ToolFragments
    <3> QED BY <3>7, <3>9
  <2> QED BY <2>1, <2>2
<1> QED BY <1>2, <1>3, <1>4 DEF FragmentsSettled, HasFragment, Roles, ReadRole, ToolFragments

LEMMA LayersStep == LayersInv /\ [ConfigNext]_cvars => LayersInv'
<1> SUFFICES ASSUME LayersInv, [ConfigNext]_cvars PROVE LayersInv'
  OBVIOUS
<1>1. CASE LoadSource
  <2>1. ConfigLoads' /\ read' \in Seq(Sources)
    BY <1>1, LoadKeeps, SourceRead DEF LayersInv, ConfigNext
  <2>2. loading = "reading" /\ loading' = "reading"
    BY <1>1 DEF LoadSource
  <2>3. RolesRead' /\ \A f \in FragmentKinds : FragmentsSettled(f)'
    <3>1. "prompts" \in FragmentKinds
      BY DEF FragmentKinds
    <3> QED BY <1>1, <2>2, <3>1, FragmentsStep DEF LayersInv
  <2>4. WorktreeSettled' /\ MergeSettled'
    BY <1>1, <2>2, WorktreeStep, MergeStep DEF LayersInv
  <2> QED BY <2>1, <2>3, <2>4 DEF LayersInv
<1>2. CASE LoadFails
  BY <1>2, LoadKeeps DEF LayersInv, LoadFails, ConfigNext
<1>3. CASE LoadEnds \/ UNCHANGED cvars
  <2>1. config' = config /\ read' = read /\ sources' = sources
        /\ (loading = "reading" \/ loading' = loading)
    BY <1>3 DEF LoadEnds, cvars
  <2>2. ConfigLoads' /\ read' \in Seq(Sources)
    BY <2>1 DEF LayersInv, ConfigLoads
  <2>3. loading' # "failed" => loading # "failed"
    BY <2>1
  <2>4. (RolesRead => RolesRead') /\ (MergeSettled => MergeSettled')
    BY <2>1 DEF RolesRead, MergeSettled
  <2>5. WorktreeSettled => WorktreeSettled'
    BY <2>1 DEF WorktreeSettled, Worktree
  <2>6. ASSUME NEW f \in FragmentKinds, FragmentsSettled(f) PROVE FragmentsSettled(f)'
    <3>1. \A l, r, k : LastFragment(l, f, r, k) => LastFragment(l, f, r, k)'
      BY <2>1 DEF LastFragment, HasFragment, Roles, ReadRole, ToolFragments
    <3>2. \A l, r, k : SaidLast(l, f, r, k) => SaidLast(l, f, r, k)'
      <4> SUFFICES ASSUME NEW l, NEW r, NEW k, SaidLast(l, f, r, k) PROVE SaidLast(l, f, r, k)'
        OBVIOUS
      <4>1. Roles(read'[l])[r][f][k] = Roles(read[l])[r][f][k] /\ config'.roles[r][f] = config.roles[r][f]
        BY <2>1
      <4> QED BY <4>1 DEF SaidLast, Roles, ReadRole, ToolFragments, Says
    <3>3. \A i \in 1 .. Len(read') : \A r, k :
              HasFragment(read'[i], f, r, k) => i \in 1 .. Len(read) /\ HasFragment(read[i], f, r, k)
      BY <2>1
    <3> QED BY <2>6, <3>1, <3>2, <3>3
          DEF FragmentsSettled, HasFragment, Roles, ReadRole, ToolFragments
  <2> QED BY <2>2, <2>3, <2>4, <2>5, <2>6 DEF LayersInv
<1> QED BY <1>1, <1>2, <1>3 DEF ConfigNext

LEMMA LayersBegin == ConfigInit => LayersInv
<1> SUFFICES ASSUME ConfigInit PROVE LayersInv
  OBVIOUS
<1>1. sources \in Seq(Sources) /\ read = <<>> /\ config = Nothing
  BY ExistingIsPath DEF ConfigInit, ConfigFrom
<1>2. config.parameters = NoParameters /\ NoParameters.merge = FALSE /\ ~Says(NoParameters.worktree)
  BY <1>1, Zenon DEF Nothing, NoParameters, Says
<1>3. read \in Seq(Sources) /\ Len(read) = 0 /\ 1 .. Len(read) = {}
  BY <1>1
<1> QED BY <1>1, <1>2, <1>3, NothingIsConfig
      DEF LayersInv, ConfigLoads, RolesRead, WorktreeSettled, MergeSettled, FragmentsSettled

LEMMA SettledIsLast ==
  ASSUME LayersInv PROVE LaterSourceWins
<1> SUFFICES ASSUME loading # "failed" PROVE LaterSourceWins
  BY Zenon DEF LaterSourceWins
<1>1. /\ read \in Seq(Sources) /\ WorktreeSettled /\ MergeSettled
      /\ FragmentsSettled("prompts") /\ FragmentsSettled("tools")
  BY DEF LayersInv, FragmentKinds
<1>2. "prompts" \in FragmentKinds /\ "tools" \in FragmentKinds
  BY DEF FragmentKinds
<1>3. ParametersMerged
  BY <1>1, SettledParametersMerged
<1>4. FragmentsMerged(LAMBDA r : r.prompts) /\ FragmentsMerged(LAMBDA r : r.tools)
  BY <1>1, <1>2, SettledIsMerged
<1> QED BY <1>3, <1>4, Zenon DEF LaterSourceWins

-----------------------------------------------------------------------------
(* The prompt of a role.                                                   *)

Fragments == [order : Nat, kind : STRING, tag : STRING]
IsFragments(ps) == IsFiniteSet(DOMAIN ps) /\ DOMAIN ps \subseteq Fragments

\* Every role, however often it was merged, has finitely many fragments.
RolesHaveFragments == \A r \in DOMAIN config.roles : IsFragments(config.roles[r].prompts)

LEMMA MergedIsFragments ==
  ASSUME NEW t, IsFragments(t), NEW u, IsFragments(u)
  PROVE  IsFragments(MergeFragments(t, u))
<1>1. DOMAIN MergeFragments(t, u) \subseteq DOMAIN t \cup DOMAIN u
  BY DEF MergeFragments
<1>2. IsFiniteSet(DOMAIN t \cup DOMAIN u)
  BY FS_Union DEF IsFragments
<1> QED BY <1>1, <1>2, FS_Subset DEF IsFragments

LEMMA FragmentsBegin == ConfigInit => RolesHaveFragments
<1> SUFFICES ASSUME ConfigInit PROVE RolesHaveFragments
  OBVIOUS
<1>1. config.roles = <<>>
  BY DEF ConfigInit, ConfigFrom, Nothing
<1> QED BY <1>1 DEF RolesHaveFragments

LEMMA FragmentsStay ==
  ASSUME LayersInv, RolesHaveFragments, [ConfigNext]_cvars PROVE RolesHaveFragments'
<1>1. CASE LoadSource
  <2> DEFINE s == Head(sources)
             new == MergeRoles(config.roles, Roles(s))
  <2>1. s \in Sources /\ config'.roles = new
    BY <1>1, SourceRead DEF LayersInv
  <2> HIDE DEF s
  <2>2. \A dir \in DOMAIN s.roles : IsFragments(s.roles[dir].prompts)
    BY <2>1, ConfigAssumption DEF IsFragments, Fragments
  <2> SUFFICES ASSUME NEW r \in DOMAIN new PROVE IsFragments(new[r].prompts)
    BY <2>1 DEF RolesHaveFragments
  <2>3. /\ r \in DOMAIN config.roles \cup DOMAIN s.roles
        /\ new[r] = IF r \notin DOMAIN config.roles THEN Roles(s)[r]
                    ELSE IF r \notin DOMAIN s.roles THEN config.roles[r]
                    ELSE MergeRole(config.roles[r], Roles(s)[r])
    BY DEF MergeRoles, Roles
  <2> HIDE DEF new
  <2>4. r \in DOMAIN s.roles => /\ Roles(s)[r].prompts = s.roles[r].prompts
                               /\ DOMAIN Roles(s)[r] = {"model", "hidden", "aliases", "prompts", "tools"}
    BY DEF Roles, ReadRole
  <2>5. r \in DOMAIN s.roles => MergeRole(config.roles[r], Roles(s)[r]).prompts
                              = MergeFragments(config.roles[r].prompts, s.roles[r].prompts)
    BY <2>4 DEF MergeRole
  <2>6. r \in DOMAIN config.roles => IsFragments(config.roles[r].prompts)
    BY DEF RolesHaveFragments
  <2>7. CASE r \notin DOMAIN config.roles
    BY <2>2, <2>3, <2>4, <2>7
  <2>8. CASE r \notin DOMAIN s.roles
    BY <2>3, <2>6, <2>8
  <2>9. CASE r \in DOMAIN config.roles /\ r \in DOMAIN s.roles
    BY <2>2, <2>3, <2>5, <2>6, <2>9, MergedIsFragments
  <2> QED BY <2>7, <2>8, <2>9
<1>2. CASE LoadFails
  BY <1>2 DEF LoadFails, Nothing, RolesHaveFragments
<1>3. CASE LoadEnds \/ UNCHANGED cvars
  BY <1>3 DEF LoadEnds, cvars, RolesHaveFragments
<1> QED BY <1>1, <1>2, <1>3 DEF ConfigNext

\* Every finite set of fragments can be put in order.
Rank(x) == 4 * x.key.order + (IF x.from = "all" THEN 0 ELSE 2) + (IF x.key.tag = "all" THEN 0 ELSE 1)

LEMMA RankIsOrder ==
  ASSUME NEW a, a.key.order \in Nat, NEW b, b.key.order \in Nat
  PROVE  /\ Rank(a) \in Nat
         /\ Before(a, b) => Rank(a) < Rank(b)
         /\ b.key.order < a.key.order => Before(b, a)
<1>1. Before(a, b) => Rank(a) < Rank(b)
  BY DEF Before, Rank
<1>2. b.key.order < a.key.order => Before(b, a)
  BY DEF Before
<1> QED BY <1>1, <1>2 DEF Rank

InPromptOrder(s, parts) ==
    /\ s \in [1..Cardinality(parts) -> parts]
    /\ {s[i] : i \in DOMAIN s} = parts
    /\ \A i, j \in DOMAIN s : i < j => ~Before(s[j], s[i])

LEMMA FirstPart ==
  ASSUME NEW parts, \A x \in parts : x.key.order \in Nat, parts # {}
  PROVE  \E m \in parts : \A x \in parts : ~Before(x, m)
<1> DEFINE T == {Rank(x) : x \in parts}
<1>1. T \in SUBSET Nat /\ T # {}
  BY RankIsOrder
<1>2. Min(T) \in T /\ \A n \in T : Min(T) <= n
  <2> HIDE DEF T
  <2> QED BY <1>1, LeastOf
<1>3. PICK m \in parts : Min(T) = Rank(m)
  BY <1>2
<1>4. ASSUME NEW x \in parts, Before(x, m) PROVE FALSE
  <2>1. Rank(x) < Rank(m) /\ Rank(x) \in Nat /\ Rank(m) \in Nat
    BY <1>4, RankIsOrder
  <2>2. Rank(m) <= Rank(x)
    BY <1>2, <1>3
  <2> QED BY <2>1, <2>2
<1> QED BY <1>4

LEMMA SortedExists ==
  ASSUME NEW parts, IsFiniteSet(parts), \A x \in parts : x.key.order \in Nat
  PROVE  InPromptOrder(Sorted(parts), parts)
<1> DEFINE T == {n \in Nat : \A S \in SUBSET parts : Cardinality(S) = n => \E s : InPromptOrder(s, S)}
<1>0. \A S \in SUBSET parts : IsFiniteSet(S)
  BY FS_Subset
<1>1. 0 \in T
  <2> SUFFICES ASSUME NEW S \in SUBSET parts, Cardinality(S) = 0 PROVE \E s : InPromptOrder(s, S)
    OBVIOUS
  <2>1. S = {}
    BY <1>0, FS_EmptySet
  <2>2. <<>> \in [1..0 -> S] /\ DOMAIN <<>> = {}
    OBVIOUS
  <2>3. InPromptOrder(<<>>, S)
    BY <2>1, <2>2 DEF InPromptOrder
  <2> QED BY <2>3
<1>2. ASSUME NEW n \in Nat, n \in T PROVE n + 1 \in T
  <2> SUFFICES ASSUME NEW S \in SUBSET parts, Cardinality(S) = n + 1 PROVE \E s : InPromptOrder(s, S)
    OBVIOUS
  <2>1. S # {}
    BY FS_EmptySet
  <2>2. PICK m \in S : \A x \in S : ~Before(x, m)
    BY <2>1, FirstPart
  <2>3. S \ {m} \in SUBSET parts /\ Cardinality(S \ {m}) = n
    <3>1. IsFiniteSet(S) /\ m \in S
      BY <1>0, <2>1, <2>2
    <3>2. Cardinality(S \ {m}) = Cardinality(S) - 1
      BY <3>1, FS_RemoveElement
    <3> QED BY <3>2
  <2>4. PICK s : InPromptOrder(s, S \ {m})
    BY <1>2, <2>3
  <2>5. /\ s \in [1..n -> S \ {m}] /\ DOMAIN s = 1..n
        /\ {s[i] : i \in 1..n} = S \ {m}
        /\ \A i, j \in 1..n : i < j => ~Before(s[j], s[i])
    BY <2>3, <2>4 DEF InPromptOrder
  <2> DEFINE t == [i \in 1..n + 1 |-> IF i = 1 THEN m ELSE s[i - 1]]
  <2>6. \A i \in 1..n + 1 : i = 1 \/ i - 1 \in 1..n
    OBVIOUS
  <2>7. /\ t \in [1..n + 1 -> S] /\ DOMAIN t = 1..n + 1 /\ t[1] = m /\ 1 \in 1..n + 1
        /\ \A i \in 1..n + 1 : i = 1 \/ t[i] = s[i - 1]
        /\ \A i \in 1..n : t[i + 1] = s[i] /\ i + 1 \in 1..n + 1
    BY <2>5, <2>6
  <2> HIDE DEF t
  <2>8. {t[i] : i \in 1..n + 1} = S
    <3>1. ASSUME NEW x \in S PROVE \E i \in 1..n + 1 : t[i] = x
      <4>1. CASE x = m
        BY <2>7, <4>1
      <4>2. CASE x # m
        <5>1. PICK i \in 1..n : s[i] = x
          BY <2>5, <4>2
        <5> QED BY <2>7, <5>1
      <4> QED BY <4>1, <4>2
    <3> QED BY <2>7, <3>1
  <2>9. ASSUME NEW i \in 1..n + 1, NEW j \in 1..n + 1, i < j PROVE ~Before(t[j], t[i])
    <3>1. j # 1 /\ t[j] \in S
      BY <2>7, <2>9
    <3>2. CASE i = 1
      BY <2>2, <2>7, <3>1, <3>2
    <3>3. CASE i # 1
      <4>1. t[i] = s[i - 1] /\ t[j] = s[j - 1] /\ i - 1 \in 1..n /\ j - 1 \in 1..n /\ i - 1 < j - 1
        BY <2>6, <2>7, <2>9, <3>1, <3>3
      <4> QED BY <2>5, <4>1
    <3> QED BY <3>2, <3>3
  <2> QED BY <2>7, <2>8, <2>9 DEF InPromptOrder
<1> HIDE DEF T
<1>3. Nat \subseteq T
  BY <1>1, <1>2, InductionOnSets
<1>4. \E s : InPromptOrder(s, parts)
  BY <1>3, FS_CardinalityType DEF T
<1> QED BY <1>4 DEF Sorted, InPromptOrder

LEMMA WantedIs ==
  ASSUME NEW ps, IsFragments(ps)
  PROVE  /\ Wanted(ps) \subseteq DOMAIN ps /\ IsFiniteSet(Wanted(ps)) /\ Wanted(ps) \subseteq Fragments
         /\ \A qs : \A k \in Wanted(ps) : k \in DOMAIN qs => k \in Wanted(qs)
  BY FS_Subset DEF Wanted, IsFragments

LEMMA PromptIsComplete ==
  ASSUME RolesHaveFragments PROVE PromptComplete
<1> SUFFICES ASSUME NEW r \in DOMAIN config.roles, r # "all"
             PROVE  LET prompt == GetPrompt(config, r)
                        keys == {prompt[i].key : i \in 1..Len(prompt)}
                        all == IF "all" \in DOMAIN config.roles THEN config.roles["all"].prompts ELSE <<>>
                    IN /\ Len(prompt) = Cardinality(keys)
                       /\ keys = Wanted(all) \cup Wanted(config.roles[r].prompts)
                       /\ \A i \in 1..Len(prompt) :
                            /\ prompt[i].content = IF prompt[i].key \in DOMAIN config.roles[r].prompts
                                                   THEN config.roles[r].prompts[prompt[i].key]
                                                   ELSE all[prompt[i].key]
                            /\ i > 1 => prompt[i-1].key.order <= prompt[i].key.order
  BY DEF PromptComplete
<1> DEFINE ps == config.roles[r].prompts
           all == IF "all" \in DOMAIN config.roles THEN config.roles["all"].prompts ELSE <<>>
           own == Wanted(ps)
           shared == Wanted(all) \ own
           fromAll(k) == [key |-> k, from |-> "all", content |-> all[k]]
           ofRole(k) == [key |-> k, from |-> r, content |-> ps[k]]
           sharedParts == {[key |-> k, from |-> "all", content |-> all[k]] : k \in shared}
           ownParts == {[key |-> k, from |-> r, content |-> ps[k]] : k \in own}
           parts == sharedParts \cup ownParts
           prompt == GetPrompt(config, r)
<1>1. prompt = Sorted(parts)
  BY DEF GetPrompt, FilterDuplicates
<1>2. IsFragments(ps) /\ IsFragments(all)
  <2>1. IsFragments(<<>>)
    BY FS_EmptySet DEF IsFragments
  <2> QED BY <2>1 DEF RolesHaveFragments
<1> HIDE DEF all, ps, prompt
<1>3. /\ IsFiniteSet(own) /\ IsFiniteSet(shared) /\ own \subseteq Fragments /\ shared \subseteq Fragments
      /\ own \cap shared = {} /\ own \cup shared = Wanted(all) \cup own
      /\ own \subseteq DOMAIN ps /\ \A k \in shared : k \notin DOMAIN ps
  <2>1. IsFiniteSet(Wanted(all)) /\ IsFiniteSet(own) /\ Wanted(all) \subseteq Fragments
        /\ own \subseteq Fragments /\ own \subseteq DOMAIN ps
        /\ \A k \in Wanted(all) : k \in DOMAIN ps => k \in own
    BY <1>2, WantedIs
  <2>2. IsFiniteSet(shared)
    BY <2>1, FS_Subset
  <2> QED BY <2>1, <2>2
<1> DEFINE f == [k \in own \cup shared |-> IF k \in own THEN ofRole(k) ELSE fromAll(k)]
<1>4. /\ \A x \in parts : x.key \in own \cup shared /\ x = f[x.key]
      /\ \A k \in own \cup shared : f[k] \in parts /\ f[k].key = k
  <2> HIDE DEF own, shared
  <2>1. ASSUME NEW x \in sharedParts PROVE x.key \in own \cup shared /\ x = f[x.key]
    BY <1>3, <2>1
  <2>2. ASSUME NEW x \in ownParts PROVE x.key \in own \cup shared /\ x = f[x.key]
    BY <1>3, <2>2
  <2>3. ASSUME NEW k \in own \cup shared PROVE f[k] \in parts /\ f[k].key = k
    BY <1>3, <2>3
  <2> QED BY <2>1, <2>2, <2>3
<1>5. \A k \in own \cup shared : f[k].content = IF k \in DOMAIN ps THEN ps[k] ELSE all[k]
  <2> HIDE DEF own, shared
  <2> QED BY <1>3
<1> DEFINE K == own \cup shared
<1>6. /\ IsFiniteSet(K) /\ K \subseteq Fragments
  BY <1>3, FS_Union
<1> HIDE DEF f, own, shared, parts
<1>7. IsFiniteSet(parts) /\ Cardinality(parts) = Cardinality(K)
  <2>1. f \in Bijection(K, parts)
    <3>1. f \in [K -> parts]
      BY <1>4 DEF f
    <3>2. \A a, b \in K : f[a] = f[b] => a = b
      BY <1>4
    <3>3. \A x \in parts : \E k \in K : f[k] = x
      BY <1>4
    <3> QED BY <3>1, <3>2, <3>3 DEF Bijection, Injection, Surjection, IsInjective
  <2> QED BY <1>6, <2>1, FS_Bijection DEF ExistsBijection
<1>8. \A x \in parts : x.key.order \in Nat
  BY <1>4, <1>6 DEF Fragments
<1>9. InPromptOrder(prompt, parts)
  BY <1>1, <1>7, <1>8, SortedExists
<1>10. Cardinality(parts) \in Nat
  BY <1>7, FS_CardinalityType
<1>11. /\ Len(prompt) = Cardinality(parts) /\ DOMAIN prompt = 1..Len(prompt)
       /\ \A i \in 1..Len(prompt) : prompt[i] \in parts
       /\ \A x \in parts : \E i \in 1..Len(prompt) : prompt[i] = x
  BY <1>9, <1>10 DEF InPromptOrder
<1>12. {prompt[i].key : i \in 1..Len(prompt)} = K
  BY <1>4, <1>11
<1>13. \A i \in 1..Len(prompt) :
           prompt[i].content = IF prompt[i].key \in DOMAIN ps THEN ps[prompt[i].key] ELSE all[prompt[i].key]
  BY <1>4, <1>5, <1>11
<1>14. ASSUME NEW i \in 1..Len(prompt), i > 1
       PROVE  prompt[i - 1].key.order <= prompt[i].key.order
  <2>1. i - 1 \in 1..Len(prompt) /\ i - 1 < i /\ prompt[i - 1] \in parts /\ prompt[i] \in parts
    BY <1>10, <1>11, <1>14
  <2>2. ~Before(prompt[i], prompt[i - 1])
    BY <1>9, <1>11, <2>1 DEF InPromptOrder
  <2>3. prompt[i - 1].key.order \in Nat /\ prompt[i].key.order \in Nat
    BY <1>8, <2>1
  <2> QED BY <2>2, <2>3, RankIsOrder
<1>15. K = Wanted(all) \cup Wanted(ps)
  BY <1>3 DEF own
<1> QED BY <1>7, <1>11, <1>12, <1>13, <1>14, <1>15 DEF all, ps, prompt

\* However many sources a configuration has and whatever they hold: a parameter, and
\* each fragment of a role, is what the last source says that says something of it,
\* and a role's prompt has each fragment meant for the model once and in order, its
\* own before the shared one of that name (pkg/conf/merge.go, pkg/core/prompt.go).
THEOREM ConfigurationIsMerged == ConfigSpec => []ConfigurationMerged
<1>1. ConfigInit => LayersInv /\ RolesHaveFragments
  BY LayersBegin, FragmentsBegin
<1>2. LayersInv /\ RolesHaveFragments /\ [ConfigNext]_cvars => LayersInv' /\ RolesHaveFragments'
  BY LayersStep, FragmentsStay
<1>3. LayersInv /\ RolesHaveFragments => ConfigurationMerged
  BY SettledIsLast, PromptIsComplete DEF ConfigurationMerged
<1> QED BY <1>1, <1>2, <1>3, PTL DEF ConfigSpec

-----------------------------------------------------------------------------
(***************************************************************************)
(* Compaction of the conversation, for every number of messages and every  *)
(* way the compactor cuts it: a conversation stands for what was said in   *)
(* it (Stands), whatever the compactor regroups stands for the same, and   *)
(* what the verifier leaves has its calls and results paired.              *)
(***************************************************************************)

Messages == [kind : Kinds, covers : SUBSET Nat, call : Nat, text : BOOLEAN]

-----------------------------------------------------------------------------
(* The cuts of a history.                                                  *)

Cuts == SUBSET Seq(SUBSET Nat)

\* One unfolding of Chunks, over the cuts t of the shorter ranges.
CutOnce(t, r) ==
    LET mid == r[1] + (r[2] - r[1] + 1) \div 2
    IN  {<<r[1] .. r[2]>>} \cup
        (IF r[1] = r[2] THEN {}
         ELSE {h[1] \o h[2] : h \in t[<<r[1], mid - 1>>] \X t[<<mid, r[2]>>]})

\* The halves of a range are ranges, and shorter.
LEMMA Halves ==
    ASSUME NEW r \in Stretches, r[1] # r[2], NEW mid, mid = r[1] + (r[2] - r[1] + 1) \div 2
    PROVE  /\ <<r[1], mid - 1>> \in Stretches /\ <<mid, r[2]>> \in Stretches
           /\ mid \in Nat /\ r[1] < mid /\ mid <= r[2]
<1>1. r[1] \in 1 .. MaxAppended /\ r[2] \in 1 .. MaxAppended /\ r[1] < r[2] /\ MaxAppended \in Nat
  BY CompactionAssumption DEF Stretches
<1>2. mid \in Nat /\ r[1] < mid /\ mid <= r[2]
  BY <1>1
<1> QED
  BY <1>1, <1>2 DEF Stretches

\* CutOnce looks only at the halves.
LEMMA CutOnceAgrees ==
    ASSUME NEW t, NEW u, NEW r \in Stretches,
           \A q \in Stretches : q[2] - q[1] < r[2] - r[1] => t[q] = u[q]
    PROVE  CutOnce(t, r) = CutOnce(u, r)
<1> DEFINE mid == r[1] + (r[2] - r[1] + 1) \div 2
<1>1. CASE r[1] = r[2]
  BY <1>1 DEF CutOnce
<1>2. CASE r[1] # r[2]
  <2>1. /\ <<r[1], mid - 1>> \in Stretches /\ <<mid, r[2]>> \in Stretches
        /\ mid \in Nat /\ r[1] < mid /\ mid <= r[2] /\ r[1] \in Nat /\ r[2] \in Nat
    BY <1>2, Halves DEF Stretches
  <2> HIDE DEF mid
  <2>2. t[<<r[1], mid - 1>>] = u[<<r[1], mid - 1>>] /\ t[<<mid, r[2]>>] = u[<<mid, r[2]>>]
    BY <2>1
  <2> QED
    BY <2>2 DEF CutOnce, mid
<1> QED
  BY <1>1, <1>2

\* CutOnce makes cuts of cuts.
LEMMA CutOnceType ==
    ASSUME NEW t \in [Stretches -> Cuts], NEW r \in Stretches
    PROVE  CutOnce(t, r) \in Cuts
<1> DEFINE mid == r[1] + (r[2] - r[1] + 1) \div 2
<1> DEFINE L == t[<<r[1], mid - 1>>]
<1> DEFINE H == t[<<mid, r[2]>>]
<1>1. <<r[1] .. r[2]>> \in Seq(SUBSET Nat)
  <2>1. r[1] \in Nat /\ r[2] \in Nat
    BY DEF Stretches
  <2>2. r[1] .. r[2] \in SUBSET Nat
    BY <2>1
  <2> QED
    BY <2>2
<1>2. CASE r[1] = r[2]
  BY <1>1, <1>2 DEF CutOnce, Cuts
<1>3. CASE r[1] # r[2]
  <2>1. L \in Cuts /\ H \in Cuts
    BY <1>3, Halves
  <2>2. ASSUME NEW h \in L \X H PROVE h[1] \o h[2] \in Seq(SUBSET Nat)
    <3>1. h[1] \in Seq(SUBSET Nat) /\ h[2] \in Seq(SUBSET Nat)
      BY <2>1 DEF Cuts
    <3> QED
      BY <3>1, ConcatProperties
  <2>3. {h[1] \o h[2] : h \in L \X H} \in SUBSET Seq(SUBSET Nat)
    <3> HIDE DEF L, H
    <3> QED
      BY <2>2
  <2>4. {<<r[1] .. r[2]>>} \in SUBSET Seq(SUBSET Nat)
    BY <1>1
  <2>5. CutOnce(t, r) = {<<r[1] .. r[2]>>} \cup {h[1] \o h[2] : h \in L \X H}
    BY <1>3 DEF CutOnce
  <2> QED
    BY <2>3, <2>4, <2>5 DEF Cuts
<1> QED
  BY <1>2, <1>3

\* The recursion of Chunks is well-defined.
LEMMA ChunksUnfold ==
    DOMAIN Chunks = Stretches /\ \A r \in Stretches : Chunks[r] = CutOnce(Chunks, r)
<1> DEFINE M == MaxAppended
<1> DEFINE V == [Stretches -> Cuts]
<1> DEFINE cutAll == [at \in (1 .. M + 1) \X V |-> [r \in Stretches |-> CutOnce(at[2], r)]]
<1> DEFINE none == [r \in Stretches |-> {}]
<1>1. M \in Nat /\ M + 1 \in Nat
  BY CompactionAssumption
<1>2. none \in V
  BY DEF Cuts
<1>3. Stepping(cutAll, M + 1, V)
  <2>1. ASSUME NEW at \in (1 .. M + 1) \X V PROVE [r \in Stretches |-> CutOnce(at[2], r)] \in V
    <3>1. at[2] \in [Stretches -> Cuts]
      OBVIOUS
    <3> QED
      BY <3>1, CutOnceType
  <2> HIDE DEF V
  <2> QED
    BY <2>1 DEF Stepping
<1>4. PICK f : Steps(f, cutAll, none, M + 1, V)
  <2> HIDE DEF cutAll, none, V, M
  <2> QED
    BY <1>1, <1>2, <1>3, StepsExist
<1>5. ASSUME NEW i \in 1 .. M + 1 PROVE f[i] = [r \in Stretches |-> CutOnce(f[i - 1], r)]
  <2>1. f[i - 1] \in V /\ f[i] = cutAll[<<i, f[i - 1]>>]
    <3> HIDE DEF cutAll, V
    <3> QED
      BY <1>1, <1>4 DEF Steps
  <2>2. <<i, f[i - 1]>> \in (1 .. M + 1) \X V
    BY <2>1
  <2> HIDE DEF V
  <2> QED
    BY <2>1, <2>2
<1> HIDE DEF cutAll, none
<1> DEFINE T == {k \in Nat : k < M + 1 => \A r \in Stretches : r[2] - r[1] < k => f[k + 1][r] = f[k][r]}
<1>6. 0 \in T
  BY DEF Stretches
<1>7. ASSUME NEW k \in Nat, k \in T PROVE k + 1 \in T
  <2>1. SUFFICES ASSUME k + 1 < M + 1, NEW r \in Stretches, r[2] - r[1] < k + 1
                 PROVE  f[k + 2][r] = f[k + 1][r]
    BY DEF T
  <2>2. \A q \in Stretches : q[2] - q[1] < k => f[k + 1][q] = f[k][q]
    BY <1>7, <2>1, <1>1
  <2>3. \A q \in Stretches : q[2] - q[1] < r[2] - r[1] => f[k + 1][q] = f[k][q]
    BY <2>1, <2>2 DEF Stretches
  <2>4. CutOnce(f[k + 1], r) = CutOnce(f[k], r)
    <3> DEFINE t == f[k + 1]
    <3> DEFINE u == f[k]
    <3> HIDE DEF t, u
    <3>1. \A q \in Stretches : q[2] - q[1] < r[2] - r[1] => t[q] = u[q]
      BY <2>3 DEF t, u
    <3>2. CutOnce(t, r) = CutOnce(u, r)
      BY <3>1, CutOnceAgrees
    <3> QED
      BY <3>2 DEF t, u
  <2>5. k + 2 \in 1 .. M + 1 /\ k + 1 \in 1 .. M + 1 /\ (k + 2) - 1 = k + 1 /\ (k + 1) - 1 = k
    BY <1>1, <2>1
  <2>6. f[k + 2] = [q \in Stretches |-> CutOnce(f[k + 1], q)] /\ f[k + 1] = [q \in Stretches |-> CutOnce(f[k], q)]
    BY <1>5, <2>5
  <2> QED
    BY <2>4, <2>6
<1>8. M \in T
  <2> HIDE DEF T
  <2> QED
    BY <1>1, <1>6, <1>7, InductionOnSets
<1> DEFINE g == f[M]
<1> DEFINE Body(t) == [r \in Stretches |-> CutOnce(t, r)]
<1>9. g = Body(g)
  <2>1. \A r \in Stretches : f[M + 1][r] = f[M][r]
    <3>1. \A r \in Stretches : r[2] - r[1] < M
      BY <1>1 DEF Stretches
    <3> QED
      BY <1>1, <1>8, <3>1
  <2>2. M + 1 \in 1 .. M + 1 /\ (M + 1) - 1 = M
    BY <1>1
  <2>3. f[M + 1] = Body(g)
    BY <1>5, <2>2
  <2>4. g = [r \in Stretches |-> g[r]]
    <3>1. g \in V
      BY <1>1, <1>4 DEF Steps
    <3> QED
      BY <3>1
  <2>5. \A r \in Stretches : g[r] = Body(g)[r]
    BY <2>1, <2>3
  <2>6. Body(g) = [r \in Stretches |-> Body(g)[r]]
    OBVIOUS
  <2> HIDE DEF g, Body
  <2> QED
    BY <2>4, <2>5, <2>6
<1>10. Chunks = CHOOSE t : t = Body(t)
  BY DEF Chunks, CutOnce, Stretches
<1>11. Chunks = Body(Chunks)
  <2> HIDE DEF Body, g
  <2> QED
    BY <1>9, <1>10
<1> QED
  BY <1>11

\* c cuts the places a .. b: every one of them is in one chunk, and none is empty.
Partition(c, a, b) ==
    /\ c \in Seq(SUBSET Nat)
    /\ Len(c) <= b - a + 1
    /\ \A i \in DOMAIN c : c[i] \subseteq a .. b
    /\ \A i, j \in DOMAIN c : i # j => c[i] \cap c[j] = {}
    /\ \A k \in a .. b : \E i \in DOMAIN c : k \in c[i]

\* The cuts of two halves cut the whole.
LEMMA PartitionsJoin ==
    ASSUME NEW a \in Nat, NEW m \in Nat, NEW b \in Nat, a < m, m <= b,
           NEW x, NEW y, Partition(x, a, m - 1), Partition(y, m, b)
    PROVE  Partition(x \o y, a, b)
<1> DEFINE z == x \o y
<1>1. x \in Seq(SUBSET Nat) /\ y \in Seq(SUBSET Nat)
  BY DEF Partition
<1>2. /\ z \in Seq(SUBSET Nat) /\ Len(z) = Len(x) + Len(y)
      /\ \A i \in 1 .. Len(x) + Len(y) : z[i] = IF i <= Len(x) THEN x[i] ELSE y[i - Len(x)]
  BY <1>1, ConcatProperties
<1>3. /\ Len(x) \in Nat /\ Len(y) \in Nat /\ DOMAIN x = 1 .. Len(x) /\ DOMAIN y = 1 .. Len(y)
      /\ DOMAIN z = 1 .. Len(x) + Len(y)
  BY <1>1, <1>2, LenProperties
<1> HIDE DEF z
<1>4. ASSUME NEW i \in DOMAIN z
      PROVE  \/ i \in DOMAIN x /\ z[i] = x[i] /\ z[i] \subseteq a .. m - 1
             \/ i \notin DOMAIN x /\ i - Len(x) \in DOMAIN y /\ z[i] = y[i - Len(x)] /\ z[i] \subseteq m .. b
  <2>1. CASE i <= Len(x)
    <3>1. i \in DOMAIN x /\ z[i] = x[i]
      BY <2>1, <1>2, <1>3
    <3> QED
      BY <3>1 DEF Partition
  <2>2. CASE ~(i <= Len(x))
    <3>1. i \notin DOMAIN x /\ i - Len(x) \in DOMAIN y /\ z[i] = y[i - Len(x)]
      BY <2>2, <1>2, <1>3
    <3> QED
      BY <3>1 DEF Partition
  <2> QED
    BY <2>1, <2>2
<1>5. \A i \in DOMAIN z : z[i] \subseteq a .. b
  <2>1. a .. m - 1 \subseteq a .. b /\ m .. b \subseteq a .. b
    OBVIOUS
  <2> QED
    BY <1>4, <2>1
<1>6. ASSUME NEW i \in DOMAIN z, NEW j \in DOMAIN z, i # j PROVE z[i] \cap z[j] = {}
  <2>1. (a .. m - 1) \cap (m .. b) = {}
    OBVIOUS
  <2>2. CASE i \in DOMAIN x /\ j \in DOMAIN x
    <3>1. z[i] = x[i] /\ z[j] = x[j]
      BY <1>4, <2>2
    <3> QED
      BY <1>6, <2>2, <3>1 DEF Partition
  <2>3. CASE i \notin DOMAIN x /\ j \notin DOMAIN x
    <3>1. /\ i - Len(x) \in DOMAIN y /\ z[i] = y[i - Len(x)]
          /\ j - Len(x) \in DOMAIN y /\ z[j] = y[j - Len(x)]
      BY <1>4, <2>3
    <3>2. i - Len(x) # j - Len(x)
      BY <1>3, <1>6
    <3> QED
      BY <3>1, <3>2 DEF Partition
  <2>4. CASE i \in DOMAIN x /\ j \notin DOMAIN x
    <3>1. z[i] \subseteq a .. m - 1 /\ z[j] \subseteq m .. b
      BY <1>4, <2>4
    <3> QED
      BY <2>1, <3>1
  <2>5. CASE i \notin DOMAIN x /\ j \in DOMAIN x
    <3>1. z[j] \subseteq a .. m - 1 /\ z[i] \subseteq m .. b
      BY <1>4, <2>5
    <3> QED
      BY <2>1, <3>1
  <2> QED
    BY <2>2, <2>3, <2>4, <2>5
<1>7. ASSUME NEW k \in a .. b PROVE \E i \in DOMAIN z : k \in z[i]
  <2>1. CASE k < m
    <3>1. k \in a .. m - 1
      BY <2>1
    <3>2. PICK i \in DOMAIN x : k \in x[i]
      BY <3>1 DEF Partition
    <3>3. i \in DOMAIN z /\ z[i] = x[i]
      BY <1>2, <1>3
    <3> QED
      BY <3>2, <3>3
  <2>2. CASE ~(k < m)
    <3>1. k \in m .. b
      BY <2>2
    <3>2. PICK i \in DOMAIN y : k \in y[i]
      BY <3>1 DEF Partition
    <3>3. i + Len(x) \in DOMAIN z /\ (i + Len(x)) - Len(x) = i /\ ~(i + Len(x) <= Len(x))
      BY <1>3
    <3>4. z[i + Len(x)] = y[i]
      BY <1>2, <1>3, <3>3
    <3> QED
      BY <3>2, <3>3, <3>4
  <2> QED
    BY <2>1, <2>2
<1>8. Len(z) <= b - a + 1
  <2>1. Len(x) <= (m - 1) - a + 1 /\ Len(y) <= b - m + 1
    BY DEF Partition
  <2> QED
    BY <2>1, <1>2, <1>3
<1> QED
  BY <1>2, <1>5, <1>6, <1>7, <1>8 DEF Partition, z

\* However the history is cut, every message is in one chunk.
LEMMA ChunksPartition ==
    \A r \in Stretches : \A c \in Chunks[r] : Partition(c, r[1], r[2])
<1> DEFINE T == {n \in Nat : \A r \in Stretches : r[2] - r[1] < n =>
                                \A c \in Chunks[r] : Partition(c, r[1], r[2])}
<1>1. 0 \in T
  BY DEF Stretches
<1>2. ASSUME NEW n \in Nat, n \in T PROVE n + 1 \in T
  <2>1. SUFFICES ASSUME NEW r \in Stretches, r[2] - r[1] < n + 1, NEW c \in Chunks[r]
                 PROVE  Partition(c, r[1], r[2])
    BY DEF T
  <2>2. c \in CutOnce(Chunks, r)
    BY ChunksUnfold
  <2>3. r[1] \in Nat /\ r[2] \in Nat /\ r[1] <= r[2]
    BY DEF Stretches
  <2>4. CASE c = <<r[1] .. r[2]>>
    <3>1. DOMAIN c = {1} /\ Len(c) = 1 /\ c[1] = r[1] .. r[2]
      BY <2>4
    <3>2. r[1] .. r[2] \in SUBSET Nat
      BY <2>3
    <3>3. c \in Seq(SUBSET Nat)
      BY <2>4, <3>2
    <3>4. \A k \in r[1] .. r[2] : 1 \in DOMAIN c /\ k \in c[1]
      BY <3>1
    <3>5. Len(c) <= r[2] - r[1] + 1
      BY <2>3, <3>1
    <3>6. \A i \in DOMAIN c : i = 1
      BY <3>1
    <3>7. \A i \in DOMAIN c : c[i] \subseteq r[1] .. r[2]
      BY <3>1, <3>6
    <3> QED
      BY <3>3, <3>4, <3>5, <3>6, <3>7 DEF Partition
  <2>5. CASE c # <<r[1] .. r[2]>>
    <3> DEFINE mid == r[1] + (r[2] - r[1] + 1) \div 2
    <3>1. r[1] # r[2] /\ \E h \in Chunks[<<r[1], mid - 1>>] \X Chunks[<<mid, r[2]>>] : c = h[1] \o h[2]
      BY <2>2, <2>5 DEF CutOnce
    <3>2. /\ <<r[1], mid - 1>> \in Stretches /\ <<mid, r[2]>> \in Stretches
          /\ mid \in Nat /\ r[1] < mid /\ mid <= r[2]
      BY <3>1, Halves
    <3> HIDE DEF mid
    <3>3. PICK x \in Chunks[<<r[1], mid - 1>>], y \in Chunks[<<mid, r[2]>>] : c = x \o y
      BY <3>1
    <3>4. (mid - 1) - r[1] < n /\ r[2] - mid < n
      BY <2>1, <2>3, <3>2
    <3>5. Partition(x, r[1], mid - 1) /\ Partition(y, mid, r[2])
      <4>1. <<r[1], mid - 1>>[1] = r[1] /\ <<r[1], mid - 1>>[2] = mid - 1
            /\ <<mid, r[2]>>[1] = mid /\ <<mid, r[2]>>[2] = r[2]
        OBVIOUS
      <4>2. \A q \in Stretches : q[2] - q[1] < n => \A d \in Chunks[q] : Partition(d, q[1], q[2])
        BY <1>2
      <4>3. \A d \in Chunks[<<r[1], mid - 1>>] : Partition(d, r[1], mid - 1)
        BY <3>2, <3>4, <4>1, <4>2
      <4>4. \A d \in Chunks[<<mid, r[2]>>] : Partition(d, mid, r[2])
        BY <3>2, <3>4, <4>1, <4>2
      <4> QED
        BY <4>3, <4>4
    <3> QED
      BY <2>3, <3>2, <3>3, <3>5, PartitionsJoin
  <2> QED
    BY <2>4, <2>5
<1>3. Nat \subseteq T
  <2> HIDE DEF T
  <2> QED
    BY <1>1, <1>2, InductionOnSets
<1>4. ASSUME NEW r \in Stretches PROVE \A c \in Chunks[r] : Partition(c, r[1], r[2])
  <2>1. (r[2] - r[1]) + 1 \in Nat /\ r[2] - r[1] < (r[2] - r[1]) + 1
    BY DEF Stretches
  <2>2. (r[2] - r[1]) + 1 \in T
    BY <1>3, <2>1
  <2> QED
    BY <2>1, <2>2
<1> QED
  BY <1>4

-----------------------------------------------------------------------------
(* What a conversation stands for.                                         *)

\* A message of a conversation of n messages with the prompts P.
Entry(m, n, P) ==
    /\ m.covers \subseteq 1 .. n
    /\ m.kind \in {"calls", "results"} => m.covers \cap P = {} /\ m.call # NoCall

Apart(s) == \A i, j \in DOMAIN s : i # j => s[i].covers \cap s[j].covers = {}

Reaching(s, P) == \A at \in P : \E i \in DOMAIN s : at \in s[i].covers

InOrder(s) ==
    \A i, j \in DOMAIN s :
        i < j /\ s[i].kind = "prompt" /\ s[j].kind = "prompt"
        => \A a \in s[i].covers, b \in s[j].covers : a < b

\* s stands for n messages with the prompts P: none of them in two places, every
\* prompt in one, and the prompts that are not summarised in their order.
Stands(s, n, P) ==
    /\ s \in Seq(Messages)
    /\ \A i \in DOMAIN s : Entry(s[i], n, P)
    /\ Apart(s) /\ Reaching(s, P) /\ InOrder(s)

\* The messages of c stand each for those of h at the places o[i].
Regroups(o, c, h) ==
    /\ o \in [DOMAIN c -> SUBSET DOMAIN h]
    /\ \A i, j \in DOMAIN c : i # j => o[i] \cap o[j] = {}
    /\ \A k \in DOMAIN h : \E i \in DOMAIN c : k \in o[i]
    /\ \A i \in DOMAIN c :
          \/ c[i].kind = "summary" /\ c[i].covers = UNION {h[k].covers : k \in o[i]}
          \/ \E k \in DOMAIN h : o[i] = {k} /\ c[i] = h[k]
    /\ \A i, j \in DOMAIN c :
          i < j /\ c[i].kind = "prompt" /\ c[j].kind = "prompt"
          => \A k \in o[i], l \in o[j] : k < l

\* Regrouped, a conversation stands for the same.
LEMMA RegroupedStands ==
    ASSUME NEW n \in Nat, NEW P, NEW h, Stands(h, n, P),
           NEW c \in Seq(Messages), NEW o, Regroups(o, c, h)
    PROVE  Stands(c, n, P)
<1>1. /\ o \in [DOMAIN c -> SUBSET DOMAIN h]
      /\ \A i, j \in DOMAIN c : i # j => o[i] \cap o[j] = {}
      /\ \A k \in DOMAIN h : \E i \in DOMAIN c : k \in o[i]
  BY DEF Regroups
<1>2. ASSUME NEW i \in DOMAIN c
      PROVE  \/ c[i].kind = "summary" /\ c[i].covers = UNION {h[k].covers : k \in o[i]}
             \/ \E k \in DOMAIN h : o[i] = {k} /\ c[i] = h[k]
  BY <1>2 DEF Regroups
<1>3. \A k \in DOMAIN h : Entry(h[k], n, P)
  BY DEF Stands
<1>4. ASSUME NEW i \in DOMAIN c PROVE c[i].covers = UNION {h[k].covers : k \in o[i]}
  <2>1. CASE \E k \in DOMAIN h : o[i] = {k} /\ c[i] = h[k]
    BY <2>1
  <2> QED
    BY <1>2, <2>1
<1>5. ASSUME NEW i \in DOMAIN c, NEW a \in c[i].covers
      PROVE  \E k \in o[i] : k \in DOMAIN h /\ a \in h[k].covers
  BY <1>1, <1>4, <1>5
<1>6. ASSUME NEW i \in DOMAIN c PROVE Entry(c[i], n, P)
  <2>1. CASE \E k \in DOMAIN h : o[i] = {k} /\ c[i] = h[k]
    BY <1>3, <2>1
  <2>2. CASE c[i].kind = "summary"
    <3>1. \A a \in c[i].covers : a \in 1 .. n
      BY <1>3, <1>5 DEF Entry
    <3> QED
      BY <2>2, <3>1 DEF Entry
  <2> QED
    BY <1>2, <2>1, <2>2
<1>7. ASSUME NEW i \in DOMAIN c, NEW j \in DOMAIN c, i # j, NEW a \in c[i].covers, a \in c[j].covers
      PROVE  FALSE
  <2>1. PICK k \in o[i] : k \in DOMAIN h /\ a \in h[k].covers
    BY <1>5
  <2>2. PICK l \in o[j] : l \in DOMAIN h /\ a \in h[l].covers
    BY <1>5, <1>7
  <2>3. k # l
    BY <1>1, <1>7
  <2> QED
    BY <2>1, <2>2, <2>3 DEF Stands, Apart
<1>8. ASSUME NEW at \in P PROVE \E i \in DOMAIN c : at \in c[i].covers
  <2>1. PICK k \in DOMAIN h : at \in h[k].covers
    BY DEF Stands, Reaching
  <2>2. PICK i \in DOMAIN c : k \in o[i]
    BY <1>1
  <2> QED
    BY <1>4, <2>1, <2>2
<1>9. ASSUME NEW i \in DOMAIN c, NEW j \in DOMAIN c, i < j, c[i].kind = "prompt", c[j].kind = "prompt",
             NEW a \in c[i].covers, NEW b \in c[j].covers
      PROVE  a < b
  <2>1. PICK k \in DOMAIN h : o[i] = {k} /\ c[i] = h[k]
    BY <1>2, <1>9
  <2>2. PICK l \in DOMAIN h : o[j] = {l} /\ c[j] = h[l]
    BY <1>2, <1>9
  <2>3. k < l
    BY <1>9, <2>1, <2>2 DEF Regroups
  <2> QED
    BY <1>9, <2>1, <2>2, <2>3 DEF Stands, InOrder
<1>10. Apart(c)
  BY <1>7 DEF Apart
<1>11. Reaching(c, P)
  BY <1>8 DEF Reaching
<1>12. InOrder(c)
  BY <1>9 DEF InOrder
<1> QED
  BY <1>6, <1>10, <1>11, <1>12 DEF Stands

\* A further message stands for itself.
LEMMA AppendStands ==
    ASSUME NEW n \in Nat, NEW P \in SUBSET (1 .. n), NEW Q \in {P, P \cup {n + 1}},
           NEW s, Stands(s, n, P), NEW m \in Messages, m.covers = {n + 1},
           m.kind \in {"calls", "results"} => Q = P /\ m.call # NoCall,
           m.kind = "prompt" \/ Q = P
    PROVE  Stands(Append(s, m), n + 1, Q)
<1> DEFINE t == Append(s, m)
<1>1. s \in Seq(Messages)
  BY DEF Stands
<1>2. /\ t \in Seq(Messages) /\ Len(t) = Len(s) + 1 /\ t[Len(s) + 1] = m
      /\ \A i \in 1 .. Len(s) : t[i] = s[i]
      /\ DOMAIN s = 1 .. Len(s) /\ Len(s) \in Nat /\ DOMAIN t = 1 .. Len(s) + 1
  BY <1>1, AppendProperties, LenProperties
<1> HIDE DEF t
<1>3. ASSUME NEW i \in DOMAIN t
      PROVE  \/ i = Len(s) + 1 /\ t[i] = m
             \/ i \in DOMAIN s /\ t[i] = s[i] /\ Entry(s[i], n, P)
  <2>1. \A k \in DOMAIN s : Entry(s[k], n, P)
    BY DEF Stands
  <2>2. CASE i = Len(s) + 1
    <3>1. t[i] = m
      BY <1>2, <2>2
    <3> QED
      BY <2>2, <3>1
  <2>3. CASE i # Len(s) + 1
    <3>1. i \in DOMAIN s /\ t[i] = s[i]
      BY <1>2, <2>3
    <3> QED
      BY <2>1, <3>1
  <2> QED
    BY <2>2, <2>3
<1>4. ASSUME NEW i \in DOMAIN t PROVE Entry(t[i], n + 1, Q)
  <2>1. 1 .. n \subseteq 1 .. n + 1 /\ n + 1 \in 1 .. n + 1 /\ n + 1 \notin 1 .. n
    OBVIOUS
  <2>2. CASE t[i] = m
    <3>1. Q = P => n + 1 \notin Q
      BY <2>1
    <3> QED
      BY <2>1, <2>2, <3>1 DEF Entry
  <2>3. CASE t[i] = s[i] /\ Entry(s[i], n, P)
    <3>1. s[i].covers \subseteq 1 .. n
      BY <2>3 DEF Entry
    <3> QED
      BY <2>1, <2>3, <3>1 DEF Entry
  <2> QED
    BY <1>3, <2>2, <2>3
<1>5. \A i \in DOMAIN s : n + 1 \notin s[i].covers /\ \A a \in s[i].covers : a < n + 1
  BY <1>3 DEF Entry, Stands
<1>6. Apart(t)
  <2>1. ASSUME NEW i \in DOMAIN t, NEW j \in DOMAIN t, i # j PROVE t[i].covers \cap t[j].covers = {}
    <3>1. CASE i \in DOMAIN s /\ j \in DOMAIN s
      <4>1. t[i] = s[i] /\ t[j] = s[j]
        BY <1>2, <3>1
      <4> QED
        BY <2>1, <3>1, <4>1 DEF Stands, Apart
    <3>2. CASE i \notin DOMAIN s
      BY <1>3, <1>5, <2>1, <3>2
    <3>3. CASE j \notin DOMAIN s
      BY <1>3, <1>5, <2>1, <3>3
    <3> QED
      BY <3>1, <3>2, <3>3
  <2> QED
    BY <2>1 DEF Apart
<1>7. Reaching(t, Q)
  <2>1. ASSUME NEW at \in P PROVE \E i \in DOMAIN t : at \in t[i].covers
    <3>1. PICK i \in DOMAIN s : at \in s[i].covers
      BY DEF Stands, Reaching
    <3>2. i \in DOMAIN t /\ t[i] = s[i]
      BY <1>2
    <3> QED
      BY <3>1, <3>2
  <2>2. Len(s) + 1 \in DOMAIN t /\ n + 1 \in t[Len(s) + 1].covers
    BY <1>2
  <2> QED
    BY <2>1, <2>2 DEF Reaching
<1>8. InOrder(t)
  <2>1. ASSUME NEW i \in DOMAIN t, NEW j \in DOMAIN t, i < j, t[i].kind = "prompt", t[j].kind = "prompt",
               NEW a \in t[i].covers, NEW b \in t[j].covers
        PROVE  a < b
    <3>1. i \in DOMAIN s /\ t[i] = s[i]
      BY <1>2, <2>1
    <3>2. CASE j \in DOMAIN s
      <4>1. t[j] = s[j]
        BY <1>2, <3>2
      <4> QED
        BY <2>1, <3>1, <3>2, <4>1 DEF Stands, InOrder
    <3>3. CASE j \notin DOMAIN s
      <4>1. b = n + 1
        BY <1>3, <2>1, <3>3
      <4> QED
        BY <1>5, <2>1, <3>1, <4>1
    <3> QED
      BY <3>2, <3>3
  <2> QED
    BY <2>1 DEF InOrder
<1> QED
  BY <1>2, <1>4, <1>6, <1>7, <1>8 DEF Stands, t

-----------------------------------------------------------------------------
(* What the compactor returns.                                             *)

\* The place in the history of the i-th message left of those preserved from start
\* on when the f-th of them is moved to the front; f = 0: none is.
Place(i, start, f) == IF f # 0 /\ i >= f THEN start + i ELSE start - 1 + i

\* The places of what is left of n messages: in order, all but the one moved to the
\* front, if d = 1.
PlacesKept(start, n, d, f) ==
    /\ \A i \in 1 .. n - d :
          /\ Place(i, 1, f) \in 1 .. n /\ Place(i, start, f) \in Int
          /\ Place(i, start, f) = start - 1 + Place(i, 1, f)
          /\ f # 0 => Place(i, start, f) # start - 1 + f
          /\ i < f => Place(i, 1, f) = i
          /\ f # 0 /\ ~(i < f) => start - 1 + f < Place(i, start, f)
    /\ \A i, j \in 1 .. n - d : i < j => Place(i, start, f) < Place(j, start, f)
    /\ \A k \in start .. start - 1 + n :
          (f # 0 => k # start - 1 + f) => \E j \in 1 .. n - d : Place(j, start, f) = k

LEMMA PlacesInOrder ==
    ASSUME NEW start \in Nat, NEW n \in Nat, NEW d, NEW f,
           \/ f = 0 /\ d = 0
           \/ f \in 1 .. n /\ d = 1
    PROVE  PlacesKept(start, n, d, f)
<1>1. CASE f = 0
  <2>1. d = 0 /\ \A i \in 1 .. n : Place(i, 1, f) = i /\ Place(i, start, f) = start - 1 + i
    BY <1>1 DEF Place
  <2>2. \A k \in start .. start - 1 + n : k - start + 1 \in 1 .. n /\ start - 1 + (k - start + 1) = k
    OBVIOUS
  <2>3. ASSUME NEW k \in start .. start - 1 + n PROVE \E j \in 1 .. n - d : Place(j, start, f) = k
    <3>1. k - start + 1 \in 1 .. n - d /\ Place(k - start + 1, start, f) = k
      BY <2>1, <2>2
    <3> QED
      BY <3>1
  <2>4. ASSUME NEW i \in 1 .. n - d, NEW j \in 1 .. n - d, i < j PROVE Place(i, start, f) < Place(j, start, f)
    BY <2>1, <2>4
  <2>5. ASSUME NEW i \in 1 .. n - d
        PROVE  /\ Place(i, 1, f) \in 1 .. n /\ Place(i, start, f) \in Int
               /\ Place(i, start, f) = start - 1 + Place(i, 1, f)
    BY <2>1
  <2> QED
    BY <1>1, <2>1, <2>3, <2>4, <2>5 DEF PlacesKept
<1>2. CASE f # 0
  <2>1. d = 1 /\ f \in 1 .. n /\ f # 0
    BY <1>2
  <2>2. \A i \in 1 .. n - 1 : i < f => Place(i, 1, f) = i /\ Place(i, start, f) = start - 1 + i
    BY <2>1 DEF Place
  <2>3. \A i \in 1 .. n - 1 : ~(i < f) => Place(i, 1, f) = 1 + i /\ Place(i, start, f) = start + i
    BY <2>1 DEF Place
  <2>4. ASSUME NEW k \in start .. start - 1 + n, k # start - 1 + f
        PROVE  \E j \in 1 .. n - 1 : Place(j, start, f) = k
    <3>1. CASE k < start - 1 + f
      <4>1. k - start + 1 \in 1 .. n - 1 /\ k - start + 1 < f /\ start - 1 + (k - start + 1) = k
        BY <2>1, <3>1
      <4> QED
        BY <2>2, <4>1
    <3>2. CASE k > start - 1 + f
      <4>1. k - start \in 1 .. n - 1 /\ ~(k - start < f) /\ start + (k - start) = k
        BY <2>1, <3>2
      <4> QED
        BY <2>3, <4>1
    <3> QED
      BY <2>1, <2>4, <3>1, <3>2
  <2>5. ASSUME NEW i \in 1 .. n - 1
        PROVE  /\ Place(i, 1, f) \in 1 .. n /\ Place(i, start, f) \in Int
               /\ Place(i, start, f) = start - 1 + Place(i, 1, f)
               /\ Place(i, start, f) # start - 1 + f
               /\ ~(i < f) => start - 1 + f < Place(i, start, f)
    <3>1. CASE i < f
      BY <2>1, <2>2, <3>1
    <3>2. CASE ~(i < f)
      BY <2>1, <2>3, <3>2
    <3> QED
      BY <3>1, <3>2
  <2>6. ASSUME NEW i \in 1 .. n - 1, NEW j \in 1 .. n - 1, i < j
        PROVE  Place(i, start, f) < Place(j, start, f)
    <3>1. CASE i < f /\ j < f
      BY <2>1, <2>2, <2>6, <3>1
    <3>2. CASE i < f /\ ~(j < f)
      BY <2>1, <2>2, <2>3, <2>6, <3>2
    <3>3. CASE ~(i < f)
      <4>1. ~(j < f)
        BY <2>1, <2>6, <3>3
      <4> QED
        BY <2>1, <2>3, <2>6, <3>3, <4>1
    <3> QED
      BY <3>1, <3>2, <3>3
  <2> QED
    BY <2>1, <2>2, <2>4, <2>5, <2>6 DEF PlacesKept
<1> QED
  BY <1>1, <1>2

\* FirstUser returns the first message of a user, or 0 when there is none.
LEMMA FirstUserFirst ==
    ASSUME NEW s \in Seq(Messages)
    PROVE  LET f == FirstUser(s)
           IN  \/ f = 0 /\ \A i \in DOMAIN s : s[i].kind \notin UserKinds
               \/ f \in DOMAIN s /\ \A i \in DOMAIN s : i < f => s[i].kind \notin UserKinds
<1> DEFINE I == {i \in 1 .. Len(s) : s[i].kind \in UserKinds}
<1>1. FirstUser(s) = IF I # {} THEN Min(I) ELSE 0
  BY DEF FirstUser, SelectInSeq
<1>2. DOMAIN s = 1 .. Len(s) /\ Len(s) \in Nat /\ I \in SUBSET Nat
  BY LenProperties
<1>3. CASE I = {}
  BY <1>1, <1>2, <1>3
<1>4. CASE I # {}
  <2>1. Min(I) \in I /\ \A x \in I : Min(I) <= x
    BY <1>2, <1>4, LeastOf
  <2>2. FirstUser(s) = Min(I)
    BY <1>1, <1>4
  <2>3. ASSUME NEW i \in DOMAIN s, i < Min(I) PROVE i \notin I
    BY <1>2, <2>1, <2>3
  <2> QED
    BY <1>2, <2>1, <2>2, <2>3
<1> QED
  BY <1>3, <1>4

\* The messages of z, by their place: the one moved to the front, the summaries x, and
\* the preserved ones y without it.
Merged(z, x, y, f) ==
    LET d == IF f = 0 THEN 0 ELSE 1
    IN  /\ z \in Seq(Messages) /\ Len(z) = Len(x) + Len(y)
        /\ f # 0 => z[1] = y[f]
        /\ \A i \in DOMAIN x : z[d + i] = x[i]
        /\ \A i \in 1 .. Len(y) - d : z[d + Len(x) + i] = y[Place(i, 1, f)]

\* The merged history has them there.
LEMMA MergedAt ==
    ASSUME NEW x \in Seq(Messages), NEW y \in Seq(Messages)
    PROVE  Merged(MergeCompactedWithPreserved(x, y), x, y, FirstUser(y))
<1> DEFINE f == FirstUser(y)
<1> DEFINE z == MergeCompactedWithPreserved(x, y)
<1>0. f = FirstUser(y) /\ z = MergeCompactedWithPreserved(x, y)
  OBVIOUS
<1> SUFFICES Merged(z, x, y, f)
  OBVIOUS
<1> HIDE DEF f, z
<1>1. Len(x) \in Nat /\ Len(y) \in Nat /\ DOMAIN x = 1 .. Len(x) /\ DOMAIN y = 1 .. Len(y)
  BY LenProperties
<1>2. CASE f = 0
  <2>1. z = x \o y
    BY <1>0, <1>2 DEF MergeCompactedWithPreserved
  <2>2. /\ z \in Seq(Messages) /\ Len(z) = Len(x) + Len(y)
        /\ \A i \in 1 .. Len(x) + Len(y) : z[i] = IF i <= Len(x) THEN x[i] ELSE y[i - Len(x)]
    BY <2>1, ConcatProperties
  <2>3. \A i \in DOMAIN x : z[0 + i] = x[i]
    BY <1>1, <2>2
  <2>4. \A i \in 1 .. Len(y) - 0 : z[0 + Len(x) + i] = y[i]
    <3>1. ASSUME NEW i \in 1 .. Len(y) PROVE z[Len(x) + i] = y[i]
      <4>1. Len(x) + i \in 1 .. Len(x) + Len(y) /\ ~(Len(x) + i <= Len(x)) /\ (Len(x) + i) - Len(x) = i
        BY <1>1
      <4> QED
        BY <2>2, <4>1
    <3> QED
      BY <1>1, <3>1
  <2>5. \A i \in 1 .. Len(y) : Place(i, 1, f) = i
    BY <1>1, <1>2 DEF Place
  <2> QED
    BY <1>1, <1>2, <2>2, <2>3, <2>4, <2>5 DEF Merged
<1>3. CASE f # 0
  <2>1. f \in 1 .. Len(y)
    BY <1>0, <1>1, <1>3, FirstUserFirst
  <2> DEFINE front == SubSeq(y, 1, f - 1)
  <2> DEFINE back == SubSeq(y, f + 1, Len(y))
  <2> DEFINE head == <<y[f]>> \o x
  <2> DEFINE rest == front \o back
  <2>2. z = head \o rest
    BY <1>0, <1>3 DEF MergeCompactedWithPreserved, RemoveAt
  <2>3. y[f] \in Messages
    BY <2>1, ElementOfSeq
  <2>4. /\ front \in Seq(Messages) /\ Len(front) = f - 1
        /\ \A i \in 1 .. f - 1 : front[i] = y[i]
    <3>1. 1 .. f - 1 \subseteq 1 .. Len(y)
      BY <1>1, <2>1
    <3> QED
      BY <1>1, <2>1, <3>1, ElementOfSeq
  <2>5. /\ back \in Seq(Messages) /\ Len(back) = Len(y) - f
        /\ \A i \in 1 .. Len(y) - f : back[i] = y[f + i]
    <3>1. \A i \in f + 1 .. Len(y) : y[i] \in Messages
      BY <1>1, <2>1, ElementOfSeq
    <3>2. f + 1 \in Int /\ Len(y) \in Int
      BY <1>1, <2>1
    <3>3. /\ back \in Seq(Messages)
          /\ Len(back) = IF f + 1 <= Len(y) THEN Len(y) - (f + 1) + 1 ELSE 0
          /\ \A i \in 1 .. Len(y) - (f + 1) + 1 : back[i] = y[(f + 1) + i - 1]
      BY <3>1, <3>2, SubSeqProperties
    <3>4. /\ Len(y) - (f + 1) + 1 = Len(y) - f /\ 1 .. Len(y) - (f + 1) + 1 = 1 .. Len(y) - f
          /\ \A i \in 1 .. Len(y) - f : (f + 1) + i - 1 = f + i
      BY <1>1, <2>1
    <3> HIDE DEF back
    <3>5. Len(back) = Len(y) - f
      <4>1. Len(back) = IF f + 1 <= Len(y) THEN Len(y) - (f + 1) + 1 ELSE 0
        BY <3>3
      <4>2. f \in Int /\ Len(y) \in Int /\ f <= Len(y)
        BY <1>1, <2>1
      <4> QED
        BY <4>1, <4>2
    <3>6. ASSUME NEW i \in 1 .. Len(y) - f PROVE back[i] = y[f + i]
      BY <3>3, <3>4
    <3> QED
      BY <3>3, <3>5, <3>6
  <2> HIDE DEF front, back
  <2>6. /\ rest \in Seq(Messages) /\ Len(rest) = Len(y) - 1
        /\ \A i \in 1 .. Len(y) - 1 : rest[i] = y[Place(i, 1, f)]
    <3>1. /\ rest \in Seq(Messages) /\ Len(rest) = Len(front) + Len(back)
          /\ \A i \in 1 .. Len(front) + Len(back) :
                rest[i] = IF i <= Len(front) THEN front[i] ELSE back[i - Len(front)]
      BY <2>4, <2>5, ConcatProperties
    <3>2. Len(front) + Len(back) = Len(y) - 1
      BY <1>1, <2>1, <2>4, <2>5
    <3> HIDE DEF rest
    <3>3. ASSUME NEW i \in 1 .. Len(y) - 1 PROVE rest[i] = y[Place(i, 1, f)]
      <4>1. CASE i < f
        <5>1. rest[i] = front[i] /\ front[i] = y[i]
          BY <1>1, <2>1, <2>4, <3>1, <3>2, <4>1
        <5>2. Place(i, 1, f) = i
          BY <1>1, <2>1, <4>1 DEF Place
        <5> QED
          BY <5>1, <5>2
      <4>2. CASE ~(i < f)
        <5>1. ~(i <= Len(front)) /\ i - Len(front) \in 1 .. Len(y) - f /\ f + (i - Len(front)) = i + 1
          BY <1>1, <2>1, <2>4, <4>2
        <5>2. rest[i] = back[i - Len(front)] /\ back[i - Len(front)] = y[f + (i - Len(front))]
          BY <2>5, <3>1, <3>2, <5>1
        <5>3. Place(i, 1, f) = i + 1
          BY <1>1, <1>3, <2>1, <4>2 DEF Place
        <5> QED
          BY <5>1, <5>2, <5>3
      <4> QED
        BY <4>1, <4>2
    <3> QED
      BY <3>1, <3>2, <3>3
  <2>7. /\ head \in Seq(Messages) /\ Len(head) = 1 + Len(x) /\ head[1] = y[f]
        /\ \A i \in 1 .. Len(x) : head[1 + i] = x[i]
    <3> DEFINE one == <<y[f]>>
    <3>1. one \in Seq(Messages) /\ Len(one) = 1 /\ one[1] = y[f]
      BY <2>3
    <3> HIDE DEF one
    <3>0. /\ one \o x \in Seq(Messages) /\ Len(one \o x) = Len(one) + Len(x)
          /\ \A i \in 1 .. Len(one) + Len(x) :
                (one \o x)[i] = IF i <= Len(one) THEN one[i] ELSE x[i - Len(one)]
      <4>1. one \in Seq(Messages)
        BY <3>1
      <4> QED
        BY <4>1, ConcatProperties
    <3>2. /\ one \o x \in Seq(Messages) /\ Len(one \o x) = 1 + Len(x)
          /\ \A i \in 1 .. 1 + Len(x) : (one \o x)[i] = IF i <= 1 THEN one[i] ELSE x[i - 1]
      BY <3>0, <3>1
    <3>3. (one \o x)[1] = one[1]
      BY <1>1, <3>2
    <3>4. \A i \in 1 .. Len(x) : 1 + i \in 1 .. 1 + Len(x) /\ ~(1 + i <= 1) /\ (1 + i) - 1 = i
      BY <1>1
    <3>5. \A i \in 1 .. Len(x) : (one \o x)[1 + i] = x[i]
      BY <3>2, <3>4
    <3> QED
      BY <3>1, <3>2, <3>3, <3>5 DEF one
  <2> HIDE DEF head, rest
  <2>8. /\ z \in Seq(Messages) /\ Len(z) = Len(head) + Len(rest)
        /\ \A i \in 1 .. Len(head) + Len(rest) : z[i] = IF i <= Len(head) THEN head[i] ELSE rest[i - Len(head)]
    <3>1. head \in Seq(Messages) /\ rest \in Seq(Messages)
      BY <2>6, <2>7
    <3> QED
      BY <2>2, <3>1, ConcatProperties
  <2>9. Len(z) = Len(x) + Len(y) /\ z[1] = y[f]
    <3>1. 1 \in 1 .. Len(head) + Len(rest) /\ 1 <= Len(head) /\ Len(head) + Len(rest) = Len(x) + Len(y)
      BY <1>1, <2>1, <2>6, <2>7
    <3> QED
      BY <2>7, <2>8, <3>1
  <2>10. ASSUME NEW i \in 1 .. Len(x) PROVE z[1 + i] = x[i]
    <3>1. 1 + i \in 1 .. Len(head) + Len(rest) /\ 1 + i <= Len(head)
      BY <1>1, <2>1, <2>6, <2>7
    <3> QED
      BY <2>7, <2>8, <3>1
  <2>11. ASSUME NEW i \in 1 .. Len(y) - 1 PROVE z[1 + Len(x) + i] = y[Place(i, 1, f)]
    <3>1. /\ 1 + Len(x) + i \in 1 .. Len(head) + Len(rest) /\ ~(1 + Len(x) + i <= Len(head))
          /\ (1 + Len(x) + i) - Len(head) = i
      BY <1>1, <2>1, <2>6, <2>7
    <3> QED
      BY <2>6, <2>8, <3>1
  <2> QED
    BY <1>1, <1>3, <2>8, <2>9, <2>10, <2>11 DEF Merged
<1> QED
  BY <1>2, <1>3

\* What is merged regroups the history.
LEMMA MergeRegroups ==
    ASSUME NEW h \in Seq(Messages), NEW start \in 2 .. Len(h),
           NEW cs, Partition(cs, 1, start - 1),
           NEW c, c = MergeCompactedWithPreserved(Summaries(SubSeq(h, 1, start - 1), cs),
                                                  SubSeq(h, start, Len(h)))
    PROVE  /\ c \in Seq(Messages) /\ Len(c) <= Len(h)
           /\ \E o : Regroups(o, c, h)
<1> DEFINE old == SubSeq(h, 1, start - 1)
<1> DEFINE x == Summaries(old, cs)
<1> DEFINE y == SubSeq(h, start, Len(h))
<1> DEFINE f == FirstUser(y)
<1> DEFINE d == IF f = 0 THEN 0 ELSE 1
<1>1. Len(h) \in Nat /\ DOMAIN h = 1 .. Len(h) /\ \A i \in 1 .. Len(h) : h[i] \in Messages
  BY LenProperties, ElementOfSeq
<1>2. old \in Seq(Messages) /\ Len(old) = start - 1 /\ \A i \in 1 .. start - 1 : old[i] = h[i]
  <2>1. 1 .. start - 1 \subseteq 1 .. Len(h)
    BY <1>1
  <2> QED
    BY <1>1, <2>1
<1>3. /\ y \in Seq(Messages) /\ Len(y) = Len(h) - start + 1 /\ DOMAIN y = 1 .. Len(h) - start + 1
      /\ \A i \in 1 .. Len(h) - start + 1 : y[i] = h[start - 1 + i]
  <2>1. \A i \in start .. Len(h) : h[i] \in Messages
    BY <1>1
  <2> QED
    BY <1>1, <2>1
<1>4. /\ cs \in Seq(SUBSET Nat) /\ DOMAIN cs = 1 .. Len(cs) /\ Len(cs) \in Nat /\ Len(cs) <= start - 1
      /\ \A i \in DOMAIN cs : cs[i] \subseteq 1 .. start - 1
      /\ \A i, j \in DOMAIN cs : i # j => cs[i] \cap cs[j] = {}
      /\ \A k \in 1 .. start - 1 : \E i \in DOMAIN cs : k \in cs[i]
  <2>1. Len(cs) <= (start - 1) - 1 + 1
    BY DEF Partition
  <2>2. cs \in Seq(SUBSET Nat)
    BY DEF Partition
  <2>3. DOMAIN cs = 1 .. Len(cs) /\ Len(cs) \in Nat
    BY <2>2, LenProperties
  <2> QED
    BY <2>1, <2>2, <2>3 DEF Partition
<1> HIDE DEF old, y
<1>5. /\ x \in Seq(Messages) /\ Len(x) = Len(cs) /\ DOMAIN x = DOMAIN cs
      /\ \A i \in DOMAIN cs : x[i].kind = "summary" /\ x[i].covers = UNION {h[k].covers : k \in cs[i]}
  <2> DEFINE e(i) == [kind |-> "summary", covers |-> UNION {old[k].covers : k \in cs[i]},
                      call |-> NoCall, text |-> TRUE]
  <2>1. x = [i \in DOMAIN cs |-> e(i)]
    BY DEF Summaries
  <2>2. ASSUME NEW i \in DOMAIN cs
        PROVE  UNION {old[k].covers : k \in cs[i]} = UNION {h[k].covers : k \in cs[i]}
    <3>1. \A k \in cs[i] : old[k] = h[k]
      BY <1>2, <1>4
    <3> QED
      BY <3>1
  <2>3. ASSUME NEW i \in DOMAIN cs PROVE e(i) \in Messages
    <3>1. \A k \in cs[i] : h[k] \in Messages
      BY <1>1, <1>4
    <3>2. \A k \in cs[i] : h[k].covers \subseteq Nat
      BY <3>1 DEF Messages
    <3>3. UNION {h[k].covers : k \in cs[i]} \in SUBSET Nat
      BY <3>2
    <3>4. "summary" \in Kinds /\ NoCall \in Nat /\ TRUE \in BOOLEAN
      BY DEF Kinds, UserKinds, NoCall
    <3> QED
      BY <2>2, <3>3, <3>4 DEF Messages
  <2>4. x = [i \in 1 .. Len(cs) |-> e(i)] /\ \A i \in 1 .. Len(cs) : e(i) \in Messages
    BY <1>4, <2>1, <2>3
  <2>5. x \in Seq(Messages) /\ Len(x) = Len(cs)
    <3> HIDE DEF e, x
    <3> QED
      BY <1>4, <2>4
  <2>6. \A i \in DOMAIN cs : x[i] = e(i)
    BY <2>1
  <2>7. DOMAIN x = DOMAIN cs
    BY <2>1
  <2>8. \A i \in DOMAIN cs : e(i).kind = "summary" /\ e(i).covers = UNION {old[k].covers : k \in cs[i]}
    OBVIOUS
  <2> HIDE DEF x, e
  <2> QED
    BY <2>2, <2>5, <2>6, <2>7, <2>8
<1> HIDE DEF x
<1>6. /\ c \in Seq(Messages) /\ Len(c) = Len(x) + Len(y)
      /\ f # 0 => c[1] = y[f]
      /\ \A i \in DOMAIN x : c[d + i] = x[i]
      /\ \A i \in 1 .. Len(y) - d : c[d + Len(x) + i] = y[Place(i, 1, f)]
  <2>1. c = MergeCompactedWithPreserved(x, y)
    BY DEF x, y, old
  <2>2. Merged(c, x, y, FirstUser(y))
    <3>1. x \in Seq(Messages) /\ y \in Seq(Messages)
      BY <1>3, <1>5
    <3> QED
      BY <2>1, <3>1, MergedAt
  <2>3. f = FirstUser(y)
    OBVIOUS
  <2> HIDE DEF f
  <2> QED
    BY <2>2, <2>3 DEF Merged
<1>7. \/ f = 0
      \/ f \in 1 .. Len(h) - start + 1 /\ \A i \in DOMAIN y : i < f => y[i].kind \notin UserKinds
  BY <1>3, FirstUserFirst
<1> HIDE DEF f
<1> DEFINE M == Len(cs)
<1> DEFINE N == Len(h) - start + 1
<1>8. M \in Nat /\ N \in Nat /\ N >= 1 /\ start \in Nat /\ start >= 2 /\ Len(c) = M + N /\ DOMAIN c = 1 .. M + N
  BY <1>1, <1>3, <1>4, <1>5, <1>6, LenProperties
<1>9. \/ f = 0 /\ d = 0
      \/ f \in 1 .. N /\ d = 1
  BY <1>7, <1>8
\* The places of the i-th message of c.
<1> DEFINE o == [i \in DOMAIN c |-> IF i <= d THEN {start - 1 + f} ELSE IF i - d <= M THEN cs[i - d]
                                    ELSE {Place(i - d - M, start, f)}]
<1> HIDE DEF d, M, N
<1> DEFINE Left == 1 .. N - d
<1>p. /\ \A i \in Left :
            /\ Place(i, 1, f) \in 1 .. N /\ Place(i, start, f) \in Int
            /\ Place(i, start, f) = start - 1 + Place(i, 1, f)
            /\ f # 0 => Place(i, start, f) # start - 1 + f
            /\ i < f => Place(i, 1, f) = i
            /\ f # 0 /\ ~(i < f) => start - 1 + f < Place(i, start, f)
      /\ \A i, j \in Left : i < j => Place(i, start, f) < Place(j, start, f)
      /\ \A k \in start .. start - 1 + N :
            (f # 0 => k # start - 1 + f) => \E j \in Left : Place(j, start, f) = k
  <2>1. start \in Nat /\ N \in Nat
    BY <1>8
  <2>2. PlacesKept(start, N, d, f)
    BY <1>9, <2>1, PlacesInOrder
  <2> QED
    BY <2>2 DEF PlacesKept
<1>10. ASSUME NEW i \in DOMAIN c
       PROVE  \/ i <= d /\ d = 1 /\ i = 1
              \/ ~(i <= d) /\ i - d \in 1 .. M
              \/ ~(i <= d) /\ ~(i - d <= M) /\ i - d - M \in 1 .. N - d
  BY <1>8, <1>9
\* The three parts of c: where they come from and what they are.
<1>11. ASSUME NEW i \in DOMAIN c, i <= d
       PROVE  /\ o[i] = {start - 1 + f} /\ start - 1 + f \in start .. Len(h) /\ f \in 1 .. N
              /\ c[i] = h[start - 1 + f] /\ c[i] = y[f]
  <2>1. d = 1 /\ i = 1 /\ f \in 1 .. N /\ f # 0
    BY <1>8, <1>9, <1>10, <1>11
  <2>2. c[i] = y[f] /\ y[f] = h[start - 1 + f]
    BY <1>3, <1>6, <2>1 DEF N
  <2>3. start - 1 + f \in start .. Len(h)
    BY <1>1, <1>8, <2>1 DEF N
  <2>4. o[i] = {start - 1 + f}
    BY <1>11
  <2> QED
    BY <2>1, <2>2, <2>3, <2>4
<1>12. ASSUME NEW i \in DOMAIN c, ~(i <= d), i - d <= M
       PROVE  /\ i - d \in DOMAIN cs /\ o[i] = cs[i - d] /\ o[i] \subseteq 1 .. start - 1
              /\ c[i].kind = "summary" /\ c[i].covers = UNION {h[k].covers : k \in o[i]}
  <2>1. i - d \in DOMAIN cs /\ i = d + (i - d)
    BY <1>4, <1>8, <1>9, <1>10, <1>12 DEF M
  <2>2. o[i] = cs[i - d]
    BY <1>12
  <2>3. c[i] = x[i - d]
    BY <1>5, <1>6, <2>1
  <2> QED
    BY <1>4, <1>5, <2>1, <2>2, <2>3
<1>13. ASSUME NEW i \in DOMAIN c, ~(i <= d), ~(i - d <= M)
       PROVE  /\ i - d - M \in 1 .. N - d
              /\ o[i] = {Place(i - d - M, start, f)} /\ Place(i - d - M, start, f) \in start .. Len(h)
              /\ c[i] = h[Place(i - d - M, start, f)]
  <2> DEFINE j == i - d - M
  <2>1. j \in 1 .. N - d /\ i = d + M + j
    BY <1>8, <1>9, <1>10, <1>13
  <2>2. o[i] = {Place(j, start, f)}
    BY <1>13
  <2>3. c[i] = y[Place(j, 1, f)]
    BY <1>3, <1>5, <1>6, <2>1 DEF M, N
  <2> HIDE DEF j
  <2>4. Place(j, 1, f) \in 1 .. N /\ start - 1 + Place(j, 1, f) = Place(j, start, f)
    BY <1>p, <2>1
  <2>5. c[i] = h[Place(j, start, f)]
    BY <1>3, <2>3, <2>4 DEF N
  <2>6. Place(j, start, f) \in start .. Len(h)
    BY <1>1, <1>8, <2>4 DEF N
  <2> QED
    BY <2>1, <2>2, <2>5, <2>6 DEF j
<1>14. DOMAIN o = DOMAIN c
  OBVIOUS
<1> HIDE DEF o
<1>15. o \in [DOMAIN c -> SUBSET DOMAIN h]
  <2>1. ASSUME NEW i \in DOMAIN c PROVE o[i] \subseteq DOMAIN h
    <3>1. start .. Len(h) \subseteq DOMAIN h /\ 1 .. start - 1 \subseteq DOMAIN h
      BY <1>1, <1>8
    <3>2. CASE i <= d
      BY <1>11, <3>1, <3>2
    <3>3. CASE ~(i <= d) /\ i - d <= M
      BY <1>12, <3>1, <3>3
    <3>4. CASE ~(i <= d) /\ ~(i - d <= M)
      BY <1>13, <3>1, <3>4
    <3> QED
      BY <3>2, <3>3, <3>4
  <2>2. o = [i \in DOMAIN c |-> o[i]]
    BY DEF o
  <2> QED
    BY <2>1, <2>2
<1>16. ASSUME NEW i \in DOMAIN c, NEW j \in DOMAIN c, i < j, NEW k \in o[i], k \in o[j]
       PROVE  FALSE
  <2>0. i \in Nat /\ j \in Nat /\ d \in Nat /\ M \in Nat
    BY <1>8, <1>9
  <2>1. (1 .. start - 1) \cap (start .. Len(h)) = {}
    BY <1>1, <1>8
  <2>2. CASE i <= d /\ j <= d
    BY <1>10, <1>16, <2>0, <2>2
  <2>3. CASE i <= d /\ ~(j <= d) /\ j - d <= M
    BY <1>11, <1>12, <1>16, <2>1, <2>3
  <2>4. CASE i <= d /\ ~(j <= d) /\ ~(j - d <= M)
    <3>1. k = start - 1 + f /\ k = Place(j - d - M, start, f) /\ f \in 1 .. N /\ j - d - M \in 1 .. N - d
      BY <1>11, <1>13, <1>16, <2>4
    <3>2. f # 0
      BY <1>8, <3>1
    <3> QED
      BY <1>p, <3>1, <3>2
  <2>5. CASE ~(i <= d) /\ i - d <= M /\ ~(j <= d) /\ j - d <= M
    <3>1. i - d # j - d
      BY <1>16, <2>0
    <3> QED
      BY <1>4, <1>12, <1>16, <2>5, <3>1
  <2>6. CASE ~(i <= d) /\ i - d <= M /\ ~(j <= d) /\ ~(j - d <= M)
    BY <1>12, <1>13, <1>16, <2>1, <2>6
  <2>7. CASE ~(i <= d) /\ ~(i - d <= M) /\ ~(j <= d) /\ ~(j - d <= M)
    <3>1. /\ k = Place(i - d - M, start, f) /\ k = Place(j - d - M, start, f)
          /\ i - d - M \in 1 .. N - d /\ j - d - M \in 1 .. N - d
      BY <1>13, <1>16, <2>7
    <3>2. i - d - M < j - d - M
      BY <1>16, <2>0
    <3>3. Place(i - d - M, start, f) < Place(j - d - M, start, f) /\ Place(j - d - M, start, f) \in Int
      BY <1>p, <3>1, <3>2
    <3> QED
      BY <3>1, <3>3
  <2>8. i <= d \/ ~(j <= d)
    BY <1>16, <2>0
  <2>9. i - d <= M \/ ~(j - d <= M)
    BY <1>16, <2>0
  <2> QED
    BY <2>2, <2>3, <2>4, <2>5, <2>6, <2>7, <2>8, <2>9
<1>17. ASSUME NEW i \in DOMAIN c, NEW j \in DOMAIN c, i # j PROVE o[i] \cap o[j] = {}
  <2>1. i < j \/ j < i
    BY <1>8, <1>17
  <2> QED
    BY <1>16, <2>1
<1>18. ASSUME NEW k \in DOMAIN h PROVE \E i \in DOMAIN c : k \in o[i]
  <2>1. CASE k < start
    <3>1. k \in 1 .. start - 1
      BY <1>1, <1>8, <2>1
    <3>2. PICK i \in DOMAIN cs : k \in cs[i]
      BY <1>4, <3>1
    <3>0. i \in 1 .. M
      BY <1>4 DEF M
    <3>3. i + d \in DOMAIN c /\ ~(i + d <= d) /\ (i + d) - d = i /\ (i + d) - d <= M
      BY <3>0, <1>8, <1>9
    <3>4. o[i + d] = cs[i]
      BY <1>12, <3>3
    <3> QED
      BY <3>2, <3>3, <3>4
  <2>2. CASE k = start - 1 + f /\ f # 0
    <3>1. 1 \in DOMAIN c /\ 1 <= d
      BY <1>8, <1>9, <2>2
    <3> QED
      BY <1>11, <2>2, <3>1
  <2>3. CASE ~(k < start) /\ ~(k = start - 1 + f /\ f # 0)
    <3>0. k \in start .. start - 1 + N
      BY <1>1, <1>8, <2>3 DEF N
    <3>1. PICK j \in 1 .. N - d : Place(j, start, f) = k
      BY <1>p, <2>3, <3>0
    <3>2. j + d + M \in DOMAIN c /\ ~(j + d + M <= d) /\ ~((j + d + M) - d <= M) /\ (j + d + M) - d - M = j
      BY <1>8, <1>9, <3>1
    <3>3. o[j + d + M] = {k}
      BY <1>13, <3>1, <3>2
    <3> QED
      BY <3>2, <3>3
  <2> QED
    BY <2>1, <2>2, <2>3
<1>19. ASSUME NEW i \in DOMAIN c
       PROVE  \/ c[i].kind = "summary" /\ c[i].covers = UNION {h[k].covers : k \in o[i]}
              \/ \E k \in DOMAIN h : o[i] = {k} /\ c[i] = h[k]
  <2>1. start .. Len(h) \subseteq DOMAIN h
    BY <1>1, <1>8
  <2>2. CASE i <= d
    BY <1>11, <2>1, <2>2
  <2>3. CASE ~(i <= d) /\ i - d <= M
    BY <1>12, <2>3
  <2>4. CASE ~(i <= d) /\ ~(i - d <= M)
    BY <1>13, <2>1, <2>4
  <2> QED
    BY <2>2, <2>3, <2>4
<1>20. ASSUME NEW i \in DOMAIN c, NEW j \in DOMAIN c, i < j, c[i].kind = "prompt", c[j].kind = "prompt",
              NEW k \in o[i], NEW l \in o[j]
       PROVE  k < l
  <2>0. i \in Nat /\ j \in Nat /\ d \in Nat /\ M \in Nat /\ N \in Nat
    BY <1>8, <1>9
  <2>1. "prompt" # "summary" /\ "prompt" \in UserKinds
    BY DEF UserKinds
  <2>2. ~(j <= d)
    <3>1. j <= d => j = 1
      BY <1>10
    <3> QED
      BY <1>8, <1>20, <2>0, <3>1
  <2>3. ~(j - d <= M) /\ ~(~(i <= d) /\ i - d <= M)
    BY <1>12, <1>20, <2>1, <2>2
  <2>4. l = Place(j - d - M, start, f) /\ j - d - M \in 1 .. N - d /\ c[j] = h[l]
    BY <1>13, <1>20, <2>2, <2>3
  <2>5. CASE i <= d
    <3>1. k = start - 1 + f /\ f \in 1 .. N
      BY <1>11, <1>20, <2>5
    <3>2. ~(j - d - M < f)
      <4>1. SUFFICES ASSUME j - d - M < f PROVE FALSE
        OBVIOUS
      <4>2. l = start - 1 + (j - d - M) /\ j - d - M \in 1 .. N
        BY <1>p, <2>4, <4>1
      <4>3. c[j] = y[j - d - M] /\ j - d - M \in DOMAIN y
        BY <1>3, <2>4, <4>2 DEF N
      <4> QED
        BY <1>7, <1>8, <1>20, <2>1, <3>1, <4>1, <4>2, <4>3
    <3>3. f # 0
      BY <1>8, <3>1
    <3> QED
      BY <1>p, <2>4, <3>1, <3>2, <3>3
  <2>6. CASE ~(i <= d)
    <3>1. k = Place(i - d - M, start, f) /\ i - d - M \in 1 .. N - d
      BY <1>13, <1>20, <2>3, <2>6
    <3>2. i - d - M < j - d - M
      BY <1>20, <2>0
    <3> QED
      BY <1>p, <2>4, <3>1, <3>2
  <2> QED
    BY <2>5, <2>6
<1>21. Regroups(o, c, h)
  BY <1>15, <1>17, <1>18, <1>19, <1>20 DEF Regroups
<1>22. Len(c) <= Len(h)
  BY <1>1, <1>4, <1>8 DEF M, N
<1> QED
  BY <1>6, <1>21, <1>22

\* What is preserved begins within the history.
LEMMA PreserveStartWithin ==
    ASSUME NEW h \in Seq(Messages), Len(h) >= 1
    PROVE  PreserveStart(h) \in 1 .. Len(h)
<1> DEFINE tails == {i \in Counted(h) : Cardinality({j \in Counted(h) : j >= i}) = Keep}
<1> DEFINE start == CHOOSE i \in tails : TRUE
<1>1. PreserveStart(h) = IF tails = {} THEN 1
                         ELSE IF start > 1 /\ h[start - 1].kind = "calls" THEN start - 1
                         ELSE start
  BY DEF PreserveStart
<1>2. tails \subseteq 1 .. Len(h) /\ Len(h) \in Nat
  BY LenProperties DEF Counted
<1>3. CASE tails = {}
  BY <1>1, <1>2, <1>3
<1>4. CASE tails # {}
  <2>1. start \in 1 .. Len(h)
    BY <1>2, <1>4
  <2> HIDE DEF start
  <2> QED
    BY <1>1, <1>2, <1>4, <2>1
<1> QED
  BY <1>3, <1>4

\* Whatever the compactor returns stands for what the history stands for, and is not
\* longer.
LEMMA KimiStands ==
    ASSUME NEW n \in 0 .. MaxAppended, NEW P, NEW h, Stands(h, n, P), Len(h) >= 1, Len(h) <= n,
           NEW c \in KimiCompactions(h)
    PROVE  Stands(c, n, P) /\ Len(c) <= Len(h)
<1> DEFINE start == PreserveStart(h)
<1>1. h \in Seq(Messages) /\ Len(h) \in Nat /\ n \in Nat
  BY LenProperties, CompactionAssumption DEF Stands
<1>2. start \in 1 .. Len(h)
  BY <1>1, PreserveStartWithin
<1>3. CASE c = h
  BY <1>1, <1>3
<1>4. CASE c # h
  <2>1. start # 1 /\ \E cs \in Chunks[<<1, start - 1>>] :
            c = MergeCompactedWithPreserved(Summaries(SubSeq(h, 1, start - 1), cs),
                                            SubSeq(h, start, Len(h)))
    BY <1>4 DEF KimiCompactions
  <2> HIDE DEF start
  <2>2. PICK cs \in Chunks[<<1, start - 1>>] :
            c = MergeCompactedWithPreserved(Summaries(SubSeq(h, 1, start - 1), cs),
                                            SubSeq(h, start, Len(h)))
    BY <2>1
  <2>3. start \in 2 .. Len(h) /\ <<1, start - 1>> \in Stretches
    BY <1>1, <1>2, <2>1, CompactionAssumption DEF Stretches
  <2>4. Partition(cs, <<1, start - 1>>[1], <<1, start - 1>>[2])
    BY <2>2, <2>3, ChunksPartition
  <2>5. Partition(cs, 1, start - 1)
    BY <2>4
  <2>6. c \in Seq(Messages) /\ Len(c) <= Len(h) /\ \E o : Regroups(o, c, h)
    BY <1>1, <2>2, <2>3, <2>5, MergeRegroups
  <2>7. PICK o : Regroups(o, c, h)
    BY <2>6
  <2> QED
    BY <1>1, <2>6, <2>7, RegroupedStands
<1> QED
  BY <1>3, <1>4

-----------------------------------------------------------------------------
(* What the verifier leaves.                                               *)

\* The calls and results of a conversation, by their places.
LEMMA CallsAt ==
    ASSUME NEW s, NEW x
    PROVE  /\ x \in CallIDs(s) <=> x # NoCall /\ \E i \in DOMAIN s : s[i].kind = "calls" /\ s[i].call = x
           /\ x \in ResponseIDs(s) <=> \E i \in DOMAIN s : s[i].kind = "results" /\ s[i].call = x
  BY DEF CallIDs, ResponseIDs, ToSet

\* Cleaned(v, s): v is s without what nothing answers or nothing asked for.
Cleaned(v, s, e) ==
    /\ v \in Seq(Messages) /\ Len(v) <= Len(s)
    /\ e \in [DOMAIN v -> DOMAIN s]
    /\ \A i, j \in DOMAIN v : i < j => e[i] < e[j]
    /\ \A k \in DOMAIN s : ~Unmatched(s[k], s) => \E i \in DOMAIN v : e[i] = k
    /\ \A i \in DOMAIN v :
          v[i] = IF Unmatched(s[e[i]], s) THEN [s[e[i]] EXCEPT !.kind = "reply", !.call = NoCall]
                 ELSE s[e[i]]

LEMMA ValidateCleans ==
    ASSUME NEW s \in Seq(Messages)
    PROVE  \E e : Cleaned(ValidateCompactedMessages(s), s, e)
<1> DEFINE K == {i \in DOMAIN s : ~Unmatched(s[i], s) \/ s[i].text}
<1> DEFINE r == Kept(s, K)
<1> DEFINE v == ValidateCompactedMessages(s)
<1> DEFINE w(i) == IF Unmatched(r[i], s) THEN [r[i] EXCEPT !.kind = "reply", !.call = NoCall] ELSE r[i]
<1>1. v = [i \in DOMAIN r |-> w(i)]
  BY DEF ValidateCompactedMessages, KeptIf
<1>2. r \in Seq(Messages) /\ Len(r) <= Len(s) /\ \E e : Places(e, r, s, K)
  BY KeptPlaces
<1>3. PICK e : Places(e, r, s, K)
  BY <1>2
<1> HIDE DEF r
<1>4. DOMAIN r = 1 .. Len(r) /\ Len(r) \in Nat /\ \A i \in 1 .. Len(r) : r[i] \in Messages
  BY <1>2, LenProperties, ElementOfSeq
<1>5. \A i \in 1 .. Len(r) : w(i) \in Messages
  <2>1. ASSUME NEW i \in 1 .. Len(r) PROVE [r[i] EXCEPT !.kind = "reply", !.call = NoCall] \in Messages
    BY <1>4 DEF Messages, Kinds, AssistantKinds, NoCall
  <2> QED
    BY <1>4, <2>1
<1>6. v \in Seq(Messages) /\ Len(v) = Len(r) /\ DOMAIN v = 1 .. Len(r) /\ \A i \in 1 .. Len(r) : v[i] = w(i)
  <2>1. v = [i \in 1 .. Len(r) |-> w(i)]
    BY <1>1, <1>4
  <2> HIDE DEF v, w
  <2> QED
    BY <1>4, <1>5, <2>1
<1> HIDE DEF v
<1>7. e \in [1 .. Len(r) -> DOMAIN s] /\ \A i \in 1 .. Len(r) : r[i] = s[e[i]]
  BY <1>3 DEF Places
<1>8. \A i \in 1 .. Len(r) :
          v[i] = IF Unmatched(s[e[i]], s) THEN [s[e[i]] EXCEPT !.kind = "reply", !.call = NoCall]
                 ELSE s[e[i]]
  BY <1>6, <1>7
<1>9. \A k \in DOMAIN s : ~Unmatched(s[k], s) => \E i \in 1 .. Len(r) : e[i] = k
  BY <1>3 DEF Places
<1>10. \A i, j \in 1 .. Len(r) : i < j => e[i] < e[j]
  BY <1>3 DEF Places
<1>11. Cleaned(v, s, e)
  BY <1>2, <1>6, <1>7, <1>8, <1>9, <1>10 DEF Cleaned
<1> QED
  BY <1>11 DEF v

\* It stands for the same, is not longer, and has its calls and results paired.
LEMMA ValidatedStands ==
    ASSUME NEW n \in Nat, NEW P, NEW s, Stands(s, n, P)
    PROVE  LET v == ValidateCompactedMessages(s)
           IN  Stands(v, n, P) /\ Len(v) <= Len(s) /\ CallIDs(v) = ResponseIDs(v)
<1> DEFINE v == ValidateCompactedMessages(s)
<1>1. s \in Seq(Messages) /\ DOMAIN s \subseteq Nat
  <2>1. s \in Seq(Messages)
    BY DEF Stands
  <2> QED
    BY <2>1, LenProperties
<1>2. PICK e : Cleaned(v, s, e)
  BY <1>1, ValidateCleans
<1> HIDE DEF v
<1>3. /\ v \in Seq(Messages) /\ Len(v) <= Len(s) /\ e \in [DOMAIN v -> DOMAIN s]
      /\ \A i, j \in DOMAIN v : i < j => e[i] < e[j]
      /\ \A k \in DOMAIN s : ~Unmatched(s[k], s) => \E i \in DOMAIN v : e[i] = k
  BY <1>2 DEF Cleaned
<1>4. ASSUME NEW i \in DOMAIN v
      PROVE  /\ e[i] \in DOMAIN s /\ s[e[i]] \in Messages
             /\ v[i].covers = s[e[i]].covers
             /\ \/ ~Unmatched(s[e[i]], s) /\ v[i] = s[e[i]]
                \/ Unmatched(s[e[i]], s) /\ v[i].kind = "reply"
  <2>1. e[i] \in DOMAIN s /\ s[e[i]] \in Messages
    BY <1>1, <1>3, ElementOfSeq, LenProperties
  <2>2. v[i] = IF Unmatched(s[e[i]], s) THEN [s[e[i]] EXCEPT !.kind = "reply", !.call = NoCall] ELSE s[e[i]]
    BY <1>2 DEF Cleaned
  <2> DEFINE m == s[e[i]]
  <2>3. [m EXCEPT !.kind = "reply", !.call = NoCall].covers = m.covers
        /\ [m EXCEPT !.kind = "reply", !.call = NoCall].kind = "reply"
    BY <2>1 DEF Messages
  <2> QED
    BY <2>1, <2>2, <2>3
<1>5. \A i \in DOMAIN v : Entry(v[i], n, P)
  <2>1. \A k \in DOMAIN s : Entry(s[k], n, P)
    BY DEF Stands
  <2> QED
    BY <1>4, <2>1 DEF Entry
<1>6. DOMAIN v \subseteq Nat
  BY <1>3, LenProperties
<1>7. Apart(v)
  <2>1. ASSUME NEW i \in DOMAIN v, NEW j \in DOMAIN v, i # j PROVE v[i].covers \cap v[j].covers = {}
    <3>1. i < j \/ j < i
      BY <1>6, <2>1
    <3>2. e[i] # e[j]
      BY <1>1, <1>3, <1>4, <3>1
    <3> QED
      BY <1>4, <3>2 DEF Stands, Apart
  <2> QED
    BY <2>1 DEF Apart
<1>8. Reaching(v, P)
  <2>1. ASSUME NEW at \in P PROVE \E i \in DOMAIN v : at \in v[i].covers
    <3>1. PICK k \in DOMAIN s : at \in s[k].covers
      BY DEF Stands, Reaching
    <3>2. s[k].kind \notin {"calls", "results"}
      BY <3>1 DEF Stands, Entry
    <3>3. ~Unmatched(s[k], s)
      BY <3>2 DEF Unmatched
    <3>4. PICK i \in DOMAIN v : e[i] = k
      BY <1>3, <3>3
    <3> QED
      BY <1>4, <3>1, <3>4
  <2> QED
    BY <2>1 DEF Reaching
<1>9. InOrder(v)
  <2>1. ASSUME NEW i \in DOMAIN v, NEW j \in DOMAIN v, i < j, v[i].kind = "prompt", v[j].kind = "prompt",
               NEW a \in v[i].covers, NEW b \in v[j].covers
        PROVE  a < b
    <3>1. v[i] = s[e[i]] /\ v[j] = s[e[j]] /\ e[i] \in DOMAIN s /\ e[j] \in DOMAIN s /\ e[i] < e[j]
      BY <1>3, <1>4, <2>1
    <3> QED
      BY <2>1, <3>1 DEF Stands, InOrder
  <2> QED
    BY <2>1 DEF InOrder
<1>10. ASSUME NEW x, x \in CallIDs(v) PROVE x \in ResponseIDs(v)
  <2>1. PICK i \in DOMAIN v : v[i].kind = "calls" /\ v[i].call = x
    BY <1>10, CallsAt
  <2>2. v[i] = s[e[i]] /\ ~Unmatched(s[e[i]], s) /\ e[i] \in DOMAIN s
    BY <1>4, <2>1
  <2>3. x \in ResponseIDs(s) /\ x \in CallIDs(s)
    <3>1. x \in ResponseIDs(s)
      BY <2>1, <2>2 DEF Unmatched
    <3>2. x # NoCall
      BY <1>10, CallsAt
    <3> QED
      BY <2>1, <2>2, <3>1, <3>2, CallsAt
  <2>4. PICK k \in DOMAIN s : s[k].kind = "results" /\ s[k].call = x
    BY <2>3, CallsAt
  <2>5. ~Unmatched(s[k], s)
    BY <2>3, <2>4 DEF Unmatched
  <2>6. PICK j \in DOMAIN v : e[j] = k
    BY <1>3, <2>5
  <2>7. v[j] = s[k]
    BY <1>4, <2>5, <2>6
  <2> QED
    BY <2>4, <2>7, CallsAt
<1>11. ASSUME NEW x, x \in ResponseIDs(v) PROVE x \in CallIDs(v)
  <2>1. PICK i \in DOMAIN v : v[i].kind = "results" /\ v[i].call = x
    BY <1>11, CallsAt
  <2>2. v[i] = s[e[i]] /\ ~Unmatched(s[e[i]], s) /\ e[i] \in DOMAIN s
    BY <1>4, <2>1
  <2>3. x \in CallIDs(s) /\ x \in ResponseIDs(s)
    <3>1. x \in CallIDs(s)
      BY <2>1, <2>2 DEF Unmatched
    <3> QED
      BY <2>1, <2>2, <3>1, CallsAt
  <2>4. PICK k \in DOMAIN s : s[k].kind = "calls" /\ s[k].call = x
    BY <2>3, CallsAt
  <2>5. ~Unmatched(s[k], s)
    BY <2>3, <2>4 DEF Unmatched
  <2>6. PICK j \in DOMAIN v : e[j] = k
    BY <1>3, <2>5
  <2>7. v[j] = s[k] /\ x # NoCall
    BY <1>4, <2>3, <2>5, <2>6, CallsAt
  <2> QED
    BY <2>4, <2>7, CallsAt
<1>12. CallIDs(v) = ResponseIDs(v)
  BY <1>10, <1>11
<1> QED
  BY <1>3, <1>5, <1>7, <1>8, <1>9, <1>12 DEF Stands, v

\* What a further message adds to them.
LEMMA CallsAppended ==
    ASSUME NEW s \in Seq(Messages), NEW m \in Messages
    PROVE  /\ CallIDs(Append(s, m))
                 = CallIDs(s) \cup (IF m.kind = "calls" /\ m.call # NoCall THEN {m.call} ELSE {})
           /\ ResponseIDs(Append(s, m)) = ResponseIDs(s) \cup (IF m.kind = "results" THEN {m.call} ELSE {})
<1> DEFINE t == Append(s, m)
<1>1. /\ DOMAIN t = DOMAIN s \cup {Len(s) + 1} /\ t[Len(s) + 1] = m
      /\ \A i \in DOMAIN s : t[i] = s[i]
  <2>1. /\ DOMAIN s = 1 .. Len(s) /\ Len(s) \in Nat /\ t \in Seq(Messages) /\ Len(t) = Len(s) + 1
        /\ t[Len(s) + 1] = m /\ \A i \in 1 .. Len(s) : t[i] = s[i]
    BY AppendProperties, LenProperties
  <2> HIDE DEF t
  <2>2. DOMAIN t = 1 .. Len(s) + 1
    BY <2>1, LenProperties
  <2> QED
    BY <2>1, <2>2
<1> HIDE DEF t
<1>2. ASSUME NEW x
      PROVE  x \in CallIDs(t) <=> x \in CallIDs(s) \/ (m.kind = "calls" /\ m.call # NoCall /\ x = m.call)
  BY <1>1, CallsAt
<1>3. ASSUME NEW x
      PROVE  x \in ResponseIDs(t) <=> x \in ResponseIDs(s) \/ (m.kind = "results" /\ x = m.call)
  BY <1>1, CallsAt
<1> QED
  BY <1>2, <1>3 DEF t

-----------------------------------------------------------------------------
(* The invariant.                                                          *)

TypeOK ==
    /\ messages \in Seq(Messages) /\ stage \in {"open", "asking"}
    /\ appended \in 2 .. MaxAppended /\ prompts \in SUBSET (1 .. appended) /\ prompts # {}

\* Every id has its result and every result its id, but for the id that is
\* about to be executed.
Paired ==
    CallIDs(messages) =
        ResponseIDs(messages) \cup
            (IF stage = "open" /\ PendingCalls THEN {Last(messages).call} ELSE {})

IInv ==
    /\ TypeOK /\ Paired
    /\ Stands(messages, appended, prompts)
    /\ Len(messages) >= 1 /\ Len(messages) <= appended

\* A conversation that stands for prompts is not empty.
LEMMA NotEmpty ==
    ASSUME NEW s, NEW n, NEW P, P # {}, Stands(s, n, P)
    PROVE  Len(s) >= 1
<1>1. PICK i \in DOMAIN s : TRUE
  BY DEF Stands, Reaching
<1>2. s \in Seq(Messages)
  BY DEF Stands
<1> QED
  BY <1>1, <1>2, LenProperties

LEMMA InitInv == Init => IInv
<1> SUFFICES ASSUME Init PROVE IInv
  OBVIOUS
<1> DEFINE a == Message("system", 1, NoCall, TRUE)
<1> DEFINE b == Message("prompt", 2, NoCall, TRUE)
<1>1. a \in Messages /\ b \in Messages /\ a.kind = "system" /\ b.kind = "prompt" /\ a.covers = {1} /\ b.covers = {2}
  BY DEF Message, Messages, Kinds, UserKinds, NoCall
<1> HIDE DEF a, b
<1>2. messages = <<a, b>> /\ stage = "open" /\ appended = 2 /\ prompts = {2}
  BY DEF Init, a, b
<1>3. messages \in Seq(Messages) /\ Len(messages) = 2 /\ DOMAIN messages = {1, 2}
      /\ messages[1] = a /\ messages[2] = b
  BY <1>1, <1>2
<1>4. TypeOK
  BY <1>2, <1>3, CompactionAssumption DEF TypeOK
<1>5. Paired
  <2>1. CallIDs(messages) = {}
    BY <1>1, <1>3, CallsAt
  <2>2. ResponseIDs(messages) = {}
    BY <1>1, <1>3, CallsAt
  <2>3. ~PendingCalls
    BY <1>1, <1>3 DEF PendingCalls, Last
  <2> QED
    BY <2>1, <2>2, <2>3 DEF Paired
<1>6. \A i \in DOMAIN messages : Entry(messages[i], 2, {2})
  BY <1>1, <1>3 DEF Entry
<1>7. Apart(messages) /\ Reaching(messages, {2})
  BY <1>1, <1>3 DEF Apart, Reaching
<1>8. InOrder(messages)
  BY <1>1, <1>3 DEF InOrder
<1> QED
  BY <1>2, <1>3, <1>4, <1>5, <1>6, <1>7, <1>8 DEF IInv, Stands

\* What compactContext makes of the conversation.
LEMMA CompactKeeps ==
    ASSUME IInv, CompactContext
    PROVE  /\ Stands(messages', appended, prompts)
           /\ Len(messages') >= 1 /\ Len(messages') <= Len(messages)
           /\ CallIDs(messages') = ResponseIDs(messages')
<1>1. PICK c \in KimiCompactions(messages) : messages' = ValidateCompactedMessages(c)
  BY DEF CompactContext
<1>2. appended \in 0 .. MaxAppended /\ appended \in Nat
  BY CompactionAssumption DEF IInv, TypeOK
<1>3. Stands(c, appended, prompts) /\ Len(c) <= Len(messages)
  BY <1>1, <1>2, KimiStands DEF IInv
<1>4. /\ Stands(messages', appended, prompts) /\ Len(messages') <= Len(c)
      /\ CallIDs(messages') = ResponseIDs(messages')
  BY <1>1, <1>2, <1>3, ValidatedStands
<1>5. Len(messages') >= 1
  BY <1>4, NotEmpty DEF IInv, TypeOK
<1>6. Len(messages') \in Nat /\ Len(c) \in Nat /\ Len(messages) \in Nat
  BY <1>3, <1>4, LenProperties DEF Stands, IInv
<1> QED
  BY <1>3, <1>4, <1>5, <1>6

\* What appending a message keeps.
LEMMA AppendKeeps ==
    ASSUME IInv, NEW kind \in Kinds, NEW id \in Nat, NEW text \in BOOLEAN,
           AppendMessage(kind, id, text),
           prompts' = prompts \/ (kind = "prompt" /\ prompts' = prompts \cup {appended'}),
           kind \in {"calls", "results"} => id # NoCall
    PROVE  /\ appended' = appended + 1 /\ appended' \in 2 .. MaxAppended
           /\ messages' = Append(messages, Message(kind, appended + 1, id, text))
           /\ Message(kind, appended + 1, id, text) \in Messages
           /\ Stands(messages', appended', prompts')
           /\ prompts' \in SUBSET (1 .. appended') /\ prompts' # {}
           /\ Len(messages') >= 1 /\ Len(messages') <= appended' /\ Last(messages').kind = kind
           /\ Last(messages').call = id
<1> DEFINE m == Message(kind, appended + 1, id, text)
<1>1. /\ appended < MaxAppended /\ messages' = Append(messages, m) /\ appended' = appended + 1
      /\ appended \in Nat /\ appended' \in 2 .. MaxAppended
  BY CompactionAssumption DEF AppendMessage, IInv, TypeOK
<1>2. m \in Messages /\ m.covers = {appended + 1} /\ m.kind = kind /\ m.call = id
  BY <1>1 DEF Message, Messages
<1> HIDE DEF m
<1>3. messages \in Seq(Messages) /\ Stands(messages, appended, prompts) /\ prompts \in SUBSET (1 .. appended)
      /\ prompts # {} /\ Len(messages) <= appended
  BY DEF IInv, TypeOK
<1>4. prompts' \in {prompts, prompts \cup {appended + 1}}
  BY <1>1
<1>5. kind \in {"calls", "results"} => prompts' = prompts
  OBVIOUS
<1>6. Stands(Append(messages, m), appended + 1, prompts')
  BY <1>1, <1>2, <1>3, <1>4, <1>5, AppendStands
<1>7. Len(messages') = Len(messages) + 1 /\ messages'[Len(messages) + 1] = m /\ Len(messages) \in Nat
  BY <1>1, <1>2, <1>3, AppendProperties, LenProperties
<1>8. Last(messages') = m
  BY <1>7 DEF Last
<1>9. prompts' \in SUBSET (1 .. appended') /\ prompts' # {}
  BY <1>1, <1>3, <1>4
<1> QED
  BY <1>1, <1>2, <1>3, <1>6, <1>7, <1>8, <1>9 DEF m

\* Two messages at once are one after the other.
LEMMA TwoAppended ==
    ASSUME NEW s \in Seq(Messages), NEW m \in Messages, NEW b \in Messages
    PROVE  s \o <<m, b>> = Append(Append(s, m), b)
<1>1. Append(s, m) \in Seq(Messages) /\ <<m>> \in Seq(Messages) /\ <<b>> \in Seq(Messages)
  BY AppendProperties
<1>2. Append(Append(s, m), b) = Append(s, m) \o <<b>> /\ Append(s, m) = s \o <<m>>
  BY <1>1, AppendIsConcat
<1>3. (s \o <<m>>) \o <<b>> = s \o (<<m>> \o <<b>>)
  BY <1>1, ConcatAssociative
<1>4. <<m>> \o <<b>> = <<m, b>>
  <2>1. <<m, b>> = Append(<<m>>, b)
    OBVIOUS
  <2> QED
    BY <1>1, <2>1, AppendIsConcat
<1> QED
  BY <1>2, <1>3, <1>4

LEMMA NextKeeps == IInv /\ [Next]_vars => IInv'
<1> SUFFICES ASSUME IInv, [Next]_vars PROVE IInv'
  OBVIOUS
<1>0. /\ messages \in Seq(Messages) /\ appended \in 2 .. MaxAppended /\ appended \in Nat
      /\ Len(messages) \in Nat
  BY LenProperties, CompactionAssumption DEF IInv, TypeOK
<1>1. CASE Prompt
  <2>1. AppendMessage("prompt", NoCall, TRUE) /\ prompts' = prompts \cup {appended'}
        /\ stage = "open" /\ stage' = stage /\ ~PendingCalls
    BY <1>1 DEF Prompt
  <2> DEFINE m == Message("prompt", appended + 1, NoCall, TRUE)
  <2>2. /\ appended' \in 2 .. MaxAppended /\ messages' = Append(messages, m) /\ m \in Messages
        /\ Stands(messages', appended', prompts')
        /\ prompts' \in SUBSET (1 .. appended') /\ prompts' # {}
        /\ Len(messages') >= 1 /\ Len(messages') <= appended' /\ Last(messages').kind = "prompt"
    <3>1. "prompt" \in Kinds /\ NoCall \in Nat /\ TRUE \in BOOLEAN
      BY DEF Kinds, UserKinds, NoCall
    <3> QED
      BY <2>1, <3>1, AppendKeeps
  <2>3. m.kind = "prompt"
    BY DEF Message
  <2> HIDE DEF m
  <2>4. CallIDs(messages') = CallIDs(messages) /\ ResponseIDs(messages') = ResponseIDs(messages)
    BY <1>0, <2>2, <2>3, CallsAppended
  <2>5. Paired'
    BY <2>1, <2>2, <2>4 DEF Paired, PendingCalls, IInv
  <2>6. TypeOK'
    BY <2>1, <2>2 DEF TypeOK, Stands
  <2> QED
    BY <2>2, <2>5, <2>6 DEF IInv
<1>2. CASE Tools
  <2> DEFINE x == Last(messages).call
  <2> DEFINE m == Message("results", appended + 1, x, FALSE)
  <2>1. stage = "open" /\ stage' = stage /\ PendingCalls /\ prompts' = prompts
    BY <1>2 DEF Tools
  <2>2. x \in Nat /\ x # NoCall
    <3>1. Len(messages) \in DOMAIN messages /\ Last(messages) = messages[Len(messages)]
      BY <1>0, LenProperties DEF IInv, Last
    <3>2. Last(messages) \in Messages /\ Entry(Last(messages), appended, prompts)
      BY <1>0, <3>1, ElementOfSeq, LenProperties DEF IInv, Stands
    <3> QED
      BY <2>1, <3>2 DEF PendingCalls, Entry, Messages
  <2>3. m \in Messages /\ m.kind = "results" /\ m.call = x /\ m.covers = {appended + 1}
    BY <1>0, <2>2 DEF Message, Messages, Kinds, UserKinds
  <2>4. x \in CallIDs(messages) /\ CallIDs(messages) = ResponseIDs(messages) \cup {x}
    BY <2>1 DEF IInv, Paired
  <2>5. CASE AppendMessage("results", x, FALSE)
    <3>1. /\ appended' \in 2 .. MaxAppended /\ messages' = Append(messages, m)
          /\ Stands(messages', appended', prompts')
          /\ prompts' \in SUBSET (1 .. appended') /\ prompts' # {}
          /\ Len(messages') >= 1 /\ Len(messages') <= appended' /\ Last(messages').kind = "results"
      <4>1. "results" \in Kinds /\ FALSE \in BOOLEAN
        BY DEF Kinds, UserKinds
      <4> HIDE DEF x
      <4> QED
        BY <2>1, <2>2, <2>5, <4>1, AppendKeeps
    <3> HIDE DEF m, x
    <3>2. CallIDs(messages') = CallIDs(messages) /\ ResponseIDs(messages') = ResponseIDs(messages) \cup {x}
      BY <1>0, <2>3, <3>1, CallsAppended
    <3>3. Paired'
      BY <2>4, <3>1, <3>2 DEF Paired, PendingCalls
    <3>4. TypeOK'
      BY <2>1, <3>1 DEF TypeOK, Stands
    <3> QED
      BY <3>1, <3>3, <3>4 DEF IInv
  <2>6. CASE /\ appended + 2 <= MaxAppended
             /\ messages' = messages \o <<m, Message("agents", appended + 2, NoCall, TRUE)>>
             /\ appended' = appended + 2
    <3> DEFINE b == Message("agents", appended + 2, NoCall, TRUE)
    <3> DEFINE one == Append(messages, m)
    <3>1. b \in Messages /\ b.kind = "agents" /\ b.covers = {appended + 2}
      BY <1>0 DEF Message, Messages, Kinds, UserKinds, NoCall
    <3> HIDE DEF m, b, x
    <3>2. messages' = Append(one, b)
      <4>1. messages \o <<m, b>> = Append(Append(messages, m), b)
        BY <1>0, <2>3, <3>1, TwoAppended
      <4> QED
        BY <2>6, <4>1 DEF b
    <3>3. Stands(one, appended + 1, prompts)
      BY <1>0, <2>2, <2>3, AppendStands DEF IInv, TypeOK
    <3>4. appended + 1 \in Nat /\ (appended + 1) + 1 = appended + 2 /\ prompts \in SUBSET (1 .. appended + 1)
          /\ appended + 2 \in 2 .. MaxAppended /\ prompts \in SUBSET (1 .. appended + 2) /\ prompts # {}
      BY <1>0, <2>6, CompactionAssumption DEF IInv, TypeOK
    <3>5. Stands(Append(one, b), (appended + 1) + 1, prompts)
      <4>1. b.kind \notin {"calls", "results"} /\ b.covers = {(appended + 1) + 1} /\ prompts \in {prompts, prompts \cup {(appended + 1) + 1}}
        BY <3>1, <3>4
      <4> HIDE DEF one
      <4> QED
        BY <3>1, <3>3, <3>4, <4>1, AppendStands
    <3>6. /\ Len(one) = Len(messages) + 1 /\ one \in Seq(Messages)
          /\ Len(messages') = Len(one) + 1 /\ messages'[Len(one) + 1] = b
      <4>1. Len(one) = Len(messages) + 1 /\ one \in Seq(Messages)
        BY <1>0, <2>3, AppendProperties
      <4> HIDE DEF one
      <4> QED
        BY <3>1, <3>2, <4>1, AppendProperties
    <3>7. /\ CallIDs(one) = CallIDs(messages) /\ ResponseIDs(one) = ResponseIDs(messages) \cup {x}
      BY <1>0, <2>3, CallsAppended
    <3> HIDE DEF one
    <3>8. /\ CallIDs(messages') = CallIDs(one) /\ ResponseIDs(messages') = ResponseIDs(one)
      BY <3>1, <3>2, <3>6, CallsAppended
    <3>9. Last(messages').kind = "agents"
      BY <3>1, <3>6 DEF Last
    <3>10. Paired'
      BY <2>4, <3>7, <3>8, <3>9 DEF Paired, PendingCalls
    <3>11. Stands(messages', appended', prompts')
      BY <2>1, <2>6, <3>2, <3>4, <3>5
    <3>12. TypeOK'
      BY <2>1, <2>6, <3>4, <3>11 DEF TypeOK, Stands, IInv
    <3>13. Len(messages') >= 1 /\ Len(messages') <= appended'
      BY <1>0, <2>6, <3>6 DEF IInv
    <3> QED
      BY <3>10, <3>11, <3>12, <3>13 DEF IInv
  <2> QED
    BY <1>2, <2>5, <2>6 DEF Tools
<1>3. CASE Ask
  <2>1. stage = "open" /\ ~PendingCalls /\ stage' = "asking" /\ appended' = appended /\ prompts' = prompts
        /\ (CompactContext \/ messages' = messages)
    BY <1>3 DEF Ask
  <2>2. /\ Stands(messages', appended, prompts)
        /\ Len(messages') >= 1 /\ Len(messages') <= appended
        /\ CallIDs(messages') = ResponseIDs(messages')
    <3>1. CASE CompactContext
      <4>1. /\ Stands(messages', appended, prompts)
            /\ Len(messages') >= 1 /\ Len(messages') <= Len(messages)
            /\ CallIDs(messages') = ResponseIDs(messages')
        BY <3>1, CompactKeeps
      <4> QED
        BY <1>0, <4>1, LenProperties DEF IInv, Stands
    <3>2. CASE messages' = messages
      BY <2>1, <3>2 DEF IInv, Paired
    <3> QED
      BY <2>1, <3>1, <3>2
  <2>3. TypeOK'
    BY <2>1, <2>2 DEF IInv, TypeOK, Stands
  <2>4. Paired'
    BY <2>1, <2>2 DEF Paired
  <2> QED
    BY <2>1, <2>2, <2>3, <2>4 DEF IInv
<1>4. CASE TooManyInputTokens
  <2>1. stage = "asking" /\ stage' = stage /\ appended' = appended /\ prompts' = prompts /\ CompactContext
    BY <1>4 DEF TooManyInputTokens
  <2>2. /\ Stands(messages', appended, prompts)
        /\ Len(messages') >= 1 /\ Len(messages') <= Len(messages)
        /\ CallIDs(messages') = ResponseIDs(messages')
    BY <2>1, CompactKeeps
  <2>3. TypeOK'
    BY <2>1, <2>2 DEF IInv, TypeOK, Stands
  <2>4. Paired'
    BY <2>1, <2>2 DEF Paired
  <2>5. Len(messages') <= appended
    BY <1>0, <2>2, LenProperties DEF IInv, Stands
  <2> QED
    BY <2>1, <2>2, <2>3, <2>4, <2>5 DEF IInv
<1>5. CASE ChatFails
  <2>1. stage = "asking" /\ stage' = "open" /\ appended' = appended /\ prompts' = prompts /\ messages' = messages
    BY <1>5 DEF ChatFails
  <2>2. PendingCalls => Last(messages).call \in CallIDs(messages)
    <3>1. Len(messages) \in DOMAIN messages /\ Last(messages) = messages[Len(messages)]
      BY <1>0, LenProperties DEF IInv, Last
    <3>2. Entry(messages[Len(messages)], appended, prompts)
      BY <3>1 DEF IInv, Stands
    <3> QED
      BY <3>1, <3>2, CallsAt DEF PendingCalls, Entry
  <2>3. CallIDs(messages) = ResponseIDs(messages)
    BY <2>1 DEF IInv, Paired
  <2>4. Paired'
    BY <2>1, <2>2, <2>3 DEF Paired, PendingCalls
  <2>5. TypeOK'
    BY <2>1 DEF IInv, TypeOK
  <2> QED
    BY <2>1, <2>4, <2>5 DEF IInv
<1>6. CASE ChatReplies
  <2>1. stage = "asking" /\ stage' = "open" /\ prompts' = prompts
    BY <1>6 DEF ChatReplies
  <2>2. PICK kind \in {"reply", "calls"}, id \in {NoCall, appended + 1}, text \in BOOLEAN :
            /\ AppendMessage(kind, id, text)
            /\ kind = "calls" <=> id = appended + 1
    <3>1. NoCall # appended + 1 /\ TRUE \in BOOLEAN
      BY <1>0 DEF NoCall
    <3>2. CASE AppendMessage("reply", NoCall, TRUE)
      BY <3>1, <3>2
    <3>3. CASE \E text \in BOOLEAN : AppendMessage("calls", appended + 1, text)
      BY <3>3
    <3> QED
      BY <1>6, <3>2, <3>3 DEF ChatReplies
  <2> DEFINE m == Message(kind, appended + 1, id, text)
  <2>3. kind \in Kinds /\ id \in Nat /\ (kind \in {"calls", "results"} => id # NoCall) /\ (kind # "calls" => id = NoCall)
    BY <1>0, <2>2 DEF Kinds, AssistantKinds, NoCall
  <2>4. /\ appended' \in 2 .. MaxAppended /\ messages' = Append(messages, m) /\ m \in Messages
        /\ Stands(messages', appended', prompts')
        /\ prompts' \in SUBSET (1 .. appended') /\ prompts' # {}
        /\ Len(messages') >= 1 /\ Len(messages') <= appended' /\ Last(messages').kind = kind
        /\ Last(messages').call = id
    BY <2>1, <2>2, <2>3, AppendKeeps
  <2>5. m.kind = kind /\ m.call = id
    BY DEF Message
  <2> HIDE DEF m
  <2>6. /\ CallIDs(messages') = CallIDs(messages) \cup (IF kind = "calls" THEN {id} ELSE {})
        /\ ResponseIDs(messages') = ResponseIDs(messages)
    <3>1. kind = "calls" => id # NoCall
      BY <2>3
    <3>2. kind # "results"
      BY <2>2
    <3> QED
      BY <1>0, <2>4, <2>5, <3>1, <3>2, CallsAppended
  <2>7. Paired'
    BY <2>1, <2>4, <2>6 DEF Paired, PendingCalls, IInv
  <2>8. TypeOK'
    BY <2>1, <2>4 DEF TypeOK, Stands
  <2> QED
    BY <2>4, <2>7, <2>8 DEF IInv
<1>7. CASE UNCHANGED vars
  BY <1>7 DEF vars, IInv, TypeOK, Paired, PendingCalls
<1> QED
  BY <1>1, <1>2, <1>3, <1>4, <1>5, <1>6, <1>7 DEF Next

\* The invariant holds in every state.
LEMMA Invariant == Spec => []IInv
  BY InitInv, NextKeeps, PTL DEF Spec

\* However often a conversation is compacted and a request fails, what is sent has
\* every tool id with its result and every result with its id.
THEOREM CompactionPairs == Spec => []CallsAndResultsPaired
<1>1. IInv => CallsAndResultsPaired
  BY DEF IInv, Paired, CallsAndResultsPaired
<1> QED
  BY <1>1, Invariant, PTL

\* No message is sent twice.
THEOREM CompactionRepeatsNothing == Spec => []NothingTwice
<1>1. IInv => NothingTwice
  BY DEF IInv, Stands, Apart, NothingTwice
<1> QED
  BY <1>1, Invariant, PTL

\* No prompt is lost.
THEOREM CompactionLosesNoPrompt == Spec => []NoPromptLost
<1>1. IInv => NoPromptLost
  BY DEF IInv, Stands, Reaching, NoPromptLost
<1> QED
  BY <1>1, Invariant, PTL

\* The prompts that are not summarised stay in their order.
THEOREM CompactionKeepsOrder == Spec => []PromptsInOrder
<1>1. IInv => PromptsInOrder
  BY DEF IInv, Stands, InOrder, PromptsInOrder
<1> QED
  BY <1>1, Invariant, PTL

\* What the session sends after any number of compactions and failed requests has
\* all of that: calls and results paired, nothing twice, every prompt in order.
THEOREM CompactionSound == Spec => []CompactionKeeps
BY CompactionPairs, CompactionRepeatsNothing, CompactionLosesNoPrompt, CompactionKeepsOrder, PTL
   DEF CompactionKeeps

\* Compaction never makes the conversation longer, however the history is cut.
THEOREM CompactionShortens == Spec => CompactionNeverGrows
<1>1. IInv /\ [Next]_vars => (appended' = appended => Len(messages') <= Len(messages)) \/ UNCHANGED vars
  <2> SUFFICES ASSUME IInv, Next, appended' = appended PROVE Len(messages') <= Len(messages)
    BY DEF vars
  <2>1. appended \in Nat /\ Len(messages) \in Nat
    BY LenProperties, CompactionAssumption DEF IInv, TypeOK
  <2>2. CASE CompactContext
    BY <2>2, CompactKeeps
  <2>3. CASE messages' = messages
    BY <2>1, <2>3
  <2>4. ~Prompt /\ ~Tools /\ ~ChatReplies
    <3>1. \A kind, id, text : ~AppendMessage(kind, id, text)
      BY <2>1 DEF AppendMessage
    <3>2. appended' # appended + 2
      BY <2>1
    <3> QED
      BY <3>1, <3>2 DEF Prompt, Tools, ChatReplies
  <2> QED
    BY <2>2, <2>3, <2>4 DEF Next, Ask, TooManyInputTokens, ChatFails
<1> QED
  BY <1>1, Invariant, PTL DEF Spec, CompactionNeverGrows

=============================================================================
