--------------------------- MODULE MCSessionInput ---------------------------
(***************************************************************************)
(* What the user's prompts and interrupts meet: the session thread, and a  *)
(* request of the session to its chain of models.  The loop of the thread  *)
(* sees of a request only how it ends, so each runs alone: `mode' is       *)
(* chosen once and says which one.                                         *)
(***************************************************************************)
EXTENDS MCSessionThread, ModelChain

\* Nothing tells prompts apart, nor clients; Loops are not symmetric, Fresh
\* chooses one.
Symmetry == Permutations(Prompts) \cup Permutations(Clients)

(***************************************************************************)
(* Two instances of the thread side by side: the methods the program       *)
(* calls, with all the prompts and clients (`few' is empty); and every     *)
(* method, with the one prompt and the one client that `few' holds.        *)
(***************************************************************************)
VARIABLES mode, few

MCInit ==
    /\ mode \in {"thread", "chain"}
    /\ Init /\ ChainInit
    /\ few \in IF mode = "thread" THEN {<<>>} \cup (Prompts \X Clients) ELSE {<<>>}
    /\ mode = "chain" \/ switchDelay = 0

MCPrompts == IF few = <<>> THEN Prompts ELSE {few[1]}
MCClients == IF few = <<>> THEN Clients ELSE {few[2]}

Unused ==
    \/ Pause \/ Resume \/ ResumePending
    \/ \E p \in MCPrompts : AddPrompt(p)

MCNext ==
    /\ UNCHANGED <<mode, few>>
    /\ IF mode = "thread" THEN Used(MCPrompts, MCClients) \/ (few # <<>> /\ Unused) ELSE UNCHANGED vars
    /\ IF mode = "chain" THEN ChainNext ELSE UNCHANGED chainVars
MCSpec == MCInit /\ [][MCNext]_<<mode, few, vars, chainVars>>
=============================================================================
