--------------------------- MODULE MCSessionThread ---------------------------
(* Instances of SessionThread for TLC: which methods are in use. *)
EXTENDS SessionThread, TLC

CONSTANTS p1, p2, c1, c2, l1, l2, l3

TwoPrompts == {p1, p2}
OneClient == {c1}
TwoClients == {c1, c2}
ThreeLoops == {l1, l2, l3}

\* The methods the program calls.
UsedOps == {"UserPrompt", "Interrupt"}
PromptOps == {"UserPrompt"}

Used(prompts, clients) ==
    \/ StartSession
    \/ \E p \in prompts : UserPrompt(p)
    \/ \E c \in clients : InterruptSuspended(c) \/ InterruptRunning(c)
    \/ \E c \in clients : ClientStep(c)
    \/ \E l \in Loops : LoopStep(l)
    \/ ReceiveDone

\* The program as it is: nothing else is called.
LiveSpec == Init /\ [][Used(Prompts, Clients)]_vars /\ Fairness
=============================================================================
