---------------------------- MODULE PromptMailbox ----------------------------
(***************************************************************************)
(* What a session thread promises about prompts, whatever its goroutines   *)
(* do: prompts wait in a box in the order in which they were given; a      *)
(* busy worker takes the whole box into its log, or the box is discarded   *)
(* while the worker is busy.  Nothing is taken while the worker is idle,   *)
(* nothing is taken twice, and nothing leaves the log.                     *)
(***************************************************************************)
EXTENDS Sequences

CONSTANT Prompts

VARIABLES box, log, busy

mailbox == <<box, log, busy>>

Range(s) == {s[i] : i \in DOMAIN s}

Init == box = <<>> /\ log = <<>> /\ busy = FALSE

\* A prompt goes to the end of the box; an idle worker may be woken for it.
Submit(p) ==
    /\ p \notin Range(box) \cup Range(log)
    /\ box' = Append(box, p)
    /\ busy' \in {busy, TRUE}
    /\ UNCHANGED log

Take ==
    /\ busy
    /\ log' = log \o box /\ box' = <<>>
    /\ UNCHANGED busy

Discard ==
    /\ busy
    /\ box' = <<>>
    /\ UNCHANGED <<log, busy>>

BeginWork == busy' = TRUE /\ UNCHANGED <<box, log>>
EndWork   == busy' = FALSE /\ UNCHANGED <<box, log>>

Next ==
    \/ \E p \in Prompts : Submit(p)
    \/ Take \/ Discard \/ BeginWork \/ EndWork

Spec == Init /\ [][Next]_mailbox

=============================================================================
