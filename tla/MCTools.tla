------------------------------- MODULE MCTools -------------------------------
(***************************************************************************)
(* What goroutines of one process and processes of one project write at    *)
(* the same time: the session's file and its conversation, the files of    *)
(* the project, the logs, and the tasks.  They share no state, so each     *)
(* runs alone: `mode' is chosen once and says which one.                   *)
(***************************************************************************)
EXTENDS TaskStore, ToolPool, Logging, FileTools, TLC

CONSTANTS Modes, w1, w2, p1, p2, top, sub

VARIABLES mode

-----------------------------------------------------------------------------
(* The tasks: one at the top, and one that is created under it.            *)

MCParentOf == (top :> Root) @@ (sub :> top)

(* What the model may ask for, and the AGENTS.md files above it.            *)

MCBatches == {<<"todo", "sub", "deep">>, <<"shallow", "deep">>, <<"todo", "todo">>}
MCFilesOf == [todo |-> <<>>, sub |-> <<>>, deep |-> <<"a/b", "a">>, shallow |-> <<"a">>]

\* Processes are alike, and so are the goroutines of the pool (two suffice for files).
Symmetry == Permutations(Procs) \cup Permutations({w1, w2})

-----------------------------------------------------------------------------
(* The files: two directories, one laid over the other.                    *)

L(w) == <<w, 0>>
Rel(names) == [root |-> "rel", names |-> names]
Out(names) == [root |-> "out", names |-> names]
A == Rel(<<"a">>)
B == Rel(<<"d", "b">>)
C == Rel(<<"d", "c">>)
Agents == Rel(<<"d", "AGENTS">>)
Old == <<L("f"), L("x"), L("g"), <<"x", 1>>, L("y")>>

MCDisks ==
    {[base |-> (<<>> :> Directory @@ <<"a">> :> File(Old) @@ <<"d">> :> Directory
                @@ <<"d", "b">> :> File(<<L("x"), L("")>>) @@ <<"d", "AGENTS">> :> File(<<L("base")>>)),
      shadow |-> (<<>> :> Directory @@ <<"d">> :> Directory @@ <<"d", "AGENTS">> :> File(<<L("mine")>>)),
      out |-> (<<>> :> Directory)]}

Glob(parts, slash, dir, negate) == [parts |-> parts, slash |-> slash, dir |-> dir, negate |-> negate]
MCHide == {<<Glob(<<{"b", "c"}>>, FALSE, FALSE, FALSE), Glob(<<{"d"}, {"c"}>>, TRUE, FALSE, TRUE)>>,
           <<Glob(<<{"d"}>>, TRUE, TRUE, FALSE), Glob(<<{"b"}>>, FALSE, FALSE, TRUE)>>}
MCShadow == {[on |-> FALSE, outside |-> TRUE, patterns |-> <<>>],
             [on |-> TRUE, outside |-> FALSE,
              patterns |-> <<Glob(<<{"AGENTS"}>>, FALSE, FALSE, FALSE),
                             Glob(<<AnyNames, {"AGENTS"}>>, TRUE, FALSE, FALSE)>>]}

Rights(flag) == [op \in {"read", "write", "delete", "list", "find", "move"} |-> flag]
FileRule(exact, path, parts, slash, wild, length, access) ==
    [exact |-> exact, path |-> path, parts |-> parts, slash |-> slash, wild |-> wild,
     length |-> length, access |-> access]
Every(access) == FileRule(FALSE, NoPath, <<{"a", "b", "c", "d", "AGENTS"}>>, FALSE, 1, 1, access)
ToolRule(names, specificity, flag) == [names |-> names, specificity |-> specificity, flag |-> flag]
AllTools == {"vfsRead", "vfsWrite", "vfsEdit", "vfsInsertAfterLine", "vfsReplaceLines",
             "vfsPatch", "vfsDelete", "vfsMove", "vfsList", "vfsFind", "vfsGrep"}
AnyTool == ToolRule(AllTools, 0, "allow")
MCRoles ==
    {[tools |-> {AnyTool}, files |-> {}, checked |-> FALSE],
     [tools |-> {AnyTool, ToolRule({"vfsWrite"}, 8000, "deny")}, checked |-> TRUE,
      files |-> {Every(Rights("allow")),
                 FileRule(TRUE, B, <<{"d"}, {"b"}>>, TRUE, 0, 3, [Rights("allow") EXCEPT !["delete"] = "deny"]),
                 FileRule(FALSE, NoPath, <<{"d"}, {"c"}>>, TRUE, 1, 3, [Rights("deny") EXCEPT !["read"] = "ask"])}]}

T(k, w) == [k |-> k, line |-> L(w)]
P(k, p) == [k |-> k, path |-> p]
Ctx(s) == [k |-> "@@", line |-> s]
BeginPatch == [k |-> "begin"]
EndPatch == [k |-> "end"]
Patch(text) == [tool |-> "vfsPatch", text |-> <<BeginPatch>> \o text \o <<EndPatch>>]
Wanted(req, path, from, want) == req @@ [file |-> path, from |-> from, want |-> want]

MCRequests ==
    {[tool |-> "vfsRead", path |-> A],
     [tool |-> "vfsWrite", path |-> C, lines |-> <<L("new")>>],
     [tool |-> "vfsWrite", path |-> A, lines |-> <<L("short")>>],
     Wanted([tool |-> "vfsEdit", path |-> A, old |-> L("x"), new |-> L("z"), all |-> FALSE], A, Old,
            <<L("f"), L("z"), L("g"), <<"x", 1>>, L("y")>>),
     Wanted([tool |-> "vfsInsertAfterLine", path |-> A, at |-> 5, lines |-> <<L("z")>>, checked |-> TRUE,
             expected |-> Old], A, Old, Old \o <<L("z")>>),
     Wanted([tool |-> "vfsReplaceLines", path |-> A, first |-> 2, last |-> 3, lines |-> <<L("z")>>,
             checked |-> TRUE, expected |-> Old], A, Old, <<L("f"), L("z"), <<"x", 1>>, L("y")>>),
     Wanted(Patch(<<P("update", A), Ctx(<<>>), T("-", "x"), T("+", "1"), Ctx(<<>>), T("-", "x"), T("+", "2")>>),
            A, Old, <<L("f"), L("1"), L("g"), L("2"), L("y")>>),
     Wanted(Patch(<<P("update", A), Ctx(<<L("g")>>), T("-", "x"), T("+", "2"), T(" ", "y"), T("eof", "")>>),
            A, Old, <<L("f"), L("x"), L("g"), L("2"), L("y")>>),
     Wanted(Patch(<<P("update", B), P("move", C), Ctx(<<>>), T("+", "1")>>), C, <<L("x"), L("")>>,
            <<L("x"), L("1"), L("")>>),
     Patch(<<P("add", Agents), T("+", "1"), P("update", A), Ctx(<<>>), T("-", "gone")>>),
     Patch(<<P("delete", B), P("add", C), T("+", "1")>>),
     Patch(<<>>),
     [tool |-> "vfsDelete", path |-> Agents],
     [tool |-> "vfsMove", path |-> Rel(<<"d">>), to |-> Rel(<<"c">>)],
     [tool |-> "vfsMove", path |-> A, to |-> C],
     [tool |-> "vfsMove", path |-> Agents, to |-> C],
     [tool |-> "vfsWrite", path |-> Out(<<"a">>), lines |-> <<>>],
     [tool |-> "vfsMove", path |-> Rel(<<"d">>), to |-> Out(<<"e", "d">>)],
     [tool |-> "vfsWrite", path |-> [root |-> "base", names |-> <<"d", "AGENTS">>], lines |-> <<L("new")>>],
     [tool |-> "vfsFind", path |-> Rel(<<>>)]}

-----------------------------------------------------------------------------
(* One of them runs.                                                       *)

\* No calls, and nothing in the directories.
NoFiles ==
    /\ tree = [d \in {"base", "shadow", "out"} |-> <<>> :> Directory]
    /\ role = [tools |-> {}, files |-> {}, checked |-> FALSE] /\ hide = <<>>
    /\ shadow = [on |-> FALSE, outside |-> FALSE, patterns |-> <<>>]
    /\ call = [t \in Threads |-> [tool |-> "vfsFind", path |-> Rel(<<>>)]]
    /\ phase = [t \in Threads |-> "done"] /\ plan = [t \in Threads |-> <<>>]
    /\ truncated = [t \in Threads |-> NoPath] /\ hunk = [t \in Threads |-> 1]
    /\ outcome = [t \in Threads |-> "none"] /\ seen = [t \in Threads |-> <<>>]
    /\ changed = [t \in Threads |-> FALSE] /\ clash = [t \in Threads |-> FALSE]

MCInit ==
    /\ mode \in Modes
    /\ Init /\ PoolInit /\ LoggingInit
    /\ IF mode = "files" THEN FilesInit ELSE NoFiles

MCNext ==
    /\ UNCHANGED mode
    /\ IF mode = "tasks" THEN Next ELSE UNCHANGED vars
    /\ IF mode = "pool" THEN PoolNext ELSE UNCHANGED poolVars
    /\ IF mode = "files" THEN FilesNext ELSE UNCHANGED fvars
    /\ IF mode = "loggers" THEN LoggingNext ELSE UNCHANGED loggingVars

all == <<mode, vars, poolVars, fvars, loggingVars>>
MCSpec == MCInit /\ [][MCNext]_all
=============================================================================
