------------------------------- MODULE Config -------------------------------
(* The configuration of csw (pkg/conf) and the roles and prompts made of it   *)
(* (pkg/core/role.go, prompt.go). The configuration is read from a sequence   *)
(* of sources: the defaults built into the program, the user's directory, the *)
(* project's directory and further ones. Each source is read completely and   *)
(* merged over what the earlier ones gave; one that cannot be read leaves the *)
(* program without a configuration.                                           *)
(*                                                                            *)
(* A source is a record: global and legacy are the run parameters of its      *)
(* global.json under "parameters" and under the older "defaults"; select its  *)
(* tool selection; tags its model tags; providers, aliases and files map names*)
(* to contents; roles maps the directories under roles/ to their contents and *)
(* tools the files under tools/. A prompt fragment is named by its order, kind*)
(* and tag, a tool's file by the tool and the file's kind; content "" stands  *)
(* for a file with nothing but white space.                                   *)
EXTENDS FiniteSets, SequencesExt, Sublists

CONSTANTS Trees,      \* the sequences of sources a configuration may be read from
          Tags        \* the tags of the session's model

Sources == UNION {ToSet(path) : path \in Trees}

\* A path is a sequence of sources, and a role has finitely many fragments.
ASSUME ConfigAssumption ==
    /\ Trees \subseteq Seq(Sources)
    /\ \A s \in Sources : \A dir \in DOMAIN s.roles :
           /\ IsFiniteSet(DOMAIN s.roles[dir].prompts)
           /\ DOMAIN s.roles[dir].prompts \subseteq [order : Nat, kind : STRING, tag : STRING]

VARIABLES sources,    \* the sources still to be read
          read,       \* those already merged
          config,     \* what they gave so far
          loading     \* "reading", "loaded" or "failed"

cvars == <<sources, read, config, loading>>

Or(new, old) == IF new = "" THEN old ELSE new

(***************************************************************************)
(* The run parameters. Strings, lists and numbers replace the earlier ones *)
(* when they are given at all; a boolean can only be switched on.          *)
(***************************************************************************)
NoParameters == [provider |-> "", role |-> "", model |-> "", worktree |-> "", merge |-> FALSE,
                 noCommit |-> FALSE, enabled |-> FALSE, image |-> "", threads |-> 0, allow |-> <<>>]

MergeContainer(p, o) == [p EXCEPT !.enabled = @ \/ o.enabled, !.image = Or(o.image, @)]

MergeFrom(p, o) ==
    [MergeContainer(p, o) EXCEPT
        !.provider = Or(o.provider, @), !.model = Or(o.model, @), !.worktree = Or(o.worktree, @),
        !.merge = @ \/ o.merge, !.noCommit = @ \/ o.noCommit,
        !.threads = IF o.threads > 0 THEN o.threads ELSE @,
        !.allow = IF o.allow # <<>> THEN o.allow ELSE @]

\* What global.json says: the older "defaults" under the newer "parameters".
Global(s) == MergeFrom(s.legacy, s.global)

MergeGlobal(c, s) ==
    [c EXCEPT !.parameters = MergeFrom(@, Global(s)), !.select = s.select @@ @, !.tags = @ \o s.tags]

(***************************************************************************)
(* The roles of one source, and a role merged over the one an earlier      *)
(* source gave. Everything but the fragments and the hidden patterns is    *)
(* the later source's, whether it says anything or not.                    *)
(***************************************************************************)
\* A role without config.json; only "all" may have none.
NoRoleConfig == [model |-> "", hidden |-> <<>>, aliases |-> {}, prompts |-> <<>>]

ToolFragments(s) == s.tools

ReadRole(s, dir) ==
    [model |-> s.roles[dir].model, hidden |-> s.roles[dir].hidden, aliases |-> s.roles[dir].aliases,
     prompts |-> s.roles[dir].prompts, tools |-> ToolFragments(s)]

Roles(s) == [dir \in DOMAIN s.roles |-> ReadRole(s, dir)]

\* Mistake: the later source's fragments stand alone.
MergeFragmentsReplace(target, overrides) == overrides

MergeFragments(target, overrides) ==
    LET given == {k \in DOMAIN overrides : overrides[k] # ""}
        emptied == DOMAIN overrides \ given
    IN [k \in (DOMAIN target \ emptied) \cup given |->
            IF k \in given THEN overrides[k] ELSE target[k]]

MergeRole(c, o) ==
    [o EXCEPT !.prompts = MergeFragments(c.prompts, @), !.tools = MergeFragments(c.tools, @),
              !.hidden = c.hidden \o @]

MergeRoles(roles, new) ==
    [name \in DOMAIN roles \cup DOMAIN new |->
        IF name \notin DOMAIN roles THEN new[name]
        ELSE IF name \notin DOMAIN new THEN roles[name]
        ELSE MergeRole(roles[name], new[name])]

(***************************************************************************)
(* Reading the sources.                                                    *)
(***************************************************************************)
Nothing == [parameters |-> NoParameters, select |-> <<>>, tags |-> <<>>, providers |-> <<>>,
            aliases |-> <<>>, roles |-> <<>>, files |-> <<>>]

\* Providers, aliases and agent files replace those of the same name whole.
MergeProviders(c, s) == [c EXCEPT !.providers = s.providers @@ @]
MergeAliases(c, s) == [c EXCEPT !.aliases = s.aliases @@ @]
MergeFiles(c, s) == [c EXCEPT !.files = s.files @@ @]

MergeSource(c, s) ==
    LET m == MergeFiles(MergeAliases(MergeProviders(MergeGlobal(c, s), s), s), s)
    IN [m EXCEPT !.roles = MergeRoles(@, Roles(s))]

\* A source that exists and cannot be parsed, or has a role without config.json.
Unreadable(s) == s.broken

\* The path's parts that do not exist are left out; the rest keeps its order.
Existing(path) == KeptIf(path, LAMBDA s : ~s.missing)

ConfigFrom(path) ==
    /\ sources = Existing(path)
    /\ read = <<>>
    /\ config = Nothing
    /\ loading = "reading"

ConfigInit == \E path \in Trees : ConfigFrom(path)

LoadSource ==
    /\ loading = "reading" /\ sources # <<>>
    /\ ~Unreadable(Head(sources))
    /\ config' = MergeSource(config, Head(sources))
    /\ read' = Append(read, Head(sources))
    /\ sources' = Tail(sources)
    /\ UNCHANGED loading

LoadFails ==
    /\ loading = "reading" /\ sources # <<>>
    /\ Unreadable(Head(sources))
    /\ loading' = "failed"
    /\ config' = Nothing
    /\ UNCHANGED <<sources, read>>

LoadEnds ==
    /\ loading = "reading" /\ sources = <<>>
    /\ loading' = "loaded"
    /\ UNCHANGED <<sources, read, config>>

ConfigNext == LoadSource \/ LoadFails \/ LoadEnds

ConfigSpec == ConfigInit /\ [][ConfigNext]_cvars

Hidden(c, name) ==
    IF name # "all" /\ "all" \in DOMAIN c.roles
    THEN c.roles["all"].hidden \o c.roles[name].hidden
    ELSE c.roles[name].hidden

\* The fragments of a role that belong in its prompt.
Wanted(prompts) ==
    {k \in DOMAIN prompts : k.kind = "system" /\ (k.tag = "all" \/ k.tag \in Tags)}

FilterDuplicates(shared, own) == shared \ own

\* The fragments in the order of the prompt: by number, those of "all" first (the
\* names of roles come after it), those for every tag before those for one.
Before(a, b) ==
    \/ a.key.order < b.key.order
    \/ a.key.order = b.key.order /\ a.from = "all" /\ b.from # "all"
    \/ a.key.order = b.key.order /\ a.from = b.from /\ a.key.tag = "all" /\ b.key.tag # "all"

\* sort.Slice, which puts fragments of which none comes before the other in any order.
Sorted(parts) ==
    CHOOSE s \in [1..Cardinality(parts) -> parts] :
        /\ {s[i] : i \in DOMAIN s} = parts
        /\ \A i, j \in DOMAIN s : i < j => ~Before(s[j], s[i])

GetPrompt(c, name) ==
    LET own == Wanted(c.roles[name].prompts)
        all == IF "all" \in DOMAIN c.roles THEN c.roles["all"].prompts ELSE <<>>
        shared == FilterDuplicates(Wanted(all), own)
        parts == {[key |-> k, from |-> "all", content |-> all[k]] : k \in shared}
                 \cup {[key |-> k, from |-> name, content |-> c.roles[name].prompts[k]] : k \in own}
    IN Sorted(parts)

(***************************************************************************)
(* Properties                                                              *)
(***************************************************************************)
\* What the last source that says something of it says.
LastWith(P(_)) == CHOOSE i \in 1..Len(read) : P(read[i]) /\ \A j \in i+1..Len(read) : ~P(read[j])

ParametersMerged ==
    LET worktree(s) == Or(s.global.worktree, s.legacy.worktree)
        p == config.parameters
    IN /\ \/ p.worktree = "" /\ \A i \in 1..Len(read) : worktree(read[i]) = ""
          \/ p.worktree # "" /\ p.worktree = worktree(read[LastWith(LAMBDA s : worktree(s) # "")])
       /\ p.merge = \E i \in 1..Len(read) : read[i].global.merge \/ read[i].legacy.merge

FragmentsMerged(get(_)) ==
    \A i \in 1..Len(read) : \A r \in DOMAIN read[i].roles :
        \A k \in DOMAIN get(Roles(read[i])[r]) :
            LET has(s) == r \in DOMAIN s.roles /\ k \in DOMAIN get(Roles(s)[r])
                last == get(Roles(read[LastWith(has)])[r])[k]
                now == get(config.roles[r])
            IN IF last = "" THEN k \in DOMAIN now => now[k] = ""
               ELSE k \in DOMAIN now /\ now[k] = last

\* Whatever the number of sources, a parameter is what the last source that sets
\* it says (a switch is on once any source sets it), and each fragment of a role
\* is the one of the last source that has it for that role, removed if that one
\* is empty, however often other fields of the role were replaced in between.
LaterSourceWins ==
    loading # "failed" =>
        /\ ParametersMerged
        /\ FragmentsMerged(LAMBDA r : r.prompts)
        /\ FragmentsMerged(LAMBDA r : r.tools)

\* The prompt of every role has each fragment meant for the model's tags once, in
\* the order of their numbers: the role's own where it has one of that name and
\* the shared one where it has none.
PromptComplete ==
    loading = "loaded" =>
        \A r \in DOMAIN config.roles \ {"all"} :
            LET prompt == GetPrompt(config, r)
                keys == {prompt[i].key : i \in 1..Len(prompt)}
                all == IF "all" \in DOMAIN config.roles THEN config.roles["all"].prompts ELSE <<>>
            IN /\ Len(prompt) = Cardinality(keys)
               /\ keys = Wanted(all) \cup Wanted(config.roles[r].prompts)
               /\ \A i \in 1..Len(prompt) :
                    /\ prompt[i].content = IF prompt[i].key \in DOMAIN config.roles[r].prompts
                                           THEN config.roles[r].prompts[prompt[i].key]
                                           ELSE all[prompt[i].key]
                    /\ i > 1 => prompt[i-1].key.order <= prompt[i].key.order

\* Later sources win, and a prompt has each fragment once (merge.go, prompt.go).
ConfigurationMerged == LaterSourceWins /\ PromptComplete
=============================================================================
