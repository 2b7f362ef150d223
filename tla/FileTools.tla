----------------------------- MODULE FileTools -----------------------------
(* The file tools of pkg/tool over the file systems of pkg/vfs: the calls of   *)
(* one response run in threads of their own, each reading and writing files in *)
(* several steps, through the role's access rules (access.go), the shadow      *)
(* directory laid over the worktree (shadow.go) and the directories themselves *)
(* (local.go).                                                                 *)
(*                                                                             *)
(* A path is the directory it starts from ("rel" for none, "base", "shadow" or *)
(* "out" for one outside both) and the names that follow. A text is a sequence *)
(* of lines, a line its words and what is odd about its spacing: 0 nothing,    *)
(* 1 blanks at its end, 2 at its start, 3 typographic quotes or dashes.        *)
EXTENDS Integers, FiniteSets, SequencesExt

CONSTANTS Threads,       \* the threads of the tool pool
          Requests,      \* the calls an agent may make
          Disks,         \* what the directories hold when the calls are made
          Roles,         \* [tools |-> tool rules, files |-> file rules, checked |-> BOOLEAN]
          HideChoices,   \* the patterns of files that are not listed
          ShadowChoices  \* [on |-> BOOLEAN, patterns |-> patterns, outside |-> BOOLEAN]

VARIABLES tree,     \* what each directory holds: the names of a path to a node
          role, hide, \* the configuration, which does not change
          shadow,   \* that of the directories; outside if --vfs-allow names "out"
          call,     \* the call each thread executes
          phase,    \* where it is in it: "start", "read", "write", "fill" or "done"
          plan,     \* what it has yet to write, delete or move
          truncated, \* the file it has truncated and not written yet
          hunk,     \* the hunk of a patch it reads next
          outcome,  \* how the call ended: "none" yet, "ok", "failed", "refused" or "rejected"
          seen,     \* history: the text it read first
          changed,  \* history: it has changed a file
          clash     \* history: another thread changed a file while it ran

fvars == <<tree, role, hide, shadow, call, phase, plan, truncated, hunk, outcome, seen, changed, clash>>
setting == <<role, hide, shadow, call>>

File(lines) == [dir |-> FALSE, lines |-> lines]
Directory == [dir |-> TRUE, lines |-> <<>>]
NoPath == [root |-> "none", names |-> <<>>]
Blank == <<"", 0>>

\* Paths, lines, and the hunks of a patch.
Paths == [root : {"rel", "base", "shadow", "out"}, names : Seq(STRING)]
Lines == STRING \X (0..3)
Chunks == [context : Seq(Lines), old : Seq(Lines), new : Seq(Lines), eof : BOOLEAN]
Hunks == [kind : {"add", "delete", "update"}, path : Paths, to : Paths \cup {NoPath},
          lines : Seq(Lines), chunks : Seq(Chunks), open : BOOLEAN]

(***************************************************************************)
(* Patterns, glob.go. A part of a pattern is the set of names it matches,  *)
(* or AnyNames for `**'; dir is set if it ends with a slash, slash if it   *)
(* holds one.                                                              *)
(***************************************************************************)
AnyNames == {"**"}

\* matchGlobPartsRecursive: `**' stands for any number of names. The cut says
\* where in the path each part of the pattern begins.
MatchParts(parts, names) ==
    \E cut \in [1..Len(parts) + 1 -> 1..Len(names) + 1] :
        /\ cut[1] = 1 /\ cut[Len(parts) + 1] = Len(names) + 1
        /\ \A i \in DOMAIN parts :
               IF parts[i] = AnyNames THEN cut[i + 1] >= cut[i]
               ELSE cut[i] <= Len(names) /\ cut[i + 1] = cut[i] + 1 /\ names[cut[i]] \in parts[i]

\* matchGlobSimple: a pattern without a slash is matched with the last name.
MatchSimple(g, names) ==
    IF g.slash THEN Len(g.parts) = Len(names) /\ \A i \in DOMAIN names : names[i] \in g.parts[i]
    ELSE names # <<>> /\ Last(names) \in g.parts[1]

MatchGlob(g, names) ==
    IF AnyNames \in ToSet(g.parts) THEN MatchParts(g.parts, names) ELSE MatchSimple(g, names)

\* matchGitignorePattern: a directory's pattern holds for all that is in it.
MatchGitignore(g, names) ==
    IF g.dir THEN \E n \in 1..Len(names) : MatchParts(g.parts, SubSeq(names, 1, n))
    ELSE MatchGlob(g, names)

\* globFilter.Matches: the last pattern that matches decides; `!**' and those
\* before it are dropped when the filter is made, to the same effect.
Matches(filter, names) ==
    LET hits == {i \in DOMAIN filter : MatchGitignore(filter[i], names)}
    IN hits # {} /\ ~filter[Max(hits)].negate

(***************************************************************************)
(* Which directory a path leads to, and whether the role lets it.          *)
(***************************************************************************)
\* ShadowVFS.isShadowed; relativePath calls the root by the name ".".
Relative(names) == IF names = <<>> THEN <<".">> ELSE names
Shadowed(p) == shadow.on /\ p.root # "out" /\ Matches(shadow.patterns, Relative(p.names))

\* pathForShadow and pathForBase: the names stay, the directory is exchanged.
Place(p) == IF p.root = "out" THEN "out" ELSE IF Shadowed(p) THEN "shadow" ELSE "base"

\* LocalVFS.validatePath.  It compares the text of the paths without a separator after
\* the root's, so that a directory beside the root whose name begins with the root's is
\* taken for one inside: no path here is in such a directory.
Valid(p) == p.root = "out" => shadow.outside

\* matchPattern: the file rules have patterns of their own kind.
RuleMatches(r, p) ==
    CASE r.exact -> r.path = p
      [] ~r.exact /\ r.slash -> p.root = "rel" /\ MatchSimple(r, p.names)
      [] OTHER -> p.names # <<>> /\ Last(p.names) \in r.parts[1]

\* isMoreSpecific: fewer wildcards, then more slashes, then the longer one.
MoreSpecific(r, q) ==
    IF r.wild # q.wild THEN r.wild < q.wild
    ELSE IF Len(r.parts) # Len(q.parts) THEN Len(r.parts) > Len(q.parts)
    ELSE r.length > q.length

\* getAccess walks a Go map: of two rules as specific as each other either may
\* be the one it keeps. No rule means no access.
Access(p, op) ==
    LET hits == {r \in role.files : RuleMatches(r, p)}
        best == {r \in hits : \A q \in hits : ~MoreSpecific(q, r)}
    IN IF ~role.checked THEN {TRUE}
       ELSE IF hits = {} THEN {FALSE} ELSE {r.access[op] = "allow" : r \in best}

\* AccessControlTool.resolveAccessFlag, whose patterns are ranked by a number.
ToolAllowed(name) ==
    LET hits == {r \in role.tools : name \in r.names}
        best == {r \in hits : \A q \in hits : q.specificity <= r.specificity}
    IN IF hits = {} THEN {FALSE} ELSE {r.flag = "allow" : r \in best}

(***************************************************************************)
(* The operations of LocalVFS on one directory d.                          *)
(***************************************************************************)
Under(names, top) == IsPrefix(top, names)
Parents(names) == {SubSeq(names, 1, n) : n \in 0..Len(names) - 1}

\* What is in a directory is in directories of its own, up to the top.
IsDirectory(d) ==
    \A q \in DOMAIN d :
        /\ q \in Seq(STRING) /\ DOMAIN d[q] = {"dir", "lines"}
        /\ \A r \in Parents(q) : r \in DOMAIN d /\ d[r].dir
IsFile(d, names) == names \in DOMAIN d /\ ~d[names].dir
MkdirAllOK(d, names) == \A q \in Parents(names) : q \in DOMAIN d => d[q].dir
MakeParents(d, names) ==
    [q \in DOMAIN d \cup Parents(names) |-> IF q \in DOMAIN d THEN d[q] ELSE Directory]
Put(d, names, lines) ==
    [q \in DOMAIN MakeParents(d, names) \cup {names} |->
        IF q = names THEN File(lines) ELSE MakeParents(d, names)[q]]
Without(d, names) == [q \in DOMAIN d \ {names} |-> d[q]]

MayRead(p) == Valid(p) /\ IsFile(tree[Place(p)], p.names)
Text(p) == tree[Place(p)][p.names].lines

MayWrite(p) ==
    LET d == tree[Place(p)]
    IN Valid(p) /\ MkdirAllOK(d, p.names) /\ (p.names \in DOMAIN d => ~d[p.names].dir)

\* The tools ask to delete one file, not a directory with what is in it.
MayDelete(p) == MayRead(p)

\* ShadowVFS.MoveFile: never between the shadow directory and the other.
MayMove(p, to) ==
    /\ shadow.on => Shadowed(p) = Shadowed(to)
    /\ Valid(p) /\ Valid(to)
    /\ p.names \in DOMAIN tree[Place(p)]
    /\ to.names \notin DOMAIN tree[Place(to)]
    /\ MkdirAllOK(tree[Place(to)], to.names)
    /\ ~(Place(to) = Place(p) /\ Under(to.names, p.names))

\* A directory moves with all that is in it, from d to e if they differ.
Target(m, names, to) == to \o SubSeq(m, Len(names) + 1, Len(m))
Moved(d, names, e, to) ==
    LET gone == {q \in DOMAIN tree[d] : Under(q, names)}
        come == {Target(m, names, to) : m \in gone}
        rest == [q \in DOMAIN tree[d] \ gone |-> tree[d][q]]
        there == MakeParents(IF e = d THEN rest ELSE tree[e], to)
        new == [q \in come \cup DOMAIN there |->
                   IF q \in come THEN tree[d][Target(q, to, names)] ELSE there[q]]
    IN [tree EXCEPT ![d] = rest, ![e] = new]

\* LocalVFS.ListFiles and its walk: what is hidden is left out with all in it.
Hidden(names) == \E n \in 1..Len(names) : Matches(hide, SubSeq(names, 1, n))
Listed(d, top, recursive) ==
    {q \in DOMAIN d : /\ Under(q, top) /\ q # top
                      /\ recursive \/ Len(q) = Len(top) + 1
                      /\ ~\E n \in Len(top) + 1..Len(q) : Matches(hide, SubSeq(q, 1, n))}

\* Mistake: the worktree's own files are listed where the shadow directory's are.
ListFilesUnfiltered(p, recursive) ==
    LET rel(names) == [root |-> "rel", names |-> names]
    IN IF ~shadow.on \/ Shadowed(p) THEN Listed(tree[Place(p)], p.names, recursive)
       ELSE Listed(tree["base"], p.names, recursive)
            \union {q \in Listed(tree["shadow"], p.names, recursive) : Shadowed(rel(q))}

\* ShadowVFS.ListFiles: each file from the directory a path of its name leads to.
ListFiles(p, recursive) ==
    LET rel(names) == [root |-> "rel", names |-> names]
    IN IF ~shadow.on \/ Shadowed(p) THEN Listed(tree[Place(p)], p.names, recursive)
       ELSE {q \in Listed(tree["base"], p.names, recursive) : ~Shadowed(rel(q))}
            \union {q \in Listed(tree["shadow"], p.names, recursive) : Shadowed(rel(q))}

\* ShadowVFS.FindFiles, over two walks of LocalVFS.FindFiles from the top.
Found(d, g, recursive) == {q \in Listed(d, <<>>, recursive) : MatchGlob(g, q)}
FindFiles(g, recursive) ==
    LET rel(names) == [root |-> "rel", names |-> names]
        base == Found(tree["base"], g, recursive)
    IN IF ~shadow.on THEN base
       ELSE {q \in base : ~Shadowed(rel(q))}
            \union {q \in Found(tree["shadow"], g, recursive) : Shadowed(rel(q))}

\* grepFilter.Search: the files listed that can be read and hold the line.
Search(p, line) ==
    LET rel(names) == [root |-> "rel", names |-> names]
    IN {q \in ListFiles(p, TRUE) : /\ TRUE \in Access(rel(q), "read") /\ MayRead(rel(q))
                                   /\ line \in ToSet(Text(rel(q)))}

(***************************************************************************)
(* The texts the editing tools make.                                       *)
(***************************************************************************)
\* insertAfterLine and replaceLineRange.
InsertedAfter(lines, n, new) == SubSeq(lines, 1, n) \o new \o SubSeq(lines, n + 1, Len(lines))
Replaced(lines, first, last, new) ==
    SubSeq(lines, 1, first - 1) \o new \o SubSeq(lines, last + 1, Len(lines))

\* filePatcher.ApplyEdits, where the old string is one line.
Edited(lines, old, new) == [i \in DOMAIN lines |-> IF lines[i] = old THEN new ELSE lines[i]]
Occurrences(lines, old) == Cardinality({i \in DOMAIN lines : lines[i] = old})

\* ParsePatch: from the last `*** Begin Patch' to the last `*** End Patch', one
\* hunk for each header. A line is [k |-> its marker, path, line].
NewChunk(context) == [context |-> context, old |-> <<>>, new |-> <<>>, eof |-> FALSE]

\* parseUpdateFileChunks, one line of a chunk.
InChunk(c, l) ==
    CASE c.eof -> c
      [] l.k = " " -> [c EXCEPT !.old = Append(@, l.line), !.new = Append(@, l.line)]
      [] l.k = "-" -> [c EXCEPT !.old = Append(@, l.line)]
      [] l.k = "+" -> [c EXCEPT !.new = Append(@, l.line)]
      [] l.k = "eof" -> [c EXCEPT !.eof = TRUE]
      [] OTHER -> c

\* parsePatchHeader and parseAddFileContent: one line of the patch.
ParseLine(hunks, l) ==
    LET h == Last(hunks)
        last(new) == [hunks EXCEPT ![Len(hunks)] = new]
    IN CASE l.k \in {"add", "delete", "update"} ->
                Append(hunks, [kind |-> l.k, path |-> l.path, to |-> NoPath, lines |-> <<>>,
                               chunks |-> <<>>, open |-> TRUE])
         [] hunks = <<>> \/ l.k = "begin" -> hunks
         [] l.k = "end" -> last([h EXCEPT !.open = FALSE])
         [] ~h.open \/ h.kind = "delete" -> hunks
         [] h.kind = "add" -> IF l.k = "+" THEN last([h EXCEPT !.lines = Append(@, l.line)]) ELSE hunks
         [] l.k = "move" -> IF h.chunks = <<>> THEN last([h EXCEPT !.to = l.path]) ELSE hunks
         [] l.k = "@@" -> last([h EXCEPT !.chunks = Append(@, NewChunk(l.line))])
         [] h.chunks # <<>> -> last([h EXCEPT !.chunks[Len(h.chunks)] = InChunk(@, l)])
         [] OTHER -> hunks

Marks(text, k) == {i \in DOMAIN text : text[i].k = k}
WellMarked(text) ==
    /\ Marks(text, "begin") # {} /\ Marks(text, "end") # {}
    /\ Max(Marks(text, "begin")) < Max(Marks(text, "end"))
ParsePatch(text) ==
    FoldLeft(ParseLine, <<>>, SubSeq(text, Max(Marks(text, "begin")) + 1, Max(Marks(text, "end")) - 1))

\* The directories are directories, a call names its paths, and what is read of a patch
\* is a sequence of hunks.
ASSUME FilesAssumption ==
    /\ \A ds \in Disks : DOMAIN ds = {"base", "shadow", "out"} /\ \A d \in DOMAIN ds : IsDirectory(ds[d])
    /\ \A c \in Requests :
          /\ c.tool # "vfsPatch" => c.path \in Paths
          /\ c.tool = "vfsMove" => c.to \in Paths
          /\ c.tool = "vfsPatch" /\ WellMarked(c.text) => ParsePatch(c.text) \in Seq(Hunks)

\* tryMatch, with the four ways seekSequence compares two lines, each looser.
Same(a, b, k) == a[1] = b[1] /\ (a[2] = b[2] \/ (a[2] <= k /\ b[2] <= k))
TryMatch(lines, pattern, start, k, eof) ==
    LET end == Len(lines) - Len(pattern)
        fits == {i \in start..end : \A j \in DOMAIN pattern : Same(lines[i + j], pattern[j], k)}
    IN IF fits = {} THEN -1 ELSE IF eof /\ end \in fits THEN end ELSE Min(fits)

SeekSequence(lines, pattern, start, eof) ==
    LET ways == {k \in 0..3 : TryMatch(lines, pattern, start, k, eof) # -1}
    IN IF pattern = <<>> \/ ways = {} THEN -1 ELSE TryMatch(lines, pattern, start, Min(ways), eof)

WithoutBlank(s) == IF s # <<>> /\ Last(s) = Blank THEN Front(s) ELSE s

\* Mistake: a chunk is looked for from the top of the file again.
NextReplacementFromTop(lines, s, c) ==
    LET after == IF c.context = <<>> THEN 0 ELSE SeekSequence(lines, c.context, 0, FALSE) + 1
        at == SeekSequence(lines, c.old, after, c.eof)
    IN [ok |-> s.ok /\ at # -1, at |-> at + Len(c.old),
        done |-> Append(s.done, [start |-> at, length |-> Len(c.old), lines |-> c.new])]

\* computeReplacements, one chunk: its lines are looked for after the chunk
\* before it and after its context; with nothing to replace it goes to the end.
NextReplacement(lines, s, c) ==
    LET context == SeekSequence(lines, c.context, s.at, FALSE)
        after == IF c.context = <<>> THEN s.at ELSE context + 1
        end == IF lines # <<>> /\ Last(lines) = Blank THEN Len(lines) - 1 ELSE Len(lines)
        whole == SeekSequence(lines, c.old, after, c.eof)
        short == whole = -1 /\ c.old # <<>> /\ Last(c.old) = Blank
        old == IF short THEN Front(c.old) ELSE c.old
        new == IF short THEN WithoutBlank(c.new) ELSE c.new
        at == IF short THEN SeekSequence(lines, old, after, c.eof) ELSE whole
    IN CASE ~s.ok \/ (c.context # <<>> /\ context = -1) -> [s EXCEPT !.ok = FALSE]
         [] s.ok /\ c.old = <<>> ->
                [s EXCEPT !.at = after,
                          !.done = Append(@, [start |-> end, length |-> 0, lines |-> c.new])]
         [] OTHER -> [ok |-> at # -1, at |-> at + Len(old),
                      done |-> Append(s.done, [start |-> at, length |-> Len(old), lines |-> new])]

ComputeReplacements(lines, chunks) ==
    FoldLeft(LAMBDA s, c : NextReplacement(lines, s, c), [ok |-> TRUE, at |-> 0, done |-> <<>>], chunks)

\* applyReplacements: from the last to the first, so that places stay valid.
ApplyReplacements(lines, rs) ==
    FoldRight(LAMBDA r, text : InsertedAfter(Replaced(text, r.start + 1, r.start + r.length, <<>>),
                                             r.start, r.lines),
              SortSeq(rs, LAMBDA a, b : a.start < b.start), lines)

(***************************************************************************)
(* Execute of each tool, a step for each use of the file system.           *)
(***************************************************************************)
Writing(p, lines) == [op |-> "write", path |-> p, to |-> NoPath, lines |-> lines]
Deleting(p) == [op |-> "delete", path |-> p, to |-> NoPath, lines |-> <<>>]
Moving(p, to) == [op |-> "move", path |-> p, to |-> to, lines |-> <<>>]

Done(t, how) ==
    /\ outcome' = [outcome EXCEPT ![t] = how]
    /\ phase' = [phase EXCEPT ![t] = "done"]
    /\ plan' = [plan EXCEPT ![t] = <<>>]
    /\ UNCHANGED <<tree, setting, truncated, hunk, seen, changed, clash>>

\* vfsList, vfsFind and vfsGrep go through ListFiles and FindFiles in one step.
Looks(c) == c.tool \in {"vfsList", "vfsFind", "vfsGrep"}
Reads(c) == c.tool \in {"vfsRead", "vfsEdit", "vfsInsertAfterLine", "vfsReplaceLines"}
Edits(c) == Reads(c) /\ c.tool # "vfsRead"

\* The call is refused, or its arguments or its patch are.
Refuse(t) ==
    /\ phase[t] = "start"
    /\ FALSE \in ToolAllowed(call[t].tool)
    /\ Done(t, "refused")

RejectPatch(t) ==
    /\ phase[t] = "start" /\ call[t].tool = "vfsPatch"
    /\ TRUE \in ToolAllowed("vfsPatch")
    /\ ~WellMarked(call[t].text) \/ ParsePatch(call[t].text) = <<>>
    /\ Done(t, "rejected")

Look(t) ==
    /\ phase[t] = "start" /\ Looks(call[t])
    /\ TRUE \in ToolAllowed(call[t].tool)
    /\ \E ok \in Access(call[t].path, IF call[t].tool = "vfsFind" THEN "find" ELSE "list") :
           Done(t, IF ok THEN "ok" ELSE "refused")

Start(t) ==
    /\ phase[t] = "start" /\ ~Looks(call[t])
    /\ TRUE \in ToolAllowed(call[t].tool)
    /\ call[t].tool = "vfsPatch" => WellMarked(call[t].text) /\ ParsePatch(call[t].text) # <<>>
    /\ phase' = [phase EXCEPT ![t] = IF Reads(call[t]) \/ call[t].tool = "vfsPatch" THEN "read" ELSE "write"]
    /\ plan' = [plan EXCEPT ![t] =
                   CASE call[t].tool = "vfsWrite" -> <<Writing(call[t].path, call[t].lines)>>
                     [] call[t].tool = "vfsDelete" -> <<Deleting(call[t].path)>>
                     [] call[t].tool = "vfsMove" -> <<Moving(call[t].path, call[t].to)>>
                     [] OTHER -> <<>>]
    /\ UNCHANGED <<tree, setting, truncated, hunk, outcome, seen, changed, clash>>

\* The file is not there, is not the role's to read, or not what was expected:
\* expected_sha256 is compared with the text that was read.
Acceptable(c, lines) ==
    CASE c.tool = "vfsRead" -> TRUE
      [] c.tool = "vfsEdit" -> /\ Occurrences(lines, c.old) >= 1
                               /\ Occurrences(lines, c.old) = 1 \/ c.all
      [] c.tool = "vfsInsertAfterLine" -> /\ c.at <= Len(lines)
                                          /\ c.checked => c.expected = lines
      [] c.tool = "vfsReplaceLines" -> /\ c.first >= 1 /\ c.last >= c.first /\ c.last <= Len(lines)
                                       /\ c.checked => c.expected = lines

NewText(c, lines) ==
    CASE c.tool = "vfsEdit" -> Edited(lines, c.old, c.new)
      [] c.tool = "vfsInsertAfterLine" -> InsertedAfter(lines, c.at, c.lines)
      [] c.tool = "vfsReplaceLines" -> Replaced(lines, c.first, c.last, c.lines)

CannotRead(p, ok) == ~ok \/ ~MayRead(p)

ReadFile(t) ==
    /\ phase[t] = "read" /\ Reads(call[t])
    /\ \E ok \in Access(call[t].path, "read") :
           IF CannotRead(call[t].path, ok) THEN Done(t, IF ok THEN "failed" ELSE "refused")
           ELSE IF ~Acceptable(call[t], Text(call[t].path)) THEN Done(t, "rejected")
           ELSE /\ seen' = [seen EXCEPT ![t] = Text(call[t].path)]
                /\ plan' = [plan EXCEPT ![t] = IF Edits(call[t])
                                THEN <<Writing(call[t].path, NewText(call[t], Text(call[t].path)))>>
                                ELSE <<>>]
                /\ phase' = [phase EXCEPT ![t] = "write"]
                /\ UNCHANGED <<tree, setting, truncated, hunk, outcome, changed, clash>>

\* What one hunk comes to, once its file is read: nothing if it does not fit.
Changes(h, lines) ==
    LET r == ComputeReplacements(lines, h.chunks)
        new == ApplyReplacements(lines, r.done)
    IN CASE h.kind = "add" -> <<Writing(h.path, h.lines)>>
         [] h.kind = "delete" -> <<Deleting(h.path)>>
         [] h.kind = "update" /\ ~r.ok -> <<>>
         [] h.kind = "update" /\ r.ok /\ h.to = NoPath -> <<Writing(h.path, new)>>
         [] OTHER -> <<Writing(h.to, new), Deleting(h.path)>>

\* A file cannot be read, or a chunk does not fit: nothing has been written yet.
RejectHunk(t) == Done(t, "rejected")

ReadHunk(t) ==
    LET hunks == ParsePatch(call[t].text)
        h == hunks[hunk[t]]
        lines == IF h.kind = "add" THEN <<>> ELSE Text(h.path)
    IN /\ phase[t] = "read" /\ call[t].tool = "vfsPatch" /\ hunk[t] <= Len(hunks)
       /\ \E ok \in (IF h.kind = "add" THEN {TRUE} ELSE Access(h.path, "read")) :
              IF h.kind # "add" /\ CannotRead(h.path, ok) THEN (IF ok THEN RejectHunk(t) ELSE Done(t, "refused"))
              ELSE IF Changes(h, lines) = <<>> THEN RejectHunk(t)
              ELSE /\ seen' = [seen EXCEPT ![t] = IF hunk[t] = 1 THEN lines ELSE @]
                   /\ plan' = [plan EXCEPT ![t] = @ \o Changes(h, lines)]
                   /\ hunk' = [hunk EXCEPT ![t] = @ + 1]
                   /\ phase' = [phase EXCEPT ![t] = IF hunk[t] = Len(hunks) THEN "write" ELSE "read"]
                   /\ UNCHANGED <<tree, setting, truncated, outcome, changed, clash>>

Finish(t) == phase[t] = "write" /\ plan[t] = <<>> /\ Done(t, "ok")

\* Mistake: only the file that is moved is looked up in the rules.
NeedsSource(o) == {<<o.path, o.op>>}

\* The rights an operation needs: AccessControlVFS checks them one by one.
Needs(o) ==
    CASE o.op = "write" -> {<<o.path, "write">>}
      [] o.op = "delete" -> {<<o.path, "delete">>}
      [] o.op = "move" -> {<<o.path, "move">>, <<o.to, "write">>}

Possible(o) ==
    CASE o.op = "write" -> MayWrite(o.path)
      [] o.op = "delete" -> MayDelete(o.path)
      [] o.op = "move" -> MayMove(o.path, o.to)

MayPass(o) == \A n \in Needs(o) : TRUE \in Access(n[1], n[2])
MayFail(o) == \E n \in Needs(o) : FALSE \in Access(n[1], n[2])

\* The rest of a patch is not written either.
OperationFails(t) ==
    /\ phase[t] = "write" /\ plan[t] # <<>>
    /\ \/ MayFail(plan[t][1]) /\ Done(t, "refused")
       \/ MayPass(plan[t][1]) /\ ~Possible(plan[t][1]) /\ Done(t, "failed")

\* A file another thread has open goes where it is moved, or is gone.
Follow(u, o) ==
    LET p == truncated[u]
    IN IF p = NoPath \/ p.root # Place(o.path) \/ ~Under(p.names, o.path.names) THEN p
       ELSE IF o.op = "delete" THEN NoPath
       ELSE [root |-> Place(o.to), names |-> o.to.names \o SubSeq(p.names, Len(o.path.names) + 1, Len(p.names))]

Changed(t, new) ==
    /\ tree' = new
    /\ changed' = [changed EXCEPT ![t] = TRUE]
    /\ clash' = [u \in Threads |-> clash[u] \/ (u # t /\ phase[u] \notin {"start", "done"})
                                   \/ (u = t /\ \E w \in Threads \ {t} : phase[w] \notin {"start", "done"})]
    /\ UNCHANGED <<setting, hunk, outcome, seen>>

\* WriteFile opens the file with O_TRUNC and writes the text then.
Truncate(t) ==
    /\ phase[t] = "write" /\ plan[t] # <<>>
    /\ LET o == plan[t][1]
       IN /\ o.op = "write" /\ MayPass(o) /\ Possible(o)
          /\ Changed(t, [tree EXCEPT ![Place(o.path)] = Put(@, o.path.names, <<>>)])
          /\ truncated' = [truncated EXCEPT ![t] = [root |-> Place(o.path), names |-> o.path.names]]
    /\ phase' = [phase EXCEPT ![t] = "fill"]
    /\ UNCHANGED plan

\* Two threads that write one file at once each write from its start.
Over(new, old) == new \o SubSeq(old, Len(new) + 1, Len(old))

Fill(t) ==
    /\ phase[t] = "fill"
    /\ LET p == truncated[t]
       IN IF p = NoPath THEN UNCHANGED <<tree, setting, hunk, outcome, seen, changed, clash>>
          ELSE Changed(t, [tree EXCEPT ![p.root][p.names].lines = Over(plan[t][1].lines, @)])
    /\ truncated' = [truncated EXCEPT ![t] = NoPath]
    /\ plan' = [plan EXCEPT ![t] = Tail(@)]
    /\ phase' = [phase EXCEPT ![t] = "write"]

DeleteOrMove(t) ==
    /\ phase[t] = "write" /\ plan[t] # <<>>
    /\ LET o == plan[t][1]
           d == Place(o.path)
       IN /\ o.op # "write" /\ MayPass(o) /\ Possible(o)
          /\ Changed(t, IF o.op = "delete" THEN [tree EXCEPT ![d] = Without(@, o.path.names)]
                        ELSE Moved(d, o.path.names, Place(o.to), o.to.names))
          /\ truncated' = [u \in Threads |-> Follow(u, o)]
    /\ plan' = [plan EXCEPT ![t] = Tail(@)]
    /\ UNCHANGED phase

FilesInit ==
    /\ tree \in Disks /\ role \in Roles /\ hide \in HideChoices /\ shadow \in ShadowChoices
    /\ call \in [Threads -> Requests]
    /\ phase = [t \in Threads |-> "start"] /\ plan = [t \in Threads |-> <<>>]
    /\ truncated = [t \in Threads |-> NoPath] /\ hunk = [t \in Threads |-> 1]
    /\ outcome = [t \in Threads |-> "none"] /\ seen = [t \in Threads |-> <<>>]
    /\ changed = [t \in Threads |-> FALSE] /\ clash = [t \in Threads |-> FALSE]

FilesStep(t) ==
    \/ Refuse(t) \/ RejectPatch(t) \/ Look(t) \/ Start(t) \/ ReadFile(t) \/ ReadHunk(t)
    \/ Finish(t) \/ OperationFails(t) \/ Truncate(t) \/ Fill(t) \/ DeleteOrMove(t)

FilesNext == \E t \in Threads : FilesStep(t)

FilesSpec == FilesInit /\ [][FilesNext]_fvars

(***************************************************************************)
(* Properties                                                              *)
(***************************************************************************)
\* The two directories look like one, whatever has been written, moved or
\* deleted in it: a file that is listed can be read by the name it is listed
\* under, what can be read and is not hidden is listed, and searching by name
\* finds what a listing shows, by content what can be read of that.
OneTree ==
    LET rel(names) == [root |-> "rel", names |-> names]
        all == ListFiles(rel(<<>>), TRUE)
        readable == {q \in all : MayRead(rel(q)) /\ TRUE \in Access(rel(q), "read")}
    IN /\ \A q \in all : q \in DOMAIN tree[Place(rel(q))]
       /\ \A d \in {"base", "shadow"} : \A q \in DOMAIN tree[d] :
              MayRead(rel(q)) /\ ~Hidden(q) /\ q # <<>> => q \in all
       /\ all = FindFiles([parts |-> <<AnyNames>>, slash |-> FALSE, dir |-> FALSE, negate |-> FALSE], TRUE)
       /\ \A line \in UNION {ToSet(Text(rel(q))) : q \in readable} :
              Search(rel(<<>>), line) = {q \in readable : line \in ToSet(Text(rel(q)))}

\* A directory that is made to hold a file is no change of its own.
Node(f, q) == IF q \in DOMAIN f THEN f[q] ELSE Directory
StaysThere(d, q) == (q \in DOMAIN tree[d]) <=> (q \in DOMAIN tree'[d])

\* The path of an operation lets what it leads to, or what is in that, change.
LetChange(p, d, q) ==
    /\ p # NoPath /\ Place(p) = d /\ Under(q, p.names)
    /\ p.names # q => ~StaysThere(d, p.names)
    /\ \E op \in (IF q \in DOMAIN tree'[d] THEN {"write"} ELSE {"delete", "move"}) : TRUE \in Access(p, op)

\* A file changes, appears or goes only if a rule of the role allows it (access.go): a
\* new text needs the right to write there, a file that is gone the right to
\* delete it or to move it, and of its new name to write; a
\* directory moves with all that is in it. The path is the one the call
\* named, or the file it was let to open.
ChangeAllowed ==
    \A d \in DOMAIN tree : tree[d] # tree'[d] =>
        \A q \in DOMAIN tree[d] \union DOMAIN tree'[d] : Node(tree[d], q) # Node(tree'[d], q) =>
            \/ \E t \in Threads : truncated[t] = [root |-> d, names |-> q]
            \/ \E t \in Threads : /\ plan[t] # <<>>
                                  /\ \E p \in {plan[t][1].path, plan[t][1].to} : LetChange(p, d, q)
ChangesAllowed == [][ChangeAllowed]_fvars

\* A patch that is rejected, because a file is not there or one of its chunks
\* does not fit, has changed nothing, also not what its first hunks name.
RejectedChangesNothing ==
    \A t \in Threads : outcome[t] = "rejected" => ~changed[t]

\* An edit that succeeds on the text the agent had in mind, while no other call
\* ran, leaves the text the agent wanted: a chunk lands at its own place also
\* where its lines occur before, after its context or at the end of the file.
EditsInPlace ==
    \A t \in Threads :
        (outcome[t] = "ok" /\ "want" \in DOMAIN call[t] /\ seen[t] = call[t].from /\ ~clash[t]
            /\ \A u \in Threads \ {t} : phase[u] = "start")
        => MayRead(call[t].file) /\ Text(call[t].file) = call[t].want

\* An edit lands where it was meant to, and a rejected patch changes nothing
\* (patcher.go, vfs_patch.go).
EditsLand == EditsInPlace /\ RejectedChangesNothing

\* What vfsReplaceLines.md and vfsInsertAfterLine.md say: a call with
\* expected_sha256 writes the file only if its text is still the expected one.
WriteExpected ==
       \A t \in Threads :
          (phase[t] = "write" /\ phase'[t] = "fill" /\ "checked" \in DOMAIN call[t]) =>
              (call[t].checked => MayRead(call[t].path) /\ Text(call[t].path) = call[t].expected)
StaleEditsRejected == [][WriteExpected]_fvars
=============================================================================
