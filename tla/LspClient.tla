------------------------------ MODULE LspClient ------------------------------
(***************************************************************************)
(* The client of a language server (pkg/lsp): requests matched to their    *)
(* responses by id, documents opened and changed with a version, and a     *)
(* server that may die.  The tools of one answer call it in parallel.      *)
(*                                                                         *)
(* A message is written to the server in two writes no lock keeps          *)
(* together (writeMessage).  The reading goroutine ends with the server's  *)
(* output and wakes nobody: only Close cancels the context requests wait   *)
(* on, and nothing but tests calls Close.                                  *)
(***************************************************************************)
EXTENDS Naturals, FiniteSets

CONSTANTS Main,     \* the goroutine that builds the system
          Tools,    \* goroutines executing tools
          Docs,     \* documents
          MaxCalls  \* bound: calls of tools, Close included

NoDoc == "none"

\* No file is called the way "no document" is.
ASSUME LspAssumption == NoDoc \notin Docs /\ MaxCalls \in Nat

VARIABLES
    state,      \* initialized, initErr: "no", "starting", "failed", "done"
    cancelled,  \* ctx
    nextID,     \* id of the next request
    pending,    \* ids with a response channel
    reply,      \* id |-> what its channel holds
    openDocs,   \* document |-> version sent last, 0 when it was never opened
    caller,     \* goroutine |-> the call it is in
    disk,       \* document |-> its text, counted
    server,     \* the language server
    calls,      \* calls so far
    \* history
    overlapped, \* documents two touches of which overlapped
    untouched   \* documents changed without a touch since one last read them

client == <<state, cancelled, nextID, pending, reply, openDocs>>
vars == <<client, caller, disk, server, calls, overlapped, untouched>>

Callers == Tools \cup {Main}
Idle == [at |-> "idle", method |-> "none", doc |-> NoDoc, text |-> 0, version |-> 0, id |-> 0]
Ids == 1 .. MaxCalls + 1

Init ==
    /\ state = "no" /\ cancelled = FALSE /\ nextID = 1
    /\ pending = {} /\ reply = [i \in Ids |-> 0]
    /\ openDocs = [d \in Docs |-> 0]
    /\ caller = [c \in Callers |-> Idle]
    /\ disk = [d \in Docs |-> 0]
    /\ server = [alive |-> FALSE, intact |-> TRUE, asked |-> {},
                 version |-> [d \in Docs |-> 0], text |-> [d \in Docs |-> 0]]
    /\ calls = 0 /\ overlapped = {} /\ untouched = {}

At(c, places) == caller[c].at \in places
Goto(c, place) == caller' = [caller EXCEPT ![c].at = place]
Return(c) == caller' = [caller EXCEPT ![c] = Idle]

-----------------------------------------------------------------------------
(* sendRequest, sendNotification, writeMessage.                            *)

\* Mistake: the counter is read and advanced in two steps.
RegisterSameID(c, method) ==
    /\ caller' = [caller EXCEPT ![c] = [Idle EXCEPT !.at = "header", !.method = method, !.id = nextID]]
    /\ nextID' = IF \E d \in Callers : At(d, {"header", "data"}) THEN nextID ELSE nextID + 1
    /\ pending' = pending \cup {nextID}
    /\ UNCHANGED <<cancelled, reply, openDocs>>

\* A request takes the next id and registers its channel before it is written.
Register(c, method) ==
    /\ caller' = [caller EXCEPT ![c] = [Idle EXCEPT !.at = "header", !.method = method, !.id = nextID]]
    /\ nextID' = nextID + 1
    /\ pending' = pending \cup {nextID}
    /\ UNCHANGED <<cancelled, reply, openDocs>>

\* The first of the two writes of a message.
WriteHeader(c) ==
    /\ At(c, {"header"}) /\ server.alive
    /\ Goto(c, "data")
    /\ server' = [server EXCEPT !.intact = @ /\ \A d \in Callers : ~At(d, {"data"})]
    /\ UNCHANGED <<client, disk, calls, overlapped, untouched>>

\* What the server makes of a whole message.  It ignores a document opened twice and a
\* change that is not newer.
Received(c) ==
    LET m == caller[c] IN
    CASE m.id # 0 -> [server EXCEPT !.asked = @ \cup {m.id}]
      [] m.id = 0 /\ m.doc # NoDoc /\ m.version > server.version[m.doc]
                  /\ (m.version = 1) = (server.version[m.doc] = 0) ->
            [server EXCEPT !.version[m.doc] = m.version, !.text[m.doc] = m.text]
      [] OTHER -> server

\* The second write.  Behind another message's header it is no message.
WriteData(c) ==
    /\ At(c, {"data"}) /\ server.alive
    /\ server' = IF server.intact THEN Received(c) ELSE server
    /\ \/ caller[c].id # 0 /\ Goto(c, "wait") /\ UNCHANGED state
       \/ caller[c].method \in {"didOpen", "didChange"} /\ Goto(c, "record") /\ UNCHANGED state
       \/ caller[c].method = "initialized" /\ Return(c) /\ state' = "done"
       \/ caller[c].method = "exit" /\ Goto(c, "cancel") /\ UNCHANGED state
    /\ UNCHANGED <<cancelled, nextID, pending, reply, openDocs, disk, calls, overlapped, untouched>>

\* A failed request leaves no channel behind; a failed Init leaves the server running.
Failed(c) ==
    /\ pending' = pending \ {caller[c].id}
    /\ state' = IF caller[c].method \in {"initialize", "initialized"} THEN "failed" ELSE state
    /\ \/ caller[c].method = "shutdown"
          /\ caller' = [caller EXCEPT ![c] = [Idle EXCEPT !.at = "header", !.method = "exit"]]
       \/ caller[c].method = "exit" /\ Goto(c, "cancel")
       \/ caller[c].method \notin {"shutdown", "exit"} /\ Return(c)
    /\ UNCHANGED <<cancelled, nextID, reply, openDocs>>

\* Writing to a server that is gone fails.
WriteFails(c) ==
    /\ At(c, {"header", "data"}) /\ ~server.alive
    /\ Failed(c)
    /\ UNCHANGED <<disk, server, calls, overlapped, untouched>>

\* The response arrived: the request is done.
Answered(c) ==
    /\ pending' = pending \ {caller[c].id}
    /\ UNCHANGED <<cancelled, nextID, reply, openDocs, state>>
    /\ \/ caller[c].method = "initialize"
          /\ caller' = [caller EXCEPT ![c] = [Idle EXCEPT !.at = "header", !.method = "initialized"]]
       \/ caller[c].method = "shutdown"
          /\ caller' = [caller EXCEPT ![c] = [Idle EXCEPT !.at = "header", !.method = "exit"]]
       \/ caller[c].method = "query" /\ Return(c)

\* select: the response, an error among them, or the cancelled context.
Wait(c) ==
    /\ At(c, {"wait"})
    /\ \/ reply[caller[c].id] # 0 /\ (Answered(c) \/ Failed(c))
       \/ cancelled /\ Failed(c)
    /\ UNCHANGED <<disk, server, calls, overlapped, untouched>>

-----------------------------------------------------------------------------
(* The reading goroutine and the server.                                   *)

\* handleMessage: a response goes to the channel of its id, if there is one.
HandleResponse(i) ==
    /\ server.alive /\ server.intact /\ i \in server.asked
    /\ server' = [server EXCEPT !.asked = @ \ {i}]
    /\ reply' = IF i \in pending /\ reply[i] = 0 THEN [reply EXCEPT ![i] = i] ELSE reply
    /\ UNCHANGED <<state, cancelled, nextID, pending, openDocs, caller, disk, calls, overlapped, untouched>>

\* The server crashes, or gives up on a garbled input.
ServerDies ==
    /\ server.alive
    /\ server' = [server EXCEPT !.alive = FALSE, !.asked = {}]
    /\ UNCHANGED <<client, caller, disk, calls, overlapped, untouched>>

-----------------------------------------------------------------------------
(* The methods of the client.                                              *)

\* Init: a server that does not start, or the initialize request.
Start ==
    /\ state = "no"
    /\ \/ /\ state' = "failed"
          /\ UNCHANGED <<cancelled, nextID, pending, reply, openDocs, caller, server>>
       \/ /\ state' = "starting"
          /\ server' = [server EXCEPT !.alive = TRUE]
          /\ Register(Main, "initialize")
    /\ UNCHANGED <<disk, calls, overlapped, untouched>>

Begin(c) == state = "done" /\ At(c, {"idle"}) /\ calls < MaxCalls /\ calls' = calls + 1

\* FindDefinition and the other questions.
Query(c) ==
    /\ Begin(c)
    /\ Register(c, "query")
    /\ UNCHANGED <<state, disk, server, overlapped, untouched>>

\* A tool writes the file and calls TouchAndValidate: vfsWrite, the tools that edit a
\* file, and vfsPatch, which touches its files when it has written them all.
Touch(c, d) ==
    /\ Begin(c)
    /\ disk' = [disk EXCEPT ![d] = @ + 1]
    /\ caller' = [caller EXCEPT ![c] = [Idle EXCEPT !.at = "read", !.doc = d]]
    /\ overlapped' = overlapped \cup {x \in {d} : \E o \in Callers : caller[o].doc = d}
    /\ UNCHANGED <<client, server, untouched>>

\* A file is written, moved or deleted by what touches none: vfsMove, vfsDelete, a
\* command of runBash, a vfsPatch that fails after its first file, or has not come to
\* touching this one, the user, or a tool for which the client is not initialized.
ChangeUntouched(d) ==
    /\ calls < MaxCalls /\ calls' = calls + 1
    /\ disk' = [disk EXCEPT ![d] = @ + 1]
    /\ untouched' = untouched \cup {d}
    /\ UNCHANGED <<client, caller, server, overlapped>>

\* The file is read, then whether it is open is looked up.  A file that was moved or
\* deleted meanwhile cannot be read, and the server is told nothing.
ReadFile(c) ==
    /\ At(c, {"read"})
    /\ \/ /\ caller' = [caller EXCEPT ![c].at = "lookup", ![c].text = disk[caller[c].doc]]
          /\ untouched' = untouched \ {caller[c].doc}
       \/ /\ caller[c].doc \in untouched /\ Return(c)
          /\ UNCHANGED untouched
    /\ UNCHANGED <<client, disk, server, calls, overlapped>>

Lookup(c) ==
    /\ At(c, {"lookup"})
    /\ LET v == openDocs[caller[c].doc] IN
       caller' = [caller EXCEPT ![c].at = "header", ![c].version = v + 1,
                                ![c].method = IF v = 0 THEN "didOpen" ELSE "didChange"]
    /\ UNCHANGED <<client, disk, server, calls, overlapped, untouched>>

\* Mistake: only the opening of a document is recorded.
RecordOpened(c) ==
    /\ At(c, {"record"})
    /\ openDocs' = [openDocs EXCEPT ![caller[c].doc] = 1]
    /\ Return(c)
    /\ UNCHANGED <<state, cancelled, nextID, pending, reply, disk, server, calls, overlapped, untouched>>

\* The version is recorded after it was sent; the diagnostics returned are those the
\* server published so far.
Record(c) ==
    /\ At(c, {"record"})
    /\ openDocs' = [openDocs EXCEPT ![caller[c].doc] = caller[c].version]
    /\ Return(c)
    /\ UNCHANGED <<state, cancelled, nextID, pending, reply, disk, server, calls, overlapped, untouched>>

Close(c) ==
    /\ Begin(c)
    /\ Register(c, "shutdown")
    /\ UNCHANGED <<state, disk, server, overlapped, untouched>>

\* The context is cancelled, which kills the server, and the process is waited for.
Cancel(c) ==
    /\ At(c, {"cancel"})
    /\ cancelled' = TRUE
    /\ server' = [server EXCEPT !.alive = FALSE, !.asked = {}]
    /\ Return(c)
    /\ UNCHANGED <<state, nextID, pending, reply, openDocs, disk, calls, overlapped, untouched>>

Step(c) == WriteHeader(c) \/ WriteData(c) \/ WriteFails(c) \/ Wait(c)
           \/ ReadFile(c) \/ Lookup(c) \/ Record(c) \/ Cancel(c)

Next ==
    \/ Start \/ ServerDies
    \/ \E c \in Callers : Step(c) \/ Query(c) \/ Close(c) \/ \E d \in Docs : Touch(c, d)
    \/ \E i \in Ids : HandleResponse(i)
    \/ \E d \in Docs : ChangeUntouched(d)

Fairness == /\ \A c \in Callers : WF_vars(Step(c))
            /\ WF_vars(\E i \in Ids : HandleResponse(i))

Spec == Init /\ [][Next]_vars /\ Fairness

-----------------------------------------------------------------------------
(* Properties.                                                             *)

\* Every goroutine waits for a response of its own: no two share an id, a channel is
\* registered for exactly the requests under way, and none is left when nobody asks
\* (sendRequest).
RequestsMatched ==
    /\ pending = {caller[c].id : c \in Callers} \ {0}
    /\ \A c, d \in Callers : caller[c].id # 0 /\ caller[c].id = caller[d].id => c = d

Current(d) ==
    server.alive /\ server.intact /\ (\A c \in Callers : caller[c].doc # d) => server.text[d] = disk[d]

\* The server has the text on disk of a document no tool is touching, unless it was
\* changed without a touch since one last read it, touches of it overlapped, messages
\* were mixed or the server died: a change that was missed is made good by the next
\* touch (TouchAndValidate).
ServerSeesDisk == \A d \in Docs : d \notin overlapped \cup untouched => Current(d)

\* A call ends, unless the server died under it or was sent mixed messages: the
\* client has no timeout of its own (sendRequest, readLoop).
RequestEnds(c) == ~At(c, {"idle"}) ~> (At(c, {"idle"}) \/ ~server.alive \/ ~server.intact)
=============================================================================
