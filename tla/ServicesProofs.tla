--------------------------- MODULE ServicesProofs ---------------------------
(***************************************************************************)
(* Proofs about three services of a run: the language server (LspClient),  *)
(* the shell commands and their container (Commands) and the OAuth tokens  *)
(* of a provider (TokenRefresh).  Each has an inductive invariant of its   *)
(* own.                                                                    *)
(***************************************************************************)
EXTENDS LspClient, Commands, TokenRefresh, FiniteSetTheorems, TLAPS

-----------------------------------------------------------------------------
(***************************************************************************)
(* The language server, for every set of tools and of documents and every  *)
(* number of calls.                                                        *)
(***************************************************************************)

(* The inductive invariant.                                                *)

Requests == {"initialize", "query", "shutdown"}
Changes == {"didOpen", "didChange"}
Methods == Requests \cup Changes \cup {"none", "initialized", "exit"}
Places == {"idle", "header", "data", "wait", "read", "lookup", "record", "cancel"}

Call == [at : Places, method : Methods, doc : Docs \cup {NoDoc},
         text : Nat, version : Nat, id : Nat]

Server == [alive : BOOLEAN, intact : BOOLEAN, asked : SUBSET Nat,
           version : [Docs -> Nat], text : [Docs -> Nat]]

LspTypeOK ==
    /\ caller \in [Callers -> Call] /\ server \in Server
    /\ nextID \in Nat \ {0}
    /\ openDocs \in [Docs -> Nat] /\ disk \in [Docs -> Nat]
    /\ state \in {"no", "starting", "failed", "done"}

\* An id is that of a request that is written or waits; the next one is new.
IdsFit ==
    \A c \in Callers :
        /\ caller[c].id # 0 => At(c, {"header", "data", "wait"}) /\ caller[c].method \in Requests
        /\ caller[c].id < nextID

\* A tool that touches a document is where its method says.
Fits(c) ==
    /\ caller[c].doc # NoDoc =>
          /\ At(c, {"read", "lookup", "header", "data", "record"}) /\ caller[c].id = 0
          /\ At(c, {"header", "data", "record"}) => caller[c].method \in Changes
    /\ At(c, {"read", "lookup", "record"}) \/ caller[c].method \in Changes =>
          caller[c].doc # NoDoc

TouchesFit == \A c \in Callers : Fits(c)

\* Nothing has happened before Init of the client.
NothingBefore ==
    state = "no" =>
        /\ \A c \in Callers : caller[c] = Idle
        /\ ~server.alive
        /\ \A d \in Docs : openDocs[d] = 0 /\ (d \in untouched \/ disk[d] = 0)
                            /\ server.version[d] = 0 /\ server.text[d] = 0

\* A document that was touched by one tool at a time is with the server as the client
\* has recorded it, or as its touch has sent it: with the text on disk when it was read.
Synced(d) ==
    /\ \A c, e \in Callers : caller[c].doc = d /\ caller[e].doc = d => c = e
    /\ \A c \in Callers : caller[c].doc = d =>
          /\ ~At(c, {"read"}) /\ d \notin untouched => caller[c].text = disk[d]
          /\ ~At(c, {"record"}) => server.version[d] = openDocs[d]
          /\ At(c, {"header", "data"}) => caller[c].version = openDocs[d] + 1
          /\ At(c, {"record"}) => server.version[d] = caller[c].version
                                  /\ (d \in untouched \/ server.text[d] = disk[d])
    /\ (\A c \in Callers : caller[c].doc # d) =>
          server.version[d] = openDocs[d] /\ (d \in untouched \/ server.text[d] = disk[d])

DocsSynced ==
    server.alive /\ server.intact => \A d \in Docs \ overlapped : Synced(d)

Inv == LspTypeOK /\ IdsFit /\ RequestsMatched /\ TouchesFit /\ NothingBefore /\ DocsSynced

-----------------------------------------------------------------------------
(* Types.                                                                  *)

LEMMA IdleIsCall ==
    /\ Idle \in Call /\ Idle.id = 0 /\ Idle.doc = NoDoc /\ Idle.at = "idle" /\ Idle.method = "none"
    /\ \A at \in Places, m \in Methods, i \in Nat :
          /\ [Idle EXCEPT !.at = at, !.method = m] \in Call
          /\ [Idle EXCEPT !.at = at, !.method = m, !.id = i] \in Call
    /\ \A d \in Docs : [Idle EXCEPT !.at = "read", !.doc = d] \in Call
  BY DEF Idle, Call, Places, Methods, Requests, Changes

LEMMA TypeInit == Init => LspTypeOK
<1> SUFFICES ASSUME Init PROVE LspTypeOK
  OBVIOUS
<1>1. caller \in [Callers -> Call]
  BY IdleIsCall DEF Init
<1>2. server \in Server
  BY DEF Init, Server
<1>3. QED
  BY <1>1, <1>2 DEF Init, LspTypeOK

\* What a step makes of its goroutine's call.
Becomes(c, new) == caller' = [caller EXCEPT ![c] = new]

LEMMA BecomesTyped ==
    ASSUME LspTypeOK, NEW c \in Callers, NEW new \in Call, Becomes(c, new)
    PROVE  /\ caller' \in [Callers -> Call] /\ caller'[c] = new
           /\ \A e \in Callers \ {c} : caller'[e] = caller[e]
  BY DEF LspTypeOK, Becomes

LEMMA GotoBecomes ==
    ASSUME LspTypeOK, NEW c \in Callers, NEW place \in Places, Goto(c, place)
    PROVE  /\ caller' \in [Callers -> Call]
           /\ caller'[c] = [caller[c] EXCEPT !.at = place]
           /\ \A e \in Callers \ {c} : caller'[e] = caller[e]
<1>1. [caller[c] EXCEPT !.at = place] \in Call
  BY DEF LspTypeOK, Call
<1>2. QED
  BY <1>1 DEF LspTypeOK, Goto

-----------------------------------------------------------------------------
(* The kinds of steps.                                                     *)

OthersStay(c) == \A e \in Callers \ {c} : caller'[e] = caller[e]

\* A goroutine takes an id for a request, ...
Registers(c) ==
    /\ caller[c].id = 0 /\ caller'[c].id = nextID
    /\ caller'[c].at = "header" /\ caller'[c].method \in Requests /\ caller'[c].doc = NoDoc
    /\ nextID' = nextID + 1 /\ pending' = pending \cup {nextID}

\* ... goes on with what it does, with its id, ...
Continues(c) ==
    /\ caller'[c].id = caller[c].id /\ caller'[c].method = caller[c].method
    /\ caller[c].id # 0 => At(c, {"header", "data", "wait"})'
    /\ UNCHANGED <<nextID, pending>>

\* ... or is done with the request, if it made one.
Drops(c) ==
    /\ caller'[c].id = 0
    /\ UNCHANGED nextID /\ pending' = pending \ {caller[c].id}

LEMMA IdsStep ==
    ASSUME Inv, NEW c \in Callers, OthersStay(c), caller'[c] \in Call,
           Registers(c) \/ Continues(c) \/ Drops(c)
    PROVE  IdsFit' /\ RequestsMatched'
<1>1. nextID \in Nat \ {0} /\ caller[c] \in Call
  BY DEF Inv, LspTypeOK
<1>2. CASE Registers(c)
  <2>1. caller[c].id = 0 /\ nextID' = nextID + 1
    BY <1>2, IdleIsCall DEF Registers
  <2>2. IdsFit'
    BY <1>1, <1>2, <2>1 DEF Inv, IdsFit, OthersStay, Registers, At, LspTypeOK, Call
  <2>3. \A e \in Callers : caller[e].id # nextID
    BY <1>1 DEF Inv, IdsFit, LspTypeOK, Call
  <2>4. QED
    BY <1>1, <1>2, <2>1, <2>2, <2>3 DEF Inv, RequestsMatched, OthersStay, Registers
<1>3. CASE Continues(c)
  <2>1. \A e \in Callers : caller'[e].id = caller[e].id
    BY <1>3 DEF Continues, OthersStay
  <2>2. UNCHANGED <<nextID, pending>>
    BY <1>3 DEF Continues
  <2>3. RequestsMatched'
    BY <2>1, <2>2 DEF Inv, RequestsMatched
  <2>4. IdsFit'
    BY <1>3, <2>1, <2>2 DEF Inv, IdsFit, OthersStay, Continues, At
  <2>5. QED
    BY <2>3, <2>4
<1>4. CASE Drops(c)
  <2>1. IdsFit'
    BY <1>1, <1>4 DEF Inv, IdsFit, OthersStay, Drops, At
  <2>2. QED
    BY <1>1, <1>4, <2>1 DEF Inv, RequestsMatched, OthersStay, Drops
<1>5. QED
  BY <1>2, <1>3, <1>4

-----------------------------------------------------------------------------
(* What a step has to show.                                                *)

LEMMA StepPreserves ==
    ASSUME Inv, NEW c \in Callers, OthersStay(c), caller' \in [Callers -> Call],
           Registers(c) \/ Continues(c) \/ Drops(c), Fits(c)',
           state' \in {"starting", "failed", "done"}, server' \in Server,
           openDocs' \in [Docs -> Nat], disk' \in [Docs -> Nat], DocsSynced'
    PROVE  Inv'
<1>1. IdsFit' /\ RequestsMatched'
  <2>1. caller'[c] \in Call
    OBVIOUS
  <2>2. QED
    BY <2>1, IdsStep
<1>2. nextID' \in Nat \ {0}
  BY DEF Inv, LspTypeOK, Registers, Continues, Drops
<1>3. LspTypeOK'
  BY <1>2 DEF LspTypeOK
<1>4. TouchesFit'
  BY DEF Inv, TouchesFit, Fits, OthersStay, At
<1>5. NothingBefore'
  BY DEF NothingBefore
<1>6. QED
  BY <1>1, <1>3, <1>4, <1>5 DEF Inv

\* A step that has to do with other documents only.
Keeps(x) ==
    /\ openDocs'[x] = openDocs[x] /\ disk'[x] = disk[x] /\ (x \in untouched' <=> x \in untouched)
    /\ server'.version[x] = server.version[x] /\ server'.text[x] = server.text[x]

LEMMA SyncedElsewhere ==
    ASSUME NEW c \in Callers, OthersStay(c), NEW x \in Docs,
           caller[c].doc # x, caller'[c].doc # x, Keeps(x), Synced(x)
    PROVE  Synced(x)'
<1>1. \A e \in Callers : caller'[e].doc = x \/ caller[e].doc = x => e # c /\ caller'[e] = caller[e]
  BY DEF OthersStay
<1>2. QED
  BY <1>1 DEF Synced, Keeps, At

Worse == server'.alive /\ server'.intact => server.alive /\ server.intact

LEMMA QuietStep ==
    ASSUME Inv, NEW c \in Callers, OthersStay(c), caller[c].doc = NoDoc, caller'[c].doc = NoDoc,
           Worse, overlapped' = overlapped, \A x \in Docs : Keeps(x)
    PROVE  DocsSynced'
<1> SUFFICES ASSUME server'.alive /\ server'.intact, NEW x \in Docs \ overlapped
             PROVE  Synced(x)'
  BY DEF DocsSynced
<1>1. Synced(x)
  BY DEF Worse, Inv, DocsSynced
<1>2. x # NoDoc
  BY LspAssumption
<1>3. QED
  BY <1>1, <1>2, SyncedElsewhere

\* A step of a tool that goes on with its document, or is done with it.
LEMMA TouchStep ==
    ASSUME Inv, NEW c \in Callers, OthersStay(c), NEW d \in Docs,
           caller[c].doc \in {d, NoDoc}, caller'[c].doc \in {d, NoDoc},
           Worse, overlapped \subseteq overlapped', \A x \in Docs \ {d} : Keeps(x),
           server'.alive /\ server'.intact /\ d \notin overlapped' => Synced(d)'
    PROVE  DocsSynced'
<1> SUFFICES ASSUME server'.alive /\ server'.intact, NEW x \in Docs \ overlapped', x # d
             PROVE  Synced(x)'
  BY DEF DocsSynced
<1>1. Synced(x)
  BY DEF Worse, Inv, DocsSynced
<1>2. x # NoDoc
  BY LspAssumption
<1>3. QED
  BY <1>1, <1>2, SyncedElsewhere

-----------------------------------------------------------------------------
(* The beginning of a call.                                                *)

LEMMA Nowhere ==
    ASSUME Inv, NEW c \in Callers, At(c, Places \ {"idle"})
    PROVE  state # "no"
  BY IdleIsCall DEF Inv, NothingBefore, At

LEMMA IdleFree ==
    ASSUME Inv, NEW c \in Callers, At(c, {"idle"})
    PROVE  caller[c].id = 0 /\ caller[c].doc = NoDoc
  BY DEF Inv, IdsFit, TouchesFit, Fits, At

\* A request of a goroutine that is idle.
LEMMA RegisterPreserves ==
    ASSUME Inv, NEW c \in Callers, At(c, {"idle"}), NEW m \in Requests, Register(c, m),
           state' \in {"starting", "failed", "done"}, server' \in Server,
           Worse, UNCHANGED <<disk, overlapped, untouched, server.version, server.text>>
    PROVE  Inv'
<1> DEFINE new == [Idle EXCEPT !.at = "header", !.method = m, !.id = nextID]
<1>1. new \in Call /\ new.doc = NoDoc /\ new.at = "header" /\ new.method = m /\ new.id = nextID
  BY IdleIsCall DEF Inv, LspTypeOK, Places, Methods, Idle
<1>2. Becomes(c, new)
  BY DEF Register, Becomes
<1> HIDE DEF new
<1>3. caller' \in [Callers -> Call] /\ caller'[c] = new /\ OthersStay(c)
  BY <1>1, <1>2, BecomesTyped DEF Inv, OthersStay
<1>4. caller[c].id = 0 /\ caller[c].doc = NoDoc
  BY IdleFree
<1>5. Registers(c)
  BY <1>1, <1>3, <1>4 DEF Register, Registers
<1>6. Fits(c)'
  BY <1>1, <1>3 DEF Fits, At, Requests, Changes
<1>7. openDocs' = openDocs
  BY DEF Register
<1>8. DocsSynced'
  BY <1>1, <1>3, <1>4, <1>7, QuietStep DEF Keeps
<1>9. QED
  BY <1>3, <1>5, <1>6, <1>7, <1>8, StepPreserves DEF Inv, LspTypeOK

LEMMA QueryPreserves ==
    ASSUME Inv, NEW c \in Callers, Query(c) \/ Close(c)
    PROVE  Inv'
<1>1. /\ At(c, {"idle"}) /\ \E m \in Requests : Register(c, m)
      /\ state' = "done" /\ UNCHANGED <<disk, server, overlapped, untouched>>
  BY DEF Query, Close, Begin, Requests
<1>2. QED
  BY <1>1, RegisterPreserves DEF Worse, Inv, LspTypeOK

LEMMA StartPreserves == ASSUME Inv, Start PROVE Inv'
<1>1. state = "no" /\ UNCHANGED <<disk, calls, overlapped, untouched>>
  BY DEF Start
<1>2. (\A c \in Callers : caller[c] = Idle) /\ \A x \in Docs : Synced(x)
  BY <1>1, IdleIsCall, LspAssumption DEF Inv, NothingBefore, Synced
<1>3. CASE state' = "failed"
  <2>1. UNCHANGED <<nextID, pending, caller, server, openDocs, disk, overlapped, untouched>>
    BY <1>1, <1>3 DEF Start
  <2>2. LspTypeOK' /\ IdsFit' /\ RequestsMatched' /\ TouchesFit' /\ NothingBefore'
    BY <1>3, <2>1 DEF Inv, LspTypeOK, IdsFit, RequestsMatched, TouchesFit, Fits, NothingBefore, At
  <2>3. DocsSynced'
    BY <2>1 DEF Inv, DocsSynced, Synced, At
  <2>4. QED
    BY <2>2, <2>3 DEF Inv
<1>4. CASE state' # "failed"
  <2>1. /\ state' = "starting" /\ server' = [server EXCEPT !.alive = TRUE]
        /\ Register(Main, "initialize")
    BY <1>4 DEF Start
  <2> DEFINE new == [Idle EXCEPT !.at = "header", !.method = "initialize", !.id = nextID]
  <2>2. new \in Call /\ new.doc = NoDoc /\ new.at = "header" /\ new.method = "initialize"
        /\ new.id = nextID
    BY IdleIsCall DEF Inv, LspTypeOK, Places, Methods, Requests, Idle
  <2>3. Main \in Callers /\ Becomes(Main, new)
    BY <2>1 DEF Register, Becomes, Callers
  <2> HIDE DEF new
  <2>4. caller' \in [Callers -> Call] /\ caller'[Main] = new /\ OthersStay(Main)
    BY <2>2, <2>3, BecomesTyped DEF Inv, OthersStay
  <2>5. Registers(Main) /\ Fits(Main)'
    BY <1>2, <2>1, <2>2, <2>3, <2>4, IdleIsCall
    DEF Register, Registers, Fits, At, Requests, Changes
  <2>6. server' \in Server /\ openDocs' = openDocs /\ \A x \in Docs : Keeps(x)
    BY <1>1, <2>1 DEF Register, Keeps, Inv, LspTypeOK, Server
  <2>7. ASSUME NEW x \in Docs PROVE Synced(x)'
    <3>1. caller[Main].doc # x /\ caller'[Main].doc # x
      BY <1>2, <2>2, <2>3, <2>4, IdleIsCall, LspAssumption
    <3>2. QED
      BY <1>2, <2>3, <2>4, <2>6, <3>1, SyncedElsewhere
  <2>8. DocsSynced'
    BY <2>7 DEF DocsSynced
  <2>9. QED
    BY <1>1, <2>1, <2>3, <2>4, <2>5, <2>6, <2>8, StepPreserves DEF Inv, LspTypeOK
<1>5. QED
  BY <1>3, <1>4

\* A tool that touches a document nobody else is touching finds it synced.
LEMMA TouchPreserves ==
    ASSUME Inv, NEW c \in Callers, NEW d \in Docs, Touch(c, d)
    PROVE  Inv'
<1> DEFINE new == [Idle EXCEPT !.at = "read", !.doc = d]
<1>1. /\ new \in Call /\ new.doc = d /\ new.at = "read" /\ new.method = "none" /\ new.id = 0
      /\ Becomes(c, new)
  BY IdleIsCall DEF Idle, Touch, Becomes
<1> HIDE DEF new
<1>2. caller' \in [Callers -> Call] /\ caller'[c] = new /\ OthersStay(c)
  BY <1>1, BecomesTyped DEF Inv, OthersStay
<1>3. At(c, {"idle"}) /\ caller[c].id = 0 /\ caller[c].doc = NoDoc
  BY IdleFree DEF Touch, Begin
<1>4. /\ state' = "done" /\ disk' = [disk EXCEPT ![d] = @ + 1]
      /\ UNCHANGED <<nextID, pending, openDocs, server, untouched>>
  BY DEF Touch, Begin, client
<1>5. Drops(c)
  <2>1. pending' = pending \ {0}
    BY <1>4 DEF Inv, RequestsMatched
  <2>2. QED
    BY <1>1, <1>2, <1>3, <1>4, <2>1 DEF Drops
<1>6. Fits(c)'
  BY <1>1, <1>2, LspAssumption DEF Fits, At, Changes
<1>7. disk' \in [Docs -> Nat] /\ \A x \in Docs \ {d} : Keeps(x)
  BY <1>4 DEF Inv, LspTypeOK, Keeps
<1>8. DocsSynced'
  <2>1. ASSUME server'.alive /\ server'.intact, d \notin overlapped' PROVE Synced(d)'
    <3>1. d \notin overlapped /\ \A o \in Callers : caller[o].doc # d
      BY <2>1 DEF Touch
    <3>2. Synced(d)
      BY <1>4, <2>1, <3>1 DEF Inv, DocsSynced
    <3>3. \A o \in Callers : caller'[o].doc = d => o = c
      BY <3>1 , <1>2 DEF OthersStay
    <3>4. server'.version[d] = openDocs'[d]
      BY <1>4, <3>1, <3>2 DEF Synced
    <3>5. QED
      BY <1>1, <1>2, <3>3, <3>4 DEF Synced, At
  <2>2. overlapped \subseteq overlapped' /\ Worse
    BY <1>4 DEF Touch, Worse
  <2>3. QED
    BY <1>1, <1>2, <1>3, <1>7, <2>1, <2>2, TouchStep
<1>9. QED
  BY <1>2, <1>4, <1>5, <1>6, <1>7, <1>8, StepPreserves DEF Inv, LspTypeOK

-----------------------------------------------------------------------------
(* The messages of a request and of a touch.                               *)

LEMMA CallTyped ==
    ASSUME Inv, NEW c \in Callers
    PROVE  caller[c] \in Call /\ caller[c].id \in Nat /\ (caller[c].doc # NoDoc => caller[c].doc \in Docs)
  BY DEF Inv, LspTypeOK, Call

\* A goroutine that only goes on to another place.
LEMMA GotoContinues ==
    ASSUME Inv, NEW c \in Callers, NEW place \in Places, Goto(c, place),
           UNCHANGED <<nextID, pending>>,
           caller[c].id # 0 => place \in {"header", "data", "wait"}
    PROVE  /\ Continues(c) /\ OthersStay(c) /\ caller' \in [Callers -> Call]
           /\ caller'[c] = [caller[c] EXCEPT !.at = place]
           /\ caller'[c].at = place /\ caller'[c].doc = caller[c].doc
           /\ caller'[c].method = caller[c].method /\ caller'[c].text = caller[c].text
           /\ caller'[c].version = caller[c].version
<1>1. caller'[c] = [caller[c] EXCEPT !.at = place] /\ OthersStay(c) /\ caller' \in [Callers -> Call]
  BY GotoBecomes DEF Inv, OthersStay
<1>2. caller[c] \in Call
  BY CallTyped
<1>3. QED
  BY <1>1, <1>2 DEF Continues, At, Call

\* A goroutine that is done with its call, or goes on without an id.
LEMMA DropsRequest ==
    ASSUME Inv, NEW c \in Callers, NEW new \in Call, Becomes(c, new), new.id = 0,
           nextID' = nextID, pending' = pending \ {caller[c].id}
    PROVE  Drops(c) /\ OthersStay(c) /\ caller' \in [Callers -> Call] /\ caller'[c] = new
  BY BecomesTyped DEF Inv, Drops, OthersStay

LEMMA WriteHeaderPreserves ==
    ASSUME Inv, NEW c \in Callers, WriteHeader(c)
    PROVE  Inv'
<1>1. /\ At(c, {"header"}) /\ server.alive /\ Goto(c, "data")
      /\ server' = [server EXCEPT !.intact = @ /\ \A d \in Callers : ~At(d, {"data"})]
      /\ UNCHANGED <<state, nextID, pending, openDocs, disk, overlapped, untouched>>
  BY DEF WriteHeader, client
<1>2. /\ Continues(c) /\ OthersStay(c) /\ caller' \in [Callers -> Call]
      /\ caller'[c].at = "data" /\ caller'[c].doc = caller[c].doc
      /\ caller'[c].method = caller[c].method /\ caller'[c].text = caller[c].text
      /\ caller'[c].version = caller[c].version /\ caller'[c].id = caller[c].id
  BY <1>1, GotoContinues DEF Places, Continues
<1>3. Fits(c)'
  BY <1>1, <1>2 DEF Inv, TouchesFit, Fits, At
<1>4. /\ server' \in Server /\ Worse /\ \A x \in Docs : Keeps(x)
  BY <1>1 DEF Inv, LspTypeOK, Server, Worse, Keeps
<1>5. DocsSynced'
  <2>1. CASE caller[c].doc = NoDoc
    BY <1>1, <1>2, <1>4, <2>1, QuietStep
  <2>2. CASE caller[c].doc # NoDoc
    <3>1. PICK d \in Docs : d = caller[c].doc /\ d = caller'[c].doc
      BY <1>2, <2>2, CallTyped
    <3>2. ASSUME server'.alive /\ server'.intact, d \notin overlapped' PROVE Synced(d)'
      <4>1. Synced(d)
        BY <1>1, <1>4, <3>1, <3>2 DEF Worse, Inv, DocsSynced
      <4>2. \A e \in Callers : caller'[e].doc = caller[e].doc
        BY <1>2 DEF OthersStay
      <4>3. QED
        BY <1>1, <1>2, <1>4, <3>1, <4>1, <4>2 DEF Synced, Keeps, At
    <3>3. QED
      BY <1>1, <1>2, <1>4, <3>1, <3>2, TouchStep
  <2>3. QED
    BY <2>1, <2>2
<1>6. state # "no"
  BY <1>1, Nowhere DEF At, Places
<1>7. QED
  BY <1>1, <1>2, <1>3, <1>4, <1>5, <1>6, StepPreserves DEF Inv, LspTypeOK

\* The second write: a request waits, ...
LEMMA RequestSent ==
    ASSUME Inv, NEW c \in Callers, WriteData(c), caller[c].id # 0
    PROVE  Inv'
<1>1. /\ At(c, {"data"}) /\ caller[c].method \in Requests /\ caller[c].doc = NoDoc
  BY DEF WriteData, Inv, IdsFit, TouchesFit, Fits
<1>2. /\ Goto(c, "wait")
      /\ UNCHANGED <<state, nextID, pending, openDocs, disk, overlapped, untouched>>
      /\ server' = IF server.intact THEN Received(c) ELSE server
  BY <1>1 DEF WriteData, Requests
<1>3. /\ Continues(c) /\ OthersStay(c) /\ caller' \in [Callers -> Call]
      /\ caller'[c].at = "wait" /\ caller'[c].doc = NoDoc
      /\ caller'[c].method = caller[c].method
  BY <1>1, <1>2, GotoContinues DEF Places
<1>4. Fits(c)'
  BY <1>1, <1>3 DEF Fits, At, Requests, Changes
<1>5. caller[c].id \in Nat
  BY CallTyped
<1>6. Received(c) = [server EXCEPT !.asked = @ \cup {caller[c].id}]
  BY DEF Received
<1>7. server' \in Server /\ Worse /\ \A x \in Docs : Keeps(x)
  BY <1>2, <1>5, <1>6 DEF Inv, LspTypeOK, Server, Worse, Keeps
<1>8. DocsSynced'
  BY <1>1, <1>2, <1>3, <1>7, QuietStep
<1>9. state # "no"
  BY <1>1, Nowhere DEF At, Places
<1>10. QED
  BY <1>2, <1>3, <1>4, <1>7, <1>8, <1>9, StepPreserves DEF Inv, LspTypeOK

\* ... the server takes the text of a document that is synced, ...
LEMMA TouchReceived ==
    ASSUME Inv, NEW c \in Callers, NEW d \in Docs, caller[c].doc = d, At(c, {"data"}),
           server.alive, server.intact, d \notin overlapped
    PROVE  Received(c) = [server EXCEPT !.version[d] = caller[c].version, !.text[d] = caller[c].text]
<1>1. server.version[d] = openDocs[d] /\ caller[c].version = openDocs[d] + 1
  BY DEF Inv, DocsSynced, Synced, At
<1>2. caller[c].id = 0 /\ caller[c].doc # NoDoc /\ openDocs[d] \in Nat
  BY LspAssumption DEF Inv, TouchesFit, Fits, LspTypeOK
<1>3. /\ caller[c].version > server.version[d]
      /\ (caller[c].version = 1) = (server.version[d] = 0)
  BY <1>1, <1>2
<1>4. QED
  BY <1>1, <1>2, <1>3 DEF Received

\* ... or nothing of any other.
LEMMA ReceivedTyped ==
    ASSUME Inv, NEW c \in Callers
    PROVE  /\ Received(c) \in Server
           /\ Received(c).alive = server.alive /\ Received(c).intact = server.intact
           /\ \A x \in Docs : x # caller[c].doc =>
                 Received(c).version[x] = server.version[x] /\ Received(c).text[x] = server.text[x]
<1>1. server \in Server /\ caller[c] \in Call
  BY CallTyped DEF Inv, LspTypeOK
<1>2. CASE caller[c].id # 0
  BY <1>1, <1>2 DEF Received, Server, Call
<1>3. CASE /\ caller[c].id = 0 /\ caller[c].doc # NoDoc
           /\ caller[c].version > server.version[caller[c].doc]
           /\ (caller[c].version = 1) = (server.version[caller[c].doc] = 0)
  <2>1. caller[c].doc \in Docs /\ caller[c].version \in Nat /\ caller[c].text \in Nat
    BY <1>1, <1>3 DEF Call
  <2>2. Received(c) = [server EXCEPT !.version[caller[c].doc] = caller[c].version,
                                     !.text[caller[c].doc] = caller[c].text]
    BY <1>3 DEF Received
  <2>3. PICK d \in Docs, v \in Nat, t \in Nat :
           d = caller[c].doc /\ v = caller[c].version /\ t = caller[c].text
    BY <2>1
  <2> DEFINE version == [server.version EXCEPT ![d] = v]
             text == [server.text EXCEPT ![d] = t]
  <2>4. /\ version \in [Docs -> Nat] /\ text \in [Docs -> Nat]
        /\ \A x \in Docs : x # d => version[x] = server.version[x] /\ text[x] = server.text[x]
    BY <1>1 DEF Server
  <2>5. Received(c) = [server EXCEPT !.version = version, !.text = text]
    BY <1>1, <2>2, <2>3 DEF Server
  <2> HIDE DEF version, text
  <2>6. QED
    BY <1>1, <2>3, <2>4, <2>5 DEF Server
<1>4. CASE /\ caller[c].id = 0
           /\ ~ /\ caller[c].doc # NoDoc
                /\ caller[c].version > server.version[caller[c].doc]
                /\ (caller[c].version = 1) = (server.version[caller[c].doc] = 0)
  BY <1>1, <1>4 DEF Received
<1>5. QED
  BY <1>2, <1>3, <1>4

LEMMA ChangeSent ==
    ASSUME Inv, NEW c \in Callers, WriteData(c), caller[c].method \in Changes
    PROVE  Inv'
<1>1. /\ At(c, {"data"}) /\ caller[c].id = 0 /\ caller[c].doc # NoDoc /\ server.alive
  BY DEF WriteData, Inv, IdsFit, TouchesFit, Fits, Requests, Changes
<1>2. /\ Goto(c, "record")
      /\ UNCHANGED <<state, nextID, pending, openDocs, disk, overlapped, untouched>>
      /\ server' = IF server.intact THEN Received(c) ELSE server
  BY <1>1 DEF WriteData, Changes
<1>3. /\ Continues(c) /\ OthersStay(c) /\ caller' \in [Callers -> Call]
      /\ caller'[c].at = "record" /\ caller'[c].doc = caller[c].doc
      /\ caller'[c].method = caller[c].method /\ caller'[c].text = caller[c].text
      /\ caller'[c].version = caller[c].version
  BY <1>1, <1>2, GotoContinues DEF Places
<1>4. Fits(c)'
  BY <1>1, <1>3, CallTyped DEF Fits, At, Continues
<1>5. PICK d \in Docs : d = caller[c].doc /\ d = caller'[c].doc
  BY <1>1, <1>3, CallTyped
<1>6. server' \in Server /\ Worse
  BY <1>2, ReceivedTyped DEF Inv, LspTypeOK, Worse
<1>7. \A x \in Docs \ {d} : Keeps(x)
  BY <1>2, <1>5, ReceivedTyped DEF Keeps
<1>8. ASSUME server'.alive /\ server'.intact, d \notin overlapped' PROVE Synced(d)'
  <2>1. server.alive /\ server.intact /\ Synced(d)
    BY <1>2, <1>5, <1>6, <1>8 DEF Worse, Inv, DocsSynced
  <2>2. server' = [server EXCEPT !.version[d] = caller[c].version, !.text[d] = caller[c].text]
    BY <1>1, <1>2, <1>5, <1>8, <2>1, TouchReceived
  <2>3. server'.version[d] = caller[c].version /\ server'.text[d] = caller[c].text
    BY <2>2 DEF Inv, LspTypeOK, Server
  <2>4. (d \in untouched \/ caller[c].text = disk[d]) /\ \A e \in Callers : caller'[e].doc = d => e = c
    BY <1>1, <1>3, <1>5, <2>1 DEF Synced, At, OthersStay
  <2>5. QED
    BY <1>2, <1>3, <1>5, <2>3, <2>4 DEF Synced, At
<1>9. DocsSynced'
  BY <1>2, <1>3, <1>5, <1>6, <1>7, <1>8, TouchStep
<1>10. state # "no"
  BY <1>1, Nowhere DEF At, Places
<1>11. QED
  BY <1>2, <1>3, <1>4, <1>6, <1>9, <1>10, StepPreserves DEF Inv, LspTypeOK

LEMMA NoticeSent ==
    ASSUME Inv, NEW c \in Callers, WriteData(c), caller[c].id = 0,
           caller[c].method \in {"initialized", "exit"}
    PROVE  Inv'
<1>1. /\ At(c, {"data"}) /\ caller[c].doc = NoDoc
  BY DEF WriteData, Inv, TouchesFit, Fits, At, Changes
<1>2. /\ UNCHANGED <<nextID, pending, openDocs, disk, overlapped, untouched>>
      /\ server' = server
  BY <1>1 DEF WriteData, Received
<1>3. \A x \in Docs : Keeps(x)
  BY <1>2 DEF Keeps
<1>4. state # "no"
  BY <1>1, Nowhere DEF At, Places
<1>5. CASE caller[c].method = "initialized"
  <2>1. Becomes(c, Idle) /\ state' = "done"
    BY <1>5 DEF WriteData, Return, Becomes, Changes
  <2>2. pending' = pending \ {caller[c].id}
    BY <1>2 DEF Inv, RequestsMatched
  <2>3. /\ Drops(c) /\ OthersStay(c) /\ caller' \in [Callers -> Call] /\ caller'[c] = Idle
    BY <1>2, <2>1, <2>2, IdleIsCall, DropsRequest
  <2>4. Fits(c)'
    BY <2>3, IdleIsCall DEF Fits, At, Changes
  <2>5. DocsSynced'
    BY <1>1, <1>2, <1>3, <2>3, IdleIsCall, QuietStep DEF Worse
  <2>6. QED
    BY <1>2, <2>1, <2>3, <2>4, <2>5, StepPreserves DEF Inv, LspTypeOK
<1>6. CASE caller[c].method = "exit"
  <2>1. Goto(c, "cancel") /\ state' = state
    BY <1>6 DEF WriteData, Changes
  <2>2. /\ Continues(c) /\ OthersStay(c) /\ caller' \in [Callers -> Call]
        /\ caller'[c].at = "cancel" /\ caller'[c].doc = NoDoc /\ caller'[c].method = "exit"
    BY <1>1, <1>2, <1>6, <2>1, GotoContinues DEF Places
  <2>3. Fits(c)'
    BY <2>2 DEF Fits, At, Changes
  <2>4. DocsSynced'
    BY <1>1, <1>2, <1>3, <2>2, QuietStep DEF Worse
  <2>5. QED
    BY <1>2, <1>4, <2>1, <2>2, <2>3, <2>4, StepPreserves DEF Inv, LspTypeOK
<1>7. QED
  BY <1>5, <1>6

LEMMA WriteDataPreserves ==
    ASSUME Inv, NEW c \in Callers, WriteData(c)
    PROVE  Inv'
<1>1. \/ caller[c].id # 0 \/ caller[c].method \in Changes
      \/ caller[c].id = 0 /\ caller[c].method \in {"initialized", "exit"}
  BY DEF WriteData, Changes
<1>2. QED
  BY <1>1, RequestSent, ChangeSent, NoticeSent

-----------------------------------------------------------------------------
(* The end of a request.                                                   *)

\* A request that fails, or a touch whose server is gone.
LEMMA FailedPreserves ==
    ASSUME Inv, NEW c \in Callers, Failed(c), At(c, {"header", "data", "wait"}),
           caller[c].doc = NoDoc \/ ~server.alive, UNCHANGED <<disk, server, overlapped, untouched>>
    PROVE  Inv'
<1>1. /\ nextID' = nextID /\ pending' = pending \ {caller[c].id} /\ openDocs' = openDocs
      /\ \A x \in Docs : Keeps(x)
  BY DEF Failed, Keeps
<1>2. state # "no" /\ state' \in {"starting", "failed", "done"}
  <2>1. state # "no"
    BY Nowhere DEF At, Places
  <2>2. QED
    BY <2>1 DEF Failed, Inv, LspTypeOK
<1> DEFINE exit == [Idle EXCEPT !.at = "header", !.method = "exit"]
<1>3. exit \in Call /\ exit.id = 0 /\ exit.doc = NoDoc /\ exit.at = "header" /\ exit.method = "exit"
  BY IdleIsCall DEF Idle, Places, Methods
<1> HIDE DEF exit
<1>4. /\ Drops(c) /\ OthersStay(c) /\ caller' \in [Callers -> Call] /\ Fits(c)'
      /\ caller'[c].doc = NoDoc
  <2>1. CASE caller[c].method = "exit"
    <3>1. caller[c].id = 0 /\ caller[c].doc = NoDoc
      BY <2>1 DEF Inv, IdsFit, TouchesFit, Fits, At, Requests, Changes
    <3>2. Goto(c, "cancel") /\ pending' = pending
      BY <1>1, <2>1, <3>1 DEF Failed, Inv, RequestsMatched
    <3>3. /\ Continues(c) /\ OthersStay(c) /\ caller' \in [Callers -> Call]
          /\ caller'[c].at = "cancel" /\ caller'[c].doc = NoDoc /\ caller'[c].method = "exit"
      BY <1>1, <2>1, <3>1, <3>2, GotoContinues DEF Places
    <3>4. Drops(c)
      BY <1>1, <3>1, <3>3 DEF Drops, Continues
    <3>5. QED
      BY <3>3, <3>4 DEF Fits, At, Changes
  <2>2. CASE caller[c].method = "shutdown"
    <3>1. Becomes(c, exit)
      BY <2>2 DEF Failed, Becomes, exit
    <3>2. Drops(c) /\ OthersStay(c) /\ caller' \in [Callers -> Call] /\ caller'[c] = exit
      BY <1>1, <1>3, <3>1, DropsRequest
    <3>3. QED
      BY <1>3, <3>2 DEF Fits, At, Changes
  <2>3. CASE caller[c].method \notin {"shutdown", "exit"}
    <3>1. Becomes(c, Idle)
      BY <2>3 DEF Failed, Becomes, Return
    <3>2. Drops(c) /\ OthersStay(c) /\ caller' \in [Callers -> Call] /\ caller'[c] = Idle
      BY <1>1, IdleIsCall, <3>1, DropsRequest
    <3>3. QED
      BY IdleIsCall, <3>2 DEF Fits, At, Changes
  <2>4. QED
    BY <2>1, <2>2, <2>3
<1>5. DocsSynced'
  <2>1. CASE ~server.alive
    BY <2>1 DEF DocsSynced
  <2>2. CASE caller[c].doc = NoDoc
    BY <1>1, <1>4, <2>2, QuietStep DEF Worse
  <2>3. QED
    BY <2>1, <2>2
<1>6. QED
  BY <1>1, <1>2, <1>4, <1>5, StepPreserves DEF Inv, LspTypeOK

LEMMA WriteFailsPreserves ==
    ASSUME Inv, NEW c \in Callers, WriteFails(c)
    PROVE  Inv'
<1>1. At(c, {"header", "data", "wait"})
  BY DEF WriteFails, At
<1>2. QED
  BY <1>1, FailedPreserves DEF WriteFails

LEMMA AnsweredPreserves ==
    ASSUME Inv, NEW c \in Callers, Answered(c), At(c, {"wait"}),
           UNCHANGED <<disk, server, overlapped, untouched>>
    PROVE  Inv'
<1>1. /\ nextID' = nextID /\ pending' = pending \ {caller[c].id} /\ openDocs' = openDocs
      /\ state' = state /\ \A x \in Docs : Keeps(x)
  BY DEF Answered, Keeps
<1>2. state # "no" /\ caller[c].doc = NoDoc
  <2>1. state # "no"
    BY Nowhere DEF At, Places
  <2>2. QED
    BY <2>1 DEF Inv, TouchesFit, Fits, At
<1>3. \A m \in {"initialized", "exit"} :
         LET new == [Idle EXCEPT !.at = "header", !.method = m] IN
         new \in Call /\ new.id = 0 /\ new.doc = NoDoc /\ new.at = "header" /\ new.method = m
  BY IdleIsCall DEF Idle, Places, Methods
<1>4. \E new \in Call : /\ Becomes(c, new) /\ new.id = 0 /\ new.doc = NoDoc
                        /\ new.at \in {"idle", "header"} /\ new.method \notin Changes
  <2>1. CASE caller[c].method = "initialize"
    <3>1. Becomes(c, [Idle EXCEPT !.at = "header", !.method = "initialized"])
      BY <2>1 DEF Answered, Becomes
    <3>2. QED
      BY <1>3, <3>1 DEF Changes
  <2>2. CASE caller[c].method = "shutdown"
    <3>1. Becomes(c, [Idle EXCEPT !.at = "header", !.method = "exit"])
      BY <2>2 DEF Answered, Becomes
    <3>2. QED
      BY <1>3, <3>1 DEF Changes
  <2>3. CASE caller[c].method = "query"
    <3>1. Becomes(c, Idle)
      BY <2>3 DEF Answered, Becomes, Return
    <3>2. QED
      BY IdleIsCall, <3>1 DEF Changes
  <2>4. QED
    BY <2>1, <2>2, <2>3 DEF Answered
<1>5. PICK new \in Call : /\ Becomes(c, new) /\ new.id = 0 /\ new.doc = NoDoc
                          /\ new.at \in {"idle", "header"} /\ new.method \notin Changes
  BY <1>4
<1>6. Drops(c) /\ OthersStay(c) /\ caller' \in [Callers -> Call] /\ caller'[c] = new
  BY <1>1, <1>5, DropsRequest
<1>7. Fits(c)'
  BY <1>5, <1>6 DEF Fits, At
<1>8. DocsSynced'
  BY <1>1, <1>2, <1>5, <1>6, QuietStep DEF Worse
<1>9. QED
  BY <1>1, <1>2, <1>6, <1>7, <1>8, StepPreserves DEF Inv, LspTypeOK

LEMMA WaitPreserves ==
    ASSUME Inv, NEW c \in Callers, Wait(c)
    PROVE  Inv'
<1>1. caller[c].doc = NoDoc /\ At(c, {"wait"}) /\ At(c, {"header", "data", "wait"})
  BY DEF Wait, Inv, TouchesFit, Fits, At
<1>2. UNCHANGED <<disk, server, overlapped, untouched>> /\ (Answered(c) \/ Failed(c))
  BY DEF Wait
<1>3. QED
  BY <1>1, <1>2, AnsweredPreserves, FailedPreserves

-----------------------------------------------------------------------------
(* The steps of a touch outside its message.                               *)

LEMMA ReadFilePreserves ==
    ASSUME Inv, NEW c \in Callers, ReadFile(c)
    PROVE  Inv'
<1>1. /\ At(c, {"read"}) /\ caller[c].doc # NoDoc /\ caller[c].id = 0
      /\ UNCHANGED <<state, nextID, pending, openDocs, disk, server, overlapped>>
  BY DEF ReadFile, client, Inv, TouchesFit, Fits, At
<1>2. PICK d \in Docs : d = caller[c].doc
  BY <1>1, CallTyped
<1> DEFINE new == [caller[c] EXCEPT !.at = "lookup", !.text = disk[d]]
<1>3. /\ new \in Call /\ new.doc = d /\ new.id = 0 /\ new.at = "lookup"
      /\ new.method = caller[c].method /\ new.text = disk[d]
  BY <1>1, <1>2, CallTyped DEF Inv, LspTypeOK, Call, Places
<1>4. \/ Becomes(c, new) /\ untouched' = untouched \ {d}
      \/ Becomes(c, Idle) /\ untouched' = untouched /\ d \in untouched
  BY <1>2, CallTyped DEF ReadFile, Return, Becomes, Inv, LspTypeOK
<1> HIDE DEF new
<1>5. PICK next \in {new, Idle} : Becomes(c, next)
  BY <1>4
<1>6. OthersStay(c) /\ caller' \in [Callers -> Call] /\ caller'[c] = next
  BY <1>3, <1>5, IdleIsCall, BecomesTyped DEF Inv, OthersStay
<1>7. pending' = pending \ {caller[c].id}
  BY <1>1 DEF Inv, RequestsMatched
<1>8. Drops(c) /\ Fits(c)'
  <2>1. Drops(c)
    BY <1>1, <1>3, <1>6, <1>7, IdleIsCall DEF Drops
  <2>2. CASE next = new
    <3>1. caller'[c] = new
      BY <1>6, <2>2
    <3> QED
      BY <1>1, <1>2, <1>3, <2>1, <3>1 DEF Fits, At, Changes
  <2>3. CASE next = Idle
    <3>1. caller'[c] = Idle
      BY <1>6, <2>3
    <3> QED
      BY <2>1, <3>1, IdleIsCall DEF Fits, At, Changes
  <2> QED
    BY <2>1, <2>2, <2>3
<1>9. Worse /\ \A x \in Docs \ {d} : Keeps(x)
  BY <1>1, <1>4 DEF Worse, Keeps
<1>10. ASSUME server'.alive /\ server'.intact, d \notin overlapped' PROVE Synced(d)'
  <2>1. Synced(d)
    BY <1>1, <1>10 DEF Inv, DocsSynced
  <2>2. \A e \in Callers : caller'[e].doc = d => e = c
    BY <1>2, <1>6, <2>1 DEF Synced, OthersStay
  <2>3. server'.version[d] = openDocs'[d]
    BY <1>1, <1>2, <2>1 DEF Synced, At
  <2>4. CASE Becomes(c, new) /\ untouched' = untouched \ {d}
    <3>1. caller'[c] = new
      BY <2>4, <1>3, BecomesTyped DEF Inv
    <3> QED
      BY <1>1, <1>3, <3>1, <2>2, <2>3 DEF Synced, At
  <2>5. CASE Becomes(c, Idle) /\ untouched' = untouched /\ d \in untouched
    <3>1. caller'[c] = Idle
      BY <2>5, IdleIsCall, BecomesTyped DEF Inv
    <3>2. \A e \in Callers : caller'[e].doc # d
      BY <2>2, <3>1, IdleIsCall, LspAssumption
    <3> QED
      BY <2>5, <3>2, <2>3 DEF Synced
  <2> QED
    BY <1>4, <2>4, <2>5
<1>11. DocsSynced'
  <2>1. caller'[c].doc \in {d, NoDoc}
    BY <1>3, <1>6, IdleIsCall
  <2> QED
    BY <1>1, <1>2, <1>6, <1>9, <1>10, <2>1, TouchStep
<1>12. state # "no"
  BY <1>1, Nowhere DEF At, Places
<1> QED
  BY <1>1, <1>6, <1>8, <1>11, <1>12, StepPreserves DEF Inv, LspTypeOK

LEMMA LookupPreserves ==
    ASSUME Inv, NEW c \in Callers, Lookup(c)
    PROVE  Inv'
<1>1. /\ At(c, {"lookup"}) /\ caller[c].doc # NoDoc /\ caller[c].id = 0
      /\ UNCHANGED <<state, nextID, pending, openDocs, disk, server, overlapped, untouched>>
  BY DEF Lookup, client, Inv, TouchesFit, Fits, At
<1>2. PICK d \in Docs : d = caller[c].doc
  BY <1>1, CallTyped
<1>3. PICK m \in Changes : m = IF openDocs[d] = 0 THEN "didOpen" ELSE "didChange"
  BY DEF Changes
<1> DEFINE new == [caller[c] EXCEPT !.at = "header", !.version = openDocs[d] + 1, !.method = m]
<1>4. openDocs[d] + 1 \in Nat /\ m \in Methods
  BY <1>2 DEF Inv, LspTypeOK, Methods
<1>5. /\ new \in Call /\ new.doc = d /\ new.id = 0 /\ new.at = "header"
      /\ new.method = m /\ new.text = caller[c].text /\ new.version = openDocs[d] + 1
  BY <1>1, <1>2, <1>4, CallTyped DEF Call, Places
<1>6. Becomes(c, new)
  BY <1>2, <1>3, CallTyped DEF Lookup, Becomes, Inv, LspTypeOK
<1> HIDE DEF new
<1>7. OthersStay(c) /\ caller' \in [Callers -> Call] /\ caller'[c] = new
  BY <1>5, <1>6, BecomesTyped DEF Inv, OthersStay
<1>8. Drops(c) /\ Fits(c)'
  <2>1. pending' = pending \ {caller[c].id}
    BY <1>1 DEF Inv, RequestsMatched
  <2>2. QED
    BY <1>1, <1>5, <1>7, <2>1, LspAssumption DEF Drops, Fits, At
<1>9. Worse /\ \A x \in Docs : Keeps(x)
  BY <1>1 DEF Worse, Keeps
<1>10. ASSUME server'.alive /\ server'.intact, d \notin overlapped' PROVE Synced(d)'
  <2>1. Synced(d)
    BY <1>1, <1>10 DEF Inv, DocsSynced
  <2>2. \A e \in Callers : caller'[e].doc = d => e = c
    BY <1>2, <1>7, <2>1 DEF Synced, OthersStay
  <2>3. server'.version[d] = openDocs'[d] /\ (d \in untouched' \/ caller[c].text = disk'[d])
    BY <1>1, <1>2, <2>1 DEF Synced, At
  <2>4. QED
    BY <1>1, <1>5, <1>7, <2>2, <2>3 DEF Synced, At
<1>11. DocsSynced'
  BY <1>1, <1>2, <1>5, <1>7, <1>9, <1>10, TouchStep
<1>12. state # "no"
  BY <1>1, Nowhere DEF At, Places
<1>13. QED
  BY <1>1, <1>7, <1>8, <1>11, <1>12, StepPreserves DEF Inv, LspTypeOK

\* What was sent is recorded, and the tool is done with its document.
LEMMA RecordPreserves ==
    ASSUME Inv, NEW c \in Callers, Record(c)
    PROVE  Inv'
<1>1. /\ At(c, {"record"}) /\ caller[c].doc # NoDoc /\ caller[c].id = 0
      /\ openDocs' = [openDocs EXCEPT ![caller[c].doc] = caller[c].version]
      /\ Becomes(c, Idle)
      /\ UNCHANGED <<state, nextID, pending, disk, server, overlapped, untouched>>
  BY DEF Record, Return, Becomes, client, Inv, TouchesFit, Fits, At
<1>2. PICK d \in Docs : d = caller[c].doc
  BY <1>1, CallTyped
<1>3. /\ openDocs' \in [Docs -> Nat] /\ openDocs'[d] = caller[c].version
      /\ \A x \in Docs \ {d} : Keeps(x)
  <2>1. caller[c].version \in Nat
    BY CallTyped DEF Call
  <2>2. QED
    BY <1>1, <1>2, <2>1 DEF Inv, LspTypeOK, Keeps
<1>4. pending' = pending \ {caller[c].id}
  BY <1>1 DEF Inv, RequestsMatched
<1>5. Drops(c) /\ OthersStay(c) /\ caller' \in [Callers -> Call] /\ caller'[c] = Idle
  BY <1>1, <1>4, IdleIsCall, DropsRequest
<1>6. Fits(c)'
  BY <1>5, IdleIsCall DEF Fits, At, Changes
<1>7. ASSUME server'.alive /\ server'.intact, d \notin overlapped' PROVE Synced(d)'
  <2>1. Synced(d)
    BY <1>1, <1>7 DEF Inv, DocsSynced
  <2>2. \A e \in Callers : caller'[e].doc # d
    BY <1>2, <1>5, <2>1, IdleIsCall, LspAssumption DEF Synced, OthersStay
  <2>3. server'.version[d] = openDocs'[d] /\ (d \in untouched' \/ server'.text[d] = disk'[d])
    BY <1>1, <1>2, <1>3, <2>1 DEF Synced, At
  <2>4. QED
    BY <2>2, <2>3 DEF Synced
<1>8. DocsSynced'
  BY <1>1, <1>2, <1>3, <1>5, <1>7, IdleIsCall, TouchStep DEF Worse
<1>9. state # "no"
  BY <1>1, Nowhere DEF At, Places
<1>10. QED
  BY <1>1, <1>3, <1>5, <1>6, <1>8, <1>9, StepPreserves DEF Inv, LspTypeOK

LEMMA CancelPreserves ==
    ASSUME Inv, NEW c \in Callers, Cancel(c)
    PROVE  Inv'
<1>1. /\ At(c, {"cancel"}) /\ caller[c].id = 0 /\ Becomes(c, Idle)
      /\ server' = [server EXCEPT !.alive = FALSE, !.asked = {}]
      /\ UNCHANGED <<state, nextID, pending, openDocs, disk, overlapped, untouched>>
  BY DEF Cancel, Return, Becomes, Inv, IdsFit, At
<1>2. pending' = pending \ {caller[c].id}
  BY <1>1 DEF Inv, RequestsMatched
<1>3. Drops(c) /\ OthersStay(c) /\ caller' \in [Callers -> Call] /\ caller'[c] = Idle
  BY <1>1, <1>2, IdleIsCall, DropsRequest
<1>4. Fits(c)'
  BY <1>3, IdleIsCall DEF Fits, At, Changes
<1>5. server' \in Server /\ ~server'.alive
  BY <1>1 DEF Inv, LspTypeOK, Server
<1>6. DocsSynced'
  BY <1>5 DEF DocsSynced
<1>7. state # "no"
  BY <1>1, Nowhere DEF At, Places
<1>8. QED
  BY <1>1, <1>3, <1>4, <1>5, <1>6, <1>7, StepPreserves DEF Inv, LspTypeOK

-----------------------------------------------------------------------------
(* The server, the reading goroutine, and steps of neither.                *)

LEMMA ServerPreserves ==
    ASSUME Inv, UNCHANGED <<state, nextID, pending, openDocs, caller, disk, overlapped, untouched>>,
           server' \in Server, server'.alive => server.alive,
           server'.intact = server.intact,
           UNCHANGED <<server.version, server.text>>
    PROVE  Inv'
<1>1. LspTypeOK'
  BY DEF Inv, LspTypeOK
<1>2. IdsFit' /\ RequestsMatched'
  BY DEF Inv, IdsFit, RequestsMatched, At
<1>3. TouchesFit'
  BY DEF Inv, TouchesFit, Fits, At
<1>4. NothingBefore'
  BY DEF Inv, NothingBefore
<1>5. ASSUME NEW x \in Docs, Synced(x) PROVE Synced(x)'
  BY <1>5 DEF Synced, At
<1>6. DocsSynced'
  BY <1>5 DEF Inv, DocsSynced
<1>7. QED
  BY <1>1, <1>2, <1>3, <1>4, <1>6 DEF Inv

LEMMA HandleResponsePreserves ==
    ASSUME Inv, NEW i \in Ids, HandleResponse(i)
    PROVE  Inv'
<1>1. /\ UNCHANGED <<state, nextID, pending, openDocs, caller, disk, overlapped, untouched>>
      /\ server' = [server EXCEPT !.asked = @ \ {i}]
  BY DEF HandleResponse
<1>2. server \in Server
  BY DEF Inv, LspTypeOK
<1>3. /\ server' \in Server /\ server'.alive = server.alive /\ server'.intact = server.intact
      /\ UNCHANGED <<server.version, server.text>>
  BY <1>1, <1>2 DEF Server
<1>4. QED
  BY <1>1, <1>3, ServerPreserves

LEMMA ServerDiesPreserves == Inv /\ ServerDies => Inv'
<1> SUFFICES ASSUME Inv, ServerDies PROVE Inv'
  OBVIOUS
<1>1. /\ UNCHANGED <<state, nextID, pending, openDocs, caller, disk, overlapped, untouched>>
      /\ server' = [server EXCEPT !.alive = FALSE, !.asked = {}]
  BY DEF ServerDies, client
<1>2. server \in Server
  BY DEF Inv, LspTypeOK
<1>3. /\ server' \in Server /\ ~server'.alive /\ server'.intact = server.intact
      /\ UNCHANGED <<server.version, server.text>>
  BY <1>1, <1>2 DEF Server
<1>4. QED
  BY <1>1, <1>3, ServerPreserves

\* A change of a file that no touch tells of leaves it out of what the server must have.
LEMMA ChangePreserves ==
    ASSUME Inv, NEW d \in Docs, ChangeUntouched(d)
    PROVE  Inv'
<1>1. /\ UNCHANGED <<state, nextID, pending, openDocs, caller, server, overlapped>>
      /\ disk' = [disk EXCEPT ![d] = @ + 1] /\ untouched' = untouched \cup {d}
  BY DEF ChangeUntouched, client
<1>2. LspTypeOK'
  BY <1>1 DEF Inv, LspTypeOK
<1>3. IdsFit' /\ RequestsMatched' /\ TouchesFit'
  BY <1>1 DEF Inv, IdsFit, RequestsMatched, TouchesFit, Fits, At
<1>4. \A x \in Docs \ {d} : disk'[x] = disk[x]
  BY <1>1 DEF Inv, LspTypeOK
<1>5. NothingBefore'
  BY <1>1, <1>4 DEF Inv, NothingBefore
<1>6. ASSUME NEW x \in Docs, Synced(x) PROVE Synced(x)'
  BY <1>1, <1>4, <1>6 DEF Synced, At
<1>7. DocsSynced'
  BY <1>1, <1>6 DEF Inv, DocsSynced
<1> QED
  BY <1>2, <1>3, <1>5, <1>7 DEF Inv

LEMMA StutterPreserves == Inv /\ UNCHANGED vars => Inv'
<1> SUFFICES ASSUME Inv, UNCHANGED vars PROVE Inv'
  OBVIOUS
<1>1. UNCHANGED <<state, nextID, pending, openDocs, caller, disk, overlapped, untouched, server>>
  BY DEF vars, client
<1>2. server' \in Server
  BY <1>1 DEF Inv, LspTypeOK
<1>3. QED
  BY <1>1, <1>2, ServerPreserves

-----------------------------------------------------------------------------
(* The invariant, and what follows from it.                                *)

LEMMA InvInit == Init => Inv
<1> SUFFICES ASSUME Init PROVE Inv
  OBVIOUS
<1>1. \A c \in Callers : caller[c] = Idle
  BY DEF Init
<1>2. IdsFit /\ TouchesFit
  <2>1. IdsFit
    <3>1. \A c \in Callers : caller[c].id = 0
      BY <1>1, IdleIsCall
    <3>2. nextID = 1
      BY DEF Init
    <3>3. QED
      BY <3>1, <3>2 DEF IdsFit
  <2>2. ASSUME NEW c \in Callers PROVE Fits(c)
    BY <1>1, IdleIsCall DEF Fits, At, Changes
  <2>3. QED
    BY <2>1, <2>2 DEF TouchesFit
<1>3. RequestsMatched
  BY <1>1, IdleIsCall DEF Init, RequestsMatched
<1>4. NothingBefore
  BY <1>1 DEF Init, NothingBefore
<1>5. DocsSynced
  BY DEF Init, DocsSynced
<1>6. QED
  BY <1>2, <1>3, <1>4, <1>5, TypeInit DEF Inv

LEMMA InvStep == Inv /\ [Next]_vars => Inv'
<1> SUFFICES ASSUME Inv, [Next]_vars PROVE Inv'
  OBVIOUS
<1>1. CASE Start
  BY <1>1, StartPreserves
<1>2. CASE ServerDies
  BY <1>2, ServerDiesPreserves
<1>3. ASSUME NEW c \in Callers, Step(c) PROVE Inv'
  BY <1>3, WriteHeaderPreserves, WriteDataPreserves, WriteFailsPreserves, WaitPreserves,
     ReadFilePreserves, LookupPreserves, RecordPreserves, CancelPreserves DEF Step
<1>4. ASSUME NEW c \in Callers, Query(c) \/ Close(c) PROVE Inv'
  BY <1>4, QueryPreserves
<1>5. ASSUME NEW c \in Callers, NEW d \in Docs, Touch(c, d) PROVE Inv'
  BY <1>5, TouchPreserves
<1>6. ASSUME NEW i \in Ids, HandleResponse(i) PROVE Inv'
  BY <1>6, HandleResponsePreserves
<1>7. CASE UNCHANGED vars
  BY <1>7, StutterPreserves
<1>8. ASSUME NEW d \in Docs, ChangeUntouched(d) PROVE Inv'
  BY <1>8, ChangePreserves
<1> QED
  BY <1>1, <1>2, <1>3, <1>4, <1>5, <1>6, <1>7, <1>8 DEF Next

LEMMA InvAlways == Spec => []Inv
BY InvInit, InvStep, PTL DEF Spec

\* However many goroutines ask, each waits on a response channel of its own, under an id
\* nobody else holds, and no channel outlives its request (sendRequest).
THEOREM RequestsStayMatched == Spec => []RequestsMatched
<1>1. Inv => RequestsMatched
  BY DEF Inv
<1>2. QED
  BY <1>1, InvAlways, PTL

\* The server has the text on disk of a document no tool is touching, unless it was
\* changed without a touch since one last read it, its touches overlapped, messages were
\* mixed or the server died (TouchAndValidate).
THEOREM ServerStaysSynced == Spec => []ServerSeesDisk
<1>1. Inv => ServerSeesDisk
  BY DEF Inv, DocsSynced, Synced, ServerSeesDisk, Current
<1>2. QED
  BY <1>1, InvAlways, PTL

\* Between touches the version the client has recorded is the one the server has, also of
\* documents that changed untouched: the touch that makes good for it is never taken for
\* a stale one, and a document is opened once (TouchAndValidate).
VersionsAgree ==
    server.alive /\ server.intact =>
        \A d \in Docs \ overlapped :
            (\A c \in Callers : caller[c].doc # d) => server.version[d] = openDocs[d]

THEOREM VersionsStayAgreed == Spec => []VersionsAgree
<1>1. Inv => VersionsAgree
  BY DEF Inv, DocsSynced, Synced, VersionsAgree
<1>2. QED
  BY <1>1, InvAlways, PTL

-----------------------------------------------------------------------------
(***************************************************************************)
(* The shell commands and the tokens, for any calls, processes, answers of *)
(* the token endpoint and kills.                                           *)
(***************************************************************************)

(* Commands.                                                               *)

Answers == [is : {"none", "error", "denied", "running", "finished", "timeout"}, code : Nat]

CommandsTyped ==
    /\ pc \in [Calls -> {"idle", "ensure", "starting", "exec", "wait", "drain", "done"}]
    /\ args \in [Calls -> Arguments \cup {NoArgs}]
    /\ proc \in [Calls -> {"none", "running", "orphan", "exited", "killed"}]
    /\ response \in [Calls -> Answers]
    /\ mu \in Calls \cup {"free", "close"}
    /\ cleanup \in {"open", "closing", "closed", "failed"}
    /\ started \in Calls \cup {"none"} /\ closed \in BOOLEAN

\* Who holds the mutex: the call that starts the container, or the one Close.
HolderWorks ==
    /\ \A i \in Calls : pc[i] = "starting" <=> mu = i
    /\ mu = "close" <=> cleanup = "closing"

\* A container is being started only while the runner has none and was not closed.  Of
\* those that exist one is the runner's, until it is terminated; the others are of calls
\* that were told an error and will do nothing more.
OneContainer ==
    /\ closed <=> cleanup # "open"
    /\ \A i \in Calls : pc[i] = "starting" => started = "none" /\ ~closed
    /\ cleanup = "closing" => started # "none"
    /\ cleanup = "closed" => started \notin containers
    /\ containers \subseteq Calls
    /\ \A i \in containers : i = started \/ (response[i].is = "error" /\ pc[i] = "done")

FinishedIsDone == \A i \in Calls : response[i].is = "finished" => pc[i] = "done"

CommandsInv == CommandsTyped /\ HolderWorks /\ OneContainer /\ FinishedIsDone /\ FinishedMeansExited

-----------------------------------------------------------------------------
(* The commands' invariant.                                                *)

LEMMA AnswerTyped ==
    ASSUME NEW is \in {"none", "error", "denied", "running", "finished", "timeout"}, NEW code \in Nat
    PROVE  [is |-> is, code |-> code] \in Answers
BY DEF Answers

LEMMA CommandsInitInv == CommandsInit => CommandsInv
<1> SUFFICES ASSUME CommandsInit PROVE CommandsInv
  OBVIOUS
<1>1. CommandsTyped
  BY AnswerTyped DEF CommandsInit, CommandsTyped, NoResponse
<1>2. HolderWorks /\ OneContainer
  BY CommandsAssumption DEF CommandsInit, HolderWorks, OneContainer
<1>3. FinishedIsDone /\ FinishedMeansExited
  BY DEF CommandsInit, FinishedIsDone, FinishedMeansExited, NoResponse
<1> QED
  BY <1>1, <1>2, <1>3 DEF CommandsInv

\* A call goes on, or is answered, without the mutex and the container; an answer that
\* says "finished" is the exit code of a process that has ended.
LEMMA CallStepInv ==
    ASSUME CommandsInv, NEW i \in Calls, UNCHANGED <<runner, lazy>>,
           NEW place \in {"ensure", "exec", "wait", "drain", "done"}, GoesTo(i, place),
           pc[i] # "starting", pc[i] # "done",
           args' \in [Calls -> Arguments \cup {NoArgs}], proc' = proc,
           \A j \in Calls \ {i} : args'[j] = args[j],
           \/ response' = response
           \/ \E is \in {"error", "denied", "running", "finished", "timeout"}, code \in Nat :
                 /\ response' = [response EXCEPT ![i] = [is |-> is, code |-> code]]
                 /\ place = "done"
                 /\ is = "finished" => /\ proc[i] \notin {"none", "running"}
                                       /\ code = ExitCode(args'[i].command)
    PROVE  CommandsInv'
<1> USE DEF CommandsInv, lazy
<1>1. CommandsTyped'
  <2>1. response' \in [Calls -> Answers]
    <3>1. CASE response' = response
      BY <3>1 DEF CommandsTyped
    <3>2. CASE response' # response
      <4>1. PICK is \in {"error", "denied", "running", "finished", "timeout"}, code \in Nat :
               response' = [response EXCEPT ![i] = [is |-> is, code |-> code]]
        BY <3>2
      <4>2. [is |-> is, code |-> code] \in Answers
        BY AnswerTyped
      <4> QED
        BY <4>1, <4>2 DEF CommandsTyped
    <3> QED
      BY <3>1, <3>2
  <2>2. pc' \in [Calls -> {"idle", "ensure", "starting", "exec", "wait", "drain", "done"}]
    BY DEF CommandsTyped, GoesTo
  <2> QED
    BY <2>1, <2>2 DEF CommandsTyped
<1>2. HolderWorks'
  BY DEF CommandsTyped, HolderWorks, GoesTo
<1>3. OneContainer'
  BY DEF CommandsTyped, HolderWorks, OneContainer, GoesTo
<1>4. FinishedIsDone'
  BY DEF CommandsTyped, FinishedIsDone, GoesTo
<1>5. FinishedMeansExited'
  BY DEF CommandsTyped, FinishedIsDone, FinishedMeansExited, GoesTo
<1> QED
  BY <1>1, <1>2, <1>3, <1>4, <1>5

LEMMA ExecuteInv ==
    ASSUME CommandsInv, NEW i \in Calls, Execute(i)
    PROVE  CommandsInv'
<1>1. PICK a \in Arguments :
        /\ args' = [args EXCEPT ![i] = a]
        /\ \/ Respond(i, "error", 1)
           \/ Respond(i, "denied", 1)
           \/ GoesTo(i, "ensure") /\ response' = response
           \/ GoesTo(i, "exec") /\ response' = response
  BY DEF Execute
<1>2. pc[i] = "idle" /\ UNCHANGED <<runner, proc, lazy>>
  BY DEF Execute
<1>3. /\ args' \in [Calls -> Arguments \cup {NoArgs}]
      /\ \A j \in Calls \ {i} : args'[j] = args[j]
  BY <1>1 DEF CommandsInv, CommandsTyped
<1>4. \/ GoesTo(i, "ensure") /\ response' = response
      \/ GoesTo(i, "exec") /\ response' = response
      \/ /\ GoesTo(i, "done")
         /\ \/ response' = [response EXCEPT ![i] = [is |-> "error", code |-> 1]]
            \/ response' = [response EXCEPT ![i] = [is |-> "denied", code |-> 1]]
  BY <1>1 DEF Respond
<1> QED
  BY <1>2, <1>3, <1>4, CallStepInv

LEMMA EnsureRunnerInv ==
    ASSUME CommandsInv, NEW i \in Calls, EnsureRunner(i)
    PROVE  CommandsInv'
<1>1. CASE mu' = mu
  <2>1. /\ pc[i] = "ensure" /\ UNCHANGED <<runner, args, proc, lazy>>
        /\ \/ Respond(i, "error", 1)
           \/ GoesTo(i, "exec") /\ response' = response
    BY <1>1, CommandsAssumption DEF EnsureRunner, lazy, CommandsInv, CommandsTyped
  <2>2. \/ GoesTo(i, "exec") /\ response' = response
        \/ /\ GoesTo(i, "done")
           /\ response' = [response EXCEPT ![i] = [is |-> "error", code |-> 1]]
    BY <2>1 DEF Respond
  <2>3. args' \in [Calls -> Arguments \cup {NoArgs}]
    BY <2>1 DEF CommandsInv, CommandsTyped
  <2> QED
    BY <2>1, <2>2, <2>3, CallStepInv
<1>2. CASE mu' # mu
  <2>1. /\ pc[i] = "ensure" /\ mu = "free" /\ mu' = i /\ ~closed /\ started = "none"
        /\ pc' = [pc EXCEPT ![i] = "starting"]
        /\ UNCHANGED <<runner, args, proc, response, started, closed, stopped, containers, cleanup>>
    BY <1>2 DEF EnsureRunner, GoesTo
  <2>2. CommandsTyped'
    BY <2>1 DEF CommandsInv, CommandsTyped
  <2>3. HolderWorks'
    BY <2>1, CommandsAssumption DEF CommandsInv, CommandsTyped, HolderWorks, OneContainer
  <2>4. OneContainer'
    BY <2>1, CommandsAssumption DEF CommandsInv, CommandsTyped, HolderWorks, OneContainer
  <2>5. FinishedIsDone' /\ FinishedMeansExited'
    BY <2>1 DEF CommandsInv, CommandsTyped, FinishedIsDone, FinishedMeansExited
  <2> QED
    BY <2>2, <2>3, <2>4, <2>5 DEF CommandsInv
<1> QED
  BY <1>1, <1>2

LEMMA StartContainerInv ==
    ASSUME CommandsInv, NEW i \in Calls, StartContainer(i)
    PROVE  CommandsInv'
<1>1. /\ pc[i] = "starting" /\ mu = i /\ started = "none" /\ ~closed /\ cleanup = "open"
      /\ \A j \in Calls \ {i} : pc[j] # "starting"
  BY CommandsAssumption DEF StartContainer, CommandsInv, CommandsTyped, HolderWorks, OneContainer
<1>2. /\ mu' = "free"
      /\ UNCHANGED <<runner, args, proc, closed, stopped, cleanup>>
      /\ \/ /\ started' = i /\ containers' = containers \cup {i}
            /\ pc' = [pc EXCEPT ![i] = "exec"] /\ response' = response
         \/ /\ started' = started /\ containers' \in {containers, containers \cup {i}}
            /\ pc' = [pc EXCEPT ![i] = "done"]
            /\ response' = [response EXCEPT ![i] = [is |-> "error", code |-> 1]]
  BY <1>1 DEF StartContainer, GoesTo, Respond
<1>3. CommandsTyped'
  <2>1. [is |-> "error", code |-> 1] \in Answers
    BY AnswerTyped
  <2> QED
    BY <1>2, <2>1 DEF CommandsInv, CommandsTyped
<1>4. HolderWorks'
  BY <1>1, <1>2, CommandsAssumption DEF CommandsInv, CommandsTyped, HolderWorks
<1>5. OneContainer'
  <2>1. /\ containers \subseteq Calls /\ started \notin containers
        /\ \A j \in containers : response[j].is = "error" /\ pc[j] = "done" /\ j # i
    BY <1>1, CommandsAssumption DEF CommandsInv, OneContainer
  <2>2. /\ \A j \in Calls \ {i} : pc'[j] # "starting"
        /\ pc'[i] # "starting" /\ containers' \subseteq Calls
        /\ \A j \in containers : response'[j].is = "error" /\ pc'[j] = "done"
    BY <1>1, <1>2, <2>1 DEF CommandsInv, CommandsTyped
  <2>3. \A j \in containers' : j = started' \/ (response'[j].is = "error" /\ pc'[j] = "done")
    <3>1. CASE started' = i
      BY <1>2, <2>1, <2>2, <3>1
    <3>2. CASE started' # i
      BY <1>1, <1>2, <2>1, <2>2, <3>2 DEF CommandsInv, CommandsTyped
    <3> QED
      BY <3>1, <3>2
  <2> QED
    BY <1>1, <1>2, <2>2, <2>3 DEF CommandsInv, OneContainer
<1>6. FinishedIsDone' /\ FinishedMeansExited'
  BY <1>1, <1>2 DEF CommandsInv, CommandsTyped, FinishedIsDone, FinishedMeansExited
<1> QED
  BY <1>3, <1>4, <1>5, <1>6 DEF CommandsInv

\* A step of a process, with the call's own step if it has one, that no call that is
\* done can mistake for a process under way.
LEMMA ProcessStepInv ==
    ASSUME CommandsInv, NEW i \in Calls, UNCHANGED <<runner, args, lazy>>,
           NEW found \in {"running", "orphan", "exited", "killed"},
           proc' = [proc EXCEPT ![i] = found],
           found = "running" => pc[i] = "exec",
           \/ pc' = pc /\ response' = response
           \/ /\ pc[i] \in {"exec", "wait"}
              /\ \/ \E place \in {"wait", "drain"} : GoesTo(i, place) /\ response' = response
                 \/ Respond(i, "running", 0)
    PROVE  CommandsInv'
<1> USE DEF CommandsInv, lazy
<1>1. CommandsTyped'
  BY AnswerTyped DEF CommandsTyped, GoesTo, Respond
<1>2. HolderWorks'
  BY DEF CommandsTyped, HolderWorks, GoesTo, Respond
<1>3. OneContainer'
  BY DEF CommandsTyped, HolderWorks, OneContainer, GoesTo, Respond
<1>4. FinishedIsDone'
  BY DEF CommandsTyped, FinishedIsDone, GoesTo, Respond
<1>5. FinishedMeansExited'
  BY DEF CommandsTyped, FinishedIsDone, FinishedMeansExited, GoesTo, Respond
<1> QED
  BY <1>1, <1>2, <1>3, <1>4, <1>5

LEMMA StartCommandInv ==
    ASSUME CommandsInv, NEW i \in Calls, StartCommand(i)
    PROVE  CommandsInv'
<1>0. args \in [Calls -> Arguments \cup {NoArgs}]
  BY DEF CommandsInv, CommandsTyped
<1>1. CASE Respond(i, "error", 1) /\ proc' = proc
  BY <1>0, <1>1, CallStepInv DEF StartCommand, Respond
<1>2. CASE /\ proc' = [proc EXCEPT ![i] = "running"]
           /\ \/ Respond(i, "running", 0)
              \/ GoesTo(i, "wait") /\ response' = response
  BY <1>2, ProcessStepInv DEF StartCommand
<1> QED
  BY <1>1, <1>2 DEF StartCommand

LEMMA ProcessInv ==
    ASSUME CommandsInv, NEW i \in Calls, Exit(i) \/ OrphanExits(i)
    PROVE  CommandsInv'
BY ProcessStepInv DEF Exit, OrphanExits

LEMMA AnsweredInv ==
    ASSUME CommandsInv, NEW i \in Calls,
           Finish(i) \/ BackgroundElapsed(i) \/ Timeout(i) \/ Drained(i) \/ Interrupted(i)
    PROVE  CommandsInv'
<1>0. args \in [Calls -> Arguments \cup {NoArgs}] /\ ExitCode(args[i].command) \in Nat
  BY DEF CommandsInv, CommandsTyped, ExitCode
<1>1. CASE Finish(i)
  <2>1. proc[i] \notin {"none", "running"}
    BY <1>1 DEF Finish, Ended
  <2> QED
    BY <1>0, <1>1, <2>1, CallStepInv DEF Finish, Respond
<1>2. CASE BackgroundElapsed(i)
  BY <1>0, <1>2, CallStepInv DEF BackgroundElapsed, Respond
<1>3. CASE Timeout(i)
  <2>1. CASE proc' = proc
    BY <1>0, <1>3, <2>1, CallStepInv DEF Timeout, Respond
  <2>2. CASE proc' # proc
    BY <1>3, <2>2, ProcessStepInv DEF Timeout
  <2> QED
    BY <2>1, <2>2
<1>4. CASE Drained(i)
  BY <1>0, <1>4, CallStepInv DEF Drained, Respond
<1>5. CASE Interrupted(i)
  BY <1>0, <1>5, CallStepInv DEF Interrupted, Respond
<1> QED
  BY <1>1, <1>2, <1>3, <1>4, <1>5

LEMMA CloseInv ==
    ASSUME CommandsInv, CloseRunner \/ Terminate
    PROVE  CommandsInv'
<1> USE CommandsAssumption DEF CommandsInv, CommandsTyped
<1>1. CASE CloseRunner
  <2>1. HolderWorks' /\ OneContainer'
    BY <1>1 DEF CloseRunner, HolderWorks, OneContainer
  <2> QED
    BY <1>1, <2>1 DEF CloseRunner, FinishedIsDone, FinishedMeansExited
<1>2. CASE Terminate
  <2>1. mu = "close" /\ started # "none"
    BY <1>2 DEF Terminate, HolderWorks, OneContainer
  <2>2. CommandsTyped'
    BY <1>2 DEF Terminate
  <2>3. HolderWorks' /\ OneContainer'
    BY <1>2, <2>1 DEF Terminate, HolderWorks, OneContainer
  <2>4. FinishedIsDone' /\ FinishedMeansExited'
    BY <1>2 DEF Terminate, FinishedIsDone, FinishedMeansExited
  <2> QED
    BY <2>2, <2>3, <2>4
<1> QED
  BY <1>1, <1>2

LEMMA CommandsNextInv == CommandsInv /\ [CommandsNext]_commandVars => CommandsInv'
<1> SUFFICES ASSUME CommandsInv, [CommandsNext]_commandVars PROVE CommandsInv'
  OBVIOUS
<1>1. CASE UNCHANGED commandVars
  BY <1>1 DEF commandVars, lazy, CommandsInv, CommandsTyped, HolderWorks, OneContainer,
              FinishedIsDone, FinishedMeansExited
<1>2. CASE CloseRunner \/ Terminate
  BY <1>2, CloseInv
<1>3. ASSUME NEW i \in Calls, Execute(i) \/ CommandStep(i) \/ Exit(i) \/ OrphanExits(i)
      PROVE  CommandsInv'
  BY <1>3, ExecuteInv, EnsureRunnerInv, StartContainerInv, StartCommandInv, ProcessInv, AnsweredInv
  DEF CommandStep
<1> QED
  BY <1>1, <1>2, <1>3 DEF CommandsNext

\* Whatever commands a run's tools give, in any order and however they end, the run has
\* one container at the most that they can use, which is gone after it closed it; a
\* container left by a failed start is of a command that was told so; and a command that
\* is reported as finished has exited with the code that is reported (run_bash.go,
\* lazy_container.go, container.go).
THEOREM RunCleansUp == CommandsSpec => []CommandsCleanUp
<1>1. CommandsInv => CommandsCleanUp
  BY DEF CommandsInv, CommandsTyped, OneContainer, FinishedMeansExited, Answers,
         CommandsCleanUp, CommandsTypeOK, ContainerGoneAfterClose
<1> QED
  BY CommandsInitInv, CommandsNextInv, <1>1, PTL DEF CommandsSpec

-----------------------------------------------------------------------------
(* TokenRefresh.                                                           *)

Stages == {"check", "lock", "renew", "save", "write", "send", "done", "failed", "killed"}
Request == [at : Stages,
            force : BOOLEAN, sent : 0..MaxTokens, attempt : 1..2]

Holders == {t[2] : t \in Threads} \cup {"none"}

TokensTyped ==
    /\ provider \in Clients
    /\ accepts \in 1..MaxTokens
    /\ age \in [1..MaxTokens -> {"fresh", "near", "refused"}]
    /\ file \in 0..MaxTokens
    /\ mem \in [Procs -> 0..MaxTokens]
    /\ holder \in [Procs -> Holders]
    /\ req \in [Threads -> Request]
    /\ broken \in BOOLEAN

Renewing(t) == req[t].at \in {"renew", "save", "write"}
Saving(t) == req[t].at \in {"save", "write"}

\* tokenMu is held by the one request of the process that renews.
LockHeld == \A t \in Threads : Renewing(t) <=> holder[t[1]] = t[2]

\* A killed process has no request under way, and a forced renewal is one of a
\* token that was refused.
Forced == \A t \in Threads :
    /\ req[t].at # "killed" => mem[t[1]] # 0
    /\ req[t].force => req[t].sent # 0 /\ age[req[t].sent] = "refused"

\* Nobody is ahead of the server.  Unless something was lost, the file holds what the
\* server accepts, or the one request that is about to write it does.
Recoverable ==
    /\ file <= accepts
    /\ \A p \in Procs : mem[p] <= accepts
    /\ ~broken => \/ file = accepts /\ \A t \in Threads : ~Saving(t)
                  \/ /\ file # accepts
                     /\ \E t \in Threads :
                           /\ Saving(t) /\ mem[t[1]] = accepts
                           /\ \A u \in Threads \ {t} : ~Saving(u)
                           /\ \A q \in Procs \ {t[1]} : mem[q] # accepts

TokensInv == TokensTyped /\ LockHeld /\ Forced /\ Recoverable /\ RenewsOnlyStale

-----------------------------------------------------------------------------
(* The tokens' invariant.                                                  *)

USE TokensAssumption

LEMMA HoldersHave == "none" \in Holders /\ \A t \in Threads : t[2] \in Holders
BY DEF Holders

LEMMA TokensInitInv == TokensInit => TokensInv
<1> SUFFICES ASSUME TokensInit PROVE TokensInv
  OBVIOUS
<1>1. New \in Request
  BY DEF New, Request, Stages
<1>2. TokensTyped
  <2>1. provider \in Clients /\ accepts \in 1..MaxTokens /\ file \in 0..MaxTokens /\ broken \in BOOLEAN
    <3>1. 1 \in 1..MaxTokens /\ 1 \in 0..MaxTokens
      OBVIOUS
    <3> QED
      BY <3>1 DEF TokensInit
  <2>2. age \in [1..MaxTokens -> {"fresh", "near", "refused"}] /\ mem \in [Procs -> 0..MaxTokens]
    BY DEF TokensInit
  <2>3. holder \in [Procs -> Holders]
    BY HoldersHave DEF TokensInit
  <2>4. req \in [Threads -> Request]
    BY <1>1 DEF TokensInit
  <2> QED
    BY <2>1, <2>2, <2>3, <2>4 DEF TokensTyped
<1>3. LockHeld /\ Forced /\ Recoverable /\ RenewsOnlyStale
  BY DEF TokensInit, LockHeld, Forced, Recoverable, RenewsOnlyStale, Renewing, Saving, New
<1> QED
  BY <1>2, <1>3 DEF TokensInv

LEMMA ThreadsDiffer ==
    \A t, u \in Threads : t[1] \in Procs /\ t[2] # "none" /\ (t[1] = u[1] /\ t[2] = u[2] => t = u)
OBVIOUS

\* The process of a request that renews holds the lock for it alone.
LEMMA OneRenews ==
    ASSUME TokensInv, NEW t \in Threads, NEW u \in Threads, Renewing(t), Renewing(u), t[1] = u[1]
    PROVE  t = u
BY DEF TokensInv, LockHeld

\* A request moves on without a lock, a token or a file: that it is not, and does not
\* become, the one that renews is all that matters.
LEMMA MoveInv ==
    ASSUME TokensInv, NEW t \in Threads, ~Renewing(t),
           UNCHANGED <<provider, accepts, age, file, mem, holder, broken>>,
           NEW r \in Request, req' = [req EXCEPT ![t] = r],
           r.at \notin {"renew", "save", "write"},
           mem[t[1]] # 0,
           r.force => r.sent # 0 /\ age[r.sent] = "refused"
    PROVE  TokensInv'
<1> USE DEF TokensInv
<1>1. TokensTyped'
  BY DEF TokensTyped
<1>2. LockHeld'
  BY DEF TokensTyped, LockHeld, Renewing
<1>3. Forced'
  BY DEF TokensTyped, Forced
<1>4. Recoverable'
  BY DEF TokensTyped, Recoverable, Renewing, Saving
<1>5. RenewsOnlyStale'
  BY DEF TokensTyped, RenewsOnlyStale, Renewing
<1> QED
  BY <1>1, <1>2, <1>3, <1>4, <1>5

\* A request as it is changed by a step.
LEMMA RequestChanged ==
    ASSUME NEW q \in Request, NEW place \in Stages
    PROVE  /\ [q EXCEPT !.at = place] \in Request
           /\ [q EXCEPT !.at = place].at = place
           /\ [q EXCEPT !.at = place].force = q.force
           /\ [q EXCEPT !.at = place].sent = q.sent
BY DEF Request

LEMMA RequestReturned ==
    ASSUME NEW q \in Request, NEW place \in Stages
    PROVE  /\ [q EXCEPT !.at = place, !.force = FALSE] \in Request
           /\ [q EXCEPT !.at = place, !.force = FALSE].at = place
           /\ ~[q EXCEPT !.at = place, !.force = FALSE].force
<1>1. [q EXCEPT !.at = place, !.force = FALSE] \in Request
  BY DEF Request
<1>2. [q EXCEPT !.at = place, !.force = FALSE].at = place
  BY DEF Request
<1>3. ~[q EXCEPT !.at = place, !.force = FALSE].force
  BY DEF Request
<1> QED
  BY <1>1, <1>2, <1>3

LEMMA GoesChanges ==
    ASSUME TokensTyped, NEW t \in Threads,
           NEW place \in {"lock", "renew", "save", "write", "send", "done", "failed"}, Goes(t, place)
    PROVE  \E r \in Request :
              /\ req' = [req EXCEPT ![t] = r]
              /\ r.at = place /\ r.force = req[t].force /\ r.sent = req[t].sent
<1> DEFINE r == [req[t] EXCEPT !.at = place]
<1>1. r \in Request /\ r.at = place /\ r.force = req[t].force /\ r.sent = req[t].sent
  <2>1. req[t] \in Request /\ place \in Stages
    BY DEF TokensTyped, Stages
  <2> QED
    BY <2>1, RequestChanged
<1>2. req' = [req EXCEPT ![t] = r]
  BY DEF Goes
<1> HIDE DEF r
<1> QED
  BY <1>1, <1>2

LEMMA ReturnMoves ==
    ASSUME TokensTyped, NEW t \in Threads, Returns(t)
    PROVE  \E r \in Request : /\ req' = [req EXCEPT ![t] = r]
                              /\ r.at \in {"check", "send"} /\ ~r.force
<1>1. PICK place \in {"check", "send"} : place = IF req[t].force THEN "check" ELSE "send"
  OBVIOUS
<1> DEFINE r == [req[t] EXCEPT !.at = place, !.force = FALSE]
<1>2. r \in Request /\ r.at = place /\ ~r.force
  <2>1. req[t] \in Request /\ place \in Stages
    BY DEF TokensTyped, Stages
  <2> QED
    BY <2>1, RequestReturned
<1>3. req' = [req EXCEPT ![t] = r]
  BY <1>1 DEF Returns
<1> HIDE DEF r
<1> QED
  BY <1>2, <1>3

LEMMA CheckInv == ASSUME TokensInv, NEW t \in Threads, Check(t) PROVE TokensInv'
<1>1. /\ ~Renewing(t) /\ mem[t[1]] # 0
      /\ UNCHANGED <<provider, accepts, age, file, mem, holder, broken>>
      /\ Goes(t, "lock") \/ Goes(t, "send")
  BY DEF Check, Renewing
<1>2. PICK place \in {"lock", "send"} : Goes(t, place)
  BY <1>1
<1>3. TokensTyped /\ (req[t].force => req[t].sent # 0 /\ age[req[t].sent] = "refused")
  BY DEF TokensInv, Forced
<1>4. PICK r \in Request :
        /\ req' = [req EXCEPT ![t] = r]
        /\ r.at = place /\ r.force = req[t].force /\ r.sent = req[t].sent
  BY <1>2, <1>3, GoesChanges
<1> QED
  BY <1>1, <1>3, <1>4, MoveInv

LEMMA SendInv == ASSUME TokensInv, NEW t \in Threads, Send(t) PROVE TokensInv'
<1>1. /\ req[t].at = "send" /\ ~Renewing(t)
      /\ UNCHANGED <<provider, accepts, age, file, mem, holder, broken>>
  BY DEF Send, Renewing
<1>2. /\ TokensTyped /\ mem[t[1]] # 0
      /\ req[t].force => req[t].sent # 0 /\ age[req[t].sent] = "refused"
  BY <1>1 DEF TokensInv, Forced
<1>3. CASE Goes(t, "done") \/ Goes(t, "failed")
  <2>1. PICK place \in {"done", "failed"} : Goes(t, place)
    BY <1>3
  <2>2. PICK r \in Request :
          /\ req' = [req EXCEPT ![t] = r]
          /\ r.at = place /\ r.force = req[t].force /\ r.sent = req[t].sent
    BY <1>2, <2>1, GoesChanges
  <2> QED
    BY <1>1, <1>2, <2>2, MoveInv
<1>4. CASE ~(Goes(t, "done") \/ Goes(t, "failed"))
  <2>1. PICK token \in 1..MaxTokens : token = mem[t[1]]
    BY <1>2 DEF TokensTyped
  <2> DEFINE r == [at |-> "lock", force |-> TRUE, sent |-> token, attempt |-> 2]
  <2>2. age[token] = "refused" /\ req' = [req EXCEPT ![t] = r]
    BY <1>4, <2>1 DEF Send
  <2>3. r \in Request /\ r.at = "lock" /\ r.sent = token /\ r.force
    BY DEF Request, Stages
  <2> HIDE DEF r
  <2> QED
    BY <1>1, <1>2, <2>1, <2>2, <2>3, MoveInv
<1> QED
  BY <1>3, <1>4

LEMMA LockInv == ASSUME TokensInv, NEW t \in Threads, Lock(t) PROVE TokensInv'
<1>1. /\ req[t].at = "lock" /\ holder[t[1]] = "none" /\ ~Renewing(t)
      /\ UNCHANGED <<provider, accepts, age, file, mem, broken>>
  BY DEF Lock, Renewing
<1>2. /\ TokensTyped /\ mem[t[1]] # 0
      /\ req[t].force => req[t].sent # 0 /\ age[req[t].sent] = "refused"
  BY <1>1 DEF TokensInv, Forced
<1>3. CASE ~RenewsLocked(req[t], mem[t[1]])
  <2>1. holder' = holder /\ Returns(t)
    BY <1>3 DEF Lock
  <2>2. PICK r \in Request : req' = [req EXCEPT ![t] = r] /\ r.at \in {"check", "send"} /\ ~r.force
    BY <1>2, <2>1, ReturnMoves
  <2> QED
    BY <1>1, <1>2, <2>1, <2>2, MoveInv
<1>4. CASE RenewsLocked(req[t], mem[t[1]])
  <2>1. holder' = [holder EXCEPT ![t[1]] = t[2]] /\ Goes(t, "renew")
    BY <1>4 DEF Lock
  <2>2. PICK r \in Request :
          /\ req' = [req EXCEPT ![t] = r]
          /\ r.at = "renew" /\ r.force = req[t].force /\ r.sent = req[t].sent
    BY <1>2, <2>1, GoesChanges
  <2>3. \/ age[mem[t[1]]] # "fresh"
        \/ provider.kind = "openai" /\ provider.expiry = "unknown"
    <3>1. CASE req[t].force
      BY <1>2, <1>4, <3>1 DEF RenewsLocked
    <3>2. CASE ~req[t].force
      <4>1. provider.kind \in {"responses", "openai"}
        BY <1>2 DEF TokensTyped
      <4> QED
        BY <1>4, <3>2, <4>1 DEF RenewsLocked, RenewsEarly, IsTokenExpired
    <3> QED
      BY <3>1, <3>2
  <2> USE DEF TokensInv
  <2>4. TokensTyped'
    BY <1>1, <2>1, <2>2, HoldersHave DEF TokensTyped
  <2>5. LockHeld'
    BY <1>1, <2>1, <2>2, ThreadsDiffer DEF TokensTyped, LockHeld, Renewing
  <2>6. Forced'
    BY <1>1, <1>2, <2>2 DEF TokensTyped, Forced
  <2>7. Recoverable'
    BY <1>1, <2>2 DEF TokensTyped, Recoverable, Saving
  <2>8. RenewsOnlyStale'
    BY <1>1, <2>2, <2>3 DEF TokensTyped, RenewsOnlyStale
  <2> QED
    BY <2>4, <2>5, <2>6, <2>7, <2>8
<1> QED
  BY <1>3, <1>4

\* Nobody else is saving: only the process of a request that saves has the token the
\* server takes, and there only that request holds the lock.
LEMMA RenewedInv == ASSUME TokensInv, NEW t \in Threads, Renewed(t) PROVE TokensInv'
<1>1. /\ Renewing(t) /\ ~Saving(t) /\ mem[t[1]] = accepts /\ accepts' = accepts + 1
      /\ mem' = [mem EXCEPT ![t[1]] = accepts + 1]
      /\ accepts + 1 \in 1..MaxTokens /\ accepts \in Nat
      /\ Goes(t, "save")
      /\ UNCHANGED <<provider, age, file, holder, broken>>
  BY DEF Renewed, Renewing, Saving, TokensInv, TokensTyped
<1>2. PICK r \in Request :
        /\ req' = [req EXCEPT ![t] = r]
        /\ r.at = "save" /\ r.force = req[t].force /\ r.sent = req[t].sent
  BY <1>1, GoesChanges DEF TokensInv
<1> USE DEF TokensInv
<1>3. \A u \in Threads : Renewing(u) /\ u[1] = t[1] => u = t
  BY <1>1, OneRenews
<1>4. ~broken => \A u \in Threads : ~Saving(u)
  BY <1>1, <1>3 DEF Recoverable, Renewing, Saving
<1>5. TokensTyped'
  BY <1>1, <1>2 DEF TokensTyped
<1>6. LockHeld'
  BY <1>1, <1>2 DEF TokensTyped, LockHeld, Renewing
<1>7. Forced'
  BY <1>1, <1>2 DEF TokensTyped, Forced, Renewing
<1>8. Recoverable'
  <2>1. file' < accepts' /\ \A p \in Procs : mem'[p] <= accepts'
    BY <1>1 DEF TokensTyped, Recoverable
  <2>2. \A q \in Procs \ {t[1]} : mem'[q] # accepts'
    BY <1>1 DEF TokensTyped, Recoverable
  <2>3. mem'[t[1]] = accepts' /\ Saving(t)'
    BY <1>1, <1>2 DEF TokensTyped, Saving
  <2>4. ~broken' => \A u \in Threads \ {t} : ~Saving(u)'
    BY <1>1, <1>2, <1>4 DEF TokensTyped, Saving
  <2>5. file' \in Nat /\ accepts' \in Nat
    BY <1>5 DEF TokensTyped
  <2> QED
    BY <2>1, <2>2, <2>3, <2>4, <2>5 DEF Recoverable
<1>9. RenewsOnlyStale'
  BY <1>1, <1>2, <1>3 DEF TokensTyped, RenewsOnlyStale, Renewing
<1> QED
  BY <1>5, <1>6, <1>7, <1>8, <1>9

LEMMA RenewFailsInv == ASSUME TokensInv, NEW t \in Threads, RenewFails(t) PROVE TokensInv'
<1>1. /\ req[t].at = "renew" /\ Goes(t, "failed")
      /\ holder' = [holder EXCEPT ![t[1]] = "none"]
      /\ UNCHANGED <<provider, age, file, mem>>
      /\ \/ UNCHANGED <<accepts, broken>>
         \/ accepts < MaxTokens /\ accepts' = accepts + 1 /\ broken' = TRUE
  BY DEF RenewFails
<1>2. PICK r \in Request :
        /\ req' = [req EXCEPT ![t] = r]
        /\ r.at = "failed" /\ r.force = req[t].force /\ r.sent = req[t].sent
  BY <1>1, GoesChanges DEF TokensInv
<1> USE DEF TokensInv
<1>3. \A u \in Threads : Renewing(u) /\ u[1] = t[1] => u = t
  BY <1>1, OneRenews DEF Renewing
<1>4. TokensTyped'
  <2>1. accepts' \in 1..MaxTokens
    BY <1>1 DEF TokensTyped
  <2>4. broken' \in BOOLEAN
    BY <1>1, Zenon DEF TokensTyped
  <2>2. holder' \in [Procs -> Holders]
    BY <1>1, HoldersHave DEF TokensTyped
  <2>3. req' \in [Threads -> Request]
    BY <1>2 DEF TokensTyped
  <2> QED
    BY <1>1, <2>1, <2>2, <2>3, <2>4 DEF TokensTyped
<1>5. LockHeld'
  BY <1>1, <1>2, <1>3 DEF TokensTyped, LockHeld, Renewing
<1>6. Forced'
  BY <1>1, <1>2 DEF TokensTyped, Forced
<1>7. Recoverable'
  <2>1. CASE UNCHANGED <<accepts, broken>>
    BY <1>1, <1>2, <2>1 DEF TokensTyped, Recoverable, Saving
  <2>2. CASE accepts < MaxTokens /\ accepts' = accepts + 1 /\ broken' = TRUE
    BY <1>1, <2>2 DEF TokensTyped, Recoverable
  <2> QED
    BY <1>1, <2>1, <2>2
<1>8. RenewsOnlyStale'
  BY <1>1, <1>2 DEF TokensTyped, RenewsOnlyStale
<1> QED
  BY <1>4, <1>5, <1>6, <1>7, <1>8

\* The lock is released with the request on its way, and the file is the server's or
\* something was lost.
LEMMA ReleaseInv ==
    ASSUME TokensInv, NEW t \in Threads, Saving(t), Returns(t),
           holder' = [holder EXCEPT ![t[1]] = "none"],
           UNCHANGED <<provider, accepts, age, mem>>,
           \/ broken' = TRUE /\ file' = file
           \/ broken' = broken /\ file' = mem[t[1]]
    PROVE  TokensInv'
<1> USE DEF TokensInv
<1>1. PICK r \in Request : req' = [req EXCEPT ![t] = r] /\ r.at \in {"check", "send"} /\ ~r.force
  BY ReturnMoves
<1>2. Renewing(t) /\ \A u \in Threads : Renewing(u) /\ u[1] = t[1] => u = t
  BY OneRenews DEF Renewing, Saving
<1>3. TokensTyped'
  <2>1. file' \in 0..MaxTokens
    BY ThreadsDiffer DEF TokensTyped
  <2>4. broken' \in BOOLEAN
    BY Zenon DEF TokensTyped
  <2>2. holder' \in [Procs -> Holders]
    BY HoldersHave DEF TokensTyped
  <2>3. req' \in [Threads -> Request]
    BY <1>1 DEF TokensTyped
  <2> QED
    BY <2>1, <2>2, <2>3, <2>4 DEF TokensTyped
<1>4. LockHeld'
  BY <1>1, <1>2 DEF TokensTyped, LockHeld, Renewing
<1>5. Forced'
  BY <1>1, <1>2 DEF TokensTyped, Forced, Renewing
<1>6. Recoverable'
  BY <1>1 DEF TokensTyped, Recoverable, Saving
<1>7. RenewsOnlyStale'
  BY <1>1 DEF TokensTyped, RenewsOnlyStale
<1> QED
  BY <1>3, <1>4, <1>5, <1>6, <1>7

LEMMA TruncateInv ==
    ASSUME TokensInv, NEW t \in Threads, req[t].at = "save", Goes(t, "write"), file' = 0,
           UNCHANGED <<provider, accepts, age, mem, holder, broken>>
    PROVE  TokensInv'
<1> USE DEF TokensInv
<1>1. PICK r \in Request :
        /\ req' = [req EXCEPT ![t] = r]
        /\ r.at = "write" /\ r.force = req[t].force /\ r.sent = req[t].sent
  BY GoesChanges
<1>2. TokensTyped'
  BY <1>1 DEF TokensTyped
<1>3. LockHeld' /\ Forced'
  BY <1>1 DEF TokensTyped, LockHeld, Forced, Renewing
<1>4. Recoverable'
  BY <1>1 DEF TokensTyped, Recoverable, Saving
<1>5. RenewsOnlyStale'
  BY <1>1 DEF TokensTyped, RenewsOnlyStale
<1> QED
  BY <1>2, <1>3, <1>4, <1>5

LEMMA SaveInv == ASSUME TokensInv, NEW t \in Threads, SaveBegins(t) \/ SaveEnds(t) PROVE TokensInv'
<1>1. CASE SaveEnds(t)
  BY <1>1, ReleaseInv DEF SaveEnds, Saving
<1>2. CASE SaveBegins(t) /\ ~(file' = 0 /\ Goes(t, "write") /\ UNCHANGED <<holder, broken>>)
  BY <1>2, ReleaseInv DEF SaveBegins, Saving
<1>3. CASE SaveBegins(t) /\ file' = 0 /\ Goes(t, "write") /\ UNCHANGED <<holder, broken>>
  BY <1>3, TruncateInv DEF SaveBegins
<1> QED
  BY <1>1, <1>2, <1>3

LEMMA AgesInv == ASSUME TokensInv, NEW token \in 1..MaxTokens, Ages(token) PROVE TokensInv'
<1> USE DEF TokensInv
<1>1. PICK older \in {"near", "refused"} :
         /\ age' = [age EXCEPT ![token] = older]
         /\ age[token] = "refused" => older = "refused"
         /\ UNCHANGED <<provider, accepts, file, mem, holder, req, broken>>
  BY DEF Ages
<1>2. TokensTyped'
  BY <1>1 DEF TokensTyped
<1>3. LockHeld' /\ Recoverable'
  BY <1>1 DEF LockHeld, Recoverable, Renewing, Saving
<1>4. Forced'
  BY <1>1 DEF TokensTyped, Forced, Request
<1>5. RenewsOnlyStale'
  <2>1. \A t \in Threads : req[t].at = "renew" => mem[t[1]] \in 1..MaxTokens
    BY DEF TokensTyped, Forced
  <2> QED
    BY <1>1, <2>1 DEF TokensTyped, RenewsOnlyStale
<1> QED
  BY <1>2, <1>3, <1>4, <1>5

LEMMA KillInv == ASSUME TokensInv, NEW p \in Procs, Kill(p) PROVE TokensInv'
<1> USE DEF TokensInv
<1> DEFINE r == [New EXCEPT !.at = "killed"]
<1>1. r \in Request /\ r.at = "killed" /\ ~r.force
  <2>1. New \in Request /\ ~New.force /\ "killed" \in Stages
    BY DEF New, Request, Stages
  <2> QED
    BY <2>1, RequestChanged
<1>2. /\ mem' = [mem EXCEPT ![p] = 0] /\ holder' = [holder EXCEPT ![p] = "none"]
      /\ req' = [t \in Threads |-> IF t[1] = p THEN r ELSE req[t]]
      /\ UNCHANGED <<provider, accepts, age, file>>
      /\ broken' \in BOOLEAN /\ (broken => broken')
      /\ ~broken' => \A t \in Threads : t[1] = p => ~Saving(t)
  BY DEF Kill, Saving, TokensTyped
<1> HIDE DEF r
<1>3. TokensTyped'
  BY <1>1, <1>2, HoldersHave DEF TokensTyped
<1>4. LockHeld'
  BY <1>1, <1>2 DEF TokensTyped, LockHeld, Renewing
<1>5. Forced'
  BY <1>1, <1>2 DEF TokensTyped, Forced
<1>6. Recoverable'
  BY <1>1, <1>2 DEF TokensTyped, Recoverable, Saving
<1>7. RenewsOnlyStale'
  BY <1>1, <1>2 DEF TokensTyped, RenewsOnlyStale
<1> QED
  BY <1>3, <1>4, <1>5, <1>6, <1>7

LEMMA RestartInv == ASSUME TokensInv, NEW p \in Procs, Restart(p) PROVE TokensInv'
<1> USE DEF TokensInv
<1>1. New \in Request /\ New.at = "check" /\ ~New.force
  BY DEF New, Request, Stages
<1>2. /\ mem[p] = 0 /\ file # 0
      /\ mem' = [mem EXCEPT ![p] = file]
      /\ req' = [t \in Threads |-> IF t[1] = p THEN New ELSE req[t]]
      /\ UNCHANGED <<provider, accepts, age, file, holder, broken>>
  BY DEF Restart
<1>3. \A t \in Threads : t[1] = p => ~Renewing(t) /\ ~Saving(t)
  BY <1>2 DEF Forced, Renewing, Saving
<1>4. TokensTyped'
  BY <1>1, <1>2 DEF TokensTyped
<1>5. LockHeld'
  BY <1>1, <1>2, <1>3 DEF TokensTyped, LockHeld, Renewing
<1>6. Forced'
  BY <1>1, <1>2 DEF TokensTyped, Forced
<1>7. Recoverable'
  BY <1>1, <1>2, <1>3 DEF TokensTyped, Recoverable, Saving
<1>8. RenewsOnlyStale'
  BY <1>1, <1>2 DEF TokensTyped, RenewsOnlyStale
<1> QED
  BY <1>4, <1>5, <1>6, <1>7, <1>8

LEMMA TokensNextInv == TokensInv /\ [TokensNext]_tokenVars => TokensInv'
<1> SUFFICES ASSUME TokensInv, [TokensNext]_tokenVars PROVE TokensInv'
  OBVIOUS
<1>1. CASE UNCHANGED tokenVars
  BY <1>1 DEF tokenVars, TokensInv, TokensTyped, LockHeld, Forced, Recoverable, RenewsOnlyStale,
              Renewing, Saving
<1>2. ASSUME NEW t \in Threads, Run(t) PROVE TokensInv'
  BY <1>2, CheckInv, LockInv, RenewedInv, RenewFailsInv, SaveInv, SendInv DEF Run
<1>3. ASSUME NEW token \in 1..MaxTokens, Ages(token) PROVE TokensInv'
  BY <1>3, AgesInv
<1>4. ASSUME NEW p \in Procs, Kill(p) \/ Restart(p) PROVE TokensInv'
  BY <1>4, KillInv, RestartInv
<1> QED
  BY <1>1, <1>2, <1>3, <1>4 DEF TokensNext

\* However many processes share the provider's file and however many requests each of
\* them has: a token is renewed only when it is old or was refused, and whenever nobody
\* renews the file has the token the server takes, unless an answer or a write was lost
\* (responses_client_oauth_refresh.go, openai_client_oauth_refresh.go).
THEOREM FileStaysUsable == TokensSpec => []TokensUsable
<1>1. TokensInv => TokensUsable
  <2> SUFFICES ASSUME TokensInv PROVE SavedTokenUsable
    BY DEF TokensInv, TokensUsable
  <2>1. ASSUME NEW t \in Threads, Saving(t), \A p \in Procs : holder[p] = "none" PROVE FALSE
    BY <2>1 DEF TokensInv, LockHeld, Renewing, Saving
  <2> QED
    BY <2>1 DEF TokensInv, Recoverable, SavedTokenUsable
<1> QED
  BY TokensInitInv, TokensNextInv, <1>1, PTL DEF TokensSpec

=============================================================================
