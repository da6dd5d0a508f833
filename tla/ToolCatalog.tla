------------------------------ MODULE ToolCatalog ------------------------------
(***************************************************************************)
(* The tools a thread offers its model: those built into the host and those *)
(* of the MCP servers the model loaded.  A turn starts with the definitions *)
(* the thread remembers, runs the calls of a batch together, and offers in  *)
(* every request what it has by then.  The desktop refuses a call that has  *)
(* failed twice already; the phone drops its calls when it is stopped.      *)
(*                                                                         *)
(* The tools built in are one, BuiltIn: what they do to the world is left   *)
(* out, and none adds a definition (a search does not, nor the load of a    *)
(* skill).  A tool of a server is told from every other by its name, a      *)
(* digest of both, which no tool built in has.  Calls of one tool have      *)
(* equal arguments.  TurnClient has the requests lost and repeated on the   *)
(* way; they carry what is sent here once.                                  *)
(***************************************************************************)
EXTENDS Naturals, Sequences, FiniteSets

CONSTANTS
    Servers,        \* the MCP servers of the account
    Tools,          \* the names of tools on a server
    MaxTurns,       \* bound: the turns of the thread
    MaxCalls,       \* bound: the calls of the thread
    MaxBatch        \* bound: the calls of a batch

VARIABLES
    host,           \* where the thread runs: the desktop or the phone
    listed,         \* each server as the API lists it: whether this host can use it,
                    \* which on the phone needs HTTP, and its tools
    threadTools,    \* the definitions the thread keeps between its turns
    given,          \* the tools that loads gave the model since the host was started
    turns,          \* the turns started
    requested,        \* the calls asked for
    turn            \* the turn: its definitions, its request, its calls, the failures it
                    \* counts, and the last two results each operation has had in it

catalogVars == <<host, listed, threadTools, given, turns, requested, turn>>

BuiltIn == <<"built in">>
Load(s) == <<"load", s>>
Names == {<<"mcp", s, t>> : s \in Servers, t \in Tools}
Operations == {BuiltIn} \cup {Load(s) : s \in Servers} \cup Names

\* Nobody reads the tools of a server that cannot be used: it has none here.
Listings == {l \in [usable : BOOLEAN, tools : SUBSET Tools] : l.usable \/ l.tools = {}}
ToolsOf(s) == {<<"mcp", s, t>> : t \in listed[s].tools}

NoTurn == [phase |-> "none", stopped |-> FALSE, defined |-> {}, offered |-> {}, calls |-> <<>>,
           failed |-> [o \in Operations |-> 0], results |-> [o \in Operations |-> <<>>]]

Call(o, state) == [op |-> o, state |-> state, tools |-> {}]
Final == {"rejected", "refused", "failed", "returned"}
Settled(c) == turn.calls[c].state \in Final
InProgress(c) == turn.phase = "tools" /\ c \in DOMAIN turn.calls /\ ~Settled(c)

CatalogInit ==
    /\ host \in {"desktop", "phone"}
    /\ listed \in [Servers -> Listings]
    /\ threadTools = {} /\ given = {} /\ turns = 0 /\ requested = 0
    /\ turn = NoTurn

\* The user saves, tests, enables, disables or deletes a server.
ServerChanges(s, now) ==
    /\ now # listed[s]
    /\ listed' = [listed EXCEPT ![s] = now]
    /\ UNCHANGED <<host, threadTools, given, turns, requested, turn>>

TurnBegins ==
    /\ turn.phase = "none" /\ turns < MaxTurns
    /\ turns' = turns + 1
    /\ turn' = [NoTurn EXCEPT !.phase = "model", !.defined = threadTools, !.offered = threadTools]
    /\ UNCHANGED <<host, listed, threadTools, given, requested>>

-----------------------------------------------------------------------------
\* A batch of calls.  The API rejects one whose tool the request did not offer;
\* the desktop refuses one that has failed twice; a plugin must know the rest.

Rejects(o) == o \in Names \ turn.offered
Refuses(o) == host = "desktop" /\ turn.failed[o] >= 2
Knows(o) == o \in Operations \ (Names \ turn.defined)

Outcome(o) ==
    CASE Rejects(o) -> "rejected"
      [] ~Rejects(o) /\ Refuses(o) -> "refused"
      [] ~Rejects(o) /\ ~Refuses(o) /\ ~Knows(o) -> "unknown"
      [] OTHER -> "running"

BatchAsked(batch) ==
    /\ turn.phase = "model" /\ requested + Len(batch) <= MaxCalls
    /\ requested' = requested + Len(batch)
    /\ turn' = [turn EXCEPT !.phase = "tools",
                            !.calls = [c \in DOMAIN batch |-> Call(batch[c], Outcome(batch[c]))]]
    /\ UNCHANGED <<host, listed, threadTools, given, turns>>

\* A load, or a call of a server's tool, reads the list of servers first.
ServersRead(c) ==
    /\ InProgress(c) /\ turn.calls[c].state = "running" /\ turn.calls[c].op # BuiltIn
    /\ LET s == turn.calls[c].op[2]
       IN  turn' = IF listed[s].usable
                   THEN [turn EXCEPT !.calls[c].state = "read", !.calls[c].tools = ToolsOf(s)]
                   ELSE [turn EXCEPT !.calls[c].state = "absent"]
    /\ UNCHANGED <<host, listed, threadTools, given, turns, requested>>

\* The last two results of the calls of an operation that ran.
Told(o, out) ==
    LET before == turn.results[o]
    IN  IF Len(before) < 2 THEN Append(before, out) ELSE <<before[2], out>>

\* Two failures refuse every later call, so none is counted past them: the code
\* counts each refusal too.
Counted(o) == IF turn.failed[o] < 2 THEN turn.failed[o] + 1 ELSE 2

\* The plugin throws: at once if no plugin handles the tool, if the server cannot be
\* used or has no such tool, or whatever goes wrong on the way.
OperationFails(c) ==
    /\ InProgress(c)
    /\ LET o == turn.calls[c].op
       IN  turn' = [turn EXCEPT !.calls[c] = Call(o, "failed"),
                                !.failed[o] = IF host = "desktop" THEN Counted(o) ELSE @,
                                !.results[o] = Told(o, "failed")]
    /\ UNCHANGED <<host, listed, threadTools, given, turns, requested>>

\* Mutant: a success leaves the failures counted.
ReturnedCounting(c) ==
    LET o == turn.calls[c].op
    IN  [turn EXCEPT !.calls[c].state = "returned", !.results[o] = Told(o, "returned")]

Returned(c) ==
    LET o == turn.calls[c].op
    IN  [turn EXCEPT !.calls[c].state = "returned", !.results[o] = Told(o, "returned"),
                     !.failed[o] = 0]

\* A built-in tool, or one the server had when it was read.
OperationReturns(c) ==
    /\ InProgress(c)
    /\ LET call == turn.calls[c]
       IN  \/ call.op = BuiltIn
           \/ call.state = "read" /\ call.op \in call.tools
    /\ turn' = Returned(c)
    /\ UNCHANGED <<host, listed, threadTools, given, turns, requested>>

\* Mutant: the definitions of a load take the place of those there are.
CollectedAlone(tools) == tools

Collected(tools) == turn.defined \cup tools

\* What a load returns is defined at once, and kept for later turns; a server may
\* have no tools.
LoadReturns(c) ==
    /\ InProgress(c)
    /\ LET call == turn.calls[c]
       IN  /\ call.state = "read" /\ call.op = Load(call.op[2])
           /\ turn' = [Returned(c) EXCEPT !.defined = Collected(call.tools)]
           /\ threadTools' = Collected(call.tools)
    /\ UNCHANGED <<host, listed, given, turns, requested>>

-----------------------------------------------------------------------------
\* What follows a batch: the next request, or the end of the turn.

AllSettled == turn.phase = "tools" /\ \A c \in DOMAIN turn.calls : Settled(c)

\* Mutant: a request offers what the last one did.
OfferedBefore == turn.offered

Offered == turn.defined

\* What the results of a batch give the model.
Gained ==
    UNION {turn.calls[c].tools : c \in
              {d \in DOMAIN turn.calls : turn.calls[d].op \in {Load(s) : s \in Servers}}}

Resumes ==
    /\ AllSettled /\ ~turn.stopped
    /\ turn' = [turn EXCEPT !.phase = "model", !.offered = Offered, !.calls = <<>>]
    /\ given' = given \cup Gained
    /\ UNCHANGED <<host, listed, threadTools, turns, requested>>

\* The model answers or its run fails; the results cannot be sent; the turn was
\* stopped and its calls have returned.
TurnEnds ==
    /\ turn.phase = "model" \/ AllSettled
    /\ turn' = NoTurn
    /\ UNCHANGED <<host, listed, threadTools, given, turns, requested>>

\* The desktop waits for the calls that run, the phone drops them.
Stopped ==
    /\ turn.phase = "tools" /\ ~turn.stopped
    /\ turn' = IF host = "phone" THEN NoTurn ELSE [turn EXCEPT !.stopped = TRUE]
    /\ UNCHANGED <<host, listed, threadTools, given, turns, requested>>

HostRestarts ==
    /\ turns > 0
    /\ threadTools' = {} /\ given' = {} /\ turn' = NoTurn
    /\ UNCHANGED <<host, listed, turns, requested>>

Batches == UNION {[1 .. n -> Operations] : n \in 1 .. MaxBatch}

CatalogNext ==
    \/ \E s \in Servers, now \in Listings : ServerChanges(s, now)
    \/ TurnBegins
    \/ \E batch \in Batches : BatchAsked(batch)
    \/ \E c \in 1 .. MaxBatch : ServersRead(c) \/ OperationFails(c) \/ OperationReturns(c) \/ LoadReturns(c)
    \/ Resumes \/ TurnEnds \/ Stopped \/ HostRestarts

-----------------------------------------------------------------------------
\* Every set of tools is one of names the program knows, and a turn is with its model
\* or with its tools.
CatalogTypeOK ==
    /\ host \in {"desktop", "phone"}
    /\ listed \in [Servers -> Listings]
    /\ threadTools \subseteq Names /\ given \subseteq Names
    /\ turn.phase \in {"none", "model", "tools"}
    /\ turn.defined \subseteq Names /\ turn.offered \subseteq Names
    /\ turn.failed \in [Operations -> 0 .. 2]

\* What the model was given it is offered, in this turn and in every later one;
\* the next turn starts with what this one has; and no call that the API lets
\* through is of a tool the host does not know.
LoadedStaysOffered ==
    /\ given \subseteq threadTools
    /\ turn.phase = "model" => given \subseteq turn.offered
    /\ turn.phase # "none" => threadTools = turn.defined
    /\ \A c \in DOMAIN turn.calls : turn.calls[c].state # "unknown"

\* A call is refused only when the last two calls of its operation both failed,
\* whatever ran beside them.
RefusedAfterTwo ==
    \A c \in DOMAIN turn.calls :
        turn.calls[c].state = "refused" =>
            turn.results[turn.calls[c].op] = <<"failed", "failed">>

\* What the model sees of its tools, and what the host refuses (tool-registry.ts).
CatalogAgrees == LoadedStaysOffered /\ RefusedAfterTwo
=============================================================================
