-------------------------------- MODULE Daemon --------------------------------
(***************************************************************************)
(* The life of the daemon around its MCP servers: main (cmd/nisixd) loads  *)
(* them one after the other (internal/mcp/loader.go, RegisterFromFile),    *)
(* registers their tools, serves, and closes them.  One goroutine for each *)
(* client forwards its notifications to a channel that Manager.Close       *)
(* closes at the end, and one goroutine of main drains that channel.       *)
(***************************************************************************)
EXTENDS Integers, Sequences, FiniteSets, FiniteSetsExt

CONSTANTS
  Configs,    \* what mcp.json may hold: sequences of servers, sorted by name
  Words,      \* the words names are made of
  Builtins,   \* names of the tools registered before
  ClientCap,  \* capacity of a client's channel (128 in the code)
  ManagerCap, \* capacity of the manager's channel (256 in the code)
  MaxNotes    \* bound: notifications the servers send

\* A sanitized name is the sequence of its parts between underscores, each a word
\* or a number.
Word(w)   == [word |-> w, number |-> 0]
Number(i) == [word |-> "%d", number |-> i]
Part      == [word : Words \cup {"mcp", "%d"}, number : Nat]
Name      == Seq(Part)

\* tools: what tools/list returns, sorted by name.  hangs: the step that a server
\* which stays up never ends, by silence or by endless pages; "start" is an event
\* stream that it does not open.
ServerType ==
  [transport : {"stdio", "sse", "streamable_http", "unknown"}, name : Name, tools : Seq(Name),
   hangs : {"no", "start", "initialize", "list"}]

ASSUME DaemonAssumption ==
  /\ Configs \subseteq Seq(ServerType)
  /\ Builtins \subseteq Name /\ IsFiniteSet(Builtins)
  /\ {ClientCap, ManagerCap} \subseteq Nat \ {0} /\ MaxNotes \in Nat

VARIABLES
  servers,  \* mcpServers, the contents of mcp.json
  main,     \* "load", "unwind" (a failed load), "wire", "serve", "shutdown", "exited"
  exit,     \* why the process ended, "no" before
  cur,      \* the server RegisterFromFile works on
  left,     \* those of its tools that are not registered yet
  step,     \* "resolve", "start", "initialize", "list", "register"
  asked,    \* its request: "no", "sent" (waiting), "failed" by failPending
  deaf,     \* its read loop has ended although the server lives
  client,   \* each server's client: "none", "open", "closed"
  clients,  \* Manager.clients
  registry, \* the tool registry: the owner of each name
  tools,    \* Manager.tools
  closer,   \* Manager.Close: "no", "clients", "wait", "done"
  closing,  \* the next of clients to close
  up,       \* servers that run: a child once it is started, another until it exits
  notes,    \* each client's channel: how many it holds
  fanin,    \* Manager.notifications
  shut,     \* it is closed
  fwd,      \* forwardClientNotifications: "off", "recv", "hold", "done"
  emitted,
  panicked  \* auxiliary: a send on a closed channel

vars == <<servers, main, exit, cur, left, step, asked, deaf, client, clients, registry, tools, closer,
          closing, up, notes, fanin, shut, fwd, emitted, panicked>>

askVars   == <<asked, deaf>>
loadVars  == <<cur, left, step, askVars, clients, registry, tools>>
closeVars == <<closer, closing>>
noteVars  == <<notes, fanin, shut, fwd, emitted, panicked>>

Slots == UNION {DOMAIN c : c \in Configs}
Builtin == [server |-> 0, tool |-> <<>>]

Init ==
  /\ servers \in Configs
  /\ main = "load" /\ exit = "no"
  /\ cur = 1 /\ left = <<>> /\ step = "resolve" /\ asked = "no" /\ deaf = FALSE
  /\ client = [i \in Slots |-> "none"]
  /\ clients = <<>>
  /\ registry = [n \in Builtins |-> Builtin]
  /\ tools = {}
  /\ closer = "no" /\ closing = 1
  /\ up = {i \in DOMAIN servers : servers[i].transport # "stdio"}
  /\ notes = [i \in Slots |-> 0] /\ fanin = 0 /\ shut = FALSE
  /\ fwd = [i \in Slots |-> "off"]
  /\ emitted = 0 /\ panicked = FALSE

-----------------------------------------------------------------------------
(* RegisterFromFile. *)

Exit(why) == main' = "exited" /\ exit' = why

\* manager.Close(), then main logs the error and exits.
Unwind ==
  /\ main' = "unwind" /\ closer' = "clients"
  /\ UNCHANGED <<exit, loadVars, closing>>

Loading(s) == main = "load" /\ cur \in DOMAIN servers /\ step = s

\* No transport is found for the server: the error is returned as it is.
Resolve ==
  /\ Loading("resolve")
  /\ IF servers[cur].transport = "unknown"
     THEN Exit("transport") /\ UNCHANGED step
     ELSE step' = "start" /\ UNCHANGED <<main, exit>>
  /\ UNCHANGED <<servers, cur, left, askVars, client, clients, registry, tools, closeVars, up,
                 noteVars>>

\* The child process runs, the stream is open and its endpoint is known, or there is an URL.
\* The GET for the stream has no timeout: it waits as long as the server does.
Start ==
  /\ Loading("start")
  /\ servers[cur].transport = "sse" => cur \in up /\ servers[cur].hangs # "start"
  /\ client' = [client EXCEPT ![cur] = "open"]
  /\ up' = IF servers[cur].transport = "stdio" THEN up \cup {cur} ELSE up
  /\ step' = "initialize"
  /\ UNCHANGED <<servers, main, exit, cur, left, askVars, clients, registry, tools, closeVars,
                 noteVars>>

\* startSSE may fail half way; StartClient closes the client then.
StartFails ==
  /\ Loading("start")
  /\ client' = [client EXCEPT ![cur] = IF servers[cur].transport = "sse" THEN "closed" ELSE @]
  /\ Unwind
  /\ UNCHANGED <<servers, up, noteVars>>

Requesting == Loading("initialize") \/ Loading("list")

\* The request is registered and sent.  A server that is gone does not take it.
Ask ==
  /\ Requesting /\ asked = "no"
  /\ cur \in up
  /\ asked' = "sent"
  /\ UNCHANGED <<servers, main, exit, cur, left, step, deaf, client, clients, registry, tools,
                 closeVars, up, noteVars>>

\* The answer comes through the read loop, or to an event stream's client in the
\* body of its POST, even when failPending has given up the request by then.
Answers(s) ==
  /\ Loading(s) /\ cur \in up /\ servers[cur].hangs # s
  /\ \/ asked = "sent" /\ ~deaf
     \/ asked # "no" /\ servers[cur].transport = "sse"

Initialize ==
  /\ Answers("initialize")
  /\ step' = "list" /\ asked' = "no"
  /\ UNCHANGED <<servers, main, exit, cur, left, deaf, client, clients, registry, tools, closeVars, up,
                 noteVars>>

ListTools ==
  /\ Answers("list")
  /\ step' = "register" /\ left' = servers[cur].tools /\ asked' = "no"
  /\ UNCHANGED <<servers, main, exit, cur, deaf, client, clients, registry, tools, closeVars, up,
                 noteVars>>

\* Mutant: an error of tools/list closes the manager, not the new client.
RequestFailsLeaves ==
  /\ Requesting
  /\ client' = [client EXCEPT ![cur] = IF step = "list" THEN @ ELSE "closed"]
  /\ Unwind
  /\ UNCHANGED <<servers, up, noteVars>>

\* The server answers with an error, exits, or lets an HTTP request time out.
RequestFails ==
  /\ Requesting
  /\ client' = [client EXCEPT ![cur] = "closed"]
  /\ Unwind
  /\ UNCHANGED <<servers, up, noteVars>>

\* Mutant: the first free suffix is taken for granted.
uniqueToolNameGuess(existing, base) ==
  IF base \in existing THEN Append(base, Number(2)) ELSE base

\* The base name, or with the first suffix from 2 on that is free.
uniqueToolName(existing, base) ==
  IF base \notin existing THEN base
  ELSE LET free == {i \in 2..(Cardinality(existing) + 2) : Append(base, Number(i)) \notin existing}
       IN Append(base, Number(Min(free)))

\* Registry.Register: a tool replaces one of the same name.
Enter(name, tool) ==
  registry' = [n \in DOMAIN registry \cup {name} |-> IF n = name THEN tool ELSE registry[n]]

\* Each tool is wrapped and registered under its local name...
RegisterTool ==
  /\ Loading("register") /\ left # <<>>
  /\ LET name == uniqueToolName(DOMAIN registry, <<Word("mcp")>> \o servers[cur].name \o Head(left))
         new  == [server |-> cur, tool |-> Head(left)]
     IN /\ Enter(name, new)
        /\ tools' = tools \cup {[name |-> name, of |-> new]}
  /\ left' = Tail(left)
  /\ UNCHANGED <<servers, main, exit, cur, step, askVars, client, clients, closeVars, up, noteVars>>

\* ...and then the manager keeps the client and starts its forwarder.
KeepClient ==
  /\ Loading("register") /\ left = <<>>
  /\ clients' = Append(clients, cur)
  /\ fwd' = [fwd EXCEPT ![cur] = "recv"]
  /\ cur' = cur + 1 /\ step' = "resolve" /\ deaf' = FALSE
  /\ UNCHANGED <<servers, main, exit, left, asked, client, registry, tools, closeVars, up, notes, fanin,
                 shut, emitted, panicked>>

\* All servers are loaded: main goes on with its wiring.
Loaded ==
  /\ main = "load" /\ cur \notin DOMAIN servers
  /\ main' = "wire"
  /\ UNCHANGED <<servers, exit, loadVars, client, closeVars, up, noteVars>>

-----------------------------------------------------------------------------
(* main, after the load. *)

\* From here on a signal is handled.
Serve ==
  /\ main = "wire"
  /\ main' = "serve"
  /\ UNCHANGED <<servers, exit, loadVars, client, closeVars, up, noteVars>>

\* log.Fatal skips the deferred calls: no model client, the address is in use.
Fatal ==
  /\ main \in {"wire", "serve"}
  /\ Exit("fatal")
  /\ UNCHANGED <<servers, loadVars, client, closeVars, up, noteVars>>

\* A signal: ListenAndServe returns as soon as Shutdown is called, and main with
\* it, whatever handlers still run; the deferred Close comes before the exit.
Signal ==
  /\ main = "serve"
  /\ main' = "shutdown" /\ closer' = "clients"
  /\ UNCHANGED <<servers, exit, loadVars, client, closing, up, noteVars>>

\* A signal when no handler is installed yet, or when main has removed it.
Killed ==
  /\ main \in {"load", "unwind", "wire", "shutdown"}
  /\ Exit("killed")
  /\ UNCHANGED <<servers, loadVars, client, closeVars, up, noteVars>>

-----------------------------------------------------------------------------
(* Manager.Close. *)

CloseClient ==
  /\ closer = "clients" /\ closing <= Len(clients)
  /\ client' = [client EXCEPT ![clients[closing]] = "closed"]
  /\ closing' = closing + 1
  /\ UNCHANGED <<servers, main, exit, loadVars, closer, up, noteVars>>

CloseClientsEnd ==
  /\ closer = "clients" /\ closing > Len(clients)
  /\ closer' = "wait"
  /\ UNCHANGED <<servers, main, exit, loadVars, client, closing, up, noteVars>>

\* Mutant: the channel is closed without waiting for the forwarders.
CloseAtOnce ==
  /\ closer = "wait"
  /\ shut' = TRUE
  /\ closer' = "done"
  /\ UNCHANGED <<servers, main, exit, loadVars, client, closing, up, notes, fanin, fwd, emitted,
                 panicked>>

\* wg.Wait, then close(m.notifications).
CloseNotifications ==
  /\ closer = "wait"
  /\ \A i \in Slots : fwd[i] \in {"off", "done"}
  /\ shut' = TRUE
  /\ closer' = "done"
  /\ UNCHANGED <<servers, main, exit, loadVars, client, closing, up, notes, fanin, fwd, emitted,
                 panicked>>

Ends ==
  /\ closer = "done" /\ main \in {"unwind", "shutdown"}
  /\ Exit(main)
  /\ UNCHANGED <<servers, loadVars, client, closeVars, up, noteVars>>

-----------------------------------------------------------------------------
(* The servers, the forwarders and the goroutine that logs. *)

\* The request under way fails, by its connection, its read loop or waitLoop: but
\* not one that waits for an event stream which has ended before.
ServerExits(i) ==
  /\ i \in up
  /\ up' = up \ {i}
  /\ asked' = IF i = cur /\ asked = "sent" /\ ~(deaf /\ servers[i].transport = "sse")
              THEN "failed" ELSE asked
  /\ UNCHANGED <<servers, main, exit, cur, left, step, deaf, client, clients, registry, tools, closeVars,
                 noteVars>>

\* The read loop ends while the server lives: its stream breaks, or a frame is
\* rejected.  failPending gives up what is registered, and only that.
StreamEnds ==
  /\ Loading(step) /\ client[cur] = "open" /\ ~deaf
  /\ servers[cur].transport \in {"stdio", "sse"} /\ cur \in up
  /\ deaf' = TRUE
  /\ asked' = IF asked = "sent" THEN "failed" ELSE asked
  /\ UNCHANGED <<servers, main, exit, cur, left, step, client, clients, registry, tools, closeVars, up,
                 noteVars>>

\* emitNotification: dropped when the channel is full; a closed client may still
\* take one that its read loop had in hand.
Emit(i) ==
  /\ client[i] # "none"
  /\ emitted < MaxNotes /\ emitted' = emitted + 1
  /\ notes' = [notes EXCEPT ![i] = IF @ < ClientCap THEN @ + 1 ELSE @]
  /\ UNCHANGED <<servers, main, exit, loadVars, client, closeVars, up, fanin, shut, fwd, panicked>>

ForwardTake(i) ==
  /\ fwd[i] = "recv" /\ notes[i] > 0
  /\ notes' = [notes EXCEPT ![i] = @ - 1]
  /\ fwd' = [fwd EXCEPT ![i] = "hold"]
  /\ UNCHANGED <<servers, main, exit, loadVars, client, closeVars, up, fanin, shut, emitted, panicked>>

\* Dropped when the manager's channel is full.
ForwardPush(i) ==
  /\ fwd[i] = "hold"
  /\ fanin' = IF fanin < ManagerCap /\ ~shut THEN fanin + 1 ELSE fanin
  /\ panicked' = (panicked \/ shut)
  /\ fwd' = [fwd EXCEPT ![i] = "recv"]
  /\ UNCHANGED <<servers, main, exit, loadVars, client, closeVars, up, notes, shut, emitted>>

\* Mutant: the forwarder ends with the server, not with the client.
ForwardStopsLate(i) ==
  /\ fwd[i] = "recv" /\ i \notin up
  /\ fwd' = [fwd EXCEPT ![i] = "done"]
  /\ UNCHANGED <<servers, main, exit, loadVars, client, closeVars, up, notes, fanin, shut, emitted,
                 panicked>>

ForwardStop(i) ==
  /\ fwd[i] = "recv" /\ client[i] = "closed"
  /\ fwd' = [fwd EXCEPT ![i] = "done"]
  /\ UNCHANGED <<servers, main, exit, loadVars, client, closeVars, up, notes, fanin, shut, emitted,
                 panicked>>

\* The goroutine of main starts when the load has succeeded.
LogNote ==
  /\ main \in {"wire", "serve", "shutdown"}
  /\ fanin > 0
  /\ fanin' = fanin - 1
  /\ UNCHANGED <<servers, main, exit, loadVars, client, closeVars, up, notes, shut, fwd, emitted,
                 panicked>>

-----------------------------------------------------------------------------

Load == Resolve \/ Start \/ StartFails \/ Ask \/ Initialize \/ ListTools \/ RequestFails
        \/ RegisterTool \/ KeepClient \/ Loaded

Close == CloseClient \/ CloseClientsEnd \/ CloseNotifications \/ Ends

Forward(i) == ForwardTake(i) \/ ForwardPush(i) \/ ForwardStop(i)

Next ==
  /\ main # "exited"
  /\ \/ Load \/ Serve \/ Killed \/ Fatal \/ Signal \/ Close \/ LogNote \/ StreamEnds
     \/ \E i \in Slots : ServerExits(i) \/ Emit(i) \/ Forward(i)

Spec == Init /\ [][Next]_vars

\* What cannot go well: no stream and no request without the server, no answer
\* to a request that has failed, and none from a silent server within
\* requestTimeout, which bounds each HTTP request but not the wait for a pipe or a
\* stream.
MustFail ==
  \/ step = "start" /\ servers[cur].transport = "sse" /\ cur \notin up
  \/ Requesting /\ asked = "no" /\ cur \notin up
  \/ Requesting /\ asked = "failed"
  \/ step = "initialize" /\ servers[cur].hangs = step /\ servers[cur].transport = "streamable_http"

(***************************************************************************)
(* Goroutines that can run do.  A server that does not hang answers, and a *)
(* read loop that has not ended hears it; an answer in the body of a POST  *)
(* is not counted on.  Nothing makes a server hang or exit, a stream end   *)
(* or a signal come.                                                       *)
(***************************************************************************)
Fairness ==
  /\ WF_vars(Resolve \/ Start \/ Ask \/ RegisterTool \/ KeepClient \/ Loaded \/ Serve)
  /\ WF_vars((Initialize \/ ListTools) /\ ~deaf)
  /\ WF_vars((StartFails \/ RequestFails) /\ MustFail)
  /\ WF_vars(main # "exited" /\ Close)
  /\ \A i \in Slots : WF_vars(main # "exited" /\ Forward(i))

FairSpec == Spec /\ Fairness

-----------------------------------------------------------------------------

(***************************************************************************)
(* No notification is sent on the manager's channel after Close closed it, *)
(* which would panic: closed clients may still hold notifications, and     *)
(* forwarders may be between taking and sending one.                       *)
(***************************************************************************)
NoSendAfterClose == ~panicked

(***************************************************************************)
(* What each way to end leaves: a load that fails at a server and an       *)
(* orderly shutdown leave no client open, neither one that serves nor one  *)
(* half started.  A load that fails at the name of a transport returns     *)
(* without Manager.Close, and log.Fatal skips it: they leave exactly the   *)
(* clients of the servers loaded by then.                                  *)
(***************************************************************************)
EachExitLeaves ==
  LET open == {i \in Slots : client[i] = "open"}
  IN main = "exited" =>
       /\ exit \in {"unwind", "shutdown"} => open = {}
       /\ exit \in {"transport", "fatal"} => open = 1..(cur - 1)

Names(i) == {n \in DOMAIN registry : registry[n].server = i}

(***************************************************************************)
(* Every tool of every loaded server can be called, whatever its name: the *)
(* registry has an entry of its own for each (one that a server lists twice*)
(* has two), the list of tools says which, and no tool has replaced one    *)
(* that was there before.                                                  *)
(***************************************************************************)
EveryToolIsReachable ==
  /\ \A n \in Builtins : registry[n] = Builtin
  /\ tools = {[name |-> n, of |-> registry[n]] : n \in DOMAIN registry \ Builtins}
  /\ \A i \in DOMAIN servers :
       LET list == servers[i].tools
           done == IF i < cur THEN Len(list)
                   ELSE IF i = cur /\ step = "register" THEN Len(list) - Len(left)
                   ELSE 0
       IN \A t \in {list[k] : k \in 1..done} \cup {registry[n].tool : n \in Names(i)} :
            Cardinality({n \in Names(i) : registry[n].tool = t})
              = Cardinality({k \in 1..done : list[k] = t})

\* The load waits without an end: for a stream that the server does not open, for
\* the answer of one that is silent or lists pages without end, or for an answer
\* that no read loop is left to hear.
Hung ==
  /\ main = "load" /\ cur \in DOMAIN servers /\ ~MustFail
  /\ \/ step = "start" /\ servers[cur].hangs = "start"
     \/ asked = "sent" /\ (servers[cur].hangs = step \/ deaf)

(***************************************************************************)
(* The load comes to an end, unless it waits for a server as Hung says: a  *)
(* server that exits ends it, too, before it hangs and after, if a read    *)
(* loop is left to notice.  A shutdown, and the unwinding of a failed      *)
(* load, always end: Close waits for no server and no full channel.        *)
(***************************************************************************)
StartAndStopEnd ==
  /\ (main = "load") ~> (main # "load" \/ Hung)
  /\ (main \in {"unwind", "shutdown"}) ~> (main = "exited")
=============================================================================
