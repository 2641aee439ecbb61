------------------------------ MODULE McpLinks ------------------------------
(***************************************************************************)
(* Connections to MCP servers: AgentRuntime._connect_mcp and disconnect,   *)
(* which the thread of a request goes through, and StdioMcpClient, whose   *)
(* own thread runs an event loop, starts the server's process, shakes      *)
(* hands and waits for its shutdown event.  The two share the flags ready, *)
(* close_requested, the loop and the shutdown event, and the requesting    *)
(* thread waits for the other one no longer than the timeout.              *)
(***************************************************************************)
EXTENDS Naturals, FiniteSets

CONSTANTS
  Names,        \* names of MCP servers
  MaxConnects   \* bound: connections asked for

ASSUME McpConstants == MaxConnects \in Nat

Clients == 1 .. MaxConnects

VARIABLES
  client,     \* each StdioMcpClient: where its thread is, and its flags
  process,    \* clients whose server process runs
  link,       \* AgentRuntime._mcp_clients and _mcp_tools: the client of a name, or 0
  packed,     \* _mcp_package_ids: names that were connected as a package
  asked       \* the request that connects or disconnects, if one is served

mcpVars == <<client, process, link, packed, asked>>

Fresh == [pc |-> "none", ready |-> FALSE, error |-> FALSE, closing |-> FALSE, shutdown |-> FALSE]
NoRequest == [pc |-> "free"]

McpInit == /\ client = [c \in Clients |-> Fresh]
           /\ process = {} /\ packed = {}
           /\ link = [n \in Names |-> 0]
           /\ asked = NoRequest

Become(c, row) == client' = [client EXCEPT ![c] = row]
At(c, pc) == client[c].pc = pc
Goto(c, pc) == Become(c, [client[c] EXCEPT !.pc = pc])

(* A connection is asked for, as a package or not; names that are taken    *)
(* are refused.                                                            *)
Connect(n, package) ==
  /\ link[n] = 0
  /\ \E c \in Clients : /\ \A b \in Clients : At(b, "none") <=> b >= c
                        /\ Goto(c, "started")
                        /\ asked' = [pc |-> "wait", client |-> c, name |-> n, package |-> package]
  /\ UNCHANGED <<process, link, packed>>

Disconnect(n, package) ==
  /\ link[n] # 0 /\ (package => n \in packed)
  /\ asked' = [pc |-> "close", client |-> link[n]]
  /\ link' = [link EXCEPT ![n] = 0] /\ packed' = packed \ {n}
  /\ UNCHANGED <<client, process>>

-----------------------------------------------------------------------------
(* The client's thread: _thread_main and _serve. *)
LoopUp(c) == At(c, "started") /\ Goto(c, "loop") /\ UNCHANGED process
Armed(c)  == At(c, "loop") /\ Goto(c, "armed") /\ UNCHANGED process
Spawn(c)  == At(c, "armed") /\ Goto(c, "shake") /\ process' = process \cup {c}
ShakenOnly(c) == /\ At(c, "shake")
                 /\ Become(c, [client[c] EXCEPT !.pc = "serve", !.ready = TRUE])
                 /\ UNCHANGED process
Shaken(c) == /\ At(c, "shake")
             /\ Become(c, [client[c] EXCEPT !.pc = "serve", !.ready = TRUE,
                                            !.shutdown = @ \/ client[c].closing])
             /\ UNCHANGED process
StartFails(c) == client[c].pc \in {"armed", "shake"} /\ Goto(c, "failed") /\ process' = process \ {c}
Leave(c)  == /\ At(c, "serve") /\ client[c].shutdown
             /\ Goto(c, "left") /\ process' = process \ {c}
Report(c) == /\ At(c, "failed") /\ UNCHANGED process
             /\ Become(c, [client[c] EXCEPT !.pc = "left", !.ready = TRUE, !.error = TRUE])
Ends(c)   == At(c, "left") /\ Goto(c, "ended") /\ UNCHANGED process
ServerDies(c) == c \in process /\ At(c, "serve") /\ process' = process \ {c} /\ UNCHANGED client

ThreadStep(c) == /\ \/ LoopUp(c) \/ Armed(c) \/ Spawn(c) \/ Shaken(c) \/ StartFails(c)
                    \/ Leave(c) \/ Report(c) \/ Ends(c)
                 /\ UNCHANGED <<link, packed, asked>>

-----------------------------------------------------------------------------
(* The thread of the request goes on. *)
Asked(pc) == asked.pc = pc
Mine == client[asked.client]
Close(c) == [client[c] EXCEPT !.closing = TRUE,
                              !.shutdown = @ \/ client[c].pc \in {"armed", "shake", "serve"}]

Ready == /\ Asked("wait") /\ Mine.ready
         /\ asked' = [asked EXCEPT !.pc = IF Mine.error THEN "close" ELSE "list"]
         /\ UNCHANGED <<client, process, link, packed>>
ConnectTimesOut ==
  /\ Asked("wait") /\ ~Mine.ready
  /\ Become(asked.client, [Mine EXCEPT !.closing = TRUE])
  /\ asked' = [asked EXCEPT !.pc = "close"]
  /\ UNCHANGED <<process, link, packed>>
Listed ==
  /\ Asked("list") /\ asked.client \in process
  /\ link' = [link EXCEPT ![asked.name] = asked.client]
  /\ packed' = IF asked.package THEN packed \cup {asked.name} ELSE packed
  /\ asked' = NoRequest
  /\ UNCHANGED <<client, process>>
ListFails == /\ Asked("list")
             /\ asked' = [asked EXCEPT !.pc = "close"]
             /\ UNCHANGED <<client, process, link, packed>>

(* close: on a loop that is closed, but not yet forgotten, the call to     *)
(* set the event raises and the thread is not waited for.                  *)
CloseClient ==
  /\ Asked("close")
  /\ Become(asked.client, Close(asked.client))
  /\ asked' = IF Mine.pc \in {"failed", "left"} THEN NoRequest ELSE [asked EXCEPT !.pc = "join"]
  /\ UNCHANGED <<process, link, packed>>
Joined == /\ Asked("join")   \* the thread has ended, or the timeout has passed
          /\ asked' = NoRequest
          /\ UNCHANGED <<client, process, link, packed>>

McpRequest == \E n \in Names, package \in BOOLEAN : Connect(n, package) \/ Disconnect(n, package)
McpGoesOn == Ready \/ ConnectTimesOut \/ Listed \/ ListFails \/ CloseClient \/ Joined
McpThreads == \E c \in Clients : ThreadStep(c) \/ (ServerDies(c) /\ UNCHANGED <<link, packed, asked>>)

McpTypeOK ==
  /\ client \in [Clients -> [pc : {"none", "started", "loop", "armed", "shake", "serve",
                                   "failed", "left", "ended"},
                             ready : BOOLEAN, error : BOOLEAN, closing : BOOLEAN, shutdown : BOOLEAN]]
  /\ link \in [Names -> 0 .. MaxConnects] /\ packed \subseteq {n \in Names : link[n] # 0}
  /\ \A n \in Names : link[n] # 0 => At(link[n], "serve") /\ ~client[link[n]].closing

(* A client no name and no request holds. *)
Dropped(c) == (\A n \in Names : link[n] # c) /\ (Asked("free") \/ asked.client # c)

(* The process of a server is ended once its connection failed, timed out  *)
(* or was closed, whatever stage its start was at when it was given up     *)
(* (agent/README.md:199; client.py:141).                                   *)
ServerIsReclaimed == \A c \in Clients : (c \in process /\ Dropped(c)) ~> c \notin process
=============================================================================
