------------------------------ MODULE Workbench ------------------------------
(***************************************************************************)
(* AgentRuntime as one client drives it over the NDJSON or WebSocket       *)
(* transport: one thread reads the requests and serves them one after the  *)
(* other, except run.start, run.resume, run.retry, approval.resolve and    *)
(* agent.test, which worker threads serve (serve_ndjson).  A connection to *)
(* an MCP server and the deletion of a session take the reader several     *)
(* steps, and the workers, the clients' own threads and crashes fall in    *)
(* between.  In a behaviour the client makes the requests of one group of  *)
(* uses.                                                                   *)
(***************************************************************************)
EXTENDS Conversations, McpLinks

CONSTANT Groups     \* sets of uses
AllUses == {"catalog", "say", "retry", "manage", "crash", "files", "mcp"}
ASSUME GroupsAreUses == Groups \subseteq SUBSET AllUses

VARIABLE uses       \* the uses of this behaviour

vars == <<uses, catalogVars, talkVars, mcpVars>>

Init == uses \in Groups /\ CatalogInit /\ TalkInit /\ McpInit

Uses(u) == u \in uses /\ UNCHANGED uses
ReaderFree == asked = NoRequest /\ removing = NotRemoving
KeepCatalog == UNCHANGED catalogVars
KeepTalk == UNCHANGED talkVars
KeepMcp == UNCHANGED mcpVars

Edits    == Uses("catalog") /\ ReaderFree /\ CatalogRequest /\ KeepTalk /\ KeepMcp
Tests    == Uses("catalog") /\ Testing /\ KeepTalk /\ KeepMcp
Requests == /\ UNCHANGED uses /\ uses \cap {"say", "retry", "manage", "crash"} # {}
            /\ ReaderFree /\ Reading /\ KeepCatalog /\ KeepMcp
Manages  == Uses("manage") /\ ReaderFree /\ Managing /\ KeepCatalog /\ KeepMcp
Removal  == UNCHANGED uses /\ Removing /\ KeepCatalog /\ KeepMcp
Crashes  == /\ Uses("crash") /\ (\E kept \in SUBSET Runs : Crash(kept)) /\ KeepCatalog /\ KeepMcp
(* Where their sizes are no matter messages have one, where messages are   *)
(* no matter a run fewer starts, and where artifacts are kept one worker   *)
(* starts and resumes runs: no two have a run of the session at a time.    *)
WorkersUsed == IF "files" \in uses THEN {w \in Workers : w = CHOOSE v \in Workers : TRUE} ELSE Workers
SizesUsed == IF "say" \in uses THEN Sizes ELSE {Min(Sizes)}
Work     == /\ UNCHANGED uses /\ KeepCatalog /\ KeepMcp
            /\ \E w \in WorkersUsed : Working(w, SizesUsed)
            /\ uses \cap {"say", "retry"} = {} => runs'[MaxRuns] = None
Informs  == Uses("say") /\ (\E w \in Workers : Inform(w)) /\ KeepCatalog /\ KeepMcp
Answers  == /\ UNCHANGED uses /\ uses \cap {"say", "retry"} # {} /\ KeepCatalog /\ KeepMcp
            /\ \E w \in Workers : Answering(w, SizesUsed)
Retries  == /\ Uses("retry") /\ (\E w \in Workers : Retrying(w, SizesUsed)) /\ KeepCatalog /\ KeepMcp
Keeps    == Uses("files") /\ (\E w \in Workers : Keeping(w)) /\ KeepCatalog /\ KeepMcp
Mcp      == Uses("mcp") /\ ReaderFree /\ McpRequest /\ KeepCatalog /\ KeepTalk
McpGoes  == UNCHANGED uses /\ McpGoesOn /\ KeepCatalog /\ KeepTalk
Threads  == UNCHANGED uses /\ McpThreads /\ KeepCatalog /\ KeepTalk

Next == \/ Edits \/ Tests \/ Requests \/ Manages \/ Removal \/ Crashes
        \/ Work \/ Informs \/ Answers \/ Retries \/ Keeps
        \/ Mcp \/ McpGoes \/ Threads

Spec == Init /\ [][Next]_vars

(* Threads that can go on do: a client's thread, whose requests to the     *)
(* server have a timeout, and the reader, whose waiting has one.           *)
FairSpec == /\ Spec
            /\ \A c \in Clients : WF_vars(UNCHANGED uses /\ ThreadStep(c) /\ KeepCatalog /\ KeepTalk)
            /\ WF_vars(McpGoes)

TypeOK == CatalogTypeOK /\ TalkTypeOK /\ McpTypeOK
=============================================================================
