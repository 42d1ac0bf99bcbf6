-------------------------------- MODULE Boot --------------------------------
(***************************************************************************)
(* The life of the pods of a workspace and its row of the workspaces table *)
(* (server/index.js, pooled/arthur.js, db/adapter.js): listen first, dial  *)
(* the database, register, seed the prompt, sync what the environment      *)
(* provisions, serve, shut down.  A rolling update or a restart lets two   *)
(* pods of one workspace overlap, each somewhere in its chain.             *)
(*                                                                         *)
(* Meanwhile the control plane pushes prompts into the row and members     *)
(* save their settings from forms that were filled when they were opened.  *)
(***************************************************************************)
EXTENDS Naturals, FiniteSets

CONSTANTS
    Pods,
    Env,        \* Env[p]: what the Deployment of p provisions
    Forms,      \* open settings dialogs, of the React or the classic client
    Classic,    \* those of the classic client
    None,       \* not set
    Empty,      \* the empty prompt
    Prompts,    \* the prompts people write
    Default,    \* the provider and model of a new row
    Providers,
    Catalog,    \* the tools the dialogs list
    Attempts    \* maxRetries of the dial loop

Texts == Prompts \cup {Empty}
Sections == {"warehouse", "mcp_servers", "a2a_agents"}
Ais == [provider : Providers \cup {Default.provider} \cup {Env[p].ai.provider : p \in Pods},
        model : {Default.model} \cup {Env[p].ai.model : p \in Pods}]
Rows == [status : {"active", "stopped"}, prompt : Texts, ai : Ais, allowed : {None} \cup {Env[p].allowed : p \in Pods},
         tools : {None} \cup SUBSET Catalog, sources : SUBSET Sections]

ASSUME EnvAssumption == \A p \in Pods : Env[p].prompt \in Prompts \cup {None}
ASSUME DefaultAssumption == Default \in Ais
ASSUME PromptAssumption == Empty \notin Prompts /\ None \notin Texts
ASSUME NoneAssumption == None \notin Rows
ASSUME AttemptsAssumption == Attempts \in Nat \ {0}

VARIABLES
    pooled,     \* pooled Arthur, or a dedicated pod
    row,        \* the row of the workspace, or None
    pod,        \* pod[p]: how far its boot chain is
    form,       \* form[f]: a settings dialog and its PATCH
    owed,       \* history: the prompt last written on purpose
    raced       \* history: that write met a pod about to seed

bootVars == <<pooled, row, pod, form, owed, raced>>

------------------------------------------------------------------------------
(* The row.                                                                 *)

NewRow == [status |-> "active", prompt |-> Empty, ai |-> Default, allowed |-> None,
           tools |-> None, sources |-> {}]

\* UPDATE of the row: nothing happens where there is none.  F gives the new
\* fields of the row.
Updated(r, F) == IF r = None THEN None ELSE [f \in DOMAIN r |-> IF f \in DOMAIN F THEN F[f] ELSE r[f]]

Upserted(r) == IF r = None THEN NewRow ELSE [r EXCEPT !.status = "active"]

(* A pod.  The adapter is assigned before it is initialised, so that a      *)
(* request served while the pod still dials may reach the database.         *)

Idle == [pc |-> "down", attempt |-> 0, read |-> None, stopping |-> "no"]

Listening(p) == pod[p].pc # "down"

At(p, here, there) == pod[p].pc = here /\ pod' = [pod EXCEPT ![p].pc = there]

Start(p) ==
    /\ pod[p].pc = "down"
    /\ pod' = [pod EXCEPT ![p] = [Idle EXCEPT !.pc = "dialing"]]
    /\ UNCHANGED <<pooled, row, form, owed, raced>>

\* initAdapter: connect, run the idempotent boot DDL.
Dial(p) ==
    /\ ~pooled
    /\ At(p, "dialing", "registering")
    /\ UNCHANGED <<pooled, row, form, owed, raced>>

\* A pooled process writes nothing at boot.
DialPooled(p) ==
    /\ pooled
    /\ At(p, "dialing", "ready")
    /\ UNCHANGED <<pooled, row, form, owed, raced>>

DialFails(p) ==
    /\ pod[p].pc = "dialing"
    /\ LET dials == pod[p].attempt + 1
       IN  pod' = [pod EXCEPT ![p] = IF dials < Attempts THEN [@ EXCEPT !.attempt = dials] ELSE Idle]
    /\ UNCHANGED <<pooled, row, form, owed, raced>>

Register(p) ==
    /\ At(p, "registering", IF Env[p].prompt = None THEN "reading" ELSE "checking")
    /\ row' = Upserted(row)
    /\ UNCHANGED <<pooled, form, owed, raced>>

\* The old rule, by which a boot restored what its environment holds.
SeedsOnDrift(r, prompt) == r # None /\ r.prompt # prompt

\* Only an empty row is seeded; drift is logged.
Seeds(r, prompt) == r # None /\ r.prompt = Empty

Check(p) ==
    /\ At(p, "checking", IF Seeds(row, Env[p].prompt) THEN "seeding" ELSE "reading")
    /\ UNCHANGED <<pooled, row, form, owed, raced>>

Seed(p) ==
    /\ At(p, "seeding", "reading")
    /\ row' = Updated(row, [prompt |-> Env[p].prompt])
    /\ UNCHANGED <<pooled, form, owed, raced>>

\* What the environment leaves unset is written back as it was read.
Synced(p) ==
    LET Of(k) == IF Env[p].ai[k] = None THEN pod[p].read[k] ELSE Env[p].ai[k]
    IN  [provider |-> Of("provider"), model |-> Of("model")]

ReadAi(p) ==
    /\ pod[p].pc = "reading"
    /\ LET differs == \E k \in {"provider", "model"} : Env[p].ai[k] \notin {None, row.ai[k]}
       IN  pod' = [pod EXCEPT ![p].pc = IF differs THEN "syncing" ELSE "restricting",
                              ![p].read = IF differs THEN row.ai ELSE None]
    /\ UNCHANGED <<pooled, row, form, owed, raced>>

SyncAi(p) ==
    /\ pod[p].pc = "syncing"
    /\ pod' = [pod EXCEPT ![p].pc = "restricting", ![p].read = None]
    /\ row' = Updated(row, [ai |-> Synced(p)])
    /\ UNCHANGED <<pooled, form, owed, raced>>

RestrictProviders(p) ==
    /\ At(p, "restricting", "ready")
    /\ row' = IF Env[p].allowed = None THEN row ELSE Updated(row, [allowed |-> Env[p].allowed])
    /\ UNCHANGED <<pooled, form, owed, raced>>

\* A statement of the chain fails: start() rejects, the process exits.
BootFails(p) ==
    /\ pod[p].pc \in {"registering", "checking", "seeding", "reading", "syncing", "restricting"}
    /\ pod' = [pod EXCEPT ![p] = Idle]
    /\ UNCHANGED <<pooled, row, form, owed, raced>>

(* Shutdown runs beside whatever the chain is doing.                        *)

Terminate(p) ==
    /\ Listening(p)
    /\ pod[p].stopping = "no"
    /\ pod' = [pod EXCEPT ![p].stopping = "asked"]
    /\ UNCHANGED <<pooled, row, form, owed, raced>>

\* An error is swallowed.
WriteStopped(p) ==
    /\ ~pooled
    /\ pod[p].stopping = "asked"
    /\ pod' = [pod EXCEPT ![p].stopping = "written"]
    /\ row' \in {row, Updated(row, [status |-> "stopped"])}
    /\ UNCHANGED <<pooled, form, owed, raced>>

\* The pooled process leaves the rows alone.
StopPooled(p) ==
    /\ pooled
    /\ pod[p].stopping = "asked"
    /\ pod' = [pod EXCEPT ![p].stopping = "written"]
    /\ UNCHANGED <<pooled, row, form, owed, raced>>

Exit(p) ==
    /\ pod[p].stopping = "written"
    /\ pod' = [pod EXCEPT ![p] = Idle]
    /\ UNCHANGED <<pooled, row, form, owed, raced>>

Crash(p) ==
    /\ Listening(p)
    /\ pod' = [pod EXCEPT ![p] = Idle]
    /\ UNCHANGED <<pooled, row, form, owed, raced>>

------------------------------------------------------------------------------
(* Writers of the row.                                                      *)

\* A prompt is written on purpose.
Write(prompt) ==
    /\ owed' = IF row = None THEN owed ELSE prompt
    /\ raced' = (\E p \in Pods : pod[p].pc = "seeding")

\* The control plane pushes a prompt into the row of a provisioned workspace.
Push(prompt) ==
    /\ row # None
    /\ row' = Updated(row, [prompt |-> prompt])
    /\ Write(prompt)
    /\ UNCHANGED <<pooled, pod, form>>

Closed == [pc |-> "closed", loaded |-> FALSE, prompt |-> Empty, ai |-> Default, tools |-> Catalog,
           sources |-> {}, patch |-> None]

\* The dialog shows its defaults until the row arrives.
OpenForm(f) ==
    /\ f \notin Classic /\ form[f].pc = "closed"
    /\ form' = [form EXCEPT ![f] = [Closed EXCEPT !.pc = "open"]]
    /\ UNCHANGED <<pooled, row, pod, owed, raced>>

\* The classic one shows what it held when it was closed, and all tools.
OpenClassicForm(f) ==
    /\ f \in Classic /\ form[f].pc = "closed"
    /\ form' = [form EXCEPT ![f] = [@ EXCEPT !.pc = "open", !.loaded = FALSE, !.tools = Catalog]]
    /\ UNCHANGED <<pooled, row, pod, owed, raced>>

\* No restriction is all boxes checked.
Boxes(tools) == IF tools = None THEN Catalog ELSE tools

Load(f, sources) ==
    /\ form[f].pc \in {"open", "checking", "writing"} /\ ~form[f].loaded
    /\ form' = [form EXCEPT ![f] = [@ EXCEPT !.loaded = TRUE, !.prompt = row.prompt, !.ai = row.ai,
                                             !.tools = Boxes(row.tools), !.sources = sources]]
    /\ UNCHANGED <<pooled, row, pod, owed, raced>>

LoadForm(f) == f \notin Classic /\ row # None /\ Load(f, row.sources)

\* It has fields for the warehouses only.
LoadClassicForm(f) == f \in Classic /\ row # None /\ Load(f, row.sources \cap {"warehouse"})

Edit(f, fields, patch) ==
    /\ form[f].pc = "open"
    /\ form' = [form EXCEPT ![f] = [x \in DOMAIN @ |-> CASE x = "pc" -> IF "ai" \in DOMAIN patch THEN "checking" ELSE "writing"
                                                         [] x = "patch" -> patch
                                                         [] x \in DOMAIN fields -> fields[x]
                                                         [] OTHER -> @[x]]]
    /\ UNCHANGED <<pooled, row, pod, owed, raced>>

\* Prompt, provider and model are always sent together, edited or not.
SaveAgent(f) ==
    \E prompt \in Prompts \cup {Empty, form[f].prompt}, provider \in Providers \cup {form[f].ai.provider} :
        LET agent == [prompt |-> prompt, ai |-> [form[f].ai EXCEPT !.provider = provider]]
        IN  Edit(f, agent, agent)

\* All boxes checked are saved as null, "no restriction".
Restriction(tools) == IF Cardinality(tools) = Cardinality(Catalog) THEN None ELSE tools

SaveTools(f) ==
    \E tools \in {form[f].tools} \cup {form[f].tools \ {x} : x \in Catalog} :
        Edit(f, [tools |-> tools], [tools |-> Restriction(tools)])

\* The tabs for warehouses, MCP servers and A2A agents each send what was
\* loaded with their own section replaced.
SaveSources(f) ==
    /\ f \notin Classic
    /\ \E section \in Sections :
        \E sources \in {form[f].sources \cup {section}, form[f].sources \ {section}} :
            Edit(f, [sources |-> IF section = "warehouse" THEN sources ELSE form[f].sources], [sources |-> sources])

\* The classic form sends what it has fields for.
SaveWarehouses(f) ==
    /\ f \in Classic
    /\ \E sources \in {{"warehouse"}, {}} : Edit(f, [sources |-> sources], [sources |-> sources])

\* PATCH /api/workspace/info reads the restriction before it writes.
CheckProvider(f) ==
    /\ form[f].pc = "checking"
    /\ \E p \in Pods : Listening(p)
    /\ LET free == row = None \/ row.allowed = None
           fine == free \/ form[f].patch.ai.provider \in row.allowed
       IN  form' = [form EXCEPT ![f].pc = IF fine THEN "writing" ELSE "open",
                                ![f].patch = IF fine THEN @ ELSE None]
    /\ UNCHANGED <<pooled, row, pod, owed, raced>>

Patch(f) ==
    /\ form[f].pc = "writing"
    /\ \E p \in Pods : Listening(p)
    /\ row' = Updated(row, form[f].patch)
    /\ IF "prompt" \in DOMAIN form[f].patch THEN Write(form[f].patch.prompt) ELSE UNCHANGED <<owed, raced>>
    /\ form' = [form EXCEPT ![f].pc = "open", ![f].patch = None,
                            ![f].sources = IF "sources" \in DOMAIN form[f].patch THEN form[f].patch.sources ELSE @]
    /\ UNCHANGED <<pooled, pod>>

\* The request fails: the dialog stays open and says so.
PatchFails(f) ==
    /\ form[f].pc \in {"checking", "writing"}
    /\ form' = [form EXCEPT ![f].pc = "open", ![f].patch = None]
    /\ UNCHANGED <<pooled, row, pod, owed, raced>>

CloseForm(f) ==
    /\ form[f].pc = "open"
    /\ form' = [form EXCEPT ![f].pc = "closed"]
    /\ UNCHANGED <<pooled, row, pod, owed, raced>>

------------------------------------------------------------------------------
BootInit ==
    /\ pooled \in BOOLEAN
    /\ row \in IF pooled THEN {NewRow} ELSE {None, NewRow}
    /\ pod = [p \in Pods |-> Idle]
    /\ form = [f \in Forms |-> Closed]
    /\ owed = Empty
    /\ raced = FALSE

PodNext ==
    \E p \in Pods :
        \/ Start(p) \/ Dial(p) \/ DialPooled(p) \/ DialFails(p)
        \/ Register(p) \/ Check(p) \/ Seed(p) \/ ReadAi(p) \/ SyncAi(p) \/ RestrictProviders(p)
        \/ BootFails(p) \/ Terminate(p) \/ WriteStopped(p) \/ StopPooled(p) \/ Exit(p) \/ Crash(p)

RowNext ==
    \/ \E prompt \in Prompts : Push(prompt)
    \/ \E f \in Forms :
        \/ OpenForm(f) \/ OpenClassicForm(f) \/ LoadForm(f) \/ LoadClassicForm(f)
        \/ SaveAgent(f) \/ SaveTools(f) \/ SaveSources(f) \/ SaveWarehouses(f)
        \/ CheckProvider(f) \/ Patch(f) \/ PatchFails(f) \/ CloseForm(f)

BootNext == PodNext \/ RowNext

BootSpec == BootInit /\ [][BootNext]_bootVars

------------------------------------------------------------------------------
Patches == [prompt : Texts, ai : Ais] \cup [tools : {None} \cup SUBSET Catalog] \cup [sources : SUBSET Sections]
PodPCs == {"down", "dialing", "registering", "checking", "seeding", "reading", "syncing", "restricting", "ready"}

BootTypeOK ==
    /\ pooled \in BOOLEAN
    /\ row \in {None} \cup Rows
    /\ pod \in [Pods -> [pc : PodPCs, attempt : Nat, read : {None} \cup Ais, stopping : {"no", "asked", "written"}]]
    /\ form \in [Forms -> [pc : {"closed", "open", "checking", "writing"}, loaded : BOOLEAN, prompt : Texts, ai : Ais,
                           tools : SUBSET Catalog, sources : SUBSET Sections, patch : {None} \cup Patches]]
    /\ owed \in Texts
    /\ raced \in BOOLEAN

------------------------------------------------------------------------------
(* A boot never replaces a prompt that was pushed or saved: not a restart,  *)
(* not a rolling update whose environment holds an older one, wherever the  *)
(* pods are in their chains (server/index.js:737-745).  The exception is    *)
(* the write that falls between a boot's read of an empty row and its seed. *)
PushSurvives == owed # Empty /\ ~raced => row # None /\ row.prompt = owed
=============================================================================
