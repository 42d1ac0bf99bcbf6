------------------------------ MODULE TenantData ------------------------------
(***************************************************************************)
(* The rows, the consent taps and the credentials of many workspaces       *)
(* behind one service (server/pooled/, server/tenantCredentials.ts), or of *)
(* one workspace in a pod of its own (pinned = FALSE).                     *)
(*                                                                         *)
(* A request belongs to one workspace, that of the browser's session or of *)
(* the contract it is signed under, and is a script of SQL statements.     *)
(* The database shows a connection the rows its policies let through       *)
(* (db/rls.js); a pinned statement runs in a transaction that names its    *)
(* workspace first (postgresql.js _tenantQuery).  Requests share the       *)
(* connections of the pools.  Connections die, transactions wait for each  *)
(* other's locks, the answer of a COMMIT is lost, the process restarts.    *)
(*                                                                         *)
(* An intent also needs the workspace's credential, from a cache in front  *)
(* of Secret Manager, and a consent tap that its capability uses up.  One  *)
(* user, one provider and one connection of each workspace stand for all.  *)
(***************************************************************************)
EXTENDS Naturals, Sequences, FiniteSets

CONSTANTS
    Workspaces,
    Home,         \* the workspace of a pod that is not pooled
    Requests,
    Asks,         \* the scripts each request may ask for
    Conns,
    PoolOf,       \* of each connection: "adapter", "verifier" or "plugin"
    None,
    Ttl,          \* CACHE_TTL_MS
    NegativeTtl,  \* NEGATIVE_TTL_MS
    Delay,        \* how long a read of Secret Manager takes
    MaxVersion,   \* bound on the versions of a secret
    MaxTime       \* bound on the clock

ASSUME HomeAssumption == Home \in Workspaces
ASSUME NoneAssumption == None \notin Workspaces \cup Requests
ASSUME PoolAssumption == PoolOf \in [Conns -> {"adapter", "verifier", "plugin"}]
ASSUME TimeAssumption ==
    /\ {Ttl, NegativeTtl, Delay, MaxVersion, MaxTime} \subseteq Nat
    /\ Delay < NegativeTtl /\ NegativeTtl <= Ttl
    /\ MaxVersion > 0

\* The role of a pooled process: no tenant has its name.
Service == "service"
ASSUME ServiceAssumption == Service \notin Workspaces

Limit(v) == IF v = 0 THEN NegativeTtl ELSE Ttl

VARIABLES
    now,
    pinned,    \* tenantPinned: a pooled process
    listed,    \* workspaces whose manifest lists the caller's contract
    rows,      \* the committed rows, each of a table and a workspace
    conn,      \* conn[c]: its holder, transaction, setting and uncommitted writes
    kind,      \* what a request asks for
    ws,        \* the workspace it is for
    step,      \* the statement of its script it is at
    pc,        \* where it is
    answer,    \* how it ended, or is about to
    touched,   \* the workspaces whose rows its statements read or wrote
    spent,     \* intents whose capability committed its use of a tap
    secret,    \* the version Secret Manager holds of each workspace's secret, 0: none
    lastSeen,  \* lastSeen[w][v]: when v was last the version held
    cache,     \* cache[w]: the version cached and its expiry, or None
    asked,     \* when a request looked at the cache
    got        \* the version it was given, or None

requestVars == <<kind, ws, step, pc, answer, touched>>
dbVars == <<rows, conn, spent>>
secretVars == <<secret, lastSeen>>
fetchVars == <<cache, asked, got>>
modeVars == <<pinned, listed>>
vars == <<now, modeVars, requestVars, dbVars, secretVars, fetchVars>>

Tables == {"workspaces", "messages", "keys", "usage", "audit", "grants"}
Row(t, w) == [table |-> t, ws |-> w]
TenantRows == [table : Tables, ws : Workspaces]

(* The statements.  "named": its text restricts it to a workspace, or gives *)
(* the row it inserts one; the others rely on the policies alone.           *)
Statement(t, v, n) == [table |-> t, verb |-> v, named |-> n, pool |-> "adapter"]

KeyScripts ==
    [getApiKeys |-> <<Statement("keys", "read", FALSE)>>,
     saveApiKey |-> <<Statement("keys", "delete", FALSE), Statement("keys", "insert", FALSE)>>,
     deleteApiKey |-> <<Statement("keys", "delete", FALSE)>>]

MessageScripts ==
    [saveMessage |-> <<Statement("messages", "insert", TRUE), Statement("messages", "read", FALSE)>>,
     getMessages |-> <<Statement("messages", "read", TRUE)>>,
     clearMessages |-> <<Statement("messages", "delete", TRUE)>>]

WorkspaceScripts ==
    [updateWorkspace |-> <<Statement("workspaces", "read", TRUE), Statement("workspaces", "read", TRUE),
                           Statement("workspaces", "read", TRUE)>>]

UsageScripts ==
    [recordUsage |-> <<Statement("usage", "insert", TRUE)>>,
     getUsage |-> <<Statement("usage", "read", TRUE), Statement("usage", "read", TRUE),
                    Statement("usage", "read", TRUE)>>]

\* An audit entry is a script of its own: nothing waits for it.
AuditScripts ==
    [audit |-> <<Statement("audit", "insert", TRUE)>>,
     getAuditLog |-> <<Statement("audit", "read", TRUE)>>]

\* An intent: the verifier's peek at the tap, then the capability's own use.
Use(p) == [table |-> "grants", verb |-> "use", named |-> TRUE, pool |-> p]
IntentScript == <<Use("verifier"), Use("plugin")>>

Scripts ==
    [k \in UNION {DOMAIN KeyScripts, DOMAIN MessageScripts, DOMAIN WorkspaceScripts,
                  DOMAIN UsageScripts, DOMAIN AuditScripts, {"intent"}} |->
        CASE k \in DOMAIN KeyScripts -> KeyScripts[k]
          [] k \in DOMAIN MessageScripts -> MessageScripts[k]
          [] k \in DOMAIN WorkspaceScripts -> WorkspaceScripts[k]
          [] k \in DOMAIN UsageScripts -> UsageScripts[k]
          [] k \in DOMAIN AuditScripts -> AuditScripts[k]
          [] k = "intent" -> IntentScript]
ASSUME AsksAssumption == \A r \in Requests : Asks[r] \subseteq DOMAIN Scripts

Stmt(r) == Scripts[kind[r]][step[r]]
Peeks(r) == Stmt(r).pool = "verifier"
Idle == [holder |-> None, tx |-> "none", setting |-> None, del |-> {}, ins |-> {}, up |-> TRUE]

PCs == {"none", "resolve", "credential", "reading", "read", "connecting",
        "begin", "pin", "run", "commit", "rollback", "done"}
Answers == {"none", "ok", "refused", "denied", "conflict", "policy", "aborted",
            "noConnection", "lost", "unknown", "restarted"}

Connections ==
    [holder : Requests \cup {None}, tx : {"none", "open", "aborted"}, setting : Workspaces \cup {None},
     del : SUBSET TenantRows, ins : SUBSET TenantRows, up : BOOLEAN]

TypeOK ==
    /\ now \in Nat /\ pinned \in BOOLEAN
    /\ listed \subseteq Workspaces
    /\ rows \subseteq TenantRows
    /\ conn \in [Conns -> Connections]
    /\ kind \in [Requests -> DOMAIN Scripts \cup {None}]
    /\ ws \in [Requests -> Workspaces \cup {None}]
    /\ step \in [Requests -> Nat]
    /\ pc \in [Requests -> PCs] /\ answer \in [Requests -> Answers]
    /\ touched \in [Requests -> SUBSET Workspaces]
    /\ spent \subseteq Requests
    /\ secret \in [Workspaces -> 0..MaxVersion]
    /\ lastSeen \in [Workspaces -> [0..MaxVersion -> Nat]]
    /\ cache \in [Workspaces -> {None} \cup [version : 0..MaxVersion, expires : Nat]]
    /\ asked \in [Requests -> Nat]
    /\ got \in [Requests -> (0..MaxVersion) \cup {None}]

Init ==
    /\ now = 1
    /\ pinned \in BOOLEAN
    /\ listed = Workspaces
    /\ \E keys \in SUBSET {Row("keys", w) : w \in Workspaces \ {Home}} :
           /\ Cardinality(keys) <= 1
           /\ rows = keys \cup {Row(t, w) : t \in {"workspaces", "grants"}, w \in Workspaces}
    /\ conn = [c \in Conns |-> Idle]
    /\ kind = [r \in Requests |-> None]
    /\ ws = [r \in Requests |-> None]
    /\ step = [r \in Requests |-> 1]
    /\ pc = [r \in Requests |-> "none"]
    /\ answer = [r \in Requests |-> "none"]
    /\ touched = [r \in Requests |-> {}]
    /\ spent = {}
    /\ secret = [w \in Workspaces |-> 1]
    /\ lastSeen = [w \in Workspaces |-> [v \in 0..MaxVersion |-> 0]]
    /\ cache = [w \in Workspaces |-> None]
    /\ asked = [r \in Requests |-> 0]
    /\ got = [r \in Requests |-> None]

------------------------------------------------------------------------------
(* Requests.                                                                *)

\* A browser's request takes its workspace from the session when it starts,
\* which the redirect from the control plane bound to one that has a row; a
\* pod of its own knows only its own.  A pooled intent names its workspace.
Tenants == IF pinned THEN {w \in Workspaces : Row("workspaces", w) \in rows} ELSE {Home}

Arrive(r, k) ==
    /\ pc[r] = "none"
    /\ kind' = [kind EXCEPT ![r] = k]
    /\ \E w \in Tenants : ws' = [ws EXCEPT ![r] = w]
    /\ \/ k = "intent" /\ pinned /\ pc' = [pc EXCEPT ![r] = "resolve"]
       \/ k # "intent" /\ pc' = [pc EXCEPT ![r] = "connecting"]
    /\ UNCHANGED <<now, modeVars, step, answer, touched, dbVars, secretVars, fetchVars>>

EndedAs(r, a) ==
    /\ pc' = [pc EXCEPT ![r] = "done"]
    /\ answer' = [answer EXCEPT ![r] = a]

\* resolveTenantFromRequest: the manifest of the workspace named must list
\* the contract.
Resolve(r) ==
    /\ pc[r] = "resolve"
    /\ IF ws[r] \in listed
       THEN pc' = [pc EXCEPT ![r] = "credential"] /\ UNCHANGED answer
       ELSE EndedAs(r, "refused")
    /\ UNCHANGED <<now, modeVars, kind, ws, step, touched, dbVars, secretVars, fetchVars>>

Unlist(w) ==
    /\ w \in listed
    /\ listed' = listed \ {w}
    /\ UNCHANGED <<now, pinned, requestVars, dbVars, secretVars, fetchVars>>

------------------------------------------------------------------------------
(* The credential of the request's workspace: fetchTenantSecret.            *)

Hit(w) == cache[w] # None /\ cache[w].expires > now

ExpiryFromAnswer(r) == now + Limit(got[r])

\* expiresAt counts from before the read, so that the time the read took is
\* not added to the time the secret is kept.
Expiry(r) == asked[r] + Limit(got[r])

Lookup(r) ==
    /\ pc[r] = "credential"
    /\ IF Hit(ws[r])
       THEN /\ got' = [got EXCEPT ![r] = cache[ws[r]].version]
            /\ pc' = [pc EXCEPT ![r] = "connecting"]
            /\ UNCHANGED asked
       ELSE /\ asked' = [asked EXCEPT ![r] = now]
            /\ pc' = [pc EXCEPT ![r] = "reading"]
            /\ UNCHANGED got
    /\ UNCHANGED <<now, modeVars, kind, ws, step, answer, touched, dbVars, secretVars, cache>>

\* accessSecretVersion answers with the version held now, or with NOT_FOUND;
\* any other error is logged and the request goes on without credentials.
ReadSecret(r) ==
    /\ pc[r] = "reading"
    /\ \/ /\ got' = [got EXCEPT ![r] = secret[ws[r]]]
          /\ pc' = [pc EXCEPT ![r] = "read"]
       \/ /\ pc' = [pc EXCEPT ![r] = "connecting"]
          /\ UNCHANGED got
    /\ UNCHANGED <<now, modeVars, kind, ws, step, answer, touched, dbVars, secretVars, cache, asked>>

Store(r) ==
    /\ pc[r] = "read"
    /\ cache' = [cache EXCEPT ![ws[r]] = [version |-> got[r], expires |-> Expiry(r)]]
    /\ pc' = [pc EXCEPT ![r] = "connecting"]
    /\ UNCHANGED <<now, modeVars, kind, ws, step, answer, touched, dbVars, secretVars, asked, got>>

Sweep ==
    /\ \E w \in Workspaces : cache[w] # None /\ ~Hit(w)
    /\ cache' = [w \in Workspaces |-> IF Hit(w) THEN cache[w] ELSE None]
    /\ UNCHANGED <<now, modeVars, requestVars, dbVars, secretVars, asked, got>>

\* The control plane stores the next version of a secret, or deletes it.
Rotate(w) ==
    /\ \E v \in {0, secret[w] + 1} :
           v <= MaxVersion /\ v # secret[w] /\ secret' = [secret EXCEPT ![w] = v]
    /\ lastSeen' = [lastSeen EXCEPT ![w][secret[w]] = now]
    /\ UNCHANGED <<now, modeVars, requestVars, dbVars, fetchVars>>

------------------------------------------------------------------------------
(* A statement, from the checkout of a connection to its release.           *)

Holds(r, c) == conn[c].holder = r
Role == IF pinned THEN Service ELSE Home

\* The two policies of a table, one of which has to let a row through.
WorkspaceIsolation(w) == w = Role
TenantContext(c, w) == conn[c].setting # None /\ conn[c].setting = w
Visible(c, w) == WorkspaceIsolation(w) \/ TenantContext(c, w)

\* The workspace of a row whose INSERT does not name it.
DefaultWs(c) == IF conn[c].setting # None THEN conn[c].setting ELSE Role

Connect(r) ==
    /\ pc[r] = "connecting"
    /\ \E c \in Conns :
           /\ PoolOf[c] = Stmt(r).pool /\ conn[c].holder = None
           /\ conn' = [conn EXCEPT ![c].holder = r]
    /\ pc' = [pc EXCEPT ![r] = IF pinned THEN "begin" ELSE "run"]
    /\ UNCHANGED <<now, modeVars, kind, ws, step, answer, touched, rows, spent, secretVars, fetchVars>>

\* No connection in time: the statement fails, and a peek answers "no".
ConnectFails(r) ==
    /\ pc[r] = "connecting"
    /\ EndedAs(r, "noConnection")
    /\ UNCHANGED <<now, modeVars, kind, ws, step, touched, dbVars, secretVars, fetchVars>>

\* A query threw: the catch comes next, on whatever the connection is now.
Threw(r, a) ==
    /\ pc' = [pc EXCEPT ![r] = "rollback"]
    /\ answer' = [answer EXCEPT ![r] = a]

\* A query that cannot run, whatever it is.
Throws(r, c) ==
    /\ pc[r] \in {"begin", "pin", "run", "commit"} /\ Holds(r, c)
    /\ \/ ~conn[c].up /\ Threw(r, "lost")
       \/ conn[c].up /\ conn[c].tx = "aborted" /\ Threw(r, "aborted")
    /\ UNCHANGED <<now, modeVars, kind, ws, step, touched, dbVars, secretVars, fetchVars>>

Usable(r, c) == Holds(r, c) /\ conn[c].up /\ conn[c].tx # "aborted"

Begin(r, c) ==
    /\ pc[r] = "begin" /\ Usable(r, c)
    /\ conn' = [conn EXCEPT ![c].tx = "open"]
    /\ pc' = [pc EXCEPT ![r] = "pin"]
    /\ UNCHANGED <<now, modeVars, kind, ws, step, answer, touched, rows, spent, secretVars, fetchVars>>

PinForgotten(r, c) ==
    /\ pc[r] = "pin" /\ Usable(r, c)
    /\ pc' = [pc EXCEPT ![r] = "run"]
    /\ UNCHANGED <<now, modeVars, kind, ws, step, answer, touched, dbVars, secretVars, fetchVars>>

\* set_config('app.workspace_id', $1, true)
Pin(r, c) ==
    /\ pc[r] = "pin" /\ Usable(r, c)
    /\ conn' = [conn EXCEPT ![c].setting = ws[r]]
    /\ pc' = [pc EXCEPT ![r] = "run"]
    /\ UNCHANGED <<now, modeVars, kind, ws, step, answer, touched, rows, spent, secretVars, fetchVars>>

Matching(r, c) ==
    {x \in rows : /\ x.table = Stmt(r).table
                  /\ Visible(c, x.ws)
                  /\ Stmt(r).named => x.ws = ws[r]}

New(r, c) == Row(Stmt(r).table, IF Stmt(r).named THEN ws[r] ELSE DefaultWs(c))

Removed(r, c) == IF Stmt(r).verb \in {"delete", "use"} THEN Matching(r, c) ELSE {}
Added(r, c) == IF Stmt(r).verb = "insert" THEN {New(r, c)} ELSE {}

\* A statement waits for a transaction that is removing a row it removes, or
\* that has the same user's key in its hands: UNIQUE (user_id, provider).
Waits(r, c) ==
    \E d \in Conns \ {c} :
        \/ Removed(r, c) \cap conn[d].del # {}
        \/ /\ \E x \in Added(r, c) : x.table = "keys"
           /\ \E x \in conn[d].ins \cup conn[d].del : x.table = "keys"

\* What the database, or the plugin's assertGrant, refuses a statement for.
Refusals(r, c) ==
    IF Stmt(r).verb = "use" /\ Matching(r, c) = {} THEN {"denied"}
    ELSE IF Stmt(r).verb # "insert" THEN {}
    ELSE IF ~Visible(c, New(r, c).ws) THEN {"policy"}
    ELSE IF New(r, c).table = "keys" /\ \E x \in rows : x.table = "keys" THEN {"conflict"}
    ELSE {}

EndOfAny(r) == "commit"
EndOf(r) == IF Peeks(r) THEN "rollback" ELSE "commit"

Advance(r) ==
    IF step[r] < Len(Scripts[kind[r]])
    THEN /\ step' = [step EXCEPT ![r] = @ + 1]
         /\ pc' = [pc EXCEPT ![r] = "connecting"]
         /\ UNCHANGED answer
    ELSE EndedAs(r, "ok") /\ UNCHANGED step

\* The statement itself: the end of its transaction is yet to come, or, when
\* it is not pinned, it is a transaction of its own.
Run(r, c) ==
    /\ pc[r] = "run" /\ Usable(r, c) /\ ~Waits(r, c)
    /\ IF Refusals(r, c) # {}
       THEN /\ \E a \in Refusals(r, c) : Threw(r, a)
            /\ conn' = [conn EXCEPT ![c].tx = IF pinned THEN "aborted" ELSE "none"]
            /\ UNCHANGED <<rows, step, touched>>
       ELSE /\ touched' = [touched EXCEPT ![r] = @ \cup {x.ws : x \in Matching(r, c) \cup Added(r, c)}]
            /\ IF pinned
               THEN /\ conn' = [conn EXCEPT ![c].del = Removed(r, c), ![c].ins = Added(r, c)]
                    /\ pc' = [pc EXCEPT ![r] = EndOf(r)]
                    /\ UNCHANGED <<rows, step, answer>>
               ELSE /\ rows' = (rows \ Removed(r, c)) \cup Added(r, c)
                    /\ conn' = [conn EXCEPT ![c] = Idle]
                    /\ Advance(r)
    /\ UNCHANGED <<now, modeVars, kind, ws, spent, secretVars, fetchVars>>

\* The answer of a COMMIT may be lost although it was carried out.
Commit(r, c) ==
    /\ pc[r] = "commit" /\ Usable(r, c)
    /\ rows' = (rows \ conn[c].del) \cup conn[c].ins
    /\ spent' = IF kind[r] = "intent" /\ step[r] = 2 THEN spent \cup {r} ELSE spent
    /\ conn' = [conn EXCEPT ![c] = Idle]
    /\ \/ Advance(r)
       \/ EndedAs(r, "unknown") /\ UNCHANGED step
    /\ UNCHANGED <<now, modeVars, kind, ws, touched, secretVars, fetchVars>>

ReleasedAsIs(c) == [conn[c] EXCEPT !.holder = None]

\* What goes back to the pool: a connection that is broken is replaced.
Released(c) == Idle

\* ROLLBACK, whose own error is ignored, and release: the catch and the
\* finally, and the way a peek ends always.
Rollback(r, c) ==
    /\ pc[r] = "rollback" /\ Holds(r, c)
    /\ conn' = [conn EXCEPT ![c] = Released(c)]
    /\ IF answer[r] = "none"
       THEN Advance(r)
       ELSE EndedAs(r, answer[r]) /\ UNCHANGED step
    /\ UNCHANGED <<now, modeVars, kind, ws, touched, rows, spent, secretVars, fetchVars>>

------------------------------------------------------------------------------
(* Faults.                                                                  *)

\* The database forgets a connection that breaks, and what it had not
\* committed; its holder finds out with its next query.
Lose(c) ==
    /\ conn[c].holder # None /\ conn[c].up
    /\ conn' = [conn EXCEPT ![c] = [Idle EXCEPT !.holder = conn[c].holder, !.up = FALSE]]
    /\ UNCHANGED <<now, modeVars, requestVars, rows, spent, secretVars, fetchVars>>

Active == {r \in Requests : pc[r] \notin {"none", "done"}}

Restart ==
    /\ Active # {}
    /\ pc' = [r \in Requests |-> IF r \in Active THEN "done" ELSE pc[r]]
    /\ answer' = [r \in Requests |-> IF r \in Active THEN "restarted" ELSE answer[r]]
    /\ conn' = [c \in Conns |-> Idle]
    /\ cache' = [w \in Workspaces |-> None]
    /\ UNCHANGED <<now, modeVars, kind, ws, step, touched, rows, spent, secretVars, asked, got>>

Tick ==
    /\ now < MaxTime
    /\ \A r \in Requests : pc[r] \in {"reading", "read"} => now < asked[r] + Delay
    /\ now' = now + 1
    /\ UNCHANGED <<modeVars, requestVars, dbVars, secretVars, fetchVars>>

Statements(r) ==
    \/ Connect(r) \/ ConnectFails(r)
    \/ \E c \in Conns : Throws(r, c) \/ Begin(r, c) \/ Pin(r, c) \/ Run(r, c)
                        \/ Commit(r, c) \/ Rollback(r, c)

Credential(r) == Lookup(r) \/ ReadSecret(r) \/ Store(r)

Next ==
    \/ \E w \in Workspaces : Unlist(w) \/ Rotate(w)
    \/ \E r \in Requests : \E k \in Asks[r] : Arrive(r, k)
    \/ \E r \in Requests : Resolve(r) \/ Credential(r) \/ Statements(r)
    \/ \E c \in Conns : Lose(c)
    \/ Sweep \/ Restart \/ Tick

Spec == Init /\ [][Next]_vars

------------------------------------------------------------------------------
\* A request reads, changes and adds rows of its own workspace alone, also
\* where the statement names none and the policies are all there is, and
\* whatever connection it was given and whoever used that before.
OwnRowsOnly == \A r \in Requests : touched[r] \subseteq {ws[r]}

\* The failure of one request's statement is no other request's: a
\* connection never comes back from the pool inside a failed transaction.
FailureStaysLocal == \A r \in Requests : answer[r] # "aborted"

\* A tap is used up by the one intent whose capability ran with it: never by
\* a peek, by a capability that failed, or by two.
TapsAccounted ==
    \A w \in Workspaces :
        Cardinality({r \in spent : ws[r] = w}) = IF Row("grants", w) \in rows THEN 0 ELSE 1

\* A credential a request goes on with, or the knowledge that there is none,
\* was true less than CACHE_TTL_MS (NEGATIVE_TTL_MS) ago, however long its
\* read took and whichever of several reads was stored last: a rotation takes
\* effect within the TTL.
WasCurrent(w, v) ==
    v # secret[w] => lastSeen[w][v] + Limit(v) > now

RotationTakesEffect ==
    [][\A r \in Requests :
         /\ pc[r] \in {"credential", "read"} /\ pc'[r] = "connecting"
         => WasCurrent(ws[r], got'[r])]_vars
=============================================================================
