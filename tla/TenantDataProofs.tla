-------------------------- MODULE TenantDataProofs --------------------------
(***************************************************************************)
(* Proofs about TenantData, for any workspaces, requests, connections,     *)
(* times to live and clocks that its assumptions allow.                    *)
(*                                                                         *)
(* What a request touches, whether it fails, and what becomes of a tap is  *)
(* decided by the connection it is given, so that the invariant is about   *)
(* connections: a free one is as new, a held one carries the context, the  *)
(* locks and the writes of its holder alone.                               *)
(***************************************************************************)
EXTENDS TenantData, FiniteSetTheorems, TLAPS

\* Requests that have a connection.
Holding == {"begin", "pin", "run", "commit", "rollback"}

Broken(r) == [Idle EXCEPT !.holder = r, !.up = FALSE]

\* A connection in the pool is as new; one that is held belongs to one
\* request, and only that request's context, locks and writes are on it.
Held(c, r) ==
    /\ pc[r] \in Holding
    /\ \A d \in Conns : conn[d].holder = r <=> d = c
    /\ conn[c].tx = "aborted" => pc[r] = "rollback"
    /\ ~conn[c].up => conn[c] = Broken(r)
    /\ conn[c].up /\ pinned /\ pc[r] \in {"run", "commit"} => conn[c].setting = ws[r]
    /\ ~pinned => conn[c].setting = None
    /\ ~pinned \/ pc[r] \in {"begin", "pin", "run"} => conn[c].del = {} /\ conn[c].ins = {}
    /\ conn[c].del \subseteq rows
    /\ conn[c].up /\ pc[r] = "commit" =>
          IF kind[r] = "intent" THEN conn[c].del = {Row("grants", ws[r])} /\ conn[c].ins = {}
          ELSE \A x \in conn[c].del \cup conn[c].ins : x.table # "grants"

Pooled(c) == conn[c] = Idle \/ \E r \in Requests : Held(c, r)

\* The locks that Waits waits for.
Locked == \A c, d \in Conns : c = d \/ conn[c].del \cap conn[d].del = {}

\* A request is at a statement of its script, for its own workspace.
Proper(r) ==
    /\ pc[r] = "none" => touched[r] = {} /\ step[r] = 1
    /\ pc[r] # "none" =>
          /\ kind[r] \in DOMAIN Scripts /\ step[r] \in 1..Len(Scripts[kind[r]])
          /\ ws[r] \in Workspaces
          /\ ~pinned => ws[r] = Home /\ kind[r] # "intent"
    /\ pc[r] \in {"begin", "pin", "commit"} => pinned
    /\ pc[r] = "commit" => ~Peeks(r)
    /\ touched[r] \subseteq {ws[r]}
    /\ answer[r] # "aborted"
    /\ r \in spent => pc[r] = "done"

\* Each tap is there, or was used by one request.
Tapped(w) ==
    LET users == {r \in spent : ws[r] = w}
    IN  IF Row("grants", w) \in rows THEN users = {} ELSE \E r \in Requests : users = {r}

\* What is cached, or read, was true a while ago.
Recent(w) ==
    cache[w] # None =>
        /\ cache[w].expires <= now + Limit(cache[w].version)
        /\ \/ cache[w].version = secret[w]
           \/ cache[w].expires <= lastSeen[w][cache[w].version] + Limit(cache[w].version)

Reading(r) ==
    /\ pc[r] \in {"reading", "read"} => asked[r] <= now /\ now <= asked[r] + Delay
    /\ pc[r] = "read" =>
          /\ got[r] \in 0..MaxVersion
          /\ got[r] = secret[ws[r]] \/ asked[r] <= lastSeen[ws[r]][got[r]]

IInv ==
    /\ TypeOK
    /\ \A c \in Conns : Pooled(c)
    /\ Locked
    /\ \A r \in Requests : Proper(r)
    /\ \A w \in Workspaces : Tapped(w)
    /\ \A w \in Workspaces : Recent(w)
    /\ \A r \in Requests : Reading(r)

USE HomeAssumption, NoneAssumption, PoolAssumption, TimeAssumption

-----------------------------------------------------------------------------
(* The scripts: only an intent uses a tap, after its peek.                  *)

Stmts == [table : Tables, verb : {"read", "delete", "insert", "use"}, named : BOOLEAN,
          pool : {"adapter", "verifier", "plugin"}]
Plain == {s \in Stmts : s.table # "grants" /\ s.verb # "use" /\ s.pool = "adapter"}

LEMMA PlainStatement ==
    ASSUME NEW t \in Tables \ {"grants"}, NEW v \in {"read", "delete", "insert"}, NEW n \in BOOLEAN
    PROVE  Statement(t, v, n) \in Plain
BY DEF Statement, Stmts, Plain

Script(s) == s \in Seq(Plain) /\ Len(s) > 0

LEMMA PlainScript ==
    ASSUME NEW a \in Plain, NEW b \in Plain, NEW c \in Plain
    PROVE  Script(<<a>>) /\ Script(<<a, b>>) /\ Script(<<a, b, c>>)
BY DEF Script

LEMMA KeyScript == \A k \in DOMAIN KeyScripts : Script(KeyScripts[k])
<1>1. \A v \in {"read", "delete", "insert"}, n \in BOOLEAN : Statement("keys", v, n) \in Plain
  BY PlainStatement DEF Tables
<1>2. KeyScripts["getApiKeys"] = <<Statement("keys", "read", FALSE)>>
  BY DEF KeyScripts
<1>3. KeyScripts["saveApiKey"] = <<Statement("keys", "delete", FALSE), Statement("keys", "insert", FALSE)>>
  BY DEF KeyScripts
<1>4. KeyScripts["deleteApiKey"] = <<Statement("keys", "delete", FALSE)>>
  BY DEF KeyScripts
<1>5. Script(KeyScripts["getApiKeys"])
  BY <1>1, <1>2, PlainScript
<1>6. Script(KeyScripts["saveApiKey"])
  BY <1>1, <1>3, PlainScript
<1>7. Script(KeyScripts["deleteApiKey"])
  BY <1>1, <1>4, PlainScript
<1>8. DOMAIN KeyScripts = {"getApiKeys", "saveApiKey", "deleteApiKey"}
  BY DEF KeyScripts
<1> QED BY <1>5, <1>6, <1>7, <1>8

LEMMA MessageScript == \A k \in DOMAIN MessageScripts : Script(MessageScripts[k])
<1>1. \A v \in {"read", "delete", "insert"}, n \in BOOLEAN : Statement("messages", v, n) \in Plain
  BY PlainStatement DEF Tables
<1>2. MessageScripts["saveMessage"] = <<Statement("messages", "insert", TRUE), Statement("messages", "read", FALSE)>>
  BY DEF MessageScripts
<1>3. MessageScripts["getMessages"] = <<Statement("messages", "read", TRUE)>>
  BY DEF MessageScripts
<1>4. MessageScripts["clearMessages"] = <<Statement("messages", "delete", TRUE)>>
  BY DEF MessageScripts
<1>5. Script(MessageScripts["saveMessage"])
  BY <1>1, <1>2, PlainScript
<1>6. Script(MessageScripts["getMessages"])
  BY <1>1, <1>3, PlainScript
<1>7. Script(MessageScripts["clearMessages"])
  BY <1>1, <1>4, PlainScript
<1>8. DOMAIN MessageScripts = {"saveMessage", "getMessages", "clearMessages"}
  BY DEF MessageScripts
<1> QED BY <1>5, <1>6, <1>7, <1>8

LEMMA OtherScript ==
    /\ \A k \in DOMAIN WorkspaceScripts : Script(WorkspaceScripts[k])
    /\ \A k \in DOMAIN UsageScripts : Script(UsageScripts[k])
    /\ \A k \in DOMAIN AuditScripts : Script(AuditScripts[k])
<1>1. \A t \in {"workspaces", "usage", "audit"}, v \in {"read", "delete", "insert"}, n \in BOOLEAN :
         Statement(t, v, n) \in Plain
  BY PlainStatement DEF Tables
<1>2. \A k \in DOMAIN WorkspaceScripts : Script(WorkspaceScripts[k])
  <2>1. WorkspaceScripts["updateWorkspace"] = <<Statement("workspaces", "read", TRUE),
           Statement("workspaces", "read", TRUE), Statement("workspaces", "read", TRUE)>>
    BY DEF WorkspaceScripts
  <2>2. Script(WorkspaceScripts["updateWorkspace"])
    <3>1. Statement("workspaces", "read", TRUE) \in Plain
      BY <1>1
    <3> QED BY <2>1, <3>1, PlainScript
  <2>3. DOMAIN WorkspaceScripts = {"updateWorkspace"}
    BY DEF WorkspaceScripts
  <2> QED BY <2>2, <2>3
<1>3. \A k \in DOMAIN UsageScripts : Script(UsageScripts[k])
  <2>1. UsageScripts["recordUsage"] = <<Statement("usage", "insert", TRUE)>>
    BY DEF UsageScripts
  <2>2. UsageScripts["getUsage"] = <<Statement("usage", "read", TRUE),
           Statement("usage", "read", TRUE), Statement("usage", "read", TRUE)>>
    BY DEF UsageScripts
  <2>3. Script(UsageScripts["recordUsage"])
    BY <1>1, <2>1, PlainScript
  <2>4. Script(UsageScripts["getUsage"])
    BY <1>1, <2>2, PlainScript
  <2>5. DOMAIN UsageScripts = {"recordUsage", "getUsage"}
    BY DEF UsageScripts
  <2> QED BY <2>3, <2>4, <2>5
<1>4. \A k \in DOMAIN AuditScripts : Script(AuditScripts[k])
  <2>1. AuditScripts["audit"] = <<Statement("audit", "insert", TRUE)>>
    BY DEF AuditScripts
  <2>2. AuditScripts["getAuditLog"] = <<Statement("audit", "read", TRUE)>>
    BY DEF AuditScripts
  <2>3. Script(AuditScripts["audit"])
    BY <1>1, <2>1, PlainScript
  <2>4. Script(AuditScripts["getAuditLog"])
    BY <1>1, <2>2, PlainScript
  <2>5. DOMAIN AuditScripts = {"audit", "getAuditLog"}
    BY DEF AuditScripts
  <2> QED BY <2>3, <2>4, <2>5
<1> QED BY <1>2, <1>3, <1>4

Peek == Use("verifier")
Take == Use("plugin")

LEMMA ScriptOf ==
    ASSUME NEW k \in DOMAIN Scripts
    PROVE  IF k = "intent" THEN Scripts[k] = <<Peek, Take>> ELSE Script(Scripts[k])
<1>1. IntentScript = <<Peek, Take>>
  BY DEF IntentScript, Peek, Take
<1>2. /\ "intent" \notin DOMAIN KeyScripts
      /\ "intent" \notin DOMAIN MessageScripts
      /\ "intent" \notin DOMAIN WorkspaceScripts
      /\ "intent" \notin DOMAIN UsageScripts
      /\ "intent" \notin DOMAIN AuditScripts
  BY DEF KeyScripts, MessageScripts, WorkspaceScripts, UsageScripts, AuditScripts
<1>3. k \in UNION {DOMAIN KeyScripts, DOMAIN MessageScripts, DOMAIN WorkspaceScripts,
                   DOMAIN UsageScripts, DOMAIN AuditScripts, {"intent"}}
  BY DEF Scripts
<1>4. CASE k = "intent"
  <2>1. Scripts[k] = IntentScript
    BY <1>2, <1>3, <1>4 DEF Scripts
  <2> QED BY <1>1, <1>4, <2>1
<1>5. CASE k # "intent"
  <2>1. \/ k \in DOMAIN KeyScripts /\ Scripts[k] = KeyScripts[k]
        \/ k \in DOMAIN MessageScripts /\ Scripts[k] = MessageScripts[k]
        \/ k \in DOMAIN WorkspaceScripts /\ Scripts[k] = WorkspaceScripts[k]
        \/ k \in DOMAIN UsageScripts /\ Scripts[k] = UsageScripts[k]
        \/ k \in DOMAIN AuditScripts /\ Scripts[k] = AuditScripts[k]
    BY <1>3, <1>5 DEF Scripts
  <2> QED BY <1>5, <2>1, KeyScript, MessageScript, OtherScript
<1> QED BY <1>4, <1>5

-----------------------------------------------------------------------------
(* Types.                                                                   *)

\* The statement a request is at.
LEMMA StmtOf ==
    ASSUME NEW r \in Requests, Proper(r), pc[r] # "none"
    PROVE  /\ Stmt(r) \in Stmts
           /\ kind[r] # "intent" => Stmt(r) \in Plain
           /\ kind[r] = "intent" /\ step[r] = 1 => Stmt(r) = Peek
           /\ kind[r] = "intent" /\ step[r] # 1 => Stmt(r) = Take /\ step[r] = 2
<1>1. kind[r] \in DOMAIN Scripts /\ step[r] \in 1..Len(Scripts[kind[r]])
  BY DEF Proper
<1>2. CASE kind[r] = "intent"
  <2>1. Scripts[kind[r]] = <<Peek, Take>>
    BY <1>1, <1>2, ScriptOf
  <2>2. step[r] \in {1, 2}
    BY <1>1, <2>1
  <2>3. Peek \in Stmts /\ Take \in Stmts
    BY DEF Peek, Take, Use, Stmts, Tables
  <2> QED BY <1>2, <2>1, <2>2, <2>3 DEF Stmt
<1>3. CASE kind[r] # "intent"
  <2>1. Scripts[kind[r]] \in Seq(Plain)
    BY <1>1, <1>3, ScriptOf DEF Script
  <2>2. Stmt(r) \in Plain
    BY <1>1, <2>1 DEF Stmt
  <2> QED BY <1>3, <2>2 DEF Plain
<1> QED BY <1>2, <1>3

LEMMA Steps ==
    ASSUME NEW k \in DOMAIN Scripts
    PROVE  Len(Scripts[k]) \in Nat /\ Len(Scripts[k]) > 0
<1>1. CASE k = "intent"
  <2>1. Scripts[k] = <<Peek, Take>>
    BY <1>1, ScriptOf
  <2> QED BY <2>1
<1>2. CASE k # "intent"
  BY <1>2, ScriptOf DEF Script
<1> QED BY <1>1, <1>2

LEMMA IdleType == Idle \in Connections
BY DEF Idle, Connections

\* What Advance and a failure do to the request they belong to.
Goes(r, here, result) ==
    /\ pc' = [pc EXCEPT ![r] = here]
    /\ answer' = [answer EXCEPT ![r] = result]
    /\ UNCHANGED step

LEMMA AdvanceGoes ==
    ASSUME IInv, NEW r \in Requests, pc[r] # "none", Advance(r)
    PROVE  \/ Goes(r, "done", "ok")
           \/ /\ pc' = [pc EXCEPT ![r] = "connecting"]
              /\ step' = [step EXCEPT ![r] = step[r] + 1]
              /\ step[r] + 1 \in 1..Len(Scripts[kind[r]])
              /\ UNCHANGED answer
<1>1. Proper(r) /\ step \in [Requests -> Nat]
  BY DEF IInv, TypeOK
<1>2. kind[r] \in DOMAIN Scripts /\ step[r] \in 1..Len(Scripts[kind[r]])
  BY <1>1 DEF Proper
<1>3. Len(Scripts[kind[r]]) \in Nat
  BY <1>2, Steps
<1> QED BY <1>1, <1>2, <1>3 DEF Advance, EndedAs, Goes

LEMMA RoleOf ==
    ASSUME TypeOK, NEW c \in Conns, NEW w \in Workspaces, Visible(c, w)
    PROVE  IF pinned THEN conn[c].setting = w ELSE w = Home \/ conn[c].setting = w
BY ServiceAssumption DEF Visible, WorkspaceIsolation, TenantContext, Role

\* The context of a statement is its request's workspace.
LEMMA Context ==
    ASSUME IInv, NEW r \in Requests, NEW c \in Conns, pc[r] = "run", Usable(r, c)
    PROVE  /\ ws[r] \in Workspaces
           /\ \A w \in Workspaces : Visible(c, w) => w = ws[r]
           /\ DefaultWs(c) = ws[r]
           /\ Stmt(r) \in Stmts
<1>1. Holds(r, c) /\ conn[c].up
  BY DEF Usable
<1>2. Held(c, r)
  BY <1>1 DEF IInv, Pooled, Holds, Held, Idle
<1>3. Proper(r) /\ TypeOK
  BY DEF IInv
<1>4. ws[r] \in Workspaces /\ (~pinned => ws[r] = Home)
  BY <1>3 DEF Proper
<1>5. IF pinned THEN conn[c].setting = ws[r] ELSE conn[c].setting = None
  BY <1>1, <1>2 DEF Held
<1>6. \A w \in Workspaces : Visible(c, w) => w = ws[r]
  BY <1>3, <1>4, <1>5, RoleOf
<1>7. DefaultWs(c) = ws[r]
  BY <1>4, <1>5 DEF DefaultWs, Role
<1> QED BY <1>3, <1>4, <1>6, <1>7, StmtOf

LEMMA Effects ==
    ASSUME IInv, NEW r \in Requests, NEW c \in Conns, pc[r] = "run", Usable(r, c)
    PROVE  /\ Matching(r, c) \subseteq rows
           /\ Matching(r, c) \subseteq {x \in TenantRows : x.ws = ws[r]}
           /\ Removed(r, c) \subseteq Matching(r, c)
           /\ Added(r, c) \subseteq {x \in TenantRows : x.ws = ws[r]}
           /\ \A x \in Matching(r, c) \cup Added(r, c) : x.table = Stmt(r).table
<1>1. /\ ws[r] \in Workspaces
      /\ \A w \in Workspaces : Visible(c, w) => w = ws[r]
      /\ DefaultWs(c) = ws[r]
      /\ Stmt(r).table \in Tables
  BY Context DEF Stmts
<1>2. rows \subseteq TenantRows
  BY DEF IInv, TypeOK
<1>3. Matching(r, c) \subseteq rows /\ \A x \in Matching(r, c) : x.ws = ws[r] /\ x.table = Stmt(r).table
  BY <1>1, <1>2 DEF Matching, TenantRows
<1>4. New(r, c) = [table |-> Stmt(r).table, ws |-> ws[r]]
  BY <1>1 DEF New, Row
<1>5. New(r, c) \in TenantRows /\ New(r, c).ws = ws[r] /\ New(r, c).table = Stmt(r).table
  BY <1>1, <1>4 DEF TenantRows
<1> QED BY <1>2, <1>3, <1>5 DEF Removed, Added

LEMMA Initially == Init => IInv
<1> SUFFICES ASSUME Init PROVE IInv
  OBVIOUS
<1>1. \A t \in Tables, w \in Workspaces : Row(t, w) \in TenantRows
  BY DEF Row, TenantRows
<1>2. TypeOK
  <2>1. rows \subseteq TenantRows
    BY <1>1 DEF Init, Tables
  <2>2. /\ kind \in [Requests -> DOMAIN Scripts \cup {None}]
        /\ ws \in [Requests -> Workspaces \cup {None}]
        /\ step \in [Requests -> Nat] /\ touched \in [Requests -> SUBSET Workspaces]
    BY DEF Init
  <2>3. /\ secret \in [Workspaces -> 0..MaxVersion]
        /\ got \in [Requests -> (0..MaxVersion) \cup {None}]
    BY DEF Init
  <2>4. pc \in [Requests -> PCs] /\ answer \in [Requests -> Answers]
    BY DEF Init, PCs, Answers
  <2> QED BY <2>1, <2>2, <2>3, <2>4, IdleType DEF Init, TypeOK
<1>3. \A w \in Workspaces : Row("grants", w) \in rows
  BY DEF Init
<1>4. \A c \in Conns : Pooled(c)
  BY DEF Init, Pooled, Idle
<1>5. Locked
  BY DEF Init, Locked, Idle
<1>6. \A r \in Requests : Proper(r) /\ Reading(r)
  BY DEF Init, Proper, Reading
<1>7. \A w \in Workspaces : Tapped(w) /\ Recent(w)
  BY <1>3 DEF Init, Tapped, Recent
<1> QED BY <1>2, <1>4, <1>5, <1>6, <1>7 DEF IInv

LEMMA ConnTypes ==
    ASSUME TypeOK, NEW c \in Conns
    PROVE  /\ conn[c] \in Connections
           /\ Released(c) \in Connections
           /\ \A r \in Requests : [conn[c] EXCEPT !.holder = r] \in Connections
           /\ \A t \in {"none", "open", "aborted"} : [conn[c] EXCEPT !.tx = t] \in Connections
           /\ \A w \in Workspaces : [conn[c] EXCEPT !.setting = w] \in Connections
           /\ \A D, I \in SUBSET TenantRows : [conn[c] EXCEPT !.del = D, !.ins = I] \in Connections
           /\ conn[c].holder \in Requests \cup {None}
           /\ [Idle EXCEPT !.holder = conn[c].holder, !.up = FALSE] \in Connections
<1>1. conn[c] \in Connections
  BY DEF TypeOK
<1> QED BY <1>1, IdleType DEF Connections, Released, Idle

\* A step of a request's own variables.
LEMMA PlaceType ==
    ASSUME TypeOK, NEW r \in Requests, NEW h \in PCs, pc' = [pc EXCEPT ![r] = h]
    PROVE  pc' \in [Requests -> PCs]
BY DEF TypeOK

LEMMA AnswerType ==
    ASSUME TypeOK, NEW r \in Requests, NEW a \in Answers, answer' = [answer EXCEPT ![r] = a]
    PROVE  answer' \in [Requests -> Answers]
BY DEF TypeOK

LEMMA ConnType ==
    ASSUME TypeOK, NEW c \in Conns, NEW x \in Connections, conn' = [conn EXCEPT ![c] = x]
    PROVE  conn' \in [Conns -> Connections]
BY DEF TypeOK

LEMMA Types == IInv /\ [Next]_vars => TypeOK'
<1> SUFFICES ASSUME IInv, [Next]_vars PROVE TypeOK'
  OBVIOUS
<1>0. TypeOK
  BY DEF IInv
<1>a. {"none", "resolve", "credential", "reading", "read", "connecting",
       "begin", "pin", "run", "commit", "rollback", "done"} \subseteq PCs
  BY DEF PCs
<1>b. {"none", "ok", "refused", "denied", "conflict", "policy", "aborted",
       "noConnection", "lost", "unknown", "restarted"} \subseteq Answers
  BY DEF Answers
<1> USE DEF modeVars, requestVars, dbVars, secretVars, fetchVars
<1>1. ASSUME NEW w \in Workspaces, Unlist(w) \/ Rotate(w)
      PROVE  TypeOK'
  <2>1. CASE Unlist(w)
    BY <1>0, <2>1 DEF Unlist, TypeOK
  <2>2. CASE Rotate(w)
    <3>1. secret' \in [Workspaces -> 0..MaxVersion]
      BY <1>0, <2>2 DEF Rotate, TypeOK
    <3>2. lastSeen' \in [Workspaces -> [0..MaxVersion -> Nat]]
      BY <1>0, <2>2 DEF Rotate, TypeOK
    <3> QED BY <1>0, <2>2, <3>1, <3>2 DEF Rotate, TypeOK
  <2> QED BY <1>1, <2>1, <2>2
<1>2. ASSUME NEW r \in Requests, NEW k \in Asks[r], Arrive(r, k)
      PROVE  TypeOK'
  <2>1. k \in DOMAIN Scripts
    BY AsksAssumption
  <2>2. Tenants \subseteq Workspaces
    BY DEF Tenants
  <2>3. kind' \in [Requests -> DOMAIN Scripts \cup {None}] /\ ws' \in [Requests -> Workspaces \cup {None}]
    BY <1>0, <1>2, <2>1, <2>2 DEF Arrive, TypeOK
  <2>4. pc' \in [Requests -> PCs]
    <3>1. CASE pc' = [pc EXCEPT ![r] = "resolve"]
      BY <1>0, <1>a, <3>1, PlaceType
    <3>2. CASE pc' = [pc EXCEPT ![r] = "connecting"]
      BY <1>0, <1>a, <3>2, PlaceType
    <3> QED BY <1>2, <3>1, <3>2 DEF Arrive
  <2> QED BY <1>0, <1>2, <2>3, <2>4 DEF Arrive, TypeOK
<1>3. ASSUME NEW r \in Requests, Resolve(r)
      PROVE  TypeOK'
  <2>1. pc' \in [Requests -> PCs] /\ answer' \in [Requests -> Answers]
    <3>1. CASE ws[r] \in listed
      <4>1. pc' = [pc EXCEPT ![r] = "credential"] /\ UNCHANGED answer
        BY <1>3, <3>1 DEF Resolve
      <4> QED BY <1>0, <1>a, <4>1, PlaceType DEF TypeOK
    <3>2. CASE ws[r] \notin listed
      <4>1. EndedAs(r, "refused")
        BY <1>3, <3>2 DEF Resolve
      <4> QED BY <1>0, <1>a, <1>b, <4>1, PlaceType, AnswerType DEF EndedAs
    <3> QED BY <3>1, <3>2
  <2> QED BY <1>0, <1>3, <2>1 DEF Resolve, TypeOK
<1>4. ASSUME NEW r \in Requests, Credential(r)
      PROVE  TypeOK'
  <2>0. pc[r] # "none" /\ Proper(r)
    BY <1>4 DEF IInv, Credential, Lookup, ReadSecret, Store
  <2>1. ws[r] \in Workspaces
    BY <2>0 DEF Proper
  <2>2. pc' \in [Requests -> PCs]
    <3>1. \E h \in {"connecting", "reading", "read"} : pc' = [pc EXCEPT ![r] = h]
      BY <1>4 DEF Credential, Lookup, ReadSecret, Store
    <3> QED BY <1>0, <1>a, <3>1, PlaceType
  <2>3. got' \in [Requests -> (0..MaxVersion) \cup {None}] /\ asked' \in [Requests -> Nat]
    <3>1. CASE Lookup(r)
      <4>1. Hit(ws[r]) => cache[ws[r]].version \in 0..MaxVersion
        BY <1>0, <2>1 DEF Hit, TypeOK
      <4>2. CASE Hit(ws[r])
        <5>1. got' = [got EXCEPT ![r] = cache[ws[r]].version] /\ UNCHANGED asked
          BY <3>1, <4>2 DEF Lookup
        <5> QED BY <1>0, <4>1, <4>2, <5>1 DEF TypeOK
      <4>3. CASE ~Hit(ws[r])
        <5>1. asked' = [asked EXCEPT ![r] = now] /\ UNCHANGED got
          BY <3>1, <4>3 DEF Lookup
        <5> QED BY <1>0, <5>1 DEF TypeOK
      <4> QED BY <4>2, <4>3
    <3>2. CASE ReadSecret(r)
      <4>1. secret[ws[r]] \in 0..MaxVersion
        BY <1>0, <2>1 DEF TypeOK
      <4> QED BY <1>0, <3>2, <4>1 DEF ReadSecret, TypeOK
    <3>3. CASE Store(r)
      BY <1>0, <3>3 DEF Store, TypeOK
    <3> QED BY <1>4, <3>1, <3>2, <3>3 DEF Credential
  <2>4. cache' \in [Workspaces -> {None} \cup [version : 0..MaxVersion, expires : Nat]]
    <3>1. CASE Store(r)
      <4>1. got[r] \in 0..MaxVersion /\ asked[r] \in Nat
        BY <1>0, <3>1 DEF IInv, Reading, Store, TypeOK
      <4>2. [version |-> got[r], expires |-> Expiry(r)] \in [version : 0..MaxVersion, expires : Nat]
        BY <4>1 DEF Expiry, Limit
      <4> QED BY <1>0, <3>1, <4>2 DEF Store, TypeOK
    <3>2. CASE Lookup(r) \/ ReadSecret(r)
      BY <1>0, <3>2 DEF Lookup, ReadSecret, TypeOK
    <3> QED BY <1>4, <3>1, <3>2 DEF Credential
  <2> QED BY <1>0, <1>4, <2>2, <2>3, <2>4 DEF Credential, Lookup, ReadSecret, Store, TypeOK
<1>5. ASSUME NEW r \in Requests, Connect(r) \/ ConnectFails(r)
      PROVE  TypeOK'
  <2>1. CASE Connect(r)
    <3>1. pc' \in [Requests -> PCs]
      <4>1. \E h \in {"begin", "run"} : pc' = [pc EXCEPT ![r] = h]
        BY <2>1 DEF Connect
      <4> QED BY <1>0, <1>a, <4>1, PlaceType
    <3>2. conn' \in [Conns -> Connections]
      <4>1. PICK c \in Conns : conn' = [conn EXCEPT ![c] = [conn[c] EXCEPT !.holder = r]]
        BY <1>0, <2>1 DEF Connect, TypeOK
      <4>2. [conn[c] EXCEPT !.holder = r] \in Connections
        BY <1>0, ConnTypes
      <4> QED BY <1>0, <4>1, <4>2, ConnType
    <3> QED BY <1>0, <2>1, <3>1, <3>2 DEF Connect, TypeOK
  <2>2. CASE ConnectFails(r)
    <3>1. pc' \in [Requests -> PCs] /\ answer' \in [Requests -> Answers]
      BY <1>0, <1>a, <1>b, <2>2, PlaceType, AnswerType DEF ConnectFails, EndedAs
    <3> QED BY <1>0, <2>2, <3>1 DEF ConnectFails, TypeOK
  <2> QED BY <1>5, <2>1, <2>2
<1>6. ASSUME NEW r \in Requests, NEW c \in Conns, Throws(r, c) \/ Begin(r, c) \/ Pin(r, c)
      PROVE  TypeOK'
  <2>1. CASE Throws(r, c)
    <3>1. PICK a \in {"lost", "aborted"} : Threw(r, a)
      BY <2>1 DEF Throws
    <3>2. pc' \in [Requests -> PCs] /\ answer' \in [Requests -> Answers]
      BY <1>0, <1>a, <1>b, <3>1, PlaceType, AnswerType DEF Threw
    <3> QED BY <1>0, <2>1, <3>2 DEF Throws, TypeOK
  <2>2. CASE Begin(r, c)
    <3>1. pc' \in [Requests -> PCs]
      BY <1>0, <1>a, <2>2, PlaceType DEF Begin
    <3>2. conn' \in [Conns -> Connections]
      <4>1. conn' = [conn EXCEPT ![c] = [conn[c] EXCEPT !.tx = "open"]]
        BY <1>0, <2>2 DEF Begin, TypeOK
      <4>2. [conn[c] EXCEPT !.tx = "open"] \in Connections
        BY <1>0, ConnTypes
      <4> QED BY <1>0, <4>1, <4>2, ConnType
    <3> QED BY <1>0, <2>2, <3>1, <3>2 DEF Begin, TypeOK
  <2>3. CASE Pin(r, c)
    <3>0. pc[r] = "pin" /\ Proper(r)
      BY <2>3 DEF IInv, Pin
    <3>1. pc' \in [Requests -> PCs]
      BY <1>0, <1>a, <2>3, PlaceType DEF Pin
    <3>2. conn' \in [Conns -> Connections]
      <4>1. conn' = [conn EXCEPT ![c] = [conn[c] EXCEPT !.setting = ws[r]]]
        BY <1>0, <2>3 DEF Pin, TypeOK
      <4>2. ws[r] \in Workspaces
        BY <3>0 DEF Proper
      <4>3. [conn[c] EXCEPT !.setting = ws[r]] \in Connections
        BY <1>0, <4>2, ConnTypes
      <4> QED BY <1>0, <4>1, <4>3, ConnType
    <3> QED BY <1>0, <2>3, <3>1, <3>2 DEF Pin, TypeOK
  <2> QED BY <1>6, <2>1, <2>2, <2>3
<1>7. ASSUME NEW r \in Requests, Advance(r), pc[r] # "none"
      PROVE  /\ pc' \in [Requests -> PCs] /\ answer' \in [Requests -> Answers]
             /\ step' \in [Requests -> Nat]
  <2>1. CASE Goes(r, "done", "ok")
    BY <1>0, <1>a, <1>b, <2>1, PlaceType, AnswerType DEF Goes, TypeOK
  <2>2. CASE /\ pc' = [pc EXCEPT ![r] = "connecting"]
             /\ step' = [step EXCEPT ![r] = step[r] + 1]
             /\ UNCHANGED answer
    <3>1. pc' \in [Requests -> PCs]
      BY <1>0, <1>a, <2>2, PlaceType
    <3> QED BY <1>0, <2>2, <3>1 DEF TypeOK
  <2> QED BY <1>7, <2>1, <2>2, AdvanceGoes
<1>8. ASSUME NEW r \in Requests, NEW c \in Conns, Run(r, c)
      PROVE  TypeOK'
  <2>0. pc[r] = "run" /\ Usable(r, c)
    BY <1>8 DEF Run
  <2>1. /\ Matching(r, c) \subseteq rows
        /\ Matching(r, c) \subseteq {x \in TenantRows : x.ws = ws[r]}
        /\ Removed(r, c) \subseteq Matching(r, c)
        /\ Added(r, c) \subseteq {x \in TenantRows : x.ws = ws[r]}
    BY <2>0, Effects
  <2>2. ws[r] \in Workspaces
    BY <2>0, Context
  <2>3. CASE Refusals(r, c) # {}
    <3>1. Refusals(r, c) \subseteq {"denied", "policy", "conflict"}
      BY DEF Refusals
    <3>2. PICK a \in Refusals(r, c) : Threw(r, a)
      BY <1>8, <2>3 DEF Run
    <3>3. pc' \in [Requests -> PCs] /\ answer' \in [Requests -> Answers]
      <4>1. a \in Answers
        BY <1>b, <3>1
      <4> QED BY <1>0, <1>a, <3>2, <4>1, PlaceType, AnswerType DEF Threw
    <3>4. conn' \in [Conns -> Connections]
      <4>1. \E t \in {"none", "open", "aborted"} : conn' = [conn EXCEPT ![c] = [conn[c] EXCEPT !.tx = t]]
        BY <1>0, <1>8, <2>3 DEF Run, TypeOK
      <4>2. PICK t \in {"none", "open", "aborted"} : conn' = [conn EXCEPT ![c] = [conn[c] EXCEPT !.tx = t]]
        BY <4>1
      <4>3. [conn[c] EXCEPT !.tx = t] \in Connections
        BY <1>0, ConnTypes
      <4> QED BY <1>0, <4>2, <4>3, ConnType
    <3> QED BY <1>0, <1>8, <2>3, <3>3, <3>4 DEF Run, TypeOK
  <2>4. CASE Refusals(r, c) = {}
    <3>1. touched' \in [Requests -> SUBSET Workspaces]
      <4>1. {x.ws : x \in Matching(r, c) \cup Added(r, c)} \subseteq {ws[r]}
        BY <2>1
      <4>2. touched' = [touched EXCEPT ![r] = touched[r] \cup {x.ws : x \in Matching(r, c) \cup Added(r, c)}]
        BY <1>0, <1>8, <2>4 DEF Run, TypeOK
      <4> QED BY <1>0, <2>2, <4>1, <4>2 DEF TypeOK
    <3>2. CASE pinned
      <4>1. conn' \in [Conns -> Connections]
        <5>1. Removed(r, c) \in SUBSET TenantRows /\ Added(r, c) \in SUBSET TenantRows
          BY <2>1
        <5>2. conn' = [conn EXCEPT ![c] = [conn[c] EXCEPT !.del = Removed(r, c), !.ins = Added(r, c)]]
          BY <1>0, <1>8, <2>4, <3>2 DEF Run, TypeOK
        <5>3. [conn[c] EXCEPT !.del = Removed(r, c), !.ins = Added(r, c)] \in Connections
          BY <1>0, <5>1, ConnTypes
        <5> QED BY <1>0, <5>2, <5>3, ConnType
      <4>2. pc' \in [Requests -> PCs]
        <5>1. EndOf(r) \in PCs
          BY <1>a DEF EndOf
        <5> QED BY <1>0, <1>8, <2>4, <3>2, <5>1, PlaceType DEF Run
      <4> QED BY <1>0, <1>8, <2>4, <3>1, <3>2, <4>1, <4>2 DEF Run, TypeOK
    <3>3. CASE ~pinned
      <4>1. rows' \subseteq TenantRows
        BY <1>0, <1>8, <2>1, <2>4, <3>3 DEF Run, TypeOK
      <4>2. conn' \in [Conns -> Connections]
        BY <1>0, <1>8, <2>4, <3>3, IdleType DEF Run, TypeOK
      <4>3. Advance(r)
        BY <1>8, <2>4, <3>3 DEF Run
      <4> QED BY <1>0, <1>7, <1>8, <2>0, <2>4, <3>1, <3>3, <4>1, <4>2, <4>3 DEF Run, TypeOK
    <3> QED BY <3>2, <3>3
  <2> QED BY <2>3, <2>4
<1>9. ASSUME NEW r \in Requests, NEW c \in Conns, Commit(r, c)
      PROVE  TypeOK'
  <2>1. rows' \subseteq TenantRows
    <3>1. conn[c].ins \subseteq TenantRows
      BY <1>0 DEF TypeOK, Connections
    <3> QED BY <1>0, <1>9, <3>1 DEF Commit, TypeOK
  <2>2. conn' \in [Conns -> Connections] /\ spent' \subseteq Requests
    BY <1>0, <1>9, IdleType DEF Commit, TypeOK
  <2>3. /\ pc' \in [Requests -> PCs] /\ answer' \in [Requests -> Answers]
        /\ step' \in [Requests -> Nat]
    <3>1. CASE Advance(r)
      BY <1>7, <1>9, <3>1 DEF Commit
    <3>2. CASE EndedAs(r, "unknown") /\ UNCHANGED step
      BY <1>0, <1>a, <1>b, <3>2, PlaceType, AnswerType DEF EndedAs, TypeOK
    <3> QED BY <1>9, <3>1, <3>2 DEF Commit
  <2> QED BY <1>0, <1>9, <2>1, <2>2, <2>3 DEF Commit, TypeOK
<1>10. ASSUME NEW r \in Requests, NEW c \in Conns, Rollback(r, c)
       PROVE  TypeOK'
  <2>1. conn' \in [Conns -> Connections]
    BY <1>0, <1>10, IdleType DEF Rollback, Released, TypeOK
  <2>2. /\ pc' \in [Requests -> PCs] /\ answer' \in [Requests -> Answers]
        /\ step' \in [Requests -> Nat]
    <3>1. CASE Advance(r)
      BY <1>7, <1>10, <3>1 DEF Rollback
    <3>2. CASE EndedAs(r, answer[r]) /\ UNCHANGED step
      <4>1. answer[r] \in Answers
        BY <1>0 DEF TypeOK
      <4> QED BY <1>0, <1>a, <3>2, <4>1, PlaceType, AnswerType DEF EndedAs, TypeOK
    <3> QED BY <1>10, <3>1, <3>2 DEF Rollback
  <2> QED BY <1>0, <1>10, <2>1, <2>2 DEF Rollback, TypeOK
<1>11. ASSUME NEW c \in Conns, Lose(c)
       PROVE  TypeOK'
  <2>1. conn' \in [Conns -> Connections]
    <3>1. [Idle EXCEPT !.holder = conn[c].holder, !.up = FALSE] \in Connections
      BY <1>0, ConnTypes
    <3> QED BY <1>0, <1>11, <3>1, ConnType DEF Lose
  <2> QED BY <1>0, <1>11, <2>1 DEF Lose, TypeOK
<1>12. CASE Sweep
  BY <1>0, <1>12 DEF Sweep, TypeOK
<1>13. CASE Restart
  BY <1>0, <1>13, <1>a, <1>b, IdleType DEF Restart, TypeOK
<1>14. CASE Tick \/ UNCHANGED vars
  BY <1>0, <1>14 DEF Tick, vars, TypeOK
<1> QED BY <1>1, <1>2, <1>3, <1>4, <1>5, <1>6, <1>8, <1>9, <1>10, <1>11, <1>12, <1>13, <1>14
        DEF Next, Statements


-----------------------------------------------------------------------------
(* Connections.                                                             *)

LEMMA IdleFields ==
    /\ Idle.holder = None /\ Idle.tx = "none" /\ Idle.setting = None
    /\ Idle.del = {} /\ Idle.ins = {} /\ Idle.up = TRUE
BY DEF Idle

\* What a request that has a connection knows of it, and of the others.
LEMMA HoldsOne ==
    ASSUME IInv, NEW r \in Requests, NEW c \in Conns, Holds(r, c)
    PROVE  /\ conn[c].holder = r /\ r # None /\ Held(c, r) /\ conn[c] \in Connections
           /\ pc[r] \in Holding /\ Proper(r)
           /\ \A d \in Conns \ {c} : conn[d].holder # r
<1>1. conn[c].holder = r /\ r # None
  BY DEF Holds
<1>2. Held(c, r)
  BY <1>1 DEF IInv, Pooled, Held, Idle
<1> QED BY <1>1, <1>2 DEF Held, IInv, TypeOK

LEMMA NotHolding ==
    ASSUME IInv, NEW r \in Requests, pc[r] \notin Holding, NEW d \in Conns
    PROVE  conn[d].holder # r
BY IdleFields DEF IInv, Pooled, Held

LEMMA DelOfPooled ==
    ASSUME IInv, NEW d \in Conns
    PROVE  conn[d].del \subseteq rows /\ (~pinned => conn[d].del = {})
<1>1. CASE conn[d] = Idle
  BY <1>1, IdleFields
<1>2. CASE \E r \in Requests : Held(d, r)
  BY <1>2 DEF Held
<1> QED BY <1>1, <1>2 DEF IInv, Pooled

\* A step of one request on one connection leaves the other connections as
\* good as they were.
LEMMA Others ==
    ASSUME IInv, NEW r \in Requests, NEW c \in Conns, NEW x \in Connections,
           \A d \in Conns \ {c} : conn[d].holder # r,
           x.holder \in {r, None}, conn' = [conn EXCEPT ![c] = x],
           \A q \in Requests \ {r} : pc'[q] = pc[q] /\ ws'[q] = ws[q] /\ kind'[q] = kind[q],
           UNCHANGED pinned,
           \A d \in Conns \ {c} : conn[d].del \subseteq rows' /\ x.del \cap conn[d].del = {}
    PROVE  Locked' /\ \A d \in Conns \ {c} : Pooled(d)'
<1>1. conn'[c] = x /\ \A d \in Conns \ {c} : conn'[d] = conn[d]
  BY DEF IInv, TypeOK
<1>2. Locked'
  BY <1>1 DEF IInv, Locked
<1>3. ASSUME NEW d \in Conns \ {c}
      PROVE  Pooled(d)'
  <2>1. CASE conn[d] = Idle
    BY <1>1, <2>1 DEF Pooled, Idle
  <2>2. ASSUME NEW q \in Requests, Held(d, q)
        PROVE  Pooled(d)'
    <3>1. q \in Requests \ {r}
      BY <2>2 DEF Held
    <3>2. pc'[q] = pc[q] /\ ws'[q] = ws[q] /\ kind'[q] = kind[q] /\ conn'[d] = conn[d] /\ pinned' = pinned
      BY <1>1, <3>1
    <3>3. \A e \in Conns : conn'[e].holder = q <=> e = d
      BY <1>1, <2>2, <3>1 DEF Held
    <3>4. conn[d].del \subseteq rows'
      OBVIOUS
    <3>5. Held(d, q)'
      BY <2>2, <3>1, <3>2, <3>3, <3>4 DEF Held, Broken, Idle, Row
    <3> QED BY <3>5 DEF Pooled
  <2> QED BY <2>1, <2>2 DEF IInv, Pooled
<1> QED BY <1>2, <1>3

Pool == Locked /\ \A c \in Conns : Pooled(c)

\* A step of a request that has no connection.
LEMMA WithoutConnection ==
    ASSUME IInv, NEW r \in Requests, pc[r] \notin Holding,
           \A q \in Requests \ {r} : pc'[q] = pc[q] /\ ws'[q] = ws[q] /\ kind'[q] = kind[q],
           UNCHANGED <<pinned, conn, rows>>
    PROVE  Pool'
<1>1. \A d \in Conns : conn[d].holder # r
  BY NotHolding
<1>2. Locked'
  BY DEF IInv, Locked
<1>3. ASSUME NEW d \in Conns
      PROVE  Pooled(d)'
  <2>1. CASE conn[d] = Idle
    BY <2>1 DEF Pooled, Idle
  <2>2. ASSUME NEW q \in Requests, Held(d, q)
        PROVE  Pooled(d)'
    <3>1. q \in Requests \ {r}
      BY <1>1, <2>2 DEF Held
    <3>2. pc'[q] = pc[q] /\ ws'[q] = ws[q] /\ kind'[q] = kind[q]
      BY <3>1
    <3>3. Held(d, q)'
      BY <2>2, <3>1, <3>2 DEF Held, Broken, Idle, Row
    <3> QED BY <3>3 DEF Pooled
  <2> QED BY <2>1, <2>2 DEF IInv, Pooled
<1> QED BY <1>2, <1>3 DEF Pool


\* Only one request moves.
Only(r) ==
    /\ \A q \in Requests \ {r} : pc'[q] = pc[q] /\ ws'[q] = ws[q] /\ kind'[q] = kind[q]
    /\ UNCHANGED pinned

\* Request r, which has connection c or gets it, leaves it as x.
LeavesIt(r, c, x) ==
    /\ Holds(r, c) \/ (conn[c] = Idle /\ pc[r] \notin Holding)
    /\ x.holder \in {r, None}
    /\ conn' = [conn EXCEPT ![c] = x]
    /\ \A d \in Conns \ {c} : conn[d].del \subseteq rows' /\ x.del \cap conn[d].del = {}

\* What x has to be: as new, or r's.
AsNewOrHeld(r, x) ==
    IF x.holder = None THEN x = Idle ELSE
        /\ pc'[r] \in Holding
        /\ x.tx = "aborted" => pc'[r] = "rollback"
        /\ ~x.up => x = Broken(r)
        /\ x.up /\ pinned /\ pc'[r] \in {"run", "commit"} => x.setting = ws'[r]
        /\ ~pinned => x.setting = None
        /\ ~pinned \/ pc'[r] \in {"begin", "pin", "run"} => x.del = {} /\ x.ins = {}
        /\ x.del \subseteq rows'
        /\ x.up /\ pc'[r] = "commit" =>
              IF kind'[r] = "intent" THEN x.del = {Row("grants", ws'[r])} /\ x.ins = {}
              ELSE \A y \in x.del \cup x.ins : y.table # "grants"

LEMMA WithConnection ==
    ASSUME IInv, NEW r \in Requests, NEW c \in Conns, NEW x \in Connections,
           Only(r), LeavesIt(r, c, x), AsNewOrHeld(r, x)
    PROVE  Pool'
<1> USE DEF Only, LeavesIt, AsNewOrHeld
<1>1. \A d \in Conns \ {c} : conn[d].holder # r
  BY HoldsOne, NotHolding
<1>2. Locked' /\ \A d \in Conns \ {c} : Pooled(d)'
  BY <1>1, Others
<1>3. conn'[c] = x /\ \A d \in Conns \ {c} : conn'[d] = conn[d]
  BY DEF IInv, TypeOK
<1>4. Pooled(c)'
  <2>1. CASE x.holder = None
    BY <1>3, <2>1 DEF Pooled, Idle
  <2>2. CASE x.holder # None
    <3>1. x.holder = r
      BY <2>2
    <3>2. \A d \in Conns : conn'[d].holder = r <=> d = c
      BY <1>1, <1>3, <3>1
    <3>3. Held(c, r)'
      <4>0. conn'[c] = x
        BY <1>3, <3>1
      <4>1. pc'[r] \in Holding /\ (x.tx = "aborted" => pc'[r] = "rollback")
        BY <2>2
      <4>2. ~x.up => x = Broken(r)
        BY <2>2
      <4>3. x.up /\ pinned' /\ pc'[r] \in {"run", "commit"} => x.setting = ws'[r]
        BY <2>2
      <4>4. ~pinned' => x.setting = None
        BY <2>2
      <4>5. ~pinned' \/ pc'[r] \in {"begin", "pin", "run"} => x.del = {} /\ x.ins = {}
        BY <2>2
      <4>6. x.del \subseteq rows'
        BY <2>2
      <4>7. x.up /\ pc'[r] = "commit" =>
               IF kind'[r] = "intent" THEN x.del = {Row("grants", ws'[r])} /\ x.ins = {}
               ELSE \A y \in x.del \cup x.ins : y.table # "grants"
        BY <2>2
      <4> QED BY <3>2, <4>0, <4>1, <4>2, <4>3, <4>4, <4>5, <4>6, <4>7 DEF Held, Broken, Idle, Row
    <3> QED BY <3>3 DEF Pooled
  <2> QED BY <2>1, <2>2
<1> QED BY <1>2, <1>4 DEF Pool

\* A request that gives its connection back.
LEMMA GivenBack ==
    ASSUME IInv, NEW r \in Requests, NEW c \in Conns, Only(r), Holds(r, c),
           conn' = [conn EXCEPT ![c] = Idle], \A d \in Conns \ {c} : conn[d].del \subseteq rows'
    PROVE  Pool'
<1>1. LeavesIt(r, c, Idle)
  <2>1. \A d \in Conns \ {c} : Idle.del \cap conn[d].del = {}
    BY IdleFields
  <2>2. Idle.holder \in {r, None}
    BY IdleFields
  <2> QED BY <2>1, <2>2 DEF LeavesIt, Holds
<1>2. AsNewOrHeld(r, Idle)
  BY IdleFields DEF AsNewOrHeld
<1> QED BY <1>1, <1>2, IdleType, WithConnection

LEMMA OthersStay ==
    ASSUME IInv, NEW r \in Requests, UNCHANGED <<ws, kind, pinned>>, NEW h, pc' = [pc EXCEPT ![r] = h]
    PROVE  Only(r) /\ pc'[r] = h
BY DEF IInv, TypeOK, Only

LEMMA PoolOfConnect ==
    ASSUME IInv, NEW r \in Requests, Connect(r)
    PROVE  Pool'
<1>1. PICK c \in Conns : conn[c].holder = None /\ conn' = [conn EXCEPT ![c] = [conn[c] EXCEPT !.holder = r]]
  BY DEF Connect, IInv, TypeOK
<1> DEFINE x == [conn[c] EXCEPT !.holder = r]
<1>2. conn[c] = Idle
  BY <1>1, NoneAssumption DEF IInv, Pooled, Held
<1>3. x \in Connections
  BY ConnTypes DEF IInv
<1>4. /\ x.holder = r /\ x.tx = "none" /\ x.up = TRUE /\ x.del = {} /\ x.ins = {} /\ x.setting = None
  BY <1>2 DEF Idle
<1>5. pc[r] \notin Holding /\ UNCHANGED rows
  BY DEF Connect, Holding
<1>6. Only(r) /\ pc'[r] = IF pinned THEN "begin" ELSE "run"
  BY OthersStay DEF Connect, modeVars
<1>7. \A d \in Conns \ {c} : conn[d].del \subseteq rows' /\ x.del \cap conn[d].del = {}
  BY <1>4, <1>5, DelOfPooled
<1>8. conn' = [conn EXCEPT ![c] = x]
  BY <1>1
<1> HIDE DEF x
<1>9. LeavesIt(r, c, x)
  BY <1>2, <1>4, <1>5, <1>7, <1>8 DEF LeavesIt
<1>10. AsNewOrHeld(r, x)
  BY <1>4, <1>6 DEF AsNewOrHeld, Holding
<1> QED BY <1>3, <1>6, <1>9, <1>10, WithConnection

LEMMA PoolOfThrows ==
    ASSUME IInv, NEW r \in Requests, NEW c \in Conns, Throws(r, c)
    PROVE  Pool'
<1>1. Held(c, r) /\ conn[c] \in Connections /\ conn[c].holder = r /\ r # None
  BY HoldsOne DEF Throws
<1>2. Only(r) /\ pc'[r] = "rollback"
  BY OthersStay DEF Throws, Threw, modeVars
<1>3. UNCHANGED <<rows, conn>>
  BY DEF Throws, dbVars
<1>4. LeavesIt(r, c, conn[c])
  <2>1. conn' = [conn EXCEPT ![c] = conn[c]]
    BY <1>3 DEF IInv, TypeOK
  <2>2. \A d \in Conns \ {c} : conn[d].del \subseteq rows' /\ conn[c].del \cap conn[d].del = {}
    BY <1>3, DelOfPooled DEF IInv, Locked
  <2>3. Holds(r, c)
    BY DEF Throws
  <2> QED BY <1>1, <2>1, <2>2, <2>3 DEF LeavesIt, Holds
<1>5. AsNewOrHeld(r, conn[c])
  BY <1>1, <1>2, <1>3 DEF AsNewOrHeld, Held, Holding
<1> QED BY <1>1, <1>2, <1>4, <1>5, WithConnection

\* A step that leaves no writes behind on the connection.
LEMMA Clean ==
    ASSUME IInv, NEW r \in Requests, NEW c \in Conns, NEW x, Holds(r, c), x.holder = r,
           x.del = {}, conn' = [conn EXCEPT ![c] = x], UNCHANGED rows
    PROVE  LeavesIt(r, c, x)
<1>1. \A d \in Conns \ {c} : conn[d].del \subseteq rows' /\ x.del \cap conn[d].del = {}
  BY DelOfPooled
<1> QED BY <1>1 DEF LeavesIt, Holds

LEMMA PoolOfBegin ==
    ASSUME IInv, NEW r \in Requests, NEW c \in Conns, Begin(r, c)
    PROVE  Pool'
<1> DEFINE x == [conn[c] EXCEPT !.tx = "open"]
<1>1. Held(c, r) /\ conn[c] \in Connections /\ conn[c].holder = r /\ r # None
  BY HoldsOne DEF Begin, Usable
<1>2. Only(r) /\ pc'[r] = "pin"
  BY OthersStay DEF Begin, modeVars
<1>3. /\ x.holder = r /\ x.tx = "open" /\ x.up = conn[c].up /\ x.del = conn[c].del /\ x.ins = conn[c].ins
      /\ x.setting = conn[c].setting
  BY <1>1 DEF Connections
<1>4. x \in Connections
  BY ConnTypes DEF IInv
<1>5. conn' = [conn EXCEPT ![c] = x] /\ UNCHANGED rows
  BY DEF Begin, IInv, TypeOK
<1>6. conn[c].del = {} /\ conn[c].ins = {} /\ conn[c].up /\ (~pinned => conn[c].setting = None) /\ Holds(r, c)
  BY <1>1 DEF Held, Begin, Usable
<1> HIDE DEF x
<1>7. LeavesIt(r, c, x)
  BY <1>3, <1>5, <1>6, Clean
<1>8. AsNewOrHeld(r, x)
  BY <1>1, <1>2, <1>3, <1>6 DEF AsNewOrHeld, Holding
<1> QED BY <1>2, <1>4, <1>7, <1>8, WithConnection

LEMMA PoolOfPin ==
    ASSUME IInv, NEW r \in Requests, NEW c \in Conns, Pin(r, c)
    PROVE  Pool'
<1> DEFINE x == [conn[c] EXCEPT !.setting = ws[r]]
<1>1. Held(c, r) /\ conn[c] \in Connections /\ conn[c].holder = r /\ r # None /\ Proper(r)
  BY HoldsOne DEF Pin, Usable
<1>2. Only(r) /\ pc'[r] = "run" /\ ws'[r] = ws[r]
  BY OthersStay DEF Pin, modeVars
<1>3. /\ x.holder = r /\ x.tx = conn[c].tx /\ x.up = conn[c].up /\ x.del = conn[c].del /\ x.ins = conn[c].ins
      /\ x.setting = ws[r]
  BY <1>1 DEF Connections
<1>4. ws[r] \in Workspaces /\ pinned
  BY <1>1 DEF Proper, Pin
<1>5. x \in Connections
  BY <1>4, ConnTypes DEF IInv
<1>6. conn' = [conn EXCEPT ![c] = x] /\ UNCHANGED rows
  BY DEF Pin, IInv, TypeOK
<1>7. conn[c].del = {} /\ conn[c].ins = {} /\ conn[c].up /\ conn[c].tx # "aborted" /\ Holds(r, c)
  BY <1>1 DEF Held, Pin, Usable
<1> HIDE DEF x
<1>8. LeavesIt(r, c, x)
  BY <1>3, <1>6, <1>7, Clean
<1>9. AsNewOrHeld(r, x)
  BY <1>1, <1>2, <1>3, <1>4, <1>7 DEF AsNewOrHeld, Holding
<1> QED BY <1>2, <1>5, <1>8, <1>9, WithConnection

\* The writes of a statement: only an intent's use of its tap is about taps.
LEMMA Writes ==
    ASSUME IInv, NEW r \in Requests, NEW c \in Conns, pc[r] = "run", Usable(r, c), Refusals(r, c) = {}
    PROVE  IF kind[r] = "intent" THEN Removed(r, c) = {Row("grants", ws[r])} /\ Added(r, c) = {}
           ELSE \A x \in Removed(r, c) \cup Added(r, c) : x.table # "grants"
<1>1. Proper(r)
  BY DEF IInv
<1>2. /\ Matching(r, c) \subseteq {x \in TenantRows : x.ws = ws[r]}
      /\ Removed(r, c) \subseteq Matching(r, c)
      /\ \A x \in Matching(r, c) \cup Added(r, c) : x.table = Stmt(r).table
  BY Effects
<1>3. CASE kind[r] = "intent"
  <2>1. Stmt(r).verb = "use" /\ Stmt(r).table = "grants"
    <3>1. Stmt(r) = Peek \/ Stmt(r) = Take
      BY <1>1, <1>3, StmtOf
    <3> QED BY <3>1 DEF Peek, Take, Use
  <2>2. Added(r, c) = {} /\ Removed(r, c) = Matching(r, c)
    BY <2>1 DEF Added, Removed
  <2>3. Matching(r, c) # {}
    BY <2>1 DEF Refusals
  <2>4. \A x \in Matching(r, c) : x = Row("grants", ws[r])
    BY <1>2, <2>1 DEF TenantRows, Row
  <2> QED BY <1>3, <2>2, <2>3, <2>4
<1>4. CASE kind[r] # "intent"
  <2>1. Stmt(r).table # "grants"
    BY <1>1, <1>4, StmtOf DEF Plain
  <2> QED BY <1>2, <1>4, <2>1
<1> QED BY <1>3, <1>4

LEMMA PoolOfRun ==
    ASSUME IInv, NEW r \in Requests, NEW c \in Conns, Run(r, c)
    PROVE  Pool'
<1>0. pc[r] = "run" /\ Usable(r, c) /\ Holds(r, c) /\ conn[c].up /\ conn[c].tx # "aborted"
  BY DEF Run, Usable
<1>1. Held(c, r) /\ conn[c] \in Connections /\ conn[c].holder = r /\ r # None
  BY <1>0, HoldsOne
<1>2. UNCHANGED <<ws, kind, pinned>>
  BY DEF Run, modeVars
<1>3. /\ conn[c].del = {} /\ conn[c].ins = {}
      /\ IF pinned THEN conn[c].setting = ws[r] ELSE conn[c].setting = None
  BY <1>0, <1>1 DEF Held
<1>4. CASE Refusals(r, c) # {}
  <2>1. PICK t \in {"none", "open", "aborted"} : conn' = [conn EXCEPT ![c] = [conn[c] EXCEPT !.tx = t]]
    BY <1>4 DEF Run, IInv, TypeOK
  <2> DEFINE x == [conn[c] EXCEPT !.tx = t]
  <2>2. UNCHANGED rows /\ \E a \in Refusals(r, c) : Threw(r, a)
    BY <1>4 DEF Run
  <2>3. Only(r) /\ pc'[r] = "rollback"
    BY <1>2, <2>2, OthersStay DEF Threw
  <2>4. /\ x.holder = r /\ x.tx = t /\ x.up = TRUE /\ x.del = {} /\ x.ins = {}
        /\ x.setting = conn[c].setting
    BY <1>0, <1>1, <1>3 DEF Connections
  <2>5. x \in Connections
    BY ConnTypes DEF IInv
  <2>6. conn' = [conn EXCEPT ![c] = x]
    BY <2>1
  <2> HIDE DEF x
  <2>7. LeavesIt(r, c, x)
    BY <1>0, <2>2, <2>4, <2>6, Clean
  <2>8. AsNewOrHeld(r, x)
    BY <1>1, <1>3, <2>3, <2>4 DEF AsNewOrHeld, Holding
  <2> QED BY <2>3, <2>5, <2>7, <2>8, WithConnection
<1>5. CASE Refusals(r, c) = {} /\ pinned
  <2> DEFINE x == [conn[c] EXCEPT !.del = Removed(r, c), !.ins = Added(r, c)]
  <2>1. conn' = [conn EXCEPT ![c] = x] /\ UNCHANGED rows /\ pc' = [pc EXCEPT ![r] = EndOf(r)]
    BY <1>5 DEF Run, IInv, TypeOK
  <2>2. Only(r) /\ pc'[r] = EndOf(r)
    BY <1>2, <2>1, OthersStay
  <2>3. Removed(r, c) \subseteq rows /\ Removed(r, c) \subseteq TenantRows /\ Added(r, c) \subseteq TenantRows
    BY <1>0, Effects
  <2>4. x \in Connections
    BY <2>3, ConnTypes DEF IInv
  <2>5. /\ x.holder = r /\ x.tx = conn[c].tx /\ x.up = TRUE /\ x.del = Removed(r, c) /\ x.ins = Added(r, c)
        /\ x.setting = ws[r]
    BY <1>0, <1>1, <1>3, <1>5 DEF Connections
  <2>6. EndOf(r) \in {"commit", "rollback"}
    BY DEF EndOf
  <2>7. \A d \in Conns \ {c} : conn[d].del \subseteq rows' /\ Removed(r, c) \cap conn[d].del = {}
    BY <2>1, DelOfPooled DEF Run, Waits
  <2> HIDE DEF x
  <2>8. LeavesIt(r, c, x)
    BY <1>0, <2>1, <2>5, <2>7 DEF LeavesIt
  <2>9. AsNewOrHeld(r, x)
    BY <1>0, <1>1, <1>2, <1>5, <2>1, <2>2, <2>3, <2>5, <2>6, Writes DEF AsNewOrHeld, Holding
  <2> QED BY <2>2, <2>4, <2>8, <2>9, WithConnection
<1>6. CASE Refusals(r, c) = {} /\ ~pinned
  <2>1. conn' = [conn EXCEPT ![c] = Idle] /\ Advance(r)
    BY <1>6 DEF Run
  <2>2. Only(r)
    BY <1>0, <1>2, <2>1, AdvanceGoes, OthersStay DEF Goes
  <2>3. \A d \in Conns \ {c} : conn[d].del \subseteq rows'
    BY <1>6, DelOfPooled
  <2> QED BY <1>0, <2>1, <2>2, <2>3, GivenBack
<1> QED BY <1>4, <1>5, <1>6

LEMMA PoolOfCommit ==
    ASSUME IInv, NEW r \in Requests, NEW c \in Conns, Commit(r, c)
    PROVE  Pool'
<1>1. /\ pc[r] = "commit" /\ Holds(r, c) /\ conn' = [conn EXCEPT ![c] = Idle]
      /\ UNCHANGED <<ws, kind, pinned>>
      /\ rows' = (rows \ conn[c].del) \cup conn[c].ins
  BY DEF Commit, Usable, modeVars
<1>2. Advance(r) \/ EndedAs(r, "unknown")
  BY DEF Commit
<1>3. Only(r)
  BY <1>1, <1>2, AdvanceGoes, OthersStay DEF Goes, EndedAs
<1>4. \A d \in Conns \ {c} : conn[d].del \subseteq rows'
  BY <1>1, DelOfPooled DEF IInv, Locked
<1> QED BY <1>1, <1>3, <1>4, GivenBack

LEMMA PoolOfRollback ==
    ASSUME IInv, NEW r \in Requests, NEW c \in Conns, Rollback(r, c)
    PROVE  Pool'
<1>1. /\ pc[r] = "rollback" /\ Holds(r, c) /\ conn' = [conn EXCEPT ![c] = Idle]
      /\ UNCHANGED <<ws, kind, pinned, rows>>
  BY DEF Rollback, Released, modeVars
<1>2. Advance(r) \/ EndedAs(r, answer[r])
  BY DEF Rollback
<1>3. Only(r)
  BY <1>1, <1>2, AdvanceGoes, OthersStay DEF Goes, EndedAs
<1>4. \A d \in Conns \ {c} : conn[d].del \subseteq rows'
  BY <1>1, DelOfPooled
<1> QED BY <1>1, <1>3, <1>4, GivenBack

LEMMA PoolOfLose ==
    ASSUME IInv, NEW c \in Conns, Lose(c)
    PROVE  Pool'
<1>1. conn[c].holder # None /\ UNCHANGED <<pc, ws, kind, pinned, rows>>
  BY DEF Lose, requestVars, modeVars
<1>2. PICK r \in Requests : Holds(r, c)
  BY <1>1 DEF IInv, TypeOK, Connections, Holds
<1>3. Held(c, r) /\ conn[c].holder = r /\ r # None /\ pc[r] \in Holding
  BY <1>2, HoldsOne
<1>4. conn' = [conn EXCEPT ![c] = Broken(r)]
  BY <1>3 DEF Lose, Broken
<1>5. /\ Broken(r).holder = r /\ Broken(r).tx = "none" /\ Broken(r).up = FALSE
      /\ Broken(r).del = {} /\ Broken(r).ins = {} /\ Broken(r).setting = None
  BY DEF Broken, Idle
<1>6. Broken(r) \in Connections
  BY IdleType DEF Broken, Idle, Connections
<1>7. Only(r)
  BY <1>1 DEF Only
<1>8. LeavesIt(r, c, Broken(r))
  BY <1>1, <1>2, <1>4, <1>5, Clean
<1>9. AsNewOrHeld(r, Broken(r))
  BY <1>1, <1>3, <1>5 DEF AsNewOrHeld
<1> QED BY <1>6, <1>7, <1>8, <1>9, WithConnection

LEMMA PoolKept == IInv /\ [Next]_vars => Pool'
<1> SUFFICES ASSUME IInv, [Next]_vars PROVE Pool'
  OBVIOUS
<1> USE DEF modeVars, requestVars, dbVars, secretVars, fetchVars
<1>1. ASSUME UNCHANGED <<pc, ws, kind, pinned, rows, conn>>
      PROVE  Pool'
  <2>1. Locked'
    BY <1>1 DEF IInv, Locked
  <2>2. ASSUME NEW d \in Conns PROVE Pooled(d)'
    <3>1. CASE conn[d] = Idle
      BY <1>1, <3>1 DEF Pooled, Idle
    <3>2. ASSUME NEW q \in Requests, Held(d, q)
          PROVE  Pooled(d)'
      <4>1. Held(d, q)'
        BY <1>1, <3>2 DEF Held, Broken, Idle, Row
      <4> QED BY <4>1 DEF Pooled
    <3> QED BY <3>1, <3>2 DEF IInv, Pooled
  <2> QED BY <2>1, <2>2 DEF Pool
<1>2. ASSUME NEW r \in Requests, NEW k \in Asks[r], Arrive(r, k)
      PROVE  Pool'
  <2>1. pc[r] \notin Holding
    BY <1>2 DEF Arrive, Holding
  <2>2. \A q \in Requests \ {r} : pc'[q] = pc[q] /\ ws'[q] = ws[q] /\ kind'[q] = kind[q]
    BY <1>2 DEF Arrive, IInv, TypeOK
  <2>3. UNCHANGED <<pinned, conn, rows>>
    BY <1>2 DEF Arrive
  <2> QED BY <2>1, <2>2, <2>3, WithoutConnection
<1>3. ASSUME NEW r \in Requests, Resolve(r) \/ Credential(r) \/ ConnectFails(r)
      PROVE  Pool'
  <2>1. pc[r] \notin Holding
    BY <1>3 DEF Resolve, Credential, Lookup, ReadSecret, Store, ConnectFails, Holding
  <2>2. \E h : pc' = [pc EXCEPT ![r] = h]
    BY <1>3 DEF Resolve, Credential, Lookup, ReadSecret, Store, ConnectFails, EndedAs
  <2>3. UNCHANGED <<pinned, conn, rows, ws, kind>>
    BY <1>3 DEF Resolve, Credential, Lookup, ReadSecret, Store, ConnectFails
  <2> QED BY <2>1, <2>2, <2>3, OthersStay, WithoutConnection DEF Only
<1>4. CASE Restart
  <2>1. \A c \in Conns : conn'[c] = Idle
    BY <1>4 DEF Restart
  <2> QED BY <2>1, IdleFields DEF Pool, Locked, Pooled, Idle
<1>5. CASE Sweep \/ Tick \/ UNCHANGED vars \/ \E w \in Workspaces : Unlist(w) \/ Rotate(w)
  BY <1>1, <1>5 DEF Sweep, Tick, Unlist, Rotate, vars
<1> QED BY <1>2, <1>3, <1>4, <1>5, PoolOfConnect, PoolOfThrows, PoolOfBegin, PoolOfPin, PoolOfRun,
           PoolOfCommit, PoolOfRollback, PoolOfLose DEF Next, Statements

-----------------------------------------------------------------------------
(* Requests, taps and credentials.                                          *)

\* What Proper asks of a request that has arrived, wherever it is.
LEMMA Arrived ==
    ASSUME IInv, NEW r \in Requests, pc[r] # "none"
    PROVE  /\ kind[r] \in DOMAIN Scripts /\ step[r] \in 1..Len(Scripts[kind[r]])
           /\ ws[r] \in Workspaces /\ touched[r] \subseteq {ws[r]}
           /\ ~pinned => ws[r] = Home /\ kind[r] # "intent"
           /\ answer[r] # "aborted"
           /\ r \in spent => pc[r] = "done"
BY DEF IInv, Proper

LEMMA Bystander ==
    ASSUME IInv, NEW q \in Requests, UNCHANGED pinned,
           pc'[q] = pc[q], kind'[q] = kind[q], ws'[q] = ws[q], step'[q] = step[q],
           answer'[q] = answer[q], touched'[q] = touched[q], q \in spent' => q \in spent
    PROVE  Proper(q)'
BY DEF IInv, Proper, Peeks, Stmt

\* What the step of a request that has arrived does to its variables.
Moved(r, h) ==
    /\ UNCHANGED <<kind, ws, pinned>>
    /\ pc' = [pc EXCEPT ![r] = h]
    /\ UNCHANGED answer \/ \E a \in Answers \ {"aborted"} : answer' = [answer EXCEPT ![r] = a]
    /\ UNCHANGED touched \/ \E T \in SUBSET {ws[r]} : touched' = [touched EXCEPT ![r] = T]
    /\ \/ UNCHANGED step
       \/ /\ step' = [step EXCEPT ![r] = step[r] + 1]
          /\ step[r] + 1 \in 1..Len(Scripts[kind[r]])
          /\ h # "commit"
    /\ spent' = spent \/ (spent' = spent \cup {r} /\ h = "done")
    /\ h \in {"begin", "pin", "commit"} => pinned
    /\ h = "commit" => ~Peeks(r)

LEMMA ProperOfMoved ==
    ASSUME IInv, NEW r \in Requests, pc[r] \notin {"none", "done"}, NEW h \in PCs \ {"none"}, Moved(r, h)
    PROVE  \A q \in Requests : Proper(q)'
<1> USE DEF Moved
<1>0. TypeOK
  BY DEF IInv
<1>1. /\ pc'[r] = h /\ kind'[r] = kind[r] /\ ws'[r] = ws[r]
      /\ touched'[r] \subseteq {ws[r]} /\ answer'[r] # "aborted"
  BY <1>0, Arrived DEF TypeOK
<1>2. step'[r] \in 1..Len(Scripts[kind[r]]) /\ (h = "commit" => step'[r] = step[r])
  BY <1>0, Arrived DEF TypeOK
<1>3. h = "commit" => ~Peeks(r)'
  BY <1>1, <1>2 DEF Peeks, Stmt
<1>4. r \in spent' => h = "done"
  BY Arrived
<1>5. Proper(r)'
  BY <1>1, <1>2, <1>3, <1>4, Arrived DEF Proper
<1>6. ASSUME NEW q \in Requests \ {r}
      PROVE  Proper(q)'
  <2>1. /\ pc'[q] = pc[q] /\ kind'[q] = kind[q] /\ ws'[q] = ws[q] /\ step'[q] = step[q]
        /\ answer'[q] = answer[q] /\ touched'[q] = touched[q]
    BY <1>0 DEF TypeOK
  <2>2. q \in spent' => q \in spent
    OBVIOUS
  <2> QED BY <2>1, <2>2, Bystander
<1> QED BY <1>5, <1>6

LEMMA AdvanceMoves ==
    ASSUME IInv, NEW r \in Requests, pc[r] # "none", Advance(r), UNCHANGED <<kind, ws, pinned>>,
           UNCHANGED touched \/ \E T \in SUBSET {ws[r]} : touched' = [touched EXCEPT ![r] = T],
           spent' = spent \/ (spent' = spent \cup {r} /\ step[r] = Len(Scripts[kind[r]]))
    PROVE  \E h \in {"connecting", "done"} : Moved(r, h)
<1>1. step[r] \in 1..Len(Scripts[kind[r]])
  BY Arrived
<1>2. CASE step[r] = Len(Scripts[kind[r]])
  <2>1. Goes(r, "done", "ok")
    BY <1>1, <1>2 DEF Advance, EndedAs, Goes
  <2>2. "ok" \in Answers \ {"aborted"}
    BY DEF Answers
  <2> QED BY <2>1, <2>2 DEF Goes, Moved
<1>3. CASE step[r] # Len(Scripts[kind[r]])
  <2>1. \/ Goes(r, "done", "ok")
        \/ /\ pc' = [pc EXCEPT ![r] = "connecting"]
           /\ step' = [step EXCEPT ![r] = step[r] + 1]
           /\ step[r] + 1 \in 1..Len(Scripts[kind[r]])
           /\ UNCHANGED answer
    BY AdvanceGoes
  <2>2. "ok" \in Answers \ {"aborted"}
    BY DEF Answers
  <2> QED BY <1>3, <2>1, <2>2 DEF Goes, Moved
<1> QED BY <1>2, <1>3

LEMMA ProperOfArrive ==
    ASSUME IInv, NEW r \in Requests, NEW k \in Asks[r], Arrive(r, k)
    PROVE  \A q \in Requests : Proper(q)'
<1>0. TypeOK /\ Proper(r) /\ pc[r] = "none"
  BY DEF IInv, Arrive
<1>1. k \in DOMAIN Scripts /\ Len(Scripts[k]) \in Nat /\ Len(Scripts[k]) > 0
  BY AsksAssumption, Steps
<1>2. PICK w \in Tenants : ws' = [ws EXCEPT ![r] = w]
  BY DEF Arrive
<1>3. w \in Workspaces /\ (~pinned => w = Home)
  BY DEF Tenants
<1>4. /\ kind'[r] = k /\ ws'[r] = w /\ step'[r] = 1 /\ touched'[r] = {} /\ answer'[r] # "aborted"
      /\ r \notin spent' /\ UNCHANGED pinned
      /\ pc'[r] \in {"resolve", "connecting"} /\ (k = "intent" => pinned)
  BY <1>0, <1>2 DEF Arrive, Proper, TypeOK, dbVars, modeVars
<1>5. Proper(r)'
  BY <1>1, <1>3, <1>4 DEF Proper
<1>6. ASSUME NEW q \in Requests \ {r}
      PROVE  Proper(q)'
  <2>1. /\ pc'[q] = pc[q] /\ kind'[q] = kind[q] /\ ws'[q] = ws[q] /\ step'[q] = step[q]
        /\ answer'[q] = answer[q] /\ touched'[q] = touched[q] /\ UNCHANGED <<spent, pinned>>
    BY <1>0 DEF Arrive, TypeOK, dbVars, modeVars
  <2> QED BY <2>1, Bystander
<1> QED BY <1>5, <1>6

LEMMA ProperKept == IInv /\ [Next]_vars => \A q \in Requests : Proper(q)'
<1> SUFFICES ASSUME IInv, [Next]_vars PROVE \A q \in Requests : Proper(q)'
  OBVIOUS
<1> USE DEF modeVars, requestVars, dbVars, secretVars, fetchVars
<1>a. {"resolve", "credential", "reading", "read", "connecting",
       "begin", "pin", "run", "commit", "rollback", "done"} \subseteq PCs \ {"none"}
  BY DEF PCs
<1>b. {"none", "ok", "refused", "denied", "conflict", "policy",
       "noConnection", "lost", "unknown", "restarted"} \subseteq Answers \ {"aborted"}
  BY DEF Answers
<1>1. ASSUME UNCHANGED <<requestVars, pinned, spent>>
      PROVE  \A q \in Requests : Proper(q)'
  BY <1>1, Bystander
<1>2. ASSUME NEW r \in Requests, Resolve(r) \/ Credential(r) \/ Connect(r) \/ ConnectFails(r)
      PROVE  \A q \in Requests : Proper(q)'
  <2>1. pc[r] \notin {"none", "done"} /\ UNCHANGED <<kind, ws, step, touched, spent, pinned>>
    BY <1>2 DEF Resolve, Credential, Lookup, ReadSecret, Store, Connect, ConnectFails
  <2>2. PICK h \in {"credential", "reading", "read", "connecting", "begin", "run", "done"} :
           /\ pc' = [pc EXCEPT ![r] = h]
           /\ h = "begin" => pinned
           /\ UNCHANGED answer \/ \E a \in {"refused", "noConnection"} : answer' = [answer EXCEPT ![r] = a]
    <3>1. CASE Resolve(r)
      BY <3>1 DEF Resolve, EndedAs
    <3>2. CASE Credential(r)
      BY <3>2 DEF Credential, Lookup, ReadSecret, Store
    <3>3. CASE Connect(r)
      BY <3>3 DEF Connect
    <3>4. CASE ConnectFails(r)
      BY <3>4 DEF ConnectFails, EndedAs
    <3> QED BY <1>2, <3>1, <3>2, <3>3, <3>4
  <2>3. UNCHANGED answer \/ \E a \in Answers \ {"aborted"} : answer' = [answer EXCEPT ![r] = a]
    BY <1>b, <2>2
  <2>4. Moved(r, h)
    BY <2>1, <2>2, <2>3 DEF Moved
  <2>5. h \in PCs \ {"none"}
    BY <1>a, <2>2
  <2> QED BY <2>1, <2>4, <2>5, ProperOfMoved
<1>3. ASSUME NEW r \in Requests, NEW c \in Conns, Throws(r, c) \/ Begin(r, c) \/ Pin(r, c)
      PROVE  \A q \in Requests : Proper(q)'
  <2>1. pc[r] \notin {"none", "done"} /\ UNCHANGED <<kind, ws, step, touched, spent, pinned>>
    BY <1>3 DEF Throws, Begin, Pin
  <2>2. PICK h \in {"rollback", "pin", "run"} :
           /\ pc' = [pc EXCEPT ![r] = h]
           /\ h = "pin" => pinned
           /\ UNCHANGED answer \/ \E a \in Answers \ {"aborted"} : answer' = [answer EXCEPT ![r] = a]
    <3>1. CASE Throws(r, c)
      <4>1. Held(c, r)
        BY <3>1, HoldsOne DEF Throws
      <4>2. Threw(r, "lost")
        BY <3>1, <4>1 DEF Throws, Held
      <4> QED BY <1>b, <4>2 DEF Threw
    <3>2. CASE Begin(r, c)
      BY <3>2 DEF Begin, IInv, Proper
    <3>3. CASE Pin(r, c)
      BY <3>3 DEF Pin
    <3> QED BY <1>3, <3>1, <3>2, <3>3
  <2>3. Moved(r, h)
    BY <2>1, <2>2 DEF Moved
  <2>4. h \in PCs \ {"none"}
    BY <1>a, <2>2
  <2> QED BY <2>1, <2>3, <2>4, ProperOfMoved
<1>4. ASSUME NEW r \in Requests, NEW c \in Conns, Run(r, c)
      PROVE  \A q \in Requests : Proper(q)'
  <2>1. pc[r] = "run" /\ Usable(r, c) /\ UNCHANGED <<kind, ws, pinned, spent>>
    BY <1>4 DEF Run
  <2>2. CASE Refusals(r, c) # {}
    <3>1. Refusals(r, c) \subseteq {"denied", "policy", "conflict"}
      BY DEF Refusals
    <3>2. PICK a \in {"denied", "policy", "conflict"} : Threw(r, a)
      BY <1>4, <2>2, <3>1 DEF Run
    <3>3. Moved(r, "rollback")
      BY <1>4, <1>b, <2>1, <2>2, <3>2 DEF Moved, Run, Threw
    <3> QED BY <1>a, <2>1, <3>3, ProperOfMoved
  <2>3. CASE Refusals(r, c) = {}
    <3>1. \E T \in SUBSET {ws[r]} : touched' = [touched EXCEPT ![r] = T]
      <4> DEFINE T == touched[r] \cup {x.ws : x \in Matching(r, c) \cup Added(r, c)}
      <4>1. T \subseteq {ws[r]}
        BY <2>1, Effects, Arrived
      <4>2. touched' = [touched EXCEPT ![r] = T]
        BY <1>4, <2>3 DEF Run, IInv, TypeOK
      <4> QED BY <4>1, <4>2
    <3>2. CASE pinned
      <4>1. Moved(r, EndOf(r))
        BY <1>4, <2>1, <2>3, <3>1, <3>2 DEF Run, EndOf, Moved
      <4>2. EndOf(r) \in PCs \ {"none"}
        BY <1>a DEF EndOf
      <4> QED BY <2>1, <4>1, <4>2, ProperOfMoved
    <3>3. CASE ~pinned
      <4>1. Advance(r)
        BY <1>4, <2>3, <3>3 DEF Run
      <4>2. \E h \in {"connecting", "done"} : Moved(r, h)
        BY <2>1, <3>1, <4>1, AdvanceMoves
      <4> QED BY <1>a, <2>1, <4>2, ProperOfMoved
    <3> QED BY <3>2, <3>3
  <2> QED BY <2>2, <2>3
<1>5. ASSUME NEW r \in Requests, NEW c \in Conns, Commit(r, c)
      PROVE  \A q \in Requests : Proper(q)'
  <2>1. pc[r] = "commit" /\ UNCHANGED <<kind, ws, pinned, touched>>
    BY <1>5 DEF Commit
  <2>2. spent' = spent \/ (spent' = spent \cup {r} /\ step[r] = Len(Scripts[kind[r]]))
    <3>1. kind[r] = "intent" => Len(Scripts[kind[r]]) = 2
      BY <2>1, Arrived, ScriptOf
    <3> QED BY <1>5, <3>1 DEF Commit
  <2>3. CASE Advance(r)
    <3>1. \E h \in {"connecting", "done"} : Moved(r, h)
      BY <2>1, <2>2, <2>3, AdvanceMoves
    <3> QED BY <1>a, <2>1, <3>1, ProperOfMoved
  <2>4. CASE EndedAs(r, "unknown") /\ UNCHANGED step
    <3>1. Moved(r, "done")
      BY <1>b, <2>1, <2>2, <2>4 DEF Moved, EndedAs
    <3> QED BY <1>a, <2>1, <3>1, ProperOfMoved
  <2> QED BY <1>5, <2>3, <2>4 DEF Commit
<1>6. ASSUME NEW r \in Requests, NEW c \in Conns, Rollback(r, c)
      PROVE  \A q \in Requests : Proper(q)'
  <2>1. pc[r] = "rollback" /\ UNCHANGED <<kind, ws, pinned, touched, spent>>
    BY <1>6 DEF Rollback
  <2>2. CASE Advance(r)
    <3>1. \E h \in {"connecting", "done"} : Moved(r, h)
      BY <2>1, <2>2, AdvanceMoves
    <3> QED BY <1>a, <2>1, <3>1, ProperOfMoved
  <2>3. CASE EndedAs(r, answer[r]) /\ UNCHANGED step
    <3>1. answer[r] \in Answers \ {"aborted"}
      BY <2>1, Arrived DEF IInv, TypeOK
    <3>2. Moved(r, "done")
      BY <2>1, <2>3, <3>1 DEF Moved, EndedAs
    <3> QED BY <1>a, <2>1, <3>2, ProperOfMoved
  <2> QED BY <1>6, <2>2, <2>3 DEF Rollback
<1>7. CASE Restart
  <2>1. UNCHANGED <<kind, ws, step, touched, spent, pinned>>
    BY <1>7 DEF Restart
  <2>2. ASSUME NEW q \in Requests
        PROVE  Proper(q)'
    <3>1. CASE q \in Active
      <4>1. pc[q] # "none" /\ pc'[q] = "done" /\ answer'[q] = "restarted"
        BY <1>7, <3>1 DEF Restart, Active
      <4> QED BY <2>1, <4>1, Arrived DEF Proper
    <3>2. CASE q \notin Active
      <4>1. pc'[q] = pc[q] /\ answer'[q] = answer[q]
        BY <1>7, <3>2 DEF Restart
      <4> QED BY <2>1, <4>1, Bystander
    <3> QED BY <3>1, <3>2
  <2> QED BY <2>2
<1>8. CASE Sweep \/ Tick \/ UNCHANGED vars \/ (\E w \in Workspaces : Unlist(w) \/ Rotate(w))
           \/ \E c \in Conns : Lose(c)
  BY <1>1, <1>8 DEF Sweep, Tick, Unlist, Rotate, Lose, vars
<1> QED BY <1>2, <1>3, <1>4, <1>5, <1>6, <1>7, <1>8, ProperOfArrive DEF Next, Statements

\* A commit takes a tap away with the intent it is counted for.
LEMMA TapsKept == IInv /\ [Next]_vars => \A w \in Workspaces : Tapped(w)'
<1> SUFFICES ASSUME IInv, [Next]_vars, NEW w \in Workspaces PROVE Tapped(w)'
  OBVIOUS
<1> USE DEF modeVars, requestVars, dbVars, secretVars, fetchVars
<1>0. Tapped(w) /\ TypeOK
  BY DEF IInv
<1> DEFINE Users == {r \in spent : ws[r] = w}
<1>1. ASSUME UNCHANGED spent, \A r \in spent : ws'[r] = ws[r],
             Row("grants", w) \in rows' <=> Row("grants", w) \in rows
      PROVE  Tapped(w)'
  <2>1. {r \in spent' : ws'[r] = w} = Users
    BY <1>1
  <2> QED BY <1>0, <1>1, <2>1 DEF Tapped, Row
<1>2. ASSUME NEW r \in Requests, NEW k \in Asks[r], Arrive(r, k)
      PROVE  Tapped(w)'
  <2>1. r \notin spent
    BY <1>2 DEF Arrive, IInv, Proper
  <2>2. \A q \in spent : ws'[q] = ws[q]
    BY <1>0, <1>2, <2>1 DEF Arrive, TypeOK
  <2> QED BY <1>1, <1>2, <2>2 DEF Arrive
<1>3. ASSUME NEW r \in Requests, NEW c \in Conns, Run(r, c)
      PROVE  Tapped(w)'
  <2>1. pc[r] = "run" /\ Usable(r, c) /\ UNCHANGED <<spent, ws>>
    BY <1>3 DEF Run
  <2>2. CASE UNCHANGED rows
    BY <1>1, <2>1, <2>2
  <2>3. CASE ~pinned /\ Refusals(r, c) = {} /\ rows' = (rows \ Removed(r, c)) \cup Added(r, c)
    <3>1. kind[r] # "intent"
      BY <2>1, <2>3, Arrived
    <3>2. \A x \in Removed(r, c) \cup Added(r, c) : x.table # "grants"
      BY <2>1, <2>3, <3>1, Writes
    <3>3. Row("grants", w) \notin Removed(r, c) \cup Added(r, c)
      BY <3>2 DEF Row
    <3> QED BY <1>1, <2>1, <2>3, <3>3
  <2> QED BY <1>3, <2>2, <2>3 DEF Run
<1>4. ASSUME NEW r \in Requests, NEW c \in Conns, Commit(r, c)
      PROVE  Tapped(w)'
  <2>1. /\ pc[r] = "commit" /\ Holds(r, c) /\ conn[c].up /\ UNCHANGED ws
        /\ rows' = (rows \ conn[c].del) \cup conn[c].ins
    BY <1>4 DEF Commit, Usable
  <2>2. Held(c, r) /\ ~Peeks(r) /\ Proper(r)
    BY <2>1, HoldsOne DEF Proper
  <2>3. CASE kind[r] = "intent"
    <3>1. conn[c].del = {Row("grants", ws[r])} /\ conn[c].ins = {} /\ conn[c].del \subseteq rows
      BY <2>1, <2>2, <2>3 DEF Held
    <3>2. step[r] = 2
      BY <2>1, <2>2, <2>3, StmtOf DEF Peeks, Peek, Use
    <3>3. spent' = spent \cup {r}
      BY <1>4, <2>3, <3>2 DEF Commit
    <3>4. CASE ws[r] = w
      <4>1. Users = {}
        BY <1>0, <3>1, <3>4 DEF Tapped
      <4>2. {q \in spent' : ws'[q] = w} = {r}
        BY <2>1, <3>3, <3>4, <4>1
      <4>3. Row("grants", w) \notin rows'
        BY <2>1, <3>1, <3>4
      <4> QED BY <4>2, <4>3 DEF Tapped, Row
    <3>5. CASE ws[r] # w
      <4>1. {q \in spent' : ws'[q] = w} = Users
        BY <2>1, <3>3, <3>5
      <4>2. Row("grants", w) # Row("grants", ws[r])
        BY <3>5 DEF Row
      <4>3. Row("grants", w) \in rows' <=> Row("grants", w) \in rows
        BY <2>1, <3>1, <4>2
      <4> QED BY <1>0, <4>1, <4>3 DEF Tapped, Row
    <3> QED BY <3>4, <3>5
  <2>4. CASE kind[r] # "intent"
    <3>1. \A x \in conn[c].del \cup conn[c].ins : x.table # "grants"
      BY <2>1, <2>2, <2>4 DEF Held
    <3>2. Row("grants", w) \notin conn[c].del \cup conn[c].ins
      BY <3>1 DEF Row
    <3>3. UNCHANGED spent
      BY <1>4, <2>4 DEF Commit
    <3> QED BY <1>1, <2>1, <3>2, <3>3
  <2> QED BY <2>3, <2>4
<1>5. ASSUME UNCHANGED <<spent, ws, rows>>
      PROVE  Tapped(w)'
  BY <1>1, <1>5
<1> QED BY <1>2, <1>3, <1>4, <1>5
        DEF Next, Statements, Resolve, Credential, Lookup, ReadSecret, Store, Connect, ConnectFails,
            Throws, Begin, Pin, Rollback, Lose, Sweep, Restart, Tick, Unlist, Rotate, vars

LEMMA LimitType == \A v : Limit(v) \in Nat /\ Limit(v) > Delay
BY DEF Limit

LEMMA RecentKept == IInv /\ [Next]_vars => \A w \in Workspaces : Recent(w)'
<1> SUFFICES ASSUME IInv, [Next]_vars, NEW w \in Workspaces PROVE Recent(w)'
  OBVIOUS
<1> USE DEF modeVars, requestVars, dbVars, secretVars, fetchVars
<1>0. Recent(w) /\ TypeOK
  BY DEF IInv
<1>t. /\ now \in Nat /\ cache \in [Workspaces -> {None} \cup [version : 0..MaxVersion, expires : Nat]]
      /\ secret \in [Workspaces -> 0..MaxVersion] /\ lastSeen \in [Workspaces -> [0..MaxVersion -> Nat]]
  BY <1>0 DEF TypeOK
<1>1. ASSUME cache'[w] \in {None, cache[w]}, now' \in Nat, now <= now', UNCHANGED secretVars
      PROVE  Recent(w)'
  <2>1. CASE cache'[w] = None
    BY <2>1 DEF Recent
  <2>2. CASE cache'[w] = cache[w] /\ cache[w] # None
    <3>1. cache[w].version \in 0..MaxVersion /\ cache[w].expires \in Nat
      BY <1>t, <2>2
    <3>2. Limit(cache[w].version) \in Nat
      BY LimitType
    <3>3. /\ cache[w].expires <= now + Limit(cache[w].version)
          /\ \/ cache[w].version = secret[w]
             \/ cache[w].expires <= lastSeen[w][cache[w].version] + Limit(cache[w].version)
      BY <1>0, <2>2 DEF Recent
    <3>4. cache[w].expires <= now' + Limit(cache[w].version)
      BY <1>t, <1>1, <3>1, <3>2, <3>3
    <3> QED BY <1>1, <2>2, <3>3, <3>4 DEF Recent, Limit
  <2> QED BY <1>1, <2>1, <2>2
<1>2. ASSUME NEW r \in Requests, Store(r)
      PROVE  Recent(w)'
  <2>1. UNCHANGED <<now, secretVars>> /\ pc[r] = "read"
    BY <1>2 DEF Store
  <2>2. CASE ws[r] # w
    <3>1. cache'[w] = cache[w]
      BY <1>t, <1>2, <2>2 DEF Store
    <3> QED BY <1>1, <1>t, <2>1, <3>1
  <2>3. CASE ws[r] = w
    <3>1. cache'[w] = [version |-> got[r], expires |-> asked[r] + Limit(got[r])]
      BY <1>t, <1>2, <2>3 DEF Store, Expiry
    <3>2. /\ asked[r] <= now /\ got[r] \in 0..MaxVersion /\ asked[r] \in Nat
          /\ got[r] = secret[w] \/ asked[r] <= lastSeen[w][got[r]]
      BY <1>0, <2>1, <2>3 DEF IInv, Reading, TypeOK
    <3>3. lastSeen[w][got[r]] \in Nat /\ Limit(got[r]) \in Nat
      BY <1>t, <3>2, LimitType
    <3>4. cache'[w].version = got[r] /\ cache'[w].expires = asked[r] + Limit(got[r])
      BY <3>1
    <3>5. asked[r] + Limit(got[r]) <= now + Limit(got[r])
      BY <1>t, <3>2, <3>3
    <3>6. got[r] = secret[w] \/ asked[r] + Limit(got[r]) <= lastSeen[w][got[r]] + Limit(got[r])
      BY <3>2, <3>3
    <3> QED BY <2>1, <3>4, <3>5, <3>6 DEF Recent, Limit
  <2> QED BY <2>2, <2>3
<1>3. ASSUME NEW v \in Workspaces, Rotate(v)
      PROVE  Recent(w)'
  <2>1. UNCHANGED <<now, cache>> /\ lastSeen' = [lastSeen EXCEPT ![v][secret[v]] = now]
    BY <1>3 DEF Rotate
  <2>2. CASE v # w
    <3>1. secret'[w] = secret[w] /\ lastSeen'[w] = lastSeen[w]
      BY <1>t, <1>3, <2>1, <2>2 DEF Rotate
    <3> QED BY <1>0, <2>1, <3>1 DEF Recent, Limit
  <2>3. CASE v = w /\ cache[w] # None
    <3>1. cache[w].version \in 0..MaxVersion /\ cache[w].expires \in Nat
      BY <1>t, <2>3
    <3>2. lastSeen'[w] = [lastSeen[w] EXCEPT ![secret[w]] = now]
      BY <1>t, <2>1, <2>3
    <3>3. CASE cache[w].version = secret[w]
      <4>1. lastSeen'[w][cache[w].version] = now
        BY <1>t, <3>2, <3>3
      <4> QED BY <1>0, <2>1, <2>3, <4>1 DEF Recent, Limit
    <3>4. CASE cache[w].version # secret[w]
      <4>1. lastSeen'[w][cache[w].version] = lastSeen[w][cache[w].version]
        BY <1>t, <3>1, <3>2, <3>4
      <4> QED BY <1>0, <2>1, <2>3, <3>4, <4>1 DEF Recent, Limit
    <3> QED BY <3>3, <3>4
  <2>4. CASE cache[w] = None
    BY <2>1, <2>4 DEF Recent
  <2> QED BY <2>2, <2>3, <2>4
<1>4. CASE Sweep
  <2>1. cache'[w] \in {None, cache[w]} /\ UNCHANGED <<now, secretVars>>
    BY <1>4 DEF Sweep
  <2> QED BY <1>1, <1>t, <2>1
<1>5. CASE Restart
  BY <1>5 DEF Restart, Recent
<1>6. CASE Tick
  <2>1. now' = now + 1 /\ UNCHANGED <<cache, secretVars>>
    BY <1>6 DEF Tick
  <2> QED BY <1>1, <1>t, <2>1
<1>7. ASSUME UNCHANGED <<now, secretVars, cache>>
      PROVE  Recent(w)'
  BY <1>1, <1>t, <1>7
<1>8. ASSUME NEW r \in Requests,
             \/ \E k \in Asks[r] : Arrive(r, k)
             \/ Resolve(r) \/ Lookup(r) \/ ReadSecret(r) \/ Connect(r) \/ ConnectFails(r)
             \/ \E c \in Conns : Throws(r, c) \/ Begin(r, c) \/ Pin(r, c) \/ Run(r, c)
                                 \/ Commit(r, c) \/ Rollback(r, c)
      PROVE  Recent(w)'
  <2>1. UNCHANGED <<now, secretVars, cache>>
    BY <1>8 DEF Arrive, Resolve, Lookup, ReadSecret, Connect, ConnectFails,
                Throws, Begin, Pin, Run, Commit, Rollback
  <2> QED BY <1>7, <2>1
<1>9. CASE UNCHANGED vars \/ (\E v \in Workspaces : Unlist(v)) \/ \E c \in Conns : Lose(c)
  BY <1>7, <1>9 DEF Unlist, Lose, vars
<1> QED BY <1>2, <1>3, <1>4, <1>5, <1>6, <1>8, <1>9 DEF Next, Statements, Credential

LEMMA ReadingKept == IInv /\ [Next]_vars => \A q \in Requests : Reading(q)'
<1> SUFFICES ASSUME IInv, [Next]_vars, NEW q \in Requests PROVE Reading(q)'
  OBVIOUS
<1> USE DEF modeVars, requestVars, dbVars, secretVars, fetchVars
<1>0. Reading(q) /\ TypeOK
  BY DEF IInv
<1>t. /\ now \in Nat /\ asked \in [Requests -> Nat] /\ pc \in [Requests -> PCs]
      /\ secret \in [Workspaces -> 0..MaxVersion] /\ lastSeen \in [Workspaces -> [0..MaxVersion -> Nat]]
      /\ got \in [Requests -> (0..MaxVersion) \cup {None}]
  BY <1>0 DEF TypeOK
<1>1. ASSUME pc'[q] \notin {"reading", "read"}
      PROVE  Reading(q)'
  BY <1>1 DEF Reading
<1>2. ASSUME pc'[q] \in {"reading", "read"} => pc'[q] = pc[q] /\ ws'[q] = ws[q],
             UNCHANGED <<now, secretVars>>, asked'[q] = asked[q], got'[q] = got[q]
      PROVE  Reading(q)'
  BY <1>0, <1>2 DEF Reading
<1>3. ASSUME NEW r \in Requests, Credential(r)
      PROVE  Reading(q)'
  <2>1. UNCHANGED <<now, ws, secretVars>>
    BY <1>3 DEF Credential, Lookup, ReadSecret, Store
  <2>2. CASE r # q
    <3>1. pc'[q] = pc[q] /\ asked'[q] = asked[q] /\ got'[q] = got[q]
      BY <1>t, <1>3, <2>2 DEF Credential, Lookup, ReadSecret, Store
    <3> QED BY <1>2, <2>1, <3>1
  <2>3. CASE r = q /\ Lookup(q)
    <3>1. CASE Hit(ws[q])
      BY <1>1, <1>t, <2>3, <3>1 DEF Lookup
    <3>2. CASE ~Hit(ws[q])
      <4>1. asked'[q] = now /\ pc'[q] = "reading"
        BY <1>t, <2>3, <3>2 DEF Lookup
      <4> QED BY <1>t, <2>1, <4>1 DEF Reading
    <3> QED BY <3>1, <3>2
  <2>4. CASE r = q /\ ReadSecret(q)
    <3>1. CASE pc' = [pc EXCEPT ![q] = "connecting"]
      BY <1>1, <1>t, <3>1
    <3>2. CASE got' = [got EXCEPT ![q] = secret[ws[q]]] /\ pc' = [pc EXCEPT ![q] = "read"]
      <4>1. pc[q] = "reading" /\ UNCHANGED asked
        BY <2>4 DEF ReadSecret
      <4>2. ws[q] \in Workspaces
        BY <4>1, Arrived
      <4>3. got'[q] = secret[ws[q]] /\ pc'[q] = "read" /\ secret[ws[q]] \in 0..MaxVersion
        BY <1>t, <3>2, <4>2
      <4> QED BY <1>0, <2>1, <4>1, <4>3 DEF Reading
    <3> QED BY <2>4, <3>1, <3>2 DEF ReadSecret
  <2>5. CASE r = q /\ Store(q)
    BY <1>1, <1>t, <2>5 DEF Store
  <2> QED BY <1>3, <2>2, <2>3, <2>4, <2>5 DEF Credential
<1>4. ASSUME NEW v \in Workspaces, Rotate(v)
      PROVE  Reading(q)'
  <2>1. UNCHANGED <<now, pc, ws, asked, got>> /\ lastSeen' = [lastSeen EXCEPT ![v][secret[v]] = now]
    BY <1>4 DEF Rotate
  <2>2. CASE pc[q] = "read"
    <3>1. /\ got[q] \in 0..MaxVersion /\ ws[q] \in Workspaces /\ asked[q] \in Nat /\ asked[q] <= now
          /\ got[q] = secret[ws[q]] \/ asked[q] <= lastSeen[ws[q]][got[q]]
      BY <1>0, <1>t, <2>2, Arrived DEF Reading
    <3>2. CASE v # ws[q]
      <4>1. secret'[ws[q]] = secret[ws[q]] /\ lastSeen'[ws[q]] = lastSeen[ws[q]]
        BY <1>t, <1>4, <2>1, <3>1, <3>2 DEF Rotate
      <4> QED BY <1>0, <2>1, <2>2, <3>1, <4>1 DEF Reading
    <3>3. CASE v = ws[q]
      <4>1. lastSeen'[v] = [lastSeen[v] EXCEPT ![secret[v]] = now]
        BY <1>t, <2>1
      <4>2. asked[q] <= lastSeen'[v][got[q]]
        BY <1>t, <3>1, <3>3, <4>1
      <4> QED BY <1>0, <2>1, <2>2, <3>1, <3>3, <4>2 DEF Reading
    <3> QED BY <3>2, <3>3
  <2>3. CASE pc[q] # "read"
    BY <1>0, <2>1, <2>3 DEF Reading
  <2> QED BY <2>2, <2>3
<1>5. CASE Tick
  <2>1. now' = now + 1 /\ UNCHANGED <<pc, ws, asked, got, secretVars>>
    BY <1>5 DEF Tick
  <2>2. CASE pc[q] \in {"reading", "read"}
    <3>1. now < asked[q] + Delay
      BY <1>5, <2>2 DEF Tick
    <3> QED BY <1>0, <1>t, <2>1, <2>2, <3>1 DEF Reading
  <2>3. CASE pc[q] \notin {"reading", "read"}
    BY <1>1, <2>1, <2>3
  <2> QED BY <2>2, <2>3
<1>6. CASE Restart
  BY <1>1, <1>6 DEF Restart, Active
<1>7. ASSUME NEW r \in Requests, NEW k \in Asks[r], Arrive(r, k)
      PROVE  Reading(q)'
  <2>1. UNCHANGED <<now, secretVars, asked, got>>
    BY <1>7 DEF Arrive
  <2>2. pc'[q] \in {"reading", "read"} => pc'[q] = pc[q] /\ ws'[q] = ws[q]
    BY <1>0, <1>7 DEF Arrive, TypeOK
  <2> QED BY <1>2, <2>1, <2>2
<1>8. ASSUME NEW r \in Requests, UNCHANGED <<now, secretVars, asked, got, ws>>,
             \E h \in PCs \ {"reading", "read"} : pc' = [pc EXCEPT ![r] = h]
      PROVE  Reading(q)'
  <2>1. pc'[q] \in {"reading", "read"} => pc'[q] = pc[q]
    BY <1>t, <1>8
  <2> QED BY <1>2, <1>8, <2>1
<1>9. ASSUME NEW r \in Requests, Resolve(r) \/ Connect(r) \/ ConnectFails(r)
      PROVE  Reading(q)'
  <2>1. UNCHANGED <<now, secretVars, asked, got, ws>>
    BY <1>9 DEF Resolve, Connect, ConnectFails
  <2>2. \E h \in PCs \ {"reading", "read"} : pc' = [pc EXCEPT ![r] = h]
    BY <1>9 DEF Resolve, Connect, ConnectFails, EndedAs, PCs
  <2> QED BY <1>8, <2>1, <2>2
<1>10. ASSUME NEW r \in Requests, NEW c \in Conns,
              Throws(r, c) \/ Begin(r, c) \/ Pin(r, c) \/ Run(r, c) \/ Commit(r, c) \/ Rollback(r, c)
       PROVE  Reading(q)'
  <2>1. UNCHANGED <<now, secretVars, asked, got, ws>>
    BY <1>10 DEF Throws, Begin, Pin, Run, Commit, Rollback
  <2>2. \E h \in PCs \ {"reading", "read"} : pc' = [pc EXCEPT ![r] = h]
    <3>1. \A h \in {"rollback", "pin", "run", "commit", "connecting", "done"} : h \in PCs \ {"reading", "read"}
      BY DEF PCs
    <3>2. \E h \in {"rollback", "pin", "run", "commit", "connecting", "done"} : pc' = [pc EXCEPT ![r] = h]
      <4>1. CASE Throws(r, c) \/ Begin(r, c) \/ Pin(r, c)
        BY <4>1 DEF Throws, Threw, Begin, Pin
      <4>2. CASE Run(r, c)
        BY <4>2 DEF Run, Threw, EndOf, Advance, EndedAs
      <4>3. CASE Commit(r, c) \/ Rollback(r, c)
        BY <4>3 DEF Commit, Rollback, Advance, EndedAs
      <4> QED BY <1>10, <4>1, <4>2, <4>3
    <3> QED BY <3>1, <3>2
  <2> QED BY <1>8, <2>1, <2>2
<1>11. CASE Sweep \/ UNCHANGED vars \/ (\E w \in Workspaces : Unlist(w)) \/ \E c \in Conns : Lose(c)
  <2>1. UNCHANGED <<now, secretVars, asked, got, ws, pc>>
    BY <1>11 DEF Sweep, Unlist, Lose, vars
  <2> QED BY <1>2, <2>1
<1> QED BY <1>3, <1>4, <1>5, <1>6, <1>7, <1>9, <1>10, <1>11 DEF Next, Statements

LEMMA Inductive == IInv /\ [Next]_vars => IInv'
BY Types, PoolKept, ProperKept, TapsKept, RecentKept, ReadingKept DEF IInv, Pool

-----------------------------------------------------------------------------
(* The theorems.                                                            *)

\* The invariant of many tenants behind one service: what is on a connection
\* is its holder's alone.
THEOREM Invariance == Spec => []IInv
BY Initially, Inductive, PTL DEF Spec

\* Every variable has its type.
THEOREM TenantTypes == Spec => []TypeOK
<1>1. IInv => TypeOK
  BY DEF IInv
<1> QED BY <1>1, Invariance, PTL

\* Row level security and set_config (db/rls.js, _tenantQuery): a statement
\* reads, changes and adds rows of its request's workspace alone, whichever
\* pooled connection it runs on.
THEOREM OwnRows == Spec => []OwnRowsOnly
<1>1. IInv => OwnRowsOnly
  BY DEF IInv, Proper, OwnRowsOnly
<1> QED BY <1>1, Invariance, PTL

\* The rollback and the release of a failed statement: no request is given a
\* connection that is still inside another's failed transaction.
THEOREM FailuresLocal == Spec => []FailureStaysLocal
<1>1. IInv => FailureStaysLocal
  BY DEF IInv, Proper, FailureStaysLocal
<1> QED BY <1>1, Invariance, PTL

\* assertGrant's DELETE and the verifier's rolled back one: a tap is gone
\* exactly when one intent has committed its use.
THEOREM TapsOnce == Spec => []TapsAccounted
<1>1. IInv => TapsAccounted
  <2> SUFFICES ASSUME IInv, NEW w \in Workspaces
               PROVE  Cardinality({r \in spent : ws[r] = w}) = IF Row("grants", w) \in rows THEN 0 ELSE 1
    BY DEF TapsAccounted
  <2>1. Tapped(w)
    BY DEF IInv
  <2>2. CASE Row("grants", w) \in rows
    BY <2>1, <2>2, FS_EmptySet DEF Tapped
  <2>3. CASE Row("grants", w) \notin rows
    <3>1. PICK q \in Requests : {r \in spent : ws[r] = w} = {q}
      BY <2>1, <2>3 DEF Tapped
    <3>2. Cardinality({q}) = 1
      BY FS_Singleton
    <3> QED BY <2>3, <3>1, <3>2
  <2> QED BY <2>2, <2>3
<1> QED BY <1>1, Invariance, PTL

\* fetchTenantSecret's expiresAt: a credential, or the knowledge that there
\* is none, is used only while it is true or was so within its time to live.
THEOREM RotationEffective == Spec => RotationTakesEffect
<1>1. IInv /\ [Next]_vars =>
        \A r \in Requests : pc[r] \in {"credential", "read"} /\ pc'[r] = "connecting"
                            => WasCurrent(ws[r], got'[r])
  <2> SUFFICES ASSUME IInv, [Next]_vars, NEW r \in Requests,
                      pc[r] \in {"credential", "read"}, pc'[r] = "connecting"
               PROVE  WasCurrent(ws[r], got'[r])
    OBVIOUS
  <2> USE DEF modeVars, requestVars, dbVars, secretVars, fetchVars
  <2>t. /\ now \in Nat /\ pc \in [Requests -> PCs] /\ asked \in [Requests -> Nat]
        /\ cache \in [Workspaces -> {None} \cup [version : 0..MaxVersion, expires : Nat]]
        /\ lastSeen \in [Workspaces -> [0..MaxVersion -> Nat]]
        /\ got \in [Requests -> (0..MaxVersion) \cup {None}]
        /\ ws[r] \in Workspaces
    BY Arrived DEF IInv, TypeOK
  <2>1. Lookup(r) \/ Store(r)
    <3>1. ASSUME NEW q \in Requests, NEW h, pc' = [pc EXCEPT ![q] = h], pc[q] \notin {"credential", "read"}
          PROVE  FALSE
      BY <2>t, <3>1
    <3>2. ASSUME NEW q \in Requests, NEW h, pc' = [pc EXCEPT ![q] = h]
          PROVE  q = r
      BY <2>t, <3>2
    <3>3. pc' # pc
      OBVIOUS
    <3>4. ~Restart
      BY DEF Restart, Active
    <3>5. ASSUME NEW q \in Requests, NEW c \in Conns,
                 Throws(q, c) \/ Begin(q, c) \/ Pin(q, c) \/ Run(q, c) \/ Commit(q, c) \/ Rollback(q, c)
          PROVE  FALSE
      <4>1. pc[q] \notin {"credential", "read"}
        BY <3>5 DEF Throws, Begin, Pin, Run, Commit, Rollback
      <4>2. \E h : pc' = [pc EXCEPT ![q] = h]
        <5>1. CASE Throws(q, c) \/ Begin(q, c) \/ Pin(q, c)
          BY <5>1 DEF Throws, Threw, Begin, Pin
        <5>2. CASE Run(q, c)
          BY <5>2 DEF Run, Threw, Advance, EndedAs
        <5>3. CASE Commit(q, c) \/ Rollback(q, c)
          BY <5>3 DEF Commit, Rollback, Advance, EndedAs
        <5> QED BY <3>5, <5>1, <5>2, <5>3
      <4> QED BY <3>1, <4>1, <4>2
    <3>6. ASSUME NEW q \in Requests, Resolve(q) \/ ReadSecret(q) \/ Connect(q) \/ ConnectFails(q)
                                     \/ \E k \in Asks[q] : Arrive(q, k)
          PROVE  FALSE
      <4>1. pc[q] \notin {"credential", "read"}
        BY <3>6 DEF Resolve, ReadSecret, Connect, ConnectFails, Arrive
      <4>2. \E h : pc' = [pc EXCEPT ![q] = h]
        BY <3>6 DEF Resolve, ReadSecret, Connect, ConnectFails, Arrive, EndedAs
      <4> QED BY <3>1, <4>1, <4>2
    <3>7. ASSUME NEW q \in Requests, Lookup(q) \/ Store(q)
          PROVE  q = r
      <4>1. \E h : pc' = [pc EXCEPT ![q] = h]
        BY <3>7 DEF Lookup, Store
      <4> QED BY <3>2, <4>1
    <3> QED BY <3>3, <3>4, <3>5, <3>6, <3>7
            DEF Next, Statements, Credential, Unlist, Rotate, Lose, Sweep, Tick, vars
  <2>2. CASE Lookup(r)
    <3>1. Hit(ws[r])
      BY <2>t, <2>2 DEF Lookup
    <3>2. got'[r] = cache[ws[r]].version
      BY <2>t, <2>2, <3>1 DEF Lookup
    <3>3. cache[ws[r]] # None /\ cache[ws[r]].expires > now /\ Recent(ws[r])
      BY <2>t, <3>1 DEF Hit, IInv
    <3>4. cache[ws[r]].version \in 0..MaxVersion /\ cache[ws[r]].expires \in Nat
      BY <2>t, <3>3
    <3>5. lastSeen[ws[r]][cache[ws[r]].version] \in Nat /\ Limit(cache[ws[r]].version) \in Nat
      BY <2>t, <3>4, LimitType
    <3>6. \/ cache[ws[r]].version = secret[ws[r]]
          \/ lastSeen[ws[r]][cache[ws[r]].version] + Limit(cache[ws[r]].version) > now
      BY <2>t, <3>3, <3>4, <3>5 DEF Recent
    <3> QED BY <3>2, <3>6 DEF WasCurrent
  <2>3. CASE Store(r)
    <3>1. got'[r] = got[r] /\ pc[r] = "read" /\ Reading(r)
      BY <2>3 DEF Store, IInv
    <3>2. /\ got[r] \in 0..MaxVersion /\ now <= asked[r] + Delay /\ asked[r] \in Nat
          /\ got[r] = secret[ws[r]] \/ asked[r] <= lastSeen[ws[r]][got[r]]
      BY <2>t, <3>1 DEF Reading
    <3>3. lastSeen[ws[r]][got[r]] \in Nat /\ Limit(got[r]) \in Nat /\ Limit(got[r]) > Delay
      BY <2>t, <3>2, LimitType
    <3>4. got[r] = secret[ws[r]] \/ lastSeen[ws[r]][got[r]] + Limit(got[r]) > now
      BY <2>t, <3>2, <3>3
    <3> QED BY <3>1, <3>4 DEF WasCurrent
  <2> QED BY <2>1, <2>2, <2>3
<1>2. IInv /\ [Next]_vars =>
        [\A r \in Requests :
           /\ pc[r] \in {"credential", "read"} /\ pc'[r] = "connecting"
           => WasCurrent(ws[r], got'[r])]_vars
  BY <1>1
<1> QED BY <1>2, Invariance, PTL DEF Spec, RotationTakesEffect
=============================================================================
