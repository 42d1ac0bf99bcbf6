------------------------------ MODULE IntentRun ------------------------------
(***************************************************************************)
(* What the receiver of an intent token does with it once the token is     *)
(* verified (protocols/intentExecutor.ts): authorization, prerequisites,   *)
(* the result cache (intentCache.ts), the compiler of aggregates           *)
(* (intentCompiler.ts), the tools and capabilities, the proof.             *)
(*                                                                         *)
(* Several intents run at once and share the cache, under contracts that   *)
(* differ; the executor is suspended while prerequisites are evaluated and *)
(* while a tool works.  Meanwhile the data changes, time passes, the cache *)
(* is cleaned up, the process restarts.                                    *)
(*                                                                         *)
(* The data of a workspace is a version that effects and the outside world *)
(* raise; a result is the step that was run and the version it saw.  What  *)
(* a tool returns is a result, an error it returns as data included: the   *)
(* SQL tools catch what the database throws (queryBigQuery.ts:100-106), so *)
(* that a statement the database rejects does not fail the intent.         *)
(***************************************************************************)
EXTENDS Naturals, Sequences, FiniteSets, SequencesExt, Clock

CONSTANTS
    Runs,
    Asks,        \* Asks[r]: the requests that may come as r
    Workspaces,
    Home,        \* the workspace of a dedicated pod
    Dangerous,   \* tools enabled only by name (DANGEROUS_TOOLS)
    Meta,        \* tools that are always enabled
    ReadOnly,    \* tools and capabilities that declare readOnly
    Totals,      \* select columns that are aggregation functions
    Distinct,    \* select columns that are written with DISTINCT
    Batch,       \* MAX_FUSION_BATCH
    Ttl,         \* defaultTtlMs
    MaxSize,     \* maxSize of the cache
    Skew,        \* FRESHNESS_FUTURE_SKEW_MS
    Delay,       \* how long a tool takes at most
    MaxVersion   \* bound on the versions of the data

ASSUME HomeAssumption == Home \in Workspaces
ASSUME NumberAssumption ==
    {Batch, Ttl, MaxSize, Skew, Delay, MaxVersion, MaxTime} \subseteq Nat /\ MaxVersion > 0

VARIABLES
    pooled,
    warnOnly,   \* RT_TOOL_PROFILE_ENFORCE=warn
    version,    \* version[w]: of the data of w
    lastTrue,   \* lastTrue[w][v]: when v was last the version
    cache,      \* the entries of the intent cache
    run         \* run[r]: an execution

modeVars == <<pooled, warnOnly>>
dataVars == <<version, lastTrue>>
runVars == <<now, modeVars, dataVars, cache, run>>

------------------------------------------------------------------------------
(* Intents and contracts.  A tool call is [op, tool, args], a capability    *)
(* [op, name, params], an aggregate [op, steps, reduce], a query [op, tool, *)
(* table, alias, cols, where, group, rest, shape, limit, options]: the parts*)
(* of its SQL, "" where there is none, with a JOIN or a HAVING in rest, a   *)
(* CTE, an ORDER BY or the lack of SQL in shape, and the tool's other       *)
(* parameters.  The receiver never reads the responseFormat.                *)

ActionOf(i) ==
    CASE i.op = "query" -> <<"query", i.tool>>
      [] i.op = "tool_call" -> <<"tool", i.tool>>
      [] i.op = "capability" -> <<"capability", i.name>>
      [] OTHER -> <<i.op>>

Transport == {<<"discover">>}
Everything == <<"*">>
Blanket == <<"intent_execute">>

Valid(i) == i.op = "aggregate" => Len(i.steps) > 0

Granted(c, i) == Everything \in c.allowed \/ ActionOf(i) \in c.allowed

\* The route accepts what the executor may still refuse.
AuthorizedByRoute(c, i) == ActionOf(i) \in Transport \/ Granted(c, i) \/ Blanket \in c.allowed
Authorized(c, i) == ActionOf(i) \in Transport \/ Granted(c, i)

StepsAuthorized(c, steps) == \A k \in DOMAIN steps : Granted(c, steps[k])

\* A pooled service runs capabilities and discovery only.
RunsHere(i) == pooled => i.op \in {"capability", "discover"}

\* What a prerequisite reads; aggregates and discovery have no parameters.
ParamsOf(i) == IF "params" \in DOMAIN i THEN i.params ELSE [amount |-> None, stamp |-> None, grant |-> FALSE]

\* What the verifier of grants says; a dedicated pod has none, which is a no.
Verdicts(c) ==
    IF pooled /\ \E p \in c.prerequisites : p.kind = "grant_required" THEN BOOLEAN ELSE {FALSE}

\* One prerequisite of a contract, for a request that came at the time t.
\* Mutant: without a verifier, naming a grant is enough.
MeetsUnverified(p, params, t, verified) ==
    CASE p.kind = "amount_max" -> params.amount # None /\ params.amount <= p.value
      [] p.kind = "freshness_hours" ->
            params.stamp # None /\ params.stamp <= t + Skew /\ t <= params.stamp + p.value
      [] p.kind = "grant_required" -> params.grant /\ (pooled => verified)
      [] OTHER -> FALSE
Meets(p, params, t, verified) ==
    CASE p.kind = "amount_max" -> params.amount # None /\ params.amount <= p.value
      [] p.kind = "freshness_hours" ->
            params.stamp # None /\ params.stamp <= t + Skew /\ t <= params.stamp + p.value
      [] p.kind = "grant_required" -> params.grant /\ verified
      [] OTHER -> FALSE

Met(c, i, t, verified) == \A p \in c.prerequisites : Meets(p, ParamsOf(i), t, verified)

------------------------------------------------------------------------------
(* The compiler.                                                            *)

\* The k-th of the positions I, and the elements of s at them, in order.
Nth(I, k) == CHOOSE i \in I : Cardinality({j \in I : j <= i}) = k
At(s, I) == [k \in 1..Cardinality(I) |-> s[Nth(I, k)]]

Deduplicated(s) == At(s, {k \in DOMAIN s : \A j \in 1..k - 1 : s[j] # s[k]})

\* A query that may be merged: SQL without CTE, ORDER BY or LIMIT, whatever
\* else it has.
Candidate(q) == q.op = "query" /\ q.shape = "plain" /\ q.limit = "none"

\* The expression that looks for the table takes the next word for its alias,
\* be it the first word of another clause.
AliasRead(q) ==
    IF q.alias # "" THEN q.alias
    ELSE IF q.rest = "JOIN" THEN "JOIN"
    ELSE IF q.where # "" THEN "WHERE"
    ELSE IF q.group # "" THEN "GROUP"
    ELSE q.rest

\* The group that s[k] is a member of, its first MAX_FUSION_BATCH members.
GroupOf(s, k) ==
    LET alike == {j \in DOMAIN s : /\ Candidate(s[j])
                                   /\ s[j].tool = s[k].tool /\ s[j].table = s[k].table
                                   /\ AliasRead(s[j]) = AliasRead(s[k])}
    IN  {j \in alike : Cardinality({l \in alike : l < j}) < Batch}

FusesAnyWhere(s, G) ==
    /\ Cardinality(G) > 1
    /\ \A j, k \in G : s[j].group = s[k].group

Fuses(s, G) ==
    /\ Cardinality(G) > 1
    /\ \A j, k \in G : s[j].where = s[k].where /\ s[j].group = s[k].group

First(I) == Nth(I, 1)

\* The SQL is built anew from what was read of the first; the rest of it, and
\* the other parameters, are gone.
Fusion(s, G) ==
    [s[First(G)] EXCEPT !.alias = AliasRead(s[First(G)]), !.cols = UNION {s[k].cols : k \in G},
                        !.rest = "", !.limit = "default", !.options = ""]

\* Each group that fuses stands at the position of its first member.
Fused(s) ==
    LET members(k) == IF Candidate(s[k]) /\ k \in GroupOf(s, k) /\ Fuses(s, GroupOf(s, k))
                      THEN GroupOf(s, k) ELSE {k}
    IN  At([k \in DOMAIN s |-> IF members(k) = {k} THEN s[k] ELSE Fusion(s, members(k))],
           {k \in DOMAIN s : k = First(members(k))})

\* A LIMIT is added unless the query has one or returns totals alone.
Limited(q) ==
    IF q.op = "query" /\ q.limit = "none" /\ ~(q.cols \subseteq Totals)
    THEN [q EXCEPT !.limit = "default"] ELSE q

Compiled(s) ==
    LET t == IF Len(s) = 1 THEN s ELSE Fused(Deduplicated(s))
    IN  [k \in DOMAIN t |-> Limited(t[k])]

StepsOf(i) == IF i.op = "aggregate" THEN i.steps ELSE <<i>>

\* The steps that an intent runs.
Plan(i) == IF i.op = "aggregate" THEN Compiled(i.steps) ELSE <<i>>

------------------------------------------------------------------------------
(* Tools.                                                                   *)

NameOf(s) == IF s.op = "capability" THEN s.name ELSE s.tool

\* The tools of a workspace whose enabled_tools are `names`, if it has any.
Enabled(tool, names) ==
    IF names \in {None, {}} THEN tool \notin Dangerous ELSE tool \in names \cup Meta

\* A query's tool is checked by executeTool, which may only warn.
Runnable(s, names) ==
    CASE s.op = "query" -> Enabled(s.tool, names) \/ (warnOnly /\ ~pooled)
      [] s.op = "tool_call" -> Enabled(s.tool, names)
      [] OTHER -> TRUE

Effectful(s) == s.op # "discover" /\ NameOf(s) \notin ReadOnly

------------------------------------------------------------------------------
(* The cache.  An entry's key is the workspace and the intent.              *)

CacheableKind(i) == i.op \in {"query", "tool_call", "capability"}

\* An effect would be skipped by a hit.
CacheableAlways(i) == CacheableKind(i)
Cacheable(i) == CacheableKind(i) /\ NameOf(i) \in ReadOnly

EntryOf(w, i) == {e \in cache : e.ws = w /\ e.intent = i}
Expired(e) == now - e.created > Ttl

TouchedAnew(e) == [e EXCEPT !.used = now, !.created = now]
Touched(e) == [e EXCEPT !.used = now]

\* Room for one more entry: the least recently used one goes.
Victims == {e \in cache : \A f \in cache : e.used <= f.used}

Stored(w, i, data) ==
    LET entry == [ws |-> w, intent |-> i, data |-> data, created |-> now, used |-> now]
        old == EntryOf(w, i)
    IN  IF old # {} \/ Cardinality(cache) < MaxSize
        THEN {(cache \ old) \cup {entry}}
        ELSE {(cache \ {e}) \cup {entry} : e \in Victims}

------------------------------------------------------------------------------
(* Runs.                                                                    *)

NoAnswer == [status |-> "none", data |-> <<>>, cached |-> FALSE, sql |-> <<>>]

Elements(s) == {s[k] : k \in DOMAIN s}

QueryFields ==
    {"op", "tool", "table", "alias", "cols", "where", "group", "rest", "shape", "limit", "options"}

ASSUME AsksAssumption ==
    \A r \in Runs : \A ask \in Asks[r] :
        LET steps == StepsOf(ask.intent)
        IN  /\ ask.intent # None
            /\ steps \in Seq(Elements(steps))
            /\ \A k \in DOMAIN steps :
                   steps[k].op = "query" => steps[k] = [f \in QueryFields |-> steps[k][f]]

Requests == UNION {Asks[r] : r \in Runs}
Intents == {ask.intent : ask \in Requests}
Contracts == {ask.contract : ask \in Requests}
Names == {ask.names : ask \in Requests}
Statements == UNION {Elements(Plan(i)) : i \in Intents}
Data == [step : Statements, version : 1..MaxVersion, ws : Workspaces]

Answers == [status : {"none", "ok", "denied", "error", "lost"}, data : Seq(Data),
            cached : BOOLEAN, sql : Seq(Statements)]

Executions ==
    [pc : {"none", "prerequisites", "tool", "hop", "worked", "answered"},
     intent : Intents \cup {None}, contract : Contracts \cup {None},
     names : Names \cup {None}, ws : Workspaces \cup {None},
     judged : Nat, verified : BOOLEAN,  \* Date.now() of the prerequisites, the verdict on grants
     todo : Seq(Statements), at : Nat, asked : Nat, seen : Nat,
     results : Seq(Data), trace : Seq(Statements), effects : Seq(Statements), answer : Answers]

Entries == [ws : Workspaces, intent : Intents, data : Seq(Data), created : Nat, used : Nat]

RunTypeOK ==
    /\ now \in Nat /\ pooled \in BOOLEAN /\ warnOnly \in BOOLEAN
    /\ version \in [Workspaces -> 1..MaxVersion]
    /\ lastTrue \in [Workspaces -> [1..MaxVersion -> Nat]]
    /\ cache \subseteq Entries
    /\ run \in [Runs -> Executions]

Idle == [pc |-> "none", intent |-> None, contract |-> None, names |-> None, ws |-> None,
         judged |-> 0, verified |-> FALSE, todo |-> <<>>, at |-> 0, asked |-> 0, seen |-> 0,
         results |-> <<>>, trace |-> <<>>, effects |-> <<>>, answer |-> NoAnswer]

RunInit ==
    /\ now = Skew
    /\ pooled \in BOOLEAN /\ warnOnly \in BOOLEAN
    /\ version = [w \in Workspaces |-> 1]
    /\ lastTrue = [w \in Workspaces |-> [v \in 1..MaxVersion |-> 0]]
    /\ cache = {}
    /\ run = [r \in Runs |-> Idle]

Answered(r, status, data, cached, sql) ==
    [run[r] EXCEPT !.pc = "answered", !.todo = <<>>, !.at = 0, !.asked = 0, !.seen = 0,
                   !.results = <<>>, !.trace = <<>>,
                   !.answer = [status |-> status, data |-> data, cached |-> cached, sql |-> sql]]

Refused(r, status) == Answered(r, status, <<>>, FALSE, <<>>)

\* A verified token: the route's check and the executor's, up to the await of
\* the prerequisites, which read the clock before it if there are any.  The
\* contract is the manifest's entry as it is now.
Receive(r, ask) ==
    /\ run[r].pc = "none"
    /\ \E w \in IF pooled THEN Workspaces ELSE {Home} :
           LET begun == [run[r] EXCEPT !.intent = ask.intent, !.contract = ask.contract, !.names = ask.names,
                                       !.ws = w, !.pc = "prerequisites",
                                       !.judged = IF ask.contract.prerequisites = {} THEN 0 ELSE now]
               ended(status) == [begun EXCEPT !.pc = "answered", !.answer.status = status]
               i == ask.intent
               c == ask.contract
           IN  run' = [run EXCEPT ![r] =
                   IF ~Valid(i) THEN ended("error")
                   ELSE IF ~AuthorizedByRoute(c, i) \/ ~Authorized(c, i) \/ ~RunsHere(i) THEN ended("denied")
                   ELSE begun]
    /\ UNCHANGED <<now, modeVars, dataVars, cache>>

\* The first step of `todo`, or the end of the run, as the tool is asked.
Begun(r, todo) ==
    [run[r] EXCEPT !.todo = todo, !.at = 1, !.asked = now, !.pc = "tool",
                   !.trace = IF todo[1].op = "query" THEN Append(@, todo[1]) ELSE @]

Denied(r) ==
    /\ \E verified \in Verdicts(run[r].contract) :
           ~Met(run[r].contract, run[r].intent, run[r].judged, verified)
    /\ run' = [run EXCEPT ![r] = Refused(r, "denied")]
    /\ UNCHANGED cache

\* The execution e, whose prerequisites were met with this verdict on grants.
Passed(e, verified) == [e EXCEPT !.verified = verified]

Hit(r, e, verified) ==
    /\ Cacheable(run[r].intent) /\ e \in EntryOf(run[r].ws, run[r].intent) /\ ~Expired(e)
    /\ cache' = (cache \ {e}) \cup {Touched(e)}
    /\ run' = [run EXCEPT ![r] = Passed(Answered(r, "ok", e.data, TRUE, <<>>), verified)]

Dispatch(r, verified) ==
    LET i == run[r].intent
    IN  /\ ~ (Cacheable(i) /\ \E e \in EntryOf(run[r].ws, i) : ~Expired(e))
        /\ cache' = IF Cacheable(i) THEN cache \ EntryOf(run[r].ws, i) ELSE cache
        /\ run' = [run EXCEPT ![r] =
               IF i.op = "discover" THEN Passed(Answered(r, "ok", <<>>, FALSE, <<>>), verified)
               ELSE IF i.op = "aggregate" /\ ~ (/\ StepsAuthorized(run[r].contract, i.steps)
                                                 /\ StepsAuthorized(run[r].contract, Plan(i)))
                    THEN Refused(r, "denied")
               ELSE Passed(Begun(r, Plan(i)), verified)]

\* The prerequisites are evaluated; without another await the cache is looked
\* up, an expired entry deleted, and the first tool asked.
Evaluated(r) ==
    /\ run[r].pc = "prerequisites"
    /\ \/ Denied(r)
       \/ \E verified \in Verdicts(run[r].contract) :
             /\ Met(run[r].contract, run[r].intent, run[r].judged, verified)
             /\ Dispatch(r, verified) \/ \E e \in cache : Hit(r, e, verified)
    /\ UNCHANGED <<now, modeVars, dataVars>>

Step(r) == run[r].todo[run[r].at]

Raised(w) ==
    /\ version[w] < MaxVersion
    /\ version' = [version EXCEPT ![w] = @ + 1]
    /\ lastTrue' = [lastTrue EXCEPT ![w][version[w]] = now]

\* The tool reads the data or has its effect; a step that is neither a query
\* nor a tool call is taken for a tool call without a name, which is unknown.
Work(r) ==
    /\ run[r].pc \in {"tool", "hop"}
    /\ Runnable(Step(r), run[r].names)
    /\ run[r].intent.op = "aggregate" => Step(r).op \in {"query", "tool_call"}
    /\ IF Effectful(Step(r))
       THEN /\ Raised(run[r].ws)
            /\ run' = [run EXCEPT ![r].pc = "worked", ![r].seen = version[run[r].ws] + 1,
                                  ![r].effects = Append(@, Step(r))]
       ELSE /\ run' = [run EXCEPT ![r].pc = "worked", ![r].seen = version[run[r].ws]]
            /\ UNCHANGED dataVars
    /\ UNCHANGED <<now, modeVars, cache>>

\* A capability calls one of another workspace first (iceClient.ts).
Hop(r) ==
    /\ run[r].pc = "tool" /\ Step(r).op = "capability" /\ run[r].intent.op = "capability"
    /\ run' = [run EXCEPT ![r].pc = "hop"]
    /\ UNCHANGED <<now, modeVars, dataVars, cache>>

\* The SQL or the tool is refused, or the tool throws; what ran stays done.
ToolFails(r) == run[r].intent.op = "aggregate" \/ Step(r).op # "capability"

\* A capability's input does not fit its schema, or its handler throws.
Rejected(r) == Step(r).op = "capability" /\ run[r].pc = "tool"
Threw(r) == Step(r).op = "capability" /\ run[r].pc = "worked"

\* The other workspace refuses, or its answer is late.
HopFails(r) == run[r].pc = "hop"

Fail(r) ==
    /\ run[r].pc \in {"tool", "hop", "worked"}
    /\ ToolFails(r) \/ Rejected(r) \/ Threw(r) \/ HopFails(r)
    /\ run' = [run EXCEPT ![r] = Refused(r, "error")]
    /\ UNCHANGED <<now, modeVars, dataVars, cache>>

Result(r) == [step |-> Step(r), version |-> run[r].seen, ws |-> run[r].ws]

\* The statements whose hash the proof carries; that of a cached result has none.
Proven(r) == run[r].trace

Reply(r) ==
    /\ run[r].pc = "worked" /\ run[r].at < Len(run[r].todo)
    /\ LET next == run[r].todo[run[r].at + 1]
       IN  run' = [run EXCEPT ![r].results = Append(@, Result(r)), ![r].at = @ + 1,
                              ![r].pc = "tool", ![r].asked = now,
                              ![r].trace = IF next.op = "query" THEN Append(@, next) ELSE @]
    /\ UNCHANGED <<now, modeVars, dataVars, cache>>

\* The last tool answered: the result and its proof are built, and stored.
Complete(r) ==
    /\ run[r].pc = "worked" /\ run[r].at = Len(run[r].todo)
    /\ LET data == Append(run[r].results, Result(r))
       IN  /\ run' = [run EXCEPT ![r] = Answered(r, "ok", data, FALSE, Proven(r))]
           /\ cache' \in IF Cacheable(run[r].intent)
                         THEN Stored(run[r].ws, run[r].intent, data) ELSE {cache}
    /\ UNCHANGED <<now, modeVars, dataVars>>

Cleanup ==
    /\ \E e \in cache : Expired(e)
    /\ cache' = {e \in cache : ~Expired(e)}
    /\ UNCHANGED <<now, modeVars, dataVars, run>>

\* The data changes by other hands.
Change(w) ==
    /\ Raised(w)
    /\ UNCHANGED <<now, modeVars, cache, run>>

Underway == {r \in Runs : run[r].pc \notin {"none", "answered"}}

Restart ==
    /\ cache # {} \/ Underway # {}
    /\ cache' = {}
    /\ run' = [r \in Runs |-> IF r \in Underway THEN [run[r] EXCEPT !.pc = "answered", !.answer.status = "lost"] ELSE run[r]]
    /\ UNCHANGED <<now, modeVars, dataVars>>

RunTick ==
    /\ now < MaxTime
    /\ \A r \in Runs : run[r].pc \in {"tool", "hop", "worked"} => now < run[r].asked + Delay
    /\ now' = now + 1
    /\ UNCHANGED <<modeVars, dataVars, cache, run>>

RunNext ==
    \/ \E r \in Runs : \E ask \in Asks[r] : Receive(r, ask)
    \/ \E r \in Runs : Evaluated(r) \/ Work(r) \/ Hop(r) \/ Fail(r) \/ Reply(r) \/ Complete(r)
    \/ \E w \in Workspaces : Change(w)
    \/ Cleanup \/ Restart \/ RunTick

RunSpec == RunInit /\ [][RunNext]_runVars

------------------------------------------------------------------------------
Succeeded(r) == run[r].answer.status = "ok"
DataOf(r) == {run[r].answer.data[k] : k \in DOMAIN run[r].answer.data}

\* A result that comes from the cache was true within the time to live and
\* the time a tool takes, whichever of several equal intents stored it last
\* and however often it was asked for since.
WasTrue(d, age) ==
    d.version = version[d.ws] \/ lastTrue[d.ws][d.version] + age >= now

CachedIsRecent ==
    [][\A r \in Runs :
         run[r].pc = "prerequisites" /\ run'[r].answer.cached
         => \A k \in DOMAIN run'[r].answer.data : WasTrue(run'[r].answer.data[k], Ttl + Delay)]_runVars

\* What a prerequisite asks for, of the request as it came: no limit is
\* exceeded, the data was not older than allowed, nor from the future, when
\* the request came, the verifier said yes to the grant; and nothing passes
\* that the receiver does not know.
Satisfied(e, p) ==
    LET params == ParamsOf(e.intent)
    IN  /\ p.kind \in {"amount_max", "freshness_hours", "grant_required"}
        /\ p.kind = "amount_max" => params.amount # None /\ params.amount <= p.value
        /\ p.kind = "freshness_hours" =>
               /\ params.stamp # None
               /\ e.judged <= params.stamp + p.value
               /\ params.stamp <= e.judged + Skew
        /\ p.kind = "grant_required" => params.grant /\ e.verified

\* Nobody gets a result, from a tool or from the cache, unless the own
\* contract grants the intent and each of its steps and all prerequisites
\* were met, and never one of another workspace; the blanket grant that is
\* enough for the route (a2a.ts:688) is not enough.
AuthorizedOnly ==
    \A r \in Runs :
        Succeeded(r) =>
            /\ run[r].intent.op = "discover" \/ Granted(run[r].contract, run[r].intent)
            /\ \A k \in DOMAIN StepsOf(run[r].intent) :
                   run[r].intent.op = "aggregate" => Granted(run[r].contract, run[r].intent.steps[k])
            /\ \A p \in run[r].contract.prerequisites : Satisfied(run[r], p)
            /\ \A d \in DataOf(r) : d.ws = run[r].ws

\* Effects happen once each and in the order asked for: an intent that is
\* denied has none, one that succeeds all of its own, also when an equal one
\* succeeded before, and one that fails those before the failure.
Effects(s) == At(s, {k \in DOMAIN s : Effectful(s[k])})
Wanted(r) == Effects(Deduplicated(StepsOf(run[r].intent)))

EffectsAccounted ==
    \A r \in Runs :
        LET status == run[r].answer.status
        IN  /\ run[r].intent # None => IsPrefix(run[r].effects, Wanted(r))
            /\ status = "ok" => Len(run[r].effects) = Len(Wanted(r))
            /\ status = "denied" => run[r].effects = <<>>

\* What it takes for a statement to be an answer to the query o: it is SQL,
\* on the same table with the same clauses, with at least its columns, with a
\* LIMIT only if it was its own or is the default, and DISTINCT only over the
\* columns it was asked for.
Keywords == {"JOIN", "WHERE", "GROUP", "HAVING"}

WellFormed(q) ==
    /\ q.alias \notin Keywords
    /\ q.group = "" => q.cols \subseteq Totals \/ q.cols \cap Totals = {}

Covers(s, o) ==
    /\ s.op = o.op
    /\ IF o.op = "query"
       THEN /\ WellFormed(s)
            /\ [s EXCEPT !.cols = o.cols, !.limit = o.limit] = o
            /\ o.cols \subseteq s.cols
            /\ s.cols \cap Distinct # {} => s.cols = o.cols
            /\ s.limit \in {o.limit, "default"}
            /\ o.limit = "own" => s.limit = "own" /\ s.cols = o.cols
       ELSE s = o

AllSQL(i) == \A s \in Elements(StepsOf(i)) : s.op = "query" => WellFormed(s)

\* The queries of i that may be merged are such that a merge takes nothing
\* from them: they consist of what the compiler reads (a table followed by
\* another clause has an alias), and no total meets a plain column.
NothingToLose(i) ==
    LET mergeable == {q \in Elements(StepsOf(i)) : Candidate(q)}
    IN  /\ \A q \in mergeable :
              AliasRead(q) = q.alias /\ q.rest = "" /\ q.options = "" /\ q.cols \cap Distinct = {}
        /\ \A q, o \in mergeable :
              q.group = "" /\ o.group = "" =>
                  (q.cols \cup o.cols) \subseteq Totals \/ (q.cols \cup o.cols) \cap Totals = {}

EachAnswered(r) ==
    \A k \in DOMAIN StepsOf(run[r].intent) :
        run[r].intent.op # "discover" =>
            \E d \in DataOf(r) : Covers(d.step, StepsOf(run[r].intent)[k])

\* Whatever the compiler removes, merges or limits, each step of an aggregate
\* whose queries have nothing to lose is answered; and, of every intent, the
\* proof names just the statements behind the data.
StepsAnswered ==
    \A r \in Runs :
        Succeeded(r) /\ ~run[r].answer.cached =>
            /\ AllSQL(run[r].intent) /\ NothingToLose(run[r].intent) => EachAnswered(r)
            /\ {run[r].answer.sql[k] : k \in DOMAIN run[r].answer.sql}
                   = {d.step : d \in {x \in DataOf(r) : x.step.op = "query"}}

\* "Result: merged SELECT list, preserving WHERE/GROUP BY"
\* (intentCompiler.ts:187): each query of an aggregate that succeeds is
\* answered by a statement with its clauses.  It is not: an unaliased table
\* takes the next keyword along, and the merged statement has it twice.
MergePreserves ==
    \A r \in Runs :
        Succeeded(r) /\ ~run[r].answer.cached /\ AllSQL(run[r].intent) => EachAnswered(r)
=============================================================================
