---------------------------- MODULE MCIntentRun ----------------------------
(***************************************************************************)
(* Three intents on a dedicated pod or a pooled service; the aggregates of *)
(* up to three steps, each alone.                                          *)
(***************************************************************************)
EXTENDS IntentRun, TLC

CONSTANTS r1, r2, r3, w1, w2

Query(t, a, c, wh, l) ==
    [op |-> "query", tool |-> "sql", table |-> t, alias |-> a, cols |-> c, where |-> wh, group |-> "",
     rest |-> "", shape |-> "plain", limit |-> l, options |-> ""]
Call(t) == [op |-> "tool_call", tool |-> t, args |-> ""]
Capability(n, a) == [op |-> "capability", name |-> n, params |-> [amount |-> a, stamp |-> 1, grant |-> TRUE]]

Steps == {Query("t", "p", {"a"}, "x", "none"), Query("t", "p", {"b"}, "x", "none"), Query("t", "p", {"b"}, "y", "none"),
          Query("t", "p", {"c"}, "x", "own"), Query("u", "", {"sum"}, "", "none"), Call("write"), Capability("move", 1)}

\* Queries that a merge may harm.
Base == Query("t", "p", {"a"}, "x", "none")
Frail == {Query("t", "", {"a"}, "x", "none"), Query("t", "", {"b"}, "x", "none"),
          [Base EXCEPT !.alias = "", !.where = "", !.group = "g"],
          [Base EXCEPT !.rest = "HAVING", !.group = "g"], [Base EXCEPT !.rest = "JOIN"],
          [Base EXCEPT !.options = "project"], [Base EXCEPT !.cols = {"distinct"}], [Base EXCEPT !.cols = {"sum"}]}

Aggregate(s) == [op |-> "aggregate", steps |-> s, reduce |-> "concat"]
Aggregates ==
    {Aggregate(s) : s \in [1..3 -> Steps] \cup [1..2 -> Steps] \cup [1..1 -> Steps]}
    \cup {Aggregate(<<q, o>>) : q \in Frail, o \in Frail \cup {Base}}

\* The two queries of the test "fuses two compatible queries against the same
\* table and WHERE clause" (intentCompiler.test.ts:26).
Tested == Aggregate(<<Query("txns", "", {"amount"}, "user='x'", "none"), Query("txns", "", {"category"}, "user='x'", "none")>>)

Contract(allowed, p) == [allowed |-> allowed, prerequisites |-> p]
All == Contract({Everything}, {})
Route == Contract({Blanket}, {})
NoWrites == Contract({<<"query", "sql">>, <<"aggregate">>}, {})
Amount == Contract({Everything}, {[kind |-> "amount_max", value |-> 1]})
Guarded == Contract({Everything}, {[kind |-> "grant_required", scope |-> "s"], [kind |-> "freshness_hours", value |-> 1]})

Ask(i, c, n) == [intent |-> i, contract |-> c, names |-> n]
Read == Query("t", "", {"a"}, "x", "none")

Look(stamp, grant) == [op |-> "capability", name |-> "look", params |-> [amount |-> 1, stamp |-> stamp, grant |-> grant]]
Unknown == Contract({Everything}, {[kind |-> "quorum", value |-> 1]})

Singles ==
    {Ask(i, c, None) : i \in {Read, Capability("look", 1), Capability("look", 2)}, c \in {All, NoWrites, Amount}}
    \cup {Ask(i, All, None) : i \in {Call("write"), Capability("move", 1), [op |-> "discover"]}}
    \cup {Ask(Read, Route, None), Ask(Capability("look", 1), Guarded, None), Ask(Look(3, TRUE), Guarded, None),
          Ask(Look(1, FALSE), Guarded, None), Ask(Look(1, TRUE), Unknown, None), Ask(Read, All, {"web"}), Ask(Call("shell"), All, None)}

AsksOf == [r \in Runs |-> CASE r = r1 -> Singles \cup {Ask(a, c, None) : a \in Aggregates, c \in {All, NoWrites}}
                            [] r = r2 -> Singles
                            [] r = r3 -> {Ask(Read, All, None), Ask(Capability("look", 1), Guarded, None)}]

TestedAsk == [r \in Runs |-> {Ask(Tested, All, None)}]

\* An aggregate shares nothing with other runs but the data: it runs alone.
\* The clock moves while read-only intents of one workspace run; what else
\* may be asked for is explored with the clock at rest.
Timed ==
    /\ \A r \in Runs : run[r].intent # None =>
           /\ run[r].intent \in {Read, Capability("look", 1)}
           /\ run[r].contract = IF run[r].intent = Read THEN All ELSE Guarded
           /\ pooled <=> run[r].contract = Guarded
           /\ run[r].names = None /\ run[r].ws = w1
    /\ version[w1] < 3 /\ ~warnOnly
    /\ run[r3].intent # None => run[r3].intent = run[r1].intent /\ ~pooled

AtRest ==
    /\ now = Skew
    /\ run[r3].pc = "none"
    /\ warnOnly => run[r2].pc = "none"
    /\ run[r1].intent # None /\ run[r1].intent.op = "aggregate" => run[r2].pc = "none"
    /\ run[r1].contract = NoWrites => run[r2].contract # NoWrites

Few ==
    /\ Timed \/ AtRest
    /\ version[w2] = 1
    /\ run[r3].pc # "none" => run[r2].pc # "none"
    /\ run[r2].pc # "none" => run[r1].pc # "none"
=============================================================================
