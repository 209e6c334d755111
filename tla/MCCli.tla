------------------------------- MODULE MCCli --------------------------------
EXTENDS Cli, MCAuditRun

\* Domains whose report, if all goes well, holds a pass, something low,
\* something high (a zone without name servers), nothing, and something
\* critical (scanned actively).
Sound == Plain
Weak  == But(Plain, {"A"}, {Orphan})
Stale == Signed(Served(Plain, <<>>, {}), {Expired})
Unsigned == Keyless(Signed(Plain, {}))
Open  == [Served(Plain, <<"h1", "h2">>, {Public4}) EXCEPT
            !.active = TRUE, !.recursive = FALSE, !.sub = "other", !.axfr = "allowed",
            !.wild = TRUE]

\* The same with a budget that does not reach the DNSSEC queries.
Tight(s) == [s EXCEPT !.budget = 10]

MCCliScenes == {Sound, Weak, Stale, Unsigned, Open, Tight(Sound), Tight(Stale)}

Line(list, failOn) ==
    [parse |-> "ok", version |-> FALSE, shortcut |-> FALSE, format |-> "human",
     failOn |-> failOn, domains |-> list]

\* Lists of domains under each kind of threshold, "pass" and an unknown one
\* included.
ListCommands ==
         {Line(l, t) : l \in {<<Sound>>, <<Stale, Sound>>, <<Sound, Stale>>,
                              <<Weak, Sound>>, <<Sound, Unsigned>>, <<Tight(Sound), Tight(Stale)>>},
                       t \in {"", "pass", "low", "high", "critical", "severe"}}
    \cup {Line(<<Stale, Sound, Unsigned>>, "medium"), Line(<<Open>>, "critical")}

\* All other ways to call the command.
ArgCommands ==
    {[parse |-> p, version |-> v, shortcut |-> s, format |-> f, failOn |-> t, domains |-> l] :
        p \in {"ok", "help", "error"}, v, s \in BOOLEAN, f \in {"json", "sarif", "other"},
        t \in {"", "severe"}, l \in {<<>>, <<Stale>>}}

MCCommands == ListCommands \cup ArgCommands
=============================================================================
