-------------------------- MODULE MCBuildScheduler --------------------------
(* Two declared builds for TLC.                                             *)
EXTENDS BuildScheduler

\* `lib` and `twin` are one job under two labels; `sample` is measured anew in
\* every build; `binary` reads both and is verified; `report` caches over the group
\* of them; `stop` cleans up after all of it.
SuiteDeps == [lib |-> <<>>, twin |-> <<>>, sample |-> <<>>, binary |-> <<"lib", "sample">>,
              all |-> <<"twin", "binary">>, report |-> <<"all">>, stop |-> <<"all", "report">>]
SuiteJob == [lib |-> "compile", twin |-> "compile", sample |-> "measure", binary |-> "link",
             all |-> "all", report |-> "report", stop |-> "stop"]

\* A caching target that depends on a group.
GroupDeps == [lib |-> <<>>, libs |-> <<"lib">>, report |-> <<"libs">>]
GroupJob == [lib |-> "compile", libs |-> "libs", report |-> "report"]

SuiteTargets == DOMAIN SuiteDeps
GroupTargets == DOMAIN GroupDeps

Everything == [only |-> Targets, skip |-> {}]

\* The whole suite, one report and what it needs, the suite without its samples.
SuiteSelections == {Everything, [only |-> {"report"}, skip |-> {}], [only |-> Targets, skip |-> {"sample"}]}
GroupSelections == {Everything}
=============================================================================
