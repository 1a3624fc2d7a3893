--------------------------- MODULE MCFindingFlow ---------------------------
(***************************************************************************)
(* Three findings, two hosts, two criteria and four configurations of      *)
(* outputs.  The rule lists hold a disabled rule, two rules that match the *)
(* same finding, and a rule one of whose criteria is blank.                *)
(***************************************************************************)
EXTENDS FindingFlow, TLC

MCFinding == {"f1", "f2", "f3"}
MCAspect == {"host", "rule"}
MCHas == [f \in MCFinding |->
            CASE f = "f1" -> [host |-> {"a"}, rule |-> {"r1"}]
              [] f = "f2" -> [host |-> {"a"}, rule |-> {"r1", "r2"}]
              [] OTHER    -> [host |-> {"b"}, rule |-> {"r2"}]]

Want(hosts, rules) == [host |-> hosts, rule |-> rules]
MCRuleLists ==
    { <<>>,
      << [id |-> "off", enabled |-> FALSE, want |-> Want({}, {})],
         [id |-> "s1", enabled |-> TRUE, want |-> Want({"a"}, {"r2"})],
         [id |-> "s2", enabled |-> TRUE, want |-> Want({}, {"r1"})] >>,
      << [id |-> "s3", enabled |-> TRUE, want |-> Want({""}, {"r2"})] >> }

MCOutputSets == {{"tui", "json", "md"}, {"console", "csv", "creds"},
                 {"json", "html", "csv"}, {"console"}}
=============================================================================
