----------------------------- MODULE MCRuleMatch -----------------------------
\* Small rule tables over the names com, a.com, b.a.com and net.
EXTENDS RuleMatch

Rule(qtype, target) == [qtype |-> qtype, target |-> target]
All == [kind |-> "all"]
Group(g) == [kind |-> "group", group |-> g]
Inline(domains) == [kind |-> "inline", domains |-> domains]
Template(patterns) == [kind |-> "template", patterns |-> patterns]
Pattern(placeholders, suffix) == [suffix |-> suffix, placeholders |-> placeholders]

Com == <<"com">>
ACom == <<"com", "a">>
BACom == <<"com", "a", "b">>
Net == <<"net">>

MCRules ==
  { Rule(NoQtype, All),
    Rule("A", Group("g")),
    Rule(NoQtype, Inline({Com})),
    Rule("A", Inline({ACom, Net})),
    Rule("ANY", Inline({ACom})),
    Rule(NoQtype, Template(<<Pattern(<<1, 2>>, Com), Pattern(<<1>>, Com)>>)),
    Rule(NoQtype, Template(<<Pattern(<<2, 1>>, Com)>>)) }

MCRequests ==
  [name : {Com, ACom, BACom, Net}, qtype : {"A", "AAAA"}, group : {NoGroup, "g"}]
=============================================================================
