---------------------------- MODULE MCForwardRule ----------------------------
\* One name clients ask for, a chain of CNAMEs behind it that may loop, and
\* one ECH template shared by two upstreams.
EXTENDS ForwardRule

Svcb(cf, has) == [cf |-> cf, ech |-> has, from |-> "answer"]
Rec(type, owner, to, svcb) == Record(type, owner, "upstream", to, svcb)
A(owner) == Rec("A", owner, NoName, NoSvcb)
Cname(owner, to) == Rec("CNAME", owner, to, NoSvcb)
Https(owner, cf, has) == Rec("HTTPS", owner, NoName, Svcb(cf, has))
Ok(answers) == Message("NoError", answers)

MCZone ==
  [k \in {<<"q", "A">>, <<"t", "A">>, <<"u", "A">>, <<"q", "HTTPS">>,
          <<"t", "HTTPS">>, <<"u", "HTTPS">>, <<"d", "HTTPS">>} |->
   CASE k = <<"q", "A">> ->
          { Message("NXDomain", << >>), Ok(<<A("q")>>),
            Ok(<<Cname("q", "t"), A("t")>>),
            Ok(<<Cname("q", "t"), Cname("t", "u")>>),
            Message("NXDomain", <<Cname("q", "t")>>) }
     [] k = <<"t", "A">> -> { Ok(<< >>), Ok(<<A("t"), A("t")>>), Ok(<<Cname("t", "u"), A("u")>>) }
     [] k = <<"u", "A">> -> { Ok(<<A("u")>>), Ok(<<Cname("u", "t")>>) }
     [] k = <<"q", "HTTPS">> ->
          { Ok(<<Https("q", TRUE, FALSE), Https("q", TRUE, TRUE), Https("q", TRUE, FALSE)>>),
            Ok(<<Cname("q", "t"), Https("t", TRUE, FALSE)>>) }
     [] k = <<"t", "HTTPS">> -> { Ok(<<Cname("t", "u")>>), Ok(<<Https("t", TRUE, FALSE)>>) }
     [] k = <<"u", "HTTPS">> -> { Ok(<<Cname("u", "t")>>) }
     [] k = <<"d", "HTTPS">> ->
          { Message("ServFail", << >>), Ok(<< >>),
            Ok(<<Https("d", TRUE, FALSE), Https("d", FALSE, TRUE)>>) } ]

Forward(upstream, ttl, resolve, subnet, template) ==
  [kind |-> "forward", upstream |-> upstream, ttl |-> ttl, resolve |-> resolve,
   subnet |-> subnet, template |-> template, deny |-> {}]

MCActions ==
  { [kind |-> "block", poison |-> TRUE],
    [kind |-> "block", poison |-> FALSE],
    [kind |-> "rewrite", valid |-> TRUE],
    [kind |-> "rewrite", valid |-> FALSE],
    [kind |-> "cname", upstream |-> "up1", target |-> "t", valid |-> TRUE, deny |-> {"HTTPS"}],
    [kind |-> "cname", upstream |-> "up1", target |-> "t", valid |-> FALSE, deny |-> {}],
    Forward("up1", TRUE, TRUE, TRUE, "d"),
    Forward("up2", FALSE, FALSE, FALSE, "d") }
=============================================================================
