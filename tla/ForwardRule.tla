----------------------------- MODULE ForwardRule -----------------------------
(***************************************************************************)
(* What the rules stage does with the rule it picked (Rules::apply_rule    *)
(* and what it calls, plugins/rules.rs): block, rewrite, cname, forward,   *)
(* with forward's CNAME resolution and ECH completion.                     *)
(*                                                                         *)
(* A query is a task that waits each time it asks an upstream; between two *)
(* waits it runs alone.  Queries meet in the cache of ECH templates.       *)
(*                                                                         *)
(* A name, a TTL or a set of SvcParams is reduced to what the stage tells  *)
(* apart: a record is [type, owner, ttl, to, svcb].                        *)
(***************************************************************************)
EXTENDS Ordering

CONSTANTS
  Queries,     \* concurrent queries (handle_query tasks)
  Names,       \* names clients ask for
  Qtypes,      \* query types clients ask for
  Actions,     \* the rules that may apply
  Templates,   \* domains of cloudflare_ech
  Zone         \* Zone[<<name, qtype>>]: what an upstream may answer, where it
               \* can do more than fail

NoName == "none"
NoSvcb == [from |-> "none"]
NoMsg == [rcode |-> "none", answers |-> << >>]

\* Rcodes and records as the stage tells them apart: every failure but NXDOMAIN
\* is a ServFail, and only HTTPS records have SvcParams.
Rcodes == {"NoError", "NXDomain", "ServFail"}
Svcbs == [cf : BOOLEAN, ech : BOOLEAN, from : STRING]
Ttls == {"upstream", "rule"}
Records ==
  [type : {"A", "AAAA", "CNAME"}, owner : STRING, ttl : Ttls,
   to : STRING \cup {NoName}, svcb : {NoSvcb}]
    \cup [type : {"HTTPS"}, owner : STRING, ttl : Ttls,
          to : STRING \cup {NoName}, svcb : Svcbs]
Messages == [rcode : Rcodes, answers : Seq(Records)]

\* Every rule has a kind, and the fields its kind has in RuleAction; valid is
\* whether the target of a cname or rewrite is usable once the captures are
\* substituted (parse_name, Ipv4Addr::parse).
ASSUME ActionsAssumption ==
  \A r \in Actions :
    /\ r.kind \in {"block", "rewrite", "cname", "forward"}
    /\ r.kind = "block" => r.poison \in BOOLEAN
    /\ r.kind \in {"rewrite", "cname"} => r.valid \in BOOLEAN
    /\ r.kind = "cname" => r.target \in STRING
    /\ r.kind = "forward" => /\ r.template \in Templates \cup {NoName}
                             /\ r.upstream \in STRING
ASSUME NamesAssumption == Names \subseteq STRING
ASSUME ZoneAssumption == \A k \in DOMAIN Zone : Zone[k] \subseteq Messages

VARIABLES
  pc,     \* pc[q]: idle, what q waits for, or answered
  ctx,    \* ctx[q]: name, qtype, own client subnet, and the rule applied
  resp,   \* resp[q]: the message in the making, then ctx.response
  ech,    \* ech_cache: template domain -> entry
  first,  \* history: the upstream's answer to q itself
  second, \* history: its answer to the target of a CNAME chain
  sent    \* history: what q asked upstreams

forwardVars == <<pc, ctx, resp, ech, first, second, sent>>

Waiting == {"main", "target", "template", "cname"}
NoCtx == [name |-> NoName]
NoEntry == [kind |-> "miss"]

-----------------------------------------------------------------------------
(* Records and messages                                                    *)

Message(rcode, answers) == [rcode |-> rcode, answers |-> answers]
Record(type, owner, ttl, to, svcb) ==
  [type |-> type, owner |-> owner, ttl |-> ttl, to |-> to, svcb |-> svcb]

IsAddress(r) == r.type \in {"A", "AAAA"}
IsCname(r) == r.type = "CNAME"

\* last_cname_index, from 1; 0 where the answer does not start with a CNAME.
LastCname(answers) ==
  CHOOSE n \in 0..Len(answers) :
    /\ \A i \in 1..n : IsCname(answers[i])
    /\ n < Len(answers) => ~IsCname(answers[n + 1])

\* chain_completed_with_address: the last record that is not a CNAME is the
\* address of the name the leading chain ends in.
ChainCompleted(answers) ==
  \E i \in DOMAIN answers :
    /\ \A j \in DOMAIN answers : j > i => IsCname(answers[j])
    /\ IsAddress(answers[i])
    /\ LastCname(answers) > 0
    /\ answers[i].owner = answers[LastCname(answers)].to

MutOwn_Kept(r, owner) == r

\* An address record now owned by `owner`.
Own(r, owner) == IF IsAddress(r) THEN [r EXCEPT !.owner = owner] ELSE r

\* collapse_completed_chain.
Collapse(answers, owner) ==
  LET n == LastCname(answers)
  IN [i \in 1..(Len(answers) - n) |-> Own(answers[n + i], owner)]

\* address_records_with_owner.
AddressRecords(answers, owner) ==
  LET addresses == Picked(answers, {i \in DOMAIN answers : IsAddress(answers[i])})
  IN [i \in DOMAIN addresses |-> Own(addresses[i], owner)]

\* record_uses_cf: an ipv4hint inside Cloudflare's ranges and no ech.
UsesCf(r) == r.type = "HTTPS" /\ r.svcb.cf /\ ~r.svcb.ech

MutEchReplaced_EveryHttps(answers, svcb, owner) ==
  [i \in DOMAIN answers |->
     IF answers[i].type = "HTTPS"
     THEN Record("HTTPS", owner, answers[i].ttl, NoName, svcb)
     ELSE answers[i]]

\* cf_ech_replacement_https.
EchReplaced(answers, svcb, owner) ==
  [i \in DOMAIN answers |->
     IF UsesCf(answers[i])
     THEN Record("HTTPS", owner, answers[i].ttl, NoName, svcb)
     ELSE answers[i]]

\* rewrite_ttl_in_response.
WithTtl(answers) == [i \in DOMAIN answers |-> [answers[i] EXCEPT !.ttl = "rule"]]

\* cache_upstream_response keeps an answer with records (all of the types
\* modelled are), and an empty one that is NOERROR or NXDOMAIN.
Cacheable(msg) == msg.answers # << >> \/ msg.rcode \in {"NoError", "NXDomain"}

HasEch(r) == r.type = "HTTPS" /\ r.svcb.ech

MutEchEntry_AnyHttps(msg, upstream) ==
  IF msg.answers = << >> \/ msg.answers[1].type # "HTTPS" THEN [kind |-> "useless"]
  ELSE [kind |-> "template", svcb |-> [msg.answers[1].svcb EXCEPT !.from = upstream]]

\* The cache entry made of msg, with first_ech_svcb_from_cache applied; a
\* template remembers the upstream it came from, which the code does not.
EchEntry(msg, upstream) ==
  LET found == Picked(msg.answers, {i \in DOMAIN msg.answers : HasEch(msg.answers[i])})
  IN IF found = << >> THEN [kind |-> "useless"]
     ELSE [kind |-> "template", svcb |-> [found[1].svcb EXCEPT !.from = upstream]]

-----------------------------------------------------------------------------
(* Steps shared by the actions                                             *)

\* What an upstream may answer.
Answers(name, qtype) ==
  IF <<name, qtype>> \in DOMAIN Zone THEN Zone[<<name, qtype>>] ELSE {}

\* The EDNS Client Subnet of a query made for a rule (parse_rule_edns).
RuleSubnet(rule) == IF rule.subnet THEN "rule" ELSE "none"

\* apply_edns on a clone of the client's message keeps the client's own.
MainSubnet(c) == IF c.subnet THEN "client" ELSE RuleSubnet(c.rule)

\* Upstreams::query: q waits for an answer to what it asked.
Ask(q, purpose, upstream, subnet) ==
  /\ pc' = [pc EXCEPT ![q] = purpose]
  /\ sent' = [sent EXCEPT ![q] = @ \cup
       {[purpose |-> purpose, upstream |-> upstream, subnet |-> subnet]}]

Respond(q, msg) ==
  /\ pc' = [pc EXCEPT ![q] = "answered"]
  /\ resp' = [resp EXCEPT ![q] = msg]

\* The end of forward_query: the TTL override.
Served(rule, msg) ==
  IF rule.ttl THEN Message(msg.rcode, WithTtl(msg.answers)) ELSE msg

\* msg with its candidates completed from what the template cache holds.
WithTemplate(entry, msg, owner) ==
  IF entry.kind = "template"
  THEN Message(msg.rcode, EchReplaced(msg.answers, entry.svcb, owner))
  ELSE msg

\* Only an answer with a candidate makes forward_query fetch the template.
WantsTemplate(rule, msg) ==
  rule.template # NoName /\ \E i \in DOMAIN msg.answers : UsesCf(msg.answers[i])

\* forward_query after resolve_cnames, with fetch_ech_template up to its wait.
FinishForward(q, msg) ==
  LET rule == ctx[q].rule IN
  \/ /\ ~WantsTemplate(rule, msg)
     /\ Respond(q, Served(rule, msg)) /\ UNCHANGED sent
  \/ /\ WantsTemplate(rule, msg) /\ ech[rule.template] # NoEntry
     /\ Respond(q, Served(rule, WithTemplate(ech[rule.template], msg, ctx[q].name)))
     /\ UNCHANGED sent
  \/ /\ WantsTemplate(rule, msg) /\ ech[rule.template] = NoEntry
     /\ resp' = [resp EXCEPT ![q] = msg]
     /\ Ask(q, "template", rule.upstream, "none")

-----------------------------------------------------------------------------
(* Actions                                                                 *)

ForwardInit ==
  /\ pc = [q \in Queries |-> "idle"]
  /\ ctx = [q \in Queries |-> NoCtx]
  /\ resp = [q \in Queries |-> NoMsg]
  /\ ech = [d \in Templates |-> NoEntry]
  /\ first = [q \in Queries |-> NoMsg]
  /\ second = [q \in Queries |-> NoMsg]
  /\ sent = [q \in Queries |-> {}]

\* A query arrives with rule r picked for it.
Arrives(q, r) ==
  /\ pc[q] = "idle"
  /\ \E n \in Names, t \in Qtypes, own \in BOOLEAN :
       ctx' = [ctx EXCEPT ![q] = [name |-> n, qtype |-> t, subnet |-> own, rule |-> r]]
  /\ UNCHANGED <<ech, first, second>>

\* build_poison has an address only for address queries.
Block(q) ==
  \E r \in Actions :
    /\ r.kind = "block" /\ Arrives(q, r)
    /\ Respond(q, IF ~r.poison THEN Message("NXDomain", << >>)
                  ELSE IF ctx'[q].qtype \notin {"A", "AAAA"} THEN Message("NoError", << >>)
                  ELSE Message("NoError",
                         <<Record(ctx'[q].qtype, ctx'[q].name, "rule", NoName, NoSvcb)>>))
    /\ UNCHANGED sent

\* build_rewrite_response.
Rewrite(q) ==
  \E r \in Actions :
    /\ r.kind = "rewrite" /\ Arrives(q, r)
    /\ Respond(q, IF ctx'[q].qtype # "A" THEN Message("NoError", << >>)
                  ELSE IF ~r.valid THEN Message("ServFail", << >>)
                  ELSE Message("NoError",
                         <<Record("A", ctx'[q].name, "rule", NoName, NoSvcb)>>))
    /\ UNCHANGED sent

\* deny_qtypes of forward and cname: NODATA.
Deny(q) ==
  \E r \in Actions :
    /\ r.kind \in {"forward", "cname"} /\ Arrives(q, r)
    /\ ctx'[q].qtype \in r.deny
    /\ Respond(q, Message("NoError", << >>))
    /\ UNCHANGED sent

\* handle_cname with a target that is no name.
BadCname(q) ==
  \E r \in Actions :
    /\ r.kind = "cname" /\ Arrives(q, r)
    /\ ctx'[q].qtype \notin r.deny /\ ~r.valid
    /\ Respond(q, Message("ServFail", << >>))
    /\ UNCHANGED sent

\* handle_cname up to its wait: the target is asked without any subnet.
SendCname(q) ==
  \E r \in Actions :
    /\ r.kind = "cname" /\ Arrives(q, r)
    /\ ctx'[q].qtype \notin r.deny /\ r.valid
    /\ Ask(q, "cname", r.upstream, "none")
    /\ UNCHANGED resp

\* Every answer of the target is passed on as the query's own.
CnameAnswered(q) ==
  /\ pc[q] = "cname"
  /\ \E msg \in Answers(ctx[q].rule.target, ctx[q].qtype) :
       Respond(q, Message(msg.rcode,
         [i \in DOMAIN msg.answers |-> [msg.answers[i] EXCEPT !.owner = ctx[q].name]]))
  /\ UNCHANGED <<ctx, ech, first, second, sent>>

CnameFailed(q) ==
  /\ pc[q] = "cname"
  /\ Respond(q, Message("NoError",
       <<Record("CNAME", ctx[q].name, "rule", ctx[q].rule.target, NoSvcb)>>))
  /\ UNCHANGED <<ctx, ech, first, second, sent>>

SendForward(q) ==
  \E r \in Actions :
    /\ r.kind = "forward" /\ Arrives(q, r)
    /\ ctx'[q].qtype \notin r.deny
    /\ Ask(q, "main", r.upstream, MainSubnet(ctx'[q]))
    /\ UNCHANGED resp

\* forward_query with the upstream's answer, through resolve_cnames up to its
\* wait: an unfinished chain makes it ask for the target of the last CNAME.
MainAnswered(q) ==
  /\ pc[q] = "main"
  /\ \E msg \in Answers(ctx[q].name, ctx[q].qtype) :
       LET rule == ctx[q].rule IN
       /\ first' = [first EXCEPT ![q] = msg]
       /\ \/ /\ ~rule.resolve \/ LastCname(msg.answers) = 0
             /\ FinishForward(q, msg)
          \/ /\ rule.resolve /\ ChainCompleted(msg.answers)
             /\ FinishForward(q, Message(msg.rcode, Collapse(msg.answers, ctx[q].name)))
          \/ /\ rule.resolve /\ LastCname(msg.answers) > 0
             /\ ~ChainCompleted(msg.answers)
             /\ resp' = [resp EXCEPT ![q] = msg]
             /\ Ask(q, "target", rule.upstream, RuleSubnet(rule))
  /\ UNCHANGED <<ctx, ech, second>>

\* The upstream group failed: SERVFAIL.
MainFailed(q) ==
  /\ pc[q] = "main"
  /\ Respond(q, Message("ServFail", << >>))
  /\ UNCHANGED <<ctx, ech, first, second, sent>>

\* The target of the chain resp[q] starts with.
TargetOf(msg) == msg.answers[LastCname(msg.answers)].to

MutResolved_AnyRecord(msg, resolved, owner) ==
  Message(msg.rcode, AddressRecords(resolved.answers, owner))

\* resolve_cnames: only a first record that is an address (classify_resolved)
\* replaces the chain.
Resolved(msg, resolved, owner) ==
  IF resolved.answers # << >> /\ IsAddress(resolved.answers[1])
  THEN Message(msg.rcode, AddressRecords(resolved.answers, owner))
  ELSE msg

MutTargetAnswered_Chases(q) ==
  /\ pc[q] = "target"
  /\ \E resolved \in Answers(TargetOf(resp[q]), ctx[q].qtype) :
       IF resolved.answers # << >> /\ IsCname(resolved.answers[1])
       THEN /\ resp' = [resp EXCEPT ![q] = resolved]
            /\ Ask(q, "target", ctx[q].rule.upstream, RuleSubnet(ctx[q].rule))
       ELSE FinishForward(q, Resolved(resp[q], resolved, ctx[q].name))
  /\ UNCHANGED <<ctx, ech, first, second>>

TargetAnswered(q) ==
  /\ pc[q] = "target"
  /\ \E resolved \in Answers(TargetOf(resp[q]), ctx[q].qtype) :
       /\ second' = [second EXCEPT ![q] = resolved]
       /\ FinishForward(q, Resolved(resp[q], resolved, ctx[q].name))
  /\ UNCHANGED <<ctx, ech, first>>

TargetFailed(q) ==
  /\ pc[q] = "target"
  /\ FinishForward(q, resp[q])
  /\ UNCHANGED <<ctx, ech, first, second>>

\* fetch_ech_template stores the answer if it can, then reads the cache again:
\* an answer it could not store leaves what another query stored meanwhile.
TemplateAnswered(q) ==
  /\ pc[q] = "template"
  /\ LET rule == ctx[q].rule
         d == rule.template
     IN \E msg \in Answers(d, "HTTPS") :
          /\ ech' = IF Cacheable(msg)
                    THEN [ech EXCEPT ![d] = EchEntry(msg, rule.upstream)] ELSE ech
          /\ Respond(q, Served(rule, WithTemplate(ech'[d], resp[q], ctx[q].name)))
  /\ UNCHANGED <<ctx, first, second, sent>>

TemplateFailed(q) ==
  /\ pc[q] = "template"
  /\ Respond(q, Served(ctx[q].rule, resp[q]))
  /\ UNCHANGED <<ctx, ech, first, second, sent>>

\* A template lives for 60 s to an hour, longer than any query.
Expire(d) ==
  /\ ech[d] # NoEntry
  /\ ech' = [ech EXCEPT ![d] = NoEntry]
  /\ UNCHANGED <<pc, ctx, resp, first, second, sent>>

\* The answered query goes on to the later stages.
Leave(q) ==
  /\ pc[q] = "answered"
  /\ pc' = [pc EXCEPT ![q] = "idle"]
  /\ ctx' = [ctx EXCEPT ![q] = NoCtx]
  /\ resp' = [resp EXCEPT ![q] = NoMsg]
  /\ first' = [first EXCEPT ![q] = NoMsg]
  /\ second' = [second EXCEPT ![q] = NoMsg]
  /\ sent' = [sent EXCEPT ![q] = {}]
  /\ UNCHANGED ech

Resume(q) ==
  \/ CnameAnswered(q) \/ CnameFailed(q)
  \/ MainAnswered(q) \/ MainFailed(q)
  \/ TargetAnswered(q) \/ TargetFailed(q)
  \/ TemplateAnswered(q) \/ TemplateFailed(q)

Start(q) ==
  Block(q) \/ Rewrite(q) \/ Deny(q) \/ BadCname(q) \/ SendCname(q) \/ SendForward(q)

ForwardNext ==
  \/ \E q \in Queries : Start(q) \/ Resume(q) \/ Leave(q)
  \/ \E d \in Templates : Expire(d)

ForwardSpec == ForwardInit /\ [][ForwardNext]_forwardVars

\* A query to an upstream group ends, by its per-client timeouts.
FairForwardSpec == ForwardSpec /\ \A q \in Queries : WF_forwardVars(Resume(q))

-----------------------------------------------------------------------------
(* Properties                                                              *)

\* Type invariant: a query waits only for what its rule made it ask, and a
\* template in the cache has an ech.
ForwardTypeOK ==
  /\ \A q \in Queries :
       /\ pc[q] \in Waiting \cup {"idle", "answered"}
       /\ pc[q] = "idle" <=> ctx[q] = NoCtx
       /\ pc[q] \in Waiting =>
            pc[q] \in {s.purpose : s \in sent[q]}
       /\ pc[q] = "target" =>
            ctx[q].rule.resolve /\ LastCname(resp[q].answers) > 0
       /\ pc[q] = "template" => ctx[q].rule.template \in Templates
       /\ pc[q] = "answered" => resp[q].rcode \in {"NoError", "NXDomain", "ServFail"}
  /\ \A d \in Templates :
       \/ ech[d].kind \in {"miss", "useless"}
       \/ ech[d].kind = "template" /\ ech[d].svcb.ech

\* A forward rule has handed over what became of an upstream's answer.
Forwarded(q) == pc[q] = "answered" /\ first[q] # NoMsg

\* The names an answer leads to from name: what every set has that has name and,
\* with the owner of a CNAME, its target.
Targets(answers) ==
  {answers[i].to : i \in {j \in DOMAIN answers : IsCname(answers[j])}}
FollowsFrom(S, answers, name) ==
  /\ name \in S
  /\ \A i \in DOMAIN answers :
       IsCname(answers[i]) /\ answers[i].owner \in S => answers[i].to \in S
Reached(answers, name) ==
  LET names == {name} \cup Targets(answers)
  IN {n \in names : \A S \in SUBSET names : FollowsFrom(S, answers, name) => n \in S}

AddressesReached(answers, name) ==
  \A i \in DOMAIN answers :
    IsAddress(answers[i]) => answers[i].owner \in Reached(answers, name)

\* Dropping a CNAME chain, whether it came complete or was resolved later,
\* leaves no address the client cannot get to from the name it asked for
\* (collapse_completed_chain, address_records_with_owner).
ChainUnbroken ==
  \A q \in Queries :
    Forwarded(q) /\ AddressesReached(first[q].answers, ctx[q].name) =>
      AddressesReached(resp[q].answers, ctx[q].name)

\* Whatever the follow-up queries return, and whether they fail or not, the
\* client gets the rcode of the upstream's answer and, if it had records, an
\* answer that has records: resolve_cnames keeps the original response where it
\* has no address to replace it with, as its comment says (rules.rs:898; the
\* design says otherwise of an empty resolution, see EmptyDropsCname), and so
\* does fetch_ech_template.
NeverWorse ==
  \A q \in Queries : Forwarded(q) =>
    /\ resp[q].rcode = first[q].rcode
    /\ first[q].answers # << >> => resp[q].answers # << >>

\* ECH completion replaces all candidates or none, each in its place, and
\* touches nothing else (record_uses_cf, cf_ech_replacement_https).
EchOnlyCandidates ==
  \A q \in Queries : Forwarded(q) /\ ~ctx[q].rule.resolve =>
    LET old == first[q].answers
        new == resp[q].answers
        Same(i) == new[i] = [old[i] EXCEPT !.ttl = new[i].ttl]
        Candidates == {i \in DOMAIN old :
          old[i].type = "HTTPS" /\ old[i].svcb.cf /\ ~old[i].svcb.ech}
    IN /\ DOMAIN new = DOMAIN old
       /\ \A i \in DOMAIN old \ Candidates : Same(i)
       /\ \/ \A i \in Candidates : Same(i)
          \/ \A i \in Candidates :
               new[i].type = "HTTPS" /\ new[i].svcb.ech /\ new[i].owner = ctx[q].name

\* Every query is answered: no chain is followed twice and no cache miss
\* starts over, whatever upstreams say.
QueryEnds == \A q \in Queries : pc[q] # "idle" ~> pc[q] = "answered"

-----------------------------------------------------------------------------
(* What comments and the design say and the code does not do               *)

\* A target that resolves to nothing has its CNAME dropped from the answer
\* (docs/design/2026-08-27-rsdns-forward-resolve-cname.md:29-30 and 43, and the
\* comment on Resolved::Empty, rules.rs:1012).  resolve_cnames keeps it.
EmptyDropsCname ==
  \A q \in Queries :
    Forwarded(q) /\ second[q] # NoMsg /\ second[q].answers = << >> =>
      \A i \in DOMAIN resp[q].answers :
        IsCname(resp[q].answers[i]) => resp[q].answers[i].to # TargetOf(first[q])

\* The template comes from the rule's own upstream (rules.rs:24 "same
\* upstream", rules.rs:330-334).
TemplateOfOwnUpstream ==
  \A q \in Queries : Forwarded(q) =>
    \A i \in DOMAIN resp[q].answers :
      resp[q].answers[i].type = "HTTPS" =>
        resp[q].answers[i].svcb.from \in {"answer", ctx[q].rule.upstream}

\* edns adds the subnet "to every query this rule sends" (rules.rs:19-21).
SubnetOnEveryQuery ==
  \A q \in Queries : \A s \in sent[q] :
    ctx[q].rule.kind = "forward" /\ ctx[q].rule.subnet => s.subnet # "none"

\* A cname rule "returns the CNAME record" (rules.rs:958).
CnameIsReturned ==
  \A q \in Queries :
    pc[q] = "answered" /\ ctx[q].rule.kind = "cname" /\ ctx[q].rule.valid
      /\ ctx[q].qtype \notin ctx[q].rule.deny
    => \E i \in DOMAIN resp[q].answers :
         IsCname(resp[q].answers[i]) /\ resp[q].answers[i].to = ctx[q].rule.target
=============================================================================
