---------------------------- MODULE MCCacheStage ----------------------------
(* Small instances of CacheStage.                                          *)
EXTENDS CacheStage

Says(rcode, recs, ttl) == [rcode |-> rcode, recs |-> recs, ttl |-> ttl]

\* Records only.
RecordAnswers == {Says("NoError", "known", 1), Says("NoError", "known", 2)}

\* Every class of answer: records with a TTL below and above max_ttl, records
\* with NXDOMAIN (a CNAME chain that ends nowhere), types the cache has no
\* record for, names that do not parse back, and the empty answers.
AllAnswers ==
  {Says("NoError", "known", 1), Says("NoError", "known", 3),
   Says("NXDomain", "known", 1), Says("NoError", "other", 1),
   Says("NoError", "unreadable", 1)}
  \cup {Says(rcode, "none", NegativeTtl) : rcode \in Rcodes}
=============================================================================
