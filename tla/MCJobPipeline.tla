--------------------------- MODULE MCJobPipeline -----------------------------
(* Small boards for module JobPipeline: a1 and a2 differ only in the query   *)
(* part of their URLs, so they share a dedup key.                            *)
EXTENDS JobPipeline, TLC

CONSTANTS a1, a2, b

MCPostings == {a1, a2, b}
MCKeyOf == a1 :> "a" @@ a2 :> "a" @@ b :> "b"
MCDomainOf == [x \in MCPostings |-> "board"]
TwoPostings == {a1, a2}
TwoKeyOf == [x \in TwoPostings |-> "a"]
TwoDomainOf == [x \in TwoPostings |-> "board"]
MCRateCap == "board" :> 1
==============================================================================
