--------------------------- MODULE MCCheckpoints ---------------------------
(* Four stages.  A paper a, a news item b that fills a chunk, h whose name   *)
(* vanishes when it is decoded, and x that fits no row.                      *)
EXTENDS Checkpoints, TLC

MCKind  == <<"collect", "items", "present", "compose">>
MCSize  == [a |-> 1, b |-> 2, h |-> 1, x |-> 3]
MCFinds == {<<"a", "b">>, <<"h", "b">>, <<"x">>, <<>>}

\* What the version before the markers has left: nothing decoded; and a
\* shortlist of the version that normalized but did not present.
Raw(form, ids) == [form |-> form, of |-> Map(LAMBDA id : Entry(id, 0, 0, 0), ids), marks |-> {}]
Normal(ids) == [form |-> "chunks", of |-> Map(LAMBDA id : Entry(id, 1, 0, 0), ids), marks |-> {"normalization"}]
RawRun(form, n) ==
    [s \in 1..n |-> Raw(form, IF s <= 3 THEN <<"a", "h", "b">> ELSE <<"b", "a">>)]
MCOlder ==
    {RawRun(form, n) : form \in {"whole", "chunks"}, n \in 0..4}
        \cup {<<Raw("chunks", <<"a", "h", "b">>), Normal(<<"a", "b">>), Normal(<<"a", "b">>)>>}
=============================================================================
