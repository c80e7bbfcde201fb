---------------------------- MODULE MCItemGroups ----------------------------
(* Every small list of research items is consolidated, every small list of   *)
(* news items is deduplicated and clustered, and the facts of every small    *)
(* development are reconciled.                                               *)
EXTENDS ItemGroups, TLC

CONSTANTS ResearchPlaces, NewsPlaces, Signals, Days

MCIdFamilies == {"arxiv", "doi", "openalex"}
NoIds      == [f \in MCIdFamilies |-> {}]
PlainPaper ==
    [ids |-> NoIds, url |-> "u", title |-> "t", commentary |-> FALSE, related |-> {},
     access |-> 1, role |-> 1, length |-> 1, sources |-> {}, day |-> 1]
WithIds(a, d, o) ==
    [PlainPaper EXCEPT !.ids = [arxiv |-> a, doi |-> d, openalex |-> o], !.url = "v"]
PaperKinds ==
    {WithIds({"a1"}, {}, {}), WithIds({"a2"}, {}, {}), WithIds({"a1"}, {"d1"}, {}),
     WithIds({}, {"d1"}, {}), WithIds({}, {"d2"}, {"o1"}), WithIds({}, {}, {"o1"}), PlainPaper}
Comment == [PlainPaper EXCEPT !.commentary = TRUE, !.title = "c"]
CommentKinds ==
    {[Comment EXCEPT !.related = {"a1"}], [Comment EXCEPT !.related = {"d1"}, !.access = 2],
     [Comment EXCEPT !.title = "t", !.url = "w", !.length = 0], [Comment EXCEPT !.access = 3]}
Research ==
    {[i \in DOMAIN f |-> f[i] @@ [key |-> i]] : f \in [1 .. ResearchPlaces -> PaperKinds \cup CommentKinds]}

NewsItem(day, event, documents) ==
    [ids |-> NoIds, url |-> documents, title |-> event, commentary |-> FALSE,
     day |-> day, event |-> event, documents |-> documents]
NewsKinds == {NewsItem(day, e, d) : day \in 1 .. Days, e \in {"e1", "e2"}, d \in {{}, {"doc"}}}
NewsLists ==
    {f \in [1 .. NewsPlaces -> NewsKinds] :
        \A i, j \in 1 .. NewsPlaces : i < j => f[i].day <= f[j].day}

Claim(e, v)  == [event |-> e, fact |-> "status", value |-> v]
ClaimKinds   == {Claim("e1", "proposed"), Claim("e1", "adopted"), Claim("e2", "adopted")}
SignalKinds  ==
    {[corroborates |-> c, events |-> e, facts |-> {f}, role |-> r, access |-> a] :
        c \in BOOLEAN, e \in {{"e1"}, {"e1", "e2"}}, f \in ClaimKinds, r \in {3, 4, 5}, a \in {1, 2}}
Numbered(s)  == {[s[i] EXCEPT !.access = 10 * @ + i] : i \in DOMAIN s}
MCValues     == <<"adopted", "proposed">>
MCRoles      == {3, 4, 5}
MCAccesses   == {10, 20}

MCGroupsInit ==
    /\ \/ grouping = "research" /\ collected \in Research
       \/ grouping = "news" /\ collected \in NewsLists
       \/ grouping = "signals" /\ \E s \in [1 .. Signals -> SignalKinds] : collected = Numbered(s)
    /\ GroupsInit
=============================================================================
