----------------------------- MODULE ArchivePages -----------------------------
(***************************************************************************)
(* Reading what has been published page by page: the archive page, the     *)
(* page of saved items and the list of editions, while runs publish and    *)
(* replace editions and collect items again.  The archive is paged by      *)
(* offsets into a result that is read anew for every page, the list of     *)
(* editions by dates.                                                      *)
(***************************************************************************)
EXTENDS Integers, FiniteSets, Sequences

CONSTANTS
    Dates,          \* the dates of editions
    Items,          \* the ids of items
    Topics,         \* their topics: what a search can filter by
    Topic,          \* Topic[i]: the topic of item i when it is first collected
    Compositions,   \* sequences of items an edition can consist of
    PageSize,       \* entries of a page: 20
    MaxLosses       \* bound on the losses

ASSUME PagesAssumption ==
    /\ Dates \subseteq Nat \ {0} /\ IsFiniteSet(Dates) /\ Topic \in [Items -> Topics]
    /\ Compositions \subseteq Seq(Items) /\ <<>> \notin Compositions
    /\ PageSize \in Nat \ {0} /\ MaxLosses \in Nat
    /\ Topics \cap {"all", "saved", "none"} = {}

VARIABLES
    today,          \* readerCalendarDate
    edition,        \* edition[d]: its status and the items of its entries
    topic,          \* topic[i]: what the row of item i says, which filters read
    saved,          \* the items whose last save or unsave is a save
    losses,         \* history: editions replaced, items rewritten, saves undone
    reader,         \* who reads: archive, saved or list
    page,           \* the page shown, or Blank
    active,         \* activeParams
    request,        \* the initial load and the request of the last click
    seen, due,      \* history: listed since the first page, and to be listed
    since,          \* history: losses when the first page was read
    late            \* history: the initial load was answered after a search

published == <<today, edition, topic, saved, losses>>
shown == <<page, active, seen, due, since, late>>
pagesVars == <<published, reader, shown, request>>

Blank  == [of |-> "none", items |-> {}, next |-> 0]
Asked(kind, of, from) ==
    [kind |-> kind, of |-> of, from |-> from, answer |-> Blank, all |-> {}, at |-> 0]
Quiet  == Asked("idle", "none", 0)
Params == Topics \cup {"all", "saved"}

----------------------------------------------------------------------------
(* The repository.  A cursor is an offset or a date; 0 stands for none.      *)
\* Partial and published editions are visible, drafts are not.
Visible(d)    == edition[d].status = "visible"
Readable      == {d \in Dates : Visible(d) /\ d <= today}
Matches(i, f) == f = "all" \/ (f = "saved" /\ i \in saved) \/ topic[i] = f

\* Newest first, and by their places in an edition.
Before(a, b) == a[1] > b[1] \/ (a[1] = b[1] /\ a[2] < b[2])
Listed(f) == UNION {{e \in {<<d, p>> : p \in DOMAIN edition[d].items} :
                        Matches(edition[d].items[e[2]], f)} : d \in Readable}
Offset(e, S)  == Cardinality({a \in S : Before(a, e)})

\* The next page starts after this one; with an entry left out ...
LastOffset(from) == from + PageSize + 1
NextOffset(from) == from + PageSize
SearchArchive(f, from) ==
    [of |-> f,
     items |-> {e \in Listed(f) : Offset(e, Listed(f)) \in from .. from + PageSize - 1},
     next |-> IF Cardinality(Listed(f)) > from + PageSize THEN NextOffset(from) ELSE 0]

Earlier(cursor) == {d \in Readable : cursor = 0 \/ d < cursor}
ListEditions(cursor) ==
    LET rest == Earlier(cursor)
        items == {d \in rest : Cardinality({a \in rest : a > d}) < PageSize}
    IN  [of |-> "all", items |-> items,
         next |-> IF Cardinality(rest) > PageSize
                  THEN CHOOSE d \in items : \A a \in items : d <= a ELSE 0]

----------------------------------------------------------------------------
(* What is published and saved meanwhile. *)
Loses(lost) == losses' = losses + (IF lost THEN 1 ELSE 0) /\ losses' <= MaxLosses

\* An edition is saved in one batch; a draft leaves a visible one alone.
SaveEdition(d) ==
    /\ \E status \in {"draft", "visible"}, items \in Compositions :
          /\ status = "draft" => ~Visible(d)
          /\ edition' = [edition EXCEPT ![d] = [status |-> status, items |-> items]]
    /\ Loses(Visible(d))
    /\ UNCHANGED <<today, topic, saved, reader, shown, request>>

\* upsertItems of any run rewrites the row of an item it collects again, whatever
\* edition the item is in.
Placed(i) == \E d \in Readable : \E p \in DOMAIN edition[d].items : edition[d].items[p] = i
UpsertItem(i) ==
    /\ \E t \in Topics \ {topic[i]} : topic' = [topic EXCEPT ![i] = t]
    /\ Loses(Placed(i))
    /\ UNCHANGED <<today, edition, saved, reader, shown, request>>

Save(i) ==
    /\ saved' = saved \cup {i} /\ saved' # saved
    /\ UNCHANGED <<today, edition, topic, losses, reader, shown, request>>
Unsave(i) ==
    /\ i \in saved /\ saved' = saved \ {i} /\ Loses(TRUE)
    /\ UNCHANGED <<today, edition, topic, reader, shown, request>>

Tomorrow ==
    /\ today' \in Dates /\ today' = today + 1
    /\ UNCHANGED <<edition, topic, saved, losses, reader, shown, request>>

----------------------------------------------------------------------------
(* The reader's page. *)
FirstParams(r) == IF r = "saved" THEN "saved" ELSE "all"

PagesInit ==
    /\ today \in Dates
    /\ edition = [d \in Dates |-> [status |-> "none", items |-> <<>>]]
    /\ topic = Topic /\ saved = {} /\ losses = 0
    /\ reader \in {"archive", "saved", "list"}
    /\ page = Blank /\ active = FirstParams(reader)
    /\ request = [first |-> Asked("search", FirstParams(reader), 0), click |-> Quiet]
    /\ seen = {} /\ due = {} /\ since = 0 /\ late = FALSE

\* The buttons are disabled while the answer to a click is awaited, not
\* during the initial load.  The search form of the archive has any filter.
Enabled == request.click = Quiet
Search ==
    /\ reader = "archive" /\ Enabled
    /\ \E f \in Topics \cup {"all"} :
          request' = [request EXCEPT !.click = Asked("search", f, 0)]
    /\ UNCHANGED <<published, reader, shown>>
NextPage ==
    /\ Enabled /\ page.next # 0
    /\ request' = [request EXCEPT !.click = Asked("next", active, page.next)]
    /\ UNCHANGED <<published, reader, shown>>

\* The Worker reads one page; r.all and r.at are history.
Serve(s) ==
    /\ request[s].kind # "idle" /\ request[s].answer = Blank
    /\ LET r == request[s]
       IN  request' = [request EXCEPT ![s] = [r EXCEPT
              !.answer = IF reader = "list" THEN ListEditions(r.from)
                         ELSE SearchArchive(r.of, r.from),
              !.all = IF reader = "list" THEN Readable ELSE Listed(r.of),
              !.at = losses]]
    /\ UNCHANGED <<published, reader, shown>>

\* The parameters of a search become active with its answer.
ActiveAfter(r) == IF r.kind = "search" THEN r.of ELSE active
Answered(s) ==
    /\ request[s].answer # Blank
    /\ LET r == request[s]
       IN  /\ page' = r.answer
           /\ active' = IF s = "click" THEN ActiveAfter(r) ELSE active
           /\ seen' = IF r.kind = "next" THEN seen \cup r.answer.items ELSE r.answer.items
           /\ IF r.kind = "next" THEN UNCHANGED <<due, since, late>>
              ELSE /\ due' = r.all /\ since' = r.at
                   /\ late' = (s = "first" /\ page # Blank)
    /\ request' = [request EXCEPT ![s] = Quiet]
    /\ UNCHANGED <<published, reader>>

\* A request fails: the page stays as it was.
Failed(s) ==
    /\ request[s].kind # "idle"
    /\ request' = [request EXCEPT ![s] = Quiet]
    /\ UNCHANGED <<published, reader, shown>>

PagesNext ==
    \/ \E d \in Dates : SaveEdition(d)
    \/ \E i \in Items : UpsertItem(i) \/ Save(i) \/ Unsave(i)
    \/ Tomorrow \/ Search \/ NextPage
    \/ \E s \in {"first", "click"} : Serve(s) \/ Answered(s) \/ Failed(s)

PagesSpec == PagesInit /\ [][PagesNext]_pagesVars

----------------------------------------------------------------------------
(* Properties. *)

\* "retains every archive filter while advancing the cursor": the next page is
\* asked for with the parameters of the page that is shown.
NextPageRetainsFilters == Enabled /\ page.next # 0 => page.of = active

\* A reader who goes on to the last page has been shown all that was there
\* when the first page was read, whatever has been published in between: all
\* editions, each once, and all entries unless an edition was replaced, an item
\* that is listed rewritten or a save undone, or the initial load came after a search.
ListingIsWhole ==
    /\ page # Blank /\ page.next = 0 /\ ~late /\ (reader = "list" \/ since = losses) =>
          due \subseteq seen
    /\ reader = "list" /\ request["click"].kind = "next" =>
          request["click"].answer.items \cap seen = {}
=============================================================================
