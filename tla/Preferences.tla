----------------------------- MODULE Preferences -----------------------------
(***************************************************************************)
(* The reader's preferences: the explicit weights and the feedback that    *)
(* adjusts them in D1, the pages that show and change them, one D1         *)
(* statement at a time, and the snapshot by which every execution of a run *)
(* selects with the same weights.  Weights are counted in hundredths.      *)
(***************************************************************************)
EXTENDS Integers, Sequences

CONSTANTS Keys,         \* the topics and sources that have a weight
          Explicits,    \* the weights a reader types, in hundredths
          Baseline,     \* the approved weight of every key
          Tabs,         \* the reader's browser tabs
          Runs,         \* workflow runs
          NoPage,       \* a tab shows no preferences
          NoSnapshot,   \* a run has no preference_snapshot event
          MaxFeedback,  \* bound on the adjustments ever recorded
          Keep,         \* days until runs and events are removed: 90
          MaxDay        \* bound on the days

ASSUME PreferencesAssumption ==
    /\ Keys # {} /\ Explicits \subseteq Int /\ Baseline \in Explicits
    /\ MaxFeedback \in Nat /\ Keep \in Nat \ {0} /\ MaxDay \in Nat

VARIABLES
    explicit,   \* explicit[k]: the weight of k in the preferences row
    feedback,   \* the adjusting feedback, in the order of its rows
    made,       \* history: how many adjustments were ever recorded
    tab,        \* tab[t]: the page and the request it waits for
    edited,     \* edited[t]: history, the weights typed since the page was answered
    current,    \* current[t]: history, no change since t's request read the row
    day,
    row,        \* row[r]: the day the run was created, or 0
    kept,       \* kept[r]: the day from which the id of the instance is free
    snapshot,   \* snapshot[r]: the event of id preference_snapshot:r
    exec,       \* exec[r]: the execution of r, loading its preferences
    used        \* used[r]: history, what the executions of r went on with

store == <<explicit, feedback, made>>
pages == <<tab, edited, current>>
runs  == <<row, kept, snapshot, exec, used>>
vars  == <<explicit, feedback, made, tab, edited, current, day, row, kept,
           snapshot, exec, used>>

Deltas     == {10, -10}
Weights    == [Keys -> Int]
Adjustment == [id : Nat, key : Keys, delta : Deltas, result : Int]
Prefs      == [weights : Weights, history : Seq(Adjustment)]
Default    == [weights |-> [k \in Keys |-> Baseline], history |-> <<>>]
AnyKey     == CHOOSE k \in Keys : TRUE
Ops        == {"load", "update", "remove", "reset", "rate"}
Request    == [weights : Weights, id : Nat, key : Keys, delta : Deltas]

Tab  == [shown : Prefs \cup {NoPage}, at : {"idle", "act", "delete", "row", "feedback", "answer"},
         op : Ops, sent : Request, got : Prefs]
\* A tab that waits for no answer; of a request only what it needs is kept.
Nothing == [weights |-> Default.weights, id |-> 0, key |-> AnyKey, delta |-> 10]
Idle(shown) == [shown |-> shown, at |-> "idle", op |-> "load",
                sent |-> Nothing, got |-> Default]

Exec == [at : {"off", "read", "row", "feedback", "save", "reread", "go", "lost"},
         got : Prefs]
Snapshot == [prefs : Prefs, on : Nat, linked : BOOLEAN]

\* The variables take their values in these sets.
TypeOK ==
    /\ explicit \in Weights
    /\ feedback \in Seq(Adjustment)
    /\ made \in Nat
    /\ tab \in [Tabs -> Tab]
    /\ edited \in [Tabs -> SUBSET Keys]
    /\ current \in [Tabs -> BOOLEAN]
    /\ day \in Nat
    /\ row \in [Runs -> Nat]
    /\ kept \in [Runs -> Nat]
    /\ snapshot \in [Runs -> Snapshot \cup {NoSnapshot}]
    /\ exec \in [Runs -> Exec]
    /\ used \in [Runs -> SUBSET Prefs]

Init ==
    /\ explicit = [k \in Keys |-> Baseline]
    /\ feedback = <<>>
    /\ made = 0
    /\ tab = [t \in Tabs |-> Idle(NoPage)]
    /\ edited = [t \in Tabs |-> {}]
    /\ current = [t \in Tabs |-> FALSE]
    /\ day = 1
    /\ row = [r \in Runs |-> 0]
    /\ kept = [r \in Runs |-> 0]
    /\ snapshot = [r \in Runs |-> NoSnapshot]
    /\ exec = [r \in Runs |-> [at |-> "off", got |-> Default]]
    /\ used = [r \in Runs |-> {}]

----------------------------------------------------------------------------
(* The weights. *)

\* To the nearest tenth: Math.round takes a half up, ROUND of SQL away from zero.
\* In binary fractions some halves fall to the other side; no property says which.
Rounded(w)    == ((w + 5) \div 10) * 10
SqlRounded(w) == IF w < 0 THEN -Rounded(-w) ELSE Rounded(w)

\* getPreferences runs through the feedback and rounds after every adjustment.
Adjusted(w, a) == [w EXCEPT ![a.key] = Rounded(@ + a.delta)]
Effective(p) ==
    LET after[n \in 0 .. Len(p.history)] ==
            IF n = 0 THEN p.weights ELSE Adjusted(after[n - 1], p.history[n])
    IN  after[Len(p.history)]

\* recordFeedback lets SQL add up the adjustments there are; without the others ...
ResultOfOne(w, history, key, delta) == SqlRounded(w[key] + delta)

\* ... and as it is.
ResultOf(w, history, key, delta) ==
    LET sum[n \in 0 .. Len(history)] ==
            IF n = 0 THEN w[key] + delta
            ELSE sum[n - 1] + (IF history[n].key = key THEN history[n].delta ELSE 0)
    IN  SqlRounded(sum[Len(history)])

----------------------------------------------------------------------------
(* The pages.  A request is one Worker invocation; its D1 calls are steps. *)

At(t, l)     == tab[t].at = l
Ask(t, op, l, sent) ==
    tab' = [tab EXCEPT ![t].op = op, ![t].at = l, ![t].sent = sent] /\ UNCHANGED edited
Goto(t, l)   == tab' = [tab EXCEPT ![t].at = l] /\ UNCHANGED edited
Rest(t, shown) ==
    tab' = [tab EXCEPT ![t] = Idle(shown)] /\ edited' = [edited EXCEPT ![t] = {}]
Stay(t)      == tab' = [tab EXCEPT ![t] = Idle(tab[t].shown)] /\ UNCHANGED edited
Changed      == current' = [u \in Tabs |-> FALSE]

\* The page asks for the preferences when it is opened ...
Load(t) ==
    /\ At(t, "idle") /\ tab[t].shown = NoPage
    /\ Ask(t, "load", "row", Nothing)
    /\ UNCHANGED <<store, current, day, runs>>

\* ... and its buttons, which an unanswered request disables, ask for changes;
\* without that ...
EnabledWhileBusy(t) == tab[t].shown # NoPage

\* ... and as they are.
ButtonsEnabled(t) == tab[t].shown # NoPage /\ At(t, "idle")

\* A weight is typed into the page, which asks for nothing ...
Typed(p, k, w) == [weights |-> [p.weights EXCEPT ![k] = w], history |-> p.history]
Edit(t) ==
    /\ ButtonsEnabled(t)
    /\ \E k \in Keys, w \in Explicits :
          /\ tab' = [tab EXCEPT ![t].shown = Typed(@, k, w)]
          /\ edited' = [edited EXCEPT ![t] = @ \cup {k}]
    /\ UNCHANGED <<store, current, day, runs>>

\* ... until all that the page shows is saved, an adjustment removed, or everything reset.
Press(t) ==
    /\ ButtonsEnabled(t)
    /\ \/ Ask(t, "update", "act", [Nothing EXCEPT !.weights = tab[t].shown.weights])
       \/ \E i \in DOMAIN tab[t].shown.history :
             Ask(t, "remove", "act", [Nothing EXCEPT !.id = tab[t].shown.history[i].id])
       \/ Ask(t, "reset", "act", Nothing)
    /\ UNCHANGED <<store, current, day, runs>>

\* A card of the edition, on another page, asks for more or less like this.
Rate(t) ==
    /\ At(t, "idle") /\ tab[t].shown = NoPage /\ made < MaxFeedback
    /\ \E k \in Keys, d \in Deltas :
          Ask(t, "rate", "act", [Nothing EXCEPT !.key = k, !.delta = d])
    /\ UNCHANGED <<store, current, day, runs>>

\* recordFeedback: one INSERT ... SELECT.
RecordFeedback(t) ==
    /\ At(t, "act") /\ tab[t].op = "rate" /\ made < MaxFeedback
    /\ LET f == tab[t].sent
       IN  feedback' = Append(feedback,
              [id |-> made + 1, key |-> f.key, delta |-> f.delta,
               result |-> ResultOf(explicit, feedback, f.key, f.delta)])
    /\ made' = made + 1
    /\ Rest(t, NoPage) /\ Changed
    /\ UNCHANGED <<explicit, day, runs>>

\* updatePreferences writes all the weights of the page.
UpdatePreferences(t) ==
    /\ At(t, "act") /\ tab[t].op = "update"
    /\ explicit' = tab[t].sent.weights
    /\ Goto(t, "row") /\ Changed
    /\ UNCHANGED <<feedback, made, day, runs>>

Recorded(id) == \E i \in DOMAIN feedback : feedback[i].id = id
Without(history, id) ==
    LET left[n \in 0 .. Len(history)] ==
            IF n = 0 THEN <<>>
            ELSE IF history[n].id = id THEN left[n - 1] ELSE Append(left[n - 1], history[n])
    IN  left[Len(history)]

\* removeFeedbackAdjustment looks the feedback up; if it is gone the page says
\* that the request failed ...
FindAdjustment(t) ==
    /\ At(t, "act") /\ tab[t].op = "remove"
    /\ IF Recorded(tab[t].sent.id) THEN Goto(t, "delete") ELSE Stay(t)
    /\ UNCHANGED <<store, current, day, runs>>

\* ... and deletes it.
DeleteAdjustment(t) ==
    /\ At(t, "delete")
    /\ feedback' = Without(feedback, tab[t].sent.id)
    /\ Goto(t, "row") /\ Changed
    /\ UNCHANGED <<explicit, made, day, runs>>

\* resetPreferences: one batch.
ResetPreferences(t) ==
    /\ At(t, "act") /\ tab[t].op = "reset"
    /\ explicit' = Default.weights
    /\ feedback' = <<>>
    /\ Goto(t, "row") /\ Changed
    /\ UNCHANGED <<made, day, runs>>

\* getPreferences reads the row and then the feedback.
ReadRow(t) ==
    /\ At(t, "row")
    /\ tab' = [tab EXCEPT ![t].at = "feedback", ![t].got.weights = explicit]
    /\ current' = [current EXCEPT ![t] = TRUE]
    /\ UNCHANGED <<store, edited, day, runs>>

ReadFeedback(t) ==
    /\ At(t, "feedback")
    /\ tab' = [tab EXCEPT ![t].at = "answer", ![t].got.history = feedback]
    /\ UNCHANGED <<store, edited, current, day, runs>>

Show(t) ==
    /\ At(t, "answer")
    /\ Rest(t, tab[t].got)
    /\ UNCHANGED <<store, current, day, runs>>

\* The request fails, before or after it has done something, and the page keeps
\* what it shows.
RequestFails(t) ==
    /\ ~ At(t, "idle")
    /\ Stay(t)
    /\ current' = [current EXCEPT ![t] = FALSE]
    /\ UNCHANGED <<store, day, runs>>

\* The reader goes to another page, which aborts the request.
Leave(t) ==
    /\ tab[t].shown # NoPage
    /\ Rest(t, NoPage)
    /\ UNCHANGED <<store, current, day, runs>>

Reader(t) ==
    \/ Load(t) \/ Edit(t) \/ Press(t) \/ Rate(t)
    \/ RecordFeedback(t) \/ UpdatePreferences(t)
    \/ FindAdjustment(t) \/ DeleteAdjustment(t) \/ ResetPreferences(t)
    \/ ReadRow(t) \/ ReadFeedback(t) \/ Show(t)
    \/ RequestFails(t) \/ Leave(t)

----------------------------------------------------------------------------
(* The runs: loadOrCreatePreferenceSnapshot. *)

HasSnapshot(r) == snapshot[r] # NoSnapshot
Attached(r)    == HasSnapshot(r) /\ snapshot[r].linked

ExecAt(r, l) == exec[r].at = l
ExecGoto(r, l) == exec' = [exec EXCEPT ![r] = [at |-> l, got |-> Default]]

\* A trigger creates the row, and with it or on a later day the instance, which
\* executes the run as often as it is restarted.  While the engine keeps an ended
\* instance of the id a new row gets none, and never executes.
CreateRow(r) ==
    /\ ExecAt(r, "off") /\ row[r] = 0 /\ kept[r] <= day
    /\ row' = [row EXCEPT ![r] = day]
    /\ UNCHANGED <<store, pages, day, kept, snapshot, exec, used>>

Execute(r) ==
    /\ ExecAt(r, "off") /\ row[r] # 0
    /\ ExecGoto(r, "read")
    /\ UNCHANGED <<store, pages, day, row, kept, snapshot, used>>

GoOn(r, l) ==
    IF Attached(r)
      THEN /\ ExecGoto(r, "go")
           /\ used' = [used EXCEPT ![r] = @ \cup {snapshot[r].prefs}]
      ELSE ExecGoto(r, l) /\ UNCHANGED used

FindSnapshot(r) ==
    /\ ExecAt(r, "read")
    /\ GoOn(r, "row")
    /\ UNCHANGED <<store, pages, day, row, kept, snapshot>>

ExecReadsRow(r) ==
    /\ ExecAt(r, "row")
    /\ exec' = [exec EXCEPT ![r].at = "feedback", ![r].got.weights = explicit]
    /\ UNCHANGED <<store, pages, day, row, kept, snapshot, used>>

ExecReadsFeedback(r) ==
    /\ ExecAt(r, "feedback")
    /\ exec' = [exec EXCEPT ![r].at = "save", ![r].got.history = feedback]
    /\ UNCHANGED <<store, pages, day, row, kept, snapshot, used>>

\* Preferences that cannot be read are the approved ones.
ExecTakesDefault(r) ==
    /\ exec[r].at \in {"row", "feedback"}
    /\ exec' = [exec EXCEPT ![r].at = "save", ![r].got = Default]
    /\ UNCHANGED <<store, pages, day, row, kept, snapshot, used>>

\* savePreferenceSnapshot: INSERT OR IGNORE keeps the event there is.
Inserted(r, prefs) == IF HasSnapshot(r) THEN snapshot[r]
                      ELSE [prefs |-> prefs, on |-> day, linked |-> TRUE]

SaveSnapshot(r) ==
    /\ ExecAt(r, "save") /\ row[r] # 0
    /\ snapshot' = [snapshot EXCEPT ![r] = Inserted(r, exec[r].got)]
    /\ ExecGoto(r, "reread")
    /\ UNCHANGED <<store, pages, day, row, kept, used>>

\* What is stored is what the execution goes on with; nothing stored is the error
\* PREFERENCE_SNAPSHOT_NOT_SAVED.
RereadSnapshot(r) ==
    /\ ExecAt(r, "reread")
    /\ GoOn(r, "lost")
    /\ UNCHANGED <<store, pages, day, row, kept, snapshot>>

\* The engine keeps the id of an ended instance as long as its run.
FreeFrom == day + Keep

\* The execution ends, or its isolate is evicted, wherever it is.
ExecEnds(r) ==
    /\ ~ ExecAt(r, "off")
    /\ ExecGoto(r, "off")
    /\ kept' = [kept EXCEPT ![r] = FreeFrom]
    /\ UNCHANGED <<store, pages, day, row, snapshot, used>>

Run(r) ==
    \/ Execute(r) \/ CreateRow(r) \/ FindSnapshot(r) \/ ExecReadsRow(r)
    \/ ExecReadsFeedback(r) \/ ExecTakesDefault(r) \/ SaveSnapshot(r)
    \/ RereadSnapshot(r) \/ ExecEnds(r)

----------------------------------------------------------------------------
(* Retention and time. *)

Old(on) == on + Keep <= day

\* Events kept for less long than runs ...
OldEventEarly(on) == on + Keep <= day + 1

\* ... or as long as they are.
OldEvent(on) == Old(on)

\* pruneExpiredData of any run: the events and then the rows of the age.  The
\* events that are left lose their link to the row.
Prune ==
    /\ LET gone == {r \in Runs : row[r] # 0 /\ Old(row[r])}
       IN  /\ row' = [r \in Runs |-> IF r \in gone THEN 0 ELSE row[r]]
           /\ snapshot' = [r \in Runs |->
                IF HasSnapshot(r) /\ OldEvent(snapshot[r].on) THEN NoSnapshot
                ELSE IF HasSnapshot(r) /\ r \in gone
                       THEN [snapshot[r] EXCEPT !.linked = FALSE]
                ELSE snapshot[r]]
           /\ used' = [r \in Runs |-> IF r \in gone THEN {} ELSE used[r]]
    /\ UNCHANGED <<store, pages, day, kept, exec>>

\* A request takes seconds and an execution hours.
NextDay ==
    /\ day < MaxDay
    /\ \A t \in Tabs : At(t, "idle")
    /\ \A r \in Runs : ExecAt(r, "off")
    /\ day' = day + 1
    /\ UNCHANGED <<store, pages, runs>>

Next ==
    \/ \E t \in Tabs : Reader(t)
    \/ \E r \in Runs : Run(r)
    \/ Prune \/ NextDay

Spec == Init /\ [][Next]_vars

----------------------------------------------------------------------------
(* Properties. *)

\* "A run uses one immutable reader-preference snapshot": its executions all go
\* on with the same preferences, however often it is interrupted and whatever
\* the reader changes and retention removes in between.
SnapshotIsFixed == \A r \in Runs : \A p, q \in used[r] : p = q

\* The weight recorded with a new adjustment, which SQL adds up and rounds once, is
\* the one the runs that follow select with, which getPreferences works out row by
\* row.  Only a weight typed in halves of a tenth can leave them a tenth apart.
RecordedWeightIsUsed ==
    [][made' # made =>
         LET a == feedback'[Len(feedback')]
             u == Effective([weights |-> explicit', history |-> feedback'])[a.key]
         IN  a.result = u \/ (explicit'[a.key] % 10 = 5 /\ a.result \in {u - 10, u + 10})]_vars

\* A page whose last request succeeded shows what is stored, except for the weights
\* the reader has typed since, unless another tab or a request given up has changed it.
PageShowsTheStore ==
    \A t \in Tabs :
        At(t, "idle") /\ tab[t].shown # NoPage /\ current[t] =>
            /\ tab[t].shown.history = feedback
            /\ \A k \in Keys \ edited[t] : tab[t].shown.weights[k] = explicit[k]
=============================================================================
