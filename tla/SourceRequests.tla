--------------------------- MODULE SourceRequests ---------------------------
(***************************************************************************)
(* SourceHttpClient.request: the requests in flight to one provider, each  *)
(* with its retries, redirects, abort timer and admission lease.  What the *)
(* provider answers, and how long it takes, is up to the environment.      *)
(***************************************************************************)
EXTENDS ProviderAdmission, FiniteSets

CONSTANTS MaxRetries, MaxRedirects

ASSUME RequestAssumption ==
    /\ IsFiniteSet(Requests)
    /\ MaxRetries \in Nat /\ MaxRedirects \in Nat

VARIABLES
    adm,        \* the admission state of the provider
    req,        \* req[r]: the request of caller r
    since       \* time since the last lease was granted, up to Interval

vars == <<adm, req, since>>

\* at: "fetch" awaits the response headers and "answer" its body, both with a
\* lease; timer: the abort timer of the attempt.
Request == [at : {"idle", "queued", "fetch", "answer", "sleep", "done", "failed"},
            attempt : 0..MaxRetries, redirects : 0..MaxRedirects,
            timer : {"off", "armed", "fired"}]

\* The types of the variables.
TypeOK ==
    /\ adm \in Admission
    /\ req \in [Requests -> Request]
    /\ since \in 0..Interval

Init ==
    /\ adm = NewAdmission
    /\ req = [r \in Requests |-> [at |-> "idle", attempt |-> 0, redirects |-> 0,
                                  timer |-> "off"]]
    /\ since = Interval

Holders == {r \in Requests : req[r].at \in {"fetch", "answer"}}

----------------------------------------------------------------------------

\* The first attempt of a request waits for its admission.
Begin(r) ==
    /\ req[r].at = "idle"
    /\ req' = [req EXCEPT ![r].at = "queued"]
    /\ adm' = Acquired(adm, r)
    /\ UNCHANGED since

\* The lease is granted.  The abort timer of an attempt is set after its first
\* admission and keeps running while a redirect waits for the next.
Grant ==
    /\ adm.admitting # NoRequest
    /\ adm.wait <= 0
    /\ LET r == adm.admitting
       IN  req' = [req EXCEPT ![r].at = "fetch",
                              ![r].timer = IF @ = "off" THEN "armed" ELSE @]
    /\ adm' = Granted(adm)
    /\ since' = 0

TimerFires(r) ==
    /\ req[r].timer = "armed"
    /\ req' = [req EXCEPT ![r].timer = "fired"]
    /\ UNCHANGED <<adm, since>>

\* Keeping the lease of a redirect while waiting for the next one.
RedirectHolding(a, r) == Acquired(a, r)
\* The lease of a hop is released before the next hop waits for its own.
RedirectAdmission(a, r) == Acquired(Released(a), r)

\* A redirect of a GET that is followed; its attempt goes on.
FollowsRedirect(r) ==
    /\ req[r].at = "fetch" /\ req[r].timer = "armed"
    /\ req[r].redirects < MaxRedirects
    /\ req' = [req EXCEPT ![r].at = "queued", ![r].redirects = @ + 1]
    /\ adm' = RedirectAdmission(adm, r)
    /\ UNCHANGED since

\* Any other response: its lease is kept until the body has been read.
Responds(r) ==
    /\ req[r].at = "fetch" /\ req[r].timer = "armed"
    /\ req' = [req EXCEPT ![r].at = "answer"]
    /\ UNCHANGED <<adm, since>>

\* An attempt is over: its timer is cleared and its redirects are forgotten.
Closed(q, at) == [q EXCEPT !.at = at, !.redirects = 0, !.timer = "off"]

\* A retryable failure: the attempts are counted.
Retried(q) == Closed(q, IF q.attempt < MaxRetries THEN "sleep" ELSE "failed")

\* finally: whatever ends a hop without a response releases its lease.
FailedReleasing(a) == Released(a)

\* The hop fails: a network error or the abort is retried, a rejected
\* redirect or URL is not, even when its body is cancelled by the abort.
FetchFails(r) ==
    /\ req[r].at = "fetch"
    /\ \E q \in {Retried(req[r]), Closed(req[r], "failed")} :
          req' = [req EXCEPT ![r] = q]
    /\ adm' = FailedReleasing(adm)
    /\ UNCHANGED since

\* The body is read or cancelled, and with that the lease released: the request
\* is done, refused, or retried for its status or a broken body.  After the
\* abort there is no body to be done with.
Answers(r) ==
    /\ req[r].at = "answer"
    /\ \E q \in {Retried(req[r]), Closed(req[r], "failed"), Closed(req[r], "done")} :
          /\ q.at = "done" => req[r].timer = "armed"
          /\ req' = [req EXCEPT ![r] = q]
    /\ adm' = Released(adm)
    /\ UNCHANGED since

\* The retry delay is over.
Wakes(r) ==
    /\ req[r].at = "sleep"
    /\ req' = [req EXCEPT ![r].at = "queued", ![r].attempt = @ + 1]
    /\ adm' = Acquired(adm, r)
    /\ UNCHANGED since

Tick ==
    /\ MayPass(adm)
    /\ adm' = Passed(adm)
    /\ since' = IF since < Interval THEN since + 1 ELSE since
    /\ UNCHANGED req

Next ==
    \/ \E r \in Requests :
         \/ Begin(r) \/ TimerFires(r) \/ FollowsRedirect(r) \/ Responds(r)
         \/ FetchFails(r) \/ Answers(r) \/ Wakes(r)
    \/ Grant \/ Tick

Spec == Init /\ [][Next]_vars

\* Timers fire and time passes; a provider need not answer, but a fetch or a
\* read that was aborted fails.
FairSpec ==
    /\ Spec
    /\ WF_vars(Grant) /\ WF_vars(Tick)
    /\ \A r \in Requests :
         /\ WF_vars(TimerFires(r)) /\ WF_vars(Wakes(r))
         /\ WF_vars(req[r].timer = "fired" /\ (FetchFails(r) \/ Answers(r)))

----------------------------------------------------------------------------
(* Properties. *)

\* No lease leaks on any of the paths out of an attempt, and none is released
\* twice: the counter is the number of requests that talk to the provider.
LeasesAreHeld == adm.active = Cardinality(Holders)

\* The provider never sees more requests at once than its policy allows.
WithinConcurrency == Cardinality(Holders) <= MaxConcurrency

\* Requests to the provider start at least the interval apart.
Paced == [][Grant => since >= Interval]_vars

\* Every request ends, also when the provider never answers, each of its hops
\* waits for an admission of its own and only one may be out.
RequestsEnd ==
    \A r \in Requests : req[r].at = "queued" ~> req[r].at \in {"done", "failed"}
=============================================================================
