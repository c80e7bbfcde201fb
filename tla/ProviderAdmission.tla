------------------------- MODULE ProviderAdmission -------------------------
(***************************************************************************)
(* The admission of requests to one provider, createProviderRequestAdmission *)
(* of the provider scheduler: a queue of waiters, one of which at a time   *)
(* sleeps until its start, a limit on the leases out and a minimum interval *)
(* between starts.  Times are relative to now.                             *)
(***************************************************************************)
EXTENDS Integers, Sequences

CONSTANTS
    Requests,           \* the callers of acquire
    NoRequest,
    MaxConcurrency,     \* policy.maxConcurrency
    Interval,           \* policy.minimumStartIntervalMs
    Lateness            \* bound: how late a timer may fire

ASSUME AdmissionAssumption ==
    /\ NoRequest \notin Requests
    /\ MaxConcurrency \in Nat \ {0}
    /\ Interval \in Nat /\ Lateness \in Nat

\* The state of a provider: the waiters, the one being admitted and the time
\* left to its start, the time left to nextStartAt, and the leases out.
Admission == [queue : Seq(Requests), admitting : Requests \cup {NoRequest},
              wait : Int, next : Nat, active : Int]

NewAdmission == [queue |-> <<>>, admitting |-> NoRequest, wait |-> 0,
                 next |-> 0, active |-> 0]

\* Admitting one lease too many, and starts that do not keep the interval.
DrainOneMore(a) ==
    IF a.admitting # NoRequest \/ a.active > MaxConcurrency \/ a.queue = <<>>
      THEN a
      ELSE [a EXCEPT !.queue = Tail(@), !.admitting = Head(a.queue),
                     !.wait = a.next, !.next = a.next + Interval]
DrainUnpaced(a) ==
    IF a.admitting # NoRequest \/ a.active >= MaxConcurrency \/ a.queue = <<>>
      THEN a
      ELSE [a EXCEPT !.queue = Tail(@), !.admitting = Head(a.queue),
                     !.wait = a.next, !.next = Interval]

\* drain: the first waiter is given its start, one waiter at a time.
Drain(a) ==
    IF a.admitting # NoRequest \/ a.active >= MaxConcurrency \/ a.queue = <<>>
      THEN a
      ELSE [a EXCEPT !.queue = Tail(@), !.admitting = Head(a.queue),
                     !.wait = a.next, !.next = a.next + Interval]

\* acquire
Acquired(a, r) == Drain([a EXCEPT !.queue = Append(@, r)])

\* The continuation of the sleep: the waiter gets its lease.
Granted(a) == Drain([a EXCEPT !.admitting = NoRequest, !.active = @ + 1])

\* release of a lease, which counts once
Released(a) == Drain([a EXCEPT !.active = @ - 1])

\* Time passes; a timer that is due fires first, or at most Lateness later.
MayPass(a) == a.admitting # NoRequest => a.wait > -Lateness
Passed(a)  == [a EXCEPT !.wait = IF a.admitting # NoRequest THEN @ - 1 ELSE @,
                        !.next = IF @ > 0 THEN @ - 1 ELSE 0]
=============================================================================
