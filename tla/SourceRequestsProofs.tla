------------------------ MODULE SourceRequestsProofs ------------------------
(* Theorems about SourceRequests, for any finite set of callers, any limit,  *)
(* any interval and any lateness of the timers.                              *)
EXTENDS SourceRequests, FiniteSetTheorems, TLAPS

\* The requests an admission state keeps waiting.
Waiting(a) == {a.queue[i] : i \in 1..Len(a.queue)}
                \cup ({a.admitting} \ {NoRequest})

\* What the calls of the scheduler keep: nobody waits twice, and a waiter is
\* being admitted only while there is a lease left for it.
Sound(a) ==
    /\ a \in Admission
    /\ a.active <= MaxConcurrency
    /\ a.admitting # NoRequest => a.active < MaxConcurrency
    /\ \A i, j \in 1..Len(a.queue) : a.queue[i] = a.queue[j] => i = j
    /\ \A i \in 1..Len(a.queue) : a.queue[i] # a.admitting

\* drain admits at most one waiter and forgets none.
LEMMA DrainSound ==
    ASSUME NEW a, Sound(a)
    PROVE  /\ Sound(Drain(a))
           /\ Waiting(Drain(a)) = Waiting(a)
           /\ Drain(a).active = a.active
<1>1. CASE a.admitting # NoRequest \/ a.active >= MaxConcurrency \/ a.queue = <<>>
  BY <1>1 DEF Drain
<1>2. CASE ~(a.admitting # NoRequest \/ a.active >= MaxConcurrency \/ a.queue = <<>>)
  <2> DEFINE d == [a EXCEPT !.queue = Tail(@), !.admitting = Head(a.queue),
                            !.wait = a.next, !.next = a.next + Interval]
             q == a.queue
  <2>1. Drain(a) = d
    BY <1>2 DEF Drain
  <2>2. /\ a \in Admission /\ q \in Seq(Requests) /\ q # <<>>
        /\ a.admitting = NoRequest
        /\ a.active \in Int /\ a.next \in Nat
    BY <1>2 DEF Sound, Admission
  <2>3. /\ Len(q) \in Nat \ {0} /\ Head(q) = q[1] /\ Tail(q) \in Seq(Requests)
        /\ Len(Tail(q)) = Len(q) - 1
        /\ \A i \in 1..Len(Tail(q)) : Tail(q)[i] = q[i + 1]
        /\ \A i \in 1..Len(q) : q[i] \in Requests
    BY <2>2
  <2>4. /\ d.queue = Tail(q) /\ d.admitting = q[1] /\ d.active = a.active
        /\ d \in Admission
    <3>1. /\ q[1] \in Requests \cup {NoRequest} /\ a.next \in Int
          /\ a.next + Interval \in Nat
      BY <2>2, <2>3, AdmissionAssumption
    <3>2. d = [a EXCEPT !.queue = Tail(q), !.admitting = q[1],
                        !.wait = a.next, !.next = a.next + Interval]
      BY <2>3
    <3> HIDE DEF d, q
    <3>3. d \in Admission
      BY <2>2, <2>3, <3>1, <3>2 DEF Admission
    <3>4. d.queue = Tail(q) /\ d.admitting = q[1] /\ d.active = a.active
      BY <2>2, <3>2 DEF Admission
    <3> QED BY <3>3, <3>4
  <2>5. d.admitting # NoRequest
    BY <2>3, <2>4, AdmissionAssumption
  <2>6. Sound(d)
    <3>1. d.active < MaxConcurrency
      BY <1>2, <2>2, <2>4, AdmissionAssumption
    <3>2. ASSUME NEW i \in 1..Len(d.queue), NEW j \in 1..Len(d.queue),
                 d.queue[i] = d.queue[j]
          PROVE  i = j
      <4>1. i + 1 \in 1..Len(q) /\ j + 1 \in 1..Len(q) /\ q[i + 1] = q[j + 1]
        BY <3>2, <2>3, <2>4
      <4> QED BY <4>1 DEF Sound
    <3>3. ASSUME NEW i \in 1..Len(d.queue) PROVE d.queue[i] # d.admitting
      <4>1. i + 1 \in 1..Len(q) /\ 1 \in 1..Len(q) /\ i + 1 # 1
        BY <2>3, <2>4
      <4>2. q[i + 1] # q[1]
        BY <4>1 DEF Sound
      <4> QED BY <4>2, <2>3, <2>4
    <3>4. d.active <= MaxConcurrency
      BY <3>1, <2>2, <2>4, AdmissionAssumption
    <3> QED BY <2>4, <3>1, <3>2, <3>3, <3>4 DEF Sound
  <2>7. Waiting(d) = Waiting(a)
    <3>1. Waiting(a) = {q[i] : i \in 1..Len(q)}
      BY <2>2 DEF Waiting
    <3>2. Waiting(d) = {Tail(q)[i] : i \in 1..Len(Tail(q))} \cup {q[1]}
      BY <2>4, <2>5 DEF Waiting
    <3>3. ASSUME NEW i \in 1..Len(q) PROVE q[i] \in Waiting(d)
      <4>1. CASE i = 1
        BY <4>1, <3>2
      <4>2. CASE i # 1
        <5>1. i - 1 \in 1..Len(Tail(q)) /\ (i - 1) + 1 = i
          BY <4>2, <2>3
        <5>2. Tail(q)[i - 1] = q[i]
          BY <5>1, <2>3
        <5> QED BY <5>1, <5>2, <3>2
      <4> QED BY <4>1, <4>2
    <3>4. ASSUME NEW i \in 1..Len(Tail(q)) PROVE Tail(q)[i] \in Waiting(a)
      <4>1. i + 1 \in 1..Len(q) /\ Tail(q)[i] = q[i + 1]
        BY <2>3
      <4> QED BY <4>1, <3>1
    <3>5. q[1] \in Waiting(a)
      BY <2>3, <3>1
    <3> QED BY <3>1, <3>2, <3>3, <3>4, <3>5
  <2> QED BY <2>1, <2>4, <2>6, <2>7
<1> QED BY <1>1, <1>2

\* acquire queues a caller that is not waiting.
LEMMA AcquiredSound ==
    ASSUME NEW a, Sound(a), NEW r \in Requests, r \notin Waiting(a)
    PROVE  /\ Sound(Acquired(a, r))
           /\ Waiting(Acquired(a, r)) = Waiting(a) \cup {r}
           /\ Acquired(a, r).active = a.active
<1> DEFINE q == a.queue
           d == [a EXCEPT !.queue = Append(@, r)]
<1>1. a \in Admission /\ q \in Seq(Requests)
  BY DEF Sound, Admission
<1>2. /\ Append(q, r) \in Seq(Requests) /\ Len(q) \in Nat
      /\ Len(Append(q, r)) = Len(q) + 1
      /\ \A i \in 1..Len(q) : Append(q, r)[i] = q[i]
      /\ Append(q, r)[Len(q) + 1] = r
  BY <1>1
<1>3. /\ d.queue = Append(q, r) /\ d.admitting = a.admitting
      /\ d.active = a.active /\ d \in Admission
  BY <1>1, <1>2 DEF Admission
<1>4. r # a.admitting /\ \A i \in 1..Len(q) : q[i] # r
  BY AdmissionAssumption DEF Waiting
<1>5. Sound(d)
  <2>1. ASSUME NEW i \in 1..Len(d.queue), NEW j \in 1..Len(d.queue),
               d.queue[i] = d.queue[j]
        PROVE  i = j
    <3>1. CASE i \in 1..Len(q) /\ j \in 1..Len(q)
      <4>1. q[i] = q[j]
        BY <2>1, <3>1, <1>2, <1>3
      <4> QED BY <3>1, <4>1 DEF Sound
    <3>2. CASE i = Len(q) + 1 \/ j = Len(q) + 1
      BY <2>1, <3>2, <1>2, <1>3, <1>4
    <3> QED BY <3>1, <3>2, <1>2, <1>3
  <2>2. ASSUME NEW i \in 1..Len(d.queue) PROVE d.queue[i] # d.admitting
    <3>1. CASE i \in 1..Len(q)
      BY <3>1, <1>2, <1>3 DEF Sound
    <3>2. CASE i = Len(q) + 1
      BY <3>2, <1>2, <1>3, <1>4
    <3> QED BY <3>1, <3>2, <1>2, <1>3
  <2> QED BY <1>3, <2>1, <2>2 DEF Sound
<1>6. Waiting(d) = Waiting(a) \cup {r}
  <2>1. {d.queue[i] : i \in 1..Len(d.queue)} = {q[i] : i \in 1..Len(q)} \cup {r}
    <3>1. ASSUME NEW i \in 1..Len(d.queue)
          PROVE  d.queue[i] \in {q[j] : j \in 1..Len(q)} \cup {r}
      <4>1. i \in 1..Len(q) \/ i = Len(q) + 1
        BY <1>2, <1>3
      <4> QED BY <4>1, <1>2, <1>3
    <3>2. ASSUME NEW i \in 1..Len(q)
          PROVE  i \in 1..Len(d.queue) /\ d.queue[i] = q[i]
      BY <1>2, <1>3
    <3>3. Len(q) + 1 \in 1..Len(d.queue) /\ d.queue[Len(q) + 1] = r
      BY <1>2, <1>3
    <3> QED BY <3>1, <3>2, <3>3
  <2> QED BY <2>1, <1>3 DEF Waiting
<1>7. Acquired(a, r) = Drain(d)
  BY DEF Acquired
<1> QED BY <1>3, <1>5, <1>6, <1>7, DrainSound

\* The waiter whose start has come gets a lease.
LEMMA GrantedSound ==
    ASSUME NEW a, Sound(a), a.admitting # NoRequest
    PROVE  /\ Sound(Granted(a))
           /\ Waiting(Granted(a)) = Waiting(a) \ {a.admitting}
           /\ Granted(a).active = a.active + 1
           /\ a.admitting \in Waiting(a) \cap Requests
<1> DEFINE d == [a EXCEPT !.admitting = NoRequest, !.active = @ + 1]
<1>1. /\ a \in Admission /\ a.queue \in Seq(Requests) /\ a.active \in Int
      /\ a.admitting \in Requests
  BY DEF Sound, Admission
<1>2. /\ d.queue = a.queue /\ d.admitting = NoRequest
      /\ d.active = a.active + 1 /\ d \in Admission
  <2>1. NoRequest \in Requests \cup {NoRequest} /\ a.active + 1 \in Int
    BY <1>1
  <2>2. d \in Admission
    BY <1>1, <2>1 DEF Admission
  <2> QED BY <1>1, <2>2 DEF Admission
<1>3. d.active <= MaxConcurrency
  BY <1>1, <1>2, AdmissionAssumption DEF Sound
<1>4. \A i \in 1..Len(a.queue) : a.queue[i] \in Requests
  BY <1>1
<1>5. Sound(d)
  BY <1>2, <1>3, <1>4, AdmissionAssumption DEF Sound
<1>6. Waiting(d) = Waiting(a) \ {a.admitting}
  BY <1>2 DEF Waiting, Sound
<1>7. Granted(a) = Drain(d)
  BY DEF Granted
<1>8. /\ Sound(Drain(d)) /\ Waiting(Drain(d)) = Waiting(d)
      /\ Drain(d).active = d.active
  BY <1>5, DrainSound
<1>9. a.admitting \in Waiting(a)
  BY DEF Waiting
<1> QED BY <1>1, <1>2, <1>6, <1>7, <1>8, <1>9

\* release makes room for a waiter.
LEMMA ReleasedSound ==
    ASSUME NEW a, Sound(a)
    PROVE  /\ Sound(Released(a))
           /\ Waiting(Released(a)) = Waiting(a)
           /\ Released(a).active = a.active - 1
<1> DEFINE d == [a EXCEPT !.active = @ - 1]
<1>1. a \in Admission /\ a.active \in Int
  BY DEF Sound, Admission
<1>2. /\ d.queue = a.queue /\ d.admitting = a.admitting
      /\ d.active = a.active - 1 /\ d \in Admission
  BY <1>1 DEF Admission
<1>3. Sound(d)
  BY <1>1, <1>2, AdmissionAssumption DEF Sound
<1>4. Waiting(d) = Waiting(a)
  BY <1>2 DEF Waiting
<1>5. Released(a) = Drain(d)
  BY DEF Released
<1> QED BY <1>2, <1>3, <1>4, <1>5, DrainSound

\* The passage of time moves only the clocks.
LEMMA PassedSound ==
    ASSUME NEW a, Sound(a)
    PROVE  /\ Sound(Passed(a))
           /\ Waiting(Passed(a)) = Waiting(a)
           /\ Passed(a).active = a.active
<1> DEFINE d == Passed(a)
<1>1. /\ a \in Admission /\ a.wait \in Int /\ a.next \in Nat
  BY DEF Sound, Admission
<1> DEFINE w == IF a.admitting # NoRequest THEN a.wait - 1 ELSE a.wait
           n == IF a.next > 0 THEN a.next - 1 ELSE 0
<1>2. /\ d.queue = a.queue /\ d.admitting = a.admitting /\ d.active = a.active
      /\ d \in Admission
  <2>1. w \in Int /\ n \in Nat
    BY <1>1
  <2>2. d = [a EXCEPT !.wait = w, !.next = n]
    BY DEF Passed
  <2> HIDE DEF d, w, n
  <2>3. d \in Admission
    BY <1>1, <2>1, <2>2 DEF Admission
  <2> QED BY <1>1, <2>2, <2>3 DEF Admission
<1> QED BY <1>2 DEF Sound, Waiting

----------------------------------------------------------------------------

Queued == {r \in Requests : req[r].at = "queued"}

\* The inductive invariant: what the scheduler counts is what the requests do.
\* LeasesAreHeld alone is not inductive: a lease granted to a caller that holds
\* one, or that waits twice, would be counted twice.
IInv ==
    /\ TypeOK
    /\ Sound(adm)
    /\ Waiting(adm) = Queued
    /\ LeasesAreHeld

\* A step of one request, with what it does to the sets of requests.
Moves(r, at) ==
    /\ req' \in [Requests -> Request]
    /\ \A s \in Requests \ {r} : req'[s] = req[s]
    /\ req'[r].at = at

LEMMA MovesSets ==
    ASSUME TypeOK, NEW r \in Requests, NEW at, Moves(r, at)
    PROVE  /\ Queued' = IF at = "queued" THEN Queued \cup {r} ELSE Queued \ {r}
           /\ Holders' = IF at \in {"fetch", "answer"} THEN Holders \cup {r}
                                                      ELSE Holders \ {r}
BY DEF TypeOK, Moves, Queued, Holders

\* The leases change by one when the request takes or gives one back.
LEMMA MovesLeases ==
    ASSUME TypeOK, NEW r \in Requests, NEW at, Moves(r, at)
    PROVE  /\ Cardinality(Holders) \in Nat
           /\ at \in {"fetch", "answer"} /\ r \notin Holders
                => Cardinality(Holders') = Cardinality(Holders) + 1
           /\ at \notin {"fetch", "answer"} /\ r \in Holders
                => Cardinality(Holders') = Cardinality(Holders) - 1
           /\ (at \in {"fetch", "answer"} <=> r \in Holders)
                => Holders' = Holders
<1>1. IsFiniteSet(Holders)
  BY RequestAssumption, FS_Subset DEF Holders
<1>2. Cardinality(Holders) \in Nat
  BY <1>1, FS_CardinalityType
<1>3. r \notin Holders => Cardinality(Holders \cup {r}) = Cardinality(Holders) + 1
  BY <1>1, FS_AddElement
<1>4. r \in Holders => Cardinality(Holders \ {r}) = Cardinality(Holders) - 1
  BY <1>1, FS_RemoveElement
<1>5. CASE at \in {"fetch", "answer"}
  <2>1. Holders' = Holders \cup {r}
    BY <1>5, MovesSets
  <2>2. r \in Holders => Holders' = Holders
    BY <2>1
  <2> QED BY <1>2, <1>3, <1>5, <2>1, <2>2
<1>6. CASE at \notin {"fetch", "answer"}
  <2>1. Holders' = Holders \ {r}
    BY <1>6, MovesSets
  <2>2. r \notin Holders => Holders' = Holders
    BY <2>1
  <2> QED BY <1>2, <1>4, <1>6, <2>1, <2>2
<1> QED BY <1>5, <1>6

LEMMA RequestsInit == Init => IInv
<1> SUFFICES ASSUME Init PROVE IInv
  OBVIOUS
<1>1. adm = NewAdmission /\ NewAdmission.queue = <<>>
      /\ NewAdmission.admitting = NoRequest /\ NewAdmission.active = 0
      /\ NewAdmission \in Admission
  BY DEF Init, NewAdmission, Admission
<1>2. TypeOK
  BY <1>1, RequestAssumption, AdmissionAssumption DEF Init, TypeOK, Request
<1>3. Sound(adm)
  BY <1>1, AdmissionAssumption DEF Sound
<1>4. Waiting(adm) = {} /\ Queued = {} /\ Holders = {}
  BY <1>1 DEF Init, Waiting, Queued, Holders
<1>5. LeasesAreHeld
  BY <1>1, <1>4, FS_EmptySet DEF LeasesAreHeld
<1> QED BY <1>2, <1>3, <1>4, <1>5 DEF IInv

LEMMA RequestsStep == IInv /\ [Next]_vars => IInv'
<1> SUFFICES ASSUME IInv, [Next]_vars PROVE IInv'
  OBVIOUS
<1> USE DEF IInv
<1>0. /\ TypeOK /\ adm \in Admission /\ adm.active \in Int
      /\ req \in [Requests -> Request] /\ since \in 0..Interval
      /\ Interval \in Nat /\ 0 \in 0..Interval
  BY AdmissionAssumption DEF TypeOK, Admission
<1>a. ASSUME NEW r \in Requests,
             \/ Begin(r) \/ TimerFires(r) \/ FollowsRedirect(r) \/ Responds(r)
             \/ FetchFails(r) \/ Answers(r) \/ Wakes(r)
      PROVE  IInv'
  <2>0. /\ req[r] \in Request /\ req[r].attempt \in 0..MaxRetries
        /\ req[r].redirects \in 0..MaxRedirects /\ MaxRetries \in Nat
        /\ MaxRedirects \in Nat
    BY <1>0, RequestAssumption DEF Request
  <2>1. CASE Begin(r)
    <3>1. Moves(r, "queued")
      BY <2>1, <1>0, <2>0 DEF Begin, Moves, Request
    <3>2. r \notin Waiting(adm) /\ r \notin Holders
      BY <2>1 DEF Begin, Queued, Holders
    <3>3. /\ Sound(adm') /\ Waiting(adm') = Waiting(adm) \cup {r}
          /\ adm'.active = adm.active
      BY <2>1, <3>2, AcquiredSound DEF Begin
    <3>4. TypeOK'
      BY <2>1, <3>1, <3>3, <1>0 DEF Begin, TypeOK, Moves, Sound
    <3>5. Queued' = Queued \cup {r} /\ Holders' = Holders
      BY <3>1, <3>2, <1>0, MovesSets, MovesLeases
    <3> QED BY <3>3, <3>4, <3>5 DEF LeasesAreHeld
  <2>2. CASE TimerFires(r)
    <3>1. Moves(r, req[r].at)
      BY <2>2, <1>0, <2>0 DEF TimerFires, Moves, Request
    <3>2. Queued' = Queued /\ Holders' = Holders
      BY <3>1, <1>0, MovesSets DEF Queued, Holders
    <3> QED BY <2>2, <3>1, <3>2, <1>0 DEF TimerFires, TypeOK, Moves, LeasesAreHeld
  <2>3. CASE FollowsRedirect(r)
    <3>1. Moves(r, "queued")
      BY <2>3, <1>0, <2>0 DEF FollowsRedirect, Moves, Request
    <3>2. r \notin Waiting(adm) /\ r \in Holders
      BY <2>3 DEF FollowsRedirect, Queued, Holders
    <3>3. /\ Sound(Released(adm)) /\ Waiting(Released(adm)) = Waiting(adm)
          /\ Released(adm).active = adm.active - 1
      BY ReleasedSound
    <3>4. /\ Sound(adm') /\ Waiting(adm') = Waiting(adm) \cup {r}
          /\ adm'.active = adm.active - 1
      BY <2>3, <3>2, <3>3, AcquiredSound DEF FollowsRedirect, RedirectAdmission
    <3>5. TypeOK'
      BY <2>3, <3>1, <3>4, <1>0 DEF FollowsRedirect, TypeOK, Moves, Sound
    <3>6. Queued' = Queued \cup {r} /\ Cardinality(Holders') = Cardinality(Holders) - 1
      BY <3>1, <3>2, <1>0, MovesSets, MovesLeases
    <3> QED BY <3>4, <3>5, <3>6 DEF LeasesAreHeld
  <2>4. CASE Responds(r)
    <3>1. Moves(r, "answer")
      BY <2>4, <1>0, <2>0 DEF Responds, Moves, Request
    <3>2. Queued' = Queued /\ Holders' = Holders
      BY <2>4, <3>1, <1>0, MovesSets DEF Responds, Queued, Holders
    <3> QED BY <2>4, <3>1, <3>2, <1>0 DEF Responds, TypeOK, Moves, LeasesAreHeld
  <2>5. CASE FetchFails(r) \/ Answers(r)
    <3>1. PICK at \in {"sleep", "failed", "done"} : Moves(r, at)
      <4>1. ASSUME NEW q \in {Retried(req[r]), Closed(req[r], "failed"),
                              Closed(req[r], "done")}
            PROVE  q \in Request /\ q.at \in {"sleep", "failed", "done"}
        <5>1. PICK at \in {"sleep", "failed", "done"} : q = Closed(req[r], at)
          BY DEF Retried
        <5>2. Closed(req[r], at) \in Request /\ Closed(req[r], at).at = at
          <6> DEFINE z == req[r]
          <6>1. z \in Request /\ 0 \in 0..MaxRedirects
            BY <2>0
          <6>2. Closed(req[r], at) = [z EXCEPT !.at = at, !.redirects = 0, !.timer = "off"]
            BY DEF Closed
          <6> HIDE DEF z
          <6> QED BY <6>1, <6>2 DEF Request
        <5> QED BY <5>1, <5>2
      <4>2. PICK q \in {Retried(req[r]), Closed(req[r], "failed"),
                        Closed(req[r], "done")} : req' = [req EXCEPT ![r] = q]
        BY <2>5 DEF FetchFails, Answers
      <4>3. req' \in [Requests -> Request] /\ req'[r] = q
            /\ \A s \in Requests \ {r} : req'[s] = req[s]
        BY <4>1, <4>2, <1>0
      <4> QED BY <4>1, <4>3 DEF Moves
    <3>2. /\ r \notin Queued /\ r \in Holders
          /\ adm' = Released(adm) /\ since' = since
      BY <2>5 DEF FetchFails, Answers, FailedReleasing, Queued, Holders
    <3>3. /\ Sound(adm') /\ Waiting(adm') = Waiting(adm)
          /\ adm'.active = adm.active - 1
      BY <3>2, ReleasedSound
    <3>4. TypeOK'
      BY <3>1, <3>2, <3>3, <1>0 DEF TypeOK, Moves, Sound
    <3>5. Queued' = Queued /\ Cardinality(Holders') = Cardinality(Holders) - 1
      BY <3>1, <3>2, <1>0, MovesSets, MovesLeases
    <3> QED BY <3>3, <3>4, <3>5 DEF LeasesAreHeld
  <2>6. CASE Wakes(r)
    <3>1. Moves(r, "queued")
      BY <2>6, <1>0, <2>0 DEF Wakes, Moves, Request
    <3>2. r \notin Waiting(adm) /\ r \notin Holders
      BY <2>6 DEF Wakes, Queued, Holders
    <3>3. /\ Sound(adm') /\ Waiting(adm') = Waiting(adm) \cup {r}
          /\ adm'.active = adm.active
      BY <2>6, <3>2, AcquiredSound DEF Wakes
    <3>4. TypeOK'
      BY <2>6, <3>1, <3>3, <1>0 DEF Wakes, TypeOK, Moves, Sound
    <3>5. Queued' = Queued \cup {r} /\ Holders' = Holders
      BY <3>1, <3>2, <1>0, MovesSets, MovesLeases
    <3> QED BY <3>3, <3>4, <3>5 DEF LeasesAreHeld
  <2> QED BY <1>a, <2>1, <2>2, <2>3, <2>4, <2>5, <2>6
<1>b. CASE Grant
  <2> DEFINE r == adm.admitting
  <2>1. /\ Sound(adm') /\ Waiting(adm') = Waiting(adm) \ {r}
        /\ adm'.active = adm.active + 1 /\ r \in Queued /\ r \in Requests
    BY <1>b, GrantedSound DEF Grant
  <2>2. Moves(r, "fetch")
    <3>1. req[r] \in Request
      BY <2>1, <1>0
    <3> QED BY <1>b, <2>1, <3>1, <1>0 DEF Grant, Moves, Request
  <2>3. r \notin Holders
    BY <2>1 DEF Queued, Holders
  <2>4. Queued' = Queued \ {r} /\ Cardinality(Holders') = Cardinality(Holders) + 1
    BY <2>1, <2>2, <2>3, <1>0, MovesSets, MovesLeases
  <2>5. TypeOK'
    BY <1>b, <2>1, <2>2, <1>0 DEF Grant, TypeOK, Moves, Sound
  <2> QED BY <2>1, <2>4, <2>5 DEF LeasesAreHeld
<1>c. CASE Tick
  <2>1. /\ Sound(adm') /\ Waiting(adm') = Waiting(adm)
        /\ adm'.active = adm.active
    BY <1>c, PassedSound DEF Tick
  <2>2. since' \in 0..Interval
    BY <1>c, <1>0 DEF Tick
  <2>3. TypeOK' /\ Queued' = Queued /\ Holders' = Holders
    BY <1>c, <2>1, <2>2, <1>0 DEF Tick, TypeOK, Queued, Holders, Sound
  <2> QED BY <2>1, <2>3 DEF LeasesAreHeld
<1>d. CASE UNCHANGED vars
  BY <1>d DEF vars, TypeOK, Queued, Holders, LeasesAreHeld
<1> QED BY <1>a, <1>b, <1>c, <1>d DEF Next

\* The invariant holds of every execution.
THEOREM RequestsInvariant == Spec => []IInv
<1> QED BY RequestsInit, RequestsStep, PTL DEF Spec

\* For any callers, retries and redirects, no path out of an attempt leaks a
\* lease or gives one back twice.
THEOREM RequestsLeasesAreHeld == Spec => []LeasesAreHeld
<1>1. IInv => LeasesAreHeld
  BY DEF IInv
<1> QED BY <1>1, RequestsInvariant, PTL

\* The provider never sees more requests at once than its policy allows,
\* however late the timers fire.
THEOREM RequestsWithinConcurrency == Spec => []WithinConcurrency
<1>1. IInv => WithinConcurrency
  BY DEF IInv, Sound, LeasesAreHeld, WithinConcurrency
<1> QED BY <1>1, RequestsInvariant, PTL

----------------------------------------------------------------------------

\* When no timer is late: the next start, and that of the waiter being admitted,
\* are the interval away from the last one, s ago.  While a waiter is being
\* admitted, nextStartAt is the interval after its start.
OnTime(a, s) ==
    IF a.admitting = NoRequest
      THEN s + a.next >= Interval
      ELSE a.wait >= 0 /\ s + a.wait >= Interval /\ a.next = a.wait + Interval

LEMMA DrainOnTime ==
    ASSUME NEW a \in Admission, NEW s \in Int, OnTime(a, s)
    PROVE  OnTime(Drain(a), s)
<1>1. CASE a.admitting # NoRequest \/ a.active >= MaxConcurrency \/ a.queue = <<>>
  BY <1>1 DEF Drain
<1>2. CASE ~(a.admitting # NoRequest \/ a.active >= MaxConcurrency \/ a.queue = <<>>)
  <2> DEFINE q == a.queue
             d == [a EXCEPT !.queue = Tail(q), !.admitting = Head(q),
                            !.wait = a.next, !.next = a.next + Interval]
  <2>1. Drain(a) = d
    BY <1>2 DEF Drain
  <2>2. q \in Seq(Requests) /\ q # <<>> /\ a.next \in Nat /\ a.admitting = NoRequest
    BY <1>2 DEF Admission
  <2>3. Head(q) \in Requests
    BY <2>2
  <2>4. d.admitting = Head(q) /\ d.wait = a.next /\ d.next = a.next + Interval
    <3> HIDE DEF q
    <3> QED BY DEF Admission
  <2>5. d.admitting # NoRequest
    BY <2>3, <2>4, AdmissionAssumption
  <2> HIDE DEF d
  <2> QED BY <2>1, <2>2, <2>4, <2>5, AdmissionAssumption DEF OnTime
<1> QED BY <1>1, <1>2

LEMMA AcquiredOnTime ==
    ASSUME NEW a \in Admission, NEW s \in Int, OnTime(a, s), NEW r \in Requests
    PROVE  OnTime(Acquired(a, r), s)
<1> DEFINE d == [a EXCEPT !.queue = Append(@, r)]
<1>1. a.queue \in Seq(Requests)
  BY DEF Admission
<1>2. d \in Admission
  BY <1>1 DEF Admission
<1>3. d.admitting = a.admitting /\ d.wait = a.wait /\ d.next = a.next
  BY DEF Admission
<1>4. OnTime(d, s)
  BY <1>3 DEF OnTime
<1> QED BY <1>2, <1>4, DrainOnTime DEF Acquired

LEMMA ReleasedOnTime ==
    ASSUME NEW a \in Admission, NEW s \in Int, OnTime(a, s)
    PROVE  OnTime(Released(a), s)
<1> DEFINE d == [a EXCEPT !.active = @ - 1]
<1>1. a.active \in Int
  BY DEF Admission
<1>2. d \in Admission
  BY <1>1 DEF Admission
<1>3. d.admitting = a.admitting /\ d.wait = a.wait /\ d.next = a.next
  BY DEF Admission
<1>4. OnTime(d, s)
  BY <1>3 DEF OnTime
<1> QED BY <1>2, <1>4, DrainOnTime DEF Released

LEMMA GrantedOnTime ==
    ASSUME NEW a \in Admission, NEW s \in Int, OnTime(a, s),
           a.admitting # NoRequest, a.wait <= 0
    PROVE  s >= Interval /\ OnTime(Granted(a), 0)
<1> DEFINE d == [a EXCEPT !.admitting = NoRequest, !.active = @ + 1]
<1>1. a.active \in Int /\ a.wait \in Int /\ a.next \in Nat /\ Interval \in Nat
  BY AdmissionAssumption DEF Admission
<1>2. a.wait = 0 /\ s >= Interval /\ a.next = Interval
  BY <1>1 DEF OnTime
<1>3. d \in Admission
  <2>1. NoRequest \in Requests \cup {NoRequest} /\ a.active + 1 \in Int
    BY <1>1
  <2> QED BY <2>1 DEF Admission
<1>4. d.admitting = NoRequest /\ d.next = a.next
  BY DEF Admission
<1>5. OnTime(d, 0)
  BY <1>1, <1>2, <1>4 DEF OnTime
<1> QED BY <1>2, <1>3, <1>5, DrainOnTime DEF Granted

LEMMA PassedOnTime ==
    ASSUME Lateness = 0, NEW a \in Admission, NEW s \in 0..Interval,
           OnTime(a, s), MayPass(a)
    PROVE  OnTime(Passed(a), IF s < Interval THEN s + 1 ELSE s)
<1> DEFINE w == IF a.admitting # NoRequest THEN a.wait - 1 ELSE a.wait
           n == IF a.next > 0 THEN a.next - 1 ELSE 0
           d == Passed(a)
           t == IF s < Interval THEN s + 1 ELSE s
<1>1. a.wait \in Int /\ a.next \in Nat /\ Interval \in Nat
  BY AdmissionAssumption DEF Admission
<1>2. d.admitting = a.admitting /\ d.wait = w /\ d.next = n
  <2>1. d = [a EXCEPT !.wait = w, !.next = n]
    BY DEF Passed
  <2> HIDE DEF d, w, n
  <2> QED BY <2>1 DEF Admission
<1>3. CASE a.admitting = NoRequest
  <2>1. s + a.next >= Interval
    BY <1>3 DEF OnTime
  <2>2. t + n >= Interval
    BY <2>1, <1>1
  <2>3. OnTime(d, t)
    <3> HIDE DEF d, t, n
    <3> QED BY <1>2, <1>3, <2>2 DEF OnTime
  <2> QED BY <2>3
<1>4. CASE a.admitting # NoRequest
  <2>1. a.wait > 0 /\ s + a.wait >= Interval /\ a.next = a.wait + Interval
    BY <1>1, <1>4 DEF OnTime, MayPass
  <2>2. w >= 0 /\ t + w >= Interval /\ n = w + Interval
    BY <2>1, <1>1, <1>4
  <2>3. OnTime(d, t)
    <3> HIDE DEF d, t, n, w
    <3> QED BY <1>2, <1>4, <2>2 DEF OnTime
  <2> QED BY <2>3
<1> QED BY <1>3, <1>4

\* Requests start the interval apart when no timer is late, for any interval,
\* limit and callers: the lateness is all that a run can break the pace with.
THEOREM RequestsPaced == ASSUME Lateness = 0 PROVE Spec => Paced
<1> DEFINE J == IInv /\ OnTime(adm, since)
<1>1. Init => J
  <2> SUFFICES ASSUME Init PROVE OnTime(adm, since)
    BY RequestsInit
  <2>1. adm.admitting = NoRequest /\ adm.next = 0 /\ since = Interval
    BY DEF Init, NewAdmission
  <2> QED BY <2>1, AdmissionAssumption DEF OnTime
<1>2. ASSUME J, [Next]_vars
      PROVE  J' /\ (Grant => since >= Interval)
  <2>0. /\ adm \in Admission /\ since \in 0..Interval /\ since \in Int
        /\ Interval \in Nat /\ IInv'
    BY <1>2, RequestsStep, AdmissionAssumption DEF IInv, TypeOK
  <2>1. CASE Grant
    <3>1. since >= Interval /\ OnTime(Granted(adm), 0)
      BY <1>2, <2>0, <2>1, GrantedOnTime DEF Grant
    <3> QED BY <2>0, <2>1, <3>1 DEF Grant
  <2>2. CASE ~Grant
    <3> SUFFICES OnTime(adm', since')
      BY <2>0, <2>2
    <3>1. CASE \E r \in Requests :
                 Begin(r) \/ FollowsRedirect(r) \/ FetchFails(r) \/ Answers(r) \/ Wakes(r)
      <4>1. PICK r \in Requests :
                 Begin(r) \/ FollowsRedirect(r) \/ FetchFails(r) \/ Answers(r) \/ Wakes(r)
        BY <3>1
      <4>2. since' = since
        BY <4>1 DEF Begin, FollowsRedirect, FetchFails, Answers, Wakes
      <4>a. OnTime(adm, since) /\ Sound(adm)
        BY <1>2 DEF IInv
      <4>3. CASE adm' = Acquired(adm, r)
        <5>1. OnTime(Acquired(adm, r), since)
          BY <2>0, <4>a, AcquiredOnTime
        <5> QED BY <4>2, <4>3, <5>1
      <4>4. CASE adm' = Released(adm)
        <5>1. OnTime(Released(adm), since)
          BY <2>0, <4>a, ReleasedOnTime
        <5> QED BY <4>2, <4>4, <5>1
      <4>5. CASE adm' = Acquired(Released(adm), r)
        <5>1. Released(adm) \in Admission
          BY <4>a, ReleasedSound DEF Sound
        <5>2. OnTime(Released(adm), since)
          BY <2>0, <4>a, ReleasedOnTime
        <5>3. OnTime(Acquired(Released(adm), r), since)
          BY <2>0, <5>1, <5>2, AcquiredOnTime
        <5> QED BY <4>2, <4>5, <5>3
      <4> QED BY <4>1, <4>3, <4>4, <4>5
              DEF Begin, FollowsRedirect, RedirectAdmission, FetchFails,
                  FailedReleasing, Answers, Wakes
    <3>2. CASE \E r \in Requests : TimerFires(r) \/ Responds(r)
      BY <1>2, <3>2 DEF TimerFires, Responds
    <3>3. CASE Tick
      BY <1>2, <2>0, <3>3, PassedOnTime DEF Tick
    <3>4. CASE UNCHANGED vars
      BY <1>2, <3>4 DEF vars
    <3> QED BY <1>2, <2>2, <3>1, <3>2, <3>3, <3>4 DEF Next
  <2> QED BY <2>1, <2>2
<1>3. J /\ [Next]_vars => J'
  BY <1>2
<1>4. J /\ [Next]_vars => [Grant => since >= Interval]_vars
  BY <1>2
<1> QED BY <1>1, <1>3, <1>4, PTL DEF Spec, Paced
=============================================================================
