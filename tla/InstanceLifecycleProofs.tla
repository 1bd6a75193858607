----------------------- MODULE InstanceLifecycleProofs -----------------------
(***************************************************************************)
(* Theorems about InstanceLifecycle, for any backoff, healthcheck, policy  *)
(* and number of faults.  LInv is inductive; the safety properties follow. *)
(***************************************************************************)
EXTENDS InstanceLifecycle, TLAPS

\* The constants are numbers in the order the model needs.
LEMMA ConstantFacts ==
    /\ MaxCount \in Nat \ {0} /\ Longest \in Nat \ {0}
    /\ Sustained \in Nat \ {0} /\ Interval \in Nat \ {0} /\ Retries \in Nat \ {0}
    /\ StartPeriod \in Nat /\ StartPeriod <= Sustained
    /\ MaxLag \in Nat /\ MaxFaults \in Nat
    /\ Policies \subseteq BOOLEAN /\ Exposes \in BOOLEAN
    /\ Unset = -1
<1>1. MaxCount \in Nat \ {0} /\ MaxCount \in DOMAIN BackoffSecs
  BY LifecycleConstants DEF MaxCount
<1>2. Longest \in Nat \ {0}
  BY <1>1, LifecycleConstants DEF Longest
<1>. QED  BY <1>1, <1>2, LifecycleConstants DEF Unset

\* backoff_secs never gets shorter, and stops growing at its last wait.
LEMMA WaitFacts ==
    ASSUME NEW n \in 0..MaxCount
    PROVE  /\ Wait(n) \in 0..Longest
           /\ More(n) \in 0..MaxCount /\ More(n) > 0
           /\ \A k \in 0..n : Wait(k) <= Wait(n) /\ More(k) <= More(n)
<1>1. \A k \in 1..MaxCount : BackoffSecs[k] \in Nat \ {0} /\ BackoffSecs[k] <= Longest
  <2>. SUFFICES ASSUME NEW k \in 1..MaxCount
                PROVE  BackoffSecs[k] \in Nat \ {0} /\ BackoffSecs[k] <= Longest
    OBVIOUS
  <2>1. k \in DOMAIN BackoffSecs /\ MaxCount \in DOMAIN BackoffSecs /\ k <= MaxCount
    BY ConstantFacts, LifecycleConstants DEF MaxCount
  <2>. QED  BY <2>1, LifecycleConstants DEF Longest
<1>2. \A j, k \in 1..MaxCount : j <= k => BackoffSecs[j] <= BackoffSecs[k]
  BY LifecycleConstants DEF MaxCount
<1>3. Wait(n) \in 0..Longest
  BY <1>1, ConstantFacts DEF Wait
<1>4. More(n) \in 0..MaxCount /\ More(n) > 0
  BY ConstantFacts DEF More
<1>5. ASSUME NEW k \in 0..n  PROVE Wait(k) <= Wait(n) /\ More(k) <= More(n)
  BY <1>1, <1>2, ConstantFacts DEF Wait, More
<1>. QED  BY <1>3, <1>4, <1>5

\* An age stays unset, or grows up to its cap.
LEMMA AgeFacts ==
    ASSUME NEW most \in Nat, NEW t \in Unset..most, NEW d \in Nat
    PROVE  /\ Age(t, d, most) \in Unset..most
           /\ Age(t, d, most) = Unset <=> t = Unset
           /\ t # Unset => Age(t, d, most) = (IF t + d < most THEN t + d ELSE most)
  BY DEF Age, Unset

-----------------------------------------------------------------------------
\* The parts of InstanceRuntimeState.
LEMMA StateFacts ==
    ASSUME NEW s \in States
    PROVE  /\ s.count \in 0..MaxCount /\ s.wait \in 0..Longest
           /\ s.since \in Unset..Sustained /\ s.probed \in Unset..Interval
           /\ s.ok \in BOOLEAN /\ s.failures \in 0..Retries
           /\ s.probe.fresh \in BOOLEAN /\ s.probe.own \in BOOLEAN
           /\ s.probe.result \in {"none", "running", "pass", "fail", "died"}
  BY DEF States, Probes

\* What each update of the record does to it.
LEMMA ResetHealthFacts ==
    ASSUME NEW s \in States
    PROVE  LET r == ResetHealth(s) IN
           /\ r \in States
           /\ r.count = s.count /\ r.wait = s.wait /\ r.since = s.since
           /\ ~r.ok /\ r.failures = 0 /\ ~r.probe.fresh
           /\ r.probe.own = s.probe.own /\ r.probe.result = s.probe.result
<1>1. [s.probe EXCEPT !.fresh = FALSE] \in Probes
  BY DEF States, Probes
<1>2. Unset \in Unset..Interval /\ 0 \in 0..Retries
  BY ConstantFacts
<1>3. ResetHealth(s) \in States
  BY <1>1, <1>2 DEF ResetHealth, States, Probes
<1>4. ResetHealth(s).probe = [s.probe EXCEPT !.fresh = FALSE]
  BY DEF ResetHealth, States, Probes
<1>5. /\ [s.probe EXCEPT !.fresh = FALSE].fresh = FALSE
      /\ [s.probe EXCEPT !.fresh = FALSE].own = s.probe.own
      /\ [s.probe EXCEPT !.fresh = FALSE].result = s.probe.result
  BY DEF States, Probes
<1>6. ResetHealth(s).ok = FALSE
  BY DEF ResetHealth, States, Probes
<1>7. /\ ResetHealth(s).count = s.count /\ ResetHealth(s).wait = s.wait
      /\ ResetHealth(s).since = s.since /\ ResetHealth(s).failures = 0
  BY DEF ResetHealth, States, Probes
<1>. QED  BY <1>3, <1>4, <1>5, <1>6, <1>7

\* A boot leaves the probe of the VM before it in st, no longer its own.
LEMMA DisownFacts ==
    ASSUME NEW s \in States
    PROVE  LET r == Disown(s) IN
           /\ r \in States
           /\ r.count = s.count /\ r.wait = s.wait /\ r.since = s.since
           /\ r.ok = s.ok /\ r.failures = s.failures
           /\ r.probe.fresh = s.probe.fresh
           /\ ~r.probe.own /\ r.probe.result = s.probe.result
  BY DEF Disown, States, Probes

\* One more restart is counted and waited for, and nothing else changes.
LEMMA PenalizeFacts ==
    ASSUME NEW s \in States
    PROVE  LET r == Penalize(s) IN
           /\ r \in States
           /\ r.count = More(s.count) /\ r.wait = Wait(r.count) /\ r.since = s.since
           /\ r.ok = s.ok /\ r.failures = s.failures /\ r.probe = s.probe
<1>1. More(s.count) \in 0..MaxCount
  BY WaitFacts, StateFacts
<1>2. Wait(More(s.count)) \in 0..Longest
  BY <1>1, WaitFacts
<1>. QED  BY <1>1, <1>2 DEF Penalize, States

\* Setting the sustained-running clock changes nothing else.
LEMMA SinceFacts ==
    ASSUME NEW s \in States, NEW t \in Unset..Sustained
    PROVE  LET r == [s EXCEPT !.since = t] IN
           /\ r \in States
           /\ r.count = s.count /\ r.wait = s.wait /\ r.since = t
           /\ r.ok = s.ok /\ r.failures = s.failures /\ r.probe = s.probe
  BY DEF States, Probes

\* Time shortens the wait and ages the clocks.
LEMMA AgedFacts ==
    ASSUME NEW s \in States, NEW d \in Nat
    PROVE  LET r == Aged(s, d) IN
           /\ r \in States
           /\ r.count = s.count
           /\ r.wait = (IF s.wait < d THEN 0 ELSE s.wait - d)
           /\ r.since = Age(s.since, d, Sustained)
           /\ r.ok = s.ok /\ r.failures = s.failures /\ r.probe = s.probe
<1>1. (IF s.wait < d THEN 0 ELSE s.wait - d) \in 0..Longest
  BY StateFacts, ConstantFacts
<1>2. Age(s.since, d, Sustained) \in Unset..Sustained
  BY AgeFacts, StateFacts, ConstantFacts
<1>3. Age(s.probed, d, Interval) \in Unset..Interval
  BY AgeFacts, StateFacts, ConstantFacts
<1>. QED  BY <1>1, <1>2, <1>3 DEF Aged, States

\* A restart by the backend begins a new generation and, but for `restart: no`, counts.
LEMMA RestartedFacts ==
    ASSUME NEW s \in States, NEW phase \in Booted
    PROVE  LET r == Restarted(s, phase) IN
           /\ r \in States
           /\ r.since = (IF phase = "running" THEN 0 ELSE Unset)
           /\ ~r.ok /\ r.failures = 0 /\ ~r.probe.fresh
           /\ r.probe.own = s.probe.own /\ r.probe.result = s.probe.result
           /\ ~never => r.count = More(s.count) /\ r.wait = Wait(r.count)
<1>. DEFINE t == IF phase = "running" THEN 0 ELSE Unset
            q == ResetHealth(s)
            r == [q EXCEPT !.since = t]
<1>1. t \in Unset..Sustained
  BY ConstantFacts
<1>2. /\ q \in States /\ ~q.ok /\ q.failures = 0 /\ ~q.probe.fresh /\ q.count = s.count
      /\ q.probe.own = s.probe.own /\ q.probe.result = s.probe.result
  BY ResetHealthFacts
<1>3. /\ r \in States /\ ~r.ok /\ r.failures = 0 /\ r.probe = q.probe
      /\ r.since = t /\ r.count = s.count
  BY <1>1, <1>2, SinceFacts
<1>4. Restarted(s, phase) = IF never THEN r ELSE Penalize(r)
  BY DEF Restarted
<1>. HIDE DEF t, q, r
<1>5. CASE never
  BY <1>2, <1>3, <1>4, <1>5 DEF t
<1>6. CASE ~never
  BY <1>2, <1>3, <1>4, <1>6, PenalizeFacts DEF t
<1>. QED  BY <1>5, <1>6

\* The first sighting of a running VM begins a new generation; later ones keep the
\* health and the clock, and may only forgive restarts.
LEMMA SightedFacts ==
    ASSUME NEW s \in States, NEW phase \in Booted
    PROVE  LET r == Sighted(s, phase) IN
           /\ r \in States
           /\ r.probe.own = s.probe.own /\ r.probe.result = s.probe.result
           /\ phase # "running" =>
                 r.since = Unset /\ r.count = s.count /\ r.wait = s.wait
           /\ phase = "running" /\ s.since = Unset =>
                 /\ r.since = 0 /\ r.count = s.count /\ r.wait = s.wait
                 /\ ~r.ok /\ r.failures = 0 /\ ~r.probe.fresh
           /\ phase = "running" /\ s.since # Unset =>
                 /\ r.since = s.since /\ r.ok = s.ok /\ r.failures = s.failures
                 /\ r.probe = s.probe
                 /\ \/ r.count = s.count /\ r.wait = s.wait
                    \/ s.since = Sustained /\ r.count = 0 /\ r.wait = 0
                 /\ s.since # Sustained => r = s
<1>1. CASE phase # "running"
  BY <1>1, SinceFacts, ConstantFacts DEF Sighted
<1>2. CASE phase = "running" /\ s.since = Unset
  <2>. DEFINE q == ResetHealth(s)
              r == [q EXCEPT !.since = 0]
  <2>1. /\ q \in States /\ ~q.ok /\ q.failures = 0 /\ ~q.probe.fresh
        /\ q.count = s.count /\ q.wait = s.wait
        /\ q.probe.own = s.probe.own /\ q.probe.result = s.probe.result
    BY ResetHealthFacts
  <2>2. Sighted(s, phase) = r
    BY <1>2 DEF Sighted
  <2>3. 0 \in Unset..Sustained
    BY ConstantFacts
  <2>4. /\ r \in States /\ r.count = q.count /\ r.wait = q.wait /\ r.since = 0
        /\ r.ok = q.ok /\ r.failures = q.failures /\ r.probe = q.probe
    BY <2>1, <2>3, SinceFacts
  <2>. HIDE DEF q, r
  <2>. QED  BY <1>2, <2>1, <2>2, <2>4
<1>3. CASE phase = "running" /\ s.since # Unset /\ s.since >= Sustained
  <2>1. Sighted(s, phase) = [s EXCEPT !.count = 0, !.wait = 0]
    BY <1>3 DEF Sighted
  <2>2. s.since = Sustained
    BY <1>3, StateFacts, ConstantFacts
  <2>3. 0 \in 0..MaxCount /\ 0 \in 0..Longest
    BY ConstantFacts
  <2>. QED  BY <1>3, <2>1, <2>2, <2>3 DEF States, Probes
<1>4. CASE phase = "running" /\ s.since # Unset /\ ~(s.since >= Sustained)
  BY <1>4 DEF Sighted
<1>. QED  BY <1>1, <1>2, <1>3, <1>4

\* The end of a probe changes its result only.
LEMMA ProbeFacts ==
    ASSUME NEW s \in States, NEW r \in {"none", "running", "pass", "fail", "died"}
    PROVE  LET q == [s EXCEPT !.probe.result = r] IN
           /\ q \in States
           /\ q.count = s.count /\ q.wait = s.wait /\ q.since = s.since
           /\ q.ok = s.ok /\ q.failures = s.failures
           /\ q.probe.fresh = s.probe.fresh /\ q.probe.own = s.probe.own
           /\ q.probe.result = r
<1>1. [s EXCEPT !.probe.result = r] = [s EXCEPT !.probe = [s.probe EXCEPT !.result = r]]
  BY DEF States, Probes
<1>2. [s.probe EXCEPT !.result = r] \in Probes
  BY DEF States, Probes
<1>3. /\ [s.probe EXCEPT !.result = r].fresh = s.probe.fresh
      /\ [s.probe EXCEPT !.result = r].own = s.probe.own
      /\ [s.probe EXCEPT !.result = r].result = r
  BY DEF States, Probes
<1>. QED  BY <1>1, <1>2, <1>3 DEF States, Probes

\* No probe, and the one just spawned.
LEMMA ProbeConstants ==
    /\ NoProbe \in Probes /\ NewProbe \in Probes
    /\ ~NoProbe.fresh /\ ~NoProbe.own /\ NoProbe.result = "none"
    /\ NewProbe.own /\ NewProbe.result = "running"
  BY DEF NoProbe, NewProbe, Probes

-----------------------------------------------------------------------------
\* The parts of the history.
LEMMA PastFacts ==
    ASSUME NEW p \in Pasts
    PROVE  /\ p.up \in 0..Sustained /\ p.tried \in 0..(Longest + MaxLag)
           /\ p.tries \in 0..MaxCount /\ p.failures \in 0..Retries
           /\ p.died \in BOOLEAN /\ p.passed \in BOOLEAN
  BY DEF Pasts

\* One more try in the history, but for `restart: no`.
LEMMA TriedFacts ==
    ASSUME NEW p \in Pasts, lag \in 0..MaxLag
    PROVE  LET r == Tried(p) IN
           /\ r \in Pasts
           /\ r.up = p.up /\ r.died = p.died /\ r.passed = p.passed
           /\ r.failures = p.failures
           /\ never => r.tried = p.tried /\ r.tries = p.tries
           /\ ~never => r.tried = lag /\ r.tries = More(p.tries)
<1>1. lag \in 0..(Longest + MaxLag) /\ More(p.tries) \in 0..MaxCount
  BY ConstantFacts, WaitFacts, PastFacts
<1>. QED  BY <1>1 DEF Tried, Pasts

\* A boot begins the history of a VM anew, and is a try if the last VM had gone down.
LEMMA BootFacts ==
    ASSUME past \in Pasts, lag \in 0..MaxLag, NEW phase \in Booted, Boot(phase)
    PROVE  /\ vm' = phase
           /\ past' \in Pasts
           /\ past'.up = Least(lag) /\ past'.died = (phase \in Down)
           /\ past'.passed = FALSE /\ past'.failures = 0
           /\ (~past.died \/ never) => past'.tried = past.tried /\ past'.tries = past.tries
           /\ past.died /\ ~never => past'.tried = lag /\ past'.tries = More(past.tries)
<1>. DEFINE p == IF past.died THEN Tried(past) ELSE past
<1>1. /\ p \in Pasts
      /\ (~past.died \/ never) => p.tried = past.tried /\ p.tries = past.tries
      /\ past.died /\ ~never => p.tried = lag /\ p.tries = More(past.tries)
  BY TriedFacts
<1>2. /\ vm' = phase
      /\ past' = [up |-> Least(lag), tried |-> p.tried, tries |-> p.tries,
                  died |-> phase \in Down, passed |-> FALSE, failures |-> 0]
  BY DEF Boot, Nothing
<1>. HIDE DEF p
<1>3. /\ Least(lag) \in 0..Sustained /\ 0 \in 0..Retries /\ (phase \in Down) \in BOOLEAN
      /\ p.tried \in 0..(Longest + MaxLag) /\ p.tries \in 0..MaxCount
  BY <1>1, PastFacts, ConstantFacts DEF Least
<1>4. past' \in Pasts
  BY <1>2, <1>3 DEF Pasts
<1>. QED  BY <1>1, <1>2, <1>4

\* A failed boot is a try if no VM was up.
LEMMA BootFailsFacts ==
    ASSUME past \in Pasts, lag \in 0..MaxLag, BootFails
    PROVE  /\ past' \in Pasts
           /\ past'.up = past.up /\ past'.passed = past.passed
           /\ past'.failures = past.failures
           /\ vm \notin Down => past' = past
           /\ vm \in Down => past'.died = (vm' # "none")
           /\ vm \in Down /\ never => past'.tried = past.tried /\ past'.tries = past.tries
           /\ vm \in Down /\ ~never => past'.tried = lag /\ past'.tries = More(past.tries)
<1>1. CASE vm \in Down
  <2>. DEFINE p == Tried(past)
  <2>1. /\ p \in Pasts
        /\ p.up = past.up /\ p.passed = past.passed /\ p.failures = past.failures
        /\ never => p.tried = past.tried /\ p.tries = past.tries
        /\ ~never => p.tried = lag /\ p.tries = More(past.tries)
    BY TriedFacts
  <2>2. past' = [p EXCEPT !.died = (vm' # "none")]
    BY <1>1 DEF BootFails
  <2>. HIDE DEF p
  <2>3. (vm' # "none") \in BOOLEAN
    OBVIOUS
  <2>4. /\ past' \in Pasts /\ past'.died = (vm' # "none")
        /\ past'.up = p.up /\ past'.passed = p.passed /\ past'.failures = p.failures
        /\ past'.tried = p.tried /\ past'.tries = p.tries
    BY <2>1, <2>2, <2>3 DEF Pasts
  <2>. QED  BY <1>1, <2>1, <2>4
<1>2. CASE vm \notin Down
  BY <1>2 DEF BootFails
<1>. QED  BY <1>1, <1>2

\* A tick ages the history.
LEMMA TickFacts ==
    ASSUME past \in Pasts,
           past' = [past EXCEPT !.up = Age(@, 1, Sustained),
                                !.tried = Age(@, 1, Longest + MaxLag)]
    PROVE  /\ past' \in Pasts
           /\ past'.up = Least(past.up + 1)
           /\ past'.tried = (IF past.tried + 1 < Longest + MaxLag
                             THEN past.tried + 1 ELSE Longest + MaxLag)
           /\ past'.died = past.died /\ past'.passed = past.passed
           /\ past'.failures = past.failures /\ past'.tries = past.tries
<1>. DEFINE u == IF past.up + 1 < Sustained THEN past.up + 1 ELSE Sustained
            t == IF past.tried + 1 < Longest + MaxLag THEN past.tried + 1
                                                      ELSE Longest + MaxLag
<1>1. /\ past.up \in Nat /\ past.tried \in Nat
      /\ u \in 0..Sustained /\ t \in 0..(Longest + MaxLag)
  BY ConstantFacts, PastFacts
<1>2. Age(past.up, 1, Sustained) = u /\ Age(past.tried, 1, Longest + MaxLag) = t
  BY <1>1, ConstantFacts DEF Age
<1>3. past' = [past EXCEPT !.up = u, !.tried = t]
  BY <1>2
<1>4. Least(past.up + 1) = u
  BY DEF Least
<1>. HIDE DEF u
<1>. QED  BY <1>1, <1>3, <1>4 DEF Pasts

\* A pass that finds a sustained VM forgives its restarts, and nothing else.
LEMMA ForgivenFacts ==
    ASSUME past \in Pasts, past' = Forgiven(past)
    PROVE  /\ past' \in Pasts
           /\ past'.up = past.up /\ past'.tried = past.tried
           /\ past'.died = past.died /\ past'.passed = past.passed
           /\ past'.failures = past.failures
           /\ past'.tries \in {past.tries, 0}
           /\ vm = "running" /\ past.up = Sustained => past'.tries = 0
<1>1. 0 \in 0..MaxCount
  BY ConstantFacts
<1>. QED  BY <1>1 DEF Forgiven, Pasts

-----------------------------------------------------------------------------
\* Each step of run_healthcheck, as one write-back.
WritesBack(p, o, n) ==
    \E t \in Unset..Interval :
        st' = [st EXCEPT !.probed = t, !.probe = p, !.ok = o, !.failures = n]

\* A write-back leaves the backoff and the clock of st alone.
LEMMA WriteBackStep ==
    ASSUME TypeOK, NEW p \in Probes, NEW o \in BOOLEAN, NEW n \in 0..Retries,
           WritesBack(p, o, n)
    PROVE  /\ st' \in States
           /\ st'.count = st.count /\ st'.wait = st.wait /\ st'.since = st.since
           /\ st'.ok = o /\ st'.failures = n /\ st'.probe = p
<1>1. PICK t \in Unset..Interval :
          st' = [st EXCEPT !.probed = t, !.probe = p, !.ok = o, !.failures = n]
  BY DEF WritesBack
<1>2. st \in States
  BY DEF TypeOK
<1>. DEFINE r == [st EXCEPT !.probed = t, !.probe = p, !.ok = o, !.failures = n]
<1>3. /\ r \in States
      /\ r.count = st.count /\ r.wait = st.wait /\ r.since = st.since
      /\ r.ok = o /\ r.failures = n /\ r.probe = p
  BY <1>2 DEF States
<1>4. st' = r
  BY <1>1
<1>. HIDE DEF r
<1>. QED  BY <1>3, <1>4

\* What each step of run_healthcheck writes back.
LEMMA HealthSteps ==
    ASSUME TypeOK
    PROVE  /\ SpawnProbe => WritesBack(NewProbe, st.ok, st.failures)
           /\ AwaitProbe => WritesBack(Probe, st.ok, st.failures)
           /\ ProbePassed => WritesBack(NoProbe, TRUE, 0)
           /\ ProbeFailed => WritesBack(NoProbe, FALSE, Failures)
           /\ ReportUnhealthy => WritesBack(NoProbe, FALSE, Retries)
           /\ Probe \in {NoProbe, st.probe} /\ Probe \in Probes
           /\ Failures \in 0..Retries
<1>1. /\ st \in States /\ st.probe \in Probes
      /\ st.probed \in Unset..Interval /\ st.failures \in 0..Retries
      /\ 0 \in Unset..Interval
  BY ConstantFacts DEF TypeOK, States
<1>3. SpawnProbe => WritesBack(NewProbe, st.ok, st.failures)
  <2>1. SpawnProbe => st' = [st EXCEPT !.probed = 0, !.probe = NewProbe, !.ok = st.ok,
                                       !.failures = st.failures]
    BY <1>1 DEF SpawnProbe, States
  <2>. QED  BY <1>1, <2>1 DEF WritesBack
<1>4. AwaitProbe => WritesBack(Probe, st.ok, st.failures)
  <2>1. AwaitProbe => st' = [st EXCEPT !.probed = st.probed, !.probe = Probe, !.ok = st.ok,
                                       !.failures = st.failures]
    BY <1>1 DEF AwaitProbe, States
  <2>. QED  BY <1>1, <2>1 DEF WritesBack
<1>5. ProbePassed => WritesBack(NoProbe, TRUE, 0)
  <2>1. ProbePassed => st' = [st EXCEPT !.probed = st.probed, !.probe = NoProbe, !.ok = TRUE,
                                        !.failures = 0]
    BY <1>1 DEF ProbePassed, States
  <2>. QED  BY <1>1, <2>1 DEF WritesBack
<1>6. ProbeFailed => WritesBack(NoProbe, FALSE, Failures)
  <2>1. ProbeFailed => st' = [st EXCEPT !.probed = st.probed, !.probe = NoProbe, !.ok = FALSE,
                                        !.failures = Failures]
    BY <1>1 DEF ProbeFailed, States
  <2>. QED  BY <1>1, <2>1 DEF WritesBack
<1>7. ReportUnhealthy => WritesBack(NoProbe, FALSE, Retries)
  <2>1. ReportUnhealthy => st' = [st EXCEPT !.probed = st.probed, !.probe = NoProbe,
                                            !.ok = FALSE, !.failures = Retries]
    BY <1>1 DEF ReportUnhealthy, States
  <2>. QED  BY <1>1, <2>1 DEF WritesBack
<1>8. Probe \in {NoProbe, st.probe} /\ Probe \in Probes
  BY <1>1, ProbeConstants DEF Probe
<1>9. Failures \in 0..Retries
  BY <1>1, ConstantFacts DEF Failures
<1>. QED  BY <1>3, <1>4, <1>5, <1>6, <1>7, <1>8, <1>9

-----------------------------------------------------------------------------
\* What the two answers of ensure_running and the removal of an unhealthy VM
\* leave of st.
LEMMA UnhealthyFacts ==
    ASSUME st \in States
    PROVE  LET r == [Penalize(ResetHealth([st EXCEPT !.probe = NoProbe])) EXCEPT !.since = Unset]
           IN  /\ r \in States
               /\ r.count = More(st.count) /\ r.wait = Wait(r.count) /\ r.since = Unset
               /\ r.probe = NoProbe
<1>. DEFINE a == [st EXCEPT !.probe = NoProbe]
            b == ResetHealth(a)
            c == Penalize(b)
<1>1. a \in States /\ a.count = st.count /\ a.probe = NoProbe
  BY ProbeConstants DEF States
<1>2. /\ b \in States /\ b.count = a.count
      /\ ~b.probe.fresh /\ b.probe.own = a.probe.own /\ b.probe.result = a.probe.result
  BY <1>1, ResetHealthFacts
<1>3. b.probe \in Probes
  BY <1>2 DEF States
<1>4. b.probe = NoProbe
  <2>1. b.probe = [fresh |-> b.probe.fresh, own |-> b.probe.own, result |-> b.probe.result]
    BY <1>3 DEF Probes
  <2>2. b.probe.fresh = FALSE /\ b.probe.own = FALSE /\ b.probe.result = "none"
    BY <1>1, <1>2, <1>3, ProbeConstants DEF NoProbe, Probes
  <2>. QED  BY <2>1, <2>2 DEF NoProbe
<1>5. c \in States /\ c.count = More(b.count) /\ c.wait = Wait(c.count) /\ c.probe = b.probe
  BY <1>2, PenalizeFacts
<1>6. Unset \in Unset..Sustained
  BY ConstantFacts
<1>. HIDE DEF a, b, c
<1>7. /\ [c EXCEPT !.since = Unset] \in States
      /\ [c EXCEPT !.since = Unset].count = c.count
      /\ [c EXCEPT !.since = Unset].wait = c.wait
      /\ [c EXCEPT !.since = Unset].since = Unset
      /\ [c EXCEPT !.since = Unset].probe = c.probe
  BY <1>5, <1>6, SinceFacts
<1>. QED  BY <1>1, <1>2, <1>4, <1>5, <1>7 DEF a, b, c

\* The initial state.
LEMMA InitFacts ==
    ASSUME Init
    PROVE  TypeOK /\ LInv
<1>1. st \in States /\ past \in Pasts
  <2>1. 0 \in 0..MaxCount /\ 0 \in 0..Longest /\ Unset \in Unset..Sustained
        /\ Unset \in Unset..Interval /\ 0 \in 0..Retries /\ 0 \in 0..Sustained
        /\ 0 \in 0..(Longest + MaxLag)
    BY ConstantFacts
  <2>2. Blank \in States
    BY <2>1, ProbeConstants DEF Blank, States
  <2>3. Nothing \in Pasts
    BY <2>1 DEF Nothing, Pasts
  <2>. QED  BY <2>2, <2>3 DEF Init
<1>2. TypeOK
  <2>1. /\ vm = "none" /\ never \in Policies /\ changed = FALSE /\ pc = "idle" /\ lag = 0
        /\ report = "none" /\ faults = 0
    BY DEF Init
  <2>2. 0 \in 0..MaxLag /\ 0 \in 0..MaxFaults
    BY ConstantFacts
  <2>. QED  BY <1>1, <2>1, <2>2 DEF TypeOK
<1>3. ClocksMatch /\ HealthyIsTrue
  <2>1. /\ st.since = Unset /\ pc = "idle" /\ lag = 0 /\ past.up = 0
        /\ Least(0) = 0
    BY ConstantFacts DEF Init, Blank, Nothing, Least
  <2>. QED  BY <2>1, ConstantFacts DEF ClocksMatch, HealthyIsTrue
<1>4. HealthMatches
  <2>1. st.since = Unset /\ st.probe = NoProbe /\ pc = "idle"
    BY DEF Init, Blank
  <2>. QED  BY <2>1, ProbeConstants DEF HealthMatches
<1>5. RestartsMatch
  <2>1. /\ st.count = 0 /\ st.wait = 0 /\ st.since = Unset /\ pc = "idle" /\ lag = 0
        /\ past.tried = 0 /\ past.tries = 0 /\ past.died = FALSE /\ vm = "none"
    BY DEF Init, Blank, Nothing
  <2>. QED  BY <2>1 DEF RestartsMatch, Wait
<1>. QED  BY <1>2, <1>3, <1>4, <1>5 DEF LInv

-----------------------------------------------------------------------------
(***************************************************************************)
(* Type correctness.                                                       *)
(***************************************************************************)
\* The number of faults stays bounded.
LEMMA FaultFacts ==
    ASSUME TypeOK, Fault
    PROVE  faults' \in 0..MaxFaults
  BY ConstantFacts DEF TypeOK, Fault

\* The types after an answer of ensure_running.
LEMMA EnsuredTypes ==
    ASSUME NEW s \in States, NEW phase \in Booted, Ensured(s, phase), TypeOK
    PROVE  /\ st' \in States
           /\ pc' \in {"health", "done"}
           /\ report' \in {"none", "held", "down", "up", "healthy", "unhealthy"}
<1>1. Sighted(s, phase) \in States
  BY SightedFacts
<1>. QED  BY <1>1 DEF Ensured, TypeOK

\* Every step keeps the types.
LEMMA TypeStep ==
    ASSUME TypeOK, [Next]_vars
    PROVE  TypeOK'
<1>. USE DEF TypeOK
<1>0. /\ st \in States /\ past \in Pasts /\ lag \in 0..MaxLag /\ lag \in Nat
      /\ vm \in {"none"} \cup Booted
  BY ConstantFacts DEF Booted
<1>1. CASE Tick
  <2>1. past' \in Pasts
    BY <1>0, <1>1, TickFacts DEF Tick
  <2>2. st' \in States
    BY <1>0, <1>1, AgedFacts DEF Tick
  <2>3. lag' \in 0..MaxLag /\ (pc' = "idle" => lag' = 0)
    BY <1>1, ConstantFacts DEF Tick
  <2>. QED  BY <1>1, <2>1, <2>2, <2>3 DEF Tick
<1>2. CASE VMComesUp
  BY <1>2 DEF VMComesUp
<1>3. CASE VMExits
  <2>1. past' \in Pasts
    BY <1>0, <1>3 DEF VMExits, Pasts
  <2>. QED  BY <1>3, <2>1 DEF VMExits
<1>4. CASE ProbeEnds
  <2>1. PICK r \in {"pass", "fail", "died"} :
          /\ st' = [st EXCEPT !.probe.result = r]
          /\ past' = IF ~st.probe.own THEN past
                     ELSE IF r = "pass" THEN [past EXCEPT !.passed = TRUE]
                     ELSE [past EXCEPT !.failures = IF @ < Retries THEN @ + 1 ELSE @]
    BY <1>4 DEF ProbeEnds
  <2>2. st' \in States
    BY <1>0, <2>1, ProbeFacts
  <2>3. (IF past.failures < Retries THEN past.failures + 1 ELSE past.failures) \in 0..Retries
    BY <1>0, PastFacts, ConstantFacts
  <2>4. past' \in Pasts
    BY <1>0, <2>1, <2>3 DEF Pasts
  <2>. QED  BY <1>4, <2>2, <2>4 DEF ProbeEnds
<1>5. CASE ConfigChanges
  BY <1>5 DEF ConfigChanges
<1>6. CASE CrashRestart
  <2>1. st' \in States
    <3>1. 0 \in 0..MaxCount /\ 0 \in 0..Longest /\ Unset \in Unset..Sustained
          /\ Unset \in Unset..Interval /\ 0 \in 0..Retries
      BY ConstantFacts
    <3>. QED  BY <1>6, <3>1, ProbeConstants DEF CrashRestart, Blank, States
  <2>2. past' \in Pasts
    <3>1. 0 \in 0..MaxCount  BY ConstantFacts
    <3>. QED  BY <1>0, <1>6, <3>1 DEF CrashRestart, Pasts
  <2>. QED  BY <1>6, <2>1, <2>2, FaultFacts, ConstantFacts DEF CrashRestart
<1>7. CASE StartPass
  BY <1>0, <1>7, ForgivenFacts DEF StartPass
<1>8. CASE Backoff
  BY <1>8 DEF Backoff
<1>9. CASE BeginTurn
  BY <1>9 DEF BeginTurn
<1>10. CASE RemoveForRecreate
  <2>1. [Disown(ResetHealth(st)) EXCEPT !.since = Unset] \in States
    BY <1>0, ResetHealthFacts, DisownFacts, SinceFacts, ConstantFacts
  <2>2. [past EXCEPT !.died = @ /\ ~changed] \in Pasts
    BY <1>0 DEF Pasts
  <2>. QED  BY <1>0, <1>10, <2>1, <2>2, FaultFacts DEF RemoveForRecreate
<1>11. CASE EnsureLeaves
  <2>1. vm \in Booted
    BY <1>11 DEF EnsureLeaves, Booted
  <2>2. Ensured(st, vm)
    BY <1>11 DEF EnsureLeaves
  <2>. QED  BY <1>0, <1>11, <2>1, <2>2, EnsuredTypes DEF EnsureLeaves
<1>12. CASE EnsureCreates
  <2>1. PICK phase \in Booted : Boot(phase) /\ Ensured(Disown(st), phase)
    BY <1>12 DEF EnsureCreates
  <2>2. Disown(st) \in States
    BY <1>0, DisownFacts
  <2>3. vm' = phase /\ past' \in Pasts
    BY <1>0, <2>1, BootFacts
  <2>. QED  BY <1>0, <1>12, <2>1, <2>2, <2>3, EnsuredTypes DEF EnsureCreates, Booted
<1>13. CASE EnsureRestarts
  <2>1. PICK phase \in Booted :
          Boot(phase) /\ Ensured(Restarted(Disown(st), phase), phase)
    BY <1>13 DEF EnsureRestarts
  <2>2. Restarted(Disown(st), phase) \in States
    BY <1>0, DisownFacts, RestartedFacts
  <2>3. vm' = phase /\ past' \in Pasts
    BY <1>0, <2>1, BootFacts
  <2>. QED  BY <1>0, <1>13, <2>1, <2>2, <2>3, EnsuredTypes DEF EnsureRestarts, Booted
<1>14. CASE EnsureFails
  <2>1. [Penalize(st) EXCEPT !.since = Unset] \in States
    BY <1>0, PenalizeFacts, SinceFacts, ConstantFacts
  <2>2. past' \in Pasts
    BY <1>0, <1>14, BootFailsFacts DEF EnsureFails
  <2>. QED  BY <1>0, <1>14, <2>1, <2>2, FaultFacts DEF EnsureFails
<1>15. CASE SpawnProbe
  <2>1. st' \in States
    BY <1>0, <1>15, HealthSteps, WriteBackStep, StateFacts, ProbeConstants
  <2>. QED  BY <1>15, <2>1 DEF SpawnProbe, Healthy
<1>16. CASE AwaitProbe
  <2>1. st' \in States
    BY <1>0, <1>16, HealthSteps, WriteBackStep, StateFacts, ProbeConstants
  <2>. QED  BY <1>16, <2>1 DEF AwaitProbe, Healthy
<1>17. CASE ProbePassed
  <2>1. st' \in States
    <3>1. WritesBack(NoProbe, TRUE, 0) /\ NoProbe \in Probes
      BY <1>17, HealthSteps, ProbeConstants
    <3>2. 0 \in 0..Retries
      BY ConstantFacts
    <3>. QED  BY <3>1, <3>2, WriteBackStep
  <2>. QED  BY <1>17, <2>1 DEF ProbePassed
<1>18. CASE ProbeFailed
  <2>1. st' \in States
    BY <1>0, <1>18, HealthSteps, WriteBackStep, ConstantFacts, ProbeConstants
  <2>. QED  BY <1>18, <2>1 DEF ProbeFailed
<1>19. CASE ReportUnhealthy
  <2>1. st' \in States
    <3>1. WritesBack(NoProbe, FALSE, Retries) /\ NoProbe \in Probes
      BY <1>19, HealthSteps, ProbeConstants
    <3>2. Retries \in 0..Retries
      BY ConstantFacts
    <3>. QED  BY <3>1, <3>2, WriteBackStep
  <2>. QED  BY <1>19, <2>1 DEF ReportUnhealthy
<1>20. CASE RemoveUnhealthy
  <2>1. st' \in States
    <3>1. st' = [Penalize(ResetHealth([st EXCEPT !.probe = NoProbe])) EXCEPT !.since = Unset]
      BY <1>20 DEF RemoveUnhealthy
    <3>. QED  BY <1>0, <3>1, UnhealthyFacts
  <2>2. past' \in Pasts
    <3>1. past' \in {past, [past EXCEPT !.died = TRUE]}
      BY <1>20 DEF RemoveUnhealthy
    <3>2. [past EXCEPT !.died = TRUE] \in Pasts
      BY <1>0 DEF Pasts
    <3>. QED  BY <1>0, <3>1, <3>2
  <2>. QED  BY <1>0, <1>20, <2>1, <2>2, FaultFacts DEF RemoveUnhealthy
<1>21. CASE Revive
  <2>1. past' \in Pasts /\ vm' \in {"none"} \cup Booted
    BY <1>0, <1>21, BootFacts, BootFailsFacts DEF Revive, Booted
  <2>2. report' \in {"up", "down"} /\ faults' \in 0..MaxFaults
    BY <1>21, FaultFacts DEF Revive
  <2>. QED  BY <1>0, <1>21, <2>1, <2>2 DEF Revive, Booted
<1>22. CASE EndPass
  <2>1. st' \in States
    BY <1>0, <1>22, AgedFacts DEF EndPass
  <2>. QED  BY <1>22, <2>1, ConstantFacts DEF EndPass
<1>23. CASE UNCHANGED vars
  BY <1>23 DEF vars
<1>. QED  BY <1>1, <1>2, <1>3, <1>4, <1>5, <1>6, <1>7, <1>8, <1>9, <1>10, <1>11,
            <1>12, <1>13, <1>14, <1>15, <1>16, <1>17, <1>18, <1>19, <1>20, <1>21,
            <1>22, <1>23 DEF Next, PassStep, Turn, World

-----------------------------------------------------------------------------
(***************************************************************************)
(* Each step keeps what st says of the VM true.                            *)
(***************************************************************************)
Matches == ClocksMatch /\ HealthMatches /\ HealthyIsTrue /\ (~Exposes => RestartsMatch)

\* What the types of a state and of the next one come to.
LEMMA Numbers ==
    ASSUME TypeOK
    PROVE  /\ st \in States /\ past \in Pasts
           /\ st.count \in 0..MaxCount /\ st.wait \in 0..Longest
           /\ st.since \in Unset..Sustained /\ st.ok \in BOOLEAN
           /\ st.failures \in 0..Retries
           /\ past.up \in 0..Sustained /\ past.tried \in 0..(Longest + MaxLag)
           /\ past.tries \in 0..MaxCount /\ past.failures \in 0..Retries
           /\ past.died \in BOOLEAN /\ past.passed \in BOOLEAN
           /\ lag \in 0..MaxLag
           /\ vm \in {"none"} \cup Booted
  BY StateFacts, PastFacts DEF TypeOK, Booted

\* Steps that leave st, past and lag alone.
LEMMA QuietKeeps ==
    ASSUME TypeOK, Matches,
           VMComesUp \/ ConfigChanges \/ Backoff \/ BeginTurn
    PROVE  Matches'
<1>0. UNCHANGED <<lag, st, past>>
  BY DEF VMComesUp, ConfigChanges, Backoff, BeginTurn
<1>1. CASE VMComesUp
  <2>1. ClocksMatch' /\ HealthMatches' /\ HealthyIsTrue'
    BY <1>0, <1>1 DEF Matches, ClocksMatch, HealthMatches, HealthyIsTrue, VMComesUp
  <2>2. ~Exposes => RestartsMatch'
    BY <1>0, <1>1, ConstantFacts DEF Matches, RestartsMatch, ClocksMatch, VMComesUp
  <2>. QED  BY <2>1, <2>2 DEF Matches
<1>2. CASE ConfigChanges
  <2>1. ClocksMatch' /\ HealthMatches' /\ HealthyIsTrue'
    BY <1>0, <1>2 DEF Matches, ClocksMatch, HealthMatches, HealthyIsTrue, ConfigChanges
  <2>2. ~Exposes => RestartsMatch'
    BY <1>0, <1>2 DEF Matches, RestartsMatch, ConfigChanges
  <2>. QED  BY <2>1, <2>2 DEF Matches
<1>3. CASE Backoff
  <2>1. ClocksMatch' /\ HealthMatches' /\ HealthyIsTrue'
    BY <1>0, <1>3 DEF Matches, ClocksMatch, HealthMatches, HealthyIsTrue, Backoff
  <2>2. ~Exposes => RestartsMatch'
    BY <1>0, <1>3 DEF Matches, RestartsMatch, Backoff
  <2>. QED  BY <2>1, <2>2 DEF Matches
<1>4. CASE BeginTurn
  <2>1. ClocksMatch' /\ HealthMatches' /\ HealthyIsTrue'
    BY <1>0, <1>4 DEF Matches, ClocksMatch, HealthMatches, HealthyIsTrue, BeginTurn
  <2>2. ~Exposes => RestartsMatch'
    BY <1>0, <1>4 DEF Matches, RestartsMatch, BeginTurn
  <2>. QED  BY <2>1, <2>2 DEF Matches
<1>. QED  BY <1>1, <1>2, <1>3, <1>4

\* A pass begins: st is as of now, and what it counts of a running VM did happen.
LEMMA StartPassKeeps ==
    ASSUME TypeOK, TypeOK', Matches, StartPass
    PROVE  Matches'
<1>1. /\ UNCHANGED <<vm, never, changed, lag, st, report>>
      /\ pc = "idle" /\ pc' = "turn" /\ lag = 0
      /\ past' \in Pasts /\ past'.up = past.up /\ past'.tried = past.tried
      /\ past'.died = past.died /\ past'.passed = past.passed
      /\ past'.failures = past.failures /\ past'.tries \in {past.tries, 0}
      /\ vm = "running" /\ past.up = Sustained => past'.tries = 0
  BY Numbers, ForgivenFacts DEF StartPass, TypeOK
<1>2. ClocksMatch' /\ HealthMatches' /\ HealthyIsTrue'
  BY <1>1 DEF Matches, ClocksMatch, HealthMatches, HealthyIsTrue
<1>3. ASSUME ~Exposes  PROVE RestartsMatch'
  <2>. USE <1>3 DEF Matches
  <2>1. past'.tries <= st'.count /\ past'.tries \in 0..MaxCount
    BY <1>1, Numbers, ConstantFacts DEF RestartsMatch
  <2>2. Wait(past'.tries) \in Nat /\ Wait(past'.tries) <= Wait(past.tries)
        /\ Wait(past.tries) \in 0..Longest
    BY <1>1, <2>1, Numbers, WaitFacts
  <2>3. past'.tried - lag' + st'.wait >= Wait(past'.tries)
    BY <1>1, <2>2, Numbers, ConstantFacts DEF RestartsMatch
  <2>4. vm = "running" /\ st.since >= Sustained => past'.tries = 0
    <3>. SUFFICES ASSUME vm = "running", st.since >= Sustained
                  PROVE  past'.tries = 0
      OBVIOUS
    <3>1. st.since # Unset /\ Least(st.since + lag) = Sustained
      BY <1>1, Numbers, ConstantFacts DEF Least
    <3>2. past.up >= Sustained
      BY <3>1 DEF ClocksMatch
    <3>. QED  BY <1>1, <3>2, Numbers, ConstantFacts
  <2>. QED  BY <1>1, <2>1, <2>3, <2>4 DEF RestartsMatch
<1>. QED  BY <1>2, <1>3 DEF Matches

\* Time moves st and the history together.
LEMMA TickKeeps ==
    ASSUME TypeOK, TypeOK', Matches, Tick
    PROVE  Matches'
<1>0. /\ UNCHANGED <<vm, never, changed, pc, report>>
      /\ past' \in Pasts /\ past'.up = Least(past.up + 1)
      /\ past'.tried = (IF past.tried + 1 < Longest + MaxLag
                        THEN past.tried + 1 ELSE Longest + MaxLag)
      /\ past'.died = past.died /\ past'.passed = past.passed
      /\ past'.failures = past.failures /\ past'.tries = past.tries
  BY Numbers, TickFacts DEF Tick
<1>1. /\ st'.ok = st.ok /\ st'.failures = st.failures /\ st'.probe = st.probe
      /\ st'.count = st.count
      /\ \/ /\ pc = "idle" /\ lag' = lag /\ lag = 0
            /\ st'.wait = (IF st.wait < 1 THEN 0 ELSE st.wait - 1)
            /\ st'.since = Age(st.since, 1, Sustained)
         \/ /\ pc # "idle" /\ lag < MaxLag /\ lag' = lag + 1
            /\ st' = st
  <2>1. CASE pc = "idle"
    <3>. DEFINE a == Aged(st, 1)
    <3>1. st' = a /\ lag' = lag /\ lag = 0
      BY <2>1 DEF Tick, TypeOK
    <3>2. /\ a.count = st.count /\ a.wait = (IF st.wait < 1 THEN 0 ELSE st.wait - 1)
          /\ a.since = Age(st.since, 1, Sustained)
          /\ a.ok = st.ok /\ a.failures = st.failures /\ a.probe = st.probe
      <4>1. st \in States /\ 1 \in Nat  BY Numbers
      <4>. QED  BY <4>1, AgedFacts
    <3>. HIDE DEF a
    <3>. QED  BY <2>1, <3>1, <3>2
  <2>2. CASE pc # "idle"
    BY <2>2 DEF Tick
  <2>. QED  BY <2>1, <2>2
<1>2. /\ st'.since = Unset <=> st.since = Unset
      /\ st.since # Unset => Least(st'.since + lag') \in {Least(st.since + lag),
                                                        Least(st.since + lag + 1)}
      /\ st.since # Unset => Least(st'.since + lag') <= Least(past.up + 1)
  <2>0. st.since \in Unset..Sustained /\ Sustained \in Nat /\ 1 \in Nat
    BY Numbers, ConstantFacts
  <2>1. Age(st.since, 1, Sustained) = Unset <=> st.since = Unset
    BY <2>0, AgeFacts
  <2>2. st.since # Unset =>
          Age(st.since, 1, Sustained) = IF st.since + 1 < Sustained THEN st.since + 1
                                                                    ELSE Sustained
    BY <2>0, AgeFacts
  <2>3. st.since # Unset => past.up >= Least(st.since + lag)
    BY DEF Matches, ClocksMatch
  <2>4. st.since # Unset => st.since \in Nat
    BY Numbers, ConstantFacts
  <2>. QED  BY <1>1, <2>1, <2>2, <2>3, <2>4, Numbers, ConstantFacts DEF Least
<1>3. ClocksMatch'
  <2>1. past'.up >= Least(lag')
    BY <1>0, <1>1, Numbers, ConstantFacts DEF Matches, ClocksMatch, Least
  <2>. QED  BY <1>0, <1>1, <1>2, <2>1 DEF Matches, ClocksMatch
<1>4. HealthMatches' /\ HealthyIsTrue'
  BY <1>0, <1>1, <1>2 DEF Matches, HealthMatches, HealthyIsTrue
<1>5. ASSUME ~Exposes  PROVE RestartsMatch'
  <2>. USE <1>5 DEF Matches
  <2>1. past'.tries <= st'.count /\ past'.tries \in 0..MaxCount
    BY <1>0, <1>1, Numbers, ConstantFacts DEF RestartsMatch
  <2>2. Wait(past'.tries) \in Nat /\ Wait(past'.tries) <= Wait(past.tries)
        /\ Wait(past.tries) \in 0..Longest
    BY <1>0, <2>1, Numbers, WaitFacts
  <2>3. past'.tried - lag' + st'.wait >= Wait(past'.tries)
    BY <1>0, <1>1, <2>2, Numbers, ConstantFacts DEF RestartsMatch
  <2>4. pc \in {"remove", "ensure"} => st'.wait = 0
    BY <1>1 DEF RestartsMatch
  <2>5. pc = "health" /\ st'.wait > 0 => ~st'.probe.fresh
    BY <1>1 DEF RestartsMatch
  <2>6. pc = "revive" =>
          /\ More(past'.tries) <= st'.count /\ st'.wait = Wait(st'.count)
          /\ past'.tried - lag' >= Wait(past'.tries)
    <3>1. More(past'.tries) <= More(past.tries) /\ More(past'.tries) \in Nat
          /\ More(past.tries) \in Nat
      BY <1>0, <2>1, Numbers, WaitFacts
    <3>. QED  BY <1>0, <1>1, <2>2, <3>1, Numbers, ConstantFacts DEF RestartsMatch
  <2>7. pc \in {"turn", "remove", "ensure"} /\ vm = "running" /\ st'.since >= Sustained
          => past'.tries = 0
    BY <1>0, <1>1 DEF RestartsMatch
  <2>. QED  BY <1>0, <2>1, <2>3, <2>4, <2>5, <2>6, <2>7 DEF RestartsMatch
<1>. QED  BY <1>3, <1>4, <1>5 DEF Matches

\* A VM that went down leaves st about it.
LEMMA VMExitsKeeps ==
    ASSUME TypeOK, TypeOK', Matches, VMExits
    PROVE  Matches'
<1>1. /\ UNCHANGED <<pc, lag, st, report, changed>> /\ vm' \in {"stopped", "failed"}
      /\ past'.up = past.up /\ past'.tried = past.tried /\ past'.tries = past.tries
      /\ past'.passed = past.passed /\ past'.failures = past.failures
  BY Numbers DEF VMExits, Pasts
<1>2. ClocksMatch' /\ HealthMatches' /\ HealthyIsTrue'
  BY <1>1 DEF Matches, ClocksMatch, HealthMatches, HealthyIsTrue
<1>3. ~Exposes => RestartsMatch'
  BY <1>1 DEF Matches, RestartsMatch
<1>. QED  BY <1>2, <1>3 DEF Matches

\* A probe that ends counts for the VM it was started for.
LEMMA ProbeEndsKeeps ==
    ASSUME TypeOK, TypeOK', Matches, ProbeEnds
    PROVE  Matches'
<1>1. PICK r \in {"pass", "fail", "died"} :
        /\ st' = [st EXCEPT !.probe.result = r]
        /\ past' = IF ~st.probe.own THEN past
                   ELSE IF r = "pass" THEN [past EXCEPT !.passed = TRUE]
                   ELSE [past EXCEPT !.failures = IF @ < Retries THEN @ + 1 ELSE @]
  BY DEF ProbeEnds
<1>2. UNCHANGED <<vm, changed, pc, lag, report>> /\ st.probe.result = "running"
  BY DEF ProbeEnds
<1>3. /\ st'.count = st.count /\ st'.wait = st.wait /\ st'.since = st.since
      /\ st'.ok = st.ok /\ st'.failures = st.failures
      /\ st'.probe.fresh = st.probe.fresh /\ st'.probe.own = st.probe.own
      /\ st'.probe.result = r
  <2>. DEFINE q == [st EXCEPT !.probe.result = r]
  <2>1. st \in States /\ r \in {"none", "running", "pass", "fail", "died"}
    BY Numbers
  <2>2. /\ q.count = st.count /\ q.wait = st.wait /\ q.since = st.since
        /\ q.ok = st.ok /\ q.failures = st.failures
        /\ q.probe.fresh = st.probe.fresh /\ q.probe.own = st.probe.own
        /\ q.probe.result = r
    BY ZenonT(40), <2>1, ProbeFacts
  <2>. HIDE DEF q
  <2>. QED  BY <1>1, <2>2 DEF q
<1>4. /\ past'.up = past.up /\ past'.tried = past.tried /\ past'.tries = past.tries
      /\ past'.died = past.died
      /\ past'.passed = (past.passed \/ (st.probe.own /\ r = "pass"))
      /\ past'.failures = IF st.probe.own /\ r # "pass" /\ past.failures < Retries
                          THEN past.failures + 1 ELSE past.failures
  BY <1>1, Numbers DEF Pasts
<1>5. ClocksMatch' /\ HealthyIsTrue'
  BY <1>2, <1>3, <1>4 DEF Matches, ClocksMatch, HealthyIsTrue
<1>6. HealthMatches'
  <2>1. st'.probe.own /\ st'.probe.result = "pass" => past'.passed
    BY <1>3, <1>4
  <2>2. pc # "revive"
    BY <1>2, ProbeConstants DEF Matches, HealthMatches
  <2>3. ASSUME st.since # Unset
        PROVE  /\ st'.ok => past'.passed
               /\ st'.probe.fresh /\ st'.probe.result # "none" => st'.probe.own
               /\ past'.failures >= st'.failures
               /\ st'.probe.fresh /\ st'.probe.result \in {"fail", "died"} =>
                     past'.failures = Retries \/ past'.failures > st'.failures
    <3>1. /\ st.ok => past.passed
          /\ st.probe.fresh => st.probe.own
          /\ past.failures >= st.failures
      BY <2>3, <1>2 DEF Matches, HealthMatches
    <3>2. past.failures \in 0..Retries /\ st.failures \in 0..Retries /\ Retries \in Nat
      BY Numbers, ConstantFacts
    <3>3. past'.failures >= st'.failures
      BY <1>3, <1>4, <3>1, <3>2
    <3>4. ASSUME st'.probe.fresh, st'.probe.result \in {"fail", "died"}
          PROVE  past'.failures = Retries \/ past'.failures > st'.failures
      <4>1. st.probe.own /\ r # "pass"
        BY <1>3, <3>1, <3>4
      <4>. QED  BY <1>3, <1>4, <3>1, <3>2, <4>1
    <3>. QED  BY <1>3, <1>4, <3>1, <3>3, <3>4
  <2>. QED  BY <1>2, <1>3, <2>1, <2>2, <2>3 DEF HealthMatches
<1>7. ~Exposes => RestartsMatch'
  BY <1>2, <1>3, <1>4 DEF Matches, RestartsMatch
<1>. QED  BY <1>5, <1>6, <1>7 DEF Matches

\* A new process knows nothing, which is true of any VM.
LEMMA CrashKeeps ==
    ASSUME TypeOK, TypeOK', Matches, CrashRestart
    PROVE  Matches'
<1>1. /\ vm' = vm /\ pc' = "idle" /\ lag' = 0
      /\ st'.count = 0 /\ st'.wait = 0 /\ st'.since = Unset /\ st'.probe = NoProbe
      /\ past'.up = past.up /\ past'.tried = past.tried /\ past'.tries = 0
      /\ past'.died = (past.died /\ vm # "none")
  <2>1. /\ vm' = vm /\ pc' = "idle" /\ lag' = 0 /\ st' = Blank
        /\ past' = [past EXCEPT !.tries = 0, !.died = @ /\ vm # "none"]
    BY DEF CrashRestart
  <2>2. /\ st'.count = 0 /\ st'.wait = 0 /\ st'.since = Unset /\ st'.probe = NoProbe
    BY <2>1 DEF Blank
  <2>3. /\ past'.up = past.up /\ past'.tried = past.tried /\ past'.tries = 0
        /\ past'.died = (past.died /\ vm # "none")
    BY <2>1, Numbers DEF Pasts
  <2>. QED  BY <2>1, <2>2, <2>3
<1>2. past.up >= Least(0) /\ past.tried >= 0
  BY Numbers, ConstantFacts DEF Least
<1>3. ClocksMatch' /\ HealthMatches' /\ HealthyIsTrue'
  BY <1>1, <1>2, ProbeConstants DEF ClocksMatch, HealthMatches, HealthyIsTrue
<1>4. RestartsMatch'
  <2>1. Wait(past'.tries) = 0
    BY <1>1 DEF Wait
  <2>2. past'.tried - lag' + st'.wait >= 0 /\ past'.tries <= st'.count
    BY <1>1, <1>2, Numbers, ConstantFacts
  <2>3. vm' = "none" => ~past'.died
    BY <1>1
  <2>. QED  BY <1>1, <2>1, <2>2, <2>3 DEF RestartsMatch
<1>. QED  BY <1>3, <1>4 DEF Matches

\* A removal for another configuration resets what st says, or leaves both alone.
LEMMA RemoveKeeps ==
    ASSUME TypeOK, TypeOK', Matches, RemoveForRecreate
    PROVE  Matches'
<1>1. CASE pc' = "done"
  <2>1. UNCHANGED <<vm, changed, st, past, lag>> /\ report' = "down" /\ pc = "remove"
    BY <1>1 DEF RemoveForRecreate
  <2>2. ClocksMatch' /\ HealthMatches' /\ HealthyIsTrue'
    BY <1>1, <2>1 DEF Matches, ClocksMatch, HealthMatches, HealthyIsTrue
  <2>3. ~Exposes => RestartsMatch'
    BY <1>1, <2>1 DEF Matches, RestartsMatch
  <2>. QED  BY <2>2, <2>3 DEF Matches
<1>2. CASE pc' # "done"
  <2>. DEFINE a == ResetHealth(st)
              b == Disown(a)
              c == [b EXCEPT !.since = Unset]
  <2>1. /\ pc = "remove" /\ pc' = "ensure" /\ vm' = "none" /\ lag' = lag
        /\ st' = c /\ past' = [past EXCEPT !.died = @ /\ ~changed]
    BY <1>2 DEF RemoveForRecreate
  <2>2. a \in States /\ a.count = st.count /\ a.wait = st.wait
    BY Numbers, ResetHealthFacts
  <2>3. b \in States /\ b.count = a.count /\ b.wait = a.wait /\ ~b.probe.own
    BY <2>2, DisownFacts
  <2>4. /\ c.count = b.count /\ c.wait = b.wait /\ c.since = Unset /\ c.probe = b.probe
    BY <2>3 DEF States
  <2>. HIDE DEF a, b, c
  <2>5. /\ st'.count = st.count /\ st'.wait = st.wait /\ st'.since = Unset
        /\ ~st'.probe.own
    BY <2>1, <2>2, <2>3, <2>4
  <2>6. /\ past'.up = past.up /\ past'.tried = past.tried /\ past'.tries = past.tries
        /\ past'.died = (past.died /\ ~changed)
    BY <2>1, Numbers DEF Pasts
  <2>7. ClocksMatch' /\ HealthMatches' /\ HealthyIsTrue'
    BY <2>1, <2>5, <2>6 DEF Matches, ClocksMatch, HealthMatches, HealthyIsTrue
  <2>8. ~Exposes => RestartsMatch'
    BY <2>1, <2>5, <2>6 DEF Matches, RestartsMatch
  <2>. QED  BY <2>7, <2>8 DEF Matches
<1>. QED  BY <1>1, <1>2

\* The end of the pass catches st up with the time the pass took.
LEMMA EndPassKeeps ==
    ASSUME TypeOK, TypeOK', Matches, EndPass
    PROVE  Matches'
<1>1. /\ UNCHANGED <<vm, changed, past>> /\ pc' = "idle" /\ lag' = 0 /\ pc = "done"
      /\ st' = Aged(st, lag)
  BY DEF EndPass
<1>2. /\ st'.count = st.count /\ st'.ok = st.ok /\ st'.failures = st.failures
      /\ st'.probe = st.probe
      /\ st'.wait = (IF st.wait < lag THEN 0 ELSE st.wait - lag)
      /\ st'.since = Age(st.since, lag, Sustained)
  <2>. DEFINE a == Aged(st, lag)
  <2>1. st \in States /\ lag \in Nat
    BY Numbers, ConstantFacts
  <2>2. /\ a.count = st.count /\ a.wait = (IF st.wait < lag THEN 0 ELSE st.wait - lag)
        /\ a.since = Age(st.since, lag, Sustained)
        /\ a.ok = st.ok /\ a.failures = st.failures /\ a.probe = st.probe
    BY <2>1, AgedFacts
  <2>. HIDE DEF a
  <2>. QED  BY <1>1, <2>2 DEF a
<1>3. /\ st'.since = Unset <=> st.since = Unset
      /\ st.since # Unset => st'.since = Least(st.since + lag)
                            /\ st'.since + lag' = Least(st.since + lag)
                            /\ Least(st'.since + lag') = Least(st.since + lag)
  <2>1. st.since \in Unset..Sustained /\ Sustained \in Nat /\ lag \in Nat
    BY Numbers, ConstantFacts
  <2>2. /\ Age(st.since, lag, Sustained) = Unset <=> st.since = Unset
        /\ st.since # Unset =>
              Age(st.since, lag, Sustained) = IF st.since + lag < Sustained
                                              THEN st.since + lag ELSE Sustained
    BY <2>1, AgeFacts
  <2>. QED  BY <1>1, <1>2, <2>1, <2>2, ConstantFacts DEF Least
<1>4. ClocksMatch'
  <2>1. past.up >= Least(0)
    BY Numbers, ConstantFacts DEF Least
  <2>. QED  BY <1>1, <1>3, <2>1 DEF Matches, ClocksMatch
<1>5. HealthMatches' /\ HealthyIsTrue'
  BY <1>1, <1>2, <1>3 DEF Matches, HealthMatches, HealthyIsTrue
<1>6. ASSUME ~Exposes  PROVE RestartsMatch'
  <2>1. Wait(past.tries) \in Nat
    BY Numbers, WaitFacts, ConstantFacts
  <2>2. past.tried + st'.wait >= Wait(past.tries)
    BY <1>2, <1>6, <2>1, Numbers, ConstantFacts DEF Matches, RestartsMatch
  <2>. QED  BY <1>1, <1>2, <1>3, <1>6, <2>2, Numbers, ConstantFacts
            DEF Matches, RestartsMatch
<1>. QED  BY <1>4, <1>5, <1>6 DEF Matches

\* The turn's last word on an instance that does not come up.
LEMMA EnsuredFacts ==
    ASSUME NEW s \in States, NEW phase \in Booted, Ensured(s, phase)
    PROVE  /\ st'.probe.own = s.probe.own /\ st'.probe.result = s.probe.result
           /\ phase # "running" =>
                 /\ pc' = "done" /\ report' = "down"
                 /\ st'.since = Unset /\ st'.count = s.count /\ st'.wait = s.wait
           /\ phase = "running" => pc' = "health"
           /\ phase = "running" /\ s.since = Unset =>
                 /\ st'.since = 0 /\ st'.count = s.count /\ st'.wait = s.wait
                 /\ ~st'.ok /\ st'.failures = 0 /\ ~st'.probe.fresh
           /\ phase = "running" /\ s.since # Unset =>
                 /\ st'.since = s.since /\ st'.ok = s.ok /\ st'.failures = s.failures
                 /\ st'.probe = s.probe
                 /\ \/ st'.count = s.count /\ st'.wait = s.wait
                    \/ s.since = Sustained /\ st'.count = 0 /\ st'.wait = 0
                 /\ s.since # Sustained => st' = s
<1>1. /\ st' = Sighted(s, phase)
      /\ pc' = IF phase = "running" THEN "health" ELSE "done"
      /\ report' = IF phase = "running" THEN report ELSE "down"
  BY DEF Ensured
<1>. QED  BY <1>1, SightedFacts

\* A VM left as it is: a sighting, perhaps the first.
LEMMA EnsureLeavesKeeps ==
    ASSUME TypeOK, TypeOK', Matches, EnsureLeaves
    PROVE  Matches'
<1>1. /\ UNCHANGED <<vm, changed, lag, past>> /\ pc = "ensure"
      /\ vm \in Booted /\ st \in States /\ Ensured(st, vm)
  BY Numbers DEF EnsureLeaves, Booted
<1>2. /\ st'.probe.own = st.probe.own /\ st'.probe.result = st.probe.result
      /\ vm # "running" =>
            /\ pc' = "done" /\ report' = "down"
            /\ st'.since = Unset /\ st'.count = st.count /\ st'.wait = st.wait
      /\ vm = "running" => pc' = "health"
      /\ vm = "running" /\ st.since = Unset =>
            /\ st'.since = 0 /\ st'.count = st.count /\ st'.wait = st.wait
            /\ ~st'.ok /\ st'.failures = 0 /\ ~st'.probe.fresh
      /\ vm = "running" /\ st.since # Unset =>
            /\ st'.since = st.since /\ st'.ok = st.ok /\ st'.failures = st.failures
            /\ st'.probe = st.probe
            /\ \/ st'.count = st.count /\ st'.wait = st.wait
               \/ st.since = Sustained /\ st'.count = 0 /\ st'.wait = 0
  BY <1>1, EnsuredFacts
<1>3. vm # "none" /\ 0 < Sustained /\ lag \in Nat /\ Unset = -1
  BY <1>1, Numbers, ConstantFacts DEF Booted
<1>4. ClocksMatch'
  BY <1>1, <1>2, <1>3, Numbers, ConstantFacts DEF Matches, ClocksMatch, Least
<1>5. HealthMatches' /\ HealthyIsTrue'
  <2>1. past.failures >= 0
    BY Numbers, ConstantFacts
  <2>2. CASE vm # "running"
    BY <1>1, <1>2, <2>2 DEF Matches, HealthMatches, HealthyIsTrue
  <2>3. CASE vm = "running" /\ st.since = Unset
    BY <1>1, <1>2, <2>1, <2>3 DEF Matches, HealthMatches, HealthyIsTrue
  <2>4. CASE vm = "running" /\ st.since # Unset
    BY <1>1, <1>2, <2>4 DEF Matches, HealthMatches, HealthyIsTrue
  <2>. QED  BY <2>2, <2>3, <2>4
<1>6. ASSUME ~Exposes  PROVE RestartsMatch'
  <2>1. RestartsMatch /\ st.wait = 0
    BY <1>1, <1>6 DEF Matches, RestartsMatch
  <2>2. CASE st'.count = st.count /\ st'.wait = st.wait
    BY <1>1, <1>2, <1>3, <2>1, <2>2, Numbers, ConstantFacts DEF RestartsMatch
  <2>3. CASE vm = "running" /\ st.since = Sustained /\ st'.count = 0 /\ st'.wait = 0
    <3>1. past.tries = 0
      BY <1>1, <2>1, <2>3, Numbers, ConstantFacts DEF RestartsMatch
    <3>. QED  BY <1>1, <1>2, <1>3, <2>1, <2>3, <3>1, Numbers, ConstantFacts DEF RestartsMatch
  <2>. QED  BY <1>2, <2>2, <2>3
<1>. QED  BY <1>4, <1>5, <1>6 DEF Matches

\* A VM created: the clock starts with it, and no probe is its own.
LEMMA EnsureCreatesKeeps ==
    ASSUME TypeOK, TypeOK', Matches, EnsureCreates
    PROVE  Matches'
<1>. DEFINE s == Disown(st)
<1>1. PICK phase \in Booted : Boot(phase) /\ Ensured(s, phase)
  BY DEF EnsureCreates
<1>2. /\ pc = "ensure" /\ vm = "none" /\ UNCHANGED <<changed, lag>>
      /\ st.since = Unset
  BY DEF EnsureCreates, Matches, ClocksMatch
<1>3. /\ s \in States /\ s.count = st.count /\ s.wait = st.wait /\ s.since = Unset
      /\ ~s.probe.own
  BY <1>2, Numbers, DisownFacts
<1>. HIDE DEF s
<1>4. /\ ~st'.probe.own /\ st'.count = st.count /\ st'.wait = st.wait
      /\ phase # "running" => pc' = "done" /\ report' = "down" /\ st'.since = Unset
      /\ phase = "running" =>
            /\ pc' = "health" /\ st'.since = 0
            /\ ~st'.ok /\ st'.failures = 0 /\ ~st'.probe.fresh
  BY <1>1, <1>3, EnsuredFacts
<1>5. /\ vm' = phase /\ past'.up = Least(lag) /\ past'.failures = 0
      /\ (~past.died \/ never) => past'.tried = past.tried /\ past'.tries = past.tries
  BY <1>1, Numbers, BootFacts
<1>6. vm' # "none" /\ 0 < Sustained /\ lag \in Nat /\ Unset = -1
  BY <1>5, Numbers, ConstantFacts DEF Booted
<1>7. ClocksMatch'
  BY <1>2, <1>4, <1>5, <1>6, ConstantFacts DEF ClocksMatch, Least
<1>8. HealthMatches' /\ HealthyIsTrue'
  BY <1>4, <1>5 DEF HealthMatches, HealthyIsTrue
<1>9. ASSUME ~Exposes  PROVE RestartsMatch'
  <2>1. RestartsMatch /\ st.wait = 0 /\ ~past.died
    BY <1>2, <1>9 DEF Matches, RestartsMatch
  <2>2. past'.tried = past.tried /\ past'.tries = past.tries
    BY <1>5, <2>1
  <2>3. past'.tries <= st'.count /\ past'.tried - lag' + st'.wait >= Wait(past'.tries)
    BY <1>2, <1>4, <2>1, <2>2 DEF RestartsMatch
  <2>4. CASE phase = "running"
    <3>1. ~(st'.since >= Sustained)
      BY <1>2, <1>4, <1>6, <2>4, ConstantFacts
    <3>. QED  BY <1>4, <1>5, <1>6, <2>3, <2>4, <3>1 DEF RestartsMatch
  <2>5. CASE phase # "running"
    BY <1>4, <1>5, <1>6, <2>3, <2>5 DEF RestartsMatch
  <2>. QED  BY <2>4, <2>5
<1>. QED  BY <1>7, <1>8, <1>9 DEF Matches

\* Penalizing st covers the restart it is for, whether or not the VM had gone down.
LEMMA PenaltyCovers ==
    ASSUME TypeOK, RestartsMatch, st.wait = 0,
           st'.count = More(st.count), st'.wait = Wait(st'.count),
           \/ past'.tried = past.tried /\ past'.tries = past.tries
           \/ past'.tried = lag /\ past'.tries = More(past.tries)
    PROVE  past'.tries <= st'.count /\ past'.tried - lag + st'.wait >= Wait(past'.tries)
<1>1. past.tries \in 0..st.count
  BY Numbers, ConstantFacts DEF RestartsMatch
<1>2. More(past.tries) <= More(st.count) /\ More(st.count) \in 0..MaxCount
  BY <1>1, Numbers, WaitFacts
<1>3. More(past.tries) \in 0..MaxCount
  BY Numbers, WaitFacts
<1>4. past.tries <= More(st.count)
  BY <1>1, Numbers, ConstantFacts DEF More
<1>5. past'.tries \in 0..st'.count
  BY <1>1, <1>2, <1>3, <1>4, ConstantFacts
<1>6. Wait(st'.count) \in Nat /\ Wait(past.tries) \in Nat
  BY <1>2, Numbers, WaitFacts, ConstantFacts
<1>7. Wait(past'.tries) \in Nat /\ Wait(past'.tries) <= Wait(st'.count)
  BY <1>2, <1>5, WaitFacts, ConstantFacts
<1>8. past.tried - lag >= Wait(past.tries)
  BY Numbers, ConstantFacts DEF RestartsMatch
<1>9. past'.tried - lag + st'.wait >= Wait(past'.tries)
  <2>1. CASE past'.tried = past.tried /\ past'.tries = past.tries
    BY <1>6, <1>8, <2>1, Numbers, ConstantFacts
  <2>2. CASE past'.tried = lag
    BY <1>6, <1>7, <2>2, Numbers, ConstantFacts
  <2>. QED  BY <2>1, <2>2
<1>. QED  BY <1>5, <1>9, ConstantFacts, <1>2

\* A VM restarted: counted, and a generation of its own.
LEMMA EnsureRestartsKeeps ==
    ASSUME TypeOK, TypeOK', Matches, EnsureRestarts
    PROVE  Matches'
<1>. DEFINE q == Disown(st)
<1>1. PICK phase \in Booted : Boot(phase) /\ Ensured(Restarted(q, phase), phase)
  BY DEF EnsureRestarts
<1>. DEFINE s == Restarted(q, phase)
<1>2. pc = "ensure" /\ ~never /\ UNCHANGED <<changed, lag>>
  BY DEF EnsureRestarts
<1>3. q \in States /\ q.count = st.count /\ ~q.probe.own
  BY Numbers, DisownFacts
<1>. HIDE DEF q
<1>4. /\ s \in States /\ ~s.probe.own
      /\ s.since = (IF phase = "running" THEN 0 ELSE Unset)
      /\ ~s.ok /\ s.failures = 0 /\ ~s.probe.fresh
      /\ s.count = More(st.count) /\ s.wait = Wait(s.count)
  BY <1>2, <1>3, RestartedFacts
<1>5. Ensured(s, phase)
  BY <1>1
<1>. HIDE DEF s
<1>6. /\ ~st'.probe.own /\ st'.count = More(st.count) /\ st'.wait = Wait(st'.count)
      /\ phase # "running" => pc' = "done" /\ report' = "down" /\ st'.since = Unset
      /\ phase = "running" =>
            /\ pc' = "health" /\ st'.since = 0
            /\ ~st'.ok /\ st'.failures = 0 /\ ~st'.probe.fresh
  <2>1. 0 # Unset /\ 0 # Sustained
    BY ConstantFacts
  <2>. QED  BY <1>4, <1>5, <2>1, EnsuredFacts
<1>7. /\ vm' = phase /\ past'.up = Least(lag) /\ past'.failures = 0
      /\ \/ past'.tried = past.tried /\ past'.tries = past.tries
         \/ past'.tried = lag /\ past'.tries = More(past.tries)
  BY <1>1, <1>2, Numbers, BootFacts
<1>8. vm' # "none" /\ 0 < Sustained /\ lag \in Nat /\ Unset = -1
  BY <1>7, Numbers, ConstantFacts DEF Booted
<1>9. ClocksMatch'
  BY <1>2, <1>6, <1>7, <1>8, ConstantFacts DEF ClocksMatch, Least
<1>10. HealthMatches' /\ HealthyIsTrue'
  BY <1>6, <1>7 DEF HealthMatches, HealthyIsTrue
<1>11. ASSUME ~Exposes  PROVE RestartsMatch'
  <2>1. RestartsMatch /\ st.wait = 0
    BY <1>2, <1>11 DEF Matches, RestartsMatch
  <2>4. past'.tries <= st'.count /\ past'.tried - lag' + st'.wait >= Wait(past'.tries)
    BY <1>2, <1>6, <1>7, <2>1, PenaltyCovers
  <2>6. CASE phase = "running"
    <3>1. ~(st'.since >= Sustained)
      BY <1>2, <1>6, <1>8, <2>6, ConstantFacts
    <3>. QED  BY <1>6, <1>7, <1>8, <2>4, <2>6, <3>1 DEF RestartsMatch
  <2>7. CASE phase # "running"
    BY <1>6, <1>7, <1>8, <2>4, <2>7 DEF RestartsMatch
  <2>. QED  BY <2>6, <2>7
<1>. QED  BY <1>9, <1>10, <1>11 DEF Matches

\* ensure_running failed: counted, and the clock is unset.
LEMMA EnsureFailsKeeps ==
    ASSUME TypeOK, TypeOK', Matches, EnsureFails
    PROVE  Matches'
<1>1. /\ pc = "ensure" /\ pc' = "done" /\ report' = "down" /\ UNCHANGED <<changed, lag>>
      /\ vm' \in {vm, "none"} /\ (vm' # vm => vm \in Down /\ ~never)
      /\ BootFails
      /\ st' = IF never THEN st ELSE [Penalize(st) EXCEPT !.since = Unset]
  BY DEF EnsureFails, Down
<1>2. /\ past'.up = past.up /\ past'.passed = past.passed
      /\ past'.failures = past.failures
      /\ vm \notin Down => past' = past
      /\ vm \in Down => past'.died = (vm' # "none")
      /\ vm \in Down /\ never => past'.tried = past.tried /\ past'.tries = past.tries
      /\ vm \in Down /\ ~never => past'.tried = lag /\ past'.tries = More(past.tries)
  BY <1>1, Numbers, BootFailsFacts
<1>3. CASE never
  <2>1. st' = st /\ vm' = vm
    BY <1>1, <1>3
  <2>2. ClocksMatch' /\ HealthMatches' /\ HealthyIsTrue'
    BY <1>1, <1>2, <2>1 DEF Matches, ClocksMatch, HealthMatches, HealthyIsTrue
  <2>3. /\ past'.tried = past.tried /\ past'.tries = past.tries
        /\ vm = "none" => ~past'.died
    BY <1>2, <1>3, <2>1 DEF Down
  <2>4. ~Exposes => RestartsMatch'
    BY <1>1, <2>1, <2>3 DEF Matches, RestartsMatch
  <2>. QED  BY <2>2, <2>4 DEF Matches
<1>4. CASE ~never
  <2>. DEFINE p == Penalize(st)
              s == [p EXCEPT !.since = Unset]
  <2>1. /\ p \in States /\ p.count = More(st.count) /\ p.wait = Wait(p.count)
        /\ p.probe = st.probe
    BY Numbers, PenalizeFacts
  <2>2. s.count = p.count /\ s.wait = p.wait /\ s.since = Unset /\ s.probe = p.probe
    BY <2>1 DEF States
  <2>3. st' = s
    BY <1>1, <1>4
  <2>. HIDE DEF p, s
  <2>4. /\ st'.count = More(st.count) /\ st'.wait = Wait(st'.count)
        /\ st'.since = Unset /\ st'.probe = st.probe
    BY <2>1, <2>2, <2>3
  <2>5. ClocksMatch' /\ HealthMatches' /\ HealthyIsTrue'
    BY <1>1, <1>2, <2>4 DEF Matches, ClocksMatch, HealthMatches, HealthyIsTrue
  <2>6. ASSUME ~Exposes  PROVE RestartsMatch'
    <3>1. RestartsMatch /\ st.wait = 0
      BY <1>1, <2>6 DEF Matches, RestartsMatch
    <3>2. /\ \/ past'.tried = past.tried /\ past'.tries = past.tries
             \/ past'.tried = lag /\ past'.tries = More(past.tries)
          /\ vm' = "none" => ~past'.died
      BY <1>1, <1>2, <1>4 DEF Down
    <3>3. past'.tries <= st'.count /\ past'.tried - lag + st'.wait >= Wait(past'.tries)
      BY <2>4, <3>1, <3>2, PenaltyCovers
    <3>. QED  BY <1>1, <2>4, <3>2, <3>3 DEF RestartsMatch
  <2>. QED  BY <2>5, <2>6 DEF Matches
<1>. QED  BY <1>3, <1>4

\* What Matches says of the probe the turn looks at.
LEMMA ProbeMatches ==
    ASSUME TypeOK, Matches, pc = "health"
    PROVE  /\ st.since # Unset
           /\ st.ok => past.passed
           /\ past.failures >= st.failures
           /\ Probe.result # "none" => Probe = st.probe /\ st.probe.fresh /\ st.probe.own
           /\ Probe.result = "pass" => past.passed
           /\ Probe.result \in {"fail", "died"} =>
                 past.failures = Retries \/ past.failures > st.failures
           /\ ~Exposes /\ Probe.result # "none" => st.wait = 0
<1>1. /\ st.since # Unset /\ (st.ok => past.passed) /\ past.failures >= st.failures
      /\ st.probe.fresh /\ st.probe.result # "none" => st.probe.own
      /\ st.probe.own /\ st.probe.result = "pass" => past.passed
      /\ st.probe.fresh /\ st.probe.result \in {"fail", "died"} =>
            past.failures = Retries \/ past.failures > st.failures
  BY DEF Matches, ClocksMatch, HealthMatches
<1>2. Probe.result # "none" => Probe = st.probe /\ st.probe.fresh
  BY ProbeConstants DEF Probe
<1>3. ~Exposes /\ st.probe.fresh => st.wait = 0
  BY Numbers, ConstantFacts DEF Matches, RestartsMatch
<1>. QED  BY <1>1, <1>2, <1>3

\* run_healthcheck on a VM that stays.
LEMMA HealthKeeps ==
    ASSUME TypeOK, TypeOK', Matches,
           SpawnProbe \/ AwaitProbe \/ ProbePassed \/ ProbeFailed \/ ReportUnhealthy
    PROVE  Matches'
<1>1. UNCHANGED <<vm, changed, lag, past>> /\ pc = "health" /\ pc' = "done"
  BY DEF SpawnProbe, AwaitProbe, ProbePassed, ProbeFailed, ReportUnhealthy
<1>2. \E p \in Probes, o \in BOOLEAN, n \in 0..Retries : WritesBack(p, o, n)
  <2>1. /\ st.ok \in BOOLEAN /\ st.failures \in 0..Retries
        /\ 0 \in 0..Retries /\ Retries \in 0..Retries
    BY Numbers, ConstantFacts
  <2>. QED  BY <2>1, HealthSteps, ProbeConstants
<1>3. st'.count = st.count /\ st'.wait = st.wait /\ st'.since = st.since
  BY <1>2, WriteBackStep
<1>4. ClocksMatch'
  BY <1>1, <1>3 DEF Matches, ClocksMatch
<1>5. ~Exposes => RestartsMatch'
  BY <1>1, <1>3 DEF Matches, RestartsMatch
<1>6. CASE SpawnProbe \/ AwaitProbe
  <2>1. /\ st'.ok = st.ok /\ st'.failures = st.failures
        /\ st'.probe \in {NewProbe, NoProbe, st.probe}
        /\ report' = Healthy(st.ok)
    <3>1. st.ok \in BOOLEAN /\ st.failures \in 0..Retries
      BY Numbers
    <3>2. CASE SpawnProbe
      BY <3>1, <3>2, HealthSteps, WriteBackStep, ProbeConstants DEF SpawnProbe
    <3>3. CASE AwaitProbe
      BY <3>1, <3>3, HealthSteps, WriteBackStep DEF AwaitProbe
    <3>. QED  BY <1>6, <3>2, <3>3
  <2>2. HealthMatches'
    <3>1. CASE st'.probe = st.probe
      BY <1>1, <1>3, <2>1, <3>1 DEF Matches, HealthMatches
    <3>2. CASE st'.probe \in {NewProbe, NoProbe}
      BY <1>1, <1>3, <2>1, <3>2, ProbeConstants DEF Matches, HealthMatches
    <3>. QED  BY <2>1, <3>1, <3>2
  <2>3. HealthyIsTrue'
    BY <1>1, <2>1, ProbeMatches DEF HealthyIsTrue, Healthy
  <2>. QED  BY <1>4, <1>5, <2>2, <2>3 DEF Matches
<1>7. CASE ProbePassed
  <2>0. 0 \in 0..Retries
    BY ConstantFacts
  <2>1. WritesBack(NoProbe, TRUE, 0) /\ NoProbe \in Probes
    BY <1>7, HealthSteps, ProbeConstants
  <2>2. st'.failures = 0 /\ st'.probe = NoProbe
    BY <2>0, <2>1, WriteBackStep
  <2>3. past.passed
    BY <1>1, <1>7, ProbeMatches DEF ProbePassed
  <2>4. past.failures >= 0
    BY Numbers, ConstantFacts
  <2>. QED  BY <1>1, <1>4, <1>5, <2>2, <2>3, <2>4, ProbeConstants
            DEF Matches, HealthMatches, HealthyIsTrue
<1>8. CASE ProbeFailed \/ ReportUnhealthy
  <2>1. Probe.result \in {"fail", "died"}
    <3>1. Probe \in Probes
      BY HealthSteps
    <3>. QED  BY <1>8, <3>1 DEF ProbeFailed, ReportUnhealthy, PastRetries, Completed, Probes
  <2>2. st'.ok = FALSE /\ st'.probe = NoProbe /\ report' \in {"up", "unhealthy"}
        /\ \/ ProbeFailed /\ st'.failures = Failures
           \/ ReportUnhealthy /\ st'.failures = Retries
    <3>1. Failures \in 0..Retries /\ Retries \in 0..Retries
      BY HealthSteps, ConstantFacts
    <3>2. CASE ProbeFailed
      BY <3>1, <3>2, HealthSteps, WriteBackStep, ProbeConstants DEF ProbeFailed
    <3>3. CASE ReportUnhealthy
      <4>1. WritesBack(NoProbe, FALSE, Retries) /\ NoProbe \in Probes
        BY <3>3, HealthSteps, ProbeConstants
      <4>2. Retries \in 0..Retries
        BY ConstantFacts
      <4>3. st'.ok = FALSE /\ st'.failures = Retries /\ st'.probe = NoProbe
        BY <4>1, <4>2, WriteBackStep
      <4>. QED  BY <3>3, <4>3 DEF ReportUnhealthy
    <3>. QED  BY <1>8, <3>2, <3>3
  <2>3. past.failures >= st'.failures
    <3>1. past.failures = Retries \/ past.failures > st.failures
      BY <1>1, <2>1, ProbeMatches
    <3>. QED  BY <1>8, <2>2, <3>1, Numbers, ConstantFacts
              DEF Failures, ReportUnhealthy, PastRetries
  <2>. QED  BY <1>1, <1>4, <1>5, <2>2, <2>3, ProbeConstants
            DEF Matches, HealthMatches, HealthyIsTrue
<1>. QED  BY <1>6, <1>7, <1>8

\* A removal for health is counted when it is made ...
LEMMA RemoveUnhealthyKeeps ==
    ASSUME TypeOK, TypeOK', Matches, RemoveUnhealthy
    PROVE  Matches'
<1>1. /\ pc = "health" /\ pc' = "revive" /\ PastRetries /\ UNCHANGED <<changed, lag>>
      /\ \/ vm' = "none" /\ past' = [past EXCEPT !.died = TRUE]
         \/ UNCHANGED <<vm, past>>
      /\ st' = [Penalize(ResetHealth([st EXCEPT !.probe = NoProbe])) EXCEPT !.since = Unset]
  BY DEF RemoveUnhealthy
<1>2. /\ st'.count = More(st.count) /\ st'.wait = Wait(st'.count)
      /\ st'.since = Unset /\ st'.probe = NoProbe
  BY <1>1, Numbers, UnhealthyFacts
<1>3. /\ past'.up = past.up /\ past'.tried = past.tried /\ past'.tries = past.tries
      /\ past'.passed = past.passed /\ past'.failures = past.failures
  BY <1>1, Numbers DEF Pasts
<1>4. ClocksMatch' /\ HealthMatches' /\ HealthyIsTrue'
  BY <1>1, <1>2, <1>3, ProbeConstants
     DEF Matches, ClocksMatch, HealthMatches, HealthyIsTrue
<1>5. ASSUME ~Exposes  PROVE RestartsMatch'
  <2>1. RestartsMatch /\ st.wait = 0
    <3>1. Probe.result # "none"
      BY <1>1 DEF PastRetries, Completed
    <3>. QED  BY <1>1, <1>5, <3>1, ProbeMatches DEF Matches
  <2>2. past'.tries <= st'.count /\ past'.tried - lag + st'.wait >= Wait(past'.tries)
    BY <1>2, <1>3, <2>1, PenaltyCovers
  <2>3. past.tried - lag >= Wait(past.tries)
    <3>1. Wait(past.tries) \in Nat
      BY Numbers, WaitFacts, ConstantFacts
    <3>. QED  BY <2>1, <3>1, Numbers, ConstantFacts DEF RestartsMatch
  <2>4. More(past.tries) <= More(st.count)
    <3>1. past.tries \in 0..st.count
      BY <2>1, Numbers, ConstantFacts DEF RestartsMatch
    <3>. QED  BY <3>1, Numbers, WaitFacts
  <2>. QED  BY <1>1, <1>2, <1>3, <2>2, <2>3, <2>4 DEF RestartsMatch
<1>. QED  BY <1>4, <1>5 DEF Matches

\* ... and the boot after it is the try that was counted.
LEMMA ReviveKeeps ==
    ASSUME TypeOK, TypeOK', Matches, Revive
    PROVE  Matches'
<1>1. /\ pc = "revive" /\ pc' = "done" /\ UNCHANGED <<changed, lag, st>>
      /\ st.since = Unset /\ st.probe = NoProbe
  BY DEF Revive, Matches, ClocksMatch, HealthMatches
<1>2. report' \in {"up", "down"}
  BY DEF Revive
<1>3. /\ past'.up >= Least(lag)
      /\ \/ past'.tried = past.tried /\ past'.tries = past.tries
         \/ past'.tried = lag /\ past'.tries = More(past.tries)
      /\ vm' = "none" => ~past'.died
  <2>0. past.up >= Least(lag)
    BY DEF Matches, ClocksMatch
  <2>1. CASE vm \in {"creating", "running"} /\ UNCHANGED <<vm, past>>
    BY <2>0, <2>1
  <2>2. CASE \E phase \in Booted : Boot(phase)
    <3>1. PICK phase \in Booted : Boot(phase)
      BY <2>2
    <3>2. /\ vm' = phase /\ past'.up = Least(lag)
          /\ \/ past'.tried = past.tried /\ past'.tries = past.tries
             \/ past'.tried = lag /\ past'.tries = More(past.tries)
      BY <3>1, Numbers, BootFacts
    <3>. QED  BY <3>2, Numbers, ConstantFacts DEF Booted, Least
  <2>3. CASE BootFails /\ vm' \in {vm} \cup (IF vm \in {"stopped", "failed"}
                                            THEN {"none"} ELSE {})
    <3>1. /\ past'.up = past.up
          /\ vm \notin Down => past' = past
          /\ vm \in Down => past'.died = (vm' # "none")
          /\ vm \in Down /\ never => past'.tried = past.tried /\ past'.tries = past.tries
          /\ vm \in Down /\ ~never => past'.tried = lag /\ past'.tries = More(past.tries)
      BY <2>3, Numbers, BootFailsFacts
    <3>2. vm' = "none" => vm \in Down
      BY <2>3 DEF Down
    <3>. QED  BY <2>0, <3>1, <3>2
  <2>. QED  BY <2>1, <2>2, <2>3 DEF Revive
<1>4. ClocksMatch' /\ HealthMatches' /\ HealthyIsTrue'
  BY <1>1, <1>2, <1>3, ProbeConstants DEF ClocksMatch, HealthMatches, HealthyIsTrue
<1>5. ASSUME ~Exposes  PROVE RestartsMatch'
  <2>1. /\ RestartsMatch /\ More(past.tries) <= st.count /\ st.wait = Wait(st.count)
        /\ past.tried - lag >= Wait(past.tries)
    BY <1>1, <1>5 DEF Matches, RestartsMatch
  <2>2. /\ st.count \in 0..MaxCount /\ Wait(st.count) \in Nat
        /\ \A k \in 0..st.count : Wait(k) <= Wait(st.count)
    BY Numbers, WaitFacts, ConstantFacts
  <2>3. More(past.tries) \in 0..st.count
    BY <2>1, Numbers, WaitFacts, ConstantFacts
  <2>4. past'.tries <= st'.count /\ past'.tried - lag' + st'.wait >= Wait(past'.tries)
    <3>1. CASE past'.tried = past.tried /\ past'.tries = past.tries
      BY <1>1, <2>1, <3>1 DEF RestartsMatch
    <3>2. CASE past'.tried = lag /\ past'.tries = More(past.tries)
      <4>1. Wait(past'.tries) <= Wait(st.count)
        BY <2>2, <2>3, <3>2
      <4>. QED  BY <1>1, <2>1, <2>2, <2>3, <3>2, <4>1, Numbers, ConstantFacts
    <3>. QED  BY <1>3, <3>1, <3>2
  <2>. QED  BY <1>1, <1>3, <2>4 DEF RestartsMatch
<1>. QED  BY <1>4, <1>5 DEF Matches

\* LInv is inductive.
LEMMA LInvStep ==
    ASSUME LInv, [Next]_vars
    PROVE  LInv'
<1>1. TypeOK /\ TypeOK' /\ Matches
  BY TypeStep DEF LInv, Matches
<1>. SUFFICES Matches'
  BY <1>1 DEF LInv, Matches
<1>2. CASE UNCHANGED vars
  <2>1. ClocksMatch' /\ HealthMatches' /\ HealthyIsTrue'
    BY <1>1, <1>2 DEF vars, Matches, ClocksMatch, HealthMatches, HealthyIsTrue
  <2>2. ~Exposes => RestartsMatch'
    BY <1>1, <1>2 DEF vars, Matches, RestartsMatch
  <2>. QED  BY <2>1, <2>2 DEF Matches
<1>3. CASE Turn
  BY <1>1, <1>3, QuietKeeps, RemoveKeeps, EnsureLeavesKeeps, EnsureCreatesKeeps,
     EnsureRestartsKeeps, EnsureFailsKeeps, HealthKeeps, RemoveUnhealthyKeeps,
     ReviveKeeps DEF Turn
<1>4. CASE StartPass \/ EndPass
  BY <1>1, <1>4, StartPassKeeps, EndPassKeeps
<1>5. CASE World
  BY <1>1, <1>5, QuietKeeps, TickKeeps, VMExitsKeeps, ProbeEndsKeeps, CrashKeeps DEF World
<1>. QED  BY <1>2, <1>3, <1>4, <1>5 DEF Next, PassStep

\* LInv holds of every reachable state: what the process remembers of an instance is
\* about the VM that runs (state.rs:22-57).
THEOREM StateMatchesVM == Spec => []LInv
<1>1. Init => LInv
  BY InitFacts
<1>2. LInv /\ [Next]_vars => LInv'
  BY LInvStep
<1>. QED  BY <1>1, <1>2, PTL DEF Spec

\* The runtime state, the pass's clock and the history keep their types
\* (state.rs:10-57).
THEOREM TypeCorrect == Spec => []TypeOK
<1>1. LInv => TypeOK
  BY DEF LInv
<1>. QED  BY <1>1, StateMatchesVM, PTL

\* An instance is reported healthy only when the VM that runs passed a probe: a probe
\* of the VM before it is never taken for one of this VM (state.rs:46-57,
\* health.rs:60-93).
THEOREM HealthyIsTruthful == Spec => []HealthyIsTrue
<1>1. LInv => HealthyIsTrue
  BY DEF LInv
<1>. QED  BY <1>1, StateMatchesVM, PTL

\* A VM is removed, or reported unhealthy, for its health only after it failed
\* `retries` probes itself, past its start period (health.rs:185-224).
THEOREM OnlyUnhealthyAreReplaced == Spec => OnlyUnhealthyReplaced
<1>. DEFINE Fails == pc = "health" /\ (pc' = "revive" \/ (pc' = "done" /\ report' = "unhealthy"))
            Really == past.failures >= Retries /\ past.up >= StartPeriod
<1>1. ASSUME LInv, Next, Fails  PROVE Really
  <2>1. PastRetries
    <3>1. CASE Turn
      <4>1. CASE SpawnProbe \/ AwaitProbe \/ ProbePassed \/ ProbeFailed
        BY <1>1, <4>1 DEF SpawnProbe, AwaitProbe, ProbePassed, ProbeFailed, Healthy
      <4>2. CASE ReportUnhealthy \/ RemoveUnhealthy
        BY <4>2 DEF ReportUnhealthy, RemoveUnhealthy
      <4>3. CASE Backoff \/ BeginTurn \/ RemoveForRecreate \/ Revive
        BY <1>1, <4>3 DEF Backoff, BeginTurn, RemoveForRecreate, Revive
      <4>4. CASE EnsureLeaves \/ EnsureCreates \/ EnsureRestarts \/ EnsureFails
        BY <1>1, <4>4 DEF EnsureLeaves, EnsureCreates, EnsureRestarts, EnsureFails
      <4>. QED  BY <3>1, <4>1, <4>2, <4>3, <4>4 DEF Turn
    <3>2. CASE StartPass \/ EndPass
      BY <1>1, <3>2 DEF StartPass, EndPass
    <3>3. CASE World
      BY <1>1, <3>3
         DEF World, Tick, VMComesUp, VMExits, ProbeEnds, ConfigChanges, CrashRestart
    <3>. QED  BY <1>1, <3>1, <3>2, <3>3 DEF Next, PassStep
  <2>2. TypeOK /\ Matches
    BY <1>1 DEF LInv, Matches
  <2>3. past.failures >= Retries
    <3>1. Probe.result \in {"fail", "died"} /\ Failures >= Retries /\ ~InStartPeriod
      <4>1. Probe \in Probes
        BY <2>2, HealthSteps
      <4>. QED  BY <2>1, <4>1 DEF PastRetries, Completed, Probes
    <3>2. past.failures = Retries \/ past.failures > st.failures
      BY <1>1, <2>2, <3>1, ProbeMatches
    <3>. QED  BY <2>2, <3>1, <3>2, Numbers, ConstantFacts DEF Failures
  <2>4. past.up >= StartPeriod
    <3>1. st.since # Unset /\ past.up >= Least(st.since + lag)
      BY <1>1, <2>2, ProbeMatches DEF Matches, ClocksMatch
    <3>2. st.since >= StartPeriod
      BY <2>1, <2>2, <3>1, Numbers, ConstantFacts DEF PastRetries, InStartPeriod
    <3>. QED  BY <2>2, <3>1, <3>2, Numbers, ConstantFacts DEF Least
  <2>. QED  BY <2>3, <2>4
<1>2. ASSUME LInv, [Next]_vars  PROVE [Fails => Really]_vars
  BY <1>1, <1>2
<1>3. LInv /\ [Next]_vars => [Fails => Really]_vars
  BY <1>2
<1>. QED  BY <1>3, StateMatchesVM, PTL DEF Spec, OnlyUnhealthyReplaced

\* An instance without exposed ports is brought up again no sooner than its backoff
\* allows, whatever fails in between and however long a pass takes, until a pass
\* begins with it running and 60 s after the pass that booted it began
\* (lifecycle.rs:180-308, 364-378, restart.rs:58-67).
THEOREM RestartsAreSpaced ==
    ASSUME ~Exposes
    PROVE  Spec => RestartsSpaced
<1>. DEFINE Spaced == Attempts => past.tried - lag >= Wait(past.tries)
<1>1. ASSUME LInv  PROVE Spaced
  <2>. SUFFICES ASSUME Attempts  PROVE past.tried - lag >= Wait(past.tries)
    OBVIOUS
  <2>1. RestartsMatch /\ TypeOK
    BY <1>1 DEF LInv
  <2>2. CASE pc = "ensure"
    <3>1. Wait(past.tries) \in Nat
      BY <2>1, Numbers, WaitFacts, ConstantFacts
    <3>. QED  BY <2>1, <2>2, <3>1, Numbers, ConstantFacts DEF RestartsMatch
  <2>3. CASE pc = "revive"
    BY <2>1, <2>3 DEF RestartsMatch
  <2>. QED  BY <2>2, <2>3 DEF Attempts
<1>2. LInv /\ [Next]_vars => [Spaced]_vars
  BY <1>1
<1>. QED  BY <1>2, StateMatchesVM, PTL DEF Spec, RestartsSpaced
=============================================================================
