---------------------- MODULE ConnectionService_proofs ----------------------
(***************************************************************************)
(* Proofs about ConnectionService, for any banks, delays, validities and   *)
(* windows.  Every handler is a function of one connection record, so the  *)
(* inductive invariant is a predicate of one record, the lemmas say what   *)
(* each handler makes of a record, and a step of the system applies them   *)
(* bank by bank.                                                           *)
(***************************************************************************)
EXTENDS ConnectionService, TLAPS

\* A record between handlers.
Sound(b, c) ==
  /\ c \in Connection(b)
  /\ c.state # "Authenticating"
  /\ c.timers = (IF c.syncing THEN 1 ELSE 0)
  /\ HasSession(c) <=> IsLive(c)
  /\ c.state = "NeedsReauth" => ~c.syncing
  /\ (c.state = "Connected" /\ ~c.syncing) => c.last_error # "unavailable"
  /\ c.last_sync # None => c.known /\ c.history = AccountCount[b]

LinkInv == DOMAIN link = Bank /\ \A b \in Bank : Sound(b, link[b])

\* The same, inside a handler: the timer is accounted for by the caller, and the
\* hint has not been brought up to date yet.
Halfway(b, c) ==
  /\ c \in Connection(b)
  /\ c.state # "Authenticating"
  /\ HasSession(c) <=> IsLive(c)
  /\ c.state = "NeedsReauth" => ~c.syncing
  /\ c.last_sync # None => c.known /\ c.history = AccountCount[b]

\* What a timer, the scheduler or the clock may make of a record c: a sound d,
\* with no session c did not have, one notice exactly when c was live and d is
\* parked, and more data only under a session that still stands.
Drift(b, c, d) ==
  /\ Sound(b, d)
  /\ HasSession(d) => HasSession(c) /\ d.session >= c.session
  /\ d.notices = c.notices + (IF IsLive(c) /\ d.state = "NeedsReauth" THEN 1 ELSE 0)
  /\ Received(d) # Received(c) => HasSession(d) /\ Received(d) > Received(c)

-----------------------------------------------------------------------------

LEMMA FetchedRange ==
  ASSUME NEW b \in Bank, NEW c \in Connection(b)
  PROVE  Fetched(b, c) \in 0..AccountCount[b]
  BY LinkAssumption DEF Fetched, Limited, CoolingDown, Connection

\* A pull touches only what has been received and the connector's window.
LEMMA PulledKeeps ==
  ASSUME NEW b \in Bank, NEW c, Halfway(b, c), NEW up \in BOOLEAN
  PROVE  LET d == Pulled(b, c, up) IN
         /\ Halfway(b, d)
         /\ d.state = c.state /\ d.session = c.session /\ d.timers = c.timers
         /\ d.syncing = c.syncing /\ d.last_error = c.last_error /\ d.notices = c.notices
  <1> DEFINE got == Fetched(b, c)
  <1> HIDE DEF got
  <1>1. got \in 0..AccountCount[b] /\ AccountCount[b] \in Nat /\ Cooldown[b] \in Nat
    BY FetchedRange, LinkAssumption DEF Halfway, got
  <1>2. CASE c.revoked \/ ~up
    BY <1>2 DEF Pulled
  <1>3. CASE ~(c.revoked \/ ~up)
    <2> DEFINE hist == IF got > c.history THEN got ELSE c.history
               last == IF Limited(b) /\ ~CoolingDown(b, c) THEN 0 ELSE c.last_attempt
               sync == IF got = AccountCount[b] THEN 0 ELSE c.last_sync
    <2>1. /\ hist \in 0..AccountCount[b] /\ hist >= c.history /\ hist >= got
          /\ last \in 0..Cooldown[b]
          /\ sync \in {None} \cup 0..Interval[b]
      BY <1>1, LinkAssumption DEF Halfway, Connection
    <2>2. sync # None => hist = AccountCount[b]
      BY <1>1 DEF Halfway, Connection
    <2>3. Pulled(b, c, up) =
            [c EXCEPT !.known = TRUE, !.history = hist, !.last_attempt = last, !.last_sync = sync]
      BY <1>3 DEF Pulled, got
    <2> HIDE DEF hist, last, sync
    <2>4. c \in Connection(b)
      BY DEF Halfway
    <2>5. Pulled(b, c, up) \in Connection(b)
      BY <2>1, <2>3, <2>4 DEF Connection
    <2> QED
      BY <2>2, <2>3, <2>4, <2>5 DEF Halfway, Connection, HasSession, IsLive
  <1> QED
    BY <1>2, <1>3

\* Park drops the session and tells the user, and keeps what has been received.
LEMMA ParkKeeps ==
  ASSUME NEW b \in Bank, NEW c, Halfway(b, c), ~c.syncing
  PROVE  LET d == Park(c) IN
         /\ Halfway(b, d)
         /\ d.state = "NeedsReauth" /\ ~HasSession(d) /\ d.notices = c.notices + 1
         /\ d.timers = c.timers /\ ~d.syncing /\ Received(d) = Received(c)
  <1>1. c \in Connection(b) /\ c.notices + 1 \in Nat
    BY DEF Halfway, Connection
  <1>2. Park(c) \in Connection(b)
    BY <1>1 DEF Park, Connection, LinkState
  <1> QED
    BY <1>1, <1>2 DEF Park, Halfway, Connection, HasSession, IsLive, Received

\* run_sync, from the record its timer (or refresh, when inline) hands it.
LEMMA RunSyncSound ==
  ASSUME NEW b \in Bank, NEW c, Halfway(b, c), c.syncing, c.timers = 0, NEW up \in BOOLEAN
  PROVE  Drift(b, c, RunSync(b, c, up))
  <1> DEFINE idle == [c EXCEPT !.syncing = FALSE]
             got  == Pulled(b, idle, up)
  <1>1. /\ Halfway(b, idle)
        /\ idle.session = c.session /\ idle.state = c.state /\ idle.timers = 0
        /\ ~idle.syncing /\ idle.notices = c.notices /\ Received(idle) = Received(c)
    BY DEF Halfway, Connection, HasSession, IsLive, Received
  <1> HIDE DEF idle
  <1>2. /\ Halfway(b, got)
        /\ got.state = c.state /\ got.session = c.session /\ got.timers = 0
        /\ ~got.syncing /\ got.notices = c.notices
    BY <1>1, PulledKeeps
  <1>3. Received(got) # Received(c) => ~idle.revoked /\ Received(got) > Received(c)
    <2>1. CASE idle.revoked \/ ~up
      BY <1>1, <2>1 DEF Pulled
    <2>2. CASE ~(idle.revoked \/ ~up)
      <3>1. got.known /\ got.history \in Nat /\ got.history >= idle.history
        BY <1>1, <2>2, FetchedRange, LinkAssumption DEF Pulled, Halfway, Connection
      <3> QED
        BY <1>1, <2>2, <3>1 DEF Received, Halfway, Connection
    <2> QED
      BY <2>1, <2>2
  <1> HIDE DEF got
  <1>4. CASE ~HasSession(c)
    <2>1. RunSync(b, c, up) = [idle EXCEPT !.state = "NeedsReauth"]
      BY <1>4 DEF RunSync, idle
    <2>2. RunSync(b, c, up) \in Connection(b)
      BY <1>1, <2>1 DEF Halfway, Connection, LinkState
    <2> QED
      BY <1>1, <1>4, <2>1, <2>2 DEF Drift, Sound, Halfway, Connection, HasSession, IsLive, Received
  <1>5. CASE HasSession(c)
    <2> DEFINE out == SyncOutcome(b, idle, up)
    <2>1. RunSync(b, c, up) = Settle(got, out)
      BY <1>5 DEF RunSync, idle, got
    <2>2. out \in {"ok", "session_expired", "rate_limited", "unavailable"}
      <3>1. Fetched(b, idle) \in 0..AccountCount[b] /\ AccountCount[b] \in Nat
        BY <1>1, FetchedRange, LinkAssumption DEF Halfway
      <3> QED
        BY <1>1, <3>1 DEF SyncOutcome, Halfway, Connection
    <2>3. out = "session_expired" => idle.revoked
      BY <1>1, FetchedRange, LinkAssumption DEF SyncOutcome, Halfway, Connection
    <2> HIDE DEF out
    <2>4. CASE out = "ok"
      <3>1. RunSync(b, c, up) = [got EXCEPT !.state = "Connected", !.last_error = "none"]
        BY <2>1, <2>4 DEF Settle
      <3>2. RunSync(b, c, up) \in Connection(b)
        BY <1>2, <3>1 DEF Halfway, Connection, LinkState
      <3> QED
        BY <1>2, <1>3, <1>5, <3>1, <3>2 DEF Drift, Sound, Halfway, Connection, HasSession, IsLive, Received
    <2>5. CASE out = "session_expired"
      <3>1. RunSync(b, c, up) = Park(got)
        BY <2>1, <2>5 DEF Settle
      <3> QED
        BY <1>2, <1>3, <1>5, <2>3, <2>5, <3>1, ParkKeeps DEF Drift, Sound, Halfway, HasSession, IsLive
    <2>6. CASE out = "rate_limited"
      <3>1. RunSync(b, c, up) = [got EXCEPT !.last_error = "rate_limited"]
        BY <2>1, <2>6 DEF Settle
      <3>2. RunSync(b, c, up) \in Connection(b)
        BY <1>2, <3>1 DEF Halfway, Connection
      <3> QED
        BY <1>2, <1>3, <1>5, <3>1, <3>2 DEF Drift, Sound, Halfway, Connection, HasSession, IsLive, Received
    <2>7. CASE out = "unavailable"
      <3>1. RunSync(b, c, up) = [got EXCEPT !.state = "SyncFailed", !.last_error = "unavailable"]
        BY <2>1, <2>7 DEF Settle
      <3>2. RunSync(b, c, up) \in Connection(b)
        BY <1>2, <3>1 DEF Halfway, Connection, LinkState
      <3> QED
        BY <1>2, <1>3, <1>5, <3>1, <3>2 DEF Drift, Sound, Halfway, Connection, HasSession, IsLive, Received
    <2> QED
      BY <2>2, <2>4, <2>5, <2>6, <2>7
  <1> QED
    BY <1>4, <1>5

\* refresh, whatever the hint says: it returns early, parks the link, leaves it
\* with one timer outstanding, or has run the sync to its end.
LEMMA RefreshSound ==
  ASSUME NEW b \in Bank, NEW c, Halfway(b, c), NEW up \in BOOLEAN,
         c.timers = (IF c.syncing THEN 1 ELSE 0),
         ~c.syncing /\ ~IsLive(c) => Sound(b, c)
  PROVE  Drift(b, c, Refresh(b, c, up))
  <1>0. c.session \in Int /\ c.notices \in Nat
    BY LinkAssumption DEF Halfway, Connection, None
  <1>1. CASE c.syncing
    <2>1. Refresh(b, c, up) = c
      BY <1>1 DEF Refresh
    <2>2. Sound(b, c)
      BY <1>1 DEF Sound, Halfway, Connection
    <2> QED
      BY <1>0, <2>1, <2>2 DEF Drift, IsLive
  <1>2. CASE ~c.syncing /\ ~IsLive(c)
    <2>1. Refresh(b, c, up) = c
      BY <1>2 DEF Refresh
    <2> QED
      BY <1>0, <1>2, <2>1 DEF Drift, IsLive
  <1>3. CASE ~c.syncing /\ IsLive(c) /\ (~HasSession(c) \/ IsExpired(b, c))
    <2>1. Refresh(b, c, up) = Park(c)
      BY <1>3 DEF Refresh
    <2> QED
      BY <1>3, <2>1, ParkKeeps DEF Drift, Sound, Halfway, HasSession, IsLive
  <1>4. CASE ~c.syncing /\ IsLive(c) /\ HasSession(c) /\ ~IsExpired(b, c)
    <2> DEFINE started == [c EXCEPT !.syncing = TRUE]
    <2>1. /\ Halfway(b, started) /\ started.syncing /\ started.timers = 0
          /\ started.session = c.session /\ started.state = c.state
          /\ started.notices = c.notices /\ Received(started) = Received(c)
      BY <1>4 DEF Halfway, Connection, HasSession, IsLive, Received
    <2> HIDE DEF started
    <2>2. CASE b \in Instant
      <3>1. Refresh(b, c, up) = RunSync(b, started, up)
        BY <1>4, <2>2 DEF Refresh, started
      <3> QED
        BY <1>4, <2>1, <3>1, RunSyncSound DEF Drift, HasSession, IsLive
    <2>3. CASE b \notin Instant
      <3>1. Refresh(b, c, up) = [started EXCEPT !.timers = @ + 1]
        BY <1>4, <2>3 DEF Refresh, started
      <3>2. Refresh(b, c, up) \in Connection(b)
        BY <2>1, <3>1 DEF Halfway, Connection
      <3> QED
        BY <2>1, <3>1, <3>2 DEF Drift, Sound, Halfway, Connection, HasSession, IsLive, Received
    <2> QED
      BY <2>2, <2>3
  <1> QED
    BY <1>1, <1>2, <1>3, <1>4

\* A sound record is fit for every handler.
LEMMA SoundIsHalfway ==
  ASSUME NEW b, NEW c, Sound(b, c)
  PROVE  Halfway(b, c) /\ c.timers = (IF c.syncing THEN 1 ELSE 0)
  BY DEF Sound, Halfway

\* connect_bank: what it pulls, it pulls under the session it leaves behind.
LEMMA ConnectSound ==
  ASSUME NEW b \in Bank, NEW c, Sound(b, c), NEW accepted \in BOOLEAN, NEW up \in BOOLEAN
  PROVE  LET d == ConnectBank(b, c, accepted, up) IN
         /\ Sound(b, d)
         /\ d.notices = c.notices /\ d.state # "NeedsReauth"
         /\ ~accepted => ~HasSession(d)
         /\ Received(d) # Received(c) => HasSession(d) /\ Received(d) > Received(c)
  <1>1. CASE accepted
    <2> DEFINE in == [c EXCEPT !.session = 0, !.revoked = FALSE, !.state = "Connected"]
    <2>0. c \in Connection(b) /\ 0 \in 0..(Validity[b] + 1)
      BY LinkAssumption DEF Sound
    <2>1. in \in Connection(b)
      BY <2>0 DEF Connection, LinkState
    <2>2. /\ Halfway(b, in) /\ in.timers = (IF in.syncing THEN 1 ELSE 0)
          /\ IsLive(in) /\ HasSession(in) /\ ~IsExpired(b, in) /\ ~in.revoked
          /\ in.notices = c.notices /\ Received(in) = Received(c)
      BY <2>1, LinkAssumption
         DEF Sound, Halfway, Connection, HasSession, IsLive, IsExpired, Received, None
    <2>3. ConnectBank(b, c, accepted, up) = Refresh(b, in, up)
      BY <1>1 DEF ConnectBank
    <2> HIDE DEF in
    <2>4. Refresh(b, in, up).notices = in.notices /\ Refresh(b, in, up).state # "NeedsReauth"
      <3>1. CASE in.syncing
        BY <2>2, <3>1 DEF Refresh, IsLive
      <3>2. CASE ~in.syncing /\ b \in Instant
        <4> DEFINE started == [in EXCEPT !.syncing = TRUE]
                   idle == [started EXCEPT !.syncing = FALSE]
        <4>1. Refresh(b, in, up) = RunSync(b, started, up)
          BY <2>2, <3>2 DEF Refresh
        <4>2. /\ started.syncing /\ HasSession(started) /\ Halfway(b, idle) /\ ~idle.revoked
              /\ idle.notices = in.notices /\ idle.state = in.state
          BY <2>2, <3>2 DEF Halfway, Connection, HasSession, IsLive
        <4>3. RunSync(b, started, up) = Settle(Pulled(b, idle, up), SyncOutcome(b, idle, up))
          BY <4>2 DEF RunSync
        <4> HIDE DEF started, idle
        <4>4. SyncOutcome(b, idle, up) \in {"ok", "rate_limited", "unavailable"}
          <5>1. Fetched(b, idle) \in 0..AccountCount[b] /\ AccountCount[b] \in Nat
            BY <4>2, FetchedRange, LinkAssumption DEF Halfway
          <5> QED
            BY <4>2, <5>1 DEF SyncOutcome, Halfway, Connection
        <4>5. /\ Pulled(b, idle, up) \in Connection(b)
              /\ Pulled(b, idle, up).notices = in.notices /\ Pulled(b, idle, up).state = in.state
          BY <4>2, PulledKeeps DEF Halfway
        <4> QED
          BY <2>2, <4>1, <4>3, <4>4, <4>5 DEF Settle, Connection, IsLive
      <3>3. CASE ~in.syncing /\ b \notin Instant
        BY <2>2, <3>3 DEF Refresh, Halfway, Connection, IsLive
      <3> QED
        BY <3>1, <3>2, <3>3
    <2> DEFINE d == Refresh(b, in, up)
    <2>5. /\ Sound(b, d)
          /\ Received(d) # Received(in) => HasSession(d) /\ Received(d) > Received(in)
      BY <2>2, RefreshSound DEF Drift
    <2> QED
      BY <1>1, <2>2, <2>3, <2>4, <2>5
  <1>2. CASE ~accepted
    <2>1. ConnectBank(b, c, accepted, up) = [c EXCEPT !.session = None, !.state = "Disconnected"]
      BY <1>2 DEF ConnectBank
    <2>2. ConnectBank(b, c, accepted, up) \in Connection(b)
      BY <2>1 DEF Sound, Connection, LinkState
    <2> QED
      BY <2>1, <2>2 DEF Sound, Connection, HasSession, IsLive, Received
  <1> QED
    BY <1>1, <1>2

-----------------------------------------------------------------------------
(* Steps.                                                                  *)

LEMMA AgedSound ==
  ASSUME NEW b \in Bank, NEW c, Sound(b, c)
  PROVE  Drift(b, c, Aged(b, c))
  <1> DEFINE s == Older(c.session, Validity[b] + 1)
             y == Older(c.last_sync, Interval[b])
             a == Older(c.last_attempt, Cooldown[b])
  <1>1. /\ c \in Connection(b)
        /\ Validity[b] \in Nat /\ Interval[b] \in Nat /\ Cooldown[b] \in Nat
    BY LinkAssumption DEF Sound
  <1>2. /\ s \in {None} \cup 0..(Validity[b] + 1) /\ s >= c.session
        /\ s = None <=> c.session = None
    BY <1>1 DEF Connection, Older, None
  <1>3. y \in {None} \cup 0..Interval[b] /\ (y = None <=> c.last_sync = None)
    BY <1>1 DEF Connection, Older, None
  <1>4. a \in 0..Cooldown[b]
    BY <1>1 DEF Connection, Older, None
  <1>5. Aged(b, c) = [c EXCEPT !.session = s, !.last_sync = y, !.last_attempt = a]
    BY DEF Aged
  <1> HIDE DEF s, y, a
  <1>6. Aged(b, c) \in Connection(b)
    BY <1>1, <1>2, <1>3, <1>4, <1>5 DEF Connection
  <1> QED
    BY <1>1, <1>2, <1>3, <1>5, <1>6 DEF Drift, Sound, Connection, HasSession, IsLive, Received

\* Every link drifts under a step of the system.
LEMMA SystemStepDrift ==
  ASSUME LinkInv, SystemStep
  PROVE  DOMAIN link' = Bank /\ \A b \in Bank : Drift(b, link[b], link'[b])
  <1>1. DOMAIN link = Bank /\ \A b \in Bank : Sound(b, link[b])
    BY DEF LinkInv
  <1>2. ASSUME NEW b \in Bank PROVE Drift(b, link[b], link[b])
    BY <1>1, LinkAssumption DEF Drift, Sound, Connection, IsLive, None
  <1>3. ASSUME NEW x \in Bank, SyncTimer(x)
        PROVE  DOMAIN link' = Bank /\ \A b \in Bank : Drift(b, link[b], link'[b])
    <2> DEFINE c == link[x]
               rung == [c EXCEPT !.timers = @ - 1]
    <2>1. PICK up \in Answers(x) : link' = [link EXCEPT ![x] = RunSync(x, rung, up)]
      BY <1>3 DEF SyncTimer, rung
    <2>2. up \in BOOLEAN /\ c.timers > 0 /\ Sound(x, c)
      BY <1>1, <1>3, <2>1 DEF Answers, SyncTimer
    <2>3. c.syncing /\ c.timers = 1
      BY <2>2 DEF Sound
    <2>4. /\ Halfway(x, rung) /\ rung.syncing /\ rung.timers = 0
          /\ rung.session = c.session /\ rung.state = c.state
          /\ rung.notices = c.notices /\ Received(rung) = Received(c)
      BY <2>2, <2>3 DEF Sound, Halfway, Connection, HasSession, IsLive, Received
    <2> HIDE DEF rung
    <2>5. Drift(x, rung, RunSync(x, rung, up))
      BY <2>2, <2>4, RunSyncSound
    <2>6. Drift(x, c, RunSync(x, rung, up))
      BY <2>4, <2>5 DEF Drift, HasSession, IsLive
    <2> QED
      BY <1>1, <1>2, <2>1, <2>6
  <1>4. ASSUME SchedulerTick
        PROVE  DOMAIN link' = Bank /\ \A b \in Bank : Drift(b, link[b], link'[b])
    <2>1. PICK up \in [Bank -> BOOLEAN] :
            link' = [b \in Bank |-> IF Due(b, link[b]) THEN Refresh(b, link[b], up[b]) ELSE link[b]]
      BY <1>4 DEF SchedulerTick
    <2>2. ASSUME NEW b \in Bank PROVE Drift(b, link[b], Refresh(b, link[b], up[b]))
      BY <1>1, SoundIsHalfway, RefreshSound
    <2> QED
      BY <1>2, <2>1, <2>2
  <1>5. ASSUME ClockTick
        PROVE  DOMAIN link' = Bank /\ \A b \in Bank : Drift(b, link[b], link'[b])
    BY <1>1, <1>5, AgedSound DEF ClockTick
  <1> QED
    BY <1>3, <1>4, <1>5 DEF SystemStep

\* A record the user's or the bank's step may make of c.
Turn(b, c, d) ==
  /\ Sound(b, d)
  /\ d.notices = c.notices + (IF IsLive(c) /\ d.state = "NeedsReauth" THEN 1 ELSE 0)
  /\ Received(d) # Received(c) => HasSession(d) /\ Received(d) > Received(c)

\* Such a step turns one link and leaves the others alone.
LEMMA OtherStepTurn ==
  ASSUME LinkInv, UserStep \/ BankStep
  PROVE  \E x \in Bank : \E d : link' = [link EXCEPT ![x] = d] /\ Turn(x, link[x], d)
  <1>1. DOMAIN link = Bank /\ \A b \in Bank : Sound(b, link[b])
    BY DEF LinkInv
  <1>2. ASSUME NEW x \in Bank, Connect(x)
        PROVE  \E d : link' = [link EXCEPT ![x] = d] /\ Turn(x, link[x], d)
    <2>1. PICK accepted \in BOOLEAN, up \in Answers(x) :
            link' = [link EXCEPT ![x] = ConnectBank(x, link[x], accepted, up)]
      BY <1>2 DEF Connect
    <2>2. up \in BOOLEAN
      BY <2>1 DEF Answers
    <2>3. Turn(x, link[x], ConnectBank(x, link[x], accepted, up))
      BY <1>1, <2>2, ConnectSound DEF Turn, Sound, Connection
    <2> QED
      BY <2>1, <2>3
  <1>3. ASSUME NEW x \in Bank, UserRefresh(x)
        PROVE  \E d : link' = [link EXCEPT ![x] = d] /\ Turn(x, link[x], d)
    <2>1. PICK up \in Answers(x) : link' = [link EXCEPT ![x] = Refresh(x, link[x], up)]
      BY <1>3 DEF UserRefresh
    <2>2. up \in BOOLEAN
      BY <2>1 DEF Answers
    <2>3. Drift(x, link[x], Refresh(x, link[x], up))
      BY <1>1, <2>2, SoundIsHalfway, RefreshSound
    <2> QED
      BY <2>1, <2>3 DEF Drift, Turn
  <1>4. ASSUME NEW x \in Bank, Disconnect(x)
        PROVE  \E d : link' = [link EXCEPT ![x] = d] /\ Turn(x, link[x], d)
    <2>1. link' = [link EXCEPT ![x] = Dropped(link[x])]
      BY <1>4 DEF Disconnect
    <2>2. Dropped(link[x]) \in Connection(x)
      BY <1>1 DEF Dropped, Sound, Connection, LinkState
    <2>3. Turn(x, link[x], Dropped(link[x]))
      BY <1>1, <2>2 DEF Turn, Dropped, Sound, Connection, HasSession, IsLive, Received
    <2> QED
      BY <2>1, <2>3
  <1>5. ASSUME NEW x \in Bank, ExpireSessionForDemo(x)
        PROVE  \E d : link' = [link EXCEPT ![x] = d] /\ Turn(x, link[x], d)
    <2> DEFINE d == [link[x] EXCEPT !.revoked = TRUE]
    <2>1. link' = [link EXCEPT ![x] = d]
      BY <1>5 DEF ExpireSessionForDemo
    <2>2. d \in Connection(x)
      BY <1>1 DEF Sound, Connection
    <2>3. Turn(x, link[x], d)
      BY <1>1, <2>2 DEF Turn, Sound, Connection, HasSession, IsLive, Received
    <2> QED
      BY <2>1, <2>3
  <1> QED
    BY <1>2, <1>3, <1>4, <1>5 DEF UserStep, BankStep

-----------------------------------------------------------------------------
(* Theorems.                                                               *)

LEMMA InitInv == Init => LinkInv
  <1>1. ASSUME NEW b \in Bank PROVE Sound(b, Fresh(b))
    <2>1. Fresh(b) \in Connection(b)
      BY LinkAssumption DEF Fresh, Connection, LinkState
    <2> QED
      BY <2>1 DEF Fresh, Sound, HasSession, IsLive
  <1> QED
    BY <1>1 DEF Init, LinkInv

LEMMA StepInv == LinkInv /\ [Next]_vars => LinkInv'
  <1> SUFFICES ASSUME LinkInv, [Next]_vars PROVE LinkInv'
    OBVIOUS
  <1>1. CASE SystemStep
    <2>1. DOMAIN link' = Bank /\ \A b \in Bank : Sound(b, link'[b])
      BY <1>1, SystemStepDrift DEF Drift
    <2> QED
      BY <2>1 DEF LinkInv, Sound, HasSession, IsLive
  <1>2. CASE UserStep \/ BankStep
    <2>1. DOMAIN link' = Bank /\ \A b \in Bank : Sound(b, link'[b])
      BY <1>2, OtherStepTurn DEF Turn, LinkInv
    <2> QED
      BY <2>1 DEF LinkInv, Sound, HasSession, IsLive
  <1>3. CASE UNCHANGED vars
    BY <1>3 DEF vars, LinkInv, Sound, HasSession, IsLive
  <1> QED
    BY <1>1, <1>2, <1>3 DEF Next

\* The inductive invariant holds of the specification: each of the seven named
\* invariants below is a part of it.
THEOREM LinkInvariance == Spec => []LinkInv
  BY InitInv, StepInv, PTL DEF Spec

\* Type correctness: links stay well-formed connection records, and no handler
\* leaves one Authenticating.
THEOREM TypeCorrect == Spec => []TypeOK
  <1>1. LinkInv => TypeOK
    BY DEF LinkInv, TypeOK, Sound
  <1> QED
    BY <1>1, LinkInvariance, PTL

\* A sync in flight and its one timer go together, whatever is called between
\* refresh and run_sync.
THEOREM TimersCorrect == Spec => []OneTimerPerSync
  <1>1. LinkInv => OneTimerPerSync
    BY DEF LinkInv, OneTimerPerSync, Sound
  <1> QED
    BY <1>1, LinkInvariance, PTL

\* A session is held exactly by the live links.
THEOREM SessionsCorrect == Spec => []SessionIffLive
  <1>1. LinkInv => SessionIffLive
    BY DEF LinkInv, SessionIffLive, Sound
  <1> QED
    BY <1>1, LinkInvariance, PTL

\* A last-sync time means that everything has been received, the rows of every
\* account: a pass that perform_sync abandons half-way stamps nothing.
THEOREM StampsCorrect == Spec => []StampMeansComplete
  <1>1. LinkInv => StampMeansComplete
    BY DEF LinkInv, StampMeansComplete, Sound
  <1> QED
    BY <1>1, LinkInvariance, PTL

\* The hint of an idle Connected link is current: handle_sync_failure's texts do
\* not outlive the next pass that succeeds.
THEOREM HintsCorrect == Spec => []HintIsCurrent
  <1>1. LinkInv => HintIsCurrent
    BY DEF LinkInv, HintIsCurrent, Sound
  <1> QED
    BY <1>1, LinkInvariance, PTL

\* A parked link has no sync in flight: reconnecting begins with a pull of its own.
THEOREM ParkedCorrect == Spec => []ParkedIsQuiet
  <1>1. LinkInv => ParkedIsQuiet
    BY DEF LinkInv, ParkedIsQuiet, Sound
  <1> QED
    BY <1>1, LinkInvariance, PTL

\* No timer, scheduler tick or passing of time gives a link a session or renews
\* the one it has.
THEOREM NeverSilentReauth == Spec => NoSilentReauth
  <1>1. LinkInv /\ [Next]_vars =>
          [SystemStep => \A b \in Bank : HasSession(link'[b]) =>
             HasSession(link[b]) /\ link'[b].session >= link[b].session]_vars
    BY SystemStepDrift DEF Drift
  <1> QED
    BY <1>1, LinkInvariance, PTL DEF Spec, NoSilentReauth

\* A lost session is announced exactly once: by the step that parks the link it
\* stood on, and no other step announces anything.
THEOREM NoticedOnce == Spec => OneNoticePerLoss
  <1> DEFINE Once == \A b \in Bank : link'[b].notices = link[b].notices + (IF Lost(b) THEN 1 ELSE 0)
  <1>1. LinkInv /\ [Next]_vars => [Once]_vars
    <2> SUFFICES ASSUME LinkInv, Next PROVE Once
      OBVIOUS
    <2>1. CASE SystemStep
      BY <2>1, SystemStepDrift DEF Drift, Lost
    <2>2. CASE UserStep \/ BankStep
      <3>1. PICK x \in Bank : \E d : link' = [link EXCEPT ![x] = d] /\ Turn(x, link[x], d)
        BY <2>2, OtherStepTurn
      <3> QED
        BY <3>1 DEF LinkInv, Turn, Lost, Sound, Connection, IsLive
    <2> QED
      BY <2>1, <2>2 DEF Next
  <1> QED
    BY <1>1, LinkInvariance, PTL DEF Spec, OneNoticePerLoss

\* The link layer implements BankConsent: whatever the interleaving, data comes
\* from a bank only under a session the user asked for.
THEOREM ImplementsConsent == Spec => PullsUnderConsent
  <1> DEFINE consent == {b \in Bank : HasSession(link[b])}
             data == [b \in Bank |-> Received(link[b])]
  <1>1. Init => Promise!Init
    <2> SUFFICES ASSUME Init PROVE Promise!Init
      OBVIOUS
    <2>1. \A b \in Bank : ~HasSession(link[b]) /\ Received(link[b]) = 0
      BY DEF Init, Fresh, HasSession, Received
    <2> QED
      BY <2>1 DEF Promise!Init
  <1>2. ASSUME LinkInv, LinkInv', [Next]_vars PROVE [Promise!Next]_(Promise!vars)
    <2>1. \A b \in Bank : Received(link[b]) \in Nat /\ Received(link'[b]) \in Nat
      BY <1>2, LinkAssumption DEF LinkInv, Sound, Connection, Received
    <2>2. CASE SystemStep
      <3>1. \A b \in Bank : Drift(b, link[b], link'[b])
        BY <1>2, <2>2, SystemStepDrift
      <3>2. consent' \in SUBSET consent
        BY <3>1 DEF Drift, HasSession
      <3>3. \A b \in Bank : \/ data'[b] = data[b]
                            \/ b \in consent' /\ data'[b] > data[b]
        BY <3>1 DEF Drift, HasSession, Received
      <3>4. data' \in [Bank -> Nat]
        BY <2>1 DEF Received
      <3> QED
        BY <3>2, <3>3, <3>4 DEF Promise!Next, Promise!Run, Promise!PullsFrom
    <2>3. CASE UserStep \/ BankStep
      <3>0. PICK x \in Bank : \E r : link' = [link EXCEPT ![x] = r] /\ Turn(x, link[x], r)
        BY <1>2, <2>3, OtherStepTurn
      <3>1. PICK d : link' = [link EXCEPT ![x] = d] /\ Turn(x, link[x], d)
        BY <3>0
      <3>2. link'[x] = d /\ \A b \in Bank \ {x} : link'[b] = link[b]
        BY <1>2, <3>1 DEF LinkInv
      <3>3. /\ data' \in [Bank -> Nat]
            /\ \A b \in Bank \ {x} : data'[b] = data[b]
            /\ data'[x] # data[x] => HasSession(d) /\ data'[x] > data[x]
        BY <2>1, <3>1, <3>2 DEF Turn, Received, HasSession
      <3>4. CASE HasSession(d)
        <4>1. consent' = consent \cup {x}
          BY <3>2, <3>4 DEF HasSession
        <4> QED
          BY <3>3, <4>1 DEF Promise!Next, Promise!Grant, Promise!PullsFrom
      <3>5. CASE ~HasSession(d)
        <4>1. consent' = consent \ {x}
          BY <3>2, <3>5 DEF HasSession
        <4>2. data' = data
          BY <3>3, <3>5
        <4> QED
          BY <4>1, <4>2 DEF Promise!Next, Promise!Withdraw
      <3> QED
        BY <3>4, <3>5
    <2>4. CASE UNCHANGED vars
      BY <2>4 DEF vars, Promise!vars, HasSession, Received
    <2> QED
      BY <1>2, <2>2, <2>3, <2>4 DEF Next
  <1> QED
    BY <1>1, <1>2, LinkInvariance, PTL DEF Spec, PullsUnderConsent, Promise!Spec
=============================================================================
