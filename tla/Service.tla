------------------------------ MODULE Service ------------------------------
(***************************************************************************)
(* The HTTP service around the gate (api/app.py, _answer): the replay of a *)
(* repeated Idempotency-Key (domain/replay.py, session/replay.py), the     *)
(* rows written to Postgres after the answer has been sent                 *)
(* (store/writer.py, store/repo.py), and a crash of the process followed   *)
(* by a restart, which restores what the rows still know                   *)
(* (session/persistent.py).                                                *)
(*                                                                         *)
(* Every answer has a background task of its own, so tasks of one session  *)
(* interleave at every database statement, and a statement may fail.  The  *)
(* JSONL log, the other sink of the composite writer, is left out.         *)
(***************************************************************************)
EXTENDS Gate, TtlStore, SequencesExt

CONSTANTS NoKey,        \* the key of a call without an Idempotency-Key
          Second,       \* ticks of the clock in a second
          RestoreLimit, \* the rows a restart reads back into the replay store
          RestoreTime,  \* bound on the time a restart takes to put them back
          MaxRestarts   \* bound on the crashes

\* Requests carry the credential's principal and the idempotency key too.  The
\* TTL is set in seconds.  A restart reads as many rows as the replay store may
\* hold.
ASSUME ServiceAssumption ==
  /\ \A r \in Requests : {"principal", "key"} \subseteq DOMAIN r
  /\ Second \in Nat \ {0}
  /\ TTL % Second = 0
  /\ RestoreTime \in Nat
  /\ MaxRestarts \in Nat
  /\ RestoreLimit \in Nat \ {0}
  /\ MaxEntries <= RestoreLimit   \* both are 100 000 in the code

VARIABLES replay,      \* the replay store: calls by slot
          work,        \* Calls -> how far the answer's background task is
          rows,        \* the calls whose decision row is stored
          sessionRow,  \* SessionIds -> the stored session row
          cacheRow,    \* the stored allow cache entries
          restarts,    \* how often the process has been restarted
          forgot       \* whether a restart came up without the replay entries

store == <<rows, sessionRow, cacheRow>>
life == <<restarts, forgot>>
serviceVars == <<vars, replay, work, store, life>>

\* ReplayKey: the caller's key, namespaced by principal and session.
Slot(r) == <<r.principal, r.session, r.key>>

\* identity_digest: the whole request; the key and the credential are headers.
Identity(r) == [f \in DOMAIN r \ {"principal", "key"} |-> r[f]]

NoRow == [bare |-> TRUE, state |-> Unopened]

At(stage) == [at |-> stage]

ServiceInit ==
  /\ Init
  /\ replay = EmptyStore
  /\ work = [c \in Calls |-> At("none")]
  /\ rows = {}
  /\ sessionRow = [s \in SessionIds |-> NoRow]
  /\ cacheRow = {}
  /\ restarts = 0
  /\ forgot = FALSE

-----------------------------------------------------------------------------
\* Answering a request.

\* The live entry that answers the request: same slot, same identity.
Answers(r) == {e \in Live(replay, Slot(r), clock) :
                 r.key # NoKey /\ Identity(call[e.value].request) = Identity(r)}

\* The store once the request has been looked up.
LookedUp(r) == IF r.key = NoKey THEN replay ELSE AfterGet(replay, Slot(r), clock)

ReplayPut(entries, r, id) == AfterPut(entries, Slot(r), id, TTL, clock)

\* The retry gets the stored answer: no counter moves, no row is written.
Repeat(c, r) ==
  /\ call[c] = NoCall
  /\ \E e \in Answers(r) :
       call' = [call EXCEPT ![c] = [phase |-> "replayed", request |-> r,
                                    workspace |-> NoWorkspace, of |-> e.value, at |-> clock]]
  /\ UNCHANGED <<session, allowCache, clock, replay, work, store, life>>

RemembersStage1Only(c, r, entries) ==
  /\ replay' = IF r.key # NoKey /\ call[c] = NoCall /\ call'[c].phase = "done"
               THEN ReplayPut(entries, r, c) ELSE entries
  /\ work' = IF call'[c].phase = "done" THEN [work EXCEPT ![c] = At("queued")] ELSE work

\* Once the gate has answered, the answer is kept for a retry and its rows are
\* queued, in one piece with the answer.
Remember(c, r, entries) ==
  /\ replay' = IF r.key # NoKey /\ call'[c].phase = "done"
               THEN ReplayPut(entries, r, c) ELSE entries
  /\ work' = IF call'[c].phase = "done" THEN [work EXCEPT ![c] = At("queued")] ELSE work

Serve(c, r) ==
  /\ Answers(r) = {}
  /\ Decide(c, r)
  /\ Remember(c, r, LookedUp(r))
  /\ UNCHANGED <<store, life>>

Resume(c) ==
  /\ ClassifierAnswers(c)
  /\ Remember(c, call[c].request, replay)
  /\ UNCHANGED <<store, life>>

-----------------------------------------------------------------------------
\* The background task of an answered call: session row, decision row, cache
\* row, each in a transaction of its own.

\* session_state: the decision was taken for a session, whose state the record
\* still refers to.
HasState(c) == call[c].workspace # NoWorkspace /\ call[c].request.session # NoSession

CachesEverything(c) == HasState(c) /\ ~call[c].cached

\* allow_cache_entry: a fresh allow with a session.
IsCacheable(c) ==
  /\ HasState(c)
  /\ ~call[c].cached
  /\ call[c].verdict.decision = "allow"

\* The unique index over principal, session and key, nulls not distinct.
Conflicts(c) == /\ call[c].request.key # NoKey
                /\ \E d \in rows : Slot(call[d].request) = Slot(call[c].request)

\* The decision row's session is a foreign key.
LacksSession(c) == /\ call[c].request.session # NoSession
                   /\ sessionRow[call[c].request.session] = NoRow

\* The upsert takes the session as it is now, not as it was at the answer.
BeginTask(c) ==
  /\ work[c] = At("queued")
  /\ work' = [work EXCEPT ![c] =
                IF HasState(c)
                THEN [at |-> "upserting",
                      row |-> [bare |-> FALSE, state |-> session[call[c].request.session]]]
                ELSE At("inserting")]
  /\ UNCHANGED <<vars, replay, store, life>>

CommitSession(c) ==
  /\ work[c].at = "upserting"
  /\ sessionRow' = [sessionRow EXCEPT ![call[c].request.session] = work[c].row]
  /\ work' = [work EXCEPT ![c] = At("inserting")]
  /\ UNCHANGED <<vars, replay, rows, cacheRow, life>>

\* A second row under one key is skipped, and its cache row with it.
InsertDecision(c) ==
  /\ work[c] = At("inserting")
  /\ rows' = IF Conflicts(c) \/ LacksSession(c) THEN rows ELSE rows \cup {c}
  /\ work' = [work EXCEPT ![c] = IF Conflicts(c) THEN At("skipped")
                                 ELSE IF LacksSession(c) THEN At("rejected")
                                 ELSE IF IsCacheable(c) THEN At("caching")
                                 ELSE At("stored")]
  /\ UNCHANGED <<vars, replay, sessionRow, cacheRow, life>>

\* The stored entry lives a whole TTL from now, not from the answer.
StoreCacheEntry(c) ==
  LET r == call[c].request
  IN /\ work[c] = At("caching")
     /\ cacheRow' = CachePut(cacheRow, r, c)
     /\ work' = [work EXCEPT ![c] = At("stored")]
     /\ UNCHANGED <<vars, replay, rows, sessionRow, life>>

\* A statement that fails ends the task; the caller has its answer already.
FailTask(c) ==
  /\ work[c].at \in {"upserting", "inserting", "caching"}
  /\ work' = [work EXCEPT ![c] = At("failed")]
  /\ UNCHANGED <<vars, replay, store, life>>

\* An inspected tool result needs the session's row and leaves one that exists
\* alone.
EnsureSession(s, w) ==
  /\ sessionRow[s] = NoRow
  /\ sessionRow' = [sessionRow EXCEPT ![s] = [bare |-> TRUE, state |-> NewSession(w)]]
  /\ UNCHANGED <<vars, replay, work, rows, cacheRow, life>>

-----------------------------------------------------------------------------
RestoresNothing(row) == Unopened

RestoredWithBareRows(row) == row.state

\* What the first decide finds of a restored session: a bare row's state is
\* replaced there, as its harness is empty.
Restored(row) == IF row.bare THEN Unopened ELSE row.state

Restorable == {c \in rows : call[c].request.key # NoKey /\ clock < call[c].at + TTL}

\* The rows a restart reads: the newest, up to the limit, newest first.
RestoreOrders ==
  LET n == Min({RestoreLimit, Cardinality(Restorable)})
  IN {order \in [1..n -> Restorable] :
        /\ \A i, j \in 1..n : i < j =>
             order[i] # order[j] /\ call[order[i]].at >= call[order[j]].at
        /\ \A i \in 1..n, c \in Restorable \ ToSet(order) : call[order[i]].at >= call[c].at}

\* int(): a restart measures ages and what is left of a TTL in whole seconds.
WholeSeconds(t) == t - (t % Second)

\* Each row is put back, the newest first, with what was left of its TTL when the
\* restart began: its age is rounded down, and the entry's time runs from now.
RestoredReplay(order, now) ==
  LET kept[n \in 0..Len(order)] ==
        IF n = 0 THEN EmptyStore
        ELSE AfterPut(kept[n - 1], Slot(call[order[n]].request), order[n],
                      TTL - WholeSeconds(clock - call[order[n]].at), now)
  IN kept[Len(order)]

\* The allow cache's rows with a whole second left, put back for whole seconds.
RestoredCache(now) ==
  {[e EXCEPT !.expires = now + WholeSeconds(e.expires - clock)] :
     e \in {e \in cacheRow : clock + Second <= e.expires}}

\* The process dies with its calls and tasks under way, and comes back some time
\* after it began to read the stored rows; it has the replay entries only if
\* their query succeeds.
Restart ==
  /\ restarts < MaxRestarts
  /\ restarts' = restarts + 1
  /\ clock' \in clock..(clock + RestoreTime) /\ clock' <= MaxClock
  /\ session' = [s \in SessionIds |-> Restored(sessionRow[s])]
  /\ allowCache' = RestoredCache(clock')
  /\ call' = [c \in Calls |-> IF call[c].phase = "review"
                              THEN [call[c] EXCEPT !.phase = "lost"] ELSE call[c]]
  /\ work' = [c \in Calls |-> IF work[c].at \in {"queued", "upserting", "inserting", "caching"}
                              THEN At("dead") ELSE work[c]]
  /\ \/ UNCHANGED forgot /\ \E order \in RestoreOrders : replay' = RestoredReplay(order, clock')
     \/ replay' = EmptyStore /\ forgot' = TRUE
  /\ UNCHANGED store

Write(c) ==
  \/ BeginTask(c)
  \/ CommitSession(c)
  \/ InsertDecision(c)
  \/ StoreCacheEntry(c)
  \/ FailTask(c)

ServiceNext ==
  \/ \E c \in Calls : \E r \in Requests : Repeat(c, r) \/ Serve(c, r)
  \/ \E c \in Calls : Resume(c)
  \/ \E c \in Calls : Write(c)
  \/ \E s \in SessionIds, w \in Workspaces : EnsureSession(s, w)
  \/ Tick /\ UNCHANGED <<replay, work, store, life>>
  \/ Restart

ServiceSpec == ServiceInit /\ [][ServiceNext]_serviceVars

-----------------------------------------------------------------------------
\* How old a kept answer may get: a TTL, and once a restart has put answers back,
\* the part of a second their age was rounded by and the time the restart took.
Lifetime == IF restarts = 0 THEN TTL ELSE TTL + (Second - 1) + RestoreTime

\* A replayed answer is the answer some earlier call got that was the same
\* request, under the same key, from the same principal and session (the key
\* alone is not proof that two calls are the same call: domain/replay.py), and
\* less than a TTL old; after a restart it is less than a TTL, a second and the
\* restart's own time old (session/replay.py, restore: int() drops the part of a
\* second from the age, and put starts the clock anew).
ReplaysItsOwnAnswer ==
  \A c \in Calls : call[c].phase = "replayed" =>
    LET d == call[c].of
    IN /\ d \in Done
       /\ Slot(call[d].request) = Slot(call[c].request)
       /\ Identity(call[d].request) = Identity(call[c].request)
       /\ call[d].at <= call[c].at
       /\ call[c].at < call[d].at + Lifetime

Keyed == {c \in Done : call[c].request.key # NoKey}

\* Enough answers of other slots to fill the store, given no earlier; a restart
\* puts the newest in first, so after one the store does not go by age.
Crowded(c) ==
  LET rivals == {d \in Keyed : restarts = 0 => call[d].at >= call[c].at}
  IN Cardinality({Slot(call[d].request) : d \in rivals} \ {Slot(call[c].request)}) >= MaxEntries

\* No answer under a key is forgotten within its TTL, whichever way the gate
\* reached it: its slot holds it, or one that is no older, or later answers have
\* filled the store.  A restart forgets only what was not stored (app.py,
\* _remember; session/replay.py, restore; session/ttl_store.py).
AnswersAreRemembered ==
  \A c \in Keyed :
    /\ clock < call[c].at + TTL
    /\ restarts = 0 \/ (c \in rows /\ ~forgot)
    => \/ \E e \in Live(replay, Slot(call[c].request), clock) : call[e.value].at >= call[c].at
       \/ Crowded(c)

\* A workspace a session is pinned to was detected for a decide call of that
\* session, never taken from an inspection that stored the session's row first
\* (session/memory.py, get_or_create).
PinComesFromADecision ==
  \A s \in SessionIds : session[s].workspace # NoWorkspace =>
    \E c \in Bound : /\ call[c].request.session = s
                     /\ Detect(call[c].request.cwd) = session[s].workspace

\* A call is answered from the cache only after an allow of the same session and
\* key was granted by the cascade, also when the entry has been through the store
\* (store/writer.py, engine/decision.py, session/persistent.py).
CachedAllowWasGranted ==
  \A c \in Done : call[c].cached =>
    \E g \in Done :
      /\ ~call[g].cached
      /\ call[g].verdict.decision = "allow"
      /\ call[g].request.session = call[c].request.session
      /\ CacheKey(call[g].request) = CacheKey(call[c].request)
      /\ call[g].at <= call[c].at

\* What the store knows of a session the process knows too: no restart, and no
\* bare row, makes a session younger than its row (session/persistent.py).
StoreIsNeverAhead ==
  \A s \in SessionIds :
    /\ sessionRow[s].state.decisionsTotal <= session[s].decisionsTotal
    /\ sessionRow[s].state.denyTotal <= session[s].denyTotal

-----------------------------------------------------------------------------
\* The session row a decision refers to is always there (engine/decision.py,
\* session_ref).
SessionRowIsGuaranteed == \A c \in Calls : work[c].at # "rejected"
=============================================================================
