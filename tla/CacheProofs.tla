----------------------------- MODULE CacheProofs -----------------------------
(***************************************************************************)
(* What Cache keeps, proved for any number of calls and any TTL: what an   *)
(* outage costs, how old a hit may be, and that an invalidation holds.     *)
(* The last two are about commands that outlive their calls, so their      *)
(* invariants are about the client's queue.                                *)
(***************************************************************************)
EXTENDS Cache, Facts

Stages == {"idle", "connect", "command", "origin", "done"}
Blocks == {"read", "write", "del", "ping"}

\* What is written has been fetched.
WritesAreFetched ==
  /\ \A c \in Calls : call[c].block = "write" => call[c].value # Gone
  /\ \A i \in 1..Len(queue) : queue[i].block = "write" => queue[i].version # Gone

Typed == CacheTypeOK /\ WritesAreFetched

LEMMA CallMoves ==
  ASSUME NEW r \in Call, NEW at \in Stages
  PROVE  [r EXCEPT !.at = at] \in Call
BY DEF Call, Stages

LEMMA CallFails ==
  ASSUME NEW r \in Call, NEW at \in Stages
  PROVE  /\ [r EXCEPT !.at = at, !.clean = FALSE] \in Call
         /\ [r EXCEPT !.timeouts = @ + 1, !.clean = FALSE, !.at = at] \in Call
<1> USE DEF Call, Stages
<1>1. [r EXCEPT !.at = at, !.clean = FALSE] \in Call
  OBVIOUS
<1>2. ASSUME NEW n \in Nat PROVE [r EXCEPT !.timeouts = n, !.clean = FALSE, !.at = at] \in Call
  OBVIOUS
<1>3. r.timeouts + 1 \in Nat
  OBVIOUS
<1> QED
  BY <1>1, <1>2, <1>3

LEMMA CallBegins ==
  ASSUME NEW r \in Call, NEW at \in Stages, NEW block \in Blocks, NEW v \in Versions \cup {Gone}
  PROVE  [r EXCEPT !.at = at, !.block = block, !.since = v] \in Call
BY DEF Call, Stages, Blocks

LEMMA CallAnswered ==
  ASSUME NEW r \in Call, NEW at \in Stages, NEW v \in Versions \cup {Gone}, NEW b \in 0..MaxTicks
  PROVE  /\ [r EXCEPT !.value = v, !.born = b, !.at = at, !.block = "write"] \in Call
         /\ [r EXCEPT !.at = at, !.value = v, !.born = b] \in Call
BY DEF Call, Stages

LEMMA HeadAndTail ==
  ASSUME NEW S, NEW q \in Seq(S), q # <<>>
  PROVE  /\ Head(q) \in S /\ Head(q) = q[1] /\ Tail(q) \in Seq(S)
         /\ Len(q) \in Nat \ {0} /\ Len(Tail(q)) = Len(q) - 1
         /\ \A i \in 1..Len(Tail(q)) : Tail(q)[i] = q[i + 1] /\ i + 1 \in 1..Len(q)
OBVIOUS

LEMMA Appended ==
  ASSUME NEW S, NEW q \in Seq(S), NEW e \in S
  PROVE  /\ Append(q, e) \in Seq(S) /\ Len(Append(q, e)) = Len(q) + 1 /\ Len(q) \in Nat
         /\ Append(q, e)[Len(q) + 1] = e
         /\ \A i \in 1..Len(q) : Append(q, e)[i] = q[i]
OBVIOUS

\* What the client's queue does to Redis and to the calls.
LEMMA EffectType ==
  ASSUME Typed, queue # <<>>
  PROVE  Effect(Head(queue)) \in Held \cup {Gone}
<1>1. Head(queue) \in Command /\ (Head(queue).block = "write" => Head(queue).version # Gone)
  BY HeadAndTail DEF Typed, CacheTypeOK, WritesAreFetched
<1> QED
  BY <1>1, CacheAssumption DEF Typed, CacheTypeOK, Effect, Command, Held

LEMMA RepliedType ==
  ASSUME Typed, NEW m \in Command
  PROVE  /\ Replied(m) \in [Calls -> Call]
         /\ \A d \in Calls : Replied(m)[d].block = call[d].block
         /\ \A d \in Calls : call[d].block # "read" => Replied(m)[d].value = call[d].value
<1> USE DEF Typed, CacheTypeOK
<1>1. m.by \in Calls /\ call[m.by] \in Call
  BY DEF Command
<1>2. CASE ~Awaited(m)
  BY <1>2 DEF Replied
<1>3. CASE Awaited(m) /\ m.block # "read"
  <2>1. [call[m.by] EXCEPT !.at = "done"] \in Call
    BY <1>1, CallMoves DEF Stages
  <2> QED
    BY <1>1, <1>3, <2>1 DEF Replied, Call
<1>4. CASE Awaited(m) /\ m.block = "read" /\ ~Hit
  <2>1. [call[m.by] EXCEPT !.at = "origin"] \in Call
    BY <1>1, CallMoves DEF Stages
  <2> QED
    BY <1>1, <1>4, <2>1 DEF Replied, Call
<1>5. CASE Awaited(m) /\ m.block = "read" /\ Hit
  <2>1. entry.version \in Versions /\ entry.born \in 0..MaxTicks
    BY <1>5 DEF Hit, Held
  <2>2. [call[m.by] EXCEPT !.at = "done", !.value = entry.version, !.born = entry.born] \in Call
    BY <1>1, <2>1, CallAnswered DEF Stages
  <2>3. Replied(m) = [call EXCEPT ![m.by] = [@ EXCEPT !.at = "done", !.value = entry.version,
                                                     !.born = entry.born]]
    BY <1>5 DEF Replied
  <2> QED
    BY <1>1, <1>5, <2>2, <2>3 DEF Awaited, Call
<1> QED
  BY <1>2, <1>3, <1>4, <1>5

-----------------------------------------------------------------------------
LEMMA InitTyped == CacheInit => Typed
BY CacheAssumption DEF CacheInit, Typed, CacheTypeOK, WritesAreFetched, Call, Kinds, Versions

LEMMA NextTyped == Typed /\ [CacheNext]_cacheVars => Typed'
<1> SUFFICES ASSUME Typed, [CacheNext]_cacheVars PROVE Typed'
  OBVIOUS
<1> USE DEF Typed, CacheTypeOK, WritesAreFetched
<1>1. ASSUME NEW c \in Calls, BeginCall(c) PROVE Typed'
  <2>1. FirstBlock(c) \in Blocks \ {"write"}
    BY DEF FirstBlock, Blocks
  <2>2. [call[c] EXCEPT !.at = "connect", !.block = FirstBlock(c), !.since = upstream] \in Call
    BY <2>1, CallBegins DEF Stages
  <2>3. [call[c] EXCEPT !.at = "done"] \in Call
    BY CallMoves DEF Stages
  <2>4. CASE call' = [call EXCEPT ![c] = [@ EXCEPT !.at = "connect", !.block = FirstBlock(c),
                                                   !.since = upstream]]
    BY <1>1, <2>1, <2>2, <2>4 DEF BeginCall, Call
  <2>5. CASE call' = [call EXCEPT ![c].at = "done"]
    BY <1>1, <2>3, <2>5 DEF BeginCall, Call
  <2> QED
    BY <1>1, <2>4, <2>5 DEF BeginCall
<1>2. ASSUME NEW c \in Calls, GetRedis(c) PROVE Typed'
  <2> DEFINE e == [by |-> c, block |-> call[c].block, version |-> call[c].value,
                   born |-> call[c].born]
  <2>1. e \in Command /\ (e.block = "write" => e.version # Gone)
    BY DEF Command, Call
  <2>2. [call[c] EXCEPT !.at = "command"] \in Call
    BY CallMoves DEF Stages
  <2>3. CASE queue' = Append(queue, e) /\ call' = [call EXCEPT ![c].at = "command"] /\ UNCHANGED conn
    <3>1. \A d \in Calls : call'[d].block = call[d].block /\ call'[d].value = call[d].value
      BY <2>3 DEF Call
    <3> HIDE DEF e
    <3>2. call' \in [Calls -> Call] /\ queue' \in Seq(Command)
      BY <2>1, <2>2, <2>3, Appended
    <3>3. \A i \in 1..Len(queue') : queue'[i].block = "write" => queue'[i].version # Gone
      BY <2>1, <2>3, Appended
    <3> QED
      BY <1>2, <3>1, <3>2, <3>3 DEF GetRedis
  <2>4. CASE conn' = "connecting" /\ UNCHANGED <<queue, call>>
    BY <1>2, <2>4 DEF GetRedis
  <2> QED
    BY <1>2, <2>3, <2>4 DEF GetRedis
<1>3. ASSUME NEW c \in Calls, TimeOut(c) PROVE Typed'
  <2>1. AfterFailure(c) \in Stages
    BY DEF AfterFailure, Stages
  <2>2. [call[c] EXCEPT !.timeouts = @ + 1, !.clean = FALSE, !.at = AfterFailure(c)] \in Call
    BY <2>1, CallFails
  <2> QED
    BY <1>3, <2>2 DEF TimeOut, Call
<1>4. ASSUME NEW c \in Calls, Origin(c) PROVE Typed'
  <2>1. [call[c] EXCEPT !.value = upstream, !.born = now, !.at = "connect", !.block = "write"]
          \in Call
    BY CallAnswered DEF Stages
  <2>2. [call[c] EXCEPT !.at = "done"] \in Call
    BY CallMoves DEF Stages
  <2>3. CASE /\ upstream # Gone
             /\ call' = [call EXCEPT ![c].value = upstream, ![c].born = now,
                                     ![c].at = "connect", ![c].block = "write"]
    BY <1>4, <2>1, <2>3 DEF Origin, Call
  <2>4. CASE call' = [call EXCEPT ![c].at = "done"]
    BY <1>4, <2>2, <2>4 DEF Origin, Call
  <2> QED
    BY <1>4, <2>3, <2>4 DEF Origin
<1>5. CASE Execute
  <2>1. queue # <<>> /\ Head(queue) \in Command
    BY <1>5, HeadAndTail DEF Execute
  <2>2. entry' \in Held \cup {Gone}
    BY <1>5, <2>1, EffectType DEF Execute
  <2>3. /\ call' \in [Calls -> Call]
        /\ \A d \in Calls : call'[d].block = call[d].block
        /\ \A d \in Calls : call[d].block # "read" => call'[d].value = call[d].value
    BY <1>5, <2>1, RepliedType DEF Execute
  <2>4. /\ queue' \in Seq(Command)
        /\ \A i \in 1..Len(queue') : queue'[i].block = "write" => queue'[i].version # Gone
    BY <1>5, <2>1, HeadAndTail DEF Execute
  <2> QED
    BY <1>5, <2>2, <2>3, <2>4 DEF Execute
<1>6. CASE Drop
  <2>1. CASE UNCHANGED <<queue, entry, call>>
    BY <1>6, <2>1 DEF Drop
  <2>2. CASE queue # <<>> /\ queue' = Tail(queue) /\ ~UNCHANGED <<queue, entry, call>>
    <3> DEFINE m == Head(queue)
    <3>6. m \in Command
      BY <2>2, HeadAndTail
    <3>1. m \in Command /\ m.by \in Calls /\ call[m.by] \in Call
      BY <3>6 DEF Command
    <3>2. AfterFailure(m.by) \in Stages
      BY DEF AfterFailure, Stages
    <3>3. [call[m.by] EXCEPT !.at = AfterFailure(m.by), !.clean = FALSE] \in Call
      BY <3>1, <3>2, CallFails
    <3>4. call' \in [Calls -> Call]
          /\ \A d \in Calls : call'[d].block = call[d].block /\ call'[d].value = call[d].value
      <4>1. CASE Awaited(m)
        <5>1. call' = [call EXCEPT ![m.by] = [@ EXCEPT !.at = AfterFailure(m.by), !.clean = FALSE]]
          BY <1>6, <2>2, <4>1 DEF Drop
        <5> QED
          BY <5>1, <3>1, <3>3 DEF Call
      <4>2. CASE ~Awaited(m)
        BY <1>6, <2>2, <4>2 DEF Drop
      <4> QED
        BY <4>1, <4>2
    <3>5. entry' \in Held \cup {Gone}
      BY <1>6, <2>2, EffectType DEF Drop
    <3> QED
      BY <1>6, <2>2, <3>4, <3>5, HeadAndTail DEF Drop
  <2> QED
    BY <1>6, <2>1, <2>2 DEF Drop
<1>7. CASE Connect \/ Forget \/ UNCHANGED cacheVars
  BY <1>7 DEF Connect, Forget, cacheVars
<1>8. CASE ListingMoves \/ Tick
  BY <1>8, CacheAssumption DEF ListingMoves, Tick, Versions
<1> QED
  BY <1>1, <1>2, <1>3, <1>4, <1>5, <1>6, <1>7, <1>8 DEF CacheNext

-----------------------------------------------------------------------------
\* A step of the queue ends at most the block of the call whose command was first, and
\* only an executed command leaves its call clean.
Answered(d) ==
  /\ call[d].at = "command"
  /\ call'[d].at \in IF call[d].block = "read" THEN {"origin", "done"} ELSE {"done"}
  /\ call'[d].clean => /\ queue # <<>> /\ entry' = Effect(queue[1]) /\ queue' = Tail(queue)
                       /\ queue[1].by = d /\ queue[1].block = call[d].block

Kept(d) ==
  /\ call'[d].kind = call[d].kind /\ call'[d].block = call[d].block
  /\ call'[d].since = call[d].since /\ call'[d].timeouts = call[d].timeouts
  /\ call[d].block # "read" => call'[d].value = call[d].value /\ call'[d].born = call[d].born

LEMMA RepliedMoves ==
  ASSUME Typed, queue # <<>>, queue' = Tail(queue), entry' = Effect(queue[1]),
         call' = Replied(queue[1]), NEW d \in Calls
  PROVE  Kept(d) /\ (call'[d] = call[d] \/ Answered(d))
<1> USE DEF Typed, CacheTypeOK
<1> DEFINE m == queue[1]
<1>1. m \in Command /\ m.by \in Calls /\ call[m.by] \in Call
  <2>1. m \in Command
    BY HeadAndTail
  <2> QED
    BY <2>1 DEF Command
<1>2. CASE ~Awaited(m) \/ d # m.by
  <2>1. call'[d] = call[d]
    BY <1>1, <1>2 DEF Replied
  <2> QED
    BY <2>1 DEF Kept
<1>3. CASE Awaited(m) /\ d = m.by /\ m.block # "read"
  <2>1. call'[d] = [call[d] EXCEPT !.at = "done"]
    BY <1>1, <1>3 DEF Replied
  <2> QED
    BY <1>1, <1>3, <2>1 DEF Kept, Answered, Awaited, Call
<1>4. CASE Awaited(m) /\ d = m.by /\ m.block = "read"
  <2>1. \/ call'[d] = [call[d] EXCEPT !.at = "origin"]
        \/ call'[d] = [call[d] EXCEPT !.at = "done", !.value = entry.version, !.born = entry.born]
    BY <1>1, <1>4 DEF Replied
  <2> QED
    BY <1>1, <1>4, <2>1 DEF Kept, Answered, Awaited, Call
<1> QED
  BY <1>2, <1>3, <1>4

LEMMA DropMoves ==
  ASSUME Typed, queue # <<>>, Awaited(queue[1]), NEW d \in Calls,
         call' = [call EXCEPT ![queue[1].by].at = AfterFailure(queue[1].by),
                              ![queue[1].by].clean = FALSE]
  PROVE  Kept(d) /\ (call'[d] = call[d] \/ Answered(d))
<1> USE DEF Typed, CacheTypeOK
<1> DEFINE m == queue[1]
<1>1. m.by \in Calls /\ call[m.by] \in Call /\ AfterFailure(m.by) \in Stages
  <2>1. m \in Command
    BY HeadAndTail
  <2> QED
    BY <2>1 DEF Command, AfterFailure, Stages
<1>2. CASE d # m.by
  <2>1. call'[d] = call[d]
    BY <1>1, <1>2
  <2> QED
    BY <2>1 DEF Kept
<1>3. CASE d = m.by
  <2>1. call'[d] = [call[d] EXCEPT !.at = AfterFailure(d), !.clean = FALSE]
    BY <1>1, <1>3
  <2> QED
    BY <1>1, <1>3, <2>1 DEF Kept, Answered, Awaited, Call, AfterFailure
<1> QED
  BY <1>2, <1>3

LEMMA QueueStep ==
  ASSUME Typed, Execute \/ Drop
  PROVE  /\ \A d \in Calls : Kept(d) /\ (call'[d] = call[d] \/ Answered(d))
         /\ \/ queue' = queue /\ entry' = entry
            \/ queue # <<>> /\ queue' = Tail(queue) /\ entry' \in {entry, Effect(queue[1])}
<1>1. queue # <<>> => Head(queue) = queue[1]
  BY HeadAndTail DEF Typed, CacheTypeOK
<1>2. CASE Execute
  BY <1>1, <1>2, RepliedMoves DEF Execute
<1>3. CASE Drop
  BY <1>1, <1>3, DropMoves DEF Drop, Kept
<1> QED
  BY <1>2, <1>3

-----------------------------------------------------------------------------
\* How many time-outs a call has had by where it is.
Afforded(c) ==
  LET cached == call[c].kind = "cached"
  IN CASE call[c].at = "idle"   -> 0
       [] call[c].at = "origin" -> 1
       [] call[c].at = "done"   -> IF cached THEN 2 ELSE 1
       [] OTHER                 -> IF cached /\ call[c].block = "write" THEN 1 ELSE 0

Cost ==
  \A c \in Calls :
    /\ call[c].timeouts <= Afforded(c)
    /\ call[c].at = "origin" => call[c].kind = "cached"
    /\ call[c].at \in {"connect", "command"} =>
         /\ call[c].kind = "cached" <=> call[c].block \in {"read", "write"}
         /\ call[c].kind = "invalidate" => call[c].block = "del"

LEMMA NextCost == Typed /\ Cost /\ [CacheNext]_cacheVars => Cost'
<1> SUFFICES ASSUME Typed, Cost, [CacheNext]_cacheVars PROVE Cost'
  OBVIOUS
<1> USE DEF Typed, CacheTypeOK, Cost, Afforded, Call, Kinds
<1>1. ASSUME NEW c \in Calls, BeginCall(c) PROVE Cost'
  BY <1>1 DEF BeginCall, FirstBlock
<1>2. ASSUME NEW c \in Calls, GetRedis(c) PROVE Cost'
  <2>1. CASE call' = [call EXCEPT ![c].at = "command"]
    <3>1. /\ call'[c] = [call[c] EXCEPT !.at = "command"]
          /\ \A d \in Calls \ {c} : call'[d] = call[d]
      BY <2>1
    <3>2. call[c].at = "connect"
      BY <1>2 DEF GetRedis
    <3> QED
      BY <3>1, <3>2
  <2>2. CASE call' = call
    BY <2>2
  <2> QED
    BY <1>2, <2>1, <2>2 DEF GetRedis
<1>3. ASSUME NEW c \in Calls, TimeOut(c) PROVE Cost'
  <2>1. /\ call'[c].timeouts = call[c].timeouts + 1
        /\ call'[c].kind = call[c].kind /\ call'[c].block = call[c].block
        /\ call'[c].at = AfterFailure(c)
        /\ \A d \in Calls \ {c} : call'[d] = call[d]
    BY <1>3 DEF TimeOut
  <2>2. AfterFailure(c) = IF call[c].block = "read" THEN "origin" ELSE "done"
    BY DEF AfterFailure
  <2>3. call[c].at \in {"connect", "command"}
    BY <1>3 DEF TimeOut
  <2>4. call[c].timeouts <= IF call[c].kind = "cached" /\ call[c].block = "write" THEN 1 ELSE 0
    BY <2>3
  <2>5. call'[c].timeouts <= Afforded(c)'
    BY <2>1, <2>2, <2>3, <2>4
  <2> QED
    BY <2>1, <2>2, <2>3, <2>5
<1>4. ASSUME NEW c \in Calls, Origin(c) PROVE Cost'
  <2>1. /\ call'[c].timeouts = call[c].timeouts /\ call'[c].kind = call[c].kind
        /\ call'[c].at = "done" \/ (call'[c].at = "connect" /\ call'[c].block = "write")
        /\ \A d \in Calls \ {c} : call'[d] = call[d]
    BY <1>4 DEF Origin
  <2>2. call[c].kind = "cached" /\ call[c].timeouts <= 1
    BY <1>4 DEF Origin
  <2> QED
    BY <2>1, <2>2
<1>5. CASE Execute \/ Drop
  <2> SUFFICES ASSUME NEW d \in Calls, call'[d] # call[d]
               PROVE  /\ call'[d].timeouts <= Afforded(d)'
                      /\ call'[d].at = "origin" => call'[d].kind = "cached"
                      /\ call'[d].at \notin {"connect", "command"}
    OBVIOUS
  <2>1. Kept(d) /\ Answered(d)
    BY <1>5, QueueStep
  <2>2. /\ call[d].at = "command" /\ call'[d].at \in {"origin", "done"}
        /\ call'[d].at = "origin" => call[d].block = "read"
    BY <2>1 DEF Answered
  <2>3. call'[d].kind = call[d].kind /\ call'[d].timeouts = call[d].timeouts
    BY <2>1 DEF Kept
  <2>4. call[d].timeouts <= IF call[d].kind = "cached" THEN 1 ELSE 0
    BY <2>2
  <2> QED
    BY <2>2, <2>3, <2>4
<1>6. CASE UNCHANGED call
  BY <1>6
<1> QED
  BY <1>1, <1>2, <1>3, <1>4, <1>5, <1>6
  DEF CacheNext, Connect, Forget, ListingMoves, Tick, cacheVars

-----------------------------------------------------------------------------
\* What is on its way into the cache was fetched in this tick, and what is in it lives
\* a TTL from when it was fetched: a connection that does not drop has no command
\* waiting while it is away.
Age ==
  ~drops =>
    /\ conn # "dropped"
    /\ conn # "ready" => queue = <<>>
    /\ \A c \in Calls :
         call[c].at \in {"connect", "command"} /\ call[c].block = "write" => call[c].born = now
    /\ \A i \in 1..Len(queue) : queue[i].block = "write" => queue[i].born = now
    /\ entry # Gone => entry.dies = entry.born + TTL /\ entry.born <= now

LEMMA ChosenAtTheStart == [CacheNext]_cacheVars => drops' = drops /\ laps' = laps
BY DEF CacheNext, BeginCall, GetRedis, TimeOut, Origin, Execute, Connect, Drop, Forget,
       ListingMoves, Tick, cacheVars

\* How a step of the queue leaves Age.
LEMMA QueueAge ==
  ASSUME Typed, Age, ~drops, Execute
  PROVE  Age'
<1> USE DEF Typed, CacheTypeOK, Age
<1>1. /\ UNCHANGED <<drops, conn, now>> /\ queue # <<>>
      /\ queue' = Tail(queue) /\ entry' = Effect(queue[1])
  BY HeadAndTail DEF Execute
<1>2. queue[1] \in Command /\ (queue[1].block = "write" => queue[1].born = now)
  BY <1>1, HeadAndTail
<1>3. entry' # Gone => entry'.dies = entry'.born + TTL /\ entry'.born <= now
  BY <1>1, <1>2, CacheAssumption DEF Effect, Command, Held
<1>4. \A i \in 1..Len(queue') : queue'[i].block = "write" => queue'[i].born = now
  BY <1>1, HeadAndTail
<1>5. ASSUME NEW d \in Calls, call'[d].at \in {"connect", "command"}, call'[d].block = "write"
      PROVE  call'[d].born = now
  BY <1>5, QueueStep DEF Kept, Answered
<1> QED
  BY <1>1, <1>3, <1>4, <1>5 DEF Execute

LEMMA NextAge == Typed /\ Cost /\ Age /\ [CacheNext]_cacheVars => Age'
<1> SUFFICES ASSUME Typed, Cost, Age, [CacheNext]_cacheVars PROVE Age'
  OBVIOUS
<1>9. drops' = drops
  BY ChosenAtTheStart
<1> SUFFICES ASSUME ~drops PROVE Age'
  BY <1>9 DEF Age
<1> USE DEF Typed, CacheTypeOK, Call, Age
<1>1. ASSUME NEW c \in Calls, BeginCall(c) PROVE Age'
  <2>1. FirstBlock(c) # "write"
    BY DEF FirstBlock
  <2>2. /\ call'[c].at = "done" \/ call'[c].block = FirstBlock(c)
        /\ \A d \in Calls \ {c} : call'[d] = call[d]
    BY <1>1 DEF BeginCall
  <2> QED
    BY <1>1, <2>1, <2>2 DEF BeginCall
<1>2. ASSUME NEW c \in Calls, GetRedis(c) PROVE Age'
  <2> DEFINE e == [by |-> c, block |-> call[c].block, version |-> call[c].value,
                   born |-> call[c].born]
  <2>1. CASE queue' = Append(queue, e) /\ call' = [call EXCEPT ![c].at = "command"] /\ UNCHANGED conn
             /\ conn \in {"ready", "dropped"}
    <3>1. e \in Command /\ (e.block = "write" => e.born = now)
      BY <1>2 DEF GetRedis, Command
    <3>2. \A d \in Calls : call'[d].at \in {"connect", "command"} /\ call'[d].block = "write"
                              => call'[d].born = now
      BY <1>2, <2>1 DEF GetRedis
    <3> HIDE DEF e
    <3>3. \A i \in 1..Len(queue') : queue'[i].block = "write" => queue'[i].born = now
      BY <2>1, <3>1, Appended
    <3> QED
      BY <1>2, <2>1, <3>2, <3>3 DEF GetRedis
  <2>2. CASE conn = "closed" /\ conn' = "connecting" /\ UNCHANGED <<queue, call>>
    BY <1>2, <2>2 DEF GetRedis
  <2> QED
    BY <1>2, <2>1, <2>2 DEF GetRedis
<1>3. ASSUME NEW c \in Calls, TimeOut(c) PROVE Age'
  <2>1. /\ call'[c].at \in {"origin", "done"}
        /\ \A d \in Calls \ {c} : call'[d] = call[d]
    BY <1>3 DEF TimeOut, AfterFailure
  <2> QED
    BY <1>3, <2>1 DEF TimeOut
<1>4. ASSUME NEW c \in Calls, Origin(c) PROVE Age'
  <2>1. /\ call'[c].at = "done" \/ call'[c].born = now
        /\ \A d \in Calls \ {c} : call'[d] = call[d]
    BY <1>4 DEF Origin
  <2> QED
    BY <1>4, <2>1 DEF Origin
<1>5. CASE Execute
  BY <1>5, QueueAge
<1>6. CASE Tick
  BY <1>6, CacheAssumption DEF Tick, Held
<1>7. CASE Connect \/ Forget \/ ListingMoves \/ UNCHANGED cacheVars
  BY <1>7 DEF Connect, Forget, ListingMoves, cacheVars
<1>8. ~Drop
  BY DEF Drop
<1> QED
  BY <1>1, <1>2, <1>3, <1>4, <1>5, <1>6, <1>7, <1>8 DEF CacheNext

-----------------------------------------------------------------------------
\* An invalidation under way, of a listing that was there.
Pending(c) == call[c].kind = "invalidate" /\ call[c].at # "idle" /\ call[c].since # Gone

\* Nothing older than the invalidation is on its way into the cache behind its command,
\* or, once that has been executed, at all.
NothingOlder(c) ==
  LET Old(v) == v < call[c].since
      OldWrite(i) == queue[i].block = "write" /\ Old(queue[i].version)
  IN /\ upstream # Gone => ~Old(upstream)
     /\ \A d \in Calls :
          call[d].at \in {"connect", "command"} /\ call[d].block = "write" => ~Old(call[d].value)
     /\ \A i, j \in 1..Len(queue) :
          queue[i].by = c /\ queue[i].block = "del" /\ i < j => ~OldWrite(j)
     /\ call[c].at = "done" /\ call[c].clean =>
          (\A j \in 1..Len(queue) : ~OldWrite(j)) /\ (entry # Gone => ~Old(entry.version))

NothingQueuedYet ==
  \A c \in Calls : call[c].at = "idle" => \A i \in 1..Len(queue) : queue[i].by # c

Holds == ~laps => \A c \in Calls : Pending(c) => NothingOlder(c)

LEMMA NextNothingQueued ==
  Typed /\ NothingQueuedYet /\ [CacheNext]_cacheVars => NothingQueuedYet'
<1> SUFFICES ASSUME Typed, NothingQueuedYet, [CacheNext]_cacheVars PROVE NothingQueuedYet'
  OBVIOUS
<1> USE DEF Typed, CacheTypeOK, Call, NothingQueuedYet
<1>1. ASSUME NEW c \in Calls, BeginCall(c) \/ TimeOut(c) \/ Origin(c) PROVE NothingQueuedYet'
  <2>1. \A d \in Calls : call'[d].at = "idle" => call[d].at = "idle"
    <3>1. call'[c].at # "idle" /\ \A d \in Calls \ {c} : call'[d] = call[d]
      <4>1. CASE BeginCall(c)
        BY <4>1 DEF BeginCall
      <4>2. CASE TimeOut(c)
        BY <4>2 DEF TimeOut, AfterFailure
      <4>3. CASE Origin(c)
        BY <4>3 DEF Origin
      <4> QED
        BY <1>1, <4>1, <4>2, <4>3
    <3> QED
      BY <3>1
  <2> QED
    BY <1>1, <2>1 DEF BeginCall, TimeOut, Origin
<1>2. ASSUME NEW c \in Calls, GetRedis(c) PROVE NothingQueuedYet'
  <2> DEFINE e == [by |-> c, block |-> call[c].block, version |-> call[c].value,
                   born |-> call[c].born]
  <2>1. CASE queue' = Append(queue, e) /\ call' = [call EXCEPT ![c].at = "command"]
    <3>1. \A d \in Calls : call'[d].at = "idle" => call[d].at = "idle" /\ d # c
      BY <2>1
    <3>2. e \in Command /\ e.by = c
      BY DEF Command
    <3> HIDE DEF e
    <3> QED
      BY <2>1, <3>1, <3>2, Appended
  <2>2. CASE UNCHANGED <<queue, call>>
    BY <2>2
  <2> QED
    BY <1>2, <2>1, <2>2 DEF GetRedis
<1>3. CASE Execute \/ Drop
  <2>1. \A d \in Calls : call'[d].at = "idle" => call[d].at = "idle"
    BY <1>3, QueueStep DEF Answered
  <2>2. \/ queue' = queue
        \/ \A i \in 1..Len(queue') : queue'[i] = queue[i + 1] /\ i + 1 \in 1..Len(queue)
    BY <1>3, QueueStep, HeadAndTail
  <2>3. ASSUME NEW d \in Calls, call'[d].at = "idle", NEW i \in 1..Len(queue')
        PROVE  queue'[i].by # d
    <3>1. \A k \in 1..Len(queue) : queue[k].by # d
      BY <2>1, <2>3
    <3> QED
      BY <2>2, <3>1
  <2> QED
    BY <2>3
<1>4. CASE UNCHANGED <<queue, call>>
  BY <1>4
<1> QED
  BY <1>1, <1>2, <1>3, <1>4
  DEF CacheNext, Connect, Forget, ListingMoves, Tick, cacheVars

\* A step of the queue: an invalidation's command leaves nothing, and only what is
\* behind it can come after.
LEMMA QueueHolds ==
  ASSUME Typed, Cost, Execute \/ Drop, NEW c \in Calls, Pending(c), NothingOlder(c)
  PROVE  NothingOlder(c)'
<1> USE DEF Typed, CacheTypeOK, Call
<1> DEFINE Old(v) == v < call[c].since
           OldWrite(i) == queue[i].block = "write" /\ Old(queue[i].version)
<1>1. /\ call'[c].since = call[c].since /\ upstream' = upstream
      /\ \A d \in Calls : Kept(d) /\ (call'[d] = call[d] \/ Answered(d))
  BY QueueStep DEF Kept, Execute, Drop
<1>2. \/ queue' = queue /\ entry' = entry
      \/ /\ queue # <<>> /\ queue' = Tail(queue) /\ entry' \in {entry, Effect(queue[1])}
         /\ Len(queue) \in Nat \ {0} /\ Len(queue') = Len(queue) - 1
         /\ \A i \in 1..Len(queue') : queue'[i] = queue[i + 1] /\ i + 1 \in 1..Len(queue)
  BY QueueStep, HeadAndTail
<1>3. ASSUME NEW d \in Calls, call'[d].at \in {"connect", "command"}, call'[d].block = "write"
      PROVE  ~Old(call'[d].value)
  BY <1>1, <1>3 DEF Kept, Answered, NothingOlder
<1>4. ASSUME NEW i \in 1..Len(queue'), NEW j \in 1..Len(queue'),
             queue'[i].by = c, queue'[i].block = "del", i < j, queue'[j].block = "write"
      PROVE  ~Old(queue'[j].version)
  <2>1. CASE queue' = queue
    BY <1>4, <2>1 DEF NothingOlder
  <2>2. CASE queue' # queue
    <3>1. /\ i + 1 \in 1..Len(queue) /\ j + 1 \in 1..Len(queue) /\ i + 1 < j + 1
          /\ queue'[i] = queue[i + 1] /\ queue'[j] = queue[j + 1]
      BY <1>2, <1>4, <2>2
    <3> QED
      BY <1>4, <3>1 DEF NothingOlder
  <2> QED
    BY <2>1, <2>2
<1>5. ASSUME call'[c].at = "done", call'[c].clean
      PROVE  /\ \A j \in 1..Len(queue') :
                  queue'[j].block = "write" => ~Old(queue'[j].version)
             /\ entry' # Gone => ~Old(entry'.version)
  <2>1. CASE call'[c] = call[c]
    <3>1. \A j \in 1..Len(queue) : ~OldWrite(j)
      BY <1>5, <2>1 DEF NothingOlder
    <3>2. entry # Gone => ~Old(entry.version)
      BY <1>5, <2>1 DEF NothingOlder
    <3>3. ASSUME NEW j \in 1..Len(queue'), queue'[j].block = "write"
          PROVE  ~Old(queue'[j].version)
      BY <1>2, <3>1, <3>3
    <3>4. ASSUME entry' # Gone PROVE ~Old(entry'.version)
      <4>1. CASE entry' = entry
        BY <3>2, <3>4, <4>1
      <4>2. CASE entry' # entry
        <5>1. entry' = Effect(queue[1]) /\ 1 \in 1..Len(queue)
          BY <1>2, <4>2
        <5>2. queue[1].block = "write" /\ entry'.version = queue[1].version
          BY <3>4, <4>2, <5>1 DEF Effect
        <5> QED
          BY <3>1, <5>1, <5>2
      <4> QED
        BY <4>1, <4>2
    <3> QED
      BY <3>3, <3>4
  <2>2. CASE Answered(c)
    <3>1. /\ queue # <<>> /\ queue' = Tail(queue) /\ entry' = Effect(queue[1])
          /\ queue[1].by = c /\ queue[1].block = "del" /\ 1 \in 1..Len(queue)
      BY <1>2, <1>5, <2>2 DEF Answered, Cost, Pending
    <3>2. entry' = Gone
      BY <3>1 DEF Effect
    <3>3. \A j \in 1..Len(queue) : 1 < j => ~OldWrite(j)
      BY <3>1 DEF NothingOlder
    <3> QED
      BY <1>2, <3>1, <3>2, <3>3, HeadAndTail
  <2> QED
    BY <1>1, <2>1, <2>2
<1> QED
  BY <1>1, <1>3, <1>4, <1>5 DEF NothingOlder

LEMMA NextHolds ==
  Typed /\ Cost /\ NothingQueuedYet /\ Holds /\ [CacheNext]_cacheVars => Holds'
<1> SUFFICES ASSUME Typed, Cost, NothingQueuedYet, Holds, [CacheNext]_cacheVars PROVE Holds'
  OBVIOUS
<1>0. laps' = laps
  BY ChosenAtTheStart
<1> SUFFICES ASSUME ~laps, NEW c \in Calls, Pending(c)' PROVE NothingOlder(c)'
  BY <1>0 DEF Holds
<1> USE DEF Typed, CacheTypeOK, Call, Pending
<1>1. CASE BeginCall(c)
  <2>1. /\ call[c].at = "idle" /\ call'[c].kind = "invalidate" /\ call'[c].at = "connect"
        /\ call'[c].block = "del" /\ call'[c].since = upstream
        /\ \A d \in Calls \ {c} : call'[d] = call[d]
        /\ UNCHANGED <<queue, entry, upstream>>
    BY <1>1 DEF BeginCall, FirstBlock
  <2>2. \A d \in Calls : ~Reading(d)
    BY <1>1, <2>1 DEF BeginCall
  <2>3. \A d \in Calls : ~(call'[d].at \in {"connect", "command"} /\ call'[d].block = "write")
    BY <2>1, <2>2 DEF Cost, Reading
  <2>4. \A i \in 1..Len(queue) : queue[i].by # c
    BY <2>1 DEF NothingQueuedYet
  <2>5. upstream # Gone => ~(upstream < upstream)
    BY CacheAssumption DEF Versions
  <2> QED
    BY <2>1, <2>3, <2>4, <2>5 DEF NothingOlder
<1>2. ASSUME Pending(c), call'[c].since = call[c].since PROVE NothingOlder(c)'
  <2>1. NothingOlder(c)
    BY <1>2 DEF Holds
  <2> DEFINE Old(v) == v < call[c].since
  <2>2. ASSUME NEW d \in Calls, BeginCall(d) PROVE NothingOlder(c)'
    <3>1. /\ d # c /\ (call'[d].block # "write" \/ call'[d].at = "done")
          /\ \A e \in Calls \ {d} : call'[e] = call[e]
          /\ UNCHANGED <<queue, entry, upstream>>
      BY <1>2, <2>2 DEF BeginCall, FirstBlock
    <3> QED
      BY <1>2, <2>1, <2>2, <3>1 DEF NothingOlder, BeginCall
  <2>3. ASSUME NEW d \in Calls, GetRedis(d) PROVE NothingOlder(c)'
    <3> DEFINE e == [by |-> d, block |-> call[d].block, version |-> call[d].value,
                     born |-> call[d].born]
    <3>1. CASE queue' = Append(queue, e) /\ call' = [call EXCEPT ![d].at = "command"]
      <4>1. e \in Command /\ (e.block = "write" => ~Old(e.version)) /\ UNCHANGED <<entry, upstream>>
        BY <2>1, <2>3 DEF GetRedis, Command, NothingOlder
      <4>2. /\ \A a \in Calls : call'[a].value = call[a].value /\ call'[a].block = call[a].block
                              /\ (call'[a].at = call[a].at \/ call[a].at = "connect")
            /\ call'[c].at = "done" /\ call'[c].clean => call[c].at = "done" /\ call[c].clean
        <5>1. call[d].at = "connect"
          BY <2>3 DEF GetRedis
        <5>2. call'[d] = [call[d] EXCEPT !.at = "command"] /\ \A a \in Calls \ {d} : call'[a] = call[a]
          BY <3>1
        <5> QED
          BY <5>1, <5>2
      <4> HIDE DEF e
      <4>3. /\ Len(queue') = Len(queue) + 1 /\ Len(queue) \in Nat /\ queue'[Len(queue) + 1] = e
            /\ \A i \in 1..Len(queue) : queue'[i] = queue[i]
        BY <3>1, <4>1, Appended
      <4>4. ASSUME NEW i \in 1..Len(queue'), NEW j \in 1..Len(queue'),
                   queue'[i].by = c, queue'[i].block = "del", i < j, queue'[j].block = "write"
            PROVE  ~Old(queue'[j].version)
        <5>1. i \in 1..Len(queue) /\ queue'[i] = queue[i]
          BY <4>3, <4>4
        <5>2. CASE j \in 1..Len(queue)
          BY <2>1, <4>3, <4>4, <5>1, <5>2 DEF NothingOlder
        <5>3. CASE j = Len(queue) + 1
          BY <4>1, <4>3, <4>4, <5>3
        <5> QED
          BY <4>3, <5>2, <5>3
      <4>5. ASSUME call'[c].at = "done", call'[c].clean,
                   NEW j \in 1..Len(queue'), queue'[j].block = "write"
            PROVE  ~Old(queue'[j].version)
        <5>1. CASE j \in 1..Len(queue)
          <6>1. call[c].at = "done" /\ call[c].clean
            BY <4>2, <4>5
          <6> QED
            BY <2>1, <4>3, <4>5, <5>1, <6>1 DEF NothingOlder
        <5>2. CASE j = Len(queue) + 1
          BY <4>1, <4>3, <4>5, <5>2
        <5> QED
          BY <4>3, <5>1, <5>2
      <4>6. ASSUME call'[c].at = "done", call'[c].clean, entry # Gone PROVE ~Old(entry.version)
        BY <2>1, <4>2, <4>6 DEF NothingOlder
      <4>7. /\ upstream # Gone => ~Old(upstream)
            /\ \A a \in Calls : call'[a].at \in {"connect", "command"} /\ call'[a].block = "write"
                                => ~Old(call'[a].value)
        <5>1. upstream # Gone => ~Old(upstream)
          BY <2>1 DEF NothingOlder
        <5>2. ASSUME NEW a \in Calls, call'[a].at \in {"connect", "command"}, call'[a].block = "write"
              PROVE  ~Old(call'[a].value)
          <6>1. call[a].at \in {"connect", "command"} /\ call[a].block = "write"
                /\ call'[a].value = call[a].value
            <7>1. /\ call'[a].value = call[a].value /\ call'[a].block = call[a].block
                  /\ call'[a].at = call[a].at \/ call[a].at = "connect"
              BY <4>2
            <7> QED
              BY <5>2, <7>1
          <6> QED
            BY <2>1, <6>1 DEF NothingOlder
        <5> QED
          BY <5>1, <5>2
      <4> QED
        BY <1>2, <4>1, <4>4, <4>5, <4>6, <4>7 DEF NothingOlder
    <3>2. CASE UNCHANGED <<queue, call, entry, upstream>>
      BY <2>1, <3>2 DEF NothingOlder
    <3> QED
      BY <2>3, <3>1, <3>2 DEF GetRedis
  <2>4. ASSUME NEW d \in Calls, TimeOut(d) PROVE NothingOlder(c)'
    <3>1. /\ ~call'[d].clean /\ call'[d].at \in {"origin", "done"}
          /\ \A e \in Calls \ {d} : call'[e] = call[e]
          /\ UNCHANGED <<queue, entry, upstream>>
      BY <2>4 DEF TimeOut, AfterFailure
    <3> QED
      BY <1>2, <2>1, <3>1 DEF NothingOlder
  <2>5. ASSUME NEW d \in Calls, Origin(d) PROVE NothingOlder(c)'
    <3>1. /\ call'[d].at = "done" \/ (call'[d].value = upstream /\ upstream # Gone)
          /\ \A e \in Calls \ {d} : call'[e] = call[e]
          /\ d # c
          /\ UNCHANGED <<queue, entry, upstream>>
      BY <1>2, <2>5 DEF Origin, Cost
    <3> QED
      BY <1>2, <2>1, <3>1 DEF NothingOlder
  <2>6. CASE Execute \/ Drop
    BY <1>2, <2>1, <2>6, QueueHolds
  <2>7. CASE ListingMoves
    <3>1. UNCHANGED <<queue, entry, call>> /\ upstream' # Gone => ~Old(upstream')
      BY <1>2, <2>1, <2>7, CacheAssumption DEF ListingMoves, NothingOlder, Versions
    <3> QED
      BY <2>1, <2>7, <3>1 DEF NothingOlder, ListingMoves
  <2>8. CASE UNCHANGED <<queue, call, upstream>> /\ entry' \in {entry, Gone}
    BY <2>1, <2>8 DEF NothingOlder
  <2> QED
    BY <2>2, <2>3, <2>4, <2>5, <2>6, <2>7, <2>8
    DEF CacheNext, Connect, Forget, Tick, cacheVars
<1>3. ~BeginCall(c) => Pending(c) /\ call'[c].since = call[c].since
  <2>1. CASE Execute \/ Drop
    BY <2>1, QueueStep DEF Kept, Answered
  <2>2. ASSUME NEW d \in Calls, d # c, BeginCall(d) PROVE call'[c] = call[c]
    BY <2>2 DEF BeginCall
  <2>3. ASSUME NEW d \in Calls, GetRedis(d) \/ TimeOut(d) \/ Origin(d)
        PROVE  /\ call'[c].since = call[c].since /\ call'[c].kind = call[c].kind
               /\ call[c].at = "idle" => call'[c].at = "idle"
    <3>1. /\ call[d].at # "idle" /\ \A e \in Calls \ {d} : call'[e] = call[e]
          /\ call'[d].since = call[d].since /\ call'[d].kind = call[d].kind
      <4>1. CASE GetRedis(d) /\ call' = call
        BY <4>1 DEF GetRedis
      <4>2. CASE GetRedis(d) /\ call' = [call EXCEPT ![d].at = "command"]
        BY <4>2 DEF GetRedis
      <4>3. CASE TimeOut(d)
        BY <4>3 DEF TimeOut
      <4>4. CASE Origin(d)
        BY <4>4 DEF Origin
      <4> QED
        BY <2>3, <4>1, <4>2, <4>3, <4>4 DEF GetRedis
    <3> QED
      BY <3>1
  <2>4. CASE UNCHANGED call
    BY <2>4
  <2> QED
    BY <2>1, <2>2, <2>3, <2>4 DEF CacheNext, Connect, Forget, ListingMoves, Tick, cacheVars
<1> QED
  BY <1>1, <1>2, <1>3

-----------------------------------------------------------------------------
\* Cache never leaves its inductive invariant, for any number of calls.
THEOREM CacheInvariant == CacheSpec => [](Typed /\ Cost /\ Age /\ NothingQueuedYet /\ Holds)
<1>1. CacheInit => Typed /\ Cost /\ Age /\ NothingQueuedYet /\ Holds
  <2> SUFFICES ASSUME CacheInit PROVE Cost /\ Age /\ NothingQueuedYet /\ Holds
    BY InitTyped
  <2>1. /\ \A c \in Calls : call[c].at = "idle" /\ call[c].timeouts = 0
        /\ queue = <<>> /\ conn = "closed" /\ entry = Gone
    BY DEF CacheInit
  <2>2. Cost
    <3>1. ASSUME NEW c \in Calls PROVE call[c].timeouts <= Afforded(c)
      BY <2>1 DEF Afforded
    <3> QED
      BY <2>1, <3>1 DEF Cost
  <2>3. Age
    BY <2>1 DEF Age
  <2>4. NothingQueuedYet /\ Holds
    BY <2>1 DEF NothingQueuedYet, Holds, Pending
  <2> QED
    BY <2>2, <2>3, <2>4
<1> QED
  BY <1>1, NextTyped, NextCost, NextAge, NextNothingQueued, NextHolds, PTL DEF CacheSpec

\* redis.ts: a Redis that is not there costs a request two time-outs at most.
THEOREM OutageIsBounded == CacheSpec => []OutageCostsTwoTimeouts
<1>1. Typed /\ Cost => OutageCostsTwoTimeouts
  <2> SUFFICES ASSUME Typed, Cost, NEW c \in Calls
               PROVE  call[c].timeouts <= IF call[c].kind = "cached" THEN 2 ELSE 1
    BY DEF OutageCostsTwoTimeouts
  <2>1. call[c].timeouts \in Nat /\ call[c].at \in Stages
    BY DEF Typed, CacheTypeOK, Call, Stages
  <2>2. call[c].timeouts <= Afforded(c) /\ (call[c].at = "origin" => call[c].kind = "cached")
    BY DEF Cost
  <2>3. Afforded(c) \in Nat /\ Afforded(c) <= IF call[c].kind = "cached" THEN 2 ELSE 1
    BY <2>1, <2>2 DEF Afforded, Stages
  <2> QED
    BY <2>1, <2>2, <2>3
<1> QED
  BY <1>1, CacheInvariant, PTL

\* `cached` and `invalidate`: a hit is younger than the TTL, and what was invalidated is
\* not served again, whatever commands outlive their calls.
THEOREM Fresh == CacheSpec => []CacheIsFresh
<1>1. Typed /\ Age => FetchedWithinTTL
  BY CacheAssumption DEF Typed, CacheTypeOK, Age, FetchedWithinTTL, Hit, Held
<1>2. Typed /\ Holds => InvalidatedIsGone
  <2> SUFFICES ASSUME Typed, Holds, ~laps, entry # Gone, NEW c \in Calls,
                      call[c].kind = "invalidate", call[c].at = "done", call[c].clean,
                      call[c].since # Gone
               PROVE  entry.version >= call[c].since
    BY DEF InvalidatedIsGone
  <2>1. ~(entry.version < call[c].since)
    BY DEF Holds, Pending, NothingOlder
  <2> QED
    BY <2>1 DEF Typed, CacheTypeOK, Call, Held, Versions
<1> QED
  BY <1>1, <1>2, CacheInvariant, PTL DEF CacheIsFresh
=============================================================================
