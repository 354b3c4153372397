------------------------------- MODULE Cache -------------------------------
(***************************************************************************)
(* The read-through cache (src/lib/redis.ts) before the listing service    *)
(* (src/integrations/repliers), for one key.                               *)
(*                                                                         *)
(* Every use of Redis is a block: get the shared connection, then run one  *)
(* command, each raced against a timer.  Losing the race abandons the      *)
(* answer, not the command: it waits in the client's queue for the         *)
(* connection to come back, and is executed then.                          *)
(*                                                                         *)
(* A listing is its version.  A tick of the clock is longer than any       *)
(* request takes, and the TTL is TTL ticks.  A definition commented        *)
(* "Mutant" is a plausible bug in the definition that follows it, not part *)
(* of the model.                                                           *)
(***************************************************************************)
EXTENDS Naturals, Sequences

CONSTANTS
  Calls,        \* calls that use the key
  TTL,          \* LISTING_TTL_SECONDS, in ticks
  MaxTicks,     \* bound: ticks of the clock
  MaxVersion,   \* bound: versions of the listing
  Gone          \* no listing; nothing cached; nothing answered

ASSUME CacheAssumption ==
  /\ TTL \in Nat \ {0}
  /\ MaxTicks \in Nat
  /\ MaxVersion \in Nat
  /\ Gone \notin Nat

VARIABLES
  drops,      \* whether an open connection may drop; chosen at the start
  laps,       \* whether an invalidation may overlap a read; chosen at the start
  conn,       \* the client's connection
  queue,      \* commands given to the client and not yet executed
  entry,      \* what Redis holds under the key
  upstream,   \* the listing as the listing service has it, or Gone
  now,        \* ticks so far
  call        \* where each call is

cacheVars == <<drops, laps, conn, queue, entry, upstream, now, call>>

Versions == 0..MaxVersion

\* A value, the tick it was fetched at and the tick it expires at.
Held == [version : Versions, born : 0..MaxTicks, dies : Nat]

Kinds == {"cached", "invalidate", "ping"}

Call == [kind : Kinds,
         at : {"idle", "connect", "command", "origin", "done"},
         block : {"read", "write", "del", "ping"},
         value : Versions \cup {Gone},   \* what it was answered with, or will be
         born : 0..MaxTicks,             \* when that was fetched
         since : Versions \cup {Gone},   \* the listing when the call began
         timeouts : Nat,
         clean : BOOLEAN]                \* no block of it failed

Command == [by : Calls, block : {"read", "write", "del", "ping"},
            version : Versions \cup {Gone}, born : 0..MaxTicks]

CacheTypeOK ==
  /\ drops \in BOOLEAN /\ laps \in BOOLEAN
  /\ conn \in {"closed", "connecting", "ready", "dropped"}
  /\ queue \in Seq(Command)
  /\ entry \in Held \cup {Gone}
  /\ upstream \in Versions \cup {Gone}
  /\ now \in 0..MaxTicks
  /\ call \in [Calls -> Call]

CacheInit ==
  /\ drops \in BOOLEAN /\ laps \in BOOLEAN
  /\ conn = "closed"
  /\ queue = <<>>
  /\ entry = Gone
  /\ upstream \in {0, Gone}
  /\ now = 0
  /\ \E kind \in [Calls -> Kinds] :
       call = [c \in Calls |-> [kind |-> kind[c], at |-> "idle", block |-> "ping",
                                value |-> Gone, born |-> 0, since |-> Gone,
                                timeouts |-> 0, clean |-> TRUE]]

-----------------------------------------------------------------------------
FirstBlock(c) ==
  CASE call[c].kind = "cached"     -> "read"
    [] call[c].kind = "invalidate" -> "del"
    [] OTHER                       -> "ping"

Reading(c) == call[c].kind = "cached" /\ call[c].at \notin {"idle", "done"}

\* cached, invalidate, ping.  A blank search, or a blank number, uses neither the
\* cache nor the listing service.
BeginCall(c) ==
  /\ call[c].at = "idle"
  /\ ~laps /\ call[c].kind = "invalidate" => \A d \in Calls : ~Reading(d)
  /\ \/ call' = [call EXCEPT ![c].at = "connect", ![c].block = FirstBlock(c),
                             ![c].since = upstream]
     \/ call[c].kind = "cached" /\ call' = [call EXCEPT ![c].at = "done"]
  /\ UNCHANGED <<drops, laps, conn, queue, entry, upstream, now>>

\* getRedis: the first caller opens the connection and the others wait for the same
\* attempt; a client that is open is handed out at once, connected or not.
GetRedis(c) ==
  /\ call[c].at = "connect"
  /\ \/ /\ conn = "closed"
        /\ conn' = "connecting"
        /\ UNCHANGED <<queue, call>>
     \/ /\ conn \in {"ready", "dropped"}
        /\ queue' = Append(queue, [by |-> c, block |-> call[c].block,
                                   version |-> call[c].value, born |-> call[c].born])
        /\ call' = [call EXCEPT ![c].at = "command"]
        /\ UNCHANGED conn
  /\ UNCHANGED <<drops, laps, entry, upstream, now>>

\* Where a call goes when a block of it has failed: a read that failed is a miss.
AfterFailure(c) == IF call[c].block = "read" THEN "origin" ELSE "done"

\* Mutant: connecting is not raced against a timer.
TimeOut_CommandsOnly(c) ==
  /\ call[c].at = "command"
  /\ call' = [call EXCEPT ![c].timeouts = @ + 1, ![c].clean = FALSE, ![c].at = AfterFailure(c)]
  /\ UNCHANGED <<drops, laps, conn, queue, entry, upstream, now>>

\* Mutant: a connection that timed out is waited for once more by the command.
TimeOut_EachAwait(c) ==
  /\ call[c].at \in {"connect", "command"}
  /\ call' = [call EXCEPT ![c].timeouts = @ + 1, ![c].clean = FALSE,
                          ![c].at = IF @ = "connect" THEN "command" ELSE AfterFailure(c)]
  /\ UNCHANGED <<drops, laps, conn, queue, entry, upstream, now>>

\* withTimeout: the block is given up; a command already in the queue stays there.
TimeOut(c) ==
  /\ call[c].at \in {"connect", "command"}
  /\ call' = [call EXCEPT ![c].timeouts = @ + 1, ![c].clean = FALSE, ![c].at = AfterFailure(c)]
  /\ UNCHANGED <<drops, laps, conn, queue, entry, upstream, now>>

\* Mutant: that there is no such listing is cached, too.
Origin_CachesAbsence(c) ==
  /\ call[c].at = "origin"
  /\ \/ call' = [call EXCEPT ![c].value = upstream, ![c].born = now,
                             ![c].at = "connect", ![c].block = "write"]
     \/ call' = [call EXCEPT ![c].at = "done"]
  /\ UNCHANGED <<drops, laps, conn, queue, entry, upstream, now>>

\* fn: a version; no such listing (404), which is not cached; or an error, which
\* ends the call (it is answered with 502, or 500).
Origin(c) ==
  /\ call[c].at = "origin"
  /\ \/ /\ upstream # Gone
        /\ call' = [call EXCEPT ![c].value = upstream, ![c].born = now,
                                ![c].at = "connect", ![c].block = "write"]
     \/ call' = [call EXCEPT ![c].at = "done"]
  /\ UNCHANGED <<drops, laps, conn, queue, entry, upstream, now>>

-----------------------------------------------------------------------------
(* The client and Redis. *)

Hit == entry # Gone /\ now < entry.dies

Awaited(m) == call[m.by].at = "command" /\ call[m.by].block = m.block

\* What Redis holds after a command.
\* Mutant: a hit renews the expiry.
Effect_Renews(m) ==
  CASE m.block = "write" -> [version |-> m.version, born |-> m.born, dies |-> now + TTL]
    [] m.block = "del"   -> Gone
    [] m.block = "read" /\ Hit -> [entry EXCEPT !.dies = now + TTL]
    [] OTHER             -> entry

Effect(m) ==
  CASE m.block = "write" -> [version |-> m.version, born |-> m.born, dies |-> now + TTL]
    [] m.block = "del"   -> Gone
    [] OTHER             -> entry

\* The call a reply goes to, if it still waits: a hit ends a read and a miss goes to
\* the origin; the replies to the other commands end the call.
Replied(m) ==
  IF ~Awaited(m) THEN call
  ELSE IF m.block # "read" THEN [call EXCEPT ![m.by].at = "done"]
  ELSE IF ~Hit THEN [call EXCEPT ![m.by].at = "origin"]
  ELSE [call EXCEPT ![m.by].at = "done", ![m.by].value = entry.version,
                    ![m.by].born = entry.born]

Execute ==
  /\ conn = "ready" /\ queue # <<>>
  /\ entry' = Effect(Head(queue))
  /\ call' = Replied(Head(queue))
  /\ queue' = Tail(queue)
  /\ UNCHANGED <<drops, laps, conn, upstream, now>>

Connect ==
  /\ conn \in {"connecting", "dropped"}
  /\ conn' = "ready"
  /\ UNCHANGED <<drops, laps, queue, entry, upstream, now, call>>

\* The connection drops.  The command it was carrying may have been executed or not,
\* and fails; those behind it wait.
Drop ==
  /\ drops /\ conn = "ready"
  /\ conn' = "dropped"
  /\ \/ UNCHANGED <<queue, entry, call>>
     \/ /\ queue # <<>>
        /\ LET m == Head(queue)
           IN /\ entry' \in {entry, Effect(m)}
              /\ call' = IF Awaited(m)
                         THEN [call EXCEPT ![m.by].at = AfterFailure(m.by), ![m.by].clean = FALSE]
                         ELSE call
        /\ queue' = Tail(queue)
  /\ UNCHANGED <<drops, laps, upstream, now>>

\* Redis restarts, or needs the room.
Forget ==
  /\ entry # Gone
  /\ entry' = Gone
  /\ UNCHANGED <<drops, laps, conn, queue, upstream, now, call>>

\* The listing is changed, taken down or put up.
ListingMoves ==
  /\ upstream' \in IF upstream = Gone THEN {MaxVersion}
                   ELSE IF upstream < MaxVersion THEN {upstream + 1, Gone} ELSE {}
  /\ UNCHANGED <<drops, laps, conn, queue, entry, now, call>>

\* Hours pass; a Redis that is there has answered what it was asked.
Tick ==
  /\ now < MaxTicks
  /\ \A c \in Calls : call[c].at \in {"idle", "done"}
  /\ conn = "ready" => queue = <<>>
  /\ now' = now + 1
  /\ UNCHANGED <<drops, laps, conn, queue, entry, upstream, call>>

CacheNext ==
  \/ \E c \in Calls : BeginCall(c) \/ GetRedis(c) \/ TimeOut(c) \/ Origin(c)
  \/ Execute \/ Connect \/ Drop \/ Forget \/ ListingMoves \/ Tick

\* Timers fire and the listing service answers or times out.  Nothing is assumed of
\* Redis: it need never connect nor reply.
CacheFairness == \A c \in Calls : WF_cacheVars(TimeOut(c)) /\ WF_cacheVars(Origin(c))

CacheSpec == CacheInit /\ [][CacheNext]_cacheVars /\ CacheFairness

-----------------------------------------------------------------------------
\* However Redis fails, a request pays for it with at most two time-outs: one before
\* it asks the listing service and one after.
OutageCostsTwoTimeouts ==
  \A c \in Calls : call[c].timeouts <= IF call[c].kind = "cached" THEN 2 ELSE 1

\* A request answered from the cache is answered with what the listing service said
\* less than a TTL ago, unless the connection dropped and the write waited for it.
FetchedWithinTTL == ~drops /\ Hit => now - entry.born < TTL

\* Once an invalidation has gone through, what was there before it is not served
\* again, by calls that time out, or writes that were left in the queue either; unless
\* a read was under way when it began.
InvalidatedIsGone ==
  ~laps /\ entry # Gone =>
    \A c \in Calls :
      /\ call[c].kind = "invalidate" /\ call[c].at = "done" /\ call[c].clean
      /\ call[c].since # Gone
      => entry.version >= call[c].since

\* What is read from the cache is neither too old nor known to be out of date.
CacheIsFresh == FetchedWithinTTL /\ InvalidatedIsGone

\* Every call is answered, though Redis never is.
CallIsAnswered ==
  \A c \in Calls : call[c].at = "connect" ~> call[c].at = "done"
=============================================================================
