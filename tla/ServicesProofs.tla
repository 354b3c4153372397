--------------------------- MODULE ServicesProofs ---------------------------
(***************************************************************************)
(* What Server and Subscriptions keep, and that the composition of the     *)
(* services implements each of them and Cache.                             *)
(*                                                                         *)
(* Server, for any number of requests: a session named after a login is    *)
(* stored by that login alone, once, because nobody else can hold its name *)
(* before it is stored: so one that was ended stays so.                    *)
(*                                                                         *)
(* Subscriptions, for any list of events, any account and any number of    *)
(* runs: a run goes by the list it began with, so what it has not come to  *)
(* is as it saw it, less what signNow has given up since, and what it has  *)
(* left is settled unless a call failed.                                   *)
(***************************************************************************)
EXTENDS MCServices, CacheProofs

-----------------------------------------------------------------------------
(* Server *)

LEMMA InitServerTypeOK == ServerInit => ServerTypeOK
BY ServerAssumption DEF ServerInit, ServerTypeOK, Hit_, Sids

LEMMA NextServerTypeOK == ServerTypeOK /\ [ServerNext]_serverVars => ServerTypeOK'
<1> SUFFICES ASSUME ServerTypeOK, [ServerNext]_serverVars PROVE ServerTypeOK'
  OBVIOUS
<1> USE DEF ServerTypeOK, Hit_, Sids
<1>1. ASSUME NEW h \in Hits, Arrive(h) PROVE ServerTypeOK'
  <2> DEFINE sid == IF cookie # Nil /\ session[cookie] = "live" THEN cookie ELSE Nil
             place == CASE hit[h].kind = "login"  -> "verify"
                        [] hit[h].kind = "logout" -> "destroy"
                        [] OTHER                  -> "guard"
  <2>1. sid \in Sids /\ place \in {"verify", "destroy", "guard"}
    OBVIOUS
  <2>2. hit' = [hit EXCEPT ![h] = [@ EXCEPT !.sid = sid, !.at = place]]
    BY <1>1 DEF Arrive
  <2> QED
    BY <1>1, <2>1, <2>2 DEF Arrive
<1>2. ASSUME NEW h \in Hits, Verify(h) \/ Regenerate(h) \/ SaveSession(h) \/ Destroy(h)
      PROVE  ServerTypeOK'
  BY <1>2 DEF Verify, Regenerate, SaveSession, Destroy, ServerGoto, Destroyed
<1>3. ASSUME NEW h \in Hits, Guard(h) \/ Handle(h) \/ Throw(h) \/ Abandon(h) PROVE ServerTypeOK'
  BY <1>3 DEF Guard, Handle, Throw, Abandon, ServerGoto, Destroyed
<1>4. ASSUME NEW h \in Hits, Answer(h) PROVE ServerTypeOK'
  BY <1>4 DEF Answer, ServerGoto, CookieAfter
<1>5. CASE RemoveAgent \/ Signal \/ CloseClients
  BY <1>5 DEF RemoveAgent, Signal, CloseClients
<1>6. CASE ExitClean \/ ExitForced
  <2>1. Cut \in [Hits -> Hit_]
    <3>1. ASSUME NEW h \in Hits PROVE [hit[h] EXCEPT !.at = IF InFlight(h) THEN "cut" ELSE @] \in Hit_
      OBVIOUS
    <3> QED
      BY <3>1 DEF Cut
  <2> QED
    BY <1>6, <2>1 DEF ExitClean, ExitForced, Exit
<1>7. CASE UNCHANGED serverVars
  BY <1>7 DEF serverVars
<1> QED
  BY <1>1, <1>2, <1>3, <1>4, <1>5, <1>6, <1>7 DEF ServerNext

-----------------------------------------------------------------------------
\* Before a login stores its session there is none of that name, and nobody else has
\* the name; a request's session is one that was stored, or its own.
NamesAreFresh ==
  /\ cookie # Nil => session[cookie] # "absent"
  /\ \A h \in Hits :
       /\ hit[h].at \in {"idle", "verify", "regenerate", "save"} => session[h] = "absent"
       /\ hit[h].at = "idle" => hit[h].sid = Nil
       /\ hit[h].at = "save" => hit[h].sid = h
       /\ hit[h].sid = h => hit[h].at \in {"save", "answer", "answered", "cut"}
       /\ hit[h].sid \notin {Nil, h} => session[hit[h].sid] # "absent"
       /\ hit[h].sid = h => hit[h].kind = "login"
       /\ hit[h].at \in {"verify", "regenerate", "save"} => hit[h].kind = "login" /\ ~hit[h].ok
       /\ hit[h].at = "idle" => ~hit[h].ok
       /\ hit[h].sid = h /\ hit[h].ok => session[h] # "absent"

LEMMA InitNamesAreFresh == ServerInit => NamesAreFresh
BY ServerAssumption DEF ServerInit, NamesAreFresh

LEMMA NextNamesAreFresh ==
  ServerTypeOK /\ NamesAreFresh /\ [ServerNext]_serverVars => NamesAreFresh' /\ SessionsStayEnded
<1> SUFFICES ASSUME ServerTypeOK, NamesAreFresh, [ServerNext]_serverVars
             PROVE  NamesAreFresh' /\ SessionsStayEnded
  OBVIOUS
<1> USE ServerAssumption DEF ServerTypeOK, Hit_, Sids, NamesAreFresh, SessionsStayEnded
<1>1. ASSUME NEW h \in Hits, Arrive(h) PROVE NamesAreFresh' /\ SessionsStayEnded
  <2> DEFINE sid == IF cookie # Nil /\ session[cookie] = "live" THEN cookie ELSE Nil
             place == CASE hit[h].kind = "login"  -> "verify"
                        [] hit[h].kind = "logout" -> "destroy"
                        [] OTHER                  -> "guard"
  <2>1. sid # h /\ sid \in Sids /\ (sid # Nil => session[sid] # "absent")
    BY <1>1 DEF Arrive
  <2>2. place \in {"verify", "destroy", "guard"} /\ (place = "verify" => hit[h].kind = "login")
    OBVIOUS
  <2>3. hit' = [hit EXCEPT ![h] = [@ EXCEPT !.sid = sid, !.at = place]]
    BY <1>1 DEF Arrive
  <2> QED
    BY <1>1, <2>1, <2>2, <2>3 DEF Arrive
<1>2. ASSUME NEW h \in Hits, Verify(h) PROVE NamesAreFresh' /\ SessionsStayEnded
  BY <1>2 DEF Verify, At, ServerGoto
<1>3. ASSUME NEW h \in Hits, Regenerate(h) PROVE NamesAreFresh' /\ SessionsStayEnded
  BY <1>3 DEF Regenerate, At, Destroyed
<1>4. ASSUME NEW h \in Hits, SaveSession(h) PROVE NamesAreFresh' /\ SessionsStayEnded
  BY <1>4 DEF SaveSession, At
<1>5. ASSUME NEW h \in Hits, Destroy(h) PROVE NamesAreFresh' /\ SessionsStayEnded
  BY <1>5 DEF Destroy, At, Destroyed
<1>6. ASSUME NEW h \in Hits, Guard(h) PROVE NamesAreFresh' /\ SessionsStayEnded
  BY <1>6 DEF Guard, At, ServerGoto, Destroyed
<1>7. ASSUME NEW h \in Hits, Handle(h) \/ Throw(h) \/ Abandon(h)
      PROVE  NamesAreFresh' /\ SessionsStayEnded
  BY <1>7 DEF Handle, Throw, Abandon, At, ServerGoto
<1>8. ASSUME NEW h \in Hits, Answer(h) PROVE NamesAreFresh' /\ SessionsStayEnded
  <2>1. cookie' # Nil => session[cookie'] # "absent"
    <3>1. cookie' \in {cookie, Nil} \/ (cookie' = hit[h].sid /\ (hit[h].kind = "login" => hit[h].ok))
      BY <1>8 DEF Answer, CookieAfter
    <3>2. hit[h].sid # Nil /\ (hit[h].kind = "login" => hit[h].ok) => session[hit[h].sid] # "absent"
      BY <1>8
    <3> QED
      BY <3>1, <3>2
  <2> QED
    BY <1>8, <2>1 DEF Answer, At, ServerGoto
<1>9. CASE RemoveAgent \/ Signal \/ CloseClients \/ UNCHANGED serverVars
  BY <1>9 DEF RemoveAgent, Signal, CloseClients, serverVars
<1>10. CASE ExitClean \/ ExitForced
  <2>1. /\ UNCHANGED <<session, cookie>>
        /\ \A h \in Hits : /\ hit'[h].kind = hit[h].kind /\ hit'[h].sid = hit[h].sid
                          /\ hit'[h].ok = hit[h].ok /\ hit'[h].at \in {hit[h].at, "cut"}
    BY <1>10 DEF ExitClean, ExitForced, Exit, Cut
  <2> QED
    BY <2>1
<1> QED
  BY <1>1, <1>2, <1>3, <1>4, <1>5, <1>6, <1>7, <1>8, <1>9, <1>10 DEF ServerNext

\* Server never leaves its inductive invariant, for any number of requests.
THEOREM ServerInvariant == ServerSpec => [](ServerTypeOK /\ NamesAreFresh)
<1>1. ServerInit => ServerTypeOK /\ NamesAreFresh
  BY InitServerTypeOK, InitNamesAreFresh
<1>2. ServerTypeOK /\ NamesAreFresh /\ [ServerNext]_serverVars => (ServerTypeOK /\ NamesAreFresh)'
  BY NextServerTypeOK, NextNamesAreFresh
<1> QED
  BY <1>1, <1>2, PTL DEF ServerSpec

\* login, logout, requireAgent and `resave: false`: a session that was ended is not
\* brought back by a request that was under way.
THEOREM EndedForGood == ServerSpec => NoSessionComesBack
<1>1. ServerTypeOK /\ NamesAreFresh /\ [ServerNext]_serverVars => [SessionsStayEnded]_serverVars
  BY NextNamesAreFresh
<1> QED
  BY <1>1, ServerInvariant, PTL DEF ServerSpec, NoSessionComesBack

-----------------------------------------------------------------------------
\* shutdown: the clients are closed when nothing is in flight, and nothing comes in
\* after (index.ts: "Stop accepting connections, then close the clients").
Orderly == ~clients => process \in {"closed", "exited"} /\ \A h \in Hits : ~InFlight(h)

LEMMA NextOrderly == ServerTypeOK /\ Orderly /\ [ServerNext]_serverVars => Orderly'
<1> SUFFICES ASSUME ServerTypeOK, Orderly, [ServerNext]_serverVars, ~clients'
             PROVE  process' \in {"closed", "exited"} /\ \A h \in Hits : ~InFlight(h)'
  BY DEF Orderly
<1> USE DEF ServerTypeOK, Hit_, InFlight, Orderly
<1>1. CASE CloseClients
  BY <1>1 DEF CloseClients
<1>2. CASE ExitClean \/ ExitForced
  BY <1>2 DEF ExitClean, ExitForced, Exit, Cut
<1>3. CASE RemoveAgent \/ Signal \/ UNCHANGED serverVars
  BY <1>3 DEF RemoveAgent, Signal, serverVars
<1>4. ASSUME NEW h \in Hits,
             \/ Arrive(h) \/ Verify(h) \/ Regenerate(h) \/ SaveSession(h) \/ Destroy(h)
             \/ Guard(h) \/ Handle(h) \/ Throw(h) \/ Answer(h) \/ Abandon(h)
      PROVE  FALSE
  <2>1. ~clients
    BY <1>4 DEF Arrive, Verify, Regenerate, SaveSession, Destroy, Guard, Handle, Throw, Answer,
                Abandon
  <2> QED
    BY <1>4, <2>1 DEF Arrive, Verify, Regenerate, SaveSession, Destroy, Guard, Handle, Throw,
                      Answer, Abandon, At
<1> QED
  BY <1>1, <1>2, <1>3, <1>4 DEF ServerNext

\* A stop that is not forced turns no request into a failure: the clients are open as
\* long as any request might use them.
THEOREM ClientsLast == ServerSpec => []ClientsOutliveRequests
<1>1. ServerInit => Orderly
  BY DEF ServerInit, Orderly
<1>2. Orderly => ClientsOutliveRequests
  BY DEF Orderly, ClientsOutliveRequests
<1> QED
  BY <1>1, <1>2, NextOrderly, ServerInvariant, PTL DEF ServerSpec

-----------------------------------------------------------------------------
(* Subscriptions: the invariant of a run *)

LEMMA EventsAre ==
  /\ Len(Events) \in Nat /\ DOMAIN Events = 1..Len(Events)
  /\ \A i, j \in DOMAIN Events : Events[i] = Events[j] => i = j
  /\ Other \notin Names /\ "none" \notin Names /\ Other # "none"
  /\ Slots \in Nat /\ MaxSyncs \in Nat
<1> DEFINE Ours == {Events[i] : i \in DOMAIN Events}
<1>1. Len(Events) \in Nat /\ DOMAIN Events = 1..Len(Events)
  <2>1. Events \in Seq(Ours)
    BY SubscriptionsAssumption
  <2> HIDE DEF Ours
  <2> QED
    BY <2>1
<1>2. Other \notin Names /\ "none" \notin Names /\ Other # "none"
  <2>1. Names = Ours /\ {Other, "none"} \cap Ours = {} /\ Other # "none"
    BY SubscriptionsAssumption DEF Names
  <2> HIDE DEF Ours
  <2> QED
    BY <2>1
<1> QED
  BY <1>1, <1>2, SubscriptionsAssumption

\* What a run keeps of an event.
Keeps(event) == Of(seen, event) \ Surplus(event)

\* An event with what it should have; if signNow has given one up since, nothing twice.
Settled(event) ==
  /\ \A i, j \in Of(subs, event) : i = j
  /\ event \notin lost => Correct(subs, event) # {}

\* An event as the run saw it; if signNow has given one up since, nothing more than that.
Untouched(event) ==
  \A i \in Places :
    /\ subs[i].event = event => seen[i].event = event
    /\ seen[i].event = event => subs[i].event \in {event, "none"}
    /\ seen[i].event = event /\ event \notin lost => subs[i] = seen[i]

\* While the run is at an event, what it keeps and what it still has to remove are as it
\* saw them, unless signNow has given one up; if nothing has failed there is nothing else.
AtEvent(event) ==
  /\ sync.removing \subseteq Surplus(event)
  /\ \A i \in sync.removing : subs[i].event \in {event, "none"}
  /\ event \notin lost => \A i \in Keeps(event) \cup sync.removing : subs[i] = seen[i]
  /\ sync.then = "create" <=> Correct(seen, event) = {}
  /\ ~failed => Of(subs, event) \subseteq Keeps(event) \cup sync.removing

AllSettled(n) == \A m \in DOMAIN Events : m < n => Settled(Events[m])

\* Between two events of a run.
InEvents ==
  sync.at = "event" =>
    /\ \A event \in Ahead : Untouched(event)
    /\ ~failed => AllSettled(sync.next)

\* At one event: removing, and then creating.
InRemoves ==
  sync.at = "remove" /\ sync.then \in {"event", "create"} =>
    /\ sync.next - 1 \in DOMAIN Events
    /\ \A event \in Ahead : Untouched(event)
    /\ AtEvent(Events[sync.next - 1])
    /\ ~failed => AllSettled(sync.next - 1)

InCreate ==
  sync.at = "create" =>
    /\ sync.next - 1 \in DOMAIN Events
    /\ \A event \in Ahead : Untouched(event)
    /\ ~failed => Of(subs, Events[sync.next - 1]) = {} /\ AllSettled(sync.next - 1)

\* Removing what is none of ours, and after it.
InPrune ==
  sync.at = "remove" /\ sync.then = "done" =>
    /\ \A i \in sync.removing : subs[i].event \in {Other, "none"}
    /\ ~failed => AllSettled(Len(Events) + 1)

AtDone == sync.at = "done" /\ ~failed => AllSettled(Len(Events) + 1)

SyncInv ==
  /\ SubsTypeOK
  /\ sync.at = "list" => sync.next = 1
  /\ InEvents /\ InRemoves /\ InCreate /\ InPrune /\ AtDone

LEMMA KeepsIs ==
  ASSUME SubsTypeOK, NEW event
  PROVE  /\ Surplus(event) \subseteq Of(seen, event)
         /\ Correct(seen, event) \subseteq Of(seen, event)
         /\ IF Correct(seen, event) = {} THEN Keeps(event) = {}
            ELSE \E i \in Correct(seen, event) : Keeps(event) = {i}
         /\ Keeps(event) = Of(seen, event) \ Surplus(event)
<1>1. Of(seen, event) \subseteq Places /\ Correct(seen, event) \subseteq Of(seen, event)
  BY DEF Of, Correct
<1>2. CASE Correct(seen, event) = {}
  BY <1>1, <1>2 DEF Keeps, Surplus
<1>3. CASE Correct(seen, event) # {}
  <2>0. Correct(seen, event) \in SUBSET Nat
    BY <1>1, EventsAre DEF Places
  <2>1. Min(Correct(seen, event)) \in Correct(seen, event)
    BY <2>0, <1>3, MinIs
  <2> QED
    BY <1>1, <1>3, <2>1 DEF Keeps, Surplus
<1> QED
  BY <1>2, <1>3

LEMMA InitSyncInv == SubsInit => SyncInv
<1> SUFFICES ASSUME SubsInit PROVE SyncInv
  OBVIOUS
<1>1. sync \in Run
  BY EventsAre DEF SubsInit, Run, Turns
<1>2. syncs \in 0..MaxSyncs
  BY EventsAre DEF SubsInit
<1>3. SubsTypeOK
  BY <1>1, <1>2 DEF SubsInit, SubsTypeOK
<1> QED
  BY <1>3 DEF SubsInit, SyncInv, InEvents, InRemoves, InCreate, InPrune, AtDone

\* The place RemoveOne removes.
LEMMA RemovedIs ==
  ASSUME SubsTypeOK, sync.removing # {}
  PROVE  Min(sync.removing) \in sync.removing /\ Min(sync.removing) \in Places
<1>1. sync.removing \in SUBSET Nat /\ sync.removing \subseteq Places
  BY EventsAre DEF SubsTypeOK, Run, Places
<1> QED
  BY <1>1, MinIs

LEMMA SubIs ==
  ASSUME NEW E, NEW C, NEW r \in [event : E, correct : C]
  PROVE  r = [event |-> r.event, correct |-> r.correct]
OBVIOUS

LEMMA FreeStays == [Free EXCEPT !.correct = FALSE] = Free
<1> DEFINE Given == [Free EXCEPT !.correct = FALSE]
<1>1. Given \in [event : {"none"}, correct : {FALSE}]
  BY DEF Free
<1>2. Given.event = "none" /\ Given.correct = FALSE
  BY <1>1
<1> HIDE DEF Given
<1>3. Given = [event |-> "none", correct |-> FALSE]
  BY <1>1, <1>2, SubIs
<1> QED
  BY <1>3 DEF Free, Given

LEMMA NextSubsTypeOK == SyncInv /\ [SubsNext]_subsVars => SubsTypeOK'
<1> SUFFICES ASSUME SyncInv, [SubsNext]_subsVars PROVE SubsTypeOK'
  OBVIOUS
<1>0. SubsTypeOK /\ (sync.at = "create" => sync.next - 1 \in DOMAIN Events)
  BY DEF SyncInv, InCreate
<1>1. 1 \in Turns /\ (sync.next <= Len(Events) => sync.next + 1 \in Turns)
  BY <1>0, EventsAre DEF Turns, Run, SubsTypeOK
<1>2. Surplus(Events[sync.next]) \subseteq Places /\ Of(seen, Other) \subseteq Places
  BY <1>0, KeepsIs DEF Of
<1> USE <1>0 DEF SubsTypeOK
<1>3. CASE StartSync
  <2>1. syncs' \in 0..MaxSyncs
    BY <1>3, EventsAre DEF StartSync
  <2> QED
    BY <1>3, <1>1, <2>1 DEF StartSync, Run
<1>4. CASE ListAll
  BY <1>4 DEF ListAll, Run
<1>5. CASE NextEvent
  BY <1>5, <1>1, <1>2 DEF NextEvent, Run
<1>6. CASE Prune
  <2>1. PICK pruned \in SUBSET Places :
          sync' = [sync EXCEPT !.at = "remove", !.removing = pruned, !.then = "done"]
    BY <1>6, <1>2 DEF Prune
  <2>2. sync' \in Run
    BY <2>1 DEF Run
  <2> QED
    BY <1>6, <2>2 DEF Prune
<1>7. CASE RemoveOne
  <2>1. sync' \in {[sync EXCEPT !.removing = @ \ {Min(sync.removing)}],
                  [sync EXCEPT !.at = "done", !.removing = {}]}
    BY <1>7 DEF RemoveOne
  <2>2. sync.removing \ {Min(sync.removing)} \in SUBSET Places
    BY DEF Run
  <2>3. sync' \in Run
    BY <2>1, <2>2 DEF Run
  <2>4. subs' \in Accounts /\ failed' \in BOOLEAN
    BY <1>7 DEF RemoveOne, Accounts
  <2> QED
    BY <1>7, <2>3, <2>4 DEF RemoveOne
<1>8. CASE Removed
  BY <1>8 DEF Removed, Run
<1>9. CASE Create
  <2>1. [event |-> Events[sync.next - 1], correct |-> TRUE] \in Sub
    BY <1>0, <1>9 DEF Sub, Create, Names
  <2>2. subs' \in Accounts /\ failed' \in BOOLEAN
    BY <1>9, <2>1 DEF Create, Added, Accounts
  <2>3. sync' \in Run
    BY <1>9 DEF Create, Run
  <2> QED
    BY <1>9, <2>2, <2>3 DEF Create
<1>10. CASE GivenUp
  <2>1. PICK i \in Places :
          /\ subs[i] # Free
          /\ \E left \in {Free, [subs[i] EXCEPT !.correct = FALSE]} : subs' = [subs EXCEPT ![i] = left]
          /\ lost' = lost \cup {subs[i].event}
    BY <1>10 DEF GivenUp
  <2>2. subs[i] \in Sub
    BY <2>1 DEF Accounts
  <2>3. subs[i].event \in Names \cup {Other} /\ [subs[i] EXCEPT !.correct = FALSE] \in Sub
    BY <2>2 DEF Sub
  <2>4. subs' \in Accounts
    BY <2>1, <2>3 DEF Accounts
  <2> QED
    BY <1>10, <2>1, <2>3, <2>4 DEF GivenUp
<1>12. CASE NewUrl
  <2>1. \A r \in Sub : [r EXCEPT !.correct = FALSE] \in Sub
    BY DEF Sub
  <2>2. \A i \in Places : [subs[i] EXCEPT !.correct = FALSE] \in Sub \cup {Free}
    <3> SUFFICES ASSUME NEW i \in Places PROVE [subs[i] EXCEPT !.correct = FALSE] \in Sub \cup {Free}
      OBVIOUS
    <3>1. subs[i] \in Sub \/ subs[i] = Free
      BY DEF Accounts
    <3> QED
      BY <3>1, <2>1, FreeStays
  <2>3. subs' \in Accounts
    BY <1>12, <2>2 DEF NewUrl, Accounts
  <2>4. sync' \in Run
    BY <1>12 DEF NewUrl, Run
  <2> QED
    BY <1>12, <2>3, <2>4 DEF NewUrl
<1>11. CASE UNCHANGED subsVars
  BY <1>11 DEF subsVars
<1> QED
  BY <1>3, <1>4, <1>5, <1>6, <1>7, <1>8, <1>9, <1>10, <1>11, <1>12 DEF SubsNext

\* What a step that leaves the account alone leaves as it was.
LEMMA SameAccount ==
  ASSUME UNCHANGED <<subs, seen, lost>>
  PROVE  /\ \A event : Untouched(event)' = Untouched(event)
         /\ \A event : Keeps(event)' = Keeps(event) /\ Surplus(event)' = Surplus(event)
         /\ \A event : Correct(seen, event)' = Correct(seen, event)
         /\ \A event : Of(subs, event)' = Of(subs, event)
         /\ \A n : AllSettled(n)' = AllSettled(n)
BY DEF Untouched, Settled, Keeps, Surplus, Of, Correct, AllSettled

\* A step at one event: what is ahead of it stays untouched and what is behind it settled,
\* because what the step changes is of this event before and after it.
LEMMA OthersStay ==
  ASSUME SubsTypeOK, UNCHANGED <<seen, sync.next, lost>>, NEW event,
         \A i \in Places : subs'[i] # subs[i] =>
           subs[i].event \in {event, "none"} /\ subs'[i].event \in {event, "none"}
  PROVE  /\ \A e : e # event /\ e # "none" => Of(subs, e)' = Of(subs, e)
         /\ \A e : e # event /\ e # "none" /\ Settled(e) => Settled(e)'
<1>1. \A e : e # event /\ e # "none" =>
        Of(subs, e)' = Of(subs, e) /\ Correct(subs, e)' = Correct(subs, e)
  BY DEF Of, Correct
<1> QED
  BY <1>1 DEF Settled

\* The event a run is at is behind what is ahead, and ahead of what is behind.
LEMMA AtIs ==
  ASSUME SubsTypeOK, sync.next - 1 \in DOMAIN Events
  PROVE  /\ Events[sync.next - 1] \notin Ahead
         /\ \A m \in DOMAIN Events : m < sync.next - 1 => Events[m] # Events[sync.next - 1]
         /\ Events[sync.next - 1] # "none" /\ "none" \notin Ahead
  BY EventsAre DEF Ahead, Names, SubsTypeOK, Run, Turns

LEMMA StartSyncInv == SyncInv /\ SubsTypeOK' /\ StartSync => SyncInv'
BY DEF SyncInv, StartSync, SubsTypeOK, Run, InEvents, InRemoves, InCreate, InPrune, AtDone

LEMMA GivenUpIs ==
  ASSUME SubsTypeOK, GivenUp
  PROVE  \E i \in Places :
           /\ \A j \in Places : j # i => subs'[j] = subs[j]
           /\ subs'[i].event \in {subs[i].event, "none"}
           /\ lost' = lost \cup {subs[i].event}
<1>1. PICK i \in Places :
        /\ \E left \in {Free, [subs[i] EXCEPT !.correct = FALSE]} : subs' = [subs EXCEPT ![i] = left]
        /\ lost' = lost \cup {subs[i].event}
  BY DEF GivenUp
<1>2. PICK left \in {Free, [subs[i] EXCEPT !.correct = FALSE]} : subs' = [subs EXCEPT ![i] = left]
  BY <1>1
<1>3. left.event \in {subs[i].event, "none"}
  BY DEF SubsTypeOK, Accounts, Sub, Free
<1> QED
  BY <1>1, <1>2, <1>3 DEF SubsTypeOK, Accounts

\* What signNow gives up during a run leaves of every event what the run may rely on.
LEMMA Shrinks ==
  ASSUME SubsTypeOK, GivenUp, NEW event, event # "none"
  PROVE  /\ Of(subs, event)' \subseteq Of(subs, event)
         /\ Untouched(event) => Untouched(event)'
         /\ Settled(event) => Settled(event)'
         /\ AtEvent(event) => AtEvent(event)'
<1>1. PICK i \in Places :
        /\ \A j \in Places : j # i => subs'[j] = subs[j]
        /\ subs'[i].event \in {subs[i].event, "none"}
        /\ lost' = lost \cup {subs[i].event}
  BY GivenUpIs
<1>2. /\ \A j \in Places : j # i => subs'[j] = subs[j]
      /\ subs'[i].event \in {subs[i].event, "none"}
      /\ UNCHANGED <<seen, sync, failed>>
  BY <1>1 DEF GivenUp
<1>3. event \notin lost' => event \notin lost /\ subs[i].event # event
  BY <1>1
<1>4. Of(subs, event)' \subseteq Of(subs, event)
  BY <1>2 DEF Of
<1>5. ASSUME Untouched(event) PROVE Untouched(event)'
  BY <1>2, <1>3, <1>5 DEF Untouched
<1>6. ASSUME Settled(event) PROVE Settled(event)'
  <2>1. event \notin lost' => Correct(subs, event) \subseteq Correct(subs, event)'
    BY <1>2, <1>3 DEF Correct, Of
  <2> QED
    BY <1>3, <1>4, <1>6, <2>1 DEF Settled
<1>7. ASSUME AtEvent(event) PROVE AtEvent(event)'
  <2>1. /\ Keeps(event)' = Keeps(event) /\ Surplus(event)' = Surplus(event)
        /\ Correct(seen, event)' = Correct(seen, event)
    BY <1>2 DEF Keeps, Surplus, Of, Correct
  <2>2. Keeps(event) \cup sync.removing \subseteq Of(seen, event)
    BY <1>7, KeepsIs DEF AtEvent
  <2>3. event \notin lost' => \A j \in Keeps(event) \cup sync.removing : subs'[j] = seen[j]
    <3> SUFFICES ASSUME event \notin lost', NEW j \in Keeps(event) \cup sync.removing
        PROVE subs'[j] = seen[j]
      OBVIOUS
    <3>1. subs[j] = seen[j] /\ j \in Places /\ seen[j].event = event
      BY <1>3, <1>7, <2>2 DEF AtEvent, Of
    <3> QED
      BY <1>2, <1>3, <3>1
  <2>4. \A j \in sync.removing : j \in Places /\ subs'[j].event \in {event, "none"}
    BY <1>2, <1>7, <2>2 DEF AtEvent, Of
  <2> QED
    BY <1>2, <1>4, <1>7, <2>1, <2>3, <2>4 DEF AtEvent
<1> QED
  BY <1>4, <1>5, <1>6, <1>7

LEMMA GivenUpInv == SyncInv /\ SubsTypeOK' /\ GivenUp => SyncInv'
<1> SUFFICES ASSUME SyncInv, SubsTypeOK', GivenUp PROVE SyncInv'
  OBVIOUS
<1>1. SubsTypeOK /\ UNCHANGED <<sync, seen, failed>> /\ Ahead' = Ahead
  BY DEF SyncInv, GivenUp, Ahead
<1>2. "none" \notin Ahead /\ \A m \in DOMAIN Events : Events[m] # "none"
  BY EventsAre DEF Ahead, Names
<1>3. ASSUME \A e \in Ahead : Untouched(e) PROVE (\A e \in Ahead : Untouched(e))'
  BY <1>1, <1>2, <1>3, Shrinks
<1>4. \A m \in DOMAIN Events : Settled(Events[m]) => Settled(Events[m])'
  BY <1>1, <1>2, Shrinks
<1>5. InEvents'
  <2> SUFFICES ASSUME sync.at = "event"
      PROVE (\A e \in Ahead : Untouched(e))' /\ (~failed => AllSettled(sync.next)')
    BY <1>1 DEF InEvents, AllSettled
  <2> QED
    BY <1>1, <1>3, <1>4 DEF SyncInv, InEvents, AllSettled
<1>6. InRemoves'
  <2> SUFFICES ASSUME sync.at = "remove", sync.then \in {"event", "create"}
      PROVE /\ sync.next - 1 \in DOMAIN Events
            /\ (\A e \in Ahead : Untouched(e))'
            /\ AtEvent(Events[sync.next - 1])'
            /\ ~failed => AllSettled(sync.next - 1)'
    BY <1>1 DEF InRemoves, AllSettled
  <2>1. /\ sync.next - 1 \in DOMAIN Events
        /\ \A e \in Ahead : Untouched(e)
        /\ AtEvent(Events[sync.next - 1])
        /\ ~failed => AllSettled(sync.next - 1)
    BY DEF SyncInv, InRemoves
  <2>2. PICK event : event = Events[sync.next - 1] /\ event # "none"
    BY <1>2, <2>1
  <2>3. AtEvent(event)'
    BY <1>1, <2>1, <2>2, Shrinks
  <2>4. Events[sync.next - 1]' = event
    BY <1>1, <2>2
  <2>5. AtEvent(Events[sync.next - 1])'
    BY <1>1, <2>3, <2>4 DEF AtEvent, Keeps, Surplus, Of, Correct
  <2> QED
    BY <1>1, <1>3, <1>4, <2>1, <2>5 DEF AllSettled
<1>7. InCreate'
  <2> SUFFICES ASSUME sync.at = "create"
      PROVE /\ sync.next - 1 \in DOMAIN Events
            /\ (\A e \in Ahead : Untouched(e))'
            /\ ~failed => Of(subs', Events[sync.next - 1]) = {} /\ AllSettled(sync.next - 1)'
    BY <1>1 DEF InCreate, AllSettled, Of
  <2>1. /\ sync.next - 1 \in DOMAIN Events
        /\ \A e \in Ahead : Untouched(e)
        /\ ~failed => Of(subs, Events[sync.next - 1]) = {} /\ AllSettled(sync.next - 1)
    BY DEF SyncInv, InCreate
  <2>2. PICK event : event = Events[sync.next - 1] /\ event # "none"
    BY <1>2, <2>1
  <2>3. Of(subs', event) \subseteq Of(subs, event)
    BY <1>1, <2>2, Shrinks DEF Of
  <2> QED
    BY <1>1, <1>3, <1>4, <2>1, <2>2, <2>3 DEF AllSettled
<1>8. InPrune'
  <2> SUFFICES ASSUME sync.at = "remove", sync.then = "done"
      PROVE /\ \A i \in sync.removing : subs'[i].event \in {Other, "none"}
            /\ ~failed => AllSettled(Len(Events) + 1)'
    BY <1>1 DEF InPrune, AllSettled
  <2>1. /\ \A i \in sync.removing : subs[i].event \in {Other, "none"}
        /\ ~failed => AllSettled(Len(Events) + 1)
    BY DEF SyncInv, InPrune
  <2>2. \A i \in sync.removing : i \in Places
    BY <1>1 DEF SubsTypeOK, Run
  <2>3. \A i \in Places : subs'[i].event \in {subs[i].event, "none"}
    BY <1>1, GivenUpIs
  <2> QED
    BY <1>1, <1>4, <2>1, <2>2, <2>3 DEF AllSettled
<1>9. AtDone'
  <2> SUFFICES ASSUME sync.at = "done", ~failed PROVE AllSettled(Len(Events) + 1)'
    BY <1>1 DEF AtDone
  <2> QED
    BY <1>1, <1>4 DEF SyncInv, AtDone, AllSettled
<1> QED
  BY <1>1, <1>5, <1>6, <1>7, <1>8, <1>9 DEF SyncInv

LEMMA NewUrlInv == SyncInv /\ SubsTypeOK' /\ NewUrl => SyncInv'
BY DEF SyncInv, NewUrl, SubsTypeOK, Run, InEvents, InRemoves, InCreate, InPrune, AtDone

LEMMA ListAllInv == SyncInv /\ SubsTypeOK' /\ ListAll => SyncInv'
<1> SUFFICES ASSUME SyncInv, SubsTypeOK', ListAll PROVE SyncInv'
  OBVIOUS
<1>1. InEvents'
  <2> SUFFICES ASSUME sync.at' = "event"
      PROVE (\A event \in Ahead : Untouched(event))' /\ AllSettled(sync.next)'
    BY DEF InEvents
  <2>1. UNCHANGED subs /\ seen' = subs /\ sync.next' = 1
    BY DEF ListAll, SyncInv, SubsTypeOK, Run
  <2> QED
    BY <2>1, EventsAre DEF Untouched, AllSettled
<1> QED
  BY <1>1 DEF SyncInv, ListAll, SubsTypeOK, Run, InRemoves, InCreate, InPrune, AtDone

LEMMA NextEventInv == SyncInv /\ SubsTypeOK' /\ NextEvent => SyncInv'
<1> SUFFICES ASSUME SyncInv, SubsTypeOK', NextEvent PROVE SyncInv'
  OBVIOUS
<1>0. PICK event : event = Events[sync.next]
  OBVIOUS
<1>1. /\ sync.at = "event" /\ sync.next \in DOMAIN Events /\ sync.next' = sync.next + 1
      /\ SubsTypeOK /\ UNCHANGED <<subs, seen, failed, lost>>
      /\ \A e \in Ahead : Untouched(e)
      /\ ~failed => AllSettled(sync.next)
  BY EventsAre DEF NextEvent, SyncInv, InEvents, SubsTypeOK, Run, Turns
<1>2. /\ sync.at' = "remove" /\ sync.removing' = Surplus(event)
      /\ sync.then' = IF Correct(seen, event) = {} THEN "create" ELSE "event"
  BY <1>0 DEF NextEvent
<1>3. sync'.next - 1 = sync.next
  BY <1>1, EventsAre
<1>4. event \in Ahead /\ Ahead' \subseteq Ahead
  BY <1>0, <1>1, EventsAre DEF Ahead
<1>5. AtEvent(Events[sync.next - 1])'
  <2>1. Untouched(event)
    BY <1>1, <1>4
  <2>2. /\ Of(subs, event) \subseteq Of(seen, event)
        /\ \A i \in Of(seen, event) : subs[i].event \in {event, "none"}
        /\ event \notin lost => \A i \in Of(seen, event) : subs[i] = seen[i]
    BY <2>1 DEF Untouched, Of
  <2>3. Of(subs, event) \subseteq Keeps(event) \cup Surplus(event)
    BY <2>2 DEF Keeps
  <2>4. Keeps(event) \cup Surplus(event) \subseteq Of(seen, event)
    BY <1>1, KeepsIs
  <2>5. /\ Keeps(event)' = Keeps(event) /\ Surplus(event)' = Surplus(event)
        /\ Correct(seen, event)' = Correct(seen, event) /\ Of(subs, event)' = Of(subs, event)
    <3>1. UNCHANGED <<subs, seen>>
      BY <1>1
    <3> QED
      BY <3>1 DEF Keeps, Surplus, Of, Correct
  <2>6. (Events[sync.next - 1])' = event
    BY <1>0, <1>3
  <2> QED
    BY <1>1, <1>2, <2>2, <2>3, <2>4, <2>5, <2>6 DEF AtEvent
<1>6. InRemoves'
  <2>1. (\A e \in Ahead : Untouched(e))'
    BY <1>1, <1>4, SameAccount
  <2>2. ~failed' => AllSettled(sync.next - 1)'
    BY <1>1, <1>3 DEF AllSettled, Settled, Of
  <2> QED
    BY <1>1, <1>3, <1>5, <2>1, <2>2 DEF InRemoves
<1> QED
  BY <1>2, <1>6 DEF SyncInv, InEvents, InCreate, InPrune, AtDone

LEMMA PruneInv == SyncInv /\ SubsTypeOK' /\ Prune => SyncInv'
<1> SUFFICES ASSUME SyncInv, SubsTypeOK', Prune PROVE SyncInv'
  OBVIOUS
<1>1. /\ sync.at = "event" /\ sync.next = Len(Events) + 1
      /\ SubsTypeOK /\ UNCHANGED <<subs, seen, failed, lost>>
      /\ Untouched(Other)
      /\ ~failed => AllSettled(Len(Events) + 1)
  BY EventsAre DEF Prune, SyncInv, InEvents, SubsTypeOK, Run, Turns, Ahead
<1>2. sync.at' = "remove" /\ sync.then' = "done" /\ sync.removing' \subseteq Of(seen, Other)
  BY <1>1 DEF Prune, SubsTypeOK, Run
<1>3. InPrune'
  <2>1. \A i \in sync.removing' : subs'[i].event \in {Other, "none"}
    BY <1>1, <1>2 DEF Untouched, Of
  <2>2. ~failed' => AllSettled(Len(Events) + 1)'
    BY <1>1 DEF AllSettled, Settled, Of
  <2> QED
    BY <2>1, <2>2 DEF InPrune
<1> QED
  BY <1>2, <1>3 DEF SyncInv, InEvents, InRemoves, InCreate, AtDone

\* A step that frees a place or fills a free one, of the event the run is at.
LEMMA AheadStays ==
  ASSUME SubsTypeOK, sync.next - 1 \in DOMAIN Events, UNCHANGED <<seen, sync.next, lost>>,
         \A e \in Ahead : Untouched(e),
         \A i \in Places : subs'[i] # subs[i] =>
           /\ subs[i].event \in {Events[sync.next - 1], "none"}
           /\ subs'[i].event \in {Events[sync.next - 1], "none"}
           /\ seen[i].event \notin Ahead
  PROVE  (\A e \in Ahead : Untouched(e))'
<1>1. Ahead' = Ahead
  BY DEF Ahead
<1>2. Events[sync.next - 1] \notin Ahead /\ "none" \notin Ahead
  BY AtIs
<1> QED
  BY <1>1, <1>2 DEF Untouched

LEMMA BehindStays ==
  ASSUME SubsTypeOK, sync.next - 1 \in DOMAIN Events, UNCHANGED <<seen, sync.next, lost>>,
         AllSettled(sync.next - 1),
         \A i \in Places : subs'[i] # subs[i] =>
           subs[i].event \in {Events[sync.next - 1], "none"} /\ subs'[i].event \in {Events[sync.next - 1], "none"}
  PROVE  AllSettled(sync.next - 1)'
<1>1. \A m \in DOMAIN Events : m < sync.next - 1 =>
        Events[m] # Events[sync.next - 1] /\ Events[m] # "none"
  BY AtIs, EventsAre DEF Names
<1>2. \A m \in DOMAIN Events : m < sync.next - 1 => Settled(Events[m])'
  <2> SUFFICES ASSUME NEW m \in DOMAIN Events, m < sync.next - 1 PROVE Settled(Events[m])'
    OBVIOUS
  <2>1. Settled(Events[m]) /\ Events[m] # Events[sync.next - 1] /\ Events[m] # "none"
    BY <1>1 DEF AllSettled
  <2> QED
    BY <2>1, OthersStay
<1> QED
  BY <1>2 DEF AllSettled

LEMMA CreateInv == SyncInv /\ SubsTypeOK' /\ Create => SyncInv'
<1> SUFFICES ASSUME SyncInv, SubsTypeOK', Create PROVE SyncInv'
  OBVIOUS
<1>1. PICK event : event = Events[sync.next - 1]
  OBVIOUS
<1>2. /\ sync.at = "create" /\ sync.next - 1 \in DOMAIN Events /\ SubsTypeOK
      /\ UNCHANGED <<seen, sync.next, lost>>
      /\ \A e \in Ahead : Untouched(e)
      /\ ~failed => Of(subs, event) = {} /\ AllSettled(sync.next - 1)
  BY <1>1 DEF Create, SyncInv, InCreate, SubsTypeOK, Run
<1>3. (\A e \in Ahead : Untouched(e))'
  <2>1. CASE UNCHANGED subs
    BY <1>2, <2>1, SameAccount DEF Ahead
  <2>2. CASE Added
    <3>1. PICK i \in Places :
            /\ subs[i] = Free /\ seen[i].event \notin Ahead
            /\ subs' = [subs EXCEPT ![i] = [event |-> Events[sync.next - 1], correct |-> TRUE]]
      BY <2>2 DEF Added
    <3>2. \A j \in Places : subs'[j] # subs[j] =>
            j = i /\ subs[j].event \in {event, "none"} /\ subs'[j].event \in {event, "none"}
      BY <1>1, <1>2, <3>1 DEF SubsTypeOK, Accounts, Free
    <3> QED
      BY <1>1, <1>2, <3>1, <3>2, AheadStays
  <2> QED
    BY <2>1, <2>2 DEF Create
<1>4. CASE failed' = TRUE
  <2>1. sync.at' \in {"event", "done"}
    BY <1>2 DEF Create, SubsTypeOK, Run
  <2> QED
    BY <1>3, <1>4, <2>1 DEF SyncInv, InEvents, InRemoves, InCreate, InPrune, AtDone
<1>5. CASE Added /\ sync' = [sync EXCEPT !.at = "event"] /\ UNCHANGED failed
  <2>1. PICK i \in Places :
          /\ subs[i] = Free
          /\ subs' = [subs EXCEPT ![i] = [event |-> Events[sync.next - 1], correct |-> TRUE]]
    BY <1>5 DEF Added
  <2>2. \A j \in Places : subs'[j] # subs[j] =>
          /\ j = i /\ subs[j].event \in {event, "none"} /\ subs'[j].event \in {event, "none"}
    BY <1>1, <1>2, <2>1 DEF SubsTypeOK, Accounts, Free
  <2>4. ~failed => AllSettled(sync.next)'
    <3> SUFFICES ASSUME ~failed PROVE AllSettled(sync.next)'
      OBVIOUS
    <3>1. AllSettled(sync.next - 1)'
      BY <1>1, <1>2, <2>2, BehindStays
    <3>2. Settled(event)'
      <4>1. Of(subs, event) = {}
        BY <1>2
      <4>2. subs'[i] = [event |-> event, correct |-> TRUE]
            /\ \A j \in Places : j # i => subs'[j] = subs[j]
        BY <1>1, <1>2, <2>1 DEF SubsTypeOK, Accounts
      <4>3. Of(subs', event) = {i} /\ Correct(subs', event) = {i}
        BY <4>1, <4>2 DEF Of, Correct
      <4> QED
        BY <4>3 DEF Settled, Of, Correct
    <3>3. \A m \in DOMAIN Events : m < sync.next => m < sync.next - 1 \/ m = sync.next - 1
      BY <1>2, EventsAre DEF SubsTypeOK, Run, Turns
    <3>4. \A m \in DOMAIN Events : m < sync.next => Settled(Events[m])'
      BY <1>1, <1>2, <3>1, <3>2, <3>3 DEF AllSettled
    <3> QED
      BY <1>2, <3>4 DEF AllSettled
  <2>5. sync.at' = "event"
    BY <1>2, <1>5 DEF SubsTypeOK, Run
  <2> QED
    BY <1>3, <1>5, <2>4, <2>5 DEF SyncInv, InEvents, InRemoves, InCreate, InPrune, AtDone
<1> QED
  BY <1>4, <1>5 DEF Create

LEMMA RemovedInv == SyncInv /\ SubsTypeOK' /\ Removed => SyncInv'
<1> SUFFICES ASSUME SyncInv, SubsTypeOK', Removed PROVE SyncInv'
  OBVIOUS
<1>1. PICK event : event = Events[sync.next - 1]
  OBVIOUS
<1>2. /\ SubsTypeOK /\ sync.at = "remove" /\ sync.removing = {} /\ sync'.at = sync.then
      /\ UNCHANGED <<subs, seen, failed, lost, sync.next>>
  BY DEF Removed, SyncInv, SubsTypeOK, Run
<1>3. UNCHANGED Ahead /\ (\A e : Untouched(e)' = Untouched(e)) /\ (\A n : AllSettled(n)' = AllSettled(n))
  BY <1>2, SameAccount DEF Ahead
<1>4. CASE sync.then \in {"event", "create"}
  <2>1. /\ sync.next - 1 \in DOMAIN Events
        /\ \A e \in Ahead : Untouched(e)
        /\ AtEvent(event)
        /\ ~failed => AllSettled(sync.next - 1)
    BY <1>1, <1>2, <1>4 DEF SyncInv, InRemoves
  <2>2. (\A e \in Ahead : Untouched(e))'
    BY <1>3, <2>1
  <2>3. CASE sync.then = "event"
    <3>1. Correct(seen, event) # {}
      BY <2>1, <2>3 DEF AtEvent
    <3>2. PICK k \in Correct(seen, event) : Keeps(event) = {k}
      BY <1>2, <3>1, KeepsIs
    <3>3. k \in Places /\ seen[k].event = event /\ seen[k].correct
      BY <3>2 DEF Correct, Of
    <3>4. ~failed => Settled(event)
      <4>1. event \notin lost => subs[k] = seen[k]
        BY <2>1, <3>2 DEF AtEvent
      <4>2. ~failed => Of(subs, event) \subseteq {k}
        BY <1>2, <2>1, <3>2 DEF AtEvent
      <4>3. event \notin lost => k \in Correct(subs, event)
        BY <3>3, <4>1 DEF Correct, Of
      <4> QED
        BY <4>2, <4>3 DEF Settled
    <3>5. ~failed => AllSettled(sync.next)
      <4>1. \A m \in DOMAIN Events : m < sync.next => m < sync.next - 1 \/ m = sync.next - 1
        BY <1>2, EventsAre DEF SubsTypeOK, Run, Turns
      <4> QED
        BY <1>1, <2>1, <3>4, <4>1 DEF AllSettled
    <3>6. ~failed' => AllSettled(sync.next)'
      BY <1>2, <3>5 DEF AllSettled, Settled, Of, Correct
    <3> QED
      BY <1>2, <2>2, <2>3, <3>6 DEF SyncInv, InEvents, InRemoves, InCreate, InPrune, AtDone
  <2>4. CASE sync.then = "create"
    <3>1. Keeps(event) = {}
      BY <1>2, <2>1, <2>4, KeepsIs DEF AtEvent
    <3>2. ~failed => Of(subs, event) = {}
      BY <1>2, <2>1, <3>1 DEF AtEvent
    <3>3. ~failed' => Of(subs, Events[sync.next - 1])' = {} /\ AllSettled(sync.next - 1)'
      BY <1>1, <1>2, <2>1, <3>2 DEF AllSettled, Settled, Of, Correct
    <3> QED
      BY <1>2, <2>1, <2>2, <2>4, <3>3 DEF SyncInv, InEvents, InRemoves, InCreate, InPrune, AtDone
  <2> QED
    BY <1>4, <2>3, <2>4
<1>5. CASE sync.then = "done"
  <2>1. ~failed' => AllSettled(Len(Events) + 1)'
    BY <1>2, <1>5, <1>3 DEF SyncInv, InPrune
  <2> QED
    BY <1>2, <1>5, <2>1 DEF SyncInv, InEvents, InRemoves, InCreate, InPrune, AtDone
<1> QED
  BY <1>2, <1>4, <1>5 DEF SubsTypeOK, Run

LEMMA RemoveOneInv == SyncInv /\ SubsTypeOK' /\ RemoveOne => SyncInv'
<1> SUFFICES ASSUME SyncInv, SubsTypeOK', RemoveOne PROVE SyncInv'
  OBVIOUS
<1>1. PICK event : event = Events[sync.next - 1]
  OBVIOUS
<1>2. PICK i : i = Min(sync.removing)
  OBVIOUS
<1>3. /\ SubsTypeOK /\ sync.at = "remove" /\ i \in sync.removing /\ i \in Places
      /\ UNCHANGED <<seen, lost>>
  BY <1>2, RemovedIs DEF RemoveOne, SyncInv
<1>4. \/ subs' = [subs EXCEPT ![i] = Free] /\ UNCHANGED failed
      \/ failed' = TRUE /\ subs' \in {subs, [subs EXCEPT ![i] = Free]}
  BY <1>2 DEF RemoveOne
<1>5. \A j \in Places : subs'[j] # subs[j] => j = i /\ subs'[j].event = "none"
  BY <1>3, <1>4 DEF SubsTypeOK, Accounts, Free
<1>6. CASE sync' = [sync EXCEPT !.at = "done", !.removing = {}] /\ failed' = TRUE
  <2>1. sync.at' = "done"
    BY <1>3, <1>6 DEF SubsTypeOK, Run
  <2> QED
    BY <1>6, <2>1 DEF SyncInv, InEvents, InRemoves, InCreate, InPrune, AtDone
<1>7. CASE sync' = [sync EXCEPT !.removing = @ \ {i}]
  <2>1. UNCHANGED <<sync.at, sync.next, sync.then>> /\ sync.removing' = sync.removing \ {i}
    BY <1>3, <1>7 DEF SubsTypeOK, Run
  <2>2. CASE sync.then \in {"event", "create"}
    <3>1. /\ sync.next - 1 \in DOMAIN Events
          /\ \A e \in Ahead : Untouched(e)
          /\ AtEvent(event)
          /\ ~failed => AllSettled(sync.next - 1)
      BY <1>1, <1>3, <2>2 DEF SyncInv, InRemoves
    <3>2. /\ i \in Surplus(event) /\ seen[i].event = event /\ i \notin Keeps(event)
          /\ subs[i].event \in {event, "none"}
      BY <1>3, <3>1, KeepsIs DEF AtEvent, Of
    <3>3. event \notin Ahead
      BY <1>1, <1>3, <3>1, AtIs
    <3>4. (\A e \in Ahead : Untouched(e))'
      BY <1>1, <1>3, <1>5, <2>1, <3>1, <3>2, <3>3, AheadStays
    <3>5. ~failed' => AllSettled(sync.next - 1)'
      BY <1>1, <1>3, <1>4, <1>5, <2>1, <3>1, <3>2, BehindStays
    <3>6. AtEvent(event)'
      <4>1. /\ Keeps(event)' = Keeps(event) /\ Surplus(event)' = Surplus(event)
            /\ Correct(seen, event)' = Correct(seen, event)
        <5>1. /\ Surplus(event)' = Surplus(event) /\ Of(seen, event)' = Of(seen, event)
              /\ Correct(seen, event)' = Correct(seen, event)
          BY <1>3 DEF Surplus, Of, Correct
        <5> QED
          BY <5>1 DEF Keeps
      <4>2. ASSUME NEW j \in Keeps(event) \cup sync.removing'
            PROVE  /\ j \in Places /\ j # i
                   /\ event \notin lost => subs'[j] = seen'[j]
                   /\ j \in sync.removing' => subs'[j].event \in {event, "none"}
        <5>1. /\ j \in Places /\ j # i
              /\ event \notin lost => subs[j] = seen[j]
              /\ j \in sync.removing' => subs[j].event \in {event, "none"}
          BY <1>3, <2>1, <3>1, <3>2, <4>2, KeepsIs DEF AtEvent, Of, SubsTypeOK, Run
        <5> QED
          BY <1>3, <1>5, <5>1
      <4>3. ~failed' => Of(subs, event)' \subseteq Keeps(event) \cup sync.removing'
        <5>1. ~failed' => /\ ~failed /\ subs' = [subs EXCEPT ![i] = Free]
                          /\ Of(subs, event) \subseteq Keeps(event) \cup sync.removing
          BY <1>4, <3>1 DEF AtEvent
        <5>2. event # "none"
          BY <1>1, <1>3, <3>1, AtIs
        <5> QED
          BY <1>3, <2>1, <5>1, <5>2 DEF Of, Free, SubsTypeOK, Accounts
      <4> QED
        BY <1>3, <2>1, <3>1, <4>1, <4>2, <4>3 DEF AtEvent
    <3> QED
      BY <1>1, <1>3, <2>1, <2>2, <3>1, <3>4, <3>5, <3>6
      DEF SyncInv, InEvents, InRemoves, InCreate, InPrune, AtDone
  <2>3. CASE sync.then = "done"
    <3>1. subs[i].event \in {Other, "none"} /\ \A j \in sync.removing : subs[j].event \in {Other, "none"}
      BY <1>3, <2>3 DEF SyncInv, InPrune
    <3>2. \A j \in sync.removing' : subs'[j].event \in {Other, "none"}
      BY <1>3, <1>5, <2>1, <3>1 DEF SubsTypeOK, Run
    <3>3. ~failed' => AllSettled(Len(Events) + 1)'
      <4>1. ~failed' => AllSettled(Len(Events) + 1)
        BY <1>3, <1>4, <2>3 DEF SyncInv, InPrune
      <4>2. \A m \in DOMAIN Events : Events[m] # Other /\ Events[m] # "none"
        BY EventsAre DEF Names
      <4> QED
        BY <1>3, <1>5, <3>1, <4>1, <4>2 DEF AllSettled, Settled, Of, Correct
    <3> QED
      BY <1>3, <2>1, <2>3, <3>2, <3>3 DEF SyncInv, InEvents, InRemoves, InCreate, InPrune, AtDone
  <2> QED
    BY <1>3, <2>2, <2>3 DEF SubsTypeOK, Run
<1> QED
  BY <1>2, <1>6, <1>7 DEF RemoveOne

LEMMA NextSyncInv == SyncInv /\ [SubsNext]_subsVars => SyncInv'
<1> SUFFICES ASSUME SyncInv, [SubsNext]_subsVars PROVE SyncInv'
  OBVIOUS
<1>1. SubsTypeOK'
  BY NextSubsTypeOK
<1>2. CASE UNCHANGED subsVars
  <2>1. UNCHANGED <<subs, sync, seen, failed, lost>>
    BY <1>2 DEF subsVars
  <2>2. UNCHANGED Ahead /\ UNCHANGED Of(subs, Events[sync.next - 1])
    BY <2>1 DEF Ahead, Of
  <2>3. /\ \A e : Untouched(e)' = Untouched(e)
        /\ \A n : AllSettled(n)' = AllSettled(n)
    BY <2>1, SameAccount
  <2>4. UNCHANGED AtEvent(Events[sync.next - 1])
    <3>1. UNCHANGED Surplus(Events[sync.next - 1]) /\ UNCHANGED Correct(seen, Events[sync.next - 1])
          /\ UNCHANGED Of(seen, Events[sync.next - 1])
      BY <2>1 DEF Surplus, Correct, Of
    <3>2. UNCHANGED Keeps(Events[sync.next - 1])
      BY <3>1 DEF Keeps
    <3> QED
      BY <2>1, <2>2, <3>1, <3>2 DEF AtEvent
  <2>5. InEvents' /\ InCreate'
    BY <2>1, <2>2, <2>3 DEF SyncInv, InEvents, InCreate
  <2>6. InRemoves'
    BY <2>1, <2>2, <2>3, <2>4 DEF SyncInv, InRemoves
  <2>7. InPrune' /\ AtDone'
    BY <2>1, <2>3 DEF SyncInv, InPrune, AtDone
  <2> QED
    BY <1>1, <2>1, <2>5, <2>6, <2>7 DEF SyncInv
<1> QED
  BY <1>1, <1>2, StartSyncInv, GivenUpInv, NewUrlInv, ListAllInv, NextEventInv, PruneInv, RemoveOneInv,
     RemovedInv, CreateInv DEF SubsNext

\* The invariant of a run: what is ahead of it is as it saw it, less what signNow has given
\* up since, what is behind it is settled unless a call has failed, and what it still
\* removes is surplus.
THEOREM SyncInvariant == SubsSpec => []SyncInv
<1>1. SubsInit => SyncInv
  BY InitSyncInv
<1>2. SyncInv /\ [SubsNext]_subsVars => SyncInv'
  BY NextSyncInv
<1> QED
  BY <1>1, <1>2, PTL DEF SubsSpec

\* A run of which every call succeeded leaves exactly one subscription per event, and that
\* one correct, unless signNow has given one up since the run read its list, and never two:
\* for any list of events and any account the run found.
THEOREM Repairs == SubsSpec => []SyncRepairs
<1>1. SyncInv => SyncRepairs
  <2> SUFFICES ASSUME SyncInv, sync.at = "done", ~failed, NEW event \in Names
      PROVE  /\ Cardinality(Of(subs, event)) <= 1
             /\ event \notin lost => Cardinality(Correct(subs, event)) = 1
    BY DEF SyncRepairs
  <2>1. Settled(event)
    BY EventsAre DEF SyncInv, AtDone, AllSettled, Names
  <2>2. Correct(subs, event) \subseteq Of(subs, event)
    BY DEF Correct
  <2>3. CASE Of(subs, event) = {}
    BY <2>1, <2>2, <2>3, FS_EmptySet DEF Settled
  <2>4. CASE Of(subs, event) # {}
    <3>1. PICK i : Of(subs, event) = {i}
      BY <2>1, <2>4 DEF Settled
    <3>2. Cardinality({i}) = 1
      BY FS_Singleton
    <3>3. event \notin lost => Correct(subs, event) = {i}
      BY <2>1, <2>2, <3>1 DEF Settled
    <3> QED
      BY <3>1, <3>2, <3>3
  <2> QED
    BY <2>3, <2>4
<1> QED
  BY <1>1, SyncInvariant, PTL

\* A run never removes the last correct subscription of an event, whichever of its calls
\* fail and however many subscriptions the event has, unless signNow has given one of them
\* up since the run read its list.
THEOREM LastStays == SubsSpec => LastCorrectStays
<1> DEFINE Stays == \A event \in Names :
             sync.at \notin {"idle", "done"} /\ event \notin lost' /\ Correct(subs, event) # {}
               => Correct(subs', event) # {}
<1>1. SyncInv /\ [SubsNext]_subsVars => [Stays]_subsVars
  <2> SUFFICES ASSUME SyncInv, SubsNext, sync.at \notin {"idle", "done"},
                      NEW event \in Names, event \notin lost', Correct(subs, event) # {}
      PROVE Correct(subs', event) # {}
    OBVIOUS
  <2>1. SubsTypeOK /\ event # "none" /\ event # Other
    BY EventsAre DEF SyncInv
  <2>2. CASE UNCHANGED subs
    BY <2>2
  <2>3. CASE Create
    BY <2>1, <2>3 DEF Create, Added, Correct, Of, Free, SubsTypeOK, Accounts
  <2>4. CASE RemoveOne
    <3>1. PICK i : i = Min(sync.removing)
      OBVIOUS
    <3>2. /\ i \in sync.removing /\ i \in Places /\ sync.at = "remove"
          /\ sync.then \in {"event", "create", "done"} /\ lost' = lost
      BY <2>1, <2>4, <3>1, RemovedIs DEF RemoveOne, SubsTypeOK, Run
    <3>3. \A j \in Places : j # i => subs'[j] = subs[j]
      BY <2>1, <2>4, <3>1 DEF RemoveOne, SubsTypeOK, Accounts
    <3>4. CASE i \notin Correct(subs, event)
      BY <3>3, <3>4 DEF Correct, Of
    <3>5. CASE i \in Correct(subs, event)
      <4>1. sync.then \in {"event", "create"}
        BY <2>1, <3>2, <3>5 DEF SyncInv, InPrune, Correct, Of
      <4>2. PICK here : here = Events[sync.next - 1]
        OBVIOUS
      <4>3. AtEvent(here)
        BY <3>2, <4>1, <4>2 DEF SyncInv, InRemoves
      <4>4. here = event
        BY <2>1, <3>2, <3>5, <4>3 DEF AtEvent, Correct, Of
      <4>5. i \in Surplus(event) /\ subs[i] = seen[i]
        BY <3>2, <4>3, <4>4 DEF AtEvent
      <4>6. i \in Correct(seen, event)
        BY <3>5, <4>5 DEF Correct, Of
      <4>7. PICK k \in Correct(seen, event) : Keeps(event) = {k}
        BY <2>1, <4>6, KeepsIs
      <4>8. k # i /\ subs[k] = seen[k] /\ k \in Places
        BY <2>1, <3>2, <4>3, <4>4, <4>5, <4>7, KeepsIs DEF AtEvent, Correct, Of
      <4>9. k \in Correct(subs', event)
        BY <3>3, <4>7, <4>8 DEF Correct, Of
      <4> QED
        BY <4>9
    <3> QED
      BY <3>4, <3>5
  <2>5. CASE GivenUp
    <3>1. PICK i \in Places :
            /\ \A j \in Places : j # i => subs'[j] = subs[j]
            /\ lost' = lost \cup {subs[i].event}
      BY <2>1, <2>5, GivenUpIs
    <3>2. i \notin Of(subs, event)
      BY <3>1 DEF Of
    <3> QED
      BY <3>1, <3>2 DEF Correct, Of
  <2> QED
    BY <2>2, <2>3, <2>4, <2>5 DEF SubsNext, StartSync, ListAll, NextEvent, Prune, Removed, NewUrl
<1> QED
  BY <1>1, SyncInvariant, PTL DEF SubsSpec, LastCorrectStays

\* The state of a run has its type.
THEOREM SubsTyping == SubsSpec => []SubsTypeOK
<1>1. SyncInv => SubsTypeOK
  BY DEF SyncInv
<1> QED
  BY <1>1, SyncInvariant, PTL

-----------------------------------------------------------------------------
(* The services together *)

\* A service at rest is in a state it may begin in.
LEMMA ServicesAtRest ==
  /\ CacheAtRest => CacheInit
  /\ ServerAtRest => ServerInit
  /\ SubsAtRest => SubsInit
<1>1. ASSUME CacheAtRest PROVE CacheInit
  <2> DEFINE pings == [c \in Calls |-> "ping"]
  <2>1. pings \in [Calls -> Kinds]
    BY DEF Kinds
  <2>2. call = [c \in Calls |-> [kind |-> pings[c], at |-> "idle", block |-> "ping",
                                 value |-> Gone, born |-> 0, since |-> Gone,
                                 timeouts |-> 0, clean |-> TRUE]]
    BY <1>1 DEF CacheAtRest
  <2> HIDE DEF pings
  <2> QED
    BY <1>1, <2>1, <2>2 DEF CacheAtRest, CacheInit
<1>2. ASSUME ServerAtRest PROVE ServerInit
  <2> DEFINE works == [h \in Hits |-> "work"]
  <2>1. works \in [Hits -> {"login", "logout", "work"}]
    OBVIOUS
  <2>2. hit = [h \in Hits |-> [kind |-> works[h], at |-> "idle", sid |-> Nil, ok |-> FALSE]]
    BY <1>2 DEF ServerAtRest
  <2> HIDE DEF works
  <2> QED
    BY <1>2, <2>1, <2>2 DEF ServerAtRest, ServerInit
<1>3. ASSUME SubsAtRest PROVE SubsInit
  BY <1>3 DEF SubsAtRest, SubsInit, Accounts, Places
<1> QED
  BY <1>1, <1>2, <1>3

\* The composition is each of the services: what is proved of one holds of it.
THEOREM EachService == ServicesSpec => CacheSpec /\ ServerSpec /\ SubsSpec
<1>1. ServicesInit => CacheInit /\ ServerInit /\ SubsInit
  BY ServicesAtRest DEF ServicesInit
<1>2. [ServicesNext]_<<part, cacheVars, serverVars, subsVars>> =>
        [CacheNext]_cacheVars /\ [ServerNext]_serverVars /\ [SubsNext]_subsVars
  BY DEF ServicesNext
<1> QED
  BY <1>1, <1>2, PTL DEF ServicesSpec, CacheSpec, ServerSpec, SubsSpec

\* The state of each service has its type, and each keeps its invariants, whichever of
\* them moves.
THEOREM ServicesKeep ==
  ServicesSpec => [](ServicesTypeOK /\ OutageCostsTwoTimeouts /\ CacheIsFresh
                                    /\ ClientsOutliveRequests /\ SyncRepairs)
<1>1. Typed => CacheTypeOK
  BY DEF Typed
<1>2. CacheTypeOK /\ ServerTypeOK /\ SubsTypeOK => ServicesTypeOK
  BY DEF ServicesTypeOK
<1> QED
  BY <1>1, <1>2, EachService, CacheInvariant, OutageIsBounded, Fresh, ServerInvariant, ClientsLast,
     SubsTyping, Repairs, PTL
=============================================================================
