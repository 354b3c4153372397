--------------------------- MODULE Subscriptions ---------------------------
(***************************************************************************)
(* tools/signnow_subscriptions.ts: `sync` brings the webhook subscriptions *)
(* on the signNow account to exactly one correct one per event, with calls *)
(* that may each fail: one signNow refuses is only logged, one without an  *)
(* answer ends the run.  It is run again whenever the callback URL changes *)
(* or signNow has given one up, which signNow may also do during a run.    *)
(*                                                                         *)
(* A definition commented "Mutant" is a plausible bug in the definition    *)
(* that follows it, not part of the model.                                 *)
(***************************************************************************)
EXTENDS Naturals, FiniteSets, Sequences, FiniteSetsExt

CONSTANTS
  Events,    \* EVENTS, in order
  Other,     \* an event the service has no use for
  Slots,     \* bound: subscriptions the account can hold, in the order it lists them
  MaxSyncs   \* bound: times sync is run

ASSUME SubscriptionsAssumption ==
  /\ Events \in Seq({Events[i] : i \in DOMAIN Events})
  /\ \A i, j \in DOMAIN Events : Events[i] = Events[j] => i = j
  /\ {Other, "none"} \cap {Events[i] : i \in DOMAIN Events} = {}
  /\ Other # "none"
  /\ Slots \in Nat /\ MaxSyncs \in Nat

VARIABLES
  subs,    \* the account's subscriptions, by place
  sync,    \* where the run is: how far through EVENTS, and what it still removes
  seen,    \* the list the run read when it began
  failed,  \* whether a call of this run has failed
  syncs,   \* runs begun
  lost     \* events of which signNow gave one up since the run read its list

subsVars == <<subs, sync, seen, failed, syncs, lost>>

Names == {Events[n] : n \in DOMAIN Events}

\* No subscription; one with the right URL and secret, and active; or one without.
Sub == [event : Names \cup {Other}, correct : BOOLEAN]
Free == [event |-> "none", correct |-> FALSE]
Places == 1..Slots
Accounts == [Places -> Sub \cup {Free}]

\* How far through EVENTS a run may be: past the last.
Turns == 1..Len(Events) + 1

Run == [at : {"idle", "list", "event", "remove", "create", "done"},
        next : Turns, removing : SUBSET Places, then : {"event", "create", "done"}]

SubsTypeOK ==
  /\ subs \in Accounts /\ seen \in Accounts
  /\ sync \in Run
  /\ failed \in BOOLEAN
  /\ syncs \in 0..MaxSyncs
  /\ lost \subseteq Names \cup {Other}

SubsInit ==
  /\ subs \in Accounts
  /\ sync = [at |-> "idle", next |-> 1, removing |-> {}, then |-> "event"]
  /\ seen = subs
  /\ failed = FALSE
  /\ syncs = 0
  /\ lost = {}

Of(account, event) == {i \in Places : account[i].event = event}

Correct(account, event) == {i \in Of(account, event) : account[i].correct}

\* What the run has not come to: the events still ahead, and those that are none of ours.
Ahead == {Events[n] : n \in {m \in DOMAIN Events : m >= sync.next}} \cup {Other}

-----------------------------------------------------------------------------
StartSync ==
  /\ sync.at \in {"idle", "done"} /\ syncs < MaxSyncs
  /\ sync' = [sync EXCEPT !.at = "list", !.next = 1]
  /\ syncs' = syncs + 1
  /\ failed' = FALSE
  /\ UNCHANGED <<subs, seen, lost>>

\* listAll, to the last page, or the run ends.
ListAll ==
  /\ sync.at = "list"
  /\ \/ /\ seen' = subs /\ lost' = {}
        /\ sync' = [sync EXCEPT !.at = "event"]
        /\ UNCHANGED failed
     \/ /\ failed' = TRUE
        /\ sync' = [sync EXCEPT !.at = "done"]
        /\ UNCHANGED <<seen, lost>>
  /\ UNCHANGED <<subs, syncs>>

\* Mutant: the first subscription of an event is kept, correct or not.
Surplus_AllButTheFirst(event) ==
  IF Correct(seen, event) = {} THEN Of(seen, event) ELSE Of(seen, event) \ {Min(Of(seen, event))}

\* What there is too much of: everything but the first correct one.
Surplus(event) ==
  IF Correct(seen, event) = {} THEN Of(seen, event)
  ELSE Of(seen, event) \ {Min(Correct(seen, event))}

NextEvent ==
  /\ sync.at = "event" /\ sync.next <= Len(Events)
  /\ LET event == Events[sync.next]
     IN sync' = [at |-> "remove", next |-> sync.next + 1, removing |-> Surplus(event),
                 then |-> IF Correct(seen, event) = {} THEN "create" ELSE "event"]
  /\ UNCHANGED <<subs, seen, failed, syncs, lost>>

\* --prune is given or not; it goes by the list the run began with.
Prune ==
  /\ sync.at = "event" /\ sync.next > Len(Events)
  /\ \E pruned \in {Of(seen, Other), {}} :
       sync' = [sync EXCEPT !.at = "remove", !.removing = pruned, !.then = "done"]
  /\ UNCHANGED <<subs, seen, failed, syncs, lost>>

\* remove: one call after the other.  signNow did it and says so; or the call fails,
\* done or not: refused, which is logged, or without an answer, which ends the run.
RemoveOne ==
  /\ sync.at = "remove" /\ sync.removing # {}
  /\ LET i    == Min(sync.removing)
         gone == [subs EXCEPT ![i] = Free]
         rest == [sync EXCEPT !.removing = @ \ {i}]
     IN \/ subs' = gone /\ sync' = rest /\ UNCHANGED failed
        \/ /\ failed' = TRUE
           /\ subs' \in {subs, gone}
           /\ sync' \in {rest, [sync EXCEPT !.at = "done", !.removing = {}]}
  /\ UNCHANGED <<seen, syncs, lost>>

Removed ==
  /\ sync.at = "remove" /\ sync.removing = {}
  /\ sync' = [sync EXCEPT !.at = sync.then]
  /\ UNCHANGED <<subs, seen, failed, syncs, lost>>

\* One more subscription to the event, with an id of its own: not in the place of one the
\* run has read and still has to come to.
Added ==
  \E i \in Places :
    /\ subs[i] = Free /\ seen[i].event \notin Ahead
    /\ subs' = [subs EXCEPT ![i] = [event |-> Events[sync.next - 1], correct |-> TRUE]]

\* create: there is one more; or it is refused, and logged; or there is no answer, or no
\* user id, which ends the run, and there may be one more.
Create ==
  /\ sync.at = "create"
  /\ \/ Added /\ sync' = [sync EXCEPT !.at = "event"] /\ UNCHANGED failed
     \/ /\ failed' = TRUE
        /\ Added \/ UNCHANGED subs
        /\ sync' \in {[sync EXCEPT !.at = "event"], [sync EXCEPT !.at = "done"]}
  /\ UNCHANGED <<seen, syncs, lost>>

\* At any time signNow gives a subscription up, or makes it inactive.
GivenUp ==
  /\ \E i \in Places :
       /\ subs[i] # Free
       /\ \E left \in {Free, [subs[i] EXCEPT !.correct = FALSE]} :
            subs' = [subs EXCEPT ![i] = left]
       /\ lost' = lost \cup {subs[i].event}
  /\ UNCHANGED <<sync, seen, failed, syncs>>

\* Between runs the tunnel gets a new URL, or the service a new secret.
NewUrl ==
  /\ sync.at \in {"idle", "done"}
  /\ subs' = [i \in Places |-> [subs[i] EXCEPT !.correct = FALSE]]
  /\ sync' = [sync EXCEPT !.at = "idle"]
  /\ UNCHANGED <<seen, failed, syncs, lost>>

SubsNext ==
  \/ StartSync \/ ListAll \/ NextEvent \/ Prune \/ RemoveOne \/ Removed \/ Create
  \/ GivenUp \/ NewUrl

SubsSpec == SubsInit /\ [][SubsNext]_subsVars

-----------------------------------------------------------------------------
\* A run of which every call succeeded leaves exactly one subscription per event, and
\* that one correct, whatever it found: duplicates, stale ones, or what an earlier run
\* left half done.  Of an event signNow gave one up since the run read its list there is
\* at most one.
SyncRepairs ==
  sync.at = "done" /\ ~failed =>
    \A event \in Names :
      /\ Cardinality(Of(subs, event)) <= 1
      /\ event \notin lost => Cardinality(Correct(subs, event)) = 1

\* A run never removes the last correct subscription of an event, whichever of its
\* calls fail: it can only fail to add one.  It goes by the list it began with, so an
\* event of which signNow has given one up since is left out.
LastCorrectStays ==
  [][\A event \in Names :
       sync.at \notin {"idle", "done"} /\ event \notin lost' /\ Correct(subs, event) # {}
         => Correct(subs', event) # {}]_subsVars
=============================================================================
