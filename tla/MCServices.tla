----------------------------- MODULE MCServices -----------------------------
(* Instances of Cache, Server and Subscriptions for TLC.  They share no state: *)
(* a behaviour is one of them moving, with the others at rest.                 *)
EXTENDS Cache, Server, Subscriptions, TLC

CONSTANTS made, signed

VARIABLE part   \* which of them moves

TwoEvents == <<made, signed>>

CacheAtRest ==
  /\ drops = FALSE /\ laps = FALSE /\ conn = "closed" /\ queue = <<>> /\ entry = Gone
  /\ upstream = 0 /\ now = 0
  /\ call = [c \in Calls |-> [kind |-> "ping", at |-> "idle", block |-> "ping", value |-> Gone,
                              born |-> 0, since |-> Gone, timeouts |-> 0, clean |-> TRUE]]

ServerAtRest ==
  /\ hit = [h \in Hits |-> [kind |-> "work", at |-> "idle", sid |-> Nil, ok |-> FALSE]]
  /\ session = [h \in Hits |-> "absent"] /\ cookie = Nil /\ agent = TRUE /\ domain = FALSE
  /\ process = "up" /\ clients = TRUE /\ code = Nil

SubsAtRest ==
  /\ subs = [i \in 1..Slots |-> Free] /\ seen = subs
  /\ sync = [at |-> "idle", next |-> 1, removing |-> {}, then |-> "event"]
  /\ failed = FALSE /\ syncs = 0 /\ lost = {}

\* Connections that drop are tried without invalidations that overlap reads, and those
\* without connections that drop.
ServicesInit ==
  /\ part \in {"cache", "server", "subscriptions"}
  /\ IF part = "cache" THEN CacheInit /\ drops = ~laps ELSE CacheAtRest
  /\ IF part = "server" THEN ServerInit ELSE ServerAtRest
  /\ IF part = "subscriptions" THEN SubsInit ELSE SubsAtRest

ServicesNext ==
  /\ UNCHANGED part
  /\ \/ part = "cache" /\ CacheNext /\ UNCHANGED <<serverVars, subsVars>>
     \/ part = "server" /\ ServerNext /\ UNCHANGED <<cacheVars, subsVars>>
     \/ part = "subscriptions" /\ SubsNext /\ UNCHANGED <<cacheVars, serverVars>>

ServicesSpec ==
  /\ ServicesInit /\ [][ServicesNext]_<<part, cacheVars, serverVars, subsVars>>
  /\ CacheFairness /\ ServerFairness

\* The state of each component has its type.
ServicesTypeOK == CacheTypeOK /\ ServerTypeOK /\ SubsTypeOK
=============================================================================
