------------------------------- MODULE Server -------------------------------
(***************************************************************************)
(* One process: sessions (src/app.ts, modules/auth, middleware/auth.ts),   *)
(* the answer to a request that fails (middleware/error.ts), and start and *)
(* stop (src/index.ts).                                                    *)
(*                                                                         *)
(* One agent, one browser, whose tabs share a cookie.  A session is named  *)
(* after the login that made it.  A definition commented "Mutant" is a     *)
(* plausible bug in the definition that follows it, not part of the model. *)
(***************************************************************************)
EXTENDS Naturals

CONSTANTS
  Hits,   \* HTTP requests
  Nil     \* no session; no exit code

ASSUME ServerAssumption == Nil \notin Hits \cup Nat

VARIABLES
  hit,      \* where each request is
  session,  \* the session store
  cookie,   \* realax.sid in the browser
  agent,    \* whether the agent's row is there
  domain,   \* whether COOKIE_DOMAIN is set; chosen at the start
  process,  \* the process
  clients,  \* whether the database and Redis clients are open
  code      \* its exit code

serverVars == <<hit, session, cookie, agent, domain, process, clients, code>>

Sids == Hits \cup {Nil}

Hit_ == [kind : {"login", "logout", "work"},
         at : {"idle", "verify", "regenerate", "save", "destroy", "guard", "handle",
               "answer", "hung", "answered", "cut"},
         sid : Sids,       \* req.session
         ok : BOOLEAN]     \* answered with 200

ServerTypeOK ==
  /\ hit \in [Hits -> Hit_]
  /\ session \in [Hits -> {"absent", "live", "ended"}]
  /\ cookie \in Sids
  /\ agent \in BOOLEAN /\ domain \in BOOLEAN /\ clients \in BOOLEAN
  /\ process \in {"up", "closing", "closed", "exited"}
  /\ code \in {0, 1, Nil}

ServerInit ==
  /\ \E kind \in [Hits -> {"login", "logout", "work"}] :
       hit = [h \in Hits |-> [kind |-> kind[h], at |-> "idle", sid |-> Nil, ok |-> FALSE]]
  /\ session = [h \in Hits |-> "absent"]
  /\ cookie = Nil
  /\ agent = TRUE
  /\ domain \in BOOLEAN
  /\ process = "up"
  /\ clients = TRUE
  /\ code = Nil

-----------------------------------------------------------------------------
ServerGoto(h, place) == hit' = [hit EXCEPT ![h].at = place]

InFlight(h) == hit[h].at \notin {"idle", "answered", "cut"}

At(h, place) == process # "exited" /\ hit[h].at = place

\* What a session is after it was destroyed.
Destroyed(sid) == IF sid = Nil THEN session ELSE [session EXCEPT ![sid] = "ended"]

\* The session named by the cookie is loaded from the store, and the request routed.
Arrive(h) ==
  /\ process = "up" /\ hit[h].at = "idle"
  /\ hit' = [hit EXCEPT
       ![h].sid = IF cookie # Nil /\ session[cookie] = "live" THEN cookie ELSE Nil,
       ![h].at = CASE hit[h].kind = "login"  -> "verify"
                   [] hit[h].kind = "logout" -> "destroy"
                   [] OTHER                  -> "guard"]
  /\ UNCHANGED <<session, cookie, agent, domain, process, clients, code>>

\* verifyCredentials
Verify(h) ==
  /\ At(h, "verify")
  /\ \/ ServerGoto(h, "answer")
     \/ agent /\ ServerGoto(h, "regenerate")
  /\ UNCHANGED <<session, cookie, agent, domain, process, clients, code>>

\* regenerateSession destroys the session presented and makes up a new id ...
Regenerate(h) ==
  /\ At(h, "regenerate")
  /\ session' = Destroyed(hit[h].sid)
  /\ hit' = [hit EXCEPT ![h].sid = h, ![h].at = "save"]
  /\ UNCHANGED <<cookie, agent, domain, process, clients, code>>

\* ... and saveSession stores it, before the answer is sent.
SaveSession(h) ==
  /\ At(h, "save")
  /\ session' = IF hit[h].sid = Nil THEN session ELSE [session EXCEPT ![hit[h].sid] = "live"]
  /\ hit' = [hit EXCEPT ![h].at = "answer", ![h].ok = TRUE]
  /\ UNCHANGED <<cookie, agent, domain, process, clients, code>>

\* logout
Destroy(h) ==
  /\ At(h, "destroy")
  /\ session' = Destroyed(hit[h].sid)
  /\ hit' = [hit EXCEPT ![h].at = "answer", ![h].ok = TRUE]
  /\ UNCHANGED <<cookie, agent, domain, process, clients, code>>

\* requireAgent: 401 without a session, or with one that outlived its agent.
Guard(h) ==
  /\ At(h, "guard")
  /\ IF hit[h].sid # Nil /\ agent
     THEN ServerGoto(h, "handle") /\ UNCHANGED session
     ELSE ServerGoto(h, "answer") /\ session' = Destroyed(hit[h].sid)
  /\ UNCHANGED <<cookie, agent, domain, process, clients, code>>

Handle(h) ==
  /\ At(h, "handle")
  /\ hit' = [hit EXCEPT ![h].at = "answer", ![h].ok = TRUE]
  /\ UNCHANGED <<session, cookie, agent, domain, process, clients, code>>

\* Anything thrown.  errorHandler answers, unless the answer was already started (a
\* file being sent): then it logs, and the connection stays as it is.
Throw(h) ==
  /\ \E place \in {"verify", "regenerate", "save", "destroy", "guard", "handle"} : At(h, place)
  /\ \/ ServerGoto(h, "answer")
     \/ hit[h].at = "handle" /\ ServerGoto(h, "hung")
  /\ UNCHANGED <<session, cookie, agent, domain, process, clients, code>>

\* The cookie an answer leaves in the browser.  A login sets its own; `rolling` sets
\* the session's again on any other; clearCookie('realax.sid') names no domain, so it
\* does not touch a cookie that was set for one.
CookieAfter(h) ==
  IF hit[h].kind = "logout" /\ hit[h].ok THEN IF domain THEN cookie ELSE Nil
  ELSE IF hit[h].sid # Nil /\ (hit[h].kind = "login" => hit[h].ok) THEN hit[h].sid
  ELSE cookie

\* Mutant: `resave`, the session is written back at the end of every request.
Answer_Resaves(h) ==
  /\ At(h, "answer")
  /\ ServerGoto(h, "answered")
  /\ session' = IF hit[h].kind = "work" /\ hit[h].sid # Nil
                THEN [session EXCEPT ![hit[h].sid] = "live"] ELSE session
  /\ cookie' = CookieAfter(h)
  /\ UNCHANGED <<agent, domain, process, clients, code>>

\* The end of a request: the store is not written, and touching what is not there
\* does nothing.
Answer(h) ==
  /\ At(h, "answer")
  /\ ServerGoto(h, "answered")
  /\ cookie' = CookieAfter(h)
  /\ UNCHANGED <<session, agent, domain, process, clients, code>>

\* The client goes away.
Abandon(h) ==
  /\ At(h, "hung")
  /\ ServerGoto(h, "cut")
  /\ UNCHANGED <<session, cookie, agent, domain, process, clients, code>>

RemoveAgent ==
  /\ agent /\ process # "exited"
  /\ agent' = FALSE
  /\ UNCHANGED <<hit, session, cookie, domain, process, clients, code>>

-----------------------------------------------------------------------------
(* shutdown *)

\* server.close: no new connections from here.
Signal ==
  /\ process = "up"
  /\ process' = "closing"
  /\ UNCHANGED <<hit, session, cookie, agent, domain, clients, code>>

\* Its callback, when the last connection has gone.
CloseClients ==
  /\ process = "closing"
  /\ \A h \in Hits : ~InFlight(h)
  /\ process' = "closed"
  /\ clients' = FALSE
  /\ UNCHANGED <<hit, session, cookie, agent, domain, code>>

Cut == [h \in Hits |-> [hit[h] EXCEPT !.at = IF InFlight(h) THEN "cut" ELSE @]]

Exit(n) ==
  /\ process' = "exited"
  /\ code' = n
  /\ hit' = Cut
  /\ UNCHANGED <<session, cookie, agent, domain, clients>>

ExitClean == process = "closed" /\ Exit(0)

\* Mutant: the timer is set only once the server has closed.
ExitForced_AfterClose == process = "closed" /\ Exit(1)

\* The timer, ten seconds after the signal.
ExitForced == process \in {"closing", "closed"} /\ Exit(1)

ServerNext ==
  \/ \E h \in Hits : \/ Arrive(h) \/ Verify(h) \/ Regenerate(h) \/ SaveSession(h) \/ Destroy(h)
                     \/ Guard(h) \/ Handle(h) \/ Throw(h) \/ Answer(h) \/ Abandon(h)
  \/ RemoveAgent \/ Signal \/ CloseClients \/ ExitClean \/ ExitForced

\* The timer fires.  Nothing is assumed of requests.
ServerFairness == WF_serverVars(ExitForced) /\ WF_serverVars(ExitClean)

ServerSpec == ServerInit /\ [][ServerNext]_serverVars /\ ServerFairness

-----------------------------------------------------------------------------
\* The clients are open as long as any request might use them: a stop that is not
\* forced turns no request into a failure.
ClientsOutliveRequests ==
  ~clients => \A h \in Hits : ~InFlight(h)

\* A session that was ended, by a logout, a new login or the agent's removal, is not
\* brought back by a request that was under way at the time.
SessionsStayEnded ==
  \A s \in Hits : session[s] = "ended" => session'[s] = "ended"

NoSessionComesBack == [][SessionsStayEnded]_serverVars

\* A process that was told to stop does, hung connections or not.
StopsWhenTold == process = "closing" ~> process = "exited"

=============================================================================
