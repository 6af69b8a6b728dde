------------------------------ MODULE RouteAdmin ------------------------------
(***************************************************************************)
(* The replacement of the routes at run time: PUT /admin/routes            *)
(* (admin/routesEndpoint.ts) writes the new routes to <path>.tmp, renames  *)
(* that to the routes file (admin/routesFile.ts) and reloads the server    *)
(* (rebuildRoutes in gateway/index.ts), which reads the file again through *)
(* the cached configuration (config/loader.ts).                            *)
(*                                                                         *)
(* Requests are handled in one thread and share one temporary file; the    *)
(* handler is cut at its awaits.  Bun writes a file as small as this one   *)
(* in one piece, so two writes follow one another and are never mixed.     *)
(* What a file or the server holds is named by the request that brought it. *)
(***************************************************************************)
EXTENDS RouteRules

CONSTANTS
  Puts,       \* the requests
  Bodies,     \* per request: the lists of routes it may bring
  FirstRoutes,    \* those of the file at the start
  ReplayEnabled,  \* whether the replay endpoints are served
  MaxFaults,  \* bound on failing file operations
  MaxCrashes  \* bound on crashes

Initial == "initial"
None == "none"
Torn == "torn"

IsAList(routes) == DOMAIN routes = 1..Len(routes)

ASSUME RouteAdminAssumption ==
  /\ Accepted(FirstRoutes) /\ IsAList(FirstRoutes)
  /\ \A p \in Puts : \A routes \in Bodies[p] : IsAList(routes)
  /\ ReplayEnabled \in BOOLEAN
  /\ Puts \cap {Initial, None, Torn} = {}
  /\ MaxFaults \in Nat /\ MaxCrashes \in Nat

VARIABLES
  tmp,      \* the contents of <path>.tmp, None when there is no such file
  file,     \* the contents of the routes file
  server,   \* "up", "down", or "broken" when it cannot read its configuration
  cached,   \* the routes of the cached configuration, or None
  live,     \* the routes the server answers
  at,       \* per request: "new", "writing", "written", "renamed", "answered", "cut"
  body,     \* per request: the routes it brought, once they are accepted
  answer,   \* per request: "ok", "invalid", "persist failed", "reload failed", or None
  faults, crashes,
  stale,      \* history: whether the last reload failed
  overlapped  \* history: whether a request ever came in before the last was answered

routesHistory == <<stale, overlapped>>
routesVars == <<tmp, file, server, cached, live, at, body, answer, faults, crashes, routesHistory>>

Routes == {Initial} \cup Puts

Contents(name) == IF name = Initial THEN FirstRoutes ELSE body[name]

\* buildConfig throws on a file it cannot parse, or whose routes are not valid.
Loads(name) == name # Torn /\ Accepted(Contents(name))

Endpoints == AdminEndpoints(TRUE, TRUE, ReplayEnabled)

\* The handlers the server was given with the live routes.
Table == BuildRoutes(Contents(live), Endpoints)

RoutesInit ==
  /\ tmp = None /\ file = Initial
  /\ server = "up" /\ cached = Initial /\ live = Initial
  /\ at = [p \in Puts |-> "new"]
  /\ body = [p \in Puts |-> << >>]
  /\ answer = [p \in Puts |-> None]
  /\ faults = 0 /\ crashes = 0
  /\ stale = FALSE /\ overlapped = FALSE

InFlight == {p \in Puts : at[p] \in {"writing", "written", "renamed"}}

Respond(p, code) ==
  /\ at' = [at EXCEPT ![p] = "answered"]
  /\ answer' = [answer EXCEPT ![p] = code]

Fault == faults < MaxFaults /\ faults' = faults + 1

-----------------------------------------------------------------------------
\* The token and the body are checked before anything is written: 401 or 400.
Refuse(p) ==
  /\ Respond(p, "invalid")
  /\ UNCHANGED <<body, overlapped>>

Accept(p, routes) ==
  /\ at' = [at EXCEPT ![p] = "writing"]
  /\ body' = [body EXCEPT ![p] = routes]
  /\ overlapped' = (overlapped \/ InFlight # {})
  /\ UNCHANGED answer

Receive(p) ==
  /\ server = "up" /\ at[p] = "new"
  /\ \/ Refuse(p)
     \/ \E routes \in Bodies[p] :
          IF Accepted(routes) THEN Accept(p, routes) ELSE Refuse(p)
  /\ UNCHANGED <<tmp, file, server, cached, live, stale, faults, crashes>>

WriteTmp(p) ==
  /\ server = "up" /\ at[p] = "writing"
  /\ tmp' = p
  /\ at' = [at EXCEPT ![p] = "written"]
  /\ UNCHANGED <<file, server, cached, live, body, answer, faults, crashes, routesHistory>>

\* Mutated form: the routes are written in place.
WriteInPlaceFails(p) ==
  /\ server = "up" /\ at[p] = "writing"
  /\ Fault
  /\ file' \in {file, Torn}
  /\ Respond(p, "persist failed")
  /\ UNCHANGED <<tmp, server, cached, live, body, crashes, routesHistory>>

\* A failed write may leave part of the routes behind.
WriteTmpFails(p) ==
  /\ server = "up" /\ at[p] = "writing"
  /\ Fault
  /\ tmp' \in {tmp, Torn}
  /\ Respond(p, "persist failed")
  /\ UNCHANGED <<file, server, cached, live, body, crashes, routesHistory>>

\* Mutated form: a rename that fails is not noticed.
RenameUnchecked(p) ==
  /\ server = "up" /\ at[p] = "written"
  /\ at' = [at EXCEPT ![p] = "renamed"]
  /\ \/ /\ tmp # None
        /\ file' = tmp /\ tmp' = None
        /\ UNCHANGED faults
     \/ /\ Fault
        /\ UNCHANGED <<tmp, file>>
  /\ UNCHANGED <<server, cached, live, body, answer, crashes, routesHistory>>

\* The rename takes whatever the temporary file holds, and fails without one.
Rename(p) ==
  /\ server = "up" /\ at[p] = "written"
  /\ \/ /\ tmp # None
        /\ file' = tmp /\ tmp' = None
        /\ at' = [at EXCEPT ![p] = "renamed"]
        /\ UNCHANGED <<answer, faults>>
     \/ /\ tmp = None
        /\ Respond(p, "persist failed")
        /\ UNCHANGED <<tmp, file, faults>>
     \/ /\ Fault
        /\ Respond(p, "persist failed")
        /\ UNCHANGED <<tmp, file>>
  /\ UNCHANGED <<server, cached, live, body, crashes, routesHistory>>

\* Mutated form: the server gets the routes of the request.
ReloadFromRequest(p) ==
  /\ server = "up" /\ at[p] = "renamed"
  /\ cached' = p /\ live' = p /\ stale' = FALSE
  /\ Respond(p, "ok")
  /\ UNCHANGED <<tmp, file, server, body, faults, crashes, overlapped>>

\* The cache is reset first, and filled again from the file, which takes
\* precedence over the routes of the request put into the environment.  A
\* reload fails before or after that.
Reload(p) ==
  /\ server = "up" /\ at[p] = "renamed"
  /\ \/ /\ Loads(file)
        /\ cached' = file /\ live' = file /\ stale' = FALSE
        /\ Respond(p, "ok")
        /\ UNCHANGED faults
     \/ /\ Loads(file) => faults < MaxFaults
        /\ faults' = IF Loads(file) THEN faults + 1 ELSE faults
        /\ cached' \in IF Loads(file) THEN {None, file} ELSE {None}
        /\ stale' = TRUE
        /\ Respond(p, "reload failed")
        /\ UNCHANGED live
  /\ UNCHANGED <<tmp, file, server, body, crashes, overlapped>>

\* Any use of the configuration fills an empty cache: GET /healthz, say.
ReadConfig ==
  /\ server = "up" /\ cached = None /\ Loads(file)
  /\ cached' = file
  /\ UNCHANGED <<tmp, file, server, live, at, body, answer, faults, crashes, routesHistory>>

\* A write in progress is cut off; requests in flight get no answer.
Crash ==
  /\ server = "up" /\ crashes < MaxCrashes
  /\ crashes' = crashes + 1
  /\ server' = "down" /\ cached' = None
  /\ tmp' \in IF \E p \in Puts : at[p] = "writing" THEN {tmp, Torn} ELSE {tmp}
  /\ at' = [p \in Puts |-> IF p \in InFlight THEN "cut" ELSE at[p]]
  /\ UNCHANGED <<file, live, body, answer, faults, routesHistory>>

Restart ==
  /\ server = "down"
  /\ server' = IF Loads(file) THEN "up" ELSE "broken"
  /\ cached' = IF Loads(file) THEN file ELSE None
  /\ live' = IF Loads(file) THEN file ELSE live
  /\ stale' = FALSE
  /\ UNCHANGED <<tmp, file, at, body, answer, faults, crashes, overlapped>>

RoutesNext ==
  \/ \E p \in Puts :
       Receive(p) \/ WriteTmp(p) \/ WriteTmpFails(p) \/ Rename(p) \/ Reload(p)
  \/ ReadConfig \/ Crash \/ Restart

RoutesSpec == RoutesInit /\ [][RoutesNext]_routesVars

-----------------------------------------------------------------------------
RoutesTypeOK ==
  /\ tmp \in Routes \cup {None, Torn}
  /\ file \in Routes \cup {Torn}
  /\ server \in {"up", "down", "broken"}
  /\ cached \in Routes \cup {None}
  /\ live \in Routes
  /\ at \in [Puts -> {"new", "writing", "written", "renamed", "answered", "cut"}]
  /\ body \in [Puts -> (UNION {Bodies[p] : p \in Puts}) \cup {<< >>}]
  /\ answer \in [Puts -> {"ok", "invalid", "persist failed", "reload failed", None}]
  /\ stale \in BOOLEAN /\ overlapped \in BOOLEAN
  /\ faults \in 0..MaxFaults /\ crashes \in 0..MaxCrashes

(* Once every request is answered, and unless the last reload failed, the  *)
(* server answers the routes a restart would give it, in whatever order    *)
(* overlapping requests wrote, renamed and reloaded.                       *)
LiveIsFile == server = "up" /\ InFlight = {} /\ ~ stale => live = file

(* "Atomic: write to <path>.tmp, then rename to <path>" (routesFile.ts:21): *)
(* no failed write and no crash leaves a routes file that cannot be read,  *)
(* as long as requests come one at a time.                                 *)
FileIsWhole == ~ overlapped => file # Torn

(* Whatever list of routes was put, in whatever order: each live route has  *)
(* its handler in the table, and none stands in the place of another route  *)
(* or of an endpoint, /admin/routes itself among them (reservedPaths.ts:2).*)
EveryRouteIsServed ==
  server = "up" => AllAreServed(Contents(live), Endpoints, Table)

(* The table of failures (2026-05-20-admin-routes-endpoint-design.md:      *)
(* 128-136): "ok" means persisted and live, "persist failed" neither the   *)
(* one nor the other, "reload failed" persisted but not live.              *)
Truthful ==
  \A p \in Puts : answer[p] = None =>
    /\ answer'[p] = "ok" => file' = p /\ live' = p
    /\ answer'[p] = "persist failed" => file' # p /\ live' # p
    /\ answer'[p] = "reload failed" => file' = p /\ live' # p

(* Requests that come one at a time are answered by that table, whatever   *)
(* file operation fails and wherever an earlier process crashed.           *)
AnswersAreTrue == [][ ~ overlapped' => Truthful ]_routesVars

-----------------------------------------------------------------------------
(* What the repository says, and the code does not do: the table makes no  *)
(* exception for requests that overlap, and they share one temporary file. *)
AnswersAreAlwaysTrue == [][ Truthful ]_routesVars

=============================================================================
