--------------------------- MODULE RouteAdminProofs ---------------------------
(***************************************************************************)
(* Theorems about the replacement of the routes, for any number of         *)
(* requests, whatever lists of routes they bring, and any number of        *)
(* failures and crashes.                                                   *)
(***************************************************************************)
EXTENDS RouteAdmin, TLAPS

USE RouteAdminAssumption

-----------------------------------------------------------------------------
\* The routes schema knows every endpoint of the gateway as taken, with a
\* name in place of a parameter.
LEMMA EndpointsAreReserved ==
  /\ IsReservedPath(Healthz)
  /\ \A path \in Endpoints : IsReservedPath(path)
  <1>1. \A path \in ReservedPaths : IsReservedPath(path)
    BY DEF IsReservedPath
  <1>2. Healthz \in ReservedPaths /\ AdminRoutes \in ReservedPaths /\ <<"admin", "dlq">> \in ReservedPaths
    BY DEF Healthz, AdminRoutes, ReservedPaths
  <1>3. ASSUME NEW c PROVE IsReservedPath(<<"admin", "replay", c>>)
    BY DEF IsReservedPath, ReservedPrefixes
  <1>4. ASSUME NEW c, NEW d PROVE IsReservedPath(<<"admin", "replay", c, d>>)
    BY DEF IsReservedPath, ReservedPrefixes
  <1>5. \A path \in ReplayEndpoints : IsReservedPath(path)
    BY <1>1, <1>2, <1>3, <1>4 DEF ReplayEndpoints
  <1> QED
    BY <1>1, <1>2, <1>5 DEF Endpoints, AdminEndpoints

\* The last route of a path is the only one with it.
LEMMA LastIsOnly ==
  ASSUME NEW routes, IsAList(routes), AllDiffer(routes), NEW i \in DOMAIN routes
  PROVE  LastWith(routes, routes[i].path) = i
  <1>1. \A k \in DOMAIN routes : routes[k].path = routes[i].path => k = i
    BY DEF IsAList, AllDiffer
  <1>2. i \in DOMAIN routes /\ \A k \in DOMAIN routes : routes[k].path = routes[i].path => k <= i
    BY <1>1 DEF IsAList
  <1> QED
    BY <1>1, <1>2 DEF LastWith

\* A list the schema accepts is served as it is, next to the endpoints.
LEMMA AcceptedAreServed ==
  ASSUME NEW routes, IsAList(routes), Accepted(routes)
  PROVE  AllAreServed(routes, Endpoints, BuildRoutes(routes, Endpoints))
  <1> DEFINE table == BuildRoutes(routes, Endpoints)
  <1>1. \A i \in DOMAIN routes : ~ IsReservedPath(routes[i].path)
    BY DEF Accepted, RouteIsValid
  <1>2. PathsOf(routes) \cap ({Healthz} \cup Endpoints) = {}
    BY <1>1, EndpointsAreReserved DEF PathsOf
  <1>3. ASSUME NEW path \in {Healthz} \cup Endpoints
        PROVE  table[path] = Operation(path)
    BY <1>2, <1>3 DEF BuildRoutes
  <1>4. ASSUME NEW i \in DOMAIN routes
        PROVE  table[routes[i].path] = Webhook(routes[i])
    <2>1. routes[i].path \in PathsOf(routes) /\ routes[i].path \notin Endpoints
      BY <1>2 DEF PathsOf
    <2>2. table[routes[i].path] = Webhook(routes[LastWith(routes, routes[i].path)])
      BY <2>1 DEF BuildRoutes
    <2> QED
      BY <2>2, LastIsOnly DEF Accepted
  <1> QED
    BY <1>3, <1>4 DEF AllAreServed

-----------------------------------------------------------------------------
(* What the temporary file, the routes file and the server hold is what    *)
(* some request brought that got as far as that.                           *)
Past(stages, name) == name \in Puts => at[name] \in stages

Begun == {"writing", "written", "renamed", "answered", "cut"}

Origin ==
  /\ Past(Begun, tmp) /\ Past(Begun, file) /\ Past(Begun, live)
  /\ IsAList(Contents(live)) /\ Accepted(Contents(live))
  /\ \A p \in Puts : IsAList(body[p])

(* A reload that nobody has answered yet is all that may keep the server   *)
(* from the routes of the file.                                            *)
Settled ==
  server = "up" /\ ~ stale /\ (\A p \in Puts : at[p] # "renamed") => live = file

(* One request at a time: the temporary file is its own.                   *)
Alone ==
  /\ \A p, q \in InFlight : p = q
  /\ file # Torn
  /\ \A p \in Puts :
       /\ at[p] = "written" => tmp = p
       /\ at[p] = "renamed" => file = p
       /\ file = p => at[p] \in {"renamed", "answered", "cut"}
       /\ live = p => at[p] \in {"answered", "cut"}

(* No request outlives the process that handles it.                        *)
Handled == server # "up" => InFlight = {}

IInv == RoutesTypeOK /\ Origin /\ Settled /\ Handled /\ (~ overlapped => Alone)

(* The type invariant in two parts.                                        *)
AllBodies == (UNION {Bodies[p] : p \in Puts}) \cup {<< >>}

RequestsOK ==
  /\ at \in [Puts -> {"new", "writing", "written", "renamed", "answered", "cut"}]
  /\ body \in [Puts -> AllBodies]
  /\ answer \in [Puts -> {"ok", "invalid", "persist failed", "reload failed", None}]

RestOK ==
  /\ tmp \in Routes \cup {None, Torn}
  /\ file \in Routes \cup {Torn}
  /\ server \in {"up", "down", "broken"}
  /\ cached \in Routes \cup {None}
  /\ live \in Routes
  /\ stale \in BOOLEAN /\ overlapped \in BOOLEAN
  /\ faults \in 0..MaxFaults /\ crashes \in 0..MaxCrashes

LEMMA TypeParts == RoutesTypeOK <=> RequestsOK /\ RestOK
  BY DEF RoutesTypeOK, RequestsOK, RestOK, AllBodies

LEMMA TypePartsThen == RoutesTypeOK' <=> RequestsOK' /\ RestOK'
  BY TypeParts, PTL

\* No step counts past a bound.
LEMMA CountsStay ==
  ASSUME IInv,
         faults' = faults \/ (faults < MaxFaults /\ faults' = faults + 1),
         crashes' = crashes \/ (crashes < MaxCrashes /\ crashes' = crashes + 1)
  PROVE  faults' \in 0..MaxFaults /\ crashes' \in 0..MaxCrashes
  <1>1. faults \in 0..MaxFaults /\ crashes \in 0..MaxCrashes /\ MaxFaults \in Nat /\ MaxCrashes \in Nat
    BY TypeParts DEF IInv, RestOK
  <1> QED
    BY <1>1

\* It holds at the start.
LEMMA InitIInv == RoutesInit => IInv
  <1> SUFFICES ASSUME RoutesInit PROVE IInv
    OBVIOUS
  <1> USE DEF RoutesInit
  <1>1. RoutesTypeOK
    <2>1. << >> \in AllBodies
      BY DEF AllBodies
    <2>2. RequestsOK
      <3>1. body \in [Puts -> AllBodies]
        BY <2>1, Zenon
      <3>2. /\ at \in [Puts -> {"new", "writing", "written", "renamed", "answered", "cut"}]
            /\ answer \in [Puts -> {"ok", "invalid", "persist failed", "reload failed", None}]
        OBVIOUS
      <3> QED
        BY <3>1, <3>2 DEF RequestsOK
    <2>3. RestOK
      <3>1. faults \in 0..MaxFaults /\ crashes \in 0..MaxCrashes
        OBVIOUS
      <3>2. Initial \in Routes
        BY DEF Routes
      <3> QED
        BY <3>1, <3>2, Zenon DEF RestOK
    <2> QED
      BY <2>2, <2>3, TypeParts
  <1>2. IsAList(<< >>)
    BY DEF IsAList
  <1>3. Origin
    BY <1>2 DEF Origin, Past, Contents
  <1>4. Settled /\ Handled /\ Alone
    BY DEF Settled, Handled, Alone, InFlight, Initial, Torn
  <1> QED
    BY <1>1, <1>3, <1>4 DEF IInv

-----------------------------------------------------------------------------
\* What the names stand for is settled when a request is accepted.
LEMMA ContentsStay ==
  ASSUME IInv, NEW name \in Routes, Past(Begun, name),
         \A p \in Puts : at[p] \in Begun => body'[p] = body[p]
  PROVE  Contents(name)' = Contents(name)
  BY DEF Contents, Past, Routes

\* A request comes in, and may be the second of two.
LEMMA ReceiveIInv ==
  ASSUME IInv, NEW p \in Puts, Receive(p)
  PROVE  IInv'
  <1> USE DEF IInv
  <1>1. at[p] = "new" /\ UNCHANGED <<tmp, file, server, cached, live, stale, faults, crashes>>
    BY DEF Receive
  <1>2. \/ Refuse(p)
        \/ \E routes \in Bodies[p] : Accept(p, routes)
    BY DEF Receive
  <1>3. CASE Refuse(p)
    <2> USE <1>1, <1>3 DEF Refuse, Respond
    <2>1. RoutesTypeOK'
      BY DEF RoutesTypeOK
    <2>2. Origin'
      BY DEF Origin, Past, Begun, RoutesTypeOK, Contents
    <2>3. Settled' /\ Handled'
      <3>1. \A q \in Puts : at'[q] = "renamed" <=> at[q] = "renamed"
        BY DEF RoutesTypeOK
      <3> QED
        BY <3>1 DEF Settled, Handled, Receive
    <2>4. ~ overlapped' => Alone'
      BY DEF Alone, InFlight, RoutesTypeOK
    <2> QED
      BY <2>1, <2>2, <2>3, <2>4
  <1>4. CASE \E routes \in Bodies[p] : Accept(p, routes)
    <2>1. PICK routes \in Bodies[p] : Accept(p, routes)
      BY <1>4
    <2> USE <1>1, <2>1 DEF Accept
    <2>2. IsAList(routes)
      OBVIOUS
    <2>3. RoutesTypeOK'
      BY DEF RoutesTypeOK
    <2>4. \A q \in Puts : at[q] \in Begun => body'[q] = body[q]
      BY DEF Begun, RoutesTypeOK
    <2>5. Origin'
      <3>1. Past(Begun, tmp)' /\ Past(Begun, file)' /\ Past(Begun, live)'
        BY DEF Origin, Past, Begun, RoutesTypeOK
      <3>2. Contents(live)' = Contents(live)
        BY <2>4, ContentsStay DEF Origin, RoutesTypeOK
      <3>3. \A q \in Puts : IsAList(body'[q])
        BY <2>2 DEF Origin, RoutesTypeOK
      <3> QED
        BY <3>1, <3>2, <3>3 DEF Origin
    <2>6. Settled' /\ Handled'
      <3>1. \A q \in Puts : at'[q] = "renamed" <=> at[q] = "renamed"
        BY DEF RoutesTypeOK
      <3> QED
        BY <3>1 DEF Settled, Handled, Receive
    <2>7. ~ overlapped' => Alone'
      <3> SUFFICES ASSUME ~ overlapped' PROVE Alone'
        OBVIOUS
      <3>1. ~ overlapped /\ InFlight = {}
        BY DEF RoutesTypeOK
      <3>2. InFlight' \subseteq {p}
        BY <3>1 DEF InFlight, RoutesTypeOK
      <3> QED
        BY <3>1, <3>2 DEF Alone, RoutesTypeOK
    <2> QED
      BY <2>3, <2>5, <2>6, <2>7
  <1> QED
    BY <1>2, <1>3, <1>4

\* What keeps the bodies keeps what the names stand for.
LEMMA OriginStays ==
  ASSUME IInv, body' = body, live' = live,
         Past(Begun, tmp)', Past(Begun, file)', Past(Begun, live)'
  PROVE  Origin'
  BY DEF IInv, Origin, Contents

LEMMA WriteIInv ==
  ASSUME IInv, NEW p \in Puts, WriteTmp(p) \/ WriteTmpFails(p)
  PROVE  IInv'
  <1> USE DEF IInv, WriteTmp, WriteTmpFails, routesHistory, Fault, Respond
  <1>1. RoutesTypeOK'
    <2>1. RequestsOK'
      <3>1. body' \in [Puts -> AllBodies]
        BY TypeParts DEF RequestsOK
      <3>2. at' \in [Puts -> {"new", "writing", "written", "renamed", "answered", "cut"}]
        BY TypeParts DEF RequestsOK
      <3>3. answer' \in [Puts -> {"ok", "invalid", "persist failed", "reload failed", None}]
        BY TypeParts DEF RequestsOK
      <3> QED
        BY <3>1, <3>2, <3>3 DEF RequestsOK
    <2>2. RestOK'
      <3>1. faults' \in 0..MaxFaults /\ crashes' \in 0..MaxCrashes
        <4>1. faults' = faults \/ (faults < MaxFaults /\ faults' = faults + 1)
          BY Zenon
        <4>2. crashes' = crashes \/ (crashes < MaxCrashes /\ crashes' = crashes + 1)
          BY Zenon
        <4> QED
          BY <4>1, <4>2, CountsStay
      <3>2. tmp' \in Routes \cup {None, Torn} /\ file' \in Routes \cup {Torn}
        BY TypeParts DEF RestOK, Routes
      <3>3. /\ server' \in {"up", "down", "broken"}
            /\ cached' \in Routes \cup {None} /\ live' \in Routes
        BY TypeParts DEF RestOK, Routes
      <3>4. stale' \in BOOLEAN /\ overlapped' \in BOOLEAN
        BY TypeParts DEF RestOK
      <3> QED
        BY <3>1, <3>2, <3>3, <3>4 DEF RestOK
    <2> QED
      BY <2>1, <2>2, TypePartsThen
  <1>2. Origin'
    BY OriginStays DEF Origin, Past, Begun, RoutesTypeOK, Torn
  <1>3. Settled' /\ Handled'
    BY DEF Settled, Handled, RoutesTypeOK
  <1>4. at'[p] \in {"written", "answered"} /\ \A q \in Puts \ {p} : at'[q] = at[q]
    BY DEF RoutesTypeOK
  <1>5. ~ overlapped' => Alone'
    <2> SUFFICES ASSUME Alone PROVE Alone'
      BY DEF RoutesTypeOK
    <2>1. InFlight' \subseteq InFlight /\ \A q \in Puts : at'[q] = "written" => q = p
      BY <1>4 DEF InFlight, Alone
    <2>2. at'[p] = "written" => tmp' = p
      BY DEF RoutesTypeOK
    <2> QED
      BY <1>4, <2>1, <2>2 DEF Alone
  <1> QED
    BY <1>1, <1>2, <1>3, <1>5

LEMMA RenameIInv ==
  ASSUME IInv, NEW p \in Puts, Rename(p)
  PROVE  IInv'
  <1> USE DEF IInv, Rename, routesHistory, Fault, Respond
  <1>1. RoutesTypeOK'
    <2>1. RequestsOK'
      <3>1. body' \in [Puts -> AllBodies]
        BY TypeParts DEF RequestsOK
      <3>2. at' \in [Puts -> {"new", "writing", "written", "renamed", "answered", "cut"}]
        BY TypeParts DEF RequestsOK
      <3>3. answer' \in [Puts -> {"ok", "invalid", "persist failed", "reload failed", None}]
        BY TypeParts DEF RequestsOK
      <3> QED
        BY <3>1, <3>2, <3>3 DEF RequestsOK
    <2>2. RestOK'
      <3>1. faults' \in 0..MaxFaults /\ crashes' \in 0..MaxCrashes
        <4>1. faults' = faults \/ (faults < MaxFaults /\ faults' = faults + 1)
          BY Zenon
        <4>2. crashes' = crashes \/ (crashes < MaxCrashes /\ crashes' = crashes + 1)
          BY Zenon
        <4> QED
          BY <4>1, <4>2, CountsStay
      <3>2. tmp' \in Routes \cup {None, Torn} /\ file' \in Routes \cup {Torn}
        BY TypeParts DEF RestOK
      <3>3. /\ server' \in {"up", "down", "broken"}
            /\ cached' \in Routes \cup {None} /\ live' \in Routes
        BY TypeParts DEF RestOK
      <3>4. stale' \in BOOLEAN /\ overlapped' \in BOOLEAN
        BY TypeParts DEF RestOK
      <3> QED
        BY <3>1, <3>2, <3>3, <3>4 DEF RestOK
    <2> QED
      BY <2>1, <2>2, TypePartsThen
  <1>2. Origin'
    BY OriginStays DEF Origin, Past, Begun, RoutesTypeOK
  <1>3. Settled' /\ Handled'
    BY DEF Settled, Handled, RoutesTypeOK
  <1>4. ~ overlapped' => Alone'
    BY DEF Alone, InFlight, RoutesTypeOK
  <1> QED
    BY <1>1, <1>2, <1>3, <1>4

LEMMA ReloadIInv ==
  ASSUME IInv, NEW p \in Puts, Reload(p)
  PROVE  IInv'
  <1> USE DEF IInv, Reload, Respond
  <1>1. RoutesTypeOK'
    <2>1. RequestsOK'
      <3>1. body' \in [Puts -> AllBodies]
        BY TypeParts DEF RequestsOK
      <3>2. at' \in [Puts -> {"new", "writing", "written", "renamed", "answered", "cut"}]
        BY TypeParts DEF RequestsOK
      <3>3. answer' \in [Puts -> {"ok", "invalid", "persist failed", "reload failed", None}]
        BY TypeParts DEF RequestsOK
      <3> QED
        BY <3>1, <3>2, <3>3 DEF RequestsOK
    <2>2. RestOK'
      <3>1. faults' \in 0..MaxFaults /\ crashes' \in 0..MaxCrashes
        <4>1. faults' = faults \/ (faults < MaxFaults /\ faults' = faults + 1)
          BY Zenon
        <4>2. crashes' = crashes \/ (crashes < MaxCrashes /\ crashes' = crashes + 1)
          BY Zenon
        <4> QED
          BY <4>1, <4>2, CountsStay
      <3>2. tmp' \in Routes \cup {None, Torn} /\ file' \in Routes \cup {Torn}
        BY TypeParts DEF RestOK, Loads
      <3>3. /\ server' \in {"up", "down", "broken"}
            /\ cached' \in Routes \cup {None} /\ live' \in Routes
        BY TypeParts DEF RestOK, Loads
      <3>4. stale' \in BOOLEAN /\ overlapped' \in BOOLEAN
        BY TypeParts DEF RestOK
      <3> QED
        BY <3>1, <3>2, <3>3, <3>4 DEF RestOK
    <2> QED
      BY <2>1, <2>2, TypePartsThen
  <1>2. Origin'
    <2>1. Past(Begun, tmp)' /\ Past(Begun, file)' /\ Past(Begun, live)'
      BY DEF Origin, Past, Begun, RoutesTypeOK
    <2>2. CASE live' = live
      BY <2>1, <2>2, OriginStays
    <2>3. CASE Loads(file) /\ live' = file
      <3>1. Accepted(Contents(file)) /\ file \in Routes
        BY <2>3 DEF Loads, RoutesTypeOK
      <3>2. IsAList(Contents(file))
        BY <3>1 DEF Contents, Routes, Origin
      <3>3. Contents(live)' = Contents(file)
        BY <2>3 DEF Contents
      <3>4. \A q \in Puts : IsAList(body'[q])
        BY DEF Origin
      <3> QED
        BY <2>1, <3>1, <3>2, <3>3, <3>4 DEF Origin
    <2> QED
      BY <2>2, <2>3
  <1>3. Settled' /\ Handled'
    BY DEF Settled, Handled, RoutesTypeOK
  <1>4. ~ overlapped' => Alone'
    BY DEF Alone, InFlight, RoutesTypeOK
  <1> QED
    BY <1>1, <1>2, <1>3, <1>4

LEMMA ReadConfigIInv ==
  ASSUME IInv, ReadConfig
  PROVE  IInv'
  <1> USE DEF IInv, ReadConfig, routesHistory
  <1>1. RoutesTypeOK'
    BY DEF RoutesTypeOK, Loads
  <1>2. Origin'
    BY OriginStays DEF Origin, Past
  <1>3. Settled' /\ Handled' /\ (~ overlapped' => Alone')
    BY DEF Settled, Handled, Alone, InFlight
  <1> QED
    BY <1>1, <1>2, <1>3

\* The requests in flight are cut off; the files stay as they are.
LEMMA CrashIInv ==
  ASSUME IInv, Crash
  PROVE  IInv'
  <1> USE DEF IInv, Crash, routesHistory
  <1>1. RoutesTypeOK'
    <2>1. RequestsOK'
      <3>1. body' \in [Puts -> AllBodies]
        BY TypeParts DEF RequestsOK
      <3>2. at' \in [Puts -> {"new", "writing", "written", "renamed", "answered", "cut"}]
        BY TypeParts DEF RequestsOK
      <3>3. answer' \in [Puts -> {"ok", "invalid", "persist failed", "reload failed", None}]
        BY TypeParts DEF RequestsOK
      <3> QED
        BY <3>1, <3>2, <3>3 DEF RequestsOK
    <2>2. RestOK'
      <3>1. faults' \in 0..MaxFaults /\ crashes' \in 0..MaxCrashes
        <4>1. faults' = faults \/ (faults < MaxFaults /\ faults' = faults + 1)
          BY Zenon
        <4>2. crashes' = crashes \/ (crashes < MaxCrashes /\ crashes' = crashes + 1)
          BY Zenon
        <4> QED
          BY <4>1, <4>2, CountsStay
      <3>2. tmp' \in Routes \cup {None, Torn} /\ file' \in Routes \cup {Torn}
        BY TypeParts DEF RestOK
      <3>3. /\ server' \in {"up", "down", "broken"}
            /\ cached' \in Routes \cup {None} /\ live' \in Routes
        BY TypeParts DEF RestOK
      <3>4. stale' \in BOOLEAN /\ overlapped' \in BOOLEAN
        BY TypeParts DEF RestOK
      <3> QED
        BY <3>1, <3>2, <3>3, <3>4 DEF RestOK
    <2> QED
      BY <2>1, <2>2, TypePartsThen
  <1>2. Origin'
    BY OriginStays DEF Origin, Past, Begun, InFlight, RoutesTypeOK, Torn
  <1>3. Settled'
    BY DEF Settled
  <1>4. InFlight' = {}
    BY DEF InFlight
  <1>5. ~ overlapped' => Alone'
    BY <1>4 DEF Alone, InFlight, RoutesTypeOK
  <1> QED
    BY <1>1, <1>2, <1>3, <1>4, <1>5 DEF Handled

LEMMA RestartIInv ==
  ASSUME IInv, Restart
  PROVE  IInv'
  <1> USE DEF IInv, Restart
  <1>1. RoutesTypeOK'
    BY DEF RoutesTypeOK, Loads
  <1>2. Origin'
    <2>1. Past(Begun, tmp)' /\ Past(Begun, file)' /\ Past(Begun, live)'
      BY DEF Origin, Past
    <2>2. CASE live' = live
      BY <2>1, <2>2, OriginStays
    <2>3. CASE Loads(file) /\ live' = file
      <3>1. Accepted(Contents(file)) /\ file \in Routes
        BY <2>3 DEF Loads, RoutesTypeOK
      <3>2. IsAList(Contents(file))
        BY <3>1 DEF Contents, Routes, Origin
      <3>3. Contents(live)' = Contents(file)
        BY <2>3 DEF Contents
      <3>4. \A q \in Puts : IsAList(body'[q])
        BY DEF Origin
      <3> QED
        BY <2>1, <3>1, <3>2, <3>3, <3>4 DEF Origin
    <2> QED
      BY <2>2, <2>3
  <1>3. Settled' /\ Handled'
    BY DEF Settled, Handled, InFlight
  <1>4. ~ overlapped' => Alone'
    BY DEF Alone, InFlight, Handled
  <1> QED
    BY <1>1, <1>2, <1>3, <1>4

LEMMA StutterIInv ==
  ASSUME IInv, UNCHANGED routesVars
  PROVE  IInv'
  <1> USE DEF IInv, routesVars, routesHistory
  <1>1. RoutesTypeOK'
    BY DEF RoutesTypeOK
  <1>2. Origin'
    BY OriginStays DEF Origin, Past
  <1>3. Settled' /\ Handled' /\ (~ overlapped' => Alone')
    BY DEF Settled, Handled, Alone, InFlight
  <1> QED
    BY <1>1, <1>2, <1>3

\* Every step keeps the invariant.
LEMMA NextIInv == IInv /\ [RoutesNext]_routesVars => IInv'
  <1> SUFFICES ASSUME IInv, [RoutesNext]_routesVars PROVE IInv'
    OBVIOUS
  <1> QED
    BY ReceiveIInv, WriteIInv, RenameIInv, ReloadIInv, ReadConfigIInv, CrashIInv, RestartIInv,
       StutterIInv DEF RoutesNext

LEMMA IInvAlways == RoutesSpec => []IInv
  BY InitIInv, NextIInv, PTL DEF RoutesSpec

-----------------------------------------------------------------------------
(* The variables stay in their types.                                       *)
THEOREM RoutesTypeCorrect == RoutesSpec => []RoutesTypeOK
  <1>1. IInv => RoutesTypeOK
    BY DEF IInv
  <1> QED
    BY <1>1, IInvAlways, PTL

(* Once all requests are answered, and unless the last reload failed, the   *)
(* server answers what a restart would read from the file, whatever the     *)
(* order in which overlapping requests got there (routesEndpoint.ts:18-46). *)
THEOREM LiveIsFileHolds == RoutesSpec => []LiveIsFile
  <1>1. IInv => LiveIsFile
    BY DEF IInv, Settled, LiveIsFile, InFlight
  <1> QED
    BY <1>1, IInvAlways, PTL

(* Requests that come one at a time never leave half a routes file, however *)
(* many writes fail and processes crash (routesFile.ts:21-31).              *)
THEOREM FileIsWholeHolds == RoutesSpec => []FileIsWhole
  <1>1. IInv => FileIsWhole
    BY DEF IInv, Alone, FileIsWhole
  <1> QED
    BY <1>1, IInvAlways, PTL

(* Whatever list of routes is put, no route takes the place of another or   *)
(* of an endpoint in the table (reservedPaths.ts:20-33, schemas.ts:209-241, *)
(* routes.ts:43-151).                                                       *)
THEOREM EveryRouteIsServedHolds == RoutesSpec => []EveryRouteIsServed
  <1>1. IInv => EveryRouteIsServed
    BY AcceptedAreServed DEF IInv, Origin, EveryRouteIsServed, Table
  <1> QED
    BY <1>1, IInvAlways, PTL

(* Requests that come one at a time are told the truth: "ok" is persisted   *)
(* and live, the failures are what the design says they are.                *)
THEOREM AnswersAreTrueHolds == RoutesSpec => AnswersAreTrue
  <1>1. IInv /\ IInv' /\ [RoutesNext]_routesVars => [ ~ overlapped' => Truthful ]_routesVars
    <2> SUFFICES ASSUME IInv, RoutesNext, ~ overlapped', NEW p \in Puts, answer[p] = None,
                        answer'[p] # None
                 PROVE  /\ answer'[p] = "ok" => file' = p /\ live' = p
                        /\ answer'[p] = "persist failed" => file' # p /\ live' # p
                        /\ answer'[p] = "reload failed" => file' = p /\ live' # p
      BY DEF Truthful, None
    <2>1. ~ overlapped /\ Alone
      BY DEF IInv, RoutesTypeOK, RoutesNext, Receive, Refuse, Accept, WriteTmp, WriteTmpFails, Rename, Reload,
             ReadConfig, Crash, Restart, routesHistory
    <2>2. \/ Receive(p) \/ WriteTmpFails(p) \/ Rename(p) \/ Reload(p)
      <3>1. ASSUME NEW q \in Puts, q # p,
                   Receive(q) \/ WriteTmp(q) \/ WriteTmpFails(q) \/ Rename(q) \/ Reload(q)
            PROVE  answer'[p] = answer[p]
        BY <3>1 DEF IInv, RoutesTypeOK, Receive, Refuse, Accept, WriteTmp, WriteTmpFails, Rename, Reload, Respond
      <3>2. ~ (WriteTmp(p) \/ ReadConfig \/ Crash \/ Restart)
        BY DEF WriteTmp, ReadConfig, Crash, Restart
      <3> QED
        BY <3>1, <3>2 DEF RoutesNext
    <2>3. CASE Receive(p)
      BY <2>3 DEF Receive, Refuse, Accept, Respond, IInv, RoutesTypeOK
    <2>4. CASE WriteTmpFails(p)
      BY <2>1, <2>4 DEF WriteTmpFails, Respond, Alone, IInv, RoutesTypeOK
    <2>5. CASE Rename(p)
      BY <2>1, <2>5 DEF Rename, Respond, Alone, IInv, RoutesTypeOK
    <2>6. CASE Reload(p)
      BY <2>1, <2>6 DEF Reload, Respond, Alone, IInv, RoutesTypeOK
    <2> QED
      BY <2>2, <2>3, <2>4, <2>5, <2>6
  <1> QED
    BY <1>1, IInvAlways, PTL DEF RoutesSpec, AnswersAreTrue

=============================================================================
