------------------------------- MODULE Clients -------------------------------
(***************************************************************************)
(* The ways to ask for a route: `roughroute route` (crates/cli/src/main.rs *)
(* and export.rs), the WASM module (crates/wasm) and the C bindings        *)
(* (crates/ffi).  Each turns a request into one call of Router::route and  *)
(* the outcome into a reply of its own; "rust" is a caller of the library, *)
(* who also asks for the nearest node or road and takes what is returned.  *)
(*                                                                         *)
(* Loading the graph is GraphFile's part: a client that cannot load one    *)
(* never comes here.  Wording and number formats are left out.             *)
(***************************************************************************)
EXTENDS Query

CONSTANTS
    Requests,       \* see IsRequest
    DefaultMax,     \* RouteOptions::default().max_snap_meters
    Absent          \* an optional field left out

\* max and fallback are what the client was told, Absent if nothing.
IsRequest(r) ==
    /\ r.client \in {"rust", "cli", "wasm", "ffi"}
    /\ r.kind \in IF r.client = "rust" THEN {"node", "road", "route"} ELSE {"route"}
    /\ r.points \in Seq(Point \cup {NoNumber})
    /\ r.kind # "route" => Len(r.points) = 1
    /\ r.format \in {"record", "json", "geojson", "gpx"}
    /\ r.wellformed \in BOOLEAN
    /\ r.profile \in Profiles
    /\ r.max \in Int \cup {Absent} /\ r.fallback \in BOOLEAN \cup {Absent}
    /\ r.client = "ffi" => r.max = Absent /\ r.fallback = Absent

ASSUME RequestAssumption ==
    DefaultMax \in Nat /\ \A r \in Requests : IsRequest(r)

VARIABLES request, reply

clientVars == <<vars, request, reply>>

----------------------------------------------------------------------------
(* From a request to a call *)

\* Faulty: an option left out is a refusal.
BugDefaultFallback == FALSE

DefaultFallback == TRUE

Option(given, default) == IF given = Absent THEN default ELSE given

\* The options Router::new is given: the wrapper of the C bindings never sets
\* the last two.
CallOf(r) ==
    LET max == IF r.client = "ffi" THEN Absent ELSE r.max
        straight == IF r.client = "ffi" THEN Absent ELSE r.fallback
    IN  [kind |-> r.kind, graph |-> r.graph, points |-> r.points, profile |-> r.profile,
         max |-> Option(max, DefaultMax), fallback |-> Option(straight, DefaultFallback)]

\* A point the command line takes: NaN lies in no range.
OnGlobe(p) ==
    /\ p # NoNumber
    /\ -QuarterCircle <= Lat(p) /\ Lat(p) <= QuarterCircle
    /\ -HalfCircle <= Lon(p) /\ Lon(p) <= HalfCircle

\* parse_latlon fails, or serde_wasm_bindgen::from_value.
Unreadable(r) ==
    \/ r.client \in {"cli", "wasm"} /\ ~r.wellformed
    \/ r.client = "cli" /\ \E i \in DOMAIN r.points : ~OnGlobe(r.points[i])

ClientInit ==
    /\ \E name \in DOMAIN Graphs : /\ g = Graphs[name]
                                  /\ request \in {r \in Requests : r.graph = name}
    /\ call = CallOf(request)
    /\ reply = None
    /\ Begin

\* The request never reaches the router.
RefuseRequest ==
    /\ Unreadable(request) /\ reply = None
    /\ reply' = [tag |-> "Err", kind |-> "Unreadable"]
    /\ UNCHANGED <<vars, request>>

----------------------------------------------------------------------------
(* From the outcome to a reply *)

\* Axis order of a format.
Flipped(points) == [i \in DOMAIN points |-> <<Lon(points[i]), Lat(points[i])>>]

\* to_contract_json, to_geojson and to_gpx; the records of WASM and of
\* the C bindings hold what the JSON contract does.
Rendered(format) ==
    [tag |-> "Ok", format |-> format,
     points |-> IF format = "geojson" THEN Flipped(line) ELSE line,
     fallback |-> IF format = "gpx" THEN None ELSE fallback]

\* From<RouteError> for RouterError: three names for four errors.
FfiError(kind) == IF kind = "TooFewWaypoints" THEN kind ELSE "SnapTooFar"

ErrorOf(client, kind) == IF client = "ffi" THEN FfiError(kind) ELSE kind

Reply ==
    /\ pc = "done" /\ reply = None /\ request.client # "rust"
    /\ reply' = IF result.tag = "Err"
                THEN [tag |-> "Err", kind |-> ErrorOf(request.client, result.kind)]
                ELSE Rendered(request.format)
    /\ UNCHANGED <<vars, request>>

\* The router at work for a client.
Route ==
    /\ ~Unreadable(request) /\ reply = None
    /\ pc # "done" \/ request.client = "rust"
    /\ Next
    /\ UNCHANGED <<request, reply>>

Replied == reply # None /\ UNCHANGED clientVars

ClientNext == RefuseRequest \/ Route \/ Reply \/ Replied

ClientSpec == ClientInit /\ [][ClientNext]_clientVars

----------------------------------------------------------------------------
(* Properties *)

\* A reply read by the rules of its format (GeoJSON puts the longitude first)
\* is a line of two or more points on the globe, from the first snap to the
\* last, and where the format has a place for it, says whether a leg is
\* straight; an error names what happened, in the three names of the C
\* bindings too, which have none for a missing path or a bad cutoff.
RepliesAreTrue ==
    reply # None =>
        IF reply.tag = "Ok"
        THEN LET points == IF reply.format = "geojson" THEN Flipped(reply.points) ELSE reply.points
             IN  /\ Len(points) >= 2
                 /\ \A i \in DOMAIN points : OnGlobe(points[i])
                 /\ points[1] = Wrapped(snapped[1].point)
                 /\ Last(points) = Wrapped(Last(snapped).point)
                 /\ reply.fallback # None =>
                        (reply.fallback => Option(request.fallback, TRUE))
        ELSE \/ reply.kind = "Unreadable"
             \/ reply.kind = "TooFewWaypoints" /\ Len(request.points) < 2
             \/ /\ reply.kind = "SnapTooFar"
                /\ Len(snapped) < Len(request.points)
                /\ best = None \/ best.d2 > call.max * call.max
             \/ reply.kind = "NoPath" /\ ~Option(request.fallback, TRUE)
             \/ reply.kind = "InvalidMaxSnapMeters" /\ request.max < 0
=============================================================================
