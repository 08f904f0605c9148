-------------------------------- MODULE Routes --------------------------------
(***************************************************************************)
(* Routes and their numbered stops                                         *)
(* (src/modules/scheduling/routes.service.ts), with the one operation on   *)
(* bookings that they depend on, the change of a booking's crew.           *)
(*                                                                         *)
(* Positions are computed from what was read one call earlier.  The unique *)
(* index on (route, position) is not deferrable: Postgres checks it after  *)
(* every single update, also inside a transaction.  Transactions that only *)
(* write constants by id hold their row locks to the end, so one that      *)
(* commits acts as a single step.                                          *)
(***************************************************************************)
EXTENDS Naturals, FiniteSets, FiniteSetsExt

CONSTANTS
    Crew,
    Date,
    Booking,
    Stop,           \* pool of RouteStop ids
    Request,        \* requests that may be in progress at once
    NoRoute, NoBooking

\* The unique index on (crew, date) makes a route its crew and its date.
Route == Crew \X Date

CrewOf(rt) == rt[1]

ASSUME NullAssumption ==
    NoRoute \notin Route /\ NoBooking \notin Booking

ASSUME StopAssumption == IsFiniteSet(Stop)

VARIABLES
    routes,     \* the routes created so far
    crew,       \* Booking.crewId
    moved,      \* bookings whose crew was ever changed
    at,         \* RouteStop.routeId, NoRoute where there is no row
    of,         \* RouteStop.bookingId
    pos,        \* RouteStop.position
    fresh,      \* stop ids not used yet
    pc,         \* the database call a request makes next
    rroute,     \* the route it works on
    rbooking,   \* the booking it adds
    order,      \* the position it will give to each stop of a list it has read
    last,       \* the highest position it has read
    disturbed   \* routes on which requests overlapped or one was cut short

bookingVars == <<crew, moved>>
stopVars    == <<at, of, pos, fresh>>
reqVars     == <<pc, rroute, rbooking, order, last>>
vars        == <<routes, bookingVars, stopVars, reqVars, disturbed>>

Position == 0 .. Cardinality(Stop)

TypeOK ==
    /\ routes \in SUBSET Route
    /\ crew \in [Booking -> Crew]
    /\ moved \in SUBSET Booking
    /\ at \in [Stop -> Route \cup {NoRoute}]
    /\ of \in [Stop -> Booking \cup {NoBooking}]
    /\ pos \in [Stop -> Position]
    /\ fresh \in SUBSET Stop
    /\ pc \in [Request -> {"idle", "last", "create", "reorder", "list", "compact"}]
    /\ rroute \in [Request -> Route \cup {NoRoute}]
    /\ rbooking \in [Request -> Booking \cup {NoBooking}]
    /\ order \in [Request -> UNION {[S -> Position] : S \in SUBSET Stop}]
    /\ last \in [Request -> Position]
    /\ disturbed \in SUBSET Route

Init ==
    /\ routes = {}
    /\ crew \in [Booking -> Crew]
    /\ moved = {}
    /\ at = [s \in Stop |-> NoRoute]
    /\ of = [s \in Stop |-> NoBooking]
    /\ pos = [s \in Stop |-> 0]
    /\ fresh = Stop
    /\ pc = [r \in Request |-> "idle"]
    /\ rroute = [r \in Request |-> NoRoute]
    /\ rbooking = [r \in Request |-> NoBooking]
    /\ order = [r \in Request |-> <<>>]
    /\ last = [r \in Request |-> 0]
    /\ disturbed = {}

-----------------------------------------------------------------------------
StopsOf(rt) == {s \in Stop : at[s] = rt}

\* A request starts on a route; it disturbs the route if another is there.
Begin(r, rt, step) ==
    /\ pc[r] = "idle"
    /\ rt \in routes
    /\ pc' = [pc EXCEPT ![r] = step]
    /\ rroute' = [rroute EXCEPT ![r] = rt]
    /\ disturbed' = IF \E q \in Request : rroute[q] = rt
                      THEN disturbed \cup {rt} ELSE disturbed

End(r) ==
    /\ pc' = [pc EXCEPT ![r] = "idle"]
    /\ rroute' = [rroute EXCEPT ![r] = NoRoute]
    /\ rbooking' = [rbooking EXCEPT ![r] = NoBooking]
    /\ order' = [order EXCEPT ![r] = <<>>]
    /\ last' = [last EXCEPT ![r] = 0]

CreateRoute(rt) ==
    /\ rt \notin routes
    /\ routes' = routes \cup {rt}
    /\ UNCHANGED <<bookingVars, stopVars, reqVars, disturbed>>

\* updateBooking moves a booking to another crew without looking at its stop.
ChangeCrew(b, c) ==
    /\ crew[b] # c
    /\ crew' = [crew EXCEPT ![b] = c]
    /\ moved' = moved \cup {b}
    /\ UNCHANGED <<routes, stopVars, reqVars, disturbed>>

-----------------------------------------------------------------------------
\* Faulty variant: the crews are not compared.
AddUnchecked(r, rt, b) ==
    /\ Begin(r, rt, "last")
    /\ rbooking' = [rbooking EXCEPT ![r] = b]
    /\ UNCHANGED <<routes, bookingVars, stopVars, order, last>>

\* addRouteStop: route and booking are read and their crews compared, ...
AddCheck(r, rt, b) ==
    /\ crew[b] = CrewOf(rt)
    /\ Begin(r, rt, "last")
    /\ rbooking' = [rbooking EXCEPT ![r] = b]
    /\ UNCHANGED <<routes, bookingVars, stopVars, order, last>>

\* Faulty variant: the stops are counted instead of asked for the last one.
CountStops(rt) == Cardinality(StopsOf(rt)) - 1

\* ... then the highest position, 0 when there is no stop, ...
LastPosition(rt) == Max({pos[s] : s \in StopsOf(rt)} \cup {0})

AddLast(r) ==
    /\ pc[r] = "last"
    /\ last' = [last EXCEPT ![r] = LastPosition(rroute[r])]
    /\ pc' = [pc EXCEPT ![r] = "create"]
    /\ UNCHANGED <<routes, bookingVars, stopVars, rroute, rbooking, order, disturbed>>

\* The unique indexes on (route, position) and on booking.
Taken(rt, p, b) ==
    \/ \E s \in StopsOf(rt) : pos[s] = p
    \/ \E s \in Stop : at[s] # NoRoute /\ of[s] = b

\* ... then the row is inserted behind it, unless an index refuses it.
AddCreate(r) ==
    /\ pc[r] = "create"
    /\ IF Taken(rroute[r], last[r] + 1, rbooking[r]) THEN UNCHANGED stopVars
       ELSE \E s \in fresh :
                /\ at' = [at EXCEPT ![s] = rroute[r]]
                /\ of' = [of EXCEPT ![s] = rbooking[r]]
                /\ pos' = [pos EXCEPT ![s] = last[r] + 1]
                /\ fresh' = fresh \ {s}
    /\ End(r)
    /\ UNCHANGED <<routes, bookingVars, disturbed>>

-----------------------------------------------------------------------------
\* The list f, a numbering of some stops, is written row by row; a row that is
\* gone, or a position some stop still holds at that moment, rolls it all back.
Refused(rt, f) ==
    \/ \E s \in DOMAIN f : at[s] = NoRoute
    \/ \E s \in DOMAIN f, t \in StopsOf(rt) :
        t # s /\ pos[t] = f[s] /\ ~ (t \in DOMAIN f /\ f[t] < f[s])

Renumber(rt, f) ==
    /\ pos' = IF Refused(rt, f) THEN pos
              ELSE [s \in Stop |-> IF s \in DOMAIN f THEN f[s] ELSE pos[s]]
    /\ UNCHANGED <<at, of, fresh>>

Numberings(S) ==
    {f \in [S -> 1 .. Cardinality(S)] : \A s, t \in S : s # t => f[s] # f[t]}

\* reorderRouteStops: every id of the list names a stop of the route, ...
ReorderRead(r, rt, S) ==
    /\ S # {} /\ S \subseteq StopsOf(rt)
    /\ Begin(r, rt, "reorder")
    /\ \E f \in Numberings(S) : order' = [order EXCEPT ![r] = f]
    /\ UNCHANGED <<routes, bookingVars, stopVars, rbooking, last>>

\* ... and they are numbered in the order of the list.
Reorder(r) ==
    /\ pc[r] = "reorder"
    /\ Renumber(rroute[r], order[r])
    /\ End(r)
    /\ UNCHANGED <<routes, bookingVars, disturbed>>

\* removeRouteStop: the row is deleted, ...
Remove(r, s) ==
    /\ at[s] # NoRoute
    /\ Begin(r, at[s], "list")
    /\ at' = [at EXCEPT ![s] = NoRoute]
    /\ of' = [of EXCEPT ![s] = NoBooking]
    /\ pos' = [pos EXCEPT ![s] = 0]
    /\ UNCHANGED <<routes, bookingVars, fresh, rbooking, order, last>>

\* Faulty variants: the index of the list as it is, from 0; the stops are not
\* ordered by position when they are read.
InOrderFromZero(rt) ==
    [s \in StopsOf(rt) |-> Cardinality({t \in StopsOf(rt) : pos[t] < pos[s]})]
InAnyOrder(rt) == CHOOSE f \in Numberings(StopsOf(rt)) :
    \A s, t \in StopsOf(rt) : pos[s] < pos[t] => f[s] > f[t]

\* ... the remaining stops are read in the order of their positions, ...
InOrder(rt) ==
    [s \in StopsOf(rt) |-> Cardinality({t \in StopsOf(rt) : pos[t] <= pos[s]})]

ListRemaining(r) ==
    /\ pc[r] = "list"
    /\ order' = [order EXCEPT ![r] = InOrder(rroute[r])]
    /\ pc' = [pc EXCEPT ![r] = "compact"]
    /\ UNCHANGED <<routes, bookingVars, stopVars, rroute, rbooking, last, disturbed>>

\* ... and numbered from 1 in that order.
Compact(r) ==
    /\ pc[r] = "compact"
    /\ Renumber(rroute[r], order[r])
    /\ End(r)
    /\ UNCHANGED <<routes, bookingVars, disturbed>>

\* A call fails, or the process dies, between two steps.
Abort(r) ==
    /\ pc[r] # "idle"
    /\ disturbed' = disturbed \cup {rroute[r]}
    /\ End(r)
    /\ UNCHANGED <<routes, bookingVars, stopVars>>

Next ==
    \/ \E rt \in Route : CreateRoute(rt)
    \/ \E b \in Booking, c \in Crew : ChangeCrew(b, c)
    \/ \E r \in Request :
        \/ \E rt \in Route, b \in Booking : AddCheck(r, rt, b)
        \/ \E rt \in Route, S \in SUBSET Stop : ReorderRead(r, rt, S)
        \/ \E s \in Stop : Remove(r, s)
        \/ AddLast(r) \/ AddCreate(r) \/ Reorder(r)
        \/ ListRemaining(r) \/ Compact(r) \/ Abort(r)

Spec == Init /\ [][Next]_vars

-----------------------------------------------------------------------------
(***************************************************************************)
(* A route at rest numbers its stops 1, 2, ... without a gap, unless       *)
(* requests on it overlapped or one was cut short: addRouteStop appends to *)
(* and removeRouteStop closes up what they read one call earlier.          *)
(***************************************************************************)
GapFree ==
    \A rt \in routes \ disturbed :
        (\A r \in Request : rroute[r] # rt)
          => {pos[s] : s \in StopsOf(rt)} = 1 .. Cardinality(StopsOf(rt))

(***************************************************************************)
(* Only a reorder request changes the order in which a crew visits two     *)
(* stops, unless requests on the route overlapped or one was cut short:    *)
(* then a removal may number from an old list around a stop that was added *)
(* behind its back.                                                        *)
(***************************************************************************)
OrderKept ==
    [][\A rt \in Route \ disturbed' : \A s, t \in StopsOf(rt) :
        (/\ at'[s] = rt /\ at'[t] = rt
         /\ pos[s] < pos[t] /\ ~ pos'[s] < pos'[t])
          => \E r \in Request : pc[r] = "reorder" /\ pc'[r] = "idle"]_vars

(***************************************************************************)
(* A stop's booking belongs to the crew of its route, unless updateBooking *)
(* moved the booking to another crew.                                      *)
(***************************************************************************)
CrewsMatch ==
    \A s \in Stop :
        at[s] # NoRoute /\ of[s] \notin moved => crew[of[s]] = CrewOf(at[s])

(***************************************************************************)
(* A reorder request that nothing disturbs numbers the stops as asked.     *)
(***************************************************************************)
ReorderTakesEffect ==
    [][\A r \in Request :
        (pc[r] = "reorder" /\ pc'[r] = "idle" /\ rroute[r] \notin disturbed')
          => \A s \in DOMAIN order[r] : pos'[s] = order[r][s]]_vars
=============================================================================
