------------------------------ MODULE RoutesProofs ------------------------------
(* Theorems about Routes for every set of crews, dates, bookings and requests *)
(* and every finite pool of stops.                                            *)
EXTENDS Routes, FiniteSetTheorems, TLAPS

-----------------------------------------------------------------------------
(* The inductive invariant                                                   *)

Used == Cardinality(Stop \ fresh)

\* No position is higher than the number of stop ids used so far, and an id not used
\* yet is on no route.
Bounded ==
    /\ \A s \in Stop : pos[s] <= Used /\ (s \in fresh => at[s] = NoRoute)
    /\ \A r \in Request : last[r] <= Used
    /\ \A r \in Request : pc[r] \in {"reorder", "compact"} =>
        \A s \in DOMAIN order[r] : order[r][s] <= Used

\* What a request in progress is about; its list names no stop of another route.
Working ==
    \A r \in Request :
        /\ pc[r] = "idle" => rroute[r] = NoRoute
        /\ pc[r] # "idle" => rroute[r] \in routes
        /\ pc[r] \in {"last", "create"} =>
            /\ rbooking[r] \in Booking
            /\ rbooking[r] \notin moved => crew[rbooking[r]] = CrewOf(rroute[r])
        /\ pc[r] \in {"reorder", "compact"} =>
            \A s \in DOMAIN order[r] : s \notin fresh /\ at[s] \in {rroute[r], NoRoute}

\* A stop is on a route that was created and has a booking.
Placed ==
    \A s \in Stop : at[s] # NoRoute => at[s] \in routes /\ of[s] \in Booking

On(r, rt) == rroute[r] = rt

\* The stops of an undisturbed route have positions of their own, dense unless one was
\* just removed; the one request there holds what it read, which is still true.
Settled(rt) ==
    /\ \A s, t \in StopsOf(rt) : pos[s] = pos[t] => s = t
    /\ \A s \in StopsOf(rt) : pos[s] # 0
    /\ (\A r \in Request : On(r, rt) => pc[r] \notin {"list", "compact"})
         => \A s \in StopsOf(rt) : pos[s] <= Cardinality(StopsOf(rt))
    /\ \A q, r \in Request : On(q, rt) /\ On(r, rt) => q = r
    /\ \A r \in Request : On(r, rt) =>
        /\ pc[r] = "create" => last[r] = Cardinality(StopsOf(rt))
        /\ pc[r] = "reorder" => order[r] \in Numberings(DOMAIN order[r])
        /\ pc[r] = "compact" => order[r] = InOrder(rt)

AllSettled == \A rt \in Route \ disturbed : Settled(rt)

Inductive ==
    TypeOK /\ Bounded /\ Working /\ Placed /\ CrewsMatch /\ AllSettled
-----------------------------------------------------------------------------
(* The operators                                                             *)

\* An injective numbering of a finite set up to its size uses every number.
LEMMA OntoInterval ==
  ASSUME NEW S, IsFiniteSet(S), NEW f \in [S -> 1 .. Cardinality(S)],
         \A x, y \in S : f[x] = f[y] => x = y
  PROVE  {f[x] : x \in S} = 1 .. Cardinality(S)
<1> DEFINE n == Cardinality(S)
<1>1. n \in Nat
  BY FS_CardinalityType
<1>2. IsFiniteSet(1 .. n) /\ Cardinality(1 .. n) = n
  BY <1>1, FS_Interval
<1>3. f \in Injection(S, 1 .. n)
  BY DEF Injection, IsInjective
<1>4. f \in Surjection(S, 1 .. n)
  BY <1>2, <1>3, FS_Injection
<1> QED
  BY <1>4 DEF Surjection

\* A nonempty bounded set of naturals has a highest element, which Max returns.
LEMMA HighestOfNaturals ==
  ASSUME NEW S \in SUBSET Nat, S # {}, NEW n \in Nat, \A x \in S : x <= n
  PROVE  Max(S) \in S /\ \A x \in S : x <= Max(S)
<1> DEFINE Above(x) == {y \in S : y > x}
           T == {Above(x) : x \in S}
<1>1. IsFiniteSet(S)
  BY FS_BoundedSetOfNaturals
<1>2. T \subseteq FiniteSubsetsOf(S) /\ T # {}
  <2>1. \A x \in S : Above(x) \in SUBSET S
    OBVIOUS
  <2>2. \A B \in SUBSET S : B \in FiniteSubsetsOf(S)
    BY <1>1, FS_Subset DEF FiniteSubsetsOf
  <2> HIDE DEF Above
  <2> QED
    BY <2>1, <2>2
<1>3. PICK A \in T : \A B \in T : <<B, A>> \notin StrictSubsetOrdering(S)
  <2> HIDE DEF T
  <2> QED
    BY <1>2, FS_StrictSubsetOrderingWellFounded, WFMin
<1>4. PICK h \in S : A = Above(h)
  BY <1>3
<1>5. \A x \in S : h >= x
  <2>1. SUFFICES ASSUME NEW x \in S, x > h
                 PROVE  FALSE
    OBVIOUS
  <2>2. Above(x) \subseteq Above(h) /\ x \in Above(h) /\ x \notin Above(x)
    <3>1. \A y \in S : y \in Nat
      OBVIOUS
    <3>2. \A y \in S : y > x => y > h
      BY <2>1, <3>1
    <3>3. ~ (x > x)
      BY <3>1
    <3> QED
      BY <2>1, <3>2, <3>3
  <2>3. Above(x) \in T /\ Above(x) \in SUBSET S /\ Above(h) \in SUBSET S
    OBVIOUS
  <2>4. <<Above(x), Above(h)>> \in StrictSubsetOrdering(S)
    <3> HIDE DEF Above
    <3> QED
      BY <2>2, <2>3 DEF StrictSubsetOrdering
  <2> QED
    BY <1>3, <1>4, <2>3, <2>4
<1>6. Max(S) \in S /\ \A x \in S : Max(S) >= x
  BY <1>5 DEF Max
<1> QED
  BY <1>6

\* The stops of a route are finitely many.
LEMMA StopsFinite ==
  ASSUME NEW rt
  PROVE  /\ StopsOf(rt) \subseteq Stop /\ IsFiniteSet(StopsOf(rt))
         /\ Cardinality(StopsOf(rt)) \in Nat
         /\ \A S \in SUBSET StopsOf(rt) :
              /\ IsFiniteSet(S) /\ Cardinality(S) \in Nat
              /\ Cardinality(S) <= Cardinality(StopsOf(rt))
<1>1. StopsOf(rt) \in SUBSET Stop
  BY DEF StopsOf
<1>2. IsFiniteSet(StopsOf(rt))
  BY <1>1, StopAssumption, FS_Subset
<1> QED
  BY <1>1, <1>2, FS_Subset, FS_CardinalityType

\* The rank of a stop among those of its route, when their positions differ and none
\* is 0, lies between 1 and its position, and orders the stops as the positions do.
LEMMA RankFacts ==
  ASSUME NEW rt, pos \in [Stop -> Position],
         \A s, t \in StopsOf(rt) : pos[s] = pos[t] => s = t,
         \A s \in StopsOf(rt) : pos[s] # 0
  PROVE  LET f == InOrder(rt) IN
         /\ f \in [StopsOf(rt) -> 1 .. Cardinality(StopsOf(rt))]
         /\ \A s \in StopsOf(rt) : f[s] <= pos[s]
         /\ \A s, t \in StopsOf(rt) : pos[s] < pos[t] => f[s] < f[t]
<1> DEFINE S == StopsOf(rt)
           Upto(s) == {t \in S : pos[t] <= pos[s]}
<1>1. \A s \in S : pos[s] \in Nat
  BY StopsFinite, StopAssumption, FS_CardinalityType DEF Position
<1>2. \A s \in S : /\ IsFiniteSet(Upto(s)) /\ Cardinality(Upto(s)) \in Nat
                   /\ Cardinality(Upto(s)) <= Cardinality(S)
  BY StopsFinite
<1>3. ASSUME NEW s \in S
      PROVE  1 <= Cardinality(Upto(s))
  <2>1. s \in Upto(s)
    BY <1>1
  <2>2. Cardinality(Upto(s)) # 0
    BY <1>2, <2>1, FS_EmptySet
  <2> QED
    BY <1>2, <2>2
<1>4. ASSUME NEW s \in S, NEW t \in S, pos[s] < pos[t]
      PROVE  Cardinality(Upto(s)) < Cardinality(Upto(t))
  <2>1. Upto(s) \in SUBSET Upto(t) /\ t \in Upto(t) /\ t \notin Upto(s)
    BY <1>1, <1>4
  <2>2. Cardinality(Upto(s)) <= Cardinality(Upto(t)) /\ Upto(s) # Upto(t)
        /\ (Cardinality(Upto(t)) = Cardinality(Upto(s)) => Upto(t) = Upto(s))
    BY <1>2, <2>1, FS_Subset
  <2> QED
    BY <1>2, <2>2
<1>5. ASSUME NEW s \in S
      PROVE  Cardinality(Upto(s)) <= pos[s]
  <2> DEFINE U == Upto(s)
             g == [t \in U |-> pos[t]]
  <2>1. IsFiniteSet(1 .. pos[s]) /\ Cardinality(1 .. pos[s]) = pos[s]
    <3>1. pos[s] \in Nat
      BY <1>1
    <3> QED
      BY <3>1, FS_Interval
  <2>2. g \in Injection(U, 1 .. pos[s])
    BY <1>1 DEF Injection, IsInjective
  <2> HIDE DEF U, g
  <2>3. Cardinality(U) <= pos[s]
    BY <2>1, <2>2, FS_Injection
  <2> QED
    BY <2>3 DEF U
<1>6. InOrder(rt) = [s \in S |-> Cardinality(Upto(s))]
  BY DEF InOrder
<1> QED
  <2> HIDE DEF S, Upto
  <2>1. InOrder(rt) \in [S -> 1 .. Cardinality(S)]
    BY <1>2, <1>3, <1>6, StopsFinite DEF S
  <2>2. \A s \in S : InOrder(rt)[s] = Cardinality(Upto(s))
    BY <1>6
  <2> QED
    BY <1>4, <1>5, <2>1, <2>2 DEF S
-----------------------------------------------------------------------------
(* What the parts of an action do                                            *)

\* The request q is not touched by a step.
Same(q) ==
    /\ pc'[q] = pc[q] /\ rroute'[q] = rroute[q] /\ rbooking'[q] = rbooking[q]
    /\ order'[q] = order[q] /\ last'[q] = last[q]

\* The number of ids used is a natural number within the pool.
LEMMA UsedType ==
  ASSUME TypeOK
  PROVE  Used \in Nat /\ Used <= Cardinality(Stop) /\ Cardinality(Stop) \in Nat
         /\ 0 \in Position
<1>1. IsFiniteSet(Stop) /\ Cardinality(Stop) \in Nat
  BY StopAssumption, FS_CardinalityType
<1>2. Stop \ fresh \in SUBSET Stop
  OBVIOUS
<1> QED
  BY <1>1, <1>2, FS_Subset, FS_CardinalityType DEF Used, Position

\* Taking an unused id counts it.
LEMMA UsedGrows ==
  ASSUME TypeOK, NEW s \in fresh, fresh' = fresh \ {s}
  PROVE  Used' = Used + 1 /\ Used' <= Cardinality(Stop)
<1>1. s \in Stop /\ fresh \subseteq Stop
  BY DEF TypeOK
<1>2. Stop \ fresh' = (Stop \ fresh) \cup {s}
  BY <1>1
<1>3. Stop \ fresh \in SUBSET Stop /\ (Stop \ fresh) \cup {s} \in SUBSET Stop
  BY <1>1
<1>4. IsFiniteSet(Stop \ fresh) /\ Cardinality((Stop \ fresh) \cup {s}) <= Cardinality(Stop)
  BY <1>3, StopAssumption, FS_Subset
<1>5. Cardinality((Stop \ fresh) \cup {s}) = Cardinality(Stop \ fresh) + 1
  BY <1>4, FS_AddElement
<1> QED
  BY <1>2, <1>4, <1>5 DEF Used

\* A request that starts on a route is alone there unless the route is disturbed now.
LEMMA BeginFacts ==
  ASSUME TypeOK, NEW r \in Request, NEW rt \in Route, NEW step, Begin(r, rt, step)
  PROVE  /\ pc[r] = "idle" /\ rt \in routes
         /\ pc'[r] = step /\ rroute'[r] = rt
         /\ \A q \in Request \ {r} : pc'[q] = pc[q] /\ rroute'[q] = rroute[q]
         /\ rroute' \in [Request -> Route \cup {NoRoute}]
         /\ disturbed' \in SUBSET Route /\ disturbed \subseteq disturbed'
         /\ rt \notin disturbed' => \A q \in Request : rroute[q] # rt
  BY DEF TypeOK, Begin

\* A request that ends leaves its route and drops what it read.
LEMMA EndFacts ==
  ASSUME TypeOK, NEW r \in Request, End(r)
  PROVE  /\ pc' \in [Request -> {"idle", "last", "create", "reorder", "list", "compact"}]
         /\ rroute' \in [Request -> Route \cup {NoRoute}]
         /\ rbooking' \in [Request -> Booking \cup {NoBooking}]
         /\ order' \in [Request -> UNION {[S -> Position] : S \in SUBSET Stop}]
         /\ last' \in [Request -> Position]
         /\ pc'[r] = "idle" /\ rroute'[r] = NoRoute /\ last'[r] = 0
         /\ \A q \in Request \ {r} : Same(q)
<1>1. <<>> \in [{} -> Position]
  OBVIOUS
<1>2. <<>> \in UNION {[S -> Position] : S \in SUBSET Stop}
  BY <1>1
<1>3. /\ pc' = [pc EXCEPT ![r] = "idle"] /\ rroute' = [rroute EXCEPT ![r] = NoRoute]
      /\ rbooking' = [rbooking EXCEPT ![r] = NoBooking]
      /\ order' = [order EXCEPT ![r] = <<>>] /\ last' = [last EXCEPT ![r] = 0]
  BY DEF End
<1>4. order' \in [Request -> UNION {[S -> Position] : S \in SUBSET Stop}]
  <2> DEFINE O == UNION {[S -> Position] : S \in SUBSET Stop}
  <2>1. order \in [Request -> O] /\ <<>> \in O
    BY <1>2 DEF TypeOK
  <2> HIDE DEF O
  <2>2. order' \in [Request -> O]
    BY <1>3, <2>1
  <2> QED
    BY <2>2 DEF O
<1>5. \A q \in Request \ {r} : Same(q)
  <2>1. DOMAIN order = Request
    BY DEF TypeOK
  <2> QED
    BY <1>3, <2>1 DEF TypeOK, Same
<1> QED
  BY <1>3, <1>4, <1>5, UsedType DEF TypeOK

\* A step that touches neither the stops of an undisturbed route nor the request
\* there leaves it settled.
LEMMA SettledKept ==
  ASSUME NEW rt, Settled(rt), StopsOf(rt)' = StopsOf(rt),
         \A s \in StopsOf(rt) : pos'[s] = pos[s],
         \A q \in Request : On(q, rt)' <=> On(q, rt),
         \A q \in Request : On(q, rt) =>
            pc'[q] = pc[q] /\ order'[q] = order[q] /\ last'[q] = last[q]
  PROVE  Settled(rt)'
<1>1. InOrder(rt)' = InOrder(rt)
  BY DEF InOrder
<1>2. UNCHANGED Cardinality(StopsOf(rt))
  OBVIOUS
<1>3. /\ \A s, t \in StopsOf(rt) : pos[s] = pos[t] => s = t
      /\ \A s \in StopsOf(rt) : pos[s] # 0
      /\ \A q, r \in Request : On(q, rt) /\ On(r, rt) => q = r
  BY DEF Settled
<1>4. (\A r \in Request : On(r, rt) => pc[r] \notin {"list", "compact"})
        => \A s \in StopsOf(rt) : pos[s] <= Cardinality(StopsOf(rt))
  BY DEF Settled
<1>5. \A r \in Request : On(r, rt) =>
        /\ pc[r] = "create" => last[r] = Cardinality(StopsOf(rt))
        /\ pc[r] = "reorder" => order[r] \in Numberings(DOMAIN order[r])
        /\ pc[r] = "compact" => order[r] = InOrder(rt)
  BY DEF Settled
<1>6. /\ \A s, t \in StopsOf(rt)' : pos'[s] = pos'[t] => s = t
      /\ \A s \in StopsOf(rt)' : pos'[s] # 0
      /\ \A q, r \in Request : On(q, rt)' /\ On(r, rt)' => q = r
  BY <1>3
<1>7. (\A r \in Request : On(r, rt)' => pc'[r] \notin {"list", "compact"})
        => \A s \in StopsOf(rt)' : pos'[s] <= Cardinality(StopsOf(rt))'
  BY <1>2, <1>4
<1>8. ASSUME NEW r \in Request, On(r, rt)'
      PROVE  /\ pc'[r] = "create" => last'[r] = Cardinality(StopsOf(rt))'
             /\ pc'[r] = "reorder" => order'[r] \in Numberings(DOMAIN order'[r])
             /\ pc'[r] = "compact" => order'[r] = InOrder(rt)'
  <2>1. UNCHANGED <<pc[r], order[r], last[r]>> /\ On(r, rt)
    BY <1>8
  <2> QED
    BY <1>1, <1>2, <1>5, <2>1
<1> QED
  BY <1>6, <1>7, <1>8 DEF Settled
-----------------------------------------------------------------------------
(* Every step keeps the invariant                                            *)

\* Init establishes the inductive invariant.
LEMMA InitInductive == Init => Inductive
<1> SUFFICES ASSUME Init
             PROVE  Inductive
  OBVIOUS
<1>1. Cardinality(Stop) \in Nat
  BY StopAssumption, FS_CardinalityType
<1>2. Stop \ fresh = {} /\ Used = 0
  BY FS_EmptySet DEF Init, Used
<1>3. <<>> \in [{} -> Position] /\ 0 \in Position
  BY <1>1 DEF Position
<1>4. <<>> \in UNION {[S -> Position] : S \in SUBSET Stop}
  BY <1>3
<1>5. order \in [Request -> UNION {[S -> Position] : S \in SUBSET Stop}]
  <2> DEFINE O == UNION {[S -> Position] : S \in SUBSET Stop}
  <2> HIDE DEF O
  <2>1. order \in [Request -> O]
    BY <1>4 DEF Init, O
  <2> QED
    BY <2>1 DEF O
<1>6. TypeOK
  BY <1>3, <1>5 DEF Init, TypeOK
<1>7. Bounded
  BY <1>2 DEF Init, Bounded
<1>8. Working /\ Placed /\ CrewsMatch
  BY DEF Init, Working, Placed, CrewsMatch
<1>9. \A rt \in Route : StopsOf(rt) = {}
  BY NullAssumption DEF Init, StopsOf
<1>10. \A rt \in Route, r \in Request : ~On(r, rt)
  BY NullAssumption DEF Init, On
<1>11. AllSettled
  BY <1>9, <1>10 DEF AllSettled, Settled
<1> QED
  BY <1>6, <1>7, <1>8, <1>11 DEF Inductive

\* A request that starts on a route finds it settled, or somebody else there.
LEMMA BeginSettled ==
  ASSUME TypeOK, Working, AllSettled, NEW r \in Request, NEW rt \in Route,
         NEW step \in {"last", "reorder"}, Begin(r, rt, step), UNCHANGED <<at, pos>>,
         \A q \in Request \ {r} : order'[q] = order[q] /\ last'[q] = last[q],
         step = "reorder" => order'[r] \in Numberings(DOMAIN order'[r])
  PROVE  AllSettled'
<1>1. /\ pc[r] = "idle" /\ pc'[r] = step /\ rroute'[r] = rt
      /\ \A q \in Request \ {r} : pc'[q] = pc[q] /\ rroute'[q] = rroute[q]
      /\ disturbed' \in SUBSET Route /\ disturbed \subseteq disturbed'
      /\ rt \notin disturbed' => \A q \in Request : rroute[q] # rt
  BY BeginFacts
<1>2. \A t \in Route : StopsOf(t)' = StopsOf(t)
  BY DEF StopsOf
<1>3. ASSUME NEW t \in Route \ disturbed', t # rt
      PROVE  Settled(t)'
  <2>1. Settled(t)
    BY <1>1 DEF AllSettled
  <2>2. \A q \in Request : On(q, t) => q # r
    BY <1>1, NullAssumption DEF On, Working
  <2>3. \A q \in Request : On(q, t)' <=> On(q, t)
    BY <1>1, <1>3, <2>2 DEF On
  <2> QED
    BY <1>1, <1>2, <2>1, <2>2, <2>3, SettledKept
<1>4. ASSUME rt \notin disturbed'
      PROVE  Settled(rt)'
  <2>1. Settled(rt) /\ \A q \in Request : ~On(q, rt)
    BY <1>1, <1>4 DEF AllSettled, On
  <2>2. \A q \in Request : On(q, rt)' => q = r
    BY <1>1, <2>1 DEF On
  <2>3. /\ \A s, t \in StopsOf(rt) : pos[s] = pos[t] => s = t
        /\ \A s \in StopsOf(rt) : pos[s] # 0
        /\ \A s \in StopsOf(rt) : pos[s] <= Cardinality(StopsOf(rt))
    BY <2>1 DEF Settled
  <2>4. /\ \A s, t \in StopsOf(rt)' : pos'[s] = pos'[t] => s = t
        /\ \A s \in StopsOf(rt)' : pos'[s] # 0
        /\ \A s \in StopsOf(rt)' : pos'[s] <= Cardinality(StopsOf(rt))'
    BY <1>2, <2>3
  <2> QED
    BY <1>1, <2>2, <2>4 DEF Settled
<1> QED
  BY <1>3, <1>4 DEF AllSettled

\* A route is created, or a booking moved: no stop and no request is touched.
LEMMA OutsideInductive ==
  ASSUME Inductive,
         \/ \E rt \in Route : CreateRoute(rt)
         \/ \E b \in Booking, c \in Crew : ChangeCrew(b, c)
  PROVE  Inductive'
<1>0. TypeOK /\ Bounded /\ Working /\ Placed /\ CrewsMatch /\ AllSettled
  BY DEF Inductive
<1>1. UNCHANGED <<stopVars, reqVars, disturbed>>
  BY DEF CreateRoute, ChangeCrew
<1>2. /\ routes' \in SUBSET Route /\ routes \subseteq routes'
      /\ crew' \in [Booking -> Crew] /\ moved' \in SUBSET Booking /\ moved \subseteq moved'
      /\ \A b \in Booking \ moved' : crew'[b] = crew[b]
  <2>1. CASE \E rt \in Route : CreateRoute(rt)
    BY <1>0, <2>1 DEF TypeOK, CreateRoute, bookingVars
  <2>2. CASE \E b \in Booking, c \in Crew : ChangeCrew(b, c)
    BY <1>0, <2>2 DEF TypeOK, ChangeCrew
  <2> QED
    BY <2>1, <2>2
<1>3. TypeOK' /\ Bounded'
  BY <1>0, <1>1, <1>2 DEF TypeOK, Bounded, Used, stopVars, reqVars
<1>4. Working'
  BY <1>0, <1>1, <1>2 DEF Working, stopVars, reqVars
<1>5. Placed' /\ CrewsMatch'
  BY <1>0, <1>1, <1>2 DEF Placed, CrewsMatch, stopVars
<1>6. AllSettled'
  BY <1>0, <1>1 DEF AllSettled, Settled, StopsOf, On, InOrder, stopVars, reqVars
<1> QED
  BY <1>3, <1>4, <1>5, <1>6 DEF Inductive

\* A stop is to be added: the crews are compared.
LEMMA AddCheckInductive ==
  ASSUME Inductive, NEW r \in Request, NEW rt \in Route, NEW b \in Booking, AddCheck(r, rt, b)
  PROVE  Inductive'
<1>0. TypeOK /\ Bounded /\ Working /\ Placed /\ CrewsMatch /\ AllSettled
  BY DEF Inductive
<1>1. /\ crew[b] = CrewOf(rt) /\ Begin(r, rt, "last")
      /\ rbooking' = [rbooking EXCEPT ![r] = b]
      /\ UNCHANGED <<routes, bookingVars, stopVars, order, last>>
  BY DEF AddCheck
<1>2. /\ rt \in routes /\ pc'[r] = "last" /\ rroute'[r] = rt
      /\ \A q \in Request \ {r} : pc'[q] = pc[q] /\ rroute'[q] = rroute[q]
      /\ rroute' \in [Request -> Route \cup {NoRoute}]
      /\ disturbed' \in SUBSET Route
  BY <1>0, <1>1, BeginFacts
<1>3. pc' \in [Request -> {"idle", "last", "create", "reorder", "list", "compact"}]
  BY <1>0, <1>1 DEF TypeOK, Begin
<1>4. rbooking' \in [Request -> Booking \cup {NoBooking}] /\ rbooking'[r] = b
      /\ \A q \in Request \ {r} : rbooking'[q] = rbooking[q]
  BY <1>0, <1>1 DEF TypeOK
<1>5. TypeOK'
  BY <1>0, <1>1, <1>2, <1>3, <1>4 DEF TypeOK, bookingVars, stopVars
<1>6. Bounded'
  BY <1>0, <1>1, <1>2 DEF Bounded, Used, stopVars
<1>7. Working'
  <2>1. UNCHANGED <<routes, crew, moved, at, fresh, order>>
    BY <1>1 DEF bookingVars, stopVars
  <2> QED
    BY <1>0, <1>1, <1>2, <1>4, <2>1 DEF Working
<1>8. Placed' /\ CrewsMatch'
  BY <1>0, <1>1 DEF Placed, CrewsMatch, bookingVars, stopVars
<1>9. AllSettled'
  <2>1. UNCHANGED <<at, pos, order, last>>
    BY <1>1 DEF stopVars
  <2> QED
    BY <1>0, <1>1, <2>1, BeginSettled
<1> QED
  BY <1>5, <1>6, <1>7, <1>8, <1>9 DEF Inductive

\* A list of some stops of a route is to be renumbered: each exists on the route.
LEMMA ReorderReadInductive ==
  ASSUME Inductive, NEW r \in Request, NEW rt \in Route, NEW S \in SUBSET Stop,
         ReorderRead(r, rt, S)
  PROVE  Inductive'
<1>0. TypeOK /\ Bounded /\ Working /\ Placed /\ CrewsMatch /\ AllSettled
  BY DEF Inductive
<1>1. /\ S \subseteq StopsOf(rt) /\ Begin(r, rt, "reorder")
      /\ UNCHANGED <<routes, bookingVars, stopVars, rbooking, last>>
  BY DEF ReorderRead
<1>2. PICK f \in Numberings(S) : order' = [order EXCEPT ![r] = f]
  BY DEF ReorderRead
<1>3. f \in [S -> 1 .. Cardinality(S)]
  BY DEF Numberings
<1>4. S \subseteq Stop \ fresh /\ \A s \in S : at[s] = rt
  BY <1>0, <1>1, NullAssumption DEF StopsOf, Bounded
<1>5. /\ Cardinality(S) \in Nat /\ Cardinality(S) <= Used
      /\ 1 .. Cardinality(S) \subseteq Position
      /\ \A s \in S : f[s] <= Used
  <2>1. IsFiniteSet(Stop \ fresh)
    BY StopAssumption, FS_Subset
  <2>2. IsFiniteSet(S) /\ Cardinality(S) <= Used
    BY <1>4, <2>1, FS_Subset DEF Used
  <2>3. Cardinality(S) \in Nat
    BY <2>2, FS_CardinalityType
  <2>4. 1 .. Cardinality(S) \subseteq Position
    BY <1>0, <2>2, <2>3, UsedType DEF Position
  <2>5. \A s \in S : f[s] <= Used
    BY <1>0, <1>3, <2>2, <2>3, UsedType
  <2> QED
    BY <2>2, <2>3, <2>4, <2>5
<1>6. order' \in [Request -> UNION {[T -> Position] : T \in SUBSET Stop}]
      /\ order'[r] = f /\ \A q \in Request \ {r} : order'[q] = order[q]
  <2> DEFINE O == UNION {[T -> Position] : T \in SUBSET Stop}
  <2>1. f \in [S -> Position]
    BY <1>3, <1>5
  <2>2. f \in O /\ order \in [Request -> O]
    BY <1>0, <2>1 DEF TypeOK
  <2> HIDE DEF O
  <2>3. order' \in [Request -> O] /\ order'[r] = f
        /\ \A q \in Request \ {r} : order'[q] = order[q]
    BY <1>2, <2>2
  <2> QED
    BY <2>3 DEF O
<1>7. /\ rt \in routes /\ pc'[r] = "reorder" /\ rroute'[r] = rt
      /\ \A q \in Request \ {r} : pc'[q] = pc[q] /\ rroute'[q] = rroute[q]
      /\ rroute' \in [Request -> Route \cup {NoRoute}]
      /\ disturbed' \in SUBSET Route
  BY <1>0, <1>1, BeginFacts
<1>8. pc' \in [Request -> {"idle", "last", "create", "reorder", "list", "compact"}]
  BY <1>0, <1>1 DEF TypeOK, Begin
<1>9. UNCHANGED <<routes, crew, moved, at, of, pos, fresh, rbooking, last>>
  BY <1>1 DEF bookingVars, stopVars
<1>10. TypeOK'
  BY <1>0, <1>6, <1>7, <1>8, <1>9 DEF TypeOK
<1>11. DOMAIN f = S
  BY <1>3
<1>12. Bounded'
  <2>1. Used' = Used
    BY <1>9 DEF Used
  <2> QED
    BY <1>0, <1>5, <1>6, <1>7, <1>9, <1>11, <2>1 DEF Bounded
<1>13. Working'
  BY <1>0, <1>4, <1>6, <1>7, <1>9, <1>11 DEF Working
<1>14. Placed' /\ CrewsMatch'
  BY <1>0, <1>9 DEF Placed, CrewsMatch
<1>15. AllSettled'
  <2>1. order'[r] \in Numberings(DOMAIN order'[r])
    BY <1>6, <1>11
  <2>2. UNCHANGED <<at, pos>> /\ \A q \in Request \ {r} : order'[q] = order[q] /\ last'[q] = last[q]
    BY <1>6, <1>9
  <2> QED
    BY <1>0, <1>1, <2>1, <2>2, BeginSettled
<1> QED
  BY <1>10, <1>12, <1>13, <1>14, <1>15 DEF Inductive

\* The stops of a settled route that no removal is compacting have the positions from
\* 1 to their number.
LEMMA DensePositions ==
  ASSUME TypeOK, NEW rt, Settled(rt),
         \A r \in Request : On(r, rt) => pc[r] \notin {"list", "compact"}
  PROVE  {pos[s] : s \in StopsOf(rt)} = 1 .. Cardinality(StopsOf(rt))
<1> DEFINE S == StopsOf(rt)
           f == [s \in S |-> pos[s]]
<1>1. /\ \A s, t \in S : pos[s] = pos[t] => s = t
      /\ \A s \in S : pos[s] # 0 /\ pos[s] <= Cardinality(S)
  BY DEF Settled
<1>2. S \subseteq Stop /\ IsFiniteSet(S) /\ Cardinality(S) \in Nat
  BY StopsFinite
<1>3. \A s \in S : pos[s] \in Nat
  BY <1>2, UsedType DEF TypeOK, Position
<1> HIDE DEF S
<1>4. f \in [S -> 1 .. Cardinality(S)] /\ \A x, y \in S : f[x] = f[y] => x = y
  BY <1>1, <1>2, <1>3
<1>5. {f[s] : s \in S} = 1 .. Cardinality(S)
  <2> HIDE DEF f
  <2> QED
    BY <1>2, <1>4, OntoInterval
<1>6. {f[s] : s \in S} = {pos[s] : s \in S}
  OBVIOUS
<1> QED
  BY <1>5, <1>6 DEF S

\* The highest position of a route is bounded; it is the number of stops of a settled
\* route.
LEMMA LastPositionFacts ==
  ASSUME TypeOK, Bounded, NEW rt
  PROVE  /\ LastPosition(rt) \in Position /\ LastPosition(rt) <= Used
         /\ {pos[s] : s \in StopsOf(rt)} = 1 .. Cardinality(StopsOf(rt))
              => LastPosition(rt) = Cardinality(StopsOf(rt))
<1> DEFINE P == {pos[s] : s \in StopsOf(rt)} \cup {0}
           n == Cardinality(StopsOf(rt))
<1>1. /\ Used \in Nat /\ Used <= Cardinality(Stop) /\ Cardinality(Stop) \in Nat
      /\ StopsOf(rt) \subseteq Stop /\ n \in Nat
  BY UsedType, StopsFinite
<1>2. \A s \in StopsOf(rt) : pos[s] \in Nat /\ pos[s] <= Used
  BY <1>1 DEF TypeOK, Bounded, Position
<1>3. P \in SUBSET Nat /\ P # {} /\ \A x \in P : x <= Used
  BY <1>1, <1>2
<1>4. LastPosition(rt) = Max(P)
  BY DEF LastPosition
<1>5. Max(P) \in P /\ \A x \in P : x <= Max(P)
  <2> HIDE DEF P
  <2> QED
    BY <1>1, <1>3, HighestOfNaturals
<1>6. Max(P) \in Position /\ Max(P) <= Used
  BY <1>1, <1>3, <1>5 DEF Position
<1>7. ASSUME {pos[s] : s \in StopsOf(rt)} = 1 .. n
      PROVE  Max(P) = n
  <2>1. P = (1 .. n) \cup {0}
    BY <1>7
  <2>2. n \in P /\ \A x \in P : x <= n
    BY <1>1, <2>1
  <2> HIDE DEF P
  <2>3. Max(P) \in Nat /\ Max(P) <= n /\ n <= Max(P)
    BY <1>3, <1>5, <2>2
  <2> QED
    BY <1>1, <2>3
<1> QED
  BY <1>4, <1>6, <1>7

\* A step of a request on one route leaves the other routes settled.
LEMMA ElsewhereSettled ==
  ASSUME AllSettled, NEW r \in Request, NEW rt \in Route, disturbed \subseteq disturbed',
         rroute[r] \in {rt, NoRoute}, rroute'[r] \in {rt, NoRoute},
         \A q \in Request \ {r} : pc'[q] = pc[q] /\ rroute'[q] = rroute[q]
                                  /\ order'[q] = order[q] /\ last'[q] = last[q],
         \A t \in Route \ {rt} :
            StopsOf(t)' = StopsOf(t) /\ \A s \in StopsOf(t) : pos'[s] = pos[s]
  PROVE  \A t \in Route \ disturbed' : t # rt => Settled(t)'
<1> SUFFICES ASSUME NEW t \in Route \ disturbed', t # rt
             PROVE  Settled(t)'
  OBVIOUS
<1>1. Settled(t)
  BY DEF AllSettled
<1>2. \A q \in Request : On(q, t) \/ On(q, t)' => q # r
  BY NullAssumption DEF On
<1>3. \A q \in Request : On(q, t)' <=> On(q, t)
  BY <1>2 DEF On
<1> QED
  BY <1>1, <1>2, <1>3, SettledKept

\* The highest position of the route is read.
LEMMA AddLastInductive ==
  ASSUME Inductive, NEW r \in Request, AddLast(r)
  PROVE  Inductive'
<1>0. TypeOK /\ Bounded /\ Working /\ Placed /\ CrewsMatch /\ AllSettled
  BY DEF Inductive
<1>1. /\ pc[r] = "last" /\ last' = [last EXCEPT ![r] = LastPosition(rroute[r])]
      /\ pc' = [pc EXCEPT ![r] = "create"]
      /\ UNCHANGED <<routes, bookingVars, stopVars, rroute, rbooking, order, disturbed>>
  BY DEF AddLast
<1>2. PICK rt \in Route : rroute[r] = rt /\ rt \in routes
  BY <1>0, <1>1 DEF Working, TypeOK
<1>3. /\ LastPosition(rt) \in Position /\ LastPosition(rt) <= Used
      /\ {pos[s] : s \in StopsOf(rt)} = 1 .. Cardinality(StopsOf(rt))
           => LastPosition(rt) = Cardinality(StopsOf(rt))
  BY <1>0, LastPositionFacts
<1>4. /\ pc'[r] = "create" /\ last'[r] = LastPosition(rt)
      /\ \A q \in Request \ {r} : pc'[q] = pc[q] /\ last'[q] = last[q]
      /\ pc' \in [Request -> {"idle", "last", "create", "reorder", "list", "compact"}]
      /\ last' \in [Request -> Position]
  BY <1>0, <1>1, <1>2, <1>3 DEF TypeOK
<1>5. UNCHANGED <<routes, crew, moved, at, of, pos, fresh>>
  BY <1>1 DEF bookingVars, stopVars
<1>6. TypeOK'
  BY <1>0, <1>1, <1>4, <1>5 DEF TypeOK
<1>7. Bounded'
  <2>1. Used' = Used
    BY <1>5 DEF Used
  <2> QED
    BY <1>0, <1>1, <1>3, <1>4, <1>5, <2>1 DEF Bounded
<1>8. Working'
  BY <1>0, <1>1, <1>4, <1>5 DEF Working
<1>9. Placed' /\ CrewsMatch'
  BY <1>0, <1>5 DEF Placed, CrewsMatch
<1>10. \A t \in Route : StopsOf(t)' = StopsOf(t)
  BY <1>5 DEF StopsOf
<1>11. ASSUME rt \notin disturbed'
       PROVE  Settled(rt)'
  <2>1. Settled(rt)
    BY <1>0, <1>1, <1>11 DEF AllSettled
  <2>2. \A q \in Request : On(q, rt) => q = r
    BY <1>2, <2>1 DEF Settled, On
  <2>3. \A q \in Request : On(q, rt) => pc[q] \notin {"list", "compact"}
    BY <1>1, <2>2
  <2>4. last'[r] = Cardinality(StopsOf(rt))
    BY <1>0, <1>3, <1>4, <2>1, <2>3, DensePositions
  <2>5. \A q \in Request : On(q, rt)' => q = r
    BY <1>1, <2>2 DEF On
  <2>6. /\ \A s, t \in StopsOf(rt)' : pos'[s] = pos'[t] => s = t
        /\ \A s \in StopsOf(rt)' : pos'[s] # 0 /\ pos'[s] <= Cardinality(StopsOf(rt))'
    BY <1>5, <1>10, <2>1, <2>3 DEF Settled
  <2> QED
    BY <1>4, <1>10, <2>4, <2>5, <2>6 DEF Settled
<1>12. AllSettled'
  <2>1. \A t \in Route \ disturbed' : t # rt => Settled(t)'
    BY <1>0, <1>1, <1>2, <1>4, <1>5, <1>10, ElsewhereSettled
  <2> QED
    BY <1>11, <2>1 DEF AllSettled
<1> QED
  BY <1>6, <1>7, <1>8, <1>9, <1>12 DEF Inductive

\* A request fails: its route counts as disturbed.
LEMMA AbortInductive ==
  ASSUME Inductive, NEW r \in Request, Abort(r)
  PROVE  Inductive'
<1>0. TypeOK /\ Bounded /\ Working /\ Placed /\ CrewsMatch /\ AllSettled
  BY DEF Inductive
<1>1. /\ pc[r] # "idle" /\ disturbed' = disturbed \cup {rroute[r]} /\ End(r)
      /\ UNCHANGED <<routes, bookingVars, stopVars>>
  BY DEF Abort
<1>2. PICK rt \in Route : rroute[r] = rt
  BY <1>0, <1>1 DEF Working, TypeOK
<1>3. /\ pc' \in [Request -> {"idle", "last", "create", "reorder", "list", "compact"}]
      /\ rroute' \in [Request -> Route \cup {NoRoute}]
      /\ rbooking' \in [Request -> Booking \cup {NoBooking}]
      /\ order' \in [Request -> UNION {[S -> Position] : S \in SUBSET Stop}]
      /\ last' \in [Request -> Position]
      /\ pc'[r] = "idle" /\ rroute'[r] = NoRoute /\ last'[r] = 0
      /\ \A q \in Request \ {r} : Same(q)
  BY <1>0, <1>1, EndFacts
<1>4. UNCHANGED <<routes, crew, moved, at, of, pos, fresh>>
  BY <1>1 DEF bookingVars, stopVars
<1>5. TypeOK'
  BY <1>0, <1>1, <1>2, <1>3, <1>4 DEF TypeOK
<1>6. Bounded'
  <2>1. Used' = Used /\ Used \in Nat
    BY <1>0, <1>4, UsedType DEF Used
  <2> QED
    BY <1>0, <1>3, <1>4, <2>1 DEF Bounded, Same
<1>7. Working'
  BY <1>0, <1>3, <1>4 DEF Working, Same
<1>8. Placed' /\ CrewsMatch'
  BY <1>0, <1>4 DEF Placed, CrewsMatch
<1>9. AllSettled'
  <2>1. \A t \in Route : StopsOf(t)' = StopsOf(t)
    BY <1>4 DEF StopsOf
  <2>2. \A t \in Route \ disturbed' : t # rt => Settled(t)'
    BY <1>0, <1>1, <1>2, <1>3, <1>4, <2>1, ElsewhereSettled DEF Same
  <2> QED
    BY <1>1, <1>2, <2>2 DEF AllSettled
<1> QED
  BY <1>5, <1>6, <1>7, <1>8, <1>9 DEF Inductive

\* A request that inserted nothing, or whose list was refused, ends.
LEMMA EndInductive ==
  ASSUME Inductive, NEW r \in Request, End(r),
         pc[r] \in {"create", "reorder"} \/ rroute[r] \in disturbed,
         UNCHANGED <<routes, bookingVars, stopVars, disturbed>>
  PROVE  Inductive'
<1>0. TypeOK /\ Bounded /\ Working /\ Placed /\ CrewsMatch /\ AllSettled
  BY DEF Inductive
<1>2. PICK rt \in Route : rroute[r] = rt
  BY <1>0 DEF Working, TypeOK
<1>3. /\ pc' \in [Request -> {"idle", "last", "create", "reorder", "list", "compact"}]
      /\ rroute' \in [Request -> Route \cup {NoRoute}]
      /\ rbooking' \in [Request -> Booking \cup {NoBooking}]
      /\ order' \in [Request -> UNION {[S -> Position] : S \in SUBSET Stop}]
      /\ last' \in [Request -> Position]
      /\ pc'[r] = "idle" /\ rroute'[r] = NoRoute /\ last'[r] = 0
      /\ \A q \in Request \ {r} : Same(q)
  BY <1>0, EndFacts
<1>4. UNCHANGED <<routes, crew, moved, at, of, pos, fresh, disturbed>>
  BY DEF bookingVars, stopVars
<1>5. TypeOK'
  BY <1>0, <1>3, <1>4 DEF TypeOK
<1>6. Bounded'
  <2>1. Used' = Used /\ Used \in Nat
    BY <1>0, <1>4, UsedType DEF Used
  <2> QED
    BY <1>0, <1>3, <1>4, <2>1 DEF Bounded, Same
<1>7. Working'
  BY <1>0, <1>3, <1>4 DEF Working, Same
<1>8. Placed' /\ CrewsMatch'
  BY <1>0, <1>4 DEF Placed, CrewsMatch
<1>9. \A t \in Route : StopsOf(t)' = StopsOf(t)
  BY <1>4 DEF StopsOf
<1>10. ASSUME rt \notin disturbed
       PROVE  Settled(rt)'
  <2>1. Settled(rt) /\ pc[r] \in {"create", "reorder"}
    BY <1>0, <1>2, <1>10 DEF AllSettled
  <2>2. \A q \in Request : On(q, rt) => q = r
    BY <1>2, <2>1 DEF Settled, On
  <2>3. \A q \in Request : On(q, rt) => pc[q] \notin {"list", "compact"}
    BY <2>1, <2>2
  <2>4. \A q \in Request : ~On(q, rt)'
    BY <1>3, <2>2, NullAssumption DEF On, Same
  <2>5. /\ \A s, t \in StopsOf(rt)' : pos'[s] = pos'[t] => s = t
        /\ \A s \in StopsOf(rt)' : pos'[s] # 0 /\ pos'[s] <= Cardinality(StopsOf(rt))'
    BY <1>4, <1>9, <2>1, <2>3 DEF Settled
  <2> QED
    BY <2>4, <2>5 DEF Settled
<1>11. AllSettled'
  <2>1. \A t \in Route \ disturbed' : t # rt => Settled(t)'
    BY <1>0, <1>2, <1>3, <1>4, <1>9, ElsewhereSettled DEF Same
  <2> QED
    BY <1>4, <1>10, <2>1 DEF AllSettled
<1> QED
  BY <1>5, <1>6, <1>7, <1>8, <1>11 DEF Inductive

\* A stop is inserted behind the highest position that was read.
LEMMA AddCreateInductive ==
  ASSUME Inductive, NEW r \in Request, AddCreate(r)
  PROVE  Inductive'
<1>0. TypeOK /\ Bounded /\ Working /\ Placed /\ CrewsMatch /\ AllSettled
  BY DEF Inductive
<1>1. pc[r] = "create" /\ End(r) /\ UNCHANGED <<routes, bookingVars, disturbed>>
  BY DEF AddCreate
<1>2. CASE UNCHANGED stopVars
  BY <1>1, <1>2, EndInductive
<1>3. CASE ~UNCHANGED stopVars
  <2>1. PICK x \in fresh :
          /\ at' = [at EXCEPT ![x] = rroute[r]] /\ of' = [of EXCEPT ![x] = rbooking[r]]
          /\ pos' = [pos EXCEPT ![x] = last[r] + 1] /\ fresh' = fresh \ {x}
    BY <1>3 DEF AddCreate
  <2>2. PICK rt \in Route : rroute[r] = rt
    BY <1>0, <1>1 DEF Working, TypeOK
  <2>3. /\ rt \in routes /\ rbooking[r] \in Booking
        /\ rbooking[r] \notin moved => crew[rbooking[r]] = CrewOf(rt)
    BY <1>0, <1>1, <2>2 DEF Working
  <2>4. /\ pc' \in [Request -> {"idle", "last", "create", "reorder", "list", "compact"}]
        /\ rroute' \in [Request -> Route \cup {NoRoute}]
        /\ rbooking' \in [Request -> Booking \cup {NoBooking}]
        /\ order' \in [Request -> UNION {[S -> Position] : S \in SUBSET Stop}]
        /\ last' \in [Request -> Position]
        /\ pc'[r] = "idle" /\ rroute'[r] = NoRoute /\ last'[r] = 0
        /\ \A q \in Request \ {r} : Same(q)
    BY <1>0, <1>1, EndFacts
  <2>5. /\ Used \in Nat /\ Used' = Used + 1 /\ Used' <= Cardinality(Stop)
        /\ Cardinality(Stop) \in Nat
    BY <1>0, <2>1, UsedType, UsedGrows
  <2>6. /\ x \in Stop /\ x \notin fresh' /\ fresh' \subseteq fresh /\ at[x] = NoRoute
        /\ last[r] \in Nat /\ last[r] + 1 <= Used' /\ last[r] + 1 \in Position
    BY <1>0, <2>1, <2>5 DEF TypeOK, Bounded, Position
  <2>7. /\ at'[x] = rt /\ of'[x] = rbooking[r] /\ pos'[x] = last[r] + 1
        /\ \A s \in Stop \ {x} : at'[s] = at[s] /\ of'[s] = of[s] /\ pos'[s] = pos[s]
    BY <1>0, <2>1, <2>2, <2>6 DEF TypeOK
  <2>8. UNCHANGED <<routes, crew, moved, disturbed>>
    BY <1>1 DEF bookingVars
  <2>9. TypeOK'
    <3>1. /\ at' \in [Stop -> Route \cup {NoRoute}] /\ of' \in [Stop -> Booking \cup {NoBooking}]
          /\ pos' \in [Stop -> Position] /\ fresh' \in SUBSET Stop
      BY <1>0, <2>1, <2>2, <2>3, <2>6 DEF TypeOK
    <3> QED
      BY <1>0, <2>4, <2>8, <3>1 DEF TypeOK
  <2>10. Bounded'
    <3>1. \A s \in Stop : pos'[s] <= Used' /\ (s \in fresh' => at'[s] = NoRoute)
      <4>1. \A s \in Stop : pos[s] \in Nat /\ pos[s] <= Used
        BY <1>0, <2>5 DEF TypeOK, Bounded, Position
      <4> QED
        BY <1>0, <2>5, <2>6, <2>7, <4>1 DEF Bounded
    <3>2. \A q \in Request : last'[q] <= Used'
      <4>1. \A q \in Request : last[q] \in Nat /\ last[q] <= Used
        BY <1>0, <2>5 DEF TypeOK, Bounded, Position
      <4> QED
        BY <2>4, <2>5, <4>1 DEF Same
    <3>3. ASSUME NEW q \in Request, pc'[q] \in {"reorder", "compact"}, NEW s \in DOMAIN order'[q]
          PROVE  order'[q][s] <= Used'
      <4>1. q # r /\ pc[q] \in {"reorder", "compact"} /\ order'[q] = order[q]
        BY <2>4, <3>3 DEF Same
      <4>2. order[q][s] <= Used
        BY <1>0, <3>3, <4>1 DEF Bounded
      <4>3. order[q][s] \in Nat
        BY <1>0, <2>5, <3>3, <4>1 DEF TypeOK, Position
      <4> QED
        BY <2>5, <4>1, <4>2, <4>3
    <3> QED
      BY <3>1, <3>2, <3>3 DEF Bounded
  <2>11. Working'
    <3>1. \A q \in Request \ {r} : pc[q] \in {"reorder", "compact"} =>
            \A s \in DOMAIN order[q] : s \notin fresh' /\ at'[s] \in {rroute[q], NoRoute}
      <4> SUFFICES ASSUME NEW q \in Request \ {r}, pc[q] \in {"reorder", "compact"},
                          NEW s \in DOMAIN order[q]
                   PROVE  s \notin fresh' /\ at'[s] \in {rroute[q], NoRoute}
        OBVIOUS
      <4>1. s \notin fresh /\ at[s] \in {rroute[q], NoRoute}
        BY <1>0 DEF Working
      <4>2. s \in Stop
        BY <1>0 DEF TypeOK
      <4> QED
        BY <2>1, <2>6, <2>7, <4>1, <4>2
    <3> QED
      BY <1>0, <2>4, <2>8, <3>1 DEF Working, Same
  <2>12. Placed' /\ CrewsMatch'
    BY <1>0, <2>3, <2>7, <2>8 DEF Placed, CrewsMatch
  <2>13. StopsOf(rt)' = StopsOf(rt) \cup {x} /\ x \notin StopsOf(rt)
    BY <2>6, <2>7, NullAssumption DEF StopsOf
  <2>14. \A t \in Route \ {rt} :
           StopsOf(t)' = StopsOf(t) /\ \A s \in StopsOf(t) : pos'[s] = pos[s]
    BY <2>6, <2>7, NullAssumption DEF StopsOf
  <2>15. ASSUME rt \notin disturbed
         PROVE  Settled(rt)'
    <3> DEFINE n == Cardinality(StopsOf(rt))
    <3>1. Settled(rt)
      BY <1>0, <2>15 DEF AllSettled
    <3>2. \A q \in Request : On(q, rt) => q = r
      BY <2>2, <3>1 DEF Settled, On
    <3>3. last[r] = n /\ \A q \in Request : On(q, rt) => pc[q] \notin {"list", "compact"}
      BY <1>1, <2>2, <3>1, <3>2 DEF Settled, On
    <3>4. \A q \in Request : ~On(q, rt)'
      BY <2>4, <3>2, NullAssumption DEF On, Same
    <3>5. n \in Nat /\ Cardinality(StopsOf(rt) \cup {x}) = n + 1 /\ StopsOf(rt) \subseteq Stop
      BY <2>13, StopsFinite, FS_AddElement
    <3>6. /\ \A s, t \in StopsOf(rt) : pos[s] = pos[t] => s = t
          /\ \A s \in StopsOf(rt) : pos[s] # 0 /\ pos[s] <= n
      BY <3>1, <3>3 DEF Settled
    <3>7. \A s \in StopsOf(rt) : pos'[s] = pos[s] /\ pos[s] \in Nat
      BY <1>0, <2>5, <2>7, <2>13, <3>5 DEF TypeOK, Position
    <3>8. pos'[x] = n + 1
      BY <2>7, <3>3
    <3>9. Cardinality(StopsOf(rt))' = n + 1
      BY <2>13, <3>5
    <3> HIDE DEF n
    <3>10. /\ \A s, t \in StopsOf(rt) \cup {x} : pos'[s] = pos'[t] => s = t
           /\ \A s \in StopsOf(rt) \cup {x} : pos'[s] # 0 /\ pos'[s] <= n + 1
      BY <3>5, <3>6, <3>7, <3>8
    <3>11. /\ \A s, t \in StopsOf(rt)' : pos'[s] = pos'[t] => s = t
           /\ \A s \in StopsOf(rt)' : pos'[s] # 0 /\ pos'[s] <= Cardinality(StopsOf(rt))'
      BY <2>13, <3>9, <3>10
    <3> QED
      BY <3>4, <3>11 DEF Settled
  <2>16. AllSettled'
    <3>1. \A t \in Route \ disturbed' : t # rt => Settled(t)'
      BY <1>0, <2>2, <2>4, <2>8, <2>14, ElsewhereSettled DEF Same
    <3> QED
      BY <2>8, <2>15, <3>1 DEF AllSettled
  <2> QED
    BY <2>9, <2>10, <2>11, <2>12, <2>16 DEF Inductive
<1> QED
  BY <1>2, <1>3

\* A stop is deleted and its route waits to be closed up.
LEMMA RemoveInductive ==
  ASSUME Inductive, NEW r \in Request, NEW x \in Stop, Remove(r, x)
  PROVE  Inductive'
<1>0. TypeOK /\ Bounded /\ Working /\ Placed /\ CrewsMatch /\ AllSettled
  BY DEF Inductive
<1>1. /\ at[x] # NoRoute /\ Begin(r, at[x], "list")
      /\ at' = [at EXCEPT ![x] = NoRoute] /\ of' = [of EXCEPT ![x] = NoBooking]
      /\ pos' = [pos EXCEPT ![x] = 0]
      /\ UNCHANGED <<routes, bookingVars, fresh, rbooking, order, last>>
  BY DEF Remove
<1>2. PICK rt \in Route : at[x] = rt
  BY <1>0, <1>1 DEF TypeOK
<1>3. /\ pc[r] = "idle" /\ rt \in routes /\ pc'[r] = "list" /\ rroute'[r] = rt
      /\ \A q \in Request \ {r} : pc'[q] = pc[q] /\ rroute'[q] = rroute[q]
      /\ rroute' \in [Request -> Route \cup {NoRoute}]
      /\ disturbed' \in SUBSET Route /\ disturbed \subseteq disturbed'
      /\ rt \notin disturbed' => \A q \in Request : rroute[q] # rt
  BY <1>0, <1>1, <1>2, BeginFacts
<1>4. pc' \in [Request -> {"idle", "last", "create", "reorder", "list", "compact"}]
  BY <1>0, <1>1 DEF TypeOK, Begin
<1>5. /\ at'[x] = NoRoute /\ of'[x] = NoBooking /\ pos'[x] = 0
      /\ \A s \in Stop \ {x} : at'[s] = at[s] /\ of'[s] = of[s] /\ pos'[s] = pos[s]
  BY <1>0, <1>1 DEF TypeOK
<1>6. UNCHANGED <<routes, crew, moved, fresh, rbooking, order, last>>
  BY <1>1 DEF bookingVars
<1>7. Used' = Used /\ Used \in Nat /\ 0 \in Position
  BY <1>0, <1>6, UsedType DEF Used
<1>8. TypeOK'
  BY <1>0, <1>1, <1>3, <1>4, <1>6, <1>7 DEF TypeOK
<1>9. Bounded'
  BY <1>0, <1>3, <1>5, <1>6, <1>7 DEF Bounded
<1>10. Working'
  <2>1. \A q \in Request \ {r} : pc[q] \in {"reorder", "compact"} =>
          \A s \in DOMAIN order[q] : at'[s] \in {rroute[q], NoRoute}
    <3> SUFFICES ASSUME NEW q \in Request \ {r}, pc[q] \in {"reorder", "compact"},
                        NEW s \in DOMAIN order[q]
                 PROVE  at'[s] \in {rroute[q], NoRoute}
      OBVIOUS
    <3>1. at[s] \in {rroute[q], NoRoute} /\ s \in Stop
      BY <1>0 DEF Working, TypeOK
    <3> QED
      BY <1>5, <3>1
  <2> QED
    BY <1>0, <1>3, <1>6, <2>1 DEF Working
<1>11. Placed' /\ CrewsMatch'
  BY <1>0, <1>5, <1>6 DEF Placed, CrewsMatch
<1>12. StopsOf(rt)' = StopsOf(rt) \ {x}
  BY <1>2, <1>5, NullAssumption DEF StopsOf
<1>13. \A t \in Route \ {rt} :
         StopsOf(t)' = StopsOf(t) /\ \A s \in StopsOf(t) : pos'[s] = pos[s]
  BY <1>2, <1>5, NullAssumption DEF StopsOf
<1>14. ASSUME rt \notin disturbed'
       PROVE  Settled(rt)'
  <2>1. Settled(rt) /\ \A q \in Request : ~On(q, rt)
    BY <1>0, <1>3, <1>14 DEF AllSettled, On
  <2>2. On(r, rt)' /\ \A q \in Request : On(q, rt)' => q = r
    BY <1>3, <2>1 DEF On
  <2>3. \A s \in StopsOf(rt)' : s \in StopsOf(rt) /\ pos'[s] = pos[s]
    BY <1>5, <1>12, StopsFinite
  <2>4. /\ \A s, t \in StopsOf(rt)' : pos'[s] = pos'[t] => s = t
        /\ \A s \in StopsOf(rt)' : pos'[s] # 0
    BY <2>1, <2>3 DEF Settled
  <2> QED
    BY <1>3, <2>2, <2>4 DEF Settled
<1>15. AllSettled'
  <2>1. rroute[r] = NoRoute
    BY <1>0, <1>3 DEF Working
  <2>2. \A t \in Route \ disturbed' : t # rt => Settled(t)'
    BY <1>0, <1>3, <1>6, <1>13, <2>1, ElsewhereSettled
  <2> QED
    BY <1>14, <2>2 DEF AllSettled
<1> QED
  BY <1>8, <1>9, <1>10, <1>11, <1>15 DEF Inductive

\* The remaining stops are read in the order of their positions.
LEMMA ListRemainingInductive ==
  ASSUME Inductive, NEW r \in Request, ListRemaining(r)
  PROVE  Inductive'
<1>0. TypeOK /\ Bounded /\ Working /\ Placed /\ CrewsMatch /\ AllSettled
  BY DEF Inductive
<1>1. /\ pc[r] = "list" /\ order' = [order EXCEPT ![r] = InOrder(rroute[r])]
      /\ pc' = [pc EXCEPT ![r] = "compact"]
      /\ UNCHANGED <<routes, bookingVars, stopVars, rroute, rbooking, last, disturbed>>
  BY DEF ListRemaining
<1>2. PICK rt \in Route : rroute[r] = rt
  BY <1>0, <1>1 DEF Working, TypeOK
<1>3. StopsOf(rt) \subseteq Stop \ fresh
  BY <1>0, NullAssumption DEF StopsOf, Bounded
<1>4. /\ DOMAIN InOrder(rt) = StopsOf(rt) /\ InOrder(rt) \in [StopsOf(rt) -> Position]
      /\ \A s \in StopsOf(rt) : InOrder(rt)[s] <= Used
  <2> DEFINE c(s) == Cardinality({t \in StopsOf(rt) : pos[t] <= pos[s]})
  <2>1. IsFiniteSet(Stop \ fresh)
    BY StopAssumption, FS_Subset
  <2>2. Cardinality(StopsOf(rt)) <= Used
    BY <1>3, <2>1, FS_Subset DEF Used
  <2>3. \A s \in StopsOf(rt) : c(s) \in Nat /\ c(s) <= Cardinality(StopsOf(rt))
    BY StopsFinite
  <2>4. \A s \in StopsOf(rt) : c(s) \in Position /\ c(s) <= Used
    <3> HIDE DEF c
    <3> QED
      BY <1>0, <2>2, <2>3, UsedType, StopsFinite DEF Position
  <2>5. InOrder(rt) = [s \in StopsOf(rt) |-> c(s)]
    BY DEF InOrder
  <2> HIDE DEF c
  <2> QED
    BY <2>4, <2>5
<1>5. order' \in [Request -> UNION {[T -> Position] : T \in SUBSET Stop}]
      /\ order'[r] = InOrder(rt) /\ \A q \in Request \ {r} : order'[q] = order[q]
  <2> DEFINE O == UNION {[T -> Position] : T \in SUBSET Stop}
  <2>1. InOrder(rt) \in O /\ order \in [Request -> O]
    BY <1>0, <1>3, <1>4 DEF TypeOK
  <2> HIDE DEF O
  <2>2. order' \in [Request -> O] /\ order'[r] = InOrder(rt)
        /\ \A q \in Request \ {r} : order'[q] = order[q]
    BY <1>1, <1>2, <2>1
  <2> QED
    BY <2>2 DEF O
<1>6. /\ pc'[r] = "compact" /\ \A q \in Request \ {r} : pc'[q] = pc[q]
      /\ pc' \in [Request -> {"idle", "last", "create", "reorder", "list", "compact"}]
  BY <1>0, <1>1 DEF TypeOK
<1>7. UNCHANGED <<routes, crew, moved, at, of, pos, fresh, rroute, rbooking, last, disturbed>>
  BY <1>1 DEF bookingVars, stopVars
<1>8. TypeOK'
  BY <1>0, <1>5, <1>6, <1>7 DEF TypeOK
<1>9. Bounded'
  <2>1. Used' = Used
    BY <1>7 DEF Used
  <2> QED
    BY <1>0, <1>4, <1>5, <1>6, <1>7, <2>1 DEF Bounded
<1>10. Working'
  <2>1. \A s \in StopsOf(rt) : s \notin fresh /\ at[s] = rroute[r]
    BY <1>2, <1>3 DEF StopsOf
  <2> QED
    BY <1>0, <1>1, <1>4, <1>5, <1>6, <1>7, <2>1 DEF Working
<1>11. Placed' /\ CrewsMatch'
  BY <1>0, <1>7 DEF Placed, CrewsMatch
<1>12. \A t \in Route : StopsOf(t)' = StopsOf(t) /\ InOrder(t)' = InOrder(t)
  BY <1>7 DEF StopsOf, InOrder
<1>13. ASSUME rt \notin disturbed
       PROVE  Settled(rt)'
  <2>1. Settled(rt)
    BY <1>0, <1>13 DEF AllSettled
  <2>2. On(r, rt)' /\ \A q \in Request : On(q, rt)' => q = r
    BY <1>2, <1>7, <2>1 DEF Settled, On
  <2>3. /\ \A s, t \in StopsOf(rt)' : pos'[s] = pos'[t] => s = t
        /\ \A s \in StopsOf(rt)' : pos'[s] # 0
    BY <1>7, <1>12, <2>1 DEF Settled
  <2> QED
    BY <1>5, <1>6, <1>12, <2>2, <2>3 DEF Settled
<1>14. AllSettled'
  <2>1. \A t \in Route \ disturbed' : t # rt => Settled(t)'
    BY <1>0, <1>2, <1>5, <1>6, <1>7, <1>12, ElsewhereSettled
  <2> QED
    BY <1>7, <1>13, <2>1 DEF AllSettled
<1> QED
  BY <1>8, <1>9, <1>10, <1>11, <1>14 DEF Inductive

\* On a settled route the list that a removal read is never refused: no row is gone,
\* and every position it still needs is held by a stop that moves away before.
LEMMA CompactNotRefused ==
  ASSUME Inductive, NEW r \in Request, pc[r] = "compact", rroute[r] \notin disturbed
  PROVE  /\ ~Refused(rroute[r], order[r]) /\ order[r] = InOrder(rroute[r])
         /\ \A s, t \in StopsOf(rroute[r]) : pos[s] < pos[t] => order[r][s] < order[r][t]
         /\ \A s \in StopsOf(rroute[r]) :
              order[r][s] \in 1 .. Cardinality(StopsOf(rroute[r]))
<1>0. TypeOK /\ Working /\ AllSettled
  BY DEF Inductive
<1>1. PICK rt \in Route : rroute[r] = rt
  BY <1>0 DEF Working, TypeOK
<1>2. /\ order[r] = InOrder(rt)
      /\ \A s, t \in StopsOf(rt) : pos[s] = pos[t] => s = t
      /\ \A s \in StopsOf(rt) : pos[s] # 0
  BY <1>0, <1>1 DEF AllSettled, Settled, On
<1> DEFINE f == InOrder(rt)
<1>3. /\ f \in [StopsOf(rt) -> 1 .. Cardinality(StopsOf(rt))]
      /\ \A s \in StopsOf(rt) : f[s] <= pos[s]
      /\ \A s, t \in StopsOf(rt) : pos[s] < pos[t] => f[s] < f[t]
  BY <1>0, <1>2, RankFacts DEF TypeOK
<1> HIDE DEF f
<1>4. \A s \in StopsOf(rt) : pos[s] \in Nat /\ f[s] \in Nat /\ at[s] # NoRoute
  <2>1. StopsOf(rt) \subseteq Stop /\ Cardinality(StopsOf(rt)) \in Nat
    BY StopsFinite
  <2>2. \A s \in StopsOf(rt) : pos[s] \in Nat
    BY <1>0, <2>1, UsedType DEF TypeOK, Position
  <2>3. \A s \in StopsOf(rt) : f[s] \in Nat
    BY <1>3, <2>1
  <2>4. \A s \in StopsOf(rt) : at[s] # NoRoute
    BY NullAssumption DEF StopsOf
  <2> QED
    BY <2>2, <2>3, <2>4
<1>5. ASSUME NEW s \in StopsOf(rt), NEW t \in StopsOf(rt), t # s, pos[t] = f[s]
      PROVE  f[t] < f[s]
  <2>1. pos[t] # pos[s] /\ f[t] <= f[s] /\ f[s] <= pos[s]
    BY <1>2, <1>3, <1>5
  <2>2. pos[t] < pos[s]
    BY <1>4, <1>5, <2>1
  <2> QED
    BY <1>3, <2>2
<1>6. ~Refused(rt, f)
  BY <1>3, <1>4, <1>5 DEF Refused
<1>7. order[r] = f
  BY <1>2 DEF f
<1> QED
  BY <1>1, <1>2, <1>3, <1>6, <1>7

\* A list that is not refused is written; each of its stops is on the route.
LEMMA Written ==
  ASSUME Inductive, NEW r \in Request, pc[r] \in {"reorder", "compact"},
         Renumber(rroute[r], order[r]), ~Refused(rroute[r], order[r])
  PROVE  /\ DOMAIN order[r] \subseteq StopsOf(rroute[r])
         /\ order[r] \in [DOMAIN order[r] -> Position]
         /\ \A s \in DOMAIN order[r] : pos'[s] = order[r][s]
         /\ \A s \in Stop \ DOMAIN order[r] : pos'[s] = pos[s]
         /\ pos' \in [Stop -> Position]
         /\ \A s \in Stop : pos'[s] <= Used
<1>0. TypeOK /\ Working /\ Bounded
  BY DEF Inductive
<1> DEFINE f == order[r]
<1>1. DOMAIN f \subseteq Stop /\ f \in [DOMAIN f -> Position]
  BY <1>0 DEF TypeOK
<1>2. DOMAIN f \subseteq StopsOf(rroute[r])
  BY <1>0, <1>1 DEF Working, Refused, StopsOf
<1>3. pos' = [s \in Stop |-> IF s \in DOMAIN f THEN f[s] ELSE pos[s]]
  BY DEF Renumber
<1>4. \A s \in DOMAIN f : f[s] <= Used
  BY <1>0 DEF Bounded
<1>5. /\ \A s \in DOMAIN f : pos'[s] = f[s]
      /\ \A s \in Stop \ DOMAIN f : pos'[s] = pos[s]
  BY <1>1, <1>3
<1>6. \A s \in Stop : pos'[s] \in Position
  BY <1>0, <1>1, <1>5 DEF TypeOK
<1>7. \A s \in Stop : pos'[s] <= Used
  BY <1>0, <1>1, <1>4, <1>5 DEF Bounded
<1>8. pos' \in [Stop -> Position]
  BY <1>3, <1>6
<1> HIDE DEF f
<1>9. /\ DOMAIN f \subseteq StopsOf(rroute[r]) /\ f \in [DOMAIN f -> Position]
      /\ pos' \in [Stop -> Position] /\ \A s \in Stop : pos'[s] <= Used
  BY <1>1, <1>2, <1>7, <1>8
<1> QED
  BY <1>5, <1>9 DEF f

\* A list is written and the request ends; the route it worked on is dense again.
LEMMA RenumberInductive ==
  ASSUME Inductive, NEW r \in Request, Reorder(r) \/ Compact(r)
  PROVE  Inductive'
<1>0. TypeOK /\ Bounded /\ Working /\ Placed /\ CrewsMatch /\ AllSettled
  BY DEF Inductive
<1>1. /\ pc[r] \in {"reorder", "compact"} /\ Renumber(rroute[r], order[r]) /\ End(r)
      /\ UNCHANGED <<routes, bookingVars, disturbed>>
  BY DEF Reorder, Compact
<1>2. PICK rt \in Route : rroute[r] = rt
  BY <1>0, <1>1 DEF Working, TypeOK
<1>3. CASE Refused(rroute[r], order[r])
  <2>1. UNCHANGED stopVars
    BY <1>1, <1>3 DEF Renumber, stopVars
  <2>2. pc[r] = "reorder" \/ rroute[r] \in disturbed
    BY <1>1, <1>3, CompactNotRefused
  <2> QED
    BY <1>1, <2>1, <2>2, EndInductive
<1>4. CASE ~Refused(rroute[r], order[r])
  <2> DEFINE D == DOMAIN order[r]
  <2>1. /\ D \subseteq StopsOf(rt) /\ \A s \in D : pos'[s] = order[r][s]
        /\ \A s \in Stop \ D : pos'[s] = pos[s]
        /\ pos' \in [Stop -> Position] /\ \A s \in Stop : pos'[s] <= Used
    BY <1>1, <1>2, <1>4, Written
  <2>2. /\ pc' \in [Request -> {"idle", "last", "create", "reorder", "list", "compact"}]
        /\ rroute' \in [Request -> Route \cup {NoRoute}]
        /\ rbooking' \in [Request -> Booking \cup {NoBooking}]
        /\ order' \in [Request -> UNION {[S -> Position] : S \in SUBSET Stop}]
        /\ last' \in [Request -> Position]
        /\ pc'[r] = "idle" /\ rroute'[r] = NoRoute /\ last'[r] = 0
        /\ \A q \in Request \ {r} : Same(q)
    BY <1>0, <1>1, EndFacts
  <2>3. UNCHANGED <<routes, crew, moved, at, of, fresh, disturbed>>
    BY <1>1 DEF bookingVars, Renumber
  <2>4. TypeOK'
    BY <1>0, <2>1, <2>2, <2>3 DEF TypeOK
  <2>5. Bounded'
    <3>1. Used' = Used /\ Used \in Nat
      BY <1>0, <2>3, UsedType DEF Used
    <3>2. \A s \in Stop : pos'[s] <= Used' /\ (s \in fresh' => at'[s] = NoRoute)
      BY <1>0, <2>1, <2>3, <3>1 DEF Bounded
    <3> QED
      BY <1>0, <2>2, <3>1, <3>2 DEF Bounded, Same
  <2>6. Working'
    BY <1>0, <2>2, <2>3 DEF Working, Same
  <2>7. Placed' /\ CrewsMatch'
    BY <1>0, <2>3 DEF Placed, CrewsMatch
  <2>8. \A t \in Route : StopsOf(t)' = StopsOf(t)
    BY <2>3 DEF StopsOf
  <2>9. \A t \in Route \ {rt} : \A s \in StopsOf(t) : pos'[s] = pos[s]
    BY <2>1 DEF StopsOf
  <2>10. ASSUME rt \notin disturbed
         PROVE  /\ \A s, t \in StopsOf(rt) : pos'[s] = pos'[t] => s = t
                /\ \A s \in StopsOf(rt) : pos'[s] # 0 /\ pos'[s] <= Cardinality(StopsOf(rt))
    <3> DEFINE n == Cardinality(StopsOf(rt))
    <3>1. /\ \A s, t \in StopsOf(rt) : pos[s] = pos[t] => s = t
          /\ \A s \in StopsOf(rt) : pos[s] # 0
          /\ StopsOf(rt) \subseteq Stop /\ n \in Nat
      BY <1>0, <2>10, StopsFinite DEF AllSettled, Settled
    <3>2. \A s \in StopsOf(rt) : pos[s] \in Nat /\ pos'[s] \in Nat
      BY <1>0, <2>1, <3>1, UsedType DEF TypeOK, Position
    <3>3. CASE pc[r] = "compact"
      <4>1. /\ \A s, t \in StopsOf(rt) : pos[s] < pos[t] => order[r][s] < order[r][t]
            /\ \A s \in StopsOf(rt) : order[r][s] \in 1 .. n
            /\ order[r] = InOrder(rt)
        BY <1>2, <2>10, <3>3, CompactNotRefused
      <4>2. \A s \in StopsOf(rt) : pos'[s] = order[r][s]
        BY <2>1, <4>1 DEF InOrder
      <4>3. \A s, t \in StopsOf(rt) : s # t => pos[s] < pos[t] \/ pos[t] < pos[s]
        BY <3>1, <3>2
      <4>4. \A s, t \in StopsOf(rt) : s # t => pos'[s] # pos'[t]
        BY <3>2, <4>1, <4>2, <4>3
      <4>5. \A s \in StopsOf(rt) : pos'[s] # 0 /\ pos'[s] <= n
        BY <4>1, <4>2, <3>1
      <4> QED
        BY <4>4, <4>5
    <3>4. CASE pc[r] = "reorder"
      <4>1. Settled(rt) /\ On(r, rt)
        BY <1>0, <1>2, <2>10 DEF AllSettled, On
      <4>2. \A q \in Request : On(q, rt) => pc[q] \notin {"list", "compact"}
        BY <3>4, <4>1 DEF Settled
      <4>3. order[r] \in Numberings(D) /\ \A s \in StopsOf(rt) : pos[s] <= n
        BY <3>4, <4>1, <4>2 DEF Settled
      <4>4. Cardinality(D) \in Nat /\ Cardinality(D) <= n
        BY <2>1, StopsFinite
      <4>5. \A s \in D : pos'[s] \in 1 .. Cardinality(D)
        BY <2>1, <4>3 DEF Numberings
      <4>6. \A s, t \in D : s # t => pos'[s] # pos'[t]
        BY <2>1, <4>3 DEF Numberings
      <4>7. \A s \in D, t \in StopsOf(rt) \ D : pos'[s] # pos'[t]
        BY <1>2, <1>4, <2>1, <3>1 DEF Refused
      <4>8. \A s \in StopsOf(rt) : pos'[s] # 0 /\ pos'[s] <= n
        BY <2>1, <3>1, <3>2, <4>3, <4>4, <4>5
      <4>9. \A s, t \in StopsOf(rt) \ D : s # t => pos'[s] # pos'[t]
        BY <2>1, <3>1
      <4> QED
        BY <2>1, <4>6, <4>7, <4>8, <4>9
    <3> QED
      BY <1>1, <3>3, <3>4
  <2>11. ASSUME rt \notin disturbed
         PROVE  Settled(rt)'
    <3>1. \A q \in Request : On(q, rt) => q = r
      BY <1>0, <1>2, <2>11 DEF AllSettled, Settled, On
    <3>2. \A q \in Request : ~On(q, rt)'
      BY <2>2, <3>1, NullAssumption DEF On, Same
    <3> QED
      BY <2>8, <2>10, <2>11, <3>2 DEF Settled
  <2>12. AllSettled'
    <3>1. \A t \in Route \ disturbed' : t # rt => Settled(t)'
      BY <1>0, <1>2, <2>2, <2>3, <2>8, <2>9, ElsewhereSettled DEF Same
    <3> QED
      BY <2>3, <2>11, <3>1 DEF AllSettled
  <2> QED
    BY <2>4, <2>5, <2>6, <2>7, <2>12 DEF Inductive
<1> QED
  BY <1>3, <1>4

\* Every step keeps the inductive invariant.
LEMMA NextInductive == Inductive /\ [Next]_vars => Inductive'
<1> SUFFICES ASSUME Inductive, [Next]_vars
             PROVE  Inductive'
  OBVIOUS
<1>1. CASE \/ \E rt \in Route : CreateRoute(rt)
           \/ \E b \in Booking, c \in Crew : ChangeCrew(b, c)
  BY <1>1, OutsideInductive
<1>2. ASSUME NEW r \in Request, NEW rt \in Route, NEW b \in Booking, AddCheck(r, rt, b)
      PROVE  Inductive'
  BY <1>2, AddCheckInductive
<1>3. ASSUME NEW r \in Request, NEW rt \in Route, NEW S \in SUBSET Stop, ReorderRead(r, rt, S)
      PROVE  Inductive'
  BY <1>3, ReorderReadInductive
<1>4. ASSUME NEW r \in Request, NEW s \in Stop, Remove(r, s)
      PROVE  Inductive'
  BY <1>4, RemoveInductive
<1>5. ASSUME NEW r \in Request,
             \/ AddLast(r) \/ AddCreate(r) \/ Reorder(r)
             \/ ListRemaining(r) \/ Compact(r) \/ Abort(r)
      PROVE  Inductive'
  BY <1>5, AddLastInductive, AddCreateInductive, RenumberInductive,
     ListRemainingInductive, AbortInductive
<1>6. CASE UNCHANGED vars
  <2>1. TypeOK' /\ Bounded' /\ Working' /\ Placed' /\ CrewsMatch'
    BY <1>6 DEF Inductive, TypeOK, Bounded, Used, Working, Placed, CrewsMatch,
                vars, bookingVars, stopVars, reqVars
  <2>2. AllSettled'
    BY <1>6 DEF Inductive, AllSettled, Settled, StopsOf, On, InOrder,
                vars, bookingVars, stopVars, reqVars
  <2> QED
    BY <2>1, <2>2 DEF Inductive
<1> QED
  BY <1>1, <1>2, <1>3, <1>4, <1>5, <1>6 DEF Next

-----------------------------------------------------------------------------
(* The theorems                                                              *)

\* In every reachable state the inductive invariant holds.
THEOREM InductiveInvariant == Spec => []Inductive
  BY InitInductive, NextInductive, PTL DEF Spec

\* The variables keep their types: no position exceeds the number of stops that were
\* ever added.
THEOREM TypeCorrect == Spec => []TypeOK
<1>1. Inductive => TypeOK
  BY DEF Inductive
<1> QED
  BY <1>1, InductiveInvariant, PTL

\* A stop's booking belongs to the crew of its route, unless it was moved.
THEOREM CrewsAgree == Spec => []CrewsMatch
<1>1. Inductive => CrewsMatch
  BY DEF Inductive
<1> QED
  BY <1>1, InductiveInvariant, PTL

\* A route at rest, never disturbed, numbers its stops 1, 2, ... without a gap, whatever
\* was added, removed and reordered there.
THEOREM NoGaps == Spec => []GapFree
<1>1. Inductive => GapFree
  <2> SUFFICES ASSUME Inductive, NEW rt \in routes \ disturbed,
                      \A r \in Request : rroute[r] # rt
               PROVE  {pos[s] : s \in StopsOf(rt)} = 1 .. Cardinality(StopsOf(rt))
    BY DEF GapFree
  <2>1. TypeOK /\ Settled(rt)
    BY DEF Inductive, AllSettled, TypeOK
  <2> QED
    BY <2>1, DensePositions DEF On
<1> QED
  BY <1>1, InductiveInvariant, PTL

\* Only a list that is written moves a stop that stays.
LEMMA PositionsStay ==
  ASSUME Inductive, Next
  PROVE  \/ \A s \in Stop : at[s] # NoRoute /\ at'[s] # NoRoute => pos'[s] = pos[s]
         \/ \E r \in Request : Reorder(r) \/ Compact(r)
<1>0. TypeOK /\ Bounded
  BY DEF Inductive
<1>1. ASSUME NEW r \in Request, AddCreate(r)
      PROVE  \A s \in Stop : at[s] # NoRoute => pos'[s] = pos[s]
  BY <1>0, <1>1 DEF AddCreate, TypeOK, Bounded, stopVars
<1>2. ASSUME NEW r \in Request, NEW x \in Stop, Remove(r, x)
      PROVE  \A s \in Stop : at'[s] # NoRoute => pos'[s] = pos[s]
  BY <1>0, <1>2 DEF Remove, TypeOK
<1>3. CASE UNCHANGED pos
  BY <1>3
<1> QED
  BY <1>1, <1>2, <1>3 DEF Next, CreateRoute, ChangeCrew, AddCheck, ReorderRead, AddLast,
     ListRemaining, Abort, stopVars

\* The action property OrderKept of every behaviour: on an undisturbed route only a
\* reorder request changes the order of two stops.
THEOREM OrderStays == Spec => OrderKept
<1> DEFINE Kept(rt, s, t) ==
      (/\ at'[s] = rt /\ at'[t] = rt
       /\ pos[s] < pos[t] /\ ~ pos'[s] < pos'[t])
        => \E r \in Request : pc[r] = "reorder" /\ pc'[r] = "idle"
<1>1. Inductive /\ [Next]_vars
        => [\A rt \in Route \ disturbed' : \A s, t \in StopsOf(rt) : Kept(rt, s, t)]_vars
  <2> SUFFICES ASSUME Inductive, Next, NEW rt \in Route \ disturbed',
                      NEW s \in StopsOf(rt), NEW t \in StopsOf(rt),
                      at'[s] = rt, at'[t] = rt, pos[s] < pos[t], ~ pos'[s] < pos'[t]
               PROVE  \E r \in Request : pc[r] = "reorder" /\ pc'[r] = "idle"
    OBVIOUS
  <2>1. TypeOK /\ s \in Stop /\ t \in Stop /\ at[s] = rt /\ at[t] = rt /\ rt # NoRoute
    BY NullAssumption DEF Inductive, StopsOf
  <2>2. PICK r \in Request : Reorder(r) \/ Compact(r)
    BY <2>1, PositionsStay
  <2>3. End(r) /\ UNCHANGED disturbed
    BY <2>2 DEF Reorder, Compact
  <2>4. CASE Reorder(r)
    BY <2>1, <2>3, <2>4, EndFacts DEF Reorder
  <2>5. CASE Compact(r)
    <3>1. pc[r] = "compact" /\ Renumber(rroute[r], order[r])
      BY <2>5 DEF Compact
    <3>2. ~Refused(rroute[r], order[r])
      BY <3>1 DEF Renumber
    <3>3. /\ DOMAIN order[r] \subseteq StopsOf(rroute[r])
          /\ \A u \in DOMAIN order[r] : pos'[u] = order[r][u]
          /\ \A u \in Stop \ DOMAIN order[r] : pos'[u] = pos[u]
      BY <3>1, <3>2, Written
    <3>4. CASE rroute[r] # rt
      BY <2>1, <3>3, <3>4 DEF StopsOf
    <3>5. CASE rroute[r] = rt
      <4>1. /\ order[r] = InOrder(rt)
            /\ \A u, v \in StopsOf(rt) : pos[u] < pos[v] => order[r][u] < order[r][v]
        BY <2>3, <3>1, <3>5, CompactNotRefused
      <4>2. DOMAIN order[r] = StopsOf(rt)
        BY <4>1 DEF InOrder
      <4> QED
        BY <3>3, <4>1, <4>2
    <3> QED
      BY <3>4, <3>5
  <2> QED
    BY <2>2, <2>4, <2>5
<1> QED
  BY <1>1, InductiveInvariant, PTL DEF Spec, OrderKept
=============================================================================
