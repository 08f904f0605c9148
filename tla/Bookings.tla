------------------------------ MODULE Bookings ------------------------------
(***************************************************************************)
(* Booking statuses, of which one should be the default, and the booking   *)
(* of a work order with the log of its status changes                      *)
(* (src/modules/scheduling/statuses.service.ts and bookings.service.ts).   *)
(*                                                                         *)
(* A status becomes the default in a transaction that first clears the     *)
(* defaults it sees; it does not see what another transaction is about to  *)
(* commit.  A booking's status is compared with the new one in calls       *)
(* before the transaction that writes it.                                  *)
(***************************************************************************)
EXTENDS Naturals, Sequences, FiniteSets

CONSTANTS
    Status,         \* pool of booking statuses, by name
    BookRequest,    \* requests that may be in progress at once
    MaxLog,         \* bound: status changes of the booking
    NoStatus

ASSUME BookingsAssumption ==
    MaxLog \in Nat /\ NoStatus \notin Status /\ IsFiniteSet(BookRequest)

VARIABLES
    present, default, active,   \* the statuses there are, with their two flags
    booking,    \* status of the booking, NoStatus while there is none
    log,        \* statuses of its BookingStatusEvents, in the order of commit
    first,      \* the status it was created with
    bpc,        \* what each request does next
    target,     \* the status it is about
    seen,       \* the defaults it has cleared, or the booking's status it has read
    apart       \* history: no two status changes have overlapped

statusVars  == <<present, default, active>>
bookingVars == <<booking, log, first>>
bookReqVars == <<bpc, target, seen>>
bookVars    == <<statusVars, bookingVars, bookReqVars, apart>>

BookTypeOK ==
    /\ present \subseteq Status /\ default \subseteq present /\ active \subseteq present
    /\ booking \in present \cup {NoStatus} /\ first \in present \cup {NoStatus}
    /\ log \in Seq(present) /\ Len(log) <= MaxLog
    /\ bpc \in [BookRequest -> {"idle", "default", "create", "resolve", "change"}]
    /\ target \in [BookRequest -> Status \cup {NoStatus}]
    /\ seen \in [BookRequest -> SUBSET Status]
    /\ apart \in BOOLEAN

BookInit ==
    /\ present = {} /\ default = {} /\ active = {}
    /\ booking = NoStatus /\ log = <<>> /\ first = NoStatus
    /\ bpc = [q \in BookRequest |-> "idle"]
    /\ target = [q \in BookRequest |-> NoStatus]
    /\ seen = [q \in BookRequest |-> {}]
    /\ apart = TRUE

BookStep(q, step, s, S) ==
    /\ bpc' = [bpc EXCEPT ![q] = step]
    /\ target' = [target EXCEPT ![q] = s]
    /\ seen' = [seen EXCEPT ![q] = S]

BookEnd(q) == BookStep(q, "idle", NoStatus, {})

-----------------------------------------------------------------------------
(* createBookingStatus, updateBookingStatus                                 *)

\* Each flag is in the input or not; a new status is no default, but active,
\* unless the input says otherwise.
SetActive(s) == active' \in {active \cup {s}, active \ {s}}

\* Without isDefault there is a single write.
WriteStatus(s) ==
    /\ present' = present \cup {s}
    /\ default' \in {default, default \ {s}}
    /\ SetActive(s)
    /\ UNCHANGED <<bookingVars, bookReqVars, apart>>

\* updateMany { isDefault: true, NOT: { id } }
ClearDefaults(q, s) ==
    /\ bpc[q] = "idle"
    /\ BookStep(q, "default", s, default \ {s})
    /\ UNCHANGED <<statusVars, bookingVars, apart>>

\* Faulty variant: the defaults are not cleared.
DefaultsBeside(q) == default' = default \cup {target[q]}

DefaultsAfter(q) == default' = (default \ seen[q]) \cup {target[q]}

\* The commit.
MakeDefault(q) ==
    /\ bpc[q] = "default"
    /\ present' = present \cup {target[q]}
    /\ DefaultsAfter(q)
    /\ SetActive(target[q])
    /\ BookEnd(q)
    /\ UNCHANGED <<bookingVars, apart>>

-----------------------------------------------------------------------------
(* createBooking, changeBookingStatus                                       *)

\* A status that is named has to exist; else an active default or, without one,
\* any active status (which one is a matter of sortOrder).
ResolveStatus ==
    present \cup (IF default \cap active # {} THEN default \cap active ELSE active)

CreateBookingResolve(q) ==
    /\ bpc[q] = "idle" /\ booking = NoStatus
    /\ \E s \in ResolveStatus : BookStep(q, "create", s, {})
    /\ UNCHANGED <<statusVars, bookingVars, apart>>

\* BOOKING_ALREADY_EXISTS when the work order has one by now (P2002).
CreateBookingInsert(q) ==
    /\ bpc[q] = "create"
    /\ IF booking = NoStatus THEN booking' = target[q] /\ first' = target[q]
       ELSE UNCHANGED <<booking, first>>
    /\ BookEnd(q)
    /\ UNCHANGED <<statusVars, log, apart>>

ChangeRead(q) ==
    /\ bpc[q] = "idle" /\ booking # NoStatus
    /\ BookStep(q, "resolve", NoStatus, {booking})
    /\ apart' = (apart /\ \A p \in BookRequest : bpc[p] \notin {"resolve", "change"})
    /\ UNCHANGED <<statusVars, bookingVars>>

\* Faulty variant: the new status is not compared with the present one.
ChangeResolveAny(q) ==
    /\ bpc[q] = "resolve"
    /\ \E s \in ResolveStatus : BookStep(q, "change", s, seen[q])
    /\ UNCHANGED <<statusVars, bookingVars, apart>>

\* The status it has already: nothing is written, no event.
ChangeResolve(q) ==
    /\ bpc[q] = "resolve"
    /\ \E s \in ResolveStatus :
        IF s \in seen[q] THEN BookEnd(q) ELSE BookStep(q, "change", s, seen[q])
    /\ UNCHANGED <<statusVars, bookingVars, apart>>

\* One transaction writes the status and its event.
ChangeCommit(q) ==
    /\ bpc[q] = "change" /\ Len(log) < MaxLog
    /\ booking' = target[q]
    /\ log' = Append(log, target[q])
    /\ BookEnd(q)
    /\ UNCHANGED <<statusVars, first, apart>>

\* A call fails, a name is taken, or the process dies: transactions roll back.
AbortBooking(q) ==
    /\ bpc[q] # "idle"
    /\ BookEnd(q)
    /\ UNCHANGED <<statusVars, bookingVars, apart>>

BookNext ==
    \/ \E s \in Status : WriteStatus(s)
    \/ \E q \in BookRequest, s \in Status : ClearDefaults(q, s)
    \/ \E q \in BookRequest :
        \/ MakeDefault(q) \/ CreateBookingResolve(q) \/ CreateBookingInsert(q)
        \/ ChangeRead(q) \/ ChangeResolve(q) \/ ChangeCommit(q) \/ AbortBooking(q)

BookSpec == BookInit /\ [][BookNext]_bookVars

-----------------------------------------------------------------------------
(***************************************************************************)
(* There is one default status, but for transactions that overlap: of two  *)
(* defaults, the later one did not see the other when it cleared them, so  *)
(* there are never more than requests in progress at once.                 *)
(***************************************************************************)
DefaultsOverlap == Cardinality(default) <= Cardinality(BookRequest)

(***************************************************************************)
(* The log tells the story of the booking: it ends with the present        *)
(* status, and as long as no two changes overlap every entry is a change   *)
(* from the one before it.                                                 *)
(***************************************************************************)
Story == IF booking = NoStatus THEN log ELSE <<first>> \o log

LogFollowsBooking ==
    /\ booking # NoStatus => booking = Story[Len(Story)]
    /\ apart => \A i \in 1 .. Len(Story) - 1 : Story[i] # Story[i + 1]
=============================================================================
