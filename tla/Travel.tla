-------------------------------- MODULE Travel --------------------------------
(***************************************************************************)
(* A trip and the traveller list: the trips of api/routes/people.py.  The  *)
(* day moves on while the trip is edited.  Where a trip goes is nowhere, a *)
(* site of the organization, or a city (coordinates are as good).          *)
(***************************************************************************)
EXTENDS Naturals

CONSTANTS WindowDays, LastDay \* window_days of the list; days are 1 .. LastDay, 0 is no date

ASSUME TravelAssumption == WindowDays \in Nat /\ LastDay \in Nat \ {0}

VARIABLES today, trip, checkedIn

travelVars == <<today, trip, checkedIn>>

Itinerary == [to : {"nowhere", "site", "city"}, depart : 0 .. LastDay, back : 0 .. LastDay]
NoTrip == [to |-> "nowhere", depart |-> 0, back |-> 0, active |-> FALSE]
Booked(i, active) == [to |-> i.to, depart |-> i.depart, back |-> i.back, active |-> active]
-----------------------------------------------------------------------------
TravelInit == today = 1 /\ trip = NoTrip /\ checkedIn = 0

DayPasses ==
    /\ today < LastDay
    /\ today' = today + 1
    /\ UNCHANGED <<trip, checkedIn>>

InOrder(i) == i.depart # 0 /\ i.back # 0 => i.depart <= i.back

CreateTrip(i) ==
    /\ trip = NoTrip /\ InOrder(i) /\ i.to # "nowhere"
    /\ trip' = Booked(i, TRUE) /\ checkedIn' = 0
    /\ UNCHANGED today

\* Every field may be set, to nothing too, and only the dates are looked at again;
\* a check-in takes the server's day.
UpdateTrip(i, checkIn) ==
    /\ trip # NoTrip /\ InOrder(i)
    /\ trip' = Booked(i, trip.active)
    /\ checkedIn' = IF checkIn THEN today ELSE checkedIn
    /\ UNCHANGED today

DeleteTrip ==
    /\ trip.active
    /\ trip' = [trip EXCEPT !.active = FALSE]
    /\ UNCHANGED <<today, checkedIn>>

\* mutant: the window has two ends
UpcomingOnly(t) == t.active /\ (t.back = 0 \/ t.back \in today .. today + WindowDays)
\* list_trips filters on the return alone.
OnTheList(t) == t.active /\ (t.back = 0 \/ t.back <= today + WindowDays)

TravelNext ==
    \/ DayPasses
    \/ \E i \in Itinerary : CreateTrip(i) \/ \E checkIn \in BOOLEAN : UpdateTrip(i, checkIn)
    \/ DeleteTrip

TravelSpec == TravelInit /\ [][TravelNext]_travelVars
-----------------------------------------------------------------------------
\* people.py:192-195, "a traveller who left two months ago and has not come back is
\* exactly the person a duty-of-care platform must not drop off the list": once a trip
\* is listed, no passing of days takes it off, however long its return is overdue.
TimeDropsNobody == [][OnTheList(trip) /\ today' # today => OnTheList(trip)']_travelVars
=============================================================================
