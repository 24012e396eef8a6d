-------- MODULE Profile --------
(***************************************************************************)
(* An astrologer's document as the astrologer and administrators edit it   *)
(* (AstrologerService, AvailabilityService, AdminAstrologersService):      *)
(* services that are offered, presence, place in the listing, commission.  *)
(* A profile is complete from its approval on and stays so; the checks of  *)
(* isComplete always pass and are left out.                                *)
(***************************************************************************)
EXTENDS Handlers

CONSTANTS Astrologers, Places, MaxCredits

VARIABLES
  enabled,  \* services that are on, of the first astrologer
  online, available, \* availability
  earned,   \* earnings.totalEarned
  rate,     \* earnings.platformCommissionRate
  credited, \* earnings credited by settled bills (history)
  overlapped, \* a bill was credited while a rate was being saved (history)
  place     \* displayOrder of each astrologer, 0 for none

pvars == <<enabled, online, available, earned, rate, credited, overlapped, place, work>>

----------------
Services == {"chat", "call", "live"}
Rates == {0, 50, 100}

\* The document that approveAndCreateAstrologer creates.
Init ==
  /\ enabled = Services /\ online = FALSE /\ available = FALSE
  /\ earned = 0 /\ rate = 50 /\ credited = 0 /\ overlapped = FALSE
  /\ place = [a \in Astrologers |-> 0] /\ NoHandler

(* The astrologer. *)

\* Saving a price completes the profile once more: every service is on, also
\* those an administrator has turned off, and the astrologer is available.
UpdatePricing ==
  /\ enabled' = Services /\ online' = TRUE /\ available' = TRUE
  /\ UNCHANGED <<earned, rate, credited, overlapped, place, work>>

UpdateProfile(service, on) ==
  /\ service # "live" /\ enabled' = IF on THEN enabled \cup {service} ELSE enabled \ {service}
  /\ UNCHANGED <<online, available, earned, rate, credited, overlapped, place, work>>

\* Going offline leaves isAvailable as it is.
ToggleOnlineStatus(on) ==
  /\ online' = on /\ available' = (on \/ available)
  /\ UNCHANGED <<enabled, earned, rate, credited, overlapped, place, work>>

\* The website's form; "keep" stands for a field that was left out.
UpdateAvailability(on, free) ==
  /\ online' = IF on = "keep" THEN online ELSE on = "yes"
  /\ available' = IF free # "keep" THEN free = "yes" ELSE on # "keep" \/ available
  /\ UNCHANGED <<enabled, earned, rate, credited, overlapped, place, work>>

\* toggleAvailability reads isOnline before it saves.
BecomeAvailable(r) ==
  /\ online /\ Begin(r, [pc |-> "available"])
  /\ UNCHANGED <<enabled, online, available, earned, rate, credited, overlapped, place>>
SaveAvailable(r) ==
  /\ At(r, "available") /\ available' = TRUE /\ Finish(r)
  /\ UNCHANGED <<enabled, online, earned, rate, credited, overlapped, place>>
BecomeUnavailable ==
  /\ available' = FALSE
  /\ UNCHANGED <<enabled, online, earned, rate, credited, overlapped, place, work>>

(* Administrators. *)
ToggleFeatures(service, on) ==
  /\ enabled' = IF on THEN enabled \cup {service} ELSE enabled \ {service}
  /\ UNCHANGED <<online, available, earned, rate, credited, overlapped, place, work>>

\* updateCommissionRate reads the document ...
UpdateCommissionRate(r, new) ==
  /\ Begin(r, [pc |-> "rate", earned |-> earned, rate |-> new])
  /\ UNCHANGED <<enabled, online, available, earned, rate, credited, overlapped, place>>

\* Fault: earnings are set up anew.
ResetEarnings(r) ==
  /\ At(r, "rate") /\ earned' = 0 /\ rate' = work[r].rate /\ Finish(r)
  /\ UNCHANGED <<enabled, online, available, credited, overlapped, place>>
\* ... and saves its earnings whole, as they were then.
SaveRate(r) ==
  /\ At(r, "rate") /\ earned' = work[r].earned /\ rate' = work[r].rate /\ Finish(r)
  /\ UNCHANGED <<enabled, online, available, credited, overlapped, place>>

\* A bill is settled ($inc).
CreditEarnings ==
  /\ credited < MaxCredits /\ credited' = credited + 1 /\ earned' = earned + 1
  /\ overlapped' = (overlapped \/ \E r \in Slots : At(r, "rate"))
  /\ UNCHANGED <<enabled, online, available, rate, place, work>>

Occupied(a, n) == \E b \in Astrologers \ {a} : place[b] = n
\* Fault: the place is not looked for.
TakePlace(r, a, n) ==
  /\ Begin(r, [pc |-> "place", a |-> a, n |-> n])
  /\ UNCHANGED <<enabled, online, available, earned, rate, credited, overlapped, place>>
\* updateDisplayOrder looks whether the place is taken ...
UpdateDisplayOrder(r, a, n) ==
  /\ n # 0 => ~Occupied(a, n)
  /\ Begin(r, [pc |-> "place", a |-> a, n |-> n])
  /\ UNCHANGED <<enabled, online, available, earned, rate, credited, overlapped, place>>
\* ... and takes it.
SavePlace(r) ==
  /\ At(r, "place") /\ place' = [place EXCEPT ![work[r].a] = work[r].n] /\ Finish(r)
  /\ UNCHANGED <<enabled, online, available, earned, rate, credited, overlapped>>

AstrologerRequests(r) ==
  \/ UpdatePricing \/ BecomeAvailable(r) \/ BecomeUnavailable
  \/ \E on \in BOOLEAN : ToggleOnlineStatus(on) \/ \E s \in Services : UpdateProfile(s, on)
  \/ \E on, free \in {"keep", "yes", "no"} : UpdateAvailability(on, free)

AdminRequests(r) ==
  \/ \E s \in Services, on \in BOOLEAN : ToggleFeatures(s, on)
  \/ \E new \in Rates : UpdateCommissionRate(r, new)
  \/ \E a \in Astrologers, n \in Places \cup {0} : UpdateDisplayOrder(r, a, n)

Next ==
  \/ CreditEarnings
  \/ \E r \in Slots :
       AstrologerRequests(r) \/ AdminRequests(r) \/ SaveAvailable(r) \/ SaveRate(r) \/ SavePlace(r)

Spec == Init /\ [][Next]_pvars

----------------
TypeOK ==
  /\ enabled \subseteq Services /\ {online, available} \subseteq BOOLEAN
  /\ earned \in 0..MaxCredits /\ rate \in Rates /\ credited \in 0..MaxCredits
  /\ overlapped \in BOOLEAN /\ place \in [Astrologers -> Places \cup {0}]

\* What settled bills have credited is in the earnings, unless a bill came
\* between the reading and the saving of a commission rate.
EarningsKept == ~overlapped => earned = credited

\* One request at a time, no two astrologers hold one place of the listing.
PlacesDistinct ==
  OneAtATime => \A a, b \in Astrologers : a # b /\ place[a] = place[b] => place[a] = 0
================
