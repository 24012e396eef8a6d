-------- MODULE Tokens --------
(***************************************************************************)
(* What a login leaves behind: the pair of tokens, which no handler keeps  *)
(* a list of (the cached refresh token is never read), and the device that *)
(* is told of calls and messages.  One account; "Role" says whether it is  *)
(* a user's or an astrologer's.  A step of time is a day.  Which accounts  *)
(* a login restores is in module Login.                                    *)
(***************************************************************************)
EXTENDS Handlers, SequencesExt

CONSTANTS
  Role, Devices, None,   \* None: a login that does not name its device
  NameOf,                \* NameOf[d]: the device's name and type
  Access, Refreshing,    \* days a token of each kind lasts
  MaxTime, MaxNumbers, MaxLogins, MaxFailures

VARIABLES
  account,   \* status, number and phoneHash of the account
  issued,    \* the tokens that have not expired
  devices, online,
  now, throttled, lastActive,
  logins, failures,
  served,    \* the day of the last request that was let in (history)
  rewritten, \* whether a login by code replaced Truecaller's hash (history)
  gone       \* devices that logged out, and whether the astrologer did (history)

tvars == <<account, issued, devices, online, now, throttled, lastActive, logins, failures, served, rewritten, gone, work>>

----------------
\* hashPhoneNumber and generatePhoneHash differ for one number.
Hash(n, by) == <<n, by>>
Methods == {"otp", "truecaller"}

Init ==
  /\ \E by \in Methods : account = [status |-> "active", number |-> 1, hash |-> Hash(1, by)]
  /\ issued = {} /\ devices = <<>> /\ online = FALSE
  /\ now = 0 /\ throttled = FALSE /\ lastActive = 0 /\ logins = 0 /\ failures = 0 /\ NoHandler
  /\ served = 0 /\ rewritten = FALSE /\ gone = [devices |-> {}, offline |-> FALSE]

\* generateTokenPair, generateAstrologerTokens
Pair(n, h) ==
  {[kind |-> "access", number |-> n, hash |-> h, until |-> now + Access],
   [kind |-> "refresh", number |-> n, hash |-> h, until |-> now + Refreshing]}

\* validateUser looks the account up by the hash in the token.
Accepts(t) ==
  /\ t \in issued /\ t.kind = "access" /\ account.status = "active"
  /\ Role = "user" => t.hash = account.hash

(* Login.  The document is read when the account is looked up. *)

\* Fault: Truecaller's hash is saved at every login.
SignedInAnew(by) == [account EXCEPT !.status = "active", !.hash = Hash(account.number, by)]
\* Only a user's login by code replaces the hash.
SignedIn(by) ==
  [account EXCEPT !.status = "active",
                  !.hash = IF Role = "user" /\ by = "otp" THEN Hash(account.number, by) ELSE @]

Login(r, by, d) ==
  /\ account.status \in {"active", "inactive"} /\ logins < MaxLogins /\ logins' = logins + 1
  /\ account' = SignedIn(by)
  /\ rewritten' = (rewritten \/ (Role = "user" /\ by = "otp" /\ account.hash = Hash(account.number, "truecaller")))
  /\ Begin(r, [pc |-> "login", number |-> account.number, hash |-> account'.hash, d |-> d, seen |-> devices])
  /\ UNCHANGED <<issued, devices, online, now, throttled, lastActive, failures, served, gone>>

Entry(d) == [id |-> d, active |-> TRUE]
\* Fault: the other devices stay.
StoredBeside(seen, d) == Append(devices, Entry(d))
\* handleDeviceStorage: the entry of this device, or of one with its name,
\* becomes this device's; of several only those with its id stay.  What was an
\* empty list is pushed to, any other is written whole.
Stored(seen, d) ==
  LET k == SelectInSeq(seen, LAMBDA e : e.id = d \/ NameOf[e.id] = NameOf[d])
      updated == IF k = 0 THEN Append(seen, Entry(d)) ELSE [seen EXCEPT ![k] = Entry(d)]
  IN IF seen = <<>> THEN Append(devices, Entry(d))
     ELSE IF Len(updated) = 1 THEN updated ELSE SelectSeq(updated, LAMBDA e : e.id = d)

SaveLogin(r) ==
  /\ At(r, "login") /\ Finish(r)
  /\ LET h == work[r] IN
       /\ devices' = IF h.d = None THEN devices ELSE Stored(h.seen, h.d)
       /\ issued' = issued \cup Pair(h.number, h.hash)
       /\ gone' = [gone EXCEPT !.devices = @ \ {h.d}]
  /\ UNCHANGED <<account, online, now, throttled, lastActive, logins, failures, served, rewritten>>

\* A user is logged in although the device could not be stored.
LoginThrows(r) ==
  /\ At(r, "login") /\ Finish(r) /\ failures < MaxFailures /\ failures' = failures + 1
  /\ issued' = IF Role = "user" THEN issued \cup Pair(work[r].number, work[r].hash) ELSE issued
  /\ UNCHANGED <<account, devices, online, now, throttled, lastActive, logins, served, rewritten, gone>>

(* The tokens. *)

\* Fault: the new pair carries the hash of the account.
RefreshedFor(t) == Pair(t.number, account.hash)
Refreshed(t) == Pair(t.number, t.hash)

\* The account is not asked, nor whether its owner has logged out.
RefreshToken(t) ==
  /\ t \in issued /\ t.kind = "refresh" /\ logins < MaxLogins /\ logins' = logins + 1
  /\ issued' = issued \cup Refreshed(t)
  /\ UNCHANGED <<account, devices, online, now, throttled, lastActive, failures, served, rewritten, gone, work>>

\* A user's request notes when it came, once in five minutes.
Authenticate(t) ==
  /\ Role = "user" /\ Accepts(t) /\ ~(throttled /\ served = now)
  /\ lastActive' = IF throttled THEN lastActive ELSE now
  /\ throttled' = TRUE /\ served' = now
  /\ UNCHANGED <<account, issued, devices, online, now, logins, failures, rewritten, gone, work>>

\* verifyPhoneChangeOtp: the new pair is the only one that fits.
ChangePhone(t) ==
  /\ Role = "user" /\ Accepts(t) /\ account.number < MaxNumbers
  /\ account' = [account EXCEPT !.number = @ + 1, !.hash = Hash(account.number + 1, "otp")]
  /\ issued' = issued \cup Pair(account'.number, account'.hash)
  /\ UNCHANGED <<devices, online, now, throttled, lastActive, logins, failures, served, rewritten, gone, work>>

GoOnline(t) ==
  /\ Role = "astrologer" /\ Accepts(t) /\ ~online /\ online' = TRUE
  /\ gone' = [gone EXCEPT !.offline = FALSE]
  /\ UNCHANGED <<account, issued, devices, now, throttled, lastActive, logins, failures, served, rewritten, work>>

SetStatus(st) ==
  /\ account.status # st /\ account' = [account EXCEPT !.status = st]
  /\ UNCHANGED <<issued, devices, online, now, throttled, lastActive, logins, failures, served, rewritten, gone, work>>

(* An astrologer's logout; a user's only deletes the cached token. *)
Logout(r, d) ==
  /\ Role = "astrologer" /\ logins < MaxLogins /\ logins' = logins + 1 /\ \E t \in issued : Accepts(t)
  /\ Begin(r, [pc |-> IF devices = <<>> THEN "offline" ELSE "logout", d |-> d, seen |-> devices])
  /\ gone' = [devices |-> gone.devices \cup (IF d = None THEN Devices ELSE {d}), offline |-> TRUE]
  /\ UNCHANGED <<account, issued, devices, online, now, throttled, lastActive, failures, served, rewritten>>

\* Fault: a logout that names no device leaves them active.
LeftOf(seen, d) == SelectSeq(seen, LAMBDA e : e.id # d)
Left(seen, d) ==
  IF d = None THEN [k \in DOMAIN seen |-> [seen[k] EXCEPT !.active = FALSE]]
  ELSE SelectSeq(seen, LAMBDA e : e.id # d)

SaveLogout(r) ==
  /\ At(r, "logout") /\ Goto(r, "offline")
  /\ LET left == Left(work[r].seen, work[r].d) IN devices' = IF left = work[r].seen THEN devices ELSE left
  /\ UNCHANGED <<account, issued, online, now, throttled, lastActive, logins, failures, served, rewritten, gone>>
SaveOffline(r) ==
  /\ At(r, "offline") /\ Finish(r) /\ online' = FALSE
  /\ UNCHANGED <<account, issued, devices, now, throttled, lastActive, logins, failures, served, rewritten, gone>>
LogoutThrows(r) ==
  /\ (At(r, "logout") \/ At(r, "offline")) /\ Finish(r) /\ failures < MaxFailures /\ failures' = failures + 1
  /\ UNCHANGED <<account, issued, devices, online, now, throttled, lastActive, logins, served, rewritten, gone>>

\* Fault: the five minutes do not end.
DayThrottled ==
  /\ now < MaxTime /\ now' = now + 1 /\ issued' = {t \in issued : t.until > now'}
  /\ UNCHANGED <<account, devices, online, throttled, lastActive, logins, failures, served, rewritten, gone, work>>
Day ==
  /\ now < MaxTime /\ now' = now + 1 /\ throttled' = FALSE
  /\ issued' = {t \in issued : t.until > now'}
  /\ UNCHANGED <<account, devices, online, lastActive, logins, failures, served, rewritten, gone, work>>

TokenRequests(t) == RefreshToken(t) \/ Authenticate(t) \/ ChangePhone(t) \/ GoOnline(t)

Next ==
  \/ Day
  \/ \E st \in {"active", "inactive", "suspended"} : SetStatus(st)
  \/ \E t \in issued : TokenRequests(t)
  \/ \E r \in Slots :
       \/ \E d \in Devices \cup {None} : Logout(r, d) \/ \E by \in Methods : Login(r, by, d)
       \/ SaveLogin(r) \/ LoginThrows(r) \/ SaveLogout(r) \/ SaveOffline(r) \/ LogoutThrows(r)

Spec == Init /\ [][Next]_tvars

----------------
TypeOK ==
  /\ account \in [status : {"active", "inactive", "suspended"}, number : 1..MaxNumbers, hash : (1..MaxNumbers) \X Methods]
  /\ issued \subseteq [kind : {"access", "refresh"}, number : 1..MaxNumbers, hash : (1..MaxNumbers) \X Methods, until : Nat]
  /\ devices \in Seq([id : Devices, active : BOOLEAN]) /\ {online, throttled, rewritten} \subseteq BOOLEAN
  /\ {now, lastActive, logins, failures, served} \subseteq Nat
  /\ gone \in [devices : SUBSET Devices, offline : BOOLEAN] /\ DOMAIN work = Slots

\* "Phone hash validation": whoever is let in logged in, or began the chain of
\* refreshed tokens, with the number the account has now.
NumberIsFresh == \A t \in issued : (Role = "user" /\ Accepts(t)) => t.number = account.number

\* Nobody is logged out before the token expires, but for a suspension, a change
\* of number, or a login by code that replaced the hash of a Truecaller account.
TokensLast ==
  \A t \in issued :
    /\ t.kind = "access" /\ account.status = "active"
    /\ Role = "user" => t.number = account.number /\ ~rewritten
    => Accepts(t)

\* However requests are throttled, the account tells the day of the last one.
ActiveIsRecorded == lastActive = served

\* "Single device mode": one login at a time leaves at most one device.
OneDevice == OneAtATime => Len(devices) <= 1

\* One request at a time and without a failure, a device that logged out is not
\* active until it logs in, and the astrologer offline until going online again.
LoggedOut ==
  OneAtATime /\ Quiet /\ failures = 0 =>
    /\ \A k \in DOMAIN devices : devices[k].active => devices[k].id \notin gone.devices
    /\ gone.offline => ~online
================
