-------- MODULE Login --------
(***************************************************************************)
(* Login by a one-time code or by Truecaller, and the life of an account:  *)
(* deleted for two days, restored by a login within them, and erased by    *)
(* the cron afterwards.  One telephone number; "Role" says whether it is a *)
(* user's (AuthService, UsersService) or an astrologer's                   *)
(* (AstrologerAuthService, AstrologerService).  Time counts in steps of    *)
(* five minutes for the code, and in two days for the account.             *)
(***************************************************************************)
EXTENDS Handlers

CONSTANTS
  Role, MaxAccounts, MaxSends, MaxTime, MaxDeletions, MaxFailures

VARIABLES
  code,     \* otpStore: the code sent last, in memory
  timers,   \* the times at which an auto cleanup runs, in memory
  requests, \* rateLimitStore: codes of the last hour, in memory
  now,
  sent,     \* the codes that were sent are 1..sent
  account,  \* account[i]; "due" is permanentDeletionAt
  deletions, failures,
  entries,  \* entries[c]: entries of code c that were accepted and refused, and
            \* whether no timer ran when it was sent (history)
  served,   \* accounts whose latest deletion is two days ago (history)
  kept      \* accounts no longer deleted whose date was kept (history)

lvars == <<code, timers, requests, now, sent, account, deletions, failures, entries, served, kept, work>>

----------------
Accounts == 1..MaxAccounts
NoCode == [id |-> 0, tries |-> 0, expires |-> 0]
NoAccount == [status |-> "none", due |-> "unset", phone |-> FALSE, erased |-> FALSE]
NewAccount == [NoAccount EXCEPT !.status = "active", !.phone = TRUE]

Exists(i) == account[i].status # "none"
Owner == {i \in Accounts : account[i].phone}  \* the number is unique

\* save() writes a field only if it differs from the copy that was read.
Write(seen, new, old) == IF new = seen THEN old ELSE new

Init ==
  /\ code = NoCode /\ timers = {} /\ requests = 0 /\ now = 0 /\ sent = 0
  /\ account = [i \in Accounts |-> IF i = 1 /\ Role = "astrologer" THEN NewAccount ELSE NoAccount]
  /\ deletions = 0 /\ failures = 0 /\ NoHandler
  /\ entries = [c \in 1..MaxSends |-> [ok |-> 0, wrong |-> 0, alone |-> FALSE]] /\ served = {} /\ kept = {}

Refused(a) == a.status = "suspended" \/ (a.status = "deleted" /\ a.due = "past")

(* The code (OtpService, OtpStorageService). *)

\* checkPhoneForLogin: an astrologer gets a code if there is an account.
CanLogin ==
  Role = "astrologer" =>
    \E i \in Owner :
      account[i].status \in {"active", "inactive", "suspended", "deleted"} /\ ~Refused(account[i])

\* storeOTP replaces the code and leaves the older timer running.
SendOtp ==
  /\ CanLogin /\ requests < 3 /\ requests' = requests + 1
  /\ sent < MaxSends /\ sent' = sent + 1
  /\ code' = [id |-> sent + 1, tries |-> 0, expires |-> now + 2] /\ timers' = timers \cup {now + 2}
  /\ entries' = [entries EXCEPT ![sent + 1].alone = timers = {}]
  /\ UNCHANGED <<now, account, deletions, failures, served, kept, work>>

AutoCleanup ==
  /\ now \in timers /\ timers' = timers \ {now} /\ code' = NoCode
  /\ UNCHANGED <<requests, now, sent, account, deletions, failures, entries, served, kept, work>>

Tick ==
  /\ now < MaxTime /\ now \notin timers /\ now' = now + 1
  /\ UNCHANGED <<code, timers, requests, sent, account, deletions, failures, entries, served, kept, work>>

HourPasses ==
  /\ timers = {} /\ requests > 0 /\ requests' = 0
  /\ UNCHANGED <<code, timers, now, sent, account, deletions, failures, entries, served, kept, work>>

Wrong(c) == entries' = [entries EXCEPT ![c].wrong = @ + 1]
\* Fault: a wrong entry forgets the code.
EnterWrongOnce ==
  /\ code # NoCode /\ Wrong(code.id) /\ code' = NoCode
  /\ UNCHANGED <<timers, requests, now, sent, account, deletions, failures, served, kept, work>>
\* validateOTP, a wrong entry: three are counted, the next forgets the code.
EnterWrong ==
  /\ code # NoCode
  /\ IF now > code.expires \/ code.tries >= 3 THEN code' = NoCode /\ UNCHANGED entries
     ELSE code' = [code EXCEPT !.tries = @ + 1] /\ Wrong(code.id)
  /\ UNCHANGED <<timers, requests, now, sent, account, deletions, failures, served, kept, work>>

\* Fault: the code can be entered again.
EnterAndKeep(r) ==
  /\ code # NoCode /\ code.tries < 3
  /\ requests' = 0 /\ UNCHANGED code
  /\ entries' = [entries EXCEPT ![code.id].ok = IF @ = 2 THEN @ ELSE @ + 1]
  /\ Begin(r, [pc |-> "lookup", by |-> "otp"])
  /\ UNCHANGED <<timers, now, sent, account, deletions, failures, served, kept>>
\* verifyOTP: the code is used up and the rate limit cleared.
EnterCode(r) ==
  /\ code # NoCode /\ now <= code.expires /\ code.tries < 3
  /\ code' = NoCode /\ requests' = 0
  /\ entries' = [entries EXCEPT ![code.id].ok = @ + 1]
  /\ Begin(r, [pc |-> "lookup", by |-> "otp"])
  /\ UNCHANGED <<timers, now, sent, account, deletions, failures, served, kept>>

\* verifyOAuthCode has asked Truecaller for the number.
Truecaller(r) ==
  /\ Begin(r, [pc |-> "lookup", by |-> "truecaller"])
  /\ UNCHANGED <<code, timers, requests, now, sent, account, deletions, failures, entries, served, kept>>

(* The account. *)

\* Fault: the account is not looked at.
LookupAny(r) ==
  /\ At(r, "lookup")
  /\ IF Owner = {} THEN IF Role = "user" THEN Goto(r, "create") ELSE Finish(r)
     ELSE \E i \in Owner :
       work' = [work EXCEPT ![r] = [pc |-> "activate", by |-> work[r].by, i |-> i, seen |-> account[i]]]
  /\ UNCHANGED <<code, timers, requests, now, sent, account, deletions, failures, entries, served, kept>>
Lookup(r) ==
  /\ At(r, "lookup")
  /\ IF Owner = {} THEN IF Role = "user" THEN Goto(r, "create") ELSE Finish(r)
     ELSE \E i \in Owner :
       IF Refused(account[i]) THEN Finish(r)
       ELSE work' = [work EXCEPT ![r] = [pc |-> "activate", by |-> work[r].by, i |-> i, seen |-> account[i]]]
  /\ UNCHANGED <<code, timers, requests, now, sent, account, deletions, failures, entries, served, kept>>

\* The unique index refuses a second account.
Create(r) ==
  /\ At(r, "create") /\ Finish(r)
  /\ IF Owner # {} THEN UNCHANGED account
     ELSE \E i \in Accounts :
       /\ ~Exists(i) /\ \A j \in 1..(i - 1) : Exists(j)
       /\ account' = [account EXCEPT ![i] = NewAccount]
  /\ UNCHANGED <<code, timers, requests, now, sent, deletions, failures, entries, served, kept>>

\* A user's login by code updates the status in the database and nothing
\* else of the deletion; the other logins save the document they changed.
UpdatedByCode(a) == [a EXCEPT !.status = "active"]
Saved(seen, a) ==
  [a EXCEPT !.status = IF seen.status \in {"deleted", "inactive"} THEN "active" ELSE @,
            !.due = IF seen.status = "deleted" THEN Write(seen.due, "unset", @) ELSE @]
Activated(h, a) ==
  IF Role = "user" /\ h.by = "otp" THEN UpdatedByCode(a) ELSE Saved(h.seen, a)

Activate(r) ==
  /\ At(r, "activate") /\ Finish(r)
  /\ LET i == work[r].i IN
       /\ account' = [account EXCEPT ![i] = IF Exists(i) THEN Activated(work[r], @) ELSE @]
       /\ kept' = IF account'[i].status = "active" /\ account'[i].due # "unset"
                  THEN kept \cup {i} ELSE kept
  /\ UNCHANGED <<code, timers, requests, now, sent, deletions, failures, entries, served>>

Deletion(r, i, a) ==
  /\ At(r, "idle") /\ deletions < MaxDeletions /\ deletions' = deletions + 1
  /\ account' = [account EXCEPT ![i] = a] /\ UNCHANGED <<code, timers, requests, now, sent, failures, entries, kept, work>>
  /\ served' = IF account[i].status = "deleted" THEN served ELSE served \ {i}

\* deleteAccount
DeleteAccount(r, i) ==
  account[i].status = "active" /\ Deletion(r, i, [account[i] EXCEPT !.status = "deleted", !.due = "ahead"])

\* deleteUser keeps what date there is, deleteAstrologer sets it.
DeleteUser(r, i) ==
  /\ Role = "user" /\ Exists(i) /\ Deletion(r, i, [account[i] EXCEPT !.status = "deleted"])
DeleteAstrologer(r, i) ==
  /\ Role = "astrologer" /\ Exists(i)
  /\ Deletion(r, i, [account[i] EXCEPT !.status = "deleted", !.due = "ahead"])

\* updateUserStatus, updateAstrologerStatus.
Statuses == IF Role = "user" THEN {"active", "suspended", "blocked"} ELSE {"active", "inactive", "blocked"}
SetStatus(r, i, st) ==
  /\ At(r, "idle") /\ Exists(i) /\ account[i].status # st /\ account' = [account EXCEPT ![i].status = st]
  /\ kept' = IF account[i].due # "unset" THEN kept \cup {i} ELSE kept
  /\ UNCHANGED <<code, timers, requests, now, sent, deletions, failures, entries, served, work>>

\* restoreUser: "User is not deleted".
RestoreUser(r, i) == Role = "user" /\ account[i].status = "deleted" /\ SetStatus(r, i, "active")

TwoDaysPass ==
  /\ Quiet
  /\ account' = [i \in Accounts |-> [account[i] EXCEPT !.due = IF @ = "ahead" THEN "past" ELSE @]]
  /\ served' = served \cup {i \in Accounts : account[i].status = "deleted"}
  /\ UNCHANGED <<code, timers, requests, now, sent, deletions, failures, entries, kept, work>>

\* Fault: the date is not asked.
FindDeleted(r) ==
  /\ LET found == {i \in Accounts : account[i].status = "deleted" /\ ~account[i].erased} IN
       found # {} /\ Begin(r, [pc |-> "erase", todo |-> found])
  /\ UNCHANGED <<code, timers, requests, now, sent, account, deletions, failures, entries, served, kept>>
\* Fault: the status is not asked.
FindDueAny(r) ==
  /\ LET found == {i \in Accounts : account[i].due = "past"} IN
       found # {} /\ Begin(r, [pc |-> "erase", todo |-> found])
  /\ UNCHANGED <<code, timers, requests, now, sent, account, deletions, failures, entries, served, kept>>
\* handleScheduledDeletions, every midnight ...
FindDue(r) ==
  /\ LET found == {i \in Accounts : account[i].status = "deleted" /\ account[i].due = "past"} IN
       found # {} /\ Begin(r, [pc |-> "erase", todo |-> found])
  /\ UNCHANGED <<code, timers, requests, now, sent, account, deletions, failures, entries, served, kept>>

Erased == [status |-> IF Role = "user" THEN "deleted" ELSE "none",
           due |-> "unset", phone |-> FALSE, erased |-> TRUE]
\* ... erases what it has found, one by one: anonymizeUser, deleteOne.
Erase(r, i) ==
  /\ At(r, "erase") /\ i \in work[r].todo
  /\ account' = [account EXCEPT ![i] = Erased]
  /\ IF work[r].todo = {i} THEN Finish(r) ELSE work' = [work EXCEPT ![r].todo = @ \ {i}]
  /\ UNCHANGED <<code, timers, requests, now, sent, deletions, failures, entries, served, kept>>

Restart ==
  /\ failures < MaxFailures /\ failures' = failures + 1
  /\ code' = NoCode /\ timers' = {} /\ requests' = 0 /\ work' = [r \in Slots |-> Idle]
  /\ UNCHANGED <<now, sent, account, deletions, entries, served, kept>>

LoginRequests(r) == SendOtp \/ EnterWrong \/ EnterCode(r) \/ Truecaller(r)

AdminRequests(r) ==
  \E i \in Accounts :
    \/ DeleteUser(r, i) \/ DeleteAstrologer(r, i) \/ RestoreUser(r, i)
    \/ \E st \in Statuses : SetStatus(r, i, st)

Next ==
  \/ AutoCleanup \/ Tick \/ HourPasses \/ TwoDaysPass \/ Restart
  \/ \E r \in Slots :
       \/ LoginRequests(r) \/ AdminRequests(r) \/ Lookup(r) \/ Create(r) \/ Activate(r) \/ FindDue(r)
       \/ \E i \in Accounts : DeleteAccount(r, i) \/ Erase(r, i)

Spec == Init /\ [][Next]_lvars

----------------
TypeOK ==
  /\ code \in [id : 0..MaxSends, tries : 0..3, expires : 0..(MaxTime + 2)]
  /\ timers \subseteq 0..(MaxTime + 2) /\ requests \in 0..3 /\ now \in 0..MaxTime /\ sent \in 0..MaxSends
  /\ account \in [Accounts -> [status : {"none", "active", "inactive", "suspended", "blocked", "deleted"},
                               due : {"unset", "ahead", "past"}, phone : BOOLEAN, erased : BOOLEAN]]
  /\ deletions \in 0..MaxDeletions /\ failures \in 0..MaxFailures
  /\ entries \in [1..MaxSends -> [ok : Nat, wrong : Nat, alone : BOOLEAN]]
  /\ served \subseteq Accounts /\ kept \subseteq Accounts

\* A code logs in once, and not after three wrong entries.
CodeUsedOnce ==
  \A c \in 1..MaxSends : entries[c].ok <= 1 /\ entries[c].wrong <= 3

\* A code lasts ten minutes unless it is used, tried out or replaced, the
\* process starts anew, or the timer of an older one was running.
CodeLasts ==
  sent > 0 =>
    LET e == entries[sent] IN
      e.alone /\ timers # {} /\ failures = 0 /\ e.ok = 0 /\ e.wrong < 3 => code.id = sent

\* One login at a time: an account that an administrator suspended is not
\* made active by a login.
KeepSuspended ==
  \A r \in Slots :
    LET i == work[r].i IN
      OneAtATime /\ At(r, "activate") /\ account[i].status = "suspended"
        => account'[i].status = "suspended"
SuspendedStays == [][KeepSuspended]_lvars

Erases(i) == OneAtATime /\ ~account[i].erased /\ account'[i].erased

\* "It will be permanently removed in 48 hours": what is erased was deleted two
\* days before, unless its date was kept when it was restored earlier.
EraseServed == \A i \in Accounts : Erases(i) => i \in served \cup kept
ErasedAfterGrace == [][EraseServed]_lvars

\* One at a time: what was restored is not erased, whatever its date says.
EraseDeleted == \A i \in Accounts : Erases(i) => account[i].status = "deleted"
RestoredIsNotErased == [][EraseDeleted]_lvars
================
