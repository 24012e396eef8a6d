-------- MODULE Admins --------
(***************************************************************************)
(* Administrators' accounts: login with its lock after five wrong          *)
(* passwords, the guards of every administrator's request, and the         *)
(* management of accounts by other administrators.  Passwords are right or *)
(* wrong; a change of password and a new token change nothing that is      *)
(* kept here.  Time is counted in the half hours a lock lasts.             *)
(***************************************************************************)
EXTENDS Handlers

CONSTANTS
  Emails,      \* accounts that may be there
  First,       \* the account that is there from the beginning, a super admin
  MaxTime, MaxRequests, MaxDeletions

VARIABLES
  admin,     \* admin[e]: the account, NoAdmin if there is none
  now,
  decided,   \* decided[e]: the last status an administrator gave it (history)
  wrong,     \* wrong[e]: wrong passwords since a right one or the end of a lock (history)
  refused,   \* creations that met an id in use (history)
  requests, deletions

avars == <<admin, now, decided, wrong, refused, requests, deletions, work>>

----------------
Roles == {"super_admin", "support"}
NoAdmin == [status |-> "none", failed |-> 0, until |-> 0, id |-> 0, role |-> "none", super |-> FALSE]
New(n, role) ==
  [status |-> "active", failed |-> 0, until |-> 0, id |-> n, role |-> role, super |-> role = "super_admin"]
There(e) == admin[e] # NoAdmin
Everyone == {e \in Emails : There(e)}

Init ==
  /\ admin = [e \in Emails |-> IF e = First THEN New(1, "super_admin") ELSE NoAdmin]
  /\ now = 1 /\ decided = [e \in Emails |-> "active"] /\ wrong = [e \in Emails |-> 0]
  /\ refused = 0 /\ requests = 0 /\ deletions = 0 /\ NoHandler

Tick ==
  /\ now < MaxTime /\ now' = now + 1
  /\ UNCHANGED <<admin, decided, wrong, refused, requests, deletions, work>>

\* Login.  The account that was read is changed and, when the password is
\* compared, saved: the fields that differ from what was read.
Expired(a) == a.until > 0 /\ a.until <= now
\* Fault: a lock that has expired leaves the wrong passwords counted.
UnlockOnly(a) == IF a.status = "locked" /\ Expired(a) THEN [a EXCEPT !.status = "active", !.until = 0] ELSE a
\* Fault: an old lock is taken off whatever the status is.
UnlockAny(a) == IF Expired(a) THEN [a EXCEPT !.status = "active", !.until = 0, !.failed = 0] ELSE a
Unlock(a) ==
  IF a.status = "locked" /\ Expired(a) THEN [a EXCEPT !.status = "active", !.until = 0, !.failed = 0] ELSE a

Login(r, e, right) ==
  /\ There(e) /\ Unlock(admin[e]).status = "active" /\ requests < MaxRequests /\ requests' = requests + 1
  /\ Begin(r, [pc |-> "compare", e |-> e, right |-> right, read |-> admin[e]])
  /\ UNCHANGED <<admin, now, decided, wrong, refused, deletions>>

\* Fault: the sixth wrong password locks.
WrongSixth(a) ==
  IF a.failed < 5 THEN [a EXCEPT !.failed = @ + 1]
  ELSE [a EXCEPT !.failed = @ + 1, !.status = "locked", !.until = now + 1]
Wrong(a) ==
  IF a.failed < 4 THEN [a EXCEPT !.failed = @ + 1]
  ELSE [a EXCEPT !.failed = @ + 1, !.status = "locked", !.until = now + 1]
Right(a) == [a EXCEPT !.failed = 0, !.until = IF Expired(a) THEN 0 ELSE @]

\* The account may be another by now; it may be gone, and then the save fails.
Merged(e, read, new) ==
  [f \in DOMAIN NoAdmin |-> IF new[f] = read[f] THEN admin[e][f] ELSE new[f]]

Compare(r) ==
  /\ At(r, "compare") /\ Finish(r)
  /\ LET h == work[r]
         open == Unlock(h.read)
         fresh == h.read.status = "locked"
     IN
       /\ admin' = IF ~There(h.e) \/ admin[h.e].id # h.read.id THEN admin
                   ELSE [admin EXCEPT ![h.e] = Merged(h.e, h.read, IF h.right THEN Right(open) ELSE Wrong(open))]
       /\ wrong' = [wrong EXCEPT ![h.e] = IF h.right THEN 0 ELSE IF fresh THEN 1 ELSE @ + 1]
  /\ UNCHANGED <<now, decided, refused, requests, deletions>>

(* The guards, and what other administrators do. *)

\* AdminAuthGuard asks the account, not the token; a lock that an
\* administrator's "active" left in place still counts.
Admitted(e) == There(e) /\ admin[e].status = "active" /\ admin[e].until <= now
\* PermissionsGuard: only super admins have the permissions for accounts.
Allowed(e) == Admitted(e) /\ (admin[e].super \/ admin[e].role = "super_admin")

Request(r, by) == At(r, "idle") /\ Allowed(by) /\ requests < MaxRequests /\ requests' = requests + 1

\* Fault: the id is the number of accounts there are.
LastId == Cardinality(Everyone)
NextId == Cardinality(Everyone) + 1
CreateAdmin(r, by, e, role) ==
  /\ ~There(e) /\ Request(r, by) /\ Begin(r, [pc |-> "insert", e |-> e, new |-> New(NextId, role)])
  /\ UNCHANGED <<admin, now, decided, wrong, refused, deletions>>

\* Email and adminId are unique.
Insert(r) ==
  /\ At(r, "insert") /\ Finish(r)
  /\ LET h == work[r]
         taken == There(h.e) \/ \E e \in Emails : admin[e].id = h.new.id
     IN /\ admin' = IF taken THEN admin ELSE [admin EXCEPT ![h.e] = h.new]
        /\ decided' = IF taken THEN decided ELSE [decided EXCEPT ![h.e] = "active"]
        /\ wrong' = IF taken THEN wrong ELSE [wrong EXCEPT ![h.e] = 0]
        /\ refused' = refused + (IF taken THEN 1 ELSE 0)
  /\ UNCHANGED <<now, requests, deletions>>

\* The role changes, isSuperAdmin does not.
UpdateAdmin(r, by, e, role) ==
  /\ There(e) /\ Request(r, by) /\ admin' = [admin EXCEPT ![e].role = role]
  /\ UNCHANGED <<now, decided, wrong, refused, deletions, work>>

\* The lock and the count stay as they are.
UpdateAdminStatus(r, by, e, status) ==
  /\ There(e) /\ Request(r, by)
  /\ admin' = [admin EXCEPT ![e].status = status] /\ decided' = [decided EXCEPT ![e] = status]
  /\ UNCHANGED <<now, wrong, refused, deletions, work>>

\* Fault: whoever has the role of a super admin is kept, and no one else.
DeleteByRole(r, by, e) ==
  /\ There(e) /\ Request(r, by) /\ e # by /\ admin[e].role # "super_admin"
  /\ deletions < MaxDeletions /\ deletions' = deletions + 1 /\ admin' = [admin EXCEPT ![e] = NoAdmin]
  /\ UNCHANGED <<now, decided, wrong, refused, work>>
DeleteAdmin(r, by, e) ==
  /\ There(e) /\ Request(r, by) /\ e # by /\ ~admin[e].super
  /\ deletions < MaxDeletions /\ deletions' = deletions + 1 /\ admin' = [admin EXCEPT ![e] = NoAdmin]
  /\ UNCHANGED <<now, decided, wrong, refused, work>>

Next ==
  \/ Tick
  \/ \E r \in Slots : Compare(r) \/ Insert(r)
  \/ \E r \in Slots, e \in Emails, right \in BOOLEAN : Login(r, e, right)
  \/ \E r \in Slots, by, e \in Emails, role \in Roles : CreateAdmin(r, by, e, role)
  \/ \E r \in Slots, by, e \in Emails :
       \/ \E role \in Roles : UpdateAdmin(r, by, e, role)
       \/ \E status \in {"active", "inactive", "suspended"} : UpdateAdminStatus(r, by, e, status)
       \/ DeleteAdmin(r, by, e)

Spec == Init /\ [][Next]_avars

----------------
TypeOK ==
  /\ admin \in [Emails -> [status : {"none", "active", "inactive", "suspended", "locked"}, failed : Nat, until : Nat,
                           id : Nat, role : Roles \cup {"none"}, super : BOOLEAN]]
  /\ now \in 1..MaxTime /\ wrong \in [Emails -> Nat] /\ {refused, requests, deletions} \subseteq Nat
  /\ decided \in [Emails -> {"active", "inactive", "suspended"}] /\ DOMAIN work = Slots

\* "Lock account after 5 failed attempts": one login at a time, an account is
\* locked after five wrong passwords in a row, and not before them.
LockIsEarned ==
  OneAtATime => \A e \in Everyone :
    /\ admin[e].status = "locked" => wrong[e] >= 5
    /\ wrong[e] >= 5 => admin[e].until > 0

\* One request at a time: whom an administrator suspended or made inactive, no
\* lock and no login brings back.
SuspendedStaysOut ==
  OneAtATime => \A e \in Everyone : decided[e] # "active" => admin[e].status = decided[e]

\* One request at a time and while no account was deleted, a new account finds
\* an id that is free.
IdIsFree == (OneAtATime /\ deletions = 0) => refused = 0

\* "Prevent deleting super admins": whatever roles are changed meanwhile, who
\* began as a super admin is there.
FirstIsKept == There(First) /\ admin[First].super
================
