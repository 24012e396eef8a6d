-------- MODULE BankAccounts --------
(***************************************************************************)
(* An astrologer's bank accounts: which of them is primary, and which      *)
(* number is there already.  Numbers are stored encrypted with the one     *)
(* initialization vector that the process drew when it started.            *)
(***************************************************************************)
EXTENDS Handlers, Sequences

CONSTANTS Numbers, MaxAccounts, MaxRequests, MaxRestarts, MaxFailures

VARIABLES
  account,   \* the accounts in the order of their creation
  vector,    \* the vector of the process that runs
  bare,      \* a request took the mark from every account and gave it to none (history)
  requests, restarts, failures

bvars == <<account, vector, bare, requests, restarts, failures, work>>

----------------
Init ==
  /\ account = <<>> /\ vector = 0 /\ bare = FALSE /\ requests = 0 /\ restarts = 0 /\ failures = 0 /\ NoHandler

Ids == DOMAIN account
Active == {k \in Ids : account[k].active}
\* Fault: each encryption draws its own vector.
EncryptFresh(n) == [number |-> n, vector |-> Len(account) + 1]
Encrypt(n) == [number |-> n, vector |-> vector]

Accept(r, h) ==
  /\ requests < MaxRequests /\ requests' = requests + 1 /\ Begin(r, h)
  /\ UNCHANGED <<account, vector, bare, restarts, failures>>

\* The first account is primary.
AddBankAccount(r, n) ==
  /\ Len(account) < MaxAccounts /\ \A k \in Active : account[k].secret # Encrypt(n)
  /\ Accept(r, [pc |-> "count", n |-> n])
CountAccounts(r) ==
  /\ At(r, "count") /\ work' = [work EXCEPT ![r] = [pc |-> "insert", n |-> work[r].n, primary |-> Active = {}]]
  /\ UNCHANGED <<account, vector, bare, requests, restarts, failures>>
Insert(r) ==
  /\ At(r, "insert") /\ Finish(r)
  /\ account' = Append(account, [secret |-> Encrypt(work[r].n), primary |-> work[r].primary, active |-> TRUE])
  /\ bare' = (bare /\ ~work[r].primary)
  /\ UNCHANGED <<vector, requests, restarts, failures>>

\* The mark is taken from all before it is known whether k is there.
SetPrimaryAccount(r, k) == k \in Ids /\ Accept(r, [pc |-> "clear", k |-> k])
Clear(r) ==
  /\ At(r, "clear") /\ Goto(r, "mark")
  /\ account' = [a \in Ids |-> [account[a] EXCEPT !.primary = FALSE]]
  /\ UNCHANGED <<vector, bare, requests, restarts, failures>>
Mark(r) ==
  /\ At(r, "mark") /\ Finish(r)
  /\ LET k == work[r].k IN
       /\ account' = [account EXCEPT ![k].primary = @ \/ account[k].active]
       /\ bare' = ~account[k].active
  /\ UNCHANGED <<vector, requests, restarts, failures>>

\* Fault: a primary account is deleted although there are others.
DeleteAnyAccount(r, k) == k \in Active /\ Accept(r, [pc |-> "remove", k |-> k])
\* A primary account is kept as long as there are others.
DeleteBankAccount(r, k) ==
  /\ k \in Active
  /\ Accept(r, [pc |-> IF account[k].primary THEN "others" ELSE "remove", k |-> k])
CountOthers(r) ==
  /\ At(r, "others") /\ IF Active \ {work[r].k} = {} THEN Goto(r, "remove") ELSE Finish(r)
  /\ UNCHANGED <<account, vector, bare, requests, restarts, failures>>
Remove(r) ==
  /\ At(r, "remove") /\ account' = [account EXCEPT ![work[r].k].active = FALSE] /\ Finish(r)
  /\ UNCHANGED <<vector, bare, requests, restarts, failures>>

Throws(r) ==
  /\ ~At(r, "idle") /\ failures < MaxFailures /\ failures' = failures + 1 /\ Finish(r)
  /\ bare' = (bare \/ At(r, "mark"))
  /\ UNCHANGED <<account, vector, requests, restarts>>

Restart ==
  /\ restarts < MaxRestarts /\ restarts' = restarts + 1 /\ vector' = vector + 1
  /\ bare' = (bare \/ \E r \in Slots : At(r, "mark")) /\ work' = [r \in Slots |-> Idle]
  /\ UNCHANGED <<account, requests, failures>>

Next ==
  \/ \E r \in Slots, n \in Numbers : AddBankAccount(r, n)
  \/ \E r \in Slots, k \in 1..MaxAccounts : SetPrimaryAccount(r, k) \/ DeleteBankAccount(r, k)
  \/ \E r \in Slots :
       CountAccounts(r) \/ Insert(r) \/ Clear(r) \/ Mark(r) \/ CountOthers(r) \/ Remove(r) \/ Throws(r)
  \/ Restart

Spec == Init /\ [][Next]_bvars

----------------
TypeOK ==
  /\ account \in Seq([secret : [number : Numbers, vector : Nat], primary : BOOLEAN, active : BOOLEAN])
  /\ bare \in BOOLEAN /\ {vector, requests, restarts, failures} \subseteq Nat /\ DOMAIN work = Slots

\* One request at a time, one of the accounts is primary, unless a request to
\* mark another found it deleted or failed halfway.
OnePrimary ==
  (OneAtATime /\ Quiet /\ Active # {} /\ ~bare) => Cardinality({k \in Active : account[k].primary}) = 1

\* "This bank account is already added": one request at a time, no number is
\* there twice, as long as the process is not restarted.
NumberOnce ==
  (OneAtATime /\ restarts = 0) =>
    \A j, k \in Active : account[j].secret.number = account[k].secret.number => j = k
================
