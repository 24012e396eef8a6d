-------- MODULE Registration --------
(***************************************************************************)
(* A candidate's way from the waitlist to an astrologer's profile          *)
(* (RegistrationService, AdminRegistrationService).  Administrators move   *)
(* the registration; the profile is a document of its own, and a phone     *)
(* number is unique in either collection.                                  *)
(***************************************************************************)
EXTENDS Handlers

CONSTANTS Candidates, MaxDecisions, MaxFailures

VARIABLES
  reg,       \* reg[c]: the registration of c's phone number
  profile,   \* candidates who have an astrologer's document
  decisions, \* decisions an administrator has taken so far
  late,      \* candidates decided about after they had a profile (history)
  failures

gvars == <<reg, profile, decisions, late, failures, work>>

----------------
Rounds == 1..4
RoundStatus == <<"interview_round_1", "interview_round_2", "interview_round_3", "interview_round_4">>
Absent == [status |-> "none", passed |-> {}, approval |-> FALSE, rejection |-> FALSE]

Init ==
  /\ reg = [c \in Candidates |-> Absent] /\ profile = {} /\ decisions = 0 /\ late = {}
  /\ failures = 0 /\ NoHandler

\* register refuses whoever is registered, whatever became of it.
Register(c) ==
  /\ reg[c] = Absent /\ reg' = [reg EXCEPT ![c].status = "waitlist"]
  /\ UNCHANGED <<profile, decisions, late, failures, work>>

\* getCurrentStepInfo: canProceed
CanProceed(c) ==
  \/ reg[c].status \in {"shortlisted", "approved"}
  \/ \E k \in Rounds : reg[c].status = RoundStatus[k] /\ k \in reg[c].passed

\* Every handler reads the registration; what it saves are the paths it set.
Decide(r, c, pc, k) ==
  /\ reg[c] # Absent /\ decisions < MaxDecisions /\ decisions' = decisions + 1
  /\ late' = IF c \in profile THEN late \cup {c} ELSE late
  /\ Begin(r, [pc |-> pc, c |-> c, k |-> k, gone |-> FALSE])
  /\ UNCHANGED <<reg, profile, failures>>

ShortlistCandidate(r, c) == reg[c].status = "waitlist" /\ Decide(r, c, "shortlist", 0)
\* Neither the status nor the earlier rounds are asked for.
CompleteRound(r, c, k, pass) ==
  Decide(r, c, IF ~pass THEN "fail" ELSE IF k < 4 THEN "advance" ELSE "create", k)
RejectRegistration(r, c) == Decide(r, c, "reject", 0)

Saved(r, f) ==
  /\ ~work[r].gone /\ reg' = [reg EXCEPT ![work[r].c] = f] /\ Finish(r)
  /\ UNCHANGED <<profile, decisions, late, failures>>

SaveShortlist(r) ==
  At(r, "shortlist") /\ LET c == work[r].c IN Saved(r, [reg[c] EXCEPT !.status = RoundStatus[1]])

SaveAdvance(r) ==
  /\ At(r, "advance")
  /\ LET h == work[r] IN
       Saved(r, [reg[h.c] EXCEPT !.status = RoundStatus[h.k + 1], !.passed = @ \cup {h.k}])

\* Fault: a failed round leaves the reason for the rejection out.
SaveRefused(r) ==
  /\ At(r, "fail")
  /\ LET h == work[r] IN Saved(r, [reg[h.c] EXCEPT !.status = "rejected", !.passed = @ \ {h.k}])
SaveFailed(r) ==
  /\ At(r, "fail")
  /\ LET h == work[r] IN
       Saved(r, [reg[h.c] EXCEPT !.status = "rejected", !.passed = @ \ {h.k}, !.rejection = TRUE])

SaveRejected(r) ==
  At(r, "reject") /\ LET c == work[r].c IN Saved(r, [reg[c] EXCEPT !.status = "rejected", !.rejection = TRUE])

Approved(r) == [reg[work[r].c] EXCEPT !.status = "approved", !.passed = @ \cup {4}, !.approval = TRUE]
\* Fault: the registration is approved before the profile is there.
ApproveFirst(r) ==
  /\ At(r, "create") /\ reg' = [reg EXCEPT ![work[r].c] = Approved(r)] /\ Finish(r)
  /\ UNCHANGED <<profile, decisions, late, failures>>
\* approveAndCreateAstrologer: the profile first; a second one for the same
\* phone number is refused, and with it the approval.
CreateAstrologer(r) ==
  /\ At(r, "create")
  /\ LET c == work[r].c IN
       /\ profile' = profile \cup {c}
       /\ IF c \in profile THEN Finish(r) ELSE Goto(r, "approve")
  /\ UNCHANGED <<reg, decisions, late, failures>>

\* Fault: the status is left for the next decision.
SaveApproval(r) == At(r, "approve") /\ Saved(r, [Approved(r) EXCEPT !.status = reg[work[r].c].status])
SaveApproved(r) == At(r, "approve") /\ Saved(r, Approved(r))

Fails(r) ==
  /\ ~At(r, "idle") /\ failures < MaxFailures /\ failures' = failures + 1 /\ Finish(r)
  /\ UNCHANGED <<reg, profile, decisions, late>>

\* The profile stays, and the phone number may register again.
DeleteRegistration(r, c) ==
  /\ At(r, "idle") /\ reg[c] # Absent /\ decisions < MaxDecisions /\ decisions' = decisions + 1
  /\ late' = IF c \in profile THEN late \cup {c} ELSE late
  /\ reg' = [reg EXCEPT ![c] = Absent]
  /\ work' = [q \in Slots |-> IF ~At(q, "idle") /\ work[q].c = c THEN [work[q] EXCEPT !.gone = TRUE]
                             ELSE work[q]]
  /\ UNCHANGED <<profile, failures>>
\* The registration a handler has read is deleted: its save fails.
SaveNothing(r) ==
  /\ work[r].pc \notin {"idle", "create"} /\ work[r].gone /\ Finish(r)
  /\ UNCHANGED <<reg, profile, decisions, late, failures>>

AdminRequests(r, c) ==
  \/ ShortlistCandidate(r, c) \/ RejectRegistration(r, c) \/ DeleteRegistration(r, c)
  \/ \E k \in Rounds, pass \in BOOLEAN : CompleteRound(r, c, k, pass)

Next ==
  \/ \E c \in Candidates : Register(c) \/ \E r \in Slots : AdminRequests(r, c)
  \/ \E r \in Slots :
       \/ SaveShortlist(r) \/ SaveAdvance(r) \/ SaveFailed(r) \/ SaveRejected(r)
       \/ CreateAstrologer(r) \/ SaveApproved(r) \/ SaveNothing(r) \/ Fails(r)

Spec == Init /\ [][Next]_gvars

----------------
Statuses == {"none", "waitlist", "shortlisted", "approved", "rejected"} \cup {RoundStatus[k] : k \in Rounds}

TypeOK ==
  /\ reg \in [Candidates -> [status : Statuses, passed : SUBSET Rounds, approval : BOOLEAN, rejection : BOOLEAN]]
  /\ profile \subseteq Candidates /\ late \subseteq profile
  /\ decisions \in 0..MaxDecisions /\ failures \in 0..MaxFailures

\* However administrators overlap and whatever fails, an approved candidate
\* has a profile to log in with, and a rejected one a reason.
DecisionIsBacked ==
  \A c \in Candidates :
    /\ reg[c].status = "approved" => c \in profile
    /\ reg[c].status = "rejected" => reg[c].rejection

\* Only a failure, or a decision taken after the approval, leaves an
\* astrologer behind whose registration is not approved.
ProfileIsApproved ==
  failures = 0 /\ OneAtATime /\ Quiet => \A c \in profile \ late : reg[c].status = "approved" /\ reg[c].approval
================
