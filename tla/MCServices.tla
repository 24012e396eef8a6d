-------- MODULE MCServices --------
(***************************************************************************)
(* Instances of the components whose handlers touch documents of their     *)
(* own, for TLC.  No step of one reads what another writes; so the run     *)
(* looks at one of them at a time, and "focus" says at which.  An instance *)
(* with one slot (r1) takes requests one after another, one with two lets  *)
(* them overlap.  Refunds is extended, so that TLC checks the very         *)
(* definitions that its theorems are about; the others share variables.    *)
(***************************************************************************)
EXTENDS Refunds, Integers, Sequences, FiniteSets, TLC

CONSTANTS r1, r2, k1, k2, none, p1, p2, p3, x1, u1, u2, a1, s1, s2, s3, e1, e2

VARIABLE focus
\* The variables of the component in focus, in the order of its module.
VARIABLES v1, v2, v3, v4, v5, v6, v7, v8, v9, v10, v11, v12, v13, v14, v15, v16, v17

\* What the component in focus leaves unused, from a variable on.
Rest17 == <<v17>>
Rest16 == <<v16, Rest17>>
Rest15 == <<v15, Rest16>>
Rest14 == <<v14, Rest15>>
Rest13 == <<v13, Rest14>>
Rest12 == <<v12, Rest13>>
Rest11 == <<v11, Rest12>>
Rest10 == <<v10, Rest11>>
Rest9 == <<v9, Rest10>>
Rest8 == <<v8, Rest9>>
Rest7 == <<v7, Rest8>>
Rest6 == <<v6, Rest7>>
Rest5 == <<v5, Rest6>>
Rest4 == <<v4, Rest5>>
Rest3 == <<v3, Rest4>>
Rest2 == <<v2, Rest3>>
Rest1 == <<v1, Rest2>>
Unused17 == v17 = 0
Unused16 == v16 = 0 /\ Unused17
Unused15 == v15 = 0 /\ Unused16
Unused14 == v14 = 0 /\ Unused15
Unused13 == v13 = 0 /\ Unused14
Unused12 == v12 = 0 /\ Unused13
Unused11 == v11 = 0 /\ Unused12
Unused10 == v10 = 0 /\ Unused11
Unused9 == v9 = 0 /\ Unused10
Unused8 == v8 = 0 /\ Unused9
Unused7 == v7 = 0 /\ Unused8
Unused6 == v6 = 0 /\ Unused7
Unused5 == v5 = 0 /\ Unused6
Unused4 == v4 = 0 /\ Unused5
Unused3 == v3 = 0 /\ Unused4
Unused2 == v2 = 0 /\ Unused3
Unused1 == v1 = 0 /\ Unused2

vars == <<focus, fvars, Rest1>>

Costs == [s \in {s1, s2, s3} |-> IF s = s1 THEN 60 ELSE 90]
TwoUsers == [s \in {s1, s2} |-> IF s = s2 THEN u2 ELSE u1]
OneAstrologer == [s \in {s1, s2} |-> a1]
\* Two devices with one name.
NoNames == [d \in {p1, p2, p3} |-> IF d = p3 THEN 3 ELSE 1]
OneCaller == [s \in {s1} |-> u1]
OneUser == [s \in {s1, s2} |-> u1]
TwoTabs == {<<"user", 1>>, <<"user", 2>>}
OneTab == {<<"user", 1>>}
Fines == [x \in {x1} |-> 3]
\* A bill shared by halves, and one without commission.
Bills == {[gross |-> 4, net |-> 2], [gross |-> 2, net |-> 2]}

Threads1 == INSTANCE Threads WITH
  Slots <- {r1}, Sessions <- {s1, s2, s3}, Chats <- {s1, s3}, Cost <- Costs, Full <- 200,
    MaxFailures <- 1, None <- none, thread <- v1, stage <- v2, opened <- v7, booked <- v3,
    income <- v4, failures <- v5, work <- v6
Threads2 == INSTANCE Threads WITH
  Slots <- {r1, r2}, Sessions <- {s1, s2}, Chats <- {s1}, Cost <- Costs, Full <- 200,
    MaxFailures <- 0, None <- none, thread <- v1, stage <- v2, opened <- v7, booked <- v3,
    income <- v4, failures <- v5, work <- v6
Reviews1 == INSTANCE Reviews WITH
  Slots <- {r1}, Orders <- {u1}, NoOrder <- none, MaxReviews <- 2, Stars <- {1, 5}, MaxFailures
    <- 1, review <- v1, given <- v2, ratings <- v3, failures <- v4, unrated <- v5, erased <- v6,
    work <- v7
Remedies1 == INSTANCE Remedies WITH
  Slots <- {r1}, Users <- {u1}, Products <- {p1}, Manual <- none, MaxRemedies <- 2, MaxPurchases
    <- 1, MaxFailures <- 1, remedy <- v1, purchases <- v2, due <- v3, failures <- v4, work <- v5
Remedies2 == INSTANCE Remedies WITH
  Slots <- {r1, r2}, Users <- {u1}, Products <- {p1}, Manual <- none, MaxRemedies <- 2,
    MaxPurchases <- 1, MaxFailures <- 0, remedy <- v1, purchases <- v2, due <- v3, failures <-
    v4, work <- v5
AiChats == INSTANCE AiChat WITH
  Slots <- {r1}, Users <- {u1}, Sockets <- {k1}, None <- none, MaxChats <- 2, Rate <- 5, Opening
    <- 7, FreeFirst <- TRUE, Lengths <- {90}, MaxFailures <- 0, chat <- v1, cash <- v2, used <-
    v3, listed <- v4, joined <- v5, grace <- v6, ticking <- v7, answering <- v8, paid <- v9,
    greetings <- v10, failures <- v11, work <- v12
UserAccounts == INSTANCE Login WITH
  Slots <- {r1}, Role <- "user", MaxAccounts <- 2, MaxSends <- 1, MaxTime <- 1, MaxDeletions <-
    2, MaxFailures <- 0, code <- v1, timers <- v2, requests <- v3, now <- v4, sent <- v5,
    account <- v6, deletions <- v7, failures <- v8, entries <- v9, served <- v10, kept <- v11,
    work <- v12
Codes == INSTANCE Login WITH
  Slots <- {r1}, Role <- "user", MaxAccounts <- 2, MaxSends <- 2, MaxTime <- 3, MaxDeletions <-
    0, MaxFailures <- 1, code <- v1, timers <- v2, requests <- v3, now <- v4, sent <- v5,
    account <- v6, deletions <- v7, failures <- v8, entries <- v9, served <- v10, kept <- v11,
    work <- v12
AstrologerAccounts == INSTANCE Login WITH
  Slots <- {r1}, Role <- "astrologer", MaxAccounts <- 2, MaxSends <- 1, MaxTime <- 1,
    MaxDeletions <- 2, MaxFailures <- 0, code <- v1, timers <- v2, requests <- v3, now <- v4,
    sent <- v5, account <- v6, deletions <- v7, failures <- v8, entries <- v9, served <- v10,
    kept <- v11, work <- v12
Matrimony1 == INSTANCE Matrimony WITH
  Slots <- {r1}, Users <- {u1, u2}, Tiers <- {1, 2}, MaxOrders <- 2, MaxMessages <- 3,
    MaxMatches <- 2, MaxSpending <- 8, MaxFailures <- 1, interest <- v1, matches <- v2, enabled
    <- v3, order <- v4, messages <- v5, charged <- v6, spent <- v7, answered <- v8, failures <-
    v9, work <- v10
Notices1 == INSTANCE Notices WITH
  Notes <- {u1}, Kinds <- {"call", "message", "logout", "plain"}, Devices <- {p1}, Sockets <-
    {k1, k2}, NoSocket <- none, MaxFailures <- 1, kind <- v1, stored <- v2, read <- v3,
    socketSent <- v4, pushSent <- v5, stage <- v6, devices <- v7, open <- v8, connected <- v9,
    mapped <- v10, reached <- v11, loggingOut <- v12, failures <- v13
Schedules1 == INSTANCE Scheduler WITH
  Slots <- {r1}, Schedules <- {s1, s2}, Recipients <- {u1, u2}, MaxFailures <- 2, MaxRestarts <-
    1, status <- v1, due <- v2, sent <- v3, attempted <- v4, failures <- v5, restarts <- v6,
    work <- v7
Schedules2 == INSTANCE Scheduler WITH
  Slots <- {r1, r2}, Schedules <- {s1}, Recipients <- {u1, u2}, MaxFailures <- 1, MaxRestarts <-
    1, status <- v1, due <- v2, sent <- v3, attempted <- v4, failures <- v5, restarts <- v6,
    work <- v7
Registration1 == INSTANCE Registration WITH
  Slots <- {r1}, Candidates <- {u1}, MaxDecisions <- 5, MaxFailures <- 1, reg <- v1, profile <-
    v2, decisions <- v3, late <- v4, failures <- v5, work <- v6
Registration2 == INSTANCE Registration WITH
  Slots <- {r1, r2}, Candidates <- {u1}, MaxDecisions <- 4, MaxFailures <- 1, reg <- v1, profile
    <- v2, decisions <- v3, late <- v4, failures <- v5, work <- v6
Profiles == INSTANCE Profile WITH
  Slots <- {r1}, Astrologers <- {u1, u2}, Places <- {1}, MaxCredits <- 2, enabled <- v1, online
    <- v2, available <- v3, earned <- v4, rate <- v5, credited <- v6, overlapped <- v7, place <-
    v8, work <- v9
Payouts1 == INSTANCE Payouts WITH
  Requests <- {r1}, Ids <- {p1, p2}, Amounts <- {1, 2}, Penalties <- {x1}, Fine <- Fines,
    Incomes <- Bills, MaxEarned <- 3, MaxTickets <- 1, MaxFaults <- 1, earnings <- v1, penalty
    <- v2, payout <- v3, req <- v4, tickets <- v5, faults <- v6, torn <- v7, reopened <- v8
Blocking1 == INSTANCE Blocking WITH
  Slots <- {r1}, MaxBlocks <- 3, MaxRequests <- 2, entries <- v1, requests <- v2, allowed <- v3,
    intruded <- v4, blocks <- v5, work <- v6
Blocking2 == INSTANCE Blocking WITH
  Slots <- {r1, r2}, MaxBlocks <- 2, MaxRequests <- 1, entries <- v1, requests <- v2, allowed <-
    v3, intruded <- v4, blocks <- v5, work <- v6
Messages1 == INSTANCE Messages WITH
  Slots <- {r1}, Parties <- {"user", "astrologer"}, Sockets <- TwoTabs, MaxMessages <- 1,
    MaxMarks <- 2, MaxFailures <- 1, session <- v1, message <- v2, count <- v3, online <- v4,
    socket <- v5, room <- v6, told <- v7, left <- v8, marks <- v9, failures <- v10, work <- v11
Messages2 == INSTANCE Messages WITH
  Slots <- {r1, r2}, Parties <- {"user", "astrologer"}, Sockets <- OneTab, MaxMessages <- 2,
    MaxMarks <- 0, MaxFailures <- 0, session <- v1, message <- v2, count <- v3, online <- v4,
    socket <- v5, room <- v6, told <- v7, left <- v8, marks <- v9, failures <- v10, work <- v11
Chats1 == INSTANCE ChatSession WITH
  Users <- {u1, u2}, Astrologers <- {a1}, Sessions <- {s1, s2}, Requests <- {r1}, UserOf <-
    TwoUsers, AstrologerOf <- OneAstrologer, Continued <- {}, Rate <- 10, Opening <- 50,
    Recharges <- {}, Spends <- {}, MaxBalance <- 50, Moments <- {61, 316}, MaxFaults <- 0, ses
    <- v1, elapsed <- v2, replied <- v3, old <- v4, timer <- v5, busy <- v6, balance <- v7,
    topUp <- v8, req <- v9, faults <- v10, charged <- v11, longest <- v12, shut <- v13, revenue
    <- v14, platform <- v15
Chats2 == INSTANCE ChatSession WITH
  Users <- {u1, u2}, Astrologers <- {a1}, Sessions <- {s1, s2}, Requests <- {r1}, UserOf <-
    OneUser, AstrologerOf <- OneAstrologer, Continued <- {}, Rate <- 10, Opening <- 50,
    Recharges <- {}, Spends <- {}, MaxBalance <- 50, Moments <- {61, 316}, MaxFaults <- 0, ses
    <- v1, elapsed <- v2, replied <- v3, old <- v4, timer <- v5, busy <- v6, balance <- v7,
    topUp <- v8, req <- v9, faults <- v10, charged <- v11, longest <- v12, shut <- v13, revenue
    <- v14, platform <- v15
PaidCalls == INSTANCE CallSession WITH
  Users <- {u1}, Sessions <- {s1}, Requests <- {r1}, UserOf <- OneCaller, Continued <- {}, Rate
    <- 10, Opening <- 50, Recharges <- {40}, Spends <- {20}, MaxBalance <- 90, Moments <- {61,
    316}, MaxFaults <- 3, ses <- v1, joined <- v2, elapsed <- v3, old <- v4, timer <- v5, ending
    <- v6, balance <- v7, topUp <- v8, req <- v9, faults <- v10, charged <- v11, opened <- v12,
    bills <- v13, booked <- v14
Tickets1 == INSTANCE Tickets WITH
  Slots <- {r1}, Tickets <- {p1}, MaxRequests <- 4, MaxFailures <- 1, MaxLapses <- 0, ticket <-
    v1, desk <- v2, hooks <- v3, paid <- v4, comments <- v5, token <- v6, refreshes <- v7,
    requests <- v8, missed <- v9, failures <- v10, lapses <- v11, work <- v12
Tickets2 == INSTANCE Tickets WITH
  Slots <- {r1, r2}, Tickets <- {p1}, MaxRequests <- 3, MaxFailures <- 1, MaxLapses <- 1, ticket
    <- v1, desk <- v2, hooks <- v3, paid <- v4, comments <- v5, token <- v6, refreshes <- v7,
    requests <- v8, missed <- v9, failures <- v10, lapses <- v11, work <- v12
Admins1 == INSTANCE Admins WITH
  Slots <- {r1}, Emails <- {e1, e2}, First <- e1, MaxTime <- 3, MaxRequests <- 9, MaxDeletions
    <- 1, admin <- v1, now <- v2, decided <- v3, wrong <- v4, refused <- v5, requests <- v6,
    deletions <- v7, work <- v8
BankAccounts1 == INSTANCE BankAccounts WITH
  Slots <- {r1}, Numbers <- {1, 2}, MaxAccounts <- 2, MaxRequests <- 4, MaxRestarts <- 1,
    MaxFailures <- 1, account <- v1, vector <- v2, bare <- v3, requests <- v4, restarts <- v5,
    failures <- v6, work <- v7
Bookings1 == INSTANCE Bookings WITH
  Slots <- {r1}, Bookings <- {p1}, MaxRequests <- 5, MaxFailures <- 2, MaxRestarts <- 1, booking
    <- v1, signed <- v2, made <- v3, stuck <- v4, requests <- v5, failures <- v6, restarts <-
    v7, work <- v8
Bookings2 == INSTANCE Bookings WITH
  Slots <- {r1, r2}, Bookings <- {p1}, MaxRequests <- 5, MaxFailures <- 2, MaxRestarts <- 1,
    booking <- v1, signed <- v2, made <- v3, stuck <- v4, requests <- v5, failures <- v6,
    restarts <- v7, work <- v8
AiCalls1 == INSTANCE AiVoice WITH
  Slots <- {r1}, Users <- {u1}, None <- none, Calls <- {s1}, Providers <- {"gemini", "vapi"},
    Rate <- 10, Opening <- 59, FreeFirst <- FALSE, FreeTime <- 5, Steps <- {5}, MaxTime <- 15,
    MaxSpends <- 1, MaxReports <- 1, call <- v1, age <- v2, ticker <- v3, voice <- v4, said <-
    v5, line <- v6, talk <- v7, ending <- v8, cash <- v9, used <- v10, taken <- v11, signal <-
    v12, stopped <- v13, now <- v14, spends <- v15, reports <- v16, work <- v17
AiCalls2 == INSTANCE AiVoice WITH
  Slots <- {r1, r2}, Users <- {u1}, None <- none, Calls <- {s1}, Providers <- {"vapi"}, Rate <-
    10, Opening <- 70, FreeFirst <- TRUE, FreeTime <- 5, Steps <- {5}, MaxTime <- 10, MaxSpends
    <- 0, MaxReports <- 1, call <- v1, age <- v2, ticker <- v3, voice <- v4, said <- v5, line <-
    v6, talk <- v7, ending <- v8, cash <- v9, used <- v10, taken <- v11, signal <- v12, stopped
    <- v13, now <- v14, spends <- v15, reports <- v16, work <- v17
UserTokens == INSTANCE Tokens WITH
  Slots <- {r1}, Role <- "user", Devices <- {p1, p2}, None <- none, NameOf <- NoNames, Access <-
    1, Refreshing <- 2, MaxTime <- 2, MaxNumbers <- 2, MaxLogins <- 3, MaxFailures <- 0, account
    <- v1, issued <- v2, devices <- v3, online <- v4, now <- v5, throttled <- v6, lastActive <-
    v7, logins <- v8, failures <- v9, served <- v10, rewritten <- v11, gone <- v12, work <- v13
AstrologerTokens == INSTANCE Tokens WITH
  Slots <- {r1}, Role <- "astrologer", Devices <- {p1, p2, p3}, None <- none, NameOf <- NoNames,
    Access <- 1, Refreshing <- 2, MaxTime <- 1, MaxNumbers <- 1, MaxLogins <- 3, MaxFailures <-
    1, account <- v1, issued <- v2, devices <- v3, online <- v4, now <- v5, throttled <- v6,
    lastActive <- v7, logins <- v8, failures <- v9, served <- v10, rewritten <- v11, gone <-
    v12, work <- v13
UserTokens2 == INSTANCE Tokens WITH
  Slots <- {r1, r2}, Role <- "user", Devices <- {p1, p2}, None <- none, NameOf <- NoNames,
    Access <- 1, Refreshing <- 2, MaxTime <- 1, MaxNumbers <- 2, MaxLogins <- 2, MaxFailures <-
    1, account <- v1, issued <- v2, devices <- v3, online <- v4, now <- v5, throttled <- v6,
    lastActive <- v7, logins <- v8, failures <- v9, served <- v10, rewritten <- v11, gone <-
    v12, work <- v13
Love == INSTANCE Readings WITH
  Slots <- {r1, r2}, Chinese <- FALSE, Signs <- {1}, Periods <- {"daily", "tomorrow"}, MaxDay <-
    2, MaxTexts <- 2, MaxChanges <- 1, MaxSlips <- 0, MaxFailures <- 0, MaxBoard <- 0, day <-
    v1, manual <- v2, cache <- v3, texts <- v4, told <- v5, latest <- v6, board <- v7, saved <-
    v8, changes <- v9, slips <- v10, failures <- v11, work <- v12
ChineseSigns == INSTANCE Readings WITH
  Slots <- {r1}, Chinese <- TRUE, Signs <- {1}, Periods <- {"daily", "weekly"}, MaxDay <- 2,
    MaxTexts <- 2, MaxChanges <- 1, MaxSlips <- 1, MaxFailures <- 1, MaxBoard <- 0, day <- v1,
    manual <- v2, cache <- v3, texts <- v4, told <- v5, latest <- v6, board <- v7, saved <- v8,
    changes <- v9, slips <- v10, failures <- v11, work <- v12
Board == INSTANCE Readings WITH
  Slots <- {}, Chinese <- FALSE, Signs <- {1, 2}, Periods <- {}, MaxDay <- 3, MaxTexts <- 0,
    MaxChanges <- 0, MaxSlips <- 0, MaxFailures <- 0, MaxBoard <- 3, day <- v1, manual <- v2,
    cache <- v3, texts <- v4, told <- v5, latest <- v6, board <- v7, saved <- v8, changes <- v9,
    slips <- v10, failures <- v11, work <- v12
Muhurat1 == INSTANCE Muhurat WITH
  Slots <- {r1}, Ranges <- {{1, 2}, {2, 3}}, Favoured <- {2, 3}, MaxLists <- 3, MaxChanges <- 1,
    MaxRestarts <- 1, MaxFailures <- 1, manual <- v1, standing <- v2, memory <- v3, file <- v4,
    lists <- v5, told <- v6, plain <- v7, changes <- v8, restarts <- v9, failures <- v10, work
    <- v11
Muhurat2 == INSTANCE Muhurat WITH
  Slots <- {r1, r2}, Ranges <- {{1, 2, 3}}, Favoured <- {2, 3}, MaxLists <- 3, MaxChanges <- 2,
    MaxRestarts <- 1, MaxFailures <- 0, manual <- v1, standing <- v2, memory <- v3, file <- v4,
    lists <- v5, told <- v6, plain <- v7, changes <- v8, restarts <- v9, failures <- v10, work
    <- v11
Engine1 == INSTANCE Engine WITH
  Slots <- {r1}, Births <- {1, 2}, Places <- {x1, p1}, Cap <- 1, Term <- 1, PlaceTerm <- 1,
    MaxTime <- 1, MaxFailures <- 0, None <- none, now <- v1, places <- v2, charts <- v3,
    personal <- v4, told <- v5, failures <- v6, work <- v7
Engine2 == INSTANCE Engine WITH
  Slots <- {r1, r2}, Births <- {1, 2}, Places <- {p1}, Cap <- 1, Term <- 1, PlaceTerm <- 1,
    MaxTime <- 0, MaxFailures <- 1, None <- none, now <- v1, places <- v2, charts <- v3,
    personal <- v4, told <- v5, failures <- v6, work <- v7
Gifts1 == INSTANCE Gifts WITH
  Slots <- {r1}, Amounts <- {2, 4}, Rate <- 50, Cash <- 5, Bonus <- 3, Top <- 4, MaxGifts <- 3,
    MaxTopUps <- 1, MaxFailures <- 1, cash <- v1, bonus <- v2, rows <- v3, earned <- v4, gifts
    <- v5, revenue <- v6, live <- v7, topUps <- v8, failures <- v9, work <- v10
Gifts2 == INSTANCE Gifts WITH
  Slots <- {r1, r2}, Amounts <- {2, 4}, Rate <- 50, Cash <- 5, Bonus <- 3, Top <- 4, MaxGifts <-
    2, MaxTopUps <- 0, MaxFailures <- 1, cash <- v1, bonus <- v2, rows <- v3, earned <- v4,
    gifts <- v5, revenue <- v6, live <- v7, topUps <- v8, failures <- v9, work <- v10
Availability1 == INSTANCE Availability WITH
  Slots <- {r1}, Sessions <- {s1, s2}, UserOf <- TwoUsers, Longest <- 2, MaxOthers <- 1,
    MaxFailures <- 1, MaxRestarts <- 0, ses <- v1, flag <- v2, online <- v3, live <- v4, byHand
    <- v5, others <- v6, failures <- v7, restarts <- v8, work <- v9
Availability2 == INSTANCE Availability WITH
  Slots <- {r1, r2}, Sessions <- {s1, s2}, UserOf <- OneUser, Longest <- 1, MaxOthers <- 1,
    MaxFailures <- 0, MaxRestarts <- 0, ses <- v1, flag <- v2, online <- v3, live <- v4, byHand
    <- v5, others <- v6, failures <- v7, restarts <- v8, work <- v9

GroupInit ==
  /\ focus \in {"refunds", "threads", "threads, two requests", "reviews", "remedies",
    "remedies, two requests", "AI chats", "users", "codes", "astrologers", "matrimony",
    "notices", "schedules", "schedules, two runs", "registrations",
    "registrations, two administrators", "profiles", "payouts", "blocking",
    "blocking, two requests", "messages", "messages, two requests", "chats of two users",
    "chats of one user", "calls", "tickets", "tickets, two requests", "administrators",
    "bank accounts", "bookings", "bookings, two requests", "AI calls", "AI calls, two requests",
    "user tokens", "astrologer tokens", "user tokens, two requests", "love readings",
    "Chinese readings", "the board of signs", "muhurats", "muhurats, two requests",
    "the engine", "the engine, two requests", "gifts", "gifts, two requests", "availability",
    "availability, two requests"}
  /\ Init
  /\ focus = "refunds" => Unused1
  /\ focus = "threads" => Threads1!Init /\ Unused8
  /\ focus = "threads, two requests" => Threads2!Init /\ Unused8
  /\ focus = "reviews" => Reviews1!Init /\ Unused8
  /\ focus = "remedies" => Remedies1!Init /\ Unused6
  /\ focus = "remedies, two requests" => Remedies2!Init /\ Unused6
  /\ focus = "AI chats" => AiChats!Init /\ Unused13
  /\ focus = "users" => UserAccounts!Init /\ Unused13
  /\ focus = "codes" => Codes!Init /\ Unused13
  /\ focus = "astrologers" => AstrologerAccounts!Init /\ Unused13
  /\ focus = "matrimony" => Matrimony1!Init /\ Unused11
  /\ focus = "notices" => Notices1!Init /\ Unused14
  /\ focus = "schedules" => Schedules1!Init /\ Unused8
  /\ focus = "schedules, two runs" => Schedules2!Init /\ Unused8
  /\ focus = "registrations" => Registration1!Init /\ Unused7
  /\ focus = "registrations, two administrators" => Registration2!Init /\ Unused7
  /\ focus = "profiles" => Profiles!Init /\ Unused10
  /\ focus = "payouts" => Payouts1!Init /\ Unused9
  /\ focus = "blocking" => Blocking1!Init /\ Unused7
  /\ focus = "blocking, two requests" => Blocking2!Init /\ Unused7
  /\ focus = "messages" => Messages1!Init /\ Unused12
  /\ focus = "messages, two requests" => Messages2!Init /\ Unused12
  /\ focus = "chats of two users" => Chats1!Init /\ Unused16
  /\ focus = "chats of one user" => Chats2!Init /\ Unused16
  /\ focus = "calls" => PaidCalls!Init /\ Unused15
  /\ focus = "tickets" => Tickets1!Init /\ Unused13
  /\ focus = "tickets, two requests" => Tickets2!Init /\ Unused13
  /\ focus = "administrators" => Admins1!Init /\ Unused9
  /\ focus = "bank accounts" => BankAccounts1!Init /\ Unused8
  /\ focus = "bookings" => Bookings1!Init /\ Unused9
  /\ focus = "bookings, two requests" => Bookings2!Init /\ Unused9
  /\ focus = "AI calls" => AiCalls1!Init
  /\ focus = "AI calls, two requests" => AiCalls2!Init
  /\ focus = "user tokens" => UserTokens!Init /\ Unused14
  /\ focus = "astrologer tokens" => AstrologerTokens!Init /\ Unused14
  /\ focus = "user tokens, two requests" => UserTokens2!Init /\ Unused14
  /\ focus = "love readings" => Love!Init /\ Unused13
  /\ focus = "Chinese readings" => ChineseSigns!Init /\ Unused13
  /\ focus = "the board of signs" => Board!Init /\ Unused13
  /\ focus = "muhurats" => Muhurat1!Init /\ Unused12
  /\ focus = "muhurats, two requests" => Muhurat2!Init /\ Unused12
  /\ focus = "the engine" => Engine1!Init /\ Unused8
  /\ focus = "the engine, two requests" => Engine2!Init /\ Unused8
  /\ focus = "gifts" => Gifts1!Init /\ Unused11
  /\ focus = "gifts, two requests" => Gifts2!Init /\ Unused11
  /\ focus = "availability" => Availability1!Init /\ Unused10
  /\ focus = "availability, two requests" => Availability2!Init /\ Unused10

GroupNext ==
  \/ focus = "refunds" /\ Next /\ UNCHANGED <<focus, Rest1>>
  \/ focus = "threads" /\ Threads1!Next /\ UNCHANGED <<focus, fvars, Rest8>>
  \/ focus = "threads, two requests" /\ Threads2!Next /\ UNCHANGED <<focus, fvars, Rest8>>
  \/ focus = "reviews" /\ Reviews1!Next /\ UNCHANGED <<focus, fvars, Rest8>>
  \/ focus = "remedies" /\ Remedies1!Next /\ UNCHANGED <<focus, fvars, Rest6>>
  \/ focus = "remedies, two requests" /\ Remedies2!Next /\ UNCHANGED <<focus, fvars, Rest6>>
  \/ focus = "AI chats" /\ AiChats!Next /\ UNCHANGED <<focus, fvars, Rest13>>
  \/ focus = "users" /\ UserAccounts!Next /\ UNCHANGED <<focus, fvars, Rest13>>
  \/ focus = "codes" /\ Codes!Next /\ UNCHANGED <<focus, fvars, Rest13>>
  \/ focus = "astrologers" /\ AstrologerAccounts!Next /\ UNCHANGED <<focus, fvars, Rest13>>
  \/ focus = "matrimony" /\ Matrimony1!Next /\ UNCHANGED <<focus, fvars, Rest11>>
  \/ focus = "notices" /\ Notices1!Next /\ UNCHANGED <<focus, fvars, Rest14>>
  \/ focus = "schedules" /\ Schedules1!Next /\ UNCHANGED <<focus, fvars, Rest8>>
  \/ focus = "schedules, two runs" /\ Schedules2!Next /\ UNCHANGED <<focus, fvars, Rest8>>
  \/ focus = "registrations" /\ Registration1!Next /\ UNCHANGED <<focus, fvars, Rest7>>
  \/ focus = "registrations, two administrators" /\ Registration2!Next /\ UNCHANGED <<focus,
    fvars, Rest7>>
  \/ focus = "profiles" /\ Profiles!Next /\ UNCHANGED <<focus, fvars, Rest10>>
  \/ focus = "payouts" /\ Payouts1!Next /\ UNCHANGED <<focus, fvars, Rest9>>
  \/ focus = "blocking" /\ Blocking1!Next /\ UNCHANGED <<focus, fvars, Rest7>>
  \/ focus = "blocking, two requests" /\ Blocking2!Next /\ UNCHANGED <<focus, fvars, Rest7>>
  \/ focus = "messages" /\ Messages1!Next /\ UNCHANGED <<focus, fvars, Rest12>>
  \/ focus = "messages, two requests" /\ Messages2!Next /\ UNCHANGED <<focus, fvars, Rest12>>
  \/ focus = "chats of two users" /\ Chats1!Next /\ UNCHANGED <<focus, fvars, Rest16>>
  \/ focus = "chats of one user" /\ Chats2!Next /\ UNCHANGED <<focus, fvars, Rest16>>
  \/ focus = "calls" /\ PaidCalls!Next /\ UNCHANGED <<focus, fvars, Rest15>>
  \/ focus = "tickets" /\ Tickets1!Next /\ UNCHANGED <<focus, fvars, Rest13>>
  \/ focus = "tickets, two requests" /\ Tickets2!Next /\ UNCHANGED <<focus, fvars, Rest13>>
  \/ focus = "administrators" /\ Admins1!Next /\ UNCHANGED <<focus, fvars, Rest9>>
  \/ focus = "bank accounts" /\ BankAccounts1!Next /\ UNCHANGED <<focus, fvars, Rest8>>
  \/ focus = "bookings" /\ Bookings1!Next /\ UNCHANGED <<focus, fvars, Rest9>>
  \/ focus = "bookings, two requests" /\ Bookings2!Next /\ UNCHANGED <<focus, fvars, Rest9>>
  \/ focus = "AI calls" /\ AiCalls1!Next /\ UNCHANGED <<focus, fvars>>
  \/ focus = "AI calls, two requests" /\ AiCalls2!Next /\ UNCHANGED <<focus, fvars>>
  \/ focus = "user tokens" /\ UserTokens!Next /\ UNCHANGED <<focus, fvars, Rest14>>
  \/ focus = "astrologer tokens" /\ AstrologerTokens!Next /\ UNCHANGED <<focus, fvars, Rest14>>
  \/ focus = "user tokens, two requests" /\ UserTokens2!Next /\ UNCHANGED <<focus, fvars, Rest14>>
  \/ focus = "love readings" /\ Love!Next /\ UNCHANGED <<focus, fvars, Rest13>>
  \/ focus = "Chinese readings" /\ ChineseSigns!Next /\ UNCHANGED <<focus, fvars, Rest13>>
  \/ focus = "the board of signs" /\ Board!Next /\ UNCHANGED <<focus, fvars, Rest13>>
  \/ focus = "muhurats" /\ Muhurat1!Next /\ UNCHANGED <<focus, fvars, Rest12>>
  \/ focus = "muhurats, two requests" /\ Muhurat2!Next /\ UNCHANGED <<focus, fvars, Rest12>>
  \/ focus = "the engine" /\ Engine1!Next /\ UNCHANGED <<focus, fvars, Rest8>>
  \/ focus = "the engine, two requests" /\ Engine2!Next /\ UNCHANGED <<focus, fvars, Rest8>>
  \/ focus = "gifts" /\ Gifts1!Next /\ UNCHANGED <<focus, fvars, Rest11>>
  \/ focus = "gifts, two requests" /\ Gifts2!Next /\ UNCHANGED <<focus, fvars, Rest11>>
  \/ focus = "availability" /\ Availability1!Next /\ UNCHANGED <<focus, fvars, Rest10>>
  \/ focus = "availability, two requests" /\ Availability2!Next /\ UNCHANGED <<focus, fvars, Rest10>>

GroupSpec == GroupInit /\ [][GroupNext]_vars

----------------
TypesOK ==
  /\ TypeOK
  /\ focus = "threads" => Threads1!TypeOK
  /\ focus = "threads, two requests" => Threads2!TypeOK
  /\ focus = "reviews" => Reviews1!TypeOK
  /\ focus = "remedies" => Remedies1!TypeOK
  /\ focus = "remedies, two requests" => Remedies2!TypeOK
  /\ focus = "AI chats" => AiChats!TypeOK
  /\ focus = "users" => UserAccounts!TypeOK
  /\ focus = "codes" => Codes!TypeOK
  /\ focus = "astrologers" => AstrologerAccounts!TypeOK
  /\ focus = "matrimony" => Matrimony1!TypeOK
  /\ focus = "notices" => Notices1!TypeOK
  /\ focus = "schedules" => Schedules1!TypeOK
  /\ focus = "schedules, two runs" => Schedules2!TypeOK
  /\ focus = "registrations" => Registration1!TypeOK
  /\ focus = "registrations, two administrators" => Registration2!TypeOK
  /\ focus = "profiles" => Profiles!TypeOK
  /\ focus = "payouts" => Payouts1!TypeOK
  /\ focus = "blocking" => Blocking1!TypeOK
  /\ focus = "blocking, two requests" => Blocking2!TypeOK
  /\ focus = "messages" => Messages1!TypeOK
  /\ focus = "messages, two requests" => Messages2!TypeOK
  /\ focus = "chats of two users" => Chats1!TypeOK
  /\ focus = "chats of one user" => Chats2!TypeOK
  /\ focus = "calls" => PaidCalls!TypeOK
  /\ focus = "tickets" => Tickets1!TypeOK
  /\ focus = "tickets, two requests" => Tickets2!TypeOK
  /\ focus = "administrators" => Admins1!TypeOK
  /\ focus = "bank accounts" => BankAccounts1!TypeOK
  /\ focus = "bookings" => Bookings1!TypeOK
  /\ focus = "bookings, two requests" => Bookings2!TypeOK
  /\ focus = "AI calls" => AiCalls1!TypeOK
  /\ focus = "AI calls, two requests" => AiCalls2!TypeOK
  /\ focus = "user tokens" => UserTokens!TypeOK
  /\ focus = "astrologer tokens" => AstrologerTokens!TypeOK
  /\ focus = "user tokens, two requests" => UserTokens2!TypeOK
  /\ focus = "love readings" => Love!TypeOK
  /\ focus = "Chinese readings" => ChineseSigns!TypeOK
  /\ focus = "the board of signs" => Board!TypeOK
  /\ focus = "muhurats" => Muhurat1!TypeOK
  /\ focus = "muhurats, two requests" => Muhurat2!TypeOK
  /\ focus = "the engine" => Engine1!TypeOK
  /\ focus = "the engine, two requests" => Engine2!TypeOK
  /\ focus = "gifts" => Gifts1!TypeOK
  /\ focus = "gifts, two requests" => Gifts2!TypeOK
  /\ focus = "availability" => Availability1!TypeOK
  /\ focus = "availability, two requests" => Availability2!TypeOK

\* However handlers overlap and fail, the history has a session as often as
\* it was booked; a call is booked no more often than it was opened, and any
\* session at most once while handlers do not overlap.
HistoryKeepsAll == (focus = "threads" => Threads1!HistoryKeepsAll) /\ (focus = "threads, two requests" => Threads2!HistoryKeepsAll)
\* The totals the user is shown never exceed the history; they fall short
\* only if completions overlapped.
TotalsAgree == (focus = "threads" => Threads1!TotalsAgree) /\ (focus = "threads, two requests" => Threads2!TotalsAgree)
\* One handler after another, and none fails: the astrologer was credited for
\* all that the thread says the user spent, and for less than Full beyond it,
\* however many sessions were credited twice.
IncomeIsBooked == focus = "threads" => Threads1!IncomeIsBooked
\* Between requests the rating is that of the approved reviews, unless one
\* was flagged or a request failed on the way and nothing was computed since.
RatingMatchesApproved == focus = "reviews" => Reviews1!RatingMatchesApproved
\* "This session has already been reviewed": an order has one review that is
\* not deleted, unless a request failed or deleted a review a second time.
OneReviewPerOrder == focus = "reviews" => Reviews1!OneReviewPerOrder
\* A remedy that was bought is not waiting for an answer, however the webhook
\* and the user's answer interleave.
BoughtIsAnswered == (focus = "remedies" => Remedies1!BoughtIsAnswered) /\ (focus = "remedies, two requests" => Remedies2!BoughtIsAnswered)
\* "Products that were suggested AND purchased": unless a webhook failed, a
\* purchase reaches every remedy that waited for it.
PurchaseIsMarked == (focus = "remedies" => Remedies1!PurchaseIsMarked) /\ (focus = "remedies, two requests" => Remedies2!PurchaseIsMarked)
\* "Cap cost to user's balance to prevent over-deduction": no overlap of
\* settlements makes a wallet negative.
NeverBeyondBalance == focus = "AI chats" => AiChats!NeverBeyondBalance
\* One settlement after another: an ended chat was paid for once, by its
\* cost, and the wallet is short of just these, unless a request was cut off.
EndedIsPaid == focus = "AI chats" => AiChats!EndedIsPaid
\* A user has one free consultation, unless its chat was deleted while it was
\* active, its astrologer had gone, or a request was cut off.
FreeOnce == focus = "AI chats" => AiChats!FreeOnce
\* "PREVENT CONCURRENT SESSIONS": one request after another.
OneAiChatPerUser == focus = "AI chats" => AiChats!OneChatPerUser
\* A user with one socket who is back within the minute keeps the chat: no
\* timer runs for a chat that its user is in.
PresentIsKept == focus = "AI chats" => AiChats!PresentIsKept
\* A code logs in once, and not after three wrong entries.
CodeUsedOnce == focus = "codes" => Codes!CodeUsedOnce
\* A code lasts ten minutes unless it is used, tried out or replaced, the
\* process starts anew, or the timer of an older one was running.
CodeLasts == focus = "codes" => Codes!CodeLasts
\* matchCount counts the accepted interests of a user, unless an accepted one
\* was answered again or a request failed.
MatchesCounted == focus = "matrimony" => Matrimony1!MatchesCounted
\* One request at a time, none of which failed: each message that was paid
\* for can be sent, each that was sent is counted, and the orders hold the
\* money.
PacksAgree == focus = "matrimony" => Matrimony1!PacksAgree
\* One request at a time: an order is exhausted when its last message is used
\* and not before.
ExhaustedWhenUsed == focus = "matrimony" => Matrimony1!ExhaustedWhenUsed
\* The gateway never writes to a socket that is closed or belongs to another
\* device, however sockets of one device replace each other.
MappedIsOpen == focus = "notices" => Notices1!MappedIsOpen
\* isSocketSent and isPushSent are set only for what went out that way; when
\* nothing failed and the document is there, they are set for all of it.
SentAsRecorded == focus = "notices" => Notices1!SentAsRecorded
\* A notification that is not urgent is not pushed to someone who had it by a
\* socket.
NotTwice == focus = "notices" => Notices1!NotTwice
\* A run at a time: a recipient is notified once, and once more for a restart
\* or a failed save at most (the next run finds what was sent still pending).
SentOnce == (focus = "schedules" => Schedules1!SentOnce) /\ (focus = "schedules, two runs" => Schedules2!SentOnce)
\* A run at a time, none cut short: what was cancelled reached no one.
CancelledReachedNoOne == focus = "schedules" => Schedules1!CancelledReachedNoOne
\* One failure, a run at a time: a schedule marked failed reached no one, or
\* everyone when it was the mark itself that could not be saved.
FailedIsAllOrNone == focus = "schedules" => Schedules1!FailedIsAllOrNone
\* However administrators overlap and whatever fails, an approved candidate
\* has a profile to log in with, and a rejected one a reason.
DecisionIsBacked == (focus = "registrations" => Registration1!DecisionIsBacked) /\ (focus = "registrations, two administrators" => Registration2!DecisionIsBacked)
\* Only a failure, or a decision taken after the approval, leaves an
\* astrologer behind whose registration is not approved.
ProfileIsApproved == focus = "registrations" => Registration1!ProfileIsApproved
\* What settled bills have credited is in the earnings, unless a bill came
\* between the reading and the saving of a commission rate.
EarningsKept == focus = "profiles" => Profiles!EarningsKept
\* One request at a time, no two astrologers hold one place of the listing.
PlacesDistinct == focus = "profiles" => Profiles!PlacesDistinct
\* "You already have a pending payout request": while no ticket reopens a
\* closed payout, one payout is open at a time.
OneOpenPayout == focus = "payouts" => Payouts1!OneOpenPayout
\* "Enforce 50% payout cap over total earnings": what is paid and what is
\* still to be paid stay within half of what was earned, although earnings
\* shared otherwise make more than that withdrawable, and whichever handler
\* is cut short.
PaidWithinCap == focus = "payouts" => Payouts1!PaidWithinCap
\* Between handlers the astrologer's amounts agree with the payouts and the
\* penalties, unless a handler was cut between its two writes and nothing was
\* recounted since.
BooksAgree == focus = "payouts" => Payouts1!BooksAgree
\* endSession caps the duration "to prevent overcharging": all that is paid
\* for a session is the price of the minutes used within the limit.
ChatNotOvercharged == (focus = "chats of two users" => Chats1!NeverOvercharged) /\ (focus = "chats of one user" => Chats2!NeverOvercharged)
\* "One User at a Time": an astrologer has open requests and chats with one
\* user only.
OneUserAtATime == (focus = "chats of two users" => Chats1!OneUserAtATime) /\ (focus = "chats of one user" => Chats2!OneUserAtATime)
\* "PREVENT DOUBLE CHATS": a user has one open request or chat.
OneChatPerUser == (focus = "chats of two users" => Chats1!OneChatPerUser) /\ (focus = "chats of one user" => Chats2!OneChatPerUser)
\* endSession caps the duration "to prevent overcharging", and its lock is
\* there for one handler to bill: all that is paid for a call is the price of
\* its minutes within the limit, nothing if it was never connected.
CallNotOvercharged == focus = "calls" => PaidCalls!NeverOvercharged
\* However requests and blocks overlap: nothing begins that a block refused
\* when it was asked for, unless the block was lifted meanwhile.
BlockedStartsNothing == (focus = "blocking" => Blocking1!BlockedStartsNothing) /\ (focus = "blocking, two requests" => Blocking2!BlockedStartsNothing)
\* One request at a time, the one is once in a list of the other.
BlockedOnce == focus = "blocking" => Blocking1!BlockedOnce
\* A message that was saved reaches its receiver by the room or by push,
\* unless they left between the look into the room and the emit.
EveryMessageIsTold == (focus = "messages" => Messages1!EveryMessageIsTold) /\ (focus = "messages, two requests" => Messages2!EveryMessageIsTold)
\* However messages overlap, the session counts each, but for a failure.
MessagesCounted == (focus = "messages" => Messages1!MessagesCounted) /\ (focus = "messages, two requests" => Messages2!MessagesCounted)
\* One request at a time, a message is listed as starred just if somebody has
\* starred it.
StarsAgree == (focus = "messages" => Messages1!StarsAgree) /\ (focus = "messages, two requests" => Messages2!StarsAgree)
\* One request at a time, a party reacts once with an emoji.
ReactedOnce == (focus = "messages" => Messages1!ReactedOnce) /\ (focus = "messages, two requests" => Messages2!ReactedOnce)
\* One event at a time, the document says who has a socket in the chat.
PresenceAgrees == (focus = "messages" => Messages1!PresenceAgrees) /\ (focus = "messages, two requests" => Messages2!PresenceAgrees)
\* One request at a time and without a failure, a ticket with notes at Zoho has
\* the first of them, and keeps it whatever is saved later; it has no other.
FirstNoteKept == focus = "tickets" => Tickets1!FirstNoteKept
\* A ticket says that its refund was processed only if the wallet was
\* credited, and one request at a time and without a failure no way pays
\* twice, whatever became of the status in between.
TicketPaidOnce == focus = "tickets" => Tickets1!PaidOnce
\* However administrators, agents and webhooks overlap: when all is done and
\* nothing failed, ticket and Zoho have the same status.
DeskAgrees == (focus = "tickets" => Tickets1!DeskAgrees) /\ (focus = "tickets, two requests" => Tickets2!DeskAgrees)
\* One request for a token is under way at a time, and while somebody waits
\* there is one.
RefreshedOnce == (focus = "tickets" => Tickets1!RefreshedOnce) /\ (focus = "tickets, two requests" => Tickets2!RefreshedOnce)
\* "Lock account after 5 failed attempts": one login at a time, an account is
\* locked after five wrong passwords in a row, and not before them.
LockIsEarned == focus = "administrators" => Admins1!LockIsEarned
\* One request at a time: whom an administrator suspended or made inactive,
\* no lock and no login brings back.
SuspendedStaysOut == focus = "administrators" => Admins1!SuspendedStaysOut
\* One request at a time and while no account was deleted, a new account
\* finds an id that is free.
IdIsFree == focus = "administrators" => Admins1!IdIsFree
\* "Prevent deleting super admins": whatever roles are changed meanwhile, who
\* began as a super admin is there.
FirstIsKept == focus = "administrators" => Admins1!FirstIsKept
\* One request at a time, one of the accounts is primary, unless a request to
\* mark another found it deleted or failed halfway.
OnePrimary == focus = "bank accounts" => BankAccounts1!OnePrimary
\* "This bank account is already added": one request at a time, no number is
\* there twice, as long as the process is not restarted.
NumberOnce == focus = "bank accounts" => BankAccounts1!NumberOnce
\* "Payment verified": a booking is paid, and a PDF made, only after a valid
\* signature; and one request at a time no later verification takes it back.
PaidIsSigned == focus = "bookings" => Bookings1!PaidIsSigned
\* One request at a time and without a failure, a PDF is made once.
MadeOnce == focus = "bookings" => Bookings1!MadeOnce
\* "PDF is currently being generated": somebody is at it, but for a restart
\* or a failure that could not be saved, however many ask at once.
GeneratingIsAlive == (focus = "bookings" => Bookings1!GeneratingIsAlive) /\ (focus = "bookings, two requests" => Bookings2!GeneratingIsAlive)
\* However many ends and reports a call gets, it is paid for once, and for
\* the minutes that the balance at its start allowed.
AiCallPaidOnce == (focus = "AI calls" => AiCalls1!PaidOnce) /\ (focus = "AI calls, two requests" => AiCalls2!PaidOnce)
\* A user who pays for nothing else meanwhile can pay for the call: no call
\* that was the only one goes unpaid.
AffordableIsPaid == (focus = "AI calls" => AiCalls1!AffordableIsPaid) /\ (focus = "AI calls, two requests" => AiCalls2!AffordableIsPaid)
\* What Vapi does after vapi_end is billed by no report and no end of the gateway.
GhostNotReported == focus = "AI calls" => AiCalls1!GhostNotReported
\* gemini_stop: "Capture transcript before closing".
TranscriptIsKept == focus = "AI calls" => AiCalls1!TranscriptIsKept
\* "Phone hash validation": whoever is let in logged in, or began the chain
\* of refreshed tokens, with the number the account has now.
NumberIsFresh == (focus = "user tokens" => UserTokens!NumberIsFresh) /\ (focus = "user tokens, two requests" => UserTokens2!NumberIsFresh)
\* Nobody is logged out before the token expires, but for a suspension, a
\* change of number, or a login by code that replaced the hash of a
\* Truecaller account.
TokensLast == (focus = "user tokens" => UserTokens!TokensLast) /\ (focus = "user tokens, two requests" => UserTokens2!TokensLast)
\* However requests are throttled, the account tells the day of the last one.
ActiveIsRecorded == (focus = "user tokens" => UserTokens!ActiveIsRecorded) /\ (focus = "user tokens, two requests" => UserTokens2!ActiveIsRecorded)
\* "Single device mode": one login at a time leaves at most one device.
OneDevice == (focus = "user tokens" => UserTokens!OneDevice) /\ (focus = "astrologer tokens" => AstrologerTokens!OneDevice)
\* One request at a time and without a failure, a device that logged out is
\* not active until it logs in, and the astrologer offline until going online
\* again.
LoggedOut == focus = "astrologer tokens" => AstrologerTokens!LoggedOut
\* A request that saw the administrators' last change is not answered by the
\* model where one of their texts applies, unless a lookup failed.
ManualFirst == (focus = "love readings" => Love!ManualFirst) /\ (focus = "Chinese readings" => ChineseSigns!ManualFirst)
\* A text told for a sign, a period and a day was written for them, as long
\* as the model names what it was asked for.
TextIsForKey == (focus = "love readings" => Love!TextIsForKey) /\ (focus = "Chinese readings" => ChineseSigns!TextIsForKey)
\* One request at a time, whoever asks for the same is told the same text.
SameForAll == focus = "Chinese readings" => ChineseSigns!SameForAll
\* The board shows the entry that was added last for its sign.
AddedIsShown == focus = "the board of signs" => Board!AddedIsShown
\* One request at a time, a range is told the same list for as long as the
\* process lives.
ToldOnceForAll == focus = "muhurats" => Muhurat1!ToldOnceForAll
\* A list of the directory outlives restarts, as long as only the directory
\* asks and its files can be written.
DirectoryOutlives == focus = "muhurats" => Muhurat1!DirectoryOutlives
\* A day that an administrator entered before the process started, and has
\* left since, is in every list that the process has made for its range.
StandingIsListed == (focus = "muhurats" => Muhurat1!StandingIsListed) /\ (focus = "muhurats, two requests" => Muhurat2!StandingIsListed)
\* However requests overlap, a cache with a limit keeps to it.
CachesBounded == (focus = "the engine" => Engine1!CachesBounded) /\ (focus = "the engine, two requests" => Engine2!CachesBounded)
\* The chart that an answer is drawn from is that of the birth and the place
\* that were asked about.
ChartIsOwn == (focus = "the engine" => Engine1!ChartIsOwn) /\ (focus = "the engine, two requests" => Engine2!ChartIsOwn)
\* No answer is drawn from what was kept for longer than its term.
NothingStale == (focus = "the engine" => Engine1!NothingStale) /\ (focus = "the engine, two requests" => Engine2!NothingStale)
\* A reading is told from a chart or not at all, other than a chat's answer.
ReadingHasChart == (focus = "the engine" => Engine1!ReadingHasChart) /\ (focus = "the engine, two requests" => Engine2!ReadingHasChart)
\* One request at a time, the wallet has lost exactly the gifts that have a
\* row, of its bonus before its cash.
GiftsAreTaken == focus = "gifts" => Gifts1!GiftsAreTaken
\* However gifts overlap, the astrologer has earned the net amount of every
\* row and the stream counts those that were given on it, when all requests
\* have ended and none failed.
GiftsAreCounted == (focus = "gifts" => Gifts1!GiftsAreCounted) /\ (focus = "gifts, two requests" => Gifts2!GiftsAreCounted)
\* One request at a time, an astrologer who is in a chat or a call is not
\* asked by a second user, unless that user continues an earlier session.
StrangerIsKeptOut == focus = "availability" => Availability1!StrangerIsKeptOut
\* One request at a time, and until something else writes the flags, an
\* astrologer is shown as busy for as long as a session lasts, its extensions
\* included.
BusyWhileActive == focus = "availability" => Availability1!BusyWhileActive
\* However handlers overlap, fail or are lost, an astrologer who is online is
\* marked unavailable for good only by the toggle or while on a stream.
NeverStuck == (focus = "availability" => Availability1!NeverStuck) /\ (focus = "availability, two requests" => Availability2!NeverStuck)
\* "Remedy not found or already responded": one request at a time, an answer
\* is not taken back.
AnswerStands == [][focus = "remedies" => Remedies1!AnswerStays]_vars
\* One login at a time: an account that an administrator suspended is not
\* made active by a login.
SuspendedStays == [][focus = "users" => UserAccounts!KeepSuspended]_vars
\* What is erased was deleted two days before.
ErasedAfterGrace ==
  [][/\ focus = "users" => UserAccounts!EraseServed
     /\ focus = "astrologers" => AstrologerAccounts!EraseServed]_vars
\* What was restored is not erased, whatever its date says.
RestoredIsNotErased ==
  [][/\ focus = "users" => UserAccounts!EraseDeleted
     /\ focus = "astrologers" => AstrologerAccounts!EraseDeleted]_vars
\* A request that was rejected, timed out or cancelled costs nothing later.
ClosedStaysFree ==
  [][/\ focus = "chats of two users" => Chats1!ChargeOpen
     /\ focus = "chats of one user" => Chats2!ChargeOpen]_vars

----------------
\* What a chat or a call costs, with a person or with the AI: no more than
\* its minutes within what the balance allowed, once, and never more than the
\* wallet has.
SessionsArePriced ==
  /\ ChatNotOvercharged /\ CallNotOvercharged /\ NeverBeyondBalance /\ EndedIsPaid /\ FreeOnce
  /\ AiCallPaidOnce /\ AffordableIsPaid /\ GhostNotReported
\* What threads, gifts and bills credit to an astrologer is what was paid,
\* and what payouts take is within it.
EarningsAgree ==
  /\ HistoryKeepsAll /\ TotalsAgree /\ IncomeIsBooked /\ GiftsAreTaken /\ GiftsAreCounted
  /\ EarningsKept /\ OneOpenPayout /\ PaidWithinCap /\ BooksAgree
\* What was bought or is owed is given, and given once: packs of messages,
\* reports, remedies, refunds of tickets, reviews of orders.
PaidIsGiven ==
  /\ MatchesCounted /\ PacksAgree /\ ExhaustedWhenUsed /\ PaidIsSigned /\ MadeOnce
  /\ GeneratingIsAlive /\ BoughtIsAnswered /\ PurchaseIsMarked /\ FirstNoteKept /\ TicketPaidOnce
  /\ DeskAgrees /\ RefreshedOnce /\ RatingMatchesApproved /\ OneReviewPerOrder
\* Who may talk to whom: an astrologer has one user and a user one session,
\* nobody talks to whom they blocked, and nobody stays unavailable for a
\* session that is over.
OneSessionAtATime ==
  /\ OneUserAtATime /\ OneChatPerUser /\ OneAiChatPerUser /\ PresentIsKept
  /\ BlockedStartsNothing /\ BlockedOnce /\ StrangerIsKeptOut /\ BusyWhileActive /\ NeverStuck
\* Who may log in: by a code or a token that is valid, unless locked or
\* suspended; and what belongs to an account is there once.
AccountsAreSafe ==
  /\ CodeUsedOnce /\ CodeLasts /\ NumberIsFresh /\ TokensLast /\ ActiveIsRecorded /\ OneDevice
  /\ LoggedOut /\ LockIsEarned /\ SuspendedStaysOut /\ IdIsFree /\ FirstIsKept
  /\ DecisionIsBacked /\ ProfileIsApproved /\ PlacesDistinct /\ OnePrimary /\ NumberOnce
\* Messages and notifications reach whom they are for, what was said is
\* recorded as it was, and nothing is sent twice.
EveryoneIsTold ==
  /\ EveryMessageIsTold /\ TranscriptIsKept /\ MessagesCounted /\ StarsAgree /\ ReactedOnce
  /\ PresenceAgrees /\ MappedIsOpen /\ SentAsRecorded /\ NotTwice /\ SentOnce
  /\ CancelledReachedNoOne /\ FailedIsAllOrNone
\* What is told from a cache was made for what is asked, is not outlived, and
\* gives way to an administrator.
AnswersAreOwn ==
  /\ ManualFirst /\ TextIsForKey /\ SameForAll /\ AddedIsShown /\ ToldOnceForAll
  /\ DirectoryOutlives /\ StandingIsListed /\ CachesBounded /\ ChartIsOwn /\ NothingStale
  /\ ReadingHasChart
\* What a step may never do: charge for a closed request, take back an
\* answer, undo a suspension by a login, or erase an account that was
\* restored or not yet due.
NothingIsTakenBack ==
  /\ AnswerStands /\ SuspendedStays /\ ErasedAfterGrace /\ RestoredIsNotErased
  /\ ClosedStaysFree
================
