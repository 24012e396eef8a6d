-------- MODULE Muhurat --------
(***************************************************************************)
(* Lists of auspicious days: the astronomy engine's days for a range, with *)
(* the administrators' days put over them and a verdict for the first      *)
(* ones.  A list is kept in memory for as long as the process lives, and,  *)
(* when the directory of lists asked for it, in a file.                    *)
(***************************************************************************)
EXTENDS Handlers, Sequences

CONSTANTS
  Ranges,    \* a range is a set of days
  Favoured,  \* the days that the engine finds auspicious
  MaxLists, MaxChanges, MaxRestarts, MaxFailures

VARIABLES
  manual,    \* the administrators' days
  standing,  \* those of them that are as old as the process (history)
  memory, file, \* lists kept: at most one for a range
  lists,     \* lists[k]: the k-th list that was made
  told,      \* which list was told for which range, in which life of the process
  plain,     \* a list was made for a request that was not the directory's (history)
  changes, restarts, failures

mvars == <<manual, standing, memory, file, lists, told, plain, changes, restarts, failures, work>>

----------------
Init ==
  /\ manual = {} /\ standing = {} /\ memory = {} /\ file = {} /\ lists = <<>> /\ told = {} /\ plain = FALSE
  /\ changes = 0 /\ restarts = 0 /\ failures = 0 /\ NoHandler

Kept(store, x) == {c \in store : c.range = x}
Keep(store, x, k) == (store \ Kept(store, x)) \cup {[range |-> x, list |-> k]}
Tell(x, k) == told' = told \cup {[range |-> x, list |-> k, life |-> restarts]}

\* A file is read by the directory's requests only, and is then in memory too.
CalculateMuhuratMerged(r, x, directory) ==
  /\ At(r, "idle")
  /\ \/ \E c \in Kept(memory, x) : Tell(x, c.list) /\ UNCHANGED <<memory, work>>
     \/ /\ Kept(memory, x) = {} /\ directory
        /\ \E c \in Kept(file, x) : memory' = Keep(memory, x, c.list) /\ Tell(x, c.list) /\ UNCHANGED work
     \/ /\ Kept(memory, x) = {} /\ (directory => Kept(file, x) = {})
        /\ Begin(r, [pc |-> "days", range |-> x, directory |-> directory]) /\ UNCHANGED <<memory, told>>
  /\ UNCHANGED <<manual, standing, file, lists, plain, changes, restarts, failures>>

ReadDays(r) ==
  /\ At(r, "days")
  /\ work' = [work EXCEPT ![r] = [pc |-> "merge", range |-> @.range, directory |-> @.directory,
                                  manual |-> manual \cap @.range]]
  /\ UNCHANGED <<manual, standing, memory, file, lists, told, plain, changes, restarts, failures>>

\* Fault: an administrator's day only replaces one of the engine's.
MakeListOfFavoured(r) == [range |-> work[r].range, days |-> Favoured \cap work[r].range, life |-> restarts]
\* The first three days get a verdict, which has a text of its own for a
\* model that fails.
MakeList(r) ==
  [range |-> work[r].range, days |-> (Favoured \cap work[r].range) \cup work[r].manual, life |-> restarts]

\* Fault: a list is not kept in memory.
StoreFileOnly(r) ==
  /\ At(r, "merge") /\ Len(lists) < MaxLists
  /\ lists' = Append(lists, MakeList(r)) /\ UNCHANGED <<memory, failures>>
  /\ file' = IF work[r].directory THEN Keep(file, work[r].range, Len(lists) + 1) ELSE file
  /\ plain' = (plain \/ ~work[r].directory) /\ Tell(work[r].range, Len(lists) + 1) /\ Finish(r)
  /\ UNCHANGED <<manual, standing, changes, restarts>>
\* Fault: no list is kept in a file.
StoreMemoryOnly(r) ==
  /\ At(r, "merge") /\ Len(lists) < MaxLists
  /\ lists' = Append(lists, MakeList(r)) /\ memory' = Keep(memory, work[r].range, Len(lists) + 1)
  /\ plain' = (plain \/ ~work[r].directory) /\ Tell(work[r].range, Len(lists) + 1) /\ Finish(r)
  /\ UNCHANGED <<manual, standing, file, changes, restarts, failures>>
\* A file that cannot be written is missing, and that is all.
StoreList(r) ==
  /\ At(r, "merge") /\ Len(lists) < MaxLists
  /\ lists' = Append(lists, MakeList(r)) /\ memory' = Keep(memory, work[r].range, Len(lists) + 1)
  /\ \/ file' = (IF work[r].directory THEN Keep(file, work[r].range, Len(lists) + 1) ELSE file) /\ UNCHANGED failures
     \/ work[r].directory /\ failures < MaxFailures /\ failures' = failures + 1 /\ UNCHANGED file
  /\ plain' = (plain \/ ~work[r].directory) /\ Tell(work[r].range, Len(lists) + 1) /\ Finish(r)
  /\ UNCHANGED <<manual, standing, changes, restarts>>

\* The database or the engine fails; the verdicts have a text of their own for that.
EngineFails(r) ==
  /\ ~At(r, "idle") /\ failures < MaxFailures /\ failures' = failures + 1 /\ Finish(r)
  /\ UNCHANGED <<manual, standing, memory, file, lists, told, plain, changes, restarts>>

ChangeDay(d) ==
  /\ changes < MaxChanges /\ changes' = changes + 1
  /\ manual' = IF d \in manual THEN manual \ {d} ELSE manual \cup {d}
  /\ standing' = standing \ {d}
  /\ UNCHANGED <<memory, file, lists, told, plain, restarts, failures, work>>

Restart ==
  /\ restarts < MaxRestarts /\ restarts' = restarts + 1 /\ memory' = {} /\ work' = [r \in Slots |-> Idle]
  /\ standing' = manual /\ UNCHANGED <<manual, file, lists, told, plain, changes, failures>>

Next ==
  \/ \E r \in Slots, x \in Ranges, directory \in BOOLEAN : CalculateMuhuratMerged(r, x, directory)
  \/ \E r \in Slots : ReadDays(r) \/ StoreList(r) \/ EngineFails(r)
  \/ \E d \in UNION Ranges : ChangeDay(d)
  \/ Restart

Spec == Init /\ [][Next]_mvars

----------------
TypeOK ==
  /\ standing \subseteq manual /\ manual \subseteq UNION Ranges /\ plain \in BOOLEAN
  /\ \A c \in memory \cup file : c.range \in Ranges /\ c.list \in DOMAIN lists
  /\ \A x \in Ranges : Cardinality(Kept(memory, x)) <= 1 /\ Cardinality(Kept(file, x)) <= 1
  /\ {changes, restarts, failures} \subseteq Nat /\ DOMAIN work = Slots

\* One request at a time, a range is told the same list for as long as the
\* process lives.
ToldOnceForAll ==
  OneAtATime => \A a, b \in told : (a.range = b.range /\ a.life = b.life) => a.list = b.list

\* A list of the directory outlives restarts, as long as only the directory
\* asks and its files can be written.
DirectoryOutlives ==
  (OneAtATime /\ ~plain /\ failures = 0) => \A a, b \in told : a.range = b.range => a.list = b.list

\* A day that an administrator entered before the process started, and has
\* left since, is in every list that the process has made for its range.
StandingIsListed ==
  \A k \in DOMAIN lists : lists[k].life = restarts => standing \cap lists[k].range \subseteq lists[k].days
================
