----------------------------- MODULE LocationSync -----------------------------
(***************************************************************************)
(* The location catalogue: jobs that import it from the shared Location    *)
(* Service, in a goroutine of the process that was asked, and readers that *)
(* go through a cache in Redis and import what the table does not have.    *)
(* The catalogue is a sequence of lists, each imported and cached on its   *)
(* own: one step is one statement, request or command.                     *)
(***************************************************************************)
EXTENDS Naturals, FiniteSets

CONSTANTS
    Processes,      \* server processes
    Jobs,           \* identities of jobs
    Lists,          \* 1..n: the lists of the catalogue, in the order of syncAll
    Versions,       \* 1..n: what a list may be in the Location Service; 0 is no rows
    Requests,       \* requests in progress at one time
    MaxFaults,      \* bound of the model: crashes and failed calls
    Nil

VARIABLES
    job,            \* the status in each job's row, or Nil
    worker,         \* the request that creates each job, then its goroutine, or Nil
    up,             \* processes that run
    syncing,        \* LocationService.syncing of each process
    table,          \* the state each list was last imported in
    cache,          \* the list under each key, or Nil
    req,            \* what each request has read, or Nil
    faults,         \* crashes and failed calls so far
    stuck,          \* whether the status of a job could not be read or written
    overtaken       \* whether a list was cached that had been imported anew, or a
                    \* key was not deleted

rows == <<job, table>>
ghosts == <<stuck, overtaken>>
vars == <<rows, worker, up, syncing, cache, req, faults, ghosts>>

All == 0
Levels == Lists \union {All}
Active == {"queued", "running"}

Status == Active \union {"completed", "failed"}
Worker == [ process : Processes, level : Levels, list : Lists,
            at : {"create", "start", "run", "import", "forget", "progress", "sweep",
                  "complete", "fail", "refuse"} ]
Request == [ process : Processes, at : {"list", "import", "set"},
             list : Lists, got : Versions \union {0}, stale : BOOLEAN ]

LocationAssumption ==
    /\ Lists = 1..Cardinality(Lists) /\ Versions = 1..Cardinality(Versions)
    /\ IsFiniteSet(Lists) /\ Lists # {} /\ IsFiniteSet(Versions) /\ Versions # {}
    /\ Nil \notin Nat \union Status \union Worker \union Request
    /\ MaxFaults \in Nat

-----------------------------------------------------------------------------
Fault == faults < MaxFaults /\ faults' = faults + 1

Begin(r, p, at, list) ==
    /\ p \in up /\ req[r] = Nil
    /\ req' = [ req EXCEPT ![r] = [ process |-> p, at |-> at, list |-> list,
                                    got |-> 0, stale |-> FALSE ] ]
At(r, at) == req[r] # Nil /\ req[r].at = at
Finish(r) == req' = [ req EXCEPT ![r] = Nil ]

Working(j, at) == worker[j] # Nil /\ worker[j].at = at
Go(j, at) == worker' = [ worker EXCEPT ![j].at = at ]

SetStatus(j, status) == job' = [ job EXCEPT ![j] = status ]

\* The goroutine returns, and with its deferred call lets go of syncing.
Return(j) ==
    /\ worker' = [ worker EXCEPT ![j] = Nil ]
    /\ syncing' = [ syncing EXCEPT ![worker[j].process] = FALSE ]

\* Lists that requests have read and not yet cached are stale once imported anew.
Overtaken(list, version) ==
    [ r \in Requests |-> IF req[r] = Nil THEN Nil ELSE
        [ req[r] EXCEPT !.stale = @ \/ (req[r].list = list /\ version # table[list]) ] ]

Upsert(list, version) ==
    /\ table' = [ table EXCEPT ![list] = version ]
    /\ req' = Overtaken(list, version)

-----------------------------------------------------------------------------
(* StartSync *)

ActiveJobs == { j \in Jobs : job[j] \in Active }

\* Jobs that have ended are forgotten.
StartSync(j, p, level) ==
    /\ ActiveJobs = {} /\ p \in up /\ worker[j] = Nil
    /\ worker' = [ worker EXCEPT ![j] = [ process |-> p, at |-> "create", level |-> level,
                                         list |-> IF level = All THEN 1 ELSE level ] ]
    /\ UNCHANGED <<rows, up, syncing, cache, req, faults, ghosts>>

CreateSyncJob(j) ==
    /\ Working(j, "create")
    /\ \/ SetStatus(j, "queued") /\ Go(j, "start") /\ UNCHANGED faults
       \/ Fault /\ worker' = [ worker EXCEPT ![j] = Nil ] /\ UNCHANGED job
    /\ UNCHANGED <<table, up, syncing, cache, req, ghosts>>

-----------------------------------------------------------------------------
(* runSyncJob *)

CompareAndSwap(j) ==
    /\ Working(j, "start")
    /\ LET p == worker[j].process
       IN  IF syncing[p] THEN Go(j, "refuse") /\ UNCHANGED syncing
           ELSE Go(j, "run") /\ syncing' = [ syncing EXCEPT ![p] = TRUE ]
    /\ UNCHANGED <<rows, up, cache, req, faults, ghosts>>

\* The row is read and saved; a job for which that fails is left as it is.  The
\* first report of progress saves the same status again, and is left out.
MarkRunning(j) ==
    /\ Working(j, "run")
    /\ \/ SetStatus(j, "running") /\ Go(j, "import") /\ UNCHANGED <<syncing, faults, stuck>>
       \/ Fault /\ Return(j) /\ stuck' = TRUE /\ UNCHANGED job
    /\ UNCHANGED <<table, up, cache, req, overtaken>>

\* A list is fetched and its rows are upserted. What the Location Service answers,
\* and when, is anything, so the answer is chosen when it is written.
Import(j) ==
    LET list == worker[j].list
    IN  /\ Working(j, "import")
        /\ \/ /\ \E version \in Versions : Upsert(list, version)
              /\ Go(j, "forget") /\ UNCHANGED faults
           \/ Fault /\ Go(j, "fail") /\ UNCHANGED <<table, req>>
        /\ UNCHANGED <<job, up, syncing, cache, ghosts>>

\* Seeded fault: the key of the list is left to its time to live.
Kept(list) == cache[list]

Deleted(list) == Nil

\* DeleteKeys only logs an error.
DeleteKey(j) ==
    LET list == worker[j].list
    IN  /\ Working(j, "forget")
        /\ \/ cache' = [ cache EXCEPT ![list] = Deleted(list) ] /\ UNCHANGED <<faults, overtaken>>
           \/ Fault /\ overtaken' = TRUE /\ UNCHANGED cache
        /\ Go(j, IF worker[j].level = All THEN "progress" ELSE "complete")
        /\ UNCHANGED <<rows, up, syncing, req, stuck>>

\* The whole row is saved with its progress; an error is only logged.
Progress(j) ==
    LET list == worker[j].list
    IN  /\ Working(j, "progress")
        /\ \/ SetStatus(j, "running") /\ UNCHANGED faults
           \/ Fault /\ UNCHANGED job
        /\ worker' = IF list + 1 \in Lists
                     THEN [ worker EXCEPT ![j].at = "import", ![j].list = list + 1 ]
                     ELSE [ worker EXCEPT ![j].at = "sweep" ]
        /\ UNCHANGED <<table, up, syncing, cache, req, ghosts>>

DeletePrefix(j) ==
    /\ Working(j, "sweep")
    /\ \/ cache' = [ list \in Lists |-> Nil ] /\ UNCHANGED faults
       \/ Fault /\ UNCHANGED cache
    /\ Go(j, "complete")
    /\ UNCHANGED <<rows, up, syncing, req, ghosts>>

Complete(j) ==
    /\ Working(j, "complete")
    /\ \/ SetStatus(j, "completed") /\ UNCHANGED <<faults, stuck>>
       \/ Fault /\ stuck' = TRUE /\ UNCHANGED job
    /\ Return(j)
    /\ UNCHANGED <<table, up, cache, req, overtaken>>

\* Seeded fault: a job that was refused lets go of syncing as well.
ReturnRefused(j) == Return(j)

Refuse(j) ==
    /\ worker' = [ worker EXCEPT ![j] = Nil ]
    /\ UNCHANGED syncing

MarkFailed(j) ==
    /\ \/ Working(j, "fail") /\ Return(j)
       \/ Working(j, "refuse") /\ Refuse(j)
    /\ \/ SetStatus(j, "failed") /\ UNCHANGED <<faults, stuck>>
       \/ Fault /\ stuck' = TRUE /\ UNCHANGED job
    /\ UNCHANGED <<table, up, cache, req, overtaken>>

-----------------------------------------------------------------------------
(* GetProvince, GetCity, GetDistrict and GetVillage, when the cache has no answer *)

Get(r, p, list) ==
    /\ cache[list] = Nil
    /\ Begin(r, p, "list", list)
    /\ UNCHANGED <<rows, worker, up, syncing, cache, faults, ghosts>>

ListRows(r) ==
    /\ At(r, "list")
    /\ LET got == table[req[r].list]
       IN  req' = [ req EXCEPT ![r].got = got, ![r].stale = FALSE,
                               ![r].at = IF got = 0 THEN "import" ELSE "set" ]
    /\ UNCHANGED <<rows, worker, up, syncing, cache, faults, ghosts>>

ImportRows(r) ==
    /\ At(r, "import")
    /\ \E version \in Versions :
         /\ table' = [ table EXCEPT ![req[r].list] = version ]
         /\ req' = [ Overtaken(req[r].list, version) EXCEPT
                      ![r].at = "set", ![r].got = version, ![r].stale = FALSE ]
    /\ UNCHANGED <<job, worker, up, syncing, cache, faults, ghosts>>

Set(r) ==
    /\ At(r, "set")
    /\ cache' = [ cache EXCEPT ![req[r].list] = req[r].got ]
    /\ overtaken' = (overtaken \/ req[r].stale)
    /\ Finish(r)
    /\ UNCHANGED <<rows, worker, up, syncing, faults, stuck>>

\* A call fails.
Fail(r) ==
    /\ req[r] # Nil
    /\ Fault /\ Finish(r)
    /\ overtaken' = (overtaken \/ At(r, "set"))
    /\ UNCHANGED <<rows, worker, up, syncing, cache, stuck>>

-----------------------------------------------------------------------------
Crash(p) ==
    /\ p \in up /\ Fault
    /\ up' = up \ {p}
    /\ worker' = [ j \in Jobs |-> IF worker[j] # Nil /\ worker[j].process = p
                                  THEN Nil ELSE worker[j] ]
    /\ req' = [ r \in Requests |-> IF req[r] # Nil /\ req[r].process = p
                                   THEN Nil ELSE req[r] ]
    /\ syncing' = [ syncing EXCEPT ![p] = FALSE ]
    /\ overtaken' = (overtaken \/ (\E j \in Jobs : worker'[j] = Nil /\ Working(j, "forget"))
                               \/ (\E r \in Requests : req'[r] = Nil /\ At(r, "set")))
    /\ UNCHANGED <<rows, cache, stuck>>

\* Seeded fault: jobs that were already running are not looked for.
OnlyQueued == {"queued"}

Interrupted == Active

\* NewLocationService fails the active jobs, whichever process works on them.
Start(p) ==
    /\ p \notin up
    /\ up' = up \union {p}
    /\ \/ /\ job' = [ j \in Jobs |-> IF job[j] \in Interrupted THEN "failed" ELSE job[j] ]
          /\ UNCHANGED <<faults, stuck>>
       \/ Fault /\ stuck' = TRUE /\ UNCHANGED job
    /\ UNCHANGED <<table, worker, syncing, cache, req, overtaken>>

Expire(list) ==
    /\ cache[list] # Nil
    /\ cache' = [ cache EXCEPT ![list] = Nil ]
    /\ UNCHANGED <<rows, worker, up, syncing, req, faults, ghosts>>

-----------------------------------------------------------------------------
Init ==
    /\ job = [ j \in Jobs |-> Nil ] /\ worker = [ j \in Jobs |-> Nil ]
    /\ up = Processes /\ syncing = [ p \in Processes |-> FALSE ]
    /\ table \in [ Lists -> {0, 1} ]
    /\ cache = [ list \in Lists |-> Nil ]
    /\ req = [ r \in Requests |-> Nil ]
    /\ faults = 0 /\ stuck = FALSE /\ overtaken = FALSE

Work(j) ==
    \/ CreateSyncJob(j)
    \/ CompareAndSwap(j)
    \/ MarkRunning(j)
    \/ Import(j)
    \/ DeleteKey(j)
    \/ Progress(j)
    \/ DeletePrefix(j)
    \/ Complete(j)
    \/ MarkFailed(j)

Next ==
    \/ \E j \in Jobs :
         \/ \E p \in Processes, level \in Levels : StartSync(j, p, level)
         \/ Work(j)
    \/ \E r \in Requests :
         \/ \E p \in Processes, list \in Lists : Get(r, p, list)
         \/ ListRows(r)
         \/ ImportRows(r)
         \/ Set(r)
         \/ Fail(r)
    \/ \E p \in Processes : Crash(p) \/ Start(p)
    \/ \E list \in Lists : Expire(list)

Spec == Init /\ [][Next]_vars

-----------------------------------------------------------------------------
(* Properties *)

Importing(j) == worker[j] # Nil /\ worker[j].at \notin {"create", "start", "refuse"}
ImportingIn(p) == { j \in Jobs : Importing(j) /\ worker[j].process = p }

\* Every variable has its type, and however StartSync's check and insertion
\* interleave, a process imports for one job at a time, while syncing says so.
TypeOK ==
    /\ job \in [ Jobs -> Status \union {Nil} ] /\ worker \in [ Jobs -> Worker \union {Nil} ]
    /\ up \subseteq Processes /\ syncing \in [ Processes -> BOOLEAN ]
    /\ \A p \in Processes : Cardinality(ImportingIn(p)) = IF syncing[p] THEN 1 ELSE 0
    /\ table \in [ Lists -> Versions \union {0} ]
    /\ cache \in [ Lists -> Versions \union {Nil} ]
    /\ req \in [ Requests -> Request \union {Nil} ]
    /\ faults \in 0..MaxFaults /\ stuck \in BOOLEAN /\ overtaken \in BOOLEAN

\* A cached list is the one in the table, except between an import and the write to
\* the cache that follows it, or after something was overtaken.
CacheFollowsTable ==
    \A list \in Lists :
        \/ cache[list] \in {Nil, table[list]} \/ overtaken
        \/ \E j \in Jobs : Working(j, "forget") /\ worker[j].list = list
        \/ \E r \in Requests : At(r, "set") /\ req[r].list = list

\* A job that StartSync waits for is worked on, or fails when a process that died
\* starts again: whatever fails and whoever dies, a sync can be started in the end,
\* unless the status of a job could not be read or written.
NobodyWaitsInVain ==
    \A j \in ActiveJobs : worker[j] # Nil \/ up # Processes \/ stuck
===============================================================================
