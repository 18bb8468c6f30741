------------------------------ MODULE GithubSync ------------------------------
(***************************************************************************)
(* Watching one GitHub repository (packages/db/src/github.ts and, of the   *)
(* collectors, github/runner.py and infrastructure/github_postgres.py).    *)
(* Companies attach the repository with the paths they watch; an operator  *)
(* asks for a sync; a worker reads the repository's row, opens a run, asks *)
(* GitHub for the head and the files changed since the commit processed    *)
(* last, and records what it parsed.  A worker whose lease expired goes on *)
(* beside the one that retries its item.                                   *)
(*                                                                         *)
(* The branch is linear: commit 0 adds every file, commit n the files of   *)
(* changed[n].  Of a parsed file its version is kept: the last commit that *)
(* changed it.  The ledger's part is the lease of the one active item; its *)
(* retries are WorkLedger's.  Removed files, the rate limit and the        *)
(* schedule, which is inserted disabled, are left out.                     *)
(***************************************************************************)
EXTENDS ApiRequests, Naturals, FiniteSets

CONSTANTS
  Companies,
  Files,     \* those with a suffix the parsers know
  Folders,   \* the lists of watched paths, as the files below them
  Workers,
  MaxHead,   \* bound: the last commit
  MaxFiles   \* max_files_per_sync

ASSUME GithubAssumption ==
  /\ MaxHead \in Nat /\ MaxFiles \in Nat
  /\ Folders \subseteq SUBSET Files
  /\ Null \notin Companies \cup Workers \cup Nat

(* "ORPHAN" is no worker's name: see run. *)
ASSUME WorkerNameAssumption == "ORPHAN" \notin Workers

VARIABLES
  head,      \* of the branch, on GitHub
  changed,   \* the files of each commit
  links,     \* github_repository_company_links
  watching,  \* github_repositories.enabled
  processed, \* last_processed_commit_sha
  seen,      \* last_seen_commit_sha
  parsed,  \* the version of each file the stored records are from
  asked,   \* the newest github_sync_requests row
  lease,     \* of the active work item: "READY", a worker, or Null
  run,       \* whose collector_runs row is RUNNING; "ORPHAN" after its attempt was closed
  syncs,     \* the local variables of GitHubSyncRunner.run
  steady     \* history: the files watched whenever a sync looked

repovars == <<head, changed, links, watching>>
githubvars ==
  <<head, changed, links, watching, processed, seen, parsed, asked, lease, run, syncs, steady>>

Commits == 0..MaxHead
NoSync == [at |-> "IDLE", previous |-> Null, files |-> {}, current |-> Null]

GithubTypeOK ==
  /\ head \in Commits
  /\ changed \in [Commits -> SUBSET Files]
  /\ links \in [Companies -> {Null} \cup [paths : Folders, enabled : BOOLEAN]]
  /\ watching \in BOOLEAN
  /\ processed \in Commits \cup {Null}
  /\ seen \in Commits \cup {Null}
  /\ processed # Null => seen # Null
  /\ parsed \in [Files -> Commits \cup {Null}]
  /\ asked \in {"NONE", "PENDING", "RUNNING", "SUCCEEDED", "FAILED"}
  /\ lease \in {Null, "READY"} \cup Workers
  /\ run \in Workers \cup {Null, "ORPHAN"}
  /\ syncs \in [Workers -> [at : {"IDLE", "READ", "OPEN", "LOOKED", "DONE", "FAILED"},
                            previous : Commits \cup {Null}, files : SUBSET Files,
                            current : Commits \cup {Null}]]
  /\ steady \subseteq Files

GithubInit ==
  /\ head = 0 /\ changed = [n \in Commits |-> IF n = 0 THEN Files ELSE {}]
  /\ links = [c \in Companies |-> Null] /\ watching = FALSE
  /\ processed = Null /\ seen = Null
  /\ parsed = [f \in Files |-> Null]
  /\ asked = "NONE" /\ lease = Null /\ run = Null
  /\ syncs = [w \in Workers |-> NoSync]
  /\ steady = {}

-----------------------------------------------------------------------------
(* GitHubRepositoryConfig.watched_paths and _is_watched: the union over the *)
(* enabled links, and everything when it is empty.                         *)
Enabled(table) == {c \in Companies : table[c] # Null /\ table[c].enabled}

WatchedFiles(table) ==
  LET paths == UNION {table[c].paths : c \in Enabled(table)}
  IN IF paths = {} THEN Files ELSE paths

ChangedIn(from, to) == UNION {changed[n] : n \in (from + 1)..to}

VersionAt(f, commit) ==
  CHOOSE n \in 0..commit : f \in changed[n] /\ f \notin ChangedIn(n, commit)

(* _relevant_paths: the changes since the last commit processed, or the     *)
(* whole tree the first time and when GitHub's comparison is incomplete.   *)
Relevant(sync, complete) ==
  IF sync.previous # Null /\ complete
  THEN sync.files \cap ChangedIn(sync.previous, sync.current)
  ELSE sync.files

-----------------------------------------------------------------------------
Commit(files) ==
  /\ head < MaxHead
  /\ head' = head + 1
  /\ changed' = [changed EXCEPT ![head + 1] = files]
  /\ UNCHANGED <<links, watching, processed, seen, parsed, asked, lease, run, syncs, steady>>

(* attachCompanyGitHubRepository: the flag is the link's and the            *)
(* repository's, also where other companies attached it.                   *)
Attach(c, paths, enabled) ==
  /\ links' = [links EXCEPT ![c] = [paths |-> paths, enabled |-> enabled]]
  /\ watching' = enabled
  /\ steady' = IF processed = Null /\ \A w \in Workers : syncs[w].at = "IDLE"
               THEN WatchedFiles(links') ELSE steady \cap WatchedFiles(links')
  /\ UNCHANGED <<head, changed, processed, seen, parsed, asked, lease, run, syncs>>

(* enqueueGitHubSync: an active request is returned as it is; a settled one *)
(* whose item is still active makes the trigger's insert, and with it the   *)
(* transaction, fail.                                                      *)
EnqueueSync ==
  /\ watching
  /\ asked \notin {"PENDING", "RUNNING"} /\ lease = Null
  /\ asked' = "PENDING" /\ lease' = "READY"
  /\ UNCHANGED <<repovars, processed, seen, parsed, run, syncs, steady>>

-----------------------------------------------------------------------------
(* The worker.                                                             *)

(* The worker claims the item and reads, before there is a run, the         *)
(* repository (get_repository).                                            *)
Take(w) ==
  /\ lease = "READY" /\ syncs[w].at = "IDLE"
  /\ lease' = w
  /\ syncs' = [syncs EXCEPT ![w] =
       IF watching /\ Enabled(links) # {}
       THEN [NoSync EXCEPT !.at = "READ", !.previous = processed, !.files = WatchedFiles(links)]
       ELSE [NoSync EXCEPT !.at = "FAILED"]]
  /\ UNCHANGED <<repovars, processed, seen, parsed, asked, run, steady>>

(* create_sync_run: the request must be PENDING, and a source has one       *)
(* running run (collector_runs_one_running_per_source_idx).                *)
CreateSyncRun(w) ==
  /\ syncs[w].at = "READ"
  /\ IF asked = "PENDING" /\ run = Null
     THEN /\ asked' = "RUNNING" /\ run' = w
          /\ syncs' = [syncs EXCEPT ![w].at = "OPEN"]
     ELSE /\ syncs' = [syncs EXCEPT ![w].at = "FAILED"]
          /\ UNCHANGED <<asked, run>>
  /\ UNCHANGED <<repovars, processed, seen, parsed, lease, steady>>

(* get_latest_commit_sha: what is fetched later is of this commit. *)
LatestCommit(w) ==
  /\ syncs[w].at = "OPEN"
  /\ syncs' = [syncs EXCEPT ![w].at = "LOOKED", ![w].current = head]
  /\ UNCHANGED <<repovars, processed, seen, parsed, asked, lease, run, steady>>

(* A run whose lease was reaped is FAILED already. *)
AnyRun(w) == syncs[w].at = "LOOKED"
RunActive(w) == run = w

Settled(status) == IF asked = "RUNNING" THEN status ELSE asked

(* complete_unchanged, which does not look at the run's status first *)
CompleteUnchanged(w) ==
  /\ syncs[w].at = "LOOKED" /\ syncs[w].current = syncs[w].previous
  /\ seen' = syncs[w].current
  /\ asked' = Settled("SUCCEEDED")
  /\ run' = IF run = w THEN Null ELSE run
  /\ syncs' = [syncs EXCEPT ![w].at = "DONE"]
  /\ UNCHANGED <<repovars, processed, parsed, lease, steady>>

(* persist_sync *)
PersistSync(w, complete) ==
  /\ syncs[w].at = "LOOKED" /\ syncs[w].current # syncs[w].previous
  /\ RunActive(w)
  /\ LET paths == Relevant(syncs[w], complete) IN
       /\ Cardinality(paths) <= MaxFiles
       /\ parsed' = [f \in Files |->
            IF f \in paths THEN VersionAt(f, syncs[w].current) ELSE parsed[f]]
  /\ processed' = syncs[w].current /\ seen' = syncs[w].current
  /\ asked' = Settled("SUCCEEDED")
  /\ run' = Null
  /\ syncs' = [syncs EXCEPT ![w].at = "DONE"]
  /\ UNCHANGED <<repovars, lease, steady>>

(* A call to GitHub failed, or persist_sync raised: fail_sync.             *)
FailSync(w) ==
  /\ syncs[w].at \in {"OPEN", "LOOKED"}
  /\ asked' = Settled("FAILED")
  /\ run' = IF run = w THEN Null ELSE run
  /\ syncs' = [syncs EXCEPT ![w].at = "FAILED"]
  /\ UNCHANGED <<repovars, processed, seen, parsed, lease, steady>>

(* A heartbeat that fails cancels the handler, and CancelledError passes    *)
(* `except Exception`: fail_sync is not called.                            *)
HeartbeatFails(w) ==
  /\ syncs[w].at \in {"READ", "OPEN", "LOOKED"} /\ lease = w
  /\ syncs' = [syncs EXCEPT ![w].at = "FAILED"]
  /\ UNCHANGED <<repovars, processed, seen, parsed, asked, lease, run, steady>>

(* A run its worker left RUNNING, which the reaper only finds by the attempt *)
(* of an expired lease.                                                    *)
Orphaned(w) == IF run = w THEN "ORPHAN" ELSE run

(* finish_work_attempt, which a worker without the lease cannot call; a     *)
(* failure may be retried.                                                 *)
FinishAttempt(w, retry) ==
  /\ syncs[w].at \in {"DONE", "FAILED"}
  /\ retry => syncs[w].at = "FAILED"
  /\ IF lease = w
     THEN /\ lease' = IF retry THEN "READY" ELSE Null
          /\ asked' = CASE retry -> "PENDING" [] syncs[w].at = "DONE" -> "SUCCEEDED"
                        [] OTHER -> "FAILED"
     ELSE UNCHANGED <<lease, asked>>
  /\ run' = Orphaned(w)
  /\ syncs' = [syncs EXCEPT ![w] = NoSync]
  /\ UNCHANGED <<repovars, processed, seen, parsed, steady>>

(* reap_expired_work_items: the worker may have died or be slow.           *)
ReapLease(w, retry) ==
  /\ lease = w
  /\ lease' = IF retry THEN "READY" ELSE Null
  /\ asked' = IF retry THEN "PENDING" ELSE "FAILED"
  /\ run' = IF run = w THEN Null ELSE run
  /\ UNCHANGED <<repovars, processed, seen, parsed, syncs, steady>>

Dies(w) ==
  /\ syncs[w].at # "IDLE"
  /\ run' = IF lease = w THEN run ELSE Orphaned(w)
  /\ syncs' = [syncs EXCEPT ![w] = NoSync]
  /\ UNCHANGED <<repovars, processed, seen, parsed, asked, lease, steady>>

GithubNext ==
  \/ \E files \in SUBSET Files \ {{}} : Commit(files)
  \/ \E c \in Companies, paths \in Folders, enabled \in BOOLEAN : Attach(c, paths, enabled)
  \/ EnqueueSync
  \/ \E w \in Workers :
       \/ Take(w) \/ CreateSyncRun(w) \/ LatestCommit(w)
       \/ CompleteUnchanged(w) \/ FailSync(w) \/ HeartbeatFails(w) \/ Dies(w)
       \/ \E complete \in BOOLEAN : PersistSync(w, complete)
       \/ \E retry \in BOOLEAN : FinishAttempt(w, retry) \/ ReapLease(w, retry)

GithubSpec == GithubInit /\ [][GithubNext]_githubvars

-----------------------------------------------------------------------------
(* A file that was watched at every sync is parsed as it was at the       *)
(* commit the repository says it was processed up to: comparing with that   *)
(* commit the next time skips nothing, whatever was retried, interrupted or *)
(* attached in between, and a worker that lost its lease changes nothing.  *)
NothingSkipped ==
  processed # Null => \A f \in steady : parsed[f] = VersionAt(f, processed)
=============================================================================
