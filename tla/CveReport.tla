----------------------------- MODULE CveReport -----------------------------
(***************************************************************************)
(* "pro cves", "pro cve" and u.pro.security.cves.v1: which published       *)
(* issues affect the installed packages.                                   *)
(*                                                                         *)
(* Four files in the vulnerability cache belong together and are written   *)
(* one after the other, without a lock: the downloaded data, the entity    *)
(* tag of that data, the time of the dpkg database the result was made     *)
(* from, and the result.  A run whose data is unchanged and whose dpkg     *)
(* database is not newer than the recorded time answers from the result    *)
(* file.  One binary package and one issue stand for all of them.          *)
(***************************************************************************)
EXTENDS Naturals

CONSTANTS
  Facts,        \* Facts[d]: what dataset d says of the package and the issue
  Versions,     \* the source versions that build the binary package
  CveRuns       \* the processes that may ask

CONSTANT None  \* no file, no version, no dataset

ASSUME FactsAssumption ==
  /\ Versions \subseteq Nat
  /\ None \notin Nat /\ None \notin DOMAIN Facts
  /\ Facts \in [DOMAIN Facts ->
       [source_fixed : Nat \cup {None}, status : STRING,
        listed : BOOLEAN, bin_fixed : Nat \cup {None}]]
  /\ \A d \in DOMAIN Facts :
       Facts[d].bin_fixed # Facts[d].source_fixed =>
         Facts[d].bin_fixed = None /\ Facts[d].source_fixed \notin Versions

Datasets == DOMAIN Facts

VARIABLES
  served,     \* the dataset behind the URL of this machine
  dpkg,       \* installed version; each upgrade also makes the database newer
  cache,      \* the four files
  runs,       \* per process: where it is and what it holds
  window      \* history: a run was disturbed where its answer can go wrong

cveVars == <<served, dpkg, cache, runs, window>>

Verdicts == {"not affected", "no fix", "unknown fix", "fixable"}
Options == {"all", "fixable", "unfixable"}
Result == [data : Datasets, dpkg : Versions,
           verdict : Verdicts]

Saving == {"save data", "save etag", "query", "save date", "save result"}
Busy == {"fetch", "read data", "check", "publish date", "save date's data",
         "save date's etag", "read result", "answer"} \cup Saving
Labels == {"idle", "answered", "failed"} \cup Busy

CveTypeOK ==
  /\ served \in Datasets
  /\ dpkg \in Versions
  /\ cache \in [data : Datasets \cup {None}, etag : Datasets \cup {None},
                date : Versions \cup {None},
                result : Result \cup {None}]
  /\ runs \in [CveRuns ->
       [at : Labels, root : BOOLEAN, option : Options, fresh : BOOLEAN,
        etag : Datasets \cup {None}, data : Datasets \cup {None},
        saw : Datasets \cup {None}, dated : Datasets \cup {None},
        result : Result \cup {None}, since : Versions \cup {None}]]
  /\ window \in BOOLEAN

-----------------------------------------------------------------------------
(* The classification of one package under one issue.                      *)

\* is_vulnerability_not_fixable: no fix has been published
NotFixable(f) == f.source_fixed = None /\ f.status # "not-vulnerable"

\* is_vulnerability_valid_but_not_fixable: the fixed source builds no such
\* binary package, and the installed one is not from a later source
ValidButNotFixable(f, v) == f.bin_fixed = None /\ ~(v > f.source_fixed)

\* vulnerability_affects_system
AffectsSystem(f, v) == f.bin_fixed # None /\ f.bin_fixed > v

\* get_vulnerabilities_for_installed_pkgs; a source version the data does
\* not list is skipped (KeyError)
Classify(f, v) ==
  CASE NotFixable(f)                                 -> "no fix"
    [] ~NotFixable(f) /\ f.source_fixed = None  -> "not affected"
    [] f.source_fixed # None /\ ~f.listed       -> "not affected"
    [] f.source_fixed # None /\ f.listed /\ ValidButNotFixable(f, v)
                                                     -> "unknown fix"
    [] f.source_fixed # None /\ f.listed /\ AffectsSystem(f, v)
                                                     -> "fixable"
    [] OTHER                                         -> "not affected"

\* cve_status_match_options and _parse_vulnerabilities
Shown(option, verdict) ==
  /\ verdict # "not affected"
  /\ option = "fixable" => verdict = "fixable"
  /\ option = "unfixable" => verdict # "fixable"

-----------------------------------------------------------------------------
(* A run.                                                                  *)

Run(r, l) == runs[r].at = l
Step(r, l, f) == runs' = [runs EXCEPT ![r] = [f EXCEPT !.at = l]]
Goto(r, l) == Step(r, l, runs[r])
Working == {r \in CveRuns : runs[r].at \in Busy}

Fresh == [at |-> "idle", root |-> FALSE, option |-> "all", fresh |-> FALSE,
          etag |-> None, data |-> None, saw |-> None,
          dated |-> None, result |-> None, since |-> None]

CveInit ==
  /\ served \in Datasets
  /\ dpkg \in Versions
  /\ cache = [data |-> None, etag |-> None, date |-> None,
              result |-> None]
  /\ runs = [r \in CveRuns |-> Fresh]
  /\ window = FALSE

\* A run beside one that saves is one of the windows.
StartCves(r) ==
  /\ runs[r].at \in {"idle", "answered", "failed"}
  /\ \E root \in BOOLEAN :
       /\ Step(r, "fetch", [Fresh EXCEPT !.root = root, !.since = dpkg])
       /\ window' = (window \/ \E q \in Working : root \/ runs[q].root)
  /\ UNCHANGED <<served, dpkg, cache>>

\* Mutant: the tag is written, and the data only kept in memory.
FetchTagOnly(r) ==
  /\ Run(r, "fetch")
  /\ IF cache.etag = served
     THEN Step(r, "read data", [runs[r] EXCEPT !.etag = cache.etag,
                                               !.saw = served])
     ELSE Step(r, IF runs[r].root THEN "save etag" ELSE "query",
               [runs[r] EXCEPT !.saw = served, !.data = served, !.dated = served,
                               !.fresh = TRUE])
  /\ UNCHANGED <<served, dpkg, cache, window>>

\* VulnerabilityData.get: the request carries the tag on disk
Fetch(r) ==
  /\ Run(r, "fetch")
  /\ IF cache.etag = served
     THEN Step(r, "read data", [runs[r] EXCEPT !.etag = cache.etag,
                                               !.saw = served])
     ELSE Step(r, IF runs[r].root THEN "save data" ELSE "query",
               [runs[r] EXCEPT !.saw = served, !.data = served, !.dated = served,
                               !.fresh = TRUE])
  /\ UNCHANGED <<served, dpkg, cache, window>>

\* no answer, 404, or an unreadable archive
FetchFails(r) ==
  /\ runs[r].at \in {"fetch", "publish date"}
  /\ Step(r, "failed", Fresh)
  /\ UNCHANGED <<served, dpkg, cache, window>>

\* _get_cache_data
ReadData(r) ==
  /\ Run(r, "read data")
  /\ Step(r, "check", [runs[r] EXCEPT !.data = cache.data])
  /\ UNCHANGED <<served, dpkg, cache, window>>

\* _save_cache_data, also for the second download of get_published_date
SaveData(r) ==
  /\ \/ Run(r, "save data") /\ cache' = [cache EXCEPT !.data = runs[r].data]
                            /\ Goto(r, "save etag")
     \/ Run(r, "save date's data")
                            /\ cache' = [cache EXCEPT !.data = runs[r].dated]
                            /\ Goto(r, "save date's etag")
  /\ UNCHANGED <<served, dpkg, window>>

\* _save_etag_cache
SaveEtag(r) ==
  /\ \/ Run(r, "save etag") /\ cache' = [cache EXCEPT !.etag = runs[r].data]
                            /\ Goto(r, "query")
     \/ Run(r, "save date's etag")
                            /\ cache' = [cache EXCEPT !.etag = runs[r].dated]
                            /\ Goto(r, "read result")
  /\ UNCHANGED <<served, dpkg, window>>

\* the answer came without a tag: the one on disk stays, of older data
SkipEtag(r) ==
  /\ \/ Run(r, "save etag") /\ Goto(r, "query")
     \/ Run(r, "save date's etag") /\ Goto(r, "read result")
  /\ window' = (window \/ cache.etag # None)
  /\ UNCHANGED <<served, dpkg, cache>>

\* Mutant: a result is good as long as the data is unchanged.
CacheValidForData == cache.result # None /\ cache.date # None

\* _is_cache_result_valid, asked only when the data is unchanged
CacheValid ==
  /\ cache.result # None
  /\ cache.date # None
  /\ ~(dpkg > cache.date)

Check(r) ==
  /\ Run(r, "check")
  /\ Goto(r, IF CacheValid THEN "publish date" ELSE "query")
  /\ UNCHANGED <<served, dpkg, cache, window>>

\* get_published_date calls get() again, with the tag the object remembers
PublishedDate(r) ==
  /\ Run(r, "publish date")
  /\ IF runs[r].etag = served
     THEN Step(r, "read result", [runs[r] EXCEPT !.dated = cache.data])
     ELSE Step(r, IF runs[r].root THEN "save date's data" ELSE "read result",
               [runs[r] EXCEPT !.dated = served])
  /\ UNCHANGED <<served, dpkg, cache, window>>

\* get_result_cache
ReadResult(r) ==
  /\ Run(r, "read result")
  /\ Step(r, "answer", [runs[r] EXCEPT !.result = cache.result])
  /\ UNCHANGED <<served, dpkg, cache, window>>

\* query_installed_source_pkg_versions and the parser
Query(r) ==
  /\ Run(r, "query")
  /\ LET d == runs[r].data IN
     Step(r, IF runs[r].root THEN "save date" ELSE "answer",
          [runs[r] EXCEPT !.dated = d,
             !.result = [data |-> d, dpkg |-> dpkg,
                         verdict |-> Classify(Facts[d], dpkg)]])
  /\ UNCHANGED <<served, dpkg, cache, window>>

\* save_result_cache: the time of the dpkg database as it is now, then the
\* result
SaveDate(r) ==
  /\ Run(r, "save date")
  /\ cache' = [cache EXCEPT !.date = dpkg]
  /\ Goto(r, "save result")
  /\ UNCHANGED <<served, dpkg, window>>

SaveResult(r) ==
  /\ Run(r, "save result")
  /\ cache' = [cache EXCEPT !.result = runs[r].result]
  /\ Goto(r, "answer")
  /\ UNCHANGED <<served, dpkg, window>>

\* _cves and _parse_vulnerabilities: the options only choose what is listed
Answer(r) ==
  /\ Run(r, "answer")
  /\ \E option \in Options :
       Step(r, "answered", [Fresh EXCEPT !.option = option,
              !.saw = runs[r].saw, !.dated = runs[r].dated,
              !.since = runs[r].since, !.result = runs[r].result])
  /\ UNCHANGED <<served, dpkg, cache, window>>

\* Killed: only what is on disk stays.  With the data saved and its tag not,
\* the old tag may come to be served again; with the tag saved and the result
\* not, the next run takes the old result for the new data's.
Killed(r) ==
  /\ runs[r].at \in Busy
  /\ runs' = [runs EXCEPT ![r] = Fresh]
  /\ window' = (window \/ /\ runs[r].root
                          /\ \/ runs[r].at \in {"save etag", "save result",
                                              "save date's etag"}
                             \/ runs[r].fresh /\
                                runs[r].at \in {"query", "save date"})
  /\ UNCHANGED <<served, dpkg, cache>>

\* new data, or the data of another variant of the release (FIPS); between
\* the two downloads of one run it is a window
Publish ==
  /\ \E d \in Datasets \ {served} : served' = d
  /\ window' = (window \/ \E r \in CveRuns :
                   runs[r].at \in {"read data", "check", "publish date"})
  /\ UNCHANGED <<dpkg, cache, runs>>

\* dpkg upgrades the package; between the query and the date it is a window
UpgradePackage ==
  /\ \E v \in Versions : v > dpkg /\ dpkg' = v
  /\ window' = (window \/ \E r \in CveRuns : runs[r].at = "save date")
  /\ UNCHANGED <<served, cache, runs>>

CveNext ==
  \/ \E r \in CveRuns :
       \/ StartCves(r) \/ Fetch(r) \/ FetchFails(r) \/ ReadData(r)
       \/ SaveData(r) \/ SaveEtag(r) \/ SkipEtag(r) \/ Check(r)
       \/ PublishedDate(r) \/ ReadResult(r) \/ Query(r) \/ SaveDate(r) \/ SaveResult(r)
       \/ Answer(r) \/ Killed(r)
  \/ Publish
  \/ UpgradePackage

CveSpec == CveInit /\ [][CveNext]_cveVars

-----------------------------------------------------------------------------
(* Properties.                                                             *)

\* What the data means, independent of how the parser reads it.
Affected(f, v) ==
  \/ f.source_fixed = None /\ f.status # "not-vulnerable"
  \/ f.source_fixed # None /\ f.listed /\ v < f.source_fixed

\* Apart from five windows - a kill between the data and the result, new data
\* without a tag of its own, new data between the two downloads of one run, an
\* upgrade between the query and the recorded time, a run beside one that saves -
\* an answer is about the data that
\* was served to the run and whose date it bears, and about packages as they
\* were during the run, and the issue is listed exactly when the package is
\* affected.  The tag on disk never names other data than the file beside it,
\* unless a run is just replacing both: a run told "unchanged" reads what is
\* unchanged.  (get_vulnerabilities, VulnerabilityResultCache, VulnerabilityData)
AnswersAreCurrent ==
  ~window =>
    /\ \A r \in CveRuns :
         runs[r].at = "answered" =>
           LET a == runs[r].result
               f == Facts[a.data] IN
           /\ a.data = runs[r].dated /\ a.data = runs[r].saw
           /\ a.dpkg >= runs[r].since
           /\ Shown(runs[r].option, a.verdict) <=>
                /\ Affected(f, a.dpkg)
                /\ runs[r].option = "fixable" => f.bin_fixed # None
                /\ runs[r].option = "unfixable" => f.bin_fixed = None
    /\ \/ cache.etag \in {None, cache.data}
       \/ \E r \in CveRuns : runs[r].root /\ runs[r].at \in {"save etag", "save date's etag"}
=============================================================================
