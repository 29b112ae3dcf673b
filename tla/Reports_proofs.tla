---------------------------- MODULE Reports_proofs ----------------------------
(* Theorems of the reports: on security issues, on reboots and livepatch, and on packages. *)
EXTENDS CveReport, LivepatchReport, PackageReports, FiniteSetTheorems,
        WellFoundedInduction, TLAPS

-------------------------------------------------------------------------------
(* CveReport, for every data, every range of versions and every number of runs side by side. *)

RunRecords ==
    [at : Labels, root : BOOLEAN, option : Options, fresh : BOOLEAN,
     etag : Datasets \cup {None}, data : Datasets \cup {None},
     saw : Datasets \cup {None}, dated : Datasets \cup {None},
     result : Result \cup {None}, since : Versions \cup {None}]

CacheRecords ==
    [data : Datasets \cup {None}, etag : Datasets \cup {None},
     date : Versions \cup {None}, result : Result \cup {None}]

(* The parser. *)

LEMMA ClassifyIsVerdict == \A f, v : Classify(f, v) \in Verdicts
BY DEF Classify, Verdicts

LEMMA Numbers ==
    /\ Versions \subseteq Nat /\ None \notin Versions /\ None \notin Datasets
    /\ \A d \in Datasets :
         /\ Facts[d].source_fixed \in Nat \cup {None} /\ Facts[d].bin_fixed \in Nat \cup {None}
         /\ Facts[d].listed \in BOOLEAN
         /\ Facts[d].bin_fixed # Facts[d].source_fixed =>
              Facts[d].bin_fixed = None /\ Facts[d].source_fixed \notin Versions
    /\ None \notin Nat
BY FactsAssumption DEF Datasets

\* What is listed under an option is what affects the machine, with or without a fix to
\* install.
LEMMA ClassifyRight ==
    ASSUME NEW d \in Datasets, NEW v \in Versions, NEW option \in Options
    PROVE  Shown(option, Classify(Facts[d], v)) <=>
               /\ Affected(Facts[d], v)
               /\ option = "fixable" => Facts[d].bin_fixed # None
               /\ option = "unfixable" => Facts[d].bin_fixed = None
<1> DEFINE f == Facts[d]
<1>1. /\ f.source_fixed \in Nat \cup {None} /\ f.bin_fixed \in Nat \cup {None}
      /\ f.bin_fixed # f.source_fixed => f.bin_fixed = None /\ f.source_fixed \notin Versions
      /\ v \in Nat /\ v \in Versions /\ None \notin Nat /\ f.listed \in BOOLEAN
  BY Numbers
<1> HIDE DEF f
<1>2. Shown(option, Classify(f, v)) <=>
        /\ Affected(f, v)
        /\ option = "fixable" => f.bin_fixed # None
        /\ option = "unfixable" => f.bin_fixed = None
  <2>1. CASE f.source_fixed = None
    BY <1>1, <2>1 DEF Shown, Classify, Affected, NotFixable
  <2>2. CASE f.source_fixed # None /\ f.bin_fixed = None
    <3>1. f.source_fixed \in Nat /\ v # f.source_fixed
      BY <1>1, <2>2
    <3>2. ~(v > f.source_fixed) <=> v < f.source_fixed
      BY <3>1, <1>1
    <3> QED
      BY <3>1, <3>2, <2>2 DEF Shown, Classify, Affected, NotFixable, ValidButNotFixable,
         AffectsSystem
  <2>3. CASE f.source_fixed # None /\ f.bin_fixed # None
    <3>1. f.source_fixed \in Nat /\ f.bin_fixed = f.source_fixed
      BY <1>1, <2>3
    <3>2. f.bin_fixed > v <=> v < f.source_fixed
      BY <3>1, <1>1
    <3> QED
      BY <3>1, <3>2, <2>3 DEF Shown, Classify, Affected, NotFixable, ValidButNotFixable,
         AffectsSystem
  <2> QED
    BY <2>1, <2>2, <2>3
<1> QED
  BY <1>2 DEF f

-----------------------------------------------------------------------------
(* Types. *)

\* What a run is about to use is there.
InHand ==
    /\ cache.etag # None => cache.data # None
    /\ \A r \in CveRuns :
         /\ runs[r].at \in {"read data", "save etag", "save date's etag"} => cache.data # None
         /\ runs[r].at \in {"check", "publish date", "save data", "save etag", "query"} =>
              runs[r].data # None
         /\ runs[r].at \in {"save date's data", "save date's etag"} => runs[r].dated # None

Typed == CveTypeOK /\ InHand

LEMMA TypedShape ==
    CveTypeOK <=> /\ served \in Datasets /\ dpkg \in Versions /\ cache \in CacheRecords
                  /\ runs \in [CveRuns -> RunRecords] /\ window \in BOOLEAN
BY DEF CveTypeOK, CacheRecords, RunRecords

LEMMA FreshIsRun == Fresh \in RunRecords
BY DEF Fresh, RunRecords, Labels, Options

LEMMA StepSets ==
    ASSUME runs \in [CveRuns -> RunRecords], NEW r \in CveRuns, NEW l \in Labels,
           NEW f \in RunRecords, Step(r, l, f)
    PROVE  /\ runs' \in [CveRuns -> RunRecords]
           /\ runs'[r] = [f EXCEPT !.at = l]
           /\ \A q \in CveRuns \ {r} : runs'[q] = runs[q]
<1>1. [f EXCEPT !.at = l] \in RunRecords
  BY DEF RunRecords
<1> QED
  BY <1>1 DEF Step

LEMMA TypedInit == CveInit => Typed
<1> SUFFICES ASSUME CveInit PROVE Typed
  OBVIOUS
<1>1. cache \in CacheRecords /\ cache.etag = None
  BY DEF CveInit, CacheRecords
<1>2. runs \in [CveRuns -> RunRecords] /\ \A r \in CveRuns : runs[r].at = "idle"
  BY FreshIsRun DEF CveInit, Fresh
<1>3. served \in Datasets /\ dpkg \in Versions /\ window \in BOOLEAN
  BY DEF CveInit
<1> QED
  BY <1>1, <1>2, <1>3, TypedShape DEF Typed, InHand

\* A step of one run, from what it makes of that run's record and of the files.
LEMMA TypedStepOf ==
    ASSUME Typed, NEW r \in CveRuns, NEW l \in Labels, NEW f \in RunRecords, Step(r, l, f),
           served' = served, dpkg' = dpkg, window' \in BOOLEAN,
           cache' \in CacheRecords, cache.data # None => cache'.data # None,
           cache'.etag # None => cache'.data # None,
           l \in {"read data", "save etag", "save date's etag"} => cache'.data # None,
           l \in {"check", "publish date", "save data", "save etag", "query"} => f.data # None,
           l \in {"save date's data", "save date's etag"} => f.dated # None
    PROVE  Typed'
<1>1. /\ runs \in [CveRuns -> RunRecords] /\ served \in Datasets /\ dpkg \in Versions
  BY TypedShape DEF Typed
<1>2. /\ runs' \in [CveRuns -> RunRecords]
      /\ runs'[r] = [f EXCEPT !.at = l]
      /\ \A q \in CveRuns \ {r} : runs'[q] = runs[q]
  BY <1>1, StepSets
<1>3. runs'[r].at = l /\ runs'[r].data = f.data /\ runs'[r].dated = f.dated
  BY <1>2 DEF RunRecords
<1>4. CveTypeOK'
  BY <1>1, <1>2, TypedShape DEF CveTypeOK, CacheRecords, RunRecords
<1>5. InHand'
  BY <1>2, <1>3 DEF Typed, InHand
<1> QED
  BY <1>4, <1>5 DEF Typed

LEMMA TypedStep == Typed /\ [CveNext]_cveVars => Typed'
<1> SUFFICES ASSUME Typed, [CveNext]_cveVars PROVE Typed'
  OBVIOUS
<1>0. /\ served \in Datasets /\ dpkg \in Versions /\ window \in BOOLEAN
      /\ cache \in CacheRecords /\ runs \in [CveRuns -> RunRecords]
  BY TypedShape DEF Typed
<1>a. \A r \in CveRuns : runs[r] \in RunRecords
  BY <1>0
<1>b. served # None
  BY <1>0, Numbers
<1> USE DEF Run, Goto
<1>1. ASSUME NEW r \in CveRuns, StartCves(r) PROVE Typed'
  <2>1. PICK root \in BOOLEAN :
          /\ Step(r, "fetch", [Fresh EXCEPT !.root = root, !.since = dpkg])
          /\ window' = (window \/ \E q \in Working : root \/ runs[q].root)
    BY <1>1 DEF StartCves
  <2>2. [Fresh EXCEPT !.root = root, !.since = dpkg] \in RunRecords
    BY FreshIsRun, <1>0 DEF RunRecords
  <2>3. UNCHANGED <<served, dpkg, cache>> /\ window' \in BOOLEAN
    BY <1>1, <2>1 DEF StartCves
  <2>4. "fetch" \in Labels
    BY DEF Labels, Busy
  <2> QED
    BY <1>0, <2>1, <2>2, <2>3, <2>4, TypedStepOf DEF Typed, InHand
<1>2. ASSUME NEW r \in CveRuns, Fetch(r) PROVE Typed'
  <2>1. CASE cache.etag = served
    <3>1. [runs[r] EXCEPT !.etag = cache.etag, !.saw = served] \in RunRecords
      BY <1>0, <1>a DEF RunRecords, CacheRecords
    <3>2. "read data" \in Labels
      BY DEF Labels, Busy
    <3> QED
      BY <1>0, <1>2, <1>b, <2>1, <3>1, <3>2, TypedStepOf DEF Fetch, Typed, InHand
  <2>2. CASE cache.etag # served
    <3> DEFINE f == [runs[r] EXCEPT !.saw = served, !.data = served, !.dated = served, !.fresh = TRUE]
               l == IF runs[r].root THEN "save data" ELSE "query"
    <3>1. f \in RunRecords /\ f.data = served
      BY <1>0, <1>a DEF RunRecords
    <3>2. l \in Labels /\ l \in {"save data", "query"}
      BY DEF Labels, Busy, Saving
    <3>3. Step(r, l, f) /\ UNCHANGED <<served, dpkg, cache, window>>
      BY <1>2, <2>2 DEF Fetch
    <3> HIDE DEF f, l
    <3> QED
      BY <1>0, <1>b, <3>1, <3>2, <3>3, TypedStepOf DEF Typed, InHand
  <2> QED
    BY <2>1, <2>2
<1>3. ASSUME NEW r \in CveRuns, FetchFails(r) PROVE Typed'
  <2>1. Fresh \in RunRecords
    BY <1>0, <1>a, FreshIsRun DEF RunRecords, CacheRecords
  <2>2. "failed" \in Labels
    BY DEF Labels, Busy, Saving
  <2> QED
    BY <1>0, <1>3, <1>a, <2>1, <2>2, TypedStepOf DEF FetchFails, Typed, InHand, RunRecords
<1>4. ASSUME NEW r \in CveRuns, ReadData(r) PROVE Typed'
  <2>1. [runs[r] EXCEPT !.data = cache.data] \in RunRecords
    BY <1>0, <1>a, FreshIsRun DEF RunRecords, CacheRecords
  <2>2. "check" \in Labels
    BY DEF Labels, Busy, Saving
  <2> QED
    BY <1>0, <1>4, <1>a, <2>1, <2>2, TypedStepOf DEF ReadData, Typed, InHand, RunRecords
<1>5. ASSUME NEW r \in CveRuns, SaveData(r) PROVE Typed'
  <2>1. runs[r] \in RunRecords /\ {"save etag", "save date's etag"} \subseteq Labels
    BY <1>a DEF Labels, Busy, Saving
  <2>2. CASE Run(r, "save data") /\ cache' = [cache EXCEPT !.data = runs[r].data] /\ Goto(r, "save etag")
    <3>1. cache' \in CacheRecords /\ cache'.data = runs[r].data /\ runs[r].data # None
      BY <1>0, <2>1, <2>2 DEF CacheRecords, RunRecords, Typed, InHand
    <3> QED
      BY <1>0, <1>5, <2>1, <2>2, <3>1, TypedStepOf DEF SaveData
  <2>3. CASE /\ Run(r, "save date's data") /\ cache' = [cache EXCEPT !.data = runs[r].dated]
             /\ Goto(r, "save date's etag")
    <3>1. cache' \in CacheRecords /\ cache'.data = runs[r].dated /\ runs[r].dated # None
      BY <1>0, <2>1, <2>3 DEF CacheRecords, RunRecords, Typed, InHand
    <3> QED
      BY <1>0, <1>5, <2>1, <2>3, <3>1, TypedStepOf DEF SaveData
  <2> QED
    BY <1>5, <2>2, <2>3 DEF SaveData
<1>6. ASSUME NEW r \in CveRuns, SaveEtag(r) PROVE Typed'
  <2>1. runs[r] \in RunRecords /\ {"query", "read result"} \subseteq Labels
    BY <1>a DEF Labels, Busy, Saving
  <2>2. CASE Run(r, "save etag") /\ cache' = [cache EXCEPT !.etag = runs[r].data] /\ Goto(r, "query")
    <3>1. cache' \in CacheRecords /\ cache'.data = cache.data
      BY <1>0, <2>1, <2>2 DEF CacheRecords, RunRecords
    <3>2. runs[r].data # None
      BY <2>2 DEF Typed, InHand
    <3>3. cache.data # None
      BY <2>2 DEF Typed, InHand
    <3> QED
      BY <1>0, <1>6, <2>1, <2>2, <3>1, <3>2, <3>3, TypedStepOf DEF SaveEtag
  <2>3. CASE /\ Run(r, "save date's etag") /\ cache' = [cache EXCEPT !.etag = runs[r].dated]
             /\ Goto(r, "read result")
    <3>1. cache' \in CacheRecords /\ cache'.data = cache.data
      BY <1>0, <2>1, <2>3 DEF CacheRecords, RunRecords
    <3>2. cache.data # None
      BY <2>3 DEF Typed, InHand
    <3> QED
      BY <1>0, <1>6, <2>1, <2>3, <3>1, <3>2, TypedStepOf DEF SaveEtag
  <2> QED
    BY <1>6, <2>2, <2>3 DEF SaveEtag
<1>18. ASSUME NEW r \in CveRuns, SkipEtag(r) PROVE Typed'
  <2>1. runs[r] \in RunRecords /\ {"query", "read result"} \subseteq Labels
    BY <1>a DEF Labels, Busy, Saving
  <2>2. UNCHANGED <<served, dpkg, cache>> /\ window' \in BOOLEAN
    BY <1>0, <1>18 DEF SkipEtag
  <2>3. CASE Run(r, "save etag") /\ Goto(r, "query")
    <3>1. runs[r].data # None
      BY <2>3 DEF Typed, InHand
    <3> QED
      BY <1>0, <2>1, <2>2, <2>3, <3>1, TypedStepOf DEF Typed, InHand
  <2>4. CASE Run(r, "save date's etag") /\ Goto(r, "read result")
    BY <1>0, <2>1, <2>2, <2>4, TypedStepOf DEF Typed, InHand
  <2> QED
    BY <1>18, <2>3, <2>4 DEF SkipEtag
<1>7. ASSUME NEW r \in CveRuns, Check(r) PROVE Typed'
  <2>1. runs[r] \in RunRecords /\ {"query", "publish date"} \subseteq Labels
    BY <1>a DEF Labels, Busy, Saving
  <2> DEFINE l == IF CacheValid THEN "publish date" ELSE "query"
  <2>2. l \in {"query", "publish date"} /\ Step(r, l, runs[r]) /\ UNCHANGED <<served, dpkg, cache, window>>
    BY <1>7 DEF Check
  <2>3. runs[r].data # None
    BY <1>7 DEF Check, Typed, InHand
  <2> HIDE DEF l
  <2> QED
    BY <1>0, <2>1, <2>2, <2>3, TypedStepOf DEF Typed, InHand
<1>8. ASSUME NEW r \in CveRuns, PublishedDate(r) PROVE Typed'
  <2>1. CASE runs[r].etag = served
    <3>1. [runs[r] EXCEPT !.dated = cache.data] \in RunRecords /\ "read result" \in Labels
      BY <1>0, <1>a DEF RunRecords, CacheRecords, Labels, Busy
    <3> QED
      BY <1>0, <1>8, <2>1, <3>1, TypedStepOf DEF PublishedDate, Typed, InHand
  <2>2. CASE runs[r].etag # served
    <3> DEFINE f == [runs[r] EXCEPT !.dated = served]
               l == IF runs[r].root THEN "save date's data" ELSE "read result"
    <3>1. f \in RunRecords /\ f.dated = served
      BY <1>0, <1>a DEF RunRecords
    <3>2. l \in Labels /\ l \in {"save date's data", "read result"}
      BY DEF Labels, Busy, Saving
    <3>3. Step(r, l, f) /\ UNCHANGED <<served, dpkg, cache, window>>
      BY <1>8, <2>2 DEF PublishedDate
    <3> HIDE DEF f, l
    <3> QED
      BY <1>0, <1>b, <3>1, <3>2, <3>3, TypedStepOf DEF Typed, InHand
  <2> QED
    BY <2>1, <2>2
<1>9. ASSUME NEW r \in CveRuns, ReadResult(r) PROVE Typed'
  <2>1. [runs[r] EXCEPT !.result = cache.result] \in RunRecords
    BY <1>0, <1>a, FreshIsRun DEF RunRecords, CacheRecords
  <2>2. "answer" \in Labels
    BY DEF Labels, Busy, Saving
  <2> QED
    BY <1>0, <1>9, <1>a, <2>1, <2>2, TypedStepOf DEF ReadResult, Typed, InHand, RunRecords
<1>10. ASSUME NEW r \in CveRuns, Query(r) PROVE Typed'
  <2> DEFINE d == runs[r].data
             a == [data |-> d, dpkg |-> dpkg, verdict |-> Classify(Facts[d], dpkg)]
             f == [runs[r] EXCEPT !.dated = d, !.result = a]
             l == IF runs[r].root THEN "save date" ELSE "answer"
  <2>1. d \in Datasets
    BY <1>10, <1>a DEF Query, Typed, InHand, RunRecords
  <2>2. a \in Result
    BY <1>0, <2>1, ClassifyIsVerdict DEF Result
  <2>3. f \in RunRecords
    BY <1>a, <2>1, <2>2 DEF RunRecords
  <2>4. l \in {"save date", "answer"} /\ l \in Labels
    BY DEF Labels, Busy, Saving
  <2>5. Step(r, l, f) /\ UNCHANGED <<served, dpkg, cache, window>>
    BY <1>10 DEF Query
  <2> HIDE DEF f, l
  <2> QED
    BY <1>0, <2>3, <2>4, <2>5, TypedStepOf DEF Typed, InHand
<1>11. ASSUME NEW r \in CveRuns, SaveDate(r) PROVE Typed'
  <2>1. runs[r] \in RunRecords /\ "save result" \in Labels
    BY <1>a DEF Labels, Busy, Saving
  <2>2. cache' = [cache EXCEPT !.date = dpkg]
    BY <1>11 DEF SaveDate
  <2>3. cache' \in CacheRecords /\ cache'.data = cache.data /\ cache'.etag = cache.etag
    BY <1>0, <2>1, <2>2 DEF CacheRecords, RunRecords
  <2> QED
    BY <1>0, <1>11, <2>1, <2>3, TypedStepOf DEF SaveDate, Typed, InHand
<1>12. ASSUME NEW r \in CveRuns, SaveResult(r) PROVE Typed'
  <2>1. runs[r] \in RunRecords /\ "answer" \in Labels
    BY <1>a DEF Labels, Busy, Saving
  <2>2. cache' = [cache EXCEPT !.result = runs[r].result]
    BY <1>12 DEF SaveResult
  <2>3. cache' \in CacheRecords /\ cache'.data = cache.data /\ cache'.etag = cache.etag
    BY <1>0, <2>1, <2>2 DEF CacheRecords, RunRecords
  <2> QED
    BY <1>0, <1>12, <2>1, <2>3, TypedStepOf DEF SaveResult, Typed, InHand
<1>13. ASSUME NEW r \in CveRuns, Answer(r) PROVE Typed'
  <2>1. PICK option \in Options :
          Step(r, "answered", [Fresh EXCEPT !.option = option,
                 !.saw = runs[r].saw, !.dated = runs[r].dated,
                 !.since = runs[r].since, !.result = runs[r].result])
    BY <1>13 DEF Answer
  <2>2. [Fresh EXCEPT !.option = option, !.saw = runs[r].saw, !.dated = runs[r].dated,
           !.since = runs[r].since, !.result = runs[r].result] \in RunRecords
    BY <1>a, FreshIsRun DEF RunRecords
  <2>3. "answered" \in Labels
    BY DEF Labels
  <2> QED
    BY <1>0, <1>13, <2>1, <2>2, <2>3, TypedStepOf DEF Answer, Typed, InHand
<1>14. ASSUME NEW r \in CveRuns, Killed(r) PROVE Typed'
  <2>1. runs' = [runs EXCEPT ![r] = Fresh] /\ UNCHANGED <<served, dpkg, cache>> /\ window' \in BOOLEAN
    BY <1>14, <1>0 DEF Killed
  <2>2. Fresh.at = "idle"
    BY DEF Fresh
  <2>3. Step(r, "idle", Fresh) /\ "idle" \in Labels
    BY <2>1 DEF Step, Fresh, Labels
  <2> QED
    BY <1>0, <2>1, <2>3, FreshIsRun, TypedStepOf DEF Typed, InHand
<1>15. CASE Publish
  BY <1>15, <1>0 DEF Publish, Typed, CveTypeOK, InHand
<1>16. CASE UpgradePackage
  BY <1>16, <1>0 DEF UpgradePackage, Typed, CveTypeOK, InHand
<1>17. CASE UNCHANGED cveVars
  BY <1>17 DEF cveVars, Typed, CveTypeOK, InHand
<1> QED
  BY <1>1, <1>2, <1>3, <1>4, <1>5, <1>6, <1>7, <1>8, <1>9, <1>10, <1>11, <1>12, <1>13, <1>14,
     <1>15, <1>16, <1>17, <1>18 DEF CveNext

\* All variables of the report keep their types, for every data and every number of runs: a
\* run never parses or saves a file that is not there.
THEOREM CveTypeCorrect == CveSpec => []CveTypeOK
<1>1. Typed => CveTypeOK
  BY DEF Typed
<1> QED
  BY TypedInit, TypedStep, <1>1, PTL DEF CveSpec

-----------------------------------------------------------------------------
(* Answers.  Outside the windows a run that saves has the files for itself, and what a run
   that was told "unchanged" has read stays true until it answers. *)

Right(a) ==
    /\ a.data \in Datasets /\ a.dpkg \in Versions
    /\ a.verdict = Classify(Facts[a.data], a.dpkg)

\* What each place of a run may rely on, with s served, v installed and the files c.
PlaceOf(x, s, v, c) ==
    /\ x.at \in Busy => x.since \in Versions /\ x.since <= v
    /\ x.at = "fetch" => ~x.fresh
    /\ x.at \in {"save data", "save etag", "save date", "save result"} => x.root
    /\ x.at \notin {"save date's data", "save date's etag"}
    /\ x.at \in {"read data", "check", "publish date"} =>
         x.saw = s /\ x.etag = s /\ c.data = s /\ ~x.fresh
    /\ x.at \in {"check", "publish date"} => x.data = s
    /\ x.at \in {"publish date", "read result"} =>
         c.result # None /\ c.date \in Versions /\ c.date >= x.since
    /\ x.at = "read result" => x.dated = c.data /\ x.saw = c.data
    /\ x.at \in {"save data", "save etag", "query", "save date", "save result"} =>
         x.data \in Datasets /\ x.data = x.saw
    /\ x.at \in {"save data", "save etag"} => x.fresh
    /\ x.at \in {"save etag", "query", "save date", "save result"} /\ x.root => c.data = x.data
    /\ x.at \in {"save date", "save result", "answer", "answered"} =>
         /\ x.result.data = x.dated /\ x.dated = x.saw
         /\ Right(x.result) /\ x.since \in Versions /\ x.result.dpkg >= x.since
    /\ x.at \in {"save date", "save result"} => x.result.data = x.data
    /\ x.at = "save date" => x.result.dpkg = v
    /\ x.at = "save result" => c.date = x.result.dpkg

\* Between the first file it has replaced and the last.
Midway(x) == x.root /\ \/ x.at \in {"save etag", "save result"}
                       \/ x.fresh /\ x.at \in {"query", "save date"}
KeptOf(c) == c.result # None => Right(c.result) /\ c.result.data = c.data /\ c.result.dpkg = c.date

Alone == \A q, r \in CveRuns : q # r /\ runs[q].at \in Busy /\ runs[r].at \in Busy =>
             ~runs[q].root /\ ~runs[r].root
Tagged == \/ cache.etag \in {None, cache.data}
          \/ \E r \in CveRuns : runs[r].root /\ runs[r].at = "save etag"
Parts ==
    /\ \A r \in CveRuns : PlaceOf(runs[r], served, dpkg, cache)
    /\ Alone /\ Tagged
    /\ (\E r \in CveRuns : Midway(runs[r])) \/ KeptOf(cache)
Current == ~window => Parts

LEMMA CurrentInit == CveInit => Current
<1> SUFFICES ASSUME CveInit PROVE Parts
  BY DEF Current
<1>1. \A r \in CveRuns : runs[r] = Fresh
  BY DEF CveInit
<1>2. Fresh.at = "idle"
  BY DEF Fresh
<1>3. cache.etag = None /\ cache.result = None
  BY DEF CveInit
<1>4. \A r \in CveRuns : PlaceOf(runs[r], served, dpkg, cache)
  BY <1>1, <1>2 DEF PlaceOf, Busy, Saving
<1>5. Alone
  BY <1>1, <1>2 DEF Alone, Busy, Saving
<1> QED
  BY <1>3, <1>4, <1>5 DEF Parts, Tagged, KeptOf

\* A step of one run that writes no file.
LEMMA LocalStep ==
    ASSUME Parts, NEW r \in CveRuns, \A q \in CveRuns \ {r} : runs'[q] = runs[q],
           UNCHANGED <<served, dpkg, cache>>, runs[r].at \in Busy, runs[r].at # "save etag",
           runs'[r].at \in Busy => runs'[r].root = runs[r].root,
           Midway(runs[r]) => Midway(runs'[r]),
           PlaceOf(runs'[r], served, dpkg, cache)
    PROVE  Parts'
<1>1. \A q \in CveRuns : PlaceOf(runs'[q], served', dpkg', cache')
  BY DEF Parts
<1>2. Alone'
  BY DEF Parts, Alone
<1>3. Tagged'
  <2>1. cache.etag \in {None, cache.data} => Tagged'
    BY DEF Tagged
  <2>2. ASSUME NEW q \in CveRuns, runs[q].root, runs[q].at = "save etag" PROVE Tagged'
    <3>1. q # r
      BY <2>2
    <3> QED
      BY <2>2, <3>1 DEF Tagged
  <2> QED
    BY <2>1, <2>2 DEF Parts, Tagged
<1>4. (\E q \in CveRuns : Midway(runs'[q])) \/ KeptOf(cache')
  <2>1. ASSUME NEW q \in CveRuns, Midway(runs[q]) PROVE Midway(runs'[q])
    BY <2>1
  <2> QED
    BY <2>1 DEF Parts
<1> QED
  BY <1>1, <1>2, <1>3, <1>4 DEF Parts

\* A step of the run that saves.
LEMMA SavingStep ==
    ASSUME Parts, NEW r \in CveRuns, \A q \in CveRuns \ {r} : runs'[q] = runs[q],
           UNCHANGED <<served, dpkg>>, runs[r].at \in Busy, runs[r].root,
           runs'[r].root, PlaceOf(runs'[r], served, dpkg, cache'), Tagged',
           Midway(runs'[r]) \/ KeptOf(cache')
    PROVE  Parts'
<1>1. \A q \in CveRuns \ {r} : runs[q].at \notin Busy
  BY DEF Parts, Alone
<1>2. \A q \in CveRuns \ {r} : PlaceOf(runs[q], served, dpkg, cache) => PlaceOf(runs[q], served, dpkg, cache')
  BY <1>1 DEF PlaceOf, Busy, Saving
<1>3. \A q \in CveRuns : PlaceOf(runs'[q], served', dpkg', cache')
  BY <1>2 DEF Parts
<1>4. Alone'
  BY <1>1 DEF Alone
<1> QED
  BY <1>3, <1>4 DEF Parts

LEMMA FieldsAfter ==
    ASSUME Typed, NEW r \in CveRuns, NEW l \in Labels, NEW f \in RunRecords, Step(r, l, f)
    PROVE  /\ runs'[r].at = l /\ runs'[r].root = f.root /\ runs'[r].fresh = f.fresh
           /\ runs'[r].etag = f.etag /\ runs'[r].data = f.data /\ runs'[r].saw = f.saw
           /\ runs'[r].dated = f.dated /\ runs'[r].result = f.result /\ runs'[r].since = f.since
           /\ \A q \in CveRuns \ {r} : runs'[q] = runs[q]
<1>1. /\ runs'[r] = [f EXCEPT !.at = l]
      /\ \A q \in CveRuns \ {r} : runs'[q] = runs[q]
  BY StepSets, TypedShape DEF Typed
<1> QED
  BY <1>1 DEF RunRecords

LEMMA WindowStays == [CveNext]_cveVars /\ window => window'
BY DEF CveNext, cveVars, StartCves, Fetch, FetchFails, ReadData, SaveData, SaveEtag, SkipEtag, Check,
       PublishedDate, ReadResult, Query, SaveDate, SaveResult, Answer, Killed, Publish,
       UpgradePackage

\* A run starts where no run that saves is at work, or, if it saves itself, none at all.
LEMMA StartCurrent ==
    ASSUME Typed, Parts, NEW r \in CveRuns, StartCves(r), ~window' PROVE Parts'
<1>1. PICK root \in BOOLEAN :
        /\ Step(r, "fetch", [Fresh EXCEPT !.root = root, !.since = dpkg])
        /\ window' = (window \/ \E q \in Working : root \/ runs[q].root)
  BY DEF StartCves
<1> DEFINE f == [Fresh EXCEPT !.root = root, !.since = dpkg]
<1>2. f \in RunRecords /\ f.root = root /\ f.since = dpkg /\ ~f.fresh /\ "fetch" \in Labels
  BY FreshIsRun, TypedShape DEF RunRecords, Typed, Labels, Busy, Fresh
<1>a. Step(r, "fetch", f)
  BY <1>1
<1> HIDE DEF f
<1>3. /\ runs'[r].at = "fetch" /\ runs'[r].root = root /\ runs'[r].since = dpkg
      /\ ~runs'[r].fresh /\ \A q \in CveRuns \ {r} : runs'[q] = runs[q]
  BY <1>2, <1>a, FieldsAfter
<1>4. \A q \in CveRuns : runs[q].at \in Busy => ~root /\ ~runs[q].root
  BY <1>1 DEF Working
<1>5. runs[r].at \in {"idle", "answered", "failed"} /\ UNCHANGED <<served, dpkg, cache>>
  BY DEF StartCves
<1>6. dpkg \in Versions /\ dpkg \in Nat /\ dpkg <= dpkg
  <2>1. dpkg \in Versions /\ dpkg \in Nat
    BY TypedShape, Numbers DEF Typed
  <2> QED
    BY <2>1
<1>7. \A q \in CveRuns : PlaceOf(runs'[q], served', dpkg', cache')
  <2>1. PlaceOf(runs'[r], served, dpkg, cache)
    BY <1>3, <1>6 DEF PlaceOf, Busy, Saving
  <2> QED
    BY <2>1, <1>3, <1>5 DEF Parts
<1>8. Alone'
  BY <1>3, <1>4 DEF Alone
<1>9. Tagged'
  BY <1>3, <1>5 DEF Parts, Tagged
<1>10. (\E q \in CveRuns : Midway(runs'[q])) \/ KeptOf(cache')
  <2>1. ASSUME NEW q \in CveRuns, Midway(runs[q]) PROVE Midway(runs'[q])
    BY <2>1, <1>3, <1>5 DEF Midway
  <2> QED
    BY <2>1, <1>5 DEF Parts
<1> QED
  BY <1>7, <1>8, <1>9, <1>10 DEF Parts

\* The run that saves is the only one at work, so nobody else is replacing a file.
LEMMA Undisturbed ==
    ASSUME Parts, NEW r \in CveRuns, runs[r].at \in Busy
    PROVE  /\ runs[r].at # "save etag" => cache.etag \in {None, cache.data}
           /\ ~Midway(runs[r]) => KeptOf(cache)
<1>1. ASSUME NEW q \in CveRuns, q # r, runs[q].root, runs[q].at \in Busy PROVE FALSE
  BY <1>1 DEF Parts, Alone
<1>2. {"save etag", "save result", "query", "save date"} \subseteq Busy
  BY DEF Busy, Saving
<1>3. \A q \in CveRuns : Midway(runs[q]) => runs[q].root /\ runs[q].at \in Busy
  BY <1>2 DEF Midway
<1> QED
  BY <1>1, <1>2, <1>3 DEF Parts, Tagged

LEMMA FetchCurrent == ASSUME Typed, Parts, NEW r \in CveRuns, Fetch(r) PROVE Parts'
<1> DEFINE x == runs[r]
<1>1. /\ x \in RunRecords /\ served \in Datasets /\ served # None /\ x.at = "fetch"
      /\ UNCHANGED <<served, dpkg, cache>>
  BY TypedShape, Numbers DEF Typed, Fetch, Run
<1>2. "fetch" \in Busy
  BY DEF Busy
<1>3. x.since \in Versions /\ x.since <= dpkg /\ ~x.fresh /\ ~Midway(x)
  BY <1>1, <1>2 DEF Parts, PlaceOf, Midway
<1>4. CASE cache.etag = served
  <2> DEFINE f == [x EXCEPT !.etag = cache.etag, !.saw = served]
  <2>1. cache.data = served
    BY <1>1, <1>2, <1>4, Undisturbed
  <2>2. f \in RunRecords /\ "read data" \in Labels /\ Step(r, "read data", f)
    BY <1>1, <1>4 DEF Fetch, RunRecords, Labels, Busy
  <2>3. f.root = x.root /\ f.fresh = x.fresh /\ f.etag = served /\ f.saw = served /\ f.since = x.since
    BY <1>1, <1>4 DEF RunRecords
  <2> HIDE DEF f
  <2>4. /\ runs'[r].at = "read data" /\ runs'[r].root = x.root /\ ~runs'[r].fresh
        /\ runs'[r].etag = served /\ runs'[r].saw = served /\ runs'[r].since = x.since
        /\ \A q \in CveRuns \ {r} : runs'[q] = runs[q]
    BY <2>2, <2>3, <1>3, FieldsAfter
  <2>5. PlaceOf(runs'[r], served, dpkg, cache)
    BY <2>1, <2>4, <1>3 DEF PlaceOf
  <2> QED
    BY <1>1, <1>2, <1>3, <2>4, <2>5, LocalStep
<1>5. CASE cache.etag # served
  <2> DEFINE f == [x EXCEPT !.saw = served, !.data = served, !.dated = served, !.fresh = TRUE]
             l == IF x.root THEN "save data" ELSE "query"
  <2>1. f \in RunRecords /\ l \in Labels /\ Step(r, l, f)
    BY <1>1, <1>5 DEF Fetch, RunRecords, Labels, Busy, Saving
  <2>2. f.root = x.root /\ f.fresh /\ f.data = served /\ f.saw = served /\ f.since = x.since
    BY <1>1 DEF RunRecords
  <2>3. (l = "save data" /\ x.root) \/ (l = "query" /\ ~x.root)
    <3>1. CASE x.root
      BY <3>1, Zenon
    <3>2. CASE ~x.root
      BY <3>2
    <3> QED
      BY <3>1, <3>2
  <2> HIDE DEF f, l
  <2>4. /\ runs'[r].at = l /\ runs'[r].root = x.root /\ runs'[r].fresh
        /\ runs'[r].data = served /\ runs'[r].saw = served /\ runs'[r].since = x.since
        /\ \A q \in CveRuns \ {r} : runs'[q] = runs[q]
    BY <2>1, <2>2, FieldsAfter
  <2>5. PlaceOf(runs'[r], served, dpkg, cache)
    BY <1>1, <2>3, <2>4, <1>3 DEF PlaceOf
  <2> QED
    BY <1>1, <1>2, <1>3, <2>4, <2>5, LocalStep
<1> QED
  BY <1>4, <1>5

LEMMA ReadDataCurrent == ASSUME Typed, Parts, NEW r \in CveRuns, ReadData(r) PROVE Parts'
<1> DEFINE x == runs[r]
           f == [x EXCEPT !.data = cache.data]
<1>1. /\ x \in RunRecords /\ cache \in CacheRecords /\ x.at = "read data"
      /\ UNCHANGED <<served, dpkg, cache>>
  BY TypedShape DEF Typed, ReadData, Run
<1>2. "read data" \in Busy
  BY DEF Busy
<1>3. /\ x.since \in Versions /\ x.since <= dpkg /\ ~x.fresh /\ ~Midway(x)
      /\ x.saw = served /\ x.etag = served /\ cache.data = served
  BY <1>1, <1>2 DEF Parts, PlaceOf, Midway
<1>4. /\ f \in RunRecords /\ "check" \in Labels /\ Step(r, "check", f)
      /\ f.root = x.root /\ f.fresh = x.fresh /\ f.etag = x.etag /\ f.saw = x.saw
      /\ f.data = cache.data /\ f.since = x.since
  BY <1>1 DEF ReadData, RunRecords, CacheRecords, Labels, Busy
<1> HIDE DEF f
<1>5. /\ runs'[r].at = "check" /\ runs'[r].root = x.root /\ ~runs'[r].fresh
      /\ runs'[r].etag = served /\ runs'[r].saw = served /\ runs'[r].data = served
      /\ runs'[r].since = x.since
      /\ \A q \in CveRuns \ {r} : runs'[q] = runs[q]
  BY <1>3, <1>4, FieldsAfter
<1>6. PlaceOf(runs'[r], served, dpkg, cache)
  BY <1>3, <1>5 DEF PlaceOf
<1> QED
  BY <1>1, <1>2, <1>3, <1>5, <1>6, LocalStep

LEMMA CheckCurrent == ASSUME Typed, Parts, NEW r \in CveRuns, Check(r) PROVE Parts'
<1> DEFINE x == runs[r]
           l == IF CacheValid THEN "publish date" ELSE "query"
<1>1. /\ x \in RunRecords /\ cache \in CacheRecords /\ x.at = "check" /\ dpkg \in Versions
      /\ served \in Datasets /\ UNCHANGED <<served, dpkg, cache>>
  BY TypedShape DEF Typed, Check, Run
<1>2. "check" \in Busy
  BY DEF Busy
<1>3. /\ x.since \in Versions /\ x.since <= dpkg /\ ~x.fresh /\ ~Midway(x)
      /\ x.saw = served /\ x.etag = served /\ cache.data = served /\ x.data = served
  BY <1>1, <1>2 DEF Parts, PlaceOf, Midway
<1>4. l \in Labels /\ Step(r, l, x) /\ (l = "query" \/ (l = "publish date" /\ CacheValid))
  <2>1. Step(r, l, x)
    BY DEF Check, Goto
  <2>2. CASE CacheValid
    <3>1. l = "publish date"
      BY <2>2, Zenon
    <3> QED
      BY <2>1, <2>2, <3>1 DEF Labels, Busy
  <2>3. CASE ~CacheValid
    BY <2>1, <2>3 DEF Labels, Busy, Saving
  <2> QED
    BY <2>2, <2>3
<1>5. CacheValid => cache.result # None /\ cache.date \in Versions /\ cache.date >= x.since
  <2>1. ASSUME CacheValid PROVE cache.result # None /\ cache.date \in Versions /\ ~(dpkg > cache.date)
    BY <2>1, <1>1 DEF CacheValid, CacheRecords
  <2>2. ASSUME NEW a \in Nat, NEW b \in Nat, NEW c \in Nat, a <= b, ~(b > c) PROVE c >= a
    BY <2>2
  <2> QED
    BY <2>1, <2>2, <1>1, <1>3, Numbers
<1> HIDE DEF l
<1>6. /\ runs'[r].at = l /\ runs'[r].root = x.root /\ ~runs'[r].fresh
      /\ runs'[r].etag = served /\ runs'[r].saw = served /\ runs'[r].data = served
      /\ runs'[r].since = x.since
      /\ \A q \in CveRuns \ {r} : runs'[q] = runs[q]
  BY <1>1, <1>3, <1>4, FieldsAfter
<1>7. PlaceOf(runs'[r], served, dpkg, cache)
  BY <1>1, <1>3, <1>4, <1>5, <1>6 DEF PlaceOf
<1> QED
  BY <1>1, <1>2, <1>3, <1>6, <1>7, LocalStep

LEMMA PublishedDateCurrent == ASSUME Typed, Parts, NEW r \in CveRuns, PublishedDate(r) PROVE Parts'
<1> DEFINE x == runs[r]
           f == [x EXCEPT !.dated = cache.data]
<1>1. /\ x \in RunRecords /\ cache \in CacheRecords /\ x.at = "publish date"
      /\ UNCHANGED <<served, dpkg, cache>>
  BY TypedShape DEF Typed, PublishedDate, Run
<1>2. "publish date" \in Busy
  BY DEF Busy
<1>3. /\ x.since \in Versions /\ x.since <= dpkg /\ ~Midway(x)
      /\ x.saw = served /\ x.etag = served /\ cache.data = served
      /\ cache.result # None /\ cache.date \in Versions /\ cache.date >= x.since
  BY <1>1, <1>2 DEF Parts, PlaceOf, Midway
<1>4. /\ f \in RunRecords /\ "read result" \in Labels /\ Step(r, "read result", f)
      /\ f.root = x.root /\ f.saw = x.saw /\ f.dated = cache.data /\ f.since = x.since
  BY <1>1, <1>3 DEF PublishedDate, RunRecords, CacheRecords, Labels, Busy
<1> HIDE DEF f
<1>5. /\ runs'[r].at = "read result" /\ runs'[r].root = x.root
      /\ runs'[r].saw = served /\ runs'[r].dated = served /\ runs'[r].since = x.since
      /\ \A q \in CveRuns \ {r} : runs'[q] = runs[q]
  BY <1>3, <1>4, FieldsAfter
<1>6. PlaceOf(runs'[r], served, dpkg, cache)
  BY <1>3, <1>5 DEF PlaceOf
<1> QED
  BY <1>1, <1>2, <1>3, <1>5, <1>6, LocalStep

LEMMA ReadResultCurrent == ASSUME Typed, Parts, NEW r \in CveRuns, ReadResult(r) PROVE Parts'
<1> DEFINE x == runs[r]
           f == [x EXCEPT !.result = cache.result]
<1>1. /\ x \in RunRecords /\ cache \in CacheRecords /\ x.at = "read result"
      /\ UNCHANGED <<served, dpkg, cache>>
  BY TypedShape DEF Typed, ReadResult, Run
<1>2. "read result" \in Busy /\ "answer" \in Labels
  BY DEF Busy, Labels
<1>3. /\ x.since \in Versions /\ x.since <= dpkg /\ ~Midway(x)
      /\ x.saw = cache.data /\ x.dated = cache.data
      /\ cache.result # None /\ cache.date >= x.since
  BY <1>1, <1>2 DEF Parts, PlaceOf, Midway
<1>4. Right(cache.result) /\ cache.result.data = cache.data /\ cache.result.dpkg = cache.date
  BY <1>1, <1>2, <1>3, Undisturbed DEF KeptOf
<1>5. /\ f \in RunRecords /\ Step(r, "answer", f) /\ f.root = x.root /\ f.result = cache.result
      /\ f.saw = x.saw /\ f.dated = x.dated /\ f.since = x.since
  BY <1>1 DEF ReadResult, RunRecords, CacheRecords
<1> HIDE DEF f
<1>6. /\ runs'[r].at = "answer" /\ runs'[r].root = x.root /\ runs'[r].result = cache.result
      /\ runs'[r].saw = cache.data /\ runs'[r].dated = cache.data /\ runs'[r].since = x.since
      /\ \A q \in CveRuns \ {r} : runs'[q] = runs[q]
  BY <1>2, <1>3, <1>5, FieldsAfter
<1>7. PlaceOf(runs'[r], served, dpkg, cache)
  BY <1>3, <1>4, <1>6 DEF PlaceOf
<1> QED
  BY <1>1, <1>2, <1>3, <1>6, <1>7, LocalStep

LEMMA QueryCurrent == ASSUME Typed, Parts, NEW r \in CveRuns, Query(r) PROVE Parts'
<1> DEFINE x == runs[r]
           d == x.data
           a == [data |-> d, dpkg |-> dpkg, verdict |-> Classify(Facts[d], dpkg)]
           f == [x EXCEPT !.dated = d, !.result = a]
           l == IF x.root THEN "save date" ELSE "answer"
<1>1. /\ x \in RunRecords /\ x.at = "query" /\ dpkg \in Versions
      /\ UNCHANGED <<served, dpkg, cache>>
  BY TypedShape DEF Typed, Query, Run
<1>2. "query" \in Busy
  BY DEF Busy, Saving
<1>3. /\ x.since \in Versions /\ x.since <= dpkg
      /\ d \in Datasets /\ x.saw = d /\ (x.root => cache.data = d)
  BY <1>1, <1>2 DEF Parts, PlaceOf
<1>4. a \in Result /\ Right(a) /\ a.data = d /\ a.dpkg = dpkg
  BY <1>1, <1>3, ClassifyIsVerdict DEF Result, Right
<1>5. dpkg >= x.since
  <2>1. ASSUME NEW b \in Nat, NEW c \in Nat, b <= c PROVE c >= b
    BY <2>1
  <2> QED
    BY <2>1, <1>1, <1>3, Numbers
<1>6. l \in Labels /\ ((l = "save date" /\ x.root) \/ (l = "answer" /\ ~x.root))
  <2>1. CASE x.root
    <3>1. l = "save date"
      BY <2>1, Zenon
    <3> QED
      BY <2>1, <3>1 DEF Labels, Busy, Saving
  <2>2. CASE ~x.root
    BY <2>2 DEF Labels, Busy
  <2> QED
    BY <2>1, <2>2
<1>7. Step(r, l, f)
  BY DEF Query
<1> HIDE DEF a, l
<1>8. /\ f \in RunRecords /\ f.root = x.root /\ f.fresh = x.fresh /\ f.data = d
      /\ f.saw = d /\ f.dated = d /\ f.result = a /\ f.since = x.since
  BY <1>1, <1>3, <1>4 DEF RunRecords
<1> HIDE DEF f
<1>9. /\ runs'[r].at = l /\ runs'[r].root = x.root /\ runs'[r].fresh = x.fresh
      /\ runs'[r].data = d /\ runs'[r].saw = d /\ runs'[r].dated = d /\ runs'[r].result = a
      /\ runs'[r].since = x.since
      /\ \A q \in CveRuns \ {r} : runs'[q] = runs[q]
  BY <1>6, <1>7, <1>8, FieldsAfter
<1>10. PlaceOf(runs'[r], served, dpkg, cache)
  BY <1>1, <1>3, <1>4, <1>5, <1>6, <1>9 DEF PlaceOf
<1>11. Midway(x) => Midway(runs'[r])
  BY <1>1, <1>6, <1>9 DEF Midway
<1> QED
  BY <1>1, <1>2, <1>9, <1>10, <1>11, LocalStep

LEMMA AnswerCurrent == ASSUME Typed, Parts, NEW r \in CveRuns, Answer(r) PROVE Parts'
<1> DEFINE x == runs[r]
<1>1. /\ x \in RunRecords /\ x.at = "answer" /\ UNCHANGED <<served, dpkg, cache>>
  BY TypedShape DEF Typed, Answer, Run
<1>2. "answer" \in Busy /\ "answered" \in Labels /\ "answered" \notin Busy
  BY DEF Busy, Labels, Saving
<1>3. /\ x.result.data = x.dated /\ x.dated = x.saw /\ Right(x.result)
      /\ x.since \in Versions /\ x.result.dpkg >= x.since /\ ~Midway(x)
  BY <1>1, <1>2 DEF Parts, PlaceOf, Midway
<1>4. PICK option \in Options :
        Step(r, "answered", [Fresh EXCEPT !.option = option,
               !.saw = runs[r].saw, !.dated = runs[r].dated,
               !.since = runs[r].since, !.result = runs[r].result])
  BY DEF Answer
<1> DEFINE f == [Fresh EXCEPT !.option = option, !.saw = x.saw, !.dated = x.dated,
                              !.since = x.since, !.result = x.result]
<1>5. /\ f \in RunRecords /\ f.saw = x.saw /\ f.dated = x.dated /\ f.result = x.result
      /\ f.since = x.since
  BY <1>1, FreshIsRun DEF RunRecords
<1>6. Step(r, "answered", f)
  BY <1>4
<1> HIDE DEF f
<1>7. /\ runs'[r].at = "answered" /\ runs'[r].saw = x.saw /\ runs'[r].dated = x.dated
      /\ runs'[r].result = x.result /\ runs'[r].since = x.since
      /\ \A q \in CveRuns \ {r} : runs'[q] = runs[q]
  BY <1>2, <1>5, <1>6, FieldsAfter
<1>8. PlaceOf(runs'[r], served, dpkg, cache)
  BY <1>2, <1>3, <1>7 DEF PlaceOf
<1> QED
  BY <1>1, <1>2, <1>3, <1>7, <1>8, LocalStep

\* A run that fails or is killed; a kill after its first file and before its last is a window.
LEMMA DroppedCurrent ==
    ASSUME Typed, Parts, NEW r \in CveRuns, FetchFails(r) \/ Killed(r), ~window' PROVE Parts'
<1>1. UNCHANGED <<served, dpkg, cache>> /\ runs[r].at \in Busy
  BY DEF FetchFails, Killed, Busy
<1>2. PICK l \in {"failed", "idle"} : Step(r, l, Fresh)
  <2>1. CASE FetchFails(r)
    BY <2>1 DEF FetchFails
  <2>2. CASE Killed(r)
    BY <2>2 DEF Killed, Step, Fresh
  <2> QED
    BY <2>1, <2>2
<1>3. ~Midway(runs[r]) /\ runs[r].at # "save etag"
  <2>1. CASE FetchFails(r)
    BY <2>1 DEF FetchFails, Midway
  <2>2. CASE Killed(r)
    <3>1. runs[r].at = "save etag" => runs[r].root
      BY DEF Parts, PlaceOf
    <3> QED
      BY <2>2, <3>1 DEF Killed, Midway
  <2> QED
    BY <2>1, <2>2
<1>4. l \in Labels /\ l \notin Busy
  BY DEF Labels, Busy, Saving
<1>5. runs'[r].at = l /\ \A q \in CveRuns \ {r} : runs'[q] = runs[q]
  BY <1>2, <1>4, FreshIsRun, FieldsAfter
<1>6. PlaceOf(runs'[r], served, dpkg, cache)
  BY <1>5 DEF PlaceOf, Busy, Saving
<1> QED
  BY <1>1, <1>3, <1>4, <1>5, <1>6, LocalStep

LEMMA SaveDataCurrent == ASSUME Typed, Parts, NEW r \in CveRuns, SaveData(r) PROVE Parts'
<1> DEFINE x == runs[r]
<1>1. x \in RunRecords /\ cache \in CacheRecords /\ UNCHANGED <<served, dpkg>>
  BY TypedShape DEF Typed, SaveData
<1>2. /\ x.at = "save data" /\ cache' = [cache EXCEPT !.data = x.data]
      /\ Step(r, "save etag", x)
  BY DEF SaveData, Parts, PlaceOf, Run, Goto
<1>3. "save data" \in Busy /\ "save etag" \in Labels
  BY DEF Busy, Saving, Labels
<1>4. /\ x.root /\ x.fresh /\ x.since \in Versions /\ x.since <= dpkg
      /\ x.data \in Datasets /\ x.data = x.saw
  BY <1>2, <1>3 DEF Parts, PlaceOf
<1>5. cache'.data = x.data
  BY <1>1, <1>2 DEF CacheRecords
<1>6. /\ runs'[r].at = "save etag" /\ runs'[r].root /\ runs'[r].fresh
      /\ runs'[r].data = x.data /\ runs'[r].saw = x.saw /\ runs'[r].since = x.since
      /\ \A q \in CveRuns \ {r} : runs'[q] = runs[q]
  BY <1>1, <1>2, <1>3, <1>4, FieldsAfter
<1>7. PlaceOf(runs'[r], served, dpkg, cache')
  BY <1>4, <1>5, <1>6 DEF PlaceOf
<1>8. Tagged' /\ Midway(runs'[r])
  BY <1>6 DEF Tagged, Midway
<1> QED
  BY <1>1, <1>2, <1>3, <1>4, <1>6, <1>7, <1>8, SavingStep

LEMMA SaveEtagCurrent == ASSUME Typed, Parts, NEW r \in CveRuns, SaveEtag(r) PROVE Parts'
<1> DEFINE x == runs[r]
<1>1. x \in RunRecords /\ cache \in CacheRecords /\ UNCHANGED <<served, dpkg>>
  BY TypedShape DEF Typed, SaveEtag
<1>2. /\ x.at = "save etag" /\ cache' = [cache EXCEPT !.etag = x.data]
      /\ Step(r, "query", x)
  BY DEF SaveEtag, Parts, PlaceOf, Run, Goto
<1>3. "save etag" \in Busy /\ "query" \in Labels
  BY DEF Busy, Saving, Labels
<1>4. /\ x.root /\ x.fresh /\ x.since \in Versions /\ x.since <= dpkg
      /\ x.data \in Datasets /\ x.data = x.saw /\ cache.data = x.data
  BY <1>2, <1>3 DEF Parts, PlaceOf
<1>5. cache'.data = x.data /\ cache'.etag = x.data
  BY <1>1, <1>2, <1>4 DEF CacheRecords
<1>6. /\ runs'[r].at = "query" /\ runs'[r].root /\ runs'[r].fresh
      /\ runs'[r].data = x.data /\ runs'[r].saw = x.saw /\ runs'[r].since = x.since
      /\ \A q \in CveRuns \ {r} : runs'[q] = runs[q]
  BY <1>1, <1>2, <1>3, <1>4, FieldsAfter
<1>7. PlaceOf(runs'[r], served, dpkg, cache')
  BY <1>4, <1>5, <1>6 DEF PlaceOf
<1>8. Tagged' /\ Midway(runs'[r])
  BY <1>5, <1>6 DEF Tagged, Midway
<1> QED
  BY <1>1, <1>2, <1>3, <1>4, <1>6, <1>7, <1>8, SavingStep

\* Without a tag of its own new data counts only where there was none before.
LEMMA SkipEtagCurrent ==
    ASSUME Typed, Parts, NEW r \in CveRuns, SkipEtag(r), ~window' PROVE Parts'
<1> DEFINE x == runs[r]
<1>1. x \in RunRecords /\ cache \in CacheRecords /\ UNCHANGED <<served, dpkg, cache>>
  BY TypedShape DEF Typed, SkipEtag
<1>2. x.at = "save etag" /\ Step(r, "query", x) /\ cache.etag = None
  BY DEF SkipEtag, Parts, PlaceOf, Run, Goto
<1>3. "save etag" \in Busy /\ "query" \in Labels
  BY DEF Busy, Saving, Labels
<1>4. /\ x.root /\ x.fresh /\ x.since \in Versions /\ x.since <= dpkg
      /\ x.data \in Datasets /\ x.data = x.saw /\ cache.data = x.data
  BY <1>2, <1>3 DEF Parts, PlaceOf
<1>5. /\ runs'[r].at = "query" /\ runs'[r].root /\ runs'[r].fresh
      /\ runs'[r].data = x.data /\ runs'[r].saw = x.saw /\ runs'[r].since = x.since
      /\ \A q \in CveRuns \ {r} : runs'[q] = runs[q]
  BY <1>1, <1>2, <1>3, <1>4, FieldsAfter
<1>6. PlaceOf(runs'[r], served, dpkg, cache')
  BY <1>1, <1>4, <1>5 DEF PlaceOf
<1>7. Tagged' /\ Midway(runs'[r])
  BY <1>1, <1>2, <1>5 DEF Tagged, Midway
<1> QED
  BY <1>1, <1>2, <1>3, <1>4, <1>5, <1>6, <1>7, SavingStep

LEMMA SaveDateCurrent == ASSUME Typed, Parts, NEW r \in CveRuns, SaveDate(r) PROVE Parts'
<1> DEFINE x == runs[r]
<1>1. x \in RunRecords /\ cache \in CacheRecords /\ UNCHANGED <<served, dpkg>>
  BY TypedShape DEF Typed, SaveDate
<1>2. /\ x.at = "save date" /\ cache' = [cache EXCEPT !.date = dpkg]
      /\ Step(r, "save result", x)
  BY DEF SaveDate, Run, Goto
<1>3. "save date" \in Busy /\ "save result" \in Labels
  BY DEF Busy, Saving, Labels
<1>4. /\ x.root /\ x.since \in Versions /\ x.since <= dpkg
      /\ x.data \in Datasets /\ x.data = x.saw /\ cache.data = x.data
      /\ x.result.data = x.dated /\ x.dated = x.saw /\ Right(x.result)
      /\ x.result.dpkg >= x.since /\ x.result.data = x.data /\ x.result.dpkg = dpkg
  BY <1>2, <1>3 DEF Parts, PlaceOf
<1>5. cache'.data = x.data /\ cache'.etag = cache.etag /\ cache'.date = dpkg
  BY <1>1, <1>2, <1>4 DEF CacheRecords
<1>6. /\ runs'[r].at = "save result" /\ runs'[r].root
      /\ runs'[r].data = x.data /\ runs'[r].saw = x.saw /\ runs'[r].since = x.since
      /\ runs'[r].dated = x.dated /\ runs'[r].result = x.result
      /\ \A q \in CveRuns \ {r} : runs'[q] = runs[q]
  BY <1>1, <1>2, <1>3, <1>4, FieldsAfter
<1>7. PlaceOf(runs'[r], served, dpkg, cache')
  BY <1>4, <1>5, <1>6 DEF PlaceOf
<1>8. Tagged'
  BY <1>2, <1>3, <1>4, <1>5, Undisturbed DEF Tagged
<1>9. Midway(runs'[r])
  BY <1>6 DEF Midway
<1> QED
  BY <1>1, <1>2, <1>3, <1>4, <1>6, <1>7, <1>8, <1>9, SavingStep

LEMMA SaveResultCurrent == ASSUME Typed, Parts, NEW r \in CveRuns, SaveResult(r) PROVE Parts'
<1> DEFINE x == runs[r]
<1>1. x \in RunRecords /\ cache \in CacheRecords /\ UNCHANGED <<served, dpkg>>
  BY TypedShape DEF Typed, SaveResult
<1>2. /\ x.at = "save result" /\ cache' = [cache EXCEPT !.result = x.result]
      /\ Step(r, "answer", x)
  BY DEF SaveResult, Run, Goto
<1>3. "save result" \in Busy /\ "answer" \in Labels
  BY DEF Busy, Saving, Labels
<1>4. /\ x.root /\ x.since \in Versions /\ x.since <= dpkg /\ cache.data = x.data
      /\ x.result.data = x.dated /\ x.dated = x.saw /\ Right(x.result)
      /\ x.result.dpkg >= x.since /\ x.result.data = x.data /\ cache.date = x.result.dpkg
  BY <1>2, <1>3 DEF Parts, PlaceOf
<1>5. /\ cache'.data = x.data /\ cache'.etag = cache.etag
      /\ cache'.date = x.result.dpkg /\ cache'.result = x.result
  BY <1>1, <1>2, <1>4 DEF CacheRecords
<1>6. /\ runs'[r].at = "answer" /\ runs'[r].root
      /\ runs'[r].saw = x.saw /\ runs'[r].since = x.since
      /\ runs'[r].dated = x.dated /\ runs'[r].result = x.result
      /\ \A q \in CveRuns \ {r} : runs'[q] = runs[q]
  BY <1>1, <1>2, <1>3, <1>4, FieldsAfter
<1>7. PlaceOf(runs'[r], served, dpkg, cache')
  BY <1>4, <1>6 DEF PlaceOf
<1>8. Tagged'
  BY <1>2, <1>3, <1>4, <1>5, Undisturbed DEF Tagged
<1>9. KeptOf(cache')
  BY <1>4, <1>5 DEF KeptOf
<1> QED
  BY <1>1, <1>2, <1>3, <1>4, <1>6, <1>7, <1>8, <1>9, SavingStep

\* The world's own steps, outside the windows.
LEMMA WorldCurrent ==
    ASSUME Typed, Parts, Publish \/ UpgradePackage, ~window' PROVE Parts'
<1>1. runs' = runs /\ cache' = cache
  BY DEF Publish, UpgradePackage
<1>2. \A r \in CveRuns : PlaceOf(runs[r], served', dpkg', cache)
  <2>1. CASE Publish
    BY <2>1 DEF Publish, Parts, PlaceOf
  <2>2. CASE UpgradePackage
    <3>1. PICK v \in Versions : v > dpkg /\ dpkg' = v
      BY <2>2 DEF UpgradePackage
    <3>2. \A u \in Versions : u <= dpkg => u <= dpkg'
      <4>1. dpkg \in Nat /\ v \in Nat /\ Versions \subseteq Nat
        BY TypedShape, Numbers DEF Typed
      <4> QED
        BY <3>1, <4>1
    <3>3. served' = served /\ \A r \in CveRuns : runs[r].at # "save date"
      BY <2>2 DEF UpgradePackage
    <3> QED
      BY <3>2, <3>3 DEF Parts, PlaceOf
  <2> QED
    BY <2>1, <2>2
<1>3. Alone' /\ Tagged' /\ ((\E r \in CveRuns : Midway(runs'[r])) \/ KeptOf(cache'))
  BY <1>1 DEF Parts, Alone, Tagged
<1> QED
  BY <1>1, <1>2, <1>3 DEF Parts

LEMMA CurrentStep == Typed /\ Current /\ [CveNext]_cveVars => Current'
<1> SUFFICES ASSUME Typed, Current, [CveNext]_cveVars, ~window' PROVE Parts'
  BY DEF Current
<1>0. Parts
  BY WindowStays DEF Current
<1>1. ASSUME NEW r \in CveRuns, StartCves(r) PROVE Parts'
  BY <1>0, <1>1, StartCurrent
<1>2. ASSUME NEW r \in CveRuns, Fetch(r) PROVE Parts'
  BY <1>0, <1>2, FetchCurrent
<1>3. ASSUME NEW r \in CveRuns, FetchFails(r) \/ Killed(r) PROVE Parts'
  BY <1>0, <1>3, DroppedCurrent
<1>4. ASSUME NEW r \in CveRuns, ReadData(r) PROVE Parts'
  BY <1>0, <1>4, ReadDataCurrent
<1>5. ASSUME NEW r \in CveRuns, SaveData(r) PROVE Parts'
  BY <1>0, <1>5, SaveDataCurrent
<1>6. ASSUME NEW r \in CveRuns, SaveEtag(r) PROVE Parts'
  BY <1>0, <1>6, SaveEtagCurrent
<1>16. ASSUME NEW r \in CveRuns, SkipEtag(r) PROVE Parts'
  BY <1>0, <1>16, SkipEtagCurrent
<1>7. ASSUME NEW r \in CveRuns, Check(r) PROVE Parts'
  BY <1>0, <1>7, CheckCurrent
<1>8. ASSUME NEW r \in CveRuns, PublishedDate(r) PROVE Parts'
  BY <1>0, <1>8, PublishedDateCurrent
<1>9. ASSUME NEW r \in CveRuns, ReadResult(r) PROVE Parts'
  BY <1>0, <1>9, ReadResultCurrent
<1>10. ASSUME NEW r \in CveRuns, Query(r) PROVE Parts'
  BY <1>0, <1>10, QueryCurrent
<1>11. ASSUME NEW r \in CveRuns, SaveDate(r) PROVE Parts'
  BY <1>0, <1>11, SaveDateCurrent
<1>12. ASSUME NEW r \in CveRuns, SaveResult(r) PROVE Parts'
  BY <1>0, <1>12, SaveResultCurrent
<1>13. ASSUME NEW r \in CveRuns, Answer(r) PROVE Parts'
  BY <1>0, <1>13, AnswerCurrent
<1>14. CASE Publish \/ UpgradePackage
  BY <1>0, <1>14, WorldCurrent
<1>15. CASE UNCHANGED cveVars
  BY <1>0, <1>15 DEF cveVars, Parts, Alone, Tagged
<1> QED
  BY <1>1, <1>2, <1>3, <1>4, <1>5, <1>6, <1>7, <1>8, <1>9, <1>10, <1>11, <1>12, <1>13,
     <1>14, <1>15, <1>16 DEF CveNext

LEMMA CurrentAnswers == Typed /\ Current => AnswersAreCurrent
<1> SUFFICES ASSUME Typed, Parts PROVE AnswersAreCurrent
  BY DEF Current, AnswersAreCurrent
<1>1. ASSUME NEW r \in CveRuns, runs[r].at = "answered"
      PROVE  LET a == runs[r].result
                 f == Facts[a.data] IN
             /\ a.data = runs[r].dated /\ a.data = runs[r].saw
             /\ a.dpkg >= runs[r].since
             /\ Shown(runs[r].option, a.verdict) <=>
                  /\ Affected(f, a.dpkg)
                  /\ runs[r].option = "fixable" => f.bin_fixed # None
                  /\ runs[r].option = "unfixable" => f.bin_fixed = None
  <2> DEFINE a == runs[r].result
  <2>1. /\ a.data = runs[r].dated /\ runs[r].dated = runs[r].saw /\ a.dpkg >= runs[r].since
        /\ Right(a)
    BY <1>1 DEF Parts, PlaceOf
  <2>2. a.data \in Datasets /\ a.dpkg \in Versions /\ a.verdict = Classify(Facts[a.data], a.dpkg)
    BY <2>1 DEF Right
  <2>3. runs[r].option \in Options
    BY TypedShape DEF Typed, RunRecords
  <2> QED
    BY <2>1, <2>2, <2>3, ClassifyRight
<1>2. \/ cache.etag \in {None, cache.data}
      \/ \E r \in CveRuns : runs[r].root /\ runs[r].at \in {"save etag", "save date's etag"}
  BY DEF Parts, Tagged
<1> QED
  BY <1>1, <1>2 DEF AnswersAreCurrent

\* Outside the five windows an answer is about the data served to the run and the packages as
\* they were during it, an issue is listed exactly when the package is affected, and the tag
\* on disk never names other data than the file beside it: for every data, every range of
\* versions and every number of runs side by side.
THEOREM CvesCurrent == CveSpec => []AnswersAreCurrent
<1>1. CveInit => Typed /\ Current
  BY TypedInit, CurrentInit
<1>2. Typed /\ Current /\ [CveNext]_cveVars => (Typed /\ Current)'
  BY TypedStep, CurrentStep
<1> QED
  BY <1>1, <1>2, CurrentAnswers, PTL DEF CveSpec

-------------------------------------------------------------------------------
(* LivepatchReport, for every set of kernels and every number of days for which an answer of
   the server is kept. *)

Inquiries == [at : {"idle", "packages", "livepatch", "pending", "daemon"},
              reboot : Reboot, pending : Pending, steady : BOOLEAN]

BornOut == /\ pending = "kernel" /\ daemon.up = "up" /\ daemon.kernel = kernel
           /\ Patched(daemon)

\* As long as nothing has changed, every step of the inquiry relies on what the next would
\* read again.
SteadyInv ==
    /\ inquiry \in Inquiries
    /\ inquiry.at = "packages" => inquiry.reboot = "no"
    /\ inquiry.at = "livepatch" => inquiry.reboot = "yes"
    /\ inquiry.steady /\ inquiry.at = "livepatch" => pending = "kernel"
    /\ inquiry.steady /\ inquiry.reboot = "yes-kernel-livepatches-applied" =>
        /\ inquiry.at \in {"pending", "daemon"} => BornOut
        /\ inquiry.at = "daemon" => inquiry.pending = "kernel"

RebootAnswerHolds ==
    verdict.reboot = "yes-kernel-livepatches-applied" /\ verdict.steady =>
        verdict.pending = "kernel" /\ verdict.patched /\ verdict.own /\ ~verdict.raised

LEMMA SteadyInit == LivepatchInit => SteadyInv /\ RebootAnswerHolds
BY DEF LivepatchInit, SteadyInv, RebootAnswerHolds, Inquiries, NoInquiry, NoVerdict, Reboot, Pending

LEMMA SteadyStep ==
    ASSUME SteadyInv, pending \in Pending \cup {"absent"}, [LivepatchNext]_livepatchVars
    PROVE  SteadyInv'
<1> USE DEF SteadyInv, Inquiries, BornOut, Patched, Reboot, NoInquiry
<1>1. CASE UNCHANGED livepatchVars
  BY <1>1 DEF livepatchVars
<1>2. CASE LookForMarker
  BY <1>2 DEF LookForMarker, Unchanged, Pending
<1>3. CASE LookAtPackages
  BY <1>3 DEF LookAtPackages, Unchanged
<1>4. CASE LookAtLivepatch
  BY <1>4 DEF LookAtLivepatch, Unchanged
<1>5. CASE LookAgain
  BY <1>5 DEF LookAgain, Unchanged, Pending
<1>6. CASE AnswerReboot
  BY <1>6 DEF AnswerReboot, Unchanged, Pending
<1>7. CASE SupportFromDaemon \/ SupportFromCache \/ SupportFromServer
  BY <1>7 DEF SupportFromDaemon, SupportFromCache, SupportFromServer, Unchanged
<1>8. CASE UpgradeHost
  BY <1>8 DEF UpgradeHost, Disturb
<1>9. CASE ChangeDaemon
  BY <1>9 DEF ChangeDaemon, Disturb
<1>10. CASE BootKernel
  BY <1>10 DEF BootKernel, Pending
<1>11. CASE PassDay
  BY <1>11 DEF PassDay, Unchanged
<1> QED
  BY <1>1, <1>2, <1>3, <1>4, <1>5, <1>6, <1>7, <1>8, <1>9, <1>10, <1>11 DEF LivepatchNext

\* The answer is put together from an inquiry that is still born out by the host; every
\* other step withdraws it.
LEMMA RebootStep ==
    ASSUME SteadyInv, RebootAnswerHolds, [LivepatchNext]_livepatchVars
    PROVE  RebootAnswerHolds'
<1>1. CASE UNCHANGED livepatchVars
  BY <1>1 DEF livepatchVars, RebootAnswerHolds
<1>2. CASE AnswerReboot
  BY <1>2 DEF AnswerReboot, RebootAnswerHolds, SteadyInv, BornOut, Patched, CalledPatched
<1>3. CASE verdict' = NoVerdict
  BY <1>3 DEF RebootAnswerHolds, NoVerdict
<1> QED
  BY <1>1, <1>2, <1>3
  DEF LivepatchNext, LookForMarker, LookAtPackages, LookAtLivepatch, LookAgain,
      SupportFromDaemon, SupportFromCache, SupportFromServer, UpgradeHost, ChangeDaemon,
      BootKernel, PassDay, Untold

-----------------------------------------------------------------------------

\* What is kept is what the server last said of that kernel, and as old.
KeptInv ==
    /\ kernel \in Kernels /\ pending \in Pending \cup {"absent"}
    /\ kept = NoCache \/ kept \in [kernel : Kernels, says : {"yes", "no", "none"}, age : 0..MaxAge]
    /\ heard \in [Kernels -> [says : Replies \ {"upgrade"}, age : 0..MaxAge]]
    /\ kept.says \in {"yes", "no"} =>
        heard[kept.kernel] = [says |-> Recalled, age |-> kept.age]

SupportAnswerHolds ==
    support.from = "server" /\ support.says \in {"supported", "unsupported"} =>
        heard[support.kernel].says = support.says /\ heard[support.kernel].age < Week

LEMMA KeptInit == LivepatchInit => KeptInv /\ SupportAnswerHolds
BY LivepatchAssumption
DEF LivepatchInit, KeptInv, SupportAnswerHolds, NoCache, NoSupport, Unheard, Replies, Pending

LEMMA KeptStep ==
    ASSUME KeptInv, [LivepatchNext]_livepatchVars
    PROVE  KeptInv'
<1> USE LivepatchAssumption DEF KeptInv, Recalled, NoCache
<1>1. CASE UNCHANGED livepatchVars
  BY <1>1 DEF livepatchVars
<1>2. CASE SupportFromServer
  BY <1>2 DEF SupportFromServer, Unchanged, Replies
<1>3. CASE PassDay
  BY <1>3 DEF PassDay, Unchanged
<1>4. CASE Asked /\ UNCHANGED <<kernel, pending>>
  BY <1>4 DEF Asked
<1>5. CASE UpgradeHost
  BY <1>5 DEF UpgradeHost, Asked, Pending
<1>6. CASE BootKernel
  BY <1>6 DEF BootKernel, Asked, Pending
<1> QED
  BY <1>1, <1>2, <1>3, <1>4, <1>5, <1>6
  DEF LivepatchNext, LookForMarker, LookAtPackages, LookAtLivepatch, LookAgain, AnswerReboot,
      SupportFromDaemon, SupportFromCache, ChangeDaemon, Unchanged

LEMMA SupportStep ==
    ASSUME KeptInv, SupportAnswerHolds, [LivepatchNext]_livepatchVars
    PROVE  SupportAnswerHolds'
<1> USE LivepatchAssumption DEF KeptInv, SupportAnswerHolds
<1>1. CASE UNCHANGED livepatchVars
  BY <1>1 DEF livepatchVars
<1>2. CASE SupportFromDaemon
  BY <1>2 DEF SupportFromDaemon
<1>3. CASE SupportFromCache
  BY <1>3 DEF SupportFromCache, Recall, Recalled, Asked, NoCache
\* The answer came this moment.
<1>4. CASE SupportFromServer
  BY <1>4 DEF SupportFromServer, Replies
<1>5. CASE support' = NoSupport
  BY <1>5 DEF NoSupport
<1> QED
  BY <1>1, <1>2, <1>3, <1>4, <1>5
  DEF LivepatchNext, LookForMarker, LookAtPackages, LookAtLivepatch, LookAgain, AnswerReboot,
      UpgradeHost, ChangeDaemon, BootKernel, PassDay, Untold

\* An answer that a reboot may wait is borne out by the rest of the answer if nothing changed
\* while it was put together, and what is remembered of a kernel's support is what the server
\* said of that kernel less than a week ago.  (_reboot_required, on_supported_kernel)
THEOREM LivepatchAnswers == LivepatchSpec => []LivepatchAnswersHold
<1>1. SteadyInv /\ RebootAnswerHolds /\ KeptInv /\ SupportAnswerHolds /\ [LivepatchNext]_livepatchVars
      => (SteadyInv /\ RebootAnswerHolds /\ KeptInv /\ SupportAnswerHolds)'
  <2> SUFFICES ASSUME SteadyInv, RebootAnswerHolds, KeptInv, SupportAnswerHolds,
                      [LivepatchNext]_livepatchVars
               PROVE  (SteadyInv /\ RebootAnswerHolds /\ KeptInv /\ SupportAnswerHolds)'
    OBVIOUS
  <2>1. pending \in Pending \cup {"absent"}
    BY DEF KeptInv
  <2> QED
    BY <2>1, SteadyStep, RebootStep, KeptStep, SupportStep
<1>2. RebootAnswerHolds /\ SupportAnswerHolds => LivepatchAnswersHold
  BY DEF RebootAnswerHolds, SupportAnswerHolds, LivepatchAnswersHold
<1> QED
  BY <1>1, <1>2, SteadyInit, KeptInit, PTL DEF LivepatchSpec

-------------------------------------------------------------------------------
(* PackageReports, for every set of packages and every number of publications. *)

\* A version is never in a pocket of ESM and in one of Ubuntu.
Apart(versions) ==
    \A p \in Packages, k \in Esm, j \in Ubuntu : versions[p][k] # 0 => versions[p][k] # versions[p][j]

\* What apt knows of ESM it has from the services whose indexes it has.
ListsFit == \A p \in Packages, k \in Esm : lists[p][k] # 0 => Covers[p] \in machine.fetched

\* The services that the private cache may tell of.
Timely(s) == release = "esm" \/ (release = "lts" /\ s = "esm-apps")
Eligible(s) == s \in available /\ Timely(s)
FileRight(s) == s \in private.files <=> ~Enabled(s) /\ Eligible(s)

\* Sources and indexes, and how far an operation got with them.
SourcesFit ==
    /\ machine.sources = machine.fetched
                         \cup (IF op.kind = "enable" /\ op.at = "update" THEN {op.service} ELSE {})
    /\ machine.sources # {} => machine.attached
    /\ machine.entitled \subseteq available /\ machine.sources \subseteq available
    /\ op.at = "idle" <=> op.kind = "none"
    /\ op.at # "idle" => machine.attached /\ op.service \in raced /\ op.service \in available
    /\ op.kind = "enable" /\ op.at \in {"motd", "private"} => op.service \in machine.fetched
    /\ op.kind = "enable" /\ op.at \in {"write", "update"} => op.service \notin machine.fetched
    /\ op.kind = "disable" /\ op.at # "write" => op.service \notin machine.sources

\* What the job made sure of, if nothing interfered.
JobFits ==
    /\ job.at # "idle" => release # "interim"
    /\ job.at \in {"decide_infra", "act_infra"} => release = "esm"
    /\ job.at # "idle" /\ job.quiet => op.at = "idle"
    /\ job.at \in {"act_apps", "act_infra"} /\ (job.quiet \/ ServiceAt \notin raced) =>
        job.set_up = (ServiceAt \in available /\ ~Enabled(ServiceAt))
    /\ job.at \in {"act_apps", "act_infra"} /\ job.set_up => ServiceAt \in available
    /\ job.at \in {"decide_infra", "act_infra", "fetch"} /\ job.quiet => FileRight("esm-apps")
    /\ job.at = "fetch" /\ job.quiet => FileRight("esm-infra")

FilesFit == /\ \A s \in private.files : Eligible(s)
            /\ \A s \in Services : Settled(s) => FileRight(s)

ReportInv == ReportTypeOK /\ Apart(archive) /\ Apart(lists) /\ ListsFit /\ SourcesFit /\ JobFits /\ FilesFit

-----------------------------------------------------------------------------
(* Versions and types. *)

\* A set of numbers has a least one: what induction over a file rests on.
LEMMA LeastNumber == ASSUME NEW T, T \subseteq Nat, T # {} PROVE \E x \in T : \A y \in T : x <= y
<1> DEFINE R == OpToRel(<, Nat)
<1>1. IsWellFoundedOn(R, Nat)
  BY NatLessThanWellFounded
<1>2. \A x, y \in Nat : y < x => <<y, x>> \in R
  BY DEF OpToRel
<1> HIDE DEF R
<1>3. \E x \in T : \A y \in T : ~ (<<y, x>> \in R)
  BY <1>1, WFMin
<1>4. PICK x \in T : \A y \in T : ~ (<<y, x>> \in R)
  BY <1>3
<1>5. ASSUME NEW y \in T PROVE x <= y
  <2>1. x \in Nat /\ y \in Nat
    BY <1>4, <1>5
  <2>2. ~(y < x)
    BY <1>2, <1>4, <2>1
  <2> QED
    BY <2>1, <2>2
<1> QED
  BY <1>4, <1>5

LEMMA LargestOf ==
    ASSUME NEW M \in Nat, NEW S \in SUBSET (0..M), S # {}
    PROVE  Largest(S) \in S /\ \A w \in S : Largest(S) >= w
<1> DEFINE T == {M - v : v \in S}
<1>1. T \subseteq Nat /\ T # {}
  <2>1. \A v \in S : v \in 0..M /\ M - v \in Nat
    OBVIOUS
  <2>2. PICK v : v \in S
    OBVIOUS
  <2>3. M - v \in T
    BY <2>2
  <2> QED
    BY <2>1, <2>3
<1>2. PICK x \in T : \A y \in T : x <= y
  <2> HIDE DEF T
  <2> QED
    BY <1>1, LeastNumber
<1>3. PICK v \in S : x = M - v
  BY <1>2
<1>4. \A w \in S : v >= w
  <2>1. ASSUME NEW w \in S PROVE v >= w
    <3>1. M - w \in T /\ w \in 0..M /\ v \in 0..M
      OBVIOUS
    <3>2. M - v <= M - w
      BY <1>2, <1>3, <3>1
    <3> QED
      BY <3>1, <3>2
  <2> QED
    BY <2>1
<1> QED
  BY <1>3, <1>4 DEF Largest

LEMMA ReportTypes ==
    ASSUME ReportTypeOK
    PROVE  /\ release \in {"lts", "esm", "interim"} /\ MaxVersion \in Nat
           /\ installed \in [Packages -> 0..MaxVersion] /\ pinned \in SUBSET Packages
           /\ machine.attached \in BOOLEAN /\ machine.entitled \in SUBSET Services
           /\ machine.sources \in SUBSET Services /\ machine.fetched \in SUBSET Services
           /\ private.files \in SUBSET Services
           /\ job.set_up \in BOOLEAN /\ job.quiet \in BOOLEAN
           /\ job.at \in {"idle", "decide_apps", "act_apps", "decide_infra", "act_infra", "fetch"}
           /\ op.kind \in {"none", "enable", "disable"} /\ op.service \in Services
           /\ op.at \in {"idle", "write", "update", "motd", "private"}
           /\ raced \in SUBSET Services
BY PackagesAssumption DEF ReportTypeOK

LEMMA VersionTypes ==
    ASSUME ReportTypeOK, NEW p \in Packages, NEW k \in Pockets
    PROVE  /\ archive[p][k] \in 0..MaxVersion /\ lists[p][k] \in 0..MaxVersion
           /\ private.lists[p][k] \in 0..MaxVersion /\ Covers[p] \in Services
<1>1. /\ archive \in [Packages -> [Pockets -> 0..MaxVersion]]
      /\ lists \in [Packages -> [Pockets -> 0..MaxVersion]]
      /\ private.lists \in [Packages -> [Pockets -> 0..MaxVersion]]
  BY DEF ReportTypeOK
<1>2. /\ archive[p] \in [Pockets -> 0..MaxVersion] /\ lists[p] \in [Pockets -> 0..MaxVersion]
      /\ private.lists[p] \in [Pockets -> 0..MaxVersion]
  BY <1>1
<1> QED
  BY <1>2, PackagesAssumption

\* apt's candidate is a version of the package that is no downgrade.
LEMMA CandidateOf ==
    ASSUME ReportTypeOK, NEW p \in Packages
    PROVE  /\ Candidate(p) \in 0..MaxVersion /\ Candidate(p) >= installed[p]
           /\ Candidate(p) # installed[p] =>
                \E k \in Pockets : lists[p][k] = Candidate(p) /\ lists[p][k] # 0
<1> DEFINE S == {installed[p]} \cup IF p \in pinned THEN {lists[p][k] : k \in Ubuntu} ELSE Known(p)
<1>1. installed[p] \in 0..MaxVersion /\ MaxVersion \in Nat
  BY ReportTypes
<1>2. \A k \in Pockets : lists[p][k] \in 0..MaxVersion
  BY VersionTypes
<1>3. Ubuntu \subseteq Pockets
  BY DEF Pockets
<1>4. S \in SUBSET (0..MaxVersion) /\ installed[p] \in S
  BY <1>1, <1>2, <1>3 DEF Known
<1>5. \A v \in S : v = installed[p] \/ v = 0 \/ \E k \in Pockets : lists[p][k] = v
  BY <1>3 DEF Known
<1>6. Candidate(p) = Largest(S)
  BY DEF Candidate
<1> HIDE DEF S
<1>7. Largest(S) \in S /\ Largest(S) >= installed[p] /\ Largest(S) \in 0..MaxVersion
  <2>1. Largest(S) \in S /\ \A w \in S : Largest(S) >= w
    BY <1>1, <1>4, LargestOf
  <2> QED
    BY <1>4, <2>1
<1>8. Largest(S) # installed[p] => Largest(S) # 0
  BY <1>1, <1>7
<1> QED
  BY <1>5, <1>6, <1>7, <1>8

LEMMA FetchedTypes ==
    ASSUME ReportTypeOK, NEW p \in Packages, NEW T
    PROVE  Fetched(p, T) \in [Pockets -> 0..MaxVersion]
<1>1. \A k \in Pockets : archive[p][k] \in 0..MaxVersion
  BY VersionTypes
<1>2. 0 \in 0..MaxVersion
  BY ReportTypes
<1> QED
  BY <1>1, <1>2 DEF Fetched

\* Indexes as the archive has them.
LEMMA FetchedFits ==
    ASSUME ReportTypeOK, Apart(archive), NEW p \in Packages, NEW T, NEW k \in Esm
    PROVE  /\ Fetched(p, T)[k] # 0 => Covers[p] \in T
           /\ \A j \in Ubuntu : Fetched(p, T)[k] # 0 => Fetched(p, T)[k] # Fetched(p, T)[j]
<1>1. k \in Pockets /\ k \notin Ubuntu /\ Ubuntu \subseteq Pockets
  BY DEF Pockets, Esm, Ubuntu
<1>2. Fetched(p, T)[k] = (IF Covers[p] \in T THEN archive[p][k] ELSE 0)
  BY <1>1 DEF Fetched
<1>3. \A j \in Ubuntu : Fetched(p, T)[j] = archive[p][j]
  BY <1>1 DEF Fetched
<1> QED
  BY <1>2, <1>3 DEF Apart

-----------------------------------------------------------------------------
(* The invariant. *)

LEMMA EnabledKept == ASSUME machine' = machine, NEW s PROVE Enabled(s)' = Enabled(s)
BY DEF Enabled

LEMMA RightKept ==
    ASSUME machine' = machine, private'.files = private.files, release' = release,
           available' = available, NEW s
    PROVE  FileRight(s)' = FileRight(s)
BY DEF FileRight, Enabled, Eligible, Timely

LEMMA NoServiceEnabled == ASSUME machine.sources = {}, NEW s PROVE ~Enabled(s)
BY DEF Enabled

LEMMA ReportInitHolds == ReportInit => ReportInv
<1> SUFFICES ASSUME ReportInit PROVE ReportInv
  OBVIOUS
<1>1. NoVersions \in [Packages -> [Pockets -> 0..MaxVersion]]
  BY PackagesAssumption DEF NoVersions
<1>2. /\ archive \in [Packages -> [Pockets -> 0..MaxVersion]] /\ Apart(archive)
  <2>1. CASE archive = NoVersions
    BY <1>1, <2>1 DEF Apart, NoVersions, Pockets
  <2>2. CASE archive # NoVersions
    <3> DEFINE first == [k \in Pockets |-> IF k \in Ubuntu THEN 1 ELSE 0]
    <3>1. PICK p \in Packages : archive = [NoVersions EXCEPT ![p] = first]
      BY <2>2 DEF ReportInit, LastStandard
    <3>2. first \in [Pockets -> 0..MaxVersion]
      BY PackagesAssumption
    <3>3. archive \in [Packages -> [Pockets -> 0..MaxVersion]]
      BY <1>1, <3>1, <3>2
    <3>4. \A q \in Packages, k \in Esm : archive[q][k] = 0
      <4>1. \A k \in Esm : k \in Pockets /\ k \notin Ubuntu
        BY DEF Esm, Ubuntu, Pockets
      <4>2. \A q \in Packages : archive[q] = IF q = p THEN first ELSE [k \in Pockets |-> 0]
        BY <3>1 DEF NoVersions
      <4> QED
        BY <4>1, <4>2
    <3> QED
      BY <3>3, <3>4 DEF Apart
  <2> QED
    BY <2>1, <2>2
<1>3. Apart(NoVersions)
  BY DEF Apart, NoVersions, Pockets
<1>4. /\ lists = NoVersions /\ machine.sources = {} /\ machine.fetched = {} /\ private.files = {}
      /\ job = NoJob /\ op = NoOp /\ raced = Services /\ release \in {"lts", "esm", "interim"}
      /\ installed = [p \in Packages |-> 0] /\ pinned \in SUBSET Packages
      /\ private = [files |-> {}, lists |-> NoVersions]
      /\ available \in SUBSET Services
      /\ machine \in [attached : BOOLEAN, entitled : SUBSET available,
                      sources : {{}}, fetched : {{}}]
  BY DEF ReportInit
<1>5. ReportTypeOK
  <2>1. machine \in [attached : BOOLEAN, entitled : SUBSET Services,
                     sources : SUBSET Services, fetched : SUBSET Services]
    BY <1>4
  <2>2. private \in [files : SUBSET Services, lists : [Packages -> [Pockets -> 0..MaxVersion]]]
    BY <1>1, <1>4
  <2>3. installed \in [Packages -> 0..MaxVersion]
    BY <1>4, PackagesAssumption
  <2>4. op \in [kind : {"none", "enable", "disable"}, service : Services,
                at : {"idle", "write", "update", "motd", "private"}]
    BY <1>4 DEF NoOp, Services
  <2>5. job \in [at : {"idle", "decide_apps", "act_apps", "decide_infra", "act_infra", "fetch"},
                 set_up : BOOLEAN, quiet : BOOLEAN]
    BY <1>4 DEF NoJob
  <2> QED
    BY <1>1, <1>2, <1>4, <2>1, <2>2, <2>3, <2>4, <2>5 DEF ReportTypeOK
<1>6. ListsFit
  BY <1>4 DEF ListsFit, NoVersions, Pockets
<1>7. SourcesFit
  BY <1>4 DEF SourcesFit, NoOp
<1>8. JobFits
  BY <1>4 DEF JobFits, NoJob
<1>9. FilesFit
  BY <1>4 DEF FilesFit, Settled
<1> QED
  BY <1>2, <1>3, <1>4, <1>5, <1>6, <1>7, <1>8, <1>9 DEF ReportInv

\* The job.
LEMMA JobDecideHolds == ASSUME ReportInv, JobDecide PROVE ReportInv'
<1>1. ReportTypeOK /\ JobFits /\ SourcesFit /\ FilesFit
  BY DEF ReportInv
<1>2. /\ job.at \in {"decide_apps", "decide_infra"}
      /\ UNCHANGED <<release, available, archive, installed, pinned, machine, lists, private, op, raced>>
      /\ job' = [job EXCEPT !.at = IF ServiceAt = "esm-apps" THEN "act_apps" ELSE "act_infra",
                            !.set_up = ServiceAt \in available /\ ~Enabled(ServiceAt)]
  BY DEF JobDecide, world
<1>3. /\ job'.quiet = job.quiet /\ job'.set_up = (ServiceAt \in available /\ ~Enabled(ServiceAt))
      /\ job'.at = IF job.at = "decide_apps" THEN "act_apps" ELSE "act_infra"
  BY <1>1, <1>2 DEF ReportTypeOK, ServiceAt
<1>4. ServiceAt' = ServiceAt
  BY <1>2, <1>3 DEF ServiceAt
<1>5. \A s : Enabled(s)' = Enabled(s) /\ FileRight(s)' = FileRight(s)
  BY <1>2, EnabledKept, RightKept
<1>6. ReportTypeOK'
  BY <1>1, <1>2 DEF ReportTypeOK, Enabled
<1>7. JobFits'
  <2>1. job'.set_up = (ServiceAt \in available /\ ~Enabled(ServiceAt))'
    BY <1>2, <1>3, <1>4 DEF Enabled
  <2>2. job'.set_up => ServiceAt' \in available'
    BY <2>1
  <2> QED
    BY <1>1, <1>2, <1>3, <1>5, <2>1, <2>2 DEF JobFits
<1>8. SourcesFit' /\ FilesFit'
  BY <1>1, <1>2, <1>5 DEF SourcesFit, FilesFit, Settled, Eligible, Timely
<1> QED
  BY <1>2, <1>6, <1>7, <1>8 DEF ReportInv, Apart, ListsFit

LEMMA JobActHolds == ASSUME ReportInv, JobAct PROVE ReportInv'
<1>1. ReportTypeOK /\ JobFits /\ SourcesFit /\ FilesFit
  BY DEF ReportInv
<1>2. /\ job.at \in {"act_apps", "act_infra"}
      /\ UNCHANGED <<release, available, archive, installed, pinned, machine, lists, op, raced>>
      /\ private' = [private EXCEPT !.files = IF job.set_up THEN @ \cup {ServiceAt}
                                                            ELSE @ \ {ServiceAt}]
      /\ job' = [job EXCEPT !.at = IF ServiceAt = "esm-apps" /\ release = "esm"
                                   THEN "decide_infra" ELSE "fetch"]
  BY DEF JobAct, world
<1>3. /\ job'.quiet = job.quiet /\ job'.set_up = job.set_up
      /\ job'.at = IF ServiceAt = "esm-apps" /\ release = "esm" THEN "decide_infra" ELSE "fetch"
      /\ private'.files = IF job.set_up THEN private.files \cup {ServiceAt}
                                        ELSE private.files \ {ServiceAt}
      /\ private'.lists = private.lists
  BY <1>1, <1>2 DEF ReportTypeOK
<1>4. ServiceAt = IF job.at = "act_apps" THEN "esm-apps" ELSE "esm-infra"
  BY <1>2 DEF ServiceAt
<1>5. release \in {"lts", "esm", "interim"} /\ Timely(ServiceAt)
  BY <1>1, <1>2, <1>4, ReportTypes DEF JobFits, Timely
<1>6. \A s : Enabled(s)' = Enabled(s) /\ Eligible(s)' = Eligible(s)
  BY <1>2, EnabledKept DEF Eligible, Timely
<1>7. \A s \in Services : s # ServiceAt => FileRight(s)' = FileRight(s)
  BY <1>3, <1>6 DEF FileRight
<1>8. \A s \in Services : s = ServiceAt /\ (job.quiet \/ s \notin raced) => FileRight(s)'
  <2>1. ASSUME NEW s \in Services, s = ServiceAt, job.quiet \/ s \notin raced
        PROVE  FileRight(s)'
    <3>1. job.set_up = (~Enabled(s) /\ Eligible(s))
      BY <1>1, <1>2, <1>5, <2>1 DEF JobFits, Eligible
    <3>2. s \in private'.files <=> job.set_up
      BY <1>1, <1>3, <2>1, ReportTypes
    <3> QED
      BY <1>6, <3>1, <3>2 DEF FileRight
  <2> QED
    BY <2>1
<1>9. ReportTypeOK'
  <2>1. ServiceAt \in Services
    BY <1>4 DEF Services
  <2>2. private'.files \in SUBSET Services
    BY <1>1, <1>3, <2>1, ReportTypes
  <2>3. private' \in [files : SUBSET Services, lists : [Packages -> [Pockets -> 0..MaxVersion]]]
    BY <1>1, <1>2, <1>3, <2>2 DEF ReportTypeOK
  <2>4. job' \in [at : {"idle", "decide_apps", "act_apps", "decide_infra", "act_infra", "fetch"},
                  set_up : BOOLEAN, quiet : BOOLEAN]
    BY <1>1, <1>2 DEF ReportTypeOK
  <2> QED
    BY <1>1, <1>2, <2>3, <2>4 DEF ReportTypeOK
<1>10. FilesFit'
  <2>1. \A s \in private'.files : Eligible(s)'
    <3>1. job.set_up => ServiceAt \in available
      BY <1>1, <1>2 DEF JobFits
    <3>2. job.set_up => Eligible(ServiceAt)
      BY <1>5, <3>1 DEF Eligible
    <3> QED
      BY <1>1, <1>3, <1>6, <3>2 DEF FilesFit
  <2>2. \A s \in Services : s \notin raced => FileRight(s)'
    BY <1>1, <1>7, <1>8 DEF FilesFit, Settled
  <2> QED
    BY <1>2, <2>1, <2>2 DEF FilesFit, Settled
<1>11. JobFits'
  <2>1. job'.at = "decide_infra" => release = "esm"
    BY <1>3
  <2>2. job.quiet => FileRight("esm-apps")'
    <3>1. CASE job.at = "act_apps"
      <4>1. ServiceAt = "esm-apps"
        BY <1>4, <3>1
      <4> QED
        BY <1>8, <4>1 DEF Services
    <3>2. CASE job.at = "act_infra"
      <4>1. ServiceAt # "esm-apps"
        BY <1>4, <3>2
      <4>2. job.quiet => FileRight("esm-apps")
        BY <1>1, <3>2 DEF JobFits
      <4> QED
        BY <1>7, <4>1, <4>2 DEF Services
    <3> QED
      BY <1>2, <3>1, <3>2
  <2>3. job.quiet /\ job'.at = "fetch" => FileRight("esm-infra")'
    <3>1. CASE job.at = "act_apps" /\ release # "esm"
      <4>1. "esm-infra" \notin private'.files
        <5>1. ServiceAt # "esm-infra" /\ ~Eligible("esm-infra")
          BY <1>4, <3>1 DEF Eligible, Timely
        <5>2. "esm-infra" \notin private.files
          BY <1>1, <5>1 DEF FilesFit
        <5> QED
          BY <1>3, <5>1, <5>2
      <4>2. ~Eligible("esm-infra")'
        BY <1>6, <3>1 DEF Eligible, Timely
      <4> QED
        BY <4>1, <4>2 DEF FileRight
    <3>2. CASE job.at = "act_infra"
      <4>1. ServiceAt = "esm-infra"
        BY <1>4, <3>2
      <4> QED
        BY <1>8, <4>1 DEF Services
    <3> QED
      BY <1>2, <1>3, <1>4, <3>1, <3>2
  <2> QED
    BY <1>1, <1>2, <1>3, <2>1, <2>2, <2>3 DEF JobFits
<1>12. SourcesFit'
  BY <1>1, <1>2 DEF SourcesFit
<1> QED
  BY <1>2, <1>9, <1>10, <1>11, <1>12 DEF ReportInv, Apart, ListsFit

LEMMA JobFetchHolds == ASSUME ReportInv, JobFetch PROVE ReportInv'
<1>1. ReportTypeOK /\ JobFits /\ SourcesFit /\ FilesFit
  BY DEF ReportInv
<1>2. /\ job.at = "fetch" /\ job' = NoJob /\ raced' = (IF job.quiet THEN {} ELSE raced)
      /\ UNCHANGED <<release, available, archive, installed, pinned, machine, lists, op>>
  BY DEF JobFetch, world
<1>3. private'.files = private.files
      /\ private' \in [files : SUBSET Services, lists : [Packages -> [Pockets -> 0..MaxVersion]]]
  <2>1. CASE UNCHANGED private
    BY <1>1, <2>1 DEF ReportTypeOK
  <2>2. CASE ~ UNCHANGED private
    <3> DEFINE new == [p \in Packages |-> [k \in Pockets |->
                         IF k \in Esm /\ Covers[p] \in private.files THEN archive[p][k] ELSE 0]]
    <3>1. private' = [private EXCEPT !.lists = new]
      BY <2>2 DEF JobFetch
    <3>2. new \in [Packages -> [Pockets -> 0..MaxVersion]]
      <4>1. \A p \in Packages, k \in Pockets : archive[p][k] \in 0..MaxVersion
        BY <1>1, VersionTypes
      <4>2. 0 \in 0..MaxVersion
        BY PackagesAssumption
      <4> QED
        BY <4>1, <4>2
    <3> HIDE DEF new
    <3> QED
      BY <1>1, <3>1, <3>2 DEF ReportTypeOK
  <2> QED
    BY <2>1, <2>2
<1>4. \A s : FileRight(s)' = FileRight(s) /\ Eligible(s)' = Eligible(s) /\ Enabled(s)' = Enabled(s)
  BY <1>2, <1>3 DEF FileRight, Eligible, Timely, Enabled
<1>5. ReportTypeOK'
  BY <1>1, <1>2, <1>3 DEF ReportTypeOK, NoJob
<1>6. JobFits'
  BY <1>2 DEF JobFits, NoJob
<1>7. SourcesFit'
  BY <1>1, <1>2 DEF SourcesFit, JobFits
<1>8. FilesFit'
  <2>1. \A s \in Services : s \notin raced' => FileRight(s)
    BY <1>1, <1>2 DEF FilesFit, JobFits, Settled, Services
  <2> QED
    BY <1>1, <1>3, <1>4, <2>1 DEF FilesFit, Settled
<1> QED
  BY <1>2, <1>5, <1>6, <1>7, <1>8 DEF ReportInv, Apart, ListsFit

LEMMA JobFailsHolds == ASSUME ReportInv, JobFails PROVE ReportInv'
<1>1. ReportTypeOK /\ SourcesFit /\ FilesFit
  BY DEF ReportInv
<1>2. job' = NoJob /\ UNCHANGED <<release, available, archive, installed, pinned, machine, lists, private, op, raced>>
  BY DEF JobFails, world
<1>3. ReportTypeOK'
  BY <1>1, <1>2 DEF ReportTypeOK, NoJob
<1>4. JobFits'
  BY <1>2 DEF JobFits, NoJob
<1>5. SourcesFit' /\ FilesFit'
  BY <1>1, <1>2 DEF SourcesFit, FilesFit, Settled, FileRight, Eligible, Timely, Enabled
<1> QED
  BY <1>2, <1>3, <1>4, <1>5 DEF ReportInv, Apart, ListsFit

\* What the archive, the user and apt do beside them.
LEMMA UpgradeHolds == ASSUME ReportInv, NEW p \in Packages, Upgrade(p) PROVE ReportInv'
<1>1. ReportTypeOK /\ SourcesFit /\ FilesFit /\ JobFits
  BY DEF ReportInv
<1>2. /\ installed' = [installed EXCEPT ![p] = Candidate(p)]
      /\ UNCHANGED <<release, available, archive, pinned, machine, lists, private, job, op, raced>>
  BY DEF Upgrade
<1>3. Candidate(p) \in 0..MaxVersion
  BY <1>1, CandidateOf
<1>4. ReportTypeOK'
  BY <1>1, <1>2, <1>3 DEF ReportTypeOK
<1>5. JobFits' /\ SourcesFit' /\ FilesFit'
  BY <1>1, <1>2 DEF JobFits, SourcesFit, FilesFit, Settled, FileRight, Eligible, Timely, Enabled, ServiceAt
<1> QED
  BY <1>2, <1>4, <1>5 DEF ReportInv, Apart, ListsFit

LEMMA PublishHolds == ASSUME ReportInv, NEW p \in Packages, PublishVersion(p) PROVE ReportInv'
<1> DEFINE S == {0} \cup {archive[q][k] : q \in Packages, k \in Pockets}
           v == NextVersion
<1>1. ReportTypeOK /\ SourcesFit /\ FilesFit /\ JobFits /\ Apart(archive)
  BY DEF ReportInv
<1>2. PICK K \in {{"esm-security"}, {"esm-updates"}, Ubuntu, {"updates"}} :
        archive' = [archive EXCEPT ![p] = [k \in Pockets |-> IF k \in K THEN v ELSE archive[p][k]]]
  BY DEF PublishVersion
<1>3. UNCHANGED <<release, available, installed, pinned, machine, lists, private, job, op, raced>>
      /\ v <= MaxVersion
  BY DEF PublishVersion
<1>4. S \in SUBSET (0..MaxVersion) /\ 0 \in S /\ MaxVersion \in Nat
  BY <1>1, VersionTypes, PackagesAssumption
<1>5. /\ \A q \in Packages, k \in Pockets : archive[q][k] \in 0..MaxVersion /\ archive[q][k] < v
      /\ v \in 0..MaxVersion /\ v # 0
  <2>1. \A q \in Packages, k \in Pockets : archive[q][k] \in S
    OBVIOUS
  <2>2. v = 1 + Largest(S)
    BY DEF NextVersion
  <2> HIDE DEF S, v
  <2>3. Largest(S) \in S /\ \A w \in S : Largest(S) >= w
    BY <1>4, LargestOf
  <2>4. Largest(S) \in Nat
    <3>1. \A x \in S : x \in Nat
      BY <1>4
    <3> QED
      BY <2>3, <3>1
  <2>5. \A q \in Packages, k \in Pockets : archive[q][k] \in 0..MaxVersion /\ archive[q][k] <= Largest(S)
    BY <1>1, <2>1, <2>3, VersionTypes
  <2> QED
    BY <1>3, <1>4, <2>2, <2>4, <2>5
<1> HIDE DEF v
<1>6. archive' \in [Packages -> [Pockets -> 0..MaxVersion]]
  <2>1. [k \in Pockets |-> IF k \in K THEN v ELSE archive[p][k]] \in [Pockets -> 0..MaxVersion]
    BY <1>5
  <2>2. archive \in [Packages -> [Pockets -> 0..MaxVersion]]
    BY <1>1 DEF ReportTypeOK
  <2> QED
    BY <1>2, <2>1, <2>2
<1>7. \A q \in Packages, k \in Pockets :
        archive'[q][k] = IF q = p /\ k \in K THEN v ELSE archive[q][k]
  BY <1>1, <1>2 DEF ReportTypeOK
<1>8. Apart(archive')
  <2>1. ASSUME NEW q \in Packages, NEW k \in Esm, NEW j \in Ubuntu, archive'[q][k] # 0
        PROVE  archive'[q][k] # archive'[q][j]
    <3>1. k \in Pockets /\ j \in Pockets /\ (k \in K => j \notin K)
      BY DEF Esm, Ubuntu, Pockets
    <3>2. archive[q][k] < v /\ archive[q][j] < v /\ archive[q][k] \in Nat /\ archive[q][j] \in Nat /\ v \in Nat
      BY <1>5, <3>1
    <3>3. archive[q][k] # 0 => archive[q][k] # archive[q][j]
      BY <1>1 DEF Apart
    <3>4. /\ archive'[q][k] = IF q = p /\ k \in K THEN v ELSE archive[q][k]
          /\ archive'[q][j] = IF q = p /\ j \in K THEN v ELSE archive[q][j]
      BY <1>7, <3>1
    <3> QED
      BY <2>1, <3>1, <3>2, <3>3, <3>4
  <2> QED
    BY <2>1 DEF Apart
<1>9. ReportTypeOK'
  BY <1>1, <1>3, <1>6 DEF ReportTypeOK
<1>10. JobFits' /\ SourcesFit' /\ FilesFit'
  BY <1>1, <1>3 DEF JobFits, SourcesFit, FilesFit, Settled, FileRight, Eligible, Timely, Enabled, ServiceAt
<1> QED
  BY <1>3, <1>8, <1>9, <1>10 DEF ReportInv, Apart, ListsFit

\* enable and disable.
LEMMA EnabledSame ==
    ASSUME machine'.attached = machine.attached, NEW s,
           s \in machine'.sources \cap machine'.fetched <=> s \in machine.sources \cap machine.fetched
    PROVE  Enabled(s)' = Enabled(s)
BY DEF Enabled

LEMMA UnsettleOf ==
    ASSUME ReportTypeOK, NEW j,
           j \in [at : {"idle", "decide_apps", "act_apps", "decide_infra", "act_infra", "fetch"},
                  set_up : BOOLEAN, quiet : BOOLEAN]
    PROVE  /\ Unsettle(j) \in [at : {"idle", "decide_apps", "act_apps", "decide_infra", "act_infra", "fetch"},
                               set_up : BOOLEAN, quiet : BOOLEAN]
           /\ Unsettle(j).at = j.at /\ Unsettle(j).set_up = j.set_up /\ ~Unsettle(j).quiet
BY DEF Unsettle

\* An operation that begins: the job beside it no longer counts.
LEMMA StartHolds ==
    ASSUME ReportInv, NEW s \in Services, StartEnable(s) \/ StartDisable(s)
    PROVE  ReportInv'
<1>1. ReportTypeOK /\ SourcesFit /\ FilesFit /\ JobFits
  BY DEF ReportInv
<1>2. /\ op.at = "idle" /\ machine.attached /\ raced' = raced \cup {s} /\ job' = Unsettle(job)
      /\ UNCHANGED <<release, available, archive, installed, pinned, machine, lists, private>>
      /\ \/ op' = [kind |-> "enable", service |-> s, at |-> "write"] /\ s \notin machine.sources
         \/ op' = [kind |-> "disable", service |-> s, at |-> "write"]
      /\ s \in available
  BY <1>1 DEF StartEnable, StartDisable, world, Enabled, SourcesFit
<1>3. /\ job' \in [at : {"idle", "decide_apps", "act_apps", "decide_infra", "act_infra", "fetch"},
                   set_up : BOOLEAN, quiet : BOOLEAN]
      /\ job'.at = job.at /\ job'.set_up = job.set_up /\ ~job'.quiet
  BY <1>1, <1>2, UnsettleOf DEF ReportTypeOK
<1>4. op' \in [kind : {"none", "enable", "disable"}, service : Services,
               at : {"idle", "write", "update", "motd", "private"}]
  BY <1>2
<1>5. \A x : Enabled(x)' = Enabled(x) /\ FileRight(x)' = FileRight(x) /\ Eligible(x)' = Eligible(x)
  BY <1>2 DEF Enabled, FileRight, Eligible, Timely
<1>6. ServiceAt' = ServiceAt
  BY <1>3 DEF ServiceAt
<1>7. ReportTypeOK'
  BY <1>1, <1>2, <1>3, <1>4 DEF ReportTypeOK
<1>8. SourcesFit'
  <2>1. machine.sources = machine.fetched
    BY <1>1, <1>2 DEF SourcesFit
  <2> QED
    BY <1>1, <1>2, <2>1 DEF SourcesFit
<1>9. JobFits'
  <2>1. job'.at \in {"act_apps", "act_infra"} /\ ServiceAt \notin raced' =>
          job'.set_up = (ServiceAt \in available /\ ~Enabled(ServiceAt))
    BY <1>1, <1>2, <1>3 DEF JobFits
  <2>2. job'.at \in {"act_apps", "act_infra"} /\ (job'.quiet \/ ServiceAt' \notin raced') =>
          job'.set_up = (ServiceAt \in available /\ ~Enabled(ServiceAt))'
    <3>1. (ServiceAt \in available /\ ~Enabled(ServiceAt))' = (ServiceAt \in available /\ ~Enabled(ServiceAt))
      BY <1>2, <1>6 DEF Enabled
    <3> QED
      BY <1>3, <1>6, <2>1, <3>1
  <2>3. job'.at \in {"act_apps", "act_infra"} /\ job'.set_up => ServiceAt' \in available'
    BY <1>1, <1>2, <1>3, <1>6 DEF JobFits
  <2> QED
    BY <1>1, <1>2, <1>3, <2>2, <2>3 DEF JobFits
<1>10. FilesFit'
  BY <1>1, <1>2, <1>5 DEF FilesFit, Settled
<1> QED
  BY <1>2, <1>7, <1>8, <1>9, <1>10 DEF ReportInv, Apart, ListsFit

LEMMA OpTypes ==
    ASSUME ReportTypeOK
    PROVE  op \in [kind : {"none", "enable", "disable"}, service : Services,
                   at : {"idle", "write", "update", "motd", "private"}]
BY DEF ReportTypeOK

LEMMA WriteSourceHolds == ASSUME ReportInv, WriteSource PROVE ReportInv'
<1>1. ReportTypeOK /\ SourcesFit /\ FilesFit /\ JobFits
  BY DEF ReportInv
<1>2. /\ op.at = "write" /\ op.kind = "enable" /\ op' = [op EXCEPT !.at = "update"]
      /\ machine' = [machine EXCEPT !.sources = @ \cup {op.service}]
      /\ UNCHANGED <<release, available, archive, installed, pinned, lists, private, job, raced>>
  BY DEF WriteSource, world
<1>3. /\ op'.at = "update" /\ op'.kind = op.kind /\ op'.service = op.service
      /\ op' \in [kind : {"none", "enable", "disable"}, service : Services,
                  at : {"idle", "write", "update", "motd", "private"}]
  BY <1>1, <1>2, OpTypes
<1>4. /\ machine'.sources = machine.sources \cup {op.service} /\ machine'.fetched = machine.fetched
      /\ machine'.attached = machine.attached
      /\ machine' \in [attached : BOOLEAN, entitled : SUBSET Services,
                       sources : SUBSET Services, fetched : SUBSET Services]
  <2>1. machine.sources \cup {op.service} \in SUBSET Services
    BY <1>1, ReportTypes
  <2> QED
    BY <1>1, <1>2, <2>1 DEF ReportTypeOK
<1>5. op.service \notin machine.fetched /\ machine.sources = machine.fetched
  BY <1>1, <1>2 DEF SourcesFit
<1>6. \A s : Enabled(s)' = Enabled(s)
  BY <1>4, <1>5, EnabledSame
<1>7. \A s : FileRight(s)' = FileRight(s) /\ Eligible(s)' = Eligible(s)
  BY <1>2, <1>6 DEF FileRight, Eligible, Timely
<1>8. ReportTypeOK'
  BY <1>1, <1>2, <1>3, <1>4 DEF ReportTypeOK
<1>9. SourcesFit'
  BY <1>1, <1>2, <1>3, <1>4, <1>5 DEF SourcesFit
<1>10. JobFits'
  <2>1. ServiceAt' = ServiceAt /\ Enabled(ServiceAt)' = Enabled(ServiceAt)
    BY <1>2, <1>4, <1>5 DEF ServiceAt, Enabled
  <2>2. ~job.quiet \/ job.at = "idle"
    BY <1>1, <1>2 DEF JobFits
  <2> QED
    BY <1>1, <1>2, <2>1, <2>2 DEF JobFits
<1>11. FilesFit'
  BY <1>1, <1>2, <1>7 DEF FilesFit, Settled
<1> QED
  BY <1>2, <1>4, <1>8, <1>9, <1>10, <1>11 DEF ReportInv, Apart, ListsFit

\* New indexes are as the archive has them.
LEMMA NewListsFit ==
    ASSUME ReportTypeOK, Apart(archive), Apart(lists), ListsFit, machine.fetched \subseteq machine'.fetched,
           lists' \in [Packages -> [Pockets -> 0..MaxVersion]],
           \A p \in Packages : lists'[p] = lists[p] \/ lists'[p] = Fetched(p, machine'.fetched)
    PROVE  Apart(lists)' /\ ListsFit'
<1>1. ASSUME NEW p \in Packages, NEW k \in Esm, lists'[p][k] # 0
      PROVE  Covers[p] \in machine'.fetched /\ \A j \in Ubuntu : lists'[p][k] # lists'[p][j]
  <2>1. CASE lists'[p] = lists[p]
    BY <1>1, <2>1 DEF Apart, ListsFit
  <2>2. CASE lists'[p] = Fetched(p, machine'.fetched)
    BY <1>1, <2>2, FetchedFits
  <2> QED
    BY <2>1, <2>2
<1> QED
  BY <1>1 DEF Apart, ListsFit

\* The same where every index is new.
LEMMA AllListsFit ==
    ASSUME ReportTypeOK, Apart(archive),
           \A p \in Packages : lists'[p] = Fetched(p, machine'.fetched)
    PROVE  Apart(lists)' /\ ListsFit'
<1>1. ASSUME NEW p \in Packages, NEW k \in Esm, lists'[p][k] # 0
      PROVE  Covers[p] \in machine'.fetched /\ \A j \in Ubuntu : lists'[p][k] # lists'[p][j]
  BY <1>1, FetchedFits
<1> QED
  BY <1>1 DEF Apart, ListsFit

LEMMA RemoveSourceHolds == ASSUME ReportInv, RemoveSource PROVE ReportInv'
<1>1. ReportTypeOK /\ SourcesFit /\ FilesFit /\ JobFits /\ Apart(archive)
  BY DEF ReportInv
<1>2. /\ op.at = "write" /\ op.kind = "disable" /\ op' = [op EXCEPT !.at = "update"]
      /\ machine' = [machine EXCEPT !.sources = @ \ {op.service}, !.fetched = @ \ {op.service}]
      /\ lists' = [p \in Packages |-> Fetched(p, machine.fetched \ {op.service})]
      /\ UNCHANGED <<release, available, archive, installed, pinned, private, job, raced>>
  BY DEF RemoveSource, world
<1>3. /\ op'.at = "update" /\ op'.kind = op.kind /\ op'.service = op.service
      /\ op' \in [kind : {"none", "enable", "disable"}, service : Services,
                  at : {"idle", "write", "update", "motd", "private"}]
  BY <1>1, <1>2, OpTypes
<1>4. /\ machine'.sources = machine.sources \ {op.service}
      /\ machine'.fetched = machine.fetched \ {op.service}
      /\ machine'.attached = machine.attached
      /\ machine' \in [attached : BOOLEAN, entitled : SUBSET Services,
                       sources : SUBSET Services, fetched : SUBSET Services]
  BY <1>1, <1>2 DEF ReportTypeOK
<1>5. machine.sources = machine.fetched /\ op.service \in raced /\ machine.attached
  BY <1>1, <1>2 DEF SourcesFit
<1>6. \A s : s # op.service => Enabled(s)' = Enabled(s)
  BY <1>4, EnabledSame
<1>7. \A s : s \notin raced => FileRight(s)' = FileRight(s)
  BY <1>2, <1>5, <1>6 DEF FileRight, Eligible, Timely
<1>8. lists' \in [Packages -> [Pockets -> 0..MaxVersion]]
  BY <1>1, <1>2, FetchedTypes
<1>9. ReportTypeOK'
  BY <1>1, <1>2, <1>3, <1>4, <1>8 DEF ReportTypeOK
<1>10. Apart(lists)' /\ ListsFit'
  BY <1>1, <1>2, <1>4, AllListsFit
<1>11. SourcesFit'
  BY <1>1, <1>2, <1>3, <1>4, <1>5 DEF SourcesFit
<1>12. JobFits'
  <2>1. ServiceAt' = ServiceAt
    BY <1>2 DEF ServiceAt
  <2>2. ServiceAt \notin raced => Enabled(ServiceAt)' = Enabled(ServiceAt)
    BY <1>4, <1>5, <2>1 DEF Enabled
  <2>3. ~job.quiet \/ job.at = "idle"
    BY <1>1, <1>2 DEF JobFits
  <2> QED
    BY <1>1, <1>2, <2>1, <2>2, <2>3 DEF JobFits
<1>13. FilesFit'
  BY <1>1, <1>2, <1>7 DEF FilesFit, Settled, Eligible, Timely
<1> QED
  BY <1>2, <1>9, <1>10, <1>11, <1>12, <1>13 DEF ReportInv, Apart

\* "apt update" starts the job, which every later operation may disturb.
LEMMA AfterUpdateOf ==
    ASSUME ReportTypeOK
    PROVE  /\ JobAfterUpdate \in [at : {"idle", "decide_apps", "act_apps", "decide_infra", "act_infra", "fetch"},
                                  set_up : BOOLEAN, quiet : BOOLEAN]
           /\ \/ JobAfterUpdate = job
              \/ /\ JobAfterUpdate.at = "decide_apps" /\ release # "interim"
                 /\ JobAfterUpdate.quiet => op.at = "idle"
<1>1. (op.at = "idle") \in BOOLEAN
  OBVIOUS
<1> QED
  BY DEF JobAfterUpdate, ReportTypeOK

LEMMA UpdateListsHolds == ASSUME ReportInv, UpdateLists PROVE ReportInv'
<1>1. ReportTypeOK /\ SourcesFit /\ FilesFit /\ JobFits /\ Apart(archive) /\ Apart(lists) /\ ListsFit
  BY DEF ReportInv
<1>2. /\ op.at = "update" /\ op' = [op EXCEPT !.at = "motd"]
      /\ machine' = [machine EXCEPT !.fetched = IF op.kind = "enable" THEN @ \cup {op.service}
                                                                      ELSE machine.sources]
      /\ lists' = [p \in Packages |-> IF op.kind = "enable" /\ Covers[p] # op.service
                                      THEN lists[p] ELSE Fetched(p, machine'.fetched)]
      /\ job' = Unsettle(JobAfterUpdate)
      /\ UNCHANGED <<release, available, archive, installed, pinned, private, raced>>
  BY DEF UpdateLists, world
<1>3. /\ op'.at = "motd" /\ op'.kind = op.kind /\ op'.service = op.service
      /\ op' \in [kind : {"none", "enable", "disable"}, service : Services,
                  at : {"idle", "write", "update", "motd", "private"}]
  BY <1>1, <1>2, OpTypes
<1>4. /\ machine'.sources = machine.sources /\ machine'.fetched = machine.sources
      /\ machine'.attached = machine.attached
      /\ machine' \in [attached : BOOLEAN, entitled : SUBSET Services,
                       sources : SUBSET Services, fetched : SUBSET Services]
  <2>1. op.kind = "enable" => machine.sources = machine.fetched \cup {op.service}
    BY <1>1, <1>2 DEF SourcesFit
  <2>2. machine'.fetched = machine.sources
    BY <1>1, <1>2, <2>1 DEF ReportTypeOK
  <2> QED
    BY <1>1, <1>2, <2>2 DEF ReportTypeOK
<1>5. /\ op.service \in raced /\ op.kind # "none"
      /\ op.kind = "enable" => op.service \in machine.sources
      /\ machine.fetched \subseteq machine.sources /\ machine.sources \ {op.service} \subseteq machine.fetched
  BY <1>1, <1>2 DEF SourcesFit
<1>6. \A s : s # op.service => Enabled(s)' = Enabled(s)
  BY <1>4, <1>5, EnabledSame
<1>7. \A s : s \notin raced => FileRight(s)' = FileRight(s)
  BY <1>2, <1>5, <1>6 DEF FileRight, Eligible, Timely
<1>8. lists' \in [Packages -> [Pockets -> 0..MaxVersion]]
  BY <1>1, <1>2, FetchedTypes DEF ReportTypeOK
<1>9. /\ job' \in [at : {"idle", "decide_apps", "act_apps", "decide_infra", "act_infra", "fetch"},
                   set_up : BOOLEAN, quiet : BOOLEAN]
      /\ ~job'.quiet
      /\ \/ job'.at = job.at /\ job'.set_up = job.set_up
         \/ job'.at = "decide_apps" /\ release # "interim"
  BY <1>1, <1>2, AfterUpdateOf, UnsettleOf
<1>10. ReportTypeOK'
  BY <1>1, <1>2, <1>3, <1>4, <1>8, <1>9 DEF ReportTypeOK
<1>11. Apart(lists)' /\ ListsFit'
  <2>1. \A p \in Packages : lists'[p] = lists[p] \/ lists'[p] = Fetched(p, machine'.fetched)
    BY <1>2
  <2>2. machine.fetched \subseteq machine'.fetched
    BY <1>4, <1>5
  <2> QED
    BY <1>1, <1>8, <2>1, <2>2, NewListsFit
<1>12. SourcesFit'
  BY <1>1, <1>2, <1>3, <1>4, <1>5 DEF SourcesFit
<1>13. JobFits'
  <2>1. job'.at = job.at => ServiceAt' = ServiceAt
    BY DEF ServiceAt
  <2>2. \A x : x \notin raced => Enabled(x)' = Enabled(x)
    BY <1>5, <1>6
  <2>3. job'.at = job.at /\ ServiceAt \notin raced => Enabled(ServiceAt)' = Enabled(ServiceAt)
    BY <2>1, <2>2 DEF Enabled
  <2> QED
    BY <1>1, <1>2, <1>9, <2>1, <2>3 DEF JobFits
<1>14. FilesFit'
  BY <1>1, <1>2, <1>7 DEF FilesFit, Settled, Eligible, Timely
<1> QED
  BY <1>2, <1>10, <1>11, <1>12, <1>13, <1>14 DEF ReportInv, Apart

LEMMA UpdateFailsHolds == ASSUME ReportInv, UpdateFails PROVE ReportInv'
<1>1. ReportTypeOK /\ SourcesFit /\ FilesFit /\ JobFits
  BY DEF ReportInv
<1>2. /\ op.at = "update" /\ op' = NoOp
      /\ machine' = [machine EXCEPT !.sources = IF op.kind = "enable" THEN @ \ {op.service} ELSE @]
      /\ UNCHANGED <<release, available, archive, installed, pinned, lists, private, job, raced>>
  BY DEF UpdateFails, world
<1>3. op' \in [kind : {"none", "enable", "disable"}, service : Services,
               at : {"idle", "write", "update", "motd", "private"}] /\ op'.at = "idle" /\ op'.kind = "none"
  BY <1>2 DEF NoOp, Services
<1>4. /\ machine'.sources = machine.fetched /\ machine'.fetched = machine.fetched
      /\ machine'.attached = machine.attached
      /\ machine' \in [attached : BOOLEAN, entitled : SUBSET Services,
                       sources : SUBSET Services, fetched : SUBSET Services]
  <2>1. machine.sources = machine.fetched \cup (IF op.kind = "enable" THEN {op.service} ELSE {})
        /\ (op.kind = "enable" => op.service \notin machine.fetched)
    BY <1>1, <1>2 DEF SourcesFit
  <2>2. machine'.sources = machine.fetched
    BY <1>1, <1>2, <2>1 DEF ReportTypeOK
  <2> QED
    BY <1>1, <1>2, <2>2 DEF ReportTypeOK
<1>5. machine.attached /\ machine.fetched \subseteq machine.sources
  BY <1>1, <1>2 DEF SourcesFit
<1>6. \A s : Enabled(s)' = Enabled(s)
  BY <1>4, <1>5, EnabledSame
<1>7. \A s : FileRight(s)' = FileRight(s) /\ Eligible(s)' = Eligible(s)
  BY <1>2, <1>6 DEF FileRight, Eligible, Timely
<1>8. ReportTypeOK'
  BY <1>1, <1>2, <1>3, <1>4 DEF ReportTypeOK
<1>9. SourcesFit'
  BY <1>1, <1>2, <1>3, <1>4, <1>5 DEF SourcesFit
<1>10. JobFits'
  <2>1. ServiceAt' = ServiceAt /\ Enabled(ServiceAt)' = Enabled(ServiceAt)
    BY <1>2, <1>4, <1>5 DEF ServiceAt, Enabled
  <2>2. ~job.quiet \/ job.at = "idle"
    BY <1>1, <1>2 DEF JobFits
  <2> QED
    BY <1>1, <1>2, <2>1, <2>2 DEF JobFits
<1>11. FilesFit'
  BY <1>1, <1>2, <1>7 DEF FilesFit, Settled
<1> QED
  BY <1>2, <1>4, <1>8, <1>9, <1>10, <1>11 DEF ReportInv, Apart, ListsFit

LEMMA MotdHolds == ASSUME ReportInv, Motd PROVE ReportInv'
<1>1. ReportTypeOK /\ SourcesFit /\ FilesFit /\ JobFits
  BY DEF ReportInv
<1>2. /\ op.at = "motd" /\ (op' = [op EXCEPT !.at = "private"] \/ op' = NoOp)
      /\ UNCHANGED <<release, available, archive, installed, pinned, machine, lists, private, job, raced>>
  BY DEF Motd, world
<1>3. /\ op' \in [kind : {"none", "enable", "disable"}, service : Services,
                  at : {"idle", "write", "update", "motd", "private"}]
      /\ \/ op'.at = "private" /\ op'.kind = op.kind /\ op'.service = op.service
         \/ op'.at = "idle" /\ op'.kind = "none"
  BY <1>1, <1>2, OpTypes DEF NoOp, Services
<1>4. ReportTypeOK'
  BY <1>1, <1>2, <1>3 DEF ReportTypeOK
<1>5. SourcesFit'
  BY <1>1, <1>2, <1>3 DEF SourcesFit
<1>6. JobFits'
  <2>1. ~job.quiet \/ job.at = "idle"
    BY <1>1, <1>2 DEF JobFits
  <2> QED
    BY <1>1, <1>2, <2>1 DEF JobFits, Enabled, ServiceAt
<1>7. FilesFit'
  BY <1>1, <1>2 DEF FilesFit, Settled, FileRight, Eligible, Timely, Enabled
<1> QED
  BY <1>2, <1>4, <1>5, <1>6, <1>7 DEF ReportInv, Apart, ListsFit

LEMMA MindPrivateHolds == ASSUME ReportInv, MindPrivate PROVE ReportInv'
<1>1. ReportTypeOK /\ SourcesFit /\ FilesFit /\ JobFits
  BY DEF ReportInv
<1>2. /\ op.at = "private" /\ op' = NoOp
      /\ private' = [private EXCEPT !.files =
           IF op.kind = "enable" THEN @ \ {op.service}
           ELSE IF Eligible(op.service) THEN @ \cup {op.service} ELSE @]
      /\ raced' = IF job.at = "idle" THEN raced \ {op.service} ELSE raced
      /\ UNCHANGED <<release, available, archive, installed, pinned, machine, lists, job>>
  <2>1. op.at = "private" => op.service \in available
    BY <1>1 DEF SourcesFit
  <2> QED
    BY <2>1 DEF MindPrivate, world, Eligible, Timely
<1>3. op' \in [kind : {"none", "enable", "disable"}, service : Services,
               at : {"idle", "write", "update", "motd", "private"}] /\ op'.at = "idle" /\ op'.kind = "none"
  BY <1>2 DEF NoOp, Services
<1>4. /\ private'.files = (IF op.kind = "enable" THEN private.files \ {op.service}
                           ELSE IF Eligible(op.service) THEN private.files \cup {op.service}
                           ELSE private.files)
      /\ private'.lists = private.lists
      /\ private' \in [files : SUBSET Services, lists : [Packages -> [Pockets -> 0..MaxVersion]]]
  <2> DEFINE new == IF op.kind = "enable" THEN private.files \ {op.service}
                    ELSE IF Eligible(op.service) THEN private.files \cup {op.service}
                    ELSE private.files
  <2>1. private' = [private EXCEPT !.files = new]
    BY <1>2
  <2>2. new \in SUBSET Services
    BY <1>1, ReportTypes
  <2> HIDE DEF new
  <2>3. private \in [files : SUBSET Services, lists : [Packages -> [Pockets -> 0..MaxVersion]]]
    BY <1>1 DEF ReportTypeOK
  <2>4. private'.files = new /\ private'.lists = private.lists
        /\ private' \in [files : SUBSET Services, lists : [Packages -> [Pockets -> 0..MaxVersion]]]
    BY <2>1, <2>2, <2>3
  <2> QED
    BY <2>4 DEF new
<1>5. /\ op.service \in Services /\ op.kind \in {"enable", "disable"}
      /\ machine.sources = machine.fetched /\ machine.attached
      /\ op.kind = "enable" <=> Enabled(op.service)
  <2>1. op.service \in Services /\ op.kind \in {"enable", "disable"}
    BY <1>1, <1>2, ReportTypes DEF SourcesFit
  <2>2. machine.sources = machine.fetched /\ machine.attached
    BY <1>1, <1>2 DEF SourcesFit
  <2>3. op.kind = "enable" => op.service \in machine.fetched
    BY <1>1, <1>2 DEF SourcesFit
  <2>4. op.kind = "disable" => op.service \notin machine.sources
    BY <1>1, <1>2 DEF SourcesFit
  <2> QED
    BY <2>1, <2>2, <2>3, <2>4 DEF Enabled
<1>6. \A s : Enabled(s)' = Enabled(s) /\ Eligible(s)' = Eligible(s)
  BY <1>2 DEF Enabled, Eligible, Timely
<1>7. \A s : s # op.service => FileRight(s)' = FileRight(s)
  BY <1>4, <1>6 DEF FileRight
<1>8. \A s : s = op.service => FileRight(s)'
  <2>1. op.service \in private'.files <=> ~Enabled(op.service) /\ Eligible(op.service)
    <3>1. op.service \in private.files => Eligible(op.service)
      BY <1>1 DEF FilesFit
    <3> QED
      BY <1>4, <1>5, <3>1
  <2> QED
    BY <1>6, <2>1 DEF FileRight
<1>9. ReportTypeOK'
  BY <1>1, <1>2, <1>3, <1>4 DEF ReportTypeOK
<1>10. SourcesFit'
  BY <1>1, <1>2, <1>3, <1>5 DEF SourcesFit
<1>11. JobFits'
  <2>1. ~job.quiet \/ job.at = "idle"
    BY <1>1, <1>2 DEF JobFits
  <2>2. job.at # "idle" => raced' = raced
    BY <1>2
  <2> QED
    BY <1>1, <1>2, <2>1, <2>2 DEF JobFits, Enabled, ServiceAt
<1>12. FilesFit'
  <2>1. \A s \in private'.files : Eligible(s)'
    BY <1>1, <1>4, <1>6 DEF FilesFit
  <2>2. \A s \in Services : s \notin raced' => FileRight(s)'
    <3>1. ASSUME NEW s \in Services, s \notin raced', s # op.service PROVE FileRight(s)'
      BY <1>1, <1>2, <1>7, <3>1 DEF FilesFit, Settled
    <3>2. ASSUME NEW s \in Services, s = op.service PROVE FileRight(s)'
      BY <1>8, <3>2
    <3> QED
      BY <3>1, <3>2
  <2> QED
    BY <2>1, <2>2 DEF FilesFit, Settled
<1> QED
  BY <1>2, <1>9, <1>10, <1>11, <1>12 DEF ReportInv, Apart, ListsFit

LEMMA ToggleAttachedHolds == ASSUME ReportInv, ToggleAttached PROVE ReportInv'
<1>1. ReportTypeOK /\ SourcesFit /\ FilesFit /\ JobFits
  BY DEF ReportInv
<1>2. /\ op.at = "idle" /\ machine' = [machine EXCEPT !.attached = ~@]
      /\ UNCHANGED <<release, available, archive, installed, pinned, lists, private, job, op, raced>>
  BY DEF ToggleAttached, world
<1>3. machine.sources = {} /\ machine.fetched = {}
  BY <1>1, <1>2 DEF SourcesFit, ToggleAttached
<1>4. /\ machine'.sources = {} /\ machine'.fetched = {}
      /\ machine' \in [attached : BOOLEAN, entitled : SUBSET Services,
                       sources : SUBSET Services, fetched : SUBSET Services]
  BY <1>1, <1>2, <1>3 DEF ReportTypeOK
<1>5. \A s : ~Enabled(s)' /\ ~Enabled(s)
  BY <1>3, <1>4 DEF Enabled
<1>6. \A s : FileRight(s)' = FileRight(s) /\ Eligible(s)' = Eligible(s)
  BY <1>2, <1>5 DEF FileRight, Eligible, Timely
<1>7. ReportTypeOK'
  BY <1>1, <1>2, <1>4 DEF ReportTypeOK
<1>8. SourcesFit'
  BY <1>1, <1>2, <1>3, <1>4 DEF SourcesFit
<1>9. JobFits'
  <2>1. ServiceAt' = ServiceAt /\ Enabled(ServiceAt)' = Enabled(ServiceAt)
    BY <1>2, <1>3, <1>4 DEF ServiceAt, Enabled
  <2> QED
    BY <1>1, <1>2, <1>6, <2>1 DEF JobFits
<1>10. FilesFit'
  BY <1>1, <1>2, <1>6 DEF FilesFit, Settled
<1> QED
  BY <1>2, <1>3, <1>4, <1>7, <1>8, <1>9, <1>10 DEF ReportInv, Apart, ListsFit

LEMMA AptUpdateHolds == ASSUME ReportInv, AptUpdate PROVE ReportInv'
<1>1. ReportTypeOK /\ SourcesFit /\ FilesFit /\ JobFits /\ Apart(archive)
  BY DEF ReportInv
<1>2. /\ op.at = "idle" /\ machine' = [machine EXCEPT !.fetched = machine.sources]
      /\ lists' = [p \in Packages |-> Fetched(p, machine.sources)]
      /\ job' = JobAfterUpdate
      /\ UNCHANGED <<release, available, archive, installed, pinned, private, op, raced>>
  BY DEF AptUpdate, world
<1>3. machine.sources = machine.fetched
  BY <1>1, <1>2 DEF SourcesFit
<1>4. machine' = machine
  BY <1>1, <1>2, <1>3 DEF ReportTypeOK
<1>5. lists' \in [Packages -> [Pockets -> 0..MaxVersion]]
  BY <1>1, <1>2, FetchedTypes
<1>6. job' \in [at : {"idle", "decide_apps", "act_apps", "decide_infra", "act_infra", "fetch"},
                set_up : BOOLEAN, quiet : BOOLEAN]
      /\ (job' = job \/ (job'.at = "decide_apps" /\ release # "interim"))
  BY <1>1, <1>2, AfterUpdateOf
<1>7. \A s : Enabled(s)' = Enabled(s) /\ FileRight(s)' = FileRight(s) /\ Eligible(s)' = Eligible(s)
  BY <1>2, <1>4 DEF Enabled, FileRight, Eligible, Timely
<1>8. ReportTypeOK'
  BY <1>1, <1>2, <1>4, <1>5, <1>6 DEF ReportTypeOK
<1>9. Apart(lists)' /\ ListsFit'
  BY <1>1, <1>2, <1>3, <1>4, AllListsFit
<1>10. SourcesFit'
  BY <1>1, <1>2, <1>4 DEF SourcesFit
<1>11. JobFits'
  BY <1>1, <1>2, <1>4, <1>6, <1>7 DEF JobFits, ServiceAt, Enabled
<1>12. FilesFit'
  BY <1>1, <1>2, <1>7 DEF FilesFit, Settled
<1> QED
  BY <1>2, <1>8, <1>9, <1>10, <1>11, <1>12 DEF ReportInv, Apart

LEMMA ReportStep == ReportInv /\ [ReportNext]_reportVars => ReportInv'
<1> SUFFICES ASSUME ReportInv, [ReportNext]_reportVars PROVE ReportInv'
  OBVIOUS
<1>1. CASE UNCHANGED reportVars
  BY <1>1 DEF reportVars, ReportInv, ReportTypeOK, Apart, ListsFit, SourcesFit, JobFits, FilesFit,
       Settled, FileRight, Eligible, Timely, Enabled, ServiceAt
<1>2. CASE JobDecide \/ JobAct \/ JobFetch \/ JobFails
  BY <1>2, JobDecideHolds, JobActHolds, JobFetchHolds, JobFailsHolds
<1>3. ASSUME NEW s \in Services, StartEnable(s) \/ StartDisable(s) PROVE ReportInv'
  BY <1>3, StartHolds
<1>4. CASE WriteSource \/ RemoveSource \/ UpdateLists \/ UpdateFails \/ Motd \/ MindPrivate
  BY <1>4, WriteSourceHolds, RemoveSourceHolds, UpdateListsHolds, UpdateFailsHolds, MotdHolds,
     MindPrivateHolds
<1>5. CASE ToggleAttached \/ AptUpdate
  BY <1>5, ToggleAttachedHolds, AptUpdateHolds
<1>6. ASSUME NEW p \in Packages, Upgrade(p) \/ PublishVersion(p) PROVE ReportInv'
  BY <1>6, UpgradeHolds, PublishHolds
<1> QED
  BY <1>1, <1>2, <1>3, <1>4, <1>5, <1>6 DEF ReportNext

LEMMA ReportAlways == ReportSpec => []ReportInv
BY ReportInitHolds, ReportStep, PTL DEF ReportSpec

\* The values the reports and the job's machine work on: versions within the archive's,
\* services of Ubuntu Pro only.
THEOREM ReportTypesCorrect == ReportSpec => []ReportTypeOK
<1>1. ReportInv => ReportTypeOK
  BY DEF ReportInv
<1> QED
  BY <1>1, ReportAlways, PTL

\* The private cache tells of a service exactly as long as the service is not enabled,
\* after every enable and disable no job ran beside, and after every job no operation ran
\* beside (update_esm_caches, setup_local_esm_repo, disable_local_esm_repo).
THEOREM PrivateForDisabled == ReportSpec => []PrivateForDisabledOnly
<1>1. ReportInv => PrivateForDisabledOnly
  BY DEF ReportInv, FilesFit, FileRight, Eligible, Timely, PrivateForDisabledOnly
<1> QED
  BY <1>1, ReportAlways, PTL

-----------------------------------------------------------------------------
(* The client and the hook. *)

\* Indexes of a service only come with the service itself.
LEMMA EsmFromEnabled ==
    ASSUME ReportInv, NEW p \in Packages, NEW k \in Esm, lists[p][k] # 0
    PROVE  Enabled(Covers[p]) /\ \A j \in Ubuntu : lists[p][k] # lists[p][j]
<1>1. Covers[p] \in machine.fetched
  BY DEF ReportInv, ListsFit
<1>2. machine.fetched \subseteq machine.sources /\ (machine.sources # {} => machine.attached)
  BY DEF ReportInv, SourcesFit
<1> QED
  BY <1>1, <1>2 DEF Enabled, ReportInv, Apart

LEMMA ServiceNames ==
    /\ "standard-security" \notin Services /\ "standard-updates" \notin Services
    /\ "ubuntu" \notin Services /\ "unknown" \notin Services /\ "none" \notin Services
    /\ Esm \subseteq Pockets /\ Ubuntu \subseteq Pockets
    /\ "esm-security" \in Esm /\ "security" \in Ubuntu
BY DEF Services, Esm, Ubuntu, Pockets

\* A candidate that is not installed is an update of apt's cache.
LEMMA CandidateUpdates ==
    ASSUME ReportInv, NEW p \in Packages, Candidate(p) # installed[p]
    PROVE  Candidate(p) \in UpdatesInApt(p) /\ Candidate(p) # 0
<1>1. ReportTypeOK
  BY DEF ReportInv
<1>2. /\ Candidate(p) \in 0..MaxVersion /\ installed[p] \in 0..MaxVersion /\ Candidate(p) >= installed[p]
      /\ \E k \in Pockets : lists[p][k] = Candidate(p) /\ lists[p][k] # 0
  BY <1>1, CandidateOf, ReportTypes
<1>3. Candidate(p) > installed[p] /\ MaxVersion \in Nat
  BY <1>1, <1>2, ReportTypes
<1> QED
  BY <1>2, <1>3 DEF UpdatesInApt, Known

\* An update of a service's pocket is the service's, and the machine has the service.
LEMMA EsmUpdates ==
    ASSUME ReportInv, NEW p \in Packages, NEW v \in UpdatesInApt(p)
    PROVE  /\ v \in 0..MaxVersion /\ v # 0
           /\ ServiceOf(p, v) \in Services =>
                ServiceOf(p, v) = Covers[p] /\ Enabled(Covers[p])
           /\ (\E k \in Esm : lists[p][k] = v) => ServiceOf(p, v) = Covers[p] /\ Enabled(Covers[p])
<1>1. ReportTypeOK /\ MaxVersion \in Nat
  BY PackagesAssumption DEF ReportInv
<1>2. installed[p] \in 0..MaxVersion /\ \A k \in Pockets : lists[p][k] \in 0..MaxVersion
  BY <1>1, ReportTypes, VersionTypes
<1>3. v \in 0..MaxVersion /\ v > installed[p]
  BY <1>1, <1>2 DEF UpdatesInApt, Known
<1>4. v # 0
  BY <1>1, <1>2, <1>3
<1>5. (\E k \in Esm : lists[p][k] = v) => ServiceOf(p, v) = Covers[p] /\ Enabled(Covers[p])
  BY <1>4, EsmFromEnabled DEF ServiceOf
<1>6. ~(\E k \in Esm : lists[p][k] = v) => ServiceOf(p, v) \notin Services
  BY ServiceNames DEF ServiceOf
<1> QED
  BY <1>3, <1>4, <1>5, <1>6

\* What the hook counts is an update of apt's cache, of the service it is counted for.
LEMMA HookCountsUpdates ==
    ASSUME ReportInv, NEW p \in Packages, HookCounts(p) # "none"
    PROVE  /\ Candidate(p) \in UpdatesInApt(p) /\ ServiceOf(p, Candidate(p)) = HookCounts(p)
           /\ HookCounts(p) \notin Services \/ Enabled(HookCounts(p))
<1> DEFINE v == Candidate(p)
<1>1. v # installed[p]
  BY DEF HookCounts
<1>2. v \in UpdatesInApt(p) /\ v # 0
  BY <1>1, CandidateUpdates
<1>3. CASE lists[p]["esm-security"] = v
  <2>1. HookCounts(p) = Covers[p]
    BY <1>1, <1>3 DEF HookCounts
  <2>2. ServiceOf(p, v) = Covers[p] /\ Enabled(Covers[p])
    BY <1>2, <1>3, EsmUpdates, ServiceNames
  <2> QED
    BY <1>2, <2>1, <2>2
<1>4. CASE lists[p]["esm-security"] # v
  <2>1. HookCounts(p) = "standard-security" /\ lists[p]["security"] = v
    BY <1>1, <1>4 DEF HookCounts
  <2>2. \A k \in Esm : lists[p][k] # v
    <3>1. ASSUME NEW k \in Esm, lists[p][k] = v PROVE FALSE
      BY <1>2, <2>1, <3>1, EsmFromEnabled, ServiceNames
    <3> QED
      BY <3>1
  <2>3. ServiceOf(p, v) = "standard-security"
    BY <2>1, <2>2 DEF ServiceOf
  <2> QED
    BY <1>2, <2>1, <2>3, ServiceNames
<1> QED
  BY <1>3, <1>4

LEMMA CandidateListed ==
    ASSUME NEW p \in Packages, Candidate(p) \in UpdatesInApt(p), NEW s,
           s = ServiceOf(p, Candidate(p)), s \notin Services \/ Enabled(s)
    PROVE  [service |-> s, version |-> Candidate(p), status |-> "upgrade_available"] \in UpdatesList(p)
<1>1. UpdateStatus(s, p, Candidate(p)) = "upgrade_available"
  BY DEF UpdateStatus
<1> DEFINE w == Candidate(p)
<1>2. [service |-> ServiceOf(p, w), version |-> w, status |-> UpdateStatus(ServiceOf(p, w), p, w)]
        \in UpdatesList(p)
  BY Zenon DEF UpdatesList
<1> QED
  BY <1>1, <1>2

\* Sets of pairs of a package and one of its versions.
LEMMA PairsFinite ==
    ASSUME ReportTypeOK, NEW U, U \subseteq Packages \X (0..MaxVersion)
    PROVE  IsFiniteSet(U) /\ Cardinality(U) \in Nat /\ (U # {} => Cardinality(U) > 0)
<1>1. IsFiniteSet(Packages) /\ IsFiniteSet(0..MaxVersion)
  BY PackagesAssumption, FS_Interval
<1>2. IsFiniteSet(Packages \X (0..MaxVersion))
  BY <1>1, FS_Product
<1>3. IsFiniteSet(U)
  BY <1>2, FS_Subset
<1>4. Cardinality(U) \in Nat /\ (Cardinality(U) = 0 <=> U = {})
  BY <1>3, FS_CardinalityType, FS_EmptySet
<1> QED
  BY <1>3, <1>4

\* The two caches' updates for a service.
InApt(s, p) == {v \in UpdatesInApt(p) : ServiceOf(p, v) = s}
InPrivate(s, p) == {v \in UpdatesInPrivate(p) : Covers[p] = s}
AptPairs(s) == UNION {{<<p, v>> : v \in InApt(s, p)} : p \in Packages}
PrivatePairs(s) == UNION {{<<p, v>> : v \in InPrivate(s, p)} : p \in Packages}

LEMMA PrivateUpdates ==
    ASSUME ReportTypeOK, NEW p \in Packages
    PROVE  /\ PrivateVersions(p) \in SUBSET (0..MaxVersion)
           /\ PrivateVersions(p) # {} => Covers[p] \in private.files
           /\ UpdatesInPrivate(p) \subseteq PrivateVersions(p)
<1>1. \A k \in Esm : private.lists[p][k] \in 0..MaxVersion
  BY VersionTypes, ServiceNames
<1> QED
  BY <1>1 DEF PrivateVersions, UpdatesInPrivate

LEMMA CountOfPairs ==
    ASSUME ReportInv, NEW s
    PROVE  /\ CountOf(s) = Cardinality(AptPairs(s)) + Cardinality(PrivatePairs(s))
           /\ AptPairs(s) \subseteq Packages \X (0..MaxVersion)
           /\ PrivatePairs(s) \subseteq Packages \X (0..MaxVersion)
<1>1. CountOf(s) = Cardinality(AptPairs(s)) + Cardinality(PrivatePairs(s))
  BY Zenon DEF CountOf, AptPairs, PrivatePairs, InApt, InPrivate
<1>2. \A p \in Packages : InApt(s, p) \subseteq 0..MaxVersion
  BY EsmUpdates DEF InApt
<1>3. \A p \in Packages : InPrivate(s, p) \subseteq 0..MaxVersion
  BY PrivateUpdates DEF InPrivate, ReportInv
<1> QED
  BY <1>1, <1>2, <1>3 DEF AptPairs, PrivatePairs

\* What the hook announces, the client lists ...
LEMMA HookListed ==
    ASSUME ReportInv, NEW p \in Packages
    PROVE  /\ HookCounts(p) # "none" =>
                [service |-> HookCounts(p), version |-> Candidate(p), status |-> "upgrade_available"]
                  \in UpdatesList(p)
           /\ p \in WillNotDownload =>
                [service |-> Covers[p], version |-> Candidate(p), status |-> "upgrade_available"]
                  \in UpdatesList(p)
<1>1. ASSUME HookCounts(p) # "none"
      PROVE  [service |-> HookCounts(p), version |-> Candidate(p), status |-> "upgrade_available"]
               \in UpdatesList(p)
  BY <1>1, HookCountsUpdates, CandidateListed
<1>2. ASSUME p \in WillNotDownload
      PROVE  [service |-> Covers[p], version |-> Candidate(p), status |-> "upgrade_available"]
               \in UpdatesList(p)
  <2>1. Candidate(p) # installed[p] /\ \E k \in Esm : lists[p][k] = Candidate(p)
    BY <1>2 DEF WillNotDownload
  <2>2. Candidate(p) \in UpdatesInApt(p)
    BY <2>1, CandidateUpdates
  <2>3. ServiceOf(p, Candidate(p)) = Covers[p] /\ Enabled(Covers[p])
    BY <2>1, <2>2, EsmUpdates
  <2> QED
    BY <2>2, <2>3, CandidateListed
<1> QED
  BY <1>1, <1>2

\* ... and counts.
LEMMA HookCounted == ASSUME ReportInv, NEW s \in CountMessage PROVE CountOf(s) > 0
<1>1. PICK p \in Packages : s = HookCounts(p) /\ HookCounts(p) # "none"
  BY DEF CountMessage
<1>2. Candidate(p) \in InApt(s, p)
  BY <1>1, HookCountsUpdates DEF InApt
<1>3. AptPairs(s) # {}
  <2>1. <<p, Candidate(p)>> \in {<<p, v>> : v \in InApt(s, p)}
    BY <1>2
  <2>2. <<p, Candidate(p)>> \in AptPairs(s)
    BY <2>1, Zenon DEF AptPairs
  <2> QED
    BY <2>2
<1>4. ReportTypeOK
  BY DEF ReportInv
<1>5. /\ Cardinality(AptPairs(s)) \in Nat /\ Cardinality(AptPairs(s)) > 0
      /\ Cardinality(PrivatePairs(s)) \in Nat
  BY <1>3, <1>4, CountOfPairs, PairsFinite
<1> QED
  BY <1>5, CountOfPairs

\* What the hook advertises, the client lists as pending.
LEMMA AdvertisedPending ==
    ASSUME ReportInv, NEW p \in Advertised, Settled(Covers[p])
    PROVE  /\ Advice(Covers[p]) = "advertised"
           /\ OriginOf(p) # "unknown" => p \in ListedFor(Covers[p]).available
           /\ \E u \in UpdatesList(p) :
                /\ u.service = Covers[p] /\ u.version > installed[p]
                /\ u.status = IF ~machine.attached THEN "pending_attach"
                              ELSE IF Covers[p] \in machine.entitled
                              THEN "pending_enable" ELSE "upgrade_unavailable"
<1> DEFINE v == Largest(PrivateVersions(p))
           u == [service |-> Covers[p], version |-> v, status |-> UpdateStatus(Covers[p], p, v)]
<1>1. p \in Packages /\ PrivateVersions(p) # {} /\ v > installed[p]
  BY DEF Advertised, PotentialEsm
<1>2. ReportTypeOK /\ MaxVersion \in Nat
  BY PackagesAssumption DEF ReportInv
<1>3. v \in PrivateVersions(p)
  BY <1>1, <1>2, PrivateUpdates, LargestOf
<1>4. Covers[p] \in private.files /\ Covers[p] \in Services
  BY <1>1, <1>2, PrivateUpdates, PackagesAssumption
<1>5. ~Enabled(Covers[p]) /\ Eligible(Covers[p])
  BY <1>4 DEF ReportInv, FilesFit, FileRight
<1>6. Advice(Covers[p]) = "advertised"
  BY <1>5 DEF Advice, Eligible, Timely
<1>7. v \in UpdatesInPrivate(p)
  BY <1>1, <1>3 DEF UpdatesInPrivate
<1>8. u.status = IF ~machine.attached THEN "pending_attach"
                 ELSE IF Covers[p] \in machine.entitled THEN "pending_enable" ELSE "upgrade_unavailable"
  BY <1>4, <1>5 DEF UpdateStatus
<1>9. u \in UpdatesList(p)
  <2> HIDE DEF v
  <2> QED
    BY <1>7 DEF UpdatesList
<1>10. OriginOf(p) # "unknown" => p \in ListedFor(Covers[p]).available
  <2>1. \E w \in UpdatesList(p) : w.service = Covers[p]
    BY <1>9
  <2> HIDE DEF v, u
  <2> QED
    BY <1>1, <2>1 DEF ListedFor
<1>11. u.service = Covers[p] /\ u.version = v
  OBVIOUS
<1> HIDE DEF u
<1> QED
  BY <1>1, <1>6, <1>8, <1>9, <1>10, <1>11

\* The two caches never list the same version twice for a service.
LEMMA CountedOnce ==
    ASSUME ReportInv, NEW s \in Services, Settled(s)
    PROVE  CountOf(s) = Cardinality(UNION {{p} \X {u.version : u \in {u \in UpdatesList(p) : u.service = s}} :
                                             p \in Packages})
<1> DEFINE Awaited(p) == {u.version : u \in {u \in UpdatesList(p) : u.service = s}}
           A == AptPairs(s)
           B == PrivatePairs(s)
<1>1. \A p \in Packages : Awaited(p) = InApt(s, p) \cup InPrivate(s, p)
  <2>1. ASSUME NEW p \in Packages, NEW v \in Awaited(p) PROVE v \in InApt(s, p) \cup InPrivate(s, p)
    <3>1. PICK u \in UpdatesList(p) : u.service = s /\ u.version = v
      OBVIOUS
    <3>2. CASE \E w \in UpdatesInApt(p) :
                 u = [service |-> ServiceOf(p, w), version |-> w,
                      status |-> UpdateStatus(ServiceOf(p, w), p, w)]
      BY <3>1, <3>2 DEF InApt
    <3>3. CASE \E w \in UpdatesInPrivate(p) :
                 u = [service |-> Covers[p], version |-> w, status |-> UpdateStatus(Covers[p], p, w)]
      BY <3>1, <3>3 DEF InPrivate
    <3> QED
      BY <3>2, <3>3, Zenon DEF UpdatesList
  <2>2. ASSUME NEW p \in Packages, NEW v \in InApt(s, p) PROVE v \in Awaited(p)
    <3> DEFINE u == [service |-> ServiceOf(p, v), version |-> v,
                     status |-> UpdateStatus(ServiceOf(p, v), p, v)]
    <3>1. v \in UpdatesInApt(p) /\ ServiceOf(p, v) = s
      BY DEF InApt
    <3>2. u \in UpdatesList(p)
      BY <3>1 DEF UpdatesList
    <3>3. u.service = s /\ u.version = v
      BY <3>1
    <3> HIDE DEF u
    <3> QED
      BY <3>2, <3>3
  <2>3. ASSUME NEW p \in Packages, NEW v \in InPrivate(s, p) PROVE v \in Awaited(p)
    <3> DEFINE u == [service |-> Covers[p], version |-> v, status |-> UpdateStatus(Covers[p], p, v)]
    <3>1. v \in UpdatesInPrivate(p) /\ Covers[p] = s
      BY DEF InPrivate
    <3>2. u \in UpdatesList(p)
      BY <3>1 DEF UpdatesList
    <3>3. u.service = s /\ u.version = v
      BY <3>1
    <3> HIDE DEF u
    <3> QED
      BY <3>2, <3>3
  <2> HIDE DEF Awaited
  <2> QED
    BY <2>1, <2>2, <2>3
<1>2. UNION {{p} \X Awaited(p) : p \in Packages} = A \cup B
  <2> HIDE DEF Awaited
  <2> QED
    BY <1>1 DEF AptPairs, PrivatePairs
<1>3. A \cap B = {}
  <2>1. ASSUME NEW x \in A, x \in B PROVE FALSE
    <3>1. PICK p \in Packages : \E v \in InApt(s, p) : x = <<p, v>>
      BY DEF AptPairs
    <3>2. PICK v \in InApt(s, p) : x = <<p, v>>
      BY <3>1
    <3>3. Covers[p] = s /\ Enabled(s)
      BY <3>2, EsmUpdates DEF InApt
    <3>4. v \in InPrivate(s, p)
      BY <2>1, <3>2 DEF PrivatePairs
    <3>5. s \in private.files
      BY <3>3, <3>4, PrivateUpdates DEF InPrivate, ReportInv
    <3> QED
      BY <3>3, <3>5 DEF ReportInv, FilesFit, FileRight
  <2> HIDE DEF A, B
  <2> QED
    BY <2>1
<1>4. IsFiniteSet(A) /\ IsFiniteSet(B) /\ Cardinality(A) \in Nat /\ Cardinality(B) \in Nat
  BY CountOfPairs, PairsFinite DEF ReportInv
<1>5. Cardinality(A \cup B) = Cardinality(A) + Cardinality(B)
  <2> HIDE DEF A, B
  <2>1. Cardinality(A \cup B) = Cardinality(A) + Cardinality(B) - Cardinality(A \cap B)
    BY <1>4, FS_Union
  <2>2. Cardinality(A \cap B) = 0
    BY <1>3, FS_EmptySet
  <2> QED
    BY <1>4, <2>1, <2>2
<1>6. CountOf(s) = Cardinality(A) + Cardinality(B)
  BY CountOfPairs
<1> HIDE DEF A, B
<1> QED
  BY <1>2, <1>5, <1>6

\* The service's own screen agrees with the counts.
LEMMA ScreenAgrees ==
    ASSUME ReportInv, NEW s \in Services
    PROVE  /\ CountedAs(s) = Cardinality(ListedFor(s).installed)
           /\ ListedFor(s).remaining \cap {p \in Packages : HookCounts(p) = s} = {}
<1>1. \A p \in Packages : OriginOf(p) = s => Covers[p] = s
  BY ServiceNames DEF OriginOf
<1>2. {p \in Packages : OriginOf(p) = s} = ListedFor(s).installed
  BY <1>1, ServiceNames DEF ListedFor
<1>3. CountedAs(s) = Cardinality(ListedFor(s).installed)
  BY <1>2 DEF CountedAs
<1>4. ASSUME NEW p \in Packages, HookCounts(p) = s, p \in ListedFor(s).remaining PROVE FALSE
  <2>1. HookCounts(p) # "none"
    BY <1>4, ServiceNames
  <2>2. [service |-> s, version |-> Candidate(p), status |-> "upgrade_available"] \in UpdatesList(p)
    BY <1>4, <2>1, HookListed
  <2>3. \E u \in UpdatesList(p) : u.service = s
    BY <2>2
  <2> QED
    BY <1>4, <2>3 DEF ListedFor
<1> QED
  BY <1>3, <1>4

\* What apt's hook announces and what the client lists agree: the same update of the same
\* service, one machine told of Ubuntu Pro only for services it does not receive, every
\* pending version counted once over two caches (json-hook.cc, esm-counts.cc,
\* security_status.py).
THEOREM HookAndClientAgree == ReportSpec => []HookAgrees
<1>1. ASSUME ReportInv PROVE HookAgrees
  <2>1. \A s \in CountMessage : CountOf(s) > 0
    BY <1>1, HookCounted
  <2>2. \A p \in Advertised : Settled(Covers[p]) =>
          /\ Advice(Covers[p]) = "advertised"
          /\ OriginOf(p) # "unknown" => p \in ListedFor(Covers[p]).available
          /\ \E u \in UpdatesList(p) :
               /\ u.service = Covers[p] /\ u.version > installed[p]
               /\ u.status = IF ~machine.attached THEN "pending_attach"
                             ELSE IF Covers[p] \in machine.entitled
                             THEN "pending_enable" ELSE "upgrade_unavailable"
    BY <1>1, AdvertisedPending
  <2>3. \A s \in Services : Settled(s) =>
          CountOf(s) = Cardinality(UNION {{p} \X {u.version : u \in {u \in UpdatesList(p) : u.service = s}} :
                                            p \in Packages})
    BY <1>1, CountedOnce
  <2>4. \A s \in Services :
          /\ CountedAs(s) = Cardinality(ListedFor(s).installed)
          /\ ListedFor(s).remaining \cap {p \in Packages : HookCounts(p) = s} = {}
    BY <1>1, ScreenAgrees
  <2>5. \A p \in Packages :
          /\ HookCounts(p) # "none" =>
               [service |-> HookCounts(p), version |-> Candidate(p), status |-> "upgrade_available"]
                 \in UpdatesList(p)
          /\ p \in WillNotDownload =>
               [service |-> Covers[p], version |-> Candidate(p), status |-> "upgrade_available"]
                 \in UpdatesList(p)
    BY <1>1, HookListed
  <2> QED
    BY <2>1, <2>2, <2>3, <2>4, <2>5, Zenon DEF HookAgrees
<1>2. ReportInv => HookAgrees
  BY <1>1
<1> QED
  BY <1>2, ReportAlways, PTL

===============================================================================
