-------------------------- MODULE Entitlement_proofs --------------------------
(* Theorems of a single service: the terms its contract gives this machine, and the packages
   that enabling it installs and disabling it takes away. *)
EXTENDS ContractTerms, ServicePackages, TLAPS

-------------------------------------------------------------------------------
(* ContractTerms, for every contract, every cloud and every number of releases. *)

\* The laws of updating one map with another.
LEMMA OverDomain ==
  ASSUME NEW f, NEW g
  PROVE  DOMAIN (f ++ g) = DOMAIN f \cup DOMAIN g
  BY DEF ++

LEMMA OverValue ==
  ASSUME NEW f, NEW g, NEW p \in DOMAIN f \cup DOMAIN g
  PROVE  (f ++ g)[p] = IF p \in DOMAIN f THEN f[p] ELSE g[p]
  BY DEF ++

LEMMA OverAssociative ==
  ASSUME NEW f, NEW g, NEW h
  PROVE  (f ++ g) ++ h = f ++ (g ++ h)
  BY DEF ++

\* A map that names no other keys than the one before it has no say.
LEMMA OverAbsorbs ==
  ASSUME NEW f, NEW g, NEW h, DOMAIN g \subseteq DOMAIN f
  PROVE  f ++ (g ++ h) = f ++ h
  BY DEF ++

LEMMA OverNothing ==
  ASSUME NEW f, NEW h
  PROVE  f ++ (Nothing ++ h) = f ++ h
<1>1. DOMAIN Nothing = {}
  BY DEF Nothing
<1>. QED
  BY <1>1, OverAbsorbs

\* The keys of seven maps, one over the other.
LEMMA ChainDomain ==
  ASSUME NEW a, NEW b, NEW c, NEW d, NEW e, NEW f, NEW g, NEW p
  PROVE  p \in DOMAIN (a ++ b ++ c ++ d ++ e ++ f ++ g) <=>
             \/ p \in DOMAIN a \/ p \in DOMAIN b \/ p \in DOMAIN c \/ p \in DOMAIN d
             \/ p \in DOMAIN e \/ p \in DOMAIN f \/ p \in DOMAIN g
<1>1. DOMAIN (a ++ b) = DOMAIN a \cup DOMAIN b
  BY OverDomain
<1>2. DOMAIN ((a ++ b) ++ c) = DOMAIN (a ++ b) \cup DOMAIN c
  BY OverDomain
<1>3. DOMAIN ((a ++ b ++ c) ++ d) = DOMAIN (a ++ b ++ c) \cup DOMAIN d
  BY OverDomain
<1>4. DOMAIN ((a ++ b ++ c ++ d) ++ e) = DOMAIN (a ++ b ++ c ++ d) \cup DOMAIN e
  BY OverDomain
<1>5. DOMAIN ((a ++ b ++ c ++ d ++ e) ++ f) = DOMAIN (a ++ b ++ c ++ d ++ e) \cup DOMAIN f
  BY OverDomain
<1>6. DOMAIN ((a ++ b ++ c ++ d ++ e ++ f) ++ g) = DOMAIN (a ++ b ++ c ++ d ++ e ++ f) \cup DOMAIN g
  BY OverDomain
<1>. QED
  BY <1>1, <1>2, <1>3, <1>4, <1>5, <1>6

LEMMA ContextFacts ==
  ASSUME NEW r, NEW v
  PROVE  /\ Context(r, v).series = r
         /\ "series" \in DOMAIN Context(r, v) /\ "cloud" \in DOMAIN Context(r, v)
         /\ Context(r, v)["series"] = r /\ Context(r, v)["cloud"] = Cloud
         /\ "variant" \in DOMAIN Context(r, v) <=> v # NoVariant
<1>1. CASE v = NoVariant
  BY <1>1 DEF Context
<1>2. CASE v # NoVariant
  BY <1>2 DEF Context
<1>. QED
  BY <1>1, <1>2

Selectors == {"series", "cloud", "variant"}

\* The weights of _select_overrides tell sets of selectors apart.
LEMMA Weights ==
  ASSUME NEW s, DOMAIN s \subseteq Selectors
  PROVE  /\ Weight(s) = 9 <=> DOMAIN s = {"series", "cloud", "variant"}
         /\ Weight(s) = 7 <=> DOMAIN s = {"cloud", "variant"}
         /\ Weight(s) = 6 <=> DOMAIN s = {"series", "variant"}
         /\ Weight(s) = 5 <=> DOMAIN s = {"series", "cloud"}
         /\ Weight(s) = 4 <=> DOMAIN s = {"variant"}
         /\ Weight(s) = 3 <=> DOMAIN s = {"cloud"}
         /\ Weight(s) = 2 <=> DOMAIN s = {"series"}
<1> DEFINE D == DOMAIN s
<1> HIDE DEF D
<1>1. D \subseteq {"series", "cloud", "variant"}
  BY DEF D, Selectors
<1>2. Weight(s) = (IF "series" \in D THEN 2 ELSE 0) + (IF "cloud" \in D THEN 3 ELSE 0)
                    + (IF "variant" \in D THEN 4 ELSE 0)
  BY DEF Weight, D
<1>3. /\ D = {"series", "cloud", "variant"} <=> "series" \in D /\ "cloud" \in D /\ "variant" \in D
      /\ D = {"cloud", "variant"} <=> "series" \notin D /\ "cloud" \in D /\ "variant" \in D
      /\ D = {"series", "variant"} <=> "series" \in D /\ "cloud" \notin D /\ "variant" \in D
      /\ D = {"series", "cloud"} <=> "series" \in D /\ "cloud" \in D /\ "variant" \notin D
      /\ D = {"variant"} <=> "series" \notin D /\ "cloud" \notin D /\ "variant" \in D
      /\ D = {"cloud"} <=> "series" \notin D /\ "cloud" \in D /\ "variant" \notin D
      /\ D = {"series"} <=> "series" \in D /\ "cloud" \notin D /\ "variant" \notin D
  BY <1>1
<1>4. /\ Weight(s) = 9 <=> "series" \in D /\ "cloud" \in D /\ "variant" \in D
      /\ Weight(s) = 7 <=> "series" \notin D /\ "cloud" \in D /\ "variant" \in D
      /\ Weight(s) = 6 <=> "series" \in D /\ "cloud" \notin D /\ "variant" \in D
      /\ Weight(s) = 5 <=> "series" \in D /\ "cloud" \in D /\ "variant" \notin D
      /\ Weight(s) = 4 <=> "series" \notin D /\ "cloud" \notin D /\ "variant" \in D
      /\ Weight(s) = 3 <=> "series" \notin D /\ "cloud" \in D /\ "variant" \notin D
      /\ Weight(s) = 2 <=> "series" \in D /\ "cloud" \notin D /\ "variant" \notin D
  BY <1>2
<1>. QED
  BY <1>3, <1>4 DEF D

\* A document whose overrides select by nothing else.
Sound(doc) == \A i \in DOMAIN doc.overrides : DOMAIN doc.overrides[i].selector \subseteq Selectors

\* Selecting by weight is selecting by the set of selectors.
LEMMA SelectedIsMeant ==
  ASSUME NEW doc, Sound(doc), NEW c, NEW w, NEW set,
         \A i \in DOMAIN doc.overrides :
             Weight(doc.overrides[i].selector) = w <=> DOMAIN doc.overrides[i].selector = set
  PROVE  Selected(doc, c, w) = Meant(doc, c, set)
<1> DEFINE chosen == {i \in DOMAIN doc.overrides : /\ Fits(doc.overrides[i].selector, c)
                                                   /\ Weight(doc.overrides[i].selector) = w}
           meant == {i \in DOMAIN doc.overrides : /\ DOMAIN doc.overrides[i].selector = set
                                                  /\ Fits(doc.overrides[i].selector, c)}
<1>1. chosen = meant
  OBVIOUS
<1>2. Selected(doc, c, w) = IF chosen = {} THEN Nothing ELSE doc.overrides[Max(chosen)].terms
  BY Zenon DEF Selected
<1>3. Meant(doc, c, set) = IF meant = {} THEN Nothing ELSE doc.overrides[Max(meant)].terms
  BY Zenon DEF Meant
<1> HIDE DEF chosen, meant
<1>. QED
  BY <1>1, <1>2, <1>3

LEMMA SelectedBySet ==
  ASSUME NEW doc, Sound(doc), NEW c
  PROVE  /\ Selected(doc, c, 9) = Meant(doc, c, {"series", "cloud", "variant"})
         /\ Selected(doc, c, 7) = Meant(doc, c, {"cloud", "variant"})
         /\ Selected(doc, c, 6) = Meant(doc, c, {"series", "variant"})
         /\ Selected(doc, c, 5) = Meant(doc, c, {"series", "cloud"})
         /\ Selected(doc, c, 4) = Meant(doc, c, {"variant"})
         /\ Selected(doc, c, 3) = Meant(doc, c, {"cloud"})
         /\ Selected(doc, c, 2) = Meant(doc, c, {"series"})
<1>1. \A i \in DOMAIN doc.overrides : DOMAIN doc.overrides[i].selector \subseteq Selectors
  BY DEF Sound
<1>. QED
  BY <1>1, Weights, SelectedIsMeant

\* What the client works out is what is promised.
LEMMA AppliedIsPromise ==
  ASSUME NEW doc, Sound(doc), NEW c
  PROVE  Applied(doc, c) = Promise(doc, c)
  BY SelectedBySet DEF Applied, General, Promise

\* Without a variant, an override that selects one does not fit.
LEMMA NoVariantSelected ==
  ASSUME NEW doc, NEW r, NEW set, "variant" \in set
  PROVE  Meant(doc, Context(r, NoVariant), set) = Nothing
<1>1. "variant" \notin DOMAIN Context(r, NoVariant)
  BY ContextFacts
<1>2. {i \in DOMAIN doc.overrides : /\ DOMAIN doc.overrides[i].selector = set
                                    /\ Fits(doc.overrides[i].selector, Context(r, NoVariant))} = {}
  BY <1>1 DEF Fits
<1>. QED
  BY <1>2, Zenon DEF Meant

\* The other overrides are chosen alike with and without a variant.
LEMMA SameSelected ==
  ASSUME NEW doc, NEW r, NEW v, NEW set, set \subseteq {"series", "cloud"}
  PROVE  Meant(doc, Context(r, v), set) = Meant(doc, Context(r, NoVariant), set)
<1> DEFINE c == Context(r, v)
           d == Context(r, NoVariant)
<1>1. \A k \in set : k \in DOMAIN c /\ k \in DOMAIN d /\ c[k] = d[k]
  BY ContextFacts
<1> HIDE DEF c, d
<1> DEFINE with == {i \in DOMAIN doc.overrides : /\ DOMAIN doc.overrides[i].selector = set
                                                 /\ Fits(doc.overrides[i].selector, c)}
           without == {i \in DOMAIN doc.overrides : /\ DOMAIN doc.overrides[i].selector = set
                                                    /\ Fits(doc.overrides[i].selector, d)}
<1>2. with = without
  BY <1>1 DEF Fits
<1>3. Meant(doc, c, set) = IF with = {} THEN Nothing ELSE doc.overrides[Max(with)].terms
  BY Zenon DEF Meant
<1>4. Meant(doc, d, set) = IF without = {} THEN Nothing ELSE doc.overrides[Max(without)].terms
  BY Zenon DEF Meant
<1> HIDE DEF with, without
<1>5. Meant(doc, c, set) = Meant(doc, d, set)
  BY <1>2, <1>3, <1>4
<1>. QED
  BY <1>5 DEF c, d

LEMMA GeneralKeys ==
  ASSUME NEW doc, NEW c, NEW p
  PROVE  p \in DOMAIN General(doc, c) <=>
             \E w \in {9, 7, 6, 5, 4, 3, 2} : p \in DOMAIN Selected(doc, c, w)
<1>1. General(doc, c)
        = Selected(doc, c, 9) ++ Selected(doc, c, 7) ++ Selected(doc, c, 6)
              ++ Selected(doc, c, 5) ++ Selected(doc, c, 4) ++ Selected(doc, c, 3)
              ++ Selected(doc, c, 2)
  BY Zenon DEF General
<1>. QED
  BY <1>1, ChainDomain

\* The overrides for a variant name every key that the others name.
LEMMA GeneralDomain ==
  ASSUME NEW doc, Sound(doc), NEW r, NEW v
  PROVE  DOMAIN General(doc, Context(r, NoVariant)) \subseteq DOMAIN General(doc, Context(r, v))
<1> DEFINE c == Context(r, NoVariant)
           d == Context(r, v)
<1>1. /\ Selected(doc, c, 9) = Nothing /\ Selected(doc, c, 7) = Nothing
      /\ Selected(doc, c, 6) = Nothing /\ Selected(doc, c, 4) = Nothing
  BY SelectedBySet, NoVariantSelected
<1>2. /\ Selected(doc, c, 5) = Selected(doc, d, 5) /\ Selected(doc, c, 3) = Selected(doc, d, 3)
      /\ Selected(doc, c, 2) = Selected(doc, d, 2)
  BY SelectedBySet, SameSelected
<1>3. DOMAIN Nothing = {}
  BY DEF Nothing
<1> HIDE DEF c, d
<1>4. \A p \in DOMAIN General(doc, c) : p \in DOMAIN General(doc, d)
  BY <1>1, <1>2, <1>3, GeneralKeys
<1>. QED
  BY <1>4 DEF c, d

-----------------------------------------------------------------------------
(* A document with its overrides applied to it. *)

\* Only the overrides and the map of an old contract matter to what is chosen.
LEMMA GeneralByOverrides ==
  ASSUME NEW doc, NEW other, doc.overrides = other.overrides, NEW c
  PROVE  General(doc, c) = General(other, c)
<1>1. \A w : Selected(doc, c, w) = Selected(other, c, w)
  BY Zenon DEF Selected
<1>. QED
  BY <1>1, Zenon DEF General

LEMMA FlatParts ==
  ASSUME NEW doc, NEW c
  PROVE  /\ Flat(doc, c).terms = Applied(doc, c) /\ Flat(doc, c).overrides = doc.overrides
         /\ Flat(doc, c).series = Nothing /\ Flat(doc, c) # Missing
<1>1. DOMAIN Nothing = {}
  BY DEF Nothing
<1>. QED
  BY <1>1 DEF Flat, Missing

\* A document without the map of an old contract.
LEMMA NoSeries ==
  ASSUME NEW doc, doc.series = Nothing, NEW c
  PROVE  OfSeries(doc, c) = Nothing
<1>1. DOMAIN Nothing = {}
  BY DEF Nothing
<1>. QED
  BY <1>1 DEF OfSeries

LEMMA AppliedWithout ==
  ASSUME NEW doc, doc.series = Nothing, NEW c
  PROVE  Applied(doc, c) = General(doc, c) ++ doc.terms
<1>1. Applied(doc, c) = (General(doc, c) ++ Nothing) ++ doc.terms
  BY NoSeries DEF Applied
<1>. QED
  BY <1>1, OverAssociative, OverNothing

\* Overrides that are applied to a document to which they have been applied change nothing,
\* and for a variant the result is that of the document as it was.
LEMMA AppliedTwice ==
  ASSUME NEW doc, Sound(doc), NEW r, NEW v
  PROVE  Applied(Flat(doc, Context(r, NoVariant)), Context(r, v)) = Applied(doc, Context(r, v))
<1> DEFINE g == General(doc, Context(r, NoVariant))
           h == General(doc, Context(r, v))
           s == OfSeries(doc, Context(r, v))
<1>1. Applied(Flat(doc, Context(r, NoVariant)), Context(r, v))
        = h ++ Applied(doc, Context(r, NoVariant))
  <2>1. General(Flat(doc, Context(r, NoVariant)), Context(r, v)) = h
    BY FlatParts, GeneralByOverrides
  <2>. QED
    BY <2>1, FlatParts, AppliedWithout
<1>2. OfSeries(doc, Context(r, NoVariant)) = s
  BY ContextFacts DEF OfSeries
<1>3. Applied(doc, Context(r, NoVariant)) = (g ++ s) ++ doc.terms
  BY <1>2, Zenon DEF Applied
<1>4. Applied(doc, Context(r, v)) = (h ++ s) ++ doc.terms
  BY Zenon DEF Applied
<1>5. DOMAIN g \subseteq DOMAIN h
  BY GeneralDomain
<1> HIDE DEF g, h, s
<1>6. (g ++ s) ++ doc.terms = g ++ (s ++ doc.terms)
  BY OverAssociative
<1>7. h ++ (g ++ (s ++ doc.terms)) = h ++ (s ++ doc.terms)
  BY <1>5, OverAbsorbs
<1>8. h ++ (s ++ doc.terms) = (h ++ s) ++ doc.terms
  BY OverAssociative
<1>. QED
  BY <1>1, <1>3, <1>4, <1>6, <1>7, <1>8

LEMMA FlatTwice ==
  ASSUME NEW doc, Sound(doc), NEW r
  PROVE  Flat(Flat(doc, Context(r, NoVariant)), Context(r, NoVariant)) = Flat(doc, Context(r, NoVariant))
  BY AppliedTwice, FlatParts DEF Flat

LEMMA SoundAgain ==
  ASSUME NEW doc, NEW other, Sound(doc), other.overrides = doc.overrides
  PROVE  Sound(other)
  BY DEF Sound

\* What is read of a service and its variants, from root's file.
LEMMA ConfigIsApplied ==
  ASSUME NEW doc, Sound(doc), NEW v
  PROVE  Config(doc, v) = Applied(doc, Context(release, v))
<1>1. CASE v = NoVariant
  BY <1>1, FlatParts DEF Config
<1>2. CASE v # NoVariant
  BY <1>2, AppliedTwice DEF Config
<1>. QED
  BY <1>1, <1>2

-----------------------------------------------------------------------------
(* The invariant. *)

\* What is kept: the server's answer as it was, or with the overrides for one release
\* applied to it, as long as it was written back under no other.
KeptOK ==
    private # Missing =>
        /\ rewritten = {} => private = agreed
        /\ \A r \in Releases : rewritten = {r} => private = Flat(agreed, Context(r, NoVariant))

\* What a process has in memory.
HeldOK ==
    /\ stage \in {"answer", "public", "deltas"} => private # Missing
    /\ stage = "answer" => document = Loaded
    /\ stage = "public" => document = private /\ (job \in {"attach", "refresh"} => rewritten = {})
    /\ stage = "deltas" => rewritten = {} /\ deltas = Delta(orig, Loaded)
    /\ stage = "private" => public = Missing

\* The copy is that of what root has.
CopyOK ==
    ~torn /\ stage \notin {"public", "private"} =>
        public = IF private = Missing THEN Missing ELSE Published(private)

TermsInv == TermsTypeOK /\ KeptOK /\ HeldOK /\ CopyOK

LEMMA OfferFacts ==
  ASSUME NEW doc \in Entitlements
  PROVE  Sound(doc) /\ doc # Missing
<1>1. DOMAIN doc = {"terms", "series", "overrides"} /\ DOMAIN Nothing = {}
  BY TermsAssumption DEF Nothing
<1>2. doc # Missing
  BY <1>1 DEF Missing
<1>3. Sound(doc)
  BY TermsAssumption DEF Sound, Selectors
<1>. QED
  BY <1>2, <1>3

LEMMA KeptSound ==
  ASSUME TermsTypeOK, private # Missing
  PROVE  Sound(agreed) /\ Sound(private)
  BY OfferFacts, SoundAgain DEF TermsTypeOK

\* What the invariant says after a step that leaves the files and the release alone.
LEMMA FilesStay ==
  ASSUME TermsInv, UNCHANGED <<release, private, agreed, rewritten>>
  PROVE  KeptOK' /\ Loaded' = Loaded
  BY DEF TermsInv, KeptOK, Loaded

LEMMA TermsTypeStep ==
  ASSUME TermsInv, TermsNext
  PROVE  TermsTypeOK'
<1>0. TermsTypeOK
  BY DEF TermsInv
<1> USE DEF TermsTypeOK, Jobs, Goes, Done, process, files, ledger
<1>1. CASE ObtainTerms
  BY <1>0, <1>1 DEF ObtainTerms
<1>2. CASE RefreshTerms
  BY <1>0, <1>2 DEF RefreshTerms
<1>3. CASE WritePublic
  BY <1>0, <1>3 DEF WritePublic
<1>4. CASE EndRefreshTerms
  BY <1>0, <1>4 DEF EndRefreshTerms
<1>5. CASE SendActivity
  BY <1>0, <1>5 DEF SendActivity, WorkOut
<1>6. CASE AskExpiry
  BY <1>0, <1>6 DEF AskExpiry, WorkOut
<1>7. CASE Answer
  <2>1. private' # Missing => agreed' \in Entitlements /\ private'.overrides = agreed'.overrides
    <3>1. private # Missing /\ document = Loaded
      BY <1>7 DEF TermsInv, HeldOK, Answer
    <3>2. Loaded.overrides = private.overrides
      BY FlatParts DEF Loaded
    <3>. QED
      BY <1>0, <1>7, <3>1, <3>2 DEF Answer
  <2>. QED
    BY <1>0, <1>7, <2>1 DEF Answer, Releases
<1>8. CASE GiveUpTerms
  BY <1>0, <1>8 DEF GiveUpTerms
<1>9. CASE DeletePublic
  BY <1>0, <1>9 DEF DeletePublic
<1>10. CASE DeletePrivate
  BY <1>0, <1>10 DEF DeletePrivate
<1>11. CASE KillProcess
  BY <1>0, <1>11 DEF KillProcess
<1>12. CASE UpgradeRelease
  BY <1>0, <1>12, TermsAssumption DEF UpgradeRelease, Releases
<1>13. CASE ChangeOffer
  BY <1>0, <1>13 DEF ChangeOffer
<1>. QED
  BY <1>1, <1>2, <1>3, <1>4, <1>5, <1>6, <1>7, <1>8, <1>9, <1>10, <1>11, <1>12, <1>13 DEF TermsNext

LEMMA KeptStep ==
  ASSUME TermsInv, TermsNext
  PROVE  KeptOK'
<1>1. CASE ObtainTerms \/ RefreshTerms
  BY <1>1 DEF ObtainTerms, RefreshTerms, KeptOK
<1>2. CASE WritePublic \/ EndRefreshTerms \/ SendActivity \/ AskExpiry \/ GiveUpTerms \/ DeletePublic \/ KillProcess \/ ChangeOffer
  BY <1>2, FilesStay DEF WritePublic, EndRefreshTerms, SendActivity, AskExpiry, WorkOut, GiveUpTerms,
     DeletePublic, KillProcess, ChangeOffer, files, ledger
<1>3. CASE Answer
  <2>1. private # Missing /\ document = Loaded
    BY <1>3 DEF TermsInv, HeldOK, Answer
  <2>2. CASE private' = private /\ rewritten' = rewritten
    BY <1>3, <2>2, FilesStay DEF Answer
  <2>3. CASE private' = document /\ rewritten' = rewritten \cup {release}
    <3>1. rewritten' # {}
      BY <2>3
    <3>2. ASSUME NEW r \in Releases, rewritten' = {r} PROVE private' = Flat(agreed', Context(r, NoVariant))
      <4>1. r = release /\ (rewritten = {} \/ rewritten = {r})
        BY <2>3, <3>2
      <4>2. private = agreed \/ private = Flat(agreed, Context(r, NoVariant))
        BY <4>1, <2>1 DEF TermsInv, KeptOK
      <4>3. private' = Flat(private, Context(r, NoVariant)) /\ agreed' = agreed
        BY <1>3, <2>1, <2>3, <4>1 DEF Answer, Loaded
      <4>4. Sound(agreed)
        BY <2>1, KeptSound DEF TermsInv
      <4>. QED
        BY <4>2, <4>3, <4>4, FlatTwice
    <3>. QED
      BY <3>1, <3>2 DEF KeptOK
  <2>. QED
    BY <1>3, <2>2, <2>3 DEF Answer
<1>4. CASE DeletePrivate
  BY <1>4 DEF DeletePrivate, KeptOK
<1>5. CASE UpgradeRelease
  BY <1>5 DEF UpgradeRelease, KeptOK, TermsInv, files, process, ledger
<1>. QED
  BY <1>1, <1>2, <1>3, <1>4, <1>5 DEF TermsNext

LEMMA HeldStep ==
  ASSUME TermsInv, TermsNext
  PROVE  HeldOK'
<1>0. <<job, stage>> \in Jobs /\ HeldOK
  BY DEF TermsInv, TermsTypeOK
<1> USE DEF Goes, Done, process, files, ledger
<1>1. CASE ObtainTerms
  <2>1. private' # Missing
    BY <1>1, OfferFacts DEF ObtainTerms, TermsInv, TermsTypeOK
  <2>. QED
    BY <1>1, <2>1 DEF ObtainTerms, HeldOK
<1>2. CASE RefreshTerms
  <2>1. private' # Missing
    BY <1>2, OfferFacts DEF RefreshTerms, TermsInv, TermsTypeOK
  <2>. QED
    BY <1>2, <2>1 DEF RefreshTerms, HeldOK
<1>3. CASE WritePublic
  <2>1. Loaded' = Loaded
    BY <1>3, FilesStay DEF WritePublic
  <2>2. private' = private /\ private # Missing /\ rewritten' = rewritten /\ release' = release
    BY <1>0, <1>3 DEF WritePublic, HeldOK
  <2>3. CASE stage' = "deltas"
    <3>1. job = "refresh" /\ document' = Loaded /\ deltas' = Delta(orig, document') /\ orig' = orig
      BY <1>3, <2>3 DEF WritePublic
    <3>2. Delta(orig, Loaded)' = Delta(orig', Loaded')
      BY <2>2 DEF Delta, Context
    <3>3. deltas' = Delta(orig, Loaded)'
      BY <3>1, <2>1, <2>2 DEF Delta
    <3>. QED
      BY <1>0, <1>3, <2>2, <2>3, <3>1, <3>3 DEF WritePublic, HeldOK
  <2>4. CASE stage' # "deltas"
    BY <1>0, <1>3, <2>1, <2>2, <2>4 DEF WritePublic, HeldOK
  <2>. QED
    BY <2>3, <2>4
<1>4. CASE EndRefreshTerms
  BY <1>4 DEF EndRefreshTerms, HeldOK
<1>5. CASE SendActivity \/ AskExpiry
  BY <1>5, FilesStay DEF SendActivity, AskExpiry, WorkOut, HeldOK
<1>6. CASE Answer
  <2>1. private # Missing /\ document = Loaded /\ Loaded # Missing
    BY <1>0, <1>6, FlatParts DEF Answer, HeldOK, Loaded
  <2>2. job \in {"activity", "expiry"}
    BY <1>0, <1>6 DEF Jobs, Answer
  <2>. QED
    BY <1>6, <2>1, <2>2 DEF Answer, HeldOK
<1>7. CASE GiveUpTerms
  BY <1>7 DEF GiveUpTerms, HeldOK
<1>8. CASE DeletePublic
  BY <1>8 DEF DeletePublic, HeldOK
<1>9. CASE DeletePrivate
  BY <1>9 DEF DeletePrivate, HeldOK
<1>10. CASE KillProcess
  BY <1>10 DEF KillProcess, HeldOK
<1>11. CASE UpgradeRelease
  <2>1. stage = "idle" /\ stage' = "idle"
    BY <1>0, <1>11 DEF UpgradeRelease, Jobs
  <2>. QED
    BY <2>1 DEF HeldOK
<1>12. CASE ChangeOffer
  <2>1. Loaded' = Loaded
    BY <1>12, FilesStay DEF ChangeOffer
  <2>2. Delta(orig, Loaded)' = Delta(orig, Loaded)
    BY <2>1, <1>12 DEF ChangeOffer, Delta
  <2>. QED
    BY <1>0, <1>12, <2>1, <2>2 DEF ChangeOffer, HeldOK
<1>. QED
  BY <1>1, <1>2, <1>3, <1>4, <1>5, <1>6, <1>7, <1>8, <1>9, <1>10, <1>11, <1>12 DEF TermsNext

LEMMA CopyStep ==
  ASSUME TermsInv, TermsNext
  PROVE  CopyOK'
<1>0. <<job, stage>> \in Jobs /\ HeldOK /\ CopyOK
  BY DEF TermsInv, TermsTypeOK
<1> USE DEF Goes, Done, process, files, ledger, CopyOK
<1>1. CASE ObtainTerms \/ RefreshTerms
  BY <1>1 DEF ObtainTerms, RefreshTerms
<1>2. CASE WritePublic
  BY <1>0, <1>2 DEF WritePublic, HeldOK, Published
<1>3. CASE EndRefreshTerms \/ SendActivity \/ AskExpiry \/ GiveUpTerms \/ ChangeOffer \/ UpgradeRelease
  BY <1>0, <1>3 DEF EndRefreshTerms, SendActivity, AskExpiry, WorkOut, GiveUpTerms, ChangeOffer, UpgradeRelease,
     Jobs, Published
<1>4. CASE Answer
  BY <1>0, <1>4 DEF Answer, Published
<1>5. CASE DeletePublic
  BY <1>5 DEF DeletePublic
<1>6. CASE DeletePrivate
  BY <1>0, <1>6 DEF DeletePrivate, HeldOK
<1>7. CASE KillProcess
  BY <1>0, <1>7 DEF KillProcess, Published
<1>. QED
  BY <1>1, <1>2, <1>3, <1>4, <1>5, <1>6, <1>7 DEF TermsNext

LEMMA TermsInvStart == TermsInit => TermsInv
<1> SUFFICES ASSUME TermsInit PROVE TermsInv
  OBVIOUS
<1>1. TermsTypeOK
  <2>1. release \in Releases
    BY TermsAssumption DEF TermsInit, Releases
  <2>2. <<job, stage>> \in Jobs
    BY DEF TermsInit, Jobs
  <2>. QED
    BY <2>1, <2>2 DEF TermsInit, TermsTypeOK
<1>2. KeptOK
  BY DEF TermsInit, KeptOK
<1>3. HeldOK
  BY DEF TermsInit, HeldOK
<1>4. CopyOK
  BY DEF TermsInit, CopyOK
<1>. QED
  BY <1>1, <1>2, <1>3, <1>4 DEF TermsInv

LEMMA TermsInvStep == TermsInv /\ [TermsNext]_termsVars => TermsInv'
<1> SUFFICES ASSUME TermsInv, [TermsNext]_termsVars PROVE TermsInv'
  OBVIOUS
<1>1. CASE TermsNext
  BY <1>1, TermsTypeStep, KeptStep, HeldStep, CopyStep DEF TermsInv
<1>2. CASE UNCHANGED termsVars
  <2>1. /\ UNCHANGED <<offer, release, private, public, job, stage, document, deltas, orig, agreed,
                       rewritten, torn>>
        /\ Loaded' = Loaded /\ Delta(orig, Loaded)' = Delta(orig, Loaded)
    BY <1>2 DEF termsVars, files, process, ledger, Loaded, Delta
  <2>2. TermsTypeOK' /\ KeptOK' /\ CopyOK'
    BY <2>1 DEF TermsInv, TermsTypeOK, KeptOK, CopyOK, Published
  <2>3. HeldOK'
    BY <2>1 DEF TermsInv, HeldOK
  <2>. QED
    BY <2>2, <2>3 DEF TermsInv
<1>. QED
  BY <1>1, <1>2

\* What holds of the token file, of the public copy and of the terms that a process keeps in
\* memory (machine_token.py, contract.py), across writes, kills and release upgrades.
THEOREM TermsInvariant == TermsSpec => []TermsInv
  BY TermsInvStart, TermsInvStep, PTL DEF TermsSpec

\* The types of the files, of a process and of the terms it holds.
THEOREM TermsTypes == TermsSpec => []TermsTypeOK
  BY TermsInvariant, PTL DEF TermsInv

\* TermsInForce follows from what is kept.
LEMMA KeptInForce == TermsInv => TermsInForce
<1> SUFFICES ASSUME TermsInv, private # Missing, rewritten \subseteq {release},
                    NEW v \in Variants \cup {NoVariant}
             PROVE  Config(private, v) = Promise(agreed, Context(release, v))
  BY DEF TermsInForce
<1>1. Sound(agreed) /\ Sound(private) /\ release \in Releases
  BY KeptSound DEF TermsInv, TermsTypeOK
<1>2. Config(private, v) = Applied(private, Context(release, v))
  BY <1>1, ConfigIsApplied
<1>3. Applied(agreed, Context(release, v)) = Promise(agreed, Context(release, v))
  BY <1>1, AppliedIsPromise
<1>4. CASE rewritten = {}
  BY <1>2, <1>3, <1>4 DEF TermsInv, KeptOK
<1>5. CASE rewritten = {release}
  <2>1. private = Flat(agreed, Context(release, NoVariant))
    BY <1>1, <1>5 DEF TermsInv, KeptOK
  <2>. QED
    BY <1>1, <1>2, <1>3, <2>1, AppliedTwice
<1>. QED
  BY <1>4, <1>5

\* SameForEveryone: the two files differ in the map of an old contract only.
LEMMA CopyTellsTheSame == TermsInv => SameForEveryone
<1> SUFFICES ASSUME TermsInv, ~torn, stage \notin {"public", "private"}
             PROVE  IF private = Missing THEN public = Missing
                    ELSE \A v \in Variants \cup {NoVariant} :
                           LET root == Config(private, v)
                               user == Config(public, v)
                               keys == (DOMAIN root \cup DOMAIN user)
                                           \ DOMAIN OfSeries(private, Context(release, NoVariant))
                           IN  \A p \in keys : p \in DOMAIN root \cap DOMAIN user /\ root[p] = user[p]
  BY Zenon DEF SameForEveryone
<1>1. CASE private = Missing
  BY <1>1 DEF TermsInv, CopyOK
<1>2. ASSUME private # Missing, NEW v \in Variants \cup {NoVariant}
      PROVE  \A p \in (DOMAIN Config(private, v) \cup DOMAIN Config(public, v))
                          \ DOMAIN OfSeries(private, Context(release, NoVariant)) :
               /\ p \in DOMAIN Config(private, v) \cap DOMAIN Config(public, v)
               /\ Config(private, v)[p] = Config(public, v)[p]
  <2> DEFINE c == Context(release, v)
             g == General(private, c)
             s == OfSeries(private, c)
             t == private.terms
  <2>1. public = Published(private) /\ Sound(private)
    BY <1>2, KeptSound DEF TermsInv, CopyOK
  <2>2. public.terms = t /\ public.overrides = private.overrides /\ public.series = Nothing
    BY <2>1 DEF Published
  <2>3. Sound(public)
    BY <2>1, <2>2, SoundAgain
  <2>4. Config(private, v) = g ++ s ++ t
    BY <2>1, ConfigIsApplied DEF Applied
  <2>5. General(public, c) = g
    BY <2>2, GeneralByOverrides
  <2>6. Config(public, v) = g ++ t
    BY <2>2, <2>3, <2>5, ConfigIsApplied, AppliedWithout
  <2>7. OfSeries(private, Context(release, NoVariant)) = s
    BY ContextFacts DEF OfSeries
  <2> HIDE DEF c, g, s, t
  <2>8. g ++ s ++ t = g ++ (s ++ t)
    BY OverAssociative
  <2>9. /\ DOMAIN (g ++ (s ++ t)) = DOMAIN g \cup DOMAIN s \cup DOMAIN t
        /\ DOMAIN (g ++ t) = DOMAIN g \cup DOMAIN t
    BY OverDomain DEF ++
  <2>10. \A p \in DOMAIN g \cup DOMAIN t : p \notin DOMAIN s => (g ++ (s ++ t))[p] = (g ++ t)[p]
    BY DEF ++
  <2>. QED
    BY <2>4, <2>6, <2>7, <2>8, <2>9, <2>10
<1>. QED
  BY <1>1, <1>2, Zenon

\* DeltasTell: the overrides applied to the changes say what they say of the new terms.
LEMMA DeltasAreTold == TermsInv => DeltasTell
<1> SUFFICES ASSUME TermsInv, stage = "deltas"
             PROVE  LET new == Promise(agreed, Context(release, NoVariant))
                    IN  /\ \A p \in DOMAIN deltas : deltas[p] = IF p \in DOMAIN new THEN new[p] ELSE Dropped
                        /\ \A p \in DOMAIN orig.terms \cup DOMAIN new :
                             p \in DOMAIN deltas \/ (p \in DOMAIN orig.terms \cap DOMAIN new
                                                     /\ orig.terms[p] = new[p])
  BY Zenon DEF DeltasTell
<1> DEFINE c == Context(release, NoVariant)
           new == Applied(agreed, c)
           old == orig.terms
           diff == Changed(old, new)
           g == General(agreed, c)
           changed == [terms |-> diff, series |-> Nothing,
                       overrides |-> IF orig.overrides = agreed.overrides THEN <<>> ELSE agreed.overrides]
<1>1. private = agreed /\ Sound(agreed) /\ deltas = Delta(orig, Loaded)
  BY KeptSound DEF TermsInv, HeldOK, KeptOK
<1>2. Loaded.terms = new /\ Loaded.overrides = agreed.overrides
  BY <1>1, FlatParts DEF Loaded
<1>3. deltas = Applied(changed, c)
  BY <1>1, <1>2, Zenon DEF Delta
<1>4. changed.series = Nothing /\ changed.terms = diff
  OBVIOUS
<1>5. deltas = General(changed, c) ++ diff
  BY <1>3, <1>4, AppliedWithout
<1>6. Promise(agreed, c) = new
  BY <1>1, AppliedIsPromise
<1>7. /\ \A p \in DOMAIN diff : diff[p] = IF p \in DOMAIN new THEN new[p] ELSE Dropped
      /\ \A p \in DOMAIN old \cup DOMAIN new : p \in DOMAIN diff \/ (p \in DOMAIN old \cap DOMAIN new
                                                                 /\ old[p] = new[p])
  BY DEF Changed
<1>8. \A p \in DOMAIN General(changed, c) : p \in DOMAIN g /\ General(changed, c)[p] = g[p]
  <2>1. CASE orig.overrides = agreed.overrides
    <3>1. \A w : Selected(changed, c, w) = Nothing
      <4>1. changed.overrides = <<>> /\ DOMAIN <<>> = {}
        BY <2>1
      <4>. QED
        BY <4>1, Zenon DEF Selected
    <3>2. DOMAIN Nothing = {}
      BY DEF Nothing
    <3>. QED
      BY <3>1, <3>2, GeneralKeys
  <2>2. CASE orig.overrides # agreed.overrides
    <3>1. changed.overrides = agreed.overrides
      BY <2>2
    <3>. QED
      BY <3>1, GeneralByOverrides
  <2>. QED
    BY <2>1, <2>2
<1>9. \A p \in DOMAIN g : p \in DOMAIN new /\ new[p] = g[p]
  <2>1. new = g ++ (OfSeries(agreed, c) ++ agreed.terms)
    BY OverAssociative DEF Applied
  <2> HIDE DEF g, new
  <2>. QED
    BY <2>1 DEF ++
<1> HIDE DEF c, new, old, diff, g, changed
<1>10. \A p \in DOMAIN deltas : deltas[p] = IF p \in DOMAIN new THEN new[p] ELSE Dropped
  BY <1>5, <1>7, <1>8, <1>9 DEF ++
<1>11. \A p \in DOMAIN diff : p \in DOMAIN deltas
  BY <1>5 DEF ++
<1>12. \A p \in DOMAIN old \cup DOMAIN new : p \in DOMAIN deltas \/ (p \in DOMAIN old \cap DOMAIN new
                                                                  /\ old[p] = new[p])
  BY <1>7, <1>11
<1>. QED
  BY <1>6, <1>10, <1>12 DEF c, old

\* A service and each of its variants is told the terms that the contract gives this release
\* on this cloud, although apply_contract_overrides mutates the document in memory and the
\* token is written back with the overrides in it.
THEOREM TheTermsAreInForce == TermsSpec => []TermsInForce
  BY TermsInvariant, KeptInForce, PTL

\* Who reads the world-readable copy (machine_token.py's write) is told what root is told.
THEOREM TheSameForEveryone == TermsSpec => []SameForEveryone
  BY TermsInvariant, CopyTellsTheSame, PTL

\* The deltas that refresh hands to a service, with the overrides applied to them
\* (contract.py's process_entitlement_delta), are the differences of what is in force.
THEOREM TheDeltasTell == TermsSpec => []DeltasTell
  BY TermsInvariant, DeltasAreTold, PTL

-------------------------------------------------------------------------------
(* ServicePackages, for every set of packages, kernels and conditions. *)

Origins == {"none", "ubuntu", "pro"}
Places == {"idle", "snaps", "required", "source", "downgrade", "install", "others",
           "check", "remove", "unconfigure", "put_back", "purge", "clean"}
Endings == {"none", "enabled", "enable_failed", "disabled", "disable_failed", "purged",
            "refused", "killed"}

\* PkgTypeOK in parts: the machine, the command, and what is told of it.
MachineOK ==
    /\ have \in [Packages -> Origins] /\ held \subseteq Packages
    /\ snaps \subseteq Snaps /\ source \in BOOLEAN
CommandOK ==
    /\ command \in {"none", "enable", "disable"} /\ option \in BOOLEAN
    /\ phase \in Places /\ plan \in [again : SUBSET Packages, gone : SUBSET Packages]
    /\ last \in Endings
ToldOK == declined \in BOOLEAN /\ upset \subseteq {"removed", "installed"}

LEMMA PkgTypeParts == PkgTypeOK <=> MachineOK /\ CommandOK /\ ToldOK
  BY DEF PkgTypeOK, MachineOK, CommandOK, ToldOK, Origins, Places, Endings

LEMMA PackageSets ==
  /\ Meta \in Packages /\ Kernels \subseteq Packages /\ Brings \subseteq Packages
  /\ Required \subseteq Packages /\ Removed \subseteq Required /\ Removed \subseteq Packages
  /\ Meta \notin Kernels /\ Required \cap Kernels = {} /\ Removed \cap Kernels = {}
  /\ Offered \in [Packages -> SUBSET {"ubuntu", "pro"}]
  BY PackagesAssumption

LEMMA WithType ==
  ASSUME NEW set, NEW origin \in Origins, have \in [Packages -> Origins]
  PROVE  With(set, origin) \in [Packages -> Origins]
  BY DEF With

\* The three ways on: to the next place, to the end, and to the end with an error.
LEMMA OnwardOK ==
  ASSUME CommandOK, NEW place \in Places, Onward(place)
  PROVE  CommandOK'
  BY DEF CommandOK, Onward

LEMMA EndsOK ==
  ASSUME NEW how \in Endings, Ends(how)
  PROVE  CommandOK'
  BY DEF CommandOK, Ends, NoPlan, Places

LEMMA RaisesOK ==
  ASSUME Raises
  PROVE  CommandOK'
  <1>1. CASE command = "enable"
    BY <1>1, EndsOK DEF Raises, Endings
  <1>2. CASE command # "enable"
    BY <1>2, EndsOK DEF Raises, Endings
  <1>. QED
    BY <1>1, <1>2

LEMMA StartOK ==
  ASSUME NEW c \in {"enable", "disable"}, NEW o \in BOOLEAN, NEW place \in Places,
         MachineOK, StartCommand(c, o, place)
  PROVE  MachineOK' /\ CommandOK' /\ ToldOK'
  <1>1. MachineOK'
    BY DEF StartCommand, MachineOK
  <1>2. CommandOK'
    BY DEF StartCommand, CommandOK, NoPlan, Endings
  <1>3. ToldOK'
    BY DEF StartCommand, ToldOK
  <1>. QED
    BY <1>1, <1>2, <1>3

LEMMA MeddlesOK ==
  ASSUME CommandOK, ToldOK, NEW what \in {"removed", "installed"}, Meddles(what)
  PROVE  CommandOK' /\ ToldOK'
  BY DEF Meddles, CommandOK, ToldOK

\* The type invariant is preserved by every step.
LEMMA PkgTypeStep ==
  ASSUME PkgTypeOK, [PkgNext]_pkgVars
  PROVE  PkgTypeOK'
<1>a. MachineOK /\ CommandOK /\ ToldOK
  BY PkgTypeParts
<1>b. SUFFICES MachineOK' /\ CommandOK' /\ ToldOK'
  BY DEF PkgTypeOK, MachineOK, CommandOK, ToldOK, Origins, Places, Endings
<1>0. CASE UNCHANGED pkgVars
  BY <1>0, <1>a DEF MachineOK, CommandOK, ToldOK, pkgVars
<1>1. CASE BeginEnable
  BY <1>1, <1>a, StartOK DEF BeginEnable, Places
<1>2. CASE HandleSnaps
  <2>1. CommandOK'
    BY <1>2, <1>a, OnwardOK, RaisesOK DEF HandleSnaps, Places, Endings
  <2>. QED
    BY <2>1, <1>2, <1>a DEF HandleSnaps, MachineOK, ToldOK, told
<1>3. CASE HandlePackages
  <2>1. CommandOK'
    BY <1>3, <1>a, OnwardOK, RaisesOK DEF HandlePackages, Places, Endings
  <2>. QED
    BY <2>1, <1>3, <1>a, WithType DEF HandlePackages, Partly, MachineOK, ToldOK, told, Origins
<1>4. CASE SetUp
  <2>1. CommandOK'
    BY <1>4, <1>a, OnwardOK, RaisesOK, EndsOK DEF SetUp, Places, Endings
  <2>. QED
    BY <2>1, <1>4, <1>a, PackageSets DEF SetUp, MachineOK, ToldOK, told
<1>5. CASE AskDowngrade
  <2>1. CommandOK'
    BY <1>5, <1>a, OnwardOK, RaisesOK DEF AskDowngrade, Places, Endings
  <2>. QED
    BY <2>1, <1>5, <1>a DEF AskDowngrade, MachineOK, ToldOK, told
<1>6. CASE InstallMeta
  <2>1. CommandOK'
    BY <1>6, <1>a, OnwardOK, RaisesOK DEF InstallMeta, Places, Endings
  <2>. QED
    BY <2>1, <1>6, <1>a, WithType DEF InstallMeta, Partly, MachineOK, ToldOK, told, Origins
<1>7. CASE InstallOthers
  <2>1. CommandOK'
    BY <1>7, <1>a, EndsOK DEF InstallOthers, Places, Endings
  <2>. QED
    BY <2>1, <1>7, <1>a, WithType DEF InstallOthers, MachineOK, ToldOK, told, Origins
<1>8. CASE DecidePurge
  <2>1. Ours \subseteq Packages
    BY DEF Ours
  <2>2. CASE Ends("refused") \/ Raises
    BY <1>8, <2>2, <1>a, EndsOK, RaisesOK DEF DecidePurge, MachineOK, ToldOK, told, Endings
  <2>3. CASE ~(Ends("refused") \/ Raises)
    <3>1. CommandOK'
      BY <1>8, <2>1, <2>3, <1>a DEF DecidePurge, CommandOK, Places
    <3>. QED
      BY <3>1, <1>8, <1>a DEF DecidePurge, MachineOK, ToldOK, told
  <2>. QED
    BY <2>2, <2>3
<1>9. CASE RemoveMeta
  <2>1. CommandOK'
    BY <1>9, <1>a, OnwardOK, RaisesOK DEF RemoveMeta, Places, Endings
  <2>. QED
    BY <2>1, <1>9, <1>a, WithType DEF RemoveMeta, MachineOK, ToldOK, told, Origins
<1>10. CASE Unconfigure
  <2>1. CommandOK'
    BY <1>10, <1>a, OnwardOK, RaisesOK DEF Unconfigure, Places, Endings
  <2>. QED
    BY <2>1, <1>10, <1>a DEF Unconfigure, MachineOK, ToldOK, told
<1>11. CASE PutBack
  <2>1. CommandOK'
    BY <1>11, <1>a, OnwardOK, RaisesOK DEF PutBack, Places, Endings
  <2>. QED
    BY <2>1, <1>11, <1>a DEF PutBack, MachineOK, ToldOK, told, Origins
<1>12. CASE PurgeGone
  <2>1. CommandOK'
    BY <1>12, <1>a, OnwardOK, RaisesOK DEF PurgeGone, Places, Endings
  <2>. QED
    BY <2>1, <1>12, <1>a, WithType DEF PurgeGone, Partly, MachineOK, ToldOK, told, Origins
<1>13. CASE CleanUp
  <2>1. CommandOK'
    BY <1>13, <1>a, EndsOK, RaisesOK DEF CleanUp, Places, Endings
  <2>. QED
    BY <2>1, <1>13, <1>a, WithType DEF CleanUp, Partly, MachineOK, ToldOK, told, Origins
<1>14. CASE KillCommand
  <2>1. CommandOK'
    BY <1>14, <1>a, EndsOK DEF KillCommand, Places, Endings
  <2>. QED
    BY <2>1, <1>14, <1>a DEF KillCommand, MachineOK, ToldOK, told
<1>15. CASE BeginDisable
  BY <1>15, <1>a, StartOK DEF BeginDisable, Places
<1>16. CASE RemoveElsewhere
  BY <1>16, <1>a, MeddlesOK, WithType DEF RemoveElsewhere, Meddles, MachineOK, Origins
<1>17. CASE InstallElsewhere
  <2>1. PICK p \in Packages : \E origin \in Offered[p] \ {have[p]} : have' = With({p}, origin) /\ Meddles("installed")
    BY <1>17 DEF InstallElsewhere
  <2>2. PICK origin \in Offered[p] : have' = With({p}, origin) /\ Meddles("installed")
    BY <2>1
  <2>3. origin \in Origins
    BY <2>2, PackageSets DEF Origins
  <2>4. have' \in [Packages -> Origins]
    BY <2>2, <2>3, <1>a, WithType DEF MachineOK
  <2>. QED
    BY <2>2, <2>4, <1>a, MeddlesOK DEF Meddles, MachineOK
<1>. QED
  BY <1>0, <1>1, <1>2, <1>3, <1>4, <1>5, <1>6, <1>7, <1>8, <1>9, <1>10, <1>11, <1>12, <1>13, <1>14, <1>15, <1>16, <1>17 DEF PkgNext

-----------------------------------------------------------------------------
(* The invariant. *)

\* A place belongs to one command, and part of a disable to --purge.
PlaceOK ==
    /\ command = "none" <=> phase = "idle"
    /\ phase \in {"snaps", "required", "source", "downgrade", "install", "others"} => command = "enable"
    /\ phase \in {"check", "remove", "unconfigure", "put_back", "purge", "clean"} => command = "disable"
    /\ phase \in {"check", "put_back", "purge"} => option

\* A kernel is left, and while a purge is under way one that it will not remove.
KernelKept ==
    "removed" \notin upset =>
        /\ Installed \cap Kernels # {}
        /\ phase \in {"remove", "unconfigure", "put_back", "purge"} /\ option =>
               (Installed \cap Kernels) \ plan.gone # {}

\* What is left of the repository on the way: an enable finds none, and a purge has it in
\* its plan, then in the second half of it, then not at all.
PlanCovers ==
    upset = {} =>
        /\ phase \in {"snaps", "required", "source"} => ~source
        /\ phase \in {"remove", "unconfigure", "put_back"} /\ option => Ours \subseteq plan.again \cup plan.gone
        /\ phase = "purge" /\ option => Ours \subseteq plan.gone
        /\ phase = "clean" /\ option => Ours = {}
        /\ phase \in {"put_back", "purge", "clean"} => ~source
        /\ EndsAsAgreed

PkgInv == PkgTypeOK /\ PlaceOK /\ KernelKept /\ PlanCovers

\* What the definitions say of the next state.
LEMMA InstalledPrime ==
  Installed' = {p \in Packages : have'[p] # "none"} /\ Ours' = {p \in Packages : have'[p] = "pro"}
  BY DEF Installed, Ours

\* The effect of With on what is installed, and on what is from the repository.
LEMMA WithSets ==
  ASSUME NEW set \in SUBSET Packages, NEW origin \in Origins, have' = With(set, origin)
  PROVE  /\ origin # "none" => Installed' = Installed \cup set
         /\ origin = "none" => Installed' = Installed \ set
         /\ origin = "pro" => Ours' = Ours \cup set
         /\ origin # "pro" => Ours' = Ours \ set
  BY InstalledPrime DEF Installed, Ours, With, Origins

LEMMA SameSets ==
  ASSUME have' = have
  PROVE  Installed' = Installed /\ Ours' = Ours
  BY DEF Installed, Ours

LEMMA PlaceStep ==
  ASSUME PlaceOK, PkgNext
  PROVE  PlaceOK'
<1>1. CASE BeginEnable
  BY <1>1 DEF BeginEnable, StartCommand, PlaceOK
<1>2. CASE HandleSnaps
  BY <1>2 DEF HandleSnaps, PlaceOK, Onward, Raises, Ends
<1>3. CASE HandlePackages
  BY <1>3 DEF HandlePackages, PlaceOK, Onward, Raises, Ends
<1>4. CASE SetUp
  BY <1>4 DEF SetUp, PlaceOK, Onward, Raises, Ends
<1>5. CASE AskDowngrade
  BY <1>5 DEF AskDowngrade, PlaceOK, Onward, Raises, Ends
<1>6. CASE InstallMeta
  BY <1>6 DEF InstallMeta, PlaceOK, Onward, Raises, Ends
<1>7. CASE InstallOthers
  BY <1>7 DEF InstallOthers, PlaceOK, Ends
<1>8. CASE BeginDisable
  BY <1>8 DEF BeginDisable, StartCommand, PlaceOK
<1>9. CASE DecidePurge
  BY <1>9 DEF DecidePurge, PlaceOK, Raises, Ends
<1>10. CASE RemoveMeta
  BY <1>10 DEF RemoveMeta, PlaceOK, Onward, Raises, Ends
<1>11. CASE Unconfigure
  BY <1>11 DEF Unconfigure, PlaceOK, Onward, Raises, Ends
<1>12. CASE PutBack
  <2>1. phase = "put_back" /\ (Onward("purge") \/ Raises)
    BY <1>12 DEF PutBack
  <2>. QED
    BY <2>1 DEF PlaceOK, Onward, Raises, Ends
<1>13. CASE PurgeGone
  BY <1>13 DEF PurgeGone, PlaceOK, Onward, Raises, Ends
<1>14. CASE CleanUp
  BY <1>14 DEF CleanUp, PlaceOK, Raises, Ends
<1>15. CASE KillCommand
  BY <1>15 DEF KillCommand, PlaceOK, Ends
<1>16. CASE RemoveElsewhere
  BY <1>16 DEF RemoveElsewhere, Meddles, PlaceOK
<1>17. CASE InstallElsewhere
  BY <1>17 DEF InstallElsewhere, Meddles, PlaceOK
<1>. QED
  BY <1>1, <1>2, <1>3, <1>4, <1>5, <1>6, <1>7, <1>8, <1>9, <1>10, <1>11, <1>12, <1>13, <1>14, <1>15,
     <1>16, <1>17 DEF PkgNext

\* The steps that change no package and do not begin or continue a purge.
LEMMA KernelStays ==
  ASSUME KernelKept, upset' = upset, Installed \subseteq Installed',
         phase' \in {"remove", "unconfigure", "put_back", "purge"} /\ option' =>
             /\ plan' = plan /\ option /\ phase \in {"remove", "unconfigure", "put_back", "purge"}
  PROVE  KernelKept'
  BY DEF KernelKept

\* No step takes the last kernel, unless someone else removed packages meanwhile.
LEMMA KernelStep ==
  ASSUME PkgTypeOK, PlaceOK, KernelKept, PkgNext
  PROVE  KernelKept'
<1>t. have \in [Packages -> Origins] /\ MachineOK /\ CommandOK
  BY PkgTypeParts DEF MachineOK
<1>1. CASE BeginEnable
  BY <1>1, SameSets DEF BeginEnable, StartCommand, KernelKept
<1>2. CASE HandleSnaps
  BY <1>2, SameSets, KernelStays DEF HandleSnaps, Onward, Raises, Ends, told
<1>3. CASE HandlePackages
  <2>1. Installed \subseteq Installed'
    BY <1>3, SameSets, WithSets, PackageSets DEF HandlePackages, Partly, Origins
  <2>. QED
    BY <2>1, <1>3, KernelStays DEF HandlePackages, Onward, Raises, Ends, told
<1>4. CASE SetUp
  BY <1>4, SameSets, KernelStays DEF SetUp, Onward, Raises, Ends, told
<1>5. CASE AskDowngrade
  BY <1>5, SameSets, KernelStays DEF AskDowngrade, Onward, Raises, Ends, told
<1>6. CASE InstallMeta
  <2>1. Installed \subseteq Installed'
    BY <1>6, SameSets, WithSets, PackageSets DEF InstallMeta, Partly, Origins
  <2>. QED
    BY <2>1, <1>6, KernelStays DEF InstallMeta, Onward, Raises, Ends, told
<1>7. CASE InstallOthers
  <2>1. Installed \subseteq Installed'
    <3>1. PICK set \in SUBSET Packages : have' = have \/ have' = With(set, "pro")
      <4>1. Upgradable \in SUBSET Packages
        BY DEF Upgradable, Installed
      <4>2. \A some \in SUBSET (Conditional \ held) : some \in SUBSET Packages
        BY DEF Conditional
      <4>. QED
        BY <1>7, <4>1, <4>2 DEF InstallOthers
    <3>. QED
      BY <3>1, SameSets, WithSets DEF Origins
  <2>. QED
    BY <2>1, <1>7, KernelStays DEF InstallOthers, Ends, told
<1>8. CASE BeginDisable
  BY <1>8, SameSets DEF BeginDisable, StartCommand, KernelKept
<1>9. CASE DecidePurge
  <2>1. CASE Ends("refused") \/ Raises
    BY <1>9, <2>1, SameSets, KernelStays DEF DecidePurge, Raises, Ends, told
  <2>2. CASE ~(Ends("refused") \/ Raises)
    <3>1. SafeFor(Ours) /\ plan'.gone \subseteq Ours /\ upset' = upset /\ Installed' = Installed
      BY <1>9, <2>2, SameSets DEF DecidePurge, told
    <3>. QED
      BY <3>1 DEF SafeFor, KernelKept
  <2>. QED
    BY <2>1, <2>2
<1>10. CASE RemoveMeta
  <2>1. Installed' \cap Kernels = Installed \cap Kernels
    BY <1>10, SameSets, WithSets, PackageSets DEF RemoveMeta, Origins
  <2>. QED
    BY <2>1, <1>10 DEF RemoveMeta, Onward, Raises, Ends, told, KernelKept
<1>11. CASE Unconfigure
  BY <1>11, SameSets, KernelStays DEF Unconfigure, Onward, Raises, Ends, told
<1>12. CASE PutBack
  <2>1. Installed \cap Kernels \subseteq Installed'
    <3>1. \A pair \in Needs : pair[1] \notin Kernels
      BY PackagesAssumption
    <3>2. PICK back \in SUBSET (plan.again \cap Installed) :
            \E lost \in SUBSET {p \in Installed \ back : \E q \in back : <<p, q>> \in Needs} :
              have' = [p \in Packages |-> IF p \in lost THEN "none"
                                          ELSE IF p \in back THEN "ubuntu" ELSE have[p]]
      BY <1>12 DEF PutBack
    <3>3. PICK lost \in SUBSET {p \in Installed \ back : \E q \in back : <<p, q>> \in Needs} :
            have' = [p \in Packages |-> IF p \in lost THEN "none"
                                        ELSE IF p \in back THEN "ubuntu" ELSE have[p]]
      BY <3>2
    <3>4. lost \cap Kernels = {}
      BY <3>1
    <3>5. \A p \in Installed \ lost : p \in Packages /\ have'[p] # "none"
      BY <3>3 DEF Installed
    <3>. QED
      BY <3>4, <3>5, InstalledPrime
  <2>. QED
    BY <2>1, <1>12 DEF PutBack, Onward, Raises, Ends, told, KernelKept
<1>13. CASE PurgeGone
  <2>1. Installed \ plan.gone \subseteq Installed'
    <3>1. PICK some \in SUBSET (plan.gone \cap Installed) : have' = With(some, "none")
      BY <1>13 DEF PurgeGone, Partly
    <3>2. some \in SUBSET Packages
      BY DEF Installed
    <3>. QED
      BY <3>1, <3>2, WithSets DEF Origins
  <2>2. phase' \in {"clean", "idle"} /\ phase = "purge" /\ upset' = upset
    BY <1>13 DEF PurgeGone, Onward, Raises, Ends, told
  <2>. QED
    BY <2>1, <2>2, <1>13 DEF PurgeGone, Onward, Raises, Ends, told, KernelKept, PlaceOK
<1>14. CASE CleanUp
  <2>1. Installed' \cap Kernels = Installed \cap Kernels
    BY <1>14, SameSets, WithSets, PackageSets DEF CleanUp, Partly, Origins
  <2>. QED
    BY <2>1, <1>14 DEF CleanUp, Raises, Ends, told, KernelKept
<1>15. CASE KillCommand
  BY <1>15, SameSets, KernelStays DEF KillCommand, Ends, told
<1>16. CASE RemoveElsewhere
  <2>1. PICK p \in Installed : /\ (Installed \cap Kernels) \ {p} # {}
                               /\ have' = With({p}, "none") /\ Meddles("removed")
    BY <1>16 DEF RemoveElsewhere
  <2>2. Installed' = Installed \ {p}
    BY <2>1, WithSets DEF Origins, Installed
  <2>3. upset' = upset => (phase' = phase /\ phase = "idle") \/ "removed" \in upset
    BY <2>1 DEF Meddles, PlaceOK
  <2>4. "removed" \notin upset' => upset' = upset
    BY <2>1 DEF Meddles
  <2>. QED
    BY <2>1, <2>2, <2>3, <2>4 DEF KernelKept
<1>17. CASE InstallElsewhere
  <2>1. PICK p \in Packages : \E origin \in Offered[p] : have' = With({p}, origin) /\ Meddles("installed")
    BY <1>17 DEF InstallElsewhere
  <2>2. Installed' = Installed \cup {p}
    <3>1. PICK origin \in Offered[p] : have' = With({p}, origin)
      BY <2>1
    <3>2. origin \in {"ubuntu", "pro"}
      BY PackageSets
    <3>. QED
      BY <3>1, <3>2, WithSets DEF Origins
  <2>3. "removed" \notin upset' => "removed" \notin upset
    BY <2>1 DEF Meddles
  <2>4. phase' = phase /\ option' = option /\ plan' = plan
    BY <2>1 DEF Meddles
  <2>. QED
    BY <2>2, <2>3, <2>4 DEF KernelKept
<1>. QED
  BY <1>1, <1>2, <1>3, <1>4, <1>5, <1>6, <1>7, <1>8, <1>9, <1>10, <1>11, <1>12, <1>13, <1>14, <1>15,
     <1>16, <1>17 DEF PkgNext

\* The plan covers what is left of the repository, and every end is as agreed.
LEMMA PlanStep ==
  ASSUME PkgTypeOK, PlaceOK, PlanCovers, PkgNext
  PROVE  PlanCovers'
<1>t. MachineOK /\ CommandOK
  BY PkgTypeParts
<1> USE DEF PlanCovers, EndsAsAgreed
<1>1. CASE BeginEnable
  BY <1>1 DEF BeginEnable, StartCommand
<1>2. CASE HandleSnaps
  BY <1>2, SameSets DEF HandleSnaps, Onward, Raises, Ends, told, PlaceOK
<1>3. CASE HandlePackages
  <2>1. Ours' = Ours
    BY <1>3, SameSets, WithSets, PackageSets DEF HandlePackages, Partly, Origins, Ours, Installed
  <2>. QED
    BY <2>1, <1>3 DEF HandlePackages, Onward, Raises, Ends, told, PlaceOK
<1>4. CASE SetUp
  BY <1>4, SameSets DEF SetUp, Onward, Raises, Ends, told, PlaceOK
<1>5. CASE AskDowngrade
  BY <1>5, SameSets DEF AskDowngrade, Onward, Raises, Ends, told, PlaceOK
<1>6. CASE InstallMeta
  BY <1>6 DEF InstallMeta, Onward, Raises, Ends, told, PlaceOK
<1>7. CASE InstallOthers
  BY <1>7 DEF InstallOthers, Ends, told, PlaceOK
<1>8. CASE BeginDisable
  BY <1>8, SameSets DEF BeginDisable, StartCommand
<1>9. CASE DecidePurge
  <2>1. CASE Ends("refused") \/ Raises
    BY <2>1, <1>9 DEF DecidePurge, Raises, Ends, told, PlaceOK
  <2>2. CASE ~(Ends("refused") \/ Raises)
    <3>1. /\ plan'.again = {p \in Ours : "ubuntu" \in Offered[p]}
          /\ plan'.gone = {p \in Ours : "ubuntu" \notin Offered[p]}
          /\ phase' = "remove" /\ UNCHANGED <<have, source, command, last, upset, declined>>
      BY <2>2, <1>9 DEF DecidePurge, told
    <3>2. Ours \subseteq plan'.again \cup plan'.gone
      BY <3>1
    <3>. QED
      BY <3>1, <3>2, <1>9, SameSets DEF DecidePurge, PlaceOK
  <2>. QED
    BY <2>1, <2>2
<1>10. CASE RemoveMeta
  <2>1. Ours' \subseteq Ours
    BY <1>10, SameSets, WithSets, PackageSets DEF RemoveMeta, Origins
  <2>. QED
    BY <2>1, <1>10 DEF RemoveMeta, Onward, Raises, Ends, told, PlaceOK
<1>11. CASE Unconfigure
  BY <1>11, SameSets DEF Unconfigure, Onward, Raises, Ends, told, PlaceOK
<1>12. CASE PutBack
  <2>1. CASE Onward("purge")
    <3>1. \A p \in Ours' : p \in Ours \ plan.again
      BY <1>12, <2>1, InstalledPrime DEF PutBack, Onward, Raises, Ends, Ours, Installed
    <3>. QED
      BY <3>1, <2>1, <1>12 DEF PutBack, Onward, Raises, Ends, told, PlaceOK
  <2>2. CASE ~Onward("purge")
    BY <2>2, <1>12 DEF PutBack, Raises, Ends, told, PlaceOK
  <2>. QED
    BY <2>1, <2>2
<1>13. CASE PurgeGone
  <2>1. CASE Onward("clean")
    <3>1. plan.gone \cap Installed \in SUBSET Packages /\ Ours \subseteq Installed
      BY DEF Installed, Ours
    <3>2. Ours' = Ours \ (plan.gone \cap Installed)
      BY <1>13, <2>1, <3>1, WithSets DEF PurgeGone, Origins, Onward, Raises, Ends
    <3>. QED
      BY <3>1, <3>2, <2>1, <1>13 DEF PurgeGone, Onward, Raises, Ends, told, PlaceOK
  <2>2. CASE ~Onward("clean")
    BY <2>2, <1>13 DEF PurgeGone, Raises, Ends, told, PlaceOK
  <2>. QED
    BY <2>1, <2>2
<1>14. CASE CleanUp
  <2>1. Ours' \subseteq Ours
    BY <1>14, SameSets, WithSets, PackageSets DEF CleanUp, Partly, Origins
  <2>. QED
    BY <2>1, <1>14 DEF CleanUp, Raises, Ends, told, PlaceOK
<1>15. CASE KillCommand
  BY <1>15 DEF KillCommand, Ends, told
<1>16. CASE RemoveElsewhere
  <2>1. PICK p \in Installed : have' = With({p}, "none") /\ Meddles("removed")
    BY <1>16 DEF RemoveElsewhere
  <2>2. Ours' \subseteq Ours
    BY <2>1, WithSets DEF Origins, Installed
  <2>. QED
    BY <2>1, <2>2 DEF Meddles, PlaceOK
<1>17. CASE InstallElsewhere
  <2>1. PICK p \in Packages : \E origin \in Offered[p] : /\ origin = "pro" => source
                                                         /\ have' = With({p}, origin) /\ Meddles("installed")
    BY <1>17 DEF InstallElsewhere
  <2>2. PICK origin \in Offered[p] : /\ origin = "pro" => source
                                     /\ have' = With({p}, origin) /\ Meddles("installed")
    BY <2>1
  <2>3. origin \in {"ubuntu", "pro"}
    BY PackageSets
  <2>4. Ours' \subseteq Ours \/ source
    BY <2>2, <2>3, WithSets DEF Origins
  <2>. QED
    BY <2>2, <2>4 DEF Meddles, PlaceOK
<1>. QED
  BY <1>1, <1>2, <1>3, <1>4, <1>5, <1>6, <1>7, <1>8, <1>9, <1>10, <1>11, <1>12, <1>13, <1>14, <1>15,
     <1>16, <1>17 DEF PkgNext

LEMMA PkgInvStart == PkgInit => PkgInv
<1> SUFFICES ASSUME PkgInit PROVE PkgInv
  OBVIOUS
<1>1. have \in [Packages -> {"none", "ubuntu"}] /\ \E k \in Kernels : have[k] # "none"
  BY PackagesAssumption DEF PkgInit
<1>2. MachineOK /\ CommandOK /\ ToldOK
  <2>1. held \subseteq Packages
    BY DEF PkgInit
  <2>. QED
    BY <1>1, <2>1 DEF PkgInit, MachineOK, CommandOK, ToldOK, NoPlan, Origins, Places, Endings
<1>3. KernelKept
  BY <1>1, PackageSets DEF PkgInit, KernelKept, Installed
<1>. QED
  BY <1>2, <1>3, PkgTypeParts DEF PkgInit, PkgInv, PlaceOK, PlanCovers, EndsAsAgreed

LEMMA PkgInvStep == PkgInv /\ [PkgNext]_pkgVars => PkgInv'
<1> SUFFICES ASSUME PkgInv, [PkgNext]_pkgVars PROVE PkgInv'
  OBVIOUS
<1>1. CASE PkgNext
  BY <1>1, PkgTypeStep, PlaceStep, KernelStep, PlanStep DEF PkgInv
<1>2. CASE UNCHANGED pkgVars
  BY <1>2, PkgTypeStep, SameSets DEF PkgInv, pkgVars, PlaceOK, KernelKept, PlanCovers, EndsAsAgreed
<1>. QED
  BY <1>1, <1>2

\* What holds at every call of apt or snap that enable and disable make (base.py, repo.py,
\* fips.py): where the command is, that a kernel stays out of the purge, and what the plan
\* of the purge still has to cover.
THEOREM PkgInvariant == PkgSpec => []PkgInv
  BY PkgInvStart, PkgInvStep, PTL DEF PkgSpec

\* The types of the machine's packages and of the command under way.
THEOREM PkgTypes == PkgSpec => []PkgTypeOK
  BY PkgInvariant, PTL DEF PkgInv

\* A purge never takes the last kernel: repo.py's purge_kernel_check looks once, before
\* anything is removed, and nothing that the command does later touches another kernel.
THEOREM AKernelRemains == PkgSpec => []KernelRemains
<1>1. PkgInv => KernelRemains
  BY DEF PkgInv, KernelKept, KernelRemains
<1>. QED
  BY <1>1, PkgInvariant, PTL

\* A purge that ends well leaves nothing of the repository, and an enable that fails leaves no
\* repository (repo.py's install_packages and _perform_disable), a declined kernel excepted.
THEOREM EveryEndIsAsAgreed == PkgSpec => []EndsAsAgreed
<1>1. PkgInv => EndsAsAgreed
  BY DEF PkgInv, PlanCovers, EndsAsAgreed
<1>. QED
  BY <1>1, PkgInvariant, PTL

===============================================================================
