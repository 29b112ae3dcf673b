----------------------------- MODULE ContractTerms -----------------------------
(***************************************************************************)
(* The terms of a service: what the contract says of it, as one document   *)
(* with overrides for a release, a cloud or a variant, and what the client *)
(* makes of the document: it keeps it in machine-token.json and in a copy  *)
(* for everyone, applies the overrides to it in memory, sends its activity *)
(* and writes the document back, and compares it with the next one.        *)
(*                                                                         *)
(* One process of root runs at a time; the lock and the races of those that *)
(* do not take it are the subject of ProLock and Attachment.               *)
(***************************************************************************)
EXTENDS Integers, Sequences, FiniteSetsExt

CONSTANTS
    LastRelease,  \* bound: the releases are 0..LastRelease, and only upgrades happen
    Cloud,        \* the cloud this machine is on, or the name of none
    Variants,     \* the variants of the service
    NoVariant,    \* the service itself
    Entitlements  \* what the server may say: documents

Releases == 0..LastRelease

ASSUME TermsAssumption ==
    /\ LastRelease \in Nat /\ NoVariant \notin Variants
    /\ \A doc \in Entitlements :
           /\ DOMAIN doc = {"terms", "series", "overrides"}
           /\ \A i \in DOMAIN doc.overrides :
                  DOMAIN doc.overrides[i].selector \subseteq {"series", "cloud", "variant"}

VARIABLES
    offer,     \* what the server says now
    release,   \* the release of the machine
    private,   \* machine-token.json of root, or Missing
    public,    \* its copy for everyone
    job,       \* the process that runs, or "none"
    stage,     \* where it is
    document,  \* what it has in memory, or Missing
    deltas,    \* the changes a refresh has found
    orig,      \* the terms before the refresh
    agreed,    \* history: the server's last answer to an attach or a refresh
    rewritten, \* history: the releases under which it was written back with overrides applied
    torn       \* history: a process ended between two writes

files == <<private, public>>
process == <<job, stage, document, deltas, orig>>
ledger == <<agreed, rewritten, torn>>
termsVars == <<offer, release, files, process, ledger>>

-----------------------------------------------------------------------------
(* Overrides. *)

Nothing == [p \in {} |-> p]
Missing == Nothing  \* no file, no document

\* dict.update: of two values of one key the left one has the last word.
new ++ old ==
    [p \in DOMAIN new \cup DOMAIN old |-> IF p \in DOMAIN new THEN new[p] ELSE old[p]]

\* selector_values; the machine's release and cloud, and the variant if it is one.
Context(r, v) ==
    IF v = NoVariant THEN [series |-> r, cloud |-> Cloud]
    ELSE [series |-> r, cloud |-> Cloud, variant |-> v]

Fits(selector, context) ==
    \A k \in DOMAIN selector : k \in DOMAIN context /\ selector[k] = context[k]

\* Mutant of Weight: a cloud counts for no more than a release.
WeightFlat(selector) ==
    (IF "series" \in DOMAIN selector THEN 2 ELSE 0)
        + (IF "cloud" \in DOMAIN selector THEN 2 ELSE 0)
        + (IF "variant" \in DOMAIN selector THEN 4 ELSE 0)

\* OVERRIDE_SELECTOR_WEIGHTS; an override without a selector weighs nothing, and is left out.
Weight(selector) ==
    (IF "series" \in DOMAIN selector THEN 2 ELSE 0)
        + (IF "cloud" \in DOMAIN selector THEN 3 ELSE 0)
        + (IF "variant" \in DOMAIN selector THEN 4 ELSE 0)

\* _select_overrides keeps one override for a weight: the last of the list.
Selected(doc, context, w) ==
    LET fit == {i \in DOMAIN doc.overrides : /\ Fits(doc.overrides[i].selector, context)
                                             /\ Weight(doc.overrides[i].selector) = w}
    IN  IF fit = {} THEN Nothing ELSE doc.overrides[Max(fit)].terms

\* The "series" map of an old contract weighs 1.
OfSeries(doc, context) ==
    IF context.series \in DOMAIN doc.series THEN doc.series[context.series] ELSE Nothing

\* The heavier override has the last word on each key.  A sum of weights tells which
\* selectors it is made of; 8 is none.
General(doc, context) ==
    LET o(w) == Selected(doc, context, w)
    IN  o(9) ++ o(7) ++ o(6) ++ o(5) ++ o(4) ++ o(3) ++ o(2)

\* Mutant of Applied: the map of an old contract has the last word.
AppliedSeriesLast(doc, context) == OfSeries(doc, context) ++ General(doc, context) ++ doc.terms

Applied(doc, context) == General(doc, context) ++ OfSeries(doc, context) ++ doc.terms

\* apply_contract_overrides works on the document itself, from which the map is taken out.
Flat(doc, context) ==
    [terms |-> Applied(doc, context), series |-> Nothing, overrides |-> doc.overrides]

\* entitlement_cfg: the entitlements of the token, and for a variant a copy of them to which
\* the overrides are applied once more.
Config(doc, v) ==
    LET flat == Flat(doc, Context(release, NoVariant))
    IN  IF v = NoVariant THEN flat.terms ELSE Applied(flat, Context(release, v))

\* Mutant of Published: it has no field for the overrides either.
PublishedBare(doc) == [terms |-> doc.terms, series |-> Nothing, overrides |-> <<>>]

\* PublicMachineTokenData has no field for the map of an old contract.  The terms of this
\* module are those it has fields for: of the others (aptKey, requiredSnaps,
\* requiredPackages, onlySeries) the copy says nothing.
Published(doc) == [terms |-> doc.terms, series |-> Nothing, overrides |-> doc.overrides]

-----------------------------------------------------------------------------
(* Changes. *)

Dropped == "DROPPED"

\* get_dict_deltas, key by key.
Changed(old, new) ==
    [p \in {p \in DOMAIN old \cup DOMAIN new :
               p \notin DOMAIN old \cap DOMAIN new \/ old[p] # new[p]}
        |-> IF p \in DOMAIN new THEN new[p] ELSE Dropped]

\* process_contract_deltas applies the overrides to the changes too, if they have changed.
Delta(old, new) ==
    LET changed == [terms |-> Changed(old.terms, new.terms), series |-> Nothing,
                    overrides |-> IF old.overrides = new.overrides THEN <<>> ELSE new.overrides]
    IN  Applied(changed, Context(release, NoVariant))
-----------------------------------------------------------------------------
(* The processes. *)

TermsInit ==
    /\ offer \in Entitlements /\ release = 0 /\ private = Missing /\ public = Missing
    /\ job = "none" /\ stage = "idle" /\ document = Missing /\ deltas = Nothing /\ orig = Missing
    /\ agreed = Missing /\ rewritten = {} /\ torn = FALSE

Goes(j, place) == job' = j /\ stage' = place
Done == Goes("none", "idle") /\ document' = Missing /\ deltas' = Nothing /\ orig' = Missing
Loaded == Flat(private, Context(release, NoVariant))

\* attach and refresh write what the server says as it is.
ObtainTerms ==
    /\ job = "none" /\ private = Missing
    /\ Goes("attach", "public") /\ document' = offer /\ private' = offer
    /\ agreed' = offer /\ rewritten' = {}
    /\ UNCHANGED <<offer, release, public, deltas, orig, torn>>

RefreshTerms ==
    /\ job = "none" /\ private # Missing
    /\ Goes("refresh", "public") /\ document' = offer /\ private' = offer /\ orig' = Loaded
    /\ agreed' = offer /\ rewritten' = {}
    /\ UNCHANGED <<offer, release, public, deltas, torn>>

\* Mutant of WritePublic: a refresh compares with the old terms it still has in memory.
WritePublicCached ==
    /\ stage = "public" /\ public' = Published(document) /\ torn' = FALSE
    /\ \/ job # "refresh" /\ Done
       \/ /\ job = "attach" /\ UNCHANGED <<deltas, orig>>
          /\ \/ Goes("activity", "answer") /\ document' = Loaded
             \/ Goes("detach", "delete") /\ document' = Missing
       \/ /\ job = "refresh" /\ Goes("refresh", "deltas") /\ UNCHANGED orig
          /\ document' = orig /\ deltas' = Delta(orig, document')
    /\ UNCHANGED <<offer, release, private, agreed, rewritten>>

\* The second write clears what is cached.  An attach whose services do not have URLs of
\* their own is undone; otherwise "pro attach" sends the activity.  A refresh compares the
\* terms with those before.
WritePublic ==
    /\ stage = "public" /\ public' = Published(document) /\ torn' = FALSE
    /\ \/ job # "refresh" /\ Done
       \/ /\ job = "attach" /\ UNCHANGED <<deltas, orig>>
          /\ \/ Goes("activity", "answer") /\ document' = Loaded
             \/ Goes("detach", "delete") /\ document' = Missing
       \/ /\ job = "refresh" /\ Goes("refresh", "deltas") /\ UNCHANGED orig
          /\ document' = Loaded /\ deltas' = Delta(orig, document')
    /\ UNCHANGED <<offer, release, private, agreed, rewritten>>

\* What is done about the changes is the subject of Services.
EndRefreshTerms ==
    /\ stage = "deltas" /\ Done
    /\ UNCHANGED <<offer, release, files, ledger>>

\* _get_activity_info: the services that are enabled are part of what is sent, and to tell
\* their status the terms are worked out on the document in memory.
WorkOut(j) ==
    /\ job = "none" /\ private # Missing
    /\ Goes(j, "answer") /\ document' = Loaded
    /\ UNCHANGED <<offer, release, files, deltas, orig, ledger>>

\* Metering, enable and disable send the activity; the messages ask for the expiry.
SendActivity == WorkOut("activity")
AskExpiry == WorkOut("expiry")

\* An answer with something new: the document in memory is written, as it has become.
Answer ==
    /\ stage = "answer"
    /\ \/ Done /\ UNCHANGED <<private, rewritten>>
       \/ /\ Goes(job, "public") /\ private' = document /\ UNCHANGED <<document, deltas, orig>>
          /\ rewritten' = rewritten \cup {release}
    /\ UNCHANGED <<offer, release, public, agreed, torn>>

GiveUpTerms ==
    /\ job = "none" /\ private # Missing
    /\ Goes("detach", "delete")
    /\ UNCHANGED <<offer, release, files, document, deltas, orig, ledger>>

\* MachineTokenFile.delete: first the copy.
DeletePublic ==
    /\ stage = "delete" /\ public' = Missing /\ Goes("detach", "private")
    /\ UNCHANGED <<offer, release, private, document, deltas, orig, ledger>>
DeletePrivate ==
    /\ stage = "private" /\ private' = Missing /\ Done
    /\ agreed' = Missing /\ rewritten' = {} /\ torn' = FALSE
    /\ UNCHANGED <<offer, release, public>>

KillProcess ==
    /\ job # "none" /\ Done
    /\ torn' = (torn \/ stage \in {"public", "private"})
    /\ UNCHANGED <<offer, release, files, agreed, rewritten>>

UpgradeRelease ==
    /\ job = "none" /\ release < LastRelease /\ release' = release + 1
    /\ UNCHANGED <<offer, files, process, ledger>>

ChangeOffer ==
    /\ offer' \in Entitlements \ {offer}
    /\ UNCHANGED <<release, files, process, ledger>>

TermsNext ==
    \/ ObtainTerms \/ RefreshTerms \/ WritePublic \/ EndRefreshTerms \/ SendActivity \/ AskExpiry
    \/ Answer \/ GiveUpTerms \/ DeletePublic \/ DeletePrivate \/ KillProcess \/ UpgradeRelease \/ ChangeOffer

TermsSpec == TermsInit /\ [][TermsNext]_termsVars

-----------------------------------------------------------------------------
(* Properties. *)

Jobs == { <<"none", "idle">>, <<"attach", "public">>, <<"refresh", "public">>,
          <<"refresh", "deltas">>, <<"activity", "answer">>, <<"activity", "public">>,
          <<"expiry", "answer">>, <<"expiry", "public">>, <<"detach", "delete">>,
          <<"detach", "private">> }

\* Only attach and refresh bring documents, and always the server's.
TermsTypeOK ==
    /\ offer \in Entitlements /\ release \in Releases /\ <<job, stage>> \in Jobs
    /\ rewritten \subseteq Releases /\ torn \in BOOLEAN
    /\ private # Missing => agreed \in Entitlements /\ private.overrides = agreed.overrides

\* What the last override of the list says that is about exactly these selectors and about
\* this machine.
Meant(doc, context, selectors) ==
    LET fit == {i \in DOMAIN doc.overrides : /\ DOMAIN doc.overrides[i].selector = selectors
                                             /\ Fits(doc.overrides[i].selector, context)}
    IN  IF fit = {} THEN Nothing ELSE doc.overrides[Max(fit)].terms

\* The order in which the overrides of a document count: the more selectors the better, and
\* then a variant before a cloud before a release.
Promise(doc, context) ==
    LET o(selectors) == Meant(doc, context, selectors)
    IN  o({"series", "cloud", "variant"})
           ++ o({"cloud", "variant"}) ++ o({"series", "variant"}) ++ o({"series", "cloud"})
           ++ o({"variant"}) ++ o({"cloud"}) ++ o({"series"})
           ++ OfSeries(doc, context) ++ doc.terms

\* However often the client works its overrides into the document, writes it back and reads
\* it again, a service and each of its variants have the terms that the server's last answer
\* gives this machine, in this order.  Only a release upgrade after a document was written
\* back is not promised anything: the map of the old contract is no longer there then.
TermsInForce ==
    private # Missing /\ rewritten \subseteq {release} =>
        \A v \in Variants \cup {NoVariant} : Config(private, v) = Promise(agreed, Context(release, v))

\* Unless a process ended between its two writes or is between them, those who may not read
\* the token are told the same terms as root, but for what the map of an old contract sets
\* for this release.
SameForEveryone ==
    ~torn /\ stage \notin {"public", "private"} =>
        IF private = Missing THEN public = Missing
        ELSE \A v \in Variants \cup {NoVariant} :
                 LET root == Config(private, v)
                     user == Config(public, v)
                     keys == (DOMAIN root \cup DOMAIN user)
                                 \ DOMAIN OfSeries(private, Context(release, NoVariant))
                 IN  \A p \in keys : p \in DOMAIN root \cap DOMAIN user /\ root[p] = user[p]

\* The changes a refresh goes by lead from the terms before to the server's new terms: they
\* name every key that is different now, and for each key they name they have what the new
\* terms say, though the overrides have been applied to all of them more than once.
DeltasTell ==
    stage = "deltas" =>
        LET new == Promise(agreed, Context(release, NoVariant))
        IN  /\ \A p \in DOMAIN deltas :
                   deltas[p] = IF p \in DOMAIN new THEN new[p] ELSE Dropped
            /\ \A p \in DOMAIN orig.terms \cup DOMAIN new :
                   p \in DOMAIN deltas \/ (p \in DOMAIN orig.terms \cap DOMAIN new
                                           /\ orig.terms[p] = new[p])

=============================================================================
