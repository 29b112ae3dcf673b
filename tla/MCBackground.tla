----------------------------- MODULE MCBackground -----------------------------
(* Small instances of five components: what runs without a command of the user, or beside
   one, and the terms and packages of a single service.  They share no variable, so each
   behaviour is one of one component: the others stand still. *)
EXTENDS AutoAttach, TimerJobs, MagicAttach, ContractTerms, ServicePackages, TLC

VARIABLE scene

Machine(c, i, o) == [cloud |-> c, image |-> i, polls |-> TRUE, ops |-> o]
Machines ==
    { Machine("gce", FALSE, {"attach", "detach"}),
      Machine("gce", FALSE, {"attach_api", "restart"}),
      Machine("azure", TRUE, {"attach_api", "status", "configure"}),
      Machine("other", TRUE, {"attach", "auto_attach", "detach"}) }

\* The documents of a contract: an old one, with its map of releases; one with every kind of
\* override, the heaviest first; and one with two overrides for the same cloud.
Override(selector, terms) == [selector |-> selector, terms |-> terms]
Document(terms, series, overrides) == [terms |-> terms, series |-> series, overrides |-> overrides]
Documents ==
    { Document([url |-> "u1", suites |-> "a"],
               (0 :> [suites |-> "s0"]) @@ (1 :> [suites |-> "s1", extra |-> "e"]), <<>>),
      Document([url |-> "u0"], 1 :> [url |-> "old"],
               << Override([series |-> 1, cloud |-> "aws", variant |-> "hwe"], [top |-> "scv"]),
                  Override([cloud |-> "aws", variant |-> "hwe"], [url |-> "cv", top |-> "cv"]),
                  Override([series |-> 1, variant |-> "hwe"],
                           [url |-> "sv", top |-> "sv", kernel |-> "sv"]),
                  Override([series |-> 1, cloud |-> "aws"],
                           [url |-> "sc", kernel |-> "sc", suites |-> "sc"]),
                  Override([variant |-> "hwe"], [url |-> "v", suites |-> "v", extra |-> "v"]),
                  Override([cloud |-> "aws"], [url |-> "c", suites |-> "c", extra |-> "c"]),
                  Override([series |-> 1], [url |-> "s", extra |-> "s"]),
                  Override([cloud |-> "gce"], [url |-> "g"]) >>),
      Document([url |-> "u2", suites |-> "a"], Nothing,
               << Override([cloud |-> "aws"], [url |-> "c1", suites |-> "c1"]),
                  Override([series |-> 0], [url |-> "s0"]),
                  Override([cloud |-> "aws"], [extra |-> "c2"]),
                  Override(Nothing, [url |-> "any"]) >>) }

\* A FIPS service: the kernel, its metapackage, a library that has both versions and an hmac
\* package that depends on the service's one, and a required tool.
Names == {"ga", "kfips", "meta", "ssl", "hmac", "tool"}
Origin == [p \in Names |-> CASE p \in {"ga", "tool"} -> {"ubuntu"}
                             [] p = "ssl" -> {"ubuntu", "pro"}
                             [] OTHER -> {"pro"}]
Earlier == { [p \in Names |-> IF p \in {"ga", "ssl"} THEN "ubuntu" ELSE "none"] }
Conditions == {<<"ssl", "ssl">>, <<"hmac", "ssl">>}
Dependence == {<<"hmac", "ssl">>}

Init ==
    /\ scene \in {"auto", "timer", "magic", "terms", "packages"}
    /\ AutoInit /\ TimerInit /\ MagicInit /\ TermsInit /\ PkgInit
    /\ scene # "auto" => setting = Machine("gce", FALSE, {"attach", "detach"}) /\ ~licence
    /\ scene # "timer" => interval = 1
    /\ scene # "terms" => offer = CHOOSE doc \in Documents : TRUE
    /\ scene # "packages" => held = {}

Next ==
    /\ UNCHANGED scene
    /\ \/ /\ scene = "auto" /\ AutoNext
          /\ UNCHANGED <<timerVars, magicVars, termsVars, pkgVars>>
       \/ /\ scene = "timer" /\ TimerNext
          /\ UNCHANGED <<autoVars, magicVars, termsVars, pkgVars>>
       \/ /\ scene = "magic" /\ MagicNext
          /\ UNCHANGED <<autoVars, timerVars, termsVars, pkgVars>>
       \/ /\ scene = "terms" /\ TermsNext
          /\ UNCHANGED <<autoVars, timerVars, magicVars, pkgVars>>
       \/ /\ scene = "packages" /\ PkgNext
          /\ UNCHANGED <<autoVars, timerVars, magicVars, termsVars>>

vars == <<scene, autoVars, timerVars, magicVars, termsVars, pkgVars>>
Spec ==
    /\ Init /\ [][Next]_vars
    /\ scene = "auto" => AutoFairness
    /\ scene = "magic" => MagicFairness

=============================================================================
