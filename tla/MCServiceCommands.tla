--------------------------- MODULE MCServiceCommands ---------------------------
(* A small instance of ServiceCommands for TLC. *)
EXTENDS ServiceCommands

\* Two that exclude one another, and a chain of three.
SmallOffers == {"infra", "ros", "rosup", "lp", "rt"}
SmallOrder == <<"lp", "rt", "infra", "ros", "rosup">>
SmallClashes == [s \in SmallOffers |-> CASE s = "lp" -> {"rt"} [] s = "rt" -> {"lp"} [] OTHER -> {}]
SmallRequires == [s \in SmallOffers |-> CASE s = "ros" -> {"infra"}
                                          [] s = "rosup" -> {"infra", "ros"} [] OTHER -> {}]
Contract(S) == [entitled |-> S, listed |-> S]
SmallSubscriptions == {Contract({"infra", "ros", "rosup"}), Contract({"lp", "rt", "infra"}),
                       [entitled |-> {"lp", "rt", "ros"}, listed |-> {"lp", "infra"}]}
SmallPlatforms == {SmallOffers, SmallOffers \ {"lp", "ros"}}

=============================================================================
