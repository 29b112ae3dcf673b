------------------------------ MODULE MagicAttach ------------------------------
(***************************************************************************)
(* Attaching by confirming a code in a browser: a client that initiates,    *)
(* waits and, when the wait fails, revokes (cli/attach.py); a second        *)
(* program that may revoke the same token through the API; and the contract *)
(* server's token, which the user confirms and which expires.               *)
(***************************************************************************)
EXTENDS Naturals

CONSTANTS MaxAttempts, \* MAXIMUM_ATTEMPTS (70)
          Tolerated    \* connection errors in a row that wait() forgives (3)

ASSUME MaxAttemptsAssumption == MaxAttempts \in Nat \ {0}
ASSUME ToleratedAssumption == Tolerated \in Nat

VARIABLES
    token,    \* the magic token at the server
    client,   \* where the client is
    attempts, \* num_attempts
    errors,   \* num_connection_errors
    slow,     \* wait_time is 30, not 10
    result,   \* what the client was told
    down      \* history: failed connections since the last answer, as far as Tolerated + 1

magicVars == <<token, client, attempts, errors, slow, result, down>>

Tokens == {"none", "open", "confirmed", "expired", "revoked"}
Results == {"none", "token", "invalid", "activated", "unavailable", "connectivity", "gave up", "api"}

MagicTypeOK ==
    /\ token \in Tokens /\ result \in Results /\ slow \in BOOLEAN
    /\ client \in {"initiate", "poll", "sleep", "revoke", "end"}
    /\ attempts \in 0..MaxAttempts /\ errors \in 0..Tolerated /\ down \in 0..(Tolerated + 1)

MagicInit ==
    /\ token = "none" /\ client = "initiate" /\ attempts = 0 /\ errors = 0 /\ slow = FALSE
    /\ result = "none" /\ down = 0

Finish(what) == client' = "end" /\ result' = what

\* new_magic_attach_token: 503, another status, no connection, or a token.
Initiate ==
    /\ client = "initiate"
    /\ \/ token' = "open" /\ client' = "poll" /\ UNCHANGED result
       \/ \E what \in {"unavailable", "api", "connectivity"} : Finish(what) /\ UNCHANGED token
    /\ UNCHANGED <<attempts, errors, slow, down>>

Nap == client' = "sleep" /\ UNCHANGED result

\* get_magic_attach_token_info: a token that is not known any more ends the loop, an
\* answer without a contract token goes on.
PollAnswered ==
    /\ client = "poll"
    /\ errors' = 0 /\ down' = 0 /\ slow' = FALSE
    /\ \/ token = "confirmed" /\ Finish("token")
       \/ token = "open" /\ Nap
    /\ UNCHANGED <<token, attempts>>
PollRefused ==
    /\ client = "poll" /\ token \in {"expired", "revoked"}
    /\ client' = "revoke"
    /\ UNCHANGED <<token, attempts, errors, slow, result, down>>
PollUnavailable ==
    /\ client = "poll" /\ slow' = TRUE /\ Nap
    /\ UNCHANGED <<token, attempts, errors, down>>
PollBroken ==
    /\ client = "poll" /\ Finish("api")
    /\ UNCHANGED <<token, attempts, errors, slow, down>>

\* Mutant of PollDown: the last error that should be forgiven is not.
PollDownStrict ==
    /\ client = "poll" /\ down' = IF down > Tolerated THEN down ELSE down + 1
    /\ IF errors + 1 < Tolerated THEN errors' = errors + 1 /\ Nap
                                 ELSE Finish("gave up") /\ UNCHANGED errors
    /\ UNCHANGED <<token, attempts, slow>>

\* The ConnectivityError that is raised here is told from that of the other requests.
PollDown ==
    /\ client = "poll" /\ down' = IF down > Tolerated THEN down ELSE down + 1
    /\ IF errors < Tolerated THEN errors' = errors + 1 /\ Nap
                             ELSE Finish("gave up") /\ UNCHANGED errors
    /\ UNCHANGED <<token, attempts, slow>>

\* Mutant of Slept: only polls that the server answered count.
SleptAnswered ==
    /\ client = "sleep" /\ attempts' = IF slow THEN attempts ELSE attempts + 1
    /\ client' = IF attempts' < MaxAttempts THEN "poll" ELSE "revoke"
    /\ UNCHANGED <<token, errors, slow, result, down>>

Slept ==
    /\ client = "sleep" /\ attempts' = attempts + 1
    /\ client' = IF attempts' < MaxAttempts THEN "poll" ELSE "revoke"
    /\ UNCHANGED <<token, errors, slow, result, down>>

\* Mutant of Revoke: the server's answer to the revocation is not looked at.
RevokeBlind ==
    /\ client = "revoke" /\ token' = (IF token = "open" THEN "revoked" ELSE token)
    /\ Finish("invalid")
    /\ UNCHANGED <<attempts, errors, slow, down>>

\* revoke_magic_attach_token; if it succeeds or the token is not known (401), the error of
\* the wait is raised again -- a 401 is a MagicAttachTokenError too.
Revoke ==
    /\ client = "revoke"
    /\ \/ token = "open" /\ token' = "revoked" /\ Finish("invalid")
       \/ token \in {"expired", "revoked"} /\ UNCHANGED token /\ Finish("invalid")
       \/ token = "confirmed" /\ UNCHANGED token /\ Finish("activated")
       \/ \E what \in {"unavailable", "api", "connectivity"} : Finish(what) /\ UNCHANGED token
    /\ UNCHANGED <<attempts, errors, slow, down>>

\* The browser, the server's clock and another caller of the API.
Confirm == token = "open" /\ token' = "confirmed"
Expire == token = "open" /\ token' = "expired"
RevokeElsewhere == token = "open" /\ token' = "revoked"
Server ==
    /\ Confirm \/ Expire \/ RevokeElsewhere
    /\ UNCHANGED <<client, attempts, errors, slow, result, down>>

Client == \/ Initiate \/ PollAnswered \/ PollRefused \/ PollUnavailable \/ PollBroken \/ PollDown
          \/ Slept \/ Revoke

MagicNext == Client \/ Server

MagicFairness == WF_magicVars(Client)

MagicSpec == MagicInit /\ [][MagicNext]_magicVars /\ MagicFairness

-----------------------------------------------------------------------------
\* A user who confirmed the code is never told that it was invalid or had expired: a
\* confirmation that comes after the last poll shows in the answer to the revocation.  And
\* then the code is of no more use to anybody.  "at least three more times before raising a
\* ConnectivityError" (wait/v1.py): a wait is given up for want of a connection only after
\* Tolerated + 1 failures with no answer of the server among them, whatever 503s came in
\* between.
ToldTheTruth ==
    /\ result = "invalid" => token \in {"expired", "revoked"}
    /\ result = "gave up" => down > Tolerated

\* Waiting ends, whatever the server answers and whoever else uses the token.
WaitEnds == client = "poll" ~> client \in {"revoke", "end"}

=============================================================================
