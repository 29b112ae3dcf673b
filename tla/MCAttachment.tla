----------------------------- MODULE MCAttachment -----------------------------
(* Small instances of Attachment for TLC: who runs what. *)
EXTENDS Attachment, TLC

CONSTANTS p1, p2, p3, p4

\* One process at most decides to attach before it has the lock, and nobody rewrites a
\* token read before that.
LockedWorlds ==
    { p1 :> "auto_attach" @@ p2 :> "detach_api" @@ p3 :> "auto_attach" @@ p4 :> "refresh",
      p1 :> "auto_attach" @@ p2 :> "detach_cli" @@ p3 :> "detach_api" @@ p4 :> "auto_attach",
      p1 :> "attach" @@ p2 :> "detach_cli" @@ p3 :> "detach_api" @@ p4 :> "refresh" }

\* Nobody attaches or detaches; some write the token outside the lock.
UpdateWorlds ==
    { p1 :> t @@ p2 :> "refresh" @@ p3 :> "enable" @@ p4 :> "disable" :
          t \in {"metering", "messaging"} }

CalmWorlds == LockedWorlds \cup UpdateWorlds

\* The metering job during a detach, both of which take the lock.
MeteringWorlds == { p1 :> "auto_attach" @@ p2 :> "detach_cli" @@ p3 :> "metering" }

=============================================================================
