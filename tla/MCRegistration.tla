--------------------------- MODULE MCRegistration ---------------------------
(***************************************************************************)
(* Small instances of Registration.                                        *)
(***************************************************************************)
EXTENDS Registration

CONSTANTS b1, b2, a1, a2, outside

\* The key of a1 may be exported with two types, and with that of a2.
MCBatches ==
    {a1 :> "user", a1 :> "hot", a2 :> "hot", a2 :> "cold",
     a1 :> "user" @@ a2 :> "hot", a1 :> "hot" @@ a2 :> "cold"}

=============================================================================
