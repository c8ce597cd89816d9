------------------------- MODULE MCGuardedNovation -------------------------
(* GuardedNovation for TLC.                                                *)
EXTENDS GuardedNovation

(* Some releases on the way.                                               *)
OneByOne == {{}, {"contract-version"}, {"contract-version", "keep-billing-period"}, Guards}
=============================================================================
