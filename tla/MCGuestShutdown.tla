-------------------------- MODULE MCGuestShutdown --------------------------
(* Two guests of quick-start, one of another user's fleet, one bare VM.    *)
EXTENDS GuestShutdown, TLC
CONSTANTS q1, q2, f1, b1
MCName == [g \in Guests |-> g]
MCHome == (q1 :> "quickstart") @@ (q2 :> "quickstart") @@ (f1 :> "fleet") @@ (b1 :> "bare")
MCQuickNames == <<q1, q2>>
=============================================================================
