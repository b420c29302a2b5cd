----------------------------- MODULE BookMirror -----------------------------
(***************************************************************************)
(* What a synchronised order book promises, whatever the feed: a local     *)
(* book is either absent or exactly the venue's book as of some update, it *)
(* never steps back while it lasts, and is never ahead of the venue.       *)
(* DepthBook shows that the synchronisers of data/binance.py and           *)
(* data/okx.py, as data/forward.py drives them, keep the promise.          *)
(***************************************************************************)
EXTENDS Integers

Absent == -1

VARIABLES
    venue,     \* the venue's last update
    mirror     \* the update the local book reproduces, or Absent

Init == venue \in Nat /\ mirror = Absent

Grow == venue' \in Nat /\ venue' > venue /\ UNCHANGED mirror

Appear == mirror = Absent /\ mirror' \in 0 .. venue /\ UNCHANGED venue

Follow == mirror # Absent /\ mirror' \in mirror .. venue /\ UNCHANGED venue

Vanish == mirror' = Absent /\ UNCHANGED venue

Next == Grow \/ Appear \/ Follow \/ Vanish

Spec == Init /\ [][Next]_<<venue, mirror>>
=============================================================================
