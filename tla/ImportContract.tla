--------------------------- MODULE ImportContract ---------------------------
(***************************************************************************)
(* What the activation of an imported database promises, whatever crashes: *)
(* the user's database is replaced by the candidate as a whole and at most *)
(* while nothing is open on it, the replacement may be taken back only     *)
(* until it has been decided, nothing written after that decision is ever  *)
(* taken back, and the outcome that is told is the outcome that was        *)
(* decided.  When the state cannot be established the import is given up   *)
(* and nothing is opened any more.                                         *)
(***************************************************************************)
EXTENDS Naturals

CONSTANTS
  NoFile      \* no database

VARIABLES
  db,         \* the database that a start would find
  prev,       \* the database the pending import would replace
  candidate,  \* the imported database
  st,         \* how far the import is
  open,       \* a runtime is open on db
  told        \* the outcome of the last receipt

cvars == <<db, prev, candidate, st, open, told>>

Decided == {"activated", "rolled_back"}
Usable == Decided \cup {"idle"}

\* A database that came from d by writes alone.
Descends(e, d) == e.db = d.db /\ e.v >= d.v

CInit ==
  /\ db.v = 0
  /\ prev = NoFile /\ candidate = NoFile
  /\ st = "idle" /\ ~open /\ told = "none"

Offer ==
  /\ st = "idle" /\ ~open
  /\ st' = "offered"
  /\ prev' = db
  /\ candidate'.db # db.db
  /\ UNCHANGED <<db, open, told>>

Switch ==
  /\ st = "offered" /\ ~open
  /\ st' = "switched"
  /\ db' = candidate
  /\ UNCHANGED <<prev, candidate, open, told>>

Revert ==
  /\ st = "switched" /\ ~open
  /\ st' = "offered"
  /\ db' = prev
  /\ UNCHANGED <<prev, candidate, open, told>>

Decide ==
  /\ \/ st = "switched" /\ st' = "activated"
     \/ st = "offered" /\ st' = "rolled_back"
  /\ ~open
  /\ UNCHANGED <<db, prev, candidate, open, told>>

Open ==
  /\ ~open /\ st \in Usable
  /\ open' = TRUE
  /\ Descends(db', db)
  /\ UNCHANGED <<prev, candidate, st, told>>

Write ==
  /\ open
  /\ Descends(db', db)
  /\ UNCHANGED <<prev, candidate, st, open, told>>

Close ==
  /\ open
  /\ open' = FALSE
  /\ UNCHANGED <<db, prev, candidate, st, told>>

Tell ==
  /\ st \in Decided
  /\ told' = st
  /\ UNCHANGED <<db, prev, candidate, st, open>>

Settle ==
  /\ st \in Decided /\ told = st
  /\ st' = "idle"
  /\ prev' = NoFile /\ candidate' = NoFile
  /\ UNCHANGED <<db, open, told>>

\* Allowed at any stage while no runtime is open: a decided switch, too, may
\* end in manual recovery, which is what the code does when a file cannot be
\* read or no longer has the recorded hash.
GiveUp ==
  /\ ~open
  /\ st' = "given_up"
  /\ prev' = NoFile /\ candidate' = NoFile
  /\ UNCHANGED <<db, open, told>>

CNext == Offer \/ Switch \/ Revert \/ Decide \/ Open \/ Write \/ Close \/ Tell
           \/ Settle \/ GiveUp

CSpec == CInit /\ [][CNext]_cvars
=============================================================================
