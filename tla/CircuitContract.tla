-------------------------- MODULE CircuitContract --------------------------
(***************************************************************************)
(* What the circuit of a station key promises to those who route over it.  *)
(* A closed key may be used freely.  A key that tripped is left alone for  *)
(* a bounded cooldown and then probed by one attempt at a time, which      *)
(* holds the key until its result, its release or its expiry.  Only sent   *)
(* probes that succeed before they expire bring the key back, as many as   *)
(* were asked for when the last one was granted; a sent probe that fails   *)
(* or expires starts the next cooldown, and one that was not sent costs    *)
(* nothing.  An attempt probes one key only.                               *)
(*                                                                         *)
(* A circuit is one of                                                     *)
(*   [st |-> "closed"]                                                     *)
(*   [st |-> "open", until]           cooling down                         *)
(*   [st |-> "idle", succ]            half-open, between two probes        *)
(*   [st |-> "probing", succ, holder, sent, expires, needed]               *)
(* One step may move several circuits, since the expiry of probes is       *)
(* noticed for all keys together.                                          *)
(***************************************************************************)
EXTENDS Integers

CONSTANTS
    Keys,       \* station keys
    Attempts,   \* attempts that may probe
    Caps        \* the longest cooldowns that the policies allow

VARIABLES
    circuit,    \* the circuit of each key
    clock       \* logical time, which never runs backwards

cvars == <<circuit, clock>>

Closed == [st |-> "closed"]

CInit ==
    /\ circuit = [k \in Keys |-> Closed]
    /\ clock = 0

\* The cooldown that starts now ends in time.
CoolsDown(d, now) ==
    /\ d.st = "open"
    /\ \E cap \in Caps : now <= d.until /\ d.until <= now + cap

Trip(c, d, now) ==
    /\ c.st = "closed"
    /\ CoolsDown(d, now)

\* A first probe after the cooldown, or the next one of the same round.
Grant(c, d, now) ==
    /\ \/ c.st = "open" /\ c.until <= now /\ d.succ = 0
       \/ c.st = "idle" /\ d.succ = c.succ
    /\ d.st = "probing"
    /\ d.holder \in Attempts
    /\ ~d.sent
    /\ d.expires >= now
    /\ d.needed >= 1

Send(c, d) ==
    /\ c.st = "probing" /\ ~c.sent
    /\ d = [c EXCEPT !.sent = TRUE]

Release(c, d) ==
    /\ c.st = "probing"
    /\ d = [st |-> "idle", succ |-> c.succ]

Reopen(c, d, now) ==
    /\ c.st = "probing" /\ c.sent
    /\ CoolsDown(d, now)

Recover(c, d, now) ==
    /\ c.st = "probing" /\ c.sent
    /\ now < c.expires
    /\ IF c.succ + 1 >= c.needed
       THEN d = Closed
       ELSE d = [st |-> "idle", succ |-> c.succ + 1]

KeyStep(c, d, now) ==
    \/ d = c
    \/ Trip(c, d, now)
    \/ Grant(c, d, now)
    \/ Send(c, d)
    \/ Release(c, d)
    \/ Reopen(c, d, now)
    \/ Recover(c, d, now)

\* No attempt holds two keys.
Exclusive(state) ==
    \A j, k \in Keys :
        /\ state[j].st = "probing"
        /\ state[k].st = "probing"
        /\ state[j].holder = state[k].holder
        => j = k

CNext ==
    /\ clock' >= clock
    /\ \A k \in Keys : KeyStep(circuit[k], circuit'[k], clock')
    /\ Exclusive(circuit')

CSpec == CInit /\ [][CNext]_cvars
=============================================================================
