---------------------------- MODULE H2Transport ----------------------------
(***************************************************************************)
(* The HTTP/2 fast path of DomainFronter (src/src/domain_fronter.rs): one  *)
(* shared connection in h2_cell, opened under h2_open_lock by whichever    *)
(* relay call finds none, replaced by generations and switched off for     *)
(* good when the edge refuses it.  Payloads, redirects and the h2_calls /  *)
(* h2_fallbacks counters are left out: an exchange ends well, is refused,  *)
(* fails before it was sent or after.  Lifetimes and the back-off after a  *)
(* failed open are flags that time may set and clear at any step.          *)
(***************************************************************************)
EXTENDS Integers, FiniteSets

CONSTANTS
  Callers,      \* concurrent relay calls
  MaxGen        \* bound: h2 connections opened

ASSUME H2Assumption == MaxGen \in Nat /\ "none" \notin Callers

VARIABLES
  cell,      \* generation in h2_cell, 0 when it is None
  gens,      \* h2_generation: connections opened so far
  alive,     \* generations whose connection still works
  flagged,   \* generations whose driver has set `dead`
  aged,      \* generations older than H2_CONN_TTL_SECS
  disabled,  \* h2_disabled
  backoff,   \* h2_open_failed_at is within H2_OPEN_FAILURE_BACKOFF_SECS
  opener,    \* holder of h2_open_lock
  tpc, tgen  \* per caller: its step, the generation it was handed

connvars == <<gens, alive, flagged, aged>>
h2vars == <<cell, gens, alive, flagged, aged, disabled, backoff, opener, tpc, tgen>>

NoCaller == "none"

H2TypeOK ==
  /\ gens \in 0..MaxGen /\ cell \in 0..gens
  /\ alive \subseteq 1..gens /\ flagged \subseteq (1..gens) \ alive /\ aged \subseteq 1..gens
  /\ disabled \in BOOLEAN /\ backoff \in BOOLEAN
  /\ opener = IF \E c \in Callers : tpc[c] = "opening"
                THEN CHOOSE c \in Callers : tpc[c] = "opening" ELSE NoCaller
  /\ tpc \in [Callers -> {"idle", "backoff", "trylock", "opening", "h2", "h1"}]
  /\ tgen \in [Callers -> 0..gens]

\* force_http1 starts with the fast path disabled.
H2Init ==
  /\ cell = 0 /\ gens = 0 /\ alive = {} /\ flagged = {} /\ aged = {}
  /\ disabled \in BOOLEAN /\ backoff = FALSE /\ opener = NoCaller
  /\ tpc = [c \in Callers |-> "idle"] /\ tgen = [c \in Callers |-> 0]

Goto(c, p) == tpc' = [tpc EXCEPT ![c] = p]

\* Back to idle: the call is over, or goes on over h1 and comes back later.
H2Over(c, p) == Goto(c, p) /\ tgen' = [tgen EXCEPT ![c] = 0]

-----------------------------------------------------------------------------
(* ensure_h2 *)

\* A cell that is handed out: within its lifetime and not flagged dead.
Usable == cell # 0 /\ cell \notin aged /\ cell \notin flagged

UseCell(c) == Goto(c, "h2") /\ tgen' = [tgen EXCEPT ![c] = cell]

EnsureFast(c) ==
  /\ tpc[c] = "idle"
  /\ \/ disabled /\ H2Over(c, "h1")
     \/ ~disabled /\ Usable /\ UseCell(c)
     \/ ~disabled /\ ~Usable /\ Goto(c, "backoff") /\ UNCHANGED tgen
  /\ UNCHANGED <<connvars, cell, disabled, backoff, opener>>

EnsureBackoff(c) ==
  /\ tpc[c] = "backoff"
  /\ Goto(c, IF backoff THEN "h1" ELSE "trylock")
  /\ UNCHANGED <<connvars, cell, disabled, backoff, opener, tgen>>

\* try_lock: the loser takes h1; the winner looks at the cell once more.
EnsureLock(c) ==
  /\ tpc[c] = "trylock"
  /\ \/ opener # NoCaller /\ Goto(c, "h1") /\ UNCHANGED <<opener, tgen>>
     \/ opener = NoCaller /\ Usable /\ UseCell(c) /\ UNCHANGED opener
     \/ opener = NoCaller /\ ~Usable /\ opener' = c /\ Goto(c, "opening") /\ UNCHANGED tgen
  /\ UNCHANGED <<connvars, cell, disabled, backoff>>

OpenDone(c) == tpc[c] = "opening" /\ opener' = NoCaller

EnsureOpened(c) ==
  /\ OpenDone(c) /\ gens < MaxGen
  /\ gens' = gens + 1 /\ cell' = gens + 1 /\ alive' = alive \cup {gens + 1}
  /\ backoff' = FALSE
  /\ Goto(c, "h2") /\ tgen' = [tgen EXCEPT ![c] = gens + 1]
  /\ UNCHANGED <<flagged, aged, disabled>>

\* ALPN did not give h2.
EnsureRefused(c) ==
  /\ OpenDone(c)
  /\ disabled' = TRUE /\ cell' = 0 /\ Goto(c, "h1")
  /\ UNCHANGED <<connvars, backoff, tgen>>

\* The handshake failed or took longer than H2_OPEN_TIMEOUT_SECS.
EnsureFailed(c) ==
  /\ OpenDone(c)
  /\ backoff' = TRUE /\ cell' = 0 /\ Goto(c, "h1")
  /\ UNCHANGED <<connvars, disabled, tgen>>

-----------------------------------------------------------------------------
(* One relay over h2: run_h2_relay_with_send and its callers *)

PoisonAny(g) == cell' = 0

\* poison_h2_if_gen: clears the cell only while it holds this generation.
Poison(g) == cell' = IF cell = g THEN 0 ELSE cell

H2RelayOk(c) ==
  /\ tpc[c] = "h2" /\ tgen[c] \in alive
  /\ H2Over(c, "idle")
  /\ UNCHANGED <<connvars, cell, disabled, backoff, opener>>

\* Status 421: the edge refuses the fronted request, h2 stays off for good.
FrontingRefused(c) ==
  /\ tpc[c] = "h2" /\ tgen[c] \in alive
  /\ disabled' = TRUE /\ cell' = 0
  /\ H2Over(c, "h1")
  /\ UNCHANGED <<connvars, backoff, opener>>

\* A round trip failed: the call goes on over h1 (nothing was sent, or the
\* method may be replayed) or is over (NonRetryable).
RoundTripFails(c) ==
  /\ tpc[c] = "h2"
  /\ Poison(tgen[c])
  /\ \E next \in {"h1", "idle"} : H2Over(c, next)
  /\ UNCHANGED <<connvars, disabled, backoff, opener>>

\* The call's own timeout drops it: the open lock is released and the
\* connection is not poisoned.
CallDropped(c) ==
  /\ tpc[c] \in {"opening", "h2"}
  /\ opener' = IF opener = c THEN NoCaller ELSE opener
  /\ H2Over(c, "idle")
  /\ UNCHANGED <<connvars, cell, disabled, backoff>>

H1Over(c) ==
  /\ tpc[c] = "h1" /\ H2Over(c, "idle")
  /\ UNCHANGED <<connvars, cell, disabled, backoff, opener>>

-----------------------------------------------------------------------------
(* The connection, its driver task and the clock *)

ConnDies(g) ==
  /\ g \in alive /\ alive' = alive \ {g}
  /\ UNCHANGED <<cell, gens, flagged, aged, disabled, backoff, opener, tpc, tgen>>

DriverFlags(g) ==
  /\ g \in (1..gens) \ (alive \cup flagged) /\ flagged' = flagged \cup {g}
  /\ UNCHANGED <<cell, gens, alive, aged, disabled, backoff, opener, tpc, tgen>>

CellAges ==
  /\ cell # 0 /\ cell \notin aged /\ aged' = aged \cup {cell}
  /\ UNCHANGED <<cell, gens, alive, flagged, disabled, backoff, opener, tpc, tgen>>

BackoffEnds ==
  /\ backoff /\ backoff' = FALSE
  /\ UNCHANGED <<connvars, cell, disabled, opener, tpc, tgen>>

H2Next ==
  \/ \E c \in Callers :
       \/ EnsureFast(c) \/ EnsureBackoff(c) \/ EnsureLock(c)
       \/ EnsureOpened(c) \/ EnsureRefused(c) \/ EnsureFailed(c)
       \/ H2RelayOk(c) \/ FrontingRefused(c) \/ RoundTripFails(c)
       \/ CallDropped(c) \/ H1Over(c)
  \/ \E g \in 1..MaxGen : ConnDies(g) \/ DriverFlags(g)
  \/ CellAges \/ BackoffEnds

H2Spec == H2Init /\ [][H2Next]_h2vars

-----------------------------------------------------------------------------
(* Properties *)

\* A connection that ensure_h2 would still hand out is dropped from h2_cell
\* only when h2 is switched off or when a call failed on that very connection:
\* a late failure on an older generation, or a second opener, never discards
\* a healthy newer connection (poison_h2_if_gen, h2_open_lock).
HealthyCellKept ==
  [][ (Usable /\ cell' # cell)
        => \/ disabled'
           \/ \E c \in Callers : tpc[c] = "h2" /\ tgen[c] = cell /\ tpc'[c] # "h2" ]_h2vars
=============================================================================
