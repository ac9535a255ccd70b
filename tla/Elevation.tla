------------------------------ MODULE Elevation ------------------------------
(***************************************************************************)
(* mux.elevated_sessions (src/tunnel_client.rs): a counter shared by all   *)
(* sessions of how many of them run at an elevated pipeline depth.  A      *)
(* session that wants to ramp up loads the counter, compares it with       *)
(* max_elevated and adds one: separate atomic operations.  It subtracts    *)
(* one when it ramps down and at the end of tunnel_loop, but not when `?`  *)
(* leaves the loop because a write to the local socket failed.             *)
(***************************************************************************)
EXTENDS Naturals, FiniteSets

CONSTANTS Sess,        \* sessions of the mux
          MaxElevated,  \* MAX_ELEVATED_TOTAL
          MaxLeaks      \* bound on sessions whose local write fails

ASSUME ElevAssumption == IsFiniteSet(Sess) /\ MaxElevated \in Nat \ {0} /\ MaxLeaks \in Nat

VARIABLES esess,     \* per session: "low", "passed" (the test), "high", "over"
          counter,   \* elevated_sessions
          leaks      \* sessions that left through `?` while elevated

elevvars == <<esess, counter, leaks>>

ElevTypeOK ==
  /\ esess \in [Sess -> {"low", "passed", "high", "over"}]
  /\ counter \in Nat /\ leaks \in 0..MaxLeaks

ElevInit == esess = [s \in Sess |-> "low"] /\ counter = 0 /\ leaks = 0

Holders == {s \in Sess : esess[s] = "high"}
Passed == {s \in Sess : esess[s] = "passed"}

UncheckedLoad(s) == TRUE

MayElevate(s) == counter < MaxElevated

\* load and test; the loop does this only while it is not elevated.
ElevLoad(s) ==
  /\ esess[s] = "low" /\ MayElevate(s)
  /\ esess' = [esess EXCEPT ![s] = "passed"] /\ UNCHANGED <<counter, leaks>>

\* fetch_add
ElevAdd(s) ==
  /\ esess[s] = "passed" /\ esess' = [esess EXCEPT ![s] = "high"]
  /\ counter' = counter + 1 /\ UNCHANGED leaks

\* Two empty replies in a row: fetch_sub and is_elevated = false.
RampDown(s) ==
  /\ esess[s] = "high" /\ esess' = [esess EXCEPT ![s] = "low"]
  /\ counter' = counter - 1 /\ UNCHANGED leaks

\* break out of the loop: the permit is released behind it.
ElevLeave(s) ==
  /\ esess[s] \in {"low", "high"} /\ esess' = [esess EXCEPT ![s] = "over"]
  /\ counter' = (IF esess[s] = "high" THEN counter - 1 ELSE counter) /\ UNCHANGED leaks

\* write_tunnel_response(...).await? returns past the release.
ElevWriteFails(s) ==
  /\ esess[s] = "high" /\ leaks < MaxLeaks
  /\ esess' = [esess EXCEPT ![s] = "over"] /\ leaks' = leaks + 1 /\ UNCHANGED counter

\* The next connection.
ElevReopen(s) == esess[s] = "over" /\ esess' = [esess EXCEPT ![s] = "low"] /\ UNCHANGED <<counter, leaks>>

ElevNext ==
  \E s \in Sess : ElevLoad(s) \/ ElevAdd(s) \/ RampDown(s) \/ ElevLeave(s) \/ ElevWriteFails(s)
                  \/ ElevReopen(s)

ElevSpec == ElevInit /\ [][ElevNext]_elevvars

-----------------------------------------------------------------------------
(* Properties *)

\* The shared count drifts by one only for each session that `?` takes out of
\* tunnel_loop past the release: no ramp up, ramp down or ordinary end loses or
\* doubles a permit, so no fetch_sub can wrap the unsigned counter around.  And
\* the race of load and add is bounded: no more sessions are counted than
\* max_elevated plus those that can pass the test together.
ElevationBounded ==
  /\ counter = Cardinality(Holders) + leaks
  /\ counter <= MaxElevated + Cardinality(Sess) - 1
=============================================================================
