----------------------------- MODULE ScriptPool -----------------------------
(***************************************************************************)
(* Choice of an Apps Script deployment (src/src/domain_fronter.rs): the    *)
(* round-robin index, the blacklist with its cooldowns, the timeout        *)
(* strikes of full-tunnel batches and the hard-stop flags of the quota     *)
(* tracker, which a pick reads one at a time while other calls change      *)
(* them.  next_script_id and next_script_ids hold the blacklist lock for   *)
(* the whole pick, so nothing else reads or writes the blacklist then.     *)
(* A cooldown is a number of ticks; a pick takes no time.                  *)
(***************************************************************************)
EXTENDS Integers, Sequences, FiniteSets

CONSTANTS
  ScriptIds,    \* the configured deployments, in order; an id may be listed twice
  StrikeLimit,  \* auto_blacklist_strikes
  ShortCool,    \* auto_blacklist_cooldown, in ticks
  LongCool,     \* BLACKLIST_COOLDOWN_SECS, in ticks
  MaxFan        \* largest fan-out of next_script_ids

Deployments == {ScriptIds[i] : i \in 1..Len(ScriptIds)}
NScripts == Len(ScriptIds)

ASSUME ScriptAssumption ==
  /\ ScriptIds \in Seq(Deployments) /\ NScripts >= 1
  /\ StrikeLimit \in Nat \ {0} /\ MaxFan \in Nat \ {0}
  /\ ShortCool \in Nat /\ LongCool \in Nat

VARIABLES
  sidx,     \* script_idx modulo the number of scripts
  until,    \* ticks left on the blacklist, 0 when not on it
  strikes,  \* timeouts counted in an open strike window
  stopped,  \* scripts QuotaTracker::is_hard_stopped answers true for
  scan      \* the pick under way

poolScriptVars == <<sidx, until, strikes, stopped, scan>>

MaxCool == IF ShortCool > LongCool THEN ShortCool ELSE LongCool
NoScan == [phase |-> "none", many |-> FALSE, want |-> 0, left |-> 0,
           picked |-> {}, steady |-> {}, shunned |-> {}]

ScriptTypeOK ==
  /\ sidx \in 0..(NScripts - 1)
  /\ until \in [Deployments -> 0..MaxCool]
  /\ strikes \in [Deployments -> 0..(StrikeLimit - 1)]
  /\ stopped \subseteq Deployments
  /\ scan \in [phase : {"none", "scan", "done"}, many : BOOLEAN, want : 0..MaxFan,
               left : 0..NScripts, picked : SUBSET Deployments,
               steady : SUBSET Deployments, shunned : SUBSET Deployments]

ScriptInit ==
  /\ sidx = 0 /\ until = [s \in Deployments |-> 0]
  /\ strikes = [s \in Deployments |-> 0]
  /\ stopped \in SUBSET Deployments /\ scan = NoScan

BlacklistFree == scan.phase # "scan"
Listed == {s \in Deployments : until[s] > 0}

-----------------------------------------------------------------------------
(* next_script_id, next_script_ids *)

ScanShort == NScripts - 1

\* Both loops look at every entry of the list once, starting at the shared index.
ScanLength == NScripts

\* steady and shunned follow the scripts that stay available, or stay
\* unavailable, for the whole pick.
PickStart(many, want) ==
  /\ scan.phase = "none"
  /\ scan' = [phase |-> "scan", many |-> many, want |-> want, left |-> ScanLength,
              picked |-> {}, steady |-> Deployments \ (Listed \cup stopped), shunned |-> Listed \cup stopped]
  /\ UNCHANGED <<sidx, until, strikes, stopped>>

PickStep ==
  LET s == ScriptIds[sidx + 1]
      take == s \notin Listed \cup stopped \cup scan.picked
      got == IF take THEN scan.picked \cup {s} ELSE scan.picked IN
  /\ scan.phase = "scan" /\ scan.left > 0 /\ Cardinality(scan.picked) < scan.want
  /\ sidx' = (sidx + 1) % NScripts
  /\ scan' = [scan EXCEPT !.left = @ - 1, !.picked = got,
                          !.phase = IF Cardinality(got) = scan.want THEN "done" ELSE @]
  /\ UNCHANGED <<until, strikes, stopped>>

\* The soonest-free of a set of blacklisted scripts.
Soonest(S) == {s \in S : \A t \in S : until[s] <= until[t]}

\* next_script_id found none: a blacklisted one that is not stopped, any
\* blacklisted one, or the first; a blacklisted choice leaves the blacklist.
PickFallback ==
  LET spare == IF Listed \ stopped # {} THEN Listed \ stopped ELSE Listed IN
  /\ scan.phase = "scan" /\ scan.left = 0 /\ ~scan.many /\ scan.picked = {}
  /\ \/ /\ spare # {}
        /\ \E s \in Soonest(spare) :
             /\ until' = [until EXCEPT ![s] = 0]
             /\ scan' = [scan EXCEPT !.phase = "done", !.picked = {s}]
     \/ /\ spare = {}
        /\ scan' = [scan EXCEPT !.phase = "done", !.picked = {ScriptIds[1]}] /\ UNCHANGED until
  /\ UNCHANGED <<sidx, strikes, stopped>>

\* next_script_ids returns what it found, or the first script alone.
PickManyEnds ==
  /\ scan.phase = "scan" /\ scan.left = 0 /\ scan.many
  /\ scan' = [scan EXCEPT !.phase = "done", !.picked = IF @ = {} THEN {ScriptIds[1]} ELSE @]
  /\ UNCHANGED <<sidx, until, strikes, stopped>>

PickReturn ==
  /\ scan.phase = "done" /\ scan' = NoScan
  /\ UNCHANGED <<sidx, until, strikes, stopped>>

-----------------------------------------------------------------------------
(* Blacklisting and strikes *)

\* blacklist_script: a relay or tunnel response carried a blacklisting status
\* or a quota text.
BlacklistScript(s) ==
  /\ BlacklistFree
  /\ until' = [until EXCEPT ![s] = LongCool]
  /\ UNCHANGED <<sidx, strikes, stopped, scan>>

\* record_timeout_strike: a batch timed out on s.
TimeoutStrike(s) ==
  /\ \/ /\ strikes[s] + 1 < StrikeLimit
        /\ strikes' = [strikes EXCEPT ![s] = @ + 1] /\ UNCHANGED until
     \/ /\ strikes[s] + 1 = StrikeLimit /\ BlacklistFree
        /\ strikes' = [strikes EXCEPT ![s] = 0]
        /\ until' = [until EXCEPT ![s] = ShortCool]
  /\ UNCHANGED <<sidx, stopped, scan>>

\* record_batch_success, or the window that began with the first strike is
\* over and the next strike will count as one.
StrikesCleared(s) ==
  /\ strikes[s] > 0
  /\ strikes' = [strikes EXCEPT ![s] = 0]
  /\ UNCHANGED <<sidx, until, stopped, scan>>

Tick ==
  /\ BlacklistFree /\ \E s \in Deployments : until[s] > 0
  /\ until' = [s \in Deployments |-> IF until[s] > 0 THEN until[s] - 1 ELSE 0]
  /\ UNCHANGED <<sidx, strikes, stopped, scan>>

\* The quota tracker's flag as a pick sees it: set by record_attempt and
\* mark_exhausted, cleared when the account's window rolls.
QuotaFlips(s) ==
  /\ stopped' = IF s \in stopped THEN stopped \ {s} ELSE stopped \cup {s}
  /\ scan' = IF scan.phase = "scan"
               THEN [scan EXCEPT !.steady = @ \ {s}, !.shunned = IF s \in Listed THEN @ ELSE @ \ {s}]
               ELSE scan
  /\ UNCHANGED <<sidx, until, strikes>>

ScriptNext ==
  \/ PickStart(FALSE, 1) \/ \E k \in 1..MaxFan : PickStart(TRUE, k)
  \/ PickStep \/ PickFallback \/ PickManyEnds \/ PickReturn \/ Tick
  \/ \E s \in Deployments : BlacklistScript(s) \/ TimeoutStrike(s) \/ StrikesCleared(s)
                        \/ QuotaFlips(s)

ScriptSpec == ScriptInit /\ [][ScriptNext]_poolScriptVars

-----------------------------------------------------------------------------
(* Properties *)

\* A deployment that is usable for the whole of a pick is never passed over
\* for one that is not: the pick either takes every such deployment, or
\* returns as many as it was asked for and none that was blacklisted or
\* stopped throughout, whatever flags flip between its reads.
AvailablePreferred ==
  scan.phase = "done"
    => \/ scan.steady \subseteq scan.picked
       \/ Cardinality(scan.picked) = scan.want /\ scan.picked \cap scan.shunned = {}
=============================================================================
